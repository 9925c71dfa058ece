----------------------------- MODULE SmbWrites -----------------------------
(***************************************************************************)
(* Writing one path over SMB (synology-filestation-smb transport.rs):      *)
(* write_atomic and write_from_path, which stage a .part and rename it     *)
(* over the target; write_new_from_path, which creates the target itself   *)
(* and removes what it could not finish; and SmbWriteHandle, the writer    *)
(* positioned at the next offset behind an open streamed file.             *)
(*                                                                         *)
(* Writers run on transports of their own (several mounts and several      *)
(* processes), so no lock is common to them.  Any request, a create as     *)
(* well as a rename, may be carried out and its answer lost, and a caller  *)
(* may be dropped between any two.  A file's content is who made it and    *)
(* whether it is all there, in part, or empty: made by a create whose      *)
(* answer was lost, so that nothing was written to it.                     *)
(***************************************************************************)
EXTENDS FiniteSets, Naturals

CONSTANTS Writers,
          MethodOf,    \* atomic (write_atomic), staged (write_from_path), new
                       \* (write_new_from_path), or handle (a streamed write handle)
          ModeOf,      \* for a handle: WriteOpen::CreateNew or Existing
          Old,         \* whoever wrote the file that is there at first
          MaxChunks    \* bound: chunks a handle writes

WritesAssumption ==
    /\ MethodOf \in [Writers -> {"atomic", "staged", "new", "handle"}]
    /\ ModeOf \in [Writers -> {"create", "existing"}]
    /\ Old \notin Writers
    /\ MaxChunks \in Nat

VARIABLES target,    \* the file at the path: who made it, and how much of it is there
          temp,      \* per writer: how much there is of its .part
          phase,     \* per writer
          open,      \* per handle: its FileWriter is open
          position,  \* per handle: where the FileWriter puts the next chunk
          next,      \* per handle: where the handle thinks it does
          asked,     \* per handle: the offset of the write under way
          chunks,    \* bound
          linked,    \* writers whose open file is the one the path leads to
          excuse     \* history: writers dropped, or whose cleanup failed

writer == <<open, position, next, asked, chunks>>
vars == <<target, temp, phase, writer, linked, excuse>>

Absent == [by |-> "nobody", how |-> "absent"]
File(w, how) == [by |-> w, how |-> how]
Phases == {"idle", "staging", "committing", "cleaning", "filling", "removing",
           "between", "writing", "finishing", "reopening", "closing", "ok", "failed", "gone"}

TypeOK ==
    /\ target \in {Absent} \cup {File(w, how) : w \in Writers \cup {Old}, how \in {"empty", "part", "whole"}}
    /\ temp \in [Writers -> {"absent", "empty", "part", "whole"}]
    /\ phase \in [Writers -> Phases]
    /\ open \in [Writers -> BOOLEAN]
    /\ position \in [Writers -> 0 .. MaxChunks + 1]
    /\ next \in [Writers -> 0 .. MaxChunks + 1]
    /\ asked \in [Writers -> 0 .. MaxChunks]
    /\ chunks \in [Writers -> 0 .. MaxChunks]
    /\ linked \subseteq Writers /\ excuse \subseteq Writers

Init ==
    /\ target \in {Absent, File(Old, "whole")}
    /\ temp = [w \in Writers |-> "absent"]
    /\ phase = [w \in Writers |-> "idle"]
    /\ open = [w \in Writers |-> FALSE]
    /\ position = [w \in Writers |-> 0]
    /\ next = [w \in Writers |-> 0]
    /\ asked = [w \in Writers |-> 0]
    /\ chunks = [w \in Writers |-> 0]
    /\ linked = {} /\ excuse = {}

Goes(w, p) == phase' = [phase EXCEPT ![w] = p]

-----------------------------------------------------------------------------
(* write_atomic and write_from_path. *)

StageBegins(w) ==
    /\ MethodOf[w] \in {"atomic", "staged"} /\ phase[w] = "idle"
    /\ temp' = [temp EXCEPT ![w] = "part"]
    /\ Goes(w, "staging")
    /\ UNCHANGED <<target, writer, linked, excuse>>

Staged(w) ==
    /\ phase[w] = "staging"
    /\ temp' = [temp EXCEPT ![w] = "whole"]
    /\ Goes(w, "committing")
    /\ UNCHANGED <<target, writer, linked, excuse>>

\* write_from_path's create of the .part is refused, or carried out and its answer
\* lost: it returns, and deletes nothing.  (write_atomic deletes whatever is there
\* when any part of its staging fails, as StageFails has it.)
StageUnanswered(w) ==
    /\ MethodOf[w] = "staged" /\ phase[w] = "idle"
    /\ temp' \in {temp, [temp EXCEPT ![w] = "empty"]}
    /\ Goes(w, "failed")
    /\ UNCHANGED <<target, writer, linked, excuse>>

\* Mutant: so does a chunk or the finish that fails.
StageFails_Returns(w) ==
    /\ phase[w] = "staging"
    /\ Goes(w, "failed")
    /\ UNCHANGED <<target, temp, writer, linked, excuse>>

\* A chunk, the local file or the finish fails.
StageFails(w) ==
    /\ phase[w] = "staging"
    /\ Goes(w, "cleaning")
    /\ UNCHANGED <<target, temp, writer, linked, excuse>>

\* What the server does for commit_temp: one rename that replaces.
RenameOver(w) ==
    /\ target' = File(w, temp[w])
    /\ temp' = [temp EXCEPT ![w] = "absent"]
    /\ linked' = {}

\* Mutant: the staged file is committed however its staging ended.
Committed_Anyway(w) ==
    /\ phase[w] \in {"staging", "committing"}
    /\ RenameOver(w)
    /\ Goes(w, "ok")
    /\ UNCHANGED <<writer, excuse>>

Committed(w) ==
    /\ phase[w] = "committing"
    /\ RenameOver(w)
    /\ Goes(w, "ok")
    /\ UNCHANGED <<writer, excuse>>

\* The rename fails, or is carried out and its answer lost.
CommitFails(w) ==
    /\ phase[w] = "committing"
    /\ \/ RenameOver(w)
       \/ UNCHANGED <<target, temp, linked>>
    /\ Goes(w, "cleaning")
    /\ UNCHANGED <<writer, excuse>>

\* Mutant: a commit that fails leaves its .part behind.
Cleaned_Not(w) ==
    /\ phase[w] = "cleaning"
    /\ Goes(w, "failed")
    /\ UNCHANGED <<target, temp, writer, linked, excuse>>

\* The .part is deleted, which is best effort.
Cleaned(w) ==
    /\ phase[w] = "cleaning"
    /\ \/ temp' = [temp EXCEPT ![w] = "absent"] /\ UNCHANGED excuse
       \/ excuse' = excuse \cup {w} /\ UNCHANGED temp
    /\ Goes(w, "failed")
    /\ UNCHANGED <<target, writer, linked>>

-----------------------------------------------------------------------------
(* write_new_from_path. *)

\* create_file_writer_exclusive: the server creates the name or finds it taken.
CreateNew(w) ==
    /\ target = Absent
    /\ target' = File(w, "part")
    /\ linked' = linked \cup {w}

\* A create that is not answered: it may have been carried out, and nobody will
\* write through what it opened.
CreateUnanswered(w) ==
    \/ UNCHANGED target
    \/ target = Absent /\ target' = File(w, "empty")

\* The exclusive create, and the pump that follows it.
FillBegins(w) ==
    /\ MethodOf[w] = "new" /\ phase[w] = "idle"
    /\ CreateNew(w)
    /\ Goes(w, "filling")
    /\ UNCHANGED <<temp, writer, excuse>>

\* It is refused for another reason than the name's being taken, or not answered: the
\* error is returned, and the name it may have made is not removed.
FillUnanswered(w) ==
    /\ MethodOf[w] = "new" /\ phase[w] = "idle"
    /\ CreateUnanswered(w)
    /\ Goes(w, "failed")
    /\ UNCHANGED <<temp, writer, linked, excuse>>

\* Another writer's rename may have taken the name meanwhile; what is written
\* through the open handle then goes to a file no name leads to.
Filled(w) ==
    /\ phase[w] = "filling"
    /\ target' = IF w \in linked THEN File(w, "whole") ELSE target
    /\ linked' = linked \ {w}
    /\ Goes(w, "ok")
    /\ UNCHANGED <<temp, writer, excuse>>

FillFails(w) ==
    /\ phase[w] = "filling"
    /\ Goes(w, "removing")
    /\ UNCHANGED <<target, temp, writer, linked, excuse>>

\* Mutant: what was created is left as it is.
Removed_Not(w) ==
    /\ phase[w] = "removing"
    /\ Goes(w, "failed")
    /\ UNCHANGED <<target, temp, writer, linked, excuse>>

\* What it created is removed, by its name, as best it can.
Removed(w) ==
    /\ phase[w] = "removing"
    /\ \/ target' = Absent /\ linked' = {} /\ UNCHANGED excuse
       \/ excuse' = excuse \cup {w} /\ UNCHANGED <<target, linked>>
    /\ Goes(w, "failed")
    /\ UNCHANGED <<temp, writer>>

\* The name is taken: an answer, and nothing to clean up.
NameTaken(w) ==
    /\ phase[w] = "idle" /\ target # Absent
    /\ MethodOf[w] = "new" \/ (MethodOf[w] = "handle" /\ ModeOf[w] = "create")
    /\ Goes(w, "failed")
    /\ UNCHANGED <<target, temp, writer, linked, excuse>>

-----------------------------------------------------------------------------
(* SmbWriteHandle. *)

\* open_write: CreateNew creates at once, Existing opens nothing yet.
OpenWrite(w) ==
    /\ MethodOf[w] = "handle" /\ phase[w] = "idle"
    /\ IF ModeOf[w] = "create"
       THEN CreateNew(w) /\ open' = [open EXCEPT ![w] = TRUE]
       ELSE UNCHANGED <<target, open, linked>>
    /\ Goes(w, "between")
    /\ UNCHANGED <<temp, position, next, asked, chunks, excuse>>

\* The eager create is not answered: open_write returns its error.
OpenUnanswered(w) ==
    /\ MethodOf[w] = "handle" /\ ModeOf[w] = "create" /\ phase[w] = "idle"
    /\ CreateUnanswered(w)
    /\ Goes(w, "failed")
    /\ UNCHANGED <<temp, writer, linked, excuse>>

\* write_at: a write away from where the open writer sits closes it first.
WriteAt(w, offset) ==
    /\ phase[w] = "between" /\ chunks[w] < MaxChunks
    /\ chunks' = [chunks EXCEPT ![w] = @ + 1]
    /\ asked' = [asked EXCEPT ![w] = offset]
    /\ Goes(w, IF open[w] /\ next[w] = offset THEN "writing"
               ELSE IF open[w] THEN "finishing" ELSE "reopening")
    /\ UNCHANGED <<target, temp, open, position, next, linked, excuse>>

\* finish_writer on the way to another offset.
WriterFinished(w) ==
    /\ phase[w] = "finishing"
    /\ open' = [open EXCEPT ![w] = FALSE]
    /\ \E p \in {"reopening", "failed"} : Goes(w, p)
    /\ UNCHANGED <<target, temp, position, next, asked, chunks, linked, excuse>>

\* Mutant: the handle keeps the offset it thought it was at.
Reopened_StaleNext(w) ==
    /\ phase[w] = "reopening"
    /\ target' = IF target = Absent THEN File(w, "part") ELSE target
    /\ linked' = linked \cup {w}
    /\ open' = [open EXCEPT ![w] = TRUE]
    /\ position' = [position EXCEPT ![w] = asked[w]]
    /\ Goes(w, "writing")
    /\ UNCHANGED <<temp, next, asked, chunks, excuse>>

\* reopen_at: FileOpenIf, which creates the file only when it is absent.
Reopened(w) ==
    /\ phase[w] = "reopening"
    /\ target' = IF target = Absent THEN File(w, "part") ELSE target
    /\ linked' = linked \cup {w}
    /\ open' = [open EXCEPT ![w] = TRUE]
    /\ position' = [position EXCEPT ![w] = asked[w]]
    /\ next' = [next EXCEPT ![w] = asked[w]]
    /\ Goes(w, "writing")
    /\ UNCHANGED <<temp, asked, chunks, excuse>>

\* write_chunk, at the writer's own position; the bytes are in place at once, so
\* the file is in part until the handle is closed.
Written(w) ==
    /\ phase[w] = "writing"
    /\ position' = [position EXCEPT ![w] = @ + 1]
    /\ next' = [next EXCEPT ![w] = asked[w] + 1]
    /\ target' = IF w \in linked THEN File(w, "part") ELSE target
    /\ Goes(w, "between")
    /\ UNCHANGED <<temp, open, asked, chunks, linked, excuse>>

\* A reopen or a chunk fails, or is carried out and its answer lost: the caller gives
\* the stream up.
WriteFails(w) ==
    /\ \/ phase[w] = "reopening" /\ CreateUnanswered(w)
       \/ /\ phase[w] = "writing"
          /\ UNCHANGED target \/ (w \in linked /\ target' = File(w, "part"))
    /\ Goes(w, "failed")
    /\ UNCHANGED <<temp, writer, linked, excuse>>

\* close: a handle nothing was written through still names a file its caller
\* expects, so it is opened at 0 first.
CloseHandle(w) ==
    LET creates == ~ open[w] /\ next[w] = 0 /\ target = Absent
        completes == open[w] /\ w \in linked
    IN
    /\ phase[w] = "between"
    /\ open' = [open EXCEPT ![w] = FALSE]
    /\ linked' = linked \ {w}
    /\ \/ /\ Goes(w, "failed")
          /\ IF creates THEN CreateUnanswered(w) ELSE UNCHANGED target
       \/ Goes(w, "ok") /\ target' = IF creates \/ completes THEN File(w, "whole") ELSE target
    /\ UNCHANGED <<temp, position, next, asked, chunks, excuse>>

-----------------------------------------------------------------------------
\* The caller's future is dropped, or its process dies.
Dropped(w) ==
    /\ phase[w] \notin {"idle", "ok", "failed", "gone"}
    /\ excuse' = excuse \cup {w}
    /\ Goes(w, "gone")
    /\ UNCHANGED <<target, temp, writer, linked>>

Atomic(w) == StageBegins(w) \/ StageUnanswered(w) \/ Staged(w) \/ StageFails(w)
             \/ Committed(w) \/ CommitFails(w) \/ Cleaned(w)
New(w) == FillBegins(w) \/ FillUnanswered(w) \/ Filled(w) \/ FillFails(w)
          \/ Removed(w) \/ NameTaken(w)
Handle(w) == OpenWrite(w) \/ OpenUnanswered(w) \/ (\E offset \in 0 .. MaxChunks : WriteAt(w, offset))
             \/ WriterFinished(w) \/ Reopened(w) \/ Written(w) \/ WriteFails(w)
             \/ CloseHandle(w)

Next == \E w \in Writers : Atomic(w) \/ New(w) \/ Handle(w) \/ Dropped(w)

Spec == Init /\ [][Next]_vars

-----------------------------------------------------------------------------
(* Properties. *)

\* Old or new: whatever fails, is lost or is dropped, the path holds part of a
\* file only while somebody writes it in place, where one who did was dropped or
\* could not remove what it had made, or where a stream was given up for its caller to
\* retry; and a create nobody answered leaves at most an empty file.
OldOrNew ==
    (target # Absent /\ target.how # "whole") =>
        LET w == target.by
        IN  \/ MethodOf[w] = "handle"
            \/ MethodOf[w] = "new"
               /\ \/ phase[w] \in {"filling", "removing"} \/ w \in excuse
                  \/ phase[w] = "failed" /\ target.how = "empty"

\* A .part is left behind only by a writer that was dropped or could not reach the
\* NAS to delete it, and an empty one by a write_from_path whose create was not
\* answered.
PartsCleaned ==
    \A w \in Writers :
        (phase[w] \in {"ok", "failed", "gone"} /\ temp[w] # "absent") =>
            \/ w \in excuse
            \/ phase[w] = "failed" /\ MethodOf[w] = "staged" /\ temp[w] = "empty"

\* What write_new_from_path's comment says (transport.rs:1778-1780): a transfer that
\* fails removes what it made.  Not so when the create itself was carried out and not
\* answered, and no run lists it.
FailureRemoves ==
    \A w \in Writers :
        (MethodOf[w] = "new" /\ phase[w] = "failed" /\ w \notin excuse) => target.by # w

\* The handle and the writer under it agree on where the next chunk goes, across
\* reopens on whatever session the transport is on by then.
WriterInStep ==
    \A w \in Writers : (open[w] /\ phase[w] \in {"between", "writing"}) => position[w] = next[w]

=============================================================================
