-------------------------------- MODULE Moves --------------------------------
(***************************************************************************)
(* Moving a file or a folder without its bytes leaving the NAS             *)
(* (synology-filestation-core moves.rs, and move_to of the SMB transport): *)
(* SMB's one rename if there is a session, and otherwise what FileStation  *)
(* offers, which keeps the name: a look at both ends, a rename in place, a *)
(* delete of an empty folder in the way, and a CopyMove task that is       *)
(* polled.                                                                 *)
(*                                                                         *)
(* Each call is a request whose answer may be lost, and is sent again by   *)
(* the rules of get_text_retried and get_text_once; a call answered over   *)
(* SMB is one more way to be asked.  Another user of the NAS may put a     *)
(* file anywhere at any time.  The task runs on its own.                   *)
(***************************************************************************)
EXTENDS Naturals, FiniteSets

CONSTANTS MaxLost,       \* bound: requests or answers lost
          MaxIntrusions  \* bound: files put there by others

MovesAssumption == MaxLost \in Nat /\ MaxIntrusions \in Nat

VARIABLES smb,           \* the SMB session is up, and both ends are one share
          renames,       \* the move gives a new name
          at,            \* per place, the thing there
          isDir, inside, \* which things are folders; per child, where it is
          pc, tries,     \* where move_within is, and how often this call was sent
          look,          \* what it saw: source_is_dir, destination
          renamed,       \* it renamed in place
          res,           \* what it returned
          task, over, taken,   \* the task, its overwrite, and the place it moves
          tasks,         \* history: tasks started
          destroyed,     \* history: what the move destroyed
          late,          \* history: put into the destination after the look
          backUnder,     \* history: renamed back under a task
          lost, intrusions     \* bounds

nas == <<at, inside, destroyed>>
job == <<task, over, taken, tasks>>
bounds == <<lost, intrusions>>
vars == <<smb, renames, nas, isDir, pc, tries, look, renamed, res, job, late, backUnder, bounds>>

\* Old and new name in the source's folder and in the destination's.
Places == {"so", "sn", "do", "dn"}
Target == IF renames THEN "dn" ELSE "do"
Nothing == "nothing"
Things == {"src", "dst", "other", "half"}
Children == {"a", "b"}

TypeOK ==
    /\ smb \in BOOLEAN /\ renames \in BOOLEAN
    /\ at \in [Places -> Things \cup {Nothing}] /\ isDir \in [Things -> BOOLEAN]
    /\ inside \in [Children -> Things \cup {Nothing}]
    /\ pc \in {"smb_look", "smb_rename", "info", "dest", "entries", "rename", "delete", "start",
               "poll", "back", "done"}
    /\ tries \in 0 .. 3
    /\ look \in [srcDir : BOOLEAN, dest : {"absent", "file", "dir", "empty", "unknown"}]
    /\ renamed \in BOOLEAN
    /\ res \in {"none", "ok", "io", "refused", "not_supported", "not_empty", "exists"}
    /\ task \in {"none", "running", "half", "done", "failed"} /\ over \in BOOLEAN
    /\ taken \in Places /\ tasks \in Nat
    /\ destroyed \subseteq Things \cup Children /\ late \in BOOLEAN /\ backUnder \in BOOLEAN
    /\ lost \in 0 .. MaxLost /\ intrusions \in 0 .. MaxIntrusions

Init ==
    /\ smb \in BOOLEAN /\ renames \in BOOLEAN
    /\ isDir \in {f \in [Things -> BOOLEAN] : ~f["other"] /\ f["half"]}
    /\ \E there \in BOOLEAN :
         at = [p \in Places |-> IF p = "so" THEN "src"
                                ELSE IF p = Target /\ there THEN "dst" ELSE Nothing]
    /\ inside \in {f \in [Children -> Things \cup {Nothing}] :
                     /\ f["a"] = IF isDir["src"] THEN "src" ELSE Nothing
                     /\ f["b"] \in IF isDir["dst"] /\ at[Target] = "dst" THEN {"dst", Nothing}
                                   ELSE {Nothing}}
    /\ pc = IF smb THEN "smb_look" ELSE "info"
    /\ tries = 0 /\ renamed = FALSE /\ res = "none"
    /\ look = [srcDir |-> FALSE, dest |-> "unknown"]
    /\ task = "none" /\ over = FALSE /\ taken = "so" /\ tasks = 0
    /\ destroyed = {} /\ late = FALSE /\ backUnder = FALSE
    /\ lost = 0 /\ intrusions = 0

-----------------------------------------------------------------------------
(* The NAS. *)

Empty(x) == \A c \in Children : inside[c] # x
Seen(p) == IF at[p] = Nothing THEN "absent" ELSE IF isDir[at[p]] THEN "dir" ELSE "file"
Moving == IF renamed THEN "sn" ELSE "so"
\* CopyMove keeps the name.
Lands(p) == IF p = "sn" THEN "dn" ELSE "do"

Went(from, to) == [at EXCEPT ![to] = at[from], ![from] = Nothing]

-----------------------------------------------------------------------------
(* Requests *)

\* Sent again up to three times, whether it or its answer was lost.
Again(io) ==
    /\ lost < MaxLost /\ lost' = lost + 1
    /\ IF tries < 2 THEN tries' = tries + 1 /\ UNCHANGED <<pc, res>> ELSE tries' = 0 /\ io

Answered(next) == tries' = 0 /\ pc' = next /\ lost' = lost
Returns(r) == pc' = "done" /\ res' = r
Fails(r) == tries' = 0 /\ lost' = lost /\ Returns(r)

\* A call that only looks fails as a whole once every try is lost.
Unheard ==
    /\ pc \in {"info", "dest", "entries", "poll"}
    /\ Again(Returns("io"))
    /\ UNCHANGED <<smb, renames, nas, isDir, look, renamed, job, late, backUnder, intrusions>>

-----------------------------------------------------------------------------
(* SMB: two looks and one rename under the session's lock. *)

\* A slip: the empty folder in the way is deleted with whatever it holds.
Plans_Merge(srcDir, dest) ==
    CASE dest = "absent" -> "fresh"
      [] srcDir -> "replace_dir"
      [] ~srcDir /\ dest = "file" -> "replace_file"
      [] OTHER -> "exists"

\* plan_move: rename(2)'s rule for what may be replaced.
Plans(srcDir, dest) ==
    CASE dest = "absent" -> "fresh"
      [] ~srcDir /\ dest = "file" -> "replace_file"
      [] srcDir /\ dest = "empty" -> "replace_dir"
      [] srcDir /\ dest = "dir" -> "not_empty"
      [] OTHER -> "exists"

Plan == Plans(look.srcDir, look.dest)
Refusals == {"exists", "not_empty"}

\* The looks: trying to delete a folder in the way of a folder tells whether it
\* was empty, and is its removal.
SmbLooks ==
    /\ pc = "smb_look"
    /\ IF at["so"] = Nothing THEN Fails("refused") /\ UNCHANGED <<nas, look>>
       ELSE LET srcDir == isDir[at["so"]]
                dest == Seen(Target)
                removes == srcDir /\ dest = "dir" /\ Empty(at[Target])
                saw == IF removes THEN "absent" ELSE dest
                plan == Plans(srcDir, saw)
            IN  /\ look' = [srcDir |-> srcDir, dest |-> saw]
                /\ at' = IF removes THEN [at EXCEPT ![Target] = Nothing] ELSE at
                /\ destroyed' = IF removes THEN destroyed \cup {at[Target]} ELSE destroyed
                /\ inside' = inside
                /\ IF plan \in Refusals THEN Fails(plan)
                   ELSE Answered("smb_rename") /\ res' = res
    /\ UNCHANGED <<smb, renames, isDir, renamed, job, late, backUnder, intrusions>>

\* One SET_INFO rename, which replaces a file only when the plan says so.
SmbRenames ==
    /\ pc = "smb_rename"
    /\ \/ /\ at["so"] # Nothing
          /\ at[Target] = Nothing \/ (Plan = "replace_file" /\ Seen(Target) = "file")
          /\ at' = Went("so", Target)
          /\ destroyed' = destroyed \cup ({at[Target]} \ {Nothing})
          \* The link may break before the answer is back.
          /\ \/ Fails("ok")
             \/ lost < MaxLost /\ lost' = lost + 1 /\ tries' = 0 /\ pc' = "info" /\ res' = res
       \/ /\ at["so"] = Nothing \/ (at[Target] # Nothing
                                      /\ ~(Plan = "replace_file" /\ Seen(Target) = "file"))
          /\ Fails("refused") /\ UNCHANGED <<at, destroyed>>
    /\ UNCHANGED <<smb, renames, inside, isDir, look, renamed, job, late, backUnder, intrusions>>

\* A lost link is the backend's failure: FileStation is asked instead.
SmbLost ==
    /\ pc \in {"smb_look", "smb_rename"} /\ lost < MaxLost
    /\ lost' = lost + 1 /\ pc' = "info" /\ tries' = 0
    /\ UNCHANGED <<smb, renames, nas, isDir, look, renamed, res, job, late, backUnder, intrusions>>

-----------------------------------------------------------------------------
(* FileStation *)

Info ==
    /\ pc = "info"
    /\ IF at["so"] = Nothing THEN Fails("refused") /\ UNCHANGED look
       ELSE Answered("dest") /\ look' = [look EXCEPT !.srcDir = isDir[at["so"]]] /\ UNCHANGED res
    /\ UNCHANGED <<smb, renames, nas, isDir, renamed, job, late, backUnder, intrusions>>

\* plan_move on what is at the destination, and whether a rename comes first.
Planned(dest) ==
    LET plan == Plans(look.srcDir, dest)
    IN  /\ look' = [look EXCEPT !.dest = dest]
        /\ IF plan \in Refusals THEN Fails(plan)
           ELSE /\ Answered(IF renames THEN "rename"
                            ELSE IF plan = "replace_dir" THEN "delete" ELSE "start")
                /\ UNCHANGED res

Destination ==
    /\ pc = "dest"
    /\ IF Seen(Target) = "dir" THEN Answered("entries") /\ UNCHANGED <<look, res>>
       ELSE Planned(Seen(Target))
    /\ UNCHANGED <<smb, renames, nas, isDir, renamed, job, late, backUnder, intrusions>>

HasEntries ==
    /\ pc = "entries"
    /\ CASE at[Target] = Nothing -> Fails("refused") /\ UNCHANGED look
         [] Empty(at[Target]) -> Planned("empty")
         [] OTHER -> Planned("dir")
    /\ UNCHANGED <<smb, renames, nas, isDir, renamed, job, late, backUnder, intrusions>>

\* Rename never overwrites: whatever it refuses leaves the move not supported.
\* It is sent like a look, so a lost answer has it sent again, to a source that
\* has gone.
Rename ==
    /\ pc = "rename"
    /\ LET can == at["so"] # Nothing /\ at["sn"] = Nothing
       IN  \/ /\ can /\ at' = Went("so", "sn")
              /\ \/ /\ Answered(IF Plan = "replace_dir" THEN "delete" ELSE "start")
                    /\ renamed' = TRUE /\ UNCHANGED res
                 \/ Again(Returns("not_supported")) /\ UNCHANGED renamed
           \/ /\ ~can /\ Fails("not_supported") /\ UNCHANGED <<at, renamed>>
           \/ Fails("refused") /\ UNCHANGED <<at, renamed>>
           \/ /\ Again(Returns("not_supported")) /\ UNCHANGED <<at, renamed>>
    /\ UNCHANGED <<smb, renames, inside, destroyed, isDir, look, job, late, backUnder, intrusions>>

\* A slip: the rename in place stays whatever comes of the move.
GivesUp_Leaves(r, nothingRan) == Returns(r)

\* What failed before a task can have run is undone, if there is a rename to undo.
GivesUp(r, nothingRan) ==
    IF nothingRan /\ renamed THEN pc' = "back" /\ res' = r ELSE Returns(r)

\* Delete takes a folder with what is in it (recursive); over SMB, only empty.
Delete ==
    /\ pc = "delete"
    /\ LET x == at[Target]
           goes == [at EXCEPT ![Target] = Nothing]
           gone == {x} \cup {c \in Children : inside[c] = x}
       IN  \/ /\ x # Nothing /\ at' = goes /\ destroyed' = destroyed \cup gone
              /\ inside' = [c \in Children |-> IF inside[c] = x THEN Nothing ELSE inside[c]]
              /\ \/ Answered("start") /\ UNCHANGED res
                 \/ Again(GivesUp("io", TRUE))
           \/ /\ x = Nothing \/ (smb /\ ~Empty(x))
              /\ tries' = 0 /\ lost' = lost /\ GivesUp("refused", TRUE)
              /\ UNCHANGED nas
           \/ /\ Again(GivesUp("io", TRUE)) /\ UNCHANGED nas
    /\ UNCHANGED <<smb, renames, isDir, look, renamed, job, late, backUnder, intrusions>>

\* A slip: the start is retried like a look.
Start_Retried ==
    /\ pc = "start"
    /\ \/ /\ task' = "running" /\ over' = (Plan = "replace_file") /\ taken' = Moving
          /\ tasks' = tasks + 1
          /\ \/ Answered("poll") /\ UNCHANGED res
             \/ Again(Returns("io"))
       \/ /\ Fails("refused") /\ UNCHANGED job
    /\ UNCHANGED <<smb, renames, nas, isDir, look, renamed, late, backUnder, intrusions>>

\* Sent once: again only if no connection was made.  A refusal is an answer, and
\* nothing ran; a lost answer may hide a task.
Start ==
    /\ pc = "start"
    /\ \/ /\ task' = "running" /\ over' = (Plan = "replace_file") /\ taken' = Moving
          /\ tasks' = tasks + 1
          /\ \/ Answered("poll") /\ UNCHANGED res
             \/ lost < MaxLost /\ lost' = lost + 1 /\ tries' = 0 /\ GivesUp("io", FALSE)
       \/ \E r \in {"refused", "not_supported"} :
             tries' = 0 /\ lost' = lost /\ GivesUp(r, TRUE) /\ UNCHANGED job
       \/ Again(GivesUp("io", FALSE)) /\ UNCHANGED job
    /\ UNCHANGED <<smb, renames, nas, isDir, look, renamed, late, backUnder, intrusions>>

\* A slip: a task that failed is taken for one that never ran.
Poll_UndoesAll ==
    /\ pc = "poll"
    /\ \/ task = "done" /\ Fails("ok")
       \/ task = "failed" /\ tries' = 0 /\ lost' = lost /\ GivesUp("refused", TRUE)
       \/ task \in {"running", "half"} /\ tries' = 0 /\ lost' = lost /\ GivesUp("io", TRUE)
    /\ UNCHANGED <<smb, renames, nas, isDir, look, renamed, job, late, backUnder, intrusions>>

\* The status: done, failed, a refused status, or past the deadline with the task
\* left to finish.
Poll ==
    /\ pc = "poll"
    /\ \/ task = "done" /\ Fails("ok")
       \/ task = "failed" /\ Fails("refused")
       \/ task \in {"running", "half"} /\ Fails("io")
    /\ UNCHANGED <<smb, renames, nas, isDir, look, renamed, job, late, backUnder, intrusions>>

\* The rename in place is undone, if the old name is still free.
RenameBack ==
    /\ pc = "back" /\ pc' = "done"
    /\ \/ /\ at["sn"] # Nothing /\ at["so"] = Nothing
          /\ at' = Went("sn", "so")
          /\ backUnder' = (backUnder \/ task # "none")
          /\ lost' = lost
       \/ /\ at["sn"] = Nothing \/ at["so"] # Nothing
          /\ UNCHANGED <<at, backUnder, lost>>
       \/ /\ lost < MaxLost /\ lost' = lost + 1
          /\ UNCHANGED <<at, backUnder>>
    /\ UNCHANGED <<smb, renames, inside, destroyed, isDir, tries, look, renamed, res, job, late,
                   intrusions>>

-----------------------------------------------------------------------------
(* The task, and the others. *)

\* Within a volume the task is a rename; across, a folder is there in part for a
\* while.  A name that is taken fails it unless it was to overwrite.
TaskRuns ==
    /\ task = "running"
    /\ LET to == Lands(taken)
           free == at[to] = Nothing \/ (over /\ Seen(to) = "file" /\ Seen(taken) = "file")
       IN  \/ /\ at[taken] # Nothing /\ free
              /\ at' = Went(taken, to) /\ task' = "done"
              /\ destroyed' = destroyed \cup ({at[to]} \ {Nothing})
           \/ /\ at[taken] # Nothing /\ at[to] = Nothing /\ isDir[at[taken]]
              /\ at' = [at EXCEPT ![to] = "half"] /\ task' = "half"
              /\ UNCHANGED destroyed
           \/ task' = "failed" /\ UNCHANGED <<at, destroyed>>
    /\ UNCHANGED <<smb, renames, inside, isDir, pc, tries, look, renamed, res, over, taken, tasks,
                   late, backUnder, bounds>>

TaskEnds ==
    /\ task = "half"
    /\ \/ /\ at[taken] # Nothing
          /\ at' = Went(taken, Lands(taken)) /\ task' = "done"
       \/ task' = "failed" /\ UNCHANGED at
    /\ UNCHANGED <<smb, renames, inside, destroyed, isDir, pc, tries, look, renamed, res, over,
                   taken, tasks, late, backUnder, bounds>>

Intrudes ==
    /\ intrusions < MaxIntrusions /\ intrusions' = intrusions + 1
    /\ pc # "done"
    /\ \/ \E p \in Places : /\ at[p] = Nothing /\ \A q \in Places : at[q] # "other"
                            /\ at' = [at EXCEPT ![p] = "other"]
                            /\ UNCHANGED <<inside, late>>
       \/ /\ at[Target] = "dst" /\ isDir["dst"] /\ inside["b"] = Nothing /\ "b" \notin destroyed
          /\ inside' = [inside EXCEPT !["b"] = "dst"]
          /\ late' = (late \/ look.dest # "unknown")
          /\ UNCHANGED at
    /\ UNCHANGED <<smb, renames, destroyed, isDir, pc, tries, look, renamed, res, job, backUnder, lost>>

Smb == SmbLooks \/ SmbRenames \/ SmbLost
FileStation ==
    Info \/ Destination \/ HasEntries \/ Rename \/ Delete \/ Start \/ Poll \/ RenameBack \/ Unheard
Nas == TaskRuns \/ TaskEnds
Next == Smb \/ FileStation \/ Nas \/ Intrudes

Spec == Init /\ [][Next]_vars

-----------------------------------------------------------------------------
(* Properties *)

\* Whatever is lost, retried or raced, a move destroys only what rename(2) would:
\* a file by a file, an empty folder by a folder.  A child of that folder goes
\* with it only if it was put there after the look (plan_move).  What was moved
\* is itself lost only if the answer to its rename over SMB was, so that
\* FileStation is asked to move again what another put under the old name.
ReplacesByRule ==
    /\ "a" \notin destroyed
    /\ "src" \in destroyed => smb /\ lost > 0 /\ intrusions > 0
    /\ "b" \in destroyed => late
    /\ "dst" \in destroyed => isDir["dst"] = isDir["src"]

\* Never two tasks for one move: the second would race the first (copymove_start).
OneTask == tasks <= 1

\* The source is never renamed under a task that may be moving it (move_within).
NeverSplit == ~backUnder

\* A move that returned without an error is done: the thing at the new name is
\* the source (or what was moved over it, as above), and nowhere else.
OkIsMoved ==
    res = "ok" => /\ at[Target] = "src" \/ "src" \in destroyed
                  /\ "src" \notin {at["so"], at["sn"]}

\* When nothing was lost, a refused move left the source at its old name, unless
\* a task ran or the name was taken meanwhile.
RefusedIsUndone ==
    pc = "done" /\ res \notin {"ok", "io"} /\ tasks = 0 /\ lost = 0 /\ intrusions = 0
        => at["so"] = "src"

\* move_to: "NotSupported means nothing was moved".
NotSupportedMovedNothing ==
    pc = "done" /\ res = "not_supported" /\ intrusions = 0 => at["so"] = "src"

\* plan_move: "A folder only replaces an empty folder".
OnlyEmptyGoes == "b" \notin destroyed
=============================================================================
