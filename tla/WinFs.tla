-------------------------------- MODULE WinFs --------------------------------
(***************************************************************************)
(* The Windows mount (synology-filestation-fuse winfs.rs): handles with a  *)
(* write buffer each, shared by handles on a file that is created and not  *)
(* uploaded yet, which `pending_files` knows by its path; uploads on       *)
(* flush, on rename and, for the last time, on close.                      *)
(*                                                                         *)
(* A buffer and a file are the writes they hold.  External: WinFsp, which  *)
(* as FineGuard has it lets a creation, a rename and a deletion run alone  *)
(* among the calls that find files, and which keeps a file locked under a  *)
(* write, a flush and a rename of it, by the name it was opened under or   *)
(* renamed to since.                                                       *)
(***************************************************************************)
EXTENDS Naturals, Sequences, FiniteSets

CONSTANTS Paths, Existing,               \* those that are there at first
          MaxOpens, MaxWrites, MaxFaults \* bounds

WinFsAssumption ==
    Existing \subseteq Paths /\ MaxOpens \in Nat /\ MaxWrites \in Nat /\ MaxFaults \in Nat

VARIABLES apart,    \* whether the paths are in folders of their own
          nas,      \* what each path holds on the NAS, <<>> for nothing
          pending,  \* pending_files: the handle whose buffer each path has, or 0
          handles,  \* SynoFileContext, with the name WinFsp knows it by
          bufs,     \* write_buf of each handle that made one: <<>> or <<writes>>
          ops,      \* the call under way on each handle, and what it took
          looking,  \* the paths `open` asks the NAS about, pending_files read-locked
          writes,   \* bound: writes made so far
          faults,   \* bound
          settled,  \* history: writes that were in a file on the NAS, that were cut off,
                    \* or of whose failure the caller or the log was told
          crossed   \* history: writes that came while the buffer was sent under another name

vars == <<apart, nas, pending, handles, bufs, ops, looking, writes, faults, settled, crossed>>

Nothing == <<>>
NoPath == "no-path"
Idle == [kind |-> "idle"]
Opened == 1 .. Len(handles)
Open(h) == handles[h].open
Kind(h) == ops[h].kind
Content(b) == IF b = Nothing THEN {} ELSE b[1]

TypeOK ==
    /\ apart \in BOOLEAN
    /\ \A p \in Paths : nas[p] = Nothing \/ nas[p][1] \subseteq 0 .. writes
    /\ pending \in [Paths -> 0 .. Len(handles)]
    /\ \A h \in Opened :
          /\ Open(h) => handles[h].path \in Paths /\ handles[h].name \in Paths
          /\ handles[h].buf \in Opened /\ handles[h].isNew \in BOOLEAN /\ Open(h) \in BOOLEAN
          /\ handles[h].cleaned \in BOOLEAN
          /\ Kind(h) \in {"idle", "flush", "close", "unregister", "rename", "renamed", "copy", "remove"}
    /\ Len(bufs) = Len(handles) /\ Len(ops) = Len(handles)
    /\ looking \subseteq Paths
    /\ writes \in 0 .. MaxWrites /\ faults \in 0 .. MaxFaults
    /\ settled \subseteq 0 .. writes /\ crossed \subseteq 1 .. writes

\* Write 0 is what the files held before.
Init ==
    /\ apart \in BOOLEAN
    /\ nas = [p \in Paths |-> IF p \in Existing THEN <<{0}>> ELSE Nothing]
    /\ pending = [p \in Paths |-> 0]
    /\ handles = <<>> /\ bufs = <<>> /\ ops = <<>> /\ looking = {}
    /\ writes = 0 /\ faults = 0 /\ settled = {} /\ crossed = {}

Renaming == \E h \in Opened : Kind(h) \in {"rename", "renamed", "copy", "remove"}
Alone == looking = {} /\ ~Renaming

\* WinFsp's lock of the file h is on.
LockFree(h) ==
    \A g \in Opened : handles[g].name = handles[h].name =>
        Kind(g) \notin {"flush", "rename", "renamed", "copy", "remove"}
Ready(h) == Open(h) /\ ~handles[h].cleaned /\ Kind(h) = "idle" /\ LockFree(h)

New(p, buf, isNew) ==
    /\ handles' = Append(handles, [path |-> p, name |-> p, open |-> TRUE, cleaned |-> FALSE,
                                   buf |-> buf, isNew |-> isNew])
    /\ ops' = Append(ops, Idle)

\* create: an empty buffer, entered for others to find.
Create(p) ==
    /\ Len(handles) < MaxOpens /\ Alone
    /\ New(p, Len(handles) + 1, TRUE) /\ bufs' = Append(bufs, <<{}>>)
    /\ pending' = [pending EXCEPT ![p] = Len(handles) + 1]
    /\ UNCHANGED <<apart, nas, looking, writes, faults, settled, crossed>>

\* open: a pending file's buffer is shared; the lock is held, for reading, while the
\* NAS is asked about any other.
OpenPending(p) ==
    /\ Len(handles) < MaxOpens /\ ~Renaming /\ pending[p] # 0
    /\ New(p, handles[pending[p]].buf, TRUE) /\ bufs' = Append(bufs, Nothing)
    /\ UNCHANGED <<apart, nas, pending, looking, writes, faults, settled, crossed>>

OpenAsks(p) ==
    /\ Len(handles) < MaxOpens /\ ~Renaming /\ pending[p] = 0
    /\ p \notin looking /\ looking' = looking \cup {p}
    /\ UNCHANGED <<apart, nas, pending, handles, bufs, ops, writes, faults, settled, crossed>>

OpenAnswered(p) ==
    /\ p \in looking /\ looking' = looking \ {p}
    /\ \/ /\ nas[p] # Nothing /\ Len(handles) < MaxOpens
          /\ New(p, Len(handles) + 1, FALSE) /\ bufs' = Append(bufs, Nothing)
       \/ UNCHANGED <<handles, ops, bufs>>
    /\ UNCHANGED <<apart, nas, pending, writes, faults, settled, crossed>>

\* write, and set_file_size to no less: a buffer is made if there is none, and stays when
\* the write to it fails.  WinFsp's lock of the file keeps it from a flush under way,
\* but not from one of a file of another name that has the same buffer.
Write(h) ==
    /\ Ready(h) /\ writes < MaxWrites
    /\ LET b == handles[h].buf
           sent == \E g \in Opened : Kind(g) = "flush" /\ handles[g].buf = b
       IN  \/ /\ bufs' = [bufs EXCEPT ![b] = <<Content(@) \cup {writes + 1}>>]
              /\ writes' = writes + 1
              /\ crossed' = IF sent THEN crossed \cup {writes + 1} ELSE crossed
           \/ bufs' = [bufs EXCEPT ![b] = <<Content(@)>>] /\ UNCHANGED <<writes, crossed>>
    /\ UNCHANGED <<apart, nas, pending, handles, ops, looking, faults, settled>>

\* set_file_size to nothing.
Cut(h) ==
    /\ Ready(h)
    /\ LET b == handles[h].buf
       IN  bufs' = [bufs EXCEPT ![b] = <<{}>>] /\ settled' = settled \cup Content(bufs[b])
    /\ UNCHANGED <<apart, nas, pending, handles, ops, looking, writes, faults, crossed>>

\* upload_payload (external: HttpUpload, SmbWrites): it lands or fails; what may not
\* replace fails on what is there; what may can leave nothing there; and the answer may
\* be lost. `fine` is what the caller is told; `heard` says that somebody takes note.
Upload(p, payload, overwrite, fine, heard) ==
    /\ \/ /\ fine /\ (overwrite \/ nas[p] = Nothing)
          /\ nas' = [nas EXCEPT ![p] = <<payload>>] /\ UNCHANGED faults
       \/ ~fine /\ ~overwrite /\ nas[p] # Nothing /\ UNCHANGED <<nas, faults>>
       \/ /\ ~fine /\ faults < MaxFaults /\ faults' = faults + 1
          /\ \/ UNCHANGED nas
             \/ overwrite /\ nas' = [nas EXCEPT ![p] = Nothing]
             \/ (overwrite \/ nas[p] = Nothing) /\ nas' = [nas EXCEPT ![p] = <<payload>>]
    /\ settled' = IF heard \/ nas'[p] = <<payload>> THEN settled \cup payload ELSE settled

Under(h, op) == ops' = [ops EXCEPT ![h] = op]

\* flush: a snapshot is sent, and the buffer let go of when it landed.
FlushBegins(h) ==
    /\ Ready(h) /\ bufs[handles[h].buf] # Nothing
    /\ Under(h, [kind |-> "flush", payload |-> Content(bufs[handles[h].buf])])
    /\ UNCHANGED <<apart, nas, pending, handles, bufs, looking, writes, faults, settled, crossed>>

\* A slip: the buffer goes whatever became of the upload.
FlushEnds_Always(h) ==
    /\ Kind(h) = "flush" /\ Under(h, Idle)
    /\ \E fine \in BOOLEAN : Upload(handles[h].path, ops[h].payload, ~handles[h].isNew, fine, FALSE)
    /\ bufs' = [bufs EXCEPT ![handles[h].buf] = Nothing]
    /\ UNCHANGED <<apart, pending, handles, looking, writes, crossed>>

FlushEnds(h) ==
    /\ Kind(h) = "flush" /\ Under(h, Idle)
    /\ \E fine \in BOOLEAN :
          /\ Upload(handles[h].path, ops[h].payload, ~handles[h].isNew, fine, FALSE)
          /\ bufs' = IF fine THEN [bufs EXCEPT ![handles[h].buf] = Nothing] ELSE bufs
    /\ UNCHANGED <<apart, pending, handles, looking, writes, crossed>>

\* cleanup: no more calls but close; the file is deleted if that was asked for.
Cleanup(h) ==
    /\ Ready(h) /\ handles' = [handles EXCEPT ![h].cleaned = TRUE]
    /\ UNCHANGED nas \/ (Alone /\ nas' = [nas EXCEPT ![handles[h].path] = Nothing])
    /\ UNCHANGED <<apart, pending, bufs, ops, looking, writes, faults, settled, crossed>>

\* close: what the buffer holds is uploaded, whoever shares it, and the path's entry
\* removed, whoever made it.
CloseBegins(h) ==
    /\ Open(h) /\ handles[h].cleaned /\ Kind(h) = "idle"
    /\ LET b == handles[h].buf
       IN  /\ bufs' = [bufs EXCEPT ![b] = Nothing]
           /\ Under(h, IF bufs[b] = Nothing THEN [kind |-> "unregister"]
                       ELSE [kind |-> "close", payload |-> Content(bufs[b])])
    /\ UNCHANGED <<apart, nas, pending, handles, looking, writes, faults, settled, crossed>>

CloseUploads(h) ==
    /\ Kind(h) = "close"
    /\ \E fine \in BOOLEAN :
          Upload(handles[h].path, ops[h].payload, ~handles[h].isNew, fine, TRUE)
    /\ Under(h, [kind |-> "unregister"])
    /\ UNCHANGED <<apart, pending, handles, bufs, looking, writes, crossed>>

Closed(h) == [path |-> NoPath, name |-> NoPath, open |-> FALSE, cleaned |-> TRUE,
              buf |-> h, isNew |-> FALSE]

\* A slip: the entry is left to whoever flushed.
CloseEnds_Left(h) ==
    /\ Kind(h) = "unregister" /\ looking = {} /\ UNCHANGED pending
    /\ handles' = [handles EXCEPT ![h] = Closed(h)] /\ Under(h, Idle)
    /\ UNCHANGED <<apart, nas, bufs, looking, writes, faults, settled, crossed>>

CloseEnds(h) ==
    /\ Kind(h) = "unregister" /\ looking = {}
    /\ pending' = [pending EXCEPT ![handles[h].path] = 0]
    /\ handles' = [handles EXCEPT ![h] = Closed(h)] /\ Under(h, Idle)
    /\ UNCHANGED <<apart, nas, bufs, looking, writes, faults, settled, crossed>>

(* rename *)

\* What is buffered is uploaded under the new name.
RenameTakes(h, to) ==
    /\ Ready(h) /\ Alone /\ to # handles[h].path /\ bufs[handles[h].buf] # Nothing
    /\ Under(h, [kind |-> "rename", to |-> to, payload |-> Content(bufs[handles[h].buf])])
    /\ bufs' = [bufs EXCEPT ![handles[h].buf] = Nothing]
    /\ UNCHANGED <<apart, nas, pending, handles, looking, writes, faults, settled, crossed>>

RenameUploads(h) ==
    /\ Kind(h) = "rename"
    /\ \E fine \in BOOLEAN :
          /\ Upload(ops[h].to, ops[h].payload, ~handles[h].isNew, fine, TRUE)
          /\ Under(h, IF fine THEN [kind |-> "renamed", to |-> ops[h].to] ELSE Idle)
    /\ UNCHANGED <<apart, pending, handles, bufs, looking, writes, crossed>>

\* WinFsp moves its names; the handle's own path stays.
Renamed(h, to) ==
    handles' = [g \in Opened |->
        IF handles[g].name = handles[h].name THEN [handles[g] EXCEPT !.name = to] ELSE handles[g]]

RenameUnregisters(h) ==
    /\ Kind(h) = "renamed"
    /\ pending' = [pending EXCEPT ![handles[h].path] = 0]
    /\ Renamed(h, ops[h].to) /\ Under(h, Idle)
    /\ UNCHANGED <<apart, nas, bufs, looking, writes, faults, settled, crossed>>

\* Nothing buffered: the NAS renames within a folder; across folders the file is read,
\* uploaded and deleted.
Direct(h, to) == Ready(h) /\ Alone /\ to # handles[h].path /\ bufs[handles[h].buf] = Nothing

RenameInPlace(h, to) ==
    /\ Direct(h, to) /\ ~apart
    /\ nas[handles[h].path] # Nothing /\ nas[to] = Nothing
    /\ nas' = [nas EXCEPT ![to] = nas[handles[h].path], ![handles[h].path] = Nothing]
    /\ Renamed(h, to)
    /\ UNCHANGED <<apart, pending, bufs, ops, looking, writes, faults, settled, crossed>>

MoveReads(h, to) ==
    /\ Direct(h, to) /\ apart /\ nas[handles[h].path] # Nothing
    /\ Under(h, [kind |-> "copy", to |-> to, payload |-> Content(nas[handles[h].path])])
    /\ UNCHANGED <<apart, nas, pending, handles, bufs, looking, writes, faults, settled, crossed>>

MoveUploads(h) ==
    /\ Kind(h) = "copy"
    /\ \E fine \in BOOLEAN :
          /\ Upload(ops[h].to, ops[h].payload, TRUE, fine, FALSE)
          /\ Under(h, IF fine THEN [kind |-> "remove", to |-> ops[h].to] ELSE Idle)
    /\ UNCHANGED <<apart, pending, handles, bufs, looking, writes, crossed>>

MoveRemoves(h) ==
    /\ Kind(h) = "remove" /\ Under(h, Idle)
    /\ \/ /\ nas' = [nas EXCEPT ![handles[h].path] = Nothing]
          /\ Renamed(h, ops[h].to) /\ UNCHANGED faults
       \/ faults < MaxFaults /\ faults' = faults + 1 /\ UNCHANGED <<nas, handles>>
    /\ UNCHANGED <<apart, pending, bufs, looking, writes, settled, crossed>>

Step(h) ==
    \/ Write(h) \/ Cut(h) \/ FlushBegins(h) \/ FlushEnds(h) \/ Cleanup(h)
    \/ CloseBegins(h) \/ CloseUploads(h) \/ CloseEnds(h)
    \/ \E to \in Paths : RenameTakes(h, to) \/ RenameInPlace(h, to) \/ MoveReads(h, to)
    \/ RenameUploads(h) \/ RenameUnregisters(h) \/ MoveUploads(h) \/ MoveRemoves(h)

Next ==
    \/ \E p \in Paths : Create(p) \/ OpenPending(p) \/ OpenAsks(p) \/ OpenAnswered(p)
    \/ \E h \in Opened : Step(h)

Spec == Init /\ [][Next]_vars

-----------------------------------------------------------------------------
(* Properties *)

Buffered == UNION {Content(bufs[handles[h].buf]) : h \in {g \in Opened : Open(g)}}
Sending == UNION {ops[h].payload : h \in {g \in Opened : Kind(g) \in {"close", "rename"}}}

\* close: "This path exists to stop data loss when flush() never ran": every write waits
\* in a buffer that some open handle will upload, is on its way, has been in a file on
\* the NAS, or its loss was told or logged by what dropped it: whatever other handles on
\* the buffer flush, rename or close meanwhile, and under whichever name.  One write is
\* not kept so, and is named by `crossed`: made while a flush of the same buffer under
\* another name was sending what the buffer held before (the rename that leaves the old
\* name's entry lets a file of that name share it, and WinFsp locks by name).
Accounted == 1 .. writes \subseteq Buffered \cup Sending \cup settled \cup crossed

\* pending_files: an entry's maker is open under that path, so no name outlives the
\* handles on it.
EntriesHaveMakers ==
    \A p \in Paths : pending[p] # 0 => Open(pending[p]) /\ handles[pending[p]].path = p

\* pending_files: "Entries are removed after a successful upload or when the last handle
\* to the file is closed".  (The code does not keep it: any handle's close does.)
EntryUntilLast ==
    [][\A p \in Paths : pending[p] # 0 /\ pending'[p] = 0 =>
         \/ \E h \in Opened : Kind(h) = "renamed"
         \/ \A h \in Opened : Open(h) /\ handles[h].buf = pending[p] => ~handles'[h].open]_vars

\* spill.rs, payload_for: "The path stays valid as long as the buffer does, which every
\* caller guarantees by holding the buffer until the upload returns".  (The code does
\* not keep it: another handle's close takes the buffer flush uploads by its path.)
HeldWhileSent == \A h \in Opened : Kind(h) = "flush" => bufs[handles[h].buf] # Nothing
=============================================================================
