------------------------------- MODULE LogFile -------------------------------
(***************************************************************************)
(* The log that outlives the process (synology-filestation-fuse logfile.rs *)
(* and synology-filestation-ffi logging.rs): records appended to a file    *)
(* that rotates, each as durable as its level has earned, and handed on to *)
(* a callback of the GUI.                                                  *)
(*                                                                         *)
(* Any system call of a rotation or an append may fail, the process may be *)
(* killed and started again, and the power may go, which takes back what   *)
(* was not synced.  Records are numbered as they are made and all of one   *)
(* size, which is the unit of a file's size.                               *)
(***************************************************************************)
EXTENDS Naturals, Sequences, FiniteSets

CONSTANTS Keep,          \* generations kept beside the active file
          MaxBytes,      \* size a file may reach
          MaxRecords, MaxFaults, MaxStarts  \* bounds

LogAssumption ==
    /\ Keep \in Nat \ {0} /\ MaxBytes \in Nat \ {0}
    /\ MaxRecords \in Nat /\ MaxFaults \in Nat /\ MaxStarts \in Nat

VARIABLES dir,           \* per generation, the file with that name; 0 is active
          content,       \* per file, the records in it
          synced,        \* per file, how many of them are on disk
          handle,        \* the file the process has open
          written, rotateAt,     \* Rotating
          sink, calling, \* the callback registered, and the one being called
          made, faults, starts,  \* bounds
          kept,          \* history: durable records that were acknowledged
          adrift         \* history: a rotation could not open the new file

files == <<dir, content, synced>>
rotating == <<handle, written, rotateAt>>
history == <<kept, adrift>>
vars == <<files, rotating, sink, calling, made, faults, starts, history>>

Active == 0
Generations == 0 .. Keep
NoFile == 0
Files == 1 .. Len(content)
Callbacks == 1 .. 2
None == 0

TypeOK ==
    /\ dir \in [Generations -> 0 .. Len(content)]
    /\ DOMAIN synced = Files
    /\ \A f \in Files : synced[f] \in 0 .. Len(content[f])
    /\ handle \in Files /\ written \in Nat /\ rotateAt \in Nat
    /\ sink \in Callbacks \cup {None} /\ calling \in Callbacks \cup {None}
    /\ made \in 0 .. MaxRecords /\ faults \in 0 .. MaxFaults /\ starts \in 0 .. MaxStarts
    /\ kept \subseteq 1 .. made /\ adrift \in BOOLEAN

Init ==
    /\ dir = [g \in Generations |-> IF g = Active THEN 1 ELSE NoFile]
    /\ content = << <<>> >> /\ synced = <<0>>
    /\ handle = 1 /\ written = 0 /\ rotateAt = MaxBytes
    /\ sink = None /\ calling = None
    /\ made = 0 /\ faults = 0 /\ starts = 0
    /\ kept = {} /\ adrift = FALSE

-----------------------------------------------------------------------------
(* Rotation *)

\* A slip: the renames begin with the newest, each onto a name still taken.
Moved_NewestFirst(d, last) ==
    IF last = Active THEN [g \in Generations |-> IF g = Keep THEN d[Active] ELSE NoFile] ELSE d

\* The generations once those from `last` on have moved up by one: the oldest is
\* removed, then each is renamed, the oldest first, and the active file last.
Moved(d, last) ==
    [g \in Generations |-> IF g > last THEN d[g - 1] ELSE IF g = last THEN NoFile ELSE d[g]]

\* How a rotation can end: how far it moved the names, whether it opened the new
\* file, and whether something failed.  The active file must be there to be
\* renamed; with nothing failing it goes all the way.
Endings ==
    { e \in [last : Generations \cup {Keep + 1}, opened : BOOLEAN, failed : BOOLEAN] :
        /\ e.opened => e.last = Active /\ ~e.failed
        /\ e.last = Active => dir[Active] # NoFile
        /\ ~e.opened /\ ~e.failed => dir[Active] = NoFile /\ e.last = 1 }

\* The state after rotation e: what is synced first stays so whatever follows.
RotatedTo(e) ==
    LET d == IF e.last > Keep THEN dir ELSE Moved(dir, e.last)
    IN  [dir |-> IF e.opened THEN [d EXCEPT ![Active] = Len(content) + 1] ELSE d,
         content |-> IF e.opened THEN Append(content, <<>>) ELSE content,
         synced |-> LET s == IF e.last > Keep THEN synced
                             ELSE [synced EXCEPT ![handle] = Len(content[handle])]
                    IN  IF e.opened THEN Append(s, 0) ELSE s,
         handle |-> IF e.opened THEN Len(content) + 1 ELSE handle,
         written |-> IF e.opened THEN 0 ELSE written,
         \* a failed rotation is not tried again for a whole budget
         rotateAt |-> IF e.opened THEN MaxBytes ELSE written + MaxBytes]

AsItIs == [dir |-> dir, content |-> content, synced |-> synced,
           handle |-> handle, written |-> written, rotateAt |-> rotateAt]

RotationDue == written > 0 /\ written + 1 > rotateAt

-----------------------------------------------------------------------------
(* Records *)

\* A slip: a durable record is synced only when the next rotation closes the file.
Appended_Unsynced(s, r, sync) ==
    [s EXCEPT !.content[s.handle] = Append(@, r), !.written = @ + 1]

\* append: written and flushed at once, and synced when the level asks for it.
Appended(s, r, sync) ==
    [s EXCEPT !.content[s.handle] = Append(@, r),
              !.written = @ + 1,
              !.synced[s.handle] = IF sync THEN Len(s.content[s.handle]) + 1 ELSE @]

Becomes(s) ==
    /\ dir' = s.dir /\ content' = s.content /\ synced' = s.synced
    /\ handle' = s.handle /\ written' = s.written /\ rotateAt' = s.rotateAt

\* Rotating::record, one whole record: whatever the rotation came to, the record
\* is written.  `fault` says what of the append fails, if anything.
Record(durable, fault) ==
    /\ made < MaxRecords /\ calling = None
    /\ made' = made + 1
    /\ \E e \in IF RotationDue THEN Endings ELSE {[last |-> Keep + 1, opened |-> FALSE, failed |-> FALSE]} :
        LET s == IF RotationDue THEN RotatedTo(e) ELSE AsItIs
            troubles == (IF e.failed THEN 1 ELSE 0) + (IF fault = "none" THEN 0 ELSE 1)
        IN  /\ faults + troubles <= MaxFaults /\ faults' = faults + troubles
            /\ Becomes(CASE fault = "write" -> s
                         [] fault = "sync" -> Appended(s, made + 1, FALSE)
                         [] OTHER -> Appended(s, made + 1, durable))
            /\ kept' = IF durable /\ fault = "none" THEN kept \cup {made + 1} ELSE kept
            /\ adrift' = (adrift \/ (RotationDue /\ e.last = Active /\ ~e.opened))
    \* The file first, and then the callback, taken under the lock and called
    \* outside it.
    /\ calling' = sink
    /\ UNCHANGED <<sink, starts>>

CallReturns ==
    /\ calling # None /\ calling' = None
    /\ UNCHANGED <<files, rotating, sink, made, faults, starts, history>>

\* set_callback: registered, replaced, cleared.
SetCallback(cb) ==
    /\ sink # cb /\ sink' = cb
    /\ UNCHANGED <<files, rotating, calling, made, faults, starts, history>>

-----------------------------------------------------------------------------
(* Death and restart *)

\* A slip: each run's accounting starts from zero.
Opened_FromZero(d, c, y) ==
    LET fresh == d[Active] = NoFile
        h == IF fresh THEN Len(c) + 1 ELSE d[Active]
    IN  [dir |-> [d EXCEPT ![Active] = h],
         content |-> IF fresh THEN Append(c, <<>>) ELSE c,
         synced |-> IF fresh THEN Append(y, 0) ELSE y,
         handle |-> h,
         written |-> 0,
         rotateAt |-> MaxBytes]

\* open: append to what is there, its size already part of the budget.
Opened(d, c, y) ==
    LET fresh == d[Active] = NoFile
        h == IF fresh THEN Len(c) + 1 ELSE d[Active]
    IN  [dir |-> [d EXCEPT ![Active] = h],
         content |-> IF fresh THEN Append(c, <<>>) ELSE c,
         synced |-> IF fresh THEN Append(y, 0) ELSE y,
         handle |-> h,
         written |-> IF fresh THEN 0 ELSE Len(c[h]),
         rotateAt |-> MaxBytes]

\* Killed, also in the middle of a rotation, and started again: what was written
\* is with the system.
Killed ==
    /\ starts < MaxStarts /\ starts' = starts + 1
    /\ \E last \in IF RotationDue THEN Generations \cup {Keep + 1} ELSE {Keep + 1} :
        /\ last = Active => dir[Active] # NoFile
        /\ Becomes(Opened(IF last > Keep THEN dir ELSE Moved(dir, last), content, synced))
    /\ sink' = None /\ calling' = None
    /\ adrift' = FALSE
    /\ UNCHANGED <<made, faults, kept>>

\* The power goes: of what was not synced, any part may be missing.  The names are taken to
\* be there as they were: rotate syncs no directory, so that is left to the file system.
PowerCut ==
    /\ starts < MaxStarts /\ starts' = starts + 1
    /\ \E left \in {f \in [Files -> 0 .. MaxRecords] :
                        \A n \in Files : f[n] \in synced[n] .. Len(content[n])} :
        LET c == [n \in Files |-> SubSeq(content[n], 1, left[n])]
        IN  Becomes(Opened(dir, c, [n \in Files |-> left[n]]))
    /\ sink' = None /\ calling' = None
    /\ adrift' = FALSE
    /\ UNCHANGED <<made, faults, kept>>

Next ==
    \/ \E durable \in BOOLEAN, fault \in {"none", "write", "sync"} : Record(durable, fault)
    \/ CallReturns
    \/ \E cb \in Callbacks \cup {None} : SetCallback(cb)
    \/ Killed \/ PowerCut

Spec == Init /\ [][Next]_vars

-----------------------------------------------------------------------------
(* Properties *)

Named == {g \in Generations : dir[g] # NoFile}
Holds(g) == {content[dir[g]][i] : i \in 1 .. Len(content[dir[g]])}

\* Whatever failed or died on the way, an older generation holds only records
\* made before those of a newer one, and no two names share a file: the log can
\* be read in order.
GenerationsInOrder ==
    \A g, h \in Named : g < h =>
        /\ dir[g] # dir[h]
        /\ \A r \in Holds(g), s \in Holds(h) : s < r

\* Unless something failed or died, a record is gone only when Keep whole
\* generations came after it.
RetentionKept ==
    faults = 0 /\ starts = 0 =>
        \A r \in 1 .. made : r + Keep * MaxBytes >= made => \E g \in Named : r \in Holds(g)

\* A warning or an error that was acknowledged is on disk wherever its file still
\* has a name, after every kill and power cut; and the process writes to a file
\* with a name, unless a rotation could not open the new one.
EvidenceSurvives ==
    /\ \A f \in Files : \A i \in 1 .. Len(content[f]) :
          content[f][i] \in kept => i <= synced[f]
    /\ adrift \/ \E g \in Named : dir[g] = handle

\* A restart does not defeat the cap: the active file exceeds it only by what
\* failed rotations cost, one budget each.
SizeBounded == Active \in Named => Len(content[dir[Active]]) <= MaxBytes * (1 + faults)

\* record: "Rotation is housekeeping; the record is the point ... An over-sized
\* log beats a silent one": what is written is in a file that has a name.
NeverSilent == \E g \in Named : dir[g] = handle

\* set_callback: the callback is called only while it is registered.
CalledWhileRegistered == [][calling # None => sink' = sink \/ calling' = None]_vars
=============================================================================
