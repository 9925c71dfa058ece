-------------------------------- MODULE Spill --------------------------------
(***************************************************************************)
(* The buffer a file's writes gather in (synology-filestation-fuse         *)
(* spill.rs): in memory up to SpillAt bytes, then in a temp file of its    *)
(* own, with names others may have taken and a disk that may refuse.       *)
(*                                                                         *)
(* The bytes are sequences of small numbers.  `told` is the reference: what*)
(* the operations that reported success make of an empty file; `torn` holds*)
(* the offsets an operation that reported failure may have left changed.   *)
(***************************************************************************)
EXTENDS Naturals, Sequences, FiniteSets

CONSTANTS SpillAt, NameAttempts,
          MaxLen, Bytes          \* bounds: the longest file, and byte values

SpillAssumption ==
    /\ {SpillAt, NameAttempts} \subseteq Nat /\ MaxLen \in Nat \ {0}
    /\ Bytes \subseteq Nat \ {0}

VARIABLES store,     \* memory, or spilled
          memory,    \* Store::Memory's bytes
          temp,      \* the name of the temp file, or 0
          disk,      \* the files in the temp directory: name |-> bytes
          planted,   \* the names somebody else took
          len,       \* the logical length
          gone,      \* the buffer was dropped
          usable,    \* the temp directory exists
          told, torn

vars == <<store, memory, temp, disk, planted, len, gone, usable, told, torn>>

Names == 1 .. NameAttempts     \* the candidate names of this buffer
Foreign == <<0>>               \* what another's file holds
Files == UNION {[1 .. n -> Bytes \cup {0}] : n \in 0 .. MaxLen}

TypeOK ==
    /\ store \in {"memory", "spilled"} /\ memory \in Files
    /\ temp \in {0} \cup Names /\ DOMAIN disk \subseteq Names
    /\ \A n \in DOMAIN disk : disk[n] \in Files
    /\ planted \subseteq Names /\ len \in 0 .. MaxLen /\ gone \in BOOLEAN /\ usable \in BOOLEAN
    /\ told \in Files /\ torn \subseteq 1 .. MaxLen

Init ==
    /\ store = "memory" /\ memory = <<>> /\ temp = 0
    /\ planted \in SUBSET Names /\ disk = [n \in planted |-> Foreign]
    /\ len = 0 /\ gone = FALSE /\ usable = TRUE /\ told = <<>> /\ torn = {}

\* The directory d when the file of name n holds these bytes.
Put(d, n, bytes) == [m \in DOMAIN d \cup {n} |-> IF m = n THEN bytes ELSE d[m]]

-----------------------------------------------------------------------------
(* What a write and a resize make of a file. *)

Larger(a, b) == IF a > b THEN a ELSE b
Resized(f, n) == [i \in 1 .. n |-> IF i <= Len(f) THEN f[i] ELSE 0]
Written(f, at, data) ==
    LET g == Resized(f, Larger(Len(f), at + Len(data)))
    IN  [i \in DOMAIN g |-> IF at < i /\ i <= at + Len(data) THEN data[i - at] ELSE g[i]]

\* The bytes, wherever they live: as_bytes, and what payload_for hands over.
Contents == IF store = "memory" THEN memory ELSE disk[temp]

Free == Names \ DOMAIN disk

\* A slip: the first name, whoever has it.
Candidate_First == CHOOSE n \in Names : \A m \in Names : n <= m

\* spill: the first candidate name nobody has.
Candidate == CHOOSE n \in Free : \A m \in Free : n <= m

\* A slip: the bytes taken out are not handed back.
HandedBack_Not == <<>>

\* A spill that fails puts the bytes back.
HandedBack == memory


\* create_new: no name that is taken.
Spillable == usable /\ Free # {}

\* A slip: a half-written spill file is left.
AfterFailedSpill_Left == Put(disk, Candidate, <<>>)

\* A half-written spill file is removed.
AfterFailedSpill == disk

-----------------------------------------------------------------------------
(* Operations.  One that needs the disk may find the directory gone, every name
   taken, or the disk full. *)

Needs(end) == store = "memory" /\ end > SpillAt

SpillFails(end) ==
    /\ Needs(end)
    /\ memory' = HandedBack
    /\ disk' \in {disk} \cup (IF Spillable THEN {AfterFailedSpill} ELSE {})
    /\ UNCHANGED <<store, temp, planted, len, gone, usable, told, torn>>

\* The store on disk, before or after this operation's spill: its name, the files.
OnDisk(end) ==
    IF store = "spilled" THEN {<<temp, disk>>}
    ELSE IF Needs(end) /\ Spillable THEN {<<Candidate, Put(disk, Candidate, memory)>>} ELSE {}

\* On disk, a write may be cut short at any byte.
Puts(t, d, at, data) ==
    /\ store' = "spilled" /\ temp' = t /\ memory' = <<>>
    /\ \/ /\ disk' = Put(d, t, Written(d[t], at, data))
          /\ len' = Larger(len, at + Len(data)) /\ told' = Written(told, at, data)
          /\ torn' = torn \ ((at + 1) .. (at + Len(data)))
       \/ \E n \in 0 .. Len(data) - 1 :
            /\ disk' = IF n = 0 THEN d ELSE Put(d, t, Written(d[t], at, SubSeq(data, 1, n)))
            /\ torn' = torn \cup ((at + 1) .. (at + n))
            /\ UNCHANGED <<len, told>>

WriteAt(at, data) ==
    /\ ~gone /\ at + Len(data) <= MaxLen
    /\ \/ SpillFails(at + Len(data))
       \/ /\ store = "memory" /\ ~Needs(at + Len(data))
          /\ memory' = Written(memory, at, data)
          /\ len' = Larger(len, at + Len(data)) /\ told' = Written(told, at, data)
          /\ torn' = torn \ ((at + 1) .. (at + Len(data)))
          /\ UNCHANGED <<store, temp, disk, planted, gone, usable>>
       \/ /\ \E on \in OnDisk(at + Len(data)) : Puts(on[1], on[2], at, data)
          /\ UNCHANGED <<planted, gone, usable>>

\* set_len; on disk it is made or refused whole.
SetLen(n) ==
    /\ ~gone
    /\ \/ SpillFails(n)
       \/ /\ store = "memory" /\ ~Needs(n)
          /\ memory' = Resized(memory, n) /\ len' = n /\ told' = Resized(told, n)
          /\ torn' = {} /\ UNCHANGED <<store, temp, disk, planted, gone, usable>>
       \/ \E on \in OnDisk(n) :
          /\ store' = "spilled" /\ temp' = on[1] /\ memory' = <<>>
          /\ \/ /\ disk' = Put(on[2], on[1], Resized(on[2][on[1]], n))
                /\ len' = n /\ told' = Resized(told, n) /\ torn' = torn \cap (1 .. n)
             \/ disk' = on[2] /\ UNCHANGED <<len, told, torn>>
          /\ UNCHANGED <<planted, gone, usable>>

\* Drop: the temp file goes with the buffer.
Drops ==
    /\ ~gone /\ gone' = TRUE
    /\ disk' = IF store = "spilled" THEN [n \in DOMAIN disk \ {temp} |-> disk[n]] ELSE disk
    /\ UNCHANGED <<store, memory, temp, planted, len, usable, told, torn>>

\* $TMPDIR goes from under the mount, or another takes a name.
Elsewhere ==
    /\ \/ usable /\ usable' = FALSE /\ UNCHANGED <<disk, planted>>
       \/ \E n \in Free : /\ disk' = Put(disk, n, Foreign) /\ planted' = planted \cup {n}
                          /\ UNCHANGED usable
    /\ UNCHANGED <<store, memory, temp, len, gone, told, torn>>

Next ==
    \/ \E at \in 0 .. MaxLen, b \in Bytes, c \in Bytes : WriteAt(at, <<b>>) \/ WriteAt(at, <<b, c>>)
    \/ \E n \in 0 .. MaxLen : SetLen(n)
    \/ Drops \/ Elsewhere

Spec == Init /\ [][Next]_vars

-----------------------------------------------------------------------------
(* Properties *)

\* The bytes are those the operations that succeeded made, whether or not they
\* were moved to disk on the way and however many failed: only where a write was
\* cut short on disk may they differ.
BytesKept ==
    ~gone => \A i \in 1 .. Len(told) :
                i <= Len(Contents) /\ (i \notin torn => Contents[i] = told[i])

\* A file is left in the temp directory only while a spilled buffer lives, and
\* nobody else's is written or removed.
OthersKept ==
    /\ \A n \in planted : n \in DOMAIN disk /\ disk[n] = Foreign
    /\ DOMAIN disk \ planted = IF store = "spilled" /\ ~gone THEN {temp} ELSE {}

\* The length is the bytes'.
LengthIsTrue == ~gone /\ torn = {} => len = Len(Contents)
=============================================================================
