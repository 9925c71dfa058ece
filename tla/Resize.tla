-------------------------------- MODULE Resize -------------------------------
(***************************************************************************)
(* Setting a file's length over HTTP (core upload.rs, truncate, without a  *)
(* backend that can): the part worth keeping is fetched, padded, and       *)
(* uploaded, while somebody else may replace the file.                     *)
(*                                                                         *)
(* A byte is the version of the file it comes from, and 0 is padding.      *)
(***************************************************************************)
EXTENDS Naturals, Sequences

CONSTANTS Lengths,  \* of the file's versions
          MaxSize   \* bound

ResizeAssumption == Lengths \in Seq(Nat) /\ Lengths # <<>> /\ MaxSize \in Nat

VARIABLES now,     \* the version on the NAS
          size,    \* the length asked for
          step,
          want,    \* how much is fetched, 0 for everything
          data,    \* what is uploaded
          found    \* history: the version the data is of

vars == <<now, size, step, want, data, found>>

Whole(v) == [i \in 1 .. Lengths[v] |-> v]

TypeOK ==
    /\ now \in 1 .. Len(Lengths) /\ size \in 0 .. MaxSize /\ want \in 0 .. MaxSize
    /\ step \in {"stat", "download", "upload", "ok", "failed"}
    /\ data \in Seq(0 .. Len(Lengths)) /\ found \in 0 .. Len(Lengths)

\* Nothing to keep is nothing to fetch.
Init ==
    /\ now = 1 /\ size \in 0 .. MaxSize
    /\ step = IF size = 0 THEN "upload" ELSE "stat"
    /\ want = 0 /\ data = <<>> /\ found = 0

\* Vec::resize.
Resized(bytes, n) == [i \in 1 .. n |-> IF i <= Len(bytes) THEN bytes[i] ELSE 0]

\* A slip: what is known to be short is asked for by its length.
Wanted_Known(len) == IF len > size THEN size ELSE len

Wanted(len) == IF len > size THEN size ELSE 0

\* get_info, whose failure is a length not known.
Stats ==
    /\ step = "stat" /\ step' = "download"
    /\ want' = Wanted(Lengths[now]) \/ want' = 0
    /\ UNCHANGED <<now, size, data, found>>

Downloads ==
    /\ step = "download"
    /\ \/ /\ step' = "upload" /\ found' = now
          /\ LET all == Whole(now)
             IN  data' = Resized(IF want = 0 \/ want > Len(all) THEN all ELSE SubSeq(all, 1, want), size)
       \/ step' = "failed" /\ UNCHANGED <<data, found>>
    /\ UNCHANGED <<now, size, want>>

\* upload with overwrite (HttpUpload).
Uploads ==
    /\ step = "upload" /\ step' \in {"ok", "failed"}
    /\ UNCHANGED <<now, size, want, data, found>>

\* External: somebody replaces the file.
Replaced ==
    /\ now < Len(Lengths) /\ now' = now + 1
    /\ UNCHANGED <<size, step, want, data, found>>

Next == Stats \/ Downloads \/ Uploads \/ Replaced

Spec == Init /\ [][Next]_vars

-----------------------------------------------------------------------------
(* Properties *)

\* What is written back is one version of the file at the length asked for, padded with
\* zeros and with nothing of it lost, though its length was looked up in an earlier call.
OneVersion ==
    step \in {"upload", "ok"} =>
        data = IF size = 0 THEN <<>> ELSE Resized(Whole(found), size)
=============================================================================
