------------------------------ MODULE HttpUpload ------------------------------
(***************************************************************************)
(* One upload over the FileStation HTTP API (synology-filestation-core,    *)
(* client/upload.rs and client/verify.rs): the one-shot POST of a file of  *)
(* one slice, and the SLICEUPLOAD protocol for anything bigger.            *)
(*                                                                         *)
(* The protocol has no resume.  The NAS appends each slice blindly to a    *)
(* partial file and never says how much of it it holds, so a slice resent  *)
(* because its answer was lost may be appended twice; the client has to    *)
(* notice that it MIGHT have been, and have the landed file hashed.        *)
(*                                                                         *)
(* A file is the sequence of its slices, 1 .. total in the right one; a    *)
(* file of somebody else is made of zeros, and no file at all is <<>>.     *)
(* The NAS is external: it is modelled by what this client's comments and  *)
(* error handling take it to do.  A partial whose handle the client never  *)
(* learnt cannot be reached again, and is left out.                        *)
(***************************************************************************)
EXTENDS Naturals, Sequences, FiniteSets

CONSTANTS MaxSlices,    \* bound: slices of the file
          MaxAttempts,  \* max_transfer_attempts: per slice, and passes over the file
          MaxLate       \* bound: requests given up on that are still on their way

ASSUME UploadAssumption ==
    MaxSlices \in Nat \ {0} /\ MaxAttempts \in Nat \ {0} /\ MaxLate \in Nat

VARIABLES total,      \* slices of the local file
          overwrite,  \* may the upload replace what is at its path?
          file,       \* NAS: what is at the path
          partial,    \* NAS: the partial file of each pass
          late,       \* requests given up on that the NAS may yet act on
          pc,         \* the await the call is at
          index,      \* the slice being sent
          attempt,    \* failed attempts at it
          restarts,   \* passes given up: the current pass
          handle,     \* has the pass its tmpfile handle?
          resent,     \* unverified_resend
          unhashed,   \* history: accepted though the NAS gave no hash it was asked for
          intruded,   \* history: somebody else has made a file meanwhile (a bound)
          result      \* what the call returned

job == <<total, overwrite>>
nas == <<file, partial, late>>
client == <<pc, index, attempt, restarts, handle, resent, unhashed, result>>
vars == <<job, nas, client, intruded>>

Pass == 0 .. MaxAttempts - 1
Whole == [i \in 1 .. total |-> i]
Foreign == {[i \in 1 .. n |-> 0] : n \in 1 .. MaxSlices}
Gone == <<>>   \* no such file, no such partial

TypeOK ==
    /\ total \in 1 .. MaxSlices /\ overwrite \in BOOLEAN
    /\ file \in Seq(0 .. MaxSlices)
    /\ partial \in [Pass -> Seq(1 .. MaxSlices)]
    /\ late \subseteq [pass : Pass, slice : 1 .. MaxSlices, nth : Pass]
    /\ pc \in {"clear", "send", "look", "size", "settle", "hash", "reject", "done"}
    /\ index \in 1 .. total /\ attempt \in Pass /\ restarts \in Pass
    /\ handle \in BOOLEAN /\ resent \in BOOLEAN
    /\ unhashed \in BOOLEAN /\ intruded \in BOOLEAN
    /\ result \in {"none", "ok", "err"}

Init ==
    /\ total \in 1 .. MaxSlices /\ overwrite \in BOOLEAN
    /\ file \in {Gone} \cup Foreign
    /\ partial = [r \in Pass |-> Gone]
    /\ late = {}
    /\ pc = IF overwrite THEN "clear" ELSE "send"
    /\ index = 1 /\ attempt = 0 /\ restarts = 0
    /\ handle = FALSE /\ resent = FALSE
    /\ unhashed = FALSE /\ intruded = FALSE /\ result = "none"

OneShot == total = 1
Last == index = total

-----------------------------------------------------------------------------
(* The NAS.  What happens there once the call has returned is nobody's business. *)

\* A file of the right name where there is none: the POST always says
\* overwrite=false, so the NAS refuses (418) where there is one.  It may keep what
\* a partial has, or trim it to X-FILE-SIZE.
Lands(body) ==
    /\ file = Gone
    /\ \/ file' = body
       \/ Len(body) > total /\ file' = SubSeq(body, 1, total)

\* What becomes of slice i of pass r when the NAS acts on it.  The first opens a
\* fresh partial, the others need it to be there, and the last also puts it in
\* place, if it can.
Appended(r, i) ==
    /\ i > 1 => partial[r] # Gone
    /\ LET body == IF i = 1 THEN <<i>> ELSE Append(partial[r], i)
       IN  IF i = total
           THEN Lands(body) /\ partial' = [partial EXCEPT ![r] = Gone]
           ELSE partial' = [partial EXCEPT ![r] = body] /\ UNCHANGED file

\* The NAS acts on a request whose answer nobody waits for any more.
LateArrival(m) ==
    /\ pc # "done" /\ m \in late
    /\ late' = late \ {m}
    /\ Appended(m.pass, m.slice) \/ UNCHANGED <<file, partial>>
    /\ UNCHANGED <<job, client, intruded>>

\* The NAS discards a partial: its connection went, or it was reaped.
Reap(r) ==
    /\ pc # "done" /\ partial[r] # Gone
    /\ partial' = [partial EXCEPT ![r] = Gone]
    /\ UNCHANGED <<job, client, file, late, intruded>>

\* Somebody else makes a file at the path while the upload runs.
Intrude ==
    /\ pc # "done" /\ file = Gone /\ ~ intruded
    /\ file' \in Foreign
    /\ intruded' = TRUE
    /\ UNCHANGED <<job, client, partial, late>>

-----------------------------------------------------------------------------
(* The client. *)

Finish(answer) == pc' = "done" /\ result' = answer

\* clear_for_overwrite: a deletion whose failure is ignored, and a wait for the file
\* to be gone that ends after ten looks whatever they saw.
Clear ==
    /\ pc = "clear"
    /\ pc' = "send"
    /\ file' \in {file, Gone}
    /\ UNCHANGED <<job, partial, late, intruded>>
    /\ UNCHANGED <<index, attempt, restarts, handle, resent, unhashed, result>>

\* The slice is answered with success.  The first answer of a pass brings its
\* handle; the last is the result, which a sliced upload goes on to verify.
Sent ==
    /\ pc = "send"
    /\ Appended(restarts, index)
    /\ attempt' = 0
    /\ handle' = (handle \/ ~ Last)
    /\ \/ ~ Last /\ index' = index + 1 /\ UNCHANGED <<pc, result>>
       \/ Last /\ OneShot /\ Finish("ok") /\ UNCHANGED index
       \/ Last /\ ~ OneShot /\ pc' = "size" /\ UNCHANGED <<index, result>>
    /\ UNCHANGED <<job, late, restarts, resent, unhashed, intruded>>

\* What a failed attempt may have left on the NAS: the slice appended, nothing, or
\* a request still on its way.  The slice that opens a pass appends to nothing the
\* client will ever name, unless it is the whole of a one-shot upload.
Astray ==
    \/ (handle \/ OneShot) /\ Appended(restarts, index) /\ UNCHANGED late
    \/ UNCHANGED nas
    \/ /\ handle \/ OneShot
       /\ Cardinality(late) < MaxLate
       /\ late' = late \cup {[pass |-> restarts, slice |-> index, nth |-> attempt]}
       /\ UNCHANGED <<file, partial>>

\* The bound on attempts, or another: a one-shot upload clears its way first, on
\* every attempt.
Retry ==
    IF attempt + 1 >= MaxAttempts
    THEN Finish("err") /\ UNCHANGED attempt
    ELSE /\ attempt' = attempt + 1
         /\ pc' = IF OneShot /\ overwrite THEN "clear" ELSE "send"
         /\ UNCHANGED result

\* Mutant: one attempt too many.
Lost_OffByOne ==
    /\ pc = "send"
    /\ Astray
    /\ IF attempt + 1 > MaxAttempts
       THEN Finish("err") /\ UNCHANGED attempt
       ELSE attempt' = attempt + 1 /\ UNCHANGED <<pc, result>>
    /\ resent' = (resent \/ handle)
    /\ UNCHANGED <<job, index, restarts, handle, unhashed, intruded>>

\* Mutant: a slice with no answer is taken not to have landed.
Lost_NotLanded ==
    /\ pc = "send"
    /\ Astray
    /\ Retry
    /\ UNCHANGED <<job, index, restarts, handle, resent, unhashed, intruded>>

\* No answer (a timeout, a reset, a gateway's 502), or for a slice a 402 "busy": the
\* NAS may or may not have it.  From a pass's second slice on, that is remembered.
Lost ==
    /\ pc = "send"
    /\ Astray
    /\ Retry
    /\ resent' = (resent \/ handle)
    /\ UNCHANGED <<job, index, restarts, handle, unhashed, intruded>>

\* The connection was never made: nothing was sent.
Unconnected ==
    /\ pc = "send"
    /\ Retry
    /\ UNCHANGED <<job, nas, index, restarts, handle, resent, unhashed, intruded>>

\* A verdict: no permission, no folder, a file in the way, no tmpfile in the answer,
\* or an answer that cannot be read.
Refused ==
    /\ pc = "send"
    /\ Astray
    /\ Finish("err")
    /\ UNCHANGED <<job, index, attempt, restarts, handle, resent, unhashed, intruded>>

\* Mutant: a restart that is not counted.
Disowned_Uncounted ==
    /\ pc = "send" /\ handle
    /\ pc' = "look"
    /\ UNCHANGED <<job, nas, index, attempt, restarts, handle, resent, unhashed, result, intruded>>

\* DSM's catch-all error while appending: the partial is gone, or so it is taken.
Disowned ==
    /\ pc = "send" /\ handle
    /\ restarts + 1 < MaxAttempts
    /\ pc' = "look"
    /\ restarts' = restarts + 1
    /\ UNCHANGED <<job, nas, index, attempt, handle, resent, unhashed, result, intruded>>

\* restart_slice_upload looks first: a file of the full size is taken to be this one,
\* landed by a request whose answer was lost.
AlreadyLanded ==
    /\ pc = "look"
    /\ Len(file) = total
    /\ pc' = "size"
    /\ resent' = TRUE
    /\ UNCHANGED <<job, nas, index, attempt, restarts, handle, unhashed, result, intruded>>

\* Otherwise (or if it cannot be looked at) the path is cleared, and a new pass
\* starts from the first slice.
StartOver ==
    /\ pc = "look"
    /\ pc' = "send"
    /\ file' \in {file, Gone}
    /\ index' = 1 /\ attempt' = 0 /\ handle' = FALSE /\ resent' = FALSE
    /\ UNCHANGED <<job, partial, late, restarts, unhashed, result, intruded>>

-----------------------------------------------------------------------------
(* verify_upload. *)

\* Past the size, only a resend is worth a hash.
Sized == IF resent THEN pc' = "hash" /\ UNCHANGED result ELSE Finish("ok")

\* Mutant: the first disagreement is believed.
Size_Hasty ==
    /\ pc = "size"
    /\ Sized \/ (pc' = "reject" /\ UNCHANGED result)
    /\ UNCHANGED <<job, nas, index, attempt, restarts, handle, resent, unhashed, intruded>>

\* The listing agrees, cannot be had, or disagrees -- because the file is wrong, or
\* because it has not caught up with a file just written.
Size ==
    /\ pc = "size"
    /\ Sized \/ (pc' = "settle" /\ UNCHANGED result)
    /\ UNCHANGED <<job, nas, index, attempt, restarts, handle, resent, unhashed, intruded>>

\* A second look, once the listing has caught up.
Settle ==
    /\ pc = "settle"
    /\ \/ Len(file) # total /\ pc' = "reject" /\ UNCHANGED result
       \/ Sized
    /\ UNCHANGED <<job, nas, index, attempt, restarts, handle, resent, unhashed, intruded>>

\* The digest agrees; or not; or the NAS could not be reached for it.
Hash ==
    /\ pc = "hash"
    /\ \/ file = Whole /\ Finish("ok")
       \/ file # Whole /\ pc' = "reject" /\ UNCHANGED result
       \/ Finish("err")
    /\ UNCHANGED <<job, nas, index, attempt, restarts, handle, resent, unhashed, intruded>>

\* The NAS answers the request for a hash with an error code: taken as a verdict
\* that it cannot hash, and the file is accepted.
HashRefused ==
    /\ pc = "hash"
    /\ Finish("ok")
    /\ unhashed' = TRUE
    /\ UNCHANGED <<job, nas, index, attempt, restarts, handle, resent, intruded>>

\* reject_upload: the file is deleted, if the deletion succeeds.
Reject ==
    /\ pc = "reject"
    /\ file' \in {file, Gone}
    /\ Finish("err")
    /\ UNCHANGED <<job, partial, late, index, attempt, restarts, handle, resent, unhashed, intruded>>

-----------------------------------------------------------------------------
Sending == Clear \/ Sent \/ Lost \/ Unconnected \/ Refused \/ Disowned
Restarting == AlreadyLanded \/ StartOver
Verifying == Size \/ Settle \/ Hash \/ HashRefused \/ Reject

Next ==
    \/ Sending \/ Restarting \/ Verifying
    \/ \E m \in late : LateArrival(m)
    \/ \E r \in Pass : Reap(r)
    \/ Intrude

Spec == Init /\ [][Next]_vars

\* Every request ends: the transfers have a deadline by their size, the rest the HTTP
\* client's read timeout, and a hash its own ceiling.
FairSpec == Spec /\ WF_vars(Sending \/ Restarting \/ Verifying)

-----------------------------------------------------------------------------
(* Properties. *)

\* The partial the client is appending to holds exactly the slices it has had
\* answers for, or the client knows that it might not ("Set when a resend might have
\* appended a slice the server already held").
DoublesAreSuspected ==
    (pc = "send" /\ handle /\ ~ resent)
        => partial[restarts] \in {Gone, [i \in 1 .. index - 1 |-> i]}

\* An upload that returns Ok left the whole file on the NAS, no slice missing and none
\* doubled, whatever was lost, late, resent or restarted -- unless the NAS answered the
\* request for a hash with an error, which the code documents that it accepts.
SuccessIsFaithful ==
    [][(result # "ok" /\ result' = "ok" /\ ~ unhashed') => file' = Whole]_vars

\* "Only positive evidence of a mismatch deletes": verification never deletes a file
\* that is the whole of what was sent.
OnlyWrongFilesRejected == pc = "reject" => file # Whole

\* Every upload comes to an end, however the NAS fails: resends and restarts are both
\* bounded.
UploadEnds == <>(pc = "done")

\* "`overwrite=false`'s 'fail if the file already exists' contract": an upload that may
\* not replace anything never removes somebody else's file.
NeverClobbers ==
    [][(~ overwrite /\ file \in Foreign) => file' = file]_vars
=============================================================================
