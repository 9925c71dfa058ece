--------------------------- MODULE HttpUploadProofs ---------------------------
(***************************************************************************)
(* What an upload's answer is worth, for files of any number of slices,    *)
(* any number of attempts and any number of requests still on their way.   *)
(*                                                                         *)
(* IInv says what the client may rely on between two answers.  While it    *)
(* suspects nothing (resent is FALSE), no request of its pass is astray    *)
(* and the partial is exactly what was acknowledged, or gone (Suspects);   *)
(* so the file its last slice puts in place is the whole one, and stays    *)
(* (Landed).                                                               *)
(***************************************************************************)
EXTENDS HttpUpload, SequenceTheorems, TLAPS

Verified == {"size", "settle", "hash", "reject"}

Kinds ==
    /\ total \in Nat \ {0}
    /\ partial \in [Pass -> Seq(Nat)]
    /\ \A m \in late : m.pass \in Pass /\ m.slice \in 1 .. total
    /\ index \in 1 .. total /\ restarts \in Pass
    /\ handle \in BOOLEAN /\ resent \in BOOLEAN

\* A one-shot upload has no handle and nothing to verify; a pass has its handle exactly
\* from its second slice on.
Shape ==
    /\ OneShot => ~ handle /\ pc \notin Verified \cup {"look"}
    /\ pc = "send" => (handle <=> index > 1)
    /\ pc = "clear" => index = 1 /\ ~ handle

\* A request of the pass, or of a later one, is on its way only if it is suspected.
Suspects ==
    /\ \A m \in late : m.pass <= restarts
    /\ (~ OneShot /\ pc \in {"clear", "send"})
          => \A m \in late : m.pass = restarts => handle /\ resent
    /\ pc = "look" => \A m \in late : m.pass < restarts

Landed ==
    /\ pc \in Verified => file # Gone
    /\ (pc \in {"size", "settle"} /\ ~ resent) => file = Whole
    /\ pc = "reject" => file # Whole

IInv == Kinds /\ Shape /\ Suspects /\ DoublesAreSuspected /\ Landed
-----------------------------------------------------------------------------
(* Lemmas. *)

\* Appending touches one partial, and puts a file only where there was none.
LEMMA AppendedOnlyThere ==
    ASSUME Kinds, NEW r \in Pass, NEW i \in 1 .. total, Appended(r, i)
    PROVE  /\ partial' \in [Pass -> Seq(Nat)]
           /\ \A q \in Pass \ {r} : partial'[q] = partial[q]
           /\ file # Gone => file' = file
  <1> DEFINE body == IF i = 1 THEN <<i>> ELSE Append(partial[r], i)
  <1>1. total \in Nat /\ i \in Nat /\ partial[r] \in Seq(Nat) BY DEF Kinds
  <1>2. body \in Seq(Nat) BY <1>1
  <1>3. Gone \in Seq(Nat) BY DEF Gone
  <1>4. IF i = total
        THEN Lands(body) /\ partial' = [partial EXCEPT ![r] = Gone]
        ELSE partial' = [partial EXCEPT ![r] = body] /\ UNCHANGED file
    BY DEF Appended
  <1> HIDE DEF body
  <1>5. CASE i = total BY <1>3, <1>4, <1>5 DEF Kinds, Lands
  <1>6. CASE i # total BY <1>2, <1>4, <1>6 DEF Kinds
  <1> QED BY <1>5, <1>6

\* A sequence of slices in order, one longer.
LEMMA PrefixGrows ==
    ASSUME NEW n \in Nat
    PROVE  Append([k \in 1 .. n |-> k], n + 1) = [k \in 1 .. n + 1 |-> k]
  <1> DEFINE s == [k \in 1 .. n |-> k]
  <1>1. s \in Seq(Nat) /\ Len(s) = n OBVIOUS
  <1>2. \A k \in 1 .. n : s[k] = k OBVIOUS
  <1> HIDE DEF s
  <1>3. /\ Append(s, n + 1) \in Seq(Nat) /\ Len(Append(s, n + 1)) = n + 1
        /\ \A k \in 1 .. n : Append(s, n + 1)[k] = s[k]
        /\ Append(s, n + 1)[n + 1] = n + 1
    BY <1>1, AppendProperties
  <1>4. Append(s, n + 1) \in [1 .. n + 1 -> Nat] BY <1>3, LenProperties
  <1>5. \A k \in 1 .. n + 1 : Append(s, n + 1)[k] = k BY <1>2, <1>3
  <1> QED BY <1>4, <1>5 DEF s

\* The whole file is a file.
LEMMA WholeIsThere == ASSUME total \in Nat \ {0} PROVE Whole # Gone /\ Len(Whole) = total
  <1>1. Whole \in Seq(Nat) /\ Len(Whole) = total BY DEF Whole
  <1> QED BY <1>1 DEF Gone

\* Sending slice after slice, with every answer received, builds the whole file.
LEMMA SentBuilds ==
    ASSUME Kinds, Shape, pc = "send", ~ resent, DoublesAreSuspected, Appended(restarts, index)
    PROVE  /\ ~ Last => partial'[restarts] = [k \in 1 .. index |-> k]
           /\ Last => file' = Whole
  <1> DEFINE body == IF index = 1 THEN <<index>> ELSE Append(partial[restarts], index)
  <1>1. index \in 1 .. total /\ index \in Nat /\ total \in Nat /\ restarts \in Pass
        /\ partial \in [Pass -> Seq(Nat)]
    BY DEF Kinds
  <1>2. body = [k \in 1 .. index |-> k]
    <2>1. CASE index = 1
      <3>1. <<1>> = [k \in 1 .. 1 |-> k] OBVIOUS
      <3> QED BY <2>1, <3>1
    <2>2. CASE index # 1
      <3>1. handle /\ partial[restarts] # Gone
        BY <1>1, <2>2 DEF Shape, Appended
      <3>2. partial[restarts] = [k \in 1 .. index - 1 |-> k]
        BY <3>1 DEF DoublesAreSuspected
      <3>3. index - 1 \in Nat /\ (index - 1) + 1 = index
        BY <1>1, <2>2
      <3>4. Append([k \in 1 .. index - 1 |-> k], (index - 1) + 1) = [k \in 1 .. (index - 1) + 1 |-> k]
        BY <3>3, PrefixGrows
      <3> QED BY <2>2, <3>2, <3>3, <3>4
    <2> QED BY <2>1, <2>2
  <1>3. IF index = total
        THEN Lands(body) /\ partial' = [partial EXCEPT ![restarts] = Gone]
        ELSE partial' = [partial EXCEPT ![restarts] = body] /\ UNCHANGED file
    BY DEF Appended
  <1> HIDE DEF body
  <1>4. ~ Last => partial'[restarts] = body
    BY <1>1, <1>3 DEF Last
  <1>5. ASSUME Last PROVE file' = Whole
    <2>1. body = Whole
      BY <1>2, <1>5 DEF Last, Whole
    <2>2. Len(body) = total
      BY <1>1, <2>1, WholeIsThere DEF Kinds
    <2> QED BY <1>1, <1>3, <1>5, <2>1, <2>2 DEF Last, Lands
  <1> QED BY <1>2, <1>4, <1>5
-----------------------------------------------------------------------------
(* The steps. *)

\* An upload begins with nothing sent.
LEMMA InitIInv == Init => IInv
  <1> SUFFICES ASSUME Init PROVE IInv OBVIOUS
  <1> USE UploadAssumption DEF Init
  <1>1. Kinds
    <2>1. partial \in [Pass -> Seq(Nat)] BY DEF Gone
    <2>2. total \in Nat \ {0} /\ index \in 1 .. total /\ restarts \in Pass BY DEF Pass
    <2>3. handle \in BOOLEAN /\ resent \in BOOLEAN OBVIOUS
    <2> QED BY <2>1, <2>2, <2>3 DEF Kinds
  <1>2. Shape BY DEF Shape, OneShot, Verified
  <1>3. Suspects BY DEF Suspects
  <1>4. DoublesAreSuspected BY DEF DoublesAreSuspected
  <1>5. Landed BY DEF Landed, Verified
  <1> QED BY <1>1, <1>2, <1>3, <1>4, <1>5 DEF IInv

\* A request nobody waits for: if it is of this pass, the pass is suspected; if it is of
\* another, it touches another partial.  A file that is there stays.
LEMMA LateArrivalKeeps == ASSUME IInv, NEW m \in late, LateArrival(m) PROVE IInv'
  <1> USE UploadAssumption DEF IInv
  <1>0. /\ UNCHANGED <<total, pc, index, attempt, restarts, handle, resent>>
        /\ late' \subseteq late
        /\ m.pass \in Pass /\ m.slice \in 1 .. total
    BY DEF LateArrival, job, client, Kinds
  <1>1. /\ partial' \in [Pass -> Seq(Nat)]
        /\ \A q \in Pass \ {m.pass} : partial'[q] = partial[q]
        /\ file # Gone => file' = file
    <2>1. CASE Appended(m.pass, m.slice) BY <1>0, <2>1, AppendedOnlyThere
    <2>2. CASE UNCHANGED <<file, partial>> BY <2>2 DEF Kinds
    <2> QED BY <2>1, <2>2 DEF LateArrival
  <1>2. Kinds' BY <1>0, <1>1 DEF Kinds, Pass
  <1>3. Shape' BY <1>0 DEF Shape, OneShot
  <1>4. Suspects' BY <1>0 DEF Suspects, OneShot
  <1>5. DoublesAreSuspected'
    <2> SUFFICES ASSUME pc = "send", handle, ~ resent
                 PROVE  partial'[restarts] \in {Gone, [k \in 1 .. index - 1 |-> k]}
      BY <1>0 DEF DoublesAreSuspected
    <2>1. m.pass # restarts
      BY DEF Suspects, Shape
    <2>2. partial'[restarts] = partial[restarts]
      BY <1>1, <2>1 DEF Kinds
    <2> QED BY <2>2 DEF DoublesAreSuspected
  <1>6. Landed'
    <2>1. CASE pc \notin Verified BY <1>0, <2>1 DEF Landed, Verified
    <2>2. CASE pc \in Verified
      <3>1. file' = file BY <1>1, <2>2 DEF Landed
      <3> QED BY <1>0, <3>1 DEF Landed, Whole
    <2> QED BY <2>1, <2>2
  <1> QED BY <1>2, <1>3, <1>4, <1>5, <1>6

\* A partial that goes is no wrong partial.
LEMMA ReapKeeps == ASSUME IInv, NEW r \in Pass, Reap(r) PROVE IInv'
  <1> USE UploadAssumption DEF IInv
  <1>0. /\ UNCHANGED <<total, file, late, pc, index, restarts, handle, resent>>
        /\ partial' = [partial EXCEPT ![r] = Gone]
    BY DEF Reap, job, client
  <1>1. Gone \in Seq(Nat) BY DEF Gone
  <1>2. Kinds' BY <1>0, <1>1 DEF Kinds, Pass
  <1>3. Shape' BY <1>0 DEF Shape, OneShot
  <1>4. Suspects' BY <1>0 DEF Suspects, OneShot
  <1>5. DoublesAreSuspected'
    <2>1. partial'[restarts] \in {Gone, partial[restarts]} BY <1>0 DEF Kinds
    <2> QED BY <1>0, <2>1 DEF DoublesAreSuspected
  <1>6. Landed' BY <1>0 DEF Landed, Whole
  <1> QED BY <1>2, <1>3, <1>4, <1>5, <1>6

\* Somebody else's file comes only where there is none.
LEMMA IntrudeKeeps == IInv /\ Intrude => IInv'
  <1> SUFFICES ASSUME IInv, Intrude PROVE IInv' OBVIOUS
  <1> USE UploadAssumption DEF IInv
  <1>0. /\ UNCHANGED <<total, partial, late, pc, index, restarts, handle, resent>>
        /\ file = Gone
    BY DEF Intrude, job, client
  <1>2. Kinds' BY <1>0 DEF Kinds, Pass
  <1>3. Shape' BY <1>0 DEF Shape, OneShot
  <1>4. Suspects' BY <1>0 DEF Suspects, OneShot
  <1>5. DoublesAreSuspected' BY <1>0 DEF DoublesAreSuspected
  <1>6. Landed' BY <1>0 DEF Landed, Verified
  <1> QED BY <1>2, <1>3, <1>4, <1>5, <1>6

\* A slice answered with success.
LEMMA SentKeeps == IInv /\ Sent => IInv'
  <1> SUFFICES ASSUME IInv, Sent PROVE IInv' OBVIOUS
  <1> USE UploadAssumption DEF IInv
  <1>0. /\ UNCHANGED <<total, late, restarts, resent>>
        /\ pc = "send" /\ Appended(restarts, index)
        /\ handle' = (handle \/ ~ Last)
        /\ \/ ~ Last /\ index' = index + 1 /\ pc' = "send"
           \/ Last /\ OneShot /\ pc' = "done" /\ index' = index
           \/ Last /\ ~ OneShot /\ pc' = "size" /\ index' = index
    BY DEF Sent, job, Finish
  <1>1. total \in Nat /\ index \in 1 .. total /\ restarts \in Pass
    BY DEF Kinds
  <1>2. /\ partial' \in [Pass -> Seq(Nat)]
    BY <1>0, <1>1, AppendedOnlyThere
  <1>3. handle' \in BOOLEAN
    BY <1>0
  <1>4. Kinds'
    <2>1. index' \in 1 .. total'
      BY <1>0, <1>1 DEF Last
    <2> QED BY <1>0, <1>2, <1>3, <2>1 DEF Kinds, Pass
  <1>5. Shape'
    <2>1. CASE ~ Last
      <3>1. ~ OneShot'
        BY <1>0, <1>1, <2>1 DEF OneShot, Last
      <3>2. pc' = "send" /\ index' > 1
        BY <1>0, <1>1, <2>1
      <3>3. handle'
        BY <1>0, <2>1, Zenon
      <3> QED BY <3>1, <3>2, <3>3 DEF Shape
    <2>2. CASE Last
      <3>1. pc' = "done" \/ (pc' = "size" /\ ~ OneShot)
        BY <1>0, <2>2
      <3>2. OneShot' => OneShot /\ ~ handle'
        BY <1>0, <2>2 DEF Shape, OneShot
      <3> QED BY <3>1, <3>2 DEF Shape, Verified
    <2> QED BY <2>1, <2>2
  <1>6. Suspects'
    BY <1>0, <1>1 DEF Suspects, OneShot
  <1>7. DoublesAreSuspected'
    <2> SUFFICES ASSUME pc' = "send", ~ resent
                 PROVE  partial'[restarts] = [k \in 1 .. index' - 1 |-> k]
      BY <1>0 DEF DoublesAreSuspected
    <2>1. ~ Last /\ index' - 1 = index
      BY <1>0, <1>1
    <2> QED BY <1>0, <2>1, SentBuilds
  <1>8. Landed'
    <2> SUFFICES ASSUME Last, pc' = "size" PROVE file' # Gone /\ (~ resent => file' = Whole)
      BY <1>0 DEF Landed, Verified, Whole
    <2>1. ~ resent => file' = Whole
      BY <1>0, SentBuilds
    <2>2. file' # Gone
      <3> DEFINE body == IF index = 1 THEN <<index>> ELSE Append(partial[restarts], index)
      <3>1. Lands(body)
        BY <1>0 DEF Appended, Last
      <3>2. body \in Seq(Nat) /\ Len(body) > 0
        BY <1>1 DEF Kinds
      <3> HIDE DEF body
      <3>3. total \in Nat \ {0} BY DEF Kinds
      <3>4. file' \in Seq(Nat) /\ Len(file') > 0
        BY <3>1, <3>2, <3>3 DEF Lands
      <3> QED BY <3>4 DEF Gone
    <2> QED BY <2>1, <2>2
  <1> QED BY <1>4, <1>5, <1>6, <1>7, <1>8
\* A failed attempt: what it may have left is suspected from the second slice on; before
\* it, it left nothing the client will ever name.
LEMMA FailedKeeps == ASSUME IInv, Lost \/ Unconnected \/ Refused PROVE IInv'
  <1> USE UploadAssumption DEF IInv
  <1>0. /\ UNCHANGED <<total, index, restarts, handle>>
        /\ pc = "send" /\ pc' \in {"done", "clear", "send"}
        /\ pc' = "clear" => OneShot
    BY DEF Lost, Unconnected, Refused, Retry, Finish, job
  <1>1. index \in 1 .. total /\ restarts \in Pass /\ total \in Nat \ {0}
    BY DEF Kinds
  <1>2. resent' \in BOOLEAN /\ (resent => resent')
    BY DEF Lost, Unconnected, Refused, Kinds
  <1>3. \/ Astray
        \/ UNCHANGED <<file, partial, late>>
    BY DEF Lost, Unconnected, Refused, nas
  <1>4. /\ partial' \in [Pass -> Seq(Nat)]
        /\ \A m \in late' : \/ m \in late
                            \/ (handle \/ OneShot) /\ m.pass = restarts /\ m.slice = index
    <2>1. CASE (handle \/ OneShot) /\ Appended(restarts, index) /\ UNCHANGED late
      BY <1>1, <2>1, AppendedOnlyThere
    <2>2. CASE UNCHANGED <<file, partial, late>>
      BY <2>2 DEF Kinds
    <2>3. CASE /\ handle \/ OneShot
               /\ late' = late \cup {[pass |-> restarts, slice |-> index, nth |-> attempt]}
               /\ UNCHANGED <<file, partial>>
      BY <2>3 DEF Kinds
    <2> QED BY <1>3, <2>1, <2>2, <2>3 DEF Astray, nas
  <1>5. Kinds'
    BY <1>0, <1>1, <1>2, <1>4 DEF Kinds, Pass
  <1>6. Shape'
    BY <1>0, <1>1 DEF Shape, OneShot, Verified
  <1>7. Suspects'
    <2>1. \A m \in late' : m.pass <= restarts'
      BY <1>0, <1>1, <1>4 DEF Suspects, Pass
    <2>2. ASSUME ~ OneShot', pc' \in {"clear", "send"}, NEW m \in late', m.pass = restarts'
          PROVE  handle' /\ resent'
      <3>1. ~ OneShot BY <1>0, <2>2 DEF OneShot
      <3>2. CASE m \in late
        <4>1. handle /\ resent BY <1>0, <2>2, <3>1, <3>2 DEF Suspects
        <4> QED BY <1>0, <1>2, <4>1
      <3>3. CASE m \notin late
        <4>1. handle BY <1>4, <2>2, <3>1, <3>3
        <4>2. Lost
          <5>1. ~ Refused BY <2>2 DEF Refused, Finish
          <5>2. ~ Unconnected BY <2>2, <3>3 DEF Unconnected, nas
          <5> QED BY <5>1, <5>2
        <4>3. resent' BY <4>1, <4>2 DEF Lost
        <4> QED BY <1>0, <4>1, <4>3
      <3> QED BY <3>2, <3>3
    <2> QED BY <1>0, <2>1, <2>2 DEF Suspects
  <1>8. DoublesAreSuspected'
    <2> SUFFICES ASSUME pc' = "send", handle, ~ resent'
                 PROVE  partial'[restarts] \in {Gone, [k \in 1 .. index - 1 |-> k]}
      BY <1>0 DEF DoublesAreSuspected
    <2>1. Unconnected
      BY DEF Lost, Refused, Finish
    <2>2. partial' = partial /\ ~ resent
      BY <1>2, <2>1 DEF Unconnected, nas
    <2> QED BY <1>0, <2>2 DEF DoublesAreSuspected
  <1>9. Landed'
    BY <1>0 DEF Landed, Verified
  <1> QED BY <1>5, <1>6, <1>7, <1>8, <1>9

\* Clearing the way, giving a pass up and starting over: a new pass has nothing astray.
LEMMA RestartsKeep == ASSUME IInv, Clear \/ Disowned \/ AlreadyLanded \/ StartOver PROVE IInv'
  <1> USE UploadAssumption DEF IInv
  <1>0. total' = total /\ partial' = partial /\ late' = late /\ (OneShot' <=> OneShot)
    BY DEF Clear, Disowned, AlreadyLanded, StartOver, job, nas, OneShot
  <1>1. index \in 1 .. total /\ restarts \in Pass /\ total \in Nat \ {0}
        /\ partial \in [Pass -> Seq(Nat)] /\ handle \in BOOLEAN /\ resent \in BOOLEAN
        /\ \A m \in late : m.pass \in Pass /\ m.slice \in 1 .. total
    BY DEF Kinds
  <1>2. CASE Clear
    <2>1. /\ UNCHANGED <<index, restarts, handle, resent>>
          /\ pc = "clear" /\ pc' = "send"
      BY <1>2 DEF Clear
    <2>2. index = 1 /\ ~ handle
      BY <2>1 DEF Shape
    <2>3. Kinds' BY <1>0, <1>1, <2>1 DEF Kinds, Pass
    <2>4. Shape' BY <1>0, <1>1, <2>1, <2>2 DEF Shape, Verified
    <2>5. Suspects' BY <1>0, <2>1 DEF Suspects
    <2>6. DoublesAreSuspected' BY <2>1, <2>2 DEF DoublesAreSuspected
    <2>7. Landed' BY <2>1 DEF Landed, Verified
    <2> QED BY <2>3, <2>4, <2>5, <2>6, <2>7
  <1>3. CASE Disowned
    <2>1. /\ UNCHANGED <<index, handle, resent>>
          /\ pc = "send" /\ handle /\ pc' = "look" /\ restarts' = restarts + 1 /\ restarts' \in Pass
      BY <1>1, <1>3 DEF Disowned, nas, Pass
    <2>2. Kinds' BY <1>0, <1>1, <2>1 DEF Kinds, Pass
    <2>3. Shape' BY <1>0, <1>1, <2>1 DEF Shape, Verified
    <2>4. Suspects' BY <1>0, <1>1, <2>1 DEF Suspects, Pass
    <2>5. DoublesAreSuspected' BY <2>1 DEF DoublesAreSuspected
    <2>6. Landed' BY <2>1 DEF Landed, Verified
    <2> QED BY <2>2, <2>3, <2>4, <2>5, <2>6
  <1>4. CASE AlreadyLanded
    <2>1. /\ UNCHANGED <<file, index, restarts, handle>>
          /\ pc = "look" /\ pc' = "size" /\ resent' = TRUE /\ Len(file) = total
      BY <1>4 DEF AlreadyLanded, nas
    <2>2. Kinds' BY <1>0, <1>1, <2>1 DEF Kinds, Pass
    <2>3. Shape' BY <1>0, <1>1, <2>1 DEF Shape, Verified
    <2>4. Suspects' BY <1>0, <1>1, <2>1 DEF Suspects, Pass
    <2>5. DoublesAreSuspected' BY <2>1 DEF DoublesAreSuspected
    <2>6. Landed'
      <3>1. file # Gone BY <1>1, <2>1 DEF Gone
      <3> QED BY <2>1, <3>1 DEF Landed, Verified
    <2> QED BY <2>2, <2>3, <2>4, <2>5, <2>6
  <1>5. CASE StartOver
    <2>1. /\ UNCHANGED restarts /\ index' = 1 /\ handle' = FALSE /\ resent' = FALSE
          /\ pc = "look" /\ pc' = "send"
      BY <1>5 DEF StartOver
    <2>2. Kinds'
      <3>1. index' \in 1 .. total' BY <1>0, <1>1, <2>1
      <3>2. handle' \in BOOLEAN /\ resent' \in BOOLEAN BY <2>1
      <3> QED BY <1>0, <1>1, <2>1, <3>1, <3>2 DEF Kinds, Pass
    <2>3. Shape' BY <1>0, <1>1, <2>1 DEF Shape, Verified
    <2>4. Suspects' BY <1>0, <1>1, <2>1 DEF Suspects, Pass
    <2>5. DoublesAreSuspected' BY <2>1 DEF DoublesAreSuspected
    <2>6. Landed' BY <2>1 DEF Landed, Verified
    <2> QED BY <2>2, <2>3, <2>4, <2>5, <2>6
  <1> QED BY <1>2, <1>3, <1>4, <1>5
\* verify_upload: what it reads stays, for nobody puts a file where there is one.
LEMMA VerifyingKeeps == IInv /\ Verifying => IInv'
  <1> SUFFICES ASSUME IInv, Verifying PROVE IInv' OBVIOUS
  <1> USE UploadAssumption DEF IInv
  <1>0. /\ UNCHANGED <<total, partial, late, index, restarts, handle, resent>>
        /\ pc \in Verified /\ pc' \in {"settle", "hash", "reject", "done"}
        /\ pc' # "done" => file' = file
    BY DEF Verifying, Size, Settle, Hash, HashRefused, Reject, Sized, Finish, job, nas, Verified
  <1>1. pc' = "settle" => pc = "size"
    BY DEF Verifying, Size, Settle, Hash, HashRefused, Reject, Sized, Finish
  <1>2. pc' = "reject" => file # Whole
    <2>1. total \in Nat \ {0} BY DEF Kinds
    <2>2. Len(Whole) = total BY <2>1, WholeIsThere
    <2> QED BY <2>2 DEF Verifying, Size, Settle, Hash, HashRefused, Reject, Sized, Finish
  <1>3. Kinds' BY <1>0 DEF Kinds, Pass
  <1>4. Shape' BY <1>0 DEF Shape, OneShot, Verified
  <1>5. Suspects' BY <1>0 DEF Suspects
  <1>6. DoublesAreSuspected' BY <1>0 DEF DoublesAreSuspected
  <1>7. Landed'
    BY <1>0, <1>1, <1>2 DEF Landed, Whole, Verified
  <1> QED BY <1>3, <1>4, <1>5, <1>6, <1>7

\* Each step keeps the invariant.
LEMMA NextKeeps == IInv /\ [Next]_vars => IInv'
  <1> SUFFICES ASSUME IInv, [Next]_vars PROVE IInv' OBVIOUS
  <1>1. CASE Sent BY <1>1, SentKeeps
  <1>2. CASE Lost \/ Unconnected \/ Refused BY <1>2, FailedKeeps
  <1>3. CASE Clear \/ Disowned \/ Restarting BY <1>3, RestartsKeep DEF Restarting
  <1>4. CASE Verifying BY <1>4, VerifyingKeeps
  <1>5. CASE \E m \in late : LateArrival(m) BY <1>5, LateArrivalKeeps
  <1>6. CASE \E r \in Pass : Reap(r) BY <1>6, ReapKeeps
  <1>7. CASE Intrude BY <1>7, IntrudeKeeps
  <1>8. CASE UNCHANGED vars
    BY <1>8 DEF vars, job, nas, client, IInv, Kinds, Shape, Suspects, DoublesAreSuspected,
                Landed, OneShot, Whole
  <1> QED
    BY <1>1, <1>2, <1>3, <1>4, <1>5, <1>6, <1>7, <1>8 DEF Next, Sending

-----------------------------------------------------------------------------
(* The theorems. *)

\* The inductive invariant holds: unless the client suspects a resend, the partial is what
\* it thinks, and the file it verifies is the whole one.
THEOREM Invariance == Spec => []IInv
  BY InitIInv, NextKeeps, PTL DEF Spec

\* unverified_resend is set whenever the partial of the pass may hold anything but the
\* slices that were answered for.
THEOREM ResendsAreSuspected == Spec => []DoublesAreSuspected
  <1>1. IInv => DoublesAreSuspected BY DEF IInv
  <1> QED BY <1>1, Invariance, PTL

\* reject_upload never deletes the file that was sent.
THEOREM OnlyEvidenceDeletes == Spec => []OnlyWrongFilesRejected
  <1>1. IInv => OnlyWrongFilesRejected BY DEF IInv, Landed, OnlyWrongFilesRejected
  <1> QED BY <1>1, Invariance, PTL

\* upload_stream returns Ok only with the whole file on the NAS, unless the NAS would not
\* hash what it was asked to.
THEOREM OkMeansWhole == Spec => SuccessIsFaithful
  <1>1. IInv /\ [Next]_vars => [(result # "ok" /\ result' = "ok" /\ ~ unhashed') => file' = Whole]_vars
    <2> SUFFICES ASSUME IInv, [Next]_vars, result # "ok", result' = "ok", ~ unhashed'
                 PROVE  file' = Whole
      OBVIOUS
    <2>1. CASE Sent
      <3>1. Last /\ OneShot /\ pc = "send" /\ Appended(restarts, index)
        BY <2>1 DEF Sent
      <3>2. file' = Whole
        <4>1. total = 1 /\ index = 1 BY <3>1 DEF Last, OneShot
        <4>2. Lands(<<1>>) BY <3>1, <4>1 DEF Appended
        <4>3. Whole = <<1>> BY <4>1 DEF Whole
        <4>4. Len(<<1>>) = 1 OBVIOUS
        <4> QED BY <4>1, <4>2, <4>3, <4>4 DEF Lands
      <3> QED BY <3>2
    <2>2. CASE Size \/ Settle
      <3>1. ~ resent /\ UNCHANGED file /\ pc \in {"size", "settle"}
        BY <2>2 DEF Size, Settle, Sized, Finish, nas
      <3> QED BY <3>1 DEF IInv, Landed
    <2>3. CASE Hash
      BY <2>3 DEF Hash, Finish, nas
    <2>4. CASE HashRefused
      BY <2>4 DEF HashRefused
    <2>5. CASE \/ Clear \/ Lost \/ Unconnected \/ Refused \/ Disowned \/ AlreadyLanded \/ StartOver
               \/ Reject \/ Intrude \/ UNCHANGED vars
               \/ (\E m \in late : LateArrival(m)) \/ (\E r \in Pass : Reap(r))
      <3>1. result' \in {result, "err"}
        BY <2>5 DEF Clear, Lost, Unconnected, Refused, Disowned, AlreadyLanded, StartOver, Reject,
                    Intrude, LateArrival, Reap, Retry, Finish, client, vars
      <3> QED BY <3>1
    <2> QED BY <2>1, <2>2, <2>3, <2>4, <2>5 DEF Next, Sending, Restarting, Verifying
  <1> QED BY <1>1, Invariance, PTL DEF Spec, SuccessIsFaithful
=============================================================================
