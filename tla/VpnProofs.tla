------------------------------ MODULE VpnProofs ------------------------------
(***************************************************************************)
(* What the proof system checks of the OpenVPN client: the control         *)
(* channel's reliability layer, the replay window, the TCP stream, the     *)
(* driver's loop and the connections' ports.  MCVpn runs the parts side by *)
(* side, one of them at a time moving; each theorem says, for every value  *)
(* of the constants that the part's assumption allows, what the run vpn    *)
(* checks for a few.                                                       *)
(***************************************************************************)
EXTENDS MCVpn, FiniteSetTheorems, SequenceTheorems, WellFoundedInduction, TLAPS

-----------------------------------------------------------------------------
(* Reliable: windows of any size and any number of messages.  The sender's *)
(* promise, what an acknowledgement means, and that the two windows with   *)
(* the network between them are a stream.  The inductive invariant         *)
(* WindowsInv follows an acknowledgement backwards: what the sender has    *)
(* let go of was acknowledged; what is acknowledged, on the wire, owed or  *)
(* listed, the receiver has (AcksTruthful); so the first message the       *)
(* receiver misses is still in flight, and the sender stays within a       *)
(* window of everything in flight (Spread).                                *)

\* The receiver has the message: handed up, or waiting behind a gap.
Got(i) == i < expected \/ i \in buffered

Kinds ==
    /\ nextId \in 0 .. MaxMessages /\ expected \in 0 .. nextId
    /\ inFlight \subseteq 0 .. nextId - 1 /\ net \subseteq 0 .. nextId - 1
    /\ buffered \subseteq expected + 1 .. nextId - 1
    /\ acks \subseteq SUBSET Id
    /\ pendingAcks \in Seq(Id)
    /\ recentAcks \in [Id -> Nat]

AcksTruthful ==
    /\ \A ids \in acks : \A i \in ids : Got(i)
    /\ \A i \in IdsIn(pendingAcks) : Got(i)
    /\ \A i \in Id : recentAcks[i] > 0 => Got(i)

Spread == \A i \in inFlight : nextId - i <= SendCapacity

\* What has been handed up is the beginning of what was handed in.
InOrder == delivered = [k \in 1 .. expected |-> k - 1]

WindowsInv == Kinds /\ AcksTruthful /\ AcknowledgedIsKept /\ Spread /\ InOrder



\* The invariant implies the promise of is_full: the first message the receiver misses is in
\* flight, and nothing queued is a window ahead of it.
LEMMA SpreadIsEnough == WindowsInv => PromiseKept
  <1> SUFFICES ASSUME WindowsInv, NEW i \in inFlight \cup net PROVE InWindow(i)
    BY DEF PromiseKept
  <1> USE ReliableAssumption
  <1>1. nextId \in Nat /\ expected \in Nat /\ expected <= nextId /\ i \in Int /\ i < nextId
    BY DEF WindowsInv, Kinds
  <1>2. CASE expected = nextId
    BY <1>1, <1>2 DEF InWindow
  <1>3. CASE expected < nextId
    <2>1. expected \notin buffered
      BY <1>1 DEF WindowsInv, Kinds
    <2>2. expected \in inFlight
      BY <1>1, <1>3, <2>1 DEF WindowsInv, AcknowledgedIsKept
    <2>3. nextId - expected <= SendCapacity
      BY <2>2 DEF WindowsInv, Spread
    <2> QED BY <1>1, <2>3 DEF InWindow
  <1> QED BY <1>1, <1>2, <1>3

\* The initial state satisfies the invariant: both windows are empty.
LEMMA WindowsInit == Init => WindowsInv
  <1> SUFFICES ASSUME Init PROVE WindowsInv OBVIOUS
  <1> USE ReliableAssumption DEF Init
  <1>1. Kinds BY DEF Kinds
  <1>2. AcksTruthful BY DEF AcksTruthful, IdsIn
  <1>3. AcknowledgedIsKept BY DEF AcknowledgedIsKept
  <1>4. Spread BY DEF Spread
  <1>5. InOrder BY DEF InOrder
  <1> QED BY <1>1, <1>2, <1>3, <1>4, <1>5 DEF WindowsInv

\* queue keeps the invariant: is_full measures the window from the oldest message.
LEMMA QueueKeeps == WindowsInv /\ Queue => WindowsInv'
  <1> SUFFICES ASSUME WindowsInv, Queue PROVE WindowsInv' OBVIOUS
  <1> USE ReliableAssumption DEF Queue, recvVars
  <1> USE DEF WindowsInv
  <1>0. /\ UNCHANGED <<net, acks, expected, buffered, pendingAcks, recentAcks, delivered>>
        /\ nextId' = nextId + 1 /\ nextId < MaxMessages
        /\ inFlight' = inFlight \cup {nextId}
    OBVIOUS
  <1>1. Kinds' BY <1>0 DEF Kinds, Id
  <1>2. AcksTruthful' BY <1>0 DEF AcksTruthful, Got
  <1>3. AcknowledgedIsKept' BY <1>0 DEF Kinds, AcknowledgedIsKept
  <1>4. Spread'
    <2>1. \A i \in inFlight : nextId - i < SendCapacity
      BY DEF Full, Kinds
    <2> QED BY <1>0, <2>1 DEF Spread, Kinds
  <1>5. InOrder' BY <1>0 DEF InOrder
  <1> QED BY <1>1, <1>2, <1>3, <1>4, <1>5

\* An acknowledgement clears what the receiver has, and nothing else.
LEMMA AcksKeep == ASSUME WindowsInv, NEW ids \in SUBSET Id, AcksArrive(ids) PROVE WindowsInv'
  <1> USE ReliableAssumption DEF WindowsInv
  <1>0. /\ UNCHANGED <<nextId, net, expected, buffered, pendingAcks, recentAcks, delivered>>
        /\ ids \in acks /\ acks' \subseteq acks
        /\ inFlight' = inFlight \ (ids \cap inFlight)
    BY DEF AcksArrive, Acknowledge, recvVars
  <1>1. Kinds' BY <1>0 DEF Kinds
  <1>2. AcksTruthful' BY <1>0 DEF AcksTruthful, Got
  <1>3. AcknowledgedIsKept'
    BY <1>0 DEF AcknowledgedIsKept, AcksTruthful, Got
  <1>4. Spread' BY <1>0 DEF Spread
  <1>5. InOrder' BY <1>0 DEF InOrder
  <1> QED BY <1>1, <1>2, <1>3, <1>4, <1>5

\* What next_in_order hands up is what came next: the run of kept messages from the one
\* that is expected, appended to what was handed up before.
LEMMA HandUpIsNext ==
    ASSUME WindowsInv, NEW kept \in SUBSET (expected .. nextId - 1), buffered \subseteq kept, HandUp(kept)
    PROVE  /\ expected' \in expected .. nextId
           /\ buffered' \subseteq expected' + 1 .. nextId - 1
           /\ \A i \in Int : i < expected \/ i \in kept => i < expected' \/ i \in buffered'
           /\ delivered' = [k \in 1 .. expected' |-> k - 1]
           /\ delivered' = delivered \o [k \in 1 .. expected' - expected |-> expected + k - 1]
  <1> USE ReliableAssumption
  <1>0. PICK n \in expected .. MaxMessages :
            /\ expected .. n - 1 \subseteq kept /\ n \notin kept
            /\ expected' = n
            /\ delivered' = delivered \o [k \in 1 .. n - expected |-> expected + k - 1]
            /\ buffered' = kept \ (expected .. n - 1)
    BY DEF HandUp
  <1>1. nextId \in Nat /\ expected \in Nat /\ expected <= nextId /\ n \in Nat /\ expected <= n
    BY DEF WindowsInv, Kinds
  <1>2. n <= nextId
    <2> SUFFICES ASSUME nextId < n PROVE FALSE BY <1>1
    <2>1. n - 1 \in expected .. n - 1 BY <1>1
    <2> QED BY <1>0, <1>1, <2>1
  <1>3. buffered' \subseteq n + 1 .. nextId - 1
    BY <1>0, <1>1
  <1>4. \A i \in Int : i < expected \/ i \in kept => i < n \/ i \in buffered'
    BY <1>0, <1>1
  <1>5. delivered' = [k \in 1 .. n |-> k - 1]
    <2> DEFINE more == [k \in 1 .. n - expected |-> expected + k - 1]
    <2>1. delivered = [k \in 1 .. expected |-> k - 1]
      BY DEF WindowsInv, InOrder
    <2>2. delivered \in Seq(Int) /\ Len(delivered) = expected
      BY <1>1, <2>1
    <2>3. more \in Seq(Int) /\ Len(more) = n - expected
      BY <1>1
    <2>4. /\ delivered \o more \in Seq(Int) /\ Len(delivered \o more) = n
          /\ \A k \in 1 .. expected : (delivered \o more)[k] = delivered[k]
          /\ \A k \in expected + 1 .. n : (delivered \o more)[k] = more[k - expected]
      <3> HIDE DEF more
      <3>1. /\ delivered \o more \in Seq(Int)
            /\ Len(delivered \o more) = Len(delivered) + Len(more)
            /\ \A k \in 1 .. Len(delivered) + Len(more) : (delivered \o more)[k] =
                    IF k <= Len(delivered) THEN delivered[k] ELSE more[k - Len(delivered)]
        BY <2>2, <2>3, ConcatProperties
      <3>2. Len(delivered) = expected /\ Len(delivered) + Len(more) = n
        BY <1>1, <2>2, <2>3
      <3> QED BY <1>1, <3>1, <3>2
    <2>5. \A k \in expected + 1 .. n : more[k - expected] = k - 1
      BY <1>1
    <2>6. \A k \in 1 .. expected : delivered[k] = k - 1
      BY <2>1
    <2>7. delivered' = delivered \o more
      BY <1>0
    <2> HIDE DEF more
    <2>8. delivered' \in [1 .. n -> Int]
      BY <2>4, <2>7, LenProperties
    <2>9. \A k \in 1 .. n : delivered'[k] = k - 1
      BY <1>1, <2>4, <2>5, <2>6, <2>7
    <2> QED BY <2>8, <2>9
  <1>6. delivered' = delivered \o [k \in 1 .. expected' - expected |-> expected + k - 1]
    BY <1>0
  <1>7. /\ expected' \in expected .. nextId
        /\ buffered' \subseteq expected' + 1 .. nextId - 1
    BY <1>0, <1>1, <1>2, <1>3
  <1>8. \A i \in Int : i < expected \/ i \in kept => i < expected' \/ i \in buffered'
    BY <1>0, <1>4
  <1>9. delivered' = [k \in 1 .. expected' |-> k - 1]
    BY <1>0, <1>5
  <1> QED BY <1>6, <1>7, <1>8, <1>9

\* Receiving keeps the invariant: a message is owed an acknowledgement only if it was kept
\* now or seen before.
LEMMA ReceiveKeeps == ASSUME WindowsInv, NEW i \in Id, Receive(i) PROVE WindowsInv'
  <1> USE ReliableAssumption
  <1>0. /\ i \in net /\ net' \subseteq net
        /\ UNCHANGED <<nextId, inFlight, acks, recentAcks>>
    BY DEF Receive, sendVars
  <1>1. nextId \in Nat /\ expected \in Nat /\ expected <= nextId /\ i \in Nat /\ i < nextId
    BY <1>0 DEF WindowsInv, Kinds, Id
  <1>2. CASE ~ InWindow(i)
    <2> UNCHANGED <<expected, buffered, pendingAcks, delivered>>
      BY <1>2 DEF Receive
    <2> QED
      BY <1>0 DEF WindowsInv, Kinds, AcksTruthful, Got, AcknowledgedIsKept, Spread, InOrder
  <1>3. CASE InWindow(i)
    <2> DEFINE kept == IF i < expected THEN buffered ELSE buffered \cup {i}
    <2>1. kept \in SUBSET (expected .. nextId - 1) /\ buffered \subseteq kept
      BY <1>1 DEF WindowsInv, Kinds
    <2>2. HandUp(kept) /\ pendingAcks' = Owing(i)
      BY <1>3 DEF Receive
    <2>3. i < expected \/ i \in kept
      OBVIOUS
    <2> HIDE DEF kept
    <2>4. /\ expected' \in expected .. nextId
          /\ buffered' \subseteq expected' + 1 .. nextId - 1
          /\ \A j \in Int : j < expected \/ j \in kept => j < expected' \/ j \in buffered'
          /\ delivered' = [k \in 1 .. expected' |-> k - 1]
      BY <2>1, <2>2, HandUpIsNext
    <2>5. \A j \in Int : Got(j) => Got(j)'
      BY <2>1, <2>4 DEF Got
    <2>6. pendingAcks' \in Seq(Id) /\ \A j \in IdsIn(pendingAcks') : j = i \/ j \in IdsIn(pendingAcks)
      BY <2>2 DEF WindowsInv, Kinds, Owing, IdsIn
    <2>7. Got(i)'
      BY <1>1, <2>3, <2>4 DEF Got
    <2>8. Kinds'
      <3>1. expected' \in 0 .. nextId' /\ nextId' \in 0 .. MaxMessages
        BY <1>0, <1>1, <2>4 DEF WindowsInv, Kinds
      <3>2. inFlight' \subseteq 0 .. nextId' - 1 /\ net' \subseteq 0 .. nextId' - 1
        BY <1>0 DEF WindowsInv, Kinds
      <3>3. buffered' \subseteq expected' + 1 .. nextId' - 1
        BY <1>0, <2>4
      <3>4. acks' \subseteq SUBSET Id /\ pendingAcks' \in Seq(Id) /\ recentAcks' \in [Id -> Nat]
        BY <1>0, <2>6 DEF WindowsInv, Kinds
      <3> QED BY <3>1, <3>2, <3>3, <3>4 DEF Kinds
    <2>9. AcksTruthful'
      <3>1. \A j \in IdsIn(pendingAcks) : j \in Int
        BY DEF WindowsInv, Kinds, IdsIn, Id
      <3>2. \A ids \in acks' : \A j \in ids : Got(j)'
        BY <1>0, <2>5 DEF WindowsInv, Kinds, AcksTruthful, Id
      <3>3. \A j \in IdsIn(pendingAcks') : Got(j)'
        BY <2>5, <2>6, <2>7, <3>1 DEF WindowsInv, AcksTruthful
      <3>4. \A j \in Id : recentAcks'[j] > 0 => Got(j)'
        BY <1>0, <2>5 DEF WindowsInv, AcksTruthful, Id
      <3> QED BY <3>2, <3>3, <3>4 DEF AcksTruthful, IdsIn, Got
    <2>10. AcknowledgedIsKept'
      BY <1>0, <1>1, <2>5 DEF WindowsInv, AcknowledgedIsKept, Got
    <2>11. Spread'
      BY <1>0 DEF WindowsInv, Spread
    <2>12. InOrder'
      BY <2>4 DEF InOrder
    <2> QED BY <2>8, <2>9, <2>10, <2>11, <2>12 DEF WindowsInv
  <1> QED BY <1>2, <1>3

\* take_acks keeps the invariant: what it lists, it took from those owed, or had listed
\* before; and the packet carries what is listed.
LEMMA SendAcksKeeps == WindowsInv /\ SendAcks => WindowsInv'
  <1> SUFFICES ASSUME WindowsInv, SendAcks PROVE WindowsInv' OBVIOUS
  <1> USE ReliableAssumption
  <1>0. /\ TakeAcks
        /\ UNCHANGED <<nextId, inFlight, net, expected, buffered, delivered>>
    BY DEF SendAcks, sendVars
  <1> DEFINE room == Smaller(MaxAcks, RecentAcks)
             n == Smaller(room, Len(pendingAcks))
             promoted == {pendingAcks[p] : p \in 1 .. n}
             listed(i) == i \in promoted \/ recentAcks[i] > 0
             place(i) == IF i \in promoted THEN CHOOSE p \in 1 .. n : pendingAcks[p] = i
                         ELSE n + Cardinality({j \in Id \ promoted : recentAcks[j] \in 1 .. recentAcks[i]})
  <1>1. /\ pendingAcks' = SubSeq(pendingAcks, n + 1, Len(pendingAcks))
        /\ recentAcks' = [i \in Id |-> IF listed(i) /\ place(i) <= RecentAcks THEN place(i) ELSE 0]
        /\ acks' = acks \cup {{i \in Id : recentAcks'[i] \in 1 .. room}}
    BY <1>0 DEF TakeAcks
  <1>2. Len(pendingAcks) \in Nat /\ n \in 0 .. Len(pendingAcks) /\ pendingAcks \in Seq(Id)
    BY DEF WindowsInv, Kinds, Smaller
  <1>3. promoted \subseteq IdsIn(pendingAcks)
    BY <1>2 DEF IdsIn
  <1>4. ASSUME NEW i \in Id PROVE place(i) \in Nat
    <2>1. CASE i \in promoted
      BY <1>2, <2>1
    <2>2. CASE i \notin promoted
      <3>1. IsFiniteSet(Id)
        BY FS_Interval DEF Id
      <3>2. Cardinality({j \in Id \ promoted : recentAcks[j] \in 1 .. recentAcks[i]}) \in Nat
        BY <3>1, FS_Subset, FS_CardinalityType
      <3> QED BY <1>2, <2>2, <3>2
    <2> QED BY <2>1, <2>2
  <1> HIDE DEF place
  <1>5. recentAcks' \in [Id -> Nat]
    BY <1>1, <1>4
  <1>6. \A i \in Id : recentAcks'[i] > 0 => Got(i)
    BY <1>1, <1>3 DEF WindowsInv, AcksTruthful
  <1>7. \A i \in IdsIn(pendingAcks') : Got(i)
    <2> HIDE DEF n
    <2>1. \A k \in 1 .. Len(pendingAcks') : n + k \in 1 .. Len(pendingAcks) /\ pendingAcks'[k] = pendingAcks[n + k]
      BY <1>1, <1>2
    <2>2. \A k \in 1 .. Len(pendingAcks') : pendingAcks'[k] \in IdsIn(pendingAcks)
      BY <2>1 DEF IdsIn
    <2> QED BY <2>2 DEF WindowsInv, AcksTruthful, IdsIn
  <1>8. \A ids \in acks' : ids \subseteq Id /\ \A i \in ids : Got(i)
    <2>1. \A i \in Id : recentAcks'[i] \in 1 .. room => recentAcks'[i] > 0
      BY <1>5 DEF Smaller
    <2> QED BY <1>1, <1>6, <2>1 DEF WindowsInv, AcksTruthful, Kinds
  <1>9. pendingAcks' \in Seq(Id)
    BY <1>1, <1>2
  <1>10. Kinds'
    BY <1>0, <1>5, <1>8, <1>9 DEF WindowsInv, Kinds
  <1>11. AcksTruthful'
    BY <1>0, <1>6, <1>7, <1>8 DEF AcksTruthful, Got, IdsIn
  <1> QED
    BY <1>0, <1>10, <1>11 DEF WindowsInv, AcknowledgedIsKept, Spread, InOrder

\* Sending again, waiting and losing change nothing that the invariant speaks of, but for
\* what is on the wire.
LEMMA OthersKeep ==
    ASSUME WindowsInv, Transmit \/ (\E i \in Id : BackedOff(i)) \/ Lose \/ UNCHANGED vars
    PROVE  WindowsInv'
  <1> USE ReliableAssumption
  <1>1. /\ UNCHANGED <<nextId, inFlight, expected, buffered, pendingAcks, recentAcks, delivered>>
        /\ net' \subseteq net \cup inFlight /\ acks' \subseteq acks
    BY DEF Transmit, Due, BackedOff, Lose, vars, sendVars, recvVars
  <1> QED
    BY <1>1 DEF WindowsInv, Kinds, AcksTruthful, Got, AcknowledgedIsKept, Spread, InOrder



\* The inductive invariant holds: what is acknowledged anywhere the receiver has, what the
\* sender let go of was acknowledged, and the sender is within a window of the rest.
THEOREM WindowsSound == Spec => []WindowsInv
  <1>1. WindowsInv /\ [Next]_vars => WindowsInv'
    <2> SUFFICES ASSUME WindowsInv, [Next]_vars PROVE WindowsInv' OBVIOUS
    <2>1. CASE Queue BY <2>1, QueueKeeps
    <2>2. CASE SendAcks BY <2>2, SendAcksKeeps
    <2>3. CASE \E i \in Id : Receive(i) BY <2>3, ReceiveKeeps
    <2>4. CASE \E ids \in SUBSET Id : AcksArrive(ids) BY <2>4, AcksKeep
    <2>5. CASE Transmit \/ (\E i \in Id : BackedOff(i)) \/ Lose \/ UNCHANGED vars
      BY <2>5, OthersKeep
    <2> QED BY <2>1, <2>2, <2>3, <2>4, <2>5 DEF Next
  <1> QED BY <1>1, WindowsInit, PTL DEF Spec

\* is_full keeps the promise: no message in flight or on the wire is beyond the receiver's
\* window, in whatever order acknowledgements come.
THEOREM WindowIsAPromise == Spec => []PromiseKept
  BY WindowsSound, SpreadIsEnough, PTL

\* acknowledge never clears a message that the receiver does not have.
THEOREM NothingLetGo == Spec => []AcknowledgedIsKept
  <1>1. WindowsInv => AcknowledgedIsKept BY DEF WindowsInv
  <1> QED BY <1>1, WindowsSound, PTL

\* The two windows and the lossy network between them implement the stream TLS is promised:
\* next_in_order hands up each message once and in order.
THEOREM ImplementsStream == Spec => IsStream
  <1>1. Init => StreamOf!Init
    BY DEF Init, StreamOf!Init
  <1>2. WindowsInv /\ [Next]_vars => [StreamOf!Next]_<<nextId, delivered>>
    <2> SUFFICES ASSUME WindowsInv, [Next]_vars PROVE StreamOf!Next \/ UNCHANGED <<nextId, delivered>>
      OBVIOUS
    <2> USE ReliableAssumption
    <2>1. CASE Queue
      BY <2>1 DEF Queue, recvVars, StreamOf!Next, StreamOf!Accept
    <2>2. CASE \E i \in Id : Receive(i)
      <3> PICK i \in Id : Receive(i) BY <2>2
      <3>1. CASE ~ InWindow(i)
        BY <3>1 DEF Receive, sendVars
      <3>2. CASE InWindow(i)
        <4> DEFINE kept == IF i < expected THEN buffered ELSE buffered \cup {i}
        <4>1. /\ nextId \in Nat /\ expected \in Nat /\ expected <= nextId
              /\ i \in Nat /\ i < nextId /\ nextId' = nextId
          BY DEF Receive, sendVars, WindowsInv, Kinds, Id
        <4>2. kept \in SUBSET (expected .. nextId - 1) /\ buffered \subseteq kept /\ HandUp(kept)
          BY <3>2, <4>1 DEF WindowsInv, Kinds, Receive
        <4> HIDE DEF kept
        <4>3. /\ expected' \in expected .. nextId
              /\ delivered' = [k \in 1 .. expected' |-> k - 1]
              /\ delivered' = delivered \o [k \in 1 .. expected' - expected |-> expected + k - 1]
          BY <4>2, HandUpIsNext
        <4>4. delivered = [k \in 1 .. expected |-> k - 1] /\ Len(delivered) = expected
          BY <4>1 DEF WindowsInv, InOrder
        <4>5. CASE expected' = expected
          BY <4>1, <4>3, <4>4, <4>5
        <4>6. CASE expected' # expected
          <5>1. expected' \in Len(delivered) + 1 .. nextId
            BY <4>1, <4>3, <4>4, <4>6
          <5>2. delivered' = delivered \o
                    [k \in 1 .. expected' - Len(delivered) |-> Len(delivered) + k - 1]
            BY <4>3, <4>4
          <5> QED BY <4>1, <5>1, <5>2 DEF StreamOf!Next, StreamOf!Deliver
        <4> QED BY <4>5, <4>6
      <3> QED BY <3>1, <3>2
    <2>3. CASE \/ Transmit \/ SendAcks \/ Lose \/ UNCHANGED vars
               \/ (\E i \in Id : BackedOff(i)) \/ (\E ids \in SUBSET Id : AcksArrive(ids))
      BY <2>3 DEF Transmit, SendAcks, Lose, BackedOff, AcksArrive, Acknowledge,
                  vars, sendVars, recvVars
    <2> QED BY <2>1, <2>2, <2>3 DEF Next
  <1> QED BY <1>1, <1>2, WindowsSound, PTL DEF Spec, IsStream, StreamOf!Spec

\* The parts of TypeOK: the sender's fields, that no id is owed twice, and that the ids
\* acknowledged lately are in a list.
SenderTyped ==
    /\ inFlight \subseteq Id /\ backingOff \subseteq inFlight /\ net \subseteq Id
    /\ laterAcks \in [Id -> 0 .. FastRetransmit]

OwedOnce ==
    /\ pendingAcks \in Seq(Id)
    /\ \A p, q \in 1 .. Len(pendingAcks) : pendingAcks[p] = pendingAcks[q] => p = q

ListedInPlaces ==
    /\ recentAcks \in [Id -> 0 .. RecentAcks]
    /\ \A i, j \in Id : i # j /\ recentAcks[i] > 0 => recentAcks[i] # recentAcks[j]
    /\ \A i \in Id : \A place \in 1 .. recentAcks[i] - 1 : \E j \in Id : recentAcks[j] = place

FieldsInv == SenderTyped /\ OwedOnce /\ ListedInPlaces

\* A sequence without repetition is as long as it has elements.
LEMMA OnceEach ==
    ASSUME pendingAcks \in Seq(Id)
    PROVE  Len(pendingAcks) = Cardinality(IdsIn(pendingAcks))
           <=> \A p, q \in 1 .. Len(pendingAcks) : pendingAcks[p] = pendingAcks[q] => p = q
<1> DEFINE s == pendingAcks
           places == 1 .. Len(s)
<1>1. /\ s \in [places -> Id] /\ Len(s) \in Nat
      /\ s \in [places -> IdsIn(s)] /\ \A i \in IdsIn(s) : \E p \in places : s[p] = i
  BY DEF IdsIn
<1>2. IsFiniteSet(places) /\ Cardinality(places) = Len(s)
  <2>1. /\ IsFiniteSet(1 .. Len(s))
        /\ Cardinality(1 .. Len(s)) = IF 1 > Len(s) THEN 0 ELSE Len(s) - 1 + 1
    BY <1>1, FS_Interval
  <2> QED BY <1>1, <2>1
<1> HIDE DEF s, places
<1>3. s \in Surjection(places, IdsIn(s))
  BY <1>1 DEF Surjection
<1>4. Cardinality(IdsIn(s)) = Cardinality(places) <=> s \in Injection(places, IdsIn(s))
  BY <1>2, <1>3, FS_Surjection
<1>5. s \in Injection(places, IdsIn(s)) <=> \A p, q \in places : s[p] = s[q] => p = q
  BY <1>1 DEF Injection, IsInjective
<1> QED BY <1>2, <1>4, <1>5 DEF s, places

\* take_acks leaves a list: what it promotes is in the first places, one each, and the
\* others close up behind in the order they were in.
LEMMA TakesToPlaces ==
    ASSUME WindowsInv, FieldsInv, TakeAcks
    PROVE  OwedOnce' /\ ListedInPlaces'
<1> USE ReliableAssumption
<1> DEFINE room == Smaller(MaxAcks, RecentAcks)
           n == Smaller(room, Len(pendingAcks))
           promoted == {pendingAcks[p] : p \in 1 .. n}
           listed(i) == i \in promoted \/ recentAcks[i] > 0
           upTo(i) == {j \in Id \ promoted : recentAcks[j] \in 1 .. recentAcks[i]}
           place(i) == IF i \in promoted THEN CHOOSE p \in 1 .. n : pendingAcks[p] = i
                       ELSE n + Cardinality(upTo(i))
<1>1. /\ pendingAcks' = SubSeq(pendingAcks, n + 1, Len(pendingAcks))
      /\ recentAcks' = [i \in Id |-> IF listed(i) /\ place(i) <= RecentAcks THEN place(i) ELSE 0]
  BY DEF TakeAcks
<1>2. /\ Len(pendingAcks) \in Nat /\ n \in 0 .. Len(pendingAcks) /\ n <= RecentAcks /\ RecentAcks \in Nat
      /\ pendingAcks \in Seq(Id)
      /\ \A p, q \in 1 .. Len(pendingAcks) : pendingAcks[p] = pendingAcks[q] => p = q
      /\ recentAcks \in [Id -> 0 .. RecentAcks]
      /\ \A i, j \in Id : i # j /\ recentAcks[i] > 0 => recentAcks[i] # recentAcks[j]
  BY DEF FieldsInv, OwedOnce, ListedInPlaces, Smaller
<1>3. OwedOnce'
  <2> HIDE DEF n
  <2>1. /\ pendingAcks' \in Seq(Id) /\ Len(pendingAcks') = Len(pendingAcks) - n
        /\ \A k \in 1 .. Len(pendingAcks) - n : pendingAcks'[k] = pendingAcks[n + k]
    BY <1>1, <1>2
  <2>2. ASSUME NEW p \in 1 .. Len(pendingAcks'), NEW q \in 1 .. Len(pendingAcks'),
               pendingAcks'[p] = pendingAcks'[q]
        PROVE  p = q
    <3>0. p \in 1 .. Len(pendingAcks) - n /\ q \in 1 .. Len(pendingAcks) - n
      BY <2>1
    <3>1. /\ n + p \in 1 .. Len(pendingAcks) /\ n + q \in 1 .. Len(pendingAcks)
          /\ pendingAcks[n + p] = pendingAcks[n + q]
      <4>1. pendingAcks'[p] = pendingAcks[n + p] /\ pendingAcks'[q] = pendingAcks[n + q]
        BY <2>1, <3>0
      <4>2. n \in Nat /\ Len(pendingAcks) \in Nat
        BY <1>2
      <4>3. n + p \in 1 .. Len(pendingAcks) /\ n + q \in 1 .. Len(pendingAcks)
        BY <3>0, <4>2
      <4>4. pendingAcks[n + p] = pendingAcks[n + q]
        BY <2>2, <4>1
      <4> QED BY <4>3, <4>4
    <3>2. n + p = n + q
      BY <1>2, <3>0, <3>1
    <3> QED BY <1>2, <3>0, <3>2
  <2> QED BY <2>1, <2>2 DEF OwedOnce
<1> HIDE DEF n
<1>4. promoted \subseteq Id /\ \A p \in 1 .. n : pendingAcks[p] \in Id
  BY <1>2
<1>5. ASSUME NEW i \in promoted PROVE place(i) \in 1 .. n /\ pendingAcks[place(i)] = i
  <2>1. \E p \in 1 .. n : pendingAcks[p] = i
    BY <1>5
  <2> QED BY <1>5, <2>1
<1>6. ASSUME NEW p \in 1 .. n PROVE pendingAcks[p] \in promoted /\ place(pendingAcks[p]) = p
  <2>1. pendingAcks[p] \in promoted
    BY <1>6
  <2> HIDE DEF place, promoted
  <2>2. place(pendingAcks[p]) \in 1 .. n /\ pendingAcks[place(pendingAcks[p])] = pendingAcks[p]
    BY <1>5, <2>1
  <2> QED BY <1>2, <2>1, <2>2
<1>7. ASSUME NEW i \in Id
      PROVE  /\ upTo(i) \in SUBSET Id /\ IsFiniteSet(upTo(i)) /\ Cardinality(upTo(i)) \in Nat
             /\ i \notin promoted /\ recentAcks[i] > 0 => i \in upTo(i) /\ Cardinality(upTo(i)) > 0
  <2>1. IsFiniteSet(Id)
    BY FS_Interval DEF Id
  <2>2. upTo(i) \in SUBSET Id
    OBVIOUS
  <2>3. IsFiniteSet(upTo(i)) /\ Cardinality(upTo(i)) \in Nat
    BY <2>1, <2>2, FS_Subset, FS_CardinalityType
  <2>4. i \notin promoted /\ recentAcks[i] > 0 => i \in upTo(i)
    BY <1>2
  <2> HIDE DEF upTo, promoted
  <2>5. i \in upTo(i) => Cardinality(upTo(i)) > 0
    BY <2>3, FS_EmptySet
  <2> QED BY <2>2, <2>3, <2>4, <2>5
<1>8. ASSUME NEW i \in Id, NEW j \in Id, j \notin promoted, recentAcks[i] < recentAcks[j]
      PROVE  Cardinality(upTo(i)) < Cardinality(upTo(j))
  <2>1. upTo(i) \in SUBSET upTo(j) /\ j \in upTo(j) /\ j \notin upTo(i)
    BY <1>2, <1>8
  <2>2. /\ IsFiniteSet(upTo(j)) /\ Cardinality(upTo(i)) \in Nat /\ Cardinality(upTo(j)) \in Nat
    BY <1>7
  <2> HIDE DEF upTo
  <2>3. /\ Cardinality(upTo(i)) <= Cardinality(upTo(j))
        /\ Cardinality(upTo(i)) # Cardinality(upTo(j))
    BY <2>1, <2>2, FS_Subset
  <2> QED BY <2>2, <2>3
<1>9. ASSUME NEW i \in Id \ promoted, NEW j \in Id \ promoted, i # j,
             recentAcks[i] > 0, recentAcks[j] > 0
      PROVE  Cardinality(upTo(i)) # Cardinality(upTo(j))
  <2>1. recentAcks[i] < recentAcks[j] \/ recentAcks[j] < recentAcks[i]
    BY <1>2, <1>9
  <2>2. Cardinality(upTo(i)) \in Nat /\ Cardinality(upTo(j)) \in Nat
    BY <1>7
  <2> HIDE DEF upTo, promoted
  <2> QED BY <1>8, <1>9, <2>1, <2>2
<1>10. ASSUME NEW i \in Id, i \notin promoted PROVE place(i) = n + Cardinality(upTo(i))
  BY <1>10
<1>11. ASSUME NEW i \in Id
       PROVE  /\ place(i) \in Nat /\ (listed(i) => place(i) > 0)
              /\ recentAcks'[i] = IF listed(i) /\ place(i) <= RecentAcks THEN place(i) ELSE 0
  <2>1. recentAcks'[i] = IF listed(i) /\ place(i) <= RecentAcks THEN place(i) ELSE 0
    BY <1>1
  <2> HIDE DEF place, upTo, promoted
  <2>2. CASE i \in promoted
    BY <1>2, <1>5, <2>1, <2>2
  <2>3. CASE i \notin promoted
    BY <1>2, <1>7, <1>10, <2>1, <2>3
  <2> QED BY <2>2, <2>3
<1> HIDE DEF place, upTo, promoted
<1>12. ASSUME NEW i \in Id, NEW j \in Id, i # j, listed(i), listed(j) PROVE place(i) # place(j)
  <2>1. CASE i \in promoted /\ j \in promoted
    BY <1>5, <1>12, <2>1
  <2>2. CASE i \in promoted /\ j \notin promoted
    BY <1>2, <1>5, <1>7, <1>10, <1>12, <2>2
  <2>3. CASE i \notin promoted /\ j \in promoted
    BY <1>2, <1>5, <1>7, <1>10, <1>12, <2>3
  <2>4. CASE i \notin promoted /\ j \notin promoted
    <3>1. Cardinality(upTo(i)) # Cardinality(upTo(j))
      BY <1>9, <1>12, <2>4
    <3> QED BY <1>2, <1>7, <1>10, <2>4, <3>1
  <2> QED BY <2>1, <2>2, <2>3, <2>4
<1>13. recentAcks' \in [Id -> 0 .. RecentAcks]
  <2>1. \A i \in Id : recentAcks'[i] \in 0 .. RecentAcks
    <3>1. SUFFICES ASSUME NEW i \in Id PROVE recentAcks'[i] \in 0 .. RecentAcks
      OBVIOUS
    <3>2. place(i) \in Nat /\ recentAcks'[i] = IF listed(i) /\ place(i) <= RecentAcks THEN place(i) ELSE 0
      BY <1>11
    <3> QED BY <1>2, <3>2
  <2>2. recentAcks' = [i \in Id |-> recentAcks'[i]]
    BY <1>1
  <2> QED BY <2>1, <2>2
<1>14. ASSUME NEW i \in Id, NEW j \in Id, i # j, recentAcks'[i] > 0
       PROVE  recentAcks'[i] # recentAcks'[j]
  <2>1. listed(i) /\ recentAcks'[i] = place(i)
    BY <1>11, <1>14
  <2>2. CASE recentAcks'[j] = 0
    BY <1>14, <2>2
  <2>3. CASE recentAcks'[j] # 0
    <3>1. listed(j) /\ recentAcks'[j] = place(j)
      BY <1>11, <2>3
    <3> QED BY <1>12, <1>14, <2>1, <3>1
  <2> QED BY <2>2, <2>3
<1>15. ASSUME NEW i \in Id, NEW m \in 1 .. recentAcks'[i] - 1
       PROVE  \E j \in Id : recentAcks'[j] = m
  <2>1. /\ recentAcks'[i] \in Nat /\ m \in Nat /\ 0 < m /\ m < recentAcks'[i]
        /\ recentAcks'[i] <= RecentAcks
    BY <1>2, <1>13, <1>15
  <2>2. listed(i) /\ recentAcks'[i] = place(i)
    BY <1>11, <2>1
  <2>3. CASE m <= n
    <3>1. m \in 1 .. n
      BY <1>2, <2>1, <2>3
    <3>2. /\ pendingAcks[m] \in promoted /\ place(pendingAcks[m]) = m /\ pendingAcks[m] \in Id
      BY <1>4, <1>6, <3>1
    <3>3. recentAcks'[pendingAcks[m]] = m
      BY <1>2, <1>11, <2>1, <3>2
    <3> QED BY <3>2, <3>3
  <2>4. CASE m > n
    <3>1. i \notin promoted
      BY <1>2, <1>5, <2>1, <2>2, <2>4
    <3> DEFINE rank == Cardinality(upTo(i))
               f == [k \in upTo(i) |-> Cardinality(upTo(k))]
    <3>2. /\ place(i) = n + rank /\ rank \in Nat /\ IsFiniteSet(upTo(i)) /\ recentAcks[i] > 0
      BY <1>7, <1>10, <2>2, <3>1
    <3>3. ASSUME NEW k \in upTo(i)
          PROVE  /\ k \in Id \ promoted /\ recentAcks[k] > 0 /\ recentAcks[k] <= recentAcks[i]
                 /\ Cardinality(upTo(k)) \in 1 .. rank
      <4>1. k \in Id \ promoted /\ recentAcks[k] > 0 /\ recentAcks[k] <= recentAcks[i]
        BY <1>2 DEF upTo
      <4>2. Cardinality(upTo(k)) \in Nat /\ Cardinality(upTo(k)) > 0
        BY <1>7, <4>1
      <4>3. CASE k = i
        BY <3>2, <4>1, <4>2, <4>3
      <4>4. CASE k # i
        <5>1. recentAcks[k] < recentAcks[i]
          BY <1>2, <4>1, <4>4
        <5>2. Cardinality(upTo(k)) < rank
          BY <1>8, <3>1, <4>1, <5>1
        <5> QED BY <3>2, <4>1, <4>2, <5>2
      <4> QED BY <4>3, <4>4
    <3>4. f \in Injection(upTo(i), 1 .. rank)
      <4>1. f \in [upTo(i) -> 1 .. rank]
        BY <3>3
      <4>2. \A k, l \in upTo(i) : k # l => f[k] # f[l]
        BY <1>9, <3>3
      <4> QED BY <4>1, <4>2 DEF Injection, IsInjective
    <3>5. IsFiniteSet(1 .. rank) /\ Cardinality(1 .. rank) = rank
      <4> HIDE DEF rank
      <4>1. /\ IsFiniteSet(1 .. rank)
            /\ Cardinality(1 .. rank) = IF 1 > rank THEN 0 ELSE rank - 1 + 1
        <5>1. rank \in Int /\ 1 \in Int
          BY <3>2
        <5> QED BY <5>1, FS_Interval
      <4> QED BY <3>2, <4>1
    <3>6. f \in Surjection(upTo(i), 1 .. rank)
      BY <3>4, <3>5, FS_Injection
    <3>7. m - n \in 1 .. rank
      BY <1>2, <2>1, <2>2, <2>4, <3>2
    <3>8. PICK k \in upTo(i) : f[k] = m - n
      BY <3>6, <3>7 DEF Surjection
    <3>9. place(k) = m /\ listed(k) /\ k \in Id
      <4>1. Cardinality(upTo(k)) = m - n
        BY <3>8
      <4> QED BY <1>2, <1>10, <2>1, <3>3, <4>1
    <3>10. recentAcks'[k] = m
      BY <1>2, <1>11, <2>1, <3>9
    <3> QED BY <3>9, <3>10
  <2> QED BY <1>2, <2>1, <2>3, <2>4
<1> QED BY <1>3, <1>13, <1>14, <1>15 DEF ListedInPlaces

\* Every step keeps the fields: what is queued and sent is a message, evidence is counted up
\* to the limit, and an id is owed once.
LEMMA FieldsStep ==
    ASSUME WindowsInv, FieldsInv, [Next]_vars PROVE FieldsInv'
<1> USE ReliableAssumption
<1>0. SenderTyped /\ OwedOnce /\ ListedInPlaces /\ Kinds
  BY DEF FieldsInv, WindowsInv
<1>1. CASE Queue
  <2>1. /\ nextId \in Id /\ inFlight' = inFlight \cup {nextId}
        /\ UNCHANGED <<backingOff, laterAcks, net, pendingAcks, recentAcks>>
    BY <1>0, <1>1 DEF Queue, recvVars, Kinds, Id
  <2> QED BY <1>0, <2>1 DEF FieldsInv, SenderTyped, OwedOnce, ListedInPlaces
<1>2. CASE Transmit
  <2>1. PICK i \in Due :
           /\ net' = net \cup {i} /\ backingOff' = backingOff \cup {i}
           /\ laterAcks' = [laterAcks EXCEPT ![i] = 0]
           /\ UNCHANGED <<inFlight, pendingAcks, recentAcks>>
    BY <1>2 DEF Transmit, recvVars
  <2>2. i \in inFlight
    BY <2>1 DEF Due
  <2>3. SenderTyped'
    BY <1>0, <2>1, <2>2 DEF SenderTyped
  <2> QED BY <1>0, <2>1, <2>3 DEF FieldsInv, OwedOnce, ListedInPlaces
<1>3. ASSUME NEW i \in Id, BackedOff(i) PROVE FieldsInv'
  BY <1>0, <1>3 DEF BackedOff, recvVars, FieldsInv, SenderTyped, OwedOnce, ListedInPlaces
<1>4. ASSUME NEW ids \in SUBSET Id, AcksArrive(ids) PROVE FieldsInv'
  <2> DEFINE gone == ids \cap inFlight
             later(i) == {a \in gone : i < a}
             seen(i) == laterAcks[i] + Cardinality(later(i))
  <2>1. /\ inFlight' = inFlight \ gone /\ backingOff' = backingOff \ gone
        /\ laterAcks' = [i \in Id |-> IF i \in gone \/ i \notin inFlight THEN 0
                                      ELSE IF seen(i) > FastRetransmit THEN FastRetransmit
                                      ELSE seen(i)]
        /\ UNCHANGED <<net, pendingAcks, recentAcks>>
    BY <1>4 DEF AcksArrive, Acknowledge, recvVars
  <2>2. \A i \in Id : seen(i) \in Nat
    <3>1. SUFFICES ASSUME NEW i \in Id PROVE seen(i) \in Nat
      OBVIOUS
    <3>2. IsFiniteSet(Id)
      BY FS_Interval DEF Id
    <3>4. later(i) \in SUBSET Id
      BY <1>0 DEF SenderTyped
    <3>3. Cardinality(later(i)) \in Nat
      BY <3>2, <3>4, FS_Subset, FS_CardinalityType
    <3> HIDE DEF later
    <3> QED BY <1>0, <3>3 DEF SenderTyped
  <2> HIDE DEF seen
  <2>3. SenderTyped'
    BY <1>0, <2>1, <2>2 DEF SenderTyped
  <2> QED BY <1>0, <2>1, <2>3 DEF FieldsInv, OwedOnce, ListedInPlaces
<1>5. ASSUME NEW i \in Id, Receive(i) PROVE FieldsInv'
  <2>1. /\ net' \subseteq net /\ UNCHANGED <<inFlight, backingOff, laterAcks, recentAcks>>
        /\ pendingAcks' = Owing(i) \/ UNCHANGED pendingAcks
    BY <1>5 DEF Receive, sendVars
  <2>2. SenderTyped' /\ ListedInPlaces'
    BY <1>0, <2>1 DEF SenderTyped, ListedInPlaces
  <2>3. OwedOnce'
    <3>1. CASE UNCHANGED pendingAcks
      BY <1>0, <3>1 DEF OwedOnce
    <3>2. CASE i \notin IdsIn(pendingAcks) /\ pendingAcks' = Append(pendingAcks, i)
      <4>1. /\ pendingAcks' \in Seq(Id) /\ Len(pendingAcks') = Len(pendingAcks) + 1
            /\ Len(pendingAcks) \in Nat
            /\ \A p \in 1 .. Len(pendingAcks) : pendingAcks'[p] = pendingAcks[p] /\ pendingAcks[p] # i
            /\ pendingAcks'[Len(pendingAcks) + 1] = i
        BY <1>0, <3>2 DEF OwedOnce, IdsIn
      <4> QED BY <1>0, <4>1 DEF OwedOnce
    <3> QED BY <2>1, <3>1, <3>2 DEF Owing
  <2> QED BY <2>2, <2>3 DEF FieldsInv
<1>6. CASE SendAcks
  <2>1. TakeAcks /\ UNCHANGED <<inFlight, backingOff, laterAcks, net>>
    BY <1>6 DEF SendAcks, sendVars
  <2>2. SenderTyped'
    BY <1>0, <2>1 DEF SenderTyped
  <2> QED BY <2>1, <2>2, TakesToPlaces DEF FieldsInv
<1>7. CASE Lose \/ UNCHANGED vars
  <2>1. net' \subseteq net /\ UNCHANGED <<inFlight, backingOff, laterAcks, pendingAcks, recentAcks>>
    BY <1>7 DEF Lose, vars, sendVars, recvVars
  <2> QED BY <1>0, <2>1 DEF FieldsInv, SenderTyped, OwedOnce, ListedInPlaces
<1> QED BY <1>1, <1>2, <1>3, <1>4, <1>5, <1>6, <1>7 DEF Next

\* Both ends' fields are what they should be: no id is owed twice, and the recent ones are in
\* a list without gaps or repetition, however acknowledgements are promoted and dropped.
THEOREM WindowsTyped == Spec => []TypeOK
<1>1. Init => FieldsInv
  BY ReliableAssumption DEF Init, FieldsInv, SenderTyped, OwedOnce, ListedInPlaces
<1>2. WindowsInv /\ FieldsInv /\ [Next]_vars => FieldsInv'
  BY FieldsStep
<1>3. WindowsInv /\ FieldsInv => TypeOK
  <2>1. SUFFICES ASSUME WindowsInv, FieldsInv PROVE TypeOK
    OBVIOUS
  <2>2. nextId \in 0 .. MaxMessages /\ expected \in 0 .. MaxMessages /\ buffered \subseteq Id
    BY <2>1, ReliableAssumption DEF WindowsInv, Kinds, Id
  <2>3. delivered \in Seq(Id)
    <3>1. \A k \in 1 .. expected : k - 1 \in Id
      BY <2>2, ReliableAssumption DEF Id
    <3>2. delivered = [k \in 1 .. expected |-> k - 1] /\ expected \in Nat
      BY <2>1, <2>2 DEF WindowsInv, InOrder
    <3> QED BY <3>1, <3>2
  <2>4. Len(pendingAcks) = Cardinality(IdsIn(pendingAcks))
    BY <2>1, OnceEach DEF FieldsInv, OwedOnce
  <2> QED BY <2>1, <2>2, <2>3, <2>4
          DEF WindowsInv, Kinds, FieldsInv, SenderTyped, OwedOnce, ListedInPlaces, TypeOK
<1> QED BY <1>1, <1>2, <1>3, WindowsSound, PTL DEF Spec

-----------------------------------------------------------------------------
(* ReplayWindow. *)

\* What is taken and refused, with the window that decides it: the two properties hold
\* because the window's bits are the packets taken.
ReplayInv == Replay!TypeOK /\ Replay!WindowIsAccepted /\ Replay!TakenOnce /\ Replay!RefusedForCause

\* A packet that accept takes was not taken before: it is of a later time, above the
\* highest id, or its bit is not set.
LEMMA TakesNew ==
    ASSUME Replay!TypeOK, Replay!WindowIsAccepted, Replay!ReplayAssumption, NEW p \in sent,
           Replay!Restarts(window, p) \/ Replay!Advances(window, p) \/ Replay!FillsIn(window, p)
    PROVE  p \notin accepted
<1>1. /\ p \in Replay!Packets /\ window.highest \in 0 .. LastId /\ window.time \in 0 .. LastClock
      /\ p.id \in 1 .. LastId /\ p.time \in 0 .. LastClock
      /\ p = [id |-> p.id, time |-> p.time]
  BY DEF Replay!TypeOK, Replay!Packets
<1>2. CASE Replay!Restarts(window, p)
  BY <1>1, <1>2 DEF Replay!Restarts, Replay!WindowIsAccepted, Replay!ReplayAssumption
<1>3. CASE Replay!Advances(window, p)
  BY <1>1, <1>3 DEF Replay!Advances, Replay!WindowIsAccepted, Replay!ReplayAssumption
<1>4. CASE Replay!FillsIn(window, p)
  <2>1. window.highest - p.id \in 0 .. ReplaySpan - 1
    BY <1>1, <1>4 DEF Replay!FillsIn, Replay!TooOld, Replay!ReplayAssumption
  <2>2. window.highest - (window.highest - p.id) = p.id
    BY <1>1
  <2>3. [id |-> p.id, time |-> p.time] \notin accepted
    BY <1>4, <2>1, <2>2 DEF Replay!FillsIn, Replay!WindowIsAccepted
  <2> QED BY <1>1, <2>3
<1> QED BY <1>2, <1>3, <1>4

\* A packet that accept refuses bears an earlier time, is older than the window, or was
\* taken before.
LEMMA RefusesOld ==
    ASSUME Replay!TypeOK, Replay!WindowIsAccepted, Replay!ReplayAssumption, NEW p \in sent,
           ~ Replay!Restarts(window, p), ~ Replay!Advances(window, p), ~ Replay!FillsIn(window, p)
    PROVE  p \in accepted \/ p.time < window.time \/ window.highest - p.id >= ReplaySpan
<1>1. /\ window.highest \in 0 .. LastId /\ window.time \in 0 .. LastClock
      /\ p.id \in 1 .. LastId /\ p.time \in 0 .. LastClock
      /\ p = [id |-> p.id, time |-> p.time]
  BY DEF Replay!TypeOK, Replay!Packets
<1>2. SUFFICES ASSUME p.time = window.time, window.highest - p.id < ReplaySpan
               PROVE  p \in accepted
  BY <1>1 DEF Replay!Restarts, Replay!ReplayAssumption
<1>3. p.id <= window.highest
  BY <1>1, <1>2 DEF Replay!Advances
<1>4. window.highest - p.id \in 0 .. ReplaySpan - 1 /\ window.highest - p.id \in window.seen
  BY <1>1, <1>2, <1>3 DEF Replay!FillsIn, Replay!TooOld, Replay!ReplayAssumption
<1>5. window.highest - (window.highest - p.id) = p.id
  BY <1>1
<1>6. [id |-> p.id, time |-> p.time] \in accepted
  BY <1>2, <1>4, <1>5 DEF Replay!WindowIsAccepted
<1> QED BY <1>1, <1>6

\* It holds of an empty window.
LEMMA ReplayInit == ASSUME Replay!ReplayAssumption, Replay!Init PROVE ReplayInv
  BY DEF Replay!Init, ReplayInv, Replay!TypeOK, Replay!WindowIsAccepted, Replay!TakenOnce, Replay!RefusedForCause,
         Replay!ReplayAssumption, Replay!Packets, Replay!NoPacket

\* accept keeps the types.
LEMMA AcceptTypes ==
    ASSUME Replay!TypeOK, Replay!ReplayAssumption, NEW p \in sent, Replay!Accept(p)
    PROVE  Replay!TypeOK'
<1>1. /\ p.id \in 1 .. LastId /\ p.time \in 0 .. LastClock /\ window.highest \in 0 .. LastId
      /\ window.seen \in SUBSET (0 .. ReplaySpan - 1)
      /\ window \in [time : 0 .. LastClock, highest : 0 .. LastId, seen : SUBSET (0 .. ReplaySpan - 1)]
  BY DEF Replay!TypeOK, Replay!Packets
<1>2. 0 \in 0 .. ReplaySpan - 1
  BY DEF Replay!ReplayAssumption
<1>3. window' \in [time : 0 .. LastClock, highest : 0 .. LastId, seen : SUBSET (0 .. ReplaySpan - 1)]
  <2>1. CASE window' = [time |-> p.time, highest |-> p.id, seen |-> {0}]
    BY <1>1, <1>2, <2>1
  <2>2. CASE window' = [window EXCEPT !.highest = p.id, !.seen = Replay!Shifted(window.seen, p.id - window.highest)]
    <3> DEFINE seen == Replay!Shifted(window.seen, p.id - window.highest)
    <3>1. seen \in SUBSET (0 .. ReplaySpan - 1)
      BY <1>2 DEF Replay!Shifted
    <3>2. window' = [window EXCEPT !.highest = p.id, !.seen = seen]
      BY <2>2
    <3>3. p.id \in 0 .. LastId
      BY <1>1
    <3> HIDE DEF seen
    <3> QED BY <1>1, <3>1, <3>2, <3>3
  <2>3. CASE window' = [window EXCEPT !.seen = window.seen \cup ({window.highest - p.id} \cap 0 .. ReplaySpan - 1)]
    <3> DEFINE seen == window.seen \cup ({window.highest - p.id} \cap 0 .. ReplaySpan - 1)
    <3>1. seen \in SUBSET (0 .. ReplaySpan - 1)
      BY <1>1
    <3>2. window' = [window EXCEPT !.seen = seen]
      BY <2>3
    <3> HIDE DEF seen
    <3> QED BY <1>1, <3>1, <3>2
  <2> QED BY <2>1, <2>2, <2>3 DEF Replay!Accept
<1>4. UNCHANGED <<sender, sent>> /\ accepted' = accepted \cup {p}
  BY DEF Replay!Accept
<1>5. repeated' \subseteq accepted'
  BY <1>4 DEF Replay!Accept, Replay!TypeOK
<1> QED BY <1>3, <1>4, <1>5 DEF Replay!TypeOK

\* accept keeps the window's bits the packets taken.
LEMMA AcceptWindow ==
    ASSUME Replay!TypeOK, Replay!WindowIsAccepted, Replay!ReplayAssumption, NEW p \in sent, Replay!Accept(p)
    PROVE  Replay!WindowIsAccepted'
<1>1. /\ p.id \in 1 .. LastId /\ p.time \in 0 .. LastClock
      /\ window.highest \in 0 .. LastId /\ window.time \in 0 .. LastClock
      /\ window \in [time : 0 .. LastClock, highest : 0 .. LastId, seen : SUBSET (0 .. ReplaySpan - 1)]
      /\ p = [id |-> p.id, time |-> p.time]
      /\ \A q \in accepted : /\ q.id \in 1 .. LastId /\ q.time \in 0 .. LastClock
                             /\ q = [id |-> q.id, time |-> q.time]
  BY DEF Replay!TypeOK, Replay!Packets
<1>2. accepted' = accepted \cup {p}
  BY DEF Replay!Accept
<1>3. ReplaySpan \in Nat /\ ReplaySpan > 0 /\ LastId \in Nat /\ LastClock \in Nat
  BY DEF Replay!ReplayAssumption
<1>4. CASE Replay!Restarts(window, p) /\ window' = [time |-> p.time, highest |-> p.id, seen |-> {0}]
  <2>1. window' = [time |-> p.time, highest |-> p.id, seen |-> {0}]
    BY <1>4
  <2>2. \A q \in accepted : q.time < p.time
    BY <1>1, <1>3, <1>4 DEF Replay!Restarts, Replay!WindowIsAccepted
  <2>3. \A q \in accepted' : q.time <= window'.time /\ (q.time = window'.time => q.id <= window'.highest)
    BY <1>1, <1>2, <2>1, <2>2
  <2>4. ASSUME NEW d \in 0 .. ReplaySpan - 1
        PROVE  d \in window'.seen <=> [id |-> window'.highest - d, time |-> window'.time] \in accepted'
    <3>1. d \in window'.seen <=> d = 0
      BY <2>1
    <3>2. [id |-> p.id - d, time |-> p.time] \notin accepted
      BY <1>1, <2>2
    <3>3. [id |-> p.id - d, time |-> p.time] = p <=> d = 0
      BY <1>1, <1>3
    <3> QED BY <1>2, <2>1, <3>1, <3>2, <3>3
  <2> QED BY <2>3, <2>4 DEF Replay!WindowIsAccepted
<1>5. CASE /\ Replay!Advances(window, p)
           /\ window' = [window EXCEPT !.highest = p.id, !.seen = Replay!Shifted(window.seen, p.id - window.highest)]
  <2> DEFINE by == p.id - window.highest
  <2>1. window' = [window EXCEPT !.highest = p.id, !.seen = Replay!Shifted(window.seen, by)]
    BY <1>5
  <2>2. /\ window'.highest = p.id /\ window'.time = window.time
        /\ window'.seen = Replay!Shifted(window.seen, by)
    BY <1>1, <2>1
  <2>3. by \in Nat /\ by > 0 /\ p.time = window.time
    BY <1>1, <1>3, <1>5 DEF Replay!Advances
  <2>4. \A q \in accepted' : q.time <= window'.time /\ (q.time = window'.time => q.id <= window'.highest)
    BY <1>1, <1>2, <1>3, <1>5, <2>2, <2>3 DEF Replay!WindowIsAccepted, Replay!Advances
  <2>5. ASSUME NEW d \in 0 .. ReplaySpan - 1
        PROVE  d \in window'.seen <=> [id |-> window'.highest - d, time |-> window'.time] \in accepted'
    <3>1. d \in window'.seen <=> d = 0 \/ d - by \in window.seen
      BY <2>2 DEF Replay!Shifted
    <3>2. d - by \in window.seen <=>
              d - by \in 0 .. ReplaySpan - 1 /\ [id |-> window.highest - (d - by), time |-> window.time] \in accepted
      BY <1>1 DEF Replay!WindowIsAccepted
    <3>3. window.highest - (d - by) = p.id - d
      BY <1>1, <2>3
    <3>4. [id |-> p.id - d, time |-> window.time] \in accepted => d - by \in 0 .. ReplaySpan - 1
      <4>1. SUFFICES ASSUME [id |-> p.id - d, time |-> window.time] \in accepted
                     PROVE  d - by \in 0 .. ReplaySpan - 1
        OBVIOUS
      <4>2. p.id - d <= window.highest
        BY <4>1 DEF Replay!WindowIsAccepted
      <4> QED BY <1>1, <1>3, <2>3, <4>2
    <3>5. [id |-> p.id - d, time |-> window.time] = p <=> d = 0
      BY <1>1, <1>3, <2>3
    <3> HIDE DEF by
    <3> QED BY <1>2, <2>2, <3>1, <3>2, <3>3, <3>4, <3>5
  <2> QED BY <2>4, <2>5 DEF Replay!WindowIsAccepted
<1>6. CASE /\ Replay!FillsIn(window, p)
           /\ window' = [window EXCEPT !.seen = window.seen \cup ({window.highest - p.id} \cap 0 .. ReplaySpan - 1)]
  <2> DEFINE behind == window.highest - p.id
  <2>1. window' = [window EXCEPT !.seen = window.seen \cup ({behind} \cap 0 .. ReplaySpan - 1)]
    BY <1>6
  <2>2. /\ window'.highest = window.highest /\ window'.time = window.time
        /\ window'.seen = window.seen \cup ({behind} \cap 0 .. ReplaySpan - 1)
    BY <1>1, <2>1
  <2>3. behind \in 0 .. ReplaySpan - 1 /\ p.time = window.time /\ p.id <= window.highest
    BY <1>1, <1>3, <1>6 DEF Replay!FillsIn, Replay!TooOld
  <2>4. \A q \in accepted' : q.time <= window'.time /\ (q.time = window'.time => q.id <= window'.highest)
    BY <1>1, <1>2, <1>3, <2>2, <2>3 DEF Replay!WindowIsAccepted
  <2>5. ASSUME NEW d \in 0 .. ReplaySpan - 1
        PROVE  d \in window'.seen <=> [id |-> window'.highest - d, time |-> window'.time] \in accepted'
    <3>1. d \in window'.seen <=> d \in window.seen \/ d = behind
      BY <2>2, <2>3
    <3>2. d \in window.seen <=> [id |-> window.highest - d, time |-> window.time] \in accepted
      BY DEF Replay!WindowIsAccepted
    <3>3. [id |-> window.highest - d, time |-> window.time] = p <=> d = behind
      BY <1>1, <1>3, <2>3
    <3> QED BY <1>2, <2>2, <3>1, <3>2, <3>3
  <2> QED BY <2>4, <2>5 DEF Replay!WindowIsAccepted
<1> QED BY <1>4, <1>5, <1>6 DEF Replay!Accept

\* Every step keeps the window and the history in accord.
LEMMA ReplayStep ==
    ASSUME ReplayInv, Replay!ReplayAssumption, [Replay!Next]_(Replay!vars) PROVE ReplayInv'
<1> USE DEF ReplayInv
<1>1. CASE Replay!ClockMoves
  BY <1>1 DEF Replay!ClockMoves, Replay!TypeOK, Replay!WindowIsAccepted, Replay!TakenOnce, Replay!RefusedForCause, Replay!ReplayAssumption
<1>2. CASE Replay!Send
  <2>1. /\ sender.next \in 1 .. LastId /\ sender.clock \in 0 .. LastClock
        /\ sender' = [sender EXCEPT !.next = sender.next + 1]
    BY <1>2 DEF Replay!Send, Replay!TypeOK, Replay!ReplayAssumption
  <2>2. sent' \subseteq Replay!Packets /\ sent \subseteq sent'
    BY <1>2, <2>1 DEF Replay!Send, Replay!TypeOK, Replay!Packets
  <2>3. sender' \in [next : 1 .. LastId + 1, clock : 0 .. LastClock]
    BY <2>1 DEF Replay!TypeOK, Replay!ReplayAssumption
  <2>4. Replay!TypeOK'
    BY <1>2, <2>2, <2>3 DEF Replay!Send, Replay!TypeOK
  <2> QED BY <1>2, <2>4 DEF Replay!Send, Replay!WindowIsAccepted, Replay!TakenOnce, Replay!RefusedForCause
<1>3. ASSUME NEW p \in sent, Replay!Accept(p) PROVE ReplayInv'
  <2>1. p \notin accepted
    BY <1>3, TakesNew DEF Replay!Accept
  <2>2. Replay!TakenOnce'
    BY <1>3, <2>1 DEF Replay!Accept, Replay!TakenOnce
  <2>3. Replay!RefusedForCause'
    BY <1>3 DEF Replay!Accept, Replay!RefusedForCause
  <2> QED BY <1>3, <2>2, <2>3, AcceptTypes, AcceptWindow
<1>4. ASSUME NEW p \in sent, Replay!Refuse(p) PROVE ReplayInv'
  <2>1. Replay!TypeOK' /\ Replay!WindowIsAccepted' /\ Replay!TakenOnce'
    BY <1>4 DEF Replay!Refuse, Replay!TypeOK, Replay!WindowIsAccepted, Replay!TakenOnce
  <2>2. refused' = [packet |-> p, by |-> window] /\ accepted' = accepted
    BY <1>4 DEF Replay!Refuse
  <2>3. Replay!RefusedForCause'
    BY <1>4, <2>2, RefusesOld DEF Replay!Refuse, Replay!RefusedForCause
  <2> QED BY <2>1, <2>3
<1>5. CASE UNCHANGED Replay!vars
  BY <1>5 DEF Replay!vars, Replay!TypeOK, Replay!WindowIsAccepted, Replay!TakenOnce, Replay!RefusedForCause
<1> QED BY <1>1, <1>2, <1>3, <1>4, <1>5 DEF Replay!Next

\* ReplayWindow::accept never takes a packet twice, whatever the network repeats or
\* reorders and however the sender's clock moves.
THEOREM NoReplay == ASSUME Replay!ReplayAssumption PROVE Replay!Spec => []Replay!TakenOnce
<1>1. Replay!Init => ReplayInv BY ReplayInit
<1>2. ReplayInv /\ [Replay!Next]_(Replay!vars) => ReplayInv' BY ReplayStep
<1>3. ReplayInv => Replay!TakenOnce BY DEF ReplayInv
<1> QED BY <1>1, <1>2, <1>3, PTL DEF Replay!Spec

\* It refuses nothing but what it took before, what is older than its window and what
\* bears an earlier time: reordering within the window loses no packet.
THEOREM NothingFreshRefused ==
    ASSUME Replay!ReplayAssumption PROVE Replay!Spec => []Replay!RefusedForCause
<1>1. Replay!Init => ReplayInv BY ReplayInit
<1>2. ReplayInv /\ [Replay!Next]_(Replay!vars) => ReplayInv' BY ReplayStep
<1>3. ReplayInv => Replay!RefusedForCause BY DEF ReplayInv
<1> QED BY <1>1, <1>2, <1>3, PTL DEF Replay!Spec

\* The bits of the window are exactly the packets taken at its time within its reach.
THEOREM WindowIsTruthful ==
    ASSUME Replay!ReplayAssumption
    PROVE  Replay!Spec => [](Replay!TypeOK /\ Replay!WindowIsAccepted)
<1>1. Replay!Init => ReplayInv BY ReplayInit
<1>2. ReplayInv /\ [Replay!Next]_(Replay!vars) => ReplayInv' BY ReplayStep
<1>3. ReplayInv => Replay!TypeOK /\ Replay!WindowIsAccepted BY DEF ReplayInv
<1> QED BY <1>1, <1>2, <1>3, PTL DEF Replay!Spec

\* The same in the session: no packet is taken twice, none refused without cause.
THEOREM ReplaySound == SuiteSpec => []TakenOnce
<1>1. SuiteInit => (part = "replay" => ReplayInv)
  <2>1. SUFFICES ASSUME SuiteInit, part = "replay" PROVE ReplayInv
    OBVIOUS
  <2>2. Replay!Init
    BY <2>1 DEF SuiteInit
  <2> QED BY <2>2, ReplayInit, ReplayOk
<1>2. (part = "replay" => ReplayInv) /\ [SuiteNext]_suiteVars => (part = "replay" => ReplayInv)'
  <2>1. SUFFICES ASSUME part = "replay" => ReplayInv, [SuiteNext]_suiteVars, part' = "replay"
                 PROVE  ReplayInv'
    OBVIOUS
  <2>2. part' = part
    BY <2>1 DEF SuiteNext, suiteVars, OnlyReliable, OnlyKeys, OnlyDriver, OnlyStream, OnlyMux,
                OnlyReplay
  <2>3. [Replay!Next]_(Replay!vars)
    BY <2>1, <2>2 DEF SuiteNext, suiteVars, OnlyReliable, OnlyKeys, OnlyDriver, OnlyStream,
                      OnlyMux, OnlyReplay, Replay!vars
  <2> QED BY <2>1, <2>2, <2>3, ReplayStep, ReplayOk
<1>3. (part = "replay" => ReplayInv) => TakenOnce
  BY DEF ReplayInv, TakenOnce
<1> QED BY <1>1, <1>2, <1>3, PTL DEF SuiteSpec

-----------------------------------------------------------------------------
(* TunnelStream. *)

LoopTypes == [at : {"turn", "published", "wait", "stopping", "gone"}, established : BOOLEAN,
              linkGone : BOOLEAN, closing : BOOLEAN, queued : 0 .. 1, accepted : Nat,
              why : {"none", "caller-gave-up", "tunnel-gone", "finished", "never-connected"}]
SockTypes == [state : Stream!States, tx : 0 .. StreamWindow, rx : 0 .. StreamWindow]
ProgressTypes == [acknowledged : Int, closed : BOOLEAN, stopped : BOOLEAN, clean : BOOLEAN]
CallerTypes == [up : {"connecting", "up", "failed", "gave-up"}, written : 0 .. MaxWritten,
                writing : BOOLEAN, flushing : 0 .. MaxWritten \cup {Stream!NoWait},
                shutting : BOOLEAN, vouched : Nat, shut : BOOLEAN, got : Nat,
                eof : {"no", "clean", "cut"}]
PeerTypes == [sent : 0 .. MaxSent, acked : Nat, fin : BOOLEAN, finAcked : BOOLEAN,
              reset : BOOLEAN]

StreamTypes ==
    /\ loop \in LoopTypes /\ sock \in SockTypes /\ progress \in ProgressTypes
    /\ caller \in CallerTypes /\ peer \in PeerTypes
    /\ toStack \in 0 .. Depth /\ toCaller \in 0 .. Depth /\ reading \in BOOLEAN

\* No byte is lost on the way out or on the way in.
StreamCounts ==
    /\ caller.written = toStack + loop.accepted
    /\ loop.accepted = loop.queued + sock.tx + peer.acked
    /\ peer.sent = sock.rx + toCaller + caller.got

\* The socket's states in which it can have received no more.
Deaf == {"closing", "close-wait", "last-ack", "time-wait", "closed"}

\* What the socket's state says of the peer.
StreamStates ==
    /\ sock.state \in {"fin-wait-2", "time-wait", "closed"} => peer.finAcked \/ peer.reset
    /\ sock.state \in Deaf => peer.fin \/ peer.reset
    /\ loop.established => sock.state # "syn-sent"
    /\ loop.closing => ~ caller.writing /\ toStack = 0
    /\ (~ reading /\ loop.at # "gone") \/ progress.clean => sock.rx = 0 /\ sock.state \in Deaf
    /\ loop.at \in {"stopping", "gone"} /\ loop.why \in {"tunnel-gone", "finished"} => sock.rx = 0

\* What is published is so.
StreamPublished ==
    /\ 0 <= progress.acknowledged /\ progress.acknowledged <= peer.acked
    /\ progress.closed => /\ ~ caller.writing /\ caller.written = peer.acked
                          /\ peer.finAcked \/ peer.reset
    /\ caller.shut => ~ caller.writing
    /\ caller.eof = "clean" => progress.clean

StreamInv == StreamTypes /\ StreamCounts /\ StreamStates /\ StreamPublished
             /\ Stream!FlushTruthful /\ Stream!EofTruthful

\* It holds of a stream that has just been opened.
LEMMA StreamInit == ASSUME Stream!StreamAssumption, Stream!Init PROVE StreamInv
  BY DEF Stream!StreamAssumption, Stream!Init, StreamInv, StreamTypes, LoopTypes, SockTypes,
         ProgressTypes, CallerTypes, PeerTypes, StreamCounts, StreamStates,
         StreamPublished, Deaf, Stream!States, Stream!NoWait, Stream!FlushTruthful, Stream!EofTruthful

\* The types the proof splits the state into are those the runs check.
LEMMA StreamTyped == ASSUME Stream!StreamAssumption, StreamInv PROVE Stream!TypeOK
<1>1. StreamWindow \in Nat /\ Depth \in Nat /\ MaxWritten \in Nat /\ MaxSent \in Nat
  BY DEF Stream!StreamAssumption
<1>2. /\ loop.accepted \in Nat /\ loop.queued \in Nat /\ sock.tx \in Nat /\ peer.acked \in Nat
      /\ caller.written \in 0 .. MaxWritten /\ toStack \in Nat /\ progress.acknowledged \in Int
  BY <1>1 DEF StreamInv, StreamTypes, LoopTypes, SockTypes, PeerTypes, CallerTypes, ProgressTypes
<1>3. loop.accepted \in 0 .. MaxWritten /\ progress.acknowledged \in 0 .. MaxWritten
  BY <1>1, <1>2 DEF StreamInv, StreamCounts, StreamPublished
<1> QED BY <1>1, <1>3 DEF StreamInv, StreamTypes, LoopTypes, SockTypes, PeerTypes, CallerTypes,
                          ProgressTypes, Stream!TypeOK

\* Every action but a turn keeps the types.
LEMMA StreamKeepsTypes ==
    ASSUME Stream!StreamAssumption, StreamTypes, [Stream!Next]_(Stream!vars), ~ Stream!Turn
    PROVE  StreamTypes'
<1> USE DEF StreamTypes
<1>c. StreamWindow \in Nat /\ Depth \in Nat /\ MaxWritten \in Nat /\ MaxSent \in Nat
  BY DEF Stream!StreamAssumption
<1>2. CASE Stream!Published
  <2>1. loop' \in LoopTypes
    BY <1>2 DEF Stream!Published, Stream!Stop, LoopTypes
  <2>2. reading' \in BOOLEAN
    BY <1>2 DEF Stream!Published
  <2> QED BY <1>2, <2>1, <2>2 DEF Stream!Published
<1>3. CASE Stream!Wakes
  <2>1. toStack' \in 0 .. Depth
    BY <1>3, <1>c DEF Stream!Wakes
  <2>2. \/ loop' = [loop EXCEPT !.at = "turn", !.queued = 1, !.accepted = loop.accepted + 1]
        \/ loop' = [loop EXCEPT !.at = "turn", !.closing = TRUE]
        \/ loop' = [loop EXCEPT !.at = "turn"]
    BY <1>3 DEF Stream!Wakes
  <2>3. loop' \in LoopTypes
    <3>1. CASE loop' = [loop EXCEPT !.at = "turn", !.queued = 1, !.accepted = loop.accepted + 1]
      <4>1. loop.accepted + 1 \in Nat /\ 1 \in 0 .. 1
        BY DEF LoopTypes
      <4> QED BY <3>1, <4>1 DEF LoopTypes
    <3>2. CASE loop' = [loop EXCEPT !.at = "turn", !.closing = TRUE]
      BY <3>2 DEF LoopTypes
    <3>3. CASE loop' = [loop EXCEPT !.at = "turn"]
      BY <3>3 DEF LoopTypes
    <3> QED BY <2>2, <3>1, <3>2, <3>3
  <2> QED BY <1>3, <2>1, <2>3 DEF Stream!Wakes
<1>4. CASE Stream!Stopping
  <2>1. loop' \in LoopTypes
    BY <1>4 DEF Stream!Stopping, LoopTypes
  <2>2. progress' \in ProgressTypes
    BY <1>4 DEF Stream!Stopping, ProgressTypes
  <2>3. caller' \in CallerTypes
    BY <1>4 DEF Stream!Stopping, CallerTypes
  <2> QED BY <1>4, <2>1, <2>2, <2>3 DEF Stream!Stopping
<1>5. CASE Stream!Segment
  <2>1. loop' \in LoopTypes
    BY <1>5 DEF Stream!Segment, LoopTypes
  <2>2. sock' \in SockTypes
    BY <1>5 DEF Stream!Segment, SockTypes, Stream!States, Stream!StreamAssumption
  <2>3. \/ peer' = peer
        \/ peer' = [peer EXCEPT !.acked = peer.acked + 1]
        \/ peer' = [peer EXCEPT !.finAcked = TRUE]
        \/ peer' = [peer EXCEPT !.fin = TRUE]
        \/ peer' = [peer EXCEPT !.reset = TRUE]
        \/ peer' = [peer EXCEPT !.sent = peer.sent + 1] /\ peer.sent < MaxSent
    BY <1>5 DEF Stream!Segment
  <2>4. peer' \in PeerTypes
    <3>1. CASE peer' = [peer EXCEPT !.acked = peer.acked + 1]
      BY <3>1 DEF PeerTypes
    <3>2. CASE peer' = [peer EXCEPT !.finAcked = TRUE]
      BY <3>2 DEF PeerTypes
    <3>3. CASE peer' = [peer EXCEPT !.fin = TRUE]
      BY <3>3 DEF PeerTypes
    <3>4. CASE peer' = [peer EXCEPT !.reset = TRUE]
      BY <3>4 DEF PeerTypes
    <3>5. CASE peer' = [peer EXCEPT !.sent = peer.sent + 1] /\ peer.sent < MaxSent
      BY <1>c, <3>5 DEF PeerTypes
    <3> QED BY <2>3, <3>1, <3>2, <3>3, <3>4, <3>5
  <2> QED BY <1>5, <2>1, <2>2, <2>4 DEF Stream!Segment
<1>6. CASE Stream!LinkGoes
  <2>1. loop' \in LoopTypes
    BY <1>6 DEF Stream!LinkGoes, LoopTypes
  <2> QED BY <1>6, <2>1 DEF Stream!LinkGoes
<1>7. CASE Stream!NeverConnects
  <2>1. loop' \in LoopTypes
    BY <1>7 DEF Stream!NeverConnects, Stream!Stop, LoopTypes
  <2> QED BY <1>7, <2>1 DEF Stream!NeverConnects
<1>8. CASE Stream!GivesUp
  <2>1. caller' \in CallerTypes
    BY <1>8 DEF Stream!GivesUp, CallerTypes
  <2> QED BY <1>8, <2>1 DEF Stream!GivesUp
<1>9. CASE Stream!Write
  <2>3. caller' = [caller EXCEPT !.written = caller.written + 1] /\ caller.written < MaxWritten
    BY <1>9 DEF Stream!Write
  <2>1. caller' \in CallerTypes
    BY <2>3, <1>c DEF CallerTypes
  <2>2. toStack' \in 0 .. Depth
    BY <1>9, <1>c DEF Stream!Write
  <2> QED BY <1>9, <2>1, <2>2 DEF Stream!Write
<1>10. CASE Stream!Flush
  <2> DEFINE target == caller.written
  <2>2. Stream!WaitFor(caller.flushing, caller.written) = target
    BY DEF Stream!WaitFor
  <2>3. \/ caller' = [caller EXCEPT !.flushing = Stream!NoWait, !.vouched = caller.written]
        \/ caller' = [caller EXCEPT !.flushing = Stream!NoWait]
        \/ caller' = [caller EXCEPT !.flushing = target]
    BY <1>10, <2>2 DEF Stream!Flush
  <2>4. caller.written \in Nat
    BY <1>c DEF CallerTypes
  <2>1. caller' \in CallerTypes
    BY <2>3, <2>4, <1>c DEF CallerTypes
  <2> QED BY <1>10, <2>1 DEF Stream!Flush
<1>11. CASE Stream!Shutdown
  <2>2. caller' = [caller EXCEPT !.writing = FALSE, !.shutting = TRUE,
                                !.shut = caller.shut \/ progress.closed,
                                !.vouched = IF progress.closed THEN caller.written ELSE caller.vouched]
    BY <1>11 DEF Stream!Shutdown
  <2>4. caller.written \in Nat
    BY <1>c DEF CallerTypes
  <2>1. caller' \in CallerTypes
    BY <2>2, <2>4 DEF CallerTypes
  <2> QED BY <1>11, <2>1 DEF Stream!Shutdown
<1>12. CASE Stream!Read
  <2>1. caller' \in CallerTypes
    BY <1>12 DEF Stream!Read, CallerTypes
  <2>2. toCaller' \in 0 .. Depth
    BY <1>12, <1>c DEF Stream!Read
  <2> QED BY <1>12, <2>1, <2>2 DEF Stream!Read
<1>13. CASE UNCHANGED Stream!vars
  BY <1>13 DEF Stream!vars
<1> QED BY <1>2, <1>3, <1>4, <1>5, <1>6, <1>7, <1>8, <1>9, <1>10, <1>11, <1>12, <1>13
        DEF Stream!Next, Stream!Loop

\* A turn of the loop, field by field.
LEMMA TurnInFields ==
    ASSUME Stream!StreamAssumption, StreamTypes, Stream!Turn, caller.up # "gave-up"
    PROVE  \E taken \in 0 .. loop.queued, moved \in 0 .. sock.rx, state \in Stream!States :
            /\ sock.tx + taken <= StreamWindow /\ toCaller + moved <= Depth
            /\ toCaller' = toCaller + moved
            /\ \/ state = sock.state
               \/ sock.state = "established" /\ state = "fin-wait-1"
               \/ sock.state = "close-wait" /\ state = "last-ack"
            /\ sock' = [state |-> state, tx |-> sock.tx + taken, rx |-> sock.rx - moved]
            /\ loop' = [loop EXCEPT !.at = "published", !.queued = loop.queued - taken,
                            !.established = loop.established \/ Stream!MaySend(sock)]
            /\ progress' = [acknowledged |-> Stream!Acknowledged(loop', sock'),
                            closed |-> Stream!SaidGoodbye(loop', sock'), stopped |-> FALSE,
                            clean |-> progress.clean \/ Stream!FinishedReading(loop', sock')]
            /\ caller' = caller \/ caller' = [caller EXCEPT !.up = "up"]
<1> DEFINE l == [loop EXCEPT !.established = loop.established \/ Stream!MaySend(sock)]
           taken == IF l.queued > 0 /\ Stream!CanSend(sock) THEN 1 ELSE 0
           out == [sock EXCEPT !.tx = sock.tx + taken]
           rest == [l EXCEPT !.queued = l.queued - taken]
           shut == IF rest.closing /\ rest.queued = 0 /\ Stream!MaySend(out) THEN Stream!Closed(out) ELSE out
           moved == Stream!Moved(shut)
           s == [shut EXCEPT !.rx = shut.rx - moved]
<1>c. StreamWindow \in Nat /\ Depth \in Nat /\ MaxWritten \in Nat /\ MaxSent \in Nat
  BY DEF Stream!StreamAssumption
<1>1. /\ sock' = s /\ toCaller' = toCaller + moved
      /\ progress' = [acknowledged |-> Stream!Acknowledged(rest, s),
                      closed |-> Stream!SaidGoodbye(rest, s), stopped |-> FALSE,
                      clean |-> progress.clean \/ Stream!FinishedReading(rest, s)]
      /\ loop' = [rest EXCEPT !.at = "published"]
      /\ caller' = caller \/ caller' = [caller EXCEPT !.up = "up"]
  BY DEF Stream!Turn
<1>2. taken \in 0 .. loop.queued /\ sock.tx + taken <= StreamWindow
  BY <1>c DEF StreamTypes, LoopTypes, SockTypes, Stream!CanSend
<1>3. l \in LoopTypes
  BY DEF StreamTypes, LoopTypes
<1>4. /\ rest \in LoopTypes
      /\ rest.established = (loop.established \/ Stream!MaySend(sock))
      /\ rest.queued = loop.queued - taken
      /\ [rest EXCEPT !.at = "published"] =
            [loop EXCEPT !.at = "published", !.queued = loop.queued - taken,
                         !.established = loop.established \/ Stream!MaySend(sock)]
  <2> HIDE DEF taken
  <2>1. loop.queued - taken \in 0 .. 1
    BY <1>2 DEF StreamTypes, LoopTypes
  <2>2. rest = [loop EXCEPT !.queued = loop.queued - taken,
                            !.established = loop.established \/ Stream!MaySend(sock)]
    BY DEF StreamTypes, LoopTypes
  <2>3. rest \in LoopTypes
    BY <1>3, <2>1 DEF LoopTypes
  <2>4. loop \in LoopTypes
    BY DEF StreamTypes
  <2> HIDE DEF l
  <2> QED BY <2>2, <2>3, <2>4 DEF LoopTypes
<1>5. out = [state |-> sock.state, tx |-> sock.tx + taken, rx |-> sock.rx]
  BY DEF StreamTypes, SockTypes
<1>6. PICK state \in Stream!States :
          /\ \/ state = sock.state
             \/ sock.state = "established" /\ state = "fin-wait-1"
             \/ sock.state = "close-wait" /\ state = "last-ack"
          /\ shut = [state |-> state, tx |-> sock.tx + taken, rx |-> sock.rx]
  <2> HIDE DEF taken, rest
  <2>1. sock.state \in Stream!States
    BY DEF StreamTypes, SockTypes
  <2>2. CASE shut = out
    BY <1>5, <2>1, <2>2
  <2>3. CASE shut = Stream!Closed(out)
    <3>1. Stream!Closed(out).state \in Stream!States
      BY <1>5, <2>1 DEF Stream!Closed, Stream!States
    <3> QED BY <1>5, <2>1, <2>3, <3>1, ZenonT(40) DEF Stream!Closed, Stream!States
  <2> HIDE DEF out
  <2> QED BY <2>2, <2>3
<1>7. moved \in 0 .. sock.rx /\ toCaller + moved <= Depth
  <2> HIDE DEF shut
  <2> QED BY <1>6, <1>c DEF StreamTypes, SockTypes, Stream!Moved
<1>8. s = [state |-> state, tx |-> sock.tx + taken, rx |-> sock.rx - moved]
  <2> HIDE DEF shut, moved
  <2> QED BY <1>6
<1> HIDE DEF taken, rest, shut, moved, s, out, l
<1>9. /\ Stream!Acknowledged(rest, s) = Stream!Acknowledged(loop', sock')
      /\ Stream!SaidGoodbye(rest, s) = Stream!SaidGoodbye(loop', sock')
      /\ Stream!FinishedReading(rest, s) = Stream!FinishedReading(loop', sock')
  BY <1>1, <1>4 DEF LoopTypes, Stream!Acknowledged, Stream!SaidGoodbye, Stream!FinishedReading
<1> QED BY <1>1, <1>2, <1>4, <1>6, <1>7, <1>8, <1>9

\* A turn of the loop keeps the counts, the states and what is published.
LEMMA StreamTurn ==
    ASSUME Stream!StreamAssumption, StreamInv, Stream!Turn PROVE StreamInv'
<1>c. StreamWindow \in Nat /\ Depth \in Nat /\ MaxWritten \in Nat /\ MaxSent \in Nat
  BY DEF Stream!StreamAssumption
<1>t. StreamTypes
  BY DEF StreamInv
<1>1. CASE caller.up = "gave-up"
  <2>1. /\ loop' = [loop EXCEPT !.at = "stopping", !.why = "caller-gave-up"]
        /\ UNCHANGED <<sock, progress, toStack, toCaller, reading, caller, peer>>
        /\ loop.at = "turn"
    BY <1>1 DEF Stream!Turn, Stream!Stop
  <2>2. loop' \in LoopTypes
    BY <2>1, <1>t DEF StreamTypes, LoopTypes
  <2>3. StreamTypes'
    BY <2>1, <2>2, <1>t DEF StreamTypes
  <2>4. /\ loop'.at = "stopping" /\ loop'.why = "caller-gave-up"
        /\ loop'.queued = loop.queued /\ loop'.accepted = loop.accepted
        /\ loop'.closing = loop.closing /\ loop'.established = loop.established
    BY <2>1, <1>t DEF StreamTypes, LoopTypes
  <2>5. StreamStates'
    BY <2>1, <2>4 DEF StreamInv, StreamStates
  <2> QED BY <2>1, <2>3, <2>4, <2>5 DEF StreamInv, StreamCounts, StreamPublished,
             Stream!FlushTruthful, Stream!EofTruthful
<1>2. CASE caller.up # "gave-up"
  <2>1. PICK taken \in 0 .. loop.queued, moved \in 0 .. sock.rx, state \in Stream!States :
            /\ sock.tx + taken <= StreamWindow /\ toCaller + moved <= Depth
            /\ toCaller' = toCaller + moved
            /\ \/ state = sock.state
               \/ sock.state = "established" /\ state = "fin-wait-1"
               \/ sock.state = "close-wait" /\ state = "last-ack"
            /\ sock' = [state |-> state, tx |-> sock.tx + taken, rx |-> sock.rx - moved]
            /\ loop' = [loop EXCEPT !.at = "published", !.queued = loop.queued - taken,
                            !.established = loop.established \/ Stream!MaySend(sock)]
            /\ progress' = [acknowledged |-> Stream!Acknowledged(loop', sock'),
                            closed |-> Stream!SaidGoodbye(loop', sock'), stopped |-> FALSE,
                            clean |-> progress.clean \/ Stream!FinishedReading(loop', sock')]
            /\ caller' = caller \/ caller' = [caller EXCEPT !.up = "up"]
    BY <1>2, <1>t, TurnInFields
  <2>2. UNCHANGED <<toStack, reading, peer>> /\ loop.at = "turn"
    BY DEF Stream!Turn
  <2>3. /\ taken \in Nat /\ moved \in Nat /\ sock.tx \in Nat /\ sock.rx \in 0 .. StreamWindow
        /\ toCaller \in Nat /\ taken <= loop.queued /\ moved <= sock.rx /\ loop.queued \in 0 .. 1
        /\ loop.accepted \in Nat
    BY <1>c, <1>t DEF StreamTypes, LoopTypes, SockTypes
  <2>4. /\ sock'.state = state /\ sock'.tx = sock.tx + taken /\ sock'.rx = sock.rx - moved
        /\ loop'.at = "published" /\ loop'.queued = loop.queued - taken
        /\ loop'.established = (loop.established \/ Stream!MaySend(sock))
        /\ loop'.accepted = loop.accepted /\ loop'.closing = loop.closing
    BY <1>t, <2>1 DEF StreamTypes, LoopTypes
  <2>5. /\ caller'.written = caller.written /\ caller'.writing = caller.writing
        /\ caller'.vouched = caller.vouched /\ caller'.shut = caller.shut
        /\ caller'.got = caller.got /\ caller'.eof = caller.eof
        /\ caller' \in CallerTypes
    BY <1>t, <2>1 DEF StreamTypes, CallerTypes
  <2>6. loop' \in LoopTypes
    <3>1. loop.queued - taken \in 0 .. 1
      BY <2>3
    <3> QED BY <1>t, <2>1, <3>1 DEF StreamTypes, LoopTypes
  <2>7. sock' \in SockTypes
    BY <1>c, <2>1, <2>3 DEF SockTypes
  <2>8. progress' \in ProgressTypes
    BY <1>t, <2>1, <2>3, <2>4 DEF StreamTypes, ProgressTypes, Stream!Acknowledged, Stream!SaidGoodbye,
       Stream!FinishedReading
  <2>9. StreamTypes'
    BY <1>c, <1>t, <2>1, <2>2, <2>3, <2>5, <2>6, <2>7, <2>8 DEF StreamTypes
  <2>10. StreamCounts'
    BY <1>t, <2>1, <2>2, <2>3, <2>4, <2>5 DEF StreamInv, StreamTypes, PeerTypes, CallerTypes, StreamCounts
  <2>11. StreamStates'
    <3>1. sock.state \in Stream!States
      BY <1>t DEF StreamTypes, SockTypes
    <3>2. sock.state \in Deaf => sock'.state \in Deaf
      BY <2>1, <2>4 DEF Deaf
    <3>3. progress'.clean => progress.clean \/ Stream!FinishedReading(loop', sock')
      BY <2>1
    <3>4. loop'.established => sock'.state # "syn-sent"
      BY <2>1, <2>4 DEF StreamInv, StreamStates, Stream!MaySend
    <3>5. Stream!FinishedReading(loop', sock') => sock'.rx = 0 /\ sock'.state \in Deaf
      BY <2>4, <3>4 DEF Stream!FinishedReading, Stream!MayRecv, Stream!States, Deaf
    <3>6. sock.rx = 0 => sock'.rx = 0
      <4>1. sock.rx = 0 => moved = 0
        BY <2>3
      <4>2. 0 - 0 = 0
        OBVIOUS
      <4> QED BY <2>4, <4>1, <4>2
    <3>7. (~ reading /\ loop.at # "gone") \/ progress.clean => sock.rx = 0 /\ sock.state \in Deaf
      BY DEF StreamInv, StreamStates
    <3>8. (~ reading' /\ loop'.at # "gone") \/ progress'.clean => sock'.rx = 0 /\ sock'.state \in Deaf
      BY <2>2, <3>2, <3>3, <3>5, <3>6, <3>7
    <3>9. sock'.state \in {"fin-wait-2", "time-wait", "closed"} => sock.state = sock'.state
      BY <2>1, <2>4
    <3>10. sock'.state \in Deaf => sock.state \in Deaf
      BY <2>1, <2>4 DEF Deaf
    <3>11. loop'.closing => ~ caller'.writing /\ toStack' = 0
      BY <2>2, <2>4, <2>5 DEF StreamInv, StreamStates
    <3>12. /\ sock'.state \in {"fin-wait-2", "time-wait", "closed"} => peer'.finAcked \/ peer'.reset
           /\ sock'.state \in Deaf => peer'.fin \/ peer'.reset
      BY <2>2, <3>9, <3>10 DEF StreamInv, StreamStates
    <3> QED BY <2>4, <3>4, <3>8, <3>11, <3>12 DEF StreamStates
  <2>12. StreamPublished'
    <3>1. peer.acked \in Nat /\ progress'.acknowledged = loop'.accepted - (loop'.queued + sock'.tx)
      BY <1>t, <2>1 DEF StreamTypes, PeerTypes, Stream!Acknowledged
    <3>2. progress'.acknowledged = peer'.acked
      BY <2>2, <2>3, <2>4, <3>1 DEF StreamInv, StreamCounts
    <3>3. progress'.closed => /\ loop'.closing /\ loop'.queued + sock'.tx = 0
                              /\ sock'.state \in {"fin-wait-2", "time-wait", "closed"}
      BY <2>1 DEF Stream!SaidGoodbye
    <3>4. progress'.closed => ~ caller'.writing /\ toStack' = 0 /\ (peer'.finAcked \/ peer'.reset)
      BY <2>11, <3>3 DEF StreamStates
    <3>5. progress'.closed => caller'.written = peer'.acked
      BY <2>2, <2>3, <2>4, <2>10, <3>1, <3>3, <3>4 DEF StreamCounts
    <3>6. progress'.clean <=> progress.clean \/ Stream!FinishedReading(loop', sock')
      BY <2>1
    <3> QED BY <2>2, <2>5, <3>1, <3>2, <3>4, <3>5, <3>6 DEF StreamInv, StreamPublished
  <2>13. Stream!FlushTruthful' /\ Stream!EofTruthful'
    <3>1. caller.eof = "clean" => sock.rx = 0
      BY DEF StreamInv, StreamPublished, StreamStates
    <3> QED BY <2>2, <2>4, <2>5 DEF StreamInv, Stream!FlushTruthful, Stream!EofTruthful
  <2> QED BY <2>9, <2>10, <2>11, <2>12, <2>13 DEF StreamInv
<1> QED BY <1>1, <1>2

\* The actions whose shape hides what they change, field by field: publishing.
LEMMA PublishedInFields ==
    ASSUME StreamTypes, Stream!Published
    PROVE  /\ loop'.established = loop.established /\ loop'.closing = loop.closing
           /\ loop'.queued = loop.queued /\ loop'.accepted = loop.accepted
           /\ loop'.at \in {"wait", "stopping"}
           /\ loop'.at = "stopping" => ~ (sock.rx > 0 /\ reading')
<1>1. /\ \/ loop' = [loop EXCEPT !.at = "stopping", !.why = "tunnel-gone"]
         \/ loop' = [loop EXCEPT !.at = "stopping", !.why = "finished"]
         \/ loop' = [loop EXCEPT !.at = "wait"]
      /\ loop'.at = "stopping" => ~ (sock.rx > 0 /\ reading')
  BY DEF Stream!Published, Stream!Stop, Stream!Unread, StreamTypes, LoopTypes
<1> QED BY <1>1 DEF StreamTypes, LoopTypes

\* Waking up.
LEMMA WakesInFields ==
    ASSUME StreamTypes, Stream!Wakes, Depth \in Nat
    PROVE  /\ loop'.at = "turn" /\ loop'.established = loop.established
           /\ loop'.closing => loop.closing \/ (toStack = 0 /\ ~ caller.writing)
           /\ toStack' = toStack \/ (~ loop.closing /\ ~ loop'.closing)
           /\ toStack' + loop'.accepted = toStack + loop.accepted
           /\ loop'.accepted - loop'.queued = loop.accepted - loop.queued
<1>1. \/ /\ loop.queued = 0 /\ ~ loop.closing /\ toStack > 0 /\ toStack' = toStack - 1
         /\ loop' = [loop EXCEPT !.at = "turn", !.queued = 1, !.accepted = loop.accepted + 1]
      \/ /\ toStack = 0 /\ ~ caller.writing /\ toStack' = toStack
         /\ loop' = [loop EXCEPT !.at = "turn", !.closing = TRUE]
      \/ toStack' = toStack /\ loop' = [loop EXCEPT !.at = "turn"]
  BY DEF Stream!Wakes
<1>2. loop.accepted \in Nat /\ loop.queued \in 0 .. 1 /\ toStack \in Nat
  BY DEF StreamTypes, LoopTypes
<1>3. CASE /\ loop.queued = 0 /\ ~ loop.closing /\ toStack > 0 /\ toStack' = toStack - 1
           /\ loop' = [loop EXCEPT !.at = "turn", !.queued = 1, !.accepted = loop.accepted + 1]
  BY <1>2, <1>3 DEF StreamTypes, LoopTypes
<1>4. CASE /\ toStack = 0 /\ ~ caller.writing /\ toStack' = toStack
           /\ loop' = [loop EXCEPT !.at = "turn", !.closing = TRUE]
  BY <1>2, <1>4 DEF StreamTypes, LoopTypes
<1>5. CASE toStack' = toStack /\ loop' = [loop EXCEPT !.at = "turn"]
  BY <1>2, <1>5 DEF StreamTypes, LoopTypes
<1> QED BY <1>1, <1>3, <1>4, <1>5

\* A flush.
LEMMA FlushInFields ==
    ASSUME StreamTypes, Stream!Flush
    PROVE  /\ caller'.written = caller.written /\ caller'.writing = caller.writing
           /\ caller'.shut = caller.shut /\ caller'.got = caller.got /\ caller'.eof = caller.eof
           /\ \/ caller'.vouched = caller.vouched
              \/ caller'.vouched = caller.written /\ progress.acknowledged >= caller.written
<1>1. Stream!WaitFor(caller.flushing, caller.written) = caller.written
  BY DEF Stream!WaitFor
<1>2. \/ /\ progress.acknowledged >= caller.written
         /\ caller' = [caller EXCEPT !.flushing = Stream!NoWait, !.vouched = caller.written]
      \/ caller' = [caller EXCEPT !.flushing = Stream!NoWait]
      \/ caller' = [caller EXCEPT !.flushing = caller.written]
  BY <1>1 DEF Stream!Flush
<1> QED BY <1>2 DEF StreamTypes, CallerTypes

\* So does every other action, and nothing is vouched for that the peer does not have.
LEMMA StreamStep ==
    ASSUME Stream!StreamAssumption, StreamInv, [Stream!Next]_(Stream!vars) PROVE StreamInv'
<1>c. StreamWindow \in Nat /\ Depth \in Nat /\ MaxWritten \in Nat /\ MaxSent \in Nat
  BY DEF Stream!StreamAssumption
<1>1. CASE Stream!Turn
  BY <1>1, StreamTurn
<1>2. SUFFICES ASSUME ~ Stream!Turn PROVE StreamInv'
  BY <1>1
<1>t. StreamTypes /\ StreamTypes'
  BY <1>2, StreamKeepsTypes DEF StreamInv
<1> USE DEF StreamInv, StreamTypes, LoopTypes, SockTypes, ProgressTypes, CallerTypes, PeerTypes,
            StreamCounts, StreamStates, StreamPublished, Deaf, Stream!States,
            Stream!FlushTruthful, Stream!EofTruthful
<1>3. CASE Stream!Published
  <2>1. /\ loop'.established = loop.established /\ loop'.closing = loop.closing
        /\ loop'.queued = loop.queued /\ loop'.accepted = loop.accepted
        /\ loop'.at \in {"wait", "stopping"}
        /\ loop'.at = "stopping" => ~ (sock.rx > 0 /\ reading')
    BY ONLY <1>3, <1>t, PublishedInFields
  <2>2. reading /\ ~ reading' => sock.rx = 0 /\ sock.state \in Deaf
    BY <1>3, <1>t DEF Stream!Published, Stream!LetsReaderGo, Stream!FinishedReading, Stream!MayRecv
  <2>3. UNCHANGED <<sock, progress, toStack, toCaller, caller, peer>> /\ loop.at = "published"
    BY <1>3 DEF Stream!Published
  <2>4. ~ reading' => sock.rx = 0 /\ sock.state \in Deaf
    BY <2>2, <2>3
  <2>5. StreamStates'
    BY <1>t, <2>1, <2>3, <2>4
  <2> QED BY <1>t, <2>1, <2>3, <2>5
<1>4. CASE Stream!Wakes
  <2>1. /\ loop'.at = "turn" /\ loop'.established = loop.established
        /\ loop'.closing => loop.closing \/ (toStack = 0 /\ ~ caller.writing)
        /\ toStack' = toStack \/ (~ loop.closing /\ ~ loop'.closing)
        /\ toStack' + loop'.accepted = toStack + loop.accepted
        /\ loop'.accepted - loop'.queued = loop.accepted - loop.queued
    BY ONLY <1>c, <1>4, <1>t, WakesInFields
  <2>2. UNCHANGED <<sock, progress, toCaller, reading, caller, peer>> /\ loop.at = "wait"
    BY <1>4 DEF Stream!Wakes
  <2>3. loop'.closing => toStack' = 0 /\ ~ caller.writing
    BY <2>1, <2>2
  <2>4. StreamStates'
    BY <1>t, <2>1, <2>2, <2>3
  <2>5. StreamCounts'
    BY <1>t, <1>c, <2>1, <2>2
  <2> QED BY <1>t, <2>2, <2>3, <2>4, <2>5
<1>5. CASE Stream!Stopping
  BY <1>5, <1>t DEF Stream!Stopping
<1>6. CASE Stream!Segment
  <2>1. StreamCounts'
    BY <1>6, <1>c, <1>t DEF Stream!Segment, Stream!IsActive, Stream!FinSent
  <2>2. StreamStates'
    BY <1>6, <1>c, <1>t DEF Stream!Segment, Stream!IsActive, Stream!FinSent
  <2>3. StreamPublished'
    BY <1>6, <1>c, <1>t DEF Stream!Segment, Stream!IsActive, Stream!FinSent
  <2>4. Stream!FlushTruthful' /\ Stream!EofTruthful'
    BY <1>6, <1>c, <1>t DEF Stream!Segment, Stream!IsActive, Stream!FinSent
  <2> QED BY <1>t, <2>1, <2>2, <2>3, <2>4
<1>7. CASE Stream!LinkGoes
  <2>1. StreamCounts'
    BY <1>7, <1>c, <1>t DEF Stream!LinkGoes
  <2>2. StreamStates'
    BY <1>7, <1>c, <1>t DEF Stream!LinkGoes
  <2>3. StreamPublished'
    BY <1>7, <1>c, <1>t DEF Stream!LinkGoes
  <2>4. Stream!FlushTruthful' /\ Stream!EofTruthful'
    BY <1>7, <1>c, <1>t DEF Stream!LinkGoes
  <2> QED BY <1>t, <2>1, <2>2, <2>3, <2>4
<1>8. CASE Stream!NeverConnects
  <2>1. StreamCounts'
    BY <1>8, <1>c, <1>t DEF Stream!NeverConnects, Stream!Stop
  <2>2. StreamStates'
    BY <1>8, <1>c, <1>t DEF Stream!NeverConnects, Stream!Stop
  <2>3. StreamPublished'
    BY <1>8, <1>c, <1>t DEF Stream!NeverConnects, Stream!Stop
  <2>4. Stream!FlushTruthful' /\ Stream!EofTruthful'
    BY <1>8, <1>c, <1>t DEF Stream!NeverConnects, Stream!Stop
  <2> QED BY <1>t, <2>1, <2>2, <2>3, <2>4
<1>9. CASE Stream!GivesUp
  <2>1. StreamCounts'
    BY <1>9, <1>c, <1>t DEF Stream!GivesUp
  <2>2. StreamStates'
    BY <1>9, <1>c, <1>t DEF Stream!GivesUp
  <2>3. StreamPublished'
    BY <1>9, <1>c, <1>t DEF Stream!GivesUp
  <2>4. Stream!FlushTruthful' /\ Stream!EofTruthful'
    BY <1>9, <1>c, <1>t DEF Stream!GivesUp
  <2> QED BY <1>t, <2>1, <2>2, <2>3, <2>4
<1>10. CASE Stream!Write
  <2>1. StreamCounts'
    BY <1>10, <1>c, <1>t DEF Stream!Write
  <2>2. StreamStates'
    BY <1>10, <1>c, <1>t DEF Stream!Write
  <2>3. StreamPublished'
    BY <1>10, <1>c, <1>t DEF Stream!Write
  <2>4. Stream!FlushTruthful' /\ Stream!EofTruthful'
    BY <1>10, <1>c, <1>t DEF Stream!Write
  <2> QED BY <1>t, <2>1, <2>2, <2>3, <2>4
<1>11. CASE Stream!Flush
  <2>3. UNCHANGED <<loop, sock, progress, toStack, toCaller, reading, peer>>
    BY <1>11 DEF Stream!Flush
  <2>4. /\ caller'.written = caller.written /\ caller'.writing = caller.writing
        /\ caller'.shut = caller.shut /\ caller'.got = caller.got /\ caller'.eof = caller.eof
        /\ \/ caller'.vouched = caller.vouched
           \/ caller'.vouched = caller.written /\ progress.acknowledged >= caller.written
    BY ONLY <1>11, <1>t, FlushInFields
  <2>5. StreamCounts' /\ StreamStates' /\ StreamPublished'
    BY <2>3, <2>4
  <2> QED BY <1>t, <2>3, <2>4, <2>5
<1>12. CASE Stream!Shutdown
  <2>1. StreamCounts'
    BY <1>12, <1>c, <1>t DEF Stream!Shutdown
  <2>2. StreamStates'
    BY <1>12, <1>c, <1>t DEF Stream!Shutdown
  <2>3. StreamPublished'
    BY <1>12, <1>c, <1>t DEF Stream!Shutdown
  <2>4. Stream!FlushTruthful' /\ Stream!EofTruthful'
    BY <1>12, <1>c, <1>t DEF Stream!Shutdown
  <2> QED BY <1>t, <2>1, <2>2, <2>3, <2>4
<1>13. CASE Stream!Read
  <2>1. StreamCounts'
    BY <1>13, <1>c, <1>t DEF Stream!Read
  <2>2. StreamStates'
    BY <1>13, <1>c, <1>t DEF Stream!Read
  <2>3. StreamPublished'
    BY <1>13, <1>c, <1>t DEF Stream!Read
  <2>4. Stream!FlushTruthful' /\ Stream!EofTruthful'
    BY <1>13, <1>c, <1>t DEF Stream!Read
  <2> QED BY <1>t, <2>1, <2>2, <2>3, <2>4
<1>14. CASE UNCHANGED Stream!vars
  BY <1>14, <1>t DEF Stream!vars
<1> QED BY <1>2, <1>3, <1>4, <1>5, <1>6, <1>7, <1>8, <1>9, <1>10, <1>11, <1>12, <1>13, <1>14
        DEF Stream!Next, Stream!Loop

\* A flush of a TunnelStream succeeds only when the peer's kernel has every byte written,
\* and it reports an end of file as clean only when the peer's stream has ended.
THEOREM StreamSound == SuiteSpec => []StreamTruthful
<1>1. SuiteInit => (part = "stream" => StreamInv)
  <2>1. SUFFICES ASSUME SuiteInit, part = "stream" PROVE StreamInv
    OBVIOUS
  <2>2. Stream!Init
    BY <2>1 DEF SuiteInit
  <2> QED BY <2>2, StreamInit, StreamOk
<1>2. (part = "stream" => StreamInv) /\ [SuiteNext]_suiteVars => (part = "stream" => StreamInv)'
  <2>1. SUFFICES ASSUME part = "stream" => StreamInv, [SuiteNext]_suiteVars, part' = "stream"
                 PROVE  StreamInv'
    OBVIOUS
  <2>2. part' = part
    BY <2>1 DEF SuiteNext, suiteVars, OnlyReliable, OnlyKeys, OnlyDriver, OnlyStream, OnlyMux,
                OnlyReplay
  <2>3. [Stream!Next]_(Stream!vars)
    BY <2>1, <2>2 DEF SuiteNext, suiteVars, OnlyReliable, OnlyKeys, OnlyDriver, OnlyStream,
                      OnlyMux, OnlyReplay, Stream!vars
  <2> QED BY <2>1, <2>2, <2>3, StreamStep, StreamOk
<1>3. (part = "stream" => StreamInv) => StreamTruthful
  BY StreamTyped, StreamOk DEF StreamInv, StreamTruthful
<1> QED BY <1>1, <1>2, <1>3, PTL DEF SuiteSpec

-----------------------------------------------------------------------------
(* VpnDriver. *)

TaskTypes == [at : {"turn", "wait", "stopping", "told", "gone"},
              phase : {"handshake", "push", "ready"}, asked : BOOLEAN,
              push : [ping : Nat, restart : Nat, disabled : BOOLEAN], wake : 0 .. Cap,
              why : {"none", "peer-gone", "no-push-reply", "session", "nobody"}]

\* The task sleeps no longer than what it is awake for can wait.
SleepsInTime ==
    task.at = "wait" =>
        /\ task.phase = "ready" /\ task.push.ping # Driver!Never
              => ages["sent"] + task.wake <= task.push.ping
        /\ task.phase = "push" /\ task.asked => ages["asked"] + task.wake <= PushInterval
        /\ Driver!PeerTimeout # Driver!Never
              => ages["heard"] + task.wake < Driver!PeerTimeout + Cap

\* Who goes without being told to says why, and is not taken for somebody else.
EndsExplained ==
    /\ task.at \in {"stopping", "told"} => task.why # "none"
    /\ task.at = "gone" /\ caller \in {"connecting", "up"} => failure # "none"
    /\ pump # "none" <=> caller = "sharing"
    /\ task.at = "gone" /\ pump \in {"idle", "sending"} => failure # "none"

\* It goes for silence only where it may, and has no reason before.
GoesForCause ==
    /\ task.at \in {"turn", "wait"} => task.why = "none"
    /\ Driver!SilenceAllowed

DriverInv ==
    /\ Driver!TypeOK /\ task \in TaskTypes
    /\ SleepsInTime /\ EndsExplained /\ GoesForCause
    /\ Driver!OnTime /\ Driver!SilenceNoticed /\ Driver!EndIsExplained

\* What the assumption says, constant by constant.
LEMMA DriverConstants ==
    ASSUME Driver!DriverAssumption
    PROVE  /\ IdlePoll \in Nat \ {0} /\ Cap \in Nat \ {0} /\ IdlePoll <= Cap /\ Cap < 99
           /\ PushInterval \in Nat \ {0} /\ PushTimeout \in Nat \ {0}
           /\ PushInterval < PushTimeout /\ DefaultRestart \in Nat /\ Depth \in Nat \ {0}
           /\ ChannelWakes \subseteq Nat /\ Pushes \subseteq [ping : Nat, restart : Nat, disabled : BOOLEAN]
           /\ Driver!Oldest \in Nat /\ Driver!Oldest = PushTimeout + Cap + 1
           /\ Driver!Never = 99
  BY DEF Driver!DriverAssumption, Driver!Never, Driver!Oldest

\* The earliest of a few times.
LEMMA EarliestOfThree ==
    ASSUME NEW a \in Nat, NEW b \in Nat, NEW c \in Nat
    PROVE  \E t \in Nat : t = Driver!Earliest({a, b, c}) /\ t <= a /\ t <= b /\ t <= c
<1>1. \E t \in {a, b, c} : \A u \in {a, b, c} : t <= u
  OBVIOUS
<1> QED BY <1>1 DEF Driver!Earliest

\* Sleep without its LET and CASE.
LEMMA SleepIs ==
    ASSUME NEW t, NEW a, NEW channel, NEW wanted, wanted = Driver!NextWakeup(t, a, channel)
    PROVE  Driver!Sleep(t, a, channel) =
              IF wanted = Driver!Never THEN IdlePoll ELSE IF wanted > Cap THEN Cap ELSE wanted
  BY DEF Driver!Sleep

\* How long the loop sleeps, given when the next thing is due.
LEMMA SleepBounded ==
    ASSUME Driver!DriverAssumption, NEW t, NEW a, NEW channel \in Nat,
           t.phase = "ready" => t.push.ping \in Nat /\ a["sent"] \in Nat,
           t.phase = "push" => /\ a["asked"] \in Nat /\ a["asked"] < PushInterval
                               /\ a["first"] \in Nat /\ a["first"] < PushTimeout,
           t.phase = "ready" /\ t.push.ping # Driver!Never => a["sent"] <= t.push.ping
    PROVE  /\ Driver!Sleep(t, a, channel) \in 0 .. Cap
           /\ t.phase = "ready" /\ t.push.ping # Driver!Never
                 => a["sent"] + Driver!Sleep(t, a, channel) <= t.push.ping
           /\ t.phase = "push" => a["asked"] + Driver!Sleep(t, a, channel) <= PushInterval
<1>1. CASE t.phase = "push"
  <2>1. PICK due \in Nat, last \in Nat :
            /\ due = PushInterval - a["asked"] /\ last = PushTimeout - a["first"]
    BY <1>1, DriverConstants
  <2>2. {channel} \cup {} \cup {due, last} = {channel, due, last}
    OBVIOUS
  <2>3. Driver!NextWakeup(t, a, channel) = Driver!Earliest({channel, due, last})
    BY <1>1, <2>1, <2>2 DEF Driver!NextWakeup
  <2>4. \E x \in Nat : x = Driver!Earliest({channel, due, last}) /\ x <= due
    BY EarliestOfThree
  <2>5. PICK wanted \in Nat : wanted = Driver!NextWakeup(t, a, channel) /\ wanted <= due
    BY <2>3, <2>4
  <2> QED BY <1>1, <2>1, <2>5, SleepIs, DriverConstants
<1>2. CASE t.phase # "push" /\ ~ (t.phase = "ready" /\ t.push.ping # Driver!Never)
  <2>1. {channel} \cup {} \cup {} = {channel, channel, channel}
    OBVIOUS
  <2>2. Driver!NextWakeup(t, a, channel) = Driver!Earliest({channel, channel, channel})
    BY <1>2, <2>1 DEF Driver!NextWakeup
  <2>3. PICK wanted \in Nat : wanted = Driver!NextWakeup(t, a, channel)
    BY ONLY <2>2, EarliestOfThree, channel \in Nat
  <2> QED BY <1>2, <2>3, SleepIs, DriverConstants
<1>3. CASE t.phase = "ready" /\ t.push.ping # Driver!Never
  <2>1. PICK due \in Nat :
            /\ due = (IF t.push.ping > a["sent"] THEN t.push.ping - a["sent"] ELSE 0)
            /\ a["sent"] + due = t.push.ping
    BY <1>3
  <2>2. {channel} \cup {due} \cup {} = {channel, due, due}
    OBVIOUS
  <2>3. Driver!NextWakeup(t, a, channel) = Driver!Earliest({channel, due, due})
    BY <1>3, <2>1, <2>2 DEF Driver!NextWakeup
  <2>4. PICK wanted \in Nat : wanted = Driver!NextWakeup(t, a, channel) /\ wanted <= due
    BY ONLY <2>3, EarliestOfThree, channel \in Nat
  <2> QED BY <1>3, <2>1, <2>4, SleepIs, DriverConstants
<1> QED BY <1>1, <1>2, <1>3

\* It holds before the first datagram.
LEMMA DriverInit == ASSUME Driver!DriverAssumption, Driver!Init PROVE DriverInv
<1>1. ages \in [Driver!Ages -> 0 .. Driver!Oldest] /\ queues \in [Driver!Queues -> 0 .. Depth]
      /\ ages["sent"] = 0 /\ ages["asked"] = 0 /\ ages["heard"] = 0
  BY DriverConstants DEF Driver!Init, Driver!Ages, Driver!Queues
<1>2. task \in TaskTypes
  BY DriverConstants DEF Driver!Init, TaskTypes, Driver!Never, Driver!NoPush
<1>3. Driver!TypeOK
  BY <1>1, <1>2, DriverConstants DEF Driver!Init, Driver!TypeOK, TaskTypes
<1>4. Driver!PeerTimeout \in Nat
  BY DriverConstants DEF Driver!Init, Driver!PeerTimeout, Driver!NoPush
<1>5. EndsExplained /\ Driver!EndIsExplained
  BY DEF Driver!Init, EndsExplained, Driver!EndIsExplained, Driver!TaskHolds
<1>6. GoesForCause
  BY DEF Driver!Init, GoesForCause, Driver!SilenceAllowed
<1> QED BY <1>1, <1>2, <1>3, <1>4, <1>5, <1>6, DriverConstants
        DEF Driver!Init, DriverInv, SleepsInTime, Driver!OnTime, Driver!SilenceNoticed

DriverTypes == Driver!TypeOK /\ task \in TaskTypes

\* Neither a turn nor a tick.
Otherwise ==
    /\ [Driver!Next]_(Driver!vars) /\ ~ Driver!Tick
    /\ \A spoke \in BOOLEAN, channel \in ChannelWakes : ~ Driver!Turn(spoke, channel)

HeardNow == [ages EXCEPT !["heard"] = 0]

\* What the other actions do to the task: wake it, carry the session on, or end it.
TaskMoves ==
    \/ task' = task /\ ages' = ages
    \/ /\ task.at = "wait" /\ task' = [task EXCEPT !.at = "turn"]
       /\ ages' \in {ages, HeardNow, [ages EXCEPT !["sent"] = 0]}
    \/ \E why \in {"session", "nobody"} :
          /\ task.at = "wait" /\ task' = [task EXCEPT !.at = "stopping", !.why = why]
          /\ ages' \in {ages, HeardNow}
    \/ /\ task.at = "wait" /\ ages' = HeardNow
       /\ task' = [task EXCEPT !.at = "turn", !.phase = "push", !.asked = FALSE]
    \/ \E reply \in Pushes :
          /\ task.at = "wait"
          /\ task' = [task EXCEPT !.at = "turn", !.phase = "ready", !.push = reply]
          /\ ages' = HeardNow
    \/ task.at = "stopping" /\ task' = [task EXCEPT !.at = "told"] /\ ages' = ages
    \/ task.at = "told" /\ task' = [task EXCEPT !.at = "gone"] /\ ages' = ages
    \/ task' = Driver!Aborted /\ ages' = ages

\* They do nothing else to it.
LEMMA DriverTaskMoves == ASSUME Otherwise, DriverTypes PROVE TaskMoves
<1>1. CASE Driver!HearControl
  BY <1>1 DEF Driver!HearControl, Driver!Hear, Driver!Again, Driver!Stops, TaskMoves, HeardNow
<1>2. CASE Driver!HearPayload
  BY <1>2 DEF Driver!HearPayload, Driver!Hear, Driver!Again, Driver!Stops, TaskMoves, HeardNow
<1>3. CASE Driver!SocketFails
  BY <1>3 DEF Driver!SocketFails, Driver!Stops, TaskMoves, HeardNow
<1>4. CASE Driver!TakeOutbound
  <2>1. ages = [ages EXCEPT !["sent"] = ages["sent"]]
    BY DEF DriverTypes, Driver!TypeOK
  <2> QED BY <1>4, <2>1 DEF Driver!TakeOutbound, Driver!Again, Driver!Stops, TaskMoves
<1>5. CASE Driver!Wakes
  BY <1>5 DEF Driver!Wakes, Driver!Again, TaskMoves, HeardNow
<1>6. CASE Driver!Stopping
  BY <1>6 DEF Driver!Stopping, TaskMoves, HeardNow
<1>7. CASE Driver!Finishes
  BY <1>7 DEF Driver!Finishes, TaskMoves, HeardNow
<1>8. CASE Driver!ConnectEnds
  BY <1>8 DEF Driver!ConnectEnds, TaskMoves, HeardNow
<1>9. CASE Driver!ConnectDropped
  BY <1>9 DEF Driver!ConnectDropped, TaskMoves, HeardNow
<1>10. CASE Driver!Share
  BY <1>10 DEF Driver!Share, TaskMoves, HeardNow
<1>11. CASE Driver!StackSends
  BY <1>11 DEF Driver!StackSends, TaskMoves, HeardNow
<1>12. CASE Driver!StackReads
  BY <1>12 DEF Driver!StackReads, TaskMoves, HeardNow
<1>13. CASE Driver!StacksGo
  BY <1>13 DEF Driver!StacksGo, TaskMoves, HeardNow
<1>14. CASE Driver!PumpTakes
  BY <1>14 DEF Driver!PumpTakes, Driver!PumpEnds, TaskMoves, HeardNow
<1>15. CASE Driver!PumpSends
  BY <1>15 DEF Driver!PumpSends, Driver!PumpEnds, TaskMoves, HeardNow
<1>16. CASE Driver!PumpReceives
  BY <1>16 DEF Driver!PumpReceives, Driver!PumpEnds, TaskMoves, HeardNow
<1>17. CASE UNCHANGED Driver!vars
  BY <1>17 DEF Driver!vars, TaskMoves
<1> QED BY <1>1, <1>2, <1>3, <1>4, <1>5, <1>6, <1>7, <1>8, <1>9, <1>10, <1>11, <1>12, <1>13, <1>14, <1>15, <1>16, <1>17
        DEF Otherwise, Driver!Next, Driver!Loop, Driver!Pumps

\* What becomes of the task and the ages, field by field.
TaskKept ==
    /\ task' \in TaskTypes
    /\ task'.push \in Pushes \cup {Driver!NoPush}
    /\ ages' \in [Driver!Ages -> 0 .. Driver!Oldest]
    /\ ages'["asked"] = ages["asked"] /\ ages'["heard"] \in {0, ages["heard"]}
    /\ task'.at = "wait" => task' = task /\ ages' = ages
    /\ task'.at = "turn" => task.at \in {"turn", "wait"} \/ ages'["heard"] = 0
    /\ task'.push = task.push \/ ages'["heard"] = 0
    /\ \/ task'.phase = task.phase /\ task'.asked = task.asked
       \/ task'.phase = "push" /\ task'.asked = FALSE
       \/ task'.phase = "ready"
    /\ task'.at # "gone" => task.at # "gone" \/ task'.asked = FALSE \/ task'.phase = "ready"
    /\ task'.at \in {"stopping", "told"} =>
          task'.why # "none" \/ (task.at \in {"stopping", "told"} /\ task'.why = task.why)
    /\ task'.at \in {"turn", "wait"} => task.at \in {"turn", "wait"} /\ task'.why = task.why
    /\ task'.why = "peer-gone" =>
          task.why = "peer-gone" /\ (task'.push = task.push \/ task.at = "wait")

\* So the types stay, a waiting task is left alone, and nothing grows older.
LEMMA TaskMovesKeep == ASSUME Driver!DriverAssumption, DriverTypes, TaskMoves PROVE TaskKept
<1>1. /\ task \in TaskTypes /\ ages \in [Driver!Ages -> 0 .. Driver!Oldest]
      /\ task.push \in Pushes \cup {Driver!NoPush}
      /\ 0 \in 0 .. Driver!Oldest /\ "asked" \in Driver!Ages /\ "heard" \in Driver!Ages
      /\ "sent" \in Driver!Ages /\ Pushes \subseteq [ping : Nat, restart : Nat, disabled : BOOLEAN]
  BY DriverConstants DEF DriverTypes, Driver!TypeOK, Driver!Ages
<1>2. /\ HeardNow \in [Driver!Ages -> 0 .. Driver!Oldest]
      /\ HeardNow["asked"] = ages["asked"] /\ HeardNow["heard"] = 0
  BY <1>1 DEF HeardNow
<1>3. /\ [ages EXCEPT !["sent"] = 0] \in [Driver!Ages -> 0 .. Driver!Oldest]
      /\ [ages EXCEPT !["sent"] = 0]["asked"] = ages["asked"]
      /\ [ages EXCEPT !["sent"] = 0]["heard"] = ages["heard"]
  BY <1>1
<1>4. CASE task' = task /\ ages' = ages
  BY <1>1, <1>4 DEF TaskKept
<1>5. CASE /\ task.at = "wait" /\ task' = [task EXCEPT !.at = "turn"]
           /\ ages' \in {ages, HeardNow, [ages EXCEPT !["sent"] = 0]}
  <2>1. /\ task' \in TaskTypes /\ task'.push = task.push /\ task'.phase = task.phase
        /\ task'.asked = task.asked /\ task'.at = "turn" /\ task'.why = task.why
    BY <1>1, <1>5 DEF TaskTypes
  <2> QED BY <1>1, <1>2, <1>3, <1>5, <2>1 DEF TaskKept
<1>6. ASSUME NEW why \in {"session", "nobody"}, task.at = "wait",
             task' = [task EXCEPT !.at = "stopping", !.why = why], ages' \in {ages, HeardNow}
      PROVE  TaskKept
  <2>1. /\ task' \in TaskTypes /\ task'.push = task.push /\ task'.phase = task.phase
        /\ task'.asked = task.asked /\ task'.at = "stopping" /\ task'.why = why
    BY <1>1, <1>6 DEF TaskTypes
  <2>2. /\ ages' \in [Driver!Ages -> 0 .. Driver!Oldest] /\ ages'["asked"] = ages["asked"]
        /\ ages'["heard"] \in {0, ages["heard"]}
    BY <1>1, <1>2, <1>6
  <2>3. why # "none" /\ why # "peer-gone" /\ task.at # "gone"
    BY <1>6
  <2> QED BY <1>1, <2>1, <2>2, <2>3 DEF TaskKept
<1>7. CASE /\ task' = [task EXCEPT !.at = "turn", !.phase = "push", !.asked = FALSE]
           /\ ages' = HeardNow /\ task.at = "wait"
  <2>1. /\ task' \in TaskTypes /\ task'.push = task.push /\ task'.phase = "push"
        /\ task'.asked = FALSE /\ task'.at = "turn" /\ task'.why = task.why
    BY <1>1, <1>7 DEF TaskTypes
  <2> QED BY <1>1, <1>2, <1>7, <2>1 DEF TaskKept
<1>8. ASSUME NEW reply \in Pushes, ages' = HeardNow, task.at = "wait",
             task' = [task EXCEPT !.at = "turn", !.phase = "ready", !.push = reply]
      PROVE  TaskKept
  <2>1. reply \in [ping : Nat, restart : Nat, disabled : BOOLEAN]
    BY <1>1
  <2>2. /\ task' \in TaskTypes /\ task'.push = reply /\ task'.phase = "ready" /\ task'.at = "turn"
        /\ task'.why = task.why
    BY <1>1, <1>8, <2>1 DEF TaskTypes
  <2> QED BY <1>1, <1>2, <1>8, <2>2 DEF TaskKept
<1>9. CASE /\ ages' = ages /\ \/ task.at = "stopping" /\ task' = [task EXCEPT !.at = "told"]
                              \/ task.at = "told" /\ task' = [task EXCEPT !.at = "gone"]
                              \/ task' = Driver!Aborted
  <2>1. task' = task \/ task' = [task EXCEPT !.at = "gone"]
        \/ (task.at = "stopping" /\ task' = [task EXCEPT !.at = "told"])
    <3>1. [task EXCEPT !.at = task.at] = task
      BY <1>1 DEF TaskTypes
    <3>2. CASE task.at \in {"turn", "wait"}
      BY <1>9, <3>2 DEF Driver!Aborted
    <3>3. CASE task.at \notin {"turn", "wait"}
      BY <1>9, <3>1, <3>3 DEF Driver!Aborted
    <3> QED BY <3>2, <3>3
  <2>2. /\ task' \in TaskTypes /\ task'.push = task.push /\ task'.phase = task.phase
        /\ task'.asked = task.asked /\ task'.why = task.why
        /\ \/ task' = task
           \/ task'.at = "gone"
           \/ task.at = "stopping" /\ task'.at = "told"
    BY <1>1, <2>1 DEF TaskTypes
  <2> QED BY <1>1, <1>9, <2>2 DEF TaskKept
<1> QED BY <1>4, <1>5, <1>6, <1>7, <1>8, <1>9 DEF TaskMoves

\* No queue overflows.
QueueTypes == queues \in [Driver!Queues -> 0 .. Depth]

\* Every put finds room and every take something to take.
LEMMA DriverQueues == ASSUME Driver!DriverAssumption, Otherwise, DriverTypes PROVE QueueTypes'
<1>1. queues \in [Driver!Queues -> 0 .. Depth] /\ Depth \in Nat
      /\ Driver!Queues = {"fromCaller", "toCaller", "fromStack", "toStack"}
  BY DriverConstants DEF DriverTypes, Driver!TypeOK, Driver!Queues
<1>2. \/ queues' = queues
      \/ \E q \in Driver!Queues :
            \/ queues[q] < Depth /\ queues' = [queues EXCEPT ![q] = queues[q] + 1]
            \/ queues[q] > 0 /\ queues' = [queues EXCEPT ![q] = queues[q] - 1]
      \/ /\ queues["toCaller"] > 0
         /\ queues' = [queues EXCEPT !["toCaller"] = queues["toCaller"] - 1,
                                     !["toStack"] = IF queues["toStack"] < Depth
                                                    THEN queues["toStack"] + 1 ELSE queues["toStack"]]
  <2>1. CASE Driver!HearControl
    BY <1>1, <2>1 DEF Driver!HearControl
  <2>2. CASE Driver!HearPayload
    BY <1>1, <2>2 DEF Driver!HearPayload, Driver!Room, Driver!Put
  <2>3. CASE Driver!SocketFails
    BY <1>1, <2>3 DEF Driver!SocketFails
  <2>4. CASE Driver!TakeOutbound
    BY <1>1, <2>4 DEF Driver!TakeOutbound, Driver!Take
  <2>5. CASE Driver!Wakes
    BY <1>1, <2>5 DEF Driver!Wakes
  <2>6. CASE Driver!Stopping
    BY <1>1, <2>6 DEF Driver!Stopping
  <2>7. CASE Driver!Finishes
    BY <1>1, <2>7 DEF Driver!Finishes
  <2>8. CASE Driver!ConnectEnds
    BY <1>1, <2>8 DEF Driver!ConnectEnds
  <2>9. CASE Driver!ConnectDropped
    BY <1>1, <2>9 DEF Driver!ConnectDropped
  <2>10. CASE Driver!Share
    BY <1>1, <2>10 DEF Driver!Share
  <2>11. CASE Driver!StackSends
    BY <1>1, <2>11 DEF Driver!StackSends, Driver!Room, Driver!Put
  <2>12. CASE Driver!StackReads
    BY <1>1, <2>12 DEF Driver!StackReads, Driver!Take
  <2>13. CASE Driver!StacksGo
    BY <1>1, <2>13 DEF Driver!StacksGo
  <2>14. CASE Driver!PumpTakes
    BY <1>1, <2>14 DEF Driver!PumpTakes, Driver!Take, Driver!PumpEnds
  <2>15. CASE Driver!PumpSends
    BY <1>1, <2>15 DEF Driver!PumpSends, Driver!Room, Driver!Put, Driver!PumpEnds
  <2>16. CASE Driver!PumpReceives
    BY <1>1, <2>16 DEF Driver!PumpReceives, Driver!PumpEnds
  <2>17. CASE UNCHANGED Driver!vars
    BY <2>17 DEF Driver!vars
  <2> QED BY <2>1, <2>2, <2>3, <2>4, <2>5, <2>6, <2>7, <2>8, <2>9, <2>10, <2>11, <2>12, <2>13, <2>14, <2>15, <2>16, <2>17
          DEF Otherwise, Driver!Next, Driver!Loop, Driver!Pumps
<1> QED BY <1>1, <1>2 DEF QueueTypes

\* Who has gone, and what can be read of why.
Explained == EndsExplained /\ Driver!EndIsExplained

RestTypes ==
    /\ caller \in {"connecting", "up", "failed", "dropped", "sharing"}
    /\ ready \in {"none", "up", "failed", "gone"}
    /\ failure \in {"none", "peer-gone", "no-push-reply", "session", "nobody"}
    /\ pump \in {"none", "idle", "sending", "gone"} /\ stacks \in BOOLEAN

\* Whoever takes the task down either says why or is the one who would ask.
LEMMA DriverExplains ==
    ASSUME Otherwise, DriverTypes, TaskKept, Explained PROVE RestTypes' /\ Explained'
<1>1. /\ RestTypes /\ task \in TaskTypes
      /\ task.why \in {"none", "peer-gone", "no-push-reply", "session", "nobody"}
      /\ task.at \in {"turn", "wait", "stopping", "told", "gone"}
  BY DEF DriverTypes, Driver!TypeOK, RestTypes, TaskTypes
<1>2. /\ [task EXCEPT !.at = "gone"].at = "gone" /\ [task EXCEPT !.at = "told"].at = "told"
      /\ [task EXCEPT !.at = "turn"].at = "turn" /\ [task EXCEPT !.at = "told"].why = task.why
      /\ Driver!Aborted.at = (IF task.at \in {"turn", "wait"} THEN "gone" ELSE task.at)
      /\ Driver!Aborted.why = task.why
  BY <1>1 DEF TaskTypes, Driver!Aborted
<1>3. CASE Driver!HearControl
  BY <1>1, <1>2, <1>3, ZenonT(40) DEF Driver!HearControl, Driver!Again, Driver!Stops, TaskKept, RestTypes, Explained, EndsExplained, Driver!EndIsExplained, Driver!TaskHolds
<1>4. CASE Driver!HearPayload
  BY <1>1, <1>2, <1>4, ZenonT(40) DEF Driver!HearPayload, Driver!Again, Driver!Stops, TaskKept, RestTypes, Explained, EndsExplained, Driver!EndIsExplained, Driver!TaskHolds
<1>5. CASE Driver!SocketFails
  BY <1>1, <1>2, <1>5 DEF Driver!SocketFails, Driver!Stops, TaskKept, RestTypes, Explained, EndsExplained, Driver!EndIsExplained, Driver!TaskHolds
<1>6. CASE Driver!TakeOutbound
  BY <1>1, <1>2, <1>6, ZenonT(40) DEF Driver!TakeOutbound, Driver!Again, Driver!Stops, TaskKept, RestTypes, Explained, EndsExplained, Driver!EndIsExplained, Driver!TaskHolds
<1>7. CASE Driver!Wakes
  BY <1>1, <1>2, <1>7 DEF Driver!Wakes, Driver!Again, TaskKept, RestTypes, Explained, EndsExplained, Driver!EndIsExplained, Driver!TaskHolds
<1>8. CASE Driver!Stopping
  BY <1>1, <1>2, <1>8 DEF Driver!Stopping, TaskKept, RestTypes, Explained, EndsExplained, Driver!EndIsExplained, Driver!TaskHolds
<1>9. CASE Driver!Finishes
  BY <1>1, <1>2, <1>9 DEF Driver!Finishes, TaskKept, RestTypes, Explained, EndsExplained, Driver!EndIsExplained, Driver!TaskHolds
<1>10. CASE Driver!ConnectEnds
  BY <1>1, <1>2, <1>10 DEF Driver!ConnectEnds, TaskKept, RestTypes, Explained, EndsExplained, Driver!EndIsExplained, Driver!TaskHolds
<1>11. CASE Driver!ConnectDropped
  BY <1>1, <1>2, <1>11 DEF Driver!ConnectDropped, TaskKept, RestTypes, Explained, EndsExplained, Driver!EndIsExplained, Driver!TaskHolds
<1>12. CASE Driver!Share
  BY <1>1, <1>2, <1>12 DEF Driver!Share, TaskKept, RestTypes, Explained, EndsExplained, Driver!EndIsExplained, Driver!TaskHolds
<1>13. CASE Driver!StackSends
  BY <1>1, <1>2, <1>13 DEF Driver!StackSends, TaskKept, RestTypes, Explained, EndsExplained, Driver!EndIsExplained, Driver!TaskHolds
<1>14. CASE Driver!StackReads
  BY <1>1, <1>2, <1>14 DEF Driver!StackReads, TaskKept, RestTypes, Explained, EndsExplained, Driver!EndIsExplained, Driver!TaskHolds
<1>15. CASE Driver!StacksGo
  BY <1>1, <1>2, <1>15, ZenonT(40) DEF Driver!StacksGo, TaskKept, RestTypes, Explained, EndsExplained, Driver!EndIsExplained, Driver!TaskHolds
<1>16. CASE Driver!PumpTakes
  BY <1>1, <1>2, <1>16 DEF Driver!PumpTakes, Driver!PumpEnds, TaskKept, RestTypes, Explained, EndsExplained, Driver!EndIsExplained, Driver!TaskHolds
<1>17. CASE Driver!PumpSends
  BY <1>1, <1>2, <1>17 DEF Driver!PumpSends, Driver!PumpEnds, TaskKept, RestTypes, Explained, EndsExplained, Driver!EndIsExplained, Driver!TaskHolds
<1>18. CASE Driver!PumpReceives
  BY <1>1, <1>2, <1>18 DEF Driver!PumpReceives, Driver!PumpEnds, TaskKept, RestTypes, Explained, EndsExplained, Driver!EndIsExplained, Driver!TaskHolds
<1>19. CASE UNCHANGED Driver!vars
  BY <1>1, <1>19 DEF Driver!vars, RestTypes, Explained, EndsExplained, Driver!EndIsExplained, Driver!TaskHolds
<1> QED BY <1>3, <1>4, <1>5, <1>6, <1>7, <1>8, <1>9, <1>10, <1>11, <1>12, <1>13, <1>14, <1>15, <1>16, <1>17, <1>18, <1>19
        DEF Otherwise, Driver!Next, Driver!Loop, Driver!Pumps

\* The other actions keep the invariant.
LEMMA DriverOther ==
    ASSUME Driver!DriverAssumption, DriverInv, Otherwise PROVE DriverInv'
<1>1. DriverTypes /\ TaskKept
  <2>1. DriverTypes
    BY DEF DriverInv, DriverTypes
  <2> QED BY <2>1, DriverTaskMoves, TaskMovesKeep
<1>2. QueueTypes' /\ RestTypes' /\ Explained'
  BY <1>1, DriverQueues, DriverExplains DEF DriverInv, Explained
<1>3. Driver!TypeOK'
  BY <1>1, <1>2 DEF TaskKept, QueueTypes, RestTypes, Driver!TypeOK, TaskTypes
<1>4. /\ Driver!PeerTimeout \in Nat /\ Driver!PeerTimeout' \in Nat
      /\ task'.push = task.push => Driver!PeerTimeout' = Driver!PeerTimeout
      /\ ages["asked"] \in Nat /\ ages["heard"] \in Nat /\ task.push.ping \in Nat
      /\ ages["sent"] \in Nat /\ Cap \in Nat \ {0} /\ PushInterval \in Nat
  BY <1>1, DriverConstants
     DEF DriverTypes, TaskKept, TaskTypes, Driver!TypeOK, Driver!Ages, Driver!PeerTimeout
<1>5. SleepsInTime'
  BY <1>1, <1>4 DEF DriverInv, SleepsInTime, TaskKept, Driver!PeerTimeout
<1>6. Driver!OnTime'
  BY <1>1, <1>4 DEF DriverInv, TaskKept, Driver!OnTime
<1>7. Driver!SilenceNoticed'
  <2>1. SUFFICES ASSUME task'.at \in {"turn", "wait"}, Driver!PeerTimeout' # Driver!Never
                 PROVE  ages'["heard"] < Driver!PeerTimeout' + Cap
    BY DEF Driver!SilenceNoticed, Driver!Never
  <2>2. CASE ages'["heard"] = 0
    <3>1. \A n \in Nat, m \in Nat \ {0} : 0 < n + m
      OBVIOUS
    <3>2. 0 < Driver!PeerTimeout' + Cap
      BY <1>4, <3>1, Zenon
    <3> QED BY <2>2, <3>2
  <2>3. CASE ages'["heard"] # 0
    <3>1. ages'["heard"] = ages["heard"] /\ task'.push = task.push
      BY <1>1, <2>3 DEF TaskKept
    <3>2. task.at \in {"turn", "wait"}
      BY <1>1, <2>1 DEF TaskKept
    <3>3. Driver!PeerTimeout' = Driver!PeerTimeout
      BY <1>4, <3>1
    <3>4. ages["heard"] < Driver!PeerTimeout + Cap
      BY <2>1, <3>2, <3>3 DEF DriverInv, Driver!SilenceNoticed, Driver!Never
    <3> QED BY <3>1, <3>3, <3>4
  <2> QED BY <2>2, <2>3
<1>8. GoesForCause'
  BY <1>1 DEF DriverInv, TaskKept, GoesForCause, Driver!SilenceAllowed
<1> QED BY <1>1, <1>2, <1>3, <1>5, <1>6, <1>7, <1>8 DEF DriverInv, TaskKept, Explained

\* A turn: what is due is sent, so what is left is not due yet, and the sleep is no longer
\* than the time to the earliest of it.
LEMMA DriverTurn ==
    ASSUME Driver!DriverAssumption, DriverInv, NEW spoke \in BOOLEAN, NEW channel \in ChannelWakes,
           Driver!Turn(spoke, channel)
    PROVE  DriverInv'
<1>1. /\ UNCHANGED <<caller, failure, queues, pump, stacks>> /\ task.at = "turn"
  BY DEF Driver!Turn
<1>2. /\ task \in TaskTypes /\ ages \in [Driver!Ages -> 0 .. Driver!Oldest] /\ Driver!TypeOK
      /\ task.push.ping \in Nat /\ task.push.restart \in Nat /\ task.push.disabled \in BOOLEAN
      /\ \A a \in {"sent", "heard", "asked", "first", "waited"} : ages[a] \in 0 .. Driver!Oldest
      /\ Driver!Ages = {"sent", "heard", "asked", "first", "waited"} /\ channel \in Nat
  BY DriverConstants DEF DriverInv, Driver!TypeOK, TaskTypes, Driver!Ages
<1>3. CASE Driver!PushGivenUp(task, ages)
  <2>1. task' = [task EXCEPT !.at = "stopping", !.why = "no-push-reply"] /\ ages' = ages /\ ready' = ready
    BY <1>3 DEF Driver!Turn, Driver!Stops
  <2>2. /\ task'.at = "stopping" /\ task'.why = "no-push-reply" /\ task'.phase = task.phase
        /\ task'.push = task.push /\ task'.asked = task.asked /\ task'.wake = task.wake
        /\ task' \in TaskTypes
    BY <1>2, <2>1 DEF TaskTypes
  <2>3. Driver!TypeOK'
    BY <1>1, <1>2, <2>1, <2>2 DEF Driver!TypeOK
  <2>4. GoesForCause'
    BY <2>2 DEF GoesForCause, Driver!SilenceAllowed
  <2> QED BY <1>1, <2>1, <2>2, <2>3, <2>4
          DEF DriverInv, SleepsInTime, EndsExplained, Driver!OnTime, Driver!SilenceNoticed,
              Driver!EndIsExplained, Driver!TaskHolds
<1>4. CASE ~ Driver!PushGivenUp(task, ages)
  <2> DEFINE asks == Driver!PushDue(task, ages)
             sends == spoke \/ asks \/ Driver!KeepaliveDue(task, ages)
             now == [ages EXCEPT !["sent"] = IF sends THEN 0 ELSE ages["sent"],
                                 !["asked"] = IF asks THEN 0 ELSE ages["asked"],
                                 !["first"] = IF asks /\ ~ task.asked THEN 0 ELSE ages["first"]]
             t == [task EXCEPT !.asked = task.asked \/ asks]
  <2>1. /\ ages' = now
        /\ ready' = (IF t.phase = "ready" /\ ready = "none" THEN "up" ELSE ready)
        /\ IF Driver!PeerTimeout # Driver!Never /\ ages["heard"] >= Driver!PeerTimeout
           THEN task' = [t EXCEPT !.at = "stopping", !.why = "peer-gone"]
           ELSE task' = [t EXCEPT !.at = "wait", !.wake = Driver!Sleep(t, now, channel)]
    BY <1>4 DEF Driver!Turn
  <2>2. /\ now \in [Driver!Ages -> 0 .. Driver!Oldest]
        /\ now["sent"] = (IF sends THEN 0 ELSE ages["sent"])
        /\ now["asked"] = (IF asks THEN 0 ELSE ages["asked"])
        /\ now["first"] = (IF asks /\ ~ task.asked THEN 0 ELSE ages["first"])
        /\ now["heard"] = ages["heard"]
    <3>1. 0 \in 0 .. Driver!Oldest
      BY DriverConstants
    <3> HIDE DEF asks, sends
    <3> QED BY <1>2, <3>1
  <2>3. /\ t \in TaskTypes /\ t.phase = task.phase /\ t.push = task.push /\ t.at = "turn"
        /\ t.asked = (task.asked \/ asks)
    BY <1>1, <1>2 DEF TaskTypes
  <2>4. /\ t.phase = "push" => t.asked
        /\ t.phase = "push" => now["asked"] < PushInterval /\ now["first"] < PushTimeout
        /\ t.phase = "ready" /\ t.push.ping # Driver!Never => now["sent"] <= t.push.ping
    <3>1. task.phase = "push" => asks \/ (task.asked /\ ages["asked"] < PushInterval)
      BY <1>2, DriverConstants DEF Driver!PushDue, TaskTypes
    <3>2. task.phase = "push" /\ task.asked => ages["first"] < PushTimeout
      BY <1>2, <1>4, DriverConstants DEF Driver!PushGivenUp
    <3>3. task.phase = "ready" /\ task.push.ping # Driver!Never
             => sends \/ ages["sent"] <= task.push.ping
      BY <1>2, DriverConstants DEF Driver!KeepaliveDue
    <3>4. task.asked \in BOOLEAN /\ (sends => now["sent"] = 0) /\ (asks => now["asked"] = 0)
      BY <1>2, <2>2 DEF TaskTypes
    <3>5. task.phase = "push" => now["first"] < PushTimeout
      BY <2>2, <3>1, <3>2, DriverConstants
    <3>6. task.phase = "push" => now["asked"] < PushInterval
      BY <2>2, <3>1, DriverConstants
    <3>7. task.phase = "push" => t.asked
      BY <2>3, <3>1
    <3>8. task.phase = "ready" /\ task.push.ping # Driver!Never => now["sent"] <= task.push.ping
      BY <1>2, <2>2, <3>3, <3>4
    <3> HIDE DEF asks, sends, now, t
    <3> QED BY <2>3, <3>5, <3>6, <3>7, <3>8
  <2>5. /\ Driver!Sleep(t, now, channel) \in 0 .. Cap
        /\ t.phase = "ready" /\ t.push.ping # Driver!Never
              => now["sent"] + Driver!Sleep(t, now, channel) <= t.push.ping
        /\ t.phase = "push" => now["asked"] + Driver!Sleep(t, now, channel) <= PushInterval
    <3>1. /\ now["sent"] \in Nat /\ now["asked"] \in Nat /\ now["first"] \in Nat
          /\ t.push.ping \in Nat
      BY <1>2, <2>2, <2>3, DriverConstants DEF Driver!Ages
    <3> HIDE DEF now, t
    <3> QED BY <1>2, <2>4, <3>1, SleepBounded
  <2>6. /\ ages'["sent"] = now["sent"] /\ ages'["asked"] = now["asked"]
        /\ ages'["heard"] = ages["heard"] /\ ages' \in [Driver!Ages -> 0 .. Driver!Oldest]
        /\ ready' \in {"none", "up", "failed", "gone"}
    BY <1>2, <2>1, <2>2 DEF Driver!TypeOK
  <2>7. /\ now["sent"] \in Nat /\ now["asked"] \in Nat /\ ages["heard"] \in Nat
        /\ Driver!PeerTimeout \in Nat /\ Cap \in Nat \ {0} /\ PushInterval \in Nat
    BY <1>2, <2>2, DriverConstants DEF Driver!Ages, Driver!PeerTimeout
  <2> HIDE DEF now
  <2>8. CASE Driver!PeerTimeout # Driver!Never /\ ages["heard"] >= Driver!PeerTimeout
    <3>1. /\ task'.at = "stopping" /\ task'.why = "peer-gone" /\ task'.phase = task.phase
          /\ task'.push = task.push /\ task'.asked = t.asked /\ task'.wake = task.wake
          /\ task' \in TaskTypes
      BY <2>1, <2>3, <2>8, ZenonT(40) DEF TaskTypes
    <3> HIDE DEF t
    <3>2. Driver!TypeOK'
      BY <1>1, <1>2, <2>6, <3>1 DEF Driver!TypeOK
    <3>3. SleepsInTime' /\ Driver!SilenceNoticed'
      BY <3>1 DEF SleepsInTime, Driver!SilenceNoticed
    <3>4. Driver!OnTime'
      BY <2>3, <2>4, <2>6, <2>7, <3>1 DEF Driver!OnTime
    <3>5. EndsExplained' /\ Driver!EndIsExplained'
      BY <1>1, <3>1 DEF DriverInv, EndsExplained, Driver!EndIsExplained, Driver!TaskHolds
    <3>6. GoesForCause'
      <4>1. ~ task.push.disabled
        BY <1>2, <2>8 DEF Driver!PeerTimeout
      <4> QED BY <3>1, <4>1 DEF GoesForCause, Driver!SilenceAllowed
    <3> QED BY <3>1, <3>2, <3>3, <3>4, <3>5, <3>6 DEF DriverInv
  <2>9. CASE ~ (Driver!PeerTimeout # Driver!Never /\ ages["heard"] >= Driver!PeerTimeout)
    <3> DEFINE sleep == Driver!Sleep(t, now, channel)
    <3>1. /\ task'.at = "wait" /\ task'.why = t.why /\ task'.phase = task.phase
          /\ task'.push = task.push /\ task'.asked = t.asked /\ task'.wake = sleep
          /\ task' \in TaskTypes
      <4> HIDE DEF sleep, t
      <4>1. task' = [t EXCEPT !.at = "wait", !.wake = sleep]
        BY <2>1, <2>9 DEF sleep
      <4>2. sleep \in 0 .. Cap
        BY <2>5 DEF sleep
      <4> QED BY <2>3, <4>1, <4>2 DEF TaskTypes
    <3>2. sleep \in 0 .. Cap /\ sleep \in Nat
      BY <2>5, <2>7
    <3>3. Driver!TypeOK'
      <4> HIDE DEF sleep, t
      <4> QED BY <1>1, <1>2, <2>6, <3>1, <3>2 DEF Driver!TypeOK
    <3>4. /\ task.phase = "ready" /\ task.push.ping # Driver!Never
                => now["sent"] + sleep <= task.push.ping
          /\ task.phase = "push" => now["asked"] + sleep <= PushInterval
      BY <2>3, <2>5
    <3> HIDE DEF sleep, t
    <3>5. Driver!PeerTimeout' = Driver!PeerTimeout
      BY <3>1 DEF Driver!PeerTimeout
    <3>6. SleepsInTime'
      BY <1>2, <2>6, <2>7, <2>9, <3>1, <3>2, <3>4, <3>5 DEF SleepsInTime, Driver!Never
    <3>7. Driver!SilenceNoticed'
      BY <2>6, <2>7, <2>9, <3>5 DEF Driver!SilenceNoticed, Driver!Never
    <3>8. Driver!OnTime'
      BY <1>2, <2>6, <2>7, <3>1, <3>2, <3>4 DEF Driver!OnTime, Driver!Never
    <3>9. EndsExplained' /\ Driver!EndIsExplained'
      BY <1>1, <3>1 DEF DriverInv, EndsExplained, Driver!EndIsExplained, Driver!TaskHolds
    <3>10. GoesForCause'
      <4>1. t.why = task.why /\ task.why = "none"
        BY <1>1, <1>2 DEF DriverInv, GoesForCause, TaskTypes, t
      <4> QED BY <3>1, <4>1 DEF GoesForCause, Driver!SilenceAllowed
    <3> QED BY <3>1, <3>3, <3>6, <3>7, <3>8, <3>9, <3>10 DEF DriverInv
  <2> QED BY <2>8, <2>9
<1> QED BY <1>3, <1>4

\* A tick: everything counted is one tick older, and what is left to sleep one shorter.
LEMMA DriverTick ==
    ASSUME Driver!DriverAssumption, DriverInv, Driver!Tick PROVE DriverInv'
<1>1. /\ UNCHANGED <<caller, ready, failure, queues, pump, stacks>>
      /\ task.at = "wait" => task.wake > 0
      /\ ages' = [a \in Driver!Ages |-> IF Driver!Counts(a) /\ ages[a] < Driver!Oldest
                                        THEN ages[a] + 1 ELSE ages[a]]
      /\ task' = [task EXCEPT !.wake = IF task.wake > 0 THEN task.wake - 1 ELSE 0]
      /\ task.at \in {"wait", "gone"}
  BY DEF Driver!Tick, Driver!Quiet
<1>2. /\ task \in TaskTypes /\ task.push \in [ping : Nat, restart : Nat, disabled : BOOLEAN] /\ Driver!TypeOK
      /\ task.wake \in 0 .. Cap /\ task.wake \in Nat /\ ages \in [Driver!Ages -> 0 .. Driver!Oldest]
      /\ \A a \in Driver!Ages : ages[a] \in Nat
      /\ {"sent", "heard", "asked"} \subseteq Driver!Ages
      /\ Cap \in Nat \ {0} /\ PushInterval \in Nat /\ Driver!Oldest \in Nat
      /\ Driver!PeerTimeout \in Nat
  BY DriverConstants DEF DriverInv, TaskTypes, Driver!TypeOK, Driver!Ages, Driver!PeerTimeout
<1>3. ages' \in [Driver!Ages -> 0 .. Driver!Oldest]
      /\ \A a \in Driver!Ages : ages'[a] \in Nat /\ ages'[a] <= ages[a] + 1
  <2> HIDE DEF Driver!Counts
  <2>1. ASSUME NEW a \in Driver!Ages
        PROVE  ages'[a] \in 0 .. Driver!Oldest /\ ages'[a] <= ages[a] + 1
    BY <1>1, <1>2
  <2> QED BY <1>1, <1>2, <2>1
<1>4. /\ task' \in TaskTypes /\ task'.at = task.at /\ task'.phase = task.phase
      /\ task'.push = task.push /\ task'.asked = task.asked /\ task'.why = task.why
      /\ task'.wake \in 0 .. Cap /\ task.at = "wait" => task'.wake = task.wake - 1
  <2>1. (IF task.wake > 0 THEN task.wake - 1 ELSE 0) \in 0 .. Cap
    BY <1>2
  <2> QED BY <1>1, <1>2, <2>1 DEF TaskTypes
<1>5. Driver!TypeOK'
  BY <1>1, <1>2, <1>3, <1>4 DEF Driver!TypeOK
<1>6. Driver!PeerTimeout' = Driver!PeerTimeout
  BY <1>4 DEF Driver!PeerTimeout
<1>7. SleepsInTime'
  BY <1>1, <1>2, <1>3, <1>4, <1>6 DEF DriverInv, SleepsInTime, Driver!Never
<1>8. Driver!OnTime' /\ Driver!SilenceNoticed'
  <2>1. CASE task.at = "wait"
    BY <1>1, <1>2, <1>3, <1>4, <1>6, <2>1
       DEF DriverInv, SleepsInTime, Driver!OnTime, Driver!SilenceNoticed, Driver!Never
  <2>2. CASE task.at = "gone"
    BY <1>4, <2>2 DEF Driver!OnTime, Driver!SilenceNoticed
  <2> QED BY <1>1, <2>1, <2>2
<1>9. EndsExplained' /\ Driver!EndIsExplained'
  BY <1>1, <1>4 DEF DriverInv, EndsExplained, Driver!EndIsExplained, Driver!TaskHolds
<1>10. GoesForCause'
  BY <1>4 DEF DriverInv, GoesForCause, Driver!SilenceAllowed
<1> QED BY <1>4, <1>5, <1>7, <1>8, <1>9, <1>10 DEF DriverInv

\* Every action keeps it.
LEMMA DriverStep ==
    ASSUME Driver!DriverAssumption, DriverInv, [Driver!Next]_(Driver!vars) PROVE DriverInv'
<1>1. CASE Driver!Tick
  BY <1>1, DriverTick
<1>2. CASE \E spoke \in BOOLEAN, channel \in ChannelWakes : Driver!Turn(spoke, channel)
  BY <1>2, DriverTurn
<1> QED BY <1>1, <1>2, DriverOther DEF Otherwise

\* The loop never sleeps past a keepalive or a push request that is due, gives a silent
\* peer up one sleep after its limit at the latest but none that asked for no limit, and
\* leaves a reason behind for whoever finds the tunnel gone.
THEOREM DriverSound == SuiteSpec => []DriverOnTime
<1>1. SuiteInit => (part = "driver" => DriverInv)
  <2>1. SUFFICES ASSUME SuiteInit, part = "driver" PROVE DriverInv
    OBVIOUS
  <2>2. Driver!Init
    BY <2>1 DEF SuiteInit
  <2> QED BY <2>2, DriverInit, DriverOk
<1>2. (part = "driver" => DriverInv) /\ [SuiteNext]_suiteVars => (part = "driver" => DriverInv)'
  <2>1. SUFFICES ASSUME part = "driver" => DriverInv, [SuiteNext]_suiteVars, part' = "driver"
                 PROVE  DriverInv'
    OBVIOUS
  <2>2. part' = part
    BY <2>1 DEF SuiteNext, suiteVars, OnlyReliable, OnlyKeys, OnlyDriver, OnlyStream, OnlyMux,
                OnlyReplay
  <2>3. [Driver!Next]_(Driver!vars)
    BY <2>1, <2>2 DEF SuiteNext, suiteVars, OnlyReliable, OnlyKeys, OnlyDriver, OnlyStream,
                      OnlyMux, OnlyReplay, Driver!vars
  <2> QED BY <2>1, <2>2, <2>3, DriverStep, DriverOk
<1>3. (part = "driver" => DriverInv) => DriverOnTime
  BY DEF DriverInv, GoesForCause, DriverOnTime
<1> QED BY <1>1, <1>2, <1>3, PTL DEF SuiteSpec

-----------------------------------------------------------------------------
(* TunnelMux: any number of ports and connections.  A claim takes the      *)
(* first port from the cursor on that nobody listens at, so the ports      *)
(* between two claims were claimed in between or belong to connections     *)
(* that kept theirs, and of those there are fewer than there are           *)
(* connections.  With Lived + Remembered + Cardinality(Conns) ports the    *)
(* cursor therefore does not come round to any of the last Lived +         *)
(* Remembered claims (ClaimsSpread), and a port the far end may still have *)
(* a connection for is one of those, unless the connection was long-lived  *)
(* (LeftIsRecent).                                                         *)

\* From a port round to another, and the port after one.
Ahead(a, b) == IF b >= a THEN b - a ELSE b + Ports - a
After(a) == IF a + 1 = Ports THEN 0 ELSE a + 1

\* The claims back to which the ports are told apart.
Keeps == Lived + Remembered

MuxTypes ==
    /\ cursor \in Mux!AllPorts /\ Ports \in Nat \ {0}
    /\ routes \in [Mux!AllPorts -> Conns \cup {Mux!Nobody}]
    /\ conn \in [Conns -> {"idle", "checked", "connecting", "up", "failing", "told", "gone"}]
    /\ port \in [Conns -> Mux!AllPorts]
    /\ inbox \in [Conns -> Seq({"own", "another's"})] /\ \A c \in Conns : Len(inbox[c]) <= QueueDepth
    /\ link \in {"up", "failed", "ended"}
    /\ wire \subseteq Conns
    /\ recent \in Seq(Mux!AllPorts) /\ Len(recent) <= Keeps + 1
    /\ left \in [Mux!AllPorts -> 0 .. Remembered] /\ long \subseteq Mux!AllPorts

\* A connection that has no port yet.
Early(c) == conn[c] \in {"idle", "checked"}

\* A route is to a connection that had the port, every connection that listens has its own
\* while the link carries, and none that failed is about to remove another's.  After the
\* link's end a route is one claimed too late, and nothing comes by it.
RoutesMatch ==
    /\ \A p \in Mux!AllPorts, c \in Conns : routes[p] = c => port[c] = p /\ ~ Early(c)
    /\ \A c \in Conns : Early(c) => inbox[c] = <<>>
    /\ link # "ended" =>
          /\ \A c \in Conns : Mux!Listens(c) => routes[port[c]] = c
          /\ \A c, d \in Conns : conn[c] = "failing" /\ Mux!Listens(d) => port[d] # port[c]
    /\ link = "ended" =>
          /\ wire = {}
          /\ \A p \in Mux!AllPorts, c \in Conns : routes[p] = c /\ Mux!Listens(c) =>
                conn[c] = "connecting" /\ inbox[c] = <<>>

\* Nobody listens at the port of a packet that is on its way but whom it is for, and what
\* was handed to a connection was for it, unless who had the port before was long-lived.
PacketsMatch ==
    /\ \A c \in wire : ~ Early(c) /\ \A d \in Conns :
          Mux!Listens(d) /\ d # c /\ port[d] = port[c] => port[c] \in long
    /\ link # "ended" => \A c \in Conns : Mux!Listens(c) /\ port[c] \notin long =>
          \A i \in 1 .. Len(inbox[c]) : inbox[c][i] = "own"
    /\ \A c \in Conns : conn[c] = "told" => link = "ended"

\* The far end has nothing for the port of a connection that listens; and a port it may
\* still have something for was claimed a while ago at most, the longer the less is left.
LeftIsRecent ==
    /\ link # "ended" => \A c \in Conns : Mux!Listens(c) /\ port[c] \notin long => left[port[c]] = 0
    /\ \A p \in Mux!AllPorts : left[p] > 0 /\ p \notin long =>
          \E i \in 1 .. Len(recent) : recent[i] = p /\ Len(recent) - i <= Keeps - left[p]

\* How far it is from a port claimed lately to the latest, and the connections whose ports
\* lie on the way.
Reach(i) == Ahead(recent[i], recent[Len(recent)])
Passed(i) == {c \in Conns : Ahead(recent[i], port[c]) \in 1 .. Reach(i)}

\* The cursor is past the latest claim.  On the way there from an earlier one lie the ports
\* claimed since and those of connections that kept theirs, but never of all: whoever claimed
\* first after it had let go of his own.
ClaimsSpread ==
    /\ Len(recent) > 0 => cursor = After(recent[Len(recent)])
    /\ \A i, k \in 1 .. Len(recent) : i # k => recent[i] # recent[k]
    /\ \A i \in 1 .. Len(recent) - 1 :
          Reach(i) + 1 <= Len(recent) - i + Cardinality(Passed(i))

MuxInv == MuxTypes /\ RoutesMatch /\ PacketsMatch /\ ClaimsSpread /\ LeftIsRecent

\* What the assumption says, constant by constant, with the library's count.
LEMMA MuxConstants ==
    ASSUME Mux!MuxAssumption
    PROVE  /\ IsFiniteSet(Conns) /\ Mux!Nobody \notin Conns /\ Cardinality(Conns) \in Nat
           /\ Ports \in Nat /\ Lived \in Nat /\ Remembered \in Nat /\ Keeps \in Nat
           /\ Keeps = Lived + Remembered /\ QueueDepth \in Nat \ {0}
           /\ Keeps + Cardinality(Conns) <= Ports
<1>1. Mux!Cardinality(Conns) = Cardinality(Conns)
  BY Zenon DEF Mux!Cardinality, Cardinality
<1>2. IsFiniteSet(Conns)
  BY Zenon DEF Mux!MuxAssumption, Mux!IsFiniteSet, IsFiniteSet
<1>3. Cardinality(Conns) \in Nat
  BY <1>2, FS_CardinalityType
<1> QED BY <1>1, <1>2, <1>3 DEF Mux!MuxAssumption, Keeps

\* The code counts round the ports by remainders.
LEMMA MuxCounts ==
    ASSUME Mux!MuxAssumption, Ports \in Nat \ {0}, cursor \in Mux!AllPorts,
           NEW p \in Mux!AllPorts
    PROVE  /\ Mux!Distance(p) = Ahead(cursor, p) /\ Mux!Distance(p) \in 0 .. Ports - 1
           /\ (p + 1) % Ports = After(p) /\ After(p) \in Mux!AllPorts
<1>1. /\ cursor \in Nat /\ p \in Nat /\ cursor < Ports /\ p < Ports
  BY DEF Mux!AllPorts
<1>2. \A a \in Nat : a < Ports => a % Ports = a /\ (a + Ports) % Ports = a
  OBVIOUS
<1>3. Ports % Ports = 0
  BY <1>1, <1>2
<1>4. Mux!Distance(p) = Ahead(cursor, p)
  <2>1. CASE p >= cursor
    <3>1. p + Ports - cursor = (p - cursor) + Ports /\ p - cursor \in Nat /\ p - cursor < Ports
      BY <1>1, <2>1
    <3>2. ((p - cursor) + Ports) % Ports = p - cursor
      BY <1>2, <3>1
    <3> QED BY <2>1, <3>1, <3>2 DEF Mux!Distance, Ahead
  <2>2. CASE p < cursor
    <3>1. p + Ports - cursor \in Nat /\ p + Ports - cursor < Ports
      BY <1>1, <2>2
    <3>2. (p + Ports - cursor) % Ports = p + Ports - cursor
      BY <1>2, <3>1
    <3>3. ~(p >= cursor)
      BY <1>1, <2>2
    <3> QED BY <3>2, <3>3 DEF Mux!Distance, Ahead
  <2> QED BY <1>1, <2>1, <2>2
<1>5. (p + 1) % Ports = After(p)
  <2>1. CASE p + 1 = Ports
    BY <1>3, <2>1 DEF After
  <2>2. CASE p + 1 # Ports
    BY <1>1, <1>2, <2>2 DEF After
  <2> QED BY <2>1, <2>2
<1>6. Ahead(cursor, p) \in 0 .. Ports - 1 /\ After(p) \in Mux!AllPorts
  BY <1>1 DEF Ahead, After, Mux!AllPorts
<1> QED BY <1>4, <1>5, <1>6

\* How far it is from a port to another: on from there, and from the next port.
LEMMA AheadIs ==
    ASSUME Ports \in Nat \ {0}, NEW a \in Mux!AllPorts, NEW b \in Mux!AllPorts
    PROVE  Ahead(a, b) \in 0 .. Ports - 1 /\ (Ahead(a, b) = 0 <=> a = b)
BY DEF Ahead, Mux!AllPorts

\* From one port to another by way of a third, unless that is further than once round.
LEMMA AheadAdds ==
    ASSUME Ports \in Nat \ {0}, NEW a \in Mux!AllPorts, NEW b \in Mux!AllPorts,
           NEW q \in Mux!AllPorts, Ahead(a, b) + Ahead(b, q) < Ports
    PROVE  Ahead(a, q) = Ahead(a, b) + Ahead(b, q)
BY DEF Ahead, Mux!AllPorts

\* From the next port it is one less, or nearly once round.
LEMMA AheadAfter ==
    ASSUME Ports \in Nat \ {0}, NEW b \in Mux!AllPorts, NEW q \in Mux!AllPorts
    PROVE  IF b = q THEN Ahead(After(b), q) = Ports - 1
           ELSE Ahead(After(b), q) = Ahead(b, q) - 1
BY DEF Ahead, After, Mux!AllPorts

\* There is a port at every distance.
LEMMA AheadTo ==
    ASSUME Ports \in Nat \ {0}, NEW a \in Mux!AllPorts, NEW n \in 0 .. Ports - 1
    PROVE  \E q \in Mux!AllPorts : Ahead(a, q) = n
<1>1. CASE a + n < Ports
  <2>1. a + n \in Mux!AllPorts /\ Ahead(a, a + n) = n
    BY <1>1 DEF Ahead, Mux!AllPorts
  <2> QED BY <2>1
<1>2. CASE ~(a + n < Ports)
  <2>1. a + n - Ports \in Mux!AllPorts /\ Ahead(a, a + n - Ports) = n
    BY <1>2 DEF Ahead, Mux!AllPorts
  <2> QED BY <2>1
<1> QED BY <1>1, <1>2

\* The connections whose ports are the first n from the cursor on.
Holders(n) == {c \in Conns : Mux!Listens(c) /\ Ahead(cursor, port[c]) < n}

\* Ports that are not free are held by connections that listen, one each.
LEMMA MuxHeld ==
    ASSUME Mux!MuxAssumption, MuxTypes, RoutesMatch, NEW n \in 0 .. Ports,
           \A q \in Mux!AllPorts : Ahead(cursor, q) < n => Mux!Retained[q] # Mux!Nobody
    PROVE  IsFiniteSet(Holders(n)) /\ n <= Cardinality(Holders(n))
<1>1. IsFiniteSet(Holders(n))
  <2>1. Holders(n) \in SUBSET Conns
    BY DEF Holders
  <2> QED BY <2>1, MuxConstants, FS_Subset
<1> DEFINE f == [c \in Holders(n) |-> Ahead(cursor, port[c])]
<1>2. f \in Surjection(Holders(n), 0 .. n - 1)
  <2>1. \A c \in Holders(n) : Ahead(cursor, port[c]) \in 0 .. n - 1
    BY AheadIs DEF Holders, MuxTypes
  <2>2. ASSUME NEW k \in 0 .. n - 1 PROVE \E c \in Holders(n) : f[c] = k
    <3>1. PICK q \in Mux!AllPorts : Ahead(cursor, q) = k
      BY AheadTo DEF MuxTypes
    <3>2. Mux!Retained[q] # Mux!Nobody
      BY <3>1
    <3>3. routes[q] \in Conns /\ Mux!Listens(routes[q])
      BY <3>2 DEF Mux!Retained, MuxTypes
    <3>4. port[routes[q]] = q
      BY <3>3 DEF RoutesMatch
    <3> QED BY <3>1, <3>3, <3>4 DEF Holders
  <2>3. f \in [Holders(n) -> 0 .. n - 1]
    BY <2>1
  <2> QED BY <2>2, <2>3 DEF Surjection
<1>3. Cardinality(0 .. n - 1) <= Cardinality(Holders(n))
  BY <1>1, <1>2, FS_Surjection
<1>4. Cardinality(0 .. n - 1) = n
  BY FS_Interval DEF MuxTypes
<1> QED BY <1>1, <1>3, <1>4

\* Some port is free, as long as a connection may be opened.
LEMMA MuxFree ==
    ASSUME Mux!MuxAssumption, MuxTypes, RoutesMatch, NEW c \in Conns, conn[c] = "checked"
    PROVE  \E p \in Mux!AllPorts : Mux!Retained[p] = Mux!Nobody
<1>1. SUFFICES ASSUME \A p \in Mux!AllPorts : Mux!Retained[p] # Mux!Nobody PROVE FALSE
  OBVIOUS
<1>2. IsFiniteSet(Holders(Ports)) /\ Ports <= Cardinality(Holders(Ports))
  BY <1>1, MuxHeld DEF MuxTypes
<1>3. Holders(Ports) \in SUBSET (Conns \ {c})
  BY DEF Holders, Mux!Listens
<1>4. /\ IsFiniteSet(Conns \ {c}) /\ Cardinality(Conns \ {c}) = Cardinality(Conns) - 1
      /\ Cardinality(Conns) \in Nat
  BY MuxConstants, FS_RemoveElement, FS_CardinalityType
<1>5. Cardinality(Holders(Ports)) <= Cardinality(Conns) - 1 /\ Cardinality(Holders(Ports)) \in Nat
  BY <1>3, <1>4, FS_Subset, FS_CardinalityType
<1>6. Keeps + Cardinality(Conns) <= Ports /\ Keeps \in Nat /\ Ports \in Nat
  BY MuxConstants
<1> QED BY <1>2, <1>4, <1>5, <1>6

\* The port claimed is free, and none before it is.
LEMMA MuxClaimed ==
    ASSUME Mux!MuxAssumption, MuxTypes, RoutesMatch, NEW c \in Conns, conn[c] = "checked"
    PROVE  /\ Mux!Claimed \in Mux!AllPorts /\ Mux!Retained[Mux!Claimed] = Mux!Nobody
           /\ \A q \in Mux!AllPorts :
                 Ahead(cursor, q) < Ahead(cursor, Mux!Claimed) => Mux!Retained[q] # Mux!Nobody
<1> DEFINE Free == {p \in Mux!AllPorts : Mux!Retained[p] = Mux!Nobody}
           far == {Ahead(cursor, p) : p \in Free}
<1>1. \A p \in Mux!AllPorts : Mux!Distance(p) = Ahead(cursor, p) /\ Ahead(cursor, p) \in Nat
  BY MuxCounts DEF MuxTypes
<1>2. \E p \in Free : \A q \in Free : Ahead(cursor, p) <= Ahead(cursor, q)
  <2>1. far # {} /\ far \in SUBSET Nat
    BY <1>1, MuxFree
  <2>2. PICK n \in far : \A k \in far : <<k, n>> \notin OpToRel(<, Nat)
    BY <2>1, NatLessThanWellFounded, WFMin
  <2>3. \A k \in far : n <= k
    <3>1. SUFFICES ASSUME NEW k \in far PROVE n <= k
      OBVIOUS
    <3>2. k \in Nat /\ n \in Nat
      BY <2>1
    <3>3. <<k, n>> \notin {ss \in Nat \X Nat : ss[1] < ss[2]}
      BY <2>2, Zenon DEF OpToRel
    <3>4. ~(k < n)
      BY <3>2, <3>3
    <3> QED BY <3>2, <3>4
  <2> QED BY <2>3
<1>3. \E p \in Mux!AllPorts :
         Mux!Retained[p] = Mux!Nobody /\ \A q \in Mux!AllPorts :
             Mux!Retained[q] = Mux!Nobody => Mux!Distance(p) <= Mux!Distance(q)
  BY <1>1, <1>2
<1> HIDE DEF Free, far
<1>4. /\ Mux!FirstFree \in Mux!AllPorts /\ Mux!Retained[Mux!FirstFree] = Mux!Nobody
      /\ \A q \in Mux!AllPorts :
            Mux!Retained[q] = Mux!Nobody => Mux!Distance(Mux!FirstFree) <= Mux!Distance(q)
  BY <1>3 DEF Mux!FirstFree
<1> QED BY <1>1, <1>4 DEF Mux!Claimed

\* What lies ahead of the cursor lies beyond the latest claim, as seen from an earlier one.
LEMMA MuxOn ==
    ASSUME MuxTypes, ClaimsSpread, NEW i \in 1 .. Len(recent), NEW q \in Mux!AllPorts,
           Ahead(cursor, q) < Ports - 1 - Reach(i)
    PROVE  /\ Reach(i) \in 0 .. Ports - 1 /\ Ahead(cursor, q) \in 0 .. Ports - 1
           /\ Ahead(recent[i], q) = Reach(i) + 1 + Ahead(cursor, q)
           /\ Ahead(recent[i], q) > Reach(i) /\ q # recent[i]
<1> DEFINE last == recent[Len(recent)]
<1>1. /\ Ports \in Nat \ {0} /\ recent[i] \in Mux!AllPorts /\ last \in Mux!AllPorts
      /\ cursor = After(last) /\ cursor \in Mux!AllPorts
  BY DEF MuxTypes, ClaimsSpread
<1>2. Reach(i) = Ahead(recent[i], last)
  BY DEF Reach
<1> HIDE DEF last
<1>3. /\ Ahead(recent[i], last) \in 0 .. Ports - 1 /\ Ahead(cursor, q) \in 0 .. Ports - 1
      /\ Ahead(last, q) \in 0 .. Ports - 1 /\ Ahead(recent[i], recent[i]) = 0
  BY <1>1, AheadIs
<1>4. IF last = q THEN Ahead(cursor, q) = Ports - 1 ELSE Ahead(cursor, q) = Ahead(last, q) - 1
  BY <1>1, AheadAfter
<1>5. Ahead(last, q) = Ahead(cursor, q) + 1
  BY <1>1, <1>2, <1>3, <1>4
<1>6. Ahead(recent[i], q) = Ahead(recent[i], last) + Ahead(last, q)
  BY <1>1, <1>2, <1>3, <1>5, AheadAdds
<1>7. Ahead(recent[i], q) = Reach(i) + 1 + Ahead(cursor, q) /\ Ahead(recent[i], q) > 0
  BY <1>2, <1>3, <1>5, <1>6
<1> QED BY <1>2, <1>3, <1>7

\* A claim does not come round to one that still counts: to one of the last that matter.
LEMMA MuxShort ==
    ASSUME Mux!MuxAssumption, MuxTypes, RoutesMatch, ClaimsSpread,
           NEW c \in Conns, conn[c] = "checked", NEW i \in 1 .. Len(recent),
           Len(recent) - i < Keeps
    PROVE  Ahead(cursor, Mux!Claimed) < Ports - 1 - Reach(i)
<1> DEFINE last == recent[Len(recent)]
           gap == Ports - 1 - Reach(i)
           claim == Ahead(cursor, Mux!Claimed)
<1>1. SUFFICES ASSUME ~(Ahead(cursor, Mux!Claimed) < gap) PROVE FALSE
  OBVIOUS
<1>2. /\ Ports \in Nat \ {0} /\ Len(recent) \in Nat /\ i \in 1 .. Len(recent)
      /\ recent[i] \in Mux!AllPorts /\ last \in Mux!AllPorts /\ cursor = After(last)
      /\ cursor \in Mux!AllPorts /\ port \in [Conns -> Mux!AllPorts] /\ Len(recent) <= Keeps + 1
  BY DEF MuxTypes, ClaimsSpread
<1>r. Reach(i) = Ahead(recent[i], last)
  BY DEF Reach
<1> HIDE DEF last
<1>3. Reach(i) \in 0 .. Ports - 1 /\ gap \in 0 .. Ports - 1
  <2>1. Ahead(recent[i], last) \in 0 .. Ports - 1
    BY <1>2, AheadIs
  <2> QED BY <1>2, <1>r, <2>1
<1>4. claim \in 0 .. Ports - 1 /\ gap <= claim
  <2>1. Mux!Claimed \in Mux!AllPorts
    BY MuxClaimed
  <2> QED BY <1>1, <1>2, <1>3, <2>1, AheadIs, SMTT(30)
<1>5. IsFiniteSet(Holders(gap)) /\ gap <= Cardinality(Holders(gap))
  <2>1. \A q \in Mux!AllPorts : Ahead(cursor, q) < gap => Ahead(cursor, q) < Ahead(cursor, Mux!Claimed)
    <3>1. \A q \in Mux!AllPorts : Ahead(cursor, q) \in 0 .. Ports - 1
      BY <1>2, AheadIs
    <3> HIDE DEF gap, claim
    <3>2. \A k \in 0 .. Ports - 1 : k < gap => k < claim
      BY <1>2, <1>3, <1>4
    <3> QED BY <3>1, <3>2 DEF claim
  <2>2. \A q \in Mux!AllPorts : Ahead(cursor, q) < gap => Mux!Retained[q] # Mux!Nobody
    BY <2>1, MuxClaimed
  <2>3. gap \in 0 .. Ports
    BY <1>2, <1>3
  <2> HIDE DEF gap
  <2> QED BY <2>2, <2>3, MuxHeld
<1>6. \A x \in Holders(gap) : Ahead(recent[i], port[x]) > Reach(i)
  <2>1. SUFFICES ASSUME NEW x \in Holders(gap) PROVE Ahead(recent[i], port[x]) > Reach(i)
    OBVIOUS
  <2>2. port[x] \in Mux!AllPorts /\ Ahead(cursor, port[x]) < gap
    BY <1>2 DEF Holders
  <2> QED BY <2>2, MuxOn
<1>7. Passed(i) \cap Holders(gap) = {}
  BY <1>3, <1>6, <1>2 DEF Passed
<1>8. c \notin Holders(gap)
  BY DEF Holders, Mux!Listens
<1>10. /\ IsFiniteSet(Conns) /\ Cardinality(Conns) \in Nat /\ Keeps \in Nat
       /\ Keeps + Cardinality(Conns) <= Ports
  BY MuxConstants
<1>11. Passed(i) \in SUBSET Conns /\ Holders(gap) \in SUBSET Conns
  BY DEF Passed, Holders
<1>12. IsFiniteSet(Passed(i)) /\ Cardinality(Passed(i)) \in Nat /\ Cardinality(Holders(gap)) \in Nat
  BY <1>5, <1>10, <1>11, FS_Subset, FS_CardinalityType
<1> DEFINE both == Passed(i) \cup Holders(gap)
<1>13. /\ IsFiniteSet(both) /\ Cardinality(both) = Cardinality(Passed(i)) + Cardinality(Holders(gap))
  <2>1. Cardinality({}) = 0
    BY FS_EmptySet
  <2>2. /\ IsFiniteSet(both)
        /\ Cardinality(both) = Cardinality(Passed(i)) + Cardinality(Holders(gap))
                               - Cardinality(Passed(i) \cap Holders(gap))
    BY <1>5, <1>12, FS_Union
  <2> HIDE DEF gap, both
  <2>3. Cardinality(Passed(i) \cap Holders(gap)) = 0
    BY <1>7, <2>1
  <2> QED BY <1>12, <2>2, <2>3
<1>14. both \in SUBSET Conns
  BY <1>11
<1> HIDE DEF gap, both
<1>15. Cardinality(both) <= Cardinality(Conns)
  BY <1>10, <1>14, FS_Subset
<1>16. ASSUME NEW d \in Conns, d \notin both PROVE Cardinality(both) <= Cardinality(Conns) - 1
  <2>1. both \in SUBSET (Conns \ {d})
    BY <1>14, <1>16
  <2>2. IsFiniteSet(Conns \ {d}) /\ Cardinality(Conns \ {d}) = Cardinality(Conns) - 1
    BY <1>10, <1>16, FS_RemoveElement
  <2> QED BY <2>1, <2>2, FS_Subset
<1>18. CASE i < Len(recent)
  <2>1. Reach(i) + 1 <= Len(recent) - i + Cardinality(Passed(i))
    BY <1>2, <1>18 DEF ClaimsSpread
  <2>2. Ports - 1 - Reach(i) <= Cardinality(Holders(gap)) /\ Reach(i) \in Nat
    BY <1>2, <1>3, <1>5 DEF gap
  <2> QED BY <1>2, <1>10, <1>12, <1>13, <1>15, <2>1, <2>2
<1>19. CASE i = Len(recent)
  <2>1. Reach(i) = 0
    BY <1>2, <1>19, AheadIs DEF Reach
  <2>2. Passed(i) = {} /\ c \notin both
    BY <1>8, <2>1 DEF Passed, both
  <2>3. Cardinality(Passed(i)) = 0
    BY <2>2, FS_EmptySet
  <2>4. Cardinality(both) >= Ports - 1
    BY <1>2, <1>5, <1>12, <1>13, <2>1, <2>3 DEF gap
  <2>5. Cardinality(both) <= Cardinality(Conns) - 1 /\ Keeps > 0
    BY <1>2, <1>10, <1>16, <1>19, <2>2
  <2> QED BY <1>2, <1>10, <1>12, <1>13, <2>4, <2>5
<1> QED BY <1>2, <1>18, <1>19

\* The ports claimed lately, after another claim.
LEMMA MuxRecent ==
    ASSUME Mux!MuxAssumption, MuxTypes, NEW p \in Mux!AllPorts
    PROVE  \E off \in 0 .. 1 :
              /\ off = IF Len(recent) <= Keeps THEN 0 ELSE 1
              /\ Mux!Last(Append(recent, p)) \in Seq(Mux!AllPorts)
              /\ Len(Mux!Last(Append(recent, p))) = Len(recent) + 1 - off
              /\ \A i \in 1 .. Len(recent) + 1 - off :
                    Mux!Last(Append(recent, p))[i] =
                       IF i = Len(recent) + 1 - off THEN p ELSE recent[i + off]
<1>1. /\ recent \in Seq(Mux!AllPorts) /\ Len(recent) \in Nat /\ Len(recent) <= Keeps + 1
      /\ Keeps \in Nat
  BY MuxConstants DEF MuxTypes
<1>2. /\ Append(recent, p) \in Seq(Mux!AllPorts) /\ Len(Append(recent, p)) = Len(recent) + 1
      /\ \A i \in 1 .. Len(recent) + 1 :
            Append(recent, p)[i] = IF i = Len(recent) + 1 THEN p ELSE recent[i]
  BY <1>1
<1> DEFINE s == Append(recent, p)
<1> HIDE DEF s
<1>3. /\ s \in Seq(Mux!AllPorts) /\ Len(s) = Len(recent) + 1
      /\ \A i \in 1 .. Len(recent) + 1 : s[i] = IF i = Len(recent) + 1 THEN p ELSE recent[i]
  BY <1>2 DEF s
<1>4. CASE Len(recent) <= Keeps
  <2>1. Mux!Last(s) = s
    BY <1>1, <1>3, <1>4 DEF Mux!Last, Keeps
  <2> QED BY <1>1, <1>3, <1>4, <2>1 DEF s
<1>5. CASE ~(Len(recent) <= Keeps)
  <2>1. Mux!Last(s) = Tail(s)
    BY <1>1, <1>3, <1>5 DEF Mux!Last, Keeps
  <2>2. /\ Tail(s) \in Seq(Mux!AllPorts) /\ Len(Tail(s)) = Len(recent)
        /\ \A i \in 1 .. Len(recent) : Tail(s)[i] = s[i + 1]
    BY <1>1, <1>3
  <2>3. \A i \in 1 .. Len(recent) : Tail(s)[i] = IF i = Len(recent) THEN p ELSE recent[i + 1]
    BY <1>1, <1>3, <2>2
  <2> QED BY <1>1, <1>5, <2>1, <2>2, <2>3 DEF s
<1> QED BY <1>4, <1>5

\* A connection that is opened shares its port with nobody, and is not taken for another.
LEMMA MuxClaims ==
    ASSUME Mux!MuxAssumption, MuxInv, NEW c \in Conns, Mux!Claim(c) PROVE MuxInv'
<1> DEFINE p == Mux!Claimed
           step == Ahead(cursor, p)
<1>0. MuxTypes /\ RoutesMatch /\ PacketsMatch /\ ClaimsSpread /\ LeftIsRecent
  BY DEF MuxInv
<1>1. /\ conn[c] = "checked"
      /\ \A d \in wire : Mux!Listens(d) \/ left[port[d]] > 0
      /\ \A d \in Conns : conn[d] = "failing" => port[d] # p
      /\ left' = [q \in Mux!AllPorts |-> IF q # p /\ left[q] > 0 THEN left[q] - 1 ELSE left[q]]
      /\ routes' = [Mux!Retained EXCEPT ![p] = c]
      /\ port' = [port EXCEPT ![c] = p]
      /\ cursor' = (p + 1) % Ports
      /\ conn' = [conn EXCEPT ![c] = "connecting"]
      /\ recent' = Mux!Last(Append(recent, p))
      /\ UNCHANGED <<inbox, link, wire, long>>
  BY DEF Mux!Claim
<1>2. /\ p \in Mux!AllPorts /\ Mux!Retained[p] = Mux!Nobody
      /\ \A q \in Mux!AllPorts : Ahead(cursor, q) < step => Mux!Retained[q] # Mux!Nobody
  BY <1>0, <1>1, MuxClaimed
<1> HIDE DEF p
<1>3. /\ Ports \in Nat \ {0} /\ cursor' = After(p) /\ After(p) \in Mux!AllPorts
      /\ step \in 0 .. Ports - 1 /\ cursor \in Mux!AllPorts
  BY <1>0, <1>1, <1>2, MuxCounts, AheadIs DEF MuxTypes
<1>4. Mux!Retained \in [Mux!AllPorts -> Conns \cup {Mux!Nobody}]
  BY <1>0 DEF Mux!Retained, MuxTypes
<1>5. PICK off \in 0 .. 1 :
         /\ off = IF Len(recent) <= Keeps THEN 0 ELSE 1
         /\ recent' \in Seq(Mux!AllPorts)
         /\ Len(recent') = Len(recent) + 1 - off
         /\ \A i \in 1 .. Len(recent) + 1 - off :
               recent'[i] = IF i = Len(recent) + 1 - off THEN p ELSE recent[i + off]
  BY <1>0, <1>1, <1>2, MuxRecent
<1>6. Len(recent) \in Nat /\ Len(recent) <= Keeps + 1 /\ Keeps \in Nat
  BY <1>0, MuxConstants DEF MuxTypes
<1>7. MuxTypes'
  <2>1. Len(recent') <= Keeps + 1
    BY <1>5, <1>6
  <2>2. routes' \in [Mux!AllPorts -> Conns \cup {Mux!Nobody}] /\ port' \in [Conns -> Mux!AllPorts]
    BY <1>0, <1>1, <1>2, <1>4 DEF MuxTypes
  <2>3. conn' \in [Conns -> {"idle", "checked", "connecting", "up", "failing", "told", "gone"}]
    BY <1>0, <1>1 DEF MuxTypes
  <2>4. left' \in [Mux!AllPorts -> 0 .. Remembered]
    <3>1. \A q \in Mux!AllPorts : left[q] \in 0 .. Remembered /\ Remembered \in Nat
      BY <1>0, MuxConstants DEF MuxTypes
    <3>2. \A n \in 0 .. Remembered : n > 0 => n - 1 \in 0 .. Remembered
      BY MuxConstants
    <3> QED BY <1>1, <3>1, <3>2
  <2> QED BY <1>0, <1>1, <1>3, <1>5, <2>1, <2>2, <2>3, <2>4 DEF MuxTypes
<1>8. ASSUME NEW q \in Mux!AllPorts, left[q] > 0, q \notin long
      PROVE  q # p /\ \E i \in 1 .. Len(recent) :
                          recent[i] = q /\ Len(recent) - i <= Keeps - left[q] /\ Len(recent) - i < Keeps
  <2>1. PICK i \in 1 .. Len(recent) : recent[i] = q /\ Len(recent) - i <= Keeps - left[q]
    BY <1>0, <1>8 DEF LeftIsRecent
  <2>2. left[q] \in Nat /\ Keeps \in Nat
    BY <1>0, MuxConstants DEF MuxTypes
  <2>3. Len(recent) - i < Keeps
    BY <1>6, <1>8, <2>1, <2>2
  <2>4. step < Ports - 1 - Reach(i)
    BY <1>0, <1>1, <2>3, MuxShort DEF p
  <2>5. p # recent[i]
    BY <1>0, <1>2, <2>4, MuxOn
  <2> QED BY <2>1, <2>3, <2>5
<1>9. /\ \A d \in Conns : d # c => /\ conn'[d] = conn[d] /\ port'[d] = port[d] /\ port[d] \in Mux!AllPorts
                                   /\ Mux!Listens(d)' <=> Mux!Listens(d)
                                   /\ Early(d)' <=> Early(d)
      /\ conn'[c] = "connecting" /\ port'[c] = p /\ inbox[c] = <<>> /\ ~ Early(c)'
  <2>1. /\ conn'[c] = "connecting" /\ port'[c] = p
        /\ \A d \in Conns : d # c =>
              conn'[d] = conn[d] /\ port'[d] = port[d] /\ port[d] \in Mux!AllPorts
    BY <1>0, <1>1, <1>2 DEF MuxTypes
  <2>2. inbox[c] = <<>>
    BY <1>0, <1>1 DEF RoutesMatch, Early
  <2> QED BY <2>1, <2>2 DEF Mux!Listens, Early
<1>13. ASSUME link # "ended", NEW d \in Conns, Mux!Listens(d)
       PROVE  Mux!Retained[port[d]] = d /\ d # c /\ port[d] # p
  <2>1. routes[port[d]] = d /\ port[d] \in Mux!AllPorts /\ d # Mux!Nobody
    BY <1>0, <1>13, MuxConstants DEF MuxTypes, RoutesMatch
  <2>2. Mux!Retained[port[d]] = d
    BY <1>13, <2>1 DEF Mux!Retained
  <2>3. d # c
    BY <1>1, <1>13 DEF Mux!Listens
  <2> QED BY <1>2, <2>1, <2>2, <2>3
<1>14. RoutesMatch'
  <2>1. \A q \in Mux!AllPorts : Mux!Retained[q] # Mux!Nobody =>
           Mux!Retained[q] = routes[q] /\ routes[q] \in Conns /\ Mux!Listens(routes[q])
    BY <1>0 DEF Mux!Retained, MuxTypes
  <2>2. ASSUME NEW q \in Mux!AllPorts, NEW d \in Conns, routes'[q] = d
        PROVE  \/ d = c /\ q = p
               \/ d # c /\ routes[q] = d /\ port[d] = q /\ Mux!Listens(d)
    <3>1. CASE q = p
      BY <1>1, <1>2, <1>4, <2>2, <3>1
    <3>2. CASE q # p
      <4>1. Mux!Retained[q] = d /\ d # Mux!Nobody
        BY <1>1, <1>2, <1>4, <2>2, <3>2, MuxConstants
      <4>2. routes[q] = d /\ Mux!Listens(d)
        BY <2>1, <4>1
      <4> QED BY <1>0, <1>1, <4>2 DEF RoutesMatch, Mux!Listens
    <3> QED BY <3>1, <3>2
  <2>3. ASSUME NEW q \in Mux!AllPorts, NEW d \in Conns, routes'[q] = d
        PROVE  port'[d] = q /\ ~ Early(d)'
    BY <1>9, <2>2, <2>3 DEF Early, Mux!Listens
  <2>4. \A d \in Conns : Early(d)' => inbox'[d] = <<>>
    BY <1>0, <1>1, <1>9 DEF RoutesMatch
  <2>5. ASSUME link # "ended", NEW d \in Conns, Mux!Listens(d)' PROVE routes'[port'[d]] = d
    <3>1. CASE d = c
      BY <1>1, <1>2, <1>4, <1>9, <3>1
    <3>2. CASE d # c
      <4>1. Mux!Listens(d) /\ port'[d] = port[d] /\ port[d] \in Mux!AllPorts
        BY <1>9, <2>5, <3>2
      <4> QED BY <1>1, <1>2, <1>4, <1>13, <2>5, <4>1
    <3> QED BY <3>1, <3>2
  <2>6. ASSUME link # "ended", NEW x \in Conns, NEW d \in Conns, conn'[x] = "failing",
               Mux!Listens(d)'
        PROVE  port'[d] # port'[x]
    <3>1. x # c /\ conn[x] = "failing" /\ port'[x] = port[x] /\ port[x] # p
      BY <1>1, <1>9, <2>6
    <3>2. CASE d = c
      BY <1>9, <3>1, <3>2
    <3>3. CASE d # c
      BY <1>0, <1>9, <2>6, <3>1, <3>3 DEF RoutesMatch
    <3> QED BY <3>2, <3>3
  <2>7. ASSUME link = "ended", NEW q \in Mux!AllPorts, NEW d \in Conns, routes'[q] = d,
               Mux!Listens(d)'
        PROVE  conn'[d] = "connecting" /\ inbox'[d] = <<>>
    <3>1. CASE d = c
      BY <1>1, <1>9, <3>1
    <3>2. CASE d # c
      BY <1>0, <1>1, <1>9, <2>2, <2>7, <3>2 DEF RoutesMatch
    <3> QED BY <3>1, <3>2
  <2>8. link = "ended" => wire' = {}
    BY <1>0, <1>1 DEF RoutesMatch
  <2> QED BY <1>1, <2>3, <2>4, <2>5, <2>6, <2>7, <2>8 DEF RoutesMatch
<1>15. PacketsMatch'
  <2>1. ASSUME NEW x \in wire, NEW d \in Conns, Mux!Listens(d)', d # x, port'[d] = port'[x]
        PROVE  port'[x] \in long
    <3>1. x # c /\ x \in Conns /\ port'[x] = port[x] /\ port[x] \in Mux!AllPorts
      BY <1>0, <1>1, <1>9 DEF PacketsMatch, MuxTypes, Early
    <3>2. CASE d # c
      BY <1>0, <1>9, <2>1, <3>1, <3>2 DEF PacketsMatch
    <3>3. CASE d = c
      <4>1. port[x] = p /\ link # "ended"
        BY <1>0, <1>9, <2>1, <3>1, <3>3 DEF RoutesMatch
      <4>2. ~ Mux!Listens(x)
        BY <1>13, <3>1, <4>1
      <4>3. left[p] > 0
        BY <1>1, <4>1, <4>2
      <4> QED BY <1>2, <1>8, <3>1, <4>1, <4>3
    <3> QED BY <3>2, <3>3
  <2>2. \A x \in wire : ~ Early(x)'
    BY <1>0, <1>1, <1>9 DEF PacketsMatch, MuxTypes, Early
  <2>3. \A d \in Conns : conn'[d] = "told" => link' = "ended"
    BY <1>0, <1>1, <1>9 DEF PacketsMatch
  <2>4. ASSUME link # "ended", NEW d \in Conns, Mux!Listens(d)', port'[d] \notin long,
               NEW i \in 1 .. Len(inbox[d])
        PROVE  inbox[d][i] = "own"
    <3>1. d # c
      BY <1>9, <2>4
    <3> QED BY <1>0, <1>9, <2>4, <3>1 DEF PacketsMatch
  <2> QED BY <1>1, <2>1, <2>2, <2>3, <2>4 DEF PacketsMatch
<1>10. ASSUME NEW i \in 1 .. Len(recent') - 1
       PROVE  /\ i + off \in 1 .. Len(recent) /\ recent'[i] = recent[i + off]
              /\ recent'[Len(recent')] = p /\ Len(recent) - (i + off) < Keeps
              /\ step < Ports - 1 - Reach(i + off) /\ p # recent[i + off]
              /\ Ahead(recent[i + off], p) = Reach(i + off) + 1 + step
              /\ Reach(i + off) \in 0 .. Ports - 1
  <2>1. /\ i + off \in 1 .. Len(recent) /\ recent'[i] = recent[i + off]
        /\ recent'[Len(recent')] = p /\ Len(recent) - (i + off) < Keeps
    <3>1. i \in 1 .. Len(recent) - off /\ off \in 0 .. 1 /\ Len(recent') = Len(recent) + 1 - off
      BY <1>5, <1>6
    <3>2. i + off \in 1 .. Len(recent) /\ Len(recent) - (i + off) < Keeps
      BY <1>5, <1>6, <3>1
    <3>3. i \in 1 .. Len(recent) + 1 - off /\ i # Len(recent) + 1 - off
      BY <1>6, <3>1
    <3>4. Len(recent) + 1 - off \in 1 .. Len(recent) + 1 - off
      BY <1>5, <1>6
    <3> QED BY <1>5, <3>2, <3>3, <3>4
  <2>2. step < Ports - 1 - Reach(i + off)
    BY <1>0, <1>1, <2>1, MuxShort DEF p
  <2> HIDE DEF step
  <2>3. /\ p # recent[i + off] /\ Ahead(recent[i + off], p) = Reach(i + off) + 1 + step
        /\ Reach(i + off) \in 0 .. Ports - 1
    BY <1>0, <1>2, <2>1, <2>2, MuxOn DEF step
  <2> QED BY <2>1, <2>2, <2>3
<1>11. ASSUME NEW i \in 1 .. Len(recent') - 1
       PROVE  Reach(i)' + 1 <= Len(recent') - i + Cardinality(Passed(i)')
  <2> DEFINE j == i + off
  <2>1. /\ j \in 1 .. Len(recent) /\ recent'[i] = recent[j] /\ recent'[Len(recent')] = p
        /\ step < Ports - 1 - Reach(j) /\ Ahead(recent[j], p) = Reach(j) + 1 + step
        /\ Reach(j) \in 0 .. Ports - 1 /\ Len(recent') - i = Len(recent) + 1 - j
    BY <1>5, <1>6, <1>10, SMTT(30)
  <2> HIDE DEF j, step
  <2>2. Reach(i)' = Reach(j) + 1 + step
    BY <2>1 DEF Reach
  <2>3. \A x \in Conns : port[x] \in Mux!AllPorts /\ (x # c => port'[x] = port[x])
    BY <1>0, <1>1 DEF MuxTypes
  <2>4. port'[c] = p
    BY <1>0, <1>1 DEF MuxTypes
  <2>5. c \in Passed(i)'
    BY <1>3, <2>1, <2>2, <2>4 DEF Passed
  <2>6. ASSUME NEW x \in Passed(j) PROVE x \in Passed(i)'
    <3>1. x \in Conns /\ Ahead(recent[j], port[x]) \in 1 .. Reach(j)
      BY DEF Passed
    <3>2. Ahead(recent[j], port[x]) \in 1 .. Reach(j) + 1 + step
      BY <1>3, <2>1, <3>1
    <3>3. CASE x # c
      BY <2>1, <2>2, <2>3, <3>1, <3>2, <3>3 DEF Passed
    <3> QED BY <2>5, <3>3
  <2>7. ASSUME NEW x \in Holders(step)
        PROVE  x \in Passed(i)' /\ x \notin Passed(j) /\ x # c
    <3>1. x \in Conns /\ Ahead(cursor, port[x]) < step /\ x # c
      BY <1>1 DEF Holders, Mux!Listens
    <3>2. Ahead(cursor, port[x]) \in 0 .. Ports - 1
      BY <1>3, <2>3, <3>1, AheadIs
    <3>3. Ahead(cursor, port[x]) < Ports - 1 - Reach(j)
      BY <1>3, <2>1, <3>1, <3>2
    <3>4. /\ Ahead(recent[j], port[x]) = Reach(j) + 1 + Ahead(cursor, port[x])
          /\ Ahead(recent[j], port[x]) > Reach(j)
      BY <1>0, <2>1, <2>3, <3>1, <3>3, MuxOn
    <3>5. Ahead(recent[j], port[x]) \in 1 .. Reach(j) + 1 + step
      <4>1. Ahead(cursor, port[x]) + 1 <= step /\ Reach(j) \in Nat /\ step \in Nat
        BY <1>3, <2>1, <3>1, <3>2
      <4> QED BY <2>1, <3>2, <3>4, <4>1, SMTT(30)
    <3>6. x \in Passed(i)'
      BY <2>1, <2>2, <2>3, <3>1, <3>5 DEF Passed
    <3>7. x \notin Passed(j)
      BY <2>1, <3>4 DEF Passed
    <3> QED BY <3>1, <3>6, <3>7
  <2>8. IsFiniteSet(Conns) /\ Passed(i)' \in SUBSET Conns /\ Passed(j) \in SUBSET Conns
    BY MuxConstants DEF Passed
  <2>9. /\ IsFiniteSet(Passed(i)') /\ Cardinality(Passed(i)') \in Nat
        /\ IsFiniteSet(Passed(j)) /\ Cardinality(Passed(j)) \in Nat
    BY <2>8, FS_Subset, FS_CardinalityType
  <2>10. /\ IsFiniteSet(Holders(step)) /\ step <= Cardinality(Holders(step))
         /\ Cardinality(Holders(step)) \in Nat
    <3>1. step \in 0 .. Ports
      BY <1>3
    <3>2. \A q \in Mux!AllPorts : Ahead(cursor, q) < step => Mux!Retained[q] # Mux!Nobody
      BY <1>2 DEF step
    <3> QED BY <1>0, <3>1, <3>2, MuxHeld, FS_CardinalityType
  <2> DEFINE both == Passed(j) \cup Holders(step)
  <2>11. /\ IsFiniteSet(both)
         /\ Cardinality(both) = Cardinality(Passed(j)) + Cardinality(Holders(step))
    <3>1. Passed(j) \cap Holders(step) = {} /\ Cardinality({}) = 0
      BY <2>7, FS_EmptySet
    <3>2. /\ IsFiniteSet(both)
          /\ Cardinality(both) = Cardinality(Passed(j)) + Cardinality(Holders(step))
                                 - Cardinality(Passed(j) \cap Holders(step))
      BY <2>9, <2>10, FS_Union
    <3> HIDE DEF both
    <3>3. Cardinality(Passed(j) \cap Holders(step)) = 0
      BY <3>1
    <3> QED BY <2>9, <2>10, <3>2, <3>3
  <2>12. both \in SUBSET Passed(i)'
    BY <2>6, <2>7
  <2>13. c \notin Holders(step)
    BY <2>7
  <2>14. CASE j < Len(recent)
    <3>1. j \in 1 .. Len(recent) - 1
      BY <1>6, <2>1, <2>14
    <3>2. Reach(j) + 1 <= Len(recent) - j + Cardinality(Passed(j))
      BY <1>0, <3>1 DEF ClaimsSpread
    <3> HIDE DEF both
    <3>3. Cardinality(both) <= Cardinality(Passed(i)')
      BY <2>9, <2>12, FS_Subset
    <3>4. Cardinality(Passed(j)) + step <= Cardinality(Passed(i)')
      BY <1>3, <2>9, <2>10, <2>11, <3>3
    <3>5. Reach(j) + 1 + step + 1 <= Len(recent) + 1 - j + Cardinality(Passed(i)')
      <4>1. \A r, l, n, m, k \in Nat : \A d \in Int :
               r + 1 <= l - d + n /\ n + k <= m => r + 1 + k + 1 <= l + 1 - d + m
        OBVIOUS
      <4>2. Reach(j) \in Nat /\ j \in Int /\ step \in Nat
        BY <1>3, <2>1
      <4> QED BY <1>6, <2>9, <3>2, <3>4, <4>1, <4>2
    <3> QED BY <2>1, <2>2, <3>5
  <2>15. CASE j = Len(recent)
    <3>1. Reach(j) = 0
      <4>1. recent[j] \in Mux!AllPorts
        BY <1>0, <2>1 DEF MuxTypes
      <4> QED BY <1>3, <2>15, <4>1, AheadIs DEF Reach
    <3>2. Passed(j) = {}
      BY <3>1 DEF Passed
    <3>3. Cardinality(Passed(j)) = 0
      BY <3>2, FS_EmptySet
    <3>4. both \in SUBSET (Passed(i)' \ {c})
      BY <2>12, <2>13, <3>2
    <3>5. /\ IsFiniteSet(Passed(i)' \ {c})
          /\ Cardinality(Passed(i)' \ {c}) = Cardinality(Passed(i)') - 1
      BY <2>5, <2>9, FS_RemoveElement
    <3> HIDE DEF both
    <3>6. Cardinality(both) <= Cardinality(Passed(i)' \ {c})
      BY <3>4, <3>5, FS_Subset
    <3>7. step + 1 <= Cardinality(Passed(i)')
      BY <1>3, <2>9, <2>10, <2>11, <3>3, <3>5, <3>6
    <3>8. Len(recent') - i = 1
      BY <1>6, <2>1, <2>15
    <3> QED BY <1>3, <2>2, <2>9, <3>1, <3>7, <3>8
  <2> QED BY <1>6, <2>1, <2>14, <2>15
<1>12. ClaimsSpread'
  <2>1. Len(recent') > 0 /\ recent'[Len(recent')] = p
    BY <1>5, <1>6
  <2>2. ASSUME NEW i \in 1 .. Len(recent'), NEW k \in 1 .. Len(recent'), i # k
        PROVE  recent'[i] # recent'[k]
    <3>1. CASE i \in 1 .. Len(recent') - 1 /\ k \in 1 .. Len(recent') - 1
      <4>1. /\ i + off \in 1 .. Len(recent) /\ recent'[i] = recent[i + off]
            /\ k + off \in 1 .. Len(recent) /\ recent'[k] = recent[k + off]
        BY <1>10, <3>1
      <4>2. i + off # k + off
        BY <2>2
      <4> QED BY <1>0, <4>1, <4>2 DEF ClaimsSpread
    <3>2. CASE i = Len(recent') /\ k \in 1 .. Len(recent') - 1
      BY <1>10, <2>1, <3>2
    <3>3. CASE k = Len(recent') /\ i \in 1 .. Len(recent') - 1
      BY <1>10, <2>1, <3>3
    <3> QED BY <1>5, <1>6, <2>2, <3>1, <3>2, <3>3
  <2>3. \A i \in 1 .. Len(recent') - 1 : Reach(i)' + 1 <= Len(recent') - i + Cardinality(Passed(i)')
    BY <1>11
  <2> HIDE DEF step
  <2> QED BY <1>3, <2>1, <2>2, <2>3 DEF ClaimsSpread
<1>16. LeftIsRecent'
  <2>1. ASSUME link # "ended", NEW d \in Conns, Mux!Listens(d)', port'[d] \notin long
        PROVE  left'[port'[d]] = 0
    <3>1. CASE d = c
      <4>1. left[p] \in Nat /\ ~(left[p] > 0) /\ left'[p] = left[p]
        BY <1>0, <1>1, <1>2, <1>8, <1>9, <2>1, <3>1 DEF MuxTypes
      <4> QED BY <1>9, <3>1, <4>1
    <3>2. CASE d # c
      <4>1. left[port[d]] = 0 /\ port'[d] = port[d] /\ port[d] \in Mux!AllPorts
        BY <1>0, <1>9, <2>1, <3>2 DEF LeftIsRecent
      <4> QED BY <1>1, <4>1
    <3> QED BY <3>1, <3>2
  <2>2. ASSUME NEW q \in Mux!AllPorts, left'[q] > 0, q \notin long
        PROVE  \E i \in 1 .. Len(recent') : recent'[i] = q /\ Len(recent') - i <= Keeps - left'[q]
    <3>1. left[q] \in Nat /\ Keeps \in Nat
      BY <1>0, MuxConstants DEF MuxTypes
    <3>2. left[q] > 0 /\ q # p /\ left'[q] = left[q] - 1
      <4>1. left[q] > 0
        BY <1>1, <2>2, <3>1
      <4> QED BY <1>1, <1>8, <2>2, <4>1
    <3>3. PICK i \in 1 .. Len(recent) : recent[i] = q /\ Len(recent) - i <= Keeps - left[q]
      BY <1>8, <2>2, <3>2
    <3>4. /\ i - off \in 1 .. Len(recent) + 1 - off /\ i - off # Len(recent) + 1 - off
          /\ (i - off) + off = i
      BY <1>5, <1>6, <3>1, <3>2, <3>3
    <3>5. recent'[i - off] = q
      BY <1>5, <3>3, <3>4
    <3>6. i - off \in 1 .. Len(recent') /\ Len(recent') - (i - off) <= Keeps - left'[q]
      BY <1>5, <1>6, <3>1, <3>2, <3>3, <3>4
    <3> QED BY <3>5, <3>6
  <2> QED BY <1>1, <2>1, <2>2 DEF LeftIsRecent
<1> QED BY <1>7, <1>12, <1>14, <1>15, <1>16 DEF MuxInv

\* The claims stay spread as long as no port changes hands.
LEMMA MuxStays ==
    ASSUME ClaimsSpread, UNCHANGED <<cursor, port, recent>> PROVE ClaimsSpread'
BY DEF ClaimsSpread, Reach, Passed, Ahead, After

\* At the start no port is held.
LEMMA MuxInit == ASSUME Mux!MuxAssumption, Mux!Init PROVE MuxInv
<1>1. /\ cursor \in Mux!AllPorts /\ routes = [p \in Mux!AllPorts |-> Mux!Nobody]
      /\ conn = [c \in Conns |-> "idle"] /\ port = [c \in Conns |-> 0]
      /\ inbox = [c \in Conns |-> <<>>] /\ link = "up" /\ wire = {} /\ recent = <<>>
      /\ left = [p \in Mux!AllPorts |-> 0] /\ long = {}
  BY DEF Mux!Init
<1>2. /\ Ports \in Nat \ {0} /\ 0 \in Mux!AllPorts /\ Remembered \in Nat /\ Keeps \in Nat
      /\ QueueDepth \in Nat /\ Mux!Nobody \notin Conns
  BY <1>1, MuxConstants DEF Mux!AllPorts
<1>3. MuxTypes
  <2>1. inbox \in [Conns -> Seq({"own", "another's"})] /\ \A c \in Conns : Len(inbox[c]) <= QueueDepth
    BY <1>1, <1>2
  <2>2. recent \in Seq(Mux!AllPorts) /\ Len(recent) <= Keeps + 1
    BY <1>1, <1>2
  <2>3. left \in [Mux!AllPorts -> 0 .. Remembered] /\ long \subseteq Mux!AllPorts
    BY <1>1, <1>2
  <2> QED BY <1>1, <1>2, <2>1, <2>2, <2>3 DEF MuxTypes
<1>4. RoutesMatch
  BY <1>1, <1>2 DEF RoutesMatch, Mux!Listens
<1>5. PacketsMatch /\ LeftIsRecent
  BY <1>1 DEF PacketsMatch, LeftIsRecent, Mux!Listens
<1>6. ClaimsSpread
  BY <1>1 DEF ClaimsSpread
<1> QED BY <1>3, <1>4, <1>5, <1>6 DEF MuxInv

\* A connection that is to be opened finds the link up, and has no port yet.
LEMMA MuxChecks ==
    ASSUME MuxInv, NEW c \in Conns, Mux!Check(c) PROVE MuxInv'
<1>1. /\ MuxTypes /\ RoutesMatch /\ PacketsMatch /\ ClaimsSpread /\ LeftIsRecent
      /\ conn[c] = "idle" /\ conn' = [conn EXCEPT ![c] = "checked"]
      /\ UNCHANGED <<cursor, routes, port, inbox, link, wire, recent, left, long>>
  BY DEF MuxInv, Mux!Check
<1>2. \A d \in Conns : /\ Mux!Listens(d)' => Mux!Listens(d) /\ conn'[d] = conn[d]
                       /\ Early(d)' <=> Early(d)
                       /\ conn'[d] \in {"told", "failing"} => conn[d] = conn'[d]
  BY <1>1 DEF Mux!Listens, Early, MuxTypes
<1>3. MuxTypes'
  BY <1>1 DEF MuxTypes
<1>4. RoutesMatch'
  BY <1>1, <1>2 DEF RoutesMatch
<1>5. PacketsMatch'
  <2>1. wire \subseteq Conns
    BY <1>1 DEF MuxTypes
  <2> QED BY <1>1, <1>2, <2>1 DEF PacketsMatch
<1>6. LeftIsRecent'
  BY <1>1, <1>2 DEF LeftIsRecent
<1> QED BY <1>1, <1>3, <1>4, <1>5, <1>6, MuxStays DEF MuxInv

\* The far end sends a connection a packet.
LEMMA MuxSends ==
    ASSUME MuxInv, NEW c \in Conns, Mux!FarEndSends(c) PROVE MuxInv'
<1>1. /\ MuxTypes /\ RoutesMatch /\ PacketsMatch /\ ClaimsSpread /\ LeftIsRecent
      /\ link # "ended" /\ wire' = wire \cup {c}
      /\ Mux!Listens(c) \/ (conn[c] \in {"failing", "gone"} /\ left[port[c]] > 0)
      /\ UNCHANGED <<cursor, routes, conn, port, inbox, link, recent, left, long>>
  BY DEF MuxInv, Mux!FarEndSends
<1>2. MuxTypes'
  BY <1>1 DEF MuxTypes
<1>3. \A d \in Conns : (Mux!Listens(d)' <=> Mux!Listens(d)) /\ (Early(d)' <=> Early(d))
  BY <1>1 DEF Mux!Listens, Early
<1>4. RoutesMatch'
  BY <1>1, <1>3 DEF RoutesMatch
<1>5. LeftIsRecent'
  BY <1>1, <1>3 DEF LeftIsRecent
<1>6. PacketsMatch'
  <2>1. ASSUME NEW d \in Conns, Mux!Listens(d), d # c, port[d] = port[c] PROVE port[c] \in long
    <3>1. CASE Mux!Listens(c)
      BY <1>1, <2>1, <3>1 DEF RoutesMatch
    <3>2. CASE left[port[c]] > 0
      BY <1>1, <2>1, <3>2 DEF LeftIsRecent
    <3> QED BY <1>1, <3>1, <3>2
  <2>2. ~ Early(c)
    BY <1>1 DEF Mux!Listens, Early
  <2>3. wire \subseteq Conns
    BY <1>1 DEF MuxTypes
  <2> QED BY <1>1, <1>3, <2>1, <2>2, <2>3 DEF PacketsMatch
<1> QED BY <1>1, <1>2, <1>4, <1>5, <1>6, MuxStays DEF MuxInv

\* A packet is handed to the connection it is for, to one whose port a long-lived one had,
\* or to nobody.
LEMMA MuxDemuxes ==
    ASSUME Mux!MuxAssumption, MuxInv, NEW c \in Conns, Mux!Demux(c) PROVE MuxInv'
<1> DEFINE to == routes[port[c]]
           packet == IF to = c THEN "own" ELSE "another's"
<1>1. /\ MuxTypes /\ RoutesMatch /\ PacketsMatch /\ ClaimsSpread /\ LeftIsRecent
      /\ c \in wire /\ wire' = wire \ {c}
      /\ UNCHANGED <<cursor, conn, port, link, recent, left, long>>
  BY DEF MuxInv, Mux!Demux
<1>2. /\ port[c] \in Mux!AllPorts /\ to \in Conns \cup {Mux!Nobody} /\ link # "ended"
      /\ Mux!Nobody \notin Conns /\ QueueDepth \in Nat
  BY <1>1, MuxConstants DEF MuxTypes, RoutesMatch
<1>3. \/ UNCHANGED <<routes, inbox>>
      \/ /\ to \in Conns /\ ~ Mux!Listens(to)
         /\ routes' = [routes EXCEPT ![port[c]] = Mux!Nobody] /\ UNCHANGED inbox
      \/ /\ UNCHANGED routes /\ to \in Conns /\ Mux!Listens(to)
         /\ inbox' = [inbox EXCEPT ![to] = IF Len(@) < QueueDepth THEN Append(@, packet) ELSE @]
  <2>1. CASE to = Mux!Nobody
    BY <2>1 DEF Mux!Demux
  <2>2. CASE to # Mux!Nobody /\ ~ Mux!Listens(to)
    BY <1>2, <2>2 DEF Mux!Demux
  <2>3. CASE to # Mux!Nobody /\ Mux!Listens(to)
    BY <1>2, <2>3 DEF Mux!Demux
  <2> QED BY <2>1, <2>2, <2>3
<1>p. packet \in {"own", "another's"} /\ (to \in Conns /\ Mux!Listens(to) /\ port[to] \notin long => packet = "own")
  <2>1. CASE to = c
    BY <2>1
  <2>2. CASE to # c
    <3>1. to \in Conns => port[to] = port[c]
      BY <1>1, <1>2 DEF RoutesMatch
    <3> QED BY <1>1, <2>2, <3>1 DEF PacketsMatch
  <2> QED BY <2>1, <2>2
<1> HIDE DEF packet
<1>4. \A d \in Conns : (Mux!Listens(d)' <=> Mux!Listens(d)) /\ (Early(d)' <=> Early(d))
  BY <1>1 DEF Mux!Listens, Early
<1>5. /\ routes' \in [Mux!AllPorts -> Conns \cup {Mux!Nobody}]
      /\ \A q \in Mux!AllPorts :
            \/ routes'[q] = routes[q]
            \/ routes'[q] = Mux!Nobody /\ routes[q] \in Conns /\ ~ Mux!Listens(routes[q])
  BY <1>1, <1>2, <1>3 DEF MuxTypes
<1>6. /\ inbox' \in [Conns -> Seq({"own", "another's"})]
      /\ \A d \in Conns : /\ Len(inbox'[d]) <= QueueDepth
                          /\ Early(d) => inbox'[d] = <<>>
                          /\ Mux!Listens(d) /\ port[d] \notin long =>
                                \A i \in 1 .. Len(inbox'[d]) : inbox'[d][i] = "own"
  <2>1. CASE UNCHANGED inbox
    BY <1>1, <1>2, <2>1 DEF MuxTypes, RoutesMatch, PacketsMatch
  <2>2. CASE /\ to \in Conns /\ Mux!Listens(to)
             /\ inbox' = [inbox EXCEPT ![to] = IF Len(@) < QueueDepth THEN Append(@, packet) ELSE @]
    <3>1. CASE ~(Len(inbox[to]) < QueueDepth)
      BY <1>1, <1>2, <2>2, <3>1 DEF MuxTypes, RoutesMatch, PacketsMatch
    <3>2. CASE Len(inbox[to]) < QueueDepth
      <4>0. inbox[to] \in Seq({"own", "another's"})
        BY <1>1, <2>2 DEF MuxTypes
      <4>1. /\ Append(inbox[to], packet) \in Seq({"own", "another's"})
            /\ Len(Append(inbox[to], packet)) <= QueueDepth
        BY <1>p, <1>2, <3>2, <4>0
      <4>2. port[to] \notin long => \A i \in 1 .. Len(Append(inbox[to], packet)) :
                                       Append(inbox[to], packet)[i] = "own"
        BY <1>1, <1>2, <1>p, <2>2, <4>0 DEF PacketsMatch
      <4>3. inbox' = [inbox EXCEPT ![to] = Append(inbox[to], packet)] /\ ~ Early(to)
        BY <2>2, <3>2 DEF Early, Mux!Listens
      <4>4. \A d \in Conns : inbox'[d] = IF d = to THEN Append(inbox[to], packet) ELSE inbox[d]
        BY <1>1, <4>3 DEF MuxTypes
      <4>5. inbox' \in [Conns -> Seq({"own", "another's"})]
        BY <1>1, <2>2, <4>1, <4>3 DEF MuxTypes
      <4>6. ASSUME NEW d \in Conns
            PROVE  /\ Len(inbox'[d]) <= QueueDepth
                   /\ Early(d) => inbox'[d] = <<>>
                   /\ Mux!Listens(d) /\ port[d] \notin long =>
                         \A i \in 1 .. Len(inbox'[d]) : inbox'[d][i] = "own"
        <5>1. CASE d = to
          BY <4>1, <4>2, <4>3, <4>4, <5>1
        <5>2. CASE d # to
          BY <1>1, <1>2, <4>4, <5>2 DEF MuxTypes, RoutesMatch, PacketsMatch
        <5> QED BY <5>1, <5>2
      <4> QED BY <4>5, <4>6
    <3> QED BY <3>1, <3>2
  <2> QED BY <1>3, <2>1, <2>2
<1>7. MuxTypes'
  BY <1>1, <1>5, <1>6 DEF MuxTypes
<1>8. RoutesMatch'
  <2>1. ASSUME NEW q \in Mux!AllPorts, NEW d \in Conns, routes'[q] = d
        PROVE  port[d] = q /\ ~ Early(d)
    BY <1>1, <1>2, <1>5, <2>1 DEF RoutesMatch
  <2>2. ASSUME NEW d \in Conns, Mux!Listens(d) PROVE routes'[port[d]] = d
    <3>1. routes[port[d]] = d /\ port[d] \in Mux!AllPorts
      BY <1>1, <1>2, <2>2 DEF RoutesMatch, MuxTypes
    <3> QED BY <1>5, <2>2, <3>1
  <2>3. \A x, d \in Conns : conn[x] = "failing" /\ Mux!Listens(d) => port[d] # port[x]
    BY <1>1, <1>2 DEF RoutesMatch
  <2> QED BY <1>1, <1>2, <1>4, <1>6, <2>1, <2>2, <2>3 DEF RoutesMatch
<1>9. PacketsMatch'
  BY <1>1, <1>4, <1>6 DEF PacketsMatch, MuxTypes
<1>10. LeftIsRecent'
  BY <1>1, <1>4 DEF LeftIsRecent
<1> QED BY <1>1, <1>7, <1>8, <1>9, <1>10, MuxStays DEF MuxInv

\* A connection takes a packet from its inbox.
LEMMA MuxTakes ==
    ASSUME MuxInv, NEW c \in Conns, Mux!Takes(c) PROVE MuxInv'
<1>1. /\ MuxTypes /\ RoutesMatch /\ PacketsMatch /\ ClaimsSpread /\ LeftIsRecent
      /\ Mux!Listens(c) /\ inbox[c] # <<>> /\ inbox' = [inbox EXCEPT ![c] = Tail(@)]
      /\ conn' = [conn EXCEPT ![c] = "up"]
      /\ UNCHANGED <<cursor, routes, port, link, wire, recent, left, long>>
  BY DEF MuxInv, Mux!Takes
<1>2. \A d \in Conns : /\ Mux!Listens(d)' <=> Mux!Listens(d)
                       /\ Early(d)' <=> Early(d)
                       /\ conn'[d] \in {"told", "failing"} => conn[d] = conn'[d]
                       /\ d # c => conn'[d] = conn[d] /\ inbox'[d] = inbox[d]
  BY <1>1 DEF Mux!Listens, Early, MuxTypes
<1>4. /\ Tail(inbox[c]) \in Seq({"own", "another's"}) /\ Len(Tail(inbox[c])) = Len(inbox[c]) - 1
      /\ \A i \in 1 .. Len(inbox[c]) - 1 : Tail(inbox[c])[i] = inbox[c][i + 1]
      /\ Len(inbox[c]) \in Nat /\ inbox'[c] = Tail(inbox[c])
  BY <1>1 DEF MuxTypes
<1>5. MuxTypes'
  <2>1. inbox' \in [Conns -> Seq({"own", "another's"})]
    BY <1>1, <1>4 DEF MuxTypes
  <2>2. QueueDepth \in Nat
    BY MuxConstants, MuxOk
  <2>3. \A d \in Conns : Len(inbox'[d]) <= QueueDepth
    BY <1>1, <1>2, <1>4, <2>2 DEF MuxTypes
  <2> QED BY <1>1, <2>1, <2>3 DEF MuxTypes
<1>6. RoutesMatch'
  <2>1. ~ Early(c) /\ (link = "ended" => \A q \in Mux!AllPorts : routes[q] # c)
    BY <1>1 DEF RoutesMatch, Early, Mux!Listens
  <2>2. \A d \in Conns : Early(d)' => inbox'[d] = <<>>
    BY <1>1, <1>2, <2>1 DEF RoutesMatch
  <2>3. link = "ended" => \A q \in Mux!AllPorts, d \in Conns :
           routes[q] = d /\ Mux!Listens(d) => conn'[d] = "connecting" /\ inbox'[d] = <<>>
    BY <1>1, <1>2, <2>1 DEF RoutesMatch
  <2> QED BY <1>1, <1>2, <2>2, <2>3 DEF RoutesMatch
<1>7. PacketsMatch'
  <2>1. link # "ended" /\ port[c] \notin long => \A i \in 1 .. Len(inbox'[c]) : inbox'[c][i] = "own"
    BY <1>1, <1>4 DEF PacketsMatch
  <2>2. link # "ended" => \A d \in Conns : Mux!Listens(d) /\ port[d] \notin long =>
           \A i \in 1 .. Len(inbox'[d]) : inbox'[d][i] = "own"
    BY <1>1, <1>2, <2>1 DEF PacketsMatch
  <2>3. wire \subseteq Conns
    BY <1>1 DEF MuxTypes
  <2> QED BY <1>1, <1>2, <2>2, <2>3 DEF PacketsMatch
<1>8. LeftIsRecent'
  BY <1>1, <1>2 DEF LeftIsRecent
<1> QED BY <1>1, <1>5, <1>6, <1>7, <1>8, MuxStays DEF MuxInv

\* A port that is given up is one claimed lately, or that of a long-lived connection; nobody
\* else's is.
LEMMA MuxGivesUp ==
    ASSUME MuxInv, NEW c \in Conns, Mux!Listens(c), NEW v \in {"failing", "gone", "told"},
           v = "told" => link = "ended",
           conn' = [conn EXCEPT ![c] = v], Mux!GivesUp(c),
           UNCHANGED <<cursor, routes, port, inbox, link, wire, recent>>
    PROVE  MuxInv'
<1> DEFINE p == port[c]
<1>1. /\ MuxTypes /\ RoutesMatch /\ PacketsMatch /\ ClaimsSpread /\ LeftIsRecent
      /\ p \in Mux!AllPorts /\ wire \subseteq Conns
      /\ left' = [left EXCEPT ![p] = Remembered]
      /\ long' = IF Mux!Brief(c) THEN long \ {p} ELSE long \cup {p}
  BY DEF MuxInv, MuxTypes, Mux!GivesUp
<1>2. /\ Remembered \in Nat /\ Lived \in Nat /\ Keeps = Lived + Remembered
  BY MuxConstants, MuxOk
<1>3. \A d \in Conns : /\ Mux!Listens(d)' => Mux!Listens(d) /\ d # c /\ conn'[d] = conn[d]
                       /\ Early(d)' <=> Early(d)
                       /\ conn'[d] = "failing" => d = c \/ conn[d] = "failing"
                       /\ conn'[d] = "told" => conn[d] = "told" \/ link = "ended"
  BY <1>1 DEF Mux!Listens, Early, MuxTypes
<1>4. link # "ended" => \A d \in Conns : Mux!Listens(d) /\ d # c => port[d] # p
  BY <1>1 DEF RoutesMatch
<1>5. \A q \in Mux!AllPorts : q # p => left'[q] = left[q] /\ (q \in long' <=> q \in long)
  BY <1>1 DEF MuxTypes
<1> HIDE DEF p
<1>6. MuxTypes'
  <2>1. left' \in [Mux!AllPorts -> 0 .. Remembered] /\ long' \subseteq Mux!AllPorts
    BY <1>1, <1>2 DEF MuxTypes
  <2> QED BY <1>1, <2>1 DEF MuxTypes
<1>7. RoutesMatch'
  <2>1. link # "ended" => \A x, d \in Conns : conn'[x] = "failing" /\ Mux!Listens(d)' => port[d] # port[x]
    BY <1>1, <1>3, <1>4 DEF RoutesMatch, p
  <2> QED BY <1>1, <1>3, <2>1 DEF RoutesMatch
<1>8. PacketsMatch'
  <2>1. ASSUME NEW x \in wire, NEW d \in Conns, Mux!Listens(d)', d # x, port[d] = port[x]
        PROVE  port[x] \in long'
    <3>1. port[x] \in long /\ port[x] \in Mux!AllPorts /\ link # "ended"
      BY <1>1, <1>3, <2>1 DEF PacketsMatch, RoutesMatch, MuxTypes
    <3>2. port[x] # p
      BY <1>3, <1>4, <2>1, <3>1
    <3> QED BY <1>5, <3>1, <3>2
  <2>2. ASSUME link # "ended", NEW d \in Conns, Mux!Listens(d)', port[d] \notin long'
        PROVE  \A i \in 1 .. Len(inbox[d]) : inbox[d][i] = "own"
    <3>1. port[d] # p /\ port[d] \in Mux!AllPorts
      BY <1>1, <1>3, <1>4, <2>2 DEF MuxTypes
    <3> QED BY <1>1, <1>3, <1>5, <2>2, <3>1 DEF PacketsMatch
  <2> QED BY <1>1, <1>3, <2>1, <2>2 DEF PacketsMatch
<1>9. LeftIsRecent'
  <2>1. ASSUME link # "ended", NEW d \in Conns, Mux!Listens(d)', port[d] \notin long'
        PROVE  left'[port[d]] = 0
    <3>1. port[d] # p /\ port[d] \in Mux!AllPorts
      BY <1>1, <1>3, <1>4, <2>1 DEF MuxTypes
    <3> QED BY <1>1, <1>3, <1>5, <2>1, <3>1 DEF LeftIsRecent
  <2>2. ASSUME NEW q \in Mux!AllPorts, left'[q] > 0, q \notin long'
        PROVE  \E i \in 1 .. Len(recent) : recent[i] = q /\ Len(recent) - i <= Keeps - left'[q]
    <3>1. CASE q = p
      <4>1. Mux!Brief(c) /\ left'[p] = Remembered
        BY <1>1, <2>2, <3>1 DEF MuxTypes
      <4> QED BY <1>2, <3>1, <4>1 DEF Mux!Brief, p
    <3>2. CASE q # p
      BY <1>1, <1>5, <2>2, <3>2 DEF LeftIsRecent
    <3> QED BY <3>1, <3>2
  <2> QED BY <2>1, <2>2 DEF LeftIsRecent
<1> QED BY <1>1, <1>6, <1>7, <1>8, <1>9, MuxStays DEF MuxInv

\* A connect that failed removes no route but its own.
LEMMA MuxRemoves ==
    ASSUME Mux!MuxAssumption, MuxInv, NEW c \in Conns, Mux!Removes(c) PROVE MuxInv'
<1>1. /\ MuxTypes /\ RoutesMatch /\ PacketsMatch /\ ClaimsSpread /\ LeftIsRecent
      /\ conn[c] = "failing" /\ conn' = [conn EXCEPT ![c] = "gone"]
      /\ routes' = [routes EXCEPT ![port[c]] = Mux!Nobody]
      /\ UNCHANGED <<cursor, port, inbox, link, wire, recent, left, long>>
  BY DEF MuxInv, Mux!Removes
<1>2. \A d \in Conns : /\ Mux!Listens(d)' <=> Mux!Listens(d)
                       /\ Early(d)' <=> Early(d)
                       /\ Mux!Listens(d) => conn'[d] = conn[d]
                       /\ conn'[d] \in {"told", "failing"} => conn[d] = conn'[d]
  BY <1>1 DEF Mux!Listens, Early, MuxTypes
<1>3. /\ routes' \in [Mux!AllPorts -> Conns \cup {Mux!Nobody}]
      /\ \A q \in Mux!AllPorts : routes'[q] = routes[q] \/ (routes'[q] = Mux!Nobody /\ q = port[c])
      /\ Mux!Nobody \notin Conns
  BY <1>1, MuxConstants DEF MuxTypes
<1>4. MuxTypes'
  BY <1>1, <1>3 DEF MuxTypes
<1>5. RoutesMatch'
  <2>1. \A q \in Mux!AllPorts, d \in Conns : routes'[q] = d => routes[q] = d
    BY <1>3
  <2>2. ASSUME link # "ended", NEW d \in Conns, Mux!Listens(d) PROVE routes'[port[d]] = d
    <3>1. routes[port[d]] = d /\ port[d] # port[c] /\ port[d] \in Mux!AllPorts
      BY <1>1, <2>2 DEF RoutesMatch, MuxTypes
    <3> QED BY <1>3, <3>1
  <2> QED BY <1>1, <1>2, <2>1, <2>2 DEF RoutesMatch
<1>6. PacketsMatch'
  <2>1. wire \subseteq Conns
    BY <1>1 DEF MuxTypes
  <2> QED BY <1>1, <1>2, <2>1 DEF PacketsMatch
<1>7. LeftIsRecent'
  BY <1>1, <1>2 DEF LeftIsRecent
<1> QED BY <1>1, <1>4, <1>5, <1>6, <1>7, MuxStays DEF MuxInv

\* The link's end, and what follows it.
LEMMA MuxLinks ==
    ASSUME Mux!MuxAssumption, MuxInv, Mux!LinkFails \/ Mux!LinkEnds PROVE MuxInv'
<1>1. MuxTypes /\ RoutesMatch /\ PacketsMatch /\ ClaimsSpread /\ LeftIsRecent
  BY DEF MuxInv
<1>2. CASE Mux!LinkFails
  <2>1. /\ link' = "failed" /\ link = "up"
        /\ UNCHANGED <<cursor, routes, conn, port, inbox, wire, recent, left, long>>
    BY <1>2 DEF Mux!LinkFails
  <2>2. MuxTypes'
    BY <1>1, <2>1 DEF MuxTypes
  <2>3. RoutesMatch' /\ PacketsMatch' /\ LeftIsRecent'
    BY <1>1, <2>1 DEF RoutesMatch, PacketsMatch, LeftIsRecent, Mux!Listens, Early
  <2> QED BY <1>1, <2>1, <2>2, <2>3, MuxStays DEF MuxInv
<1>3. CASE Mux!LinkEnds
  <2>1. /\ link' = "ended" /\ wire = {} /\ routes' = [p \in Mux!AllPorts |-> Mux!Nobody]
        /\ UNCHANGED <<cursor, conn, port, inbox, wire, recent, left, long>>
    BY <1>3 DEF Mux!LinkEnds
  <2>2. MuxTypes'
    BY <1>1, <2>1 DEF MuxTypes
  <2>3. RoutesMatch'
    <3>1. \A q \in Mux!AllPorts, d \in Conns : routes'[q] # d
      BY <2>1, MuxConstants
    <3> QED BY <1>1, <2>1, <3>1 DEF RoutesMatch, Early
  <2>4. PacketsMatch' /\ LeftIsRecent'
    BY <1>1, <2>1 DEF PacketsMatch, LeftIsRecent, Mux!Listens, Early
  <2> QED BY <1>1, <2>1, <2>2, <2>3, <2>4, MuxStays DEF MuxInv
<1> QED BY <1>2, <1>3

\* Who listens while the link carries has a route, so is not told that nobody holds the
\* other end.
LEMMA MuxLearns ==
    ASSUME MuxInv, NEW c \in Conns, Mux!Learns(c) PROVE MuxInv'
<1>1. /\ MuxTypes /\ RoutesMatch /\ Mux!Listens(c)
      /\ \A p \in Mux!AllPorts : routes[p] # c
      /\ conn' = [conn EXCEPT ![c] = "told"] /\ Mux!GivesUp(c)
      /\ UNCHANGED <<cursor, routes, port, inbox, link, wire, recent>>
  BY DEF MuxInv, Mux!Learns
<1>2. link = "ended"
  BY <1>1 DEF RoutesMatch, MuxTypes
<1> QED BY <1>1, <1>2, MuxGivesUp

\* A connection that leaves gives its port up.
LEMMA MuxLeaves ==
    ASSUME MuxInv, NEW c \in Conns, Mux!Fails(c) \/ Mux!Drops(c) PROVE MuxInv'
<1>1. CASE Mux!Fails(c)
  <2>1. /\ Mux!Listens(c) /\ conn' = [conn EXCEPT ![c] = "failing"] /\ Mux!GivesUp(c)
        /\ UNCHANGED <<cursor, routes, port, inbox, link, wire, recent>>
    BY <1>1 DEF Mux!Fails, Mux!Listens
  <2> QED BY <2>1, MuxGivesUp
<1>2. CASE Mux!Drops(c)
  <2>1. /\ Mux!Listens(c) /\ conn' = [conn EXCEPT ![c] = "gone"] /\ Mux!GivesUp(c)
        /\ UNCHANGED <<cursor, routes, port, inbox, link, wire, recent>>
    BY <1>2 DEF Mux!Drops
  <2> QED BY <2>1, MuxGivesUp
<1> QED BY <1>1, <1>2

\* A connection nothing refers to may be made again.
LEMMA MuxAgain ==
    ASSUME MuxInv, NEW c \in Conns, Mux!Again(c) PROVE MuxInv'
<1>1. /\ MuxTypes /\ RoutesMatch /\ PacketsMatch /\ ClaimsSpread /\ LeftIsRecent
      /\ c \notin wire /\ link = "up" /\ \A p \in Mux!AllPorts : routes[p] # c
      /\ conn[c] \in {"gone", "told"}
      /\ conn' = [conn EXCEPT ![c] = "idle"] /\ inbox' = [inbox EXCEPT ![c] = <<>>]
      /\ UNCHANGED <<cursor, routes, port, link, wire, recent, left, long>>
  BY DEF MuxInv, Mux!Again
<1>2. \A d \in Conns : /\ Mux!Listens(d)' <=> Mux!Listens(d)
                       /\ Mux!Listens(d) => d # c
                       /\ conn'[d] \in {"told", "failing"} => conn[d] = conn'[d]
                       /\ d # c => conn'[d] = conn[d] /\ inbox'[d] = inbox[d] /\ (Early(d)' <=> Early(d))
                       /\ inbox'[c] = <<>>
  BY <1>1 DEF Mux!Listens, Early, MuxTypes
<1>3. MuxTypes'
  <2>1. QueueDepth \in Nat
    BY MuxConstants, MuxOk
  <2>2. inbox' \in [Conns -> Seq({"own", "another's"})] /\ \A d \in Conns : Len(inbox'[d]) <= QueueDepth
    BY <1>1, <2>1 DEF MuxTypes
  <2> QED BY <1>1, <2>2 DEF MuxTypes
<1>4. RoutesMatch'
  BY <1>1, <1>2 DEF RoutesMatch
<1>5. PacketsMatch'
  <2>1. \A x \in wire : x \in Conns /\ x # c
    BY <1>1 DEF MuxTypes
  <2> QED BY <1>1, <1>2, <2>1 DEF PacketsMatch
<1>6. LeftIsRecent'
  BY <1>1, <1>2 DEF LeftIsRecent
<1> QED BY <1>1, <1>3, <1>4, <1>5, <1>6, MuxStays DEF MuxInv

\* Every step keeps the invariant.
LEMMA MuxStep ==
    ASSUME Mux!MuxAssumption, MuxInv, [Mux!Next]_(Mux!vars) PROVE MuxInv'
<1>1. CASE UNCHANGED Mux!vars
  <2>1. UNCHANGED <<cursor, routes, conn, port, inbox, link, wire, recent, left, long>>
    BY <1>1 DEF Mux!vars
  <2>2. MuxTypes /\ RoutesMatch /\ PacketsMatch /\ ClaimsSpread /\ LeftIsRecent
    BY DEF MuxInv
  <2>3. MuxTypes' /\ RoutesMatch' /\ PacketsMatch' /\ LeftIsRecent'
    BY <2>1, <2>2 DEF MuxTypes, RoutesMatch, PacketsMatch, LeftIsRecent, Mux!Listens, Early
  <2> QED BY <2>1, <2>2, <2>3, MuxStays DEF MuxInv
<1>2. CASE Mux!LinkFails \/ Mux!LinkEnds
  BY <1>2, MuxLinks
<1>3. ASSUME NEW c \in Conns,
             \/ Mux!Check(c) \/ Mux!Claim(c) \/ Mux!FarEndSends(c) \/ Mux!Demux(c)
             \/ Mux!Takes(c) \/ Mux!Fails(c) \/ Mux!Removes(c) \/ Mux!Drops(c)
             \/ Mux!Learns(c) \/ Mux!Again(c)
      PROVE  MuxInv'
  <2>1. CASE Mux!Check(c) \/ Mux!Claim(c) \/ Mux!FarEndSends(c) \/ Mux!Demux(c) \/ Mux!Takes(c)
    BY <2>1, MuxChecks, MuxClaims, MuxSends, MuxDemuxes, MuxTakes
  <2>2. CASE \/ Mux!Fails(c) \/ Mux!Removes(c) \/ Mux!Drops(c) \/ Mux!Learns(c) \/ Mux!Again(c)
    BY <2>2, MuxLeaves, MuxRemoves, MuxLearns, MuxAgain
  <2> QED BY <1>3, <2>1, <2>2
<1> QED BY <1>1, <1>2, <1>3 DEF Mux!Next

\* Whatever is opened and closed, and however late packets and failed connects are: but for
\* the port of a long-lived connection, none is claimed while the far end may still have the
\* last connection from it, and no packet reaches a connection it is not for; none is cut off
\* while the link carries; and when it ends each that was up finds out.
THEOREM MuxSound == SuiteSpec => []PortsApart
<1>1. SuiteInit => (part = "mux" => MuxInv)
  <2>1. SUFFICES ASSUME SuiteInit, part = "mux" PROVE MuxInv
    OBVIOUS
  <2>2. Mux!Init
    BY <2>1 DEF SuiteInit
  <2> QED BY <2>2, MuxInit, MuxOk
<1>2. (part = "mux" => MuxInv) /\ [SuiteNext]_suiteVars => (part = "mux" => MuxInv)'
  <2>1. SUFFICES ASSUME part = "mux" => MuxInv, [SuiteNext]_suiteVars, part' = "mux"
                 PROVE  MuxInv'
    OBVIOUS
  <2>2. part' = part
    BY <2>1 DEF SuiteNext, suiteVars, OnlyReliable, OnlyKeys, OnlyDriver, OnlyStream, OnlyMux,
                OnlyReplay
  <2>3. [Mux!Next]_(Mux!vars)
    BY <2>1, <2>2 DEF SuiteNext, suiteVars, OnlyReliable, OnlyKeys, OnlyDriver, OnlyStream,
                      OnlyReplay, Mux!vars
  <2> QED BY <2>1, <2>2, <2>3, MuxStep, MuxOk
<1>3. (part = "mux" => MuxInv) => PortsApart
  <2>1. SUFFICES ASSUME MuxInv, part = "mux" PROVE PortsApart
    BY DEF PortsApart
  <2>2. MuxTypes /\ RoutesMatch /\ PacketsMatch /\ ClaimsSpread /\ LeftIsRecent
    BY <2>1 DEF MuxInv
  <2>3. Mux!TypeOK
    BY <2>2 DEF MuxTypes, Mux!TypeOK
  <2>4. Mux!PortsApart
    BY <2>2 DEF PacketsMatch, LeftIsRecent, Mux!PortsApart
  <2>5. Mux!EndReaches
    BY <2>2 DEF RoutesMatch, Mux!Listens, Mux!EndReaches
  <2> QED BY <2>3, <2>4, <2>5 DEF PortsApart
<1> QED BY <1>1, <1>2, <1>3, PTL DEF SuiteSpec
=============================================================================
