------------------------------- MODULE Reliable -------------------------------
(***************************************************************************)
(* The reliability layer under the VPN client's control channel            *)
(* (synology-filestation-openvpn, reliable.rs, and next_packet and handle  *)
(* of channel.rs): one direction of it, a SendWindow at one end, the       *)
(* RecvWindow of the other, and a network between them that loses, repeats *)
(* and reorders the messages one way and the acknowledgements the other.   *)
(* The directions are alike and share nothing but datagrams: a message of  *)
(* the receiving end carries acknowledgements too, at any moment.          *)
(*                                                                         *)
(* A message is its id.  Ids do not wrap (the code says why it need not    *)
(* care).  Time is only whether a message's backoff has passed: how long   *)
(* it is, doubled each time, changes when, not what.                       *)
(***************************************************************************)
EXTENDS Integers, Sequences, FiniteSets

CONSTANTS SendCapacity,     \* SendWindow::CAPACITY
          RecvCapacity,     \* RecvWindow::CAPACITY
          FastRetransmit,   \* FAST_RETRANSMIT_AFTER
          RecentAcks,       \* RECENT_ACKS
          MaxAcks,          \* Acks::MAX
          MaxMessages,      \* bound: messages of the session
          MaxAckPackets     \* bound: packets with acknowledgements on their way

ASSUME ReliableAssumption ==
    /\ SendCapacity \in Nat \ {0} /\ RecvCapacity \in Nat /\ SendCapacity <= RecvCapacity
    /\ FastRetransmit \in Nat \ {0}
    /\ RecentAcks \in Nat \ {0} /\ MaxAcks \in Nat \ {0}
    /\ MaxMessages \in Nat /\ MaxAckPackets \in Nat \ {0}

VARIABLES nextId,       \* SendWindow: the id of the next message
          inFlight,     \* SendWindow: messages not acknowledged
          backingOff,   \* of those, the ones sent whose next_try has not come
          laterAcks,    \* acknowledgements seen for later messages, up to FastRetransmit
          net,          \* messages on their way
          acks,         \* acknowledgements on their way, a set of ids per packet
          expected,     \* RecvWindow::next_expected
          buffered,     \* RecvWindow: messages ahead of it
          pendingAcks,  \* RecvWindow: ids to acknowledge
          recentAcks,   \* RecvWindow: the place of each id acknowledged lately, the
                        \* newest in place 1; 0 for an id not in the list
          delivered     \* history: the messages handed up

sendVars == <<nextId, inFlight, backingOff, laterAcks>>
recvVars == <<expected, buffered, pendingAcks, recentAcks, delivered>>
vars == <<sendVars, net, acks, recvVars>>

Id == 0 .. MaxMessages - 1

IdsIn(s) == {s[k] : k \in 1 .. Len(s)}

\* Types; no id is owed twice, and the ids acknowledged lately are in a list: one in
\* each place from the first.
TypeOK ==
    /\ nextId \in 0 .. MaxMessages
    /\ inFlight \subseteq Id /\ backingOff \subseteq inFlight
    /\ laterAcks \in [Id -> 0 .. FastRetransmit]
    /\ net \subseteq Id
    /\ acks \subseteq SUBSET Id
    /\ expected \in 0 .. MaxMessages
    /\ buffered \subseteq Id
    /\ pendingAcks \in Seq(Id) /\ Len(pendingAcks) = Cardinality(IdsIn(pendingAcks))
    /\ recentAcks \in [Id -> 0 .. RecentAcks]
    /\ \A i, j \in Id : i # j /\ recentAcks[i] > 0 => recentAcks[i] # recentAcks[j]
    /\ \A i \in Id : \A place \in 1 .. recentAcks[i] - 1 : \E j \in Id : recentAcks[j] = place
    /\ delivered \in Seq(Id)

Init ==
    /\ nextId = 0 /\ inFlight = {} /\ backingOff = {}
    /\ laterAcks = [i \in Id |-> 0]
    /\ net = {} /\ acks = {}
    /\ expected = 0 /\ buffered = {}
    /\ pendingAcks = <<>> /\ recentAcks = [i \in Id |-> 0]
    /\ delivered = <<>>

-----------------------------------------------------------------------------
(* The sending end. *)

\* Mutant: a free slot is taken for permission.
Full_CountsOnly == Cardinality(inFlight) >= SendCapacity

\* is_full: no slot is free, or the oldest message in flight is a window behind.
Full ==
    \/ Cardinality(inFlight) >= SendCapacity
    \/ \E oldest \in inFlight : nextId - oldest >= SendCapacity

\* queue: a message that finds room.  One that does not waits in the caller's outbox.
Queue ==
    /\ ~ Full /\ nextId < MaxMessages
    /\ nextId' = nextId + 1
    /\ inFlight' = inFlight \cup {nextId}
    /\ UNCHANGED <<backingOff, laterAcks, net, acks, recvVars>>

\* is_due: never sent, backed off for long enough, or condemned by later acks.
Due == {i \in inFlight : i \notin backingOff \/ laterAcks[i] >= FastRetransmit}

\* next_due: the lowest id that is due goes out, and backs off anew.
Transmit ==
    \E i \in Due :
        /\ \A j \in Due : i <= j
        /\ net' = net \cup {i}
        /\ backingOff' = backingOff \cup {i}
        /\ laterAcks' = [laterAcks EXCEPT ![i] = 0]
        /\ UNCHANGED <<nextId, inFlight, acks, recvVars>>

\* next_try comes.
BackedOff(i) ==
    /\ i \in backingOff
    /\ backingOff' = backingOff \ {i}
    /\ UNCHANGED <<nextId, inFlight, laterAcks, net, acks, recvVars>>

\* Mutant: an acknowledgement is taken for all the messages before it.
Acknowledge_Cumulative(ids) ==
    /\ inFlight' = {i \in inFlight : \A a \in ids : a < i}
    /\ backingOff' = backingOff \cap inFlight'
    /\ UNCHANGED <<nextId, laterAcks>>

\* acknowledge: those in flight leave the window, and each is evidence against the
\* earlier ones that stay.
Acknowledge(ids) ==
    LET gone == ids \cap inFlight
        seen(i) == laterAcks[i] + Cardinality({a \in gone : i < a})
    IN  /\ inFlight' = inFlight \ gone
        /\ backingOff' = backingOff \ gone
        /\ laterAcks' = [i \in Id |-> IF i \in gone \/ i \notin inFlight THEN 0
                                      ELSE IF seen(i) > FastRetransmit THEN FastRetransmit
                                      ELSE seen(i)]
        /\ UNCHANGED nextId

\* A packet with acknowledgements arrives, and perhaps again.
AcksArrive(ids) ==
    /\ ids \in acks
    /\ acks' \in {acks, acks \ {ids}}
    /\ Acknowledge(ids)
    /\ UNCHANGED <<net, recvVars>>

-----------------------------------------------------------------------------
(* The receiving end. *)

\* in_window: only the upper bound is checked.
InWindow(i) == i < expected + RecvCapacity

\* Mutant: an id is owed once for each time its message comes.
Owing_EachTime(i) == Append(pendingAcks, i)

\* Mutant: a message seen before is not acknowledged again.
Owing_NewOnly(i) ==
    IF i >= expected /\ i \notin buffered THEN Append(pendingAcks, i) ELSE pendingAcks

\* The ids to acknowledge, with that of a message that was kept or seen before.
Owing(i) ==
    IF i \in IdsIn(pendingAcks)
    THEN pendingAcks ELSE Append(pendingAcks, i)

\* Mutant: the first message kept is handed up, whether or not it is the next.
HandUp_FirstKept(kept) ==
    \/ kept = {} /\ UNCHANGED <<expected, buffered, delivered>>
    \/ \E first \in kept :
          /\ \A i \in kept : first <= i
          /\ expected' = first + 1
          /\ delivered' = Append(delivered, first)
          /\ buffered' = kept \ {first}

\* next_in_order until there is no more: everything up to the first gap.
HandUp(kept) ==
    \E n \in expected .. MaxMessages :
        /\ expected .. n - 1 \subseteq kept /\ n \notin kept
        /\ expected' = n
        /\ delivered' = delivered \o [k \in 1 .. n - expected |-> expected + k - 1]
        /\ buffered' = kept \ (expected .. n - 1)

\* accept, and what Session::handle does next.  A message beyond the window is
\* dropped, and not acknowledged; one seen before is acknowledged again.
Receive(i) ==
    /\ i \in net
    /\ net' \in {net, net \ {i}}
    /\ IF InWindow(i)
       THEN /\ pendingAcks' = Owing(i)
            /\ HandUp(IF i < expected THEN buffered ELSE buffered \cup {i})
       ELSE UNCHANGED <<expected, buffered, pendingAcks, delivered>>
    /\ UNCHANGED <<sendVars, acks, recentAcks>>

Smaller(m, n) == IF m < n THEN m ELSE n

\* take_acks: as many as there is room for go to the front of the recent ones, which
\* make room for them and close the gaps they leave there.  The packet carries the most
\* recent, so those acknowledged before are acknowledged again.
TakeAcks ==
    LET room == Smaller(MaxAcks, RecentAcks)
        n == Smaller(room, Len(pendingAcks))
        promoted == {pendingAcks[p] : p \in 1 .. n}
        place(i) ==
            IF i \in promoted THEN CHOOSE p \in 1 .. n : pendingAcks[p] = i
            ELSE n + Cardinality({j \in Id \ promoted : recentAcks[j] \in 1 .. recentAcks[i]})
        listed(i) == i \in promoted \/ recentAcks[i] > 0
    IN  /\ pendingAcks' = SubSeq(pendingAcks, n + 1, Len(pendingAcks))
        /\ recentAcks' = [i \in Id |-> IF listed(i) /\ place(i) <= RecentAcks THEN place(i) ELSE 0]
        /\ acks' = acks \cup {{i \in Id : recentAcks'[i] \in 1 .. room}}

\* next_packet at the receiving end: acknowledgements are owed, or they ride on a
\* message that is going out anyway.
SendAcks ==
    /\ pendingAcks # <<>> \/ \E i \in Id : recentAcks[i] > 0
    /\ TakeAcks
    /\ Cardinality(acks') <= MaxAckPackets
    /\ UNCHANGED <<sendVars, net, expected, buffered, delivered>>

-----------------------------------------------------------------------------
(* The network. *)

Lose ==
    \/ \E i \in net : net' = net \ {i} /\ UNCHANGED <<sendVars, acks, recvVars>>
    \/ \E ids \in acks : acks' = acks \ {ids} /\ UNCHANGED <<sendVars, net, recvVars>>

Next ==
    \/ Queue \/ Transmit \/ SendAcks \/ Lose
    \/ \E i \in Id : BackedOff(i) \/ Receive(i)
    \/ \E ids \in SUBSET Id : AcksArrive(ids)

Spec == Init /\ [][Next]_vars

\* The driver polls whenever there is something due or owed, and time passes.  The
\* network delivers what is sent again and again.
Fairness ==
    /\ WF_vars(Queue)
    /\ WF_vars(Transmit)
    /\ WF_vars(pendingAcks # <<>> /\ SendAcks)
    /\ \A i \in Id :
          /\ WF_vars(BackedOff(i))
          /\ SF_vars(Receive(i))
          /\ SF_vars(\E ids \in SUBSET Id : i \in ids /\ AcksArrive(ids))

FairSpec == Spec /\ Fairness

-----------------------------------------------------------------------------
(* Properties. *)

\* "The window is a promise": the sender never gets so far ahead that the receiver
\* drops a message without an acknowledgement, in whatever order acknowledgements
\* free its slots.
PromiseKept == \A i \in inFlight \cup net : InWindow(i)

\* What the sender has let go of, the receiver has: no acknowledgement -- late,
\* repeated, of a duplicate -- clears a message that did not arrive.
AcknowledgedIsKept == \A i \in 0 .. nextId - 1 : i \in inFlight \/ i < expected \/ i \in buffered

\* The windows and the network between them are a stream.
StreamOf == INSTANCE Stream WITH accepted <- nextId, delivered <- delivered
IsStream == StreamOf!Spec

\* Every message is acknowledged in the end, through any finite bout of losses, and so
\* the window moves on: nobody waits for a message that is not coming.
WindowMovesOn == \A i \in Id : (i < nextId) ~> (i < nextId /\ i \notin inFlight)
=============================================================================
