----------------------------- MODULE ReplayWindow -----------------------------
(***************************************************************************)
(* Packet ids and the replay window of one direction of a VPN session      *)
(* (synology-filestation-openvpn, replay.rs, and the numbering of data.rs  *)
(* and channel.rs): the sender numbers its packets from one and stamps     *)
(* them with its clock, the network repeats, loses and reorders them, and  *)
(* the receiver decides which to take.                                     *)
(*                                                                         *)
(* The data channel stamps everything with the same time: there the clock  *)
(* stands still.                                                           *)
(***************************************************************************)
EXTENDS Integers

CONSTANTS Window,      \* WINDOW: 64
          LastId,      \* the last id: 2^32 - 2, for u32::MAX is never used
          LastClock    \* bound: the sender's clock

ReplayAssumption == Window \in Nat \ {0} /\ LastId \in Nat /\ LastClock \in Nat

VARIABLES sender,      \* [next, clock]
          window,      \* the ReplayWindow: [time, highest, seen]
          sent,        \* the packets sent: [id, time]
          accepted,    \* the packets taken
          repeated,    \* the packets taken again
          refused      \* history: the packet refused last, and the window that refused it

vars == <<sender, window, sent, accepted, repeated, refused>>

Packets == [id : 1 .. LastId, time : 0 .. LastClock]
NoPacket == [id |-> 0, time |-> 0]

TypeOK ==
    /\ sender \in [next : 1 .. LastId + 1, clock : 0 .. LastClock]
    /\ window \in [time : 0 .. LastClock, highest : 0 .. LastId, seen : SUBSET (0 .. Window - 1)]
    /\ sent \subseteq Packets
    /\ accepted \subseteq sent /\ repeated \subseteq accepted

Init ==
    /\ sender \in [next : {1}, clock : 0 .. LastClock]
    /\ window = [time |-> 0, highest |-> 0, seen |-> {}]
    /\ sent = {} /\ accepted = {} /\ repeated = {}
    /\ refused = [packet |-> NoPacket, by |-> window]

ClockMoves ==
    /\ sender.clock < LastClock
    /\ sender' = [sender EXCEPT !.clock = @ + 1]
    /\ UNCHANGED <<window, sent, accepted, repeated, refused>>

\* DataChannel::encrypt, ControlChannel::next_packet: numbers are not used twice, and
\* run out.
Send ==
    /\ sender.next <= LastId
    /\ sent' = sent \cup {[id |-> sender.next, time |-> sender.clock]}
    /\ sender' = [sender EXCEPT !.next = @ + 1]
    /\ UNCHANGED <<window, accepted, repeated, refused>>

-----------------------------------------------------------------------------
(* ReplayWindow::accept.  seen holds distances from the highest id. *)

\* A slip: the window forgets when it moves.
Shifted_Forgets(seen, advance) == {0}

\* (seen << advance) | 1, of Window bits.
Shifted(seen, advance) == {0} \cup {d \in 0 .. Window - 1 : d - advance \in seen}

\* A slip: the window is one shorter.
TooOld_Early(w, p) == w.highest - p.id >= Window - 1

TooOld(w, p) == w.highest - p.id >= Window

\* A later clock starts a fresh sequence.
Restarts(w, p) == p.time > w.time
Advances(w, p) == p.time = w.time /\ p.id > w.highest
FillsIn(w, p) ==
    /\ p.time = w.time /\ p.id <= w.highest
    /\ ~ TooOld(w, p) /\ w.highest - p.id \notin w.seen

Accept(p) ==
    /\ \/ /\ Restarts(window, p)
          /\ window' = [time |-> p.time, highest |-> p.id, seen |-> {0}]
       \/ /\ Advances(window, p)
          /\ window' = [window EXCEPT !.highest = p.id,
                                      !.seen = Shifted(@, p.id - window.highest)]
       \/ /\ FillsIn(window, p)
          /\ window' = [window EXCEPT !.seen = @ \cup ({window.highest - p.id} \cap 0 .. Window - 1)]
    /\ accepted' = accepted \cup {p}
    /\ repeated' = IF p \in accepted THEN repeated \cup {p} ELSE repeated
    /\ UNCHANGED <<sender, sent, refused>>

Refuse(p) ==
    /\ ~ Restarts(window, p) /\ ~ Advances(window, p) /\ ~ FillsIn(window, p)
    /\ refused' = [packet |-> p, by |-> window]
    /\ UNCHANGED <<sender, window, sent, accepted, repeated>>

Next ==
    \/ ClockMoves \/ Send
    \/ \E p \in sent : Accept(p) \/ Refuse(p)

Spec == Init /\ [][Next]_vars

-----------------------------------------------------------------------------
(* Properties. *)

\* No packet is taken twice, however often and late it arrives.
TakenOnce == repeated = {}

\* Only what was taken before, is older than the window, or bears an earlier time than
\* the latest is refused.
RefusedForCause ==
    \/ refused.packet = NoPacket
    \/ refused.packet \in accepted
    \/ refused.packet.time < refused.by.time
    \/ refused.by.highest - refused.packet.id >= Window

-----------------------------------------------------------------------------
(* The invariant behind them: the window is what was taken. *)

WindowIsAccepted ==
    /\ \A p \in accepted : p.time <= window.time
    /\ \A p \in accepted : p.time = window.time => p.id <= window.highest
    /\ \A d \in 0 .. Window - 1 :
          d \in window.seen <=> [id |-> window.highest - d, time |-> window.time] \in accepted
=============================================================================
