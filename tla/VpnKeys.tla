------------------------------- MODULE VpnKeys -------------------------------
(***************************************************************************)
(* Key generations of a VPN session (synology-filestation-openvpn,         *)
(* session.rs, channel.rs, data.rs): the first handshake, the peer's       *)
(* renegotiations, and which keys the tunnel encrypts and decrypts with.   *)
(*                                                                         *)
(* The peer numbers its generations; on the wire a generation is a key id, *)
(* and ids come round again.  It sends the messages of a generation again  *)
(* until they are acknowledged, so one it has said may arrive at any       *)
(* moment, any number of times and in any order -- but not when it is Lag  *)
(* generations old, or older than the one the session runs on, which the   *)
(* code takes for granted (channel.rs, promote).  What the windows do      *)
(* about it is Reliable's matter: here a KeyState hands up in order.       *)
(*                                                                         *)
(* A call of Session::handle is one step: it is synchronous and the driver *)
(* is its only caller.  The client is a record, and each stage of handle   *)
(* a function on it.                                                       *)
(***************************************************************************)
EXTENDS Integers, Sequences, FiniteSets

CONSTANTS Ids,              \* key ids after the first: 7 in the code
          Lag,              \* how many generations a datagram can be late
          MaxGen,           \* bound: generations
          Firsts, Laters    \* what the peer may say in the first generation, and in others

KeysAssumption ==
    /\ Ids \in Nat \ {0} /\ Lag \in 1 .. Ids
    /\ MaxGen \in Nat
    /\ Firsts # {} /\ Laters # {}

VARIABLES client,     \* the Session
          asked,      \* per generation: what it has sent -- 1 a hello, 2 its key
                      \* material, 3 a push request
          script,     \* what the peer says in each generation, in order
          said,       \* per generation: how much of it it has said
          peerGen,    \* the peer's latest generation
          peerKeys,   \* the generations the peer has sent data under
          tried       \* history: the generations that were under negotiation

vars == <<client, asked, script, said, peerGen, peerKeys, tried>>

None == -1
Gens == 0 .. MaxGen
KeyOf(g) == IF g = 0 THEN 0 ELSE 1 + ((g - 1) % Ids)

\* A KeyState: its generation, the next message it hands up, and those it holds.
KeyState(g) == [gen |-> g, next |-> 1, held |-> {}]
NoState == KeyState(None)

\* Where in the peer's script its key material is.
KeysAt(g) == IF \E n \in 1 .. Len(script[g]) : script[g][n] = "keys"
             THEN CHOOSE n \in 1 .. Len(script[g]) : script[g][n] = "keys" ELSE 0

PeerHasKeys(g) == KeysAt(g) # 0 /\ said[g] >= KeysAt(g)

TypeOK ==
    /\ client.phase \in {"tls", "keys", "push", "ready"}
    /\ client.end \in {"no", "tls", "refused", "key-method"}
    /\ \A s \in {client.primary, client.pending} :
          s.gen \in Gens \cup {None} /\ s.next \in 1 .. 8 /\ s.held \subseteq 1 .. 7
    /\ client.superseded \subseteq 0 .. Ids
    /\ \A g \in {client.reneg, client.keys, client.data, client.previous} : g \in Gens \cup {None}
    /\ asked \in [Gens -> 0 .. 3]
    /\ said \in [Gens -> 0 .. 7]
    /\ peerGen \in Gens
    /\ peerKeys \subseteq Gens
    /\ tried \subseteq Gens

Init ==
    /\ client = [phase |-> "tls", end |-> "no", met |-> FALSE, result |-> "ok",
                 primary |-> KeyState(0), pending |-> NoState, superseded |-> {},
                 done |-> FALSE, inbound |-> <<>>,
                 reneg |-> None, renegDone |-> FALSE, renegSent |-> FALSE, renegIn |-> <<>>,
                 keys |-> None, data |-> None, previous |-> None]
    /\ \E first \in Firsts, later \in Laters :
          script = [g \in Gens |-> IF g = 0 THEN first ELSE later]
    /\ asked = [g \in Gens |-> IF g = 0 THEN 1 ELSE 0]
    /\ said = [g \in Gens |-> 0]
    /\ peerGen = 0
    /\ peerKeys = {}
    /\ tried = {}

-----------------------------------------------------------------------------
(* ControlChannel::handle. *)

\* Mutant: an abandoned generation's reset starts it again.
Fresh_EvenAbandoned(c, key) == key # KeyOf(c.primary.gen)

\* A soft reset that begins a generation.
Fresh(c, key) ==
    /\ key # KeyOf(c.primary.gen)
    /\ c.pending.gen # None => key # KeyOf(c.pending.gen)
    /\ key \notin c.superseded

\* A new KeyState replaces the one under negotiation, whose key is remembered.
Begun(c, g) ==
    [c EXCEPT !.pending = KeyState(g),
              !.superseded = IF c.pending.gen = None THEN @ ELSE @ \cup {KeyOf(c.pending.gen)}]

\* RecvWindow::accept: kept until its turn comes, unless it has been.
Hold(s, n) == IF n < s.next THEN s ELSE [s EXCEPT !.held = @ \cup {n}]

Channel(c, g, n) ==
    LET key == KeyOf(g)
        known == IF n = 1 /\ g # 0 /\ Fresh(c, key) THEN Begun(c, g) ELSE c
        heard == [known EXCEPT !.met = TRUE]
    IN  CASE ~ c.met /\ ~ (g = 0 /\ n = 1) -> [c EXCEPT !.result = "unexpected-first"]
          [] OTHER ->
             CASE key = KeyOf(heard.primary.gen) -> [heard EXCEPT !.primary = Hold(@, n)]
               [] heard.pending.gen # None /\ key = KeyOf(heard.pending.gen) ->
                     [heard EXCEPT !.pending = Hold(@, n)]
               [] OTHER -> [heard EXCEPT !.result = "other-key"]

-----------------------------------------------------------------------------
(* Session::handle. *)

\* The messages next in order, up to the first gap.
InOrder(s) ==
    LET upTo == CHOOSE n \in s.next .. 8 :
                    n \notin s.held /\ s.next .. n - 1 \subseteq s.held
    IN  [k \in 1 .. upTo - s.next |-> script[s.gen][s.next + k - 1]]

Handed(s) == [s EXCEPT !.next = @ + Len(InOrder(s)), !.held = {n \in @ : n > s.next + Len(InOrder(s))}]

Plaintext(records) == SelectSeq(records, LAMBDA r : r \notin {"reset", "flight"})
HasFlight(records) == \E k \in 1 .. Len(records) : records[k] = "flight"
Records(records) == SelectSeq(records, LAMBDA r : r # "reset")

\* poll_control: the pending generation's records first.  They go to the renegotiation's
\* TLS if that is of their key, and otherwise to the primary's, which a record of
\* another connection breaks.
Feed(c) ==
    LET theirs == IF c.pending.gen = None THEN <<>> ELSE InOrder(c.pending)
        ours == InOrder(c.primary)
        routed == c.reneg # None /\ KeyOf(c.reneg) = KeyOf(c.pending.gen)
        pending == IF c.pending.gen = None THEN NoState ELSE Handed(c.pending)
    IN  IF Records(theirs) # <<>> /\ (~ routed \/ c.reneg # c.pending.gen)
        THEN [c EXCEPT !.end = "tls"]
        ELSE [c EXCEPT !.pending = pending, !.primary = Handed(@),
                       !.renegDone = @ \/ HasFlight(theirs),
                       !.renegIn = @ \o Plaintext(theirs),
                       !.done = @ \/ HasFlight(ours),
                       !.inbound = @ \o Plaintext(ours)]

\* send_our_key_material.
SendKeys(c) == IF c.phase = "tls" /\ c.done THEN [c EXCEPT !.phase = "keys"] ELSE c

\* An error for this datagram ends handle, a fatal one the session.
Fail(c) == [c EXCEPT !.result = "error"]
Refuse(c) == [c EXCEPT !.result = "error", !.end = "refused"]
Text(c, message) == IF message = "refused" THEN Refuse(c) ELSE Fail(c)

OpenTunnel(c) == [c EXCEPT !.data = c.primary.gen]

\* receive_push_reply: one message of the buffer, whatever it is.
ReceivePush(c) ==
    IF c.phase # "push" \/ c.inbound = <<>> THEN c ELSE
    LET rest == [c EXCEPT !.inbound = Tail(@)]
    IN  CASE Head(c.inbound) = "push" -> OpenTunnel([rest EXCEPT !.phase = "ready"])
          [] Head(c.inbound) = "keys" -> Fail(rest)
          [] OTHER -> Text(rest, Head(c.inbound))

\* receive_their_key_material, which asks for the push reply.
ReceiveKeys(c) ==
    IF c.phase # "keys" \/ c.inbound = <<>> THEN c ELSE
    LET rest == [c EXCEPT !.inbound = Tail(@)]
    IN  IF Head(c.inbound) = "keys"
        THEN ReceivePush([rest EXCEPT !.keys = c.primary.gen, !.phase = "push"])
        ELSE Text(rest, Head(c.inbound))

\* Mutant: a renegotiation under way is not begun again for the next generation.
BeginRenegotiation_Once(c) ==
    IF c.pending.gen = None \/ c.reneg # None THEN c
    ELSE [c EXCEPT !.reneg = c.pending.gen, !.renegDone = FALSE, !.renegSent = FALSE, !.renegIn = <<>>]

\* begin_renegotiation: one for each generation the channel is told of.
BeginRenegotiation(c) ==
    IF c.pending.gen = None \/ (c.reneg # None /\ KeyOf(c.reneg) = KeyOf(c.pending.gen)) THEN c
    ELSE [c EXCEPT !.reneg = c.pending.gen, !.renegDone = FALSE, !.renegSent = FALSE, !.renegIn = <<>>]

\* Mutant: a message it has no use for stays at the head of the buffer.
Consumed_Not(c) == c
\* Mutant: the tunnel stays on the keys it was opened with.
Switch_TunnelStays(c) ==
    [c EXCEPT !.primary = c.pending, !.pending = NoState, !.superseded = {},
              !.done = TRUE, !.inbound = Tail(c.renegIn), !.keys = c.pending.gen,
              !.reneg = None, !.renegIn = <<>>, !.previous = c.data]

Consumed(c) == [c EXCEPT !.renegIn = Tail(@)]

\* Everything swaps at once.  The tunnel is keyed anew if there is one, and its old
\* keys stay for what is still on its way.
Switch(c) ==
    LET promoted == [c EXCEPT !.primary = c.pending, !.pending = NoState, !.superseded = {},
                              !.done = TRUE, !.inbound = Tail(c.renegIn), !.keys = c.pending.gen,
                              !.reneg = None, !.renegIn = <<>>, !.previous = c.data]
    IN  IF c.data = None THEN promoted ELSE OpenTunnel(promoted)

\* advance_renegotiation.
AdvanceRenegotiation(c) ==
    IF c.reneg = None THEN c ELSE
    LET sent == [c EXCEPT !.renegSent = @ \/ c.renegDone]
    IN  CASE c.renegIn = <<>> -> sent
          [] c.renegIn # <<>> /\ Head(c.renegIn) = "keys" -> Switch(sent)
          [] OTHER -> Text(Consumed(sent), Head(c.renegIn))

\* A stage runs if the one before it did not return early.
Goes(c) == c.result = "ok" /\ c.end = "no"

Parsed(c) == IF Goes(c) THEN ReceiveKeys(c) ELSE c
Answered(c) == IF Goes(c) THEN ReceivePush(c) ELSE c
Advanced(c) == IF Goes(c) THEN AdvanceRenegotiation(BeginRenegotiation(c)) ELSE c

\* poll_transmit after it: what TLS has to say goes out, under its generation's key.
Asked(c) ==
    [g \in Gens |->
        LET now == CASE g = c.primary.gen /\ c.phase = "push" -> 3
                     [] (g = c.primary.gen /\ c.phase = "keys") \/ (g = c.reneg /\ c.renegSent) -> 2
                     [] g = c.reneg -> 1
                     [] OTHER -> 0
        IN  IF now > asked[g] THEN now ELSE asked[g]]

Arrives(g, n) ==
    /\ client.end = "no" /\ n \in 1 .. said[g]
    /\ g > peerGen - Lag /\ g >= client.primary.gen
    /\ \E heard \in {Channel([client EXCEPT !.result = "ok"], g, n)} :
          \E fed \in {IF Goes(heard) THEN SendKeys(Feed(heard)) ELSE heard} :
             \E parsed \in {Parsed(fed)} : \E answered \in {Answered(parsed)} :
                client' = Advanced(answered)
    /\ asked' = IF client'.end = "no" THEN Asked(client') ELSE asked
    /\ tried' = tried \cup ({client'.pending.gen} \ {None})
    /\ UNCHANGED <<script, said, peerGen, peerKeys>>

-----------------------------------------------------------------------------
(* receive_payload: a data packet of the peer's generation g. *)

Decrypted(c, g) == IF KeyOf(g) = KeyOf(c.data) THEN [c EXCEPT !.previous = None] ELSE c

Readable(c, g) ==
    \/ KeyOf(g) = KeyOf(c.data) /\ g = c.data
    \/ KeyOf(g) # KeyOf(c.data) /\ c.previous # None /\ g = c.previous

Payload(g) ==
    /\ client.end = "no" /\ client.data # None
    /\ g \in peerKeys
    /\ Readable(client, g)
    /\ client' = Decrypted(client, g)
    /\ UNCHANGED <<asked, script, said, peerGen, peerKeys, tried>>

-----------------------------------------------------------------------------
(* The peer. *)

\* It says the next message of its latest generation, once it has what the message
\* answers.
Says ==
    LET n == said[peerGen] + 1
    IN  /\ n <= Len(script[peerGen])
        /\ n = 2 => asked[peerGen] >= 1
        /\ n > 2 => asked[peerGen] >= 2
        /\ script[peerGen][n] = "push" => asked[peerGen] = 3
        /\ said' = [said EXCEPT ![peerGen] = n]
        /\ UNCHANGED <<client, asked, script, peerGen, peerKeys, tried>>

\* It starts another, having finished with the last or given it up.
Renegotiates ==
    /\ peerGen < MaxGen /\ KeysAt(0) # 0 /\ PeerHasKeys(0)
    /\ peerGen' = peerGen + 1
    /\ said' = [said EXCEPT ![peerGen + 1] = 1]
    /\ UNCHANGED <<client, asked, script, peerKeys, tried>>

\* It sends data under a generation whose keys it has.
Switches ==
    /\ PeerHasKeys(peerGen) /\ peerGen \notin peerKeys
    /\ peerKeys' = peerKeys \cup {peerGen}
    /\ UNCHANGED <<client, asked, script, said, peerGen, tried>>

Next ==
    \/ \E g \in Gens, n \in 1 .. 7 : Arrives(g, n)
    \/ \E g \in Gens : Payload(g)
    \/ Says \/ Renegotiates \/ Switches

Spec == Init /\ [][Next]_vars

-----------------------------------------------------------------------------
(* Properties. *)

\* No record reaches the TLS connection of another generation: a renegotiation is there
\* before its records are, although handle may return before it is begun.
NeverMisrouted == client.end # "tls"

\* The tunnel, the control channel and the keys change together, in both directions:
\* what it encrypts with is what the channel runs on, the peer has those keys already,
\* and what it still decrypts with is older.
TunnelInStep ==
    client.end = "no" =>
        /\ client.data # None => client.data = client.primary.gen /\ client.data = client.keys
        /\ client.data # None => PeerHasKeys(client.data)
        /\ client.previous # None => client.previous < client.data
        /\ client.reneg # None => client.pending.gen >= client.reneg

\* A generation once under negotiation and given up does not come back, in whatever
\* order what is left of it arrives (the comment on `abandoned`, ControlChannel::handle).
Moves ==
    client'.pending.gen \notin {client.pending.gen, None} => client'.pending.gen \notin tried
AbandonedStaysSo == [][Moves]_vars

\* "Acted on, it replaces the handshake actually in progress": what is left of a
\* generation the peer gave up does not replace the one it is at.
LiveKept ==
    peerGen' = peerGen /\ client.pending.gen = peerGen /\ client'.end = "no" =>
        client'.pending.gen = peerGen \/ client'.primary.gen = peerGen
LiveHandshakeKept == [][LiveKept]_vars

\* "so the key ids recycling around the eight-value space are not refused forever"
\* (superseded, channel.rs): the peer's present attempt is not refused.
AttemptHeard ==
    client.met /\ client.end = "no" => KeyOf(peerGen) \notin client.superseded

\* What the peer has to say it says, and of what it sends again and again something
\* the client has not had yet arrives.
Fairness ==
    /\ WF_vars(Says)
    /\ WF_vars(Renegotiates)
    /\ SF_vars(\E g \in Gens, n \in 1 .. 7 : Arrives(g, n) /\ client' # client)

FairSpec == Spec /\ Fairness

\* Once the peer renegotiates no sooner than it was asked for the push reply, a
\* renegotiation whose messages arrive completes, whatever else the peer says in it, and
\* the tunnel is there.
Renegotiated ==
    [](peerGen > 0 => asked[0] = 3)
        => <>(client.end # "no" \/ (client.primary.gen = MaxGen /\ client.data # None))
=============================================================================
