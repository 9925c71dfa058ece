------------------------------ MODULE TunnelMux ------------------------------
(***************************************************************************)
(* Several TCP connections over one tunnel (synology-filestation-openvpn,  *)
(* mux.rs): the local port each is told apart by, the routes the packets   *)
(* that come back are handed out with, and what becomes of them when a     *)
(* connection or the link ends.                                            *)
(*                                                                         *)
(* The far end keeps a connection that was closed for a while, under the   *)
(* port it came from, and may send to it.  Nobody here knows for how long: *)
(* it is taken to have forgotten one when Remembered others were opened    *)
(* after its port was given up, and nothing it sent is on its way for      *)
(* longer.  That is a matter of the time since the port was given up; the  *)
(* cursor comes round by the claims since it was claimed.  The two agree   *)
(* for a connection given up before Lived others were opened, and a port   *)
(* whose connection lived longer is told apart (long).                     *)
(***************************************************************************)
EXTENDS Naturals, Sequences, FiniteSets

CONSTANTS Conns,         \* the connections that may be opened
          Ports,         \* how many local ports there are: 16,000
          Lived,         \* how many claims a connection lasts that is not long-lived
          Remembered,    \* how many claims the far end keeps a connection for
          QueueDepth     \* QUEUE_DEPTH

Nobody == "nobody"

MuxAssumption ==
    /\ IsFiniteSet(Conns) /\ Nobody \notin Conns
    /\ Ports \in Nat /\ Lived \in Nat /\ Remembered \in Nat /\ QueueDepth \in Nat \ {0}
    /\ Lived + Remembered + Cardinality(Conns) <= Ports

VARIABLES cursor,    \* PortCursor: the next port
          routes,    \* per port: the connection its packets go to
          conn,      \* per connection: what it is doing
          port,      \* per connection: the port it was given
          inbox,     \* per connection: the packets handed to it, its "own" or "another's"
          link,      \* "up"; "failed", its reason written; "ended", its last packet read
          wire,      \* packets on their way here: for which connection
          recent,    \* history: the last ports claimed, as many as matter and the latest
          left,      \* history, per port: the claims until the far end has forgotten who had it
          long       \* history: the ports whose last connection lived longer than Lived claims

vars == <<cursor, routes, conn, port, inbox, link, wire, recent, left, long>>

AllPorts == 0 .. Ports - 1

TypeOK ==
    /\ cursor \in AllPorts
    /\ routes \in [AllPorts -> Conns \cup {Nobody}]
    /\ conn \in [Conns -> {"idle", "checked", "connecting", "up", "failing", "told", "gone"}]
    /\ port \in [Conns -> AllPorts]
    /\ \A c \in Conns : Len(inbox[c]) <= QueueDepth
    /\ link \in {"up", "failed", "ended"}
    /\ wire \subseteq Conns
    /\ left \in [AllPorts -> 0 .. Remembered] /\ long \subseteq AllPorts

Init ==
    /\ cursor \in AllPorts
    /\ routes = [p \in AllPorts |-> Nobody]
    /\ conn = [c \in Conns |-> "idle"]
    /\ port = [c \in Conns |-> 0]
    /\ inbox = [c \in Conns |-> <<>>]
    /\ link = "up"
    /\ wire = {}
    /\ recent = <<>>
    /\ left = [p \in AllPorts |-> 0] /\ long = {}

\* A connection that still holds its end of the queue.
Listens(c) == conn[c] \in {"connecting", "up"}

-----------------------------------------------------------------------------
\* claim_port's routes.retain: those of connections that have gone are dropped.
Retained == [p \in AllPorts |->
                IF routes[p] # Nobody /\ ~ Listens(routes[p]) THEN Nobody ELSE routes[p]]

\* The first vacant port from the cursor on.
Distance(p) == (p + Ports - cursor) % Ports
FirstFree == CHOOSE p \in AllPorts :
                Retained[p] = Nobody /\ \A q \in AllPorts :
                    Retained[q] = Nobody => Distance(p) <= Distance(q)

\* Mutant: the lowest vacant port.
Claimed_Lowest == CHOOSE p \in AllPorts :
                Retained[p] = Nobody /\ \A q \in AllPorts : Retained[q] = Nobody => p <= q

Claimed == FirstFree

\* The last of them.
Last(s) == IF Len(s) <= Lived + Remembered + 1 THEN s ELSE Tail(s)

\* Mux::connect: refused at once when the link is known to have stopped.
Check(c) ==
    /\ conn[c] = "idle" /\ link = "up"
    /\ conn' = [conn EXCEPT ![c] = "checked"]
    /\ UNCHANGED <<cursor, routes, port, inbox, link, wire, recent, left, long>>

\* claim_port, whatever has become of the link by now.  The network's bound: a packet of a
\* connection that has gone arrives before the far end has forgotten it.  And the clock's:
\* the cursor does not come round to a port between a failed connect and the removal of
\* its route, the next statement.
Claim(c) ==
    /\ conn[c] = "checked"
    /\ \A d \in wire : Listens(d) \/ left[port[d]] > 0
    /\ \A d \in Conns : conn[d] = "failing" => port[d] # Claimed
    /\ LET p == Claimed
       IN  /\ routes' = [Retained EXCEPT ![p] = c]
           /\ port' = [port EXCEPT ![c] = p]
           /\ cursor' = (p + 1) % Ports
           /\ left' = [q \in AllPorts |-> IF q # p /\ left[q] > 0 THEN left[q] - 1 ELSE left[q]]
    /\ conn' = [conn EXCEPT ![c] = "connecting"]
    /\ recent' = Last(Append(recent, Claimed))
    /\ UNCHANGED <<inbox, link, wire, long>>

\* The far end sends, to a connection or to one it has not forgotten.
FarEndSends(c) ==
    /\ link # "ended" /\ c \notin wire
    /\ Listens(c) \/ (conn[c] \in {"failing", "gone"} /\ left[port[c]] > 0)
    /\ wire' = wire \cup {c}
    /\ UNCHANGED <<cursor, routes, conn, port, inbox, link, recent, left, long>>

\* demux: handed to whoever has its port, dropped if that one is behind, and a route
\* whose connection has gone goes.
Demux(c) ==
    /\ c \in wire
    /\ wire' = wire \ {c}
    /\ LET to == routes[port[c]]
           packet == IF to = c THEN "own" ELSE "another's"
       IN  CASE to = Nobody -> UNCHANGED <<routes, inbox>>
             [] to # Nobody /\ ~ Listens(to) ->
                   routes' = [routes EXCEPT ![port[c]] = Nobody] /\ UNCHANGED inbox
             [] OTHER ->
                   /\ inbox' = [inbox EXCEPT ![to] =
                                    IF Len(@) < QueueDepth THEN Append(@, packet) ELSE @]
                   /\ UNCHANGED routes
    /\ UNCHANGED <<cursor, conn, port, link, recent, left, long>>

\* A stack takes a packet, the first of which completes the connection.
Takes(c) ==
    /\ Listens(c) /\ inbox[c] # <<>>
    /\ inbox' = [inbox EXCEPT ![c] = Tail(@)]
    /\ conn' = [conn EXCEPT ![c] = "up"]
    /\ UNCHANGED <<cursor, routes, port, link, wire, recent, left, long>>

\* How many claims there were since the port of a connection was, if they are few.
Brief(c) == \E i \in 1 .. Len(recent) : recent[i] = port[c] /\ Len(recent) - i <= Lived

\* A connection lets go of its end of the queue, and with it of its port.
GivesUp(c) ==
    /\ left' = [left EXCEPT ![port[c]] = Remembered]
    /\ long' = IF Brief(c) THEN long \ {port[c]} ELSE long \cup {port[c]}

\* Its patience ends, or it is refused: the stack is gone, the route not yet.
Fails(c) ==
    /\ conn[c] = "connecting"
    /\ conn' = [conn EXCEPT ![c] = "failing"] /\ GivesUp(c)
    /\ UNCHANGED <<cursor, routes, port, inbox, link, wire, recent>>

\* Mutant: a connection that was not made leaves with its neighbour's route.
Removes_CursorsRoute(c) ==
    /\ conn[c] = "failing"
    /\ conn' = [conn EXCEPT ![c] = "gone"]
    /\ routes' = [routes EXCEPT ![(cursor + Ports - 1) % Ports] = Nobody]
    /\ UNCHANGED <<cursor, port, inbox, link, wire, recent, left, long>>

\* And connect removes it.
Removes(c) ==
    /\ conn[c] = "failing"
    /\ conn' = [conn EXCEPT ![c] = "gone"]
    /\ routes' = [routes EXCEPT ![port[c]] = Nobody]
    /\ UNCHANGED <<cursor, port, inbox, link, wire, recent, left, long>>

\* The connect is dropped, or the stream is: the route is left behind.
Drops(c) ==
    /\ Listens(c)
    /\ conn' = [conn EXCEPT ![c] = "gone"] /\ GivesUp(c)
    /\ UNCHANGED <<cursor, routes, port, inbox, link, wire, recent>>

LinkFails ==
    /\ link = "up" /\ link' = "failed"
    /\ UNCHANGED <<cursor, routes, conn, port, inbox, wire, recent, left, long>>

\* Mutant: the routes stay when the link ends.
LinkEnds_RoutesStay ==
    /\ link = "failed" /\ wire = {} /\ link' = "ended"
    /\ UNCHANGED <<cursor, routes, conn, port, inbox, wire, recent, left, long>>

\* demux ends, and every route with it.
LinkEnds ==
    /\ link = "failed" /\ wire = {} /\ link' = "ended"
    /\ routes' = [p \in AllPorts |-> Nobody]
    /\ UNCHANGED <<cursor, conn, port, inbox, wire, recent, left, long>>

\* A stack finds its queue empty and nobody holding the other end.
Learns(c) ==
    /\ Listens(c) /\ inbox[c] = <<>>
    /\ \A p \in AllPorts : routes[p] # c
    /\ conn' = [conn EXCEPT ![c] = "told"] /\ GivesUp(c)
    /\ UNCHANGED <<cursor, routes, port, inbox, link, wire, recent>>

\* The bound on names: one is used again when nothing refers to the connection it was.
Again(c) ==
    /\ conn[c] \in {"gone", "told"} /\ c \notin wire /\ link = "up"
    /\ \A p \in AllPorts : routes[p] # c
    /\ conn' = [conn EXCEPT ![c] = "idle"] /\ inbox' = [inbox EXCEPT ![c] = <<>>]
    /\ UNCHANGED <<cursor, routes, port, link, wire, recent, left, long>>

Next ==
    \/ \E c \in Conns : \/ Check(c) \/ Claim(c) \/ FarEndSends(c) \/ Demux(c) \/ Takes(c)
                        \/ Fails(c) \/ Removes(c) \/ Drops(c) \/ Learns(c) \/ Again(c)
    \/ LinkFails \/ LinkEnds

Spec == Init /\ [][Next]_vars

-----------------------------------------------------------------------------
(* Properties. *)

\* While the link carries, a connection is not opened from a port the far end may still
\* have the last one's for, nor given another's packets, unless the last one was
\* long-lived; and nobody is cut off before the link's end.
PortsApart ==
    /\ link # "ended" => \A c \in Conns : Listens(c) /\ port[c] \notin long =>
          /\ left[port[c]] = 0
          /\ \A i \in 1 .. Len(inbox[c]) : inbox[c][i] = "own"
    /\ \A c \in Conns : conn[c] = "told" => link = "ended"

\* "so a port a connection has just given up comes round again only after every other one
\* has" (mux.rs, 182): not when the cursor has all but come round while it was held.  Not
\* checked by a run: TLC finds a connection that outlives the others' and is closed as the
\* cursor reaches its port, and the next one opened from it at once.
GivenUpLast == link # "ended" => \A c \in Conns : Listens(c) => left[port[c]] = 0

\* When the link has ended, every connection that was up finds out: nothing holds the
\* other end of its queue.
EndReaches ==
    link = "ended" => \A c \in Conns : conn[c] = "up" => \A p \in AllPorts : routes[p] # c
=============================================================================
