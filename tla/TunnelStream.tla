----------------------------- MODULE TunnelStream -----------------------------
(***************************************************************************)
(* One TCP connection inside the tunnel, as a byte stream                  *)
(* (synology-filestation-openvpn, stack.rs): the loop that runs the TCP    *)
(* socket, the queues between it and the caller, what it publishes of its  *)
(* progress, and the stream's read, write, flush and shutdown.             *)
(*                                                                         *)
(* The TCP socket is smoltcp's, modelled by its states and buffers and by  *)
(* what a peer's segment does to them.  Bytes are counted: a chunk is one  *)
(* byte.  The loop and the caller are on different threads, so a turn of   *)
(* the loop is cut where it publishes something the caller can see.        *)
(***************************************************************************)
EXTENDS Naturals, Sequences, FiniteSets

CONSTANTS Window,        \* bytes in each of the socket's buffers
          Depth,         \* QUEUE_DEPTH
          MaxWritten,    \* bound: bytes the caller writes
          MaxSent        \* bound: bytes the peer sends

StreamAssumption == {Window, Depth} \subseteq Nat \ {0} /\ {MaxWritten, MaxSent} \subseteq Nat

VARIABLES loop,       \* drive: where it is, and its locals
          sock,       \* the socket: state, bytes unacknowledged, bytes unread
          progress,   \* the watch: [acknowledged, closed, stopped, clean]
          toStack,    \* bytes in the caller's queue
          toCaller,   \* bytes in the reader's queue
          reading,    \* whether the loop still holds the reader's queue
          caller,     \* the stream's own state, and what its calls returned
          peer        \* the far end

vars == <<loop, sock, progress, toStack, toCaller, reading, caller, peer>>

NoWait == 99

States == {"syn-sent", "established", "fin-wait-1", "fin-wait-2", "closing",
           "close-wait", "last-ack", "time-wait", "closed"}

TypeOK ==
    /\ loop.at \in {"turn", "published", "wait", "stopping", "gone"}
    /\ loop.queued \in 0 .. 1 /\ loop.accepted \in 0 .. MaxWritten
    /\ sock.state \in States /\ sock.tx \in 0 .. Window /\ sock.rx \in 0 .. Window
    /\ progress.acknowledged \in 0 .. MaxWritten
    /\ toStack \in 0 .. Depth /\ toCaller \in 0 .. Depth
    /\ reading \in BOOLEAN
    /\ caller.written \in 0 .. MaxWritten
    /\ caller.flushing \in 0 .. MaxWritten \cup {NoWait}
    /\ peer.sent \in 0 .. MaxSent

Init ==
    /\ loop = [at |-> "turn", established |-> FALSE, linkGone |-> FALSE, closing |-> FALSE,
               queued |-> 0, accepted |-> 0, why |-> "none"]
    /\ sock = [state |-> "syn-sent", tx |-> 0, rx |-> 0]
    /\ progress = [acknowledged |-> 0, closed |-> FALSE, stopped |-> FALSE, clean |-> FALSE]
    /\ toStack = 0 /\ toCaller = 0 /\ reading = TRUE
    /\ caller = [up |-> "connecting", written |-> 0, writing |-> TRUE, flushing |-> NoWait,
                 shutting |-> FALSE, vouched |-> 0, shut |-> FALSE, got |-> 0, eof |-> "no"]
    /\ peer = [sent |-> 0, acked |-> 0, fin |-> FALSE, finAcked |-> FALSE, reset |-> FALSE]

-----------------------------------------------------------------------------
(* smoltcp: what the socket will do, and what segments do to it. *)

MaySend(s) == s.state \in {"established", "close-wait"}
CanSend(s) == MaySend(s) /\ s.tx < Window
MayRecv(s) == s.state \in {"established", "fin-wait-1", "fin-wait-2"} \/ s.rx > 0
IsActive(s) == s.state \notin {"closed", "time-wait"}

Closed(s) == [s EXCEPT !.state = CASE @ = "established" -> "fin-wait-1"
                                   [] @ = "close-wait" -> "last-ack"
                                   [] OTHER -> @]

FinSent == sock.state \in {"fin-wait-1", "closing", "last-ack"} /\ sock.tx = 0

\* inbound.recv in the loop's select, and the poll that follows it.
Segment ==
    /\ loop.at = "wait" /\ ~ loop.linkGone /\ IsActive(sock)
    /\ \/ /\ sock.state = "syn-sent"
          /\ sock' = [sock EXCEPT !.state = "established"] /\ UNCHANGED peer
       \/ /\ sock.tx > 0
          /\ sock' = [sock EXCEPT !.tx = @ - 1]
          /\ peer' = [peer EXCEPT !.acked = @ + 1]
       \/ /\ FinSent
          /\ sock' = [sock EXCEPT !.state = CASE @ = "fin-wait-1" -> "fin-wait-2"
                                             [] @ = "closing" -> "time-wait"
                                             [] OTHER -> "closed"]
          /\ peer' = [peer EXCEPT !.finAcked = TRUE]
       \/ /\ sock.state \in {"established", "fin-wait-1", "fin-wait-2"}
          /\ sock.rx < Window /\ peer.sent < MaxSent
          /\ sock' = [sock EXCEPT !.rx = @ + 1]
          /\ peer' = [peer EXCEPT !.sent = @ + 1]
       \/ /\ sock.state \in {"established", "fin-wait-1", "fin-wait-2"}
          /\ sock' = [sock EXCEPT !.state = CASE @ = "established" -> "close-wait"
                                             [] @ = "fin-wait-1" -> "closing"
                                             [] OTHER -> "time-wait"]
          /\ peer' = [peer EXCEPT !.fin = TRUE]
       \/ /\ sock' = [sock EXCEPT !.state = "closed"]
          /\ peer' = [peer EXCEPT !.reset = TRUE]
    /\ loop' = [loop EXCEPT !.at = "turn"]
    /\ UNCHANGED <<progress, toStack, toCaller, reading, caller>>

-----------------------------------------------------------------------------
(* drive. *)

\* Bytes the reader's queue will take.
Moved(s) == IF ~ reading THEN 0
            ELSE IF s.rx < Depth - toCaller THEN s.rx ELSE Depth - toCaller

\* Mutant: a link that went has nothing more to read either.
FinishedReading_OrLinkGone(l, s) ==
    l.established /\ ((~ MayRecv(s) /\ s.rx = 0) \/ (l.linkGone /\ s.rx = 0))

FinishedReading(l, s) == l.established /\ ~ MayRecv(s) /\ s.rx = 0

\* Mutant: what has merely left counts.
Acknowledged_Sent(l, s) == l.accepted - l.queued

Acknowledged(l, s) == l.accepted - (l.queued + s.tx)

\* Mutant: asking for the goodbye is having said it.
SaidGoodbye_Asked(l, s) == l.closing /\ l.queued + s.tx = 0

SaidGoodbye(l, s) ==
    l.closing /\ l.queued + s.tx = 0 /\ s.state \in {"fin-wait-2", "time-wait", "closed"}

Stop(l, why) == loop' = [l EXCEPT !.at = "stopping", !.why = why]

\* From the top of the loop to the report of its progress.
Turn ==
    /\ loop.at = "turn"
    /\ LET l == [loop EXCEPT !.established = @ \/ MaySend(sock)]
           taken == IF l.queued > 0 /\ CanSend(sock) THEN 1 ELSE 0
           out == [sock EXCEPT !.tx = @ + taken]
           sent == [l EXCEPT !.queued = @ - taken]
           shut == IF sent.closing /\ sent.queued = 0 /\ MaySend(out) THEN Closed(out) ELSE out
           s == [shut EXCEPT !.rx = @ - Moved(shut)]
       IN  IF caller.up = "gave-up" THEN Stop(loop, "caller-gave-up")
                  /\ UNCHANGED <<sock, progress, toCaller, caller>>
           ELSE /\ caller' = IF MaySend(sock) /\ caller.up = "connecting"
                             THEN [caller EXCEPT !.up = "up"] ELSE caller
                /\ sock' = s /\ toCaller' = toCaller + Moved(shut)
                /\ progress' = [acknowledged |-> Acknowledged(sent, s),
                                closed |-> SaidGoodbye(sent, s),
                                stopped |-> FALSE,
                                clean |-> progress.clean \/ FinishedReading(sent, s)]
                /\ loop' = [sent EXCEPT !.at = "published"]
    /\ UNCHANGED <<toStack, reading, peer>>

\* Mutant: the reader is let go of only with the connection.
LetsReaderGo_Late(l, s) == FinishedReading(l, s) /\ ~ IsActive(s)

LetsReaderGo(l, s) == FinishedReading(l, s)

\* Mutant: what is still in the socket is not waited for.
Unread_Forgotten(s, held) == FALSE

Unread(s, held) == s.rx > 0 /\ held

\* The rest of the turn: the reader's queue is closed, or the loop ends, or it waits.
Published ==
    /\ loop.at = "published"
    /\ reading' = (reading /\ ~ LetsReaderGo(loop, sock))
    /\ IF (~ IsActive(sock) \/ loop.linkGone) /\ ~ Unread(sock, reading')
       THEN Stop(loop, IF loop.linkGone THEN "tunnel-gone" ELSE "finished")
       ELSE loop' = [loop EXCEPT !.at = "wait"]
    /\ UNCHANGED <<sock, progress, toStack, toCaller, caller, peer>>

\* The select's other branches: a write, the end of writes, the link, room for the
\* reader, and the sleep.
Wakes ==
    /\ loop.at = "wait"
    /\ \/ /\ loop.queued = 0 /\ ~ loop.closing /\ toStack > 0
          /\ toStack' = toStack - 1
          /\ loop' = [loop EXCEPT !.at = "turn", !.queued = 1, !.accepted = @ + 1]
       \/ /\ loop.queued = 0 /\ ~ loop.closing /\ toStack = 0 /\ ~ caller.writing
          /\ loop' = [loop EXCEPT !.at = "turn", !.closing = TRUE] /\ UNCHANGED toStack
       \/ /\ sock.rx > 0 /\ reading /\ toCaller < Depth
          /\ loop' = [loop EXCEPT !.at = "turn"] /\ UNCHANGED toStack
       \/ /\ (loop.queued > 0 /\ CanSend(sock)) \/ caller.up = "gave-up"
          /\ loop' = [loop EXCEPT !.at = "turn"] /\ UNCHANGED toStack
    /\ UNCHANGED <<sock, progress, toCaller, reading, caller, peer>>

LinkGoes ==
    /\ loop.at = "wait" /\ ~ loop.linkGone
    /\ loop' = [loop EXCEPT !.at = "turn", !.linkGone = TRUE]
    /\ UNCHANGED <<sock, progress, toStack, toCaller, reading, caller, peer>>

\* The loop's own deadline for a connection that does not come up.
NeverConnects ==
    /\ loop.at = "wait" /\ ~ loop.established
    /\ Stop(loop, "never-connected")
    /\ UNCHANGED <<sock, progress, toStack, toCaller, reading, caller, peer>>

\* The last word is published, the queues close with the loop, and who still waits in
\* connect is told.
Stopping ==
    /\ loop.at = "stopping"
    /\ loop' = [loop EXCEPT !.at = "gone"]
    /\ progress' = [progress EXCEPT !.stopped = TRUE]
    /\ reading' = FALSE
    /\ caller' = IF caller.up = "connecting" THEN [caller EXCEPT !.up = "failed"] ELSE caller
    /\ UNCHANGED <<sock, toStack, toCaller, peer>>

-----------------------------------------------------------------------------
(* The caller. *)

Calls == caller.up = "up"

GivesUp ==
    /\ caller.up = "connecting" /\ caller' = [caller EXCEPT !.up = "gave-up"]
    /\ UNCHANGED <<loop, sock, progress, toStack, toCaller, reading, peer>>

\* poll_write; with the loop gone it is an error, and nothing is taken.
Write ==
    /\ Calls /\ caller.writing /\ loop.at # "gone"
    /\ toStack < Depth /\ caller.written < MaxWritten
    /\ toStack' = toStack + 1
    /\ caller' = [caller EXCEPT !.written = @ + 1]
    /\ UNCHANGED <<loop, sock, progress, toCaller, reading, peer>>

\* Mutant: a wait left behind answers whoever asks next.
WaitFor_Whatever(slot, target) == IF slot = NoWait THEN target ELSE slot

\* poll_wait: the wait in the slot, if it is for the same thing.
WaitFor(slot, target) == IF slot = target THEN slot ELSE target

\* poll_flush: done, stopped, or left waiting -- and perhaps abandoned.
Flush ==
    /\ Calls
    /\ LET target == WaitFor(caller.flushing, caller.written)
       IN  CASE progress.acknowledged >= target ->
                   caller' = [caller EXCEPT !.flushing = NoWait, !.vouched = caller.written]
             [] progress.acknowledged < target /\ progress.stopped ->
                   caller' = [caller EXCEPT !.flushing = NoWait]
             [] OTHER -> caller' = [caller EXCEPT !.flushing = target]
    /\ UNCHANGED <<loop, sock, progress, toStack, toCaller, reading, peer>>

\* poll_shutdown.
Shutdown ==
    /\ Calls
    /\ caller' = [caller EXCEPT !.writing = FALSE, !.shutting = TRUE,
                                !.shut = @ \/ progress.closed,
                                !.vouched = IF progress.closed THEN caller.written ELSE @]
    /\ UNCHANGED <<loop, sock, progress, toStack, toCaller, reading, peer>>

\* poll_read: a byte, or the end, which is an ordinary one or not.
Read ==
    /\ Calls /\ caller.eof = "no"
    /\ \/ /\ toCaller > 0 /\ toCaller' = toCaller - 1
          /\ caller' = [caller EXCEPT !.got = @ + 1]
       \/ /\ toCaller = 0 /\ ~ reading /\ UNCHANGED toCaller
          /\ caller' = [caller EXCEPT !.eof = IF progress.clean THEN "clean" ELSE "cut"]
    /\ UNCHANGED <<loop, sock, progress, toStack, reading, peer>>

Loop == Turn \/ Published \/ Wakes \/ Stopping

Next ==
    \/ Loop \/ Segment \/ LinkGoes \/ NeverConnects
    \/ GivesUp \/ Write \/ Flush \/ Shutdown \/ Read

Spec == Init /\ [][Next]_vars

-----------------------------------------------------------------------------
(* Properties. *)

\* A flush or a shutdown that succeeds vouches for every byte written before it: the
\* far end has acknowledged them; and a shutdown, that it has the goodbye too.
FlushTruthful ==
    /\ caller.vouched <= peer.acked
    /\ caller.shut => caller.written = peer.acked /\ (peer.finAcked \/ peer.reset)

\* A link that goes does not look like the end of the stream: an end is ordinary only
\* after the peer's goodbye (or its reset), and with everything it sent; and what arrived
\* before any end reaches the reader.
EofTruthful ==
    /\ caller.eof = "clean" => (peer.fin \/ peer.reset) /\ caller.got = peer.sent
    /\ loop.at = "gone" /\ loop.why \in {"tunnel-gone", "finished"} =>
          sock.rx = 0 /\ caller.got + toCaller = peer.sent

\* "The peer closed its half in an orderly way" (Progress::ended_cleanly).
CleanIsOrderly == caller.eof = "clean" => peer.fin

\* The loop and the reader run.
Fairness == WF_vars(Loop) /\ WF_vars(Read)
FairSpec == Spec /\ Fairness

\* A reader is told of the peer's goodbye, and of a link that went.
ReaderTold ==
    (Calls /\ (peer.fin \/ loop.linkGone)) ~> (caller.eof # "no")
=============================================================================
