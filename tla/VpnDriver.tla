------------------------------ MODULE VpnDriver ------------------------------
(***************************************************************************)
(* The task that runs a VPN session and the two sides that use it          *)
(* (synology-filestation-openvpn, driver.rs, with the timers of            *)
(* session.rs): the loop that sends what is due, decides how long to       *)
(* sleep and waits; Tunnel::connect waiting for it to come up; and the     *)
(* pump of Tunnel::share between it and the TCP stacks.                    *)
(*                                                                         *)
(* Time moves in ticks, and only when nobody has something to do now: the  *)
(* question is what the loop asks to be woken for.  The control channel's  *)
(* own timers are Reliable's; to this loop they are a wakeup some ticks    *)
(* away, or none, and a datagram to send, or none.                         *)
(***************************************************************************)
EXTENDS Naturals, Sequences, FiniteSets

CONSTANTS ConnectTimeout,               \* CONNECT_TIMEOUT
          IdlePoll, Cap,                \* IDLE_POLL, and the longest sleep
          PushInterval, PushTimeout,    \* PUSH_REQUEST_INTERVAL and _TIMEOUT
          Pushes,                       \* push replies: ping and restart, each a limit or
                                        \* Never, and whether restart was named to be off
          DefaultRestart,               \* SessionConfig.peer_timeout, or Never
          ChannelWakes,                 \* when the control channel may want waking, or Never
          Depth                         \* of every queue: 64 in the code

\* No limit: a time beyond every sleep.
Never == 99

DriverAssumption ==
    /\ {ConnectTimeout, IdlePoll, Cap, PushInterval, PushTimeout, Depth} \subseteq Nat \ {0}
    /\ IdlePoll <= Cap /\ PushInterval < PushTimeout
    /\ Cap < Never /\ DefaultRestart \in Nat
    /\ ChannelWakes \subseteq Nat
    /\ Pushes \subseteq [ping : Nat, restart : Nat, disabled : BOOLEAN]

VARIABLES task,      \* the run task
          ages,      \* how long ago: a datagram went out, one came in, a push request
                     \* went out, the first did, connect began
          caller,    \* who called connect: "connecting", "up", "failed", "dropped", or "sharing"
          ready,     \* the oneshot: "none", "up", "failed", "gone"
          failure,   \* the LinkFailure
          queues,    \* payloads waiting: to and from the task, to and from the stacks
          pump,      \* share's task: "none", "idle", "sending", "gone"
          stacks     \* whether any stack, or the Mux, is still there

vars == <<task, ages, caller, ready, failure, queues, pump, stacks>>

\* Before the push reply.
NoPush == [ping |-> Never, restart |-> Never, disabled |-> FALSE]

Queues == {"fromCaller", "toCaller", "fromStack", "toStack"}
Oldest == PushTimeout + Cap + 1
Ages == {"sent", "heard", "asked", "first", "waited"}

TypeOK ==
    /\ task.at \in {"turn", "wait", "stopping", "told", "gone"}
    /\ task.phase \in {"handshake", "push", "ready"}
    /\ task.push \in Pushes \cup {NoPush}
    /\ task.wake \in 0 .. Cap
    /\ ages \in [Ages -> 0 .. Oldest]
    /\ caller \in {"connecting", "up", "failed", "dropped", "sharing"}
    /\ ready \in {"none", "up", "failed", "gone"}
    /\ failure \in {"none", "peer-gone", "no-push-reply", "session", "nobody"}
    /\ queues \in [Queues -> 0 .. Depth]
    /\ pump \in {"none", "idle", "sending", "gone"}
    /\ stacks \in BOOLEAN

Init ==
    /\ task = [at |-> "turn", phase |-> "handshake", asked |-> FALSE,
               push |-> NoPush, wake |-> 0, why |-> "none"]
    /\ ages = [a \in Ages |-> 0]
    /\ caller = "connecting" /\ ready = "none" /\ failure = "none"
    /\ queues = [q \in Queues |-> 0]
    /\ pump = "none"
    /\ stacks = TRUE

\* Which ends of the task's two channels are still held.
CallerHolds == caller \in {"connecting", "up"} \/ (caller = "sharing" /\ pump # "gone")
TaskHolds == task.at # "gone"

-----------------------------------------------------------------------------
(* The session's timers. *)

\* Mutant: a server that wants no limit is given ours.
PeerTimeout_Overrides ==
    IF task.push.restart # Never THEN task.push.restart ELSE DefaultRestart

\* peer_timeout: none if the server named none to be the limit, or the server's, or ours.
PeerTimeout ==
    CASE task.push.disabled -> Never
      [] ~ task.push.disabled /\ task.push.restart # Never -> task.push.restart
      [] OTHER -> DefaultRestart

Earliest(times) == CHOOSE t \in times : \A u \in times : t <= u

\* Mutant: the keepalive is not among the timers.
NextWakeup_ChannelOnly(t, a, channel) ==
    Earliest({channel} \cup
        IF t.phase = "push" THEN {(PushInterval - a.asked), PushTimeout - a.first} ELSE {})

\* next_wakeup, in ticks from now: the channel's, keepalive_due and push_retry_due.
NextWakeup(t, a, channel) ==
    Earliest({channel}
        \cup (IF t.phase = "ready" /\ t.push.ping # Never
              THEN {IF t.push.ping > a.sent THEN t.push.ping - a.sent ELSE 0} ELSE {})
        \cup (IF t.phase = "push" THEN {PushInterval - a.asked, PushTimeout - a.first} ELSE {}))

\* Mutant: the sleep is as long as the session says.
Sleep_Unbounded(t, a, channel) ==
    IF NextWakeup(t, a, channel) = Never THEN IdlePoll ELSE NextWakeup(t, a, channel)

\* How long the loop sleeps.
Sleep(t, a, channel) ==
    LET wanted == NextWakeup(t, a, channel)
    IN  CASE wanted = Never -> IdlePoll
          [] wanted # Never /\ wanted > Cap -> Cap
          [] OTHER -> wanted

\* resend_push_request.
PushGivenUp(t, a) == t.phase = "push" /\ t.asked /\ a.first >= PushTimeout
PushDue(t, a) == t.phase = "push" /\ (t.asked => a.asked >= PushInterval)

KeepaliveDue(t, a) == t.phase = "ready" /\ t.push.ping # Never /\ a.sent >= t.push.ping

-----------------------------------------------------------------------------
(* The loop. *)

Stops(why) == task' = [task EXCEPT !.at = "stopping", !.why = why]

\* Everything there is to say is sent -- a push request goes over the channel, and a
\* keepalive if nothing else did --, the caller of connect is told that the tunnel is
\* up, a silent peer ends it, and the rest is how long to sleep.
Turn(spoke, channel) ==
    /\ task.at = "turn"
    /\ IF PushGivenUp(task, ages)
       THEN Stops("no-push-reply") /\ UNCHANGED <<ages, ready>>
       ELSE LET asks == PushDue(task, ages)
                sends == spoke \/ asks \/ KeepaliveDue(task, ages)
                now == [ages EXCEPT !.sent = IF sends THEN 0 ELSE @,
                                    !.asked = IF asks THEN 0 ELSE @,
                                    !.first = IF asks /\ ~ task.asked THEN 0 ELSE @]
                t == [task EXCEPT !.asked = @ \/ asks]
            IN  /\ ages' = now
                /\ ready' = IF t.phase = "ready" /\ ready = "none" THEN "up" ELSE ready
                /\ IF PeerTimeout # Never /\ ages.heard >= PeerTimeout
                   THEN task' = [t EXCEPT !.at = "stopping", !.why = "peer-gone"]
                   ELSE task' = [t EXCEPT !.at = "wait", !.wake = Sleep(t, now, channel)]
    /\ UNCHANGED <<caller, failure, queues, pump, stacks>>

Again == task' = [task EXCEPT !.at = "turn"]
Hear == ages' = [ages EXCEPT !.heard = 0]

\* A control datagram, which may carry the session on, fail alone, or end it.
HearControl ==
    /\ task.at = "wait"
    /\ Hear
    /\ \/ Again
       \/ Stops("session")
       \/ /\ task.phase = "handshake"
          /\ task' = [task EXCEPT !.at = "turn", !.phase = "push", !.asked = FALSE]
       \/ /\ task.phase = "push" /\ task.asked
          /\ \E reply \in Pushes :
                task' = [task EXCEPT !.at = "turn", !.phase = "ready", !.push = reply]
    /\ UNCHANGED <<caller, ready, failure, queues, pump, stacks>>

Room(q) == queues[q] < Depth
Put(q) == queues' = [queues EXCEPT ![q] = @ + 1]
Take(q) == queues' = [queues EXCEPT ![q] = @ - 1]

\* A data packet: a keepalive, or one that does not decrypt, goes no further, and a
\* payload is dropped when the caller is behind.
HearPayload ==
    /\ task.at = "wait" /\ task.phase = "ready" /\ Hear
    /\ \/ Again /\ UNCHANGED queues
       \/ CallerHolds /\ Room("toCaller") /\ Put("toCaller") /\ Again
       \/ CallerHolds /\ ~ Room("toCaller") /\ Again /\ UNCHANGED queues
       \/ ~ CallerHolds /\ Stops("nobody") /\ UNCHANGED queues
    /\ UNCHANGED <<caller, ready, failure, pump, stacks>>

\* Mutant: a caller that has gone is not noticed.
TakeOutbound_NoticesNothing ==
    /\ task.at = "wait" /\ queues["fromCaller"] > 0 /\ Take("fromCaller") /\ Again
    /\ ages' = [ages EXCEPT !.sent = IF task.phase = "ready" THEN 0 ELSE @]
    /\ UNCHANGED <<caller, ready, failure, pump, stacks>>

\* A payload to send, or the caller's end closed and its queue empty.
TakeOutbound ==
    /\ task.at = "wait"
    /\ \/ /\ queues["fromCaller"] > 0 /\ Take("fromCaller") /\ Again
          /\ ages' = [ages EXCEPT !.sent = IF task.phase = "ready" THEN 0 ELSE @]
       \/ /\ queues["fromCaller"] = 0 /\ ~ CallerHolds
          /\ Stops("nobody") /\ UNCHANGED <<ages, queues>>
    /\ UNCHANGED <<caller, ready, failure, pump, stacks>>

Wakes ==
    /\ task.at = "wait" /\ task.wake = 0
    /\ Again
    /\ UNCHANGED <<ages, caller, ready, failure, queues, pump, stacks>>

SocketFails ==
    /\ task.at = "wait"
    /\ Stops("session")
    /\ UNCHANGED <<ages, caller, ready, failure, queues, pump, stacks>>

\* break_with, then finish; the channels close when run returns.
Stopping ==
    /\ task.at = "stopping"
    /\ ready' = IF ready = "none" THEN "failed" ELSE ready
    /\ task' = [task EXCEPT !.at = "told"]
    /\ UNCHANGED <<ages, caller, failure, queues, pump, stacks>>

\* Mutant: the channels close before the reason is written down.
Finishes_Silently ==
    /\ task.at = "told"
    /\ task' = [task EXCEPT !.at = "gone"]
    /\ UNCHANGED <<ages, caller, ready, queues, failure, pump, stacks>>

Finishes ==
    /\ task.at = "told"
    /\ failure' = IF failure = "none" THEN task.why ELSE failure
    /\ task' = [task EXCEPT !.at = "gone"]
    /\ UNCHANGED <<ages, caller, ready, queues, pump, stacks>>

-----------------------------------------------------------------------------
(* Tunnel::connect, and what is done with the tunnel. *)

\* abort takes effect where the task awaits; one that is on its way out goes on.
Aborted == [task EXCEPT !.at = IF @ \in {"turn", "wait"} THEN "gone" ELSE @]

\* The task's answer, or the patience of connect, whose failure takes the task along.
ConnectEnds ==
    /\ caller = "connecting"
    /\ \/ ready = "up" /\ caller' = "up" /\ UNCHANGED task
       \/ ready = "failed" /\ caller' = "failed" /\ task' = Aborted
       \/ ready \in {"none", "gone"} /\ ages.waited >= ConnectTimeout
          /\ caller' = "failed" /\ task' = Aborted
    /\ ready' = "gone"
    /\ UNCHANGED <<ages, failure, queues, pump, stacks>>

\* connect's future is dropped: nobody aborts the task, but its channels close.
ConnectDropped ==
    /\ caller = "connecting" /\ caller' = "dropped" /\ ready' = "gone"
    /\ UNCHANGED <<task, ages, failure, queues, pump, stacks>>

\* share, for a tunnel that still runs; otherwise, or when there is no address, the
\* tunnel is dropped, and its Drop ends the task.
Share ==
    /\ caller = "up"
    /\ \/ failure = "none" /\ caller' = "sharing" /\ pump' = "idle" /\ UNCHANGED task
       \/ caller' = "dropped" /\ task' = Aborted /\ UNCHANGED pump
    /\ UNCHANGED <<ages, ready, failure, queues, stacks>>

\* The stacks put packets in and take packets out; the last of them goes.
StackSends ==
    /\ pump \in {"idle", "sending"} /\ stacks /\ Room("fromStack") /\ Put("fromStack")
    /\ UNCHANGED <<task, ages, caller, ready, failure, pump, stacks>>
StackReads ==
    /\ stacks /\ queues["toStack"] > 0 /\ Take("toStack")
    /\ UNCHANGED <<task, ages, caller, ready, failure, pump, stacks>>
StacksGo ==
    /\ caller = "sharing" /\ stacks /\ stacks' = FALSE
    /\ UNCHANGED <<task, ages, caller, ready, failure, queues, pump>>

\* The pump returns, and the Tunnel it owns is dropped.
PumpEnds == pump' = "gone" /\ task' = Aborted /\ UNCHANGED queues

\* The pump has taken a packet from a stack, and waits for room in the tunnel.
PumpTakes ==
    /\ pump = "idle"
    /\ \/ queues["fromStack"] > 0 /\ Take("fromStack") /\ pump' = "sending" /\ UNCHANGED task
       \/ queues["fromStack"] = 0 /\ ~ stacks /\ PumpEnds
    /\ UNCHANGED <<ages, caller, ready, failure, stacks>>

PumpSends ==
    /\ pump = "sending"
    /\ \/ TaskHolds /\ Room("fromCaller") /\ Put("fromCaller") /\ pump' = "idle" /\ UNCHANGED task
       \/ ~ TaskHolds /\ PumpEnds
    /\ UNCHANGED <<ages, caller, ready, failure, stacks>>

\* A packet out of the tunnel is dropped when the stacks are behind.
PumpReceives ==
    /\ pump = "idle"
    /\ \/ /\ queues["toCaller"] > 0
          /\ queues' = [queues EXCEPT !["toCaller"] = @ - 1,
                                      !["toStack"] = IF @ < Depth THEN @ + 1 ELSE @]
          /\ UNCHANGED <<task, pump>>
       \/ queues["toCaller"] = 0 /\ ~ TaskHolds /\ PumpEnds
    /\ UNCHANGED <<ages, caller, ready, failure, stacks>>

-----------------------------------------------------------------------------
\* Nobody has anything to do before the next moment.
Quiet ==
    /\ task.at \in {"wait", "gone"}
    /\ task.at = "wait" => task.wake > 0 /\ queues["fromCaller"] = 0 /\ CallerHolds
    /\ caller = "connecting" => ready \in {"none", "gone"} /\ ages.waited < ConnectTimeout
    /\ pump = "idle" => queues["toCaller"] = 0 /\ queues["fromStack"] = 0 /\ stacks /\ TaskHolds
    /\ pump = "sending" => TaskHolds /\ ~ Room("fromCaller")

\* The ages something still depends on.
Counts(a) ==
    CASE a = "waited" -> caller = "connecting"
      [] a = "sent" -> TaskHolds /\ task.phase # "handshake"
      [] a = "heard" -> TaskHolds /\ PeerTimeout # Never
      [] OTHER -> TaskHolds /\ task.phase = "push"

Tick ==
    /\ Quiet /\ (TaskHolds \/ caller = "connecting")
    /\ ages' = [a \in Ages |-> IF Counts(a) /\ ages[a] < Oldest THEN ages[a] + 1 ELSE ages[a]]
    /\ task' = [task EXCEPT !.wake = IF @ > 0 THEN @ - 1 ELSE 0]
    /\ UNCHANGED <<caller, ready, failure, queues, pump, stacks>>

Loop ==
    \/ \E spoke \in BOOLEAN, channel \in ChannelWakes : Turn(spoke, channel)
    \/ TakeOutbound \/ Wakes \/ Stopping \/ Finishes
Pumps == PumpTakes \/ PumpSends \/ PumpReceives

Next ==
    \/ Loop \/ HearControl \/ HearPayload \/ SocketFails
    \/ ConnectEnds \/ ConnectDropped \/ Share
    \/ StackSends \/ StackReads \/ StacksGo \/ Pumps
    \/ Tick

Spec == Init /\ [][Next]_vars

-----------------------------------------------------------------------------
(* Properties. *)

\* The peer never hears nothing from a tunnel that is up for longer than the ping it
\* asked for, and no request for a push reply stays out longer than its interval:
\* whatever poll_transmit does on a timer, the loop is awake for.
OnTime ==
    task.at # "gone" =>
        /\ task.phase = "ready" /\ task.push.ping # Never /\ task.at = "wait"
              => ages.sent <= task.push.ping
        /\ task.phase = "push" /\ task.asked => ages.asked <= PushInterval

\* A peer that has gone silent is noticed one sleep after its limit at the latest.
SilenceNoticed ==
    task.at \in {"turn", "wait"} /\ PeerTimeout # Never => ages.heard < PeerTimeout + Cap

\* Nor is one given up that said it would be silent.
SilenceAllowed == task.why = "peer-gone" => ~ task.push.disabled

\* Whoever finds the tunnel's channels closed, and did not close them himself, can read
\* why.
EndIsExplained ==
    /\ caller = "up" /\ ~ TaskHolds => failure # "none"
    /\ pump = "gone" /\ stacks => failure # "none"

\* The loop and the pump get their turn, and time passes however much arrives.
Fairness ==
    /\ WF_vars(Loop) /\ SF_vars(Tick) /\ WF_vars(ConnectEnds)
    /\ SF_vars(TakeOutbound) /\ WF_vars(Pumps) /\ SF_vars(PumpTakes)

FairSpec == Spec /\ Fairness

\* connect is answered, and no task outlives the last who could use its tunnel.
NoOrphan ==
    /\ (caller = "connecting") ~> (caller # "connecting")
    /\ (caller \in {"failed", "dropped"} \/ ~ stacks) ~> (task.at = "gone")
=============================================================================
