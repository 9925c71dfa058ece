------------------------------- MODULE Throttle -------------------------------
(***************************************************************************)
(* A ranged read over HTTP under the request throttle                      *)
(* (synology-filestation-core throttle.rs, http_download in download.rs):  *)
(* a belt that spaces requests, a semaphore that caps them, and tries that *)
(* back off with the slot given back.  A caller may be dropped anywhere.   *)
(*                                                                         *)
(* Time goes in units; a wait is the time left of it.                      *)
(***************************************************************************)
EXTENDS Naturals, Sequences, FiniteSets, SequencesExt

CONSTANTS Callers,
          MaxConcurrency, Interval, MaxAttempts,  \* ThrottleConfig
          BackoffBase, BackoffMax

ThrottleAssumption ==
    /\ MaxConcurrency \in Nat \ {0} /\ MaxAttempts \in Nat \ {0}
    /\ Interval \in Nat /\ BackoffBase \in Nat /\ BackoffMax \in Nat
    /\ IsFiniteSet(Callers)

VARIABLES step,          \* where each call is
          left,          \* what is left of its wait
          attempt,       \* tries it has made
          queue,         \* waiters of the semaphore, first come first served
          free,          \* permits
          next,          \* time until the belt's next opening
          since,         \* history: time since the last request began
          close          \* history: two requests began closer than Interval

vars == <<step, left, attempt, queue, free, next, since, close>>

Waiting == {"belt", "backing"}
Longest == IF BackoffMax > Cardinality(Callers) * Interval THEN BackoffMax
           ELSE Cardinality(Callers) * Interval

TypeOK ==
    /\ step \in [Callers -> {"idle", "belt", "queue", "sending", "backing", "ok", "failed", "dropped"}]
    /\ left \in [Callers -> 0 .. Longest] /\ attempt \in [Callers -> 0 .. MaxAttempts]
    /\ free \in 0 .. MaxConcurrency /\ next \in Nat
    /\ since \in 0 .. Interval /\ close \in BOOLEAN
    /\ \A i \in 1 .. Len(queue) : step[queue[i]] = "queue"

Init ==
    /\ step = [c \in Callers |-> "idle"] /\ left = [c \in Callers |-> 0]
    /\ attempt = [c \in Callers |-> 0] /\ queue = <<>> /\ free = MaxConcurrency
    /\ next = 0 /\ since = Interval /\ close = FALSE

Goes(c, s) == step' = [step EXCEPT ![c] = s]
Waits(c, s, n) == Goes(c, s) /\ left' = [left EXCEPT ![c] = n]

\* A slip: the belt is a wait since the last request, not a reservation.
Reserves_NoSlot(c) ==
    /\ step[c] = "idle" \/ (step[c] = "backing" /\ left[c] = 0)
    /\ Waits(c, "belt", next)
    /\ next' = IF next = 0 THEN Interval ELSE next
    /\ UNCHANGED <<attempt, queue, free, since, close>>

\* acquire_transfer_slot, first: an opening of the belt is reserved, and waited
\* for without its lock.
Reserves(c) ==
    /\ step[c] = "idle" \/ (step[c] = "backing" /\ left[c] = 0)
    /\ Waits(c, "belt", next)
    /\ next' = next + Interval
    /\ UNCHANGED <<attempt, queue, free, since, close>>

\* Then the permit.
Opens(c) ==
    /\ step[c] = "belt" /\ left[c] = 0
    /\ Goes(c, "queue") /\ queue' = Append(queue, c)
    /\ UNCHANGED <<left, attempt, free, next, since, close>>

Begins(c) ==
    /\ queue # <<>> /\ Head(queue) = c /\ free > 0
    /\ Goes(c, "sending") /\ queue' = Tail(queue) /\ free' = free - 1
    /\ attempt' = [attempt EXCEPT ![c] = @ + 1]
    /\ since' = 0 /\ close' = (close \/ since < Interval)
    /\ UNCHANGED <<left, next>>

\* backoff_before_retry: anything up to a cap that doubles with each try, from
\* twice the base when the NAS said it is busy.
Cap(n, hard) ==
    LET base == IF hard THEN 2 * BackoffBase ELSE BackoffBase
        cap == base * 2 ^ n
    IN  IF cap < BackoffMax THEN cap ELSE BackoffMax

\* A slip: the slot is held through the back-off.
Retries_Holding(c) ==
    /\ step[c] = "sending" /\ attempt[c] < MaxAttempts
    /\ \E hard \in BOOLEAN : \E n \in 0 .. Cap(attempt[c] - 1, hard) : Waits(c, "backing", n)
    /\ UNCHANGED <<attempt, queue, free, next, since, close>>

\* A transient answer: back off, unless this was the last try.
Retries(c) ==
    /\ step[c] = "sending" /\ attempt[c] < MaxAttempts
    /\ \E hard \in BOOLEAN : \E n \in 0 .. Cap(attempt[c] - 1, hard) : Waits(c, "backing", n)
    /\ free' = free + 1
    /\ UNCHANGED <<attempt, queue, next, since, close>>

\* The bytes, an answer that is final, or the last try.
Ends(c) ==
    /\ step[c] = "sending"
    /\ Goes(c, "ok") \/ Goes(c, "failed")
    /\ free' = free + 1
    /\ UNCHANGED <<left, attempt, queue, next, since, close>>

\* The queue without c, which is in it once if at all.
Without(q, c) ==
    IF \E k \in DOMAIN q : q[k] = c THEN RemoveAt(q, CHOOSE k \in DOMAIN q : q[k] = c) ELSE q

\* Dropped: a permit is given back, a place in the queue too, a reserved opening
\* is not.
Drops(c) ==
    /\ step[c] \in {"belt", "queue", "sending", "backing"}
    /\ Waits(c, "dropped", 0)
    /\ free' = IF step[c] = "sending" THEN free + 1 ELSE free
    /\ queue' = Without(queue, c)
    /\ UNCHANGED <<attempt, next, since, close>>

Down(n) == IF n = 0 THEN 0 ELSE n - 1

\* Nobody sleeps past the end of a wait.
Tick ==
    /\ \A c \in Callers : step[c] \in Waiting => left[c] > 0
    /\ ~(queue # <<>> /\ free > 0)
    /\ left' = [c \in Callers |-> IF step[c] \in Waiting THEN left[c] - 1 ELSE left[c]]
    /\ next' = Down(next) /\ since' = IF since < Interval THEN since + 1 ELSE since
    /\ UNCHANGED <<step, attempt, queue, free, close>>

Step(c) == Reserves(c) \/ Opens(c) \/ Begins(c) \/ Retries(c) \/ Ends(c)
Next == (\E c \in Callers : Step(c) \/ Drops(c)) \/ Tick

Spec == Init /\ [][Next]_vars

\* The NAS answers, if only by a timeout, and timers fire.
FairSpec == Spec /\ (\A c \in Callers : WF_vars(Step(c))) /\ WF_vars(Tick)

-----------------------------------------------------------------------------
(* Properties *)

Sending == {c \in Callers : step[c] = "sending"}

\* The slots held are those of requests on the wire: never more than the cap, and
\* never one by a call that backs off or was dropped (acquire_transfer_slot).
SlotsAreRequests == free + Cardinality(Sending) = MaxConcurrency

\* Openings of the belt are an interval apart, and the next one is after them all.
BeltSpaced ==
    \A c \in Callers : step[c] = "belt" =>
        /\ left[c] + Interval <= next
        /\ \A d \in Callers \ {c} : step[d] = "belt" =>
              left[c] + Interval <= left[d] \/ left[d] + Interval <= left[c]

\* A call that is made ends: no order of permits, openings and back-offs starves it.
CallEnds == \A c \in Callers : step[c] = "belt" ~> step[c] \in {"ok", "failed", "dropped"}

\* ThrottleConfig: "a rate-limit belt (min_interval) that spaces request starts
\* even at full concurrency".
StartsSpaced == ~close
=============================================================================
