---------------------------- MODULE CircuitBreaker ----------------------------
(***************************************************************************)
(* The health tracker of one injected backend, and the loop that consults  *)
(* it before every operation (synology-filestation-core: transport.rs, and *)
(* the selection loops of client/download.rs, upload.rs and mod.rs, which  *)
(* are the same code around different calls).                              *)
(*                                                                         *)
(* Each caller asks the breaker, awaits the backend with no lock held, and *)
(* reports a verdict.  Many callers do this at once, so a verdict may be   *)
(* recorded long after the state it was asked under has gone.  A caller    *)
(* whose future is dropped while it awaits (a prefetch aborted when the    *)
(* last handle on its file closes) reports nothing at all.                 *)
(*                                                                         *)
(* Time is the time since opened_at, saturated at the cooldown: the code   *)
(* only ever asks whether the cooldown has elapsed.                        *)
(***************************************************************************)
EXTENDS Naturals

CONSTANTS Ops,               \* callers that may be inside an operation at once
          Abortable,         \* those whose future may be dropped mid-await
          FailureThreshold,  \* BreakerConfig::failure_threshold
          Cooldown,          \* BreakerConfig::cooldown, in ticks
          MaxCount           \* bound: failures counted since the last success

ASSUME BreakerAssumption ==
    /\ Abortable \subseteq Ops
    /\ FailureThreshold \in Nat \ {0}
    /\ Cooldown \in Nat
    /\ MaxCount \in Nat

VARIABLES state,         \* Closed, Open { opened_at } or HalfOpen
          openedFor,     \* now - opened_at, saturated at Cooldown
          failures,      \* consecutive_failures
          phase,         \* what each caller is doing
          trials,        \* callers admitted as the half-open trial, still out
          quiet,         \* history: time since the last recorded failure
          lost           \* history: trials dropped with no verdict since the last one

vars == <<state, openedFor, failures, phase, trials, quiet, lost>>

States == {"closed", "open", "halfopen"}
Phases == {"idle", "backend", "http"}

TypeOK ==
    /\ state \in States
    /\ openedFor \in 0 .. Cooldown
    /\ failures \in 0 .. MaxCount
    /\ phase \in [Ops -> Phases]
    /\ trials \subseteq Ops
    /\ quiet \in 0 .. Cooldown
    /\ lost \subseteq Ops

Init ==
    /\ state = "closed"
    /\ openedFor = 0
    /\ failures = 0
    /\ phase = [o \in Ops |-> "idle"]
    /\ trials = {}
    /\ quiet = Cooldown
    /\ lost = {}

-----------------------------------------------------------------------------
(* The breaker's own transitions. *)

\* Mutant: the elapsed time is compared the wrong way round.
Allows_Reversed == state = "closed" \/ (state = "open" /\ openedFor < Cooldown)

\* CircuitBreaker::allows: Closed admits, Open admits once the cooldown is over.
Allows == state = "closed" \/ (state = "open" /\ openedFor >= Cooldown)

\* CircuitBreaker::on_success.
OnSuccess ==
    /\ state' = "closed"
    /\ failures' = 0
    /\ lost' = {}
    /\ UNCHANGED <<openedFor, quiet>>

\* Mutant: only a closed breaker counts failures; late ones are dropped.
OnFailure_ClosedOnly ==
    /\ quiet' = 0
    /\ lost' = {}
    /\ failures' = IF state = "closed" THEN failures + 1 ELSE failures
    /\ IF state = "halfopen" \/ (state = "closed" /\ failures + 1 >= FailureThreshold)
       THEN state' = "open" /\ openedFor' = 0
       ELSE UNCHANGED <<state, openedFor>>

\* CircuitBreaker::on_failure.  A half-open breaker reopens at once and leaves
\* the count alone; otherwise the count goes on, and once it has reached the
\* threshold every further failure moves opened_at again.
OnFailure ==
    /\ quiet' = 0
    /\ lost' = {}
    /\ \/ /\ state = "halfopen"
          /\ state' = "open"
          /\ openedFor' = 0
          /\ UNCHANGED failures
       \/ /\ state # "halfopen"
          /\ failures + 1 >= FailureThreshold
          /\ state' = "open"
          /\ openedFor' = 0
          /\ failures' = failures + 1
       \/ /\ state # "halfopen"
          /\ failures + 1 < FailureThreshold
          /\ failures' = failures + 1
          /\ UNCHANGED <<state, openedFor>>

-----------------------------------------------------------------------------
(* The selection loop around it. *)

\* The breaker lets the caller try the backend.  Leaving Open for HalfOpen is
\* what makes this caller the trial.
Admit(o) ==
    /\ phase[o] = "idle"
    /\ Allows
    /\ phase' = [phase EXCEPT ![o] = "backend"]
    /\ state' = IF state = "open" THEN "halfopen" ELSE state
    /\ trials' = IF state = "open" THEN trials \cup {o} ELSE trials
    /\ UNCHANGED <<openedFor, failures, quiet, lost>>

\* The breaker refuses and the caller goes on to HTTP without asking.
Skip(o) ==
    /\ phase[o] = "idle"
    /\ ~ Allows
    /\ phase' = [phase EXCEPT ![o] = "http"]
    /\ UNCHANGED <<state, openedFor, failures, trials, quiet, lost>>

\* The backend answered: with a result, or with a definitive error that stands.
Answered(o) ==
    /\ phase[o] = "backend"
    /\ OnSuccess
    /\ phase' = [phase EXCEPT ![o] = "idle"]
    /\ trials' = trials \ {o}

\* Mutant: a backend that declines records no verdict.
Declined_NoVerdict(o) ==
    /\ phase[o] = "backend"
    /\ phase' = [phase EXCEPT ![o] = "http"]
    /\ trials' = trials \ {o}
    /\ UNCHANGED <<state, openedFor, failures, quiet, lost>>

\* The backend declined (NotSupported).  TransportEntry::answered records that
\* as a success, and the caller goes on to HTTP.
Declined(o) ==
    /\ phase[o] = "backend"
    /\ OnSuccess
    /\ phase' = [phase EXCEPT ![o] = "http"]
    /\ trials' = trials \ {o}

\* The backend failed on the transport; the caller falls back to HTTP.
Failed(o) ==
    /\ phase[o] = "backend"
    /\ state = "halfopen" \/ failures < MaxCount
    /\ OnFailure
    /\ phase' = [phase EXCEPT ![o] = "http"]
    /\ trials' = trials \ {o}

\* The caller's future is dropped while it awaits the backend: no verdict.
Dropped(o) ==
    /\ o \in Abortable
    /\ phase[o] = "backend"
    /\ phase' = [phase EXCEPT ![o] = "idle"]
    /\ trials' = trials \ {o}
    /\ lost' = lost \cup (trials \cap {o})
    /\ UNCHANGED <<state, openedFor, failures, quiet>>

\* The HTTP API answers, which the breaker never hears of.
HttpDone(o) ==
    /\ phase[o] = "http"
    /\ phase' = [phase EXCEPT ![o] = "idle"]
    /\ UNCHANGED <<state, openedFor, failures, trials, quiet, lost>>

Tick ==
    /\ openedFor < Cooldown \/ quiet < Cooldown
    /\ openedFor' = IF openedFor < Cooldown THEN openedFor + 1 ELSE openedFor
    /\ quiet' = IF quiet < Cooldown THEN quiet + 1 ELSE quiet
    /\ UNCHANGED <<state, failures, phase, trials, lost>>

Next ==
    \/ Tick
    \/ \E o \in Ops :
          \/ Admit(o) \/ Skip(o)
          \/ Answered(o) \/ Declined(o) \/ Failed(o) \/ Dropped(o)
          \/ HttpDone(o)

Spec == Init /\ [][Next]_vars

\* Time passes; every request ends (the transports bound their own round trips
\* and the HTTP client has a read timeout); callers keep coming.
Fairness ==
    /\ WF_vars(Tick)
    /\ \A o \in Ops :
          /\ WF_vars(Admit(o) \/ Skip(o))
          /\ WF_vars(Answered(o) \/ Declined(o) \/ Failed(o) \/ Dropped(o))
          /\ WF_vars(HttpDone(o))

FairSpec == Spec /\ Fairness

-----------------------------------------------------------------------------
(* Properties. *)

\* A backend whose failures opened the breaker is left alone for a full
\* cooldown counted from its LAST failure, whichever caller reported it: a
\* late failure from a call made before the breaker opened counts too.
CoolsInFull ==
    [][\A o \in Ops :
          (state # "closed" /\ phase[o] # "backend" /\ phase'[o] = "backend")
              => quiet >= Cooldown]_vars

\* A half-open breaker refuses everybody, so it must have a trial out whose
\* verdict will move it: every way a trial can END (a result, a definitive error,
\* a decline, a transport failure) leaves half-open, which is what
\* TransportEntry::answered is there for.  Only a trial whose future was dropped
\* mid-await can leave it with nobody out.
TrialOutstanding == state = "halfopen" => (trials \cup lost) # {}

\* What the comment on TransportEntry claims outright: the breaker is never left
\* half-open with no attempt out ("strands it half-open -- and `allows` never
\* returns true again").
NeverStranded == state = "halfopen" => \E o \in Ops : phase[o] = "backend"

\* An open breaker is eventually tried again, however many stale failures
\* arrive meanwhile and push opened_at along.
OpenIsRetried == (state = "open") ~> (state # "open")

=============================================================================
