------------------------------ MODULE AuthGate ------------------------------
(***************************************************************************)
(* The process-wide memory of refused SMB logins (synology-filestation-smb *)
(* probe.rs).  DSM blocks an address after three refused logins and the    *)
(* block does not expire, so every login of every transport and of every   *)
(* extra read connection goes through here: an account has a slot with an  *)
(* asynchronous lock held across a dial whose outcome nobody knows, a      *)
(* refusal is remembered for a cool-down, and the dials that queued behind *)
(* one take its answer.                                                    *)
(*                                                                         *)
(* A caller is one call of AuthGate::dial at a time.  The locks are fair   *)
(* queues (tokio's).  A caller's future can be dropped while it waits or   *)
(* dials: a read-ahead aborted on the last close runs through here when it *)
(* finds its session dead.  Ages are saturated at the cool-down.           *)
(***************************************************************************)
EXTENDS Naturals, Sequences, SequencesExt

CONSTANTS Callers,      \* calls of dial that may be under way at once
          Accounts,     \* Account values: host, user, domain and password
          AccountOf,    \* the account each caller logs in to
          RouteOf,      \* Route::Address or Route::Stream
          Abortable,    \* callers whose future may be dropped
          Cooldown,     \* auth_cooldown(), in ticks
          MaxDials      \* bound: dials the run may start

GateAssumption ==
    /\ AccountOf \in [Callers -> Accounts]
    /\ RouteOf \in [Callers -> {"address", "stream"}]
    /\ Abortable \subseteq Callers
    /\ Cooldown \in Nat \ {0}
    /\ MaxDials \in Nat

VARIABLES mapped,    \* accounts that have a slot in the map
          refusal,   \* per account: age of the remembered refusal, or NoRefusal
          last,      \* per account: how the last locked dial ended, or "none"
          queue,     \* per account: callers at the slot's lock, the holder first
          phase,     \* what each caller is doing
          fresh,     \* callers that asked before `last` was recorded
          accepts,   \* accounts whose credentials the NAS accepts
          dials,     \* bound: dials started
          struck,    \* history: age of each account's last strike
          noted,     \* history: age of the last strike a slot was told of
          crowded,   \* history: accounts struck under the lock within the
                     \* cool-down of a strike a slot had been told of
          doubled    \* history: accounts struck within the cool-down of any

history == <<struck, noted, crowded, doubled>>
vars == <<mapped, refusal, last, queue, phase, fresh, accepts, dials, history>>

NoRefusal == Cooldown + 1
Outcomes == {"none", "ok", "down-address", "down-stream"}
Phases == {"idle", "queued", "dialing", "beside", "recording"}

TypeOK ==
    /\ mapped \subseteq Accounts
    /\ refusal \in [Accounts -> 0 .. NoRefusal]
    /\ last \in [Accounts -> Outcomes]
    /\ \A a \in Accounts : Range(queue[a]) \subseteq {c \in Callers : AccountOf[c] = a}
    /\ phase \in [Callers -> Phases]
    /\ fresh \subseteq Callers
    /\ accepts \subseteq Accounts
    /\ dials \in 0 .. MaxDials
    /\ struck \in [Accounts -> 0 .. Cooldown]
    /\ noted \in [Accounts -> 0 .. Cooldown]
    /\ crowded \subseteq Accounts
    /\ doubled \subseteq Accounts

Init ==
    /\ mapped = {}
    /\ refusal = [a \in Accounts |-> NoRefusal]
    /\ last = [a \in Accounts |-> "none"]
    /\ queue = [a \in Accounts |-> <<>>]
    /\ phase = [c \in Callers |-> "idle"]
    /\ fresh = {}
    /\ accepts \in SUBSET Accounts
    /\ dials = 0
    /\ struck = [a \in Accounts |-> Cooldown]
    /\ noted = [a \in Accounts |-> Cooldown]
    /\ crowded = {}
    /\ doubled = {}

-----------------------------------------------------------------------------
(* Slots. *)

\* Those that hold a reference to the slot besides the map's.
Holders(a) == {c \in Callers : AccountOf[c] = a /\ phase[c] # "idle"}

\* Mutant: the sweep looks at who holds the slot and not at what it remembers.
Sweepable_ForgetsRefusals(a) == Holders(a) = {}

\* forgettable with holders = 1 and a cooldown: what slot() sweeps out.
Sweepable(a) == Holders(a) = {} /\ refusal[a] >= Cooldown

\* Mutant: the refusal is not looked at when a slot is let go of.
Releasable_ForgetsRefusals(a, c) == Holders(a) = {c}

\* forgettable with holders = 2 and no cooldown: what release() drops.
Releasable(a, c) == Holders(a) = {c} /\ refusal[a] = NoRefusal

\* The slot of `a` leaves the map and with it what it remembered.
Forgotten(f, gone, blank) == [a \in Accounts |-> IF a \in gone THEN blank ELSE f[a]]

Holds(c) == queue[AccountOf[c]] # <<>> /\ Head(queue[AccountOf[c]]) = c

\* AuthGate::slot, and joining the queue at its lock: `asked` is taken just
\* before, so an outcome recorded from here on is one the caller asked ahead of.
Ask(c) ==
    LET gone == {a \in mapped : Sweepable(a)} IN
    /\ phase[c] = "idle"
    /\ dials < MaxDials
    /\ dials' = dials + 1
    /\ mapped' = (mapped \ gone) \cup {AccountOf[c]}
    /\ refusal' = Forgotten(refusal, gone, NoRefusal)
    /\ last' = Forgotten(last, gone, "none")
    /\ queue' = [queue EXCEPT ![AccountOf[c]] = Append(@, c)]
    /\ phase' = [phase EXCEPT ![c] = "queued"]
    /\ fresh' = fresh \ {c}
    /\ UNCHANGED <<accepts, history>>

\* The queue without c, which is in it once if at all.
Without(q, c) ==
    IF \E k \in DOMAIN q : q[k] = c THEN RemoveAt(q, CHOOSE k \in DOMAIN q : q[k] = c) ELSE q

\* The caller returns; `released` says whether release() ran.
Return(c, released, newRefusal, newLast) ==
    LET a == AccountOf[c]
        gone == released /\ Holders(a) = {c} /\ newRefusal = NoRefusal
    IN  /\ phase' = [phase EXCEPT ![c] = "idle"]
        /\ queue' = [queue EXCEPT ![a] = Without(@, c)]
        /\ mapped' = IF gone THEN mapped \ {a} ELSE mapped
        /\ refusal' = [refusal EXCEPT ![a] = newRefusal]
        /\ last' = [last EXCEPT ![a] = IF gone THEN "none" ELSE newLast]

-----------------------------------------------------------------------------
(* AuthGate::dial, from the moment the lock is held. *)

\* A refusal within the cool-down: turned away without asking.
TurnedAway(c) ==
    LET a == AccountOf[c] IN
    /\ phase[c] = "queued" /\ Holds(c)
    /\ refusal[a] < Cooldown
    /\ Return(c, FALSE, refusal[a], last[a])
    /\ UNCHANGED <<fresh, accepts, dials, history>>

\* A dial over the account's own address found it down while this one, which
\* would go the same way, waited: take its answer.
SharesUnreachable(c) ==
    LET a == AccountOf[c] IN
    /\ phase[c] = "queued" /\ Holds(c)
    /\ refusal[a] >= Cooldown
    /\ c \in fresh /\ last[a] = "down-address" /\ RouteOf[c] = "address"
    /\ Return(c, TRUE, NoRefusal, last[a])
    /\ UNCHANGED <<fresh, accepts, dials, history>>

\* A dial finished while this one waited and is no answer to it: accepted
\* credentials, or a link one of the two does not run on.  Dial at once, with
\* the lock let go of.
DialBeside(c) ==
    LET a == AccountOf[c] IN
    /\ phase[c] = "queued" /\ Holds(c)
    /\ refusal[a] >= Cooldown
    /\ c \in fresh /\ last[a] # "none"
    /\ last[a] = "down-address" => RouteOf[c] = "stream"
    /\ phase' = [phase EXCEPT ![c] = "beside"]
    /\ queue' = [queue EXCEPT ![a] = Tail(@)]
    /\ refusal' = [refusal EXCEPT ![a] = NoRefusal]
    /\ UNCHANGED <<mapped, last, fresh, accepts, dials, history>>

\* Mutant: the lock is let go of before the dial rather than after it.
DialLocked_LetsGo(c) ==
    LET a == AccountOf[c] IN
    /\ phase[c] = "queued" /\ Holds(c)
    /\ refusal[a] >= Cooldown
    /\ c \notin fresh \/ last[a] = "none"
    /\ phase' = [phase EXCEPT ![c] = "dialing"]
    /\ queue' = [queue EXCEPT ![a] = Append(Tail(@), c)]
    /\ refusal' = [refusal EXCEPT ![a] = NoRefusal]
    /\ UNCHANGED <<mapped, last, fresh, accepts, dials, history>>

\* Nobody knows the outcome: dial, holding the lock.
DialLocked(c) ==
    LET a == AccountOf[c] IN
    /\ phase[c] = "queued" /\ Holds(c)
    /\ refusal[a] >= Cooldown
    /\ c \notin fresh \/ last[a] = "none"
    /\ phase' = [phase EXCEPT ![c] = "dialing"]
    /\ refusal' = [refusal EXCEPT ![a] = NoRefusal]
    /\ UNCHANGED <<mapped, last, queue, fresh, accepts, dials, history>>

\* The callers that asked before an outcome recorded now.
Waiting(c) == {d \in Callers : AccountOf[d] = AccountOf[c] /\ phase[d] = "queued"}

\* A locked dial is accepted.
Accepted(c) ==
    /\ phase[c] = "dialing"
    /\ AccountOf[c] \in accepts
    /\ Return(c, TRUE, refusal[AccountOf[c]], "ok")
    /\ fresh' = fresh \cup Waiting(c)
    /\ UNCHANGED <<accepts, dials, history>>

\* A locked dial finds the link down, whatever the credentials are worth.
Unreachable(c) ==
    /\ phase[c] = "dialing"
    /\ Return(c, TRUE, refusal[AccountOf[c]],
              IF RouteOf[c] = "address" THEN "down-address" ELSE "down-stream")
    /\ fresh' = fresh \cup Waiting(c)
    /\ UNCHANGED <<accepts, dials, history>>

\* The NAS counts a refused login.
Strike(a) ==
    /\ struck' = [struck EXCEPT ![a] = 0]
    /\ doubled' = IF struck[a] < Cooldown THEN doubled \cup {a} ELSE doubled

LockedStrike(a) ==
    /\ Strike(a)
    /\ noted' = [noted EXCEPT ![a] = 0]
    /\ crowded' = IF noted[a] < Cooldown THEN crowded \cup {a} ELSE crowded

\* Mutant: a refusal is returned to its caller and not remembered.
Refused_Forgotten(c) ==
    /\ phase[c] = "dialing"
    /\ AccountOf[c] \notin accepts
    /\ Return(c, TRUE, NoRefusal, "none")
    /\ LockedStrike(AccountOf[c])
    /\ UNCHANGED <<fresh, accepts, dials>>

\* A locked dial is refused: AuthGate::refuse remembers it, and `last` no
\* longer answers for anybody.
Refused(c) ==
    /\ phase[c] = "dialing"
    /\ AccountOf[c] \notin accepts
    /\ Return(c, TRUE, 0, "none")
    /\ LockedStrike(AccountOf[c])
    /\ UNCHANGED <<fresh, accepts, dials>>

\* A dial beside others ends without a refusal; it records nothing.
BesideDone(c) ==
    /\ phase[c] = "beside"
    /\ Return(c, TRUE, refusal[AccountOf[c]], last[AccountOf[c]])
    /\ UNCHANGED <<fresh, accepts, dials, history>>

\* A dial beside others is refused.  It queues for the lock to say so.
BesideRefused(c) ==
    /\ phase[c] = "beside"
    /\ AccountOf[c] \notin accepts
    /\ phase' = [phase EXCEPT ![c] = "recording"]
    /\ queue' = [queue EXCEPT ![AccountOf[c]] = Append(@, c)]
    /\ Strike(AccountOf[c])
    /\ UNCHANGED <<mapped, refusal, last, fresh, accepts, dials, noted, crowded>>

BesideRecorded(c) ==
    /\ phase[c] = "recording" /\ Holds(c)
    /\ Return(c, TRUE, 0, last[AccountOf[c]])
    /\ noted' = [noted EXCEPT ![AccountOf[c]] = 0]
    /\ UNCHANGED <<fresh, accepts, dials, struck, crowded, doubled>>

\* The caller's future is dropped: its reference and its place at the lock go,
\* and release() does not run.
Dropped(c) ==
    /\ c \in Abortable
    /\ phase[c] # "idle"
    /\ Return(c, FALSE, refusal[AccountOf[c]], last[AccountOf[c]])
    /\ UNCHANGED <<fresh, accepts, dials, history>>

\* The password changes on the NAS.
CredentialsChange(a) ==
    /\ accepts' = IF a \in accepts THEN accepts \ {a} ELSE accepts \cup {a}
    /\ UNCHANGED <<mapped, refusal, last, queue, phase, fresh, dials, history>>

Older(age) == IF age < Cooldown THEN age + 1 ELSE age

Tick ==
    /\ \E a \in Accounts : struck[a] < Cooldown \/ noted[a] < Cooldown
    /\ refusal' = [a \in Accounts |-> Older(refusal[a])]
    /\ struck' = [a \in Accounts |-> Older(struck[a])]
    /\ noted' = [a \in Accounts |-> Older(noted[a])]
    /\ UNCHANGED <<mapped, last, queue, phase, fresh, accepts, dials, crowded, doubled>>

Takes(c) == TurnedAway(c) \/ SharesUnreachable(c) \/ DialBeside(c) \/ DialLocked(c)
            \/ BesideRecorded(c)
Ends(c) == Accepted(c) \/ Unreachable(c) \/ Refused(c) \/ BesideDone(c) \/ BesideRefused(c)

Settled == Tick \/ \E c \in Callers : Ask(c) \/ Takes(c) \/ Ends(c) \/ Dropped(c)
Next == Settled \/ \E a \in Accounts : CredentialsChange(a)

Spec == Init /\ [][Next]_vars

\* Every dial ends (the SMB client bounds the dial and each answer), and the
\* lock goes to the next in the queue.
Fairness == \A c \in Callers : WF_vars(Takes(c)) /\ WF_vars(Ends(c))
FairSpec == Spec /\ Fairness

\* The same with the passwords on the NAS left alone.
SteadySpec == Init /\ [][Settled]_vars

-----------------------------------------------------------------------------
(* Properties. *)

\* A dial that nobody has an outcome for is made by one caller at a time: the
\* lock is held across it.
OneUnknownDial ==
    \A c, d \in Callers :
        (AccountOf[c] = AccountOf[d] /\ phase[c] = "dialing" /\ phase[d] = "dialing") => c = d

\* A dial made under the lock never earns a strike within the cool-down of one
\* the slot was told of, however slots are swept, released and asked for again
\* meanwhile: only a dial let through beside a recorded outcome can.
StrikesSpaced == crowded = {} /\ OneUnknownDial

\* Every caller is answered: the queue at a slot's lock always moves on.
Busy(c) == phase[c] # "idle"
DialAnswered == \A c \in Callers : Busy(c) ~> ~ Busy(c)

\* What the gate is for, in the words of its comment: a burst of clients created
\* together must not each be a strike.  Checked where no password changes.
OneStrike == doubled = {}

=============================================================================
