----------------------------- MODULE SmbSession -----------------------------
(***************************************************************************)
(* The one session of an SMB transport (synology-filestation-smb           *)
(* transport.rs): how operations get at it, how it is found dead and       *)
(* rebuilt, and how a better leg's session is adopted in its place.        *)
(*                                                                         *)
(* The slot with the session and its attached trees is behind one lock.    *)
(* Most operations hold it only to rebuild and attach, and then run on a   *)
(* clone of the connection, so an answer can arrive from a session that is *)
(* no longer in the slot; writes and renames hold it to the end.  What is  *)
(* known of the link is in flags outside the lock.                         *)
(*                                                                         *)
(* Sessions are numbered as they are built.  What a login is answered is   *)
(* the gate's or the server's word (AuthGate), so it is a free choice here.*)
(***************************************************************************)
EXTENDS Naturals

CONSTANTS Ops,          \* operations in flight at once
          Locked,       \* those that hold the lock across their round trips
          Abortable,    \* those whose future may be dropped
          Adopters,     \* calls of adopt: the watch that moves legs
          MaxTrouble    \* bound: links that die and answers that time out

Nobody == "nobody"

SessionAssumption ==
    /\ Nobody \notin Ops
    /\ Locked \subseteq Ops /\ Abortable \subseteq Ops
    /\ MaxTrouble \in Nat

VARIABLES kind,        \* how the transport was built
          cur,         \* the session in the slot, 0 when there is none
          made,        \* the last session built
          dead,        \* sessions whose link is gone
          trees,       \* the session the cached trees belong to, 0 when empty
          lock,        \* who holds the slot
          needs, refused, turnedAway, hasSession, ended,   \* ReconnectState
          phase, on,   \* per operation: what it does, and on which session
          adopting,    \* per adopter: idle, dialing, or the session it holds
          trouble,     \* bound
          known,       \* history: sessions an operation found dead
          dropped      \* history: a rebuild was dropped half-way

flags == <<needs, refused, turnedAway, hasSession, ended>>
slot == <<cur, made, dead, trees>>
vars == <<kind, slot, lock, flags, phase, on, adopting, trouble, known, dropped>>

\* connect; over_with_redial; over; unconnected.
Kinds == {"address", "redial", "stream", "unconnected"}
Possible == kind # "stream"
OpPhases == {"idle", "waiting", "dialing", "attaching", "running"}


TypeOK ==
    /\ kind \in Kinds
    /\ cur \in 0 .. made /\ made \in Nat
    /\ dead \subseteq 1 .. made
    /\ trees \in 0 .. made
    /\ lock \in Ops \cup {Nobody}
    /\ needs \in BOOLEAN /\ turnedAway \in BOOLEAN /\ hasSession \in BOOLEAN /\ ended \in BOOLEAN
    /\ refused \in BOOLEAN
    /\ phase \in [Ops -> OpPhases]
    /\ on \in [Ops -> 0 .. made]
    /\ adopting \in [Adopters -> {"idle", "dialing", "swapping", "done"}]
    /\ trouble \in 0 .. MaxTrouble
    /\ known \subseteq 1 .. made /\ dropped \in BOOLEAN

Init ==
    /\ kind \in Kinds
    /\ made = IF kind = "unconnected" THEN 0 ELSE 1
    /\ cur = made
    /\ dead = {} /\ trees = 0 /\ lock = Nobody
    /\ needs = FALSE /\ refused = FALSE /\ turnedAway = FALSE /\ ended = FALSE
    /\ hasSession = (kind # "unconnected")
    /\ phase = [o \in Ops |-> "idle"]
    /\ on = [o \in Ops |-> 0]
    /\ adopting = [a \in Adopters |-> "idle"]
    /\ trouble = 0 /\ known = {} /\ dropped = FALSE

-----------------------------------------------------------------------------
(* Flags. *)

\* ReconnectState::is_live, which a status badge reads.
IsLive == hasSession /\ ~ needs /\ ~ ended

\* Mutant: a timed-out answer is not taken for a dead link.
FlagIfLost_NotTimeouts(error) ==
    /\ needs' = (needs \/ (Possible /\ error = "lost"))
    /\ ended' = (ended \/ (~ Possible /\ error = "lost"))

\* ReconnectState::flag_if_lost.  A time-out or an expired session may pass, so
\* it is no reason to call a stream that cannot be reopened ended.
FlagIfLost(error) ==
    /\ needs' = (needs \/ (Possible /\ error \in {"lost", "timeout"}))
    /\ ended' = (ended \/ (~ Possible /\ error = "lost"))

Goes(o, next) == phase' = [phase EXCEPT ![o] = next]
Unlock(o) == lock' = IF lock = o THEN Nobody ELSE lock

\* The operation returns, letting go of the slot if it had it.
Leaves(o) ==
    /\ Goes(o, "idle")
    /\ on' = [on EXCEPT ![o] = 0]
    /\ Unlock(o)

-----------------------------------------------------------------------------
(* An operation. *)

Begin(o) ==
    /\ phase[o] = "idle"
    /\ Goes(o, "waiting")
    /\ UNCHANGED <<kind, slot, lock, flags, on, adopting, trouble, known, dropped>>

Takes(o) == phase[o] = "waiting" /\ lock = Nobody

\* No session, or one flagged dead whose login was refused: stand aside.
Declined(o) ==
    /\ Takes(o)
    /\ cur = 0 \/ (Possible /\ needs /\ refused)
    /\ Leaves(o)
    /\ UNCHANGED <<kind, slot, flags, adopting, trouble, known, dropped>>

\* The session is good as far as anybody knows: go on to the share.
Proceeds(o) ==
    /\ Takes(o)
    /\ cur # 0 /\ ~ (Possible /\ needs)
    /\ lock' = o
    /\ Goes(o, "attaching")
    /\ UNCHANGED <<kind, slot, flags, on, adopting, trouble, known, dropped>>

\* Mutant: a refused login is asked again.
Rebuilds_AsksAgain(o) ==
    /\ Takes(o)
    /\ cur # 0 /\ Possible /\ needs
    /\ needs' = FALSE
    /\ lock' = o
    /\ Goes(o, "dialing")
    /\ UNCHANGED <<kind, slot, refused, turnedAway, hasSession, ended, on, adopting,
                   trouble, known, dropped>>

\* reconnect_if_needed clears the flag and dials, through the gate.
Rebuilds(o) ==
    /\ Takes(o)
    /\ cur # 0 /\ Possible /\ needs /\ ~ refused
    /\ needs' = FALSE
    /\ lock' = o
    /\ Goes(o, "dialing")
    /\ UNCHANGED <<kind, slot, refused, turnedAway, hasSession, ended, on, adopting,
                   trouble, known, dropped>>

\* Mutant: the trees of the dead session are kept.
Rebuilt_KeepsTrees(o) ==
    /\ phase[o] = "dialing"
    /\ made' = made + 1 /\ cur' = made + 1
    /\ Goes(o, "attaching")
    /\ UNCHANGED <<kind, dead, trees, lock, flags, on, adopting, trouble, known, dropped>>

\* The session is rebuilt in its slot.  Nothing settles the flags here: an
\* operation of the old session that fails meanwhile flags the new one.
Rebuilt(o) ==
    /\ phase[o] = "dialing"
    /\ made' = made + 1 /\ cur' = made + 1
    /\ trees' = 0
    /\ Goes(o, "attaching")
    /\ UNCHANGED <<kind, dead, lock, flags, on, adopting, trouble, known, dropped>>

\* Refused, by the server or unasked by the gate: for good.
RebuildRefused(o) ==
    /\ phase[o] = "dialing"
    /\ refused' = TRUE /\ needs' = TRUE
    /\ turnedAway' \in {turnedAway, TRUE}
    /\ Leaves(o)
    /\ UNCHANGED <<kind, slot, hasSession, ended, adopting, trouble, known, dropped>>

\* Mutant: a failed rebuild leaves the flag cleared.
RebuildFails_Unflagged(o) ==
    /\ phase[o] = "dialing"
    /\ Leaves(o)
    /\ UNCHANGED <<kind, slot, flags, adopting, trouble, known, dropped>>

\* The link would not come back; the next operation tries again.
RebuildFails(o) ==
    /\ phase[o] = "dialing"
    /\ needs' = TRUE
    /\ Leaves(o)
    /\ UNCHANGED <<kind, slot, refused, turnedAway, hasSession, ended, adopting,
                   trouble, known, dropped>>

\* `ready` attaches the share on the session in the slot, unless its tree is
\* there, and `attached` lets go of the lock for an operation that runs off it.
Attached(o) ==
    /\ phase[o] = "attaching"
    /\ trees = 0 => cur \notin dead
    /\ trees' = IF trees = 0 THEN cur ELSE trees
    /\ on' = [on EXCEPT ![o] = cur]
    /\ Goes(o, "running")
    /\ IF o \in Locked THEN UNCHANGED lock ELSE Unlock(o)
    /\ UNCHANGED <<kind, cur, made, dead, flags, adopting, trouble, known, dropped>>

\* The operation is answered, with a result or an error of its own.
Answered(o) ==
    /\ phase[o] = "running"
    /\ on[o] \notin dead
    /\ Leaves(o)
    /\ UNCHANGED <<kind, slot, flags, adopting, trouble, known, dropped>>

\* The tree connect, or the operation itself, finds the link dead: mark_and_map.
FindsDead(o) ==
    LET s == IF phase[o] = "attaching" THEN cur ELSE on[o] IN
    /\ phase[o] = "running" \/ (phase[o] = "attaching" /\ trees = 0)
    /\ s \in dead
    /\ FlagIfLost("lost")
    /\ known' = known \cup {s}
    /\ Leaves(o)
    /\ UNCHANGED <<kind, slot, refused, turnedAway, hasSession, adopting, trouble, dropped>>

\* No answer before the deadline, from a session that may be alive.
TimesOut(o) ==
    /\ phase[o] = "running"
    /\ trouble < MaxTrouble
    /\ trouble' = trouble + 1
    /\ FlagIfLost("timeout")
    /\ known' = IF Possible THEN known \cup {on[o]} ELSE known
    /\ Leaves(o)
    /\ UNCHANGED <<kind, slot, refused, turnedAway, hasSession, adopting, dropped>>

\* The caller's future is dropped while it waits for anything, the rebuild too.
Dropped(o) ==
    /\ o \in Abortable
    /\ phase[o] # "idle"
    /\ dropped' = (dropped \/ phase[o] = "dialing")
    /\ Leaves(o)
    /\ UNCHANGED <<kind, slot, flags, adopting, trouble, known>>

-----------------------------------------------------------------------------
(* Moving to another leg, and everything else that touches the flags. *)

\* adopt: once refused it returns without touching the stream.
AdoptBegins(a) ==
    /\ adopting[a] = "idle"
    /\ adopting' = [adopting EXCEPT ![a] = IF refused THEN "done" ELSE "dialing"]
    /\ UNCHANGED <<kind, slot, lock, flags, phase, on, trouble, known, dropped>>

AdoptRefused(a) ==
    /\ adopting[a] = "dialing"
    /\ refused' = TRUE
    /\ turnedAway' \in {turnedAway, TRUE}
    /\ adopting' = [adopting EXCEPT ![a] = "done"]
    /\ UNCHANGED <<kind, slot, lock, needs, hasSession, ended, phase, on, trouble, known, dropped>>

AdoptFails(a) ==
    /\ adopting[a] = "dialing"
    /\ adopting' = [adopting EXCEPT ![a] = "done"]
    /\ UNCHANGED <<kind, slot, lock, flags, phase, on, trouble, known, dropped>>

AdoptDialed(a) ==
    /\ adopting[a] = "dialing"
    /\ adopting' = [adopting EXCEPT ![a] = "swapping"]
    /\ UNCHANGED <<kind, slot, lock, flags, phase, on, trouble, known, dropped>>

\* Mutant: the swap does not wait for the operation that holds the slot.
Swap_Unlocked(a) ==
    /\ adopting[a] = "swapping"
    /\ made' = made + 1 /\ cur' = made + 1
    /\ trees' = 0
    /\ hasSession' = TRUE /\ needs' = FALSE /\ ended' = FALSE
    /\ adopting' = [adopting EXCEPT ![a] = "done"]
    /\ UNCHANGED <<kind, dead, lock, refused, turnedAway, phase, on, trouble, known, dropped>>

\* The swap, under the lock: the session, the trees, and settled().
Swap(a) ==
    /\ adopting[a] = "swapping"
    /\ lock = Nobody
    /\ made' = made + 1 /\ cur' = made + 1
    /\ trees' = 0
    /\ hasSession' = TRUE /\ needs' = FALSE /\ ended' = FALSE
    /\ adopting' = [adopting EXCEPT ![a] = "done"]
    /\ UNCHANGED <<kind, dead, lock, refused, turnedAway, phase, on, trouble, known, dropped>>

\* A lane's login is refused: the transport's refusal too.
LaneRefused ==
    /\ IsLive /\ ~ refused
    /\ refused' = TRUE
    /\ turnedAway' \in {turnedAway, TRUE}
    /\ UNCHANGED <<kind, slot, lock, needs, hasSession, ended, phase, on, adopting,
                   trouble, known, dropped>>

LinkDies(s) ==
    /\ s \in (1 .. made) \ dead
    /\ trouble < MaxTrouble
    /\ trouble' = trouble + 1
    /\ dead' = dead \cup {s}
    /\ UNCHANGED <<kind, cur, made, trees, lock, flags, phase, on, adopting, known, dropped>>

-----------------------------------------------------------------------------
Enters(o) == Declined(o) \/ Proceeds(o) \/ Rebuilds(o)
Dials(o) == Rebuilt(o) \/ RebuildRefused(o) \/ RebuildFails(o)
Ends(o) == Attached(o) \/ Answered(o) \/ FindsDead(o) \/ TimesOut(o)
Adopts(a) == AdoptBegins(a) \/ AdoptRefused(a) \/ AdoptFails(a) \/ AdoptDialed(a) \/ Swap(a)

Next ==
    \/ \E o \in Ops : Begin(o) \/ Enters(o) \/ Dials(o) \/ Ends(o) \/ Dropped(o)
    \/ \E a \in Adopters : Adopts(a)
    \/ LaneRefused
    \/ \E s \in 1 .. made : LinkDies(s)

Spec == Init /\ [][Next]_vars

\* Operations keep coming and their round trips end; the lock is a fair queue;
\* a NAS that is redialed for ever answers in the end.
Fairness ==
    \A o \in Ops :
        /\ WF_vars(Begin(o)) /\ SF_vars(Enters(o)) /\ WF_vars(Dials(o))
        /\ SF_vars(Rebuilt(o)) /\ WF_vars(Ends(o))

FairSpec == Spec /\ Fairness

-----------------------------------------------------------------------------
(* Properties. *)

\* The cached trees are those of the session in the slot, and an operation that
\* holds the slot runs on the session in it, though legs move under everybody.
SlotIsCoherent ==
    /\ trees \in {0, cur}
    /\ \A o \in Locked : phase[o] = "running" => on[o] = cur

\* The badge does not call a session live that an operation has found dead, but
\* while it is being rebuilt, or after a rebuild was dropped half-way: the flag
\* is cleared before the dial and only the dial's end sets it again.
LiveIsTruthful ==
    (Possible /\ IsLive /\ cur \in known) => (dropped \/ \E o \in Ops : phase[o] = "dialing")

\* Once a login is refused this transport starts no other, by a rebuild or by
\* moving legs: each would be a strike towards the block of the address.
NoLoginOnceRefused ==
    refused => /\ \A o \in Ops : phase'[o] = "dialing" => phase[o] = "dialing"
               /\ \A a \in Adopters : adopting'[a] = "dialing" => adopting[a] = "dialing"
RefusalIsFinal == [][NoLoginOnceRefused]_vars

\* A session flagged dead is rebuilt, or its login is refused: operations never
\* go on declining for the rest of the mount.
Owed == needs /\ ~ refused
ComesBack == Owed ~> ~ Owed

\* What the flag's comment says it records: only a session an operation has found
\* dead is rebuilt.
RebuildsTheDead ==
    \A o \in Ops : (phase'[o] = "dialing" /\ phase[o] # "dialing") => cur \in known
OnlyDeadRebuilt == [][RebuildsTheDead]_vars

=============================================================================
