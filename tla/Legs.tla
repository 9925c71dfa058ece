-------------------------------- MODULE Legs --------------------------------
(***************************************************************************)
(* Which leg a mount is on (synology-filestation-connect lib.rs and        *)
(* openvpn.rs, synology-filestation-fuse legs.rs and the redial and lane   *)
(* openings of its lib.rs).                                                *)
(*                                                                         *)
(* Three callers ask the one Chain: the watch, which looks for a better    *)
(* leg and hands the SMB transport a session on it; the redial, which an   *)
(* operation runs under the transport's lock when the session is dead; and *)
(* the opening of one more connection to read over.  They share the        *)
(* chain's decision, its memory of the tunnel's failures, and the tunnel,  *)
(* which the first of them to need it raises under a lock.                 *)
(***************************************************************************)
EXTENDS Naturals

CONSTANTS Smb, Vpn, Https, \* the policy: which legs may be used
          Recheck,         \* how long a degraded decision stands
          TunnelRecheck,   \* how long a failed tunnel is left alone
          MaxFlips,        \* bound: changes of the network outside
          MaxLogins        \* bound: tunnel logins counted

LegsAssumption ==
    /\ Recheck \in Nat \ {0} /\ TunnelRecheck \in Nat \ {0}
    /\ MaxFlips \in Nat /\ MaxLogins \in Nat
    /\ Smb \/ Https              \* from_flags refuses a policy of nothing
    /\ Vpn => Smb

VARIABLES decided, stands,   \* Chain::decision and how long it stands yet
          denied, quiet,     \* Chain::refused; what is left of the recheck
          leg,               \* the live session's leg: https when there is none
          had, shut,         \* a session was handed over; its login was refused
          tunnelUp, raising, \* SharedTunnel: running, and who is raising it
          doing, aim,        \* per caller: where it is, and the leg it goes for
          before,            \* the leg the watch set out from
          directUp, password, flips,   \* the network and the account outside
          logins,            \* bound: tunnel logins counted
          overtaken,         \* history: a redial came between adopt and settle
          since              \* history: time since the watch's tunnel carried nothing

chain == <<decided, stands, denied, quiet>>
outside == <<directUp, password, flips>>
tunnel == <<tunnelUp, raising, logins>>
sessions == <<leg, had, shut>>
vars == <<chain, sessions, tunnel, doing, aim, before, outside, overtaken, since>>

Callers == {"watch", "redial", "lane"}
Rank(l) == CASE l = "https" -> 0 [] l = "vpn" -> 1 [] l = "direct" -> 2
Forever == 99
Nobody == "nobody"
Steps == {"idle", "probe", "tunnel", "shared", "take", "swap", "settle"}

TypeOK ==
    /\ decided \in {"none", "https", "vpn", "direct"}
    /\ stands \in 0 .. Recheck \cup {Forever}
    /\ denied \in BOOLEAN /\ quiet \in 0 .. TunnelRecheck
    /\ leg \in {"https", "vpn", "direct"} /\ had \in BOOLEAN /\ shut \in BOOLEAN
    /\ tunnelUp \in BOOLEAN /\ raising \in Callers \cup {Nobody}
    /\ doing \in [Callers -> Steps] /\ aim \in [Callers -> {"none", "vpn", "remembered", "direct"}]
    /\ before \in {"https", "vpn", "direct"}
    /\ directUp \in BOOLEAN /\ password \in BOOLEAN /\ flips \in 0 .. MaxFlips
    /\ logins \in 0 .. MaxLogins
    /\ overtaken \in BOOLEAN /\ since \in 0 .. TunnelRecheck

Init ==
    /\ decided = "none" /\ stands = 0 /\ denied = FALSE /\ quiet = 0
    /\ leg = "https" /\ had = FALSE /\ shut = FALSE
    /\ tunnelUp = FALSE /\ raising = Nobody
    /\ doing = [c \in Callers |-> "idle"] /\ aim = [c \in Callers |-> "none"]
    /\ before = "https"
    /\ directUp \in BOOLEAN /\ password \in BOOLEAN /\ flips = 0
    /\ logins = 0
    /\ overtaken = FALSE /\ since = TunnelRecheck

-----------------------------------------------------------------------------
(* The chain's memory. *)

\* remember: the best leg is never looked beyond, anything less for a while.
Remembered(l) ==
    /\ decided' = l
    /\ stands' = IF l = "direct" THEN Forever ELSE Recheck

Cached == decided # "none" /\ stands > 0

Goes(c, step, to) ==
    /\ doing' = [doing EXCEPT ![c] = step]
    /\ aim' = [aim EXCEPT ![c] = to]

\* raise_tunnel's two rules, before the tunnel is asked at all.
Pointless == ~Vpn \/ denied \/ quiet > 0

\* tunnel_failed: a refusal is latched, anything else buys it some quiet.
TunnelFailed(refusal) ==
    IF refusal THEN denied' = TRUE /\ UNCHANGED quiet
    ELSE quiet' = TunnelRecheck /\ UNCHANGED denied

-----------------------------------------------------------------------------
(* The tunnel's own lock and login (SharedTunnel, OpenVpnTunnel::open). *)

Asking(c) == doing[c] \in {"tunnel", "shared"}

\* A tunnel that runs carries another connection; the lock is held to look.
ConnectsThrough(c) ==
    /\ Asking(c) /\ doing[c] = "tunnel" /\ raising = Nobody /\ tunnelUp
    /\ doing' = [doing EXCEPT ![c] = "shared"]
    /\ UNCHANGED <<chain, sessions, tunnel, aim, before, outside, overtaken, since>>

\* None runs: this caller raises one, and the others wait for the lock.
Raises(c) ==
    /\ doing[c] = "tunnel" /\ raising = Nobody /\ ~tunnelUp
    /\ logins < MaxLogins
    /\ raising' = c /\ logins' = logins + 1
    /\ UNCHANGED <<chain, sessions, tunnelUp, doing, aim, before, outside, overtaken, since>>

\* The tunnel answers caller c: a connection, a blip, or a refused password.
\* Only a raise can be refused; a connection through it that fails keeps it.
Outcomes(c) ==
    IF doing[c] = "shared" THEN {"open", "blip"}
    ELSE IF raising # c THEN {"blip"}       \* patience ran out in the queue
    ELSE IF password THEN {"open", "blip"} ELSE {"refused", "blip"}

LeavesLock(c, o) ==
    /\ raising' = IF raising = c THEN Nobody ELSE raising
    /\ tunnelUp' = (tunnelUp \/ (raising = c /\ o = "open"))
    /\ UNCHANGED logins

Answers(c, o) == Asking(c) /\ o \in Outcomes(c) /\ LeavesLock(c, o)

-----------------------------------------------------------------------------
(* The watch: Legs::step and move_to. *)

\* On the best leg, and after a refused login, a look costs nothing.
Looks ==
    /\ doing["watch"] = "idle" /\ ~shut
    /\ leg # "direct" /\ Smb
    /\ before' = IF leg # "https" /\ decided \in {"vpn", "direct"} THEN decided ELSE "https"
    /\ before' # "direct"
    /\ Goes("watch", "probe", "none")
    /\ UNCHANGED <<chain, sessions, tunnel, outside, overtaken, since>>

\* A slip: the direct leg is asked about only when there is no SMB at all.
BetterThan_FromHttps ==
    /\ doing["watch"] = "probe"
    /\ IF directUp /\ before = "https" THEN Goes("watch", "take", "direct")
       ELSE IF before = "vpn" \/ Pointless THEN Goes("watch", "idle", "none")
       ELSE Goes("watch", "tunnel", "vpn")
    /\ UNCHANGED <<chain, sessions, tunnel, before, outside, overtaken, since>>

\* better_than: the direct leg if it answers; the tunnel only from HTTP.
BetterThan ==
    /\ doing["watch"] = "probe"
    /\ IF directUp THEN Goes("watch", "take", "direct")
       ELSE IF before = "vpn" \/ Pointless THEN Goes("watch", "idle", "none")
       ELSE Goes("watch", "tunnel", "vpn")
    /\ UNCHANGED <<chain, sessions, tunnel, before, outside, overtaken, since>>

WatchIsAnswered(o) ==
    /\ Answers("watch", o)
    /\ UNCHANGED <<decided, stands>>
    /\ IF o = "open"
       THEN quiet' = 0 /\ UNCHANGED denied /\ Goes("watch", "take", "vpn")
       ELSE TunnelFailed(o = "refused") /\ Goes("watch", "idle", "none")
    /\ UNCHANGED <<sessions, before, outside, overtaken, since>>

\* take: dial and log in, beside whatever the transport is doing.
LogsIn ==
    /\ doing["watch"] = "take" /\ ~shut
    /\ aim["watch"] = "direct" => directUp
    /\ Goes("watch", "swap", aim["watch"])
    /\ UNCHANGED <<chain, sessions, tunnel, before, outside, overtaken, since>>

\* adopt: the new session replaces the old one, under the transport's lock.
Adopts ==
    /\ doing["watch"] = "swap" /\ doing["redial"] = "idle"
    /\ leg' = aim["watch"] /\ had' = TRUE
    /\ Goes("watch", "settle", aim["watch"])
    /\ overtaken' = FALSE
    /\ UNCHANGED <<chain, shut, tunnel, before, outside, since>>

\* A slip: the watch trusts the next look to notice where the session is.
Settles_Not ==
    /\ doing["watch"] = "settle"
    /\ Goes("watch", "idle", "none")
    /\ overtaken' = (overtaken \/ doing["redial"] # "idle")
    /\ UNCHANGED <<chain, sessions, tunnel, before, outside, since>>

\* settle, the next thing the watch does.
Settles ==
    /\ doing["watch"] = "settle"
    /\ Remembered(aim["watch"])
    /\ Goes("watch", "idle", "none")
    /\ overtaken' = (overtaken \/ doing["redial"] # "idle")
    /\ UNCHANGED <<denied, quiet, sessions, tunnel, before, outside, since>>

\* A slip: the chain is not told that its tunnel carried nothing.
TakeFails_ChainNotTold(refusal) ==
    /\ doing["watch"] = "take"
    /\ Goes("watch", "idle", "none")
    /\ shut' = (shut \/ refusal)
    /\ since' = IF ~shut' /\ aim["watch"] = "vpn" THEN 0 ELSE since
    /\ UNCHANGED <<chain, leg, had, tunnel, before, outside, overtaken>>

\* No session could be built: a refused login is latched by the transport, and
\* a tunnel that carried nothing has failed as far as the chain is concerned.
TakeFails(refusal) ==
    /\ doing["watch"] = "take"
    /\ Goes("watch", "idle", "none")
    /\ shut' = (shut \/ refusal)
    /\ IF ~shut' /\ aim["watch"] = "vpn"
       THEN TunnelFailed(FALSE) /\ since' = 0
       ELSE UNCHANGED <<denied, quiet, since>>
    /\ UNCHANGED <<decided, stands, leg, had, tunnel, before, outside, overtaken>>

-----------------------------------------------------------------------------
(* The redial: reopen_through, under the transport's lock. *)

Decides(l) == Remembered(l) /\ Goes("redial", IF l = "direct" THEN "take" ELSE "idle",
                                             IF l = "direct" THEN "direct" ELSE "none")

\* reach_smb, from what is remembered when that stands.
Redials ==
    /\ doing["redial"] = "idle" /\ leg = "https" /\ had /\ ~shut
    /\ CASE Cached /\ decided = "direct" -> Goes("redial", "take", "direct")
         [] Cached /\ decided = "vpn" -> Goes("redial", "tunnel", "remembered")
         [] ~Cached -> Goes("redial", "probe", "vpn")
         [] OTHER -> FALSE       \* HTTP stands: nothing to redial on
    /\ UNCHANGED <<chain, sessions, tunnel, before, outside, overtaken, since>>

\* decide_with_tunnel: direct, else the tunnel if it may be asked, else HTTP.
\* With neither it is an error and nothing is remembered.
FallsBack ==
    IF Https THEN Decides("https")
    ELSE Goes("redial", "idle", "none") /\ UNCHANGED <<decided, stands>>

Decide ==
    /\ doing["redial"] = "probe"
    /\ IF directUp THEN Decides("direct")
       ELSE IF aim["redial"] = "none" \/ Pointless THEN FallsBack
       ELSE Goes("redial", "tunnel", "vpn") /\ UNCHANGED <<decided, stands>>
    /\ UNCHANGED <<denied, quiet, sessions, tunnel, before, outside, overtaken, since>>

\* A new tunnel raised by decide: its connection is the proof.
RedialIsAnswered(o) ==
    /\ aim["redial"] = "vpn" /\ Answers("redial", o)
    /\ IF o = "open"
       THEN /\ Remembered("vpn") /\ quiet' = 0 /\ UNCHANGED denied
            /\ Goes("redial", "take", "vpn") /\ since' = TunnelRecheck
       ELSE TunnelFailed(o = "refused") /\ FallsBack /\ UNCHANGED since
    /\ UNCHANGED <<sessions, before, outside, overtaken>>

\* The remembered tunnel: when it no longer opens, decide again without it.
\* Only what was acted on is forgotten: not a fresher answer.
RememberedIsAnswered(o) ==
    /\ aim["redial"] = "remembered" /\ Answers("redial", o)
    /\ IF o = "open"
       THEN Goes("redial", "take", "vpn") /\ UNCHANGED chain
       ELSE /\ TunnelFailed(o = "refused")
            /\ IF decided = "vpn" THEN decided' = "none" /\ stands' = 0
               ELSE UNCHANGED <<decided, stands>>
            /\ Goes("redial", "probe", "none")
    /\ UNCHANGED <<sessions, before, outside, overtaken, since>>

\* The stream is dialled and a session built on it, or not.
Rebuilds ==
    /\ doing["redial"] = "take"
    /\ aim["redial"] = "direct" => directUp
    /\ leg' = aim["redial"]
    /\ overtaken' = (overtaken \/ doing["watch"] = "settle")
    /\ Goes("redial", "idle", "none")
    /\ UNCHANGED <<chain, had, shut, tunnel, before, outside, since>>

RebuildFails(refusal) ==
    /\ doing["redial"] = "take"
    /\ shut' = (shut \/ refusal)
    /\ Goes("redial", "idle", "none")
    /\ UNCHANGED <<chain, leg, had, tunnel, before, outside, overtaken, since>>

-----------------------------------------------------------------------------
(* One more connection to read over: another_smb_connection. *)

\* It reads the settled leg, expired or not, and remembers nothing.
OpensLane ==
    /\ doing["lane"] = "idle" /\ leg # "https" /\ decided = "vpn"
    /\ Goes("lane", "tunnel", "vpn")
    /\ UNCHANGED <<chain, sessions, tunnel, before, outside, overtaken, since>>

LaneIsAnswered(o) ==
    /\ Answers("lane", o)
    /\ Goes("lane", "idle", "none")
    /\ UNCHANGED <<chain, sessions, before, outside, overtaken, since>>

-----------------------------------------------------------------------------
(* Time and the world outside. *)

\* A decision that does not expire is the best there is.
Tick ==
    /\ stands' = IF stands \in {0, Forever} THEN stands ELSE stands - 1
    /\ quiet' = IF quiet > 0 THEN quiet - 1 ELSE 0
    /\ since' = IF since < TunnelRecheck THEN since + 1 ELSE since
    /\ UNCHANGED <<decided, denied, sessions, tunnel, doing, aim, before, outside, overtaken>>

SessionDies ==
    /\ leg # "https" /\ leg' = "https"
    /\ UNCHANGED <<chain, had, shut, tunnel, doing, aim, before, outside, overtaken, since>>

TunnelDies ==
    /\ tunnelUp /\ tunnelUp' = FALSE
    /\ UNCHANGED <<chain, sessions, raising, logins, doing, aim, before, outside, overtaken, since>>

Flips ==
    /\ flips < MaxFlips /\ flips' = flips + 1
    /\ \/ directUp' = ~directUp /\ UNCHANGED password
       \/ password /\ password' = FALSE /\ UNCHANGED directUp
    /\ UNCHANGED <<chain, sessions, tunnel, doing, aim, before, overtaken, since>>

Asks == \E c \in Callers : ConnectsThrough(c) \/ Raises(c)
Watch ==
    \/ Looks \/ BetterThan \/ LogsIn \/ Adopts \/ Settles
    \/ \E o \in {"open", "blip", "refused"} : WatchIsAnswered(o)
    \/ \E refusal \in BOOLEAN : TakeFails(refusal)
Redial ==
    \/ Redials \/ Decide \/ Rebuilds
    \/ \E o \in {"open", "blip", "refused"} : RedialIsAnswered(o) \/ RememberedIsAnswered(o)
    \/ \E refusal \in BOOLEAN : RebuildFails(refusal)
Lane == OpensLane \/ \E o \in {"open", "blip", "refused"} : LaneIsAnswered(o)

Next == Asks \/ Watch \/ Redial \/ Lane \/ Tick \/ SessionDies \/ TunnelDies \/ Flips

Spec == Init /\ [][Next]_vars

\* The watch's timer and the steps of what was begun; sessions can be built
\* again and again once the appliance answers.
Ends == Decide \/ Rebuilds
          \/ \E o \in {"open", "blip", "refused"} : RedialIsAnswered(o) \/ RememberedIsAnswered(o)
FairSpec == Spec /\ WF_vars(Watch) /\ WF_vars(Ends) /\ SF_vars(LogsIn) /\ SF_vars(Adopts)
                 /\ \A c \in Callers : WF_vars(ConnectsThrough(c) \/ Raises(c))

-----------------------------------------------------------------------------
(* Properties *)

\* Legs::current: what the badge says.
Badge == IF leg # "https" /\ decided \in {"vpn", "direct"} THEN decided ELSE "https"

\* The badge names the leg that carries the data (legs.rs `current`), however the
\* watch, the redial and the network interleave.  It may lag by one step, between
\* a session and the decision about it, and errs only where a redial came in
\* between the watch's adopt and its settle.
BadgeIsTruthful ==
    (leg # "https" /\ doing["watch"] # "settle" /\ ~overtaken) => Badge = leg

\* A tunnel that opened and carried no session is left alone by the watch as one
\* that failed is (Chain::tunnel_carried_nothing): it does not log in again before
\* the recheck interval is over, unless a redial has had it work since.
Spaced == raising' = "watch" /\ raising # "watch" => since = TunnelRecheck
WatchSpacesLogins == [][Spaced]_vars

\* Chain::raise_tunnel: "a refusal is final ... on every path that could raise
\* one": once a refusal is latched, no caller begins a tunnel login.
RefusalIsFinal == [][denied /\ raising = Nobody => raising' = Nobody]_vars

\* While the appliance answers directly, the mount comes to be on it: whatever
\* leg it is on, the watch finds the direct one and gets a session there.  The
\* exceptions are a refused login, and a decision a redial overtook.
Improves == <>[]directUp => []<>(leg = "direct" \/ shut \/ overtaken)
=============================================================================
