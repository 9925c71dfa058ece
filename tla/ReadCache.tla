------------------------------- MODULE ReadCache -------------------------------
(***************************************************************************)
(* The read half of the Linux mount for one file: the block cache with its *)
(* claims (synology-filestation-fuse, cache.rs), the reads and opens that  *)
(* fetch a block themselves or sleep until somebody else has (fs/mod.rs),  *)
(* and the speculative runs of blocks fetched ahead of them, with their    *)
(* budget, their guards and their abort on the last close (fs/prefetch.rs).*)
(*                                                                         *)
(* A handle stands for the FUSE worker thread in one of its callbacks; its *)
(* pc is where other threads get a turn.  A read of several blocks is a    *)
(* read of each.  The cache does not record whose a claim is, and finishes *)
(* claims by block: claims[b] names the claimant as history only.  Between *)
(* taking a claim out of the map and waking its waiters nothing else can   *)
(* see either, so resolve is one step.  What a block says is not modelled: *)
(* the empty block that marks the end of the file is a block like another. *)
(***************************************************************************)
EXTENDS FiniteSetsExt, Integers

CONSTANTS Handle,       \* file handles on the file, each in one callback at a time
          Run,          \* prefetch tasks, as many as the budget can pay for
          None,         \* no claim
          LastBlock,    \* bound: the blocks of the file are 0 .. LastBlock
          MaxSpan,      \* MAX_PREFETCH_SPAN
          PerLink,      \* MAX_INFLIGHT_PREFETCH_BLOCKS, for each connection
          Links         \* the numbers of connections reads may go over

ASSUME CacheAssumption ==
    /\ Handle \cap Run = {} /\ None \notin Handle \cup Run
    /\ LastBlock \in Nat /\ MaxSpan \in Nat \ {0} /\ PerLink \in Nat
    /\ Links \subseteq Nat \ {0} /\ IsFiniteSet(Links) /\ Links # {}
    /\ IsFiniteSet(Run) /\ PerLink * Max(Links) <= Cardinality(Run)

Block == 0 .. LastBlock

VARIABLES cached,      \* ReadCache::blocks: those that are there
          claims,      \* ReadCache::in_flight
          pc,          \* what the thread of each handle is doing
          on,          \* the block a read is about
          window,      \* blocks spawn_prefetch has still to look at
          plan,        \* the run it is putting together
          registered,  \* handles in the read_ahead map
          run,         \* the blocks of each prefetch task; none: there is no task
          listed,      \* prefetch_tasks
          aborting,    \* tasks that have been told to abort
          wire,        \* Budget::in_flight
          writer       \* a change of the file that is invalidating its blocks

cacheVars == <<cached, claims>>
handleVars == <<on, window, plan, registered>>
runVars == <<run, listed, aborting, wire>>
vars == <<cacheVars, pc, handleVars, runVars, writer>>

TypeOK ==
    /\ cached \subseteq Block
    /\ claims \in [Block -> Handle \cup Run \cup {None}]
    /\ pc \in [Handle -> {"closed", "prime", "priming", "sniff", "open", "miss", "fetch",
                          "wait", "asleep", "woken", "ahead", "planning", "closing"}]
    /\ on \in [Handle -> Block]
    /\ window \in [Handle -> SUBSET Block] /\ plan \in [Handle -> SUBSET Block]
    /\ registered \subseteq Handle
    /\ run \in [Run -> SUBSET Block]
    /\ listed \subseteq Run /\ aborting \subseteq Run
    /\ wire \in Nat
    /\ writer \in {"idle", "claims"}

Init ==
    /\ cached = {}
    /\ claims = [b \in Block |-> None]
    /\ pc = [h \in Handle |-> "closed"]
    /\ on = [h \in Handle |-> 0]
    /\ window = [h \in Handle |-> {}] /\ plan = [h \in Handle |-> {}]
    /\ registered = {}
    /\ run = [r \in Run |-> {}]
    /\ listed = {} /\ aborting = {}
    /\ wire = 0
    /\ writer = "idle"

-----------------------------------------------------------------------------
(* The cache. *)

Goes(h, from, to) == pc[h] = from /\ pc' = [pc EXCEPT ![h] = to]

\* claim_inflight.
Claim(b, owner) ==
    /\ claims[b] = None
    /\ claims' = [claims EXCEPT ![b] = owner]

\* Where the threads are once the claims on bs are gone: those asleep on one wake.
Roused(bs) ==
    [h \in Handle |-> IF pc[h] = "asleep" /\ on[h] \in bs /\ claims[on[h]] # None
                      THEN "woken" ELSE pc[h]]

\* Mutant: the slot is dropped but its doorbell is not rung.
Resolve_Silent(bs) ==
    /\ claims' = [b \in Block |-> IF b \in bs THEN None ELSE claims[b]]
    /\ UNCHANGED pc

\* resolve, for each of bs: whoever's claim it is, it is over.
Resolve(bs) ==
    /\ claims' = [b \in Block |-> IF b \in bs THEN None ELSE claims[b]]
    /\ pc' = Roused(bs)

\* resolve by the thread h, which then goes on to pc to.
ResolveAndGo(h, bs, to) ==
    /\ claims' = [b \in Block |-> IF b \in bs THEN None ELSE claims[b]]
    /\ pc' = [Roused(bs) EXCEPT ![h] = to]

\* The cache drops a block: its capacity, or five minutes idle.
Evict(b) ==
    /\ b \in cached
    /\ cached' = cached \ {b}
    /\ UNCHANGED <<claims, pc, handleVars, runVars, writer>>

\* invalidate_ino, by a write that landed, a deletion or a rename: the blocks that
\* have arrived, and any claim on them...
Invalidate ==
    /\ writer = "idle"
    /\ writer' = "claims"
    /\ Resolve(cached)
    /\ cached' = {}
    /\ UNCHANGED <<handleVars, runVars>>

\* ... and then every claim there is.
InvalidateClaims ==
    /\ writer = "claims"
    /\ writer' = "idle"
    /\ Resolve(Block)
    /\ UNCHANGED <<cached, handleVars, runVars>>

-----------------------------------------------------------------------------
(* open: prime_open. *)

\* The handle is registered; a file whose size is not known is not primed.
Open(h) ==
    /\ Goes(h, "closed", "prime") \/ Goes(h, "closed", "open")
    /\ registered' = registered \cup {h}
    /\ UNCHANGED <<cacheVars, on, window, plan, runVars, writer>>

\* create: a handle that is not primed, and not registered until its first read.
Create(h) ==
    /\ Goes(h, "closed", "open")
    /\ UNCHANGED <<cacheVars, handleVars, runVars, writer>>

\* An end-of-file mark is stale, and goes.  Block 0 is claimed, though it may have
\* arrived since it was looked for, unless it is there or on its way.
Prime(h) ==
    /\ cached' \in {cached, cached \ {0}}
    /\ \/ Claim(0, h) /\ Goes(h, "prime", "priming")
       \/ /\ 0 \in cached' \/ claims[0] # None
          /\ Goes(h, "prime", "sniff") /\ UNCHANGED claims
    /\ UNCHANGED <<handleVars, runVars, writer>>

\* Block 0 arrives; or it does not, and its claim is given up.
Primed(h) ==
    /\ pc[h] = "priming"
    /\ ResolveAndGo(h, {0}, "sniff")
    /\ cached' \in {cached, cached \cup {0}}
    /\ UNCHANGED <<handleVars, runVars, writer>>

\* With block 0 in hand, a media file is worth its window.
Sniff(h) ==
    /\ \/ Goes(h, "sniff", "open") /\ UNCHANGED window
       \/ /\ 0 \in cached
          /\ Goes(h, "sniff", "planning")
          /\ \E w \in SUBSET (Block \ {0}) \ {{}} : window' = [window EXCEPT ![h] = w]
    /\ UNCHANGED <<cacheVars, on, plan, registered, runVars, writer>>

-----------------------------------------------------------------------------
(* read: read_range, one block. *)

\* The block is there: data, or the mark of the end.
ReadHit(h, b) ==
    /\ b \in cached
    /\ Goes(h, "open", "ahead")
    /\ UNCHANGED <<cacheVars, handleVars, runVars, writer>>

\* It is not, or was not when it was looked for.
ReadMiss(h, b) ==
    /\ b \notin cached
    /\ Goes(h, "open", "miss")
    /\ on' = [on EXCEPT ![h] = b]
    /\ UNCHANGED <<cacheVars, window, plan, registered, runVars, writer>>

\* The claim won: this thread downloads.  Lost: it waits for who does.
ReadClaim(h) ==
    /\ IF claims[on[h]] = None
       THEN Claim(on[h], h) /\ Goes(h, "miss", "fetch")
       ELSE Goes(h, "miss", "wait") /\ UNCHANGED claims
    /\ UNCHANGED <<cached, handleVars, runVars, writer>>

\* insert: the block, or the mark of the end.  The read goes on to its read-ahead.
Fetched(h) ==
    /\ pc[h] = "fetch"
    /\ cached' = cached \cup {on[h]}
    /\ ResolveAndGo(h, {on[h]}, "ahead")
    /\ on' = [on EXCEPT ![h] = 0]
    /\ UNCHANGED <<window, plan, registered, runVars, writer>>

\* The download failed: the guard gives up the claim, and the read answers EIO.
FetchFailed(h) ==
    /\ pc[h] = "fetch"
    /\ ResolveAndGo(h, {on[h]}, "open")
    /\ on' = [on EXCEPT ![h] = 0]
    /\ UNCHANGED <<cached, window, plan, registered, runVars, writer>>

\* wait_for_block takes hold of the slot, if there is one yet.
FallAsleep(h) ==
    /\ claims[on[h]] # None
    /\ Goes(h, "wait", "asleep")
    /\ UNCHANGED <<cacheVars, handleVars, runVars, writer>>

\* The end of wait_for_block: no slot, a slot that was resolved, or BLOCK_WAIT_TIMEOUT,
\* which leaves the claim alone.
WaitOver(h) ==
    \/ pc[h] = "wait" /\ claims[on[h]] = None
    \/ pc[h] \in {"woken", "asleep"}

\* What is in the cache now is the answer ...
Handed(h) ==
    /\ WaitOver(h)
    /\ on[h] \in cached
    /\ pc' = [pc EXCEPT ![h] = "ahead"]
    /\ on' = [on EXCEPT ![h] = 0]
    /\ UNCHANGED <<cacheVars, window, plan, registered, runVars, writer>>

\* ... and nothing there is taken for the failure of the download: EIO.
ToldFailed(h) ==
    /\ WaitOver(h)
    /\ on[h] \notin cached
    /\ pc' = [pc EXCEPT ![h] = "open"]
    /\ on' = [on EXCEPT ![h] = 0]
    /\ UNCHANGED <<cacheVars, window, plan, registered, runVars, writer>>

\* read_ahead, before the reply: a handle not registered yet is now, and a sequential
\* reader has earned a window.
ReadAhead(h) ==
    /\ registered' = registered \cup {h}
    /\ \/ Goes(h, "ahead", "open") /\ UNCHANGED window
       \/ /\ Goes(h, "ahead", "planning")
          /\ \E w \in SUBSET Block \ {{}} : window' = [window EXCEPT ![h] = w]
    /\ UNCHANGED <<cacheVars, on, plan, runVars, writer>>

-----------------------------------------------------------------------------
(* spawn_prefetch and spawn_run. *)

\* Mutant: the check does not count the blocks being claimed.
Affordable_Before(bs, limit) == wire < limit

\* try_claim: the claim is the check.
Affordable(bs, limit) == wire + Cardinality(bs) <= limit

\* A run gets its budget and its task, which is put in the list; or it is dropped, and
\* its guards give up its claims.
SpawnRun(h, bs, resume) ==
    /\ plan' = [plan EXCEPT ![h] = resume]
    /\ \E links \in Links :
          IF Affordable(bs, PerLink * links)
          THEN \E r \in Run :
                  /\ run[r] = {}
                  /\ run' = [run EXCEPT ![r] = bs]
                  /\ listed' = listed \cup {r}
                  /\ claims' = [b \in Block |-> IF b \in bs /\ claims[b] = h THEN r ELSE claims[b]]
                  /\ wire' = wire + Cardinality(bs)
                  /\ UNCHANGED <<pc, aborting>>
          ELSE Resolve(bs) /\ UNCHANGED runVars

Continues(h, b) == b - 1 \in plan[h] /\ Cardinality(plan[h]) < MaxSpan

\* The next block of the window is claimed and joins the run.  It may have arrived
\* since it was looked for in the cache.
Extend(h) ==
    /\ pc[h] = "planning" /\ window[h] # {}
    /\ LET b == Min(window[h])
       IN  /\ plan[h] = {} \/ Continues(h, b)
           /\ Claim(b, h)
           /\ plan' = [plan EXCEPT ![h] = @ \cup {b}]
           /\ window' = [window EXCEPT ![h] = @ \ {b}]
    /\ UNCHANGED <<cached, pc, on, registered, runVars, writer>>

\* A block that is cached, or already claimed, ends the run.  (The cache may have
\* dropped it since it was looked for.)
Leave(h) ==
    /\ pc[h] = "planning" /\ window[h] # {}
    /\ window' = [window EXCEPT ![h] = @ \ {Min(window[h])}]
    /\ IF plan[h] = {} THEN UNCHANGED <<plan, claims, pc, runVars>>
                       ELSE SpawnRun(h, plan[h], {})
    /\ UNCHANGED <<cached, on, registered, writer>>

\* A run that the next block does not continue, or the last one, is spawned.
Cut(h) ==
    /\ pc[h] = "planning" /\ plan[h] # {}
    /\ window[h] # {} => ~ Continues(h, Min(window[h]))
    /\ SpawnRun(h, plan[h], {})
    /\ UNCHANGED <<cached, on, window, registered, writer>>

\* The callback has planned everything, and replies.
Planned(h) ==
    /\ window[h] = {} /\ plan[h] = {}
    /\ Goes(h, "planning", "open")
    /\ UNCHANGED <<cacheVars, handleVars, runVars, writer>>

-----------------------------------------------------------------------------
(* The task of a run. *)

\* The task is over and drops what it holds: its share of the budget with the rest.
Retire(r) ==
    /\ run[r] # {}
    /\ run' = [run EXCEPT ![r] = {}]
    /\ listed' = listed \ {r}
    /\ aborting' = aborting \ {r}
    /\ wire' = wire - Cardinality(run[r])

\* The range arrives and is cut into its blocks; those past the end are empty.
RunDone(r) ==
    /\ Retire(r)
    /\ Resolve(run[r])
    /\ cached' = cached \cup run[r]
    /\ UNCHANGED <<handleVars, writer>>

\* The download fails, and the guards give up the claims.
RunFailed(r) ==
    /\ Retire(r)
    /\ Resolve(run[r])
    /\ UNCHANGED <<cached, handleVars, writer>>

\* Mutant: an aborted task leaves its claims behind.
RunAborted_NoGuards(r) ==
    /\ r \in aborting
    /\ Retire(r)
    /\ UNCHANGED <<cacheVars, pc, handleVars, writer>>

\* The abort takes effect: the future is dropped mid-await, and its guards with it.
RunAborted(r) ==
    /\ r \in aborting
    /\ Retire(r)
    /\ Resolve(run[r])
    /\ UNCHANGED <<cached, handleVars, writer>>

-----------------------------------------------------------------------------
(* release: end_read. *)

\* Mutant: the handle is still counted when the others are looked for.
Close_CountsItself(h) ==
    /\ IF registered = {} THEN Goes(h, "open", "closing") ELSE Goes(h, "open", "closed")
    /\ registered' = registered \ {h}
    /\ UNCHANGED <<cacheVars, on, window, plan, runVars, writer>>

\* The handle is forgotten.  Was it the last?
Close(h) ==
    /\ IF registered \subseteq {h} THEN Goes(h, "open", "closing") ELSE Goes(h, "open", "closed")
    /\ registered' = registered \ {h}
    /\ UNCHANGED <<cacheVars, on, window, plan, runVars, writer>>

\* Then whatever is in the list by now is aborted.
Abandon(h) ==
    /\ Goes(h, "closing", "closed")
    /\ aborting' = aborting \cup listed
    /\ listed' = {}
    /\ UNCHANGED <<cacheVars, handleVars, run, wire, writer>>

-----------------------------------------------------------------------------
Opening(h) == Prime(h) \/ Primed(h) \/ Sniff(h)
Reading(h) ==
    \/ ReadClaim(h) \/ Fetched(h) \/ FetchFailed(h)
    \/ FallAsleep(h) \/ (pc[h] # "asleep" /\ (Handed(h) \/ ToldFailed(h)))
    \/ ReadAhead(h)
Planning(h) == Extend(h) \/ Leave(h) \/ Cut(h) \/ Planned(h)
Ends(r) == RunDone(r) \/ RunFailed(r) \/ RunAborted(r)

\* BLOCK_WAIT_TIMEOUT.
GiveUp(h) == pc[h] = "asleep" /\ (Handed(h) \/ ToldFailed(h))

Callback(h) ==
    \/ Open(h) \/ Create(h)
    \/ \E b \in Block : ReadHit(h, b) \/ ReadMiss(h, b)
    \/ GiveUp(h)
    \/ Close(h) \/ Abandon(h)

Next ==
    \/ \E h \in Handle : Callback(h) \/ Opening(h) \/ Reading(h) \/ Planning(h)
    \/ \E r \in Run : Ends(r)
    \/ \E b \in Block : Evict(b)
    \/ Invalidate \/ InvalidateClaims

Spec == Init /\ [][Next]_vars

\* Threads and tasks run, and downloads end (the client bounds them).  Nobody has to
\* give up: there is no fairness on GiveUp.
Fairness ==
    /\ \A h \in Handle : WF_vars(Opening(h) \/ Reading(h) \/ Planning(h))
    /\ \A r \in Run : WF_vars(Ends(r))

FairSpec == Spec /\ Fairness

-----------------------------------------------------------------------------
(* Properties. *)

\* The block is being downloaded by o, or is about to be.
Owns(o, b) ==
    \/ o \in Run /\ b \in run[o]
    \/ o \in Handle /\ \/ pc[o] = "fetch" /\ on[o] = b
                       \/ pc[o] = "priming" /\ b = 0
                       \/ pc[o] = "planning" /\ b \in plan[o]

\* "No claim outlives the decision to run": a claim in the map is its claimant's, who
\* is downloading or planning right now -- however runs are dropped, aborted, failed
\* or overtaken by an invalidation that freed their claims for somebody else.
ClaimsAreLive == \A b \in Block : claims[b] # None => Owns(claims[b], b)

\* Nobody sleeps on a block that nobody has claimed.
SleepersHaveOwners == \A h \in Handle : pc[h] = "asleep" => claims[on[h]] # None

\* The types, and the claims and sleepers that hang together with them.
WellFormed == TypeOK /\ ClaimsAreLive /\ SleepersHaveOwners

\* The blocks the tasks that are alive are fetching.
OnWire == {rb \in Run \X Block : rb[2] \in run[rb[1]]}

\* The budget is what the tasks that are alive have on the wire, block by block -- none
\* of it lost by an abort, a failure or a dropped run -- and never more than the most
\* connections allow, whoever raced for it.
BudgetIsExact ==
    /\ wire = Cardinality(OnWire)
    /\ wire <= PerLink * Max(Links)

\* Once the last handle is closed no speculation for the file is left but what has been
\* told to stop, whoever opened, read and closed meanwhile.
SpeculationAbandoned ==
    (registered = {} /\ \A h \in Handle : pc[h] # "closing")
        => \A r \in Run : run[r] # {} => r \in aborting

\* Every open and every read is answered without BLOCK_WAIT_TIMEOUT having to pass:
\* "a waiter is woken the instant the download resolves either way".
Answered == \A h \in Handle : (pc[h] \in {"prime", "miss"}) ~> (pc[h] = "open")

\* "Other task had a real network error" is what it means to have waited for somebody
\* else's download and to find no block: a sleeper is woken with the block in the
\* cache, or by a download that failed.
OnlyRealErrors ==
    [][\A h \in Handle :
          (pc[h] = "asleep" /\ pc'[h] = "woken")
              => \/ on[h] \in cached'
                 \/ \E o \in Handle : Primed(o) \/ FetchFailed(o)
                 \/ \E r \in Run : RunFailed(r)]_vars
=============================================================================
