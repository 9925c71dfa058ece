--------------------------- MODULE ReadCacheProofs ---------------------------
(***************************************************************************)
(* Proofs about ReadCache, for any handles, tasks, blocks and budgets.     *)
(*                                                                         *)
(* That claims are live and sleepers have owners is inductive as it        *)
(* stands: whoever drops a claim that has become somebody else's by block  *)
(* number wakes those that sleep on it.  The budget is counted in pairs of *)
(* a task and a block, so that a task that starts or ends adds or takes    *)
(* away its row.  That nobody reads ahead for a file nobody has open needs *)
(* three more facts: a task alive is in the list or told to stop; who      *)
(* plans a run is registered; and with nobody registered, and nobody about *)
(* to clear it, the list is empty.                                         *)
(***************************************************************************)
EXTENDS ReadCache, FiniteSetTheorems, WellFoundedInduction, TLAPS

\* A task that is alive is in the list, or has been told to abort.
TasksListed == \A r \in Run : run[r] # {} => r \in listed \cup aborting

\* Whoever may be about to spawn a task is registered as a reader of the file.
PlannersRegistered ==
    \A h \in Handle : pc[h] \in {"prime", "priming", "sniff", "planning"} => h \in registered

\* With no reader left, and no release about to see to it, no task is listed.
NoneListedUnread ==
    (registered = {} /\ \A h \in Handle : pc[h] # "closing") => listed = {}

Speculation == TasksListed /\ PlannersRegistered /\ NoneListedUnread

IInv == WellFormed /\ BudgetIsExact /\ Speculation

-----------------------------------------------------------------------------
(* Least and greatest elements, and counting blocks on the wire. *)

\* A set of naturals that is not empty has a least element, and Min is it.
LEMMA MinIsLeast ==
    ASSUME NEW S \in SUBSET Nat, S # {}
    PROVE  Min(S) \in S /\ \A y \in S : Min(S) <= y
<1> DEFINE R == {ss \in Nat \X Nat : ss[1] < ss[2]}
<1>1. IsWellFoundedOn(R, Nat)
  BY NatLessThanWellFounded DEF OpToRel
<1>2. PICK x \in S : \A y \in S : <<y, x>> \notin R
  <2> HIDE DEF R
  <2> QED BY <1>1, WFMin
<1>3. ASSUME NEW y \in S PROVE x <= y
  <2>1. /\ x \in Nat /\ y \in Nat /\ <<y, x>> \in Nat \X Nat
        /\ <<y, x>>[1] = y /\ <<y, x>>[2] = x
    OBVIOUS
  <2>2. ~ (<<y, x>>[1] < <<y, x>>[2])
    BY <1>2, <2>1, Zenon
  <2> QED BY <2>1, <2>2
<1> QED BY <1>3 DEF Min

\* A finite set of naturals that is not empty has a greatest element, and Max is it: a
\* smallest subset without one would have it from the subset an element smaller.
LEMMA MaxIsGreatest ==
    ASSUME NEW S \in SUBSET Nat, S # {}, IsFiniteSet(S)
    PROVE  Max(S) \in S /\ \A y \in S : y <= Max(S)
<1>. DEFINE Topped(U) == \E x \in U : \A y \in U : y <= x
            Untopped == {U \in SUBSET S : U # {} /\ ~ Topped(U)}
<1>1. SUFFICES Topped(S)
  BY DEF Max
<1>2. SUFFICES ASSUME Untopped # {} PROVE FALSE
  OBVIOUS
<1>3. Untopped \subseteq FiniteSubsetsOf(S)
  BY FS_FiniteSubsetsOfFinite
<1>4. PICK U \in Untopped : \A V \in Untopped : <<V, U>> \notin StrictSubsetOrdering(S)
  <2> HIDE DEF Untopped
  <2> QED BY <1>2, <1>3, FS_StrictSubsetOrderingWellFounded, WFMin
<1>5. PICK u \in U : TRUE
  OBVIOUS
<1>6. U \ {u} # {}
  BY <1>5
<1>7. Topped(U \ {u})
  <2>1. U \ {u} \in SUBSET U /\ U \ {u} # U /\ U \in SUBSET S /\ U \ {u} \in SUBSET S
    BY <1>5
  <2>2. <<U \ {u}, U>> \in StrictSubsetOrdering(S)
    BY <2>1 DEF StrictSubsetOrdering
  <2> QED BY <1>4, <1>6, <2>1, <2>2
<1>8. PICK x \in U \ {u} : \A y \in U \ {u} : y <= x
  BY <1>7
<1>9. Topped(U)
  <2>1. U \subseteq Nat
    OBVIOUS
  <2>2. CASE u <= x
    BY <1>8, <2>1, <2>2
  <2>3. CASE ~ (u <= x)
    BY <1>5, <1>8, <2>1, <2>3
  <2> QED BY <2>2, <2>3
<1> QED BY <1>9

\* The pairs of a task and a block it fetches, for any assignment of runs to tasks.
Rows(f) == {rb \in Run \X Block : rb[2] \in f[rb[1]]}

\* A task that had no blocks and is given bs adds as many as there are in bs.
LEMMA OneMoreRun ==
    ASSUME CacheAssumption, NEW f \in [Run -> SUBSET Block],
           NEW r \in Run, f[r] = {}, NEW bs \in SUBSET Block
    PROVE  /\ Cardinality(bs) \in Nat /\ Cardinality(Rows(f)) \in Nat
           /\ Cardinality(Rows([f EXCEPT ![r] = bs])) = Cardinality(Rows(f)) + Cardinality(bs)
<1>1. IsFiniteSet(Run) /\ IsFiniteSet(Block) /\ IsFiniteSet(Run \X Block)
  <2>1. 0 \in Int /\ LastBlock \in Int
    BY DEF CacheAssumption
  <2>2. IsFiniteSet(Block)
    BY <2>1, FS_Interval DEF Block
  <2> QED BY <2>2, FS_Product DEF CacheAssumption
<1>2. IsFiniteSet(bs) /\ IsFiniteSet(Rows(f)) /\ IsFiniteSet({r} \X bs)
  BY <1>1, FS_Subset, FS_Singleton, FS_Product DEF Rows
<1>3. Cardinality(bs) \in Nat /\ Cardinality(Rows(f)) \in Nat
  BY <1>2, FS_CardinalityType
<1>4. Cardinality({r} \X bs) = Cardinality(bs)
  <2>1. IsFiniteSet({r}) /\ Cardinality({r}) = 1
    BY FS_Singleton
  <2>2. Cardinality({r} \X bs) = Cardinality({r}) * Cardinality(bs)
    BY <1>2, <2>1, FS_Product
  <2> QED BY <1>3, <2>1, <2>2
<1> DEFINE g == [f EXCEPT ![r] = bs]
<1>5. Rows(g) = Rows(f) \cup ({r} \X bs)
  BY DEF Rows
<1>6. Cardinality(Rows(f) \cap ({r} \X bs)) = 0
  <2>1. Rows(f) \cap ({r} \X bs) = {}
    BY DEF Rows
  <2> QED BY <2>1, FS_EmptySet
<1>7. Cardinality(Rows(f) \cup ({r} \X bs))
          = Cardinality(Rows(f)) + Cardinality({r} \X bs) - Cardinality(Rows(f) \cap ({r} \X bs))
  BY <1>2, FS_Union
<1>8. Cardinality(Rows(g)) = Cardinality(Rows(f)) + Cardinality(bs)
  <2> HIDE DEF g
  <2> QED BY <1>3, <1>4, <1>5, <1>6, <1>7
<1> QED BY <1>3, <1>8

\* What the connections together may have on the wire.
LEMMA Allowance ==
    ASSUME CacheAssumption, NEW links \in Links
    PROVE  /\ PerLink * links \in Nat /\ PerLink * Max(Links) \in Nat
           /\ PerLink * links <= PerLink * Max(Links)
<1>1. links \in Nat /\ Max(Links) \in Nat /\ links <= Max(Links) /\ PerLink \in Nat
  <2>1. Links \in SUBSET Nat /\ Links # {} /\ IsFiniteSet(Links)
    BY DEF CacheAssumption
  <2> QED BY <2>1, MaxIsGreatest DEF CacheAssumption
<1> QED BY <1>1

-----------------------------------------------------------------------------
(* The budget. *)

\* spawn_run: a run that can be afforded is on the wire, and another is not.
LEMMA SpawnIsPaid ==
    ASSUME CacheAssumption, TypeOK, BudgetIsExact,
           NEW h \in Handle, NEW bs \in SUBSET Block, SpawnRun(h, bs, {})
    PROVE  BudgetIsExact' /\ wire' \in Nat
<1>1. PICK links \in Links :
          IF Affordable(bs, PerLink * links)
          THEN \E r \in Run :
                  /\ run[r] = {}
                  /\ run' = [run EXCEPT ![r] = bs]
                  /\ wire' = wire + Cardinality(bs)
          ELSE UNCHANGED runVars
  BY DEF SpawnRun
<1>2. CASE ~ Affordable(bs, PerLink * links)
  BY <1>1, <1>2 DEF runVars, BudgetIsExact, OnWire, TypeOK
<1>3. CASE Affordable(bs, PerLink * links)
  <2>1. PICK r \in Run : /\ run[r] = {}
                         /\ run' = [run EXCEPT ![r] = bs]
                         /\ wire' = wire + Cardinality(bs)
    BY <1>1, <1>3
  <2>2. Cardinality(OnWire') = Cardinality(OnWire) + Cardinality(bs) /\ Cardinality(bs) \in Nat
    <3>1. OnWire = Rows(run) /\ OnWire' = Rows(run') /\ run \in [Run -> SUBSET Block]
      BY DEF TypeOK, OnWire, Rows
    <3>2. /\ Cardinality(Rows([run EXCEPT ![r] = bs])) = Cardinality(Rows(run)) + Cardinality(bs)
          /\ Cardinality(bs) \in Nat
      BY <2>1, <3>1, OneMoreRun
    <3> QED BY <2>1, <3>1, <3>2
  <2>3. wire' <= PerLink * links
    BY <1>3, <2>1 DEF Affordable
  <2>4. wire \in Nat
    BY DEF TypeOK
  <2> QED BY <2>1, <2>2, <2>3, <2>4, Allowance DEF BudgetIsExact
<1> QED BY <1>2, <1>3

\* A task that is over, however it ended, gives back what it had.
LEMMA RetireGivesBack ==
    ASSUME CacheAssumption, TypeOK, BudgetIsExact, NEW r \in Run, Retire(r)
    PROVE  BudgetIsExact' /\ wire' \in Nat
<1>1. run' = [run EXCEPT ![r] = {}] /\ wire' = wire - Cardinality(run[r])
  BY DEF Retire
<1>2. run' \in [Run -> SUBSET Block] /\ run'[r] = {} /\ run = [run' EXCEPT ![r] = run[r]]
  BY <1>1 DEF TypeOK
<1>3. run[r] \in SUBSET Block
  BY DEF TypeOK
<1>4. /\ Cardinality(run[r]) \in Nat /\ Cardinality(Rows(run')) \in Nat
      /\ Cardinality(Rows(run)) = Cardinality(Rows(run')) + Cardinality(run[r])
  BY <1>2, <1>3, OneMoreRun
<1>5. wire = Cardinality(Rows(run)) /\ wire' = Cardinality(Rows(run'))
  BY <1>1, <1>4 DEF BudgetIsExact, OnWire, Rows
<1>6. PerLink * Max(Links) \in Nat
  BY Allowance DEF CacheAssumption
<1> QED BY <1>1, <1>4, <1>5, <1>6 DEF BudgetIsExact, OnWire, Rows

\* No step leaves the budget wrong.
LEMMA BudgetStep ==
    ASSUME CacheAssumption, TypeOK, BudgetIsExact, [Next]_vars
    PROVE  BudgetIsExact' /\ wire' \in Nat
<1>1. CASE UNCHANGED <<run, wire>>
  BY <1>1 DEF BudgetIsExact, OnWire, TypeOK
<1>2. ASSUME NEW h \in Handle, NEW bs \in SUBSET Block, SpawnRun(h, bs, {})
      PROVE  BudgetIsExact' /\ wire' \in Nat
  BY <1>2, SpawnIsPaid
<1>3. ASSUME NEW h \in Handle, Callback(h) \/ Opening(h) \/ Reading(h) \/ Planning(h)
      PROVE  BudgetIsExact' /\ wire' \in Nat
  <2>1. CASE Callback(h)
    BY <1>1, <2>1 DEF Callback, Open, Create, ReadHit, ReadMiss, GiveUp, Handed, ToldFailed,
                      Close, Abandon, runVars
  <2>2. CASE Opening(h) \/ Reading(h)
    BY <1>1, <2>2 DEF Opening, Prime, Primed, Sniff, Reading, ReadClaim, Fetched, FetchFailed,
                      FallAsleep, Handed, ToldFailed, ReadAhead, runVars
  <2>3. CASE Planning(h)
    <3>1. plan[h] \in SUBSET Block
      BY DEF TypeOK
    <3>2. UNCHANGED <<run, wire>> \/ SpawnRun(h, plan[h], {})
      BY <2>3 DEF Planning, Extend, Leave, Cut, Planned, runVars
    <3> QED BY <1>1, <1>2, <3>1, <3>2
  <2> QED BY <1>3, <2>1, <2>2, <2>3
<1>4. ASSUME NEW r \in Run, Ends(r)
      PROVE  BudgetIsExact' /\ wire' \in Nat
  BY <1>4, RetireGivesBack DEF Ends, RunDone, RunFailed, RunAborted
<1>5. ASSUME (\E b \in Block : Evict(b)) \/ Invalidate \/ InvalidateClaims \/ UNCHANGED vars
      PROVE  UNCHANGED <<run, wire>>
  BY <1>5 DEF Evict, Invalidate, InvalidateClaims, vars, runVars
<1> QED BY <1>1, <1>3, <1>4, <1>5 DEF Next

-----------------------------------------------------------------------------
(* Types, claims and sleepers. *)

\* Every step but a task's keeps the types, given that it keeps the budget's.
LEMMA HandleTypes ==
    ASSUME CacheAssumption, TypeOK, wire' \in Nat, NEW h \in Handle,
           Callback(h) \/ Opening(h) \/ Reading(h) \/ Planning(h)
    PROVE  TypeOK'
<1> USE DEF TypeOK, cacheVars, handleVars, runVars, CacheAssumption
<1>1. 0 \in Block /\ on[h] \in Block /\ window[h] \subseteq Block /\ plan[h] \subseteq Block
  BY DEF Block
<1>2. CASE Open(h) \/ Create(h)
  BY <1>2 DEF Open, Create, Goes
<1>3. CASE Prime(h) \/ Primed(h)
  <2>1. CASE Prime(h)
    BY <1>1, <2>1 DEF Prime, Goes, Claim
  <2>2. CASE Primed(h)
    BY <1>1, <2>2 DEF Primed, ResolveAndGo, Roused
  <2> QED BY <1>3, <2>1, <2>2
<1>4. CASE Sniff(h) \/ ReadAhead(h)
  <2>1. CASE UNCHANGED window
    BY <1>4, <2>1 DEF Sniff, ReadAhead, Goes
  <2>2. ASSUME NEW w \in SUBSET Block, window' = [window EXCEPT ![h] = w]
        PROVE  TypeOK'
    BY <1>4, <2>2 DEF Sniff, ReadAhead, Goes
  <2> QED BY <1>4, <2>1, <2>2 DEF Sniff, ReadAhead
<1>5. ASSUME NEW b \in Block, ReadHit(h, b) \/ ReadMiss(h, b)
      PROVE  TypeOK'
  BY <1>5 DEF ReadHit, ReadMiss, Goes
<1>6. CASE ReadClaim(h)
  BY <1>1, <1>6 DEF ReadClaim, Goes, Claim
<1>7. CASE Fetched(h) \/ FetchFailed(h)
  <2>1. CASE Fetched(h)
    BY <1>1, <2>1 DEF Fetched, ResolveAndGo, Roused
  <2>2. CASE FetchFailed(h)
    BY <1>1, <2>2 DEF FetchFailed, ResolveAndGo, Roused
  <2> QED BY <1>7, <2>1, <2>2
<1>8. CASE FallAsleep(h) \/ Handed(h) \/ ToldFailed(h)
  BY <1>1, <1>8 DEF FallAsleep, Handed, ToldFailed, WaitOver, Goes
<1>9. CASE Extend(h)
  <2> DEFINE b == Min(window[h])
  <2>1. b \in Block
    <3>1. window[h] \in SUBSET Nat /\ window[h] # {}
      BY <1>1, <1>9 DEF Extend, Block
    <3> QED BY <1>1, <3>1, MinIsLeast
  <2>2. /\ claims' = [claims EXCEPT ![b] = h] /\ plan' = [plan EXCEPT ![h] = plan[h] \cup {b}]
        /\ window' = [window EXCEPT ![h] = window[h] \ {b}]
    BY <1>9 DEF Extend, Claim
  <2> HIDE DEF b
  <2> QED BY <1>1, <1>9, <2>1, <2>2 DEF Extend
<1>10. ASSUME NEW bs \in SUBSET Block, SpawnRun(h, bs, {}), UNCHANGED <<cached, on, registered, writer>>,
              window' \in [Handle -> SUBSET Block]
       PROVE  TypeOK'
  <2>1. PICK links \in Links :
          IF Affordable(bs, PerLink * links)
          THEN \E r \in Run :
                  /\ run' = [run EXCEPT ![r] = bs]
                  /\ listed' = listed \cup {r}
                  /\ claims' = [b \in Block |-> IF b \in bs /\ claims[b] = h THEN r ELSE claims[b]]
                  /\ UNCHANGED <<pc, aborting>>
          ELSE Resolve(bs) /\ UNCHANGED runVars
    BY <1>10, ZenonT(40) DEF SpawnRun
  <2>2. plan' \in [Handle -> SUBSET Block]
    BY <1>10 DEF SpawnRun
  <2>3. CASE Affordable(bs, PerLink * links)
    BY <1>10, <2>1, <2>2, <2>3
  <2>4. CASE ~ Affordable(bs, PerLink * links)
    BY <1>10, <2>1, <2>2, <2>4 DEF Resolve, Roused
  <2> QED BY <2>3, <2>4
<1>11. CASE Leave(h) \/ Cut(h) \/ Planned(h)
  <2>1. window' \in [Handle -> SUBSET Block]
    <3>1. window[h] \ {Min(window[h])} \in SUBSET Block
      BY <1>1
    <3> QED BY <1>11, <3>1 DEF Leave, Cut, Planned
  <2>2. CASE SpawnRun(h, plan[h], {})
    BY <1>1, <1>10, <1>11, <2>1, <2>2 DEF Leave, Cut, Planned
  <2>3. CASE ~ SpawnRun(h, plan[h], {})
    BY <1>11, <2>1, <2>3 DEF Leave, Cut, Planned, Goes
  <2> QED BY <2>2, <2>3
<1>12. CASE Close(h) \/ Abandon(h)
  <2>1. registered \ {h} \subseteq Handle
    OBVIOUS
  <2>2. pc' = [pc EXCEPT ![h] = "closing"] \/ pc' = [pc EXCEPT ![h] = "closed"]
    BY <1>12 DEF Close, Abandon, Goes
  <2> QED BY <1>12, <2>1, <2>2 DEF Close, Abandon
<1> QED BY <1>2, <1>3, <1>4, <1>5, <1>6, <1>7, <1>8, <1>9, <1>11, <1>12
        DEF Callback, Opening, Reading, Planning, GiveUp

\* So does a task's, and the cache's own.
LEMMA OtherTypes ==
    ASSUME CacheAssumption, TypeOK, wire' \in Nat,
           \/ \E r \in Run : Ends(r)
           \/ \E b \in Block : Evict(b)
           \/ Invalidate \/ InvalidateClaims \/ UNCHANGED vars
    PROVE  TypeOK'
<1> USE DEF TypeOK, cacheVars, handleVars, runVars, CacheAssumption
<1>1. ASSUME NEW r \in Run, Ends(r)
      PROVE  TypeOK'
  <2>1. run[r] \subseteq Block
    OBVIOUS
  <2> QED BY <1>1, <2>1 DEF Ends, RunDone, RunFailed, RunAborted, Retire, Resolve, Roused
<1>2. CASE \E b \in Block : Evict(b)
  BY <1>2 DEF Evict
<1>3. CASE Invalidate \/ InvalidateClaims
  BY <1>3 DEF Invalidate, InvalidateClaims, Resolve, Roused
<1>4. CASE UNCHANGED vars
  BY <1>4 DEF vars
<1> QED BY <1>1, <1>2, <1>3, <1>4

\* A step of a thread leaves every claim its claimant's, and every sleeper a claim to
\* wait for.
LEMMA HandleClaims ==
    ASSUME CacheAssumption, WellFormed, NEW h \in Handle,
           Callback(h) \/ Opening(h) \/ Reading(h) \/ Planning(h)
    PROVE  ClaimsAreLive' /\ SleepersHaveOwners'
<1> USE DEF WellFormed, TypeOK, ClaimsAreLive, SleepersHaveOwners, Owns,
            cacheVars, handleVars, runVars, CacheAssumption
<1>1. CASE Open(h) \/ Create(h) \/ Prime(h) \/ Sniff(h) \/ ReadAhead(h)
  BY <1>1 DEF Open, Create, Prime, Sniff, ReadAhead, Goes, Claim
<1>2. CASE Primed(h) \/ Fetched(h) \/ FetchFailed(h)
  <2>1. CASE Primed(h)
    BY <2>1 DEF Primed, ResolveAndGo, Roused
  <2>2. CASE Fetched(h)
    BY <2>2 DEF Fetched, ResolveAndGo, Roused
  <2>3. CASE FetchFailed(h)
    BY <2>3 DEF FetchFailed, ResolveAndGo, Roused
  <2> QED BY <1>2, <2>1, <2>2, <2>3
<1>3. ASSUME NEW b \in Block, ReadHit(h, b) \/ ReadMiss(h, b)
      PROVE  ClaimsAreLive' /\ SleepersHaveOwners'
  BY <1>3 DEF ReadHit, ReadMiss, Goes
<1>4. CASE ReadClaim(h) \/ FallAsleep(h) \/ Handed(h) \/ ToldFailed(h)
  BY <1>4 DEF ReadClaim, FallAsleep, Handed, ToldFailed, WaitOver, Goes, Claim
<1>5. CASE Extend(h)
  BY <1>5 DEF Extend, Claim
<1>6. CASE Leave(h)
  BY <1>6 DEF Leave, SpawnRun, Resolve, Roused
<1>7. CASE Cut(h)
  BY <1>7 DEF Cut, SpawnRun, Resolve, Roused
<1>8. CASE Planned(h) \/ Close(h) \/ Abandon(h)
  BY <1>8 DEF Planned, Close, Abandon, Goes
<1> QED BY <1>1, <1>2, <1>3, <1>4, <1>5, <1>6, <1>7, <1>8
        DEF Callback, Opening, Reading, Planning, GiveUp

\* Nor does a task that ends, or the cache, strand a claim or a sleeper.
LEMMA OtherClaims ==
    ASSUME CacheAssumption, WellFormed,
           \/ \E r \in Run : Ends(r)
           \/ \E b \in Block : Evict(b)
           \/ Invalidate \/ InvalidateClaims \/ UNCHANGED vars
    PROVE  ClaimsAreLive' /\ SleepersHaveOwners'
<1> USE DEF WellFormed, TypeOK, ClaimsAreLive, SleepersHaveOwners, Owns,
            cacheVars, handleVars, runVars, CacheAssumption
<1>1. ASSUME NEW r \in Run, Ends(r)
      PROVE  ClaimsAreLive' /\ SleepersHaveOwners'
  BY <1>1 DEF Ends, RunDone, RunFailed, RunAborted, Retire, Resolve, Roused
<1>2. CASE \E b \in Block : Evict(b)
  BY <1>2 DEF Evict
<1>3. CASE Invalidate \/ InvalidateClaims
  BY <1>3 DEF Invalidate, InvalidateClaims, Resolve, Roused
<1>4. CASE UNCHANGED vars
  BY <1>4 DEF vars
<1> QED BY <1>1, <1>2, <1>3, <1>4

-----------------------------------------------------------------------------
(* Speculation. *)

LEMMA SpeculationStep ==
    ASSUME TypeOK, Speculation, [Next]_vars
    PROVE  Speculation'
<1> USE DEF TypeOK, Speculation, TasksListed, PlannersRegistered, NoneListedUnread,
            cacheVars, handleVars, runVars
<1>1. ASSUME NEW h \in Handle, Callback(h)
      PROVE  Speculation'
  BY <1>1 DEF Callback, Open, Create, ReadHit, ReadMiss, GiveUp, Handed, ToldFailed, WaitOver,
              Close, Abandon, Goes
<1>2. ASSUME NEW h \in Handle, Opening(h) \/ Reading(h)
      PROVE  Speculation'
  BY <1>2 DEF Opening, Prime, Primed, Sniff, Reading, ReadClaim, Fetched, FetchFailed, FallAsleep,
              Handed, ToldFailed, ReadAhead, WaitOver, Goes, ResolveAndGo, Roused
<1>3. ASSUME NEW h \in Handle, Planning(h)
      PROVE  Speculation'
  BY <1>3 DEF Planning, Extend, Leave, Cut, Planned, SpawnRun, Resolve, Roused, Goes
<1>4. ASSUME NEW r \in Run, Ends(r)
      PROVE  Speculation'
  BY <1>4 DEF Ends, RunDone, RunFailed, RunAborted, Retire, Resolve, Roused
<1>5. CASE \/ \E b \in Block : Evict(b)
           \/ Invalidate \/ InvalidateClaims \/ UNCHANGED vars
  BY <1>5 DEF Evict, Invalidate, InvalidateClaims, Resolve, Roused, vars
<1> QED BY <1>1, <1>2, <1>3, <1>4, <1>5 DEF Next

-----------------------------------------------------------------------------

LEMMA InitInvariant == ASSUME CacheAssumption, Init PROVE IInv
<1>1. WellFormed /\ Speculation
  BY DEF Init, WellFormed, TypeOK, ClaimsAreLive, SleepersHaveOwners, Block, CacheAssumption,
         Speculation, TasksListed, PlannersRegistered, NoneListedUnread
<1>2. BudgetIsExact
  <2>1. OnWire = {}
    BY DEF Init, OnWire
  <2>2. PICK links \in Links : TRUE
    BY DEF CacheAssumption
  <2>3. PerLink * Max(Links) \in Nat
    BY <2>2, Allowance
  <2> QED BY <2>1, <2>3, FS_EmptySet DEF Init, BudgetIsExact
<1> QED BY <1>1, <1>2 DEF IInv

LEMMA NextInvariant == ASSUME CacheAssumption, IInv, [Next]_vars PROVE IInv'
<1>1. WellFormed /\ TypeOK /\ BudgetIsExact /\ Speculation
  BY DEF IInv, WellFormed
<1>2. BudgetIsExact' /\ wire' \in Nat
  BY <1>1, BudgetStep
<1>3. Speculation'
  BY <1>1, SpeculationStep
<1>4. ASSUME NEW h \in Handle, Callback(h) \/ Opening(h) \/ Reading(h) \/ Planning(h)
      PROVE  WellFormed'
  BY <1>1, <1>2, <1>4, HandleTypes, HandleClaims DEF IInv, WellFormed
<1>5. ASSUME \/ \E r \in Run : Ends(r)
             \/ \E b \in Block : Evict(b)
             \/ Invalidate \/ InvalidateClaims \/ UNCHANGED vars
      PROVE  WellFormed'
  <2>1. TypeOK'
    BY <1>1, <1>2, <1>5, OtherTypes
  <2>2. ClaimsAreLive' /\ SleepersHaveOwners'
    BY <1>1, <1>5, OtherClaims
  <2> QED BY <2>1, <2>2 DEF WellFormed
<1>6. WellFormed'
  BY <1>4, <1>5 DEF Next
<1> QED BY <1>2, <1>3, <1>6 DEF IInv

LEMMA Invariance == Spec => []IInv
<1>1. Init => IInv BY InitInvariant, CacheAssumption
<1>2. IInv /\ [Next]_vars => IInv' BY NextInvariant, CacheAssumption
<1> QED BY <1>1, <1>2, PTL DEF Spec

\* "No claim outlives the decision to run" (cache.rs, InflightGuard): every claim in the
\* map is that of somebody who is downloading or planning it, and nobody sleeps on a
\* block that nobody has claimed, for any number of threads, tasks and blocks.
THEOREM ClaimsAreHeld == Spec => []WellFormed
<1>1. IInv => WellFormed BY DEF IInv
<1> QED BY <1>1, Invariance, PTL

\* Budget::in_flight is what the tasks alive have on the wire, however they end, and
\* never more than the connections allow (prefetch.rs, try_claim).
THEOREM BudgetIsSound == Spec => []BudgetIsExact
<1>1. IInv => BudgetIsExact BY DEF IInv
<1> QED BY <1>1, Invariance, PTL

\* end_read: after the last release no task is left that has not been told to abort,
\* whatever opens, reads and plans it raced with.
THEOREM NothingReadForNobody == Spec => []SpeculationAbandoned
<1>1. IInv => SpeculationAbandoned
  BY DEF IInv, Speculation, TasksListed, NoneListedUnread, SpeculationAbandoned
<1> QED BY <1>1, Invariance, PTL
=============================================================================
