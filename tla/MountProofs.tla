------------------------------ MODULE MountProofs ------------------------------
(***************************************************************************)
(* What MCMount checks holds for every value of the constants: of the      *)
(* circuit breaker, whose steps are here, and of the mount's end,          *)
(* listings, the calls a client makes, the buffer writes gather in, moves, *)
(* the log and the walkers noticed, each of which keeps its inductive      *)
(* invariant of MountPartsProofs or MountAsideProofs, as a behaviour stays *)
(* in the part it began in.                                                *)
(***************************************************************************)
EXTENDS MCMount, MountPartsProofs, MountAsideProofs

-----------------------------------------------------------------------------
(* The circuit breaker, for any set of callers, any subset of them         *)
(* abortable, any threshold and any cooldown.                              *)

\* Why CoolsInFull holds: an open breaker's clock was last set by a failure, and
\* every failure sets it, so it never runs ahead of the time since the last
\* failure.  The second conjunct carries that across: outside "closed" the count
\* has reached the threshold, so no failure is merely counted.
ClockInv ==
    /\ state = "open" => openedFor <= quiet
    /\ state # "closed" => failures >= FailureThreshold

\* TypeOK is inductive: the breaker's state and clock stay in range for any number of
\* concurrent callers.
LEMMA TypeCorrect == Spec => []TypeOK
<1>1. Init => TypeOK
  BY BreakerAssumption DEF Init, TypeOK, States, Phases
<1>2. TypeOK /\ [Next]_vars => TypeOK'
  <2> SUFFICES ASSUME TypeOK, [Next]_vars PROVE TypeOK'
    OBVIOUS
  <2> USE BreakerAssumption DEF TypeOK, States, Phases
  <2>1. CASE Tick
    BY <2>1 DEF Tick
  <2>2. ASSUME NEW o \in Ops, Admit(o) \/ Skip(o) \/ Dropped(o) \/ HttpDone(o)
        PROVE  TypeOK'
    BY <2>2 DEF Admit, Skip, Dropped, HttpDone
  <2>3. ASSUME NEW o \in Ops, Answered(o) \/ Declined(o)
        PROVE  TypeOK'
    BY <2>3 DEF Answered, Declined, OnSuccess
  <2>4. ASSUME NEW o \in Ops, Failed(o)
        PROVE  TypeOK'
    <3>1. phase' \in [Ops -> Phases] /\ trials' \subseteq Ops
      BY <2>4 DEF Failed
    <3>2. /\ state' \in States
          /\ openedFor' \in 0 .. Cooldown
          /\ failures' \in 0 .. MaxCount
          /\ quiet' \in 0 .. Cooldown
          /\ lost' \subseteq Ops
      BY <2>4 DEF Failed, OnFailure
    <3> QED BY <3>1, <3>2
  <2>5. CASE UNCHANGED vars
    BY <2>5 DEF vars
  <2> QED BY <2>1, <2>2, <2>3, <2>4, <2>5 DEF Next
<1> QED BY <1>1, <1>2, PTL DEF Spec

\* The clock invariant that the cooldown rests on (CircuitBreaker::on_failure, which
\* only a closed breaker lets count without moving opened_at).
THEOREM ClockInvariant == Spec => []ClockInv
<1>1. Init => ClockInv
  BY DEF Init, ClockInv
<1>2. TypeOK /\ ClockInv /\ [Next]_vars => ClockInv'
  <2> SUFFICES ASSUME TypeOK, ClockInv, [Next]_vars PROVE ClockInv'
    OBVIOUS
  <2> USE BreakerAssumption DEF TypeOK, States, ClockInv
  <2>1. CASE Tick
    BY <2>1 DEF Tick
  <2>2. ASSUME NEW o \in Ops, Admit(o)
        PROVE  ClockInv'
    BY <2>2 DEF Admit, Allows
  <2>3. ASSUME NEW o \in Ops, Skip(o) \/ Dropped(o) \/ HttpDone(o)
        PROVE  ClockInv'
    BY <2>3 DEF Skip, Dropped, HttpDone
  <2>4. ASSUME NEW o \in Ops, Answered(o) \/ Declined(o)
        PROVE  ClockInv'
    BY <2>4 DEF Answered, Declined, OnSuccess
  <2>5. ASSUME NEW o \in Ops, Failed(o)
        PROVE  ClockInv'
    BY <2>5 DEF Failed, OnFailure
  <2>6. CASE UNCHANGED vars
    BY <2>6 DEF vars
  <2> QED BY <2>1, <2>2, <2>3, <2>4, <2>5, <2>6 DEF Next
<1> QED BY <1>1, <1>2, TypeCorrect, PTL DEF Spec

\* A backend that opened the breaker is left alone for a full cooldown after the
\* last failure anyone reported (CircuitBreaker::allows and on_failure).
THEOREM CooldownHonoured == Spec => CoolsInFull
<1> DEFINE Cooled == \A o \in Ops :
              (state # "closed" /\ phase[o] # "backend" /\ phase'[o] = "backend")
                  => quiet >= Cooldown
<1>1. TypeOK /\ ClockInv /\ [Next]_vars => [Cooled]_vars
  <2> SUFFICES ASSUME TypeOK, ClockInv, Next,
                      NEW o \in Ops,
                      state # "closed", phase[o] # "backend", phase'[o] = "backend"
               PROVE  quiet >= Cooldown
    BY DEF vars
  <2> USE BreakerAssumption DEF TypeOK
  <2>1. ~ Tick
    BY DEF Tick
  <2>2. ASSUME NEW q \in Ops,
               Skip(q) \/ Answered(q) \/ Declined(q) \/ Failed(q)
                 \/ Dropped(q) \/ HttpDone(q)
        PROVE  FALSE
    BY <2>2 DEF Skip, Answered, Declined, Failed, Dropped, HttpDone
  <2>3. PICK q \in Ops : Admit(q)
    BY <2>1, <2>2 DEF Next
  <2>4. state = "open" /\ openedFor >= Cooldown
    BY <2>3 DEF Admit, Allows
  <2> QED BY <2>4 DEF ClockInv
<1> QED BY <1>1, TypeCorrect, ClockInvariant, PTL DEF CoolsInFull, Spec

\* The breaker is half-open with no trial out only after a trial's future was
\* dropped: every ending that the selection loops record leaves half-open.
THEOREM TrialsReportBack == Spec => []TrialOutstanding
<1>1. Init => TrialOutstanding
  BY DEF Init, TrialOutstanding
<1>2. TypeOK /\ TrialOutstanding /\ [Next]_vars => TrialOutstanding'
  <2> SUFFICES ASSUME TypeOK, TrialOutstanding, [Next]_vars PROVE TrialOutstanding'
    OBVIOUS
  <2> USE DEF TypeOK, TrialOutstanding
  <2>1. CASE Tick
    BY <2>1 DEF Tick
  <2>2. ASSUME NEW o \in Ops, Admit(o)
        PROVE  TrialOutstanding'
    BY <2>2 DEF Admit
  <2>3. ASSUME NEW o \in Ops, Skip(o) \/ HttpDone(o)
        PROVE  TrialOutstanding'
    BY <2>3 DEF Skip, HttpDone
  <2>4. ASSUME NEW o \in Ops, Answered(o) \/ Declined(o)
        PROVE  TrialOutstanding'
    BY <2>4 DEF Answered, Declined, OnSuccess
  <2>5. ASSUME NEW o \in Ops, Failed(o)
        PROVE  TrialOutstanding'
    <3>1. state' # "halfopen"
      BY <2>5 DEF Failed, OnFailure
    <3> QED BY <3>1
  <2>6. ASSUME NEW o \in Ops, Dropped(o)
        PROVE  TrialOutstanding'
    <3>1. trials' \cup lost' = trials \cup lost /\ state' = state
      BY <2>6 DEF Dropped
    <3> QED BY <3>1
  <2>7. CASE UNCHANGED vars
    BY <2>7 DEF vars
  <2> QED BY <2>1, <2>2, <2>3, <2>4, <2>5, <2>6, <2>7 DEF Next
<1> QED BY <1>1, <1>2, TypeCorrect, PTL DEF Spec

-----------------------------------------------------------------------------
(* The run's own steps. *)

\* Each disjunct of a step is of one part, and stays in it.
LEMMA PartNamed ==
    /\ OnlyBreaker => part = "breaker" /\ part' = part
    /\ OnlyLegs => part = "legs" /\ part' = part
    /\ OnlyEnd => part = "end" /\ part' = part
    /\ OnlyLog => part = "log" /\ part' = part
    /\ OnlyMoves => part = "moves" /\ part' = part
    /\ OnlyLogin => part = "login" /\ part' = part
    /\ OnlyThrottle => part = "throttle" /\ part' = part
    /\ OnlyListings => part = "listings" /\ part' = part
    /\ OnlyWalks => part = "walks" /\ part' = part
    /\ OnlySpill => part = "spill" /\ part' = part
    /\ OnlyNames => part = "names" /\ part' = part
    /\ OnlyPages => part = "pages" /\ part' = part
    /\ OnlyResize => part = "resize" /\ part' = part
BY DEF OnlyBreaker, OnlyLegs, OnlyEnd, OnlyLog, OnlyMoves, OnlyLogin,
       OnlyThrottle, OnlyListings, OnlyWalks, OnlySpill, OnlyNames, OnlyPages, OnlyResize

\* A behaviour stays in the part it begins in.
LEMMA PartFixed == ASSUME [SuiteNext]_suiteVars PROVE part' = part
<1>1. CASE UNCHANGED suiteVars
  BY <1>1 DEF suiteVars
<1>2. CASE SuiteNext
  BY <1>2, PartNamed DEF SuiteNext
<1> QED BY <1>1, <1>2

\* A step of the run in this part is one of the module's, or none.
LEMMA EndMoves ==
    ASSUME [SuiteNext]_suiteVars, part = "end" PROVE [End!Next]_(End!vars)
<1>1. CASE UNCHANGED suiteVars
  BY <1>1 DEF suiteVars, End!vars, End!kernel, End!threads
<1>2. CASE SuiteNext
  BY <1>2, PartNamed DEF SuiteNext
<1> QED BY <1>1, <1>2

\* The runtime lives as long as a callback runs on it, only this mount's own connection is
\* aborted, and nothing logs in once the session is logged out, in whatever order
\* teardown, free, the kernel and the NAS come.
THEOREM EndSound == SuiteSpec => []EndsInOrder
<1>1. SuiteInit => (part = "end" => EndInv)
  <2>1. SUFFICES ASSUME SuiteInit, part = "end" PROVE EndInv
    OBVIOUS
  <2>2. End!Init
    BY <2>1 DEF SuiteInit
  <2> QED BY <2>2, EndInit, EndOk
<1>2. (part = "end" => EndInv) /\ [SuiteNext]_suiteVars => (part = "end" => EndInv)'
  BY PartFixed, EndMoves, EndStep, EndOk
<1>3. (part = "end" => EndInv) => EndsInOrder
  BY DEF EndsInOrder, EndInv, RuntimeHeld, End!RuntimeOutlivesWorkers, WatchOver,
     End!QuietAfterLogout
<1> QED BY <1>1, <1>2, <1>3, PTL DEF SuiteSpec

\* A step of the run in this part is one of the module's, or none.
LEMMA ListMoves ==
    ASSUME [SuiteNext]_suiteVars, part = "listings" PROVE [Listed!Next]_(Listed!vars)
<1>1. CASE UNCHANGED suiteVars
  BY <1>1 DEF suiteVars, Listed!vars, Listed!cells, Listed!handles, Listed!history
<1>2. CASE SuiteNext
  BY <1>2, PartNamed DEF SuiteNext
<1> QED BY <1>1, <1>2

\* Readers of a directory share one fetch and leave no flight behind, a pass is of one
\* listing, and that lacks the mount's own changes only if a readdir was under way when
\* they were made: for any number of handles.
THEOREM ListSound == SuiteSpec => []PassIsOneListing
<1>1. SuiteInit => (part = "listings" => ListInv)
  <2>1. SUFFICES ASSUME SuiteInit, part = "listings" PROVE ListInv
    OBVIOUS
  <2>2. Listed!Init
    BY <2>1 DEF SuiteInit
  <2> QED BY <2>2, ListInit, ListedOk
<1>2. (part = "listings" => ListInv) /\ [SuiteNext]_suiteVars => (part = "listings" => ListInv)'
  BY PartFixed, ListMoves, ListStep, ListedOk
<1>3. (part = "listings" => ListInv) => PassIsOneListing
  BY ListHolds, ListedOk DEF PassIsOneListing, ListInv
<1> QED BY <1>1, <1>2, <1>3, PTL DEF SuiteSpec

-----------------------------------------------------------------------------
(* The calls of the client. *)

\* A step of the run in this part is one of Login, or none.
LEMMA LoginMoves ==
    ASSUME [SuiteNext]_suiteVars, part = "login" PROVE [Logins!Next]_(Logins!vars)
<1>1. CASE UNCHANGED suiteVars
  BY <1>1 DEF suiteVars, Logins!vars
<1>2. CASE SuiteNext
  BY <1>2, PartNamed DEF SuiteNext
<1> QED BY <1>1, <1>2

\* A step of the run in this part is one of Throttle, or none.
LEMMA SlotMoves ==
    ASSUME [SuiteNext]_suiteVars, part = "throttle" PROVE [Slots!Next]_(Slots!vars)
<1>1. CASE UNCHANGED suiteVars
  BY <1>1 DEF suiteVars, Slots!vars
<1>2. CASE SuiteNext
  BY <1>2, PartNamed DEF SuiteNext
<1> QED BY <1>1, <1>2

\* A step of the run in this part is one of Pages, or none.
LEMMA PageMoves ==
    ASSUME [SuiteNext]_suiteVars, part = "pages" PROVE [Page!Next]_(Page!vars)
<1>1. CASE UNCHANGED suiteVars
  BY <1>1 DEF suiteVars, Page!vars
<1>2. CASE SuiteNext
  BY <1>2, PartNamed DEF SuiteNext
<1> QED BY <1>1, <1>2

\* A step of the run in this part is one of Resize, or none.
LEMMA SizeMoves ==
    ASSUME [SuiteNext]_suiteVars, part = "resize" PROVE [Size!Next]_(Size!vars)
<1>1. CASE UNCHANGED suiteVars
  BY <1>1 DEF suiteVars, Size!vars
<1>2. CASE SuiteNext
  BY <1>2, PartNamed DEF SuiteNext
<1> QED BY <1>1, <1>2

\* The four invariants, each in the states of its part.
CallsInv ==
    /\ part = "login" => LoginInv
    /\ part = "throttle" => SlotInv
    /\ part = "pages" => PageInv
    /\ part = "resize" => SizeInv

\* A session's cookie, a slot's count, a listing by pages and a resized file are what they
\* are to be: for any number of calls, slots, pages and versions.
THEOREM CallsSound == SuiteSpec => []CallsKept
<1>1. SuiteInit => CallsInv
  <2>1. ASSUME SuiteInit PROVE /\ part = "login" => Logins!Init
                               /\ part = "throttle" => Slots!Init
                               /\ part = "pages" => Page!Init
                               /\ part = "resize" => Size!Init
    BY <2>1 DEF SuiteInit
  <2> QED
    BY <2>1, LoginInit, LoginOk, SlotInit, SlotOk, PageInit, PageOk, SizeInit, SizeOk
       DEF CallsInv
<1>2. CallsInv /\ [SuiteNext]_suiteVars => CallsInv'
  <2>1. SUFFICES ASSUME CallsInv, [SuiteNext]_suiteVars PROVE CallsInv'
    OBVIOUS
  <2>2. part' = part
    BY <2>1, PartFixed
  <2>3. part = "login" => LoginInv'
    BY <2>1, LoginMoves, LoginStep, LoginOk DEF CallsInv
  <2>4. part = "throttle" => SlotInv'
    BY <2>1, SlotMoves, SlotStep, SlotOk DEF CallsInv
  <2>5. part = "pages" => PageInv'
    BY <2>1, PageMoves, PageStep, PageOk DEF CallsInv
  <2>6. part = "resize" => SizeInv'
    BY <2>1, SizeMoves, SizeStep, SizeOk DEF CallsInv
  <2> QED BY <2>2, <2>3, <2>4, <2>5, <2>6 DEF CallsInv
<1>3. CallsInv => CallsKept
  <2>1. SUFFICES ASSUME CallsInv PROVE CallsKept
    OBVIOUS
  <2>2. part = "login" => Logins!TypeOK /\ Logins!CookieIsKept /\ Logins!TwiceRefused
    <3>1. SUFFICES ASSUME LoginInv PROVE Logins!TypeOK /\ Logins!CookieIsKept /\ Logins!TwiceRefused
      BY <2>1 DEF CallsInv
    <3>2. Logins!TypeOK /\ Logins!TwiceRefused /\ ProbedLives /\ out \in {"no", "asked", "done"}
      BY <3>1 DEF LoginInv, LoginTypes, Logins!TypeOK
    <3>3. Logins!CookieIsKept
      BY <3>2, Zenon DEF ProbedLives, Logins!CookieIsKept
    <3> QED BY <3>2, <3>3
  <2>3. part = "throttle" => /\ Slots!TypeOK /\ Slots!SlotsAreRequests
                             /\ Slots!BeltSpaced
    BY <2>1 DEF CallsInv, SlotInv
  <2>4. part = "pages" => Page!TypeOK /\ Page!NothingOmitted /\ Page!ListedAsIs
    BY <2>1, PageHolds, PageOk DEF CallsInv, PageInv
  <2>5. part = "resize" => Size!TypeOK /\ Size!OneVersion
    BY <2>1 DEF CallsInv, SizeInv, Fetched, Size!OneVersion
  <2> QED BY <2>2, <2>3, <2>4, <2>5 DEF CallsKept
<1> QED BY <1>1, <1>2, <1>3, PTL DEF SuiteSpec

-----------------------------------------------------------------------------
(* The buffer writes gather in. *)

\* A step of the run in this part is one of Spill, or none.
LEMMA BufferMoves ==
    ASSUME [SuiteNext]_suiteVars, part = "spill" PROVE [Buffer!Next]_(Buffer!vars)
<1>1. CASE UNCHANGED suiteVars
  BY <1>1 DEF suiteVars, Buffer!vars
<1>2. CASE SuiteNext
  BY <1>2, PartNamed DEF SuiteNext
<1> QED BY <1>1, <1>2

\* What a write or a resize reported as made is there, in memory or on disk, except where a
\* later one was cut short; another's file is never touched and none is left behind: for any
\* spill size, number of candidate names and length of file.
THEOREM BufferSound == SuiteSpec => []BytesKept
<1>1. SuiteInit => (part = "spill" => BufferInv)
  <2>1. SUFFICES ASSUME SuiteInit, part = "spill" PROVE BufferInv
    OBVIOUS
  <2>2. Buffer!Init
    BY <2>1 DEF SuiteInit
  <2> QED BY <2>2, BufferInit, BufferOk
<1>2. (part = "spill" => BufferInv) /\ [SuiteNext]_suiteVars => (part = "spill" => BufferInv)'
  BY PartFixed, BufferMoves, BufferStep, BufferOk
<1>3. (part = "spill" => BufferInv) => BytesKept
  <2>1. SUFFICES ASSUME BufferInv PROVE BytesKept
    BY DEF BytesKept
  <2>2. Buffer!TypeOK /\ Buffer!OthersKept
    BY <2>1 DEF BufferInv
  <2> QED BY <2>1, <2>2, BufferHolds, BufferOk DEF BytesKept
<1> QED BY <1>1, <1>2, <1>3, PTL DEF SuiteSpec

-----------------------------------------------------------------------------
(* Moves. *)

\* A step of the run in this part is one of Moves, or none.
LEMMA MoveMoves ==
    ASSUME [SuiteNext]_suiteVars, part = "moves" PROVE [Move!Next]_(Move!vars)
<1>1. CASE UNCHANGED suiteVars
  BY <1>1 DEF suiteVars, Move!vars, Move!nas, Move!job, Move!bounds
<1>2. CASE SuiteNext
  BY <1>2, PartNamed DEF SuiteNext
<1> QED BY <1>1, <1>2

\* Whatever is lost, sent again or put there by others, a move replaces only what rename(2) may,
\* is where it says it is, and is never made by two tasks or left in two halves: for any number
\* of lost answers and intrusions.
THEOREM MoveSound == SuiteSpec => []MoveIsRename
<1>1. SuiteInit => (part = "moves" => MoveInv)
  <2>1. SUFFICES ASSUME SuiteInit, part = "moves" PROVE MoveInv
    OBVIOUS
  <2>2. Move!Init
    BY <2>1 DEF SuiteInit
  <2> QED BY <2>2, MoveInit, MoveOk
<1>2. (part = "moves" => MoveInv) /\ [SuiteNext]_suiteVars => (part = "moves" => MoveInv)'
  BY PartFixed, MoveMoves, MoveStep, MoveOk
<1>3. (part = "moves" => MoveInv) => MoveIsRename
  BY MoveHolds DEF MoveIsRename
<1> QED BY <1>1, <1>2, <1>3, PTL DEF SuiteSpec

-----------------------------------------------------------------------------
(* The log. *)

\* A step of the run in this part is one of LogFile, or none.
LEMMA LogMoves ==
    ASSUME [SuiteNext]_suiteVars, part = "log" PROVE [Log!Next]_(Log!vars)
<1>1. CASE UNCHANGED suiteVars
  BY <1>1 DEF suiteVars, Log!vars, Log!files, Log!rotating, Log!history
<1>2. CASE SuiteNext
  BY <1>2, PartNamed DEF SuiteNext
<1> QED BY <1>1, <1>2

\* The log can be read in order, keeps as many generations as it is to, has on disk what was
\* acknowledged as durable, and outgrows its limit only by what failed rotations cost: after any
\* number of records, failures, kills and power cuts, for any limit and number of generations.
THEOREM LogIsKept == SuiteSpec => []LogKept
<1>1. SuiteInit => (part = "log" => LogInv)
  <2>1. SUFFICES ASSUME SuiteInit, part = "log" PROVE LogInv
    OBVIOUS
  <2>2. Log!Init
    BY <2>1 DEF SuiteInit
  <2> QED BY <2>2, LogInit, LogOk
<1>2. (part = "log" => LogInv) /\ [SuiteNext]_suiteVars => (part = "log" => LogInv)'
  BY PartFixed, LogMoves, LogStep, LogOk
<1>3. (part = "log" => LogInv) => LogKept
  BY LogHolds, LogOk DEF LogKept
<1> QED BY <1>1, <1>2, <1>3, PTL DEF SuiteSpec

-----------------------------------------------------------------------------
(* The walkers noticed. *)

\* A step of the run in this part is one of Walks, or none.
LEMMA WalkMoves ==
    ASSUME [SuiteNext]_suiteVars, part = "walks" PROVE [Walk!Next]_(Walk!vars)
<1>1. CASE UNCHANGED suiteVars
  BY <1>1 DEF suiteVars, Walk!vars, Walk!world, Walk!inner, Walk!thread, Walk!stop
<1>2. CASE SuiteNext
  BY <1>2, PartNamed DEF SuiteNext
<1> QED BY <1>1, <1>2

\* Only a process that was reported is ever stopped, none is said to start twice without an end
\* between, and a track's count of open handles is that of the handles put down to its process:
\* however opens, releases, sweeps, exits and a request to stop interleave, for any number of
\* processes, threads, handles and starts under one id.
THEOREM WalkSound == SuiteSpec => []WalkersOnly
<1>1. SuiteInit => (part = "walks" => WalkInv)
  <2>1. SUFFICES ASSUME SuiteInit, part = "walks" PROVE WalkInv
    OBVIOUS
  <2>2. Walk!Init
    BY <2>1 DEF SuiteInit
  <2> QED BY <2>2, WalkInit, WalkOk
<1>2. (part = "walks" => WalkInv) /\ [SuiteNext]_suiteVars => (part = "walks" => WalkInv)'
  BY PartFixed, WalkMoves, WalkStep, WalkOk
<1>3. (part = "walks" => WalkInv) => WalkersOnly
  BY WalkHolds, WalkOk DEF WalkersOnly
<1> QED BY <1>1, <1>2, <1>3, PTL DEF SuiteSpec
=============================================================================
