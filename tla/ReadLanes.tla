----------------------------- MODULE ReadLanes -----------------------------
(***************************************************************************)
(* Reading one file over extra SMB connections (synology-filestation-smb:  *)
(* pool.rs, handles.rs, and the read half of transport.rs).                *)
(*                                                                         *)
(* A read is cut into pieces dealt over the main session and the lanes, a  *)
(* lane being one more session with open read handles of its own.  Lanes   *)
(* are opened by one background task at a time, belong to the generation   *)
(* of the main session they were opened for, and are let go of when they   *)
(* fail or the session moves; from then on they drain: their handles are   *)
(* closed as the reads using them finish.  A handle in use is never closed *)
(* but parked.  The lists of live and of draining lanes have a lock each:  *)
(* a lane leaves the one before it is on the other, and a write or a       *)
(* rename, which closes what every lane has open, reads one after the      *)
(* other and then goes through the lanes it found.                         *)
(*                                                                         *)
(* One file is modelled, so a lane caches at most one handle.  A write or  *)
(* a rename is followed for one lane and the handle cached there when it   *)
(* begins, whichever that is: what it does to the other lanes, evictions   *)
(* can.  Whether the main session is live and its login stands is          *)
(* SmbSession's matter: here each look at it is a choice, `fit`.           *)
(***************************************************************************)
EXTENDS FiniteSets, Naturals

CONSTANTS Lanes,        \* bound: lanes ever opened
          Handles,      \* bound: lane handles ever opened
          Pieces,       \* pieces of reads in flight at once
          Wanted,       \* Pool::wanted
          MaxFailures,  \* pool::MAX_FAILURES
          MaxMoves,     \* bound: times the main session changes
          MaxReads,     \* bound: pieces started
          NoHandle, NoLane

LanesAssumption ==
    /\ Wanted \in Nat /\ MaxFailures \in Nat \ {0} /\ MaxMoves \in Nat /\ MaxReads \in Nat
    /\ NoHandle \notin Handles /\ NoLane \notin Lanes

VARIABLES generation,  \* Pool::generation
          moving,      \* retire_all has bumped it and not yet taken the lanes
          laneOf,      \* per lane: the generation it was opened for
          live,        \* Pool::live
          leaving,     \* lanes taken off Pool::live and not yet on Pool::draining
          draining,    \* Pool::draining
          due, ending, \* of those: drain_lane's task has not begun; its loop is over
          unopened,    \* lanes not opened yet
          opener,      \* the background task: off, between lanes, or dialing
          openFor,     \* the generation it opens lanes for
          failures, waiting,   \* failed attempts in a row; the back-off is running
          cached, parked,      \* per lane: HandleCache::handles and ::deferred
          closing,     \* handles whose close is on its way
          unused,      \* handles not opened yet
          on,          \* the lane each handle was opened on
          phase, lane, hold,   \* per piece: what it does, where, through which handle
          lost,        \* per piece: the lane failed it, and whether its link had gone
          reads,       \* bound: pieces started
          late,        \* history: handles opened by a read that had missed the
                       \* cache of a lane whose draining ended meanwhile
          sweep,       \* forget_on_lanes: off, has read the live list, or both
          owed,        \* the handle it is followed for, cached when it began
          seen,        \* that handle's lane was on a list it read, and is still to come
          straddled    \* history: that lane was between the lists at each of its looks

lists == <<leaving, draining, due, ending>>
pool == <<generation, moving, laneOf, live, lists, unopened>>
opens == <<opener, openFor, failures, waiting>>
sweeping == <<sweep, seen, owed, straddled>>
handles == <<cached, parked, closing, unused, on, late, sweeping>>
piece == <<phase, lane, hold, lost, reads>>
vars == <<pool, opens, handles, piece>>

PiecePhases == {"idle", "looking", "opening", "reading", "main"}

TypeOK ==
    /\ generation \in 0 .. MaxMoves
    /\ moving \in BOOLEAN
    /\ laneOf \in [Lanes -> 0 .. MaxMoves]
    /\ live \subseteq Lanes /\ unopened \subseteq Lanes /\ leaving \subseteq Lanes
    /\ draining \subseteq Lanes /\ due \subseteq Lanes /\ ending \subseteq Lanes
    /\ opener \in {"off", "between", "dialing"}
    /\ openFor \in 0 .. MaxMoves
    /\ failures \in 0 .. MaxFailures /\ waiting \in BOOLEAN
    /\ cached \in [Lanes -> Handles \cup {NoHandle}]
    /\ parked \in [Lanes -> SUBSET Handles]
    /\ closing \subseteq Handles /\ unused \subseteq Handles /\ late \subseteq Handles
    /\ on \in [Handles -> Lanes \cup {NoLane}]
    /\ phase \in [Pieces -> PiecePhases]
    /\ lane \in [Pieces -> Lanes \cup {NoLane}]
    /\ hold \in [Pieces -> Handles \cup {NoHandle}]
    /\ lost \in [Pieces -> {"no", "failed", "gone"}]
    /\ reads \in 0 .. MaxReads
    /\ sweep \in {"off", "looked", "taking"}
    /\ owed \in Handles \cup {NoHandle} /\ seen \in BOOLEAN /\ straddled \in BOOLEAN

Init ==
    /\ generation = 0 /\ moving = FALSE
    /\ laneOf = [l \in Lanes |-> 0]
    /\ live = {} /\ leaving = {} /\ draining = {} /\ due = {} /\ ending = {} /\ unopened = Lanes
    /\ opener = "off" /\ openFor = 0
    /\ failures = 0 /\ waiting = FALSE
    /\ cached = [l \in Lanes |-> NoHandle]
    /\ parked = [l \in Lanes |-> {}]
    /\ closing = {} /\ unused = Handles /\ late = {}
    /\ on = [h \in Handles |-> NoLane]
    /\ phase = [p \in Pieces |-> "idle"]
    /\ lane = [p \in Pieces |-> NoLane]
    /\ hold = [p \in Pieces |-> NoHandle]
    /\ lost = [p \in Pieces |-> "no"]
    /\ reads = 0
    /\ sweep = "off" /\ owed = NoHandle /\ seen = FALSE /\ straddled = FALSE

\* A lane or a handle not opened yet: which of them is all one.
Fresh(these) == CHOOSE one \in these : TRUE

-----------------------------------------------------------------------------
(* Handles. *)

\* A lane's handles are where a list has them, or will: from the clear that ends its
\* draining on, nobody looks there again.
Findable(l) == l \in live \cup leaving \cup (draining \ ending)

UsedBy(h, held) == \E p \in Pieces : held[p] = h

\* Mutant: a handle is closed whoever reads through it.
CloseOrPark_Closes(drop, parkedNow, held) ==
    /\ parked' = parkedNow
    /\ closing' = closing \cup UNION {drop[l] : l \in Lanes}

\* close_in, on the handles `drop` takes from each lane's cache: those still in
\* use are parked where they came from, the others are closed.  `held` is who
\* reads through what once the step is done.
CloseOrPark(drop, parkedNow, held) ==
    /\ parked' = [l \in Lanes |-> parkedNow[l] \cup {h \in drop[l] : UsedBy(h, held)}]
    /\ closing' = closing \cup {h \in UNION {drop[l] : l \in Lanes} : ~ UsedBy(h, held)}

Nothing == [l \in Lanes |-> {}]
Entry(l) == {cached[l]} \ {NoHandle}

\* HandleCache::take_free of one lane.
Free(l, held) == {h \in parked[l] : ~ UsedBy(h, held)}

\* HandleCache::invalidate and take_free on the lanes of `at`.
Invalidate(at, held) ==
    /\ cached' = [l \in Lanes |-> IF l \in at THEN NoHandle ELSE cached[l]]
    /\ CloseOrPark([l \in Lanes |-> IF l \in at THEN Entry(l) \cup Free(l, held) ELSE {}],
                   [l \in Lanes |-> IF l \in at THEN parked[l] \ Free(l, held) ELSE parked[l]],
                   held)

\* HandleCache::clear of a lane, closing what it takes (drain_lane's first round).
ClearAndClose(l) ==
    /\ cached' = [cached EXCEPT ![l] = NoHandle]
    /\ CloseOrPark([Nothing EXCEPT ![l] = Entry(l) \cup parked[l]],
                   [parked EXCEPT ![l] = {}], hold)

\* A close on a lane is answered, or dropped with the time-out around it.
CloseEnds(h) ==
    /\ h \in closing
    /\ closing' = closing \ {h}
    /\ UNCHANGED <<pool, opens, cached, parked, unused, on, late, sweeping, piece>>

-----------------------------------------------------------------------------
(* Opening lanes. *)

\* Pool::should_open.
ShouldOpen ==
    /\ Cardinality(live) < Wanted
    /\ failures < MaxFailures /\ ~ waiting
    /\ opener = "off"

\* Mutant: the claim on opening is never given back.
Opened_StillClaimed(failed) ==
    /\ failures' = IF failed THEN failures + 1 ELSE 0
    /\ waiting' = failed
    /\ UNCHANGED opener

\* Pool::opened.
Opened(failed) ==
    /\ opener' = "off"
    /\ failures' = IF failed THEN failures + 1 ELSE 0
    /\ waiting' = failed

\* Pool::wants.
Wants == openFor = generation /\ Cardinality(live) < Wanted

\* The opening task goes round once more, or ends.
OpenerLoops ==
    /\ opener = "between"
    /\ \E fit \in BOOLEAN :
          IF Wants /\ fit THEN opener' = "dialing" /\ UNCHANGED <<failures, waiting>>
                          ELSE Opened(FALSE)
    /\ UNCHANGED <<pool, openFor, handles, piece>>

\* Mutant: a lane is kept whatever happened to the session while it was dialed.
LaneUp_AnyGeneration ==
    /\ opener = "dialing"
    /\ \E l \in unopened :
          /\ l = Fresh(unopened)
          /\ unopened' = unopened \ {l}
          /\ laneOf' = [laneOf EXCEPT ![l] = openFor]
          /\ IF Cardinality(live) < Wanted
             THEN /\ live' = live \cup {l}
                  /\ opener' = "between" /\ UNCHANGED <<failures, waiting>>
             ELSE UNCHANGED live /\ Opened(FALSE)
    /\ UNCHANGED <<generation, moving, lists, openFor, handles, piece>>

\* The login on the new stream is accepted, and Pool::add keeps the lane unless
\* the pool has moved on.
LaneUp ==
    /\ opener = "dialing"
    /\ \E l \in unopened :
          /\ l = Fresh(unopened)
          /\ unopened' = unopened \ {l}
          /\ laneOf' = [laneOf EXCEPT ![l] = openFor]
          /\ IF openFor = generation /\ Cardinality(live) < Wanted
             THEN /\ live' = live \cup {l}
                  /\ opener' = "between" /\ UNCHANGED <<failures, waiting>>
             ELSE UNCHANGED live /\ Opened(FALSE)
    /\ UNCHANGED <<generation, moving, lists, openFor, handles, piece>>

\* open_lane fails, be it that the login is refused.
LaneDown ==
    /\ opener = "dialing"
    /\ Opened(TRUE)
    /\ UNCHANGED <<pool, openFor, handles, piece>>

\* The back-off after a failed attempt runs out.
BackoffElapses ==
    /\ waiting
    /\ waiting' = FALSE
    /\ UNCHANGED <<pool, opener, openFor, failures, handles, piece>>

-----------------------------------------------------------------------------
(* Letting lanes go. *)

\* retire_all, first half: the generation, and the failures of the old session.
MoveBegins ==
    /\ ~ moving /\ generation < MaxMoves
    /\ moving' = TRUE
    /\ generation' = generation + 1
    /\ failures' = 0 /\ waiting' = FALSE
    /\ UNCHANGED <<laneOf, live, lists, unopened, opener, openFor, handles, piece>>

\* retire_all, second half: it takes the live list.
MoveEnds ==
    /\ moving
    /\ moving' = FALSE
    /\ live' = {}
    /\ leaving' = leaving \cup live
    /\ UNCHANGED <<generation, laneOf, draining, due, ending, unopened, opens,
                   handles, piece>>

\* Pool::retire up to its drain: the lane is off the live list.
Retire(l) ==
    /\ live' = live \ {l}
    /\ leaving' = leaving \cup {l}
    /\ UNCHANGED <<generation, moving, laneOf, draining, due, ending, unopened>>

\* A lane that would not close a file in time for a write is let go of.
RetireSlow(l) ==
    /\ l \in live
    /\ \E h \in closing : on[h] = l
    /\ Retire(l)
    /\ UNCHANGED <<opens, handles, piece>>

\* Pool::drain: the lane goes on the draining list, and drain_lane spawns its task.
Joins(l) ==
    /\ l \in leaving
    /\ leaving' = leaving \ {l}
    /\ draining' = draining \cup {l}
    /\ due' = due \cup {l}
    /\ UNCHANGED <<generation, moving, laneOf, live, ending, unopened, opens,
                   handles, piece>>

\* drain_lane's task begins: whatever is cached or parked is closed, or parked again.
DrainBegins(l) ==
    /\ l \in due
    /\ due' = due \ {l}
    /\ ClearAndClose(l)
    /\ UNCHANGED <<generation, moving, laneOf, live, leaving, draining, ending, unopened, opens, unused, on, late, sweeping, piece>>

\* Its loop goes on, when the closes of the last round are over.
Rounds(l) ==
    /\ l \in draining \ (due \cup ending)
    /\ \A h \in closing : on[h] # l

\* A round of it closes what has come free.
DrainRound(l) ==
    /\ Rounds(l)
    /\ Free(l, hold) # {}
    /\ CloseOrPark([Nothing EXCEPT ![l] = Free(l, hold)],
                   [parked EXCEPT ![l] = @ \ Free(l, hold)], hold)
    /\ UNCHANGED <<pool, opens, cached, unused, on, late, sweeping, piece>>

\* Mutant: the lane leaves the list with what its cache still has.
LastClear_KeepsCached(l) ==
    /\ Rounds(l)
    /\ ending' = ending \cup {l}
    /\ parked' = [parked EXCEPT ![l] = {}]
    /\ UNCHANGED <<generation, moving, laneOf, live, leaving, draining, due, unopened, opens, cached, closing, unused, on, late, sweeping, piece>>

\* The cache was empty, or DRAIN_FOR is over: what there is by now goes with the
\* connection.
LastClear(l) ==
    /\ Rounds(l)
    /\ ending' = ending \cup {l}
    /\ cached' = [cached EXCEPT ![l] = NoHandle]
    /\ parked' = [parked EXCEPT ![l] = {}]
    /\ UNCHANGED <<generation, moving, laneOf, live, leaving, draining, due, unopened, opens,
                   closing, unused, on, late, sweeping, piece>>

\* Pool::drained.
Leaves(l) ==
    /\ l \in ending
    /\ ending' = ending \ {l}
    /\ draining' = draining \ {l}
    /\ UNCHANGED <<generation, moving, laneOf, live, leaving, due, unopened, opens,
                   handles, piece>>

-----------------------------------------------------------------------------
(* Reading. *)

Done(p) ==
    /\ phase' = [phase EXCEPT ![p] = "idle"]
    /\ lane' = [lane EXCEPT ![p] = NoLane]
    /\ lost' = [lost EXCEPT ![p] = "no"]

\* lanes_for_reading: none unless the session is live and its login stands, and
\* asking for more in the background.  The piece is dealt to a lane or to main.
Start(p) ==
    /\ phase[p] = "idle" /\ reads < MaxReads
    /\ reads' = reads + 1
    /\ \E fit \in BOOLEAN :
          /\ IF fit /\ ShouldOpen
             THEN opener' = "between" /\ openFor' = generation
             ELSE UNCHANGED <<opener, openFor>>
          /\ \E l \in (IF fit THEN live ELSE {}) \cup {NoLane} :
                /\ lane' = [lane EXCEPT ![p] = l]
                /\ phase' = [phase EXCEPT ![p] = IF l = NoLane THEN "main" ELSE "looking"]
    /\ UNCHANGED <<pool, failures, waiting, handles, hold, lost>>

\* lane_reader up to its first miss: close what came free, and use the cached
\* handle if there is one.
Look(p) ==
    LET l == lane[p] IN
    /\ phase[p] = "looking"
    /\ CloseOrPark([Nothing EXCEPT ![l] = Free(l, hold)],
                   [parked EXCEPT ![l] = @ \ Free(l, hold)], hold)
    /\ hold' = [hold EXCEPT ![p] = cached[l]]
    /\ phase' = [phase EXCEPT ![p] = IF cached[l] = NoHandle THEN "opening" ELSE "reading"]
    /\ UNCHANGED <<pool, opens, cached, unused, on, late, sweeping, lane, lost,
                   reads>>

\* The rest of lane_reader, after the round trip that opened a handle:
\* insert_or_existing keeps the one that is there, and closes the newcomer.
Insert(p) ==
    LET l == lane[p] IN
    /\ phase[p] = "opening"
    /\ \E h \in unused :
          /\ h = Fresh(unused)
          /\ unused' = unused \ {h}
          /\ on' = [on EXCEPT ![h] = l]
          /\ IF cached[l] = NoHandle
             THEN /\ cached' = [cached EXCEPT ![l] = h]
                  /\ hold' = [hold EXCEPT ![p] = h]
                  /\ late' = IF Findable(l) THEN late ELSE late \cup {h}
                  /\ UNCHANGED closing
             ELSE /\ hold' = [hold EXCEPT ![p] = cached[l]]
                  /\ closing' = closing \cup {h}
                  /\ UNCHANGED <<cached, late>>
    /\ phase' = [phase EXCEPT ![p] = "reading"]
    /\ UNCHANGED <<pool, opens, parked, sweeping, lane, lost, reads>>

\* What insert_or_existing evicts from a cache that is full goes as an invalidated
\* handle does.
Evict(l) ==
    /\ cached[l] # NoHandle
    /\ Invalidate({l}, hold)
    /\ UNCHANGED <<pool, opens, unused, on, late, sweeping, piece>>

\* The lane serves the piece in full.
Served(p) ==
    /\ phase[p] = "reading"
    /\ Done(p)
    /\ hold' = [hold EXCEPT ![p] = NoHandle]
    /\ UNCHANGED <<pool, opens, handles, reads>>

\* A short piece: the handle may be older than the file.  Forget it, and let the
\* main session say where the file ends.
Short(p) ==
    /\ phase[p] = "reading"
    /\ hold' = [hold EXCEPT ![p] = NoHandle]
    /\ Invalidate({lane[p]}, hold')
    /\ phase' = [phase EXCEPT ![p] = "main"]
    /\ UNCHANGED <<pool, opens, unused, on, late, sweeping, lane, lost, reads>>

\* The open or the read failed: forget the handle and ask the main session.
Fails(p) ==
    /\ phase[p] \in {"opening", "reading"}
    /\ hold' = [hold EXCEPT ![p] = NoHandle]
    /\ Invalidate({lane[p]}, hold')
    /\ phase' = [phase EXCEPT ![p] = "main"]
    /\ \E how \in {"failed", "gone"} : lost' = [lost EXCEPT ![p] = how]
    /\ UNCHANGED <<pool, opens, unused, on, late, sweeping, lane, reads>>

\* The main session answers; should_retire lets the lane go if its link had gone
\* or the session could serve what it could not.
MainAnswers(p, ok) ==
    LET gone == lost[p] = "gone" \/ (lost[p] = "failed" /\ ok) IN
    /\ phase[p] = "main"
    /\ Done(p)
    /\ IF gone /\ lane[p] \in live
       THEN Retire(lane[p])
       ELSE UNCHANGED pool
    /\ UNCHANGED <<opens, handles, hold, reads>>

\* forget_on_lanes: a write, a rename or a failed read on the main session closes
\* what every connection has open, the draining ones too.  Pool::all reads the live
\* list first.
ForgetLooks(l) ==
    /\ sweep = "off" /\ cached[l] # NoHandle
    /\ sweep' = "looked"
    /\ owed' = cached[l]
    /\ seen' = (l \in live)
    /\ straddled' = (l \in leaving)
    /\ UNCHANGED <<pool, opens, cached, parked, closing, unused, on, late, piece>>

\* Mutant: the draining lanes are left to themselves.
ForgetLooksOn_LiveOnly(l) ==
    /\ sweep = "looked" /\ on[owed] = l
    /\ sweep' = "taking"
    /\ straddled' = (straddled /\ l \in leaving)
    /\ UNCHANGED <<pool, opens, cached, parked, closing, unused, on, late, seen, owed, piece>>

\* Pool::all reads the draining list.
ForgetLooksOn(l) ==
    /\ sweep = "looked" /\ on[owed] = l
    /\ sweep' = "taking"
    /\ seen' = (seen \/ l \in draining)
    /\ straddled' = (straddled /\ l \in leaving)
    /\ UNCHANGED <<pool, opens, cached, parked, closing, unused, on, late, owed, piece>>

\* A lane it found gives up its handle, and what came free there.
ForgetTakes(l) ==
    /\ sweep = "taking" /\ seen /\ on[owed] = l
    /\ seen' = FALSE
    /\ Invalidate({l}, hold)
    /\ UNCHANGED <<pool, opens, unused, on, late, sweep, owed, straddled, piece>>

\* It is done.
ForgetEnds ==
    /\ sweep = "taking" /\ ~ seen
    /\ sweep' = "off"
    /\ owed' = NoHandle /\ straddled' = FALSE
    /\ UNCHANGED <<pool, opens, cached, parked, closing, unused, on, late, seen, piece>>

-----------------------------------------------------------------------------
Opening == OpenerLoops \/ LaneUp \/ LaneDown
Ends(p) == Look(p) \/ Insert(p) \/ Served(p) \/ Short(p) \/ Fails(p)
           \/ MainAnswers(p, TRUE) \/ MainAnswers(p, FALSE)
Draining(l) == Joins(l) \/ DrainBegins(l) \/ LastClear(l) \/ Leaves(l)
Forgetting == (\E l \in Lanes : ForgetLooksOn(l) \/ ForgetTakes(l)) \/ ForgetEnds

Next ==
    \/ Opening \/ BackoffElapses
    \/ MoveBegins \/ MoveEnds
    \/ \E l \in Lanes : RetireSlow(l) \/ Draining(l) \/ DrainRound(l) \/ Evict(l) \/ ForgetLooks(l)
    \/ \E p \in Pieces : Start(p) \/ Ends(p)
    \/ Forgetting
    \/ \E h \in Handles : CloseEnds(h)

Spec == Init /\ [][Next]_vars

\* Round trips end: every response has a deadline, every close on a lane a
\* time-out, and a drain lasts DRAIN_FOR at most.
Fairness ==
    /\ WF_vars(Opening) /\ WF_vars(MoveEnds) /\ WF_vars(Forgetting)
    /\ \A l \in Lanes : WF_vars(Draining(l))
    /\ \A p \in Pieces : WF_vars(Ends(p))
    /\ \A h \in Handles : WF_vars(CloseEnds(h))

FairSpec == Spec /\ Fairness

-----------------------------------------------------------------------------
(* Properties. *)

\* Reads never go over a connection opened for an earlier session of the
\* transport, nor over more than are wanted, whenever the session moves while
\* one is being dialed.
LanesAreCurrent ==
    /\ ~ moving => \A l \in live : laneOf[l] = generation
    /\ Cardinality(live) <= Wanted

\* Nobody's handle is closed under them, however writes, evictions and retired
\* lanes meet the reads in flight.
NoneClosedInUse == \A h \in closing : ~ UsedBy(h, hold)

\* A handle a cache keeps open on the NAS is on a lane that one of the lists has, or is
\* about to have, and a write or a rename that has been through the lists has taken
\* from its cache any handle that was cached when it began: except one that a read
\* opened on a lane that finished draining between its miss and its insert, and one
\* on a lane that was off the one list and not on the other whenever it looked.
InvalidationReaches ==
    /\ \A l \in Lanes : \A h \in (Entry(l) \cup parked[l]) : Findable(l) \/ h \in late
    /\ sweep = "taking" /\ ~ seen => owed \notin Entry(on[owed]) \/ straddled \/ owed \in late

\* What drain_lane's comment says: a retired connection stays where invalidation
\* can find it, with no handle that nothing is tracking.
NothingUntracked ==
    \A l \in Lanes : cached[l] # NoHandle => l \in live \cup draining

\* What Pool::all's comment says: it returns every connection whose handles
\* invalidation has to reach.
AllAreReached ==
    sweep = "taking" /\ ~ seen => owed \notin Entry(on[owed])

\* A retired connection is let go of in the end, and the task that opens lanes
\* lets go of its claim, so another can be opened.
Claimed == opener # "off" /\ unopened # {}
LanesSettle ==
    /\ \A l \in Lanes : (l \in leaving \cup draining) ~> (l \notin leaving \cup draining)
    /\ Claimed ~> ~ Claimed

\* A piece whose lane fails costs a retry and not an answer.
Reading(p) == phase[p] # "idle" /\ unused # {}
PieceAnswered == \A p \in Pieces : Reading(p) ~> ~ Reading(p)

=============================================================================
