--------------------------- MODULE MountPartsProofs ---------------------------
(***************************************************************************)
(* The inductive invariants of the parts of MountParts, for every value of *)
(* their constants that the assumptions allow.  Each part has a section:   *)
(* its invariant, that the initial states have it, and that every action   *)
(* keeps it.  MountProofs concludes from them what MCMount checks.         *)
(***************************************************************************)
EXTENDS MountParts, FiniteSetTheorems, SequenceTheorems, WellFoundedInduction, TLAPS

-----------------------------------------------------------------------------
(* Sequences. *)

\* A sequence without one of its entries.
LEMMA EntryRemoved ==
    ASSUME NEW S, NEW s \in Seq(S), NEW i \in 1 .. Len(s)
    PROVE  /\ SubSeq(s, 1, i - 1) \o SubSeq(s, i + 1, Len(s)) \in Seq(S)
           /\ Len(SubSeq(s, 1, i - 1) \o SubSeq(s, i + 1, Len(s))) = Len(s) - 1
           /\ \A k \in 1 .. Len(s) - 1 :
                 (SubSeq(s, 1, i - 1) \o SubSeq(s, i + 1, Len(s)))[k] = IF k < i THEN s[k] ELSE s[k + 1]
<1> DEFINE a == SubSeq(s, 1, i - 1)
           b == SubSeq(s, i + 1, Len(s))
<1>1. /\ a \in Seq(S) /\ Len(a) = i - 1
      /\ \A k \in 1 .. i - 1 : a[k] = s[k]
  OBVIOUS
<1>2. /\ b \in Seq(S) /\ Len(b) = Len(s) - i
      /\ \A k \in 1 .. Len(s) - i : b[k] = s[i + k]
  OBVIOUS
<1> HIDE DEF a, b
<1>4. /\ a \o b \in Seq(S) /\ Len(a \o b) = Len(s) - 1
      /\ \A k \in 1 .. Len(s) - 1 : (a \o b)[k] = IF k <= i - 1 THEN a[k] ELSE b[k - (i - 1)]
  <2>1. Len(s) \in Nat /\ i \in Nat /\ 1 <= i /\ i <= Len(s)
    OBVIOUS
  <2>2. /\ a \o b \in Seq(S) /\ Len(a \o b) = Len(a) + Len(b)
        /\ \A k \in 1 .. Len(a) + Len(b) : (a \o b)[k] = IF k <= Len(a) THEN a[k] ELSE b[k - Len(a)]
    BY <1>1, <1>2, ConcatProperties
  <2>3. Len(a) = i - 1 /\ Len(a) + Len(b) = Len(s) - 1
    BY <1>1, <1>2, <2>1
  <2> QED BY <2>2, <2>3
<1>5. \A k \in 1 .. Len(s) - 1 : k >= i => b[k - (i - 1)] = s[k + 1]
  <2>1. SUFFICES ASSUME NEW k \in 1 .. Len(s) - 1, k >= i PROVE b[k - (i - 1)] = s[k + 1]
    OBVIOUS
  <2>2. k - (i - 1) \in 1 .. Len(s) - i /\ i + (k - (i - 1)) = k + 1
    BY <2>1
  <2> QED BY <1>2, <2>2
<1>6. \A k \in 1 .. Len(s) - 1 : (a \o b)[k] = IF k < i THEN s[k] ELSE s[k + 1]
  <2>1. SUFFICES ASSUME NEW k \in 1 .. Len(s) - 1
                 PROVE  (a \o b)[k] = IF k < i THEN s[k] ELSE s[k + 1]
    OBVIOUS
  <2>2. (a \o b)[k] = IF k <= i - 1 THEN a[k] ELSE b[k - (i - 1)]
    BY <1>4
  <2>3. k \in Nat /\ i \in Nat /\ (k < i <=> k <= i - 1)
    OBVIOUS
  <2>4. CASE k < i
    <3>1. k \in 1 .. i - 1
      BY <2>4, <2>3
    <3> QED BY <1>1, <2>2, <2>3, <2>4, <3>1
  <2>5. CASE ~(k < i)
    <3>1. k >= i
      BY <2>5, <2>3
    <3> QED BY <1>5, <2>2, <2>3, <2>5, <3>1
  <2> QED BY <2>4, <2>5
<1> QED BY <1>4, <1>6 DEF a, b

-----------------------------------------------------------------------------
(* How a mount comes down: who keeps the runtime, what is aborted, what may look. *)

\* The join is the only thing teardown ends by, and the session's threads are gone by
\* then; the command line returns when teardown has.
Joined ==
    /\ join = "done" => ~loop
    /\ tear = "done" => join = "done"
    /\ (front = "cli" /\ gui \in {"unmounted", "out", "freed"}) => tear = "done"

\* The mount's hold on the runtime outlasts its threads.
RuntimeHeld == "mount" \notin owners => ~loop

\* Once logged out, nothing watches.
WatchOver == gui \in {"out", "freed"} => ~watching /\ ~looking

EndInv ==
    End!TypeOK /\ Joined /\ RuntimeHeld /\ End!AbortsOnlyOwn /\ WatchOver

\* What spawn_mount leaves.
LEMMA EndInit == ASSUME End!EndsAssumption, End!Init PROVE EndInv
<1>1. 0 \in 0 .. Patience
  BY DEF End!EndsAssumption
<1>2. /\ attached \in BOOLEAN /\ alive \in BOOLEAN /\ users \in BOOLEAN /\ busy \in BOOLEAN
      /\ loop \in BOOLEAN /\ remounted \in BOOLEAN /\ watching \in BOOLEAN /\ looking \in BOOLEAN
  BY Zenon DEF End!Init
<1>3. End!TypeOK
  BY <1>1, <1>2 DEF End!Init, End!TypeOK
<1> QED BY <1>3 DEF End!Init, EndInv, Joined, RuntimeHeld, End!AbortsOnlyOwn, WatchOver

\* The kernel and those who use the mount give nothing away: threads of the session
\* only ever end.
LEMMA EndKernel == ASSUME EndInv, End!Kernel PROVE EndInv'
<1>1. ASSUME End!Used PROVE EndInv'
  <2>1. End!TypeOK'
    BY <1>1 DEF End!Used, End!kernel, End!threads, EndInv, End!TypeOK
  <2>2. Joined' /\ RuntimeHeld'
    BY <1>1 DEF End!Used, End!kernel, End!threads, EndInv, End!TypeOK, Joined, RuntimeHeld
  <2>3. End!AbortsOnlyOwn' /\ WatchOver'
    BY <1>1 DEF End!Used, End!kernel, End!threads, EndInv, End!TypeOK, End!AbortsOnlyOwn,
       WatchOver
  <2> QED BY <2>1, <2>2, <2>3 DEF EndInv
<1>2. ASSUME End!Requests PROVE EndInv'
  <2>1. End!TypeOK'
    BY <1>2 DEF End!Requests, End!kernel, End!threads, EndInv, End!TypeOK
  <2>2. Joined' /\ RuntimeHeld'
    BY <1>2 DEF End!Requests, End!kernel, End!threads, EndInv, End!TypeOK, Joined,
       RuntimeHeld
  <2>3. End!AbortsOnlyOwn' /\ WatchOver'
    BY <1>2 DEF End!Requests, End!kernel, End!threads, EndInv, End!TypeOK,
       End!AbortsOnlyOwn, WatchOver
  <2> QED BY <2>1, <2>2, <2>3 DEF EndInv
<1>3. ASSUME End!NasAnswers PROVE EndInv'
  <2>0. busy' \in BOOLEAN
    BY <1>3, Zenon DEF End!NasAnswers, EndInv, End!TypeOK
  <2>1. End!TypeOK'
    BY <2>0, <1>3 DEF End!NasAnswers, End!kernel, End!threads, EndInv, End!TypeOK
  <2>2. Joined' /\ RuntimeHeld'
    BY <1>3 DEF End!NasAnswers, End!kernel, End!threads, EndInv, End!TypeOK, Joined,
       RuntimeHeld
  <2>3. End!AbortsOnlyOwn' /\ WatchOver'
    BY <1>3 DEF End!NasAnswers, End!kernel, End!threads, EndInv, End!TypeOK,
       End!AbortsOnlyOwn, WatchOver
  <2> QED BY <2>1, <2>2, <2>3 DEF EndInv
<1>4. ASSUME End!LetsGo PROVE EndInv'
  <2>0. users' \in BOOLEAN
    BY <1>4, Zenon DEF End!LetsGo, EndInv, End!TypeOK
  <2>1. End!TypeOK'
    BY <2>0, <1>4 DEF End!LetsGo, End!kernel, End!threads, EndInv, End!TypeOK
  <2>2. Joined' /\ RuntimeHeld'
    BY <1>4 DEF End!LetsGo, End!kernel, End!threads, EndInv, End!TypeOK, Joined, RuntimeHeld
  <2>3. End!AbortsOnlyOwn' /\ WatchOver'
    BY <1>4 DEF End!LetsGo, End!kernel, End!threads, EndInv, End!TypeOK,
       End!AbortsOnlyOwn, WatchOver
  <2> QED BY <2>1, <2>2, <2>3 DEF EndInv
<1>5. ASSUME End!ConnectionEnds PROVE EndInv'
  <2>0. alive' \in BOOLEAN
    BY <1>5, Zenon DEF End!ConnectionEnds, EndInv, End!TypeOK
  <2>1. End!TypeOK'
    BY <2>0, <1>5 DEF End!ConnectionEnds, End!kernel, End!threads, EndInv, End!TypeOK
  <2>2. Joined' /\ RuntimeHeld'
    BY <1>5 DEF End!ConnectionEnds, End!kernel, End!threads, EndInv, End!TypeOK, Joined,
       RuntimeHeld
  <2>3. End!AbortsOnlyOwn' /\ WatchOver'
    BY <1>5 DEF End!ConnectionEnds, End!kernel, End!threads, EndInv, End!TypeOK,
       End!AbortsOnlyOwn, WatchOver
  <2> QED BY <2>1, <2>2, <2>3 DEF EndInv
<1>6. ASSUME End!LoopEnds PROVE EndInv'
  <2>0. loop' \in BOOLEAN
    BY <1>6, Zenon DEF End!LoopEnds, EndInv, End!TypeOK
  <2>1. End!TypeOK'
    BY <2>0, <1>6 DEF End!LoopEnds, End!kernel, End!threads, EndInv, End!TypeOK
  <2>2. Joined' /\ RuntimeHeld'
    BY <1>6 DEF End!LoopEnds, End!kernel, End!threads, EndInv, End!TypeOK, Joined,
       RuntimeHeld
  <2>3. End!AbortsOnlyOwn' /\ WatchOver'
    BY <1>6 DEF End!LoopEnds, End!kernel, End!threads, EndInv, End!TypeOK,
       End!AbortsOnlyOwn, WatchOver
  <2> QED BY <2>1, <2>2, <2>3 DEF EndInv
<1>7. ASSUME End!Remount PROVE EndInv'
  <2>1. End!TypeOK'
    BY <1>7 DEF End!Remount, End!kernel, End!threads, EndInv, End!TypeOK
  <2>2. Joined' /\ RuntimeHeld'
    BY <1>7 DEF End!Remount, End!kernel, End!threads, EndInv, End!TypeOK, Joined,
       RuntimeHeld
  <2>3. End!AbortsOnlyOwn' /\ WatchOver'
    BY <1>7 DEF End!Remount, End!kernel, End!threads, EndInv, End!TypeOK,
       End!AbortsOnlyOwn, WatchOver
  <2> QED BY <2>1, <2>2, <2>3 DEF EndInv
<1> QED BY <1>1, <1>2, <1>3, <1>4, <1>5, <1>6, <1>7 DEF End!Kernel

\* Teardown lets go of the mount only when it is told of the join, and the last resort
\* writes to the file that was opened at the start.
LEMMA EndTeardown == ASSUME End!EndsAssumption, EndInv, End!Teardown PROVE EndInv'
<1>1. ASSUME End!Unmounts PROVE EndInv'
  <2>1. End!TypeOK'
    BY <1>1 DEF End!Unmounts, End!kernel, End!threads, EndInv, End!TypeOK
  <2>2. Joined' /\ RuntimeHeld'
    BY <1>1 DEF End!Unmounts, End!kernel, End!threads, EndInv, End!TypeOK, Joined,
       RuntimeHeld
  <2>3. End!AbortsOnlyOwn' /\ WatchOver'
    BY <1>1 DEF End!Unmounts, End!kernel, End!threads, EndInv, End!TypeOK,
       End!AbortsOnlyOwn, WatchOver
  <2> QED BY <2>1, <2>2, <2>3 DEF EndInv
<1>2. ASSUME End!Joins PROVE EndInv'
  <2>1. End!TypeOK'
    BY <1>2 DEF End!Joins, End!kernel, End!threads, EndInv, End!TypeOK
  <2>2. Joined' /\ RuntimeHeld'
    BY <1>2 DEF End!Joins, End!kernel, End!threads, EndInv, End!TypeOK, Joined, RuntimeHeld
  <2>3. End!AbortsOnlyOwn' /\ WatchOver'
    BY <1>2 DEF End!Joins, End!kernel, End!threads, EndInv, End!TypeOK, End!AbortsOnlyOwn,
       WatchOver
  <2> QED BY <2>1, <2>2, <2>3 DEF EndInv
<1>3. ASSUME End!TearEnds PROVE EndInv'
  <2>1. End!TypeOK'
    BY <1>3 DEF End!TearEnds, End!kernel, End!threads, EndInv, End!TypeOK
  <2>2. Joined' /\ RuntimeHeld'
    BY <1>3 DEF End!TearEnds, End!kernel, End!threads, EndInv, End!TypeOK, Joined,
       RuntimeHeld
  <2>3. End!AbortsOnlyOwn' /\ WatchOver'
    BY <1>3 DEF End!TearEnds, End!kernel, End!threads, EndInv, End!TypeOK,
       End!AbortsOnlyOwn, WatchOver
  <2> QED BY <2>1, <2>2, <2>3 DEF EndInv
<1>4. ASSUME End!GivesUp PROVE EndInv'
  <2>1. End!TypeOK'
    BY <1>4 DEF End!GivesUp, End!kernel, End!threads, EndInv, End!TypeOK
  <2>2. Joined' /\ RuntimeHeld'
    BY <1>4 DEF End!GivesUp, End!kernel, End!threads, EndInv, End!TypeOK, Joined,
       RuntimeHeld
  <2>3. End!AbortsOnlyOwn' /\ WatchOver'
    BY <1>4 DEF End!GivesUp, End!kernel, End!threads, EndInv, End!TypeOK,
       End!AbortsOnlyOwn, WatchOver
  <2> QED BY <2>1, <2>2, <2>3 DEF EndInv
<1>5. ASSUME End!Detach PROVE EndInv'
  <2>0. attached' \in BOOLEAN
    BY <1>5, Zenon DEF End!Detach, EndInv, End!TypeOK
  <2>1. End!TypeOK'
    BY <2>0, <1>5 DEF End!Detach, End!kernel, End!threads, EndInv, End!TypeOK,
       End!EndsAssumption
  <2>2. Joined' /\ RuntimeHeld'
    BY <1>5 DEF End!Detach, End!kernel, End!threads, EndInv, End!TypeOK, Joined, RuntimeHeld
  <2>3. End!AbortsOnlyOwn' /\ WatchOver'
    BY <1>5 DEF End!Detach, End!kernel, End!threads, EndInv, End!TypeOK,
       End!AbortsOnlyOwn, WatchOver
  <2> QED BY <2>1, <2>2, <2>3 DEF EndInv
<1>6. ASSUME End!Abort PROVE EndInv'
  <2>1. End!TypeOK'
    BY <1>6 DEF End!Abort, End!kernel, End!threads, EndInv, End!TypeOK
  <2>2. Joined' /\ RuntimeHeld'
    BY <1>6 DEF End!Abort, End!kernel, End!threads, EndInv, End!TypeOK, Joined, RuntimeHeld
  <2>3. End!AbortsOnlyOwn' /\ WatchOver'
    BY <1>6 DEF End!Abort, End!kernel, End!threads, EndInv, End!TypeOK, End!AbortsOnlyOwn,
       WatchOver
  <2> QED BY <2>1, <2>2, <2>3 DEF EndInv
<1> QED BY <1>1, <1>2, <1>3, <1>4, <1>5, <1>6 DEF End!Teardown

\* The front end frees the runtime the command line's way only after teardown, and stops
\* the watch no later than it logs out.
LEMMA EndFront == ASSUME EndInv, End!Front PROVE EndInv'
<1>1. ASSUME End!Stops PROVE EndInv'
  <2>1. End!TypeOK'
    BY <1>1 DEF End!Stops, End!kernel, End!threads, EndInv, End!TypeOK
  <2>2. Joined' /\ RuntimeHeld'
    BY <1>1 DEF End!Stops, End!kernel, End!threads, EndInv, End!TypeOK, Joined, RuntimeHeld
  <2>3. End!AbortsOnlyOwn' /\ WatchOver'
    BY <1>1 DEF End!Stops, End!kernel, End!threads, EndInv, End!TypeOK, End!AbortsOnlyOwn,
       WatchOver
  <2> QED BY <2>1, <2>2, <2>3 DEF EndInv
<1>2. ASSUME End!Returns PROVE EndInv'
  <2>1. End!TypeOK'
    BY <1>2 DEF End!Returns, End!kernel, End!threads, EndInv, End!TypeOK
  <2>2. Joined' /\ RuntimeHeld'
    BY <1>2 DEF End!Returns, End!kernel, End!threads, EndInv, End!TypeOK, Joined,
       RuntimeHeld
  <2>3. End!AbortsOnlyOwn' /\ WatchOver'
    BY <1>2 DEF End!Returns, End!kernel, End!threads, EndInv, End!TypeOK,
       End!AbortsOnlyOwn, WatchOver
  <2> QED BY <2>1, <2>2, <2>3 DEF EndInv
<1>3. ASSUME End!LogsOut PROVE EndInv'
  <2>1. End!TypeOK'
    BY <1>3, ZenonT(40) DEF End!LogsOut, End!kernel, End!threads, EndInv, End!TypeOK
  <2>2. Joined' /\ RuntimeHeld'
    BY <1>3 DEF End!LogsOut, End!kernel, End!threads, EndInv, End!TypeOK, Joined,
       RuntimeHeld
  <2>3. End!AbortsOnlyOwn' /\ WatchOver'
    BY <1>3 DEF End!LogsOut, End!kernel, End!threads, EndInv, End!TypeOK,
       End!AbortsOnlyOwn, WatchOver
  <2> QED BY <2>1, <2>2, <2>3 DEF EndInv
<1>4. ASSUME End!Frees PROVE EndInv'
  <2>1. End!TypeOK'
    BY <1>4, ZenonT(40) DEF End!Frees, End!kernel, End!threads, EndInv, End!TypeOK
  <2>2. Joined' /\ RuntimeHeld'
    BY <1>4 DEF End!Frees, End!kernel, End!threads, EndInv, End!TypeOK, Joined, RuntimeHeld
  <2>3. End!AbortsOnlyOwn' /\ WatchOver'
    BY <1>4 DEF End!Frees, End!kernel, End!threads, EndInv, End!TypeOK, End!AbortsOnlyOwn,
       WatchOver
  <2> QED BY <2>1, <2>2, <2>3 DEF EndInv
<1>5. ASSUME End!Looks PROVE EndInv'
  <2>1. End!TypeOK'
    BY <1>5 DEF End!Looks, End!kernel, End!threads, EndInv, End!TypeOK
  <2>2. Joined' /\ RuntimeHeld'
    BY <1>5 DEF End!Looks, End!kernel, End!threads, EndInv, End!TypeOK, Joined, RuntimeHeld
  <2>3. End!AbortsOnlyOwn' /\ WatchOver'
    BY <1>5 DEF End!Looks, End!kernel, End!threads, EndInv, End!TypeOK, End!AbortsOnlyOwn,
       WatchOver
  <2> QED BY <2>1, <2>2, <2>3 DEF EndInv
<1> QED BY <1>1, <1>2, <1>3, <1>4, <1>5 DEF End!Front

\* Time passes no deadline.
LEMMA EndTick == ASSUME End!EndsAssumption, EndInv, End!Tick PROVE EndInv'
<1>1. End!TypeOK'
  <2>1. waited' \in 0 .. Patience /\ watched' \in 0 .. Patience
    BY DEF End!EndsAssumption, EndInv, End!TypeOK, End!Tick
  <2> QED BY <2>1 DEF EndInv, End!TypeOK, End!Tick, End!kernel
<1> QED BY <1>1 DEF EndInv, Joined, RuntimeHeld, End!AbortsOnlyOwn, WatchOver, End!Tick,
           End!kernel

\* Every action keeps the invariant.
LEMMA EndStep == ASSUME End!EndsAssumption, EndInv, [End!Next]_(End!vars) PROVE EndInv'
<1>1. CASE UNCHANGED End!vars
  BY <1>1 DEF EndInv, End!TypeOK, Joined, RuntimeHeld, End!AbortsOnlyOwn, WatchOver,
     End!vars,
              End!kernel, End!threads
<1> QED BY <1>1, EndKernel, EndTeardown, EndFront, EndTick DEF End!Next

-----------------------------------------------------------------------------
(* Reading a directory: one fetch at a time, one listing per pass. *)

\* A readdir holds a flight from when it waits until it settles; what the NAS has listed
\* is a listing.
Holding ==
    \A h \in Handles :
        /\ req[h] \in {"waiting", "fetching", "listed"} => hold[h] # Listed!None
        /\ req[h] \in {"none", "looking"} => hold[h] = Listed!None
        /\ req[h] = "listed" => got[h] # Listed!None

\* A flight that has left the map while it was held has been answered; one that is still
\* fetched for has not, and who has a flight's listing has it from the cell.
Flown ==
    \A h \in Handles : hold[h] # Listed!None =>
        /\ hold[h] # flight => cell[hold[h]] # Listed!None
        /\ req[h] \in {"fetching", "listed"} => cell[hold[h]] = Listed!None
        /\ req[h] = "settling" /\ got[h] # Listed!None => cell[hold[h]] # Listed!None

\* Two never fetch at a time.
OneAtATime ==
    \A h, d \in Handles :
        req[h] \in {"fetching", "listed"} /\ req[d] \in {"fetching", "listed"} => h = d

\* Flights are numbered in turn.
Numbered ==
    /\ \A f \in Listed!Flights : cell[f] # Listed!None => f <= fetches
    /\ \A h \in Handles : hold[h] # Listed!None => hold[h] <= fetches

\* While no readdir straddled a change of the mount's own, whatever may yet be answered
\* with has that change: the cache, the cells still held, and what readdirs have got.
UpToDate ==
    /\ acked <= world
    /\ ~straddled =>
         /\ cached # Listed!None => cached >= acked
         /\ \A h \in Handles :
              /\ req[h] # "none" => since[h] = acked
              /\ req[h] \in {"listed", "settling"} /\ got[h] # Listed!None => got[h] >= acked
              /\ hold[h] # Listed!None /\ cell[hold[h]] # Listed!None => cell[hold[h]] >= acked

ListInv ==
    /\ Listed!TypeOK /\ Holding /\ Flown /\ OneAtATime /\ Numbered
    /\ Listed!FlightsDrain /\ Listed!PassIsOneListing /\ UpToDate

\* None is no listing and no flight.
LEMMA ListConstants ==
    ASSUME Listed!ListingsAssumption
    PROVE  /\ Listed!None = 99 /\ MaxChanges \in Nat /\ MaxFetches \in Nat
           /\ Listed!None \notin Listed!Listing /\ Listed!None \notin Listed!Flights
           /\ Listed!Listing \subseteq Nat /\ Listed!Flights \subseteq Nat \ {0}
           /\ 0 \in Listed!Listing /\ Caching \in BOOLEAN
BY DEF Listed!ListingsAssumption, Listed!None, Listed!Listing, Listed!Flights

\* At the start nobody reads the directory.
LEMMA ListInit == ASSUME Listed!ListingsAssumption, Listed!Init PROVE ListInv
<1>1. Listed!TypeOK
  <2>1. /\ [f \in Listed!Flights |-> Listed!None] \in [Listed!Flights -> Listed!MaybeListing]
        /\ [h \in Handles |-> Listed!None] \in [Handles -> Listed!MaybeListing]
        /\ [h \in Handles |-> Listed!None] \in [Handles -> Listed!Flights \cup {Listed!None}]
        /\ [h \in Handles |-> 0] \in [Handles -> Listed!Listing]
    BY ListConstants DEF Listed!MaybeListing
  <2>2. 0 \in 0 .. MaxFetches
    BY ListConstants
  <2> QED BY <2>1, <2>2, ListConstants DEF Listed!Init, Listed!TypeOK, Listed!MaybeListing
<1>2. Holding /\ Flown /\ OneAtATime
  BY DEF Listed!Init, Holding, Flown, OneAtATime
<1>3. Numbered /\ Listed!FlightsDrain /\ Listed!PassIsOneListing /\ UpToDate
  BY ListConstants DEF Listed!Init, Numbered, Listed!FlightsDrain,
     Listed!PassIsOneListing, UpToDate
<1> QED BY <1>1, <1>2, <1>3 DEF ListInv

\* A readdir fetches only for the flight it holds, which is the one in the map.
LEMMA ListReads ==
    ASSUME Listed!ListingsAssumption, ListInv, NEW h \in Handles, Listed!Readdir(h) PROVE ListInv'
<1>0. Listed!TypeOK /\ Holding /\ Flown /\ OneAtATime /\ Numbered /\ Listed!FlightsDrain
      /\ Listed!PassIsOneListing /\ UpToDate
  BY DEF ListInv
<1>1. ASSUME Listed!Asks(h) PROVE ListInv'
  <2>1. Listed!TypeOK'
    BY <1>0, <1>1, ListConstants DEF Listed!Asks, Listed!cells, Listed!handles,
       Listed!history, Listed!Goes, Listed!TypeOK, Listed!MaybeListing
  <2>2. Holding'
    BY <1>0, <1>1, <2>1, ListConstants DEF Listed!Asks, Listed!cells, Listed!handles,
       Listed!history, Listed!Goes, Holding, Listed!TypeOK, Listed!MaybeListing
  <2>3. Flown'
    BY <1>0, <1>1, <2>1, ListConstants DEF Listed!Asks, Listed!cells, Listed!handles,
       Listed!history, Listed!Goes, Flown, Holding, OneAtATime, Listed!TypeOK,
       Listed!MaybeListing
  <2>4. OneAtATime'
    BY <1>0, <1>1, <2>1, ListConstants DEF Listed!Asks, Listed!cells, Listed!handles,
       Listed!history, Listed!Goes, OneAtATime, Holding, Flown, Listed!TypeOK,
       Listed!MaybeListing
  <2>5. Numbered'
    BY <1>0, <1>1, <2>1, ListConstants DEF Listed!Asks, Listed!cells, Listed!handles,
       Listed!history, Listed!Goes, Numbered, Holding, Listed!FlightsDrain, Listed!TypeOK,
       Listed!MaybeListing
  <2>6. Listed!FlightsDrain'
    BY <1>0, <1>1, <2>1, ListConstants DEF Listed!Asks, Listed!cells, Listed!handles,
       Listed!history, Listed!Goes, Listed!FlightsDrain, Listed!TypeOK,
       Listed!MaybeListing
  <2>7. Listed!PassIsOneListing'
    BY <1>0, <1>1, <2>1, ListConstants DEF Listed!Asks, Listed!cells, Listed!handles,
       Listed!history, Listed!Goes, Listed!PassIsOneListing, Listed!TypeOK,
       Listed!MaybeListing
  <2>8. UpToDate'
    BY <1>0, <1>1, <2>1, ListConstants DEF Listed!Asks, Listed!cells, Listed!handles,
       Listed!history, Listed!Goes, UpToDate, Holding, Numbered, Flown,
       Listed!FlightsDrain, Listed!TypeOK, Listed!MaybeListing
  <2> QED BY <2>1, <2>2, <2>3, <2>4, <2>5, <2>6, <2>7, <2>8 DEF ListInv
<1>2. ASSUME Listed!Looks(h) PROVE ListInv'
  <2>a. (flight # Listed!None \/ fetches < MaxFetches) =>
          \A f : f = (IF flight = Listed!None THEN fetches + 1 ELSE flight) =>
                    f \in Listed!Flights /\ f # Listed!None
    BY <1>0, ListConstants DEF Listed!TypeOK, Listed!Flights
  <2>b. /\ fetches' \in 0 .. MaxFetches /\ fetches <= fetches'
        /\ (flight = Listed!None /\ flight' # Listed!None) => flight' = fetches + 1 /\ fetches' = fetches + 1
    BY <1>0, <1>2, ListConstants DEF Listed!Looks, Listed!cells, Listed!TypeOK
  <2>1. Listed!TypeOK'
    BY <1>0, <1>2, <2>a, <2>b, ListConstants DEF Listed!Looks, Listed!cells,
       Listed!handles, Listed!history, Listed!Goes, Listed!TypeOK, Listed!MaybeListing
  <2>2. Holding'
    BY <1>0, <1>2, <2>a, <2>b, <2>1, ListConstants DEF Listed!Looks, Listed!cells,
       Listed!handles, Listed!history, Listed!Goes, Holding, Listed!TypeOK,
       Listed!MaybeListing
  <2>3. Flown'
    BY <1>0, <1>2, <2>a, <2>b, <2>1, ListConstants DEF Listed!Looks, Listed!cells,
       Listed!handles, Listed!history, Listed!Goes, Flown, Holding, OneAtATime,
       Listed!TypeOK, Listed!MaybeListing
  <2>4. OneAtATime'
    BY <1>0, <1>2, <2>a, <2>b, <2>1, ListConstants DEF Listed!Looks, Listed!cells,
       Listed!handles, Listed!history, Listed!Goes, OneAtATime, Holding, Flown,
       Listed!TypeOK, Listed!MaybeListing
  <2>5. Numbered'
    BY <1>0, <1>2, <2>a, <2>b, <2>1, ListConstants DEF Listed!Looks, Listed!cells,
       Listed!handles, Listed!history, Listed!Goes, Numbered, Holding,
       Listed!FlightsDrain, Listed!TypeOK, Listed!MaybeListing
  <2>6. Listed!FlightsDrain'
    BY <1>0, <1>2, <2>a, <2>b, <2>1, ListConstants DEF Listed!Looks, Listed!cells,
       Listed!handles, Listed!history, Listed!Goes, Listed!FlightsDrain, Listed!TypeOK,
       Listed!MaybeListing
  <2>7. Listed!PassIsOneListing'
    BY <1>0, <1>2, <2>a, <2>b, <2>1, ListConstants DEF Listed!Looks, Listed!cells,
       Listed!handles, Listed!history, Listed!Goes, Listed!PassIsOneListing,
       Listed!TypeOK, Listed!MaybeListing
  <2>8. UpToDate'
    BY <1>0, <1>2, <2>a, <2>b, <2>1, ListConstants DEF Listed!Looks, Listed!cells,
       Listed!handles, Listed!history, Listed!Goes, UpToDate, Holding, Numbered, Flown,
       Listed!FlightsDrain, Listed!TypeOK, Listed!MaybeListing
  <2> QED BY <2>1, <2>2, <2>3, <2>4, <2>5, <2>6, <2>7, <2>8 DEF ListInv
<1>3. ASSUME Listed!Turns(h) PROVE ListInv'
  <2>a. hold[h] \in Listed!Flights /\ cell[hold[h]] \in Listed!MaybeListing
    BY <1>0, <1>3, ListConstants DEF Listed!Turns, Listed!TypeOK, Holding
  <2>1. Listed!TypeOK'
    BY <1>0, <1>3, <2>a, ListConstants DEF Listed!Turns, Listed!cells, Listed!handles,
       Listed!history, Listed!Goes, Listed!TypeOK, Listed!MaybeListing
  <2>2. Holding'
    BY <1>0, <1>3, <2>a, <2>1, ListConstants DEF Listed!Turns, Listed!cells,
       Listed!handles, Listed!history, Listed!Goes, Listed!Fetching, Holding,
       Listed!TypeOK, Listed!MaybeListing
  <2>3. Flown'
    BY <1>0, <1>3, <2>a, <2>1, ListConstants DEF Listed!Turns, Listed!cells,
       Listed!handles, Listed!history, Listed!Goes, Listed!Fetching, Flown, Holding,
       OneAtATime, Listed!TypeOK, Listed!MaybeListing
  <2>4. OneAtATime'
    BY <1>0, <1>3, <2>a, <2>1, ListConstants DEF Listed!Turns, Listed!cells,
       Listed!handles, Listed!history, Listed!Goes, Listed!Fetching, OneAtATime, Holding,
       Flown, Listed!TypeOK, Listed!MaybeListing
  <2>5. Numbered'
    BY <1>0, <1>3, <2>a, <2>1, ListConstants DEF Listed!Turns, Listed!cells,
       Listed!handles, Listed!history, Listed!Goes, Listed!Fetching, Numbered, Holding,
       Listed!FlightsDrain, Listed!TypeOK, Listed!MaybeListing
  <2>6. Listed!FlightsDrain'
    BY <1>0, <1>3, <2>a, <2>1, ListConstants DEF Listed!Turns, Listed!cells,
       Listed!handles, Listed!history, Listed!Goes, Listed!Fetching, Listed!FlightsDrain,
       Listed!TypeOK, Listed!MaybeListing
  <2>7. Listed!PassIsOneListing'
    BY <1>0, <1>3, <2>a, <2>1, ListConstants DEF Listed!Turns, Listed!cells,
       Listed!handles, Listed!history, Listed!Goes, Listed!Fetching,
       Listed!PassIsOneListing, Listed!TypeOK, Listed!MaybeListing
  <2>8. UpToDate'
    BY <1>0, <1>3, <2>a, <2>1, ListConstants DEF Listed!Turns, Listed!cells,
       Listed!handles, Listed!history, Listed!Goes, Listed!Fetching, UpToDate, Holding,
       Numbered, Flown, Listed!FlightsDrain, Listed!TypeOK, Listed!MaybeListing
  <2> QED BY <2>1, <2>2, <2>3, <2>4, <2>5, <2>6, <2>7, <2>8 DEF ListInv
<1>4. ASSUME Listed!NasLists(h) PROVE ListInv'
  <2>1. Listed!TypeOK'
    BY <1>0, <1>4, ListConstants DEF Listed!NasLists, Listed!cells, Listed!handles,
       Listed!history, Listed!Goes, Listed!TypeOK, Listed!MaybeListing
  <2>2. Holding'
    BY <1>0, <1>4, <2>1, ListConstants DEF Listed!NasLists, Listed!cells, Listed!handles,
       Listed!history, Listed!Goes, Holding, Listed!TypeOK, Listed!MaybeListing
  <2>3. Flown'
    BY <1>0, <1>4, <2>1, ListConstants DEF Listed!NasLists, Listed!cells, Listed!handles,
       Listed!history, Listed!Goes, Flown, Holding, OneAtATime, Listed!TypeOK,
       Listed!MaybeListing
  <2>4. OneAtATime'
    BY <1>0, <1>4, <2>1, ListConstants DEF Listed!NasLists, Listed!cells, Listed!handles,
       Listed!history, Listed!Goes, OneAtATime, Holding, Flown, Listed!TypeOK,
       Listed!MaybeListing
  <2>5. Numbered'
    BY <1>0, <1>4, <2>1, ListConstants DEF Listed!NasLists, Listed!cells, Listed!handles,
       Listed!history, Listed!Goes, Numbered, Holding, Listed!FlightsDrain, Listed!TypeOK,
       Listed!MaybeListing
  <2>6. Listed!FlightsDrain'
    BY <1>0, <1>4, <2>1, ListConstants DEF Listed!NasLists, Listed!cells, Listed!handles,
       Listed!history, Listed!Goes, Listed!FlightsDrain, Listed!TypeOK,
       Listed!MaybeListing
  <2>7. Listed!PassIsOneListing'
    BY <1>0, <1>4, <2>1, ListConstants DEF Listed!NasLists, Listed!cells, Listed!handles,
       Listed!history, Listed!Goes, Listed!PassIsOneListing, Listed!TypeOK,
       Listed!MaybeListing
  <2>8. UpToDate'
    BY <1>0, <1>4, <2>1, ListConstants DEF Listed!NasLists, Listed!cells, Listed!handles,
       Listed!history, Listed!Goes, UpToDate, Holding, Numbered, Flown,
       Listed!FlightsDrain, Listed!TypeOK, Listed!MaybeListing
  <2> QED BY <2>1, <2>2, <2>3, <2>4, <2>5, <2>6, <2>7, <2>8 DEF ListInv
<1>5. ASSUME Listed!Lands(h) PROVE ListInv'
  <2>1. Listed!TypeOK'
    BY <1>0, <1>5, ListConstants DEF Listed!Lands, Listed!cells, Listed!handles,
       Listed!history, Listed!Goes, Listed!TypeOK, Listed!MaybeListing
  <2>2. Holding'
    BY <1>0, <1>5, <2>1, ListConstants DEF Listed!Lands, Listed!cells, Listed!handles,
       Listed!history, Listed!Goes, Holding, Listed!TypeOK, Listed!MaybeListing
  <2>3. Flown'
    BY <1>0, <1>5, <2>1, ListConstants DEF Listed!Lands, Listed!cells, Listed!handles,
       Listed!history, Listed!Goes, Flown, Holding, OneAtATime, Listed!TypeOK,
       Listed!MaybeListing
  <2>4. OneAtATime'
    BY <1>0, <1>5, <2>1, ListConstants DEF Listed!Lands, Listed!cells, Listed!handles,
       Listed!history, Listed!Goes, OneAtATime, Holding, Flown, Listed!TypeOK,
       Listed!MaybeListing
  <2>5. Numbered'
    BY <1>0, <1>5, <2>1, ListConstants DEF Listed!Lands, Listed!cells, Listed!handles,
       Listed!history, Listed!Goes, Numbered, Holding, Listed!FlightsDrain, Listed!TypeOK,
       Listed!MaybeListing
  <2>6. Listed!FlightsDrain'
    BY <1>0, <1>5, <2>1, ListConstants DEF Listed!Lands, Listed!cells, Listed!handles,
       Listed!history, Listed!Goes, Listed!FlightsDrain, Listed!TypeOK,
       Listed!MaybeListing
  <2>7. Listed!PassIsOneListing'
    BY <1>0, <1>5, <2>1, ListConstants DEF Listed!Lands, Listed!cells, Listed!handles,
       Listed!history, Listed!Goes, Listed!PassIsOneListing, Listed!TypeOK,
       Listed!MaybeListing
  <2>8. UpToDate'
    BY <1>0, <1>5, <2>1, ListConstants DEF Listed!Lands, Listed!cells, Listed!handles,
       Listed!history, Listed!Goes, UpToDate, Holding, Numbered, Flown,
       Listed!FlightsDrain, Listed!TypeOK, Listed!MaybeListing
  <2> QED BY <2>1, <2>2, <2>3, <2>4, <2>5, <2>6, <2>7, <2>8 DEF ListInv
<1>6. ASSUME Listed!Settles(h) PROVE ListInv'
  <2>1. Listed!TypeOK'
    BY <1>0, <1>6, ListConstants DEF Listed!Settles, Listed!cells, Listed!handles,
       Listed!history, Listed!Goes, Listed!LetsGo, Listed!Keeps, Listed!TypeOK,
       Listed!MaybeListing
  <2>2. Holding'
    BY <1>0, <1>6, <2>1, ListConstants DEF Listed!Settles, Listed!cells, Listed!handles,
       Listed!history, Listed!Goes, Listed!LetsGo, Listed!Keeps, Holding, Listed!TypeOK,
       Listed!MaybeListing
  <2>3. Flown'
    BY <1>0, <1>6, <2>1, ListConstants DEF Listed!Settles, Listed!cells, Listed!handles,
       Listed!history, Listed!Goes, Listed!LetsGo, Listed!Keeps, Flown, Holding,
       OneAtATime, Listed!TypeOK, Listed!MaybeListing
  <2>4. OneAtATime'
    BY <1>0, <1>6, <2>1, ListConstants DEF Listed!Settles, Listed!cells, Listed!handles,
       Listed!history, Listed!Goes, Listed!LetsGo, Listed!Keeps, OneAtATime, Holding,
       Flown, Listed!TypeOK, Listed!MaybeListing
  <2>5. Numbered'
    BY <1>0, <1>6, <2>1, ListConstants DEF Listed!Settles, Listed!cells, Listed!handles,
       Listed!history, Listed!Goes, Listed!LetsGo, Listed!Keeps, Numbered, Holding,
       Listed!FlightsDrain, Listed!TypeOK, Listed!MaybeListing
  <2>6. Listed!FlightsDrain'
    BY <1>0, <1>6, <2>1, ListConstants DEF Listed!Settles, Listed!cells, Listed!handles,
       Listed!history, Listed!Goes, Listed!LetsGo, Listed!Keeps, Listed!FlightsDrain,
       Listed!TypeOK, Listed!MaybeListing
  <2>7. Listed!PassIsOneListing'
    BY <1>0, <1>6, <2>1, ListConstants DEF Listed!Settles, Listed!cells, Listed!handles,
       Listed!history, Listed!Goes, Listed!LetsGo, Listed!Keeps, Listed!PassIsOneListing,
       Listed!TypeOK, Listed!MaybeListing
  <2>8. UpToDate'
    BY <1>0, <1>6, <2>1, ListConstants DEF Listed!Settles, Listed!cells, Listed!handles,
       Listed!history, Listed!Goes, Listed!LetsGo, Listed!Keeps, UpToDate, Holding,
       Numbered, Flown, Listed!FlightsDrain, Listed!TypeOK, Listed!MaybeListing
  <2> QED BY <2>1, <2>2, <2>3, <2>4, <2>5, <2>6, <2>7, <2>8 DEF ListInv
<1> QED BY <1>1, <1>2, <1>3, <1>4, <1>5, <1>6 DEF Listed!Readdir

\* What goes on beside: a pass goes on, a handle is released, the directory changes and the
\* cache is cleared.
LEMMA ListOther ==
    ASSUME Listed!ListingsAssumption, ListInv,
           (\E h \in Handles : Listed!Continues(h) \/ Listed!Releases(h))
             \/ Listed!Changes \/ Listed!Clears \/ Listed!Expires
    PROVE  ListInv'
<1>0. Listed!TypeOK /\ Holding /\ Flown /\ OneAtATime /\ Numbered /\ Listed!FlightsDrain
      /\ Listed!PassIsOneListing /\ UpToDate
  BY DEF ListInv
<1>1. ASSUME NEW h \in Handles, Listed!Continues(h) PROVE ListInv'
  <2>1. Listed!TypeOK'
    BY <1>0, <1>1, ListConstants DEF Listed!Continues, Listed!cells, Listed!handles,
       Listed!history, Listed!Goes, Listed!TypeOK, Listed!MaybeListing
  <2>2. Holding'
    BY <1>0, <1>1, <2>1, ListConstants DEF Listed!Continues, Listed!cells, Listed!handles,
       Listed!history, Listed!Goes, Holding, Listed!TypeOK, Listed!MaybeListing
  <2>3. Flown'
    BY <1>0, <1>1, <2>1, ListConstants DEF Listed!Continues, Listed!cells, Listed!handles,
       Listed!history, Listed!Goes, Flown, Holding, OneAtATime, Listed!TypeOK,
       Listed!MaybeListing
  <2>4. OneAtATime'
    BY <1>0, <1>1, <2>1, ListConstants DEF Listed!Continues, Listed!cells, Listed!handles,
       Listed!history, Listed!Goes, OneAtATime, Holding, Flown, Listed!TypeOK,
       Listed!MaybeListing
  <2>5. Numbered'
    BY <1>0, <1>1, <2>1, ListConstants DEF Listed!Continues, Listed!cells, Listed!handles,
       Listed!history, Listed!Goes, Numbered, Holding, Listed!FlightsDrain, Listed!TypeOK,
       Listed!MaybeListing
  <2>6. Listed!FlightsDrain'
    BY <1>0, <1>1, <2>1, ListConstants DEF Listed!Continues, Listed!cells, Listed!handles,
       Listed!history, Listed!Goes, Listed!FlightsDrain, Listed!TypeOK,
       Listed!MaybeListing
  <2>7. Listed!PassIsOneListing'
    BY <1>0, <1>1, <2>1, ListConstants DEF Listed!Continues, Listed!cells, Listed!handles,
       Listed!history, Listed!Goes, Listed!PassIsOneListing, Listed!TypeOK,
       Listed!MaybeListing
  <2>8. UpToDate'
    BY <1>0, <1>1, <2>1, ListConstants DEF Listed!Continues, Listed!cells, Listed!handles,
       Listed!history, Listed!Goes, UpToDate, Holding, Numbered, Flown,
       Listed!FlightsDrain, Listed!TypeOK, Listed!MaybeListing
  <2> QED BY <2>1, <2>2, <2>3, <2>4, <2>5, <2>6, <2>7, <2>8 DEF ListInv
<1>2. ASSUME NEW h \in Handles, Listed!Releases(h) PROVE ListInv'
  <2>1. Listed!TypeOK'
    BY <1>0, <1>2, ListConstants DEF Listed!Releases, Listed!cells, Listed!handles,
       Listed!history, Listed!Goes, Listed!TypeOK, Listed!MaybeListing
  <2>2. Holding'
    BY <1>0, <1>2, <2>1, ListConstants DEF Listed!Releases, Listed!cells, Listed!handles,
       Listed!history, Listed!Goes, Holding, Listed!TypeOK, Listed!MaybeListing
  <2>3. Flown'
    BY <1>0, <1>2, <2>1, ListConstants DEF Listed!Releases, Listed!cells, Listed!handles,
       Listed!history, Listed!Goes, Flown, Holding, OneAtATime, Listed!TypeOK,
       Listed!MaybeListing
  <2>4. OneAtATime'
    BY <1>0, <1>2, <2>1, ListConstants DEF Listed!Releases, Listed!cells, Listed!handles,
       Listed!history, Listed!Goes, OneAtATime, Holding, Flown, Listed!TypeOK,
       Listed!MaybeListing
  <2>5. Numbered'
    BY <1>0, <1>2, <2>1, ListConstants DEF Listed!Releases, Listed!cells, Listed!handles,
       Listed!history, Listed!Goes, Numbered, Holding, Listed!FlightsDrain, Listed!TypeOK,
       Listed!MaybeListing
  <2>6. Listed!FlightsDrain'
    BY <1>0, <1>2, <2>1, ListConstants DEF Listed!Releases, Listed!cells, Listed!handles,
       Listed!history, Listed!Goes, Listed!FlightsDrain, Listed!TypeOK,
       Listed!MaybeListing
  <2>7. Listed!PassIsOneListing'
    BY <1>0, <1>2, <2>1, ListConstants DEF Listed!Releases, Listed!cells, Listed!handles,
       Listed!history, Listed!Goes, Listed!PassIsOneListing, Listed!TypeOK,
       Listed!MaybeListing
  <2>8. UpToDate'
    BY <1>0, <1>2, <2>1, ListConstants DEF Listed!Releases, Listed!cells, Listed!handles,
       Listed!history, Listed!Goes, UpToDate, Holding, Numbered, Flown,
       Listed!FlightsDrain, Listed!TypeOK, Listed!MaybeListing
  <2> QED BY <2>1, <2>2, <2>3, <2>4, <2>5, <2>6, <2>7, <2>8 DEF ListInv
<1>3. ASSUME Listed!Changes PROVE ListInv'
  <2>a. world' \in Listed!Listing
    BY <1>0, <1>3, ListConstants DEF Listed!Changes, Listed!TypeOK, Listed!Listing
  <2>1. Listed!TypeOK'
    BY <1>0, <1>3, <2>a, ListConstants DEF Listed!Changes, Listed!cells, Listed!handles,
       Listed!history, Listed!Goes, Listed!TypeOK, Listed!MaybeListing
  <2>2. Holding'
    BY <1>0, <1>3, <2>a, <2>1, ListConstants DEF Listed!Changes, Listed!cells,
       Listed!handles, Listed!history, Listed!Goes, Holding, Listed!TypeOK,
       Listed!MaybeListing
  <2>3. Flown'
    BY <1>0, <1>3, <2>a, <2>1, ListConstants DEF Listed!Changes, Listed!cells,
       Listed!handles, Listed!history, Listed!Goes, Flown, Holding, OneAtATime,
       Listed!TypeOK, Listed!MaybeListing
  <2>4. OneAtATime'
    BY <1>0, <1>3, <2>a, <2>1, ListConstants DEF Listed!Changes, Listed!cells,
       Listed!handles, Listed!history, Listed!Goes, OneAtATime, Holding, Flown,
       Listed!TypeOK, Listed!MaybeListing
  <2>5. Numbered'
    BY <1>0, <1>3, <2>a, <2>1, ListConstants DEF Listed!Changes, Listed!cells,
       Listed!handles, Listed!history, Listed!Goes, Numbered, Holding,
       Listed!FlightsDrain, Listed!TypeOK, Listed!MaybeListing
  <2>6. Listed!FlightsDrain'
    BY <1>0, <1>3, <2>a, <2>1, ListConstants DEF Listed!Changes, Listed!cells,
       Listed!handles, Listed!history, Listed!Goes, Listed!FlightsDrain, Listed!TypeOK,
       Listed!MaybeListing
  <2>7. Listed!PassIsOneListing'
    BY <1>0, <1>3, <2>a, <2>1, ListConstants DEF Listed!Changes, Listed!cells,
       Listed!handles, Listed!history, Listed!Goes, Listed!PassIsOneListing,
       Listed!TypeOK, Listed!MaybeListing
  <2>8. UpToDate'
    BY <1>0, <1>3, <2>a, <2>1, ListConstants DEF Listed!Changes, Listed!cells,
       Listed!handles, Listed!history, Listed!Goes, UpToDate, Holding, Numbered, Flown,
       Listed!FlightsDrain, Listed!TypeOK, Listed!MaybeListing
  <2> QED BY <2>1, <2>2, <2>3, <2>4, <2>5, <2>6, <2>7, <2>8 DEF ListInv
<1>4. ASSUME Listed!Clears PROVE ListInv'
  <2>a. ~straddled' => ~straddled /\ \A d \in Handles : req'[d] = "none" /\ hold'[d] = Listed!None
    BY <1>0, <1>4, Zenon DEF Listed!Clears, Listed!cells, Listed!handles, Holding
  <2>1. Listed!TypeOK'
    BY <1>0, <1>4, <2>a, ListConstants DEF Listed!Clears, Listed!cells, Listed!handles,
       Listed!history, Listed!Goes, Listed!TypeOK, Listed!MaybeListing
  <2>2. Holding'
    BY <1>0, <1>4, <2>a, <2>1, ListConstants DEF Listed!Clears, Listed!cells,
       Listed!handles, Listed!history, Listed!Goes, Holding, Listed!TypeOK,
       Listed!MaybeListing
  <2>3. Flown'
    BY <1>0, <1>4, <2>a, <2>1, ListConstants DEF Listed!Clears, Listed!cells,
       Listed!handles, Listed!history, Listed!Goes, Flown, Holding, OneAtATime,
       Listed!TypeOK, Listed!MaybeListing
  <2>4. OneAtATime'
    BY <1>0, <1>4, <2>a, <2>1, ListConstants DEF Listed!Clears, Listed!cells,
       Listed!handles, Listed!history, Listed!Goes, OneAtATime, Holding, Flown,
       Listed!TypeOK, Listed!MaybeListing
  <2>5. Numbered'
    BY <1>0, <1>4, <2>a, <2>1, ListConstants DEF Listed!Clears, Listed!cells,
       Listed!handles, Listed!history, Listed!Goes, Numbered, Holding,
       Listed!FlightsDrain, Listed!TypeOK, Listed!MaybeListing
  <2>6. Listed!FlightsDrain'
    BY <1>0, <1>4, <2>a, <2>1, ListConstants DEF Listed!Clears, Listed!cells,
       Listed!handles, Listed!history, Listed!Goes, Listed!FlightsDrain, Listed!TypeOK,
       Listed!MaybeListing
  <2>7. Listed!PassIsOneListing'
    BY <1>0, <1>4, <2>a, <2>1, ListConstants DEF Listed!Clears, Listed!cells,
       Listed!handles, Listed!history, Listed!Goes, Listed!PassIsOneListing,
       Listed!TypeOK, Listed!MaybeListing
  <2>8. UpToDate'
    BY <1>0, <1>4, <2>a, <2>1, ListConstants DEF Listed!Clears, Listed!cells,
       Listed!handles, Listed!history, Listed!Goes, UpToDate, Holding, Numbered, Flown,
       Listed!FlightsDrain, Listed!TypeOK, Listed!MaybeListing
  <2> QED BY <2>1, <2>2, <2>3, <2>4, <2>5, <2>6, <2>7, <2>8 DEF ListInv
<1>5. ASSUME Listed!Expires PROVE ListInv'
  <2>1. Listed!TypeOK'
    BY <1>0, <1>5, ListConstants DEF Listed!Expires, Listed!cells, Listed!handles,
       Listed!history, Listed!Goes, Listed!TypeOK, Listed!MaybeListing
  <2>2. Holding'
    BY <1>0, <1>5, <2>1, ListConstants DEF Listed!Expires, Listed!cells, Listed!handles,
       Listed!history, Listed!Goes, Holding, Listed!TypeOK, Listed!MaybeListing
  <2>3. Flown'
    BY <1>0, <1>5, <2>1, ListConstants DEF Listed!Expires, Listed!cells, Listed!handles,
       Listed!history, Listed!Goes, Flown, Holding, OneAtATime, Listed!TypeOK,
       Listed!MaybeListing
  <2>4. OneAtATime'
    BY <1>0, <1>5, <2>1, ListConstants DEF Listed!Expires, Listed!cells, Listed!handles,
       Listed!history, Listed!Goes, OneAtATime, Holding, Flown, Listed!TypeOK,
       Listed!MaybeListing
  <2>5. Numbered'
    BY <1>0, <1>5, <2>1, ListConstants DEF Listed!Expires, Listed!cells, Listed!handles,
       Listed!history, Listed!Goes, Numbered, Holding, Listed!FlightsDrain, Listed!TypeOK,
       Listed!MaybeListing
  <2>6. Listed!FlightsDrain'
    BY <1>0, <1>5, <2>1, ListConstants DEF Listed!Expires, Listed!cells, Listed!handles,
       Listed!history, Listed!Goes, Listed!FlightsDrain, Listed!TypeOK,
       Listed!MaybeListing
  <2>7. Listed!PassIsOneListing'
    BY <1>0, <1>5, <2>1, ListConstants DEF Listed!Expires, Listed!cells, Listed!handles,
       Listed!history, Listed!Goes, Listed!PassIsOneListing, Listed!TypeOK,
       Listed!MaybeListing
  <2>8. UpToDate'
    BY <1>0, <1>5, <2>1, ListConstants DEF Listed!Expires, Listed!cells, Listed!handles,
       Listed!history, Listed!Goes, UpToDate, Holding, Numbered, Flown,
       Listed!FlightsDrain, Listed!TypeOK, Listed!MaybeListing
  <2> QED BY <2>1, <2>2, <2>3, <2>4, <2>5, <2>6, <2>7, <2>8 DEF ListInv
<1> QED BY <1>1, <1>2, <1>3, <1>4, <1>5

\* Every action keeps the invariant.
LEMMA ListStep ==
    ASSUME Listed!ListingsAssumption, ListInv, [Listed!Next]_(Listed!vars) PROVE ListInv'
<1>1. CASE UNCHANGED Listed!vars
  <2>1. /\ UNCHANGED <<world, cached, flight, cell, hold, open, snap, req, rewinds, got, served>>
        /\ UNCHANGED <<change, acked, since, straddled, pass, fetches>>
    BY <1>1 DEF Listed!vars, Listed!cells, Listed!handles, Listed!history
  <2>2. Listed!TypeOK'
    BY <2>1 DEF ListInv, Listed!TypeOK
  <2>3. Holding' /\ Flown' /\ OneAtATime' /\ Numbered'
    BY <2>1 DEF ListInv, Holding, Flown, OneAtATime, Numbered
  <2>4. Listed!FlightsDrain' /\ Listed!PassIsOneListing' /\ UpToDate'
    BY <2>1 DEF ListInv, Listed!FlightsDrain, Listed!PassIsOneListing, UpToDate
  <2> QED BY <2>2, <2>3, <2>4 DEF ListInv
<1> QED BY <1>1, ListReads, ListOther DEF Listed!Next

\* The invariant has what the run checks: readers of a directory share one fetch.
LEMMA ListHolds == ASSUME Listed!ListingsAssumption, ListInv
                   PROVE  Listed!OneFetch /\ Listed!StaleByOverlap
<1>1. Listed!OneFetch
  <2>0. \A S : Listed!Cardinality(S) = Cardinality(S)
    BY Zenon DEF Listed!Cardinality, Cardinality
  <2> DEFINE F == {h \in Handles : req[h] \in {"fetching", "listed"}}
  <2>1. CASE F = {}
    BY <2>0, <2>1, FS_EmptySet DEF Listed!OneFetch
  <2>2. CASE F # {}
    <3>1. PICK h \in F : TRUE
      BY <2>2
    <3>2. F = {h}
      BY <3>1 DEF ListInv, OneAtATime
    <3>3. Cardinality(F) = 1
      BY <3>2, FS_Singleton
    <3> QED BY <2>0, <3>3 DEF Listed!OneFetch
  <2> QED BY <2>1, <2>2
<1>2. Listed!StaleByOverlap
  BY ListConstants DEF ListInv, UpToDate, Listed!StaleByOverlap, Listed!TypeOK,
     Listed!MaybeListing
<1> QED BY <1>1, <1>2

-----------------------------------------------------------------------------
(* Logging in again. *)

\* The sessions the NAS has dropped.
LostIds == (1 .. issued) \ live

\* What was sent carries an id the NAS gave out, or none; the client's own is the latest
\* until it logs out.
LoginTypes ==
    /\ Logins!TypeOK
    /\ sent \in [ClientCalls -> [sid : Nat, mode : Logins!Modes]]
    /\ out # "done" => sid = issued
    /\ issued >= 1

\* A call was sent as often as its place says.
TriesCounted ==
    \A c \in ClientCalls :
        /\ call[c] = "new" => ran[c] = 0
        /\ call[c] \in {"login", "probing", "again"} => ran[c] = 1
        /\ call[c] = "asked" => ran[c] \in {1, 2}

\* A session that is probed lives, unless a logout dropped it.
ProbedLives ==
    out = "no" => /\ \A c \in ClientCalls : call[c] = "probing" => sent[c].sid \in live
                  /\ mode = "query" => ~cookies

\* Sessions are lost to expiries only: none, one, or more.
LostByExpiry ==
    out = "no" => /\ expired = 0 => LostIds = {}
                  /\ \A s, t \in LostIds : s # t => expired >= 2

\* A call that logs in again has met a dead session, and the id it goes on with is younger.
MetADeadOne ==
    (cookies /\ out = "no") =>
        \A c \in ClientCalls :
            /\ call[c] = "login" => sent[c].sid \in LostIds
            /\ call[c] \in {"probing", "again"} => \E s \in LostIds : s < sid
            /\ call[c] = "asked" => sent[c].sid \in 1 .. issued
            /\ call[c] = "asked" /\ ran[c] = 2 => \E s \in LostIds : s < sent[c].sid

LoginInv ==
    /\ LoginTypes /\ TriesCounted /\ ProbedLives /\ LostByExpiry /\ MetADeadOne
    /\ Logins!TwiceRefused

\* At the start the client is logged in and nothing was sent.
LEMMA LoginInit == ASSUME Logins!LoginAssumption, Logins!Init PROVE LoginInv
<1>1. LoginTypes
  BY DEF Logins!LoginAssumption, Logins!Init, LoginTypes, Logins!TypeOK, Logins!Modes,
     Logins!NoSid
<1>2. TriesCounted /\ ProbedLives /\ Logins!TwiceRefused
  BY DEF Logins!Init, TriesCounted, ProbedLives, Logins!TwiceRefused
<1>3. LostIds = {}
  BY DEF Logins!Init, LostIds
<1>4. LostByExpiry /\ MetADeadOne
  BY <1>3 DEF Logins!Init, LostByExpiry, MetADeadOne
<1> QED BY <1>1, <1>2, <1>4 DEF LoginInv

\* A call's own steps: a login gives out a younger id, and a refusal under it is of that.
LEMMA LoginCalls ==
    ASSUME Logins!LoginAssumption, LoginInv, NEW c \in ClientCalls, Logins!Step(c) PROVE LoginInv'
<1>0. LoginTypes /\ TriesCounted /\ ProbedLives /\ LostByExpiry /\ MetADeadOne /\ Logins!TwiceRefused
  BY DEF LoginInv
<1>1. ASSUME Logins!Sends(c) PROVE LoginInv'
  <2>1. LoginTypes'
    BY <1>0, <1>1 DEF Logins!Sends, Logins!At, Logins!Ends, Logins!Known, LoginTypes,
       Logins!TypeOK, Logins!Modes, TriesCounted, Logins!LoginAssumption
  <2>2. TriesCounted'
    BY <1>0, <1>1, <2>1 DEF Logins!Sends, Logins!At, Logins!Ends, Logins!Known,
       TriesCounted, LoginTypes, Logins!TypeOK, Logins!Modes
  <2>3. ProbedLives'
    BY <1>0, <1>1, <2>1 DEF Logins!Sends, Logins!At, Logins!Ends, Logins!Known,
       ProbedLives, LoginTypes, Logins!TypeOK, Logins!Modes
  <2>4. LostByExpiry'
    BY <1>0, <1>1, <2>1 DEF Logins!Sends, Logins!At, Logins!Ends, Logins!Known,
       LostByExpiry, LostIds, LoginTypes, Logins!TypeOK, Logins!Modes
  <2>5. MetADeadOne'
    BY <1>0, <1>1, <2>1 DEF Logins!Sends, Logins!At, Logins!Ends, Logins!Known,
       MetADeadOne, LostIds, TriesCounted, ProbedLives, LoginTypes, Logins!TypeOK,
       Logins!Modes
  <2>6. Logins!TwiceRefused'
    BY <1>0, <1>1, <2>1 DEF Logins!Sends, Logins!At, Logins!Ends, Logins!Known,
       Logins!TwiceRefused, LostIds, MetADeadOne, LostByExpiry, ProbedLives, TriesCounted,
       LoginTypes, Logins!TypeOK, Logins!Modes
  <2> QED BY <2>1, <2>2, <2>3, <2>4, <2>5, <2>6 DEF LoginInv
<1>2. ASSUME Logins!IsAnswered(c) PROVE LoginInv'
  <2>1. LoginTypes'
    BY <1>0, <1>2 DEF Logins!IsAnswered, Logins!At, Logins!Ends, Logins!Known, LoginTypes,
       Logins!TypeOK, Logins!Modes, TriesCounted, Logins!LoginAssumption
  <2>2. TriesCounted'
    BY <1>0, <1>2, <2>1 DEF Logins!IsAnswered, Logins!At, Logins!Ends, Logins!Known,
       TriesCounted, LoginTypes, Logins!TypeOK, Logins!Modes
  <2>3. ProbedLives'
    BY <1>0, <1>2, <2>1 DEF Logins!IsAnswered, Logins!At, Logins!Ends, Logins!Known,
       ProbedLives, LoginTypes, Logins!TypeOK, Logins!Modes
  <2>4. LostByExpiry'
    BY <1>0, <1>2, <2>1 DEF Logins!IsAnswered, Logins!At, Logins!Ends, Logins!Known,
       LostByExpiry, LostIds, LoginTypes, Logins!TypeOK, Logins!Modes
  <2>5. MetADeadOne'
    BY <1>0, <1>2, <2>1 DEF Logins!IsAnswered, Logins!At, Logins!Ends, Logins!Known,
       MetADeadOne, LostIds, TriesCounted, ProbedLives, LoginTypes, Logins!TypeOK,
       Logins!Modes
  <2>6. Logins!TwiceRefused'
    BY <1>0, <1>2, <2>1 DEF Logins!IsAnswered, Logins!At, Logins!Ends, Logins!Known,
       Logins!TwiceRefused, LostIds, MetADeadOne, LostByExpiry, ProbedLives, TriesCounted,
       LoginTypes, Logins!TypeOK, Logins!Modes
  <2> QED BY <2>1, <2>2, <2>3, <2>4, <2>5, <2>6 DEF LoginInv
<1>3. ASSUME Logins!LogsIn(c) PROVE LoginInv'
  <2>a. ASSUME UNCHANGED <<issued, live, sid, mode, sent>>
        PROVE  LoginTypes' /\ LostByExpiry' /\ LostIds' = LostIds
    <3>1. LoginTypes'
      BY <1>0, <1>3, <2>a DEF Logins!LogsIn, Logins!At, Logins!Ends, LoginTypes,
         Logins!TypeOK
    <3>2. LostIds' = LostIds
      BY <2>a DEF LostIds
    <3>3. LostByExpiry'
      BY <1>0, <1>3, <3>2 DEF Logins!LogsIn, LostByExpiry
    <3> QED BY <3>1, <3>2, <3>3
  <2>b. ASSUME /\ issued' = issued + 1 /\ live' = live \cup {issued + 1}
               /\ sid' = issued + 1 /\ mode' = "cookie"
               /\ sent' = [sent EXCEPT ![c] = [sid |-> issued + 1, mode |-> "cookie"]]
               /\ Logins!At(c, "probing") /\ UNCHANGED result
        PROVE  LoginTypes' /\ LostByExpiry' /\ LostIds' = LostIds
    <3>1. issued \in Nat /\ issued + 1 \in Nat
      BY <1>0 DEF LoginTypes, Logins!TypeOK
    <3>2. live' \subseteq 1 .. issued' /\ sid' \in 0 .. issued'
      <4>1. \A n \in live : n \in 1 .. issued
        BY <1>0 DEF LoginTypes, Logins!TypeOK
      <4>2. \A n \in live \cup {issued + 1} : n \in 1 .. issued + 1
        BY <3>1, <4>1
      <4> QED BY <2>b, <3>1, <4>2
    <3>3. /\ sent' \in [ClientCalls -> [sid : Nat, mode : Logins!Modes]]
          /\ \A d \in ClientCalls : sent'[d].sid \in 0 .. issued' /\ sent'[d].mode \in Logins!Modes
      BY <1>0, <2>b, <3>1 DEF LoginTypes, Logins!TypeOK, Logins!Modes
    <3>4. LoginTypes'
      BY <1>0, <1>3, <2>b, <3>1, <3>2, <3>3 DEF Logins!LogsIn, Logins!At, LoginTypes,
         Logins!TypeOK, Logins!Modes
    <3>5. LostIds' = LostIds
      <4>1. \A n : n \in 1 .. issued + 1 /\ n \notin live \cup {issued + 1} <=> n \in 1 .. issued /\ n \notin live
        BY <3>1
      <4> QED BY <2>b, <4>1 DEF LostIds
    <3>6. LostByExpiry'
      BY <1>0, <1>3, <3>5 DEF Logins!LogsIn, LostByExpiry
    <3> QED BY <3>4, <3>5, <3>6
  <2>1. LoginTypes' /\ LostByExpiry' /\ LostIds' = LostIds
    BY <1>3, <2>a, <2>b DEF Logins!LogsIn
  <2>2. TriesCounted'
    BY <1>0, <1>3, <2>1 DEF Logins!LogsIn, Logins!At, Logins!Ends, Logins!Known,
       TriesCounted, LoginTypes, Logins!TypeOK, Logins!Modes
  <2>3. ProbedLives'
    BY <1>0, <1>3, <2>1 DEF Logins!LogsIn, Logins!At, Logins!Ends, Logins!Known,
       ProbedLives, LoginTypes, Logins!TypeOK, Logins!Modes
  <2>4. LostByExpiry'
    BY <2>1
  <2>5. MetADeadOne'
    <3>1. SUFFICES ASSUME cookies, out = "no", NEW d \in ClientCalls, call' = [call EXCEPT ![c] = "probing"] \/ call' = [call EXCEPT ![c] = "done"]
                   PROVE  /\ call'[d] = "login" => sent'[d].sid \in LostIds
                          /\ call'[d] \in {"probing", "again"} => \E n \in LostIds : n < sid'
                          /\ call'[d] = "asked" => sent'[d].sid \in 1 .. issued'
                          /\ call'[d] = "asked" /\ ran'[d] = 2 => \E n \in LostIds : n < sent'[d].sid
      BY <1>3, <2>1, Zenon DEF MetADeadOne, Logins!LogsIn, Logins!At, Logins!Ends
    <3>2. sid = issued /\ issued \in Nat /\ sid <= sid' /\ issued <= issued'
      BY <1>0, <1>3, <3>1 DEF Logins!LogsIn, LoginTypes, Logins!TypeOK
    <3>3. call'[c] = "probing" => sid' = issued + 1 /\ sent[c].sid \in LostIds /\ sent[c].sid <= issued
      BY <1>0, <1>3, <3>1 DEF Logins!LogsIn, Logins!Ends, Logins!At, MetADeadOne,
         LoginTypes, Logins!TypeOK
    <3>4. \A n \in LostIds : n \in Nat
      BY <3>2 DEF LostIds
    <3>5. CASE d = c
      BY <1>0, <1>3, <3>1, <3>2, <3>3, <3>4, <3>5 DEF LoginTypes, Logins!TypeOK
    <3>6. CASE d # c
      BY <1>0, <1>3, <3>1, <3>2, <3>4, <3>6 DEF Logins!LogsIn, MetADeadOne, LoginTypes,
         Logins!TypeOK
    <3> QED BY <3>5, <3>6
  <2>6. Logins!TwiceRefused'
    BY <1>0, <1>3, <2>1 DEF Logins!LogsIn, Logins!At, Logins!Ends, Logins!Known,
       Logins!TwiceRefused, LostIds, MetADeadOne, LostByExpiry, ProbedLives, TriesCounted,
       LoginTypes, Logins!TypeOK, Logins!Modes
  <2> QED BY <2>1, <2>2, <2>3, <2>4, <2>5, <2>6 DEF LoginInv
<1>4. ASSUME Logins!IsProbed(c) PROVE LoginInv'
  <2>1. LoginTypes'
    BY <1>0, <1>4 DEF Logins!IsProbed, Logins!At, Logins!Ends, Logins!Known, LoginTypes,
       Logins!TypeOK, Logins!Modes, TriesCounted, Logins!LoginAssumption
  <2>2. TriesCounted'
    BY <1>0, <1>4, <2>1 DEF Logins!IsProbed, Logins!At, Logins!Ends, Logins!Known,
       TriesCounted, LoginTypes, Logins!TypeOK, Logins!Modes
  <2>3. ProbedLives'
    BY <1>0, <1>4, <2>1 DEF Logins!IsProbed, Logins!At, Logins!Ends, Logins!Known,
       ProbedLives, LoginTypes, Logins!TypeOK, Logins!Modes
  <2>4. LostByExpiry'
    BY <1>0, <1>4, <2>1 DEF Logins!IsProbed, Logins!At, Logins!Ends, Logins!Known,
       LostByExpiry, LostIds, LoginTypes, Logins!TypeOK, Logins!Modes
  <2>5. MetADeadOne'
    BY <1>0, <1>4, <2>1 DEF Logins!IsProbed, Logins!At, Logins!Ends, Logins!Known,
       MetADeadOne, LostIds, TriesCounted, ProbedLives, LoginTypes, Logins!TypeOK,
       Logins!Modes
  <2>6. Logins!TwiceRefused'
    BY <1>0, <1>4, <2>1 DEF Logins!IsProbed, Logins!At, Logins!Ends, Logins!Known,
       Logins!TwiceRefused, LostIds, MetADeadOne, LostByExpiry, ProbedLives, TriesCounted,
       LoginTypes, Logins!TypeOK, Logins!Modes
  <2> QED BY <2>1, <2>2, <2>3, <2>4, <2>5, <2>6 DEF LoginInv
<1> QED BY <1>1, <1>2, <1>3, <1>4 DEF Logins!Step

\* The NAS drops a session, and the client logs out.
LEMMA LoginOther ==
    ASSUME Logins!LoginAssumption, LoginInv, Logins!Expires \/ Logins!Logout PROVE LoginInv'
<1>0. LoginTypes /\ TriesCounted /\ ProbedLives /\ LostByExpiry /\ MetADeadOne /\ Logins!TwiceRefused
  BY DEF LoginInv
<1>1. ASSUME Logins!Expires PROVE LoginInv'
  <2>1. LoginTypes'
    BY <1>0, <1>1 DEF Logins!Expires, Logins!At, Logins!Ends, Logins!Known, LoginTypes,
       Logins!TypeOK, Logins!Modes, TriesCounted, Logins!LoginAssumption
  <2>2. TriesCounted'
    BY <1>0, <1>1, <2>1 DEF Logins!Expires, Logins!At, Logins!Ends, Logins!Known,
       TriesCounted, LoginTypes, Logins!TypeOK, Logins!Modes
  <2>3. ProbedLives'
    BY <1>0, <1>1, <2>1 DEF Logins!Expires, Logins!At, Logins!Ends, Logins!Known,
       ProbedLives, LoginTypes, Logins!TypeOK, Logins!Modes
  <2>4. LostByExpiry'
    BY <1>0, <1>1, <2>1 DEF Logins!Expires, Logins!At, Logins!Ends, Logins!Known,
       LostByExpiry, LostIds, LoginTypes, Logins!TypeOK, Logins!Modes
  <2>5. MetADeadOne'
    BY <1>0, <1>1, <2>1 DEF Logins!Expires, Logins!At, Logins!Ends, Logins!Known,
       MetADeadOne, LostIds, TriesCounted, ProbedLives, LoginTypes, Logins!TypeOK,
       Logins!Modes
  <2>6. Logins!TwiceRefused'
    BY <1>0, <1>1, <2>1 DEF Logins!Expires, Logins!At, Logins!Ends, Logins!Known,
       Logins!TwiceRefused, LostIds, MetADeadOne, LostByExpiry, ProbedLives, TriesCounted,
       LoginTypes, Logins!TypeOK, Logins!Modes
  <2> QED BY <2>1, <2>2, <2>3, <2>4, <2>5, <2>6 DEF LoginInv
<1>2. ASSUME Logins!Logout PROVE LoginInv'
  <2>a. sid' \in 0 .. issued /\ live' \subseteq live /\ (out' # "done" => sid' = issued)
    BY <1>0, <1>2 DEF Logins!Logout, Logins!NoSid, LoginTypes, Logins!TypeOK
  <2>1. LoginTypes'
    BY <1>0, <1>2, <2>a DEF Logins!Logout, Logins!NoSid, Logins!At, Logins!Ends,
       Logins!Known, LoginTypes, Logins!TypeOK, Logins!Modes, TriesCounted,
       Logins!LoginAssumption
  <2>2. TriesCounted'
    BY <1>0, <1>2, <2>1 DEF Logins!Logout, Logins!NoSid, Logins!At, Logins!Ends,
       Logins!Known, TriesCounted, LoginTypes, Logins!TypeOK, Logins!Modes
  <2>3. ProbedLives'
    BY <1>0, <1>2, <2>1 DEF Logins!Logout, Logins!NoSid, Logins!At, Logins!Ends,
       Logins!Known, ProbedLives, LoginTypes, Logins!TypeOK, Logins!Modes
  <2>4. LostByExpiry'
    BY <1>0, <1>2, <2>1 DEF Logins!Logout, Logins!NoSid, Logins!At, Logins!Ends,
       Logins!Known, LostByExpiry, LostIds, LoginTypes, Logins!TypeOK, Logins!Modes
  <2>5. MetADeadOne'
    BY <1>0, <1>2, <2>1 DEF Logins!Logout, Logins!NoSid, Logins!At, Logins!Ends,
       Logins!Known, MetADeadOne, LostIds, TriesCounted, ProbedLives, LoginTypes,
       Logins!TypeOK, Logins!Modes
  <2>6. Logins!TwiceRefused'
    BY <1>0, <1>2, <2>1 DEF Logins!Logout, Logins!NoSid, Logins!At, Logins!Ends,
       Logins!Known, Logins!TwiceRefused, LostIds, MetADeadOne, LostByExpiry, ProbedLives,
       TriesCounted, LoginTypes, Logins!TypeOK, Logins!Modes
  <2> QED BY <2>1, <2>2, <2>3, <2>4, <2>5, <2>6 DEF LoginInv
<1> QED BY <1>1, <1>2

\* Every action keeps the invariant.
LEMMA LoginStep ==
    ASSUME Logins!LoginAssumption, LoginInv, [Logins!Next]_(Logins!vars) PROVE LoginInv'
<1>1. CASE UNCHANGED Logins!vars
  BY <1>1 DEF Logins!vars, LoginInv, LoginTypes, Logins!TypeOK, TriesCounted, ProbedLives,
     LostByExpiry,
              MetADeadOne, LostIds, Logins!TwiceRefused
<1> QED BY <1>1, LoginCalls, LoginOther DEF Logins!Next

-----------------------------------------------------------------------------
(* The request throttle: who holds a slot, and the belt. *)

\* The waiters of the semaphore, each once; a call waits only while it has a try left.
InLine ==
    /\ queue \in Seq(Requesters)
    /\ \A i, k \in 1 .. Len(queue) : queue[i] = queue[k] => i = k
    /\ \A c \in Requesters :
         /\ step[c] = "idle" => attempt[c] = 0
         /\ step[c] \in {"belt", "queue", "backing"} => attempt[c] < MaxAttempts
         /\ step[c] = "sending" => attempt[c] >= 1

\* The openings of the belt later than t are reserved by calls that still wait for them,
\* or have been dropped.
Reserved(t) == {c \in Requesters : step[c] = "dropped" \/ (step[c] = "belt" /\ left[c] > t)}

\* The belt's next opening is no further off than those can account for.
BeltAccounted ==
    \A t \in Nat : next <= t + Interval * (1 + Cardinality(Reserved(t)))

SlotInv ==
    /\ Slots!TypeOK /\ InLine /\ Slots!SlotsAreRequests /\ Slots!BeltSpaced
    /\ BeltAccounted

\* What the assumption says, constant by constant; the operators the module takes from the
\* library are the library's.
LEMMA SlotConstants ==
    ASSUME Slots!ThrottleAssumption
    PROVE  /\ MaxConcurrency \in Nat \ {0} /\ MaxAttempts \in Nat \ {0} /\ Interval \in Nat
           /\ BackoffBase \in Nat /\ BackoffMax \in Nat /\ IsFiniteSet(Requesters)
           /\ \A S : Slots!Cardinality(S) = Cardinality(S)
           /\ Cardinality(Requesters) \in Nat
           /\ Slots!Longest \in Nat /\ BackoffMax <= Slots!Longest
           /\ Interval * Cardinality(Requesters) <= Slots!Longest
<1>1. IsFiniteSet(Requesters)
  BY DEF Slots!ThrottleAssumption, Slots!IsFiniteSet, IsFiniteSet
<1>2. \A S : Slots!Cardinality(S) = Cardinality(S)
  BY Zenon DEF Slots!Cardinality, Cardinality
<1>3. Cardinality(Requesters) \in Nat
  BY <1>1, FS_CardinalityType
<1> DEFINE n == Cardinality(Requesters)
<1>4. Slots!Longest = IF BackoffMax > n * Interval THEN BackoffMax ELSE n * Interval
  BY <1>2 DEF Slots!Longest
<1> HIDE DEF n
<1>5. n * Interval \in Nat /\ n * Interval = Interval * n /\ BackoffMax \in Nat
  BY <1>3 DEF Slots!ThrottleAssumption, n
<1>6. Slots!Longest \in Nat /\ BackoffMax <= Slots!Longest /\ Interval * n <= Slots!Longest
  BY <1>4, <1>5
<1> QED BY <1>1, <1>2, <1>3, <1>6 DEF Slots!ThrottleAssumption, n

\* A back-off's cap is a number, however many tries came before, and below the ceiling.
LEMMA SlotCap ==
    ASSUME Slots!ThrottleAssumption, NEW n \in Nat, NEW hard \in BOOLEAN
    PROVE  Slots!Cap(n, hard) \in 0 .. BackoffMax
<1>1. 2 ^ n \in Nat
  <2>1. IsFiniteSet(1 .. n) /\ Cardinality(1 .. n) = n
    BY FS_Interval
  <2>2. IsFiniteSet(SUBSET (1 .. n)) /\ Cardinality(SUBSET (1 .. n)) = 2 ^ n
    BY <2>1, FS_SUBSET
  <2> QED BY <2>2, FS_CardinalityType
<1> DEFINE base == IF hard THEN 2 * BackoffBase ELSE BackoffBase
           p == 2 ^ n
<1>2. base \in Nat /\ BackoffMax \in Nat
  BY SlotConstants
<1>3. Slots!Cap(n, hard) = IF base * p < BackoffMax THEN base * p ELSE BackoffMax
  BY DEF Slots!Cap
<1>4. p \in Nat
  BY <1>1
<1> HIDE DEF base, p
<1>5. base * p \in Nat
  BY <1>2, <1>4
<1> QED BY <1>2, <1>3, <1>5

\* More that is reserved accounts for more.
LEMMA SlotMore ==
    ASSUME Slots!ThrottleAssumption, NEW m \in Nat, NEW n \in Nat, m <= n
    PROVE  Interval * (1 + m) <= Interval * (1 + n) /\ Interval * (1 + m) \in Nat
<1>1. Interval \in Nat
  BY SlotConstants
<1> QED BY <1>1

\* What is reserved are callers, so finitely many.
LEMMA SlotReserved ==
    ASSUME Slots!ThrottleAssumption, NEW t
    PROVE  /\ IsFiniteSet(Reserved(t)) /\ Cardinality(Reserved(t)) \in Nat
           /\ Cardinality(Reserved(t)) <= Cardinality(Requesters)
           /\ \A c \in Requesters : c \notin Reserved(t) =>
                 Cardinality(Reserved(t)) + 1 <= Cardinality(Requesters)
<1>1. IsFiniteSet(Requesters)
  BY SlotConstants
<1>2. Reserved(t) \subseteq Requesters
  BY DEF Reserved
<1>3. /\ IsFiniteSet(Reserved(t)) /\ Cardinality(Reserved(t)) \in Nat
      /\ Cardinality(Reserved(t)) <= Cardinality(Requesters)
  BY <1>1, <1>2, FS_Subset, FS_CardinalityType
<1>4. ASSUME NEW c \in Requesters, c \notin Reserved(t)
      PROVE  Cardinality(Reserved(t)) + 1 <= Cardinality(Requesters)
  <2>1. /\ IsFiniteSet(Reserved(t) \cup {c})
        /\ Cardinality(Reserved(t) \cup {c}) = Cardinality(Reserved(t)) + 1
    BY <1>3, <1>4, FS_AddElement
  <2>2. Reserved(t) \cup {c} \subseteq Requesters
    BY <1>2
  <2> QED BY <1>1, <2>1, <2>2, FS_Subset
<1> QED BY <1>3, <1>4

\* The belt is accounted for as long as nothing more is reserved of it and nobody gives
\* up a reservation but by coming to it.
LEMMA SlotBeltKept ==
    ASSUME Slots!ThrottleAssumption, BeltAccounted, next \in Nat, next' = next,
           \A t \in Nat : Reserved(t) \subseteq Reserved(t)'
    PROVE  BeltAccounted'
<1>1. SUFFICES ASSUME NEW t \in Nat PROVE next <= t + Interval * (1 + Cardinality(Reserved(t)'))
  BY DEF BeltAccounted
<1>2. IsFiniteSet(Reserved(t)') /\ Cardinality(Reserved(t)') \in Nat
  <2>1. Reserved(t)' \subseteq Requesters
    BY DEF Reserved
  <2> QED BY <2>1, SlotConstants, FS_Subset, FS_CardinalityType
<1>3. Cardinality(Reserved(t)) \in Nat /\ Cardinality(Reserved(t)) <= Cardinality(Reserved(t)')
  BY <1>2, FS_Subset, SlotReserved
<1> DEFINE m == Cardinality(Reserved(t))
           n == Cardinality(Reserved(t)')
<1>4. next <= t + Interval * (1 + m)
  BY DEF BeltAccounted
<1> HIDE DEF m, n
<1>5. Interval * (1 + m) <= Interval * (1 + n) /\ Interval * (1 + m) \in Nat /\ Interval * (1 + n) \in Nat
  BY <1>2, <1>3, SlotMore DEF m, n
<1>6. next <= t + Interval * (1 + n)
  BY <1>4, <1>5
<1> QED BY <1>6 DEF n

\* At the start no slot is held and nothing reserved.
LEMMA SlotInit == ASSUME Slots!ThrottleAssumption, Slots!Init PROVE SlotInv
<1>1. Slots!TypeOK /\ InLine
  <2>1. /\ [c \in Requesters |-> 0] \in [Requesters -> 0 .. Slots!Longest]
        /\ [c \in Requesters |-> 0] \in [Requesters -> 0 .. MaxAttempts]
        /\ MaxConcurrency \in 0 .. MaxConcurrency /\ Interval \in 0 .. Interval
    BY SlotConstants
  <2>2. close \in BOOLEAN
    BY Zenon DEF Slots!Init
  <2> QED BY <2>1, <2>2, SlotConstants DEF Slots!Init, Slots!TypeOK, InLine
<1>2. Slots!SlotsAreRequests
  <2>1. Slots!Sending = {}
    BY DEF Slots!Sending, Slots!Init
  <2> QED BY <2>1, SlotConstants, FS_EmptySet DEF Slots!Init, Slots!SlotsAreRequests
<1>3. Slots!BeltSpaced
  BY DEF Slots!Init, Slots!BeltSpaced
<1>4. BeltAccounted
  <2>1. SUFFICES ASSUME NEW t \in Nat PROVE next <= t + Interval * (1 + Cardinality(Reserved(t)))
    BY DEF BeltAccounted
  <2>2. Interval * (1 + Cardinality(Reserved(t))) \in Nat
    BY SlotReserved, SlotMore
  <2>3. next = 0
    BY DEF Slots!Init
  <2> QED BY <2>2, <2>3
<1> QED BY <1>1, <1>2, <1>3, <1>4 DEF SlotInv

\* A slot is taken or given back by whoever begins or stops to send.
LEMMA SlotCounted ==
    ASSUME Slots!ThrottleAssumption, SlotInv, NEW c \in Requesters,
           \/ Slots!Sending' = Slots!Sending /\ free' = free
           \/ c \notin Slots!Sending /\ Slots!Sending' = Slots!Sending \cup {c} /\ free' = free - 1 /\ free > 0
           \/ c \in Slots!Sending /\ Slots!Sending' = Slots!Sending \ {c} /\ free' = free + 1
    PROVE  Slots!SlotsAreRequests' /\ free' \in 0 .. MaxConcurrency
<1>1. IsFiniteSet(Slots!Sending) /\ Cardinality(Slots!Sending) \in Nat
  <2>1. Slots!Sending \subseteq Requesters
    BY DEF Slots!Sending
  <2> QED BY <2>1, SlotConstants, FS_Subset, FS_CardinalityType
<1>2. free \in 0 .. MaxConcurrency /\ free + Cardinality(Slots!Sending) = MaxConcurrency
  BY SlotConstants DEF SlotInv, Slots!TypeOK, Slots!SlotsAreRequests
<1>3. MaxConcurrency \in Nat
  BY SlotConstants
<1> DEFINE n == Cardinality(Slots!Sending')
<1>4. SUFFICES free' + n = MaxConcurrency /\ free' \in 0 .. MaxConcurrency
  BY SlotConstants DEF Slots!SlotsAreRequests
<1>5. CASE Slots!Sending' = Slots!Sending /\ free' = free
  BY <1>2, <1>5
<1>6. CASE c \notin Slots!Sending /\ Slots!Sending' = Slots!Sending \cup {c} /\ free' = free - 1 /\ free > 0
  <2>1. n = Cardinality(Slots!Sending) + 1
    BY <1>1, <1>6, FS_AddElement
  <2> HIDE DEF n
  <2> QED BY <1>1, <1>2, <1>3, <1>6, <2>1
<1>7. CASE c \in Slots!Sending /\ Slots!Sending' = Slots!Sending \ {c} /\ free' = free + 1
  <2>1. n = Cardinality(Slots!Sending) - 1
    BY <1>1, <1>7, FS_RemoveElement
  <2>2. n \in Nat
    BY <1>1, <1>7, FS_RemoveElement, FS_CardinalityType
  <2> HIDE DEF n
  <2> QED BY <1>1, <1>2, <1>3, <1>7, <2>1, <2>2
<1> QED BY <1>5, <1>6, <1>7

\* Each step of a call keeps the invariant.
LEMMA SlotCalls ==
    ASSUME Slots!ThrottleAssumption, SlotInv, NEW c \in Requesters, Slots!Step(c) PROVE SlotInv'
<1>0. /\ Slots!TypeOK /\ InLine /\ Slots!SlotsAreRequests /\ Slots!BeltSpaced
      /\ BeltAccounted
  BY DEF SlotInv
<1>c. /\ MaxConcurrency \in Nat \ {0} /\ MaxAttempts \in Nat \ {0} /\ Interval \in Nat
      /\ BackoffMax \in Nat /\ Slots!Longest \in Nat /\ BackoffMax <= Slots!Longest
  BY SlotConstants
<1>1. ASSUME Slots!Reserves(c) PROVE SlotInv'
  <2>a. next \in Nat /\ next' = next + Interval /\ next <= Slots!Longest
    <3>1. next \in Nat /\ next' = next + Interval
      BY <1>0, <1>1 DEF Slots!Reserves, Slots!TypeOK
    <3>2. next <= 0 + Interval * (1 + Cardinality(Reserved(0)))
      BY <1>0 DEF BeltAccounted
    <3>3. c \notin Reserved(0)
      BY <1>1 DEF Slots!Reserves, Reserved
    <3> DEFINE m == Cardinality(Reserved(0))
               n == Cardinality(Requesters)
    <3>4. m \in Nat /\ n \in Nat /\ 1 + m <= n
      BY <3>3, SlotReserved, SlotConstants
    <3>5. next <= Interval * (1 + m) /\ Interval * n <= Slots!Longest
      BY <1>c, <3>1, <3>2, <3>4, SlotConstants
    <3> HIDE DEF m, n
    <3>6. Interval * (1 + m) <= Interval * n
      BY <1>c, <3>4
    <3> QED BY <1>c, <3>1, <3>4, <3>5, <3>6
  <2>0. Slots!SlotsAreRequests' /\ free' \in 0 .. MaxConcurrency
    <3>1. Slots!Sending' = Slots!Sending /\ free' = free
      BY <1>0, <1>1 DEF Slots!Reserves, Slots!Goes, Slots!Waits, Slots!Sending,
         Slots!TypeOK, InLine
    <3> QED BY <3>1, SlotCounted
  <2>1. InLine'
    BY <1>0, <1>c, <1>1 DEF Slots!Reserves, Slots!Goes, Slots!Waits, InLine, Slots!TypeOK
  <2>2. Slots!TypeOK'
    BY <1>0, <1>c, <1>1, <2>0, <2>1, <2>a DEF Slots!Reserves, Slots!Goes, Slots!Waits,
       Slots!TypeOK, InLine
  <2>3. Slots!BeltSpaced'
    BY <1>0, <1>c, <1>1, <2>a DEF Slots!Reserves, Slots!Goes, Slots!Waits, Slots!TypeOK,
       Slots!BeltSpaced
  <2>4. BeltAccounted'
    <3>1. SUFFICES ASSUME NEW t \in Nat
                   PROVE  next + Interval <= t + Interval * (1 + Cardinality(Reserved(t)'))
      BY <2>a DEF BeltAccounted
    <3>2. /\ c \notin Reserved(t)
          /\ next > t => Reserved(t)' = Reserved(t) \cup {c}
          /\ next <= t => Reserved(t)' = Reserved(t)
      BY <1>0, <1>1, <2>a DEF Slots!Reserves, Slots!Goes, Slots!Waits, Slots!TypeOK,
         Reserved
    <3> DEFINE m == Cardinality(Reserved(t))
               n == Cardinality(Reserved(t)')
    <3>3. m \in Nat /\ next <= t + Interval * (1 + m) /\ IsFiniteSet(Reserved(t))
      BY <1>0, SlotReserved DEF BeltAccounted
    <3>4. CASE next > t
      <4>1. n = m + 1
        BY <3>2, <3>3, <3>4, FS_AddElement
      <4> HIDE DEF m, n
      <4>2. Interval * (1 + (m + 1)) = Interval * (1 + m) + Interval /\ Interval * (1 + m) \in Nat
        BY <1>c, <3>3
      <4>3. next + Interval <= t + Interval * (1 + n)
        BY <1>c, <2>a, <3>3, <4>1, <4>2
      <4> QED BY <4>3 DEF n
    <3>5. CASE next <= t
      <4>1. n \in Nat
        BY <3>2, <3>3, <3>5
      <4> HIDE DEF m, n
      <4>2. Interval * (1 + n) = Interval + Interval * n /\ Interval * n \in Nat
        BY <1>c, <4>1
      <4>3. next + Interval <= t + Interval * (1 + n)
        BY <1>c, <2>a, <3>5, <4>1, <4>2
      <4> QED BY <4>3 DEF n
    <3> QED BY <2>a, <3>4, <3>5
  <2> QED BY <2>0, <2>1, <2>2, <2>3, <2>4 DEF SlotInv
<1>2. ASSUME Slots!Opens(c) PROVE SlotInv'
  <2>0. Slots!SlotsAreRequests' /\ free' \in 0 .. MaxConcurrency
    <3>1. Slots!Sending' = Slots!Sending /\ free' = free
      BY <1>0, <1>2 DEF Slots!Opens, Slots!Goes, Slots!Waits, Slots!Sending, Slots!TypeOK,
         InLine
    <3> QED BY <3>1, SlotCounted
  <2>1. InLine'
    BY <1>0, <1>c, <1>2 DEF Slots!Opens, Slots!Goes, Slots!Waits, InLine, Slots!TypeOK
  <2>2. Slots!TypeOK'
    BY <1>0, <1>c, <1>2, <2>0, <2>1 DEF Slots!Opens, Slots!Goes, Slots!Waits,
       Slots!TypeOK, InLine
  <2>3. Slots!BeltSpaced'
    BY <1>0, <1>c, <1>2 DEF Slots!Opens, Slots!Goes, Slots!Waits, Slots!TypeOK,
       Slots!BeltSpaced
  <2>4. BeltAccounted'
    <3>1. next \in Nat /\ next' = next /\ \A t \in Nat : Reserved(t) \subseteq Reserved(t)'
      BY <1>0, <1>2 DEF Slots!Opens, Slots!Goes, Slots!Waits, Slots!TypeOK, Reserved
    <3> QED BY <1>0, <3>1, SlotBeltKept
  <2> QED BY <2>0, <2>1, <2>2, <2>3, <2>4 DEF SlotInv
<1>3. ASSUME Slots!Begins(c) PROVE SlotInv'
  <2>a. /\ step[c] = "queue" /\ attempt[c] < MaxAttempts /\ queue # <<>> /\ free > 0
        /\ step' = [step EXCEPT ![c] = "sending"] /\ free' = free - 1
        /\ attempt' = [attempt EXCEPT ![c] = @ + 1]
        /\ since' = 0 /\ close' = (close \/ since < Interval) /\ queue' = Tail(queue)
        /\ UNCHANGED <<left, next>>
    <3>1. /\ queue # <<>> /\ Head(queue) = c /\ free > 0
          /\ step' = [step EXCEPT ![c] = "sending"] /\ free' = free - 1
          /\ attempt' = [attempt EXCEPT ![c] = @ + 1]
          /\ since' = 0 /\ close' = (close \/ since < Interval) /\ queue' = Tail(queue)
          /\ UNCHANGED <<left, next>>
      BY <1>3 DEF Slots!Begins, Slots!Goes
    <3>2. 1 \in 1 .. Len(queue) /\ queue[1] = c
      BY <1>0, <3>1 DEF InLine
    <3>3. step[c] = "queue"
      BY <1>0, <3>2 DEF Slots!TypeOK
    <3>4. attempt[c] < MaxAttempts
      BY <1>0, <3>3 DEF InLine
    <3> QED BY <3>1, <3>3, <3>4
  <2>b. /\ queue' \in Seq(Requesters) /\ Len(queue') = Len(queue) - 1
        /\ \A i \in 1 .. Len(queue') : queue'[i] = queue[i + 1] /\ i + 1 \in 1 .. Len(queue)
    BY <1>0, <2>a DEF InLine
  <2>d. \A i \in 1 .. Len(queue') : queue'[i] # c /\ step[queue'[i]] = "queue"
    <3>1. queue[1] = c /\ 1 \in 1 .. Len(queue)
      BY <1>0, <1>3 DEF Slots!Begins, InLine
    <3>2. SUFFICES ASSUME NEW i \in 1 .. Len(queue') PROVE queue'[i] # c /\ step[queue'[i]] = "queue"
      OBVIOUS
    <3>3. queue'[i] = queue[i + 1] /\ i + 1 \in 1 .. Len(queue) /\ i + 1 # 1
      BY <2>b
    <3>4. queue[i + 1] # queue[1]
      BY <1>0, <3>1, <3>3 DEF InLine
    <3>5. step[queue[i + 1]] = "queue"
      BY <1>0, <3>3 DEF Slots!TypeOK
    <3> QED BY <3>1, <3>3, <3>4, <3>5
  <2>0. Slots!SlotsAreRequests' /\ free' \in 0 .. MaxConcurrency
    <3>1. c \notin Slots!Sending /\ Slots!Sending' = Slots!Sending \cup {c} /\ free' = free - 1 /\ free > 0
      BY <1>0, <2>a DEF Slots!Sending, Slots!TypeOK, InLine
    <3> QED BY <3>1, SlotCounted
  <2>1. InLine'
    BY <1>0, <1>c, <2>a, <2>b, <2>d DEF InLine, Slots!TypeOK
  <2>2. Slots!TypeOK'
    <3>1. attempt' \in [Requesters -> 0 .. MaxAttempts] /\ since' \in 0 .. Interval
      BY <1>0, <1>c, <2>a DEF Slots!TypeOK
    <3>2. close' \in BOOLEAN
      BY <1>0, <2>a, Zenon DEF Slots!TypeOK
    <3> QED BY <1>0, <1>c, <2>0, <2>a, <2>b, <2>d, <3>1, <3>2 DEF Slots!TypeOK
  <2>3. Slots!BeltSpaced'
    BY <1>0, <1>c, <2>a, <2>b, <2>d DEF Slots!TypeOK, Slots!BeltSpaced
  <2>4. BeltAccounted'
    <3>1. next \in Nat /\ next' = next /\ \A t \in Nat : Reserved(t) \subseteq Reserved(t)'
      BY <1>0, <2>a DEF Slots!TypeOK, Reserved
    <3> QED BY <1>0, <3>1, SlotBeltKept
  <2> QED BY <2>0, <2>1, <2>2, <2>3, <2>4 DEF SlotInv
<1>4. ASSUME Slots!Retries(c) PROVE SlotInv'
  <2>a. /\ attempt[c] - 1 \in Nat /\ step[c] = "sending" /\ attempt[c] < MaxAttempts
        /\ \E n \in 0 .. BackoffMax : Slots!Waits(c, "backing", n)
    <3>1. attempt[c] - 1 \in Nat /\ step[c] = "sending" /\ attempt[c] < MaxAttempts
      BY <1>0, <1>4 DEF Slots!Retries, Slots!TypeOK, InLine
    <3>2. PICK hard \in BOOLEAN : \E n \in 0 .. Slots!Cap(attempt[c] - 1, hard) : Slots!Waits(c, "backing", n)
      BY <1>4 DEF Slots!Retries
    <3>3. Slots!Cap(attempt[c] - 1, hard) \in 0 .. BackoffMax
      BY <3>1, SlotCap
    <3>4. PICK n \in 0 .. Slots!Cap(attempt[c] - 1, hard) : Slots!Waits(c, "backing", n)
      BY <3>2
    <3>5. n \in 0 .. BackoffMax
      BY <1>c, <3>3, <3>4
    <3> QED BY <3>1, <3>4, <3>5
  <2>b. PICK n \in 0 .. BackoffMax : Slots!Waits(c, "backing", n)
    BY <2>a
  <2>d. UNCHANGED <<attempt, queue, next, since, close>> /\ free' = free + 1
    BY <1>4 DEF Slots!Retries
  <2>0. Slots!SlotsAreRequests' /\ free' \in 0 .. MaxConcurrency
    <3>1. c \in Slots!Sending /\ Slots!Sending' = Slots!Sending \ {c} /\ free' = free + 1
      BY <1>0, <2>a, <2>b, <2>d DEF Slots!Goes, Slots!Waits, Slots!Sending, Slots!TypeOK,
         InLine
    <3> QED BY <3>1, SlotCounted
  <2>1. InLine'
    BY <1>0, <1>c, <2>a, <2>b, <2>d DEF Slots!Goes, Slots!Waits, InLine, Slots!TypeOK
  <2>2. Slots!TypeOK'
    BY <1>0, <1>c, <2>0, <2>1, <2>a, <2>b, <2>d, SMTT(30) DEF Slots!Goes, Slots!Waits, Slots!TypeOK,
       InLine
  <2>3. Slots!BeltSpaced'
    BY <1>0, <1>c, <2>a, <2>b, <2>d DEF Slots!Goes, Slots!Waits, Slots!TypeOK,
       Slots!BeltSpaced
  <2>4. BeltAccounted'
    <3>1. next \in Nat /\ next' = next /\ \A t \in Nat : Reserved(t) \subseteq Reserved(t)'
      BY <1>0, <2>a, <2>b, <2>d DEF Slots!Goes, Slots!Waits, Slots!TypeOK, Reserved
    <3> QED BY <1>0, <3>1, SlotBeltKept
  <2> QED BY <2>0, <2>1, <2>2, <2>3, <2>4 DEF SlotInv
<1>5. ASSUME Slots!Ends(c) PROVE SlotInv'
  <2>0. Slots!SlotsAreRequests' /\ free' \in 0 .. MaxConcurrency
    <3>1. c \in Slots!Sending /\ Slots!Sending' = Slots!Sending \ {c} /\ free' = free + 1
      BY <1>0, <1>5 DEF Slots!Ends, Slots!Goes, Slots!Waits, Slots!Sending, Slots!TypeOK,
         InLine
    <3> QED BY <3>1, SlotCounted
  <2>1. InLine'
    BY <1>0, <1>c, <1>5 DEF Slots!Ends, Slots!Goes, Slots!Waits, InLine, Slots!TypeOK
  <2>2. Slots!TypeOK'
    <3>1. /\ step' \in [Requesters -> {"idle", "belt", "queue", "sending", "backing", "ok", "failed", "dropped"}]
          /\ \A i \in 1 .. Len(queue) : step'[queue[i]] = "queue"
      <4>1. /\ step[c] = "sending"
            /\ \E r \in {"ok", "failed"} : step' = [step EXCEPT ![c] = r]
        BY <1>5 DEF Slots!Ends, Slots!Goes
      <4>2. \A d \in Requesters : d # c => step'[d] = step[d]
        BY <1>0, <4>1 DEF Slots!TypeOK
      <4>3. \A i \in 1 .. Len(queue) : queue[i] \in Requesters /\ step[queue[i]] = "queue"
        BY <1>0 DEF InLine, Slots!TypeOK
      <4>4. \A i \in 1 .. Len(queue) : step'[queue[i]] = "queue"
        BY <4>1, <4>2, <4>3
      <4> QED BY <1>0, <4>1, <4>4 DEF Slots!TypeOK
    <3>2. UNCHANGED <<left, attempt, queue, next, since, close>>
      BY <1>5 DEF Slots!Ends
    <3> QED BY <1>0, <2>0, <3>1, <3>2 DEF Slots!TypeOK
  <2>3. Slots!BeltSpaced'
    BY <1>0, <1>c, <1>5 DEF Slots!Ends, Slots!Goes, Slots!Waits, Slots!TypeOK,
       Slots!BeltSpaced
  <2>4. BeltAccounted'
    <3>1. next \in Nat /\ next' = next /\ \A t \in Nat : Reserved(t) \subseteq Reserved(t)'
      BY <1>0, <1>5 DEF Slots!Ends, Slots!Goes, Slots!Waits, Slots!TypeOK, Reserved
    <3> QED BY <1>0, <3>1, SlotBeltKept
  <2> QED BY <2>0, <2>1, <2>2, <2>3, <2>4 DEF SlotInv
<1> QED BY <1>1, <1>2, <1>3, <1>4, <1>5 DEF Slots!Step

\* A queue that has each once is left by one of them.
LEMMA SlotWithout ==
    ASSUME queue \in Seq(Requesters), \A i, k \in 1 .. Len(queue) : queue[i] = queue[k] => i = k,
           NEW c \in Requesters
    PROVE  LET q == Slots!Without(queue, c)
           IN  /\ q \in Seq(Requesters)
               /\ \A i, k \in 1 .. Len(q) : q[i] = q[k] => i = k
               /\ \A i \in 1 .. Len(q) : q[i] # c /\ \E k \in 1 .. Len(queue) : q[i] = queue[k]
<1>1. CASE ~ \E k \in DOMAIN queue : queue[k] = c
  BY <1>1 DEF Slots!Without
<1>2. CASE \E k \in DOMAIN queue : queue[k] = c
  <2> DEFINE n == CHOOSE k \in DOMAIN queue : queue[k] = c
             q == Slots!Without(queue, c)
  <2>1. n \in 1 .. Len(queue) /\ queue[n] = c
    BY <1>2
  <2>2. q = Slots!RemoveAt(queue, n)
    BY <1>2 DEF Slots!Without
  <2> HIDE DEF n
  <2>3. q = SubSeq(queue, 1, n - 1) \o SubSeq(queue, n + 1, Len(queue))
    BY <2>2 DEF Slots!RemoveAt
  <2>4. /\ q \in Seq(Requesters) /\ Len(q) = Len(queue) - 1
        /\ \A k \in 1 .. Len(queue) - 1 : q[k] = IF k < n THEN queue[k] ELSE queue[k + 1]
    <3> HIDE DEF q
    <3>1. /\ SubSeq(queue, 1, n - 1) \o SubSeq(queue, n + 1, Len(queue)) \in Seq(Requesters)
          /\ Len(SubSeq(queue, 1, n - 1) \o SubSeq(queue, n + 1, Len(queue))) = Len(queue) - 1
          /\ \A k \in 1 .. Len(queue) - 1 :
                (SubSeq(queue, 1, n - 1) \o SubSeq(queue, n + 1, Len(queue)))[k]
                   = IF k < n THEN queue[k] ELSE queue[k + 1]
      BY <2>1, EntryRemoved
    <3> QED BY <2>3, <3>1, Zenon
  <2> HIDE DEF q
  <2>5. \A k \in 1 .. Len(queue) - 1 : k \in 1 .. Len(queue) /\ k + 1 \in 1 .. Len(queue)
    OBVIOUS
  <2>6. \A i, k \in 1 .. Len(q) : q[i] = q[k] => i = k
    BY <2>1, <2>4, <2>5
  <2>7. \A i \in 1 .. Len(q) : q[i] # c /\ \E k \in 1 .. Len(queue) : q[i] = queue[k]
    BY <2>1, <2>4, <2>5
  <2> QED BY <2>4, <2>6, <2>7 DEF q
<1> QED BY <1>1, <1>2

\* A call that is dropped leaves the queue and gives its slot back; its reservation stays.
LEMMA SlotDrops ==
    ASSUME Slots!ThrottleAssumption, SlotInv, NEW c \in Requesters, Slots!Drops(c) PROVE SlotInv'
<1>0. /\ Slots!TypeOK /\ InLine /\ Slots!SlotsAreRequests /\ Slots!BeltSpaced
      /\ BeltAccounted
  BY DEF SlotInv
<1>c. /\ MaxConcurrency \in Nat \ {0} /\ MaxAttempts \in Nat \ {0} /\ Interval \in Nat
      /\ BackoffMax \in Nat /\ Slots!Longest \in Nat /\ BackoffMax <= Slots!Longest
  BY SlotConstants
<1>1. /\ step[c] \in {"belt", "queue", "sending", "backing"}
      /\ step' = [step EXCEPT ![c] = "dropped"] /\ left' = [left EXCEPT ![c] = 0]
      /\ free' = (IF step[c] = "sending" THEN free + 1 ELSE free)
      /\ queue' = Slots!Without(queue, c)
      /\ UNCHANGED <<attempt, next, since, close>>
  BY DEF Slots!Drops, Slots!Waits, Slots!Goes
<1>2. Slots!SlotsAreRequests' /\ free' \in 0 .. MaxConcurrency
  <2>1. \/ Slots!Sending' = Slots!Sending /\ free' = free
        \/ c \in Slots!Sending /\ Slots!Sending' = Slots!Sending \ {c} /\ free' = free + 1
    BY <1>0, <1>1 DEF Slots!Sending, Slots!TypeOK
  <2> QED BY <2>1, SlotCounted
<1>3. /\ queue' \in Seq(Requesters)
      /\ \A i, k \in 1 .. Len(queue') : queue'[i] = queue'[k] => i = k
      /\ \A i \in 1 .. Len(queue') : queue'[i] # c /\ \E k \in 1 .. Len(queue) : queue'[i] = queue[k]
  BY <1>0, <1>1, SlotWithout DEF InLine
<1>4. InLine'
  BY <1>0, <1>1, <1>3 DEF InLine, Slots!TypeOK
<1>5. Slots!TypeOK'
  <2>1. /\ step' \in [Requesters -> {"idle", "belt", "queue", "sending", "backing", "ok", "failed", "dropped"}]
        /\ left' \in [Requesters -> 0 .. Slots!Longest]
    BY <1>0, <1>c, <1>1 DEF Slots!TypeOK
  <2>2. \A i \in 1 .. Len(queue') : step'[queue'[i]] = "queue"
    <3>1. \A d \in Requesters : d # c => step'[d] = step[d]
      BY <1>0, <1>1 DEF Slots!TypeOK
    <3>2. \A i \in 1 .. Len(queue) : queue[i] \in Requesters /\ step[queue[i]] = "queue"
      BY <1>0 DEF InLine, Slots!TypeOK
    <3> QED BY <1>3, <3>1, <3>2
  <2> QED BY <1>0, <1>1, <1>2, <2>1, <2>2 DEF Slots!TypeOK
<1>6. Slots!BeltSpaced'
  BY <1>0, <1>c, <1>1 DEF Slots!TypeOK, Slots!BeltSpaced
<1>7. BeltAccounted'
  <2>1. next \in Nat /\ next' = next /\ \A t \in Nat : Reserved(t) \subseteq Reserved(t)'
    BY <1>0, <1>1 DEF Slots!TypeOK, Reserved
  <2> QED BY <1>0, <2>1, SlotBeltKept
<1> QED BY <1>2, <1>4, <1>5, <1>6, <1>7 DEF SlotInv

\* Time brings the belt's openings and those who wait for them nearer alike.
LEMMA SlotTick == ASSUME Slots!ThrottleAssumption, SlotInv, Slots!Tick PROVE SlotInv'
<1>0. /\ Slots!TypeOK /\ InLine /\ Slots!SlotsAreRequests /\ Slots!BeltSpaced
      /\ BeltAccounted
  BY DEF SlotInv
<1>c. /\ MaxConcurrency \in Nat \ {0} /\ MaxAttempts \in Nat \ {0} /\ Interval \in Nat
      /\ BackoffMax \in Nat /\ Slots!Longest \in Nat /\ BackoffMax <= Slots!Longest
  BY SlotConstants
<1>1. /\ \A c \in Requesters : step[c] \in {"belt", "backing"} => left[c] > 0
      /\ left' = [c \in Requesters |-> IF step[c] \in {"belt", "backing"} THEN left[c] - 1 ELSE left[c]]
      /\ next' = (IF next = 0 THEN 0 ELSE next - 1)
      /\ since' = (IF since < Interval THEN since + 1 ELSE since)
      /\ UNCHANGED <<step, attempt, queue, free, close>>
  BY DEF Slots!Tick, Slots!Waiting, Slots!Down
<1>2. next \in Nat /\ next' \in Nat
  BY <1>0, <1>1 DEF Slots!TypeOK
<1>3. Slots!TypeOK' /\ InLine'
  <2>1. left' \in [Requesters -> 0 .. Slots!Longest] /\ since' \in 0 .. Interval
    BY <1>0, <1>c, <1>1 DEF Slots!TypeOK
  <2> QED BY <1>0, <1>1, <1>2, <2>1 DEF Slots!TypeOK, InLine
<1>4. Slots!SlotsAreRequests'
  <2>1. Slots!Sending' = Slots!Sending
    BY <1>1 DEF Slots!Sending
  <2> QED BY <1>0, <1>1, <2>1, SlotConstants DEF Slots!SlotsAreRequests
<1>5. Slots!BeltSpaced'
  <2>1. \A c \in Requesters : left[c] \in Nat /\ left'[c] \in Nat
    BY <1>0, <1>c, <1>1 DEF Slots!TypeOK
  <2>1a. \A c \in Requesters : step[c] = "belt" => left[c] = left'[c] + 1
    BY <1>0, <1>c, <1>1, <2>1 DEF Slots!TypeOK
  <2>1b. \A c \in Requesters : step[c] = "backing" => left[c] = left'[c] + 1
    BY <1>0, <1>c, <1>1, <2>1 DEF Slots!TypeOK
  <2>2. Slots!BeltSpaced'
    <3>1. SUFFICES ASSUME NEW c \in Requesters, step[c] = "belt"
                   PROVE  /\ left'[c] + Interval <= next'
                          /\ \A d \in Requesters \ {c} : step[d] = "belt" =>
                                left'[c] + Interval <= left'[d] \/ left'[d] + Interval <= left'[c]
      BY <1>1 DEF Slots!BeltSpaced
    <3>2. left[c] + Interval <= next /\ left[c] = left'[c] + 1 /\ left'[c] \in Nat
      BY <1>0, <2>1, <2>1a, <3>1 DEF Slots!BeltSpaced
    <3>3. left'[c] + Interval <= next'
      BY <1>c, <1>1, <1>2, <3>2
    <3>4. ASSUME NEW d \in Requesters \ {c}, step[d] = "belt"
          PROVE  left'[c] + Interval <= left'[d] \/ left'[d] + Interval <= left'[c]
      <4>1. left[c] + Interval <= left[d] \/ left[d] + Interval <= left[c]
        BY <1>0, <3>1, <3>4 DEF Slots!BeltSpaced
      <4>2. left[d] = left'[d] + 1 /\ left'[d] \in Nat
        BY <2>1, <2>1a, <3>4
      <4> QED BY <1>c, <3>2, <4>1, <4>2
    <3> QED BY <3>3, <3>4
  <2> QED BY <2>2
<1>6. BeltAccounted'
  <2>1. SUFFICES ASSUME NEW t \in Nat PROVE next' <= t + Interval * (1 + Cardinality(Reserved(t)'))
    BY DEF BeltAccounted
  <2>2. t + 1 \in Nat /\ Reserved(t)' = Reserved(t + 1)
    BY <1>0, <1>1 DEF Slots!TypeOK, Reserved
  <2> DEFINE n == Interval * (1 + Cardinality(Reserved(t + 1)))
  <2>3. n \in Nat
    BY <2>2, SlotReserved, SlotMore
  <2>4. next <= (t + 1) + n
    BY <1>0, <2>2 DEF BeltAccounted
  <2> HIDE DEF n
  <2>5. next' <= t + n
    BY <1>1, <1>2, <2>3, <2>4
  <2> QED BY <2>2, <2>5 DEF n
<1> QED BY <1>3, <1>4, <1>5, <1>6 DEF SlotInv

\* Every action keeps the invariant.
LEMMA SlotStep ==
    ASSUME Slots!ThrottleAssumption, SlotInv, [Slots!Next]_(Slots!vars) PROVE SlotInv'
<1>1. CASE UNCHANGED Slots!vars
  <2>1. UNCHANGED <<step, left, attempt, queue, free, next, since, close>>
    BY <1>1 DEF Slots!vars
  <2> QED BY <2>1 DEF SlotInv, Slots!TypeOK, InLine, Slots!SlotsAreRequests, Slots!Sending,
                      Slots!BeltSpaced, BeltAccounted, Reserved
<1> QED BY <1>1, SlotCalls, SlotDrops, SlotTick DEF Slots!Next

-----------------------------------------------------------------------------
(* Listing by pages. *)

\* A page is asked for only below the cap.
BelowCap == answer = "none" => page < MaxPages

\* What was there all the time, stands before the offset, and was not collected.
Missed == {n \in steady : n \notin Page!ToSet(collected) /\
                          \E i \in 1 .. Len(there) : i <= Len(collected) /\ there[i] = n}

\* There are no more of those than removals from before the offset, and the end was reached
\* when the listing ended.
Covered ==
    /\ IsFiniteSet(Missed) /\ Cardinality(Missed) <= removed
    /\ answer = "listed" => Len(there) <= Len(collected)

\* While nothing was changed, what is collected is the directory up to the offset.
AsItIs ==
    changes = 0 =>
        /\ Len(collected) <= Len(there)
        /\ \A i \in 1 .. Len(collected) : collected[i] = there[i]
        /\ answer = "listed" => Len(collected) = Len(there)

PageInv == Page!TypeOK /\ BelowCap /\ Covered /\ AsItIs

\* A page is the entries from the offset on, and a short one reaches the end.
LEMMA PageGot ==
    ASSUME Page!PagesAssumption, there \in Seq(PageNames), NEW offset \in Nat
    PROVE  LET entries == Page!PageAt(offset)
           IN  /\ entries \in Seq(PageNames) /\ Len(entries) <= PageSize
               /\ \A j \in 1 .. Len(entries) : entries[j] = there[offset + j] /\ offset + j <= Len(there)
               /\ Len(entries) < PageSize => Len(there) <= offset + Len(entries)
               /\ offset <= Len(there) => offset + Len(entries) <= Len(there)
<1> DEFINE last == IF offset + PageSize < Len(there) THEN offset + PageSize ELSE Len(there)
<1>1. Len(there) \in Nat /\ PageSize \in Nat \ {0} /\ last \in Nat /\ last <= Len(there)
  BY DEF Page!PagesAssumption
<1>2. Page!PageAt(offset) = SubSeq(there, offset + 1, last)
  BY DEF Page!PageAt
<1>3. CASE last <= offset
  <2>1. SubSeq(there, offset + 1, last) = <<>>
    BY <1>1, <1>3
  <2>2. Len(there) <= offset
    BY <1>1, <1>3
  <2> QED BY <1>1, <1>2, <2>1, <2>2
<1>4. CASE offset < last
  <2>1. /\ SubSeq(there, offset + 1, last) \in Seq(PageNames)
        /\ Len(SubSeq(there, offset + 1, last)) = last - offset
        /\ \A j \in 1 .. last - offset : SubSeq(there, offset + 1, last)[j] = there[offset + j]
    BY <1>1, <1>4
  <2> HIDE DEF last
  <2>2. (last < offset + PageSize => last = Len(there)) /\ last <= offset + PageSize
    BY <1>1 DEF last
  <2> QED BY <1>1, <1>2, <1>4, <2>1, <2>2
<1> QED BY <1>1, <1>3, <1>4

\* The members of a sequence are its entries.
LEMMA PageSet ==
    ASSUME NEW s \in Seq(PageNames), NEW x
    PROVE  x \in Page!ToSet(s) <=> \E k \in 1 .. Len(s) : s[k] = x
BY DEF Page!ToSet

\* What an insertion makes of the directory.
LEMMA PageInserted ==
    ASSUME NEW s \in Seq(PageNames), NEW i \in 1 .. Len(s) + 1, NEW n \in PageNames
    PROVE  LET r == Page!InsertAt(s, i, n)
           IN  /\ r \in Seq(PageNames) /\ Len(r) = Len(s) + 1 /\ r[i] = n
               /\ \A k \in 1 .. Len(s) + 1 : (k < i => r[k] = s[k]) /\ (k > i => r[k] = s[k - 1])
<1> DEFINE a == SubSeq(s, 1, i - 1)
           b == SubSeq(s, i, Len(s))
<1>1. /\ a \in Seq(PageNames) /\ Len(a) = i - 1
      /\ \A k \in 1 .. i - 1 : a[k] = s[k]
  OBVIOUS
<1>2. /\ b \in Seq(PageNames) /\ Len(b) = Len(s) + 1 - i
      /\ \A k \in 1 .. Len(s) + 1 - i : b[k] = s[i + k - 1]
  OBVIOUS
<1>3. Page!InsertAt(s, i, n) = (a \o <<n>>) \o b
  BY DEF Page!InsertAt
<1> HIDE DEF a, b
<1>4. /\ a \o <<n>> \in Seq(PageNames) /\ Len(a \o <<n>>) = i
      /\ (a \o <<n>>)[i] = n /\ \A k \in 1 .. i - 1 : (a \o <<n>>)[k] = s[k]
  BY <1>1
<1> DEFINE c == a \o <<n>>
<1> HIDE DEF c
<1>5. /\ c \in Seq(PageNames) /\ Len(c) = i /\ c[i] = n
      /\ \A k \in 1 .. i - 1 : c[k] = s[k]
  BY <1>4 DEF c
<1>6. /\ c \o b \in Seq(PageNames) /\ Len(c \o b) = Len(s) + 1
      /\ \A k \in 1 .. Len(s) + 1 : (c \o b)[k] = IF k <= i THEN c[k] ELSE b[k - i]
  BY <1>2, <1>5
<1>7. \A k \in 1 .. Len(s) + 1 : k > i => (c \o b)[k] = s[k - 1]
  <2>1. SUFFICES ASSUME NEW k \in 1 .. Len(s) + 1, k > i PROVE (c \o b)[k] = s[k - 1]
    OBVIOUS
  <2>2. k - i \in 1 .. Len(s) + 1 - i /\ i + (k - i) - 1 = k - 1
    BY <2>1
  <2> QED BY <1>2, <1>6, <2>1, <2>2
<1>8. Page!InsertAt(s, i, n) = c \o b
  BY <1>3 DEF c
<1> QED BY <1>5, <1>6, <1>7, <1>8

\* What a removal makes of it.
LEMMA PageRemoved ==
    ASSUME NEW s \in Seq(PageNames), NEW i \in 1 .. Len(s)
    PROVE  LET r == Page!RemoveAt(s, i)
           IN  /\ r \in Seq(PageNames) /\ Len(r) = Len(s) - 1
               /\ \A k \in 1 .. Len(s) - 1 : r[k] = IF k < i THEN s[k] ELSE s[k + 1]
BY EntryRemoved DEF Page!RemoveAt

\* A step that adds nothing to what is missed keeps the count.
LEMMA MissedFewer ==
    ASSUME Page!TypeOK, Covered, Missed' \subseteq Missed, removed' \in Nat, removed <= removed'
    PROVE  IsFiniteSet(Missed') /\ Cardinality(Missed') <= removed'
<1>1. IsFiniteSet(Missed) /\ Cardinality(Missed) <= removed
  BY DEF Covered
<1>2. /\ IsFiniteSet(Missed') /\ Cardinality(Missed') <= Cardinality(Missed)
      /\ Cardinality(Missed) \in Nat /\ Cardinality(Missed') \in Nat
  BY <1>1, FS_Subset, FS_CardinalityType
<1>3. removed \in Nat
  BY DEF Page!TypeOK
<1> DEFINE m == Cardinality(Missed)
           n == Cardinality(Missed')
<1> HIDE DEF m, n
<1>4. n <= m /\ m \in Nat /\ n \in Nat /\ m <= removed
  BY <1>1, <1>2 DEF m, n
<1>5. n <= removed'
  BY <1>3, <1>4
<1> QED BY <1>2, <1>5 DEF n

\* Before the first page nothing is collected.
LEMMA PageInit == ASSUME Page!PagesAssumption, Page!Init PROVE PageInv
<1>1. there \in Seq(PageNames)
  BY DEF Page!Init
<1>2. removed \in 0 .. changes /\ collected \in Seq(PageNames)
  BY DEF Page!Init
<1>3. Page!TypeOK /\ BelowCap
  BY <1>1, <1>2 DEF Page!PagesAssumption, Page!Init, Page!TypeOK, BelowCap
<1>4. Missed = {}
  BY <1>1 DEF Page!Init, Missed
<1>5. Covered /\ AsItIs
  BY <1>1, <1>4, FS_EmptySet DEF Page!Init, Covered, AsItIs
<1> QED BY <1>3, <1>5 DEF PageInv

\* A page: the next entries, of which none is passed over.
LEMMA PageFetches == ASSUME Page!PagesAssumption, PageInv, Page!Fetches PROVE PageInv'
<1> DEFINE off == Len(collected)
           entries == Page!PageAt(off)
<1>0. Page!TypeOK /\ BelowCap /\ Covered /\ AsItIs
  BY DEF PageInv
<1>1. there \in Seq(PageNames) /\ collected \in Seq(PageNames) /\ off \in Nat /\ Len(there) \in Nat
  BY <1>0 DEF Page!TypeOK
<1>2. /\ entries \in Seq(PageNames) /\ Len(entries) \in Nat /\ Len(entries) <= PageSize
      /\ \A j \in 1 .. Len(entries) : entries[j] = there[off + j] /\ off + j <= Len(there)
      /\ Len(entries) < PageSize => Len(there) <= off + Len(entries)
      /\ off <= Len(there) => off + Len(entries) <= Len(there)
  <2>1. /\ entries \in Seq(PageNames) /\ Len(entries) <= PageSize
        /\ \A j \in 1 .. Len(entries) : entries[j] = there[off + j] /\ off + j <= Len(there)
        /\ Len(entries) < PageSize => Len(there) <= off + Len(entries)
        /\ off <= Len(there) => off + Len(entries) <= Len(there)
    <3> HIDE DEF off
    <3> QED BY <1>1, PageGot
  <2> HIDE DEF entries
  <2> QED BY <2>1
<1>3. /\ collected' = collected \o entries /\ page' = page + 1 /\ answer = "none"
      /\ answer' = "listed" => Page!Done(Len(entries), Len(collected'))
      /\ answer' = "none" => page' # MaxPages
      /\ answer' \in {"none", "listed", "capped"}
      /\ UNCHANGED <<there, totals, steady, removed, changes>>
  BY DEF Page!Fetches
<1> HIDE DEF entries
<1>4. /\ collected' \in Seq(PageNames) /\ Len(collected') = off + Len(entries)
      /\ \A i \in 1 .. off : collected'[i] = collected[i]
      /\ \A j \in 1 .. Len(entries) : collected'[off + j] = entries[j]
  BY <1>1, <1>2, <1>3
<1>5. \A i \in 1 .. off + Len(entries) : i > off => i - off \in 1 .. Len(entries) /\ off + (i - off) = i
  BY <1>1, <1>2
<1>6. \A i \in 1 .. off + Len(entries) : i > off => collected'[i] = there[i]
  <2>1. SUFFICES ASSUME NEW i \in 1 .. off + Len(entries), i > off PROVE collected'[i] = there[i]
    OBVIOUS
  <2>2. i - off \in 1 .. Len(entries) /\ off + (i - off) = i
    BY <1>5, <2>1
  <2>3. collected'[off + (i - off)] = entries[i - off] /\ entries[i - off] = there[off + (i - off)]
    BY <1>2, <1>4, <2>2
  <2> QED BY <2>2, <2>3
<1>7. Page!TypeOK' /\ BelowCap'
  <2>1. page' \in 0 .. MaxPages /\ (answer' = "none" => page' < MaxPages)
    BY <1>0, <1>3 DEF BelowCap, Page!TypeOK, Page!PagesAssumption
  <2> QED BY <1>0, <1>3, <1>4, <2>1 DEF Page!TypeOK, BelowCap
<1>8. answer' = "listed" => Len(there) <= Len(collected')
  BY <1>1, <1>2, <1>3, <1>4 DEF Page!Done, Page!PagesAssumption
<1>9. Covered'
  <2>1. ASSUME NEW n \in Missed' PROVE n \in Missed
    <3>1. /\ n \in steady /\ n \notin Page!ToSet(collected)'
          /\ \E i \in 1 .. Len(there) : i <= Len(collected') /\ there[i] = n
      BY <1>3, <2>1 DEF Missed
    <3>2. \A k \in 1 .. Len(collected') : collected'[k] # n
      <4>1. \A k \in 1 .. Len(collected') : collected'[k] \in Page!ToSet(collected)'
        BY <1>4 DEF Page!ToSet
      <4> QED BY <3>1, <4>1
    <3>3. PICK i \in 1 .. Len(there) : i <= Len(collected') /\ there[i] = n
      BY <3>1
    <3>4. i <= off
      BY <1>1, <1>2, <1>4, <1>6, <3>2, <3>3
    <3>5. n \notin Page!ToSet(collected)
      BY <1>1, <1>2, <1>4, <3>2, PageSet
    <3> QED BY <3>1, <3>3, <3>4, <3>5 DEF Missed
  <2>2. removed' \in Nat /\ removed <= removed'
    BY <1>0, <1>3 DEF Page!TypeOK
  <2>3. IsFiniteSet(Missed') /\ Cardinality(Missed') <= removed'
    BY <1>0, <2>1, <2>2, MissedFewer
  <2> QED BY <1>3, <1>8, <2>3 DEF Covered
<1>10. AsItIs'
  <2>1. SUFFICES ASSUME changes = 0
                 PROVE  /\ Len(collected') <= Len(there)
                        /\ \A i \in 1 .. Len(collected') : collected'[i] = there[i]
                        /\ answer' = "listed" => Len(collected') = Len(there)
    BY <1>3 DEF AsItIs
  <2>2. Len(collected') <= Len(there)
    BY <1>0, <1>2, <1>4, <2>1 DEF AsItIs
  <2>3. \A i \in 1 .. Len(collected') : collected'[i] = there[i]
    BY <1>0, <1>1, <1>2, <1>4, <1>6, <2>1 DEF AsItIs
  <2> QED BY <1>1, <1>4, <1>2, <1>8, <2>2, <2>3, SMTT(30)
<1> QED BY <1>7, <1>9, <1>10 DEF PageInv

\* A name that is added pushes the others towards the end, not under the offset.
LEMMA PageAdds == ASSUME Page!PagesAssumption, PageInv, Page!Adds PROVE PageInv'
<1>0. Page!TypeOK /\ BelowCap /\ Covered /\ AsItIs
  BY DEF PageInv
<1>1. PICK n \in PageNames \ Page!ToSet(there), i \in 1 .. Len(there) + 1 :
         there' = Page!InsertAt(there, i, n)
  BY DEF Page!Adds
<1>2. /\ UNCHANGED <<totals, collected, page, answer, steady, removed>>
      /\ answer = "none"
  BY DEF Page!Adds
<1>3. there \in Seq(PageNames) /\ Len(there) \in Nat /\ collected \in Seq(PageNames) /\ Len(collected) \in Nat
  BY <1>0 DEF Page!TypeOK
<1>4. /\ there' \in Seq(PageNames) /\ Len(there') = Len(there) + 1 /\ there'[i] = n
      /\ \A k \in 1 .. Len(there) + 1 : (k < i => there'[k] = there[k]) /\ (k > i => there'[k] = there[k - 1])
  BY <1>1, <1>3, PageInserted, SMTT(30)
<1>5. \A k \in 1 .. Len(there) + 1 : k # i =>
         \E j \in 1 .. Len(there) : j <= k /\ there'[k] = there[j] /\ (k < i => j = k) /\ (k > i => j = k - 1)
  <2>1. SUFFICES ASSUME NEW k \in 1 .. Len(there) + 1, k # i
                 PROVE  \E j \in 1 .. Len(there) :
                           j <= k /\ there'[k] = there[j] /\ (k < i => j = k) /\ (k > i => j = k - 1)
    OBVIOUS
  <2>2. CASE k < i
    BY <1>3, <1>4, <2>1, <2>2
  <2>3. CASE k > i
    <3>1. k - 1 \in 1 .. Len(there)
      BY <1>3, <2>1, <2>3
    <3> QED BY <1>3, <1>4, <2>1, <2>3, <3>1
  <2> QED BY <2>1, <2>2, <2>3
<1>6. Page!IsInjective(there)'
  <2>1. SUFFICES ASSUME NEW k \in 1 .. Len(there) + 1, NEW m \in 1 .. Len(there) + 1, there'[k] = there'[m]
                 PROVE  k = m
    BY <1>4 DEF Page!IsInjective
  <2>2. \A j \in 1 .. Len(there) : there[j] # n
    BY <1>1, <1>3 DEF Page!ToSet
  <2>3. \A j, l \in 1 .. Len(there) : there[j] = there[l] => j = l
    BY <1>0, <1>3 DEF Page!TypeOK, Page!IsInjective
  <2>4. k = i <=> m = i
    BY <1>4, <1>5, <2>1, <2>2
  <2> QED BY <1>3, <1>5, <2>1, <2>3, <2>4
<1>7. steady \subseteq Page!ToSet(there)'
  <2>1. SUFFICES ASSUME NEW j \in 1 .. Len(there) PROVE \E k \in 1 .. Len(there) + 1 : there'[k] = there[j]
    <3>1. \A x \in steady : \E j \in 1 .. Len(there) : there[j] = x
      BY <1>0, <1>3, PageSet DEF Page!TypeOK
    <3>2. \A k \in 1 .. Len(there) + 1 : there'[k] \in Page!ToSet(there)'
      BY <1>4, SMTT(30) DEF Page!ToSet
    <3> QED BY <3>1, <3>2
  <2>2. CASE j < i
    <3>1. j \in 1 .. Len(there) + 1
      BY <1>3
    <3> QED BY <1>4, <2>2, <3>1
  <2>3. CASE j >= i
    <3>1. j + 1 \in 1 .. Len(there) + 1 /\ j + 1 > i /\ (j + 1) - 1 = j
      BY <1>3, <2>3
    <3> QED BY <1>4, <3>1
  <2> QED BY <2>2, <2>3
<1>8. changes' \in 0 .. PageChanges /\ changes' # 0 /\ removed \in 0 .. changes'
  <2>1. changes < PageChanges /\ changes' = changes + 1
    BY Zenon DEF Page!Adds
  <2>2. changes \in 0 .. PageChanges /\ removed \in 0 .. changes
    BY <1>0 DEF Page!TypeOK
  <2> QED BY <2>1, <2>2 DEF Page!PagesAssumption
<1>9. Page!TypeOK' /\ BelowCap' /\ AsItIs'
  BY <1>0, <1>2, <1>4, <1>6, <1>7, <1>8 DEF Page!TypeOK, BelowCap, AsItIs
<1>10. Covered'
  <2>1. ASSUME NEW m \in Missed' PROVE m \in Missed
    <3>1. /\ m \in steady /\ m \notin Page!ToSet(collected)
          /\ \E k \in 1 .. Len(there') : k <= Len(collected) /\ there'[k] = m
      BY <1>2, <2>1 DEF Missed
    <3>2. PICK k \in 1 .. Len(there) + 1 : k <= Len(collected) /\ there'[k] = m
      BY <1>4, <3>1
    <3>3. k # i
      BY <1>0, <1>1, <1>4, <3>1, <3>2 DEF Page!TypeOK
    <3>4. PICK j \in 1 .. Len(there) : j <= k /\ there'[k] = there[j]
      BY <1>5, <3>2, <3>3
    <3>5. j <= Len(collected) /\ there[j] = m
      BY <1>3, <3>2, <3>4
    <3> QED BY <3>1, <3>5 DEF Missed
  <2>2. removed' \in Nat /\ removed <= removed'
    BY <1>0, <1>2 DEF Page!TypeOK
  <2>3. IsFiniteSet(Missed') /\ Cardinality(Missed') <= removed'
    BY <1>0, <2>1, <2>2, MissedFewer
  <2> QED BY <1>2, <2>3 DEF Covered
<1> QED BY <1>9, <1>10 DEF PageInv

\* A name that is removed is no more to be listed; from before the offset it moves one
\* other name under it.
LEMMA PageRemoves == ASSUME Page!PagesAssumption, PageInv, Page!Removes PROVE PageInv'
<1>0. Page!TypeOK /\ BelowCap /\ Covered /\ AsItIs
  BY DEF PageInv
<1>1. PICK i \in 1 .. Len(there) :
         /\ there' = Page!RemoveAt(there, i) /\ steady' = steady \ {there[i]}
         /\ removed' = IF i <= Len(collected) THEN removed + 1 ELSE removed
  BY DEF Page!Removes
<1>2. UNCHANGED <<totals, collected, page, answer>> /\ answer = "none"
  BY DEF Page!Removes
<1>3. there \in Seq(PageNames) /\ Len(there) \in Nat
  BY <1>0 DEF Page!TypeOK
<1>4. /\ there' \in Seq(PageNames) /\ Len(there') = Len(there) - 1
      /\ \A k \in 1 .. Len(there) - 1 : there'[k] = IF k < i THEN there[k] ELSE there[k + 1]
  BY <1>1, <1>3, PageRemoved
<1>5. Page!IsInjective(there)'
  <2>1. \A j, l \in 1 .. Len(there) : there[j] = there[l] => j = l
    BY <1>0, <1>3 DEF Page!TypeOK, Page!IsInjective
  <2>2. SUFFICES ASSUME NEW k \in 1 .. Len(there) - 1, NEW m \in 1 .. Len(there) - 1, there'[k] = there'[m]
                 PROVE  k = m
    BY <1>3, <1>4 DEF Page!IsInjective
  <2>3. \A j \in 1 .. Len(there) - 1 : j \in 1 .. Len(there) /\ j + 1 \in 1 .. Len(there)
    BY <1>3
  <2>4. there'[k] = there[IF k < i THEN k ELSE k + 1] /\ there'[m] = there[IF m < i THEN m ELSE m + 1]
    BY <1>4
  <2>5. (IF k < i THEN k ELSE k + 1) = (IF m < i THEN m ELSE m + 1)
    BY <2>1, <2>2, <2>3, <2>4
  <2> QED BY <1>3, <2>5
<1>6. steady' \subseteq Page!ToSet(there)'
  <2>1. SUFFICES ASSUME NEW j \in 1 .. Len(there), j # i
                 PROVE  \E k \in 1 .. Len(there) - 1 : there'[k] = there[j]
    <3>1. \A x \in steady' : \E j \in 1 .. Len(there) : j # i /\ there[j] = x
      BY <1>0, <1>1, <1>3, PageSet DEF Page!TypeOK
    <3>2. \A k \in 1 .. Len(there) - 1 : there'[k] \in Page!ToSet(there)'
      BY <1>3, <1>4 DEF Page!ToSet
    <3> QED BY <3>1, <3>2
  <2>2. CASE j < i
    BY <1>3, <1>4, <2>2
  <2>3. CASE j > i
    <3>1. j - 1 \in 1 .. Len(there) - 1 /\ ~(j - 1 < i) /\ (j - 1) + 1 = j
      BY <1>3, <2>3
    <3> QED BY <1>4, <3>1
  <2> QED BY <2>1, <2>2, <2>3
<1>7. changes' \in 0 .. PageChanges /\ changes' # 0 /\ removed' \in 0 .. changes'
  <2>1. changes < PageChanges /\ changes' = changes + 1
    BY Zenon DEF Page!Removes
  <2>2. changes \in 0 .. PageChanges /\ removed \in 0 .. changes
    BY <1>0 DEF Page!TypeOK
  <2> QED BY <1>1, <2>1, <2>2 DEF Page!PagesAssumption
<1>8. Page!TypeOK' /\ BelowCap' /\ AsItIs'
  BY <1>0, <1>2, <1>4, <1>5, <1>6, <1>7 DEF Page!TypeOK, BelowCap, AsItIs
<1> DEFINE off == Len(collected)
<1>9. off \in Nat /\ removed \in Nat /\ removed' \in Nat /\ removed <= removed'
  BY <1>0, <1>1 DEF Page!TypeOK
<1>10. ASSUME NEW m \in Missed'
       PROVE  /\ m \in steady /\ m \notin Page!ToSet(collected)
              /\ \E k \in 1 .. Len(there) - 1 :
                    k <= off /\ m = IF k < i THEN there[k] ELSE there[k + 1]
  <2>1. /\ m \in steady /\ m \notin Page!ToSet(collected)
        /\ \E k \in 1 .. Len(there') : k <= off /\ there'[k] = m
    BY <1>1, <1>2, <1>10 DEF Missed
  <2> QED BY <1>4, <2>1
<1>11. ASSUME NEW m \in Missed', m \notin Missed PROVE i <= off /\ m = there[off + 1]
  <2> HIDE DEF off
  <2>1. PICK k \in 1 .. Len(there) - 1 : k <= off /\ m = IF k < i THEN there[k] ELSE there[k + 1]
    BY <1>10, <1>11
  <2>2. \A j \in 1 .. Len(there) : j <= off => there[j] # m
    BY <1>10, <1>11 DEF Missed, off
  <2>3. k \in 1 .. Len(there) /\ k + 1 \in 1 .. Len(there) /\ k \in Nat
    BY <1>3, <2>1
  <2>4. there[k] # m
    BY <2>1, <2>2, <2>3
  <2>5. ~(k < i) /\ m = there[k + 1]
    BY <2>1, <2>4
  <2>6. ~(k + 1 <= off)
    BY <2>2, <2>3, <2>5
  <2>7. k = off /\ i <= off
    BY <1>9, <2>1, <2>3, <2>5, <2>6
  <2> QED BY <2>5, <2>7
<1>12. IsFiniteSet(Missed') /\ Cardinality(Missed') <= removed'
  <2>1. CASE i <= off
    <3>1. IsFiniteSet(Missed) /\ Cardinality(Missed) <= removed /\ Cardinality(Missed) \in Nat
      BY <1>0, FS_CardinalityType DEF Covered
    <3> DEFINE both == Missed \cup {there[off + 1]}
    <3>2. /\ IsFiniteSet(both)
          /\ Cardinality(both) = Cardinality(Missed) \/ Cardinality(both) = Cardinality(Missed) + 1
      BY <3>1, FS_AddElement
    <3>3. Missed' \subseteq both
      BY <1>11
    <3> HIDE DEF both
    <3>4. /\ IsFiniteSet(Missed') /\ Cardinality(Missed') <= Cardinality(both)
          /\ Cardinality(Missed') \in Nat /\ Cardinality(both) \in Nat
      BY <3>2, <3>3, FS_Subset, FS_CardinalityType
    <3>5. removed' = removed + 1
      BY <1>1, <2>1
    <3> DEFINE m == Cardinality(Missed)
               n == Cardinality(Missed')
               b == Cardinality(both)
    <3>6. /\ m \in Nat /\ n \in Nat /\ b \in Nat /\ n <= b /\ (b = m \/ b = m + 1) /\ m <= removed
      BY <3>1, <3>2, <3>4
    <3> HIDE DEF m, n, b
    <3>7. n <= removed'
      BY <1>9, <3>5, <3>6
    <3> QED BY <3>4, <3>7 DEF n
  <2>2. CASE ~(i <= off)
    BY <1>0, <1>9, <1>11, <2>2, MissedFewer
  <2> QED BY <2>1, <2>2
<1>13. Covered'
  BY <1>2, <1>12 DEF Covered
<1> QED BY <1>8, <1>13 DEF PageInv

\* Every action keeps the invariant.
LEMMA PageStep == ASSUME Page!PagesAssumption, PageInv, [Page!Next]_(Page!vars) PROVE PageInv'
<1>1. CASE Page!Fails \/ UNCHANGED Page!vars
  BY <1>1 DEF Page!Fails, Page!vars, PageInv, Page!TypeOK, BelowCap, Covered, Missed, AsItIs
<1> QED BY <1>1, PageFetches, PageAdds, PageRemoves DEF Page!Next

\* The invariant has what the run checks.
LEMMA PageHolds ==
    ASSUME Page!PagesAssumption, PageInv PROVE Page!NothingOmitted /\ Page!ListedAsIs
<1>0. Page!TypeOK /\ Covered /\ AsItIs
  BY DEF PageInv
<1>1. there \in Seq(PageNames) /\ Len(there) \in Nat /\ collected \in Seq(PageNames) /\ Len(collected) \in Nat
  BY <1>0 DEF Page!TypeOK
<1>2. Page!NothingOmitted
  <2>1. SUFFICES ASSUME answer = "listed"
                 PROVE  Cardinality(steady \ Page!ToSet(collected)) <= removed
    <3>1. \A S : Page!Cardinality(S) = Cardinality(S)
      BY Zenon DEF Page!Cardinality, Cardinality
    <3> QED BY <3>1 DEF Page!NothingOmitted
  <2>2. ASSUME NEW n \in steady \ Page!ToSet(collected) PROVE n \in Missed
    <3>1. PICK i \in 1 .. Len(there) : there[i] = n
      BY <1>0, <1>1, <2>2, PageSet DEF Page!TypeOK
    <3>2. i <= Len(collected)
      BY <1>0, <1>1, <2>1 DEF Covered
    <3> QED BY <2>2, <3>1, <3>2 DEF Missed
  <2>3. steady \ Page!ToSet(collected) = Missed
    BY <2>2 DEF Missed
  <2> QED BY <1>0, <2>3 DEF Covered
<1>3. Page!ListedAsIs
  <2>1. SUFFICES ASSUME changes = 0
                 PROVE  Page!IsPrefix(collected, there) /\ (answer = "listed" => collected = there)
    BY DEF Page!ListedAsIs
  <2>2. /\ Len(collected) <= Len(there) /\ \A i \in 1 .. Len(collected) : collected[i] = there[i]
        /\ answer = "listed" => Len(collected) = Len(there)
    BY <1>0, <2>1 DEF AsItIs
  <2>3. SubSeq(collected, 1, Len(collected)) = SubSeq(there, 1, Len(collected))
    BY <1>1, <2>2
  <2>4. answer = "listed" => collected = there
    BY <1>1, <2>2
  <2> QED BY <2>2, <2>3, <2>4 DEF Page!IsPrefix
<1> QED BY <1>2, <1>3

-----------------------------------------------------------------------------
(* Resizing a file over HTTP. *)

\* No more is fetched than is wanted, and either all of it or the length asked for; what
\* is uploaded is of the version found.
Fetched ==
    /\ want \in {0, size}
    /\ step \in {"upload", "ok"} /\ size = 0 => data = <<>>
    /\ step \in {"upload", "ok"} /\ size # 0 =>
           found \in 1 .. Len(Lengths) /\ data = Size!Resized(Size!Whole(found), size)

SizeInv == Size!TypeOK /\ Fetched

\* A version's bytes.
LEMMA SizeWhole ==
    ASSUME Size!ResizeAssumption, NEW v \in 1 .. Len(Lengths)
    PROVE  /\ Lengths[v] \in Nat /\ Size!Whole(v) \in Seq(0 .. Len(Lengths))
           /\ Len(Size!Whole(v)) = Lengths[v]
           /\ \A i \in 1 .. Lengths[v] : Size!Whole(v)[i] = v
<1>1. Lengths[v] \in Nat
  BY DEF Size!ResizeAssumption
<1>2. \A i \in 1 .. Lengths[v] : v \in 0 .. Len(Lengths)
  BY DEF Size!ResizeAssumption
<1> QED BY <1>1, <1>2 DEF Size!Whole

\* Padding makes bytes of bytes.
LEMMA SizeResized ==
    ASSUME Size!ResizeAssumption, NEW f \in Seq(0 .. Len(Lengths)), NEW n \in Nat
    PROVE  Size!Resized(f, n) \in Seq(0 .. Len(Lengths))
<1>1. \A i \in 1 .. n : (IF i <= Len(f) THEN f[i] ELSE 0) \in 0 .. Len(Lengths)
  BY DEF Size!ResizeAssumption
<1> QED BY <1>1 DEF Size!Resized

\* What is cut to the length asked for is the same whether the NAS or the client cut it.
LEMMA SizeCut ==
    ASSUME Size!ResizeAssumption, NEW f \in Seq(0 .. Len(Lengths)), NEW n \in Nat, n <= Len(f)
    PROVE  /\ SubSeq(f, 1, n) \in Seq(0 .. Len(Lengths))
           /\ Size!Resized(SubSeq(f, 1, n), n) = Size!Resized(f, n)
<1>1. SubSeq(f, 1, n) \in Seq(0 .. Len(Lengths)) /\ Len(SubSeq(f, 1, n)) = n
  OBVIOUS
<1>2. \A i \in 1 .. n : SubSeq(f, 1, n)[i] = f[i]
  OBVIOUS
<1> QED BY <1>1, <1>2 DEF Size!Resized

\* Nothing to keep is uploaded at once.
LEMMA SizeInit == ASSUME Size!ResizeAssumption, Size!Init PROVE SizeInv
BY DEF Size!ResizeAssumption, Size!Init, SizeInv, Size!TypeOK, Fetched

\* Every action keeps the invariant.
LEMMA SizeStep == ASSUME Size!ResizeAssumption, SizeInv, [Size!Next]_(Size!vars) PROVE SizeInv'
<1>0. Size!TypeOK /\ Fetched
  BY DEF SizeInv
<1>1. ASSUME Size!Stats PROVE SizeInv'
  <2>1. Lengths[now] \in Nat
    BY <1>0, SizeWhole DEF Size!TypeOK
  <2> QED BY <1>0, <1>1, <2>1 DEF Size!Stats, Size!Wanted, Size!ResizeAssumption, SizeInv,
             Size!TypeOK, Fetched
<1>2. ASSUME Size!Downloads PROVE SizeInv'
  <2>1. CASE step' = "failed"
    BY <1>0, <1>2, <2>1 DEF Size!Downloads, SizeInv, Size!TypeOK, Fetched
  <2>2. CASE step' = "upload"
    <3> DEFINE all == Size!Whole(now)
    <3>1. all \in Seq(0 .. Len(Lengths)) /\ size \in Nat /\ want \in {0, size}
      BY <1>0, SizeWhole DEF Size!TypeOK, Size!ResizeAssumption, Fetched
    <3>2. data' = Size!Resized(IF want = 0 \/ want > Len(all) THEN all ELSE SubSeq(all, 1, want), size)
      BY <1>2, <2>2 DEF Size!Downloads
    <3>3. data' = Size!Resized(all, size)
      BY <3>1, <3>2, SizeCut
    <3>4. data' \in Seq(0 .. Len(Lengths))
      BY <3>1, <3>3, SizeResized
    <3>5. found' = now /\ UNCHANGED <<now, size, want>>
      BY <1>2, <2>2 DEF Size!Downloads
    <3>6. size = 0 => data' = <<>>
      BY <3>3 DEF Size!Resized
    <3> QED BY <1>0, <2>2, <3>3, <3>4, <3>5, <3>6 DEF SizeInv, Size!TypeOK, Fetched,
               Size!ResizeAssumption
  <2> QED BY <1>2, <2>1, <2>2 DEF Size!Downloads
<1>3. ASSUME Size!Uploads \/ Size!Replaced \/ UNCHANGED Size!vars PROVE SizeInv'
  BY <1>0, <1>3, SMTT(30) DEF Size!Uploads, Size!Replaced, Size!vars, SizeInv, Size!TypeOK, Fetched,
     Size!ResizeAssumption
<1> QED BY <1>1, <1>2, <1>3 DEF Size!Next

-----------------------------------------------------------------------------
(* The buffer writes gather in: what it says it holds, what it holds, and  *)
(* where they may differ.                                                  *)

\* A file of so many bytes, what it should hold and where it need not: what lies beyond its
\* length was never told, and ends in a write that was cut short.
Tallies(f, l, t, s) ==
    /\ f \in Buffer!Files /\ t \in Buffer!Files
    /\ l = Len(t) /\ l <= Len(f)
    /\ s \subseteq 1 .. Len(f)
    /\ Len(f) > l => Len(f) \in s
    /\ \A i \in 1 .. Len(f) : i \notin s => f[i] = IF i <= l THEN t[i] ELSE 0

BufferTallies ==
    ~ gone => /\ Tallies(Buffer!Contents, len, told, torn)
              /\ store = "memory" => memory = told /\ torn = {}

BufferInv == Buffer!TypeOK /\ Buffer!OthersKept /\ BufferTallies

\* What a byte may be.
Holds == Bytes \cup {0}

\* A file is a sequence of bytes, no longer than the bound.
LEMMA FilesAre ==
    ASSUME Buffer!SpillAssumption
    PROVE  \A f : f \in Buffer!Files <=> f \in Seq(Holds) /\ Len(f) <= MaxLen
<1>1. MaxLen \in Nat
  BY DEF Buffer!SpillAssumption
<1>2. ASSUME NEW f \in Buffer!Files PROVE f \in Seq(Holds) /\ Len(f) <= MaxLen
  <2>1. PICK n \in 0 .. MaxLen : f \in [1 .. n -> Holds]
    BY DEF Buffer!Files, Holds
  <2> QED BY <1>1, <2>1
<1>3. ASSUME NEW f \in Seq(Holds), Len(f) <= MaxLen PROVE f \in Buffer!Files
  <2>1. Len(f) \in 0 .. MaxLen /\ f \in [1 .. Len(f) -> Holds]
    BY <1>1, <1>3
  <2> QED BY <2>1 DEF Buffer!Files, Holds
<1> QED BY <1>2, <1>3

\* What a resize makes of a file.
LEMMA ResizedIs ==
    ASSUME Buffer!SpillAssumption, NEW f \in Buffer!Files, NEW n \in 0 .. MaxLen
    PROVE  /\ Buffer!Resized(f, n) \in Buffer!Files /\ Len(Buffer!Resized(f, n)) = n
           /\ Len(f) \in 0 .. MaxLen
           /\ \A i \in 1 .. n : Buffer!Resized(f, n)[i] = IF i <= Len(f) THEN f[i] ELSE 0
<1>1. f \in Seq(Holds) /\ Len(f) <= MaxLen /\ Len(f) \in Nat /\ MaxLen \in Nat /\ n \in Nat
  BY FilesAre DEF Buffer!SpillAssumption
<1>2. Buffer!Resized(f, n) = [i \in 1 .. n |-> IF i <= Len(f) THEN f[i] ELSE 0]
  BY DEF Buffer!Resized
<1>3. \A i \in 1 .. n : (IF i <= Len(f) THEN f[i] ELSE 0) \in Holds
  BY <1>1 DEF Holds
<1>4. Buffer!Resized(f, n) \in [1 .. n -> Holds]
  BY <1>2, <1>3
<1>5. Buffer!Resized(f, n) \in Seq(Holds) /\ Len(Buffer!Resized(f, n)) = n
  BY <1>1, <1>4
<1> QED BY <1>1, <1>2, <1>5, FilesAre

\* What a write makes of a file.
LEMMA WrittenIs ==
    ASSUME Buffer!SpillAssumption, NEW f \in Buffer!Files, NEW from \in Nat, NEW bytes \in Seq(Holds),
           from + Len(bytes) <= MaxLen
    PROVE  /\ Buffer!Written(f, from, bytes) \in Buffer!Files
           /\ Len(Buffer!Written(f, from, bytes)) = Buffer!Larger(Len(f), from + Len(bytes))
           /\ \A i \in 1 .. Buffer!Larger(Len(f), from + Len(bytes)) :
                 Buffer!Written(f, from, bytes)[i] =
                    IF from < i /\ i <= from + Len(bytes) THEN bytes[i - from]
                    ELSE IF i <= Len(f) THEN f[i] ELSE 0
<1> DEFINE n == Buffer!Larger(Len(f), from + Len(bytes))
           g == Buffer!Resized(f, n)
           w == Buffer!Written(f, from, bytes)
<1>1. f \in Seq(Holds) /\ Len(f) \in Nat /\ MaxLen \in Nat /\ Len(bytes) \in Nat /\ Len(f) <= MaxLen
  BY FilesAre DEF Buffer!SpillAssumption
<1>2. n \in 0 .. MaxLen
  BY <1>1 DEF Buffer!Larger
<1> HIDE DEF n
<1>3. /\ g \in Buffer!Files /\ Len(g) = n
      /\ \A i \in 1 .. n : g[i] = IF i <= Len(f) THEN f[i] ELSE 0
  BY <1>2, ResizedIs
<1>4. w = [i \in DOMAIN g |-> IF from < i /\ i <= from + Len(bytes) THEN bytes[i - from] ELSE g[i]]
  BY DEF Buffer!Written, n
<1> HIDE DEF g, w
<1>5. g \in Seq(Holds)
  BY <1>3, FilesAre
<1>6. DOMAIN g = 1 .. n /\ \A i \in 1 .. n : g[i] \in Holds
  BY <1>2, <1>3, <1>5
<1>7. \A i \in 1 .. n : from < i /\ i <= from + Len(bytes) => bytes[i - from] \in Holds
  <2>1. SUFFICES ASSUME NEW i \in 1 .. n, from < i, i <= from + Len(bytes)
                 PROVE  bytes[i - from] \in Holds
    OBVIOUS
  <2>2. i - from \in 1 .. Len(bytes)
    BY <1>1, <1>2, <2>1
  <2> QED BY <2>2
<1>8. w \in [1 .. n -> Holds]
  BY <1>4, <1>6, <1>7
<1>9. w \in Seq(Holds) /\ Len(w) = n
  BY <1>2, <1>8
<1>10. \A i \in 1 .. n : w[i] = IF from < i /\ i <= from + Len(bytes) THEN bytes[i - from]
                                ELSE IF i <= Len(f) THEN f[i] ELSE 0
  BY <1>3, <1>4, <1>6
<1>11. w \in Buffer!Files
  BY <1>2, <1>9, FilesAre
<1> QED BY <1>9, <1>10, <1>11 DEF w, n

\* A write that succeeds makes up for those cut short where it writes.
LEMMA WriteTallies ==
    ASSUME Buffer!SpillAssumption, NEW f, NEW l, NEW t, NEW s, Tallies(f, l, t, s),
           NEW from \in Nat, NEW bytes \in Seq(Holds), Len(bytes) > 0, from + Len(bytes) <= MaxLen
    PROVE  Tallies(Buffer!Written(f, from, bytes), Buffer!Larger(l, from + Len(bytes)),
                   Buffer!Written(t, from, bytes), s \ (from + 1 .. from + Len(bytes)))
<1> DEFINE over == from + Len(bytes)
           wf == Buffer!Written(f, from, bytes)
           wt == Buffer!Written(t, from, bytes)
<1>1. /\ f \in Buffer!Files /\ t \in Buffer!Files /\ l = Len(t) /\ l <= Len(f)
      /\ s \subseteq 1 .. Len(f) /\ (Len(f) > l => Len(f) \in s)
      /\ \A i \in 1 .. Len(f) : i \notin s => f[i] = IF i <= l THEN t[i] ELSE 0
  BY DEF Tallies
<1>2. Len(f) \in Nat /\ l \in Nat /\ Len(bytes) \in Nat /\ MaxLen \in Nat /\ over \in Nat /\ from < over
  BY <1>1, FilesAre DEF Buffer!SpillAssumption
<1>3. /\ wf \in Buffer!Files /\ Len(wf) = Buffer!Larger(Len(f), over)
      /\ \A i \in 1 .. Buffer!Larger(Len(f), over) :
            wf[i] = IF from < i /\ i <= over THEN bytes[i - from]
                    ELSE IF i <= Len(f) THEN f[i] ELSE 0
  BY <1>1, WrittenIs
<1>4. /\ wt \in Buffer!Files /\ Len(wt) = Buffer!Larger(l, over)
      /\ \A i \in 1 .. Buffer!Larger(l, over) :
            wt[i] = IF from < i /\ i <= over THEN bytes[i - from]
                    ELSE IF i <= l THEN t[i] ELSE 0
  BY <1>1, WrittenIs
<1> HIDE DEF over, wf, wt
<1>5. /\ Len(wf) = IF Len(f) > over THEN Len(f) ELSE over
      /\ Len(wt) = IF l > over THEN l ELSE over
  BY <1>3, <1>4 DEF Buffer!Larger
<1>6. /\ \A i \in 1 .. Len(wf) : wf[i] = IF from < i /\ i <= over THEN bytes[i - from]
                                         ELSE IF i <= Len(f) THEN f[i] ELSE 0
      /\ \A i \in 1 .. Len(wt) : wt[i] = IF from < i /\ i <= over THEN bytes[i - from]
                                         ELSE IF i <= l THEN t[i] ELSE 0
  BY <1>3, <1>4
<1>7. /\ Len(wt) <= Len(wf) /\ s \ (from + 1 .. over) \subseteq 1 .. Len(wf)
      /\ Len(wf) > Len(wt) => Len(wf) \in s \ (from + 1 .. over)
  BY <1>1, <1>2, <1>5
<1>8. ASSUME NEW i \in 1 .. Len(wf), i \notin s \ (from + 1 .. over)
      PROVE  wf[i] = IF i <= Len(wt) THEN wt[i] ELSE 0
  <2>1. CASE from < i /\ i <= over
    <3>1. i \in 1 .. Len(wt)
      BY <1>2, <1>5, <2>1
    <3> QED BY <1>6, <2>1, <3>1
  <2>2. CASE ~(from < i /\ i <= over)
    <3>1. i \notin s
      BY <1>2, <1>8, <2>2
    <3>2. wf[i] = IF i <= Len(f) THEN f[i] ELSE 0
      BY <1>6, <2>2
    <3>3. wf[i] = IF i <= l THEN t[i] ELSE 0
      BY <1>1, <1>2, <3>1, <3>2
    <3>4. CASE i <= Len(wt)
      <4>1. wt[i] = IF i <= l THEN t[i] ELSE 0
        BY <1>6, <2>2, <3>4
      <4> QED BY <3>3, <3>4, <4>1
    <3>5. CASE ~(i <= Len(wt))
      BY <1>2, <1>5, <3>3, <3>5
    <3> QED BY <3>4, <3>5
  <2> QED BY <2>1, <2>2
<1>9. Buffer!Larger(l, over) = Len(wt)
  BY <1>4
<1> QED BY <1>3, <1>4, <1>7, <1>8, <1>9 DEF Tallies, wf, wt, over

\* One that is cut short leaves a mark wherever it wrote.
LEMMA CutTallies ==
    ASSUME Buffer!SpillAssumption, NEW f, NEW l, NEW t, NEW s, Tallies(f, l, t, s),
           NEW from \in Nat, NEW bytes \in Seq(Holds), Len(bytes) > 0, from + Len(bytes) <= MaxLen
    PROVE  Tallies(Buffer!Written(f, from, bytes), l, t, s \cup (from + 1 .. from + Len(bytes)))
<1> DEFINE over == from + Len(bytes)
           wf == Buffer!Written(f, from, bytes)
<1>1. /\ f \in Buffer!Files /\ t \in Buffer!Files /\ l = Len(t) /\ l <= Len(f)
      /\ s \subseteq 1 .. Len(f) /\ (Len(f) > l => Len(f) \in s)
      /\ \A i \in 1 .. Len(f) : i \notin s => f[i] = IF i <= l THEN t[i] ELSE 0
  BY DEF Tallies
<1>2. Len(f) \in Nat /\ l \in Nat /\ Len(bytes) \in Nat /\ MaxLen \in Nat /\ over \in Nat /\ from < over
  BY <1>1, FilesAre DEF Buffer!SpillAssumption
<1>3. /\ wf \in Buffer!Files /\ Len(wf) = Buffer!Larger(Len(f), over)
      /\ \A i \in 1 .. Buffer!Larger(Len(f), over) :
            wf[i] = IF from < i /\ i <= over THEN bytes[i - from]
                    ELSE IF i <= Len(f) THEN f[i] ELSE 0
  BY <1>1, WrittenIs
<1> HIDE DEF over, wf
<1>4. Len(wf) = IF Len(f) > over THEN Len(f) ELSE over
  BY <1>3 DEF Buffer!Larger
<1>5. /\ l <= Len(wf) /\ s \cup (from + 1 .. over) \subseteq 1 .. Len(wf)
      /\ Len(wf) > l => Len(wf) \in s \cup (from + 1 .. over)
  BY <1>1, <1>2, <1>4
<1>6. ASSUME NEW i \in 1 .. Len(wf), i \notin s \cup (from + 1 .. over)
      PROVE  wf[i] = IF i <= l THEN t[i] ELSE 0
  <2>1. ~(from < i /\ i <= over) /\ i \notin s
    BY <1>2, <1>6
  <2>2. wf[i] = IF i <= Len(f) THEN f[i] ELSE 0
    BY <1>3, <2>1
  <2> QED BY <1>1, <1>2, <2>1, <2>2
<1> QED BY <1>1, <1>3, <1>5, <1>6 DEF Tallies, wf, over

\* A resize cuts off the marks beyond it.
LEMMA ResizeTallies ==
    ASSUME Buffer!SpillAssumption, NEW f, NEW l, NEW t, NEW s, Tallies(f, l, t, s),
           NEW n \in 0 .. MaxLen
    PROVE  Tallies(Buffer!Resized(f, n), n, Buffer!Resized(t, n), s \cap (1 .. n))
<1> DEFINE rf == Buffer!Resized(f, n)
           rt == Buffer!Resized(t, n)
<1>1. /\ f \in Buffer!Files /\ t \in Buffer!Files /\ l = Len(t) /\ l <= Len(f)
      /\ \A i \in 1 .. Len(f) : i \notin s => f[i] = IF i <= l THEN t[i] ELSE 0
  BY DEF Tallies
<1>2. Len(f) \in Nat /\ l \in Nat /\ MaxLen \in Nat
  BY <1>1, FilesAre DEF Buffer!SpillAssumption
<1>3. /\ rf \in Buffer!Files /\ Len(rf) = n
      /\ \A i \in 1 .. n : rf[i] = IF i <= Len(f) THEN f[i] ELSE 0
  BY <1>1, ResizedIs
<1>4. /\ rt \in Buffer!Files /\ Len(rt) = n
      /\ \A i \in 1 .. n : rt[i] = IF i <= l THEN t[i] ELSE 0
  BY <1>1, ResizedIs
<1> HIDE DEF rf, rt
<1>5. ASSUME NEW i \in 1 .. n, i \notin s \cap (1 .. n) PROVE rf[i] = IF i <= n THEN rt[i] ELSE 0
  BY <1>1, <1>2, <1>3, <1>4, <1>5
<1> QED BY <1>2, <1>3, <1>4, <1>5 DEF Tallies, rf, rt

\* The buffer's file among the others of the directory.
Placed(t, d) ==
    /\ t \in Buffer!Names \ planted
    /\ DOMAIN d \subseteq Buffer!Names /\ DOMAIN d \ planted = {t}
    /\ \A n \in DOMAIN d : d[n] \in Buffer!Files
    /\ \A n \in planted : n \in DOMAIN d /\ d[n] = Buffer!Foreign

\* What such a file's length, reference and marks range over.
LEMMA TalliesTyped ==
    ASSUME Buffer!SpillAssumption, NEW f, NEW l, NEW t, NEW s, Tallies(f, l, t, s)
    PROVE  l \in 0 .. MaxLen /\ t \in Buffer!Files /\ s \subseteq 1 .. MaxLen
<1>1. f \in Buffer!Files /\ t \in Buffer!Files /\ l = Len(t) /\ s \subseteq 1 .. Len(f)
  BY DEF Tallies
<1>2. Len(f) \in Nat /\ Len(t) \in Nat /\ Len(f) <= MaxLen /\ Len(t) <= MaxLen /\ MaxLen \in Nat
  BY <1>1, FilesAre DEF Buffer!SpillAssumption
<1> QED BY <1>1, <1>2

\* An operation that leaves the bytes in memory.
LEMMA KeptInMemory ==
    ASSUME Buffer!SpillAssumption, BufferInv, ~ gone, store = "memory",
           UNCHANGED <<store, temp, disk, planted, gone, usable>>,
           Tallies(memory', len', told', torn'), memory' = told', torn' = {}
    PROVE  BufferInv'
<1>1. Buffer!TypeOK /\ Buffer!OthersKept
  BY DEF BufferInv
<1>2. len' \in 0 .. MaxLen /\ told' \in Buffer!Files /\ torn' \subseteq 1 .. MaxLen
  BY TalliesTyped
<1>3. Buffer!TypeOK'
  BY <1>1, <1>2 DEF Buffer!TypeOK, Buffer!Files
<1>4. Buffer!OthersKept'
  BY <1>1 DEF Buffer!OthersKept
<1>5. Buffer!Contents' = memory'
  BY DEF Buffer!Contents
<1> QED BY <1>3, <1>4, <1>5 DEF BufferInv, BufferTallies

\* One that leaves them in the buffer's file.
LEMMA KeptOnDisk ==
    ASSUME Buffer!SpillAssumption, Buffer!TypeOK, NEW t, NEW d, Placed(t, d),
           UNCHANGED <<planted, gone, usable>>, ~ gone,
           store' = "spilled", temp' = t, memory' = <<>>,
           NEW f, (disk' = d /\ f = d[t]) \/ disk' = Buffer!Put(d, t, f),
           Tallies(f, len', told', torn')
    PROVE  BufferInv'
<1>1. /\ t \in Buffer!Names \ planted
      /\ DOMAIN d \subseteq Buffer!Names /\ DOMAIN d \ planted = {t}
      /\ \A n \in DOMAIN d : d[n] \in Buffer!Files
      /\ \A n \in planted : n \in DOMAIN d /\ d[n] = Buffer!Foreign
  BY DEF Placed
<1>2. f \in Buffer!Files /\ <<>> \in Buffer!Files
  <2>1. f \in Buffer!Files
    BY DEF Tallies
  <2>2. <<>> \in Seq(Holds) /\ Len(<<>>) <= MaxLen
    BY DEF Buffer!SpillAssumption
  <2> QED BY <2>1, <2>2, FilesAre
<1>3. /\ DOMAIN disk' = DOMAIN d /\ disk'[t] = f
      /\ \A n \in DOMAIN d : n # t => disk'[n] = d[n]
  <2>1. t \in DOMAIN d
    BY <1>1
  <2>2. CASE disk' = Buffer!Put(d, t, f)
    BY <2>1, <2>2 DEF Buffer!Put
  <2> QED BY <2>1, <2>2
<1>4. len' \in 0 .. MaxLen /\ told' \in Buffer!Files /\ torn' \subseteq 1 .. MaxLen
  BY TalliesTyped
<1>5. \A n \in DOMAIN d : disk'[n] \in Buffer!Files
  BY <1>1, <1>2, <1>3
<1>6. Buffer!TypeOK'
  BY <1>1, <1>2, <1>3, <1>4, <1>5 DEF Buffer!TypeOK, Buffer!Files
<1>7. Buffer!OthersKept'
  <2>1. \A n \in planted : n # t
    BY <1>1
  <2> QED BY <1>1, <1>3, <2>1 DEF Buffer!OthersKept, Buffer!Foreign
<1>8. Buffer!Contents' = f
  BY <1>3 DEF Buffer!Contents
<1> QED BY <1>6, <1>7, <1>8 DEF BufferInv, BufferTallies

\* The first of the names nobody has is one nobody has.
LEMMA CandidateIsFree ==
    ASSUME Buffer!SpillAssumption, Buffer!Free # {} PROVE Buffer!Candidate \in Buffer!Free
<1>1. Buffer!Free \in SUBSET Nat
  BY DEF Buffer!Free, Buffer!Names
<1>2. \E n \in Buffer!Free : \A m \in Buffer!Free : n <= m
  <2>1. PICK n \in Buffer!Free : \A m \in Buffer!Free : <<m, n>> \notin OpToRel(<, Nat)
    BY <1>1, NatLessThanWellFounded, WFMin
  <2>2. \A m \in Buffer!Free : n <= m
    <3>1. SUFFICES ASSUME NEW m \in Buffer!Free PROVE n <= m
      OBVIOUS
    <3>2. m \in Nat /\ n \in Nat
      BY <1>1
    <3>3. <<m, n>> \notin {ss \in Nat \X Nat : ss[1] < ss[2]}
      BY <2>1, Zenon DEF OpToRel
    <3>4. ~(m < n)
      BY <3>2, <3>3
    <3> QED BY <3>2, <3>4
  <2> QED BY <2>2
<1> QED BY <1>2 DEF Buffer!Candidate

\* The file an operation finds or makes is the buffer's own.
LEMMA FoundOnDisk ==
    ASSUME Buffer!SpillAssumption, BufferInv, ~ gone, NEW end, NEW on \in Buffer!OnDisk(end)
    PROVE  Placed(on[1], on[2]) /\ Tallies(on[2][on[1]], len, told, torn)
<1>1. Buffer!TypeOK /\ Buffer!OthersKept /\ Tallies(Buffer!Contents, len, told, torn)
  BY DEF BufferInv, BufferTallies
<1>2. /\ DOMAIN disk \subseteq Buffer!Names /\ \A n \in DOMAIN disk : disk[n] \in Buffer!Files
      /\ \A n \in planted : n \in DOMAIN disk /\ disk[n] = Buffer!Foreign
      /\ memory \in Buffer!Files /\ store \in {"memory", "spilled"}
      /\ DOMAIN disk \ planted = IF store = "spilled" THEN {temp} ELSE {}
  BY <1>1 DEF Buffer!TypeOK, Buffer!OthersKept
<1>3. CASE store = "spilled"
  <2>1. on = <<temp, disk>>
    BY <1>3 DEF Buffer!OnDisk
  <2>2. temp \in Buffer!Names \ planted /\ temp \in DOMAIN disk
    BY <1>2, <1>3
  <2>3. Buffer!Contents = disk[temp]
    BY <1>3 DEF Buffer!Contents
  <2> QED BY <1>1, <1>2, <1>3, <2>1, <2>2, <2>3 DEF Placed
<1>4. CASE store = "memory"
  <2>1. /\ on = <<Buffer!Candidate, Buffer!Put(disk, Buffer!Candidate, memory)>>
        /\ Buffer!Free # {}
    BY <1>4 DEF Buffer!OnDisk, Buffer!Spillable
  <2> DEFINE t == Buffer!Candidate
             d == Buffer!Put(disk, t, memory)
  <2>2. t \in Buffer!Names /\ t \notin DOMAIN disk /\ t \notin planted
    BY <1>2, <2>1, CandidateIsFree DEF Buffer!Free
  <2> HIDE DEF t
  <2>3. /\ DOMAIN d = DOMAIN disk \cup {t} /\ d[t] = memory
        /\ \A n \in DOMAIN disk : d[n] = disk[n]
    BY <2>2 DEF Buffer!Put
  <2> HIDE DEF d
  <2>4. DOMAIN disk \subseteq planted
    BY <1>2, <1>4
  <2>5. Placed(t, d)
    BY <1>2, <2>2, <2>3, <2>4 DEF Placed
  <2>6. Buffer!Contents = memory
    BY <1>4 DEF Buffer!Contents
  <2>7. on[1] = t /\ on[2] = d
    BY <2>1 DEF t, d
  <2> QED BY <1>1, <2>3, <2>5, <2>6, <2>7
<1> QED BY <1>2, <1>3, <1>4

\* It starts empty, in memory.
LEMMA BufferInit == ASSUME Buffer!SpillAssumption, Buffer!Init PROVE BufferInv
<1>1. /\ store = "memory" /\ memory = <<>> /\ temp = 0 /\ planted \in SUBSET Buffer!Names
      /\ disk = [n \in planted |-> Buffer!Foreign] /\ len = 0 /\ gone = FALSE /\ usable = TRUE
      /\ told = <<>> /\ torn = {}
  BY DEF Buffer!Init
<1>2. <<>> \in Buffer!Files /\ Buffer!Foreign \in Buffer!Files
  <2>1. /\ <<>> \in Seq(Holds) /\ Len(<<>>) <= MaxLen /\ MaxLen \in Nat
        /\ <<0>> \in Seq(Holds) /\ Len(<<0>>) <= MaxLen
    BY DEF Buffer!SpillAssumption, Holds
  <2> QED BY <2>1, FilesAre DEF Buffer!Foreign
<1>3. MaxLen \in Nat
  BY DEF Buffer!SpillAssumption
<1>4. Buffer!TypeOK
  <2>1. DOMAIN disk = planted /\ planted \subseteq Buffer!Names
        /\ \A n \in planted : disk[n] = Buffer!Foreign
    BY <1>1
  <2>2. 0 \in 0 .. MaxLen
    BY <1>3
  <2> QED BY <1>1, <1>2, <2>1, <2>2 DEF Buffer!TypeOK
<1>5. Buffer!OthersKept
  BY <1>1 DEF Buffer!OthersKept
<1>6. Buffer!Contents = <<>>
  BY <1>1 DEF Buffer!Contents
<1>7. Tallies(<<>>, 0, <<>>, {})
  BY <1>2 DEF Tallies
<1> QED BY <1>1, <1>4, <1>5, <1>6, <1>7 DEF BufferInv, BufferTallies

\* A spill that fails leaves everything as it was.
LEMMA FailedSpill ==
    ASSUME BufferInv, NEW end, Buffer!SpillFails(end) PROVE BufferInv'
<1>1. UNCHANGED <<store, memory, temp, disk, planted, len, gone, usable, told, torn>>
  BY DEF Buffer!SpillFails, Buffer!HandedBack, Buffer!AfterFailedSpill
<1> QED BY <1>1 DEF BufferInv, BufferTallies, Buffer!TypeOK, Buffer!OthersKept, Buffer!Contents, Buffer!Files

\* A write keeps the invariant, whether in memory, on disk, refused or cut short.
LEMMA BufferWrites ==
    ASSUME Buffer!SpillAssumption, BufferInv, NEW from \in Nat, NEW bytes \in Seq(Bytes),
           Len(bytes) > 0, Buffer!WriteAt(from, bytes)
    PROVE  BufferInv'
<1> DEFINE end == from + Len(bytes)
<1>1. ~ gone /\ end <= MaxLen
  BY DEF Buffer!WriteAt
<1>2. /\ Buffer!TypeOK /\ Tallies(Buffer!Contents, len, told, torn)
      /\ store = "memory" => memory = told /\ torn = {}
  BY <1>1 DEF BufferInv, BufferTallies
<1>3. bytes \in Seq(Holds)
  BY DEF Holds
<1> HIDE DEF end
<1>4. CASE Buffer!SpillFails(end)
  BY <1>4, FailedSpill
<1>5. CASE /\ store = "memory" /\ ~ Buffer!Needs(end)
           /\ memory' = Buffer!Written(memory, from, bytes)
           /\ len' = Buffer!Larger(len, end) /\ told' = Buffer!Written(told, from, bytes)
           /\ torn' = torn \ ((from + 1) .. end)
           /\ UNCHANGED <<store, temp, disk, planted, gone, usable>>
  <2>1. Buffer!Contents = memory
    BY <1>5 DEF Buffer!Contents
  <2>2. Tallies(memory', len', told', torn')
    BY <1>1, <1>2, <1>3, <1>5, <2>1, WriteTallies DEF end
  <2>3. memory' = told' /\ torn' = {}
    BY <1>2, <1>5
  <2> QED BY <1>1, <1>5, <2>2, <2>3, KeptInMemory
<1>6. ASSUME NEW on \in Buffer!OnDisk(end), Buffer!Puts(on[1], on[2], from, bytes),
             UNCHANGED <<planted, gone, usable>>
      PROVE  BufferInv'
  <2> DEFINE t == on[1]
             d == on[2]
  <2>1. Placed(t, d) /\ Tallies(d[t], len, told, torn)
    BY <1>1, FoundOnDisk
  <2> HIDE DEF t, d
  <2>2. Buffer!Puts(t, d, from, bytes)
    BY <1>6 DEF t, d
  <2>3. store' = "spilled" /\ temp' = t /\ memory' = <<>>
    BY <2>2 DEF Buffer!Puts
  <2>4. CASE /\ disk' = Buffer!Put(d, t, Buffer!Written(d[t], from, bytes))
             /\ len' = Buffer!Larger(len, end) /\ told' = Buffer!Written(told, from, bytes)
             /\ torn' = torn \ ((from + 1) .. end)
    <3>1. Tallies(Buffer!Written(d[t], from, bytes), len', told', torn')
      BY <1>1, <1>3, <2>1, <2>4, WriteTallies DEF end
    <3> QED BY <1>1, <1>2, <1>6, <2>1, <2>3, <2>4, <3>1, KeptOnDisk
  <2>5. ASSUME NEW n \in 0 .. Len(bytes) - 1,
               disk' = IF n = 0 THEN d
                       ELSE Buffer!Put(d, t, Buffer!Written(d[t], from, SubSeq(bytes, 1, n))),
               torn' = torn \cup ((from + 1) .. (from + n)), UNCHANGED <<len, told>>
        PROVE  BufferInv'
    <3>1. CASE n = 0
      <4>1. torn' = torn
        BY <2>5, <3>1
      <4>2. Tallies(d[t], len', told', torn')
        BY <2>1, <2>5, <4>1
      <4> QED BY <1>1, <1>2, <1>6, <2>1, <2>3, <2>5, <3>1, <4>2, KeptOnDisk
    <3>2. CASE n # 0
      <4> DEFINE cut == SubSeq(bytes, 1, n)
      <4>1. cut \in Seq(Holds) /\ Len(cut) = n /\ n \in Nat /\ Len(cut) > 0
        BY <1>3, <2>5, <3>2
      <4>2. from + Len(cut) <= MaxLen
        <5>1. n <= Len(bytes) /\ Len(bytes) \in Nat /\ MaxLen \in Nat
          BY <1>3, <2>5 DEF Buffer!SpillAssumption
        <5> HIDE DEF cut
        <5> QED BY <1>1, <4>1, <5>1 DEF end
      <4> HIDE DEF cut
      <4>3. Tallies(Buffer!Written(d[t], from, cut), len, told, torn \cup (from + 1 .. from + Len(cut)))
        BY <2>1, <4>1, <4>2, CutTallies
      <4>4. Tallies(Buffer!Written(d[t], from, cut), len', told', torn')
        BY <2>5, <4>1, <4>3
      <4>5. disk' = Buffer!Put(d, t, Buffer!Written(d[t], from, cut))
        BY <2>5, <3>2 DEF cut
      <4> QED BY <1>1, <1>2, <1>6, <2>1, <2>3, <4>4, <4>5, KeptOnDisk
    <3> QED BY <3>1, <3>2
  <2> QED BY <2>2, <2>4, <2>5 DEF Buffer!Puts, end
<1> QED BY <1>4, <1>5, <1>6 DEF Buffer!WriteAt, end

\* So does a resize, made or refused.
LEMMA BufferResizes ==
    ASSUME Buffer!SpillAssumption, BufferInv, NEW n \in 0 .. MaxLen, Buffer!SetLen(n)
    PROVE  BufferInv'
<1>1. ~ gone
  BY DEF Buffer!SetLen
<1>2. /\ Buffer!TypeOK /\ Tallies(Buffer!Contents, len, told, torn)
      /\ store = "memory" => memory = told /\ torn = {}
  BY <1>1 DEF BufferInv, BufferTallies
<1>3. CASE Buffer!SpillFails(n)
  BY <1>3, FailedSpill
<1>4. CASE /\ store = "memory" /\ ~ Buffer!Needs(n)
           /\ memory' = Buffer!Resized(memory, n) /\ len' = n /\ told' = Buffer!Resized(told, n)
           /\ torn' = {} /\ UNCHANGED <<store, temp, disk, planted, gone, usable>>
  <2>1. Buffer!Contents = memory
    BY <1>4 DEF Buffer!Contents
  <2>2. Tallies(memory', n, told', torn \cap (1 .. n))
    BY <1>2, <1>4, <2>1, ResizeTallies
  <2>3. torn \cap (1 .. n) = {}
    BY <1>2, <1>4
  <2> QED BY <1>1, <1>2, <1>4, <2>2, <2>3, KeptInMemory
<1>5. ASSUME NEW on \in Buffer!OnDisk(n), store' = "spilled", temp' = on[1], memory' = <<>>,
             \/ /\ disk' = Buffer!Put(on[2], on[1], Buffer!Resized(on[2][on[1]], n))
                /\ len' = n /\ told' = Buffer!Resized(told, n) /\ torn' = torn \cap (1 .. n)
             \/ disk' = on[2] /\ UNCHANGED <<len, told, torn>>,
             UNCHANGED <<planted, gone, usable>>
      PROVE  BufferInv'
  <2> DEFINE t == on[1]
             d == on[2]
  <2>1. Placed(t, d) /\ Tallies(d[t], len, told, torn)
    BY <1>1, FoundOnDisk
  <2> HIDE DEF t, d
  <2>2. store' = "spilled" /\ temp' = t /\ memory' = <<>>
    BY <1>5 DEF t
  <2>3. CASE /\ disk' = Buffer!Put(d, t, Buffer!Resized(d[t], n))
             /\ len' = n /\ told' = Buffer!Resized(told, n) /\ torn' = torn \cap (1 .. n)
    <3>1. Tallies(Buffer!Resized(d[t], n), len', told', torn')
      BY <2>1, <2>3, ResizeTallies
    <3> QED BY <1>1, <1>2, <1>5, <2>1, <2>2, <2>3, <3>1, KeptOnDisk
  <2>4. CASE disk' = d /\ UNCHANGED <<len, told, torn>>
    <3>1. Tallies(d[t], len', told', torn')
      BY <2>1, <2>4
    <3> QED BY <1>1, <1>2, <1>5, <2>1, <2>2, <2>4, <3>1, KeptOnDisk
  <2> QED BY <1>5, <2>3, <2>4 DEF t, d
<1> QED BY <1>3, <1>4, <1>5 DEF Buffer!SetLen

\* So does every step: drops, and what others do in the temp directory, too.
LEMMA BufferStep ==
    ASSUME Buffer!SpillAssumption, BufferInv, [Buffer!Next]_(Buffer!vars) PROVE BufferInv'
<1>0. /\ DOMAIN disk \subseteq Buffer!Names /\ \A n \in DOMAIN disk : disk[n] \in Buffer!Files
      /\ memory \in Buffer!Files /\ store \in {"memory", "spilled"} /\ temp \in {0} \cup Buffer!Names
      /\ planted \subseteq Buffer!Names /\ len \in 0 .. MaxLen /\ gone \in BOOLEAN
      /\ usable \in BOOLEAN /\ told \in Buffer!Files /\ torn \subseteq 1 .. MaxLen
      /\ \A n \in planted : n \in DOMAIN disk /\ disk[n] = Buffer!Foreign
      /\ DOMAIN disk \ planted = IF store = "spilled" /\ ~ gone THEN {temp} ELSE {}
  BY DEF BufferInv, Buffer!TypeOK, Buffer!OthersKept
<1>1. ASSUME NEW from \in 0 .. MaxLen, NEW b \in Bytes, NEW c \in Bytes,
             Buffer!WriteAt(from, <<b>>) \/ Buffer!WriteAt(from, <<b, c>>)
      PROVE  BufferInv'
  <2>1. /\ <<b>> \in Seq(Bytes) /\ Len(<<b>>) > 0 /\ <<b, c>> \in Seq(Bytes) /\ Len(<<b, c>>) > 0
        /\ from \in Nat
    OBVIOUS
  <2> QED BY <1>1, <2>1, BufferWrites
<1>2. ASSUME NEW n \in 0 .. MaxLen, Buffer!SetLen(n) PROVE BufferInv'
  BY <1>2, BufferResizes
<1>3. CASE Buffer!Drops
  <2>1. /\ ~ gone /\ gone' = TRUE
        /\ disk' = IF store = "spilled" THEN [n \in DOMAIN disk \ {temp} |-> disk[n]] ELSE disk
        /\ UNCHANGED <<store, memory, temp, planted, len, usable, told, torn>>
    BY <1>3 DEF Buffer!Drops
  <2>2. /\ DOMAIN disk' = DOMAIN disk \cap planted
        /\ \A n \in DOMAIN disk' : disk'[n] = disk[n]
    BY <1>0, <2>1
  <2>3. Buffer!TypeOK'
    BY <1>0, <2>1, <2>2 DEF Buffer!TypeOK, Buffer!Files
  <2>4. Buffer!OthersKept'
    BY <1>0, <2>1, <2>2 DEF Buffer!OthersKept, Buffer!Foreign
  <2> QED BY <2>1, <2>3, <2>4 DEF BufferInv, BufferTallies
<1>4. CASE Buffer!Elsewhere
  <2>1. UNCHANGED <<store, memory, temp, len, gone, told, torn>>
    BY <1>4 DEF Buffer!Elsewhere
  <2>2. CASE usable' = FALSE /\ UNCHANGED <<disk, planted>>
    BY <2>1, <2>2 DEF BufferInv, BufferTallies, Buffer!TypeOK, Buffer!OthersKept, Buffer!Contents,
                      Buffer!Files
  <2>3. ASSUME NEW n \in Buffer!Free, disk' = Buffer!Put(disk, n, Buffer!Foreign),
               planted' = planted \cup {n}, UNCHANGED usable
        PROVE  BufferInv'
    <3>1. n \in Buffer!Names /\ n \notin DOMAIN disk
      BY DEF Buffer!Free
    <3>2. /\ DOMAIN disk' = DOMAIN disk \cup {n} /\ disk'[n] = Buffer!Foreign
          /\ \A m \in DOMAIN disk : disk'[m] = disk[m]
      BY <2>3, <3>1 DEF Buffer!Put
    <3>3. Buffer!Foreign \in Buffer!Files
      <4>1. <<0>> \in Seq(Holds) /\ Len(<<0>>) <= MaxLen
        BY DEF Buffer!SpillAssumption, Holds
      <4> QED BY <4>1, FilesAre DEF Buffer!Foreign
    <3>4. \A m \in DOMAIN disk' : disk'[m] \in Buffer!Files
      BY <1>0, <3>2, <3>3
    <3>5. Buffer!TypeOK'
      BY <1>0, <2>1, <2>3, <3>1, <3>2, <3>4 DEF Buffer!TypeOK, Buffer!Files
    <3>6. Buffer!OthersKept'
      BY <1>0, <2>1, <2>3, <3>1, <3>2 DEF Buffer!OthersKept, Buffer!Foreign
    <3>7. ~ gone => Buffer!Contents' = Buffer!Contents
      <4>1. ~ gone /\ store = "spilled" => temp \in DOMAIN disk
        BY <1>0
      <4>2. CASE store = "memory"
        BY <2>1, <4>2 DEF Buffer!Contents
      <4>3. CASE store = "spilled" /\ ~ gone
        <5>1. Buffer!Contents = disk[temp]
          BY <4>3 DEF Buffer!Contents
        <5>2. Buffer!Contents' = disk'[temp]
          BY <2>1, <4>3 DEF Buffer!Contents
        <5> QED BY <3>2, <4>1, <4>3, <5>1, <5>2
      <4> QED BY <1>0, <4>2, <4>3
    <3> QED BY <2>1, <3>5, <3>6, <3>7 DEF BufferInv, BufferTallies
  <2> QED BY <1>4, <2>2, <2>3 DEF Buffer!Elsewhere
<1>5. CASE UNCHANGED Buffer!vars
  BY <1>5 DEF Buffer!vars, BufferInv, BufferTallies, Buffer!TypeOK, Buffer!OthersKept,
              Buffer!Contents, Buffer!Files
<1> QED BY <1>1, <1>2, <1>3, <1>4, <1>5 DEF Buffer!Next

\* What is told as written is there, or marked as cut short; and the length is the bytes'.
LEMMA BufferHolds ==
    ASSUME Buffer!SpillAssumption, BufferInv PROVE Buffer!BytesKept /\ Buffer!LengthIsTrue
<1>1. SUFFICES ASSUME ~ gone PROVE Buffer!BytesKept /\ Buffer!LengthIsTrue
  BY DEF Buffer!BytesKept, Buffer!LengthIsTrue
<1>2. Tallies(Buffer!Contents, len, told, torn)
  BY <1>1 DEF BufferInv, BufferTallies
<1> DEFINE f == Buffer!Contents
<1> HIDE DEF f
<1>3. /\ f \in Buffer!Files /\ told \in Buffer!Files /\ len = Len(told) /\ len <= Len(f)
      /\ (Len(f) > len => Len(f) \in torn)
      /\ \A i \in 1 .. Len(f) : i \notin torn => f[i] = IF i <= len THEN told[i] ELSE 0
  BY <1>2 DEF Tallies, f
<1>4. Len(f) \in Nat /\ len \in Nat
  BY <1>3, FilesAre
<1>5. \A i \in 1 .. Len(told) : i <= Len(f) /\ (i \notin torn => f[i] = told[i])
  BY <1>3, <1>4
<1>6. torn = {} => len = Len(f)
  BY <1>3, <1>4
<1> QED BY <1>5, <1>6 DEF Buffer!BytesKept, Buffer!LengthIsTrue, f

=============================================================================
