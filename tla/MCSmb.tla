------------------------------- MODULE MCSmb --------------------------------
(***************************************************************************)
(* What carries files to and from the NAS, in one run: the uploads over    *)
(* HTTP, the SMB transport's four protocols -- the memory of refused       *)
(* logins, the session, the lanes reads go over, and writes --, the        *)
(* downloads to a local path, and the Windows mount's handles. They share  *)
(* no state (a login's outcome is a free choice to the session and the     *)
(* lanes, an upload's to the Windows mount), so a behaviour is one of one  *)
(* of them: `part` is fixed at the start, and the variables the other      *)
(* modules have and this one has not stay as they are.                     *)
(***************************************************************************)
EXTENDS HttpUpload, TLC

CONSTANTS Callers, Accounts, AccountOf, RouteOf, Impatient, Cooldown, MaxDials,  \* AuthGate
          Ops, Locked, Deserting, Adopters, MaxTrouble,           \* SmbSession
          Lanes, Handles, Pieces, Wanted, MaxFailures, MaxMoves,
          MaxReads, NoHandle, NoLane,                             \* ReadLanes
          Writers, MethodOf, ModeOf, OldFile, MaxChunks,          \* SmbWrites
          Getters, InPieces, Chunk, Lengths, MaxStarts,           \* Downloads
          MaxFaults,                                              \* and WinFs
          Paths, Existing, MaxOpens, MaxWrites                    \* WinFs

\* The values of Smb.cfg that a configuration cannot write: the third caller logs in to
\* another account, and the first goes over a stream; one writer of each kind, and a
\* second streamed handle (write_atomic does what write_from_path does, but deletes its
\* .part whichever call failed).
ThirdElsewhere == [c \in Callers |-> IF c = "c3" THEN "b" ELSE "a"]
FirstOverStream == [c \in Callers |-> IF c = "c1" THEN "stream" ELSE "address"]
OneOfEach == [w \in Writers |-> CASE w = "w1" -> "staged" [] w = "w2" -> "new" [] OTHER -> "handle"]
ThirdCreates == [w \in Writers |-> IF w = "w3" THEN "create" ELSE "existing"]
FourThenThree == <<4, 3>>

VARIABLES part,
          mapped, refusal, last, queue, phase, fresh, accepts, dials, struck,
          noted, crowded, doubled, kind, cur, made, dead, trees, lock, needs,
          refused, turnedAway, hasSession, ended, on, adopting, trouble,
          known, dropped, generation, moving, laneOf, live, leaving, draining,
          due, ending, unopened, opener, openFor, failures, waiting, cached,
          parked, closing, unused, lane, hold, lost, reads, lanesLate, sweep,
          seen, owed, straddled, target, temp, open, position, next, asked,
          chunks, linked, excuse, now, dir, disk, step, by, fd, at,
          downloadsTotal, body, verdict, placedBy, shared, torn, litter, faults, apart,
          winNas, pending, handles, bufs, ops, looking, writes, settled,
          crossed

suiteVars == <<part, vars,
          mapped, refusal, last, queue, phase, fresh, accepts, dials, struck,
          noted, crowded, doubled, kind, cur, made, dead, trees, lock, needs,
          refused, turnedAway, hasSession, ended, on, adopting, trouble,
          known, dropped, generation, moving, laneOf, live, leaving, draining,
          due, ending, unopened, opener, openFor, failures, waiting, cached,
          parked, closing, unused, lane, hold, lost, reads, lanesLate, sweep,
          seen, owed, straddled, target, temp, open, position, next, asked,
          chunks, linked, excuse, now, dir, disk, step, by, fd, at,
          downloadsTotal, body, verdict, placedBy, shared, torn, litter, faults, apart,
          winNas, pending, handles, bufs, ops, looking, writes, settled,
          crossed>>

Gate == INSTANCE AuthGate
    WITH Abortable <- Impatient
Session == INSTANCE SmbSession
    WITH Abortable <- Deserting
Lane == INSTANCE ReadLanes
    WITH late <- lanesLate
Write == INSTANCE SmbWrites
    WITH Old <- OldFile
Fetch == INSTANCE Downloads
    WITH Pieces <- InPieces, total <- downloadsTotal
Windows == INSTANCE WinFs
    WITH nas <- winNas

ASSUME GateOk == Gate!GateAssumption
ASSUME SessionOk == Session!SessionAssumption
ASSUME LaneOk == Lane!LanesAssumption
ASSUME WriteOk == Write!WritesAssumption
ASSUME FetchOk == Fetch!DownloadsAssumption
ASSUME WindowsOk == Windows!WinFsAssumption

\* The variables a part does not have.
Off == "-"

\* HttpUpload where it is not the part.
IdleHttpUpload == Init /\ total = 1 /\ overwrite /\ file = Gone

SuiteInit ==
    \/ /\ part = "upload" /\ Init
       /\ mapped = Off /\ refusal = Off /\ last = Off /\ queue = Off
       /\ phase = Off /\ fresh = Off /\ accepts = Off /\ dials = Off
       /\ struck = Off /\ noted = Off /\ crowded = Off /\ doubled = Off
       /\ kind = Off /\ cur = Off /\ made = Off /\ dead = Off /\ trees = Off
       /\ lock = Off /\ needs = Off /\ refused = Off /\ turnedAway = Off
       /\ hasSession = Off /\ ended = Off /\ on = Off /\ adopting = Off
       /\ trouble = Off /\ known = Off /\ dropped = Off /\ generation = Off
       /\ moving = Off /\ laneOf = Off /\ live = Off /\ leaving = Off
       /\ draining = Off /\ due = Off /\ ending = Off /\ unopened = Off
       /\ opener = Off /\ openFor = Off /\ failures = Off /\ waiting = Off
       /\ cached = Off /\ parked = Off /\ closing = Off /\ unused = Off
       /\ lane = Off /\ hold = Off /\ lost = Off /\ reads = Off
       /\ lanesLate = Off /\ sweep = Off /\ seen = Off /\ owed = Off
       /\ straddled = Off /\ target = Off /\ temp = Off /\ open = Off
       /\ position = Off /\ next = Off /\ asked = Off /\ chunks = Off
       /\ linked = Off /\ excuse = Off /\ now = Off /\ dir = Off
       /\ disk = Off /\ step = Off /\ by = Off /\ fd = Off /\ at = Off
       /\ downloadsTotal = Off /\ body = Off /\ verdict = Off /\ placedBy = Off
       /\ shared = Off /\ torn = Off /\ litter = Off /\ faults = Off
       /\ apart = Off /\ winNas = Off /\ pending = Off /\ handles = Off
       /\ bufs = Off /\ ops = Off /\ looking = Off /\ writes = Off
       /\ settled = Off /\ crossed = Off
    \/ /\ part = "gate" /\ Gate!Init /\ IdleHttpUpload
       /\ kind = Off /\ cur = Off /\ made = Off /\ dead = Off /\ trees = Off
       /\ lock = Off /\ needs = Off /\ refused = Off /\ turnedAway = Off
       /\ hasSession = Off /\ ended = Off /\ on = Off /\ adopting = Off
       /\ trouble = Off /\ known = Off /\ dropped = Off /\ generation = Off
       /\ moving = Off /\ laneOf = Off /\ live = Off /\ leaving = Off
       /\ draining = Off /\ due = Off /\ ending = Off /\ unopened = Off
       /\ opener = Off /\ openFor = Off /\ failures = Off /\ waiting = Off
       /\ cached = Off /\ parked = Off /\ closing = Off /\ unused = Off
       /\ lane = Off /\ hold = Off /\ lost = Off /\ reads = Off
       /\ lanesLate = Off /\ sweep = Off /\ seen = Off /\ owed = Off
       /\ straddled = Off /\ target = Off /\ temp = Off /\ open = Off
       /\ position = Off /\ next = Off /\ asked = Off /\ chunks = Off
       /\ linked = Off /\ excuse = Off /\ now = Off /\ dir = Off
       /\ disk = Off /\ step = Off /\ by = Off /\ fd = Off /\ at = Off
       /\ downloadsTotal = Off /\ body = Off /\ verdict = Off /\ placedBy = Off
       /\ shared = Off /\ torn = Off /\ litter = Off /\ faults = Off
       /\ apart = Off /\ winNas = Off /\ pending = Off /\ handles = Off
       /\ bufs = Off /\ ops = Off /\ looking = Off /\ writes = Off
       /\ settled = Off /\ crossed = Off
    \/ /\ part = "session" /\ Session!Init /\ IdleHttpUpload
       /\ mapped = Off /\ refusal = Off /\ last = Off /\ queue = Off
       /\ fresh = Off /\ accepts = Off /\ dials = Off /\ struck = Off
       /\ noted = Off /\ crowded = Off /\ doubled = Off /\ generation = Off
       /\ moving = Off /\ laneOf = Off /\ live = Off /\ leaving = Off
       /\ draining = Off /\ due = Off /\ ending = Off /\ unopened = Off
       /\ opener = Off /\ openFor = Off /\ failures = Off /\ waiting = Off
       /\ cached = Off /\ parked = Off /\ closing = Off /\ unused = Off
       /\ lane = Off /\ hold = Off /\ lost = Off /\ reads = Off
       /\ lanesLate = Off /\ sweep = Off /\ seen = Off /\ owed = Off
       /\ straddled = Off /\ target = Off /\ temp = Off /\ open = Off
       /\ position = Off /\ next = Off /\ asked = Off /\ chunks = Off
       /\ linked = Off /\ excuse = Off /\ now = Off /\ dir = Off
       /\ disk = Off /\ step = Off /\ by = Off /\ fd = Off /\ at = Off
       /\ downloadsTotal = Off /\ body = Off /\ verdict = Off /\ placedBy = Off
       /\ shared = Off /\ torn = Off /\ litter = Off /\ faults = Off
       /\ apart = Off /\ winNas = Off /\ pending = Off /\ handles = Off
       /\ bufs = Off /\ ops = Off /\ looking = Off /\ writes = Off
       /\ settled = Off /\ crossed = Off
    \/ /\ part = "lanes" /\ Lane!Init /\ IdleHttpUpload
       /\ mapped = Off /\ refusal = Off /\ last = Off /\ queue = Off
       /\ fresh = Off /\ accepts = Off /\ dials = Off /\ struck = Off
       /\ noted = Off /\ crowded = Off /\ doubled = Off /\ kind = Off
       /\ cur = Off /\ made = Off /\ dead = Off /\ trees = Off /\ lock = Off
       /\ needs = Off /\ refused = Off /\ turnedAway = Off
       /\ hasSession = Off /\ ended = Off /\ adopting = Off /\ trouble = Off
       /\ known = Off /\ dropped = Off /\ target = Off /\ temp = Off
       /\ open = Off /\ position = Off /\ next = Off /\ asked = Off
       /\ chunks = Off /\ linked = Off /\ excuse = Off /\ now = Off
       /\ dir = Off /\ disk = Off /\ step = Off /\ by = Off /\ fd = Off
       /\ at = Off /\ downloadsTotal = Off /\ body = Off /\ verdict = Off /\ placedBy = Off
       /\ shared = Off /\ torn = Off /\ litter = Off /\ faults = Off
       /\ apart = Off /\ winNas = Off /\ pending = Off /\ handles = Off
       /\ bufs = Off /\ ops = Off /\ looking = Off /\ writes = Off
       /\ settled = Off /\ crossed = Off
    \/ /\ part = "writes" /\ Write!Init /\ IdleHttpUpload
       /\ mapped = Off /\ refusal = Off /\ last = Off /\ queue = Off
       /\ fresh = Off /\ accepts = Off /\ dials = Off /\ struck = Off
       /\ noted = Off /\ crowded = Off /\ doubled = Off /\ kind = Off
       /\ cur = Off /\ made = Off /\ dead = Off /\ trees = Off /\ lock = Off
       /\ needs = Off /\ refused = Off /\ turnedAway = Off
       /\ hasSession = Off /\ ended = Off /\ on = Off /\ adopting = Off
       /\ trouble = Off /\ known = Off /\ dropped = Off /\ generation = Off
       /\ moving = Off /\ laneOf = Off /\ live = Off /\ leaving = Off
       /\ draining = Off /\ due = Off /\ ending = Off /\ unopened = Off
       /\ opener = Off /\ openFor = Off /\ failures = Off /\ waiting = Off
       /\ cached = Off /\ parked = Off /\ closing = Off /\ unused = Off
       /\ lane = Off /\ hold = Off /\ lost = Off /\ reads = Off
       /\ lanesLate = Off /\ sweep = Off /\ seen = Off /\ owed = Off
       /\ straddled = Off /\ now = Off /\ dir = Off /\ disk = Off
       /\ step = Off /\ by = Off /\ fd = Off /\ at = Off
       /\ downloadsTotal = Off /\ body = Off /\ verdict = Off /\ placedBy = Off
       /\ shared = Off /\ torn = Off /\ litter = Off /\ faults = Off
       /\ apart = Off /\ winNas = Off /\ pending = Off /\ handles = Off
       /\ bufs = Off /\ ops = Off /\ looking = Off /\ writes = Off
       /\ settled = Off /\ crossed = Off
    \/ /\ part = "downloads" /\ Fetch!Init /\ IdleHttpUpload
       /\ mapped = Off /\ refusal = Off /\ last = Off /\ queue = Off
       /\ phase = Off /\ fresh = Off /\ accepts = Off /\ dials = Off
       /\ struck = Off /\ noted = Off /\ crowded = Off /\ doubled = Off
       /\ kind = Off /\ cur = Off /\ made = Off /\ dead = Off /\ trees = Off
       /\ lock = Off /\ needs = Off /\ refused = Off /\ turnedAway = Off
       /\ hasSession = Off /\ ended = Off /\ on = Off /\ adopting = Off
       /\ trouble = Off /\ known = Off /\ dropped = Off /\ generation = Off
       /\ moving = Off /\ laneOf = Off /\ live = Off /\ leaving = Off
       /\ draining = Off /\ due = Off /\ ending = Off /\ unopened = Off
       /\ opener = Off /\ openFor = Off /\ failures = Off /\ waiting = Off
       /\ cached = Off /\ parked = Off /\ closing = Off /\ unused = Off
       /\ lane = Off /\ hold = Off /\ lost = Off /\ reads = Off
       /\ lanesLate = Off /\ sweep = Off /\ seen = Off /\ owed = Off
       /\ straddled = Off /\ target = Off /\ temp = Off /\ open = Off
       /\ position = Off /\ next = Off /\ asked = Off /\ chunks = Off
       /\ linked = Off /\ excuse = Off /\ apart = Off /\ winNas = Off
       /\ pending = Off /\ handles = Off /\ bufs = Off /\ ops = Off
       /\ looking = Off /\ writes = Off /\ settled = Off
       /\ crossed = Off
    \/ /\ part = "winfs" /\ Windows!Init /\ IdleHttpUpload
       /\ mapped = Off /\ refusal = Off /\ last = Off /\ queue = Off
       /\ phase = Off /\ fresh = Off /\ accepts = Off /\ dials = Off
       /\ struck = Off /\ noted = Off /\ crowded = Off /\ doubled = Off
       /\ kind = Off /\ cur = Off /\ made = Off /\ dead = Off /\ trees = Off
       /\ lock = Off /\ needs = Off /\ refused = Off /\ turnedAway = Off
       /\ hasSession = Off /\ ended = Off /\ on = Off /\ adopting = Off
       /\ trouble = Off /\ known = Off /\ dropped = Off /\ generation = Off
       /\ moving = Off /\ laneOf = Off /\ live = Off /\ leaving = Off
       /\ draining = Off /\ due = Off /\ ending = Off /\ unopened = Off
       /\ opener = Off /\ openFor = Off /\ failures = Off /\ waiting = Off
       /\ cached = Off /\ parked = Off /\ closing = Off /\ unused = Off
       /\ lane = Off /\ hold = Off /\ lost = Off /\ reads = Off
       /\ lanesLate = Off /\ sweep = Off /\ seen = Off /\ owed = Off
       /\ straddled = Off /\ target = Off /\ temp = Off /\ open = Off
       /\ position = Off /\ next = Off /\ asked = Off /\ chunks = Off
       /\ linked = Off /\ excuse = Off /\ now = Off /\ dir = Off
       /\ disk = Off /\ step = Off /\ by = Off /\ fd = Off /\ at = Off
       /\ downloadsTotal = Off /\ body = Off /\ verdict = Off /\ placedBy = Off
       /\ shared = Off /\ torn = Off /\ litter = Off

OnlyUpload ==
    /\ part = "upload"
    /\ UNCHANGED <<part, mapped, refusal, last, queue, phase, fresh, accepts,
                  dials, struck, noted, crowded, doubled, kind, cur, made,
                  dead, trees, lock, needs, refused, turnedAway, hasSession,
                  ended, on, adopting, trouble, known, dropped, generation,
                  moving, laneOf, live, leaving, draining, due, ending,
                  unopened, opener, openFor, failures, waiting, cached,
                  parked, closing, unused, lane, hold, lost, reads, lanesLate,
                  sweep, seen, owed, straddled, target, temp, open, position,
                  next, asked, chunks, linked, excuse, now, dir, disk, step,
                  by, fd, at, downloadsTotal, body, verdict, placedBy, shared, torn,
                  litter, faults, apart, winNas, pending, handles, bufs, ops,
                  looking, writes, settled, crossed>>
OnlyGate ==
    /\ part = "gate"
    /\ UNCHANGED <<part, vars, kind, cur, made, dead, trees, lock, needs,
                  refused, turnedAway, hasSession, ended, on, adopting,
                  trouble, known, dropped, generation, moving, laneOf, live,
                  leaving, draining, due, ending, unopened, opener, openFor,
                  failures, waiting, cached, parked, closing, unused, lane,
                  hold, lost, reads, lanesLate, sweep, seen, owed, straddled,
                  target, temp, open, position, next, asked, chunks, linked,
                  excuse, now, dir, disk, step, by, fd, at, downloadsTotal,
                  body, verdict, placedBy, shared, torn, litter, faults, apart, winNas,
                  pending, handles, bufs, ops, looking, writes, settled,
                  crossed>>
OnlySession ==
    /\ part = "session"
    /\ UNCHANGED <<part, vars, mapped, refusal, last, queue, fresh, accepts,
                  dials, struck, noted, crowded, doubled, generation, moving,
                  laneOf, live, leaving, draining, due, ending, unopened,
                  opener, openFor, failures, waiting, cached, parked, closing,
                  unused, lane, hold, lost, reads, lanesLate, sweep, seen,
                  owed, straddled, target, temp, open, position, next, asked,
                  chunks, linked, excuse, now, dir, disk, step, by, fd, at,
                  downloadsTotal, body, verdict, placedBy, shared, torn, litter, faults,
                  apart, winNas, pending, handles, bufs, ops, looking, writes,
                  settled, crossed>>
OnlyLanes ==
    /\ part = "lanes"
    /\ UNCHANGED <<part, vars, mapped, refusal, last, queue, fresh, accepts,
                  dials, struck, noted, crowded, doubled, kind, cur, made,
                  dead, trees, lock, needs, refused, turnedAway, hasSession,
                  ended, adopting, trouble, known, dropped, target, temp,
                  open, position, next, asked, chunks, linked, excuse, now,
                  dir, disk, step, by, fd, at, downloadsTotal, body, verdict, placedBy,
                  shared, torn, litter, faults, apart, winNas, pending,
                  handles, bufs, ops, looking, writes, settled, crossed>>
OnlyWrites ==
    /\ part = "writes"
    /\ UNCHANGED <<part, vars, mapped, refusal, last, queue, fresh, accepts,
                  dials, struck, noted, crowded, doubled, kind, cur, made,
                  dead, trees, lock, needs, refused, turnedAway, hasSession,
                  ended, on, adopting, trouble, known, dropped, generation,
                  moving, laneOf, live, leaving, draining, due, ending,
                  unopened, opener, openFor, failures, waiting, cached,
                  parked, closing, unused, lane, hold, lost, reads, lanesLate,
                  sweep, seen, owed, straddled, now, dir, disk, step, by, fd,
                  at, downloadsTotal, body, verdict, placedBy, shared, torn, litter,
                  faults, apart, winNas, pending, handles, bufs, ops, looking,
                  writes, settled, crossed>>
OnlyDownloads ==
    /\ part = "downloads"
    /\ UNCHANGED <<part, vars, mapped, refusal, last, queue, phase, fresh,
                  accepts, dials, struck, noted, crowded, doubled, kind, cur,
                  made, dead, trees, lock, needs, refused, turnedAway,
                  hasSession, ended, on, adopting, trouble, known, dropped,
                  generation, moving, laneOf, live, leaving, draining, due,
                  ending, unopened, opener, openFor, failures, waiting,
                  cached, parked, closing, unused, lane, hold, lost, reads,
                  lanesLate, sweep, seen, owed, straddled, target, temp, open,
                  position, next, asked, chunks, linked, excuse, apart,
                  winNas, pending, handles, bufs, ops, looking, writes,
                  settled, crossed>>
OnlyWinfs ==
    /\ part = "winfs"
    /\ UNCHANGED <<part, vars, mapped, refusal, last, queue, phase, fresh,
                  accepts, dials, struck, noted, crowded, doubled, kind, cur,
                  made, dead, trees, lock, needs, refused, turnedAway,
                  hasSession, ended, on, adopting, trouble, known, dropped,
                  generation, moving, laneOf, live, leaving, draining, due,
                  ending, unopened, opener, openFor, failures, waiting,
                  cached, parked, closing, unused, lane, hold, lost, reads,
                  lanesLate, sweep, seen, owed, straddled, target, temp, open,
                  position, next, asked, chunks, linked, excuse, now, dir,
                  disk, step, by, fd, at, downloadsTotal, body, verdict, placedBy,
                  shared, torn, litter>>

SuiteNext ==
    \/ OnlyUpload /\ Next
    \/ OnlyGate /\ Gate!Next
    \/ OnlySession /\ Session!Next
    \/ OnlyLanes /\ Lane!Next
    \/ OnlyWrites /\ Write!Next
    \/ OnlyDownloads /\ Fetch!Next
    \/ OnlyWinfs /\ Windows!Next

SuiteSpec == SuiteInit /\ [][SuiteNext]_suiteVars

-----------------------------------------------------------------------------
(* Each part's properties, in the states of that part; HttpUpload's own are
   listed by their names there. *)

\* AuthGate!StrikesSpaced: a dial under the lock earns no strike within the
\* cool-down of one the gate was told of.
StrikesSpaced == part = "gate" => Gate!TypeOK /\ Gate!StrikesSpaced

\* SmbSession!SlotIsCoherent, LiveIsTruthful and NoLoginOnceRefused: trees and
\* locked operations belong to the session in the slot, the badge does not call
\* live a session found dead, and no login is tried once one was refused.
SessionHolds ==
    /\ [](part = "session" => Session!TypeOK /\ Session!SlotIsCoherent /\ Session!LiveIsTruthful)
    /\ [][part = "session" => Session!NoLoginOnceRefused]_suiteVars

\* ReadLanes!LanesAreCurrent, NoneClosedInUse and InvalidationReaches: reads go
\* over lanes of the present session only, a lane's handle is not closed under a
\* read, and a write or a rename comes to every handle that was cached when it began
\* to look, but on a lane that was between the two lists whenever it did, and but one
\* a read left on a lane done draining.
LaneHandlesKept ==
    part = "lanes" => /\ Lane!TypeOK /\ Lane!LanesAreCurrent
                      /\ Lane!NoneClosedInUse /\ Lane!InvalidationReaches

\* SmbWrites!OldOrNew, PartsCleaned and WriterInStep: what a path and the .part
\* files beside it hold when writes fail, are lost or are dropped, and when a create is
\* carried out and not answered.
OldOrNew ==
    part = "writes" => Write!TypeOK /\ Write!OldOrNew /\ Write!PartsCleaned /\ Write!WriterInStep

\* Downloads!OldOrWhole, NoLitter and FailedChangesNothing: what a local path holds is a
\* whole version or what was there, whatever fails and however downloads over SMB meet on
\* the sidecar (not when one by HTTP or a second one of the C ABI writes it too, which the
\* module says), and nothing is left beside it but by one that was dropped.
\* WinFs!Accounted and EntriesHaveMakers: no write to the Windows mount goes missing
\* without a word but one made under a flush of the buffer by another name, and no
\* pending name outlives its file.
FilesKept ==
    /\ [](part = "downloads" => Fetch!TypeOK /\ Fetch!OldOrWhole /\ Fetch!NoLitter)
    /\ [][part = "downloads" => Fetch!FailedChangesNothing]_suiteVars
    /\ [](part = "winfs" => Windows!TypeOK /\ Windows!Accounted /\ Windows!EntriesHaveMakers)
=============================================================================
