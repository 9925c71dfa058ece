----------------------------- MODULE MCProgress -----------------------------
(***************************************************************************)
(* Who waits is answered, in one run: what must come about in the          *)
(* breaker, the uploads, the SMB transport, the OpenVPN client, the legs,  *)
(* the mount's end and the throttle, each on the smallest instance where   *)
(* it can be held up. A behaviour is one of one of them: `part` is fixed   *)
(* at the start, and the variables the other modules have and this one     *)
(* has not stay as they are.                                               *)
(***************************************************************************)
EXTENDS Naturals, Sequences, FiniteSets, TLC

FailureThreshold == 2
Cooldown == 2
MaxCount == 4

MaxSlices == 2
MaxAttempts == 2
MaxLate == 1

Callers == {"c1", "c2"}
Accounts == {"a"}
AccountOf == [c \in Callers |-> "a"]
RouteOf == [c \in Callers |-> IF c = "c1" THEN "stream" ELSE "address"]
MaxDials == 3

Ops == {"o1", "o2"}
Locked == {"o1"}
Adopters == {"a1"}
MaxTrouble == 1

Lanes == {"l1"}
Handles == {"h1"}
Pieces == {"p1", "p2"}
Wanted == 1
MaxFailures == 2
MaxMoves == 1
MaxReads == 2
NoHandle == "no-handle"
NoLane == "no-lane"

Ids == 3
Lag == 2
MaxGen == 1
Firsts == {<<"reset", "flight", "keys", "info", "info", "push">>,
           <<"reset", "flight", "refused">>}
Laters == {<<"reset", "flight", "info", "keys", "push">>}

ConnectTimeout == 1
IdlePoll == 1
Cap == 1
PushInterval == 1
PushTimeout == 2
Pushes == {[ping |-> 99, restart |-> 1, disabled |-> FALSE]}
DefaultRestart == 99
ChannelWakes == {99}
Depth == 1

MaxWritten == 1
MaxSent == 2

Smb == TRUE
Vpn == TRUE
Https == TRUE
Recheck == 1
TunnelRecheck == 1
MaxFlips == 1
MaxLogins == 1

Patience == 1

MaxConcurrency == 1
Interval == 2
BackoffBase == 1
BackoffMax == 3

VARIABLES part,
          nextId, inFlight, backingOff, laterAcks, net, acks, expected,
          buffered, pendingAcks, recentAcks, delivered, state, openedFor,
          failures, phase, trials, quiet, lost, total, overwrite, file,
          partial, late, pc, index, attempt, restarts, handle, resent,
          unhashed, intruded, result, mapped, refusal, last, queue, fresh,
          accepts, dials, struck, noted, crowded, doubled, kind, cur, made,
          dead, trees, lock, needs, refused, turnedAway, hasSession, ended,
          on, adopting, trouble, known, dropped, generation, moving, laneOf,
          live, leaving, draining, due, ending, unopened, opener, openFor,
          waiting, cached, parked, closing, unused, lane, hold, reads, sweep,
          owed, seen, straddled, client, asked, script, said, peerGen,
          peerKeys, tried, task, ages, caller, ready, failure, queues, pump,
          stacks, loop, sock, progress, toStack, toCaller, reading, peer,
          decided, stands, denied, leg, had, shut, tunnelUp, raising, doing,
          aim, before, directUp, password, flips, logins, overtaken, since,
          front, attached, alive, users, busy, recorded, remounted, aborted,
          join, tear, gui, waited, watched, watching, looking, owners, step,
          left, free, next, close

vars == <<part,
          nextId, inFlight, backingOff, laterAcks, net, acks, expected,
          buffered, pendingAcks, recentAcks, delivered, state, openedFor,
          failures, phase, trials, quiet, lost, total, overwrite, file,
          partial, late, pc, index, attempt, restarts, handle, resent,
          unhashed, intruded, result, mapped, refusal, last, queue, fresh,
          accepts, dials, struck, noted, crowded, doubled, kind, cur, made,
          dead, trees, lock, needs, refused, turnedAway, hasSession, ended,
          on, adopting, trouble, known, dropped, generation, moving, laneOf,
          live, leaving, draining, due, ending, unopened, opener, openFor,
          waiting, cached, parked, closing, unused, lane, hold, reads, sweep,
          owed, seen, straddled, client, asked, script, said, peerGen,
          peerKeys, tried, task, ages, caller, ready, failure, queues, pump,
          stacks, loop, sock, progress, toStack, toCaller, reading, peer,
          decided, stands, denied, leg, had, shut, tunnelUp, raising, doing,
          aim, before, directUp, password, flips, logins, overtaken, since,
          front, attached, alive, users, busy, recorded, remounted, aborted,
          join, tear, gui, waited, watched, watching, looking, owners, step,
          left, free, next, close>>

Channel == INSTANCE Reliable
    WITH SendCapacity <- 1, RecvCapacity <- 1, FastRetransmit <- 1,
         RecentAcks <- 2, MaxAcks <- 2, MaxMessages <- 2, MaxAckPackets <- 1
Breaker == INSTANCE CircuitBreaker
    WITH Ops <- {"o1", "p"}, Abortable <- {"p"}
Upload == INSTANCE HttpUpload
Gate == INSTANCE AuthGate
    WITH Abortable <- {"c2"}
Session == INSTANCE SmbSession
    WITH Abortable <- {"o2"}
Lane == INSTANCE ReadLanes
Keys == INSTANCE VpnKeys
Driver == INSTANCE VpnDriver
Stream == INSTANCE TunnelStream
    WITH Window <- 1
Leg == INSTANCE Legs
End == INSTANCE MountEnds
Slots == INSTANCE Throttle

ASSUME Gate!GateAssumption
ASSUME Session!SessionAssumption
ASSUME Lane!LanesAssumption
ASSUME Keys!KeysAssumption
ASSUME Driver!DriverAssumption
ASSUME Stream!StreamAssumption
ASSUME Leg!LegsAssumption
ASSUME End!EndsAssumption
ASSUME Slots!ThrottleAssumption

\* The variables a part does not have.
Off == "-"

Init ==
    \/ /\ part = "reliable" /\ Channel!Init
       /\ state = Off /\ openedFor = Off /\ failures = Off /\ phase = Off
       /\ trials = Off /\ quiet = Off /\ lost = Off /\ total = Off
       /\ overwrite = Off /\ file = Off /\ partial = Off /\ late = Off
       /\ pc = Off /\ index = Off /\ attempt = Off /\ restarts = Off
       /\ handle = Off /\ resent = Off /\ unhashed = Off /\ intruded = Off
       /\ result = Off /\ mapped = Off /\ refusal = Off /\ last = Off
       /\ queue = Off /\ fresh = Off /\ accepts = Off /\ dials = Off
       /\ struck = Off /\ noted = Off /\ crowded = Off /\ doubled = Off
       /\ kind = Off /\ cur = Off /\ made = Off /\ dead = Off /\ trees = Off
       /\ lock = Off /\ needs = Off /\ refused = Off /\ turnedAway = Off
       /\ hasSession = Off /\ ended = Off /\ on = Off /\ adopting = Off
       /\ trouble = Off /\ known = Off /\ dropped = Off /\ generation = Off
       /\ moving = Off /\ laneOf = Off /\ live = Off /\ leaving = Off
       /\ draining = Off /\ due = Off /\ ending = Off /\ unopened = Off
       /\ opener = Off /\ openFor = Off /\ waiting = Off /\ cached = Off
       /\ parked = Off /\ closing = Off /\ unused = Off /\ lane = Off
       /\ hold = Off /\ reads = Off /\ sweep = Off /\ owed = Off
       /\ seen = Off /\ straddled = Off /\ client = Off /\ asked = Off
       /\ script = Off /\ said = Off /\ peerGen = Off /\ peerKeys = Off
       /\ tried = Off /\ task = Off /\ ages = Off /\ caller = Off
       /\ ready = Off /\ failure = Off /\ queues = Off /\ pump = Off
       /\ stacks = Off /\ loop = Off /\ sock = Off /\ progress = Off
       /\ toStack = Off /\ toCaller = Off /\ reading = Off /\ peer = Off
       /\ decided = Off /\ stands = Off /\ denied = Off /\ leg = Off
       /\ had = Off /\ shut = Off /\ tunnelUp = Off /\ raising = Off
       /\ doing = Off /\ aim = Off /\ before = Off /\ directUp = Off
       /\ password = Off /\ flips = Off /\ logins = Off /\ overtaken = Off
       /\ since = Off /\ front = Off /\ attached = Off /\ alive = Off
       /\ users = Off /\ busy = Off /\ recorded = Off /\ remounted = Off
       /\ aborted = Off /\ join = Off /\ tear = Off /\ gui = Off
       /\ waited = Off /\ watched = Off /\ watching = Off /\ looking = Off
       /\ owners = Off /\ step = Off /\ left = Off /\ free = Off
       /\ next = Off /\ close = Off
    \/ /\ part = "breaker" /\ Breaker!Init
       /\ nextId = Off /\ inFlight = Off /\ backingOff = Off
       /\ laterAcks = Off /\ net = Off /\ acks = Off /\ expected = Off
       /\ buffered = Off /\ pendingAcks = Off /\ recentAcks = Off
       /\ delivered = Off /\ total = Off /\ overwrite = Off /\ file = Off
       /\ partial = Off /\ late = Off /\ pc = Off /\ index = Off
       /\ attempt = Off /\ restarts = Off /\ handle = Off /\ resent = Off
       /\ unhashed = Off /\ intruded = Off /\ result = Off /\ mapped = Off
       /\ refusal = Off /\ last = Off /\ queue = Off /\ fresh = Off
       /\ accepts = Off /\ dials = Off /\ struck = Off /\ noted = Off
       /\ crowded = Off /\ doubled = Off /\ kind = Off /\ cur = Off
       /\ made = Off /\ dead = Off /\ trees = Off /\ lock = Off
       /\ needs = Off /\ refused = Off /\ turnedAway = Off
       /\ hasSession = Off /\ ended = Off /\ on = Off /\ adopting = Off
       /\ trouble = Off /\ known = Off /\ dropped = Off /\ generation = Off
       /\ moving = Off /\ laneOf = Off /\ live = Off /\ leaving = Off
       /\ draining = Off /\ due = Off /\ ending = Off /\ unopened = Off
       /\ opener = Off /\ openFor = Off /\ waiting = Off /\ cached = Off
       /\ parked = Off /\ closing = Off /\ unused = Off /\ lane = Off
       /\ hold = Off /\ reads = Off /\ sweep = Off /\ owed = Off
       /\ seen = Off /\ straddled = Off /\ client = Off /\ asked = Off
       /\ script = Off /\ said = Off /\ peerGen = Off /\ peerKeys = Off
       /\ tried = Off /\ task = Off /\ ages = Off /\ caller = Off
       /\ ready = Off /\ failure = Off /\ queues = Off /\ pump = Off
       /\ stacks = Off /\ loop = Off /\ sock = Off /\ progress = Off
       /\ toStack = Off /\ toCaller = Off /\ reading = Off /\ peer = Off
       /\ decided = Off /\ stands = Off /\ denied = Off /\ leg = Off
       /\ had = Off /\ shut = Off /\ tunnelUp = Off /\ raising = Off
       /\ doing = Off /\ aim = Off /\ before = Off /\ directUp = Off
       /\ password = Off /\ flips = Off /\ logins = Off /\ overtaken = Off
       /\ since = Off /\ front = Off /\ attached = Off /\ alive = Off
       /\ users = Off /\ busy = Off /\ recorded = Off /\ remounted = Off
       /\ aborted = Off /\ join = Off /\ tear = Off /\ gui = Off
       /\ waited = Off /\ watched = Off /\ watching = Off /\ looking = Off
       /\ owners = Off /\ step = Off /\ left = Off /\ free = Off
       /\ next = Off /\ close = Off
    \/ /\ part = "upload" /\ Upload!Init
       /\ nextId = Off /\ inFlight = Off /\ backingOff = Off
       /\ laterAcks = Off /\ net = Off /\ acks = Off /\ expected = Off
       /\ buffered = Off /\ pendingAcks = Off /\ recentAcks = Off
       /\ delivered = Off /\ state = Off /\ openedFor = Off
       /\ failures = Off /\ phase = Off /\ trials = Off /\ quiet = Off
       /\ lost = Off /\ mapped = Off /\ refusal = Off /\ last = Off
       /\ queue = Off /\ fresh = Off /\ accepts = Off /\ dials = Off
       /\ struck = Off /\ noted = Off /\ crowded = Off /\ doubled = Off
       /\ kind = Off /\ cur = Off /\ made = Off /\ dead = Off /\ trees = Off
       /\ lock = Off /\ needs = Off /\ refused = Off /\ turnedAway = Off
       /\ hasSession = Off /\ ended = Off /\ on = Off /\ adopting = Off
       /\ trouble = Off /\ known = Off /\ dropped = Off /\ generation = Off
       /\ moving = Off /\ laneOf = Off /\ live = Off /\ leaving = Off
       /\ draining = Off /\ due = Off /\ ending = Off /\ unopened = Off
       /\ opener = Off /\ openFor = Off /\ waiting = Off /\ cached = Off
       /\ parked = Off /\ closing = Off /\ unused = Off /\ lane = Off
       /\ hold = Off /\ reads = Off /\ sweep = Off /\ owed = Off
       /\ seen = Off /\ straddled = Off /\ client = Off /\ asked = Off
       /\ script = Off /\ said = Off /\ peerGen = Off /\ peerKeys = Off
       /\ tried = Off /\ task = Off /\ ages = Off /\ caller = Off
       /\ ready = Off /\ failure = Off /\ queues = Off /\ pump = Off
       /\ stacks = Off /\ loop = Off /\ sock = Off /\ progress = Off
       /\ toStack = Off /\ toCaller = Off /\ reading = Off /\ peer = Off
       /\ decided = Off /\ stands = Off /\ denied = Off /\ leg = Off
       /\ had = Off /\ shut = Off /\ tunnelUp = Off /\ raising = Off
       /\ doing = Off /\ aim = Off /\ before = Off /\ directUp = Off
       /\ password = Off /\ flips = Off /\ logins = Off /\ overtaken = Off
       /\ since = Off /\ front = Off /\ attached = Off /\ alive = Off
       /\ users = Off /\ busy = Off /\ recorded = Off /\ remounted = Off
       /\ aborted = Off /\ join = Off /\ tear = Off /\ gui = Off
       /\ waited = Off /\ watched = Off /\ watching = Off /\ looking = Off
       /\ owners = Off /\ step = Off /\ left = Off /\ free = Off
       /\ next = Off /\ close = Off
    \/ /\ part = "gate" /\ Gate!Init
       /\ nextId = Off /\ inFlight = Off /\ backingOff = Off
       /\ laterAcks = Off /\ net = Off /\ acks = Off /\ expected = Off
       /\ buffered = Off /\ pendingAcks = Off /\ recentAcks = Off
       /\ delivered = Off /\ state = Off /\ openedFor = Off
       /\ failures = Off /\ trials = Off /\ quiet = Off /\ lost = Off
       /\ total = Off /\ overwrite = Off /\ file = Off /\ partial = Off
       /\ late = Off /\ pc = Off /\ index = Off /\ attempt = Off
       /\ restarts = Off /\ handle = Off /\ resent = Off /\ unhashed = Off
       /\ intruded = Off /\ result = Off /\ kind = Off /\ cur = Off
       /\ made = Off /\ dead = Off /\ trees = Off /\ lock = Off
       /\ needs = Off /\ refused = Off /\ turnedAway = Off
       /\ hasSession = Off /\ ended = Off /\ on = Off /\ adopting = Off
       /\ trouble = Off /\ known = Off /\ dropped = Off /\ generation = Off
       /\ moving = Off /\ laneOf = Off /\ live = Off /\ leaving = Off
       /\ draining = Off /\ due = Off /\ ending = Off /\ unopened = Off
       /\ opener = Off /\ openFor = Off /\ waiting = Off /\ cached = Off
       /\ parked = Off /\ closing = Off /\ unused = Off /\ lane = Off
       /\ hold = Off /\ reads = Off /\ sweep = Off /\ owed = Off
       /\ seen = Off /\ straddled = Off /\ client = Off /\ asked = Off
       /\ script = Off /\ said = Off /\ peerGen = Off /\ peerKeys = Off
       /\ tried = Off /\ task = Off /\ ages = Off /\ caller = Off
       /\ ready = Off /\ failure = Off /\ queues = Off /\ pump = Off
       /\ stacks = Off /\ loop = Off /\ sock = Off /\ progress = Off
       /\ toStack = Off /\ toCaller = Off /\ reading = Off /\ peer = Off
       /\ decided = Off /\ stands = Off /\ denied = Off /\ leg = Off
       /\ had = Off /\ shut = Off /\ tunnelUp = Off /\ raising = Off
       /\ doing = Off /\ aim = Off /\ before = Off /\ directUp = Off
       /\ password = Off /\ flips = Off /\ logins = Off /\ overtaken = Off
       /\ since = Off /\ front = Off /\ attached = Off /\ alive = Off
       /\ users = Off /\ busy = Off /\ recorded = Off /\ remounted = Off
       /\ aborted = Off /\ join = Off /\ tear = Off /\ gui = Off
       /\ waited = Off /\ watched = Off /\ watching = Off /\ looking = Off
       /\ owners = Off /\ step = Off /\ left = Off /\ free = Off
       /\ next = Off /\ close = Off
    \/ /\ part = "session" /\ Session!Init
       /\ nextId = Off /\ inFlight = Off /\ backingOff = Off
       /\ laterAcks = Off /\ net = Off /\ acks = Off /\ expected = Off
       /\ buffered = Off /\ pendingAcks = Off /\ recentAcks = Off
       /\ delivered = Off /\ state = Off /\ openedFor = Off
       /\ failures = Off /\ trials = Off /\ quiet = Off /\ lost = Off
       /\ total = Off /\ overwrite = Off /\ file = Off /\ partial = Off
       /\ late = Off /\ pc = Off /\ index = Off /\ attempt = Off
       /\ restarts = Off /\ handle = Off /\ resent = Off /\ unhashed = Off
       /\ intruded = Off /\ result = Off /\ mapped = Off /\ refusal = Off
       /\ last = Off /\ queue = Off /\ fresh = Off /\ accepts = Off
       /\ dials = Off /\ struck = Off /\ noted = Off /\ crowded = Off
       /\ doubled = Off /\ generation = Off /\ moving = Off /\ laneOf = Off
       /\ live = Off /\ leaving = Off /\ draining = Off /\ due = Off
       /\ ending = Off /\ unopened = Off /\ opener = Off /\ openFor = Off
       /\ waiting = Off /\ cached = Off /\ parked = Off /\ closing = Off
       /\ unused = Off /\ lane = Off /\ hold = Off /\ reads = Off
       /\ sweep = Off /\ owed = Off /\ seen = Off /\ straddled = Off
       /\ client = Off /\ asked = Off /\ script = Off /\ said = Off
       /\ peerGen = Off /\ peerKeys = Off /\ tried = Off /\ task = Off
       /\ ages = Off /\ caller = Off /\ ready = Off /\ failure = Off
       /\ queues = Off /\ pump = Off /\ stacks = Off /\ loop = Off
       /\ sock = Off /\ progress = Off /\ toStack = Off /\ toCaller = Off
       /\ reading = Off /\ peer = Off /\ decided = Off /\ stands = Off
       /\ denied = Off /\ leg = Off /\ had = Off /\ shut = Off
       /\ tunnelUp = Off /\ raising = Off /\ doing = Off /\ aim = Off
       /\ before = Off /\ directUp = Off /\ password = Off /\ flips = Off
       /\ logins = Off /\ overtaken = Off /\ since = Off /\ front = Off
       /\ attached = Off /\ alive = Off /\ users = Off /\ busy = Off
       /\ recorded = Off /\ remounted = Off /\ aborted = Off /\ join = Off
       /\ tear = Off /\ gui = Off /\ waited = Off /\ watched = Off
       /\ watching = Off /\ looking = Off /\ owners = Off /\ step = Off
       /\ left = Off /\ free = Off /\ next = Off /\ close = Off
    \/ /\ part = "lanes" /\ Lane!Init
       /\ nextId = Off /\ inFlight = Off /\ backingOff = Off
       /\ laterAcks = Off /\ net = Off /\ acks = Off /\ expected = Off
       /\ buffered = Off /\ pendingAcks = Off /\ recentAcks = Off
       /\ delivered = Off /\ state = Off /\ openedFor = Off /\ trials = Off
       /\ quiet = Off /\ total = Off /\ overwrite = Off /\ file = Off
       /\ partial = Off /\ pc = Off /\ index = Off /\ attempt = Off
       /\ restarts = Off /\ handle = Off /\ resent = Off /\ unhashed = Off
       /\ intruded = Off /\ result = Off /\ mapped = Off /\ refusal = Off
       /\ last = Off /\ queue = Off /\ fresh = Off /\ accepts = Off
       /\ dials = Off /\ struck = Off /\ noted = Off /\ crowded = Off
       /\ doubled = Off /\ kind = Off /\ cur = Off /\ made = Off
       /\ dead = Off /\ trees = Off /\ lock = Off /\ needs = Off
       /\ refused = Off /\ turnedAway = Off /\ hasSession = Off
       /\ ended = Off /\ adopting = Off /\ trouble = Off /\ known = Off
       /\ dropped = Off /\ client = Off /\ asked = Off /\ script = Off
       /\ said = Off /\ peerGen = Off /\ peerKeys = Off /\ tried = Off
       /\ task = Off /\ ages = Off /\ caller = Off /\ ready = Off
       /\ failure = Off /\ queues = Off /\ pump = Off /\ stacks = Off
       /\ loop = Off /\ sock = Off /\ progress = Off /\ toStack = Off
       /\ toCaller = Off /\ reading = Off /\ peer = Off /\ decided = Off
       /\ stands = Off /\ denied = Off /\ leg = Off /\ had = Off
       /\ shut = Off /\ tunnelUp = Off /\ raising = Off /\ doing = Off
       /\ aim = Off /\ before = Off /\ directUp = Off /\ password = Off
       /\ flips = Off /\ logins = Off /\ overtaken = Off /\ since = Off
       /\ front = Off /\ attached = Off /\ alive = Off /\ users = Off
       /\ busy = Off /\ recorded = Off /\ remounted = Off /\ aborted = Off
       /\ join = Off /\ tear = Off /\ gui = Off /\ waited = Off
       /\ watched = Off /\ watching = Off /\ looking = Off /\ owners = Off
       /\ step = Off /\ left = Off /\ free = Off /\ next = Off
       /\ close = Off
    \/ /\ part = "keys" /\ Keys!Init
       /\ nextId = Off /\ inFlight = Off /\ backingOff = Off
       /\ laterAcks = Off /\ net = Off /\ acks = Off /\ expected = Off
       /\ buffered = Off /\ pendingAcks = Off /\ recentAcks = Off
       /\ delivered = Off /\ state = Off /\ openedFor = Off
       /\ failures = Off /\ phase = Off /\ trials = Off /\ quiet = Off
       /\ lost = Off /\ total = Off /\ overwrite = Off /\ file = Off
       /\ partial = Off /\ late = Off /\ pc = Off /\ index = Off
       /\ attempt = Off /\ restarts = Off /\ handle = Off /\ resent = Off
       /\ unhashed = Off /\ intruded = Off /\ result = Off /\ mapped = Off
       /\ refusal = Off /\ last = Off /\ queue = Off /\ fresh = Off
       /\ accepts = Off /\ dials = Off /\ struck = Off /\ noted = Off
       /\ crowded = Off /\ doubled = Off /\ kind = Off /\ cur = Off
       /\ made = Off /\ dead = Off /\ trees = Off /\ lock = Off
       /\ needs = Off /\ refused = Off /\ turnedAway = Off
       /\ hasSession = Off /\ ended = Off /\ on = Off /\ adopting = Off
       /\ trouble = Off /\ known = Off /\ dropped = Off /\ generation = Off
       /\ moving = Off /\ laneOf = Off /\ live = Off /\ leaving = Off
       /\ draining = Off /\ due = Off /\ ending = Off /\ unopened = Off
       /\ opener = Off /\ openFor = Off /\ waiting = Off /\ cached = Off
       /\ parked = Off /\ closing = Off /\ unused = Off /\ lane = Off
       /\ hold = Off /\ reads = Off /\ sweep = Off /\ owed = Off
       /\ seen = Off /\ straddled = Off /\ task = Off /\ ages = Off
       /\ caller = Off /\ ready = Off /\ failure = Off /\ queues = Off
       /\ pump = Off /\ stacks = Off /\ loop = Off /\ sock = Off
       /\ progress = Off /\ toStack = Off /\ toCaller = Off /\ reading = Off
       /\ peer = Off /\ decided = Off /\ stands = Off /\ denied = Off
       /\ leg = Off /\ had = Off /\ shut = Off /\ tunnelUp = Off
       /\ raising = Off /\ doing = Off /\ aim = Off /\ before = Off
       /\ directUp = Off /\ password = Off /\ flips = Off /\ logins = Off
       /\ overtaken = Off /\ since = Off /\ front = Off /\ attached = Off
       /\ alive = Off /\ users = Off /\ busy = Off /\ recorded = Off
       /\ remounted = Off /\ aborted = Off /\ join = Off /\ tear = Off
       /\ gui = Off /\ waited = Off /\ watched = Off /\ watching = Off
       /\ looking = Off /\ owners = Off /\ step = Off /\ left = Off
       /\ free = Off /\ next = Off /\ close = Off
    \/ /\ part = "driver" /\ Driver!Init
       /\ nextId = Off /\ inFlight = Off /\ backingOff = Off
       /\ laterAcks = Off /\ net = Off /\ acks = Off /\ expected = Off
       /\ buffered = Off /\ pendingAcks = Off /\ recentAcks = Off
       /\ delivered = Off /\ state = Off /\ openedFor = Off
       /\ failures = Off /\ phase = Off /\ trials = Off /\ quiet = Off
       /\ lost = Off /\ total = Off /\ overwrite = Off /\ file = Off
       /\ partial = Off /\ late = Off /\ pc = Off /\ index = Off
       /\ attempt = Off /\ restarts = Off /\ handle = Off /\ resent = Off
       /\ unhashed = Off /\ intruded = Off /\ result = Off /\ mapped = Off
       /\ refusal = Off /\ last = Off /\ queue = Off /\ fresh = Off
       /\ accepts = Off /\ dials = Off /\ struck = Off /\ noted = Off
       /\ crowded = Off /\ doubled = Off /\ kind = Off /\ cur = Off
       /\ made = Off /\ dead = Off /\ trees = Off /\ lock = Off
       /\ needs = Off /\ refused = Off /\ turnedAway = Off
       /\ hasSession = Off /\ ended = Off /\ on = Off /\ adopting = Off
       /\ trouble = Off /\ known = Off /\ dropped = Off /\ generation = Off
       /\ moving = Off /\ laneOf = Off /\ live = Off /\ leaving = Off
       /\ draining = Off /\ due = Off /\ ending = Off /\ unopened = Off
       /\ opener = Off /\ openFor = Off /\ waiting = Off /\ cached = Off
       /\ parked = Off /\ closing = Off /\ unused = Off /\ lane = Off
       /\ hold = Off /\ reads = Off /\ sweep = Off /\ owed = Off
       /\ seen = Off /\ straddled = Off /\ client = Off /\ asked = Off
       /\ script = Off /\ said = Off /\ peerGen = Off /\ peerKeys = Off
       /\ tried = Off /\ loop = Off /\ sock = Off /\ progress = Off
       /\ toStack = Off /\ toCaller = Off /\ reading = Off /\ peer = Off
       /\ decided = Off /\ stands = Off /\ denied = Off /\ leg = Off
       /\ had = Off /\ shut = Off /\ tunnelUp = Off /\ raising = Off
       /\ doing = Off /\ aim = Off /\ before = Off /\ directUp = Off
       /\ password = Off /\ flips = Off /\ logins = Off /\ overtaken = Off
       /\ since = Off /\ front = Off /\ attached = Off /\ alive = Off
       /\ users = Off /\ busy = Off /\ recorded = Off /\ remounted = Off
       /\ aborted = Off /\ join = Off /\ tear = Off /\ gui = Off
       /\ waited = Off /\ watched = Off /\ watching = Off /\ looking = Off
       /\ owners = Off /\ step = Off /\ left = Off /\ free = Off
       /\ next = Off /\ close = Off
    \/ /\ part = "stream" /\ Stream!Init
       /\ nextId = Off /\ inFlight = Off /\ backingOff = Off
       /\ laterAcks = Off /\ net = Off /\ acks = Off /\ expected = Off
       /\ buffered = Off /\ pendingAcks = Off /\ recentAcks = Off
       /\ delivered = Off /\ state = Off /\ openedFor = Off
       /\ failures = Off /\ phase = Off /\ trials = Off /\ quiet = Off
       /\ lost = Off /\ total = Off /\ overwrite = Off /\ file = Off
       /\ partial = Off /\ late = Off /\ pc = Off /\ index = Off
       /\ attempt = Off /\ restarts = Off /\ handle = Off /\ resent = Off
       /\ unhashed = Off /\ intruded = Off /\ result = Off /\ mapped = Off
       /\ refusal = Off /\ last = Off /\ queue = Off /\ fresh = Off
       /\ accepts = Off /\ dials = Off /\ struck = Off /\ noted = Off
       /\ crowded = Off /\ doubled = Off /\ kind = Off /\ cur = Off
       /\ made = Off /\ dead = Off /\ trees = Off /\ lock = Off
       /\ needs = Off /\ refused = Off /\ turnedAway = Off
       /\ hasSession = Off /\ ended = Off /\ on = Off /\ adopting = Off
       /\ trouble = Off /\ known = Off /\ dropped = Off /\ generation = Off
       /\ moving = Off /\ laneOf = Off /\ live = Off /\ leaving = Off
       /\ draining = Off /\ due = Off /\ ending = Off /\ unopened = Off
       /\ opener = Off /\ openFor = Off /\ waiting = Off /\ cached = Off
       /\ parked = Off /\ closing = Off /\ unused = Off /\ lane = Off
       /\ hold = Off /\ reads = Off /\ sweep = Off /\ owed = Off
       /\ seen = Off /\ straddled = Off /\ client = Off /\ asked = Off
       /\ script = Off /\ said = Off /\ peerGen = Off /\ peerKeys = Off
       /\ tried = Off /\ task = Off /\ ages = Off /\ ready = Off
       /\ failure = Off /\ queues = Off /\ pump = Off /\ stacks = Off
       /\ decided = Off /\ stands = Off /\ denied = Off /\ leg = Off
       /\ had = Off /\ shut = Off /\ tunnelUp = Off /\ raising = Off
       /\ doing = Off /\ aim = Off /\ before = Off /\ directUp = Off
       /\ password = Off /\ flips = Off /\ logins = Off /\ overtaken = Off
       /\ since = Off /\ front = Off /\ attached = Off /\ alive = Off
       /\ users = Off /\ busy = Off /\ recorded = Off /\ remounted = Off
       /\ aborted = Off /\ join = Off /\ tear = Off /\ gui = Off
       /\ waited = Off /\ watched = Off /\ watching = Off /\ looking = Off
       /\ owners = Off /\ step = Off /\ left = Off /\ free = Off
       /\ next = Off /\ close = Off
    \/ /\ part = "legs" /\ Leg!Init
       /\ nextId = Off /\ inFlight = Off /\ backingOff = Off
       /\ laterAcks = Off /\ net = Off /\ acks = Off /\ expected = Off
       /\ buffered = Off /\ pendingAcks = Off /\ recentAcks = Off
       /\ delivered = Off /\ state = Off /\ openedFor = Off
       /\ failures = Off /\ phase = Off /\ trials = Off /\ lost = Off
       /\ total = Off /\ overwrite = Off /\ file = Off /\ partial = Off
       /\ late = Off /\ pc = Off /\ index = Off /\ attempt = Off
       /\ restarts = Off /\ handle = Off /\ resent = Off /\ unhashed = Off
       /\ intruded = Off /\ result = Off /\ mapped = Off /\ refusal = Off
       /\ last = Off /\ queue = Off /\ fresh = Off /\ accepts = Off
       /\ dials = Off /\ struck = Off /\ noted = Off /\ crowded = Off
       /\ doubled = Off /\ kind = Off /\ cur = Off /\ made = Off
       /\ dead = Off /\ trees = Off /\ lock = Off /\ needs = Off
       /\ refused = Off /\ turnedAway = Off /\ hasSession = Off
       /\ ended = Off /\ on = Off /\ adopting = Off /\ trouble = Off
       /\ known = Off /\ dropped = Off /\ generation = Off /\ moving = Off
       /\ laneOf = Off /\ live = Off /\ leaving = Off /\ draining = Off
       /\ due = Off /\ ending = Off /\ unopened = Off /\ opener = Off
       /\ openFor = Off /\ waiting = Off /\ cached = Off /\ parked = Off
       /\ closing = Off /\ unused = Off /\ lane = Off /\ hold = Off
       /\ reads = Off /\ sweep = Off /\ owed = Off /\ seen = Off
       /\ straddled = Off /\ client = Off /\ asked = Off /\ script = Off
       /\ said = Off /\ peerGen = Off /\ peerKeys = Off /\ tried = Off
       /\ task = Off /\ ages = Off /\ caller = Off /\ ready = Off
       /\ failure = Off /\ queues = Off /\ pump = Off /\ stacks = Off
       /\ loop = Off /\ sock = Off /\ progress = Off /\ toStack = Off
       /\ toCaller = Off /\ reading = Off /\ peer = Off /\ front = Off
       /\ attached = Off /\ alive = Off /\ users = Off /\ busy = Off
       /\ recorded = Off /\ remounted = Off /\ aborted = Off /\ join = Off
       /\ tear = Off /\ gui = Off /\ waited = Off /\ watched = Off
       /\ watching = Off /\ looking = Off /\ owners = Off /\ step = Off
       /\ left = Off /\ free = Off /\ next = Off /\ close = Off
    \/ /\ part = "end" /\ End!Init
       /\ nextId = Off /\ inFlight = Off /\ backingOff = Off
       /\ laterAcks = Off /\ net = Off /\ acks = Off /\ expected = Off
       /\ buffered = Off /\ pendingAcks = Off /\ recentAcks = Off
       /\ delivered = Off /\ state = Off /\ openedFor = Off
       /\ failures = Off /\ phase = Off /\ trials = Off /\ quiet = Off
       /\ lost = Off /\ total = Off /\ overwrite = Off /\ file = Off
       /\ partial = Off /\ late = Off /\ pc = Off /\ index = Off
       /\ attempt = Off /\ restarts = Off /\ handle = Off /\ resent = Off
       /\ unhashed = Off /\ intruded = Off /\ result = Off /\ mapped = Off
       /\ refusal = Off /\ last = Off /\ queue = Off /\ fresh = Off
       /\ accepts = Off /\ dials = Off /\ struck = Off /\ noted = Off
       /\ crowded = Off /\ doubled = Off /\ kind = Off /\ cur = Off
       /\ made = Off /\ dead = Off /\ trees = Off /\ lock = Off
       /\ needs = Off /\ refused = Off /\ turnedAway = Off
       /\ hasSession = Off /\ ended = Off /\ on = Off /\ adopting = Off
       /\ trouble = Off /\ known = Off /\ dropped = Off /\ generation = Off
       /\ moving = Off /\ laneOf = Off /\ live = Off /\ leaving = Off
       /\ draining = Off /\ due = Off /\ ending = Off /\ unopened = Off
       /\ opener = Off /\ openFor = Off /\ waiting = Off /\ cached = Off
       /\ parked = Off /\ closing = Off /\ unused = Off /\ lane = Off
       /\ hold = Off /\ reads = Off /\ sweep = Off /\ owed = Off
       /\ seen = Off /\ straddled = Off /\ client = Off /\ asked = Off
       /\ script = Off /\ said = Off /\ peerGen = Off /\ peerKeys = Off
       /\ tried = Off /\ task = Off /\ ages = Off /\ caller = Off
       /\ ready = Off /\ failure = Off /\ queues = Off /\ pump = Off
       /\ stacks = Off /\ sock = Off /\ progress = Off /\ toStack = Off
       /\ toCaller = Off /\ reading = Off /\ peer = Off /\ decided = Off
       /\ stands = Off /\ denied = Off /\ leg = Off /\ had = Off
       /\ shut = Off /\ tunnelUp = Off /\ raising = Off /\ doing = Off
       /\ aim = Off /\ before = Off /\ directUp = Off /\ password = Off
       /\ flips = Off /\ logins = Off /\ overtaken = Off /\ since = Off
       /\ step = Off /\ left = Off /\ free = Off /\ next = Off
       /\ close = Off
    \/ /\ part = "throttle" /\ Slots!Init
       /\ nextId = Off /\ inFlight = Off /\ backingOff = Off
       /\ laterAcks = Off /\ net = Off /\ acks = Off /\ expected = Off
       /\ buffered = Off /\ pendingAcks = Off /\ recentAcks = Off
       /\ delivered = Off /\ state = Off /\ openedFor = Off
       /\ failures = Off /\ phase = Off /\ trials = Off /\ quiet = Off
       /\ lost = Off /\ total = Off /\ overwrite = Off /\ file = Off
       /\ partial = Off /\ late = Off /\ pc = Off /\ index = Off
       /\ restarts = Off /\ handle = Off /\ resent = Off /\ unhashed = Off
       /\ intruded = Off /\ result = Off /\ mapped = Off /\ refusal = Off
       /\ last = Off /\ fresh = Off /\ accepts = Off /\ dials = Off
       /\ struck = Off /\ noted = Off /\ crowded = Off /\ doubled = Off
       /\ kind = Off /\ cur = Off /\ made = Off /\ dead = Off /\ trees = Off
       /\ lock = Off /\ needs = Off /\ refused = Off /\ turnedAway = Off
       /\ hasSession = Off /\ ended = Off /\ on = Off /\ adopting = Off
       /\ trouble = Off /\ known = Off /\ dropped = Off /\ generation = Off
       /\ moving = Off /\ laneOf = Off /\ live = Off /\ leaving = Off
       /\ draining = Off /\ due = Off /\ ending = Off /\ unopened = Off
       /\ opener = Off /\ openFor = Off /\ waiting = Off /\ cached = Off
       /\ parked = Off /\ closing = Off /\ unused = Off /\ lane = Off
       /\ hold = Off /\ reads = Off /\ sweep = Off /\ owed = Off
       /\ seen = Off /\ straddled = Off /\ client = Off /\ asked = Off
       /\ script = Off /\ said = Off /\ peerGen = Off /\ peerKeys = Off
       /\ tried = Off /\ task = Off /\ ages = Off /\ caller = Off
       /\ ready = Off /\ failure = Off /\ queues = Off /\ pump = Off
       /\ stacks = Off /\ loop = Off /\ sock = Off /\ progress = Off
       /\ toStack = Off /\ toCaller = Off /\ reading = Off /\ peer = Off
       /\ decided = Off /\ stands = Off /\ denied = Off /\ leg = Off
       /\ had = Off /\ shut = Off /\ tunnelUp = Off /\ raising = Off
       /\ doing = Off /\ aim = Off /\ before = Off /\ directUp = Off
       /\ password = Off /\ flips = Off /\ logins = Off /\ overtaken = Off
       /\ front = Off /\ attached = Off /\ alive = Off /\ users = Off
       /\ busy = Off /\ recorded = Off /\ remounted = Off /\ aborted = Off
       /\ join = Off /\ tear = Off /\ gui = Off /\ waited = Off
       /\ watched = Off /\ watching = Off /\ looking = Off /\ owners = Off

OnlyReliable ==
    /\ part = "reliable"
    /\ UNCHANGED <<part, state, openedFor, failures, phase, trials, quiet,
                  lost, total, overwrite, file, partial, late, pc, index,
                  attempt, restarts, handle, resent, unhashed, intruded,
                  result, mapped, refusal, last, queue, fresh, accepts, dials,
                  struck, noted, crowded, doubled, kind, cur, made, dead,
                  trees, lock, needs, refused, turnedAway, hasSession, ended,
                  on, adopting, trouble, known, dropped, generation, moving,
                  laneOf, live, leaving, draining, due, ending, unopened,
                  opener, openFor, waiting, cached, parked, closing, unused,
                  lane, hold, reads, sweep, owed, seen, straddled, client,
                  asked, script, said, peerGen, peerKeys, tried, task, ages,
                  caller, ready, failure, queues, pump, stacks, loop, sock,
                  progress, toStack, toCaller, reading, peer, decided, stands,
                  denied, leg, had, shut, tunnelUp, raising, doing, aim,
                  before, directUp, password, flips, logins, overtaken, since,
                  front, attached, alive, users, busy, recorded, remounted,
                  aborted, join, tear, gui, waited, watched, watching,
                  looking, owners, step, left, free, next, close>>
OnlyBreaker ==
    /\ part = "breaker"
    /\ UNCHANGED <<part, nextId, inFlight, backingOff, laterAcks, net, acks,
                  expected, buffered, pendingAcks, recentAcks, delivered,
                  total, overwrite, file, partial, late, pc, index, attempt,
                  restarts, handle, resent, unhashed, intruded, result,
                  mapped, refusal, last, queue, fresh, accepts, dials, struck,
                  noted, crowded, doubled, kind, cur, made, dead, trees, lock,
                  needs, refused, turnedAway, hasSession, ended, on, adopting,
                  trouble, known, dropped, generation, moving, laneOf, live,
                  leaving, draining, due, ending, unopened, opener, openFor,
                  waiting, cached, parked, closing, unused, lane, hold, reads,
                  sweep, owed, seen, straddled, client, asked, script, said,
                  peerGen, peerKeys, tried, task, ages, caller, ready,
                  failure, queues, pump, stacks, loop, sock, progress,
                  toStack, toCaller, reading, peer, decided, stands, denied,
                  leg, had, shut, tunnelUp, raising, doing, aim, before,
                  directUp, password, flips, logins, overtaken, since, front,
                  attached, alive, users, busy, recorded, remounted, aborted,
                  join, tear, gui, waited, watched, watching, looking, owners,
                  step, left, free, next, close>>
OnlyUpload ==
    /\ part = "upload"
    /\ UNCHANGED <<part, nextId, inFlight, backingOff, laterAcks, net, acks,
                  expected, buffered, pendingAcks, recentAcks, delivered,
                  state, openedFor, failures, phase, trials, quiet, lost,
                  mapped, refusal, last, queue, fresh, accepts, dials, struck,
                  noted, crowded, doubled, kind, cur, made, dead, trees, lock,
                  needs, refused, turnedAway, hasSession, ended, on, adopting,
                  trouble, known, dropped, generation, moving, laneOf, live,
                  leaving, draining, due, ending, unopened, opener, openFor,
                  waiting, cached, parked, closing, unused, lane, hold, reads,
                  sweep, owed, seen, straddled, client, asked, script, said,
                  peerGen, peerKeys, tried, task, ages, caller, ready,
                  failure, queues, pump, stacks, loop, sock, progress,
                  toStack, toCaller, reading, peer, decided, stands, denied,
                  leg, had, shut, tunnelUp, raising, doing, aim, before,
                  directUp, password, flips, logins, overtaken, since, front,
                  attached, alive, users, busy, recorded, remounted, aborted,
                  join, tear, gui, waited, watched, watching, looking, owners,
                  step, left, free, next, close>>
OnlyGate ==
    /\ part = "gate"
    /\ UNCHANGED <<part, nextId, inFlight, backingOff, laterAcks, net, acks,
                  expected, buffered, pendingAcks, recentAcks, delivered,
                  state, openedFor, failures, trials, quiet, lost, total,
                  overwrite, file, partial, late, pc, index, attempt,
                  restarts, handle, resent, unhashed, intruded, result, kind,
                  cur, made, dead, trees, lock, needs, refused, turnedAway,
                  hasSession, ended, on, adopting, trouble, known, dropped,
                  generation, moving, laneOf, live, leaving, draining, due,
                  ending, unopened, opener, openFor, waiting, cached, parked,
                  closing, unused, lane, hold, reads, sweep, owed, seen,
                  straddled, client, asked, script, said, peerGen, peerKeys,
                  tried, task, ages, caller, ready, failure, queues, pump,
                  stacks, loop, sock, progress, toStack, toCaller, reading,
                  peer, decided, stands, denied, leg, had, shut, tunnelUp,
                  raising, doing, aim, before, directUp, password, flips,
                  logins, overtaken, since, front, attached, alive, users,
                  busy, recorded, remounted, aborted, join, tear, gui, waited,
                  watched, watching, looking, owners, step, left, free, next,
                  close>>
OnlySession ==
    /\ part = "session"
    /\ UNCHANGED <<part, nextId, inFlight, backingOff, laterAcks, net, acks,
                  expected, buffered, pendingAcks, recentAcks, delivered,
                  state, openedFor, failures, trials, quiet, lost, total,
                  overwrite, file, partial, late, pc, index, attempt,
                  restarts, handle, resent, unhashed, intruded, result,
                  mapped, refusal, last, queue, fresh, accepts, dials, struck,
                  noted, crowded, doubled, generation, moving, laneOf, live,
                  leaving, draining, due, ending, unopened, opener, openFor,
                  waiting, cached, parked, closing, unused, lane, hold, reads,
                  sweep, owed, seen, straddled, client, asked, script, said,
                  peerGen, peerKeys, tried, task, ages, caller, ready,
                  failure, queues, pump, stacks, loop, sock, progress,
                  toStack, toCaller, reading, peer, decided, stands, denied,
                  leg, had, shut, tunnelUp, raising, doing, aim, before,
                  directUp, password, flips, logins, overtaken, since, front,
                  attached, alive, users, busy, recorded, remounted, aborted,
                  join, tear, gui, waited, watched, watching, looking, owners,
                  step, left, free, next, close>>
OnlyLanes ==
    /\ part = "lanes"
    /\ UNCHANGED <<part, nextId, inFlight, backingOff, laterAcks, net, acks,
                  expected, buffered, pendingAcks, recentAcks, delivered,
                  state, openedFor, trials, quiet, total, overwrite, file,
                  partial, pc, index, attempt, restarts, handle, resent,
                  unhashed, intruded, result, mapped, refusal, last, queue,
                  fresh, accepts, dials, struck, noted, crowded, doubled,
                  kind, cur, made, dead, trees, lock, needs, refused,
                  turnedAway, hasSession, ended, adopting, trouble, known,
                  dropped, client, asked, script, said, peerGen, peerKeys,
                  tried, task, ages, caller, ready, failure, queues, pump,
                  stacks, loop, sock, progress, toStack, toCaller, reading,
                  peer, decided, stands, denied, leg, had, shut, tunnelUp,
                  raising, doing, aim, before, directUp, password, flips,
                  logins, overtaken, since, front, attached, alive, users,
                  busy, recorded, remounted, aborted, join, tear, gui, waited,
                  watched, watching, looking, owners, step, left, free, next,
                  close>>
OnlyKeys ==
    /\ part = "keys"
    /\ UNCHANGED <<part, nextId, inFlight, backingOff, laterAcks, net, acks,
                  expected, buffered, pendingAcks, recentAcks, delivered,
                  state, openedFor, failures, phase, trials, quiet, lost,
                  total, overwrite, file, partial, late, pc, index, attempt,
                  restarts, handle, resent, unhashed, intruded, result,
                  mapped, refusal, last, queue, fresh, accepts, dials, struck,
                  noted, crowded, doubled, kind, cur, made, dead, trees, lock,
                  needs, refused, turnedAway, hasSession, ended, on, adopting,
                  trouble, known, dropped, generation, moving, laneOf, live,
                  leaving, draining, due, ending, unopened, opener, openFor,
                  waiting, cached, parked, closing, unused, lane, hold, reads,
                  sweep, owed, seen, straddled, task, ages, caller, ready,
                  failure, queues, pump, stacks, loop, sock, progress,
                  toStack, toCaller, reading, peer, decided, stands, denied,
                  leg, had, shut, tunnelUp, raising, doing, aim, before,
                  directUp, password, flips, logins, overtaken, since, front,
                  attached, alive, users, busy, recorded, remounted, aborted,
                  join, tear, gui, waited, watched, watching, looking, owners,
                  step, left, free, next, close>>
OnlyDriver ==
    /\ part = "driver"
    /\ UNCHANGED <<part, nextId, inFlight, backingOff, laterAcks, net, acks,
                  expected, buffered, pendingAcks, recentAcks, delivered,
                  state, openedFor, failures, phase, trials, quiet, lost,
                  total, overwrite, file, partial, late, pc, index, attempt,
                  restarts, handle, resent, unhashed, intruded, result,
                  mapped, refusal, last, queue, fresh, accepts, dials, struck,
                  noted, crowded, doubled, kind, cur, made, dead, trees, lock,
                  needs, refused, turnedAway, hasSession, ended, on, adopting,
                  trouble, known, dropped, generation, moving, laneOf, live,
                  leaving, draining, due, ending, unopened, opener, openFor,
                  waiting, cached, parked, closing, unused, lane, hold, reads,
                  sweep, owed, seen, straddled, client, asked, script, said,
                  peerGen, peerKeys, tried, loop, sock, progress, toStack,
                  toCaller, reading, peer, decided, stands, denied, leg, had,
                  shut, tunnelUp, raising, doing, aim, before, directUp,
                  password, flips, logins, overtaken, since, front, attached,
                  alive, users, busy, recorded, remounted, aborted, join,
                  tear, gui, waited, watched, watching, looking, owners, step,
                  left, free, next, close>>
OnlyStream ==
    /\ part = "stream"
    /\ UNCHANGED <<part, nextId, inFlight, backingOff, laterAcks, net, acks,
                  expected, buffered, pendingAcks, recentAcks, delivered,
                  state, openedFor, failures, phase, trials, quiet, lost,
                  total, overwrite, file, partial, late, pc, index, attempt,
                  restarts, handle, resent, unhashed, intruded, result,
                  mapped, refusal, last, queue, fresh, accepts, dials, struck,
                  noted, crowded, doubled, kind, cur, made, dead, trees, lock,
                  needs, refused, turnedAway, hasSession, ended, on, adopting,
                  trouble, known, dropped, generation, moving, laneOf, live,
                  leaving, draining, due, ending, unopened, opener, openFor,
                  waiting, cached, parked, closing, unused, lane, hold, reads,
                  sweep, owed, seen, straddled, client, asked, script, said,
                  peerGen, peerKeys, tried, task, ages, ready, failure,
                  queues, pump, stacks, decided, stands, denied, leg, had,
                  shut, tunnelUp, raising, doing, aim, before, directUp,
                  password, flips, logins, overtaken, since, front, attached,
                  alive, users, busy, recorded, remounted, aborted, join,
                  tear, gui, waited, watched, watching, looking, owners, step,
                  left, free, next, close>>
OnlyLegs ==
    /\ part = "legs"
    /\ UNCHANGED <<part, nextId, inFlight, backingOff, laterAcks, net, acks,
                  expected, buffered, pendingAcks, recentAcks, delivered,
                  state, openedFor, failures, phase, trials, lost, total,
                  overwrite, file, partial, late, pc, index, attempt,
                  restarts, handle, resent, unhashed, intruded, result,
                  mapped, refusal, last, queue, fresh, accepts, dials, struck,
                  noted, crowded, doubled, kind, cur, made, dead, trees, lock,
                  needs, refused, turnedAway, hasSession, ended, on, adopting,
                  trouble, known, dropped, generation, moving, laneOf, live,
                  leaving, draining, due, ending, unopened, opener, openFor,
                  waiting, cached, parked, closing, unused, lane, hold, reads,
                  sweep, owed, seen, straddled, client, asked, script, said,
                  peerGen, peerKeys, tried, task, ages, caller, ready,
                  failure, queues, pump, stacks, loop, sock, progress,
                  toStack, toCaller, reading, peer, front, attached, alive,
                  users, busy, recorded, remounted, aborted, join, tear, gui,
                  waited, watched, watching, looking, owners, step, left,
                  free, next, close>>
OnlyEnd ==
    /\ part = "end"
    /\ UNCHANGED <<part, nextId, inFlight, backingOff, laterAcks, net, acks,
                  expected, buffered, pendingAcks, recentAcks, delivered,
                  state, openedFor, failures, phase, trials, quiet, lost,
                  total, overwrite, file, partial, late, pc, index, attempt,
                  restarts, handle, resent, unhashed, intruded, result,
                  mapped, refusal, last, queue, fresh, accepts, dials, struck,
                  noted, crowded, doubled, kind, cur, made, dead, trees, lock,
                  needs, refused, turnedAway, hasSession, ended, on, adopting,
                  trouble, known, dropped, generation, moving, laneOf, live,
                  leaving, draining, due, ending, unopened, opener, openFor,
                  waiting, cached, parked, closing, unused, lane, hold, reads,
                  sweep, owed, seen, straddled, client, asked, script, said,
                  peerGen, peerKeys, tried, task, ages, caller, ready,
                  failure, queues, pump, stacks, sock, progress, toStack,
                  toCaller, reading, peer, decided, stands, denied, leg, had,
                  shut, tunnelUp, raising, doing, aim, before, directUp,
                  password, flips, logins, overtaken, since, step, left, free,
                  next, close>>
OnlyThrottle ==
    /\ part = "throttle"
    /\ UNCHANGED <<part, nextId, inFlight, backingOff, laterAcks, net, acks,
                  expected, buffered, pendingAcks, recentAcks, delivered,
                  state, openedFor, failures, phase, trials, quiet, lost,
                  total, overwrite, file, partial, late, pc, index, restarts,
                  handle, resent, unhashed, intruded, result, mapped, refusal,
                  last, fresh, accepts, dials, struck, noted, crowded,
                  doubled, kind, cur, made, dead, trees, lock, needs, refused,
                  turnedAway, hasSession, ended, on, adopting, trouble, known,
                  dropped, generation, moving, laneOf, live, leaving,
                  draining, due, ending, unopened, opener, openFor, waiting,
                  cached, parked, closing, unused, lane, hold, reads, sweep,
                  owed, seen, straddled, client, asked, script, said, peerGen,
                  peerKeys, tried, task, ages, caller, ready, failure, queues,
                  pump, stacks, loop, sock, progress, toStack, toCaller,
                  reading, peer, decided, stands, denied, leg, had, shut,
                  tunnelUp, raising, doing, aim, before, directUp, password,
                  flips, logins, overtaken, front, attached, alive, users,
                  busy, recorded, remounted, aborted, join, tear, gui, waited,
                  watched, watching, looking, owners>>

Next ==
    \/ OnlyReliable /\ Channel!Next
    \/ OnlyBreaker /\ Breaker!Next
    \/ OnlyUpload /\ Upload!Next
    \/ OnlyGate /\ Gate!Next
    \/ OnlySession /\ Session!Next
    \/ OnlyLanes /\ Lane!Next
    \/ OnlyKeys /\ Keys!Next
    \/ OnlyDriver /\ Driver!Next
    \/ OnlyStream /\ Stream!Next
    \/ OnlyLegs /\ Leg!Next
    \/ OnlyEnd /\ End!Next
    \/ OnlyThrottle /\ Slots!Next

\* Each part is as fair as its module says; a behaviour has one part, so the
\* fairness conditions of different parts share a conjunct.
Fairness ==
    /\ WF_vars(
         \/ OnlyReliable /\ (Channel!Queue)
         \/ OnlyBreaker /\ (Breaker!Tick)
         \/ OnlyUpload /\ (Upload!Sending \/ Upload!Restarting \/ Upload!Verifying)
         \/ OnlyGate /\ (Gate!Takes("c1"))
         \/ OnlySession /\ (Session!Begin("o1"))
         \/ OnlyLanes /\ (Lane!Opening)
         \/ OnlyKeys /\ (Keys!Says)
         \/ OnlyDriver /\ (Driver!Loop)
         \/ OnlyStream /\ (Stream!Loop)
         \/ OnlyLegs /\ (Leg!Watch)
         \/ OnlyEnd /\ (End!NasAnswers)
         \/ OnlyThrottle /\ (Slots!Step("c1")))
    /\ WF_vars(
         \/ OnlyReliable /\ (Channel!Transmit)
         \/ OnlyBreaker /\ (Breaker!Admit("o1") \/ Breaker!Skip("o1"))
         \/ OnlyGate /\ (Gate!Ends("c1"))
         \/ OnlySession /\ (Session!Dials("o1"))
         \/ OnlyLanes /\ (Lane!MoveEnds)
         \/ OnlyKeys /\ (Keys!Renegotiates)
         \/ OnlyDriver /\ (Driver!ConnectEnds)
         \/ OnlyStream /\ (Stream!Read)
         \/ OnlyLegs /\ (Leg!Ends)
         \/ OnlyEnd /\ (End!ConnectionEnds)
         \/ OnlyThrottle /\ (Slots!Step("c2")))
    /\ WF_vars(
         \/ OnlyReliable /\ (pendingAcks # <<>> /\ Channel!SendAcks)
         \/ OnlyBreaker /\ (Breaker!Answered("o1") \/ Breaker!Declined("o1") \/ Breaker!Failed("o1") \/ Breaker!Dropped("o1"))
         \/ OnlyGate /\ (Gate!Takes("c2"))
         \/ OnlySession /\ (Session!Ends("o1"))
         \/ OnlyLanes /\ (Lane!Draining("l1"))
         \/ OnlyDriver /\ (Driver!Pumps)
         \/ OnlyLegs /\ (Leg!ConnectsThrough("watch") \/ Leg!Raises("watch"))
         \/ OnlyEnd /\ (End!Teardown)
         \/ OnlyThrottle /\ (Slots!Tick))
    /\ WF_vars(
         \/ OnlyReliable /\ (Channel!BackedOff(0))
         \/ OnlyBreaker /\ (Breaker!HttpDone("o1"))
         \/ OnlyGate /\ (Gate!Ends("c2"))
         \/ OnlySession /\ (Session!Begin("o2"))
         \/ OnlyLanes /\ (Lane!Ends("p1"))
         \/ OnlyLegs /\ (Leg!ConnectsThrough("redial") \/ Leg!Raises("redial"))
         \/ OnlyEnd /\ (End!Returns))
    /\ WF_vars(
         \/ OnlyReliable /\ (Channel!BackedOff(1))
         \/ OnlyBreaker /\ (Breaker!Admit("p") \/ Breaker!Skip("p"))
         \/ OnlySession /\ (Session!Dials("o2"))
         \/ OnlyLanes /\ (Lane!Ends("p2"))
         \/ OnlyLegs /\ (Leg!ConnectsThrough("lane") \/ Leg!Raises("lane")))
    /\ WF_vars(
         \/ OnlyBreaker /\ (Breaker!Answered("p") \/ Breaker!Declined("p") \/ Breaker!Failed("p") \/ Breaker!Dropped("p"))
         \/ OnlySession /\ (Session!Ends("o2"))
         \/ OnlyLanes /\ (Lane!CloseEnds("h1")))
    /\ WF_vars(
         \/ OnlyBreaker /\ (Breaker!HttpDone("p"))
         \/ OnlyLanes /\ (Lane!Forgetting))
    /\ SF_vars(
         \/ OnlyReliable /\ (Channel!Receive(0))
         \/ OnlySession /\ (Session!Enters("o1"))
         \/ OnlyKeys /\ (\E g \in Keys!Gens, n \in 1 .. 7 : Keys!Arrives(g, n) /\ client' # client)
         \/ OnlyDriver /\ (Driver!Tick)
         \/ OnlyLegs /\ (Leg!LogsIn)
         \/ OnlyEnd /\ (End!LoopEnds))
    /\ SF_vars(
         \/ OnlyReliable /\ (\E ids \in SUBSET Channel!Id : 0 \in ids /\ Channel!AcksArrive(ids))
         \/ OnlySession /\ (Session!Rebuilt("o1"))
         \/ OnlyDriver /\ (Driver!TakeOutbound)
         \/ OnlyLegs /\ (Leg!Adopts)
         \/ OnlyEnd /\ (End!Tick))
    /\ SF_vars(
         \/ OnlyReliable /\ (Channel!Receive(1))
         \/ OnlySession /\ (Session!Enters("o2"))
         \/ OnlyDriver /\ (Driver!PumpTakes))
    /\ SF_vars(
         \/ OnlyReliable /\ (\E ids \in SUBSET Channel!Id : 1 \in ids /\ Channel!AcksArrive(ids))
         \/ OnlySession /\ (Session!Rebuilt("o2")))

Spec == Init /\ [][Next]_vars /\ Fairness

-----------------------------------------------------------------------------
(* Progress: whoever waits is answered, and since every part's work is bounded the
   part comes to rest.  A behaviour has one part, so what different parts owe shares
   a leads-to. *)

\* CircuitBreaker!OpenIsRetried, HttpUpload!UploadEnds, Legs!Improves,
\* MountEnds!TeardownEnds and Throttle!CallEnds: a breaker that opened is tried
\* again, an upload ends, a mount that can have the direct leg comes to have it, a
\* teardown that began ends, and throttled downloads are answered.
MountOwes ==
    \/ part = "breaker" /\ state = "open"
    \/ part = "upload" /\ pc # "done"
    \/ part = "legs" /\ directUp /\ ~(leg = "direct" \/ shut \/ overtaken)
    \/ part = "end" /\ recorded /\ tear = "first"
    \/ part = "throttle" /\ \E c \in Callers : step[c] = "belt"
MountRests ==
    \/ part = "breaker" /\ state # "open"
    \/ part = "upload" /\ pc = "done"
    \/ part = "legs" /\ (leg = "direct" \/ shut \/ overtaken \/ ~directUp)
    \/ part = "end" /\ tear = "done"
    \/ part = "throttle" /\ \A c \in Callers : step[c] \in {"idle", "ok", "failed", "dropped"}

\* AuthGate!DialAnswered, SmbSession!ComesBack, ReadLanes!LanesSettle and
\* PieceAnswered: logins that wait are answered, a session that was lost comes back,
\* retired lanes drain, an opening is given back, and reads are answered.
SmbOwes ==
    \/ part = "gate" /\ \E c \in Callers : Gate!Busy(c)
    \/ part = "session" /\ Session!Owed
    \/ part = "lanes" /\ (Lane!Claimed \/ leaving \cup draining # {} \/ \E p \in Pieces : Lane!Reading(p))
SmbRests == part \in {"gate", "session", "lanes"} /\ ~SmbOwes

\* Reliable!WindowMovesOn, VpnKeys!Renegotiated, VpnDriver!NoOrphan and
\* TunnelStream!ReaderTold: every message is acknowledged, a renegotiation whose messages arrive completes, a connect is answered and no task
\* outlives its users, and a reader is told of the end.
TunnelOwes ==
    \/ part = "reliable" /\ inFlight # {}
    \/ /\ part = "keys" /\ (peerGen > 0 => asked[0] = 3) /\ client.end = "no"
       /\ ~(client.primary.gen = MaxGen /\ client.data # Keys!None)
    \/ part = "driver" /\ caller = "connecting"
    \/ part = "driver" /\ (caller \in {"failed", "dropped"} \/ ~stacks) /\ task.at # "gone"
    \/ part = "stream" /\ Stream!Calls /\ (peer.fin \/ loop.linkGone) /\ caller.eof = "no"
TunnelRests == part \in {"reliable", "keys", "driver", "stream"} /\ ~TunnelOwes

\* Whoever waits on the mount's own machinery, on SMB or on the tunnel is answered.
WaitsEnd ==
    (MountOwes \/ SmbOwes \/ TunnelOwes) ~> (MountRests \/ SmbRests \/ TunnelRests)
=============================================================================
