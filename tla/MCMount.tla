------------------------------ MODULE MCMount -------------------------------
(***************************************************************************)
(* The mount and the client around the file handles, in one run: the       *)
(* circuit breaker, the legs of the connection, the mount's end, the log,  *)
(* moves, logins, the throttle, listings, walks, the buffer writes spill   *)
(* from, the names, listings by pages, and resizing. Each is modelled      *)
(* against what its neighbours may do, so a behaviour is one of one of     *)
(* them: `part` is fixed at the start, and the variables the other modules *)
(* have and this one has not stay as they are.                             *)
(***************************************************************************)
EXTENDS CircuitBreaker, MountParts, MountAside

CONSTANTS HasSmb, Vpn, Https, Recheck, TunnelRecheck, MaxFlips, MaxLogins,  \* Legs
          Paths, Longer, NasThings, NameThreads, MaxJobs         \* Names

\* The values of Mount.cfg that a configuration cannot write: two directories of which
\* one's name begins the other's, and a file in the shorter.
TwoDirectories == {<<"a">>, <<"ab">>, <<"a", "a">>, <<"ab", "a">>}
OneBeginsAnother == {<<"a", "ab">>}
FileInTheShorter ==
    {[p \in Paths |-> IF Len(p) = 1 THEN "dir" ELSE IF p[1] = "a" THEN "file" ELSE "none"]}

VARIABLES part, decided, stands, denied, legsQuiet, leg, had, shut, tunnelUp,
          raising, doing, aim, before, directUp, password, flips, logins,
          overtaken, nas, unsent, nextIno, byIno, inoOf, pathOf, held, todo,
          ino, given, took, excused, jobs

suiteVars == <<part, vars,
          decided, stands, denied, legsQuiet, leg, had, shut, tunnelUp,
          raising, doing, aim, before, directUp, password, flips, logins,
          overtaken, since, front, attached, alive, users, busy, loop,
          recorded, remounted, aborted, join, tear, gui, waited, watched,
          watching, looking, owners, dir, content, synced, handle, written,
          rotateAt, sink, calling, made, faults, starts, kept, adrift, smb,
          renames, at, isDir, inside, pc, tries, look, renamed, res, task,
          over, taken, tasks, destroyed, late, backUnder, movesLost,
          intrusions, cookies, live, sid, mode, call, sent, ran, result, out,
          issued, expired, step, left, attempt, queue, free, next, close,
          world, cached, flight, cell, open, snap, req, rewinds, hold, got,
          served, change, acked, straddled, pass, fetches, clock, gen, spare,
          holder, fhs, threads, handles, tracks, pruned, event, ended, begun,
          stopping, goodbye, said, signalled, walked, store, memory, temp,
          disk, planted, len, gone, usable, told, torn, nas, unsent, nextIno,
          byIno, inoOf, pathOf, held, todo, ino, given, took, excused, jobs,
          there, totals, collected, page, answer, steady, removed, changes,
          now, size, want, data, found, walkLive, walkQueue>>

Leg == INSTANCE Legs
    WITH Smb <- HasSmb, quiet <- legsQuiet
Inodes == INSTANCE Names
    WITH Things <- NasThings, Threads <- NameThreads

ASSUME LegOk == Leg!LegsAssumption
ASSUME InodeOk == Inodes!NamesAssumption

\* The variables a part does not have.
Off == "-"

\* CircuitBreaker where it is not the part.
IdleCircuitBreaker == Init

SuiteInit ==
    \/ /\ part = "breaker" /\ Init
       /\ decided = Off /\ stands = Off /\ denied = Off /\ legsQuiet = Off
       /\ leg = Off /\ had = Off /\ shut = Off /\ tunnelUp = Off
       /\ raising = Off /\ doing = Off /\ aim = Off /\ before = Off
       /\ directUp = Off /\ password = Off /\ flips = Off /\ logins = Off
       /\ overtaken = Off /\ since = Off /\ front = Off /\ attached = Off
       /\ alive = Off /\ users = Off /\ busy = Off /\ loop = Off
       /\ recorded = Off /\ remounted = Off /\ aborted = Off /\ join = Off
       /\ tear = Off /\ gui = Off /\ waited = Off /\ watched = Off
       /\ watching = Off /\ looking = Off /\ owners = Off /\ dir = Off
       /\ content = Off /\ synced = Off /\ handle = Off /\ written = Off
       /\ rotateAt = Off /\ sink = Off /\ calling = Off /\ made = Off
       /\ faults = Off /\ starts = Off /\ kept = Off /\ adrift = Off
       /\ smb = Off /\ renames = Off /\ at = Off /\ isDir = Off
       /\ inside = Off /\ pc = Off /\ tries = Off /\ look = Off
       /\ renamed = Off /\ res = Off /\ task = Off /\ over = Off
       /\ taken = Off /\ tasks = Off /\ destroyed = Off /\ late = Off
       /\ backUnder = Off /\ movesLost = Off /\ intrusions = Off
       /\ cookies = Off /\ live = Off /\ sid = Off /\ mode = Off /\ call = Off
       /\ sent = Off /\ ran = Off /\ result = Off /\ out = Off /\ issued = Off
       /\ expired = Off /\ step = Off /\ left = Off /\ attempt = Off
       /\ queue = Off /\ free = Off /\ next = Off /\ close = Off
       /\ world = Off /\ cached = Off /\ flight = Off /\ cell = Off
       /\ open = Off /\ snap = Off /\ req = Off /\ rewinds = Off /\ hold = Off
       /\ got = Off /\ served = Off /\ change = Off /\ acked = Off
       /\ straddled = Off /\ pass = Off /\ fetches = Off /\ clock = Off
       /\ gen = Off /\ spare = Off /\ holder = Off /\ fhs = Off
       /\ threads = Off /\ handles = Off /\ tracks = Off /\ pruned = Off
       /\ event = Off /\ ended = Off /\ begun = Off /\ stopping = Off
       /\ goodbye = Off /\ said = Off /\ signalled = Off /\ walked = Off
       /\ store = Off /\ memory = Off /\ temp = Off /\ disk = Off
       /\ planted = Off /\ len = Off /\ gone = Off /\ usable = Off
       /\ told = Off /\ torn = Off /\ nas = Off /\ unsent = Off
       /\ nextIno = Off /\ byIno = Off /\ inoOf = Off /\ pathOf = Off
       /\ held = Off /\ todo = Off /\ ino = Off /\ given = Off /\ took = Off
       /\ excused = Off /\ jobs = Off /\ there = Off /\ totals = Off
       /\ collected = Off /\ page = Off /\ answer = Off /\ steady = Off
       /\ removed = Off /\ changes = Off /\ now = Off /\ size = Off
       /\ want = Off /\ data = Off /\ found = Off
       /\ walkLive = Off /\ walkQueue = Off
    \/ /\ part = "legs" /\ Leg!Init /\ IdleCircuitBreaker
       /\ front = Off /\ attached = Off /\ alive = Off /\ users = Off
       /\ busy = Off /\ loop = Off /\ recorded = Off /\ remounted = Off
       /\ aborted = Off /\ join = Off /\ tear = Off /\ gui = Off
       /\ waited = Off /\ watched = Off /\ watching = Off /\ looking = Off
       /\ owners = Off /\ dir = Off /\ content = Off /\ synced = Off
       /\ handle = Off /\ written = Off /\ rotateAt = Off /\ sink = Off
       /\ calling = Off /\ made = Off /\ faults = Off /\ starts = Off
       /\ kept = Off /\ adrift = Off /\ smb = Off /\ renames = Off /\ at = Off
       /\ isDir = Off /\ inside = Off /\ pc = Off /\ tries = Off /\ look = Off
       /\ renamed = Off /\ res = Off /\ task = Off /\ over = Off
       /\ taken = Off /\ tasks = Off /\ destroyed = Off /\ late = Off
       /\ backUnder = Off /\ movesLost = Off /\ intrusions = Off
       /\ cookies = Off /\ live = Off /\ sid = Off /\ mode = Off /\ call = Off
       /\ sent = Off /\ ran = Off /\ result = Off /\ out = Off /\ issued = Off
       /\ expired = Off /\ step = Off /\ left = Off /\ attempt = Off
       /\ queue = Off /\ free = Off /\ next = Off /\ close = Off
       /\ world = Off /\ cached = Off /\ flight = Off /\ cell = Off
       /\ open = Off /\ snap = Off /\ req = Off /\ rewinds = Off /\ hold = Off
       /\ got = Off /\ served = Off /\ change = Off /\ acked = Off
       /\ straddled = Off /\ pass = Off /\ fetches = Off /\ clock = Off
       /\ gen = Off /\ spare = Off /\ holder = Off /\ fhs = Off
       /\ threads = Off /\ handles = Off /\ tracks = Off /\ pruned = Off
       /\ event = Off /\ ended = Off /\ begun = Off /\ stopping = Off
       /\ goodbye = Off /\ said = Off /\ signalled = Off /\ walked = Off
       /\ store = Off /\ memory = Off /\ temp = Off /\ disk = Off
       /\ planted = Off /\ len = Off /\ gone = Off /\ usable = Off
       /\ told = Off /\ torn = Off /\ nas = Off /\ unsent = Off
       /\ nextIno = Off /\ byIno = Off /\ inoOf = Off /\ pathOf = Off
       /\ held = Off /\ todo = Off /\ ino = Off /\ given = Off /\ took = Off
       /\ excused = Off /\ jobs = Off /\ there = Off /\ totals = Off
       /\ collected = Off /\ page = Off /\ answer = Off /\ steady = Off
       /\ removed = Off /\ changes = Off /\ now = Off /\ size = Off
       /\ want = Off /\ data = Off /\ found = Off
       /\ walkLive = Off /\ walkQueue = Off
    \/ /\ part = "end" /\ End!Init /\ IdleCircuitBreaker
       /\ decided = Off /\ stands = Off /\ denied = Off /\ legsQuiet = Off
       /\ leg = Off /\ had = Off /\ shut = Off /\ tunnelUp = Off
       /\ raising = Off /\ doing = Off /\ aim = Off /\ before = Off
       /\ directUp = Off /\ password = Off /\ flips = Off /\ logins = Off
       /\ overtaken = Off /\ since = Off /\ dir = Off /\ content = Off
       /\ synced = Off /\ handle = Off /\ written = Off /\ rotateAt = Off
       /\ sink = Off /\ calling = Off /\ made = Off /\ faults = Off
       /\ starts = Off /\ kept = Off /\ adrift = Off /\ smb = Off
       /\ renames = Off /\ at = Off /\ isDir = Off /\ inside = Off /\ pc = Off
       /\ tries = Off /\ look = Off /\ renamed = Off /\ res = Off
       /\ task = Off /\ over = Off /\ taken = Off /\ tasks = Off
       /\ destroyed = Off /\ late = Off /\ backUnder = Off /\ movesLost = Off
       /\ intrusions = Off /\ cookies = Off /\ live = Off /\ sid = Off
       /\ mode = Off /\ call = Off /\ sent = Off /\ ran = Off /\ result = Off
       /\ out = Off /\ issued = Off /\ expired = Off /\ step = Off
       /\ left = Off /\ attempt = Off /\ queue = Off /\ free = Off
       /\ next = Off /\ close = Off /\ world = Off /\ cached = Off
       /\ flight = Off /\ cell = Off /\ open = Off /\ snap = Off /\ req = Off
       /\ rewinds = Off /\ hold = Off /\ got = Off /\ served = Off
       /\ change = Off /\ acked = Off /\ straddled = Off /\ pass = Off
       /\ fetches = Off /\ clock = Off /\ gen = Off /\ spare = Off
       /\ holder = Off /\ fhs = Off /\ threads = Off /\ handles = Off
       /\ tracks = Off /\ pruned = Off /\ event = Off /\ ended = Off
       /\ begun = Off /\ stopping = Off /\ goodbye = Off /\ said = Off
       /\ signalled = Off /\ walked = Off /\ store = Off /\ memory = Off
       /\ temp = Off /\ disk = Off /\ planted = Off /\ len = Off /\ gone = Off
       /\ usable = Off /\ told = Off /\ torn = Off /\ nas = Off
       /\ unsent = Off /\ nextIno = Off /\ byIno = Off /\ inoOf = Off
       /\ pathOf = Off /\ held = Off /\ todo = Off /\ ino = Off /\ given = Off
       /\ took = Off /\ excused = Off /\ jobs = Off /\ there = Off
       /\ totals = Off /\ collected = Off /\ page = Off /\ answer = Off
       /\ steady = Off /\ removed = Off /\ changes = Off /\ now = Off
       /\ size = Off /\ want = Off /\ data = Off /\ found = Off
       /\ walkLive = Off /\ walkQueue = Off
    \/ /\ part = "log" /\ Log!Init /\ IdleCircuitBreaker
       /\ decided = Off /\ stands = Off /\ denied = Off /\ legsQuiet = Off
       /\ leg = Off /\ had = Off /\ shut = Off /\ tunnelUp = Off
       /\ raising = Off /\ doing = Off /\ aim = Off /\ before = Off
       /\ directUp = Off /\ password = Off /\ flips = Off /\ logins = Off
       /\ overtaken = Off /\ since = Off /\ front = Off /\ attached = Off
       /\ alive = Off /\ users = Off /\ busy = Off /\ loop = Off
       /\ recorded = Off /\ remounted = Off /\ aborted = Off /\ join = Off
       /\ tear = Off /\ gui = Off /\ waited = Off /\ watched = Off
       /\ watching = Off /\ looking = Off /\ owners = Off /\ smb = Off
       /\ renames = Off /\ at = Off /\ isDir = Off /\ inside = Off /\ pc = Off
       /\ tries = Off /\ look = Off /\ renamed = Off /\ res = Off
       /\ task = Off /\ over = Off /\ taken = Off /\ tasks = Off
       /\ destroyed = Off /\ late = Off /\ backUnder = Off /\ movesLost = Off
       /\ intrusions = Off /\ cookies = Off /\ live = Off /\ sid = Off
       /\ mode = Off /\ call = Off /\ sent = Off /\ ran = Off /\ result = Off
       /\ out = Off /\ issued = Off /\ expired = Off /\ step = Off
       /\ left = Off /\ attempt = Off /\ queue = Off /\ free = Off
       /\ next = Off /\ close = Off /\ world = Off /\ cached = Off
       /\ flight = Off /\ cell = Off /\ open = Off /\ snap = Off /\ req = Off
       /\ rewinds = Off /\ hold = Off /\ got = Off /\ served = Off
       /\ change = Off /\ acked = Off /\ straddled = Off /\ pass = Off
       /\ fetches = Off /\ clock = Off /\ gen = Off /\ spare = Off
       /\ holder = Off /\ fhs = Off /\ threads = Off /\ handles = Off
       /\ tracks = Off /\ pruned = Off /\ event = Off /\ ended = Off
       /\ begun = Off /\ stopping = Off /\ goodbye = Off /\ said = Off
       /\ signalled = Off /\ walked = Off /\ store = Off /\ memory = Off
       /\ temp = Off /\ disk = Off /\ planted = Off /\ len = Off /\ gone = Off
       /\ usable = Off /\ told = Off /\ torn = Off /\ nas = Off
       /\ unsent = Off /\ nextIno = Off /\ byIno = Off /\ inoOf = Off
       /\ pathOf = Off /\ held = Off /\ todo = Off /\ ino = Off /\ given = Off
       /\ took = Off /\ excused = Off /\ jobs = Off /\ there = Off
       /\ totals = Off /\ collected = Off /\ page = Off /\ answer = Off
       /\ steady = Off /\ removed = Off /\ changes = Off /\ now = Off
       /\ size = Off /\ want = Off /\ data = Off /\ found = Off
       /\ walkLive = Off /\ walkQueue = Off
    \/ /\ part = "moves" /\ Move!Init /\ IdleCircuitBreaker
       /\ decided = Off /\ stands = Off /\ denied = Off /\ legsQuiet = Off
       /\ leg = Off /\ had = Off /\ shut = Off /\ tunnelUp = Off
       /\ raising = Off /\ doing = Off /\ aim = Off /\ before = Off
       /\ directUp = Off /\ password = Off /\ flips = Off /\ logins = Off
       /\ overtaken = Off /\ since = Off /\ front = Off /\ attached = Off
       /\ alive = Off /\ users = Off /\ busy = Off /\ loop = Off
       /\ recorded = Off /\ remounted = Off /\ aborted = Off /\ join = Off
       /\ tear = Off /\ gui = Off /\ waited = Off /\ watched = Off
       /\ watching = Off /\ looking = Off /\ owners = Off /\ dir = Off
       /\ content = Off /\ synced = Off /\ handle = Off /\ written = Off
       /\ rotateAt = Off /\ sink = Off /\ calling = Off /\ made = Off
       /\ faults = Off /\ starts = Off /\ kept = Off /\ adrift = Off
       /\ cookies = Off /\ live = Off /\ sid = Off /\ mode = Off /\ call = Off
       /\ sent = Off /\ ran = Off /\ result = Off /\ out = Off /\ issued = Off
       /\ expired = Off /\ step = Off /\ left = Off /\ attempt = Off
       /\ queue = Off /\ free = Off /\ next = Off /\ close = Off
       /\ world = Off /\ cached = Off /\ flight = Off /\ cell = Off
       /\ open = Off /\ snap = Off /\ req = Off /\ rewinds = Off /\ hold = Off
       /\ got = Off /\ served = Off /\ change = Off /\ acked = Off
       /\ straddled = Off /\ pass = Off /\ fetches = Off /\ clock = Off
       /\ gen = Off /\ spare = Off /\ holder = Off /\ fhs = Off
       /\ threads = Off /\ handles = Off /\ tracks = Off /\ pruned = Off
       /\ event = Off /\ ended = Off /\ begun = Off /\ stopping = Off
       /\ goodbye = Off /\ said = Off /\ signalled = Off /\ walked = Off
       /\ store = Off /\ memory = Off /\ temp = Off /\ disk = Off
       /\ planted = Off /\ len = Off /\ gone = Off /\ usable = Off
       /\ told = Off /\ torn = Off /\ nas = Off /\ unsent = Off
       /\ nextIno = Off /\ byIno = Off /\ inoOf = Off /\ pathOf = Off
       /\ held = Off /\ todo = Off /\ ino = Off /\ given = Off /\ took = Off
       /\ excused = Off /\ jobs = Off /\ there = Off /\ totals = Off
       /\ collected = Off /\ page = Off /\ answer = Off /\ steady = Off
       /\ removed = Off /\ changes = Off /\ now = Off /\ size = Off
       /\ want = Off /\ data = Off /\ found = Off
       /\ walkLive = Off /\ walkQueue = Off
    \/ /\ part = "login" /\ Logins!Init /\ IdleCircuitBreaker
       /\ decided = Off /\ stands = Off /\ denied = Off /\ legsQuiet = Off
       /\ leg = Off /\ had = Off /\ shut = Off /\ tunnelUp = Off
       /\ raising = Off /\ doing = Off /\ aim = Off /\ before = Off
       /\ directUp = Off /\ password = Off /\ flips = Off /\ logins = Off
       /\ overtaken = Off /\ since = Off /\ front = Off /\ attached = Off
       /\ alive = Off /\ users = Off /\ busy = Off /\ loop = Off
       /\ recorded = Off /\ remounted = Off /\ aborted = Off /\ join = Off
       /\ tear = Off /\ gui = Off /\ waited = Off /\ watched = Off
       /\ watching = Off /\ looking = Off /\ owners = Off /\ dir = Off
       /\ content = Off /\ synced = Off /\ handle = Off /\ written = Off
       /\ rotateAt = Off /\ sink = Off /\ calling = Off /\ made = Off
       /\ faults = Off /\ starts = Off /\ kept = Off /\ adrift = Off
       /\ smb = Off /\ renames = Off /\ at = Off /\ isDir = Off
       /\ inside = Off /\ pc = Off /\ tries = Off /\ look = Off
       /\ renamed = Off /\ res = Off /\ task = Off /\ over = Off
       /\ taken = Off /\ tasks = Off /\ destroyed = Off /\ late = Off
       /\ backUnder = Off /\ movesLost = Off /\ intrusions = Off /\ step = Off
       /\ left = Off /\ attempt = Off /\ queue = Off /\ free = Off
       /\ next = Off /\ close = Off /\ world = Off /\ cached = Off
       /\ flight = Off /\ cell = Off /\ open = Off /\ snap = Off /\ req = Off
       /\ rewinds = Off /\ hold = Off /\ got = Off /\ served = Off
       /\ change = Off /\ acked = Off /\ straddled = Off /\ pass = Off
       /\ fetches = Off /\ clock = Off /\ gen = Off /\ spare = Off
       /\ holder = Off /\ fhs = Off /\ threads = Off /\ handles = Off
       /\ tracks = Off /\ pruned = Off /\ event = Off /\ ended = Off
       /\ begun = Off /\ stopping = Off /\ goodbye = Off /\ said = Off
       /\ signalled = Off /\ walked = Off /\ store = Off /\ memory = Off
       /\ temp = Off /\ disk = Off /\ planted = Off /\ len = Off /\ gone = Off
       /\ usable = Off /\ told = Off /\ torn = Off /\ nas = Off
       /\ unsent = Off /\ nextIno = Off /\ byIno = Off /\ inoOf = Off
       /\ pathOf = Off /\ held = Off /\ todo = Off /\ ino = Off /\ given = Off
       /\ took = Off /\ excused = Off /\ jobs = Off /\ there = Off
       /\ totals = Off /\ collected = Off /\ page = Off /\ answer = Off
       /\ steady = Off /\ removed = Off /\ changes = Off /\ now = Off
       /\ size = Off /\ want = Off /\ data = Off /\ found = Off
       /\ walkLive = Off /\ walkQueue = Off
    \/ /\ part = "throttle" /\ Slots!Init /\ IdleCircuitBreaker
       /\ decided = Off /\ stands = Off /\ denied = Off /\ legsQuiet = Off
       /\ leg = Off /\ had = Off /\ shut = Off /\ tunnelUp = Off
       /\ raising = Off /\ doing = Off /\ aim = Off /\ before = Off
       /\ directUp = Off /\ password = Off /\ flips = Off /\ logins = Off
       /\ overtaken = Off /\ front = Off /\ attached = Off /\ alive = Off
       /\ users = Off /\ busy = Off /\ loop = Off /\ recorded = Off
       /\ remounted = Off /\ aborted = Off /\ join = Off /\ tear = Off
       /\ gui = Off /\ waited = Off /\ watched = Off /\ watching = Off
       /\ looking = Off /\ owners = Off /\ dir = Off /\ content = Off
       /\ synced = Off /\ handle = Off /\ written = Off /\ rotateAt = Off
       /\ sink = Off /\ calling = Off /\ made = Off /\ faults = Off
       /\ starts = Off /\ kept = Off /\ adrift = Off /\ smb = Off
       /\ renames = Off /\ at = Off /\ isDir = Off /\ inside = Off /\ pc = Off
       /\ tries = Off /\ look = Off /\ renamed = Off /\ res = Off
       /\ task = Off /\ over = Off /\ taken = Off /\ tasks = Off
       /\ destroyed = Off /\ late = Off /\ backUnder = Off /\ movesLost = Off
       /\ intrusions = Off /\ cookies = Off /\ live = Off /\ sid = Off
       /\ mode = Off /\ call = Off /\ sent = Off /\ ran = Off /\ result = Off
       /\ out = Off /\ issued = Off /\ expired = Off /\ world = Off
       /\ cached = Off /\ flight = Off /\ cell = Off /\ open = Off
       /\ snap = Off /\ req = Off /\ rewinds = Off /\ hold = Off /\ got = Off
       /\ served = Off /\ change = Off /\ acked = Off /\ straddled = Off
       /\ pass = Off /\ fetches = Off /\ clock = Off /\ gen = Off
       /\ spare = Off /\ holder = Off /\ fhs = Off /\ threads = Off
       /\ handles = Off /\ tracks = Off /\ pruned = Off /\ event = Off
       /\ ended = Off /\ begun = Off /\ stopping = Off /\ goodbye = Off
       /\ said = Off /\ signalled = Off /\ walked = Off /\ store = Off
       /\ memory = Off /\ temp = Off /\ disk = Off /\ planted = Off
       /\ len = Off /\ gone = Off /\ usable = Off /\ told = Off /\ torn = Off
       /\ nas = Off /\ unsent = Off /\ nextIno = Off /\ byIno = Off
       /\ inoOf = Off /\ pathOf = Off /\ held = Off /\ todo = Off /\ ino = Off
       /\ given = Off /\ took = Off /\ excused = Off /\ jobs = Off
       /\ there = Off /\ totals = Off /\ collected = Off /\ page = Off
       /\ answer = Off /\ steady = Off /\ removed = Off /\ changes = Off
       /\ now = Off /\ size = Off /\ want = Off /\ data = Off /\ found = Off
       /\ walkLive = Off /\ walkQueue = Off
    \/ /\ part = "listings" /\ Listed!Init /\ IdleCircuitBreaker
       /\ decided = Off /\ stands = Off /\ denied = Off /\ legsQuiet = Off
       /\ leg = Off /\ had = Off /\ shut = Off /\ tunnelUp = Off
       /\ raising = Off /\ doing = Off /\ aim = Off /\ before = Off
       /\ directUp = Off /\ password = Off /\ flips = Off /\ logins = Off
       /\ overtaken = Off /\ front = Off /\ attached = Off /\ alive = Off
       /\ users = Off /\ busy = Off /\ loop = Off /\ recorded = Off
       /\ remounted = Off /\ aborted = Off /\ join = Off /\ tear = Off
       /\ gui = Off /\ waited = Off /\ watched = Off /\ watching = Off
       /\ looking = Off /\ owners = Off /\ dir = Off /\ content = Off
       /\ synced = Off /\ handle = Off /\ written = Off /\ rotateAt = Off
       /\ sink = Off /\ calling = Off /\ made = Off /\ faults = Off
       /\ starts = Off /\ kept = Off /\ adrift = Off /\ smb = Off
       /\ renames = Off /\ at = Off /\ isDir = Off /\ inside = Off /\ pc = Off
       /\ tries = Off /\ look = Off /\ renamed = Off /\ res = Off
       /\ task = Off /\ over = Off /\ taken = Off /\ tasks = Off
       /\ destroyed = Off /\ late = Off /\ backUnder = Off /\ movesLost = Off
       /\ intrusions = Off /\ cookies = Off /\ live = Off /\ sid = Off
       /\ mode = Off /\ call = Off /\ sent = Off /\ ran = Off /\ result = Off
       /\ out = Off /\ issued = Off /\ expired = Off /\ step = Off
       /\ left = Off /\ attempt = Off /\ queue = Off /\ free = Off
       /\ next = Off /\ close = Off /\ clock = Off /\ gen = Off /\ spare = Off
       /\ holder = Off /\ fhs = Off /\ threads = Off /\ handles = Off
       /\ tracks = Off /\ pruned = Off /\ event = Off /\ ended = Off
       /\ begun = Off /\ stopping = Off /\ goodbye = Off /\ said = Off
       /\ signalled = Off /\ walked = Off /\ store = Off /\ memory = Off
       /\ temp = Off /\ disk = Off /\ planted = Off /\ len = Off /\ gone = Off
       /\ usable = Off /\ told = Off /\ torn = Off /\ nas = Off
       /\ unsent = Off /\ nextIno = Off /\ byIno = Off /\ inoOf = Off
       /\ pathOf = Off /\ held = Off /\ todo = Off /\ ino = Off /\ given = Off
       /\ took = Off /\ excused = Off /\ jobs = Off /\ there = Off
       /\ totals = Off /\ collected = Off /\ page = Off /\ answer = Off
       /\ steady = Off /\ removed = Off /\ changes = Off /\ now = Off
       /\ size = Off /\ want = Off /\ data = Off /\ found = Off
       /\ walkLive = Off /\ walkQueue = Off
    \/ /\ part = "walks" /\ Walk!Init /\ IdleCircuitBreaker
       /\ decided = Off /\ stands = Off /\ denied = Off /\ legsQuiet = Off
       /\ leg = Off /\ had = Off /\ shut = Off /\ tunnelUp = Off
       /\ raising = Off /\ doing = Off /\ aim = Off /\ before = Off
       /\ directUp = Off /\ password = Off /\ flips = Off /\ logins = Off
       /\ overtaken = Off /\ since = Off /\ front = Off /\ attached = Off
       /\ alive = Off /\ users = Off /\ busy = Off /\ loop = Off
       /\ recorded = Off /\ remounted = Off /\ aborted = Off /\ join = Off
       /\ tear = Off /\ gui = Off /\ waited = Off /\ watched = Off
       /\ watching = Off /\ looking = Off /\ owners = Off /\ dir = Off
       /\ content = Off /\ synced = Off /\ handle = Off /\ written = Off
       /\ rotateAt = Off /\ sink = Off /\ calling = Off /\ made = Off
       /\ faults = Off /\ starts = Off /\ kept = Off /\ adrift = Off
       /\ smb = Off /\ renames = Off /\ at = Off /\ isDir = Off
       /\ inside = Off /\ pc = Off /\ tries = Off /\ look = Off
       /\ renamed = Off /\ res = Off /\ task = Off /\ over = Off
       /\ taken = Off /\ tasks = Off /\ destroyed = Off /\ late = Off
       /\ backUnder = Off /\ movesLost = Off /\ intrusions = Off
       /\ cookies = Off /\ sid = Off /\ mode = Off /\ call = Off /\ sent = Off
       /\ ran = Off /\ result = Off /\ out = Off /\ issued = Off
       /\ expired = Off /\ step = Off /\ left = Off /\ attempt = Off
       /\ free = Off /\ next = Off /\ close = Off /\ world = Off
       /\ cached = Off /\ flight = Off /\ cell = Off /\ open = Off
       /\ snap = Off /\ req = Off /\ rewinds = Off /\ hold = Off /\ got = Off
       /\ served = Off /\ change = Off /\ acked = Off /\ straddled = Off
       /\ pass = Off /\ fetches = Off /\ store = Off /\ memory = Off
       /\ temp = Off /\ disk = Off /\ planted = Off /\ len = Off /\ gone = Off
       /\ usable = Off /\ told = Off /\ torn = Off /\ nas = Off
       /\ unsent = Off /\ nextIno = Off /\ byIno = Off /\ inoOf = Off
       /\ pathOf = Off /\ held = Off /\ todo = Off /\ ino = Off /\ given = Off
       /\ took = Off /\ excused = Off /\ jobs = Off /\ there = Off
       /\ totals = Off /\ collected = Off /\ page = Off /\ answer = Off
       /\ steady = Off /\ removed = Off /\ changes = Off /\ now = Off
       /\ size = Off /\ want = Off /\ data = Off /\ found = Off
       /\ live = Off /\ queue = Off
    \/ /\ part = "spill" /\ Buffer!Init /\ IdleCircuitBreaker
       /\ decided = Off /\ stands = Off /\ denied = Off /\ legsQuiet = Off
       /\ leg = Off /\ had = Off /\ shut = Off /\ tunnelUp = Off
       /\ raising = Off /\ doing = Off /\ aim = Off /\ before = Off
       /\ directUp = Off /\ password = Off /\ flips = Off /\ logins = Off
       /\ overtaken = Off /\ since = Off /\ front = Off /\ attached = Off
       /\ alive = Off /\ users = Off /\ busy = Off /\ loop = Off
       /\ recorded = Off /\ remounted = Off /\ aborted = Off /\ join = Off
       /\ tear = Off /\ gui = Off /\ waited = Off /\ watched = Off
       /\ watching = Off /\ looking = Off /\ owners = Off /\ dir = Off
       /\ content = Off /\ synced = Off /\ handle = Off /\ written = Off
       /\ rotateAt = Off /\ sink = Off /\ calling = Off /\ made = Off
       /\ faults = Off /\ starts = Off /\ kept = Off /\ adrift = Off
       /\ smb = Off /\ renames = Off /\ at = Off /\ isDir = Off
       /\ inside = Off /\ pc = Off /\ tries = Off /\ look = Off
       /\ renamed = Off /\ res = Off /\ task = Off /\ over = Off
       /\ taken = Off /\ tasks = Off /\ destroyed = Off /\ late = Off
       /\ backUnder = Off /\ movesLost = Off /\ intrusions = Off
       /\ cookies = Off /\ live = Off /\ sid = Off /\ mode = Off /\ call = Off
       /\ sent = Off /\ ran = Off /\ result = Off /\ out = Off /\ issued = Off
       /\ expired = Off /\ step = Off /\ left = Off /\ attempt = Off
       /\ queue = Off /\ free = Off /\ next = Off /\ close = Off
       /\ world = Off /\ cached = Off /\ flight = Off /\ cell = Off
       /\ open = Off /\ snap = Off /\ req = Off /\ rewinds = Off /\ hold = Off
       /\ got = Off /\ served = Off /\ change = Off /\ acked = Off
       /\ straddled = Off /\ pass = Off /\ fetches = Off /\ clock = Off
       /\ gen = Off /\ spare = Off /\ holder = Off /\ fhs = Off
       /\ threads = Off /\ handles = Off /\ tracks = Off /\ pruned = Off
       /\ event = Off /\ ended = Off /\ begun = Off /\ stopping = Off
       /\ goodbye = Off /\ said = Off /\ signalled = Off /\ walked = Off
       /\ nas = Off /\ unsent = Off /\ nextIno = Off /\ byIno = Off
       /\ inoOf = Off /\ pathOf = Off /\ held = Off /\ todo = Off /\ ino = Off
       /\ given = Off /\ took = Off /\ excused = Off /\ jobs = Off
       /\ there = Off /\ totals = Off /\ collected = Off /\ page = Off
       /\ answer = Off /\ steady = Off /\ removed = Off /\ changes = Off
       /\ now = Off /\ size = Off /\ want = Off /\ data = Off /\ found = Off
       /\ walkLive = Off /\ walkQueue = Off
    \/ /\ part = "names" /\ Inodes!Init /\ IdleCircuitBreaker
       /\ decided = Off /\ stands = Off /\ denied = Off /\ legsQuiet = Off
       /\ leg = Off /\ had = Off /\ shut = Off /\ tunnelUp = Off
       /\ raising = Off /\ doing = Off /\ aim = Off /\ before = Off
       /\ directUp = Off /\ password = Off /\ flips = Off /\ logins = Off
       /\ overtaken = Off /\ since = Off /\ front = Off /\ attached = Off
       /\ alive = Off /\ users = Off /\ busy = Off /\ loop = Off
       /\ recorded = Off /\ remounted = Off /\ aborted = Off /\ join = Off
       /\ tear = Off /\ gui = Off /\ waited = Off /\ watched = Off
       /\ watching = Off /\ looking = Off /\ owners = Off /\ dir = Off
       /\ content = Off /\ synced = Off /\ handle = Off /\ written = Off
       /\ rotateAt = Off /\ sink = Off /\ calling = Off /\ made = Off
       /\ faults = Off /\ starts = Off /\ kept = Off /\ adrift = Off
       /\ smb = Off /\ renames = Off /\ at = Off /\ isDir = Off
       /\ inside = Off /\ pc = Off /\ tries = Off /\ look = Off
       /\ renamed = Off /\ res = Off /\ task = Off /\ over = Off
       /\ taken = Off /\ tasks = Off /\ destroyed = Off /\ late = Off
       /\ backUnder = Off /\ movesLost = Off /\ intrusions = Off
       /\ cookies = Off /\ live = Off /\ sid = Off /\ mode = Off /\ call = Off
       /\ sent = Off /\ ran = Off /\ result = Off /\ out = Off /\ issued = Off
       /\ expired = Off /\ step = Off /\ left = Off /\ attempt = Off
       /\ queue = Off /\ free = Off /\ next = Off /\ close = Off
       /\ world = Off /\ cached = Off /\ flight = Off /\ cell = Off
       /\ open = Off /\ snap = Off /\ req = Off /\ rewinds = Off /\ hold = Off
       /\ got = Off /\ served = Off /\ change = Off /\ acked = Off
       /\ straddled = Off /\ pass = Off /\ fetches = Off /\ clock = Off
       /\ gen = Off /\ spare = Off /\ holder = Off /\ fhs = Off
       /\ threads = Off /\ handles = Off /\ tracks = Off /\ pruned = Off
       /\ event = Off /\ ended = Off /\ begun = Off /\ stopping = Off
       /\ goodbye = Off /\ said = Off /\ signalled = Off /\ walked = Off
       /\ store = Off /\ memory = Off /\ temp = Off /\ disk = Off
       /\ planted = Off /\ len = Off /\ gone = Off /\ usable = Off
       /\ told = Off /\ torn = Off /\ there = Off /\ totals = Off
       /\ collected = Off /\ page = Off /\ answer = Off /\ steady = Off
       /\ removed = Off /\ changes = Off /\ now = Off /\ size = Off
       /\ want = Off /\ data = Off /\ found = Off
       /\ walkLive = Off /\ walkQueue = Off
    \/ /\ part = "pages" /\ Page!Init /\ IdleCircuitBreaker
       /\ decided = Off /\ stands = Off /\ denied = Off /\ legsQuiet = Off
       /\ leg = Off /\ had = Off /\ shut = Off /\ tunnelUp = Off
       /\ raising = Off /\ doing = Off /\ aim = Off /\ before = Off
       /\ directUp = Off /\ password = Off /\ flips = Off /\ logins = Off
       /\ overtaken = Off /\ since = Off /\ front = Off /\ attached = Off
       /\ alive = Off /\ users = Off /\ busy = Off /\ loop = Off
       /\ recorded = Off /\ remounted = Off /\ aborted = Off /\ join = Off
       /\ tear = Off /\ gui = Off /\ waited = Off /\ watched = Off
       /\ watching = Off /\ looking = Off /\ owners = Off /\ dir = Off
       /\ content = Off /\ synced = Off /\ handle = Off /\ written = Off
       /\ rotateAt = Off /\ sink = Off /\ calling = Off /\ made = Off
       /\ faults = Off /\ starts = Off /\ kept = Off /\ adrift = Off
       /\ smb = Off /\ renames = Off /\ at = Off /\ isDir = Off
       /\ inside = Off /\ pc = Off /\ tries = Off /\ look = Off
       /\ renamed = Off /\ res = Off /\ task = Off /\ over = Off
       /\ taken = Off /\ tasks = Off /\ destroyed = Off /\ late = Off
       /\ backUnder = Off /\ movesLost = Off /\ intrusions = Off
       /\ cookies = Off /\ live = Off /\ sid = Off /\ mode = Off /\ call = Off
       /\ sent = Off /\ ran = Off /\ result = Off /\ out = Off /\ issued = Off
       /\ expired = Off /\ step = Off /\ left = Off /\ attempt = Off
       /\ queue = Off /\ free = Off /\ next = Off /\ close = Off
       /\ world = Off /\ cached = Off /\ flight = Off /\ cell = Off
       /\ open = Off /\ snap = Off /\ req = Off /\ rewinds = Off /\ hold = Off
       /\ got = Off /\ served = Off /\ change = Off /\ acked = Off
       /\ straddled = Off /\ pass = Off /\ fetches = Off /\ clock = Off
       /\ gen = Off /\ spare = Off /\ holder = Off /\ fhs = Off
       /\ threads = Off /\ handles = Off /\ tracks = Off /\ pruned = Off
       /\ event = Off /\ ended = Off /\ begun = Off /\ stopping = Off
       /\ goodbye = Off /\ said = Off /\ signalled = Off /\ walked = Off
       /\ store = Off /\ memory = Off /\ temp = Off /\ disk = Off
       /\ planted = Off /\ len = Off /\ gone = Off /\ usable = Off
       /\ told = Off /\ torn = Off /\ nas = Off /\ unsent = Off
       /\ nextIno = Off /\ byIno = Off /\ inoOf = Off /\ pathOf = Off
       /\ held = Off /\ todo = Off /\ ino = Off /\ given = Off /\ took = Off
       /\ excused = Off /\ jobs = Off /\ now = Off /\ size = Off /\ want = Off
       /\ data = Off /\ found = Off
       /\ walkLive = Off /\ walkQueue = Off
    \/ /\ part = "resize" /\ Size!Init /\ IdleCircuitBreaker
       /\ decided = Off /\ stands = Off /\ denied = Off /\ legsQuiet = Off
       /\ leg = Off /\ had = Off /\ shut = Off /\ tunnelUp = Off
       /\ raising = Off /\ doing = Off /\ aim = Off /\ before = Off
       /\ directUp = Off /\ password = Off /\ flips = Off /\ logins = Off
       /\ overtaken = Off /\ since = Off /\ front = Off /\ attached = Off
       /\ alive = Off /\ users = Off /\ busy = Off /\ loop = Off
       /\ recorded = Off /\ remounted = Off /\ aborted = Off /\ join = Off
       /\ tear = Off /\ gui = Off /\ waited = Off /\ watched = Off
       /\ watching = Off /\ looking = Off /\ owners = Off /\ dir = Off
       /\ content = Off /\ synced = Off /\ handle = Off /\ written = Off
       /\ rotateAt = Off /\ sink = Off /\ calling = Off /\ made = Off
       /\ faults = Off /\ starts = Off /\ kept = Off /\ adrift = Off
       /\ smb = Off /\ renames = Off /\ at = Off /\ isDir = Off
       /\ inside = Off /\ pc = Off /\ tries = Off /\ look = Off
       /\ renamed = Off /\ res = Off /\ task = Off /\ over = Off
       /\ taken = Off /\ tasks = Off /\ destroyed = Off /\ late = Off
       /\ backUnder = Off /\ movesLost = Off /\ intrusions = Off
       /\ cookies = Off /\ live = Off /\ sid = Off /\ mode = Off /\ call = Off
       /\ sent = Off /\ ran = Off /\ result = Off /\ out = Off /\ issued = Off
       /\ expired = Off /\ left = Off /\ attempt = Off /\ queue = Off
       /\ free = Off /\ next = Off /\ close = Off /\ world = Off
       /\ cached = Off /\ flight = Off /\ cell = Off /\ open = Off
       /\ snap = Off /\ req = Off /\ rewinds = Off /\ hold = Off /\ got = Off
       /\ served = Off /\ change = Off /\ acked = Off /\ straddled = Off
       /\ pass = Off /\ fetches = Off /\ clock = Off /\ gen = Off
       /\ spare = Off /\ holder = Off /\ fhs = Off /\ threads = Off
       /\ handles = Off /\ tracks = Off /\ pruned = Off /\ event = Off
       /\ ended = Off /\ begun = Off /\ stopping = Off /\ goodbye = Off
       /\ said = Off /\ signalled = Off /\ walked = Off /\ store = Off
       /\ memory = Off /\ temp = Off /\ disk = Off /\ planted = Off
       /\ len = Off /\ gone = Off /\ usable = Off /\ told = Off /\ torn = Off
       /\ nas = Off /\ unsent = Off /\ nextIno = Off /\ byIno = Off
       /\ inoOf = Off /\ pathOf = Off /\ held = Off /\ todo = Off /\ ino = Off
       /\ given = Off /\ took = Off /\ excused = Off /\ jobs = Off
       /\ there = Off /\ totals = Off /\ collected = Off /\ page = Off
       /\ answer = Off /\ steady = Off /\ removed = Off /\ changes = Off
       /\ walkLive = Off /\ walkQueue = Off

OnlyBreaker ==
    /\ part = "breaker"
    /\ UNCHANGED <<part, decided, stands, denied, legsQuiet, leg, had, shut,
                  tunnelUp, raising, doing, aim, before, directUp, password,
                  flips, logins, overtaken, since, front, attached, alive,
                  users, busy, loop, recorded, remounted, aborted, join, tear,
                  gui, waited, watched, watching, looking, owners, dir,
                  content, synced, handle, written, rotateAt, sink, calling,
                  made, faults, starts, kept, adrift, smb, renames, at, isDir,
                  inside, pc, tries, look, renamed, res, task, over, taken,
                  tasks, destroyed, late, backUnder, movesLost, intrusions,
                  cookies, live, sid, mode, call, sent, ran, result, out,
                  issued, expired, step, left, attempt, queue, free, next,
                  close, world, cached, flight, cell, open, snap, req,
                  rewinds, hold, got, served, change, acked, straddled, pass,
                  fetches, clock, gen, spare, holder, fhs, threads, handles,
                  tracks, pruned, event, ended, begun, stopping, goodbye,
                  said, signalled, walked, store, memory, temp, disk, planted,
                  len, gone, usable, told, torn, nas, unsent, nextIno, byIno,
                  inoOf, pathOf, held, todo, ino, given, took, excused, jobs,
                  there, totals, collected, page, answer, steady, removed,
                  changes, now, size, want, data, found,
                  walkLive, walkQueue>>
OnlyLegs ==
    /\ part = "legs"
    /\ UNCHANGED <<part, vars, front, attached, alive, users, busy, loop,
                  recorded, remounted, aborted, join, tear, gui, waited,
                  watched, watching, looking, owners, dir, content, synced,
                  handle, written, rotateAt, sink, calling, made, faults,
                  starts, kept, adrift, smb, renames, at, isDir, inside, pc,
                  tries, look, renamed, res, task, over, taken, tasks,
                  destroyed, late, backUnder, movesLost, intrusions, cookies,
                  live, sid, mode, call, sent, ran, result, out, issued,
                  expired, step, left, attempt, queue, free, next, close,
                  world, cached, flight, cell, open, snap, req, rewinds, hold,
                  got, served, change, acked, straddled, pass, fetches, clock,
                  gen, spare, holder, fhs, threads, handles, tracks, pruned,
                  event, ended, begun, stopping, goodbye, said, signalled,
                  walked, store, memory, temp, disk, planted, len, gone,
                  usable, told, torn, nas, unsent, nextIno, byIno, inoOf,
                  pathOf, held, todo, ino, given, took, excused, jobs, there,
                  totals, collected, page, answer, steady, removed, changes,
                  now, size, want, data, found,
                  walkLive, walkQueue>>
OnlyEnd ==
    /\ part = "end"
    /\ UNCHANGED <<part, vars, decided, stands, denied, legsQuiet, leg, had,
                  shut, tunnelUp, raising, doing, aim, before, directUp,
                  password, flips, logins, overtaken, since, dir, content,
                  synced, handle, written, rotateAt, sink, calling, made,
                  faults, starts, kept, adrift, smb, renames, at, isDir,
                  inside, pc, tries, look, renamed, res, task, over, taken,
                  tasks, destroyed, late, backUnder, movesLost, intrusions,
                  cookies, live, sid, mode, call, sent, ran, result, out,
                  issued, expired, step, left, attempt, queue, free, next,
                  close, world, cached, flight, cell, open, snap, req,
                  rewinds, hold, got, served, change, acked, straddled, pass,
                  fetches, clock, gen, spare, holder, fhs, threads, handles,
                  tracks, pruned, event, ended, begun, stopping, goodbye,
                  said, signalled, walked, store, memory, temp, disk, planted,
                  len, gone, usable, told, torn, nas, unsent, nextIno, byIno,
                  inoOf, pathOf, held, todo, ino, given, took, excused, jobs,
                  there, totals, collected, page, answer, steady, removed,
                  changes, now, size, want, data, found,
                  walkLive, walkQueue>>
OnlyLog ==
    /\ part = "log"
    /\ UNCHANGED <<part, vars, decided, stands, denied, legsQuiet, leg, had,
                  shut, tunnelUp, raising, doing, aim, before, directUp,
                  password, flips, logins, overtaken, since, front, attached,
                  alive, users, busy, loop, recorded, remounted, aborted,
                  join, tear, gui, waited, watched, watching, looking, owners,
                  smb, renames, at, isDir, inside, pc, tries, look, renamed,
                  res, task, over, taken, tasks, destroyed, late, backUnder,
                  movesLost, intrusions, cookies, live, sid, mode, call, sent,
                  ran, result, out, issued, expired, step, left, attempt,
                  queue, free, next, close, world, cached, flight, cell, open,
                  snap, req, rewinds, hold, got, served, change, acked,
                  straddled, pass, fetches, clock, gen, spare, holder, fhs,
                  threads, handles, tracks, pruned, event, ended, begun,
                  stopping, goodbye, said, signalled, walked, store, memory,
                  temp, disk, planted, len, gone, usable, told, torn, nas,
                  unsent, nextIno, byIno, inoOf, pathOf, held, todo, ino,
                  given, took, excused, jobs, there, totals, collected, page,
                  answer, steady, removed, changes, now, size, want, data,
                  found,
                  walkLive, walkQueue>>
OnlyMoves ==
    /\ part = "moves"
    /\ UNCHANGED <<part, vars, decided, stands, denied, legsQuiet, leg, had,
                  shut, tunnelUp, raising, doing, aim, before, directUp,
                  password, flips, logins, overtaken, since, front, attached,
                  alive, users, busy, loop, recorded, remounted, aborted,
                  join, tear, gui, waited, watched, watching, looking, owners,
                  dir, content, synced, handle, written, rotateAt, sink,
                  calling, made, faults, starts, kept, adrift, cookies, live,
                  sid, mode, call, sent, ran, result, out, issued, expired,
                  step, left, attempt, queue, free, next, close, world,
                  cached, flight, cell, open, snap, req, rewinds, hold, got,
                  served, change, acked, straddled, pass, fetches, clock, gen,
                  spare, holder, fhs, threads, handles, tracks, pruned, event,
                  ended, begun, stopping, goodbye, said, signalled, walked,
                  store, memory, temp, disk, planted, len, gone, usable, told,
                  torn, nas, unsent, nextIno, byIno, inoOf, pathOf, held,
                  todo, ino, given, took, excused, jobs, there, totals,
                  collected, page, answer, steady, removed, changes, now,
                  size, want, data, found,
                  walkLive, walkQueue>>
OnlyLogin ==
    /\ part = "login"
    /\ UNCHANGED <<part, vars, decided, stands, denied, legsQuiet, leg, had,
                  shut, tunnelUp, raising, doing, aim, before, directUp,
                  password, flips, logins, overtaken, since, front, attached,
                  alive, users, busy, loop, recorded, remounted, aborted,
                  join, tear, gui, waited, watched, watching, looking, owners,
                  dir, content, synced, handle, written, rotateAt, sink,
                  calling, made, faults, starts, kept, adrift, smb, renames,
                  at, isDir, inside, pc, tries, look, renamed, res, task,
                  over, taken, tasks, destroyed, late, backUnder, movesLost,
                  intrusions, step, left, attempt, queue, free, next, close,
                  world, cached, flight, cell, open, snap, req, rewinds, hold,
                  got, served, change, acked, straddled, pass, fetches, clock,
                  gen, spare, holder, fhs, threads, handles, tracks, pruned,
                  event, ended, begun, stopping, goodbye, said, signalled,
                  walked, store, memory, temp, disk, planted, len, gone,
                  usable, told, torn, nas, unsent, nextIno, byIno, inoOf,
                  pathOf, held, todo, ino, given, took, excused, jobs, there,
                  totals, collected, page, answer, steady, removed, changes,
                  now, size, want, data, found,
                  walkLive, walkQueue>>
OnlyThrottle ==
    /\ part = "throttle"
    /\ UNCHANGED <<part, vars, decided, stands, denied, legsQuiet, leg, had,
                  shut, tunnelUp, raising, doing, aim, before, directUp,
                  password, flips, logins, overtaken, front, attached, alive,
                  users, busy, loop, recorded, remounted, aborted, join, tear,
                  gui, waited, watched, watching, looking, owners, dir,
                  content, synced, handle, written, rotateAt, sink, calling,
                  made, faults, starts, kept, adrift, smb, renames, at, isDir,
                  inside, pc, tries, look, renamed, res, task, over, taken,
                  tasks, destroyed, late, backUnder, movesLost, intrusions,
                  cookies, live, sid, mode, call, sent, ran, result, out,
                  issued, expired, world, cached, flight, cell, open, snap,
                  req, rewinds, hold, got, served, change, acked, straddled,
                  pass, fetches, clock, gen, spare, holder, fhs, threads,
                  handles, tracks, pruned, event, ended, begun, stopping,
                  goodbye, said, signalled, walked, store, memory, temp, disk,
                  planted, len, gone, usable, told, torn, nas, unsent,
                  nextIno, byIno, inoOf, pathOf, held, todo, ino, given, took,
                  excused, jobs, there, totals, collected, page, answer,
                  steady, removed, changes, now, size, want, data, found,
                  walkLive, walkQueue>>
OnlyListings ==
    /\ part = "listings"
    /\ UNCHANGED <<part, vars, decided, stands, denied, legsQuiet, leg, had,
                  shut, tunnelUp, raising, doing, aim, before, directUp,
                  password, flips, logins, overtaken, front, attached, alive,
                  users, busy, loop, recorded, remounted, aborted, join, tear,
                  gui, waited, watched, watching, looking, owners, dir,
                  content, synced, handle, written, rotateAt, sink, calling,
                  made, faults, starts, kept, adrift, smb, renames, at, isDir,
                  inside, pc, tries, look, renamed, res, task, over, taken,
                  tasks, destroyed, late, backUnder, movesLost, intrusions,
                  cookies, live, sid, mode, call, sent, ran, result, out,
                  issued, expired, step, left, attempt, queue, free, next,
                  close, clock, gen, spare, holder, fhs, threads, handles,
                  tracks, pruned, event, ended, begun, stopping, goodbye,
                  said, signalled, walked, store, memory, temp, disk, planted,
                  len, gone, usable, told, torn, nas, unsent, nextIno, byIno,
                  inoOf, pathOf, held, todo, ino, given, took, excused, jobs,
                  there, totals, collected, page, answer, steady, removed,
                  changes, now, size, want, data, found,
                  walkLive, walkQueue>>
OnlyWalks ==
    /\ part = "walks"
    /\ UNCHANGED <<part, vars, decided, stands, denied, legsQuiet, leg, had,
                  shut, tunnelUp, raising, doing, aim, before, directUp,
                  password, flips, logins, overtaken, since, front, attached,
                  alive, users, busy, loop, recorded, remounted, aborted,
                  join, tear, gui, waited, watched, watching, looking, owners,
                  dir, content, synced, handle, written, rotateAt, sink,
                  calling, made, faults, starts, kept, adrift, smb, renames,
                  at, isDir, inside, pc, tries, look, renamed, res, task,
                  over, taken, tasks, destroyed, late, backUnder, movesLost,
                  intrusions, cookies, sid, mode, call, sent, ran, result,
                  out, issued, expired, step, left, attempt, free, next,
                  close, world, cached, flight, cell, open, snap, req,
                  rewinds, hold, got, served, change, acked, straddled, pass,
                  fetches, store, memory, temp, disk, planted, len, gone,
                  usable, told, torn, nas, unsent, nextIno, byIno, inoOf,
                  pathOf, held, todo, ino, given, took, excused, jobs, there,
                  totals, collected, page, answer, steady, removed, changes,
                  now, size, want, data, found,
                  live, queue>>
OnlySpill ==
    /\ part = "spill"
    /\ UNCHANGED <<part, vars, decided, stands, denied, legsQuiet, leg, had,
                  shut, tunnelUp, raising, doing, aim, before, directUp,
                  password, flips, logins, overtaken, since, front, attached,
                  alive, users, busy, loop, recorded, remounted, aborted,
                  join, tear, gui, waited, watched, watching, looking, owners,
                  dir, content, synced, handle, written, rotateAt, sink,
                  calling, made, faults, starts, kept, adrift, smb, renames,
                  at, isDir, inside, pc, tries, look, renamed, res, task,
                  over, taken, tasks, destroyed, late, backUnder, movesLost,
                  intrusions, cookies, live, sid, mode, call, sent, ran,
                  result, out, issued, expired, step, left, attempt, queue,
                  free, next, close, world, cached, flight, cell, open, snap,
                  req, rewinds, hold, got, served, change, acked, straddled,
                  pass, fetches, clock, gen, spare, holder, fhs, threads,
                  handles, tracks, pruned, event, ended, begun, stopping,
                  goodbye, said, signalled, walked, nas, unsent, nextIno,
                  byIno, inoOf, pathOf, held, todo, ino, given, took, excused,
                  jobs, there, totals, collected, page, answer, steady,
                  removed, changes, now, size, want, data, found,
                  walkLive, walkQueue>>
OnlyNames ==
    /\ part = "names"
    /\ UNCHANGED <<part, vars, decided, stands, denied, legsQuiet, leg, had,
                  shut, tunnelUp, raising, doing, aim, before, directUp,
                  password, flips, logins, overtaken, since, front, attached,
                  alive, users, busy, loop, recorded, remounted, aborted,
                  join, tear, gui, waited, watched, watching, looking, owners,
                  dir, content, synced, handle, written, rotateAt, sink,
                  calling, made, faults, starts, kept, adrift, smb, renames,
                  at, isDir, inside, pc, tries, look, renamed, res, task,
                  over, taken, tasks, destroyed, late, backUnder, movesLost,
                  intrusions, cookies, live, sid, mode, call, sent, ran,
                  result, out, issued, expired, step, left, attempt, queue,
                  free, next, close, world, cached, flight, cell, open, snap,
                  req, rewinds, hold, got, served, change, acked, straddled,
                  pass, fetches, clock, gen, spare, holder, fhs, threads,
                  handles, tracks, pruned, event, ended, begun, stopping,
                  goodbye, said, signalled, walked, store, memory, temp, disk,
                  planted, len, gone, usable, told, torn, there, totals,
                  collected, page, answer, steady, removed, changes, now,
                  size, want, data, found,
                  walkLive, walkQueue>>
OnlyPages ==
    /\ part = "pages"
    /\ UNCHANGED <<part, vars, decided, stands, denied, legsQuiet, leg, had,
                  shut, tunnelUp, raising, doing, aim, before, directUp,
                  password, flips, logins, overtaken, since, front, attached,
                  alive, users, busy, loop, recorded, remounted, aborted,
                  join, tear, gui, waited, watched, watching, looking, owners,
                  dir, content, synced, handle, written, rotateAt, sink,
                  calling, made, faults, starts, kept, adrift, smb, renames,
                  at, isDir, inside, pc, tries, look, renamed, res, task,
                  over, taken, tasks, destroyed, late, backUnder, movesLost,
                  intrusions, cookies, live, sid, mode, call, sent, ran,
                  result, out, issued, expired, step, left, attempt, queue,
                  free, next, close, world, cached, flight, cell, open, snap,
                  req, rewinds, hold, got, served, change, acked, straddled,
                  pass, fetches, clock, gen, spare, holder, fhs, threads,
                  handles, tracks, pruned, event, ended, begun, stopping,
                  goodbye, said, signalled, walked, store, memory, temp, disk,
                  planted, len, gone, usable, told, torn, nas, unsent,
                  nextIno, byIno, inoOf, pathOf, held, todo, ino, given, took,
                  excused, jobs, now, size, want, data, found,
                  walkLive, walkQueue>>
OnlyResize ==
    /\ part = "resize"
    /\ UNCHANGED <<part, vars, decided, stands, denied, legsQuiet, leg, had,
                  shut, tunnelUp, raising, doing, aim, before, directUp,
                  password, flips, logins, overtaken, since, front, attached,
                  alive, users, busy, loop, recorded, remounted, aborted,
                  join, tear, gui, waited, watched, watching, looking, owners,
                  dir, content, synced, handle, written, rotateAt, sink,
                  calling, made, faults, starts, kept, adrift, smb, renames,
                  at, isDir, inside, pc, tries, look, renamed, res, task,
                  over, taken, tasks, destroyed, late, backUnder, movesLost,
                  intrusions, cookies, live, sid, mode, call, sent, ran,
                  result, out, issued, expired, left, attempt, queue, free,
                  next, close, world, cached, flight, cell, open, snap, req,
                  rewinds, hold, got, served, change, acked, straddled, pass,
                  fetches, clock, gen, spare, holder, fhs, threads, handles,
                  tracks, pruned, event, ended, begun, stopping, goodbye,
                  said, signalled, walked, store, memory, temp, disk, planted,
                  len, gone, usable, told, torn, nas, unsent, nextIno, byIno,
                  inoOf, pathOf, held, todo, ino, given, took, excused, jobs,
                  there, totals, collected, page, answer, steady, removed,
                  changes,
                  walkLive, walkQueue>>

SuiteNext ==
    \/ OnlyBreaker /\ Next
    \/ OnlyLegs /\ Leg!Next
    \/ OnlyEnd /\ End!Next
    \/ OnlyLog /\ Log!Next
    \/ OnlyMoves /\ Move!Next
    \/ OnlyLogin /\ Logins!Next
    \/ OnlyThrottle /\ Slots!Next
    \/ OnlyListings /\ Listed!Next
    \/ OnlyWalks /\ Walk!Next
    \/ OnlySpill /\ Buffer!Next
    \/ OnlyNames /\ Inodes!Next
    \/ OnlyPages /\ Page!Next
    \/ OnlyResize /\ Size!Next

SuiteSpec == SuiteInit /\ [][SuiteNext]_suiteVars

-----------------------------------------------------------------------------
(* Each part's properties, in the states of that part; CircuitBreaker's own are
   listed by their names there. *)

\* Legs!BadgeIsTruthful and WatchSpacesLogins: what is reported is the leg that
\* carries the mount, and the watch does not log in to the VPN again within the
\* time a failed tunnel is to be left alone.
LegsHold ==
    /\ [](part = "legs" => Leg!TypeOK /\ Leg!BadgeIsTruthful)
    /\ [][part = "legs" => Leg!Spaced]_suiteVars

\* MountEnds!RuntimeOutlivesWorkers, AbortsOnlyOwn and QuietAfterLogout: the runtime
\* lives as long as a callback runs on it, only this mount's own connection is
\* aborted, and nothing logs in once the session is logged out.
EndsInOrder ==
    part = "end" => /\ End!TypeOK /\ End!RuntimeOutlivesWorkers
                    /\ End!AbortsOnlyOwn /\ End!QuietAfterLogout

\* LogFile!GenerationsInOrder, RetentionKept, EvidenceSurvives and SizeBounded: the
\* generations are in order and as many as are to be kept, what was on disk before a
\* crash is there after it, and no file outgrows its limit but by a failed rotation.
LogKept ==
    part = "log" => /\ Log!TypeOK /\ Log!GenerationsInOrder /\ Log!RetentionKept
                    /\ Log!EvidenceSurvives /\ Log!SizeBounded

\* Moves!ReplacesByRule, OkIsMoved, RefusedIsUndone, OneTask and NeverSplit: a move
\* replaces only what rename(2) may, is where it says it is, leaves things as they
\* were when it is refused, and is never made by two tasks or left in two halves.
MoveIsRename ==
    part = "moves" => /\ Move!TypeOK /\ Move!ReplacesByRule /\ Move!OkIsMoved
                      /\ Move!RefusedIsUndone /\ Move!OneTask /\ Move!NeverSplit

\* Login!CookieIsKept and TwiceRefused: the NAS's session travels the way it was
\* found to, and a call is refused for its session only when two were.  Throttle!
\* SlotsAreRequests and BeltSpaced: a slot is held by a request and by nothing that
\* waits, and openings are handed out the interval apart.  Pages!NothingOmitted and
\* ListedAsIs: a listing by pages leaves out no more of what was there all along than was
\* removed from before the offset.  Resize!OneVersion: a resized file is one version's.
CallsKept ==
    /\ part = "login" => Logins!TypeOK /\ Logins!CookieIsKept /\ Logins!TwiceRefused
    /\ part = "throttle" => /\ Slots!TypeOK /\ Slots!SlotsAreRequests
                            /\ Slots!BeltSpaced
    /\ part = "pages" => Page!TypeOK /\ Page!NothingOmitted /\ Page!ListedAsIs
    /\ part = "resize" => Size!TypeOK /\ Size!OneVersion

\* Listings!OneFetch, FlightsDrain, PassIsOneListing and StaleByOverlap: readers share
\* one fetch and leave none behind, a pass is of one listing, and that lacks the
\* mount's own changes only if a readdir was under way when they were made.
PassIsOneListing ==
    part = "listings" => /\ Listed!TypeOK /\ Listed!OneFetch /\ Listed!FlightsDrain
                         /\ Listed!PassIsOneListing /\ Listed!StaleByOverlap

\* Walks!CountsMatch, NoTwoStarts and OnlyWalkersStopped: a process is charged with
\* what is put down to its id, its walks are logged in pairs, and only a walker is
\* signalled, however ids are used again.
WalkersOnly ==
    part = "walks" => /\ Walk!TypeOK /\ Walk!CountsMatch
                      /\ Walk!NoTwoStarts /\ Walk!OnlyWalkersStopped

\* Spill!BytesKept, OthersKept and LengthIsTrue: no byte is lost on the way to disk,
\* nobody else's file is touched, and none is left behind.
BytesKept ==
    part = "spill" => Buffer!TypeOK /\ Buffer!BytesKept /\ Buffer!OthersKept /\ Buffer!LengthIsTrue

\* Names!InodeIsOnePath, OneNumberAtATime and RemovedIsForgotten: a number means the
\* path it was given out for, whatever threads interleave; a path has a second one only
\* once its first was dropped; and what the mount removed is not remembered.
NamesHold ==
    /\ [](part = "names" => Inodes!TypeOK /\ Inodes!InodeIsOnePath /\ Inodes!RemovedIsForgotten)
    /\ [][part = "names" /\ nextIno' # nextIno => inoOf[given'[nextIno]] = 0]_suiteVars
=============================================================================
