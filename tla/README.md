# A verification development for synology-filestation

TLA+ models of the Rust client, the mounts, the SMB transport and the VPN transport of
synology-filestation, translated from `src/`, checked by TLC, and for the most important
properties proved with TLAPS. `PROJECT.json` lists the runs, which lines each definition
stands for (`map`), the mutants each property is known to catch, the hazards, the
disagreements found and the theorems.

Paths are shortened: `core/`, `fuse/`, `smb/`, `openvpn/`, `connect/` and `ffi/` are the
sources of `src/rust/synology-filestation-<name>/src/`.

    tlc -workers 2 -config Mount.cfg MCMount.tla     # check a run
    tlapm VpnProofs.tla                              # check a module's proofs

## 1. The system

| component | source | state | operations |
|---|---|---|---|
| backend health and dispatch | core/transport.rs, core/client/ | a circuit breaker per backend | admit, report a verdict, decline |
| HTTP upload and verification | core/client/upload.rs, verify.rs | the partial file on the NAS | slices, restart, settle, hash, reject |
| login sessions | core/client/session.rs | session id, how it travels | log in, probe, relogin, log out |
| request throttle | core/client/throttle.rs, download.rs | a belt and a cap | reserve, retry with back-off |
| moves, listings by pages, resizing | core/client/moves.rs, metadata.rs, upload.rs | a CopyMove task on the NAS | plan, rename, start, poll, undo; page; truncate |
| downloads to a path | core/client/download.rs, smb/transport.rs, ffi/lib.rs | a sidecar beside the target | stream, fall back to HTTP, clean up, rename |
| write handles and transfers | fuse/fs/ | buffers, locks, permits, hash slots | open, write, flush, release, truncate, move, getxattr, unmount |
| read path | fuse/fs/mod.rs, prefetch.rs, cache.rs | blocks, claims, a budget | read, plan runs ahead, abort, invalidate |
| names | fuse/cache.rs, fs/callbacks.rs | three maps of inode numbers | lookup, create, unlink, rename, readdir |
| directory listings | fuse/fs/dirs.rs, cache.rs | passes, a cache, shared fetches | opendir, readdir, clear |
| walks | fuse/walks.rs | opens by process | count, resolve, prune, stop |
| spill buffers | fuse/spill.rs | memory or a temporary file | write, set length, spill, drop |
| access legs | fuse/legs.rs, connect/lib.rs | the leg in use, the shared tunnel | choose, take, adopt, redial |
| log | fuse/logfile.rs, ffi/logging.rs | generations of a file | append, sync, rotate, forward |
| mount life cycle | fuse/lib.rs, ffi/lib.rs | session, workers, runtime | stop, give up, detach, abort, log out |
| Windows mount | fuse/winfs.rs | a buffer per handle, pending names | create, open, write, flush, rename, close |
| SMB transport | smb/transport.rs, probe.rs, pool.rs, handles.rs | refused logins, a session, lanes | dial, rebuild, adopt, read, write |
| VPN control channel | openvpn/reliable.rs, replay.rs | two windows, a replay window | queue, transmit, acknowledge, accept |
| VPN sessions, keys, driver | openvpn/session.rs, channel.rs, driver.rs | key slots, timers, queues | handshake, renegotiate, wake, forward |
| TCP inside the tunnel | openvpn/stack.rs, mux.rs | socket buffers, ports, routes | connect, read, write, flush, close |
| encodings, errors, types | several | none | |
| C ABI, Python, desktop, WebDAV | ffi/, src/python, ... | handles over the crates above | |

**How they interact.** A callback of the mount answers from a cache or a buffer, blocks
on a call to the client, or starts a task on the Tokio runtime. A client call walks the
backends, SMB before HTTP, each behind a breaker. The SMB backend keeps one session and
a pool of lanes for reads, perhaps inside a VPN tunnel that the connection chain raised;
the watch hands it a better leg when one comes up. The read path and the write path share
the block cache, by invalidation only. The end of a mount waits for callbacks, the watch
and the log-out, in that order, and gives up on each after a while.

**What is hard.** Interleavings of callbacks, tasks and threads over locks that are let
go of across a network call; futures dropped at an await; answers that are lost although
the request did its work; listings, checks and counts that are stale when used; crashes
and power cuts around the log; chains of locks, permits and slots where everybody may
wait for everybody; time-outs racing late answers; retries, and logins that must not be
retried.

## 2. Modules

| module | models | actions |
|---|---|---|
| `CircuitBreaker` | a backend's breaker and its callers | Admit, Skip, Answered, Declined, Failed, Dropped, HttpDone, Tick |
| `HttpUpload` | slices, restarts, verification; the NAS, late requests and an intruder | Sent, Lost, Refused, Disowned, StartOver, Settle, Hash, Reject, ... |
| `WriteHandles` | buffers, permits, hash slots, transfers, unmount | one per callback and per stretch between awaits |
| `ReadCache` | blocks, claims, waiters, runs, budget | opens, reads, plans, fetches, aborts, invalidation, eviction |
| `Names` | the three maps of the inode cache under callbacks | a callback is a list of steps (ByName, ByNumber, Renames, Background); Steps runs one |
| `Listings` | readdir passes, the cache and shared fetches | open, read, fetch, let go, clear, expire |
| `Walks` | opens counted to processes whose ids are reused | open, release, resolve, prune, stop |
| `Spill` | a buffer's bytes in memory and on disk | write, set length, spill with failures, drop |
| `Legs` | the watch, the redial, the lanes and the chain they share | decide, raise, take, adopt, settle |
| `MountEnds` | how a mount comes down, from the CLI and the GUI | stop, tear, detach, abort, log out, free |
| `LogFile` | appends, syncs and rotation with failing calls and restarts | append, sync, rotate step by step, kill, power cut |
| `Login` | sessions, the probe, each caller's own log-in | log in, probe, call, expire, log out |
| `Throttle` | the belt, the cap and retries | reserve, open, begin, back off |
| `Moves` | move_to and the CopyMove task, with others | plan, rename, start, poll, undo |
| `Pages`, `Resize` | a listing by pages; truncate by download and upload | fetch, fail; stat, download, upload |
| `WinFs` | handles, shared buffers and pending names of the Windows mount | Create, Open*, Write, Flush*, Close*, Rename*, Move* |
| `Downloads` | downloads to one path and their sidecars | Learns, Creates, Pumps, Renames, Fails, Clears, Drops, Lingers |
| `AuthGate` | the memory of refused logins | dial, queue, refuse, accept, sweep |
| `SmbSession` | the session slot, its rebuilding and adoption | operate, mark, rebuild, swap |
| `ReadLanes` | lanes, their two lists, handles, generations, invalidation | pick, open, park, close, retire, join the draining list, drain, leave it, evict, forget list by list |
| `SmbWrites` | staged, new and handle writes to one path | stage, rename, clean up, reopen |
| `Reliable`, `Stream` | one direction of the control channel; the stream it implements | Queue, Transmit, BackedOff, AcksArrive, Receive, SendAcks, Lose; Accept, Deliver |
| `ReplayWindow` | the replay window | Send, ClockMoves, Accept, Refuse |
| `VpnKeys` | handshakes, renegotiations and the slots of keys | reset, handshake, switch, expire |
| `VpnDriver` | the task's loop, its timers and queues | wake, take, send, sleep, finish |
| `TunnelStream`, `TunnelMux` | a stream's loop and its caller; ports and routes | read, write, flush, shut down; check, claim, remove, release, link ends |
| `MC*` | instances; `MCSmb`, `MCVpn`, `MCMount` and `MCProgress` hold several modules | |
| `MountParts`, `MountAside` | the constants, variables and instances of the parts of `MCMount` that are proved about | |
| `*Proofs` | theorems: `SmbProofs`, `VpnProofs` and `MountProofs` about the parts of the suites, the others about the module they are named after; `MountPartsProofs` and `MountAsideProofs` have the invariants `MountProofs` concludes from | |

A step is the code between two points where somebody else can get a turn: a lock let go,
an await, a system call. A check and an act in two critical sections are two steps.
Variables marked *history* exist for the properties; those marked *bound*, and
constants named Max..., keep the instance finite. Data is what
the properties tell apart: a file is its writers or slices, a block is there or not, a
message its number, a listing the number of changes made before it, time a few ticks.
Only `Spill`, `Downloads` and `Resize` keep bytes.

**Several modules in one run.** `MCSmb`, `MCVpn`, `MCMount` and `MCProgress` check many
small models at once: `part` names one and never changes, and the variables of the others
stay as they are. The parts share no state in the code, and what one needs of another (a
login's outcome, an upload's) is a free choice in it, so `part = "x" => X!Inv` says just
that `Inv` is an invariant of module X. Parts that do interact through state are one
module: handles, permits and hash slots in `WriteHandles`, the watch and the chain in
`Legs`, both ends of the channel in `Reliable`.

## 3. Runs

In the suites a property named after a part's subject is the conjunction of that module's
type invariant and the invariants named in the comment above it.

| run | instance | shows |
|---|---|---|
| `write_handles` | two handles on one path, two tasks and the unmount, one transfer permit, one hash slot, one write a handle | `WellFormed`, `CloseTruthful`, `UnmountKeepsWrites`, `HashStartsQuiet`, `WaitersAreLed` |
| `write_handles_live` | one handle | `CloseAnswered`, `UnmountEnds` |
| `read_cache` | two handles, three blocks, two prefetch tasks with runs of two, a budget of one block a connection, one or two connections | `WellFormed`, `BudgetIsExact`, `SpeculationAbandoned` |
| `read_cache_live` | two handles, two blocks, one task | `Answered` |
| `smb` | below | what carries files |
| `vpn` | below | the tunnel |
| `mount` | below | the mount and the client |
| `progress` | the smallest instance of each part where somebody can be held up | `WaitsEnd` |

One permit and one slot make everything wait on everything, and two handles, two tasks
and the unmount are the fewest among which one holds what the next waits for while a
third takes it; the permits of the code (four, two) would need that many more waiters for
the same orders. Two runs of two blocks over three overlap in one and differ in one.

**`smb`** upload: one to three slices, the code's three attempts, one late request
(`SuccessIsFaithful`, `DoublesAreSuspected`, `OnlyWrongFilesRejected`). Gate: four
callers of two accounts, by two routes, four dials, a cool-down of two (`StrikesSpaced`).
Session: an operation under the lock and one on a clone, one adopter, two failures
(`SessionHolds`). Lanes: two lanes, the two lists of them with a lock each, two handles,
two reads, one move to another generation, and a write's forget that looks at one list
after the other (`LaneHandlesKept`; more reads, handles and lanes are the theorem's). Writes: four writers of one path, of every method,
each request of which may be carried out and not answered, creates included
(`OldOrNew`). Downloads: by either way of the client and by the C ABI, two of them at a
time, of a file of two pieces that is replaced by a shorter one, one failure; and the
Windows mount: two opens of an old and a new path, two writes, so that a flush has one
behind it, one failure (`FilesKept`).

**`vpn`** reliable: windows of two for six and twelve, so no slack at all, and three
messages (`TypeOK`, `PromiseKept`, `AcknowledgedIsKept`, `IsStream`). Keys: four
generations over three ids, so that an id comes round again, up to two late messages
(`KeysInStep`). Driver: every timer shorter than, equal to and longer than another,
a server that names a limit for silence, none, or that there is to be none, queues of one
(`DriverOnTime`). Stream: three bytes out, two in, a window of one
(`StreamTruthful`). Mux: two connections, five ports, a
connection long-lived when one other port was claimed under it, a far end that remembers
two (`PortsApart`). Replay: ids to four, a window of two, two times (`TakenOnce`).

**`mount`** breaker: three callers, the code's threshold of two, a cool-down of two,
five failures since the last success (`TrialOutstanding`, `CoolsInFull`). Legs: all three, two changes of the network, two
logins the VPN counts (`LegsHold`). End: from CLI or GUI, with another user of the
volume, a busy callback, patience of two (`EndsInOrder`). Log: two old generations, seven
records in files of two, one failing call and one restart (`LogKept`). Moves: three lost
answers, one intrusion (`MoveIsRename`). Login (two calls, two expiries), throttle (three
downloads, two slots, two tries), pages (four names, three pages of two, two changes) and
resize (`CallsKept`). Listings: two handles, one change, two fetches
(`PassIsOneListing`). Walks: an id used twice and a thread that changes hands, two opens,
three ticks (`WalkersOnly`). Spill: three bytes, one of them in memory, two names
(`BytesKept`).
Names: a folder and a sibling whose name begins like it, a child in each, two threads,
two callbacks (`NamesHold`). Where two callbacks overlapped, or an answer was lost and
the cache told less than was done, that what was removed is not remembered is not
claimed (`excused`).

**`progress`** states one formula for all parts: whoever waits stops waiting. Fairness:
callers, tasks and threads run (weak); time passes; calls end, by their deadline at the
latest; Tokio's mutexes and semaphores are FIFO (strong fairness where a mutex is
entered); a message sent again and again arrives once (strong on the arrivals); a login
or adoption that is possible again and again succeeds once (strong). Nobody has to start
a call, no password has to be right and no link stays up. In `write_handles_live` tasks
are polled, permits and locks are FIFO (strong) and requests end; a hash, which the code
gives no deadline, need not. In `read_cache_live` threads run and downloads end; nothing
is assumed of a waiter's time-out, so nobody is answered by giving up.

Four runs look for a violation, each of a sentence in the code (section 5): `write_close`
(`DirtyUntilLanded`), `breaker_stranded` (`NeverStranded`), `rename_destroys`
(`RenameReplaces`), `names_swept` (`SweepsOnlyUnder`).

Deadlock is checked in the `read_cache` runs. Elsewhere calls, mounts and tunnels end,
which TLC takes for a deadlock; that nobody is left waiting is what the liveness
properties say there.

## 4. What is proved

All theorems hold for every value of the constants that satisfies the named assumption of
the module: positive windows, thresholds and bounds, distinct sorts of values, finite sets
of callers where they are counted. The instances of section 3 satisfy them. Of a suite, a
theorem proves what the run checks of the part: a behaviour stays in the part it begins
in, every step of it there is a step of the module, and the module's invariant is
inductive. That a part's invariant is inductive is a lemma of its own, so it holds of the
module, too, and not only of the suite.

Hardly any of the properties is inductive as it stands. What each needed:

**The write path.** `WriteHandlesProofs`: types, `WellFormed`, `UnmountKeepsWrites`,
`CloseTruthful`, `HashStartsQuiet`, `WaitersAreLed`. First that each upload is at one of
its awaits and locks belong to uploads past the first (`LocksInv`). Then `HandlesInv`: of
a handle on which no call has failed, the sink holds what was acknowledged, a clean one
has landed, and the payload in flight is everything acknowledged, because the lock keeps
writes out. `CloseTruthful` alone says nothing of payloads in flight. `HashStartsQuiet` is about what happens between the checks a digest
makes, under a lock each, and its request: what each look has seen still holds, but for
the rewrites and writes that registered behind it (`LooksHold`). `BufferSound`
(`BytesKept`): what lies beyond the length of a buffer's file was never told and ends in
a write that was cut short (`Tallies`), without which a later write that fills the gap
would bring back bytes of the cut one; a buffer in memory has no such place at all.

**HTTP and the breaker.** `MountProofs`, about `CircuitBreaker`: `CoolsInFull`,
`TrialOutstanding`; every failure restarts the clock, and outside "closed" the failures
since the last success have reached the threshold (`ClockInv`, a theorem of its own:
without it the failure that ends a trial might leave the breaker closed). `HttpUploadProofs`: `DoublesAreSuspected`,
`OnlyWrongFilesRejected`, `SuccessIsFaithful`; no request of the current pass is on its
way unless a resend is suspected (`Suspects`), and the file verification looks at is
there to stay (`Landed`).

**The read path.** `ReadCacheProofs`: `WellFormed`, `BudgetIsExact`,
`SpeculationAbandoned`. The budget is a count that many tasks raise and lower by what
they fetch. The proof counts pairs of a task and a block it fetches (a finite set, so the
library's theorems on cardinality apply) and shows each step to change that set by as
much as the count, an abort and a dropped run included. `IInv` adds three facts: a task
alive is listed or told to stop, who plans a run is registered as a reader, and with no
reader left nothing is listed unless a close is about to see to it.

**Sessions and transfers over SMB.** `SmbProofs`: `StrikesSpaced`, `OldOrNew`,
`SessionHolds`, `LaneHandlesKept`. `GateInv`: who dials holds the account's lock, the
slot remembers a refusal for as long as the strike it was told of is recent, and no dial
is under way within that time. `WriteInv`: what is staged is whole before it is renamed,
and a file in part at the path is a streamed handle's or that of a new file's writer,
who still has it open under that name; what a writer leaves whose create was carried out
and not answered is an empty file and no more. `SessionInv`: whoever dials or attaches holds the
slot's lock, a locked operation to its end; the trees, and those operations, are of the
session in the slot. `LaneInv`: a handle is cached or parked on its own lane, not both,
and is neither on its way to be closed nor still to be opened; a lane that keeps one is on
a list or between the two (`Found`), and a write's forget, which reads the lists one after
the other, has seen the lane of the handle it is after, will see it, or was passed by a
lane that was between them (`SweepKept`).

**The tunnel.** `VpnProofs`, about `Reliable`: `TypeOK`, `PromiseKept`,
`AcknowledgedIsKept` and the refinement `IsStream`, for windows of any size with the
receiver's no smaller. Acknowledgements are followed back: what the sender let go of was
acknowledged; whatever is acknowledged on the wire, owed or listed, the receiver has
(`AcksTruthful`); so the first message the receiver misses is in flight, and everything
queued is within a window of it (`Spread`). `PromiseKept` alone says nothing of the
acknowledgements that move the window. For the types: no id is owed twice, and the
recent ones stay in distinct places without a gap (`OwedOnce`, `ListedInPlaces`).
`TakenOnce`: `NoReplay`, `NothingFreshRefused` and `WindowIsTruthful`, also theorems of
their own about `ReplayWindow`, for a window of any size; `WindowIsAccepted` ties bit d to
the packet d ids below the highest of the window's time. `StreamTruthful` (`StreamInv`):
every byte written is on its way to the loop, in its buffer, in the socket's or
acknowledged (`StreamCounts`); a socket in certain states has heard of the peer's end;
what is published is so. `DriverOnTime` (`DriverInv`): a sleep ends before the next ping,
push request or silence is due (`SleepsInTime`), and who goes says why
(`EndsExplained`); whoever gives up on a silent server had been given a limit by it, or
by default (`GoesForCause`). `PortsApart` (`MuxInv`): between two claims the cursor
passes only ports claimed in between or still held, the latter by different connections
(`ClaimsSpread`), and a port that was given up by a connection short-lived enough, and is
still remembered by the far end, is among the last claimed (`LeftIsRecent`). So with as
many ports as connections, remembered ones and the claims a short life may see together,
the cursor does not come round too soon. Nothing of the kind holds of a long life, which
the theorem leaves out by name (section 5).

**The mount and the client.** `MountProofs`. `EndsInOrder` (`EndInv`): teardown ends by
the join only, the session's threads are gone by then, and the mount's hold on the
runtime outlasts them. `PassIsOneListing` (`ListInv`): two never fetch at a time, a
flight that left the map while somebody held it has been answered, and while no readdir
straddled a change of the mount's own, the cache, the cells and what readdirs have got
are as new as that change. `CallsKept`, in four parts: a call that logs in again has met
a dead session, and only an expiry makes one, so two refusals take two expiries
(`LoginInv`); the belt's next opening is no further off than the calls that reserved one
account for (`SlotInv`); of what stayed and lies before the offset, no more names are
missed than were removed from before it (`PageInv`); what is uploaded is of the version found
(`SizeInv`).

`MoveIsRename` (`MoveInv`) follows the source: at every await it is in the one place that
stage leaves it in, unless a rename worked whose answer was lost
(`SourceAt`); what the look at the destination saw is still so, except for what a lost
answer or another client may have changed (`LookTrue`); and nothing is destroyed but what
that look allows (`Destroyed`). The promises about refusals and successes are each of a
final state only, and say nothing of the stages before it. `LogKept` (`LogInv`): a file
under an older name holds older records and no file has two names (`LogOrder`), through
every step of a rotation that stops half way; what was acknowledged as durable lies within
what is synced of its file (`LogDurable`); without failures the generations are full and
their records consecutive (`LogWhole`), which is why a record is retained as long as it
is; and each failed rotation puts the next attempt off by one limit, so the file's size
is bounded by their number (`LogBudget`). `WalkersOnly` (`WalkInv`): the handles put
down to an id are as many as its track counts, and opens reach the thread in the order of
their handles, so none is counted twice (`WalkPuts`, `WalkOrder`). That no process is said
to start twice takes an account of what is yet to be said: per process, starts less ends,
with those decided on and not yet logged, come to one if its track is reported and to none
if not, as long as its id is its own; afterwards they may only fall short (`WalkSaid`).
What a sweep has still to say stays so while the open behind it is looked into (`Swept`),
and whoever is reported or about to be stopped has been seen walking (`Seen`, `Stops`).

Assumptions the proofs brought out, now stated in the modules: the placeholders for
nobody and nothing are no members of the sets they stand beside (`SessionAssumption`,
`MuxAssumption`, `ListingsAssumption`), the callers of the throttle are finitely many, a
buffer may hold a byte (`SpillAssumption`), and the driver polls within its cap and asks
again before it gives up asking (`DriverAssumption`).

**Only model-checked.** All liveness (`WaitsEnd`, `CloseAnswered`, `UnmountEnds`,
`Answered`): fairness and ENABLED are beyond the prover. Not yet proved: `FilesKept`, `KeysInStep`,
`LegsHold`, `NamesHold` and the types of `HttpUpload`. `KeysInStep` filters sequences (`SelectSeq`), of which the prover
knows nothing without induction.

## 5. What the code does otherwise than it says

Four of these are runs of their own; for the others the definition named is in the
module, no run lists it because the code does not keep it, and TLC gives the steps.

Runs:

- A streamed write whose close fails keeps neither the stream nor the data; the next
  flush finds nothing to close and reports success, though fuse/fs/transfer.rs:204 says a
  failed flush leaves the data for `release` (`write_close`, `DirtyUntilLanded`).
- An aborted read-ahead takes the half-open breaker's trial with it, and the backend is
  refused from then on, which core/client/mod.rs:102 says must not happen
  (`breaker_stranded`, `NeverStranded`).
- A rename in a folder deletes its destination first and may then be refused
  (fuse/fs/callbacks.rs:638: "must atomically replace"; `rename_destroys`,
  `RenameReplaces`).
- rmdir sweeps numbers of siblings whose names begin like the folder's
  (fuse/cache.rs:231; `names_swept`, `SweepsOnlyUnder`).

Writes and uploads:

- getxattr on a quiet path may join a hash begun before the last write
  (`WriteHandles!DigestIsCurrent`; fuse/fs/xattr.rs:120), and a write or truncate that
  registers between the look for one and the request has the file hashed as it changes,
  though fuse/fs/xattr.rs:94 rules out "the digest of a half-written file"
  (`WriteHandles!DigestOfWhole`). Unmount does not wait for
  truncates and moves (fuse/fs/callbacks.rs:45). An upload invalidates the inode fixed at
  open (fuse/fs/transfer.rs:281). A move across folders deletes a source that was written
  again meanwhile (fuse/fs/transfer.rs:405).
- An upload that may not overwrite clears somebody else's file when it starts over
  (`HttpUpload!NeverClobbers`), and sent again after a lost answer it collides with its
  own (core/client/upload.rs:697). A session that expires during the hash counts as "the
  NAS cannot hash" (core/client/verify.rs:108).
- A spilled write cut short leaves bytes past the length it reports (fuse/spill.rs).

Windows mount:

- Any handle's close removes the pending entry, though it is to go "when the last handle
  to the file is closed" (`WinFs!EntryUntilLast`; fuse/winfs.rs:228), and takes the
  buffer that another handle's flush is uploading by its path, though
  fuse/spill.rs:324 says every caller holds it (`WinFs!HeldWhileSent`).
- A rename with nothing buffered leaves the old name's entry (flush's comment has it
  removed there); whoever opens the old name shares a renamed file's buffer, and a write
  made under it while the new name's flush sends that buffer goes missing.
  `WinFs!Accounted` excuses those writes, each by its number (`crossed`), and no others. A
  handle keeps its old path after a
  rename, so what it writes later is uploaded to the old name.
- A write that fails leaves an empty buffer that close uploads over the file, and a write
  to part of an existing file is uploaded alone. A rename whose upload fails drops the
  buffer. A file deleted on cleanup comes back with close's upload.

Downloads, listings, resizing:

- A download that goes by HTTP while another streams the same file by SMB shares its
  `.part` and may put a partial one in place (`Downloads!NeverPartial`;
  core/client/download.rs:13); so may a second download of the C ABI's, the last call of
  one that was dropped, and the C ABI's pieces when the remote file is replaced between
  two of them. `Downloads!OldOrWhole`, which is checked, says nothing of a file that was
  put in place by one so met; it does of every meeting of downloads over SMB.
- Each entry removed from before the offset of a listing that is paged hides one that was
  there all along (`Pages!NeverOmits`; core/client/metadata.rs:24: "omits files is worse
  than one that errors"; the total is looked at, but a create makes up for a removal).
  What is checked is that no more are hidden than that (`Pages!NothingOmitted`).

Reads:

- A reader woken by an aborted speculation is told of "a real network error"
  (`ReadCache!OnlyRealErrors`). A download begun before a write may put its block back
  after the invalidation (fuse/cache.rs:441). end_read looks and aborts in two steps
  (fuse/fs/mod.rs:505). A listing fetched before the mount's own change is cached after
  it (`Listings!OwnChangesShow`; fuse/cache.rs:174).

Names and moves:

- rmdir, and a move onto a folder, delete folders that are not empty
  (`Moves!OnlyEmptyGoes`; core/transport.rs:450). NotSupported after a rename that worked
  and a move that did not (`Moves!NotSupportedMovedNothing`; core/client/moves.rs:65). An
  SMB rename whose answer is lost is tried again over HTTP, where the source is gone.
- After an upload or a rename the kernel's number is forgotten, so an open file answers
  ENOENT; a renamed folder's children keep their old paths; a file created and not
  uploaded is ENOENT once its entry ages out; and a getattr that enters an old number
  again leaves two for one path.

Sessions, legs, teardown, log, walks:

- A new session's id is used before the probe settled how it travels
  (`Login!SettledBeforeUse`; core/client/session.rs:265). The belt spaces reservations,
  not requests (`Throttle!StartsSpaced`; core/client/throttle.rs:17). Two trials of one
  breaker may be out at once, which does no harm.
- A login that was waiting for the tunnel's lock when another was refused goes ahead
  (`Legs!RefusalIsFinal`; connect/lib.rs:535). The watch may adopt a tunnel over a direct
  leg that landed meanwhile (fuse/legs.rs:151).
- An unmount that runs out of patience returns with the volume attached
  (`MountEnds!GoneOnReturn`; ffi/lib.rs:46).
- A rotation that moved the active file and could not open a new one writes on to the
  moved file, later to one without a name (`LogFile!NeverSilent`; fuse/logfile.rs:318). A
  log callback may be running when the call that clears it returns
  (`LogFile!CalledWhileRegistered`; ffi/logging.rs:31).
- An open queued before its process ended is counted to the process that has the id by
  then, which may be stopped for it (`Walks!NeverASignal`; fuse/walks.rs:44). A walk
  stopped while it is announced can have its end logged and no start.

SMB:

- A second strike when the answer a caller queued for was of a link that was down
  (`AuthGate!OneStrike`; smb/probe.rs:292). An operation that failed on the old session
  marks the adopted one for rebuilding (`SmbSession!OnlyDeadRebuilt`), and a dropped
  rebuild leaves the mark cleared. A read that picked its lane before the lane's
  retirement opens a handle after the drain (`ReadLanes!NothingUntracked`;
  smb/transport.rs:1490); a write's forget reads the live list, then the draining one, and a
  lane that has left the first and not joined the second by then keeps its handle, though
  smb/pool.rs:272 has every one reached (`ReadLanes!AllAreReached`); and a failing opener of a retired generation counts against
  the present one. A delete forgets no handles (smb/transport.rs:2678), and the clean-up
  of a new file that failed deletes by name. A create that was carried out and not
  answered leaves an empty file under the new name, or an empty `.part`
  (smb/transport.rs:1799, 1849), though what fails is to be removed
  (`SmbWrites!FailureRemoves`; smb/transport.rs:1778).

VPN:

- The soft reset of an abandoned attempt that its successor's overtakes replaces the
  handshake under way, whose id then counts as abandoned (`VpnKeys!LiveHandshakeKept`,
  `AttemptHeard`; openvpn/channel.rs:298). A peer's reset ends a stream as cleanly as a
  goodbye (`TunnelStream!CleanIsOrderly`; openvpn/stack.rs:350). connect gives up after
  30 s, before the 60 s a push request may take.
- A port "comes round again only after every other one has" (openvpn/mux.rs:182): not that
  of a connection that outlived the claims of the others and closes as the cursor reaches
  it, which is handed out at once, with packets of the old connection perhaps still under
  way (`TunnelMux!GivenUpLast`).

Taken as given: a connect that fails has its route removed before the cursor comes round
to the port; a handshake older than the primary's own has nothing under way that still
decrypts (`VpnKeys!Arrives`; openvpn/channel.rs:161 takes it so, too); and after a power
cut the names of the log's files are as the rotation left them, which the code leaves to
the file system, for it syncs the files and never their directory (`LogFile!PowerCut`).

## 6. Not modelled, and the plan

Out of the models for good: encodings, cryptography, chunking arithmetic, path
conversion, error mapping and formatting, which have no state and no interleaving; the
Python bindings and the desktop application, which add no protocol to the calls they
make; smoltcp, TLS, the SMB library, FUSE, WinFsp and DSM, which are external and modelled
by how the code uses them. What each partly modelled component leaves out is in its
note in `PROJECT.json`.

What could still be added, in the order of its worth:

1. Proofs of `VpnKeys`, `WinFs!EntriesHaveMakers`, `Downloads`, `Legs`,
   `Names!InodeIsOnePath`, and the types of `HttpUpload`.
2. `Moves` as a refinement of a rename in one step.
3. The macOS mount (WebDAV), a third front end over the same client calls.
4. What a cached block says (`ReadCache` has it there or not), for the stale blocks of
   section 5.
