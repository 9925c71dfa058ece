----------------------------- MODULE WriteHandles -----------------------------
(***************************************************************************)
(* The write half of the Linux mount (synology-filestation-fuse, src/fs):  *)
(* open handles and where their writes go; the transfers that flush,       *)
(* release, truncate, cross-directory move and unmount run on the Tokio    *)
(* runtime; and the MD5 attribute that has to keep out of their way.       *)
(*                                                                         *)
(* A handle's bytes are abstracted to how many of its writes are where:    *)
(* acknowledged to the application, in the sink, on the NAS for good.  A   *)
(* flag of WriteBuffer is the set of handles that have it.  A Tokio task   *)
(* is a worker, whose pc is the await it is at: a step is the code between *)
(* two awaits.  A callback that blocks its event-loop thread (open, write) *)
(* is one step, since nothing can see its middle: the handle's lock is     *)
(* held, or the handle is not in the map yet.  Cache invalidations are not *)
(* here: no decision of this module reads the caches.                      *)
(***************************************************************************)
EXTENDS Naturals, FiniteSets

CONSTANTS Fh,            \* file handles; an id is never used twice
          Path,          \* NAS paths
          Task,          \* runtime tasks that may be alive at once
          Unmounter,     \* the thread that runs destroy
          None,          \* no task, no handle, no path
          MaxTransfers,  \* MAX_CONCURRENT_TRANSFERS
          MaxHashes,     \* MAX_CONCURRENT_HASHES
          MaxWrites      \* bound: writes acknowledged per handle

ASSUME HandlesAssumption ==
    /\ Unmounter \notin Task
    /\ None \notin Task \cup {Unmounter} \cup Fh \cup Path
    /\ MaxTransfers \in Nat \ {0}
    /\ MaxHashes \in Nat \ {0}
    /\ MaxWrites \in Nat

VARIABLES open,       \* handles in the map
          released,   \* handles whose release callback has come
          path,       \* OpenHandle::path, fixed at open
          sink,       \* WriteSink: a stream, a stream taken or abandoned, a buffer
          dirty, newFile, streamed, broken,   \* WriteBuffer's flags
          lock,       \* who holds the buffer's mutex
          held,       \* writes the sink holds
          acked,      \* history: writes that write(2) reported done
          landed,     \* history: of those, how many the NAS has for good
          reported,   \* history: handles on which some call has returned an error
          task,       \* what each worker is doing
          wired,      \* workers holding a transfer permit
          hashers,    \* tasks holding a hash slot
          hashing,    \* the task leading the hash of each path
          tainted,    \* history: paths changed since the hash running on them began
          wrote,      \* history: handles written to since the hash that is about to
                      \* begin on their path found them quiet
          rewrote,    \* history: of each path, the tasks that have registered a rewrite
                      \* since that hash looked for one
          mounted,    \* destroy: not begun, running, over
          todo        \* handles destroy still has to flush

handleVars == <<open, released, path, sink, dirty, newFile, streamed, broken,
                lock, held, acked, landed, reported>>
lateVars == <<wrote, rewrote>>
hashVars == <<hashers, hashing, tainted, lateVars>>
mountVars == <<mounted, todo>>
vars == <<handleVars, task, wired, hashVars, mountVars>>

Worker == Task \cup {Unmounter}
Uploads == {"flush", "release", "destroy"}
Rewrites == {"truncate", "move"}

Job == [kind : Uploads \cup Rewrites \cup {"hash", "none"},
        pc   : {"idle", "lock", "permit", "wire",                     \* uploads
                "spawned", "info", "copy", "down", "copied", "up", "delete",
                "asked", "join", "wait", "slot", "looked", "quiet", "md5"},  \* hashes
        fh   : Fh \cup {None},       \* the handle of an upload
        on   : SUBSET Path,          \* the paths of a truncate, a move or a hash
        sent : Nat]                  \* the writes in an upload's payload

Idle == [kind |-> "none", pc |-> "idle", fh |-> None, on |-> {}, sent |-> 0]

TypeOK ==
    /\ open \subseteq Fh /\ released \subseteq Fh
    /\ path \in [Fh -> Path \cup {None}]
    /\ sink \in [Fh -> {"stream", "taken", "buffer"}]
    /\ dirty \subseteq Fh /\ newFile \subseteq Fh
    /\ streamed \subseteq Fh /\ broken \subseteq Fh /\ reported \subseteq Fh
    /\ lock \in [Fh -> Worker \cup {None}]
    /\ held \in [Fh -> Nat] /\ acked \in [Fh -> Nat] /\ landed \in [Fh -> Nat]
    /\ task \in [Worker -> Job]
    /\ wired \subseteq Worker /\ hashers \subseteq Task
    /\ hashing \in [Path -> Task \cup {None}]
    /\ tainted \subseteq Path
    /\ wrote \subseteq Fh
    /\ rewrote \in [Path -> SUBSET Task]
    /\ mounted \in {"yes", "unmounting", "loggedout"}
    /\ todo \subseteq Fh

Init ==
    /\ open = {} /\ released = {}
    /\ path = [f \in Fh |-> None]
    /\ sink = [f \in Fh |-> "buffer"]
    /\ dirty = {} /\ newFile = {} /\ streamed = {} /\ broken = {} /\ reported = {}
    /\ lock = [f \in Fh |-> None]
    /\ held = [f \in Fh |-> 0]
    /\ acked = [f \in Fh |-> 0]
    /\ landed = [f \in Fh |-> 0]
    /\ task = [w \in Worker |-> Idle]
    /\ wired = {} /\ hashers = {}
    /\ hashing = [p \in Path |-> None]
    /\ tainted = {}
    /\ wrote = {} /\ rewrote = [p \in Path |-> {}]
    /\ mounted = "yes" /\ todo = {}

-----------------------------------------------------------------------------
(* What is still being written: the Rewriting guards, and Transfers::busy, which  *)
(* looks for them and then, under another lock, at the open handles.              *)

\* Mutant: the guard is taken when the task first runs, not in the callback.
Rewritten_OnceRunning(p) ==
    \E w \in Worker : task[w].kind \in Rewrites /\ task[w].pc # "spawned" /\ p \in task[w].on

\* A truncate or a move registers its paths in the callback, before its task is
\* spawned, and holds them until it has replied.
Rewritten(p) == \E w \in Worker : task[w].kind \in Rewrites /\ p \in task[w].on

\* A handle whose lock cannot be had is mid-upload, and counts as busy.
HandlesBusy(p) ==
    \E f \in open : path[f] = p /\ (lock[f] # None \/ f \in dirty \cup broken)

\* Task t asks for the digest of p, and is at stage s of it.
Asking(t, p, s) == task[t].kind = "hash" /\ task[t].on = {p} /\ task[t].pc = s

\* The stages of the task that leads the hash of p.
Leads(t, p) == \E s \in {"slot", "looked", "quiet", "md5"} : Asking(t, p, s)

\* A write to f comes behind the look a hash has had at the handles of its path.
WritesLate(f) ==
    /\ wrote' = IF \E t \in Task : Asking(t, path[f], "quiet") THEN wrote \cup {f} ELSE wrote
    /\ UNCHANGED rewrote

-----------------------------------------------------------------------------
(* open, create and write, on the event-loop threads. *)

\* open and create, with add_write_buffer and open_sink.  A created file is new,
\* and dirty from birth.  A handle that may write streams if a backend takes
\* ranges; any other gets a buffer.
Open(f, p, new, s) ==
    /\ mounted = "yes" /\ path[f] = None
    /\ open' = open \cup {f}
    /\ path' = [path EXCEPT ![f] = p]
    /\ sink' = [sink EXCEPT ![f] = s]
    /\ dirty' = IF new THEN dirty \cup {f} ELSE dirty
    /\ newFile' = IF new THEN newFile \cup {f} ELSE newFile
    /\ UNCHANGED <<released, streamed, broken, lock, held, acked, landed, reported>>
    /\ UNCHANGED <<task, wired, hashVars, mountVars>>

\* Mutant: a write does not wait for the upload that holds the buffer's lock.
MayWrite_Unlocked(f) ==
    /\ mounted = "yes" /\ f \in open \ released
    /\ acked[f] < MaxWrites

\* The handle is open, and the write has the lock of its buffer.
MayWrite(f) ==
    /\ mounted = "yes" /\ f \in open \ released
    /\ lock[f] = None
    /\ acked[f] < MaxWrites

\* write_buffer_at where the sink takes the data.
Written(f) ==
    /\ MayWrite(f)
    /\ sink[f] # "taken"
    /\ streamed' = IF sink[f] = "stream" THEN streamed \cup {f} ELSE streamed
    /\ dirty' = dirty \cup {f}
    /\ held' = [held EXCEPT ![f] = @ + 1]
    /\ acked' = [acked EXCEPT ![f] = @ + 1]
    /\ UNCHANGED <<open, released, path, sink, newFile, broken, lock, landed, reported>>
    /\ WritesLate(f)
    /\ UNCHANGED <<task, wired, hashers, hashing, tainted, mountVars>>

\* A stream that failed can still be replaced by a buffer: the file is new and
\* none of it is on the server.
Replaceable(f) == sink[f] = "stream" /\ f \in newFile \ streamed

\* write_buffer_at where the stream fails and a fresh buffer takes this write.
FallBack(f) ==
    /\ MayWrite(f)
    /\ Replaceable(f)
    /\ sink' = [sink EXCEPT ![f] = "buffer"]
    /\ dirty' = dirty \cup {f}
    /\ held' = [held EXCEPT ![f] = 1]
    /\ acked' = [acked EXCEPT ![f] = @ + 1]
    /\ UNCHANGED <<open, released, path, newFile, streamed, broken, lock, landed, reported>>
    /\ WritesLate(f)
    /\ UNCHANGED <<task, wired, hashers, hashing, tainted, mountVars>>

\* write_buffer_at where the write fails and the handle is abandoned: the stream
\* failed and cannot be replaced, or a spill failed (the fresh one, perhaps).
WriteBreaks(f) ==
    /\ MayWrite(f)
    /\ sink[f] # "taken"
    /\ sink' = [sink EXCEPT ![f] =
                  IF @ = "stream" /\ ~ Replaceable(f) THEN "taken" ELSE "buffer"]
    /\ broken' = broken \cup {f}
    /\ reported' = reported \cup {f}
    /\ UNCHANGED <<open, released, path, dirty, newFile, streamed, lock, held, acked, landed>>
    /\ UNCHANGED <<task, wired, hashVars, mountVars>>

\* write_buffer_at on a stream already closed: an error, and nothing else.
WriteRefused(f) ==
    /\ MayWrite(f)
    /\ sink[f] = "taken"
    /\ reported' = reported \cup {f}
    /\ UNCHANGED <<open, released, path, sink, dirty, newFile, streamed, broken,
                   lock, held, acked, landed>>
    /\ UNCHANGED <<task, wired, hashVars, mountVars>>

-----------------------------------------------------------------------------
(* Uploads: Transfers::upload, as flush, release and destroy run it. *)

Begin(w, k, f) ==
    /\ task[w] = Idle
    /\ task' = [task EXCEPT ![w] = [Idle EXCEPT !.kind = k, !.pc = "lock", !.fh = f]]

Uploading(w, f) == task[w].kind \in Uploads /\ task[w].fh = f

\* Once destroy has logged out the process is gone, and its tasks with it.
Alive == mounted # "loggedout"

\* A close(2) of one of the descriptors on the handle.
Flush(t, f) ==
    /\ mounted = "yes" /\ f \in open \ released
    /\ Begin(t, "flush", f)
    /\ UNCHANGED <<handleVars, wired, hashVars, mountVars>>

\* The last descriptor is gone: every flush on the handle has been answered.
Release(t, f) ==
    /\ mounted = "yes" /\ f \in open \ released
    /\ \A u \in Task : ~ Uploading(u, f)
    /\ Begin(t, "release", f)
    /\ released' = released \cup {f}
    /\ UNCHANGED <<open, path, sink, dirty, newFile, streamed, broken, lock, held,
                   acked, landed, reported>>
    /\ UNCHANGED <<wired, hashVars, mountVars>>

\* The reply, and what the closure that sends it does besides: release takes the
\* handle out of the map whatever the outcome, destroy turns to its next handle.
Reply(w, f, outcome) ==
    /\ task' = [task EXCEPT ![w] = Idle]
    /\ open' = IF task[w].kind = "release" THEN open \ {f} ELSE open
    /\ todo' = IF task[w].kind = "destroy" THEN todo \ {f} ELSE todo
    /\ reported' = IF outcome = "err" THEN reported \cup {f} ELSE reported

\* The upload has the lock of its handle's buffer.
AtLock(w, f) == Alive /\ Uploading(w, f) /\ task[w].pc = "lock" /\ lock[f] = None

\* An earlier write failed, or no payload can be made of the buffer (its spill
\* file cannot be flushed): an error.  A clean buffer: nothing to do.
AnswerAtOnce(w, f) ==
    /\ AtLock(w, f)
    /\ \/ f \in broken /\ Reply(w, f, "err")
       \/ f \notin broken \cup dirty /\ Reply(w, f, "ok")
       \/ f \in dirty \ broken /\ sink[f] = "buffer" /\ Reply(w, f, "err")
    /\ UNCHANGED <<released, path, sink, dirty, newFile, streamed, broken, lock, held,
                   acked, landed>>
    /\ UNCHANGED <<wired, hashVars, mounted>>

\* slot.take() or payload_for: what there is to send, settled under the lock, which
\* is kept until the transfer ends.
TakePayload(w, f) ==
    /\ AtLock(w, f)
    /\ f \in dirty \ broken
    /\ sink[f] # "taken"
    /\ lock' = [lock EXCEPT ![f] = w]
    /\ sink' = [sink EXCEPT ![f] = IF @ = "stream" THEN "taken" ELSE @]
    /\ task' = [task EXCEPT ![w].pc = "permit", ![w].sent = held[f]]
    /\ UNCHANGED <<open, released, path, dirty, newFile, streamed, broken, held, acked,
                   landed, reported>>
    /\ UNCHANGED <<wired, hashVars, mountVars>>

\* Finish::Close(None): an earlier upload took the stream.  There is nothing to
\* wait for, and the handle counts as durable.
NothingToClose(w, f) ==
    /\ AtLock(w, f)
    /\ f \in dirty \ broken
    /\ sink[f] = "taken"
    /\ dirty' = dirty \ {f}
    /\ newFile' = newFile \ {f}
    /\ Reply(w, f, "ok")
    /\ UNCHANGED <<released, path, sink, streamed, broken, lock, held, acked, landed>>
    /\ UNCHANGED <<wired, hashVars, mounted>>

\* A transfer waits for one of the permits.
TakePermit(w) ==
    /\ Cardinality(wired) < MaxTransfers
    /\ wired' = wired \cup {w}

Send(w) ==
    /\ Alive /\ task[w].pc = "permit"
    /\ TakePermit(w)
    /\ task' = [task EXCEPT ![w].pc = "wire"]
    /\ UNCHANGED <<handleVars, hashVars, mountVars>>

\* Mutant: the lock is not let go on the way out.
Failed_KeepsLock(w, f) ==
    /\ Alive /\ Uploading(w, f) /\ task[w].pc = "wire"
    /\ wired' = wired \ {w}
    /\ Reply(w, f, "err")
    /\ UNCHANGED <<released, path, sink, dirty, newFile, streamed, broken, lock, held,
                   acked, landed>>
    /\ UNCHANGED <<hashVars, mounted>>

\* The close or the upload failed: still dirty, for release to retry.
Failed(w, f) ==
    /\ Alive /\ Uploading(w, f) /\ task[w].pc = "wire"
    /\ lock' = [lock EXCEPT ![f] = None]
    /\ wired' = wired \ {w}
    /\ Reply(w, f, "err")
    /\ UNCHANGED <<released, path, sink, dirty, newFile, streamed, broken, held, acked, landed>>
    /\ UNCHANGED <<hashVars, mounted>>

\* What a hash under way is reading has changed on the NAS.
Taint(ps) == tainted' = tainted \cup
                 {p \in Path \cap ps : hashing[p] # None /\ task[hashing[p]].pc = "md5"}

\* The NAS has it: clean, and no longer new.
Landed(w, f) ==
    /\ Alive /\ Uploading(w, f) /\ task[w].pc = "wire"
    /\ landed' = [landed EXCEPT ![f] = task[w].sent]
    /\ dirty' = dirty \ {f}
    /\ newFile' = newFile \ {f}
    /\ lock' = [lock EXCEPT ![f] = None]
    /\ wired' = wired \ {w}
    /\ Taint({path[f]})
    /\ Reply(w, f, "ok")
    /\ UNCHANGED <<released, path, sink, streamed, broken, held, acked>>
    /\ UNCHANGED <<hashers, hashing, lateVars, mounted>>

FirstStep(w, f) == AnswerAtOnce(w, f) \/ NothingToClose(w, f) \/ TakePayload(w, f)
LastStep(w, f) == Failed(w, f) \/ Landed(w, f)
-----------------------------------------------------------------------------
(* destroy: flush every handle, one after the other, then log out. *)

\* The keys of the map as the unmount begins; the kernel calls nothing more.
Unmount ==
    /\ mounted = "yes"
    /\ mounted' = "unmounting"
    /\ todo' = open
    /\ UNCHANGED <<handleVars, task, wired, hashVars>>

\* Mutant: a handle that is locked is left to whoever is uploading it.
DestroyNext_SkipLocked(f) ==
    /\ mounted = "unmounting" /\ f \in todo
    /\ task[Unmounter] = Idle
    /\ IF f \in open /\ lock[f] = None
       THEN Begin(Unmounter, "destroy", f) /\ UNCHANGED todo
       ELSE todo' = todo \ {f} /\ UNCHANGED task
    /\ UNCHANGED <<handleVars, wired, hashVars, mounted>>

\* finish_upload of the next handle.  One that a release has taken out of the map
\* since is unknown: there is nothing to do.
DestroyNext(f) ==
    /\ mounted = "unmounting" /\ f \in todo
    /\ task[Unmounter] = Idle
    /\ IF f \in open
       THEN Begin(Unmounter, "destroy", f) /\ UNCHANGED todo
       ELSE todo' = todo \ {f} /\ UNCHANGED task
    /\ UNCHANGED <<handleVars, wired, hashVars, mounted>>

Logout ==
    /\ mounted = "unmounting" /\ todo = {}
    /\ mounted' = "loggedout"
    /\ UNCHANGED <<handleVars, task, wired, hashVars, todo>>

-----------------------------------------------------------------------------
(* Truncate and cross-directory move. *)

\* setattr with a size, and rename to another directory: start_truncate and
\* start_move_across_dirs.  A move may have an end that no handle is on.
StartRewrite(t, k, ps) ==
    /\ mounted = "yes" /\ task[t] = Idle
    /\ task' = [task EXCEPT ![t] = [Idle EXCEPT !.kind = k, !.pc = "spawned", !.on = ps]]
    /\ rewrote' = [p \in Path |->
                      IF p \in ps /\ \E u \in Task : Asking(u, p, "looked") \/ Asking(u, p, "quiet")
                      THEN rewrote[p] \cup {t} ELSE rewrote[p]]
    /\ UNCHANGED <<handleVars, wired, hashers, hashing, tainted, wrote, mountVars>>

Goes(t, from, to) ==
    /\ Alive
    /\ task[t].pc = from
    /\ task' = [task EXCEPT ![t] = IF to = "idle" THEN Idle ELSE [@ EXCEPT !.pc = to]]

\* The permit of Transfers::truncate, of move_or_copy, and of each half of
\* copy_across_dirs.
RewriteOnWire(t) ==
    /\ task[t].kind \in Rewrites
    /\ Goes(t, "spawned", "wire") \/ Goes(t, "copy", "down") \/ Goes(t, "copied", "up")
    /\ TakePermit(t)
    /\ UNCHANGED <<handleVars, hashVars, mountVars>>

\* The call under way ends, and its permit is given back.  It fails, and so does
\* the operation; or it succeeds, and truncate has get_info left to do, a move is
\* over, a copy goes from its download to its upload to deleting the original; or
\* the NAS will not move the file (NotSupported), which is then copied.
RewriteCall(t) ==
    /\ t \in wired /\ task[t].kind \in Rewrites
    /\ wired' = wired \ {t}
    /\ \/ \E s \in {"wire", "down", "up"} : Goes(t, s, "idle") /\ UNCHANGED tainted
       \/ task[t].kind = "truncate" /\ Goes(t, "wire", "info") /\ Taint(task[t].on)
       \/ task[t].kind = "move" /\ Goes(t, "wire", "idle") /\ Taint(task[t].on)
       \/ task[t].kind = "move" /\ Goes(t, "wire", "copy") /\ UNCHANGED tainted
       \/ Goes(t, "down", "copied") /\ UNCHANGED tainted
       \/ Goes(t, "up", "delete") /\ Taint(task[t].on)
    /\ UNCHANGED <<handleVars, hashers, hashing, lateVars, mountVars>>

\* The calls made without a permit: a folder found out before it is copied, which
\* ends the move; get_info after a truncate; the deletion of a copied original,
\* whose failure is only logged.
RewriteEnds(t) ==
    /\ \/ Goes(t, "copy", "idle") /\ UNCHANGED tainted
       \/ Goes(t, "info", "idle") /\ UNCHANGED tainted
       \/ Goes(t, "delete", "idle") /\ Taint(task[t].on)
    /\ UNCHANGED <<handleVars, wired, hashers, hashing, lateVars, mountVars>>

-----------------------------------------------------------------------------
(* getxattr user.synology.md5: start_getxattr. *)

\* The callback looks for a rewrite of the path.  Answered at once where there is one,
\* which changes no state.
AskDigest(t, p) ==
    /\ mounted = "yes" /\ task[t] = Idle
    /\ ~ Rewritten(p)
    /\ task' = [task EXCEPT ![t] = [Idle EXCEPT !.kind = "hash", !.pc = "asked", !.on = {p}]]
    /\ UNCHANGED <<handleVars, wired, hashVars, mountVars>>

\* It looks at the handles, and answers or spawns the task.
Asked(t, p) ==
    /\ Alive /\ Asking(t, p, "asked")
    /\ IF HandlesBusy(p)
       THEN task' = [task EXCEPT ![t] = Idle]
       ELSE task' = [task EXCEPT ![t].pc = "join"]
    /\ UNCHANGED <<handleVars, wired, hashVars, mountVars>>

\* Join the hash already running for this path, or lead one.
JoinOrLead(t, p) ==
    /\ Alive /\ Asking(t, p, "join")
    /\ IF hashing[p] = None
       THEN /\ hashing' = [hashing EXCEPT ![p] = t]
            /\ task' = [task EXCEPT ![t].pc = "slot"]
       ELSE /\ task' = [task EXCEPT ![t].pc = "wait"]
            /\ UNCHANGED hashing
    /\ UNCHANGED <<handleVars, wired, hashers, tainted, lateVars, mountVars>>

\* What came behind the looks at p is of no more interest.
LooksOver(p) ==
    /\ wrote' = {f \in wrote : path[f] # p}
    /\ rewrote' = [rewrote EXCEPT ![p] = {}]

\* Mutant: only the leader is answered.
AnswerAll_LeaderOnly(p) ==
    /\ task' = [task EXCEPT ![hashing[p]] = Idle]
    /\ hashing' = [hashing EXCEPT ![p] = None]
    /\ tainted' = tainted \ {p}
    /\ LooksOver(p)

\* Everyone waiting on the path is answered with the leader.
AnswerAll(p) ==
    /\ task' = [w \in Worker |->
                  IF Asking(w, p, "wait") \/ Leads(w, p) THEN Idle ELSE task[w]]
    /\ hashing' = [hashing EXCEPT ![p] = None]
    /\ tainted' = tainted \ {p}
    /\ LooksOver(p)

\* Mutant: hashes share the transfer permits.
HashSlot_Shared(t, p) ==
    /\ Alive /\ Asking(t, p, "slot")
    /\ ~ Rewritten(p)
    /\ TakePermit(t)
    /\ task' = [task EXCEPT ![t].pc = "looked"]
    /\ UNCHANGED <<handleVars, hashVars, mountVars>>

\* A hash slot.  The wait for it can be long, so the path is looked at again, for a
\* rewrite first.
HashSlot(t, p) ==
    /\ Alive /\ Asking(t, p, "slot")
    /\ Cardinality(hashers) < MaxHashes
    /\ IF Rewritten(p)
       THEN AnswerAll(p) /\ UNCHANGED hashers
       ELSE /\ hashers' = hashers \cup {t}
            /\ task' = [task EXCEPT ![t].pc = "looked"]
            /\ UNCHANGED <<hashing, tainted, lateVars>>
    /\ UNCHANGED <<handleVars, wired, mountVars>>

\* Mutant: a handle without its lock to be had is passed over.
HashLook_Unlocked(t, p) ==
    /\ Alive /\ Asking(t, p, "looked")
    /\ IF \E f \in open : path[f] = p /\ lock[f] = None /\ f \in dirty \cup broken
       THEN AnswerAll(p) /\ hashers' = hashers \ {t}
       ELSE task' = [task EXCEPT ![t].pc = "quiet"] /\ UNCHANGED hashVars
    /\ UNCHANGED <<handleVars, wired, mountVars>>

\* And then for handles with something on its way.
HashLook(t, p) ==
    /\ Alive /\ Asking(t, p, "looked")
    /\ IF HandlesBusy(p)
       THEN AnswerAll(p) /\ hashers' = hashers \ {t}
       ELSE task' = [task EXCEPT ![t].pc = "quiet"] /\ UNCHANGED hashVars
    /\ UNCHANGED <<handleVars, wired, mountVars>>

\* The request goes out: what registered or was written since the looks does not stop it.
HashStarts(t, p) ==
    /\ Alive /\ Asking(t, p, "quiet")
    /\ task' = [task EXCEPT ![t].pc = "md5"]
    /\ LooksOver(p)
    /\ UNCHANGED <<handleVars, wired, hashers, hashing, tainted, mountVars>>

\* The NAS answered, or core's ceiling passed.
HashDone(t, p) ==
    /\ Alive /\ Asking(t, p, "md5")
    /\ AnswerAll(p)
    /\ hashers' = hashers \ {t}
    /\ UNCHANGED <<handleVars, wired, mountVars>>

-----------------------------------------------------------------------------
Handle(f) ==
    \/ \E p \in Path, new \in BOOLEAN, s \in {"stream", "buffer"} : Open(f, p, new, s)
    \/ Written(f) \/ FallBack(f) \/ WriteBreaks(f) \/ WriteRefused(f)
    \/ \E t \in Task : Flush(t, f) \/ Release(t, f)

Transfer(w) == Send(w) \/ \E f \in Fh : FirstStep(w, f) \/ LastStep(w, f)

Rewrite(t) ==
    \/ \E k \in Rewrites, ps \in SUBSET Path : ps # {} /\ StartRewrite(t, k, ps)
    \/ RewriteOnWire(t) \/ RewriteCall(t) \/ RewriteEnds(t)

Digest(t) ==
    \E p \in Path :
        \/ AskDigest(t, p) \/ Asked(t, p) \/ JoinOrLead(t, p)
        \/ HashSlot(t, p) \/ HashLook(t, p) \/ HashStarts(t, p) \/ HashDone(t, p)

Next ==
    \/ \E f \in Fh : Handle(f) \/ DestroyNext(f)
    \/ \E w \in Worker : Transfer(w)
    \/ \E t \in Task : Rewrite(t) \/ Digest(t)
    \/ Unmount \/ Logout

Spec == Init /\ [][Next]_vars

\* The runtime polls every task; the calls of an upload, a truncate and a move end
\* (core bounds each); Tokio's mutex and semaphore serve their waiters in turn,
\* which strong fairness of each upload stands for.  Nothing more is needed: not
\* that a hash ever ends, nor that a truncate or a move gets anywhere between its
\* calls.
Fairness ==
    /\ \A w \in Worker :
          /\ SF_vars(\E f \in Fh : FirstStep(w, f))
          /\ SF_vars(Send(w))
          /\ WF_vars(\E f \in Fh : LastStep(w, f))
    /\ \A t \in Task : WF_vars(RewriteCall(t))
    /\ WF_vars(Logout \/ \E f \in Fh : DestroyNext(f))

FairSpec == Spec /\ Fairness

-----------------------------------------------------------------------------
(* Properties. *)

\* An upload holds its handle's lock from the payload to the end of the transfer,
\* nobody else holds one, and none is left behind by a task that has ended.
LockedByItsUpload ==
    \A f \in Fh, w \in Worker :
        (lock[f] = w) <=> (Uploading(w, f) /\ task[w].pc \in {"permit", "wire"})

\* The variables have their types, and every lock has its owner.
WellFormed == TypeOK /\ LockedByItsUpload

\* A getxattr that joined a hash waits on one that a live task leads: it cannot be
\* left in the list of a hash that has been answered.
WaitersAreLed ==
    \A t \in Task, p \in Path :
        Asking(t, p, "wait") => \E u \in Task : Leads(u, p)

\* What close(2) reports: an upload that answers Ok leaves every acknowledged write
\* of its handle on the NAS, however writes, other closes, failures and fallbacks
\* interleave -- unless some call on the handle has already failed.
CloseTruthful ==
    [][\A w \in Worker, f \in Fh :
          (Uploading(w, f) /\ task'[w] = Idle /\ f \notin reported')
              => landed'[f] = acked[f]]_vars

\* "`dirty` is cleared only *after* the upload succeeds, so a failed flush leaves the
\* data buffered for `release` to retry" (Transfers::upload): whatever clears it has
\* landed all that the handle holds, an earlier failure or not.
DirtyUntilLanded ==
    [][\A f \in Fh : f \in dirty \ dirty' => landed'[f] = held[f]]_vars

\* destroy logs out only when no acknowledged write is still on its way: each has
\* landed, or its loss was reported (to the application, or in the log).
UnmountKeepsWrites ==
    mounted = "loggedout" => \A f \in Fh : landed[f] = acked[f] \/ f \in reported

\* "The wait for a slot can be long, and a writer may have started meanwhile": when the
\* request for a digest goes out, every truncate or move that registered before the task,
\* with its slot, looked for one has answered, and every write acknowledged before it
\* looked at the handles has landed, or its loss was reported.  What came behind the looks
\* may be under way: the code has a gap there (DigestOfWhole).
HashStartsQuiet ==
    [][\A t \in Task, p \in Path :
          (task[t].pc # "md5" /\ task'[t].pc = "md5" /\ task[t].on = {p})
              => /\ \A w \in Worker :
                        task[w].kind \in Rewrites /\ p \in task[w].on => w \in rewrote[p]
                 /\ \A f \in open \ reported :
                        path[f] = p => landed[f] = acked[f] \/ f \in wrote]_vars

\* No digest is begun on a half-written file (start_getxattr: "Hashed now, it would be the
\* digest of a half-written file").
DigestOfWhole ==
    [][\A t \in Task, p \in Path :
          (task[t].pc # "md5" /\ task'[t].pc = "md5" /\ task[t].on = {p})
              => /\ ~ Rewritten(p)
                 /\ \A f \in open \ reported : path[f] = p => landed[f] = acked[f]]_vars

\* The attribute is "the digest of a half-written file" never: a caller that finds
\* the path quiet is given a digest begun on what is there now.
DigestIsCurrent ==
    [][\A t \in Task, p \in Path :
          (Asking(t, p, "join") /\ task'[t].pc = "wait") => p \notin tainted]_vars

\* Every close is answered: no order of locks and permits stops it, and no hash that
\* never ends ("a hash never holds up a close()").
CloseAnswered ==
    \A t \in Task :
        (task[t].kind \in Uploads) ~> (task[t].kind \notin Uploads \/ mounted = "loggedout")

\* An unmount ends, whatever is in flight.
UnmountEnds == (mounted = "unmounting") ~> (mounted = "loggedout")
=============================================================================
