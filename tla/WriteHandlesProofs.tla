--------------------------- MODULE WriteHandlesProofs ---------------------------
(***************************************************************************)
(* The safety of WriteHandles, for any handles, paths, tasks, permits,     *)
(* hash slots and number of writes.                                        *)
(***************************************************************************)
EXTENDS WriteHandles, TLAPS

\* Where the tasks can be: an upload is at one of its own three awaits.
UploadsInPlace ==
    \A w \in Worker : task[w].kind \in Uploads => task[w].pc \in {"lock", "permit", "wire"}

\* What the write path keeps true of a handle on which no call has failed.  The
\* sink holds what was acknowledged; a stream not written to has had no write; a
\* clean handle has landed; a stream that was taken and is no longer being closed
\* is clean; the payload in flight is everything acknowledged, because the lock
\* keeps writes out; a handle out of the map, or that destroy is done with, has
\* landed.
HandleSafe(f) ==
    /\ held[f] = acked[f]
    /\ f \notin dirty => landed[f] = acked[f]
    /\ f \notin broken
    /\ sink[f] = "taken" /\ lock[f] = None => f \notin dirty
    /\ \A w \in Worker : lock[f] = w => task[w].sent = acked[f]
    /\ f \notin open => landed[f] = acked[f]
    /\ mounted # "yes" /\ f \notin todo => landed[f] = acked[f]

HandleInv(f) ==
    /\ path[f] = None => acked[f] = 0 /\ f \notin open
    /\ sink[f] = "stream" /\ f \notin streamed => acked[f] = 0
    /\ f \notin reported => HandleSafe(f)

HandlesInv == \A f \in Fh : HandleInv(f)

\* The hash of a path is led by the one task past "join" that does not wait, and
\* a task waits only while there is a leader.
HashLed ==
    \A t \in Task, p \in Path :
        /\ hashing[p] = t <=> Leads(t, p)
        /\ Asking(t, p, "wait") => hashing[p] # None

\* What the looks have found stays so, but for what came behind them: of a task that has
\* looked for rewrites of its path, one that registered before has answered; of a task that
\* has looked at the handles, too, a handle on which no call has failed and that was not
\* written to since has landed.
LooksHold ==
    \A t \in Task, p \in Path :
        /\ Asking(t, p, "looked") \/ Asking(t, p, "quiet") =>
              \A w \in Worker :
                  task[w].kind \in Rewrites /\ p \in task[w].on => w \in rewrote[p]
        /\ Asking(t, p, "quiet") =>
              \A f \in Fh \ (reported \cup wrote) : path[f] = p => landed[f] = acked[f]

-----------------------------------------------------------------------------
(* Types. *)

\* TypeOK is inductive: every callback and every step of a task keeps the handles,
\* the locks, the permits and the hash table in their types.
THEOREM TypeCorrect == Spec => []TypeOK
<1> USE HandlesAssumption
<1>1. Init => TypeOK
  BY DEF Init, TypeOK, Worker, Job, Idle
<1>2. TypeOK /\ [Next]_vars => TypeOK'
  <2> SUFFICES ASSUME TypeOK, [Next]_vars PROVE TypeOK'
    OBVIOUS
  <2> USE DEF TypeOK, Worker, handleVars, hashVars, lateVars, mountVars
  <2>1. ASSUME NEW f \in Fh, NEW p \in Path, NEW new \in BOOLEAN,
               NEW s \in {"stream", "buffer"}, Open(f, p, new, s)
        PROVE  TypeOK'
    BY <2>1 DEF Open
  <2>2. ASSUME NEW f \in Fh, Written(f) \/ FallBack(f) \/ WriteBreaks(f) \/ WriteRefused(f)
        PROVE  TypeOK'
    BY <2>2 DEF Written, FallBack, WriteBreaks, WriteRefused, WritesLate
  <2>3. ASSUME NEW f \in Fh, NEW w \in Worker, NEW k \in Uploads, Begin(w, k, f)
        PROVE  task' \in [Worker -> Job]
    BY <2>3 DEF Begin, Job, Idle, Uploads
  <2>4. ASSUME NEW f \in Fh, NEW t \in Task, Flush(t, f) \/ Release(t, f)
        PROVE  TypeOK'
    BY <2>3, <2>4 DEF Flush, Release, Uploads
  <2>5. ASSUME NEW f \in Fh, DestroyNext(f)
        PROVE  TypeOK'
    BY <2>3, <2>5 DEF DestroyNext, Uploads
  <2>6. Idle \in Job
    BY DEF Idle, Job
  <2>7. ASSUME NEW w \in Worker, NEW f \in Fh,
               AnswerAtOnce(w, f) \/ NothingToClose(w, f) \/ LastStep(w, f)
        PROVE  TypeOK'
    <3>1. task[w].sent \in Nat
      BY DEF Job
    <3>2. /\ dirty' \subseteq Fh /\ newFile' \subseteq Fh
          /\ lock' \in [Fh -> Worker \cup {None}]
          /\ landed' \in [Fh -> Nat]
          /\ wired' \subseteq Worker
          /\ tainted' \subseteq Path
      <4>1. CASE AnswerAtOnce(w, f)
        BY <4>1 DEF AnswerAtOnce
      <4>2. CASE NothingToClose(w, f)
        BY <4>2 DEF NothingToClose
      <4>3. CASE Failed(w, f)
        BY <4>3 DEF Failed
      <4>4. CASE Landed(w, f)
        BY <4>4, <3>1 DEF Landed, Taint
      <4> QED BY <2>7, <4>1, <4>2, <4>3, <4>4 DEF LastStep
    <3>3. /\ open' \subseteq Fh /\ todo' \subseteq Fh /\ reported' \subseteq Fh
          /\ task' \in [Worker -> Job]
      BY <2>6, <2>7 DEF AnswerAtOnce, NothingToClose, LastStep, Failed, Landed, Reply
    <3>4. UNCHANGED <<released, path, sink, streamed, broken, held, acked, hashers,
                      hashing, lateVars, mounted>>
      BY <2>7 DEF AnswerAtOnce, NothingToClose, LastStep, Failed, Landed
    <3> QED BY <3>2, <3>3, <3>4
  <2>8. ASSUME NEW w \in Worker, NEW f \in Fh, TakePayload(w, f)
        PROVE  TypeOK'
    <3>1. task' \in [Worker -> Job]
      BY <2>8 DEF TakePayload, Job
    <3> QED BY <2>8, <3>1 DEF TakePayload
  <2>9. ASSUME NEW w \in Worker, Send(w)
        PROVE  TypeOK'
    <3>1. task' \in [Worker -> Job]
      BY <2>9 DEF Send, Job
    <3> QED BY <2>9, <3>1 DEF Send, TakePermit
  <2>10. CASE Unmount \/ Logout
    BY <2>10 DEF Unmount, Logout
  <2>11. ASSUME NEW t \in Task, NEW k \in Rewrites, NEW ps \in SUBSET Path,
                StartRewrite(t, k, ps)
         PROVE  TypeOK'
    <3>1. task' \in [Worker -> Job]
      BY <2>11 DEF StartRewrite, Job, Idle, Rewrites
    <3>2. rewrote' \in [Path -> SUBSET Task]
      BY <2>11 DEF StartRewrite
    <3> QED BY <2>11, <3>1, <3>2 DEF StartRewrite
  <2>12. ASSUME NEW t \in Task, NEW from,
                NEW to \in {"idle", "wire", "down", "up", "info", "copy", "copied", "delete"},
                Goes(t, from, to)
         PROVE  task' \in [Worker -> Job]
    BY <2>6, <2>12 DEF Goes, Job
  <2>13. ASSUME NEW t \in Task, RewriteOnWire(t) \/ RewriteCall(t) \/ RewriteEnds(t)
         PROVE  TypeOK'
    <3>1. task' \in [Worker -> Job]
      BY <2>12, <2>13 DEF RewriteOnWire, RewriteCall, RewriteEnds
    <3>2. wired' \subseteq Worker
      BY <2>13 DEF RewriteOnWire, RewriteCall, RewriteEnds, TakePermit
    <3>3. tainted' \subseteq Path
      <4>1. task[t].on \subseteq Path
        BY DEF Job
      <4>2. tainted' = tainted \/ Taint(task[t].on)
        BY <2>13 DEF RewriteOnWire, RewriteCall, RewriteEnds
      <4> QED BY <4>1, <4>2 DEF Taint
    <3>4. UNCHANGED <<handleVars, hashers, hashing, lateVars, mountVars>>
      BY <2>13 DEF RewriteOnWire, RewriteCall, RewriteEnds
    <3> QED BY <3>1, <3>2, <3>3, <3>4
  <2>14. ASSUME NEW t \in Task, NEW p \in Path,
                AskDigest(t, p) \/ Asked(t, p) \/ JoinOrLead(t, p)
         PROVE  TypeOK'
    <3>1. task' \in [Worker -> Job]
      <4>1. CASE AskDigest(t, p)
        BY <4>1 DEF AskDigest, Job, Idle
      <4>2. CASE JoinOrLead(t, p)
        BY <4>2 DEF JoinOrLead, Job
      <4>3. CASE Asked(t, p)
        BY <2>6, <4>3 DEF Asked, Job
      <4> QED BY <2>14, <4>1, <4>2, <4>3
    <3>2. hashing' \in [Path -> Task \cup {None}]
      BY <2>14 DEF AskDigest, Asked, JoinOrLead
    <3>3. UNCHANGED <<handleVars, wired, hashers, tainted, lateVars, mountVars>>
      BY <2>14 DEF AskDigest, Asked, JoinOrLead
    <3> QED BY <3>1, <3>2, <3>3
  <2>15. ASSUME NEW p \in Path, AnswerAll(p)
         PROVE  /\ task' \in [Worker -> Job]
                /\ hashing' \in [Path -> Task \cup {None}]
                /\ tainted' \subseteq Path
                /\ wrote' \subseteq Fh /\ rewrote' \in [Path -> SUBSET Task]
    BY <2>6, <2>15 DEF AnswerAll, LooksOver
  <2>16. ASSUME NEW t \in Task, NEW p \in Path,
                HashSlot(t, p) \/ HashLook(t, p) \/ HashStarts(t, p) \/ HashDone(t, p)
         PROVE  TypeOK'
    <3>1. AnswerAll(p) => TypeOK'
      BY <2>15, <2>16 DEF HashSlot, HashLook, HashStarts, HashDone
    <3>2. ~ AnswerAll(p) => TypeOK'
      <4> SUFFICES ASSUME ~ AnswerAll(p) PROVE TypeOK'
        OBVIOUS
      <4>1. task' \in [Worker -> Job]
        BY <2>16 DEF HashSlot, HashLook, HashStarts, HashDone, Job
      <4>2. wrote' \subseteq Fh /\ rewrote' \in [Path -> SUBSET Task]
        BY <2>16 DEF HashSlot, HashLook, HashStarts, HashDone, LooksOver
      <4> QED BY <2>16, <4>1, <4>2 DEF HashSlot, HashLook, HashStarts, HashDone
    <3> QED BY <3>1, <3>2
  <2>17. CASE UNCHANGED vars
    BY <2>17 DEF vars
  <2> QED
    BY <2>1, <2>2, <2>4, <2>5, <2>7, <2>8, <2>9, <2>10, <2>11, <2>13, <2>14, <2>16, <2>17
       DEF Next, Handle, Transfer, FirstStep, Rewrite, Digest
<1> QED BY <1>1, <1>2, PTL DEF Spec

-----------------------------------------------------------------------------
(* Locks. *)

\* A step that starts, moves or ends no upload.
NoUploadMoves ==
    \A w \in Worker : \/ task'[w] = task[w]
                      \/ task[w].kind \notin Uploads /\ task'[w].kind \notin Uploads

\* The callback of a getxattr only has its own task to move.
LEMMA AskingMoves ==
    ASSUME TypeOK, NEW t \in Task, NEW p \in Path, AskDigest(t, p) \/ Asked(t, p)
    PROVE  /\ task[t].kind \in {"none", "hash"} /\ task[t].pc \in {"idle", "asked"}
           /\ task'[t].kind \in {"none", "hash"} /\ task'[t].pc \in {"idle", "asked", "join"}
           /\ \A v \in Worker \ {t} : task'[v] = task[v]
<1> USE HandlesAssumption DEF TypeOK, Worker
<1>1. CASE AskDigest(t, p)
  BY <1>1 DEF AskDigest, Idle, Job
<1>2. CASE Asked(t, p)
  <2>1. CASE HandlesBusy(p)
    BY <1>2, <2>1 DEF Asked, Asking, Idle
  <2>2. CASE ~ HandlesBusy(p)
    BY <1>2, <2>2 DEF Asked, Asking, Job
  <2> QED BY <2>1, <2>2
<1> QED BY <1>1, <1>2

\* Truncates, moves and hashes leave the handles, the unmount and the uploads alone.
LEMMA OthersKeepOut ==
    ASSUME TypeOK, UploadsInPlace, NEW t \in Task, Rewrite(t) \/ Digest(t)
    PROVE  NoUploadMoves /\ UNCHANGED <<handleVars, mountVars>>
<1> USE HandlesAssumption DEF TypeOK, Worker, NoUploadMoves
<1>1. Idle.kind = "none" /\ "none" \notin Uploads
  BY DEF Idle, Uploads
<1>2. ASSUME NEW k \in Rewrites, NEW ps \in SUBSET Path, StartRewrite(t, k, ps)
      PROVE  NoUploadMoves
  BY <1>1, <1>2 DEF StartRewrite, Rewrites, Uploads, Job, Idle
<1>3. ASSUME NEW from,
             NEW to \in {"idle", "wire", "down", "up", "info", "copy", "copied", "delete"},
             Goes(t, from, to), task[t].kind \notin Uploads
      PROVE  NoUploadMoves
  BY <1>1, <1>3 DEF Goes, Job
<1>4. ASSUME RewriteOnWire(t) \/ RewriteCall(t)
      PROVE  NoUploadMoves
  BY <1>3, <1>4 DEF RewriteOnWire, RewriteCall, Rewrites, Uploads
<1>5. ASSUME RewriteEnds(t)
      PROVE  NoUploadMoves
  <2>1. task[t].kind \notin Uploads
    BY <1>5 DEF RewriteEnds, Goes, UploadsInPlace
  <2> QED BY <1>3, <1>5, <2>1 DEF RewriteEnds
<1>6. ASSUME NEW p \in Path, AskDigest(t, p) \/ Asked(t, p)
      PROVE  NoUploadMoves
  BY <1>6, AskingMoves DEF Uploads
<1>7. ASSUME NEW p \in Path, NEW s, Asking(t, p, s)
      PROVE  task[t].kind \notin Uploads
  BY <1>7 DEF Asking, Uploads
<1>8. ASSUME NEW p \in Path, AnswerAll(p)
      PROVE  NoUploadMoves
  BY <1>1, <1>8 DEF AnswerAll, Leads, Asking, Uploads
<1>9. ASSUME NEW p \in Path,
             JoinOrLead(t, p) \/ HashSlot(t, p) \/ HashLook(t, p) \/ HashStarts(t, p)
             \/ HashDone(t, p)
      PROVE  NoUploadMoves
  <2>1. task[t].kind \notin Uploads
    BY <1>7, <1>9 DEF JoinOrLead, HashSlot, HashLook, HashStarts, HashDone
  <2>2. CASE JoinOrLead(t, p)
    BY <2>1, <2>2 DEF JoinOrLead, Job
  <2>3. CASE HashSlot(t, p) \/ HashLook(t, p) \/ HashStarts(t, p)
    BY <1>8, <2>1, <2>3 DEF HashSlot, HashLook, HashStarts, Job
  <2>4. CASE HashDone(t, p)
    BY <1>8, <2>4 DEF HashDone
  <2> QED BY <1>9, <2>2, <2>3, <2>4
<1>10. NoUploadMoves
  BY <1>2, <1>4, <1>5, <1>6, <1>9 DEF Rewrite, Digest
<1>11. UNCHANGED <<handleVars, mountVars>>
  BY DEF Rewrite, StartRewrite, RewriteOnWire, RewriteCall, RewriteEnds, Digest,
         AskDigest, Asked, JoinOrLead, HashSlot, HashLook, HashStarts, HashDone
<1> QED BY <1>10, <1>11

LocksInv == LockedByItsUpload /\ UploadsInPlace

\* Every upload leaves its await for the next with the lock where it should be.
LEMMA LocksStep ==
    ASSUME TypeOK, LocksInv, [Next]_vars
    PROVE  LocksInv'
<1> USE HandlesAssumption DEF TypeOK, Worker
<1>1. ASSUME NoUploadMoves, UNCHANGED lock
      PROVE  LocksInv'
  BY <1>1 DEF NoUploadMoves, LocksInv, LockedByItsUpload, UploadsInPlace, Uploading
<1>2. ASSUME UNCHANGED <<task, lock>>
      PROVE  LocksInv'
  BY <1>2 DEF LocksInv, LockedByItsUpload, UploadsInPlace, Uploading
<1>3. ASSUME NEW f \in Fh, NEW w \in Worker, NEW k \in Uploads, Begin(w, k, f),
             UNCHANGED lock
      PROVE  LocksInv'
  <2>1. task'[w].kind = k /\ task'[w].pc = "lock" /\ task'[w].fh = f
    BY <1>3 DEF Begin, Job, Idle
  <2>2. \A v \in Worker \ {w} : task'[v] = task[v]
    BY <1>3 DEF Begin
  <2>3. task[w].kind \notin Uploads
    BY <1>3 DEF Begin, Idle, Uploads
  <2> QED BY <1>3, <2>1, <2>2, <2>3 DEF LocksInv, LockedByItsUpload, UploadsInPlace, Uploading
<1>4. ASSUME NEW w \in Worker, NEW f \in Fh, AnswerAtOnce(w, f) \/ NothingToClose(w, f)
      PROVE  LocksInv'
  <2>1. task' = [task EXCEPT ![w] = Idle] /\ lock' = lock /\ task[w].pc = "lock"
    BY <1>4 DEF AnswerAtOnce, NothingToClose, Reply, AtLock
  <2> QED BY <2>1 DEF LocksInv, LockedByItsUpload, UploadsInPlace, Uploading, Idle, Uploads
<1>5. ASSUME NEW w \in Worker, NEW f \in Fh, LastStep(w, f)
      PROVE  LocksInv'
  <2>1. /\ task' = [task EXCEPT ![w] = Idle]
        /\ lock' = [lock EXCEPT ![f] = None]
        /\ Uploading(w, f) /\ task[w].pc = "wire"
    BY <1>5 DEF LastStep, Failed, Landed, Reply
  <2> QED BY <2>1 DEF LocksInv, LockedByItsUpload, UploadsInPlace, Uploading, Idle, Uploads
<1>6. ASSUME NEW w \in Worker, NEW f \in Fh, TakePayload(w, f)
      PROVE  LocksInv'
  <2>1. /\ task'[w].kind = task[w].kind /\ task'[w].fh = task[w].fh
        /\ task'[w].pc = "permit"
        /\ \A v \in Worker \ {w} : task'[v] = task[v]
    BY <1>6 DEF TakePayload, Job
  <2>2. /\ lock' = [lock EXCEPT ![f] = w] /\ lock[f] = None
        /\ Uploading(w, f) /\ task[w].pc = "lock"
    BY <1>6 DEF TakePayload, AtLock
  <2> QED BY <2>1, <2>2 DEF LocksInv, LockedByItsUpload, UploadsInPlace, Uploading
<1>7. ASSUME NEW w \in Worker, Send(w)
      PROVE  LocksInv'
  <2>1. /\ task'[w].kind = task[w].kind /\ task'[w].fh = task[w].fh
        /\ task[w].pc = "permit" /\ task'[w].pc = "wire"
        /\ \A v \in Worker \ {w} : task'[v] = task[v]
        /\ lock' = lock
    BY <1>7 DEF Send, Job, handleVars
  <2> QED BY <2>1 DEF LocksInv, LockedByItsUpload, UploadsInPlace, Uploading
<1>8. ASSUME NEW f \in Fh, Handle(f) \/ DestroyNext(f)
      PROVE  LocksInv'
  <2>1. ASSUME NEW t \in Task, Flush(t, f) \/ Release(t, f)
        PROVE  LocksInv'
    BY <1>3, <2>1 DEF Flush, Release, handleVars, Uploads
  <2>2. CASE DestroyNext(f)
    BY <1>2, <1>3, <2>2 DEF DestroyNext, handleVars, Uploads
  <2> QED
    BY <1>2, <1>8, <2>1, <2>2
       DEF Handle, Open, Written, FallBack, WriteBreaks, WriteRefused
<1>9. ASSUME NEW t \in Task, Rewrite(t) \/ Digest(t)
      PROVE  LocksInv'
  BY <1>1, <1>9, OthersKeepOut DEF handleVars, LocksInv
<1>10. CASE Unmount \/ Logout
  BY <1>2, <1>10 DEF Unmount, Logout, handleVars
<1>11. CASE UNCHANGED vars
  BY <1>2, <1>11 DEF vars, handleVars
<1> QED
  BY <1>4, <1>5, <1>6, <1>7, <1>8, <1>9, <1>10, <1>11 DEF Next, Transfer, FirstStep

\* The types, the locks and the place of every upload hold together: LocksInv is inductive.
LEMMA LocksInvariant == Spec => []LocksInv
<1>1. Init => LocksInv
  BY HandlesAssumption
     DEF Init, LocksInv, LockedByItsUpload, UploadsInPlace, Uploading, Idle, Uploads, Worker
<1>2. TypeOK /\ LocksInv /\ [Next]_vars => LocksInv'
  BY LocksStep
<1> QED BY <1>1, <1>2, TypeCorrect, PTL DEF Spec

\* Every lock is held by a live upload of its handle that has its payload, and by
\* no one else: no task ends holding one (Transfers::upload).
THEOREM LocksAreOwned == Spec => []WellFormed
BY TypeCorrect, LocksInvariant, PTL DEF WellFormed, LocksInv

-----------------------------------------------------------------------------
(* What happens to the handles. *)

\* A step that leaves the handles, the unmount and every payload in flight alone
\* keeps what is true of each handle.
LEMMA HandlesFramed ==
    ASSUME TypeOK, LocksInv, HandlesInv, UNCHANGED <<handleVars, mountVars>>,
           \A w \in Worker : task[w].kind \in Uploads => task'[w].sent = task[w].sent
    PROVE  HandlesInv'
<1>1. \A f \in Fh, w \in Worker : lock[f] = w => task[w].kind \in Uploads
  BY DEF LocksInv, LockedByItsUpload, Uploading
<1> QED BY <1>1 DEF HandlesInv, HandleInv, HandleSafe, handleVars, mountVars

\* open, create and write.
LEMMA CallbacksKeepHandles ==
    ASSUME TypeOK, LocksInv, HandlesInv, NEW f \in Fh,
           \/ \E p \in Path, new \in BOOLEAN, s \in {"stream", "buffer"} : Open(f, p, new, s)
           \/ Written(f) \/ FallBack(f) \/ WriteBreaks(f) \/ WriteRefused(f)
    PROVE  HandlesInv'
<1> USE HandlesAssumption DEF TypeOK, HandlesInv, HandleInv, HandleSafe
<1>1. task' = task /\ mounted' = mounted /\ lock' = lock /\ mounted = "yes"
  BY DEF Open, Written, FallBack, WriteBreaks, WriteRefused, MayWrite, mountVars
<1>2. \A g \in Fh \ {f} : HandleInv(g)'
  BY <1>1 DEF Open, Written, FallBack, WriteBreaks, WriteRefused, mountVars
<1>3. HandleInv(f)'
  <2>1. ASSUME NEW p \in Path, NEW new \in BOOLEAN, NEW s \in {"stream", "buffer"},
               Open(f, p, new, s)
        PROVE  HandleInv(f)'
    BY <1>1, <2>1 DEF Open
  <2>2. CASE Written(f)
    <3>1. path[f] # None
      BY <2>2 DEF Written, MayWrite
    <3>2. lock[f] \notin Worker
      BY <2>2 DEF Written, MayWrite, Worker
    <3>3. f \in open
      BY <2>2 DEF Written, MayWrite
    <3> QED BY <1>1, <2>2, <3>1, <3>2, <3>3 DEF Written
  <2>3. CASE FallBack(f)
    <3>1. path[f] # None /\ acked[f] = 0 /\ f \in open
      BY <2>3 DEF FallBack, MayWrite, Replaceable
    <3>2. lock[f] \notin Worker
      BY <2>3 DEF FallBack, MayWrite, Worker
    <3> QED BY <1>1, <2>3, <3>1, <3>2 DEF FallBack
  <2>4. CASE WriteBreaks(f)
    <3>1. path[f] # None
      BY <2>4 DEF WriteBreaks, MayWrite
    <3>2. sink'[f] = "stream" => FALSE
      BY <2>4 DEF WriteBreaks, MayWrite
    <3> QED BY <1>1, <2>4, <3>1, <3>2 DEF WriteBreaks
  <2>5. CASE WriteRefused(f)
    BY <1>1, <2>5 DEF WriteRefused
  <2> QED BY <2>1, <2>2, <2>3, <2>4, <2>5
<1> QED BY <1>2, <1>3

\* The reply of an upload that reports success finds its handle's writes on the NAS:
\* the heart of CloseTruthful, of the release that then drops the handle, and of the
\* unmount that then moves on.
LEMMA EndedUploadLanded ==
    ASSUME TypeOK, LocksInv, HandlesInv, NEW w \in Worker, NEW f \in Fh,
           AnswerAtOnce(w, f) \/ NothingToClose(w, f) \/ LastStep(w, f)
    PROVE  f \notin reported' => landed'[f] = acked[f] /\ acked'[f] = acked[f]
<1> USE HandlesAssumption DEF TypeOK, HandlesInv, HandleInv, HandleSafe
<1>1. CASE AnswerAtOnce(w, f)
  BY <1>1 DEF AnswerAtOnce, Reply
<1>2. CASE NothingToClose(w, f)
  BY <1>2 DEF NothingToClose, AtLock, Reply
<1>3. CASE Failed(w, f)
  BY <1>3 DEF Failed, Reply
<1>4. CASE Landed(w, f)
  <2>1. lock[f] = w
    BY <1>4 DEF Landed, LocksInv, LockedByItsUpload
  <2> QED BY <1>4, <2>1 DEF Landed, Reply
<1> QED BY <1>1, <1>2, <1>3, <1>4 DEF LastStep

\* A first step of an upload, which may be its only one, and the failure or success of its
\* transfer leave every handle accounted for.
LEMMA UploadsKeepHandles ==
    ASSUME TypeOK, LocksInv, HandlesInv, NEW w \in Worker, NEW f \in Fh,
           AnswerAtOnce(w, f) \/ NothingToClose(w, f) \/ LastStep(w, f)
    PROVE  HandlesInv'
<1> USE HandlesAssumption DEF TypeOK
<1>1. /\ UNCHANGED <<path, sink, streamed, broken, held, acked, mounted>>
      /\ task' = [task EXCEPT ![w] = Idle]
      /\ open' \in {open, open \ {f}} /\ todo' \in {todo, todo \ {f}}
      /\ dirty' \in {dirty, dirty \ {f}}
      /\ reported' \in {reported, reported \cup {f}}
      /\ lock' \in {lock, [lock EXCEPT ![f] = None]}
      /\ \A g \in Fh \ {f} : landed'[g] = landed[g]
  BY DEF AnswerAtOnce, NothingToClose, LastStep, Failed, Landed, Reply
<1>2. \A g \in Fh : lock'[g] # w
  <2>1. CASE LastStep(w, f)
    <3>1. lock' = [lock EXCEPT ![f] = None] /\ Uploading(w, f)
      BY <2>1 DEF LastStep, Failed, Landed
    <3>2. \A g \in Fh \ {f} : lock[g] # w
      BY <3>1 DEF LocksInv, LockedByItsUpload, Uploading
    <3> QED BY <3>1, <3>2 DEF Worker
  <2>2. CASE AnswerAtOnce(w, f) \/ NothingToClose(w, f)
    <3>1. lock' = lock /\ task[w].pc = "lock"
      BY <2>2 DEF AnswerAtOnce, NothingToClose, AtLock
    <3> QED BY <3>1 DEF LocksInv, LockedByItsUpload
  <2> QED BY <2>1, <2>2
<1>3. \A g \in Fh, v \in Worker : lock'[g] = v => lock[g] = v /\ task'[v] = task[v]
  BY <1>1, <1>2 DEF Worker
<1>4. \A g \in Fh \ {f} : HandleInv(g)'
  BY <1>1, <1>3 DEF HandlesInv, HandleInv, HandleSafe
<1>5. HandleInv(f)'
  <2>1. path'[f] = None => acked'[f] = 0 /\ f \notin open'
    BY <1>1 DEF HandlesInv, HandleInv
  <2>2. sink'[f] = "stream" /\ f \notin streamed' => acked'[f] = 0
    BY <1>1 DEF HandlesInv, HandleInv
  <2>3. ASSUME f \notin reported'
        PROVE  HandleSafe(f)'
    <3>1. HandleSafe(f)
      BY <1>1, <2>3 DEF HandlesInv, HandleInv
    <3>2. landed'[f] = acked'[f]
      BY <2>3, EndedUploadLanded
    <3>3. f \notin dirty'
      BY <2>3, <3>1
         DEF HandleSafe, AnswerAtOnce, NothingToClose, LastStep, Failed, Landed, Reply
    <3> QED BY <1>1, <1>3, <3>1, <3>2, <3>3 DEF HandleSafe
  <2> QED BY <2>1, <2>2, <2>3 DEF HandleInv
<1> QED BY <1>4, <1>5 DEF HandlesInv

\* Taking the payload out of a handle leaves it in flight, with the lock held.
LEMMA PayloadKeepsHandles ==
    ASSUME TypeOK, LocksInv, HandlesInv, NEW w \in Worker, NEW f \in Fh, TakePayload(w, f)
    PROVE  HandlesInv'
<1> USE HandlesAssumption DEF TypeOK, Worker
<1>1. \A g \in Fh : lock[g] # w
  BY DEF TakePayload, AtLock, LocksInv, LockedByItsUpload
<1>2. /\ UNCHANGED <<open, path, dirty, streamed, broken, held, acked, landed, reported>>
      /\ UNCHANGED mountVars
      /\ lock' = [lock EXCEPT ![f] = w]
      /\ \A g \in Fh \ {f} : sink'[g] = sink[g]
      /\ sink'[f] \in {sink[f], "taken"}
  BY DEF TakePayload
<1>3. task'[w].sent = held[f] /\ \A v \in Worker \ {w} : task'[v] = task[v]
  BY DEF TakePayload, Job
<1>4. \A g \in Fh \ {f} : HandleInv(g)'
  BY <1>1, <1>2, <1>3 DEF HandlesInv, HandleInv, HandleSafe, mountVars
<1>5. HandleInv(f)'
  <2>1. lock'[f] = w /\ w # None
    BY <1>2
  <2>2. ASSUME f \notin reported'
        PROVE  HandleSafe(f)'
    <3>1. HandleSafe(f)
      BY <1>2, <2>2 DEF HandlesInv, HandleInv
    <3>2. \A v \in Worker : lock'[f] = v => task'[v].sent = acked'[f]
      BY <1>2, <1>3, <2>1, <3>1 DEF HandleSafe
    <3> QED BY <1>2, <2>1, <3>1, <3>2 DEF HandleSafe, mountVars
  <2> QED BY <1>2, <2>2 DEF HandlesInv, HandleInv
<1> QED BY <1>4, <1>5 DEF HandlesInv

\* destroy drops a handle from its list only once it has landed or its loss was reported.
LEMMA UnmountKeepsHandles ==
    ASSUME TypeOK, LocksInv, HandlesInv, Unmount \/ Logout \/ \E f \in Fh : DestroyNext(f)
    PROVE  HandlesInv'
<1> USE HandlesAssumption DEF TypeOK, Worker
<1>1. UNCHANGED handleVars
  BY DEF Unmount, Logout, DestroyNext
<1>2. \A w \in Worker : task[w].kind \in Uploads => task'[w] = task[w]
  <2>1. CASE Unmount \/ Logout
    BY <2>1 DEF Unmount, Logout
  <2>2. ASSUME NEW f \in Fh, DestroyNext(f), NEW w \in Worker, task[w].kind \in Uploads
        PROVE  task'[w] = task[w]
    <3>1. task[Unmounter] = Idle
      BY <2>2 DEF DestroyNext
    <3>2. w # Unmounter
      BY <2>2, <3>1 DEF Idle, Uploads
    <3> QED BY <2>2, <3>2 DEF DestroyNext, Begin
  <2> QED BY <2>1, <2>2
<1>3. \A f \in Fh : f \notin todo' /\ mounted' # "yes"
                     => f \notin open \/ (f \notin todo /\ mounted # "yes")
  BY DEF Unmount, Logout, DestroyNext
<1>4. \A f \in Fh, w \in Worker : lock[f] = w => task'[w] = task[w]
  BY <1>2 DEF LocksInv, LockedByItsUpload, Uploading
<1> QED BY <1>1, <1>3, <1>4 DEF HandlesInv, HandleInv, HandleSafe, handleVars

\* What holds of every handle survives every step.
LEMMA HandlesStep ==
    ASSUME TypeOK, LocksInv, HandlesInv, [Next]_vars
    PROVE  HandlesInv'
<1> USE HandlesAssumption DEF TypeOK, Worker
<1>1. ASSUME NEW f \in Fh, NEW t \in Task, Flush(t, f) \/ Release(t, f)
      PROVE  HandlesInv'
  <2>1. \A w \in Worker : task[w].kind \in Uploads => task'[w] = task[w]
    BY <1>1 DEF Flush, Release, Begin, Idle, Uploads
  <2>2. \A g \in Fh, w \in Worker : lock[g] = w => task'[w] = task[w]
    BY <2>1 DEF LocksInv, LockedByItsUpload, Uploading
  <2>3. UNCHANGED <<open, path, sink, dirty, streamed, broken, lock, held, acked,
                    landed, reported, mountVars>>
    BY <1>1 DEF Flush, Release, handleVars
  <2> QED BY <2>2, <2>3 DEF HandlesInv, HandleInv, HandleSafe, mountVars
<1>2. ASSUME NEW f \in Fh, Handle(f)
      PROVE  HandlesInv'
  BY <1>1, <1>2, CallbacksKeepHandles DEF Handle
<1>3. ASSUME NEW w \in Worker, Send(w)
      PROVE  HandlesInv'
  <2>1. \A v \in Worker : task'[v].sent = task[v].sent
    BY <1>3 DEF Send, Job
  <2> QED BY <1>3, <2>1, HandlesFramed DEF Send
<1>4. ASSUME NEW w \in Worker, Transfer(w)
      PROVE  HandlesInv'
  BY <1>3, <1>4, UploadsKeepHandles, PayloadKeepsHandles DEF Transfer, FirstStep
<1>5. ASSUME NEW t \in Task, Rewrite(t) \/ Digest(t)
      PROVE  HandlesInv'
  <2>1. NoUploadMoves /\ UNCHANGED <<handleVars, mountVars>>
    BY <1>5, OthersKeepOut DEF LocksInv
  <2> QED BY <2>1, HandlesFramed DEF NoUploadMoves
<1>6. CASE UNCHANGED vars
  BY <1>6, HandlesFramed DEF vars
<1> QED BY <1>2, <1>4, <1>5, <1>6, UnmountKeepsHandles DEF Next

\* What is acknowledged on a handle that no call failed on is never lost: HandlesInv is
\* inductive, given the locks.
LEMMA HandlesInvariant == Spec => []HandlesInv
<1>1. Init => HandlesInv
  BY HandlesAssumption DEF Init, HandlesInv, HandleInv, HandleSafe, Worker, Idle
<1>2. TypeOK /\ LocksInv /\ HandlesInv /\ [Next]_vars => HandlesInv'
  BY HandlesStep
<1> QED BY <1>1, <1>2, TypeCorrect, LocksInvariant, PTL DEF Spec

-----------------------------------------------------------------------------
(* The properties. *)

\* destroy logs out only when every acknowledged write has landed or its loss was
\* reported: it waits for the handles a close is still sending.
THEOREM UnmountLosesNothing == Spec => []UnmountKeepsWrites
<1> DEFINE DoneAtLogout == mounted = "loggedout" => todo = {}
<1>1. Init => DoneAtLogout
  BY DEF Init
<1>2. TypeOK /\ DoneAtLogout /\ [Next]_vars => DoneAtLogout'
  <2> SUFFICES ASSUME TypeOK, DoneAtLogout, [Next]_vars PROVE DoneAtLogout'
    OBVIOUS
  <2>1. ASSUME NEW w \in Worker, Transfer(w)
        PROVE  DoneAtLogout'
    BY <2>1 DEF Transfer, FirstStep, LastStep, Send, TakePayload, AnswerAtOnce, NothingToClose,
                Failed, Landed, Reply, mountVars
  <2>2. ASSUME NEW f \in Fh, Handle(f) \/ DestroyNext(f)
        PROVE  DoneAtLogout'
    BY <2>2 DEF Handle, Open, Written, FallBack, WriteBreaks, WriteRefused, Flush, Release,
                DestroyNext, mountVars
  <2>3. ASSUME NEW t \in Task, Rewrite(t) \/ Digest(t)
        PROVE  DoneAtLogout'
    BY <2>3 DEF Rewrite, StartRewrite, RewriteOnWire, RewriteCall, RewriteEnds, Digest,
                AskDigest, Asked, JoinOrLead, HashSlot, HashLook, HashStarts, HashDone, mountVars
  <2>4. CASE Unmount \/ Logout \/ UNCHANGED vars
    BY <2>4 DEF Unmount, Logout, vars, mountVars
  <2> QED BY <2>1, <2>2, <2>3, <2>4 DEF Next
<1>3. HandlesInv /\ DoneAtLogout => UnmountKeepsWrites
  BY DEF HandlesInv, HandleInv, HandleSafe, UnmountKeepsWrites
<1> QED BY <1>1, <1>2, <1>3, TypeCorrect, HandlesInvariant, PTL DEF Spec

\* A close(2) that reports success has every acknowledged write of its handle on the
\* NAS, unless some call on the handle has already failed (Transfers::upload).
THEOREM CloseIsTruthful == Spec => CloseTruthful
<1> DEFINE Truthful == \A w \in Worker, f \in Fh :
              (Uploading(w, f) /\ task'[w] = Idle /\ f \notin reported')
                  => landed'[f] = acked[f]
<1>1. TypeOK /\ LocksInv /\ HandlesInv /\ [Next]_vars => [Truthful]_vars
  <2> SUFFICES ASSUME TypeOK, LocksInv, HandlesInv, Next, NEW w \in Worker, NEW f \in Fh,
                      Uploading(w, f), task'[w] = Idle, f \notin reported'
               PROVE  landed'[f] = acked[f]
    BY DEF vars
  <2> USE HandlesAssumption DEF TypeOK, Worker
  <2>1. task[w].kind \in Uploads /\ task'[w].kind = "none" /\ "none" \notin Uploads
    BY DEF Uploading, Uploads, Idle
  <2>2. ASSUME NEW t \in Task, Rewrite(t) \/ Digest(t)
        PROVE  FALSE
    BY <2>1, <2>2, OthersKeepOut DEF NoUploadMoves, LocksInv
  <2>3. ASSUME NEW g \in Fh, Handle(g) \/ DestroyNext(g)
        PROVE  FALSE
    BY <2>1, <2>3
       DEF Handle, Open, Written, FallBack, WriteBreaks, WriteRefused, Flush, Release,
           DestroyNext, Begin, Idle, Uploads
  <2>4. ~ (Unmount \/ Logout)
    BY <2>1 DEF Unmount, Logout
  <2>5. PICK v \in Worker : Transfer(v)
    BY <2>2, <2>3, <2>4 DEF Next
  <2>6. ~ Send(v)
    BY <2>1 DEF Send, Job
  <2>7. PICK g \in Fh : FirstStep(v, g) \/ LastStep(v, g)
    BY <2>5, <2>6 DEF Transfer
  <2>8. ~ TakePayload(v, g)
    BY <2>1 DEF TakePayload, Job
  <2>9. v = w /\ g = f
    BY <2>1, <2>7, <2>8
       DEF FirstStep, LastStep, AnswerAtOnce, NothingToClose, Failed, Landed, Reply, AtLock,
           Uploading
  <2> QED BY <2>7, <2>8, <2>9, EndedUploadLanded DEF FirstStep
<1> QED BY <1>1, TypeCorrect, LocksInvariant, HandlesInvariant, PTL DEF CloseTruthful, Spec

\* Each path's hash has its leader: HashLed is inductive, given where the uploads are.
LEMMA HashesAreLed == Spec => []HashLed
<1> USE HandlesAssumption
<1>1. Init => HashLed
  BY DEF Init, HashLed, Leads, Asking, Idle, Worker
<1>2. TypeOK /\ UploadsInPlace /\ HashLed /\ [Next]_vars => HashLed'
  <2> SUFFICES ASSUME TypeOK, UploadsInPlace, HashLed, [Next]_vars PROVE HashLed'
    OBVIOUS
  <2> USE DEF TypeOK, Worker
  <2>1. ASSUME UNCHANGED hashing,
               \A t \in Task : \/ task'[t] = task[t]
                               \/ task[t].kind # "hash" /\ task'[t].kind # "hash"
                               \/ task[t].pc \notin {"wait", "slot", "looked", "quiet", "md5"}
                                  /\ task'[t].pc \notin {"wait", "slot", "looked", "quiet", "md5"}
        PROVE  HashLed'
    BY <2>1 DEF HashLed, Leads, Asking
  <2>2. Idle.kind = "none" /\ Idle.pc = "idle"
    BY DEF Idle
  <2>3. ASSUME NEW f \in Fh, Handle(f) \/ DestroyNext(f)
        PROVE  HashLed'
    <3>1. ASSUME NEW t \in Worker, NEW k \in Uploads, Begin(t, k, f), UNCHANGED hashing
          PROVE  HashLed'
      BY <2>1, <3>1 DEF Begin, Idle, Job, Uploads
    <3> QED
      BY <2>1, <2>3, <3>1
         DEF Handle, Open, Written, FallBack, WriteBreaks, WriteRefused, Flush, Release,
             DestroyNext, hashVars, Uploads
  <2>4. ASSUME NEW w \in Worker, Transfer(w)
        PROVE  HashLed'
    <3>1. CASE Send(w)
      BY <2>1, <3>1 DEF Send, Job, hashVars
    <3>2. ASSUME NEW f \in Fh, TakePayload(w, f)
          PROVE  HashLed'
      BY <2>1, <3>2 DEF TakePayload, AtLock, Uploading, Uploads, Job, hashVars
    <3>3. ASSUME NEW f \in Fh, AnswerAtOnce(w, f) \/ NothingToClose(w, f) \/ LastStep(w, f)
          PROVE  HashLed'
      <4>1. Uploading(w, f) /\ task' = [task EXCEPT ![w] = Idle] /\ UNCHANGED hashing
        BY <3>3
           DEF AnswerAtOnce, NothingToClose, LastStep, Failed, Landed, Reply, AtLock, hashVars
      <4> QED BY <2>1, <2>2, <4>1 DEF Uploading, Uploads
    <3> QED BY <2>4, <3>1, <3>2, <3>3 DEF Transfer, FirstStep
  <2>5. CASE Unmount \/ Logout \/ UNCHANGED vars
    BY <2>1, <2>5 DEF Unmount, Logout, vars, hashVars
  <2>6. ASSUME NEW t \in Task, Rewrite(t)
        PROVE  HashLed'
    <3>1. ASSUME NEW from \in {"spawned", "copy", "copied", "wire", "down", "up", "info",
                               "delete"},
                 NEW to \in {"idle", "wire", "down", "up", "info", "copy", "copied", "delete"},
                 Goes(t, from, to), UNCHANGED hashing
          PROVE  HashLed'
      BY <2>1, <2>2, <3>1 DEF Goes, Job
    <3>2. CASE RewriteOnWire(t) \/ RewriteCall(t) \/ RewriteEnds(t)
      BY <3>1, <3>2 DEF RewriteOnWire, RewriteCall, RewriteEnds, hashVars
    <3>3. ASSUME NEW k \in Rewrites, NEW ps \in SUBSET Path, StartRewrite(t, k, ps)
          PROVE  HashLed'
      BY <2>1, <2>2, <3>3 DEF StartRewrite, Rewrites, Idle, Job, hashVars
    <3> QED BY <2>6, <3>2, <3>3 DEF Rewrite
  <2>7. ASSUME NEW p \in Path, AnswerAll(p)
        PROVE  HashLed'
    <3>1. \A t \in Task, s \in {"wait", "slot", "looked", "quiet", "md5"} :
            /\ ~ Asking(t, p, s)'
            /\ \A q \in Path \ {p} : Asking(t, q, s)' <=> Asking(t, q, s)
      BY <2>2, <2>7 DEF AnswerAll, Leads, Asking
    <3>2. hashing'[p] = None /\ \A q \in Path \ {p} : hashing'[q] = hashing[q]
      BY <2>7 DEF AnswerAll
    <3> QED BY <3>1, <3>2 DEF HashLed, Leads
  <2>8. ASSUME NEW t \in Task, NEW p \in Path, NEW s \in {"join", "slot", "looked", "quiet"},
               NEW d \in {"wait", "slot", "looked", "quiet", "md5"},
               Asking(t, p, s), task' = [task EXCEPT ![t].pc = d]
        PROVE  /\ task'[t].kind = "hash" /\ task'[t].on = {p} /\ task'[t].pc = d
               /\ \A u \in Task \ {t} : task'[u] = task[u]
    BY <2>8 DEF Asking, Job
  <2>9. ASSUME NEW t \in Task, NEW p \in Path, JoinOrLead(t, p)
        PROVE  HashLed'
    <3>1. Asking(t, p, "join") /\ \A q \in Path : hashing[q] # t
      BY <2>9 DEF JoinOrLead, HashLed, Leads, Asking
    <3>2. CASE hashing[p] = None
      <4>1. hashing' = [hashing EXCEPT ![p] = t] /\ task' = [task EXCEPT ![t].pc = "slot"]
        BY <2>9, <3>2 DEF JoinOrLead
      <4>2. /\ task'[t].kind = "hash" /\ task'[t].on = {p} /\ task'[t].pc = "slot"
            /\ \A u \in Task \ {t} : task'[u] = task[u]
        BY <2>8, <3>1, <4>1
      <4>3. \A u \in Task \ {t}, q \in Path :
              /\ hashing'[q] = u <=> Leads(u, q)'
              /\ Asking(u, q, "wait")' => hashing'[q] # None
        BY <3>2, <4>1, <4>2 DEF HashLed, Leads, Asking
      <4>4. \A q \in Path :
              /\ hashing'[q] = t <=> Leads(t, q)'
              /\ ~ Asking(t, q, "wait")'
        <5>1. \A q \in Path : {p} = {q} <=> q = p
          OBVIOUS
        <5> QED BY <3>1, <4>1, <4>2, <5>1 DEF Leads, Asking
      <4> QED BY <4>3, <4>4 DEF HashLed
    <3>3. CASE hashing[p] # None
      <4>1. hashing' = hashing /\ task' = [task EXCEPT ![t].pc = "wait"]
        BY <2>9, <3>3 DEF JoinOrLead
      <4>2. /\ task'[t].kind = "hash" /\ task'[t].on = {p} /\ task'[t].pc = "wait"
            /\ \A u \in Task \ {t} : task'[u] = task[u]
        BY <2>8, <3>1, <4>1
      <4>3. \A u \in Task \ {t}, q \in Path :
              /\ hashing'[q] = u <=> Leads(u, q)'
              /\ Asking(u, q, "wait")' => hashing'[q] # None
        BY <4>1, <4>2 DEF HashLed, Leads, Asking
      <4>4. \A q \in Path :
              /\ hashing'[q] # t
              /\ ~ Leads(t, q)'
              /\ Asking(t, q, "wait")' => hashing'[q] # None
        <5>1. \A q \in Path : {p} = {q} <=> q = p
          OBVIOUS
        <5> QED BY <3>1, <3>3, <4>1, <4>2, <5>1 DEF Leads, Asking
      <4> QED BY <4>3, <4>4 DEF HashLed
    <3> QED BY <3>2, <3>3
  <2>10. ASSUME NEW t \in Task, NEW p \in Path,
                HashSlot(t, p) \/ HashLook(t, p) \/ HashStarts(t, p)
         PROVE  HashLed'
    <3>1. CASE AnswerAll(p)
      BY <2>7, <3>1
    <3>2. CASE ~ AnswerAll(p)
      <4>1. PICK s \in {"slot", "looked", "quiet"}, d \in {"looked", "quiet", "md5"} :
              hashing' = hashing /\ task' = [task EXCEPT ![t].pc = d] /\ Asking(t, p, s)
        <5>1. CASE HashSlot(t, p)
          BY <3>2, <5>1 DEF HashSlot
        <5>2. CASE HashLook(t, p)
          BY <3>2, <5>2 DEF HashLook, hashVars
        <5>3. CASE HashStarts(t, p)
          BY <5>3 DEF HashStarts
        <5> QED BY <2>10, <5>1, <5>2, <5>3
      <4>2. /\ task'[t].kind = "hash" /\ task'[t].on = {p} /\ task'[t].pc = d
            /\ \A u \in Task \ {t} : task'[u] = task[u]
        BY <4>1 DEF Asking, Job
      <4>3. \A q \in Path : (task[t].on = {q} <=> q = p) /\ (task'[t].on = {q} <=> q = p)
        <5>1. \A q \in Path : {p} = {q} <=> q = p
          OBVIOUS
        <5> QED BY <4>1, <4>2, <5>1 DEF Asking
      <4>4. \A q \in Path : /\ hashing'[q] = t <=> Leads(t, q)'
                           /\ ~ Asking(t, q, "wait")'
        <5>1. \A q \in Path : hashing[q] = t <=> q = p
          BY <4>1, <4>3 DEF HashLed, Leads, Asking
        <5> QED BY <4>1, <4>2, <4>3, <5>1 DEF Leads, Asking
      <4>5. \A u \in Task \ {t}, q \in Path :
              /\ hashing'[q] = u <=> Leads(u, q)'
              /\ Asking(u, q, "wait")' => hashing'[q] # None
        BY <4>1, <4>2 DEF HashLed, Leads, Asking
      <4> QED BY <4>4, <4>5 DEF HashLed
    <3> QED BY <3>1, <3>2
  <2>11. ASSUME NEW t \in Task, Digest(t)
         PROVE  HashLed'
    <3>1. ASSUME NEW p \in Path, AskDigest(t, p) \/ Asked(t, p)
          PROVE  HashLed'
      <4>1. UNCHANGED hashing
        BY <3>1 DEF AskDigest, Asked, hashVars
      <4> QED BY <2>1, <3>1, <4>1, AskingMoves
    <3> QED BY <2>7, <2>9, <2>10, <2>11, <3>1 DEF Digest, HashDone
  <2> QED BY <2>3, <2>4, <2>5, <2>6, <2>11 DEF Next
<1> QED BY <1>1, <1>2, TypeCorrect, LocksInvariant, PTL DEF Spec, LocksInv

\* No getxattr is left waiting on a hash nobody leads any more (start_getxattr's list
\* of waiters).
THEOREM WaitersAnswered == Spec => []WaitersAreLed
<1>1. TypeOK /\ HashLed => WaitersAreLed
  <2> SUFFICES ASSUME TypeOK, HashLed, NEW t \in Task, NEW p \in Path, Asking(t, p, "wait")
               PROVE  \E u \in Task : Leads(u, p)
    BY DEF WaitersAreLed
  <2>1. hashing[p] \in Task
    BY DEF HashLed, TypeOK
  <2> QED BY <2>1 DEF HashLed
<1> QED BY <1>1, TypeCorrect, HashesAreLed, PTL

-----------------------------------------------------------------------------
(* What a hash finds before it begins. *)

\* A step behind which nothing is to be remembered: it takes no look, registers no rewrite,
\* and each handle's writes have landed, or are where they were.
LEMMA LooksFramed ==
    ASSUME LooksHold, UNCHANGED lateVars,
           \A t \in Task : \/ task'[t] = task[t] \/ task'[t].kind # "hash"
                           \/ task'[t].pc \notin {"looked", "quiet"},
           \A w \in Worker : task'[w].kind \in Rewrites =>
               task[w].kind \in Rewrites /\ task'[w].on = task[w].on,
           reported \subseteq reported',
           \A f \in Fh \ reported' : \/ landed'[f] = acked'[f]
                                     \/ UNCHANGED <<path[f], landed[f], acked[f]>>
    PROVE  LooksHold'
<1>1. \A t \in Task, p \in Path, s \in {"looked", "quiet"} : Asking(t, p, s)' => Asking(t, p, s)
  BY DEF Asking
<1>2. ASSUME NEW t \in Task, NEW p \in Path, (Asking(t, p, "looked") \/ Asking(t, p, "quiet"))',
             NEW w \in Worker, task'[w].kind \in Rewrites, p \in task'[w].on
      PROVE  w \in rewrote'[p]
  BY <1>1, <1>2 DEF LooksHold, lateVars
<1>3. ASSUME NEW t \in Task, NEW p \in Path, Asking(t, p, "quiet")',
             NEW f \in Fh \ (reported' \cup wrote'), path'[f] = p
      PROVE  landed'[f] = acked'[f]
  <2>1. f \in Fh \ (reported \cup wrote) /\ Asking(t, p, "quiet")
    BY <1>1, <1>3 DEF lateVars
  <2> QED BY <1>3, <2>1 DEF LooksHold
<1> QED BY <1>2, <1>3 DEF LooksHold

\* A hash that begins, or is answered, takes what came behind its looks with it.
LEMMA LooksDropped ==
    ASSUME TypeOK, LooksHold, NEW q \in Path, LooksOver(q), UNCHANGED handleVars,
           \A t \in Task : ~ (Asking(t, q, "looked") \/ Asking(t, q, "quiet"))',
           \A t \in Task, p \in Path \ {q} : /\ Asking(t, p, "looked")' => Asking(t, p, "looked")
                                             /\ Asking(t, p, "quiet")' => Asking(t, p, "quiet"),
           \A w \in Worker : task'[w].kind \in Rewrites =>
               task[w].kind \in Rewrites /\ task'[w].on = task[w].on
    PROVE  LooksHold'
<1>1. ASSUME NEW t \in Task, NEW p \in Path, (Asking(t, p, "looked") \/ Asking(t, p, "quiet"))',
             NEW w \in Worker, task'[w].kind \in Rewrites, p \in task'[w].on
      PROVE  w \in rewrote'[p]
  <2>1. p # q /\ rewrote'[p] = rewrote[p]
    BY <1>1 DEF LooksOver, TypeOK
  <2> QED BY <1>1, <2>1 DEF LooksHold
<1>2. ASSUME NEW t \in Task, NEW p \in Path, Asking(t, p, "quiet")',
             NEW f \in Fh \ (reported' \cup wrote'), path'[f] = p
      PROVE  landed'[f] = acked'[f]
  <2>1. p # q /\ Asking(t, p, "quiet")
    BY <1>2
  <2>2. f \in Fh \ (reported \cup wrote) /\ path[f] = p
    BY <1>2, <2>1 DEF LooksOver, handleVars
  <2> QED BY <2>1, <2>2 DEF LooksHold, handleVars
<1> QED BY <1>1, <1>2 DEF LooksHold

\* open, create and write.
LEMMA CallbacksKeepLooks ==
    ASSUME TypeOK, HandlesInv, LooksHold, NEW f \in Fh,
           \/ \E p \in Path, new \in BOOLEAN, s \in {"stream", "buffer"} : Open(f, p, new, s)
           \/ Written(f) \/ FallBack(f) \/ WriteBreaks(f) \/ WriteRefused(f)
    PROVE  LooksHold'
<1>1. task' = task /\ landed' = landed
  BY DEF Open, Written, FallBack, WriteBreaks, WriteRefused
<1>2. ASSUME NEW p \in Path, NEW new \in BOOLEAN, NEW s \in {"stream", "buffer"},
             Open(f, p, new, s)
      PROVE  LooksHold'
  <2>1. UNCHANGED lateVars /\ reported' = reported /\ acked' = acked
    BY <1>2 DEF Open, hashVars
  <2>2. \A g \in Fh \ {f} : path'[g] = path[g]
    BY <1>2 DEF Open, TypeOK
  <2>3. f \notin reported => landed[f] = acked[f]
    BY <1>2 DEF Open, HandlesInv, HandleInv, HandleSafe
  <2> QED BY <1>1, <2>1, <2>2, <2>3, LooksFramed
<1>3. CASE WriteBreaks(f) \/ WriteRefused(f)
  <2>1. UNCHANGED <<lateVars, path, acked>> /\ reported \subseteq reported'
    BY <1>3 DEF WriteBreaks, WriteRefused, hashVars
  <2> QED BY <1>1, <2>1, LooksFramed
<1>4. CASE Written(f) \/ FallBack(f)
  <2>1. /\ UNCHANGED <<path, reported>> /\ WritesLate(f)
        /\ \A g \in Fh \ {f} : acked'[g] = acked[g]
    BY <1>4 DEF Written, FallBack, TypeOK
  <2>2. \A t \in Task, p \in Path, s \in {"looked", "quiet"} : Asking(t, p, s)' <=> Asking(t, p, s)
    BY <1>1 DEF Asking
  <2>3. ASSUME NEW t \in Task, NEW p \in Path, (Asking(t, p, "looked") \/ Asking(t, p, "quiet"))',
               NEW w \in Worker, task'[w].kind \in Rewrites, p \in task'[w].on
        PROVE  w \in rewrote'[p]
    BY <1>1, <2>1, <2>2, <2>3 DEF LooksHold, WritesLate
  <2>4. ASSUME NEW t \in Task, NEW p \in Path, Asking(t, p, "quiet")',
               NEW g \in Fh \ (reported' \cup wrote'), path'[g] = p
        PROVE  landed'[g] = acked'[g]
    <3>1. Asking(t, p, "quiet") /\ path[g] = p
      BY <2>1, <2>2, <2>4
    <3>2. g # f /\ g \notin wrote
      BY <2>1, <2>4, <3>1 DEF WritesLate
    <3> QED BY <1>1, <2>1, <2>4, <3>1, <3>2 DEF LooksHold
  <2> QED BY <2>3, <2>4 DEF LooksHold
<1> QED BY <1>2, <1>3, <1>4

\* flush and release as they begin, and destroy.
LEMMA StartsKeepLooks ==
    ASSUME TypeOK, LooksHold,
           \/ \E f \in Fh : DestroyNext(f) \/ \E t \in Task : Flush(t, f) \/ Release(t, f)
           \/ Unmount \/ Logout
    PROVE  LooksHold'
<1>1. UNCHANGED <<lateVars, path, landed, acked, reported>>
  BY DEF DestroyNext, Flush, Release, Unmount, Logout, handleVars, hashVars
<1>2. ASSUME NEW w \in Worker, NEW f \in Fh, NEW k \in Uploads, Begin(w, k, f)
      PROVE  /\ task'[w].kind = k
             /\ \A v \in Worker \ {w} : task'[v] = task[v]
  BY <1>2 DEF Begin, Idle, TypeOK, Job
<1>3. \A w \in Worker : task'[w] = task[w] \/ task'[w].kind \in Uploads
  <2>1. ASSUME NEW t \in Task, NEW f \in Fh, Flush(t, f) \/ Release(t, f)
        PROVE  \A w \in Worker : task'[w] = task[w] \/ task'[w].kind \in Uploads
    BY <1>2, <2>1 DEF Flush, Release, Worker, Uploads
  <2>2. ASSUME NEW f \in Fh, DestroyNext(f)
        PROVE  \A w \in Worker : task'[w] = task[w] \/ task'[w].kind \in Uploads
    BY <1>2, <2>2 DEF DestroyNext, Worker, Uploads
  <2> QED BY <2>1, <2>2 DEF Unmount, Logout
<1>4. \A k \in Uploads : k # "hash" /\ k \notin Rewrites
  BY DEF Uploads, Rewrites
<1> QED BY <1>1, <1>3, <1>4, LooksFramed DEF Worker

\* The steps of an upload: one that ends in success has landed what its handle was told of.
LEMMA UploadsKeepLooks ==
    ASSUME TypeOK, LocksInv, HandlesInv, LooksHold, NEW w \in Worker, Transfer(w)
    PROVE  LooksHold'
<1> USE HandlesAssumption DEF TypeOK
<1>1. CASE Send(w) \/ \E f \in Fh : TakePayload(w, f)
  <2>1. UNCHANGED <<lateVars, path, landed, acked, reported>>
    BY <1>1 DEF Send, TakePayload, handleVars, hashVars
  <2>2. /\ task'[w].kind = task[w].kind /\ task'[w].on = task[w].on
        /\ task'[w].pc \in {"permit", "wire"}
        /\ \A v \in Worker \ {w} : task'[v] = task[v]
    BY <1>1 DEF Send, TakePayload, Job
  <2> QED BY <2>1, <2>2, LooksFramed DEF Worker
<1>2. ASSUME NEW f \in Fh, AnswerAtOnce(w, f) \/ NothingToClose(w, f) \/ LastStep(w, f)
      PROVE  LooksHold'
  <2>1. /\ UNCHANGED <<lateVars, path, acked>>
        /\ task' = [task EXCEPT ![w] = Idle]
        /\ reported \subseteq reported'
        /\ \A g \in Fh \ {f} : landed'[g] = landed[g]
    BY <1>2 DEF AnswerAtOnce, NothingToClose, LastStep, Failed, Landed, Reply, hashVars
  <2>2. f \notin reported' => landed'[f] = acked'[f]
    BY <1>2, <2>1, EndedUploadLanded
  <2>3. task'[w] = Idle /\ \A v \in Worker \ {w} : task'[v] = task[v]
    BY <2>1
  <2>4. Idle.kind = "none" /\ "none" \notin Rewrites
    BY DEF Idle, Rewrites
  <2> QED BY <2>1, <2>2, <2>3, <2>4, LooksFramed DEF Worker
<1> QED BY <1>1, <1>2 DEF Transfer, FirstStep

\* A truncate or a move that registers behind a look is remembered; one that goes on, or
\* answers, changes nothing that was seen.
LEMMA RewritesKeepLooks ==
    ASSUME TypeOK, LooksHold, NEW t \in Task, Rewrite(t)
    PROVE  LooksHold'
<1> USE HandlesAssumption DEF TypeOK
<1>1. CASE RewriteOnWire(t) \/ RewriteCall(t) \/ RewriteEnds(t)
  <2>1. UNCHANGED <<lateVars, path, landed, acked, reported>>
    BY <1>1 DEF RewriteOnWire, RewriteCall, RewriteEnds, handleVars, hashVars
  <2>2. ASSUME NEW from, NEW to \in {"wire", "down", "up", "info", "copy", "copied", "delete"},
               Goes(t, from, to)
        PROVE  /\ task'[t].kind = task[t].kind /\ task'[t].on = task[t].on /\ task'[t].pc = to
               /\ \A v \in Worker \ {t} : task'[v] = task[v]
    BY <2>2 DEF Goes, Worker, Job
  <2>3. ASSUME NEW from, Goes(t, from, "idle")
        PROVE  task'[t] = Idle /\ \A v \in Worker \ {t} : task'[v] = task[v]
    BY <2>3 DEF Goes, Worker
  <2>4. Idle.kind = "none" /\ "none" \notin Rewrites
    BY DEF Idle, Rewrites
  <2>5. /\ \A v \in Worker \ {t} : task'[v] = task[v]
        /\ \/ task'[t] = Idle
           \/ task'[t].kind = task[t].kind /\ task'[t].on = task[t].on
              /\ task'[t].pc \notin {"looked", "quiet"}
    BY <1>1, <2>2, <2>3 DEF RewriteOnWire, RewriteCall, RewriteEnds
  <2> QED BY <2>1, <2>4, <2>5, LooksFramed DEF Worker
<1>2. ASSUME NEW k \in Rewrites, NEW ps \in SUBSET Path, StartRewrite(t, k, ps)
      PROVE  LooksHold'
  <2>1. UNCHANGED <<handleVars, wrote>>
    BY <1>2 DEF StartRewrite
  <2>2. /\ task'[t].kind = k /\ task'[t].on = ps
        /\ \A v \in Worker \ {t} : task'[v] = task[v]
    BY <1>2 DEF StartRewrite, Idle, Worker, Job
  <2>3. \A u \in Task, p \in Path, s \in {"looked", "quiet"} :
          Asking(u, p, s)' => Asking(u, p, s)
    BY <2>2 DEF Asking, Rewrites, Worker
  <2>4. ASSUME NEW u \in Task, NEW p \in Path, (Asking(u, p, "looked") \/ Asking(u, p, "quiet"))',
               NEW w \in Worker, task'[w].kind \in Rewrites, p \in task'[w].on
        PROVE  w \in rewrote'[p]
    <3>1. Asking(u, p, "looked") \/ Asking(u, p, "quiet")
      BY <2>3, <2>4
    <3>2. rewrote'[p] = IF p \in ps THEN rewrote[p] \cup {t} ELSE rewrote[p]
      BY <1>2, <3>1 DEF StartRewrite
    <3> QED BY <2>2, <2>4, <3>1, <3>2 DEF LooksHold
  <2>5. ASSUME NEW u \in Task, NEW p \in Path, Asking(u, p, "quiet")',
               NEW f \in Fh \ (reported' \cup wrote'), path'[f] = p
        PROVE  landed'[f] = acked'[f]
    BY <2>1, <2>3, <2>5 DEF LooksHold, handleVars
  <2> QED BY <2>4, <2>5 DEF LooksHold
<1> QED BY <1>1, <1>2 DEF Rewrite

\* A hash takes its looks one after the other, and then begins.
LEMMA DigestsKeepLooks ==
    ASSUME TypeOK, HandlesInv, HashLed, LooksHold, NEW t \in Task, Digest(t)
    PROVE  LooksHold'
<1> USE HandlesAssumption DEF TypeOK
<1>1. UNCHANGED handleVars
  BY DEF Digest, AskDigest, Asked, JoinOrLead, HashSlot, HashLook, HashStarts, HashDone
<1>2. PICK q \in Path :
        \/ AskDigest(t, q) \/ Asked(t, q) \/ JoinOrLead(t, q)
        \/ HashSlot(t, q) \/ HashLook(t, q) \/ HashStarts(t, q) \/ HashDone(t, q)
  BY DEF Digest
<1>3. Idle.kind = "none" /\ "none" \notin Rewrites /\ "hash" \notin Rewrites
  BY DEF Idle, Rewrites
<1>4. CASE AskDigest(t, q) \/ Asked(t, q) \/ JoinOrLead(t, q)
  <2>1. UNCHANGED lateVars
    BY <1>4 DEF AskDigest, Asked, JoinOrLead, hashVars
  <2>2. /\ task'[t].kind \in {"none", "hash"}
        /\ task'[t].pc \notin {"looked", "quiet"}
        /\ \A v \in Worker \ {t} : task'[v] = task[v]
    <3>1. CASE JoinOrLead(t, q)
      BY <3>1 DEF JoinOrLead, Asking, Worker, Job
    <3> QED BY <1>4, <3>1, AskingMoves
  <2> QED BY <1>1, <1>3, <2>1, <2>2, LooksFramed DEF Worker, handleVars
<1>5. CASE AnswerAll(q)
  <2>1. LooksOver(q) /\ \A v \in Worker : task'[v] \in {task[v], Idle}
    BY <1>5 DEF AnswerAll
  <2>2. \A u \in Task : ~ (Asking(u, q, "looked") \/ Asking(u, q, "quiet"))'
    BY <1>3, <1>5 DEF AnswerAll, Leads, Asking, Worker
  <2>3. \A u \in Task, p \in Path \ {q} :
          /\ Asking(u, p, "looked")' => Asking(u, p, "looked")
          /\ Asking(u, p, "quiet")' => Asking(u, p, "quiet")
    BY <1>3, <2>1 DEF Asking, Worker
  <2>4. \A w \in Worker : task'[w].kind \in Rewrites =>
          task[w].kind \in Rewrites /\ task'[w].on = task[w].on
    BY <1>3, <2>1
  <2> QED BY <1>1, <2>1, <2>2, <2>3, <2>4, LooksDropped
<1>6. \A p \in Path : {q} = {p} <=> p = q
  OBVIOUS
<1>7. ASSUME NEW s \in {"slot", "looked", "quiet"}, NEW d \in {"looked", "quiet", "md5"},
             Asking(t, q, s), task' = [task EXCEPT ![t].pc = d]
      PROVE  /\ task'[t].kind = "hash" /\ task'[t].on = {q} /\ task'[t].pc = d
             /\ \A v \in Worker \ {t} : task'[v] = task[v]
             /\ \A w \in Worker : task'[w].kind \in Rewrites =>
                  task[w].kind \in Rewrites /\ task'[w].on = task[w].on
  BY <1>3, <1>7 DEF Asking, Worker, Job
<1>8. CASE ~ AnswerAll(q) /\ HashSlot(t, q)
  <2>1. /\ Asking(t, q, "slot") /\ task' = [task EXCEPT ![t].pc = "looked"]
        /\ ~ Rewritten(q) /\ UNCHANGED lateVars
    BY <1>8 DEF HashSlot
  <2>2. /\ task'[t].kind = "hash" /\ task'[t].on = {q} /\ task'[t].pc = "looked"
        /\ \A v \in Worker \ {t} : task'[v] = task[v]
        /\ \A w \in Worker : task'[w].kind \in Rewrites =>
             task[w].kind \in Rewrites /\ task'[w].on = task[w].on
    BY <1>7, <2>1
  <2>3. ASSUME NEW u \in Task, NEW p \in Path, (Asking(u, p, "looked") \/ Asking(u, p, "quiet"))',
               NEW w \in Worker, task'[w].kind \in Rewrites, p \in task'[w].on
        PROVE  w \in rewrote'[p]
    <3>1. p # q
      BY <2>1, <2>2, <2>3 DEF Rewritten
    <3>2. u # t /\ (Asking(u, p, "looked") \/ Asking(u, p, "quiet"))
      BY <1>6, <2>2, <2>3, <3>1 DEF Asking, Worker
    <3> QED BY <2>1, <2>2, <2>3, <3>2 DEF LooksHold, lateVars
  <2>4. ASSUME NEW u \in Task, NEW p \in Path, Asking(u, p, "quiet")',
               NEW f \in Fh \ (reported' \cup wrote'), path'[f] = p
        PROVE  landed'[f] = acked'[f]
    <3>1. Asking(u, p, "quiet")
      BY <2>2, <2>4 DEF Asking, Worker
    <3> QED BY <1>1, <2>1, <2>4, <3>1 DEF LooksHold, lateVars, handleVars
  <2> QED BY <2>3, <2>4 DEF LooksHold
<1>9. CASE ~ AnswerAll(q) /\ HashLook(t, q)
  <2>1. /\ Asking(t, q, "looked") /\ task' = [task EXCEPT ![t].pc = "quiet"]
        /\ ~ HandlesBusy(q) /\ UNCHANGED lateVars
    BY <1>9 DEF HashLook, hashVars
  <2>2. /\ task'[t].kind = "hash" /\ task'[t].on = {q} /\ task'[t].pc = "quiet"
        /\ \A v \in Worker \ {t} : task'[v] = task[v]
        /\ \A w \in Worker : task'[w].kind \in Rewrites =>
             task[w].kind \in Rewrites /\ task'[w].on = task[w].on
    BY <1>7, <2>1
  <2>3. ASSUME NEW u \in Task, NEW p \in Path, (Asking(u, p, "looked") \/ Asking(u, p, "quiet"))'
        PROVE  Asking(u, p, "looked") \/ Asking(u, p, "quiet")
    BY <1>6, <2>1, <2>2, <2>3 DEF Asking, Worker
  <2>4. ASSUME NEW u \in Task, NEW p \in Path, (Asking(u, p, "looked") \/ Asking(u, p, "quiet"))',
               NEW w \in Worker, task'[w].kind \in Rewrites, p \in task'[w].on
        PROVE  w \in rewrote'[p]
    BY <2>1, <2>2, <2>3, <2>4 DEF LooksHold, lateVars
  <2>5. ASSUME NEW u \in Task, NEW p \in Path, Asking(u, p, "quiet")',
               NEW f \in Fh \ (reported' \cup wrote'), path'[f] = p
        PROVE  landed'[f] = acked'[f]
    <3>1. f \in Fh \ (reported \cup wrote) /\ path[f] = p
      BY <1>1, <2>1, <2>5 DEF lateVars, handleVars
    <3>2. CASE p = q
      <4>1. f \notin open \/ f \notin dirty
        BY <2>1, <3>1, <3>2 DEF HandlesBusy
      <4>2. landed[f] = acked[f]
        BY <3>1, <4>1 DEF HandlesInv, HandleInv, HandleSafe
      <4> QED BY <1>1, <4>2 DEF handleVars
    <3>3. CASE p # q
      <4>1. Asking(u, p, "quiet")
        BY <1>6, <2>2, <2>5, <3>3 DEF Asking, Worker
      <4> QED BY <1>1, <3>1, <4>1 DEF LooksHold, handleVars
    <3> QED BY <3>2, <3>3
  <2> QED BY <2>4, <2>5 DEF LooksHold
<1>10. CASE ~ AnswerAll(q) /\ HashStarts(t, q)
  <2>1. /\ Asking(t, q, "quiet") /\ task' = [task EXCEPT ![t].pc = "md5"]
        /\ LooksOver(q)
    BY <1>10 DEF HashStarts
  <2>2. /\ task'[t].kind = "hash" /\ task'[t].on = {q} /\ task'[t].pc = "md5"
        /\ \A v \in Worker \ {t} : task'[v] = task[v]
        /\ \A w \in Worker : task'[w].kind \in Rewrites =>
             task[w].kind \in Rewrites /\ task'[w].on = task[w].on
    BY <1>7, <2>1
  <2>3. hashing[q] = t
    BY <2>1 DEF HashLed, Leads
  <2>4. ASSUME NEW u \in Task
        PROVE  ~ (Asking(u, q, "looked") \/ Asking(u, q, "quiet"))'
    <3>1. CASE u = t
      BY <2>2, <3>1 DEF Asking
    <3>2. CASE u # t
      <4>1. ~ Leads(u, q)
        BY <2>3, <3>2 DEF HashLed
      <4> QED BY <2>2, <3>2, <4>1 DEF Leads, Asking, Worker
    <3> QED BY <3>1, <3>2
  <2>5. \A u \in Task, p \in Path \ {q} :
          /\ Asking(u, p, "looked")' => Asking(u, p, "looked")
          /\ Asking(u, p, "quiet")' => Asking(u, p, "quiet")
    BY <2>2 DEF Asking, Worker
  <2> QED BY <1>1, <2>1, <2>2, <2>4, <2>5, LooksDropped
<1>11. HashDone(t, q) => AnswerAll(q)
  BY DEF HashDone
<1> QED BY <1>2, <1>4, <1>5, <1>8, <1>9, <1>10, <1>11

\* What a hash found before it begins is still so, or came behind its looks: LooksHold is
\* inductive, given the handles and the leaders.
LEMMA LooksInvariant == Spec => []LooksHold
<1>1. Init => LooksHold
  BY HandlesAssumption DEF Init, LooksHold, Asking, Idle, Worker
<1>2. TypeOK /\ LocksInv /\ HandlesInv /\ HashLed /\ LooksHold /\ [Next]_vars => LooksHold'
  <2> SUFFICES ASSUME TypeOK, LocksInv, HandlesInv, HashLed, LooksHold, [Next]_vars
               PROVE  LooksHold'
    OBVIOUS
  <2>1. ASSUME NEW f \in Fh, Handle(f) \/ DestroyNext(f)
        PROVE  LooksHold'
    BY <2>1, CallbacksKeepLooks, StartsKeepLooks DEF Handle
  <2>2. CASE UNCHANGED vars
    BY <2>2, LooksFramed DEF vars, handleVars, hashVars
  <2> QED
    BY <2>1, <2>2, UploadsKeepLooks, RewritesKeepLooks, DigestsKeepLooks, StartsKeepLooks DEF Next
<1> QED BY <1>1, <1>2, TypeCorrect, LocksInvariant, HandlesInvariant, HashesAreLed, PTL DEF Spec

\* When the request for a digest goes out, what registered or was acknowledged before the
\* task looked for it has answered, has landed or was reported lost (start_getxattr's second
\* look), whatever came in the gaps between the looks and the request.
THEOREM DigestsStartQuiet == Spec => HashStartsQuiet
<1> DEFINE Quiet == \A t \in Task, p \in Path :
              (task[t].pc # "md5" /\ task'[t].pc = "md5" /\ task[t].on = {p})
                  => /\ \A w \in Worker :
                            task[w].kind \in Rewrites /\ p \in task[w].on => w \in rewrote[p]
                     /\ \A f \in open \ reported :
                            path[f] = p => landed[f] = acked[f] \/ f \in wrote
<1>1. TypeOK /\ LooksHold /\ [Next]_vars => [Quiet]_vars
  <2> SUFFICES ASSUME TypeOK, LooksHold, Next, NEW t \in Task, NEW p \in Path,
                      task[t].pc # "md5", task'[t].pc = "md5", task[t].on = {p}
               PROVE  Asking(t, p, "quiet")
    BY DEF vars, TypeOK, LooksHold
  <2> USE HandlesAssumption DEF TypeOK, Worker
  <2>1. Idle.pc = "idle"
    BY DEF Idle
  <2>2. ASSUME NEW f \in Fh, Handle(f) \/ DestroyNext(f)
        PROVE  FALSE
    <3>1. ASSUME NEW w \in Worker, NEW k \in Uploads, Begin(w, k, f)
          PROVE  FALSE
      BY <3>1 DEF Begin, Job, Idle
    <3> QED
      BY <2>2, <3>1
         DEF Handle, Open, Written, FallBack, WriteBreaks, WriteRefused, Flush, Release,
             DestroyNext, Uploads
  <2>3. ASSUME NEW w \in Worker, Transfer(w)
        PROVE  FALSE
    <3>1. ~ Send(w)
      BY DEF Send, Job
    <3>2. ASSUME NEW f \in Fh, TakePayload(w, f)
          PROVE  FALSE
      BY <3>2 DEF TakePayload, Job
    <3> QED
      BY <2>1, <2>3, <3>1, <3>2
         DEF Transfer, FirstStep, LastStep, AnswerAtOnce, NothingToClose, Failed, Landed, Reply
  <2>4. ~ (Unmount \/ Logout)
    BY DEF Unmount, Logout
  <2>5. ASSUME NEW u \in Task, Rewrite(u)
        PROVE  FALSE
    <3>1. ASSUME NEW from,
                 NEW to \in {"idle", "wire", "down", "up", "info", "copy", "copied", "delete"},
                 Goes(u, from, to)
          PROVE  FALSE
      BY <2>1, <3>1 DEF Goes, Job
    <3>2. ~ (RewriteOnWire(u) \/ RewriteCall(u) \/ RewriteEnds(u))
      BY <3>1 DEF RewriteOnWire, RewriteCall, RewriteEnds
    <3>3. PICK k \in Rewrites, ps \in SUBSET Path : StartRewrite(u, k, ps)
      BY <2>5, <3>2 DEF Rewrite
    <3> QED BY <3>3 DEF StartRewrite, Job, Idle
  <2>6. PICK u \in Task, q \in Path :
          \/ AskDigest(u, q) \/ Asked(u, q) \/ JoinOrLead(u, q)
          \/ HashSlot(u, q) \/ HashLook(u, q) \/ HashStarts(u, q) \/ HashDone(u, q)
    BY <2>2, <2>3, <2>4, <2>5 DEF Next, Digest
  <2>7. ASSUME AskDigest(u, q) \/ Asked(u, q) \/ JoinOrLead(u, q)
        PROVE  FALSE
    <3>1. task'[u].pc # "md5" /\ \A v \in Task \ {u} : task'[v] = task[v]
      <4>1. CASE JoinOrLead(u, q)
        BY <4>1 DEF JoinOrLead, Job
      <4> QED BY <2>7, <4>1, AskingMoves
    <3> QED BY <3>1
  <2>8. ~ AnswerAll(q)
    BY <2>1 DEF AnswerAll
  <2>9. ASSUME HashSlot(u, q) \/ HashLook(u, q)
        PROVE  FALSE
    <3>1. task'[u].pc \in {"looked", "quiet"} /\ \A v \in Task \ {u} : task'[v] = task[v]
      BY <2>8, <2>9 DEF HashSlot, HashLook, Job
    <3> QED BY <3>1
  <2>10. HashStarts(u, q)
    BY <2>6, <2>7, <2>8, <2>9 DEF HashDone
  <2>11. u = t
    BY <2>10 DEF HashStarts
  <2>12. p = q
    BY <2>10, <2>11 DEF HashStarts, Asking
  <2> QED BY <2>10, <2>11, <2>12 DEF HashStarts
<1> QED BY <1>1, TypeCorrect, LooksInvariant, PTL DEF HashStartsQuiet, Spec
=============================================================================
