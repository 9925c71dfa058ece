-------------------------------- MODULE Walks --------------------------------
(***************************************************************************)
(* Noticing processes that walk the whole mount (synology-filestation-fuse *)
(* walks.rs): opens and releases queued to one thread, which asks /proc    *)
(* whose they are, keeps a track per process id, and says when a walk      *)
(* begins and ends; and a window that stops a walker by its id.            *)
(*                                                                         *)
(* Ids are used again: a process is an id and the start it has, a thread's *)
(* id may pass from one process to another.  Each critical section of the  *)
(* lock is one action; /proc and the log are read and written between them.*)
(***************************************************************************)
EXTENDS Integers, Sequences, FiniteSets, Functions

CONSTANTS Pids, Spares,      \* process ids, and ids of further threads
          HeldDirs, WalkDirs, WalkFor, Quiet, ResolveEvery, PruneEvery,
          MaxStarts, MaxOpens, MaxTime, QueueDepth   \* bounds

WalksAssumption ==
    /\ Pids \cap Spares = {}
    /\ {HeldDirs, WalkDirs, Quiet, ResolveEvery, PruneEvery} \subseteq Nat \ {0}
    /\ {WalkFor, MaxStarts, MaxOpens, MaxTime, QueueDepth} \subseteq Nat

VARIABLES clock,
          live, gen,         \* per id: whether a process has it, and the latest's start
          spare,             \* per further thread: the process it belongs to, or NoProc
          holder,            \* per handle: the process that has it open (the kernel's)
          fhs,               \* handles given out
          queue,             \* events sent to the thread
          threads, handles, tracks, pruned,    \* Inner
          event,             \* the open being looked into: none, or <<event>>
          ended, begun,      \* News: walks over, and walks started, to be said
          stopping,          \* the process stop_at read, and what came of the signal
          goodbye,           \* the end stop_at has to say
          said,              \* history: starts logged less ends logged, per process
          signalled, walked  \* history: processes signalled, and ever reported

world == <<live, gen, spare, holder, fhs>>
inner == <<threads, handles, tracks, pruned>>
thread == <<event, ended, begun>>
stop == <<stopping, goodbye>>
vars == <<clock, world, queue, inner, thread, stop, said, signalled, walked>>

Procs == Pids \X (1 .. MaxStarts)
NoProc == <<>>
Fhs == 1 .. MaxOpens
Tids == Pids \cup Spares
Times == 0 .. MaxTime

Opened(f, t) == [kind |-> "opened", fh |-> f, tid |-> t, at |-> clock]
Released(f) == [kind |-> "released", fh |-> f, tid |-> 0, at |-> 0]

TypeOK ==
    /\ clock \in Times /\ live \in [Pids -> BOOLEAN] /\ gen \in [Pids -> 0 .. MaxStarts]
    /\ spare \in [Spares -> Procs \cup {NoProc}]
    /\ holder \in [Fhs -> Procs \cup {NoProc}] /\ fhs \in 0 .. MaxOpens
    /\ \A i \in DOMAIN queue : queue[i].kind \in {"opened", "released"}
    /\ \A t \in DOMAIN threads : t \in Tids /\ threads[t].of \in Procs /\ threads[t].at \in Times
    /\ \A f \in DOMAIN handles : f \in Fhs /\ handles[f] \in Pids
    /\ \A p \in DOMAIN tracks :
         /\ p \in Pids
         /\ tracks[p] \in [started : 1 .. MaxStarts, first : Times, last : Times,
                           opened : 0 .. MaxOpens, open : 0 .. MaxOpens, reported : BOOLEAN]
    /\ pruned \in Times \cup {MaxTime + 1}
    /\ Len(event) <= 1 /\ ended \in Seq(Procs) /\ begun \in Seq(Procs)
    /\ stopping \in {<<>>} \cup (Procs \X {"read", "gone"}) /\ goodbye \in Procs \cup {NoProc}
    /\ said \in [Procs -> Int]
    /\ signalled \subseteq Procs /\ walked \subseteq Procs

Init ==
    /\ clock = 0 /\ live = [p \in Pids |-> FALSE] /\ gen = [p \in Pids |-> 0]
    /\ spare = [t \in Spares |-> NoProc] /\ holder = [f \in Fhs |-> NoProc] /\ fhs = 0
    /\ queue = <<>> /\ threads = <<>> /\ handles = <<>> /\ tracks = <<>>
    /\ pruned = MaxTime + 1
    /\ event = <<>> /\ ended = <<>> /\ begun = <<>>
    /\ stopping = <<>> /\ goodbye = NoProc
    /\ said = [p \in Procs |-> 0] /\ signalled = {} /\ walked = {}

-----------------------------------------------------------------------------
(* The processes. *)

Running(p) == live[p[1]] /\ gen[p[1]] = p[2]

\* identify: the process a thread belongs to now, or NoProc.
Identify(t) ==
    IF t \in Pids THEN IF live[t] THEN <<t, gen[t]>> ELSE NoProc ELSE spare[t]

Starts(p) ==
    /\ ~live[p] /\ gen[p] < MaxStarts
    /\ live' = [live EXCEPT ![p] = TRUE] /\ gen' = [gen EXCEPT ![p] = @ + 1]
    /\ UNCHANGED <<clock, spare, holder, fhs, queue, inner, thread, stop, said, signalled, walked>>

\* Its threads go with it; its handles are closed, which the kernel tells of later.
Exits(p) ==
    /\ live[p] /\ live' = [live EXCEPT ![p] = FALSE]
    /\ spare' = [t \in Spares |-> IF spare[t] = <<p, gen[p]>> THEN NoProc ELSE spare[t]]
    /\ UNCHANGED <<clock, gen, holder, fhs, queue, inner, thread, stop, said, signalled, walked>>

\* A thread ends, or its id goes to a running process.
Threads(t) ==
    /\ spare' \in {[spare EXCEPT ![t] = p] :
                     p \in {NoProc} \cup {q \in Procs : Running(q)}} \ {spare}
    /\ spare[t] = NoProc \/ spare'[t] = NoProc
    /\ UNCHANGED <<clock, live, gen, holder, fhs, queue, inner, thread, stop, said, signalled, walked>>

\* opendir: Walks::opened sends.
Opens(t) ==
    /\ Identify(t) # NoProc /\ fhs < MaxOpens /\ Len(queue) < QueueDepth
    /\ fhs' = fhs + 1 /\ holder' = [holder EXCEPT ![fhs + 1] = Identify(t)]
    /\ queue' = Append(queue, Opened(fhs + 1, t))
    /\ UNCHANGED <<clock, live, gen, spare, inner, thread, stop, said, signalled, walked>>

\* releasedir, by its holder or for one that has exited: Walks::released sends.
Closes(f) ==
    /\ holder[f] # NoProc /\ Len(queue) < QueueDepth
    /\ holder' = [holder EXCEPT ![f] = NoProc]
    /\ queue' = Append(queue, Released(f))
    /\ UNCHANGED <<clock, live, gen, spare, fhs, inner, thread, stop, said, signalled, walked>>

Tick ==
    /\ clock < MaxTime /\ clock' = clock + 1
    /\ UNCHANGED <<world, queue, inner, thread, stop, said, signalled, walked>>

-----------------------------------------------------------------------------
(* The tracks. *)

Since(now, then) == IF now >= then THEN now - then ELSE 0

Held(k) == k.open >= HeldDirs

Walking(k, now) ==
    \/ Held(k)
    \/ Since(now, k.last) < Quiet /\ k.opened >= WalkDirs /\ Since(now, k.first) >= WalkFor

Finished(k, now) == k.open = 0 /\ Since(now, k.last) >= Quiet

Proc(ts, p) == <<p, ts[p].started>>
\* A map's values come in an order of its own.
InSomeOrder(S) == CHOOSE f \in [1 .. Cardinality(S) -> S] : IsInjective(f)
Listed(ts, S) == InSomeOrder({Proc(ts, p) : p \in S})

\* The reported walks that no longer are one.
Ceases(ts, now) == {p \in DOMAIN ts : ts[p].reported /\ ~Walking(ts[p], now)}

\* prune: reports what has begun or ended, and forgets the finished.
Due(now) == pruned = MaxTime + 1 \/ Since(now, pruned) >= PruneEvery
Begins(ts, now) == {p \in DOMAIN ts : ~ts[p].reported /\ Walking(ts[p], now)}
Settled(ts, now) == [p \in DOMAIN ts |-> [ts[p] EXCEPT
    !.reported = IF p \in Ceases(ts, now) THEN FALSE ELSE @ \/ p \in Begins(ts, now)]]
PrunedTracks(now) ==
    LET ts == Settled(tracks, now)
    IN  IF Due(now) THEN Restrict(ts, {p \in DOMAIN ts : ~Finished(ts[p], now)}) ELSE tracks
PrunedThreads(now) ==
    IF Due(now)
    THEN Restrict(threads, {t \in DOMAIN threads : Since(now, threads[t].at) < ResolveEvery})
    ELSE threads
\* A slip: a walk that still holds directories ends unsaid.
PruneEnds_Closed(now) ==
    IF Due(now) THEN Listed(tracks, {p \in Ceases(tracks, now) : tracks[p].open = 0}) ELSE <<>>
PruneEnds(now) == IF Due(now) THEN Listed(tracks, Ceases(tracks, now)) ELSE <<>>
PruneBegins(now) == IF Due(now) THEN Listed(tracks, Begins(tracks, now)) ELSE <<>>
PrunedAt(now) == IF Due(now) THEN now ELSE pruned

\* A thread seen lately, of a process that has a track.
KnownAs(ts, ths, e) ==
    /\ e.tid \in DOMAIN ths /\ Since(e.at, ths[e.tid].at) < ResolveEvery
    /\ ths[e.tid].of[1] \in DOMAIN ts /\ ts[ths[e.tid].of[1]].started = ths[e.tid].of[2]

\* A slip: the handles of the process that had the id stay its.
HandlesWithout_All(hs, p) == hs

\* handles.retain: a process that is gone holds nothing.
HandlesWithout(hs, p) == Restrict(hs, {f \in DOMAIN hs : hs[f] # p})

\* insert: x is put down as y, whatever it was.
With(f, x, y) == [z \in DOMAIN f \cup {x} |-> IF z = x THEN y ELSE f[z]]

\* record: an open of q, on the tracks ts.  The id may have been another's, and a
\* pause ends a run of opens.
Fresh(q, now) == [started |-> q[2], first |-> now, last |-> now, opened |-> 0, open |-> 0,
                  reported |-> FALSE]
Supplants(ts, q) == q[1] \in DOMAIN ts /\ ts[q[1]].started # q[2]
Base(ts, q, now) == IF q[1] \in DOMAIN ts /\ ~Supplants(ts, q) THEN ts[q[1]] ELSE Fresh(q, now)
Pauses(k, now) == Since(now, k.last) >= Quiet /\ ~Held(k)
Counted(k, now) ==
    LET run == IF Pauses(k, now)
               THEN [k EXCEPT !.first = now, !.opened = 0, !.reported = FALSE] ELSE k
    IN  [run EXCEPT !.last = now, !.opened = @ + 1, !.open = @ + 1]
Record(ts, q, e, ends, begins) ==
    LET k == Base(ts, q, e.at)
        run == Counted(k, e.at)
        starts == ~run.reported /\ Walking(run, e.at)
        over == (Supplants(ts, q) /\ ts[q[1]].reported) \/ (Pauses(k, e.at) /\ k.reported)
    IN  /\ tracks' = With(ts, q[1], [run EXCEPT !.reported = @ \/ starts])
        /\ handles' = With(IF Supplants(ts, q) THEN HandlesWithout(handles, q[1]) ELSE handles,
                           e.fh, q[1])
        /\ ended' = ends \o (IF over THEN <<Proc(ts, q[1])>> ELSE <<>>)
        /\ begun' = begins \o (IF starts THEN <<q>> ELSE <<>>)
        /\ walked' = walked \cup Range(begun')

-----------------------------------------------------------------------------
(* The thread.  What it found is said before the next event. *)

Idle == event = <<>> /\ ended = <<>> /\ begun = <<>>

\* opened_at, first section: the sweep, and an open whose thread is known.
Takes ==
    /\ Idle /\ queue # <<>> /\ Head(queue).kind = "opened"
    /\ \E e \in {Head(queue)} : \E ts \in {PrunedTracks(e.at)}, ths \in {PrunedThreads(e.at)} :
         /\ threads' = ths /\ pruned' = PrunedAt(e.at)
         /\ \/ /\ KnownAs(ts, ths, e)
               /\ Record(ts, ths[e.tid].of, e, PruneEnds(e.at), PruneBegins(e.at))
               /\ event' = <<>>
            \/ /\ ~KnownAs(ts, ths, e)
               /\ tracks' = ts /\ event' = <<e>>
               /\ ended' = PruneEnds(e.at) /\ begun' = PruneBegins(e.at)
               /\ walked' = walked \cup Range(begun')
               /\ UNCHANGED handles
    /\ queue' = Tail(queue)
    /\ UNCHANGED <<clock, world, stop, said, signalled>>

\* opened_at, second section: what /proc says of the thread, now.
Identifies ==
    /\ event # <<>> /\ event' = <<>>
    /\ \E e \in {event[1]} : \E q \in {Identify(e.tid)} :
         \/ q = NoProc /\ UNCHANGED <<threads, handles, tracks, ended, begun, walked>>
         \/ /\ q # NoProc
            /\ threads' = With(threads, e.tid, [of |-> q, at |-> e.at])
            /\ Record(tracks, q, e, ended, begun)
    /\ UNCHANGED <<clock, world, queue, pruned, stop, said, signalled>>

\* released.
TakesRelease ==
    /\ Idle /\ queue # <<>> /\ Head(queue).kind = "released"
    /\ queue' = Tail(queue)
    /\ LET f == Head(queue).fh IN
       IF f \in DOMAIN handles
       THEN /\ handles' = Restrict(handles, DOMAIN handles \ {f})
            /\ tracks' = IF handles[f] \in DOMAIN tracks
                         THEN [tracks EXCEPT ![handles[f]].open = Since(@, 1)] ELSE tracks
       ELSE UNCHANGED <<handles, tracks>>
    /\ UNCHANGED <<clock, world, threads, pruned, thread, stop, said, signalled, walked>>

\* tick: nothing was sent for a while.
Sweeps ==
    /\ Idle /\ queue = <<>> /\ Due(clock)
    /\ tracks' = PrunedTracks(clock) /\ threads' = PrunedThreads(clock) /\ pruned' = clock
    /\ ended' = PruneEnds(clock) /\ begun' = PruneBegins(clock)
    /\ walked' = walked \cup Range(begun')
    /\ UNCHANGED <<clock, world, queue, handles, event, stop, said, signalled>>

\* announce: the ends first, then each start, if its track is still there.
Says ==
    /\ event = <<>>
    /\ \/ /\ ended # <<>> /\ ended' = Tail(ended) /\ UNCHANGED begun
          /\ said' = [said EXCEPT ![Head(ended)] = @ - 1]
       \/ /\ ended = <<>> /\ begun # <<>> /\ begun' = Tail(begun) /\ UNCHANGED ended
          /\ LET p == Head(begun) IN
             said' = IF p[1] \in DOMAIN tracks /\ tracks[p[1]].started = p[2]
                     THEN [said EXCEPT ![p] = @ + 1] ELSE said
    /\ UNCHANGED <<clock, world, queue, inner, event, stop, signalled, walked>>

-----------------------------------------------------------------------------
(* stop_at, from a window. *)

\* The walker of that id is read.
Asked(p) ==
    /\ stopping = <<>> /\ goodbye = NoProc
    /\ p \in DOMAIN tracks /\ tracks[p].reported /\ Walking(tracks[p], clock)
    /\ stopping' = <<Proc(tracks, p), "read">>
    /\ UNCHANGED <<clock, world, queue, inner, thread, goodbye, said, signalled, walked>>

\* A slip: whatever has the id is signalled.
Names_ById(p) == IF live[p[1]] THEN <<p[1], gen[p[1]]>> ELSE NoProc

\* Who the signal reaches: that process, or nobody.
Names(p) == IF Running(p) THEN p ELSE NoProc

\* terminate: the check and the signal are one step, through a pidfd.
Terminates ==
    /\ stopping # <<>> /\ stopping[2] = "read"
    /\ IF Names(stopping[1]) = NoProc
       THEN stopping' = [stopping EXCEPT ![2] = "gone"] /\ UNCHANGED signalled
       ELSE stopping' = <<>> /\ signalled' = signalled \cup {Names(stopping[1])}
    /\ UNCHANGED <<clock, world, queue, inner, thread, goodbye, said, walked>>

\* It had exited on its own: its track goes, and its walk is over.
Forgets ==
    /\ stopping # <<>> /\ stopping[2] = "gone" /\ stopping' = <<>>
    /\ \E q \in {stopping[1]} :
         IF q[1] \in DOMAIN tracks /\ tracks[q[1]].started = q[2]
         THEN /\ goodbye' = IF tracks[q[1]].reported THEN q ELSE NoProc
              /\ tracks' = Restrict(tracks, DOMAIN tracks \ {q[1]})
              /\ handles' = HandlesWithout(handles, q[1])
         ELSE UNCHANGED <<goodbye, tracks, handles>>
    /\ UNCHANGED <<clock, world, queue, threads, pruned, thread, said, signalled, walked>>

SaysGoodbye ==
    /\ goodbye # NoProc /\ goodbye' = NoProc
    /\ said' = [said EXCEPT ![goodbye] = @ - 1]
    /\ UNCHANGED <<clock, world, queue, inner, thread, stopping, signalled, walked>>

Next ==
    \/ \E p \in Pids : Starts(p) \/ Exits(p) \/ Asked(p)
    \/ \E t \in Tids : Opens(t)
    \/ \E t \in Spares : Threads(t)
    \/ \E f \in Fhs : Closes(f)
    \/ Tick \/ Takes \/ Identifies \/ TakesRelease \/ Sweeps \/ Says
    \/ Terminates \/ Forgets \/ SaysGoodbye

Spec == Init /\ [][Next]_vars

-----------------------------------------------------------------------------
(* Properties *)

\* A track counts the handles that are put down to its id, no more and no fewer,
\* whoever had the id before; and every handle is put down to one.
CountsMatch ==
    /\ \A p \in DOMAIN tracks :
         tracks[p].open = Cardinality({f \in DOMAIN handles : handles[f] = p})
    /\ \A f \in DOMAIN handles : handles[f] \in DOMAIN tracks

\* prune: "its walk ending unlogged left the log with two starts and no end".
NoTwoStarts == \A p \in Procs : said[p] <= 1

\* stop: "only while its id still names the process that was seen walking".
OnlyWalkersStopped == signalled \subseteq walked

\* RESOLVE_EVERY: a thread id used again "costs a count, never a signal": no
\* process is signalled while another's directories count against it.
NeverASignal ==
    [][\A p \in signalled' \ signalled : \A f \in DOMAIN handles :
         handles[f] = p[1] => holder[f] \in {NoProc, p}]_vars
=============================================================================
