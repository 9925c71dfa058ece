-------------------------------- MODULE Names --------------------------------
(***************************************************************************)
(* The names of the mount: InodeCache (synology-filestation-fuse           *)
(* src/cache.rs) and the callbacks that change it (fs/callbacks.rs, the    *)
(* ends of transfers and moves in fs/transfer.rs, the entries a readdir    *)
(* hands out in fs/dirs.rs).  The kernel names things by the numbers it was*)
(* given, the NAS by their paths; the cache is what ties the two.          *)
(*                                                                         *)
(* A callback is the list of its steps: calls to the NAS, and uses of the  *)
(* cache, of one lock each; several event-loop threads run at once, and    *)
(* the steps of different threads interleave.  An answer of the NAS may be *)
(* lost with the call carried out.  Paths are sequences of names; a name   *)
(* may begin with another, which is what a sweep by prefix can mistake.    *)
(***************************************************************************)
EXTENDS Naturals, Sequences, FiniteSets
LOCAL INSTANCE SequencesExt
LOCAL INSTANCE FiniteSetsExt

CONSTANTS Paths,         \* those below the share: sequences of names
          Longer,        \* pairs <<n, m>> of names, where m is longer and begins with n
          Things,        \* what may be at a path at the start
          Threads,       \* event-loop threads, and tasks of the runtime
          MaxJobs        \* bound

NamesAssumption == /\ \A p \in Paths : Len(p) \in {1, 2}
                   /\ Things \subseteq [Paths -> {"none", "file", "dir"}]
                   /\ MaxJobs \in Nat /\ IsFiniteSet(Paths)

VARIABLES nas,           \* what is at each path on the NAS
          unsent,        \* paths created here and not uploaded yet
          nextIno,
          byIno,         \* number -> the path of its details, which age out
          inoOf,         \* path -> its number
          pathOf,        \* number -> its path
          held,          \* numbers the kernel was given
          todo,          \* per thread, the steps left of its callback
          ino,           \* and the number it has found
          given,         \* history: the path each number was given out for
          took,          \* what a rename removed to make room, or Nowhere
          excused,       \* callbacks overlapped, or the cache was told less than was done
          jobs           \* bound

cache == <<nextIno, byIno, inoOf, pathOf, given>>
vars == <<nas, unsent, cache, held, todo, ino, took, excused, jobs>>

Nowhere == <<>>
Inos == 1 .. (Cardinality(Paths) + 2 * MaxJobs)
Idle(t) == todo[t] = <<>>
Parent(p) == SubSeq(p, 1, Len(p) - 1)
Name(p) == p[Len(p)]
Children(p) == {q \in Paths : Parent(q) = p /\ nas[q] # "none"}
Under(q, p) == Len(q) >= Len(p) /\ SubSeq(q, 1, Len(p)) = p

\* str::starts_with over whole paths: the last name need only begin alike.
StartsWith(q, p) ==
    /\ Len(q) >= Len(p) /\ SubSeq(q, 1, Len(p) - 1) = Parent(p)
    /\ q[Len(p)] = Name(p) \/ <<Name(p), q[Len(p)]>> \in Longer

TypeOK ==
    /\ nas \in [Paths -> {"none", "file", "dir"}] /\ unsent \subseteq Paths
    /\ nextIno \in Nat /\ given \in [Inos -> Paths \cup {Nowhere}]
    /\ byIno \in [Inos -> Paths \cup {Nowhere}] /\ pathOf \in [Inos -> Paths \cup {Nowhere}]
    /\ inoOf \in [Paths -> Inos \cup {0}] /\ held \subseteq Inos
    /\ ino \in [Threads -> Inos \cup {0}]
    /\ took \in [Threads -> Paths \cup {Nowhere}] /\ excused \in BOOLEAN /\ jobs \in 0 .. MaxJobs

\* A mount that has been walked: what is there is known, by one number each.
Init ==
    /\ nas \in Things /\ unsent = {} /\ jobs = 0 /\ excused = FALSE
    /\ LET there == SetToSeq({p \in Paths : nas[p] # "none"})
       IN  /\ nextIno = Len(there) + 1
           /\ given = [i \in Inos |-> IF i <= Len(there) THEN there[i] ELSE Nowhere]
    /\ inoOf = [p \in Paths |-> Max({i \in Inos : given[i] = p} \cup {0})]
    /\ byIno = given /\ pathOf = given /\ held = 1 .. (nextIno - 1)
    /\ todo = [t \in Threads |-> <<>>] /\ ino = [t \in Threads |-> 0]
    /\ took = [t \in Threads |-> Nowhere]

-----------------------------------------------------------------------------
(* InodeCache *)

\* get_path_for_ino
PathFor(i) == IF byIno[i] # Nowhere THEN byIno[i] ELSE pathOf[i]

\* The folder's number is one the kernel holds; the share's own always answers.
Resolves(p) == Parent(p) = Nowhere \/ \E i \in held : PathFor(i) = Parent(p)

\* Drops the paths of ps with their numbers and their details.
Drop(ps) ==
    LET gone == {inoOf[p] : p \in ps}
    IN  /\ inoOf' = [p \in Paths |-> IF p \in ps THEN 0 ELSE inoOf[p]]
        /\ byIno' = [i \in Inos |-> IF i \in gone THEN Nowhere ELSE byIno[i]]
        /\ pathOf' = [i \in Inos |-> IF i \in gone THEN Nowhere ELSE pathOf[i]]
        /\ UNCHANGED <<nextIno, given>>

\* A slip: only the path itself is swept.
Swept_Itself(p) == {p}

\* What invalidate_prefix drops.
Swept(p) == {q \in Paths : inoOf[q] # 0 /\ StartsWith(q, p)}

\* What it drops given a path with a separator at its end.
SweptBelow(p) == {q \in Paths : inoOf[q] # 0 /\ Under(q, p) /\ q # p}

\* A slip: the path is not looked for again once the lock is taken.
Allocates_Unchecked(t, p) ==
    /\ ino' = [ino EXCEPT ![t] = nextIno]
    /\ nextIno' = nextIno + 1
    /\ inoOf' = [inoOf EXCEPT ![p] = nextIno]
    /\ given' = [given EXCEPT ![nextIno] = p]

\* get_or_alloc_ino, under its locks.
Allocates(t, p) ==
    IF inoOf[p] # 0
    THEN ino' = [ino EXCEPT ![t] = inoOf[p]] /\ UNCHANGED <<nextIno, inoOf, given>>
    ELSE /\ ino' = [ino EXCEPT ![t] = nextIno]
         /\ nextIno' = nextIno + 1
         /\ inoOf' = [inoOf EXCEPT ![p] = nextIno]
         /\ given' = [given EXCEPT ![nextIno] = p]

-----------------------------------------------------------------------------
(* Callbacks, as the steps they take when all goes well. *)

GetOrAlloc(p) == <<<<"find", p>>, <<"alloc", p>>>>
Insert(p) == <<<<"detail", p>>, <<"name", p>>, <<"back", p>>>>
Forget(p) == <<<<"forget", p>>>>

Lookup(p) == GetOrAlloc(p) \o <<<<"peek", p>>, <<"info", p>>>> \o GetOrAlloc(p) \o Insert(p) \o <<<<"reply", p>>>>
Getattr(p) == <<<<"peek", p>>, <<"info", p>>>> \o Insert(p)
Truncate(p) == <<<<"truncate", p>>>> \o Forget(p) \o <<<<"info", p>>>> \o Insert(p)
Create(p) == GetOrAlloc(p) \o Insert(p) \o <<<<"created", p>>, <<"reply", p>>>>
Upload(p) == <<<<"upload", p>>>> \o Forget(p)
Unlink(p) == <<<<"delete", p>>>> \o Forget(p)
Rmdir(p) == <<<<"delete", p>>, <<"sweep", p>>>>
Mkdir(p) == <<<<"mkdir", p>>>> \o GetOrAlloc(p) \o Insert(p) \o <<<<"reply", p>>>>

\* A slip: the number follows the thing to its new name.
Rename_KeepsNumber(p, q) ==
    <<<<"forget", q>>, <<"clear", q>>, <<"rename", p, q>>>>
    \o GetOrAlloc(p) \o Forget(p) \o Insert(q)

\* rename within a folder: the destination is deleted first.
Rename(p, q) ==
    <<<<"forget", q>>, <<"clear", q>>, <<"rename", p, q>>, <<"forget", p>>>>
    \o GetOrAlloc(q) \o Insert(q)

\* forget_moved, whatever came of the move.
Move(p, q) ==
    <<<<"move", p, q>>, <<"forget", p>>, <<"below", p>>, <<"forget", q>>, <<"below", q>>>>

\* An entry of a readdir, from the listing its pass reads.
Listed(p) == GetOrAlloc(p) \o Insert(p)

\* A callback begins; `also` is what else excuses the cache from then on.
Begin(t, number, steps, also) ==
    /\ Idle(t) /\ jobs < MaxJobs /\ jobs' = jobs + 1
    /\ todo' = [todo EXCEPT ![t] = steps]
    /\ ino' = [ino EXCEPT ![t] = number]
    /\ took' = [took EXCEPT ![t] = Nowhere]
    /\ excused' = (excused \/ also \/ \E u \in Threads : ~Idle(u))
    /\ UNCHANGED <<nas, unsent, cache, held>>

\* What the kernel finds at p before it calls: it checks kinds itself.
Seen(p) == IF p \in unsent THEN "file" ELSE nas[p]

\* Callbacks on a folder's entry, by its name.
ByName(t) ==
    \E p \in Paths :
      /\ Resolves(p)
      /\ \/ Begin(t, 0, Lookup(p), FALSE)
         \/ Seen(p) = "none" /\ Begin(t, 0, Create(p), FALSE)
         \/ Seen(p) = "none" /\ Begin(t, 0, Mkdir(p), FALSE)
         \/ Seen(p) = "file" /\ Begin(t, 0, Unlink(p), FALSE)
         \/ Seen(p) = "dir" /\ Begin(t, 0, Rmdir(p), FALSE)

\* Callbacks on a number the kernel holds.
ByNumber(t) ==
    \E i \in held :
      /\ PathFor(i) # Nowhere
      /\ \E steps \in {Getattr(PathFor(i)), Truncate(PathFor(i))} : Begin(t, i, steps, FALSE)

\* rename: in one folder, or across two.  One of a folder in its place tells the
\* cache nothing of what is below it.
Renames(t) ==
    \E p \in Paths, q \in Paths :
      /\ p # q /\ Resolves(p) /\ Resolves(q)
      /\ Seen(p) # "none" /\ Seen(q) \in {"none", Seen(p)}
      /\ IF Parent(p) = Parent(q)
         THEN Begin(t, 0, Rename(p, q), Children(p) \cup Children(q) # {})
         ELSE ~Under(q, p) /\ ~Under(p, q) /\ Begin(t, 0, Move(p, q), FALSE)

\* The upload of what was created, and a readdir's entry, which may be long gone.
Background(t) ==
    \/ \E p \in unsent : Begin(t, 0, Upload(p), FALSE)
    \/ \E p \in Paths : Begin(t, 0, Listed(p), nas[p] = "none")

-----------------------------------------------------------------------------
(* Steps *)

At(t, what) == ~Idle(t) /\ Head(todo[t])[1] = what
Subject(t) == Head(todo[t])[2]
Ahead(t) == todo' = [todo EXCEPT ![t] = Tail(@)]
Skip(t) == todo' = [todo EXCEPT ![t] = SubSeq(@, 3, Len(@))]
Fails(t) == todo' = [todo EXCEPT ![t] = <<<<"fail", Subject(t)>>>>]

\* The read of get_or_alloc_ino; past it the locks are needed.
Find(t) ==
    /\ At(t, "find")
    /\ IF inoOf[Subject(t)] # 0
       THEN ino' = [ino EXCEPT ![t] = inoOf[Subject(t)]] /\ Skip(t)
       ELSE Ahead(t) /\ UNCHANGED ino
    /\ UNCHANGED <<nas, unsent, cache, held, took, excused, jobs>>

Alloc(t) ==
    /\ At(t, "alloc") /\ Allocates(t, Subject(t)) /\ Ahead(t)
    /\ UNCHANGED <<nas, unsent, byIno, pathOf, held, took, excused, jobs>>

\* get_by_ino: details there answer at once; they may just have aged out.
Peek(t) ==
    /\ At(t, "peek")
    /\ \/ /\ byIno[ino[t]] # Nowhere
          /\ todo' = [todo EXCEPT ![t] = <<<<"reply", Subject(t)>>>>] /\ UNCHANGED byIno
       \/ byIno' = [byIno EXCEPT ![ino[t]] = Nowhere] /\ Ahead(t)
    /\ UNCHANGED <<nas, unsent, nextIno, inoOf, pathOf, given, held, ino, took, excused, jobs>>

\* The three maps of insert, one after the other.
InsertStep(t) ==
    /\ \/ /\ At(t, "detail") /\ byIno' = [byIno EXCEPT ![ino[t]] = Subject(t)]
          /\ UNCHANGED <<inoOf, pathOf>>
       \/ /\ At(t, "name") /\ inoOf' = [inoOf EXCEPT ![Subject(t)] = ino[t]]
          /\ UNCHANGED <<byIno, pathOf>>
       \/ /\ At(t, "back") /\ pathOf' = [pathOf EXCEPT ![ino[t]] = Subject(t)]
          /\ UNCHANGED <<byIno, inoOf>>
    /\ Ahead(t)
    /\ UNCHANGED <<nas, unsent, nextIno, given, held, ino, took, excused, jobs>>

\* invalidate_path, and invalidate_prefix without and with a separator.
Invalidate(t) ==
    /\ \/ At(t, "forget") /\ Drop({p \in {Subject(t)} : inoOf[p] # 0})
       \/ At(t, "sweep") /\ Drop(Swept(Subject(t)))
       \/ At(t, "below") /\ Drop(SweptBelow(Subject(t)))
    /\ Ahead(t)
    /\ UNCHANGED <<nas, unsent, held, ino, took, excused, jobs>>

\* The reply: the kernel is given the number, if there is one and all went well.
Reply(t) ==
    /\ \/ At(t, "reply") /\ held' = held \cup {ino[t]} /\ UNCHANGED unsent
       \/ At(t, "created") /\ unsent' = unsent \cup {Subject(t)} /\ UNCHANGED held
       \/ At(t, "fail") /\ UNCHANGED <<held, unsent>>
    /\ Ahead(t)
    /\ UNCHANGED <<nas, cache, ino, took, excused, jobs>>

-----------------------------------------------------------------------------
(* Calls to the NAS *)

Without(p) == [q \in Paths |-> IF Under(q, p) THEN "none" ELSE nas[q]]

\* What was at p, and below it, is at q.
MovedTo(p, q) ==
    [r \in Paths |->
        IF Under(r, q)
        THEN LET from == p \o SubSeq(r, Len(q) + 1, Len(r))
             IN  IF from \in Paths THEN nas[from] ELSE "none"
        ELSE IF Under(r, p) THEN "none" ELSE nas[r]]

\* FileStation deletes a folder with all that is in it; over SMB it must be empty.
Deletes(p) == nas[p] # "none" /\ nas' = Without(p)

FolderThere(p) == IF Parent(p) = Nowhere THEN TRUE ELSE nas[Parent(p)] = "dir"

\* The call, where it can be made.  (A move replaces as Moves says it may.)
Carried(t) ==
    LET p == Subject(t)
        q == Head(todo[t])[3]
    IN  \/ At(t, "delete") /\ Deletes(p)
        \/ At(t, "clear") /\ Deletes(p)
        \/ At(t, "mkdir") /\ nas[p] = "none" /\ FolderThere(p) /\ nas' = [nas EXCEPT ![p] = "dir"]
        \/ At(t, "upload") /\ nas[p] = "none" /\ FolderThere(p) /\ nas' = [nas EXCEPT ![p] = "file"]
        \/ At(t, "rename") /\ nas[p] # "none" /\ nas[q] = "none" /\ nas' = MovedTo(p, q)
        \/ /\ At(t, "move") /\ nas[p] # "none" /\ FolderThere(q)
           /\ nas[q] # "none" => nas[q] = nas[p] /\ Children(q) = {}
           /\ nas' = MovedTo(p, q)
        \/ At(t, "info") /\ nas[p] # "none" /\ UNCHANGED nas
        \/ At(t, "truncate") /\ nas[p] = "file" /\ UNCHANGED nas

\* A deletion before a rename, and a move, go on whatever came of them.
GoesOn(t) == At(t, "clear") \/ At(t, "move")
Calls == {"delete", "clear", "mkdir", "upload", "rename", "move", "info", "truncate"}

\* The call is made and answered.
Answered(t) ==
    /\ Carried(t) /\ Ahead(t)
    /\ took' = IF At(t, "clear") THEN [took EXCEPT ![t] = Subject(t)] ELSE took
    /\ unsent' = IF At(t, "upload") THEN unsent \ {Subject(t)} ELSE unsent
    /\ UNCHANGED <<cache, held, ino, excused, jobs>>

\* It is made, and reported as failed: its answer is lost, and it is refused sent again.
AnswerLost(t) ==
    /\ Carried(t) /\ nas' # nas /\ IF GoesOn(t) THEN Ahead(t) ELSE Fails(t)
    /\ took' = IF At(t, "clear") THEN [took EXCEPT ![t] = Subject(t)] ELSE took
    /\ excused' = (excused \/ ~GoesOn(t))
    /\ UNCHANGED <<unsent, cache, held, ino, jobs>>

\* It fails.
CallFails(t) ==
    /\ \E c \in Calls : At(t, c)
    /\ IF GoesOn(t) THEN Ahead(t) ELSE Fails(t)
    /\ UNCHANGED <<nas, unsent, cache, held, ino, took, excused, jobs>>

Steps(t) ==
    \/ Find(t) \/ Alloc(t) \/ Peek(t) \/ InsertStep(t) \/ Invalidate(t) \/ Reply(t)
    \/ Answered(t) \/ AnswerLost(t) \/ CallFails(t)
Next == \E t \in Threads : ByName(t) \/ ByNumber(t) \/ Renames(t) \/ Background(t) \/ Steps(t)

Spec == Init /\ [][Next]_vars

-----------------------------------------------------------------------------
(* Properties *)

\* A number means one path for ever: whatever the three maps say of it, and however
\* lookups, inserts and sweeps of different threads fall among each other's steps, is
\* the path it was given out for.  (Open files and cached blocks go by the number.)
InodeIsOnePath ==
    /\ \A i \in Inos : byIno[i] \in {Nowhere, given[i]} /\ pathOf[i] \in {Nowhere, given[i]}
    /\ \A p \in Paths : inoOf[p] # 0 => given[inoOf[p]] = p

\* A path is given a second number only once its first was dropped.
OneNumberAtATime ==
    [][nextIno' # nextIno => inoOf[given'[nextIno]] = 0]_vars

\* With callbacks that did not overlap and answers that arrived, no details are left of
\* what the mount itself removed or moved away.
RemovedIsForgotten ==
    (~excused /\ \A t \in Threads : Idle(t)) =>
        \A i \in Inos : byIno[i] # Nowhere => (nas[byIno[i]] # "none" \/ byIno[i] \in unsent)

\* DirCache::invalidate_prefix: "The trailing separator is what keeps `/photostudio` out
\* of a sweep of `/photos` - the same distinction [`InodeCache::invalidate_prefix`] draws".
SweepsOnlyUnder ==
    [][\A t \in Threads : At(t, "sweep") /\ todo'[t] # todo[t] =>
          \A q \in Paths : inoOf'[q] # inoOf[q] => Under(q, Subject(t))]_vars

\* rename: "POSIX rename(2) must atomically replace the destination if it exists": one
\* that fails has not left the destination's place empty.
RenameReplaces ==
    \A t \in Threads : At(t, "fail") /\ took[t] # Nowhere => nas[took[t]] # "none"
=============================================================================
