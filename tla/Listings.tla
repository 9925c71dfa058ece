------------------------------- MODULE Listings -------------------------------
(***************************************************************************)
(* Reading one directory through the mount (synology-filestation-fuse      *)
(* fs/dirs.rs, DirCache in cache.rs): handles that keep the listing of     *)
(* their pass, a cache that expires and that the mount's own changes       *)
(* clear, and one fetch at a time that later readers join.                 *)
(*                                                                         *)
(* A listing is the number of changes the NAS had made when it read the    *)
(* directory.  A fetch spans the reading and the answer; it may fail.  Each*)
(* handle has one readdir at a time; the kernel may release it meanwhile.  *)
(***************************************************************************)
EXTENDS Naturals, FiniteSets

CONSTANTS Handles,
          Caching,       \* --cache-ttl is not 0
          MaxChanges, MaxFetches  \* bounds

None == 99    \* no listing, and no flight

ListingsAssumption ==
    /\ Caching \in BOOLEAN
    /\ MaxChanges \in Nat /\ MaxChanges < None
    /\ MaxFetches \in Nat /\ MaxFetches < None

VARIABLES world,         \* changes the NAS has made
          cached,        \* the listing cached, or None
          flight,        \* the flight in the map, or None
          cell,          \* per flight, the listing it came to, or None
          open, snap,    \* per handle: open, and the listing its pass reads
          req,           \* its readdir: where it is
          rewinds,       \* and whether it begins a pass
          hold,          \* the flight it holds, or None
          got,           \* what it has: a listing, or None
          served,        \* the last listing a readdir of it answered from
          change,        \* the mount's own change: none, made (to be cleared)
          acked,         \* changes of its own the mount has told of
          since, straddled,  \* history: acked at each readdir's start; a fetch was
                         \*   under way when a change was told of
          pass,          \* history: the listing each pass began with
          fetches        \* bound

cells == <<flight, cell, hold>>
handles == <<open, snap, req, rewinds, got, served>>
history == <<since, straddled, pass>>
vars == <<world, cached, cells, handles, change, acked, history, fetches>>

Listing == 0 .. MaxChanges
MaybeListing == Listing \cup {None}
Flights == 1 .. MaxFetches

TypeOK ==
    /\ world \in Listing /\ cached \in MaybeListing
    /\ flight \in Flights \cup {None} /\ cell \in [Flights -> MaybeListing]
    /\ open \in [Handles -> BOOLEAN] /\ snap \in [Handles -> MaybeListing]
    /\ req \in [Handles -> {"none", "looking", "waiting", "fetching", "listed", "settling"}]
    /\ rewinds \in [Handles -> BOOLEAN]
    /\ hold \in [Handles -> Flights \cup {None}]
    /\ got \in [Handles -> MaybeListing] /\ served \in [Handles -> MaybeListing]
    /\ change \in {"none", "made"} /\ acked \in Listing
    /\ since \in [Handles -> Listing] /\ straddled \in BOOLEAN
    /\ pass \in [Handles -> MaybeListing] /\ fetches \in 0 .. MaxFetches

Init ==
    /\ world = 0 /\ cached = None /\ flight = None /\ cell = [f \in Flights |-> None]
    /\ open = [h \in Handles |-> TRUE] /\ snap = [h \in Handles |-> None]
    /\ req = [h \in Handles |-> "none"] /\ rewinds = [h \in Handles |-> FALSE]
    /\ hold = [h \in Handles |-> None] /\ got = [h \in Handles |-> None]
    /\ served = [h \in Handles |-> None]
    /\ change = "none" /\ acked = 0
    /\ since = [h \in Handles |-> 0] /\ straddled = FALSE
    /\ pass = [h \in Handles |-> None] /\ fetches = 0

Goes(h, where) == req' = [req EXCEPT ![h] = where]

-----------------------------------------------------------------------------
(* readdir *)

\* start_readdir: past the first entry a pass answers from what it kept.
Continues(h) ==
    /\ open[h] /\ req[h] = "none" /\ snap[h] # None
    /\ served' = [served EXCEPT ![h] = snap[h]]
    /\ rewinds' = [rewinds EXCEPT ![h] = FALSE]
    /\ UNCHANGED <<world, cached, cells, open, snap, req, got, change, acked, history, fetches>>

\* From the start, or with nothing kept, the listing is asked for.
Asks(h) ==
    /\ open[h] /\ req[h] = "none"
    /\ \E first \in BOOLEAN :
         /\ first \/ snap[h] = None
         /\ rewinds' = [rewinds EXCEPT ![h] = first]
    /\ Goes(h, "looking")
    /\ since' = [since EXCEPT ![h] = acked]
    /\ UNCHANGED <<world, cached, cells, open, snap, got, served, change, acked, straddled, pass, fetches>>

\* Lister::get: from the cache, or by joining a flight.
Looks(h) ==
    /\ req[h] = "looking"
    /\ \/ /\ cached # None
          /\ got' = [got EXCEPT ![h] = cached] /\ Goes(h, "settling")
          /\ UNCHANGED <<cells, fetches>>
       \/ /\ cached = None
          /\ flight # None \/ fetches < MaxFetches
          /\ LET f == IF flight = None THEN fetches + 1 ELSE flight
             IN  flight' = f /\ hold' = [hold EXCEPT ![h] = f]
          /\ fetches' = IF flight = None THEN fetches + 1 ELSE fetches
          /\ Goes(h, "waiting") /\ UNCHANGED <<cell, got>>
    /\ UNCHANGED <<world, cached, open, snap, rewinds, served, change, acked, history>>

Fetching(f) == \E h \in Handles : hold[h] = f /\ req[h] \in {"fetching", "listed"}

\* The cell's value, or the turn to fetch it.
Turns(h) ==
    /\ req[h] = "waiting"
    /\ \/ /\ cell[hold[h]] # None
          /\ got' = [got EXCEPT ![h] = cell[hold[h]]] /\ Goes(h, "settling")
       \/ cell[hold[h]] = None /\ ~Fetching(hold[h]) /\ Goes(h, "fetching") /\ UNCHANGED got
    /\ UNCHANGED <<world, cached, cells, open, snap, rewinds, served, change, acked, history, fetches>>

\* The NAS reads the directory; the answer may be long on its way.
NasLists(h) ==
    /\ req[h] = "fetching" /\ Goes(h, "listed")
    /\ got' = [got EXCEPT ![h] = world]
    /\ UNCHANGED <<world, cached, cells, open, snap, rewinds, served, change, acked, history, fetches>>

\* The listing is cached and the cell set, or the fetch has failed.
Lands(h) ==
    /\ req[h] = "listed" /\ Goes(h, "settling")
    /\ \/ /\ cached' = IF Caching THEN got[h] ELSE cached
          /\ cell' = [cell EXCEPT ![hold[h]] = got[h]]
          /\ UNCHANGED got
       \/ got' = [got EXCEPT ![h] = None] /\ UNCHANGED <<cached, cell>>
    /\ UNCHANGED <<world, flight, hold, open, snap, rewinds, served, change, acked, history, fetches>>

\* A slip: one's own hold is still counted when the flight is judged.
LetsGo_Counted(h) ==
    /\ hold' = [hold EXCEPT ![h] = None]
    /\ flight' = IF flight = hold[h] /\ got[h] # None THEN None ELSE flight

\* A finished flight goes; a failed one goes with the last who holds it.
LetsGo(h) ==
    /\ hold' = [hold EXCEPT ![h] = None]
    /\ flight' = IF /\ flight = hold[h]
                    /\ got[h] # None \/ \A d \in Handles \ {h} : hold[d] # hold[h]
                 THEN None ELSE flight

\* A slip: the first listing of a handle is its listing.
Keeps_First(h) == IF snap[h] = None THEN got[h] ELSE snap[h]

\* The listing a handle keeps: the latest it was answered with.
Keeps(h) == got[h]

\* The answer: kept by a handle that is still open.
Settles(h) ==
    /\ req[h] = "settling" /\ Goes(h, "none")
    /\ IF hold[h] = None THEN UNCHANGED <<flight, hold>> ELSE LetsGo(h)
    /\ snap' = IF got[h] # None /\ open[h] THEN [snap EXCEPT ![h] = Keeps(h)] ELSE snap
    /\ served' = [served EXCEPT ![h] = got[h]]
    /\ pass' = IF got[h] = None THEN pass ELSE [pass EXCEPT ![h] = got[h]]
    /\ got' = [got EXCEPT ![h] = None]
    /\ UNCHANGED <<world, cached, cell, open, rewinds, change, acked, since, straddled, fetches>>

\* releasedir, perhaps with a readdir still under way.
Releases(h) ==
    /\ open[h]
    /\ open' = [open EXCEPT ![h] = FALSE] /\ snap' = [snap EXCEPT ![h] = None]
    /\ UNCHANGED <<world, cached, cells, req, rewinds, got, served, change, acked, history, fetches>>

-----------------------------------------------------------------------------
(* Changes and time. *)

\* A change by another machine, or by this mount, which then clears the listing.
Changes ==
    /\ world < MaxChanges /\ world' = world + 1
    /\ change = "none" /\ change' \in {"none", "made"}
    /\ UNCHANGED <<cached, cells, handles, acked, history, fetches>>

\* A slip: the listing is left to its expiry.
Clears_ByTtl ==
    /\ change = "made" /\ change' = "none"
    /\ acked' = world
    /\ straddled' = (straddled \/ \E h \in Handles : req[h] \notin {"none"})
    /\ UNCHANGED <<world, cached, cells, handles, since, pass, fetches>>

\* DirCache::invalidate, and the change is told of.
Clears ==
    /\ change = "made" /\ change' = "none"
    /\ cached' = None /\ acked' = world
    /\ straddled' = (straddled \/ \E h \in Handles : req[h] \notin {"none"})
    /\ UNCHANGED <<world, cells, handles, since, pass, fetches>>

Expires ==
    /\ cached # None /\ cached' = None
    /\ UNCHANGED <<world, cells, handles, change, acked, history, fetches>>

Readdir(h) == Asks(h) \/ Looks(h) \/ Turns(h) \/ NasLists(h) \/ Lands(h) \/ Settles(h)
Next ==
    \/ \E h \in Handles : Readdir(h) \/ Continues(h) \/ Releases(h)
    \/ Changes \/ Clears \/ Expires

Spec == Init /\ [][Next]_vars

-----------------------------------------------------------------------------
(* Properties *)

\* Readers of a directory share one fetch: "one fetch per directory at a time".
OneFetch == Cardinality({h \in Handles : req[h] \in {"fetching", "listed"}}) <= 1

\* A flight stays in the map only while somebody holds it, however its readers
\* fail: one left behind would hold its place for the life of the mount.
FlightsDrain == flight # None => \E h \in Handles : hold[h] = flight

\* One listing per pass: what a handle keeps is what its latest pass began with,
\* and a handle that was released keeps nothing.
PassIsOneListing == \A h \in Handles : snap[h] # None => open[h] /\ snap[h] = pass[h]

\* The mount's own change is missing from a listing asked for after it only if a
\* readdir was under way when it was told of.
StaleByOverlap ==
    \A h \in Handles : req[h] = "settling" /\ got[h] # None => got[h] >= since[h] \/ straddled

\* DirCache: "Our own mutations invalidate immediately; only a change made from
\* another machine waits for the TTL".
OwnChangesShow ==
    \A h \in Handles : req[h] = "settling" /\ got[h] # None => got[h] >= since[h]
=============================================================================
