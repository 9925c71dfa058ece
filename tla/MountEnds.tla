------------------------------ MODULE MountEnds ------------------------------
(***************************************************************************)
(* How a Linux mount comes down (synology-filestation-fuse lib.rs, main.rs *)
(* and synology-filestation-ffi lib.rs).                                   *)
(*                                                                         *)
(* Four parties: the front end that wants it gone (the command line, or a  *)
(* GUI through the C ABI, whose thread is not held for longer than its     *)
(* patience); the thread that tears down; the thread that unmounts and     *)
(* joins the session; and the kernel, which refuses an unmount while the   *)
(* mount is in use and keeps the connection until its last user lets go.   *)
(* A worker inside a callback runs on the client's runtime, so the runtime *)
(* must not go before the worker does.                                     *)
(***************************************************************************)
EXTENDS Naturals

CONSTANTS Patience     \* both UNMOUNT_PATIENCE: seconds before giving up waiting

EndsAssumption == Patience \in Nat \ {0}

VARIABLES front,       \* cli or gui
          attached,    \* the mount is in the directory tree
          alive,       \* its FUSE connection
          users, busy, \* a process uses it; a callback waits for the NAS
          loop,        \* the session's threads run
          recorded,    \* the connection's abort file was opened at mount
          remounted,   \* another mount has our connection's number now
          aborted,     \* which connections were aborted
          join, tear, gui,     \* where each thread is
          waited, watched,     \* how long tear_down and the GUI have waited
          watching, looking,   \* the leg watch, and a look of its under way
          owners       \* who keeps the runtime

kernel == <<attached, alive, users, busy, loop, recorded, remounted, aborted>>
threads == <<join, tear, gui, waited, watched>>
vars == <<front, kernel, threads, watching, looking, owners>>

TypeOK ==
    /\ front \in {"cli", "gui"}
    /\ attached \in BOOLEAN /\ alive \in BOOLEAN /\ users \in BOOLEAN
    /\ busy \in BOOLEAN /\ loop \in BOOLEAN /\ recorded \in BOOLEAN
    /\ remounted \in BOOLEAN /\ aborted \subseteq {"ours", "other"}
    /\ join \in {"none", "unmounting", "joining", "done"}
    /\ tear \in {"none", "first", "detaching", "second", "last", "done"}
    /\ gui \in {"mounted", "waiting", "unmounted", "out", "freed"}
    /\ waited \in 0 .. Patience /\ watched \in 0 .. Patience
    /\ watching \in BOOLEAN /\ looking \in BOOLEAN
    /\ owners \subseteq {"client", "mount"}

\* spawn_mount: the connection is identified while the mount is healthy, or not.
Init ==
    /\ front \in {"cli", "gui"}
    /\ attached = TRUE /\ alive = TRUE /\ loop = TRUE
    /\ users = FALSE /\ busy = FALSE
    /\ recorded \in BOOLEAN
    /\ remounted = FALSE /\ aborted = {}
    /\ join = "none" /\ tear = "none" /\ gui = "mounted"
    /\ waited = 0 /\ watched = 0
    /\ watching = TRUE /\ looking = FALSE
    /\ owners = {"client", "mount"}

-----------------------------------------------------------------------------
(* The kernel and those who use the mount. *)

Used ==
    /\ attached /\ alive /\ ~users
    /\ users' = TRUE
    /\ UNCHANGED <<front, attached, alive, busy, loop, recorded, remounted, aborted,
                   threads, watching, looking, owners>>

\* A request reaches a worker, which waits for the NAS inside the callback.
Requests ==
    /\ users /\ alive /\ loop /\ ~busy
    /\ busy' = TRUE
    /\ UNCHANGED <<front, attached, alive, users, loop, recorded, remounted, aborted,
                   threads, watching, looking, owners>>

\* The request answers or gives up at last.
NasAnswers ==
    /\ busy /\ busy' = FALSE
    /\ UNCHANGED <<front, attached, alive, users, loop, recorded, remounted, aborted,
                   threads, watching, looking, owners>>

\* A process in a request cannot leave before it is answered.
LetsGo ==
    /\ users /\ (busy => ~alive)
    /\ users' = FALSE
    /\ UNCHANGED <<front, attached, alive, busy, loop, recorded, remounted, aborted,
                   threads, watching, looking, owners>>

\* The kernel keeps a detached connection until its last user lets go.
ConnectionEnds ==
    /\ alive /\ ~attached /\ ~users
    /\ alive' = FALSE
    /\ UNCHANGED <<front, attached, users, busy, loop, recorded, remounted, aborted,
                   threads, watching, looking, owners>>

\* The session's threads see the end of /dev/fuse, between callbacks.
LoopEnds ==
    /\ loop /\ ~alive /\ ~busy
    /\ loop' = FALSE
    /\ UNCHANGED <<front, attached, alive, users, busy, recorded, remounted, aborted,
                   threads, watching, looking, owners>>

\* The lowest free number is given to the next mount that is made.
Remount ==
    /\ ~alive /\ ~remounted
    /\ remounted' = TRUE
    /\ UNCHANGED <<front, attached, alive, users, busy, loop, recorded, aborted,
                   threads, watching, looking, owners>>

-----------------------------------------------------------------------------
(* The thread that unmounts and joins (fuser's umount_and_join). *)

\* An unmount that is not lazy fails while anybody uses the mount.
Unmounts ==
    /\ join = "unmounting" /\ join' = "joining"
    /\ attached' = (attached /\ users)
    /\ UNCHANGED <<front, alive, users, busy, loop, recorded, remounted, aborted,
                   tear, gui, waited, watched, watching, looking, owners>>

Joins ==
    /\ join = "joining" /\ ~loop
    /\ join' = "done"
    /\ UNCHANGED <<front, kernel, tear, gui, waited, watched, watching, looking, owners>>

-----------------------------------------------------------------------------
(* tear_down, the drop of the mount. *)

\* A slip: past the second deadline the thread is left to itself.
TearEnds_NotJoined ==
    /\ tear \in {"first", "second", "last"}
    /\ join = "done" \/ tear = "last"
    /\ tear' = "done"
    /\ owners' = owners \ {"mount"}
    /\ UNCHANGED <<front, kernel, join, gui, waited, watched, watching, looking>>

\* It has been told of the join: what is left is to let go of the handle, and
\* through the C ABI of the runtime with it.
TearEnds ==
    /\ tear \in {"first", "second", "last"} /\ join = "done"
    /\ tear' = "done"
    /\ owners' = owners \ {"mount"}
    /\ UNCHANGED <<front, kernel, join, gui, waited, watched, watching, looking>>

\* Out of patience: detach.
GivesUp ==
    /\ tear = "first" /\ join # "done" /\ waited = Patience
    /\ tear' = "detaching"
    /\ UNCHANGED <<front, kernel, join, gui, waited, watched, watching, looking, owners>>

\* fusermount -u -z takes the mount out of the tree whoever uses it, unless
\* neither tool is there; then it waits again.
Detach ==
    /\ tear = "detaching"
    /\ tear' = "second" /\ waited' = 0
    /\ attached' \in {FALSE, attached}
    /\ UNCHANGED <<front, alive, users, busy, loop, recorded, remounted, aborted,
                   join, gui, watched, watching, looking, owners>>

\* A slip: the number is looked up when it is needed.
Abort_ByNumber ==
    /\ tear = "second" /\ join # "done" /\ waited = Patience
    /\ tear' = "last"
    /\ alive' = (alive /\ ~recorded)
    /\ aborted' = aborted \cup (IF ~recorded THEN {} ELSE IF alive THEN {"ours"}
                                ELSE IF remounted THEN {"other"} ELSE {})
    /\ UNCHANGED <<front, attached, users, busy, loop, recorded, remounted,
                   join, gui, waited, watched, watching, looking, owners>>

\* A slip: the last resort is to wait for the last user.
Abort_OnlyWaits ==
    /\ tear = "second" /\ join # "done" /\ waited = Patience
    /\ tear' = "last"
    /\ UNCHANGED <<front, kernel, join, gui, waited, watched, watching, looking, owners>>

\* Out of patience again: abort the connection whose file is open.  A write
\* through the file of a connection that is gone does nothing.
Abort ==
    /\ tear = "second" /\ join # "done" /\ waited = Patience
    /\ tear' = "last"
    /\ alive' = (alive /\ ~recorded)
    /\ aborted' = aborted \cup (IF recorded /\ alive THEN {"ours"} ELSE {})
    /\ UNCHANGED <<front, attached, users, busy, loop, recorded, remounted,
                   join, gui, waited, watched, watching, looking, owners>>

-----------------------------------------------------------------------------
(* The front end. *)

\* The command line stops the watch before anything is torn down; the GUI
\* unmounts first.  Both begin the teardown on another thread.
Stops ==
    /\ gui = "mounted" /\ gui' = "waiting"
    /\ tear' = "first" /\ join' = "unmounting"
    /\ watching' = (watching /\ front = "gui")
    /\ looking' = (looking /\ front = "gui")
    /\ UNCHANGED <<front, kernel, waited, watched, owners>>

\* stop() returns when teardown has; syno_unmount (finish_within) at the latest
\* when its patience is over, leaving the rest to run.
Returns ==
    /\ gui = "waiting"
    /\ tear = "done" \/ (front = "gui" /\ watched = Patience)
    /\ gui' = "unmounted"
    /\ UNCHANGED <<front, kernel, join, tear, waited, watched, watching, looking, owners>>

\* A slip: the watch is left to the free.
LogsOut_StillLooking ==
    /\ gui = "unmounted" /\ gui' = "out"
    /\ UNCHANGED <<front, kernel, join, tear, waited, watched, watching, looking, owners>>

\* syno_logout aborts the watch before it logs out.
LogsOut ==
    /\ gui = "unmounted" /\ gui' = "out"
    /\ watching' = FALSE /\ looking' = FALSE
    /\ UNCHANGED <<front, kernel, join, tear, waited, watched, owners>>

\* syno_client_free, or the end of run: the client lets go of the runtime.
Frees ==
    /\ gui = "out" /\ gui' = "freed"
    /\ watching' = FALSE /\ looking' = FALSE
    /\ owners' = owners \ (IF front = "cli" THEN {"client", "mount"} ELSE {"client"})
    /\ UNCHANGED <<front, kernel, join, tear, waited, watched>>

\* The leg watch, which may raise a tunnel: a real login.
Looks ==
    /\ watching /\ looking' = ~looking
    /\ UNCHANGED <<front, kernel, threads, watching, owners>>

\* fusermount takes no time to fail or succeed, and nobody oversleeps a deadline.
Tick ==
    /\ join # "unmounting"
    /\ tear \in {"first", "second"} \/ gui = "waiting"
    /\ tear \in {"first", "second"} => waited < Patience
    /\ (gui = "waiting" /\ front = "gui") => watched < Patience
    /\ waited' = IF tear \in {"first", "second"} THEN waited + 1 ELSE waited
    /\ watched' = IF gui = "waiting" /\ front = "gui" THEN watched + 1 ELSE watched
    /\ UNCHANGED <<front, kernel, join, tear, gui, watching, looking, owners>>

Kernel == Used \/ Requests \/ NasAnswers \/ LetsGo \/ ConnectionEnds \/ LoopEnds \/ Remount
Teardown == Unmounts \/ Joins \/ TearEnds \/ GivesUp \/ Detach \/ Abort
Front == Stops \/ Returns \/ LogsOut \/ Frees \/ Looks
Next == Kernel \/ Teardown \/ Front \/ Tick

Spec == Init /\ [][Next]_vars

\* Requests end, if only by giving up; the kernel and the threads go on.  Nobody
\* who uses the mount has to let go.
FairSpec ==
    /\ Spec
    /\ WF_vars(NasAnswers) /\ WF_vars(ConnectionEnds) /\ SF_vars(LoopEnds)
    /\ WF_vars(Teardown) /\ WF_vars(Returns) /\ SF_vars(Tick)

-----------------------------------------------------------------------------
(* Properties *)

\* A worker never runs on after the runtime it calls into: "a worker that
\* outlives its runtime does not fail quietly, it panics" (lib.rs, tear_down and
\* finish_within), in whatever order teardown, free and the NAS come.
RuntimeOutlivesWorkers == loop => owners # {}

\* Only this mount's connection is ever aborted, though its number may belong to
\* another by then (ConnectionAbort).
AbortsOnlyOwn == "other" \notin aborted

\* After the logout no look of the leg watch is under way or begins: it could be
\* a login for a connection that is going away (syno_logout).
QuietAfterLogout == gui \in {"out", "freed"} => ~looking

\* The teardown ends, however long processes sit in the mount, when the
\* connection was recorded, or when the directory is free and they let go.
TeardownEnds == (tear = "first" /\ recorded) ~> (tear = "done")

\* syno_unmount: "The volume is gone either way - that happens first".
GoneOnReturn == gui \in {"unmounted", "out", "freed"} => ~attached
=============================================================================
