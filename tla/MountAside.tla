----------------------------- MODULE MountAside ------------------------------
(***************************************************************************)
(* The parts of MCMount beside the reading and the writing of files that   *)
(* are proved about as well as run: the log, moves, and the walkers        *)
(* noticed.  As in MountParts, each is its module's, over constants and    *)
(* variables of its own.                                                   *)
(***************************************************************************)
EXTENDS Integers, FiniteSets, Sequences

CONSTANTS Keep, MaxBytes, MaxRecords, MaxFaults, MaxStarts,      \* LogFile
          MaxLost, MaxIntrusions,                                \* Moves
          Pids, Spares, HeldDirs, WalkDirs, WalkFor, Quiet,
          ResolveEvery, PruneEvery, WalkStarts, MaxOpens,
          MaxTime, QueueDepth                                    \* Walks

VARIABLES dir, content, synced, handle, written, rotateAt, sink, calling,
          made, faults, starts, kept, adrift,                    \* LogFile
          smb, renames, at, isDir, inside, pc, tries, look,
          renamed, res, task, over, taken, tasks, destroyed,
          late, backUnder, movesLost, intrusions,                \* Moves
          clock, walkLive, gen, spare, holder, fhs, walkQueue,
          threads, handles, tracks, pruned, event, ended, begun,
          stopping, goodbye, said, signalled, walked             \* Walks

Log == INSTANCE LogFile
Move == INSTANCE Moves
    WITH lost <- movesLost
Walk == INSTANCE Walks
    WITH MaxStarts <- WalkStarts, live <- walkLive, queue <- walkQueue

ASSUME LogOk == Log!LogAssumption
ASSUME MoveOk == Move!MovesAssumption
ASSUME WalkOk == Walk!WalksAssumption
=============================================================================
