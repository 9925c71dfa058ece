----------------------------- MODULE MountParts ------------------------------
(***************************************************************************)
(* The parts of MCMount that are proved about as well as run: the mount's  *)
(* end, logins, the throttle, listings, listings by pages, resizing, and   *)
(* the buffer writes spill from.  Each is its module's, over constants and *)
(* variables the parts share by name: a behaviour of MCMount is one of one *)
(* part, and the others' variables stay as they are.                       *)
(***************************************************************************)
EXTENDS Integers, FiniteSets, Sequences

CONSTANTS Patience,                                              \* MountEnds
          ClientCalls, MaxExpiries,                              \* Login
          Requesters, MaxConcurrency, Interval, MaxAttempts,
          BackoffBase, BackoffMax,                               \* Throttle
          Handles, Caching, MaxChanges, MaxFetches,              \* Listings
          PageNames, PageSize, MaxPages, PageChanges,            \* Pages
          Lengths, MaxSize,                                      \* Resize
          SpillAt, NameAttempts, MaxLen, Bytes                   \* Spill

\* A file's three lengths, which a configuration cannot write.
GrowsAndShrinks == <<1, 3, 2>>

VARIABLES front, attached, alive, users, busy, loop, recorded, remounted,
          aborted, join, tear, gui, waited, watched, watching, looking,
          owners,                                                \* MountEnds
          cookies, live, sid, mode, call, sent, ran, result, out,
          issued, expired,                                       \* Login
          step,                                                  \* and Resize
          left, attempt, queue, free, next, since, close,        \* Throttle
          world, cached, flight, cell, open, snap, req, rewinds,
          hold, got, served, change, acked, straddled, pass,
          fetches,                                               \* Listings
          there, totals, collected, page, answer, steady,
          removed, changes,                                      \* Pages
          now, size, want, data, found,                          \* Resize
          store, memory, temp, disk, planted, len, gone, usable,
          told, torn                                             \* Spill

End == INSTANCE MountEnds
Logins == INSTANCE Login
    WITH Calls <- ClientCalls
Slots == INSTANCE Throttle
    WITH Callers <- Requesters
Listed == INSTANCE Listings
Page == INSTANCE Pages
    WITH Names <- PageNames, MaxChanges <- PageChanges
Size == INSTANCE Resize
Buffer == INSTANCE Spill

ASSUME EndOk == End!EndsAssumption
ASSUME LoginOk == Logins!LoginAssumption
ASSUME SlotOk == Slots!ThrottleAssumption
ASSUME ListedOk == Listed!ListingsAssumption
ASSUME PageOk == Page!PagesAssumption
ASSUME SizeOk == Size!ResizeAssumption
ASSUME BufferOk == Buffer!SpillAssumption
=============================================================================
