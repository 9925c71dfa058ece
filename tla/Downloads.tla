------------------------------ MODULE Downloads ------------------------------
(***************************************************************************)
(* Whole files fetched to one local path: SynologyClient::download_to_path *)
(* (core download.rs), which asks SMB to stream the file (read_to_path)    *)
(* and falls back to HTTP, and the C ABI's syno_download_to, which asks    *)
(* for pieces.  Both write beside the target and rename; the name beside   *)
(* it is the same for every download of the kind.  The local file system   *)
(* is names and inodes: a file created over an existing one is that one,   *)
(* emptied.                                                                *)
(*                                                                         *)
(* A byte is the version of the remote file it comes from.                 *)
(***************************************************************************)
EXTENDS Naturals, Sequences, FiniteSets

CONSTANTS Getters,        \* downloads of the one remote file to the one path
          Pieces,         \* those of the C ABI; the others are the client's
          Chunk,          \* bytes a read returns
          Lengths,        \* of the remote file's versions
          MaxStarts, MaxFaults  \* bounds

DownloadsAssumption ==
    /\ Pieces \subseteq Getters /\ Chunk \in Nat \ {0}
    /\ MaxStarts \in Nat /\ MaxFaults \in Nat
    /\ Lengths \in Seq(Nat) /\ Lengths # <<>>

VARIABLES now,            \* the version on the NAS
          dir,            \* inode of each local name, 0 for none
          disk,           \* what each inode holds
          step, by,       \* where each download is, and by which way
          fd, at, total,  \* its open file, how far it is, the length it goes by
          body,           \* the version HTTP answered with, 0 for none
          verdict,        \* what comes after cleaning up
          placedBy,       \* history: the download whose rename made the target, or Nobody
          shared,         \* history: those that wrote their sidecar while another did,
                          \* and the lock on the session did not keep the two apart
          torn,           \* history: those under which the remote file changed
          litter,         \* history: sidecars that a dropped download left
          faults          \* bound

local == <<dir, disk>>
each == <<step, by, fd, at, total, body, verdict>>
history == <<placedBy, shared, torn, litter>>
vars == <<now, local, each, history, faults>>

Hole == 0
Old == Len(Lengths) + 1
Whole(v) == [i \in 1 .. Lengths[v] |-> v]
Target == "target"
Sidecar(d) == IF d \in Pieces THEN ".syno-part" ELSE ".part"
Sidecars == {".part", ".syno-part"}
Nobody == "nobody"
\* What a download dropped in an await has handed to tokio's file system by then is
\* still done, or not.
Late == {"late creating", "late pumping", "late renaming", "late clearing"}
Writing == {"pumping", "renaming", "late creating", "late pumping", "late renaming"}
Ended == {"ok", "failed", "dropped"}

TypeOK ==
    /\ now \in 1 .. Len(Lengths)
    /\ dir \in [Sidecars \cup {Target} -> 0 .. Len(disk)]
    /\ disk \in Seq(Seq(Hole .. Old))
    /\ step \in [Getters -> Ended \cup {"idle", "asking", "opening", "fetching", "creating",
                                        "pumping", "renaming", "clearing"} \cup Late]
    /\ by \in [Getters -> {"smb", "http", "pieces"}]
    /\ fd \in [Getters -> 0 .. Len(disk)]
    /\ at \in [Getters -> Nat] /\ total \in [Getters -> Nat]
    /\ body \in [Getters -> 0 .. Len(Lengths)]
    /\ verdict \in [Getters -> {"failed", "fetching"}]
    /\ placedBy \in Getters \cup {Nobody} /\ shared \subseteq Getters /\ torn \subseteq Getters
    /\ litter \subseteq Sidecars /\ faults \in 0 .. MaxFaults

Init ==
    /\ now = 1 /\ disk = <<<<Old>>>>
    /\ \E t \in {0, 1} : dir = [n \in Sidecars \cup {Target} |-> IF n = Target THEN t ELSE 0]
    /\ step = [d \in Getters |-> "idle"]
    /\ by = [d \in Getters |-> IF d \in Pieces THEN "pieces" ELSE "smb"]
    /\ fd = [d \in Getters |-> 0] /\ at = [d \in Getters |-> 0]
    /\ total = [d \in Getters |-> 0] /\ body = [d \in Getters |-> 0]
    /\ verdict = [d \in Getters |-> "failed"]
    /\ placedBy = Nobody /\ shared = {} /\ torn = {} /\ litter = {} /\ faults = 0

\* The lock on the SMB session, which read_to_path holds until its rename: two that hold
\* it, and are not dropped, are never at it together.
Together(steps, a, b) ==
    /\ a # b /\ Sidecar(a) = Sidecar(b) /\ steps[a] \in Writing /\ steps[b] \in Writing
    /\ \E d \in {a, b} : by[d] # "smb" \/ steps[d] \in Late

Goes(d, s) ==
    /\ step' = [step EXCEPT ![d] = s]
    /\ shared' = shared \cup {a \in Getters : \E b \in Getters : Together(step', a, b)}

Same == UNCHANGED <<now, placedBy, torn, litter>>

\* A backend is asked, unless there is none or its breaker refuses; the C ABI asks
\* for the length first, and goes on without.
Begins(d) ==
    /\ step[d] = "idle" /\ Cardinality({a \in Getters : step[a] # "idle"}) < MaxStarts
    /\ \/ d \in Pieces /\ Goes(d, "asking") /\ UNCHANGED by
       \/ d \notin Pieces /\ Goes(d, "opening") /\ UNCHANGED by
       \/ d \notin Pieces /\ Goes(d, "fetching") /\ by' = [by EXCEPT ![d] = "http"]
    /\ Same /\ UNCHANGED <<local, fd, at, total, body, verdict, faults>>

\* A slip: the session is not locked for as long.
SessionFree_Never == TRUE

SessionFree ==
    \A d \in Getters : by[d] = "smb" => step[d] \notin {"creating", "pumping", "renaming"}

\* get_info, whose failure counts as length 0; the SMB file is opened; the whole body
\* comes in one answer.
Learns(d) ==
    /\ \/ /\ step[d] = "asking"
          /\ \/ total' = [total EXCEPT ![d] = Lengths[now]] /\ UNCHANGED faults
             \/ faults < MaxFaults /\ faults' = faults + 1 /\ UNCHANGED total
          /\ UNCHANGED body
       \/ /\ step[d] = "opening" /\ SessionFree
          /\ total' = [total EXCEPT ![d] = Lengths[now]] /\ UNCHANGED <<body, faults>>
       \/ /\ step[d] = "fetching" /\ body' = [body EXCEPT ![d] = now]
          /\ total' = [total EXCEPT ![d] = Lengths[now]] /\ UNCHANGED faults
    /\ Goes(d, "creating") /\ Same /\ UNCHANGED <<local, by, fd, at, verdict>>

\* A slip: the target itself is created.
Creates_InPlace(d) ==
    /\ step[d] = "creating"
    /\ IF dir[Target] = 0
       THEN disk' = Append(disk, <<>>) /\ dir' = [dir EXCEPT ![Target] = Len(disk), ![Sidecar(d)] = Len(disk)]
       ELSE disk' = [disk EXCEPT ![dir[Target]] = <<>>] /\ dir' = [dir EXCEPT ![Sidecar(d)] = dir[Target]]
    /\ fd' = [fd EXCEPT ![d] = dir'[Target]] /\ at' = [at EXCEPT ![d] = 0]
    /\ Goes(d, "pumping") /\ Same /\ UNCHANGED <<by, total, body, verdict, faults>>

\* File::create of the sidecar.
Truncated(n) ==
    IF dir[n] = 0
    THEN disk' = Append(disk, <<>>) /\ dir' = [dir EXCEPT ![n] = Len(disk) + 1]
    ELSE disk' = [disk EXCEPT ![dir[n]] = <<>>] /\ UNCHANGED dir
Creates(d) ==
    /\ step[d] = "creating" /\ Truncated(Sidecar(d))
    /\ fd' = [fd EXCEPT ![d] = dir'[Sidecar(d)]] /\ at' = [at EXCEPT ![d] = 0]
    /\ Goes(d, "pumping") /\ litter' = litter \ {Sidecar(d)}
    /\ UNCHANGED <<now, by, total, body, verdict, placedBy, torn, faults>>

\* What the NAS answers to a read of n bytes at o; and a write at o.
Bytes(v, o, n) == [i \in 1 .. Cardinality({j \in o + 1 .. o + n : j <= Lengths[v]}) |-> v]
Overlaid(file, o, bytes) ==
    [i \in 1 .. (IF o + Len(bytes) > Len(file) THEN o + Len(bytes) ELSE Len(file)) |->
       CASE i > o /\ i <= o + Len(bytes) -> bytes[i - o]
         [] i <= Len(file) /\ (i <= o \/ i > o + Len(bytes)) -> file[i]
         [] OTHER -> Hole]

Writes(d, bytes) ==
    /\ disk' = [disk EXCEPT ![fd[d]] = Overlaid(@, at[d], bytes)]
    /\ at' = [at EXCEPT ![d] = @ + Len(bytes)]

\* A slip: an unknown length ends the loop at the first piece.
LastPiece_Unknown(d, got) == got < Chunk \/ at[d] + got >= total[d]

\* A short piece is the last, and so is the one that reaches a known length.
LastPiece(d, got) == got < Chunk \/ (total[d] > 0 /\ at[d] + got >= total[d])

\* The pieces of the C ABI; SMB's pieces of the length at open; HTTP's body at once.
Pumps(d) ==
    /\ step[d] = "pumping"
    /\ \/ /\ by[d] = "pieces"
          /\ LET got == Bytes(now, at[d], Chunk)
             IN  Writes(d, got) /\ Goes(d, IF LastPiece(d, Len(got)) THEN "renaming" ELSE "pumping")
       \/ /\ by[d] = "smb" /\ at[d] < total[d]
          /\ Writes(d, Bytes(now, at[d], Chunk)) /\ at'[d] > at[d] /\ Goes(d, "pumping")
       \/ /\ by[d] = "smb" /\ at[d] >= total[d]
          /\ Goes(d, "renaming") /\ UNCHANGED <<disk, at>>
       \/ by[d] = "http" /\ Writes(d, Whole(body[d])) /\ Goes(d, "renaming")
    /\ Same /\ UNCHANGED <<dir, by, fd, total, body, verdict, faults>>

\* The rename, which fails when another has taken the sidecar away.
Placed(d) ==
    /\ dir[Sidecar(d)] # 0
    /\ dir' = [dir EXCEPT ![Target] = dir[Sidecar(d)], ![Sidecar(d)] = 0]
    /\ placedBy' = d /\ litter' = litter \ {Sidecar(d)}
Renames(d) ==
    /\ step[d] = "renaming" /\ Placed(d) /\ Goes(d, "ok")
    /\ UNCHANGED <<now, disk, by, fd, at, total, body, verdict, torn, faults>>

\* Anything fails: the sidecar is cleaned up, and after a transport failure of SMB
\* HTTP is asked.  HTTP's own answer fails before there is a sidecar.
Fails(d) ==
    /\ \/ /\ step[d] \in {"opening", "fetching", "creating", "pumping", "renaming"}
          /\ step[d] = "opening" => SessionFree
          /\ faults < MaxFaults /\ faults' = faults + 1
       \/ step[d] = "renaming" /\ dir[Sidecar(d)] = 0 /\ UNCHANGED faults
       \/ step[d] = "pumping" /\ by[d] = "smb" /\ at[d] >= Lengths[now] /\ at[d] < total[d]
          /\ UNCHANGED faults
    /\ Goes(d, IF step[d] = "fetching" THEN "failed" ELSE "clearing")
    /\ \E v \in (IF by[d] = "smb" THEN {"failed", "fetching"} ELSE {"failed"}) :
          verdict' = [verdict EXCEPT ![d] = v]
    /\ Same /\ UNCHANGED <<local, by, fd, at, total, body>>

\* A slip: nothing is cleaned up.
Clears_Not(d) ==
    /\ step[d] = "clearing" /\ UNCHANGED local
    /\ Goes(d, verdict[d])
    /\ by' = [by EXCEPT ![d] = IF verdict[d] = "fetching" THEN "http" ELSE @]
    /\ Same /\ UNCHANGED <<fd, at, total, body, verdict, faults>>

\* remove_file, by name.
Removed(n) == dir' = [dir EXCEPT ![n] = 0] /\ litter' = litter \ {n}
Clears(d) ==
    /\ step[d] = "clearing" /\ Removed(Sidecar(d))
    /\ Goes(d, verdict[d])
    /\ by' = [by EXCEPT ![d] = IF verdict[d] = "fetching" THEN "http" ELSE @]
    /\ UNCHANGED <<now, disk, fd, at, total, body, verdict, placedBy, torn, faults>>

\* The client's future is dropped at an await.
Drops(d) ==
    /\ d \notin Pieces
    /\ \/ step[d] \in {"opening", "fetching"} /\ Goes(d, "dropped")
       \/ /\ by[d] = "smb"
          /\ \/ step[d] = "creating" /\ Goes(d, "late creating")
             \/ step[d] = "pumping" /\ Goes(d, "late pumping")
             \/ step[d] = "renaming" /\ Goes(d, "late renaming")
             \/ step[d] = "clearing" /\ Goes(d, "late clearing")
    /\ Same /\ UNCHANGED <<local, by, fd, at, total, body, verdict, faults>>

\* Whatever sidecar there is when the last call of a dropped download is over is left.
Left(d) == litter' = litter \cup {n \in {Sidecar(d)} : dir'[n] # 0}
Lingers(d) ==
    /\ step[d] \in Late /\ Goes(d, "dropped")
    /\ \/ UNCHANGED <<local, at, placedBy>> /\ Left(d)
       \/ step[d] = "late creating" /\ Truncated(Sidecar(d)) /\ Left(d) /\ UNCHANGED <<at, placedBy>>
       \/ /\ step[d] = "late pumping" /\ Writes(d, Bytes(now, at[d], Chunk))
          /\ UNCHANGED <<dir, placedBy>> /\ Left(d)
       \/ step[d] = "late renaming" /\ Placed(d) /\ UNCHANGED <<disk, at>>
       \/ step[d] = "late clearing" /\ Removed(Sidecar(d)) /\ UNCHANGED <<disk, at, placedBy>>
    /\ UNCHANGED <<now, by, fd, total, body, verdict, torn, faults>>

\* External: the remote file is replaced.
Reading(d) == by[d] # "http" /\ step[d] \in {"creating", "pumping"}
Replaced ==
    /\ now < Len(Lengths) /\ now' = now + 1
    /\ torn' = torn \cup {d \in Getters : Reading(d)}
    /\ UNCHANGED <<local, each, placedBy, shared, litter, faults>>

Next ==
    \/ \E d \in Getters : \/ Begins(d) \/ Learns(d) \/ Creates(d) \/ Pumps(d) \/ Renames(d)
                          \/ Fails(d) \/ Clears(d) \/ Drops(d) \/ Lingers(d)
    \/ Replaced

Spec == Init /\ [][Next]_vars

-----------------------------------------------------------------------------
(* Properties *)

Found == IF dir[Target] = 0 THEN <<>> ELSE disk[dir[Target]]

\* read_to_path: "atomic old-or-nothing": whatever fails, is dropped or falls back, what
\* the path holds is what it held, or a whole version; and so it is when downloads meet
\* on the sidecar's name, as long as both stream over SMB.  It may not be where the one
\* that renamed it wrote while another did that nothing keeps off: one by HTTP, a second
\* one of the C ABI, or a dropped one's last call; or when the remote file changed while
\* that download read it in pieces.
OldOrWhole ==
    placedBy \notin shared \cup torn =>
        IF placedBy = Nobody
        THEN dir[Target] # 0 => Found = <<Old>>
        ELSE \E v \in 1 .. now : Found = Whole(v)

\* A download that says it failed has changed nothing: the name is moved by successes,
\* or by one that was dropped as it succeeded.
FailedChangesNothing ==
    dir'[Target] # dir[Target] =>
        \E d \in Getters : <<step[d], step'[d]>> \in {<<"renaming", "ok">>, <<"late renaming", "dropped">>}

\* "don't leave a stale partial file behind on failure": when all have ended, whoever met
\* on it, there is a sidecar only if one that was dropped left it and none has begun on
\* it since.
NoLitter ==
    (\A d \in Getters : step[d] \in Ended \cup {"idle"}) =>
        \A n \in Sidecars : dir[n] # 0 => n \in litter

\* download_to_path: "The destination is never observed partial".  (The code does not
\* keep it: one by HTTP that falls in with one by SMB has its sidecar.)
NeverPartial == dir[Target] # 0 => Found = <<Old>> \/ \E v \in 1 .. now : Found = Whole(v)
=============================================================================
