--------------------------- MODULE MountAsideProofs ---------------------------
(***************************************************************************)
(* The inductive invariants of the parts of MountAside, for every value of *)
(* their constants that the assumptions allow, laid out as those of        *)
(* MountPartsProofs are.  MountProofs concludes from them what MCMount     *)
(* checks.                                                                 *)
(***************************************************************************)
EXTENDS MountAside, FiniteSetTheorems, SequenceTheorems, TLAPS

-----------------------------------------------------------------------------
(* Moves. *)

\* The place the source is in once move_within has renamed it, if it is to.
Left == IF renames THEN "sn" ELSE "so"

\* The source is at its new name, by a rename over SMB whose answer was lost.
MovedBySmb == at[Move!Target] = "src" /\ smb /\ movesLost > 0

\* What is a folder stays one, and what others put there is a file.
MoveTypes == Move!TypeOK /\ ~ isDir["other"] /\ isDir["half"]

\* Each thing is in one place, where the move or another may have put it, and a folder has its
\* child.
ThingsKept ==
    /\ inside["a"] = (IF isDir["src"] THEN "src" ELSE Move!Nothing)
    /\ inside["b"] \in {"dst", Move!Nothing}
    /\ \A p \in Move!Places : at[p] = "dst" => p = Move!Target
    /\ \A p \in Move!Places : at[p] = "half" => p = Move!Target /\ task # "none"
    /\ \A p \in Move!Places : at[p] = "other" => intrusions > 0
    /\ \A p, q \in Move!Places : at[p] = "src" /\ at[q] = "src" => p = q

\* What each stage of move_within has behind it: no rename in place before the look, one task
\* at most, and an answer only at the end.
Stages ==
    /\ pc \in {"smb_look", "smb_rename"} => smb
    /\ pc \in {"smb_look", "smb_rename", "info", "dest", "entries", "rename"} => ~ renamed
    /\ pc \in {"delete", "start", "poll"} => renamed = renames
    /\ pc = "back" => renamed
    /\ renamed => renames
    /\ pc = "rename" => renames
    /\ pc \in {"back", "done"} <=> res # "none"
    /\ tasks = 0 <=> task = "none"
    /\ tasks <= 1 /\ ~ backUnder
    /\ task # "none" => pc \in {"poll", "done"} /\ taken = Left
    /\ pc = "poll" => task # "none"
    /\ res = "ok" => (at[Move!Target] = "src" \/ "src" \in destroyed) /\ "src" \notin {at["so"], at["sn"]} /\ task \in {"none", "done"}

\* Where the source is at each stage.
SourceAt ==
    /\ pc \in {"smb_look", "smb_rename"} => at["so"] = "src"
    /\ pc = "info" => at["so"] = "src" \/ MovedBySmb
    /\ pc \in {"dest", "entries"} => at["so"] = "src" \/ (at["so"] = "other" /\ MovedBySmb)
    /\ pc = "rename" => \/ at["so"] = "src"
                        \/ at["sn"] = "src" /\ movesLost > 0
                        \/ MovedBySmb /\ ~ look.srcDir
    /\ pc \in {"delete", "start"} \/ task \in {"running", "half"} =>
          at[Left] = "src" \/ (at[Left] = "other" /\ MovedBySmb)
    /\ pc = "back" => at["sn"] = "src" \/ MovedBySmb
    /\ task = "half" => at[Left] = "src"
    /\ task = "done" => (at[Move!Target] = "src" \/ "src" \in destroyed) /\ "src" \notin {at["so"], at["sn"]}
    /\ renamed /\ pc # "done" => at["so"] = Move!Nothing \/ intrusions > 0

\* What the look saw is still so, but for what a lost answer or another changed.
LookTrue ==
    /\ pc = "smb_rename" => look.srcDir = isDir["src"]
    /\ pc \in {"dest", "entries", "rename", "delete", "start"} =>
          IF look.srcDir THEN isDir["src"] /\ at[Move!Target] # "src" ELSE ~ isDir["src"] \/ at[Move!Target] = "src"
    /\ task \in {"running", "half"} /\ over => ~ isDir["src"] \/ at[Move!Target] = "src"
    /\ pc = "entries" => at[Move!Target] # Move!Nothing /\ isDir[at[Move!Target]]
    /\ pc \in {"rename", "delete"} /\ look.dest = "empty" =>
          (at[Move!Target] = "dst" => isDir["dst"]) /\ (inside["b"] # Move!Nothing => late)
    /\ pc = "delete" => look.dest = "empty" /\ look.srcDir

\* What the move may have destroyed.
Destroyed ==
    /\ "a" \notin destroyed
    /\ "src" \in destroyed => smb /\ movesLost > 0 /\ intrusions > 0 /\ task = "done"
    /\ "b" \in destroyed => late
    /\ "dst" \in destroyed => isDir["dst"] = isDir["src"]

\* The inductive invariant of Moves.
MoveInv == MoveTypes /\ ThingsKept /\ Stages /\ SourceAt /\ LookTrue /\ Destroyed /\ Move!RefusedIsUndone

\* The look over SMB.
LEMMA KeepsSmbLooks == ASSUME Move!MovesAssumption, MoveInv, Move!SmbLooks PROVE MoveInv'
<1>0. MoveTypes /\ ThingsKept /\ Stages /\ SourceAt /\ LookTrue /\ Destroyed /\ Move!RefusedIsUndone
  BY DEF MoveInv
<1>1. MoveTypes'
  BY <1>0 DEF Move!SmbLooks, MoveTypes, SourceAt, Move!Nothing, Move!Target, Move!Places,
       Move!TypeOK, Move!job, Move!Answered, Move!Fails, Move!Returns, Move!Refusals, Move!Plans,
       Move!Seen
<1>2. ThingsKept'
  BY <1>0 DEF Move!SmbLooks, MoveTypes, ThingsKept, Stages, SourceAt, Move!Nothing, Move!Target,
       Move!TypeOK
<1>3. Stages'
  BY <1>0 DEF Move!SmbLooks, Stages, Move!job, Move!Answered, Move!Fails, Move!Returns,
       Move!Refusals
<1>4. SourceAt'
  BY <1>0 DEF Move!SmbLooks, MoveTypes, Stages, SourceAt, Move!Target, Move!Places, Move!TypeOK,
       Move!job, Move!Answered, Move!Fails, Move!Returns
<1>5. LookTrue'
  BY <1>0 DEF Move!SmbLooks, Stages, SourceAt, LookTrue, Move!job, Move!Answered, Move!Fails,
       Move!Returns
<1>6. Destroyed'
  BY <1>0 DEF Move!SmbLooks, MoveTypes, ThingsKept, SourceAt, Destroyed, Move!Nothing, Move!Target,
       Move!Places, Move!TypeOK, Move!Things, Move!Seen
<1>7. Move!RefusedIsUndone'
  BY <1>0 DEF Move!SmbLooks, MoveTypes, SourceAt, Move!RefusedIsUndone, Move!Nothing, Move!Target,
       Move!Places, Move!TypeOK
<1> QED BY <1>1, <1>2, <1>3, <1>4, <1>5, <1>6, <1>7 DEF MoveInv

\* The rename over SMB.
LEMMA KeepsSmbRenames == ASSUME Move!MovesAssumption, MoveInv, Move!SmbRenames PROVE MoveInv'
<1>0. MoveTypes /\ ThingsKept /\ Stages /\ SourceAt /\ LookTrue /\ Destroyed /\ Move!RefusedIsUndone
  BY DEF MoveInv
<1>1. MoveTypes'
  BY <1>0 DEF Move!SmbRenames, MoveTypes, Move!Target, Move!Places, Move!TypeOK, Move!job,
       Move!Fails, Move!Returns, Move!Plan, Move!Plans, Move!Went, Move!MovesAssumption
<1>2. ThingsKept'
  BY <1>0 DEF Move!SmbRenames, MoveTypes, ThingsKept, Stages, Move!Nothing, Move!Target,
       Move!Places, Move!TypeOK, Move!Went
<1>3. Stages'
  BY <1>0 DEF Move!SmbRenames, MoveTypes, ThingsKept, Stages, SourceAt, Move!Target, Move!Places,
       Move!TypeOK, Move!job, Move!Fails, Move!Returns, Move!Went
<1>4. SourceAt'
  BY <1>0 DEF Move!SmbRenames, MoveTypes, Stages, SourceAt, Move!Target, MovedBySmb, Move!Places,
       Move!TypeOK, Move!job, Move!Fails, Move!Returns, Move!Went
<1>5. LookTrue'
  BY <1>0 DEF Move!SmbRenames, Stages, LookTrue, Move!job, Move!Fails, Move!Returns
<1>6. Destroyed'
  BY <1>0 DEF Move!SmbRenames, MoveTypes, ThingsKept, SourceAt, LookTrue, Destroyed, Move!Target,
       Move!Places, Move!TypeOK, Move!Things, Move!Seen, Move!Plan, Move!Plans
<1>7. Move!RefusedIsUndone'
  BY <1>0 DEF Move!SmbRenames, SourceAt, Move!RefusedIsUndone, Move!Fails, Move!Returns
<1> QED BY <1>1, <1>2, <1>3, <1>4, <1>5, <1>6, <1>7 DEF MoveInv

\* Its answer lost.
LEMMA KeepsSmbLost == ASSUME Move!MovesAssumption, MoveInv, Move!SmbLost PROVE MoveInv'
<1>0. MoveTypes /\ ThingsKept /\ Stages /\ SourceAt /\ LookTrue /\ Destroyed /\ Move!RefusedIsUndone
  BY DEF MoveInv
<1>1. MoveTypes'
  BY <1>0 DEF Move!SmbLost, MoveTypes, Move!TypeOK, Move!job, Move!nas, Move!MovesAssumption
<1>2. ThingsKept'
  BY <1>0 DEF Move!SmbLost, ThingsKept, Stages, Move!Target, Move!nas
<1>3. Stages'
  BY <1>0 DEF Move!SmbLost, Stages, Move!job
<1>4. SourceAt'
  BY <1>0 DEF Move!SmbLost, Stages, SourceAt, Move!job, Move!nas
<1>5. LookTrue'
  BY <1>0 DEF Move!SmbLost, Stages, LookTrue, Move!job
<1>6. Destroyed'
  BY <1>0 DEF Move!SmbLost, Stages, Destroyed, Move!nas
<1>7. Move!RefusedIsUndone'
  BY <1>0 DEF Move!SmbLost, Move!RefusedIsUndone
<1> QED BY <1>1, <1>2, <1>3, <1>4, <1>5, <1>6, <1>7 DEF MoveInv

\* The look at the source.
LEMMA KeepsInfo == ASSUME Move!MovesAssumption, MoveInv, Move!Info PROVE MoveInv'
<1>0. MoveTypes /\ ThingsKept /\ Stages /\ SourceAt /\ LookTrue /\ Destroyed /\ Move!RefusedIsUndone
  BY DEF MoveInv
<1>1. MoveTypes'
  BY <1>0 DEF Move!Info, MoveTypes, Move!Places, Move!TypeOK, Move!job, Move!nas, Move!Answered,
       Move!Fails, Move!Returns
<1>2. ThingsKept'
  BY <1>0 DEF Move!Info, ThingsKept, Stages, Move!Target, Move!nas
<1>3. Stages'
  BY <1>0 DEF Move!Info, Stages, Move!job, Move!Answered, Move!Fails, Move!Returns
<1>4. SourceAt'
  BY <1>0 DEF Move!Info, MoveTypes, ThingsKept, Stages, SourceAt, Move!Target, MovedBySmb,
       Move!Places, Move!TypeOK, Move!Things, Move!job, Move!nas, Move!Answered, Move!Fails,
       Move!Returns
<1>5. LookTrue'
  BY <1>0 DEF Move!Info, MoveTypes, ThingsKept, SourceAt, LookTrue, Move!Target, MovedBySmb,
       Move!Places, Move!TypeOK, Move!Things, Move!job, Move!nas, Move!Answered, Move!Fails,
       Move!Returns
<1>6. Destroyed'
  BY <1>0 DEF Move!Info, Stages, Destroyed, Move!nas
<1>7. Move!RefusedIsUndone'
  BY <1>0 DEF Move!Info, MoveTypes, ThingsKept, SourceAt, Move!RefusedIsUndone, MovedBySmb,
       Move!Places, Move!TypeOK, Move!Things, Move!nas, Move!Fails
<1> QED BY <1>1, <1>2, <1>3, <1>4, <1>5, <1>6, <1>7 DEF MoveInv

\* The look at the destination.
LEMMA KeepsDestination == ASSUME Move!MovesAssumption, MoveInv, Move!Destination PROVE MoveInv'
<1>0. MoveTypes /\ ThingsKept /\ Stages /\ SourceAt /\ LookTrue /\ Destroyed /\ Move!RefusedIsUndone
  BY DEF MoveInv
<1>1. MoveTypes'
  BY <1>0 DEF Move!Destination, MoveTypes, Move!TypeOK, Move!job, Move!nas, Move!Seen, Move!Planned,
       Move!Answered, Move!Fails, Move!Returns, Move!Refusals
<1>2. ThingsKept'
  BY <1>0 DEF Move!Destination, ThingsKept, Stages, Move!Target, Move!nas
<1>3. Stages'
  BY <1>0 DEF Move!Destination, MoveTypes, Stages, Move!TypeOK, Move!job, Move!Planned,
       Move!Answered, Move!Fails, Move!Returns, Move!Refusals
<1>4. SourceAt'
  BY <1>0 DEF Move!Destination, MoveTypes, SourceAt, LookTrue, Move!Target, Left, MovedBySmb,
       Move!TypeOK, Move!job, Move!nas, Move!Planned, Move!Answered, Move!Fails, Move!Returns
<1>5. LookTrue'
  BY <1>0 DEF Move!Destination, MoveTypes, LookTrue, Move!Target, Move!TypeOK, Move!job, Move!nas,
       Move!Seen, Move!Planned, Move!Answered, Move!Fails, Move!Returns, Move!Plans
<1>6. Destroyed'
  BY <1>0 DEF Move!Destination, Stages, Destroyed, Move!nas
<1>7. Move!RefusedIsUndone'
  BY <1>0 DEF Move!Destination, ThingsKept, SourceAt, Move!RefusedIsUndone, Move!Places, Move!nas
<1> QED BY <1>1, <1>2, <1>3, <1>4, <1>5, <1>6, <1>7 DEF MoveInv

\* The look into a folder in the way.
LEMMA KeepsHasEntries == ASSUME Move!MovesAssumption, MoveInv, Move!HasEntries PROVE MoveInv'
<1>0. MoveTypes /\ ThingsKept /\ Stages /\ SourceAt /\ LookTrue /\ Destroyed /\ Move!RefusedIsUndone
  BY DEF MoveInv
<1>1. MoveTypes'
  BY <1>0 DEF Move!HasEntries, MoveTypes, Move!TypeOK, Move!job, Move!nas, Move!Planned,
       Move!Answered, Move!Fails, Move!Returns, Move!Refusals
<1>2. ThingsKept'
  BY <1>0 DEF Move!HasEntries, ThingsKept, Stages, Move!Target, Move!nas
<1>3. Stages'
  BY <1>0 DEF Move!HasEntries, MoveTypes, Stages, Move!TypeOK, Move!job, Move!Planned,
       Move!Answered, Move!Fails, Move!Returns, Move!Refusals
<1>4. SourceAt'
  BY <1>0 DEF Move!HasEntries, MoveTypes, SourceAt, LookTrue, Move!Target, Left, MovedBySmb,
       Move!TypeOK, Move!job, Move!nas, Move!Planned, Move!Answered, Move!Fails, Move!Returns
<1>5. LookTrue'
  BY <1>0 DEF Move!HasEntries, MoveTypes, ThingsKept, Stages, LookTrue, Move!Target, Move!Places,
       Move!TypeOK, Move!Children, Move!Things, Move!job, Move!nas, Move!Planned, Move!Answered,
       Move!Fails, Move!Returns, Move!Plans, Move!Empty
<1>6. Destroyed'
  BY <1>0 DEF Move!HasEntries, Stages, Destroyed, Move!nas
<1>7. Move!RefusedIsUndone'
  BY <1>0 DEF Move!HasEntries, ThingsKept, SourceAt, Move!RefusedIsUndone, Move!Places, Move!nas
<1> QED BY <1>1, <1>2, <1>3, <1>4, <1>5, <1>6, <1>7 DEF MoveInv

\* The rename in place.
LEMMA KeepsRename == ASSUME Move!MovesAssumption, MoveInv, Move!Rename PROVE MoveInv'
<1>0. MoveTypes /\ ThingsKept /\ Stages /\ SourceAt /\ LookTrue /\ Destroyed /\ Move!RefusedIsUndone
  BY DEF MoveInv
<1>1. MoveTypes'
  <2>1. at' \in [Move!Places -> Move!Things \cup {Move!Nothing}]
    BY <1>0 DEF Move!Rename, MoveTypes, Move!TypeOK, Move!Places, Move!Went
  <2>2. destroyed' \subseteq Move!Things \cup Move!Children
    BY <1>0 DEF Move!Rename, MoveTypes, Move!TypeOK
  <2>3. inside' \in [Move!Children -> Move!Things \cup {Move!Nothing}]
    BY <1>0 DEF Move!Rename, MoveTypes, Move!TypeOK
  <2>4. /\ pc' \in {"smb_look", "smb_rename", "info", "dest", "entries", "rename", "delete",
                  "start", "poll", "back", "done"}
        /\ res' \in {"none", "ok", "io", "refused", "not_supported", "not_empty", "exists"}
    BY <1>0 DEF Move!Rename, MoveTypes, Move!TypeOK, Move!Returns, Move!Again, Move!Fails,
         Move!Answered
  <2>5. tries' \in 0 .. 3 /\ movesLost' \in 0 .. MaxLost
    BY <1>0 DEF Move!Rename, MoveTypes, Move!TypeOK, Move!Again, Move!Fails, Move!Answered,
         Move!MovesAssumption
  <2>6. /\ UNCHANGED <<smb, renames, isDir, look, over, taken, tasks, late, backUnder, intrusions>>
        /\ renamed' \in BOOLEAN /\ task' \in {"none", "running", "half", "done", "failed"}
    BY <1>0 DEF Move!Rename, MoveTypes, Move!TypeOK, Move!job
  <2> QED BY <1>0, <2>1, <2>2, <2>3, <2>4, <2>5, <2>6 DEF MoveTypes, Move!TypeOK
<1>2. ThingsKept'
  BY <1>0 DEF Move!Rename, MoveTypes, ThingsKept, Stages, Move!Target, Move!Places, Move!TypeOK,
       Move!Went
<1>3. Stages'
  <2>1. \/ pc' \in {"delete", "start"} /\ renamed' = TRUE /\ res' = res
        \/ pc' = "rename" /\ renamed' = renamed /\ res' = res
        \/ pc' = "done" /\ renamed' = renamed /\ res' \in {"not_supported", "refused"}
    BY DEF Move!Rename, Move!Again, Move!Fails, Move!Returns, Move!Answered
  <2>2. /\ pc = "rename" /\ UNCHANGED <<smb, renames, destroyed, task, over, taken, tasks, backUnder>>
        /\ smb \in BOOLEAN /\ renames \in BOOLEAN /\ renamed \in BOOLEAN
    BY <1>0 DEF Move!Rename, Move!job, MoveTypes, Move!TypeOK
  <2>3. ~ renamed /\ renames /\ res = "none" /\ task = "none" /\ tasks = 0 /\ ~ backUnder
    BY <1>0, <2>2 DEF Stages
  <2>4. /\ renames' /\ task' = "none" /\ tasks' = 0 /\ ~ backUnder'
        /\ res' \in {"none", "not_supported", "refused"} /\ pc' \in {"rename", "delete", "start", "done"}
        /\ res' # "none" <=> pc' = "done"
        /\ pc' = "rename" => ~ renamed'
        /\ pc' \in {"delete", "start"} => renamed'
    BY <2>1, <2>2, <2>3
  <2>5. pc' \notin {"smb_look", "smb_rename", "info", "dest", "entries", "poll", "back"} /\ res' # "ok"
    BY <2>4
  <2>6. renames' = TRUE /\ (pc' \in {"delete", "start"} => renamed' = TRUE)
    BY <2>1, <2>2, <2>3
  <2>7. pc' \in {"delete", "start", "poll"} => renamed' = renames'
    BY <2>5, <2>6, Zenon
  <2>8. renamed' => renames'
    BY <2>6
  <2>9. /\ pc' \in {"smb_look", "smb_rename"} => smb'
        /\ pc' \in {"smb_look", "smb_rename", "info", "dest", "entries", "rename"} => ~ renamed'
        /\ pc' = "back" => renamed'
        /\ pc' = "rename" => renames'
        /\ pc' = "poll" => task' # "none"
    BY <2>4, <2>5
  <2>10. pc' \in {"back", "done"} <=> res' # "none"
    BY <2>4, <2>5
  <2>11. tasks' = 0 <=> task' = "none"
    BY <2>4
  <2>12. tasks' <= 1
    BY <2>4
  <2> QED BY <2>4, <2>5, <2>7, <2>8, <2>9, <2>10, <2>11, <2>12, Zenon DEF Stages
<1>4. SourceAt'
  BY <1>0 DEF Move!Rename, MoveTypes, ThingsKept, Stages, SourceAt, Move!Nothing, Move!Target, Left,
       MovedBySmb, Move!Places, Move!TypeOK, Move!Things, Move!job, Move!Returns, Move!Again,
       Move!Fails, Move!Answered, Move!Went
<1>5. LookTrue'
  BY <1>0 DEF Move!Rename, MoveTypes, LookTrue, Move!Target, Move!Places, Move!TypeOK, Move!job,
       Move!Returns, Move!Again, Move!Fails, Move!Plan, Move!Plans, Move!Answered, Move!Went
<1>6. Destroyed'
  BY <1>0 DEF Move!Rename, Stages, Destroyed
<1>7. Move!RefusedIsUndone'
  BY <1>0 DEF Move!Rename, MoveTypes, SourceAt, Move!RefusedIsUndone, MovedBySmb, Move!TypeOK,
       Move!Again, Move!Fails, Move!Answered
<1> QED BY <1>1, <1>2, <1>3, <1>4, <1>5, <1>6, <1>7 DEF MoveInv

\* The delete of the empty folder in the way.
LEMMA KeepsDelete == ASSUME Move!MovesAssumption, MoveInv, Move!Delete PROVE MoveInv'
<1>0. MoveTypes /\ ThingsKept /\ Stages /\ SourceAt /\ LookTrue /\ Destroyed /\ Move!RefusedIsUndone
  BY DEF MoveInv
<1>1. MoveTypes'
  <2>1. at' \in [Move!Places -> Move!Things \cup {Move!Nothing}]
    BY <1>0 DEF Move!Delete, MoveTypes, Move!TypeOK, Move!nas, Move!GivesUp
  <2>2. destroyed' \subseteq Move!Things \cup Move!Children
    <3>1. /\ destroyed \subseteq Move!Things \cup Move!Children /\ Move!Target \in Move!Places
          /\ at \in [Move!Places -> Move!Things \cup {Move!Nothing}]
      BY <1>0 DEF MoveTypes, Move!TypeOK, Move!Target, Move!Places
    <3>2. \/ /\ at[Move!Target] # Move!Nothing
             /\ destroyed' = destroyed \cup ({at[Move!Target]} \cup
                                            {c \in Move!Children : inside[c] = at[Move!Target]})
          \/ destroyed' = destroyed
      BY DEF Move!Delete, Move!nas
    <3> QED BY <3>1, <3>2
  <2>3. inside' \in [Move!Children -> Move!Things \cup {Move!Nothing}]
    BY <1>0 DEF Move!Delete, MoveTypes, Move!TypeOK, Move!nas, Move!GivesUp
  <2>4. /\ pc' \in {"smb_look", "smb_rename", "info", "dest", "entries", "rename", "delete",
                  "start", "poll", "back", "done"}
        /\ res' \in {"none", "ok", "io", "refused", "not_supported", "not_empty", "exists"}
    BY <1>0 DEF Move!Delete, MoveTypes, Move!TypeOK, Move!GivesUp, Move!Returns, Move!Again,
         Move!Answered
  <2>5. tries' \in 0 .. 3 /\ movesLost' \in 0 .. MaxLost
    BY <1>0 DEF Move!Delete, MoveTypes, Move!TypeOK, Move!GivesUp, Move!Again, Move!Answered,
         Move!MovesAssumption
  <2>6. /\ UNCHANGED <<smb, renames, isDir, look, over, taken, tasks, late, backUnder, intrusions>>
        /\ renamed' \in BOOLEAN /\ task' \in {"none", "running", "half", "done", "failed"}
    BY <1>0 DEF Move!Delete, MoveTypes, Move!TypeOK, Move!job
  <2> QED BY <1>0, <2>1, <2>2, <2>3, <2>4, <2>5, <2>6 DEF MoveTypes, Move!TypeOK
<1>2. ThingsKept'
  BY <1>0 DEF Move!Delete, MoveTypes, ThingsKept, Stages, LookTrue, Move!Nothing, Move!Target,
       Move!TypeOK, Move!Children, Move!nas, Move!GivesUp
<1>3. Stages'
  BY <1>0 DEF Move!Delete, Stages, Move!job, Move!GivesUp, Move!Returns, Move!Again, Move!Answered
<1>4. SourceAt'
  BY <1>0 DEF Move!Delete, MoveTypes, Stages, SourceAt, LookTrue, Left, MovedBySmb, Move!Places,
       Move!TypeOK, Move!job, Move!nas, Move!GivesUp, Move!Returns, Move!Again, Move!Answered
<1>5. LookTrue'
  BY <1>0 DEF Move!Delete, MoveTypes, LookTrue, Move!Nothing, Move!Target, Move!TypeOK,
       Move!Children, Move!job, Move!nas, Move!GivesUp, Move!Returns, Move!Again, Move!Answered
<1>6. Destroyed'
  BY <1>0 DEF Move!Delete, MoveTypes, ThingsKept, Stages, LookTrue, Destroyed, Move!Target,
       Move!Places, Move!TypeOK, Move!Children, Move!Things, Move!nas
<1>7. Move!RefusedIsUndone'
  BY <1>0 DEF Move!Delete, MoveTypes, Stages, SourceAt, Move!RefusedIsUndone, Left, MovedBySmb,
       Move!TypeOK, Move!nas, Move!GivesUp, Move!Again, Move!Answered
<1> QED BY <1>1, <1>2, <1>3, <1>4, <1>5, <1>6, <1>7 DEF MoveInv

\* The start of the task.
LEMMA KeepsStart == ASSUME Move!MovesAssumption, MoveInv, Move!Start PROVE MoveInv'
<1>0. MoveTypes /\ ThingsKept /\ Stages /\ SourceAt /\ LookTrue /\ Destroyed /\ Move!RefusedIsUndone
  BY DEF MoveInv
<1>1. MoveTypes'
  BY <1>0 DEF Move!Start, MoveTypes, Move!Places, Move!TypeOK, Move!Things, Move!nas, Move!job,
       Move!GivesUp, Move!Returns, Move!Again, Move!Answered, Move!Moving, Move!MovesAssumption
<1>2. ThingsKept'
  BY <1>0 DEF Move!Start, ThingsKept, Stages, Move!Target, Move!nas
<1>3. Stages'
  BY <1>0 DEF Move!Start, Stages, Left, Move!job, Move!GivesUp, Move!Returns, Move!Again,
       Move!Answered, Move!Moving
<1>4. SourceAt'
  BY <1>0 DEF Move!Start, MoveTypes, Stages, SourceAt, Move!Target, Left, MovedBySmb, Move!TypeOK,
       Move!nas, Move!job, Move!GivesUp, Move!Returns, Move!Again, Move!Answered
<1>5. LookTrue'
  BY <1>0 DEF Move!Start, Stages, LookTrue, Move!Target, Move!nas, Move!job, Move!GivesUp,
       Move!Returns, Move!Again, Move!Answered, Move!Plan, Move!Plans
<1>6. Destroyed'
  BY <1>0 DEF Move!Start, Stages, Destroyed, Move!nas
<1>7. Move!RefusedIsUndone'
  BY <1>0 DEF Move!Start, MoveTypes, Stages, SourceAt, Move!RefusedIsUndone, Left, MovedBySmb,
       Move!TypeOK, Move!nas, Move!GivesUp, Move!Again
<1> QED BY <1>1, <1>2, <1>3, <1>4, <1>5, <1>6, <1>7 DEF MoveInv

\* The task polled.
LEMMA KeepsPoll == ASSUME Move!MovesAssumption, MoveInv, Move!Poll PROVE MoveInv'
<1>0. MoveTypes /\ ThingsKept /\ Stages /\ SourceAt /\ LookTrue /\ Destroyed /\ Move!RefusedIsUndone
  BY DEF MoveInv
<1>1. MoveTypes'
  BY <1>0 DEF Move!Poll, MoveTypes, Move!TypeOK, Move!job, Move!nas, Move!Fails, Move!Returns
<1>2. ThingsKept'
  BY <1>0 DEF Move!Poll, ThingsKept, Move!Target, Move!job, Move!nas
<1>3. Stages'
  BY <1>0 DEF Move!Poll, Stages, SourceAt, Move!Target, Left, Move!job, Move!nas, Move!Fails,
       Move!Returns
<1>4. SourceAt'
  BY <1>0 DEF Move!Poll, SourceAt, Move!Target, Left, MovedBySmb, Move!job, Move!nas, Move!Fails,
       Move!Returns
<1>5. LookTrue'
  BY <1>0 DEF Move!Poll, LookTrue, Move!Target, Move!job, Move!nas, Move!Fails, Move!Returns
<1>6. Destroyed'
  BY <1>0 DEF Move!Poll, Destroyed, Move!job, Move!nas, Move!Fails
<1>7. Move!RefusedIsUndone'
  BY <1>0 DEF Move!Poll, Stages, Move!RefusedIsUndone, Move!job
<1> QED BY <1>1, <1>2, <1>3, <1>4, <1>5, <1>6, <1>7 DEF MoveInv

\* The rename back, when it cannot go on.
LEMMA KeepsRenameBack == ASSUME Move!MovesAssumption, MoveInv, Move!RenameBack PROVE MoveInv'
<1>0. MoveTypes /\ ThingsKept /\ Stages /\ SourceAt /\ LookTrue /\ Destroyed /\ Move!RefusedIsUndone
  BY DEF MoveInv
<1>1. MoveTypes'
  BY <1>0 DEF Move!RenameBack, MoveTypes, Stages, Move!Places, Move!TypeOK, Move!job, Move!Went,
       Move!MovesAssumption
<1>2. ThingsKept'
  BY <1>0 DEF Move!RenameBack, MoveTypes, ThingsKept, Stages, Move!Target, Move!Places, Move!TypeOK,
       Move!Went
<1>3. Stages'
  BY <1>0 DEF Move!RenameBack, MoveTypes, Stages, Move!Target, Move!Places, Move!TypeOK, Move!job,
       Move!Went
<1>4. SourceAt'
  BY <1>0 DEF Move!RenameBack, Stages, SourceAt, Move!job
<1>5. LookTrue'
  BY <1>0 DEF Move!RenameBack, Stages, LookTrue, Move!job
<1>6. Destroyed'
  BY <1>0 DEF Move!RenameBack, Stages, Destroyed
<1>7. Move!RefusedIsUndone'
  BY <1>0 DEF Move!RenameBack, MoveTypes, Stages, SourceAt, Move!RefusedIsUndone, MovedBySmb,
       Move!Places, Move!TypeOK, Move!Went
<1> QED BY <1>1, <1>2, <1>3, <1>4, <1>5, <1>6, <1>7 DEF MoveInv

\* A request nobody hears.
LEMMA KeepsUnheard == ASSUME Move!MovesAssumption, MoveInv, Move!Unheard PROVE MoveInv'
<1>0. MoveTypes /\ ThingsKept /\ Stages /\ SourceAt /\ LookTrue /\ Destroyed /\ Move!RefusedIsUndone
  BY DEF MoveInv
<1>1. MoveTypes'
  BY <1>0 DEF Move!Unheard, MoveTypes, Move!TypeOK, Move!job, Move!nas, Move!Returns, Move!Again,
       Move!MovesAssumption
<1>2. ThingsKept'
  BY <1>0 DEF Move!Unheard, ThingsKept, Move!Target, Move!job, Move!nas
<1>3. Stages'
  BY <1>0 DEF Move!Unheard, Stages, Left, Move!job, Move!Returns, Move!Again
<1>4. SourceAt'
  BY <1>0 DEF Move!Unheard, MoveTypes, SourceAt, Move!Target, Left, MovedBySmb, Move!TypeOK,
       Move!job, Move!nas, Move!Returns, Move!Again
<1>5. LookTrue'
  BY <1>0 DEF Move!Unheard, LookTrue, Move!Target, Move!job, Move!nas, Move!Returns, Move!Again
<1>6. Destroyed'
  BY <1>0 DEF Move!Unheard, MoveTypes, Destroyed, Move!TypeOK, Move!job, Move!nas, Move!Again
<1>7. Move!RefusedIsUndone'
  BY <1>0 DEF Move!Unheard, MoveTypes, Move!RefusedIsUndone, Move!TypeOK, Move!Again
<1> QED BY <1>1, <1>2, <1>3, <1>4, <1>5, <1>6, <1>7 DEF MoveInv

\* The task's run.
LEMMA KeepsTaskRuns == ASSUME Move!MovesAssumption, MoveInv, Move!TaskRuns PROVE MoveInv'
<1>0. MoveTypes /\ ThingsKept /\ Stages /\ SourceAt /\ LookTrue /\ Destroyed /\ Move!RefusedIsUndone
  BY DEF MoveInv
<1>1. MoveTypes'
  <2>1. at' \in [Move!Places -> Move!Things \cup {Move!Nothing}]
    BY <1>0 DEF Move!TaskRuns, MoveTypes, Move!TypeOK, Move!Things, Move!Went
  <2>2. destroyed' \subseteq Move!Things \cup Move!Children
    <3>1. /\ destroyed \subseteq Move!Things \cup Move!Children /\ Move!Lands(taken) \in Move!Places
          /\ at \in [Move!Places -> Move!Things \cup {Move!Nothing}]
      BY <1>0 DEF MoveTypes, Move!TypeOK, Move!Lands, Move!Places
    <3>2. \/ destroyed' = destroyed \cup ({at[Move!Lands(taken)]} \ {Move!Nothing})
          \/ destroyed' = destroyed
      BY DEF Move!TaskRuns
    <3> QED BY <3>1, <3>2
  <2>3. inside' \in [Move!Children -> Move!Things \cup {Move!Nothing}]
    BY <1>0 DEF Move!TaskRuns, MoveTypes, Move!TypeOK
  <2>4. /\ pc' \in {"smb_look", "smb_rename", "info", "dest", "entries", "rename", "delete",
                  "start", "poll", "back", "done"}
        /\ res' \in {"none", "ok", "io", "refused", "not_supported", "not_empty", "exists"}
    BY <1>0 DEF Move!TaskRuns, MoveTypes, Move!TypeOK
  <2>5. tries' \in 0 .. 3 /\ movesLost' \in 0 .. MaxLost
    BY <1>0 DEF Move!TaskRuns, MoveTypes, Move!TypeOK, Move!bounds
  <2>6. /\ UNCHANGED <<smb, renames, isDir, look, over, taken, tasks, late, backUnder, intrusions>>
        /\ renamed' \in BOOLEAN /\ task' \in {"none", "running", "half", "done", "failed"}
    BY <1>0 DEF Move!TaskRuns, MoveTypes, Move!TypeOK, Move!bounds
  <2> QED BY <1>0, <2>1, <2>2, <2>3, <2>4, <2>5, <2>6 DEF MoveTypes, Move!TypeOK
<1>2. ThingsKept'
  BY <1>0 DEF Move!TaskRuns, MoveTypes, ThingsKept, Stages, Move!Nothing, Move!Target, Left,
       Move!TypeOK, Move!bounds, Move!Went, Move!Lands
<1>3. Stages'
  BY <1>0 DEF Move!TaskRuns, Stages, Left
<1>4. SourceAt'
  BY <1>0 DEF Move!TaskRuns, MoveTypes, ThingsKept, Stages, SourceAt, Move!Nothing, Move!Target,
       Left, MovedBySmb, Move!Places, Move!TypeOK, Move!bounds, Move!Went, Move!Lands
<1>5. LookTrue'
  BY <1>0 DEF Move!TaskRuns, MoveTypes, ThingsKept, Stages, SourceAt, LookTrue, Move!Target, Left,
       Move!Places
<1>6. Destroyed'
  BY <1>0 DEF Move!TaskRuns, MoveTypes, ThingsKept, Stages, SourceAt, Destroyed, Left, MovedBySmb,
       Move!Places, Move!TypeOK, Move!Things, Move!bounds, Move!Seen, Move!Lands
<1>7. Move!RefusedIsUndone'
  BY <1>0 DEF Move!TaskRuns, Stages, Move!RefusedIsUndone
<1> QED BY <1>1, <1>2, <1>3, <1>4, <1>5, <1>6, <1>7 DEF MoveInv

\* The task's end.
LEMMA KeepsTaskEnds == ASSUME Move!MovesAssumption, MoveInv, Move!TaskEnds PROVE MoveInv'
<1>0. MoveTypes /\ ThingsKept /\ Stages /\ SourceAt /\ LookTrue /\ Destroyed /\ Move!RefusedIsUndone
  BY DEF MoveInv
<1>1. MoveTypes'
  BY <1>0 DEF Move!TaskEnds, MoveTypes, Move!TypeOK, Move!bounds, Move!Went
<1>2. ThingsKept'
  BY <1>0 DEF Move!TaskEnds, MoveTypes, ThingsKept, Stages, SourceAt, Move!Nothing, Move!Target,
       Move!TypeOK, Move!bounds, Move!Went
<1>3. Stages'
  BY <1>0 DEF Move!TaskEnds, Stages, Left
<1>4. SourceAt'
  BY <1>0 DEF Move!TaskEnds, MoveTypes, ThingsKept, Stages, SourceAt, Move!Target, Left,
       Move!Places, Move!TypeOK, Move!bounds, Move!Lands, Move!Went
<1>5. LookTrue'
  BY <1>0 DEF Move!TaskEnds, Stages, LookTrue
<1>6. Destroyed'
  BY <1>0 DEF Move!TaskEnds, Destroyed
<1>7. Move!RefusedIsUndone'
  BY <1>0 DEF Move!TaskEnds, Stages, Move!RefusedIsUndone
<1> QED BY <1>1, <1>2, <1>3, <1>4, <1>5, <1>6, <1>7 DEF MoveInv

\* Another's file put there.
LEMMA KeepsIntrudes == ASSUME Move!MovesAssumption, MoveInv, Move!Intrudes PROVE MoveInv'
<1>0. MoveTypes /\ ThingsKept /\ Stages /\ SourceAt /\ LookTrue /\ Destroyed /\ Move!RefusedIsUndone
  BY DEF MoveInv
<1>1. MoveTypes'
  BY <1>0 DEF Move!Intrudes, MoveTypes, Move!TypeOK, Move!Things, Move!job, Move!MovesAssumption
<1>2. ThingsKept'
  BY <1>0 DEF Move!Intrudes, MoveTypes, ThingsKept, Move!Target, Move!TypeOK, Move!Children,
       Move!job
<1>3. Stages'
  BY <1>0 DEF Move!Intrudes, MoveTypes, Stages, Move!Nothing, Move!Target, Left, Move!Places,
       Move!TypeOK, Move!job
<1>4. SourceAt'
  BY <1>0 DEF Move!Intrudes, MoveTypes, SourceAt, Move!Nothing, Move!Target, Left, MovedBySmb,
       Move!Places, Move!TypeOK, Move!job
<1>5. LookTrue'
  BY <1>0 DEF Move!Intrudes, MoveTypes, LookTrue, Move!Nothing, Move!Target, Move!Places,
       Move!TypeOK, Move!job
<1>6. Destroyed'
  BY <1>0 DEF Move!Intrudes, MoveTypes, Destroyed, Move!TypeOK, Move!job
<1>7. Move!RefusedIsUndone'
  BY <1>0 DEF Move!Intrudes, Move!RefusedIsUndone
<1> QED BY <1>1, <1>2, <1>3, <1>4, <1>5, <1>6, <1>7 DEF MoveInv

\* The initial states have it.
LEMMA MoveInit == ASSUME Move!MovesAssumption, Move!Init PROVE MoveInv
<1>1. MoveTypes
  <2>1. isDir \in [Move!Things -> BOOLEAN] /\ ~ isDir["other"] /\ isDir["half"]
    BY DEF Move!Init
  <2>2. inside \in [Move!Children -> Move!Things \cup {Move!Nothing}]
    BY DEF Move!Init
  <2>3. at \in [Move!Places -> Move!Things \cup {Move!Nothing}]
    BY DEF Move!Init, Move!Things
  <2>4. 0 \in 0 .. 3 /\ 0 \in 0 .. MaxLost /\ 0 \in 0 .. MaxIntrusions
    BY DEF Move!MovesAssumption
  <2> QED BY <2>1, <2>2, <2>3, <2>4 DEF Move!Init, MoveTypes, Move!TypeOK, Move!Places
<1>2. ThingsKept
  BY DEF Move!Init, ThingsKept, Move!Places, Move!Things, Move!Children, Move!Nothing, Move!Target
<1>3. Stages /\ SourceAt /\ LookTrue /\ Destroyed
  BY DEF Move!Init, Stages, SourceAt, LookTrue, Destroyed, Move!Places, Move!Nothing, Move!Target
<1>4. Move!RefusedIsUndone
  BY DEF Move!Init, Move!RefusedIsUndone
<1> QED BY <1>1, <1>2, <1>3, <1>4 DEF MoveInv

\* Every step keeps it.
LEMMA MoveStep == ASSUME Move!MovesAssumption, MoveInv, [Move!Next]_(Move!vars) PROVE MoveInv'
<1>1. ASSUME UNCHANGED Move!vars PROVE MoveInv'
  BY <1>1 DEF Move!vars, Move!nas, Move!job, Move!bounds, MoveInv, MoveTypes, Move!TypeOK,
       ThingsKept, Stages, SourceAt, LookTrue,
     Destroyed, Move!RefusedIsUndone, Move!Target, Left, MovedBySmb
<1>2. ASSUME Move!Smb PROVE MoveInv'
  BY <1>2, KeepsSmbLooks, KeepsSmbRenames, KeepsSmbLost DEF Move!Smb
<1>3. ASSUME Move!FileStation PROVE MoveInv'
  BY <1>3, KeepsInfo, KeepsDestination, KeepsHasEntries, KeepsRename, KeepsDelete, KeepsStart,
       KeepsPoll,
     KeepsRenameBack, KeepsUnheard DEF Move!FileStation
<1>4. ASSUME Move!Nas PROVE MoveInv'
  BY <1>4, KeepsTaskRuns, KeepsTaskEnds DEF Move!Nas
<1> QED BY <1>1, <1>2, <1>3, <1>4, KeepsIntrudes DEF Move!Next

\* And it says what is checked.
LEMMA MoveHolds == ASSUME MoveInv PROVE Move!TypeOK /\ Move!ReplacesByRule /\ Move!OkIsMoved /\ Move!RefusedIsUndone /\ Move!OneTask /\ Move!NeverSplit
<1>1. MoveTypes /\ ThingsKept /\ Stages /\ SourceAt /\ LookTrue /\ Destroyed /\ Move!RefusedIsUndone
  BY DEF MoveInv
<1>2. Move!ReplacesByRule
  BY <1>1 DEF Destroyed, Move!ReplacesByRule
<1>3. Move!OkIsMoved
  BY <1>1 DEF Stages, Move!OkIsMoved
<1>4. Move!OneTask
  BY <1>1 DEF Stages, Move!OneTask
<1>5. Move!NeverSplit
  BY <1>1 DEF Stages, Move!NeverSplit, MoveTypes, Move!TypeOK, ThingsKept
<1> QED BY <1>1, <1>2, <1>3, <1>4, <1>5 DEF MoveTypes

-----------------------------------------------------------------------------
(* The log. *)

\* The names and files of a log: nothing in them is younger than the latest record, and no more
\* is on disk than was written.
LogFiles(d, c, y, m) ==
    /\ c \in Seq(Seq(Nat)) /\ y \in Seq(Nat) /\ Len(y) = Len(c)
    /\ d \in [Log!Generations -> 0 .. Len(c)]
    /\ \A f \in 1 .. Len(c) : y[f] <= Len(c[f])
    /\ \A f \in 1 .. Len(c) : \A i \in 1 .. Len(c[f]) : c[f][i] <= m

\* One name a file, and the older the name the older the records.
LogOrder(d, c) ==
    \A g, h \in Log!Generations : d[g] # Log!NoFile /\ d[h] # Log!NoFile /\ g < h =>
        /\ d[g] # d[h]
        /\ \A i \in 1 .. Len(c[d[g]]), j \in 1 .. Len(c[d[h]]) : c[d[h]][j] < c[d[g]][i]

\* What was acknowledged as durable is on disk.
LogDurable(c, y, k) ==
    \A f \in 1 .. Len(c) : \A i \in 1 .. Len(c[f]) : c[f][i] \in k => i <= y[f]

\* The active file does not outgrow its budget but by failed rotations.
LogBudget(d, c, f) == d[Log!Active] # Log!NoFile => Len(c[d[Log!Active]]) <= MaxBytes * (1 + f)

\* The file the process writes to is the active one, or there is none and what is written
\* goes to the newest that has a name, if it has one.
LogHandle(d, h, a) ==
    /\ d[Log!Active] = h \/ (a /\ d[Log!Active] = Log!NoFile)
    /\ \A g, n \in Log!Generations : d[g] = h /\ n < g => d[n] = Log!NoFile

\* What the process counts is what the file holds.
LogCount(s, f) ==
    /\ s.handle \in 1 .. Len(s.content) /\ s.written \in Nat /\ s.rotateAt \in Nat
    /\ s.written = Len(s.content[s.handle])
    /\ s.dir[Log!Active] = s.handle => s.rotateAt <= MaxBytes * (1 + f)

IsLog(s) == DOMAIN s = {"dir", "content", "synced", "handle", "written", "rotateAt"}

LogSound(s, m, f, a, k) ==
    /\ IsLog(s)
    /\ LogFiles(s.dir, s.content, s.synced, m) /\ LogOrder(s.dir, s.content)
    /\ LogDurable(s.content, s.synced, k) /\ LogBudget(s.dir, s.content, f)
    /\ LogHandle(s.dir, s.handle, a) /\ LogCount(s, f)

\* While nothing failed or died, the records are in the files as they were made, in files
\* that are full: the active one has the last, each older one as many before those.
LogWhole(s, m) ==
    /\ s.rotateAt = MaxBytes /\ s.written <= MaxBytes /\ s.written <= m
    /\ s.written = 0 => m = 0
    /\ \A i \in 1 .. s.written : s.content[s.handle][i] = m - s.written + i
    /\ \A g \in 1 .. Keep : m - s.written > (g - 1) * MaxBytes =>
          /\ s.dir[g] # Log!NoFile /\ Len(s.content[s.dir[g]]) = MaxBytes
          /\ \A i \in 1 .. MaxBytes : s.content[s.dir[g]][i] = m - s.written - g * MaxBytes + i

LogInv ==
    /\ LogSound(Log!AsItIs, made, faults, adrift, kept)
    /\ sink \in Log!Callbacks \cup {Log!None} /\ calling \in Log!Callbacks \cup {Log!None}
    /\ made \in 0 .. MaxRecords /\ faults \in 0 .. MaxFaults /\ starts \in 0 .. MaxStarts
    /\ kept \subseteq 1 .. made /\ adrift \in BOOLEAN
    /\ faults = 0 /\ starts = 0 => LogWhole(Log!AsItIs, made) /\ ~ adrift

\* What the assumption says, constant by constant.
LEMMA LogConstants ==
    ASSUME Log!LogAssumption
    PROVE  /\ Keep \in Nat \ {0} /\ MaxBytes \in Nat \ {0}
           /\ MaxRecords \in Nat /\ MaxFaults \in Nat /\ MaxStarts \in Nat
  BY DEF Log!LogAssumption

\* A failed rotation costs a budget.
LEMMA BudgetGrows ==
    ASSUME NEW b \in Nat, NEW f \in Nat, NEW e \in Nat, f <= e
    PROVE  /\ b * (1 + f) \in Nat /\ b * (1 + e) \in Nat /\ b * (1 + f) <= b * (1 + e)
           /\ b * (1 + f) + b = b * (1 + (f + 1)) /\ b <= b * (1 + f)
<1>1. PICK k \in Nat : e = f + k
  <2>1. e - f \in Nat /\ e = f + (e - f)
    OBVIOUS
  <2> QED BY <2>1
<1>2. b * (1 + f) = b + b * f /\ b * (1 + e) = b + b * e /\ b * e = b * f + b * k
  BY <1>1
<1>3. b * f \in Nat /\ b * e \in Nat /\ b * k \in Nat
  BY <1>1
<1>4. b * (1 + (f + 1)) = b + b * f + b
  OBVIOUS
<1> QED BY <1>2, <1>3, <1>4

\* Renaming from one generation on leaves a gap there and the rest in order.
LEMMA MovedKeeps ==
    ASSUME Log!LogAssumption, NEW d, NEW last \in Log!Generations
    PROVE  /\ \A n \in Nat : d \in [Log!Generations -> 0 .. n] => Log!Moved(d, last) \in [Log!Generations -> 0 .. n]
           /\ \A c : LogOrder(d, c) => LogOrder(Log!Moved(d, last), c)
           /\ Log!Moved(d, last)[last] = Log!NoFile
           /\ \A g \in Log!Generations : g < last => Log!Moved(d, last)[g] = d[g]
           /\ \A g \in Log!Generations : g > last => g - 1 \in Log!Generations /\ Log!Moved(d, last)[g] = d[g - 1]
<1> DEFINE e == Log!Moved(d, last)
<1>1. Log!Generations = 0 .. Keep /\ Keep \in Nat /\ Log!NoFile = 0
  BY LogConstants DEF Log!Generations, Log!NoFile
<1>2. \A g \in Log!Generations : g > last => g - 1 \in Log!Generations
  BY <1>1
<1>3. /\ e[last] = Log!NoFile
      /\ \A g \in Log!Generations : g < last => e[g] = d[g]
      /\ \A g \in Log!Generations : g > last => e[g] = d[g - 1]
  BY <1>1, <1>2 DEF Log!Moved
<1>5. ASSUME NEW n \in Nat, d \in [Log!Generations -> 0 .. n] PROVE e \in [Log!Generations -> 0 .. n]
  BY <1>1, <1>2, <1>5 DEF Log!Moved
<1> HIDE DEF e
<1>4. ASSUME NEW c, LogOrder(d, c) PROVE LogOrder(e, c)
  <2>1. SUFFICES ASSUME NEW g \in Log!Generations, NEW h \in Log!Generations,
                        e[g] # Log!NoFile, e[h] # Log!NoFile, g < h
                 PROVE  /\ e[g] # e[h]
                        /\ \A i \in 1 .. Len(c[e[g]]), j \in 1 .. Len(c[e[h]]) : c[e[h]][j] < c[e[g]][i]
    BY DEF LogOrder
  <2> DEFINE from == IF g > last THEN g - 1 ELSE g
             to == IF h > last THEN h - 1 ELSE h
  <2>2. from \in Log!Generations /\ to \in Log!Generations /\ from < to
    BY <1>1, <1>2, <1>3, <2>1
  <2>3. e[g] = d[from] /\ e[h] = d[to]
    BY <1>1, <1>3, <2>1
  <2> HIDE DEF from, to
  <2> QED BY <1>4, <2>1, <2>2, <2>3 DEF LogOrder
<1> QED BY <1>2, <1>3, <1>4, <1>5 DEF e

\* A new file is empty, and so in order with any.
LEMMA NewFile ==
    ASSUME Log!LogAssumption, NEW d, NEW c, NEW y, NEW m, NEW k, LogFiles(d, c, y, m),
           LogOrder(d, c), LogDurable(c, y, k), d[Log!Active] = Log!NoFile
    PROVE  /\ LogFiles([d EXCEPT ![Log!Active] = Len(c) + 1], Append(c, <<>>), Append(y, 0), m)
           /\ LogOrder([d EXCEPT ![Log!Active] = Len(c) + 1], Append(c, <<>>))
           /\ LogDurable(Append(c, <<>>), Append(y, 0), k)
           /\ Append(c, <<>>)[Len(c) + 1] = <<>>
           /\ [d EXCEPT ![Log!Active] = Len(c) + 1][Log!Active] = Len(c) + 1
<1> DEFINE e == [d EXCEPT ![Log!Active] = Len(c) + 1]
           b == Append(c, <<>>)
           z == Append(y, 0)
<1>0. e = [d EXCEPT ![Log!Active] = Len(c) + 1]
  OBVIOUS
<1> HIDE DEF e
<1>1. /\ c \in Seq(Seq(Nat)) /\ y \in Seq(Nat) /\ Len(y) = Len(c) /\ Len(c) \in Nat
      /\ d \in [Log!Generations -> 0 .. Len(c)]
      /\ \A f \in 1 .. Len(c) : y[f] <= Len(c[f])
      /\ \A f \in 1 .. Len(c) : \A i \in 1 .. Len(c[f]) : c[f][i] <= m
  BY DEF LogFiles
<1>2. /\ b \in Seq(Seq(Nat)) /\ Len(b) = Len(c) + 1 /\ b[Len(c) + 1] = <<>>
      /\ \A f \in 1 .. Len(c) : b[f] = c[f]
  <2>1. <<>> \in Seq(Nat)
    OBVIOUS
  <2> QED BY <1>1, <2>1
<1>3. /\ z \in Seq(Nat) /\ Len(z) = Len(c) + 1 /\ z[Len(c) + 1] = 0
      /\ \A f \in 1 .. Len(c) : z[f] = y[f]
  BY <1>1
<1> HIDE DEF b, z, e
<1>4. Log!Active \in Log!Generations /\ Log!Active = 0 /\ Log!NoFile = 0 /\ \A g \in Log!Generations : g \in Nat
  BY LogConstants DEF Log!Active, Log!Generations, Log!NoFile
<1>5. /\ e \in [Log!Generations -> 0 .. Len(c) + 1] /\ e[Log!Active] = Len(c) + 1
      /\ \A g \in Log!Generations : g # Log!Active => e[g] = d[g]
  BY <1>0, <1>1, <1>4
<1>6. \A f \in 1 .. Len(b) : f \in 1 .. Len(c) \/ (f = Len(c) + 1 /\ Len(b[f]) = 0 /\ 1 .. Len(b[f]) = {})
  <2>1. 1 .. 0 = {}
    OBVIOUS
  <2> QED BY <1>1, <1>2, <2>1
<1>7. LogFiles(e, b, z, m)
  <2>1. ASSUME NEW f \in 1 .. Len(b) PROVE z[f] <= Len(b[f])
    <3>1. CASE f \in 1 .. Len(c)
      BY <1>1, <1>2, <1>3, <3>1
    <3>2. CASE f = Len(c) + 1 /\ Len(b[f]) = 0
      BY <1>3, <3>2
    <3> QED BY <1>6, <3>1, <3>2
  <2>2. ASSUME NEW f \in 1 .. Len(b), NEW i \in 1 .. Len(b[f]) PROVE b[f][i] <= m
    <3>1. f \in 1 .. Len(c) /\ b[f] = c[f]
      BY <1>2, <1>6, <2>2
    <3> QED BY <1>1, <2>2, <3>1
  <2> QED BY <1>2, <1>3, <1>5, <2>1, <2>2 DEF LogFiles
<1>8. LogDurable(b, z, k)
  <2>1. ASSUME NEW f \in 1 .. Len(b), NEW i \in 1 .. Len(b[f]), b[f][i] \in k PROVE i <= z[f]
    <3>1. f \in 1 .. Len(c) /\ b[f] = c[f] /\ z[f] = y[f]
      BY <1>2, <1>3, <1>6, <2>1
    <3> QED BY <2>1, <3>1 DEF LogDurable
  <2> QED BY <2>1 DEF LogDurable
<1>9. LogOrder(e, b)
  <2>1. SUFFICES ASSUME NEW g \in Log!Generations, NEW h \in Log!Generations,
                        e[g] # Log!NoFile, e[h] # Log!NoFile, g < h
                 PROVE  /\ e[g] # e[h]
                        /\ \A i \in 1 .. Len(b[e[g]]), j \in 1 .. Len(b[e[h]]) : b[e[h]][j] < b[e[g]][i]
    BY DEF LogOrder
  <2>2. h # Log!Active /\ e[h] = d[h] /\ d[h] \in 1 .. Len(c) /\ b[e[h]] = c[d[h]]
    BY <1>1, <1>2, <1>4, <1>5, <2>1
  <2>3. CASE g = Log!Active
    <3>1. e[g] = Len(c) + 1 /\ Len(b[e[g]]) = 0
      BY <1>2, <1>5, <2>3
    <3>2. e[g] # e[h] /\ 1 .. Len(b[e[g]]) = {}
      BY <1>1, <2>2, <3>1
    <3> QED BY <3>2
  <2>4. CASE g # Log!Active
    <3>1. e[g] = d[g] /\ d[g] \in 1 .. Len(c) /\ b[e[g]] = c[d[g]]
      BY <1>1, <1>2, <1>4, <1>5, <2>1, <2>4
    <3> QED BY <1>4, <2>1, <2>2, <3>1 DEF LogOrder
  <2> QED BY <2>3, <2>4
<1> QED BY <1>2, <1>5, <1>7, <1>8, <1>9 DEF b, z, e

\* A process that opened the active file, or made it, counts what is in it.
LEMMA FileOpened ==
    ASSUME Log!LogAssumption, NEW d, NEW c, NEW y, NEW m, NEW k, NEW f \in Nat, NEW a, LogFiles(d, c, y, m),
           LogOrder(d, c), LogDurable(c, y, k), LogBudget(d, c, f), d[Log!Active] # Log!NoFile,
           NEW s, s = [dir |-> d, content |-> c, synced |-> y, handle |-> d[Log!Active],
                       written |-> Len(c[d[Log!Active]]), rotateAt |-> MaxBytes]
    PROVE  LogSound(s, m, f, a, k) /\ (s.written = 0 => s.written + 1 <= MaxBytes * (1 + f))
<1>1. Log!Active \in Log!Generations /\ Log!Active = 0 /\ Log!NoFile = 0 /\ \A g \in Log!Generations : g \in Nat
  BY LogConstants DEF Log!Active, Log!Generations, Log!NoFile
<1>2. d[Log!Active] \in 1 .. Len(c) /\ c[d[Log!Active]] \in Seq(Nat)
  BY <1>1 DEF LogFiles
<1>3. MaxBytes \in Nat /\ 1 <= MaxBytes /\ MaxBytes <= MaxBytes * (1 + f) /\ MaxBytes * (1 + f) \in Nat
  BY LogConstants, BudgetGrows
<1>4. LogHandle(d, d[Log!Active], a)
  <2>1. ASSUME NEW g \in Log!Generations, NEW n \in Log!Generations, d[g] = d[Log!Active], n < g PROVE FALSE
    <3>1. Log!Active < g
      BY <1>1, <2>1
    <3> QED BY <1>1, <2>1, <3>1 DEF LogOrder
  <2> QED BY <2>1 DEF LogHandle
<1>5. LogCount(s, f)
  BY <1>2, <1>3 DEF LogCount
<1> QED BY <1>3, <1>4, <1>5 DEF LogSound, IsLog

\* Opening appends to the active file, or begins one.
LEMMA OpenedKeeps ==
    ASSUME Log!LogAssumption, NEW d, NEW c, NEW y, NEW m, NEW k, NEW f \in Nat, LogFiles(d, c, y, m),
           LogOrder(d, c), LogDurable(c, y, k), LogBudget(d, c, f)
    PROVE  LogSound(Log!Opened(d, c, y), m, f, FALSE, k)
<1>1. /\ d \in [Log!Generations -> 0 .. Len(c)] /\ Log!Active \in Log!Generations /\ Log!NoFile = 0 /\ Len(c) \in Nat
      /\ Len(<<>>) = 0
  BY LogConstants DEF LogFiles, Log!Active, Log!Generations, Log!NoFile
<1>2. CASE d[Log!Active] = Log!NoFile
  <2> DEFINE e == [d EXCEPT ![Log!Active] = Len(c) + 1]
             b == Append(c, <<>>)
             z == Append(y, 0)
  <2>1. /\ LogFiles(e, b, z, m) /\ LogOrder(e, b) /\ LogDurable(b, z, k)
        /\ b[Len(c) + 1] = <<>> /\ e[Log!Active] = Len(c) + 1
    BY <1>2, NewFile, Zenon
  <2> HIDE DEF e, b, z
  <2>2. Log!Opened(d, c, y) = [dir |-> e, content |-> b, synced |-> z, handle |-> Len(c) + 1,
                           written |-> 0, rotateAt |-> MaxBytes]
    BY <1>2 DEF Log!Opened, e, b, z
  <2>3. LogBudget(e, b, f)
    BY <1>1, <2>1, LogConstants, BudgetGrows DEF LogBudget
  <2>4. e[Log!Active] # Log!NoFile /\ Len(b[e[Log!Active]]) = 0
    BY <1>1, <2>1
  <2> QED BY <2>1, <2>2, <2>3, <2>4, FileOpened
<1>3. CASE d[Log!Active] # Log!NoFile
  <2>1. [d EXCEPT ![Log!Active] = d[Log!Active]] = d
    BY <1>1
  <2>2. Log!Opened(d, c, y) = [dir |-> d, content |-> c, synced |-> y, handle |-> d[Log!Active],
                           written |-> Len(c[d[Log!Active]]), rotateAt |-> MaxBytes]
    BY <1>3, <2>1 DEF Log!Opened
  <2> QED BY <1>3, <2>2, FileOpened
<1> QED BY <1>2, <1>3

\* Renaming hides the file the process writes to from no newer name, and leaves it without
\* one only as the active file's is taken.
LEMMA MovedHandle ==
    ASSUME Log!LogAssumption, NEW c, NEW n \in Nat, NEW d \in [Log!Generations -> 0 .. n], NEW a,
           NEW last \in Log!Generations, LogOrder(d, c), NEW h \in 1 .. n, LogHandle(d, h, a)
    PROVE  LogHandle(Log!Moved(d, last), h, a \/ last = Log!Active)
<1> DEFINE e == Log!Moved(d, last)
<1>1. /\ e[last] = Log!NoFile
      /\ \A g \in Log!Generations : g < last => e[g] = d[g]
      /\ \A g \in Log!Generations : g > last => g - 1 \in Log!Generations /\ e[g] = d[g - 1]
  BY MovedKeeps, Zenon
<1>2. Log!Active \in Log!Generations /\ Log!Active = 0 /\ Log!NoFile = 0 /\ \A g \in Log!Generations : g \in Nat
  BY LogConstants DEF Log!Active, Log!Generations, Log!NoFile
<1> HIDE DEF e
<1>3. e[Log!Active] = h \/ ((a \/ last = Log!Active) /\ e[Log!Active] = Log!NoFile)
  BY <1>1, <1>2 DEF LogHandle
<1>4. ASSUME NEW g \in Log!Generations, NEW i \in Log!Generations, e[g] = h, i < g PROVE e[i] = Log!NoFile
  <2> DEFINE from == IF g > last THEN g - 1 ELSE g
             to == IF i > last THEN i - 1 ELSE i
  <2>1. CASE i = last
    BY <1>1, <2>1
  <2>2. CASE i # last
    <3>1. g # last /\ h # Log!NoFile
      BY <1>1, <1>2, <1>4
    <3>2. from \in Log!Generations /\ to \in Log!Generations /\ to < from
      BY <1>1, <1>2, <1>4, <2>2, <3>1
    <3>3. e[g] = d[from] /\ e[i] = d[to]
      BY <1>1, <1>2, <2>2, <3>1
    <3> HIDE DEF from, to
    <3> QED BY <1>4, <3>2, <3>3 DEF LogHandle
  <2> QED BY <2>1, <2>2
<1> QED BY <1>3, <1>4 DEF LogHandle, e

\* What is synced before a rotation takes nothing back.
LEMMA SyncedKeeps ==
    ASSUME Log!LogAssumption, NEW d, NEW c, NEW y, NEW m, NEW k, LogFiles(d, c, y, m), LogDurable(c, y, k),
           NEW h \in 1 .. Len(c)
    PROVE  /\ LogFiles(d, c, [y EXCEPT ![h] = Len(c[h])], m)
           /\ LogDurable(c, [y EXCEPT ![h] = Len(c[h])], k)
<1> DEFINE z == [y EXCEPT ![h] = Len(c[h])]
<1>1. /\ c \in Seq(Seq(Nat)) /\ y \in Seq(Nat) /\ Len(y) = Len(c)
      /\ \A f \in 1 .. Len(c) : y[f] <= Len(c[f])
  BY DEF LogFiles
<1>2. Len(c[h]) \in Nat
  BY <1>1
<1>3. z \in Seq(Nat) /\ Len(z) = Len(c) /\ \A f \in 1 .. Len(c) : z[f] = IF f = h THEN Len(c[h]) ELSE y[f]
  BY <1>1, <1>2
<1> HIDE DEF z
<1>4. LogFiles(d, c, z, m)
  <2>1. ASSUME NEW f \in 1 .. Len(c) PROVE z[f] <= Len(c[f])
    <3>1. CASE f = h
      BY <1>2, <1>3, <3>1
    <3>2. CASE f # h
      BY <1>1, <1>3, <3>2
    <3> QED BY <3>1, <3>2
  <2> QED BY <1>3, <2>1 DEF LogFiles
<1>5. LogDurable(c, z, k)
  <2>1. ASSUME NEW f \in 1 .. Len(c), NEW i \in 1 .. Len(c[f]), c[f][i] \in k PROVE i <= z[f]
    <3>1. i <= y[f]
      BY <2>1 DEF LogDurable
    <3>2. f = h => i <= Len(c[h])
      BY <1>2
    <3> QED BY <1>3, <3>1, <3>2
  <2> QED BY <2>1 DEF LogDurable
<1> QED BY <1>4, <1>5 DEF z

\* The record under way fits the budget of the file it goes to.
LogRoom(s, f) == s.dir[Log!Active] = s.handle => s.written + 1 <= MaxBytes * (1 + f)

\* What there is stays sound as more records are made and more fails.
LEMMA LogMore ==
    ASSUME Log!LogAssumption, NEW s, NEW m \in Nat, NEW n \in Nat, m <= n, NEW f \in Nat, NEW e \in Nat, f <= e,
           NEW a, NEW k, LogSound(s, m, f, a, k)
    PROVE  LogSound(s, n, e, a, k) /\ (LogRoom(s, f) => LogRoom(s, e))
<1>1. /\ MaxBytes * (1 + f) \in Nat /\ MaxBytes * (1 + e) \in Nat
      /\ MaxBytes * (1 + f) <= MaxBytes * (1 + e)
  BY LogConstants, BudgetGrows
<1>2. s.content \in Seq(Seq(Nat)) /\ s.handle \in 1 .. Len(s.content) /\ s.rotateAt \in Nat /\ s.written \in Nat
  BY DEF LogSound, LogFiles, LogCount
<1>3. Log!Active \in Log!Generations /\ Log!NoFile = 0
  BY LogConstants DEF Log!Active, Log!Generations, Log!NoFile
<1>4. LogFiles(s.dir, s.content, s.synced, n)
  <2>1. ASSUME NEW g \in 1 .. Len(s.content), NEW i \in 1 .. Len(s.content[g]) PROVE s.content[g][i] <= n
    <3>1. LogFiles(s.dir, s.content, s.synced, m)
      BY DEF LogSound
    <3>3. s.content[g] \in Seq(Nat)
      BY <1>2, <2>1
    <3>4. s.content[g][i] <= m
      BY <2>1, <3>1 DEF LogFiles
    <3>2. s.content[g][i] \in Nat
      BY <2>1, <3>3
    <3> QED BY <3>2, <3>4
  <2> QED BY <2>1 DEF LogSound, LogFiles
<1>5. LogBudget(s.dir, s.content, e)
  <2>1. SUFFICES ASSUME s.dir[Log!Active] # Log!NoFile PROVE Len(s.content[s.dir[Log!Active]]) <= MaxBytes * (1 + e)
    BY DEF LogBudget
  <2>2. s.dir[Log!Active] \in 1 .. Len(s.content)
    BY <1>2, <1>3, <2>1 DEF LogSound, LogFiles
  <2>3. Len(s.content[s.dir[Log!Active]]) \in Nat
    <3>1. s.content \in Seq(Seq(Nat))
      BY <1>2
    <3>2. ASSUME NEW c \in Seq(Seq(Nat)), NEW i \in 1 .. Len(c) PROVE Len(c[i]) \in Nat
      OBVIOUS
    <3> QED BY <2>2, <3>1, <3>2, Zenon
  <2>4. Len(s.content[s.dir[Log!Active]]) <= MaxBytes * (1 + f)
    BY <2>1 DEF LogSound, LogBudget
  <2> QED BY <1>1, <2>3, <2>4
<1>6. LogCount(s, e)
  BY <1>1, <1>2 DEF LogSound, LogCount
<1>7. LogRoom(s, f) => LogRoom(s, e)
  BY <1>1, <1>2 DEF LogRoom
<1> QED BY <1>4, <1>5, <1>6, <1>7 DEF LogSound

\* A rotation, however it ends, leaves the files in order and a file to write to.
LEMMA RotatedKeeps ==
    ASSUME Log!LogAssumption, NEW m \in Nat, NEW f \in Nat, NEW a, NEW k, LogSound(Log!AsItIs, m, f, a, k),
           NEW e \in Log!Endings
    PROVE  /\ LogSound(Log!RotatedTo(e), m, f + (IF e.failed THEN 1 ELSE 0), a \/ (e.last = Log!Active /\ ~ e.opened), k)
           /\ LogRoom(Log!RotatedTo(e), f + (IF e.failed THEN 1 ELSE 0))
<1> DEFINE d == IF e.last > Keep THEN dir ELSE Log!Moved(dir, e.last)
           y == IF e.last > Keep THEN synced ELSE [synced EXCEPT ![handle] = Len(content[handle])]
           b == f + (IF e.failed THEN 1 ELSE 0)
           r == a \/ (e.last = Log!Active /\ ~ e.opened)
<1>1. /\ LogFiles(dir, content, synced, m) /\ LogOrder(dir, content)
      /\ LogDurable(content, synced, k) /\ LogBudget(dir, content, f)
      /\ LogHandle(dir, handle, a)
      /\ handle \in 1 .. Len(content) /\ written \in Nat /\ rotateAt \in Nat
      /\ written = Len(content[handle]) /\ (dir[Log!Active] = handle => rotateAt <= MaxBytes * (1 + f))
  BY DEF LogSound, Log!AsItIs, LogCount
<1>2. /\ Keep \in Nat \ {0} /\ MaxBytes \in Nat \ {0} /\ Log!Active = 0 /\ Log!NoFile = 0 /\ Log!Generations = 0 .. Keep
      /\ Log!Active \in Log!Generations
  BY LogConstants DEF Log!Active, Log!NoFile, Log!Generations
<1>3. /\ e.last \in 0 .. Keep + 1 /\ e.opened \in BOOLEAN /\ e.failed \in BOOLEAN
      /\ e.opened => e.last = Log!Active /\ ~ e.failed
      /\ e.last = Log!Active => dir[Log!Active] # Log!NoFile
      /\ ~ e.opened /\ ~ e.failed => dir[Log!Active] = Log!NoFile /\ e.last = 1
  BY <1>2 DEF Log!Endings
<1>4. Len(content) \in Nat /\ dir \in [Log!Generations -> 0 .. Len(content)]
  BY <1>1 DEF LogFiles
<1>5. ~(e.last > Keep) => e.last \in Log!Generations
  BY <1>2, <1>3
<1>6. /\ d \in [Log!Generations -> 0 .. Len(content)] /\ LogOrder(d, content)
      /\ d[Log!Active] = IF e.last = Log!Active THEN Log!NoFile ELSE dir[Log!Active]
  <2>1. CASE e.last > Keep
    BY <1>1, <1>2, <1>4, <2>1
  <2>2. CASE ~(e.last > Keep)
    <3>1. /\ d = Log!Moved(dir, e.last) /\ d \in [Log!Generations -> 0 .. Len(content)] /\ LogOrder(d, content)
          /\ d[e.last] = Log!NoFile /\ \A g \in Log!Generations : g < e.last => d[g] = dir[g]
      BY <1>1, <1>4, <1>5, <2>2, MovedKeeps
    <3> QED BY <1>2, <1>3, <2>2, <3>1
  <2> QED BY <2>1, <2>2
<1>7. LogFiles(d, content, y, m) /\ LogDurable(content, y, k)
  <2>1. LogFiles(d, content, synced, m)
    BY <1>1, <1>6 DEF LogFiles
  <2> QED BY <1>1, <2>1, SyncedKeeps
<1>8. ~ e.opened => LogHandle(d, handle, r)
  <2>1. CASE e.last > Keep
    BY <1>1, <2>1 DEF LogHandle
  <2>2. CASE ~(e.last > Keep)
    <3>1. LogHandle(Log!Moved(dir, e.last), handle, a \/ e.last = Log!Active)
      BY <1>1, <1>4, <1>5, <2>2, MovedHandle
    <3>2. e.last = Log!Active => dir[Log!Active] = handle
      BY <1>1, <1>3 DEF LogHandle
    <3> QED BY <1>3, <2>2, <3>1, <3>2 DEF LogHandle
  <2> QED BY <2>1, <2>2
<1>9. /\ b \in Nat /\ f <= b /\ MaxBytes * (1 + f) \in Nat /\ MaxBytes * (1 + b) \in Nat
      /\ MaxBytes * (1 + f) <= MaxBytes * (1 + b)
      /\ e.failed => MaxBytes * (1 + f) + MaxBytes = MaxBytes * (1 + b)
  BY <1>2, <1>3, BudgetGrows
<1>10. LogBudget(d, content, b)
  <2>1. SUFFICES ASSUME d[Log!Active] # Log!NoFile PROVE Len(content[d[Log!Active]]) <= MaxBytes * (1 + b)
    BY DEF LogBudget
  <2>2. d[Log!Active] = dir[Log!Active] /\ dir[Log!Active] \in 1 .. Len(content)
    BY <1>2, <1>4, <1>6, <2>1
  <2>3. Len(content[d[Log!Active]]) \in Nat /\ Len(content[d[Log!Active]]) <= MaxBytes * (1 + f)
    <3>1. Len(content[d[Log!Active]]) \in Nat
      BY <1>1, <2>2
    <3>2. Len(content[dir[Log!Active]]) <= MaxBytes * (1 + f)
      BY <1>1, <1>2, <2>1, <2>2 DEF LogBudget
    <3> QED BY <2>2, <3>1, <3>2
  <2> QED BY <1>9, <2>3
<1> HIDE DEF d, y, b, r
<1>11. CASE e.opened
  <2> DEFINE g == [d EXCEPT ![Log!Active] = Len(content) + 1]
             c == Append(content, <<>>)
             z == Append(y, 0)
  <2>1. d[Log!Active] = Log!NoFile
    BY <1>3, <1>6, <1>11
  <2>2. /\ LogFiles(g, c, z, m) /\ LogOrder(g, c) /\ LogDurable(c, z, k)
        /\ c[Len(content) + 1] = <<>> /\ g[Log!Active] = Len(content) + 1
    BY <1>6, <1>7, <2>1, NewFile, Zenon
  <2> HIDE DEF g, c, z
  <2>3. Log!RotatedTo(e) = [dir |-> g, content |-> c, synced |-> z, handle |-> Len(content) + 1,
                        written |-> 0, rotateAt |-> MaxBytes]
    BY <1>11 DEF Log!RotatedTo, d, y, g, c, z
  <2>4. Len(c[g[Log!Active]]) = 0 /\ g[Log!Active] # Log!NoFile
    BY <1>2, <1>4, <2>2
  <2>5. LogBudget(g, c, b)
    BY <1>9, <2>4 DEF LogBudget
  <2>6. LogSound(Log!RotatedTo(e), m, b, r, k) /\ (Log!RotatedTo(e).written = 0 => Log!RotatedTo(e).written + 1 <= MaxBytes * (1 + b))
    BY <1>9, <2>2, <2>3, <2>4, <2>5, FileOpened
  <2> QED BY <2>3, <2>6 DEF LogRoom, b, r
<1>12. CASE ~ e.opened
  <2>1. Log!RotatedTo(e) = [dir |-> d, content |-> content, synced |-> y, handle |-> handle,
                        written |-> written, rotateAt |-> written + MaxBytes]
    BY <1>12 DEF Log!RotatedTo, d, y
  <2>2. d[Log!Active] = handle => /\ written + MaxBytes <= MaxBytes * (1 + b)
                              /\ written + 1 <= MaxBytes * (1 + b)
    <3>1. SUFFICES ASSUME d[Log!Active] = handle PROVE written + MaxBytes <= MaxBytes * (1 + b)
      BY <1>1, <1>2, <1>9
    <3>2. dir[Log!Active] = handle /\ dir[Log!Active] # Log!NoFile
      BY <1>1, <1>2, <1>6, <3>1
    <3>3. e.failed /\ written <= MaxBytes * (1 + f)
      BY <1>1, <1>3, <1>12, <3>2 DEF LogBudget
    <3> DEFINE p == MaxBytes * (1 + f)
               q == MaxBytes * (1 + b)
    <3>4. p \in Nat /\ q \in Nat /\ p + MaxBytes = q /\ written <= p
      BY <1>9, <3>3
    <3> HIDE DEF p, q
    <3>5. written + MaxBytes <= q
      BY <1>1, <1>2, <3>4
    <3> QED BY <3>5 DEF q
  <2>3. LogCount(Log!RotatedTo(e), b) /\ LogRoom(Log!RotatedTo(e), b)
    BY <1>1, <1>2, <2>1, <2>2 DEF LogCount, LogRoom
  <2>4. LogSound(Log!RotatedTo(e), m, b, r, k)
    BY <1>6, <1>7, <1>8, <1>10, <1>12, <2>1, <2>3 DEF LogSound, IsLog
  <2> QED BY <2>3, <2>4 DEF b, r
<1> QED BY <1>3, <1>11, <1>12

\* The files once a record is appended to file h, and what of them is on disk then.
WithRecord(c, h, r) == [c EXCEPT ![h] = Append(c[h], r)]
WithSync(y, c, h, sync) == [y EXCEPT ![h] = IF sync THEN Len(c[h]) + 1 ELSE y[h]]

\* What appending changes.
LEMMA AppendedIs ==
    ASSUME NEW s, IsLog(s), NEW r, NEW sync \in BOOLEAN
    PROVE  /\ IsLog(Log!Appended(s, r, sync))
           /\ Log!Appended(s, r, sync).content = WithRecord(s.content, s.handle, r)
           /\ Log!Appended(s, r, sync).synced = WithSync(s.synced, s.content, s.handle, sync)
           /\ Log!Appended(s, r, sync).dir = s.dir /\ Log!Appended(s, r, sync).handle = s.handle
           /\ Log!Appended(s, r, sync).written = s.written + 1 /\ Log!Appended(s, r, sync).rotateAt = s.rotateAt
<1> DEFINE c == [s.content EXCEPT ![s.handle] = Append(s.content[s.handle], r)]
           w == s.written + 1
           y == [s.synced EXCEPT ![s.handle] = IF sync THEN Len(s.content[s.handle]) + 1 ELSE s.synced[s.handle]]
<1>1. Log!Appended(s, r, sync) = [s EXCEPT !.content = c, !.written = w, !.synced = y]
  BY DEF Log!Appended
<1> HIDE DEF c, w, y
<1>2. IsLog([s EXCEPT !.content = c, !.written = w, !.synced = y])
  BY DEF IsLog
<1>3. /\ [s EXCEPT !.content = c, !.written = w, !.synced = y].content = c
      /\ [s EXCEPT !.content = c, !.written = w, !.synced = y].synced = y
      /\ [s EXCEPT !.content = c, !.written = w, !.synced = y].written = w
      /\ [s EXCEPT !.content = c, !.written = w, !.synced = y].dir = s.dir
      /\ [s EXCEPT !.content = c, !.written = w, !.synced = y].handle = s.handle
      /\ [s EXCEPT !.content = c, !.written = w, !.synced = y].rotateAt = s.rotateAt
  BY DEF IsLog
<1> QED BY <1>1, <1>2, <1>3 DEF c, w, y, WithRecord, WithSync

\* An appended record is its file's last, and the youngest of all.
LEMMA AppendFiles ==
    ASSUME Log!LogAssumption, NEW d, NEW c, NEW y, NEW h, NEW w, NEW m \in Nat, NEW f \in Nat, NEW a,
           NEW k \in SUBSET (1 .. m), LogFiles(d, c, y, m), LogOrder(d, c), LogDurable(c, y, k),
           LogHandle(d, h, a), h \in 1 .. Len(c), w = Len(c[h]),
           d[Log!Active] = h => w + 1 <= MaxBytes * (1 + f), NEW sync \in BOOLEAN,
           NEW j, j = k \/ (sync /\ j = k \cup {m + 1})
    PROVE  /\ LogFiles(d, WithRecord(c, h, m + 1), WithSync(y, c, h, sync), m + 1)
           /\ LogOrder(d, WithRecord(c, h, m + 1))
           /\ LogDurable(WithRecord(c, h, m + 1), WithSync(y, c, h, sync), j)
           /\ LogBudget(d, WithRecord(c, h, m + 1), f)
<1> DEFINE e == WithRecord(c, h, m + 1)
           z == WithSync(y, c, h, sync)
<1>0. e = [c EXCEPT ![h] = Append(c[h], m + 1)] /\ z = [y EXCEPT ![h] = IF sync THEN Len(c[h]) + 1 ELSE y[h]]
  BY DEF WithRecord, WithSync
<1> HIDE DEF e, z
<1>1. /\ c \in Seq(Seq(Nat)) /\ y \in Seq(Nat) /\ Len(y) = Len(c)
      /\ d \in [Log!Generations -> 0 .. Len(c)]
      /\ \A n \in 1 .. Len(c) : y[n] <= Len(c[n])
      /\ \A n \in 1 .. Len(c) : \A i \in 1 .. Len(c[n]) : c[n][i] <= m
      /\ h \in 1 .. Len(c) /\ w = Len(c[h])
  BY DEF LogFiles
<1>3. w \in Nat
  BY <1>1
<1>2. /\ Log!Active \in Log!Generations /\ Log!NoFile = 0 /\ \A g \in Log!Generations : g \in Nat
      /\ \A g \in Log!Generations : d[g] # Log!NoFile => d[g] \in 1 .. Len(c)
  <2>1. Log!Active \in Log!Generations /\ Log!NoFile = 0 /\ \A g \in Log!Generations : g \in Nat
    BY LogConstants DEF Log!Active, Log!Generations, Log!NoFile
  <2>2. Len(c) \in Nat /\ \A g \in Log!Generations : d[g] \in 0 .. Len(c)
    BY <1>1
  <2> QED BY <2>1, <2>2
<1>4. c[h] \in Seq(Nat) /\ Len(c[h]) \in Nat
  BY <1>1
<1> DEFINE b == Append(c[h], m + 1)
<1>5. /\ b \in Seq(Nat) /\ Len(b) = w + 1 /\ b[w + 1] = m + 1
      /\ \A i \in 1 .. w : b[i] = c[h][i]
  BY <1>1, <1>4
<1> HIDE DEF b
<1>6. /\ e \in Seq(Seq(Nat)) /\ Len(e) = Len(c)
      /\ e[h] = b /\ \A n \in 1 .. Len(c) : n # h => e[n] = c[n]
  BY <1>0, <1>1, <1>5 DEF b
<1>7. /\ z \in Seq(Nat) /\ Len(z) = Len(c)
      /\ \A n \in 1 .. Len(c) : n # h => z[n] = y[n]
      /\ z[h] = IF sync THEN w + 1 ELSE y[h]
  BY <1>0, <1>1, <1>4
<1>8. ASSUME NEW n \in 1 .. Len(c), NEW i \in 1 .. Len(e[n])
      PROVE  \/ i \in 1 .. Len(c[n]) /\ e[n][i] = c[n][i] /\ e[n][i] \in Nat /\ e[n][i] <= m
             \/ n = h /\ i = w + 1 /\ e[n][i] = m + 1
  <2>1. c[n] \in Seq(Nat)
    BY <1>1, <1>8
  <2>2. CASE n # h
    <3>1. e[n] = c[n]
      BY <1>6, <1>8, <2>2
    <3>2. i \in 1 .. Len(c[n])
      BY <1>8, <3>1
    <3>3. c[n][i] \in Nat
      BY <2>1, <3>2
    <3> QED BY <1>1, <1>8, <3>1, <3>2, <3>3
  <2>3. CASE n = h /\ i # w + 1
    <3>1. e[n] = b /\ i \in 1 .. w + 1 /\ w \in Nat
      BY <1>3, <1>5, <1>6, <1>8, <2>3
    <3>2. i \in 1 .. w
      BY <2>3, <3>1
    <3>3. e[n][i] = c[n][i] /\ i \in 1 .. Len(c[n])
      BY <1>1, <1>5, <2>3, <3>1, <3>2
    <3>4. c[n][i] \in Nat
      BY <2>1, <3>3
    <3> QED BY <1>1, <1>8, <3>3, <3>4
  <2>4. CASE n = h /\ i = w + 1
    BY <1>5, <1>6, <2>4
  <2> QED BY <2>2, <2>3, <2>4
<1>9. LogFiles(d, e, z, m + 1)
  <2>1. ASSUME NEW n \in 1 .. Len(c) PROVE z[n] <= Len(e[n])
    <3>1. CASE n = h
      <4>1. y[h] <= w /\ y[h] \in Nat
        BY <1>1
      <4>2. Len(e[n]) = w + 1 /\ (z[n] = w + 1 \/ z[n] = y[h])
        BY <1>5, <1>6, <1>7, <3>1
      <4> QED BY <1>1, <4>1, <4>2
    <3>2. CASE n # h
      BY <1>1, <1>6, <1>7, <3>2
    <3> QED BY <3>1, <3>2
  <2>2. ASSUME NEW n \in 1 .. Len(c), NEW i \in 1 .. Len(e[n]) PROVE e[n][i] <= m + 1
    <3>1. (e[n][i] \in Nat /\ e[n][i] <= m) \/ e[n][i] = m + 1
      BY <1>8, <2>2
    <3> QED BY <3>1
  <2> QED BY <1>1, <1>6, <1>7, <2>1, <2>2 DEF LogFiles
<1>10. ASSUME NEW g \in Log!Generations, NEW n \in Log!Generations, d[g] # Log!NoFile, d[n] # Log!NoFile, g < n
       PROVE  d[n] # h /\ d[g] # d[n]
  BY <1>10 DEF LogHandle, LogOrder
<1>11. LogOrder(d, e)
  <2>1. SUFFICES ASSUME NEW g \in Log!Generations, NEW n \in Log!Generations, d[g] # Log!NoFile, d[n] # Log!NoFile, g < n,
                        NEW i \in 1 .. Len(e[d[g]]), NEW l \in 1 .. Len(e[d[n]])
                 PROVE  e[d[n]][l] < e[d[g]][i]
    BY <1>10 DEF LogOrder
  <2>2. /\ d[g] \in 1 .. Len(c) /\ d[n] \in 1 .. Len(c) /\ d[n] # h
        /\ e[d[n]] = c[d[n]]
    BY <1>2, <1>6, <1>10, <2>1
  <2>3. /\ l \in 1 .. Len(c[d[n]]) /\ e[d[n]][l] = c[d[n]][l]
        /\ e[d[n]][l] \in Nat /\ e[d[n]][l] <= m
    BY <1>8, <2>1, <2>2
  <2>4. CASE i \in 1 .. Len(c[d[g]]) /\ e[d[g]][i] = c[d[g]][i]
    <3>1. c[d[n]][l] < c[d[g]][i]
      BY <2>1, <2>3, <2>4 DEF LogOrder
    <3> QED BY <2>3, <2>4, <3>1
  <2>5. CASE e[d[g]][i] = m + 1
    <3> DEFINE v == e[d[n]][l]
    <3>1. v \in Nat /\ v <= m
      BY <2>3
    <3> HIDE DEF v
    <3>2. v < m + 1
      BY <3>1
    <3> QED BY <2>5, <3>2 DEF v
  <2> QED BY <1>8, <2>1, <2>2, <2>4, <2>5
<1>12. LogDurable(e, z, j)
  <2>1. SUFFICES ASSUME NEW n \in 1 .. Len(c), NEW i \in 1 .. Len(e[n]), e[n][i] \in j PROVE i <= z[n]
    BY <1>6 DEF LogDurable
  <2>2. CASE i \in 1 .. Len(c[n]) /\ e[n][i] = c[n][i] /\ e[n][i] \in Nat /\ e[n][i] <= m
    <3>1. e[n][i] \in k
      <4>1. e[n][i] # m + 1
        <5> DEFINE v == e[n][i]
        <5>1. v \in Nat /\ v <= m
          BY <2>2
        <5> HIDE DEF v
        <5>2. v # m + 1
          BY <5>1
        <5> QED BY <5>2 DEF v
      <4> QED BY <2>1, <4>1
    <3>2. i <= y[n]
      BY <2>2, <3>1 DEF LogDurable
    <3>3. y[n] \in Nat /\ y[n] <= Len(c[n]) /\ i \in Nat
      <4>1. n \in 1 .. Len(y)
        BY <1>1, <2>1
      <4>2. y[n] \in Nat
        <5>1. y \in Seq(Nat)
          BY <1>1
        <5> QED BY <4>1, <5>1
      <4> QED BY <1>1, <2>1, <2>2, <4>2
    <3>4. n = h => y[n] <= z[n] /\ z[n] \in Nat
      <4>1. n = h => y[n] <= w
        BY <1>1, <3>3
      <4>2. n = h => z[n] = w + 1 \/ z[n] = y[n]
        BY <1>7
      <4> QED BY <1>1, <3>3, <4>1, <4>2
    <3> QED BY <1>7, <3>2, <3>3, <3>4
  <2>3. CASE n = h /\ i = w + 1 /\ e[n][i] = m + 1
    <3>1. sync
      BY <2>1, <2>3
    <3> QED BY <1>1, <1>7, <2>3, <3>1
  <2> QED BY <1>8, <2>1, <2>2, <2>3
<1>13. LogBudget(d, e, f)
  <2>1. SUFFICES ASSUME d[Log!Active] # Log!NoFile PROVE Len(e[d[Log!Active]]) <= MaxBytes * (1 + f)
    BY DEF LogBudget
  <2>2. d[Log!Active] = h
    BY <2>1 DEF LogHandle
  <2>3. w + 1 <= MaxBytes * (1 + f)
    BY <2>2
  <2> QED BY <1>5, <1>6, <2>2, <2>3
<1> QED BY <1>9, <1>11, <1>12, <1>13 DEF e, z

\* So an append keeps the log sound.
LEMMA AppendKeeps ==
    ASSUME Log!LogAssumption, NEW s, NEW m \in Nat, NEW f \in Nat, NEW a, NEW k \in SUBSET (1 .. m),
           LogSound(s, m, f, a, k), LogRoom(s, f), NEW sync \in BOOLEAN,
           NEW j, j = k \/ (sync /\ j = k \cup {m + 1})
    PROVE  LogSound(Log!Appended(s, m + 1, sync), m + 1, f, a, j)
<1> DEFINE d == s.dir
           h == s.handle
           w == s.written
           e == WithRecord(s.content, h, m + 1)
           z == WithSync(s.synced, s.content, h, sync)
           t == Log!Appended(s, m + 1, sync)
<1>1. /\ IsLog(t) /\ t.content = e /\ t.synced = z /\ t.dir = d /\ t.handle = h
      /\ t.written = w + 1 /\ t.rotateAt = s.rotateAt
  <2>1. IsLog(s)
    BY DEF LogSound
  <2> QED BY <2>1, AppendedIs, Zenon
<1>2. /\ LogFiles(d, s.content, s.synced, m) /\ LogOrder(d, s.content) /\ LogDurable(s.content, s.synced, k)
      /\ LogHandle(d, h, a) /\ h \in 1 .. Len(s.content) /\ w \in Nat /\ s.rotateAt \in Nat
      /\ w = Len(s.content[h]) /\ (d[Log!Active] = h => s.rotateAt <= MaxBytes * (1 + f))
  BY DEF LogSound, LogCount
<1>3. d[Log!Active] = h => w + 1 <= MaxBytes * (1 + f)
  BY DEF LogRoom
<1>4. LogFiles(d, e, z, m + 1) /\ LogOrder(d, e) /\ LogDurable(e, z, j) /\ LogBudget(d, e, f)
  BY <1>2, <1>3, AppendFiles
<1>7. Len(e) = Len(s.content) /\ Len(e[h]) = w + 1
  <2>1. s.content \in Seq(Seq(Nat)) /\ s.content[h] \in Seq(Nat)
    BY <1>2 DEF LogFiles
  <2>2. Len(e) = Len(s.content) /\ e[h] = Append(s.content[h], m + 1)
    BY <1>2, <2>1 DEF WithRecord
  <2>3. Len(Append(s.content[h], m + 1)) = Len(s.content[h]) + 1
    BY <2>1
  <2> QED BY <1>2, <2>2, <2>3
<1> HIDE DEF d, h, w, e, z, t
<1>5. LogCount(t, f)
  BY <1>1, <1>2, <1>7 DEF LogCount
<1>6. LogSound(t, m + 1, f, a, j)
  BY <1>1, <1>2, <1>4, <1>5 DEF LogSound
<1> QED BY <1>6 DEF t

\* A record that goes into the file in use leaves the full ones as they are.
LEMMA WholeAppended ==
    ASSUME Log!LogAssumption, NEW s, NEW m \in Nat, NEW f \in Nat, NEW k, LogSound(s, m, f, FALSE, k),
           LogWhole(s, m), s.written = 0 \/ s.written + 1 <= s.rotateAt, NEW sync \in BOOLEAN
    PROVE  LogWhole(Log!Appended(s, m + 1, sync), m + 1)
<1> DEFINE h == s.handle
           w == s.written
           c == s.content
           e == WithRecord(c, h, m + 1)
           t == Log!Appended(s, m + 1, sync)
<1>1. t.content = e /\ t.dir = s.dir /\ t.handle = h /\ t.written = w + 1 /\ t.rotateAt = s.rotateAt
  <2>1. IsLog(s)
    BY DEF LogSound
  <2> QED BY <2>1, AppendedIs, Zenon
<1>2. /\ c \in Seq(Seq(Nat)) /\ h \in 1 .. Len(c) /\ w \in Nat /\ w = Len(c[h]) /\ s.dir[Log!Active] = h
      /\ s.dir \in [Log!Generations -> 0 .. Len(c)] /\ LogOrder(s.dir, c)
  BY DEF LogSound, LogFiles, LogCount, LogHandle
<1>3. /\ s.rotateAt = MaxBytes /\ w <= MaxBytes /\ w <= m /\ (w = 0 => m = 0)
      /\ \A i \in 1 .. w : c[h][i] = m - w + i
      /\ \A g \in 1 .. Keep : m - w > (g - 1) * MaxBytes =>
            /\ s.dir[g] # Log!NoFile /\ Len(c[s.dir[g]]) = MaxBytes
            /\ \A i \in 1 .. MaxBytes : c[s.dir[g]][i] = m - w - g * MaxBytes + i
  BY DEF LogWhole
<1>4. MaxBytes \in Nat /\ 1 <= MaxBytes /\ Keep \in Nat /\ Log!Generations = 0 .. Keep /\ Log!Active = 0 /\ Log!NoFile = 0
  BY LogConstants DEF Log!Generations, Log!Active, Log!NoFile
<1>5. w + 1 <= MaxBytes /\ w + 1 <= m + 1 /\ (m + 1) - (w + 1) = m - w
  BY <1>2, <1>3, <1>4
<1>6. e[h] = Append(c[h], m + 1) /\ c[h] \in Seq(Nat)
  BY <1>2 DEF WithRecord
<1>7. ASSUME NEW n \in 1 .. Len(c), n # h PROVE e[n] = c[n]
  BY <1>2, <1>7 DEF WithRecord
<1> HIDE DEF h, w, c, e, t
<1>8. ASSUME NEW i \in 1 .. w + 1 PROVE e[h][i] = (m + 1) - (w + 1) + i
  <2>0. w \in Nat
    BY <1>2
  <2>1. CASE i \in 1 .. w
    <3>1. e[h][i] = c[h][i]
      BY <1>2, <1>6, <2>1
    <3> QED BY <1>3, <1>5, <2>1, <3>1
  <2>2. CASE i = w + 1
    <3>1. e[h][i] = m + 1
      BY <1>2, <1>6, <2>2
    <3>2. (m + 1) - (w + 1) + (w + 1) = m + 1
      BY <2>0
    <3> QED BY <2>2, <3>1, <3>2
  <2>3. i \in 1 .. w \/ i = w + 1
    BY <1>8, <2>0
  <2> QED BY <2>1, <2>2, <2>3
<1>9. ASSUME NEW g \in 1 .. Keep, (m + 1) - (w + 1) > (g - 1) * MaxBytes
      PROVE  /\ s.dir[g] # Log!NoFile /\ Len(e[s.dir[g]]) = MaxBytes
             /\ \A i \in 1 .. MaxBytes : e[s.dir[g]][i] = (m + 1) - (w + 1) - g * MaxBytes + i
  <2>1. /\ s.dir[g] # Log!NoFile /\ Len(c[s.dir[g]]) = MaxBytes
        /\ \A i \in 1 .. MaxBytes : c[s.dir[g]][i] = m - w - g * MaxBytes + i
    BY <1>3, <1>5, <1>9
  <2>2. g \in Log!Generations /\ Log!Active \in Log!Generations /\ Log!Active < g /\ h # Log!NoFile
    BY <1>2, <1>4
  <2>3. s.dir[g] \in 1 .. Len(c) /\ s.dir[g] # h
    <3>1. s.dir[g] \in 1 .. Len(c)
      BY <1>2, <1>4, <2>1, <2>2
    <3>2. s.dir[Log!Active] # s.dir[g]
      BY <1>2, <2>1, <2>2 DEF LogOrder
    <3> QED BY <1>2, <3>1, <3>2
  <2>4. e[s.dir[g]] = c[s.dir[g]]
    BY <1>7, <2>3
  <2> QED BY <1>5, <2>1, <2>4
<1>10. LogWhole(t, m + 1)
  <2>1. t.written = w + 1 /\ t.content[t.handle] = e[h] /\ t.rotateAt = MaxBytes /\ w + 1 # 0
    BY <1>1, <1>2, <1>3
  <2>2. \A i \in 1 .. t.written : t.content[t.handle][i] = (m + 1) - t.written + i
    BY <1>8, <2>1
  <2>3. \A g \in 1 .. Keep : (m + 1) - t.written > (g - 1) * MaxBytes =>
           /\ t.dir[g] # Log!NoFile /\ Len(t.content[t.dir[g]]) = MaxBytes
           /\ \A i \in 1 .. MaxBytes : t.content[t.dir[g]][i] = (m + 1) - t.written - g * MaxBytes + i
    BY <1>1, <1>9, <2>1
  <2> QED BY <1>5, <2>1, <2>2, <2>3 DEF LogWhole
<1> QED BY <1>10 DEF t

\* A rotation puts the full file before the full ones, and the record is the next one's first.
LEMMA WholeRotated ==
    ASSUME Log!LogAssumption, NEW m \in Nat, NEW f \in Nat, NEW k, LogSound(Log!AsItIs, m, f, FALSE, k),
           LogWhole(Log!AsItIs, m), Log!RotationDue, NEW e \in Log!Endings, e.opened, NEW sync \in BOOLEAN
    PROVE  LogWhole(Log!Appended(Log!RotatedTo(e), m + 1, sync), m + 1)
<1> DEFINE s == Log!RotatedTo(e)
           t == Log!Appended(s, m + 1, sync)
           h == Len(content) + 1
           d == [Log!Moved(dir, Log!Active) EXCEPT ![Log!Active] = h]
           c == Append(content, <<>>)
           b == WithRecord(c, h, m + 1)
<1>1. /\ content \in Seq(Seq(Nat)) /\ Len(content) \in Nat /\ handle \in 1 .. Len(content)
      /\ written = Len(content[handle]) /\ written \in Nat /\ dir[Log!Active] = handle
      /\ dir \in [Log!Generations -> 0 .. Len(content)]
  BY DEF LogSound, LogFiles, LogCount, LogHandle, Log!AsItIs
<1>2. /\ rotateAt = MaxBytes /\ written <= MaxBytes
      /\ \A i \in 1 .. written : content[handle][i] = m - written + i
      /\ \A g \in 1 .. Keep : m - written > (g - 1) * MaxBytes =>
            /\ dir[g] # Log!NoFile /\ Len(content[dir[g]]) = MaxBytes
            /\ \A i \in 1 .. MaxBytes : content[dir[g]][i] = m - written - g * MaxBytes + i
  BY DEF LogWhole, Log!AsItIs
<1>3. MaxBytes \in Nat /\ 1 <= MaxBytes /\ Keep \in Nat /\ Log!Generations = 0 .. Keep /\ Log!Active = 0 /\ Log!NoFile = 0
  BY LogConstants DEF Log!Generations, Log!Active, Log!NoFile
<1>4. written = MaxBytes
  BY <1>1, <1>2, <1>3 DEF Log!RotationDue
<1>5. e.last = Log!Active /\ ~(e.last > Keep)
  BY <1>3 DEF Log!Endings
<1>6. /\ IsLog(s) /\ s.dir = d /\ s.content = c /\ s.handle = h /\ s.written = 0 /\ s.rotateAt = MaxBytes
  BY <1>5 DEF Log!RotatedTo, IsLog
<1>8. \A g \in 1 .. Keep : d[g] = dir[g - 1]
  BY <1>1, <1>3 DEF Log!Moved
<1>9. /\ c \in Seq(Seq(Nat)) /\ Len(c) = h /\ h \in 1 .. Len(c) /\ h = Len(content) + 1 /\ c[h] = <<>>
      /\ \A n \in 1 .. Len(content) : c[n] = content[n]
  <2>1. <<>> \in Seq(Nat)
    OBVIOUS
  <2> QED BY <1>1, <2>1
<1> HIDE DEF s, h, c
<1>7. /\ t.content = b /\ t.dir = d /\ t.handle = h /\ t.written = 1 /\ t.rotateAt = MaxBytes
  <2>1. t.content = WithRecord(s.content, s.handle, m + 1) /\ t.dir = s.dir /\ t.handle = s.handle
        /\ t.written = s.written + 1 /\ t.rotateAt = s.rotateAt
    BY <1>6, AppendedIs
  <2> QED BY <1>6, <2>1
<1>10. b[h] = Append(<<>>, m + 1)
  BY <1>9 DEF WithRecord
<1>11. ASSUME NEW n \in 1 .. Len(content) PROVE b[n] = content[n]
  <2>1. n \in 1 .. Len(c) /\ n # h
    BY <1>1, <1>9, <1>11
  <2> QED BY <1>9, <1>11, <2>1 DEF WithRecord
<1> HIDE DEF t, d, b
<1>12. b[h][1] = m + 1
  BY <1>10
<1>13. ASSUME NEW g \in 1 .. Keep, (m + 1) - 1 > (g - 1) * MaxBytes
       PROVE  /\ d[g] # Log!NoFile /\ Len(b[d[g]]) = MaxBytes
              /\ \A i \in 1 .. MaxBytes : b[d[g]][i] = (m + 1) - 1 - g * MaxBytes + i
  <2>1. CASE g = 1
    <3>1. d[g] = handle /\ b[d[g]] = content[handle]
      BY <1>1, <1>3, <1>8, <1>11, <2>1
    <3>2. g * MaxBytes = MaxBytes
      BY <1>3, <2>1
    <3>3. \A i \in 1 .. MaxBytes : content[handle][i] = m - MaxBytes + i
      BY <1>2, <1>4
    <3>4. (m + 1) - 1 = m /\ handle # Log!NoFile
      BY <1>1, <1>3
    <3> QED BY <1>1, <1>4, <3>1, <3>2, <3>3, <3>4
  <2>2. CASE g # 1
    <3>1. g - 1 \in 1 .. Keep /\ d[g] = dir[g - 1]
      BY <1>3, <1>8, <2>2
    <3>2. /\ ((g - 1) - 1) * MaxBytes + MaxBytes = (g - 1) * MaxBytes
          /\ (g - 1) * MaxBytes + MaxBytes = g * MaxBytes
          /\ ((g - 1) - 1) * MaxBytes \in Int /\ (g - 1) * MaxBytes \in Int /\ g * MaxBytes \in Int
      BY <1>3, <3>1
    <3>3. m - written > ((g - 1) - 1) * MaxBytes
      BY <1>3, <1>4, <1>13, <3>2
    <3>4. /\ dir[g - 1] # Log!NoFile /\ Len(content[dir[g - 1]]) = MaxBytes
          /\ \A i \in 1 .. MaxBytes : content[dir[g - 1]][i] = m - written - (g - 1) * MaxBytes + i
      BY <1>2, <3>1, <3>3
    <3>5. dir[g - 1] \in 1 .. Len(content)
      <4>1. g - 1 \in Log!Generations
        BY <1>3, <3>1 DEF Log!Generations
      <4>2. dir[g - 1] \in 0 .. Len(content) /\ dir[g - 1] # 0
        BY <1>1, <1>3, <3>4, <4>1
      <4> QED BY <1>1, <4>2
    <3>6. ASSUME NEW i \in 1 .. MaxBytes
          PROVE  m - written - (g - 1) * MaxBytes + i = (m + 1) - 1 - g * MaxBytes + i
      BY <1>3, <1>4, <3>2
    <3> QED BY <1>11, <3>1, <3>4, <3>5, <3>6
  <2> QED BY <2>1, <2>2
<1>14. LogWhole(t, m + 1)
  BY <1>3, <1>7, <1>12, <1>13 DEF LogWhole
<1> QED BY <1>14 DEF t, s

\* A record not yet as many generations old is in one of them.
LEMMA WholeKept ==
    ASSUME Log!LogAssumption, NEW f \in Nat, LogSound(Log!AsItIs, made, f, FALSE, kept), LogWhole(Log!AsItIs, made),
           made \in Nat, NEW r \in 1 .. made, r + Keep * MaxBytes >= made
    PROVE  \E g \in Log!Named : r \in Log!Holds(g)
<1>1. /\ handle \in 1 .. Len(content) /\ written = Len(content[handle]) /\ written \in Nat /\ dir[Log!Active] = handle
  BY DEF LogSound, LogCount, LogHandle, Log!AsItIs
<1>2. /\ written <= made /\ (written = 0 => made = 0)
      /\ \A i \in 1 .. written : content[handle][i] = made - written + i
      /\ \A g \in 1 .. Keep : made - written > (g - 1) * MaxBytes =>
            /\ dir[g] # Log!NoFile /\ Len(content[dir[g]]) = MaxBytes
            /\ \A i \in 1 .. MaxBytes : content[dir[g]][i] = made - written - g * MaxBytes + i
  BY DEF LogWhole, Log!AsItIs
<1>3. MaxBytes \in Nat /\ 1 <= MaxBytes /\ Keep \in Nat /\ Log!Generations = 0 .. Keep /\ Log!Active = 0 /\ Log!NoFile = 0
  BY LogConstants DEF Log!Generations, Log!Active, Log!NoFile
<1> DEFINE v == (made - written) - r
<1>4. CASE v < 0
  <2>1. r - (made - written) \in 1 .. written /\ made - written + (r - (made - written)) = r
    <3>1. r \in Nat /\ made \in Nat /\ written \in Nat /\ r <= made /\ written <= made /\ made - written - r < 0
      BY <1>1, <1>2, <1>4
    <3> QED BY <3>1
  <2>2. content[handle][r - (made - written)] = r
    BY <1>2, <2>1
  <2>3. Log!Active \in Log!Named
    BY <1>1, <1>3 DEF Log!Named
  <2> QED BY <1>1, <2>1, <2>2, <2>3 DEF Log!Holds
<1>5. CASE ~(v < 0)
  <2>1. v \in Nat /\ written >= 1 /\ Keep * MaxBytes \in Nat /\ v < Keep * MaxBytes
    BY <1>1, <1>2, <1>3, <1>5
  <2> DEFINE Enough == {g \in Nat : v < g * MaxBytes}
  <2>2. PICK g \in Enough : \A l \in Enough : <<l, g>> \notin OpToRel(<, Nat)
    <3>1. Enough \in SUBSET Nat /\ Keep \in Enough
      BY <1>3, <2>1
    <3> HIDE DEF Enough
    <3> QED BY <3>1, NatLessThanWellFounded, WFMin
  <2>3. \A l \in Enough : g <= l
    <3>1. SUFFICES ASSUME NEW l \in Enough PROVE g <= l
      OBVIOUS
    <3>2. l \in Nat /\ g \in Nat
      OBVIOUS
    <3> HIDE DEF Enough
    <3>3. <<l, g>> \notin {ss \in Nat \X Nat : ss[1] < ss[2]}
      BY <2>2, <3>1, Zenon DEF OpToRel
    <3>4. ~(l < g)
      BY <3>2, <3>3
    <3> QED BY <3>2, <3>4
  <2>4. g \in Nat /\ v < g * MaxBytes /\ g <= Keep
    BY <1>3, <2>1, <2>3
  <2>5. g # 0
    BY <1>3, <2>1, <2>4
  <2>6. g \in 1 .. Keep /\ g - 1 \in Nat
    BY <1>3, <2>4, <2>5
  <2>7. ~(v < (g - 1) * MaxBytes)
    <3>1. ASSUME v < (g - 1) * MaxBytes PROVE FALSE
      <4>1. g - 1 \in Enough
        BY <2>6, <3>1
      <4> HIDE DEF Enough
      <4> QED BY <2>3, <2>4, <4>1
    <3> QED BY <3>1
  <2> HIDE DEF Enough
  <2>8. (g - 1) * MaxBytes \in Nat /\ (g - 1) * MaxBytes + MaxBytes = g * MaxBytes /\ g * MaxBytes \in Nat
    BY <1>3, <2>6
  <2>9. made - written > (g - 1) * MaxBytes
    BY <1>1, <1>2, <2>7, <2>8
  <2>10. /\ dir[g] # Log!NoFile /\ Len(content[dir[g]]) = MaxBytes
         /\ \A i \in 1 .. MaxBytes : content[dir[g]][i] = made - written - g * MaxBytes + i
    BY <1>2, <2>6, <2>9
  <2> DEFINE n == g * MaxBytes - v
  <2>11. n \in 1 .. MaxBytes /\ made - written - g * MaxBytes + n = r
    <3> DEFINE p == (g - 1) * MaxBytes
               q == g * MaxBytes
    <3>1. p \in Nat /\ q \in Nat /\ p + MaxBytes = q /\ v < q /\ ~(v < p) /\ v \in Nat
      BY <2>1, <2>4, <2>7, <2>8
    <3>2. made - written - v = r /\ made \in Nat /\ written \in Nat
      BY <1>1
    <3> HIDE DEF p, q, v
    <3>3. q - v \in 1 .. MaxBytes /\ made - written - q + (q - v) = r
      BY <1>3, <3>1, <3>2
    <3> QED BY <3>3 DEF q, n
  <2>12. content[dir[g]][n] = r
    BY <2>10, <2>11
  <2>13. g \in Log!Named
    BY <1>3, <2>6, <2>10 DEF Log!Named
  <2> HIDE DEF n
  <2> QED BY <2>10, <2>11, <2>12, <2>13 DEF Log!Holds
<1> QED BY <1>4, <1>5

\* What is sound is so once the process has it.
LEMMA LogBecomes ==
    ASSUME NEW s, Log!Becomes(s), NEW m, NEW f, NEW a, NEW k
    PROVE  /\ LogSound(s, m, f, a, k) => LogSound(Log!AsItIs', m, f, a, k)
           /\ LogWhole(s, m) => LogWhole(Log!AsItIs', m)
BY DEF Log!Becomes, Log!AsItIs, LogSound, LogWhole, LogCount, IsLog

\* The first file, empty.
LEMMA LogInit == ASSUME Log!LogAssumption, Log!Init PROVE LogInv
<1>1. /\ Keep \in Nat \ {0} /\ MaxBytes \in Nat \ {0} /\ MaxRecords \in Nat /\ MaxFaults \in Nat
      /\ MaxStarts \in Nat /\ Log!Active \in Log!Generations /\ Log!Active = 0 /\ Log!NoFile = 0 /\ Log!Generations = 0 .. Keep
      /\ MaxBytes * (1 + 0) = MaxBytes
  BY LogConstants DEF Log!Active, Log!Generations, Log!NoFile
<1>2. /\ content = << <<>> >> /\ synced = <<0>> /\ handle = 1 /\ written = 0 /\ rotateAt = MaxBytes
      /\ dir \in [Log!Generations -> 0 .. 1] /\ dir[Log!Active] = 1 /\ \A g \in Log!Generations : g # Log!Active => dir[g] = Log!NoFile
      /\ made = 0 /\ faults = 0 /\ starts = 0 /\ kept = {} /\ adrift = FALSE /\ sink = Log!None /\ calling = Log!None
  BY <1>1 DEF Log!Init
<1>3. /\ content \in Seq(Seq(Nat)) /\ Len(content) = 1 /\ content[1] = <<>> /\ Len(content[1]) = 0
      /\ synced \in Seq(Nat) /\ Len(synced) = 1 /\ synced[1] = 0
  BY <1>2
<1>4. LogFiles(dir, content, synced, made)
  BY <1>2, <1>3 DEF LogFiles
<1>5. LogOrder(dir, content)
  BY <1>1, <1>2 DEF LogOrder
<1>6. LogDurable(content, synced, kept)
  BY <1>2 DEF LogDurable
<1>7. LogBudget(dir, content, faults)
  BY <1>1, <1>2, <1>3 DEF LogBudget
<1>8. LogHandle(dir, handle, adrift)
  BY <1>1, <1>2 DEF LogHandle
<1>9. LogCount(Log!AsItIs, faults)
  BY <1>1, <1>2, <1>3 DEF LogCount, Log!AsItIs
<1>10. LogWhole(Log!AsItIs, made)
  <2>1. \A g \in 1 .. Keep : ~(made - written > (g - 1) * MaxBytes)
    <3>1. ASSUME NEW g \in 1 .. Keep PROVE ~(made - written > (g - 1) * MaxBytes)
      <4>1. (g - 1) * MaxBytes \in Nat /\ made - written = 0
        BY <1>1, <1>2
      <4> QED BY <4>1
    <3> QED BY <3>1
  <2> QED BY <1>1, <1>2, <2>1 DEF LogWhole, Log!AsItIs
<1>11. LogSound(Log!AsItIs, made, faults, adrift, kept)
  BY <1>4, <1>5, <1>6, <1>7, <1>8, <1>9 DEF LogSound, IsLog, Log!AsItIs
<1>12. /\ sink \in Log!Callbacks \cup {Log!None} /\ calling \in Log!Callbacks \cup {Log!None} /\ kept \subseteq 1 .. made
       /\ made \in 0 .. MaxRecords /\ faults \in 0 .. MaxFaults /\ starts \in 0 .. MaxStarts
  BY <1>1, <1>2
<1>13. ~ adrift /\ adrift \in BOOLEAN
  BY <1>2
<1> QED BY <1>10, <1>11, <1>12, <1>13, Zenon DEF LogInv

\* A record, with the rotation it may bring about.
LEMMA LogRecord ==
    ASSUME Log!LogAssumption, LogInv, NEW durable \in BOOLEAN, NEW fault \in {"none", "write", "sync"},
           Log!Record(durable, fault)
    PROVE  LogInv'
<1> DEFINE NoRotation == [last |-> Keep + 1, opened |-> FALSE, failed |-> FALSE]
<1>1. PICK e \in IF Log!RotationDue THEN Log!Endings ELSE {NoRotation} :
        LET s == IF Log!RotationDue THEN Log!RotatedTo(e) ELSE Log!AsItIs
            troubles == (IF e.failed THEN 1 ELSE 0) + (IF fault = "none" THEN 0 ELSE 1)
        IN  /\ faults + troubles <= MaxFaults /\ faults' = faults + troubles
            /\ Log!Becomes(CASE fault = "write" -> s
                         [] fault = "sync" -> Log!Appended(s, made + 1, FALSE)
                         [] OTHER -> Log!Appended(s, made + 1, durable))
            /\ kept' = IF durable /\ fault = "none" THEN kept \cup {made + 1} ELSE kept
            /\ adrift' = (adrift \/ (Log!RotationDue /\ e.last = Log!Active /\ ~e.opened))
  BY DEF Log!Record
<1> DEFINE s == IF Log!RotationDue THEN Log!RotatedTo(e) ELSE Log!AsItIs
           more == IF e.failed THEN 1 ELSE 0
           slip == IF fault = "none" THEN 0 ELSE 1
           f == faults + more
           a == adrift \/ (Log!RotationDue /\ e.last = Log!Active /\ ~e.opened)
           sync == durable /\ fault = "none"
           t == IF fault = "write" THEN s ELSE Log!Appended(s, made + 1, sync)
<1>2. /\ faults + (more + slip) <= MaxFaults /\ faults' = faults + (more + slip) /\ Log!Becomes(t) /\ adrift' = a
      /\ kept' = IF sync THEN kept \cup {made + 1} ELSE kept
  <2>1. CASE fault = "none"
    BY <1>1, <2>1
  <2>2. CASE fault = "write"
    BY <1>1, <2>2
  <2>3. CASE fault = "sync"
    BY <1>1, <2>3
  <2> QED BY <2>1, <2>2, <2>3
<1>3. /\ made' = made + 1 /\ made < MaxRecords /\ calling' = sink /\ sink' = sink /\ starts' = starts
  BY DEF Log!Record
<1>4. /\ LogSound(Log!AsItIs, made, faults, adrift, kept) /\ made \in Nat /\ faults \in Nat /\ starts \in Nat
      /\ sink \in Log!Callbacks \cup {Log!None} /\ made <= MaxRecords /\ starts <= MaxStarts
      /\ kept \subseteq 1 .. made /\ adrift \in BOOLEAN /\ MaxRecords \in Nat /\ MaxFaults \in Nat /\ MaxStarts \in Nat
      /\ starts \in 0 .. MaxStarts
  BY LogConstants DEF LogInv
<1>5. LogSound(s, made, f, a, kept) /\ LogRoom(s, f)
  <2>1. CASE Log!RotationDue
    BY <1>1, <1>4, <2>1, RotatedKeeps
  <2>2. CASE ~ Log!RotationDue
    <3>1. s = Log!AsItIs /\ f = faults /\ a = adrift
      BY <1>1, <1>4, <2>2
    <3>2. LogRoom(Log!AsItIs, faults)
      <4>1. SUFFICES ASSUME dir[Log!Active] = handle PROVE written + 1 <= MaxBytes * (1 + faults)
        BY DEF LogRoom, Log!AsItIs
      <4>2. /\ written \in Nat /\ rotateAt \in Nat /\ rotateAt <= MaxBytes * (1 + faults)
        BY <1>4, <4>1 DEF LogSound, LogCount, Log!AsItIs
      <4>3. MaxBytes * (1 + faults) \in Nat /\ 1 <= MaxBytes * (1 + faults)
        BY <1>4, LogConstants, BudgetGrows
      <4>4. written = 0 \/ written + 1 <= rotateAt
        BY <2>2, <4>2 DEF Log!RotationDue
      <4> QED BY <4>2, <4>3, <4>4
    <3> QED BY <1>4, <3>1, <3>2
  <2> QED BY <2>1, <2>2
<1>6. f \in Nat /\ faults' \in Nat /\ f <= faults' /\ faults' <= MaxFaults
  BY <1>2, <1>4
<1>7. LogSound(t, made + 1, f, a, kept')
  <2>1. CASE fault = "write"
    BY <1>2, <1>4, <1>5, <1>6, <2>1, LogMore
  <2>2. CASE fault # "write"
    <3>1. kept \in SUBSET (1 .. made) /\ sync \in BOOLEAN
      BY <1>4
    <3>2. kept' = kept \/ (sync /\ kept' = kept \cup {made + 1})
      BY <1>2
    <3> HIDE DEF s, f, a, sync
    <3>3. LogSound(Log!Appended(s, made + 1, sync), made + 1, f, a, kept')
      BY <1>4, <1>5, <1>6, <3>1, <3>2, AppendKeeps
    <3> QED BY <2>2, <3>3
  <2> QED BY <2>1, <2>2
<1>8. LogSound(Log!AsItIs', made', faults', adrift', kept')
  <2>1. LogSound(t, made + 1, faults', a, kept')
    <3> HIDE DEF t, f, a
    <3> QED BY <1>4, <1>6, <1>7, LogMore
  <2> HIDE DEF t, a
  <2> QED BY <1>2, <1>3, <2>1, LogBecomes
<1>9. faults' = 0 /\ starts' = 0 => LogWhole(Log!AsItIs', made') /\ ~ adrift'
  <2>1. SUFFICES ASSUME faults' = 0, starts' = 0 PROVE LogWhole(t, made + 1) /\ ~ a
    <3> HIDE DEF t, a
    <3> QED BY <1>2, <1>3, LogBecomes
  <2>2. faults = 0 /\ ~ e.failed /\ fault = "none"
    BY <1>2, <1>4, <2>1
  <2>3. LogWhole(Log!AsItIs, made) /\ ~ adrift /\ adrift = FALSE /\ sync = durable /\ t = Log!Appended(s, made + 1, durable)
    BY <1>3, <1>4, <2>1, <2>2 DEF LogInv
  <2>4. LogSound(Log!AsItIs, made, faults, FALSE, kept)
    BY <1>4, <2>3
  <2>5. CASE Log!RotationDue
    <3>1. dir[Log!Active] # Log!NoFile
      BY <2>4, LogConstants DEF LogSound, LogHandle, LogCount, Log!AsItIs, Log!NoFile
    <3>2. e \in Log!Endings /\ e.opened
      BY <1>1, <2>2, <2>5, <3>1 DEF Log!Endings
    <3>3. LogWhole(Log!Appended(Log!RotatedTo(e), made + 1, durable), made + 1)
      BY <1>4, <2>3, <2>4, <2>5, <3>2, WholeRotated
    <3> QED BY <2>3, <2>5, <3>2, <3>3
  <2>6. CASE ~ Log!RotationDue
    <3>1. Log!AsItIs.written = 0 \/ Log!AsItIs.written + 1 <= Log!AsItIs.rotateAt
      <4>1. written \in Nat /\ rotateAt \in Nat
        BY <1>4 DEF LogSound, LogCount, Log!AsItIs
      <4> QED BY <2>6, <4>1 DEF Log!RotationDue, Log!AsItIs
    <3>2. LogWhole(Log!Appended(Log!AsItIs, made + 1, durable), made + 1)
      BY <1>4, <2>3, <2>4, <3>1, WholeAppended
    <3> QED BY <2>3, <2>6, <3>2
  <2> QED BY <2>5, <2>6
<1>10. kept' \subseteq 1 .. made' /\ made' \in 0 .. MaxRecords /\ faults' \in 0 .. MaxFaults /\ adrift' \in BOOLEAN
  BY <1>2, <1>3, <1>4, <1>6
<1> QED BY <1>3, <1>4, <1>8, <1>9, <1>10 DEF LogInv

\* Killed and started again, in the middle of a rotation or not: what was written is there.
LEMMA LogKilled == ASSUME Log!LogAssumption, LogInv, Log!Killed PROVE LogInv'
<1>1. PICK last \in IF Log!RotationDue THEN Log!Generations \cup {Keep + 1} ELSE {Keep + 1} :
        /\ last = Log!Active => dir[Log!Active] # Log!NoFile
        /\ Log!Becomes(Log!Opened(IF last > Keep THEN dir ELSE Log!Moved(dir, last), content, synced))
  BY DEF Log!Killed
<1> DEFINE d == IF last > Keep THEN dir ELSE Log!Moved(dir, last)
           s == Log!Opened(d, content, synced)
<1>2. /\ starts' = starts + 1 /\ starts < MaxStarts /\ sink' = Log!None /\ calling' = Log!None
      /\ adrift' = FALSE /\ made' = made /\ faults' = faults /\ kept' = kept
  BY DEF Log!Killed
<1>3. /\ LogFiles(dir, content, synced, made) /\ LogOrder(dir, content)
      /\ LogDurable(content, synced, kept) /\ LogBudget(dir, content, faults)
  BY DEF LogInv, LogSound, Log!AsItIs
<1>4. Keep \in Nat /\ MaxStarts \in Nat /\ Log!Generations = 0 .. Keep /\ Log!Active = 0 /\ Log!NoFile = 0 /\ Log!Active \in Log!Generations
  BY LogConstants DEF Log!Generations, Log!Active, Log!NoFile
<1>5. faults \in Nat /\ starts \in 0 .. MaxStarts
  BY LogConstants DEF LogInv
<1>6. LogFiles(d, content, synced, made) /\ LogOrder(d, content) /\ LogBudget(d, content, faults)
  <2>1. CASE last > Keep
    BY <1>3, <2>1
  <2>2. CASE ~(last > Keep)
    <3>1. last \in Log!Generations /\ Len(content) \in Nat /\ dir \in [Log!Generations -> 0 .. Len(content)]
      BY <1>1, <1>3, <1>4, <2>2 DEF LogFiles
    <3>2. /\ d = Log!Moved(dir, last) /\ d \in [Log!Generations -> 0 .. Len(content)] /\ LogOrder(d, content)
          /\ d[last] = Log!NoFile /\ \A g \in Log!Generations : g < last => d[g] = dir[g]
      BY <1>3, <2>2, <3>1, MovedKeeps
    <3>3. d[Log!Active] = Log!NoFile \/ d[Log!Active] = dir[Log!Active]
      BY <1>4, <3>1, <3>2
    <3> HIDE DEF d
    <3> QED BY <1>3, <3>2, <3>3 DEF LogFiles, LogBudget
  <2> QED BY <2>1, <2>2
<1> HIDE DEF d
<1>7. LogSound(s, made, faults, FALSE, kept)
  BY <1>3, <1>5, <1>6, OpenedKeeps
<1>8. Log!Becomes(s)
  BY <1>1 DEF d
<1> HIDE DEF s
<1>9. LogSound(Log!AsItIs', made', faults', adrift', kept')
  BY <1>2, <1>7, <1>8, LogBecomes
<1>10. starts' \in 0 .. MaxStarts /\ starts' # 0
  BY <1>2, <1>4, <1>5
<1> QED BY <1>2, <1>9, <1>10 DEF LogInv

\* The power goes, and of each file a part that holds what was synced stays.
LEMMA LogPowerCut == ASSUME Log!LogAssumption, LogInv, Log!PowerCut PROVE LogInv'
<1>1. PICK stays \in [Log!Files -> 0 .. MaxRecords] :
        /\ \A n \in Log!Files : stays[n] \in synced[n] .. Len(content[n])
        /\ Log!Becomes(Log!Opened(dir, [n \in Log!Files |-> SubSeq(content[n], 1, stays[n])], [n \in Log!Files |-> stays[n]]))
  BY DEF Log!PowerCut
<1> DEFINE c == [n \in Log!Files |-> SubSeq(content[n], 1, stays[n])]
           y == [n \in Log!Files |-> stays[n]]
           s == Log!Opened(dir, c, y)
<1>2. /\ starts' = starts + 1 /\ starts < MaxStarts /\ sink' = Log!None /\ calling' = Log!None
      /\ adrift' = FALSE /\ made' = made /\ faults' = faults /\ kept' = kept
  BY DEF Log!PowerCut
<1>3. /\ LogFiles(dir, content, synced, made) /\ LogOrder(dir, content)
      /\ LogDurable(content, synced, kept) /\ LogBudget(dir, content, faults)
  BY DEF LogInv, LogSound, Log!AsItIs
<1>4. /\ content \in Seq(Seq(Nat)) /\ synced \in Seq(Nat) /\ Len(synced) = Len(content) /\ Len(content) \in Nat
      /\ dir \in [Log!Generations -> 0 .. Len(content)] /\ Log!Files = 1 .. Len(content)
  BY <1>3 DEF LogFiles, Log!Files
<1>5. faults \in Nat /\ starts \in 0 .. MaxStarts /\ MaxStarts \in Nat /\ MaxRecords \in Nat
  BY LogConstants DEF LogInv
<1>6. ASSUME NEW n \in Log!Files
      PROVE  /\ c[n] \in Seq(Nat) /\ Len(c[n]) = stays[n] /\ y[n] = stays[n] /\ stays[n] \in Nat
             /\ synced[n] \in Nat /\ synced[n] <= stays[n]
             /\ \A i \in 1 .. stays[n] : i \in 1 .. Len(content[n]) /\ c[n][i] = content[n][i]
  <2>1. content[n] \in Seq(Nat) /\ synced[n] \in Nat
    BY <1>4, <1>6
  <2>2. stays[n] \in Nat /\ synced[n] <= stays[n] /\ stays[n] <= Len(content[n])
    BY <1>1, <1>5, <1>6, <2>1
  <2>3. c[n] = SubSeq(content[n], 1, stays[n]) /\ y[n] = stays[n]
    BY <1>6
  <2> HIDE DEF c, y
  <2>4. /\ SubSeq(content[n], 1, stays[n]) \in Seq(Nat) /\ Len(SubSeq(content[n], 1, stays[n])) = stays[n]
        /\ \A i \in 1 .. stays[n] : SubSeq(content[n], 1, stays[n])[i] = content[n][i]
    BY <2>1, <2>2
  <2>5. \A i \in 1 .. stays[n] : i \in 1 .. Len(content[n])
    BY <2>1, <2>2
  <2> QED BY <2>1, <2>2, <2>3, <2>4, <2>5
<1>7. c \in Seq(Seq(Nat)) /\ Len(c) = Len(content) /\ y \in Seq(Nat) /\ Len(y) = Len(content)
  <2>1. c \in [1 .. Len(content) -> Seq(Nat)] /\ y \in [1 .. Len(content) -> Nat]
    <3>1. \A n \in 1 .. Len(content) : SubSeq(content[n], 1, stays[n]) \in Seq(Nat) /\ stays[n] \in Nat
      BY <1>4, <1>6
    <3> QED BY <1>4, <3>1
  <2> HIDE DEF c, y
  <2>2. PICK l \in Nat : l = Len(content)
    BY <1>4
  <2>3. c \in Seq(Seq(Nat)) /\ Len(c) = l
    BY <2>1, <2>2
  <2>4. y \in Seq(Nat) /\ Len(y) = l
    BY <2>1, <2>2
  <2> QED BY <2>2, <2>3, <2>4
<1> HIDE DEF c, y
<1>8. LogFiles(dir, c, y, made)
  <2>1. ASSUME NEW n \in 1 .. Len(c) PROVE y[n] <= Len(c[n])
    <3>1. n \in Log!Files
      BY <1>4, <1>7
    <3>2. Len(c[n]) = stays[n] /\ y[n] = stays[n] /\ stays[n] \in Nat
      BY <1>6, <3>1
    <3> QED BY <3>2
  <2>2. ASSUME NEW n \in 1 .. Len(c), NEW i \in 1 .. Len(c[n]) PROVE c[n][i] <= made
    BY <1>3, <1>4, <1>6, <1>7, <2>2 DEF LogFiles
  <2> QED BY <1>4, <1>7, <2>1, <2>2 DEF LogFiles
<1>9. \A g \in Log!Generations : dir[g] # Log!NoFile => dir[g] \in Log!Files
  BY <1>4 DEF Log!NoFile
<1>10. LogOrder(dir, c)
  <2>1. SUFFICES ASSUME NEW g \in Log!Generations, NEW h \in Log!Generations, dir[g] # Log!NoFile, dir[h] # Log!NoFile, g < h
                 PROVE  /\ dir[g] # dir[h]
                        /\ \A i \in 1 .. Len(c[dir[g]]), j \in 1 .. Len(c[dir[h]]) : c[dir[h]][j] < c[dir[g]][i]
    BY DEF LogOrder
  <2>2. dir[g] # dir[h] /\ \A i \in 1 .. Len(content[dir[g]]), j \in 1 .. Len(content[dir[h]]) :
                              content[dir[h]][j] < content[dir[g]][i]
    BY <1>3, <2>1 DEF LogOrder
  <2>3. dir[g] \in Log!Files /\ dir[h] \in Log!Files
    BY <1>9, <2>1
  <2> QED BY <1>6, <2>2, <2>3
<1>11. LogDurable(c, y, kept)
  <2>1. SUFFICES ASSUME NEW n \in 1 .. Len(c), NEW i \in 1 .. Len(c[n]), c[n][i] \in kept PROVE i <= y[n]
    BY DEF LogDurable
  <2>2. n \in Log!Files /\ i \in 1 .. stays[n]
    BY <1>4, <1>6, <1>7, <2>1
  <2>3. y[n] = stays[n] /\ stays[n] \in Nat
    BY <1>6, <2>2
  <2> QED BY <2>2, <2>3
<1>12. LogBudget(dir, c, faults)
  <2>1. SUFFICES ASSUME dir[Log!Active] # Log!NoFile PROVE Len(c[dir[Log!Active]]) <= MaxBytes * (1 + faults)
    BY DEF LogBudget
  <2>2. Log!Active \in Log!Generations /\ MaxBytes * (1 + faults) \in Nat
    BY <1>5, LogConstants, BudgetGrows DEF Log!Active, Log!Generations
  <2>3. dir[Log!Active] \in Log!Files /\ content[dir[Log!Active]] \in Seq(Nat)
    BY <1>4, <1>9, <2>1, <2>2
  <2>4. Len(content[dir[Log!Active]]) \in Nat /\ Len(content[dir[Log!Active]]) <= MaxBytes * (1 + faults)
    BY <1>3, <2>1, <2>3 DEF LogBudget
  <2>5. Len(c[dir[Log!Active]]) \in Nat /\ Len(c[dir[Log!Active]]) <= Len(content[dir[Log!Active]])
    BY <1>1, <1>6, <2>3, <2>4
  <2> QED BY <2>2, <2>4, <2>5
<1>13. LogSound(s, made, faults, FALSE, kept)
  BY <1>5, <1>8, <1>10, <1>11, <1>12, OpenedKeeps
<1>14. Log!Becomes(s)
  BY <1>1 DEF c, y
<1> HIDE DEF s
<1>15. LogSound(Log!AsItIs', made', faults', adrift', kept')
  BY <1>2, <1>13, <1>14, LogBecomes
<1>16. starts' \in 0 .. MaxStarts /\ starts' # 0
  BY <1>2, <1>5
<1>17. /\ sink' \in Log!Callbacks \cup {Log!None} /\ calling' \in Log!Callbacks \cup {Log!None} /\ adrift' \in BOOLEAN
       /\ made' \in 0 .. MaxRecords /\ faults' \in 0 .. MaxFaults /\ kept' \subseteq 1 .. made'
  BY <1>2 DEF LogInv
<1> QED BY <1>15, <1>16, <1>17 DEF LogInv

\* Every step keeps the invariant.
LEMMA LogStep == ASSUME Log!LogAssumption, LogInv, [Log!Next]_(Log!vars) PROVE LogInv'
<1>1. ASSUME UNCHANGED Log!vars PROVE LogInv'
  BY <1>1 DEF Log!vars, Log!files, Log!rotating, Log!history, LogInv, Log!AsItIs, LogSound,
       LogWhole, LogCount, IsLog
<1>2. ASSUME Log!CallReturns \/ \E cb \in Log!Callbacks \cup {Log!None} : Log!SetCallback(cb) PROVE LogInv'
  <2>1. /\ UNCHANGED <<Log!files, Log!rotating, made, faults, starts, Log!history>>
        /\ sink' \in Log!Callbacks \cup {Log!None} /\ calling' \in Log!Callbacks \cup {Log!None}
    BY <1>2 DEF Log!CallReturns, Log!SetCallback, LogInv
  <2> QED BY <2>1 DEF Log!files, Log!rotating, Log!history, LogInv, Log!AsItIs, LogSound, LogWhole,
       LogCount, IsLog
<1> QED BY <1>1, <1>2, LogRecord, LogKilled, LogPowerCut DEF Log!Next

\* And it says what is checked.
LEMMA LogHolds == ASSUME Log!LogAssumption, LogInv
                  PROVE  Log!TypeOK /\ Log!GenerationsInOrder /\ Log!RetentionKept /\ Log!EvidenceSurvives /\ Log!SizeBounded
<1>1. /\ LogFiles(dir, content, synced, made) /\ LogOrder(dir, content)
      /\ LogDurable(content, synced, kept) /\ LogBudget(dir, content, faults)
      /\ LogHandle(dir, handle, adrift)
      /\ handle \in 1 .. Len(content) /\ written \in Nat /\ rotateAt \in Nat
  BY DEF LogInv, LogSound, LogCount, Log!AsItIs
<1>2. /\ content \in Seq(Seq(Nat)) /\ synced \in Seq(Nat) /\ Len(synced) = Len(content) /\ Len(content) \in Nat
      /\ dir \in [Log!Generations -> 0 .. Len(content)] /\ Log!Files = 1 .. Len(content)
      /\ \A f \in Log!Files : synced[f] <= Len(content[f])
  BY <1>1 DEF LogFiles, Log!Files
<1>3. Log!Active \in Log!Generations /\ Log!NoFile = 0
  BY LogConstants DEF Log!Active, Log!Generations, Log!NoFile
<1>4. Log!TypeOK
  <2>1. ASSUME NEW f \in Log!Files PROVE synced[f] \in 0 .. Len(content[f])
    <3>1. content[f] \in Seq(Nat) /\ synced[f] \in Nat
      BY <1>2, <2>1
    <3> QED BY <1>2, <2>1, <3>1
  <2>2. DOMAIN synced = Log!Files
    BY <1>2
  <2> QED BY <1>1, <1>2, <2>1, <2>2 DEF Log!TypeOK, LogInv
<1>5. Log!GenerationsInOrder
  <2>1. SUFFICES ASSUME NEW g \in Log!Named, NEW h \in Log!Named, g < h
                 PROVE  dir[g] # dir[h] /\ \A r \in Log!Holds(g), s \in Log!Holds(h) : s < r
    BY DEF Log!GenerationsInOrder
  <2>2. g \in Log!Generations /\ h \in Log!Generations /\ dir[g] # Log!NoFile /\ dir[h] # Log!NoFile
    BY DEF Log!Named
  <2> QED BY <1>1, <2>1, <2>2 DEF LogOrder, Log!Holds
<1>6. Log!RetentionKept
  <2>1. SUFFICES ASSUME faults = 0, starts = 0, NEW r \in 1 .. made, r + Keep * MaxBytes >= made
                 PROVE  \E g \in Log!Named : r \in Log!Holds(g)
    BY DEF Log!RetentionKept
  <2>2. LogWhole(Log!AsItIs, made) /\ adrift = FALSE
    BY <2>1 DEF LogInv
  <2>3. LogSound(Log!AsItIs, made, faults, FALSE, kept)
    BY <2>2, Zenon DEF LogInv
  <2>4. made \in Nat /\ faults \in Nat
    BY LogConstants DEF LogInv
  <2> QED BY <2>1, <2>2, <2>3, <2>4, WholeKept
<1>7. Log!EvidenceSurvives
  <2>1. adrift \/ \E g \in Log!Named : dir[g] = handle
    BY <1>1, <1>2, <1>3 DEF LogHandle, Log!Named
  <2>2. \A f \in Log!Files : \A i \in 1 .. Len(content[f]) : content[f][i] \in kept => i <= synced[f]
    BY <1>1, <1>2 DEF LogDurable
  <2> QED BY <2>1, <2>2 DEF Log!EvidenceSurvives
<1>8. Log!SizeBounded
  BY <1>1 DEF Log!SizeBounded, LogBudget, Log!Named
<1> QED BY <1>4, <1>5, <1>6, <1>7, <1>8

-----------------------------------------------------------------------------
(* The walkers noticed. *)

One(b) == IF b THEN 1 ELSE 0
\* The tracks have one of that process, not of another with its id.
IsOf(ts, p) == p[1] \in DOMAIN ts /\ ts[p[1]].started = p[2]

\* It has exited, and its start will not be given again.
Past(p) == ~Walk!Running(p) /\ p[2] <= gen[p[1]]

\* Nothing is in it twice.
Distinct(s) == \A i, j \in 1 .. Len(s) : s[i] = s[j] => i = j

\* What is sent, and what is kept.
WalkEvents == [kind : {"opened", "released"}, fh : Walk!Fhs, tid : Walk!Tids \cup {0}, at : Walk!Times]
WalkTracks == [started : 1 .. WalkStarts, first : Walk!Times, last : Walk!Times,
               opened : Nat, open : Nat, reported : BOOLEAN]

WalkTypes ==
    /\ clock \in Walk!Times /\ walkLive \in [Pids -> BOOLEAN] /\ gen \in [Pids -> 0 .. WalkStarts]
    /\ spare \in [Spares -> Walk!Procs \cup {Walk!NoProc}]
    /\ holder \in [Walk!Fhs -> Walk!Procs \cup {Walk!NoProc}] /\ fhs \in 0 .. MaxOpens
    /\ \A t \in DOMAIN threads : t \in Walk!Tids /\ threads[t].of \in Walk!Procs /\ threads[t].at \in Walk!Times
    /\ pruned \in Walk!Times \cup {MaxTime + 1}
    /\ stopping \in {<<>>} \cup (Walk!Procs \X {"read", "gone"}) /\ goodbye \in Walk!Procs \cup {Walk!NoProc}
    /\ said \in [Walk!Procs -> -1 .. 1]
    /\ signalled \subseteq Walk!Procs /\ walked \subseteq Walk!Procs

\* record: an open makes a walk of the run, and the track after it.
RunStarts(k, now) == ~Walk!Counted(k, now).reported /\ Walk!Walking(Walk!Counted(k, now), now)
Ran(k, now) == [Walk!Counted(k, now) EXCEPT !.reported = @ \/ RunStarts(k, now)]

\* The handles put down to an id are those its track counts, and are of tracks.
Of(hs, p) == {f \in DOMAIN hs : hs[f] = p}
WalkPuts(ts, hs) ==
    /\ IsFiniteSet(DOMAIN ts) /\ DOMAIN ts \subseteq Pids
    /\ \A p \in DOMAIN ts : ts[p] \in WalkTracks /\ ts[p].opened <= fhs /\ ts[p].started <= gen[p]
    /\ DOMAIN hs \subseteq 1 .. fhs
    /\ \A f \in DOMAIN hs : hs[f] \in DOMAIN ts
    /\ \A p \in DOMAIN ts : ts[p].open = Cardinality(Of(hs, p))

\* The handle is newer than what the tracks have counted: no open is counted twice.
Before(ts, hs, n) == (\A p \in DOMAIN ts : ts[p].opened < n) /\ (\A f \in DOMAIN hs : f < n)


\* Opens come in the order their handles were given out.
Coming(e) == e \in WalkEvents /\ (e.kind = "opened" => e.tid \in Walk!Tids /\ e.fh <= fhs /\ Before(tracks, handles, e.fh))
WalkOrder ==
    /\ walkQueue \in Seq(WalkEvents) /\ event \in Seq(WalkEvents) /\ Len(event) <= 1
    /\ \A i \in 1 .. Len(walkQueue) : Coming(walkQueue[i])
    /\ \A i, j \in 1 .. Len(walkQueue) :
         i < j /\ walkQueue[i].kind = "opened" /\ walkQueue[j].kind = "opened" => walkQueue[i].fh < walkQueue[j].fh
    /\ event # <<>> =>
         /\ Coming(event[1]) /\ event[1].kind = "opened"
         /\ \A i \in 1 .. Len(walkQueue) : walkQueue[i].kind = "opened" => event[1].fh < walkQueue[i].fh

\* A running process has started, and a thread belongs to a running one.
Started ==
    /\ \A p \in Pids : walkLive[p] => gen[p] # 0
    /\ \A t \in Spares : spare[t] # Walk!NoProc => Walk!Running(spare[t])

\* The starts said less the ends said, and what is yet to be said, add up: a process with a
\* track has one start open if its track is reported; one that may still run and has no track
\* has none; one that is past is never said to start more often than to end.
SaidOf(ts, E, B, p) ==
    /\ IsOf(ts, p) => p # goodbye /\ said[p] - One(p \in E) + One(p \in B) = One(ts[p[1]].reported)
    /\ ~IsOf(ts, p) /\ ~Past(p) => p # goodbye /\ p \notin B /\ said[p] = One(p \in E)
    /\ ~IsOf(ts, p) /\ Past(p) => said[p] - One(p \in E) - One(p = goodbye) \in {-1, 0}
WalkSaid(ts, ends, begins) ==
    /\ ends \in Seq(Walk!Procs) /\ begins \in Seq(Walk!Procs) /\ Distinct(ends) /\ Distinct(begins)
    /\ \A p \in Walk!Procs : SaidOf(ts, Walk!Range(ends), Walk!Range(begins), p)

\* While an open is looked into, what the sweep before it has to say is still so.
SweptOf(ts, E, B, now, p) ==
    IsOf(ts, p) => /\ p \in E => ~ts[p[1]].reported
                   /\ p \in B => ts[p[1]].reported /\ Walk!Walking(ts[p[1]], now)
Swept(ts, ends, begins, now) == \A p \in Walk!Procs : SweptOf(ts, Walk!Range(ends), Walk!Range(begins), now, p)

\* What is reported has been seen walking.
Seen(ts, w) == \A p \in DOMAIN ts : ts[p].reported => Walk!Proc(ts, p) \in w

\* stop_at has read a process that was seen walking; what it finds gone is past.
Stops ==
    /\ stopping # <<>> => /\ stopping[1] \in walked /\ stopping[1][2] <= gen[stopping[1][1]]
                        /\ goodbye = Walk!NoProc
    /\ stopping # <<>> /\ stopping[2] = "gone" => Past(stopping[1])
    /\ goodbye # Walk!NoProc => Past(goodbye)
    /\ signalled \subseteq walked

WalkInv ==
    /\ WalkTypes /\ WalkPuts(tracks, handles) /\ WalkOrder /\ Started
    /\ WalkSaid(tracks, ended, begun)
    /\ event # <<>> => Swept(tracks, ended, begun, event[1].at)
    /\ Seen(tracks, walked) /\ Stops

\* What a sequence holds.
LEMMA MembersAre ==
    ASSUME NEW S, NEW s \in Seq(S)
    PROVE  Walk!Range(s) = {s[i] : i \in 1 .. Len(s)} /\ Walk!Range(s) \subseteq S
BY DEF Walk!Range

\* Walks counts a set as this module does.
LEMMA SizesAlike == \A S : Walk!Cardinality(S) = Cardinality(S)
BY Zenon DEF Walk!Cardinality, Cardinality

\* A finite set in some order: each member once.
LEMMA SetListed ==
    ASSUME NEW P, NEW S, S \subseteq P, IsFiniteSet(S)
    PROVE  /\ Walk!InSomeOrder(S) \in Seq(P) /\ Distinct(Walk!InSomeOrder(S)) /\ Walk!Range(Walk!InSomeOrder(S)) = S
<1> DEFINE n == Cardinality(S)
           s == Walk!InSomeOrder(S)
<1>1. n \in Nat /\ ExistsBijection(1 .. n, S)
  BY FS_CardinalityType
<1>2. PICK f \in Bijection(1 .. n, S) : TRUE
  BY <1>1 DEF ExistsBijection
<1>3. f \in [1 .. n -> S] /\ Walk!IsInjective(f)
  BY <1>2 DEF Bijection, Injection, IsInjective, Walk!IsInjective
<1>4. s \in [1 .. n -> S] /\ Walk!IsInjective(s)
  BY <1>3, SizesAlike DEF Walk!InSomeOrder
<1>5. s \in Seq(P) /\ Len(s) = n
  BY <1>1, <1>4
<1>6. Distinct(s)
  BY <1>4, <1>5 DEF Distinct, Walk!IsInjective
<1>7. s \in Injection(1 .. n, S)
  BY <1>4 DEF Injection, IsInjective, Walk!IsInjective
<1>8. IsFiniteSet(1 .. n) /\ Cardinality(1 .. n) = n
  BY <1>1, FS_Interval
<1>9. s \in Surjection(1 .. n, S)
  BY <1>7, <1>8, FS_Injection
<1>10. Walk!Range(s) = S
  BY <1>4, <1>9 DEF Walk!Range, Surjection
<1> QED BY <1>5, <1>6, <1>10

\* What is new goes behind, and nothing is there twice.
LEMMA EntryAdded ==
    ASSUME NEW S, NEW s \in Seq(S), Distinct(s), NEW x \in S, x \notin Walk!Range(s)
    PROVE  /\ s \o <<x>> \in Seq(S) /\ Distinct(s \o <<x>>) /\ Walk!Range(s \o <<x>>) = Walk!Range(s) \cup {x}
<1> DEFINE t == s \o <<x>>
<1>1. /\ t \in Seq(S) /\ Len(t) = Len(s) + 1 /\ Len(s) \in Nat
      /\ \A i \in 1 .. Len(s) : t[i] = s[i]
      /\ t[Len(s) + 1] = x
  OBVIOUS
<1> HIDE DEF t
<1>2. \A i \in 1 .. Len(s) : s[i] # x
  BY MembersAre
<1>3. Distinct(t)
  <2>1. SUFFICES ASSUME NEW i \in 1 .. Len(t), NEW j \in 1 .. Len(t), t[i] = t[j] PROVE i = j
    BY DEF Distinct
  <2>2. (i \in 1 .. Len(s) \/ i = Len(s) + 1) /\ (j \in 1 .. Len(s) \/ j = Len(s) + 1)
    BY <1>1, <2>1
  <2> QED BY <1>1, <1>2, <2>1, <2>2 DEF Distinct
<1>4. Walk!Range(t) = Walk!Range(s) \cup {x}
  <2>1. 1 .. Len(t) = (1 .. Len(s)) \cup {Len(s) + 1}
    BY <1>1
  <2> QED BY <1>1, <2>1, MembersAre
<1> QED BY <1>1, <1>3, <1>4 DEF t

\* The first goes, and the rest is as it was.
LEMMA HeadGone ==
    ASSUME NEW S, NEW s \in Seq(S), Distinct(s), s # <<>>
    PROVE  /\ Tail(s) \in Seq(S) /\ Distinct(Tail(s)) /\ Walk!Range(Tail(s)) = Walk!Range(s) \ {Head(s)}
           /\ Head(s) \in S /\ Head(s) \in Walk!Range(s)
<1> DEFINE t == Tail(s)
<1>1. /\ t \in Seq(S) /\ Len(t) = Len(s) - 1 /\ Len(s) \in Nat /\ Len(s) >= 1
      /\ \A i \in 1 .. Len(t) : t[i] = s[i + 1]
      /\ Head(s) = s[1] /\ Head(s) \in S
  OBVIOUS
<1> HIDE DEF t
<1>2. Distinct(t)
  <2>1. SUFFICES ASSUME NEW i \in 1 .. Len(t), NEW j \in 1 .. Len(t), t[i] = t[j] PROVE i = j
    BY DEF Distinct
  <2>2. i + 1 \in 1 .. Len(s) /\ j + 1 \in 1 .. Len(s) /\ s[i + 1] = s[j + 1]
    BY <1>1, <2>1
  <2>3. i + 1 = j + 1
    BY <2>2 DEF Distinct
  <2> QED BY <1>1, <2>3
<1>3. Walk!Range(t) = Walk!Range(s) \ {Head(s)}
  <2>1. ASSUME NEW i \in 1 .. Len(t) PROVE t[i] \in Walk!Range(s) /\ t[i] # Head(s)
    <3>1. i + 1 \in 1 .. Len(s) /\ 1 \in 1 .. Len(s) /\ i + 1 # 1
      BY <1>1, <2>1
    <3> QED BY <1>1, <2>1, <3>1, MembersAre DEF Distinct
  <2>2. ASSUME NEW i \in 1 .. Len(s), s[i] # Head(s) PROVE s[i] \in Walk!Range(t)
    <3>1. i - 1 \in 1 .. Len(t) /\ (i - 1) + 1 = i
      BY <1>1, <2>2
    <3>2. t[i - 1] = s[i]
      BY <1>1, <3>1
    <3> QED BY <1>1, <3>1, <3>2, MembersAre
  <2> QED BY <1>1, <2>1, <2>2, MembersAre
<1>4. Head(s) \in Walk!Range(s)
  BY <1>1, MembersAre
<1> QED BY <1>1, <1>2, <1>3, <1>4 DEF t

\* The constants are numbers.
LEMMA WalkConstants ==
    ASSUME Walk!WalksAssumption
    PROVE  /\ HeldDirs \in Nat \ {0} /\ WalkDirs \in Nat \ {0} /\ Quiet \in Nat \ {0}
           /\ ResolveEvery \in Nat \ {0} /\ PruneEvery \in Nat \ {0}
           /\ WalkFor \in Nat /\ WalkStarts \in Nat /\ MaxOpens \in Nat /\ MaxTime \in Nat
           /\ Pids \cap Spares = {}
BY DEF Walk!WalksAssumption

\* The handles of one process are no more than were given out.
LEMMA HandlesFinite ==
    ASSUME NEW n \in Nat, NEW hs, DOMAIN hs \subseteq 1 .. n, NEW p
    PROVE  /\ IsFiniteSet(Of(hs, p)) /\ Cardinality(Of(hs, p)) \in Nat /\ Cardinality(Of(hs, p)) <= n
           /\ Cardinality(Of(hs, p)) = 0 => Of(hs, p) = {}
<1>1. IsFiniteSet(1 .. n) /\ Cardinality(1 .. n) = n
  BY FS_Interval
<1>2. Of(hs, p) \subseteq 1 .. n
  BY DEF Of
<1>3. IsFiniteSet(Of(hs, p)) /\ Cardinality(Of(hs, p)) <= n
  BY <1>1, <1>2, FS_Subset
<1> QED BY <1>3, FS_CardinalityType, FS_EmptySet

\* A handle put down to a process is one more of its.
LEMMA HandleCounted ==
    ASSUME NEW n \in Nat, NEW hs, DOMAIN hs \subseteq 1 .. n, NEW f \in 1 .. n, f \notin DOMAIN hs, NEW p
    PROVE  Cardinality(Of(Walk!With(hs, f, p), p)) = Cardinality(Of(hs, p)) + 1
<1>1. Of(Walk!With(hs, f, p), p) = Of(hs, p) \cup {f} /\ f \notin Of(hs, p)
  BY DEF Of, Walk!With
<1> QED BY <1>1, HandlesFinite, FS_AddElement

\* It is nobody else's.
LEMMA OthersHandles ==
    ASSUME NEW hs, NEW f, f \notin DOMAIN hs, NEW p, NEW q, q # p
    PROVE  Of(Walk!With(hs, f, p), q) = Of(hs, q)
BY DEF Of, Walk!With

\* A handle that goes is one fewer of its process.
LEMMA HandleTaken ==
    ASSUME NEW n \in Nat, NEW hs, DOMAIN hs \subseteq 1 .. n, NEW f \in DOMAIN hs,
           NEW r, r = Walk!Restrict(hs, DOMAIN hs \ {f})
    PROVE  /\ DOMAIN r = DOMAIN hs \ {f} /\ \A g \in DOMAIN r : r[g] = hs[g]
           /\ Cardinality(Of(hs, hs[f])) = Cardinality(Of(r, hs[f])) + 1
           /\ Cardinality(Of(r, hs[f])) \in Nat
           /\ \A q : q # hs[f] => Of(r, q) = Of(hs, q)
<1>1. DOMAIN r = DOMAIN hs \ {f} /\ \A g \in DOMAIN r : r[g] = hs[g]
  BY DEF Walk!Restrict
<1>2. Of(r, hs[f]) = Of(hs, hs[f]) \ {f} /\ f \in Of(hs, hs[f])
  BY <1>1 DEF Of
<1>3. Cardinality(Of(r, hs[f])) = Cardinality(Of(hs, hs[f])) - 1
  <2>1. IsFiniteSet(Of(hs, hs[f]))
    BY HandlesFinite
  <2> QED BY <1>2, <2>1, FS_RemoveElement
<1>4. Cardinality(Of(r, hs[f])) \in Nat /\ Cardinality(Of(hs, hs[f])) \in Nat
  <2>1. DOMAIN r \subseteq 1 .. n
    BY <1>1
  <2> QED BY <2>1, HandlesFinite
<1>5. ASSUME NEW q, q # hs[f] PROVE Of(r, q) = Of(hs, q)
  BY <1>1, <1>5 DEF Of
<1>6. Cardinality(Of(hs, hs[f])) = Cardinality(Of(r, hs[f])) + 1
  BY <1>3, <1>4
<1> QED BY <1>1, <1>4, <1>5, <1>6

\* handles.retain: nothing of that process stays, and all of the others'.
LEMMA HandlesLeft ==
    ASSUME NEW hs, NEW p
    PROVE  /\ DOMAIN Walk!HandlesWithout(hs, p) \subseteq DOMAIN hs
           /\ \A g \in DOMAIN Walk!HandlesWithout(hs, p) : Walk!HandlesWithout(hs, p)[g] = hs[g] /\ hs[g] # p
           /\ Of(Walk!HandlesWithout(hs, p), p) = {} /\ \A q : q # p => Of(Walk!HandlesWithout(hs, p), q) = Of(hs, q)
<1> DEFINE r == Walk!HandlesWithout(hs, p)
<1>1. DOMAIN r = {f \in DOMAIN hs : hs[f] # p} /\ \A g \in DOMAIN r : r[g] = hs[g]
  BY DEF Walk!HandlesWithout, Walk!Restrict
<1> HIDE DEF r
<1>2. Of(r, p) = {}
  BY <1>1 DEF Of
<1>3. ASSUME NEW q, q # p PROVE Of(r, q) = Of(hs, q)
  BY <1>1, <1>3 DEF Of
<1> QED BY <1>1, <1>2, <1>3 DEF r

\* record: one more open and one more held, in the same run or in a new one.
LEMMA RunCounted ==
    ASSUME Walk!WalksAssumption, NEW k \in WalkTracks, NEW now \in Walk!Times
    PROVE  /\ Walk!Counted(k, now) \in WalkTracks
           /\ Walk!Counted(k, now).started = k.started /\ Walk!Counted(k, now).open = k.open + 1
           /\ Walk!Counted(k, now).last = now
           /\ Walk!Counted(k, now).opened <= k.opened + 1
           /\ Walk!Counted(k, now).reported = (k.reported /\ ~Walk!Pauses(k, now))
<1> DEFINE cut == [k EXCEPT !.first = now, !.opened = 0, !.reported = FALSE]
           run == IF Walk!Pauses(k, now) THEN cut ELSE k
           more == [run EXCEPT !.last = now, !.opened = @ + 1, !.open = @ + 1]
<1>1. k.opened \in Nat /\ k.open \in Nat /\ k.reported \in BOOLEAN
  BY DEF WalkTracks
<1>2. cut \in WalkTracks /\ cut.opened = 0 /\ cut.reported = FALSE /\ cut.open = k.open /\ cut.started = k.started
  <2>1. cut \in WalkTracks
    BY DEF WalkTracks
  <2>2. cut.opened = 0 /\ cut.reported = FALSE /\ cut.open = k.open /\ cut.started = k.started
    BY DEF WalkTracks
  <2> QED BY <2>1, <2>2
<1> HIDE DEF cut
<1>3. /\ run \in WalkTracks /\ run.started = k.started /\ run.open = k.open /\ run.opened <= k.opened
      /\ run.reported = (k.reported /\ ~Walk!Pauses(k, now))
  <2>1. CASE Walk!Pauses(k, now)
    <3>1. run = cut
      BY <2>1
    <3>2. run.opened <= k.opened
      BY <1>1, <1>2, <3>1
    <3>3. run.reported = (k.reported /\ ~Walk!Pauses(k, now))
      BY <1>2, <2>1, <3>1, Zenon
    <3> QED BY <1>2, <3>1, <3>2, <3>3
  <2>2. CASE ~Walk!Pauses(k, now)
    BY <1>1, <2>2
  <2> QED BY <2>1, <2>2
<1>4. Walk!Counted(k, now) = more
  BY DEF Walk!Counted, cut
<1> HIDE DEF run
<1>5. run.opened \in Nat /\ run.open \in Nat /\ run.opened + 1 \in Nat /\ run.open + 1 \in Nat
  BY <1>3 DEF WalkTracks
<1>6. more \in WalkTracks
  <2>1. ASSUME NEW m \in Nat, NEW n \in Nat
        PROVE  [run EXCEPT !.last = now, !.opened = m, !.open = n] \in WalkTracks
    BY <1>3 DEF WalkTracks
  <2>2. more = [run EXCEPT !.last = now, !.opened = run.opened + 1, !.open = run.open + 1]
    BY <1>3 DEF WalkTracks
  <2> QED BY <1>5, <2>1, <2>2
<1>7. /\ more.started = run.started /\ more.open = run.open + 1 /\ more.last = now
      /\ more.opened = run.opened + 1 /\ more.reported = run.reported
  BY <1>3 DEF WalkTracks
<1> HIDE DEF more
<1> QED BY <1>1, <1>3, <1>4, <1>5, <1>6, <1>7

\* record: and a walk it makes of the run is reported.
LEMMA RunIs ==
    ASSUME Walk!WalksAssumption, NEW k \in WalkTracks, NEW now \in Walk!Times
    PROVE  /\ Ran(k, now) \in WalkTracks
           /\ Ran(k, now).started = k.started /\ Ran(k, now).open = k.open + 1
           /\ Ran(k, now).opened <= k.opened + 1
           /\ Ran(k, now).reported = ((k.reported /\ ~Walk!Pauses(k, now)) \/ RunStarts(k, now))
           /\ RunStarts(k, now) => ~(k.reported /\ ~Walk!Pauses(k, now))
<1> DEFINE c == Walk!Counted(k, now)
<1>1. /\ c \in WalkTracks /\ c.started = k.started /\ c.open = k.open + 1 /\ c.opened <= k.opened + 1
      /\ c.reported = (k.reported /\ ~Walk!Pauses(k, now))
  BY RunCounted
<1>2. Ran(k, now) = [c EXCEPT !.reported = @ \/ RunStarts(k, now)]
  BY DEF Ran
<1>3. RunStarts(k, now) \in BOOLEAN /\ (RunStarts(k, now) => ~c.reported)
  BY DEF RunStarts
<1> HIDE DEF c
<1> QED BY <1>1, <1>2, <1>3 DEF WalkTracks

\* A track of one started now pauses at nothing.
LEMMA FreshIs ==
    ASSUME Walk!WalksAssumption, NEW q \in Walk!Procs, NEW now \in Walk!Times
    PROVE  /\ Walk!Fresh(q, now) \in WalkTracks /\ Walk!Fresh(q, now).started = q[2] /\ Walk!Fresh(q, now).open = 0
           /\ Walk!Fresh(q, now).opened = 0 /\ ~Walk!Fresh(q, now).reported
<1>1. q[2] \in 1 .. WalkStarts
  BY DEF Walk!Procs
<1> QED BY <1>1 DEF Walk!Fresh, WalkTracks, Walk!Times

\* record: the track of the process itself, or a new one, whoever had the id.
LEMMA BaseIs ==
    ASSUME Walk!WalksAssumption, NEW ts, NEW q \in Walk!Procs, NEW now \in Walk!Times,
           \A p \in DOMAIN ts : ts[p] \in WalkTracks
    PROVE  /\ Walk!Base(ts, q, now) \in WalkTracks /\ Walk!Base(ts, q, now).started = q[2]
           /\ IsOf(ts, q) => Walk!Base(ts, q, now) = ts[q[1]]
           /\ ~IsOf(ts, q) => Walk!Base(ts, q, now).open = 0 /\ Walk!Base(ts, q, now).opened = 0
                              /\ ~Walk!Base(ts, q, now).reported
           /\ Walk!Supplants(ts, q) <=> q[1] \in DOMAIN ts /\ ~IsOf(ts, q)
<1>1. Walk!Supplants(ts, q) <=> q[1] \in DOMAIN ts /\ ~IsOf(ts, q)
  BY DEF Walk!Supplants, IsOf
<1>2. CASE IsOf(ts, q)
  <2>1. Walk!Base(ts, q, now) = ts[q[1]]
    BY <1>1, <1>2 DEF Walk!Base, IsOf
  <2> QED BY <1>1, <1>2, <2>1 DEF IsOf
<1>3. CASE ~IsOf(ts, q)
  <2>1. Walk!Base(ts, q, now) = Walk!Fresh(q, now)
    BY <1>1, <1>3 DEF Walk!Base, IsOf
  <2> QED BY <1>1, <1>3, <2>1, FreshIs
<1> QED BY <1>2, <1>3

\* record, with what it does to each part.
LEMMA RecordIs ==
    ASSUME NEW ts, NEW q, NEW e, NEW ends, NEW begins, Walk!Record(ts, q, e, ends, begins)
    PROVE  LET k == Walk!Base(ts, q, e.at)
               ceases == (Walk!Supplants(ts, q) /\ ts[q[1]].reported) \/ (Walk!Pauses(k, e.at) /\ k.reported)
           IN  /\ tracks' = Walk!With(ts, q[1], Ran(k, e.at))
               /\ Walk!Supplants(ts, q) => handles' = Walk!With(Walk!HandlesWithout(handles, q[1]), e.fh, q[1])
               /\ ~Walk!Supplants(ts, q) => handles' = Walk!With(handles, e.fh, q[1])
               /\ ceases => ended' = ends \o <<Walk!Proc(ts, q[1])>>
               /\ ~ceases => ended' = ends \o <<>>
               /\ RunStarts(k, e.at) => begun' = begins \o <<q>>
               /\ ~RunStarts(k, e.at) => begun' = begins \o <<>>
               /\ walked' = walked \cup Walk!Range(begun')
BY DEF Walk!Record, Ran, RunStarts

\* The handles of the process are those it is counted to hold, and one.
LEMMA HandlesRecorded ==
    ASSUME Walk!WalksAssumption, fhs \in Nat, NEW ts, WalkPuts(ts, handles), NEW f \in 1 .. fhs,
           Before(ts, handles, f), NEW q \in Walk!Procs, NEW now \in Walk!Times,
           Walk!Supplants(ts, q) => handles' = Walk!With(Walk!HandlesWithout(handles, q[1]), f, q[1]),
           ~Walk!Supplants(ts, q) => handles' = Walk!With(handles, f, q[1])
    PROVE  /\ DOMAIN handles' \subseteq 1 .. fhs
           /\ \A g \in DOMAIN handles' : handles'[g] \in DOMAIN ts \cup {q[1]} /\ (g \in DOMAIN handles \/ g = f)
           /\ Cardinality(Of(handles', q[1])) = Walk!Base(ts, q, now).open + 1
           /\ \A p : p # q[1] => Of(handles', p) = Of(handles, p)
<1>1. /\ DOMAIN handles \subseteq 1 .. fhs /\ \A g \in DOMAIN handles : handles[g] \in DOMAIN ts
      /\ \A p \in DOMAIN ts : ts[p].open = Cardinality(Of(handles, p)) /\ ts[p] \in WalkTracks
  BY DEF WalkPuts
<1>2. f \notin DOMAIN handles
  BY DEF Before
<1>3. CASE Walk!Supplants(ts, q)
  <2> DEFINE hs == Walk!HandlesWithout(handles, q[1])
  <2>1. /\ DOMAIN hs \subseteq DOMAIN handles /\ \A g \in DOMAIN hs : hs[g] = handles[g]
        /\ Of(hs, q[1]) = {} /\ \A p : p # q[1] => Of(hs, p) = Of(handles, p)
    BY HandlesLeft
  <2> HIDE DEF hs
  <2>2. DOMAIN hs \subseteq 1 .. fhs /\ f \notin DOMAIN hs
    BY <1>1, <1>2, <2>1
  <2>3. handles' = Walk!With(hs, f, q[1])
    BY <1>3 DEF hs
  <2>4. /\ DOMAIN handles' = DOMAIN hs \cup {f}
        /\ \A g \in DOMAIN handles' : handles'[g] = IF g = f THEN q[1] ELSE hs[g]
        /\ Cardinality(Of(handles', q[1])) = Cardinality(Of(hs, q[1])) + 1
        /\ \A p : p # q[1] => Of(handles', p) = Of(hs, p)
    <3> DEFINE w == Walk!With(hs, f, q[1])
    <3>1. /\ DOMAIN w = DOMAIN hs \cup {f}
          /\ \A g \in DOMAIN w : w[g] = IF g = f THEN q[1] ELSE hs[g]
      BY DEF Walk!With
    <3>3. Cardinality(Of(w, q[1])) = Cardinality(Of(hs, q[1])) + 1
      BY <2>2, HandleCounted
    <3>4. ASSUME NEW p, p # q[1] PROVE Of(w, p) = Of(hs, p)
      BY <2>2, <3>4, OthersHandles
    <3>2. handles' = w
      BY <2>3
    <3> HIDE DEF w
    <3> QED BY <3>1, <3>2, <3>3, <3>4
  <2>5. Cardinality(Of(hs, q[1])) = 0
    BY <2>1, FS_EmptySet
  <2>6. Walk!Base(ts, q, now).open = 0
    BY <1>1, <1>3, BaseIs
  <2>7. Cardinality(Of(handles', q[1])) = Walk!Base(ts, q, now).open + 1
    BY <2>4, <2>5, <2>6
  <2> QED BY <1>1, <2>1, <2>2, <2>4, <2>7
<1>4. CASE ~Walk!Supplants(ts, q)
  <2>1. handles' = Walk!With(handles, f, q[1])
    BY <1>4
  <2>2. /\ DOMAIN handles' = DOMAIN handles \cup {f}
        /\ \A g \in DOMAIN handles' : handles'[g] = IF g = f THEN q[1] ELSE handles[g]
        /\ Cardinality(Of(handles', q[1])) = Cardinality(Of(handles, q[1])) + 1
        /\ \A p : p # q[1] => Of(handles', p) = Of(handles, p)
    <3> DEFINE w == Walk!With(handles, f, q[1])
    <3>1. /\ DOMAIN w = DOMAIN handles \cup {f}
          /\ \A g \in DOMAIN w : w[g] = IF g = f THEN q[1] ELSE handles[g]
      BY DEF Walk!With
    <3>3. Cardinality(Of(w, q[1])) = Cardinality(Of(handles, q[1])) + 1
      BY <1>1, <1>2, HandleCounted
    <3>4. ASSUME NEW p, p # q[1] PROVE Of(w, p) = Of(handles, p)
      BY <1>1, <1>2, <3>4, OthersHandles
    <3>2. handles' = w
      BY <2>1
    <3> HIDE DEF w
    <3> QED BY <3>1, <3>2, <3>3, <3>4
  <2>3. Cardinality(Of(handles, q[1])) = Walk!Base(ts, q, now).open
    <3>1. CASE q[1] \in DOMAIN ts
      <4>1. IsOf(ts, q)
        BY <1>1, <1>4, <3>1, BaseIs
      <4> QED BY <1>1, <3>1, <4>1, BaseIs
    <3>2. CASE q[1] \notin DOMAIN ts
      <4>1. Of(handles, q[1]) = {}
        BY <1>1, <3>2 DEF Of
      <4>2. Walk!Base(ts, q, now).open = 0
        BY <1>1, <3>2, BaseIs DEF IsOf
      <4> QED BY <4>1, <4>2, FS_EmptySet
    <3> QED BY <3>1, <3>2
  <2> QED BY <1>1, <2>2, <2>3
<1> QED BY <1>3, <1>4

\* A directory opened counts against the one that opened it.
LEMMA PutsRecorded ==
    ASSUME Walk!WalksAssumption, fhs \in Nat, NEW ts, WalkPuts(ts, handles),
           NEW e \in WalkEvents, e.fh <= fhs, Before(ts, handles, e.fh),
           NEW q \in Walk!Procs, q[2] <= gen[q[1]], NEW ends, NEW begins, Walk!Record(ts, q, e, ends, begins)
    PROVE  /\ WalkPuts(tracks', handles')
           /\ \A n \in Nat : e.fh < n /\ Before(ts, handles, n) => Before(tracks', handles', n)
<1> DEFINE k == Walk!Base(ts, q, e.at)
           r == Ran(k, e.at)
<1>1. e.fh \in 1 .. fhs /\ e.at \in Walk!Times /\ q[1] \in Pids
  BY DEF WalkEvents, Walk!Fhs, Walk!Procs
<1>2. /\ IsFiniteSet(DOMAIN ts) /\ DOMAIN ts \subseteq Pids
      /\ \A p \in DOMAIN ts : ts[p] \in WalkTracks /\ ts[p].opened <= fhs /\ ts[p].started <= gen[p]
      /\ \A p \in DOMAIN ts : ts[p].open = Cardinality(Of(handles, p)) /\ ts[p].opened < e.fh
      /\ \A g \in DOMAIN handles : g < e.fh /\ g \in Nat
  BY <1>1 DEF WalkPuts, Before
<1>3. /\ k \in WalkTracks /\ k.started = q[2] /\ k.opened < e.fh
  <2>1. k \in WalkTracks /\ k.started = q[2]
    BY <1>1, <1>2, BaseIs
  <2>2. CASE IsOf(ts, q)
    BY <1>1, <1>2, <2>1, <2>2, BaseIs DEF IsOf
  <2>3. CASE ~IsOf(ts, q)
    BY <1>1, <1>2, <2>1, <2>3, BaseIs
  <2> QED BY <2>1, <2>2, <2>3
<1>4. /\ tracks' = Walk!With(ts, q[1], r)
      /\ Walk!Supplants(ts, q) => handles' = Walk!With(Walk!HandlesWithout(handles, q[1]), e.fh, q[1])
      /\ ~Walk!Supplants(ts, q) => handles' = Walk!With(handles, e.fh, q[1])
  BY RecordIs
<1>5. /\ DOMAIN handles' \subseteq 1 .. fhs
      /\ \A g \in DOMAIN handles' : handles'[g] \in DOMAIN ts \cup {q[1]} /\ (g \in DOMAIN handles \/ g = e.fh)
      /\ Cardinality(Of(handles', q[1])) = k.open + 1
      /\ \A p : p # q[1] => Of(handles', p) = Of(handles, p)
  BY <1>1, <1>4, HandlesRecorded
<1> HIDE DEF k
<1>6. /\ r \in WalkTracks /\ r.started = q[2] /\ r.open = k.open + 1 /\ r.opened <= k.opened + 1
  BY <1>1, <1>3, RunIs
<1> HIDE DEF r
<1>7. k.opened \in Nat /\ r.opened \in Nat
  BY <1>3, <1>6 DEF WalkTracks
<1>8. r.opened <= e.fh /\ r.opened <= fhs
  BY <1>1, <1>3, <1>6, <1>7
<1>9. /\ DOMAIN tracks' = DOMAIN ts \cup {q[1]} /\ tracks'[q[1]] = r
      /\ \A p \in DOMAIN ts : p # q[1] => tracks'[p] = ts[p]
  BY <1>4 DEF Walk!With
<1>10. IsFiniteSet(DOMAIN tracks')
  BY <1>2, <1>9, FS_AddElement
<1>11. ASSUME NEW p \in DOMAIN tracks'
       PROVE  /\ tracks'[p] \in WalkTracks /\ tracks'[p].opened <= fhs /\ tracks'[p].started <= gen[p]
              /\ tracks'[p].open = Cardinality(Of(handles', p))
  <2>1. CASE p = q[1]
    BY <1>5, <1>6, <1>8, <1>9, <2>1
  <2>2. CASE p # q[1]
    BY <1>2, <1>5, <1>9, <1>11, <2>2
  <2> QED BY <2>1, <2>2
<1>12. WalkPuts(tracks', handles')
  BY <1>1, <1>2, <1>5, <1>9, <1>10, <1>11 DEF WalkPuts
<1>13. ASSUME NEW n \in Nat, e.fh < n, Before(ts, handles, n) PROVE Before(tracks', handles', n)
  <2>1. ASSUME NEW p \in DOMAIN tracks' PROVE tracks'[p].opened < n
    <3>1. CASE p = q[1]
      BY <1>1, <1>7, <1>8, <1>9, <1>13, <3>1
    <3>2. CASE p # q[1]
      BY <1>9, <1>13, <2>1, <3>2 DEF Before
    <3> QED BY <3>1, <3>2
  <2>2. ASSUME NEW g \in DOMAIN handles' PROVE g < n
    BY <1>5, <1>13, <2>2 DEF Before
  <2> QED BY <2>1, <2>2 DEF Before
<1> QED BY <1>12, <1>13

\* What is a walk has not paused.
LEMMA WalkersGoOn ==
    ASSUME Walk!WalksAssumption, NEW k \in WalkTracks, NEW now \in Walk!Times, Walk!Walking(k, now)
    PROVE  ~Walk!Pauses(k, now)
<1>1. k.last \in Int /\ now \in Int /\ Quiet \in Int
  BY WalkConstants DEF WalkTracks, Walk!Times
<1>2. Walk!Since(now, k.last) \in Int
  BY <1>1 DEF Walk!Since
<1> QED BY <1>1, <1>2 DEF Walk!Walking, Walk!Pauses

\* What is to be said still adds up after an open: a walk that is cut off by a pause, or by
\* another process with its id, ends, and one that starts is said once.
LEMMA SaidRecorded ==
    ASSUME Walk!WalksAssumption, said \in [Walk!Procs -> Int], NEW ts, WalkPuts(ts, handles),
           NEW ends, NEW begins, NEW e \in WalkEvents, NEW q \in Walk!Procs,
           WalkSaid(ts, ends, begins), Swept(ts, ends, begins, e.at),
           IsOf(ts, q) \/ Walk!Running(q), Walk!Record(ts, q, e, ends, begins)
    PROVE  WalkSaid(tracks', ended', begun')
<1> DEFINE k == Walk!Base(ts, q, e.at)
           r == Ran(k, e.at)
           o == Walk!Proc(ts, q[1])
           walks == RunStarts(k, e.at)
           ceases == (Walk!Supplants(ts, q) /\ ts[q[1]].reported) \/ (Walk!Pauses(k, e.at) /\ k.reported)
           E == Walk!Range(ends)
           B == Walk!Range(begins)
<1>1. e.at \in Walk!Times
  BY DEF WalkEvents
<1>2. \A p \in DOMAIN ts : ts[p] \in WalkTracks /\ ts[p].started <= gen[p] /\ p \in Pids
  BY DEF WalkPuts
<1>3. /\ tracks' = Walk!With(ts, q[1], r)
      /\ ceases => ended' = ends \o <<o>>
      /\ ~ceases => ended' = ends \o <<>>
      /\ walks => begun' = begins \o <<q>>
      /\ ~walks => begun' = begins \o <<>>
  BY DEF Walk!Record, Ran, RunStarts
<1>4. /\ k \in WalkTracks /\ k.started = q[2]
      /\ IsOf(ts, q) => k = ts[q[1]]
      /\ ~IsOf(ts, q) => ~k.reported
      /\ Walk!Supplants(ts, q) <=> q[1] \in DOMAIN ts /\ ~IsOf(ts, q)
  BY <1>1, <1>2, BaseIs
<1>5. /\ r \in WalkTracks /\ r.started = q[2]
      /\ r.reported = ((k.reported /\ ~Walk!Pauses(k, e.at)) \/ walks)
      /\ walks => ~(k.reported /\ ~Walk!Pauses(k, e.at))
  BY <1>1, <1>4, RunIs
<1>6. /\ ends \in Seq(Walk!Procs) /\ begins \in Seq(Walk!Procs) /\ Distinct(ends) /\ Distinct(begins)
      /\ \A p \in Walk!Procs : SaidOf(ts, E, B, p)
  BY DEF WalkSaid
<1>7. \A p \in Walk!Procs : SweptOf(ts, E, B, e.at, p)
  BY DEF Swept
<1>8. q[1] \in DOMAIN ts => /\ o \in Walk!Procs /\ o[1] = q[1] /\ o[2] = ts[q[1]].started /\ IsOf(ts, o)
                            /\ (IsOf(ts, q) => o = q)
  <2>1. SUFFICES ASSUME q[1] \in DOMAIN ts
                 PROVE  /\ o \in Walk!Procs /\ o[1] = q[1] /\ o[2] = ts[q[1]].started /\ IsOf(ts, o)
                        /\ (IsOf(ts, q) => o = q)
    OBVIOUS
  <2>2. ts[q[1]].started \in 1 .. WalkStarts /\ q[1] \in Pids
    BY <1>2, <2>1 DEF WalkTracks
  <2> QED BY <2>1, <2>2 DEF Walk!Proc, Walk!Procs, IsOf
<1>9. ceases => q[1] \in DOMAIN ts
  BY <1>4 DEF IsOf
<1>10. Walk!Walking(k, e.at) => ~Walk!Pauses(k, e.at)
  BY <1>1, <1>4, WalkersGoOn
<1> HIDE DEF k, r, o
<1>11. ceases => o \notin E
  <2>1. SUFFICES ASSUME ceases, o \in E PROVE FALSE
    OBVIOUS
  <2>2. ~ts[o[1]].reported
    BY <1>7, <1>8, <1>9, <2>1 DEF SweptOf
  <2>3. ~ts[q[1]].reported
    BY <1>8, <1>9, <2>1, <2>2
  <2> QED BY <1>4, <2>1, <2>3
<1>12. walks => q \notin B
  <2>1. SUFFICES ASSUME walks, q \in B PROVE FALSE
    OBVIOUS
  <2>2. CASE IsOf(ts, q)
    <3>1. k.reported /\ Walk!Walking(k, e.at)
      BY <1>4, <1>7, <2>1, <2>2 DEF SweptOf
    <3> QED BY <1>5, <1>10, <2>1, <3>1
  <2>3. CASE ~IsOf(ts, q)
    <3>1. ~Past(q)
      BY <2>3 DEF Past
    <3> QED BY <1>6, <2>1, <2>3, <3>1 DEF SaidOf
  <2> QED BY <2>2, <2>3
<1> HIDE DEF ceases, walks
<1>13. /\ ended' \in Seq(Walk!Procs) /\ Distinct(ended')
       /\ \A x : x \in Walk!Range(ended') <=> (x \in E \/ (ceases /\ x = o))
  <2>1. CASE ceases
    <3>1. o \in Walk!Procs
      BY <1>8, <1>9, <2>1
    <3>2. /\ ends \o <<o>> \in Seq(Walk!Procs) /\ Distinct(ends \o <<o>>)
          /\ Walk!Range(ends \o <<o>>) = Walk!Range(ends) \cup {o}
      BY <1>6, <1>11, <2>1, <3>1, EntryAdded
    <3> QED BY <1>3, <2>1, <3>2
  <2>2. CASE ~ceases
    <3>1. ended' = ends
      BY <1>3, <1>6, <2>2
    <3> QED BY <1>6, <2>2, <3>1
  <2> QED BY <2>1, <2>2
<1>14. /\ begun' \in Seq(Walk!Procs) /\ Distinct(begun')
       /\ \A x : x \in Walk!Range(begun') <=> (x \in B \/ (walks /\ x = q))
  <2>1. CASE walks
    <3>1. /\ begins \o <<q>> \in Seq(Walk!Procs) /\ Distinct(begins \o <<q>>)
          /\ Walk!Range(begins \o <<q>>) = Walk!Range(begins) \cup {q}
      BY <1>6, <1>12, <2>1, EntryAdded
    <3> QED BY <1>3, <2>1, <3>1
  <2>2. CASE ~walks
    <3>1. begun' = begins
      BY <1>3, <1>6, <2>2
    <3> QED BY <1>6, <2>2, <3>1
  <2> QED BY <2>1, <2>2
<1>15. /\ DOMAIN tracks' = DOMAIN ts \cup {q[1]} /\ tracks'[q[1]] = r
       /\ \A p \in DOMAIN ts : p # q[1] => tracks'[p] = ts[p]
  BY <1>3 DEF Walk!With
<1> HIDE DEF E, B
<1>16. ASSUME NEW p \in Walk!Procs PROVE SaidOf(tracks', Walk!Range(ended'), Walk!Range(begun'), p)
  <2>1. said[p] \in Int
    OBVIOUS
  <2>2. CASE p = q /\ IsOf(ts, q)
    <3>1. IsOf(tracks', p) /\ tracks'[p[1]].reported = r.reported
      BY <1>5, <1>15, <2>2 DEF IsOf
    <3>2. o = q /\ (ceases <=> Walk!Pauses(k, e.at) /\ k.reported)
      BY <1>4, <1>8, <2>2 DEF ceases, IsOf
    <3>3. /\ p # goodbye /\ said[p] - One(p \in E) + One(p \in B) = One(k.reported)
      BY <1>4, <1>6, <2>2 DEF SaidOf
    <3>4. /\ p \in Walk!Range(ended') <=> (p \in E \/ ceases)
          /\ p \in Walk!Range(begun') <=> (p \in B \/ walks)
      BY <1>13, <1>14, <2>2, <3>2
    <3>5. (ceases => p \notin E) /\ (walks => p \notin B)
      BY <1>11, <1>12, <2>2, <3>2
    <3>6. /\ r.reported <=> ((k.reported /\ ~ceases) \/ walks)
          /\ ceases => k.reported
          /\ walks => ~(k.reported /\ ~ceases)
      BY <1>5, <3>2
    <3>7. said[p] - One(p \in Walk!Range(ended')) + One(p \in Walk!Range(begun')) = One(r.reported)
      <4>1. CASE ceases
        BY <2>1, <3>3, <3>4, <3>5, <3>6, <4>1 DEF One
      <4>2. CASE ~ceases
        BY <2>1, <3>3, <3>4, <3>5, <3>6, <4>2 DEF One
      <4> QED BY <4>1, <4>2
    <3> QED BY <3>1, <3>3, <3>7 DEF SaidOf
  <2>3. CASE p = q /\ ~IsOf(ts, q)
    <3>1. IsOf(tracks', p) /\ tracks'[p[1]].reported = r.reported
      BY <1>5, <1>15, <2>3 DEF IsOf
    <3>2. ~Past(p)
      BY <2>3 DEF Past
    <3>3. p # goodbye /\ p \notin B /\ said[p] = One(p \in E)
      BY <1>6, <2>3, <3>2 DEF SaidOf
    <3>4. ~(ceases /\ p = o) /\ (r.reported <=> walks)
      BY <1>4, <1>5, <1>8, <1>9, <2>3
    <3>5. /\ p \in Walk!Range(ended') <=> p \in E
          /\ p \in Walk!Range(begun') <=> walks
      BY <1>13, <1>14, <2>3, <3>3, <3>4
    <3>6. said[p] - One(p \in Walk!Range(ended')) + One(p \in Walk!Range(begun')) = One(r.reported)
      BY <2>1, <3>3, <3>4, <3>5 DEF One
    <3> QED BY <3>1, <3>3, <3>6 DEF SaidOf
  <2>4. CASE p # q /\ p[1] = q[1] /\ IsOf(ts, p)
    <3>1. p = o /\ ~IsOf(ts, q) /\ Walk!Supplants(ts, q)
      BY <1>4, <1>8, <2>4 DEF IsOf, Walk!Procs
    <3>2. ~IsOf(tracks', p)
      BY <1>5, <1>15, <2>4 DEF IsOf, Walk!Procs
    <3>3. Past(p)
      <4>1. gen[q[1]] = q[2] /\ p[2] # q[2]
        BY <2>4, <3>1 DEF Walk!Running, Walk!Procs
      <4>2. p[2] <= gen[p[1]]
        BY <1>2, <2>4 DEF IsOf
      <4> QED BY <2>4, <4>1, <4>2 DEF Past, Walk!Running
    <3>4. ceases <=> ts[p[1]].reported
      BY <1>4, <2>4, <3>1 DEF ceases
    <3>5. p # goodbye /\ said[p] - One(p \in E) + One(p \in B) = One(ts[p[1]].reported)
      BY <1>6, <2>4 DEF SaidOf
    <3>6. (p \in E => ~ts[p[1]].reported) /\ (p \in B => ts[p[1]].reported)
      BY <1>7, <2>4 DEF SweptOf
    <3>7. p \in Walk!Range(ended') <=> (p \in E \/ ceases)
      BY <1>13, <3>1
    <3>8. said[p] - One(p \in Walk!Range(ended')) - One(p = goodbye) \in {-1, 0}
      BY <2>1, <3>4, <3>5, <3>6, <3>7 DEF One
    <3> QED BY <3>2, <3>3, <3>8 DEF SaidOf
  <2>5. CASE p # q /\ ~(p[1] = q[1] /\ IsOf(ts, p))
    <3>1. (IsOf(tracks', p) <=> IsOf(ts, p)) /\ (IsOf(ts, p) => tracks'[p[1]] = ts[p[1]])
      BY <1>5, <1>15, <2>5 DEF IsOf, Walk!Procs
    <3>2. ~(ceases /\ p = o)
      BY <1>8, <1>9, <2>5
    <3>3. (p \in Walk!Range(ended') <=> p \in E) /\ (p \in Walk!Range(begun') <=> p \in B)
      BY <1>13, <1>14, <2>5, <3>2
    <3>4. One(p \in Walk!Range(ended')) = One(p \in E) /\ One(p \in Walk!Range(begun')) = One(p \in B)
      BY <3>3 DEF One
    <3> QED BY <1>6, <3>1, <3>3, <3>4 DEF SaidOf
  <2> QED BY <2>2, <2>3, <2>4, <2>5
<1> QED BY <1>13, <1>14, <1>16 DEF WalkSaid

\* What a sweep makes of one track.
LEMMA SettledIs ==
    ASSUME Walk!WalksAssumption, NEW now \in Walk!Times, NEW ts, \A p \in DOMAIN ts : ts[p] \in WalkTracks,
           NEW p \in DOMAIN ts
    PROVE  /\ Walk!Settled(ts, now)[p] \in WalkTracks
           /\ Walk!Settled(ts, now)[p].started = ts[p].started
           /\ Walk!Settled(ts, now)[p].open = ts[p].open
           /\ Walk!Settled(ts, now)[p].opened = ts[p].opened
           /\ Walk!Settled(ts, now)[p].reported <=> Walk!Walking(ts[p], now)
           /\ Walk!Walking(Walk!Settled(ts, now)[p], now) <=> Walk!Walking(ts[p], now)
           /\ Walk!Finished(Walk!Settled(ts, now)[p], now) <=> Walk!Finished(ts[p], now)
<1> DEFINE k == ts[p]
           w == IF p \in Walk!Ceases(ts, now) THEN FALSE ELSE k.reported \/ p \in Walk!Begins(ts, now)
           s == [k EXCEPT !.reported = w]
<1>1. k \in WalkTracks /\ k.reported \in BOOLEAN
  BY DEF WalkTracks
<1>2. w \in BOOLEAN /\ (w <=> Walk!Walking(k, now))
  BY <1>1 DEF Walk!Ceases, Walk!Begins
<1>3. Walk!Settled(ts, now)[p] = s
  BY DEF Walk!Settled
<1> HIDE DEF k, w
<1>4. s \in WalkTracks
  BY <1>1, <1>2 DEF WalkTracks
<1>5. /\ s.started = k.started /\ s.open = k.open /\ s.opened = k.opened /\ s.first = k.first
      /\ s.last = k.last /\ s.reported = w
  BY <1>1 DEF WalkTracks
<1> HIDE DEF s
<1>6. (Walk!Walking(s, now) <=> Walk!Walking(k, now)) /\ (Walk!Finished(s, now) <=> Walk!Finished(k, now))
  BY <1>5 DEF Walk!Walking, Walk!Held, Walk!Finished
<1> QED BY <1>2, <1>3, <1>4, <1>5, <1>6 DEF k

\* prune forgets what holds nothing and is no walk.
LEMMA FinishedIs ==
    ASSUME Walk!WalksAssumption, NEW k \in WalkTracks, NEW now \in Walk!Times, Walk!Finished(k, now)
    PROVE  k.open = 0 /\ ~Walk!Walking(k, now)
<1>1. k.last \in Int /\ now \in Int /\ Quiet \in Int /\ HeldDirs \in Nat \ {0}
  BY WalkConstants DEF WalkTracks, Walk!Times
<1>2. Walk!Since(now, k.last) \in Int
  BY <1>1 DEF Walk!Since
<1> QED BY <1>1, <1>2 DEF Walk!Walking, Walk!Finished, Walk!Held

\* The processes of a set of tracks, in some order.
LEMMA ListedAre ==
    ASSUME NEW ts, WalkPuts(ts, handles), NEW S, S \subseteq DOMAIN ts
    PROVE  /\ Walk!Listed(ts, S) \in Seq(Walk!Procs) /\ Distinct(Walk!Listed(ts, S))
           /\ \A p \in Walk!Procs : p \in Walk!Range(Walk!Listed(ts, S)) <=> (IsOf(ts, p) /\ p[1] \in S)
<1> DEFINE T == {Walk!Proc(ts, p) : p \in S}
<1>1. /\ IsFiniteSet(DOMAIN ts) /\ DOMAIN ts \subseteq Pids
      /\ \A p \in DOMAIN ts : ts[p].started \in 1 .. WalkStarts
  BY DEF WalkPuts, WalkTracks
<1>2. IsFiniteSet(S)
  BY <1>1, FS_Subset
<1>3. IsFiniteSet(T)
  <2> DEFINE f == [p \in S |-> Walk!Proc(ts, p)]
  <2>1. f \in Surjection(S, T)
    BY DEF Surjection
  <2> QED BY <1>2, <2>1, FS_Surjection
<1>4. T \subseteq Walk!Procs
  BY <1>1 DEF Walk!Proc, Walk!Procs
<1>5. \A p \in Walk!Procs : p \in T <=> (IsOf(ts, p) /\ p[1] \in S)
  BY <1>1 DEF Walk!Proc, Walk!Procs, IsOf
<1> HIDE DEF T
<1>6. /\ Walk!InSomeOrder(T) \in Seq(Walk!Procs) /\ Distinct(Walk!InSomeOrder(T)) /\ Walk!Range(Walk!InSomeOrder(T)) = T
  BY <1>3, <1>4, SetListed
<1>7. Walk!Listed(ts, S) = Walk!InSomeOrder(T)
  BY DEF Walk!Listed, T
<1> QED BY <1>5, <1>6, <1>7

\* A sweep says what begins and what ends, and leaves what is not over.
LEMMA Pruned ==
    ASSUME Walk!WalksAssumption, fhs \in Nat, said \in [Walk!Procs -> Int], NEW now \in Walk!Times, WalkPuts(tracks, handles),
           WalkSaid(tracks, <<>>, <<>>), Seen(tracks, walked)
    PROVE  /\ WalkPuts(Walk!PrunedTracks(now), handles)
           /\ WalkSaid(Walk!PrunedTracks(now), Walk!PruneEnds(now), Walk!PruneBegins(now))
           /\ Swept(Walk!PrunedTracks(now), Walk!PruneEnds(now), Walk!PruneBegins(now), now)
           /\ Seen(Walk!PrunedTracks(now), walked \cup Walk!Range(Walk!PruneBegins(now)))
           /\ \A n \in Nat : Before(tracks, handles, n) => Before(Walk!PrunedTracks(now), handles, n)
<1>1. CASE ~Walk!Due(now)
  <2>1. Walk!PrunedTracks(now) = tracks /\ Walk!PruneEnds(now) = <<>> /\ Walk!PruneBegins(now) = <<>>
    BY <1>1 DEF Walk!PrunedTracks, Walk!PruneEnds, Walk!PruneBegins
  <2>2. Walk!Range(<<>>) = {}
    BY DEF Walk!Range
  <2> QED BY <2>1, <2>2 DEF Swept, SweptOf, Seen
<1>2. CASE Walk!Due(now)
  <2> DEFINE st == Walk!Settled(tracks, now)
             ts == Walk!PrunedTracks(now)
             ends == Walk!PruneEnds(now)
             begins == Walk!PruneBegins(now)
  <2>1. /\ ts = Walk!Restrict(st, {p \in DOMAIN st : ~Walk!Finished(st[p], now)})
        /\ ends = Walk!Listed(tracks, Walk!Ceases(tracks, now)) /\ begins = Walk!Listed(tracks, Walk!Begins(tracks, now))
    BY <1>2 DEF Walk!PrunedTracks, Walk!PruneEnds, Walk!PruneBegins
  <2>2. DOMAIN st = DOMAIN tracks
    BY DEF Walk!Settled
  <2>3. /\ IsFiniteSet(DOMAIN tracks) /\ DOMAIN tracks \subseteq Pids
        /\ \A p \in DOMAIN tracks : /\ tracks[p] \in WalkTracks /\ tracks[p].opened <= fhs
                                    /\ tracks[p].started <= gen[p]
                                    /\ tracks[p].open = Cardinality(Of(handles, p))
        /\ DOMAIN handles \subseteq 1 .. fhs /\ \A f \in DOMAIN handles : handles[f] \in DOMAIN tracks
    BY DEF WalkPuts
  <2> HIDE DEF ts, ends, begins, st
  <2>4. ASSUME NEW p \in DOMAIN tracks
        PROVE  /\ st[p] \in WalkTracks /\ st[p].started = tracks[p].started /\ st[p].open = tracks[p].open
               /\ st[p].opened = tracks[p].opened
               /\ st[p].reported <=> Walk!Walking(tracks[p], now)
               /\ Walk!Walking(st[p], now) <=> Walk!Walking(tracks[p], now)
               /\ Walk!Finished(st[p], now) <=> Walk!Finished(tracks[p], now)
               /\ Walk!Finished(tracks[p], now) => tracks[p].open = 0 /\ ~Walk!Walking(tracks[p], now)
    BY <2>3, SettledIs, FinishedIs DEF st
  <2>5. /\ DOMAIN ts = {p \in DOMAIN tracks : ~Walk!Finished(tracks[p], now)}
        /\ \A p \in DOMAIN ts : ts[p] = st[p]
    BY <2>1, <2>2, <2>4 DEF Walk!Restrict
  <2>6. Walk!Ceases(tracks, now) \subseteq DOMAIN tracks /\ Walk!Begins(tracks, now) \subseteq DOMAIN tracks
    BY DEF Walk!Ceases, Walk!Begins
  <2>7. /\ ends \in Seq(Walk!Procs) /\ Distinct(ends) /\ begins \in Seq(Walk!Procs) /\ Distinct(begins)
        /\ \A p \in Walk!Procs : p \in Walk!Range(ends) <=> (IsOf(tracks, p) /\ p[1] \in Walk!Ceases(tracks, now))
        /\ \A p \in Walk!Procs : p \in Walk!Range(begins) <=> (IsOf(tracks, p) /\ p[1] \in Walk!Begins(tracks, now))
    BY <2>1, <2>6, ListedAre
  <2>8. WalkPuts(ts, handles)
    <3>1. IsFiniteSet(DOMAIN ts)
      BY <2>3, <2>5, FS_Subset
    <3>2. ASSUME NEW f \in DOMAIN handles PROVE handles[f] \in DOMAIN ts
      <4>1. f \in Of(handles, handles[f])
        BY DEF Of
      <4>2. tracks[handles[f]].open # 0
        BY <2>3, <4>1, HandlesFinite
      <4> QED BY <2>3, <2>4, <2>5, <4>2
    <3> QED BY <2>3, <2>4, <2>5, <3>1, <3>2 DEF WalkPuts
  <2>9. \A n \in Nat : Before(tracks, handles, n) => Before(ts, handles, n)
    BY <2>4, <2>5 DEF Before
  <2>10. ASSUME NEW p \in Walk!Procs
         PROVE  SaidOf(ts, Walk!Range(ends), Walk!Range(begins), p) /\ SweptOf(ts, Walk!Range(ends), Walk!Range(begins), now, p)
    <3>1. SaidOf(tracks, Walk!Range(<<>>), Walk!Range(<<>>), p)
      BY DEF WalkSaid
    <3>2. Walk!Range(<<>>) = {}
      BY DEF Walk!Range
    <3>3. said[p] \in Int
      OBVIOUS
    <3>4. CASE IsOf(tracks, p)
      <4>1. p[1] \in DOMAIN tracks /\ tracks[p[1]].reported \in BOOLEAN
        BY <2>3, <3>4 DEF IsOf, WalkTracks
      <4>2. p # goodbye /\ said[p] = One(tracks[p[1]].reported)
        BY <3>1, <3>2, <3>3, <3>4 DEF SaidOf, One
      <4>3. /\ p \in Walk!Range(ends) <=> (tracks[p[1]].reported /\ ~Walk!Walking(tracks[p[1]], now))
            /\ p \in Walk!Range(begins) <=> (~tracks[p[1]].reported /\ Walk!Walking(tracks[p[1]], now))
        BY <2>7, <3>4, <4>1 DEF Walk!Ceases, Walk!Begins
      <4>4. CASE IsOf(ts, p)
        <5>1. /\ ts[p[1]].reported <=> Walk!Walking(tracks[p[1]], now)
              /\ Walk!Walking(ts[p[1]], now) <=> Walk!Walking(tracks[p[1]], now)
          BY <2>4, <2>5, <4>1, <4>4 DEF IsOf
        <5>2. said[p] - One(p \in Walk!Range(ends)) + One(p \in Walk!Range(begins)) = One(ts[p[1]].reported)
          BY <4>2, <4>3, <5>1 DEF One
        <5> QED BY <4>2, <4>3, <4>4, <5>1, <5>2 DEF SaidOf, SweptOf
      <4>5. CASE ~IsOf(ts, p)
        <5>1. ~Walk!Walking(tracks[p[1]], now)
          BY <2>4, <2>5, <3>4, <4>1, <4>5 DEF IsOf
        <5>2. p \notin Walk!Range(begins) /\ said[p] = One(p \in Walk!Range(ends))
          BY <4>2, <4>3, <5>1 DEF One
        <5>3. said[p] - One(p \in Walk!Range(ends)) - One(p = goodbye) = 0
          BY <4>2, <5>2 DEF One
        <5> QED BY <4>2, <4>5, <5>2, <5>3 DEF SaidOf, SweptOf
      <4> QED BY <4>4, <4>5
    <3>5. CASE ~IsOf(tracks, p)
      <4>1. ~IsOf(ts, p)
        BY <2>4, <2>5, <3>5 DEF IsOf
      <4>2. p \notin Walk!Range(ends) /\ p \notin Walk!Range(begins)
        BY <2>7, <3>5
      <4>3. One(p \in Walk!Range(ends)) = One(p \in {})
        BY <4>2 DEF One
      <4> QED BY <3>1, <3>2, <3>5, <4>1, <4>2, <4>3 DEF SaidOf, SweptOf
    <3> QED BY <3>4, <3>5
  <2>11. Seen(ts, walked \cup Walk!Range(begins))
    <3>1. SUFFICES ASSUME NEW p \in DOMAIN ts, ts[p].reported, Walk!Proc(ts, p) \notin walked
                   PROVE  Walk!Proc(ts, p) \in Walk!Range(begins)
      BY DEF Seen
    <3>2. p \in DOMAIN tracks /\ Walk!Walking(tracks[p], now) /\ Walk!Proc(ts, p) = Walk!Proc(tracks, p)
      BY <2>4, <2>5, <3>1 DEF Walk!Proc
    <3>3. p \in Walk!Begins(tracks, now)
      BY <3>1, <3>2 DEF Seen, Walk!Begins
    <3>4. Walk!Proc(tracks, p) \in Walk!Procs /\ IsOf(tracks, Walk!Proc(tracks, p)) /\ Walk!Proc(tracks, p)[1] = p
      BY <2>3, <3>2 DEF Walk!Proc, Walk!Procs, IsOf, WalkTracks
    <3> QED BY <2>7, <3>2, <3>3, <3>4
  <2>12. WalkSaid(ts, ends, begins) /\ Swept(ts, ends, begins, now)
    BY <2>7, <2>10 DEF WalkSaid, Swept
  <2> QED BY <2>8, <2>9, <2>11, <2>12 DEF ts, ends, begins
<1> QED BY <1>1, <1>2

\* What is said still adds up when processes start and exit.
LEMMA SaidStays ==
    ASSUME said \in [Walk!Procs -> Int], WalkSaid(tracks, ended, begun),
           \A p \in Walk!Procs : Past(p) => Past(p)',
           UNCHANGED <<tracks, ended, begun, said, goodbye>>
    PROVE  WalkSaid(tracks, ended, begun)'
<1> DEFINE E == Walk!Range(ended)
           B == Walk!Range(begun)
<1>1. E' = E /\ B' = B /\ tracks' = tracks /\ said' = said /\ goodbye' = goodbye
  BY DEF Walk!Range
<1>2. \A p \in Walk!Procs : SaidOf(tracks, E, B, p)
  BY DEF WalkSaid
<1>3. ended' = ended /\ begun' = begun
  OBVIOUS
<1>4. ended \in Seq(Walk!Procs) /\ begun \in Seq(Walk!Procs) /\ Distinct(ended) /\ Distinct(begun)
  BY DEF WalkSaid
<1> HIDE DEF E, B
<1>5. ASSUME NEW p \in Walk!Procs PROVE SaidOf(tracks, E, B, p)'
  <2>1. IsOf(tracks, p)' <=> IsOf(tracks, p)
    BY <1>1 DEF IsOf
  <2>2. /\ One(p \in E)' = One(p \in E) /\ One(p \in B)' = One(p \in B) /\ said'[p] = said[p]
        /\ One(tracks[p[1]].reported)' = One(tracks[p[1]].reported) /\ One(p = goodbye)' = One(p = goodbye)
    BY <1>1 DEF One
  <2>3. CASE IsOf(tracks, p)
    BY <1>1, <1>2, <2>1, <2>2, <2>3 DEF SaidOf
  <2>4. CASE ~IsOf(tracks, p) /\ ~Past(p)
    <3>1. p # goodbye /\ p \notin B /\ said[p] = One(p \in E)
      BY <1>2, <2>4 DEF SaidOf
    <3>2. said[p] \in Int /\ One(p = goodbye) = 0 /\ One(p \in E) \in Int
      BY <3>1 DEF One
    <3>3. said[p] - One(p \in E) - One(p = goodbye) = 0
      BY <3>1, <3>2
    <3> QED BY <1>1, <2>1, <2>2, <2>4, <3>1, <3>3 DEF SaidOf
  <2>5. CASE ~IsOf(tracks, p) /\ Past(p)
    <3>1. said[p] - One(p \in E) - One(p = goodbye) \in {-1, 0} /\ Past(p)'
      BY <1>2, <2>5 DEF SaidOf
    <3> QED BY <1>1, <2>1, <2>2, <2>5, <3>1 DEF SaidOf
  <2> QED BY <2>3, <2>4, <2>5
<1> QED BY <1>3, <1>4, <1>5 DEF WalkSaid, Distinct, E, B

\* What is on its way still comes in order.
LEMMA OrderStays ==
    ASSUME WalkOrder, UNCHANGED <<walkQueue, event, fhs, tracks, handles>>
    PROVE  WalkOrder'
<1>1. \A e : Coming(e) => Coming(e)'
  BY DEF Coming, Before
<1> QED BY <1>1 DEF WalkOrder

\* A change among the processes.
LEMMA ProcessesKeep ==
    ASSUME Walk!WalksAssumption, WalkInv,
           UNCHANGED <<clock, holder, fhs, walkQueue, Walk!inner, Walk!thread, Walk!stop, said, signalled, walked>>,
           walkLive' \in [Pids -> BOOLEAN], gen' \in [Pids -> 0 .. WalkStarts],
           spare' \in [Spares -> Walk!Procs \cup {Walk!NoProc}],
           \A p \in Pids : gen[p] <= gen'[p], \A p \in Walk!Procs : Past(p) => Past(p)', Started'
    PROVE  WalkInv'
<1> USE DEF WalkInv, Walk!inner, Walk!thread, Walk!stop
<1>1. WalkTypes'
  BY DEF WalkTypes
<1>2. WalkPuts(tracks, handles)'
  <2>1. /\ IsFiniteSet(DOMAIN tracks) /\ DOMAIN tracks \subseteq Pids
        /\ \A p \in DOMAIN tracks : tracks[p] \in WalkTracks /\ tracks[p].opened <= fhs /\ tracks[p].started <= gen[p]
        /\ DOMAIN handles \subseteq 1 .. fhs
        /\ \A f \in DOMAIN handles : handles[f] \in DOMAIN tracks
        /\ \A p \in DOMAIN tracks : tracks[p].open = Cardinality(Of(handles, p))
    BY DEF WalkPuts
  <2>2. ASSUME NEW p \in DOMAIN tracks PROVE tracks[p].started <= gen'[p]
    <3>1. p \in Pids /\ tracks[p].started \in Int /\ gen[p] \in Int /\ gen'[p] \in Int
      BY <2>1 DEF WalkTracks, WalkTypes
    <3> QED BY <2>1, <3>1
  <2> QED BY <2>1, <2>2 DEF WalkPuts, Of
<1>3. WalkOrder'
  BY OrderStays
<1>4. WalkSaid(tracks, ended, begun)'
  BY SaidStays DEF WalkTypes
<1>5. event' # <<>> => Swept(tracks, ended, begun, event[1].at)'
  BY DEF Swept, SweptOf, IsOf, Walk!Walking, Walk!Held, Walk!Range
<1>6. Seen(tracks, walked)'
  BY DEF Seen, Walk!Proc
<1>7. Stops'
  <2>1. Stops /\ walked \subseteq Walk!Procs
    BY DEF WalkTypes
  <2>2. ASSUME stopping # <<>> PROVE stopping[1][2] <= gen'[stopping[1][1]] /\ (Past(stopping[1]) => Past(stopping[1])')
    <3>1. stopping[1] \in Walk!Procs /\ stopping[1][2] <= gen[stopping[1][1]]
      BY <2>1, <2>2 DEF Stops
    <3>2. /\ stopping[1][1] \in Pids /\ stopping[1][2] \in Int
          /\ \A x \in Pids : gen[x] \in Int /\ gen'[x] \in Int
      BY <3>1 DEF Walk!Procs, WalkTypes
    <3> QED BY <3>1, <3>2
  <2>3. goodbye # Walk!NoProc => goodbye \in Walk!Procs
    BY DEF WalkTypes
  <2> QED BY <2>1, <2>2, <2>3 DEF Stops
<1> QED BY <1>1, <1>2, <1>3, <1>4, <1>5, <1>6, <1>7

\* A process starts: the one that had the id is past.
LEMMA ProcessStarts ==
    ASSUME Walk!WalksAssumption, WalkInv, NEW p \in Pids, Walk!Starts(p) PROVE WalkInv'
<1>1. walkLive \in [Pids -> BOOLEAN] /\ gen \in [Pids -> 0 .. WalkStarts] /\ WalkStarts \in Nat
  BY WalkConstants DEF WalkInv, WalkTypes
<1>2. /\ ~walkLive[p] /\ gen[p] < WalkStarts /\ walkLive' = [walkLive EXCEPT ![p] = TRUE]
      /\ gen' = [gen EXCEPT ![p] = gen[p] + 1]
  BY DEF Walk!Starts
<1>3. walkLive' \in [Pids -> BOOLEAN] /\ gen' \in [Pids -> 0 .. WalkStarts] /\ \A x \in Pids : gen[x] <= gen'[x]
  BY <1>1, <1>2
<1>4. ASSUME NEW x \in Walk!Procs PROVE (Past(x) => Past(x)') /\ (Walk!Running(x) => Walk!Running(x)')
  <2>1. x[1] \in Pids /\ x[2] \in Int
    BY DEF Walk!Procs
  <2> QED BY <1>1, <1>2, <2>1 DEF Past, Walk!Running
<1>5. spare' = spare /\ spare \in [Spares -> Walk!Procs \cup {Walk!NoProc}] /\ Started
  BY DEF Walk!Starts, WalkInv, WalkTypes
<1>6. Started'
  BY <1>1, <1>2, <1>4, <1>5 DEF Started
<1> QED BY <1>3, <1>4, <1>5, <1>6, ProcessesKeep DEF Walk!Starts

\* A process exits, and its threads with it.
LEMMA ProcessExits ==
    ASSUME Walk!WalksAssumption, WalkInv, NEW p \in Pids, Walk!Exits(p) PROVE WalkInv'
<1>1. walkLive \in [Pids -> BOOLEAN] /\ gen \in [Pids -> 0 .. WalkStarts] /\ WalkStarts \in Nat
  BY WalkConstants DEF WalkInv, WalkTypes
<1>2. /\ walkLive' = [walkLive EXCEPT ![p] = FALSE] /\ gen' = gen
      /\ spare' = [t \in Spares |-> IF spare[t] = <<p, gen[p]>> THEN Walk!NoProc ELSE spare[t]]
  BY DEF Walk!Exits
<1>3. walkLive' \in [Pids -> BOOLEAN] /\ gen' \in [Pids -> 0 .. WalkStarts] /\ \A x \in Pids : gen[x] <= gen'[x]
  BY <1>1, <1>2
<1>4. ASSUME NEW x \in Walk!Procs PROVE (Past(x) => Past(x)') /\ (Walk!Running(x) /\ x # <<p, gen[p]>> => Walk!Running(x)')
  <2>1. x[1] \in Pids /\ x[2] \in Int /\ x = <<x[1], x[2]>>
    BY DEF Walk!Procs
  <2> QED BY <1>1, <1>2, <2>1 DEF Past, Walk!Running
<1>5. spare \in [Spares -> Walk!Procs \cup {Walk!NoProc}] /\ Started
  BY DEF WalkInv, WalkTypes
<1>6. spare' \in [Spares -> Walk!Procs \cup {Walk!NoProc}]
  BY <1>2, <1>5
<1>7. Started'
  <2>1. SUFFICES ASSUME NEW t \in Spares, spare'[t] # Walk!NoProc PROVE Walk!Running(spare[t])'
    BY <1>1, <1>2, <1>5 DEF Started
  <2>2. spare'[t] = spare[t] /\ spare[t] \in Walk!Procs /\ spare[t] # <<p, gen[p]>> /\ Walk!Running(spare[t])
    BY <1>2, <1>5, <2>1 DEF Started
  <2> QED BY <1>4, <2>2
<1> QED BY <1>3, <1>4, <1>6, <1>7, ProcessesKeep DEF Walk!Exits

\* A thread id goes to another process.
LEMMA ThreadMoves ==
    ASSUME Walk!WalksAssumption, WalkInv, NEW t \in Spares, Walk!Threads(t) PROVE WalkInv'
<1>1. walkLive \in [Pids -> BOOLEAN] /\ gen \in [Pids -> 0 .. WalkStarts] /\ walkLive' = walkLive /\ gen' = gen
  BY DEF WalkInv, WalkTypes, Walk!Threads
<1>2. spare \in [Spares -> Walk!Procs \cup {Walk!NoProc}] /\ Started
  BY DEF WalkInv, WalkTypes
<1>3. PICK p \in {Walk!NoProc} \cup {q \in Walk!Procs : Walk!Running(q)} : spare' = [spare EXCEPT ![t] = p]
  BY DEF Walk!Threads
<1>4. spare' \in [Spares -> Walk!Procs \cup {Walk!NoProc}]
  BY <1>2, <1>3
<1>5. ASSUME NEW x \in Walk!Procs PROVE (Past(x) => Past(x)') /\ (Walk!Running(x) => Walk!Running(x)')
  BY <1>1 DEF Past, Walk!Running
<1>6. Started'
  <2>1. SUFFICES ASSUME NEW s \in Spares, spare'[s] # Walk!NoProc PROVE Walk!Running(spare[s])'
    BY <1>1, <1>2 DEF Started
  <2>2. spare'[s] \in Walk!Procs /\ Walk!Running(spare'[s])
    BY <1>2, <1>3, <1>4, <2>1 DEF Started
  <2> QED BY <1>1, <2>2 DEF Walk!Running
<1>7. \A x \in Pids : gen[x] <= gen'[x]
  BY <1>1
<1> QED BY <1>1, <1>4, <1>5, <1>6, <1>7, ProcessesKeep DEF Walk!Threads

\* The process a thread belongs to is running.
LEMMA IdentifiedRuns ==
    ASSUME Walk!WalksAssumption, WalkTypes, Started, NEW t \in Walk!Tids, Walk!Identify(t) # Walk!NoProc
    PROVE  Walk!Identify(t) \in Walk!Procs /\ Walk!Running(Walk!Identify(t)) /\ Walk!Identify(t)[2] <= gen[Walk!Identify(t)[1]]
<1>1. gen \in [Pids -> 0 .. WalkStarts] /\ WalkStarts \in Nat /\ spare \in [Spares -> Walk!Procs \cup {Walk!NoProc}]
  BY WalkConstants DEF WalkTypes
<1>2. CASE t \in Pids
  <2>1. walkLive[t] /\ Walk!Identify(t) = <<t, gen[t]>> /\ gen[t] # 0
    BY <1>2 DEF Walk!Identify, Started
  <2>2. gen[t] \in 1 .. WalkStarts
    BY <1>1, <1>2, <2>1
  <2> QED BY <1>2, <2>1, <2>2 DEF Walk!Procs, Walk!Running
<1>3. CASE t \notin Pids
  <2>1. t \in Spares /\ Walk!Identify(t) = spare[t]
    BY <1>3 DEF Walk!Identify, Walk!Tids
  <2>2. spare[t] \in Walk!Procs /\ Walk!Running(spare[t])
    BY <1>1, <2>1 DEF Started
  <2>3. spare[t][1] \in Pids /\ spare[t][2] \in Int
    BY <2>2 DEF Walk!Procs
  <2> QED BY <2>1, <2>2, <2>3 DEF Walk!Running
<1> QED BY <1>2, <1>3

\* What is sent comes after what was sent.
LEMMA QueueGrows ==
    ASSUME WalkOrder, NEW e, walkQueue' = Append(walkQueue, e), UNCHANGED <<event, tracks, handles>>,
           fhs \in Nat, fhs' \in Nat, fhs <= fhs', Coming(e)', e.kind = "opened" => fhs < e.fh
    PROVE  WalkOrder'
<1>1. ASSUME NEW x, Coming(x) PROVE Coming(x)'
  <2>1. x.kind = "opened" => x.fh <= fhs /\ x.fh \in Nat
    BY <1>1 DEF Coming, WalkEvents, Walk!Fhs
  <2> QED BY <1>1, <2>1 DEF Coming, Before
<1>2. e \in WalkEvents
  BY DEF Coming
<1>3. /\ walkQueue \in Seq(WalkEvents) /\ \A i \in 1 .. Len(walkQueue) : Coming(walkQueue[i])
      /\ \A i, j \in 1 .. Len(walkQueue) :
           i < j /\ walkQueue[i].kind = "opened" /\ walkQueue[j].kind = "opened" => walkQueue[i].fh < walkQueue[j].fh
      /\ event \in Seq(WalkEvents) /\ Len(event) <= 1
      /\ event # <<>> =>
           /\ Coming(event[1]) /\ event[1].kind = "opened"
           /\ \A i \in 1 .. Len(walkQueue) : walkQueue[i].kind = "opened" => event[1].fh < walkQueue[i].fh
  BY DEF WalkOrder
<1>4. /\ walkQueue' \in Seq(WalkEvents) /\ Len(walkQueue') = Len(walkQueue) + 1 /\ Len(walkQueue) \in Nat
      /\ \A i \in 1 .. Len(walkQueue) : walkQueue'[i] = walkQueue[i]
      /\ walkQueue'[Len(walkQueue) + 1] = e
  BY <1>2, <1>3
<1>5. ASSUME NEW x, Coming(x), x.kind = "opened", e.kind = "opened" PROVE x.fh < e.fh
  <2>1. x.fh <= fhs /\ x.fh \in Nat /\ e.fh \in Nat
    BY <1>2, <1>5 DEF Coming, WalkEvents, Walk!Fhs
  <2> QED BY <1>5, <2>1
<1>6. \A i \in 1 .. Len(walkQueue') : i \in 1 .. Len(walkQueue) \/ i = Len(walkQueue) + 1
  BY <1>4
<1>7. ASSUME NEW i \in 1 .. Len(walkQueue') PROVE Coming(walkQueue[i])'
  <2>1. PICK x : x = walkQueue'[i]
    OBVIOUS
  <2>2. Coming(x)'
    BY <1>1, <1>3, <1>4, <1>6, <1>7, <2>1
  <2> QED BY <2>1, <2>2
<1>8. ASSUME NEW i \in 1 .. Len(walkQueue'), NEW j \in 1 .. Len(walkQueue'),
             i < j, walkQueue'[i].kind = "opened", walkQueue'[j].kind = "opened"
      PROVE  walkQueue'[i].fh < walkQueue'[j].fh
  <2>1. i \in 1 .. Len(walkQueue)
    BY <1>4, <1>8
  <2>2. CASE j \in 1 .. Len(walkQueue)
    BY <1>3, <1>4, <1>8, <2>1, <2>2
  <2>3. CASE j = Len(walkQueue) + 1
    BY <1>3, <1>4, <1>5, <1>8, <2>1, <2>3
  <2> QED BY <1>6, <2>2, <2>3
<1>9. ASSUME event' # <<>>
      PROVE  /\ Coming(event[1])' /\ event'[1].kind = "opened"
             /\ \A i \in 1 .. Len(walkQueue') : walkQueue'[i].kind = "opened" => event'[1].fh < walkQueue'[i].fh
  <2>1. event' = event /\ Coming(event[1]) /\ event[1].kind = "opened"
    BY <1>3, <1>9
  <2>2. ASSUME NEW i \in 1 .. Len(walkQueue'), walkQueue'[i].kind = "opened" PROVE event[1].fh < walkQueue'[i].fh
    <3>1. CASE i \in 1 .. Len(walkQueue)
      BY <1>3, <1>4, <1>9, <2>1, <2>2, <3>1
    <3>2. CASE i = Len(walkQueue) + 1
      BY <1>4, <1>5, <2>1, <2>2, <3>2
    <3> QED BY <1>6, <3>1, <3>2
  <2>3. Coming(event[1])'
    <3>1. PICK x : x = event[1]
      OBVIOUS
    <3> QED BY <1>1, <2>1, <3>1
  <2> QED BY <2>1, <2>2, <2>3
<1> QED BY <1>3, <1>4, <1>7, <1>8, <1>9 DEF WalkOrder

\* A step of the processes on the mount leaves the tracks and the sayings.
LEMMA MountKeeps ==
    ASSUME Walk!WalksAssumption, WalkInv,
           UNCHANGED <<clock, walkLive, gen, spare, Walk!inner, Walk!thread, Walk!stop, said, signalled, walked>>,
           holder' \in [Walk!Fhs -> Walk!Procs \cup {Walk!NoProc}], fhs' \in 0 .. MaxOpens, fhs <= fhs', WalkOrder'
    PROVE  WalkInv'
<1> USE DEF WalkInv, Walk!inner, Walk!thread, Walk!stop
<1>1. WalkTypes'
  BY DEF WalkTypes
<1>2. WalkPuts(tracks, handles)'
  <2>1. fhs \in Nat /\ fhs' \in Nat
    BY WalkConstants DEF WalkTypes
  <2>2. /\ IsFiniteSet(DOMAIN tracks) /\ DOMAIN tracks \subseteq Pids
        /\ \A p \in DOMAIN tracks : tracks[p] \in WalkTracks /\ tracks[p].opened <= fhs /\ tracks[p].started <= gen[p]
        /\ DOMAIN handles \subseteq 1 .. fhs
        /\ \A f \in DOMAIN handles : handles[f] \in DOMAIN tracks
        /\ \A p \in DOMAIN tracks : tracks[p].open = Cardinality(Of(handles, p))
    BY DEF WalkPuts
  <2>3. ASSUME NEW p \in DOMAIN tracks PROVE tracks[p].opened <= fhs'
    <3>1. tracks[p].opened \in Nat
      BY <2>2 DEF WalkTracks
    <3> QED BY <2>1, <2>2, <3>1
  <2>4. DOMAIN handles \subseteq 1 .. fhs'
    BY <2>1, <2>2
  <2> QED BY <2>2, <2>3, <2>4 DEF WalkPuts, Of
<1>3. Started'
  BY DEF Started, Walk!Running
<1>4. WalkSaid(tracks, ended, begun)'
  BY SaidStays DEF WalkTypes, Past, Walk!Running
<1>5. event' # <<>> => Swept(tracks, ended, begun, event[1].at)'
  BY DEF Swept, SweptOf, IsOf, Walk!Walking, Walk!Held, Walk!Range
<1>6. Seen(tracks, walked)'
  BY DEF Seen, Walk!Proc
<1>7. Stops'
  BY DEF Stops, Past, Walk!Running
<1> QED BY <1>1, <1>2, <1>3, <1>4, <1>5, <1>6, <1>7

\* opendir: its handle is newer than any sent before.
LEMMA DirectoryOpens ==
    ASSUME Walk!WalksAssumption, WalkInv, NEW t \in Walk!Tids, Walk!Opens(t) PROVE WalkInv'
<1>1. /\ Walk!Identify(t) \in Walk!Procs /\ fhs \in Nat /\ fhs + 1 \in 1 .. MaxOpens /\ clock \in Walk!Times
      /\ holder \in [Walk!Fhs -> Walk!Procs \cup {Walk!NoProc}] /\ WalkPuts(tracks, handles)
  BY IdentifiedRuns, WalkConstants DEF WalkInv, WalkTypes, Walk!Opens
<1>2. PICK e : e = Walk!Opened(fhs + 1, t)
  OBVIOUS
<1>3. e.fh = fhs + 1 /\ e.kind = "opened" /\ e.tid = t /\ e \in WalkEvents
  BY <1>1, <1>2 DEF Walk!Opened, WalkEvents, Walk!Fhs
<1>4. /\ walkQueue' = Append(walkQueue, e) /\ fhs' = fhs + 1 /\ holder' = [holder EXCEPT ![fhs + 1] = Walk!Identify(t)]
      /\ UNCHANGED <<clock, walkLive, gen, spare, Walk!inner, Walk!thread, Walk!stop, said, signalled, walked>>
  BY <1>2 DEF Walk!Opens
<1>5. Before(tracks, handles, fhs + 1)
  <2>1. ASSUME NEW p \in DOMAIN tracks PROVE tracks[p].opened < fhs + 1
    BY <1>1 DEF WalkPuts, WalkTracks
  <2>2. ASSUME NEW f \in DOMAIN handles PROVE f < fhs + 1
    BY <1>1 DEF WalkPuts
  <2> QED BY <2>1, <2>2 DEF Before
<1>6. Coming(e)'
  BY <1>1, <1>3, <1>4, <1>5 DEF Coming, Before, Walk!inner
<1>7. WalkOrder'
  <2>1. WalkOrder /\ UNCHANGED <<event, tracks, handles>> /\ fhs' \in Nat /\ fhs <= fhs' /\ fhs < e.fh
    BY <1>1, <1>3, <1>4 DEF WalkInv, Walk!inner, Walk!thread
  <2> QED BY <1>1, <1>4, <1>6, <2>1, QueueGrows
<1>8. holder' \in [Walk!Fhs -> Walk!Procs \cup {Walk!NoProc}] /\ fhs' \in 0 .. MaxOpens /\ fhs <= fhs'
  BY <1>1, <1>4 DEF Walk!Fhs
<1> QED BY <1>4, <1>7, <1>8, MountKeeps

\* releasedir.
LEMMA DirectoryCloses ==
    ASSUME Walk!WalksAssumption, WalkInv, NEW f \in Walk!Fhs, Walk!Closes(f) PROVE WalkInv'
<1>1. /\ fhs \in Nat /\ fhs \in 0 .. MaxOpens /\ holder \in [Walk!Fhs -> Walk!Procs \cup {Walk!NoProc}]
  BY WalkConstants DEF WalkInv, WalkTypes
<1>2. PICK e : e = Walk!Released(f)
  OBVIOUS
<1>3. e.kind = "released" /\ e \in WalkEvents
  <2>1. 0 \in Walk!Times
    BY WalkConstants DEF Walk!Times
  <2> QED BY <1>2, <2>1 DEF Walk!Released, WalkEvents
<1>4. /\ walkQueue' = Append(walkQueue, e) /\ fhs' = fhs /\ holder' = [holder EXCEPT ![f] = Walk!NoProc]
      /\ UNCHANGED <<clock, walkLive, gen, spare, Walk!inner, Walk!thread, Walk!stop, said, signalled, walked>>
  BY <1>2 DEF Walk!Closes
<1>5. Coming(e)' /\ e.kind # "opened"
  BY <1>3 DEF Coming
<1>6. WalkOrder'
  <2>1. WalkOrder /\ UNCHANGED <<event, tracks, handles>> /\ fhs' \in Nat /\ fhs <= fhs'
    BY <1>1, <1>4 DEF WalkInv, Walk!inner, Walk!thread
  <2> QED BY <1>1, <1>4, <1>5, <2>1, QueueGrows
<1>7. holder' \in [Walk!Fhs -> Walk!Procs \cup {Walk!NoProc}] /\ fhs <= fhs'
  BY <1>1, <1>4
<1> QED BY <1>1, <1>4, <1>6, <1>7, MountKeeps

\* What does not touch the tracks, the queue and the processes keeps what is said of them.
LEMMA TracksKeep ==
    ASSUME WalkInv, UNCHANGED <<Walk!world, walkQueue, Walk!inner, event, walked>>
    PROVE  WalkPuts(tracks, handles)' /\ WalkOrder' /\ Started' /\ Seen(tracks, walked)'
<1> USE DEF WalkInv, Walk!world, Walk!inner
<1>1. WalkPuts(tracks, handles)'
  BY DEF WalkPuts, Of
<1>2. WalkOrder'
  BY OrderStays
<1>3. Started'
  BY DEF Started, Walk!Running
<1>4. Seen(tracks, walked)'
  BY DEF Seen, Walk!Proc
<1> QED BY <1>1, <1>2, <1>3, <1>4

\* The clock.
LEMMA TimePasses ==
    ASSUME Walk!WalksAssumption, WalkInv, Walk!Tick \/ UNCHANGED Walk!vars PROVE WalkInv'
<1> USE DEF WalkInv, Walk!vars, Walk!world, Walk!inner, Walk!thread, Walk!stop
<1>1. /\ UNCHANGED <<Walk!world, walkQueue, Walk!inner, Walk!thread, Walk!stop, said, signalled, walked>>
      /\ clock' \in Walk!Times
  BY WalkConstants DEF Walk!Tick, WalkTypes, Walk!Times
<1>2. WalkTypes'
  BY <1>1 DEF WalkTypes
<1>3. WalkPuts(tracks, handles)' /\ WalkOrder' /\ Started' /\ Seen(tracks, walked)'
  BY <1>1, TracksKeep
<1>4. WalkSaid(tracks, ended, begun)'
  BY <1>1, SaidStays DEF WalkTypes, Past, Walk!Running
<1>5. event' # <<>> => Swept(tracks, ended, begun, event[1].at)'
  BY <1>1 DEF Swept, SweptOf, IsOf, Walk!Walking, Walk!Held, Walk!Range
<1>6. Stops'
  BY <1>1 DEF Stops, Past, Walk!Running
<1> QED BY <1>2, <1>3, <1>4, <1>5, <1>6

\* stop_at reads a walker that was reported, so one that has been seen walking.
LEMMA StopAsked ==
    ASSUME Walk!WalksAssumption, WalkInv, NEW p \in Pids, Walk!Asked(p) PROVE WalkInv'
<1> USE DEF WalkInv, Walk!world, Walk!inner, Walk!thread, Walk!stop
<1> DEFINE q == Walk!Proc(tracks, p)
<1>1. /\ UNCHANGED <<clock, Walk!world, walkQueue, Walk!inner, Walk!thread, goodbye, said, signalled, walked>>
      /\ stopping' = <<q, "read">> /\ goodbye = Walk!NoProc /\ p \in DOMAIN tracks /\ tracks[p].reported
  BY DEF Walk!Asked
<1>2. q \in walked /\ q[1] = p /\ q[2] <= gen[p] /\ q \in Walk!Procs
  BY <1>1 DEF Seen, WalkPuts, Walk!Proc, WalkTypes
<1> HIDE DEF q
<1>3. WalkTypes'
  BY <1>1, <1>2 DEF WalkTypes
<1>4. WalkPuts(tracks, handles)' /\ WalkOrder' /\ Started' /\ Seen(tracks, walked)'
  BY <1>1, TracksKeep
<1>5. WalkSaid(tracks, ended, begun)'
  BY <1>1, SaidStays DEF WalkTypes, Past, Walk!Running
<1>6. event' # <<>> => Swept(tracks, ended, begun, event[1].at)'
  BY <1>1 DEF Swept, SweptOf, IsOf, Walk!Walking, Walk!Held, Walk!Range
<1>7. Stops'
  BY <1>1, <1>2 DEF Stops
<1> QED BY <1>3, <1>4, <1>5, <1>6, <1>7

\* terminate: the process that was read is signalled, or it is past.
LEMMA StopSignals ==
    ASSUME Walk!WalksAssumption, WalkInv, Walk!Terminates PROVE WalkInv'
<1> USE DEF WalkInv, Walk!world, Walk!inner, Walk!thread, Walk!stop
<1> DEFINE q == stopping[1]
<1>1. /\ UNCHANGED <<clock, Walk!world, walkQueue, Walk!inner, Walk!thread, goodbye, said, walked>>
      /\ stopping # <<>> /\ q \in walked /\ q[2] <= gen[q[1]] /\ goodbye = Walk!NoProc
      /\ stopping \in Walk!Procs \X {"read", "gone"} /\ q \in Walk!Procs /\ q # Walk!NoProc /\ signalled \subseteq walked
  BY DEF Walk!Terminates, Stops, WalkTypes, Walk!Procs, Walk!NoProc
<1>2. \/ stopping' = <<q, "gone">> /\ ~Walk!Running(q) /\ signalled' = signalled
      \/ stopping' = <<>> /\ signalled' = signalled \cup {q}
  BY <1>1 DEF Walk!Terminates, Walk!Names
<1> HIDE DEF q
<1>3. WalkTypes'
  BY <1>1, <1>2 DEF WalkTypes
<1>4. WalkPuts(tracks, handles)' /\ WalkOrder' /\ Started' /\ Seen(tracks, walked)'
  BY <1>1, TracksKeep
<1>5. WalkSaid(tracks, ended, begun)'
  BY <1>1, SaidStays DEF WalkTypes, Past, Walk!Running
<1>6. event' # <<>> => Swept(tracks, ended, begun, event[1].at)'
  BY <1>1 DEF Swept, SweptOf, IsOf, Walk!Walking, Walk!Held, Walk!Range
<1>7. Stops'
  <2>1. CASE stopping' = <<q, "gone">> /\ ~Walk!Running(q) /\ signalled' = signalled
    BY <1>1, <2>1 DEF Stops, Past, Walk!Running
  <2>2. CASE stopping' = <<>> /\ signalled' = signalled \cup {q}
    BY <1>1, <2>2 DEF Stops
  <2> QED BY <1>2, <2>1, <2>2
<1> QED BY <1>3, <1>4, <1>5, <1>6, <1>7

\* The end stop_at has to say is of a walk no track is left of.
LEMMA GoodbyeSaid ==
    ASSUME Walk!WalksAssumption, WalkInv, Walk!SaysGoodbye PROVE WalkInv'
<1> USE DEF WalkInv, Walk!world, Walk!inner, Walk!thread, Walk!stop
<1> DEFINE E == Walk!Range(ended)
           B == Walk!Range(begun)
<1>1. /\ UNCHANGED <<clock, Walk!world, walkQueue, Walk!inner, Walk!thread, stopping, signalled, walked>>
      /\ goodbye # Walk!NoProc /\ goodbye' = Walk!NoProc /\ goodbye \in Walk!Procs
      /\ said' = [said EXCEPT ![goodbye] = said[goodbye] - 1]
  BY DEF Walk!SaysGoodbye, WalkTypes
<1>2. Past(goodbye) /\ stopping = <<>> /\ signalled \subseteq walked
  BY <1>1 DEF Stops
<1>3. /\ E' = E /\ B' = B /\ tracks' = tracks /\ said \in [Walk!Procs -> -1 .. 1]
      /\ \A p \in Walk!Procs : SaidOf(tracks, E, B, p)
  BY <1>1 DEF WalkSaid, WalkTypes
<1> HIDE DEF E, B
<1>4. ASSUME NEW p \in Walk!Procs PROVE SaidOf(tracks, E, B, p)' /\ said'[p] \in -1 .. 1
  <2>1. /\ IsOf(tracks, p)' <=> IsOf(tracks, p)
        /\ Past(p)' <=> Past(p)
        /\ One(p \in E)' = One(p \in E) /\ One(p \in B)' = One(p \in B)
        /\ One(tracks[p[1]].reported)' = One(tracks[p[1]].reported) /\ One(p = goodbye)' = 0 /\ p # goodbye'
    BY <1>1, <1>3 DEF IsOf, One, Past, Walk!Running, Walk!NoProc, Walk!Procs
  <2>2. said[p] \in Int /\ One(p \in E) \in {0, 1}
    BY <1>3 DEF One
  <2>3. CASE p = goodbye
    <3>1. ~IsOf(tracks, p) /\ Past(p)
      BY <1>2, <1>3, <2>3 DEF SaidOf
    <3>2. said[p] - One(p \in E) - One(p = goodbye) \in {-1, 0} /\ One(p = goodbye) = 1
      BY <1>3, <2>3, <3>1 DEF SaidOf, One
    <3>3. said'[p] = said[p] - 1
      BY <1>1, <1>3, <2>3
    <3>4. said'[p] - One(p \in E) - 0 \in {-1, 0} /\ said'[p] \in -1 .. 1
      BY <2>2, <3>2, <3>3
    <3> QED BY <1>3, <2>1, <3>1, <3>4 DEF SaidOf
  <2>4. CASE p # goodbye
    <3>1. said'[p] = said[p] /\ One(p = goodbye) = 0
      BY <1>1, <1>3, <2>4 DEF One
    <3> QED BY <1>3, <2>1, <2>4, <3>1 DEF SaidOf
  <2> QED BY <2>3, <2>4
<1>5. said' \in [Walk!Procs -> -1 .. 1]
  BY <1>1, <1>3, <1>4
<1>6. WalkTypes'
  BY <1>1, <1>5 DEF WalkTypes
<1>7. WalkPuts(tracks, handles)' /\ WalkOrder' /\ Started' /\ Seen(tracks, walked)'
  BY <1>1, TracksKeep
<1>8. WalkSaid(tracks, ended, begun)'
  BY <1>1, <1>4 DEF WalkSaid, Distinct, E, B
<1>9. event' # <<>> => Swept(tracks, ended, begun, event[1].at)'
  BY <1>1 DEF Swept, SweptOf, IsOf, Walk!Walking, Walk!Held, Walk!Range
<1>10. Stops'
  BY <1>1, <1>2 DEF Stops
<1> QED BY <1>6, <1>7, <1>8, <1>9, <1>10

\* announce: the ends, then the starts.
LEMMA NewsSaid ==
    ASSUME Walk!WalksAssumption, WalkInv, Walk!Says PROVE WalkInv'
<1> USE DEF WalkInv, Walk!world, Walk!inner, Walk!thread, Walk!stop
<1> DEFINE E == Walk!Range(ended)
           B == Walk!Range(begun)
<1>1. /\ UNCHANGED <<clock, Walk!world, walkQueue, Walk!inner, event, Walk!stop, signalled, walked>> /\ event = <<>>
  BY DEF Walk!Says
<1>2. /\ ended \in Seq(Walk!Procs) /\ begun \in Seq(Walk!Procs) /\ Distinct(ended) /\ Distinct(begun)
      /\ said \in [Walk!Procs -> -1 .. 1] /\ \A p \in Walk!Procs : SaidOf(tracks, E, B, p)
  BY DEF WalkSaid, WalkTypes
<1>3. ASSUME NEW p \in Walk!Procs
      PROVE  /\ IsOf(tracks, p)' <=> IsOf(tracks, p)
             /\ Past(p)' <=> Past(p)
             /\ One(tracks[p[1]].reported)' = One(tracks[p[1]].reported) /\ One(p = goodbye)' = One(p = goodbye)
             /\ One(p \in E) \in {0, 1} /\ One(p \in B) \in {0, 1} /\ One(tracks[p[1]].reported) \in {0, 1}
             /\ One(p = goodbye) \in {0, 1} /\ said[p] \in Int /\ goodbye' = goodbye
  BY <1>1, <1>2 DEF IsOf, One, Past, Walk!Running
<1>4. WalkSaid(tracks, ended, begun)' /\ said' \in [Walk!Procs -> -1 .. 1]
  <2>1. CASE ended # <<>> /\ ended' = Tail(ended) /\ begun' = begun
             /\ said' = [said EXCEPT ![Head(ended)] = said[Head(ended)] - 1]
    <3> DEFINE h == Head(ended)
    <3>1. /\ ended' \in Seq(Walk!Procs) /\ Distinct(ended') /\ Walk!Range(ended') = E \ {h} /\ h \in Walk!Procs /\ h \in E
      BY <1>2, <2>1, HeadGone
    <3>2. Walk!Range(begun') = B /\ said' = [said EXCEPT ![h] = said[h] - 1]
      BY <2>1
    <3> HIDE DEF h, E, B
    <3>3. ASSUME NEW p \in Walk!Procs PROVE SaidOf(tracks, Walk!Range(ended), Walk!Range(begun), p)' /\ said'[p] \in -1 .. 1
      <4>1. SaidOf(tracks, E, B, p) /\ said[p] \in -1 .. 1
        BY <1>2
      <4>2. CASE p = h
        <5>1. p \in E /\ p \notin Walk!Range(ended') /\ said'[p] = said[p] - 1
          BY <1>2, <3>1, <3>2, <4>2
        <5>2. One(p \in E) = 1 /\ One(p \in Walk!Range(ended')) = 0 /\ One(p \in Walk!Range(begun')) = One(p \in B)
          BY <3>2, <5>1 DEF One
        <5>3. CASE IsOf(tracks, p)
          <6>1. p # goodbye /\ said[p] - 1 + One(p \in B) = One(tracks[p[1]].reported)
            BY <4>1, <5>2, <5>3 DEF SaidOf
          <6>2. said'[p] - 0 + One(p \in B) = One(tracks[p[1]].reported) /\ said'[p] \in -1 .. 1
            BY <1>3, <5>1, <6>1
          <6> QED BY <1>3, <5>2, <5>3, <6>1, <6>2 DEF SaidOf
        <5>4. CASE ~IsOf(tracks, p) /\ ~Past(p)
          <6>1. p # goodbye /\ p \notin B /\ said[p] = 1
            BY <4>1, <5>2, <5>4 DEF SaidOf
          <6>2. said'[p] = 0
            BY <5>1, <6>1
          <6> QED BY <1>3, <3>2, <5>2, <5>4, <6>1, <6>2 DEF SaidOf
        <5>5. CASE ~IsOf(tracks, p) /\ Past(p)
          <6>1. said[p] - 1 - One(p = goodbye) \in {-1, 0}
            BY <4>1, <5>2, <5>5 DEF SaidOf
          <6>2. said'[p] - 0 - One(p = goodbye) \in {-1, 0} /\ said'[p] \in -1 .. 1
            BY <1>3, <5>1, <6>1
          <6> QED BY <1>3, <5>2, <5>5, <6>2 DEF SaidOf
        <5> QED BY <5>3, <5>4, <5>5
      <4>3. CASE p # h
        <5>1. said'[p] = said[p] /\ One(p \in Walk!Range(ended')) = One(p \in E) /\ One(p \in Walk!Range(begun')) = One(p \in B)
          BY <1>2, <3>1, <3>2, <4>3 DEF One
        <5> QED BY <1>3, <3>2, <4>1, <5>1 DEF SaidOf
      <4> QED BY <4>2, <4>3
    <3>4. said' \in [Walk!Procs -> -1 .. 1]
      <4>1. DOMAIN said' = Walk!Procs /\ said' = [p \in Walk!Procs |-> said'[p]]
        BY <1>2, <3>2
      <4> QED BY <3>3, <4>1
    <3> QED BY <1>2, <2>1, <3>1, <3>3, <3>4 DEF WalkSaid, Distinct
  <2>2. CASE ended = <<>> /\ begun # <<>> /\ begun' = Tail(begun) /\ ended' = ended
    <3> DEFINE h == Head(begun)
    <3>1. /\ begun' \in Seq(Walk!Procs) /\ Distinct(begun') /\ Walk!Range(begun') = B \ {h} /\ h \in Walk!Procs /\ h \in B
      BY <1>2, <2>2, HeadGone
    <3>2. Walk!Range(ended') = E /\ E = {}
      BY <2>2 DEF Walk!Range
    <3>3. said' = IF IsOf(tracks, h) THEN [said EXCEPT ![h] = said[h] + 1] ELSE said
      BY <2>2 DEF Walk!Says, IsOf
    <3> HIDE DEF h, E, B
    <3>4. ASSUME NEW p \in Walk!Procs PROVE SaidOf(tracks, Walk!Range(ended), Walk!Range(begun), p)' /\ said'[p] \in -1 .. 1
      <4>1. SaidOf(tracks, E, B, p) /\ said[p] \in -1 .. 1
        BY <1>2
      <4>2. One(p \in E) = 0 /\ One(p \in Walk!Range(ended')) = 0
        BY <3>2 DEF One
      <4>3. CASE p = h /\ IsOf(tracks, p)
        <5>1. One(p \in B) = 1 /\ One(p \in Walk!Range(begun')) = 0 /\ said'[p] = said[p] + 1
          BY <1>2, <3>1, <3>3, <4>3 DEF One
        <5>2. p # goodbye /\ said[p] - 0 + 1 = One(tracks[p[1]].reported)
          BY <4>1, <4>2, <4>3, <5>1 DEF SaidOf
        <5>3. said'[p] - 0 + 0 = One(tracks[p[1]].reported) /\ said'[p] \in -1 .. 1
          BY <1>3, <5>1, <5>2
        <5> QED BY <1>3, <4>2, <4>3, <5>1, <5>2, <5>3 DEF SaidOf
      <4>4. CASE p = h /\ ~IsOf(tracks, p)
        <5>1. said'[p] = said[p] /\ p \notin Walk!Range(begun')
          BY <3>1, <3>3, <4>4
        <5> QED BY <1>3, <4>1, <4>2, <4>4, <5>1, <3>2 DEF SaidOf
      <4>5. CASE p # h
        <5>1. said'[p] = said[p] /\ One(p \in Walk!Range(begun')) = One(p \in B)
          BY <1>2, <3>1, <3>3, <4>5 DEF One
        <5> QED BY <1>3, <3>1, <3>2, <4>1, <4>2, <4>5, <5>1 DEF SaidOf
      <4> QED BY <4>3, <4>4, <4>5
    <3>5. said' \in [Walk!Procs -> -1 .. 1]
      <4>1. CASE IsOf(tracks, h)
        <5>1. DOMAIN said' = Walk!Procs /\ said' = [p \in Walk!Procs |-> said'[p]]
          BY <1>2, <3>3, <4>1
        <5> QED BY <3>4, <5>1
      <4>2. CASE ~IsOf(tracks, h)
        BY <1>2, <3>3, <4>2
      <4> QED BY <4>1, <4>2
    <3> QED BY <1>2, <2>2, <3>1, <3>4, <3>5 DEF WalkSaid, Distinct
  <2> QED BY <2>1, <2>2 DEF Walk!Says
<1>5. WalkTypes'
  BY <1>1, <1>4 DEF WalkTypes
<1>6. WalkPuts(tracks, handles)' /\ WalkOrder' /\ Started' /\ Seen(tracks, walked)'
  BY <1>1, TracksKeep
<1>7. event' = <<>>
  BY <1>1
<1>8. Stops'
  BY <1>1 DEF Stops, Past, Walk!Running
<1> QED BY <1>4, <1>5, <1>6, <1>7, <1>8

\* Whose threads are known, and when that was asked.
Known(ths) == \A t \in DOMAIN ths : t \in Walk!Tids /\ ths[t].of \in Walk!Procs /\ ths[t].at \in Walk!Times

\* The first of the queue is taken.
LEMMA HeadTaken ==
    ASSUME WalkOrder, NEW h, h = Head(walkQueue), walkQueue # <<>>, walkQueue' = Tail(walkQueue), fhs' = fhs,
           event' = <<>> \/ (event' = <<h>> /\ h.kind = "opened" /\ Coming(h)'),
           \A n \in Nat : Before(tracks, handles, n) /\ (h.kind = "opened" => h.fh < n)
                            => Before(tracks, handles, n)'
    PROVE  WalkOrder'
<1>1. /\ walkQueue \in Seq(WalkEvents) /\ \A i \in 1 .. Len(walkQueue) : Coming(walkQueue[i])
      /\ \A i, j \in 1 .. Len(walkQueue) :
           i < j /\ walkQueue[i].kind = "opened" /\ walkQueue[j].kind = "opened" => walkQueue[i].fh < walkQueue[j].fh
  BY DEF WalkOrder
<1>2. /\ walkQueue' \in Seq(WalkEvents) /\ Len(walkQueue') = Len(walkQueue) - 1 /\ Len(walkQueue) \in Nat \ {0} /\ h = walkQueue[1]
      /\ \A i \in 1 .. Len(walkQueue') : walkQueue'[i] = walkQueue[i + 1]
  BY <1>1
<1>3. ASSUME NEW i \in 1 .. Len(walkQueue')
      PROVE  /\ i + 1 \in 1 .. Len(walkQueue) /\ 1 < i + 1 /\ walkQueue'[i] = walkQueue[i + 1] /\ Coming(walkQueue[i])'
             /\ h.kind = "opened" /\ walkQueue'[i].kind = "opened" => h.fh < walkQueue'[i].fh
  <2>1. i + 1 \in 1 .. Len(walkQueue) /\ 1 < i + 1 /\ walkQueue'[i] = walkQueue[i + 1] /\ 1 \in 1 .. Len(walkQueue)
    BY <1>2
  <2>2. h.kind = "opened" /\ walkQueue'[i].kind = "opened" => h.fh < walkQueue'[i].fh
    BY <1>1, <1>2, <2>1
  <2>3. PICK x : x = walkQueue'[i]
    OBVIOUS
  <2>4. Coming(x)
    BY <1>1, <2>1, <2>3
  <2>5. Coming(x)'
    <3>1. x.kind = "opened" => x.fh \in Nat
      BY <2>4 DEF Coming, WalkEvents, Walk!Fhs
    <3> QED BY <2>2, <2>3, <2>4, <3>1 DEF Coming
  <2> QED BY <2>1, <2>2, <2>3, <2>5
<1>4. ASSUME NEW i \in 1 .. Len(walkQueue'), NEW j \in 1 .. Len(walkQueue'),
             i < j, walkQueue'[i].kind = "opened", walkQueue'[j].kind = "opened"
      PROVE  walkQueue'[i].fh < walkQueue'[j].fh
  <2>1. i + 1 < j + 1 /\ i + 1 \in 1 .. Len(walkQueue) /\ j + 1 \in 1 .. Len(walkQueue)
    BY <1>3, <1>4
  <2> QED BY <1>1, <1>3, <1>4, <2>1
<1>5. CASE event' = <<>>
  BY <1>2, <1>3, <1>4, <1>5 DEF WalkOrder
<1>6. CASE event' = <<h>> /\ h.kind = "opened" /\ Coming(h)'
  <2>1. event' \in Seq(WalkEvents) /\ Len(event') = 1 /\ event'[1] = h /\ event' # <<>>
    BY <1>6 DEF Coming
  <2>2. Coming(event[1])'
    BY <1>6, <2>1 DEF Coming
  <2> QED BY <1>2, <1>3, <1>4, <1>6, <2>1, <2>2 DEF WalkOrder
<1> QED BY <1>5, <1>6

\* The open that was looked into is done with.
LEMMA EventDone ==
    ASSUME WalkOrder, UNCHANGED <<walkQueue, fhs>>, event' = event \/ event' = <<>>,
           \A n \in Nat : Before(tracks, handles, n) /\ (event # event' => event[1].fh < n)
                            => Before(tracks, handles, n)'
    PROVE  WalkOrder'
<1>1. \A i \in 1 .. Len(walkQueue) : Coming(walkQueue[i])
  BY DEF WalkOrder
<1>2. event # <<>> => /\ Coming(event[1]) /\ event[1].kind = "opened"
                      /\ \A i \in 1 .. Len(walkQueue) : walkQueue[i].kind = "opened" => event[1].fh < walkQueue[i].fh
  BY DEF WalkOrder
<1>3. ASSUME NEW i \in 1 .. Len(walkQueue) PROVE Coming(walkQueue[i])'
  <2>1. PICK x : x = walkQueue[i]
    OBVIOUS
  <2>2. Coming(x) /\ (x.kind = "opened" => x.fh \in Nat)
    BY <1>1, <2>1 DEF Coming, WalkEvents, Walk!Fhs
  <2>3. x.kind = "opened" /\ event # event' => event[1].fh < x.fh
    BY <1>2, <2>1
  <2>4. Coming(x)'
    BY <2>2, <2>3 DEF Coming
  <2> QED BY <2>1, <2>4
<1>4. CASE event' = <<>>
  BY <1>3, <1>4 DEF WalkOrder
<1>5. CASE event' = event /\ event # <<>>
  <2>1. PICK x : x = event[1]
    OBVIOUS
  <2>2. Coming(x) /\ (x.kind = "opened" => x.fh \in Nat)
    BY <1>2, <1>5, <2>1 DEF Coming, WalkEvents, Walk!Fhs
  <2>3. Coming(x)'
    BY <1>5, <2>2 DEF Coming
  <2>4. Coming(event[1])'
    BY <1>5, <2>1, <2>3
  <2> QED BY <1>2, <1>3, <1>5, <2>4 DEF WalkOrder
<1> QED BY <1>4, <1>5

\* A step of the thread leaves the processes and stop_at.
LEMMA ThreadKeeps ==
    ASSUME Walk!WalksAssumption, WalkInv, UNCHANGED <<clock, Walk!world, said, signalled>>,
           stopping' \in {<<>>, stopping}, goodbye' \in {Walk!NoProc} \cup Walk!Procs,
           goodbye' # Walk!NoProc => Past(goodbye') /\ stopping' = <<>>,
           Known(threads'), pruned' \in Walk!Times \cup {MaxTime + 1},
           WalkPuts(tracks', handles'), WalkOrder', WalkSaid(tracks, ended, begun)',
           event' # <<>> => Swept(tracks', ended', begun', event'[1].at),
           Seen(tracks', walked'), walked \subseteq walked', walked' \subseteq Walk!Procs
    PROVE  WalkInv'
<1> USE DEF WalkInv, Walk!world
<1>1. WalkTypes'
  BY DEF WalkTypes, Known
<1>2. WalkPuts(tracks, handles)'
  BY DEF WalkPuts, Of
<1>3. Started'
  BY DEF Started, Walk!Running
<1>4. event' # <<>> => Swept(tracks, ended, begun, event[1].at)'
  BY DEF Swept, SweptOf, IsOf, Walk!Walking, Walk!Held, Walk!Range
<1>5. Seen(tracks, walked)'
  BY DEF Seen, Walk!Proc
<1>6. Stops'
  BY DEF Stops, Past, Walk!Running
<1> QED BY <1>1, <1>2, <1>3, <1>4, <1>5, <1>6

\* What is to be said, with nothing said yet.
LEMMA SaidAs ==
    ASSUME UNCHANGED <<walkLive, gen, said, goodbye>>, WalkSaid(tracks', ended', begun')
    PROVE  WalkSaid(tracks, ended, begun)'
<1> DEFINE E == Walk!Range(ended')
           B == Walk!Range(begun')
<1>1. /\ ended' \in Seq(Walk!Procs) /\ begun' \in Seq(Walk!Procs) /\ Distinct(ended') /\ Distinct(begun')
      /\ \A p \in Walk!Procs : SaidOf(tracks', E, B, p)
  BY DEF WalkSaid
<1>2. E = Walk!Range(ended)' /\ B = Walk!Range(begun)'
  BY DEF Walk!Range
<1> HIDE DEF E, B
<1>3. ASSUME NEW p \in Walk!Procs PROVE SaidOf(tracks, Walk!Range(ended), Walk!Range(begun), p)'
  <2>1. SaidOf(tracks', E, B, p)
    BY <1>1
  <2> QED BY <1>2, <2>1 DEF SaidOf, IsOf, Past, Walk!Running, One
<1> QED BY <1>1, <1>3 DEF WalkSaid, Distinct

\* record: what is reported has been seen walking.
LEMMA SeenRecorded ==
    ASSUME Walk!WalksAssumption, NEW ts, \A p \in DOMAIN ts : ts[p] \in WalkTracks, NEW q \in Walk!Procs,
           NEW e \in WalkEvents, NEW ends, NEW begins, begins \in Seq(Walk!Procs), begun' \in Seq(Walk!Procs),
           Seen(ts, walked \cup Walk!Range(begins)), Walk!Record(ts, q, e, ends, begins)
    PROVE  Seen(tracks', walked') /\ walked \subseteq walked' /\ (walked \subseteq Walk!Procs => walked' \subseteq Walk!Procs)
<1> DEFINE k == Walk!Base(ts, q, e.at)
           r == Ran(k, e.at)
           walks == RunStarts(k, e.at)
<1>1. e.at \in Walk!Times
  BY DEF WalkEvents
<1>2. /\ tracks' = Walk!With(ts, q[1], r)
      /\ walks => begun' = begins \o <<q>>
      /\ ~walks => begun' = begins \o <<>>
      /\ walked' = walked \cup Walk!Range(begun')
  BY RecordIs
<1>3. /\ k \in WalkTracks
      /\ IsOf(ts, q) => k = ts[q[1]]
      /\ ~IsOf(ts, q) => ~k.reported
  BY <1>1, BaseIs
<1>4. r.started = q[2] /\ (r.reported => k.reported \/ walks)
  <2>1. k.started = q[2]
    BY <1>1, BaseIs
  <2> QED BY <1>1, <1>3, <2>1, RunIs
<1> HIDE DEF k, r, walks
<1>5. Walk!Range(begins) \subseteq Walk!Range(begun') /\ (walks => q \in Walk!Range(begun'))
  <2>1. CASE walks
    <3>1. /\ Len(begun') = Len(begins) + 1 /\ Len(begins) \in Nat /\ begun'[Len(begins) + 1] = q
          /\ \A i \in 1 .. Len(begins) : begun'[i] = begins[i]
      BY <1>2, <2>1
    <3>2. 1 .. Len(begins) \subseteq 1 .. Len(begun') /\ Len(begins) + 1 \in 1 .. Len(begun')
      BY <3>1
    <3> QED BY <3>1, <3>2, MembersAre
  <2>2. CASE ~walks
    <3>1. begun' = begins
      BY <1>2, <2>2
    <3> QED BY <2>2, <3>1
  <2> QED BY <2>1, <2>2
<1>6. /\ DOMAIN tracks' = DOMAIN ts \cup {q[1]} /\ tracks'[q[1]] = r
      /\ \A p \in DOMAIN ts : p # q[1] => tracks'[p] = ts[p]
  BY <1>2 DEF Walk!With
<1>7. ASSUME NEW p \in DOMAIN tracks', tracks'[p].reported PROVE Walk!Proc(tracks', p) \in walked'
  <2>1. CASE p = q[1]
    <3>1. Walk!Proc(tracks', p) = q
      BY <1>4, <1>6, <2>1 DEF Walk!Proc, Walk!Procs
    <3>2. CASE walks
      BY <1>2, <1>5, <3>1, <3>2
    <3>3. CASE k.reported
      <4>1. IsOf(ts, q) /\ ts[q[1]].reported /\ Walk!Proc(ts, q[1]) = q
        BY <1>3, <3>3 DEF IsOf, Walk!Proc, Walk!Procs
      <4>2. q \in walked \cup Walk!Range(begins)
        BY <4>1 DEF Seen, IsOf
      <4> QED BY <1>2, <1>5, <3>1, <4>2
    <3> QED BY <1>4, <1>6, <1>7, <2>1, <3>2, <3>3
  <2>2. CASE p # q[1]
    <3>1. p \in DOMAIN ts /\ tracks'[p] = ts[p]
      BY <1>6, <2>2
    <3>2. Walk!Proc(ts, p) \in walked \cup Walk!Range(begins) /\ Walk!Proc(tracks', p) = Walk!Proc(ts, p)
      BY <1>7, <3>1 DEF Seen, Walk!Proc
    <3> QED BY <1>2, <1>5, <3>2
  <2> QED BY <2>1, <2>2
<1>8. Walk!Range(begun') \subseteq Walk!Procs
  BY MembersAre
<1> QED BY <1>2, <1>7, <1>8 DEF Seen

\* An open put down to the one that made it.
LEMMA OpenRecorded ==
    ASSUME Walk!WalksAssumption, WalkInv, UNCHANGED <<clock, Walk!world, Walk!stop, said, signalled>>, event' = <<>>,
           Known(threads'), pruned' \in Walk!Times \cup {MaxTime + 1},
           NEW ts, NEW ends, NEW begins, NEW e \in WalkEvents, NEW q \in Walk!Procs,
           WalkPuts(ts, handles), WalkSaid(ts, ends, begins), Swept(ts, ends, begins, e.at),
           Seen(ts, walked \cup Walk!Range(begins)), e.fh <= fhs, Before(ts, handles, e.fh),
           IsOf(ts, q) \/ Walk!Running(q), q[2] <= gen[q[1]], Walk!Record(ts, q, e, ends, begins),
           (\A n \in Nat : e.fh < n /\ Before(ts, handles, n) => Before(tracks', handles', n)) => WalkOrder'
    PROVE  WalkInv'
<1>1. fhs \in Nat /\ said \in [Walk!Procs -> Int]
  BY WalkConstants DEF WalkInv, WalkTypes
<1>2. /\ WalkPuts(tracks', handles')
      /\ \A n \in Nat : e.fh < n /\ Before(ts, handles, n) => Before(tracks', handles', n)
  BY <1>1, PutsRecorded
<1>3. WalkSaid(tracks', ended', begun')
  BY <1>1, SaidRecorded
<1>4. WalkSaid(tracks, ended, begun)'
  BY <1>3, SaidAs DEF Walk!world, Walk!stop
<1>5. begins \in Seq(Walk!Procs) /\ begun' \in Seq(Walk!Procs) /\ \A p \in DOMAIN ts : ts[p] \in WalkTracks
  BY <1>3 DEF WalkSaid, WalkPuts
<1>6. Seen(tracks', walked') /\ walked \subseteq walked' /\ (walked \subseteq Walk!Procs => walked' \subseteq Walk!Procs)
  BY <1>5, SeenRecorded
<1>7. /\ walked \subseteq Walk!Procs /\ stopping' = stopping /\ goodbye' = goodbye
      /\ goodbye \in {Walk!NoProc} \cup Walk!Procs /\ (goodbye # Walk!NoProc => Past(goodbye) /\ stopping = <<>>)
  BY DEF WalkInv, WalkTypes, Stops, Walk!stop
<1> QED BY <1>2, <1>4, <1>6, <1>7, ThreadKeeps

\* What a sweep leaves of the threads.
LEMMA KnownPruned ==
    ASSUME WalkTypes, NEW now \in Walk!Times
    PROVE  /\ Known(Walk!PrunedThreads(now)) /\ Walk!PrunedAt(now) \in Walk!Times \cup {MaxTime + 1}
           /\ DOMAIN Walk!PrunedThreads(now) \subseteq DOMAIN threads
BY DEF WalkTypes, Known, Walk!PrunedThreads, Walk!PrunedAt, Walk!Restrict

\* A sweep, and nothing put down.
LEMMA SweepKeeps ==
    ASSUME Walk!WalksAssumption, WalkInv, UNCHANGED <<clock, Walk!world, handles, Walk!stop, said, signalled>>,
           NEW now \in Walk!Times, Walk!Idle,
           tracks' = Walk!PrunedTracks(now), threads' = Walk!PrunedThreads(now), pruned' = Walk!PrunedAt(now),
           ended' = Walk!PruneEnds(now), begun' = Walk!PruneBegins(now), walked' = walked \cup Walk!Range(begun'),
           event' # <<>> => event'[1].at = now,
           (\A n \in Nat : Before(tracks, handles, n) => Before(tracks, handles, n)') => WalkOrder'
    PROVE  WalkInv'
<1>1. /\ fhs \in Nat /\ said \in [Walk!Procs -> Int] /\ WalkPuts(tracks, handles) /\ Seen(tracks, walked)
      /\ WalkSaid(tracks, <<>>, <<>>)
  BY WalkConstants DEF WalkInv, WalkTypes, Walk!Idle
<1>2. /\ WalkPuts(tracks', handles)
      /\ WalkSaid(tracks', ended', begun')
      /\ Swept(tracks', ended', begun', now)
      /\ Seen(tracks', walked')
      /\ \A n \in Nat : Before(tracks, handles, n) => Before(tracks', handles, n)
  BY <1>1, Pruned
<1>3. handles' = handles
  OBVIOUS
<1>4. \A n \in Nat : Before(tracks, handles, n) => Before(tracks, handles, n)'
  BY <1>2, <1>3 DEF Before
<1>5. WalkSaid(tracks, ended, begun)'
  BY <1>2, SaidAs DEF Walk!world, Walk!stop
<1>6. Known(threads') /\ pruned' \in Walk!Times \cup {MaxTime + 1}
  BY KnownPruned DEF WalkInv
<1>7. walked \subseteq walked' /\ walked' \subseteq Walk!Procs
  <2>1. Walk!Range(begun') \subseteq Walk!Procs
    BY <1>2, MembersAre DEF WalkSaid
  <2> QED BY <2>1 DEF WalkInv, WalkTypes
<1>8. /\ stopping' = stopping /\ goodbye' = goodbye
      /\ goodbye \in {Walk!NoProc} \cup Walk!Procs /\ (goodbye # Walk!NoProc => Past(goodbye) /\ stopping = <<>>)
  BY DEF WalkInv, WalkTypes, Stops, Walk!stop
<1>9. WalkPuts(tracks', handles')
  BY <1>2, <1>3
<1> QED BY <1>2, <1>4, <1>5, <1>6, <1>7, <1>8, <1>9, ThreadKeeps

\* tick.
LEMMA SweepDone ==
    ASSUME Walk!WalksAssumption, WalkInv, Walk!Sweeps PROVE WalkInv'
<1>1. /\ UNCHANGED <<clock, Walk!world, walkQueue, handles, event, Walk!stop, said, signalled>> /\ Walk!Idle
      /\ tracks' = Walk!PrunedTracks(clock) /\ threads' = Walk!PrunedThreads(clock) /\ pruned' = Walk!PrunedAt(clock)
      /\ ended' = Walk!PruneEnds(clock) /\ begun' = Walk!PruneBegins(clock) /\ walked' = walked \cup Walk!Range(begun')
  BY DEF Walk!Sweeps, Walk!PrunedAt
<1>2. clock \in Walk!Times /\ event' = <<>> /\ event = <<>> /\ WalkOrder /\ fhs' = fhs
  BY <1>1 DEF WalkInv, WalkTypes, Walk!Idle, Walk!world
<1>3. (\A n \in Nat : Before(tracks, handles, n) => Before(tracks, handles, n)') => WalkOrder'
  BY <1>1, <1>2, EventDone
<1> QED BY <1>1, <1>2, <1>3, SweepKeeps

\* opened_at, first section.
LEMMA OpenTaken ==
    ASSUME Walk!WalksAssumption, WalkInv, Walk!Takes PROVE WalkInv'
<1>1. PICK e : e = Head(walkQueue)
  OBVIOUS
<1>2. /\ walkQueue # <<>> /\ e.kind = "opened" /\ walkQueue' = Tail(walkQueue) /\ Walk!Idle
      /\ UNCHANGED <<clock, Walk!world, Walk!stop, said, signalled>>
      /\ threads' = Walk!PrunedThreads(e.at) /\ pruned' = Walk!PrunedAt(e.at)
  BY <1>1 DEF Walk!Takes
<1>3. PICK ts : ts = Walk!PrunedTracks(e.at)
  OBVIOUS
<1>4. PICK ths : ths = Walk!PrunedThreads(e.at)
  OBVIOUS
<1>5. \/ /\ Walk!KnownAs(ts, ths, e)
         /\ Walk!Record(ts, ths[e.tid].of, e, Walk!PruneEnds(e.at), Walk!PruneBegins(e.at))
         /\ event' = <<>>
      \/ /\ tracks' = ts /\ event' = <<e>>
         /\ ended' = Walk!PruneEnds(e.at) /\ begun' = Walk!PruneBegins(e.at)
         /\ walked' = walked \cup Walk!Range(begun')
         /\ UNCHANGED handles
  BY <1>1, <1>3, <1>4 DEF Walk!Takes
<1>6. Coming(e) /\ e \in WalkEvents /\ e.at \in Walk!Times
  <2>1. walkQueue \in Seq(WalkEvents) /\ \A i \in 1 .. Len(walkQueue) : Coming(walkQueue[i])
    BY DEF WalkInv, WalkOrder
  <2>2. 1 \in 1 .. Len(walkQueue) /\ e = walkQueue[1]
    BY <1>1, <1>2, <2>1
  <2>3. Coming(e)
    BY <2>1, <2>2
  <2> QED BY <2>3 DEF Coming, WalkEvents
<1>7. /\ e.fh <= fhs /\ Before(tracks, handles, e.fh) /\ e.fh \in Nat
      /\ event = <<>> /\ WalkOrder /\ fhs' = fhs
  BY <1>2, <1>6 DEF Coming, WalkEvents, Walk!Fhs, WalkInv, Walk!Idle, Walk!world
<1>8. Known(threads') /\ pruned' \in Walk!Times \cup {MaxTime + 1} /\ threads' = ths
  BY <1>2, <1>4, <1>6, KnownPruned DEF WalkInv
<1>9. /\ fhs \in Nat /\ said \in [Walk!Procs -> Int] /\ WalkPuts(tracks, handles) /\ Seen(tracks, walked)
      /\ WalkSaid(tracks, <<>>, <<>>)
  BY <1>2, WalkConstants DEF WalkInv, WalkTypes, Walk!Idle
<1>10. /\ WalkPuts(ts, handles)
       /\ WalkSaid(ts, Walk!PruneEnds(e.at), Walk!PruneBegins(e.at))
       /\ Swept(ts, Walk!PruneEnds(e.at), Walk!PruneBegins(e.at), e.at)
       /\ Seen(ts, walked \cup Walk!Range(Walk!PruneBegins(e.at)))
       /\ \A n \in Nat : Before(tracks, handles, n) => Before(ts, handles, n)
  BY <1>3, <1>6, <1>9, Pruned
<1>11. CASE Walk!KnownAs(ts, ths, e) /\ event' = <<>>
            /\ Walk!Record(ts, ths[e.tid].of, e, Walk!PruneEnds(e.at), Walk!PruneBegins(e.at))
  <2>1. PICK q : q = ths[e.tid].of
    OBVIOUS
  <2>2. q \in Walk!Procs /\ IsOf(ts, q) /\ q[2] <= gen[q[1]]
    BY <1>8, <1>10, <1>11, <2>1 DEF Walk!KnownAs, Known, IsOf, WalkPuts
  <2>3. PICK ends : ends = Walk!PruneEnds(e.at)
    OBVIOUS
  <2>4. PICK begins : begins = Walk!PruneBegins(e.at)
    OBVIOUS
  <2>5. Walk!Record(ts, q, e, ends, begins)
    BY <1>11, <2>1, <2>3, <2>4
  <2>6. ASSUME \A n \in Nat : e.fh < n /\ Before(ts, handles, n) => Before(tracks', handles', n)
        PROVE  WalkOrder'
    <3>1. \A n \in Nat : Before(tracks, handles, n) /\ e.fh < n => Before(tracks, handles, n)'
      BY <1>10, <2>6 DEF Before
    <3> QED BY <1>1, <1>2, <1>7, <1>11, <3>1, HeadTaken
  <2>7. /\ WalkSaid(ts, ends, begins) /\ Swept(ts, ends, begins, e.at) /\ Seen(ts, walked \cup Walk!Range(begins))
        /\ Before(ts, handles, e.fh)
    BY <1>7, <1>10, <2>3, <2>4
  <2> QED BY <1>2, <1>6, <1>7, <1>8, <1>10, <1>11, <2>2, <2>5, <2>6, <2>7, OpenRecorded
<1>12. CASE /\ tracks' = ts /\ event' = <<e>>
            /\ ended' = Walk!PruneEnds(e.at) /\ begun' = Walk!PruneBegins(e.at)
            /\ walked' = walked \cup Walk!Range(begun')
            /\ UNCHANGED handles
  <2>1. ASSUME \A n \in Nat : Before(tracks, handles, n) => Before(tracks, handles, n)'
        PROVE  WalkOrder'
    <3>1. Coming(e)'
      BY <1>6, <1>7, <2>1 DEF Coming
    <3> QED BY <1>1, <1>2, <1>7, <1>12, <2>1, <3>1, HeadTaken
  <2>2. event'[1].at = e.at
    BY <1>12
  <2> QED BY <1>2, <1>3, <1>6, <1>12, <2>1, <2>2, SweepKeeps
<1> QED BY <1>5, <1>11, <1>12

\* opened_at, second section: what came between is no matter, for the tracks are read again.
LEMMA OpenIdentified ==
    ASSUME Walk!WalksAssumption, WalkInv, Walk!Identifies PROVE WalkInv'
<1>1. PICK e : e = event[1]
  OBVIOUS
<1>2. PICK q : q = Walk!Identify(e.tid)
  OBVIOUS
<1>3. /\ event # <<>> /\ event' = <<>> /\ UNCHANGED <<clock, Walk!world, walkQueue, pruned, Walk!stop, said, signalled>>
      /\ \/ q = Walk!NoProc /\ UNCHANGED <<threads, handles, tracks, ended, begun, walked>>
         \/ /\ q # Walk!NoProc /\ threads' = Walk!With(threads, e.tid, [of |-> q, at |-> e.at])
            /\ Walk!Record(tracks, q, e, ended, begun)
  BY <1>1, <1>2 DEF Walk!Identifies
<1>4. Coming(e) /\ e.kind = "opened" /\ e \in WalkEvents /\ e.at \in Walk!Times
  BY <1>1, <1>3 DEF WalkInv, WalkOrder, Coming, WalkEvents
<1>5. /\ e.fh <= fhs /\ Before(tracks, handles, e.fh) /\ e.tid \in Walk!Tids
      /\ WalkOrder /\ fhs' = fhs /\ walkQueue' = walkQueue /\ WalkTypes /\ Started
  BY <1>3, <1>4 DEF Coming, WalkInv, Walk!world
<1>6. /\ WalkPuts(tracks, handles) /\ WalkSaid(tracks, ended, begun) /\ Swept(tracks, ended, begun, e.at)
      /\ Seen(tracks, walked)
  BY <1>1, <1>3 DEF WalkInv
<1>7. CASE q = Walk!NoProc /\ UNCHANGED <<threads, handles, tracks, ended, begun, walked>>
  <2>1. \A n \in Nat : Before(tracks, handles, n) => Before(tracks, handles, n)'
    BY <1>7 DEF Before
  <2>2. WalkOrder'
    BY <1>3, <1>5, <2>1, EventDone
  <2>3. WalkSaid(tracks, ended, begun)'
    BY <1>3, <1>6, <1>7, SaidStays DEF WalkInv, WalkTypes, Walk!world, Walk!stop, Past, Walk!Running
  <2>4. Known(threads') /\ pruned' \in Walk!Times \cup {MaxTime + 1} /\ walked \subseteq walked' /\ walked' \subseteq Walk!Procs
    BY <1>3, <1>5, <1>7 DEF Known, WalkTypes
  <2>5. /\ stopping' = stopping /\ goodbye' = goodbye
        /\ goodbye \in {Walk!NoProc} \cup Walk!Procs /\ (goodbye # Walk!NoProc => Past(goodbye) /\ stopping = <<>>)
    BY <1>3 DEF WalkInv, WalkTypes, Stops, Walk!stop
  <2>6. WalkPuts(tracks', handles') /\ Seen(tracks', walked')
    BY <1>6, <1>7
  <2> QED BY <1>3, <2>2, <2>3, <2>4, <2>5, <2>6, ThreadKeeps
<1>8. CASE q # Walk!NoProc /\ threads' = Walk!With(threads, e.tid, [of |-> q, at |-> e.at])
           /\ Walk!Record(tracks, q, e, ended, begun)
  <2>1. q \in Walk!Procs /\ Walk!Running(q) /\ q[2] <= gen[q[1]]
    BY <1>2, <1>5, <1>8, IdentifiedRuns
  <2>2. Known(threads')
    BY <1>4, <1>5, <1>8, <2>1 DEF Known, Walk!With, WalkTypes
  <2>3. pruned' \in Walk!Times \cup {MaxTime + 1}
    BY <1>3, <1>5 DEF WalkTypes
  <2>4. ASSUME \A n \in Nat : e.fh < n /\ Before(tracks, handles, n) => Before(tracks', handles', n)
        PROVE  WalkOrder'
    <3>1. \A n \in Nat : Before(tracks, handles, n) /\ (event # event' => event[1].fh < n)
                           => Before(tracks, handles, n)'
      BY <1>1, <1>3, <2>4 DEF Before
    <3> QED BY <1>3, <1>5, <3>1, EventDone
  <2>5. PICK ends : ends = ended
    OBVIOUS
  <2>6. PICK begins : begins = begun
    OBVIOUS
  <2>7. PICK ts : ts = tracks
    OBVIOUS
  <2>8. /\ WalkPuts(ts, handles) /\ WalkSaid(ts, ends, begins) /\ Swept(ts, ends, begins, e.at)
        /\ Before(ts, handles, e.fh) /\ Walk!Record(ts, q, e, ends, begins)
    BY <1>5, <1>6, <1>8, <2>5, <2>6, <2>7
  <2>9. Seen(ts, walked \cup Walk!Range(begins))
    BY <1>6, <2>7 DEF Seen
  <2>10. (\A n \in Nat : e.fh < n /\ Before(ts, handles, n) => Before(tracks', handles', n)) => WalkOrder'
    BY <2>4, <2>7
  <2> QED BY <1>3, <1>4, <1>5, <2>1, <2>2, <2>3, <2>8, <2>9, <2>10, OpenRecorded
<1> QED BY <1>3, <1>7, <1>8

\* A handle released is put down to nobody any more.
LEMMA HandleReleased ==
    ASSUME Walk!WalksAssumption, fhs \in Nat, WalkPuts(tracks, handles), fhs' = fhs, gen' = gen,
           NEW f \in DOMAIN handles, handles' = Walk!Restrict(handles, DOMAIN handles \ {f}),
           tracks' = IF handles[f] \in DOMAIN tracks
                     THEN [tracks EXCEPT ![handles[f]].open = Walk!Since(@, 1)] ELSE tracks
    PROVE  /\ WalkPuts(tracks', handles') /\ DOMAIN tracks' = DOMAIN tracks
           /\ DOMAIN handles' \subseteq DOMAIN handles
           /\ \A p \in DOMAIN tracks : /\ tracks'[p].started = tracks[p].started
                                       /\ tracks'[p].reported = tracks[p].reported
                                       /\ tracks'[p].opened = tracks[p].opened
<1> DEFINE h == handles[f]
           k == tracks[h]
<1>1. /\ IsFiniteSet(DOMAIN tracks) /\ DOMAIN tracks \subseteq Pids
      /\ \A p \in DOMAIN tracks : /\ tracks[p] \in WalkTracks /\ tracks[p].opened <= fhs
                                  /\ tracks[p].started <= gen[p]
                                  /\ tracks[p].open = Cardinality(Of(handles, p))
      /\ DOMAIN handles \subseteq 1 .. fhs /\ \A g \in DOMAIN handles : handles[g] \in DOMAIN tracks
  BY DEF WalkPuts
<1>2. /\ DOMAIN handles' = DOMAIN handles \ {f} /\ \A g \in DOMAIN handles' : handles'[g] = handles[g]
      /\ Cardinality(Of(handles, h)) = Cardinality(Of(handles', h)) + 1
      /\ Cardinality(Of(handles', h)) \in Nat
      /\ \A q : q # h => Of(handles', q) = Of(handles, q)
  <2>1. \A r : r = Walk!Restrict(handles, DOMAIN handles \ {f}) =>
           /\ DOMAIN r = DOMAIN handles \ {f} /\ \A g \in DOMAIN r : r[g] = handles[g]
           /\ Cardinality(Of(handles, h)) = Cardinality(Of(r, h)) + 1
           /\ Cardinality(Of(r, h)) \in Nat
           /\ \A q : q # h => Of(r, q) = Of(handles, q)
    BY <1>1, HandleTaken
  <2> QED BY <2>1
<1>4. k \in WalkTracks /\ h \in DOMAIN tracks /\ k.open = Cardinality(Of(handles', h)) + 1
  BY <1>1, <1>2
<1>5. Walk!Since(k.open, 1) = Cardinality(Of(handles', h))
  BY <1>2, <1>4 DEF Walk!Since
<1>6. tracks' = [tracks EXCEPT ![h] = [k EXCEPT !.open = Walk!Since(k.open, 1)]]
  BY <1>4
<1> DEFINE l == [k EXCEPT !.open = Walk!Since(k.open, 1)]
<1>7. l \in WalkTracks
  BY <1>2, <1>4, <1>5 DEF WalkTracks
<1>8. /\ l.started = k.started /\ l.reported = k.reported /\ l.opened = k.opened
      /\ l.open = Cardinality(Of(handles', h))
  BY <1>4, <1>5 DEF WalkTracks
<1>9. /\ DOMAIN tracks' = DOMAIN tracks /\ tracks'[h] = l
      /\ \A p \in DOMAIN tracks : p # h => tracks'[p] = tracks[p]
  BY <1>4, <1>6
<1> HIDE DEF l, k, h
<1>10. ASSUME NEW p \in DOMAIN tracks
       PROVE  /\ tracks'[p] \in WalkTracks /\ tracks'[p].started = tracks[p].started
              /\ tracks'[p].reported = tracks[p].reported /\ tracks'[p].opened = tracks[p].opened
              /\ tracks'[p].open = Cardinality(Of(handles', p))
  <2>1. CASE p = h
    BY <1>7, <1>8, <1>9, <2>1 DEF k
  <2>2. CASE p # h
    <3>1. tracks'[p] = tracks[p] /\ Of(handles', p) = Of(handles, p)
      BY <1>2, <1>9, <2>2
    <3> QED BY <1>1, <3>1
  <2> QED BY <2>1, <2>2
<1>11. WalkPuts(tracks', handles')
  BY <1>1, <1>2, <1>9, <1>10 DEF WalkPuts
<1> QED BY <1>2, <1>9, <1>10, <1>11

\* released.
LEMMA ReleaseTaken ==
    ASSUME Walk!WalksAssumption, WalkInv, Walk!TakesRelease PROVE WalkInv'
<1>1. PICK h : h = Head(walkQueue)
  OBVIOUS
<1>2. /\ Walk!Idle /\ walkQueue # <<>> /\ h.kind = "released" /\ walkQueue' = Tail(walkQueue)
      /\ UNCHANGED <<clock, Walk!world, threads, pruned, Walk!thread, Walk!stop, said, signalled, walked>>
  BY <1>1 DEF Walk!TakesRelease
<1>3. /\ fhs \in Nat /\ WalkPuts(tracks, handles) /\ WalkOrder /\ Seen(tracks, walked)
      /\ WalkSaid(tracks, ended, begun) /\ WalkTypes /\ said \in [Walk!Procs -> Int]
  BY WalkConstants DEF WalkInv, WalkTypes
<1>4. /\ WalkPuts(tracks', handles') /\ DOMAIN tracks' = DOMAIN tracks
      /\ DOMAIN handles' \subseteq DOMAIN handles
      /\ \A p \in DOMAIN tracks : /\ tracks'[p].started = tracks[p].started
                                  /\ tracks'[p].reported = tracks[p].reported
                                  /\ tracks'[p].opened = tracks[p].opened
  <2>1. CASE h.fh \in DOMAIN handles
    <3>1. PICK f : f = h.fh
      OBVIOUS
    <3>2. /\ f \in DOMAIN handles /\ handles' = Walk!Restrict(handles, DOMAIN handles \ {f})
          /\ tracks' = IF handles[f] \in DOMAIN tracks
                       THEN [tracks EXCEPT ![handles[f]].open = Walk!Since(@, 1)] ELSE tracks
      BY <1>1, <2>1, <3>1 DEF Walk!TakesRelease
    <3>3. fhs' = fhs /\ gen' = gen
      BY <1>2 DEF Walk!world
    <3> QED BY <1>3, <3>2, <3>3, HandleReleased
  <2>2. CASE h.fh \notin DOMAIN handles
    <3>1. tracks' = tracks /\ handles' = handles
      BY <1>1, <2>2 DEF Walk!TakesRelease
    <3> QED BY <1>3, <3>1
  <2> QED BY <2>1, <2>2
<1>5. \A n \in Nat : Before(tracks, handles, n) => Before(tracks, handles, n)'
  BY <1>4 DEF Before
<1>6. event = <<>> /\ event' = <<>> /\ fhs' = fhs /\ ended' = ended /\ begun' = begun
  BY <1>2 DEF Walk!Idle, Walk!thread, Walk!world
<1>7. WalkOrder'
  BY <1>1, <1>2, <1>3, <1>5, <1>6, HeadTaken
<1>8. WalkSaid(tracks, ended, begun)'
  <2> DEFINE E == Walk!Range(ended)
             B == Walk!Range(begun)
  <2>1. /\ ended \in Seq(Walk!Procs) /\ begun \in Seq(Walk!Procs) /\ Distinct(ended) /\ Distinct(begun)
        /\ \A p \in Walk!Procs : SaidOf(tracks, E, B, p)
    BY <1>3 DEF WalkSaid
  <2>2. E' = E /\ B' = B /\ UNCHANGED <<walkLive, gen, said, goodbye>>
    BY <1>2, <1>6 DEF Walk!world, Walk!stop
  <2> HIDE DEF E, B
  <2>3. ASSUME NEW p \in Walk!Procs PROVE SaidOf(tracks, E, B, p)'
    <3>1. (IsOf(tracks, p)' <=> IsOf(tracks, p)) /\ (IsOf(tracks, p) => tracks'[p[1]].reported = tracks[p[1]].reported)
      BY <1>4 DEF IsOf
    <3>2. Past(p)' <=> Past(p)
      BY <2>2 DEF Past, Walk!Running
    <3>3. SaidOf(tracks, E, B, p)
      BY <2>1
    <3> QED BY <2>2, <3>1, <3>2, <3>3 DEF SaidOf, One
  <2> QED BY <1>6, <2>1, <2>3 DEF WalkSaid, Distinct, E, B
<1>9. Seen(tracks', walked')
  BY <1>2, <1>3, <1>4 DEF Seen, Walk!Proc
<1>10. Known(threads') /\ pruned' \in Walk!Times \cup {MaxTime + 1} /\ walked \subseteq walked' /\ walked' \subseteq Walk!Procs
  BY <1>2, <1>3 DEF Known, WalkTypes
<1>11. /\ stopping' = stopping /\ goodbye' = goodbye
       /\ goodbye \in {Walk!NoProc} \cup Walk!Procs /\ (goodbye # Walk!NoProc => Past(goodbye) /\ stopping = <<>>)
  BY <1>2 DEF WalkInv, WalkTypes, Stops, Walk!stop
<1> QED BY <1>2, <1>4, <1>6, <1>7, <1>8, <1>9, <1>10, <1>11, ThreadKeeps

\* The track of one that is gone goes, and its walk ends.
LEMMA WalkerForgotten ==
    ASSUME Walk!WalksAssumption, WalkInv, Walk!Forgets PROVE WalkInv'
<1>1. PICK q : q = stopping[1]
  OBVIOUS
<1>2. /\ stopping # <<>> /\ stopping[2] = "gone" /\ stopping' = <<>>
      /\ UNCHANGED <<clock, Walk!world, walkQueue, threads, pruned, Walk!thread, said, signalled, walked>>
  BY DEF Walk!Forgets
<1>3. /\ IsOf(tracks, q) =>
           /\ goodbye' = IF tracks[q[1]].reported THEN q ELSE Walk!NoProc
           /\ tracks' = Walk!Restrict(tracks, DOMAIN tracks \ {q[1]})
           /\ handles' = Walk!HandlesWithout(handles, q[1])
      /\ ~IsOf(tracks, q) => UNCHANGED <<goodbye, tracks, handles>>
  BY <1>1 DEF Walk!Forgets, IsOf
<1>4. Past(q) /\ goodbye = Walk!NoProc /\ q \in Walk!Procs /\ q # Walk!NoProc
  BY <1>1, <1>2 DEF WalkInv, Stops, WalkTypes, Walk!Procs, Walk!NoProc
<1>5. /\ fhs \in Nat /\ WalkPuts(tracks, handles) /\ WalkOrder /\ Seen(tracks, walked)
      /\ WalkSaid(tracks, ended, begun) /\ WalkTypes /\ said \in [Walk!Procs -> Int]
      /\ event # <<>> => Swept(tracks, ended, begun, event[1].at)
  BY WalkConstants DEF WalkInv, WalkTypes
<1>6. /\ event' = event /\ walkQueue' = walkQueue /\ fhs' = fhs /\ ended' = ended /\ begun' = begun
      /\ UNCHANGED <<walkLive, gen, said, walked>>
  BY <1>2 DEF Walk!thread, Walk!world
<1>7. /\ DOMAIN tracks' \subseteq DOMAIN tracks /\ \A p \in DOMAIN tracks' : tracks'[p] = tracks[p]
      /\ DOMAIN handles' \subseteq DOMAIN handles
      /\ \A p \in Walk!Procs : IsOf(tracks', p) <=> (IsOf(tracks, p) /\ p # q)
  <2>1. CASE IsOf(tracks, q)
    <3>1. DOMAIN tracks' = DOMAIN tracks \ {q[1]} /\ \A p \in DOMAIN tracks' : tracks'[p] = tracks[p]
      BY <1>3, <2>1 DEF Walk!Restrict
    <3>2. DOMAIN handles' \subseteq DOMAIN handles
      BY <1>3, <2>1, HandlesLeft
    <3> QED BY <1>4, <2>1, <3>1, <3>2 DEF IsOf, Walk!Procs
  <2>2. CASE ~IsOf(tracks, q)
    BY <1>3, <2>2
  <2> QED BY <2>1, <2>2
<1>8. WalkPuts(tracks', handles')
  <2>1. CASE IsOf(tracks, q)
    <3>1. /\ DOMAIN tracks' = DOMAIN tracks \ {q[1]} /\ \A p \in DOMAIN tracks' : tracks'[p] = tracks[p]
      BY <1>3, <2>1 DEF Walk!Restrict
    <3>2. /\ DOMAIN handles' \subseteq DOMAIN handles
          /\ \A g \in DOMAIN handles' : handles'[g] = handles[g] /\ handles[g] # q[1]
          /\ \A p : p # q[1] => Of(handles', p) = Of(handles, p)
      BY <1>3, <2>1, HandlesLeft
    <3>3. IsFiniteSet(DOMAIN tracks')
      BY <1>5, <3>1, FS_Subset DEF WalkPuts
    <3> QED BY <1>5, <3>1, <3>2, <3>3 DEF WalkPuts
  <2>2. CASE ~IsOf(tracks, q)
    BY <1>3, <1>5, <2>2
  <2> QED BY <2>1, <2>2
<1>9. WalkOrder'
  <2>1. \A n \in Nat : Before(tracks, handles, n) => Before(tracks, handles, n)'
    BY <1>7 DEF Before
  <2> QED BY <1>5, <1>6, <2>1, EventDone
<1>10. goodbye' \in {Walk!NoProc, q} /\ (IsOf(tracks, q) => (goodbye' = q <=> tracks[q[1]].reported))
       /\ (~IsOf(tracks, q) => goodbye' = Walk!NoProc)
  BY <1>3, <1>4
<1>11. WalkSaid(tracks, ended, begun)'
  <2> DEFINE E == Walk!Range(ended)
             B == Walk!Range(begun)
  <2>1. /\ ended \in Seq(Walk!Procs) /\ begun \in Seq(Walk!Procs) /\ Distinct(ended) /\ Distinct(begun)
        /\ \A p \in Walk!Procs : SaidOf(tracks, E, B, p)
    BY <1>5 DEF WalkSaid
  <2>2. E' = E /\ B' = B
    BY <1>6
  <2> HIDE DEF E, B
  <2>3. ASSUME NEW p \in Walk!Procs PROVE SaidOf(tracks, E, B, p)'
    <3>1. /\ (Past(p)' <=> Past(p)) /\ SaidOf(tracks, E, B, p) /\ p # goodbye /\ One(p = goodbye) = 0
          /\ said'[p] = said[p] /\ said[p] \in Int /\ p # Walk!NoProc
      BY <1>4, <1>5, <1>6, <2>1 DEF Past, Walk!Running, Walk!Procs, Walk!NoProc, One
    <3>2. CASE p = q /\ IsOf(tracks, q)
      <4>1. ~IsOf(tracks, p)' /\ Past(p)'
        BY <1>4, <1>7, <3>1, <3>2 DEF IsOf
      <4>2. said[p] - One(p \in E) + One(p \in B) = One(tracks[p[1]].reported)
        BY <3>1, <3>2 DEF SaidOf
      <4>3. One(p = goodbye') = One(tracks[p[1]].reported)
        BY <1>10, <3>2 DEF One
      <4>4. One(p \in B) \in {0, 1} /\ One(p \in E) \in {0, 1} /\ One(tracks[p[1]].reported) \in {0, 1}
        BY DEF One
      <4>5. said'[p] - One(p \in E) - One(p = goodbye') \in {-1, 0}
        BY <3>1, <4>2, <4>3, <4>4
      <4> QED BY <2>2, <4>1, <4>5 DEF SaidOf, One
    <3>3. CASE ~(p = q /\ IsOf(tracks, q))
      <4>1. IsOf(tracks, p)' <=> IsOf(tracks, p)
        BY <1>7, <3>3 DEF IsOf
      <4>2. IsOf(tracks, p) => tracks'[p[1]] = tracks[p[1]]
        BY <1>7, <4>1 DEF IsOf
      <4>3. p # goodbye' /\ One(p = goodbye') = 0
        BY <1>4, <1>10, <3>1, <3>3 DEF One
      <4> QED BY <2>2, <3>1, <4>1, <4>2, <4>3 DEF SaidOf, One
    <3> QED BY <3>2, <3>3
  <2> QED BY <1>6, <2>1, <2>3 DEF WalkSaid, Distinct, E, B
<1>12. event' # <<>> => Swept(tracks', ended', begun', event'[1].at)
  <2>1. SUFFICES ASSUME event # <<>>, NEW p \in Walk!Procs, IsOf(tracks', p)
                 PROVE  SweptOf(tracks', Walk!Range(ended), Walk!Range(begun), event[1].at, p)
    BY <1>6 DEF Swept, SweptOf
  <2>2. IsOf(tracks, p) /\ tracks'[p[1]] = tracks[p[1]]
    BY <1>7, <2>1 DEF IsOf
  <2>3. SweptOf(tracks, Walk!Range(ended), Walk!Range(begun), event[1].at, p)
    BY <1>5, <2>1 DEF Swept
  <2> QED BY <2>2, <2>3 DEF SweptOf
<1>13. Seen(tracks', walked')
  BY <1>5, <1>6, <1>7 DEF Seen, Walk!Proc
<1>14. Known(threads') /\ pruned' \in Walk!Times \cup {MaxTime + 1} /\ walked \subseteq walked' /\ walked' \subseteq Walk!Procs
  BY <1>2, <1>5 DEF Known, WalkTypes
<1>15. goodbye' \in {Walk!NoProc} \cup Walk!Procs /\ (goodbye' # Walk!NoProc => Past(goodbye') /\ stopping' = <<>>)
  BY <1>2, <1>4, <1>10
<1> QED BY <1>2, <1>8, <1>9, <1>11, <1>12, <1>13, <1>14, <1>15, ThreadKeeps

\* It holds at first.
LEMMA WalkInit ==
    ASSUME Walk!WalksAssumption, Walk!Init PROVE WalkInv
<1> USE DEF Walk!Init
<1>1. /\ 0 \in Walk!Times /\ MaxTime + 1 \in Walk!Times \cup {MaxTime + 1} /\ 0 \in 0 .. WalkStarts /\ 0 \in 0 .. MaxOpens
  BY WalkConstants DEF Walk!Times
<1>2. WalkTypes
  BY <1>1 DEF WalkTypes
<1>3. DOMAIN tracks = {} /\ DOMAIN handles = {} /\ Walk!Range(ended) = {} /\ Walk!Range(begun) = {}
  BY DEF Walk!Range
<1>4. WalkPuts(tracks, handles)
  BY <1>3, FS_EmptySet DEF WalkPuts
<1>5. WalkOrder /\ Started
  BY DEF WalkOrder, Started
<1>6. WalkSaid(tracks, ended, begun)
  <2>1. ASSUME NEW p \in Walk!Procs PROVE SaidOf(tracks, {}, {}, p)
    <3>1. ~IsOf(tracks, p) /\ said[p] = 0 /\ p # goodbye /\ One(p \in {}) = 0 /\ One(p = goodbye) = 0
      BY <1>3 DEF IsOf, One, Walk!Procs, Walk!NoProc
    <3> QED BY <3>1 DEF SaidOf
  <2>2. Distinct(ended) /\ Distinct(begun) /\ ended \in Seq(Walk!Procs) /\ begun \in Seq(Walk!Procs)
    BY DEF Distinct
  <2> QED BY <1>3, <2>1, <2>2 DEF WalkSaid
<1>7. Seen(tracks, walked) /\ Stops
  BY <1>3 DEF Seen, Stops
<1> QED BY <1>2, <1>4, <1>5, <1>6, <1>7 DEF WalkInv

\* And every step keeps it.
LEMMA WalkStep ==
    ASSUME Walk!WalksAssumption, WalkInv, [Walk!Next]_(Walk!vars) PROVE WalkInv'
<1>1. CASE UNCHANGED Walk!vars \/ Walk!Tick
  BY <1>1, TimePasses
<1>2. ASSUME NEW p \in Pids, Walk!Starts(p) \/ Walk!Exits(p) \/ Walk!Asked(p) PROVE WalkInv'
  BY <1>2, ProcessStarts, ProcessExits, StopAsked
<1>3. ASSUME NEW t \in Walk!Tids, Walk!Opens(t) PROVE WalkInv'
  BY <1>3, DirectoryOpens
<1>4. ASSUME NEW t \in Spares, Walk!Threads(t) PROVE WalkInv'
  BY <1>4, ThreadMoves
<1>5. ASSUME NEW f \in Walk!Fhs, Walk!Closes(f) PROVE WalkInv'
  BY <1>5, DirectoryCloses
<1>6. CASE Walk!Takes \/ Walk!Identifies \/ Walk!TakesRelease \/ Walk!Sweeps
  BY <1>6, OpenTaken, OpenIdentified, ReleaseTaken, SweepDone
<1>7. CASE Walk!Says \/ Walk!Terminates \/ Walk!Forgets \/ Walk!SaysGoodbye
  BY <1>7, NewsSaid, StopSignals, WalkerForgotten, GoodbyeSaid
<1> QED BY <1>1, <1>2, <1>3, <1>4, <1>5, <1>6, <1>7 DEF Walk!Next

\* It gives what MCMount checks of Walks.
LEMMA WalkHolds ==
    ASSUME Walk!WalksAssumption, WalkInv PROVE Walk!TypeOK /\ Walk!CountsMatch /\ Walk!NoTwoStarts /\ Walk!OnlyWalkersStopped
<1>1. /\ IsFiniteSet(DOMAIN tracks) /\ DOMAIN tracks \subseteq Pids
      /\ \A p \in DOMAIN tracks : /\ tracks[p] \in WalkTracks /\ tracks[p].opened <= fhs
                                  /\ tracks[p].open = Cardinality(Of(handles, p))
      /\ DOMAIN handles \subseteq 1 .. fhs /\ \A f \in DOMAIN handles : handles[f] \in DOMAIN tracks
  BY DEF WalkInv, WalkPuts
<1>2. WalkTypes /\ WalkOrder /\ fhs \in Nat /\ fhs <= MaxOpens /\ MaxOpens \in Nat
  BY WalkConstants DEF WalkInv, WalkTypes
<1>3. ASSUME NEW p \in DOMAIN tracks
      PROVE  tracks[p] \in [started : 1 .. WalkStarts, first : Walk!Times, last : Walk!Times,
                            opened : 0 .. MaxOpens, open : 0 .. MaxOpens, reported : BOOLEAN]
  <2>1. tracks[p].open <= fhs /\ tracks[p].opened <= fhs
    BY <1>1, <1>2, HandlesFinite
  <2>2. tracks[p].open \in 0 .. MaxOpens /\ tracks[p].opened \in 0 .. MaxOpens
    BY <1>1, <1>2, <2>1 DEF WalkTracks
  <2> QED BY <1>1, <2>2 DEF WalkTracks
<1>4. \A f \in DOMAIN handles : f \in Walk!Fhs /\ handles[f] \in Pids
  BY <1>1, <1>2 DEF Walk!Fhs
<1>5. \A i \in DOMAIN walkQueue : walkQueue[i].kind \in {"opened", "released"}
  <2>1. walkQueue \in Seq(WalkEvents)
    BY <1>2 DEF WalkOrder
  <2>2. \A i \in DOMAIN walkQueue : walkQueue[i] \in WalkEvents
    BY <2>1
  <2> QED BY <2>2 DEF WalkEvents
<1>6. ended \in Seq(Walk!Procs) /\ begun \in Seq(Walk!Procs) /\ Len(event) <= 1 /\ said \in [Walk!Procs -> Int]
  BY <1>2 DEF WalkInv, WalkSaid, WalkTypes, WalkOrder
<1>7. Walk!TypeOK
  BY <1>1, <1>2, <1>3, <1>4, <1>5, <1>6 DEF Walk!TypeOK, WalkTypes
<1>8. Walk!CountsMatch
  BY <1>1, SizesAlike DEF Walk!CountsMatch, Of
<1>9. Walk!NoTwoStarts
  BY <1>2 DEF Walk!NoTwoStarts, WalkTypes
<1>10. Walk!OnlyWalkersStopped
  BY DEF WalkInv, Stops, Walk!OnlyWalkersStopped
<1> QED BY <1>7, <1>8, <1>9, <1>10
=============================================================================
