-------------------------------- MODULE Pages --------------------------------
(***************************************************************************)
(* A listing fetched page by page (core metadata.rs, list_paged, under     *)
(* list_dir and list_shares) from a directory that changes meanwhile.      *)
(* The next page is asked for at the number of entries collected.          *)
(***************************************************************************)
EXTENDS Naturals, Sequences, FiniteSets, SequencesExt

CONSTANTS Names,
          PageSize, MaxPages,  \* LIST_PAGE_SIZE, LIST_MAX_PAGES
          MaxChanges           \* bound

PagesAssumption == PageSize \in Nat \ {0} /\ MaxPages \in Nat \ {0} /\ MaxChanges \in Nat

VARIABLES there,      \* the directory, in the order the NAS lists it
          totals,     \* whether answers carry `total`
          collected,
          page,       \* pages asked for
          answer,     \* what list_paged returned
          steady,     \* history: names that were there all the time
          removed,    \* history: how many were removed from before the offset
          changes     \* bound

vars == <<there, totals, collected, page, answer, steady, removed, changes>>

TypeOK ==
    /\ there \in Seq(Names) /\ IsInjective(there) /\ totals \in BOOLEAN
    /\ collected \in Seq(Names) /\ page \in 0 .. MaxPages
    /\ answer \in {"none", "listed", "capped", "failed"}
    /\ steady \subseteq ToSet(there) /\ changes \in 0 .. MaxChanges
    /\ removed \in 0 .. changes

Init ==
    /\ there \in UNION {[1 .. n -> Names] : n \in 0 .. Cardinality(Names)} /\ IsInjective(there)
    /\ totals \in BOOLEAN /\ collected = <<>> /\ page = 0 /\ answer = "none"
    /\ steady = ToSet(there) /\ removed = 0 /\ changes = 0

\* What the NAS answers for an offset.
PageAt(offset) ==
    SubSeq(there, offset + 1, IF offset + PageSize < Len(there) THEN offset + PageSize ELSE Len(there))

\* A slip: a total counts the entry the offset stands at.
Done_Short(got, all) == got < PageSize \/ (totals /\ all + 1 >= Len(there))

\* A short or empty page, or a total that is reached.
Done(got, all) == got < PageSize \/ (totals /\ all >= Len(there))

Fetches ==
    /\ answer = "none" /\ page' = page + 1
    /\ LET got == PageAt(Len(collected))
       IN  /\ collected' = collected \o got
           /\ answer' = IF Done(Len(got), Len(collected')) THEN "listed"
                        ELSE IF page' = MaxPages THEN "capped" ELSE "none"
    /\ UNCHANGED <<there, totals, steady, removed, changes>>

\* get_text_retried gives up, or the NAS answers with an error.
Fails ==
    /\ answer = "none" /\ answer' = "failed"
    /\ UNCHANGED <<there, totals, collected, page, steady, removed, changes>>

\* External: others add and remove names between two pages.
Adds ==
    /\ answer = "none" /\ page > 0 /\ changes < MaxChanges /\ changes' = changes + 1
    /\ \E n \in Names \ ToSet(there) : \E i \in 1 .. Len(there) + 1 : there' = InsertAt(there, i, n)
    /\ UNCHANGED <<totals, collected, page, answer, steady, removed>>

Removes ==
    /\ answer = "none" /\ page > 0 /\ changes < MaxChanges /\ changes' = changes + 1
    /\ \E i \in 1 .. Len(there) :
          /\ there' = RemoveAt(there, i) /\ steady' = steady \ {there[i]}
          /\ removed' = IF i <= Len(collected) THEN removed + 1 ELSE removed
    /\ UNCHANGED <<totals, collected, page, answer>>

Next == Fetches \/ Fails \/ Adds \/ Removes

Spec == Init /\ [][Next]_vars

-----------------------------------------------------------------------------
(* Properties *)

\* list_paged: of what was there from the first page to the last no more is left out than
\* was removed from among the entries before the offset, one name for each of those;
\* additions anywhere and removals further on leave nothing out.
NothingOmitted ==
    answer = "listed" => Cardinality(steady \ ToSet(collected)) <= removed

\* A directory nobody changed is listed as it is, each name once, or up to the cap.
ListedAsIs ==
    changes = 0 => IsPrefix(collected, there) /\ (answer = "listed" => collected = there)

\* "a filesystem that omits files is worse than one that errors" (metadata.rs, 28): nothing
\* is left out at all.  Not checked by a run: a removal before the offset moves the next
\* page's first entry under it.
NeverOmits == answer = "listed" => steady \subseteq ToSet(collected)
=============================================================================
