--------------------------- MODULE PatchRetrieval ---------------------------
(* What Step 31 retrieves of a slot: one transaction that changes no row of  *)
(* PersonalMemoryPatch, hence a function of its state.                       *)
(*                                                                           *)
(* A query asks for the present (as_of = None) or for a past date.  Of the   *)
(* request, its route and its model only the outcome of the comparisons is   *)
(* left: confirmed is the set of the patches whose evidence the current      *)
(* resolution selects, applicable, fresh and without conflict.  The slot has *)
(* one binding, of the patch and of the model that asks; added again, it is  *)
(* the one that was removed.  The caps on the candidates and on the results  *)
(* cut a sorted list that is shorter here.                                   *)
EXTENDS PersonalMemoryPatch

Dates == Times \cup {None}

-----------------------------------------------------------------------------
(* ACTIVE_PATCH_RETRIEVAL_SQL.                                               *)

\* Mutant: the day a supersession takes effect still belongs to the old patch.
MutantReplacedLater(p, as_of) ==
  /\ as_of # None
  /\ item[p].state = "SUPERSEDED"
  /\ item[p].effective_at >= as_of

\* It ended by a supersession that was not in effect yet.
ReplacedLater(p, as_of) ==
  /\ as_of # None
  /\ item[p].state = "SUPERSEDED"
  /\ item[p].effective_at > as_of

\* It replaced another one, but not yet at that date.
ReplacesLater(p, as_of) ==
  /\ as_of # None
  /\ \E r \in records : /\ r.kind = "SUPERSEDE"
                        /\ r.by = p
                        /\ r.effective_at > as_of

ActivePatchCandidates(as_of) ==
  {p \in Proposals : /\ Version(p) = 7
                     /\ item[p].state = "ACTIVE" \/ ReplacedLater(p, as_of)
                     /\ ~ ReplacesLater(p, as_of)}

-----------------------------------------------------------------------------
(* ActivePatchRetrievalService.                                              *)

RetrievalEligible == slot.state = "ACTIVE"

\* assess_active_patch: an item has no validity window of its own, because a
\* commit writes none.
Eligible(p, as_of, confirmed) ==
  /\ item[p].state = "ACTIVE" \/ ReplacedLater(p, as_of)
  /\ slot.bound
  /\ p \in confirmed

Retrieve(as_of, confirmed) ==
  IF RetrievalEligible
  THEN {p \in ActivePatchCandidates(as_of) : Eligible(p, as_of, confirmed)}
  ELSE {}

-----------------------------------------------------------------------------
(* Properties.                                                               *)

\* The two patches of a supersession are never both retrieved, whatever the
\* date, and exactly one of them is where the new one is still active and no
\* other supersession comes in: no date falls between them.  Nothing that was
\* revoked or deleted is retrieved, nor anything of a slot out of use
\* (the two comparisons of ACTIVE_PATCH_RETRIEVAL_SQL with the effective date).
SuccessionIsTold ==
  \A as_of \in Dates :
    LET found == Retrieve(as_of, Proposals)
    IN  /\ \A p \in found : item[p].state \in {"ACTIVE", "SUPERSEDED"}
        /\ found # {} => slot.state = "ACTIVE" /\ slot.bound
        /\ \A r \in records : r.kind = "SUPERSEDE" =>
             /\ ~ {r.patch, r.by} \subseteq found
             /\ /\ RetrievalEligible /\ slot.bound
                /\ item[r.by].state = "ACTIVE"
                /\ \A s \in records : s.kind = "SUPERSEDE" /\ s.by \in {r.by, r.patch}
                                        => s = r
                => r.patch \in found \/ r.by \in found

\* What a past date tells of a patch that has ended is final: no later step, of
\* its successor or of any other patch, changes whether it is selected
\* (_terminalize_patch, lock_active_patch of the new patch in supersede).
HistoryIsFinal ==
  \A p \in Proposals, as_of \in Dates :
    item[p].state \notin {"NONE", "INACTIVE", "ACTIVE"} =>
      (p \in ActivePatchCandidates(as_of))' = (p \in ActivePatchCandidates(as_of))

\* Whatever step is taken, what can be retrieved after it tells the succession
\* of the patches, and what was told of an ended patch stands
\* (ACTIVE_PATCH_RETRIEVAL_SQL over the rows of Steps 30 and 32).
RetrievalTellsHistory == [][SuccessionIsTold' /\ HistoryIsFinal]_patchVars
=============================================================================
