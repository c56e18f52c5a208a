------------------------ MODULE PersonalMemoryPatch ------------------------
(* A personal memory slot of one owner and the patches proposed for it: the  *)
(* slot service (Step 27), the candidate bridge (Step 28), the proposal      *)
(* service (Step 29), approval, commit and activation (Step 30) and the      *)
(* owner lifecycle (Step 32), with their repositories and the triggers and   *)
(* indexes of migrations 0013 to 0015.                                       *)
(*                                                                           *)
(* Each operation is one SERIALIZABLE transaction, hence one action.  Any    *)
(* caller may send any request at any time; a request that a check refuses   *)
(* rolls back and leaves no step.  Times come from the requests of Steps 28  *)
(* and 29 and from the trusted clock that Step 30 reads before its           *)
(* transaction: both are readings at . 0 .. MaxTime in no order.  For every  *)
(* reading a request of Step 30 or 32 dated early enough exists, so that the *)
(* dates inside of those requests are left out, except for the effective     *)
(* date of a supersession, which Step 31 reads.                              *)
(*                                                                           *)
(* The slot's state version, configuration version and hash are one counter: *)
(* they are compared together, and each update of the row changes the hash.  *)
EXTENDS Integers, FiniteSets

CONSTANTS Proposals,         \* one for each correction candidate
          Claim,             \* Claim[p]: its subject and its polarity
          Keys,
          KeysOf,            \* KeysOf[p]: idempotency keys its requests use
          None,              \* no time, key or patch
          Limits,            \* values of maximum_active_memory_patches
          MaximumProposals,  \* MAXIMUM_PROPOSALS_PER_SLOT
          RevalidationAge,   \* MAXIMUM_REVALIDATION_AGE_SECONDS
          MaxTime,           \* bound on the clocks
          MaxSlotVersion     \* bound on the updates of the slot

ASSUME PatchAssumption ==
  /\ IsFiniteSet(Proposals)
  /\ \A p \in Proposals : Claim[p].negative \in BOOLEAN
  /\ KeysOf \in [Proposals -> SUBSET Keys]
  /\ Limits \subseteq Nat
  /\ {MaximumProposals, RevalidationAge, MaxTime} \subseteq Nat
  /\ MaxSlotVersion \in Nat \ {0}
  /\ None \notin Proposals \cup Keys \cup Nat

VARIABLES slot,        \* personal_memory_spaces, its policy and its binding
          candidate,   \* slot version the stored candidate is bound to, or 0
          proposal,    \* memory_patch_proposals
          item,        \* memory_items
          receipts,    \* approvals, commits and activations: their keys
          operations,  \* persistence_operations of Step 30
          records      \* the append-only tables of Step 32

patchVars ==
  << slot, candidate, proposal, item, receipts, operations, records >>

Times == 0 .. MaxTime

SpaceState == {"EMPTY", "CONFIGURED", "ACTIVE", "SUSPENDED", "ARCHIVED",
               "DELETED_PENDING", "DELETED"}

\* The state of a proposal is known from its version.
StateOf == << "PROPOSED", "EVIDENCE_BOUND", "VALIDATED", "AWAITING_APPROVAL",
              "APPROVED", "COMMITTED", "ACTIVE" >>

Slot == [state : SpaceState, version : 1 .. MaxSlotVersion, limit : Limits,
         bound : BOOLEAN]
Proposal == [version : 0 .. 7, created_at : Times \cup {None},
             validated_at : Times \cup {None}, updated_at : Times \cup {None}]
Item == [state : {"NONE", "INACTIVE", "ACTIVE", "SUPERSEDED", "REVOKED", "DELETED"},
         superseded_by : Proposals \cup {None}, effective_at : Times \cup {None}]
Receipts == [approval : Keys \cup {None}, commit : Keys \cup {None},
             activation : Keys \cup {None}]
Operation == [kind : {"APPROVE", "COMMIT", "ACTIVATE"}, key : Keys,
              patch : Proposals]
Record == [kind : {"SUPERSEDE"}, key : Keys, patch : Proposals, by : Proposals,
           effective_at : Times]
            \cup [kind : {"REVOKE", "DELETE", "PROMOTE"}, key : Keys,
                  patch : Proposals]

\* The slot is configured and its model binding is enabled.
Init == /\ slot \in [state : {"CONFIGURED"}, version : {1}, limit : Limits,
                     bound : {TRUE}]
        /\ candidate = [p \in Proposals |-> 0]
        /\ proposal = [p \in Proposals |->
             [version |-> 0, created_at |-> None, validated_at |-> None,
              updated_at |-> None]]
        /\ item = [p \in Proposals |->
             [state |-> "NONE", superseded_by |-> None, effective_at |-> None]]
        /\ receipts = [p \in Proposals |->
             [approval |-> None, commit |-> None, activation |-> None]]
        /\ operations = {}
        /\ records = {}

-----------------------------------------------------------------------------
(* What the transactions read.                                               *)

Version(p) == proposal[p].version

ActivePatches == {p \in Proposals : item[p].state = "ACTIVE"}

\* enforce_step27_quota.
WithinQuota(limit) == Cardinality(ActivePatches) <= limit

SlotOpen == slot.state \in {"CONFIGURED", "ACTIVE"}

\* Mutant: the slot is compared by its state, not by its version.
MutantTargetStands(p) == candidate[p] # 0 /\ SlotOpen /\ slot.bound

\* verify_correction_candidate_target_against_slot.
TargetStands(p) ==
  /\ candidate[p] = slot.version
  /\ SlotOpen
  /\ slot.bound

\* proposal_usage: rows that still hold a PersonalMemoryPatchProposalState.
OpenProposals == {p \in Proposals : Version(p) \in 1 .. 4}

\* Mutant: at the limit one more is accepted.
MutantQuotaPasses == /\ Cardinality(ActivePatches) <= slot.limit
                     /\ Cardinality(OpenProposals) <= MaximumProposals

\* _quota_and_model_results.
QuotaPasses == /\ Cardinality(ActivePatches) < slot.limit
               /\ Cardinality(OpenProposals) <= MaximumProposals

\* Mutant: only proposals that await their approval are read.
MutantPeers(p) == {q \in Proposals : Version(q) = 4} \ {p}

\* list_peers: committed and active rows are selected too, but their JSON has
\* no statement at its top, and they are dropped.
Peers(p) == OpenProposals \ {p}

SameClaim(p, q) == Claim[p] = Claim[q]
Contradict(p, q) == /\ Claim[p].subject = Claim[q].subject
                    /\ Claim[p].negative # Claim[q].negative

\* _peer_results.
PeersAgree(p) == \A q \in Peers(p) : ~ SameClaim(p, q) /\ ~ Contradict(p, q)

\* _verify_evidence_current.
EvidenceCurrent(p, now) ==
  now - proposal[p].validated_at \in 0 .. RevalidationAge

\* Idempotency of Step 30: nothing was begun under the key.
NewOperation(kind, key) ==
  \A o \in operations : << o.kind, o.key >> # << kind, key >>

\* Replay identities of Step 32, and the unique indexes on them.
NewRecord(kind, key) ==
  \A r \in records : << r.kind, r.key >> # << kind, key >>

-----------------------------------------------------------------------------
(* PersonalMemoryService.                                                    *)

PersonalMemoryTransitions ==
  [EMPTY |-> {"CONFIGURED", "DELETED_PENDING"},
   CONFIGURED |-> {"ACTIVE", "ARCHIVED", "DELETED_PENDING"},
   ACTIVE |-> {"SUSPENDED", "ARCHIVED", "DELETED_PENDING"},
   SUSPENDED |-> {"ACTIVE", "ARCHIVED", "DELETED_PENDING"},
   ARCHIVED |-> {"CONFIGURED", "DELETED_PENDING"},
   DELETED_PENDING |-> {"DELETED"},
   DELETED |-> {}]

UpdateSlot(state, limit, bound) ==
  /\ slot.version < MaxSlotVersion
  /\ slot' = [state |-> state, version |-> slot.version + 1,
              limit |-> limit, bound |-> bound]

SlotOnly == UNCHANGED << candidate, proposal, item, receipts, operations, records >>

TransitionSlot(target) ==
  /\ target \in PersonalMemoryTransitions[slot.state]
  /\ WithinQuota(slot.limit)
  /\ UpdateSlot(target, slot.limit, slot.bound /\ target # "DELETED")
  /\ SlotOnly

ConfigureSlot(limit) ==
  /\ slot.state \notin {"DELETED_PENDING", "DELETED"}
  /\ WithinQuota(limit)
  /\ UpdateSlot(IF slot.state = "EMPTY" THEN "CONFIGURED" ELSE slot.state,
                limit, slot.bound)
  /\ SlotOnly

\* Adding a binding that is there is accepted, removing one that is not is not.
UpdateModelBinding(add) ==
  /\ slot.state \in {"CONFIGURED", "ACTIVE", "SUSPENDED"}
  /\ add \/ slot.bound
  /\ UpdateSlot(slot.state, slot.limit, add)
  /\ SlotOnly

\* request_export dates the row, and with it the slot hash.
RequestSlotExport ==
  /\ slot.state # "DELETED"
  /\ UpdateSlot(slot.state, slot.limit, slot.bound)
  /\ SlotOnly

-----------------------------------------------------------------------------
(* Steps 28 and 29.                                                          *)

\* The envelope is built from the slot as its producer saw it; only one that
\* still matches is stored, and it is never bound anew.
SubmitCandidate(p) ==
  /\ candidate[p] = 0
  /\ SlotOpen /\ slot.bound
  /\ candidate' = [candidate EXCEPT ![p] = slot.version]
  /\ UNCHANGED << slot, proposal, item, receipts, operations, records >>

ProposalOnly == UNCHANGED << slot, candidate, item, receipts, operations, records >>

CreateProposal(p, at) ==
  /\ Version(p) = 0
  /\ TargetStands(p)
  /\ Cardinality(OpenProposals) < MaximumProposals
  \* the unique index on the deduplication key, whatever became of the other
  /\ \A q \in Proposals \ {p} : Version(q) > 0 => ~ SameClaim(p, q)
  /\ proposal' = [proposal EXCEPT ![p] =
       [version |-> 1, created_at |-> at, validated_at |-> None,
        updated_at |-> at]]
  /\ ProposalOnly

\* transition_proposal, the compare-and-set every step of a proposal ends with.
Move(p, version, at) ==
  /\ Version(p) = version - 1
  /\ at >= proposal[p].created_at
  /\ proposal' = [proposal EXCEPT ![p] =
       [version |-> version, created_at |-> proposal[p].created_at,
        validated_at |-> IF version = 3 THEN at ELSE proposal[p].validated_at,
        updated_at |-> at]]

BindEvidence(p, at) ==
  /\ TargetStands(p)
  /\ Move(p, 2, at)
  /\ ProposalOnly

\* A receipt that is not `validated' ends the operation and leaves the
\* proposal as it is; what passes depends on the evidence too.
ValidateProposal(p, at) ==
  /\ TargetStands(p)
  /\ PeersAgree(p)
  /\ QuotaPasses
  /\ Move(p, 3, at)
  /\ ProposalOnly

AdvanceToAwaitingApproval(p, at) ==
  /\ Version(p) = 3
  /\ TargetStands(p)
  /\ at - proposal[p].validated_at <= RevalidationAge
  /\ PeersAgree(p)
  /\ QuotaPasses
  /\ Move(p, 4, at)
  /\ ProposalOnly

-----------------------------------------------------------------------------
(* Step 30.                                                                  *)

\* _verify_current_target_and_policy; no peer is read any more.
Current(p, now) ==
  /\ EvidenceCurrent(p, now)
  /\ TargetStands(p)
  /\ QuotaPasses

\* A proposal leaves `version' on a trusted reading that is not before its row.
Step30(p, kind, version, key, now) ==
  /\ NewOperation(kind, key)
  /\ Version(p) = version
  /\ Current(p, now)
  /\ now >= proposal[p].updated_at
  /\ Move(p, version + 1, now)
  /\ operations' = operations \cup {[kind |-> kind, key |-> key, patch |-> p]}
  /\ UNCHANGED << slot, candidate, records >>

Approve(p, key, now) ==
  /\ Step30(p, "APPROVE", 4, key, now)
  /\ receipts' = [receipts EXCEPT ![p].approval = key]
  /\ UNCHANGED item

Commit(p, key, now) ==
  /\ Step30(p, "COMMIT", 5, key, now)
  /\ receipts' = [receipts EXCEPT ![p].commit = key]
  /\ item' = [item EXCEPT ![p].state = "INACTIVE"]

Activate(p, key, now) ==
  /\ Step30(p, "ACTIVATE", 6, key, now)
  /\ item[p].state = "INACTIVE"
  /\ receipts' = [receipts EXCEPT ![p].activation = key]
  /\ item' = [item EXCEPT ![p].state = "ACTIVE"]

-----------------------------------------------------------------------------
(* Step 32.  The proposal row stays ACTIVE; what ends is the item.           *)

\* Mutant: the proposal is asked, not the item.
MutantLive(p) == Version(p) = 7

\* lock_active_patch.
Live(p) == Version(p) = 7 /\ item[p].state = "ACTIVE"

\* _terminalize_patch, with the record that the item refers to.
Terminalize(p, end, record) ==
  /\ NewRecord(record.kind, record.key)
  /\ Live(p)
  /\ records' = records \cup {record}
  /\ item' = [item EXCEPT ![p] = end]
  /\ UNCHANGED << candidate, proposal, receipts, operations >>

Superseded(new, at) ==
  [state |-> "SUPERSEDED", superseded_by |-> new, effective_at |-> at]
Supersession(old, new, key, at) ==
  [kind |-> "SUPERSEDE", key |-> key, patch |-> old, by |-> new,
   effective_at |-> at]

\* Mutant: the new patch may have ended.
MutantSupersede(old, new, key, at) ==
  /\ SlotOpen
  /\ old # new
  /\ Version(new) = 7
  /\ Terminalize(old, Superseded(new, at), Supersession(old, new, key, at))
  /\ at >= proposal[old].updated_at /\ at >= proposal[new].updated_at
  /\ UNCHANGED slot

\* The owner dates it, after both activations and not after the trusted clock.
Supersede(old, new, key, at) ==
  /\ SlotOpen
  /\ old # new
  /\ Live(new)
  /\ Terminalize(old, Superseded(new, at), Supersession(old, new, key, at))
  /\ at >= proposal[old].updated_at /\ at >= proposal[new].updated_at
  /\ UNCHANGED slot

\* The date of this end is never read: neither kind is ever retrieved.
Ended(state) == [state |-> state, superseded_by |-> None, effective_at |-> None]

Revoke(p, key) ==
  /\ SlotOpen
  /\ Terminalize(p, Ended("REVOKED"), [kind |-> "REVOKE", key |-> key, patch |-> p])
  /\ UNCHANGED slot

\* One patch is deleted, and the whole slot with it.
Delete(p, key) ==
  /\ slot.state = "DELETED_PENDING"
  /\ Terminalize(p, Ended("DELETED"), [kind |-> "DELETE", key |-> key, patch |-> p])
  /\ UpdateSlot("DELETED", slot.limit, FALSE)

ProposeShared(p, key) ==
  /\ NewRecord("PROMOTE", key)
  /\ SlotOpen
  /\ Live(p)
  /\ records' = records \cup {[kind |-> "PROMOTE", key |-> key, patch |-> p]}
  /\ UNCHANGED << slot, candidate, proposal, item, receipts, operations >>

-----------------------------------------------------------------------------
SlotNext == \/ \E target \in SpaceState : TransitionSlot(target)
            \/ \E limit \in Limits : ConfigureSlot(limit)
            \/ \E add \in BOOLEAN : UpdateModelBinding(add)
            \/ RequestSlotExport

ProposalNext(p) == \/ SubmitCandidate(p)
                   \/ \E at \in Times : \/ CreateProposal(p, at)
                                        \/ BindEvidence(p, at)
                                        \/ ValidateProposal(p, at)
                                        \/ AdvanceToAwaitingApproval(p, at)

OwnerNext(p, key) == \/ \E now \in Times : \/ Approve(p, key, now)
                                           \/ Commit(p, key, now)
                                           \/ Activate(p, key, now)
                     \/ \E q \in Proposals, at \in Times : Supersede(p, q, key, at)
                     \/ Revoke(p, key)
                     \/ Delete(p, key)
                     \/ ProposeShared(p, key)

Next == \/ SlotNext
        \/ \E p \in Proposals : \/ ProposalNext(p)
                                \/ \E key \in KeysOf[p] : OwnerNext(p, key)

Spec == Init /\ [][Next]_patchVars

-----------------------------------------------------------------------------
(* The answers to repeated requests.  A replay changes nothing.              *)

\* Mutant: an approval is replayed only while the patch is APPROVED.
MutantOperationReplayed(o) ==
  /\ Version(o.patch) = CASE o.kind = "APPROVE" -> 5
                          [] o.kind = "COMMIT" -> 6
                          [] o.kind = "ACTIVATE" -> 7
  /\ o.key \in {receipts[o.patch].approval, receipts[o.patch].commit,
                receipts[o.patch].activation}

\* approve, commit and activate when the operation is known: the state read
\* from the proposal must hold the receipt of this key.
OperationReplayed(o) ==
  /\ o.kind = "APPROVE" =>
       Version(o.patch) >= 5 /\ receipts[o.patch].approval = o.key
  /\ o.kind = "COMMIT" =>
       Version(o.patch) >= 6 /\ receipts[o.patch].commit = o.key
  /\ o.kind = "ACTIVATE" =>
       Version(o.patch) = 7 /\ receipts[o.patch].activation = o.key

\* Step 32 rebuilds the record from the proposals, which must be ACTIVE, and
\* compares it with the stored one before it looks at the slot; a deletion is
\* rebuilt from the request, and the slot must be DELETED.
RecordReplayed(r) ==
  /\ r.kind \in {"SUPERSEDE", "REVOKE", "PROMOTE"} => Version(r.patch) = 7
  /\ r.kind = "SUPERSEDE" => Version(r.by) = 7
  /\ r.kind = "DELETE" => slot.state = "DELETED"

-----------------------------------------------------------------------------
(* Properties.                                                               *)

\* Every row and record holds values of its columns.
PatchTypeOK == /\ slot \in Slot
               /\ candidate \in [Proposals -> 0 .. MaxSlotVersion]
               /\ proposal \in [Proposals -> Proposal]
               /\ item \in [Proposals -> Item]
               /\ receipts \in [Proposals -> Receipts]
               /\ operations \subseteq Operation
               /\ records \subseteq Record

\* However approvals, activations and reconfigurations interleave, no more
\* patches are active than the slot's policy allows at that moment
\* (_quota_and_model_results, enforce_step27_quota on every slot update).
QuotaRespected == Cardinality(ActivePatches) <= slot.limit

\* Slot, proposals and patches agree: every row is well typed and the active
\* patches fit the policy the slot has.
PatchRecordsAgree == PatchTypeOK /\ QuotaRespected

\* Two proposals that contradict each other are never both validated and open:
\* the owner is not asked to approve a statement and its negation at the same
\* time (list_peers and _peer_results, again before the last edge).
NoContradictionAwaitsApproval ==
  \A p, q \in Proposals :
    Contradict(p, q) => ~ {Version(p), Version(q)} \subseteq {3, 4}

\* A request of Steps 30 and 32 that took effect is answered when it is
\* repeated, however far the patch and the slot have moved on, and was recorded
\* for one patch only (the replay branches of the two lifecycle services).
EffectsAreReplayable ==
  /\ \A o \in operations : OperationReplayed(o)
  /\ \A r \in records : RecordReplayed(r)
  /\ \A o1, o2 \in operations :
       o1.kind = o2.kind /\ o1.key = o2.key => o1 = o2

Successors(p, steps) ==
  LET reach[n \in 0 .. steps] ==
        IF n = 0 THEN {p}
        ELSE reach[n - 1]
               \cup ({item[q].superseded_by : q \in reach[n - 1]} \ {None})
  IN  reach[steps]

\* A patch ends once and for one recorded reason, and the patches that replace
\* a superseded one form a chain to a patch that was not replaced, never a
\* cycle (_terminalize_patch and the unique indexes of migration 0015).
Ends(p) == {r \in records : r.kind # "PROMOTE" /\ r.patch = p}

EndIsRecorded ==
  \A p \in Proposals :
    /\ \A r1, r2 \in Ends(p) : r1 = r2
    /\ item[p].state \in {"SUPERSEDED", "REVOKED", "DELETED"} <=> Ends(p) # {}
    /\ \A r \in Ends(p) : r.kind = "SUPERSEDE" =>
         /\ item[p].state = "SUPERSEDED"
         /\ item[p].superseded_by = r.by
         /\ item[p].effective_at = r.effective_at

ChainsEnd ==
  \A p \in Proposals : item[p].state = "SUPERSEDED" =>
    \E q \in Successors(p, Cardinality(Proposals)) :
      Version(q) = 7 /\ item[q].superseded_by = None

PatchesEndOnce == EndIsRecorded /\ ChainsEnd

\* What the slot no longer supports stands still: once the slot has changed
\* since the candidate was bound, its proposal takes no step whatever the slot
\* becomes later, and once the slot is deleted nothing of it changes
\* (_verify_current_target at every edge, the slot checks of Step 32).
StaleTargetsAreFrozen ==
  [][/\ \A p \in Proposals :
          candidate[p] # slot.version => proposal'[p] = proposal[p]
     /\ slot.state = "DELETED" => patchVars' = patchVars]_patchVars

\* "Conflict checking deterministically detects direct polarity contradiction,
\* ... and existing-patch conflicts."
ExistingPatchConflictsDetected ==
  [][\A p, q \in Proposals :
       Contradict(p, q) /\ Version(p) = 2 /\ item[q].state = "ACTIVE"
         => Version(p)' # 3]_patchVars

\* The status the kernel gives a patch: that of its proposal until the item
\* ends; DELETED is a state of the item, not of MEMORY_PATCH_TRANSITIONS.
Status(p) ==
  IF item[p].state = "SUPERSEDED" THEN "SUPERSEDED"
  ELSE IF item[p].state \in {"REVOKED", "DELETED"} THEN "REVOKED"
  ELSE IF Version(p) = 0 THEN "DETECTED" ELSE StateOf[Version(p)]

Kernel == INSTANCE PatchLifecycle WITH
  Patches <- Proposals, NoPatch <- None,
  status <- [p \in Proposals |-> Status(p)],
  successor <- [p \in Proposals |-> item[p].superseded_by]

\* Proposal rows, items and records together take each patch along the edges
\* of the kernel's table, one at a time, and only an active patch replaces
\* another one.
ImplementsPatchLifecycle == Kernel!PatchSpec
=============================================================================
