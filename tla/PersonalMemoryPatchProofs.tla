--------------------- MODULE PersonalMemoryPatchProofs ---------------------
(* Proofs about PersonalMemoryPatch, for any finite set of proposals, any    *)
(* claims, keys, limits and clock readings.                                  *)
(*                                                                           *)
(* PatchInv is the inductive invariant.  Beside the properties of the run it *)
(* says at which versions of its proposal a patch has its item, and in which *)
(* state (Staged): the proposal row keeps the version of an active patch     *)
(* when the item ends, so that neither table alone tells what a patch is.    *)
(* The quota needs it, because a commit must not touch an active item, and   *)
(* so do the replays, because what is replayed is read from the proposal.    *)
(* Chains of successors end because they can be ranked: a patch that         *)
(* replaces another is active then and itself not replaced.                  *)
EXTENDS PatchRetrieval, InductionLemmas

-----------------------------------------------------------------------------

\* Where the item of a patch is at each version of its proposal.
Staged ==
  \A p \in Proposals :
    /\ item[p].state = "NONE" <=> Version(p) < 6
    /\ item[p].state = "INACTIVE" <=> Version(p) = 6
    /\ item[p].superseded_by # None => item[p].state = "SUPERSEDED"

PatchInv == /\ PatchTypeOK
            /\ QuotaRespected
            /\ Staged
            /\ NoContradictionAwaitsApproval
            /\ EffectsAreReplayable
            /\ EndIsRecorded

LEMMA ActiveAreFinite ==
    ASSUME NEW S, S \subseteq Proposals
    PROVE  IsFiniteSet(S) /\ Cardinality(S) \in Nat
BY PatchAssumption, FS_Subset, FS_CardinalityType

LEMMA FewerAreWithin ==
    ASSUME NEW S, NEW T, S \subseteq T, T \subseteq Proposals
    PROVE  Cardinality(S) <= Cardinality(T)
BY ActiveAreFinite, FS_Subset

LEMMA VersionsAreStages ==
    ASSUME PatchTypeOK, NEW p \in Proposals
    PROVE  Version(p) \in 0 .. 7 /\ item[p] \in Item /\ proposal[p] \in Proposal
BY DEF PatchTypeOK, Version, Proposal

LEMMA SlotRow ==
    ASSUME NEW state \in SpaceState, NEW version \in 1 .. MaxSlotVersion,
           NEW limit \in Limits, NEW bound \in BOOLEAN
    PROVE  [state |-> state, version |-> version, limit |-> limit, bound |-> bound]
             \in Slot
BY DEF Slot

LEMMA SlotColumns ==
    ASSUME PatchTypeOK
    PROVE  /\ slot.state \in SpaceState /\ slot.version \in 1 .. MaxSlotVersion
           /\ slot.limit \in Limits /\ slot.bound \in BOOLEAN
           /\ MaxSlotVersion \in Nat /\ Limits \subseteq Nat
BY PatchAssumption DEF PatchTypeOK, Slot

LEMMA NextSlotRow ==
    ASSUME PatchTypeOK, NEW state \in SpaceState, NEW limit \in Limits,
           NEW bound \in BOOLEAN, UpdateSlot(state, limit, bound)
    PROVE  slot' \in Slot /\ slot'.version = slot.version + 1 /\ slot'.limit = limit
<1>1. slot.version + 1 \in 1 .. MaxSlotVersion
  BY SlotColumns DEF UpdateSlot
<1>2. slot' = [state |-> state, version |-> slot.version + 1, limit |-> limit, bound |-> bound]
  BY DEF UpdateSlot
<1> QED
  BY <1>1, <1>2, SlotRow

-----------------------------------------------------------------------------
(* The steps.                                                                *)

LEMMA PatchInvInit == Init => PatchInv
<1> SUFFICES ASSUME Init PROVE PatchInv
  OBVIOUS
<1>1. PatchTypeOK
  <2>1. slot \in Slot
    <3>1. slot = [state |-> "CONFIGURED", version |-> 1, limit |-> slot.limit,
                  bound |-> TRUE]
      BY DEF Init
    <3>2. slot.limit \in Limits /\ 1 \in 1 .. MaxSlotVersion /\ "CONFIGURED" \in SpaceState
      BY PatchAssumption DEF Init, SpaceState
    <3> QED
      BY <3>1, <3>2, SlotRow
  <2>2. /\ candidate \in [Proposals -> 0 .. MaxSlotVersion]
        /\ proposal \in [Proposals -> Proposal]
        /\ item \in [Proposals -> Item]
        /\ receipts \in [Proposals -> Receipts]
    BY PatchAssumption DEF Init, Proposal, Item, Receipts
  <2> QED
    BY <2>1, <2>2 DEF PatchTypeOK, Init
<1>2. QuotaRespected
  <2>1. ActivePatches = {} /\ Cardinality({}) = 0
    BY FS_EmptySet DEF Init, ActivePatches
  <2> QED
    BY <2>1, <1>1, SlotColumns DEF QuotaRespected
<1>3. Staged /\ NoContradictionAwaitsApproval
  BY DEF Init, Staged, NoContradictionAwaitsApproval, Version
<1>4. EffectsAreReplayable /\ EndIsRecorded
  BY DEF Init, EffectsAreReplayable, EndIsRecorded, Ends
<1> QED
  BY <1>1, <1>2, <1>3, <1>4 DEF PatchInv

\* A step that leaves proposals and items alone, and slot and limit in step.
LEMMA TablesStand ==
    ASSUME PatchInv, PatchTypeOK', UNCHANGED << proposal, item, receipts, operations >>,
           Cardinality(ActivePatches) <= slot'.limit,
           \A r \in records' : RecordReplayed(r)', EndIsRecorded'
    PROVE  PatchInv'
<1>1. QuotaRespected'
  BY DEF PatchInv, QuotaRespected, ActivePatches
<1>2. Staged' /\ NoContradictionAwaitsApproval'
  BY DEF PatchInv, Staged, NoContradictionAwaitsApproval, Version
<1>3. EffectsAreReplayable'
  BY DEF PatchInv, EffectsAreReplayable, OperationReplayed, Version
<1> QED
  BY <1>1, <1>2, <1>3 DEF PatchInv

\* The owner changes the slot: it was not deleted, and the patches that are
\* active fit the limit it has afterwards.
LEMMA SlotMoves ==
    ASSUME PatchInv, SlotNext
    PROVE  /\ slot' \in Slot /\ slot.state # "DELETED"
           /\ slot'.version = slot.version + 1
           /\ Cardinality(ActivePatches) <= slot'.limit
           /\ SlotOnly
<1> USE DEF PatchInv
<1>1. Cardinality(ActivePatches) <= slot.limit
  BY DEF QuotaRespected
<1>2. ASSUME NEW target \in SpaceState, TransitionSlot(target)
      PROVE  slot' \in Slot /\ slot.state # "DELETED" /\ slot'.version = slot.version + 1
             /\ slot'.limit = slot.limit
  <2>1. (slot.bound /\ target # "DELETED") \in BOOLEAN
    OBVIOUS
  <2>2. slot.state # "DELETED"
    BY <1>2 DEF TransitionSlot, PersonalMemoryTransitions
  <2> QED
    BY <1>2, <2>1, <2>2, SlotColumns, NextSlotRow DEF TransitionSlot
<1>3. ASSUME NEW limit \in Limits, ConfigureSlot(limit)
      PROVE  slot' \in Slot /\ slot.state # "DELETED" /\ slot'.version = slot.version + 1
             /\ Cardinality(ActivePatches) <= slot'.limit
  <2>1. (IF slot.state = "EMPTY" THEN "CONFIGURED" ELSE slot.state) \in SpaceState
    BY SlotColumns DEF SpaceState
  <2> QED
    BY <1>3, <2>1, SlotColumns, NextSlotRow DEF ConfigureSlot, WithinQuota
<1>4. ASSUME NEW add \in BOOLEAN, UpdateModelBinding(add)
      PROVE  slot' \in Slot /\ slot.state # "DELETED" /\ slot'.version = slot.version + 1
             /\ slot'.limit = slot.limit
  BY <1>4, SlotColumns, NextSlotRow DEF UpdateModelBinding
<1>5. ASSUME RequestSlotExport
      PROVE  slot' \in Slot /\ slot.state # "DELETED" /\ slot'.version = slot.version + 1
             /\ slot'.limit = slot.limit
  BY <1>5, SlotColumns, NextSlotRow DEF RequestSlotExport
<1>6. SlotOnly
  BY DEF SlotNext, TransitionSlot, ConfigureSlot, UpdateModelBinding, RequestSlotExport
<1> QED
  BY <1>1, <1>2, <1>3, <1>4, <1>5, <1>6 DEF SlotNext

LEMMA SlotStep ==
    ASSUME PatchInv, SlotNext
    PROVE  PatchInv'
<1>1. /\ slot' \in Slot /\ slot.state # "DELETED"
      /\ Cardinality(ActivePatches) <= slot'.limit
      /\ UNCHANGED << candidate, proposal, item, receipts, operations, records >>
  BY SlotMoves DEF SlotOnly
<1>2. PatchTypeOK'
  BY <1>1 DEF PatchInv, PatchTypeOK
<1>3. \A r \in records' : RecordReplayed(r)'
  BY <1>1 DEF PatchInv, EffectsAreReplayable, RecordReplayed, Version
<1>4. EndIsRecorded'
  BY <1>1 DEF PatchInv, EndIsRecorded, Ends
<1> QED
  BY <1>1, <1>2, <1>3, <1>4, TablesStand

LEMMA SubmitStep ==
    ASSUME PatchInv, NEW p \in Proposals, SubmitCandidate(p)
    PROVE  PatchInv'
<1>1. PatchTypeOK'
  BY PatchAssumption DEF SubmitCandidate, PatchInv, PatchTypeOK, Slot
<1>2. \A r \in records' : RecordReplayed(r)'
  BY DEF SubmitCandidate, PatchInv, EffectsAreReplayable, RecordReplayed, Version
<1>3. EndIsRecorded' /\ Cardinality(ActivePatches) <= slot'.limit
  BY DEF SubmitCandidate, PatchInv, EndIsRecorded, Ends, QuotaRespected
<1> QED
  BY <1>1, <1>2, <1>3, TablesStand DEF SubmitCandidate

\* A proposal takes an edge before its approval; the edges to VALIDATED and
\* AWAITING_APPROVAL ask the peers.
LEMMA ProposalMoves ==
    ASSUME PatchInv, NEW p \in Proposals, NEW v \in 1 .. 4, NEW r \in Proposal,
           r.version = v, Version(p) = v - 1,
           proposal' = [proposal EXCEPT ![p] = r],
           v \in {3, 4} => PeersAgree(p), ProposalOnly
    PROVE  PatchInv'
<1>1. /\ \A q \in Proposals : Version(q)' = IF q = p THEN v ELSE Version(q)
      /\ \A q \in Proposals : Version(q) \in 0 .. 7
  BY VersionsAreStages DEF Version, PatchInv, PatchTypeOK
<1> USE DEF ProposalOnly
<1>2. PatchTypeOK'
  BY DEF PatchInv, PatchTypeOK
<1>3. QuotaRespected'
  BY DEF PatchInv, QuotaRespected, ActivePatches
<1>4. Staged'
  BY <1>1 DEF PatchInv, Staged
<1>5. NoContradictionAwaitsApproval'
  <2> SUFFICES ASSUME NEW x \in Proposals, NEW y \in Proposals, Contradict(x, y),
                      {Version(x), Version(y)}' \subseteq {3, 4}
               PROVE  FALSE
    BY DEF NoContradictionAwaitsApproval, Contradict
  <2>1. x # y /\ Contradict(y, x)
    BY DEF Contradict
  <2>2. CASE x # p /\ y # p
    BY <1>1, <2>2 DEF PatchInv, NoContradictionAwaitsApproval
  <2>3. CASE x = p
    <3>1. PeersAgree(p) /\ y \in Peers(p)
      BY <1>1, <2>1, <2>3 DEF Peers, OpenProposals
    <3> QED
      BY <3>1, <2>3 DEF PeersAgree
  <2>4. CASE y = p
    <3>1. PeersAgree(p) /\ x \in Peers(p)
      BY <1>1, <2>1, <2>4 DEF Peers, OpenProposals
    <3> QED
      BY <3>1, <2>1, <2>4 DEF PeersAgree
  <2> QED
    BY <2>2, <2>3, <2>4
<1>6. EffectsAreReplayable'
  <2>1. \A o \in operations : o.patch # p
    BY <1>1 DEF PatchInv, EffectsAreReplayable, OperationReplayed, PatchTypeOK, Operation
  <2>2. \A o \in operations : OperationReplayed(o)'
    BY <1>1, <2>1 DEF PatchInv, EffectsAreReplayable, OperationReplayed, PatchTypeOK, Operation
  <2>3. \A s \in records : RecordReplayed(s)'
    BY <1>1 DEF PatchInv, EffectsAreReplayable, RecordReplayed, PatchTypeOK, Record
  <2> QED
    BY <2>2, <2>3 DEF PatchInv, EffectsAreReplayable
<1>7. EndIsRecorded'
  BY DEF PatchInv, EndIsRecorded, Ends
<1> QED
  BY <1>2, <1>3, <1>4, <1>5, <1>6, <1>7 DEF PatchInv

LEMMA ProposalStep ==
    ASSUME PatchInv, NEW p \in Proposals, ProposalNext(p)
    PROVE  PatchInv'
<1>1. CASE SubmitCandidate(p)
  BY <1>1, SubmitStep
<1>2. ASSUME NEW at \in Times, CreateProposal(p, at) PROVE PatchInv'
  <2> DEFINE r == [version |-> 1, created_at |-> at, validated_at |-> None, updated_at |-> at]
  <2>1. r \in Proposal
    BY DEF Proposal
  <2>2. r.version = 1 /\ Version(p) = 1 - 1 /\ proposal' = [proposal EXCEPT ![p] = r] /\ ProposalOnly
    BY <1>2 DEF CreateProposal
  <2>3. 1 \in 1 .. 4 /\ ~ 1 \in {3, 4}
    OBVIOUS
  <2> HIDE DEF r
  <2> QED
    BY ONLY PatchInv, p \in Proposals, <2>1, <2>2, <2>3, ProposalMoves
<1>3. ASSUME NEW at \in Times, NEW v \in {2, 3, 4}, Move(p, v, at), ProposalOnly,
             v \in {3, 4} => PeersAgree(p)
      PROVE  PatchInv'
  <2> DEFINE r == [version |-> v, created_at |-> proposal[p].created_at,
                   validated_at |-> IF v = 3 THEN at ELSE proposal[p].validated_at,
                   updated_at |-> at]
  <2>1. proposal[p] \in Proposal
    BY VersionsAreStages DEF PatchInv
  <2>2. r \in Proposal /\ r.version = v
    BY <2>1 DEF Proposal
  <2>3. Version(p) = v - 1 /\ proposal' = [proposal EXCEPT ![p] = r]
    BY <1>3 DEF Move
  <2>4. v \in 1 .. 4
    OBVIOUS
  <2> HIDE DEF r
  <2> QED
    BY ONLY PatchInv, p \in Proposals, <2>2, <2>3, <2>4, <1>3, ProposalMoves
<1>4. ASSUME NEW at \in Times, BindEvidence(p, at) PROVE PatchInv'
  BY <1>4, <1>3 DEF BindEvidence
<1>5. ASSUME NEW at \in Times, ValidateProposal(p, at) PROVE PatchInv'
  BY <1>5, <1>3 DEF ValidateProposal
<1>6. ASSUME NEW at \in Times, AdvanceToAwaitingApproval(p, at) PROVE PatchInv'
  BY <1>6, <1>3 DEF AdvanceToAwaitingApproval
<1> QED
  BY <1>1, <1>2, <1>4, <1>5, <1>6 DEF ProposalNext

-----------------------------------------------------------------------------
(* Step 30.                                                                  *)

\* What an operation of the owner does with a proposal of version v.
Advances(p, kind, v, key) ==
  /\ Version(p) = v
  /\ \A q \in Proposals : Version(q)' = IF q = p THEN v + 1 ELSE Version(q)
  /\ proposal' \in [Proposals -> Proposal]
  /\ operations' = operations \cup {[kind |-> kind, key |-> key, patch |-> p]}
  /\ [kind |-> kind, key |-> key, patch |-> p] \in Operation
  /\ \A o \in operations : << o.kind, o.key >> # << kind, key >>
  /\ Cardinality(ActivePatches) < slot.limit
  /\ UNCHANGED << slot, candidate, records >>

LEMMA Step30Moves ==
    ASSUME PatchInv, NEW p \in Proposals, NEW key \in Keys, NEW now \in Times,
           NEW kind \in {"APPROVE", "COMMIT", "ACTIVATE"}, NEW v \in 4 .. 6,
           Step30(p, kind, v, key, now)
    PROVE  Advances(p, kind, v, key)
<1> DEFINE r == [version |-> v + 1, created_at |-> proposal[p].created_at,
                 validated_at |-> IF v + 1 = 3 THEN now ELSE proposal[p].validated_at,
                 updated_at |-> now]
<1>1. proposal[p] \in Proposal /\ proposal \in [Proposals -> Proposal]
  BY DEF PatchInv, PatchTypeOK
<1>2. r \in Proposal /\ r.version = v + 1
  BY <1>1 DEF Proposal
<1>3. proposal' = [proposal EXCEPT ![p] = r]
  BY DEF Step30, Move
<1> HIDE DEF r
<1>4. /\ proposal' \in [Proposals -> Proposal]
      /\ \A q \in Proposals : Version(q)' = IF q = p THEN v + 1 ELSE Version(q)
  BY <1>1, <1>2, <1>3 DEF Version
<1>5. [kind |-> kind, key |-> key, patch |-> p] \in Operation
  BY DEF Operation
<1> QED
  BY <1>4, <1>5 DEF Advances, Step30, NewOperation, Current, QuotaPasses

\* What is left of the invariant once the item and the receipts are known.
LEMMA Step30Keeps ==
    ASSUME PatchInv, NEW p \in Proposals, NEW key \in Keys, NEW kind, NEW v \in 4 .. 6,
           Advances(p, kind, v, key),
           receipts' \in [Proposals -> Receipts], item' \in [Proposals -> Item],
           QuotaRespected', Staged',
           \A o \in operations' : OperationReplayed(o)',
           \A q \in Proposals :
             \/ item'[q] = item[q]
             \/ {item'[q].state, item[q].state} \cap {"SUPERSEDED", "REVOKED", "DELETED"}
                  = {}
    PROVE  PatchInv'
<1> USE DEF Advances
<1>1. PatchTypeOK'
  BY DEF PatchInv, PatchTypeOK
<1>2. NoContradictionAwaitsApproval'
  BY DEF PatchInv, NoContradictionAwaitsApproval, Contradict
<1>3. EffectsAreReplayable'
  <2>1. \A r \in records' : RecordReplayed(r)'
    BY DEF PatchInv, EffectsAreReplayable, RecordReplayed, PatchTypeOK, Record
  <2>2. \A o1, o2 \in operations' : o1.kind = o2.kind /\ o1.key = o2.key => o1 = o2
    BY DEF PatchInv, EffectsAreReplayable
  <2> QED
    BY <2>1, <2>2 DEF EffectsAreReplayable
<1>4. EndIsRecorded'
  <2>1. \A q \in Proposals : Ends(q)' = Ends(q)
    BY DEF Ends
  <2>2. ASSUME NEW q \in Proposals,
               {item'[q].state, item[q].state} \cap {"SUPERSEDED", "REVOKED", "DELETED"} = {}
        PROVE  Ends(q) = {} /\ item'[q].state \notin {"SUPERSEDED", "REVOKED", "DELETED"}
    BY <2>2 DEF PatchInv, EndIsRecorded
  <2> QED
    BY <2>1, <2>2 DEF PatchInv, EndIsRecorded
<1> QED
  BY <1>1, <1>2, <1>3, <1>4 DEF PatchInv

\* The operations recorded before stay replayable: none of them is of a patch
\* that has not got so far yet, and the receipts of the others stand.
LEMMA OldOperationsStand ==
    ASSUME PatchInv, NEW p \in Proposals, NEW kind, NEW key, NEW v \in 4 .. 6,
           Advances(p, kind, v, key), NEW o \in operations,
           o.patch # p => receipts'[o.patch] = receipts[o.patch],
           v > 4 => receipts'[p].approval = receipts[p].approval,
           v > 5 => receipts'[p].commit = receipts[p].commit
    PROVE  OperationReplayed(o)'
<1>1. /\ o.patch \in Proposals /\ OperationReplayed(o)
      /\ o.kind \in {"APPROVE", "COMMIT", "ACTIVATE"}
  BY DEF PatchInv, PatchTypeOK, Operation, EffectsAreReplayable
<1>2. Version(o.patch)' = IF o.patch = p THEN v + 1 ELSE Version(o.patch)
  BY <1>1 DEF Advances
<1>3. Version(p) = v
  BY DEF Advances
<1>4. CASE o.patch = p
  BY <1>1, <1>2, <1>3, <1>4 DEF OperationReplayed
<1>5. CASE o.patch # p
  BY <1>1, <1>2, <1>5 DEF OperationReplayed
<1> QED
  BY <1>4, <1>5

LEMMA ApproveStep ==
    ASSUME PatchInv, NEW p \in Proposals, NEW key \in Keys, NEW now \in Times,
           Approve(p, key, now)
    PROVE  PatchInv'
<1>1. Advances(p, "APPROVE", 4, key)
  BY Step30Moves DEF Approve
<1>2. /\ receipts' = [receipts EXCEPT ![p].approval = key] /\ item' = item
      /\ receipts \in [Proposals -> Receipts] /\ item \in [Proposals -> Item]
  BY DEF Approve, PatchInv, PatchTypeOK
<1>3. receipts' \in [Proposals -> Receipts]
  BY <1>2 DEF Receipts
<1>4. QuotaRespected'
  BY <1>1, <1>2 DEF PatchInv, QuotaRespected, ActivePatches, Advances
<1>5. Staged'
  BY <1>1, <1>2 DEF PatchInv, Staged, Advances
<1>6. \A o \in operations' : OperationReplayed(o)'
  <2>1. ASSUME NEW o \in operations PROVE OperationReplayed(o)'
    BY <1>1, <1>2, OldOperationsStand
  <2>2. OperationReplayed([kind |-> "APPROVE", key |-> key, patch |-> p])'
    BY <1>1, <1>2 DEF OperationReplayed, Advances, Receipts
  <2> QED
    BY <1>1, <2>1, <2>2 DEF Advances
<1> QED
  BY <1>1, <1>2, <1>3, <1>4, <1>5, <1>6, Step30Keeps

LEMMA CommitStep ==
    ASSUME PatchInv, NEW p \in Proposals, NEW key \in Keys, NEW now \in Times,
           Commit(p, key, now)
    PROVE  PatchInv'
<1>1. Advances(p, "COMMIT", 5, key)
  BY Step30Moves DEF Commit
<1>2. /\ receipts' = [receipts EXCEPT ![p].commit = key]
      /\ item' = [item EXCEPT ![p].state = "INACTIVE"]
      /\ receipts \in [Proposals -> Receipts] /\ item \in [Proposals -> Item]
  BY DEF Commit, PatchInv, PatchTypeOK
<1>3. receipts' \in [Proposals -> Receipts] /\ item' \in [Proposals -> Item]
  BY <1>2 DEF Receipts, Item
<1>4. /\ item[p].state = "NONE" /\ item'[p].state = "INACTIVE"
      /\ \A q \in Proposals \ {p} : item'[q] = item[q]
      /\ \A q \in Proposals : item'[q].superseded_by = item[q].superseded_by
  BY <1>1, <1>2 DEF PatchInv, Staged, Advances, Item
<1>5. QuotaRespected'
  <2>1. ActivePatches' = ActivePatches
    BY <1>4 DEF ActivePatches
  <2> QED
    BY <1>1, <2>1 DEF PatchInv, QuotaRespected, Advances
<1>6. Staged'
  BY <1>1, <1>4 DEF PatchInv, Staged, Advances
<1>7. \A o \in operations' : OperationReplayed(o)'
  <2>1. ASSUME NEW o \in operations PROVE OperationReplayed(o)'
    <3>1. /\ receipts'[p].approval = receipts[p].approval
          /\ o.patch # p => receipts'[o.patch] = receipts[o.patch]
      BY <1>2 DEF PatchInv, PatchTypeOK, Operation, Receipts
    <3> QED
      BY <1>1, <3>1, OldOperationsStand
  <2>2. OperationReplayed([kind |-> "COMMIT", key |-> key, patch |-> p])'
    BY <1>1, <1>2 DEF OperationReplayed, Advances, Receipts
  <2> QED
    BY <1>1, <2>1, <2>2 DEF Advances
<1> QED
  BY <1>1, <1>3, <1>4, <1>5, <1>6, <1>7, Step30Keeps

LEMMA ActivateStep ==
    ASSUME PatchInv, NEW p \in Proposals, NEW key \in Keys, NEW now \in Times,
           Activate(p, key, now)
    PROVE  PatchInv'
<1>1. Advances(p, "ACTIVATE", 6, key)
  BY Step30Moves DEF Activate
<1>2. /\ receipts' = [receipts EXCEPT ![p].activation = key]
      /\ item' = [item EXCEPT ![p].state = "ACTIVE"]
      /\ receipts \in [Proposals -> Receipts] /\ item \in [Proposals -> Item]
      /\ item[p].state = "INACTIVE"
  BY DEF Activate, PatchInv, PatchTypeOK
<1>3. receipts' \in [Proposals -> Receipts] /\ item' \in [Proposals -> Item]
  BY <1>2 DEF Receipts, Item
<1>4. /\ item'[p].state = "ACTIVE"
      /\ \A q \in Proposals \ {p} : item'[q] = item[q]
      /\ \A q \in Proposals : item'[q].superseded_by = item[q].superseded_by
  BY <1>2 DEF Item
<1>5. QuotaRespected'
  <2>1. ActivePatches' = ActivePatches \cup {p} /\ p \notin ActivePatches
    BY <1>2, <1>4 DEF ActivePatches
  <2>2. ActivePatches \subseteq Proposals
    BY DEF ActivePatches
  <2>3. /\ Cardinality(ActivePatches) \in Nat
        /\ Cardinality(ActivePatches \cup {p}) = Cardinality(ActivePatches) + 1
    BY <2>1, <2>2, ActiveAreFinite, FS_AddElement
  <2>4. Cardinality(ActivePatches) < slot.limit /\ slot' = slot /\ slot.limit \in Nat
    BY <1>1, SlotColumns DEF Advances, PatchInv
  <2> HIDE DEF ActivePatches
  <2>5. Cardinality(ActivePatches \cup {p}) <= slot.limit
    BY <2>3, <2>4
  <2> QED
    BY <2>1, <2>4, <2>5 DEF QuotaRespected
<1>6. Staged'
  BY <1>1, <1>2, <1>4 DEF PatchInv, Staged, Advances
<1>7. \A o \in operations' : OperationReplayed(o)'
  <2>1. ASSUME NEW o \in operations PROVE OperationReplayed(o)'
    <3>1. /\ receipts'[p].approval = receipts[p].approval
          /\ receipts'[p].commit = receipts[p].commit
          /\ o.patch # p => receipts'[o.patch] = receipts[o.patch]
      BY <1>2 DEF PatchInv, PatchTypeOK, Operation, Receipts
    <3> QED
      BY <1>1, <3>1, OldOperationsStand
  <2>2. OperationReplayed([kind |-> "ACTIVATE", key |-> key, patch |-> p])'
    BY <1>1, <1>2 DEF OperationReplayed, Advances, Receipts
  <2> QED
    BY <1>1, <2>1, <2>2 DEF Advances
<1> QED
  BY <1>1, <1>2, <1>3, <1>4, <1>5, <1>6, <1>7, Step30Keeps

-----------------------------------------------------------------------------
(* Step 32.                                                                  *)

\* An active patch ends, with the record of it.
LEMMA EndStep ==
    ASSUME PatchInv, NEW p \in Proposals,
           NEW end \in Item, NEW record \in Record,
           Terminalize(p, end, record),
           end.state \in {"SUPERSEDED", "REVOKED", "DELETED"},
           end.superseded_by # None => end.state = "SUPERSEDED",
           record.patch = p, record.kind # "PROMOTE",
           record.kind = "SUPERSEDE" =>
             /\ end.state = "SUPERSEDED"
             /\ end.superseded_by = record.by
             /\ end.effective_at = record.effective_at,
           RecordReplayed(record)', slot.state # "DELETED",
           slot' \in Slot, slot'.limit = slot.limit
    PROVE  PatchInv'
<1>1. /\ item[p].state = "ACTIVE" /\ Version(p) = 7
      /\ item' = [item EXCEPT ![p] = end]
      /\ item \in [Proposals -> Item]
      /\ records' = records \cup {record}
      /\ UNCHANGED << candidate, proposal, receipts, operations >>
  BY DEF Terminalize, Live, PatchInv, PatchTypeOK
<1>2. PatchTypeOK'
  BY <1>1 DEF PatchInv, PatchTypeOK
<1>3. /\ \A q \in Proposals \ {p} : item'[q] = item[q]
      /\ item'[p] = end
      /\ \A q \in Proposals : Version(q)' = Version(q)
  BY <1>1 DEF Version
<1>4. QuotaRespected'
  <2>1. ActivePatches' \subseteq ActivePatches /\ ActivePatches \subseteq Proposals
    BY <1>3 DEF ActivePatches
  <2>2. PICK S : S = ActivePatches'
    OBVIOUS
  <2>3. Cardinality(S) <= Cardinality(ActivePatches)
    BY <2>1, <2>2, FewerAreWithin
  <2>4. Cardinality(S) \in Nat /\ Cardinality(ActivePatches) \in Nat
    BY <2>1, <2>2, ActiveAreFinite
  <2>5. Cardinality(ActivePatches) <= slot'.limit /\ slot'.limit \in Nat
    BY SlotColumns DEF PatchInv, QuotaRespected
  <2> HIDE DEF ActivePatches
  <2>6. Cardinality(S) <= slot'.limit
    BY <2>3, <2>4, <2>5
  <2> QED
    BY <2>2, <2>6 DEF QuotaRespected
<1>5. Staged' /\ NoContradictionAwaitsApproval'
  BY <1>1, <1>3 DEF PatchInv, Staged, NoContradictionAwaitsApproval
<1>6. EffectsAreReplayable'
  <2>1. \A o \in operations' : OperationReplayed(o)'
    BY <1>1 DEF PatchInv, EffectsAreReplayable, OperationReplayed, Version
  <2>2. \A r \in records : RecordReplayed(r)'
    BY <1>1 DEF PatchInv, EffectsAreReplayable, RecordReplayed, Version
  <2> QED
    BY <1>1, <2>1, <2>2 DEF PatchInv, EffectsAreReplayable
<1>7. EndIsRecorded'
  <2>1. Ends(p) = {}
    BY <1>1 DEF PatchInv, EndIsRecorded
  <2>2. /\ Ends(p)' = {record}
        /\ \A q \in Proposals \ {p} : Ends(q)' = Ends(q)
    BY <1>1, <2>1 DEF Ends
  <2> QED
    BY <1>3, <2>2 DEF PatchInv, EndIsRecorded
<1> QED
  BY <1>2, <1>4, <1>5, <1>6, <1>7 DEF PatchInv

LEMMA SupersedeStep ==
    ASSUME PatchInv, NEW p \in Proposals, NEW q \in Proposals, NEW key \in Keys,
           NEW at \in Times, Supersede(p, q, key, at)
    PROVE  PatchInv'
<1> DEFINE e == Superseded(q, at)
           r == Supersession(p, q, key, at)
<1>1. /\ r \in Record /\ r.patch = p /\ r.kind = "SUPERSEDE" /\ r.by = q
      /\ e \in Item /\ e.state = "SUPERSEDED" /\ e.superseded_by = r.by
      /\ e.effective_at = r.effective_at
  BY DEF Superseded, Supersession, Record, Item
<1>2. /\ Terminalize(p, e, r) /\ slot.state # "DELETED"
      /\ Live(p) /\ Live(q) /\ slot' = slot
  BY DEF Supersede, SlotOpen, Terminalize
<1> HIDE DEF e, r
<1>3. RecordReplayed(r)'
  BY <1>1, <1>2 DEF RecordReplayed, Live, Terminalize, Version
<1>4. slot' \in Slot
  BY <1>2 DEF PatchInv, PatchTypeOK
<1> QED
  BY <1>1, <1>2, <1>3, <1>4, EndStep

LEMMA RevokeStep ==
    ASSUME PatchInv, NEW p \in Proposals, NEW key \in Keys, Revoke(p, key)
    PROVE  PatchInv'
<1> DEFINE e == Ended("REVOKED")
           r == [kind |-> "REVOKE", key |-> key, patch |-> p]
<1>1. /\ r \in Record /\ r.patch = p /\ r.kind = "REVOKE"
      /\ e \in Item /\ e.state = "REVOKED" /\ e.superseded_by = None
  BY DEF Record, Ended, Item
<1>2. /\ Terminalize(p, e, r) /\ slot.state # "DELETED"
      /\ Live(p) /\ slot' = slot
  BY DEF Revoke, SlotOpen, Terminalize
<1> HIDE DEF e, r
<1>3. RecordReplayed(r)'
  BY <1>1, <1>2 DEF RecordReplayed, Live, Terminalize, Version
<1>4. slot' \in Slot
  BY <1>2 DEF PatchInv, PatchTypeOK
<1> QED
  BY <1>1, <1>2, <1>3, <1>4, EndStep

LEMMA DeleteStep ==
    ASSUME PatchInv, NEW p \in Proposals, NEW key \in Keys, Delete(p, key)
    PROVE  PatchInv'
<1> DEFINE e == Ended("DELETED")
           r == [kind |-> "DELETE", key |-> key, patch |-> p]
<1>1. /\ r \in Record /\ r.patch = p /\ r.kind = "DELETE"
      /\ e \in Item /\ e.state = "DELETED" /\ e.superseded_by = None
  BY DEF Record, Ended, Item
<1>2. /\ Terminalize(p, e, r) /\ slot.state # "DELETED"
      /\ UpdateSlot("DELETED", slot.limit, FALSE)
  BY DEF Delete
<1> HIDE DEF e, r
<1>3. slot' \in Slot /\ slot'.limit = slot.limit
  BY <1>2, SlotColumns, NextSlotRow DEF SpaceState, PatchInv
<1>4. slot'.state = "DELETED"
  BY <1>2 DEF UpdateSlot
<1>5. RecordReplayed(r)'
  BY <1>1, <1>4 DEF RecordReplayed
<1> QED
  BY <1>1, <1>2, <1>3, <1>5, EndStep

LEMMA PromoteStep ==
    ASSUME PatchInv, NEW p \in Proposals, NEW key \in Keys, ProposeShared(p, key)
    PROVE  PatchInv'
<1> DEFINE r == [kind |-> "PROMOTE", key |-> key, patch |-> p]
<1>1. r \in Record /\ r.patch = p /\ r.kind = "PROMOTE"
  BY DEF Record
<1>2. /\ records' = records \cup {r} /\ Version(p) = 7
      /\ UNCHANGED << slot, candidate, proposal, item, receipts, operations >>
  BY DEF ProposeShared, Live
<1> HIDE DEF r
<1>3. PatchTypeOK'
  BY <1>1, <1>2 DEF PatchInv, PatchTypeOK
<1>4. \A s \in records' : RecordReplayed(s)'
  BY <1>1, <1>2 DEF PatchInv, EffectsAreReplayable, RecordReplayed, Version
<1>5. EndIsRecorded'
  <2>1. \A q \in Proposals : Ends(q)' = Ends(q)
    BY <1>1, <1>2 DEF Ends
  <2> QED
    BY <1>2, <2>1 DEF PatchInv, EndIsRecorded
<1> QED
  BY <1>2, <1>3, <1>4, <1>5, TablesStand DEF PatchInv, QuotaRespected

LEMMA KeysAreKeys == ASSUME NEW p \in Proposals PROVE KeysOf[p] \subseteq Keys
BY PatchAssumption

LEMMA PatchInvStep == PatchInv /\ [Next]_patchVars => PatchInv'
<1> SUFFICES ASSUME PatchInv, [Next]_patchVars PROVE PatchInv'
  OBVIOUS
<1>1. CASE UNCHANGED patchVars
  BY <1>1 DEF patchVars, PatchInv, PatchTypeOK, QuotaRespected, ActivePatches, Staged,
     NoContradictionAwaitsApproval, EffectsAreReplayable, OperationReplayed,
     RecordReplayed, EndIsRecorded, Ends, Version
<1>2. CASE SlotNext
  BY <1>2, SlotStep
<1>3. ASSUME NEW p \in Proposals, ProposalNext(p) PROVE PatchInv'
  BY <1>3, ProposalStep
<1>4. ASSUME NEW p \in Proposals, NEW key \in KeysOf[p], OwnerNext(p, key)
      PROVE  PatchInv'
  <2>1. key \in Keys
    BY KeysAreKeys
  <2> QED
    BY <1>4, <2>1, ApproveStep, CommitStep, ActivateStep, SupersedeStep, RevokeStep,
       DeleteStep, PromoteStep DEF OwnerNext
<1> QED
  BY <1>1, <1>2, <1>3, <1>4 DEF Next

LEMMA PatchInvariant == Spec => []PatchInv
BY PatchInvInit, PatchInvStep, PTL DEF Spec

-----------------------------------------------------------------------------
(* The theorems.                                                             *)

(* Every row is well typed and, whatever approvals, activations, ends and    *)
(* reconfigurations interleave, the active patches of the slot fit the       *)
(* policy it has (_quota_and_model_results, enforce_step27_quota).           *)
THEOREM RecordsAlwaysAgree == Spec => []PatchRecordsAgree
<1>1. PatchInv => PatchRecordsAgree
  BY DEF PatchInv, PatchRecordsAgree
<1> QED
  BY <1>1, PatchInvariant, PTL

(* For any claims: a statement and its negation are never both validated and *)
(* open (list_peers and _peer_results before each of the last two edges).    *)
THEOREM ContradictionsNeverAwait == Spec => []NoContradictionAwaitsApproval
<1>1. PatchInv => NoContradictionAwaitsApproval
  BY DEF PatchInv
<1> QED
  BY <1>1, PatchInvariant, PTL

(* Every request of Steps 30 and 32 that took effect is answered when it is  *)
(* repeated at any later time (the replay branches of both services).        *)
THEOREM EffectsStayReplayable == Spec => []EffectsAreReplayable
<1>1. PatchInv => EffectsAreReplayable
  BY DEF PatchInv
<1> QED
  BY <1>1, PatchInvariant, PTL

(* A patch ends at most once, and its item and the one record of its end     *)
(* tell the same (_terminalize_patch and the indexes of migration 0015).     *)
THEOREM EndsAreRecorded == Spec => []EndIsRecorded
<1>1. PatchInv => EndIsRecorded
  BY DEF PatchInv
<1> QED
  BY <1>1, PatchInvariant, PTL

-----------------------------------------------------------------------------
(* Staleness.                                                                *)

\* Only a proposal whose target stands moves.
LEMMA OnlyStandingMove ==
    ASSUME PatchTypeOK, NEW p \in Proposals, NEW q \in Proposals,
           candidate[p] # slot.version, ProposalNext(q)
    PROVE  proposal'[p] = proposal[p]
<1>1. CASE q = p
  BY <1>1 DEF ProposalNext, SubmitCandidate, CreateProposal, BindEvidence,
     ValidateProposal, AdvanceToAwaitingApproval, TargetStands
<1>2. CASE q # p
  BY <1>2 DEF PatchTypeOK, ProposalNext, SubmitCandidate, CreateProposal, BindEvidence,
     ValidateProposal, AdvanceToAwaitingApproval, Move
<1> QED
  BY <1>1, <1>2

LEMMA OnlyStandingAdvance ==
    ASSUME PatchTypeOK, NEW p \in Proposals, NEW q \in Proposals, NEW key,
           candidate[p] # slot.version, OwnerNext(q, key)
    PROVE  proposal'[p] = proposal[p]
<1>1. ASSUME NEW kind, NEW v, NEW now, Step30(q, kind, v, key, now)
      PROVE  proposal'[p] = proposal[p]
  BY <1>1 DEF Step30, Current, TargetStands, Move, PatchTypeOK
<1>2. CASE \E now \in Times : Approve(q, key, now) \/ Commit(q, key, now) \/ Activate(q, key, now)
  BY <1>1, <1>2 DEF Approve, Commit, Activate
<1>3. CASE \/ \E r \in Proposals, at \in Times : Supersede(q, r, key, at)
           \/ Revoke(q, key) \/ Delete(q, key) \/ ProposeShared(q, key)
  BY <1>3 DEF Supersede, Revoke, Delete, ProposeShared, Terminalize
<1> QED
  BY <1>2, <1>3 DEF OwnerNext

LEMMA DeletedStandsStill ==
    ASSUME PatchInv, slot.state = "DELETED", Next
    PROVE  FALSE
<1>1. ~ SlotOpen
  BY DEF SlotOpen
<1>2. ~ SlotNext
  BY SlotMoves
<1>3. ASSUME NEW p \in Proposals PROVE ~ ProposalNext(p)
  BY <1>1 DEF ProposalNext, SubmitCandidate, CreateProposal, BindEvidence,
     ValidateProposal, AdvanceToAwaitingApproval, TargetStands
<1>4. ASSUME NEW p \in Proposals, NEW key PROVE ~ OwnerNext(p, key)
  BY <1>1 DEF OwnerNext, Approve, Commit, Activate, Step30, Current, TargetStands,
     Supersede, Revoke, Delete, ProposeShared
<1> QED
  BY <1>2, <1>3, <1>4 DEF Next

(* Once the slot has changed since the candidate was bound its proposal      *)
(* takes no step, and once the slot is deleted nothing of it changes.        *)
THEOREM StaleTargetsStayFrozen == Spec => StaleTargetsAreFrozen
<1> DEFINE Frozen == /\ \A p \in Proposals :
                          candidate[p] # slot.version => proposal'[p] = proposal[p]
                     /\ slot.state = "DELETED" => patchVars' = patchVars
<1>1. PatchInv /\ [Next]_patchVars => [Frozen]_patchVars
  <2> SUFFICES ASSUME PatchInv, Next PROVE Frozen
    OBVIOUS
  <2>1. PatchTypeOK
    BY DEF PatchInv
  <2>2. slot.state # "DELETED"
    BY DeletedStandsStill
  <2>3. ASSUME NEW p \in Proposals, candidate[p] # slot.version
        PROVE  proposal'[p] = proposal[p]
    <3>1. CASE SlotNext
      BY <3>1, SlotMoves DEF SlotOnly
    <3>2. CASE \E q \in Proposals : ProposalNext(q)
      BY <2>1, <2>3, <3>2, OnlyStandingMove
    <3>3. CASE \E q \in Proposals : \E key \in KeysOf[q] : OwnerNext(q, key)
      BY <2>1, <2>3, <3>3, OnlyStandingAdvance
    <3> QED
      BY <3>1, <3>2, <3>3 DEF Next
  <2> QED
    BY <2>2, <2>3
<1> QED
  BY <1>1, PatchInvariant, PTL DEF Spec, StaleTargetsAreFrozen

-----------------------------------------------------------------------------
(* The lifecycle of the kernel.                                              *)

\* What the mapping shows of a patch depends on its version and its item.
LEMMA StatusStands ==
    ASSUME NEW q, Version(q)' = Version(q), item'[q] = item[q]
    PROVE  Status(q)' = Status(q)
BY DEF Status

LEMMA StatusByVersion ==
    ASSUME NEW q, item[q].state \notin {"SUPERSEDED", "REVOKED", "DELETED"}
    PROVE  Status(q) = IF Version(q) = 0 THEN "DETECTED" ELSE StateOf[Version(q)]
BY DEF Status

\* Whatever patch p does, the others stand, and if the status and the
\* successor of p move along an edge the kernel moves along it.
LEMMA KernelTakes ==
    ASSUME NEW p \in Proposals, NEW s \in Kernel!PatchState,
           \A q \in Proposals \ {p} : Version(q)' = Version(q) /\ item'[q] = item[q],
           << Status(p), s >> \in Kernel!Transitions, s # "SUPERSEDED",
           Status(p)' = s, item'[p].superseded_by = item[p].superseded_by
    PROVE  Kernel!PatchNext
<1>1. \A q \in Proposals : Status(q)' = IF q = p THEN s ELSE Status(q)
  BY StatusStands
<1>2. [q \in Proposals |-> Status(q)]'
        = [[q \in Proposals |-> Status(q)] EXCEPT ![p] = s]
  BY <1>1
<1>3. [q \in Proposals |-> item[q].superseded_by]'
        = [q \in Proposals |-> item[q].superseded_by]
  OBVIOUS
<1>4. Kernel!Take(p, s)
  BY <1>2, <1>3 DEF Kernel!Take
<1> QED
  BY <1>4 DEF Kernel!PatchNext

LEMMA KernelSupersedes ==
    ASSUME NEW p \in Proposals, NEW r \in Proposals, p # r,
           Status(p) = "ACTIVE", Status(r) = "ACTIVE",
           \A q \in Proposals \ {p} : Version(q)' = Version(q) /\ item'[q] = item[q],
           Status(p)' = "SUPERSEDED", item'[p].superseded_by = r
    PROVE  Kernel!PatchNext
<1>1. \A q \in Proposals : Status(q)' = IF q = p THEN "SUPERSEDED" ELSE Status(q)
  BY StatusStands
<1>2. [q \in Proposals |-> Status(q)]'
        = [[q \in Proposals |-> Status(q)] EXCEPT ![p] = "SUPERSEDED"]
  BY <1>1
<1>3. [q \in Proposals |-> item[q].superseded_by]'
        = [[q \in Proposals |-> item[q].superseded_by] EXCEPT ![p] = r]
  OBVIOUS
<1>4. Kernel!Supersede(p, r)
  BY <1>2, <1>3 DEF Kernel!Supersede
<1> QED
  BY <1>4 DEF Kernel!PatchNext

\* A proposal that takes its next version takes the next edge.
LEMMA KernelAdvances ==
    ASSUME NEW p \in Proposals, NEW v \in 1 .. 7,
           Version(p) = v - 1, Version(p)' = v,
           item[p].state \in {"NONE", "INACTIVE"},
           item'[p].state \in {"NONE", "INACTIVE", "ACTIVE"},
           item'[p].superseded_by = item[p].superseded_by,
           \A q \in Proposals \ {p} : Version(q)' = Version(q) /\ item'[q] = item[q]
    PROVE  Kernel!PatchNext
<1> DEFINE s == StateOf[v]
<1>1. Status(p) = IF v - 1 = 0 THEN "DETECTED" ELSE StateOf[v - 1]
  BY StatusByVersion
<1>2. Status(p)' = StateOf[v]
  BY DEF Status
<1>3. /\ s \in Kernel!PatchState /\ s # "SUPERSEDED"
      /\ << Status(p), s >> \in Kernel!Transitions
  <2>1. v \in {1, 2, 3, 4, 5, 6, 7}
    OBVIOUS
  <2> QED
    BY <1>1, <2>1 DEF StateOf, Kernel!PatchState, Kernel!Transitions
<1> HIDE DEF s
<1> QED
  BY <1>2, <1>3, KernelTakes DEF s

LEMMA LiveIsActive ==
    ASSUME NEW p, Live(p)
    PROVE  Status(p) = "ACTIVE"
BY DEF Live, Status, StateOf

LEMMA KernelStep == PatchInv /\ [Next]_patchVars => [Kernel!PatchNext]_Kernel!patchVars
<1> SUFFICES ASSUME PatchInv, [Next]_patchVars PROVE [Kernel!PatchNext]_Kernel!patchVars
  OBVIOUS
<1>1. ASSUME UNCHANGED << proposal, item >> PROVE UNCHANGED Kernel!patchVars
  BY <1>1 DEF Kernel!patchVars, Status, Version
<1>2. CASE UNCHANGED patchVars
  BY <1>1, <1>2 DEF patchVars
<1>3. CASE SlotNext
  BY <1>1, <1>3, SlotMoves DEF SlotOnly
<1>4. ASSUME NEW p \in Proposals, NEW r, NEW v \in 1 .. 4, r.version = v,
             Version(p) = v - 1, proposal' = [proposal EXCEPT ![p] = r], ProposalOnly
      PROVE  Kernel!PatchNext
  <2>1. /\ Version(p)' = v /\ item' = item
        /\ \A q \in Proposals \ {p} : Version(q)' = Version(q)
    BY <1>4 DEF PatchInv, PatchTypeOK, Version, ProposalOnly
  <2>2. item[p].state = "NONE"
    BY <1>4 DEF PatchInv, Staged
  <2> QED
    BY <1>4, <2>1, <2>2, KernelAdvances
<1>5. ASSUME NEW p \in Proposals, ProposalNext(p)
      PROVE  Kernel!PatchNext \/ UNCHANGED Kernel!patchVars
  <2>1. CASE SubmitCandidate(p)
    BY <1>1, <2>1 DEF SubmitCandidate
  <2>2. ASSUME NEW at \in Times, CreateProposal(p, at) PROVE Kernel!PatchNext
    <3> DEFINE r == [version |-> 1, created_at |-> at, validated_at |-> None,
                     updated_at |-> at]
    <3>1. /\ r.version = 1 /\ Version(p) = 1 - 1 /\ 1 \in 1 .. 4
          /\ proposal' = [proposal EXCEPT ![p] = r] /\ ProposalOnly
      BY <2>2 DEF CreateProposal
    <3> HIDE DEF r
    <3> QED
      BY <1>4, <3>1
  <2>3. ASSUME NEW at \in Times, NEW v \in {2, 3, 4}, Move(p, v, at), ProposalOnly
        PROVE  Kernel!PatchNext
    <3> DEFINE r == [version |-> v, created_at |-> proposal[p].created_at,
                     validated_at |-> IF v = 3 THEN at ELSE proposal[p].validated_at,
                     updated_at |-> at]
    <3>1. /\ r.version = v /\ Version(p) = v - 1 /\ v \in 1 .. 4
          /\ proposal' = [proposal EXCEPT ![p] = r]
      BY <2>3 DEF Move
    <3> HIDE DEF r
    <3> QED
      BY <1>4, <2>3, <3>1
  <2> QED
    BY <1>5, <2>1, <2>2, <2>3 DEF ProposalNext, BindEvidence, ValidateProposal,
       AdvanceToAwaitingApproval
<1>6. ASSUME NEW p \in Proposals, NEW kind, NEW key, NEW v \in 4 .. 6,
             Advances(p, kind, v, key), item'[p].state \in {"NONE", "INACTIVE", "ACTIVE"},
             item'[p].superseded_by = item[p].superseded_by,
             \A q \in Proposals \ {p} : item'[q] = item[q]
      PROVE  Kernel!PatchNext
  <2>1. item[p].state \in {"NONE", "INACTIVE"}
    BY <1>6 DEF PatchInv, Staged, Advances
  <2>2. /\ v + 1 \in 1 .. 7 /\ Version(p) = (v + 1) - 1 /\ Version(p)' = v + 1
        /\ \A q \in Proposals \ {p} : Version(q)' = Version(q)
    BY <1>6 DEF Advances
  <2> QED
    BY <1>6, <2>1, <2>2, KernelAdvances
<1>7. ASSUME NEW p \in Proposals, NEW end, NEW record, Terminalize(p, end, record)
      PROVE  /\ Status(p) = "ACTIVE" /\ item[p].superseded_by = None
             /\ item'[p] = end
             /\ \A q \in Proposals \ {p} : Version(q)' = Version(q) /\ item'[q] = item[q]
  BY <1>7, LiveIsActive DEF Terminalize, Live, PatchInv, PatchTypeOK, Staged, Version
<1>8. ASSUME NEW p \in Proposals, NEW key \in KeysOf[p], OwnerNext(p, key)
      PROVE  Kernel!PatchNext \/ UNCHANGED Kernel!patchVars
  <2>0. key \in Keys /\ item \in [Proposals -> Item]
    BY KeysAreKeys DEF PatchInv, PatchTypeOK
  <2>1. ASSUME NEW now \in Times, Approve(p, key, now) PROVE Kernel!PatchNext
    <3>1. Advances(p, "APPROVE", 4, key)
      BY <2>0, <2>1, Step30Moves DEF Approve
    <3>2. item' = item /\ item[p].state = "NONE"
      BY <2>1, <3>1 DEF Approve, PatchInv, Staged, Advances
    <3> QED
      BY <1>6, <3>1, <3>2
  <2>2. ASSUME NEW now \in Times, Commit(p, key, now) PROVE Kernel!PatchNext
    <3>1. Advances(p, "COMMIT", 5, key)
      BY <2>0, <2>2, Step30Moves DEF Commit
    <3>2. /\ item'[p].state = "INACTIVE" /\ item'[p].superseded_by = item[p].superseded_by
          /\ \A q \in Proposals \ {p} : item'[q] = item[q]
      BY <2>0, <2>2 DEF Commit, Item
    <3> QED
      BY <1>6, <3>1, <3>2
  <2>3. ASSUME NEW now \in Times, Activate(p, key, now) PROVE Kernel!PatchNext
    <3>1. Advances(p, "ACTIVATE", 6, key)
      BY <2>0, <2>3, Step30Moves DEF Activate
    <3>2. /\ item'[p].state = "ACTIVE" /\ item'[p].superseded_by = item[p].superseded_by
          /\ \A q \in Proposals \ {p} : item'[q] = item[q]
      BY <2>0, <2>3 DEF Activate, Item
    <3> QED
      BY <1>6, <3>1, <3>2
  <2>4. ASSUME NEW q \in Proposals, NEW at \in Times, Supersede(p, q, key, at)
        PROVE  Kernel!PatchNext
    <3>1. /\ p # q /\ Status(q) = "ACTIVE" /\ Status(p) = "ACTIVE"
          /\ item'[p].state = "SUPERSEDED" /\ item'[p].superseded_by = q
          /\ \A x \in Proposals \ {p} : Version(x)' = Version(x) /\ item'[x] = item[x]
      BY <2>4, <1>7, LiveIsActive DEF Supersede, Superseded
    <3>2. Status(p)' = "SUPERSEDED"
      BY <3>1 DEF Status
    <3> QED
      BY <3>1, <3>2, KernelSupersedes
  <2>5. ASSUME NEW state \in {"REVOKED", "DELETED"}, NEW record,
               Terminalize(p, Ended(state), record)
        PROVE  Kernel!PatchNext
    <3>1. /\ Status(p) = "ACTIVE" /\ item'[p].superseded_by = item[p].superseded_by
          /\ item'[p].state = state
          /\ \A x \in Proposals \ {p} : Version(x)' = Version(x) /\ item'[x] = item[x]
      BY <2>5, <1>7 DEF Ended
    <3>2. Status(p)' = "REVOKED"
      BY <3>1 DEF Status
    <3>3. << "ACTIVE", "REVOKED" >> \in Kernel!Transitions /\ "REVOKED" \in Kernel!PatchState
      BY DEF Kernel!Transitions, Kernel!PatchState
    <3> QED
      BY <3>1, <3>2, <3>3, KernelTakes
  <2>6. CASE Revoke(p, key)
    BY <2>5, <2>6 DEF Revoke
  <2>7. CASE Delete(p, key)
    BY <2>5, <2>7 DEF Delete
  <2>8. CASE ProposeShared(p, key)
    BY <1>1, <2>8 DEF ProposeShared
  <2> QED
    BY <1>8, <2>1, <2>2, <2>3, <2>4, <2>6, <2>7, <2>8 DEF OwnerNext
<1> QED
  BY <1>2, <1>3, <1>5, <1>8 DEF Next

(* Proposal rows, items and records together take each patch along the edges *)
(* of MEMORY_PATCH_TRANSITIONS, one at a time, and only an active patch      *)
(* replaces another one.                                                     *)
THEOREM PatchesKeepLifecycle == Spec => ImplementsPatchLifecycle
<1>1. Init => Kernel!PatchInit
  BY DEF Init, Kernel!PatchInit, Status, Version
<1> QED
  BY <1>1, KernelStep, PatchInvariant, PTL DEF Spec, ImplementsPatchLifecycle, Kernel!PatchSpec

-----------------------------------------------------------------------------
(* Retrieval.                                                                *)

Terminal(p) == item[p].state \in {"SUPERSEDED", "REVOKED", "DELETED"}

\* The record of a supersession and the row of the patch it ended agree.
LEMMA SupersessionRow ==
    ASSUME PatchInv, NEW r \in records, r.kind = "SUPERSEDE"
    PROVE  /\ r.patch \in Proposals /\ r.by \in Proposals
           /\ item[r.patch].state = "SUPERSEDED"
           /\ item[r.patch].effective_at = r.effective_at
           /\ r.effective_at \in Int
<1>1. r \in Record
  BY DEF PatchInv, PatchTypeOK
<1>2. r.patch \in Proposals /\ r.by \in Proposals /\ r.effective_at \in Times
  BY <1>1 DEF Record
<1>3. r \in Ends(r.patch)
  BY DEF Ends
<1> QED
  BY <1>2, <1>3 DEF PatchInv, EndIsRecorded, Times

\* The two comparisons with the date are complements.
LEMMA SuccessionStands ==
    ASSUME PatchInv
    PROVE  SuccessionIsTold
<1> SUFFICES ASSUME NEW as_of \in Dates
             PROVE  LET found == Retrieve(as_of, Proposals)
                    IN  /\ \A p \in found : item[p].state \in {"ACTIVE", "SUPERSEDED"}
                        /\ found # {} => slot.state = "ACTIVE" /\ slot.bound
                        /\ \A r \in records : r.kind = "SUPERSEDE" =>
                             /\ ~ {r.patch, r.by} \subseteq found
                             /\ /\ RetrievalEligible /\ slot.bound
                                /\ item[r.by].state = "ACTIVE"
                                /\ \A s \in records :
                                     s.kind = "SUPERSEDE" /\ s.by \in {r.by, r.patch}
                                       => s = r
                                => r.patch \in found \/ r.by \in found
  BY DEF SuccessionIsTold
<1> DEFINE found == Retrieve(as_of, Proposals)
<1>1. \A p : p \in found <=>
        /\ RetrievalEligible /\ slot.bound /\ p \in Proposals /\ Version(p) = 7
        /\ item[p].state = "ACTIVE" \/ ReplacedLater(p, as_of)
        /\ ~ ReplacesLater(p, as_of)
  BY DEF Retrieve, ActivePatchCandidates, Eligible
<1>2. \A p \in found : item[p].state \in {"ACTIVE", "SUPERSEDED"}
  BY <1>1 DEF ReplacedLater
<1>3. found # {} => slot.state = "ACTIVE" /\ slot.bound
  BY <1>1 DEF RetrievalEligible
<1> HIDE DEF found
<1>4. ASSUME NEW r \in records, r.kind = "SUPERSEDE"
      PROVE  ~ {r.patch, r.by} \subseteq found
  <2>1. r.patch \in found => as_of # None /\ r.effective_at > as_of
    BY <1>1, <1>4, SupersessionRow DEF ReplacedLater
  <2>2. r.by \in found => ~ (as_of # None /\ r.effective_at > as_of)
    BY <1>1, <1>4 DEF ReplacesLater
  <2> QED
    BY <2>1, <2>2
<1>5. ASSUME NEW r \in records, r.kind = "SUPERSEDE", RetrievalEligible, slot.bound,
             item[r.by].state = "ACTIVE",
             \A s \in records :
               s.kind = "SUPERSEDE" /\ s.by \in {r.by, r.patch} => s = r
      PROVE  r.patch \in found \/ r.by \in found
  <2>1. /\ r.patch \in Proposals /\ r.by \in Proposals
        /\ item[r.patch].state = "SUPERSEDED"
        /\ item[r.patch].effective_at = r.effective_at
    BY <1>5, SupersessionRow
  <2>2. \A p \in Proposals :
          item[p].state \in {"ACTIVE", "SUPERSEDED"} => Version(p) = 7
    BY VersionsAreStages DEF PatchInv, Staged
  <2>3. CASE as_of # None /\ r.effective_at > as_of
    <3>1. r.patch # r.by
      BY <1>5, <2>1
    <3>2. ~ ReplacesLater(r.patch, as_of)
      BY <1>5, <3>1 DEF ReplacesLater
    <3>3. ReplacedLater(r.patch, as_of)
      BY <2>1, <2>3 DEF ReplacedLater
    <3> QED
      BY <1>1, <1>5, <2>1, <2>2, <3>2, <3>3
  <2>4. CASE ~ (as_of # None /\ r.effective_at > as_of)
    <3>1. ~ ReplacesLater(r.by, as_of)
      BY <1>5, <2>4 DEF ReplacesLater
    <3> QED
      BY <1>1, <1>5, <2>1, <2>2, <3>1
  <2> QED
    BY <2>3, <2>4
<1> QED
  BY <1>2, <1>3, <1>4, <1>5 DEF found

\* Once an item has ended its row stands, and so do the records that name its
\* patch as a successor.
LEMMA EndedStand ==
    ASSUME PatchInv, Next, NEW p \in Proposals, Terminal(p)
    PROVE  /\ Version(p)' = Version(p) /\ item'[p] = item[p]
           /\ \A r : r.kind = "SUPERSEDE" /\ r.by = p => (r \in records' <=> r \in records)
<1>1. Version(p) = 7 /\ item[p].state # "ACTIVE" /\ ~ Live(p)
  BY VersionsAreStages DEF PatchInv, Staged, Terminal, Live
<1>2. item \in [Proposals -> Item] /\ proposal \in [Proposals -> Proposal]
  BY DEF PatchInv, PatchTypeOK
<1>3. CASE SlotNext
  BY <1>3, SlotMoves DEF SlotOnly, Version
<1>4. ASSUME NEW q \in Proposals, ProposalNext(q)
      PROVE  Version(p)' = Version(p) /\ item' = item /\ records' = records
  <2>1. CASE q = p
    BY <1>1, <1>4, <2>1 DEF ProposalNext, SubmitCandidate, CreateProposal, BindEvidence,
       ValidateProposal, AdvanceToAwaitingApproval, Move, ProposalOnly, Version
  <2>2. CASE q # p
    BY <1>2, <1>4, <2>2 DEF ProposalNext, SubmitCandidate, CreateProposal, BindEvidence,
       ValidateProposal, AdvanceToAwaitingApproval, Move, ProposalOnly, Version
  <2> QED
    BY <2>1, <2>2
<1>5. ASSUME NEW q \in Proposals, NEW key, NEW now, NEW kind, NEW v \in 4 .. 6,
             Step30(q, kind, v, key, now),
             \E s : \/ item' = item
                    \/ item' = [item EXCEPT ![q].state = s]
      PROVE  Version(p)' = Version(p) /\ item'[p] = item[p] /\ records' = records
  <2>1. q # p
    BY <1>1, <1>5 DEF Step30
  <2> QED
    BY <1>2, <1>5, <2>1 DEF Step30, Move, Version
<1>6. ASSUME NEW q \in Proposals, NEW key, NEW now,
             Approve(q, key, now) \/ Commit(q, key, now) \/ Activate(q, key, now)
      PROVE  Version(p)' = Version(p) /\ item'[p] = item[p] /\ records' = records
  BY <1>5, <1>6 DEF Approve, Commit, Activate
<1>7. ASSUME NEW q \in Proposals, NEW end, NEW record, Terminalize(q, end, record),
             record.kind = "SUPERSEDE" => record.by # p
      PROVE  /\ Version(p)' = Version(p) /\ item'[p] = item[p]
             /\ \A r : r.kind = "SUPERSEDE" /\ r.by = p =>
                         (r \in records' <=> r \in records)
  <2>1. q # p
    BY <1>1, <1>7 DEF Terminalize
  <2> QED
    BY <1>2, <1>7, <2>1 DEF Terminalize, Version
<1>8. ASSUME NEW q \in Proposals, NEW key, NEW x \in Proposals, NEW at,
             Supersede(q, x, key, at)
      PROVE  /\ Version(p)' = Version(p) /\ item'[p] = item[p]
             /\ \A r : r.kind = "SUPERSEDE" /\ r.by = p =>
                         (r \in records' <=> r \in records)
  <2>1. x # p
    BY <1>1, <1>8 DEF Supersede
  <2>2. Supersession(q, x, key, at).by = x
    BY DEF Supersession
  <2> QED
    BY <1>7, <1>8, <2>1, <2>2 DEF Supersede
<1>9. ASSUME NEW q \in Proposals, NEW key, Revoke(q, key) \/ Delete(q, key)
      PROVE  /\ Version(p)' = Version(p) /\ item'[p] = item[p]
             /\ \A r : r.kind = "SUPERSEDE" /\ r.by = p =>
                         (r \in records' <=> r \in records)
  BY <1>7, <1>9 DEF Revoke, Delete
<1>10. ASSUME NEW q \in Proposals, NEW key, ProposeShared(q, key)
       PROVE  /\ Version(p)' = Version(p) /\ item'[p] = item[p]
              /\ \A r : r.kind = "SUPERSEDE" /\ r.by = p =>
                          (r \in records' <=> r \in records)
  BY <1>10 DEF ProposeShared, Version
<1>11. ASSUME NEW q \in Proposals, NEW key, OwnerNext(q, key)
       PROVE  /\ Version(p)' = Version(p) /\ item'[p] = item[p]
              /\ \A r : r.kind = "SUPERSEDE" /\ r.by = p =>
                          (r \in records' <=> r \in records)
  BY <1>6, <1>8, <1>9, <1>10, <1>11 DEF OwnerNext
<1> QED
  BY <1>3, <1>4, <1>11 DEF Next

LEMMA HistoryStands ==
    ASSUME PatchInv, Next, NEW p \in Proposals, NEW as_of \in Dates, Terminal(p)
    PROVE  (p \in ActivePatchCandidates(as_of))' = (p \in ActivePatchCandidates(as_of))
<1>1. /\ Version(p)' = Version(p) /\ item'[p] = item[p]
      /\ \A r : r.kind = "SUPERSEDE" /\ r.by = p => (r \in records' <=> r \in records)
  BY EndedStand
<1>2. ReplacedLater(p, as_of)' <=> ReplacedLater(p, as_of)
  BY <1>1 DEF ReplacedLater
<1>3. ReplacesLater(p, as_of)' <=> ReplacesLater(p, as_of)
  BY <1>1 DEF ReplacesLater
<1> QED
  BY <1>1, <1>2, <1>3 DEF ActivePatchCandidates

(* Of any two patches of which one replaced the other at most one is         *)
(* retrieved at any date, and exactly one where no other supersession and no *)
(* end of the successor comes in; what a past date tells of a patch that has *)
(* ended never changes (ACTIVE_PATCH_RETRIEVAL_SQL, _terminalize_patch).     *)
THEOREM RetrievalKeepsHistory == Spec => RetrievalTellsHistory
<1>1. PatchInv => SuccessionIsTold
  BY SuccessionStands
<1>2. PatchInv /\ [Next]_patchVars => [HistoryIsFinal]_patchVars
  <2> SUFFICES ASSUME PatchInv, Next, NEW p \in Proposals, NEW as_of \in Dates,
                      item[p].state \notin {"NONE", "INACTIVE", "ACTIVE"}
               PROVE  (p \in ActivePatchCandidates(as_of))'
                        = (p \in ActivePatchCandidates(as_of))
    BY DEF HistoryIsFinal
  <2>1. Terminal(p)
    BY VersionsAreStages DEF PatchInv, Item, Terminal
  <2> QED
    BY <2>1, HistoryStands
<1> QED
  BY <1>1, <1>2, PatchInvariant, PTL DEF Spec, RetrievalTellsHistory

-----------------------------------------------------------------------------
(* A patch that was replaced leads to a patch that was not.                  *)

\* The farthest of some patches: a finite set has one of the greatest rank.
LEMMA Farthest ==
    ASSUME NEW S, S \subseteq Proposals, S # {}, NEW rank \in [Proposals -> Nat]
    PROVE  \E m \in S : \A q \in S : rank[q] <= rank[m]
<1> DEFINE Above == {{q \in S : rank[q] > rank[x]} : x \in S}
<1>1. Above \subseteq FiniteSubsetsOf(Proposals) /\ Above # {}
  <2>1. \A x \in S : {q \in S : rank[q] > rank[x]} \subseteq Proposals
    OBVIOUS
  <2>2. \A x \in S : IsFiniteSet({q \in S : rank[q] > rank[x]})
    BY <2>1, ActiveAreFinite
  <2> QED
    BY <2>1, <2>2 DEF FiniteSubsetsOf
<1>2. PICK A \in Above : \A B \in Above : ~ (<<B, A>> \in StrictSubsetOrdering(Proposals))
  <2> HIDE DEF Above
  <2> QED
    BY <1>1, WFMin, FS_StrictSubsetOrderingWellFounded
<1>3. PICK m \in S : A = {q \in S : rank[q] > rank[m]}
  OBVIOUS
<1>4. ASSUME NEW x \in S, rank[x] > rank[m] PROVE FALSE
  <2> DEFINE B == {q \in S : rank[q] > rank[x]}
  <2>1. B \in Above /\ B \subseteq Proposals /\ A \subseteq Proposals
    BY <1>3
  <2>2. B \subseteq A
    BY <1>3, <1>4
  <2>3. x \in A /\ x \notin B
    BY <1>3, <1>4
  <2>4. <<B, A>> \in StrictSubsetOrdering(Proposals)
    <3> HIDE DEF B
    <3> QED
      BY <2>1, <2>2, <2>3 DEF StrictSubsetOrdering
  <2> QED
    BY <1>2, <2>1, <2>4
<1>5. \A q \in S : rank[q] <= rank[m]
  BY <1>4
<1> QED
  BY <1>5

-----------------------------------------------------------------------------
(* The chains of successors.                                                 *)

\* The patches of S and those that replaced them.
Onward(S) == S \cup ({item[q].superseded_by : q \in S} \ {None})

IsReach(f, p, k) == f = [n \in 0 .. k |-> IF n = 0 THEN {p} ELSE Onward(f[n - 1])]

\* The recursive function of Successors exists, whatever the items hold.
LEMMA ReachExists ==
    ASSUME NEW p, NEW N \in Nat
    PROVE  \E f : IsReach(f, p, N)
<1> DEFINE Holds == {k \in Nat : \E f : IsReach(f, p, k)}
<1>1. 0 \in Holds
  <2> DEFINE f == [n \in 0 .. 0 |-> {p}]
  <2>1. IsReach(f, p, 0)
    <3>1. \A n \in 0 .. 0 : n = 0
      OBVIOUS
    <3> QED
      BY <3>1 DEF IsReach
  <2> QED
    BY <2>1
<1>2. ASSUME NEW n \in Nat, n \in Holds PROVE n + 1 \in Holds
  <2>1. PICK f : IsReach(f, p, n)
    BY <1>2
  <2> DEFINE g == [m \in 0 .. n + 1 |-> IF m = n + 1 THEN Onward(f[n]) ELSE f[m]]
  <2>2. \A m \in 0 .. n + 1 : g[m] = IF m = 0 THEN {p} ELSE Onward(g[m - 1])
    <3>1. \A m \in 0 .. n : f[m] = IF m = 0 THEN {p} ELSE Onward(f[m - 1])
      BY <2>1 DEF IsReach
    <3>2. \A m \in 0 .. n : g[m] = f[m]
      OBVIOUS
    <3>3. g[n + 1] = Onward(f[n])
      OBVIOUS
    <3>4. \A m \in 0 .. n + 1 :
          \/ /\ m = n + 1 /\ m # 0 /\ m - 1 = n
             /\ n \in 0 .. n
          \/ /\ m \in 0 .. n
             /\ m = 0 \/ m - 1 \in 0 .. n
      OBVIOUS
    <3> HIDE DEF g
    <3> QED
      BY <3>1, <3>2, <3>3, <3>4
  <2>3. IsReach(g, p, n + 1)
    BY <2>2 DEF IsReach
  <2> QED
    BY <2>3
<1> HIDE DEF Holds
<1>3. \A n \in 0 .. N : n \in Holds
  BY <1>1, <1>2, Induction
<1> QED
  BY <1>3 DEF Holds

LEMMA SuccessorsReached ==
    ASSUME NEW p, NEW N \in Nat
    PROVE  \E f : IsReach(f, p, N) /\ Successors(p, N) = f[N]
<1> DEFINE Reach == CHOOSE f : IsReach(f, p, N)
<1>1. IsReach(Reach, p, N)
  BY ReachExists
<1>2. Successors(p, N) = Reach[N]
  BY DEF Successors, IsReach, Onward
<1> QED
  BY <1>1, <1>2

\* Successors can be ranked, each above what it replaced, and were active.
Ranked(rank) == \A p \in Proposals :
                  item[p].superseded_by # None =>
                    /\ item[p].superseded_by \in Proposals
                    /\ Version(item[p].superseded_by) = 7
                    /\ rank[p] < rank[item[p].superseded_by]

ChainsAreRanked == \E rank \in [Proposals -> Nat] : Ranked(rank)

\* As long as each patch reached was replaced, each step reaches a further one.
LEMMA ReachGrows ==
    ASSUME NEW rank \in [Proposals -> Nat], Ranked(rank),
           NEW S, S \subseteq Proposals, S # {},
           \A q \in S : item[q].superseded_by # None
    PROVE  /\ Onward(S) \subseteq Proposals
           /\ S \subseteq Onward(S)
           /\ Cardinality(Onward(S)) >= Cardinality(S) + 1
<1>1. PICK m \in S : \A q \in S : rank[q] <= rank[m]
  BY Farthest
<1> DEFINE far == item[m].superseded_by
<1>2. far \in Proposals /\ rank[m] < rank[far] /\ far \in Onward(S)
  BY DEF Ranked, Onward
<1>3. far \notin S
  BY <1>1, <1>2
<1>4. Onward(S) \subseteq Proposals /\ S \cup {far} \subseteq Onward(S) /\ S \subseteq Onward(S)
  BY <1>2 DEF Ranked, Onward
<1> HIDE DEF far
<1>5. Cardinality(S \cup {far}) = Cardinality(S) + 1
  BY <1>3, ActiveAreFinite, FS_AddElement
<1>6. Cardinality(S \cup {far}) <= Cardinality(Onward(S))
  BY <1>4, FewerAreWithin
<1>7. Cardinality(S) \in Nat /\ Cardinality(Onward(S)) \in Nat
  BY <1>4, ActiveAreFinite
<1> QED
  BY <1>4, <1>5, <1>6, <1>7

\* Among the patches reached in as many steps as there are patches, one was
\* not replaced.
LEMMA ChainReachesItsEnd ==
    ASSUME ChainsAreRanked, NEW p \in Proposals
    PROVE  \E q \in Successors(p, Cardinality(Proposals)) :
              /\ item[q].superseded_by = None /\ q \in Proposals
              /\ q = p \/ Version(q) = 7
<1> DEFINE N == Cardinality(Proposals)
<1>0. N \in Nat
  BY ActiveAreFinite
<1>1. PICK f : IsReach(f, p, N) /\ Successors(p, N) = f[N]
  BY <1>0, SuccessorsReached
<1>2. PICK rank \in [Proposals -> Nat] : Ranked(rank)
  BY DEF ChainsAreRanked
<1> HIDE DEF N
<1>3. /\ f[0] = {p}
      /\ \A n \in 0 .. N : n < N => f[n + 1] = Onward(f[n])
  <2>1. \A n \in 0 .. N : f[n] = IF n = 0 THEN {p} ELSE Onward(f[n - 1])
    BY <1>1 DEF IsReach
  <2>2. \A n \in 0 .. N : n < N => n + 1 \in 0 .. N /\ n + 1 # 0 /\ (n + 1) - 1 = n
    BY <1>0
  <2>3. 0 \in 0 .. N
    BY <1>0
  <2> QED
    BY <2>1, <2>2, <2>3
\* Patches reached so far, as many as steps were taken, or the end is among them.
<1> DEFINE Good(S) == /\ S \subseteq Proposals
                      /\ S # {}
                      /\ \A q \in S : q = p \/ Version(q) = 7
           Done(S) == \E q \in S : item[q].superseded_by = None
           Holds == {n \in 0 .. N :
                       Good(f[n]) /\ (Done(f[n]) \/ Cardinality(f[n]) > n)}
<1>4. 0 \in Holds
  <2>1. Good(f[0]) /\ 0 \in 0 .. N
    BY <1>0, <1>3
  <2>2. Cardinality(f[0]) > 0
    <3>1. Cardinality({p}) = 1 /\ f[0] = {p}
      BY <1>3, FS_Singleton
    <3> QED
      BY ONLY <3>1
  <2>3. Good(f[0]) /\ (Done(f[0]) \/ Cardinality(f[0]) > 0)
    BY <2>1, <2>2
  <2> HIDE DEF Good, Done
  <2>4. \A n \in 0 .. N : Good(f[n]) /\ (Done(f[n]) \/ Cardinality(f[n]) > n) => n \in Holds
    OBVIOUS
  <2> HIDE DEF Holds
  <2> QED
    BY <2>1, <2>3, <2>4
<1>5. ASSUME NEW n \in 0 .. N, n \in Holds, n < N PROVE n + 1 \in Holds
  <2>1. f[n + 1] = Onward(f[n]) /\ n + 1 \in 0 .. N
    BY <1>3, <1>5, <1>0
  <2>2. Good(f[n]) /\ (Done(f[n]) \/ Cardinality(f[n]) > n)
    BY <1>5
  <2>3. CASE Done(f[n])
    <3>1. f[n] \subseteq f[n + 1] /\ Good(f[n + 1])
      BY <1>2, <2>1, <2>2 DEF Onward, Ranked
    <3> QED
      BY <2>1, <2>2, <2>3, <3>1
  <2>4. CASE ~ Done(f[n])
    <3>1. /\ Onward(f[n]) \subseteq Proposals
          /\ f[n] \subseteq Onward(f[n])
          /\ Cardinality(Onward(f[n])) >= Cardinality(f[n]) + 1
      <4>1. \A q \in f[n] : item[q].superseded_by # None
        BY <2>4
      <4>2. f[n] \subseteq Proposals /\ f[n] # {}
        BY <2>2
      <4> QED
        BY ONLY <1>2, <4>1, <4>2, ReachGrows
    <3>2. Cardinality(f[n]) > n /\ Cardinality(f[n]) \in Nat /\ Cardinality(Onward(f[n])) \in Nat
      BY <2>2, <2>4, <3>1, ActiveAreFinite
    <3>3. Cardinality(Onward(f[n])) > n + 1
      BY <3>1, <3>2
    <3>4. Good(Onward(f[n]))
      BY <1>2, <2>2, <3>1 DEF Onward, Ranked
    <3> QED
      BY <2>1, <3>3, <3>4
  <2> QED
    BY <2>3, <2>4
<1>6. N \in Holds
  <2> HIDE DEF Holds
  <2>1. \A n \in 0 .. N : n \in Holds
    BY <1>0, <1>4, <1>5, Induction
  <2> QED
    BY <1>0, <2>1
<1>7. Done(f[N])
  <2>1. CASE Cardinality(f[N]) > N
    <3>1. Cardinality(f[N]) <= N /\ Cardinality(f[N]) \in Nat
      BY <1>6, FewerAreWithin, ActiveAreFinite DEF N
    <3> QED
      BY <1>0, <2>1, <3>1
  <2> QED
    BY <1>6, <2>1
<1>8. Good(f[N]) /\ Successors(p, Cardinality(Proposals)) = f[N]
  BY <1>1, <1>6 DEF N
<1> QED
  BY <1>7, <1>8

-----------------------------------------------------------------------------
LEMMA MovesGoOn ==
    ASSUME PatchTypeOK, NEW p \in Proposals, NEW v \in 1 .. 7, NEW at, Move(p, v, at)
    PROVE  \A q \in Proposals : Version(q) = 7 => Version(q)' = 7
<1>1. Version(p) # 7 /\ proposal \in [Proposals -> Proposal]
  BY DEF Move, PatchTypeOK
<1>2. \A q \in Proposals \ {p} : proposal'[q] = proposal[q]
  BY <1>1 DEF Move
<1> QED
  BY <1>1, <1>2 DEF Version

\* No proposal leaves the version of an active patch.
LEMMA ActivatedForGood ==
    ASSUME PatchInv, [Next]_patchVars
    PROVE  \A q \in Proposals : Version(q) = 7 => Version(q)' = 7
<1> USE DEF PatchInv
<1>1. CASE UNCHANGED proposal
  BY <1>1 DEF Version
<1>2. ASSUME NEW p \in Proposals, NEW key \in KeysOf[p], OwnerNext(p, key)
      PROVE  \/ UNCHANGED proposal
             \/ \E v \in 1 .. 7, now \in Times : Move(p, v, now)
  <2>1. ASSUME NEW kind, NEW v \in 4 .. 6, NEW now \in Times, Step30(p, kind, v, key, now)
        PROVE  \E w \in 1 .. 7 : Move(p, w, now)
    BY <2>1 DEF Step30
  <2>2. CASE \E now \in Times : Approve(p, key, now)
    BY <2>1, <2>2 DEF Approve
  <2>3. CASE \E now \in Times : Commit(p, key, now)
    BY <2>1, <2>3 DEF Commit
  <2>4. CASE \E now \in Times : Activate(p, key, now)
    BY <2>1, <2>4 DEF Activate
  <2> QED
    BY <1>2, <2>2, <2>3, <2>4 DEF OwnerNext, Supersede, Revoke, Delete, ProposeShared, Terminalize
<1>3. CASE SlotNext
  BY <1>1, <1>3, SlotMoves DEF SlotOnly
<1>4. ASSUME NEW p \in Proposals, NEW at \in Times, CreateProposal(p, at)
      PROVE  \A q \in Proposals : Version(q) = 7 => Version(q)' = 7
  BY <1>4 DEF CreateProposal, Version, PatchTypeOK
<1>5. ASSUME NEW p \in Proposals, ProposalNext(p)
      PROVE  \/ UNCHANGED proposal
             \/ \E at \in Times : CreateProposal(p, at)
             \/ \E v \in 1 .. 7, at \in Times : Move(p, v, at)
  BY <1>5 DEF ProposalNext, SubmitCandidate, BindEvidence, ValidateProposal,
     AdvanceToAwaitingApproval
<1> QED
  BY <1>1, <1>2, <1>3, <1>4, <1>5, MovesGoOn DEF Next, patchVars

-----------------------------------------------------------------------------
LEMMA SupersedeRanks ==
    ASSUME PatchInv, ChainsAreRanked, NEW old \in Proposals, NEW new \in Proposals,
           NEW key, NEW at, Supersede(old, new, key, at)
    PROVE  ChainsAreRanked'
<1>0. Version(new) = 7 /\ \A q \in Proposals : Version(q)' = Version(q)
  BY DEF Supersede, Live, Terminalize, Version
<1>1. PICK rank \in [Proposals -> Nat] : Ranked(rank)
  BY DEF ChainsAreRanked
<1> DEFINE higher == [rank EXCEPT ![new] = rank[new] + rank[old] + 1]
<1>2. higher \in [Proposals -> Nat]
  OBVIOUS
<1>3. /\ old # new
      /\ item[new].superseded_by = None
      /\ item' = [item EXCEPT ![old] = Superseded(new, at)]
  BY DEF Supersede, Live, Terminalize, PatchInv, Staged
<1>4. /\ item'[old].superseded_by = new
      /\ \A p \in Proposals \ {old} : item'[p] = item[p]
  BY <1>3 DEF Superseded, PatchInv, PatchTypeOK
<1>5. /\ \A p \in Proposals : higher[p] >= rank[p]
      /\ \A p \in Proposals \ {new} : higher[p] = rank[p]
      /\ higher[new] > rank[old]
  OBVIOUS
<1> HIDE DEF higher
<1>6. ASSUME NEW p \in Proposals, item'[p].superseded_by # None
      PROVE  /\ item'[p].superseded_by \in Proposals
             /\ proposal'[item'[p].superseded_by].version = 7
             /\ higher[p] < higher[item'[p].superseded_by]
  <2>1. CASE p = old
    BY <1>0, <1>2, <1>3, <1>4, <1>5, <2>1 DEF Version
  <2>2. CASE p # old
    <3>1. p # new /\ item'[p] = item[p]
      BY <1>3, <1>4, <1>6, <2>2
    <3>2. /\ item[p].superseded_by \in Proposals /\ rank[p] < rank[item[p].superseded_by]
          /\ Version(item[p].superseded_by) = 7
      BY <1>1, <1>6, <3>1 DEF Ranked
    <3> QED
      BY <1>0, <1>2, <1>5, <3>1, <3>2 DEF Version
  <2> QED
    BY <2>1, <2>2
<1>7. Ranked(higher)'
  BY <1>6 DEF Ranked, Version
<1> QED
  BY <1>2, <1>7 DEF ChainsAreRanked

\* Every other step replaces no patch.
LEMMA RanksStand ==
    ASSUME PatchInv, ChainsAreRanked, [Next]_patchVars,
           \A p \in Proposals : \/ item'[p].superseded_by = item[p].superseded_by
                                \/ item'[p].superseded_by = None
    PROVE  ChainsAreRanked'
<1>1. PICK rank \in [Proposals -> Nat] : Ranked(rank)
  BY DEF ChainsAreRanked
<1>2. Ranked(rank)'
  <2>1. SUFFICES ASSUME NEW p \in Proposals, item'[p].superseded_by # None
                 PROVE  /\ item'[p].superseded_by \in Proposals
                        /\ proposal'[item'[p].superseded_by].version = 7
                        /\ rank[p] < rank[item'[p].superseded_by]
    BY DEF Ranked, Version
  <2>2. item'[p].superseded_by = item[p].superseded_by
    BY <2>1
  <2>3. /\ item[p].superseded_by \in Proposals
        /\ Version(item[p].superseded_by) = 7
        /\ rank[p] < rank[item[p].superseded_by]
    BY <1>1, <2>1, <2>2 DEF Ranked
  <2> QED
    BY <2>2, <2>3, ActivatedForGood DEF Version
<1> QED
  BY <1>2 DEF ChainsAreRanked

LEMMA RanksStep == PatchInv /\ ChainsAreRanked /\ [Next]_patchVars => ChainsAreRanked'
<1> SUFFICES ASSUME PatchInv, ChainsAreRanked, [Next]_patchVars PROVE ChainsAreRanked'
  OBVIOUS
<1>0. \A p \in Proposals : item[p] \in Item
  BY DEF PatchInv, PatchTypeOK
<1>1. CASE UNCHANGED item
  BY <1>1, RanksStand
<1>2. ASSUME NEW p \in Proposals, NEW state \in {"INACTIVE", "ACTIVE"},
             item' = [item EXCEPT ![p].state = state]
      PROVE  ChainsAreRanked'
  <2>1. \A q \in Proposals : item'[q].superseded_by = item[q].superseded_by
    BY <1>0, <1>2 DEF Item, PatchInv, PatchTypeOK
  <2> QED
    BY <2>1, RanksStand
<1>3. ASSUME NEW p \in Proposals, NEW state,
             item' = [item EXCEPT ![p] = Ended(state)]
      PROVE  ChainsAreRanked'
  <2>1. \A q \in Proposals : \/ item'[q].superseded_by = item[q].superseded_by
                             \/ item'[q].superseded_by = None
    BY <1>3 DEF Ended, PatchInv, PatchTypeOK
  <2> QED
    BY <2>1, RanksStand
<1>4. ASSUME NEW p \in Proposals, NEW key \in KeysOf[p], OwnerNext(p, key)
      PROVE  ChainsAreRanked'
  <2>1. CASE \E now \in Times : Approve(p, key, now)
    BY <1>1, <2>1 DEF Approve
  <2>2. CASE \E now \in Times : Commit(p, key, now)
    BY <1>2, <2>2 DEF Commit
  <2>3. CASE \E now \in Times : Activate(p, key, now)
    BY <1>2, <2>3 DEF Activate
  <2>4. CASE \E q \in Proposals, at \in Times : Supersede(p, q, key, at)
    BY <2>4, SupersedeRanks
  <2>5. CASE Revoke(p, key)
    BY <1>3, <2>5 DEF Revoke, Terminalize
  <2>6. CASE Delete(p, key)
    BY <1>3, <2>6 DEF Delete, Terminalize
  <2>7. CASE ProposeShared(p, key)
    BY <1>1, <2>7 DEF ProposeShared
  <2> QED
    BY <1>4, <2>1, <2>2, <2>3, <2>4, <2>5, <2>6, <2>7 DEF OwnerNext
<1>5. CASE SlotNext
  BY <1>1, <1>5, SlotMoves DEF SlotOnly
<1>6. ASSUME NEW p \in Proposals, ProposalNext(p) PROVE UNCHANGED item
  BY <1>6 DEF ProposalNext, SubmitCandidate, CreateProposal, BindEvidence, ValidateProposal,
     AdvanceToAwaitingApproval, ProposalOnly
<1> QED
  BY <1>1, <1>4, <1>5, <1>6 DEF Next, patchVars

\* The chains of successors are ranked in every reachable state: a patch that
\* replaces another one is active, hence has no successor yet.
LEMMA ChainsStayRanked == Spec => []ChainsAreRanked
<1>1. Init => ChainsAreRanked
  <2>1. [p \in Proposals |-> 0] \in [Proposals -> Nat]
    OBVIOUS
  <2> QED
    BY <2>1 DEF Init, ChainsAreRanked, Ranked
<1> QED
  BY <1>1, RanksStep, PatchInvariant, PTL DEF Spec

LEMMA SuccessorsWereActive ==
    ASSUME PatchInv, NEW p \in Proposals, item[p].state = "SUPERSEDED"
    PROVE  Version(p) = 7
<1>1. Version(p) \in 0 .. 7 /\ ~ (Version(p) < 6) /\ Version(p) # 6
  BY VersionsAreStages DEF PatchInv, Staged
<1> QED
  BY <1>1

(* However many patches replace one another: each ends at most once, with    *)
(* one record that tells what its item tells, and who follows the successors *)
(* comes to a patch that none has replaced; there is no cycle.               *)
THEOREM PatchesAlwaysEndOnce == Spec => []PatchesEndOnce
<1>1. PatchInv /\ ChainsAreRanked => PatchesEndOnce
  <2> SUFFICES ASSUME PatchInv, ChainsAreRanked, NEW p \in Proposals,
                      item[p].state = "SUPERSEDED"
               PROVE  \E q \in Successors(p, Cardinality(Proposals)) :
                        Version(q) = 7 /\ item[q].superseded_by = None
    BY DEF PatchesEndOnce, ChainsEnd, PatchInv
  <2>1. PICK q \in Successors(p, Cardinality(Proposals)) :
          /\ item[q].superseded_by = None /\ q \in Proposals
          /\ q = p \/ Version(q) = 7
    BY ChainReachesItsEnd
  <2> QED
    BY <2>1, SuccessorsWereActive
<1> QED
  BY <1>1, PatchInvariant, ChainsStayRanked, PTL
=============================================================================
