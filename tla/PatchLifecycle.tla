--------------------------- MODULE PatchLifecycle ---------------------------
(* What the kernel promises of each personal memory patch: it takes the      *)
(* edges of MEMORY_PATCH_TRANSITIONS one at a time, and the patch that takes *)
(* the place of a superseded one is ACTIVE when it does.                     *)
CONSTANTS Patches, NoPatch

VARIABLES status, successor

patchVars == << status, successor >>

PatchState == {"DETECTED", "PROPOSED", "EVIDENCE_BOUND", "VALIDATED",
               "AWAITING_APPROVAL", "APPROVED", "REJECTED", "COMMITTED",
               "ACTIVE", "SUPERSEDED", "REVOKED"}

\* MEMORY_PATCH_TRANSITIONS.
Transitions ==
  {<< "DETECTED", "PROPOSED" >>, << "PROPOSED", "EVIDENCE_BOUND" >>,
   << "EVIDENCE_BOUND", "VALIDATED" >>,
   << "VALIDATED", "AWAITING_APPROVAL" >>,
   << "AWAITING_APPROVAL", "APPROVED" >>,
   << "AWAITING_APPROVAL", "REJECTED" >>,
   << "APPROVED", "COMMITTED" >>, << "COMMITTED", "ACTIVE" >>,
   << "ACTIVE", "SUPERSEDED" >>, << "ACTIVE", "REVOKED" >>}

PatchInit == /\ status = [p \in Patches |-> "DETECTED"]
             /\ successor = [p \in Patches |-> NoPatch]

Take(p, s) == /\ << status[p], s >> \in Transitions
              /\ s # "SUPERSEDED"
              /\ status' = [status EXCEPT ![p] = s]
              /\ UNCHANGED successor

Supersede(p, q) == /\ p # q
                   /\ status[p] = "ACTIVE" /\ status[q] = "ACTIVE"
                   /\ status' = [status EXCEPT ![p] = "SUPERSEDED"]
                   /\ successor' = [successor EXCEPT ![p] = q]

PatchNext == \E p \in Patches : \/ \E s \in PatchState : Take(p, s)
                                \/ \E q \in Patches : Supersede(p, q)

PatchSpec == PatchInit /\ [][PatchNext]_patchVars
=============================================================================
