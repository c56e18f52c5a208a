---------------------------- MODULE SagaContract ----------------------------
(***************************************************************************)
(* What an ingestion saga promises, with no workers, leases or clocks: it  *)
(* climbs one milestone at a time, each edge only once the evidence it     *)
(* waits for is durable, evidence is never taken back, and a quarantined   *)
(* or published saga never moves again.                                    *)
(***************************************************************************)
EXTENDS SagaMilestones

VARIABLES
    stage,      \* current milestone
    fate,       \* "ABSENT", "OPEN", "QUARANTINED" or "COMPLETED"
    declared,   \* effects with a durable intent
    proven      \* effects with a durable receipt

contractVars == <<stage, fate, declared, proven>>

ContractInit ==
    /\ stage = REGISTERED
    /\ fate = "ABSENT"
    /\ declared = {}
    /\ proven = {}

Register ==
    /\ fate = "ABSENT"
    /\ fate' = "OPEN"
    /\ UNCHANGED <<stage, declared, proven>>

\* Declaring intent is allowed even to a quarantined saga: the store fences
\* the saga row, not the evidence rows.
Declare(k) ==
    /\ fate # "ABSENT"
    /\ stage = IntentMilestone[k]
    /\ declared' = declared \cup {k}
    /\ UNCHANGED <<stage, fate, proven>>

Prove(k) ==
    /\ k \in declared
    /\ proven' = proven \cup {k}
    /\ UNCHANGED <<stage, fate, declared>>

Evidenced(target) ==
    LET k == PrerequisiteKind[target]
    IN  IF RequiresReceipt(target) THEN k \in proven ELSE k \in declared

Advance ==
    /\ fate = "OPEN"
    /\ stage < PUBLISHED
    /\ Evidenced(stage + 1)
    /\ stage' = stage + 1
    /\ fate' = IF stage' = PUBLISHED THEN "COMPLETED" ELSE "OPEN"
    /\ UNCHANGED <<declared, proven>>

Quarantine ==
    /\ fate = "OPEN"
    /\ fate' = "QUARANTINED"
    /\ UNCHANGED <<stage, declared, proven>>

ContractNext ==
    \/ Register
    \/ \E k \in Kinds : Declare(k)
    \/ \E k \in Kinds : Prove(k)
    \/ Advance
    \/ Quarantine

ContractSpec == ContractInit /\ [][ContractNext]_contractVars
=============================================================================
