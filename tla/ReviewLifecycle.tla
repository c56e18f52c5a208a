-------------------------- MODULE ReviewLifecycle --------------------------
(* What the review workspace promises of each case: it is opened once,       *)
(* claimed by one reviewer, decided once and by that reviewer, and closed    *)
(* once and the way the decision says.  ReviewWorkspace implements it with   *)
(* rows that carry hashes of one another and an audit event for each step.   *)
CONSTANTS Cases, Reviewers, Verdicts, NoOne, Undecided

VARIABLES stage, claimant, verdict

lifecycleVars == << stage, claimant, verdict >>

LifecycleInit == /\ stage = [c \in Cases |-> "NONE"]
                 /\ claimant = [c \in Cases |-> NoOne]
                 /\ verdict = [c \in Cases |-> Undecided]

Open(c) == /\ stage[c] = "NONE"
           /\ stage' = [stage EXCEPT ![c] = "OPEN"]
           /\ UNCHANGED << claimant, verdict >>

Claim(c, r) == /\ stage[c] = "OPEN"
               /\ stage' = [stage EXCEPT ![c] = "CLAIMED"]
               /\ claimant' = [claimant EXCEPT ![c] = r]
               /\ UNCHANGED verdict

\* Who decides is not a parameter: it is the claimant.
Decide(c, v) == /\ stage[c] = "CLAIMED"
                /\ stage' = [stage EXCEPT ![c] = "IN_REVIEW"]
                /\ verdict' = [verdict EXCEPT ![c] = v]
                /\ UNCHANGED claimant

Close(c) == /\ stage[c] = "IN_REVIEW"
            /\ stage' = [stage EXCEPT ![c] =
                 IF verdict[c] = "ESCALATE" THEN "ESCALATED" ELSE "RESOLVED"]
            /\ UNCHANGED << claimant, verdict >>

LifecycleNext == \E c \in Cases : \/ Open(c)
                                  \/ \E r \in Reviewers : Claim(c, r)
                                  \/ \E v \in Verdicts : Decide(c, v)
                                  \/ Close(c)

LifecycleSpec == LifecycleInit /\ [][LifecycleNext]_lifecycleVars
=============================================================================
