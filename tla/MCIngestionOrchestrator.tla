----------------------- MODULE MCIngestionOrchestrator -----------------------
(***************************************************************************)
(* Small instances of IngestionOrchestrator for TLC.  Evidence is built    *)
(* from the workers, so that two workers' receipts differ.                 *)
(***************************************************************************)
EXTENDS IngestionOrchestrator, TLC

CONSTANTS w1, w2, none

OneWorker  == {w1}
TwoWorkers == {w1, w2}

MCEvidence == [by : Workers \cup {None}, ref : 0..(3 + MaxReviews)]

AnyContent == {"CLEAN", "BLOCKED", "REJECTED", "INELIGIBLE"}
CleanContent == {"CLEAN"}

Symmetry == Permutations(TwoWorkers)
=============================================================================
