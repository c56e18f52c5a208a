------------------------- MODULE MCReviewWorkspace -------------------------
(* Two answer cases of one owner: the audit context of the one verified,     *)
(* that of the other did not.                                                *)
EXTENDS ReviewWorkspace, TLC

CONSTANTS c1, c2, r1, r2, s1, k1

MCCaseType == c1 :> "ANSWER_CONFIRMATION_REQUIRED" @@ c2 :> "ANSWER_VERIFICATION_FAILURE"
MCAuditVerified == c1 :> TRUE @@ c2 :> FALSE
MCQueueRank == c1 :> 1 @@ c2 :> 0
MCAuthorized == {<< r1, c1 >>, << r1, c2 >>, << r2, c1 >>}
=============================================================================
