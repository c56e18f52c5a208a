-------------------------- MODULE PublicationStates --------------------------
(***************************************************************************)
(* The publication states of a Step 9 source registry entry and the edges  *)
(* between them.                                                           *)
(***************************************************************************)
PublicationStates ==
    {"REGISTERED", "REVIEW_REQUIRED", "ELIGIBLE", "PUBLISHED",
     "QUARANTINED", "WITHDRAWN", "REJECTED"}

\* ALLOWED_PUBLICATION_TRANSITIONS
AllowedPublication ==
    [s \in PublicationStates |->
       CASE s = "REGISTERED"      -> {"REVIEW_REQUIRED", "QUARANTINED",
                                      "REJECTED"}
         [] s = "REVIEW_REQUIRED" -> {"ELIGIBLE", "QUARANTINED", "REJECTED"}
         [] s = "ELIGIBLE"        -> {"PUBLISHED", "REVIEW_REQUIRED",
                                      "QUARANTINED"}
         [] s = "PUBLISHED"       -> {"WITHDRAWN", "QUARANTINED"}
         [] s = "QUARANTINED"     -> {"REVIEW_REQUIRED", "REJECTED"}
         [] s = "WITHDRAWN"       -> {"REVIEW_REQUIRED"}
         [] OTHER                 -> {}]

\* Targets that need a fresh eligibility decision.
NeedsEligibility == {"ELIGIBLE", "PUBLISHED"}
=============================================================================
