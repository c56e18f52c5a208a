-------------------------- MODULE KnowledgeRouting --------------------------
(* The two axes of Step 17, pure decisions over one request: which HAT may   *)
(* speak for it (routing/router.py) and whether its knowledge may be         *)
(* answered with (routing/policy.py).                                        *)
EXTENDS Integers, FiniteSets

\* A candidate HAT, reduced to the answers the checks of the router give.
Candidate == [hat        : STRING,
              registered : BOOLEAN,   \* this version is in the snapshot
              usable     : BOOLEAN,   \* neither quarantined nor revoked
              ours       : BOOLEAN,   \* tenant and owner agree or are open
              trusted    : BOOLEAN,   \* enabled, reviewed, without authority
              scope      : {"FITS", "AMBIGUOUS", "MISFIT"},
              mandatory  : BOOLEAN]

KnowledgeRoute == {"PASS_THROUGH", "HAT_ASSIST", "HAT_ENFORCE", "AMBIGUOUS"}
HatRoutes      == {"HAT_ASSIST", "HAT_ENFORCE"}
Decisions      == {"ALLOW_ANSWER", "REQUIRE_CONFIRMATION", "BLOCK_ANSWER"}

Eligible(c) == /\ c.registered /\ c.usable /\ c.ours /\ c.trusted
               /\ c.scope = "FITS"

\* A mandatory candidate that fails never falls back to a wider route.
RouteOf(candidates) ==
  LET eligible == {c \in candidates : Eligible(c)}
      enforced == {c \in eligible : c.mandatory}
  IN IF \E c \in candidates \ eligible : c.mandatory THEN "AMBIGUOUS"
     ELSE IF Cardinality(enforced) > 1 THEN "AMBIGUOUS"
     ELSE IF enforced # {} THEN "HAT_ENFORCE"
     ELSE IF Cardinality(eligible) > 1 THEN "AMBIGUOUS"
     ELSE IF eligible # {} THEN "HAT_ASSIST"
     ELSE "PASS_THROUGH"

\* The coverage that the policy is given for the status of Step 21.
CoverageOf(status) ==
  IF status = "INSUFFICIENT" THEN "PARTIAL"
  ELSE IF status \in {"UNAVAILABLE", "NOT_REQUIRED"} THEN "EMPTY"
  ELSE IF status = "CONFLICTING" THEN "CONFLICTING"
  ELSE "COMPLETE"

\* A policy context: [scopeAllowed : BOOLEAN, ceiling : Decisions].
KnowledgeDecision(route, context, status) ==
  IF \/ route = "AMBIGUOUS"
     \/ ~context.scopeAllowed
     \/ context.ceiling = "BLOCK_ANSWER"
     \/ status \in {"UNAVAILABLE", "STALE", "INVALID"}
     \/ route \in HatRoutes /\ status = "NOT_REQUIRED"
  THEN "BLOCK_ANSWER"
  ELSE IF \/ status = "CONFLICTING"
          \/ CoverageOf(status) = "PARTIAL"
          \/ context.ceiling = "REQUIRE_CONFIRMATION"
  THEN "REQUIRE_CONFIRMATION"
  ELSE "ALLOW_ANSWER"
=============================================================================
