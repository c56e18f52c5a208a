----------------------------- MODULE CallBudget -----------------------------
(* What the demo runtime promises about paid provider calls, whatever stops  *)
(* or restarts: a call is charged before it is made, it is made once, a      *)
(* charge is never refunded, and no more than Ceiling calls are charged in   *)
(* one budget epoch.                                                         *)
EXTENDS Naturals, FiniteSets

CONSTANTS Calls, Ceiling

VARIABLES charged,   \* calls that have used up a unit of the ceiling
          made       \* calls the provider was asked for

budgetVars == << charged, made >>

BudgetInit == charged = {} /\ made = {}

Charge(c) == /\ c \notin charged
             /\ Cardinality(charged) < Ceiling
             /\ charged' = charged \cup {c}
             /\ UNCHANGED made

Make(c) == /\ c \in charged \ made
           /\ made' = made \cup {c}
           /\ UNCHANGED charged

BudgetNext == \E c \in Calls : Charge(c) \/ Make(c)

BudgetSpec == BudgetInit /\ [][BudgetNext]_budgetVars
=============================================================================
