--------------------------- MODULE MCIngestionSaga ---------------------------
(***************************************************************************)
(* A small instance of IngestionSaga for TLC: two workers' tokens, two     *)
(* pieces of evidence that can disagree, one locator.                      *)
(***************************************************************************)
EXTENDS IngestionSaga, TLC

CONSTANTS t1, t2, r1, r2, l1, none

MCTokens == {t1, t2}
MCReceipts == {r1, r2}
MCLocators == {l1}

Symmetry == Permutations(MCTokens) \cup Permutations(MCReceipts)
=============================================================================
