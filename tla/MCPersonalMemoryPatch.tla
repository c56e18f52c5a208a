------------------------ MODULE MCPersonalMemoryPatch ------------------------
(* p1 and p3 state the same claim, p2 its negation.  The owner's requests    *)
(* for p2 may use the key of the others, so that p1 and p3 are               *)
(* interchangeable.                                                          *)
EXTENDS PatchRetrieval, TLC

CONSTANTS p1, p2, p3, k1, k2

MCClaim == [p \in Proposals |-> [subject |-> "s", negative |-> p = p2]]
MCKeysOf == [p \in Proposals |-> IF p = p2 THEN {k1, k2} ELSE {k1}]

Symmetry == Permutations({p1, p3})
=============================================================================
