--------------------------- MODULE MCJuryRuntime ---------------------------
(***************************************************************************)
(* Small instances of JuryRuntime for TLC.                                 *)
(***************************************************************************)
EXTENDS JuryRuntime, TLC

CONSTANTS p1, p2, s1, o1, k1, none

MCOwnerOf == [s \in Sessions |-> o1]
MCRequestLimits == [total |-> 2, owner |-> 2, session |-> 2]
MCCallLimits == [total |-> 3, owner |-> 3, session |-> 3, request |-> 2]
=============================================================================
