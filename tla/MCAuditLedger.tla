--------------------------- MODULE MCAuditLedger ---------------------------
(* Instances of AuditLedger and AuditReader for TLC.                         *)
EXTENDS AuditReader, TLC

CONSTANTS a1, a2, k1, k2, k3, b1, b2, c1, c2

\* Appenders, keys and bodies are only compared; chains too.
Symmetry == Permutations(Appenders) \cup Permutations(Keys)
              \cup Permutations(Bodies) \cup Permutations(Chains)
=============================================================================
