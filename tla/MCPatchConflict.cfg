SPECIFICATION Spec
CONSTANTS
  p1 = p1
  p2 = p2
  p3 = p3
  k1 = k1
  k2 = k2
  None = None
  Proposals = {p1, p2, p3}
  Keys = {k1, k2}
  Claim <- MCClaim
  KeysOf <- MCKeysOf
  Limits = {1, 2}
  MaximumProposals = 2
  RevalidationAge = 0
  MaxTime = 1
  MaxSlotVersion = 3
SYMMETRY Symmetry
PROPERTY ExistingPatchConflictsDetected
CHECK_DEADLOCK FALSE
