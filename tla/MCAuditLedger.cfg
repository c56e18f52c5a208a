SPECIFICATION FairLedgerSpec
CONSTANTS
  c1 = c1
  c2 = c2
  k1 = k1
  k2 = k2
  k3 = k3
  b1 = b1
  b2 = b2
  a1 = a1
  a2 = a2
  NoOne = NoOne
  Chains = {c1}
  Keys = {k1, k2}
  Bodies = {b1}
  Appenders = {a1, a2}
  MaxTime = 1
  MaxAttempts = 2
  VerifyLimit = 1
  MaximumEvents = 2
INVARIANTS LedgerConsistent ReceiptsAreDurable CompetitorsConverge ReadersAreExact
PROPERTIES ImplementsLog AppendReturns
