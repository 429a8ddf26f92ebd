CONSTANTS
  r1 = r1
  r2 = r2
  r3 = r3
  k1 = k1
  k2 = k2
  Runs = {r1, r2, r3}
  NoRun = NoRun
  Workers = {k1, k2}
  Deployments <- MCDeployments
  Chain <- MCChain
  Budget = 7
  MaxPushes = 1
  MaxIndex = 3
  MaxGates = 2
SPECIFICATION Spec
\* When every run is answered nothing is left to do.
CHECK_DEADLOCK FALSE
INVARIANTS
  TypeOK
  CodesWhatWasApproved
  OneContextPerRun
  CodesOnGatedContext
  PublishesWhatWasCoded
  LedgerTellsTruth
  OverBudgetUnused
