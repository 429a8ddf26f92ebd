\* Two runs one after the other on one workstation; every fault, one crash.
SPECIFICATION Spec
CONSTANTS
  r1 = r1
  r2 = r2
  Runs = {r1, r2}
  Main = main
  b1 = b1
  b2 = b2
  Names = {b1, b2}
  Questions = {q1, q2}
  NoQuestion = NoQuestion
  NoRun = NoRun
  Editors = {e1, e2}
  MaxPolls = 2
  MaxCrashes = 1
  Deployments <- AllDeployments
CHECK_DEADLOCK FALSE
INVARIANTS
  TypeOK
  SleepingIsStopped
  RunsDoNotMix
  BootingOwned
  ReportHasWork
  CompletedWasBuilt
  NothingWithoutAnswer
PROPERTIES
  WorkerComesFree
