\* A worker may die between two steps.
SPECIFICATION FairSpec
CONSTANTS
  Runs = {r1}
  Approvals = {a1, a2, a3}
  Workers = {w1}
  Requests = {q1}
  Channels = {"hub"}
  Faults = {"crash"}
  Executors = {"gcp"}
  MaxQueue = 1
  NoRun = NoRun
  NoApproval = NoApproval
CHECK_DEADLOCK FALSE
PROPERTIES
  RunsSettle
