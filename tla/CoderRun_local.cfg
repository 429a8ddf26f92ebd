\* The local executor, nothing fails.
SPECIFICATION FairSpec
CONSTANTS
  Runs = {r1}
  Approvals = {a1, a2, a3}
  Workers = {w1}
  Requests = {q1}
  Channels = {"hub"}
  Faults = {}
  Executors = {"local"}
  MaxQueue = 1
  NoRun = NoRun
  NoApproval = NoApproval
CHECK_DEADLOCK FALSE
PROPERTIES
  ApprovedPublishActedOn
