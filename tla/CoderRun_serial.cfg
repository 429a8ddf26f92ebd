\* One worker and one reviewer at a time; every fault.
SPECIFICATION Spec
CONSTANTS
  Runs = {r1, r2}
  Approvals = {a1, a2, a3, a4, a5}
  Workers = {w1}
  Requests = {q1}
  Channels = {"hub"}
  Faults = {"crash", "step_error", "lost_resume"}
  Executors = {"local", "gcp"}
  MaxQueue = 2
  NoRun = NoRun
  NoApproval = NoApproval
SYMMETRY RowSymmetry
CHECK_DEADLOCK FALSE
INVARIANTS
  AdvancedOnce
  OneOpenGate
  ReportIsCurrent
  RefusedNotAdvanced
PROPERTIES
  PublishedStaysCompleted
  ImplementsGate
