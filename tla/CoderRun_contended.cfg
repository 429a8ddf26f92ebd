\* Two workers, Slack buttons and chat messages, crashes and failing steps.
SPECIFICATION Spec
CONSTANTS
  Runs = {r1}
  Approvals = {a1, a2, a3}
  Workers = {w1, w2}
  Requests = {q1}
  Channels = {"slack", "chat"}
  Faults = {"crash", "step_error"}
  Executors = {"gcp"}
  MaxQueue = 1
  NoRun = NoRun
  NoApproval = NoApproval
SYMMETRY ContendedSymmetry
CHECK_DEADLOCK FALSE
INVARIANTS
  TypeOK
  ThreeGates
PROPERTIES
  ImplementsGate
