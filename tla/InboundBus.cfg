\* Both transports, from no faults to all of them.
SPECIFICATION FairSpec
CONSTANTS
  m1 = m1
  m2 = m2
  w1 = w1
  Messages = {m1, m2}
  Webhooks = {w1}
  Batch <- MCBatch
  Requests = {q1, q2}
  Workers = {k1, k2}
  Transports = {"redis", "pubsub"}
  FaultSets <- MCFaultSets
  MaxSends = 2
  MaxReplays = 1
  MaxMessages = 2
  MaxDeliveries = 2
  DeadLetters <- MCDeadLetters
  NoMessage = NoMessage
  NoWebhook = NoWebhook
CHECK_DEADLOCK FALSE
INVARIANTS
  TypeOK
  OneRunPerDelivery
  NothingLost
  AckedDone
PROPERTIES
  Handled
