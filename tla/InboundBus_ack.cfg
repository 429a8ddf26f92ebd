\* Redis, and one thing that can fail: the publication.
SPECIFICATION Spec
CONSTANTS
  m1 = m1
  m2 = m2
  w1 = w1
  Messages = {m1, m2}
  Webhooks = {w1}
  Batch <- MCBatch
  Requests = {q1, q2}
  Workers = {k1}
  Transports = {"redis"}
  FaultSets = {{"publish_error"}}
  MaxSends = 2
  MaxReplays = 0
  MaxMessages = 1
  MaxDeliveries = 1
  DeadLetters <- MCDeadLetters
  NoMessage = NoMessage
  NoWebhook = NoWebhook
CHECK_DEADLOCK FALSE
INVARIANTS
  AcceptedIsPublished
