\* One worker and two, from no faults to all of them.
SPECIFICATION FairSpec
CONSTANTS
  Notes = {1, 2}
  Workers = {k1, k2}
  Crews = {{k1}, {k1, k2}}
  FaultSets = {{"provider_error"}, {"provider_error", "lost_response", "crash"}}
  Limit = 2
  MaxAttempts = 2
  ProviderTries = 2
  NoNote = NoNote
CHECK_DEADLOCK FALSE
INVARIANTS
  TypeOK
  SentWasDelivered
  FailedWasTried
  DeliveredOnce
  AttemptsBounded
PROPERTIES
  FinalStays
  Resolved
