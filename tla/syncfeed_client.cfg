\* Three callers, two permits, one retry; 2 -> 3 -> 1 -> 0 is how pacing moves.
SPECIFICATION FairSpec
CONSTANTS
  w1 = w1
  w2 = w2
  w3 = w3
  Callers <- MCCallers
  MaxRequests = 2
  MaxRetries = 1
  InitialDelay = 2
  MaxDelay = 3
INVARIANTS
  TypeOK
  PermitsInUse
  PacedAfterTooMany
  RetriesExact
PROPERTIES
  CallsEnd
