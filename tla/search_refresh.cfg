\* Violated: a completed pass may leave stale documents.
SPECIFICATION Spec
CONSTANTS
  Keys <- TwoKeys
  MaxToken = 2
  MaxEvents = 3
  BatchSize = 1
INVARIANTS
  StaleConverges
