\* Two entities, three skiptokens, windows of one row (and of two, at ties).
SPECIFICATION FairSpec
CONSTANTS
  Keys <- TwoKeys
  MaxToken = 3
  MaxEvents = 3
  BatchSize = 1
INVARIANTS
  TypeOK
  SuffixExact
PROPERTIES
  PassEnds
