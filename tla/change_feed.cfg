SPECIFICATION FeedSpec
CONSTANTS
  Ids <- MCIds
  Limit = 2
  MaxToken = 3
INVARIANT ResumeMissesNothing
CHECK_DEADLOCK FALSE
