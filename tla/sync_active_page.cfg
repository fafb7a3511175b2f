\* docs/operations.md: graceful shutdown does not abort an active page.
SPECIFICATION Spec
CONSTANTS
  c1 = c1
  c2 = c2
  e1 = e1
  e2 = e2
  Categories <- MCOneCategory
  Entities <- MCOneEntity
  MaxFeed = 2
  PageSize = 1
  MaxAttempts = 2
  Launches <- MCPoll
PROPERTIES
  ActivePageNotAborted
