\* Two categories under one JoinSet: the failure of one aborts the other.
SPECIFICATION Spec
CONSTANTS
  c1 = c1
  c2 = c2
  e1 = e1
  e2 = e2
  Categories <- MCCategories
  Entities <- MCOneEntity
  MaxFeed = 1
  PageSize = 1
  MaxAttempts = 1
  Launches <- MCRun
PROPERTIES
  RefinesCategoryCursor
