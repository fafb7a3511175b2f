SPECIFICATION DatabaseSpec
CONSTANTS
  EntityTypes <- MCEntityTypes
  SqlName <- MCSqlName
  Normal <- MCNormal
  UpperCamel <- MCUpperCamel
  Reads <- MCReads
  Rank <- MCRank
  NoValue = NoValue
  Base <- MCBase
  ContentMode = "content"
  Lower <- MCLower
  Numeric <- MCNumeric
  Number <- MCNumber
  Absent = Absent
  Feeds <- MCFeeds
  MaxPages = 3
  sync = sync
  reconciler = reconciler
  Syncs = {sync}
  Reconcilers = {reconciler}
  Found <- MCFound
  MaxStarts = 2
  Ids <- MCIds
  Limit = 2
  MaxToken = 2
  MaxRetries = 1
  Bodies <- MCBodies
  Readable <- MCReadable
  TextOf <- MCTextOf
  Documents <- MCDocuments
  c1 = c1
  c2 = c2
  Callers = {c1, c2}
  Requests <- MCRequests
  Runs <- MCRuns
  AlternativeRuns <- MCAlternativeRuns
  Fixtures = {"none"}
  Times = {1}
  Pages <- MCPages
  MaxId = 3
  NoAsset = NoAsset
INVARIANTS
  BootTypeOK
  IngestTypeOK
  TypeOK
  ContentMatchesAsset
  RecordedOnce
  ServedAlike
  ReadsAgree
  MissedOnlyTiesAndLate
  WorksOnExpectedSchema
  CyclesNeedAPage
  AcceptedPageIsUsable
  StoredIsLatestPayload
PROPERTIES
  RefinesDocumentStore
  RefinesSchemaCatalog
CHECK_DEADLOCK FALSE
