SPECIFICATION FairSpec
CONSTANTS
  t1 = t1
  t2 = t2
  d1 = d1
  d2 = d2
  f1 = f1
  f2 = f2
  f3 = f3
  NoDomain = NoDomain
  NoFile = NoFile
  NoService = NoService
  NoReport = NoReport
  Empty = Empty
  Mixed = Mixed
  Panel = "panel"
  Slots <- MCSlots
  Scopes <- MCScopes
  Domains <- MCDomains
  Files <- MCFiles
  SiteOf <- MCSiteOf
  Scannable <- MCScannable
  Writable <- MCWritable
  Restarts <- MCRestarts
  Overviews <- MCOverviews
  Present <- MCPresent
  Stored <- MCStored
  Services <- MCServices
  Commands <- MCCommands
  InContainer = TRUE
  Limit = 1
  Changes = 1
  Horizon = 1
  Requests = 2
  Faults <- AllFaults
INVARIANTS
  TypeOK
  SteadySignaturesAreFound
  AnsweredReport
  AnswerAccountsForRestarts
  OverviewAgreesWithItself
CHECK_DEADLOCK FALSE
PROPERTIES
  EveryRequestReturns
