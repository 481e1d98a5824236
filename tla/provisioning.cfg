SPECIFICATION FairSpec
CONSTANTS
  web = web
  cmd = cmd
  t1 = t1
  d1 = d1
  wp = wp
  db = db
  NoSite = NoSite
  NoName = NoName
  NoRow = NoRow
  NoPlan = NoPlan
  Torn = Torn
  Server = "server"
  Jobs <- MCJobs
  Tasks <- MCTasks
  Processes <- MCProcesses
  Owner <- MCOwner
  Domains <- MCDomains
  Names <- MCNames
  DbName <- MCDbName
  SiteBase <- MCSiteBase
  Candidates <- MCCandidates
  Versions <- MCVersions
  Supported <- MCVersions
  Requests <- MCRequests
  Faults <- MCFaults
INVARIANTS
  ForeignKeysHold
  StrandedHasReason
PROPERTIES
  SiteServiceSpec
  DatabaseServiceSpec
  EverySiteSettles
