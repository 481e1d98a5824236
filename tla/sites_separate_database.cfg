SPECIFICATION Spec
CONSTANTS
  web = web
  cmd = cmd
  a_b = a_b
  a_dot_b = a_dot_b
  a_b_co_wp = a_b_co_wp
  NoSite = NoSite
  NoRow = NoRow
  NoPlan = NoPlan
  Torn = Torn
  Slots <- MCSlots
  Processes <- MCProcesses
  Owner <- MCOwner
  Domains <- MCDomains
  Names <- MCNames
  DbName <- MCDbName
  Versions <- MCVersions
  Supported <- MCSupported
  Requests <- MCRequests
  Faults = {}
INVARIANTS
  SeparateDatabase
