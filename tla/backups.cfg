SPECIFICATION Spec
CONSTANTS
  web = web
  cmd = cmd
  d1 = d1
  db1 = db1
  NoSite = NoSite
  Horizon = 2
  Slots <- MCSlots
  Processes <- MCProcesses
  Owner <- MCOwner
  Domains <- MCDomains
  Names <- MCNames
  Faults <- AllFaults
INVARIANTS
  TypeOK
  RecordedIsWhole
  LastBackupIsRecorded
PROPERTIES
  LastBackupAdvances
