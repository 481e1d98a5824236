SPECIFICATION FairSpec
CONSTANTS
  t1 = t1
  t2 = t2
  d1 = d1
  name = name
  name_1 = name_1
  NoSite = NoSite
  NoName = NoName
  NoRow = NoRow
  Slots <- MCSlots
  Domains <- MCDomains
  Names <- MCNames
  SiteBase <- MCSiteBase
  Candidates <- MCCandidates
  Faults <- AllFaults
INVARIANTS
  TypeOK
  NoLeakedFile
  ReadyHasFile
  OrphansBlockName
PROPERTIES
  EveryRequestReturns
