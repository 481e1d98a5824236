SPECIFICATION Spec
CONSTANTS
  b1 = b1
  b2 = b2
  t1 = t1
  t2 = t2
  k1 = k1
  k2 = k2
  NoTab = NoTab
  NoToken = NoToken
  NoAction = NoAction
  Unread = Unread
  Desk = b1
  Tabs <- MCTabs
  Slots <- MCSlots
  Tokens <- MCTokens
  Actions <- MCActions
  Refreshing <- MCRefreshing
  Changes = 1
  Faults <- AllFaults
SYMMETRY Alike
INVARIANTS
  TypeOK
  SessionsAccountedFor
  
  ShownIsFresh
