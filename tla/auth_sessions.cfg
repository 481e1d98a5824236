SPECIFICATION Spec
CONSTANTS
  t1 = t1
  t2 = t2
  NoToken = NoToken
  Slots <- MCSlots
  Duration = 1
  Horizon = 2
  Faults <- AllFaults
SYMMETRY Alike
INVARIANTS
  TypeOK
  DoomedRequestsAreRefused
  LogoutSticks
  AnsweredSessionLives
PROPERTIES
  SessionServiceSpec
