SPECIFICATION Spec
CONSTANTS
  Ids = {i1, i2, i3}
  Browsers = {b1, b2}
  NoId = NoId
  MaxLoggedIn = 1
  LoginTtl = 3
  MaxClock = 11
SYMMETRY Symmetry
INVARIANTS TypeOK SessionsLast CrashLosesOnlyLatest LoginLimit
CHECK_DEADLOCK FALSE
