SPECIFICATION Spec
CONSTANTS
  HasPrefix <- MCHasPrefix
  NameOf <- MCNameOf
  Topics <- MCTopics
  Headers <- MCHeaders
  Types = {"A", "B"}
  Sizes = {0, 2}
  FileVars <- MCFileVars
  Options <- MCOptions
  MaxClock = 6
INVARIANTS LookupIsMostSpecific DeadlineIsKept NothingIsLost
CHECK_DEADLOCK FALSE
