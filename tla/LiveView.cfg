SPECIFICATION FairSpec
CONSTANTS
  Keys = {k1}
  Fields = {f1}
  MaxEdits = 1
  MaxFailures = 0
  Slots = {s1, s2}
  MaxWrites = 1
  MaxErrors = 1
  MaxSwitches = 1
INVARIANTS OwnEnvironment
CHECK_DEADLOCK FALSE
PROPERTIES DraftKept NeverBackwards EventuallyFresh
