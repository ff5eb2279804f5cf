SPECIFICATION FairSpec
CONSTANTS
  Keys = {k1}
  Fields = {f1}
  MaxEdits = 0
  MaxFailures = 0
  Slots = {s1, s2}
  MaxWrites = 1
  MaxErrors = 0
  MaxSwitches = 0
PROPERTIES RailEventuallyFresh
CHECK_DEADLOCK FALSE
