SPECIFICATION FairSaveSpec
CONSTANTS
  Keys = {k1, k2}
  Fields = {f1}
  MaxEdits = 2
  MaxFailures = 2
INVARIANTS NoEditLost CleanMeansStored
PROPERTIES LeavingLosesNothing EventuallySettled
