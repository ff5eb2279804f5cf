SPECIFICATION FairSSpec
CONSTANTS
  Operations = {rd, wr}
  Reads = {rd}
  Calls <- MCCalls
  Settings <- MCSettings
  MaxPerClient = 1
  MaxSessions = 2
  MaxFaults = 1
INVARIANTS AtMostOnce
PROPERTIES FirstComeFirstStarted NoLateStart WithinLimits RefusedNotRun Resumes
