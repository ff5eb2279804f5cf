SPECIFICATION FairSpec
CONSTANTS
  Apps = {a1}
  Runners = {r1, r2}
  Grants = {g1, g2}
  Jobs = {j1, j2}
  Identities = {"i1"}
  IdentityOf <- MCIdentityOf
  MaxAttempts = 2
  LeaseTime = 1
  JobTime = 2
  ResultTime = 2
  GrantTimes = {2}
  RequestPause = 1
INVARIANTS TaskTypeOK RevocationHolds DeadlinesNest Fenced
PROPERTIES ReleasedOnlyWhileGranted JobsEnd
