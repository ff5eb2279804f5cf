SPECIFICATION Spec
CONSTANTS
  Callers = {c1}
  MaxVersions = 2
  HashOf <- MCHashOf
  MaxGrants = 2
  MaxJobs = 1
  Requests = {r1, r2}
  OwnerSets <- MCOwnerSets
SYMMETRY Symmetry
INVARIANTS OnlyPublishedRuns RunsOnce RenewalsAreCurrent ReadOnlyStaysReadOnly
PROPERTIES HandedOutOnlyWhileApproved RevokedStaysOut
CHECK_DEADLOCK FALSE
