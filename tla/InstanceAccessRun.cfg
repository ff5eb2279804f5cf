\* A client that loses Run keeps the grants it had (expected to be violated).
SPECIFICATION Spec
CONSTANTS
  Callers = {c1}
  MaxVersions = 1
  HashOf <- MCHashOf
  MaxGrants = 1
  MaxJobs = 1
  Requests = {r1, r2}
  OwnerSets <- MCOwnerSets
SYMMETRY Symmetry
PROPERTY RemovingRunEndsGrants
CHECK_DEADLOCK FALSE
