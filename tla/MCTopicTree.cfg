SPECIFICATION Spec
CONSTANTS
  r = r  a = a  b = b  x = x  v = v  w = w
  Topics = {r, a, b, x}
  Workstreams = {v, w}
  Clients = {c}
  Edits <- MCEdits
  InitialContents <- MCInitialContents
  MaxTree = 3
  MaxWrites = 3
INVARIANTS VersionNamesContent FocusWithinMembers
PROPERTIES OnlyExclusiveClosed MovesWhole
CHECK_DEADLOCK FALSE
