SPECIFICATION FairSpec
CONSTANTS
  Docs = {d1, d2}
  Watchers = {w1}
  HistoryLimit = 2
  MaxVersion = 5
  MaxFaults = 2
INVARIANTS NoSilentMiss
PROPERTIES Notifies EventuallyTold
