SPECIFICATION FairSpec
CONSTANTS
  Docs = {d1, d2}
  Texts = {t1, t2}
  MaxRepairs = 2
  MaxWrites = 2
  MaxChanges = 2
  MaxSearches = 1
  MaxFaults = 1
INVARIANT NoStaleVectors
PROPERTIES AnswersAreWhole StopsWhenTold EventuallyIndexed
CHECK_DEADLOCK FALSE
