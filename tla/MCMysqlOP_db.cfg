SPECIFICATION FairSpec
CONSTANTS
  t1 = t1
  t2 = t2
  idA = idA
  idB = idB
  kA = kA
  kB = kB
  Threads = {t1, t2}
  Ids = {idA, idB}
  Registered = {idA}
  Keys = {kA}
  KeyIds = {1}
  Stored <- Empty
  Asked <- FewAsked
  DbMayFail = TRUE
  MaxCalls = 3
  None = None
INVARIANTS TypeOK HandleClean OwnAnswer WrittenIsSent
PROPERTY CallsEnd
\* a model of a bounded number of calls stops
CHECK_DEADLOCK FALSE
