SPECIFICATION Spec
CONSTANTS
  t1 = t1
  t2 = t2
  idA = idA
  idB = idB
  kA = kA
  kB = kB
  Threads = {t1, t2}
  Ids = {idA, idB}
  Registered = {idA}
  Keys = {kA, kB}
  KeyIds = {1}
  Stored <- MCStored
  Asked <- Statements
  DbMayFail = FALSE
  MaxCalls = 2
  None = None
INVARIANT FoundIsOwn
CHECK_DEADLOCK FALSE
