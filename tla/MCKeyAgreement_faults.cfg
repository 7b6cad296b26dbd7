SPECIFICATION FairSpec
CONSTANTS
  c1 = c1
  c2 = c2
  idA = idA
  idB = idB
  n1 = n1
  n2 = n2
  Clients = {c1}
  Ids = {idA}
  IdOf <- MCSame
  Registered = {idA}
  Nonces = {n1, n2}
  KeyIds = {7}
  TableSize = 2
  LP64 = TRUE
  DbMayFail = TRUE
  MaxConns = 2
  MaxKills = 1
  None = None
INVARIANTS KeysAgree RecordedOnce AgreedIsStored AgreedIsLocal
PROPERTY OperationsEnd
