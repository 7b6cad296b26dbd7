SPECIFICATION Spec
CONSTANTS
  c1 = c1
  c2 = c2
  idA = idA
  idB = idB
  n1 = n1
  n2 = n2
  Clients = {c1}
  Ids = {idA}
  IdOf <- MCSame
  Registered = {}
  Nonces = {n1, n2}
  KeyIds = {7}
  TableSize = 2
  LP64 = TRUE
  DbMayFail = FALSE
  MaxConns = 1
  MaxKills = 0
  None = None
INVARIANT RefusalIsEncoded
