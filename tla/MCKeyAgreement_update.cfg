SPECIFICATION Spec
CONSTANTS
  c1 = c1
  c2 = c2
  idA = idA
  idB = idB
  n1 = n1
  n2 = n2
  Clients = {c1}
  Ids = {idA}
  IdOf <- MCSame
  Registered = {idA}
  Nonces = {n1, n2}
  KeyIds = {7}
  TableSize = 4
  LP64 = FALSE
  DbMayFail = FALSE
  MaxConns = 3
  MaxKills = 0
  None = None
INVARIANT UpdatedKeyChecks
