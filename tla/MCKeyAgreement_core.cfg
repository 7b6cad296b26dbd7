SPECIFICATION Spec
CONSTANTS
  c1 = c1
  c2 = c2
  idA = idA
  idB = idB
  n1 = n1
  n2 = n2
  Clients = {c1, c2}
  Ids = {idA, idB}
  IdOf <- MCIdOf
  Registered = {idA, idB}
  Nonces = {n1, n2}
  KeyIds = {1}
  TableSize = 2
  LP64 = FALSE
  DbMayFail = FALSE
  MaxConns = 3
  MaxKills = 0
  None = None
SYMMETRY Symmetric
INVARIANTS TypeOK KeysAgree NoOrphans ServerSurvives AnswersAreOwn FreshKeyChecks
CONSTRAINT ThirdAsks
