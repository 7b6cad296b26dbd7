SPECIFICATION Spec
CONSTANTS
  srv = srv
  cli = cli
  opn = opn
  s1 = s1
  s2 = s2
  c1 = c1
  o1 = o1
  kA = kA
  kB = kB
  kC = kC
  idA = idA
  idB = idB
  Procs = {srv, cli, opn}
  Threads = {s1, c1, o1}
  ProcOf <- MCProcOf
  ReqNodes <- MCReqNodes
  MaxNodes = 3
  Records = {kA, kB, kC}
  Ids = {idA, idB}
  IdOf <- MCIdOf
  Empty = Empty
  MaxCrashes = 1
  Exclusive = TRUE
INVARIANTS CountLagsByCrashes AckedKept ReadsOldest
PROPERTIES HeaderKept TableSpec
