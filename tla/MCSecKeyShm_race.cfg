SPECIFICATION Spec
CONSTANTS
  srv = srv
  cli = cli
  opn = opn
  s1 = s1
  s2 = s2
  c1 = c1
  o1 = o1
  kA = kA
  kB = kB
  kC = kC
  idA = idA
  idB = idB
  Procs = {srv, cli}
  Threads = {s1, s2, c1}
  ProcOf <- MCProcOf
  ReqNodes <- MCReqNodes
  MaxNodes = 2
  Records = {kA}
  Ids = {idA}
  IdOf <- MCIdOf
  Empty = Empty
  MaxCrashes = 1
  Exclusive = FALSE
SYMMETRY Workers
INVARIANTS TypeOK WithinSegment PrefixUsed CountsOnlyAcked
