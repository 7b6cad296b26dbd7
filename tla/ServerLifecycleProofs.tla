------------------------ MODULE ServerLifecycleProofs ------------------------
(***************************************************************************)
(* One server serves, with its m_shm and its session, and the stop         *)
(* script's signal cuts no connection, for any number of launches, users,  *)
(* connections, kills and stop scripts.                                    *)
(*                                                                         *)
(* IInv follows each launch: the launched process and its child, which of  *)
(* them runs and what the session they share is (PairOK), what a process   *)
(* has at each point of its start (ProcOK), and whom a connection is with  *)
(* (ConnOK).                                                               *)
(***************************************************************************)
EXTENDS ServerLifecycle, TLAPS

Launched == 1..MaxLaunches
Phases == {"none", "connect", "fork", "exit", "signal", "map", "bind", "listen", "accept",
           "leave", "gone"}
Daemon == {"signal", "map", "bind", "listen", "accept", "leave"}

\* The k-th launch: the process a script starts and the daemon it forks.
PairOK(k) ==
  LET p == 2 * k - 1
      c == 2 * k IN
  /\ proc[p] \in {"none", "connect", "fork", "exit", "gone"}
  /\ proc[c] \in Daemon \cup {"none", "gone"}
  /\ db[p] \in {0, p} /\ db[c] \in {0, p}
  /\ proc[p] \in {"none", "connect"} => db[p] = 0
  /\ proc[p] \in {"fork", "exit"} => db[p] = p
  /\ proc[p] = "fork" => session[p] \in {"open", "failed"}
  /\ proc[p] \in {"none", "connect", "fork"} => proc[c] = "none"
  /\ proc[c] = "none" => db[c] = 0
  /\ proc[c] \in Daemon => db[c] = p /\ session[p] \in {"open", "failed"}
  /\ k > launches => proc[p] = "none"

ProcOK(p) ==
  /\ sock[p] = "listening" <=> proc[p] = "accept"
  /\ proc[p] \in {"bind", "listen", "accept"} => made[p]
  /\ proc[p] \in {"map", "bind", "listen", "accept", "leave"} => caught[p]

OneListens == \A p, q \in Pids : sock[p] = "listening" /\ sock[q] = "listening" => p = q

ConnOK(n) ==
  IF conn[n].st \in {"queued", "served"} THEN conn[n].pid \in Pids /\ proc[conn[n].pid] = "accept"
                                         ELSE conn[n].pid = 0

IInv ==
  /\ TypeOK
  /\ \A k \in Launched : PairOK(k)
  /\ \A p \in Pids : ProcOK(p)
  /\ OneListens
  /\ \A n \in Conns : ConnOK(n)

LEMMA PidOfPair ==
  /\ \A k \in Launched : k \in Nat /\ 2 * k - 1 \in Pids /\ 2 * k \in Pids
  /\ \A p \in Pids : p \in Nat /\ p # 0 /\ \E k \in Launched : p = 2 * k - 1 \/ p = 2 * k
<1>1. MaxLaunches \in Nat
  BY LifecycleAssumption DEF LifecycleAssumption
<1>2. ASSUME NEW k \in Launched PROVE k \in Nat /\ 2 * k - 1 \in Pids /\ 2 * k \in Pids
  BY <1>1 DEF Launched, Pids
<1>3. ASSUME NEW p \in Pids PROVE p \in Nat /\ p # 0 /\ \E k \in Launched : p = 2 * k - 1 \/ p = 2 * k
  <2>1. p \in Nat /\ p >= 1 /\ p <= 2 * MaxLaunches
    BY <1>1 DEF Pids
  <2> DEFINE h == p \div 2
  <2>2. h \in Nat /\ (p = 2 * h \/ p = 2 * h + 1)
    BY <2>1
  <2> HIDE DEF h
  <2>3. CASE p = 2 * h
    <3>1. h \in Launched
      BY <1>1, <2>1, <2>2, <2>3 DEF Launched
    <3> QED
      BY <2>1, <2>3, <3>1
  <2>4. CASE p = 2 * h + 1
    <3>1. h + 1 \in Launched /\ p = 2 * (h + 1) - 1
      BY <1>1, <2>1, <2>2, <2>4 DEF Launched
    <3> QED
      BY <2>1, <3>1
  <2> QED
    BY <2>2, <2>3, <2>4
<1> QED
  BY <1>2, <1>3

LEMMA InitInv == Init => IInv
<1> SUFFICES ASSUME Init PROVE IInv
  OBVIOUS
<1>1. MaxLaunches \in Nat /\ MaxKills \in Nat /\ MaxStops \in Nat
  BY LifecycleAssumption DEF LifecycleAssumption
<1>2. TypeOK
  <2>1. conn \in [Conns -> [st : {"none", "queued", "served", "closed"}, pid : Pids \cup {0}]]
    BY DEF Init
  <2>2. /\ proc \in [Pids -> Phases] /\ db \in [Pids -> Pids \cup {0}]
        /\ session \in [Pids -> {"none", "failed", "open", "closed"}]
        /\ caught \in [Pids -> BOOLEAN] /\ made \in [Pids -> BOOLEAN]
        /\ sock \in [Pids -> {"none", "bound", "listening"}]
    BY DEF Init, Phases
  <2>3. start \in [Users -> {"idle", "launch"}] /\ toSignal \subseteq Pids
    BY DEF Init
  <2>4. launches \in 0..MaxLaunches /\ kills \in 0..MaxKills /\ stops \in 0..MaxStops
    BY <1>1 DEF Init
  <2>5. timeWait \in BOOLEAN /\ cut \in BOOLEAN
    BY DEF Init
  <2> QED
    BY <2>1, <2>2, <2>3, <2>4, <2>5 DEF TypeOK, Phases
<1>3. \A k \in Launched : PairOK(k)
  BY PidOfPair DEF Init, PairOK, Daemon
<1>4. \A p \in Pids : ProcOK(p)
  BY DEF Init, ProcOK
<1>5. OneListens /\ \A n \in Conns : ConnOK(n)
  BY DEF Init, OneListens, ConnOK
<1> QED
  BY <1>2, <1>3, <1>4, <1>5 DEF IInv

-----------------------------------------------------------------------------
\* A step of a process is a step of its launch: the others are as they were.
Same(q) ==
  /\ proc'[q] = proc[q] /\ db'[q] = db[q] /\ session'[q] = session[q]
  /\ caught'[q] = caught[q] /\ made'[q] = made[q] /\ sock'[q] = sock[q]

ProcTypes ==
  /\ proc \in [Pids -> Phases]
  /\ db \in [Pids -> Pids \cup {0}]
  /\ session \in [Pids -> {"none", "failed", "open", "closed"}]
  /\ caught \in [Pids -> BOOLEAN] /\ made \in [Pids -> BOOLEAN]
  /\ sock \in [Pids -> {"none", "bound", "listening"}]

OtherTypes ==
  /\ start \in [Users -> {"idle", "launch"}] /\ toSignal \subseteq Pids
  /\ conn \in [Conns -> [st : {"none", "queued", "served", "closed"}, pid : Pids \cup {0}]]
  /\ timeWait \in BOOLEAN /\ cut \in BOOLEAN
  /\ launches \in 0..MaxLaunches /\ kills \in 0..MaxKills /\ stops \in 0..MaxStops

LEMMA TypesSplit == (TypeOK <=> ProcTypes /\ OtherTypes) /\ (TypeOK' <=> ProcTypes' /\ OtherTypes')
  BY DEF TypeOK, ProcTypes, OtherTypes, Phases

LEMMA LaunchStep ==
  ASSUME IInv, NEW k \in Launched,
         launches' \in Nat, launches' >= launches,
         \A q \in Pids : q # 2 * k - 1 /\ q # 2 * k => Same(q),
         PairOK(k)', ProcOK(2 * k - 1)', ProcOK(2 * k)'
  PROVE  (\A j \in Launched : PairOK(j)') /\ (\A p \in Pids : ProcOK(p)')
<1>1. ASSUME NEW j \in Launched, j # k PROVE PairOK(j)'
  <2>1. j \in Nat /\ k \in Nat /\ 2 * j - 1 \in Pids /\ 2 * j \in Pids
    BY PidOfPair
  <2>2. 2 * j - 1 # 2 * k /\ 2 * j - 1 # 2 * k - 1 /\ 2 * j # 2 * k - 1 /\ 2 * j # 2 * k
    BY <2>1, <1>1
  <2>3. Same(2 * j - 1) /\ Same(2 * j)
    BY <2>1, <2>2
  <2>4. launches \in Nat
    BY LifecycleAssumption DEF LifecycleAssumption, IInv, TypeOK
  <2>5. PairOK(j)
    BY DEF IInv
  <2> QED
    BY <2>1, <2>3, <2>4, <2>5 DEF PairOK, Same
<1>2. ASSUME NEW p \in Pids PROVE ProcOK(p)'
  <2>1. CASE p = 2 * k - 1 \/ p = 2 * k
    BY <2>1
  <2>2. CASE p # 2 * k - 1 /\ p # 2 * k
    <3>1. ProcOK(p) /\ Same(p)
      BY <2>2 DEF IInv
    <3> QED
      BY <3>1 DEF ProcOK, Same
  <2> QED
    BY <2>1, <2>2
<1> QED
  BY <1>1, <1>2

\* A step of main: it neither ends a server that accepts nor adds a listener to another.
LEMMA MainStep ==
  ASSUME IInv, NEW k \in Launched, ProcTypes',
         UNCHANGED <<start, toSignal, timeWait, conn, launches, kills, stops>>, cut' \in BOOLEAN,
         \A q \in Pids : q # 2 * k - 1 /\ q # 2 * k => Same(q),
         PairOK(k)', ProcOK(2 * k - 1)', ProcOK(2 * k)',
         proc[2 * k - 1] # "accept", proc'[2 * k - 1] # "accept",
         proc[2 * k] = "accept" => proc'[2 * k] = "accept",
         proc'[2 * k] = "accept" => proc[2 * k] = "accept" \/ Listeners = {}
  PROVE  IInv'
<1>1. TypeOK'
  <2>1. OtherTypes
    BY TypesSplit DEF IInv
  <2>2. OtherTypes'
    BY <2>1 DEF OtherTypes
  <2> QED
    BY <2>2, TypesSplit
<1>2. launches' \in Nat /\ launches' >= launches
  BY LifecycleAssumption DEF LifecycleAssumption, IInv, TypeOK
<1>3. (\A j \in Launched : PairOK(j)') /\ (\A p \in Pids : ProcOK(p)')
  BY <1>2, LaunchStep
<1>4. \A p \in Pids : proc[p] = "accept" => proc'[p] = "accept"
  BY DEF Same
<1>5. OneListens'
  <2>1. \A p \in Pids : ProcOK(p) /\ ProcOK(p)'
    BY <1>3 DEF IInv
  <2>2. \A p \in Pids : sock'[p] = "listening" /\ p # 2 * k => sock[p] = "listening"
    BY <2>1 DEF ProcOK, Same
  <2>3. sock'[2 * k] = "listening" => sock[2 * k] = "listening" \/ Listeners = {}
    BY <2>1, PidOfPair DEF ProcOK
  <2> QED
    BY <2>2, <2>3 DEF OneListens, Listeners, IInv
<1>6. \A n \in Conns : ConnOK(n)'
  BY <1>4 DEF ConnOK, IInv
<1> QED
  BY <1>1, <1>3, <1>5, <1>6 DEF IInv

\* Where a process may be.
LEMMA Parent ==
  ASSUME IInv, NEW p \in Pids, proc[p] \in {"connect", "fork", "exit"}
  PROVE  \E k \in Launched : p = 2 * k - 1
<1>1. PICK k \in Launched : p = 2 * k - 1 \/ p = 2 * k
  BY PidOfPair
<1>2. PairOK(k)
  BY DEF IInv
<1> QED
  BY <1>1, <1>2 DEF PairOK, Daemon

LEMMA Child ==
  ASSUME IInv, NEW p \in Pids, proc[p] \in Daemon
  PROVE  \E k \in Launched : p = 2 * k
<1>1. PICK k \in Launched : p = 2 * k - 1 \/ p = 2 * k
  BY PidOfPair
<1>2. PairOK(k)
  BY DEF IInv
<1> QED
  BY <1>1, <1>2 DEF PairOK, Daemon

-----------------------------------------------------------------------------
\* The end of p closes no session but its own, and none that another process has.
LEMMA SessionsLeft ==
  ASSUME IInv, NEW p \in Pids
  PROVE  /\ SessionsWithout(p) \in [Pids -> {"none", "failed", "open", "closed"}]
         /\ \A s \in Pids : s # db[p] => SessionsWithout(p)[s] = session[s]
         /\ \A s, q \in Pids : q # p /\ proc[q] \in Daemon /\ db[q] = s =>
              SessionsWithout(p)[s] = session[s]
<1>1. session \in [Pids -> {"none", "failed", "open", "closed"}]
  BY DEF IInv, TypeOK
<1>2. \A q \in Pids : proc[q] \in Daemon => q \in Running
  BY DEF Running, Daemon
<1> QED
  BY <1>1, <1>2 DEF SessionsWithout

\* ConnectDb, Fork, ForkFails and ParentExits.
LEMMA ParentInv ==
  ASSUME IInv, NEW p \in Pids, ConnectDb(p) \/ Fork(p) \/ ForkFails(p) \/ ParentExits(p)
  PROVE  IInv'
<1>1. PICK k \in Launched : p = 2 * k - 1
  BY Parent DEF ConnectDb, Fork, ForkFails, ParentExits
<1>2. k \in Nat /\ p # 0 /\ p + 1 = 2 * k /\ p \in Pids /\ 2 * k \in Pids /\ p # 2 * k
  BY <1>1, PidOfPair
<1>3. PairOK(k) /\ ProcOK(p) /\ ProcOK(2 * k) /\ ProcTypes
  BY <1>2, TypesSplit DEF IInv
<1>4. UNCHANGED <<start, toSignal, timeWait, conn, launches, kills, stops, caught, made, sock>>
  BY DEF ConnectDb, Fork, ForkFails, ParentExits, WorldUnchanged
<1>5. cut' \in BOOLEAN
  BY DEF ConnectDb, Fork, ForkFails, ParentExits, IInv, TypeOK
<1>7. CASE ConnectDb(p)
  <2>1. /\ proc[p] = "connect" /\ proc' = [proc EXCEPT ![p] = "fork"]
        /\ db' = [db EXCEPT ![p] = p]
        /\ \E v \in {"open", "failed"} : session' = [session EXCEPT ![p] = v]
    BY <1>7 DEF ConnectDb, Goto
  <2>2. proc'[p] = "fork" /\ proc'[2 * k] = proc[2 * k] /\ db'[p] = p /\ db'[2 * k] = db[2 * k]
        /\ session'[p] \in {"open", "failed"}
    BY <2>1, <1>2, <1>3 DEF ProcTypes
  <2>3. ProcTypes'
    BY <2>1, <1>2, <1>3, <1>4 DEF ProcTypes, Phases
  <2>4. \A q \in Pids : q # p /\ q # 2 * k => Same(q)
    BY <2>1, <1>3, <1>4 DEF Same, ProcTypes
  <2>5. PairOK(k)' /\ ProcOK(p)' /\ ProcOK(2 * k)' /\ proc[2 * k] = "none"
    BY <2>1, <2>2, <1>1, <1>2, <1>3, <1>4 DEF PairOK, ProcOK, Daemon
  <2> QED
    BY <2>1, <2>2, <2>3, <2>4, <2>5, <1>1, <1>4, <1>5, MainStep
<1>8. CASE Fork(p)
  <2>1. /\ proc[p] = "fork" /\ proc' = [proc EXCEPT ![p] = "exit", ![2 * k] = "signal"]
        /\ db' = [db EXCEPT ![2 * k] = db[p]] /\ session' = session
    BY <1>2, <1>8 DEF Fork
  <2>2. proc'[p] = "exit" /\ proc'[2 * k] = "signal" /\ db'[p] = db[p] /\ db'[2 * k] = db[p]
    BY <2>1, <1>2, <1>3 DEF ProcTypes
  <2>3. ProcTypes'
    BY <2>1, <1>2, <1>3, <1>4 DEF ProcTypes, Phases
  <2>4. \A q \in Pids : q # p /\ q # 2 * k => Same(q)
    BY <2>1, <1>3, <1>4 DEF Same, ProcTypes
  <2>5. PairOK(k)' /\ ProcOK(p)' /\ ProcOK(2 * k)' /\ proc[2 * k] = "none"
    BY <2>1, <2>2, <1>1, <1>2, <1>3, <1>4 DEF PairOK, ProcOK, Daemon
  <2> QED
    BY <2>1, <2>2, <2>3, <2>4, <2>5, <1>1, <1>4, <1>5, MainStep
<1>9. CASE ForkFails(p)
  <2>1. proc[p] = "fork" /\ proc' = [proc EXCEPT ![p] = "exit"] /\ UNCHANGED <<db, session>>
    BY <1>9 DEF ForkFails, Goto
  <2>2. proc'[p] = "exit" /\ proc'[2 * k] = proc[2 * k]
    BY <2>1, <1>2, <1>3 DEF ProcTypes
  <2>3. ProcTypes'
    BY <2>1, <1>2, <1>3, <1>4 DEF ProcTypes, Phases
  <2>4. \A q \in Pids : q # p /\ q # 2 * k => Same(q)
    BY <2>1, <1>3, <1>4 DEF Same, ProcTypes
  <2>5. PairOK(k)' /\ ProcOK(p)' /\ ProcOK(2 * k)' /\ proc[2 * k] = "none"
    BY <2>1, <2>2, <1>1, <1>2, <1>3, <1>4 DEF PairOK, ProcOK, Daemon
  <2> QED
    BY <2>1, <2>2, <2>3, <2>4, <2>5, <1>1, <1>4, <1>5, MainStep
<1>10. CASE ParentExits(p)
  <2>1. /\ proc[p] = "exit" /\ proc' = [proc EXCEPT ![p] = "gone"] /\ UNCHANGED db
        /\ session' = SessionsWithout(p) /\ db[p] = p
    BY <1>1, <1>3, <1>10 DEF ParentExits, Goto, PairOK
  <2>2. proc'[p] = "gone" /\ proc'[2 * k] = proc[2 * k]
    BY <2>1, <1>2, <1>3 DEF ProcTypes
  <2>3. /\ \A q \in Pids : q # p => session'[q] = session[q]
        /\ proc[2 * k] \in Daemon => session'[p] = session[p]
        /\ session' \in [Pids -> {"none", "failed", "open", "closed"}]
    BY <2>1, <1>1, <1>2, <1>3, SessionsLeft DEF PairOK
  <2>4. ProcTypes'
    BY <2>1, <2>3, <1>2, <1>3, <1>4 DEF ProcTypes, Phases
  <2>5. \A q \in Pids : q # p /\ q # 2 * k => Same(q)
    BY <2>1, <2>3, <1>3, <1>4 DEF Same, ProcTypes
  <2>6. PairOK(k)' /\ ProcOK(p)' /\ ProcOK(2 * k)'
    BY <2>1, <2>2, <2>3, <1>1, <1>2, <1>3, <1>4 DEF PairOK, ProcOK, Daemon
  <2> QED
    BY <2>1, <2>2, <2>4, <2>5, <2>6, <1>1, <1>4, <1>5, MainStep
<1> QED
  BY <1>7, <1>8, <1>9, <1>10

\* InstallHandler, MakeShm, Bind, Listen and Leave.
LEMMA DaemonInv ==
  ASSUME IInv, NEW c \in Pids,
         InstallHandler(c) \/ MakeShm(c) \/ Bind(c) \/ Listen(c) \/ Leave(c)
  PROVE  IInv'
<1>1. PICK k \in Launched : c = 2 * k
  BY Child DEF InstallHandler, MakeShm, Bind, Listen, Leave, Daemon
<1> DEFINE p == 2 * k - 1
<1>2. k \in Nat /\ p # 0 /\ p \in Pids /\ p # c
  BY <1>1, PidOfPair
<1>3. PairOK(k) /\ ProcOK(p) /\ ProcOK(c) /\ ProcTypes
  BY <1>1, <1>2, TypesSplit DEF IInv
<1>4. UNCHANGED <<start, toSignal, timeWait, conn, launches, kills, stops, db>>
  BY DEF InstallHandler, MakeShm, Bind, Listen, Leave, WorldUnchanged
<1>5. cut' \in BOOLEAN
  BY DEF InstallHandler, MakeShm, Bind, Listen, Leave, IInv, TypeOK
<1>6. proc[c] \in Daemon \ {"accept"}
  BY DEF InstallHandler, MakeShm, Bind, Listen, Leave, Daemon
<1>7. db[c] = p /\ session[p] \in {"open", "failed"} /\ proc[p] # "accept"
  BY <1>1, <1>3, <1>6 DEF PairOK
<1> SUFFICES /\ proc' = [proc EXCEPT ![c] = proc'[c]] /\ ProcTypes'
             /\ \A q \in Pids : q # p /\ q # c => Same(q)
             /\ PairOK(k)' /\ ProcOK(p)' /\ ProcOK(c)'
             /\ proc'[c] = "accept" => Listeners = {}
  BY <1>1, <1>2, <1>3, <1>4, <1>5, <1>6, <1>7, MainStep DEF ProcTypes
<1>8. CASE InstallHandler(c)
  <2>1. /\ proc[c] = "signal" /\ proc' = [proc EXCEPT ![c] = "map"]
        /\ caught' = [caught EXCEPT ![c] = TRUE] /\ UNCHANGED <<session, made, sock>>
    BY <1>8 DEF InstallHandler, Goto
  <2>2. proc'[c] = "map" /\ proc'[p] = proc[p] /\ caught'[c] /\ caught'[p] = caught[p]
    BY <2>1, <1>2, <1>3 DEF ProcTypes
  <2> QED
    BY <2>1, <2>2, <1>1, <1>2, <1>3, <1>4, <1>7 DEF ProcTypes, Phases, Same, PairOK, ProcOK, Daemon
<1>9. CASE MakeShm(c)
  <2>1. /\ proc[c] = "map" /\ proc' = [proc EXCEPT ![c] = "bind"]
        /\ made' = [made EXCEPT ![c] = TRUE] /\ UNCHANGED <<session, caught, sock>>
    BY <1>9 DEF MakeShm, Goto
  <2>2. proc'[c] = "bind" /\ proc'[p] = proc[p] /\ made'[c] /\ made'[p] = made[p]
    BY <2>1, <1>2, <1>3 DEF ProcTypes
  <2> QED
    BY <2>1, <2>2, <1>1, <1>2, <1>3, <1>4, <1>7 DEF ProcTypes, Phases, Same, PairOK, ProcOK, Daemon
<1>10. CASE Bind(c)
  <2>1. /\ proc[c] = "bind" /\ UNCHANGED <<session, caught, made>>
        /\ \/ proc' = [proc EXCEPT ![c] = "listen"] /\ sock' = [sock EXCEPT ![c] = "bound"]
           \/ proc' = [proc EXCEPT ![c] = "leave"] /\ sock' = sock
    BY <1>10 DEF Bind, Goto
  <2>2. /\ proc'[c] \in {"listen", "leave"} /\ proc'[p] = proc[p]
        /\ sock'[c] # "listening" /\ sock'[p] = sock[p]
    BY <2>1, <1>2, <1>3 DEF ProcTypes, ProcOK
  <2> QED
    BY <2>1, <2>2, <1>1, <1>2, <1>3, <1>4, <1>7 DEF ProcTypes, Phases, Same, PairOK, ProcOK, Daemon
<1>11. CASE Listen(c)
  <2>1. /\ proc[c] = "listen" /\ UNCHANGED <<session, caught, made>>
        /\ \/ /\ Listeners = {}
              /\ proc' = [proc EXCEPT ![c] = "accept"] /\ sock' = [sock EXCEPT ![c] = "listening"]
           \/ proc' = [proc EXCEPT ![c] = "leave"] /\ sock' = sock
    BY <1>11 DEF Listen, Goto
  <2>2. /\ proc'[c] \in {"accept", "leave"} /\ proc'[p] = proc[p]
        /\ sock'[c] = "listening" <=> proc'[c] = "accept"
        /\ proc'[c] = "accept" => Listeners = {}
        /\ sock'[p] = sock[p]
    BY <2>1, <1>2, <1>3 DEF ProcTypes, ProcOK
  <2> QED
    BY <2>1, <2>2, <1>1, <1>2, <1>3, <1>4, <1>7 DEF ProcTypes, Phases, Same, PairOK, ProcOK, Daemon
<1>12. CASE Leave(c)
  <2>1. /\ proc[c] = "leave" /\ proc' = [proc EXCEPT ![c] = "gone"] /\ UNCHANGED caught
        /\ made' = [made EXCEPT ![c] = FALSE] /\ sock' = [sock EXCEPT ![c] = "none"]
        /\ session' = [session EXCEPT ![p] = "closed"]
    BY <1>7, <1>12 DEF Leave, Goto
  <2>2. proc'[c] = "gone" /\ proc'[p] = proc[p] /\ sock'[c] = "none" /\ made'[p] = made[p]
        /\ sock'[p] = sock[p]
    BY <2>1, <1>2, <1>3 DEF ProcTypes
  <2>3. proc[p] \notin {"none", "connect", "fork"}
    BY <2>1, <1>1, <1>3 DEF PairOK
  <2> QED
    BY <2>1, <2>2, <2>3, <1>1, <1>2, <1>3, <1>4, <1>7 DEF ProcTypes, Phases, Same, PairOK, ProcOK, Daemon
<1> QED
  BY <1>8, <1>9, <1>10, <1>11, <1>12

\* Launch.
LEMMA LaunchInv ==
  ASSUME IInv, NEW u \in Users, Launch(u) PROVE IInv'
<1>1. MaxLaunches \in Nat /\ launches \in Nat /\ launches < MaxLaunches /\ launches' = launches + 1
  BY LifecycleAssumption DEF LifecycleAssumption, Launch, IInv, TypeOK
<1>2. PICK k \in Launched : k = launches + 1
  BY <1>1 DEF Launched
<1> DEFINE p == 2 * k - 1
<1>3. k \in Nat /\ p \in Pids /\ 2 * k \in Pids /\ p # 2 * k
  BY <1>2, PidOfPair
<1>4. PairOK(k) /\ ProcOK(p) /\ ProcOK(2 * k) /\ ProcTypes /\ OtherTypes
  BY <1>2, <1>3, TypesSplit DEF IInv
<1>5. /\ proc' = [proc EXCEPT ![p] = "connect"] /\ start' = [start EXCEPT ![u] = "idle"] /\ cut' = FALSE
      /\ UNCHANGED <<toSignal, db, session, caught, made, sock, conn, timeWait, kills, stops>>
  <2>1. 2 * launches + 1 = p
    BY <1>1, <1>2
  <2> QED
    BY <2>1 DEF Launch
<1>6. proc[p] = "none" /\ proc'[p] = "connect" /\ proc'[2 * k] = proc[2 * k]
  BY <1>1, <1>2, <1>3, <1>4, <1>5 DEF PairOK, ProcTypes
<1>7. TypeOK'
  <2>1. ProcTypes'
    BY <1>3, <1>4, <1>5 DEF ProcTypes, Phases
  <2>2. launches' \in 0..MaxLaunches
    BY <1>1
  <2>3. start' \in [Users -> {"idle", "launch"}] /\ cut' \in BOOLEAN
    BY <1>4, <1>5 DEF OtherTypes
  <2>4. OtherTypes'
    BY <2>2, <2>3, <1>4, <1>5 DEF OtherTypes
  <2> QED
    BY <2>1, <2>4, TypesSplit
<1>8. \A q \in Pids : q # p /\ q # 2 * k => Same(q)
  BY <1>4, <1>5 DEF Same, ProcTypes
<1>9. PairOK(k)' /\ ProcOK(p)' /\ ProcOK(2 * k)'
  BY <1>1, <1>2, <1>3, <1>4, <1>5, <1>6 DEF PairOK, ProcOK, Daemon
<1>10. (\A j \in Launched : PairOK(j)') /\ (\A q \in Pids : ProcOK(q)')
  BY <1>1, <1>2, <1>8, <1>9, LaunchStep
<1>11. OneListens' /\ \A n \in Conns : ConnOK(n)'
  <2>1. \A q \in Pids : proc[q] = "accept" => proc'[q] = "accept"
    BY <1>4, <1>5, <1>6 DEF ProcTypes
  <2> QED
    BY <2>1, <1>5 DEF IInv, OneListens, ConnOK
<1> QED
  BY <1>7, <1>10, <1>11 DEF IInv

-----------------------------------------------------------------------------
\* The end of a process from outside, by Kill or by Signal.
LEMMA EndInv ==
  ASSUME IInv, NEW e \in Running, End(e),
         start' = start, toSignal' \subseteq Pids, launches' = launches,
         kills' \in 0..MaxKills, stops' \in 0..MaxStops
  PROVE  IInv'
<1>1. e \in Pids /\ proc[e] \notin {"none", "gone"}
  BY DEF Running
<1>2. PICK k \in Launched : e = 2 * k - 1 \/ e = 2 * k
  BY <1>1, PidOfPair
<1> DEFINE p == 2 * k - 1
<1>3. k \in Nat /\ p # 0 /\ p \in Pids /\ 2 * k \in Pids /\ p # 2 * k
  BY PidOfPair
<1>4. PairOK(k) /\ ProcOK(p) /\ ProcOK(2 * k) /\ ProcTypes /\ OtherTypes
  BY <1>3, TypesSplit DEF IInv
<1>5. /\ proc' = [proc EXCEPT ![e] = "gone"] /\ caught' = [caught EXCEPT ![e] = FALSE]
      /\ made' = [made EXCEPT ![e] = FALSE] /\ sock' = [sock EXCEPT ![e] = "none"]
      /\ session' = SessionsWithout(e) /\ UNCHANGED db /\ cut' = TRUE
      /\ conn' = [n \in Conns |-> IF conn[n].pid = e THEN [st |-> "closed", pid |-> 0] ELSE conn[n]]
  BY DEF End, Goto
<1>6. timeWait' \in BOOLEAN
  BY <1>4 DEF End, OtherTypes
<1>7. /\ session' \in [Pids -> {"none", "failed", "open", "closed"}]
      /\ \A s \in Pids : s # p => session'[s] = session[s]
      /\ e = p /\ proc[2 * k] \in Daemon => session'[p] = session[p]
  <2>1. db[e] \in {0, p} /\ (proc[2 * k] \in Daemon => db[2 * k] = p)
    BY <1>2, <1>4 DEF PairOK
  <2>2. /\ SessionsWithout(e) \in [Pids -> {"none", "failed", "open", "closed"}]
        /\ \A s \in Pids : s # db[e] => SessionsWithout(e)[s] = session[s]
        /\ \A s, q \in Pids : q # e /\ proc[q] \in Daemon /\ db[q] = s =>
             SessionsWithout(e)[s] = session[s]
    BY <1>1, SessionsLeft
  <2>3. \A s \in Pids : s # 0
    BY PidOfPair
  <2> QED
    BY <1>3, <1>5, <2>1, <2>2, <2>3
<1>8. /\ \A q \in Pids : q # e => proc'[q] = proc[q] /\ caught'[q] = caught[q]
                                   /\ made'[q] = made[q] /\ sock'[q] = sock[q]
      /\ proc'[e] = "gone" /\ sock'[e] = "none"
  BY <1>1, <1>4, <1>5 DEF ProcTypes
<1>9. TypeOK'
  <2>1. ProcTypes'
    BY <1>1, <1>4, <1>5, <1>7 DEF ProcTypes, Phases
  <2>2. conn' \in [Conns -> [st : {"none", "queued", "served", "closed"}, pid : Pids \cup {0}]]
    BY <1>4, <1>5 DEF OtherTypes
  <2>3. OtherTypes'
    BY <1>4, <1>5, <1>6, <2>2 DEF OtherTypes
  <2> QED
    BY <2>1, <2>3, TypesSplit
<1>10. (\A j \in Launched : PairOK(j)') /\ (\A q \in Pids : ProcOK(q)')
  <2>1. \A q \in Pids : q # p /\ q # 2 * k => Same(q)
    BY <1>2, <1>5, <1>7, <1>8 DEF Same
  <2>2. PairOK(k)'
    <3>1. CASE e = p
      BY <3>1, <1>1, <1>3, <1>4, <1>5, <1>7, <1>8 DEF PairOK, Daemon
    <3>2. CASE e = 2 * k
      BY <3>2, <1>1, <1>3, <1>4, <1>5, <1>8 DEF PairOK, Daemon
    <3> QED
      BY <1>2, <3>1, <3>2
  <2>3. ProcOK(p)' /\ ProcOK(2 * k)'
    BY <1>3, <1>4, <1>8 DEF ProcOK
  <2>4. launches' \in Nat /\ launches' >= launches
    BY LifecycleAssumption DEF LifecycleAssumption, IInv, TypeOK
  <2> QED
    BY <2>1, <2>2, <2>3, <2>4, LaunchStep
<1>11. OneListens'
  <2>1. \A q \in Pids : sock'[q] = "listening" => sock[q] = "listening"
    BY <1>8
  <2> QED
    BY <2>1 DEF OneListens, IInv
<1>12. ASSUME NEW n \in Conns PROVE ConnOK(n)'
  <2>1. ConnOK(n)
    BY DEF IInv
  <2>2. CASE conn[n].pid = e
    BY <2>2, <1>5 DEF ConnOK
  <2>3. CASE conn[n].pid # e
    BY <2>1, <2>3, <1>5, <1>8 DEF ConnOK
  <2> QED
    BY <2>2, <2>3
<1> QED
  BY <1>9, <1>10, <1>11, <1>12 DEF IInv

\* The steps of scripts, clients and the network leave the processes alone.
LEMMA WorldInv ==
  ASSUME IInv, UNCHANGED <<procVars, launches>>, OtherTypes', \A n \in Conns : ConnOK(n)'
  PROVE  IInv'
<1>1. ProcTypes /\ OtherTypes
  BY TypesSplit DEF IInv
<1>2. TypeOK'
  <2>1. ProcTypes'
    BY <1>1 DEF ProcTypes, procVars
  <2> QED
    BY <2>1, TypesSplit
<1>3. (\A k \in Launched : PairOK(k)') /\ (\A p \in Pids : ProcOK(p)') /\ OneListens'
  BY DEF IInv, PairOK, ProcOK, OneListens, procVars
<1> QED
  BY <1>2, <1>3 DEF IInv

\* Connect, Accept and Served.
LEMMA ConnInv ==
  ASSUME IInv,
         \/ \E n \in Conns : Connect(n) \/ Served(n)
         \/ \E p \in Pids : Accept(p)
  PROVE  IInv'
<1>1. OtherTypes /\ \A n \in Conns : ConnOK(n)
  BY TypesSplit DEF IInv
<1>2. UNCHANGED <<start, toSignal, procVars, launches, kills, stops, cut>> /\ timeWait' \in BOOLEAN
  BY <1>1 DEF Connect, Served, Accept, WorldUnchanged, OtherTypes
<1>3. UNCHANGED proc
  BY <1>2 DEF procVars
<1>4. PICK n \in Conns :
        \/ \E p \in Listeners : conn' = [conn EXCEPT ![n] = [st |-> "queued", pid |-> p]]
        \/ conn' = [conn EXCEPT ![n] = [st |-> "closed", pid |-> 0]]
        \/ conn[n].st = "queued" /\ conn' = [conn EXCEPT ![n].st = "served"]
  BY DEF Connect, Served, Accept
<1>5. \A p \in Listeners : p \in Pids /\ proc[p] = "accept"
  BY DEF Listeners, IInv, ProcOK
<1>6. conn' \in [Conns -> [st : {"none", "queued", "served", "closed"}, pid : Pids \cup {0}]]
  BY <1>1, <1>4, <1>5 DEF OtherTypes
<1>7. ASSUME NEW j \in Conns PROVE ConnOK(j)'
  BY <1>1, <1>3, <1>4, <1>5 DEF OtherTypes, ConnOK
<1>8. OtherTypes'
  BY <1>1, <1>2, <1>6 DEF OtherTypes
<1> QED
  BY <1>2, <1>7, <1>8, WorldInv

\* A step keeps IInv.
LEMMA StepInv == IInv /\ [Next]_vars => IInv'
<1> SUFFICES ASSUME IInv, [Next]_vars PROVE IInv'
  OBVIOUS
<1>1. OtherTypes /\ MaxKills \in Nat /\ MaxStops \in Nat
  BY LifecycleAssumption, TypesSplit DEF LifecycleAssumption, IInv
<1>2. ASSUME NEW u \in Users, FindsNone(u) PROVE IInv'
  <2>1. OtherTypes'
    BY <1>1, <1>2 DEF FindsNone, OtherTypes
  <2>2. \A n \in Conns : ConnOK(n)'
    BY <1>2 DEF FindsNone, IInv, ConnOK, procVars
  <2> QED
    BY <1>2, <2>1, <2>2, WorldInv DEF FindsNone
<1>3. ASSUME NEW u \in Users, Launch(u) PROVE IInv'
  BY <1>3, LaunchInv
<1>4. ASSUME NEW p \in Pids, Run(p) PROVE IInv'
  BY <1>4, ParentInv, DaemonInv, ConnInv DEF Run
<1>5. ASSUME NEW p \in Pids, Kill(p) PROVE IInv'
  <2>1. kills' \in 0..MaxKills
    BY <1>1, <1>5 DEF Kill, OtherTypes
  <2> QED
    BY <1>1, <1>5, <2>1, EndInv DEF Kill, OtherTypes
<1>6. ASSUME NEW p \in Pids, Signal(p) PROVE IInv'
  <2>1. /\ toSignal' \subseteq Pids /\ UNCHANGED <<start, launches, kills, stops>>
    BY <1>1, <1>6 DEF Signal, OtherTypes
  <2>2. CASE p \in Running /\ ~caught[p]
    BY <1>1, <1>6, <2>1, <2>2, EndInv DEF Signal, OtherTypes
  <2>3. CASE ~(p \in Running /\ ~caught[p])
    <3>1. UNCHANGED <<procVars, conn, timeWait, cut>>
      BY <1>6, <2>3 DEF Signal
    <3>2. OtherTypes'
      BY <1>1, <2>1, <3>1 DEF OtherTypes
    <3>3. \A n \in Conns : ConnOK(n)'
      BY <3>1 DEF IInv, ConnOK, procVars
    <3> QED
      BY <2>1, <3>1, <3>2, <3>3, WorldInv
  <2> QED
    BY <2>2, <2>3
<1>7. ASSUME NEW n \in Conns, Connect(n) \/ Served(n) PROVE IInv'
  BY <1>7, ConnInv
<1>8. ASSUME FindPids \/ TimeWaitOver \/ UNCHANGED vars PROVE IInv'
  <2>1. UNCHANGED <<procVars, launches, conn>>
    BY <1>8 DEF FindPids, TimeWaitOver, vars, procVars
  <2>2. OtherTypes'
    <3>1. Running \subseteq Pids
      BY DEF Running
    <3>2. CASE FindPids
      <4>1. stops' \in 0..MaxStops
        BY <1>1, <3>2 DEF FindPids, OtherTypes
      <4> QED
        BY <1>1, <3>1, <3>2, <4>1 DEF FindPids, OtherTypes
    <3>3. CASE TimeWaitOver
      BY <1>1, <3>3 DEF TimeWaitOver, OtherTypes
    <3>4. CASE UNCHANGED vars
      BY <1>1, <3>4 DEF vars, OtherTypes
    <3> QED
      BY <1>8, <3>2, <3>3, <3>4
  <2>3. \A n \in Conns : ConnOK(n)'
    BY <2>1 DEF IInv, ConnOK, procVars
  <2> QED
    BY <2>1, <2>2, <2>3, WorldInv
<1> QED
  BY <1>2, <1>3, <1>4, <1>5, <1>6, <1>7, <1>8 DEF Next

-----------------------------------------------------------------------------
\* The inductive invariant of a launch, a process and a connection.
THEOREM LifecycleInvariant == Spec => []IInv
  BY InitInv, StepInv, PTL DEF Spec

\* Types of the scripts, the processes, the connections and the histories.
THEOREM TypeCorrect == Spec => []TypeOK
<1>1. IInv => TypeOK
  BY DEF IInv
<1> QED
  BY <1>1, LifecycleInvariant, PTL

\* However many servers are launched at once and whoever is killed, a process
\* in its accept loop is the only one that listens and has made its m_shm
\* (startSvr.sh:8-15, ServerOperation.cpp:190-198).
THEOREM OneServes == Spec => []ServesAlone
<1>1. IInv => ServesAlone
  BY DEF IInv, ServesAlone, ProcOK, OneListens, Listeners
<1> QED
  BY <1>1, LifecycleInvariant, PTL

\* No end of another process closes the session of one that goes on
\* (server/main.cpp:16-20, ServerOperation.cpp:294-302).
THEOREM SessionStays == Spec => []SessionKept
<1>1. ASSUME IInv, NEW p \in Running, db[p] # 0, proc[p] # "exit"
      PROVE  session[db[p]] # "closed"
  <2>1. p \in Pids /\ proc[p] \notin {"none", "gone"}
    BY DEF Running
  <2>2. PICK k \in Launched : p = 2 * k - 1 \/ p = 2 * k
    BY <2>1, PidOfPair
  <2>3. PairOK(k)
    BY <1>1 DEF IInv
  <2> QED
    BY <1>1, <2>1, <2>2, <2>3 DEF PairOK, Daemon
<1>2. IInv => SessionKept
  BY <1>1 DEF SessionKept
<1> QED
  BY <1>2, LifecycleInvariant, PTL

\* The signal of the stop script cuts no connection: a process that has one has
\* its handler (ServerOperation.cpp:188, :326-331).
THEOREM SignalCutsNone == Spec => StopCutsNone
<1>1. ASSUME IInv, [Next]_vars, NEW p \in Pids, p \in toSignal, p \notin toSignal'
      PROVE  UNCHANGED conn
  <2>1. Signal(p)
    <3>1. CASE \E q \in Pids : Signal(q)
      BY <1>1, <3>1 DEF Signal
    <3>2. CASE ~\E q \in Pids : Signal(q)
      <4>1. toSignal' = toSignal \/ FindPids
        BY <1>1, <3>2 DEF Next, vars, Run, FindsNone, Launch, ConnectDb, Fork, ForkFails,
             ParentExits, InstallHandler, MakeShm, Bind, Listen, Leave, Accept, Connect, Served,
             TimeWaitOver, Kill, WorldUnchanged
      <4> QED
        BY <1>1, <4>1 DEF FindPids
    <3> QED
      BY <3>1, <3>2
  <2>2. CASE p \in Running /\ ~caught[p]
    <3>1. proc[p] # "accept"
      BY <1>1, <2>2 DEF IInv, ProcOK
    <3>2. ASSUME NEW n \in Conns PROVE conn[n].pid # p
      <4>1. ConnOK(n)
        BY <1>1 DEF IInv
      <4> QED
        BY <4>1, <3>1, PidOfPair DEF ConnOK
    <3>3. conn \in [Conns -> [st : {"none", "queued", "served", "closed"}, pid : Pids \cup {0}]]
      BY <1>1 DEF IInv, TypeOK
    <3>4. conn' = [n \in Conns |-> IF conn[n].pid = p THEN [st |-> "closed", pid |-> 0] ELSE conn[n]]
      BY <2>1, <2>2 DEF Signal, End
    <3> QED
      BY <3>2, <3>3, <3>4
  <2>3. CASE ~(p \in Running /\ ~caught[p])
    BY <2>1, <2>3 DEF Signal
  <2> QED
    BY <2>2, <2>3
<1>2. IInv /\ [Next]_vars =>
        [\A p \in Pids : p \in toSignal /\ p \notin toSignal' => UNCHANGED conn]_vars
  BY <1>1
<1> QED
  BY <1>2, LifecycleInvariant, PTL DEF Spec, StopCutsNone
=============================================================================
