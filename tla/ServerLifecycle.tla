--------------------------- MODULE ServerLifecycle ---------------------------
(***************************************************************************)
(* How the server process comes to serve and how it ends: the start and    *)
(* stop scripts of script/, main of server/main.cpp with createDaemon and  *)
(* startWork, setListen and acceptConn of TcpServer.cpp.  What a thread    *)
(* does with its connection is KeyAgreement's.                             *)
(*                                                                         *)
(* Of the kernel, which is outside this repository: two sockets with       *)
(* SO_REUSEADDR may be bound to the port while neither listens, and one    *)
(* may listen; a connection the server closed may hold the port in         *)
(* TIME_WAIT; SIGUSR1 ends a process without a handler; the end of a       *)
(* process closes what it alone has open.                                  *)
(***************************************************************************)
EXTENDS Naturals, FiniteSets

CONSTANTS
  Users,        \* who run startSvr.sh
  MaxLaunches,  \* bound of the model: servers launched
  MaxConns,     \* bound of the model: connections clients make
  MaxKills,     \* bound of the model: processes killed, or ended by their own fault
  MaxStops      \* bound of the model: runs of stopSvr.sh that find a process

ASSUME LifecycleAssumption ==
  MaxLaunches \in Nat /\ MaxConns \in Nat /\ MaxKills \in Nat /\ MaxStops \in Nat

Pids == 1..(2 * MaxLaunches)   \* a launched process and the child it forks
Conns == 1..MaxConns

VARIABLES
  start,    \* per user, of startSvr.sh: "idle", or "launch" having found no server
  toSignal, \* of stopSvr.sh: the processes it found and has not signalled yet
  proc,     \* per process, where main is; "none" before, "gone" after
  db,       \* per process, whose session with the database m_conn is; 0: none
  session,  \* per process, the session it opened: "none", "failed", "open", "closed"
  caught,   \* per process: SIGUSR1 has its handler
  made,     \* per process: the object m_shm exists, with a segment or without one
  sock,     \* per process, m_lfd: "none", "bound", "listening"
  conn,     \* the connections: where each is, and the process it is with
  timeWait, \* the port is held by connections the server closed
  launches, kills, stops,  \* history, for the bounds
  cut       \* history: since the last launch a process was ended from outside,
            \* or could not fork

procVars == <<proc, db, session, caught, made, sock>>
vars == <<start, toSignal, proc, db, session, caught, made, sock, conn, timeWait,
          launches, kills, stops, cut>>

Running == {p \in Pids : proc[p] \notin {"none", "gone"}}   \* what ps shows
Listeners == {p \in Pids : sock[p] = "listening"}

Init ==
  /\ start = [u \in Users |-> "idle"] /\ toSignal = {}
  /\ proc = [p \in Pids |-> "none"]
  /\ db = [p \in Pids |-> 0]
  /\ session = [p \in Pids |-> "none"]
  /\ caught = [p \in Pids |-> FALSE]
  /\ made = [p \in Pids |-> FALSE]
  /\ sock = [p \in Pids |-> "none"]
  /\ conn = [n \in Conns |-> [st |-> "none", pid |-> 0]]
  /\ timeWait = FALSE
  /\ launches = 0 /\ kills = 0 /\ stops = 0 /\ cut = FALSE

-----------------------------------------------------------------------------
(* startSvr.sh                                                             *)

FindsNone(u) ==
  /\ start[u] = "idle" /\ Running = {}
  /\ start' = [start EXCEPT ![u] = "launch"]
  /\ UNCHANGED <<toSignal, procVars, conn, timeWait, launches, kills, stops, cut>>

Launch(u) ==
  LET p == 2 * launches + 1 IN
  /\ start[u] = "launch" /\ launches < MaxLaunches
  /\ start' = [start EXCEPT ![u] = "idle"]
  /\ launches' = launches + 1
  /\ proc' = [proc EXCEPT ![p] = "connect"]
  /\ cut' = FALSE
  /\ UNCHANGED <<toSignal, db, session, caught, made, sock, conn, timeWait, kills, stops>>

-----------------------------------------------------------------------------
(* main                                                                    *)

Goto(p, to) == proc' = [proc EXCEPT ![p] = to]
WorldUnchanged == UNCHANGED <<start, toSignal, timeWait, launches, kills, stops>>

\* The constructor of ServerOperation; a failure is only printed.
ConnectDb(p) ==
  /\ proc[p] = "connect" /\ Goto(p, "fork")
  /\ db' = [db EXCEPT ![p] = p]
  /\ \E s \in {"open", "failed"} : session' = [session EXCEPT ![p] = s]
  /\ UNCHANGED <<caught, made, sock, conn, cut>> /\ WorldUnchanged

\* createDaemon: the child goes on with all that the parent has.
Fork(p) ==
  /\ proc[p] = "fork"
  /\ proc' = [proc EXCEPT ![p] = "exit", ![p + 1] = "signal"]
  /\ db' = [db EXCEPT ![p + 1] = db[p]]
  /\ UNCHANGED <<session, caught, made, sock, conn, cut>> /\ WorldUnchanged

\* The sessions after p has ended without a destructor: the kernel closes one
\* when nobody else has it.
SessionsWithout(p) ==
  [s \in Pids |-> IF s = db[p] /\ session[s] = "open" /\ \A q \in Running \ {p} : db[q] # s
                  THEN "closed" ELSE session[s]]

\* Mutant: the parent returns from main, whose destructor closes the session.
ParentReturns(p) ==
  /\ proc[p] = "exit" /\ Goto(p, "gone")
  /\ session' = [session EXCEPT ![db[p]] = "closed"]
  /\ UNCHANGED <<db, caught, made, sock, conn, cut>> /\ WorldUnchanged

\* exit(0): the object server, a local of main, is not destroyed.
ParentExits(p) ==
  /\ proc[p] = "exit" /\ Goto(p, "gone")
  /\ session' = SessionsWithout(p)
  /\ UNCHANGED <<db, caught, made, sock, conn, cut>> /\ WorldUnchanged

\* fork error: exit(1)
ForkFails(p) ==
  /\ proc[p] = "fork" /\ Goto(p, "exit")
  /\ cut' = TRUE
  /\ UNCHANGED <<db, session, caught, made, sock, conn>> /\ WorldUnchanged

\* Mutant: without the call of signal.
InstallHandlerNot(p) ==
  /\ proc[p] = "signal" /\ Goto(p, "map")
  /\ UNCHANGED <<db, session, caught, made, sock, conn, cut>> /\ WorldUnchanged

\* startWork
InstallHandler(p) ==
  /\ proc[p] = "signal" /\ Goto(p, "map")
  /\ caught' = [caught EXCEPT ![p] = TRUE]
  /\ UNCHANGED <<db, session, made, sock, conn, cut>> /\ WorldUnchanged

\* new SecKeyShm(m_shmKey, m_maxNode).  Whether its shmget found or created a
\* segment is not tested: the server goes on either way (see KeyAgreement!attached).
MakeShm(p) ==
  /\ proc[p] = "map" /\ Goto(p, "bind")
  /\ made' = [made EXCEPT ![p] = TRUE]
  /\ UNCHANGED <<db, session, caught, sock, conn, cut>> /\ WorldUnchanged

\* Mutant: without SO_REUSEADDR.
BindStrict(p) ==
  /\ proc[p] = "bind"
  /\ IF ~timeWait /\ \A q \in Pids : sock[q] = "none"
     THEN Goto(p, "listen") /\ sock' = [sock EXCEPT ![p] = "bound"]
     ELSE Goto(p, "leave") /\ UNCHANGED sock
  /\ UNCHANGED <<db, session, caught, made, conn, cut>> /\ WorldUnchanged

\* setListen: socket, SO_REUSEADDR, bind ...
Bind(p) ==
  /\ proc[p] = "bind"
  /\ IF Listeners = {}
     THEN Goto(p, "listen") /\ sock' = [sock EXCEPT ![p] = "bound"]
     ELSE Goto(p, "leave") /\ UNCHANGED sock
  /\ UNCHANGED <<db, session, caught, made, conn, cut>> /\ WorldUnchanged

\* Mutant: what listen returns is not looked at.
ListenUnchecked(p) ==
  /\ proc[p] = "listen" /\ Goto(p, "accept")
  /\ sock' = IF Listeners = {} THEN [sock EXCEPT ![p] = "listening"] ELSE sock
  /\ UNCHANGED <<db, session, caught, made, conn, cut>> /\ WorldUnchanged

\* ... and listen
Listen(p) ==
  /\ proc[p] = "listen"
  /\ IF Listeners = {}
     THEN Goto(p, "accept") /\ sock' = [sock EXCEPT ![p] = "listening"]
     ELSE Goto(p, "leave") /\ UNCHANGED sock
  /\ UNCHANGED <<db, session, caught, made, conn, cut>> /\ WorldUnchanged

\* startWork has returned, and main: the destructors of ServerOperation and its
\* members detach the segment, close the session and the socket.
Leave(p) ==
  /\ proc[p] = "leave" /\ Goto(p, "gone")
  /\ made' = [made EXCEPT ![p] = FALSE]
  /\ session' = [session EXCEPT ![db[p]] = "closed"]
  /\ sock' = [sock EXCEPT ![p] = "none"]
  /\ UNCHANGED <<db, caught, conn, cut>> /\ WorldUnchanged

\* Mutant: the next connection is accepted when no thread is at work.
AcceptOneByOne(p) ==
  /\ proc[p] = "accept"
  /\ \A n \in Conns : ~(conn[n].st = "served" /\ conn[n].pid = p)
  /\ \E n \in Conns : /\ conn[n].st = "queued" /\ conn[n].pid = p
                      /\ conn' = [conn EXCEPT ![n].st = "served"]
  /\ UNCHANGED <<procVars, cut>> /\ WorldUnchanged

\* acceptConn, and a thread for the connection
Accept(p) ==
  /\ proc[p] = "accept"
  /\ \E n \in Conns : /\ conn[n].st = "queued" /\ conn[n].pid = p
                      /\ conn' = [conn EXCEPT ![n].st = "served"]
  /\ UNCHANGED <<procVars, cut>> /\ WorldUnchanged

-----------------------------------------------------------------------------
(* The connections                                                         *)

\* The kernel completes a connection as soon as somebody listens.
Connect(n) ==
  /\ conn[n].st = "none"
  /\ \E p \in Listeners : conn' = [conn EXCEPT ![n] = [st |-> "queued", pid |-> p]]
  /\ UNCHANGED <<procVars, cut>> /\ WorldUnchanged

\* The thread deletes its TcpSocket; the end that closes first is in TIME_WAIT.
Served(n) ==
  /\ conn[n].st = "served"
  /\ conn' = [conn EXCEPT ![n] = [st |-> "closed", pid |-> 0]]
  /\ timeWait' \in {timeWait, TRUE}
  /\ UNCHANGED <<start, toSignal, procVars, launches, kills, stops, cut>>

TimeWaitOver ==
  /\ timeWait
  /\ timeWait' = FALSE
  /\ UNCHANGED <<start, toSignal, procVars, conn, launches, kills, stops, cut>>

-----------------------------------------------------------------------------
(* The end of a process from outside                                       *)

End(p) ==
  /\ Goto(p, "gone")
  /\ session' = SessionsWithout(p)
  /\ caught' = [caught EXCEPT ![p] = FALSE]
  /\ made' = [made EXCEPT ![p] = FALSE]
  /\ sock' = [sock EXCEPT ![p] = "none"]
  /\ conn' = [n \in Conns |-> IF conn[n].pid = p THEN [st |-> "closed", pid |-> 0] ELSE conn[n]]
  /\ timeWait' \in {timeWait} \cup {TRUE : n \in {m \in Conns : conn[m].pid = p}}
  /\ cut' = TRUE
  /\ UNCHANGED db

Kill(p) ==
  /\ p \in Running /\ kills < MaxKills
  /\ kills' = kills + 1
  /\ End(p)
  /\ UNCHANGED <<start, toSignal, launches, stops>>

\* Mutant: without "grep -v grep" the script finds its own grep, here 0, too.
FindPidsAndGrep ==
  /\ toSignal = {} /\ Running # {} /\ stops < MaxStops
  /\ toSignal' = Running \cup {0}
  /\ stops' = stops + 1
  /\ UNCHANGED <<start, procVars, conn, timeWait, launches, kills, cut>>

\* stopSvr.sh reads the processes from ps ...
FindPids ==
  /\ toSignal = {} /\ Running # {} /\ stops < MaxStops
  /\ toSignal' = Running
  /\ stops' = stops + 1
  /\ UNCHANGED <<start, procVars, conn, timeWait, launches, kills, cut>>

\* ... and sends each SIGUSR1; catchSignal only prints, m_stop stays false and
\* accept is restarted.
Signal(p) ==
  /\ p \in toSignal
  /\ toSignal' = toSignal \ {p}
  /\ IF p \in Running /\ ~caught[p] THEN End(p)
     ELSE UNCHANGED <<procVars, conn, timeWait, cut>>
  /\ UNCHANGED <<start, launches, kills, stops>>

-----------------------------------------------------------------------------
Run(p) ==
  \/ ConnectDb(p) \/ Fork(p) \/ ForkFails(p) \/ ParentExits(p)
  \/ InstallHandler(p) \/ MakeShm(p) \/ Bind(p) \/ Listen(p) \/ Leave(p) \/ Accept(p)

Next ==
  \/ \E u \in Users : FindsNone(u) \/ Launch(u)
  \/ \E p \in Pids : Run(p) \/ Kill(p) \/ Signal(p)
  \/ \E n \in Conns : Connect(n) \/ Served(n)
  \/ FindPids \/ TimeWaitOver

Spec == Init /\ [][Next]_vars

\* The processes run.  A thread may wait for its client for ever, so nothing is
\* assumed of Served.
FairSpec == Spec /\ \A p \in Pids : WF_vars(Run(p))

-----------------------------------------------------------------------------
(* Properties *)

\* Types of the scripts, the processes, the connections and the histories.
TypeOK ==
  /\ start \in [Users -> {"idle", "launch"}] /\ toSignal \subseteq Pids
  /\ proc \in [Pids -> {"none", "connect", "fork", "exit", "signal", "map", "bind", "listen",
                        "accept", "leave", "gone"}]
  /\ db \in [Pids -> Pids \cup {0}]
  /\ session \in [Pids -> {"none", "failed", "open", "closed"}]
  /\ caught \in [Pids -> BOOLEAN] /\ made \in [Pids -> BOOLEAN]
  /\ sock \in [Pids -> {"none", "bound", "listening"}]
  /\ conn \in [Conns -> [st : {"none", "queued", "served", "closed"}, pid : Pids \cup {0}]]
  /\ timeWait \in BOOLEAN /\ cut \in BOOLEAN
  /\ launches \in 0..MaxLaunches /\ kills \in 0..MaxKills /\ stops \in 0..MaxStops

\* Two servers may be launched at once, for the script checks before it starts;
\* a process that is in its accept loop is nevertheless the only one that
\* listens, and has made the object m_shm, which its threads call without a test
\* for NULL (startSvr.sh:8-15, ServerOperation.cpp:190-198, :157).
ServesAlone == \A p \in Pids : proc[p] = "accept" => Listeners = {p} /\ made[p]

\* The session with the database is opened before the fork and shared by parent
\* and child: the end of the parent, or of a second server, never closes that of
\* a process that goes on (server/main.cpp:16-20, ServerOperation.cpp:294-302).
SessionKept ==
  \A p \in Running : db[p] # 0 /\ proc[p] # "exit" => session[db[p]] # "closed"

\* The stop script may end a process that is still starting, but its signal
\* never cuts a connection (ServerOperation.cpp:188, :326-331).
StopCutsNone ==
  [][\A p \in Pids : p \in toSignal /\ p \notin toSignal' => UNCHANGED conn]_vars

\* Unless a process is ended from outside meanwhile, a launch leads to a server
\* that serves: two that race for the port never both give up, and a restart
\* does not fail for TIME_WAIT (startSvr.sh:15, TcpServer.cpp:27-41).
StartServes == (\E p \in Pids : proc[p] = "connect") ~> (cut \/ \E p \in Pids : proc[p] = "accept")

\* A connection is not left in the queue while its server runs, whatever the
\* clients of the other connections do (ServerOperation.cpp:202-220).
ConnectionsAccepted == \A n \in Conns : conn[n].st = "queued" ~> conn[n].st # "queued"
=============================================================================
