---------------------- MODULE KeyAgreementStoresProofs ----------------------
(***************************************************************************)
(* What an agreement leaves in the stores, and what clients are told of    *)
(* it, for any number of clients, connections, kills and restarts.         *)
(*                                                                         *)
(* The first part says what a step does to one connection, to the server,  *)
(* to the rows and to one client.  The second part is about the database   *)
(* and what is told from it, as long as calls of the database have not     *)
(* overlapped and, where the property says so, no statement has failed:    *)
(* success is told only after the row is written, what a check or a view   *)
(* is told is of the client's own id, a node has its row.  A row is        *)
(* written once whatever happens.                                          *)
(*                                                                         *)
(* The third part is about the server, which outlives every exchange in   *)
(* which nobody is killed, and about the table of nodes, whose writers are *)
(* the server's threads and the clients alike: what a node holds while it  *)
(* is copied, as long as no two copies into the table overlapped, and with *)
(* that the keys of the nodes; how many nodes an agreement has in any      *)
(* case; the node of a client that was told of success.                    *)
(***************************************************************************)
EXTENDS KeyAgreementProofs, FiniteSetTheorems, WellFoundedInduction

\* The thread has built its reply, or sent it.
Replied(n) == conn[n].pc = "reply" \/ conn[n].sent

\* The steps of the server's thread on connection n, except for its death.
Answering(n) == AgreeRefuse(n) \/ Check(n) \/ Revoke(n) \/ View(n)
Recording(n)  == ShmScan(n) \/ ShmCopy(n) \/ ShmDone(n) \/ ShmBad(n) \/ AgreeDb(n)
Serves(n) == RecvFails(n) \/ Recv(n) \/ Answering(n) \/ AgreeAccept(n) \/ Recording(n) \/ Send(n)
Dies == KillServer \/ \E n \in Conns : ShmFaults(n) \/ ReplyFaults(n) \/ SendFaults(n)
Acts(c) == Begin(c) \/ Proceed(c) \/ KillClient(c)

LEMMA NextSplit ==
  ASSUME [Next]_vars
  PROVE  \/ StartServer \/ SrvCheckHeader \/ SrvSetTotal \/ LoseDb \/ UNCHANGED vars
         \/ Dies
         \/ \E n \in Conns : Serves(n)
         \/ \E c \in Clients : Acts(c)
<1>1. ASSUME NEW n \in Conns, Work(n) PROVE Serves(n) \/ Dies
  BY <1>1 DEF Work, Agree, Serves, Answering, Recording, Dies
<1> QED
  BY <1>1 DEF Next, Acts, Dies

-----------------------------------------------------------------------------
\* What a step may do to connection n.
PcMoves(n) ==
  \/ conn'[n].pc = conn[n].pc
  \/ conn[n].pc = "unused" /\ conn'[n].pc = "recv" /\ conn'[n].open /\ srv = "up" /\ srv' = "up"
  \/ conn[n].pc = "recv" /\ conn'[n].pc \in {"ask", "closed"}
  \/ conn[n].pc = "ask" /\ conn'[n].pc \in {"shm", "reply"}
  \/ ShmDone(n) /\ conn[n].pc = "shm" /\ conn'[n].pc = "db"
  \/ ShmBad(n) /\ conn[n].pc = "shm" /\ conn'[n].pc = "bad"
  \/ AgreeDb(n) /\ conn[n].pc = "db" /\ conn'[n].pc = "reply"
  \/ conn[n].pc = "reply" /\ conn'[n].pc = "closed"
  \/ Dies /\ conn'[n].pc = "closed"
WrMoves(n) ==
  \/ conn'[n].wr = conn[n].wr
  \/ ShmScan(n) \/ ShmCopy(n)
  \/ conn'[n].wr = None /\ (ShmDone(n) \/ Dies)
Moves(n) ==
  /\ PcMoves(n) /\ WrMoves(n)
  /\ Replied(n)' => \/ Replied(n) /\ conn'[n].rsp = conn[n].rsp /\ conn'[n].req = conn[n].req
                    \/ AgreeDb(n) /\ conn'[n].rsp = conn[n].rsp /\ conn'[n].req = conn[n].req
                    \/ Answering(n) /\ conn'[n].req = conn[n].req
  /\ conn'[n].sent => conn[n].sent \/ conn'[n].pc = "closed"
  /\ agreed'[n] = agreed[n] \/ (conn[n].pc = "ask" /\ conn'[n].pc = "shm")

LEMMA StillMoves ==
  ASSUME NEW n \in Conns, conn'[n] = conn[n], agreed'[n] = agreed[n]
  PROVE  Moves(n)
  BY DEF Moves, PcMoves, WrMoves, Replied

\* The thread's record with another pc and another copy, or with its reply.
LEMMA PcWr ==
  ASSUME NEW k \in ConnRec, NEW to, NEW w
  PROVE  /\ [k EXCEPT !.pc = to, !.wr = w].pc = to /\ [k EXCEPT !.pc = to, !.wr = w].wr = w
         /\ [k EXCEPT !.pc = to, !.wr = w].rsp = k.rsp /\ [k EXCEPT !.pc = to, !.wr = w].req = k.req
         /\ [k EXCEPT !.pc = to, !.wr = w].sent = k.sent /\ [k EXCEPT !.pc = to, !.wr = w].open = k.open
         /\ [k EXCEPT !.pc = to, !.wr = w].key = k.key /\ [k EXCEPT !.pc = to, !.wr = w].kid = k.kid
         /\ [k EXCEPT !.pc = to].pc = to /\ [k EXCEPT !.pc = to].wr = k.wr
         /\ [k EXCEPT !.pc = to].rsp = k.rsp /\ [k EXCEPT !.pc = to].req = k.req
         /\ [k EXCEPT !.pc = to].sent = k.sent /\ [k EXCEPT !.pc = to].open = k.open
         /\ [k EXCEPT !.pc = to].key = k.key /\ [k EXCEPT !.pc = to].kid = k.kid
         /\ [k EXCEPT !.wr = w].pc = k.pc /\ [k EXCEPT !.wr = w].wr = w
         /\ [k EXCEPT !.wr = w].rsp = k.rsp /\ [k EXCEPT !.wr = w].req = k.req
         /\ [k EXCEPT !.wr = w].sent = k.sent /\ [k EXCEPT !.wr = w].open = k.open
         /\ [k EXCEPT !.wr = w].key = k.key /\ [k EXCEPT !.wr = w].kid = k.kid
  BY DEF ConnRec

\* What Recording does to its own connection: only pc and wr change.
LEMMA StoringKeeps ==
  ASSUME IInv, NEW n \in Conns, Recv(n) \/ Recording(n)
  PROVE  /\ conn'[n].rsp = conn[n].rsp /\ conn'[n].req = conn[n].req
         /\ conn'[n].sent = conn[n].sent /\ conn'[n].open = conn[n].open
         /\ conn'[n].key = conn[n].key /\ conn'[n].kid = conn[n].kid
         /\ \E k : conn' = [conn EXCEPT ![n] = k]
         /\ UNCHANGED agreed
<1>1. conn \in [Conns -> ConnRec] /\ conn[n] \in ConnRec
  BY ConnTyped
<1>2. UNCHANGED agreed
  BY DEF Recv, Recording, ShmScan, ShmCopy, ShmDone, ShmBad, AgreeDb, RestUnchanged
<1>3. CASE \E to, w : conn' = [conn EXCEPT ![n].pc = to, ![n].wr = w]
  <2>1. PICK to, w : conn' = [conn EXCEPT ![n].pc = to, ![n].wr = w]
    BY <1>3
  <2> DEFINE k == [conn[n] EXCEPT !.pc = to, !.wr = w]
  <2>2. conn' = [conn EXCEPT ![n] = k] /\ conn'[n] = k
    BY <1>1, <2>1
  <2>3. /\ k.rsp = conn[n].rsp /\ k.req = conn[n].req /\ k.sent = conn[n].sent
        /\ k.open = conn[n].open /\ k.key = conn[n].key /\ k.kid = conn[n].kid
    BY <1>1, PcWr
  <2> HIDE DEF k
  <2> QED
    BY <1>2, <2>2, <2>3
<1>4. CASE \E to : conn' = [conn EXCEPT ![n].pc = to]
  <2>1. PICK to : conn' = [conn EXCEPT ![n].pc = to]
    BY <1>4
  <2> DEFINE k == [conn[n] EXCEPT !.pc = to]
  <2>2. conn' = [conn EXCEPT ![n] = k] /\ conn'[n] = k
    BY <1>1, <2>1
  <2>3. /\ k.rsp = conn[n].rsp /\ k.req = conn[n].req /\ k.sent = conn[n].sent
        /\ k.open = conn[n].open /\ k.key = conn[n].key /\ k.kid = conn[n].kid
    BY <1>1, PcWr
  <2> HIDE DEF k
  <2> QED
    BY <1>2, <2>2, <2>3
<1>5. CASE \E w : conn' = [conn EXCEPT ![n].wr = w]
  <2>1. PICK w : conn' = [conn EXCEPT ![n].wr = w]
    BY <1>5
  <2> DEFINE k == [conn[n] EXCEPT !.wr = w]
  <2>2. conn' = [conn EXCEPT ![n] = k] /\ conn'[n] = k
    BY <1>1, <2>1
  <2>3. /\ k.rsp = conn[n].rsp /\ k.req = conn[n].req /\ k.sent = conn[n].sent
        /\ k.open = conn[n].open /\ k.key = conn[n].key /\ k.kid = conn[n].kid
    BY <1>1, PcWr
  <2> HIDE DEF k
  <2> QED
    BY <1>2, <2>2, <2>3
<1>6. CASE Recv(n) \/ ShmBad(n) \/ AgreeDb(n)
  BY <1>4, <1>6 DEF Recv, ShmBad, AgreeDb
<1>7. CASE ShmScan(n) \/ ShmCopy(n)
  BY <1>5, <1>7 DEF ShmScan, ShmCopy
<1>8. CASE ShmDone(n)
  BY <1>3, <1>8 DEF ShmDone
<1> QED
  BY <1>6, <1>7, <1>8 DEF Recording

\* An answer: the reply is there, and an agreement is refused.
LEMMA AnswerIs ==
  ASSUME IInv, NEW n \in Conns, Answering(n)
  PROVE  /\ conn[n].pc = "ask" /\ conn[n].req # None /\ UNCHANGED agreed
         /\ conn'[n].pc = "reply" /\ conn'[n].req = conn[n].req /\ conn'[n].sent = conn[n].sent
         /\ conn'[n].wr = conn[n].wr /\ conn'[n].open = conn[n].open
         /\ \E r : Answer(n, r)
         /\ conn[n].req.cmd = "agree" => AgreeRefuse(n) /\ conn'[n].rsp.rv = -1
<1>1. conn \in [Conns -> ConnRec] /\ conn[n] \in ConnRec /\ Fine(n, conn[n])
  BY ConnTyped
<1>2. /\ conn[n].pc = "ask" /\ UNCHANGED agreed /\ \E r : Answer(n, r)
      /\ conn[n].req.cmd = "agree" => AgreeRefuse(n)
  <2>1. CASE AgreeRefuse(n)
    BY <2>1 DEF AgreeRefuse, Has, RestUnchanged, Refuse
  <2>2. CASE Check(n)
    BY <2>2 DEF Check, Has, RestUnchanged, Refuse
  <2>3. CASE Revoke(n)
    BY <2>3 DEF Revoke, Has, RestUnchanged, Refuse
  <2>4. CASE View(n)
    BY <2>4 DEF View, Has, RestUnchanged, Refuse
  <2> QED
    BY <2>1, <2>2, <2>3, <2>4 DEF Answering
<1>3. \A r : Answer(n, r) =>
        /\ conn'[n].pc = "reply" /\ conn'[n].rsp = r /\ conn'[n].req = conn[n].req
        /\ conn'[n].sent = conn[n].sent /\ conn'[n].wr = conn[n].wr /\ conn'[n].open = conn[n].open
  BY <1>1 DEF Answer, ConnRec
<1>4. conn[n].req # None
  BY <1>1, <1>2 DEF Fine, Serving
<1>5. AgreeRefuse(n) => conn'[n].rsp.rv = -1
  BY <1>3 DEF AgreeRefuse, Refuse, Reply
<1> QED
  BY <1>2, <1>3, <1>4, <1>5

LEMMA AcceptIs ==
  ASSUME IInv, NEW n \in Conns, AgreeAccept(n)
  PROVE  /\ conn[n].pc = "ask" /\ conn'[n].pc = "shm" /\ conn'[n].sent = conn[n].sent
         /\ ~conn[n].sent /\ conn[n].wr = None /\ conn'[n].wr = None /\ conn'[n].open = conn[n].open
         /\ conn'[n].req = conn[n].req /\ agreed[n] = None
         /\ (\E k : conn' = [conn EXCEPT ![n] = k]) /\ (\E a : agreed' = [agreed EXCEPT ![n] = a])
<1>1. PICK r2 \in Nonces, kid \in KeyIds :
        /\ conn' = [conn EXCEPT ![n].pc = "shm", ![n].key = <<conn[n].req.arg, r2>>, ![n].kid = kid,
                                ![n].rsp = Reply(0, r2, kid)]
        /\ agreed' = [agreed EXCEPT ![n] = <<conn[n].req.arg, r2>>]
  BY DEF AgreeAccept
<1> DEFINE k == [conn[n] EXCEPT !.pc = "shm", !.key = <<conn[n].req.arg, r2>>, !.kid = kid,
                                !.rsp = Reply(0, r2, kid)]
<1>2. conn \in [Conns -> ConnRec] /\ conn[n] \in ConnRec /\ Fine(n, conn[n])
  BY ConnTyped
<1>3. conn' = [conn EXCEPT ![n] = k]
  BY <1>1, <1>2
<1>4. k.pc = "shm" /\ k.sent = conn[n].sent /\ k.wr = conn[n].wr /\ k.open = conn[n].open
      /\ k.req = conn[n].req
  BY <1>2 DEF ConnRec
<1> HIDE DEF k
<1>5. conn'[n] = k
  BY <1>2, <1>3
<1>6. conn[n].pc = "ask"
  BY DEF AgreeAccept, Has
<1>7. ~conn[n].sent /\ conn[n].wr = None /\ agreed[n] = None
  BY <1>2, <1>6 DEF Fine
<1> QED
  BY <1>1, <1>3, <1>4, <1>5, <1>6, <1>7

LEMMA EndIs ==
  ASSUME IInv, NEW n \in Conns, RecvFails(n) \/ Send(n)
  PROVE  /\ UNCHANGED agreed /\ (\E k : conn' = [conn EXCEPT ![n] = k])
         /\ conn'[n].pc = "closed" /\ conn[n].wr = None /\ conn'[n].wr = None
         /\ conn[n].pc \in {"recv", "reply"}
         /\ Replied(n)' => /\ conn[n].pc = "reply"
                           /\ conn'[n].rsp = conn[n].rsp /\ conn'[n].req = conn[n].req
<1>1. conn \in [Conns -> ConnRec] /\ conn[n] \in ConnRec /\ Fine(n, conn[n])
  BY ConnTyped
<1>2. CASE RecvFails(n)
  <2>1. conn[n].pc = "recv" /\ conn' = [conn EXCEPT ![n] = Gone] /\ UNCHANGED agreed /\ conn[n].wr = None
    BY <1>1, <1>2 DEF RecvFails, RestUnchanged, Fine
  <2> QED
    BY <1>1, <2>1, UnusedTyped DEF Replied
<1>3. CASE Send(n)
  <2> DEFINE k == [conn[n] EXCEPT !.pc = "closed", !.sent = conn[n].open]
  <2>1. conn[n].pc = "reply" /\ conn' = [conn EXCEPT ![n] = Tidy(k)] /\ UNCHANGED agreed
        /\ conn[n].wr = None
    BY <1>1, <1>3 DEF Send, RestUnchanged, Fine
  <2>2. k.pc = "closed" /\ k.req = conn[n].req /\ k.rsp = conn[n].rsp /\ k.wr = conn[n].wr
    BY <1>1 DEF ConnRec
  <2>3. Tidy(k) = k \/ Tidy(k) = Gone
    BY DEF Tidy
  <2> HIDE DEF k, Tidy
  <2>4. conn'[n] = Tidy(k)
    BY <1>1, <2>1
  <2>5. \E t : conn' = [conn EXCEPT ![n] = t]
    BY <2>1
  <2>6. CASE conn'[n] = k
    BY <2>1, <2>2, <2>5, <2>6 DEF Replied
  <2>7. CASE conn'[n] = Gone
    BY <2>1, <2>5, <2>7, UnusedTyped DEF Replied
  <2> QED
    BY <2>3, <2>4, <2>6, <2>7
<1> QED
  BY <1>2, <1>3

LEMMA OthersStill ==
  ASSUME IInv, NEW m \in Conns, Serves(m), NEW n \in Conns, n # m
  PROVE  conn'[n] = conn[n] /\ agreed'[n] = agreed[n]
<1>1. conn \in [Conns -> ConnRec] /\ agreed \in [Conns -> Key \cup {None}]
  BY ConnTyped
<1>2. (\E k : conn' = [conn EXCEPT ![m] = k]) /\ (agreed' = agreed \/ \E a : agreed' = [agreed EXCEPT ![m] = a])
  <2>1. CASE RecvFails(m) \/ Send(m)
    BY <2>1, EndIs
  <2>2. CASE Answering(m)
    <3>1. PICK r : Answer(m, r)
      BY <2>2, AnswerIs
    <3>2. conn' = [conn EXCEPT ![m] = [conn[m] EXCEPT !.pc = "reply", !.rsp = r]]
      BY <1>1, <3>1 DEF Answer
    <3> QED
      BY <2>2, <3>2, AnswerIs
  <2>3. CASE AgreeAccept(m)
    BY <2>3, AcceptIs
  <2>4. CASE Recv(m) \/ Recording(m)
    BY <2>4, StoringKeeps
  <2> QED
    BY <2>1, <2>2, <2>3, <2>4 DEF Serves
<1> QED
  BY <1>1, <1>2

LEMMA ServeMoves ==
  ASSUME IInv, NEW n \in Conns, Serves(n)
  PROVE  Moves(n)
<1>1. conn \in [Conns -> ConnRec] /\ conn[n] \in ConnRec /\ Fine(n, conn[n])
  BY ConnTyped
<1>2. CASE RecvFails(n) \/ Send(n)
  BY <1>2, EndIs DEF Moves, PcMoves, WrMoves, Replied
<1>3. CASE Answering(n)
  BY <1>3, AnswerIs DEF Moves, PcMoves, WrMoves
<1>4. CASE AgreeAccept(n)
  BY <1>4, AcceptIs DEF Moves, PcMoves, WrMoves, Replied
<1>5. CASE Recv(n) \/ Recording(n)
  <2>1. /\ conn'[n].rsp = conn[n].rsp /\ conn'[n].req = conn[n].req
        /\ conn'[n].sent = conn[n].sent /\ UNCHANGED agreed
    BY <1>5, StoringKeeps
  <2>2. PcMoves(n) /\ WrMoves(n) /\ (conn'[n].pc = "reply" => AgreeDb(n) \/ conn[n].pc = "reply")
    <3>1. CASE Recv(n)
      <4>1. conn[n].pc = "recv" /\ conn'[n].pc = "ask" /\ conn'[n].wr = conn[n].wr
        BY <1>1, <3>1, PcWr DEF Recv
      <4> QED
        BY <4>1 DEF PcMoves, WrMoves
    <3>2. CASE ShmScan(n) \/ ShmCopy(n)
      <4>1. \E w : conn' = [conn EXCEPT ![n].wr = w]
        BY <3>2 DEF ShmScan, ShmCopy
      <4>2. conn'[n].pc = conn[n].pc
        BY <1>1, <4>1, PcWr
      <4> QED
        BY <3>2, <4>2 DEF PcMoves, WrMoves
    <3>3. CASE ShmDone(n)
      <4>1. conn[n].pc = "shm" /\ conn'[n].pc = "db" /\ conn'[n].wr = None
        BY <1>1, <3>3, PcWr DEF ShmDone, ShmEnds
      <4> QED
        BY <3>3, <4>1 DEF PcMoves, WrMoves
    <3>4. CASE ShmBad(n)
      <4>1. conn[n].pc = "shm" /\ conn'[n].pc = "bad" /\ conn'[n].wr = conn[n].wr
        BY <1>1, <3>4, PcWr DEF ShmBad
      <4> QED
        BY <3>4, <4>1 DEF PcMoves, WrMoves
    <3>5. CASE AgreeDb(n)
      <4>1. conn[n].pc = "db" /\ conn'[n].pc = "reply" /\ conn'[n].wr = conn[n].wr
        BY <1>1, <3>5, PcWr DEF AgreeDb
      <4> QED
        BY <3>5, <4>1 DEF PcMoves, WrMoves
    <3> QED
      BY <1>5, <3>1, <3>2, <3>3, <3>4, <3>5 DEF Recording
  <2> QED
    BY <2>1, <2>2 DEF Moves, Replied
<1> QED
  BY <1>2, <1>3, <1>4, <1>5 DEF Serves

LEMMA DeathIs ==
  ASSUME IInv, NEW n \in Conns, Dies
  PROVE  /\ UNCHANGED agreed
         /\ conn[n].pc = "unused" => conn'[n] = conn[n]
         /\ conn[n].pc # "unused" => conn'[n].pc = "closed" /\ conn'[n].wr = None
         /\ Replied(n)' => Replied(n) /\ conn'[n].rsp = conn[n].rsp /\ conn'[n].req = conn[n].req
         /\ conn'[n].sent => conn[n].sent
         /\ conn'[n].open = conn[n].open
<1> DEFINE k == [conn[n] EXCEPT !.pc = "closed", !.wr = None]
<1>1. UNCHANGED agreed
      /\ (conn'[n] = IF conn[n].pc = "unused" THEN conn[n] ELSE Tidy(k))
  BY DEF Dies, KillServer, ShmFaults, ReplyFaults, SendFaults, Die, ServerGone
<1>2. /\ k.pc = "closed" /\ k.req = conn[n].req /\ k.rsp = conn[n].rsp /\ k.sent = conn[n].sent
      /\ k.wr = None /\ k.open = conn[n].open /\ conn[n].open \in BOOLEAN
  BY ConnTyped, PcWr DEF ConnRec
<1>3. conn[n].pc # "unused" => conn'[n] = k \/ (conn'[n] = Gone /\ ~k.open)
  BY <1>1 DEF Tidy
<1> HIDE DEF k
<1>4. ~Gone.open /\ Gone.open \in BOOLEAN
  BY UnusedTyped DEF ConnRec
<1> QED
  BY <1>1, <1>2, <1>3, <1>4, UnusedTyped DEF Replied

LEMMA DeathMoves ==
  ASSUME IInv, NEW n \in Conns, Dies
  PROVE  Moves(n)
<1>1. CASE conn[n].pc = "unused"
  BY <1>1, DeathIs, StillMoves
<1>2. CASE conn[n].pc # "unused"
  BY <1>2, DeathIs DEF Moves, PcMoves, WrMoves
<1> QED
  BY <1>1, <1>2

\* What an action of client c leaves alone, and what it does to connections.
LEMMA ActIs ==
  ASSUME IInv, NEW c \in Clients, Acts(c)
  PROVE  /\ UNCHANGED <<agreed, rows, srv, db, attached, died>>
         /\ UNCHANGED nodes \/ LocalCopy(c)
         /\ UNCHANGED past \/ LocalScan(c) \/ KillClient(c)
         /\ \/ UNCHANGED conn
            \/ CloseEnd(c) /\ InOperation(c)
            \/ Connect(c)
            \/ SendRequest(c)
<1>1. CASE StartClient(c) \/ CheckHeader(c) \/ SetTotal(c) \/ Quit(c)
  BY <1>1 DEF StartClient, CheckHeader, SetTotal, Quit, OnlyClient, SrvUnchanged, srvVars
<1>2. CASE Choose(c) \/ BeginRead(c) \/ ReadLocal(c) \/ NoLocalKey(c) \/ ConnectFails(c)
  BY <1>2 DEF Choose, BeginRead, ReadLocal, NoLocalKey, ConnectFails, Begins, OnlyClient, SrvUnchanged,
              srvVars
<1>3. CASE Connect(c) \/ SendRequest(c)
  BY <1>3 DEF Connect, SendRequest, SrvUnchanged, srvVars
<1>4. CASE SendRequestFaults(c) \/ ReceiveFails(c) \/ Receive(c) \/ StoreKey(c)
  BY <1>4 DEF SendRequestFaults, ReceiveFails, Receive, StoreKey, SrvUnchanged, srvVars, At, InOperation
<1>5. CASE ReceiveKey(c) \/ LocalScan(c) \/ LocalCopy(c)
  BY <1>5 DEF ReceiveKey, LocalScan, LocalCopy, OnlyClient, SrvUnchanged, srvVars
<1>6. CASE KillClient(c)
  <2>1. cli[c].n # 0 => InOperation(c)
    BY DEF IInv, CliOK
  <2> QED
    BY <1>6, <2>1 DEF KillClient, srvVars, shmVars
<1> QED
  BY <1>1, <1>2, <1>3, <1>4, <1>5, <1>6 DEF Acts, Begin, Proceed

LEMMA ActMoves ==
  ASSUME IInv, NEW c \in Clients, Acts(c), NEW n \in Conns
  PROVE  Moves(n)
<1>1. UNCHANGED agreed /\ srv' = srv
  BY ActIs
<1>c. conn \in [Conns -> ConnRec] /\ conn[n] \in ConnRec /\ Fine(n, conn[n])
  BY ConnTyped
<1>2. CASE UNCHANGED conn
  BY <1>1, <1>2, StillMoves
<1>3. CASE CloseEnd(c) /\ InOperation(c)
  <2>2. cli[c].n \in Conns
    BY <1>3, ConnOfClient
  <2>3. CASE n # cli[c].n
    <3>1. conn'[n] = conn[n]
      BY <1>3, <2>3, <1>c DEF CloseEnd
    <3> QED
      BY <1>1, <3>1, StillMoves
  <2>4. CASE n = cli[c].n
    <3> DEFINE k == [conn[n] EXCEPT !.open = FALSE]
    <3>1. conn'[n] = k \/ (k.pc = "closed" /\ conn'[n] = Gone)
      BY <1>3, <2>4, <1>c DEF CloseEnd, Tidy
    <3>2. /\ k.pc = conn[n].pc /\ k.req = conn[n].req /\ k.rsp = conn[n].rsp /\ k.sent = conn[n].sent
          /\ k.wr = conn[n].wr
      BY <1>c DEF ConnRec
    <3>3. conn[n].pc = "closed" => conn[n].wr = None
      BY <1>c DEF Fine
    <3> HIDE DEF k
    <3>4. CASE conn'[n] = k
      BY <1>1, <3>2, <3>4 DEF Moves, PcMoves, WrMoves, Replied
    <3>5. CASE k.pc = "closed" /\ conn'[n] = Gone
      BY <1>1, <3>2, <3>3, <3>5, UnusedTyped DEF Moves, PcMoves, WrMoves, Replied
    <3> QED
      BY <3>1, <3>4, <3>5
  <2> QED
    BY <2>3, <2>4
<1>4. CASE Connect(c)
  <2> DEFINE k == [Unused EXCEPT !.c = c, !.open = TRUE, !.pc = "recv"]
  <2>1. srv = "up" /\ conn' = [conn EXCEPT ![opened + 1] = k]
    BY <1>4 DEF Connect
  <2>2. k.pc = "recv" /\ k.open /\ ~k.sent /\ k.wr = None
    BY DEF Unused
  <2> HIDE DEF k
  <2>3. opened \in Nat /\ n \in Nat
    BY Sizes DEF IInv, TypeOK, Conns
  <2>4. CASE n # opened + 1
    <3>1. conn'[n] = conn[n]
      BY <2>1, <2>4, <1>c
    <3> QED
      BY <1>1, <3>1, StillMoves
  <2>5. CASE n = opened + 1
    <3>1. conn[n].pc = "unused" /\ conn'[n] = k /\ conn[n].wr = None
      BY <2>1, <2>3, <2>5, <1>c DEF Fine
    <3> QED
      BY <1>1, <2>1, <2>2, <3>1 DEF Moves, PcMoves, WrMoves, Replied
  <2> QED
    BY <2>4, <2>5
<1>5. CASE SendRequest(c)
  <2>1. conn' = conn \/ (conn[cli[c].n].pc = "recv" /\ conn' = [conn EXCEPT ![cli[c].n].req = cli[c].req])
    BY <1>5 DEF SendRequest
  <2>2. CASE conn'[n] = conn[n]
    BY <1>1, <2>2, StillMoves
  <2>3. CASE conn[n].pc = "recv" /\ conn'[n] = [conn[n] EXCEPT !.req = cli[c].req]
    <3>1. ~conn[n].sent
      BY <2>3, <1>c DEF Fine
    <3>2. conn'[n].pc = "recv" /\ conn'[n].sent = conn[n].sent /\ conn'[n].wr = conn[n].wr
      BY <2>3, <1>c DEF ConnRec
    <3> QED
      BY <1>1, <2>3, <3>1, <3>2 DEF Moves, PcMoves, WrMoves, Replied
  <2> QED
    BY <2>1, <2>2, <2>3, <1>c
<1> QED
  BY <1>2, <1>3, <1>4, <1>5, ActIs

LEMMA ConnMoves ==
  ASSUME IInv, [Next]_vars, NEW n \in Conns PROVE Moves(n)
<1>1. CASE \E m \in Conns : Serves(m)
  <2>1. PICK m \in Conns : Serves(m)
    BY <1>1
  <2>2. CASE n # m
    BY <2>1, <2>2, OthersStill, StillMoves
  <2>3. CASE n = m
    BY <2>1, <2>3, ServeMoves
  <2> QED
    BY <2>2, <2>3
<1>2. CASE Dies
  BY <1>2, DeathMoves
<1>3. CASE \E c \in Clients : Acts(c)
  BY <1>3, ActMoves
<1>4. CASE StartServer \/ SrvCheckHeader \/ SrvSetTotal \/ LoseDb \/ UNCHANGED vars
  <2>1. UNCHANGED <<conn, agreed>>
    BY <1>4 DEF StartServer, SrvCheckHeader, SrvSetTotal, SrvHeader, LoseDb, vars
  <2> QED
    BY <2>1, StillMoves
<1> QED
  BY <1>1, <1>2, <1>3, <1>4, NextSplit

-----------------------------------------------------------------------------
\* What a thread's step leaves alone.
LEMMA ServeIs ==
  ASSUME IInv, NEW n \in Conns, Serves(n)
  PROVE  /\ UNCHANGED <<srv, attached, cap, total, opened, cli, last, kills, died>>
         /\ db' = db \/ BeginCall(n) \/ \E how \in Ends : EndCall(how) /\ db' = db
         /\ UNCHANGED rows \/ Revoke(n) \/ AgreeDb(n)
         /\ UNCHANGED nodes \/ ShmCopy(n)
         /\ UNCHANGED past \/ BeginCall(n) \/ (\E how \in Ends : EndCall(how)) \/ ShmScan(n)
<1>1. CASE RecvFails(n) \/ Send(n)
  BY <1>1 DEF RecvFails, Send, RestUnchanged, SysUnchanged
<1>2. CASE Recv(n)
  BY <1>2 DEF Recv, RestUnchanged, SysUnchanged
<1>3. CASE AgreeRefuse(n) \/ AgreeAccept(n)
  BY <1>3 DEF AgreeRefuse, AgreeAccept, RestUnchanged, SysUnchanged
<1>4. CASE ShmScan(n) \/ ShmCopy(n) \/ ShmBad(n)
  BY <1>4 DEF ShmScan, ShmCopy, ShmBad, RestUnchanged, SysUnchanged
<1>5. CASE ShmDone(n)
  BY <1>5 DEF ShmDone, RestUnchanged, SysUnchanged
<1>6. CASE AgreeDb(n)
  BY <1>6 DEF AgreeDb, RestUnchanged, SysUnchanged
<1>7. CASE Check(n)
  BY <1>7 DEF Check, RestUnchanged, SysUnchanged
<1>8. CASE Revoke(n)
  BY <1>8 DEF Revoke, RestUnchanged, SysUnchanged
<1>9. CASE View(n)
  BY <1>9 DEF View, RestUnchanged, SysUnchanged
<1> QED
  BY <1>1, <1>2, <1>3, <1>4, <1>5, <1>6, <1>7, <1>8, <1>9 DEF Serves, Answering, Recording

\* The histories and the rows only grow; the keys that were agreed stay.
LEMMA PastStays ==
  ASSUME IInv, [Next]_vars
  PROVE  past \subseteq past' /\ died \subseteq died' /\ kills' \in {kills, kills + 1}
<1>1. CASE \E n \in Conns : Serves(n)
  <2>1. PICK n \in Conns : Serves(n)
    BY <1>1
  <2>2. UNCHANGED past \/ BeginCall(n) \/ (\E how \in Ends : EndCall(how)) \/ ShmScan(n)
    BY <2>1, ServeIs
  <2>3. UNCHANGED <<died, kills>>
    BY <2>1, ServeIs
  <2> QED
    BY <2>2, <2>3 DEF BeginCall, EndCall, ShmScan, Overlap
<1>2. CASE Dies
  BY <1>2 DEF Dies, KillServer, ShmFaults, ReplyFaults, SendFaults, Die, ServerGone, Cut
<1>3. CASE \E c \in Clients : Acts(c)
  <2>1. PICK c \in Clients : Acts(c)
    BY <1>3
  <2>2. UNCHANGED died /\ (UNCHANGED past \/ LocalScan(c) \/ KillClient(c))
    BY <2>1, ActIs
  <2>3. kills' = kills \/ KillClient(c)
    BY <2>1 DEF Acts, Begin, Proceed, StartClient, CheckHeader, SetTotal, Quit, Choose, BeginRead,
       ReadLocal, NoLocalKey, ConnectFails, Connect, SendRequest, SendRequestFaults, ReceiveFails,
       ReceiveKey, Receive, LocalScan, LocalCopy, StoreKey, Begins, OnlyClient, SrvUnchanged
  <2> QED
    BY <2>2, <2>3 DEF LocalScan, KillClient, Overlap, Cut
<1>4. CASE StartServer \/ SrvCheckHeader \/ SrvSetTotal \/ LoseDb \/ UNCHANGED vars
  BY <1>4 DEF StartServer, SrvCheckHeader, SrvSetTotal, SrvHeader, LoseDb, vars
<1> QED
  BY <1>1, <1>2, <1>3, <1>4, NextSplit

LEMMA SparedBefore ==
  ASSUME IInv, [Next]_vars, NEW troubles, Spared(troubles)'
  PROVE  Spared(troubles)
  BY PastStays DEF Spared

RowsKept ==
  /\ DOMAIN rows' = DOMAIN rows
  /\ \A k \in DOMAIN rows : /\ rows'[k].n = rows[k].n /\ rows'[k].key = rows[k].key
                            /\ rows'[k].id = rows[k].id

LEMMA RowMoves ==
  ASSUME IInv, [Next]_vars
  PROVE  \/ RowsKept
         \/ \E n \in Conns : AgreeDb(n) /\ rows' = Append(rows, RowOf(n))
<1>1. CASE rows' = rows
  BY <1>1 DEF RowsKept
<1>2. CASE \E n \in Conns : Revoke(n)
  <2>1. PICK n \in Conns : Revoke(n)
    BY <1>2
  <2>2. rows' = rows \/ rows' = SetState(conn[n].req.arg, 1)
    BY <2>1 DEF Revoke
  <2> QED
    BY <1>1, <2>2, SetStateTyped DEF RowsKept
<1>3. CASE \E n \in Conns : AgreeDb(n)
  BY <1>1, <1>3 DEF AgreeDb
<1>4. CASE \E n \in Conns : Serves(n)
  BY <1>1, <1>2, <1>3, <1>4, ServeIs
<1>5. CASE Dies
  BY <1>1, <1>5 DEF Dies, KillServer, ShmFaults, ReplyFaults, SendFaults, Die
<1>6. CASE \E c \in Clients : Acts(c)
  BY <1>1, <1>6, ActIs
<1>7. CASE StartServer \/ SrvCheckHeader \/ SrvSetTotal \/ LoseDb \/ UNCHANGED vars
  BY <1>1, <1>7 DEF StartServer, SrvCheckHeader, SrvSetTotal, SrvHeader, LoseDb, vars
<1> QED
  BY <1>4, <1>5, <1>6, <1>7, NextSplit

HasRow(n) == \E k \in DOMAIN rows : rows[k].n = n
HasKey(id, key) == \E k \in DOMAIN rows : rows[k].id = id /\ rows[k].key = key

LEMMA RowsGrow ==
  ASSUME IInv, [Next]_vars
  PROVE  /\ \A n : HasRow(n) => HasRow(n)'
         /\ \A id, key : HasKey(id, key) => HasKey(id, key)'
<1>1. CASE RowsKept
  BY <1>1 DEF RowsKept, HasRow, HasKey
<1>2. CASE \E n \in Conns : rows' = Append(rows, RowOf(n))
  <2>1. PICK n \in Conns : rows' = Append(rows, RowOf(n))
    BY <1>2
  <2>2. rows \in Seq(RowRec)
    BY DEF IInv, StoresOK
  <2>3. \A k \in DOMAIN rows : k \in DOMAIN rows' /\ rows'[k] = rows[k]
    <3> DEFINE r == RowOf(n)
    <3> HIDE DEF r
    <3>1. rows' = Append(rows, r)
      BY <2>1 DEF r
    <3>2. rows \in Seq(RowRec \cup {r})
      BY <2>2
    <3> QED
      BY <3>1, <3>2
  <2> QED
    BY <2>3 DEF HasRow, HasKey
<1> QED
  BY <1>1, <1>2, RowMoves

LEMMA KeysStay ==
  ASSUME IInv, [Next]_vars, NEW n \in Conns, agreed[n] \in Key
  PROVE  agreed'[n] = agreed[n]
<1>1. conn[n].pc # "ask"
  BY ConnTyped, NoneIsNoKey DEF Fine
<1> QED
  BY <1>1, ConnMoves DEF Moves

-----------------------------------------------------------------------------
\* What a step may do to a client.
CliMoves(c) ==
  /\ InOperation(c)' => \/ InOperation(c) /\ cli'[c].n = cli[c].n /\ cli'[c].req = cli[c].req
                        \/ Connect(c) /\ cli'[c].n = opened + 1 /\ cli'[c].req = cli[c].req
  /\ cli'[c].st = "store" =>
       /\ InOperation(c) /\ cli'[c].n = cli[c].n
       /\ \/ ReceiveKey(c) /\ cli[c].wr = None
          \/ cli[c].st = "store" /\ cli'[c].key = cli[c].key /\ cli'[c].kid = cli[c].kid
  /\ last'[c] = last[c] \/ last'[c] = None
     \/ (StoreKey(c) /\ last'[c] = Outcome("agree", 0, cli[c].key, cli[c].n))
     \/ Receive(c)
  /\ cli'[c].wr = cli[c].wr \/ LocalScan(c) \/ LocalCopy(c)
     \/ (cli'[c].wr = None /\ (StoreKey(c) \/ KillClient(c)))

LEMMA WrOfClient ==
  ASSUME IInv, NEW c \in Clients
  PROVE  /\ cli \in [Clients -> CliRec] /\ cli[c] \in CliRec
         /\ last \in [Clients -> Last \cup {None}]
         /\ cli[c].st # "store" => cli[c].wr = None
  BY DEF IInv, TypeOK, CliOK

\* Outside an operation nothing is to be said.
LEMMA IdleMoves ==
  ASSUME NEW c \in Clients, cli'[c].st \in {"down", "check", "set", "menu", "read", "ready"},
         cli'[c].wr = None,
         cli[c].wr = None \/ StoreKey(c) \/ KillClient(c),
         last'[c] = last[c] \/ last'[c] = None
         \/ (StoreKey(c) /\ last'[c] = Outcome("agree", 0, cli[c].key, cli[c].n)) \/ Receive(c)
  PROVE  CliMoves(c)
  BY DEF CliMoves, InOperation

LEMMA StayMoves ==
  ASSUME NEW c \in Clients, cli'[c] = cli[c], last'[c] = last[c]
  PROVE  CliMoves(c)
  BY DEF CliMoves, InOperation

LEMMA OwnMoves ==
  ASSUME IInv, NEW c \in Clients, Acts(c)
  PROVE  CliMoves(c)
<1>1. /\ cli \in [Clients -> CliRec] /\ cli[c] \in CliRec
      /\ last \in [Clients -> Last \cup {None}]
      /\ cli[c].st # "store" => cli[c].wr = None
  BY WrOfClient
<1>2. \A st : [cli[c] EXCEPT !.st = st].st = st /\ [cli[c] EXCEPT !.st = st].wr = cli[c].wr
              /\ [cli[c] EXCEPT !.st = st].n = cli[c].n /\ [cli[c] EXCEPT !.st = st].req = cli[c].req
  BY <1>1 DEF CliRec
<1>3. CASE StartClient(c) \/ CheckHeader(c) \/ SetTotal(c)
  <2>1. PICK st \in {"check", "set", "menu"} : cli' = [cli EXCEPT ![c].st = st]
    BY <1>3 DEF StartClient, CheckHeader, SetTotal, Goto
  <2>2. cli[c].st # "store" /\ last' = last
    BY <1>3 DEF StartClient, CheckHeader, SetTotal, At
  <2>3. cli'[c].st = st /\ cli'[c].wr = None
    BY <1>1, <1>2, <2>1, <2>2
  <2> QED
    BY <1>1, <2>2, <2>3, IdleMoves
<1>4. CASE (Finish(c, None) \/ Exit(c)) /\ (cli[c].st # "store" \/ KillClient(c))
  BY <1>1, <1>4, IdleTyped, IdleMoves DEF Finish, Exit
<1>5. CASE \E p : Begins(c, p) /\ p.st \in {"read", "ready"} /\ p.wr = None /\ cli[c].st # "store"
  <2>1. PICK p : Begins(c, p) /\ p.st \in {"read", "ready"} /\ p.wr = None
    BY <1>5
  <2>2. cli'[c] = p /\ last'[c] = None
    BY <1>1, <2>1 DEF Begins
  <2> QED
    BY <1>1, <1>5, <2>1, <2>2, IdleMoves
<1>6. CASE Choose(c) \/ BeginRead(c) \/ ReadLocal(c)
  <2>1. \A q, kid, key : Ready(q, kid, key).st = "ready" /\ Ready(q, kid, key).wr = None
    <3> DEFINE m == Menu
    <3>1. m \in [st : {"menu"}, n : {0}, req : {None}, key : {None}, kid : {None},
                 free : {{}}, wr : {None}]
      BY DEF Menu, Down
    <3>2. \A q, kid, key :
            Ready(q, kid, key) = [m EXCEPT !.st = "ready", !.req = q, !.kid = kid, !.key = key]
      BY DEF Ready
    <3> HIDE DEF m
    <3> QED
      BY <3>1, <3>2
  <2>2. cli[c].st # "store"
    BY <1>6 DEF Choose, BeginRead, ReadLocal, At
  <2>3. CASE Choose(c)
    BY <2>1, <2>2, <2>3, <1>5 DEF Choose
  <2>4. CASE ReadLocal(c)
    <3>1. \E q, kid, key : Begins(c, Ready(q, kid, key))
      BY <2>4 DEF ReadLocal
    <3> QED
      BY <2>1, <2>2, <3>1, <1>5
  <2>5. CASE BeginRead(c)
    <3> DEFINE p == [Menu EXCEPT !.st = "read", !.free = {i \in Slots : ~Used(i)}]
    <3>1. Begins(c, p)
      BY <2>5 DEF BeginRead
    <3>2. p.st = "read" /\ p.wr = None
      BY IdleTyped DEF CliRec
    <3> HIDE DEF p
    <3> QED
      BY <2>2, <3>1, <3>2, <1>5
  <2> QED
    BY <1>6, <2>3, <2>4, <2>5
<1>7. CASE Quit(c) \/ NoLocalKey(c) \/ ConnectFails(c) \/ SendRequestFaults(c) \/ ReceiveFails(c)
  <2>1. Finish(c, None) \/ Exit(c)
    BY <1>7 DEF Quit, NoLocalKey, ConnectFails, SendRequestFaults, ReceiveFails, Fails
  <2>2. cli[c].st # "store"
    BY <1>7 DEF Quit, NoLocalKey, ConnectFails, SendRequestFaults, ReceiveFails, At
  <2> QED
    BY <2>1, <2>2, <1>4
<1>8. CASE KillClient(c)
  BY <1>4, <1>8 DEF KillClient
<1>9. CASE Connect(c)
  <2>1. cli' = [cli EXCEPT ![c].st = "connected", ![c].n = opened + 1] /\ last' = last
    BY <1>9 DEF Connect
  <2> DEFINE p == [cli[c] EXCEPT !.st = "connected", !.n = opened + 1]
  <2>2. p.st = "connected" /\ p.n = opened + 1 /\ p.wr = cli[c].wr /\ p.req = cli[c].req
    BY <1>1 DEF CliRec
  <2>3. cli'[c] = p
    BY <1>1, <2>1
  <2> HIDE DEF p
  <2> QED
    BY <1>9, <2>1, <2>2, <2>3 DEF CliMoves, InOperation
<1>10. CASE SendRequest(c)
  <2>1. cli' = [cli EXCEPT ![c].st = "waiting"] /\ last' = last /\ cli[c].st = "connected"
    BY <1>10 DEF SendRequest, Goto, At
  <2>2. cli'[c] = [cli[c] EXCEPT !.st = "waiting"]
    BY <1>1, <2>1
  <2> QED
    BY <1>2, <2>1, <2>2 DEF CliMoves, InOperation
<1>11. CASE ReceiveKey(c)
  <2>1. /\ cli[c].st = "waiting" /\ last' = last
        /\ \E kid, key : cli' = [cli EXCEPT ![c].st = "store", ![c].kid = kid, ![c].key = key]
    BY <1>11 DEF ReceiveKey, At
  <2>2. PICK kid, key : cli' = [cli EXCEPT ![c].st = "store", ![c].kid = kid, ![c].key = key]
    BY <2>1
  <2> DEFINE p == [cli[c] EXCEPT !.st = "store", !.kid = kid, !.key = key]
  <2>3. p.st = "store" /\ p.n = cli[c].n /\ p.req = cli[c].req /\ p.wr = cli[c].wr
    BY <1>1 DEF CliRec
  <2>4. cli'[c] = p
    BY <1>1, <2>2
  <2> HIDE DEF p
  <2> QED
    BY <1>1, <1>11, <2>1, <2>3, <2>4 DEF CliMoves, InOperation
<1>12. CASE Receive(c)
  <2>1. cli'[c] = Menu /\ cli[c].st = "waiting"
    BY <1>1, <1>12 DEF Receive, Finish, At
  <2> QED
    BY <1>1, <1>12, <2>1, IdleTyped, IdleMoves
<1>13. CASE StoreKey(c)
  <2>1. cli'[c] = Menu /\ last'[c] = Outcome("agree", 0, cli[c].key, cli[c].n)
    BY <1>1, <1>13 DEF StoreKey, Finish
  <2> QED
    BY <1>13, <2>1, IdleTyped, IdleMoves
<1>14. CASE LocalScan(c) \/ LocalCopy(c)
  <2>1. last' = last /\ \E w : cli' = [cli EXCEPT ![c].wr = w]
    BY <1>14 DEF LocalScan, LocalCopy
  <2>2. PICK w : cli' = [cli EXCEPT ![c].wr = w]
    BY <2>1
  <2>3. cli[c].st = "store"
    BY <1>1, <1>14 DEF LocalScan, LocalCopy, At, Copies
  <2> DEFINE p == [cli[c] EXCEPT !.wr = w]
  <2>4. /\ p.st = cli[c].st /\ p.n = cli[c].n /\ p.req = cli[c].req /\ p.key = cli[c].key
        /\ p.kid = cli[c].kid
    BY <1>1 DEF CliRec
  <2>5. cli'[c] = p
    BY <1>1, <2>2
  <2> HIDE DEF p
  <2> QED
    BY <1>14, <2>1, <2>3, <2>4, <2>5 DEF CliMoves, InOperation
<1> QED
  BY <1>3, <1>6, <1>7, <1>8, <1>9, <1>10, <1>11, <1>12, <1>13, <1>14 DEF Acts, Begin, Proceed

LEMMA OtherClients ==
  ASSUME IInv, NEW d \in Clients, Acts(d), NEW c \in Clients, c # d
  PROVE  cli'[c] = cli[c] /\ last'[c] = last[c]
<1>1. cli \in [Clients -> CliRec] /\ last \in [Clients -> Last \cup {None}]
  BY WrOfClient
<1>2. (\E p : cli' = [cli EXCEPT ![d] = p]) /\ (last' = last \/ \E l : last' = [last EXCEPT ![d] = l])
  <2>1. CASE StartClient(d) \/ CheckHeader(d) \/ SetTotal(d) \/ SendRequest(d)
    <3>1. last' = last /\ \E st : cli' = [cli EXCEPT ![d].st = st]
      BY <2>1 DEF StartClient, CheckHeader, SetTotal, SendRequest, Goto
    <3> QED
      BY <1>1, <3>1
  <2>2. CASE Quit(d) \/ NoLocalKey(d) \/ ConnectFails(d) \/ SendRequestFaults(d) \/ ReceiveFails(d)
             \/ KillClient(d) \/ Receive(d) \/ StoreKey(d)
    <3>1. Exit(d) \/ \E o : Finish(d, o)
      BY <2>2 DEF Quit, NoLocalKey, ConnectFails, SendRequestFaults, ReceiveFails, KillClient, Receive,
                  StoreKey, Fails
    <3> QED
      BY <3>1 DEF Exit, Finish
  <2>3. CASE Choose(d) \/ BeginRead(d) \/ ReadLocal(d)
    <3>1. \E p : Begins(d, p)
      BY <2>3 DEF Choose, BeginRead, ReadLocal
    <3> QED
      BY <3>1 DEF Begins
  <2>4. CASE Connect(d)
    BY <1>1, <2>4 DEF Connect
  <2>5. CASE ReceiveKey(d)
    BY <1>1, <2>5 DEF ReceiveKey
  <2>6. CASE LocalScan(d) \/ LocalCopy(d)
    <3>1. last' = last /\ \E w : cli' = [cli EXCEPT ![d].wr = w]
      BY <2>6 DEF LocalScan, LocalCopy
    <3> QED
      BY <1>1, <3>1
  <2> QED
    BY <2>1, <2>2, <2>3, <2>4, <2>5, <2>6 DEF Acts, Begin, Proceed
<1> QED
  BY <1>1, <1>2

LEMMA ServerLeavesClients ==
  ASSUME IInv, [Next]_vars, ~ \E c \in Clients : Acts(c)
  PROVE  UNCHANGED <<cli, last>>
<1>1. CASE \E n \in Conns : Serves(n)
  BY <1>1, ServeIs
<1>2. CASE Dies
  BY <1>2 DEF Dies, KillServer, ShmFaults, ReplyFaults, SendFaults, Die
<1>3. CASE StartServer \/ SrvCheckHeader \/ SrvSetTotal \/ LoseDb \/ UNCHANGED vars
  BY <1>3 DEF StartServer, SrvCheckHeader, SrvSetTotal, SrvHeader, LoseDb, vars
<1> QED
  BY <1>1, <1>2, <1>3, NextSplit

LEMMA ClientMoves ==
  ASSUME IInv, [Next]_vars, NEW c \in Clients
  PROVE  CliMoves(c) /\ (Acts(c) \/ (cli'[c] = cli[c] /\ last'[c] = last[c]))
<1>1. CASE Acts(c)
  BY <1>1, OwnMoves
<1>2. CASE \E d \in Clients : Acts(d) /\ d # c
  BY <1>2, OtherClients, StayMoves
<1>3. CASE ~ \E d \in Clients : Acts(d)
  BY <1>3, ServerLeavesClients, StayMoves
<1> QED
  BY <1>1, <1>2, <1>3

-----------------------------------------------------------------------------
(* The database, and what is told from it.                                 *)

\* A connection that was answered is closed, and one where the client stores
\* its key was answered.
EndsOK ==
  /\ \A n \in Conns : conn[n].sent => conn[n].pc = "closed"
  /\ \A c \in Clients : cli[c].st = "store" => conn[cli[c].n].pc = "closed"

LEMMA ClosedStays ==
  ASSUME IInv, [Next]_vars, NEW n \in Conns, conn[n].pc = "closed"
  PROVE  conn'[n].pc = "closed"
  BY ConnMoves DEF Moves, PcMoves

LEMMA InitEnds == Init => EndsOK
  BY DEF Init, EndsOK, Unused, Down

LEMMA EndsStep == IInv /\ EndsOK /\ [Next]_vars => EndsOK'
<1> SUFFICES ASSUME IInv, EndsOK, [Next]_vars PROVE EndsOK'
  OBVIOUS
<1>1. ASSUME NEW n \in Conns, conn'[n].sent PROVE conn'[n].pc = "closed"
  BY <1>1, ConnMoves, ClosedStays DEF Moves, EndsOK
<1>2. ASSUME NEW c \in Clients, cli'[c].st = "store" PROVE conn'[cli'[c].n].pc = "closed"
  <2>1. InOperation(c) /\ cli'[c].n = cli[c].n /\ (ReceiveKey(c) \/ cli[c].st = "store")
    BY <1>2, ClientMoves DEF CliMoves
  <2>2. cli[c].n \in Conns
    BY <2>1, ConnOfClient
  <2>3. conn[cli[c].n].pc = "closed"
    BY <2>1, <2>2 DEF ReceiveKey, EndsOK
  <2> QED
    BY <2>1, <2>2, <2>3, ClosedStays
<1> QED
  BY <1>1, <1>2 DEF EndsOK

\* A session that is mixed was mixed by calls that overlapped.
MixedOK == db = "mixed" => "dbOverlap" \in past

LEMMA MixedStep == IInv /\ MixedOK /\ [Next]_vars => MixedOK'
<1> SUFFICES ASSUME IInv, MixedOK, [Next]_vars PROVE MixedOK'
  OBVIOUS
<1>1. CASE \E n \in Conns : Serves(n)
  <2>1. PICK n \in Conns : Serves(n)
    BY <1>1
  <2>2. CASE BeginCall(n)
    BY <2>2 DEF BeginCall, MixedOK
  <2>3. CASE db' = db
    BY <2>3, PastStays DEF MixedOK
  <2> QED
    BY <2>1, <2>2, <2>3, ServeIs
<1>2. CASE Dies
  BY <1>2 DEF Dies, KillServer, ShmFaults, ReplyFaults, SendFaults, Die, ServerGone, MixedOK
<1>3. CASE \E c \in Clients : Acts(c)
  BY <1>3, ActIs, PastStays DEF MixedOK
<1>4. CASE StartServer \/ SrvCheckHeader \/ SrvSetTotal \/ LoseDb \/ UNCHANGED vars
  BY <1>4 DEF StartServer, SrvCheckHeader, SrvSetTotal, SrvHeader, LoseDb, vars, MixedOK
<1> QED
  BY <1>1, <1>2, <1>3, <1>4, NextSplit

\* Calls that end while none overlapped have their own answer or an error.
LEMMA OwnAnswer ==
  ASSUME MixedOK, NEW how \in Ends, EndCall(how)
  PROVE  /\ Spared({"dbOverlap"})' => how \in {"own", "error"}
         /\ Spared({"dbFailed", "dbOverlap"})' => how = "own"
  BY DEF EndCall, Ends, Spared, MixedOK

\* An agreement whose success is on its way to the client, or there.
Granted(n) == Replied(n) /\ conn[n].req.cmd = "agree" /\ conn[n].rsp.rv = 0

\* As long as no statement failed and no calls overlapped, a success has its row.
StoredOK ==
  Spared({"dbFailed", "dbOverlap"}) =>
    /\ \A n \in Conns : Granted(n) => HasRow(n)
    /\ \A c \in Clients : cli[c].st = "store" => HasRow(cli[c].n)
    /\ \A c \in Clients : Answers(c, "agree", 0) => HasRow(last[c].n)

\* The row of an agreement that ends without an error is there.
LEMMA RowAdded ==
  ASSUME IInv, MixedOK, NEW n \in Conns, AgreeDb(n), Spared({"dbFailed", "dbOverlap"})'
  PROVE  HasRow(n)'
<1>1. PICK how \in Ends : EndCall(how) /\ \E e \in Effect(how) :
        rows' = IF e THEN Append(rows, RowOf(n)) ELSE rows
  BY DEF AgreeDb
<1>2. how = "own"
  BY <1>1, OwnAnswer
<1>3. rows' = Append(rows, RowOf(n))
  BY <1>1, <1>2 DEF Effect
<1> DEFINE r == RowOf(n)
<1>4. r.n = n
  BY DEF RowOf
<1>5. rows' = Append(rows, r) /\ rows \in Seq(RowRec)
  BY <1>3 DEF IInv, StoresOK
<1> HIDE DEF r
<1>6. rows \in Seq(RowRec \cup {r})
  BY <1>5
<1>7. Len(rows) + 1 \in DOMAIN rows' /\ rows'[Len(rows) + 1] = r
  BY <1>5, <1>6
<1> QED
  BY <1>4, <1>7 DEF HasRow

LEMMA GrantMoves ==
  ASSUME IInv, [Next]_vars, NEW n \in Conns, Granted(n)'
  PROVE  Granted(n) \/ AgreeDb(n)
<1>1. Moves(n)
  BY ConnMoves
<1>2. CASE Answering(n) /\ conn'[n].req = conn[n].req
  BY <1>2, AnswerIs DEF Granted
<1> QED
  BY <1>1, <1>2 DEF Moves, Granted

\* A client told of success takes the key of an agreement that was granted.
LEMMA KeyIsGranted ==
  ASSUME IInv, NEW c \in Clients, ReceiveKey(c)
  PROVE  Granted(cli[c].n) /\ cli[c].n \in Conns
<1>1. /\ cli[c].st = "waiting" /\ conn[cli[c].n].sent /\ cli[c].req.cmd = "agree"
      /\ conn[cli[c].n].rsp.rv # -1
  BY DEF ReceiveKey, At
<1>2. conn[cli[c].n].rsp \in Answered /\ conn[cli[c].n].req = cli[c].req
  BY <1>1, Told
<1>3. cli[c].n \in Conns
  BY <1>1, ConnOfClient DEF InOperation
<1> QED
  BY <1>1, <1>2, <1>3 DEF Granted, Replied, Answered

\* The outcome a reply other than the success of an agreement ends with.
LEMMA ReceiveIs ==
  ASSUME IInv, NEW c \in Clients, Receive(c)
  PROVE  /\ cli[c].st = "waiting" /\ conn[cli[c].n].sent /\ cli[c].n \in Conns
         /\ last'[c].cmd = cli[c].req.cmd /\ last'[c].rv = conn[cli[c].n].rsp.rv
         /\ cli[c].req.cmd = "agree" => last'[c].rv = -1
         /\ cli[c].req.cmd = "view" => last'[c].key = conn[cli[c].n].rsp.r2
         /\ cli[c].req.cmd # "view" => last'[c].key = cli[c].key
         /\ conn[cli[c].n].req = cli[c].req
<1>1. cli[c].st = "waiting" /\ conn[cli[c].n].sent /\ (cli[c].req.cmd = "agree" => conn[cli[c].n].rsp.rv = -1)
  BY DEF Receive, At
<1>2. last'[c] = Outcome(cli[c].req.cmd, conn[cli[c].n].rsp.rv,
        IF cli[c].req.cmd = "view" THEN conn[cli[c].n].rsp.r2 ELSE cli[c].key, cli[c].n)
  BY WrOfClient DEF Receive, Finish
<1>3. conn[cli[c].n].req = cli[c].req
  BY <1>1, Told
<1>4. cli[c].n \in Conns
  BY <1>1, ConnOfClient DEF InOperation
<1> QED
  BY <1>1, <1>2, <1>3, <1>4 DEF Outcome

\* A client that is told of the success of an agreement has stored its key.
LEMMA SuccessMoves ==
  ASSUME IInv, [Next]_vars, NEW c \in Clients, Answers(c, "agree", 0)'
  PROVE  \/ last'[c] = last[c] /\ Answers(c, "agree", 0)
         \/ StoreKey(c) /\ last'[c].n = cli[c].n /\ last'[c].key = cli[c].key
<1>1. CASE last'[c] = last[c]
  BY <1>1 DEF Answers
<1>2. CASE Receive(c)
  BY <1>2, ReceiveIs DEF Answers
<1>3. CASE StoreKey(c) /\ last'[c] = Outcome("agree", 0, cli[c].key, cli[c].n)
  BY <1>3 DEF Outcome
<1> QED
  BY <1>1, <1>2, <1>3, ClientMoves DEF CliMoves, Answers

LEMMA InitStored == Init => MixedOK /\ StoredOK
  BY DEF Init, MixedOK, StoredOK, Granted, Replied, Unused, Down, Answers

LEMMA StoredStep == IInv /\ MixedOK /\ StoredOK /\ [Next]_vars => StoredOK'
<1> SUFFICES ASSUME IInv, MixedOK, StoredOK, [Next]_vars, Spared({"dbFailed", "dbOverlap"})'
             PROVE  /\ \A n \in Conns : Granted(n)' => HasRow(n)'
                    /\ \A c \in Clients : cli'[c].st = "store" => HasRow(cli[c].n)'
                    /\ \A c \in Clients : Answers(c, "agree", 0)' => HasRow(last[c].n)'
  BY DEF StoredOK
<1>1. Spared({"dbFailed", "dbOverlap"})
  BY SparedBefore
<1>2. ASSUME NEW n \in Conns, Granted(n)' PROVE HasRow(n)'
  BY <1>1, <1>2, GrantMoves, RowAdded, RowsGrow DEF StoredOK
<1>3. ASSUME NEW c \in Clients, cli'[c].st = "store" PROVE HasRow(cli[c].n)'
  <2>1. cli'[c].n = cli[c].n /\ (ReceiveKey(c) \/ cli[c].st = "store")
    BY <1>3, ClientMoves DEF CliMoves
  <2>2. HasRow(cli[c].n)
    BY <1>1, <2>1, KeyIsGranted DEF StoredOK
  <2>3. PICK m : m = cli[c].n
    OBVIOUS
  <2>4. HasRow(m)'
    BY <2>2, <2>3, RowsGrow
  <2> QED
    BY <2>1, <2>3, <2>4 DEF HasRow
<1>4. ASSUME NEW c \in Clients, Answers(c, "agree", 0)' PROVE HasRow(last[c].n)'
  <2>1. PICK m : m = last'[c].n
    OBVIOUS
  <2>2. HasRow(m)
    <3>1. CASE last'[c] = last[c] /\ Answers(c, "agree", 0)
      BY <1>1, <2>1, <3>1 DEF StoredOK
    <3>2. CASE StoreKey(c) /\ last'[c].n = cli[c].n
      BY <1>1, <2>1, <3>2 DEF StoredOK, StoreKey, At
    <3> QED
      BY <1>4, <3>1, <3>2, SuccessMoves
  <2>3. HasRow(m)'
    BY <2>2, RowsGrow
  <2> QED
    BY <2>1, <2>3 DEF HasRow
<1> QED
  BY <1>2, <1>3, <1>4

\* A client told of the success of its agreement has its row, whatever was
\* killed, as long as no statement failed and no two threads were in calls of the
\* database at once (ServerOperation.cpp:160-173).
THEOREM SuccessIsStored == Spec => []AgreedIsStored
<1> DEFINE J == IInv /\ MixedOK /\ StoredOK
<1>1. Init => J
  BY InitInv, InitStored
<1>2. J /\ [Next]_vars => J'
  BY StepInv, MixedStep, StoredStep
<1>3. J => AgreedIsStored
  <2> SUFFICES ASSUME J, Spared({"dbFailed", "dbOverlap"}), NEW c \in Clients, Answers(c, "agree", 0)
               PROVE  \E k \in DOMAIN rows : rows[k].n = last[c].n /\ rows[k].key = last[c].key
    BY DEF AgreedIsStored
  <2>1. PICK k \in DOMAIN rows : rows[k].n = last[c].n
    BY DEF StoredOK, HasRow
  <2>2. rows[k].key = agreed[last[c].n] /\ last[c].key = agreed[last[c].n]
    BY <2>1 DEF IInv, StoresOK, AnswerOK, Answers
  <2> QED
    BY <2>1, <2>2
<1> QED
  BY <1>1, <1>2, <1>3, PTL DEF Spec

-----------------------------------------------------------------------------
\* What a client asks is about its own id, and a check about the key at hand.
AsksOK ==
  \A c \in Clients : InOperation(c) \/ cli[c].st = "ready" =>
    /\ cli[c].req.id = IdOf[c]
    /\ cli[c].req.cmd = "check" => cli[c].req.auth = cli[c].key

LEMMA AsksStep == IInv /\ AsksOK /\ [Next]_vars => AsksOK'
<1> SUFFICES ASSUME IInv, AsksOK, [Next]_vars, NEW c \in Clients,
                    InOperation(c)' \/ cli'[c].st = "ready"
             PROVE  cli'[c].req.id = IdOf[c]
                    /\ (cli'[c].req.cmd = "check" => cli'[c].req.auth = cli'[c].key)
  BY DEF AsksOK
<1>1. cli \in [Clients -> CliRec] /\ cli[c] \in CliRec
  BY WrOfClient
<1>2. CASE cli'[c] = cli[c]
  BY <1>2 DEF AsksOK, InOperation
<1>3. CASE Choose(c)
  <2>1. PICK q \in {Request("agree", IdOf[c], r1, Hmac(r1)) : r1 \in Nonces}
                   \cup {Request("view", IdOf[c], None, None)} : Begins(c, Ready(q, None, None))
    BY <1>3 DEF Choose
  <2>2. cli'[c] = Ready(q, None, None) /\ q.id = IdOf[c] /\ q.cmd # "check"
    BY <1>1, <2>1 DEF Begins, Request
  <2>3. Ready(q, None, None).req = q
    BY DEF Ready, Menu, Down
  <2> QED
    BY <2>2, <2>3
<1>4. CASE ReadLocal(c)
  <2>1. PICK i \in Found(c), cmd \in {"check", "revoke"} :
          LET k == nodes[i]
              q == IF cmd = "check" THEN Request("check", IdOf[c], None, k.key)
                                    ELSE Request("revoke", IdOf[c], k.head.kid, None)
          IN Begins(c, Ready(q, k.head.kid, k.key))
    BY <1>4 DEF ReadLocal
  <2>2. PICK q, kid, key : /\ Begins(c, Ready(q, kid, key)) /\ q.id = IdOf[c]
                           /\ q.cmd = "check" => q.auth = key
    <3>1. CASE cmd = "check"
      <4>1. Request("check", IdOf[c], None, nodes[i].key).id = IdOf[c]
            /\ Request("check", IdOf[c], None, nodes[i].key).auth = nodes[i].key
        BY DEF Request
      <4> QED
        BY <2>1, <3>1, <4>1
    <3>2. CASE cmd = "revoke"
      <4>1. Request("revoke", IdOf[c], nodes[i].head.kid, None).id = IdOf[c]
            /\ Request("revoke", IdOf[c], nodes[i].head.kid, None).cmd = "revoke"
        BY DEF Request
      <4> QED
        BY <2>1, <3>2, <4>1
    <3> QED
      BY <3>1, <3>2
  <2>3. cli'[c] = Ready(q, kid, key)
    BY <1>1, <2>2 DEF Begins
  <2>4. Ready(q, kid, key).req = q /\ Ready(q, kid, key).key = key
    <3> DEFINE m == Menu
    <3>1. m \in [st : {"menu"}, n : {0}, req : {None}, key : {None}, kid : {None},
                 free : {{}}, wr : {None}]
      BY DEF Menu, Down
    <3>2. Ready(q, kid, key) = [m EXCEPT !.st = "ready", !.req = q, !.kid = kid, !.key = key]
      BY DEF Ready
    <3> HIDE DEF m
    <3> QED
      BY <3>1, <3>2
  <2> QED
    BY <2>2, <2>3, <2>4
<1>5. CASE Connect(c)
  <2>1. cli' = [cli EXCEPT ![c].st = "connected", ![c].n = opened + 1] /\ cli[c].st = "ready"
    BY <1>5 DEF Connect, At
  <2> DEFINE p == [cli[c] EXCEPT !.st = "connected", !.n = opened + 1]
  <2>2. p.req = cli[c].req /\ p.key = cli[c].key
    BY <1>1 DEF CliRec
  <2>3. cli'[c] = p
    BY <1>1, <2>1
  <2> HIDE DEF p
  <2> QED
    BY <2>1, <2>2, <2>3 DEF AsksOK
<1>6. CASE SendRequest(c)
  <2>1. cli' = [cli EXCEPT ![c].st = "waiting"] /\ cli[c].st = "connected"
    BY <1>6 DEF SendRequest, Goto, At
  <2>2. cli'[c].req = cli[c].req /\ cli'[c].key = cli[c].key
    BY <1>1, <2>1 DEF CliRec
  <2> QED
    BY <2>1, <2>2 DEF AsksOK, InOperation
<1>7. CASE ReceiveKey(c) \/ LocalScan(c) \/ LocalCopy(c)
  <2>1. CASE ReceiveKey(c)
    <3>1. cli[c].req.cmd = "agree" /\ cli[c].st = "waiting"
      BY <2>1 DEF ReceiveKey, At
    <3>2. InOperation(c)'
      BY <1>1, <2>1 DEF ReceiveKey, InOperation, CliRec
    <3>3. cli'[c].req = cli[c].req
      BY <2>1, <3>1, <3>2, ClientMoves DEF CliMoves, Connect, At
    <3> QED
      BY <3>1, <3>3 DEF AsksOK, InOperation
  <2>2. CASE LocalScan(c) \/ LocalCopy(c)
    <3>1. cli[c].st = "store"
      BY <2>2, WrOfClient DEF LocalScan, LocalCopy, At, Copies
    <3>2. \E w : cli' = [cli EXCEPT ![c].wr = w]
      BY <2>2 DEF LocalScan, LocalCopy
    <3>3. cli'[c].req = cli[c].req /\ cli'[c].key = cli[c].key
      BY <1>1, <3>2 DEF CliRec
    <3> QED
      BY <3>1, <3>3 DEF AsksOK, InOperation
  <2> QED
    BY <1>7, <2>1, <2>2
<1>8. CASE cli'[c].st \notin {"ready", "connected", "waiting", "store"}
  BY <1>8 DEF InOperation
<1>9. Acts(c) /\ ~(Choose(c) \/ ReadLocal(c) \/ Connect(c) \/ SendRequest(c) \/ ReceiveKey(c)
                   \/ LocalScan(c) \/ LocalCopy(c)) =>
        cli'[c].st \notin {"ready", "connected", "waiting", "store"}
  <2>1. CASE StartClient(c) \/ CheckHeader(c) \/ SetTotal(c)
    <3>1. \E st \in {"check", "set", "menu"} : cli' = [cli EXCEPT ![c].st = st]
      BY <2>1 DEF StartClient, CheckHeader, SetTotal, Goto
    <3> QED
      BY <1>1, <3>1 DEF CliRec
  <2>2. CASE Quit(c) \/ NoLocalKey(c) \/ ConnectFails(c) \/ SendRequestFaults(c) \/ ReceiveFails(c)
             \/ KillClient(c) \/ Receive(c) \/ StoreKey(c)
    <3>1. Exit(c) \/ \E o : Finish(c, o)
      BY <2>2 DEF Quit, NoLocalKey, ConnectFails, SendRequestFaults, ReceiveFails, KillClient, Receive,
                  StoreKey, Fails
    <3> QED
      BY <1>1, <3>1, IdleTyped DEF Exit, Finish
  <2>3. CASE BeginRead(c)
    <3> DEFINE p == [Menu EXCEPT !.st = "read", !.free = {i \in Slots : ~Used(i)}]
    <3>1. cli' = [cli EXCEPT ![c] = p]
      BY <2>3 DEF BeginRead, Begins
    <3>2. p.st = "read"
      BY IdleTyped DEF CliRec
    <3> HIDE DEF p
    <3> QED
      BY <1>1, <3>1, <3>2
  <2> QED
    BY <2>1, <2>2, <2>3 DEF Acts, Begin, Proceed
<1> QED
  BY <1>2, <1>3, <1>4, <1>5, <1>6, <1>7, <1>8, <1>9, ClientMoves

\* As long as no calls overlapped, what a check or a view is told is of a row of
\* the id that asked.
OwnOK ==
  Spared({"dbOverlap"}) =>
    /\ \A n \in Conns : Replied(n) /\ conn[n].rsp.rv = 0 =>
         /\ conn[n].req.cmd = "check" => HasKey(conn[n].req.id, conn[n].req.auth)
         /\ conn[n].req.cmd = "view" => HasKey(conn[n].req.id, conn[n].rsp.r2)
    /\ \A c \in Clients : Answers(c, "check", 0) \/ Answers(c, "view", 0) =>
         HasKey(IdOf[c], last[c].key)

LEMMA GetSecKeyIsOwn ==
  ASSUME IInv, NEW id, NEW how \in {"own", "error"}, NEW r \in GetSecKey(id, how), r.rv = 0
  PROVE  HasKey(id, r.r2)
<1>1. CASE how = "own" /\ Active(id) # {}
  <2>1. PICK k \in Latest(id) : r = Reply(0, rows[k].key, k)
    BY <1>1 DEF GetSecKey
  <2> QED
    BY <2>1 DEF Latest, Active, HasKey, Reply
<1>2. CASE ~(how = "own" /\ Active(id) # {})
  <2>1. r = Reply(-1, None, 0)
    BY <1>2 DEF GetSecKey
  <2> QED
    BY <2>1 DEF Reply
<1> QED
  BY <1>1, <1>2

\* An answer to a check or a view that is built while no calls overlapped.
LEMMA AnswerIsOwn ==
  ASSUME IInv, MixedOK, NEW n \in Conns, Answering(n), Spared({"dbOverlap"})', conn'[n].rsp.rv = 0
  PROVE  /\ conn[n].req.cmd = "check" => HasKey(conn[n].req.id, conn[n].req.auth)
         /\ conn[n].req.cmd = "view" => HasKey(conn[n].req.id, conn'[n].rsp.r2)
<1>1. conn \in [Conns -> ConnRec] /\ conn[n] \in ConnRec
  BY ConnTyped
<1>2. \A r : Answer(n, r) => conn'[n].rsp = r
  BY <1>1 DEF Answer, ConnRec
<1>3. CASE conn[n].req.cmd = "check"
  <2>1. Check(n)
    BY <1>3 DEF Answering, AgreeRefuse, Revoke, View, Has
  <2>2. PICK how \in Ends : EndCall(how) /\ \E r \in GetSecKey(conn[n].req.id, how) :
          IF r.rv = 0 /\ r.r2 = conn[n].req.auth THEN Answer(n, Reply(0, None, 0)) ELSE Refuse(n)
    BY <2>1 DEF Check
  <2>3. PICK r \in GetSecKey(conn[n].req.id, how) :
          IF r.rv = 0 /\ r.r2 = conn[n].req.auth THEN Answer(n, Reply(0, None, 0)) ELSE Refuse(n)
    BY <2>2
  <2>4. r.rv = 0 /\ r.r2 = conn[n].req.auth
    <3>1. Refuse(n) => conn'[n].rsp.rv = -1
      BY <1>2 DEF Refuse, Reply
    <3> QED
      BY <2>3, <3>1
  <2>5. how \in {"own", "error"}
    BY <2>2, OwnAnswer
  <2> QED
    BY <1>3, <2>4, <2>5, GetSecKeyIsOwn
<1>4. CASE conn[n].req.cmd = "view"
  <2>1. View(n)
    BY <1>4 DEF Answering, AgreeRefuse, Revoke, Check, Has
  <2>2. PICK how \in Ends : EndCall(how) /\ \E r \in GetSecKey(conn[n].req.id, how) : Answer(n, r)
    BY <2>1 DEF View
  <2>3. PICK r \in GetSecKey(conn[n].req.id, how) : Answer(n, r)
    BY <2>2
  <2>4. conn'[n].rsp = r
    BY <1>2, <2>3
  <2>5. how \in {"own", "error"}
    BY <2>2, OwnAnswer
  <2> QED
    BY <1>4, <2>4, <2>5, GetSecKeyIsOwn
<1> QED
  BY <1>3, <1>4

LEMMA OwnStep == IInv /\ AsksOK /\ MixedOK /\ OwnOK /\ [Next]_vars => OwnOK'
<1> SUFFICES ASSUME IInv, AsksOK, MixedOK, OwnOK, [Next]_vars, Spared({"dbOverlap"})'
             PROVE  /\ \A n \in Conns : Replied(n)' /\ conn'[n].rsp.rv = 0 =>
                         /\ conn'[n].req.cmd = "check" => HasKey(conn[n].req.id, conn[n].req.auth)'
                         /\ conn'[n].req.cmd = "view" => HasKey(conn[n].req.id, conn[n].rsp.r2)'
                    /\ \A c \in Clients : (Answers(c, "check", 0) \/ Answers(c, "view", 0))' =>
                         HasKey(IdOf[c], last[c].key)'
  BY DEF OwnOK
<1>1. Spared({"dbOverlap"})
  BY SparedBefore
<1>2. ASSUME NEW n \in Conns, Replied(n)', conn'[n].rsp.rv = 0
      PROVE  /\ conn'[n].req.cmd = "check" => HasKey(conn[n].req.id, conn[n].req.auth)'
             /\ conn'[n].req.cmd = "view" => HasKey(conn[n].req.id, conn[n].rsp.r2)'
  <2> PICK id, auth, r2 : id = conn'[n].req.id /\ auth = conn'[n].req.auth /\ r2 = conn'[n].rsp.r2
    OBVIOUS
  <2>1. /\ conn'[n].req.cmd = "check" => HasKey(id, auth)
        /\ conn'[n].req.cmd = "view" => HasKey(id, r2)
    <3>1. CASE Replied(n) /\ conn'[n].rsp = conn[n].rsp /\ conn'[n].req = conn[n].req
      BY <1>1, <1>2, <3>1 DEF OwnOK
    <3>2. CASE AgreeDb(n) /\ conn'[n].req = conn[n].req
      <4>1. conn[n].req.cmd = "agree"
        BY <3>2, Accepted DEF AgreeDb, Agreeing
      <4> QED
        BY <3>2, <4>1
    <3>3. CASE Answering(n) /\ conn'[n].req = conn[n].req
      BY <1>2, <3>3, AnswerIsOwn
    <3> QED
      BY <1>2, <3>1, <3>2, <3>3, ConnMoves DEF Moves
  <2>2. /\ conn'[n].req.cmd = "check" => HasKey(id, auth)'
        /\ conn'[n].req.cmd = "view" => HasKey(id, r2)'
    BY <2>1, RowsGrow
  <2> QED
    BY <2>2 DEF HasKey
<1>3. ASSUME NEW c \in Clients, (Answers(c, "check", 0) \/ Answers(c, "view", 0))'
      PROVE  HasKey(IdOf[c], last[c].key)'
  <2> PICK key : key = last'[c].key
    OBVIOUS
  <2>1. HasKey(IdOf[c], key)
    <3>1. CASE last'[c] = last[c]
      BY <1>1, <1>3, <3>1 DEF OwnOK, Answers
    <3>2. CASE Receive(c)
      <4>1. /\ cli[c].st = "waiting" /\ conn[cli[c].n].sent /\ cli[c].n \in Conns
            /\ last'[c].cmd = cli[c].req.cmd /\ last'[c].rv = conn[cli[c].n].rsp.rv
            /\ cli[c].req.cmd = "view" => last'[c].key = conn[cli[c].n].rsp.r2
            /\ cli[c].req.cmd # "view" => last'[c].key = cli[c].key
            /\ conn[cli[c].n].req = cli[c].req
        BY <3>2, ReceiveIs
      <4>2. cli[c].req.id = IdOf[c] /\ (cli[c].req.cmd = "check" => cli[c].req.auth = cli[c].key)
        BY <4>1 DEF AsksOK, InOperation
      <4>3. Replied(cli[c].n) /\ conn[cli[c].n].rsp.rv = 0 /\ cli[c].req.cmd \in {"check", "view"}
        BY <1>3, <4>1 DEF Replied, Answers
      <4> QED
        BY <1>1, <4>1, <4>2, <4>3 DEF OwnOK
    <3>3. CASE StoreKey(c) /\ last'[c] = Outcome("agree", 0, cli[c].key, cli[c].n)
      BY <1>3, <3>3 DEF Answers, Outcome
    <3> QED
      BY <1>3, <3>1, <3>2, <3>3, ClientMoves DEF CliMoves, Answers
  <2>2. HasKey(IdOf[c], key)'
    BY <2>1, RowsGrow
  <2> QED
    BY <2>2 DEF HasKey
<1> QED
  BY <1>2, <1>3

\* A check that passes and a view that shows a key are about a key the database
\* holds for the client's own id, whatever statements fail and whoever is killed, as
\* long as no two threads were in calls of the database at once (MysqlOP.cpp:80-111).
THEOREM TellsOwnKeys == Spec => []AnswersAreOwn
<1> DEFINE J == IInv /\ AsksOK /\ MixedOK /\ OwnOK
<1>1. Init => J
  BY InitInv DEF Init, AsksOK, InOperation, MixedOK, OwnOK, Replied, Unused, Down, Answers
<1>2. J /\ [Next]_vars => J'
  BY StepInv, AsksStep, MixedStep, OwnStep
<1>3. J => AnswersAreOwn
  BY DEF AnswersAreOwn, OwnOK, HasKey
<1> QED
  BY <1>1, <1>2, <1>3, PTL DEF Spec

-----------------------------------------------------------------------------
\* An agreement has one row at most, and none before its insert.
RowsOnce ==
  /\ \A k \in DOMAIN rows : conn[rows[k].n].pc \in {"reply", "closed"}
  /\ \A j, k \in DOMAIN rows : rows[j].n = rows[k].n => j = k

LEMMA RowsOnceStep == IInv /\ RowsOnce /\ [Next]_vars => RowsOnce'
<1> SUFFICES ASSUME IInv, RowsOnce, [Next]_vars PROVE RowsOnce'
  OBVIOUS
<1>1. \A n \in Conns : conn[n].pc \in {"reply", "closed"} => conn'[n].pc \in {"reply", "closed"}
  <2>1. ASSUME NEW n \in Conns, conn[n].pc \in {"reply", "closed"}
        PROVE  conn'[n].pc \in {"reply", "closed"}
    BY <2>1, ConnMoves DEF Moves, PcMoves
  <2> QED
    BY <2>1
<1>2. \A k \in DOMAIN rows : rows[k].n \in Conns /\ k \in Nat
  BY StoredTyped DEF RowRec
<1>3. CASE RowsKept
  BY <1>1, <1>2, <1>3 DEF RowsKept, RowsOnce
<1>4. CASE \E n \in Conns : AgreeDb(n) /\ rows' = Append(rows, RowOf(n))
  <2>1. PICK n \in Conns : AgreeDb(n) /\ rows' = Append(rows, RowOf(n))
    BY <1>4
  <2> DEFINE r == RowOf(n)
  <2>2. r.n = n /\ rows' = Append(rows, r) /\ rows \in Seq(RowRec)
    BY <2>1 DEF RowOf, IInv, StoresOK
  <2>3. conn[n].pc = "db" /\ conn'[n].pc = "reply"
    BY <2>1, ConnTyped, PcWr DEF AgreeDb
  <2> HIDE DEF r
  <2>4. rows \in Seq(RowRec \cup {r})
    BY <2>2
  <2>5. /\ DOMAIN rows' = DOMAIN rows \cup {Len(rows) + 1} /\ rows'[Len(rows) + 1] = r
        /\ \A k \in DOMAIN rows : rows'[k] = rows[k]
    BY <2>2, <2>4
  <2>6. \A k \in DOMAIN rows : rows[k].n # n
    BY <2>3 DEF RowsOnce
  <2> QED
    BY <1>1, <1>2, <2>2, <2>3, <2>5, <2>6 DEF RowsOnce
<1> QED
  BY <1>3, <1>4, RowMoves

-----------------------------------------------------------------------------
(* The server process.                                                     *)

Busy(n) == conn[n].pc \notin {"unused", "closed"}

\* The server's threads live while it does, with the segment or without it all
\* along; why it has died; and, as long as nobody was killed, a client whose
\* thread still works has its end open.
ServerOK ==
  /\ srv = "down" => ~attached /\ \A n \in Conns : ~Busy(n)
  /\ srv # "down" => cap > 0 /\ (attached <=> TableSize <= cap)
  /\ \A n \in Conns : /\ conn[n].wr # None => attached
                      /\ conn[n].pc = "bad" => ~attached
  /\ "shm" \in died => cap > 0 /\ ~(TableSize <= cap)
  /\ kills = 0 => \A n \in Conns : Busy(n) => conn[n].open
  /\ ~LP64 /\ kills = 0 => died \subseteq {"shm"}

\* Only its start, its header and its end change the server.
LEMMA ServerMoves ==
  ASSUME IInv, [Next]_vars
  PROVE  StartServer \/ SrvCheckHeader \/ SrvSetTotal \/ Dies \/ UNCHANGED <<srv, attached>>
<1>1. CASE \E n \in Conns : Serves(n)
  BY <1>1, ServeIs
<1>2. CASE \E c \in Clients : Acts(c)
  BY <1>2, ActIs
<1>3. LoseDb \/ UNCHANGED vars => UNCHANGED <<srv, attached>>
  BY DEF LoseDb, vars
<1> QED
  BY <1>1, <1>2, <1>3, NextSplit

\* The first of all makes the segment; nobody changes its size.
LEMMA CapMoves ==
  ASSUME IInv, [Next]_vars
  PROVE  cap' = cap \/ (cap = 0 /\ cap' > 0)
<1>1. CASE \E n \in Conns : Serves(n)
  BY <1>1, ServeIs
<1>2. CASE Dies
  BY <1>2 DEF Dies, KillServer, ShmFaults, ReplyFaults, SendFaults, Die, shmVars
<1>3. CASE \E c \in Clients : Acts(c)
  BY <1>3 DEF Acts, Begin, Proceed, StartClient, CheckHeader, SetTotal, Quit, Choose, BeginRead,
       ReadLocal, NoLocalKey, ConnectFails, Connect, SendRequest, SendRequestFaults, ReceiveFails,
       ReceiveKey, Receive, LocalScan, LocalCopy, StoreKey, Begins, OnlyClient, SrvUnchanged,
       KillClient, shmVars
<1>4. CASE StartServer \/ SrvCheckHeader \/ SrvSetTotal \/ LoseDb \/ UNCHANGED vars
  BY <1>4, Sizes DEF StartServer, SrvCheckHeader, SrvSetTotal, SrvHeader, LoseDb, vars, shmVars
<1> QED
  BY <1>1, <1>2, <1>3, <1>4, NextSplit

LEMMA BusyMoves ==
  ASSUME IInv, [Next]_vars, NEW n \in Conns, Busy(n)'
  PROVE  Busy(n) \/ (srv = "up" /\ srv' = "up" /\ conn'[n].open)
  BY ConnMoves DEF Moves, PcMoves, Busy, ShmDone, ShmBad, AgreeDb

\* A client closes its end where the thread has ended, unless it is killed.
LEMMA OpenStays ==
  ASSUME IInv, EndsOK, ServerOK, [Next]_vars, kills' = 0, NEW n \in Conns, Busy(n)'
  PROVE  conn'[n].open
<1>1. kills = 0
  BY PastStays DEF IInv, TypeOK
<1>2. CASE Busy(n)
  <2>1. conn[n].open
    BY <1>1, <1>2 DEF ServerOK
  <2>2. conn \in [Conns -> ConnRec] /\ conn[n] \in ConnRec
    BY ConnTyped
  <2>3. CASE \E m \in Conns : Serves(m)
    <3>1. PICK m \in Conns : Serves(m)
      BY <2>3
    <3>2. CASE m # n
      BY <2>1, <3>1, <3>2, OthersStill
    <3>3. CASE m = n
      <4>1. CASE RecvFails(n) \/ Send(n)
        BY <4>1, EndIs DEF Busy
      <4>2. CASE Answering(n)
        BY <2>1, <4>2, AnswerIs
      <4>3. CASE AgreeAccept(n)
        BY <2>1, <4>3, AcceptIs
      <4>4. CASE Recv(n) \/ Recording(n)
        BY <2>1, <4>4, StoringKeeps
      <4> QED
        BY <3>1, <3>3, <4>1, <4>2, <4>3, <4>4 DEF Serves
    <3> QED
      BY <3>2, <3>3
  <2>4. CASE Dies
    BY <2>1, <2>4, DeathIs
  <2>5. CASE \E c \in Clients : Acts(c)
    <3>1. PICK c \in Clients : Acts(c)
      BY <2>5
    <3>2. CASE CloseEnd(c) /\ InOperation(c) /\ cli[c].n = n
      <4>1. SendRequestFaults(c) \/ ReceiveFails(c) \/ Receive(c) \/ StoreKey(c) \/ KillClient(c)
        <5>1. conn' # conn
          BY <2>1, <2>2, <3>2, UnusedTyped DEF CloseEnd, Tidy, ConnRec
        <5>2. cli[c].st \in {"connected", "waiting", "store"}
          BY <3>2 DEF InOperation
        <5>3. cli[c].st # "ready" /\ cli[c].st # "menu"
          BY <5>2
        <5>4. ~SendRequest(c)
          <6>1. SUFFICES ASSUME SendRequest(c) PROVE FALSE
            OBVIOUS
          <6>2. conn'[n] = [conn[n] EXCEPT !.req = cli[c].req]
            BY <2>2, <3>2, <5>1, <6>1 DEF SendRequest
          <6>3. conn'[n].open
            BY <2>1, <2>2, <6>2 DEF ConnRec
          <6>4. ~conn'[n].open
            BY <2>2, <3>2, UnusedTyped DEF CloseEnd, Tidy, ConnRec
          <6> QED
            BY <6>3, <6>4
        <5> QED
          BY <3>1, <5>1, <5>3, <5>4 DEF Acts, Begin, Proceed, StartClient, CheckHeader, SetTotal, Quit, Choose,
             BeginRead, ReadLocal, NoLocalKey, ConnectFails, Connect, ReceiveKey, LocalScan, LocalCopy,
             Begins, OnlyClient, At
      <4>2. conn[n].pc = "closed" \/ conn[n].sent \/ KillClient(c)
        BY <3>2, <4>1, Storing DEF SendRequestFaults, ReceiveFails, Receive, StoreKey, At, EndsOK
      <4>3. kills \in Nat /\ ~KillClient(c)
        BY <1>1 DEF KillClient, IInv, TypeOK
      <4> QED
        BY <1>2, <4>2, <4>3 DEF EndsOK, Busy
    <3>3. CASE CloseEnd(c) /\ InOperation(c) /\ cli[c].n # n
      BY <2>1, <2>2, <3>3 DEF CloseEnd
    <3>4. CASE UNCHANGED conn
      BY <2>1, <3>4
    <3>5. CASE SendRequest(c)
      <4>1. conn'[n] = conn[n] \/ conn'[n] = [conn[n] EXCEPT !.req = cli[c].req]
        BY <2>2, <3>5 DEF SendRequest
      <4> QED
        BY <2>1, <2>2, <4>1 DEF ConnRec
    <3>6. CASE Connect(c)
      <4> DEFINE k == [Unused EXCEPT !.c = c, !.open = TRUE, !.pc = "recv"]
      <4>1. conn' = [conn EXCEPT ![opened + 1] = k]
        BY <3>6 DEF Connect
      <4>2. k.open
        BY DEF Unused
      <4> HIDE DEF k
      <4> QED
        BY <2>1, <2>2, <4>1, <4>2
    <3> QED
      BY <3>1, <3>2, <3>3, <3>4, <3>5, <3>6, ActIs
  <2>6. CASE StartServer \/ SrvCheckHeader \/ SrvSetTotal \/ LoseDb \/ UNCHANGED vars
    BY <2>1, <2>6 DEF StartServer, SrvCheckHeader, SrvSetTotal, SrvHeader, LoseDb, vars
  <2> QED
    BY <2>3, <2>4, <2>5, <2>6, NextSplit
<1> QED
  BY <1>2, BusyMoves

LEMMA InitServer == Init => ServerOK
  BY DEF Init, ServerOK, Busy, Unused

LEMMA ServerStep == IInv /\ EndsOK /\ ServerOK /\ [Next]_vars => ServerOK'
<1> SUFFICES ASSUME IInv, EndsOK, ServerOK, [Next]_vars PROVE ServerOK'
  OBVIOUS
<1>t. cap \in Nat /\ kills \in Nat /\ TableSize \in Nat /\ attached \in BOOLEAN
  BY Sizes DEF IInv, TypeOK
<1>1. srv' = "down" => ~attached' /\ \A n \in Conns : ~Busy(n)'
  <2>1. CASE Dies
    <3>1. ~attached'
      BY <2>1 DEF Dies, KillServer, ShmFaults, ReplyFaults, SendFaults, Die, ServerGone
    <3>2. \A n \in Conns : ~Busy(n)'
      BY <2>1, DeathIs DEF Busy
    <3> QED
      BY <3>1, <3>2
  <2>2. CASE UNCHANGED <<srv, attached>>
    BY <2>2, BusyMoves DEF ServerOK
  <2>3. StartServer \/ SrvCheckHeader \/ SrvSetTotal => srv' # "down"
    BY DEF StartServer, SrvCheckHeader, SrvSetTotal, SrvHeader
  <2> QED
    BY <2>1, <2>2, <2>3, ServerMoves
<1>2. srv' # "down" => cap' > 0 /\ (attached' <=> TableSize <= cap')
  <2>1. CASE Dies
    <3>1. srv' = "down"
      BY <2>1 DEF Dies, KillServer, ShmFaults, ReplyFaults, SendFaults, Die, ServerGone
    <3> QED
      BY <3>1
  <2>2. CASE StartServer
    <3>1. cap' > 0
      <4>1. cap' = IF cap = 0 THEN TableSize ELSE cap
        BY <2>2 DEF StartServer
      <4> QED
        BY <1>t, <4>1, Sizes
    <3>2. attached' <=> TableSize <= cap'
      BY <2>2, Zenon DEF StartServer
    <3> QED
      BY <3>1, <3>2
  <2>3. CASE UNCHANGED <<srv, attached>> \/ SrvCheckHeader \/ SrvSetTotal
    <3>1. attached' = attached /\ (srv' # "down" => srv # "down")
      BY <2>3 DEF SrvCheckHeader, SrvSetTotal, SrvHeader
    <3> QED
      BY <1>t, <3>1, CapMoves DEF ServerOK
  <2> QED
    BY <2>1, <2>2, <2>3, ServerMoves
<1>3. ASSUME NEW n \in Conns PROVE (conn'[n].wr # None => attached') /\ (conn'[n].pc = "bad" => ~attached')
  <2>1. CASE Dies
    BY <2>1, DeathIs, ConnTyped DEF Fine
  <2>2. CASE StartServer
    BY <2>2, ConnTyped DEF StartServer, ServerOK, Fine, Busy
  <2>3. CASE (UNCHANGED <<srv, attached>> \/ SrvCheckHeader \/ SrvSetTotal) /\ ~Dies
    <3>1. attached' = attached
      BY <2>3 DEF SrvCheckHeader, SrvSetTotal, SrvHeader
    <3>2. conn'[n].wr # None => attached
      BY <2>3, ConnMoves DEF Moves, WrMoves, ServerOK, ShmScan, ShmCopy, Copies
    <3>3. conn'[n].pc = "bad" => ~attached
      BY <2>3, ConnMoves DEF Moves, PcMoves, ServerOK, ShmBad
    <3> QED
      BY <3>1, <3>2, <3>3
  <2> QED
    BY <2>1, <2>2, <2>3, ServerMoves
<1>4. "shm" \in died' => cap' > 0 /\ ~(TableSize <= cap')
  <2>1. CASE "shm" \in died
    BY <1>t, <2>1, CapMoves DEF ServerOK
  <2>2. CASE \E n \in Conns : ShmFaults(n)
    <3>1. PICK n \in Conns : ShmFaults(n)
      BY <2>2
    <3>2. ~attached /\ srv # "down" /\ cap' = cap
      BY <3>1 DEF ShmFaults, Die, shmVars, ServerOK, Busy
    <3> QED
      BY <3>2 DEF ServerOK
  <2>3. "shm" \in died' => "shm" \in died \/ \E n \in Conns : ShmFaults(n)
    <3>1. CASE \E n \in Conns : Serves(n)
      BY <3>1, ServeIs
    <3>2. CASE Dies
      BY <3>2 DEF Dies, KillServer, ReplyFaults, SendFaults, Die
    <3>3. CASE \E c \in Clients : Acts(c)
      BY <3>3, ActIs
    <3>4. CASE StartServer \/ SrvCheckHeader \/ SrvSetTotal \/ LoseDb \/ UNCHANGED vars
      BY <3>4 DEF StartServer, SrvCheckHeader, SrvSetTotal, SrvHeader, LoseDb, vars
    <3> QED
      BY <3>1, <3>2, <3>3, <3>4, NextSplit
  <2> QED
    BY <2>1, <2>2, <2>3
<1>5. kills' = 0 => \A n \in Conns : Busy(n)' => conn'[n].open
  BY OpenStays
<1>6. ~LP64 /\ kills' = 0 => died' \subseteq {"shm"}
  <2> SUFFICES ASSUME ~LP64, kills' = 0 PROVE died' \subseteq {"shm"}
    OBVIOUS
  <2>0. kills = 0 /\ died \subseteq {"shm"}
    BY <1>t, PastStays DEF ServerOK
  <2>1. CASE \E n \in Conns : Serves(n)
    BY <2>0, <2>1, ServeIs
  <2>2. CASE Dies
    <3>1. CASE KillServer
      BY <2>0, <3>1 DEF KillServer
    <3>2. CASE \E n \in Conns : ShmFaults(n)
      BY <2>0, <3>2 DEF ShmFaults, Die
    <3>3. ~ \E n \in Conns : ReplyFaults(n)
      BY DEF ReplyFaults, EncodeFaults
    <3>4. ~ \E n \in Conns : SendFaults(n)
      BY <2>0 DEF SendFaults, ServerOK, Busy
    <3> QED
      BY <2>2, <3>1, <3>2, <3>3, <3>4 DEF Dies
  <2>3. CASE \E c \in Clients : Acts(c)
    BY <2>0, <2>3, ActIs
  <2>4. CASE StartServer \/ SrvCheckHeader \/ SrvSetTotal \/ LoseDb \/ UNCHANGED vars
    BY <2>0, <2>4 DEF StartServer, SrvCheckHeader, SrvSetTotal, SrvHeader, LoseDb, vars
  <2> QED
    BY <2>1, <2>2, <2>3, <2>4, NextSplit
<1> QED
  BY <1>1, <1>2, <1>3, <1>4, <1>5, <1>6 DEF ServerOK

\* Where a refusal can be encoded and the server made the segment, the server
\* outlives every exchange in which nobody is killed (TcpSocket.cpp:51-67,
\* ClientOperation.cpp:103-115, ShareMemory.cpp:60-66).
THEOREM ServerOutlives == Spec => []ServerSurvives
<1> DEFINE J == IInv /\ EndsOK /\ ServerOK
<1>1. Init => J
  BY InitInv, InitEnds, InitServer
<1>2. J /\ [Next]_vars => J'
  BY StepInv, EndsStep, ServerStep
<1>3. J => ServerSurvives
  <2>1. TableSize \in Nat
    BY Sizes
  <2> QED
    BY <2>1 DEF ServerSurvives, ServerOK
<1> QED
  BY <1>1, <1>2, <1>3, PTL DEF Spec

-----------------------------------------------------------------------------
(* The table of nodes and its writers.                                     *)

\* A server's thread and a client, the copy each is at and the record it copies.
Thread(n) == [end |-> "srv", at |-> n]
Owner(c)  == [end |-> "cli", at |-> c]
Writers == {Thread(n) : n \in Conns} \cup {Owner(c) : c \in Clients}
Wr(x)  == IF x.end = "srv" THEN conn[x.at].wr ELSE cli[x.at].wr
Rec(x) == IF x.end = "srv" THEN Record(conn[x.at].req.id, conn[x.at].kid, x.at, conn[x.at].key)
          ELSE Record(IdOf[x.at], cli[x.at].kid, cli[x.at].n, cli[x.at].key)

LEMMA ThreadIs ==
  \A n : /\ Wr(Thread(n)) = conn[n].wr /\ Wr(Thread(n))' = conn'[n].wr
         /\ Rec(Thread(n)) = Record(conn[n].req.id, conn[n].kid, n, conn[n].key)
         /\ Rec(Thread(n))' = Record(conn'[n].req.id, conn'[n].kid, n, conn'[n].key)
  BY DEF Thread, Wr, Rec

LEMMA OwnerIs ==
  \A c : /\ Wr(Owner(c)) = cli[c].wr /\ Wr(Owner(c))' = cli'[c].wr
         /\ Rec(Owner(c)) = Record(IdOf[c], cli[c].kid, cli[c].n, cli[c].key)
         /\ Rec(Owner(c))' = Record(IdOf[c], cli'[c].kid, cli'[c].n, cli'[c].key)
  BY DEF Owner, Wr, Rec

LEMMA WriterIs ==
  /\ \A x \in Writers : (\E n \in Conns : x = Thread(n)) \/ (\E c \in Clients : x = Owner(c))
  /\ \A n \in Conns : Thread(n) \in Writers
  /\ \A c \in Clients : Owner(c) \in Writers
  /\ \A m, n : Thread(m) = Thread(n) => m = n
  /\ \A c, d : Owner(c) = Owner(d) => c = d
  /\ \A n, c : Thread(n) # Owner(c)
  BY DEF Writers, Thread, Owner

\* A copy is of an agreement's record, into a node of the array.
LEMMA WriterTyped ==
  ASSUME IInv, NEW x \in Writers, Wr(x) # None
  PROVE  /\ Wr(x) \in Writes /\ (Copies(Wr(x)) => Wr(x).slot \in Slots)
         /\ Rec(x).head \in NodeHead /\ Rec(x).head.n \in Conns
         /\ Rec(x).key \in Key /\ Rec(x).key = agreed[Rec(x).head.n]
<1>1. CASE \E n \in Conns : x = Thread(n)
  <2>1. PICK n \in Conns : x = Thread(n)
    BY <1>1
  <2>2. Wr(x) = conn[n].wr /\ Rec(x) = Record(conn[n].req.id, conn[n].kid, n, conn[n].key)
    BY <2>1, ThreadIs
  <2>3. conn[n] \in ConnRec /\ Fine(n, conn[n]) /\ conn[n].wr # None
    BY <2>2, ConnTyped
  <2>4. conn[n].pc = "shm" /\ conn[n].wr \in Writes /\ (Copies(conn[n].wr) => conn[n].wr.slot \in Slots)
    BY <2>3 DEF Fine, ConnRec
  <2>5. /\ conn[n].key \in Key /\ conn[n].key = agreed[n] /\ conn[n].kid \in KeyIds
        /\ conn[n].req.id \in Ids
    BY <2>4, Accepted DEF Agreeing
  <2>6. Rec(x).head = [id |-> conn[n].req.id, kid |-> conn[n].kid, n |-> n] /\ Rec(x).key = conn[n].key
    BY <2>2 DEF Record
  <2> QED
    BY <2>2, <2>4, <2>5, <2>6 DEF NodeHead
<1>2. CASE \E c \in Clients : x = Owner(c)
  <2>1. PICK c \in Clients : x = Owner(c)
    BY <1>2
  <2>2. Wr(x) = cli[c].wr /\ Rec(x) = Record(IdOf[c], cli[c].kid, cli[c].n, cli[c].key)
    BY <2>1, OwnerIs
  <2>3. cli[c].st = "store" /\ (Copies(cli[c].wr) => cli[c].wr.slot \in Slots)
    BY <2>2 DEF IInv, CliOK
  <2>4. /\ cli[c].n \in Conns /\ IdOf[c] \in Ids /\ cli[c] \in CliRec
        /\ cli[c].key \in Key /\ cli[c].key = agreed[cli[c].n] /\ cli[c].kid \in KeyIds
    BY <2>3, Storing
  <2>5. cli[c].wr \in Writes
    BY <2>2, <2>4 DEF CliRec
  <2>6. Rec(x).head = [id |-> IdOf[c], kid |-> cli[c].kid, n |-> cli[c].n] /\ Rec(x).key = cli[c].key
    BY <2>2 DEF Record
  <2> QED
    BY <2>2, <2>3, <2>4, <2>5, <2>6 DEF NodeHead
<1> QED
  BY <1>1, <1>2, WriterIs

\* What a step may do to the table: nothing, while writers go on, end or are cut
\* off; one writer takes a node; one writer copies a chunk.
Keeps(x) == Wr(x)' = Wr(x) /\ (Wr(x) # None => Rec(x)' = Rec(x))
Drops(x) == Wr(x)' = None /\ (Torn(Wr(x)) => "shmCut" \in past')
Quiet == nodes' = nodes /\ \A x \in Writers : Keeps(x) \/ Drops(x)
ScanBy(x) ==
  /\ nodes' = nodes /\ past' = Overlap(Scan)
  /\ Wr(x) = None /\ \E w \in Scan : Wr(x)' = w
  /\ \A y \in Writers \ {x} : Keeps(y)
CopyBy(x, chunk) ==
  /\ Copies(Wr(x)) /\ chunk \in Wr(x).todo /\ past' = past
  /\ Store(Wr(x), chunk, Rec(x)) /\ Wr(x)' = Rest(Wr(x), chunk) /\ Rec(x)' = Rec(x)
  /\ \A y \in Writers \ {x} : Keeps(y)

\* A thread that steps, or a client, leaves the other writers alone.
LEMMA OthersKeep ==
  ASSUME IInv
  PROVE  /\ \A n \in Conns : Serves(n) => \A y \in Writers \ {Thread(n)} : Keeps(y)
         /\ \A c \in Clients : Acts(c) => \A y \in Writers \ {Owner(c)} : Keeps(y)
<1>1. ASSUME NEW n \in Conns, Serves(n), NEW y \in Writers, y # Thread(n) PROVE Keeps(y)
  <2>1. CASE \E m \in Conns : y = Thread(m)
    <3>1. PICK m \in Conns : y = Thread(m)
      BY <2>1
    <3>2. conn'[m] = conn[m]
      BY <1>1, <3>1, OthersStill
    <3> QED
      BY <3>1, <3>2, ThreadIs DEF Keeps
  <2>2. CASE \E c \in Clients : y = Owner(c)
    BY <1>1, <2>2, ServeIs, OwnerIs DEF Keeps
  <2> QED
    BY <2>1, <2>2, WriterIs
<1>2. ASSUME NEW c \in Clients, Acts(c), NEW y \in Writers, y # Owner(c) PROVE Keeps(y)
  <2>1. CASE \E m \in Conns : y = Thread(m)
    <3>1. PICK m \in Conns : y = Thread(m)
      BY <2>1
    <3>2. conn \in [Conns -> ConnRec] /\ conn[m] \in ConnRec /\ Fine(m, conn[m])
      BY ConnTyped
    <3>3. /\ conn'[m].wr = conn[m].wr
          /\ conn[m].wr # None => /\ conn'[m].req = conn[m].req /\ conn'[m].kid = conn[m].kid
                                  /\ conn'[m].key = conn[m].key
      <4>1. CASE UNCHANGED conn
        BY <4>1
      <4>2. CASE CloseEnd(c) /\ InOperation(c)
        <5> DEFINE k == [conn[m] EXCEPT !.open = FALSE]
        <5>1. conn'[m] = conn[m] \/ conn'[m] = k \/ (k.pc = "closed" /\ conn'[m] = Gone)
          BY <3>2, <4>2 DEF CloseEnd, Tidy
        <5>2. /\ k.pc = conn[m].pc /\ k.req = conn[m].req /\ k.kid = conn[m].kid /\ k.key = conn[m].key
              /\ k.wr = conn[m].wr
          BY <3>2 DEF ConnRec
        <5>3. conn[m].pc = "closed" => conn[m].wr = None
          BY <3>2 DEF Fine
        <5> HIDE DEF k
        <5> QED
          BY <5>1, <5>2, <5>3, UnusedTyped
      <4>3. CASE Connect(c)
        <5> DEFINE k == [Unused EXCEPT !.c = c, !.open = TRUE, !.pc = "recv"]
        <5>1. conn' = [conn EXCEPT ![opened + 1] = k]
          BY <4>3 DEF Connect
        <5>2. k.wr = None
          BY DEF Unused
        <5> HIDE DEF k
        <5>3. opened \in Nat /\ m \in Nat
          BY Sizes DEF IInv, TypeOK, Conns
        <5>4. m = opened + 1 => conn[m].wr = None
          BY <3>2, <5>3 DEF Fine
        <5> QED
          BY <3>2, <5>1, <5>2, <5>4
      <4>4. CASE SendRequest(c)
        <5>1. conn'[m] = conn[m] \/ (conn[m].pc = "recv" /\ conn'[m] = [conn[m] EXCEPT !.req = cli[c].req])
          BY <3>2, <4>4 DEF SendRequest
        <5>2. conn[m].pc = "recv" => conn[m].wr = None
          BY <3>2 DEF Fine
        <5> QED
          BY <3>2, <5>1, <5>2 DEF ConnRec
      <4> QED
        BY <1>2, <4>1, <4>2, <4>3, <4>4, ActIs
    <3> QED
      BY <3>1, <3>3, ThreadIs DEF Keeps
  <2>2. CASE \E d \in Clients : y = Owner(d)
    <3>1. PICK d \in Clients : y = Owner(d)
      BY <2>2
    <3>2. cli'[d] = cli[d]
      BY <1>2, <3>1, OtherClients
    <3> QED
      BY <3>1, <3>2, OwnerIs DEF Keeps
  <2> QED
    BY <2>1, <2>2, WriterIs
<1> QED
  BY <1>1, <1>2

LEMMA ServeTable ==
  ASSUME IInv, ServerOK, NEW n \in Conns, Serves(n)
  PROVE  Quiet \/ ScanBy(Thread(n)) \/ \E chunk : CopyBy(Thread(n), chunk)
<1> DEFINE x == Thread(n)
<1>1. conn \in [Conns -> ConnRec] /\ conn[n] \in ConnRec /\ Fine(n, conn[n])
  BY ConnTyped
<1>2. Wr(x) = conn[n].wr /\ Wr(x)' = conn'[n].wr /\ \A y \in Writers \ {x} : Keeps(y)
  BY ThreadIs, OthersKeep
<1>3. Recording(n) => Rec(x)' = Rec(x)
  BY StoringKeeps, ThreadIs
<1> HIDE DEF x
<1>4. CASE ShmScan(n)
  <2>1. PICK w \in Scan : conn' = [conn EXCEPT ![n].wr = w]
    BY <1>4 DEF ShmScan
  <2>2. conn'[n].wr = w /\ conn[n].wr = None /\ nodes' = nodes /\ past' = Overlap(Scan)
    BY <1>1, <1>4, <2>1, PcWr DEF ShmScan
  <2>3. ScanBy(x)
    BY <1>2, <2>2 DEF ScanBy
  <2> QED
    BY <2>3 DEF x
<1>5. CASE ShmCopy(n)
  <2>1. PICK chunk \in conn[n].wr.todo :
          /\ Store(conn[n].wr, chunk, Record(conn[n].req.id, conn[n].kid, n, conn[n].key))
          /\ conn' = [conn EXCEPT ![n].wr = Rest(conn[n].wr, chunk)]
    BY <1>5 DEF ShmCopy
  <2>2. conn'[n].wr = Rest(conn[n].wr, chunk) /\ Copies(conn[n].wr) /\ past' = past
    BY <1>1, <1>5, <2>1, PcWr DEF ShmCopy
  <2>3. Rec(x) = Record(conn[n].req.id, conn[n].kid, n, conn[n].key) /\ Rec(x)' = Rec(x)
    BY <1>3, <1>5, ThreadIs DEF x, Recording
  <2>4. CopyBy(x, chunk)
    BY <1>2, <2>1, <2>2, <2>3 DEF CopyBy
  <2> QED
    BY <2>4 DEF x
<1>6. CASE ~ShmScan(n) /\ ~ShmCopy(n)
  <2>1. nodes' = nodes
    BY <1>6, ServeIs
  <2>2. CASE conn[n].wr = None
    <3>1. conn'[n].wr = None
      BY <1>6, <2>2, ConnMoves, ServeMoves DEF Moves, WrMoves
    <3> QED
      BY <1>2, <2>1, <2>2, <3>1 DEF Quiet, Keeps
  <2>3. CASE conn[n].wr # None
    <3>1. conn[n].pc = "shm" /\ attached
      BY <1>1, <2>3 DEF Fine, ServerOK
    <3>2. ShmDone(n)
      BY <1>6, <2>3, <3>1, AnswerIs, AcceptIs, EndIs
         DEF Serves, Recording, Recv, ShmBad, AgreeDb
    <3>3. Written(conn[n].wr)
      BY <3>1, <3>2 DEF ShmDone, ShmEnds
    <3>4. conn'[n].wr = None
      BY <1>1, <3>2, PcWr DEF ShmDone
    <3> QED
      BY <1>2, <2>1, <3>3, <3>4 DEF Quiet, Drops, Torn, Written
  <2> QED
    BY <2>2, <2>3
<1> QED
  BY <1>4, <1>5, <1>6

LEMMA DeathTable ==
  ASSUME IInv, Dies PROVE Quiet
<1>1. nodes' = nodes /\ cli' = cli /\ past' = Cut({conn[n].wr : n \in Conns})
  BY DEF Dies, KillServer, ShmFaults, ReplyFaults, SendFaults, Die, ServerGone, shmVars
<1>2. ASSUME NEW n \in Conns PROVE Drops(Thread(n))
  <2>1. conn'[n].wr = None
    BY DeathIs, ConnTyped DEF Fine
  <2>2. Torn(conn[n].wr) => "shmCut" \in past'
    BY <1>1 DEF Cut
  <2> QED
    BY <2>1, <2>2, ThreadIs DEF Drops
<1>3. \A c \in Clients : Keeps(Owner(c))
  BY <1>1, OwnerIs DEF Keeps
<1> QED
  BY <1>1, <1>2, <1>3, WriterIs DEF Quiet

LEMMA ActTable ==
  ASSUME IInv, NEW c \in Clients, Acts(c)
  PROVE  Quiet \/ ScanBy(Owner(c)) \/ \E chunk : CopyBy(Owner(c), chunk)
<1> DEFINE x == Owner(c)
<1>1. /\ cli \in [Clients -> CliRec] /\ cli[c] \in CliRec
      /\ cli[c].st # "store" => cli[c].wr = None
  BY WrOfClient
<1>2. Wr(x) = cli[c].wr /\ Wr(x)' = cli'[c].wr /\ \A y \in Writers \ {x} : Keeps(y)
  BY OwnerIs, OthersKeep
<1>3. Rec(x) = Record(IdOf[c], cli[c].kid, cli[c].n, cli[c].key)
      /\ Rec(x)' = Record(IdOf[c], cli'[c].kid, cli'[c].n, cli'[c].key)
  BY OwnerIs
<1> HIDE DEF x
<1>4. CASE LocalScan(c)
  <2>1. PICK w \in Scan : cli' = [cli EXCEPT ![c].wr = w]
    BY <1>4 DEF LocalScan
  <2>2. cli'[c].wr = w /\ cli[c].wr = None /\ nodes' = nodes /\ past' = Overlap(Scan)
    BY <1>1, <1>4, <2>1 DEF LocalScan, CliRec
  <2>3. ScanBy(x)
    BY <1>2, <2>2 DEF ScanBy
  <2> QED
    BY <2>3 DEF x
<1>5. CASE LocalCopy(c)
  <2>1. PICK chunk \in cli[c].wr.todo :
          /\ Store(cli[c].wr, chunk, Record(IdOf[c], cli[c].kid, cli[c].n, cli[c].key))
          /\ cli' = [cli EXCEPT ![c].wr = Rest(cli[c].wr, chunk)]
    BY <1>5 DEF LocalCopy
  <2>2. Copies(cli[c].wr) /\ past' = past
    BY <1>5 DEF LocalCopy
  <2> DEFINE r == Rest(cli[c].wr, chunk)
             p == [cli[c] EXCEPT !.wr = r]
  <2>3. cli'[c] = p
    BY <1>1, <2>1
  <2> HIDE DEF r
  <2>4. p.wr = r /\ p.kid = cli[c].kid /\ p.n = cli[c].n /\ p.key = cli[c].key
    BY <1>1 DEF CliRec
  <2> HIDE DEF p
  <2>5. Rec(x)' = Rec(x)
    BY <1>3, <2>3, <2>4
  <2>6. cli'[c].wr = Rest(cli[c].wr, chunk)
    BY <2>3, <2>4 DEF r
  <2>7. CopyBy(x, chunk)
    BY <1>2, <1>3, <2>1, <2>2, <2>5, <2>6 DEF CopyBy
  <2> QED
    BY <2>7 DEF x
<1>6. CASE ~LocalScan(c) /\ ~LocalCopy(c)
  <2>1. nodes' = nodes
    BY <1>6, ActIs
  <2>2. CASE cli[c].wr = None
    <3>1. cli'[c].wr = None
      BY <1>6, <2>2, OwnMoves DEF CliMoves
    <3> QED
      BY <1>2, <2>1, <2>2, <3>1 DEF Quiet, Keeps
  <2>3. CASE cli[c].wr # None
    <3>1. cli[c].st = "store"
      BY <1>1, <2>3
    <3>2. StoreKey(c) \/ KillClient(c)
      BY <1>6, <3>1 DEF Acts, Begin, Proceed, StartClient, CheckHeader, SetTotal, Quit, Choose, BeginRead,
         ReadLocal, NoLocalKey, ConnectFails, Connect, SendRequest, SendRequestFaults, ReceiveFails,
         ReceiveKey, Receive, At
    <3>3. cli'[c].wr = None
      BY <1>1, <3>2, IdleTyped DEF StoreKey, KillClient, Finish, Exit
    <3>4. Torn(cli[c].wr) => "shmCut" \in past'
      BY <3>2 DEF StoreKey, KillClient, Cut, Torn, Written
    <3> QED
      BY <1>2, <2>1, <3>3, <3>4 DEF Quiet, Drops
  <2> QED
    BY <2>2, <2>3
<1> QED
  BY <1>4, <1>5, <1>6

LEMMA TableMoves ==
  ASSUME IInv, ServerOK, [Next]_vars
  PROVE  Quiet \/ \E x \in Writers : ScanBy(x) \/ \E chunk : CopyBy(x, chunk)
<1>1. CASE \E n \in Conns : Serves(n)
  BY <1>1, ServeTable, WriterIs
<1>2. CASE Dies
  BY <1>2, DeathTable
<1>3. CASE \E c \in Clients : Acts(c)
  BY <1>3, ActTable, WriterIs
<1>4. CASE StartServer \/ SrvCheckHeader \/ SrvSetTotal \/ LoseDb \/ UNCHANGED vars
  <2>1. UNCHANGED <<nodes, conn, cli>>
    BY <1>4 DEF StartServer, SrvCheckHeader, SrvSetTotal, SrvHeader, LoseDb, vars, shmVars
  <2>2. \A x : Keeps(x)
    BY <2>1 DEF Keeps, Wr, Rec
  <2> QED
    BY <2>1, <2>2 DEF Quiet
<1> QED
  BY <1>1, <1>2, <1>3, <1>4, NextSplit

LEMMA NoneIsNoWrite == None \notin Writes
<1>1. Slots \cup {0} = 0..TableSize
  BY Sizes DEF Slots
<1> QED
  BY <1>1, SystemAssumption DEF SystemAssumption, Writes, Chunks

\* The node a chunk is copied into, and what is left of the copy.
LEMMA CopyIs ==
  ASSUME IInv, NEW x \in Writers, NEW chunk, CopyBy(x, chunk)
  PROVE  /\ Wr(x) # None /\ Wr(x).slot \in Slots /\ Wr(x).todo \subseteq Chunks /\ chunk \in Chunks
         /\ Wr(x)' # None /\ Wr(x)'.slot = Wr(x).slot /\ Wr(x)'.todo = Wr(x).todo \ {chunk}
         /\ \A j \in Slots : j # Wr(x).slot => nodes'[j] = nodes[j]
         /\ nodes'[Wr(x).slot].head = IF chunk = "head" THEN Rec(x).head ELSE nodes[Wr(x).slot].head
         /\ nodes'[Wr(x).slot].key = IF chunk = "key" THEN Rec(x).key ELSE nodes[Wr(x).slot].key
<1> DEFINE w == Wr(x)
           rec == Rec(x)
<1>1. Copies(w) /\ chunk \in w.todo /\ Store(w, chunk, rec) /\ Wr(x)' = Rest(w, chunk)
  BY DEF CopyBy
<1>2. w # None /\ w \in Writes /\ w.slot \in Slots
  BY <1>1, WriterTyped DEF Copies
<1>3. w.todo \subseteq Chunks /\ chunk \in Chunks
  BY <1>1, <1>2 DEF Writes
<1>4. Rest(w, chunk) \in Writes /\ Rest(w, chunk).slot = w.slot /\ Rest(w, chunk).todo = w.todo \ {chunk}
  BY <1>1, <1>2, RestTyped
<1>5. nodes \in [Slots -> NodeRec] /\ nodes[w.slot] \in NodeRec
  BY <1>2 DEF IInv, StoresOK
<1> HIDE DEF w, rec
<1> DEFINE r == [nodes[w.slot] EXCEPT ![chunk] = rec[chunk]]
<1>6. nodes' = [nodes EXCEPT ![w.slot] = r]
  BY <1>1, <1>5 DEF Store
<1>7. /\ r.head = IF chunk = "head" THEN rec.head ELSE nodes[w.slot].head
      /\ r.key = IF chunk = "key" THEN rec.key ELSE nodes[w.slot].key
  <2>1. CASE chunk = "head"
    BY <1>5, <2>1 DEF NodeRec
  <2>2. CASE chunk = "key"
    BY <1>5, <2>2 DEF NodeRec
  <2> QED
    BY <1>3, <2>1, <2>2 DEF Chunks
<1> HIDE DEF r
<1>8. nodes'[w.slot] = r /\ \A j \in Slots : j # w.slot => nodes'[j] = nodes[j]
  BY <1>2, <1>5, <1>6
<1>9. Rest(w, chunk) # None
  BY <1>4, NoneIsNoWrite
<1> QED
  BY <1>1, <1>2, <1>3, <1>4, <1>7, <1>8, <1>9 DEF w, rec

\* What a node holds of record rec while copy w is at it.
Holds(w, rec) ==
  /\ "head" \in w.todo => nodes[w.slot].head = None
  /\ "head" \notin w.todo => nodes[w.slot].head = rec.head
  /\ "key" \notin w.todo => nodes[w.slot].key = rec.key

\* As long as no copies overlapped there is one at most, and its node is its own.
TabOK ==
  Spared({"shmOverlap"}) =>
    /\ \A x, y \in Writers : Copies(Wr(x)) /\ Copies(Wr(y)) => x = y
    /\ \A x \in Writers : Copies(Wr(x)) => Holds(Wr(x), Rec(x))

LEMMA CopiesSomewhere ==
  /\ (\E x \in Writers : Copies(Wr(x))) =>
       (\E n \in Conns : Copies(conn[n].wr)) \/ (\E c \in Clients : Copies(cli[c].wr))
  /\ \A i : Copied(i) <=> \E x \in Writers : Copies(Wr(x)) /\ Wr(x).slot = i
  /\ \A i : Copied(i)' <=> \E x \in Writers : Copies(Wr(x))' /\ Wr(x)'.slot = i
<1>1. \A x \in Writers : \/ \E n \in Conns : Wr(x) = conn[n].wr /\ Wr(x)' = conn'[n].wr
                         \/ \E c \in Clients : Wr(x) = cli[c].wr /\ Wr(x)' = cli'[c].wr
  BY WriterIs, ThreadIs, OwnerIs
<1>2. \A n \in Conns : \E x \in Writers : Wr(x) = conn[n].wr /\ Wr(x)' = conn'[n].wr
  BY WriterIs, ThreadIs
<1>3. \A c \in Clients : \E x \in Writers : Wr(x) = cli[c].wr /\ Wr(x)' = cli'[c].wr
  BY WriterIs, OwnerIs
<1> QED
  BY <1>1, <1>2, <1>3 DEF Copied, Copies

LEMMA OverlapIs ==
  ASSUME NEW ws, NEW w \in ws, w.slot # 0,
         (\E n \in Conns : Copies(conn[n].wr)) \/ (\E c \in Clients : Copies(cli[c].wr))
  PROVE  Overlap(ws) = past \cup {"shmOverlap"}
  BY DEF Overlap

\* The node taken is free, and it is taken while no other is being filled.
LEMMA ScanIs ==
  ASSUME IInv, NEW x \in Writers, ScanBy(x), Copies(Wr(x))'
  PROVE  /\ Wr(x)'.slot \in Slots /\ Wr(x)'.todo = Chunks /\ nodes[Wr(x)'.slot].head = None
         /\ Spared({"shmOverlap"})' => \A y \in Writers : ~Copies(Wr(y))
<1>1. PICK w \in Scan : Wr(x)' = w
  BY DEF ScanBy
<1>2. w.todo # {}
  BY <1>1 DEF Copies
<1>3. PICK i \in FirstFree : w = [slot |-> i, todo |-> Chunks]
  BY <1>1, <1>2 DEF Scan
<1>4. i \in Slots /\ nodes[i].head = None /\ w.slot = i /\ w.todo = Chunks
  BY <1>3 DEF FirstFree, Used
<1>5. w.slot # 0
  BY <1>4 DEF Slots
<1>6. Spared({"shmOverlap"})' => \A y \in Writers : ~Copies(Wr(y))
  <2> SUFFICES ASSUME NEW y \in Writers, Copies(Wr(y)) PROVE "shmOverlap" \in past'
    BY DEF Spared
  <2>1. past' = Overlap(Scan)
    BY DEF ScanBy
  <2>2. (\E n \in Conns : Copies(conn[n].wr)) \/ (\E c \in Clients : Copies(cli[c].wr))
    BY CopiesSomewhere
  <2>3. Overlap(Scan) = past \cup {"shmOverlap"}
    BY <1>1, <1>5, <2>2, OverlapIs
  <2> QED
    BY <2>1, <2>3
<1> QED
  BY <1>1, <1>4, <1>6

LEMMA InitTab == Init => TabOK
<1>1. Init => \A x \in Writers : Wr(x) = None
  BY WriterIs, ThreadIs, OwnerIs DEF Init, Unused, Down
<1> QED
  BY <1>1 DEF TabOK, Copies

LEMMA TabStep == IInv /\ ServerOK /\ TabOK /\ [Next]_vars => TabOK'
<1> SUFFICES ASSUME IInv, ServerOK, TabOK, [Next]_vars, Spared({"shmOverlap"})'
             PROVE  /\ \A x, y \in Writers : Copies(Wr(x))' /\ Copies(Wr(y))' => x = y
                    /\ \A x \in Writers : Copies(Wr(x))' => Holds(Wr(x), Rec(x))'
  BY DEF TabOK
<1>1. /\ \A x, y \in Writers : Copies(Wr(x)) /\ Copies(Wr(y)) => x = y
      /\ \A x \in Writers : Copies(Wr(x)) => Holds(Wr(x), Rec(x))
  BY SparedBefore DEF TabOK
<1>2. \A x \in Writers : Keeps(x) /\ Copies(Wr(x))' => Copies(Wr(x)) /\ Rec(x)' = Rec(x) /\ Wr(x)' = Wr(x)
  BY DEF Keeps, Copies
<1>3. CASE Quiet
  <2>1. \A x \in Writers : Copies(Wr(x))' => Copies(Wr(x)) /\ Rec(x)' = Rec(x) /\ Wr(x)' = Wr(x)
    BY <1>2, <1>3 DEF Quiet, Drops, Copies
  <2>2. nodes' = nodes
    BY <1>3 DEF Quiet
  <2> QED
    BY <1>1, <2>1, <2>2 DEF Holds
<1>4. CASE \E x \in Writers : ScanBy(x)
  <2>1. PICK x \in Writers : ScanBy(x)
    BY <1>4
  <2>2. nodes' = nodes /\ \A y \in Writers : y # x => Keeps(y)
    BY <2>1 DEF ScanBy
  <2>3. CASE Copies(Wr(x))'
    <3>1. /\ Wr(x)'.slot \in Slots /\ Wr(x)'.todo = Chunks /\ nodes[Wr(x)'.slot].head = None
          /\ \A y \in Writers : ~Copies(Wr(y))
      BY <2>1, <2>3, ScanIs
    <3>2. \A y \in Writers : Copies(Wr(y))' => y = x
      BY <1>2, <2>2, <3>1
    <3>3. Holds(Wr(x), Rec(x))'
      BY <2>2, <3>1 DEF Holds, Chunks
    <3> QED
      BY <3>2, <3>3
  <2>4. CASE ~Copies(Wr(x))'
    <3>1. \A y \in Writers : Copies(Wr(y))' => Copies(Wr(y)) /\ Rec(y)' = Rec(y) /\ Wr(y)' = Wr(y)
      BY <1>2, <2>2, <2>4
    <3> QED
      BY <1>1, <2>2, <3>1 DEF Holds
  <2> QED
    BY <2>3, <2>4
<1>5. CASE \E x \in Writers : \E chunk : CopyBy(x, chunk)
  <2>0. PICK x \in Writers : \E chunk : CopyBy(x, chunk)
    BY <1>5
  <2>1. PICK chunk : CopyBy(x, chunk)
    BY <2>0
  <2>2. Copies(Wr(x)) /\ Rec(x)' = Rec(x) /\ chunk \in Wr(x).todo /\ \A y \in Writers : y # x => Keeps(y)
    BY <2>1 DEF CopyBy
  <2>3. \A y \in Writers : Copies(Wr(y))' => y = x
    BY <1>1, <1>2, <2>2
  <2>4. Holds(Wr(x), Rec(x))
    BY <1>1, <2>2
  <2>5. Holds(Wr(x), Rec(x))'
    BY <2>1, <2>2, <2>4, CopyIs DEF Holds, Chunks
  <2> QED
    BY <2>3, <2>5
<1> QED
  BY <1>3, <1>4, <1>5, TableMoves

\* As long as no copies overlapped and none was cut off, a node that is in use and
\* not being filled has the key of its agreement.
GoodOK ==
  Spared({"shmOverlap", "shmCut"}) =>
    \A i \in Slots : Used(i) /\ ~Copied(i) => nodes[i].key = agreed[nodes[i].head.n]

LEMMA GoodStep == IInv /\ ServerOK /\ TabOK /\ GoodOK /\ [Next]_vars => GoodOK'
<1> SUFFICES ASSUME IInv, ServerOK, TabOK, GoodOK, [Next]_vars, Spared({"shmOverlap", "shmCut"})',
                    NEW i \in Slots, Used(i)', ~Copied(i)'
             PROVE  nodes'[i].key = agreed'[nodes'[i].head.n]
  BY DEF GoodOK
<1>1. Spared({"shmOverlap", "shmCut"}) /\ Spared({"shmOverlap"})
  <2>1. Spared({"shmOverlap", "shmCut"})
    BY SparedBefore
  <2> QED
    BY <2>1 DEF Spared
<1>2. Used(i) /\ ~Copied(i) => nodes[i].key = agreed[nodes[i].head.n]
  BY <1>1 DEF GoodOK
<1>3. \A n \in Conns : agreed[n] \in Key => agreed'[n] = agreed[n]
  BY KeysStay
<1>4. Used(i) => agreed[nodes[i].head.n] \in Key /\ nodes[i].head.n \in Conns
  BY StoredTyped DEF IInv, StoresOK, Used, NodeRec, NodeHead
<1>5. ASSUME nodes'[i] = nodes[i], Copied(i) => Copied(i)' PROVE nodes'[i].key = agreed'[nodes'[i].head.n]
  BY <1>2, <1>3, <1>4, <1>5 DEF Used
<1>6. CASE Quiet
  <2>1. nodes' = nodes
    BY <1>6 DEF Quiet
  <2>2. ASSUME Copied(i) PROVE FALSE
    <3>1. PICK x \in Writers : Copies(Wr(x)) /\ Wr(x).slot = i
      BY <2>2, CopiesSomewhere
    <3>2. ~Keeps(x)
      BY <3>1, CopiesSomewhere DEF Keeps, Copies
    <3>3. ~Torn(Wr(x))
      BY <1>6, <3>2 DEF Quiet, Drops, Spared
    <3>4. Wr(x).todo \subseteq Chunks /\ Wr(x).todo # {} /\ Wr(x) # None
      BY <3>1, WriterTyped DEF Copies, Writes
    <3>5. "head" \in Wr(x).todo
      BY <3>3, <3>4 DEF Torn, Chunks
    <3>6. Holds(Wr(x), Rec(x))
      BY <1>1, <3>1 DEF TabOK
    <3> QED
      BY <2>1, <3>1, <3>5, <3>6 DEF Holds, Used
  <2> QED
    BY <1>5, <2>1, <2>2
<1>7. CASE \E x \in Writers : ScanBy(x)
  <2>1. PICK x \in Writers : ScanBy(x)
    BY <1>7
  <2>2. nodes' = nodes /\ ~Copies(Wr(x)) /\ \A y \in Writers : y # x => Keeps(y)
    BY <2>1 DEF ScanBy, Copies
  <2>3. Copied(i) => Copied(i)'
    BY <2>2, CopiesSomewhere DEF Keeps, Copies
  <2> QED
    BY <1>5, <2>2, <2>3
<1>8. CASE \E x \in Writers : \E chunk : CopyBy(x, chunk)
  <2>0. PICK x \in Writers : \E chunk : CopyBy(x, chunk)
    BY <1>8
  <2>1. PICK chunk : CopyBy(x, chunk)
    BY <2>0
  <2>2. Copies(Wr(x)) /\ Rec(x)' = Rec(x) /\ chunk \in Wr(x).todo /\ \A y \in Writers : y # x => Keeps(y)
    BY <2>1 DEF CopyBy
  <2>3. CASE i = Wr(x).slot
    <3>1. Holds(Wr(x), Rec(x))
      BY <1>1, <2>2 DEF TabOK
    <3>2. Wr(x)'.todo = {}
      BY <2>1, <2>3, CopyIs, CopiesSomewhere DEF Copies
    <3>3. Wr(x).todo = {chunk} /\ chunk \in Chunks
      BY <2>1, <2>2, <3>2, CopyIs
    <3>4. nodes'[i].head = Rec(x).head /\ nodes'[i].key = Rec(x).key
      BY <2>1, <2>3, <3>1, <3>3, CopyIs DEF Holds, Chunks
    <3>5. Rec(x).head.n \in Conns /\ Rec(x).key \in Key /\ Rec(x).key = agreed[Rec(x).head.n]
      BY <2>1, CopyIs, WriterTyped
    <3> QED
      BY <1>3, <3>4, <3>5
  <2>4. CASE i # Wr(x).slot
    <3>1. nodes'[i] = nodes[i]
      BY <2>1, <2>4, CopyIs
    <3>2. Copied(i) => Copied(i)'
      BY <2>2, <2>4, CopiesSomewhere DEF Keeps, Copies
    <3> QED
      BY <1>5, <3>1, <3>2
  <2> QED
    BY <2>3, <2>4
<1> QED
  BY <1>6, <1>7, <1>8, TableMoves

\* Every copy of an agreement's key is the key the server derived, in the rows and
\* in the client that was told of success whatever fails or overlaps, in the nodes
\* as long as no two copies into the table overlapped and none was cut off
\* (ServerOperation.cpp:129-160, ClientOperation.cpp:137-167).
THEOREM CopiesAgree == Spec => []KeysAgree
<1> DEFINE J == IInv /\ EndsOK /\ ServerOK /\ TabOK /\ GoodOK
<1>1. Init => J
  <2>1. Init => GoodOK
    BY DEF Init, GoodOK, Used, Blank
  <2> QED
    BY <2>1, InitInv, InitEnds, InitServer, InitTab
<1>2. J /\ [Next]_vars => J'
  BY StepInv, EndsStep, ServerStep, TabStep, GoodStep
<1>3. J => KeysAgree
  BY DEF KeysAgree, GoodOK, IInv, StoresOK, AnswerOK, Answers
<1> QED
  BY <1>1, <1>2, <1>3, PTL DEF Spec

-----------------------------------------------------------------------------
(* How many nodes an agreement has.                                        *)

\* The copy has its node and has filled the head of it.
HeadOut(w) == w # None /\ "head" \notin w.todo

\* The server's thread has filled its head, or will not; the client has, or will
\* not.
SrvPast(n) == /\ conn[n].pc \notin {"unused", "recv", "ask"}
              /\ conn[n].pc = "shm" => HeadOut(conn[n].wr)
CliPast(n) == /\ conn[n].pc = "closed"
              /\ \A c \in Clients : InOperation(c) /\ cli[c].n = n => HeadOut(cli[c].wr)

NodesOf(n) == {i \in Slots : Used(i) /\ nodes[i].head.n = n}

\* A node from the server's thread and one from the client, each at most.
CountOK ==
  \A n \in Conns : \E a, b : NodesOf(n) \subseteq (IF SrvPast(n) THEN {a} ELSE {})
                                                  \cup (IF CliPast(n) THEN {b} ELSE {})

LEMMA SrvPastStays ==
  ASSUME IInv, [Next]_vars, NEW n \in Conns, SrvPast(n) PROVE SrvPast(n)'
<1>1. conn[n].pc \notin {"unused", "recv", "ask"} /\ (conn[n].pc = "shm" => HeadOut(conn[n].wr))
  BY DEF SrvPast
<1>2. PcMoves(n) /\ WrMoves(n)
  BY ConnMoves DEF Moves
<1>3. conn'[n].pc \notin {"unused", "recv", "ask"} /\ (conn'[n].pc = "shm" => conn[n].pc = "shm")
  BY <1>1, <1>2 DEF PcMoves
<1>4. ASSUME conn'[n].pc = "shm" PROVE HeadOut(conn'[n].wr)
  <2>1. HeadOut(conn[n].wr)
    BY <1>1, <1>3, <1>4
  <2>2. CASE ShmScan(n)
    BY <2>1, <2>2 DEF ShmScan, HeadOut
  <2>3. CASE ShmCopy(n)
    <3>1. conn[n] \in ConnRec /\ conn \in [Conns -> ConnRec] /\ Fine(n, conn[n])
      BY ConnTyped
    <3>2. PICK chunk : conn' = [conn EXCEPT ![n].wr = Rest(conn[n].wr, chunk)]
      BY <2>3 DEF ShmCopy
    <3>3. conn'[n].wr = Rest(conn[n].wr, chunk)
      BY <3>1, <3>2, PcWr
    <3>4. Copies(conn[n].wr) /\ conn[n].wr \in Writes /\ conn[n].wr.slot \in Slots
      BY <2>1, <2>3, <3>1 DEF ShmCopy, Fine, ConnRec, HeadOut
    <3> QED
      BY <2>1, <3>3, <3>4, RestTyped, NoneIsNoWrite DEF HeadOut
  <2>4. CASE conn'[n].wr = None /\ (ShmDone(n) \/ Dies)
    <3>1. CASE ShmDone(n)
      <4>1. conn'[n].pc = "db"
        BY <3>1, ConnTyped, PcWr DEF ShmDone
      <4> QED
        BY <1>4, <4>1
    <3>2. CASE Dies
      BY <1>3, <1>4, <3>2, DeathIs
    <3> QED
      BY <2>4, <3>1, <3>2
  <2> QED
    BY <1>2, <2>1, <2>2, <2>3, <2>4 DEF WrMoves
<1> QED
  BY <1>3, <1>4 DEF SrvPast, HeadOut

LEMMA CliPastStays ==
  ASSUME IInv, [Next]_vars, NEW n \in Conns, CliPast(n) PROVE CliPast(n)'
<1>1. conn[n].pc = "closed" /\ \A c \in Clients : InOperation(c) /\ cli[c].n = n => HeadOut(cli[c].wr)
  BY DEF CliPast
<1>2. conn'[n].pc = "closed"
  BY <1>1, ClosedStays
<1>3. ASSUME NEW c \in Clients, InOperation(c)', cli'[c].n = n PROVE HeadOut(cli'[c].wr)
  <2>1. InOperation(c) /\ cli[c].n = n
    <3>1. n > opened => conn[n].pc = "unused"
      BY ConnTyped DEF Fine
    <3>2. opened \in Nat /\ n \in Nat
      BY Sizes DEF IInv, TypeOK, Conns
    <3>3. n # opened + 1
      BY <1>1, <3>1, <3>2
    <3> QED
      BY <1>3, <3>3, ClientMoves DEF CliMoves
  <2>2. HeadOut(cli[c].wr)
    BY <1>1, <2>1
  <2>3. CASE LocalScan(c)
    BY <2>2, <2>3 DEF LocalScan, HeadOut
  <2>4. CASE LocalCopy(c)
    <3>1. cli \in [Clients -> CliRec] /\ cli[c] \in CliRec
      BY WrOfClient
    <3>2. PICK chunk : cli' = [cli EXCEPT ![c].wr = Rest(cli[c].wr, chunk)]
      BY <2>4 DEF LocalCopy
    <3>3. cli'[c].wr = Rest(cli[c].wr, chunk)
      BY <3>1, <3>2 DEF CliRec
    <3>4. Copies(cli[c].wr) /\ cli[c].wr \in Writes /\ cli[c].wr.slot \in Slots
      BY <2>2, <2>4, <3>1 DEF LocalCopy, IInv, CliOK, CliRec, HeadOut
    <3> QED
      BY <2>2, <3>3, <3>4, RestTyped, NoneIsNoWrite DEF HeadOut
  <2>5. CASE cli'[c].wr = None /\ (StoreKey(c) \/ KillClient(c))
    <3>1. cli'[c] = Menu \/ cli'[c] = Down
      BY <2>5, WrOfClient DEF StoreKey, KillClient, Finish, Exit
    <3> QED
      BY <1>3, <3>1, IdleTyped DEF InOperation
  <2> QED
    BY <2>2, <2>3, <2>4, <2>5, ClientMoves DEF CliMoves
<1> QED
  BY <1>2, <1>3 DEF CliPast, HeadOut

\* A head copied into a node is the one of its agreement's end.
LEMMA HeadCopied ==
  ASSUME IInv, EndsOK, [Next]_vars, NEW x \in Writers, CopyBy(x, "head")
  PROVE  \/ \E n \in Conns : /\ Rec(x).head.n = n /\ ~SrvPast(n) /\ SrvPast(n)'
                              /\ conn'[n].pc = "shm"
         \/ \E n \in Conns, c \in Clients : /\ Rec(x).head.n = n /\ ~CliPast(n) /\ CliPast(n)'
                                             /\ cli[c].st = "store" /\ cli[c].n = n
<1>1. /\ Copies(Wr(x)) /\ "head" \in Wr(x).todo /\ Wr(x) # None /\ Wr(x)' # None
      /\ Wr(x)'.todo = Wr(x).todo \ {"head"} /\ Rec(x)' = Rec(x)
  BY CopyIs DEF CopyBy
<1>2. ~HeadOut(Wr(x)) /\ HeadOut(Wr(x)')
  BY <1>1 DEF HeadOut
<1>3. CASE \E n \in Conns : x = Thread(n)
  <2>1. PICK n \in Conns : x = Thread(n)
    BY <1>3
  <2>2. Rec(x).head.n = n /\ Wr(x) = conn[n].wr /\ Wr(x)' = conn'[n].wr
    BY <2>1, ThreadIs DEF Record
  <2>3. conn[n].pc = "shm" /\ conn'[n].pc = "shm"
    BY <1>1, <2>2, ConnTyped, StepInv DEF Fine, IInv, ConnOK
  <2>4. ~SrvPast(n) /\ SrvPast(n)'
    BY <1>2, <2>2, <2>3 DEF SrvPast, HeadOut
  <2> QED
    BY <2>1, <2>2, <2>3, <2>4
<1>4. CASE \E c \in Clients : x = Owner(c)
  <2>1. PICK c \in Clients : x = Owner(c)
    BY <1>4
  <2>2. PICK n : n = cli[c].n
    OBVIOUS
  <2>3. Rec(x).head.n = n /\ Rec(x)'.head.n = cli'[c].n /\ Wr(x) = cli[c].wr /\ Wr(x)' = cli'[c].wr
    BY <2>1, <2>2, OwnerIs DEF Record
  <2>4. cli[c].st = "store" /\ InOperation(c)
    BY <1>1, <2>3 DEF IInv, CliOK, InOperation
  <2>5. n \in Conns /\ conn[n].pc = "closed"
    BY <2>2, <2>4, ConnOfClient DEF EndsOK
  <2>6. ~CliPast(n)
    BY <1>2, <2>2, <2>3, <2>4 DEF CliPast
  <2>7. cli'[c].n = n
    BY <1>1, <2>3
  <2>8. ASSUME NEW d \in Clients, InOperation(d)', cli'[d].n = n PROVE d = c
    <3>1. IInv'
      BY StepInv
    <3>2. conn'[n].c = d
      BY <2>8, <3>1 DEF IInv, CliOK, InOperation
    <3>3. cli'[c].st = "store"
      BY <1>1, <2>3, <3>1 DEF IInv, CliOK
    <3>4. conn'[n].c = c
      BY <2>7, <3>1, <3>3 DEF IInv, CliOK, InOperation
    <3> QED
      BY <3>2, <3>4
  <2>9. CliPast(n)'
    BY <1>2, <2>3, <2>5, <2>8, ClosedStays DEF CliPast, HeadOut
  <2> QED
    BY <2>2, <2>3, <2>4, <2>5, <2>6, <2>9
<1> QED
  BY <1>3, <1>4, WriterIs

\* A node of agreement n that is new, or was another's, was filled in this step.
LEMMA NodeMoves ==
  ASSUME IInv, ServerOK, [Next]_vars, NEW i \in Slots, Used(i)'
  PROVE  \/ Used(i) /\ nodes'[i].head = nodes[i].head
         \/ \E x \in Writers : /\ CopyBy(x, "head") /\ Wr(x).slot = i /\ nodes'[i].head = Rec(x).head
                               /\ \A j \in Slots : j # i => nodes'[j] = nodes[j]
<1>1. CASE nodes' = nodes
  BY <1>1 DEF Used
<1>2. CASE \E x \in Writers : \E chunk : CopyBy(x, chunk)
  <2>0. PICK x \in Writers : \E chunk : CopyBy(x, chunk)
    BY <1>2
  <2>1. PICK chunk : CopyBy(x, chunk)
    BY <2>0
  <2>2. CASE nodes'[i].head = nodes[i].head
    BY <2>2 DEF Used
  <2>3. CASE nodes'[i].head # nodes[i].head
    <3>1. i = Wr(x).slot /\ chunk = "head"
      BY <2>1, <2>3, CopyIs
    <3> QED
      BY <2>1, <3>1, CopyIs
  <2> QED
    BY <2>2, <2>3
<1> QED
  BY <1>1, <1>2, TableMoves DEF Quiet, ScanBy

LEMMA CountStep == IInv /\ EndsOK /\ ServerOK /\ CountOK /\ [Next]_vars => CountOK'
<1> SUFFICES ASSUME IInv, EndsOK, ServerOK, CountOK, [Next]_vars, NEW n \in Conns
             PROVE  \E a, b : NodesOf(n)' \subseteq (IF SrvPast(n)' THEN {a} ELSE {})
                                                    \cup (IF CliPast(n)' THEN {b} ELSE {})
  BY DEF CountOK
<1>1. PICK a, b : NodesOf(n) \subseteq (IF SrvPast(n) THEN {a} ELSE {})
                                       \cup (IF CliPast(n) THEN {b} ELSE {})
  BY DEF CountOK
<1>2. (SrvPast(n) => SrvPast(n)') /\ (CliPast(n) => CliPast(n)')
  BY SrvPastStays, CliPastStays
<1>3. CASE \E x \in Writers : CopyBy(x, "head") /\ Rec(x).head.n = n
  <2>1. PICK x \in Writers : CopyBy(x, "head") /\ Rec(x).head.n = n
    BY <1>3
  <2>2. NodesOf(n)' \subseteq NodesOf(n) \cup {Wr(x).slot}
    BY <2>1, CopyIs DEF NodesOf, Used
  <2>3. (~SrvPast(n) /\ SrvPast(n)') \/ (~CliPast(n) /\ CliPast(n)')
    BY <2>1, HeadCopied
  <2>4. CASE ~SrvPast(n) /\ SrvPast(n)'
    <3>1. NodesOf(n)' \subseteq (IF SrvPast(n)' THEN {Wr(x).slot} ELSE {})
                                \cup (IF CliPast(n)' THEN {b} ELSE {})
      BY <1>1, <1>2, <2>2, <2>4
    <3> QED
      BY <3>1
  <2>5. CASE ~CliPast(n) /\ CliPast(n)'
    <3>1. NodesOf(n)' \subseteq (IF SrvPast(n)' THEN {a} ELSE {})
                                \cup (IF CliPast(n)' THEN {Wr(x).slot} ELSE {})
      BY <1>1, <1>2, <2>2, <2>5
    <3> QED
      BY <3>1
  <2> QED
    BY <2>3, <2>4, <2>5
<1>4. CASE ~ \E x \in Writers : CopyBy(x, "head") /\ Rec(x).head.n = n
  <2>1. NodesOf(n)' \subseteq NodesOf(n)
    <3> SUFFICES ASSUME NEW i \in Slots, Used(i)', nodes'[i].head.n = n PROVE i \in NodesOf(n)
      BY DEF NodesOf
    <3> QED
      BY <1>4, NodeMoves DEF NodesOf
  <2> QED
    BY <1>1, <1>2, <2>1
<1> QED
  BY <1>3, <1>4

LEMMA InitCount == Init => CountOK
  BY DEF Init, CountOK, NodesOf, Used, Blank

\* An agreement has one row at most and a node of each end at most, whatever is
\* killed, fails or overlaps (ServerOperation.cpp:157-160, ClientOperation.cpp:167).
THEOREM OnceEach == Spec => []RecordedOnce
<1> DEFINE J == IInv /\ EndsOK /\ ServerOK /\ RowsOnce /\ CountOK
<1>1. Init => J
  BY InitInv, InitEnds, InitServer, InitCount DEF Init, RowsOnce
<1>2. J /\ [Next]_vars => J'
  BY StepInv, EndsStep, ServerStep, RowsOnceStep, CountStep
<1>3. J => RecordedOnce
  <2> SUFFICES ASSUME J, NEW n \in Conns PROVE Cardinality(NodesOf(n)) <= 2
    BY DEF RecordedOnce, RowsOnce, NodesOf
  <2>1. PICK a, b : NodesOf(n) \subseteq {a, b}
    <3>1. PICK a, b : NodesOf(n) \subseteq (IF SrvPast(n) THEN {a} ELSE {})
                                           \cup (IF CliPast(n) THEN {b} ELSE {})
      BY DEF CountOK
    <3>2. NodesOf(n) \subseteq {a, b}
      BY <3>1
    <3> QED
      BY <3>2
  <2>2. IsFiniteSet({a, b}) /\ Cardinality({a, b}) <= 2
    <3>1. IsFiniteSet({a}) /\ Cardinality({a}) = 1
      BY FS_Singleton
    <3>2. IsFiniteSet({a} \cup {b}) /\ (Cardinality({a} \cup {b}) = 1 \/ Cardinality({a} \cup {b}) = 2)
      BY <3>1, FS_AddElement
    <3>3. {a} \cup {b} = {a, b}
      OBVIOUS
    <3> QED
      BY <3>2, <3>3
  <2>3. Cardinality(NodesOf(n)) <= Cardinality({a, b}) /\ IsFiniteSet(NodesOf(n))
    BY <2>1, <2>2, FS_Subset
  <2>4. Cardinality(NodesOf(n)) \in Nat /\ Cardinality({a, b}) \in Nat
    BY <2>2, <2>3, FS_CardinalityType
  <2> QED
    BY <2>2, <2>3, <2>4
<1> QED
  BY <1>1, <1>2, <1>3, PTL DEF Spec

-----------------------------------------------------------------------------
\* As long as nothing ended a process, no statement failed and no calls overlapped,
\* a node is of an agreement that has its row or is about to have it.
RowedOK ==
  kills = 0 /\ died = {} /\ Spared({"dbFailed", "dbOverlap"}) =>
    \A i \in Slots : Used(i) =>
      conn[nodes[i].head.n].pc \in {"shm", "db"} \/ HasRow(nodes[i].head.n)

\* Where the agreement stays until its row is there.
LEMMA RowComes ==
  ASSUME IInv, MixedOK, CountOK, [Next]_vars, kills' = 0, died' = {},
         Spared({"dbFailed", "dbOverlap"})', NEW i \in Slots, Used(i), NEW n, n = nodes[i].head.n,
         conn[n].pc \in {"shm", "db"} \/ HasRow(n)
  PROVE  conn'[n].pc \in {"shm", "db"} \/ HasRow(n)'
<1>1. n \in Conns
  BY StoredTyped DEF Used, NodeRec, NodeHead
<1>2. CASE HasRow(n)
  BY <1>2, RowsGrow
<1>3. CASE conn[n].pc \in {"shm", "db"}
  <2>1. ~Dies
    BY DEF Dies, KillServer, ShmFaults, ReplyFaults, SendFaults, Die, IInv, TypeOK
  <2>2. ~ShmBad(n)
    <3> SUFFICES ASSUME ShmBad(n) PROVE FALSE
      OBVIOUS
    <3>1. conn[n].pc = "shm" /\ conn[n].wr = None
      BY DEF ShmBad
    <3>2. ~SrvPast(n) /\ ~CliPast(n)
      BY <3>1 DEF SrvPast, CliPast, HeadOut
    <3>3. i \in NodesOf(n)
      BY DEF NodesOf
    <3> QED
      BY <1>1, <3>2, <3>3 DEF CountOK
  <2>3. AgreeDb(n) => HasRow(n)'
    BY <1>1, RowAdded
  <2> QED
    BY <1>1, <1>3, <2>1, <2>2, <2>3, ConnMoves DEF Moves, PcMoves
<1> QED
  BY <1>2, <1>3

LEMMA RowedStep ==
  IInv /\ EndsOK /\ ServerOK /\ MixedOK /\ StoredOK /\ CountOK /\ RowedOK /\ [Next]_vars => RowedOK'
<1> SUFFICES ASSUME IInv, EndsOK, ServerOK, MixedOK, StoredOK, CountOK, RowedOK, [Next]_vars,
                    kills' = 0, died' = {}, Spared({"dbFailed", "dbOverlap"})',
                    NEW i \in Slots, Used(i)'
             PROVE  conn'[nodes'[i].head.n].pc \in {"shm", "db"} \/ HasRow(nodes[i].head.n)'
  BY DEF RowedOK
<1> PICK n : n = nodes'[i].head.n
  OBVIOUS
<1> SUFFICES conn'[n].pc \in {"shm", "db"} \/ HasRow(n)'
  BY DEF HasRow
<1>1. kills = 0 /\ died = {} /\ Spared({"dbFailed", "dbOverlap"})
  BY PastStays, SparedBefore DEF IInv, TypeOK
<1>2. CASE Used(i) /\ nodes'[i].head = nodes[i].head
  BY <1>1, <1>2, RowComes DEF RowedOK
<1>3. CASE \E x \in Writers : CopyBy(x, "head") /\ nodes'[i].head = Rec(x).head
  <2>1. PICK x \in Writers : CopyBy(x, "head") /\ nodes'[i].head = Rec(x).head
    BY <1>3
  <2>2. \/ conn'[n].pc = "shm"
        \/ \E c \in Clients : cli[c].st = "store" /\ cli[c].n = n
    BY <2>1, HeadCopied
  <2>3. (\E c \in Clients : cli[c].st = "store" /\ cli[c].n = n) => HasRow(n)
    BY <1>1 DEF StoredOK
  <2> QED
    BY <2>2, <2>3, RowsGrow
<1> QED
  BY <1>2, <1>3, NodeMoves

\* As long as nothing ended a process, no statement failed and no two threads were
\* in calls of the database at once, every node is of an agreement that has its
\* row, or is about to have it (ServerOperation.cpp:157-160).
THEOREM NodesHaveTheirRows == Spec => []NoOrphans
<1> DEFINE J == IInv /\ EndsOK /\ ServerOK /\ MixedOK /\ StoredOK /\ CountOK /\ RowedOK
<1>1. Init => J
  <2>1. Init => RowedOK
    BY DEF Init, RowedOK, Used, Blank
  <2> QED
    BY <2>1, InitInv, InitEnds, InitServer, InitCount, InitStored
<1>2. J /\ [Next]_vars => J'
  BY StepInv, EndsStep, ServerStep, MixedStep, StoredStep, CountStep, RowedStep
<1>3. J => NoOrphans
  BY DEF NoOrphans, RowedOK, HasRow
<1> QED
  BY <1>1, <1>2, <1>3, PTL DEF Spec

-----------------------------------------------------------------------------
(* The client's own node.                                                  *)

Kept(n) == \E i \in Slots : Used(i) /\ nodes[i].head.n = n /\ nodes[i].key = agreed[n]
Full == \A i \in Slots : i <= total => Used(i)

\* Who has constructed its SecKeyShm has met or made a header, and no server sets
\* the header after a client has connected.
HeaderOK ==
  /\ opened > 0 => total > 0
  /\ srv = "set" => opened = 0
  /\ \A c \in Clients : cli[c].st \notin {"down", "check", "set"} => total > 0

LEMMA TotalMoves ==
  ASSUME IInv, [Next]_vars
  PROVE  /\ total' = total \/ total' = 1 \/ (SrvSetTotal /\ total' = TableSize)
         /\ opened' = opened \/ \E c \in Clients : Connect(c) /\ opened' = opened + 1 /\ total' = total
<1>1. CASE \E n \in Conns : Serves(n)
  BY <1>1, ServeIs
<1>2. CASE Dies
  BY <1>2 DEF Dies, KillServer, ShmFaults, ReplyFaults, SendFaults, Die, shmVars
<1>3. CASE \E c \in Clients : Acts(c)
  <2>1. PICK c \in Clients : Acts(c)
    BY <1>3
  <2>2. CASE Connect(c)
    BY <2>2 DEF Connect, SrvUnchanged
  <2>3. CASE SetTotal(c)
    BY <2>3 DEF SetTotal
  <2>4. CASE ~Connect(c) /\ ~SetTotal(c)
    BY <2>1, <2>4 DEF Acts, Begin, Proceed, StartClient, CheckHeader, Quit, Choose, BeginRead,
       ReadLocal, NoLocalKey, ConnectFails, SendRequest, SendRequestFaults, ReceiveFails,
       ReceiveKey, Receive, LocalScan, LocalCopy, StoreKey, Begins, OnlyClient, SrvUnchanged,
       KillClient, shmVars
  <2> QED
    BY <2>2, <2>3, <2>4
<1>4. CASE StartServer \/ SrvCheckHeader \/ SrvSetTotal \/ LoseDb \/ UNCHANGED vars
  BY <1>4 DEF StartServer, SrvCheckHeader, SrvSetTotal, SrvHeader, LoseDb, vars, shmVars
<1> QED
  BY <1>1, <1>2, <1>3, <1>4, NextSplit

\* A client constructs its object before it does anything else.
LEMMA ConstructMoves ==
  ASSUME IInv, [Next]_vars, NEW c \in Clients, cli'[c].st \notin {"down", "check", "set"}
  PROVE  cli[c].st \notin {"down", "check", "set"} \/ total' > 0
<1>1. cli \in [Clients -> CliRec] /\ cli[c] \in CliRec
  BY WrOfClient
<1>2. CASE Acts(c)
  <2>1. CASE StartClient(c)
    BY <1>1, <2>1 DEF StartClient, Goto, CliRec
  <2>2. CASE CheckHeader(c)
    <3>1. total' = total /\ cli' = [cli EXCEPT ![c].st = IF total = 0 THEN "set" ELSE "menu"]
      BY <2>2 DEF CheckHeader, Goto, OnlyClient, SrvUnchanged
    <3>2. cli'[c].st = IF total = 0 THEN "set" ELSE "menu"
      BY <1>1, <3>1 DEF CliRec
    <3>3. total \in Nat
      BY Sizes DEF IInv, TypeOK
    <3> QED
      BY <3>1, <3>2, <3>3
  <2>3. CASE SetTotal(c)
    BY <2>3 DEF SetTotal
  <2>4. CASE KillClient(c)
    BY <1>1, <2>4, IdleTyped DEF KillClient, Exit
  <2>5. CASE ~StartClient(c) /\ ~CheckHeader(c) /\ ~SetTotal(c) /\ ~KillClient(c)
    <3>1. CASE LocalCopy(c)
      BY <3>1, WrOfClient DEF LocalCopy, Copies
    <3>2. CASE ~LocalCopy(c)
      BY <1>2, <2>5, <3>2 DEF Acts, Begin, Proceed, Quit, Choose, BeginRead, ReadLocal, NoLocalKey,
         ConnectFails, Connect, SendRequest, SendRequestFaults, ReceiveFails, ReceiveKey, Receive,
         LocalScan, StoreKey, At
    <3> QED
      BY <3>1, <3>2
  <2> QED
    BY <2>1, <2>2, <2>3, <2>4, <2>5
<1>3. CASE cli'[c] = cli[c]
  BY <1>3
<1> QED
  BY <1>2, <1>3, ClientMoves

LEMMA HeaderStep == IInv /\ HeaderOK /\ [Next]_vars => HeaderOK'
<1> SUFFICES ASSUME IInv, HeaderOK, [Next]_vars PROVE HeaderOK'
  OBVIOUS
<1>1. total \in Nat /\ opened \in Nat /\ TableSize \in Nat /\ TableSize > 0
  BY Sizes DEF IInv, TypeOK
<1>2. total > 0 => total' > 0
  BY <1>1, TotalMoves
<1>3. \A c \in Clients : Connect(c) => cli[c].st = "ready" /\ srv' = "up"
  BY DEF Connect, At, SrvUnchanged, srvVars
<1>4. opened' > 0 => total' > 0
  <2>1. CASE opened' = opened
    BY <1>2, <2>1 DEF HeaderOK
  <2>2. CASE \E c \in Clients : Connect(c)
    BY <1>2, <1>3, <2>2 DEF HeaderOK
  <2> QED
    BY <2>1, <2>2, TotalMoves
<1>5. srv' = "set" => opened' = 0
  <2> SUFFICES ASSUME srv' = "set" PROVE opened' = 0
    OBVIOUS
  <2>1. opened' = opened
    BY <1>3, TotalMoves
  <2>2. CASE StartServer
    BY <2>2 DEF StartServer
  <2>3. CASE SrvCheckHeader
    BY <1>1, <2>1, <2>3 DEF SrvCheckHeader, SrvHeader, HeaderOK
  <2>4. CASE SrvSetTotal
    BY <2>4 DEF SrvSetTotal, SrvHeader
  <2>5. CASE Dies
    BY <2>5 DEF Dies, KillServer, ShmFaults, ReplyFaults, SendFaults, Die, ServerGone
  <2>6. CASE UNCHANGED <<srv, attached>>
    BY <2>1, <2>6 DEF HeaderOK
  <2> QED
    BY <2>2, <2>3, <2>4, <2>5, <2>6, ServerMoves
<1>6. ASSUME NEW c \in Clients, cli'[c].st \notin {"down", "check", "set"} PROVE total' > 0
  BY <1>2, <1>6, ConstructMoves DEF HeaderOK
<1> QED
  BY <1>4, <1>5, <1>6 DEF HeaderOK

\* A node in use stays in use, and a full table stays full once there are clients.
LEMMA UsedStays ==
  ASSUME IInv, ServerOK, [Next]_vars, NEW i \in Slots, Used(i)
  PROVE  Used(i)'
<1>1. CASE nodes' = nodes
  BY <1>1 DEF Used
<1>2. CASE \E x \in Writers : \E chunk : CopyBy(x, chunk)
  <2>0. PICK x \in Writers : \E chunk : CopyBy(x, chunk)
    BY <1>2
  <2>1. PICK chunk : CopyBy(x, chunk)
    BY <2>0
  <2>2. Rec(x).head # None
    BY <2>1, CopyIs, WriterTyped, NoneIsNoHead
  <2> QED
    BY <2>1, <2>2, CopyIs DEF Used
<1> QED
  BY <1>1, <1>2, TableMoves DEF Quiet, ScanBy

LEMMA FullStays ==
  ASSUME IInv, ServerOK, HeaderOK, [Next]_vars, opened > 0, Full
  PROVE  Full'
<1>1. total \in Nat /\ total > 0 /\ ~SrvSetTotal
  BY Sizes DEF HeaderOK, SrvSetTotal, IInv, TypeOK
<1>2. total' <= total
  BY <1>1, TotalMoves
<1>3. \A i \in Slots : i \in Nat
  BY DEF Slots
<1>4. total' \in Nat
  BY <1>1, TotalMoves
<1> QED
  BY <1>1, <1>2, <1>3, <1>4, UsedStays DEF Full

LEMMA KeptStays ==
  ASSUME IInv, ServerOK, TabOK, [Next]_vars, Spared({"shmOverlap"})', NEW n, Kept(n)
  PROVE  Kept(n)'
<1>1. PICK i \in Slots : Used(i) /\ nodes[i].head.n = n /\ nodes[i].key = agreed[n]
  BY DEF Kept
<1>2. n \in Conns /\ agreed[n] \in Key
  BY <1>1, StoredTyped DEF IInv, StoresOK, Used, NodeRec, NodeHead
<1>3. agreed'[n] = agreed[n]
  BY <1>2, KeysStay
<1>4. CASE nodes'[i] = nodes[i]
  BY <1>1, <1>3, <1>4 DEF Kept, Used
<1>5. CASE \E x \in Writers : \E chunk : CopyBy(x, chunk) /\ Wr(x).slot = i
  <2>0. PICK x \in Writers : \E chunk : CopyBy(x, chunk) /\ Wr(x).slot = i
    BY <1>5
  <2>1. PICK chunk : CopyBy(x, chunk) /\ Wr(x).slot = i
    BY <2>0
  <2>2. Holds(Wr(x), Rec(x)) /\ chunk \in Wr(x).todo
    BY <2>1, SparedBefore DEF TabOK, CopyBy
  <2>3. "head" \notin Wr(x).todo /\ nodes[i].head = Rec(x).head
    BY <1>1, <2>1, <2>2 DEF Holds, Used
  <2>4. chunk = "key"
    BY <2>1, <2>2, <2>3, CopyIs DEF Chunks
  <2>5. Rec(x).key = agreed[n]
    BY <1>1, <2>1, <2>3, CopyIs, WriterTyped
  <2>6. nodes'[i].head = nodes[i].head /\ nodes'[i].key = Rec(x).key
    BY <2>1, <2>4, CopyIs
  <2> QED
    BY <1>1, <1>3, <2>5, <2>6 DEF Kept, Used
<1> QED
  BY <1>4, <1>5, TableMoves, CopyIs DEF Quiet, ScanBy

\* Where no node is the first free one, there is none.
LEMMA NoneFree ==
  ASSUME IInv, FirstFree = {} PROVE Full
<1> DEFINE R == {ss \in Nat \X Nat : ss[1] < ss[2]}
           T == {i \in Slots : i <= total /\ ~Used(i)}
<1> SUFFICES ASSUME T # {} PROVE FALSE
  BY DEF Full
<1>1. IsWellFoundedOn(R, Nat)
  <2>1. R = OpToRel(<, Nat)
    BY DEF OpToRel
  <2> QED
    BY <2>1, NatLessThanWellFounded, Zenon
<1>2. \A a, b \in Nat : a < b => <<a, b>> \in R
  OBVIOUS
<1>3. T \subseteq Nat
  BY DEF Slots
<1> HIDE DEF R, T
<1>4. PICK i \in T : \A j \in T : <<j, i>> \notin R
  BY <1>1, <1>3, WFMin, Zenon
<1>5. i \in Slots /\ i <= total /\ ~Used(i)
  BY <1>4 DEF T
<1>6. ASSUME NEW j \in Slots, j < i PROVE Used(j)
  <2>1. j \in Nat /\ i \in Nat /\ total \in Nat
    BY <1>5, Sizes DEF Slots, IInv, TypeOK
  <2>2. j \notin T
    BY <1>2, <1>4, <1>6, <2>1
  <2>3. j <= total
    BY <1>5, <1>6, <2>1
  <2> QED
    BY <1>6, <2>2, <2>3 DEF T
<1>7. i \in FirstFree
  BY <1>5, <1>6 DEF FirstFree
<1> QED
  BY <1>7

\* A writer that has written its record has it in its node, or found none.
LEMMA WrittenMoves ==
  ASSUME IInv, ServerOK, TabOK, [Next]_vars, Spared({"shmOverlap"})', NEW x \in Writers, Written(Wr(x))'
  PROVE  Written(Wr(x)) \/ Full \/ Kept(Rec(x).head.n) \/ \E n : n = Rec(x).head.n /\ Kept(n)'
<1>1. Keeps(x) => Written(Wr(x))
  BY DEF Keeps, Written
<1>2. CASE Quiet
  BY <1>1, <1>2 DEF Quiet, Drops, Written
<1>3. CASE \E y \in Writers : ScanBy(y)
  <2>1. PICK y \in Writers : ScanBy(y)
    BY <1>3
  <2>2. CASE y = x
    <3>1. PICK w \in Scan : Wr(x)' = w
      BY <2>1, <2>2 DEF ScanBy
    <3>2. FirstFree = {}
      BY <3>1 DEF Scan, Written, Chunks
    <3> QED
      BY <3>2, NoneFree
  <2> QED
    BY <1>1, <2>1, <2>2 DEF ScanBy
<1>4. CASE \E y \in Writers : \E chunk : CopyBy(y, chunk)
  <2>0. PICK y \in Writers : \E chunk : CopyBy(y, chunk)
    BY <1>4
  <2>1. PICK chunk : CopyBy(y, chunk)
    BY <2>0
  <2>2. CASE y = x
    <3>1. Holds(Wr(x), Rec(x)) /\ chunk \in Wr(x).todo
      BY <2>1, <2>2, SparedBefore DEF TabOK, CopyBy
    <3>2. Wr(x).todo = {chunk} /\ chunk \in Chunks
      BY <2>1, <2>2, <3>1, CopyIs DEF Written
    <3>3. nodes'[Wr(x).slot].head = Rec(x).head /\ nodes'[Wr(x).slot].key = Rec(x).key
      BY <2>1, <2>2, <3>1, <3>2, CopyIs DEF Holds, Chunks
    <3>4. /\ Rec(x).head \in NodeHead /\ Rec(x).head.n \in Conns /\ Wr(x).slot \in Slots
          /\ Rec(x).key \in Key /\ Rec(x).key = agreed[Rec(x).head.n]
      BY <2>1, <2>2, CopyIs, WriterTyped
    <3> PICK n, i : n = Rec(x).head.n /\ i = Wr(x).slot
      OBVIOUS
    <3>5. agreed'[n] = agreed[n]
      BY <3>4, KeysStay
    <3>6. nodes'[i].head # None /\ nodes'[i].head.n = n /\ nodes'[i].key = agreed'[n] /\ i \in Slots
      BY <3>3, <3>4, <3>5, NoneIsNoHead
    <3>7. Kept(n)'
      BY <3>6 DEF Kept, Used
    <3> QED
      BY <3>7
  <2> QED
    BY <1>1, <2>1, <2>2 DEF CopyBy
<1> QED
  BY <1>2, <1>3, <1>4, TableMoves

\* As long as no copies overlapped, a client that has stored its key has it in a
\* node, or there was none.
LocalOK ==
  Spared({"shmOverlap"}) =>
    /\ \A c \in Clients : Written(cli[c].wr) => Kept(cli[c].n) \/ Full
    /\ \A c \in Clients : Answers(c, "agree", 0) => opened > 0 /\ (Kept(last[c].n) \/ Full)

LEMMA LocalStep ==
  IInv /\ ServerOK /\ TabOK /\ HeaderOK /\ LocalOK /\ [Next]_vars => LocalOK'
<1> SUFFICES ASSUME IInv, ServerOK, TabOK, HeaderOK, LocalOK, [Next]_vars, Spared({"shmOverlap"})'
             PROVE  /\ \A c \in Clients : Written(cli[c].wr)' => Kept(cli[c].n)' \/ Full'
                    /\ \A c \in Clients : Answers(c, "agree", 0)' =>
                         opened' > 0 /\ (Kept(last[c].n)' \/ Full')
  BY DEF LocalOK
<1>0. /\ \A c \in Clients : Written(cli[c].wr) => Kept(cli[c].n) \/ Full
      /\ \A c \in Clients : Answers(c, "agree", 0) => opened > 0 /\ (Kept(last[c].n) \/ Full)
  BY SparedBefore DEF LocalOK
<1>1. ASSUME opened > 0, NEW n, Kept(n) \/ Full \/ Kept(n)' PROVE Kept(n)' \/ Full'
  BY <1>1, KeptStays, FullStays
<1>2. \A c \in Clients : InOperation(c) => opened > 0
  BY DEF IInv, CliOK, TypeOK
<1>3. opened > 0 => opened' > 0
  <2>1. opened \in Nat
    BY Sizes DEF IInv, TypeOK
  <2> QED
    BY <2>1, TotalMoves
<1>4. ASSUME NEW c \in Clients, Written(cli[c].wr)' PROVE Kept(cli[c].n)' \/ Full'
  <2>1. cli'[c].st = "store"
    BY <1>4, StepInv DEF IInv, CliOK, Written
  <2>2. InOperation(c) /\ cli'[c].n = cli[c].n
    BY <2>1, ClientMoves DEF CliMoves
  <2> PICK n : n = cli[c].n
    OBVIOUS
  <2>3. Rec(Owner(c)).head.n = n /\ Written(Wr(Owner(c)))' /\ Wr(Owner(c)) = cli[c].wr /\ Owner(c) \in Writers
    BY <1>4, OwnerIs, WriterIs DEF Record, Written
  <2>4. Written(cli[c].wr) \/ Full \/ Kept(n) \/ Kept(n)'
    BY <2>3, WrittenMoves
  <2>5. Kept(n) \/ Full \/ Kept(n)'
    BY <1>0, <2>4
  <2>6. Kept(n)' \/ Full'
    BY <1>1, <1>2, <2>2, <2>5
  <2> QED
    BY <2>2, <2>6 DEF Kept
<1>5. ASSUME NEW c \in Clients, Answers(c, "agree", 0)'
      PROVE  opened' > 0 /\ (Kept(last[c].n)' \/ Full')
  <2> PICK n : n = last'[c].n
    OBVIOUS
  <2>1. opened > 0 /\ (Kept(n) \/ Full)
    <3>1. CASE last'[c] = last[c] /\ Answers(c, "agree", 0)
      BY <1>0, <3>1
    <3>2. CASE StoreKey(c) /\ last'[c].n = cli[c].n
      <4>1. InOperation(c) /\ Written(cli[c].wr)
        BY <3>2 DEF StoreKey, At, InOperation
      <4> QED
        BY <1>0, <1>2, <3>2, <4>1
    <3> QED
      BY <1>5, <3>1, <3>2, SuccessMoves
  <2>2. Kept(n)' \/ Full'
    BY <1>1, <2>1
  <2> QED
    BY <1>3, <2>1, <2>2 DEF Kept
<1> QED
  BY <1>4, <1>5

\* As long as no two copies into the table overlapped, a client told of the success
\* of its agreement has a node with its key, or every node the header counts is in
\* use, whoever is killed (ClientOperation.cpp:167-174).
THEOREM SuccessIsLocal == Spec => []AgreedIsLocal
<1> DEFINE J == IInv /\ EndsOK /\ ServerOK /\ TabOK /\ HeaderOK /\ LocalOK
<1>1. Init => J
  <2>1. Init => HeaderOK
    BY DEF Init, HeaderOK, Down
  <2>2. Init => LocalOK
    BY DEF Init, LocalOK, Written, Answers, Down
  <2> QED
    BY <2>1, <2>2, InitInv, InitEnds, InitServer, InitTab
<1>2. J /\ [Next]_vars => J'
  BY StepInv, EndsStep, ServerStep, TabStep, HeaderStep, LocalStep
<1>3. J => AgreedIsLocal
  <2> SUFFICES ASSUME J, Spared({"shmOverlap"}), NEW c \in Clients, Answers(c, "agree", 0)
               PROVE  \/ \E i \in Slots : Used(i) /\ nodes[i].head.n = last[c].n
                                          /\ nodes[i].key = last[c].key
                      \/ \A i \in Slots : i <= total => Used(i)
    BY DEF AgreedIsLocal
  <2>1. last[c].key = agreed[last[c].n]
    BY DEF IInv, AnswerOK, Answers
  <2>2. Kept(last[c].n) \/ Full
    BY DEF LocalOK
  <2> QED
    BY <2>1, <2>2 DEF Kept, Full
<1> QED
  BY <1>1, <1>2, <1>3, PTL DEF Spec
=============================================================================
