------------------------- MODULE KeyAgreementProofs -------------------------
(***************************************************************************)
(* The types of the whole system, and what its messages and locals carry,  *)
(* for any number of clients, connections, kills and restarts, on either   *)
(* width of long, with a database that may fail and calls that overlap.    *)
(*                                                                         *)
(* IInv follows a key from the server thread's locals through request and  *)
(* reply (ConnOK) into the client's (CliOK), the rows and the answer the   *)
(* client ends with.  KeyAgreementStoresProofs builds on it.               *)
(***************************************************************************)
EXTENDS KeyAgreement, TLAPS

NodeRec == [head : NodeHead \cup {None}, key : Key \cup {None}]
RowRec  == [id : Ids, key : Key, state : {0, 1}, n : Conns]

\* The calls of a thread that has a request, and those of an accepted agreement.
Serving  == {"ask", "shm", "bad", "db", "reply"}
Agreeing == {"shm", "bad", "db"}

\* A connection n in state k, and its thread.
Fine(n, k) ==
  /\ n > opened => k.pc = "unused"
  /\ k.pc \in {"unused", "recv", "ask"} => agreed[n] = None /\ ~k.sent
  /\ k.pc \in Serving => k.req # None
  /\ k.pc \in Agreeing \cup {"reply"} \/ k.sent =>
       /\ k.req # None /\ k.rsp \in Answered
       /\ k.req.cmd = "agree" /\ k.rsp.rv = 0 =>
            /\ agreed[n] \in Key /\ agreed[n] = <<k.req.arg, k.rsp.r2>>
            /\ k.rsp.kid \in KeyIds
  /\ k.pc \in Agreeing =>
       k.req.cmd = "agree" /\ k.key \in Key /\ k.key = agreed[n] /\ k.kid \in KeyIds
  /\ k.req # None => k.req \in Sent /\ (k.req.cmd = "agree" => k.req.arg \in Nonces)
  /\ k.wr # None => k.pc = "shm"
  /\ Copies(k.wr) => k.wr.slot \in Slots
ConnOK(n) == Fine(n, conn[n])

InOperation(c) == cli[c].st \in {"connected", "waiting", "store"}
Asks(q) == q \in Sent /\ (q.cmd = "agree" => q.arg \in Nonces)

\* The client c and its end of its connection.
CliOK(c) ==
  LET p == cli[c] IN
  /\ ~InOperation(c) => p.n = 0
  /\ InOperation(c) =>
       /\ p.n \in 1..opened
       /\ conn[p.n].c = c /\ conn[p.n].open
       /\ conn[p.n].req \in {None, p.req}
  /\ InOperation(c) \/ p.st = "ready" => Asks(p.req)
  /\ p.st = "store" => p.key \in Key /\ p.key = agreed[p.n] /\ p.kid \in KeyIds
  /\ p.wr # None => p.st = "store"
  /\ Copies(p.wr) => p.wr.slot \in Slots

AnswerOK(l) == l # None /\ l.cmd = "agree" /\ l.rv = 0 => l.key \in Key /\ l.key = agreed[l.n]

StoresOK ==
  /\ nodes \in [Slots -> NodeRec] /\ rows \in Seq(RowRec)
  /\ \A i \in Slots : Used(i) => agreed[nodes[i].head.n] \in Key
  /\ \A k \in DOMAIN rows : rows[k].key = agreed[rows[k].n]

\* The types of the server, the header and the histories.
MiscOK ==
  /\ srv \in {"down", "check", "set", "up"} /\ db \in {"down", "good", "mixed"}
  /\ attached \in BOOLEAN
  /\ cap \in Nat /\ total \in 0..TableSize
  /\ kills \in Nat /\ died \in SUBSET {"encode", "sigpipe", "shm"}
  /\ past \in SUBSET Troubles

IInv ==
  /\ TypeOK
  /\ StoresOK
  /\ \A n \in Conns : ConnOK(n)
  /\ \A c \in Clients : CliOK(c)
  /\ \A c \in Clients : AnswerOK(last[c])

LEMMA NoneIsNoKey == None \notin Key
  BY SystemAssumption DEF SystemAssumption, Key

LEMMA NoneIsNoHead == None \notin NodeHead
  BY SystemAssumption DEF SystemAssumption, NodeHead, Conns

LEMMA Sizes == TableSize \in Nat /\ TableSize > 0 /\ MaxConns \in Nat /\ KeyIds \subseteq Nat
  BY SystemAssumption DEF SystemAssumption

LEMMA TypesSplit ==
  /\ TypeOK => /\ MiscOK /\ conn \in [Conns -> ConnRec] /\ cli \in [Clients -> CliRec]
               /\ last \in [Clients -> Last \cup {None}] /\ opened \in 0..MaxConns
               /\ agreed \in [Conns -> Key \cup {None}] /\ opened \in Nat
  /\ MiscOK' /\ StoresOK' /\ conn' \in [Conns -> ConnRec] /\ cli' \in [Clients -> CliRec]
     /\ last' \in [Clients -> Last \cup {None}] /\ opened' \in 0..MaxConns
     /\ agreed' \in [Conns -> Key \cup {None}] => TypeOK'
<1>1. opened \in 0..MaxConns => opened \in Nat
  BY Sizes
<1> QED
  BY <1>1 DEF TypeOK, MiscOK, StoresOK, NodeRec, RowRec

LEMMA UnusedTyped ==
  /\ Unused \in ConnRec /\ Gone \in ConnRec
  /\ Unused.pc = "unused" /\ ~Unused.sent /\ Unused.req = None /\ Unused.wr = None
  /\ Gone.pc = "closed" /\ ~Gone.sent /\ Gone.req = None /\ ~Gone.open /\ Gone.wr = None
<1>1. Unused \in ConnRec
  BY DEF Unused, ConnRec
<1>2. Gone \in ConnRec
  BY <1>1 DEF Gone, ConnRec
<1> QED
  BY <1>1, <1>2 DEF Gone, Unused

LEMMA IdleTyped ==
  /\ Down \in CliRec /\ Menu \in CliRec
  /\ Menu.n = 0 /\ Menu.st = "menu" /\ Menu.wr = None
  /\ Down.n = 0 /\ Down.st = "down" /\ Down.wr = None
<1>1. 0 \in 0..MaxConns
  BY Sizes
<1>2. Down \in CliRec
  BY <1>1 DEF Down, CliRec
<1>3. Menu = [st |-> "menu", n |-> 0, req |-> None, key |-> None, kid |-> None,
              free |-> {}, wr |-> None]
  BY DEF Menu, Down
<1>4. Menu \in CliRec
  BY <1>1, <1>3 DEF CliRec
<1> QED
  BY <1>2, <1>3, <1>4 DEF Down

LEMMA InitInv == Init => IInv
<1> SUFFICES ASSUME Init PROVE IInv
  OBVIOUS
<1>1. StoresOK
  BY DEF Init, StoresOK, Blank, Used, NodeRec
<1>2. TypeOK
  <2>1. 0 \in 0..MaxConns /\ 0 \in 0..TableSize
    BY Sizes
  <2>2. /\ conn \in [Conns -> ConnRec] /\ cli \in [Clients -> CliRec]
        /\ last \in [Clients -> Last \cup {None}] /\ agreed \in [Conns -> Key \cup {None}]
    BY UnusedTyped, IdleTyped DEF Init
  <2> QED
    BY <1>1, <2>1, <2>2 DEF Init, TypeOK, StoresOK, NodeRec, RowRec
<1>3. \A n \in Conns : ConnOK(n)
  BY UnusedTyped DEF Init, ConnOK, Fine, Serving, Agreeing, Copies
<1>4. \A c \in Clients : CliOK(c) /\ AnswerOK(last[c])
  BY IdleTyped DEF Init, CliOK, AnswerOK, InOperation, Copies
<1> QED
  BY <1>1, <1>2, <1>3, <1>4 DEF IInv

\* A client inside an operation has an open connection.
LEMMA ConnOfClient ==
  ASSUME IInv, NEW c \in Clients, InOperation(c)
  PROVE  cli[c].n \in Conns /\ conn[cli[c].n].open /\ conn[cli[c].n].c = c
<1>1. opened \in 0..MaxConns /\ MaxConns \in Nat
  BY Sizes DEF IInv, TypeOK
<1>2. cli[c].n \in 1..opened /\ conn[cli[c].n].open /\ conn[cli[c].n].c = c
  BY DEF IInv, CliOK
<1> QED
  BY <1>1, <1>2 DEF Conns

LEMMA ConnTyped ==
  ASSUME IInv, NEW n \in Conns
  PROVE  conn[n] \in ConnRec /\ conn \in [Conns -> ConnRec] /\ Fine(n, conn[n])
         /\ agreed \in [Conns -> Key \cup {None}]
  BY DEF IInv, TypeOK, ConnOK

LEMMA StoredTyped ==
  ASSUME IInv
  PROVE  /\ \A i \in Slots : nodes[i] \in NodeRec
         /\ \A k \in DOMAIN rows : rows[k] \in RowRec /\ k \in Nat
<1>1. nodes \in [Slots -> NodeRec] /\ rows \in Seq(RowRec)
  BY DEF IInv, StoresOK
<1> QED
  BY <1>1

-----------------------------------------------------------------------------
\* A step that changes connections, but not those of clients in an operation,
\* nor what was agreed on them.
LEMMA ConnStep ==
  ASSUME IInv, conn' \in [Conns -> ConnRec], \A n \in Conns : ConnOK(n)',
         \A n \in Conns : conn[n].open =>
           conn'[n].c = conn[n].c /\ conn'[n].open /\ conn'[n].req = conn[n].req,
         StoresOK', MiscOK', UNCHANGED <<opened, cli, last, agreed>>
  PROVE  IInv'
<1>1. TypeOK'
  BY TypesSplit DEF IInv
<1>2. \A c \in Clients : CliOK(c)'
  <2> SUFFICES ASSUME NEW c \in Clients PROVE CliOK(c)'
    OBVIOUS
  <2>1. CliOK(c)
    BY DEF IInv
  <2>2. CASE ~InOperation(c)
    BY <2>1, <2>2 DEF CliOK, InOperation
  <2>3. CASE InOperation(c)
    <3>1. cli[c].n \in Conns /\ conn[cli[c].n].open
      BY <2>3, ConnOfClient
    <3> QED
      BY <2>1, <2>3, <3>1 DEF CliOK, InOperation
  <2> QED
    BY <2>2, <2>3
<1>3. \A c \in Clients : AnswerOK(last[c])'
  BY DEF IInv, AnswerOK
<1> QED
  BY <1>1, <1>2, <1>3 DEF IInv

\* What is stored stays good while no agreement is forgotten.
LEMMA SameStores ==
  ASSUME IInv, UNCHANGED <<nodes, rows, agreed>>
  PROVE  StoresOK'
  BY DEF IInv, StoresOK, Used

\* The end of the server process.
LEMMA GoneInv ==
  ASSUME IInv, ServerGone, UNCHANGED <<cap, total, nodes, rows, opened, cli, last, agreed>>,
         kills' \in Nat, died' \in SUBSET {"encode", "sigpipe", "shm"}
  PROVE  IInv'
<1> DEFINE shut(n) == [conn[n] EXCEPT !.pc = "closed", !.wr = None]
<1>1. \A n \in Conns : /\ shut(n) \in ConnRec /\ shut(n).c = conn[n].c /\ shut(n).open = conn[n].open
                       /\ shut(n).req = conn[n].req /\ shut(n).sent = conn[n].sent
                       /\ shut(n).rsp = conn[n].rsp /\ shut(n).pc = "closed" /\ shut(n).wr = None
  <2> SUFFICES ASSUME NEW n \in Conns
               PROVE  /\ shut(n) \in ConnRec /\ shut(n).c = conn[n].c /\ shut(n).open = conn[n].open
                      /\ shut(n).req = conn[n].req /\ shut(n).sent = conn[n].sent
                      /\ shut(n).rsp = conn[n].rsp /\ shut(n).pc = "closed" /\ shut(n).wr = None
    OBVIOUS
  <2>1. conn[n] \in ConnRec
    BY DEF IInv, TypeOK
  <2> QED
    BY <2>1 DEF ConnRec
<1>2. \A n \in Conns : conn'[n] \in {conn[n], shut(n), Gone}
  BY DEF ServerGone, Tidy
<1>3. \A n \in Conns : conn[n].open => conn'[n] \in {conn[n], shut(n)}
  BY <1>1 DEF ServerGone, Tidy
<1>4. \A n \in Conns : conn[n].pc = "unused" => conn'[n] = conn[n]
  BY DEF ServerGone
<1> HIDE DEF shut
<1>5. conn' \in [Conns -> ConnRec]
  <2>1. \A n \in Conns : conn[n] \in ConnRec
    BY DEF IInv, TypeOK
  <2>2. \A n \in Conns : conn'[n] \in ConnRec
    BY <1>1, <1>2, <2>1, UnusedTyped
  <2>3. conn' = [n \in Conns |-> conn'[n]]
    BY DEF ServerGone
  <2> QED
    BY <2>2, <2>3
<1>6. \A n \in Conns : ConnOK(n)'
  <2> SUFFICES ASSUME NEW n \in Conns PROVE ConnOK(n)'
    OBVIOUS
  <2>1. Fine(n, conn[n])
    BY DEF IInv, ConnOK
  <2>2. CASE conn'[n] = conn[n]
    BY <2>1, <2>2 DEF ConnOK, Fine
  <2>3. CASE conn'[n] = shut(n) /\ conn[n].pc # "unused"
    BY <1>1, <2>1, <2>3 DEF ConnOK, Fine, Serving, Agreeing, Copies
  <2>4. CASE conn'[n] = Gone /\ conn[n].pc # "unused"
    BY <2>1, <2>4, UnusedTyped DEF ConnOK, Fine, Serving, Agreeing, Copies
  <2> QED
    BY <1>2, <1>4, <2>2, <2>3, <2>4
<1>7. \A n \in Conns : conn[n].open =>
        conn'[n].c = conn[n].c /\ conn'[n].open /\ conn'[n].req = conn[n].req
  BY <1>1, <1>3
<1>8. StoresOK'
  BY SameStores
<1>9. MiscOK'
  <2>1. past' \in SUBSET Troubles
    BY DEF ServerGone, Cut, IInv, TypeOK, Troubles
  <2> QED
    BY <2>1 DEF ServerGone, IInv, TypeOK, MiscOK
<1> QED
  BY <1>5, <1>6, <1>7, <1>8, <1>9, ConnStep

-----------------------------------------------------------------------------
DbTyped == db \in {"down", "good", "mixed"} /\ past \in SUBSET Troubles

\* A call of the database object that begins or ends.
LEMMA DbCalls ==
  ASSUME IInv
  PROVE  /\ \A n : BeginCall(n) => DbTyped'
         /\ \A how : EndCall(how) /\ UNCHANGED db => DbTyped'
         /\ UNCHANGED <<db, past>> => DbTyped'
<1>1. DbTyped
  BY DEF IInv, TypeOK, DbTyped
<1>2. \A n : BeginCall(n) => DbTyped'
  BY <1>1 DEF BeginCall, DbTyped, Troubles
<1>3. \A how : EndCall(how) /\ UNCHANGED db => DbTyped'
  BY <1>1 DEF EndCall, DbTyped, Troubles
<1>4. UNCHANGED <<db, past>> => DbTyped'
  BY <1>1 DEF DbTyped
<1> QED
  BY <1>2, <1>3, <1>4

\* A step of the thread of connection n, which leaves it in state k.
LEMMA ThreadStep ==
  ASSUME IInv, NEW n \in Conns, NEW k \in ConnRec, Fine(n, k),
         conn' = [conn EXCEPT ![n] = k],
         conn[n].open => k.c = conn[n].c /\ k.open /\ k.req = conn[n].req,
         StoresOK', DbTyped', RestUnchanged
  PROVE  IInv'
<1>1. conn \in [Conns -> ConnRec]
  BY DEF IInv, TypeOK
<1>2. conn' \in [Conns -> ConnRec]
  BY <1>1
<1>3. UNCHANGED <<srv, attached, cap, total, opened, cli, last, kills, died, agreed>>
  BY DEF RestUnchanged, SysUnchanged
<1>4. \A m \in Conns : ConnOK(m)'
  <2> SUFFICES ASSUME NEW m \in Conns PROVE ConnOK(m)'
    OBVIOUS
  <2>1. conn'[m] = IF m = n THEN k ELSE conn[m]
    BY <1>1
  <2>2. Fine(m, conn'[m])
    BY <2>1 DEF IInv, ConnOK
  <2> QED
    BY <1>3, <2>2 DEF ConnOK, Fine
<1>5. \A m \in Conns : conn[m].open =>
        conn'[m].c = conn[m].c /\ conn'[m].open /\ conn'[m].req = conn[m].req
  BY <1>1
<1>6. MiscOK'
  BY <1>3 DEF IInv, TypeOK, MiscOK, DbTyped
<1> QED
  BY <1>2, <1>3, <1>4, <1>5, <1>6, ConnStep

LEMMA RecvFailsInv ==
  ASSUME IInv, NEW n \in Conns, RecvFails(n) PROVE IInv'
<1>1. Fine(n, conn[n])
  BY DEF IInv, ConnOK
<1>2. Fine(n, Gone)
  BY <1>1, UnusedTyped DEF RecvFails, Fine, Serving, Agreeing, Copies
<1>3. StoresOK' /\ DbTyped'
  BY SameStores, DbCalls DEF RecvFails, RestUnchanged
<1> QED
  BY <1>2, <1>3, UnusedTyped, ThreadStep DEF RecvFails

\* The thread goes on to its next call; an agreement that was accepted keeps its
\* locals and the reply that it built.
LEMMA GoOnInv ==
  ASSUME IInv, NEW n \in Conns, NEW to \in Serving, NEW w \in Writes \cup {None},
         conn' = [conn EXCEPT ![n].pc = to, ![n].wr = w],
         \/ conn[n].pc = "recv" /\ to = "ask" /\ conn[n].req # None
         \/ conn[n].pc \in Agreeing /\ to \in Agreeing \cup {"reply"},
         w # None => to = "shm" /\ (Copies(w) => w.slot \in Slots),
         StoresOK', DbTyped', RestUnchanged
  PROVE  IInv'
<1> DEFINE k == [conn[n] EXCEPT !.pc = to, !.wr = w]
<1>1. Fine(n, conn[n]) /\ conn[n] \in ConnRec /\ conn \in [Conns -> ConnRec]
  BY ConnTyped
<1>2. to \in {"ask", "shm", "bad", "db", "reply"}
  BY DEF Serving
<1>3. /\ k \in ConnRec /\ k.pc = to /\ k.wr = w /\ k.key = conn[n].key /\ k.kid = conn[n].kid
      /\ k.rsp = conn[n].rsp /\ k.c = conn[n].c /\ k.open = conn[n].open
      /\ k.req = conn[n].req /\ k.sent = conn[n].sent
  BY <1>1, <1>2 DEF ConnRec
<1>4. conn' = [conn EXCEPT ![n] = k]
  BY <1>1
<1> HIDE DEF k
<1>5. Fine(n, k)
  <2>1. CASE conn[n].pc = "recv" /\ to = "ask" /\ conn[n].req # None /\ w = None
    BY <1>1, <1>3, <2>1 DEF Fine, Serving, Agreeing, Copies
  <2>2. CASE conn[n].pc \in Agreeing /\ to \in Agreeing \cup {"reply"}
    <3>1. ~(n > opened) /\ conn[n].req # None
      BY <1>1, <2>2 DEF Fine, Agreeing
    <3>2. /\ k.rsp \in Answered
          /\ k.req.cmd = "agree" /\ k.rsp.rv = 0 =>
               agreed[n] \in Key /\ agreed[n] = <<k.req.arg, k.rsp.r2>> /\ k.rsp.kid \in KeyIds
          /\ k.req.cmd = "agree" /\ k.key \in Key /\ k.key = agreed[n] /\ k.kid \in KeyIds
      BY <1>1, <1>3, <2>2 DEF Fine
    <3>3. k.pc \notin {"unused", "recv", "ask"}
      BY <1>3, <2>2 DEF Agreeing
    <3>4. k.req # None /\ k.req \in Sent /\ (k.req.cmd = "agree" => k.req.arg \in Nonces)
      BY <1>1, <1>3, <3>1 DEF Fine
    <3>5. (k.wr # None => k.pc = "shm") /\ (Copies(k.wr) => k.wr.slot \in Slots)
      BY <1>3 DEF Copies
    <3> HIDE DEF k
    <3> QED
      BY <3>1, <3>2, <3>3, <3>4, <3>5 DEF Fine
  <2> QED
    BY <2>1, <2>2
<1> QED
  BY <1>3, <1>4, <1>5, ThreadStep

\* A field that is set to what it was.
LEMMA SamePc ==
  ASSUME IInv, NEW n \in Conns, NEW w, NEW to, conn[n].pc = to, conn' = [conn EXCEPT ![n].wr = w]
  PROVE  conn' = [conn EXCEPT ![n].pc = to, ![n].wr = w]
<1>1. conn \in [Conns -> ConnRec]
  BY ConnTyped
<1>2. \A r \in ConnRec : r.pc = to => [r EXCEPT !.wr = w] = [r EXCEPT !.pc = to, !.wr = w]
  BY DEF ConnRec
<1> QED
  BY <1>1, <1>2

LEMMA SameWr ==
  ASSUME IInv, NEW n \in Conns, NEW to, conn[n].wr = None, conn' = [conn EXCEPT ![n].pc = to]
  PROVE  conn' = [conn EXCEPT ![n].pc = to, ![n].wr = None]
<1>1. conn \in [Conns -> ConnRec]
  BY ConnTyped
<1>2. \A r \in ConnRec : r.wr = None => [r EXCEPT !.pc = to] = [r EXCEPT !.pc = to, !.wr = None]
  BY DEF ConnRec
<1> QED
  BY <1>1, <1>2

LEMMA RecvInv ==
  ASSUME IInv, NEW n \in Conns, Recv(n) PROVE IInv'
<1>1. /\ conn[n].pc = "recv" /\ conn[n].req # None /\ conn' = [conn EXCEPT ![n].pc = "ask"]
      /\ UNCHANGED <<nodes, rows, agreed>> /\ RestUnchanged /\ DbTyped'
  BY DbCalls DEF Recv, RestUnchanged
<1>2. conn[n].wr = None
  BY <1>1, ConnTyped DEF Fine
<1>3. conn' = [conn EXCEPT ![n].pc = "ask", ![n].wr = None]
  BY <1>1, <1>2, SameWr
<1> QED
  BY <1>1, <1>3, SameStores, GoOnInv DEF Serving

\* An answer to the request, other than the acceptance of an agreement.
LEMMA AnswerInv ==
  ASSUME IInv, NEW n \in Conns, NEW r \in Answered, conn[n].pc = "ask",
         conn[n].req.cmd # "agree" \/ r.rv = -1,
         Answer(n, r), StoresOK', DbTyped', RestUnchanged
  PROVE  IInv'
<1> DEFINE k == [conn[n] EXCEPT !.pc = "reply", !.rsp = r]
<1>1. Fine(n, conn[n]) /\ conn[n] \in ConnRec /\ conn \in [Conns -> ConnRec]
  BY ConnTyped
<1>2. /\ k \in ConnRec /\ k.pc = "reply" /\ k.rsp = r /\ k.req = conn[n].req /\ k.c = conn[n].c
      /\ k.open = conn[n].open /\ k.sent = conn[n].sent /\ k.wr = conn[n].wr
  BY <1>1 DEF ConnRec
<1>3. conn' = [conn EXCEPT ![n] = k]
  BY <1>1 DEF Answer
<1> HIDE DEF k
<1>4. Fine(n, k)
  BY <1>1, <1>2 DEF Fine, Serving, Agreeing
<1> QED
  BY <1>2, <1>3, <1>4, ThreadStep

LEMMA RefuseInv ==
  ASSUME IInv, NEW n \in Conns, conn[n].pc = "ask",
         Refuse(n), StoresOK', DbTyped', RestUnchanged
  PROVE  IInv'
<1>1. Reply(-1, None, 0) \in Answered /\ Reply(-1, None, 0).rv = -1
  BY DEF Reply, Answered
<1> QED
  BY <1>1, AnswerInv DEF Refuse

LEMMA AgreeRefuseInv ==
  ASSUME IInv, NEW n \in Conns, AgreeRefuse(n) PROVE IInv'
<1>1. /\ conn[n].pc = "ask" /\ UNCHANGED <<db, nodes, rows, agreed>> /\ RestUnchanged /\ Refuse(n)
      /\ \E how : EndCall(how)
  BY DEF AgreeRefuse, Has, RestUnchanged
<1>2. StoresOK' /\ DbTyped'
  BY <1>1, SameStores, DbCalls
<1> QED
  BY <1>1, <1>2, RefuseInv

LEMMA AgreeAcceptInv ==
  ASSUME IInv, NEW n \in Conns, AgreeAccept(n) PROVE IInv'
<1>1. PICK r2 \in Nonces, kid \in KeyIds :
        /\ conn' = [conn EXCEPT ![n].pc = "shm", ![n].key = <<conn[n].req.arg, r2>>,
                                ![n].kid = kid, ![n].rsp = Reply(0, r2, kid)]
        /\ agreed' = [agreed EXCEPT ![n] = <<conn[n].req.arg, r2>>]
  BY DEF AgreeAccept
<1> DEFINE key == <<conn[n].req.arg, r2>>
           k == [conn[n] EXCEPT !.pc = "shm", !.key = key, !.kid = kid, !.rsp = Reply(0, r2, kid)]
<1>2. Fine(n, conn[n]) /\ conn[n] \in ConnRec /\ conn \in [Conns -> ConnRec]
      /\ agreed \in [Conns -> Key \cup {None}]
  BY ConnTyped
<1>3. conn[n].pc = "ask" /\ conn[n].req.cmd = "agree" /\ UNCHANGED db /\ \E how : EndCall(how)
  BY DEF AgreeAccept, Has
<1>4. /\ agreed[n] = None /\ ~conn[n].sent /\ conn[n].req \in Sent /\ conn[n].req.arg \in Nonces
      /\ ~(n > opened) /\ conn[n].req # None /\ conn[n].wr = None
  BY <1>2, <1>3 DEF Fine, Serving
<1>5. key \in Key
  BY <1>4 DEF Key
<1>6. Reply(0, r2, kid) \in Answered /\ Reply(0, r2, kid).r2 = r2 /\ Reply(0, r2, kid).kid = kid
  BY Sizes DEF Reply, Answered
<1>7. /\ k \in ConnRec /\ k.pc = "shm" /\ k.key = key /\ k.kid = kid /\ k.rsp = Reply(0, r2, kid)
      /\ k.c = conn[n].c /\ k.open = conn[n].open /\ k.req = conn[n].req /\ k.sent = conn[n].sent
      /\ k.wr = conn[n].wr
  BY <1>2, <1>5, <1>6 DEF ConnRec
<1>8. conn' = [conn EXCEPT ![n] = k] /\ agreed' = [agreed EXCEPT ![n] = key]
  BY <1>1, <1>2
<1>k. key = <<k.req.arg, k.rsp.r2>>
  BY <1>6, <1>7
<1> HIDE DEF key, k
<1>9. \A m \in Conns : m # n => conn'[m] = conn[m] /\ agreed'[m] = agreed[m]
  BY <1>8, <1>2
<1>10. conn'[n] = k /\ agreed'[n] = key
  BY <1>8, <1>2
<1>11. UNCHANGED <<srv, db, attached, cap, total, nodes, rows, opened, cli, last, kills, died>>
  BY DEF AgreeAccept, SysUnchanged
<1>12. \A m \in Conns : agreed[m] \in Key => agreed'[m] = agreed[m]
  BY <1>4, <1>9, NoneIsNoKey
<1>13. MiscOK'
  BY <1>3, <1>11, DbCalls DEF IInv, TypeOK, MiscOK, DbTyped
<1>14. StoresOK'
  <2>1. \A i \in Slots : Used(i) => nodes[i].head.n \in Conns
    BY StoredTyped DEF NodeRec, NodeHead, Used
  <2>2. \A i \in DOMAIN rows : rows[i].key \in Key /\ rows[i].n \in Conns
    BY StoredTyped DEF RowRec
  <2> QED
    BY <1>11, <1>12, <2>1, <2>2 DEF IInv, StoresOK, Used
<1>15. TypeOK'
  <2>1. conn' \in [Conns -> ConnRec] /\ agreed' \in [Conns -> Key \cup {None}]
    BY <1>2, <1>5, <1>7, <1>8
  <2> QED
    BY <1>11, <1>13, <1>14, <2>1, TypesSplit DEF IInv
<1>16. \A m \in Conns : ConnOK(m)'
  <2> SUFFICES ASSUME NEW m \in Conns PROVE ConnOK(m)'
    OBVIOUS
  <2>1. CASE m # n
    BY <1>9, <1>11, <2>1 DEF IInv, ConnOK, Fine
  <2>2. CASE m = n
    <3>1. conn'[n].rsp.kid \in KeyIds
      BY <1>6, <1>7, <1>10
    <3> QED
      BY <1>3, <1>4, <1>5, <1>6, <1>7, <1>k, <1>10, <1>11, <2>2, <3>1
         DEF ConnOK, Fine, Serving, Agreeing, Copies
  <2> QED
    BY <2>1, <2>2
<1>17. \A c \in Clients : CliOK(c)'
  <2> SUFFICES ASSUME NEW c \in Clients PROVE CliOK(c)'
    OBVIOUS
  <2>1. CliOK(c)
    BY DEF IInv
  <2>2. CASE ~InOperation(c)
    BY <1>11, <2>1, <2>2 DEF CliOK, InOperation
  <2>3. CASE InOperation(c)
    <3>1. cli[c].n \in Conns
      BY <2>3, ConnOfClient
    <3>2. /\ conn'[cli[c].n].c = conn[cli[c].n].c /\ conn'[cli[c].n].open = conn[cli[c].n].open
          /\ conn'[cli[c].n].req = conn[cli[c].n].req
      BY <1>7, <1>9, <1>10, <3>1
    <3> QED
      BY <1>11, <1>12, <2>1, <2>3, <3>1, <3>2 DEF CliOK, InOperation
  <2> QED
    BY <2>2, <2>3
<1>18. \A c \in Clients : AnswerOK(last[c])'
  <2> SUFFICES ASSUME NEW c \in Clients, last[c] # None, AnswerOK(last[c])
               PROVE  AnswerOK(last[c])'
    BY <1>11 DEF IInv, AnswerOK
  <2>1. last[c].n \in Conns
    BY DEF IInv, TypeOK, Last
  <2> QED
    BY <1>11, <1>12, <2>1 DEF AnswerOK
<1> QED
  BY <1>14, <1>15, <1>16, <1>17, <1>18 DEF IInv

\* What a thread past its acceptance knows.
LEMMA Accepted ==
  ASSUME IInv, NEW n \in Conns, conn[n].pc \in Agreeing
  PROVE  /\ conn[n].key \in Key /\ conn[n].key = agreed[n] /\ conn[n].kid \in KeyIds
         /\ conn[n].req.id \in Ids /\ conn[n].req.cmd = "agree"
<1>1. Fine(n, conn[n])
  BY DEF IInv, ConnOK
<1>2. conn[n].req \in Sent
  BY <1>1 DEF Fine
<1> QED
  BY <1>1, <1>2 DEF Fine, Sent

LEMMA ScanTyped == \A w \in Scan : w \in Writes /\ (Copies(w) => w.slot \in Slots)
  BY DEF Scan, Writes, Copies, Chunks, FirstFree

LEMMA RestTyped ==
  \A w \in Writes : \A chunk : Copies(w) /\ w.slot \in Slots =>
    Rest(w, chunk) \in Writes /\ Rest(w, chunk).slot = w.slot
    /\ Rest(w, chunk).todo = w.todo \ {chunk}
  BY DEF Writes, Rest

\* A chunk of a record of its own agreement keeps the stores good.
LEMMA StoreTyped ==
  ASSUME IInv, NEW w \in Writes, w.slot \in Slots, NEW chunk \in Chunks,
         NEW id \in Ids, NEW kid \in KeyIds, NEW n \in Conns, agreed[n] \in Key,
         Store(w, chunk, Record(id, kid, n, agreed[n])), UNCHANGED <<rows, agreed>>
  PROVE  StoresOK'
<1> DEFINE rec == Record(id, kid, n, agreed[n])
           i == w.slot
           r == [nodes[i] EXCEPT ![chunk] = rec[chunk]]
<1>1. rec.head \in NodeHead /\ rec.key = agreed[n] /\ rec.head.n = n
  BY DEF Record, NodeHead
<1>2. nodes \in [Slots -> NodeRec] /\ nodes[i] \in NodeRec
  BY DEF IInv, StoresOK
<1>3. nodes' = [nodes EXCEPT ![i] = r]
  BY <1>2 DEF Store
<1>4. r \in NodeRec /\ (r.head = nodes[i].head \/ r.head = rec.head)
  <2>1. CASE chunk = "head"
    BY <1>1, <1>2, <2>1 DEF NodeRec
  <2>2. CASE chunk = "key"
    BY <1>1, <1>2, <2>2 DEF NodeRec
  <2> QED
    BY <2>1, <2>2 DEF Chunks
<1> HIDE DEF r, rec
<1>5. nodes' \in [Slots -> NodeRec] /\ nodes'[i] = r /\ \A j \in Slots \ {i} : nodes'[j] = nodes[j]
  BY <1>2, <1>3, <1>4
<1>6. \A j \in Slots : Used(j)' => agreed'[nodes'[j].head.n] \in Key
  BY <1>1, <1>4, <1>5 DEF IInv, StoresOK, Used
<1> QED
  BY <1>5, <1>6 DEF IInv, StoresOK

LEMMA ShmScanInv ==
  ASSUME IInv, NEW n \in Conns, ShmScan(n) PROVE IInv'
<1>1. PICK w \in Scan : conn' = [conn EXCEPT ![n].wr = w]
  BY DEF ShmScan
<1>2. /\ conn[n].pc = "shm" /\ UNCHANGED <<db, nodes, rows, agreed>> /\ RestUnchanged
      /\ past' = Overlap(Scan)
  BY DEF ShmScan, RestUnchanged
<1>3. DbTyped'
  BY <1>2 DEF Overlap, DbTyped, Troubles, IInv, TypeOK
<1>4. conn' = [conn EXCEPT ![n].pc = "shm", ![n].wr = w]
  BY <1>1, <1>2, SamePc
<1> QED
  BY <1>2, <1>3, <1>4, ScanTyped, SameStores, GoOnInv DEF Serving, Agreeing

LEMMA ShmCopyInv ==
  ASSUME IInv, NEW n \in Conns, ShmCopy(n) PROVE IInv'
<1>1. PICK chunk \in conn[n].wr.todo :
        /\ Store(conn[n].wr, chunk, Record(conn[n].req.id, conn[n].kid, n, conn[n].key))
        /\ conn' = [conn EXCEPT ![n].wr = Rest(conn[n].wr, chunk)]
  BY DEF ShmCopy
<1>2. /\ Copies(conn[n].wr) /\ UNCHANGED <<db, rows, past, agreed>> /\ RestUnchanged
  BY DEF ShmCopy, RestUnchanged
<1>3. conn[n].wr # None /\ conn[n].wr.slot \in Slots /\ conn[n].pc = "shm" /\ conn[n].wr \in Writes
  BY <1>2, ConnTyped DEF Fine, Copies, ConnRec
<1>4. chunk \in Chunks
  BY <1>1, <1>3 DEF Writes
<1>5. /\ conn[n].key \in Key /\ conn[n].key = agreed[n] /\ conn[n].kid \in KeyIds
      /\ conn[n].req.id \in Ids
  BY <1>3, Accepted DEF Agreeing
<1>6. StoresOK'
  BY <1>1, <1>2, <1>3, <1>4, <1>5, StoreTyped
<1>7. Rest(conn[n].wr, chunk) \in Writes /\ Rest(conn[n].wr, chunk).slot \in Slots
  BY <1>2, <1>3, RestTyped
<1>8. conn' = [conn EXCEPT ![n].pc = "shm", ![n].wr = Rest(conn[n].wr, chunk)]
  BY <1>1, <1>3, SamePc
<1> QED
  BY <1>2, <1>3, <1>6, <1>7, <1>8, DbCalls, GoOnInv DEF Serving, Agreeing

LEMMA ShmDoneInv ==
  ASSUME IInv, NEW n \in Conns, ShmDone(n) PROVE IInv'
<1>1. /\ conn[n].pc = "shm" /\ conn' = [conn EXCEPT ![n].pc = "db", ![n].wr = None]
      /\ UNCHANGED <<nodes, rows, agreed>> /\ RestUnchanged /\ DbTyped'
  BY DbCalls DEF ShmDone, ShmEnds, RestUnchanged
<1> QED
  BY <1>1, SameStores, GoOnInv DEF Serving, Agreeing

LEMMA ShmBadInv ==
  ASSUME IInv, NEW n \in Conns, ShmBad(n) PROVE IInv'
<1>1. /\ conn[n].pc = "shm" /\ conn' = [conn EXCEPT ![n].pc = "bad"] /\ conn[n].wr = None
      /\ UNCHANGED <<db, past, nodes, rows, agreed>> /\ RestUnchanged
  BY DEF ShmBad, RestUnchanged
<1>2. conn' = [conn EXCEPT ![n].pc = "bad", ![n].wr = None]
  BY <1>1, SameWr
<1>3. StoresOK' /\ DbTyped'
  BY <1>1, SameStores, DbCalls
<1> QED
  BY <1>1, <1>2, <1>3, GoOnInv DEF Serving, Agreeing

LEMMA AgreeDbInv ==
  ASSUME IInv, NEW n \in Conns, AgreeDb(n) PROVE IInv'
<1>1. /\ conn[n].pc = "db" /\ conn' = [conn EXCEPT ![n].pc = "reply"]
      /\ UNCHANGED <<db, nodes, agreed>> /\ RestUnchanged /\ \E how : EndCall(how)
      /\ rows' = Append(rows, RowOf(n)) \/ rows' = rows
  BY DEF AgreeDb, RestUnchanged
<1>2. RowOf(n) \in RowRec /\ RowOf(n).key = agreed[n] /\ RowOf(n).n = n
  BY <1>1, Accepted DEF RowOf, RowRec, Agreeing
<1>3. StoresOK /\ rows \in Seq(RowRec) /\ conn[n].wr = None
  BY <1>1, ConnTyped DEF IInv, StoresOK, Fine
<1>4. StoresOK'
  <2>1. CASE rows' = rows
    BY <1>1, <2>1, SameStores
  <2>2. CASE rows' = Append(rows, RowOf(n))
    <3> DEFINE r == RowOf(n)
    <3> HIDE DEF r
    <3>1. rows' = Append(rows, r) /\ r \in RowRec /\ r.key = agreed[n] /\ r.n = n
      BY <1>2, <2>2 DEF r
    <3>2. rows' \in Seq(RowRec)
      BY <1>3, <3>1
    <3>3. \A k \in DOMAIN rows' : rows'[k] = r \/ (k \in DOMAIN rows /\ rows'[k] = rows[k])
      BY <1>3, <3>1
    <3> QED
      BY <1>1, <1>3, <3>1, <3>2, <3>3 DEF StoresOK, Used
  <2> QED
    BY <1>1, <2>1, <2>2
<1>5. conn' = [conn EXCEPT ![n].pc = "reply", ![n].wr = None]
  BY <1>1, <1>3, SameWr
<1>6. DbTyped'
  BY <1>1, DbCalls
<1> QED
  BY <1>1, <1>4, <1>5, <1>6, GoOnInv DEF Serving, Agreeing

\* getSecKey answers with -1, or with a key's type and a number.
LEMMA GetSecKeyTyped ==
  ASSUME IInv, NEW id, NEW how, NEW r \in GetSecKey(id, how)
  PROVE  r \in Answered
<1>1. \A k \in DOMAIN rows : rows[k].key \in Key /\ k \in Nat
  BY StoredTyped DEF RowRec
<1>2. Registered \subseteq Ids
  BY SystemAssumption DEF SystemAssumption
<1>3. CASE r = Reply(-1, None, 0)
  BY <1>3 DEF Reply, Answered
<1>4. CASE \E k \in Latest(id) : r = Reply(0, rows[k].key, k)
  <2>1. PICK k \in DOMAIN rows : r = Reply(0, rows[k].key, k)
    BY <1>4 DEF Latest, Active
  <2> QED
    BY <1>1, <2>1 DEF Reply, Answered
<1>5. CASE \E x \in {rows[j].key : j \in DOMAIN rows} \cup Registered \cup {None}, k \in DOMAIN rows \cup {0} :
             r = Reply(0, x, k)
  BY <1>1, <1>2, <1>5 DEF Reply, Answered
<1>6. CASE how = "own" /\ Active(id) # {}
  BY <1>4, <1>6 DEF GetSecKey
<1>7. CASE how = "any"
  BY <1>3, <1>5, <1>7 DEF GetSecKey
<1>8. CASE how # "any" /\ ~(how = "own" /\ Active(id) # {})
  BY <1>3, <1>8 DEF GetSecKey
<1> QED
  BY <1>6, <1>7, <1>8

LEMMA CheckInv ==
  ASSUME IInv, NEW n \in Conns, Check(n) PROVE IInv'
<1>1. /\ conn[n].pc = "ask" /\ conn[n].req.cmd = "check"
      /\ UNCHANGED <<db, nodes, rows, agreed>> /\ RestUnchanged
      /\ Refuse(n) \/ Answer(n, Reply(0, None, 0))
  BY DEF Check, Has, RestUnchanged
<1>2. \E how : EndCall(how)
  BY DEF Check
<1>3. Reply(0, None, 0) \in Answered
  BY DEF Reply, Answered
<1>4. StoresOK' /\ DbTyped'
  BY <1>1, <1>2, SameStores, DbCalls
<1>5. CASE Refuse(n)
  BY <1>1, <1>4, <1>5, RefuseInv
<1>6. CASE Answer(n, Reply(0, None, 0))
  BY <1>1, <1>3, <1>4, <1>6, AnswerInv
<1> QED
  BY <1>1, <1>5, <1>6

\* Revoking changes nothing but states.
LEMMA SetStateTyped ==
  ASSUME IInv, NEW kid, rows' = SetState(kid, 1)
  PROVE  /\ DOMAIN rows' = DOMAIN rows /\ rows' \in Seq(RowRec)
         /\ \A k \in DOMAIN rows : /\ rows'[k].key = rows[k].key /\ rows'[k].n = rows[k].n
                                   /\ rows'[k].id = rows[k].id
<1>1. DOMAIN rows' = DOMAIN rows
  BY DEF SetState
<1>2. \A k \in DOMAIN rows : rows'[k] \in RowRec /\ rows'[k].key = rows[k].key
                             /\ rows'[k].n = rows[k].n /\ rows'[k].id = rows[k].id
  <2> SUFFICES ASSUME NEW k \in DOMAIN rows
               PROVE  rows'[k] \in RowRec /\ rows'[k].key = rows[k].key
                      /\ rows'[k].n = rows[k].n /\ rows'[k].id = rows[k].id
    OBVIOUS
  <2>1. rows[k] \in RowRec
    BY StoredTyped
  <2>2. rows'[k] = [rows[k] EXCEPT !.state = 1] \/ rows'[k] = rows[k]
    BY DEF SetState
  <2> QED
    BY <2>1, <2>2 DEF RowRec
<1>3. rows' \in Seq(RowRec)
  <2>1. rows \in Seq(RowRec)
    BY DEF IInv, StoresOK
  <2>2. DOMAIN rows = 1..Len(rows) /\ Len(rows) \in Nat
    BY <2>1
  <2>3. rows' \in [1..Len(rows) -> RowRec]
    BY <1>2, <2>2 DEF SetState
  <2> QED
    BY <2>2, <2>3
<1> QED
  BY <1>1, <1>2, <1>3

LEMMA RevokeInv ==
  ASSUME IInv, NEW n \in Conns, Revoke(n) PROVE IInv'
<1>1. /\ conn[n].pc = "ask" /\ conn[n].req.cmd = "revoke"
      /\ UNCHANGED <<db, nodes, agreed>> /\ RestUnchanged
      /\ Refuse(n) \/ Answer(n, Reply(0, None, 0))
      /\ rows' = SetState(conn[n].req.arg, 1) \/ rows' = rows
  BY DEF Revoke, Has, RestUnchanged
<1>2. \E how : EndCall(how)
  BY DEF Revoke
<1>3. Reply(0, None, 0) \in Answered
  BY DEF Reply, Answered
<1>4. StoresOK'
  <2>1. CASE rows' = rows
    BY <1>1, <2>1, SameStores
  <2>2. CASE rows' = SetState(conn[n].req.arg, 1)
    <3>1. /\ DOMAIN rows' = DOMAIN rows /\ rows' \in Seq(RowRec)
          /\ \A k \in DOMAIN rows : rows'[k].key = rows[k].key /\ rows'[k].n = rows[k].n
      BY <2>2, SetStateTyped
    <3> QED
      BY <1>1, <3>1 DEF IInv, StoresOK, Used
  <2> QED
    BY <1>1, <2>1, <2>2
<1>5. DbTyped'
  BY <1>1, <1>2, DbCalls
<1>6. CASE Refuse(n)
  BY <1>1, <1>4, <1>5, <1>6, RefuseInv
<1>7. CASE Answer(n, Reply(0, None, 0))
  BY <1>1, <1>3, <1>4, <1>5, <1>7, AnswerInv
<1> QED
  BY <1>1, <1>6, <1>7

LEMMA ViewInv ==
  ASSUME IInv, NEW n \in Conns, View(n) PROVE IInv'
<1>1. PICK how \in Ends : EndCall(how) /\ \E r \in GetSecKey(conn[n].req.id, how) : Answer(n, r)
  BY DEF View
<1>2. PICK r \in GetSecKey(conn[n].req.id, how) : Answer(n, r)
  BY <1>1
<1>3. /\ conn[n].pc = "ask" /\ conn[n].req.cmd = "view"
      /\ UNCHANGED <<db, nodes, rows, agreed>> /\ RestUnchanged
  BY DEF View, Has, RestUnchanged
<1>4. r \in Answered
  BY GetSecKeyTyped
<1>5. StoresOK' /\ DbTyped'
  BY <1>1, <1>3, SameStores, DbCalls
<1> QED
  BY <1>2, <1>3, <1>4, <1>5, AnswerInv

\* The last write on a connection whose client may have closed its end.
LEMMA SendInv ==
  ASSUME IInv, NEW n \in Conns, Send(n) PROVE IInv'
<1> DEFINE k == [conn[n] EXCEPT !.pc = "closed", !.sent = conn[n].open]
<1>1. Fine(n, conn[n]) /\ conn[n] \in ConnRec /\ conn \in [Conns -> ConnRec]
  BY ConnTyped
<1>2. /\ k \in ConnRec /\ k.pc = "closed" /\ k.rsp = conn[n].rsp /\ k.c = conn[n].c
      /\ k.open = conn[n].open /\ k.req = conn[n].req /\ k.wr = conn[n].wr
  BY <1>1 DEF ConnRec
<1>3. conn[n].pc = "reply" /\ conn' = [conn EXCEPT ![n] = Tidy(k)]
      /\ UNCHANGED <<db, past, nodes, rows, agreed>> /\ RestUnchanged
  BY <1>1 DEF Send, RestUnchanged
<1> HIDE DEF k
<1>4. Fine(n, k)
  BY <1>1, <1>2, <1>3 DEF Fine, Serving, Agreeing
<1>5. Fine(n, Gone)
  BY <1>4, <1>2, UnusedTyped DEF Fine, Serving, Agreeing, Copies
<1>6. Tidy(k) \in ConnRec /\ Fine(n, Tidy(k)) /\ (conn[n].open => Tidy(k) = k)
  BY <1>2, <1>4, <1>5, UnusedTyped DEF Tidy
<1>7. StoresOK' /\ DbTyped'
  BY <1>3, SameStores, DbCalls
<1> HIDE DEF Tidy
<1> QED
  BY <1>2, <1>3, <1>6, <1>7, ThreadStep

LEMMA DieInv ==
  ASSUME IInv, NEW why \in {"encode", "sigpipe", "shm"}, Die(why) PROVE IInv'
<1>1. UNCHANGED <<cap, total, nodes, rows, opened, cli, last, agreed, kills>> /\ ServerGone
      /\ died' = died \cup {why}
  BY DEF Die, shmVars
<1>2. kills' \in Nat /\ died' \in SUBSET {"encode", "sigpipe", "shm"}
  BY <1>1 DEF IInv, TypeOK
<1> QED
  BY <1>1, <1>2, GoneInv

LEMMA WorkInv ==
  ASSUME IInv, NEW n \in Conns, Work(n) PROVE IInv'
<1>1. CASE RecvFails(n) \/ Recv(n)
  BY <1>1, RecvFailsInv, RecvInv
<1>2. CASE AgreeRefuse(n) \/ AgreeAccept(n)
  BY <1>2, AgreeRefuseInv, AgreeAcceptInv
<1>3. CASE ShmScan(n) \/ ShmCopy(n) \/ ShmDone(n) \/ ShmBad(n)
  BY <1>3, ShmScanInv, ShmCopyInv, ShmDoneInv, ShmBadInv
<1>4. CASE AgreeDb(n)
  BY <1>4, AgreeDbInv
<1>5. CASE Check(n) \/ Revoke(n) \/ View(n)
  BY <1>5, CheckInv, RevokeInv, ViewInv
<1>6. CASE ShmFaults(n) \/ ReplyFaults(n) \/ SendFaults(n)
  BY <1>6, DieInv DEF ShmFaults, ReplyFaults, SendFaults
<1>7. CASE Send(n)
  BY <1>7, SendInv
<1> QED
  BY <1>1, <1>2, <1>3, <1>4, <1>5, <1>6, <1>7 DEF Work, Agree

-----------------------------------------------------------------------------
\* A step of client c, which leaves it in state p.
LEMMA ClientStep ==
  ASSUME IInv, NEW c \in Clients, NEW p \in CliRec,
         cli' = [cli EXCEPT ![c] = p], CliOK(c)',
         last' \in [Clients -> Last \cup {None}],
         \A d \in Clients : last'[d] = last[d] \/ AnswerOK(last'[d]),
         conn' \in [Conns -> ConnRec], \A n \in Conns : ConnOK(n)',
         \A d \in Clients \ {c} : InOperation(d) => conn'[cli[d].n] = conn[cli[d].n],
         opened' \in opened..MaxConns, StoresOK', MiscOK', UNCHANGED agreed
  PROVE  IInv'
<1>1. cli \in [Clients -> CliRec] /\ opened \in Nat /\ MaxConns \in Nat
  BY Sizes, TypesSplit DEF IInv
<1>2. cli' \in [Clients -> CliRec] /\ opened' \in 0..MaxConns
  BY <1>1
<1>3. TypeOK'
  BY <1>2, TypesSplit DEF IInv
<1>4. \A d \in Clients : CliOK(d)'
  <2> SUFFICES ASSUME NEW d \in Clients, d # c PROVE CliOK(d)'
    OBVIOUS
  <2>1. CliOK(d)
    BY DEF IInv
  <2>2. cli'[d] = cli[d]
    BY <1>1
  <2>3. CASE ~InOperation(d)
    BY <2>1, <2>2, <2>3 DEF CliOK, InOperation
  <2>4. CASE InOperation(d)
    <3>1. conn'[cli[d].n] = conn[cli[d].n]
      BY <2>4
    <3>2. \A n \in 1..opened : n \in 1..opened'
      BY <1>1
    <3> QED
      BY <2>1, <2>2, <2>4, <3>1, <3>2 DEF CliOK, InOperation
  <2> QED
    BY <2>3, <2>4
<1>5. \A d \in Clients : AnswerOK(last[d])'
  BY DEF IInv, AnswerOK
<1> QED
  BY <1>3, <1>4, <1>5 DEF IInv

\* The client closes its end; no other client's connection is touched.
LEMMA CloseEndOK ==
  ASSUME IInv, NEW c \in Clients, InOperation(c), CloseEnd(c), UNCHANGED <<opened, agreed>>
  PROVE  /\ conn' \in [Conns -> ConnRec] /\ \A n \in Conns : ConnOK(n)'
         /\ \A d \in Clients \ {c} : InOperation(d) => conn'[cli[d].n] = conn[cli[d].n]
<1> DEFINE n == cli[c].n
           k == [conn[n] EXCEPT !.open = FALSE]
<1>1. n \in Conns /\ conn[n].open /\ conn[n].c = c
  BY ConnOfClient
<1>2. Fine(n, conn[n]) /\ conn[n] \in ConnRec /\ conn \in [Conns -> ConnRec]
  BY <1>1, ConnTyped
<1>3. /\ k \in ConnRec /\ k.pc = conn[n].pc /\ k.rsp = conn[n].rsp /\ k.req = conn[n].req
      /\ k.sent = conn[n].sent /\ k.key = conn[n].key /\ k.kid = conn[n].kid /\ k.wr = conn[n].wr
  BY <1>2 DEF ConnRec
<1>4. conn' = [conn EXCEPT ![n] = Tidy(k)]
  BY <1>2 DEF CloseEnd
<1> HIDE DEF k
<1>5. Fine(n, k)
  BY <1>2, <1>3 DEF Fine
<1>6. k.pc = "closed" => Fine(n, Gone)
  BY <1>5, UnusedTyped DEF Fine, Serving, Agreeing, Copies
<1>7. Tidy(k) \in ConnRec /\ Fine(n, Tidy(k))
  BY <1>3, <1>5, <1>6, UnusedTyped DEF Tidy
<1> DEFINE t == Tidy(k)
<1> HIDE DEF t
<1>8. conn' = [conn EXCEPT ![n] = t] /\ t \in ConnRec /\ Fine(n, t)
  BY <1>4, <1>7 DEF t
<1>9. \A m \in Conns : ConnOK(m)'
  <2> SUFFICES ASSUME NEW m \in Conns PROVE ConnOK(m)'
    OBVIOUS
  <2>1. conn'[m] = IF m = n THEN t ELSE conn[m]
    BY <1>2, <1>8
  <2>2. Fine(m, conn'[m])
    BY <1>8, <2>1 DEF IInv, ConnOK
  <2> QED
    BY <2>2 DEF ConnOK, Fine
<1>10. \A d \in Clients \ {c} : InOperation(d) => conn'[cli[d].n] = conn[cli[d].n]
  <2> SUFFICES ASSUME NEW d \in Clients \ {c}, InOperation(d)
               PROVE  conn'[cli[d].n] = conn[cli[d].n]
    OBVIOUS
  <2>1. cli[d].n \in Conns /\ conn[cli[d].n].c = d
    BY ConnOfClient
  <2>2. cli[d].n # n
    BY <1>1, <2>1
  <2> QED
    BY <1>2, <1>8, <2>1, <2>2
<1> QED
  BY <1>2, <1>8, <1>9, <1>10

\* Nothing but the client changes.
LEMMA ConnsSame ==
  ASSUME IInv, UNCHANGED <<conn, opened, agreed>>
  PROVE  conn' \in [Conns -> ConnRec] /\ (\A n \in Conns : ConnOK(n)') /\ opened' \in opened..MaxConns
<1>1. opened \in 0..MaxConns /\ MaxConns \in Nat
  BY Sizes DEF IInv, TypeOK
<1> QED
  BY <1>1 DEF IInv, TypeOK, ConnOK, Fine

\* Client c goes to a state outside an operation, with an answer that is good, or none.
LEMMA IdleStep ==
  ASSUME IInv, NEW c \in Clients, NEW p \in CliRec, p.n = 0, p.wr = None,
         p.st \in {"down", "check", "set", "menu", "read", "ready"},
         p.st = "ready" => Asks(p.req),
         NEW l \in Last \cup {None}, AnswerOK(l),
         cli' = [cli EXCEPT ![c] = p], last' = [last EXCEPT ![c] = l] \/ UNCHANGED last,
         (InOperation(c) /\ CloseEnd(c)) \/ UNCHANGED conn,
         StoresOK', MiscOK', UNCHANGED <<opened, agreed>>
  PROVE  IInv'
<1>1. cli \in [Clients -> CliRec] /\ last \in [Clients -> Last \cup {None}] /\ opened \in 0..MaxConns
  BY DEF IInv, TypeOK
<1>2. CliOK(c)'
  BY <1>1 DEF CliOK, InOperation, Copies
<1>3. /\ last' \in [Clients -> Last \cup {None}]
      /\ \A d \in Clients : last'[d] = last[d] \/ AnswerOK(last'[d])
  BY <1>1
<1>4. /\ conn' \in [Conns -> ConnRec] /\ \A n \in Conns : ConnOK(n)'
      /\ \A d \in Clients \ {c} : InOperation(d) => conn'[cli[d].n] = conn[cli[d].n]
  BY CloseEndOK, ConnsSame
<1>5. opened' \in opened..MaxConns
  BY <1>1, Sizes
<1> QED
  BY <1>2, <1>3, <1>4, <1>5, ClientStep

LEMMA NoAnswerOK == AnswerOK(None)
  BY DEF AnswerOK

LEMMA MiscStays ==
  ASSUME IInv, cap' \in Nat, total' \in 0..TableSize, kills' \in Nat, past' \in SUBSET Troubles,
         UNCHANGED <<srv, db, attached, died>>
  PROVE  MiscOK'
  BY DEF IInv, TypeOK, MiscOK

LEMMA MiscSame ==
  ASSUME IInv, UNCHANGED <<srv, db, attached, cap, total, kills, died, past>>
  PROVE  MiscOK'
  BY DEF IInv, TypeOK, MiscOK

\* An operation that fails, or a client that exits, with its end closed or with
\* no connection.
LEMMA FailsInv ==
  ASSUME IInv, NEW c \in Clients, Finish(c, None) \/ Exit(c),
         (InOperation(c) /\ CloseEnd(c)) \/ UNCHANGED conn,
         UNCHANGED <<nodes, rows, opened, agreed>>, MiscOK'
  PROVE  IInv'
<1>1. StoresOK'
  BY SameStores
<1>2. CASE Finish(c, None)
  BY <1>1, <1>2, NoAnswerOK, IdleTyped, IdleStep DEF Finish
<1>3. CASE Exit(c)
  BY <1>1, <1>3, NoAnswerOK, IdleTyped, IdleStep DEF Exit
<1> QED
  BY <1>2, <1>3

LEMMA IdleFailuresInv ==
  ASSUME IInv, NEW c \in Clients, Quit(c) \/ NoLocalKey(c) \/ ConnectFails(c)
  PROVE  IInv'
<1>1. /\ Finish(c, None) \/ Exit(c)
      /\ UNCHANGED <<srv, db, attached, cap, total, nodes, rows, conn, opened, kills, died,
                     agreed, past>>
  BY DEF Quit, NoLocalKey, ConnectFails, Fails, OnlyClient, SrvUnchanged, srvVars
<1> QED
  BY <1>1, FailsInv, MiscSame

LEMMA CutOffInv ==
  ASSUME IInv, NEW c \in Clients, SendRequestFaults(c) \/ ReceiveFails(c)
  PROVE  IInv'
<1>1. /\ Finish(c, None) \/ Exit(c)
      /\ InOperation(c) /\ CloseEnd(c)
      /\ UNCHANGED <<srv, db, attached, cap, total, nodes, rows, opened, kills, died, agreed, past>>
  BY DEF SendRequestFaults, ReceiveFails, Fails, At, InOperation, SrvUnchanged, srvVars
<1> QED
  BY <1>1, FailsInv, MiscSame

LEMMA KillClientInv ==
  ASSUME IInv, NEW c \in Clients, KillClient(c)
  PROVE  IInv'
<1>1. /\ Exit(c)
      /\ (cli[c].n # 0 /\ CloseEnd(c)) \/ UNCHANGED conn
      /\ UNCHANGED <<srv, db, attached, cap, total, nodes, rows, opened, died, agreed>>
      /\ kills' = kills + 1
  BY DEF KillClient, srvVars, shmVars
<1>2. cli[c].n # 0 => InOperation(c)
  BY DEF IInv, CliOK
<1>3. MiscOK'
  <2>1. past' \in SUBSET Troubles
    BY DEF KillClient, Cut, IInv, TypeOK, Troubles
  <2> QED
    BY <1>1, <2>1, MiscStays DEF IInv, TypeOK
<1> QED
  BY <1>1, <1>2, <1>3, FailsInv

\* The steps of a client's constructor.
LEMMA ConstructorInv ==
  ASSUME IInv, NEW c \in Clients, StartClient(c) \/ CheckHeader(c) \/ SetTotal(c) PROVE IInv'
<1>1. PICK st \in {"check", "set", "menu"} : cli' = [cli EXCEPT ![c].st = st]
  BY DEF StartClient, CheckHeader, SetTotal, Goto
<1>2. /\ UNCHANGED <<srv, db, attached, nodes, rows, conn, opened, last, kills, died, agreed, past>>
      /\ cli[c].st \in {"down", "check", "set"}
  BY DEF StartClient, CheckHeader, SetTotal, At, OnlyClient, SrvUnchanged, srvVars
<1>3. cli \in [Clients -> CliRec] /\ CliOK(c)
  BY DEF IInv, TypeOK
<1>4. cli[c].n = 0 /\ cli[c].wr = None
  BY <1>2, <1>3 DEF CliOK, InOperation
<1> DEFINE p == [cli[c] EXCEPT !.st = st]
<1>5. p \in CliRec /\ p.n = 0 /\ p.wr = None /\ p.st = st
  BY <1>3, <1>4 DEF CliRec
<1>6. cli' = [cli EXCEPT ![c] = p]
  BY <1>1, <1>3
<1> HIDE DEF p
<1>7. MiscOK'
  <2>1. cap' \in Nat /\ total' \in 0..TableSize
    BY Sizes DEF StartClient, CheckHeader, SetTotal, OnlyClient, SrvUnchanged, IInv, TypeOK
  <2> QED
    BY <1>2, <2>1, MiscStays DEF IInv, TypeOK
<1> QED
  BY <1>2, <1>5, <1>6, <1>7, SameStores, NoAnswerOK, IdleStep

\* A client that begins an operation.
LEMMA BeginsInv ==
  ASSUME IInv, NEW c \in Clients, NEW p \in CliRec, p.n = 0, p.wr = None,
         p.st \in {"read", "ready"}, p.st = "ready" => Asks(p.req), Begins(c, p)
  PROVE  IInv'
<1>1. /\ cli' = [cli EXCEPT ![c] = p] /\ last' = [last EXCEPT ![c] = None]
      /\ UNCHANGED <<srv, db, attached, cap, total, nodes, rows, conn, opened, kills, died,
                     agreed, past>>
  BY DEF Begins, OnlyClient, SrvUnchanged, srvVars
<1> QED
  BY <1>1, SameStores, MiscSame, NoAnswerOK, IdleStep

LEMMA ReadyTyped ==
  ASSUME NEW q, Asks(q), NEW kid \in KeyIds \cup {None}, NEW key \in Key \cup {None}
  PROVE  /\ Ready(q, kid, key) \in CliRec /\ Ready(q, kid, key).n = 0
         /\ Ready(q, kid, key).wr = None /\ Ready(q, kid, key).st = "ready"
         /\ Ready(q, kid, key).req = q /\ Ready(q, kid, key).key = key
<1>1. Ready(q, kid, key) = [st |-> "ready", n |-> 0, req |-> q, key |-> key, kid |-> kid,
                            free |-> {}, wr |-> None]
  <2>1. Menu = [st |-> "menu", n |-> 0, req |-> None, key |-> None, kid |-> None,
                free |-> {}, wr |-> None]
    BY DEF Menu, Down
  <2> DEFINE m == Menu
  <2>2. m \in [st : {"menu"}, n : {0}, req : {None}, key : {None}, kid : {None},
              free : {{}}, wr : {None}]
    BY <2>1
  <2>3. Ready(q, kid, key) = [m EXCEPT !.st = "ready", !.req = q, !.kid = kid, !.key = key]
    BY DEF Ready
  <2> HIDE DEF m
  <2> QED
    BY <2>2, <2>3
<1>2. 0 \in 0..MaxConns
  BY Sizes
<1> QED
  BY <1>1, <1>2 DEF CliRec, Asks

LEMMA ChooseInv ==
  ASSUME IInv, NEW c \in Clients, Choose(c) PROVE IInv'
<1>1. IdOf[c] \in Ids
  BY SystemAssumption DEF SystemAssumption
<1>2. PICK q \in {Request("agree", IdOf[c], r1, Hmac(r1)) : r1 \in Nonces}
                 \cup {Request("view", IdOf[c], None, None)} : Begins(c, Ready(q, None, None))
  BY DEF Choose
<1>3. Asks(q)
  <2>1. CASE \E r1 \in Nonces : q = Request("agree", IdOf[c], r1, Hmac(r1))
    BY <1>1, <2>1 DEF Request, Asks, Sent, Cmds
  <2>2. CASE q = Request("view", IdOf[c], None, None)
    BY <1>1, <2>2 DEF Request, Asks, Sent, Cmds
  <2> QED
    BY <2>1, <2>2
<1> QED
  BY <1>2, <1>3, ReadyTyped, BeginsInv

LEMMA ReadInv ==
  ASSUME IInv, NEW c \in Clients, BeginRead(c) \/ ReadLocal(c) PROVE IInv'
<1>1. CASE BeginRead(c)
  <2> DEFINE p == [Menu EXCEPT !.st = "read", !.free = {i \in Slots : ~Used(i)}]
  <2>1. p \in CliRec /\ p.n = 0 /\ p.wr = None /\ p.st = "read"
    BY IdleTyped DEF CliRec
  <2>2. Begins(c, p)
    BY <1>1 DEF BeginRead
  <2> HIDE DEF p
  <2> QED
    BY <2>1, <2>2, BeginsInv
<1>2. CASE ReadLocal(c)
  <2>1. PICK i \in Found(c), cmd \in {"check", "revoke"} :
          LET k == nodes[i]
              q == IF cmd = "check" THEN Request("check", IdOf[c], None, k.key)
                                    ELSE Request("revoke", IdOf[c], k.head.kid, None)
          IN Begins(c, Ready(q, k.head.kid, k.key))
    BY <1>2 DEF ReadLocal
  <2>2. IdOf[c] \in Ids
    BY SystemAssumption DEF SystemAssumption
  <2>3. i \in Slots /\ nodes[i].head.kid \in KeyIds /\ nodes[i].key \in Key \cup {None}
    BY StoredTyped DEF Found, IsOf, Used, NodeRec, NodeHead
  <2>4. PICK q : Asks(q) /\ Begins(c, Ready(q, nodes[i].head.kid, nodes[i].key))
    <3>1. CASE cmd = "check"
      <4>1. Asks(Request("check", IdOf[c], None, nodes[i].key))
        BY <2>2, <2>3 DEF Request, Asks, Sent, Cmds
      <4> QED
        BY <2>1, <3>1, <4>1
    <3>2. CASE cmd = "revoke"
      <4>1. Asks(Request("revoke", IdOf[c], nodes[i].head.kid, None))
        BY <2>2, <2>3 DEF Request, Asks, Sent, Cmds
      <4> QED
        BY <2>1, <3>2, <4>1
    <3> QED
      BY <3>1, <3>2
  <2> QED
    BY <2>3, <2>4, ReadyTyped, BeginsInv
<1> QED
  BY <1>1, <1>2

LEMMA ConnectInv ==
  ASSUME IInv, NEW c \in Clients, Connect(c) PROVE IInv'
<1> DEFINE n == opened + 1
           k == [Unused EXCEPT !.c = c, !.open = TRUE, !.pc = "recv"]
           p == [cli[c] EXCEPT !.st = "connected", !.n = n]
<1>1. /\ opened' = n /\ opened < MaxConns /\ cli[c].st = "ready"
      /\ conn' = [conn EXCEPT ![n] = k]
      /\ cli' = [cli EXCEPT ![c].st = "connected", ![c].n = n]
      /\ UNCHANGED <<srv, db, attached, cap, total, nodes, rows, last, kills, died, agreed, past>>
  BY DEF Connect, SrvUnchanged, srvVars, At
<1>2. /\ cli \in [Clients -> CliRec] /\ last \in [Clients -> Last \cup {None}]
      /\ conn \in [Conns -> ConnRec] /\ opened \in Nat /\ MaxConns \in Nat
  BY Sizes, TypesSplit DEF IInv
<1>3. n \in Conns /\ n \in 0..MaxConns /\ n \in opened..MaxConns /\ n > opened
  BY <1>1, <1>2 DEF Conns
<1>4. /\ k \in ConnRec /\ k.c = c /\ k.open /\ k.pc = "recv" /\ k.req = None /\ ~k.sent
      /\ k.wr = None
  <2>1. k \in ConnRec /\ k.c = c /\ k.open /\ k.pc = "recv"
    BY UnusedTyped DEF ConnRec
  <2>2. k.req = None /\ ~k.sent /\ k.wr = None
    BY DEF Unused
  <2> QED
    BY <2>1, <2>2
<1>5. /\ p \in CliRec /\ p.n = n /\ p.st = "connected" /\ p.req = cli[c].req /\ p.wr = cli[c].wr
      /\ cli' = [cli EXCEPT ![c] = p]
  BY <1>1, <1>2, <1>3 DEF CliRec
<1>6. agreed[n] = None
  BY <1>3 DEF IInv, ConnOK, Fine
<1>7. Asks(cli[c].req) /\ cli[c].wr = None
  BY <1>1 DEF IInv, CliOK
<1> HIDE DEF k, p, n
<1>9. CliOK(c)'
  <2>1. cli'[c] = p /\ conn'[n] = k
    BY <1>1, <1>2, <1>3, <1>5
  <2>2. n \in 1..opened'
    BY <1>1, <1>2, <1>3 DEF n
  <2> QED
    BY <1>4, <1>5, <1>7, <2>1, <2>2 DEF CliOK, InOperation, Copies
<1>11. conn' \in [Conns -> ConnRec]
  BY <1>1, <1>2, <1>4
<1>12. \A m \in Conns : ConnOK(m)'
  <2> SUFFICES ASSUME NEW m \in Conns PROVE ConnOK(m)'
    OBVIOUS
  <2>1. CASE m = n
    <3>1. conn'[m] = k /\ ~(m > opened')
      BY <1>1, <1>2, <1>3, <2>1 DEF n
    <3> QED
      BY <1>1, <1>4, <1>6, <2>1, <3>1 DEF ConnOK, Fine, Serving, Agreeing, Copies
  <2>2. CASE m # n
    <3>1. conn'[m] = conn[m] /\ (m > opened' => m > opened)
      BY <1>1, <1>2, <1>3, <2>2 DEF n, Conns
    <3> QED
      BY <1>1, <3>1 DEF IInv, ConnOK, Fine
  <2> QED
    BY <2>1, <2>2
<1>13. \A d \in Clients \ {c} : InOperation(d) => conn'[cli[d].n] = conn[cli[d].n]
  <2> SUFFICES ASSUME NEW d \in Clients \ {c}, InOperation(d)
               PROVE  conn'[cli[d].n] = conn[cli[d].n]
    OBVIOUS
  <2>1. cli[d].n \in 1..opened /\ cli[d].n \in Conns
    BY ConnOfClient DEF IInv, CliOK
  <2>2. cli[d].n # n
    BY <1>2, <2>1 DEF n
  <2> QED
    BY <1>1, <1>2, <2>1, <2>2
<1>14. StoresOK' /\ MiscOK' /\ opened' \in opened..MaxConns
  BY <1>1, <1>2, <1>3, SameStores, MiscSame
<1> QED
  BY <1>1, <1>2, <1>5, <1>9, <1>11, <1>12, <1>13, <1>14, ClientStep

LEMMA SendRequestInv ==
  ASSUME IInv, NEW c \in Clients, SendRequest(c) PROVE IInv'
<1> DEFINE n == cli[c].n
           q == cli[c].req
           k == [conn[n] EXCEPT !.req = q]
           p == [cli[c] EXCEPT !.st = "waiting"]
<1>1. /\ cli[c].st = "connected" /\ cli' = [cli EXCEPT ![c].st = "waiting"]
      /\ conn' = IF conn[n].pc = "recv" THEN [conn EXCEPT ![n].req = q] ELSE conn
      /\ UNCHANGED <<srv, db, attached, cap, total, nodes, rows, opened, last, kills, died,
                     agreed, past>>
  BY DEF SendRequest, SrvUnchanged, srvVars, At, Goto
<1>2. /\ cli \in [Clients -> CliRec] /\ cli[c] \in CliRec /\ last \in [Clients -> Last \cup {None}]
      /\ conn \in [Conns -> ConnRec] /\ opened \in Nat /\ MaxConns \in Nat /\ opened \in 0..MaxConns
  BY Sizes, TypesSplit DEF IInv
<1>3. InOperation(c)
  BY <1>1 DEF InOperation
<1>4. /\ CliOK(c) /\ n \in Conns /\ conn[n].c = c /\ conn[n].open /\ Asks(q) /\ cli[c].wr = None
  BY <1>1, <1>3, ConnOfClient DEF IInv, CliOK
<1>5. Fine(n, conn[n]) /\ conn[n] \in ConnRec
  BY <1>4, ConnTyped
<1>6. /\ p \in CliRec /\ p.st = "waiting" /\ p.n = n /\ p.req = q /\ p.key = cli[c].key
      /\ p.kid = cli[c].kid /\ p.wr = cli[c].wr /\ cli' = [cli EXCEPT ![c] = p]
  BY <1>1, <1>2 DEF CliRec
<1>7. /\ k \in ConnRec /\ k.req = q /\ k.c = c /\ k.open /\ k.pc = conn[n].pc
      /\ k.sent = conn[n].sent /\ k.rsp = conn[n].rsp /\ k.wr = conn[n].wr
  BY <1>4, <1>5 DEF ConnRec, Asks
<1>8. conn' = conn \/ (conn[n].pc = "recv" /\ conn' = [conn EXCEPT ![n] = k])
  BY <1>1, <1>2
<1> HIDE DEF n, q, k, p
<1>9. conn' \in [Conns -> ConnRec] /\ \A m \in Conns : m # n => conn'[m] = conn[m]
  BY <1>2, <1>7, <1>8
<1>10. conn'[n] = conn[n] \/ (conn[n].pc = "recv" /\ conn'[n] = k)
  BY <1>2, <1>4, <1>8
<1>11. \A m \in Conns : ConnOK(m)'
  <2> SUFFICES ASSUME NEW m \in Conns PROVE ConnOK(m)'
    OBVIOUS
  <2>1. CASE conn'[m] = conn[m]
    <3>1. ConnOK(m)
      BY DEF IInv
    <3> QED
      BY <1>1, <2>1, <3>1 DEF ConnOK, Fine
  <2>2. CASE m = n /\ conn[n].pc = "recv" /\ conn'[n] = k
    BY <1>1, <1>4, <1>5, <1>7, <2>2 DEF ConnOK, Fine, Serving, Agreeing, Asks
  <2> QED
    BY <1>9, <1>10, <2>1, <2>2
<1>12. CliOK(c)'
  <2>1. cli'[c] = p
    BY <1>2, <1>6
  <2>2. conn'[n].c = c /\ conn'[n].open /\ conn'[n].req \in {None, q}
    BY <1>3, <1>4, <1>7, <1>10 DEF CliOK, n, q
  <2>3. n \in 1..opened'
    BY <1>1, <1>3, <1>4 DEF CliOK, n
  <2> QED
    BY <1>4, <1>6, <2>1, <2>2, <2>3 DEF CliOK, InOperation, Copies
<1>13. \A d \in Clients \ {c} : InOperation(d) => conn'[cli[d].n] = conn[cli[d].n]
  <2> SUFFICES ASSUME NEW d \in Clients \ {c}, InOperation(d)
               PROVE  conn'[cli[d].n] = conn[cli[d].n]
    OBVIOUS
  <2>1. cli[d].n \in Conns /\ conn[cli[d].n].c = d
    BY ConnOfClient
  <2>2. cli[d].n # n
    BY <1>4, <2>1
  <2> QED
    BY <1>9, <2>1, <2>2
<1>14. StoresOK' /\ MiscOK' /\ opened' \in opened..MaxConns
  BY <1>1, <1>2, SameStores, MiscSame
<1> QED
  BY <1>1, <1>2, <1>6, <1>9, <1>11, <1>12, <1>13, <1>14, ClientStep

\* What a client that waits on an answered connection is told.
LEMMA Told ==
  ASSUME IInv, NEW c \in Clients, cli[c].st = "waiting", conn[cli[c].n].sent
  PROVE  LET k == conn[cli[c].n] IN
         /\ k.rsp \in Answered /\ cli[c].req \in Sent /\ k.req = cli[c].req
         /\ cli[c].req.cmd = "agree" /\ k.rsp.rv # -1 =>
              /\ agreed[cli[c].n] \in Key /\ agreed[cli[c].n] = <<cli[c].req.arg, k.rsp.r2>>
              /\ k.rsp.kid \in KeyIds
<1>1. InOperation(c) /\ CliOK(c)
  BY DEF InOperation, IInv
<1>2. cli[c].n \in Conns
  BY <1>1, ConnOfClient
<1>3. Fine(cli[c].n, conn[cli[c].n])
  BY <1>2 DEF IInv, ConnOK
<1>4. conn[cli[c].n].req = cli[c].req /\ cli[c].req \in Sent
  BY <1>1, <1>3 DEF CliOK, Fine, Asks
<1>5. conn[cli[c].n].rsp \in Answered
  BY <1>3 DEF Fine
<1>6. conn[cli[c].n].rsp.rv \in {0, -1}
  BY <1>5 DEF Answered
<1> QED
  BY <1>3, <1>4, <1>5, <1>6 DEF Fine

\* Client c goes on inside its operation, with its copies in state w.
LEMMA StoringStep ==
  ASSUME IInv, NEW c \in Clients, InOperation(c), NEW p \in CliRec, p.st = "store",
         cli' = [cli EXCEPT ![c] = p], p.n = cli[c].n, p.req = cli[c].req,
         p.key \in Key, p.key = agreed[p.n], p.kid \in KeyIds, Copies(p.wr) => p.wr.slot \in Slots,
         UNCHANGED <<conn, opened, last, agreed>>, StoresOK', MiscOK'
  PROVE  IInv'
<1>1. cli \in [Clients -> CliRec] /\ last \in [Clients -> Last \cup {None}] /\ CliOK(c)
  BY DEF IInv, TypeOK
<1>2. CliOK(c)'
  BY <1>1 DEF CliOK, InOperation
<1> QED
  BY <1>1, <1>2, ConnsSame, ClientStep

LEMMA ReceiveKeyInv ==
  ASSUME IInv, NEW c \in Clients, ReceiveKey(c) PROVE IInv'
<1> DEFINE n == cli[c].n
           key == <<cli[c].req.arg, conn[n].rsp.r2>>
           p == [cli[c] EXCEPT !.st = "store", !.kid = conn[n].rsp.kid, !.key = key]
<1>1. /\ cli[c].st = "waiting" /\ conn[n].sent /\ cli[c].req.cmd = "agree" /\ conn[n].rsp.rv # -1
      /\ cli' = [cli EXCEPT ![c].st = "store", ![c].kid = conn[n].rsp.kid, ![c].key = key]
      /\ UNCHANGED <<srv, db, attached, cap, total, nodes, rows, conn, opened, last, kills, died,
                     agreed, past>>
  BY DEF ReceiveKey, OnlyClient, SrvUnchanged, srvVars, At
<1>2. cli \in [Clients -> CliRec] /\ cli[c] \in CliRec
  BY DEF IInv, TypeOK
<1>3. key \in Key /\ key = agreed[n] /\ conn[n].rsp.kid \in KeyIds
  BY <1>1, Told
<1>4. /\ p \in CliRec /\ p.st = "store" /\ p.n = n /\ p.req = cli[c].req /\ p.key = key
      /\ p.kid = conn[n].rsp.kid /\ p.wr = cli[c].wr /\ cli' = [cli EXCEPT ![c] = p]
  BY <1>1, <1>2, <1>3 DEF CliRec
<1> HIDE DEF key, p
<1>5. InOperation(c) /\ cli[c].wr = None
  BY <1>1 DEF IInv, CliOK, InOperation
<1>6. ~Copies(p.wr)
  BY <1>4, <1>5 DEF Copies
<1> QED
  BY <1>1, <1>3, <1>4, <1>5, <1>6, SameStores, MiscSame, StoringStep

\* What a client that stores its key knows.
LEMMA Storing ==
  ASSUME IInv, NEW c \in Clients, cli[c].st = "store"
  PROVE  /\ InOperation(c) /\ cli[c].n \in Conns /\ IdOf[c] \in Ids
         /\ cli[c].key \in Key /\ cli[c].key = agreed[cli[c].n] /\ cli[c].kid \in KeyIds
         /\ cli[c] \in CliRec /\ cli \in [Clients -> CliRec]
  BY SystemAssumption, ConnOfClient DEF SystemAssumption, InOperation, IInv, CliOK, TypeOK

\* The client's state with its copies in state w.
LEMMA WrTyped ==
  ASSUME NEW p \in CliRec, NEW w \in Writes \cup {None}
  PROVE  /\ [p EXCEPT !.wr = w] \in CliRec /\ [p EXCEPT !.wr = w].st = p.st
         /\ [p EXCEPT !.wr = w].n = p.n /\ [p EXCEPT !.wr = w].req = p.req
         /\ [p EXCEPT !.wr = w].key = p.key /\ [p EXCEPT !.wr = w].kid = p.kid
         /\ [p EXCEPT !.wr = w].wr = w
  BY DEF CliRec

LEMMA LocalScanInv ==
  ASSUME IInv, NEW c \in Clients, LocalScan(c) PROVE IInv'
<1>1. PICK w \in Scan : cli' = [cli EXCEPT ![c].wr = w]
  BY DEF LocalScan
<1>2. /\ cli[c].st = "store" /\ past' = Overlap(Scan)
      /\ UNCHANGED <<srv, db, attached, cap, total, nodes, rows, conn, opened, last, kills, died,
                     agreed>>
  BY DEF LocalScan, At, SrvUnchanged, srvVars
<1>3. MiscOK'
  <2>1. past' \in SUBSET Troubles
    BY <1>2 DEF Overlap, Troubles, IInv, TypeOK
  <2> QED
    BY <1>2, <2>1 DEF IInv, TypeOK, MiscOK
<1> DEFINE p == [cli[c] EXCEPT !.wr = w]
<1>4. cli' = [cli EXCEPT ![c] = p]
  BY <1>1, <1>2, Storing
<1>5. w \in Writes /\ (Copies(w) => w.slot \in Slots)
  BY ScanTyped
<1>6. /\ p \in CliRec /\ p.st = "store" /\ p.n = cli[c].n /\ p.req = cli[c].req
      /\ p.key = cli[c].key /\ p.kid = cli[c].kid /\ p.wr = w
  BY <1>2, <1>5, Storing, WrTyped
<1> HIDE DEF p
<1> QED
  BY <1>2, <1>3, <1>4, <1>5, <1>6, Storing, SameStores, StoringStep

LEMMA LocalCopyInv ==
  ASSUME IInv, NEW c \in Clients, LocalCopy(c) PROVE IInv'
<1> DEFINE k == cli[c]
<1>1. PICK chunk \in k.wr.todo :
        /\ Store(k.wr, chunk, Record(IdOf[c], k.kid, k.n, k.key))
        /\ cli' = [cli EXCEPT ![c].wr = Rest(k.wr, chunk)]
  BY DEF LocalCopy
<1>2. /\ Copies(k.wr)
      /\ UNCHANGED <<srv, db, attached, cap, total, rows, conn, opened, last, kills, died,
                     agreed, past>>
  BY DEF LocalCopy, SrvUnchanged, srvVars
<1>3. k.st = "store" /\ k.wr.slot \in Slots /\ k.wr # None
  BY <1>2 DEF IInv, CliOK, Copies
<1>4. k.wr \in Writes
  BY <1>3, Storing DEF CliRec
<1>5. chunk \in Chunks
  BY <1>1, <1>4 DEF Writes
<1>6. StoresOK'
  BY <1>1, <1>2, <1>3, <1>4, <1>5, Storing, StoreTyped
<1> DEFINE w == Rest(k.wr, chunk)
           p == [k EXCEPT !.wr = w]
<1>7. w \in Writes /\ w.slot \in Slots
  BY <1>2, <1>3, <1>4, RestTyped
<1>8. cli' = [cli EXCEPT ![c] = p]
  BY <1>1, <1>3, Storing
<1> HIDE DEF w
<1>9. /\ p \in CliRec /\ p.st = "store" /\ p.n = k.n /\ p.req = k.req
      /\ p.key = k.key /\ p.kid = k.kid /\ p.wr = w
  BY <1>3, <1>7, Storing, WrTyped
<1> HIDE DEF p
<1> QED
  BY <1>2, <1>3, <1>6, <1>7, <1>8, <1>9, Storing, MiscSame, StoringStep

LEMMA StoreKeyInv ==
  ASSUME IInv, NEW c \in Clients, StoreKey(c) PROVE IInv'
<1> DEFINE l == Outcome("agree", 0, cli[c].key, cli[c].n)
<1>1. /\ cli[c].st = "store" /\ Finish(c, l) /\ CloseEnd(c)
      /\ UNCHANGED <<srv, db, attached, cap, total, nodes, rows, opened, kills, died, agreed, past>>
  BY DEF StoreKey, SrvUnchanged, srvVars, At
<1>2. l \in Last /\ AnswerOK(l)
  BY <1>1, Storing DEF Outcome, Last, AnswerOK, Cmds
<1> HIDE DEF l
<1> QED
  BY <1>1, <1>2, Storing, IdleTyped, SameStores, MiscSame, IdleStep DEF Finish

LEMMA ReceiveInv ==
  ASSUME IInv, NEW c \in Clients, Receive(c) PROVE IInv'
<1> DEFINE n == cli[c].n
           q == cli[c].req
           key == IF q.cmd = "view" THEN conn[n].rsp.r2 ELSE cli[c].key
           l == Outcome(q.cmd, conn[n].rsp.rv, key, n)
<1>1. /\ cli[c].st = "waiting" /\ conn[n].sent /\ (q.cmd = "agree" => conn[n].rsp.rv = -1)
      /\ Finish(c, l) /\ CloseEnd(c)
      /\ UNCHANGED <<srv, db, attached, cap, total, nodes, rows, opened, kills, died, agreed, past>>
  BY DEF Receive, SrvUnchanged, srvVars, At
<1>2. conn[n].rsp \in Answered /\ q \in Sent
  BY <1>1, Told
<1>3. InOperation(c) /\ n \in Conns /\ cli[c] \in CliRec
  BY <1>1, ConnOfClient DEF InOperation, IInv, TypeOK
<1>4. key \in Nonces \cup Key \cup Ids \cup {None}
  BY <1>2, <1>3 DEF CliRec, Answered
<1>5. l \in Last
  BY <1>2, <1>3, <1>4 DEF Outcome, Last, Answered, Sent
<1>6. AnswerOK(l)
  BY <1>1 DEF AnswerOK, Outcome
<1> HIDE DEF l
<1> QED
  BY <1>1, <1>3, <1>5, <1>6, IdleTyped, SameStores, MiscSame, IdleStep DEF Finish

LEMMA ClientInv ==
  ASSUME IInv, NEW c \in Clients, Begin(c) \/ Proceed(c) \/ KillClient(c) PROVE IInv'
<1>1. CASE StartClient(c) \/ CheckHeader(c) \/ SetTotal(c)
  BY <1>1, ConstructorInv
<1>2. CASE Quit(c) \/ NoLocalKey(c) \/ ConnectFails(c)
  BY <1>2, IdleFailuresInv
<1>3. CASE Choose(c) \/ BeginRead(c) \/ ReadLocal(c)
  BY <1>3, ChooseInv, ReadInv
<1>4. CASE Connect(c) \/ SendRequest(c)
  BY <1>4, ConnectInv, SendRequestInv
<1>5. CASE SendRequestFaults(c) \/ ReceiveFails(c)
  BY <1>5, CutOffInv
<1>6. CASE ReceiveKey(c) \/ Receive(c)
  BY <1>6, ReceiveKeyInv, ReceiveInv
<1>7. CASE LocalScan(c) \/ LocalCopy(c) \/ StoreKey(c)
  BY <1>7, LocalScanInv, LocalCopyInv, StoreKeyInv
<1>8. CASE KillClient(c)
  BY <1>8, KillClientInv
<1> QED
  BY <1>1, <1>2, <1>3, <1>4, <1>5, <1>6, <1>7, <1>8 DEF Begin, Proceed

-----------------------------------------------------------------------------
LEMMA ServerInv ==
  ASSUME IInv, StartServer \/ SrvCheckHeader \/ SrvSetTotal \/ KillServer \/ LoseDb PROVE IInv'
<1>1. CASE KillServer
  <2>1. /\ ServerGone /\ UNCHANGED <<cap, total, nodes, rows, opened, cli, last, died, agreed>>
        /\ kills' = kills + 1
    BY <1>1 DEF KillServer, shmVars
  <2>2. kills' \in Nat /\ died' \in SUBSET {"encode", "sigpipe", "shm"}
    BY <2>1 DEF IInv, TypeOK
  <2> QED
    BY <2>1, <2>2, GoneInv
<1>2. CASE StartServer \/ SrvCheckHeader \/ SrvSetTotal \/ LoseDb
  <2>1. UNCHANGED <<nodes, rows, conn, opened, cli, last, kills, died, agreed>>
    BY <1>2 DEF StartServer, SrvCheckHeader, SrvSetTotal, SrvHeader, LoseDb, shmVars
  <2>2. MiscOK'
    <3>1. CASE StartServer
      <4>1. cap' \in Nat /\ attached' \in BOOLEAN
        BY <3>1, Sizes DEF StartServer, IInv, TypeOK
      <4>2. db' \in {"down", "good"} /\ past' \in SUBSET Troubles /\ srv' \in {"check", "up"}
        BY <3>1 DEF StartServer, IInv, TypeOK, Troubles
      <4> QED
        BY <3>1, <4>1, <4>2 DEF StartServer, IInv, TypeOK, MiscOK
    <3>2. CASE SrvCheckHeader
      BY <3>2 DEF SrvCheckHeader, SrvHeader, IInv, TypeOK, MiscOK
    <3>3. CASE SrvSetTotal
      BY <3>3, Sizes DEF SrvSetTotal, SrvHeader, IInv, TypeOK, MiscOK
    <3>4. CASE LoseDb
      BY <3>4 DEF LoseDb, IInv, TypeOK, MiscOK, Troubles, shmVars
    <3> QED
      BY <1>2, <3>1, <3>2, <3>3, <3>4
  <2>3. StoresOK' /\ TypeOK'
    BY <2>1, <2>2, SameStores, TypesSplit DEF IInv
  <2>4. \A n \in Conns : ConnOK(n)'
    BY <2>1, ConnsSame
  <2>5. \A c \in Clients : CliOK(c)' /\ AnswerOK(last[c])'
    BY <2>1 DEF IInv, CliOK, InOperation, AnswerOK
  <2> QED
    BY <2>3, <2>4, <2>5 DEF IInv
<1> QED
  BY <1>1, <1>2

LEMMA StepInv == IInv /\ [Next]_vars => IInv'
<1> SUFFICES ASSUME IInv, [Next]_vars PROVE IInv'
  OBVIOUS
<1>1. CASE StartServer \/ SrvCheckHeader \/ SrvSetTotal \/ KillServer \/ LoseDb
  BY <1>1, ServerInv
<1>2. CASE \E n \in Conns : Work(n)
  BY <1>2, WorkInv
<1>3. CASE \E c \in Clients : Begin(c) \/ Proceed(c) \/ KillClient(c)
  BY <1>3, ClientInv
<1>4. CASE UNCHANGED vars
  BY <1>4 DEF vars, IInv, TypeOK, StoresOK, Used, ConnOK, Fine, CliOK, InOperation, AnswerOK
<1> QED
  BY <1>1, <1>2, <1>3, <1>4 DEF Next

\* IInv holds in every reachable state (ServerOperation.cpp:62-183,
\* ClientOperation.cpp:56-184).
THEOREM AgreementInvariant == Spec => []IInv
  BY InitInv, StepInv, PTL DEF Spec

\* The types of the whole system hold for any number of clients and
\* connections, under kills, restarts, failed statements and calls that overlap
\* (ServerOperation.cpp:62-183, ClientOperation.cpp:56-184).
THEOREM TypeCorrect == Spec => []TypeOK
<1>1. IInv => TypeOK
  BY DEF IInv
<1> QED
  BY <1>1, AgreementInvariant, PTL
=============================================================================
