---------------------------- MODULE KeyAgreement ----------------------------
(***************************************************************************)
(* The whole system: client processes that run the menu of client/main.cpp,*)
(* the server with one thread per connection, the shared-memory key table  *)
(* that both write, and the tables of the database.                        *)
(*                                                                         *)
(* No lock orders the calls.  shmWrite takes the node it fills in one step *)
(* and copies its two chunks in two more, between which any process may    *)
(* write, read or end.  A call of the database object lasts from one step  *)
(* of its thread to the next; once two threads have been in such calls at  *)
(* the same time, the answers that come over their one handle may be       *)
(* anybody's.  SecKeyShm and MysqlOP take both kinds of calls apart.       *)
(*                                                                         *)
(* A key SHA1(r1 r2) is the pair <<r1, r2>>, HMAC(r1) is <<"hmac", r1>>    *)
(* and SHA1(key), which "check" sends, is the key itself: the hashes are   *)
(* taken as injective.                                                     *)
(***************************************************************************)
EXTENDS Integers, FiniteSets, Sequences

CONSTANTS
  Clients,     \* client processes
  Ids,         \* client ids
  IdOf,        \* the id a client is configured with
  Registered,  \* ids with a row of state 0 in secnode
  Nonces,      \* random strings r1 and r2; the seeds are seconds, so they repeat
  KeyIds,      \* what time(NULL) % 100000 can give
  TableSize,   \* maxNode of the server
  LP64,        \* TRUE: long has 64 bits
  DbMayFail,   \* TRUE: a statement may fail, the link may be down or be lost
  MaxConns,    \* bound of the model: connections made
  MaxKills,    \* bound of the model: processes killed from outside
  None         \* no value

ASSUME SystemAssumption ==
  /\ IdOf \in [Clients -> Ids]
  /\ Registered \subseteq Ids
  /\ KeyIds \subseteq Nat
  /\ None \notin Nonces \X Nonces
  /\ None \notin [id : Ids, kid : KeyIds, n : 1..MaxConns]
  /\ None \notin [slot : 0..TableSize, todo : SUBSET {"head", "key"}]
  /\ TableSize \in Nat \ {0}
  /\ LP64 \in BOOLEAN /\ DbMayFail \in BOOLEAN
  /\ MaxConns \in Nat /\ MaxKills \in Nat

VARIABLES
  srv,       \* the server: "down", in its start at "check" or "set", or "up"
  db,        \* its session: "down", "good", or "mixed" by overlapping calls
  attached,  \* the server's SecKeyShm has a segment
  cap,       \* nodes of the segment, fixed by its creator; 0: no segment
  total,     \* of the segment's header
  nodes,     \* the node array
  rows,      \* seckeyinfo; keyid is the position (AUTO_INCREMENT)
  conn,      \* the connections, each with its server thread
  opened,    \* how many connections were made
  cli,       \* the client processes; key and kid are of the key at hand
  last,      \* history: the answer each client's last operation ended with
  kills,     \* history: processes killed from outside
  died,      \* history: why the server died by itself
  agreed,    \* history: the key the server derived on each connection
  past       \* history: which of Troubles have happened

srvVars == <<srv, db, attached>>
shmVars == <<cap, total, nodes>>
vars == <<srv, db, attached, cap, total, nodes, rows, conn, opened, cli, last,
          kills, died, agreed, past>>

Conns  == 1..MaxConns
Slots  == 1..TableSize
Cmds   == {"agree", "check", "revoke", "view"}
Chunks == {"head", "key"}

\* A statement failed or the link did; two threads were in calls of the
\* database at once; two copies into the table overlapped; one was cut off.
Troubles == {"dbFailed", "dbOverlap", "shmOverlap", "shmCut"}

Request(cmd, id, arg, auth) == [cmd |-> cmd, id |-> id, arg |-> arg, auth |-> auth]
Reply(rv, r2, kid) == [rv |-> rv, r2 |-> r2, kid |-> kid]
Outcome(cmd, rv, key, n) == [cmd |-> cmd, rv |-> rv, key |-> key, n |-> n]

Hmac(r1) == <<"hmac", r1>>

\* A node: head has status, seckeyID, clientID and serverID, and n, the
\* agreement the record comes from (history); a head of None is status 0.
Record(id, kid, n, key) == [head |-> [id |-> id, kid |-> kid, n |-> n], key |-> key]
Blank == [head |-> None, key |-> None]

\* open: the client's end; req: what it sent; pc: the server's end and thread;
\* key, kid: the locals of secKeyAgree; wr: its shmWrite; rsp: the reply built;
\* sent: it is out.
Unused == [c |-> None, open |-> FALSE, req |-> None, pc |-> "unused", key |-> None,
           kid |-> None, wr |-> None, rsp |-> None, sent |-> FALSE]

\* What is left of a connection once both ends are closed.
Gone == [Unused EXCEPT !.pc = "closed"]
Tidy(k) == IF k.pc = "closed" /\ ~k.open THEN Gone ELSE k

\* free: the nodes that were free when the client's shmRead began.
Down == [st |-> "down", n |-> 0, req |-> None, key |-> None, kid |-> None,
         free |-> {}, wr |-> None]
Menu == [Down EXCEPT !.st = "menu"]

Init ==
  /\ srv = "down" /\ db = "down" /\ attached = FALSE
  /\ cap = 0 /\ total = 0 /\ nodes = [i \in Slots |-> Blank]
  /\ rows = <<>>
  /\ conn = [n \in Conns |-> Unused] /\ opened = 0
  /\ cli = [c \in Clients |-> Down]
  /\ last = [c \in Clients |-> None]
  /\ kills = 0 /\ died = {}
  /\ agreed = [n \in Conns |-> None]
  /\ past = {}

-----------------------------------------------------------------------------
(* The shared-memory table.                                                *)

Used(i) == nodes[i].head # None
FirstFree == {i \in Slots : i <= total /\ ~Used(i) /\ \A j \in Slots : j < i => Used(j)}

\* A shmWrite that has its node; slot 0: it found none.
Writes == [slot : Slots \cup {0}, todo : SUBSET Chunks]

\* Mutant: the loop goes one node too far.
ScanTooFar == IF FirstFree = {} THEN {[slot |-> total + 1, todo |-> Chunks]}
                                ELSE {[slot |-> i, todo |-> Chunks] : i \in FirstFree}

\* shmWrite looks for the first node with status 0.
Scan == IF FirstFree = {} THEN {[slot |-> 0, todo |-> {}]}
                          ELSE {[slot |-> i, todo |-> Chunks] : i \in FirstFree}

Copies(w)  == w # None /\ w.todo # {}
Written(w) == w # None /\ w.todo = {}
Torn(w)    == w # None /\ w.todo = {"key"}
Overlap(ws) == IF \E w \in ws : w.slot # 0 /\ (\/ \E n \in Conns : Copies(conn[n].wr)
                                               \/ \E c \in Clients : Copies(cli[c].wr))
               THEN past \cup {"shmOverlap"} ELSE past

\* memcpy of one chunk; the compiler and libc choose the order.
Store(w, chunk, rec) == nodes' = [nodes EXCEPT ![w.slot][chunk] = rec[chunk]]
Rest(w, chunk) == [w EXCEPT !.todo = @ \ {chunk}]

IsOf(i, id) == Used(i) /\ nodes[i].head.id = id

\* shmRead of client c: the first node of the pair; the loop may have passed
\* a node before it was filled.
Missed(c, i) == IsOf(i, IdOf[c]) => i \in cli[c].free
Found(c) == {i \in Slots : /\ i <= total /\ IsOf(i, IdOf[c])
                           /\ \A j \in Slots : j < i => Missed(c, j)}

\* Printing apart, nothing follows the last chunk but the count.
Cut(ws) == IF \E w \in ws : Torn(w) THEN past \cup {"shmCut"} ELSE past

-----------------------------------------------------------------------------
(* The database object: the four operations of MysqlOP on m_conn.          *)

InDb(n) == conn[n].pc \in {"ask", "db"}

\* A call of the database object begins; two at once mix their answers.
BeginCall(n) ==
  LET mixes == db # "down" /\ \E m \in Conns \ {n} : InDb(m) IN
  /\ db' = IF mixes THEN "mixed" ELSE db
  /\ past' = IF mixes THEN past \cup {"dbOverlap"} ELSE past

\* How a call ends: with its own answer, with -1 because the statement or the
\* link failed, or with whatever answer it met.
Ends == {"own", "error", "any"}
EndCall(how) ==
  /\ how = "own" => db = "good"
  /\ how = "any" => db = "mixed"
  /\ how = "error" => db = "down" \/ DbMayFail
  /\ past' = IF how = "error" THEN past \cup {"dbFailed"} ELSE past

\* Whether the statement took effect: -1 may mean that only the answer is lost.
Effect(how) == {e \in BOOLEAN : (how = "own" => e) /\ (db = "down" => ~e)}

\* Mutant: without the clientid condition.
ActiveOfAll(id) == {k \in DOMAIN rows : rows[k].state = 0}

Active(id) == {k \in DOMAIN rows : rows[k].id = id /\ rows[k].state = 0}

\* getSecKey: order by keyid desc limit 1
Latest(id) == {k \in Active(id) : \A j \in Active(id) : j <= k}

\* What getSecKey returns: a key and its keyid, or -1.  An answer that is not
\* its own has the key of some row or an id of secnode, and any number.
GetSecKey(id, how) ==
  CASE how = "own" /\ Active(id) # {} -> {Reply(0, rows[k].key, k) : k \in Latest(id)}
    [] how = "any" -> {Reply(-1, None, 0)}
         \cup {Reply(0, x, k) : x \in {rows[j].key : j \in DOMAIN rows} \cup Registered \cup {None},
                                k \in DOMAIN rows \cup {0}}
    [] OTHER -> {Reply(-1, None, 0)}

-----------------------------------------------------------------------------
(* The server process.                                                     *)

\* The object with its session, then startWork's segment, to create or to find;
\* shmget refuses (EINVAL) one that is smaller than asked for.
StartServer ==
  /\ srv = "down"
  /\ \E ok \in {TRUE, ~DbMayFail} :
       /\ db' = IF ok THEN "good" ELSE "down"
       /\ past' = IF ok THEN past ELSE past \cup {"dbFailed"}
  /\ cap' = IF cap = 0 THEN TableSize ELSE cap
  /\ attached' = (TableSize <= cap')
  /\ srv' = IF attached' THEN "check" ELSE "up"
  /\ UNCHANGED <<total, nodes, rows, conn, opened, cli, last, kills, died, agreed>>

SrvHeader(s) ==
  /\ srv' = s
  /\ UNCHANGED <<db, attached, cap, nodes, rows, conn, opened, cli, last, kills, died,
                 agreed, past>>

\* if (pInt[0] == 0); past its header the server listens.
SrvCheckHeader ==
  /\ srv = "check"
  /\ SrvHeader(IF total = 0 THEN "set" ELSE "up")
  /\ UNCHANGED total

\* pInt[0] = maxNode
SrvSetTotal ==
  /\ srv = "set"
  /\ total' = TableSize
  /\ SrvHeader("up")

\* The process ends; the kernel closes every connection, and what its threads
\* were copying stays as it is.
ServerGone ==
  /\ srv' = "down" /\ db' = "down" /\ attached' = FALSE
  /\ conn' = [n \in Conns |-> IF conn[n].pc = "unused" THEN conn[n]
                              ELSE Tidy([conn[n] EXCEPT !.pc = "closed", !.wr = None])]
  /\ past' = Cut({conn[n].wr : n \in Conns})

Die(why) ==
  /\ ServerGone
  /\ died' = died \cup {why}
  /\ UNCHANGED <<shmVars, rows, opened, cli, last, kills, agreed>>

KillServer ==
  /\ srv # "down" /\ kills < MaxKills
  /\ ServerGone
  /\ kills' = kills + 1
  /\ UNCHANGED <<shmVars, rows, opened, cli, last, died, agreed>>

\* Nothing reconnects.  The library may give up a mixed session by itself.
LoseDb ==
  /\ db # "down" /\ (DbMayFail \/ db = "mixed")
  /\ db' = "down" /\ past' = past \cup {"dbFailed"}
  /\ UNCHANGED <<srv, attached, shmVars, rows, conn, opened, cli, last, kills, died, agreed>>

-----------------------------------------------------------------------------
(* working: one thread per connection, one request per connection.         *)

Has(n, cmd) == conn[n].pc = "ask" /\ conn[n].req.cmd = cmd

Answer(n, r) == conn' = [conn EXCEPT ![n].pc = "reply", ![n].rsp = r]
Refuse(n) == Answer(n, Reply(-1, None, 0))
SysUnchanged  == UNCHANGED <<srv, attached, cap, total, opened, cli, last, kills, died>>
RestUnchanged == SysUnchanged /\ UNCHANGED agreed

\* recvMsg fails: the client is gone without a request.
RecvFails(n) ==
  /\ conn[n].pc = "recv" /\ conn[n].req = None /\ ~conn[n].open
  /\ conn' = [conn EXCEPT ![n] = Gone]
  /\ UNCHANGED <<db, nodes, rows, past>> /\ RestUnchanged

\* The request is here: every handler begins with a call of the database.
Recv(n) ==
  /\ conn[n].pc = "recv" /\ conn[n].req # None
  /\ conn' = [conn EXCEPT ![n].pc = "ask"]
  /\ BeginCall(n)
  /\ UNCHANGED <<nodes, rows>> /\ RestUnchanged

Valid(q, how) == how = "any" \/ (how = "own" /\ q.id \in Registered)
Invalid(q, how) == how # "own" \/ q.id \notin Registered

\* checkClient does not find the client, or the authCode is wrong.
AgreeRefuse(n) ==
  LET q == conn[n].req IN
  /\ Has(n, "agree")
  /\ \E how \in Ends : EndCall(how) /\ (Invalid(q, how) \/ q.auth # Hmac(q.arg))
  /\ Refuse(n)
  /\ UNCHANGED <<db, nodes, rows>> /\ RestUnchanged

AgreeAccept(n) ==
  LET q == conn[n].req IN
  /\ Has(n, "agree")
  /\ \E how \in Ends : EndCall(how) /\ Valid(q, how) /\ q.auth = Hmac(q.arg)
  /\ \E r2 \in Nonces, kid \in KeyIds :
       /\ conn' = [conn EXCEPT ![n].pc = "shm", ![n].key = <<q.arg, r2>>, ![n].kid = kid,
                               ![n].rsp = Reply(0, r2, kid)]
       /\ agreed' = [agreed EXCEPT ![n] = <<q.arg, r2>>]
  /\ UNCHANGED <<db, nodes, rows>> /\ SysUnchanged

ShmScan(n) ==
  /\ conn[n].pc = "shm" /\ attached /\ conn[n].wr = None
  /\ \E w \in Scan : conn' = [conn EXCEPT ![n].wr = w]
  /\ past' = Overlap(Scan)
  /\ UNCHANGED <<db, nodes, rows>> /\ RestUnchanged

ShmCopy(n) ==
  LET k == conn[n] IN
  /\ Copies(k.wr)
  /\ \E chunk \in k.wr.todo :
       /\ Store(k.wr, chunk, Record(k.req.id, k.kid, n, k.key))
       /\ conn' = [conn EXCEPT ![n].wr = Rest(k.wr, chunk)]
  /\ UNCHANGED <<db, rows, past>> /\ RestUnchanged

\* shmWrite has ended, or found no address to write to.
ShmEnds(n) == conn[n].pc = "shm" /\ (Written(conn[n].wr) \/ ~attached)

\* Mutant: the reply goes out before the row is written.
ShmDoneReplies(n) ==
  /\ ShmEnds(n)
  /\ conn' = [conn EXCEPT ![n].pc = "reply", ![n].wr = None]
  /\ UNCHANGED <<db, nodes, rows, past>> /\ RestUnchanged

\* The result of shmWrite is ignored; writeSecKey begins ...
ShmDone(n) ==
  /\ ShmEnds(n)
  /\ conn' = [conn EXCEPT ![n].pc = "db", ![n].wr = None]
  /\ BeginCall(n)
  /\ UNCHANGED <<nodes, rows>> /\ RestUnchanged

\* Without a segment mapShm holds (void*)-1 for a moment in the object that the
\* threads share: one that maps meanwhile takes it for the address ...
ShmBad(n) ==
  /\ conn[n].pc = "shm" /\ ~attached /\ conn[n].wr = None
  /\ \E m \in Conns \ {n} : conn[m].pc = "shm"
  /\ conn' = [conn EXCEPT ![n].pc = "bad"]
  /\ UNCHANGED <<db, nodes, rows, past>> /\ RestUnchanged

\* ... and faults on it.
ShmFaults(n) ==
  /\ conn[n].pc = "bad"
  /\ Die("shm")

RowOf(n) == [id |-> conn[n].req.id, key |-> conn[n].key, state |-> 0, n |-> n]

\* Mutant: the insert is sent twice.
AgreeDbTwice(n) ==
  /\ conn[n].pc = "db"
  /\ \E how \in Ends : EndCall(how) /\ \E e \in Effect(how) :
       rows' = IF e THEN rows \o <<RowOf(n), RowOf(n)>> ELSE rows
  /\ conn' = [conn EXCEPT ![n].pc = "reply"]
  /\ UNCHANGED <<db, nodes>> /\ RestUnchanged

\* ... and what it returns is only printed.
AgreeDb(n) ==
  /\ conn[n].pc = "db"
  /\ \E how \in Ends : EndCall(how) /\ \E e \in Effect(how) :
       rows' = IF e THEN Append(rows, RowOf(n)) ELSE rows
  /\ conn' = [conn EXCEPT ![n].pc = "reply"]
  /\ UNCHANGED <<db, nodes>> /\ RestUnchanged

\* secKeyCheck: compare with the key getSecKey returned.
Check(n) ==
  LET q == conn[n].req IN
  /\ Has(n, "check")
  /\ \E how \in Ends : EndCall(how) /\ \E r \in GetSecKey(q.id, how) :
       IF r.rv = 0 /\ r.r2 = q.auth THEN Answer(n, Reply(0, None, 0)) ELSE Refuse(n)
  /\ UNCHANGED <<db, nodes, rows>> /\ RestUnchanged

SetState(kid, s) ==
  [k \in DOMAIN rows |-> IF k = kid THEN [rows[k] EXCEPT !.state = s] ELSE rows[k]]

\* secKeyRevoke: the request's number is looked up as a keyid; no row with
\* that keyid is a success too.
Revoke(n) ==
  /\ Has(n, "revoke")
  /\ \E how \in Ends : EndCall(how) /\ \E e \in Effect(how) :
       /\ rows' = IF e THEN SetState(conn[n].req.arg, 1) ELSE rows
       /\ \/ how # "error" /\ Answer(n, Reply(0, None, 0))
          \/ how # "own" /\ Refuse(n)
  /\ UNCHANGED <<db, nodes>> /\ RestUnchanged

\* Mutant: getSecKey is tried again until it finds a key.
ViewRetries(n) ==
  /\ Has(n, "view")
  /\ \E how \in Ends : EndCall(how) /\ \E r \in GetSecKey(conn[n].req.id, how) :
       IF r.rv = 0 THEN Answer(n, r) ELSE UNCHANGED conn
  /\ UNCHANGED <<db, nodes, rows>> /\ RestUnchanged

\* secKeyView: the key goes out in the field of r2.
View(n) ==
  /\ Has(n, "view")
  /\ \E how \in Ends : EndCall(how) /\ \E r \in GetSecKey(conn[n].req.id, how) : Answer(n, r)
  /\ UNCHANGED <<db, nodes, rows>> /\ RestUnchanged

\* Encoding rv = -1 as an unsigned long of 64 bits is out of range for the
\* DER writer; the encoder then follows a null node.
EncodeFaults(n) == LP64 /\ conn[n].rsp.rv = -1

ReplyFaults(n) ==
  /\ conn[n].pc = "reply" /\ EncodeFaults(n)
  /\ Die("encode")

Send(n) ==
  /\ conn[n].pc = "reply" /\ ~EncodeFaults(n)
  /\ conn' = [conn EXCEPT ![n] = Tidy([@ EXCEPT !.pc = "closed", !.sent = conn[n].open])]
  /\ UNCHANGED <<db, nodes, rows, past>> /\ RestUnchanged

\* The client's end is closed: the second write of sendMsg may raise SIGPIPE.
SendFaults(n) ==
  /\ conn[n].pc = "reply" /\ ~EncodeFaults(n) /\ ~conn[n].open
  /\ Die("sigpipe")

-----------------------------------------------------------------------------
(* The client process: a menu of four operations, one at a time.           *)

At(c, st) == cli[c].st = st
Goto(c, st) == cli' = [cli EXCEPT ![c].st = st]
Finish(c, outcome) ==
  /\ cli' = [cli EXCEPT ![c] = Menu]
  /\ last' = [last EXCEPT ![c] = outcome]
CloseEnd(c) == conn' = [conn EXCEPT ![cli[c].n] = Tidy([@ EXCEPT !.open = FALSE])]
Exit(c) ==
  /\ cli' = [cli EXCEPT ![c] = Down]
  /\ last' = [last EXCEPT ![c] = None]
SrvUnchanged  == UNCHANGED <<srvVars, cap, total, rows, kills, died, agreed>>
OnlyClient == SrvUnchanged /\ UNCHANGED <<nodes, conn, opened, past>>

\* The constructor creates the segment, for one node, if nobody has ...
StartClient(c) ==
  /\ At(c, "down")
  /\ Goto(c, "check")
  /\ cap' = IF cap = 0 THEN 1 ELSE cap
  /\ UNCHANGED <<srvVars, total, nodes, rows, conn, opened, last, kills, died, agreed, past>>

\* ... and builds the header if total is 0.
CheckHeader(c) ==
  /\ At(c, "check")
  /\ Goto(c, IF total = 0 THEN "set" ELSE "menu")
  /\ UNCHANGED last /\ OnlyClient

SetTotal(c) ==
  /\ At(c, "set")
  /\ Goto(c, "menu")
  /\ total' = 1
  /\ UNCHANGED <<srvVars, cap, nodes, rows, conn, opened, last, kills, died, agreed, past>>

\* Menu entry 0.
Quit(c) ==
  /\ At(c, "menu")
  /\ Exit(c)
  /\ OnlyClient

\* An operation that is ready to connect: its request and the local key it is
\* about.
Ready(q, kid, key) == [Menu EXCEPT !.st = "ready", !.req = q, !.kid = kid, !.key = key]
Begins(c, o) ==
  /\ cli' = [cli EXCEPT ![c] = o]
  /\ last' = [last EXCEPT ![c] = None]
  /\ OnlyClient

\* agree and view need no local key ...
Choose(c) ==
  /\ At(c, "menu") /\ opened < MaxConns
  /\ \E q \in {Request("agree", IdOf[c], r1, Hmac(r1)) : r1 \in Nonces}
            \cup {Request("view", IdOf[c], None, None)} : Begins(c, Ready(q, None, None))

\* ... check and revoke read it first.
BeginRead(c) ==
  /\ At(c, "menu") /\ opened < MaxConns
  /\ Begins(c, [Menu EXCEPT !.st = "read", !.free = {i \in Slots : ~Used(i)}])

\* revoke sends the local key's number in the field of r1.
ReadLocal(c) ==
  /\ At(c, "read")
  /\ \E i \in Found(c), cmd \in {"check", "revoke"} :
       LET k == nodes[i]
           q == IF cmd = "check" THEN Request("check", IdOf[c], None, k.key)
                                 ELSE Request("revoke", IdOf[c], k.head.kid, None)
       IN Begins(c, Ready(q, k.head.kid, k.key))

\* check and revoke find no key of their own.
NoLocalKey(c) ==
  /\ At(c, "read") /\ \A i \in Slots : i <= total => Missed(c, i)
  /\ Finish(c, None)
  /\ OnlyClient

\* agree and check test what connectToHost and recvMsg return; revoke and view
\* go on, write to the dead socket or decode a null buffer, and the process ends.
Fails(c) ==
  IF cli[c].req.cmd \in {"agree", "check"} THEN Finish(c, None) ELSE Exit(c)

ConnectFails(c) ==
  /\ At(c, "ready") /\ srv # "up"
  /\ Fails(c)
  /\ OnlyClient

\* connectToHost; the server accepts into a thread that receives.
Connect(c) ==
  /\ At(c, "ready") /\ srv = "up" /\ opened < MaxConns
  /\ opened' = opened + 1
  /\ conn' = [conn EXCEPT ![opened'] = [Unused EXCEPT !.c = c, !.open = TRUE, !.pc = "recv"]]
  /\ cli' = [cli EXCEPT ![c].st = "connected", ![c].n = opened']
  /\ SrvUnchanged /\ UNCHANGED <<nodes, last, past>>

\* sendMsg; what is sent to a server that is gone is lost.
SendRequest(c) ==
  LET n == cli[c].n IN
  /\ At(c, "connected")
  /\ Goto(c, "waiting")
  /\ conn' = IF conn[n].pc = "recv" THEN [conn EXCEPT ![n].req = cli[c].req] ELSE conn
  /\ SrvUnchanged /\ UNCHANGED <<nodes, opened, last, past>>

\* The server is gone: the second write of sendMsg may raise SIGPIPE.
SendRequestFaults(c) ==
  /\ At(c, "connected") /\ conn[cli[c].n].pc = "closed"
  /\ Exit(c)
  /\ CloseEnd(c)
  /\ SrvUnchanged /\ UNCHANGED <<nodes, opened, past>>

\* Mutant: the client gives up on a slow server.
ReceiveImpatient(c) ==
  /\ At(c, "waiting") /\ ~conn[cli[c].n].sent
  /\ Fails(c)
  /\ CloseEnd(c)
  /\ SrvUnchanged /\ UNCHANGED <<nodes, opened, past>>

ReceiveFails(c) ==
  LET k == conn[cli[c].n] IN
  /\ At(c, "waiting") /\ k.pc = "closed" /\ ~k.sent
  /\ Fails(c)
  /\ CloseEnd(c)
  /\ SrvUnchanged /\ UNCHANGED <<nodes, opened, past>>

\* Mutant: the key is SHA1(r2 r1).
ReceiveKeySwapped(c) ==
  LET k == conn[cli[c].n] IN
  /\ At(c, "waiting") /\ k.sent /\ cli[c].req.cmd = "agree" /\ k.rsp.rv # -1
  /\ cli' = [cli EXCEPT ![c].st = "store", ![c].kid = k.rsp.kid,
                        ![c].key = <<k.rsp.r2, cli[c].req.arg>>]
  /\ UNCHANGED last /\ OnlyClient

\* A reply with rv = 0 to agree: the key is SHA1(r1 r2).
ReceiveKey(c) ==
  LET k == conn[cli[c].n] IN
  /\ At(c, "waiting") /\ k.sent /\ cli[c].req.cmd = "agree" /\ k.rsp.rv # -1
  /\ cli' = [cli EXCEPT ![c].st = "store", ![c].kid = k.rsp.kid,
                        ![c].key = <<cli[c].req.arg, k.rsp.r2>>]
  /\ UNCHANGED last /\ OnlyClient

\* Any other reply ends the operation; view shows the key it brings.
Receive(c) ==
  LET k == conn[cli[c].n]
      q == cli[c].req IN
  /\ At(c, "waiting") /\ k.sent /\ (q.cmd = "agree" => k.rsp.rv = -1)
  /\ Finish(c, Outcome(q.cmd, k.rsp.rv, IF q.cmd = "view" THEN k.rsp.r2 ELSE cli[c].key, cli[c].n))
  /\ CloseEnd(c)
  /\ SrvUnchanged /\ UNCHANGED <<nodes, opened, past>>

LocalScan(c) ==
  /\ At(c, "store") /\ cli[c].wr = None
  /\ \E w \in Scan : cli' = [cli EXCEPT ![c].wr = w]
  /\ past' = Overlap(Scan)
  /\ SrvUnchanged /\ UNCHANGED <<nodes, conn, opened, last>>

LocalCopy(c) ==
  LET k == cli[c] IN
  /\ Copies(k.wr)
  /\ \E chunk \in k.wr.todo :
       /\ Store(k.wr, chunk, Record(IdOf[c], k.kid, k.n, k.key))
       /\ cli' = [cli EXCEPT ![c].wr = Rest(k.wr, chunk)]
  /\ SrvUnchanged /\ UNCHANGED <<conn, opened, last, past>>

\* Mutant: the client does not write its key.
StoreKeyNot(c) ==
  /\ At(c, "store")
  /\ Finish(c, Outcome("agree", 0, cli[c].key, cli[c].n))
  /\ CloseEnd(c)
  /\ SrvUnchanged /\ UNCHANGED <<nodes, opened, past>>

\* The client's shmWrite has ended; a full table is only printed.
StoreKey(c) ==
  /\ At(c, "store") /\ Written(cli[c].wr)
  /\ Finish(c, Outcome("agree", 0, cli[c].key, cli[c].n))
  /\ CloseEnd(c)
  /\ SrvUnchanged /\ UNCHANGED <<nodes, opened, past>>

KillClient(c) ==
  /\ ~At(c, "down") /\ kills < MaxKills
  /\ kills' = kills + 1
  /\ Exit(c)
  /\ past' = Cut({cli[c].wr})
  /\ IF cli[c].n # 0 THEN CloseEnd(c) ELSE UNCHANGED conn
  /\ UNCHANGED <<srvVars, shmVars, rows, opened, died, agreed>>

-----------------------------------------------------------------------------
Agree(n)  == \/ AgreeRefuse(n) \/ AgreeAccept(n) \/ ShmScan(n) \/ ShmCopy(n) \/ ShmDone(n)
             \/ ShmBad(n) \/ ShmFaults(n) \/ AgreeDb(n)
Work(n)   == \/ RecvFails(n) \/ Recv(n) \/ Agree(n) \/ Check(n) \/ Revoke(n) \/ View(n)
             \/ ReplyFaults(n) \/ Send(n) \/ SendFaults(n)
Proceed(c) == \/ SendRequest(c) \/ SendRequestFaults(c) \/ ReceiveFails(c)
              \/ ReceiveKey(c) \/ Receive(c) \/ LocalScan(c) \/ LocalCopy(c) \/ StoreKey(c)
Begin(c)  == \/ StartClient(c) \/ CheckHeader(c) \/ SetTotal(c) \/ Quit(c)
             \/ Choose(c) \/ BeginRead(c) \/ ReadLocal(c) \/ NoLocalKey(c)
             \/ ConnectFails(c) \/ Connect(c)

Next ==
  \/ StartServer \/ SrvCheckHeader \/ SrvSetTotal \/ KillServer \/ LoseDb
  \/ \E n \in Conns : Work(n)
  \/ \E c \in Clients : Begin(c) \/ Proceed(c) \/ KillClient(c)

Spec == Init /\ [][Next]_vars

\* Threads and processes that can take their next step do, but nothing promises
\* that a call of a mixed session returns; nothing forces a user to begin an
\* operation or anyone to start the server.
FairSpec == /\ Spec
            /\ \A n \in Conns : WF_vars((db = "mixed" => ~InDb(n)) /\ Work(n))
            /\ \A c \in Clients : WF_vars(Proceed(c))

-----------------------------------------------------------------------------
(* Properties.                                                             *)

Key      == Nonces \X Nonces
Sent     == [cmd : Cmds, id : Ids, arg : Nonces \cup KeyIds \cup {None},
             auth : Key \cup {Hmac(r) : r \in Nonces} \cup {None}]
Answered == [rv : {0, -1}, r2 : Nonces \cup Key \cup Ids \cup {None}, kid : Nat]
NodeHead == [id : Ids, kid : KeyIds, n : Conns]
ConnRec  == [c : Clients \cup {None}, open : BOOLEAN, req : Sent \cup {None},
             pc : {"unused", "recv", "ask", "shm", "bad", "db", "reply", "closed"},
             key : Key \cup {None}, kid : KeyIds \cup {None}, wr : Writes \cup {None},
             rsp : Answered \cup {None}, sent : BOOLEAN]
CliRec   == [st : {"down", "check", "set", "menu", "read", "ready", "connected", "waiting",
                   "store"},
             n : 0..MaxConns, req : Sent \cup {None}, key : Key \cup {None},
             kid : KeyIds \cup {None}, free : SUBSET Slots, wr : Writes \cup {None}]
Last     == [cmd : Cmds, rv : {0, -1}, key : Nonces \cup Key \cup Ids \cup {None}, n : Conns]

\* Types of the server, the stores, the connections and the clients.
TypeOK ==
  /\ srv \in {"down", "check", "set", "up"} /\ db \in {"down", "good", "mixed"}
  /\ attached \in BOOLEAN
  /\ cap \in Nat /\ total \in 0..TableSize
  /\ nodes \in [Slots -> [head : NodeHead \cup {None}, key : Key \cup {None}]]
  /\ rows \in Seq([id : Ids, key : Key, state : {0, 1}, n : Conns])
  /\ conn \in [Conns -> ConnRec]
  /\ opened \in 0..MaxConns
  /\ cli \in [Clients -> CliRec]
  /\ last \in [Clients -> Last \cup {None}]
  /\ kills \in Nat
  /\ died \in SUBSET {"encode", "sigpipe", "shm"}
  /\ agreed \in [Conns -> Key \cup {None}]
  /\ past \in SUBSET Troubles

Answers(c, cmd, rv) == last[c] # None /\ last[c].cmd = cmd /\ last[c].rv = rv
Spared(troubles) == past \cap troubles = {}

\* Somebody's copy into node i has begun and not ended.
Copied(i) == \/ \E n \in Conns : Copies(conn[n].wr) /\ conn[n].wr.slot = i
             \/ \E c \in Clients : Copies(cli[c].wr) /\ cli[c].wr.slot = i

\* Every copy of an agreement's key is the key the server derived: in the
\* database and in the client that was told of success whatever happens, in the
\* shared memory as long as no two copies into it overlapped and none was cut
\* off (ServerOperation.cpp:129-160, ClientOperation.cpp:137-167).
KeysAgree ==
  /\ Spared({"shmOverlap", "shmCut"}) =>
       \A i \in Slots : Used(i) /\ ~Copied(i) => nodes[i].key = agreed[nodes[i].head.n]
  /\ \A k \in DOMAIN rows : rows[k].key = agreed[rows[k].n]
  /\ \A c \in Clients : Answers(c, "agree", 0) => last[c].key = agreed[last[c].n]

\* An agreement has at most one row and a node of each end, however replies, kills,
\* restarts and overlapping calls fall (ServerOperation.cpp:157-160,
\* ClientOperation.cpp:167).
RecordedOnce ==
  /\ \A j, k \in DOMAIN rows : rows[j].n = rows[k].n => j = k
  /\ \A n \in Conns : Cardinality({i \in Slots : Used(i) /\ nodes[i].head.n = n}) <= 2

\* As long as statements have not failed and calls of the database have not
\* overlapped, a client told of success has its row, whatever is killed
\* (ServerOperation.cpp:160-173).
AgreedIsStored ==
  Spared({"dbFailed", "dbOverlap"}) => \A c \in Clients : Answers(c, "agree", 0) =>
    \E k \in DOMAIN rows : rows[k].n = last[c].n /\ rows[k].key = last[c].key

\* As long as no two copies into the table overlapped, a client told of success
\* has a node with its very key, or every node the header counts is in use: the
\* failed write is only printed (ClientOperation.cpp:167-174).
AgreedIsLocal ==
  Spared({"shmOverlap"}) => \A c \in Clients : Answers(c, "agree", 0) =>
    \/ \E i \in Slots : Used(i) /\ nodes[i].head.n = last[c].n /\ nodes[i].key = last[c].key
    \/ \A i \in Slots : i <= total => Used(i)

\* As long as nothing ended a process, no statement failed and calls of the
\* database have not overlapped, every node of the shared memory is of an
\* agreement that has its row, or is about to have it (ServerOperation.cpp:157-160).
NoOrphans ==
  kills = 0 /\ died = {} /\ Spared({"dbFailed", "dbOverlap"}) =>
    \A i \in Slots : Used(i) => LET n == nodes[i].head.n IN
      conn[n].pc \in {"shm", "db"} \/ \E k \in DOMAIN rows : rows[k].n = n

\* As long as calls of the database have not overlapped, and whatever else fails,
\* a check that passes and a view that shows a key are about a key the database
\* holds for this client's id (MysqlOP.cpp:80-111).
AnswersAreOwn ==
  Spared({"dbOverlap"}) => \A c \in Clients : Answers(c, "check", 0) \/ Answers(c, "view", 0) =>
    \E k \in DOMAIN rows : rows[k].id = IdOf[c] /\ rows[k].key = last[c].key

\* With ids of their own, no failure and no overlapping calls, a client whose only
\* agreement was not revoked never fails the check (ServerOperation.cpp:337-376).
FreshKeyChecks ==
  (\A b, c \in Clients : IdOf[b] = IdOf[c] => b = c) /\ kills = 0 /\ died = {} /\ past = {} =>
    \A c \in Clients : Answers(c, "check", -1) =>
      LET mine == {k \in DOMAIN rows : rows[k].id = IdOf[c]} IN
      Cardinality(mine) # 1 \/ \E k \in mine : rows[k].state = 1

\* Where a refusal can be encoded, the server made the segment and nobody was
\* killed, the server does not end by itself: no client that lives closes its end
\* while the server works for it, and no thread is handed (void*)-1
\* (TcpSocket.cpp:51-67, ClientOperation.cpp:103-115, ShareMemory.cpp:60-66).
ServerSurvives == ~LP64 /\ kills = 0 /\ cap \in {0, TableSize} => died = {}

\* An operation that has connected ends: with an answer, with a failure, or
\* with its process, unless calls of the database have overlapped
\* (ServerOperation.cpp:235-288).
OperationsEnd ==
  \A c \in Clients : cli[c].st \in {"connected", "waiting", "store"} ~>
                     cli[c].st \in {"menu", "down"} \/ "dbOverlap" \in past

\* ServerOperation.cpp:71 and RespondCodec.h:13: a request the server turns down
\* is answered with rv = -1.
RefusalIsEncoded == "encode" \notin died

\* ServerOperation.cpp:380 and ClientOperation.cpp:258: revoke sets the state of
\* the key the client names; told of success, the client's key is not active.
RevokedIsInactive ==
  \A c \in Clients : Answers(c, "revoke", 0) =>
    \A k \in DOMAIN rows : rows[k].key = last[c].key => rows[k].state = 1

\* RequestCodec.h:30 (NewOrUpdate) and MysqlOP.h:26: a further agreement updates
\* the key, and the check is against the latest one: it fails only for a key
\* that was revoked.
UpdatedKeyChecks ==
  \A c \in Clients : Answers(c, "check", -1) =>
    \E k \in DOMAIN rows : rows[k].id = IdOf[c] /\ rows[k].state = 1
=============================================================================
