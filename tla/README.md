# Seckey in TLA+

Seckey lets a client and a server agree on a symmetric key.  The client draws `r1`, the server
draws `r2`, both derive `SHA1(r1 r2)`, and both keep the key: each end writes it into a
System V shared-memory table of its host, the server also into MySQL.  Later the client can
check the key, revoke it or view it.  This directory holds a TLA+ model of that program, the
TLC runs that check it on small instances, and TLAPS proofs of its main invariants for every
value of the parameters.

Source paths below are relative to the repository.

## 1. Inventory

| Part | Source | State it keeps | Operations |
|---|---|---|---|
| Shared-memory key table | `common/shm` | the segment: header `total`, `useNum`, nodes; per object `m_shmID`, `m_shmAddr` | open, create, `mapShm`, `shmWrite`, `shmRead`, `unmapShm`, (`delShm`, `printShm`) |
| Server | `server/ServerOperation.cpp` | listening socket, one `SecKeyShm`, one `MysqlOP`, one thread per connection | `startWork`, `working`, `secKeyAgree`, `secKeyCheck`, `secKeyRevoke`, `secKeyView` |
| Client | `client` | one `SecKeyShm`, one `TcpSocket`, locals of the running operation | the menu: agree, check, revoke, view, quit |
| Database | `common/db`, `server/seckeydb.sql` | `secnode`, `seckeyinfo`, the handle `m_conn` | `connectDB`, `checkClient`, `writeSecKey`, `getSecKey`, `revokeSecKey` |
| Transport | `common/net` | a socket | `connectToHost`, `sendMsg`, `recvMsg`, `disConnect`, `setListen`, `acceptConn` |
| Codec | `common/codec` | the node list of a message | DER writers and readers, `msgEncode`, `msgDecode` |
| Daemon, scripts | `server/main.cpp`, `script` | the process, its handler, its socket, its database session | launch, fork, bind, listen, accept, `SIGUSR1` |
| Logging, factories, tests | `common/codec/ItcastLog.*`, `*Factory.*`, `test` | none that matters | |

How they interact.  A client connects for every operation: one connection carries one request
and one reply.  The server accepts in its main thread and gives each connection a detached
thread (`working`), which receives, decodes, dispatches to one of four handlers, sends and
closes.  All threads use the same `SecKeyShm` and the same MySQL handle.  Server and clients of a
host attach the same segment (key `0x7788`): the memory is shared by processes, without a
lock, and survives all of them.

What is hard here:

* **Concurrency.**  Threads and processes read and write the segment without synchronisation; a
  write is a scan, a 160-byte `memcpy` and an increment (`SecKeyShm.cpp:76-82`).  The constructor
  checks and sets the header in separate steps (`:24-27`).  `mapShm` stores a bad address in the
  shared object before it tests it (`ShareMemory.cpp:61-66`).  All worker threads use one MySQL handle, and a query and the
  reading of its answer are separate calls of the client library (`MysqlOP.cpp:45`, `:52`).
* **Order.**  One agreement writes three stores, in two processes, around one reply.
* **Failure.**  Either process may be killed between any two of those writes; the segment and the
  database stay.  A peer that closes raises `SIGPIPE`; revoke and view ignore failures; a refusal
  cannot be encoded where `long` has 64 bits.
* **Start and stop.**  The start script checks before it launches, so two servers may start at once; the
  database session is opened before `fork`; the stop script may signal a server at any point of its start.
* **Identity.**  The number both ends store is `time(NULL) % 100000`; the number the database
  revokes by is `AUTO_INCREMENT`.

What makes each part correct:

* table: calls stay inside the segment; a node is given once; an acknowledged record stays whole;
  a read finds the oldest record of the pair; the header is built once;
* agreement: all copies of a key agree; an agreement is recorded once; success is told only after
  the stores; answers are about the client's own keys; operations end;
* database access: a call returns its own answer and leaves the handle ready for the next (the code gives this only to calls
  that do not overlap);
* start and stop: one server serves, with its `SecKeyShm` and its session; a launch leads to one; no signal cuts a
  connection;
* transport: a received message is a sent one, whole and in order;
* codec: decoding inverts encoding for every message the program sends.

## 2. Modules

| Module | Models | Extends |
|---|---|---|
| `KeyTable` | what the table promises: cells filled once, in order | |
| `SecKeyShm` | the segment at the grain of loads and stores | instance of `KeyTable` |
| `MCSecKeyShm` | its small instances | `SecKeyShm` |
| `SecKeyShmProofs` | theorems about it, with racing calls and when calls do not overlap | `SecKeyShm`, TLAPS |
| `KeyAgreement` | clients, server threads, table, database and their failures | |
| `MCKeyAgreement` | its small instances | `KeyAgreement` |
| `KeyAgreementProofs` | theorems about it: types, and the key on its way between the two ends | `KeyAgreement`, TLAPS |
| `KeyAgreementStoresProofs` | the copies of a key, what an agreement leaves in the stores, what clients are told, and that the server outlives it | `KeyAgreementProofs` |
| `MysqlOP` | the four statements on the handle that all threads share | |
| `MCMysqlOP` | its small instances | `MysqlOP` |
| `MysqlOPProofs` | theorems about it | `MysqlOP`, TLAPS |
| `ServerLifecycle` | scripts, start, daemon, listening socket, signals | |
| `MCServerLifecycle` | its small instance | `ServerLifecycle` |
| `ServerLifecycleProofs` | theorems about it | `ServerLifecycle`, TLAPS |
| `MsgChannel` | what one direction of a connection promises: whole messages in order, or the end | |
| `TcpSocket` | `sendMsg` and `recvMsg` over partial reads and writes | instance of `MsgChannel` |
| `MCTcpSocket` | its small instance | `TcpSocket` |
| `TcpSocketProofs` | theorems about it, and that it implements `MsgChannel` | `TcpSocket`, TLAPS |
| `BaseASN1` | DER writers and readers, as operators | |
| `BaseASN1Proofs` | that a reader gives back what its writer wrote | `BaseASN1`, TLAPS |
| `SequenceASN1` | one message through encoder, bytes and decoder | `BaseASN1` |
| `MCSequenceASN1` | the messages the program sends | `SequenceASN1` |
| `SequenceASN1Proofs` | theorems about every message: types, delivery, DER, faults | `SequenceASN1`, `BaseASN1Proofs` |

### SecKeyShm

State: `cap`, the nodes the kernel sized the segment for (0: no segment); `total`, `useNum` and
`node`, the memory; `shmID`, `addr`, the two members of each object; `ctor`, where each process's
constructor is; `pc` and `call`, where each thread's call is and its locals.  `acked`, `acks` and
`crashes` are history.

A node of 160 bytes is two chunks, `head` (status, number, ids) and `body` (key), copied in either
order: that is enough to tell a whole record from a torn one, and to separate the store of
`status`, which makes a node used, from the rest.  A record is a model value; a chunk holds the
record it was copied from.

| Action | Code |
|---|---|
| `Open`, `Create` | the constructors' `shmget` (and `shmat`); `shmget` refuses a segment smaller than asked for |
| `CheckHeader`, `SetTotal`, `SetUse` | `SecKeyShm.cpp:24`, `:26`, `:27` |
| `BeginWrite`, `BeginRead` | a call of `shmWrite`, `shmRead` |
| `Mapped`, `AttachFails`, `ResetAddr`, `Fault` | the paths of `mapShm`; `Fault` is the thread that takes `(void*)-1` for an address |
| `ScanUsed`, `ScanFree`, `CopyChunk`, `LoadUseNum`, `StoreUseNum` | the body of `shmWrite` |
| `ReadSkip`, `ReadMatch`, `ReadChunk`, `ReadDone` | the body of `shmRead` |
| `NotFound` | either loop runs out: -1 |
| `Destroy` | the destructor and its `unmapShm`; the process may construct anew |
| `Crash` | a process is killed, at any point |

`Exclusive` chooses between two uses.  `FALSE`: calls and constructors of all processes interleave.
`TRUE`: a call begins only when none runs, which is what the protocol gives when one client works
at a time, since the server's thread writes before it replies and the client writes after.
Properties that need it are implications with `Exclusive` as hypothesis, so both are checked
and proved of one specification.

### KeyAgreement

State: `srv`, `db`, `attached` of the server process: where its start is, its database session, whether its `SecKeyShm`
has a segment; `cap`, `total`, `nodes`, the segment; `rows` of `seckeyinfo` (`keyid` is the position); `conn`, one record
per connection with both its ends, the request, the thread's program counter, its locals, its `shmWrite` and the reply; `cli`,
the client processes.  `last`, `kills`, `died`, `agreed` and `past` are history.

No lock orders what processes and threads do, and neither does the model:

* **The table.**  A `shmWrite` takes its node in one step (`Scan`) and copies its two chunks, `head` and `key`, in two more, in
  either order (`Store`); between them any process may scan, copy, read or end.  Two writers may get the same node: one record is
  lost, or the node has the head of one and the key of the other.  A process that ends in a copy leaves the node as it is.  A
  `shmRead` begins in one step, which notes the nodes that were free, and finds its node in another: a loop may have
  passed a node before it was filled.  The copy out of the node, and the scan itself, are one step each; `SecKeyShm` divides these
  too.  The header is checked and set in two steps by server and clients, and may be built twice, in either order, so `total` may
  be less than `cap`.  A server that finds a segment smaller than its table has none (`attached`): `shmget` refuses it, its
  writes fail, and of two threads that map at once one may be handed `(void*)-1` and fault (`ShmBad`, `ShmFaults`).
* **The database.**  A call lasts from one step of its thread (`Recv` or `ShmDone`, `BeginCall`) to the next (`EndCall`).  It ends with
  its own answer, with -1 if the statement or the link failed, or, once two threads of this session have been in calls at
  the same time (`db = "mixed"`), with any answer: of a select a key or an id that the tables hold, or none, with any number; of an
  insert or update success or failure, whether or not it took effect.  The library may then also give up the link.
  This is more than `MysqlOP` lets happen, and a restart begins with a session that is good.

`past` records which of these have happened: `"dbFailed"` (a statement or the link failed), `"dbOverlap"` (two calls of the
database at once), `"shmOverlap"` (a writer took a node while another was copying) and `"shmCut"` (a process ended between the
two chunks).  A property that needs one of them not to have happened says so: `Spared({...}) => ...`.

Hashes are injective: a key is the pair `<<r1, r2>>`, the check's `SHA1(key)` is the key, `HMAC(r1)` a tagged `r1`.
Nonces may repeat: `srand(time(NULL))` gives every client of a second the same `r1`, so actions draw
them from a set freely.  `KeyIds` are the values `time(NULL) % 100000` can give; they too repeat.
Server and clients share one host and one segment, as `main.cpp` of both sets it up.

| Action | Code |
|---|---|
| `StartServer`, `SrvCheckHeader`, `SrvSetTotal` | constructor and `startWork`: database, segment, header (`SecKeyShm.cpp:24`, `:26`), then listen |
| `RecvFails`, `Recv` | `working`: the client goes without a request, or its request is dispatched and the handler's first statement is sent |
| `AgreeRefuse`, `AgreeAccept` | `secKeyAgree`: `checkClient` has answered; the `authCode`, the key |
| `ShmScan`, `ShmCopy`, `ShmDone` | its `shmWrite`, and the insert is sent |
| `ShmBad`, `ShmFaults` | two threads in `mapShm` of a server without a segment |
| `AgreeDb` | `writeSecKey` has returned, whatever it returned; the reply |
| `Check`, `Revoke`, `View` | the other handlers, when their statement has been answered |
| `ReplyFaults`, `Send`, `SendFaults` | encoding and sending the reply |
| `StartClient`, `CheckHeader`, `SetTotal` | the constructor of the client, with its segment of one node |
| `Choose`, `BeginRead`, `ReadLocal`, `NoLocalKey`, `Quit` | the menu; check and revoke read the local key |
| `ConnectFails`, `Connect`, `SendRequest`, `SendRequestFaults`, `ReceiveFails`, `ReceiveKey`, `Receive` | the operation |
| `LocalScan`, `LocalCopy`, `StoreKey` | the client's `shmWrite`, and the end of its agreement |
| `KillServer`, `KillClient`, `LoseDb` | failures from outside (external) |

What holds whatever overlaps and fails: an agreement has at most one row and two nodes (`RecordedOnce`), a row and a
client's answer have the agreement's key (`KeysAgree`), a server whose segment is its own is not ended by its threads
(`ServerSurvives`).  What holds only as long as copies into the table have not overlapped: that a node has its key (`KeysAgree`)
and that a successful client has its node (`AgreedIsLocal`).  Only as long as calls of the database have not overlapped:
that success means a row (`AgreedIsStored`, `NoOrphans`), that answers are about the client's own keys (`AnswersAreOwn`),
that a fresh key passes the check (`FreshKeyChecks`), and that an operation ends (`OperationsEnd`).  Two clients at once are
enough to lose the latter; the program does nothing to keep them apart.

### MysqlOP

State: `link`, `status`, `cmds` and `replies`, the handle `m_conn` and its connection; `rows`, the table; `pc`, `call`, `got` and
`res`, per thread.  `meant`, `calls` and `overlap` are history.  The answer to a select is what the protocol has: the count of the columns,
their definitions, an end, the rows, an end; to any other statement it is one packet, and so is an error (`Execute` may
fail a statement where `DbMayFail`).  Packets are read one at a time.  An operation is `Query` (the statement is sent) or
`QueryRefused`; then, inside `mysql_query`, `ReadOk`, or `ReadCount`, `ReadDef` and `DefsEnd`; for a select `StoreResult` or
`NoResult`, and inside `mysql_store_result` `ReadRow` and `RowsEnd`.  `ReadErr` is an error packet at any of these places,
`LinkGone` the loss of the connection.

Of the client library, which is external, the model has what these calls meet: it refuses a
statement while a result waits to be stored ("commands out of sync"), it reads packets in the order in which they
come, whoever asked, and a packet that does not fit (`Malformed`) fails the call and may end the link.  `getSecKey` copies
`row[0]` and `row[1]` of whatever row it was given (`MysqlOP.cpp:106-107`).  Which bytes two threads inside the library at
the same instant read is not modelled; a packet goes to one of them, whole.

`overlap` records whether two calls ever ran at once.  Until then `HandleClean` and `OwnAnswer` hold: this is why
`KeyAgreement` may give a call its own answer while calls have not overlapped.  Afterwards one thread may read the end of a
result that another waits for, which then waits for ever as long as the link holds: `CallsEnd` says that this, and only
this, keeps a call from returning.  `WrittenIsSent` is about both cases; `FoundIsOwn` does not hold (finding 4).

### ServerLifecycle

State: `start` and `toSignal`, the two scripts; `proc`, where each process's `main` is; `db` and `session`, whose database
session `m_conn` is; `caught`, `made` and `sock`, the handler, the object `m_shm` and `m_lfd`; `conn`, the connections; `timeWait`, the port.
A launched process has an odd number, the child it forks the next one.

| Action | Code |
|---|---|
| `FindsNone`, `Launch` | `startSvr.sh`: the look at `ps`, and later the launch |
| `ConnectDb`, `Fork`, `ForkFails`, `ParentExits` | the constructor of `ServerOperation`, `createDaemon` |
| `InstallHandler`, `MakeShm`, `Bind`, `Listen`, `Accept` | `startWork`, `setListen`, `acceptConn`, in this order |
| `Leave` | `startWork` returned: the destructors of `ServerOperation` and its members |
| `Connect`, `Served`, `TimeWaitOver` | clients, the end of `working`, the port |
| `FindPids`, `Signal` | `stopSvr.sh`; a process without its handler is ended by the signal |
| `Kill` | a kill, or a fault of the process |

What is external is the kernel's: who may bind and listen, `TIME_WAIT`, what the end of a process closes.  A process
number is not used again.  A thread's work on its connection is `KeyAgreement`'s; here a connection only is queued,
served or closed.  The stop script does not stop a server that serves, although it announces that
(`stopSvr.sh:7-8`): `catchSignal` only prints, nothing sets `m_stop`, and `signal` of glibc restarts `accept`.  In the model
`Signal` then changes nothing but the script, so `StopCutsNone` is about processes that are still starting.  `ServesAlone` says that the
server which listens has made the object its threads call without a test; whether the `shmget` in it succeeded is not
tested by the code and is `attached` of `KeyAgreement`.

### TcpSocket

One direction of a connection.  State: `wpc`, `wmsg`, `wbuf`, the sender in `writen` of the header or
the body; `pipe`, the bytes on their way; `rpc`, `rbuf`, `rlen`, the receiver in `readn`.  `sent` and `got` are
history.  `SendMsg`, `Write(n)` and `WriteFails` are `sendMsg` and one turn of `writen`'s loop, which may carry
any `n` bytes that fit; `RecvMsg`, `Read(n)` and `ReadEnd` are `recvMsg` and `readn`.  `HeaderRead` is
the test of the length (`TcpSocket.cpp:81`).  `CloseSender` and `CloseReceiver` are `disConnect`, a failed
call or the end of a process, at any byte; what has not arrived may be lost, any suffix of it, and
bytes written to an end that has closed are dropped before a write fails, as TCP does (external).
The values of a byte, the limit of `recvMsg` and the connection's buffer are parameters.
`ChannelSpec` shows the module to implement `MsgChannel`; `KeyAgreement` takes a connection to be two of
these channels, one per direction, each with one message.

### BaseASN1 and SequenceASN1

`BaseASN1` has the writers and readers as operators on sequences of bytes; an `unsigned long` is the
sequence of its 4 or 8 bytes.  A writer or reader that refuses gives `NoNode` or `NoList`: the pointer that stays
NULL.  `SequenceASN1` moves one message through two codecs: `WriteHeadNode`, `WriteNextNode` and
`PackSequence` are the calls of `msgEncode`; `UnpackSequence` and `ReadNode` those of `msgDecode`.  Because every result
is ignored, a refusal is seen when its NULL is followed: `Follow`, which ends in `"fault"`.  `mem` is the receiver's
structure byte by byte, because `readHeadNode` and `readNextNode` store an integer through a
pointer to `unsigned long`: 8 bytes over a 4-byte `int` and its neighbour on LP64.  BIT STRING, BMPString, NULL
and tags of several bytes are met by no message and left out.

## 3. Runs

| Run | Question | Bounds |
|---|---|---|
| `shm_race` | what holds whatever interleaves: `WithinSegment`, `PrefixUsed`, `CountsOnlyAcked`, `TypeOK` | server with 2 threads and 2 nodes, client with 1 node, 1 record, 1 crash |
| `shm_exclusive` | what holds when calls do not overlap: `CountLagsByCrashes`, `AckedKept`, `ReadsOldest`, `HeaderKept`, `TableSpec` | 3 processes (one only opens), 3 nodes, 3 records of 2 pairs, 1 crash |
| `core` | two clients at once, without failures: `KeysAgree`, `NoOrphans`, `ServerSurvives`, `AnswersAreOwn`, `FreshKeyChecks`, `TypeOK` | 2 clients with ids of their own, 3 connections (`ThirdAsks`), 2 nonces, table of 2 |
| `faults` | `KeysAgree`, `RecordedOnce`, `AgreedIsStored`, `AgreedIsLocal` and, under fairness, `OperationsEnd`, with kills, statements that fail, a lost database, `SIGPIPE` and encoder faults | 1 client and the threads it leaves behind, 2 connections, 1 kill, table of 2 |
| `db` | two threads on one handle: `HandleClean`, `OwnAnswer`, `WrittenIsSent`, `CallsEnd`, `TypeOK` | 2 threads, 2 ids (1 registered), 1 key, 3 calls (`FewAsked`), an empty table, statements may fail, link may be lost |
| `server` | `ServesAlone`, `SessionKept`, `StopCutsNone`, `StartServes`, `ConnectionsAccepted`, `TypeOK` | 2 users, 2 launches, 2 connections, 1 kill, 1 stop |
| `tcp` | `ChannelSpec`, `InStep`, `RefusesOnlyLong`, `SendEnds`, `TypeOK` | 4 messages, one too long, 3 sent, a connection of 3 bytes |
| `codec` | `Delivered`, `EncodingIsDer`, `FaultsOnlyOutOfRange`, `TypeOK` | every kind of request and answer, ids of 1, 4 and 11 characters, integers at each boundary, both widths of `long` |
| `refusal` | finding 1: `RefusalIsEncoded` violated | 1 client, not registered |
| `revoke` | finding 2: `RevokedIsInactive` violated | 1 client, agree then revoke |
| `update` | finding 3: `UpdatedKeyChecks` violated | 1 client, two agreements then check |
| `db_race` | finding 4: `FoundIsOwn` violated | 2 threads, 2 calls |

Why the bounds suffice.  A race on the table needs two writers at one node; two threads of one
process and one of another give every pairing, and two nodes give a next one.  One crash puts a
half-done write before a later one.  The client's table of one node against the server's larger one
is the real configuration (1 and 10) in small: either may create first.  In `KeyAgreement` two agreements and one
later operation are the shortest histories in which old and new keys differ; three connections
allow them, with two at a time.  In `core` the third connection is made when the first two are over and is a check (`ThirdAsks`): two
operations overlap in every way, and then somebody asks.  A table of 2 is what two overlapping agreements need to meet at one
node and at the next, and is full for what comes later; a client that starts first makes it a segment of 1, and server and
client may both build the header.  `KeyIds` has a value that is a keyid of the database (1) where that
coincidence matters and one that is not (7).  In `faults` one client is enough for an overlap: killed, or its server's, and started
again, it works while the thread of its last connection still does, and both write to the table and the database.  One
agreement fills `TableSize` 2 (one node from each end), so the second meets a full table;
one kill is of a client or of the server, and the server may besides end by itself.  Under one shared id two clients see each
other's keys, as `client/main.cpp` has it, so `AnswersAreOwn` and `FreshKeyChecks` are asked with ids of their own.  In `TcpSocket` a byte has two values, so a header of four counts to 15; a connection of 3 bytes holds no
header whole, one message is longer than `MaxLen`, and three messages give one before and one after any that goes
wrong.  In `MysqlOP` two
threads give every pairing of calls, and a third call is the next one to use what they left behind; of the client that is not registered only
the refusal is asked (`FewAsked`), and a `getSecKey` finds a row when a write came before it.  In
`ServerLifecycle` two launches are a race or a restart, two connections one that is served while the other waits,
one kill falls at any point of either.  In `SequenceASN1` the integers lie on both sides of every power of 256 and of every high bit, up to the
largest `int`; a message is shorter or longer than 127 bytes by its kind and its ids.

`MaxConns`, `MaxKills`, `MaxCrashes`, `MaxNodes`, `MaxCalls`, `MaxLaunches` and `MaxStops` are bounds of the models only:
connections ever made, kills, crashes, table sizes, calls, servers launched, stop scripts.  The nonces and the server's threads are symmetric in
the safety runs; no liveness run uses symmetry.  Deadlock is checked, except in `tcp`, `codec`,
`db`, `db_race` and `server`: a closed connection, a decoded message and the last of a bounded number of calls or
launches are the end.  Elsewhere a user can always quit and
restart a client, and in `SecKeyShm` idle threads can always begin a call.

Fairness.  `KeyAgreement!FairSpec` is weak fairness of each worker
thread and of each client inside an operation: a blocked `read` is not enabled in the model until there is
data or the peer has gone.  Of a thread in a call of the database nothing is assumed once the session is mixed: it may wait for ever.  `TcpSocket!Spec` is weak fairness of each end's loop, `Writes` and `Reads`: `writen`
and `readn` go on until they have all bytes, both callers go on to `recvMsg`, and a caller whose
`recvMsg` refused closes; no message has to be sent.  `SequenceASN1` is one sequential thread.  `MysqlOP!FairSpec`
is weak fairness of each thread's next step and of the database, which answers; `ServerLifecycle!FairSpec` of each process of
the server, and not of the threads that serve: a client may keep its thread waiting.  Nothing makes a user begin an operation, anyone start the server, or
anything fail.

## 4. Proofs

Checked with TLAPS for every value of the constants that satisfies the modules' assumptions
(`ShmAssumption`, `SystemAssumption`, `DbAssumption`, `LifecycleAssumption`, `TransportAssumption`, `CodecAssumption`: types of the parameters, that "no
value" is no record and no key, and that four bytes can count the length of a message).

`SecKeyShmProofs`:

* `TypeCorrect`, `StaysWithinSegment`, `UsedNodesArePrefix`, `CountIsNoOverstatement` hold with
  overlapping calls and crashes.  None is inductive alone.  The invariant `Shape` adds, for each
  point of a call, what the call knows there: the limit it read is at most `cap`, all nodes below its
  index are used, the slot it copies to had been reached by a scan, and the value it loaded from
  `useNum` is at most the acknowledged writes.  Because loads and stores are separate steps, these are facts that other
  threads' steps must preserve: they do since `total` only ever holds sizes that fit, no node is freed,
  and `acks` only grows.
* `AckedWritesAreKept` and `ImplementsTable` assume `Exclusive`.  `Solo` adds that at most one call or constructor
  is under way, that a call which copies has its own free node, and that a bad address belongs to the
  one call that is about to take it back.  `ImplementsTable` maps each node to its head: the
  store of a head is an `Add` at the first empty cell, every other step a stutter.

Its second part, on `Solo`:

* `CountLags`, `OldestIsRead` and `HeaderStays` assume `Exclusive`.  `Order` says that a constructor under way is all that is under way
  (`Alone`); that nothing is counted before the header is built (`Header`); and that what a call has read of the segment is
  still so (`Fresh`): its limit is `total`, what it loaded from `useNum` is `useNum`, a reader has passed no node of
  its pair, and the chunks it has copied are the node's.  Without a kill every used node is one of a successful write or is being filled
  (`Logged`), and `useNum` plus the one node not yet counted differs from the used nodes by at most the kills (`Counted`).

`KeyAgreementProofs`:

* `TypeCorrect` proves the types, for any number of clients and connections,
  kills, restarts and a database that fails, on both widths of `long`.  Its invariant `IInv` also follows the key on its way:
  the thread's key is the agreed one from acceptance
  on (`ConnOK`), the reply's `r2` with the request's `r1` is that key as long as the reply can be read,
  a waiting client's connection is its own, still open and carries its own request (`CliOK`), and the
  key it computes is therefore the same; rows have it (`StoresOK`).  The proof has a lemma per action, on three frame
  lemmas: a step of a thread, a step of a client, and the end of the server.

`KeyAgreementStoresProofs`, on `IInv`:

* A first part says what any step may do to one connection, to the server, to the rows, to what has happened, and to one client
  (`ConnMoves`, `ServerMoves`, `RowMoves`, `PastStays`, `ClientMoves`); the invariants are then proved from those and not action by action.
* `SuccessIsStored`, as long as no statement has failed and calls of the database have not overlapped: an agreement granted, whether the reply is
  on its way, read or stored by the client, has its row (`StoredOK`), since a call of a session that is not mixed ends with its own
  answer (`MixedOK`, `OwnAnswer`) and the insert comes before the reply.
* `TellsOwnKeys`, as long as calls of the database have not overlapped: an answer of success to check or view is about a row of the id that was
  asked about (`OwnOK`); rows keep their ids and keys, and a client asks with its own id and, for check, the key it holds (`AsksOK`).
* `OnceEach`, whatever happens: a row is of a connection whose thread is past the insert (`RowsOnce`), so the insert is its first; a
  connection has a node from its thread and one from its client at most, since each fills one head and is then past it (`CountOK`).
* `ServerOutlives`: as long as nobody was killed, no client has closed its end while the server works for it; and a thread is handed
  `(void*)-1` only of a segment that is too small (`ServerOK`).
* `CopiesAgree`: what `IInv` says of rows and clients, whatever happens.  For the nodes, as long as no copies overlapped, one copy
  at most is under way, and its node holds what the copy has filled so far, and a head of status 0 where it has not (`TabOK`); a node that is in
  use and not being filled has therefore both chunks of one record, unless a copy was cut off (`GoodOK`).  Server threads and
  clients are one set of writers here (`Writers`, `TableMoves`).
* `NodesHaveTheirRows`, without an end of a process, a failed statement or overlapping calls: a node's thread is at its insert or its row is there
  (`RowedOK`).  It needs nothing about copies that overlap.
* `SuccessIsLocal`, as long as no copies overlapped: the client's own copy found a node, which then has the key for ever, or every node that
  the header counts was in use (`LocalOK`).  The header may be built twice and `total` may shrink, but not after a client has
  connected (`HeaderOK`).

`MysqlOPProofs`:

* `WritesAreSent`: `WrittenIsSent` speaks of a call that has returned; `Written` says of one under way that, while the link holds, its
  statement is on its way, has its row or has failed.  Where calls have not overlapped, that a result is kept (`Settled`, below) leaves only the row.  `Shape` adds what makes the number of a statement that of its
  call: a statement under way is the call of the thread that has its number, and no later call is given that number.
* `CleanHandle` and `OwnAnswers` are about calls that have not overlapped.  `Solo` says that then at most one call runs; that what is
  under way is its statement, or what is left of its answer, packet for packet, whole unless the link is lost (`Running`, `Rest`, `Arrives`); that nothing
  is when none runs (`Clean`); and that a result is kept (`Settled`: the database runs no statement twice).

`ServerLifecycleProofs`:

* `OneServes`, `SessionStays`, `SignalCutsNone` and `TypeCorrect` are about any number of launches, users, connections,
  kills and stop scripts (`LifecycleAssumption`: the bounds are numbers).  `IInv` follows each launch: where the launched process and its child may be, whose
  session they have and that it is open while the child runs (`PairOK`); what a process has at each point of its start
  (`ProcOK`: it listens exactly in its accept loop, and has its handler and its `m_shm` before); that one process listens; that a connection which is
  queued or served is with a process that accepts (`ConnOK`).  A signal that ends a process therefore ends one without connections.

`TcpSocketProofs`:

* `TypeCorrect`, `RefusesLong`, `StaysInStep` and `ImplementsChannel` are about messages of any length and any number,
  a connection of any size and any cut of the stream by `read` and `write`.  `Flow` names the stream: the bytes of all frames
  begun so far, header and body each, and the position of each frame.  What the receiver has in its buffer, what is under way
  and what the sender still has to write are consecutive parts of it, and the receiver's part begins at the header or the body of the frame
  after those it has handed out.  A header that is complete is therefore the header of that frame, and its length that of the message
  (`LengthOfHeader`: four divisions undo four multiplications); a body that is complete is the message.
* `ImplementsChannel` is the safety part of the refinement (`ChannelSteps`): the write of a message's last byte is `MsgChannel`'s `Send`,
  the read of its last byte `Receive`, a refusal or the receiver's close `End`, every other turn of the loops a stutter.

`BaseASN1Proofs` and `SequenceASN1Proofs`, about every message whose strings fit their members (`CodecAssumption`: `id[12]` holds at
most 11 characters and the `\0`) and whose integers are C `int`s, on both widths of `long`:

* Three definitions of the codec are recursive: `Number` (the bytes of a length, shifted in), `FlattenSeq` (the nodes, one behind the
  other) and `Nodes` (the bytes, cut by the length of each node).  The library's induction theorems take an operator and cannot be used;
  the lemma `SetInduction` says the same of a set of numbers, from `NatLessThanWellFounded`, and is enough: the set is that
  of the positions, or counts, for which the claim holds.  What `CHOOSE` picks for a recursive function is settled by first
  showing that there is such a function (`ShiftedExists` and its like), again by induction.
* `LengthRead`, `StringRead` and `IntegerRead`: the reader of a length, a string and an integer gives back what was written, with the
  octet that 65535 has too many, and with the zero before a high bit.  `IntegerWritten` is what the writer refuses: negative numbers on LP64, and nothing else.
* `SequenceRead`: `ReadSequence` undoes `WriteSequence` for every list whose nodes are well formed; no other list is packed.
* `MessageDelivered`, `FaultsOutOfRange` and `CodecTypeCorrect` follow from `CodecInv`, with a lemma per action.  The list is `Sent(k)`, the
  nodes of the first `k` fields, on both ends; `k` is 5, or 4 when the last node was refused, since a refused node is followed
  by the next write, if there is one (`Writing`, `OnWire`, `Reading`).  The fields read so far are in their members (`Holds`): an 8-byte store goes
  over later members only, which are read afterwards (`StoreKeeps`), or behind the structure.
* `DerEncoded`: `Significant` gives the least number of octets for a number that is not negative, `CountLengthOfSize` for a length below
  65535, which a message does not reach (`FlattenShort`): what the reference definition of DER chooses.

Only model-checked:

* `FreshKeyChecks`: with ids of their own, no failure and no overlapping copies or calls.
* Liveness (`CallsEnd`, `OperationsEnd`, `StartServes`, `ConnectionsAccepted`, `SendEnds`, and the fairness that `ChannelSpec`
  has beyond `ChannelSteps`): TLAPS does not prove it.

## 5. Findings

1. A refusal (`rv = -1`) ends the server on LP64: the integer writer rejects the sign-extended value and
   the encoder follows the node that was not made (`BaseASN1.cpp:194`, `SequenceASN1.cpp:32-33`).
2. Revocation sends a number from the clock and updates the row with that `AUTO_INCREMENT` id.
3. After a renewal the client goes on using its oldest key, the server compares with its newest.
4. Two threads that query at once take each other's answers: `getSecKey` may return a key of another client, or the
   column of another statement (`MysqlOP.cpp:45`, `:95`).

## 6. Not modelled, and the plan

Not modelled: logging, factories, tests (no state of the system); `delShm` (only
tests call it); listing and printing; the contents of keys and ids; when a codec frees its nodes and
that `packSequence` and decoding leave some behind; what an 8-byte store to the last member of `RespondMsg`
does to the memory after the structure, and that `rv` is read there after its codec was deleted; `pthread_create` that fails;
bytes that are not an encoding of the program's own: a message that does not decode makes `msgDecode` follow a NULL pointer (`SequenceASN1.cpp:58`), and
`FaultsOnlyOutOfRange` is only about what the program's encoder wrote; two threads inside the client library or in one
`memcpy` at the same instant, beyond the order of chunks and packets;
sockets a client leaves open when an operation returns early; process numbers that are used again; functions of the codec that nothing calls.

Every invariant that a passing run checks is a theorem, but for `FreshKeyChecks`.  Next: that theorem; then, if the code moves on, when nodes of a list are freed, as a model of
who owns them, and the functions of the codec that get a caller.
