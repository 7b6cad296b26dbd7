------------------------------- MODULE MysqlOP -------------------------------
(***************************************************************************)
(* The server's database object: one MYSQL handle, m_conn, that all worker *)
(* threads use without a lock.  KeyAgreement takes an operation as one     *)
(* interval; here it is mysql_query, which sends a statement and reads the *)
(* answer up to the end of the column definitions, and, for a select,      *)
(* mysql_store_result, which reads rows up to the end of the result.       *)
(*                                                                         *)
(* The client library is outside this repository.  Modelled of it is what  *)
(* the calls here meet: the handle knows whether a result is waiting to be *)
(* stored, refuses a statement while one is, and reads packets, one at a   *)
(* time, in the order in which the database sends them, whoever sent the   *)
(* statement.                                                              *)
(***************************************************************************)
EXTENDS Integers, Sequences, FiniteSets

CONSTANTS
  Threads,      \* worker threads of the server
  Ids,          \* client ids
  Registered,   \* ids with a row of state 0 in secnode
  Keys,         \* keys that are written
  KeyIds,       \* the numbers revokeSecKey is called with
  Asked,        \* the statements that are asked
  Stored,       \* what seckeyinfo may hold at the start
  DbMayFail,    \* TRUE: a statement may fail, the link may be down or be lost
  MaxCalls,     \* bound of the model: calls made
  None          \* no value

Row == [id : Ids, key : Keys, state : {0, 1}, n : Nat]

Statement(kind, id, key, kid) == [kind |-> kind, id |-> id, key |-> key, kid |-> kid]
Statements ==
  {Statement(kind, id, None, 0) : kind \in {"check", "get"}, id \in Ids}
  \cup {Statement("write", id, key, 0) : id \in Ids, key \in Keys}
  \cup {Statement("revoke", None, None, kid) : kid \in KeyIds}

Returned(rv, key, kid) == [rv |-> rv, key |-> key, kid |-> kid]
Good == Returned(0, None, 0)
Bad  == Returned(-1, None, 0)

ASSUME DbAssumption ==
  /\ Registered \subseteq Ids
  /\ KeyIds \subseteq Nat
  /\ Asked \subseteq Statements
  /\ Stored \subseteq Seq(Row)
  /\ DbMayFail \in BOOLEAN
  /\ MaxCalls \in Nat
  /\ None \notin Ids \cup Keys \cup {Good}

VARIABLES
  rows,     \* seckeyinfo; keyid is the position, n the call that wrote it (history)
  link,     \* the handle has a connection
  status,   \* of the handle: "ready", "result" to be stored, or "stuck" with
            \* a result announced whose columns are forgotten
  cmds,     \* statements on their way to the database
  replies,  \* packets on their way back
  pc,       \* per thread: "idle", "query" has sent, reading the "defs" of the columns,
            \* "store", or in it reading the "rows"
  call,     \* per thread: its statement
  got,      \* per thread: the first row it has read, or <<>>
  res,      \* per thread: what its last call returned
  meant,    \* history: what its statement really gave
  calls,    \* history: calls made
  overlap   \* history: two calls have run at the same time

linkVars == <<link, status, cmds, replies>>
vars == <<rows, link, status, cmds, replies, pc, call, got, res, meant, calls, overlap>>

IsSelect(s) == s.kind \in {"check", "get"}

NoCall == [s |-> Statement("none", None, None, 0), n |-> 0]

-----------------------------------------------------------------------------
(* The database: it runs the statements of the connection one by one.      *)

Latest(id) ==
  LET active == {k \in DOMAIN rows : rows[k].id = id /\ rows[k].state = 0}
  IN {k \in active : \A j \in active : j <= k}

\* What a select finds, at most one row: an id of secnode, or the key and keyid
\* of "order by keyid desc limit 1".
Found(s) ==
  IF s.kind = "check" THEN {<<id>> : id \in {s.id} \cap Registered}
                      ELSE {<<rows[k].key, k>> : k \in Latest(s.id)}

\* Mutant: "state = state + 1".
EffectCounts(c) ==
  CASE c.s.kind = "write" ->
         Append(rows, [id |-> c.s.id, key |-> c.s.key, state |-> 0, n |-> c.n])
    [] c.s.kind = "revoke" ->
         [k \in DOMAIN rows |-> IF k = c.s.kid THEN [rows[k] EXCEPT !.state = @ + 1] ELSE rows[k]]
    [] OTHER -> rows

Effect(c) ==
  CASE c.s.kind = "write" ->
         Append(rows, [id |-> c.s.id, key |-> c.s.key, state |-> 0, n |-> c.n])
    [] c.s.kind = "revoke" ->
         [k \in DOMAIN rows |-> IF k = c.s.kid THEN [rows[k] EXCEPT !.state = 1] ELSE rows[k]]
    [] OTHER -> rows

\* The packets of an answer: one for a statement that is done or has failed; for
\* a select the count of its columns, their definitions, the end of these, the
\* rows, and the end of the result.
NoRow == <<None>>
Packet(kind, row) == [kind |-> kind, row |-> row]
Mark(kind) == Packet(kind, NoRow)
Columns(s) == IF s.kind = "check" THEN 1 ELSE 2

Answer(s, row) ==
  CASE ~IsSelect(s)              -> <<Mark("ok")>>
    [] IsSelect(s) /\ row = <<>> -> <<Mark("count"), Mark("def"), Mark("eof"), Mark("eof")>>
    [] OTHER -> <<Mark("count"), Mark("def"), Mark("eof"), Packet("row", row), Mark("eof")>>

\* What a call makes of the first row it has read.  getSecKey takes a second
\* column also of a row that has none: the bytes behind the row are any number.
Second(row) == IF Len(row) = 2 THEN {row[2]} ELSE KeyIds \cup {0}
Outcomes(s, row) ==
  CASE row = <<>>                   -> {Bad}
    [] row # <<>> /\ s.kind = "get" -> {Returned(0, row[1], g) : g \in Second(row)}
    [] OTHER                        -> {Good}

Meant(s, row) == IF IsSelect(s) THEN Outcomes(s, row) ELSE {Good}

Init ==
  /\ rows \in Stored
  /\ link \in {TRUE, ~DbMayFail}
  /\ status = "ready"
  /\ cmds = <<>> /\ replies = <<>>
  /\ pc = [t \in Threads |-> "idle"]
  /\ call = [t \in Threads |-> NoCall]
  /\ got = [t \in Threads |-> <<>>]
  /\ res = [t \in Threads |-> None]
  /\ meant = [t \in Threads |-> {}]
  /\ calls = 0 /\ overlap = FALSE

\* The database has come to statement c, which gives one of m and this answer.
Reply(c, m, packets) ==
  /\ meant' = [t \in Threads |-> IF call[t].n = c.n THEN m ELSE meant[t]]
  /\ replies' = IF link THEN replies \o packets ELSE replies

\* It runs the statement, or the statement fails there.
Execute ==
  LET c == Head(cmds) IN
  /\ cmds # <<>>
  /\ cmds' = Tail(cmds)
  /\ \/ /\ rows' = Effect(c)
        /\ \E row \in IF Found(c.s) = {} THEN {<<>>} ELSE Found(c.s) :
             Reply(c, Meant(c.s, row), Answer(c.s, row))
     \/ /\ DbMayFail
        /\ Reply(c, {Bad}, <<Mark("err")>>)
        /\ UNCHANGED rows
  /\ UNCHANGED <<link, status, pc, call, got, res, calls, overlap>>

\* Statements that the lost connection had not delivered.
Discard ==
  /\ ~link /\ cmds # <<>>
  /\ cmds' = <<>>
  /\ UNCHANGED <<rows, link, status, replies, pc, call, got, res, meant, calls, overlap>>

\* Nothing reconnects.
LoseLink ==
  /\ link /\ DbMayFail
  /\ link' = FALSE
  /\ \E n \in 0..Len(replies) : replies' = SubSeq(replies, 1, n)
  /\ UNCHANGED <<rows, status, cmds, pc, call, got, res, meant, calls, overlap>>

-----------------------------------------------------------------------------
(* The operations of a thread.                                             *)

Return(t, r) ==
  /\ pc' = [pc EXCEPT ![t] = "idle"]
  /\ res' = [res EXCEPT ![t] = r]
Goto(t, l) == pc' = [pc EXCEPT ![t] = l] /\ UNCHANGED res
CallUnchanged == UNCHANGED <<rows, call, meant, calls, overlap>>

Begin(t, s) ==
  /\ pc[t] = "idle" /\ calls < MaxCalls
  /\ calls' = calls + 1
  /\ call' = [call EXCEPT ![t] = [s |-> s, n |-> calls']]
  /\ got' = [got EXCEPT ![t] = <<>>]
  /\ meant' = [meant EXCEPT ![t] = {}]
  /\ overlap' = (overlap \/ \E u \in Threads : pc[u] # "idle")
  /\ UNCHANGED rows

\* mysql_query sends the statement ...
Query(t, s) ==
  /\ Begin(t, s)
  /\ link /\ status = "ready"
  /\ cmds' = Append(cmds, call'[t])
  /\ pc' = [pc EXCEPT ![t] = "query"]
  /\ res' = [res EXCEPT ![t] = None]
  /\ UNCHANGED <<link, status, replies>>

\* ... or refuses it: the server has gone away, or "commands out of sync".
QueryRefused(t, s) ==
  /\ Begin(t, s)
  /\ ~link \/ status # "ready"
  /\ Return(t, Bad)
  /\ UNCHANGED linkVars

\* Reading the first packet of an answer forgets the columns of the last one.
Forgotten == IF status = "result" THEN "stuck" ELSE status

\* Thread t, reading at l, takes a packet of one of these kinds.
Kinds == {"count", "def", "eof", "row", "ok", "err"}
Take(t, l, kinds) ==
  /\ pc[t] = l /\ replies # <<>>
  /\ Head(replies).kind \in kinds
  /\ replies' = Tail(replies)
  /\ UNCHANGED cmds /\ CallUnchanged

\* Mutant: rows are awaited after every statement.
ReadOkAwaits(t) ==
  /\ Take(t, "query", {"ok"})
  /\ status' = Forgotten
  /\ Goto(t, "rows")
  /\ UNCHANGED <<link, got>>

\* mysql_query has read that the statement is done.
ReadOk(t) ==
  /\ Take(t, "query", {"ok"})
  /\ status' = Forgotten
  /\ IF IsSelect(call[t].s) THEN Goto(t, "store") ELSE Return(t, Good)
  /\ UNCHANGED <<link, got>>

\* ... or that a result follows: it reads the columns' definitions to their end.
ReadCount(t) ==
  /\ Take(t, "query", {"count"})
  /\ status' = Forgotten
  /\ Goto(t, "defs")
  /\ UNCHANGED <<link, got>>

ReadDef(t) ==
  /\ Take(t, "defs", Kinds \ {"eof", "err"})
  /\ UNCHANGED <<link, status, got, pc, res>>

\* Mutant: the rows of a select are left in the connection.
DefsEndReturns(t) ==
  /\ Take(t, "defs", {"eof"})
  /\ status' = "result"
  /\ Return(t, Good)
  /\ UNCHANGED <<link, got>>

DefsEnd(t) ==
  /\ Take(t, "defs", {"eof"})
  /\ status' = "result"
  /\ IF IsSelect(call[t].s) THEN Goto(t, "store") ELSE Return(t, Good)
  /\ UNCHANGED <<link, got>>

\* mysql_store_result: the handle is ready again before the rows are read.
StoreResult(t) ==
  /\ pc[t] = "store" /\ status = "result"
  /\ status' = "ready"
  /\ Goto(t, "rows")
  /\ UNCHANGED <<link, cmds, replies, got>> /\ CallUnchanged

\* There is nothing to store: NULL.
NoResult(t) ==
  /\ pc[t] = "store" /\ status # "result"
  /\ Return(t, Bad)
  /\ UNCHANGED <<linkVars, got>> /\ CallUnchanged

\* Of the rows, the first one is looked at.
ReadRow(t) ==
  /\ Take(t, "rows", Kinds \ {"eof", "err"})
  /\ got' = [got EXCEPT ![t] = IF @ = <<>> THEN Head(replies).row ELSE @]
  /\ UNCHANGED <<link, status, pc, res>>

\* Mutant: checkClient does not count the rows.
RowsEndUncounted(t) ==
  /\ Take(t, "rows", {"eof"})
  /\ \E r \in Outcomes(call[t].s, got[t]) :
       Return(t, IF call[t].s.kind = "check" THEN Good ELSE r)
  /\ UNCHANGED <<link, status, got>>

RowsEnd(t) ==
  /\ Take(t, "rows", {"eof"})
  /\ \E r \in Outcomes(call[t].s, got[t]) : Return(t, r)
  /\ UNCHANGED <<link, status, got>>

\* Mutant: what mysql_query returns is not looked at.
ReadErrUnseen(t) ==
  /\ \E l \in {"query", "defs", "rows"} : Take(t, l, {"err"})
  /\ Return(t, IF IsSelect(call[t].s) THEN Bad ELSE Good)
  /\ UNCHANGED <<link, status, got>>

\* The statement has failed: mysql_query is not 0, or the result is NULL.
ReadErr(t) ==
  /\ \E l \in {"query", "defs", "rows"} : Take(t, l, {"err"})
  /\ Return(t, Bad)
  /\ UNCHANGED <<link, status, got>>

\* A packet of another place of an answer, or a row of another number of columns,
\* may be malformed; the library may then give up the connection.
Malformed(t) ==
  /\ \/ Take(t, "query", {"def", "eof", "row"}) /\ status' = Forgotten
     \/ Take(t, "defs", {"count", "row", "ok"}) /\ UNCHANGED status
     \/ /\ Take(t, "rows", {"count", "def", "row", "ok"})
        /\ Head(replies).kind = "row" => Len(Head(replies).row) # Columns(call[t].s)
        /\ UNCHANGED status
  /\ link' \in {link, FALSE}
  /\ Return(t, Bad)
  /\ UNCHANGED got

LinkGone(t) ==
  /\ pc[t] \in {"query", "defs", "rows"} /\ ~link /\ replies = <<>>
  /\ Return(t, Bad)
  /\ UNCHANGED <<linkVars, got>> /\ CallUnchanged

-----------------------------------------------------------------------------
Proceed(t) ==
  \/ ReadOk(t) \/ ReadCount(t) \/ ReadDef(t) \/ DefsEnd(t) \/ StoreResult(t) \/ NoResult(t)
  \/ ReadRow(t) \/ RowsEnd(t) \/ ReadErr(t) \/ Malformed(t) \/ LinkGone(t)
Serve == Execute \/ Discard

Next ==
  \/ Serve \/ LoseLink
  \/ \E t \in Threads : Proceed(t) \/ \E s \in Asked : Query(t, s) \/ QueryRefused(t, s)

Spec == Init /\ [][Next]_vars
\* The threads run, and the database answers.
FairSpec == Spec /\ WF_vars(Serve) /\ \A t \in Threads : WF_vars(Proceed(t))

-----------------------------------------------------------------------------
(* Properties *)

Call == [s : Statements \cup {NoCall.s}, n : 0..MaxCalls]
Result == [rv : {0, -1}, key : Keys \cup Ids \cup {None}, kid : Nat]

(* Types of the table, the handle, the connection and the calls. *)
TypeOK ==
  /\ rows \in Seq(Row)
  /\ link \in BOOLEAN /\ status \in {"ready", "result", "stuck"}
  /\ cmds \in Seq(Call)
  /\ \A i \in DOMAIN replies : replies[i].kind \in Kinds
  /\ pc \in [Threads -> {"idle", "query", "defs", "store", "rows"}]
  /\ call \in [Threads -> Call]
  /\ got \in [Threads -> Seq(Keys \cup Ids \cup {None} \cup Nat)]
  /\ res \in [Threads -> Result \cup {None}]
  /\ meant \in [Threads -> SUBSET Result]
  /\ calls \in 0..MaxCalls /\ overlap \in BOOLEAN

Quiet == \A t \in Threads : pc[t] = "idle"

(* As long as calls have not overlapped, a call leaves the handle as it found it:
   ready, and no byte of its answer unread, whichever way the call returned
   (MysqlOP.cpp:45-57, :89-109).  A byte left over would be the next call's answer. *)
HandleClean ==
  ~overlap /\ link /\ Quiet => status = "ready" /\ cmds = <<>> /\ replies = <<>>

(* As long as calls have not overlapped, a call that returns returns what its own
   statement gave, or -1 with the connection lost: KeyAgreement takes it so while
   its calls do not overlap (MysqlOP.cpp:37-127). *)
OwnAnswer ==
  ~overlap => \A t \in Threads : res[t] # None => res[t] \in meant[t] \/ (res[t] = Bad /\ ~link)

(* writeSecKey that has returned 0 has put a row into the table; only where calls
   have overlapped may its statement still be on its way, or have failed unseen
   (MysqlOP.cpp:72-77). *)
WrittenIsSent ==
  \A t \in Threads : call[t].s.kind = "write" /\ res[t] = Good =>
    \/ \E k \in DOMAIN rows : rows[k].n = call[t].n
    \/ /\ overlap
       /\ link => meant[t] = {Bad} \/ \E i \in DOMAIN cmds : cmds[i].n = call[t].n

(* Every operation returns, except that one which has overlapped another may wait
   for ever, while the connection holds, for the end of a result that the other has
   read (MysqlOP.cpp:45, :52, :72, :89, :95). *)
CallsEnd == \A t \in Threads : pc[t] # "idle" ~> pc[t] = "idle" \/ (overlap /\ link)

(* MysqlOP.h:26: getSecKey finds the latest usable key of the client; a key it
   returns is at least one of that client. *)
FoundIsOwn ==
  \A t \in Threads : call[t].s.kind = "get" /\ res[t] # None /\ res[t].rv = 0 =>
    \E k \in DOMAIN rows : rows[k].id = call[t].s.id /\ rows[k].key = res[t].key
=============================================================================
