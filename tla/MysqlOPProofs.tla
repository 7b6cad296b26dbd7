---------------------------- MODULE MysqlOPProofs ----------------------------
(***************************************************************************)
(* Theorems about the shared database handle, for any number of threads    *)
(* and calls, any tables, statements that fail and a link that may be      *)
(* lost.                                                                   *)
(*                                                                         *)
(* Shape holds however calls overlap.  Solo is about a history in which no *)
(* two calls have: what is on its way is the statement, or the rest of the *)
(* answer, of the one call that runs.                                      *)
(***************************************************************************)
EXTENDS MysqlOP, TLAPS

RowRec    == {<<id>> : id \in Ids} \cup (Keys \X Nat) \cup {NoRow}
PacketRec == [kind : Kinds, row : RowRec]
Places    == {"idle", "query", "defs", "store", "rows"}

Busy(t) == pc[t] # "idle"

\* The calls have numbers of their own, and only a select awaits rows.
Numbered ==
  /\ \A t \in Threads : call[t].n <= calls
  /\ \A t, u \in Threads : call[t].n = call[u].n /\ t # u => call[t].n = 0
  /\ \A i \in DOMAIN cmds : /\ cmds[i].s \in Statements /\ cmds[i].n \in 1..calls
                            /\ \A t \in Threads : call[t].n = cmds[i].n => call[t] = cmds[i]

Sane(t) ==
  /\ Busy(t) => call[t].s \in Statements /\ call[t].n # 0
  /\ pc[t] \in {"store", "rows"} => IsSelect(call[t].s)

Shape ==
  /\ TypeOK /\ replies \in Seq(PacketRec) /\ got \in [Threads -> RowRec \cup {<<>>}]
  /\ Numbered
  /\ \A t \in Threads : Sane(t)

-----------------------------------------------------------------------------
\* What the operators of statements give.
LEMMA StatementTyped ==
  /\ \A s \in Statements : /\ s.kind \in {"check", "get", "write", "revoke"}
                           /\ s.kind \in {"check", "get", "write"} => s.id \in Ids
                           /\ s.kind = "write" => s.key \in Keys
  /\ NoCall \in Call /\ NoCall.n = 0 /\ NoCall.s.kind = "none"
<1>1. ASSUME NEW s \in Statements
      PROVE  /\ s.kind \in {"check", "get", "write", "revoke"}
             /\ s.kind \in {"check", "get", "write"} => s.id \in Ids
             /\ s.kind = "write" => s.key \in Keys
  BY DEF Statements, Statement
<1>2. NoCall \in Call /\ NoCall.n = 0 /\ NoCall.s.kind = "none"
  BY DbAssumption DEF DbAssumption, NoCall, Call, Statement
<1> QED
  BY <1>1, <1>2

LEMMA ResultsTyped == Good \in Result /\ Bad \in Result /\ Good # Bad
  BY DEF Good, Bad, Returned, Result

\* A row, by its columns.
LEMMA RowShapes ==
  ASSUME NEW r \in RowRec
  PROVE  /\ r # <<>> /\ r \in Seq(Keys \cup Ids \cup {None} \cup Nat)
         /\ \/ Len(r) = 1 /\ r[1] \in Ids \cup {None}
            \/ Len(r) = 2 /\ r[1] \in Keys /\ r[2] \in Nat
<1>1. CASE r \in Keys \X Nat
  <2>1. PICK k \in Keys, n \in Nat : r = <<k, n>>
    BY <1>1
  <2>2. <<k, n>> # <<>> /\ <<k, n>> \in Seq(Keys \cup Ids \cup {None} \cup Nat)
        /\ Len(<<k, n>>) = 2 /\ <<k, n>>[1] = k /\ <<k, n>>[2] = n
    OBVIOUS
  <2> QED
    BY <2>1, <2>2
<1>2. CASE \E id \in Ids \cup {None} : r = <<id>>
  <2>1. PICK id \in Ids \cup {None} : r = <<id>>
    BY <1>2
  <2>2. <<id>> # <<>> /\ <<id>> \in Seq(Keys \cup Ids \cup {None} \cup Nat)
        /\ Len(<<id>>) = 1 /\ <<id>>[1] = id
    OBVIOUS
  <2> QED
    BY <2>1, <2>2
<1> QED
  BY <1>1, <1>2 DEF RowRec, NoRow

LEMMA GotTyped == [Threads -> RowRec \cup {<<>>}] \subseteq [Threads -> Seq(Keys \cup Ids \cup {None} \cup Nat)]
<1>1. <<>> \in Seq(Keys \cup Ids \cup {None} \cup Nat)
  OBVIOUS
<1>2. RowRec \cup {<<>>} \subseteq Seq(Keys \cup Ids \cup {None} \cup Nat)
  BY <1>1, RowShapes
<1> QED
  BY <1>2

LEMMA OutcomesTyped ==
  ASSUME NEW s, NEW row \in RowRec \cup {<<>>} PROVE Outcomes(s, row) \subseteq Result
<1>1. CASE row = <<>>
  BY <1>1, ResultsTyped DEF Outcomes
<1>2. CASE row # <<>> /\ s.kind = "get"
  <2>1. Outcomes(s, row) = {Returned(0, row[1], g) : g \in Second(row)}
    BY <1>2 DEF Outcomes
  <2>2. row[1] \in Keys \cup Ids \cup {None} /\ Second(row) \subseteq Nat
    <3>1. \/ Len(row) = 1 /\ row[1] \in Ids \cup {None}
          \/ Len(row) = 2 /\ row[1] \in Keys /\ row[2] \in Nat
      BY <1>2, RowShapes
    <3>2. KeyIds \subseteq Nat
      BY DbAssumption DEF DbAssumption
    <3>3. CASE Len(row) = 2 /\ row[1] \in Keys /\ row[2] \in Nat
      <4>1. Second(row) = {row[2]}
        BY <3>3 DEF Second
      <4> QED
        BY <3>3, <4>1
    <3>4. CASE Len(row) = 1 /\ row[1] \in Ids \cup {None}
      <4>1. Len(row) # 2
        BY <3>4
      <4>2. Second(row) = KeyIds \cup {0}
        BY <4>1, Zenon DEF Second
      <4> QED
        BY <3>2, <3>4, <4>2
    <3> QED
      BY <3>1, <3>3, <3>4
  <2>3. ASSUME NEW g \in Second(row) PROVE Returned(0, row[1], g) \in Result
    BY <2>2 DEF Returned, Result
  <2> QED
    BY <2>1, <2>3
<1>3. CASE row # <<>> /\ s.kind # "get"
  BY <1>3, ResultsTyped DEF Outcomes
<1> QED
  BY <1>1, <1>2, <1>3

LEMMA FoundTyped ==
  ASSUME TypeOK, NEW s \in Statements, NEW row \in Found(s)
  PROVE  row \in RowRec /\ Len(row) = Columns(s)
<1>1. CASE s.kind = "check"
  <2>1. PICK id \in Ids : row = <<id>>
    BY <1>1, StatementTyped DEF Found
  <2>2. Len(<<id>>) = 1
    OBVIOUS
  <2> QED
    BY <1>1, <2>1, <2>2 DEF RowRec, Columns
<1>2. CASE s.kind # "check"
  <2>1. Latest(s.id) \subseteq DOMAIN rows
    BY DEF Latest
  <2>2. \A k \in DOMAIN rows : k \in Nat /\ rows[k].key \in Keys
    <3>1. rows \in Seq(Row)
      BY DEF TypeOK
    <3>2. \A k \in DOMAIN rows : k \in Nat /\ rows[k] \in Row
      BY <3>1
    <3> QED
      BY <3>2 DEF Row
  <2>3. PICK k \in Latest(s.id) : row = <<rows[k].key, k>>
    BY <1>2 DEF Found
  <2>4. Len(<<rows[k].key, k>>) = 2
    OBVIOUS
  <2> QED
    BY <1>2, <2>1, <2>2, <2>3, <2>4 DEF RowRec, Columns
<1> QED
  BY <1>1, <1>2

LEMMA PacketTyped ==
  /\ \A kind \in Kinds : Mark(kind) \in PacketRec /\ Mark(kind).kind = kind
  /\ \A row \in RowRec : Packet("row", row) \in PacketRec
                         /\ Packet("row", row).kind = "row" /\ Packet("row", row).row = row
  BY DEF Packet, Mark, PacketRec, Kinds, RowRec

LEMMA AnswerTyped ==
  ASSUME NEW s, NEW row \in RowRec \cup {<<>>} PROVE Answer(s, row) \in Seq(PacketRec)
<1>1. Mark("ok") \in PacketRec /\ Mark("count") \in PacketRec /\ Mark("def") \in PacketRec /\ Mark("eof") \in PacketRec
  BY PacketTyped DEF Kinds
<1>2. row # <<>> => Packet("row", row) \in PacketRec
  BY PacketTyped
<1> HIDE DEF Packet, Mark
<1> QED
  BY <1>1, <1>2 DEF Answer

\* What the database finds, and what a call makes of it.
FirstRow(s) == IF Found(s) = {} THEN {<<>>} ELSE Found(s)

LEMMA FirstRowTyped ==
  ASSUME TypeOK, NEW s \in Statements, NEW row \in FirstRow(s)
  PROVE  /\ row \in RowRec \cup {<<>>} /\ (row # <<>> => Len(row) = Columns(s))
         /\ Meant(s, row) \subseteq Result /\ Answer(s, row) \in Seq(PacketRec)
<1>1. row \in RowRec \cup {<<>>} /\ (row # <<>> => Len(row) = Columns(s))
  BY FoundTyped DEF FirstRow
<1>2. Meant(s, row) \subseteq Result
  BY <1>1, OutcomesTyped, ResultsTyped DEF Meant
<1>3. Answer(s, row) \in Seq(PacketRec)
  BY <1>1, AnswerTyped
<1> QED
  BY <1>1, <1>2, <1>3

\* The two ways in which the database comes to a statement.
LEMMA ExecuteCases ==
  ASSUME Execute, NEW c, c = Head(cmds)
  PROVE  /\ cmds # <<>> /\ cmds' = Tail(cmds)
         /\ UNCHANGED <<link, status, pc, call, got, res, calls, overlap>>
         /\ \/ /\ rows' = Effect(c)
               /\ \E row \in FirstRow(c.s) : Reply(c, Meant(c.s, row), Answer(c.s, row))
            \/ rows' = rows /\ Reply(c, {Bad}, <<Mark("err")>>)
  BY DEF Execute, FirstRow

\* What a statement does to the table: rows keep the call that wrote them, and
\* a write adds its own.
LEMMA EffectTyped ==
  ASSUME TypeOK, NEW c \in Call, c.s \in Statements
  PROVE  /\ Effect(c) \in Seq(Row)
         /\ \A k \in DOMAIN rows : k \in DOMAIN Effect(c) /\ Effect(c)[k].n = rows[k].n
         /\ c.s.kind = "write" => \E k \in DOMAIN Effect(c) : Effect(c)[k].n = c.n
<1>1. rows \in Seq(Row) /\ DOMAIN rows = 1..Len(rows) /\ Len(rows) \in Nat
      /\ \A k \in DOMAIN rows : rows[k] \in Row
  BY DEF TypeOK
<1>2. CASE c.s.kind = "write"
  <2> DEFINE r == [id |-> c.s.id, key |-> c.s.key, state |-> 0, n |-> c.n]
  <2>1. r \in Row /\ r.n = c.n
    BY <1>2, StatementTyped, DbAssumption DEF DbAssumption, Row, Call
  <2>2. Effect(c) = Append(rows, r)
    BY <1>2 DEF Effect
  <2> HIDE DEF r
  <2> QED
    BY <1>1, <1>2, <2>1, <2>2
<1>3. CASE c.s.kind = "revoke"
  <2>1. Effect(c) = [k \in DOMAIN rows |-> IF k = c.s.kid THEN [rows[k] EXCEPT !.state = 1] ELSE rows[k]]
    BY <1>3 DEF Effect
  <2>2. ASSUME NEW k \in DOMAIN rows PROVE Effect(c)[k] \in Row /\ Effect(c)[k].n = rows[k].n
    <3>1. Effect(c)[k] = [rows[k] EXCEPT !.state = 1] \/ Effect(c)[k] = rows[k]
      BY <2>1
    <3> QED
      BY <1>1, <3>1 DEF Row
  <2>3. DOMAIN Effect(c) = DOMAIN rows /\ Effect(c) \in [1..Len(rows) -> Row]
    BY <1>1, <2>1, <2>2
  <2> QED
    BY <1>1, <1>3, <2>2, <2>3
<1>4. CASE c.s.kind \notin {"write", "revoke"}
  BY <1>1, <1>4 DEF Effect
<1> QED
  BY <1>2, <1>3, <1>4

-----------------------------------------------------------------------------
\* Shape is inductive.
LEMMA KindsTyped ==
  ASSUME NEW q \in Seq(PacketRec) PROVE \A i \in DOMAIN q : q[i].kind \in Kinds
<1>1. \A i \in DOMAIN q : q[i] \in PacketRec
  OBVIOUS
<1> QED
  BY <1>1 DEF PacketRec

LEMMA InitShape == Init => Shape
<1> SUFFICES ASSUME Init PROVE Shape
  OBVIOUS
<1>1. /\ rows \in Seq(Row) /\ link \in BOOLEAN /\ overlap \in BOOLEAN /\ status = "ready" /\ calls = 0 /\ MaxCalls \in Nat
      /\ cmds = <<>> /\ replies = <<>>
      /\ \A t \in Threads : pc[t] = "idle" /\ call[t] = NoCall
  BY DbAssumption DEF DbAssumption, Init
<1>2. TypeOK /\ got \in [Threads -> RowRec \cup {<<>>}]
  <2>1. /\ pc \in [Threads -> Places]
        /\ call \in [Threads -> Call] /\ res \in [Threads -> Result \cup {None}]
        /\ meant \in [Threads -> SUBSET Result]
        /\ got \in [Threads -> RowRec \cup {<<>>}]
    BY StatementTyped DEF Init, Places
  <2>2. replies \in Seq(PacketRec) /\ cmds \in Seq(Call)
    BY <1>1
  <2> QED
    BY <1>1, <2>1, <2>2, KindsTyped, GotTyped DEF TypeOK, Places
<1> QED
  BY <1>1, <1>2, StatementTyped DEF Shape, Numbered, Sane, Busy

\* A step that begins no call and sends no statement.
LEMMA KeepsNumbers ==
  ASSUME Shape, UNCHANGED <<call, calls>>,
         \A i \in DOMAIN cmds' : \E j \in DOMAIN cmds : cmds'[i] = cmds[j]
  PROVE  Numbered'
  BY DEF Shape, Numbered

\* The statement that the database comes to.
LEMMA HeadOfCmds ==
  ASSUME Shape, cmds # <<>>
  PROVE  /\ cmds \in Seq(Call) /\ Tail(cmds) \in Seq(Call)
         /\ Head(cmds) = cmds[1] /\ 1 \in DOMAIN cmds
         /\ Head(cmds) \in Call /\ Head(cmds).s \in Statements
         /\ \A i \in DOMAIN Tail(cmds) : i + 1 \in DOMAIN cmds /\ Tail(cmds)[i] = cmds[i + 1]
<1>1. cmds \in Seq(Call)
  BY DEF Shape, TypeOK
<1>2. Head(cmds) = cmds[1] /\ 1 \in DOMAIN cmds /\ Head(cmds) \in Call
  BY <1>1
<1> QED
  BY <1>1, <1>2 DEF Shape, Numbered

LEMMA ExecuteShape == Shape /\ Execute => Shape'
<1> SUFFICES ASSUME Shape, Execute PROVE Shape'
  OBVIOUS
<1> DEFINE c == Head(cmds)
<1>1. /\ cmds # <<>> /\ cmds' = Tail(cmds)
      /\ UNCHANGED <<link, status, pc, call, got, res, calls, overlap>>
      /\ \/ /\ rows' = Effect(c)
            /\ \E row \in FirstRow(c.s) : Reply(c, Meant(c.s, row), Answer(c.s, row))
         \/ rows' = rows /\ Reply(c, {Bad}, <<Mark("err")>>)
  BY ExecuteCases
<1>2. c \in Call /\ c.s \in Statements
  BY <1>1, HeadOfCmds
<1> HIDE DEF c
<1>3. cmds' \in Seq(Call) /\ \A i \in DOMAIN cmds' : i + 1 \in DOMAIN cmds /\ cmds'[i] = cmds[i + 1]
  BY <1>1, HeadOfCmds
<1>4. Numbered'
  BY <1>1, <1>3, KeepsNumbers
<1>5. rows' \in Seq(Row)
  BY <1>1, <1>2, EffectTyped DEF Shape, TypeOK
<1>6. PICK m \in SUBSET Result, packets \in Seq(PacketRec) : Reply(c, m, packets)
  <2>1. CASE \E row \in FirstRow(c.s) : Reply(c, Meant(c.s, row), Answer(c.s, row))
    BY <1>2, <2>1, FirstRowTyped DEF Shape
  <2>2. CASE Reply(c, {Bad}, <<Mark("err")>>)
    <3>1. Mark("err") \in PacketRec
      BY PacketTyped DEF Kinds
    <3>2. <<Mark("err")>> \in Seq(PacketRec)
      BY <3>1
    <3> QED
      BY <2>2, <3>2, ResultsTyped
  <2> QED
    BY <1>1, <2>1, <2>2
<1>7. replies' \in Seq(PacketRec)
  BY <1>6 DEF Reply, Shape
<1>8. meant' \in [Threads -> SUBSET Result]
  BY <1>6 DEF Reply, Shape, TypeOK
<1>9. TypeOK'
  BY <1>1, <1>3, <1>5, <1>7, <1>8, KindsTyped DEF Shape, TypeOK
<1> QED
  BY <1>1, <1>4, <1>7, <1>9 DEF Shape, Sane, Busy

LEMMA LinkShape == Shape /\ (Discard \/ LoseLink \/ UNCHANGED vars) => Shape'
<1> SUFFICES ASSUME Shape, Discard \/ LoseLink \/ UNCHANGED vars PROVE Shape'
  OBVIOUS
<1>1. /\ UNCHANGED <<rows, status, pc, call, got, res, meant, calls, overlap>>
      /\ link' \in BOOLEAN /\ cmds' \in {cmds, <<>>}
  BY DEF Discard, LoseLink, vars, Shape, TypeOK
<1>2. replies' = replies \/ \E n \in 0..Len(replies) : replies' = SubSeq(replies, 1, n)
  BY DEF Discard, LoseLink, vars
<1>3. replies' \in Seq(PacketRec)
  BY <1>2 DEF Shape
<1>4. Numbered'
  BY <1>1, KeepsNumbers
<1>5. TypeOK'
  <2>1. cmds' \in Seq(Call)
    <3>1. cmds \in Seq(Call)
      BY DEF Shape, TypeOK
    <3>2. CASE cmds' = cmds
      BY <3>1, <3>2
    <3>3. CASE cmds' = <<>>
      BY <3>3
    <3> QED
      BY <1>1, <3>2, <3>3
  <2> QED
    BY <1>1, <1>3, <2>1, KindsTyped DEF Shape, TypeOK
<1> QED
  BY <1>1, <1>3, <1>4, <1>5 DEF Shape, Sane, Busy

LEMMA BeginShape ==
  ASSUME Shape, NEW t \in Threads, NEW s \in Statements, Query(t, s) \/ QueryRefused(t, s)
  PROVE  Shape'
<1> DEFINE new == [s |-> s, n |-> calls + 1]
<1>1. /\ calls' = calls + 1 /\ call' = [call EXCEPT ![t] = new] /\ rows' = rows /\ pc[t] = "idle"
      /\ meant' = [meant EXCEPT ![t] = {}] /\ got' = [got EXCEPT ![t] = <<>>] /\ calls < MaxCalls /\ overlap' \in BOOLEAN
  BY DEF Query, QueryRefused, Begin, Shape, TypeOK
<1>2. /\ calls \in Nat /\ calls' \in 0..MaxCalls /\ call \in [Threads -> Call] /\ cmds \in Seq(Call)
      /\ pc \in [Threads -> Places]
      /\ \A u \in Threads : call[u].n <= calls /\ call[u].n \in Nat
      /\ replies' = replies /\ UNCHANGED <<link, status>>
  BY <1>1, DbAssumption DEF DbAssumption, Query, QueryRefused, linkVars, Shape, TypeOK, Numbered, Call, Places
<1>3. new \in Call /\ new.s = s /\ new.n = calls + 1
  BY <1>1, <1>2 DEF Call
<1> HIDE DEF new
<1>4. cmds' = cmds \/ cmds' = Append(cmds, new)
  BY <1>1, <1>2 DEF Query, QueryRefused, linkVars
<1>5. cmds' \in Seq(Call) /\ \A i \in DOMAIN cmds' : (i \in DOMAIN cmds /\ cmds'[i] = cmds[i]) \/ cmds'[i] = new
  <2>1. CASE cmds' = cmds
    BY <1>2, <2>1
  <2>2. CASE cmds' = Append(cmds, new)
    BY <1>2, <1>3, <2>2
  <2> QED
    BY <1>4, <2>1, <2>2
<1>6. \A u \in Threads : call'[u] = IF u = t THEN new ELSE call[u]
  BY <1>1, <1>2
<1>7. Numbered'
  BY <1>1, <1>2, <1>3, <1>5, <1>6 DEF Shape, Numbered
<1>8. /\ pc' \in [Threads -> Places]
      /\ \A u \in Threads : u # t => pc'[u] = pc[u]
      /\ pc'[t] \in {"idle", "query"}
  BY <1>2 DEF Query, QueryRefused, Return, Places
<1>9. res' \in [Threads -> Result \cup {None}]
  BY ResultsTyped DEF Query, QueryRefused, Return, Shape, TypeOK
<1>12. got' \in [Threads -> RowRec \cup {<<>>}]
  BY <1>1 DEF Shape
<1>10. TypeOK'
  BY <1>1, <1>2, <1>3, <1>5, <1>8, <1>9, <1>12, GotTyped DEF Shape, TypeOK, Places
<1>11. ASSUME NEW u \in Threads PROVE Sane(u)'
  <2>1. CASE u = t
    BY <1>2, <1>3, <1>6, <1>8, <2>1 DEF Sane, Busy
  <2>2. CASE u # t
    BY <1>6, <1>8, <2>2 DEF Sane, Busy, Shape
  <2> QED
    BY <2>1, <2>2
<1> QED
  BY <1>2, <1>7, <1>10, <1>11, <1>12 DEF Shape

\* What a step of a call changes: the other threads are where they were, and it
\* keeps what is sent and stored.
LEMMA ProceedMoves ==
  ASSUME Shape, NEW t \in Threads, Proceed(t)
  PROVE  /\ Busy(t) /\ link' \in {link, FALSE} /\ status' \in {"ready", "result", "stuck"}
         /\ UNCHANGED <<rows, call, meant, calls, overlap, cmds>>
         /\ replies' = replies \/ (replies # <<>> /\ replies' = Tail(replies))
  BY DEF Proceed, ReadOk, ReadCount, ReadDef, DefsEnd, StoreResult, NoResult, ReadRow, RowsEnd, ReadErr,
         Malformed, LinkGone, Take, Forgotten, linkVars, CallUnchanged, Busy, Shape, TypeOK

LEMMA ProceedGoes ==
  ASSUME Shape, NEW t \in Threads, Proceed(t)
  PROVE  /\ \/ \E r \in Result : Return(t, r)
            \/ \E l \in {"defs", "store", "rows"} : Goto(t, l) /\ (l = "defs" \/ IsSelect(call[t].s))
            \/ UNCHANGED <<pc, res>>
         /\ got' = got \/ \E row \in RowRec : got' = [got EXCEPT ![t] = row]
<1>1. replies # <<>> => Head(replies) \in PacketRec
  BY DEF Shape
<1>2. CASE ReadOk(t) \/ ReadCount(t) \/ DefsEnd(t) \/ NoResult(t) \/ ReadErr(t) \/ Malformed(t) \/ LinkGone(t)
  BY <1>2, ResultsTyped DEF ReadOk, ReadCount, DefsEnd, NoResult, ReadErr, Malformed, LinkGone
<1>3. CASE StoreResult(t)
  BY <1>3 DEF StoreResult, Shape, Sane
<1>4. CASE ReadDef(t)
  BY <1>4 DEF ReadDef
<1>5. CASE ReadRow(t)
  <2>1. Head(replies).row \in RowRec
    BY <1>1, <1>5 DEF ReadRow, Take, PacketRec
  <2>2. got' = got \/ got' = [got EXCEPT ![t] = Head(replies).row]
    BY <1>5 DEF ReadRow, Shape
  <2> QED
    BY <1>5, <2>1, <2>2 DEF ReadRow
<1>6. CASE RowsEnd(t)
  <2>1. Outcomes(call[t].s, got[t]) \subseteq Result
    BY OutcomesTyped DEF Shape
  <2> QED
    BY <1>6, <2>1 DEF RowsEnd
<1> QED
  BY <1>2, <1>3, <1>4, <1>5, <1>6 DEF Proceed

LEMMA ProceedOthers ==
  ASSUME Shape, NEW t \in Threads, Proceed(t)
  PROVE  /\ pc' \in [Threads -> Places] /\ res' \in [Threads -> Result \cup {None}]
         /\ got' \in [Threads -> RowRec \cup {<<>>}]
         /\ \A u \in Threads : u # t => pc'[u] = pc[u] /\ res'[u] = res[u] /\ got'[u] = got[u]
         /\ pc'[t] \in {"idle", "defs", pc[t]} \/ IsSelect(call[t].s)
<1>1. pc \in [Threads -> Places] /\ res \in [Threads -> Result \cup {None}] /\ got \in [Threads -> RowRec \cup {<<>>}]
  BY DEF Shape, TypeOK, Places
<1>2. /\ got' \in [Threads -> RowRec \cup {<<>>}]
      /\ \A u \in Threads : u # t => got'[u] = got[u]
  BY <1>1, ProceedGoes
<1>3. CASE \E r \in Result : Return(t, r)
  BY <1>1, <1>2, <1>3 DEF Return, Places
<1>4. CASE \E l \in {"defs", "store", "rows"} : Goto(t, l) /\ (l = "defs" \/ IsSelect(call[t].s))
  BY <1>1, <1>2, <1>4 DEF Goto, Places
<1>5. CASE UNCHANGED <<pc, res>>
  BY <1>1, <1>2, <1>5
<1> QED
  BY <1>3, <1>4, <1>5, ProceedGoes

LEMMA ProceedShape ==
  ASSUME Shape, NEW t \in Threads, Proceed(t) PROVE Shape'
<1>1. /\ Busy(t) /\ UNCHANGED <<rows, call, meant, calls, overlap, cmds>>
      /\ status' \in {"ready", "result", "stuck"} /\ link' \in BOOLEAN
      /\ replies' = replies \/ (replies # <<>> /\ replies' = Tail(replies))
  BY ProceedMoves DEF Shape, TypeOK
<1>2. replies' \in Seq(PacketRec)
  BY <1>1 DEF Shape
<1>3. /\ pc' \in [Threads -> Places] /\ res' \in [Threads -> Result \cup {None}]
      /\ got' \in [Threads -> RowRec \cup {<<>>}]
      /\ \A u \in Threads : u # t => pc'[u] = pc[u]
      /\ pc'[t] \in {"idle", "defs", pc[t]} \/ IsSelect(call[t].s)
  BY ProceedOthers
<1>4. Numbered'
  BY <1>1, KeepsNumbers
<1>5. TypeOK'
  BY <1>1, <1>2, <1>3, KindsTyped, GotTyped DEF Shape, TypeOK, Places
<1>6. ASSUME NEW u \in Threads PROVE Sane(u)'
  <2>1. CASE u = t
    BY <1>1, <1>3, <2>1 DEF Sane, Busy, Shape
  <2>2. CASE u # t
    BY <1>1, <1>3, <2>2 DEF Sane, Busy, Shape
  <2> QED
    BY <2>1, <2>2
<1> QED
  BY <1>2, <1>3, <1>4, <1>5, <1>6 DEF Shape

LEMMA AskedAreStatements == Asked \subseteq Statements
  BY DbAssumption DEF DbAssumption

LEMMA StepShape == Shape /\ [Next]_vars => Shape'
  BY ExecuteShape, LinkShape, BeginShape, ProceedShape, AskedAreStatements DEF Next, Serve

\* The invariant under any overlap.
THEOREM ShapeInvariant == Spec => []Shape
  BY InitShape, StepShape, PTL DEF Spec

\* The table, the handle and the calls keep their types (MysqlOP.cpp:37-127).
THEOREM TypeCorrect == Spec => []TypeOK
<1>1. Shape => TypeOK
  BY DEF Shape
<1> QED
  BY <1>1, ShapeInvariant, PTL

-----------------------------------------------------------------------------
\* No two calls have run at the same time: of the call that runs, the statement
\* or the rest of the answer is on its way, and nothing else is.
Alone == \A t, u \in Threads : Busy(t) /\ Busy(u) => t = u

Clean == status = "ready" /\ replies = <<>> /\ (link => cmds = <<>>)

\* From packet i on, q is the rest of the rows: what the call makes of the first
\* row is what the statement gave.
RowComes(t, q, i) ==
  /\ got[t] = <<>> /\ Len(q) = i + 1 /\ q[i].kind = "row" /\ q[i + 1].kind = "eof"
  /\ q[i].row # <<>> /\ Len(q[i].row) = Columns(call[t].s)
  /\ meant[t] = Outcomes(call[t].s, q[i].row)
RowsOver(t, q, i) ==
  Len(q) = i /\ q[i].kind = "eof" /\ meant[t] = Outcomes(call[t].s, got[t])
Rows(t, q, i) == RowComes(t, q, i) \/ RowsOver(t, q, i)

\* What of the answer the call has still to read.
Rest(t, q) ==
  \/ pc[t] = "query" /\ Len(q) = 1 /\ q[1].kind = "err" /\ meant[t] = {Bad}
  \/ pc[t] = "query" /\ ~IsSelect(call[t].s) /\ Len(q) = 1 /\ q[1].kind = "ok" /\ meant[t] = {Good}
  \/ /\ IsSelect(call[t].s)
     /\ \/ /\ pc[t] = "query" /\ Rows(t, q, 4)
           /\ q[1].kind = "count" /\ q[2].kind = "def" /\ q[3].kind = "eof"
        \/ pc[t] = "defs" /\ Rows(t, q, 3) /\ q[1].kind = "def" /\ q[2].kind = "eof"
        \/ pc[t] = "defs" /\ Rows(t, q, 2) /\ q[1].kind = "eof"
        \/ pc[t] \in {"store", "rows"} /\ Rows(t, q, 1)

\* It is on its way, or a part of it from before the loss of the link.
Arrives(q) ==
  /\ Len(replies) <= Len(q) /\ (link => Len(replies) = Len(q))
  /\ \A i \in 1..Len(replies) : replies[i] = q[i]

HasAnswer(t) ==
  \/ ~link /\ replies = <<>>
  \/ \E q \in Seq(PacketRec) : Rest(t, q) /\ Arrives(q)

Running(t) ==
  /\ status = IF pc[t] = "store" THEN "result" ELSE "ready"
  /\ \/ pc[t] = "query" /\ cmds = <<call[t]>> /\ replies = <<>> /\ got[t] = <<>>
     \/ cmds = <<>> /\ HasAnswer(t)

Settled(t) ==
  res[t] # None =>
    \/ res[t] = Bad /\ ~link
    \/ res[t] \in meant[t] /\ \A i \in DOMAIN cmds : cmds[i].n # call[t].n

Solo ==
  /\ Alone
  /\ Quiet => Clean
  /\ \A t \in Threads : Busy(t) => Running(t) /\ res[t] = None
  /\ \A t \in Threads : Settled(t)

\* What the database sends for a statement is its whole answer.
LEMMA AnswerIsRest ==
  ASSUME Shape, NEW t \in Threads, NEW row \in FirstRow(call[t].s), call[t].s \in Statements,
         pc'[t] = "query", call' = call, got'[t] = <<>>, meant'[t] = Meant(call[t].s, row),
         NEW q, q = Answer(call[t].s, row)
  PROVE  Rest(t, q)'
<1>1. row \in RowRec \cup {<<>>} /\ (row # <<>> => Len(row) = Columns(call[t].s))
  BY FirstRowTyped DEF Shape
<1>2. call'[t].s = call[t].s
  OBVIOUS
<1>3. CASE ~IsSelect(call[t].s)
  <2>1. q = <<Mark("ok")>> /\ meant'[t] = {Good}
    BY <1>3 DEF Answer, Meant
  <2>2. Len(q) = 1 /\ q[1].kind = "ok"
    BY <2>1, PacketTyped DEF Kinds
  <2> QED
    BY <1>2, <1>3, <2>1, <2>2 DEF Rest, IsSelect
<1>4. CASE IsSelect(call[t].s) /\ row = <<>>
  <2>1. /\ q = <<Mark("count"), Mark("def"), Mark("eof"), Mark("eof")>>
        /\ meant'[t] = Outcomes(call[t].s, <<>>)
    BY <1>4 DEF Answer, Meant
  <2>2. /\ Len(q) = 4 /\ q[1].kind = "count" /\ q[2].kind = "def" /\ q[3].kind = "eof"
        /\ q[4].kind = "eof"
    BY <2>1, PacketTyped DEF Kinds
  <2> QED
    BY <1>2, <1>4, <2>1, <2>2 DEF Rest, Rows, RowsOver, IsSelect
<1>5. CASE IsSelect(call[t].s) /\ row # <<>>
  <2>1. /\ q = <<Mark("count"), Mark("def"), Mark("eof"), Packet("row", row), Mark("eof")>>
        /\ meant'[t] = Outcomes(call[t].s, row)
    BY <1>5 DEF Answer, Meant
  <2>2. /\ Len(q) = 5 /\ q[1].kind = "count" /\ q[2].kind = "def" /\ q[3].kind = "eof"
        /\ q[4].kind = "row" /\ q[4].row = row /\ q[5].kind = "eof"
    BY <1>1, <1>5, <2>1, PacketTyped DEF Kinds
  <2>3. RowComes(t, q, 4)'
    <3>1. Len(q[4].row) = Columns(call'[t].s) /\ q[4].row # <<>>
      BY <1>1, <1>2, <1>5, <2>2
    <3>2. meant'[t] = Outcomes(call'[t].s, q[4].row)
      BY <1>2, <2>1, <2>2
    <3>3. Len(q) = 4 + 1 /\ q[4 + 1].kind = "eof"
      BY <2>2
    <3> QED
      BY <2>2, <3>1, <3>2, <3>3 DEF RowComes
  <2> QED
    BY <1>2, <1>5, <2>2, <2>3 DEF Rest, Rows, IsSelect
<1> QED
  BY <1>3, <1>4, <1>5

LEMMA SoloExecute == Shape /\ Solo /\ Execute => Solo'
<1> SUFFICES ASSUME Shape, Solo, Execute PROVE Solo'
  OBVIOUS
<1> DEFINE c == Head(cmds)
<1>1. /\ cmds # <<>> /\ cmds' = Tail(cmds)
      /\ UNCHANGED <<link, status, pc, call, got, res, calls, overlap>>
      /\ \/ \E row \in FirstRow(c.s) : Reply(c, Meant(c.s, row), Answer(c.s, row))
         \/ Reply(c, {Bad}, <<Mark("err")>>)
  BY ExecuteCases
<1>2. /\ cmds \in Seq(Call) /\ c = cmds[1] /\ 1 \in DOMAIN cmds /\ c.s \in Statements
      /\ \A i \in DOMAIN cmds' : i + 1 \in DOMAIN cmds /\ cmds'[i] = cmds[i + 1]
  BY <1>1, HeadOfCmds
<1> HIDE DEF c
<1>3. \A t \in Threads : call[t].n # c.n => meant'[t] = meant[t]
  BY <1>1 DEF Reply
<1>4. Alone'
  BY <1>1 DEF Solo, Alone, Busy
<1>5. Quiet' => Clean'
  BY <1>1 DEF Solo, Quiet, Clean, Reply
<1>6. ASSUME NEW t \in Threads, Busy(t)' PROVE Running(t)' /\ res'[t] = None
  <2>1. /\ Busy(t) /\ res[t] = None /\ pc[t] = "query" /\ cmds = <<call[t]>> /\ replies = <<>>
        /\ status = "ready" /\ got[t] = <<>>
    BY <1>1, <1>6 DEF Solo, Busy, Running
  <2>2. cmds' = <<>> /\ c = call[t]
    BY <1>1, <1>2, <2>1
  <2>3. PICK q \in Seq(PacketRec) : Rest(t, q)' /\ replies' = IF link THEN <<>> \o q ELSE <<>>
    <3>1. CASE \E row \in FirstRow(c.s) : Reply(c, Meant(c.s, row), Answer(c.s, row))
      <4>1. PICK row \in FirstRow(c.s) : Reply(c, Meant(c.s, row), Answer(c.s, row))
        BY <3>1
      <4>2. /\ meant'[t] = Meant(c.s, row)
            /\ replies' = IF link THEN <<>> \o Answer(c.s, row) ELSE <<>>
        BY <2>1, <2>2, <4>1 DEF Reply
      <4>3. Answer(c.s, row) \in Seq(PacketRec)
        BY <1>2, <4>1, FirstRowTyped DEF Shape
      <4>4. PICK q : q = Answer(c.s, row)
        OBVIOUS
      <4>5. Rest(t, q)'
        BY <1>1, <1>2, <2>1, <2>2, <4>1, <4>2, <4>4, AnswerIsRest
      <4> QED
        BY <4>2, <4>3, <4>4, <4>5
    <3>2. CASE Reply(c, {Bad}, <<Mark("err")>>)
      <4>1. meant'[t] = {Bad} /\ replies' = IF link THEN <<>> \o <<Mark("err")>> ELSE <<>>
        BY <2>1, <2>2, <3>2 DEF Reply
      <4>2. Mark("err") \in PacketRec /\ Mark("err").kind = "err"
        BY PacketTyped DEF Kinds
      <4>3. <<Mark("err")>> \in Seq(PacketRec) /\ Rest(t, <<Mark("err")>>)'
        BY <1>1, <2>1, <4>1, <4>2 DEF Rest
      <4> QED
        BY <4>1, <4>3
    <3> QED
      BY <1>1, <3>1, <3>2
  <2>4. <<>> \o q = q
    BY <2>3
  <2>5. HasAnswer(t)'
    <3>1. CASE ~link
      BY <1>1, <2>3, <3>1 DEF HasAnswer
    <3>2. CASE link
      <4>1. replies' = q
        BY <2>3, <2>4, <3>2
      <4> QED
        BY <2>3, <4>1 DEF HasAnswer, Arrives
    <3> QED
      BY <3>1, <3>2
  <2> QED
    BY <1>1, <2>1, <2>2, <2>5 DEF Running
<1>7. ASSUME NEW t \in Threads PROVE Settled(t)'
  <2>1. Settled(t)
    BY DEF Solo
  <2> QED
    BY <1>1, <1>2, <1>3, <2>1 DEF Settled
<1> QED
  BY <1>4, <1>5, <1>6, <1>7 DEF Solo

\* With the link, only what had not arrived is lost.
LEMMA SoloLink == Shape /\ Solo /\ (Discard \/ LoseLink \/ UNCHANGED vars) => Solo'
<1> SUFFICES ASSUME Shape, Solo, Discard \/ LoseLink \/ UNCHANGED vars PROVE Solo'
  OBVIOUS
<1>1. CASE UNCHANGED vars
  BY <1>1 DEF vars, Solo, Alone, Quiet, Clean, Busy, Running, HasAnswer, Rest, Rows, RowComes, RowsOver,
     Arrives, Settled
<1>2. CASE Discard
  <2>1. /\ ~link /\ cmds # <<>> /\ cmds' = <<>>
        /\ UNCHANGED <<link, status, replies, pc, call, got, res, meant>>
    BY <1>2 DEF Discard
  <2>2. Alone' /\ (Quiet' => Clean')
    BY <2>1 DEF Solo, Alone, Busy, Quiet, Clean
  <2>3. \A t \in Threads : Busy(t)' => Running(t)' /\ res'[t] = None
    BY <2>1 DEF Solo, Busy, Running, HasAnswer
  <2>4. \A t \in Threads : Settled(t)'
    BY <2>1 DEF Solo, Settled
  <2> QED
    BY <2>2, <2>3, <2>4 DEF Solo
<1>3. CASE LoseLink
  <2>1. link /\ link' = FALSE /\ UNCHANGED <<status, cmds, pc, call, got, res, meant>>
    BY <1>3 DEF LoseLink
  <2>2. PICK n \in 0..Len(replies) : replies' = SubSeq(replies, 1, n)
    BY <1>3 DEF LoseLink
  <2>3. /\ Len(replies) \in Nat /\ Len(replies') = n /\ n \in Nat /\ n <= Len(replies)
        /\ \A i \in 1..n : replies'[i] = replies[i] /\ i \in 1..Len(replies)
        /\ (replies = <<>> => replies' = <<>>)
    BY <2>2 DEF Shape
  <2>4. Alone'
    BY <2>1 DEF Solo, Alone, Busy
  <2>5. Quiet' => Clean'
    BY <2>1, <2>3 DEF Solo, Quiet, Clean
  <2>6. ASSUME NEW t \in Threads, Busy(t)' PROVE Running(t)' /\ res'[t] = None
    <3>1. Busy(t) /\ Running(t) /\ res[t] = None
      BY <2>1, <2>6 DEF Solo, Busy
    <3>2. CASE cmds # <<>>
      <4>1. pc[t] = "query" /\ cmds = <<call[t]>> /\ replies' = <<>> /\ got[t] = <<>>
        BY <2>3, <3>1, <3>2 DEF Running
      <4> QED
        BY <2>1, <3>1, <4>1 DEF Running
    <3>3. CASE cmds = <<>> /\ HasAnswer(t)
      <4>1. PICK q \in Seq(PacketRec) : Rest(t, q) /\ Arrives(q)
        BY <2>1, <3>3 DEF HasAnswer
      <4>2. Rest(t, q)'
        BY <2>1, <4>1 DEF Rest, Rows, RowComes, RowsOver
      <4>3. Arrives(q)'
        <5>1. Len(q) \in Nat
          BY <4>1
        <5> QED
          BY <2>1, <2>3, <4>1, <5>1 DEF Arrives
      <4>4. HasAnswer(t)'
        BY <4>2, <4>3 DEF HasAnswer
      <4> QED
        BY <2>1, <3>1, <3>3, <4>4 DEF Running
    <3>4. CASE cmds = <<>> /\ ~HasAnswer(t)
      BY <3>1, <3>4 DEF Running
    <3> QED
      BY <3>2, <3>3, <3>4
  <2>7. \A t \in Threads : Settled(t)'
    BY <2>1 DEF Solo, Settled
  <2> QED
    BY <2>4, <2>5, <2>6, <2>7 DEF Solo
<1> QED
  BY <1>1, <1>2, <1>3

\* A call begins where none is, on a clean handle.
LEMMA SoloBegin ==
  ASSUME Shape, Solo, Quiet, NEW t \in Threads, NEW s \in Statements, Query(t, s) \/ QueryRefused(t, s)
  PROVE  Solo'
<1>1. /\ \A u \in Threads : pc[u] = "idle"
      /\ status = "ready" /\ replies = <<>> /\ (link => cmds = <<>>)
  BY DEF Quiet, Solo, Clean
<1>2. /\ \A u \in Threads : u # t => /\ pc'[u] = pc[u] /\ call'[u] = call[u]
                                     /\ res'[u] = res[u] /\ meant'[u] = meant[u]
      /\ call'[t] = [s |-> s, n |-> calls + 1] /\ meant'[t] = {} /\ got'[t] = <<>>
  BY DEF Query, QueryRefused, Begin, Return, Shape, TypeOK
<1>3. CASE Query(t, s)
  <2>1. /\ pc'[t] = "query" /\ res'[t] = None /\ cmds' = Append(cmds, call'[t]) /\ link
        /\ UNCHANGED <<link, status, replies>>
    BY <1>3 DEF Query, Shape, TypeOK
  <2>2. cmds' = <<call'[t]>>
    BY <1>1, <2>1
  <2>3. Alone' /\ ~Quiet' /\ Running(t)' /\ \A u \in Threads : Busy(u)' => u = t
    BY <1>1, <1>2, <2>1, <2>2 DEF Alone, Quiet, Running, Busy
  <2>4. ASSUME NEW u \in Threads PROVE Settled(u)'
    <3>1. CASE u = t
      BY <2>1, <3>1 DEF Settled
    <3>2. CASE u # t
      <4>1. /\ Settled(u) /\ call[u].n <= calls /\ calls \in Nat /\ call[u].n \in Nat
            /\ DOMAIN cmds' = {1} /\ cmds'[1] = call'[t]
        BY <2>2, DbAssumption DEF DbAssumption, Solo, Shape, Numbered, TypeOK, Call
      <4> QED
        BY <1>2, <2>1, <3>2, <4>1 DEF Settled
    <3> QED
      BY <3>1, <3>2
  <2> QED
    BY <2>1, <2>3, <2>4 DEF Solo
<1>4. CASE QueryRefused(t, s)
  <2>1. ~link /\ pc'[t] = "idle" /\ res'[t] = Bad /\ UNCHANGED <<link, status, cmds, replies>>
    BY <1>1, <1>4 DEF QueryRefused, Return, linkVars, Shape, TypeOK
  <2>2. Alone' /\ (Quiet' => Clean') /\ \A u \in Threads : ~Busy(u)'
    BY <1>1, <1>2, <2>1 DEF Alone, Clean, Busy
  <2>3. ASSUME NEW u \in Threads PROVE Settled(u)'
    BY <1>2, <2>1 DEF Settled, Solo
  <2> QED
    BY <2>2, <2>3 DEF Solo
<1> QED
  BY <1>3, <1>4

\* Of a call that runs alone: its step leads on, or returns what the statement
\* gave and leaves the handle clean.
Onward(t) == Busy(t) /\ Running(t) /\ res[t] = None
Over(t)   == ~Busy(t) /\ Clean /\ Settled(t)

\* A packet is taken from the rest of the answer.
LEMMA TakeFromRest ==
  ASSUME Shape, NEW t \in Threads, Onward(t), replies # <<>>, replies' = Tail(replies), link' = link
  PROVE  /\ cmds = <<>>
         /\ \E q, r \in Seq(PacketRec) :
              /\ Rest(t, q) /\ Head(replies) = q[1]
              /\ Len(r) = Len(q) - 1 /\ Arrives(r)'
              /\ \A i \in 1..Len(q) - 1 : r[i] = q[i + 1]
              /\ Len(q) = 1 => replies' = <<>>
<1>1. cmds = <<>> /\ HasAnswer(t)
  BY DEF Onward, Running
<1>2. PICK q \in Seq(PacketRec) : Rest(t, q) /\ Arrives(q)
  BY <1>1 DEF HasAnswer
<1>3. /\ replies \in Seq(PacketRec) /\ Len(replies) \in Nat \ {0} /\ Len(q) \in Nat \ {0}
      /\ Head(replies) = replies[1] /\ replies[1] = q[1]
      /\ Len(replies') = Len(replies) - 1
      /\ \A i \in 1..Len(replies) - 1 : replies'[i] = replies[i + 1]
  BY <1>2 DEF Shape, Arrives
<1>4. /\ Len(Tail(q)) = Len(q) - 1 /\ Tail(q) \in Seq(PacketRec)
      /\ \A i \in 1..Len(q) - 1 : Tail(q)[i] = q[i + 1]
  BY <1>2, <1>3
<1>5. PICK r : r = Tail(q)
  OBVIOUS
<1>7. Arrives(r)'
  <2>1. Len(replies') <= Len(r) /\ (link' => Len(replies') = Len(r))
    <3>1. Len(r) = Len(q) - 1 /\ Len(q) \in Nat /\ Len(replies) \in Nat /\ Len(replies') = Len(replies) - 1
      BY <1>3, <1>4, <1>5
    <3>2. Len(replies) <= Len(q) /\ (link => Len(replies) = Len(q))
      BY <1>2 DEF Arrives
    <3> DEFINE m == Len(replies) n == Len(q)
    <3>3. m \in Nat /\ n \in Nat /\ m <= n /\ (link => m = n) /\ Len(replies') = m - 1 /\ Len(r) = n - 1
      BY <3>1, <3>2
    <3> HIDE DEF m, n
    <3>4. m - 1 <= n - 1 /\ (link => m - 1 = n - 1)
      BY <3>3
    <3> QED
      BY <3>3, <3>4, Zenon
  <2>2. ASSUME NEW i \in 1..Len(replies') PROVE replies'[i] = r[i]
    <3>1. i \in 1..Len(replies) - 1 /\ i \in 1..Len(q) - 1 /\ i + 1 \in 1..Len(replies)
      BY <1>2, <1>3 DEF Arrives
    <3> QED
      BY <1>2, <1>3, <1>4, <1>5, <3>1 DEF Arrives
  <2> QED
    BY <2>1, <2>2 DEF Arrives
<1>6. Len(q) = 1 => replies' = <<>>
  <2>1. Len(q) = 1 => Len(replies) = 1
    BY <1>2, <1>3 DEF Arrives
  <2> QED
    BY <1>3, <2>1
<1> QED
  BY <1>1, <1>2, <1>3, <1>4, <1>5, <1>6, <1>7

\* Without its first packet, what follows comes one earlier.
LEMMA RowsShift ==
  ASSUME NEW t \in Threads, NEW q, NEW r, NEW i \in {1, 2, 3}, Rows(t, q, i + 1),
         Len(r) = Len(q) - 1, \A j \in 1..Len(q) - 1 : r[j] = q[j + 1],
         UNCHANGED <<call, meant>>, got'[t] = got[t]
  PROVE  Rows(t, r, i)'
<1>1. CASE RowComes(t, q, i + 1)
  <2>1. Len(r) = i + 1 /\ r[i] = q[i + 1] /\ r[i + 1] = q[(i + 1) + 1]
    BY <1>1 DEF RowComes
  <2>2. RowComes(t, r, i)'
    BY <1>1, <2>1 DEF RowComes, Columns
  <2> QED
    BY <2>2 DEF Rows
<1>2. CASE RowsOver(t, q, i + 1)
  <2>1. Len(q) = i + 1
    BY <1>2 DEF RowsOver
  <2>3. Len(r) = i /\ i \in 1..Len(q) - 1
    BY <2>1
  <2>2. r[i] = q[i + 1]
    BY <2>3
  <2> QED
    BY <1>2, <2>1, <2>2, <2>3 DEF RowsOver, Rows
<1> QED
  BY <1>1, <1>2 DEF Rows

LEMMA SoloProceed ==
  ASSUME Shape, NEW t \in Threads, Onward(t), Proceed(t) PROVE Onward(t)' \/ Over(t)'
<1>1. /\ UNCHANGED <<rows, call, meant, calls, overlap, cmds>>
      /\ replies \in Seq(PacketRec) /\ IsSelect(call'[t].s) = IsSelect(call[t].s)
      /\ status = IF pc[t] = "store" THEN "result" ELSE "ready"
  BY ProceedMoves DEF Shape, Onward, Running
<1>2. ASSUME NEW r, Return(t, r) PROVE pc'[t] = "idle" /\ res'[t] = r
  BY <1>2 DEF Return, Shape, TypeOK
<1>3. ASSUME NEW l \in {"defs", "store", "rows"}, Goto(t, l) PROVE pc'[t] = l /\ res'[t] = None
  BY <1>3 DEF Goto, Shape, TypeOK, Onward
<1>4. ASSUME replies # <<>>, replies' = Tail(replies), link' = link, status' = "ready", cmds = <<>>,
             NEW r, Return(t, r), r \in meant[t], replies' = <<>>
      PROVE  Over(t)'
  BY <1>1, <1>2, <1>4 DEF Over, Busy, Clean, Settled
<1>5. ASSUME NEW q \in Seq(PacketRec), Rest(t, q)', Arrives(q)', cmds = <<>>, res'[t] = None,
             pc'[t] \in {"defs", "store", "rows"},
             status' = IF pc'[t] = "store" THEN "result" ELSE "ready"
      PROVE  Onward(t)'
  <2>1. HasAnswer(t)'
    BY <1>5 DEF HasAnswer
  <2> QED
    BY <1>1, <1>5, <2>1 DEF Onward, Busy, Running
<1>6. CASE ReadOk(t) \/ ReadErr(t)
  <2>1. replies # <<>> /\ replies' = Tail(replies) /\ link' = link /\ Head(replies).kind \in {"ok", "err"}
    BY <1>6 DEF ReadOk, ReadErr, Take
  <2>2. PICK q \in Seq(PacketRec) : Rest(t, q) /\ Head(replies) = q[1] /\ (Len(q) = 1 => replies' = <<>>)
    BY <2>1, TakeFromRest
  <2>3. cmds = <<>>
    BY <2>1, TakeFromRest
  <2>4. /\ pc[t] = "query" /\ Len(q) = 1 /\ replies' = <<>>
        /\ \/ q[1].kind = "err" /\ meant[t] = {Bad}
           \/ q[1].kind = "ok" /\ meant[t] = {Good} /\ ~IsSelect(call[t].s)
    BY <2>1, <2>2 DEF Rest, Rows, RowComes, RowsOver
  <2>5. status' = "ready"
    BY <1>1, <1>6, <2>4 DEF ReadOk, ReadErr, Forgotten
  <2>6. CASE ReadOk(t)
    <3>1. meant[t] = {Good} /\ Return(t, Good)
      BY <2>2, <2>4, <2>6 DEF ReadOk, Take
    <3> QED
      BY <1>4, <2>1, <2>3, <2>4, <2>5, <3>1
  <2>7. CASE ReadErr(t)
    <3>1. meant[t] = {Bad} /\ Return(t, Bad)
      BY <2>2, <2>4, <2>7 DEF ReadErr, Take
    <3> QED
      BY <1>4, <2>1, <2>3, <2>4, <2>5, <3>1
  <2> QED
    BY <1>6, <2>6, <2>7
<1>7. CASE ReadCount(t) \/ ReadDef(t) \/ DefsEnd(t)
  <2>1. replies # <<>> /\ replies' = Tail(replies) /\ link' = link /\ got' = got /\ pc[t] \in {"query", "defs"}
    BY <1>7 DEF ReadCount, ReadDef, DefsEnd, Take
  <2>2. PICK q, r \in Seq(PacketRec) :
              /\ Rest(t, q) /\ Head(replies) = q[1]
              /\ Len(r) = Len(q) - 1 /\ Arrives(r)'
              /\ \A i \in 1..Len(q) - 1 : r[i] = q[i + 1]
    BY <2>1, TakeFromRest
  <2>3. cmds = <<>>
    BY <2>1, TakeFromRest
  <2>4. r \in Seq(PacketRec) /\ Len(r) = Len(q) - 1 /\ (\A i \in 1..Len(q) - 1 : r[i] = q[i + 1]) /\ Arrives(r)'
    BY <2>2
  <2>5. CASE ReadCount(t)
    <3>1. pc[t] = "query" /\ q[1].kind = "count" /\ status' = "ready" /\ pc'[t] = "defs" /\ res'[t] = None
      BY <1>1, <1>3, <2>2, <2>5 DEF ReadCount, Take, Forgotten
    <3>2. IsSelect(call[t].s) /\ Rows(t, q, 3 + 1) /\ q[2].kind = "def" /\ q[3].kind = "eof"
      BY <2>2, <3>1 DEF Rest
    <3>3. Rows(t, r, 3)'
      BY <1>1, <2>1, <2>4, <3>2, RowsShift
    <3>4. r[1].kind = "def" /\ r[2].kind = "eof"
      BY <2>4, <3>2 DEF Rows, RowComes, RowsOver
    <3>5. Rest(t, r)'
      BY <1>1, <3>1, <3>2, <3>3, <3>4 DEF Rest
    <3> QED
      BY <1>5, <2>3, <2>4, <3>1, <3>5
  <2>6. CASE ReadDef(t)
    <3>1. /\ pc[t] = "defs" /\ q[1].kind \notin {"eof", "err"}
          /\ status' = "ready" /\ pc'[t] = "defs" /\ res'[t] = None
      BY <1>1, <2>2, <2>6 DEF ReadDef, Take, Onward
    <3>2. IsSelect(call[t].s) /\ Rows(t, q, 2 + 1) /\ q[2].kind = "eof"
      BY <2>2, <3>1 DEF Rest
    <3>3. Rows(t, r, 2)'
      BY <1>1, <2>1, <2>4, <3>2, RowsShift
    <3>4. r[1].kind = "eof"
      BY <2>4, <3>2 DEF Rows, RowComes, RowsOver
    <3>5. Rest(t, r)'
      BY <1>1, <3>1, <3>2, <3>3, <3>4 DEF Rest
    <3> QED
      BY <1>5, <2>3, <2>4, <3>1, <3>5
  <2>7. CASE DefsEnd(t)
    <3>1. pc[t] = "defs" /\ q[1].kind = "eof" /\ status' = "result"
      BY <2>2, <2>7 DEF DefsEnd, Take
    <3>2. IsSelect(call[t].s) /\ Rows(t, q, 1 + 1)
      BY <2>2, <3>1 DEF Rest
    <3>3. Rows(t, r, 1)'
      BY <1>1, <2>1, <2>4, <3>2, RowsShift
    <3>4. pc'[t] = "store" /\ res'[t] = None
      BY <1>3, <2>7, <3>2 DEF DefsEnd
    <3>5. Rest(t, r)'
      BY <1>1, <3>2, <3>3, <3>4 DEF Rest
    <3> QED
      BY <1>5, <2>3, <2>4, <3>1, <3>4, <3>5
  <2> QED
    BY <1>7, <2>5, <2>6, <2>7
<1>8. CASE StoreResult(t)
  <2>1. /\ pc[t] = "store" /\ status' = "ready" /\ UNCHANGED <<link, replies, got>>
        /\ pc'[t] = "rows" /\ res'[t] = None
    BY <1>3, <1>8 DEF StoreResult
  <2>2. cmds = <<>> /\ HasAnswer(t)
    BY <2>1 DEF Onward, Running
  <2>3. HasAnswer(t)'
    BY <1>1, <2>1, <2>2 DEF HasAnswer, Rest, Rows, RowComes, RowsOver, Arrives
  <2> QED
    BY <1>1, <2>1, <2>2, <2>3 DEF Onward, Busy, Running
<1>9. CASE NoResult(t)
  BY <1>9 DEF NoResult, Onward, Running
<1>10. CASE ReadRow(t) \/ RowsEnd(t)
  <2>1. replies # <<>> /\ replies' = Tail(replies) /\ link' = link /\ pc[t] = "rows" /\ status' = "ready"
    BY <1>1, <1>10 DEF ReadRow, RowsEnd, Take
  <2>2. PICK q, r \in Seq(PacketRec) :
              /\ Rest(t, q) /\ Head(replies) = q[1]
              /\ Len(r) = Len(q) - 1 /\ Arrives(r)'
              /\ \A i \in 1..Len(q) - 1 : r[i] = q[i + 1]
              /\ Len(q) = 1 => replies' = <<>>
    BY <2>1, TakeFromRest
  <2>3. cmds = <<>> /\ IsSelect(call[t].s) /\ Rows(t, q, 1)
    BY <2>1, <2>2, TakeFromRest DEF Rest
  <2>4. CASE ReadRow(t)
    <3>1. q[1].kind # "eof" /\ pc'[t] = "rows" /\ res'[t] = None
      BY <2>1, <2>2, <2>4 DEF ReadRow, Take, Onward
    <3>2. RowComes(t, q, 1)
      BY <2>3, <3>1 DEF Rows, RowsOver
    <3>3. got'[t] = q[1].row
      BY <2>2, <2>4, <3>2 DEF ReadRow, RowComes, Shape
    <3>4. Arrives(r)' /\ Len(r) = 1 /\ r[1] = q[2]
      BY <2>2, <3>2 DEF RowComes
    <3>5. Rest(t, r)'
      BY <1>1, <2>3, <3>1, <3>2, <3>3, <3>4 DEF Rest, Rows, RowsOver, RowComes
    <3> QED
      BY <1>5, <2>1, <2>3, <3>1, <3>4, <3>5
  <2>5. CASE RowsEnd(t)
    <3>1. q[1].kind = "eof"
      BY <2>2, <2>5 DEF RowsEnd, Take
    <3>2. RowsOver(t, q, 1)
      BY <2>3, <3>1 DEF Rows, RowComes
    <3>3. \E a \in meant[t] : Return(t, a)
      BY <2>5, <3>2 DEF RowsEnd, RowsOver
    <3>4. replies' = <<>>
      BY <2>2, <3>2 DEF RowsOver
    <3> QED
      BY <1>4, <2>1, <2>3, <3>3, <3>4
  <2> QED
    BY <1>10, <2>4, <2>5
<1>11. CASE Malformed(t)
  <2>1. /\ replies # <<>> /\ cmds = <<>>
        /\ \/ pc[t] = "query" /\ Head(replies).kind \in {"def", "eof", "row"}
           \/ pc[t] = "defs" /\ Head(replies).kind \in {"count", "row", "ok"}
           \/ /\ pc[t] = "rows" /\ Head(replies).kind \in {"count", "def", "row", "ok"}
              /\ Head(replies).kind = "row" => Len(Head(replies).row) # Columns(call[t].s)
    BY <1>11 DEF Malformed, Take, Onward, Running
  <2>2. PICK q \in Seq(PacketRec) : Rest(t, q) /\ Arrives(q)
    BY <2>1 DEF Onward, Running, HasAnswer
  <2>3. Head(replies) = q[1]
    <3>1. 1 \in 1..Len(replies) /\ Head(replies) = replies[1]
      BY <1>1, <2>1
    <3> QED
      BY <2>2, <3>1 DEF Arrives
  <2> QED
    BY <2>1, <2>2, <2>3 DEF Rest, Rows, RowComes, RowsOver
<1>12. CASE LinkGone(t)
  <2>1. /\ pc[t] \in {"query", "defs", "rows"} /\ ~link /\ replies = <<>> /\ UNCHANGED <<link, status, replies>>
        /\ pc'[t] = "idle" /\ res'[t] = Bad
    BY <1>2, <1>12 DEF LinkGone, linkVars
  <2> QED
    BY <1>1, <2>1 DEF Over, Busy, Clean, Settled
<1> QED
  BY <1>6, <1>7, <1>8, <1>9, <1>10, <1>11, <1>12 DEF Proceed

\* Calls that do not overlap stay alone.
LEMMA SoloStep == Shape /\ (~overlap => Solo) /\ [Next]_vars => (~overlap' => Solo')
<1> SUFFICES ASSUME Shape, ~overlap => Solo, [Next]_vars, ~overlap' PROVE Solo'
  OBVIOUS
<1>1. CASE Execute
  BY <1>1, SoloExecute DEF Execute
<1>2. CASE Discard \/ LoseLink \/ UNCHANGED vars
  BY <1>2, SoloLink DEF Discard, LoseLink, vars
<1>3. ASSUME NEW t \in Threads, NEW s \in Asked, Query(t, s) \/ QueryRefused(t, s) PROVE Solo'
  <2>1. ~overlap /\ Quiet
    BY <1>3 DEF Query, QueryRefused, Begin, Quiet
  <2> QED
    BY <1>3, <2>1, SoloBegin, AskedAreStatements
<1>4. ASSUME NEW t \in Threads, Proceed(t) PROVE Solo'
  <2>1. /\ Busy(t) /\ link' \in {link, FALSE} /\ UNCHANGED <<call, meant, overlap, cmds>>
        /\ \A u \in Threads : u # t => pc'[u] = pc[u] /\ res'[u] = res[u]
    BY <1>4, ProceedMoves, ProceedOthers
  <2>2. Solo /\ \A u \in Threads : u # t => ~Busy(u)
    BY <2>1 DEF Solo, Alone
  <2>3. Onward(t)' \/ Over(t)'
    BY <1>4, <2>1, <2>2, SoloProceed DEF Solo, Onward
  <2>4. \A u \in Threads : Busy(u)' => u = t
    BY <2>1, <2>2 DEF Busy
  <2>5. ASSUME NEW u \in Threads, u # t PROVE Settled(u)'
    BY <2>1, <2>2, <2>5 DEF Solo, Settled
  <2>6. Settled(t)'
    BY <2>3 DEF Onward, Over, Settled
  <2>7. Quiet' => Clean'
    BY <2>3 DEF Onward, Over, Quiet, Busy
  <2>8. ASSUME NEW u \in Threads, Busy(u)' PROVE Running(u)' /\ res'[u] = None
    BY <2>3, <2>4, <2>8 DEF Onward, Over
  <2> QED
    BY <2>4, <2>5, <2>6, <2>7, <2>8 DEF Solo, Alone
<1> QED
  BY <1>1, <1>2, <1>3, <1>4 DEF Next, Serve

THEOREM SoloInvariant == Spec => [](~overlap => Solo)
<1>1. Init => Solo
  BY DEF Init, Solo, Alone, Busy, Clean, Settled
<1>2. Shape /\ (~overlap => Solo) /\ [Next]_vars => (~overlap => Solo)'
  BY SoloStep
<1> QED
  BY <1>1, <1>2, ShapeInvariant, PTL DEF Spec

\* A call that no other has overlapped leaves nothing unread on the handle
\* (MysqlOP.cpp:45-57, :89-109).
THEOREM CleanHandle == Spec => []HandleClean
<1>1. (~overlap => Solo) => HandleClean
  BY DEF Solo, Clean, HandleClean
<1> QED
  BY <1>1, SoloInvariant, PTL

\* A call that no other has overlapped returns what its own statement gave, or
\* -1 on a lost connection (MysqlOP.cpp:37-127).
THEOREM OwnAnswers == Spec => []OwnAnswer
<1>1. (~overlap => Solo) => OwnAnswer
  BY DEF Solo, Settled, OwnAnswer
<1> QED
  BY <1>1, SoloInvariant, PTL

-----------------------------------------------------------------------------
\* Of a write: what gave 0 in the database has its row, and one that is under way
\* or has returned 0 has its row, is on its way, or has failed there.
HasRow(t) == \E k \in DOMAIN rows : rows[k].n = call[t].n
IsSent(t) == \E i \in DOMAIN cmds : cmds[i].n = call[t].n

WriteSound(t) ==
  /\ Good \in meant[t] => HasRow(t)
  /\ link /\ (Busy(t) \/ res[t] = Good) => HasRow(t) \/ meant[t] = {Bad} \/ IsSent(t)

Written == \A t \in Threads : call[t].s.kind = "write" => WriteSound(t)

LEMMA WrittenStep == Shape /\ Written /\ [Next]_vars => Written'
<1> SUFFICES ASSUME Shape, Written, [Next]_vars, NEW t \in Threads, call'[t].s.kind = "write"
             PROVE  WriteSound(t)'
  BY DEF Written
<1>1. CASE Execute
  <2> DEFINE c == Head(cmds)
  <2>1. /\ cmds # <<>> /\ cmds' = Tail(cmds)
        /\ UNCHANGED <<link, status, pc, call, got, res, calls, overlap>>
        /\ \/ /\ rows' = Effect(c)
              /\ \E row \in FirstRow(c.s) : Reply(c, Meant(c.s, row), Answer(c.s, row))
           \/ rows' = rows /\ Reply(c, {Bad}, <<Mark("err")>>)
    BY <1>1, ExecuteCases
  <2>2. /\ cmds \in Seq(Call) /\ c = cmds[1] /\ 1 \in DOMAIN cmds /\ c.s \in Statements /\ c \in Call
        /\ \A i \in DOMAIN cmds : i # 1 => i - 1 \in DOMAIN cmds' /\ cmds'[i - 1] = cmds[i]
    <3>1. /\ cmds \in Seq(Call) /\ c = cmds[1] /\ 1 \in DOMAIN cmds /\ c.s \in Statements /\ c \in Call
      BY <2>1, HeadOfCmds
    <3> QED
      BY <2>1, <3>1
  <2> HIDE DEF c
  <2>3. \A k \in DOMAIN rows : k \in DOMAIN rows' /\ rows'[k].n = rows[k].n
    BY <2>1, <2>2, EffectTyped DEF Shape
  <2>4. HasRow(t) => HasRow(t)'
    BY <2>1, <2>3 DEF HasRow
  <2>5. call[t].s.kind = "write" /\ WriteSound(t)
    BY <2>1 DEF Written
  <2>6. CASE call[t].n = c.n
    <3>1. call[t] = c
      BY <2>2, <2>6 DEF Shape, Numbered
    <3>2. CASE rows' = Effect(c) /\ \E row \in FirstRow(c.s) : Reply(c, Meant(c.s, row), Answer(c.s, row))
      <4>1. PICK k \in DOMAIN Effect(c) : Effect(c)[k].n = c.n
        BY <2>2, <2>5, <3>1, EffectTyped DEF Shape
      <4>2. HasRow(t)'
        BY <2>1, <3>1, <3>2, <4>1 DEF HasRow
      <4> QED
        BY <4>2 DEF WriteSound
    <3>3. CASE rows' = rows /\ Reply(c, {Bad}, <<Mark("err")>>)
      <4>1. meant'[t] = {Bad}
        BY <2>6, <3>3 DEF Reply
      <4> QED
        BY <4>1, ResultsTyped DEF WriteSound
    <3> QED
      BY <2>1, <3>2, <3>3
  <2>7. CASE call[t].n # c.n
    <3>1. meant'[t] = meant[t]
      BY <2>1, <2>7 DEF Reply
    <3>2. IsSent(t) => IsSent(t)'
      <4>1. ASSUME NEW i \in DOMAIN cmds, cmds[i].n = call[t].n PROVE IsSent(t)'
        <5>1. i # 1
          BY <2>2, <2>7, <4>1
        <5> QED
          BY <2>1, <2>2, <4>1, <5>1 DEF IsSent
      <4> QED
        BY <4>1 DEF IsSent
    <3> QED
      BY <2>1, <2>4, <2>5, <3>1, <3>2 DEF WriteSound, Busy
  <2> QED
    BY <2>6, <2>7
<1>2. CASE Discard \/ LoseLink \/ UNCHANGED vars
  <2>1. /\ UNCHANGED <<rows, pc, call, res, meant>> /\ (link' => link)
        /\ link' => cmds' = cmds
    BY <1>2 DEF Discard, LoseLink, vars
  <2> QED
    BY <2>1 DEF Written, WriteSound, HasRow, IsSent, Busy
<1>3. ASSUME NEW u \in Threads, NEW s \in Statements, Query(u, s) \/ QueryRefused(u, s)
      PROVE  WriteSound(t)'
  <2>1. /\ rows' = rows /\ link' = link /\ cmds \in Seq(Call) /\ call \in [Threads -> Call]
        /\ cmds' = cmds \/ cmds' = Append(cmds, call'[u])
    BY <1>3 DEF Query, QueryRefused, Begin, linkVars, Shape, TypeOK
  <2>2. call'[u] \in Call
    BY <1>3, BeginShape DEF Shape, TypeOK
  <2>3. \A i \in DOMAIN cmds : i \in DOMAIN cmds' /\ cmds'[i] = cmds[i]
    BY <2>1, <2>2
  <2>4. CASE u # t
    <3>1. call'[t] = call[t] /\ pc'[t] = pc[t] /\ res'[t] = res[t] /\ meant'[t] = meant[t]
      BY <1>3, <2>4 DEF Query, QueryRefused, Begin, Return, Shape, TypeOK
    <3>2. WriteSound(t)
      BY <3>1 DEF Written
    <3> QED
      BY <2>1, <2>3, <3>1, <3>2 DEF WriteSound, HasRow, IsSent, Busy
  <2>5. CASE u = t
    <3>1. meant'[t] = {}
      BY <1>3, <2>5 DEF Query, QueryRefused, Begin, Shape, TypeOK
    <3>2. CASE Query(u, s)
      <4>1. cmds' = Append(cmds, call'[t])
        BY <2>5, <3>2 DEF Query
      <4>2. Len(cmds) + 1 \in DOMAIN cmds' /\ cmds'[Len(cmds) + 1] = call'[t]
        BY <2>1, <2>2, <2>5, <4>1
      <4> QED
        BY <3>1, <4>2 DEF WriteSound, IsSent
    <3>3. CASE QueryRefused(u, s)
      <4>1. ~Busy(t)' /\ res'[t] # Good
        BY <2>5, <3>3, ResultsTyped DEF QueryRefused, Return, Busy, Shape, TypeOK
      <4> QED
        BY <3>1, <4>1 DEF WriteSound
    <3> QED
      BY <1>3, <3>2, <3>3
  <2> QED
    BY <2>4, <2>5
<1>4. ASSUME NEW u \in Threads, Proceed(u) PROVE WriteSound(t)'
  <2>1. UNCHANGED <<rows, call, cmds, meant>> /\ (link' => link) /\ Busy(u)
    <3>1. link' \in {link, FALSE} /\ Busy(u) /\ UNCHANGED <<rows, call, cmds, meant>>
      BY <1>4, ProceedMoves
    <3>2. link' => link
      BY <3>1, Zenon
    <3> QED
      BY <3>1, <3>2
  <2>2. WriteSound(t)
    BY <2>1 DEF Written
  <2>3. Busy(t)' \/ res'[t] = Good => Busy(t) \/ res[t] = Good
    <3>1. CASE u = t
      BY <2>1, <3>1
    <3>2. CASE u # t
      BY <1>4, <3>2, ProceedOthers DEF Busy
    <3> QED
      BY <3>1, <3>2
  <2> QED
    BY <2>1, <2>2, <2>3 DEF WriteSound, HasRow, IsSent
<1> QED
  BY <1>1, <1>2, <1>3, <1>4, AskedAreStatements DEF Next, Serve

\* An insert that reports success has its row; one that another call has
\* overlapped may be on its way or have failed unseen (MysqlOP.cpp:72-77).
THEOREM WritesAreSent == Spec => []WrittenIsSent
<1>1. Init => Written
  BY StatementTyped DEF Init, Written
<1>2. Shape /\ Written /\ [Next]_vars => Written'
  BY WrittenStep
<1>3. Written /\ (~overlap => Solo) => WrittenIsSent
  <2> SUFFICES ASSUME Written, ~overlap => Solo, NEW t \in Threads,
                      call[t].s.kind = "write", res[t] = Good, ~HasRow(t)
               PROVE  overlap /\ (link => meant[t] = {Bad} \/ IsSent(t))
    BY DEF WrittenIsSent, HasRow, IsSent
  <2>1. WriteSound(t)
    BY DEF Written
  <2>2. CASE ~overlap
    <3>1. Good \in meant[t]
      BY <2>2, ResultsTyped, DbAssumption DEF DbAssumption, Solo, Settled
    <3> QED
      BY <2>1, <3>1 DEF WriteSound
  <2> QED
    BY <2>1, <2>2 DEF WriteSound
<1> QED
  BY <1>1, <1>2, <1>3, ShapeInvariant, SoloInvariant, PTL DEF Spec
=============================================================================
