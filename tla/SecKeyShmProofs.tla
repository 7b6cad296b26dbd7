-------------------------- MODULE SecKeyShmProofs ---------------------------
(***************************************************************************)
(* Theorems about the shared-memory key table, for every set of processes, *)
(* threads and records and every size of the table.                        *)
(*                                                                         *)
(* The first part is about calls that may overlap: Shape is the inductive  *)
(* invariant behind the safety properties that hold whatever they do, and  *)
(* Solo strengthens it when they do not overlap.                           *)
(*                                                                         *)
(* The second part is about calls that do not overlap: the header stays,   *)
(* useNum counts the nodes up to the kills, and a reader finds the oldest  *)
(* record of its pair.  Order is the inductive invariant, on Shape and     *)
(* Solo: whoever runs, runs alone, and what it has read of the segment     *)
(* still holds.                                                            *)
(***************************************************************************)
EXTENDS SecKeyShm, FiniteSetTheorems, TLAPS

\* A call's locals agree with where it is.
CallShape(t) ==
  /\ pc[t] \in {"copy", "store"} => call[t].op = "write"
  /\ pc[t] = "copyOut" => call[t].op = "read"
  /\ call[t].op = "write" => call[t].rec \in Records
  /\ call[t].lim <= cap
  /\ pc[t] \in {"copy", "store", "copyOut"} => call[t].i < call[t].lim
  /\ call[t].i <= call[t].lim
  /\ pc[t] \in {"idle", "map", "mapFailed"} => call[t].i = 0

\* A writer has left only used nodes behind.
PastUsed(t) ==
  call[t].op = "write" => \A j \in Slots : j < call[t].i => Used(j)

Shape ==
  /\ TypeOK
  /\ total <= cap
  /\ \A p \in Procs : InCtor(p) => ReqNodes[p] <= cap
  /\ \A t \in Threads : CallShape(t)
  /\ \A t \in Threads : PastUsed(t)
  /\ PrefixUsed
  /\ useNum <= acks
  /\ \A t \in Threads : pc[t] = "store" => call[t].reg <= acks

\* Setting a field of a call.
LEMMA FieldSet ==
  ASSUME NEW c \in Call
  PROVE  /\ \A n \in Nat : /\ [c EXCEPT !.i = n] \in Call /\ [c EXCEPT !.lim = n] \in Call
                            /\ [c EXCEPT !.reg = n] \in Call
         /\ \A s \in SUBSET Chunks : [c EXCEPT !.todo = s] \in Call
         /\ c.i \in Nat /\ c.todo \in SUBSET Chunks
<1>1. \A n \in Nat : [c EXCEPT !.i = n] \in Call
  BY DEF Call
<1>2. \A n \in Nat : [c EXCEPT !.lim = n] \in Call
  BY DEF Call
<1>3. \A n \in Nat : [c EXCEPT !.reg = n] \in Call
  BY DEF Call
<1>4. \A s \in SUBSET Chunks : [c EXCEPT !.todo = s] \in Call
  BY DEF Call
<1>5. c.i \in Nat /\ c.todo \in SUBSET Chunks
  BY DEF Call
<1> QED
  BY <1>1, <1>2, <1>3, <1>4, <1>5

LEMMA InitShape == Init => Shape
  BY ShmAssumption DEF ShmAssumption, Init, Shape, TypeOK, Node, Blank, Call, NoCall, Slots, Chunks,
     CallShape, PastUsed, PrefixUsed, Used, InCtor

LEMMA ConstructShape ==
  ASSUME NEW p \in Procs, Shape, Construct(p)
  PROVE  Shape'
<1> USE ShmAssumption DEF ShmAssumption, Shape, shmVars
<1>1. CASE Open(p)
  <2>1. TypeOK'
    BY <1>1 DEF Open, TypeOK
  <2> QED
    BY <1>1, <2>1 DEF Open, TypeOK, InCtor, CallShape, PastUsed, PrefixUsed, Used
<1>2. CASE Create(p)
  <2>1. TypeOK'
    BY <1>2 DEF Create, TypeOK
  <2>2. cap <= cap' /\ cap' \in Nat
    BY <1>2 DEF Create, TypeOK
  <2>3. \A q \in Procs : InCtor(q)' => ReqNodes[q] <= cap'
    BY <1>2, <2>2 DEF Create, TypeOK, InCtor
  <2>4. \A t \in Threads : CallShape(t)'
    BY <1>2, <2>2 DEF Create, TypeOK, CallShape, Call
  <2> QED
    BY <1>2, <2>1, <2>2, <2>3, <2>4 DEF Create, TypeOK, PastUsed, PrefixUsed, Used
<1>3. CASE CheckHeader(p)
  <2>1. TypeOK'
    BY <1>3 DEF CheckHeader, TypeOK
  <2> QED
    BY <1>3, <2>1 DEF CheckHeader, TypeOK, InCtor, CallShape, PastUsed, PrefixUsed, Used
<1>4. CASE SetTotal(p)
  <2>1. TypeOK'
    BY <1>4 DEF SetTotal, TypeOK
  <2> QED
    BY <1>4, <2>1 DEF SetTotal, TypeOK, InCtor, CallShape, PastUsed, PrefixUsed, Used
<1>5. CASE SetUse(p)
  <2>1. TypeOK'
    BY <1>5 DEF SetUse, TypeOK
  <2> QED
    BY <1>5, <2>1 DEF SetUse, TypeOK, InCtor, CallShape, PastUsed, PrefixUsed, Used
<1> QED
  BY <1>1, <1>2, <1>3, <1>4, <1>5 DEF Construct

\* Leaving a call, by return or with the process, disturbs nothing.
LEMMA NoCallShape ==
  /\ NoCall \in Call
  /\ NoCall.op = "none" /\ NoCall.i = 0 /\ NoCall.lim = 0
  BY DEF NoCall, Call, Node, Blank, Chunks

LEMMA EndShape ==
  ASSUME NEW p \in Procs, Shape, End(p), UNCHANGED <<shmVars, acked, acks>>, crashes' \in Nat
  PROVE  Shape'
<1> USE ShmAssumption DEF ShmAssumption, Shape, shmVars
<1>1. TypeOK'
  BY NoCallShape DEF End, TypeOK
<1>2. \A q \in Procs : InCtor(q)' => InCtor(q)
  BY DEF End, TypeOK, InCtor
<1>3. ASSUME NEW t \in Threads
      PROVE  CallShape(t)' /\ PastUsed(t)' /\ (pc[t] = "store" => call[t].reg <= acks)'
  <2>1. CASE ProcOf[t] = p
    <3>1. pc'[t] = "idle" /\ call'[t] = NoCall
      BY <2>1 DEF End, TypeOK
    <3> QED
      BY <3>1, NoCallShape DEF CallShape, PastUsed, TypeOK
  <2>2. CASE ProcOf[t] # p
    <3>1. pc'[t] = pc[t] /\ call'[t] = call[t]
      BY <2>2 DEF End, TypeOK
    <3> QED
      BY <3>1 DEF CallShape, PastUsed, Used
  <2> QED
    BY <2>1, <2>2
<1> QED
  BY <1>1, <1>2, <1>3 DEF PrefixUsed, Used

LEMMA ReturnShape ==
  ASSUME NEW t \in Threads, Shape, Return(t), UNCHANGED <<cap, total, node, shmID, ctor, crashes>>,
         addr' \in [Procs -> {"null", "bad", "mapped"}],
         acked' \in SUBSET [slot : Slots, rec : Records],
         useNum' \in Nat, acks' \in Nat, acks <= acks', useNum' <= acks'
  PROVE  Shape'
<1> USE ShmAssumption DEF ShmAssumption, Shape
<1>1. TypeOK'
  BY NoCallShape DEF Return, TypeOK
<1>2. ASSUME NEW u \in Threads
      PROVE  CallShape(u)' /\ PastUsed(u)' /\ (pc[u] = "store" => call[u].reg <= acks)'
  <2>1. CASE u = t
    <3>1. pc'[u] = "idle" /\ call'[u] = NoCall
      BY <2>1 DEF Return, TypeOK
    <3> QED
      BY <3>1, NoCallShape DEF CallShape, PastUsed, TypeOK
  <2>2. CASE u # t
    <3>1. pc'[u] = pc[u] /\ call'[u] = call[u]
      BY <2>2 DEF Return, TypeOK
    <3>2. call[u].reg \in Nat
      BY DEF TypeOK, Call
    <3> QED
      BY <3>1, <3>2 DEF CallShape, PastUsed, Used, TypeOK
  <2> QED
    BY <2>1, <2>2
<1> QED
  BY <1>1, <1>2 DEF PrefixUsed, Used, InCtor

LEMMA BeginShape ==
  ASSUME NEW t \in Threads, Shape, BeginWrite(t) \/ BeginRead(t)
  PROVE  Shape'
<1> USE ShmAssumption DEF ShmAssumption, Shape, shmVars, objVars
<1>1. PICK op \in {"write", "read"}, rec \in Records \cup {Empty}, id \in Ids \cup {Empty} :
        Begin(t, op, rec, id) /\ (op = "write" => rec \in Records)
  BY DEF BeginWrite, BeginRead
<1>2. DEFINE new == [NoCall EXCEPT !.op = op, !.rec = rec, !.id = id]
<1>3. new \in Call /\ new.op = op /\ new.rec = rec /\ new.i = 0 /\ new.lim = 0
  BY DEF NoCall, Call, Node, Blank, Chunks
<1>4. call' = [call EXCEPT ![t] = new] /\ pc' = [pc EXCEPT ![t] = "map"]
  BY <1>1 DEF Begin
<1> HIDE DEF new
<1>5. UNCHANGED <<cap, total, useNum, node, shmID, addr, ctor, acked, acks, crashes>>
  BY <1>1 DEF Begin
<1>6. TypeOK'
  BY <1>3, <1>4, <1>5 DEF TypeOK
<1>7. ASSUME NEW u \in Threads
      PROVE  CallShape(u)' /\ PastUsed(u)' /\ (pc[u] = "store" => call[u].reg <= acks)'
  <2>1. CASE u = t
    <3>1. pc'[u] = "map" /\ call'[u] = new
      BY <2>1, <1>4 DEF TypeOK
    <3> QED
      BY <3>1, <1>1, <1>3, <1>5 DEF CallShape, PastUsed, TypeOK, Slots
  <2>2. CASE u # t
    <3>1. pc'[u] = pc[u] /\ call'[u] = call[u]
      BY <2>2, <1>4 DEF TypeOK
    <3> QED
      BY <3>1, <1>5 DEF CallShape, PastUsed, Used
  <2> QED
    BY <2>1, <2>2
<1> QED
  BY <1>5, <1>6, <1>7 DEF PrefixUsed, Used, InCtor

LEMMA MapShape ==
  ASSUME NEW t \in Threads, Shape, Map(t)
  PROVE  Shape'
<1> USE ShmAssumption DEF ShmAssumption, Shape, shmVars
<1>1. CASE Mapped(t)
  <2>1. TypeOK'
    <3>1. [call[t] EXCEPT !.lim = total] \in Call
      BY FieldSet DEF TypeOK
    <3>2. call' \in [Threads -> Call]
      BY <1>1, <3>1 DEF Mapped, TypeOK
    <3> QED
      BY <1>1, <3>2 DEF Mapped, TypeOK
  <2>2. ASSUME NEW u \in Threads
        PROVE  CallShape(u)' /\ PastUsed(u)' /\ (pc[u] = "store" => call[u].reg <= acks)'
    <3>1. call'[u].op = call[u].op /\ call'[u].rec = call[u].rec /\ call'[u].i = call[u].i
          /\ call'[u].reg = call[u].reg
      BY <1>1 DEF Mapped, TypeOK, Call
    <3>2. CASE u = t
      <4>1. call[u].i = 0 /\ pc[u] = "map"
        BY <1>1, <3>2 DEF Mapped, CallShape
      <4> QED
        BY <3>1, <4>1, <1>1 DEF Mapped, CallShape, PastUsed, Used, TypeOK
    <3>3. CASE u # t
      BY <3>1, <3>3, <1>1 DEF Mapped, CallShape, PastUsed, Used, TypeOK
    <3> QED
      BY <3>2, <3>3
  <2> QED
    BY <1>1, <2>1, <2>2 DEF Mapped, PrefixUsed, Used, InCtor
<1>2. CASE AttachFails(t)
  <2>1. TypeOK'
    BY <1>2 DEF AttachFails, TypeOK
  <2>2. ASSUME NEW u \in Threads
        PROVE  CallShape(u)' /\ PastUsed(u)' /\ (pc[u] = "store" => call[u].reg <= acks)'
    BY <1>2 DEF AttachFails, CallShape, PastUsed, Used, TypeOK
  <2> QED
    BY <1>2, <2>1, <2>2 DEF AttachFails, PrefixUsed, Used, InCtor
<1>3. CASE ResetAddr(t)
  BY <1>3, ReturnShape DEF ResetAddr, TypeOK
<1>4. CASE Fault(t)
  BY <1>4, EndShape DEF Fault, TypeOK
<1> QED
  BY <1>1, <1>2, <1>3, <1>4 DEF Map

LEMMA WriteShape ==
  ASSUME NEW t \in Threads, Shape, Write(t)
  PROVE  Shape'
<1> USE ShmAssumption DEF ShmAssumption, Shape, shmVars, objVars
<1>1. CASE ScanUsed(t)
  <2>1. TypeOK'
    <3>1. [call[t] EXCEPT !.i = @ + 1] \in Call
      <4>1. call[t] \in Call
        BY DEF TypeOK
      <4>2. call[t].i + 1 \in Nat
        BY <4>1 DEF Call
      <4> QED
        BY <4>1, <4>2 DEF Call
    <3>2. call' \in [Threads -> Call]
      BY <1>1, <3>1 DEF ScanUsed, TypeOK
    <3> QED
      BY <1>1, <3>2 DEF ScanUsed, TypeOK
  <2>2. ASSUME NEW u \in Threads
        PROVE  CallShape(u)' /\ PastUsed(u)' /\ (pc[u] = "store" => call[u].reg <= acks)'
    <3>1. CASE u = t
      <4>1. /\ call'[u].op = call[u].op /\ call'[u].rec = call[u].rec
            /\ call'[u].lim = call[u].lim /\ call'[u].i = call[u].i + 1
            /\ call[u].i \in Nat /\ call[u].lim \in Nat
        BY <1>1, <3>1 DEF ScanUsed, TypeOK, Call
      <4>2. \A j \in Slots : j < call[u].i + 1 => Used(j)
        BY <1>1, <3>1, <4>1 DEF ScanUsed, PastUsed, Slots
      <4> QED
        BY <1>1, <3>1, <4>1, <4>2 DEF ScanUsed, CallShape, PastUsed, Used, TypeOK
    <3>2. CASE u # t
      BY <1>1, <3>2 DEF ScanUsed, CallShape, PastUsed, Used, TypeOK
    <3> QED
      BY <3>1, <3>2
  <2> QED
    BY <1>1, <2>1, <2>2 DEF ScanUsed, PrefixUsed, Used, InCtor
<1>2. CASE ScanFree(t)
  <2>1. TypeOK'
    <3>1. [call[t] EXCEPT !.todo = Chunks] \in Call
      BY FieldSet DEF TypeOK
    <3>2. call' \in [Threads -> Call]
      BY <1>2, <3>1 DEF ScanFree, TypeOK
    <3>3. pc' \in [Threads -> {"idle", "map", "mapFailed", "scan", "copy", "store", "copyOut"}]
      BY <1>2 DEF ScanFree, TypeOK
    <3> QED
      BY <1>2, <3>2, <3>3 DEF ScanFree, TypeOK
  <2>2. ASSUME NEW u \in Threads
        PROVE  CallShape(u)' /\ PastUsed(u)' /\ (pc[u] = "store" => call[u].reg <= acks)'
    <3>1. /\ call'[u].op = call[u].op /\ call'[u].rec = call[u].rec
          /\ call'[u].lim = call[u].lim /\ call'[u].i = call[u].i
          /\ call'[u].reg = call[u].reg
      BY <1>2 DEF ScanFree, TypeOK, Call
    <3> QED
      BY <1>2, <3>1 DEF ScanFree, CallShape, PastUsed, Used, TypeOK
  <2> QED
    BY <1>2, <2>1, <2>2 DEF ScanFree, PrefixUsed, Used, InCtor
<1>3. CASE CopyChunk(t)
  <2>1. PICK c \in call[t].todo :
          /\ node' = [node EXCEPT ![call[t].i][c] = call[t].rec]
          /\ call' = [call EXCEPT ![t].todo = @ \ {c}]
    BY <1>3 DEF CopyChunk
  <2>2. c \in Chunks /\ call[t].rec \in Records /\ call[t].i \in Slots
    BY <1>3 DEF CopyChunk, TypeOK, Call, CallShape, Slots
  <2>3. TypeOK'
    <3>1. [call[t] EXCEPT !.todo = @ \ {c}] \in Call
      BY FieldSet DEF TypeOK
    <3>2. call' \in [Threads -> Call]
      BY <2>1, <3>1 DEF TypeOK
    <3>3. [node[call[t].i] EXCEPT ![c] = call[t].rec] \in Node
      BY <2>2 DEF TypeOK, Node
    <3>4. node' \in [Slots -> Node]
      BY <2>1, <2>2, <3>3 DEF TypeOK
    <3> QED
      BY <1>3, <3>2, <3>4 DEF CopyChunk, TypeOK
  <2>4. \A j \in Slots : Used(j) => Used(j)'
    BY <2>1, <2>2 DEF Used, TypeOK, Node
  <2>5. \A j \in Slots : Used(j)' => Used(j) \/ j = call[t].i
    BY <2>1, <2>2 DEF Used, TypeOK, Node
  <2>6. \A u \in Threads :
          /\ call'[u].op = call[u].op /\ call'[u].rec = call[u].rec
          /\ call'[u].lim = call[u].lim /\ call'[u].i = call[u].i
          /\ call'[u].reg = call[u].reg
    BY <2>1 DEF TypeOK, Call
  <2>7. ASSUME NEW u \in Threads
        PROVE  CallShape(u)' /\ PastUsed(u)' /\ (pc[u] = "store" => call[u].reg <= acks)'
    BY <1>3, <2>4, <2>6 DEF CopyChunk, CallShape, PastUsed
  <2>8. PrefixUsed'
    <3> SUFFICES ASSUME NEW i \in Slots, Used(i)', NEW j \in 0..i PROVE Used(j)'
      BY DEF PrefixUsed
    <3>1. i \in Int /\ j \in Slots
      BY DEF Slots
    <3>2. CASE Used(i)
      BY <2>4, <3>1, <3>2 DEF PrefixUsed
    <3>3. CASE i = call[t].i
      <4>1. CASE j = i
        BY <4>1
      <4>2. CASE j # i
        BY <1>3, <2>4, <3>1, <3>3, <4>2 DEF CopyChunk, CallShape, PastUsed
      <4> QED
        BY <4>1, <4>2
    <3> QED
      BY <2>5, <3>2, <3>3
  <2> QED
    BY <1>3, <2>3, <2>7, <2>8 DEF CopyChunk, InCtor
<1>4. CASE LoadUseNum(t)
  <2>1. TypeOK'
    <3>1. [call[t] EXCEPT !.reg = useNum] \in Call
      BY FieldSet DEF TypeOK
    <3>2. call' \in [Threads -> Call]
      BY <1>4, <3>1 DEF LoadUseNum, TypeOK
    <3> QED
      BY <1>4, <3>2 DEF LoadUseNum, TypeOK
  <2>2. ASSUME NEW u \in Threads
        PROVE  CallShape(u)' /\ PastUsed(u)' /\ (pc[u] = "store" => call[u].reg <= acks)'
    <3>1. /\ call'[u].op = call[u].op /\ call'[u].rec = call[u].rec
          /\ call'[u].lim = call[u].lim /\ call'[u].i = call[u].i
          /\ call'[u].reg = IF u = t THEN useNum ELSE call[u].reg
      BY <1>4 DEF LoadUseNum, TypeOK, Call
    <3> QED
      BY <1>4, <3>1 DEF LoadUseNum, CallShape, PastUsed, Used, TypeOK
  <2> QED
    BY <1>4, <2>1, <2>2 DEF LoadUseNum, PrefixUsed, Used, InCtor
<1>5. CASE StoreUseNum(t)
  <2>1. call[t].reg \in Nat /\ call[t].reg <= acks /\ acks \in Nat
    BY <1>5 DEF StoreUseNum, StoreCount, TypeOK, Call
  <2>2. call[t].i \in Slots /\ call[t].rec \in Records
    BY <1>5 DEF StoreUseNum, StoreCount, TypeOK, Call, CallShape, Slots
  <2>3. /\ useNum' \in Nat /\ acks' \in Nat /\ acks <= acks' /\ useNum' <= acks'
        /\ acked' \in SUBSET [slot : Slots, rec : Records]
        /\ addr' \in [Procs -> {"null", "bad", "mapped"}]
    BY <1>5, <2>1, <2>2 DEF StoreUseNum, StoreCount, TypeOK
  <2> QED
    BY <1>5, <2>3, ReturnShape DEF StoreUseNum, StoreCount
<1> QED
  BY <1>1, <1>2, <1>3, <1>4, <1>5 DEF Write

LEMMA ReadShape ==
  ASSUME NEW t \in Threads, Shape, Read(t) \/ NotFound(t)
  PROVE  Shape'
<1> USE ShmAssumption DEF ShmAssumption, Shape, shmVars, objVars
<1>1. CASE ReadSkip(t)
  <2>1. call[t] \in Call
    BY DEF TypeOK
  <2>2. call[t].i \in Nat /\ call[t].lim \in Nat /\ call[t].i + 1 \in Nat
    BY <2>1 DEF Call
  <2>3. [call[t] EXCEPT !.i = @ + 1] \in Call
    BY <2>1, <2>2 DEF Call
  <2>4. TypeOK'
    <3>1. call' \in [Threads -> Call]
      BY <1>1, <2>3 DEF ReadSkip, TypeOK
    <3> QED
      BY <1>1, <3>1 DEF ReadSkip, TypeOK
  <2>5. ASSUME NEW u \in Threads
        PROVE  CallShape(u)' /\ PastUsed(u)' /\ (pc[u] = "store" => call[u].reg <= acks)'
    <3>1. CASE u = t
      <4>1. /\ call'[u].op = "read" /\ pc'[u] = "scan"
            /\ call'[u].lim = call[u].lim /\ call'[u].i = call[u].i + 1
        BY <1>1, <2>1, <3>1 DEF ReadSkip, TypeOK, Call
      <4> QED
        BY <1>1, <2>2, <3>1, <4>1 DEF ReadSkip, CallShape, PastUsed, TypeOK
    <3>2. CASE u # t
      BY <1>1, <3>2 DEF ReadSkip, CallShape, PastUsed, Used, TypeOK
    <3> QED
      BY <3>1, <3>2
  <2> QED
    BY <1>1, <2>4, <2>5 DEF ReadSkip, PrefixUsed, Used, InCtor
<1>2. CASE ReadMatch(t)
  <2>1. TypeOK'
    <3>1. [call[t] EXCEPT !.todo = Chunks] \in Call
      BY FieldSet DEF TypeOK
    <3>2. call' \in [Threads -> Call]
      BY <1>2, <3>1 DEF ReadMatch, TypeOK
    <3>3. pc' \in [Threads -> {"idle", "map", "mapFailed", "scan", "copy", "store", "copyOut"}]
      BY <1>2 DEF ReadMatch, TypeOK
    <3> QED
      BY <1>2, <3>2, <3>3 DEF ReadMatch, TypeOK
  <2>2. ASSUME NEW u \in Threads
        PROVE  CallShape(u)' /\ PastUsed(u)' /\ (pc[u] = "store" => call[u].reg <= acks)'
    <3>1. /\ call'[u].op = call[u].op /\ call'[u].rec = call[u].rec
          /\ call'[u].lim = call[u].lim /\ call'[u].i = call[u].i
          /\ call'[u].reg = call[u].reg
      BY <1>2 DEF ReadMatch, TypeOK, Call
    <3> QED
      BY <1>2, <3>1 DEF ReadMatch, CallShape, PastUsed, Used, TypeOK
  <2> QED
    BY <1>2, <2>1, <2>2 DEF ReadMatch, PrefixUsed, Used, InCtor
<1>3. CASE ReadChunk(t)
  <2>1. PICK c \in call[t].todo :
          call' = [call EXCEPT ![t].got[c] = node[call[t].i][c], ![t].todo = @ \ {c}]
    BY <1>3 DEF ReadChunk
  <2>2. c \in Chunks /\ call[t].i \in Slots /\ call[t] \in Call
    BY <1>3 DEF ReadChunk, TypeOK, Call, CallShape, Slots
  <2>3. node[call[t].i][c] \in Records \cup {Empty}
    BY <2>2 DEF TypeOK, Node
  <2>4. [call[t].got EXCEPT ![c] = node[call[t].i][c]] \in Node
    BY <2>2, <2>3 DEF Call, Node
  <2>5. \A u \in Threads :
          /\ call'[u].op = call[u].op /\ call'[u].rec = call[u].rec
          /\ call'[u].lim = call[u].lim /\ call'[u].i = call[u].i
          /\ call'[u].reg = call[u].reg
    BY <2>1, <2>2 DEF TypeOK, Call
  <2>6. TypeOK'
    <3>1. call'[t] = [call[t] EXCEPT !.got = [call[t].got EXCEPT ![c] = node[call[t].i][c]],
                                     !.todo = call[t].todo \ {c}]
      BY <2>1, <2>2 DEF TypeOK, Call
    <3>2. call'[t] \in Call
      BY <2>2, <2>4, <3>1 DEF Call
    <3>3. call' \in [Threads -> Call]
      BY <2>1, <3>2 DEF TypeOK
    <3> QED
      BY <1>3, <3>3 DEF ReadChunk, TypeOK
  <2>7. ASSUME NEW u \in Threads
        PROVE  CallShape(u)' /\ PastUsed(u)' /\ (pc[u] = "store" => call[u].reg <= acks)'
    BY <1>3, <2>5 DEF ReadChunk, CallShape, PastUsed, Used
  <2> QED
    BY <1>3, <2>6, <2>7 DEF ReadChunk, PrefixUsed, Used, InCtor
<1>4. CASE ReadDone(t) \/ NotFound(t)
  BY <1>4, ReturnShape DEF ReadDone, NotFound, TypeOK
<1> QED
  BY <1>1, <1>2, <1>3, <1>4 DEF Read

LEMMA StepShape == Shape /\ [Next]_vars => Shape'
<1> SUFFICES ASSUME Shape, [Next]_vars PROVE Shape'
  OBVIOUS
<1>1. CASE UNCHANGED vars
  BY <1>1 DEF vars, Shape, TypeOK, InCtor, CallShape, PastUsed, PrefixUsed, Used
<1>2. ASSUME NEW p \in Procs, Crash(p) \/ Destroy(p) PROVE Shape'
  <2>1. crashes' \in Nat
    BY <1>2 DEF Crash, Destroy, Shape, TypeOK
  <2> QED
    BY <1>2, <2>1, EndShape DEF Crash, Destroy
<1> QED
  BY <1>1, <1>2, ConstructShape, BeginShape, MapShape, WriteShape, ReadShape DEF Next, Step

\* Shape is an invariant of the table, overlapping calls and crashes included
\* (SecKeyShm.cpp:8-111).
THEOREM ShapeInvariant == Spec => []Shape
  BY InitShape, StepShape, PTL DEF Spec

\* The segment, the objects and the calls keep their types.
THEOREM TypeCorrect == Spec => []TypeOK
<1>1. Shape => TypeOK
  BY DEF Shape
<1> QED
  BY <1>1, ShapeInvariant, PTL

\* No race between processes that build the header can promise more nodes
\* than the segment holds, and no call leaves it (SecKeyShm.cpp:24-28).
THEOREM StaysWithinSegment == Spec => []WithinSegment
<1>1. Shape => WithinSegment
  <2> SUFFICES ASSUME Shape, NEW t \in Threads, pc[t] \in {"copy", "store", "copyOut"}
               PROVE  total <= cap /\ call[t].i < cap
    BY DEF WithinSegment, Shape
  <2> QED
    BY ShmAssumption DEF ShmAssumption, Shape, CallShape, TypeOK, Call
<1> QED
  BY <1>1, ShapeInvariant, PTL

\* Racing writers never leave a gap of free nodes (SecKeyShm.cpp:76-84).
THEOREM UsedNodesArePrefix == Spec => []PrefixUsed
<1>1. Shape => PrefixUsed
  BY DEF Shape
<1> QED
  BY <1>1, ShapeInvariant, PTL

\* Racing increments of useNum never invent a write (SecKeyShm.cpp:27, :81).
THEOREM CountIsNoOverstatement == Spec => []CountsOnlyAcked
<1>1. Shape => CountsOnlyAcked
  BY DEF Shape, CountsOnlyAcked
<1> QED
  BY <1>1, ShapeInvariant, PTL

-----------------------------------------------------------------------------
(* When calls do not overlap.                                              *)

OneCall == \A t, u \in Threads : pc[t] # "idle" /\ pc[u] # "idle" => t = u

\* A writer owns its node: what it copied is there, no acknowledged record is,
\* and the node stays free until the head is stored.
Owns(t) ==
  /\ pc[t] = "copy" => /\ \A c \in Chunks \ call[t].todo : node[call[t].i][c] = call[t].rec
                       /\ "head" \in call[t].todo => ~Used(call[t].i)
                       /\ \A a \in acked : a.slot # call[t].i
  /\ pc[t] = "store" => \A c \in Chunks : node[call[t].i][c] = call[t].rec

BadIsTransient ==
  \A p \in Procs : addr[p] = "bad" => \E t \in Threads : ProcOf[t] = p /\ pc[t] = "mapFailed"

Solo ==
  /\ OneCall
  /\ \A t \in Threads : Owns(t)
  /\ \A a \in acked : \A c \in Chunks : node[a.slot][c] = a.rec
  /\ BadIsTransient

LEMMA InitSolo == Init => Solo
  BY DEF Init, Solo, OneCall, Owns, BadIsTransient

\* A thread whose call, table and log are untouched still owns its node.
LEMMA OwnsKept ==
  ASSUME NEW t \in Threads, Owns(t), pc'[t] = pc[t], call'[t] = call[t],
         node' = node, acked' = acked
  PROVE  Owns(t)'
  BY DEF Owns, Used

LEMMA SoloEnd ==
  ASSUME NEW p \in Procs, TypeOK, Solo, End(p), UNCHANGED <<shmVars, acked>>
  PROVE  Solo'
<1> USE ShmAssumption DEF ShmAssumption, Solo, shmVars
<1>1. \A t \in Threads : IF ProcOf[t] = p THEN pc'[t] = "idle"
                         ELSE pc'[t] = pc[t] /\ call'[t] = call[t]
  BY DEF End, TypeOK
<1>2. \A t \in Threads : Owns(t)'
  <2> SUFFICES ASSUME NEW t \in Threads PROVE Owns(t)'
    OBVIOUS
  <2>1. CASE ProcOf[t] = p
    BY <1>1, <2>1 DEF Owns
  <2>2. CASE ProcOf[t] # p
    BY <1>1, <2>2, OwnsKept
  <2> QED
    BY <2>1, <2>2
<1>3. OneCall'
  BY <1>1 DEF OneCall
<1>4. BadIsTransient'
  BY <1>1 DEF BadIsTransient, End, TypeOK
<1> QED
  BY <1>2, <1>3, <1>4

\* A step of a call that runs leaves the other threads idle, so it can
\* disturb only what it owns itself.
LEMMA SoloStep ==
  ASSUME Exclusive, Shape, Solo, [Next]_vars
  PROVE  Solo'
<1> USE ShmAssumption DEF ShmAssumption, Solo, shmVars, objVars
<1> TypeOK
  BY DEF Shape
<1>1. CASE UNCHANGED vars
  BY <1>1 DEF vars, OneCall, Owns, Used, BadIsTransient
<1>2. ASSUME NEW p \in Procs, Construct(p) PROVE Solo'
  <2>1. UNCHANGED <<node, pc, call, acked>>
    BY <1>2 DEF Construct, Open, Create, CheckHeader, SetTotal, SetUse
  <2>2. addr' = addr \/ (\E x \in {"null", "mapped"} : addr' = [addr EXCEPT ![p] = x])
    BY <1>2 DEF Construct, Open, Create, CheckHeader, SetTotal, SetUse
  <2>3. BadIsTransient'
    BY <2>1, <2>2 DEF BadIsTransient, TypeOK
  <2> QED
    BY <2>1, <2>3, OwnsKept DEF OneCall
<1>3. ASSUME NEW p \in Procs, Crash(p) \/ Destroy(p) PROVE Solo'
  BY <1>3, SoloEnd DEF Crash, Destroy
<1>4. ASSUME NEW t \in Threads, BeginWrite(t) \/ BeginRead(t) PROVE Solo'
  <2>1. Quiet /\ \A u \in Threads : u # t => pc'[u] = "idle"
    BY <1>4 DEF BeginWrite, BeginRead, Begin, MayBegin, Quiet, TypeOK
  <2>2. pc'[t] = "map" /\ UNCHANGED <<node, acked, addr>>
    BY <1>4 DEF BeginWrite, BeginRead, Begin, TypeOK
  <2>3. BadIsTransient'
    BY <2>1, <2>2 DEF BadIsTransient, Quiet
  <2> QED
    BY <2>1, <2>2, <2>3 DEF OneCall, Owns
<1>5. ASSUME NEW t \in Threads, Step(t) PROVE Solo'
  <2>1. pc[t] # "idle"
    BY <1>5 DEF Step, Map, Mapped, AttachFails, ResetAddr, Fault, Write, ScanUsed, ScanFree,
       CopyChunk, LoadUseNum, StoreUseNum, StoreCount, Read, ReadSkip, ReadMatch, ReadChunk, ReadDone, NotFound
  <2>2. \A u \in Threads : u # t => pc[u] = "idle"
    BY <2>1 DEF OneCall
  <2>3. CASE Fault(t)
    BY <2>3, SoloEnd DEF Fault
  <2>4. ASSUME ~Fault(t) PROVE \A u \in Threads : u # t => pc'[u] = "idle" /\ Owns(u)'
    <3>1. \E x : pc' = [pc EXCEPT ![t] = x]
      BY <1>5, <2>4 DEF TypeOK, Step, Map, Mapped, AttachFails, ResetAddr, Write, ScanUsed, ScanFree,
         CopyChunk, LoadUseNum, StoreUseNum, StoreCount, Read, ReadSkip, ReadMatch, ReadChunk, ReadDone,
         NotFound, Return
    <3>2. \A u \in Threads : u # t => pc'[u] = "idle"
      BY <2>2, <3>1 DEF TypeOK
    <3> QED
      BY <3>2 DEF Owns
  <2>5. CASE Mapped(t) \/ AttachFails(t) \/ ResetAddr(t)
    <3>1. UNCHANGED <<node, acked>> /\ pc'[t] \in {"scan", "mapFailed", "idle"} /\ ~Fault(t)
      BY <2>5 DEF Mapped, AttachFails, ResetAddr, Return, TypeOK, Fault
    <3>2. BadIsTransient'
      BY <2>2, <2>5 DEF BadIsTransient, Mapped, AttachFails, ResetAddr, Return, TypeOK
    <3> QED
      BY <2>4, <3>1, <3>2 DEF OneCall, Owns
  <2>6. ASSUME ~Map(t) PROVE BadIsTransient'
    <3>1. addr' = addr /\ pc[t] # "mapFailed"
      BY <1>5, <2>6 DEF Step, Write, ScanUsed, ScanFree, CopyChunk, LoadUseNum, StoreUseNum, StoreCount,
         Read, ReadSkip, ReadMatch, ReadChunk, ReadDone, NotFound
    <3> QED
      BY <2>2, <3>1 DEF BadIsTransient
  <2>7. CASE ScanUsed(t) \/ Read(t) \/ NotFound(t)
    <3>1. /\ UNCHANGED <<node, acked>> /\ pc'[t] \in {"scan", "copyOut", "idle"} /\ ~Map(t)
      BY <2>7 DEF ScanUsed, Read, ReadSkip, ReadMatch, ReadChunk, ReadDone, NotFound, Return,
         TypeOK, Map, Mapped, AttachFails, ResetAddr, Fault
    <3> QED
      BY <2>4, <2>6, <3>1 DEF OneCall, Owns, Map
  <2>8. CASE ScanFree(t)
    <3>1. /\ UNCHANGED <<node, acked>> /\ pc'[t] = "copy" /\ ~Map(t)
          /\ call'[t].todo = Chunks /\ call'[t].i = call[t].i /\ ~Used(call[t].i)
      BY <2>8 DEF ScanFree, TypeOK, Call, Map, Mapped, AttachFails, ResetAddr, Fault
    <3>2. \A a \in acked : a.rec # Empty /\ a.slot # call[t].i
      BY <3>1 DEF TypeOK, Used, Chunks
    <3>3. Owns(t)'
      BY <3>1, <3>2 DEF Owns, Used
    <3> QED
      BY <2>4, <2>6, <3>1, <3>3 DEF OneCall, Map
  <2>9. CASE CopyChunk(t)
    <3>1. PICK c \in call[t].todo :
            /\ node' = [node EXCEPT ![call[t].i][c] = call[t].rec]
            /\ call' = [call EXCEPT ![t].todo = @ \ {c}]
      BY <2>9 DEF CopyChunk
    <3>2. /\ acked' = acked /\ pc[t] = "copy" /\ pc'[t] = "copy" /\ ~Map(t)
          /\ c \in Chunks /\ call[t].i \in Slots
      BY <2>9 DEF CopyChunk, Shape, CallShape, TypeOK, Call, Slots, Map, Mapped, AttachFails, ResetAddr, Fault
    <3>3. /\ call'[t].todo = call[t].todo \ {c}
          /\ call'[t].i = call[t].i /\ call'[t].rec = call[t].rec
      BY <3>1 DEF TypeOK, Call
    <3>4. /\ \A j \in Slots : j # call[t].i => node'[j] = node[j]
          /\ \A d \in Chunks : node'[call[t].i][d] = IF d = c THEN call[t].rec ELSE node[call[t].i][d]
      BY <3>1, <3>2 DEF TypeOK, Node
    <3>5. Owns(t)'
      BY <3>2, <3>3, <3>4 DEF Owns, Used, Chunks
    <3>6. \A a \in acked' : \A d \in Chunks : node'[a.slot][d] = a.rec
      BY <3>2, <3>4 DEF Owns, TypeOK
    <3> QED
      BY <2>4, <2>6, <3>2, <3>5, <3>6 DEF OneCall, Map
  <2>10. CASE LoadUseNum(t)
    <3>1. /\ UNCHANGED <<node, acked>> /\ pc[t] = "copy" /\ pc'[t] = "store" /\ ~Map(t)
          /\ call[t].todo = {} /\ call'[t].i = call[t].i /\ call'[t].rec = call[t].rec
      BY <2>10 DEF LoadUseNum, TypeOK, Call, Map, Mapped, AttachFails, ResetAddr, Fault
    <3>2. Owns(t)'
      BY <3>1 DEF Owns
    <3> QED
      BY <2>4, <2>6, <3>1, <3>2 DEF OneCall, Map
  <2>11. CASE StoreUseNum(t)
    <3>1. /\ node' = node /\ pc[t] = "store" /\ pc'[t] = "idle" /\ ~Map(t)
          /\ acked' = acked \cup {[slot |-> call[t].i, rec |-> call[t].rec]}
      BY <2>11 DEF StoreUseNum, StoreCount, Return, TypeOK, Map, Mapped, AttachFails, ResetAddr, Fault
    <3>2. \A a \in acked' : \A d \in Chunks : node'[a.slot][d] = a.rec
      BY <3>1 DEF Owns
    <3>3. Owns(t)'
      BY <3>1 DEF Owns
    <3> QED
      BY <2>4, <2>6, <3>1, <3>2, <3>3 DEF OneCall, Map
  <2> QED
    BY <1>5, <2>3, <2>5, <2>7, <2>8, <2>9, <2>10, <2>11 DEF Step, Map, Write
<1> QED
  BY <1>1, <1>2, <1>3, <1>4, <1>5 DEF Next

\* Solo is one too when calls do not overlap (SecKeyShm.cpp:59-111).
THEOREM SoloInvariant == ASSUME Exclusive PROVE Spec => [](Shape /\ Solo)
<1>1. Init => Shape /\ Solo
  BY InitShape, InitSolo
<1>2. Shape /\ Solo /\ [Next]_vars => (Shape /\ Solo)'
  BY StepShape, SoloStep
<1> QED
  BY <1>1, <1>2, PTL DEF Spec

\* An acknowledged write keeps its node for ever when calls do not overlap,
\* whatever process is killed (SecKeyShm.cpp:76-84).
THEOREM AckedWritesAreKept == ASSUME Exclusive PROVE Spec => []AckedKept
<1>1. Shape /\ Solo => AckedKept
  BY DEF Solo, AckedKept
<1> QED
  BY <1>1, SoloInvariant, PTL

\* The segment with non-overlapping calls implements the write-once table:
\* only the store of a head is a step of it (SecKeyShm.cpp:59-86).
THEOREM ImplementsTable == ASSUME Exclusive PROVE Spec => TableSpec
<1> USE ShmAssumption DEF ShmAssumption
<1> DEFINE heads == [i \in Slots |-> node[i]["head"]]
<1>1. Init => Table!Init
  BY DEF Init, Table!Init, Table!Cells, Slots, Blank, Chunks
<1>2. ASSUME Shape, Solo, [Next]_vars PROVE [Table!Next]_heads
  <2>1. CASE node' = node
    BY <2>1
  <2>2. ASSUME NEW t \in Threads, CopyChunk(t) PROVE [Table!Next]_heads
    <3>1. PICK c \in call[t].todo : node' = [node EXCEPT ![call[t].i][c] = call[t].rec]
      BY <2>2 DEF CopyChunk
    <3>2. c \in Chunks /\ call[t].i \in Slots /\ call[t].rec \in Records
      BY <1>2, <2>2 DEF CopyChunk, Shape, CallShape, TypeOK, Call, Slots
    <3>3. CASE c = "body"
      BY <1>2, <3>1, <3>2, <3>3 DEF Shape, TypeOK, Node, Chunks
    <3>4. CASE c = "head"
      <4>1. heads' = [heads EXCEPT ![call[t].i] = call[t].rec]
        BY <1>2, <3>1, <3>2, <3>4 DEF Shape, TypeOK, Node, Chunks
      <4>2. heads[call[t].i] = Empty
        BY <1>2, <2>2, <3>1, <3>2, <3>4 DEF CopyChunk, Solo, Owns, Used
      <4>3. \A j \in 0..(call[t].i - 1) : heads[j] # Empty
        <5> SUFFICES ASSUME NEW j \in 0..(call[t].i - 1) PROVE j \in Slots /\ Used(j)
          BY DEF Used
        <5>1. j \in Slots /\ j < call[t].i
          BY <3>2 DEF Slots
        <5> QED
          BY <1>2, <2>2, <5>1 DEF CopyChunk, Shape, CallShape, PastUsed
      <4>4. Table!Add(call[t].rec)
        BY <3>2, <4>1, <4>2, <4>3 DEF Table!Add, Table!Cells, Slots
      <4> QED
        BY <3>2, <4>4 DEF Table!Next, Table!Add
    <3> QED
      BY <3>2, <3>3, <3>4 DEF Chunks
  <2> QED
    BY <1>2, <2>1, <2>2 DEF Next, vars, shmVars, objVars, Construct, Open, Create, CheckHeader,
       SetTotal, SetUse, Crash, Destroy, BeginWrite, BeginRead, Begin, Step, Map, Mapped, AttachFails,
       ResetAddr, Fault, Write, ScanUsed, ScanFree, LoadUseNum, StoreUseNum, StoreCount, Read, ReadSkip,
       ReadMatch, ReadChunk, ReadDone, NotFound
<1> QED
  BY <1>1, <1>2, SoloInvariant, PTL DEF Spec, TableSpec, Table!Spec
-----------------------------------------------------------------------------
\* A constructor under way is the only thing under way.
Alone ==
  /\ \A p \in Procs : InCtor(p) => \A t \in Threads : pc[t] = "idle"
  /\ \A p, q \in Procs : InCtor(p) /\ InCtor(q) => p = q

\* Nothing is counted before the header is built, nor while it is.
Header ==
  /\ total = 0 => useNum = 0
  /\ \A p \in Procs : /\ ctor[p] = "setTotal" => total = 0
                      /\ ctor[p] = "setUse" => useNum = 0

Loops(t)     == pc[t] \in {"scan", "copy", "store", "copyOut"}
IsPair(n, d) == n["head"] # Empty /\ IdOf[n["head"]] = d

\* What a call has read of the segment is still so.
Fresh(t) ==
  /\ Loops(t) => call[t].lim = total
  /\ pc[t] = "store" => call[t].reg = useNum
  /\ Loops(t) /\ call[t].op = "read" =>
       \A j \in Slots : j < call[t].i => ~IsPair(node[j], call[t].id)
  /\ pc[t] = "copyOut" =>
       /\ IsPair(node[call[t].i], call[t].id)
       /\ \A c \in Chunks \ call[t].todo : call[t].got[c] = node[call[t].i][c]

\* The log of successful writes covers the used nodes: only a kill leaves a
\* node that no write has reported.
Filling(t, i) == pc[t] \in {"copy", "store"} /\ call[t].i = i

Logged ==
  /\ \A a \in acked : a.slot < total
  /\ crashes = 0 => \A i \in Slots : Used(i) =>
       (\E a \in acked : a.slot = i) \/ (\E t \in Threads : Filling(t, i))

\* A used node is counted by its writer, at the end, or not at all if that is killed.
Uncounted(t) == pc[t] = "store" \/ (pc[t] = "copy" /\ "head" \notin call[t].todo)
Due == IF \E t \in Threads : Uncounted(t) THEN 1 ELSE 0

Counted == useNum + Due <= NumUsed /\ NumUsed <= useNum + Due + crashes

Order ==
  /\ Alone /\ Header
  /\ \A t \in Threads : Fresh(t)
  /\ Logged /\ Counted

LEMMA InitOrder == Init => Order
<1> SUFFICES ASSUME Init PROVE Order
  OBVIOUS
<1>1. \A i \in Slots : ~Used(i)
  BY DEF Init, Used, Blank, Chunks
<1>2. NumUsed = 0
  BY <1>1, FS_EmptySet DEF NumUsed
<1>3. Due = 0
  BY DEF Init, Due, Uncounted
<1>4. Counted
  BY <1>2, <1>3 DEF Init, Counted
<1> QED
  BY <1>1, <1>4 DEF Init, Order, Alone, Header, Fresh, Loops, Logged, InCtor

-----------------------------------------------------------------------------
\* Frames.
LEMMA FreshKept ==
  ASSUME NEW t \in Threads, Fresh(t), pc'[t] = pc[t], call'[t] = call[t],
         UNCHANGED <<node, total, useNum>>
  PROVE  Fresh(t)'
  BY DEF Fresh, Loops, IsPair

LEMMA FreshIdle ==
  ASSUME NEW t \in Threads, pc'[t] \in {"idle", "map", "mapFailed"} PROVE Fresh(t)'
  BY DEF Fresh, Loops

LEMMA DueOfOne ==
  ASSUME NEW t \in Threads, \A u \in Threads : u # t => pc[u] = "idle"
  PROVE  Due = IF Uncounted(t) THEN 1 ELSE 0
  BY DEF Due, Uncounted

LEMMA NoneDue == (\A t \in Threads : pc[t] = "idle") => Due = 0
  BY DEF Due, Uncounted

\* The used nodes can be counted.
LEMMA UsedFinite == IsFiniteSet({i \in Slots : Used(i)}) /\ NumUsed \in Nat
<1>1. IsFiniteSet(Slots)
  BY ShmAssumption, FS_Interval DEF ShmAssumption, Slots
<1>2. IsFiniteSet({i \in Slots : Used(i)})
  BY <1>1, FS_Subset
<1> QED
  BY <1>2, FS_CardinalityType DEF NumUsed

LEMMA OneMoreUsed ==
  ASSUME NEW i \in Slots, ~Used(i), \A j \in Slots : Used(j)' <=> Used(j) \/ j = i
  PROVE  NumUsed' = NumUsed + 1
<1> DEFINE S == {j \in Slots : Used(j)}
<1>1. {j \in Slots : Used(j)'} = S \cup {i} /\ i \notin S
  OBVIOUS
<1>2. Cardinality(S \cup {i}) = Cardinality(S) + 1
  BY <1>1, UsedFinite, FS_AddElement
<1> QED
  BY <1>1, <1>2 DEF NumUsed

LEMMA SameUsed ==
  ASSUME \A j \in Slots : Used(j)' <=> Used(j) PROVE NumUsed' = NumUsed
  BY DEF NumUsed

LEMMA CallTyped ==
  ASSUME Shape, NEW t \in Threads
  PROVE  /\ call[t] \in Call /\ call[t].i \in Nat /\ call[t].lim \in Nat /\ call[t].reg \in Nat
         /\ call[t].todo \in SUBSET Chunks /\ call[t].got \in Node
         /\ pc[t] \in {"scan", "copy", "store", "copyOut"} /\ call[t].i < call[t].lim => call[t].i \in Slots
<1>1. call[t] \in Call
  BY DEF Shape, TypeOK
<1>2. /\ call[t].i \in Nat /\ call[t].lim \in Nat /\ call[t].reg \in Nat
      /\ call[t].todo \in SUBSET Chunks /\ call[t].got \in Node
  BY <1>1 DEF Call
<1>3. call[t].lim <= cap /\ cap \in 0..MaxNodes
  BY DEF Shape, CallShape, TypeOK
<1> QED
  BY <1>1, <1>2, <1>3, ShmAssumption DEF ShmAssumption, Slots

-----------------------------------------------------------------------------
\* Construction runs alone.
LEMMA ConstructOrder ==
  ASSUME Exclusive, Shape, Order, NEW p \in Procs, Construct(p)
  PROVE  Order'
<1>1. /\ UNCHANGED <<node, pc, call, acked, crashes>>
      /\ \A q \in Procs : q # p => ctor'[q] = ctor[q]
  BY DEF Construct, Open, Create, CheckHeader, SetTotal, SetUse, Shape, TypeOK, shmVars
<1>2. (\A t \in Threads : pc[t] = "idle") /\ (\A q \in Procs : q # p => ~InCtor(q))
  <2>1. CASE InCtor(p)
    BY <2>1 DEF Order, Alone
  <2>2. CASE Open(p) \/ Create(p)
    BY <2>2 DEF Open, Create, MayBegin, Quiet
  <2> QED
    BY <2>1, <2>2 DEF Construct, CheckHeader, SetTotal, SetUse, InCtor
<1>3. Alone'
  BY <1>1, <1>2 DEF Alone, InCtor
<1>4. /\ Header' /\ useNum' = useNum
      /\ total' = total \/ total = 0
  <2>1. CASE Open(p) \/ Create(p) \/ CheckHeader(p)
    BY <1>1, <1>2, <2>1 DEF Open, Create, CheckHeader, shmVars, Header, Order, InCtor, Shape, TypeOK
  <2>2. CASE SetTotal(p)
    BY <1>1, <1>2, <2>2 DEF SetTotal, Header, Order, InCtor, Shape, TypeOK
  <2>3. CASE SetUse(p)
    BY <1>1, <1>2, <2>3 DEF SetUse, Header, Order, InCtor, Shape, TypeOK
  <2> QED
    BY <2>1, <2>2, <2>3 DEF Construct
<1>5. \A t \in Threads : Fresh(t)'
  BY <1>1, <1>2, FreshIdle
<1>6. Logged'
  <2>1. total = 0 => acked = {}
    BY DEF Order, Logged, Shape, TypeOK, Slots
  <2> QED
    BY <1>1, <1>2, <1>4, <2>1 DEF Order, Logged, Used, Filling
<1>7. Counted'
  <2>1. NumUsed' = NumUsed /\ Due' = Due
    BY <1>1 DEF NumUsed, Used, Due, Uncounted
  <2> QED
    BY <1>1, <1>4, <2>1 DEF Order, Counted
<1> QED
  BY <1>3, <1>4, <1>5, <1>6, <1>7 DEF Order

\* A kill may leave a used node that nobody has counted or reported.
LEMMA EndOrder ==
  ASSUME Shape, Order, NEW p \in Procs, Crash(p) \/ Destroy(p)
  PROVE  Order'
<1>1. /\ End(p) /\ UNCHANGED <<total, useNum, node, acked>> /\ crashes \in Nat
      /\ \/ crashes' = crashes + 1
         \/ crashes' = crashes /\ \A t \in Threads : ProcOf[t] = p => pc[t] = "idle"
  <2>1. crashes \in Nat
    BY DEF Shape, TypeOK
  <2>2. CASE Crash(p)
    BY <2>1, <2>2 DEF Crash, shmVars
  <2>3. CASE Destroy(p)
    BY <2>1, <2>3 DEF Destroy, shmVars
  <2> QED
    BY <2>2, <2>3
<1>2. /\ \A t \in Threads : IF ProcOf[t] = p THEN pc'[t] = "idle" ELSE pc'[t] = pc[t] /\ call'[t] = call[t]
      /\ \A q \in Procs : ctor'[q] = IF q = p THEN "down" ELSE ctor[q]
  BY <1>1 DEF End, Shape, TypeOK
<1>3. Alone' /\ Header'
  BY <1>1, <1>2 DEF Order, Alone, Header, InCtor
<1>4. ASSUME NEW t \in Threads PROVE Fresh(t)'
  <2>1. CASE ProcOf[t] = p
    BY <1>2, <2>1, FreshIdle
  <2>2. CASE ProcOf[t] # p
    BY <1>1, <1>2, <2>2, FreshKept DEF Order
  <2> QED
    BY <2>1, <2>2
<1>5. Logged'
  <2>1. \A a \in acked' : a.slot < total'
    BY <1>1 DEF Order, Logged
  <2>2. CASE crashes' = crashes + 1
    BY <1>1, <2>1, <2>2 DEF Logged
  <2>3. CASE crashes' = crashes /\ \A t \in Threads : ProcOf[t] = p => pc[t] = "idle"
    <3>1. \A t \in Threads : \A i \in Slots : Filling(t, i) => Filling(t, i)'
      BY <1>2, <2>3 DEF Filling
    <3> QED
      BY <1>1, <2>1, <2>3, <3>1 DEF Order, Logged, Used
  <2> QED
    BY <1>1, <2>2, <2>3
<1>6. Counted'
  <2>1. NumUsed' = NumUsed /\ NumUsed \in Nat /\ useNum \in Nat
    BY <1>1, UsedFinite, SameUsed DEF Used, Shape, TypeOK
  <2>2. \A t \in Threads : Uncounted(t)' => Uncounted(t)
    BY <1>2 DEF Uncounted
  <2>3. CASE crashes' = crashes + 1
    <3>1. Due \in {0, 1} /\ Due' \in {0, 1} /\ Due' <= Due
      BY <2>2 DEF Due
    <3> QED
      BY <1>1, <2>1, <2>3, <3>1 DEF Order, Counted
  <2>4. CASE crashes' = crashes /\ \A t \in Threads : ProcOf[t] = p => pc[t] = "idle"
    <3>1. \A t \in Threads : Uncounted(t) => Uncounted(t)'
      BY <1>2, <2>4 DEF Uncounted
    <3>2. Due' = Due
      BY <2>2, <3>1 DEF Due
    <3> QED
      BY <1>1, <2>1, <2>4, <3>2 DEF Order, Counted
  <2> QED
    BY <1>1, <2>3, <2>4
<1> QED
  BY <1>3, <1>4, <1>5, <1>6 DEF Order

LEMMA BeginOrder ==
  ASSUME Exclusive, Shape, Order, NEW t \in Threads, BeginWrite(t) \/ BeginRead(t)
  PROVE  Order'
<1>1. /\ Quiet /\ UNCHANGED <<total, useNum, node, ctor, acked, crashes>>
      /\ pc' = [pc EXCEPT ![t] = "map"]
  BY DEF BeginWrite, BeginRead, Begin, MayBegin, shmVars, objVars
<1>2. \A u \in Threads : pc[u] = "idle" /\ pc'[u] \in {"idle", "map"}
  BY <1>1 DEF Quiet, Shape, TypeOK
<1>3. Alone' /\ Header'
  BY <1>1 DEF Quiet, Order, Alone, Header, InCtor
<1>4. \A u \in Threads : Fresh(u)'
  BY <1>2, FreshIdle
<1>5. Logged'
  BY <1>1, <1>2 DEF Order, Logged, Used, Filling
<1>6. Counted'
  <2>1. NumUsed' = NumUsed /\ Due = 0 /\ Due' = 0
    BY <1>1, <1>2 DEF NumUsed, Used, Due, Uncounted
  <2> QED
    BY <1>1, <2>1 DEF Order, Counted
<1> QED
  BY <1>3, <1>4, <1>5, <1>6 DEF Order

-----------------------------------------------------------------------------
\* A step of a call: nobody else runs, and nobody's segment is bad.
LEMMA LoneStep ==
  ASSUME Shape, Solo, Order, NEW t \in Threads, Step(t)
  PROVE  /\ ~Fault(t) /\ UNCHANGED <<cap, total, ctor, crashes>>
         /\ pc[t] # "idle" /\ \A q \in Procs : ~InCtor(q)
         /\ \A u \in Threads : u # t => pc[u] = "idle" /\ pc'[u] = "idle"
         /\ \A u \in Threads : u # t => call'[u] = call[u]
<1>1. pc[t] # "idle"
  BY DEF Step, Map, Mapped, AttachFails, ResetAddr, Fault, Write, ScanUsed, ScanFree,
     CopyChunk, LoadUseNum, StoreUseNum, StoreCount, Read, ReadSkip, ReadMatch, ReadChunk, ReadDone, NotFound
<1>2. /\ \A q \in Procs : ~InCtor(q)
      /\ \A u \in Threads : u # t => pc[u] = "idle"
  BY <1>1 DEF Order, Alone, Solo, OneCall
<1>3. ~Fault(t)
  BY <1>2, ShmAssumption DEF ShmAssumption, Fault, Solo, BadIsTransient
<1>4. UNCHANGED <<cap, total, ctor, crashes>>
  BY <1>3 DEF Step, Map, Mapped, AttachFails, ResetAddr, Write, ScanUsed, ScanFree, shmVars, objVars,
     CopyChunk, LoadUseNum, StoreUseNum, StoreCount, Read, ReadSkip, ReadMatch, ReadChunk, ReadDone, NotFound
<1>5. (\E x : pc' = [pc EXCEPT ![t] = x]) \/ pc' = pc
  BY <1>3 DEF Step, Map, Mapped, AttachFails, ResetAddr, Write, ScanUsed, ScanFree, Return,
     CopyChunk, LoadUseNum, StoreUseNum, StoreCount, Read, ReadSkip, ReadMatch, ReadChunk, ReadDone, NotFound
<1>6. (\E x : call' = [call EXCEPT ![t] = x]) \/ call' = call
  BY <1>3 DEF Step, Map, Mapped, AttachFails, ResetAddr, Write, ScanUsed, ScanFree, Return,
     CopyChunk, LoadUseNum, StoreUseNum, StoreCount, Read, ReadSkip, ReadMatch, ReadChunk, ReadDone, NotFound
<1>7. \A u \in Threads : u # t => pc'[u] = pc[u] /\ call'[u] = call[u]
  BY <1>5, <1>6 DEF Shape, TypeOK
<1> QED
  BY <1>1, <1>2, <1>3, <1>4, <1>7

\* What is left to show of a step of a call.
LEMMA StepParts ==
  ASSUME Shape, Solo, Order, NEW t \in Threads, Step(t), Fresh(t)', Logged', Counted', total = 0 => useNum' = 0
  PROVE  Order'
<1>1. Alone'
  BY LoneStep DEF Alone, InCtor
<1>2. Header'
  BY LoneStep DEF Header, InCtor
<1>3. \A u \in Threads : Fresh(u)'
  BY LoneStep, FreshIdle
<1> QED
  BY <1>1, <1>2, <1>3 DEF Order

\* A step that stores nothing in the segment.
LEMMA ReadsOnly ==
  ASSUME Shape, Solo, Order, NEW t \in Threads, Step(t), UNCHANGED <<node, useNum, acked>>,
         Uncounted(t)' = Uncounted(t), \A i \in Slots : Filling(t, i) => Filling(t, i)', Fresh(t)'
  PROVE  Order'
<1>1. Logged'
  BY LoneStep DEF Order, Logged, Used, Filling
<1>2. Counted'
  <2>1. NumUsed' = NumUsed
    BY DEF NumUsed, Used
  <2>2. Due' = Due
    BY LoneStep DEF Due, Uncounted
  <2> QED
    BY <2>1, <2>2, LoneStep DEF Order, Counted
<1> QED
  BY <1>1, <1>2, StepParts DEF Order, Header

LEMMA MapOrder ==
  ASSUME Shape, Solo, Order, NEW t \in Threads, Map(t) PROVE Order'
<1>1. ~Fault(t) /\ Step(t)
  BY LoneStep DEF Step
<1>2. /\ UNCHANGED <<node, useNum, acked>> /\ pc[t] \in {"map", "mapFailed"}
      /\ pc'[t] \in {"scan", "mapFailed", "idle"}
  BY <1>1 DEF Map, Mapped, AttachFails, ResetAddr, Return, shmVars, Shape, TypeOK
<1>3. Fresh(t)'
  <2>1. CASE Mapped(t)
    <3>1. call'[t].lim = total /\ call'[t].i = 0 /\ pc'[t] = "scan" /\ total' = total
      <4>1. call[t].i = 0
        BY <2>1 DEF Mapped, Shape, CallShape
      <4> QED
        BY <2>1, <4>1, CallTyped DEF Mapped, shmVars, Shape, TypeOK, Call
    <3> QED
      BY <3>1, ShmAssumption DEF ShmAssumption, Fresh, Loops, Slots
  <2>2. CASE ~Mapped(t)
    <3>1. pc'[t] \in {"idle", "mapFailed"}
      BY <1>1, <2>2 DEF Map, AttachFails, ResetAddr, Return, Shape, TypeOK
    <3> QED
      BY <3>1, FreshIdle
  <2> QED
    BY <2>1, <2>2
<1> QED
  BY <1>1, <1>2, <1>3, ReadsOnly DEF Uncounted, Filling

LEMMA ReadOrder ==
  ASSUME Shape, Solo, Order, NEW t \in Threads, Read(t) \/ NotFound(t) PROVE Order'
<1>1. Step(t) /\ Fresh(t) /\ UNCHANGED <<total, useNum, node, acked>>
  BY DEF Step, Order, Read, ReadSkip, ReadMatch, ReadChunk, ReadDone, NotFound, shmVars
<1>2. pc[t] \in {"scan", "copyOut"} /\ pc'[t] \in {"scan", "copyOut", "idle"}
  BY DEF Read, ReadSkip, ReadMatch, ReadChunk, ReadDone, NotFound, Return, Shape, TypeOK
<1>3. CASE ReadSkip(t)
  <2>1. /\ pc[t] = "scan" /\ pc'[t] = "scan" /\ call[t].op = "read" /\ call[t].i < call[t].lim
        /\ ~IsPair(node[call[t].i], call[t].id)
    BY <1>3 DEF ReadSkip, Matches, IsPair
  <2>2. call'[t].i = call[t].i + 1 /\ call'[t].lim = call[t].lim /\ call'[t].id = call[t].id
    BY <1>3 DEF ReadSkip, Shape, TypeOK, Call
  <2>3. \A j \in Slots : j < call[t].i + 1 => j < call[t].i \/ j = call[t].i
    BY CallTyped, ShmAssumption DEF ShmAssumption, Slots
  <2>4. Fresh(t)'
    BY <1>1, <2>1, <2>2, <2>3 DEF Fresh, Loops, IsPair
  <2> QED
    BY <1>1, <2>1, <2>4, ReadsOnly DEF Uncounted, Filling
<1>4. CASE ReadMatch(t)
  <2>1. /\ pc[t] = "scan" /\ pc'[t] = "copyOut" /\ IsPair(node[call[t].i], call[t].id)
    BY <1>4 DEF ReadMatch, Matches, IsPair, Shape, TypeOK
  <2>2. /\ call'[t].i = call[t].i /\ call'[t].lim = call[t].lim /\ call'[t].id = call[t].id
        /\ call'[t].op = call[t].op /\ call'[t].todo = Chunks
    BY <1>4 DEF ReadMatch, Shape, TypeOK, Call
  <2>3. Fresh(t)'
    BY <1>1, <2>1, <2>2 DEF Fresh, Loops, IsPair
  <2> QED
    BY <1>1, <2>1, <2>3, ReadsOnly DEF Uncounted, Filling
<1>5. CASE ReadChunk(t)
  <2>1. PICK c \in call[t].todo :
          call' = [call EXCEPT ![t].got[c] = node[call[t].i][c], ![t].todo = @ \ {c}]
    BY <1>5 DEF ReadChunk
  <2>2. pc[t] = "copyOut" /\ pc'[t] = "copyOut" /\ c \in Chunks
    BY <1>5, CallTyped DEF ReadChunk
  <2>3. /\ call'[t].i = call[t].i /\ call'[t].lim = call[t].lim /\ call'[t].id = call[t].id
        /\ call'[t].op = call[t].op /\ call'[t].todo = call[t].todo \ {c}
        /\ call'[t].got = [call[t].got EXCEPT ![c] = node[call[t].i][c]]
    BY <2>1 DEF Shape, TypeOK, Call
  <2>4. \A d \in Chunks \ call'[t].todo : call'[t].got[d] = node[call[t].i][d]
    BY <1>1, <2>2, <2>3, CallTyped DEF Fresh, Node
  <2>5. Fresh(t)'
    BY <1>1, <2>2, <2>3, <2>4 DEF Fresh, Loops, IsPair
  <2> QED
    BY <1>1, <2>2, <2>5, ReadsOnly DEF Uncounted, Filling
<1>6. CASE ReadDone(t) \/ NotFound(t)
  <2>1. pc'[t] = "idle"
    BY <1>6 DEF ReadDone, NotFound, Return, Shape, TypeOK
  <2> QED
    BY <1>1, <1>2, <2>1, FreshIdle, ReadsOnly DEF Uncounted, Filling
<1> QED
  BY <1>3, <1>4, <1>5, <1>6 DEF Read

LEMMA WriteOrder ==
  ASSUME Shape, Solo, Order, NEW t \in Threads, Write(t) PROVE Order'
<1>1. Step(t) /\ Fresh(t) /\ total' = total /\ crashes' = crashes
  BY LoneStep DEF Step, Order
<1>2. CASE ScanUsed(t)
  <2>1. pc[t] = "scan" /\ pc'[t] = "scan" /\ UNCHANGED <<node, useNum, acked>>
    BY <1>2 DEF ScanUsed, shmVars
  <2>2. call'[t].lim = call[t].lim /\ call'[t].op = "write"
    BY <1>2 DEF ScanUsed, Shape, TypeOK, Call
  <2>3. Fresh(t)'
    BY <1>1, <2>1, <2>2 DEF Fresh, Loops
  <2> QED
    BY <1>1, <2>1, <2>3, ReadsOnly DEF Uncounted, Filling
<1>3. CASE ScanFree(t)
  <2>1. pc[t] = "scan" /\ pc'[t] = "copy" /\ UNCHANGED <<node, useNum, acked>>
    BY <1>3 DEF ScanFree, shmVars, Shape, TypeOK
  <2>2. call'[t].lim = call[t].lim /\ call'[t].op = "write" /\ call'[t].todo = Chunks
    BY <1>3 DEF ScanFree, Shape, TypeOK, Call
  <2>3. Fresh(t)'
    BY <1>1, <2>1, <2>2 DEF Fresh, Loops
  <2> QED
    BY <1>1, <2>1, <2>2, <2>3, ReadsOnly DEF Uncounted, Filling, Chunks
<1>4. CASE LoadUseNum(t)
  <2>1. pc[t] = "copy" /\ pc'[t] = "store" /\ UNCHANGED <<node, useNum, acked>> /\ call[t].todo = {}
        /\ call[t].op = "write"
    BY <1>4 DEF LoadUseNum, shmVars, Shape, TypeOK, CallShape
  <2>2. call'[t].lim = call[t].lim /\ call'[t].op = call[t].op /\ call'[t].i = call[t].i
        /\ call'[t].reg = useNum
    BY <1>4 DEF LoadUseNum, Shape, TypeOK, Call
  <2>3. Fresh(t)'
    BY <1>1, <2>1, <2>2 DEF Fresh, Loops
  <2> QED
    BY <1>1, <2>1, <2>2, <2>3, ReadsOnly DEF Uncounted, Filling
<1>5. CASE CopyChunk(t)
  <2>1. PICK c \in call[t].todo :
          /\ node' = [node EXCEPT ![call[t].i][c] = call[t].rec]
          /\ call' = [call EXCEPT ![t].todo = @ \ {c}]
    BY <1>5 DEF CopyChunk
  <2>2. /\ pc[t] = "copy" /\ pc'[t] = "copy" /\ UNCHANGED <<useNum, acked>>
        /\ call[t].op = "write" /\ call[t].rec \in Records /\ c \in Chunks /\ call[t].i \in Slots
    BY <1>5, CallTyped DEF CopyChunk, Shape, CallShape
  <2>3. /\ call'[t].i = call[t].i /\ call'[t].lim = call[t].lim /\ call'[t].op = call[t].op
        /\ call'[t].todo = call[t].todo \ {c}
    BY <2>1 DEF Shape, TypeOK, Call
  <2>4. Fresh(t)'
    BY <1>1, <2>2, <2>3 DEF Fresh, Loops
  <2> PICK i \in Slots : i = call[t].i
    BY <2>2
  <2>5. /\ \A j \in Slots : j # i => (Used(j)' <=> Used(j))
        /\ c = "head" => ~Used(i) /\ Used(i)'
        /\ c # "head" => (Used(i)' <=> Used(i))
    BY <2>1, <2>2, ShmAssumption DEF ShmAssumption, Used, Solo, Owns, Shape, TypeOK, Node
  <2>6. Logged'
    <3>1. Filling(t, i)'
      BY <2>2, <2>3 DEF Filling
    <3>2. \A j \in Slots : (\E u \in Threads : Filling(u, j)) => j = i
      BY <1>1, LoneStep DEF Filling
    <3> QED
      BY <1>1, <2>2, <2>5, <3>1, <3>2 DEF Order, Logged
  <2>7. Counted'
    <3>1. Due = (IF Uncounted(t) THEN 1 ELSE 0) /\ Due' = (IF Uncounted(t)' THEN 1 ELSE 0)
      BY <1>1, LoneStep, DueOfOne DEF Due, Uncounted
    <3>2. CASE c = "head"
      <4>1. NumUsed' = NumUsed + 1
        BY <2>2, <2>5, <3>2, OneMoreUsed
      <4>2. ~Uncounted(t) /\ Uncounted(t)'
        BY <2>2, <2>3, <3>2 DEF Uncounted
      <4> QED
        BY <1>1, <2>2, <3>1, <4>1, <4>2, UsedFinite DEF Order, Counted, Shape, TypeOK
    <3>3. CASE c # "head"
      <4>1. NumUsed' = NumUsed
        BY <2>5, <3>3, SameUsed
      <4>2. Uncounted(t)' = Uncounted(t)
        BY <2>2, <2>3, <3>3 DEF Uncounted
      <4> QED
        BY <1>1, <2>2, <3>1, <4>1, <4>2 DEF Order, Counted
    <3> QED
      BY <3>2, <3>3
  <2> QED
    BY <1>1, <2>2, <2>4, <2>6, <2>7, StepParts DEF Order, Header
<1>6. CASE StoreUseNum(t)
  <2>1. /\ pc[t] = "store" /\ pc'[t] = "idle" /\ node' = node /\ useNum' = call[t].reg + 1
        /\ acked' = acked \cup {[slot |-> call[t].i, rec |-> call[t].rec]}
    BY <1>6 DEF StoreUseNum, StoreCount, Return, Shape, TypeOK
  <2>2. call[t].reg = useNum /\ call[t].i < total /\ call[t].i \in Nat /\ total \in Nat /\ useNum \in Nat
    BY <1>1, <2>1, CallTyped DEF Fresh, Loops, Shape, CallShape, TypeOK
  <2>3. Logged'
    <3>1. \A a \in acked' : a.slot < total
      BY <2>1, <2>2 DEF Order, Logged
    <3>2. ASSUME crashes = 0, NEW i \in Slots, Used(i) PROVE \E a \in acked' : a.slot = i
      <4>1. CASE \E a \in acked : a.slot = i
        BY <2>1, <4>1
      <4>2. CASE \E u \in Threads : Filling(u, i)
        <5>1. Filling(t, i)
          BY <1>1, <4>2, LoneStep DEF Filling
        <5>2. [slot |-> call[t].i, rec |-> call[t].rec] \in acked' /\ call[t].i = i
          BY <2>1, <5>1 DEF Filling
        <5> QED
          BY <5>2
      <4> QED
        BY <3>2, <4>1, <4>2 DEF Order, Logged
    <3> QED
      BY <1>1, <2>1, <3>1, <3>2 DEF Logged, Used
  <2>4. Counted'
    <3>1. NumUsed' = NumUsed
      BY <2>1 DEF NumUsed, Used
    <3>2. Due = 1 /\ Due' = 0
      BY <1>1, <2>1, LoneStep DEF Due, Uncounted
    <3> QED
      BY <1>1, <2>1, <2>2, <3>1, <3>2, UsedFinite DEF Order, Counted, Shape, TypeOK
  <2> QED
    BY <1>1, <2>1, <2>2, <2>3, <2>4, FreshIdle, StepParts
<1> QED
  BY <1>2, <1>3, <1>4, <1>5, <1>6 DEF Write

LEMMA StepOrder ==
  ASSUME Exclusive, Shape, Solo, Order, [Next]_vars PROVE Order'
<1>1. CASE UNCHANGED vars
  <2>1. Alone' /\ Header' /\ Logged' /\ Counted'
    BY <1>1 DEF vars, Order, Alone, Header, InCtor, Logged, Used, Filling, Counted, NumUsed, Due, Uncounted
  <2>2. \A t \in Threads : Fresh(t)'
    BY <1>1, FreshKept DEF vars, Order
  <2> QED
    BY <2>1, <2>2 DEF Order
<1>2. CASE \E p \in Procs : Construct(p) \/ Destroy(p) \/ Crash(p)
  BY <1>2, ConstructOrder, EndOrder
<1>3. CASE \E t \in Threads : BeginWrite(t) \/ BeginRead(t) \/ Step(t)
  BY <1>3, BeginOrder, MapOrder, WriteOrder, ReadOrder DEF Step
<1> QED
  BY <1>1, <1>2, <1>3 DEF Next

\* Order is an invariant when calls do not overlap (SecKeyShm.cpp:8-111).
THEOREM OrderInvariant == ASSUME Exclusive PROVE Spec => [](Shape /\ Solo /\ Order)
<1>1. Init => Shape /\ Solo /\ Order
  BY InitShape, InitSolo, InitOrder
<1>2. Shape /\ Solo /\ Order /\ [Next]_vars => (Shape /\ Solo /\ Order)'
  BY StepShape, SoloStep, StepOrder
<1> QED
  BY <1>1, <1>2, PTL DEF Spec

\* Between calls useNum is the number of used nodes, up to one for each kill
\* that fell between memcpy and pInt[1]++ (SecKeyShm.cpp:80-81).
THEOREM CountLags == ASSUME Exclusive PROVE Spec => []CountLagsByCrashes
<1>1. Shape /\ Solo /\ Order => CountLagsByCrashes
  <2> SUFFICES ASSUME Shape, Order, Quiet
               PROVE  useNum <= NumUsed /\ NumUsed <= useNum + crashes
    BY DEF CountLagsByCrashes
  <2>1. Due = 0 /\ useNum \in Nat /\ crashes \in Nat
    BY NoneDue DEF Quiet, Shape, TypeOK
  <2> QED
    BY <2>1, UsedFinite DEF Order, Counted
<1> QED
  BY <1>1, OrderInvariant, PTL

\* A reader misses no record of its pair, returns the oldest, and without a
\* kill returns it whole (SecKeyShm.cpp:100-110).
THEOREM OldestIsRead == ASSUME Exclusive PROVE Spec => []ReadsOldest
<1>1. Shape /\ Solo /\ Order => ReadsOldest
  <2> SUFFICES ASSUME Shape, Solo, Order, NEW t \in Threads, call[t].op = "read",
                      NEW mine, mine = {a \in acked : IdOf[a.rec] = call[t].id}
               PROVE  /\ (pc[t] = "scan" /\ call[t].i >= call[t].lim) => mine = {}
                      /\ (pc[t] = "copyOut" /\ call[t].todo = {}) =>
                           /\ \A a \in mine : call[t].i <= a.slot
                           /\ crashes = 0 => /\ Intact(call[t].got)
                                             /\ [slot |-> call[t].i, rec |-> call[t].got["head"]] \in mine
    BY DEF ReadsOldest
  <2>1. Fresh(t) /\ call[t].i \in Nat /\ call[t].lim \in Nat /\ total \in Nat
    BY CallTyped DEF Order, Shape, TypeOK
  <2>2. \A a \in acked : /\ a \in [slot : Slots, rec : Records] /\ a.rec # Empty /\ a.slot < total
                         /\ \A c \in Chunks : node[a.slot][c] = a.rec
    BY ShmAssumption DEF ShmAssumption, Shape, TypeOK, Solo, Order, Logged
  <2>3. \A a \in mine : a.slot \in Slots /\ a.slot \in Int /\ IsPair(node[a.slot], call[t].id) /\ a.slot < total
    BY <2>2 DEF IsPair, Chunks, Slots
  <2>4. ASSUME Loops(t), NEW a \in mine PROVE call[t].i <= a.slot /\ a.slot < call[t].lim
    BY <2>1, <2>3, <2>4 DEF Fresh
  <2>5. ASSUME pc[t] = "copyOut", call[t].todo = {}, crashes = 0
        PROVE  /\ Intact(call[t].got)
               /\ [slot |-> call[t].i, rec |-> call[t].got["head"]] \in mine
    <3>1. /\ IsPair(node[call[t].i], call[t].id) /\ call[t].i \in Slots
          /\ \A c \in Chunks : call[t].got[c] = node[call[t].i][c]
      BY <2>1, <2>5, CallTyped DEF Fresh, Shape, CallShape
    <3>2. PICK a \in acked : a.slot = call[t].i
      <4>1. Used(call[t].i)
        BY <3>1 DEF Used, IsPair
      <4>2. \A u \in Threads : ~Filling(u, call[t].i)
        BY <2>5 DEF Filling, Solo, OneCall
      <4> QED
        BY <2>5, <3>1, <4>1, <4>2 DEF Order, Logged
    <3>3. a = [slot |-> call[t].i, rec |-> a.rec] /\ \A c \in Chunks : call[t].got[c] = a.rec
      BY <2>2, <3>1, <3>2
    <3>4. call[t].got["head"] = a.rec /\ call[t].got["body"] = a.rec /\ IdOf[a.rec] = call[t].id
      BY <3>1, <3>3 DEF Chunks, IsPair
    <3> QED
      BY <3>2, <3>3, <3>4 DEF Intact
  <2>6. pc[t] = "scan" /\ call[t].i >= call[t].lim => mine = {}
    BY <2>1, <2>3, <2>4 DEF Loops
  <2>7. pc[t] = "copyOut" => \A a \in mine : call[t].i <= a.slot
    BY <2>4 DEF Loops
  <2> QED
    BY <2>5, <2>6, <2>7
<1> QED
  BY <1>1, OrderInvariant, PTL

\* Once built, the header is never built again (SecKeyShm.cpp:24).
THEOREM HeaderStays == ASSUME Exclusive PROVE Spec => HeaderKept
<1>1. ASSUME Shape, Solo, Order, [Next]_vars, total > 0 PROVE total' = total /\ useNum' >= useNum
  <2>1. useNum \in Nat /\ total \in Nat
    BY <1>1 DEF Shape, TypeOK
  <2>2. CASE UNCHANGED vars
    BY <2>1, <2>2 DEF vars
  <2>3. ASSUME NEW p \in Procs, Construct(p) \/ Destroy(p) \/ Crash(p) PROVE total' = total /\ useNum' >= useNum
    <3>1. ~SetTotal(p)
      BY <1>1, <2>1 DEF SetTotal, Order, Header
    <3>2. SetUse(p) => useNum' = useNum /\ total' = total
      BY <1>1 DEF SetUse, Order, Header
    <3> QED
      BY <2>1, <2>3, <3>1, <3>2 DEF Construct, Open, Create, CheckHeader, Destroy, Crash, shmVars
  <2>4. ASSUME NEW t \in Threads, BeginWrite(t) \/ BeginRead(t) \/ Step(t) PROVE total' = total /\ useNum' >= useNum
    <3>1. CASE BeginWrite(t) \/ BeginRead(t)
      <4>1. total' = total /\ useNum' = useNum
        BY <3>1 DEF BeginWrite, BeginRead, Begin, shmVars
      <4> QED
        BY <2>1, <4>1
    <3>2. CASE StoreUseNum(t)
      <4>1. call[t].reg = useNum
        BY <1>1, <3>2 DEF StoreUseNum, StoreCount, Order, Fresh
      <4> QED
        BY <2>1, <3>2, <4>1 DEF StoreUseNum, StoreCount
    <3>3. CASE Step(t) /\ ~StoreUseNum(t)
      <4>1. total' = total /\ useNum' = useNum
        BY <3>3 DEF Step, Map, Mapped, AttachFails, ResetAddr, Fault, Write, ScanUsed, ScanFree, CopyChunk,
           LoadUseNum, Read, ReadSkip, ReadMatch, ReadChunk, ReadDone, NotFound, shmVars
      <4> QED
        BY <2>1, <4>1
    <3> QED
      BY <2>4, <3>1, <3>2, <3>3
  <2> QED
    BY <1>1, <2>2, <2>3, <2>4 DEF Next
<1>2. Shape /\ Solo /\ Order /\ [Next]_vars => [Exclusive /\ total > 0 => total' = total /\ useNum' >= useNum]_vars
  BY <1>1
<1> QED
  BY <1>2, OrderInvariant, PTL DEF Spec, HeaderKept
=============================================================================
