----------------------------- MODULE SecKeyShm -----------------------------
(***************************************************************************)
(* The shared-memory key table: one System V segment                       *)
(*                                                                         *)
(*     [ total | useNum | node 0 | node 1 | ... ]                          *)
(*                                                                         *)
(* that every server process and every client process of a host attaches   *)
(* under the same key.  A process owns one SecKeyShm object; the server's  *)
(* worker threads share theirs.  No lock protects the segment or the       *)
(* object, so shmWrite and shmRead are modelled at the grain of their      *)
(* loads and stores.                                                       *)
(*                                                                         *)
(* A NodeSHMInfo of 160 bytes is stored by memcpy in two chunks, in        *)
(* either order: "head" is status, seckeyID, clientID and serverID (32     *)
(* bytes), "body" is seckey (128 bytes).  A chunk holds the record it was  *)
(* stored from, or Empty for the zeros of a fresh segment; every record    *)
(* has status 1, so a node is used exactly when its head is not Empty.     *)
(***************************************************************************)
EXTENDS Integers, FiniteSets

CONSTANTS
  Procs,       \* processes, one SecKeyShm object each
  Threads,     \* threads that call shmWrite and shmRead
  ProcOf,      \* the process of a thread
  ReqNodes,    \* maxNode of a process's constructor; 0 is SecKeyShm(key)
  MaxNodes,    \* bound of the model: no constructor asks for more nodes
  Records,     \* the NodeSHMInfo values that are written
  Ids,         \* (clientID, serverID) pairs
  IdOf,        \* the pair of a record
  Empty,       \* what the zeros of a fresh segment hold: no record
  MaxCrashes,  \* bound of the model: processes killed from outside
  Exclusive    \* TRUE: calls never overlap (one client at a time: the server
               \* thread writes before it replies, the client after that)

ASSUME ShmAssumption ==
  /\ ProcOf \in [Threads -> Procs]
  /\ MaxNodes \in Nat
  /\ ReqNodes \in [Procs -> 0..MaxNodes]
  /\ IdOf \in [Records -> Ids]
  /\ Empty \notin Records
  /\ MaxCrashes \in Nat
  /\ Exclusive \in BOOLEAN

VARIABLES
  cap,      \* nodes the kernel sized the segment for; 0: no segment yet
  total,    \* pInt[0]
  useNum,   \* pInt[1]
  node,     \* the node array
  shmID,    \* per object: whether shmget gave a valid id
  addr,     \* per object: m_shmAddr, "bad" is (void*)-1
  ctor,     \* per process: where its constructor is; "down": not running
  pc,       \* per thread: where its call is
  call,     \* per thread: the locals of its call
  acked,    \* history: the slot and record of every write that returned 0
  acks,     \* history: how many writes returned 0
  crashes   \* history: processes killed from outside

shmVars == <<cap, total, useNum, node>>
objVars == <<shmID, addr, ctor>>
vars == <<cap, total, useNum, node, shmID, addr, ctor, pc, call, acked, acks, crashes>>

Slots  == 0..(MaxNodes - 1)
Chunks == {"head", "body"}
Node   == [Chunks -> Records \cup {Empty}]
Blank  == [c \in Chunks |-> Empty]

Used(i)   == node[i]["head"] # Empty
Intact(n) == n["head"] = n["body"]

NoCall == [op |-> "none", rec |-> Empty, id |-> Empty, i |-> 0, lim |-> 0,
           todo |-> {}, reg |-> 0, got |-> Blank]

Running(p) == ctor[p] = "ready"
InCtor(p)  == ctor[p] \in {"check", "setTotal", "setUse"}
Quiet == /\ \A t \in Threads : pc[t] = "idle"
         /\ \A p \in Procs : ~InCtor(p)
MayBegin == Exclusive => Quiet

Init ==
  /\ cap = 0 /\ total = 0 /\ useNum = 0
  /\ node = [i \in Slots |-> Blank]
  /\ shmID = [p \in Procs |-> FALSE]
  /\ addr = [p \in Procs |-> "null"]
  /\ ctor = [p \in Procs |-> "down"]
  /\ pc = [t \in Threads |-> "idle"]
  /\ call = [t \in Threads |-> NoCall]
  /\ acked = {}
  /\ acks = 0
  /\ crashes = 0

-----------------------------------------------------------------------------
(* Construction: shmget and shmat, then the header.                        *)

\* SecKeyShm(key): look the segment up, map nothing.
Open(p) ==
  /\ ctor[p] = "down" /\ ReqNodes[p] = 0 /\ MayBegin
  /\ shmID' = [shmID EXCEPT ![p] = cap > 0]
  /\ ctor' = [ctor EXCEPT ![p] = "ready"]
  /\ UNCHANGED <<shmVars, addr, pc, call, acked, acks, crashes>>

\* Mutant: shmget attaches a segment of any size.
CreateAnySize(p) ==
  /\ ctor[p] = "down" /\ ReqNodes[p] > 0 /\ MayBegin
  /\ cap' = IF cap = 0 THEN ReqNodes[p] ELSE cap
  /\ shmID' = [shmID EXCEPT ![p] = TRUE]
  /\ addr' = [addr EXCEPT ![p] = "mapped"]
  /\ ctor' = [ctor EXCEPT ![p] = "check"]
  /\ UNCHANGED <<total, useNum, node, pc, call, acked, acks, crashes>>

\* SecKeyShm(key, maxNode): the first creator sizes the segment; shmget
\* refuses (EINVAL) to attach one that is smaller than asked for.
Create(p) ==
  /\ ctor[p] = "down" /\ ReqNodes[p] > 0 /\ MayBegin
  /\ cap' = IF cap = 0 THEN ReqNodes[p] ELSE cap
  /\ shmID' = [shmID EXCEPT ![p] = ReqNodes[p] <= cap']
  /\ addr' = [addr EXCEPT ![p] = IF ReqNodes[p] <= cap' THEN "mapped" ELSE "null"]
  /\ ctor' = [ctor EXCEPT ![p] = IF ReqNodes[p] <= cap' THEN "check" ELSE "ready"]
  /\ UNCHANGED <<total, useNum, node, pc, call, acked, acks, crashes>>

\* Mutant: every constructor builds the header.
CheckHeaderAlways(p) ==
  /\ ctor[p] = "check"
  /\ ctor' = [ctor EXCEPT ![p] = "setTotal"]
  /\ UNCHANGED <<shmVars, shmID, addr, pc, call, acked, acks, crashes>>

\* if (pInt[0] == 0)
CheckHeader(p) ==
  /\ ctor[p] = "check"
  /\ ctor' = [ctor EXCEPT ![p] = IF total = 0 THEN "setTotal" ELSE "ready"]
  /\ UNCHANGED <<shmVars, shmID, addr, pc, call, acked, acks, crashes>>

\* pInt[0] = maxNode
SetTotal(p) ==
  /\ ctor[p] = "setTotal"
  /\ total' = ReqNodes[p]
  /\ ctor' = [ctor EXCEPT ![p] = "setUse"]
  /\ UNCHANGED <<cap, useNum, node, shmID, addr, pc, call, acked, acks, crashes>>

\* pInt[1] = 0
SetUse(p) ==
  /\ ctor[p] = "setUse"
  /\ useNum' = 0
  /\ ctor' = [ctor EXCEPT ![p] = "ready"]
  /\ UNCHANGED <<cap, total, node, shmID, addr, pc, call, acked, acks, crashes>>

-----------------------------------------------------------------------------
(* The calls.  A call begins by mapping the segment if the object has not. *)

Begin(t, op, rec, id) ==
  /\ pc[t] = "idle" /\ Running(ProcOf[t]) /\ MayBegin
  /\ call' = [call EXCEPT ![t] = [NoCall EXCEPT !.op = op, !.rec = rec, !.id = id]]
  /\ pc' = [pc EXCEPT ![t] = "map"]
  /\ UNCHANGED <<shmVars, objVars, acked, acks, crashes>>

BeginWrite(t) == \E r \in Records : Begin(t, "write", r, Empty)
BeginRead(t)  == \E d \in Ids : Begin(t, "read", Empty, d)

Return(t) ==
  /\ pc' = [pc EXCEPT ![t] = "idle"]
  /\ call' = [call EXCEPT ![t] = NoCall]

\* The process stops; its threads' calls go no further and its object is gone.
\* The segment stays.
End(p) ==
  /\ pc' = [t \in Threads |-> IF ProcOf[t] = p THEN "idle" ELSE pc[t]]
  /\ call' = [t \in Threads |-> IF ProcOf[t] = p THEN NoCall ELSE call[t]]
  /\ ctor' = [ctor EXCEPT ![p] = "down"]
  /\ shmID' = [shmID EXCEPT ![p] = FALSE]
  /\ addr' = [addr EXCEPT ![p] = "null"]

\* Mutant: the loops start at node 1.
MappedFromOne(t) ==
  LET p == ProcOf[t] IN
  /\ pc[t] = "map"
  /\ addr[p] = "mapped" \/ (addr[p] = "null" /\ shmID[p])
  /\ addr' = [addr EXCEPT ![p] = "mapped"]
  /\ call' = [call EXCEPT ![t].lim = total, ![t].i = 1]
  /\ pc' = [pc EXCEPT ![t] = "scan"]
  /\ UNCHANGED <<shmVars, shmID, ctor, acked, acks, crashes>>

\* mapShm returns an address; the call reads total and starts at node 0.
Mapped(t) ==
  LET p == ProcOf[t] IN
  /\ pc[t] = "map"
  /\ addr[p] = "mapped" \/ (addr[p] = "null" /\ shmID[p])
  /\ addr' = [addr EXCEPT ![p] = "mapped"]
  /\ call' = [call EXCEPT ![t].lim = total]
  /\ pc' = [pc EXCEPT ![t] = "scan"]
  /\ UNCHANGED <<shmVars, shmID, ctor, acked, acks, crashes>>

\* shmat fails and stores (void*)-1 in the object the threads share ...
AttachFails(t) ==
  LET p == ProcOf[t] IN
  /\ pc[t] = "map" /\ addr[p] = "null" /\ ~shmID[p]
  /\ addr' = [addr EXCEPT ![p] = "bad"]
  /\ pc' = [pc EXCEPT ![t] = "mapFailed"]
  /\ UNCHANGED <<shmVars, shmID, ctor, call, acked, acks, crashes>>

\* ... which the next lines of mapShm take back; the call returns -1.
ResetAddr(t) ==
  /\ pc[t] = "mapFailed"
  /\ addr' = [addr EXCEPT ![ProcOf[t]] = "null"]
  /\ Return(t)
  /\ UNCHANGED <<shmVars, shmID, ctor, acked, acks, crashes>>

\* A thread that maps in between is given (void*)-1 and faults on it.
Fault(t) ==
  /\ pc[t] = "map" /\ addr[ProcOf[t]] = "bad"
  /\ End(ProcOf[t])
  /\ UNCHANGED <<shmVars, acked, acks, crashes>>

-----------------------------------------------------------------------------
(* shmWrite: the first node with status 0, memcpy, pInt[1]++.              *)

ScanUsed(t) ==
  /\ pc[t] = "scan" /\ call[t].op = "write"
  /\ call[t].i < call[t].lim /\ Used(call[t].i)
  /\ call' = [call EXCEPT ![t].i = @ + 1]
  /\ UNCHANGED <<shmVars, objVars, pc, acked, acks, crashes>>

\* Mutant: the status is not tested.
ScanFreeUntested(t) ==
  /\ pc[t] = "scan" /\ call[t].op = "write" /\ call[t].i < call[t].lim
  /\ call' = [call EXCEPT ![t].todo = Chunks]
  /\ pc' = [pc EXCEPT ![t] = "copy"]
  /\ UNCHANGED <<shmVars, objVars, acked, acks, crashes>>

ScanFree(t) ==
  /\ pc[t] = "scan" /\ call[t].op = "write"
  /\ call[t].i < call[t].lim /\ ~Used(call[t].i)
  /\ call' = [call EXCEPT ![t].todo = Chunks]
  /\ pc' = [pc EXCEPT ![t] = "copy"]
  /\ UNCHANGED <<shmVars, objVars, acked, acks, crashes>>

\* memcpy of one chunk; the compiler and libc choose the order.
CopyChunk(t) ==
  /\ pc[t] = "copy"
  /\ \E c \in call[t].todo :
       /\ node' = [node EXCEPT ![call[t].i][c] = call[t].rec]
       /\ call' = [call EXCEPT ![t].todo = @ \ {c}]
  /\ UNCHANGED <<cap, total, useNum, objVars, pc, acked, acks, crashes>>

\* pInt[1]++ is a load ...
LoadUseNum(t) ==
  /\ pc[t] = "copy" /\ call[t].todo = {}
  /\ call' = [call EXCEPT ![t].reg = useNum]
  /\ pc' = [pc EXCEPT ![t] = "store"]
  /\ UNCHANGED <<shmVars, objVars, acked, acks, crashes>>

StoreCount(t, v) ==
  /\ pc[t] = "store"
  /\ useNum' = v
  /\ acked' = acked \cup {[slot |-> call[t].i, rec |-> call[t].rec]}
  /\ acks' = acks + 1
  /\ Return(t)
  /\ UNCHANGED <<cap, total, node, objVars, crashes>>

\* Mutants: the write counts as minus one, as two, or not at all.
StoreUseNumDown(t)  == StoreCount(t, call[t].reg - 1)
StoreUseNumTwice(t) == StoreCount(t, call[t].reg + 2)
StoreUseNumNot(t)   == StoreCount(t, useNum)

\* ... and a store; the call returns 0.
StoreUseNum(t) == StoreCount(t, call[t].reg + 1)

-----------------------------------------------------------------------------
(* shmRead: the first used node of the pair, memcpy out.                   *)

Matches(t) == LET n == node[call[t].i] IN
              n["head"] # Empty /\ IdOf[n["head"]] = call[t].id

ReadSkip(t) ==
  /\ pc[t] = "scan" /\ call[t].op = "read"
  /\ call[t].i < call[t].lim /\ ~Matches(t)
  /\ call' = [call EXCEPT ![t].i = @ + 1]
  /\ UNCHANGED <<shmVars, objVars, pc, acked, acks, crashes>>

\* Mutant: the pair is not compared.
ReadMatchAnyPair(t) ==
  /\ pc[t] = "scan" /\ call[t].op = "read"
  /\ call[t].i < call[t].lim /\ Used(call[t].i)
  /\ call' = [call EXCEPT ![t].todo = Chunks]
  /\ pc' = [pc EXCEPT ![t] = "copyOut"]
  /\ UNCHANGED <<shmVars, objVars, acked, acks, crashes>>

ReadMatch(t) ==
  /\ pc[t] = "scan" /\ call[t].op = "read"
  /\ call[t].i < call[t].lim /\ Matches(t)
  /\ call' = [call EXCEPT ![t].todo = Chunks]
  /\ pc' = [pc EXCEPT ![t] = "copyOut"]
  /\ UNCHANGED <<shmVars, objVars, acked, acks, crashes>>

ReadChunk(t) ==
  /\ pc[t] = "copyOut"
  /\ \E c \in call[t].todo :
       call' = [call EXCEPT ![t].got[c] = node[call[t].i][c], ![t].todo = @ \ {c}]
  /\ UNCHANGED <<shmVars, objVars, pc, acked, acks, crashes>>

\* return 0 with the node copied out
ReadDone(t) ==
  /\ pc[t] = "copyOut" /\ call[t].todo = {}
  /\ Return(t)
  /\ UNCHANGED <<shmVars, objVars, acked, acks, crashes>>

\* The loop of shmWrite or shmRead ran out of nodes: return -1.
NotFound(t) ==
  /\ pc[t] = "scan" /\ call[t].i >= call[t].lim
  /\ Return(t)
  /\ UNCHANGED <<shmVars, objVars, acked, acks, crashes>>

-----------------------------------------------------------------------------
\* The object is deleted between calls, as when a client leaves its menu;
\* unmapShm gives the mapping back.  A process started again constructs anew.
Destroy(p) ==
  /\ Running(p) /\ \A t \in Threads : ProcOf[t] = p => pc[t] = "idle"
  /\ End(p)
  /\ UNCHANGED <<shmVars, acked, acks, crashes>>

\* A process is killed from outside, at any point.
Crash(p) ==
  /\ ctor[p] # "down" /\ crashes < MaxCrashes
  /\ End(p)
  /\ crashes' = crashes + 1
  /\ UNCHANGED <<shmVars, acked, acks>>

Construct(p) == Open(p) \/ Create(p) \/ CheckHeader(p) \/ SetTotal(p) \/ SetUse(p)
Map(t)   == Mapped(t) \/ AttachFails(t) \/ ResetAddr(t) \/ Fault(t)
Write(t) == ScanUsed(t) \/ ScanFree(t) \/ CopyChunk(t) \/ LoadUseNum(t) \/ StoreUseNum(t)
Read(t)  == ReadSkip(t) \/ ReadMatch(t) \/ ReadChunk(t) \/ ReadDone(t)
Step(t)  == Map(t) \/ Write(t) \/ Read(t) \/ NotFound(t)

Next ==
  \/ \E p \in Procs : Construct(p) \/ Destroy(p) \/ Crash(p)
  \/ \E t \in Threads : BeginWrite(t) \/ BeginRead(t) \/ Step(t)

Spec == Init /\ [][Next]_vars

-----------------------------------------------------------------------------
(* Properties.                                                             *)

Call == [op : {"none", "write", "read"}, rec : Records \cup {Empty},
         id : Ids \cup {Empty}, i : Nat, lim : Nat, todo : SUBSET Chunks,
         reg : Nat, got : Node]

\* Types of the segment, of the objects and of the calls.
TypeOK ==
  /\ cap \in 0..MaxNodes /\ total \in Nat /\ useNum \in Nat
  /\ node \in [Slots -> Node]
  /\ shmID \in [Procs -> BOOLEAN]
  /\ addr \in [Procs -> {"null", "bad", "mapped"}]
  /\ ctor \in [Procs -> {"down", "check", "setTotal", "setUse", "ready"}]
  /\ pc \in [Threads -> {"idle", "map", "mapFailed", "scan", "copy", "store", "copyOut"}]
  /\ call \in [Threads -> Call]
  /\ acked \in SUBSET [slot : Slots, rec : Records]
  /\ acks \in Nat
  /\ crashes \in Nat

\* total never promises more nodes than the kernel gave the segment, and no
\* call touches a node outside it, whichever processes race to build the
\* header (SecKeyShm.cpp:24-28, ShareMemory.cpp:12-16).
WithinSegment ==
  /\ total <= cap
  /\ \A t \in Threads : pc[t] \in {"copy", "store", "copyOut"} => call[t].i < cap

\* The used nodes are a prefix of the array, even with racing writers: a
\* writer reaches node i only past used nodes and no node is ever freed
\* (SecKeyShm.cpp:76-84).  A used node beyond a gap could never be preceded
\* by a newer one, so the first match of shmRead would not be the oldest.
PrefixUsed == \A i \in Slots : Used(i) => \A j \in 0..i : Used(j)

\* useNum never counts a write that did not succeed (SecKeyShm.cpp:81, and
\* the reset at :27): racing increments and a late reset lose counts, they
\* never invent one.
CountsOnlyAcked == useNum <= acks

NumUsed == Cardinality({i \in Slots : Used(i)})

\* When no call runs, useNum is the number of used nodes, up to one write per
\* killed process: the kill may fall between memcpy and pInt[1]++
\* (SecKeyShm.cpp:80-81).
CountLagsByCrashes ==
  (Exclusive /\ Quiet) => useNum <= NumUsed /\ NumUsed <= useNum + crashes

\* A write that returned 0 keeps its node, whole, for ever: no other write is
\* given that node, and no half of it is overwritten (SecKeyShm.cpp:76-84).
AckedKept ==
  Exclusive => \A a \in acked : \A c \in Chunks : node[a.slot][c] = a.rec

\* shmRead returns the oldest record of the pair and misses none that was
\* written (SecKeyShm.cpp:100-110); without a crash it returns it whole.
ReadsOldest ==
  Exclusive => \A t \in Threads : call[t].op = "read" =>
    LET mine == {a \in acked : IdOf[a.rec] = call[t].id} IN
    /\ (pc[t] = "scan" /\ call[t].i >= call[t].lim) => mine = {}
    /\ (pc[t] = "copyOut" /\ call[t].todo = {}) =>
         /\ \A a \in mine : call[t].i <= a.slot
         /\ crashes = 0 => /\ Intact(call[t].got)
                           /\ [slot |-> call[t].i, rec |-> call[t].got["head"]] \in mine

\* Once the header is built it stays: a later constructor neither resizes the
\* table nor clears its count (SecKeyShm.cpp:24, "only on first creation").
HeaderKept == [][Exclusive /\ total > 0 => total' = total /\ useNum' >= useNum]_vars

\* Without overlapping calls the segment is a KeyTable: its nodes are filled
\* once, in order, whatever process is killed at whatever point
\* (SecKeyShm.cpp:59-86).
Table == INSTANCE KeyTable WITH cells <- [i \in Slots |-> node[i]["head"]]
TableSpec == Table!Spec
=============================================================================
