---------------------------- MODULE SequenceASN1 ----------------------------
(***************************************************************************)
(* One message on its way through two codec objects: the sender's writes   *)
(* the five fields as nodes of a list and packs it, the receiver's unpacks *)
(* the bytes and reads the fields, in the same order, into the message     *)
(* structure.  Every return value on this way is ignored by the code: a    *)
(* step that goes on with the pointer of a node that was not made ends in  *)
(* "fault".                                                                *)
(*                                                                         *)
(* mem is the receiver's structure, byte by byte.  An integer is read      *)
(* through a pointer to unsigned long, so the store has the width of long, *)
(* not of the field.                                                       *)
(***************************************************************************)
EXTENDS BaseASN1, FiniteSets

CONSTANTS
  Messages,  \* what is sent: [kind, fields], an int as <<v>>, a string without its \0
  Widths     \* bytes of unsigned long: 4 or 8

(* The fields of the two messages in order: bytes of the member, and which are int. *)
Size == [request |-> <<4, 12, 65, 12, 64>>, respond |-> <<4, 12, 12, 64, 4>>]
Ints == [request |-> {1}, respond |-> {1, 5}]

(* Where the members begin; there are no gaps between them. *)
Begin == [request |-> <<0, 4, 16, 81, 93>>, respond |-> <<0, 4, 16, 28, 92>>]

Int32 == {v \in Int : -2147483647 - 1 <= v /\ v <= 2147483647}

(* The strings end within their members. *)
ASSUME CodecAssumption ==
  /\ Widths \subseteq {4, 8}
  /\ \A m \in Messages :
       /\ m.kind \in {"request", "respond"}
       /\ DOMAIN m.fields = 1..5
       /\ \A i \in 1..5 :
            IF i \in Ints[m.kind]
            THEN m.fields[i] \in Seq(Int32) /\ Len(m.fields[i]) = 1
            ELSE m.fields[i] \in Seq(1..255) /\ Len(m.fields[i]) < Size[m.kind][i]

VARIABLES
  msg,     \* the message
  width,   \* the bytes of long, on both ends
  pc,      \* "write", "wire", "read", "done" or "fault"
  at,      \* fields written or read
  header,  \* m_header: the list
  next,    \* m_next: a position in the list; 0: NULL
  data,    \* the bytes between the two
  mem      \* the receiver's message structure

vars == <<msg, width, pc, at, header, next, data, mem>>

Fields(k) == DOMAIN Size[k]
IsInt(i)  == i \in Ints[msg.kind]
Offset(i) == Begin[msg.kind][i]

(* A store of bytes at a member. *)
Store(i, bytes) ==
  [a \in DOMAIN mem |-> IF a - Offset(i) \in DOMAIN bytes THEN bytes[a - Offset(i)] ELSE mem[a]]

Zeros == [a \in 1..(Offset(5) + Size[msg.kind][5] + width) |-> 0]

Init ==
  /\ msg \in Messages
  /\ width \in Widths
  /\ pc = "write" /\ at = 0
  /\ header = NoList /\ next = 0
  /\ data = <<>>
  /\ mem = Zeros

(* The node of the next field; a string goes with its \0. *)
NodeOf(i) ==
  IF IsInt(i) THEN WriteInteger(Word(msg.fields[i][1], width))
              ELSE WritePrintableString(Append(msg.fields[i], 0))

\* Mutant: the cursor is set as if the node had been made.
WriteHeadNodeAlways ==
  /\ pc = "write" /\ at = 0
  /\ header' = IF NodeOf(1) = NoNode THEN NoList ELSE <<NodeOf(1)>>
  /\ next' = 1
  /\ at' = 1
  /\ UNCHANGED <<msg, width, pc, data, mem>>

WriteHeadNode ==
  /\ pc = "write" /\ at = 0
  /\ header' = IF NodeOf(1) = NoNode THEN NoList ELSE <<NodeOf(1)>>
  /\ next' = Len(header')
  /\ at' = 1
  /\ UNCHANGED <<msg, width, pc, data, mem>>

WriteNextNode ==
  /\ pc = "write" /\ at \in 1..4 /\ next # 0
  /\ IF NodeOf(at + 1) = NoNode
     THEN next' = 0 /\ UNCHANGED header
     ELSE header' = Append(header, NodeOf(at + 1)) /\ next' = Len(header')
  /\ at' = at + 1
  /\ UNCHANGED <<msg, width, pc, data, mem>>

(* The list is freed; the bytes go to the caller and over the connection. *)
PackSequence ==
  /\ pc = "write" /\ at = 5
  /\ data' = WriteSequence(header)
  /\ header' = NoList /\ next' = 0
  /\ pc' = "wire"
  /\ UNCHANGED <<msg, width, at, mem>>

UnpackSequence ==
  /\ pc = "wire"
  /\ header' = ReadSequence(data)
  /\ next' = Len(SubSeq(header', 1, 1))
  /\ pc' = "read" /\ at' = 0
  /\ UNCHANGED <<msg, width, data, mem>>

Little(word) == Reverse(word)

ReadField(node) ==
  Store(at + 1, IF IsInt(at + 1) THEN Little(ReadInteger(node, width))
                                 ELSE ReadPrintableString(node))

(* The cursor moves on, past the last node to NULL. *)
ReadNode ==
  /\ pc = "read" /\ next # 0
  /\ ~IsInt(at + 1) => ReadPrintableString(header[next]) # NoNode
  /\ mem' = ReadField(header[next])
  /\ next' = IF next < Len(header) THEN next + 1 ELSE 0
  /\ at' = at + 1
  /\ pc' = IF at' = 5 THEN "done" ELSE "read"
  /\ UNCHANGED <<msg, width, header, data>>

(* m_next, m_header or m_temp is NULL and followed. *)
Follow ==
  /\ IF pc = "write" THEN at \in 1..4 /\ next = 0
     ELSE pc = "read" /\ (next # 0 => ~IsInt(at + 1) /\ ReadPrintableString(header[next]) = NoNode)
  /\ pc' = "fault"
  /\ UNCHANGED <<msg, width, at, header, next, data, mem>>

Next ==
  \/ WriteHeadNode \/ WriteNextNode \/ PackSequence
  \/ UnpackSequence \/ ReadNode \/ Follow

Spec == Init /\ [][Next]_vars /\ WF_vars(Next)
-----------------------------------------------------------------------------
(* Properties *)

(* The shapes of the list, the bytes and the structure. *)
TypeOK ==
  /\ msg \in Messages /\ width \in Widths
  /\ pc \in {"write", "wire", "read", "done", "fault"}
  /\ at \in 0..5
  /\ next \in 0..Len(header)
  /\ \A n \in ToSet(header) : ToSet(n) \subseteq 0..255
  /\ ToSet(data) \subseteq 0..255
  /\ DOMAIN mem = DOMAIN Zeros /\ Range(mem) \subseteq 0..255

(* When all fields are read, the receiver's structure holds the message that was
   encoded: every string with its \0, and every int although the integers are
   stored with the width of long over their neighbours (msgDecode). *)
Delivered ==
  pc = "done" =>
    \A i \in Fields(msg.kind) :
      LET sent == IF IsInt(i) THEN Little(Word(msg.fields[i][1], 4)) ELSE Append(msg.fields[i], 0)
      IN \A a \in DOMAIN sent : mem[Offset(i) + a] = sent[a]

(* Reference: DER by X.690, with the least number of octets for a length and for a
   number that must not read as negative. *)
Digits(v, n) == [i \in 1..n |-> (v \div 256^(n - i)) % 256]
Least(S) == CHOOSE n \in S : \A k \in S : n <= k
DerLength(n) == IF n < 128 THEN <<n>>
                ELSE LET k == Least({j \in 1..3 : n \div 256^j = 0}) IN <<128 + k>> \o Digits(n, k)
DerNumber(v) == Digits(v, Least({n \in 1..4 : v \div 128 < 256^(n - 1)}))
Der(tag, content) == <<tag>> \o DerLength(Len(content)) \o content
DerField(i) == IF IsInt(i) THEN Der(2, DerNumber(msg.fields[i][1]))
                           ELSE Der(19, Append(msg.fields[i], 0))

(* What packSequence hands out is the DER encoding of the message, with lengths and
   integers as short as they can be ("DER" in BaseASN1.cpp:488, :790), for every
   message without a negative number. *)
EncodingIsDer ==
  pc = "wire" /\ (\A i \in Ints[msg.kind] : msg.fields[i][1] >= 0) =>
    data = Der(48, FlattenSeq([i \in 1..5 |-> DerField(i)]))

(* Nothing but a negative number where long has 64 bits makes a codec follow a NULL
   pointer: the ignored results of the writers and readers are otherwise good. *)
FaultsOnlyOutOfRange ==
  pc = "fault" => width = 8 /\ \E i \in Ints[msg.kind] : msg.fields[i][1] < 0
=============================================================================
