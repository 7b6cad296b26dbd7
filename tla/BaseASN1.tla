------------------------------ MODULE BaseASN1 ------------------------------
(***************************************************************************)
(* The DER writers and readers of codec/BaseASN1 as far as the two         *)
(* messages of the program use them: integers, PrintableStrings and a      *)
(* sequence of those.  A byte is a number of 0..255.  An unsigned long is  *)
(* the sequence of its w bytes, most significant first, so that both       *)
(* widths of long can be told apart; a node of the message's list is its   *)
(* encoding.  What is refused gives NoNode or NoList, the pointer that     *)
(* stays NULL.                                                             *)
(***************************************************************************)
EXTENDS Integers, Sequences, SequencesExt

NoNode == <<>>
NoList == <<>>

INTEGER   == 2       \* ITCAST_DER_INTEGER
PRINTABLE == 19      \* ITCAST_DER_ID_STRING_PRINTABLE
SEQUENCE  == 48      \* ITCAST_DER_SEQUENCE, constructed
SequenceId == 16     \* ITCAST_DER_ID_SEQUENCE, its low five bits

(* v >> 8 * k, as a byte *)
Octet(v, k) == (v \div 256^k) % 256

(* The unsigned long that an int becomes when it is passed as ITCAST_UINT32. *)
Word(v, w) ==
  [i \in 1..w |-> IF w - i > 3 THEN (IF v < 0 THEN 255 ELSE 0) ELSE Octet(v, w - i)]

Number(bytes) ==
  LET shifted[i \in 0..Len(bytes)] == IF i = 0 THEN 0 ELSE 256 * shifted[i - 1] + bytes[i]
  IN shifted[Len(bytes)]

-----------------------------------------------------------------------------
(* Writers *)

Significant(word) ==
  LET first == CHOOSE i \in DOMAIN word : /\ word[i] # 0 \/ i = Len(word)
                                          /\ \A j \in 1..(i - 1) : word[j] = 0
  IN SubSeq(word, first, Len(word))

\* Mutant: a number whose first byte has the high bit goes without the zero.
IntToCharSigned(word) ==
  LET s == Significant(word) IN IF Len(s) > 4 THEN NoNode ELSE s

(* At most four bytes, after a zero when the first would read as a sign. *)
IntToChar(word) ==
  LET s == Significant(word)
  IN IF Len(s) > 4 THEN NoNode ELSE IF s[1] >= 128 THEN <<0>> \o s ELSE s

(* One byte below 128, else a count of bytes and those bytes; 65535 has an
   octet more than it needs. *)
CountLengthOfSize(n) ==
  CASE n <= 127                  -> 1
    [] 127 < n /\ n <= 255       -> 2
    [] 255 < n /\ n < 65535      -> 3
    [] 65535 <= n /\ n <= 16777215 -> 4
    [] 16777215 < n              -> 5

LengthOctets(n) ==
  LET k == CountLengthOfSize(n) - 1
  IN IF k = 0 THEN <<n>> ELSE <<128 + k>> \o [i \in 1..k |-> Octet(n, k - i)]

WriteTagAndLength(tag, content) == <<tag>> \o LengthOctets(Len(content)) \o content

WriteInteger(word) ==
  LET c == IntToChar(word)
  IN IF c = NoNode THEN NoNode ELSE <<INTEGER, Len(c)>> \o c

WritePrintableString(s) == WriteTagAndLength(PRINTABLE, s)

WriteSequence(nodes) == WriteTagAndLength(SEQUENCE, FlattenSeq(nodes))

-----------------------------------------------------------------------------
(* Readers; p is the position they read at *)

(* The tag's value; the tags of several bytes (low bits 31) are not met. *)
GetTagInfo(b) == IF b >= 128 THEN b ELSE b % 32

(* The length, the bytes that held it, and where the content begins.  A count
   of 0 still reads one byte. *)
GetLengthInfo(data, p) ==
  LET b == data[p]
      n == b - 128
      k == IF n = 0 THEN 1 ELSE n
  IN IF b < 128 THEN [value |-> b, size |-> 1, at |-> p + 1]
                ELSE [value |-> Number(SubSeq(data, p + 1, p + k)), size |-> n + 1,
                      at |-> p + 1 + k]

LengthRefused(data, p) == data[p] > 128 + 4

\* Mutant: the bytes are not shifted.
CharToIntUnshifted(data, w) == [i \in 1..w |-> IF i = w THEN data[Len(data)] ELSE 0]

(* A leading zero is dropped and the rest shifted into the word, which keeps the
   last w bytes. *)
CharToInt(data, w) ==
  LET d == IF data[1] = 0 /\ Len(data) > 1 THEN Tail(data) ELSE data
  IN [i \in 1..w |-> IF Len(d) - w + i >= 1 THEN d[Len(d) - w + i] ELSE 0]

ReadInteger(node, w) ==
  LET len == GetLengthInfo(node, 2)
  IN CharToInt(SubSeq(node, len.at, len.at + len.value - 1), w)

\* Mutant: the tag's byte is not counted in the total.
ReadTagAndLengthShort(node) ==
  LET len == GetLengthInfo(node, 2)
  IN IF LengthRefused(node, 2) \/ len.size + len.value # Len(node)
     THEN NoNode
     ELSE SubSeq(node, len.at, len.at + len.value - 1)

(* The content, when the lengths of the node agree.  Only strings are read this way:
   the cases of integers and bit strings are not met. *)
ReadTagAndLength(node) ==
  LET len == GetLengthInfo(node, 2)
  IN IF LengthRefused(node, 2) \/ 1 + len.size + len.value # Len(node)
     THEN NoNode
     ELSE SubSeq(node, len.at, len.at + len.value - 1)

ReadPrintableString(node) == ReadTagAndLength(node)

(* Where the node at p ends, by its own length. *)
After(data, p) == GetLengthInfo(data, p + 1).at + GetLengthInfo(data, p + 1).value

(* The nodes from p on, each cut out by its own length; one that does not end
   within the data leaves NoNode. *)
Nodes(data, from) ==
  LET end == Len(data) + 1
      cut[p \in 1..end] ==
        IF p = end THEN NoList
        ELSE IF LengthRefused(data, p + 1) \/ After(data, p) \notin (p + 1)..end THEN <<NoNode>>
        ELSE <<SubSeq(data, p, After(data, p) - 1)>> \o cut[After(data, p)]
  IN cut[from]

ReadSequence(data) ==
  LET len == GetLengthInfo(data, 2)
  IN IF \/ GetTagInfo(data[1]) # SequenceId
        \/ LengthRefused(data, 2)
        \/ 1 + len.size + len.value # Len(data)
        \/ Contains(Nodes(data, len.at), NoNode)
     THEN NoList ELSE Nodes(data, len.at)
=============================================================================
