------------------------- MODULE SequenceASN1Proofs -------------------------
(***************************************************************************)
(* A message that two codecs pass on arrives, in DER, and no codec follows *)
(* a NULL pointer but for a negative number where long has eight bytes:    *)
(* for every set of messages with strings that end within their members,   *)
(* and both widths of long.                                                *)
(*                                                                         *)
(* The invariant, CodecInv, says what the list, the bytes and the          *)
(* structure hold at each point of the way: the nodes of the fields        *)
(* written, their sequence, the same nodes again, and the fields read.  It *)
(* needs the round trips of BaseASN1Proofs.  Before it come the lemmas     *)
(* that the octets written are those of X.690.                             *)
(***************************************************************************)
EXTENDS SequenceASN1, BaseASN1Proofs

\* The sizes below 65535 have the least number of octets for their length, as
\* X.690 wants it.
Short == {n \in Nat : n < 65535}

\* The code needs one or two octets for a size from 128 on.
LEMMA ShortCount ==
  ASSUME NEW n \in Short, ~(n < 128)
  PROVE  CountLengthOfSize(n) - 1 = IF n < 256 THEN 1 ELSE 2
<1>1. CASE n < 256
  <2>1. CountLengthOfSize(n) = 2
    BY <1>1, SMT DEF CountLengthOfSize, Short
  <2> QED BY <1>1, <2>1, SMT
<1>2. CASE ~(n < 256)
  <2>1. CountLengthOfSize(n) = 3
    BY <1>2, SMT DEF CountLengthOfSize, Short
  <2> QED BY <1>2, <2>1, SMT
<1> QED BY <1>1, <1>2, Zenon

\* These are the fewest.
LEMMA ShortLeast ==
  ASSUME NEW n \in Short, ~(n < 128)
  PROVE  Least({j \in 1..3 : n \div 256^j = 0}) = IF n < 256 THEN 1 ELSE 2
<1> DEFINE J == {j \in 1..3 : n \div 256^j = 0}
           k == IF n < 256 THEN 1 ELSE 2
<1>1. n \div 256^1 = 0 <=> n < 256
  <2>1. 256^1 = 256 /\ n \in Nat
    BY SMT DEF Short
  <2>2. n \div 256 = 0 <=> n < 256
    BY <2>1, SMT
  <2> QED BY <2>1, <2>2, SMT
<1>2. n \div 256^2 = 0
  <2>1. 256^2 = 65536
    BY SMT
  <2>2. n \div 65536 = 0
    BY SMT DEF Short
  <2> QED BY <2>1, <2>2, SMT
<1>3. 1 \in J <=> n < 256
  BY <1>1, SMT
<1>4. 2 \in J
  BY <1>2, SMT
<1>5. J \subseteq 1..3
  BY SMT
<1> HIDE DEF J
<1>6. \E i \in J : i = k /\ \A j \in J : i <= j
  BY <1>3, <1>4, <1>5, SMT
<1>7. \A i \in J : (\A j \in J : i <= j) => i = k
  BY <1>3, <1>4, <1>5, SMT
<1> HIDE DEF k
<1>8. Least(J) = k
  BY <1>6, <1>7, SMT DEF Least
<1> QED BY <1>8, Zenon DEF J, k

\* The octets of such a length are those of X.690.
LEMMA LengthIsDer ==
  ASSUME NEW n \in Short
  PROVE  LengthOctets(n) = DerLength(n)
<1>1. CASE n < 128
  <2>1. LengthOctets(n) = <<n>>
    <3>1. n \in Nat
      BY SMT DEF Short
    <3> QED BY <1>1, <3>1, LengthOctetsType, Zenon
  <2> QED BY <1>1, <2>1, Zenon DEF DerLength
<1>2. CASE ~(n < 128)
  <2> DEFINE k == CountLengthOfSize(n) - 1
             m == Least({j \in 1..3 : n \div 256^j = 0})
  <2>1. k = m
    <3>1. k = IF n < 256 THEN 1 ELSE 2
      BY <1>2, ShortCount, Zenon
    <3>2. m = IF n < 256 THEN 1 ELSE 2
      BY <1>2, ShortLeast, Zenon
    <3> HIDE DEF k, m
    <3> QED BY <3>1, <3>2
  <2>2. k # 0
    <3>1. k = IF n < 256 THEN 1 ELSE 2
      BY <1>2, ShortCount, Zenon
    <3> HIDE DEF k
    <3> QED BY <3>1, SMT
  <2>3. DerLength(n) = <<128 + m>> \o Digits(n, m)
    BY <1>2, Zenon DEF DerLength
  <2>4. LengthOctets(n) = <<128 + k>> \o [i \in 1..k |-> Octet(n, k - i)]
    BY <2>2, Zenon DEF LengthOctets
  <2> HIDE DEF k, m
  <2>5. Digits(n, k) = [i \in 1..k |-> Octet(n, k - i)]
    BY SMT DEF Digits, Octet
  <2> QED BY <2>1, <2>3, <2>4, <2>5, Zenon
<1> QED BY <1>1, <1>2, Zenon

\* So is all that is written with a tag and a length.
LEMMA TagAndLengthIsDer ==
  ASSUME NEW t, NEW c \in Seq(Byte), Len(c) \in Short
  PROVE  WriteTagAndLength(t, c) = Der(t, c)
<1>1. LengthOctets(Len(c)) = DerLength(Len(c))
  BY LengthIsDer, Zenon
<1> QED BY <1>1, SMT DEF WriteTagAndLength, Der

-----------------------------------------------------------------------------
\* The least element is the only one that is below all.
LEMMA LeastIs ==
  ASSUME NEW S, NEW n \in S, \A j \in S : n <= j, \A i \in S : (\A j \in S : i <= j) => i = n
  PROVE  Least(S) = n
BY DEF Least

\* The octets that a number needs so as not to read as negative.
LEMMA OctetsNeeded ==
  ASSUME NEW v \in Nat, NEW n \in 1..4,
         v < 128 * 256^(n - 1), n > 1 => v >= 128 * 256^(n - 2)
  PROVE  Least({m \in 1..4 : v \div 128 < 256^(m - 1)}) = n
<1> DEFINE J == {m \in 1..4 : v \div 128 < 256^(m - 1)}
<1>1. 256^0 = 1 /\ 256^1 = 256 /\ 256^2 = 65536 /\ 256^3 = 16777216
  BY SMT
<1>2. /\ 256^(1 - 1) = 1 /\ 256^(2 - 1) = 256 /\ 256^(3 - 1) = 65536 /\ 256^(4 - 1) = 16777216
  BY <1>1, SMT
<1>3. /\ 1 \in J <=> v \div 128 < 1
      /\ 2 \in J <=> v \div 128 < 256
      /\ 3 \in J <=> v \div 128 < 65536
      /\ 4 \in J <=> v \div 128 < 16777216
  BY <1>2, SMT
<1>4. J \subseteq 1..4
  BY SMT
<1> HIDE DEF J
<1>5. /\ n = 1 => v < 128
      /\ n = 2 => v < 128 * 256 /\ v >= 128
      /\ n = 3 => v < 128 * 65536 /\ v >= 128 * 256
      /\ n = 4 => v < 128 * 16777216 /\ v >= 128 * 65536
  <2>1. CASE n = 1
    <3>1. n - 1 = 0
      BY <2>1, SMT
    <3> QED BY <1>1, <2>1, <3>1, SMT
  <2>2. CASE n = 2
    <3>1. n - 1 = 1 /\ n - 2 = 0 /\ n > 1
      BY <2>2, SMT
    <3> QED BY <1>1, <2>2, <3>1, SMT
  <2>3. CASE n = 3
    <3>1. n - 1 = 2 /\ n - 2 = 1 /\ n > 1
      BY <2>3, SMT
    <3> QED BY <1>1, <2>3, <3>1, SMT
  <2>4. CASE n = 4
    <3>1. n - 1 = 3 /\ n - 2 = 2 /\ n > 1
      BY <2>4, SMT
    <3> QED BY <1>1, <2>4, <3>1, SMT
  <2> QED BY <2>1, <2>2, <2>3, <2>4, SMT
<1>6. n \in J /\ \A j \in J : n <= j
  <2>1. CASE n = 1
    BY <1>3, <1>4, <1>5, <2>1, SMT
  <2>2. CASE n = 2
    BY <1>3, <1>4, <1>5, <2>2, SMT
  <2>3. CASE n = 3
    BY <1>3, <1>4, <1>5, <2>3, SMT
  <2>4. CASE n = 4
    BY <1>3, <1>4, <1>5, <2>4, SMT
  <2> QED BY <2>1, <2>2, <2>3, <2>4, SMT
<1>7. \A i \in J : (\A j \in J : i <= j) => i = n
  BY <1>4, <1>6, SMT
<1>8. Least(J) = n
  BY <1>6, <1>7, LeastIs, Zenon
<1> QED BY <1>8, Zenon DEF J

\* What an int that is not negative can be.
Positive == {v \in Nat : v < 128 * (256 * (256 * 256))}

\* l octets hold the number; it has one more when the first would read as a sign.
LEMMA NumberSize ==
  ASSUME NEW v \in Positive, NEW l \in 1..4,
         \A k \in l..3 : Octet(v, k) = 0, Octet(v, l - 1) # 0 \/ l = 1,
         NEW n, n = IF Octet(v, l - 1) >= 128 THEN l + 1 ELSE l
  PROVE  /\ n \in 1..4
         /\ v < 128 * 256^(n - 1)
         /\ n > 1 => v >= 128 * 256^(n - 2)
<1> DEFINE o0 == Octet(v, 0)
           o1 == Octet(v, 1)
           o2 == Octet(v, 2)
           o3 == Octet(v, 3)
           Fits(m) == /\ m \in 1..4
                      /\ v < 128 * 256^(m - 1)
                      /\ m > 1 => v >= 128 * 256^(m - 2)
<1> SUFFICES Fits(n)
  BY Zenon
<1>0. /\ v < 128 => Fits(1)
      /\ v < 128 * 256 /\ v >= 128 => Fits(2)
      /\ v < 128 * 65536 /\ v >= 128 * 256 => Fits(3)
      /\ v < 128 * 16777216 /\ v >= 128 * 65536 => Fits(4)
  <2>1. 256^0 = 1 /\ 256^1 = 256 /\ 256^2 = 65536 /\ 256^3 = 16777216
    BY SMT
  <2>2. /\ 1 - 1 = 0 /\ 2 - 1 = 1 /\ 2 - 2 = 0 /\ 3 - 1 = 2 /\ 3 - 2 = 1
        /\ 4 - 1 = 3 /\ 4 - 2 = 2
    BY SMT
  <2> QED BY <2>1, <2>2, SMT
<1> HIDE DEF Fits
<1>1. o0 \in 0..255 /\ o1 \in 0..255 /\ o2 \in 0..255 /\ o3 \in 0..255
  <2>1. v \in Int /\ 0 \in 0..3 /\ 1 \in 0..3 /\ 2 \in 0..3 /\ 3 \in 0..3
    BY SMT DEF Positive
  <2>2. \A k \in 0..3 : Octet(v, k) \in Byte
    BY <2>1, Octets, Zenon
  <2> QED BY <2>1, <2>2, Zenon DEF Byte
<1>2. v = 256 * (256 * (256 * o3 + o2) + o1) + o0
  <2>1. v \in Nat /\ v < 256 * (256 * (256 * 256))
    BY SMT DEF Positive
  <2> QED BY <2>1, OctetsOfLess, Zenon
<1>3. /\ 256^0 = 1 /\ 256^1 = 256 /\ 256^2 = 65536 /\ 256^3 = 16777216
      /\ v < 128 * 16777216
  BY SMT DEF Positive
<1>4. /\ l = 1 => o1 = 0 /\ o2 = 0 /\ o3 = 0
      /\ l = 2 => o2 = 0 /\ o3 = 0 /\ o1 # 0
      /\ l = 3 => o3 = 0 /\ o2 # 0
      /\ l = 4 => o3 # 0
  <2>1. 1 \in l..3 <=> l = 1
    BY SMT
  <2>2. 2 \in l..3 <=> l = 1 \/ l = 2
    BY SMT
  <2>3. 3 \in l..3 <=> l # 4
    BY SMT
  <2>4. (l = 2 => l - 1 = 1) /\ (l = 3 => l - 1 = 2) /\ (l = 4 => l - 1 = 3)
    BY SMT
  <2>5. 1 # 2 /\ 1 # 3 /\ 1 # 4 /\ 2 # 3 /\ 2 # 4 /\ 3 # 4
    BY SMT
  <2> QED BY <2>1, <2>2, <2>3, <2>4, <2>5, Zenon
<1>5. CASE l = 1
  <2>1. n = IF o0 >= 128 THEN 2 ELSE 1
    <3>1. l - 1 = 0 /\ l + 1 = 2
      BY <1>5, SMT
    <3> QED BY <1>5, <3>1, Zenon
  <2> HIDE DEF o0, o1, o2, o3
  <2>3. CASE n = 2
    <3>1. v < 128 * 256 /\ v >= 128
      BY <1>1, <1>2, <1>4, <1>5, <2>1, <2>3, SMT
    <3> QED BY <1>0, <2>3, <3>1, SMT
  <2>4. CASE n = 1
    <3>1. v < 128
      BY <1>1, <1>2, <1>4, <1>5, <2>1, <2>4, SMT
    <3> QED BY <1>0, <2>4, <3>1, SMT
  <2> QED BY <2>1, <2>3, <2>4, Zenon
<1>6. CASE l = 2
  <2>1. n = IF o1 >= 128 THEN 3 ELSE 2
    <3>1. l - 1 = 1 /\ l + 1 = 3
      BY <1>6, SMT
    <3> QED BY <1>6, <3>1, Zenon
  <2> HIDE DEF o0, o1, o2, o3
  <2>3. CASE n = 3
    <3>1. v < 128 * 65536 /\ v >= 128 * 256
      BY <1>1, <1>2, <1>4, <1>6, <2>1, <2>3, SMT
    <3> QED BY <1>0, <2>3, <3>1, SMT
  <2>4. CASE n = 2
    <3>1. v < 128 * 256 /\ v >= 128
      BY <1>1, <1>2, <1>4, <1>6, <2>1, <2>4, SMT
    <3> QED BY <1>0, <2>4, <3>1, SMT
  <2> QED BY <2>1, <2>3, <2>4, Zenon
<1>7. CASE l = 3
  <2>1. n = IF o2 >= 128 THEN 4 ELSE 3
    <3>1. l - 1 = 2 /\ l + 1 = 4
      BY <1>7, SMT
    <3> QED BY <1>7, <3>1, Zenon
  <2> HIDE DEF o0, o1, o2, o3
  <2>3. CASE n = 4
    <3>1. v < 128 * 16777216 /\ v >= 128 * 65536
      BY <1>1, <1>2, <1>3, <1>4, <1>7, <2>1, <2>3, SMT
    <3> QED BY <1>0, <2>3, <3>1, SMT
  <2>4. CASE n = 3
    <3>1. v < 128 * 65536 /\ v >= 128 * 256
      BY <1>1, <1>2, <1>4, <1>7, <2>1, <2>4, SMT
    <3> QED BY <1>0, <2>4, <3>1, SMT
  <2> QED BY <2>1, <2>3, <2>4, Zenon
<1>8. CASE l = 4
  <2>1. n = IF o3 >= 128 THEN 5 ELSE 4
    <3>1. l - 1 = 3 /\ l + 1 = 5
      BY <1>8, SMT
    <3> QED BY <1>8, <3>1, Zenon
  <2> HIDE DEF o0, o1, o2, o3
  <2>3. n = 4
    BY <1>1, <1>2, <1>3, <2>1, SMT
  <2>4. v < 128 * 16777216 /\ v >= 128 * 65536
    BY <1>1, <1>2, <1>3, <1>4, <1>8, SMT
  <2> QED BY <1>0, <2>3, <2>4, SMT
<1> QED BY <1>5, <1>6, <1>7, <1>8, SMT

\* An int that is not negative is written as X.690 wants it.
LEMMA IntegerIsDer ==
  ASSUME NEW v \in Positive, NEW w \in {4, 8}
  PROVE  WriteInteger(Word(v, w)) = Der(2, DerNumber(v))
<1> DEFINE x == Word(v, w)
           S(f) == SubSeq(x, f, w)
           C(f) == IF x[f] >= 128 THEN <<0>> \o S(f) ELSE S(f)
<1>1. v \in Int /\ ~(v < 0)
  BY SMT DEF Positive
<1>2. w \in Nat \ {0}
  BY SMT
<1>3. /\ x \in [1..w -> Byte]
      /\ \A i \in (w - 3)..w : x[i] = Octet(v, w - i)
      /\ w = 8 => \A i \in 1..4 : x[i] = 0
  BY <1>1, WordIs, Zenon
<1>4. WriteInteger(x) # NoNode
  BY <1>1, IntegerWritten, Zenon
<1> HIDE DEF x
<1>5. PICK f \in 1..w :
           /\ x[f] # 0 \/ f = w
           /\ \A j \in 1..(f - 1) : x[j] = 0
           /\ w - f + 1 <= 4
           /\ IntToChar(x) = C(f)
           /\ C(f) \in Seq(Byte) /\ Len(C(f)) \in 1..5
           /\ S(f) \in Seq(Byte) /\ Len(S(f)) = w - f + 1
           /\ \A i \in 1..(w - f + 1) : S(f)[i] = x[f + i - 1]
  <2>1. \A f \in 1..w : ~(w - f + 1 > 4) <=> w - f + 1 <= 4
    BY SMT
  <2> QED BY <1>2, <1>3, <1>4, <2>1, IntegerIs, Zenon
<1> DEFINE s == S(f)
           c == C(f)
           l == w - f + 1
           n == IF Octet(v, l - 1) >= 128 THEN l + 1 ELSE l
<1>6. /\ s \in Seq(Byte) /\ Len(s) = l /\ \A i \in 1..l : s[i] = x[f + i - 1]
      /\ c = IF x[f] >= 128 THEN <<0>> \o s ELSE s
      /\ c \in Seq(Byte) /\ Len(c) \in 1..5 /\ IntToChar(x) = c
  BY <1>5, Zenon
<1>7. l \in 1..4 /\ f \in (w - 3)..w /\ l - 1 = w - f
  BY <1>5, SMT
<1> HIDE DEF S, C, s, c
<1>8. x[f] = Octet(v, l - 1) /\ \A i \in 1..l : s[i] = Octet(v, l - i)
  <2>1. x[f] = Octet(v, l - 1)
    BY <1>3, <1>7, Zenon
  <2>2. ASSUME NEW i \in 1..l PROVE s[i] = Octet(v, l - i)
    <3>1. f + i - 1 \in (w - 3)..w /\ w - (f + i - 1) = l - i
      BY <1>7, SMT
    <3>2. x[f + i - 1] = Octet(v, w - (f + i - 1))
      BY <1>3, <3>1, Zenon
    <3> QED BY <1>6, <3>1, <3>2, Zenon
  <2> QED BY <2>1, <2>2
<1>9. \A k \in l..3 : Octet(v, k) = 0
  <2> SUFFICES ASSUME NEW k \in l..3 PROVE Octet(v, k) = 0
    BY Zenon
  <2>1. w - k \in 1..(f - 1) /\ w - k \in (w - 3)..w /\ w - (w - k) = k
    BY <1>7, SMT
  <2>2. x[w - k] = 0
    BY <1>5, <2>1, Zenon
  <2>3. x[w - k] = Octet(v, w - (w - k))
    BY <1>3, <2>1, Zenon
  <2> QED BY <2>1, <2>2, <2>3, Zenon
<1>10. Octet(v, l - 1) # 0 \/ l = 1
  <2>1. f = w => l = 1
    BY <1>7, SMT
  <2> QED BY <1>5, <1>8, <2>1, Zenon
<1>11. n \in 1..4 /\ v < 128 * 256^(n - 1) /\ (n > 1 => v >= 128 * 256^(n - 2))
  <2>1. n = IF Octet(v, l - 1) >= 128 THEN l + 1 ELSE l
    BY Zenon
  <2> HIDE DEF l, n
  <2>2. l \in 1..4
    BY <1>7, Zenon
  <2> QED BY <1>9, <1>10, <2>1, <2>2, NumberSize
<1>12. Least({m \in 1..4 : v \div 128 < 256^(m - 1)}) = n
  <2>1. v \in Nat
    BY SMT DEF Positive
  <2> HIDE DEF n
  <2> QED BY <1>11, <2>1, OctetsNeeded, Zenon
<1> DEFINE g == [i \in 1..n |-> Octet(v, n - i)]
<1>13. DerNumber(v) = g
  <2>1. DerNumber(v) = Digits(v, n)
    BY <1>12, Zenon DEF DerNumber
  <2> HIDE DEF n
  <2>2. Digits(v, n) = g
    BY SMT DEF Digits, Octet
  <2> QED BY <2>1, <2>2, Zenon
<1>14. g \in Seq(Byte) /\ Len(g) = n /\ \A i \in 1..n : g[i] = Octet(v, n - i)
  <2>1. \A k \in 0..3 : Octet(v, k) \in Byte
    BY <1>1, Octets, Zenon
  <2> HIDE DEF n
  <2>2. \A i \in 1..n : n - i \in 0..3
    BY <1>11, SMT
  <2>3. \A i \in 1..n : Octet(v, n - i) \in Byte
    BY <2>1, <2>2, Zenon
  <2>4. g \in [1..n -> Byte] /\ n \in Nat
    BY <1>11, <2>3, SMT
  <2> HIDE DEF g
  <2>5. g \in Seq(Byte) /\ Len(g) = n
    BY <2>4, SMT
  <2> QED BY <2>5, Zenon DEF g
<1>15. c = g
  <2> HIDE DEF g
  <2>1. CASE x[f] >= 128
    <3> DEFINE z == <<0>>
    <3>1. n = l + 1
      BY <1>8, <2>1, Zenon
    <3>2. z \in Seq(Byte) /\ Len(z) = 1 /\ z[1] = 0
      BY DEF Byte
    <3>3. c = z \o s
      BY <1>6, <2>1, Zenon
    <3> HIDE DEF z, l, n
    <3>4. /\ Len(c) = Len(z) + Len(s)
          /\ \A i \in 1..(Len(z) + Len(s)) : c[i] = IF i <= Len(z) THEN z[i] ELSE s[i - Len(z)]
      <4> DEFINE y == z \o s
      <4>1. /\ Len(y) = Len(z) + Len(s)
            /\ \A i \in 1..(Len(z) + Len(s)) : y[i] = IF i <= Len(z) THEN z[i] ELSE s[i - Len(z)]
        BY <1>6, <3>2, ConcatProperties
      <4> HIDE DEF y
      <4> QED BY <3>3, <4>1, Zenon DEF y
    <3>5. Len(c) = n /\ c[1] = 0 /\ g[1] = 0
      <4>1. Len(c) = n /\ c[1] = 0
        BY <1>6, <1>7, <3>1, <3>2, <3>4, SMT
      <4>2. n - 1 = l /\ l \in l..3 /\ 1 \in 1..n
        BY <1>7, <1>11, <3>1, SMT
      <4>3. g[1] = 0
        BY <1>9, <1>14, <4>2, Zenon
      <4> QED BY <4>1, <4>3, Zenon
    <3>6. ASSUME NEW i \in 2..n PROVE c[i] = g[i]
      <4>1. /\ i \in 1..(Len(z) + Len(s)) /\ ~(i <= Len(z)) /\ i - Len(z) = i - 1
            /\ i - 1 \in 1..l /\ l - (i - 1) = n - i /\ i \in 1..n
        BY <1>6, <1>7, <3>1, <3>2, SMT
      <4>2. c[i] = s[i - 1]
        BY <3>4, <4>1, Zenon
      <4>3. s[i - 1] = Octet(v, l - (i - 1))
        BY <1>8, <4>1, Zenon
      <4> QED BY <1>14, <4>1, <4>2, <4>3, Zenon
    <3>7. \A i \in 1..Len(c) : c[i] = g[i]
      <4>1. \A i \in 1..n : i = 1 \/ i \in 2..n
        BY <1>11, SMT
      <4> QED BY <3>5, <3>6, <4>1, Zenon
    <3> QED BY <1>6, <1>14, <3>5, <3>7, SeqEqual, Zenon
  <2>2. CASE ~(x[f] >= 128)
    <3>1. n = l
      BY <1>8, <2>2, Zenon
    <3>2. c = s
      BY <1>6, <2>2, Zenon
    <3> HIDE DEF l, n
    <3>3. ASSUME NEW i \in 1..l PROVE c[i] = g[i]
      <4>1. c[i] = Octet(v, l - i)
        BY <1>8, <3>2, Zenon
      <4>2. g[i] = Octet(v, n - i)
        BY <1>14, <3>1, Zenon
      <4> QED BY <3>1, <4>1, <4>2, Zenon
    <3>4. Len(c) = l /\ Len(g) = l
      BY <1>6, <1>14, <3>1, <3>2, Zenon
    <3>5. \A i \in 1..Len(c) : c[i] = g[i]
      BY <3>3, <3>4, Zenon
    <3> QED BY <1>6, <1>14, <3>4, <3>5, SeqEqual, Zenon
  <2> QED BY <2>1, <2>2, Zenon
<1>16. WriteInteger(x) = WriteTagAndLength(INTEGER, c)
  BY <1>2, <1>3, <1>4, <1>6, IntegerRead, Zenon
<1>17. WriteTagAndLength(INTEGER, c) = Der(2, c)
  <2>1. Len(c) \in Short
    BY <1>6, SMT DEF Short
  <2> QED BY <1>6, <2>1, TagAndLengthIsDer, Zenon DEF INTEGER
<1> QED BY <1>13, <1>15, <1>16, <1>17, Zenon DEF x

-----------------------------------------------------------------------------
\* At most five nodes of at most a hundred bytes: no more than 500.
LEMMA FlattenShort ==
  ASSUME NEW ns \in Seq(Seq(Byte)), Len(ns) <= 5, \A i \in 1..Len(ns) : Len(ns[i]) <= 100
  PROVE  Len(FlattenSeq(ns)) \in Sizes /\ Len(FlattenSeq(ns)) \in Short
<1> DEFINE d == FlattenSeq(ns)
           N == Len(ns)
<1>1. d \in Seq(Byte) /\ Len(d) \in Nat /\ N \in Nat
  BY FlattenLaid, LenProperties
<1>2. PICK pos : pos[1] = 1 /\ Laid(ns, N, pos, d)
  BY FlattenLaid, Zenon
<1>3. /\ pos \in [1..(N + 1) -> Nat \ {0}] /\ pos[N + 1] = Len(d) + 1
      /\ \A i \in 1..N : pos[i + 1] = pos[i] + Len(ns[i])
  BY <1>2, Zenon DEF Laid
<1>4. \A i \in 1..N : Len(ns[i]) \in Nat
  BY ElementOfSeq, LenProperties
<1> HIDE DEF d
<1> DEFINE S == {n \in Nat : n <= N => pos[n + 1] <= 1 + 100 * n}
<1>5. 0 \in S
  BY <1>2
<1>6. ASSUME NEW n \in S PROVE n + 1 \in S
  <2>1. n \in Nat
    BY Zenon
  <2>2. CASE n + 1 <= N
    <3>1. n + 1 \in 1..N /\ n + 1 \in 1..(N + 1) /\ n <= N
      BY <1>1, <2>1, <2>2
    <3>2. pos[n + 1] \in Nat /\ pos[n + 1] <= 1 + 100 * n
      BY <1>3, <3>1
    <3>3. pos[(n + 1) + 1] = pos[n + 1] + Len(ns[n + 1]) /\ Len(ns[n + 1]) \in Nat /\ Len(ns[n + 1]) <= 100
      BY <1>3, <1>4, <3>1, Zenon
    <3> QED BY <2>1, <3>2, <3>3
  <2>3. CASE ~(n + 1 <= N)
    BY <2>1, <2>3
  <2> QED BY <2>2, <2>3
<1>7. N \in S
  <2>1. S \subseteq Nat
    BY Zenon
  <2> HIDE DEF S
  <2> QED BY <1>1, <1>5, <1>6, <2>1, SetInduction
<1>8. Len(d) <= 500
  BY <1>1, <1>3, <1>7
<1>9. Len(d) \in Sizes /\ Len(d) \in Short
  BY <1>1, <1>8, SMT DEF Sizes, Short
<1> QED BY <1>9, Zenon DEF d

-----------------------------------------------------------------------------
\* The i-th member lies behind those before it, an int in four bytes.
LaidOut(k, i) ==
  /\ Size[k][i] \in 4..65 /\ Begin[k][i] \in Nat
  /\ i \in Ints[k] => Size[k][i] = 4
  /\ Begin[k][i] + Size[k][i] <= Begin[k][5] + Size[k][5]
  /\ \A j \in 1..(i - 1) : Begin[k][j] + Size[k][j] <= Begin[k][i]

\* Both structures are laid out so.
LEMMA Layout ==
  ASSUME NEW k \in {"request", "respond"}
  PROVE  /\ DOMAIN Size[k] = 1..5
         /\ \A i \in 1..5 : LaidOut(k, i)
         /\ Ints[k] \subseteq 1..5
<1>1. CASE k = "request"
  <2>1. Size[k] = <<4, 12, 65, 12, 64>> /\ Begin[k] = <<0, 4, 16, 81, 93>> /\ Ints[k] = {1}
    BY <1>1 DEF Size, Begin, Ints
  <2> QED BY <2>1 DEF LaidOut
<1>2. CASE k = "respond"
  <2>1. Size[k] = <<4, 12, 12, 64, 4>> /\ Begin[k] = <<0, 4, 16, 28, 92>> /\ Ints[k] = {1, 5}
    BY <1>2 DEF Size, Begin, Ints
  <2> QED BY <2>1 DEF LaidOut
<1> QED BY <1>1, <1>2

\* A sequence over a set is one over a larger set.
LEMMA SeqOfMore ==
  ASSUME NEW T, NEW S, S \subseteq T, NEW s \in Seq(S)
  PROVE  s \in Seq(T)
<1>1. s \in [1..Len(s) -> S] /\ Len(s) \in Nat
  BY LenProperties
<1>2. s \in [1..Len(s) -> T]
  BY <1>1
<1> QED BY <1>1, <1>2

\* The messages and what of their fields the nodes hold.
Member(i) == IF IsInt(i) THEN Little(Word(msg.fields[i][1], 4)) ELSE Append(msg.fields[i], 0)

\* A field is an int of 32 bits, or a string that fits its member with its \0.
LEMMA FieldIs ==
  ASSUME CodecAssumption, msg \in Messages, width \in Widths, NEW i \in 1..5
  PROVE  /\ msg.kind \in {"request", "respond"} /\ width \in {4, 8}
         /\ IsInt(i) => msg.fields[i][1] \in Int /\ msg.fields[i][1] \in Int32
         /\ ~IsInt(i) => /\ Append(msg.fields[i], 0) \in Seq(Byte)
                         /\ Append(msg.fields[i], 0) # NoNode
                         /\ Len(Append(msg.fields[i], 0)) <= Size[msg.kind][i]
                         /\ Size[msg.kind][i] \in 4..65
<1> DEFINE s == msg.fields[i]
           z == Size[msg.kind][i]
<1>1. /\ msg.kind \in {"request", "respond"} /\ width \in {4, 8}
      /\ IF i \in Ints[msg.kind] THEN s \in Seq(Int32) /\ Len(s) = 1
                                 ELSE s \in Seq(1..255) /\ Len(s) < z
  BY Zenon DEF CodecAssumption
<1>2. z \in 4..65
  <2>1. LaidOut(msg.kind, i)
    BY <1>1, Layout, Zenon
  <2> QED BY <2>1, Zenon DEF LaidOut
<1> HIDE DEF s, z
<1>3. ASSUME IsInt(i) PROVE s[1] \in Int /\ s[1] \in Int32
  <2>1. s \in Seq(Int32) /\ Len(s) = 1
    BY <1>1, <1>3, Zenon DEF IsInt
  <2>2. 1 \in 1..Len(s)
    BY <2>1
  <2>3. s[1] \in Int32
    BY <2>1, <2>2, ElementOfSeq, Zenon
  <2>4. Int32 \subseteq Int
    BY SMT DEF Int32
  <2> QED BY <2>3, <2>4, Zenon
<1>4. ASSUME ~IsInt(i)
      PROVE  Append(s, 0) \in Seq(Byte) /\ Append(s, 0) # NoNode /\ Len(Append(s, 0)) <= z
  <2>1. s \in Seq(1..255) /\ Len(s) < z
    BY <1>1, <1>4, Zenon DEF IsInt
  <2>2. s \in Seq(Byte) /\ 0 \in Byte
    <3>1. 1..255 \subseteq Byte /\ 0 \in Byte
      BY DEF Byte
    <3> DEFINE A == 1..255
    <3>2. A \subseteq Byte /\ s \in Seq(A)
      BY <2>1, <3>1, Zenon
    <3> HIDE DEF A
    <3> QED BY <3>1, <3>2, SeqOfMore
  <2>3. Append(s, 0) \in Seq(Byte) /\ Len(Append(s, 0)) = Len(s) + 1 /\ Len(s) \in Nat
    BY <2>2, AppendProperties, LenProperties
  <2>4. Len(NoNode) = 0
    BY DEF NoNode
  <2>5. Append(s, 0) # NoNode
    <3>1. \A n \in Nat : n + 1 # 0
      BY SMT
    <3> QED BY <2>3, <2>4, <3>1, Zenon
  <2>6. Len(Append(s, 0)) <= z
    BY <1>2, <2>1, <2>3, SMT
  <2> QED BY <2>3, <2>5, <2>6, Zenon
<1> QED BY <1>1, <1>2, <1>3, <1>4, Zenon DEF s, z

\* The node of a field and what is read from it.
Made(i) == NodeOf(i) # NoNode
Taken(i) == IF IsInt(i) THEN Little(Word(msg.fields[i][1], width)) ELSE Append(msg.fields[i], 0)

\* Only a negative number on LP64 is not made; a node that was made is well formed, and its
\* reader gives back what the field is.
LEMMA NodeIs ==
  ASSUME CodecAssumption, msg \in Messages, width \in Widths, NEW i \in 1..5
  PROVE  /\ Made(i) <=> ~(IsInt(i) /\ width = 8 /\ msg.fields[i][1] < 0)
         /\ Made(i) => Tlv(NodeOf(i)) /\ NodeOf(i) \in Seq(Byte) /\ Len(NodeOf(i)) <= 100
         /\ Made(i) => (IF IsInt(i) THEN Little(ReadInteger(NodeOf(i), width))
                                    ELSE ReadPrintableString(NodeOf(i))) = Taken(i)
         /\ ~IsInt(i) => ReadPrintableString(NodeOf(i)) # NoNode
<1>1. CASE IsInt(i)
  <2> DEFINE v == msg.fields[i][1]
             x == Word(v, width)
  <2>1. v \in Int /\ width \in {4, 8}
    BY <1>1, FieldIs, Zenon
  <2>2. NodeOf(i) = WriteInteger(x)
    BY <1>1, Zenon DEF NodeOf
  <2>3. WriteInteger(x) # NoNode <=> ~(width = 8 /\ v < 0)
    BY <2>1, IntegerWritten, Zenon
  <2>4. x \in [1..width -> Byte]
    BY <2>1, WordIs, Zenon
  <2>5. width \in Nat \ {0}
    BY <2>1, SMT
  <2> HIDE DEF v, x
  <2>6. WriteInteger(x) # NoNode =>
          /\ Tlv(WriteInteger(x)) /\ Len(WriteInteger(x)) \in 3..7
          /\ ReadInteger(WriteInteger(x), width) = x
    BY <2>4, <2>5, IntegerRead, Zenon
  <2>7. \A l \in 3..7 : l <= 100
    BY SMT
  <2>8. Made(i) <=> ~(IsInt(i) /\ width = 8 /\ msg.fields[i][1] < 0)
    BY <1>1, <2>2, <2>3, Zenon DEF Made, v
  <2>9. Made(i) => Tlv(NodeOf(i)) /\ Len(NodeOf(i)) <= 100
    BY <2>2, <2>6, <2>7, Zenon DEF Made
  <2>10. Made(i) => Little(ReadInteger(NodeOf(i), width)) = Taken(i)
    BY <1>1, <2>2, <2>6, Zenon DEF Made, Taken, v, x
  <2>11. Tlv(NodeOf(i)) => NodeOf(i) \in Seq(Byte)
    BY Zenon DEF Tlv
  <2> QED BY <1>1, <2>8, <2>9, <2>10, <2>11, Zenon
<1>2. CASE ~IsInt(i)
  <2> DEFINE s == Append(msg.fields[i], 0)
             n == WriteTagAndLength(PRINTABLE, s)
  <2>1. s \in Seq(Byte) /\ s # NoNode /\ Len(s) <= Size[msg.kind][i] /\ Size[msg.kind][i] \in 4..65
    BY <1>2, FieldIs, Zenon
  <2>2. NodeOf(i) = n
    BY <1>2, Zenon DEF NodeOf, WritePrintableString
  <2>3. PRINTABLE \in Byte
    BY DEF PRINTABLE, Byte
  <2> HIDE DEF s
  <2>4. Len(s) \in Nat /\ Len(s) <= 65
    <3>1. Len(s) \in Nat
      BY <2>1, LenProperties, Zenon
    <3>2. \A z \in 4..65 : \A l \in Nat : l <= z => l <= 65
      BY SMT
    <3> QED BY <2>1, <3>1, <3>2, Zenon
  <2>5. Len(s) \in Sizes
    BY <2>4, SMT DEF Sizes
  <2>6. Tlv(n) /\ Len(n) = 1 + Len(LengthOctets(Len(s))) + Len(s)
    BY <2>1, <2>3, <2>5, TagAndLengthIs, Zenon
  <2>7. Len(LengthOctets(Len(s))) \in 1..5
    BY <2>4, LengthOctetsType, Zenon
  <2>8. ReadTagAndLength(n) = s
    BY <2>1, <2>3, <2>5, StringRead, Zenon
  <2> HIDE DEF n
  <2>9. Len(n) <= 100 /\ Len(n) # 0
    <3>1. \A l \in 1..5 : \A m \in Nat : m <= 65 => 1 + l + m <= 100 /\ 1 + l + m # 0
      BY SMT
    <3>2. /\ 1 + Len(LengthOctets(Len(s))) + Len(s) <= 100
          /\ 1 + Len(LengthOctets(Len(s))) + Len(s) # 0
      BY <2>4, <2>7, <3>1, Zenon
    <3> QED BY <2>6, <3>2, Zenon
  <2>10. n # NoNode
    <3>1. Len(NoNode) = 0
      BY DEF NoNode
    <3> QED BY <2>9, <3>1, Zenon
  <2>11. ReadPrintableString(NodeOf(i)) = s
    BY <2>2, <2>8, Zenon DEF ReadPrintableString
  <2>12. Taken(i) = s
    BY <1>2, Zenon DEF Taken, s
  <2>13. n \in Seq(Byte)
    BY <2>6, Zenon DEF Tlv
  <2> QED BY <1>2, <2>1, <2>2, <2>6, <2>9, <2>10, <2>11, <2>12, <2>13, Zenon DEF Made
<1> QED BY <1>1, <1>2, Zenon

\* The first bytes of what is stored are the field's, and the structure has room for it.
LEMMA TakenIs ==
  ASSUME CodecAssumption, msg \in Messages, width \in Widths, NEW i \in 1..5
  PROVE  /\ Taken(i) \in Seq(Byte) /\ Member(i) \in Seq(Byte)
         /\ Len(Member(i)) <= Len(Taken(i)) /\ Len(Member(i)) <= Size[msg.kind][i]
         /\ Offset(i) + Len(Taken(i)) <= Offset(5) + Size[msg.kind][5] + width
         /\ \A a \in 1..Len(Member(i)) : Taken(i)[a] = Member(i)[a]
<1>1. /\ msg.kind \in {"request", "respond"} /\ width \in {4, 8}
  BY FieldIs, Zenon
<1>2. /\ Size[msg.kind][i] \in 4..65 /\ Offset(i) \in Nat
      /\ IsInt(i) => Size[msg.kind][i] = 4
      /\ Offset(i) + Size[msg.kind][i] <= Offset(5) + Size[msg.kind][5]
  <2>1. LaidOut(msg.kind, i)
    BY <1>1, Layout, Zenon
  <2> QED BY <2>1, Zenon DEF LaidOut, Offset, IsInt
<1>3. Offset(5) \in Nat /\ Size[msg.kind][5] \in Nat
  <2>1. 5 \in 1..5
    BY SMT
  <2>2. LaidOut(msg.kind, 5)
    BY <1>1, <2>1, Layout, Zenon
  <2>3. \A z \in 4..65 : z \in Nat
    BY SMT
  <2> QED BY <2>2, <2>3, Zenon DEF LaidOut, Offset
<1>4. CASE IsInt(i)
  <2> DEFINE v == msg.fields[i][1]
             x == Word(v, width)
             y == Word(v, 4)
  <2>1. v \in Int
    BY <1>4, FieldIs, Zenon
  <2>2. /\ x \in [1..width -> Byte] /\ \A k \in (width - 3)..width : x[k] = Octet(v, width - k)
    BY <1>1, <2>1, WordIs, Zenon
  <2>3. /\ y \in [1..4 -> Byte] /\ \A k \in 1..4 : y[k] = Octet(v, 4 - k)
    <3>1. 4 \in {4, 8} /\ 4 - 3 = 1
      BY SMT
    <3>2. \A k \in (4 - 3)..4 : y[k] = Octet(v, 4 - k)
      BY <2>1, <3>1, WordIs, Zenon
    <3>3. y \in [1..4 -> Byte]
      BY <2>1, <3>1, WordIs, Zenon
    <3> QED BY <3>1, <3>2, <3>3, Zenon
  <2>4. Taken(i) = Reverse(x) /\ Member(i) = Reverse(y)
    BY <1>4, Zenon DEF Taken, Member, Little
  <2> HIDE DEF v, x, y
  <2>5. /\ Reverse(x) \in Seq(Byte) /\ Len(Reverse(x)) = width
        /\ \A a \in 1..width : Reverse(x)[a] = x[(width - a) + 1]
    <3>1. Len(x) = width /\ width \in Nat
      BY <1>1, <2>2
    <3>2. Reverse(x) = [a \in 1..width |-> x[(width - a) + 1]]
      BY <3>1, Zenon DEF Reverse
    <3>3. [a \in 1..width |-> x[(width - a) + 1]] \in [1..width -> Byte]
      BY <2>2, <3>1, SMT
    <3>4. Reverse(x) \in [1..width -> Byte] /\ \A a \in 1..width : Reverse(x)[a] = x[(width - a) + 1]
      BY <3>2, <3>3, Zenon
    <3> DEFINE r == Reverse(x)
    <3>5. r \in [1..width -> Byte] /\ width \in Nat
      BY <3>1, <3>4, Zenon
    <3> HIDE DEF r
    <3>6. r \in Seq(Byte) /\ Len(r) = width
      BY <3>5, SMT
    <3> QED BY <3>4, <3>6, Zenon DEF r
  <2>6. /\ Reverse(y) \in Seq(Byte) /\ Len(Reverse(y)) = 4
        /\ \A a \in 1..4 : Reverse(y)[a] = y[(4 - a) + 1]
    <3>1. Len(y) = 4 /\ 4 \in Nat
      BY <2>3
    <3>2. Reverse(y) = [a \in 1..4 |-> y[(4 - a) + 1]]
      BY <3>1, Zenon DEF Reverse
    <3>3. [a \in 1..4 |-> y[(4 - a) + 1]] \in [1..4 -> Byte]
      BY <2>3, <3>1, SMT
    <3>4. Reverse(y) \in [1..4 -> Byte] /\ \A a \in 1..4 : Reverse(y)[a] = y[(4 - a) + 1]
      BY <3>2, <3>3, Zenon
    <3> DEFINE r == Reverse(y)
    <3>5. r \in [1..4 -> Byte] /\ 4 \in Nat
      BY <3>1, <3>4, Zenon
    <3> HIDE DEF r
    <3>6. r \in Seq(Byte) /\ Len(r) = 4
      <4>1. \A k \in Nat : r \in [1..k -> Byte] => r \in Seq(Byte) /\ Len(r) = k
        BY SMT
      <4> QED BY <3>5, <4>1, Zenon
    <3> QED BY <3>4, <3>6, Zenon DEF r
  <2>7. ASSUME NEW a \in 1..4 PROVE Reverse(x)[a] = Reverse(y)[a]
    <3>1. /\ a \in 1..width /\ (width - a) + 1 \in (width - 3)..width /\ width - ((width - a) + 1) = a - 1
          /\ (4 - a) + 1 \in 1..4 /\ 4 - ((4 - a) + 1) = a - 1
      BY <1>1, SMT
    <3>2. Reverse(x)[a] = Octet(v, a - 1)
      BY <2>2, <2>5, <3>1, Zenon
    <3>3. Reverse(y)[a] = Octet(v, a - 1)
      BY <2>3, <2>6, <3>1, Zenon
    <3> QED BY <3>2, <3>3, Zenon
  <2>8. 4 <= width /\ 4 <= 4 /\ Offset(i) + width <= Offset(5) + Size[msg.kind][5] + width
    <3>1. \A k \in {4, 8} : 4 <= k /\ 4 <= 4
      BY SMT
    <3>2. \A k \in {4, 8} : \A o, o5, z5 \in Nat : o + 4 <= o5 + z5 => o + k <= o5 + z5 + k
      BY SMT
    <3>3. Offset(i) + 4 <= Offset(5) + Size[msg.kind][5]
      <4>1. Size[msg.kind][i] = 4
        BY <1>2, <1>4, Zenon
      <4>2. Offset(i) + Size[msg.kind][i] <= Offset(5) + Size[msg.kind][5]
        BY <1>2, Zenon
      <4> DEFINE z == Size[msg.kind][i]
      <4>3. z = 4 /\ Offset(i) + z <= Offset(5) + Size[msg.kind][5]
        BY <4>1, <4>2, Zenon
      <4> HIDE DEF z
      <4> QED BY <4>3
    <3>4. width \in {4, 8} /\ Offset(i) \in Nat
      BY <1>1, <1>2, Zenon
    <3>5. Offset(i) + width <= Offset(5) + Size[msg.kind][5] + width
      BY <1>3, <3>2, <3>3, <3>4, Zenon
    <3> QED BY <3>1, <3>4, <3>5, Zenon
  <2>9. /\ Taken(i) \in Seq(Byte) /\ Len(Taken(i)) = width
        /\ Member(i) \in Seq(Byte) /\ Len(Member(i)) = 4
    BY <2>4, <2>5, <2>6, Zenon
  <2>10. \A a \in 1..Len(Member(i)) : Taken(i)[a] = Member(i)[a]
    BY <2>4, <2>7, <2>9, Zenon
  <2>11. Size[msg.kind][i] = 4
    BY <1>2, <1>4, Zenon
  <2>12. Len(Member(i)) <= Len(Taken(i)) /\ Len(Member(i)) <= Size[msg.kind][i]
    BY <2>8, <2>9, <2>11, Zenon
  <2>13. Offset(i) + Len(Taken(i)) <= Offset(5) + Size[msg.kind][5] + width
    BY <2>8, <2>9, Zenon
  <2> QED BY <2>9, <2>10, <2>12, <2>13, Zenon
<1>5. CASE ~IsInt(i)
  <2>1. Taken(i) = Member(i)
    BY <1>5, Zenon DEF Taken, Member
  <2>2. Member(i) \in Seq(Byte) /\ Len(Member(i)) <= Size[msg.kind][i]
    <3>1. Append(msg.fields[i], 0) \in Seq(Byte) /\ Len(Append(msg.fields[i], 0)) <= Size[msg.kind][i]
      BY <1>5, FieldIs, Zenon
    <3> QED BY <1>5, <3>1, Zenon DEF Member
  <2>3. Len(Member(i)) \in Nat
    BY <2>2, LenProperties
  <2> DEFINE l == Len(Member(i))
             z == Size[msg.kind][i]
             z5 == Size[msg.kind][5]
  <2>4. l \in Nat /\ l <= z /\ z \in Nat /\ z5 \in Nat /\ Offset(i) + z <= Offset(5) + z5
    <3>1. z \in Nat /\ z5 \in Nat
      <4>1. \A j \in 4..65 : j \in Nat
        BY SMT
      <4> QED BY <1>2, <1>3, <4>1, Zenon
    <3>2. Offset(i) + z <= Offset(5) + z5
      BY <1>2, Zenon
    <3> QED BY <2>2, <2>3, <3>1, <3>2, Zenon
  <2> HIDE DEF l, z, z5
  <2>5. l <= l /\ Offset(i) + l <= Offset(5) + z5 + width
    <3> DEFINE o == Offset(i)
               q == Offset(5)
    <3>1. o \in Nat /\ q \in Nat /\ l \in Nat /\ z \in Nat /\ z5 \in Nat
      BY <1>2, <1>3, <2>4, Zenon
    <3>2. l <= z /\ o + z <= q + z5
      BY <2>4, Zenon
    <3> HIDE DEF o, q
    <3>3. l <= l /\ o + l <= q + z5
      BY <3>1, <3>2, SMT
    <3>4. width \in Nat
      BY <1>1, SMT
    <3>5. o + l <= q + z5 + width
      BY <3>1, <3>3, <3>4, SMT
    <3> QED BY <3>3, <3>5, Zenon DEF o, q
  <2>6. Offset(i) + Len(Member(i)) <= Offset(5) + Size[msg.kind][5] + width
    BY <2>5, Zenon DEF l, z5
  <2>7. Len(Member(i)) <= Len(Member(i))
    BY <2>5, Zenon DEF l
  <2> QED BY <2>1, <2>2, <2>6, <2>7, Zenon
<1> QED BY <1>4, <1>5, Zenon

-----------------------------------------------------------------------------
\* The list as far as k nodes of the message, and what the packed bytes hold: all
\* five, or the first four when the last was refused, whose NULL nobody followed.
SentAll(k) == \A i \in 1..k : Made(i)
Sent(k) == [i \in 1..k |-> NodeOf(i)]
Whole(k) == SentAll(k) /\ (k = 4 => ~Made(5))
Holds(i) == \A a \in 1..Len(Member(i)) : mem[Offset(i) + a] = Member(i)[a]

\* The types of the state.
Shapes ==
  /\ msg \in Messages /\ width \in Widths
  /\ pc \in {"write", "wire", "read", "done", "fault"}
  /\ at \in 0..5
  /\ header \in Seq(Seq(Byte)) /\ next \in 0..Len(header)
  /\ data \in Seq(Byte)
  /\ mem \in [DOMAIN Zeros -> Byte]

\* The fields written so far are in the list, and the cursor is at its last node, or
\* NULL when the last node was not made.
Writing ==
  pc = "write" =>
    \/ at = 0 /\ header = NoList /\ next = 0
    \/ at # 0 /\ SentAll(at) /\ header = Sent(at) /\ next = at
    \/ at # 0 /\ SentAll(at - 1) /\ ~Made(at) /\ header = Sent(at - 1) /\ next = 0

\* The bytes are the sequence of the nodes.
OnWire ==
  pc = "wire" => \E k \in {4, 5} : Whole(k) /\ data = WriteSequence(Sent(k))

\* The receiver has the sender's list, and the cursor is at the next field, or NULL
\* past the last node; the fields before it are in their members.
Reading ==
  pc = "read" =>
    \E k \in {4, 5} : /\ Whole(k) /\ header = Sent(k) /\ at <= k /\ at < 5
                      /\ next = (IF at < k THEN at + 1 ELSE 0)
                      /\ \A i \in 1..at : Holds(i)

\* At the end all fields are in their members, or some node was not made.
Finished ==
  /\ pc = "done" => \A i \in 1..5 : Holds(i)
  /\ pc = "fault" => \E i \in 1..5 : ~Made(i)

\* The inductive invariant.
CodecInv == Shapes /\ Writing /\ OnWire /\ Reading /\ Finished

\* What is said of the nodes is said of the message and the width, and these stay.
LEMMA NodesStay ==
  ASSUME msg' = msg, width' = width
  PROVE  /\ \A i : /\ NodeOf(i)' = NodeOf(i) /\ Made(i)' = Made(i) /\ Taken(i)' = Taken(i)
                   /\ Member(i)' = Member(i) /\ Offset(i)' = Offset(i)
         /\ \A k : Sent(k)' = Sent(k) /\ SentAll(k)' = SentAll(k) /\ Whole(k)' = Whole(k)
         /\ (DOMAIN Zeros)' = DOMAIN Zeros
<1>1. \A i : IsInt(i)' = IsInt(i)
  BY Zenon DEF IsInt
<1>2. \A i : NodeOf(i)' = NodeOf(i)
  BY <1>1, Zenon DEF NodeOf
<1>3. \A i : Made(i)' = Made(i)
  BY <1>2, Zenon DEF Made
<1>4. \A i : Taken(i)' = Taken(i) /\ Member(i)' = Member(i) /\ Offset(i)' = Offset(i)
  BY <1>1, Zenon DEF Taken, Member, Offset
<1>5. \A k : Sent(k)' = Sent(k) /\ SentAll(k)' = SentAll(k)
  BY <1>2, <1>3, Zenon DEF Sent, SentAll
<1>6. \A k : Whole(k)' = Whole(k)
  BY <1>3, <1>5, Zenon DEF Whole
<1>7. Zeros' = Zeros
  BY <1>4, Zenon DEF Zeros
<1> QED BY <1>2, <1>3, <1>4, <1>5, <1>6, <1>7, Zenon

\* Nodes that were made are a list that comes back from its bytes.
LEMMA SentIs ==
  ASSUME CodecAssumption, msg \in Messages, width \in Widths, NEW k \in 0..5, SentAll(k)
  PROVE  /\ Sent(k) \in Seq(Seq(Byte)) /\ Len(Sent(k)) = k
         /\ \A i \in 1..k : Sent(k)[i] = NodeOf(i)
         /\ WriteSequence(Sent(k)) \in Seq(Byte)
         /\ ReadSequence(WriteSequence(Sent(k))) = Sent(k)
         /\ Len(FlattenSeq(Sent(k))) \in Short
<1>1. \A i \in 1..k : i \in 1..5
  BY SMT
<1>2. ASSUME NEW i \in 1..k
      PROVE  Tlv(NodeOf(i)) /\ NodeOf(i) \in Seq(Byte) /\ Len(NodeOf(i)) <= 100
  <2>1. i \in 1..5 /\ Made(i)
    BY <1>1, Zenon DEF SentAll
  <2> QED BY <2>1, NodeIs, Zenon
<1>3. Sent(k) \in [1..k -> Seq(Byte)] /\ \A i \in 1..k : Sent(k)[i] = NodeOf(i)
  BY <1>2, Zenon DEF Sent
<1>4. k \in Nat /\ k <= 5
  BY SMT
<1>5. Sent(k) \in Seq(Seq(Byte)) /\ Len(Sent(k)) = k
  <2> DEFINE r == Sent(k)
             S == Seq(Byte)
  <2>1. r \in [1..k -> S]
    BY <1>3, Zenon
  <2> HIDE DEF r, S
  <2>2. r \in Seq(S) /\ Len(r) = k
    BY <1>4, <2>1, SMT
  <2> QED BY <2>2, Zenon DEF r, S
<1>6. \A i \in 1..Len(Sent(k)) : Tlv(Sent(k)[i]) /\ Len(Sent(k)[i]) <= 100
  BY <1>2, <1>3, <1>5, Zenon
<1>7. Len(FlattenSeq(Sent(k))) \in Sizes /\ Len(FlattenSeq(Sent(k))) \in Short
  <2>1. Len(Sent(k)) <= 5
    BY <1>4, <1>5, Zenon
  <2>2. \A i \in 1..Len(Sent(k)) : Len(Sent(k)[i]) <= 100
    BY <1>6, Zenon
  <2> QED BY <1>5, <2>1, <2>2, FlattenShort, Zenon
<1>8. ReadSequence(WriteSequence(Sent(k))) = Sent(k) /\ WriteSequence(Sent(k)) \in Seq(Byte)
  BY <1>5, <1>6, <1>7, SequenceRead, Zenon
<1> QED BY <1>3, <1>5, <1>7, <1>8, Zenon

\* A node that is made is appended.
LEMMA SentNext ==
  ASSUME CodecAssumption, msg \in Messages, width \in Widths, NEW k \in 0..4,
         SentAll(k), Made(k + 1)
  PROVE  SentAll(k + 1) /\ Sent(k + 1) = Append(Sent(k), NodeOf(k + 1))
<1>1. \A i \in 1..(k + 1) : i \in 1..k \/ i = k + 1
  BY SMT
<1>2. SentAll(k + 1)
  BY <1>1, Zenon DEF SentAll
<1>3. k \in 0..5 /\ k + 1 \in 0..5 /\ k + 1 \in 1..5
  BY SMT
<1> DEFINE s == Sent(k)
           n == NodeOf(k + 1)
           a == Append(s, n)
           t == Sent(k + 1)
<1>4. s \in Seq(Seq(Byte)) /\ Len(s) = k /\ \A i \in 1..k : s[i] = NodeOf(i)
  BY <1>3, SentIs, Zenon
<1>5. t \in Seq(Seq(Byte)) /\ Len(t) = k + 1 /\ \A i \in 1..(k + 1) : t[i] = NodeOf(i)
  BY <1>2, <1>3, SentIs, Zenon
<1>6. n \in Seq(Byte)
  BY <1>3, NodeIs, Zenon
<1> HIDE DEF s, n, t
<1>7. /\ a \in Seq(Seq(Byte)) /\ Len(a) = Len(s) + 1
      /\ \A i \in 1..Len(s) : a[i] = s[i] /\ a[Len(s) + 1] = n
  BY <1>4, <1>6, AppendProperties
<1>8. a[k + 1] = n
  BY <1>4, <1>6, AppendProperties
<1>9. Len(a) = k + 1
  BY <1>4, <1>7, Zenon
<1> HIDE DEF a
<1>10. \A i \in 1..Len(a) : a[i] = t[i]
  <2> SUFFICES ASSUME NEW i \in 1..(k + 1) PROVE a[i] = t[i]
    BY <1>9, Zenon
  <2>1. CASE i \in 1..k
    BY <1>4, <1>5, <1>7, <2>1, Zenon
  <2>2. CASE i = k + 1
    BY <1>5, <1>8, <2>2, Zenon DEF n
  <2> QED BY <1>1, <2>1, <2>2, Zenon
<1>11. a = t
  <2>1. a \in Seq(Seq(Byte)) /\ t \in Seq(Seq(Byte)) /\ Len(a) = Len(t)
    BY <1>5, <1>7, <1>9, Zenon
  <2> QED BY <1>10, <2>1, SeqEqual
<1> QED BY <1>2, <1>11, Zenon DEF a, n, s, t

-----------------------------------------------------------------------------
\* Nothing is written yet.
LEMMA InitInv ==
  ASSUME CodecAssumption, Init PROVE CodecInv
<1>1. msg \in Messages /\ width \in Widths /\ pc = "write" /\ at = 0 /\ header = NoList /\ next = 0
      /\ data = <<>> /\ mem = Zeros
  BY Zenon DEF Init
<1>2. Shapes
  <2>1. header \in Seq(Seq(Byte)) /\ next \in 0..Len(header) /\ at \in 0..5 /\ data \in Seq(Byte)
    BY <1>1 DEF NoList
  <2>2. Zeros \in [DOMAIN Zeros -> Byte]
    <3> DEFINE D == 1..(Offset(5) + Size[msg.kind][5] + width)
    <3>1. Zeros = [a \in D |-> 0] /\ 0 \in Byte
      BY SMT DEF Zeros, Byte
    <3> HIDE DEF D
    <3> QED BY <3>1
  <2> QED BY <1>1, <2>1, <2>2, Zenon DEF Shapes
<1>3. Writing
  BY <1>1, Zenon DEF Writing
<1>4. pc # "wire" /\ pc # "read" /\ pc # "done" /\ pc # "fault"
  BY <1>1
<1> QED BY <1>2, <1>3, <1>4, Zenon DEF CodecInv, OnWire, Reading, Finished

\* The head of the list is the first node, or there is no list.
LEMMA WriteHeadNodeStep ==
  ASSUME CodecAssumption, CodecInv, WriteHeadNode PROVE CodecInv'
<1>1. /\ Shapes /\ pc = "write" /\ at = 0 /\ at' = 1
      /\ header' = IF NodeOf(1) = NoNode THEN NoList ELSE <<NodeOf(1)>>
      /\ next' = Len(header')
      /\ msg' = msg /\ width' = width /\ pc' = pc /\ data' = data /\ mem' = mem
  BY Zenon DEF WriteHeadNode, CodecInv
<1>2. /\ msg \in Messages /\ width \in Widths /\ data \in Seq(Byte) /\ mem \in [DOMAIN Zeros -> Byte]
  BY <1>1, Zenon DEF Shapes
<1>3. 1 \in 1..5 /\ 0 \in 0..4 /\ 0 + 1 = 1 /\ 1 - 1 = 0 /\ 1 # 0 /\ 1 \in 0..5
  BY SMT
<1>4. SentAll(0) /\ Sent(0) = <<>>
  BY SMT DEF SentAll, Sent
<1>5. CASE Made(1)
  <2>1. header' = <<NodeOf(1)>>
    BY <1>1, <1>5, Zenon DEF Made
  <2>2. SentAll(1) /\ Sent(1) = Append(Sent(0), NodeOf(1))
    BY <1>2, <1>3, <1>4, <1>5, SentNext, Zenon
  <2>3. NodeOf(1) \in Seq(Byte)
    BY <1>2, <1>3, <1>5, NodeIs, Zenon
  <2> DEFINE n == NodeOf(1)
  <2> HIDE DEF n
  <2>4. n \in Seq(Byte) => Append(<<>>, n) = <<n>> /\ <<n>> \in Seq(Seq(Byte)) /\ Len(<<n>>) = 1
    OBVIOUS
  <2>5. header' = Sent(1) /\ header' \in Seq(Seq(Byte)) /\ Len(header') = 1
    BY <1>4, <2>1, <2>2, <2>3, <2>4, Zenon DEF n
  <2>6. 1 \in 0..1
    BY SMT
  <2>7. Shapes'
    BY <1>1, <1>2, <1>3, <2>5, <2>6, NodesStay, Zenon DEF Shapes
  <2>8. Writing'
    BY <1>1, <1>3, <2>2, <2>5, NodesStay, Zenon DEF Writing
  <2>9. pc' # "wire" /\ pc' # "read" /\ pc' # "done" /\ pc' # "fault"
    BY <1>1
  <2> QED BY <2>7, <2>8, <2>9, Zenon DEF CodecInv, OnWire, Reading, Finished
<1>6. CASE ~Made(1)
  <2>1. header' = NoList
    BY <1>1, <1>6, Zenon DEF Made
  <2>2. header' = Sent(0) /\ header' \in Seq(Seq(Byte)) /\ Len(header') = 0 /\ 0 \in 0..0
    BY <1>4, <2>1 DEF NoList
  <2>3. Shapes'
    BY <1>1, <1>2, <1>3, <2>2, NodesStay, Zenon DEF Shapes
  <2>4. Writing'
    <3>1. at' # 0 /\ at' - 1 = 0 /\ next' = 0
      BY <1>1, <1>3, <2>2, Zenon
    <3>2. SentAll(0)' /\ ~Made(1)' /\ header' = Sent(0)'
      <4>1. SentAll(0)' = SentAll(0) /\ Sent(0)' = Sent(0) /\ Made(1)' = Made(1)
        BY <1>1, NodesStay, Zenon
      <4>2. SentAll(0)' /\ ~Made(1)'
        BY <1>4, <1>6, <4>1, Zenon
      <4> QED BY <2>2, <4>1, <4>2, Zenon
    <3>3. SentAll(at - 1)' /\ ~Made(at)' /\ header' = Sent(at - 1)'
      BY <1>1, <3>1, <3>2, Zenon
    <3> QED BY <3>1, <3>3, Zenon DEF Writing
  <2>9. pc' # "wire" /\ pc' # "read" /\ pc' # "done" /\ pc' # "fault"
    BY <1>1
  <2> QED BY <2>3, <2>4, <2>9, Zenon DEF CodecInv, OnWire, Reading, Finished
<1> QED BY <1>5, <1>6, Zenon

\* A node more, or a cursor that is NULL.
LEMMA WriteNextNodeStep ==
  ASSUME CodecAssumption, CodecInv, WriteNextNode PROVE CodecInv'
<1>1. /\ Shapes /\ pc = "write" /\ at \in 1..4 /\ next # 0 /\ at' = at + 1
      /\ IF NodeOf(at + 1) = NoNode
         THEN next' = 0 /\ header' = header
         ELSE header' = Append(header, NodeOf(at + 1)) /\ next' = Len(header')
      /\ msg' = msg /\ width' = width /\ pc' = pc /\ data' = data /\ mem' = mem
  BY Zenon DEF WriteNextNode, CodecInv
<1>2. /\ msg \in Messages /\ width \in Widths /\ data \in Seq(Byte) /\ mem \in [DOMAIN Zeros -> Byte]
      /\ header \in Seq(Seq(Byte))
  BY <1>1, Zenon DEF Shapes
<1>3. /\ at \in 0..4 /\ at + 1 \in 1..5 /\ at + 1 \in 0..5 /\ (at + 1) - 1 = at /\ at + 1 # 0
      /\ at \in 0..5 /\ at # 0 /\ at + 1 \in 0..(at + 1)
  BY <1>1, SMT
<1>4. SentAll(at) /\ header = Sent(at)
  BY <1>1, <1>3, Zenon DEF CodecInv, Writing
<1>5. pc' # "wire" /\ pc' # "read" /\ pc' # "done" /\ pc' # "fault"
  BY <1>1
<1>6. CASE Made(at + 1)
  <2>1. header' = Append(header, NodeOf(at + 1)) /\ next' = Len(header')
    BY <1>1, <1>6, Zenon DEF Made
  <2>2. SentAll(at + 1) /\ Sent(at + 1) = Append(Sent(at), NodeOf(at + 1))
    BY <1>2, <1>3, <1>4, <1>6, SentNext, Zenon
  <2>3. Sent(at + 1) \in Seq(Seq(Byte)) /\ Len(Sent(at + 1)) = at + 1
    BY <1>2, <1>3, <2>2, SentIs, Zenon
  <2>4. header' = Sent(at + 1) /\ next' = at + 1
    BY <1>4, <2>1, <2>2, <2>3, Zenon
  <2>5. Shapes'
    BY <1>1, <1>2, <1>3, <2>3, <2>4, NodesStay, Zenon DEF Shapes
  <2>6. Writing'
    BY <1>1, <1>3, <2>2, <2>4, NodesStay, Zenon DEF Writing
  <2> QED BY <1>5, <2>5, <2>6, Zenon DEF CodecInv, OnWire, Reading, Finished
<1>7. CASE ~Made(at + 1)
  <2>1. header' = header /\ next' = 0
    BY <1>1, <1>7, Zenon DEF Made
  <2>2. 0 \in 0..Len(header)
    <3>1. Len(header) \in Nat
      BY <1>2, LenProperties
    <3> QED BY <3>1, SMT
  <2>3. Shapes'
    BY <1>1, <1>2, <1>3, <2>1, <2>2, NodesStay, Zenon DEF Shapes
  <2>4. Writing'
    BY <1>1, <1>3, <1>4, <1>7, <2>1, NodesStay, Zenon DEF Writing
  <2> QED BY <1>5, <2>3, <2>4, Zenon DEF CodecInv, OnWire, Reading, Finished
<1> QED BY <1>6, <1>7, Zenon

\* What is packed is the whole message, or lacks the last field.
LEMMA PackSequenceStep ==
  ASSUME CodecAssumption, CodecInv, PackSequence PROVE CodecInv'
<1>1. /\ Shapes /\ pc = "write" /\ at = 5 /\ at' = at
      /\ data' = WriteSequence(header) /\ header' = NoList /\ next' = 0 /\ pc' = "wire"
      /\ msg' = msg /\ width' = width /\ mem' = mem
  BY Zenon DEF PackSequence, CodecInv
<1>2. msg \in Messages /\ width \in Widths /\ mem \in [DOMAIN Zeros -> Byte] /\ at \in 0..5
  BY <1>1, Zenon DEF Shapes
<1>3. 5 # 0 /\ 5 - 1 = 4 /\ 5 # 4 /\ 4 \in 0..5 /\ 5 \in 0..5
  BY SMT
<1>4. PICK k \in {4, 5} : Whole(k) /\ header = Sent(k)
  <2>1. \/ SentAll(5) /\ header = Sent(5)
        \/ SentAll(4) /\ ~Made(5) /\ header = Sent(4)
    BY <1>1, <1>3, Zenon DEF CodecInv, Writing
  <2> QED BY <1>3, <2>1, Zenon DEF Whole
<1>5. k \in 0..5 /\ SentAll(k)
  BY <1>3, <1>4, Zenon DEF Whole
<1>6. data' = WriteSequence(Sent(k)) /\ data' \in Seq(Byte)
  BY <1>1, <1>2, <1>4, <1>5, SentIs, Zenon
<1>7. header' \in Seq(Seq(Byte)) /\ next' \in 0..Len(header')
  BY <1>1 DEF NoList
<1>8. Shapes'
  BY <1>1, <1>2, <1>6, <1>7, NodesStay, Zenon DEF Shapes
<1>9. OnWire'
  BY <1>1, <1>4, <1>6, NodesStay, Zenon DEF OnWire
<1>10. pc' # "write" /\ pc' # "read" /\ pc' # "done" /\ pc' # "fault"
  BY <1>1
<1> QED BY <1>8, <1>9, <1>10, Zenon DEF CodecInv, Writing, Reading, Finished

\* The receiver's list is the sender's.
LEMMA UnpackSequenceStep ==
  ASSUME CodecAssumption, CodecInv, UnpackSequence PROVE CodecInv'
<1>1. /\ Shapes /\ pc = "wire" /\ header' = ReadSequence(data)
      /\ next' = Len(SubSeq(header', 1, 1)) /\ pc' = "read" /\ at' = 0
      /\ msg' = msg /\ width' = width /\ data' = data /\ mem' = mem
  BY Zenon DEF UnpackSequence, CodecInv
<1>2. /\ msg \in Messages /\ width \in Widths /\ mem \in [DOMAIN Zeros -> Byte]
      /\ data \in Seq(Byte)
  BY <1>1, Zenon DEF Shapes
<1>3. PICK k \in {4, 5} : Whole(k) /\ data = WriteSequence(Sent(k))
  BY <1>1, Zenon DEF CodecInv, OnWire
<1>4. k \in 0..5 /\ 0 \in 0..5 /\ 0 <= k /\ 0 < k /\ 0 < 5 /\ 0 + 1 = 1 /\ 1 \in 0..k
  BY SMT
<1>5. SentAll(k)
  BY <1>3, Zenon DEF Whole
<1>6. header' = Sent(k) /\ header' \in Seq(Seq(Byte)) /\ Len(header') = k
  BY <1>1, <1>2, <1>3, <1>4, <1>5, SentIs, Zenon
<1>7. next' = 1
  <2> DEFINE h == header'
  <2>1. h \in Seq(Seq(Byte)) /\ Len(h) = k /\ next' = Len(SubSeq(h, 1, 1))
    BY <1>1, <1>6, Zenon
  <2> HIDE DEF h
  <2>2. \A i \in 1..1 : h[i] \in Seq(Byte)
    BY <1>4, <2>1, ElementOfSeq
  <2>3. Len(SubSeq(h, 1, 1)) = 1
    BY <2>2, SubSeqProperties
  <2> QED BY <2>1, <2>3, Zenon
<1>8. Shapes'
  BY <1>1, <1>2, <1>4, <1>6, <1>7, NodesStay, Zenon DEF Shapes
<1>9. \A i \in 1..0 : FALSE
  BY SMT
<1>10. Reading'
  <2>1. Whole(k)' /\ header' = Sent(k)'
    BY <1>1, <1>3, <1>6, NodesStay, Zenon
  <2>2. at' <= k /\ at' < 5 /\ next' = IF at' < k THEN at' + 1 ELSE 0
    BY <1>1, <1>4, <1>7, Zenon
  <2>3. \A i \in 1..at' : Holds(i)'
    BY <1>1, <1>9, Zenon
  <2> QED BY <1>1, <2>1, <2>2, <2>3, Zenon DEF Reading
<1>11. pc' # "write" /\ pc' # "wire" /\ pc' # "done" /\ pc' # "fault"
  BY <1>1
<1> QED BY <1>8, <1>10, <1>11, Zenon DEF CodecInv, Writing, OnWire, Finished

\* A field is stored over nothing but what lies behind it.
LEMMA StoreKeeps ==
  ASSUME CodecAssumption, msg \in Messages, width \in Widths, NEW n \in 1..5,
         mem \in [DOMAIN Zeros -> Byte]
  PROVE  LET m == Store(n, Taken(n))
         IN /\ m \in [DOMAIN Zeros -> Byte]
            /\ \A a \in 1..Len(Member(n)) : m[Offset(n) + a] = Member(n)[a]
            /\ \A i \in 1..(n - 1) : Holds(i) =>
                 \A a \in 1..Len(Member(i)) : m[Offset(i) + a] = Member(i)[a]
<1> DEFINE t == Taken(n)
           m == Store(n, t)
           D == DOMAIN Zeros
           top == Offset(5) + Size[msg.kind][5] + width
           f(a) == IF a - Offset(n) \in DOMAIN t THEN t[a - Offset(n)] ELSE mem[a]
<1>1. D = 1..top /\ DOMAIN mem = D
  BY Zenon DEF Zeros
<1>2. /\ t \in Seq(Byte) /\ Member(n) \in Seq(Byte) /\ Len(Member(n)) <= Len(t)
      /\ Offset(n) + Len(t) <= top /\ \A a \in 1..Len(Member(n)) : t[a] = Member(n)[a]
  BY TakenIs, Zenon
<1>3. DOMAIN t = 1..Len(t) /\ Len(t) \in Nat /\ Len(Member(n)) \in Nat
  BY <1>2, LenProperties
<1>4. \A i \in 1..5 : /\ Offset(i) \in Nat /\ Size[msg.kind][i] \in Nat
                      /\ \A j \in 1..(i - 1) : Offset(j) + Size[msg.kind][j] <= Offset(i)
  <2>1. msg.kind \in {"request", "respond"}
    BY FieldIs, Zenon
  <2>2. \A z \in 4..65 : z \in Nat
    BY SMT
  <2>3. \A i \in 1..5 : LaidOut(msg.kind, i)
    BY <2>1, Layout, Zenon
  <2> QED BY <2>2, <2>3, Zenon DEF LaidOut, Offset
<1>5. top \in Int
  <2> DEFINE o == Offset(5)
             z == Size[msg.kind][5]
  <2>1. 5 \in 1..5 /\ \A w \in {4, 8} : w \in Nat
    BY SMT
  <2>2. o \in Nat /\ z \in Nat
    BY <1>4, <2>1, Zenon
  <2>3. width \in Nat
    BY <2>1, FieldIs, Zenon
  <2> HIDE DEF o, z
  <2>4. o + z + width \in Int
    BY <2>2, <2>3, SMT
  <2> QED BY <2>4, Zenon DEF o, z
<1>6. m = [a \in D |-> f(a)]
  BY <1>1, Zenon DEF Store
<1> HIDE DEF t, D, top
<1>7. m \in [D -> Byte]
  <2>1. ASSUME NEW a \in D PROVE f(a) \in Byte
    <3>1. CASE a - Offset(n) \in DOMAIN t
      <4>1. t[a - Offset(n)] \in Byte
        BY <1>2, <1>3, <3>1, ElementOfSeq, Zenon
      <4> QED BY <3>1, <4>1, Zenon
    <3>2. CASE a - Offset(n) \notin DOMAIN t
      BY <3>2, Zenon DEF D
    <3> QED BY <3>1, <3>2, Zenon
  <2> HIDE DEF f
  <2>2. [a \in D |-> f(a)] \in [D -> Byte]
    BY <2>1, Zenon
  <2> HIDE DEF m
  <2> QED BY <1>6, <2>2, Zenon
<1>8. ASSUME NEW a \in 1..Len(Member(n)) PROVE m[Offset(n) + a] = Member(n)[a]
  <2>1. Offset(n) \in Nat
    BY <1>4, Zenon
  <2>2. a \in 1..Len(t) /\ (Offset(n) + a) - Offset(n) = a /\ Offset(n) + a \in 1..top
    BY <1>2, <1>3, <1>5, <2>1, SMT
  <2>3. m[Offset(n) + a] = f(Offset(n) + a)
    <3> HIDE DEF f
    <3> QED BY <1>1, <1>6, <2>2, Zenon
  <2>4. f(Offset(n) + a) = t[a]
    BY <1>3, <2>2, Zenon
  <2> QED BY <1>2, <2>3, <2>4, Zenon
<1>9. ASSUME NEW i \in 1..(n - 1), Holds(i), NEW a \in 1..Len(Member(i))
      PROVE  m[Offset(i) + a] = Member(i)[a]
  <2>1. i \in 1..5
    BY SMT
  <2>2. Member(i) \in Seq(Byte) /\ Len(Member(i)) <= Size[msg.kind][i]
    BY <2>1, TakenIs, Zenon
  <2>3. Len(Member(i)) \in Nat
    BY <2>2, LenProperties
  <2>4. Offset(i) + Size[msg.kind][i] <= Offset(n) /\ Offset(i) \in Nat /\ Offset(n) \in Nat
        /\ Size[msg.kind][i] \in Nat
    BY <1>4, <2>1, Zenon
  <2>5. Offset(i) + a \in 1..top /\ (Offset(i) + a) - Offset(n) \notin 1..Len(t)
    <3> DEFINE oi == Offset(i)
               on == Offset(n)
               z  == Size[msg.kind][i]
               lm == Len(Member(i))
               lt == Len(t)
    <3>1. /\ oi \in Nat /\ on \in Nat /\ z \in Nat /\ lm \in Nat /\ lt \in Nat /\ top \in Int
          /\ lm <= z /\ oi + z <= on /\ on + lt <= top /\ a \in 1..lm
      BY <1>2, <1>3, <1>5, <2>2, <2>3, <2>4, Zenon
    <3> HIDE DEF oi, on, z, lm, lt
    <3>2. oi + a \in 1..top /\ (oi + a) - on \notin 1..lt
      BY <3>1, SMT
    <3> QED BY <3>2, Zenon DEF oi, on, lt
  <2>6. m[Offset(i) + a] = f(Offset(i) + a)
    <3> HIDE DEF f
    <3> QED BY <1>1, <1>6, <2>5, Zenon
  <2>7. f(Offset(i) + a) = mem[Offset(i) + a]
    BY <1>3, <2>5, Zenon
  <2>8. mem[Offset(i) + a] = Member(i)[a]
    BY <1>9, Zenon DEF Holds
  <2> QED BY <2>6, <2>7, <2>8, Zenon
<1> QED BY <1>7, <1>8, <1>9, Zenon DEF t, D

\* One field more is where it belongs, and the fields before it stay.
LEMMA ReadNodeStep ==
  ASSUME CodecAssumption, CodecInv, ReadNode PROVE CodecInv'
<1>1. /\ Shapes /\ pc = "read" /\ next # 0
      /\ mem' = ReadField(header[next])
      /\ next' = IF next < Len(header) THEN next + 1 ELSE 0
      /\ at' = at + 1
      /\ pc' = IF at' = 5 THEN "done" ELSE "read"
      /\ msg' = msg /\ width' = width /\ header' = header /\ data' = data
  BY Zenon DEF ReadNode, CodecInv
<1>2. /\ msg \in Messages /\ width \in Widths /\ data \in Seq(Byte) /\ header \in Seq(Seq(Byte))
      /\ mem \in [DOMAIN Zeros -> Byte] /\ at \in 0..5
  BY <1>1, Zenon DEF Shapes
<1>3. PICK k \in {4, 5} : /\ Whole(k) /\ header = Sent(k) /\ at <= k /\ at < 5
                          /\ next = (IF at < k THEN at + 1 ELSE 0)
                          /\ \A i \in 1..at : Holds(i)
  BY <1>1, Zenon DEF CodecInv, Reading
<1> DEFINE n == at + 1
<1>4. at < k /\ next = n
  BY <1>1, <1>3, Zenon
<1>5. /\ n \in 1..5 /\ n \in 1..k /\ k \in 0..5 /\ n - 1 = at /\ n <= k /\ (n < k => n + 1 \in 0..k)
      /\ 0 \in 0..k /\ (n # 5 => n < 5) /\ n \in 0..5
  BY <1>2, <1>3, <1>4, SMT
<1>6. SentAll(k)
  BY <1>3, Zenon DEF Whole
<1>7. Len(header) = k /\ header[next] = NodeOf(n)
  <2>1. Len(Sent(k)) = k /\ \A i \in 1..k : Sent(k)[i] = NodeOf(i)
    BY <1>2, <1>5, <1>6, SentIs, Zenon
  <2>2. Sent(k)[n] = NodeOf(n)
    BY <1>5, <2>1, Zenon
  <2> QED BY <1>3, <1>4, <2>1, <2>2, Zenon
<1>8. Made(n)
  BY <1>5, <1>6, Zenon DEF SentAll
<1>9. mem' = Store(n, Taken(n))
  <2>1. (IF IsInt(n) THEN Little(ReadInteger(NodeOf(n), width))
                     ELSE ReadPrintableString(NodeOf(n))) = Taken(n)
    BY <1>2, <1>5, <1>8, NodeIs, Zenon
  <2> QED BY <1>1, <1>7, <2>1, Zenon DEF ReadField
<1> DEFINE m == Store(n, Taken(n))
<1>10. /\ m \in [DOMAIN Zeros -> Byte]
       /\ \A a \in 1..Len(Member(n)) : m[Offset(n) + a] = Member(n)[a]
       /\ \A i \in 1..(n - 1) : Holds(i) =>
            \A a \in 1..Len(Member(i)) : m[Offset(i) + a] = Member(i)[a]
  BY <1>2, <1>5, StoreKeeps, Zenon
<1>11. mem' = m
  BY <1>9, Zenon
<1> HIDE DEF m
<1>12. \A i \in 1..n : Holds(i)'
  <2> SUFFICES ASSUME NEW i \in 1..n PROVE Holds(i)'
    BY Zenon
  <2>1. i \in 1..at \/ i = n
    BY <1>2, SMT
  <2>2. \A a \in 1..Len(Member(i)) : m[Offset(i) + a] = Member(i)[a]
    <3>1. CASE i \in 1..at
      <4>1. Holds(i)
        BY <1>3, <3>1, Zenon
      <4> QED BY <1>5, <1>10, <3>1, <4>1, Zenon
    <3>2. CASE i = n
      BY <1>10, <3>2, Zenon
    <3> QED BY <2>1, <3>1, <3>2, Zenon
  <2>3. Member(i)' = Member(i) /\ Offset(i)' = Offset(i)
    BY <1>1, NodesStay, Zenon
  <2> QED BY <1>11, <2>2, <2>3, Zenon DEF Holds
<1>13. next' = (IF n < k THEN n + 1 ELSE 0) /\ at' = n
  BY <1>1, <1>4, <1>7, Zenon
<1>14. next' \in 0..Len(header')
  BY <1>1, <1>5, <1>7, <1>13, Zenon
<1>15. Shapes'
  <2>1. mem' \in [(DOMAIN Zeros)' -> Byte]
    BY <1>1, <1>10, <1>11, NodesStay, Zenon
  <2>2. pc' \in {"write", "wire", "read", "done", "fault"}
    BY <1>1, Zenon
  <2> QED BY <1>1, <1>2, <1>5, <1>13, <1>14, <2>1, <2>2, Zenon DEF Shapes
<1>16. CASE n = 5
  <2>1. pc' = "done"
    BY <1>1, <1>16, Zenon
  <2>2. pc' # "write" /\ pc' # "wire" /\ pc' # "read" /\ pc' # "fault"
    BY <2>1
  <2>3. \A i \in 1..5 : Holds(i)'
    BY <1>12, <1>16, Zenon
  <2>4. Finished'
    BY <2>2, <2>3, Zenon DEF Finished
  <2> QED BY <1>15, <2>2, <2>4, Zenon DEF CodecInv, Writing, OnWire, Reading
<1>17. CASE n # 5
  <2>1. pc' = "read"
    BY <1>1, <1>17, Zenon
  <2>2. pc' # "write" /\ pc' # "wire" /\ pc' # "done" /\ pc' # "fault"
    BY <2>1
  <2>3. Whole(k)' /\ header' = Sent(k)'
    BY <1>1, <1>3, NodesStay, Zenon
  <2>4. at' <= k /\ at' < 5 /\ next' = IF at' < k THEN at' + 1 ELSE 0
    BY <1>5, <1>13, <1>17, Zenon
  <2>5. \A i \in 1..at' : Holds(i)'
    BY <1>12, <1>13, Zenon
  <2>6. Reading'
    BY <2>3, <2>4, <2>5, Zenon DEF Reading
  <2> QED BY <1>15, <2>2, <2>6, Zenon DEF CodecInv, Writing, OnWire, Finished
<1> QED BY <1>16, <1>17, Zenon

\* A NULL that is followed is the node of a number that was refused.
LEMMA FollowStep ==
  ASSUME CodecAssumption, CodecInv, Follow PROVE CodecInv'
<1>1. /\ Shapes /\ pc' = "fault"
      /\ msg' = msg /\ width' = width /\ at' = at /\ header' = header /\ next' = next
      /\ data' = data /\ mem' = mem
      /\ IF pc = "write" THEN at \in 1..4 /\ next = 0
         ELSE pc = "read" /\ (next # 0 => ~IsInt(at + 1) /\ ReadPrintableString(header[next]) = NoNode)
  BY Zenon DEF Follow, CodecInv
<1>2. /\ msg \in Messages /\ width \in Widths /\ at \in 0..5
      /\ header \in Seq(Seq(Byte)) /\ next \in 0..Len(header) /\ data \in Seq(Byte)
      /\ mem \in [DOMAIN Zeros -> Byte]
  BY <1>1, Zenon DEF Shapes
<1>3. Shapes'
  BY <1>1, <1>2, NodesStay, Zenon DEF Shapes
<1>4. \E i \in 1..5 : ~Made(i)
  <2>1. CASE pc = "write"
    <3>1. at \in 1..4 /\ next = 0
      BY <1>1, <2>1, Zenon
    <3>2. at # 0 /\ at \in 1..5
      BY <3>1, SMT
    <3>3. next # at
      BY <3>1, <3>2, Zenon
    <3>4. ~Made(at)
      BY <2>1, <3>2, <3>3, Zenon DEF CodecInv, Writing
    <3> QED BY <3>2, <3>4, Zenon
  <2>2. CASE pc # "write"
    <3>1. pc = "read" /\ (next # 0 => ~IsInt(at + 1) /\ ReadPrintableString(header[next]) = NoNode)
      BY <1>1, <2>2, Zenon
    <3>2. PICK k \in {4, 5} : /\ Whole(k) /\ header = Sent(k) /\ at <= k /\ at < 5
                              /\ next = (IF at < k THEN at + 1 ELSE 0)
      BY <3>1, Zenon DEF CodecInv, Reading
    <3>3. CASE at < k
      <4>1. at + 1 \in 1..5 /\ at + 1 \in 1..k /\ k \in 0..5 /\ at + 1 # 0
        BY <1>2, <3>2, <3>3, SMT
      <4>2. next = at + 1 /\ next # 0
        BY <3>2, <3>3, <4>1, Zenon
      <4>3. SentAll(k)
        BY <3>2, Zenon DEF Whole
      <4>4. \A i \in 1..k : Sent(k)[i] = NodeOf(i)
        BY <1>2, <4>1, <4>3, SentIs, Zenon
      <4>5. Sent(k)[at + 1] = NodeOf(at + 1)
        BY <4>1, <4>4, Zenon
      <4>6. header[next] = NodeOf(at + 1)
        BY <3>2, <4>2, <4>5, Zenon
      <4> QED BY <1>2, <3>1, <4>1, <4>2, <4>6, NodeIs, Zenon
    <3>4. CASE ~(at < k)
      <4>1. k = 4 /\ 5 \in 1..5
        BY <1>2, <3>2, <3>4, SMT
      <4> QED BY <3>2, <4>1, Zenon DEF Whole
    <3> QED BY <3>3, <3>4, Zenon
  <2> QED BY <2>1, <2>2, Zenon
<1>5. \E i \in 1..5 : ~Made(i)'
  BY <1>1, <1>4, NodesStay, Zenon
<1>6. pc' # "write" /\ pc' # "wire" /\ pc' # "read" /\ pc' # "done"
  BY <1>1
<1>7. Finished'
  BY <1>5, <1>6, Zenon DEF Finished
<1> QED BY <1>3, <1>6, <1>7, Zenon DEF CodecInv, Writing, OnWire, Reading

\* Every step keeps the invariant.
LEMMA StepInv ==
  ASSUME CodecAssumption, CodecInv, [Next]_vars PROVE CodecInv'
<1>1. CASE Next
  BY <1>1, WriteHeadNodeStep, WriteNextNodeStep, PackSequenceStep, UnpackSequenceStep,
     ReadNodeStep, FollowStep, Zenon DEF Next
<1>2. CASE UNCHANGED vars
  <2>1. /\ msg' = msg /\ width' = width /\ pc' = pc /\ at' = at /\ header' = header
        /\ next' = next /\ data' = data /\ mem' = mem
    BY <1>2, Zenon DEF vars
  <2>2. Shapes /\ Writing /\ OnWire /\ Reading /\ Finished
    BY Zenon DEF CodecInv
  <2>3. ASSUME NEW i, Holds(i) PROVE Holds(i)'
    <3>1. Member(i)' = Member(i) /\ Offset(i)' = Offset(i) /\ mem' = mem
      BY <2>1, NodesStay, Zenon
    <3> QED BY <2>3, <3>1, Zenon DEF Holds
  <2>4. Shapes'
    BY <2>1, <2>2, NodesStay, Zenon DEF Shapes
  <2>5. Writing'
    BY <2>1, <2>2, NodesStay, Zenon DEF Writing
  <2>6. OnWire'
    BY <2>1, <2>2, NodesStay, Zenon DEF OnWire
  <2>7. Reading'
    BY <2>1, <2>2, <2>3, NodesStay, Zenon DEF Reading
  <2>8. Finished'
    BY <2>1, <2>2, <2>3, NodesStay, Zenon DEF Finished
  <2> QED BY <2>4, <2>5, <2>6, <2>7, <2>8, Zenon DEF CodecInv
<1> QED BY <1>1, <1>2, Zenon

\* The inductive invariant: the list is the nodes of the fields written, the bytes
\* are their sequence, the receiver's list is the sender's, and every field read is
\* in its member.
THEOREM CodecInvariant == Spec => []CodecInv
<1>1. Init => CodecInv
  BY CodecAssumption, InitInv
<1>2. CodecInv /\ [Next]_vars => CodecInv'
  BY CodecAssumption, StepInv
<1> QED BY <1>1, <1>2, PTL DEF Spec

\* List, bytes and structure keep their shapes, for every message and width of long.
THEOREM CodecTypeCorrect == Spec => []TypeOK
<1>1. CodecInv => TypeOK
  <2> SUFFICES ASSUME CodecInv PROVE TypeOK
    BY Zenon
  <2>1. /\ msg \in Messages /\ width \in Widths
        /\ pc \in {"write", "wire", "read", "done", "fault"}
        /\ at \in 0..5 /\ next \in 0..Len(header)
        /\ header \in Seq(Seq(Byte)) /\ data \in Seq(Byte) /\ mem \in [DOMAIN Zeros -> Byte]
    BY Zenon DEF CodecInv, Shapes
  <2>2. ASSUME NEW s \in Seq(Byte) PROVE ToSet(s) \subseteq 0..255
    <3>1. \A i \in DOMAIN s : s[i] \in Byte
      BY LenProperties, ElementOfSeq
    <3>2. Byte = 0..255
      BY DEF Byte
    <3> QED BY <3>1, <3>2, Zenon DEF ToSet
  <2>3. \A n \in ToSet(header) : n \in Seq(Byte)
    <3>1. DOMAIN header = 1..Len(header) /\ \A i \in 1..Len(header) : header[i] \in Seq(Byte)
      BY <2>1, LenProperties, ElementOfSeq
    <3> QED BY <3>1, Zenon DEF ToSet
  <2>4. DOMAIN mem = DOMAIN Zeros /\ Range(mem) \subseteq 0..255
    <3>1. DOMAIN mem = DOMAIN Zeros /\ \A a \in DOMAIN mem : mem[a] \in Byte
      BY <2>1, Zenon
    <3>2. Byte = 0..255
      BY DEF Byte
    <3> QED BY <3>1, <3>2, Zenon DEF Range
  <2> QED BY <2>1, <2>2, <2>3, <2>4, Zenon DEF TypeOK
<1> QED BY <1>1, CodecInvariant, PTL

\* What the sender encoded is in the receiver's structure when it is done, although
\* an int is stored with the width of long over the members behind it (msgDecode).
THEOREM MessageDelivered == Spec => []Delivered
<1>1. CodecInv => Delivered
  <2> SUFFICES ASSUME CodecInv, pc = "done", NEW i \in Fields(msg.kind),
                      NEW a \in DOMAIN Member(i)
               PROVE  mem[Offset(i) + a] = Member(i)[a]
    BY Zenon DEF Delivered, Member
  <2>1. msg \in Messages /\ width \in Widths /\ \A j \in 1..5 : Holds(j)
    BY Zenon DEF CodecInv, Shapes, Finished
  <2>2. msg.kind \in {"request", "respond"}
    BY CodecAssumption, <2>1, Zenon DEF CodecAssumption
  <2>3. i \in 1..5
    BY <2>2, Layout, Zenon DEF Fields
  <2>4. Member(i) \in Seq(Byte)
    BY CodecAssumption, <2>1, <2>3, TakenIs, Zenon
  <2>5. a \in 1..Len(Member(i))
    BY <2>4, LenProperties
  <2> QED BY <2>1, <2>3, <2>5, Zenon DEF Holds
<1> QED BY <1>1, CodecInvariant, PTL

\* The bytes of a message without a negative number are its DER encoding by X.690.
THEOREM DerEncoded == Spec => []EncodingIsDer
<1>1. CodecInv => EncodingIsDer
  <2> SUFFICES ASSUME CodecInv, pc = "wire", \A i \in Ints[msg.kind] : msg.fields[i][1] >= 0
               PROVE  data = Der(48, FlattenSeq([i \in 1..5 |-> DerField(i)]))
    BY Zenon DEF EncodingIsDer
  <2>1. msg \in Messages /\ width \in Widths
    BY Zenon DEF CodecInv, Shapes
  <2>2. PICK k \in {4, 5} : Whole(k) /\ data = WriteSequence(Sent(k))
    BY Zenon DEF CodecInv, OnWire
  <2>3. ASSUME NEW i \in 1..5 PROVE Made(i) /\ NodeOf(i) = DerField(i)
    <3>1. CASE IsInt(i)
      <4> DEFINE v == msg.fields[i][1]
      <4>1. v \in Int32 /\ v \in Int /\ v >= 0 /\ width \in {4, 8}
        BY CodecAssumption, <2>1, <3>1, FieldIs, Zenon DEF IsInt
      <4> HIDE DEF v
      <4>2. v \in Positive /\ ~(v < 0)
        BY <4>1, SMT DEF Int32, Positive
      <4>3. WriteInteger(Word(v, width)) = Der(2, DerNumber(v))
        BY <4>1, <4>2, IntegerIsDer, Zenon
      <4>4. NodeOf(i) = DerField(i)
        BY <3>1, <4>3, Zenon DEF NodeOf, DerField, v
      <4>5. Made(i)
        BY CodecAssumption, <2>1, <4>2, NodeIs, Zenon DEF v
      <4> QED BY <4>4, <4>5
    <3>2. CASE ~IsInt(i)
      <4> DEFINE s == Append(msg.fields[i], 0)
      <4>1. s \in Seq(Byte) /\ Len(s) <= Size[msg.kind][i] /\ Size[msg.kind][i] \in 4..65
        BY CodecAssumption, <2>1, <3>2, FieldIs, Zenon
      <4> HIDE DEF s
      <4>2. Len(s) \in Short
        <5>1. Len(s) \in Nat
          BY <4>1, LenProperties, Zenon
        <5>2. \A z \in 4..65 : \A l \in Nat : l <= z => l \in Short
          BY SMT DEF Short
        <5> QED BY <4>1, <5>1, <5>2, Zenon
      <4>3. WriteTagAndLength(PRINTABLE, s) = Der(PRINTABLE, s)
        BY <4>1, <4>2, TagAndLengthIsDer, Zenon
      <4>4. NodeOf(i) = DerField(i)
        BY <3>2, <4>3, Zenon DEF NodeOf, DerField, WritePrintableString, PRINTABLE, s
      <4>5. Made(i)
        BY CodecAssumption, <2>1, <3>2, NodeIs, Zenon
      <4> QED BY <4>4, <4>5
    <3> QED BY <3>1, <3>2, Zenon
  <2>4. k = 5
    <3>1. 5 \in 1..5
      BY SMT
    <3> QED BY <2>2, <2>3, <3>1, Zenon DEF Whole
  <2>5. Sent(5) = [i \in 1..5 |-> DerField(i)]
    BY <2>3, Zenon DEF Sent
  <2>6. 5 \in 0..5 /\ SentAll(5)
    <3>1. 5 \in 0..5
      BY SMT
    <3> QED BY <2>2, <2>4, <3>1, Zenon DEF Whole
  <2>7. Sent(5) \in Seq(Seq(Byte)) /\ Len(FlattenSeq(Sent(5))) \in Short
    BY CodecAssumption, <2>1, <2>6, SentIs, Zenon
  <2>8. FlattenSeq(Sent(5)) \in Seq(Byte)
    BY <2>7, FlattenLaid, Zenon
  <2>9. WriteSequence(Sent(5)) = Der(SEQUENCE, FlattenSeq(Sent(5)))
    BY <2>7, <2>8, TagAndLengthIsDer, Zenon DEF WriteSequence
  <2> QED BY <2>2, <2>4, <2>5, <2>9, Zenon DEF SEQUENCE
<1> QED BY <1>1, CodecInvariant, PTL

\* No codec follows a NULL pointer but with a negative number where long has eight
\* bytes.
THEOREM FaultsOutOfRange == Spec => []FaultsOnlyOutOfRange
<1>1. CodecInv => FaultsOnlyOutOfRange
  <2> SUFFICES ASSUME CodecInv, pc = "fault"
               PROVE  width = 8 /\ \E i \in Ints[msg.kind] : msg.fields[i][1] < 0
    BY Zenon DEF FaultsOnlyOutOfRange
  <2>1. msg \in Messages /\ width \in Widths
    BY Zenon DEF CodecInv, Shapes
  <2>2. PICK i \in 1..5 : ~Made(i)
    BY Zenon DEF CodecInv, Finished
  <2>3. IsInt(i) /\ width = 8 /\ msg.fields[i][1] < 0
    BY CodecAssumption, <2>1, <2>2, NodeIs, Zenon
  <2> QED BY <2>3, Zenon DEF IsInt
<1> QED BY <1>1, CodecInvariant, PTL
=============================================================================
