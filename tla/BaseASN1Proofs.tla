--------------------------- MODULE BaseASN1Proofs ---------------------------
(***************************************************************************)
(* What the writers of BaseASN1 write, its readers read back: a length, a  *)
(* string, an integer on either width of long, and a list of nodes of any  *)
(* length.  An integer is refused only where long has eight bytes and the  *)
(* number is negative.                                                     *)
(*                                                                         *)
(* FlattenSeq, Number and Nodes are recursive functions, each a CHOOSE: a  *)
(* lemma first says that the function exists, by induction, and then what  *)
(* it does step by step.  The induction is over sets of numbers            *)
(* (SetInduction), whose statement takes no operator.                      *)
(***************************************************************************)
EXTENDS BaseASN1, WellFoundedInduction, SequenceTheorems, TLAPS

\* What a byte can be.
Byte == 0..255

\* A set of numbers with 0 and, with each, the next, is all of them.
LEMMA SetInduction ==
  ASSUME NEW S, S \subseteq Nat, 0 \in S, \A n \in S : n + 1 \in S
  PROVE  S = Nat
<1> DEFINE R == {ss \in Nat \X Nat : ss[1] < ss[2]}
<1> SUFFICES ASSUME Nat \ S # {} PROVE FALSE
  OBVIOUS
<1>1. IsWellFoundedOn(R, Nat)
  <2>1. R = OpToRel(<, Nat)
    BY DEF OpToRel
  <2> QED BY <2>1, NatLessThanWellFounded, Zenon
<1>2. \A a, b \in Nat : a < b => <<a, b>> \in R
  OBVIOUS
<1> HIDE DEF R
<1>3. PICK x \in Nat \ S : \A y \in Nat \ S : <<y, x>> \notin R
  <2> DEFINE T == Nat \ S
  <2>1. T \subseteq Nat /\ T # {}
    OBVIOUS
  <2> HIDE DEF T
  <2>2. \E x \in T : \A y \in T : <<y, x>> \notin R
    BY <1>1, <2>1, WFMin, Zenon
  <2> QED BY <2>2 DEF T
<1>4. x # 0 /\ x - 1 \in Nat /\ x - 1 < x
  OBVIOUS
<1>5. x - 1 \in S
  BY <1>2, <1>3, <1>4
<1>6. (x - 1) + 1 \in S
  BY <1>5
<1> QED BY <1>6

-----------------------------------------------------------------------------
\* Flat(ns, n): FlattenSeq's function, for the first n.
IsFlat(g, ns, n) == g = [i \in 1..n |-> IF i = 1 THEN ns[i] ELSE g[i - 1] \o ns[i]]

\* There is such a function, for every n.
LEMMA FlatExists ==
  ASSUME NEW ns PROVE \A n \in Nat : \E g : IsFlat(g, ns, n)
<1> DEFINE S == {n \in Nat : \E g : IsFlat(g, ns, n)}
<1>1. 0 \in S
  <2> DEFINE g == [i \in 1..0 |-> <<>>]
  <2>1. IsFlat(g, ns, 0)
    BY DEF IsFlat
  <2> QED BY <2>1
<1>2. ASSUME NEW n \in S PROVE n + 1 \in S
  <2>1. PICK g : IsFlat(g, ns, n)
    OBVIOUS
  <2>a. n \in Nat
    OBVIOUS
  <2> HIDE DEF S
  <2> DEFINE h == [i \in 1..(n + 1) |-> IF i \in 1..n THEN g[i]
                                        ELSE IF i = 1 THEN ns[i] ELSE g[n] \o ns[i]]
             k == [i \in 1..(n + 1) |-> IF i = 1 THEN ns[i] ELSE h[i - 1] \o ns[i]]
  <2>2. ASSUME NEW i \in 1..(n + 1) PROVE h[i] = k[i]
    <3>1. CASE i = n + 1 /\ i # 1
      <4>1. i - 1 \in 1..(n + 1) /\ i - 1 = n /\ i - 1 \in 1..n
        BY <2>a, <3>1
      <4>2. h[i - 1] = g[n]
        BY <4>1
      <4>3. i \notin 1..n
        BY <2>a, <3>1
      <4>4. h[i] = g[n] \o ns[i] /\ k[i] = h[i - 1] \o ns[i]
        BY <4>3, <3>1, Zenon
      <4> QED BY <4>2, <4>4, Zenon
    <3>2. CASE i = n + 1 /\ i = 1
      BY <2>a, <3>2
    <3>3. CASE i \in 1..n
      <4>1. g[i] = IF i = 1 THEN ns[i] ELSE g[i - 1] \o ns[i]
        BY <2>1, <3>3 DEF IsFlat
      <4>2. i # 1 => i - 1 \in 1..n /\ i - 1 \in 1..(n + 1)
        BY <2>a, <3>3
      <4> QED BY <3>3, <4>1, <4>2
    <3> QED BY <2>a, <3>1, <3>2, <3>3
  <2>3. h = k
    BY <2>2
  <2>4. IsFlat(h, ns, n + 1)
    BY <2>3 DEF IsFlat
  <2> QED BY <2>4, <2>a DEF S
<1> HIDE DEF S
<1>3. S = Nat
  BY <1>1, <1>2, SetInduction DEF S
<1> QED BY <1>3 DEF S

\* FlattenSeq gives the last value of that function.
LEMMA FlattenIs ==
  ASSUME NEW ns, Len(ns) \in Nat, Len(ns) # 0
  PROVE  \E g : IsFlat(g, ns, Len(ns)) /\ FlattenSeq(ns) = g[Len(ns)]
<1> DEFINE g == CHOOSE f : f = [i \in 1..Len(ns) |-> IF i = 1 THEN ns[i] ELSE f[i - 1] \o ns[i]]
<1>1. FlattenSeq(ns) = g[Len(ns)]
  BY DEF FlattenSeq
<1>2. \E f : f = [i \in 1..Len(ns) |-> IF i = 1 THEN ns[i] ELSE f[i - 1] \o ns[i]]
  BY FlatExists DEF IsFlat
<1>3. IsFlat(g, ns, Len(ns))
  BY <1>2, Zenon DEF IsFlat
<1> QED BY <1>1, <1>3

\* In d the first n of the nodes ns lie one after the other, node i from pos[i] on.
Laid(ns, n, pos, d) ==
  /\ pos \in [1..(n + 1) -> Nat \ {0}]
  /\ pos[n + 1] = Len(d) + 1
  /\ \A i \in 1..n : /\ pos[i + 1] = pos[i] + Len(ns[i])
                     /\ pos[i + 1] <= Len(d) + 1
                     /\ \A j \in 1..Len(ns[i]) : d[pos[i] + j - 1] = ns[i][j]

\* A node more is laid at the end.
LEMMA LaidAppend ==
  ASSUME NEW ns \in Seq(Seq(Byte)), NEW n \in Nat, n < Len(ns), NEW d \in Seq(Byte),
         NEW pos, Laid(ns, n, pos, d)
  PROVE  \E q : q[1] = pos[1] /\ Laid(ns, n + 1, q, d \o ns[n + 1])
<1> DEFINE e == ns[n + 1]
           q == [i \in 1..(n + 2) |-> IF i = n + 2 THEN Len(d) + Len(e) + 1 ELSE pos[i]]
<1>1. e \in Seq(Byte) /\ Len(e) \in Nat /\ Len(d) \in Nat
  BY ElementOfSeq, LenProperties
<1>2. /\ d \o e \in Seq(Byte) /\ Len(d \o e) = Len(d) + Len(e)
      /\ \A i \in 1..(Len(d) + Len(e)) : (d \o e)[i] = IF i <= Len(d) THEN d[i] ELSE e[i - Len(d)]
  BY <1>1, ConcatProperties
<1> HIDE DEF e
<1>3. /\ pos \in [1..(n + 1) -> Nat \ {0}] /\ pos[n + 1] = Len(d) + 1
      /\ \A i \in 1..n : /\ pos[i + 1] = pos[i] + Len(ns[i])
                         /\ pos[i + 1] <= Len(d) + 1
                         /\ \A j \in 1..Len(ns[i]) : d[pos[i] + j - 1] = ns[i][j]
  BY DEF Laid
<1>4. /\ q \in [1..(n + 2) -> Nat \ {0}] /\ q[n + 2] = Len(d \o e) + 1 /\ q[1] = pos[1]
      /\ \A i \in 1..(n + 1) : q[i] = pos[i]
  BY <1>1, <1>2, <1>3
<1> HIDE DEF q
<1>5. ASSUME NEW i \in 1..(n + 1)
      PROVE  /\ q[i + 1] = q[i] + Len(ns[i]) /\ q[i + 1] <= Len(d \o e) + 1
             /\ \A j \in 1..Len(ns[i]) : (d \o e)[q[i] + j - 1] = ns[i][j]
  <2>1. CASE i = n + 1
    <3>1. q[i] = Len(d) + 1 /\ q[i + 1] = Len(d) + Len(e) + 1 /\ ns[i] = e
      BY <1>2, <1>3, <1>4, <2>1 DEF e
    <3>2. ASSUME NEW j \in 1..Len(e) PROVE (d \o e)[q[i] + j - 1] = e[j]
      <4>1. \A u \in Nat, w \in Nat : \A k \in 1..w :
              /\ u + k \in 1..(u + w) /\ ~(u + k <= u) /\ (u + k) - u = k
              /\ (u + 1) + k - 1 = u + k
        BY SMT
      <4>2. /\ Len(d) + j \in 1..(Len(d) + Len(e)) /\ ~(Len(d) + j <= Len(d))
            /\ (Len(d) + j) - Len(d) = j
            /\ (Len(d) + 1) + j - 1 = Len(d) + j
        BY <1>1, <4>1, Zenon
      <4>3. (d \o e)[Len(d) + j] = e[j]
        BY <1>2, <4>2, Zenon
      <4> QED BY <3>1, <4>2, <4>3, Zenon
    <3> QED BY <1>1, <1>2, <3>1, <3>2
  <2>2. CASE i \in 1..n
    <3> DEFINE a == pos[i]
               l == Len(ns[i])
    <3>1. /\ q[i] = a /\ q[i + 1] = a + l /\ a \in Nat /\ a >= 1 /\ a + l <= Len(d) + 1
          /\ \A j \in 1..l : d[a + j - 1] = ns[i][j]
      <4>1. i + 1 \in 1..(n + 1) /\ i \in 1..(n + 1)
        BY <2>2
      <4>2. q[i] = a /\ q[i + 1] = pos[i + 1]
        BY <1>4, <4>1, Zenon
      <4>3. /\ pos[i + 1] = a + l /\ a + l <= Len(d) + 1
            /\ \A j \in 1..l : d[a + j - 1] = ns[i][j]
        BY <1>3, <2>2, Zenon
      <4>4. a \in Nat /\ a >= 1
        BY <1>3, <4>1
      <4> QED BY <4>2, <4>3, <4>4
    <3>2. l \in Nat
      BY <2>2, ElementOfSeq, LenProperties
    <3>3. ASSUME NEW j \in 1..l PROVE (d \o e)[q[i] + j - 1] = ns[i][j]
      <4> HIDE DEF a, l
      <4>1. /\ Len(d) \in Nat /\ Len(e) \in Nat /\ a \in Nat /\ 1 <= a
            /\ l \in Nat /\ a + l <= Len(d) + 1 /\ j \in Int /\ 1 <= j /\ j <= l
        BY <1>1, <3>1, <3>2, SMT
      <4>2. \A u \in Nat, w \in Nat : 1 <= a /\ a + l <= u + 1 =>
              a + j - 1 \in 1..(u + w) /\ a + j - 1 <= u
        BY <4>1, SMT
      <4>3. a + j - 1 \in 1..(Len(d) + Len(e)) /\ a + j - 1 <= Len(d)
        BY <4>1, <4>2, Zenon
      <4> QED BY <1>2, <3>1, <4>3
    <3>4. a + l <= Len(d \o e) + 1
      <4> HIDE DEF a, l
      <4> QED BY <1>1, <1>2, <3>1, <3>2
    <3> QED BY <3>1, <3>3, <3>4
  <2>3. i = n + 1 \/ i \in 1..n
    OBVIOUS
  <2> QED BY <2>1, <2>2, <2>3, Zenon
<1>6. Laid(ns, n + 1, q, d \o e)
  <2>1. (n + 1) + 1 = n + 2
    OBVIOUS
  <2> QED BY <1>4, <1>5, <2>1 DEF Laid
<1> QED BY <1>4, <1>6 DEF e

\* Behind some bytes the nodes still lie one after the other.
LEMMA LaidBehind ==
  ASSUME NEW ns \in Seq(Seq(Byte)), NEW n \in Nat, n <= Len(ns), NEW d \in Seq(Byte),
         NEW pos, Laid(ns, n, pos, d), NEW h \in Seq(Byte)
  PROVE  \E q : q[1] = Len(h) + pos[1] /\ Laid(ns, n, q, h \o d)
<1> DEFINE q == [i \in 1..(n + 1) |-> Len(h) + pos[i]]
<1>1. /\ h \o d \in Seq(Byte) /\ Len(h \o d) = Len(h) + Len(d)
      /\ \A i \in 1..(Len(h) + Len(d)) : (h \o d)[i] = IF i <= Len(h) THEN h[i] ELSE d[i - Len(h)]
  BY ConcatProperties
<1>2. Len(d) \in Nat /\ Len(h) \in Nat
  BY LenProperties
<1>3. /\ pos \in [1..(n + 1) -> Nat \ {0}] /\ pos[n + 1] = Len(d) + 1
      /\ \A i \in 1..n : /\ pos[i + 1] = pos[i] + Len(ns[i])
                         /\ pos[i + 1] <= Len(d) + 1
                         /\ \A j \in 1..Len(ns[i]) : d[pos[i] + j - 1] = ns[i][j]
  BY DEF Laid
<1>4. /\ q \in [1..(n + 1) -> Nat \ {0}] /\ q[n + 1] = Len(h \o d) + 1
      /\ \A i \in 1..(n + 1) : q[i] = Len(h) + pos[i]
  BY <1>1, <1>2, <1>3
<1> HIDE DEF q
<1>5. ASSUME NEW i \in 1..n
      PROVE  /\ q[i + 1] = q[i] + Len(ns[i]) /\ q[i + 1] <= Len(h \o d) + 1
             /\ \A j \in 1..Len(ns[i]) : (h \o d)[q[i] + j - 1] = ns[i][j]
  <2> DEFINE a == pos[i]
             l == Len(ns[i])
  <2>1. /\ q[i] = Len(h) + a /\ q[i + 1] = Len(h) + (a + l) /\ a \in Nat /\ a >= 1
        /\ a + l <= Len(d) + 1 /\ \A j \in 1..l : d[a + j - 1] = ns[i][j]
    <3>1. i \in 1..(n + 1) /\ i + 1 \in 1..(n + 1)
      OBVIOUS
    <3>2. q[i] = Len(h) + a /\ q[i + 1] = Len(h) + pos[i + 1]
      BY <1>4, <3>1, Zenon
    <3>3. /\ pos[i + 1] = a + l /\ a + l <= Len(d) + 1
          /\ \A j \in 1..l : d[a + j - 1] = ns[i][j]
      BY <1>3, Zenon
    <3>4. a \in Nat /\ a >= 1
      BY <1>3, <3>1
    <3> QED BY <3>2, <3>3, <3>4
  <2>2. l \in Nat
    BY ElementOfSeq, LenProperties
  <2> HIDE DEF a, l
  <2>3. ASSUME NEW j \in 1..l PROVE (h \o d)[q[i] + j - 1] = ns[i][j]
    <3> DEFINE x == q[i] + j - 1
    <3>1. /\ x \in 1..(Len(h) + Len(d)) /\ ~(x <= Len(h))
          /\ x - Len(h) = a + j - 1
      BY <1>2, <2>1, <2>2
    <3> HIDE DEF x
    <3>2. (h \o d)[x] = d[x - Len(h)]
      BY <1>1, <3>1
    <3> QED BY <2>1, <3>1, <3>2, Zenon DEF x
  <2>4. q[i + 1] = q[i] + l /\ q[i + 1] <= Len(h \o d) + 1
    BY <1>1, <1>2, <2>1, <2>2
  <2> QED BY <2>3, <2>4 DEF l
<1>6. Laid(ns, n, q, h \o d)
  BY <1>4, <1>5 DEF Laid
<1>7. q[1] = Len(h) + pos[1]
  BY <1>4
<1> QED BY <1>6, <1>7

\* A flattened list is its nodes, one after the other.
LEMMA FlattenLaid ==
  ASSUME NEW ns \in Seq(Seq(Byte))
  PROVE  /\ FlattenSeq(ns) \in Seq(Byte)
         /\ \E pos : pos[1] = 1 /\ Laid(ns, Len(ns), pos, FlattenSeq(ns))
<1>1. Len(ns) \in Nat /\ \A i \in 1..Len(ns) : ns[i] \in Seq(Byte)
  BY LenProperties, ElementOfSeq
<1>2. PICK f : /\ f[0] = <<>> /\ f[Len(ns)] = FlattenSeq(ns)
               /\ \A i \in 1..Len(ns) : f[i - 1] \in Seq(Byte) => f[i] = f[i - 1] \o ns[i]
  <2>1. CASE Len(ns) = 0
    <3> DEFINE f == [i \in {0} |-> <<>>]
    <3>1. FlattenSeq(ns) = <<>>
      <4>1. ns = <<>>
        BY <2>1, EmptySeq
      <4> QED BY <2>1, <4>1 DEF FlattenSeq
    <3>2. f[0] = <<>> /\ f[Len(ns)] = FlattenSeq(ns)
      BY <2>1, <3>1
    <3>3. \A i \in 1..Len(ns) : FALSE
      BY <2>1
    <3> HIDE DEF f
    <3> QED BY <3>2, <3>3
  <2>2. CASE Len(ns) # 0
    <3>1. PICK g : IsFlat(g, ns, Len(ns)) /\ FlattenSeq(ns) = g[Len(ns)]
      BY <1>1, <2>2, FlattenIs
    <3> DEFINE f == [i \in 0..Len(ns) |-> IF i = 0 THEN <<>> ELSE g[i]]
    <3>2. f[0] = <<>> /\ f[Len(ns)] = FlattenSeq(ns)
      BY <1>1, <2>2, <3>1
    <3>3. ASSUME NEW i \in 1..Len(ns), f[i - 1] \in Seq(Byte) PROVE f[i] = f[i - 1] \o ns[i]
      <4>1. f[i] = g[i] /\ (g[i] = IF i = 1 THEN ns[i] ELSE g[i - 1] \o ns[i])
        <5>1. i # 0 /\ i \in 0..Len(ns)
          BY <1>1
        <5>2. g[i] = IF i = 1 THEN ns[i] ELSE g[i - 1] \o ns[i]
          BY <3>1, Zenon DEF IsFlat
        <5> QED BY <5>1, <5>2, Zenon
      <4>2. CASE i = 1
        <5>1. <<>> \o ns[i] = ns[i]
          BY <1>1, ConcatEmptySeq
        <5>2. f[i - 1] = <<>>
          BY <1>1, <4>2
        <5> QED BY <4>1, <4>2, <5>1, <5>2, Zenon
      <4>3. CASE i # 1
        <5>1. f[i - 1] = g[i - 1]
          BY <1>1, <4>3
        <5> QED BY <4>1, <4>3, <5>1, Zenon
      <4> QED BY <4>2, <4>3
    <3> HIDE DEF f
    <3> QED BY <3>2, <3>3
  <2> QED BY <2>1, <2>2
<1> DEFINE S == {n \in Nat : n <= Len(ns) =>
                   f[n] \in Seq(Byte) /\ \E pos : pos[1] = 1 /\ Laid(ns, n, pos, f[n])}
<1>3. 0 \in S
  <2> DEFINE pos == [i \in 1..1 |-> 1]
  <2>1. pos[1] = 1 /\ Laid(ns, 0, pos, <<>>)
    BY DEF Laid
  <2>2. <<>> \in Seq(Byte)
    BY EmptySeq
  <2> QED BY <1>2, <2>1, <2>2
<1>4. ASSUME NEW n \in S PROVE n + 1 \in S
  <2>1. n \in Nat
    OBVIOUS
  <2>2. CASE n + 1 <= Len(ns)
    <3>1. PICK pos : f[n] \in Seq(Byte) /\ pos[1] = 1 /\ Laid(ns, n, pos, f[n])
      BY <1>1, <2>1, <2>2
    <3>2. n + 1 \in 1..Len(ns) /\ (n + 1) - 1 = n /\ n < Len(ns)
      BY <1>1, <2>1, <2>2
    <3>3. f[n + 1] = f[n] \o ns[n + 1]
      BY <1>2, <3>1, <3>2
    <3>4. f[n + 1] \in Seq(Byte)
      BY <1>1, <3>1, <3>2, <3>3, ConcatProperties
    <3>5. \E q : q[1] = pos[1] /\ Laid(ns, n + 1, q, f[n + 1])
      BY <2>1, <3>1, <3>2, <3>3, LaidAppend
    <3> QED BY <2>1, <3>1, <3>4, <3>5
  <2>3. CASE ~(n + 1 <= Len(ns))
    BY <2>1, <2>3
  <2> QED BY <2>2, <2>3
<1> HIDE DEF S
<1>5. S = Nat
  <2>1. S \subseteq Nat
    BY DEF S
  <2> QED BY <1>3, <1>4, <2>1, SetInduction
<1>6. Len(ns) \in S
  BY <1>1, <1>5
<1> QED BY <1>1, <1>2, <1>6 DEF S

-----------------------------------------------------------------------------
\* The function that Number folds with, for the first n bytes.
IsShifted(f, bytes, n) == f = [i \in 0..n |-> IF i = 0 THEN 0 ELSE 256 * f[i - 1] + bytes[i]]

\* There is such a function, for every n.
LEMMA ShiftedExists ==
  ASSUME NEW bytes PROVE \A n \in Nat : \E f : IsShifted(f, bytes, n)
<1> DEFINE S == {n \in Nat : \E f : IsShifted(f, bytes, n)}
<1>1. 0 \in S
  <2> DEFINE f == [i \in 0..0 |-> 0]
             h == [i \in 0..0 |-> IF i = 0 THEN 0 ELSE 256 * f[i - 1] + bytes[i]]
  <2>1. \A i \in 0..0 : h[i] = f[i]
    OBVIOUS
  <2>2. h = f
    BY <2>1
  <2>3. IsShifted(f, bytes, 0)
    BY <2>2 DEF IsShifted
  <2> QED BY <2>3
<1>2. ASSUME NEW n \in S PROVE n + 1 \in S
  <2>1. n \in Nat
    OBVIOUS
  <2>2. PICK f : IsShifted(f, bytes, n)
    OBVIOUS
  <2> HIDE DEF S
  <2> DEFINE g(u, byte) == 256 * u + byte
             h == [i \in 0..(n + 1) |-> IF i \in 0..n THEN f[i] ELSE g(f[n], bytes[i])]
             k == [i \in 0..(n + 1) |-> IF i = 0 THEN 0 ELSE g(h[i - 1], bytes[i])]
  <2>3. f = [i \in 0..n |-> IF i = 0 THEN 0 ELSE g(f[i - 1], bytes[i])]
    BY <2>2 DEF IsShifted
  <2> HIDE DEF g
  <2>4. ASSUME NEW i \in 0..(n + 1) PROVE h[i] = k[i]
    <3>1. CASE i = n + 1
      <4>1. i # 0 /\ i \notin 0..n /\ i - 1 = n /\ n \in 0..n /\ n \in 0..(n + 1)
        BY <2>1, <3>1
      <4>2. h[i] = g(f[n], bytes[i]) /\ k[i] = g(h[i - 1], bytes[i])
        BY <4>1, Zenon
      <4>3. h[n] = f[n]
        BY <4>1, Zenon
      <4>4. k[i] = g(f[n], bytes[i])
        BY <4>1, <4>2, <4>3, Zenon
      <4> QED BY <4>2, <4>4, Zenon
    <3>2. CASE i \in 0..n
      <4>1. f[i] = IF i = 0 THEN 0 ELSE g(f[i - 1], bytes[i])
        BY <2>3, <3>2, Zenon
      <4>2. i # 0 => i - 1 \in 0..n /\ i - 1 \in 0..(n + 1)
        BY <2>1, <3>2
      <4>3. i # 0 => h[i - 1] = f[i - 1]
        BY <4>2, Zenon
      <4>4. h[i] = f[i]
        BY <3>2, Zenon
      <4> QED BY <4>1, <4>3, <4>4, Zenon
    <3>3. i = n + 1 \/ i \in 0..n
      BY <2>1
    <3> QED BY <3>1, <3>2, <3>3, Zenon
  <2>5. h = k
    BY <2>4
  <2>6. IsShifted(h, bytes, n + 1)
    BY <2>5, Zenon DEF IsShifted, g
  <2> QED BY <2>1, <2>6 DEF S
<1>3. S = Nat
  <2>1. S \subseteq Nat
    OBVIOUS
  <2> HIDE DEF S
  <2> QED BY <1>1, <1>2, <2>1, SetInduction
<1> QED BY <1>3

\* Number shifts one byte in after the other.
LEMMA NumberIs ==
  ASSUME NEW bytes, Len(bytes) \in Nat
  PROVE  \E f : /\ f[0] = 0 /\ f[Len(bytes)] = Number(bytes)
                /\ \A i \in 1..Len(bytes) : f[i] = 256 * f[i - 1] + bytes[i]
<1> DEFINE f == CHOOSE g : g = [i \in 0..Len(bytes) |-> IF i = 0 THEN 0 ELSE 256 * g[i - 1] + bytes[i]]
<1>1. Number(bytes) = f[Len(bytes)]
  BY DEF Number
<1>2. \E g : g = [i \in 0..Len(bytes) |-> IF i = 0 THEN 0 ELSE 256 * g[i - 1] + bytes[i]]
  BY ShiftedExists DEF IsShifted
<1>3. f = [i \in 0..Len(bytes) |-> IF i = 0 THEN 0 ELSE 256 * f[i - 1] + bytes[i]]
  BY <1>2, Zenon
<1> HIDE DEF f
<1>4. f[0] = 0
  <2>1. 0 \in 0..Len(bytes)
    OBVIOUS
  <2> QED BY <1>3, <2>1, Zenon
<1>5. ASSUME NEW i \in 1..Len(bytes) PROVE f[i] = 256 * f[i - 1] + bytes[i]
  <2>1. i \in 0..Len(bytes) /\ i # 0
    OBVIOUS
  <2> QED BY <1>3, <2>1, Zenon
<1> QED BY <1>1, <1>4, <1>5

\* The number of the first two, three and four bytes.
Two(b)   == 256 * b[1] + b[2]
Three(b) == 256 * Two(b) + b[3]
Four(b)  == 256 * Three(b) + b[4]

\* The count of bytes is at most four, and they are what was shifted in.
LEMMA NumberOfFew ==
  ASSUME NEW b \in Seq(Byte)
  PROVE  /\ Len(b) = 1 => Number(b) = b[1]
         /\ Len(b) = 2 => Number(b) = Two(b)
         /\ Len(b) = 3 => Number(b) = Three(b)
         /\ Len(b) = 4 => Number(b) = Four(b)
<1>1. Len(b) \in Nat /\ \A i \in 1..Len(b) : b[i] \in Int
  <2>1. \A i \in 1..Len(b) : b[i] \in Byte
    BY ElementOfSeq
  <2>2. Len(b) \in Nat
    BY LenProperties
  <2>3. Byte \subseteq Int
    BY DEF Byte
  <2> QED BY <2>1, <2>2, <2>3
<1>2. PICK f : /\ f[0] = 0 /\ f[Len(b)] = Number(b)
               /\ \A i \in 1..Len(b) : f[i] = 256 * f[i - 1] + b[i]
  BY <1>1, NumberIs
<1> DEFINE l == Len(b)
           z == 256
<1>3. l \in Nat /\ z \in Nat
  BY <1>1
<1>4. \A i \in 1..l : f[i] = z * f[i - 1] + b[i]
  BY <1>2
<1>5. /\ Two(b) = z * b[1] + b[2]
       /\ Three(b) = z * Two(b) + b[3]
       /\ Four(b) = z * Three(b) + b[4]
  BY DEF Two, Three, Four
<1> HIDE DEF l, z
<1>6. /\ l >= 1 => 1 \in 1..l
      /\ l >= 2 => 2 \in 1..l
      /\ l >= 3 => 3 \in 1..l
      /\ l >= 4 => 4 \in 1..l
  BY <1>3, SMT
<1>7. 1 - 1 = 0 /\ 2 - 1 = 1 /\ 3 - 1 = 2 /\ 4 - 1 = 3
  OBVIOUS
<1>8. /\ l >= 1 => f[1] = z * f[1 - 1] + b[1]
      /\ l >= 2 => f[2] = z * f[2 - 1] + b[2]
      /\ l >= 3 => f[3] = z * f[3 - 1] + b[3]
      /\ l >= 4 => f[4] = z * f[4 - 1] + b[4]
  BY <1>6, <1>4, Zenon
<1>9. l >= 1 => f[1] = b[1]
  <2>1. l >= 1 => f[1] = z * f[0] + b[1]
    BY <1>7, <1>8, Zenon
  <2>2. l >= 1 => b[1] \in Int
    BY <1>1, <1>6, Zenon DEF l
  <2>3. f[0] = 0
    BY <1>2
  <2> QED BY <1>3, <2>1, <2>2, <2>3, SMT
<1>10. f[l] = Number(b)
  BY <1>2, Zenon DEF l
<1>11. l >= 2 => l >= 1 /\ f[2] = Two(b)
  <2>1. l >= 2 => l >= 1
    BY <1>3, SMT
  <2>2. l >= 2 => f[2] = z * f[1] + b[2]
    BY <1>7, <1>8, Zenon
  <2> QED BY <1>9, <1>5, <2>1, <2>2, Zenon
<1>12. l >= 3 => l >= 2 /\ f[3] = Three(b)
  <2>1. l >= 3 => l >= 2
    BY <1>3, SMT
  <2>2. l >= 3 => f[3] = z * f[2] + b[3]
    BY <1>7, <1>8, Zenon
  <2> QED BY <1>11, <1>5, <2>1, <2>2, Zenon
<1>13. l >= 4 => f[4] = Four(b)
  <2>1. l >= 4 => l >= 3
    BY <1>3, SMT
  <2>2. l >= 4 => f[4] = z * f[3] + b[4]
    BY <1>7, <1>8, Zenon
  <2> QED BY <1>12, <1>5, <2>1, <2>2, Zenon
<1>14. /\ l = 1 => l >= 1 /\ f[l] = f[1]
       /\ l = 2 => l >= 2 /\ f[l] = f[2]
       /\ l = 3 => l >= 3 /\ f[l] = f[3]
       /\ l = 4 => l >= 4 /\ f[l] = f[4]
  BY SMT
<1>15. l = 1 => Number(b) = b[1]
  BY <1>9, <1>10, <1>14, Zenon
<1>16. l = 2 => Number(b) = Two(b)
  BY <1>10, <1>11, <1>14, Zenon
<1>17. l = 3 => Number(b) = Three(b)
  BY <1>10, <1>12, <1>14, Zenon
<1>18. l = 4 => Number(b) = Four(b)
  BY <1>10, <1>13, <1>14, Zenon
<1> QED BY <1>15, <1>16, <1>17, <1>18, Zenon DEF l

\* The shifts by 0 to 24 bits, one byte at a time.
LEMMA Octets ==
  ASSUME NEW v \in Int
  PROVE  /\ \A k \in 0..3 : Octet(v, k) \in Byte
         /\ \E c \in Int : /\ v = 256 * (256 * (256 * (256 * c + Octet(v, 3)) + Octet(v, 2)) + Octet(v, 1)) + Octet(v, 0)
<1> DEFINE a == v \div 256
           b == a \div 256
           c == b \div 256
           d == c \div 256
<1>1. /\ Octet(v, 0) = v % 256 /\ Octet(v, 1) = a % 256 /\ Octet(v, 2) = b % 256
      /\ Octet(v, 3) = c % 256
  <2>1. 256^0 = 1 /\ 256^1 = 256 /\ 256^2 = 65536 /\ 256^3 = 16777216
    OBVIOUS
  <2>2. v \div 1 = v /\ v \div 65536 = b
    OBVIOUS
  <2>3. v \div 16777216 = (v \div 65536) \div 256
    OBVIOUS
  <2> QED BY <2>1, <2>2, <2>3 DEF Octet
<1>2. a \in Int /\ b \in Int /\ c \in Int /\ d \in Int
  OBVIOUS
<1> HIDE DEF b, c, d
<1>3. v = 256 * a + (v % 256) /\ (v % 256) \in 0..255
  OBVIOUS
<1> HIDE DEF a
<1>4. a = 256 * b + (a % 256) /\ (a % 256) \in 0..255
  BY <1>2 DEF b
<1>5. b = 256 * c + (b % 256) /\ (b % 256) \in 0..255
  BY <1>2 DEF c
<1>6. c = 256 * d + (c % 256) /\ (c % 256) \in 0..255
  BY <1>2 DEF d
<1>7. \A k \in 0..3 : Octet(v, k) \in Byte
  <2>1. \A k \in 0..3 : k = 0 \/ k = 1 \/ k = 2 \/ k = 3
    OBVIOUS
  <2> QED BY <1>1, <1>3, <1>4, <1>5, <1>6, <2>1 DEF Byte
<1> QED BY <1>1, <1>2, <1>3, <1>4, <1>5, <1>6, <1>7

\* A number below a power of 256 is made of its low octets.
LEMMA OctetsOfLess ==
  ASSUME NEW v \in Nat
  PROVE  /\ v < 256 => v = Octet(v, 0)
         /\ v < 256 * 256 => v = 256 * Octet(v, 1) + Octet(v, 0)
         /\ v < 256 * (256 * 256) => v = 256 * (256 * Octet(v, 2) + Octet(v, 1)) + Octet(v, 0)
         /\ v < 256 * (256 * (256 * 256)) =>
              v = 256 * (256 * (256 * Octet(v, 3) + Octet(v, 2)) + Octet(v, 1)) + Octet(v, 0)
<1> DEFINE o0 == Octet(v, 0)
           o1 == Octet(v, 1)
           o2 == Octet(v, 2)
           o3 == Octet(v, 3)
<1>1. o0 \in 0..255 /\ o1 \in 0..255 /\ o2 \in 0..255 /\ o3 \in 0..255
  <2>1. Octet(v, 0) \in Byte /\ Octet(v, 1) \in Byte /\ Octet(v, 2) \in Byte /\ Octet(v, 3) \in Byte
    <3>1. v \in Int /\ 0 \in 0..3 /\ 1 \in 0..3 /\ 2 \in 0..3 /\ 3 \in 0..3
      OBVIOUS
    <3>2. \A k \in 0..3 : Octet(v, k) \in Byte
      BY <3>1, Octets
    <3> QED BY <3>1, <3>2
  <2> QED BY <2>1 DEF Byte
<1>2. PICK c \in Int : v = 256 * (256 * (256 * (256 * c + o3) + o2) + o1) + o0
  BY Octets
<1> HIDE DEF o0, o1, o2, o3
<1> DEFINE q3 == 256 * c + o3
           q2 == 256 * q3 + o2
           q1 == 256 * q2 + o1
<1>3. v = 256 * q1 + o0 /\ q1 \in Nat
  BY <1>1, <1>2
<1>4. q1 = 256 * q2 + o1 /\ q2 \in Nat
  BY <1>1, <1>3
<1>5. q2 = 256 * q3 + o2 /\ q3 \in Nat
  BY <1>1, <1>4
<1>6. q3 = 256 * c + o3 /\ c \in Nat
  BY <1>1, <1>5
<1> HIDE DEF q1, q2, q3
<1>7. v < 256 => v = o0
  BY <1>1, <1>3
<1>8. v < 256 * 256 => v = 256 * o1 + o0
  <2>1. v < 256 * 256 => q1 < 256
    BY <1>1, <1>3
  <2>2. q1 < 256 => q1 = o1
    BY <1>1, <1>4
  <2> QED BY <1>3, <2>1, <2>2
<1>9. v < 256 * (256 * 256) => v = 256 * (256 * o2 + o1) + o0
  <2>1. v < 256 * (256 * 256) => q1 < 256 * 256
    BY <1>1, <1>3
  <2>2. q1 < 256 * 256 => q2 < 256
    BY <1>1, <1>4
  <2>3. q2 < 256 => q2 = o2
    BY <1>1, <1>5
  <2> QED BY <1>3, <1>4, <2>1, <2>2, <2>3
<1>10. v < 256 * (256 * (256 * 256)) => v = 256 * (256 * (256 * o3 + o2) + o1) + o0
  <2>1. v < 256 * (256 * (256 * 256)) => q1 < 256 * (256 * 256)
    BY <1>1, <1>3
  <2>2. q1 < 256 * (256 * 256) => q2 < 256 * 256
    BY <1>1, <1>4
  <2>3. q2 < 256 * 256 => q3 < 256
    BY <1>1, <1>5
  <2>4. q3 < 256 => q3 = o3
    BY <1>1, <1>6
  <2> QED BY <1>3, <1>4, <1>5, <2>1, <2>2, <2>3, <2>4
<1> QED BY <1>7, <1>8, <1>9, <1>10 DEF o0, o1, o2, o3

-----------------------------------------------------------------------------
\* A size is written in at most four bytes.
Sizes == {n \in Nat : n < 256 * (256 * (256 * 256))}

\* k octets behind the first are enough for the size.
LEMMA CountOf ==
  ASSUME NEW n \in Nat
  PROVE  \E k \in 0..4 : /\ CountLengthOfSize(n) = k + 1
                         /\ k = 0 <=> n < 128
                         /\ k = 1 => n < 256
                         /\ k = 2 => n < 256 * 256
                         /\ k = 3 => n < 256 * (256 * 256)
<1>1. CASE n < 128
  BY <1>1, SMT DEF CountLengthOfSize
<1>2. CASE n >= 128 /\ n < 256
  <2>1. CountLengthOfSize(n) = 1 + 1
    BY <1>2, SMT DEF CountLengthOfSize
  <2> QED BY <1>2, <2>1
<1>3. CASE n >= 256 /\ n < 65535
  <2>1. CountLengthOfSize(n) = 2 + 1
    BY <1>3, SMT DEF CountLengthOfSize
  <2> QED BY <1>3, <2>1, SMT
<1>4. CASE n >= 65535 /\ n < 16777216
  <2>1. CountLengthOfSize(n) = 3 + 1
    BY <1>4, SMT DEF CountLengthOfSize
  <2> QED BY <1>4, <2>1, SMT
<1>5. CASE n >= 16777216
  <2>1. CountLengthOfSize(n) = 4 + 1
    BY <1>5, SMT DEF CountLengthOfSize
  <2> QED BY <1>5, <2>1, SMT
<1> QED BY <1>1, <1>2, <1>3, <1>4, <1>5, SMT

\* The octets of a length are one to five bytes.
LEMMA LengthOctetsType ==
  ASSUME NEW n \in Nat
  PROVE  /\ LengthOctets(n) \in Seq(Byte)
         /\ Len(LengthOctets(n)) = CountLengthOfSize(n)
         /\ Len(LengthOctets(n)) \in 1..5
         /\ n < 128 => LengthOctets(n) = <<n>>
         /\ n >= 128 => /\ LengthOctets(n)[1] = 127 + CountLengthOfSize(n)
                        /\ CountLengthOfSize(n) \in 2..5
                        /\ \A i \in 1..(CountLengthOfSize(n) - 1) :
                             LengthOctets(n)[1 + i] = Octet(n, CountLengthOfSize(n) - 1 - i)
<1>1. PICK k \in 0..4 : CountLengthOfSize(n) = k + 1 /\ (k = 0 <=> n < 128)
  BY CountOf
<1> HIDE DEF CountLengthOfSize
<1>2. CASE k = 0
  <2>1. LengthOctets(n) = <<n>>
    BY <1>1, <1>2 DEF LengthOctets
  <2>2. <<n>> \in Seq(Byte) /\ Len(<<n>>) = 1
    BY <1>1, <1>2 DEF Byte
  <2> QED BY <1>1, <1>2, <2>1, <2>2
<1>3. CASE k # 0
  <2> DEFINE s == [i \in 1..k |-> Octet(n, k - i)]
  <2>1. LengthOctets(n) = <<128 + k>> \o s
    BY <1>1, <1>3 DEF LengthOctets
  <2>2. s \in Seq(Byte) /\ Len(s) = k
    <3>1. ASSUME NEW i \in 1..k PROVE Octet(n, k - i) \in Byte
      <4>1. k - i \in 0..3
        OBVIOUS
      <4>2. n \in Int
        OBVIOUS
      <4>3. \A j \in 0..3 : Octet(n, j) \in Byte
        BY <4>2, Octets
      <4> QED BY <4>1, <4>3
    <3>2. s \in [1..k -> Byte]
      BY <3>1
    <3> QED BY <3>2
  <2>3. <<128 + k>> \in Seq(Byte) /\ Len(<<128 + k>>) = 1 /\ <<128 + k>>[1] = 128 + k
    BY DEF Byte
  <2> DEFINE h == <<128 + k>>
  <2> HIDE DEF s, h
  <2>4. /\ h \o s \in Seq(Byte) /\ Len(h \o s) = Len(h) + Len(s)
        /\ \A i \in 1..(Len(h) + Len(s)) : (h \o s)[i] = IF i <= Len(h) THEN h[i] ELSE s[i - Len(h)]
    BY <2>2, <2>3, ConcatProperties DEF h
  <2>5. LengthOctets(n) = h \o s /\ h \in Seq(Byte) /\ Len(h) = 1 /\ h[1] = 128 + k
    BY <2>1, <2>3 DEF h
  <2>6. (h \o s)[1] = 128 + k
    BY <2>2, <2>4, <2>5
  <2>7. ASSUME NEW i \in 1..k PROVE (h \o s)[1 + i] = Octet(n, k - i)
    <3>1. (h \o s)[1 + i] = s[i]
      <4>1. 1 + i \in 1..(Len(h) + Len(s)) /\ ~(1 + i <= Len(h)) /\ 1 + i - Len(h) = i
        BY <2>2, <2>5
      <4> QED BY <2>4, <4>1
    <3> QED BY <3>1 DEF s
  <2>8. k + 1 \in 1..5 /\ k + 1 \in 2..5 /\ k + 1 - 1 = k /\ Len(h \o s) = k + 1 /\ 128 + k = 127 + (k + 1)
    BY <1>3, <2>2, <2>4, <2>5
  <2> QED BY <1>1, <1>3, <2>4, <2>5, <2>6, <2>7, <2>8
<1> QED BY <1>2, <1>3

\* What LengthOctets writes is what GetLengthInfo reads.
LEMMA LengthRead ==
  ASSUME NEW n \in Sizes, NEW d \in Seq(Byte), NEW p \in Nat \ {0},
         p + Len(LengthOctets(n)) <= Len(d) + 1,
         \A j \in 1..Len(LengthOctets(n)) : d[p + j - 1] = LengthOctets(n)[j]
  PROVE  /\ ~LengthRefused(d, p)
         /\ GetLengthInfo(d, p) = [value |-> n, size |-> Len(LengthOctets(n)),
                                   at |-> p + Len(LengthOctets(n))]
<1>1. n \in Nat /\ n \in Int /\ Len(d) \in Nat
  BY LenProperties DEF Sizes
<1>2. CASE n < 128
  <2>1. LengthOctets(n) = <<n>>
    BY <1>1, <1>2, LengthOctetsType
  <2>2. d[p] = n
    BY <2>1
  <2>3. Len(LengthOctets(n)) = 1
    BY <2>1
  <2> QED BY <1>1, <1>2, <2>2, <2>3 DEF LengthRefused, GetLengthInfo
<1>3. CASE n >= 128
  <2>1. PICK k \in 0..4 : /\ CountLengthOfSize(n) = k + 1
                          /\ k = 0 <=> n < 128
                          /\ k = 1 => n < 256
                          /\ k = 2 => n < 256 * 256
                          /\ k = 3 => n < 256 * (256 * 256)
    BY <1>1, CountOf
  <2>2. k \in 1..4 /\ k + 1 - 1 = k
    BY <1>1, <1>3, <2>1
  <2> DEFINE o == LengthOctets(n)
  <2>3. /\ Len(o) = k + 1 /\ o[1] = 128 + k
        /\ \A i \in 1..k : o[1 + i] = Octet(n, k - i)
    <3>1. /\ Len(o) = CountLengthOfSize(n) /\ o[1] = 127 + CountLengthOfSize(n)
          /\ \A i \in 1..(CountLengthOfSize(n) - 1) :
                   o[1 + i] = Octet(n, CountLengthOfSize(n) - 1 - i)
      BY <1>1, <1>3, LengthOctetsType
    <3>2. 127 + (k + 1) = 128 + k
      BY <2>2
    <3> QED BY <2>1, <2>2, <3>1, <3>2
  <2> HIDE DEF o
  <2>4. /\ d[p] = 128 + k /\ p + k <= Len(d)
        /\ \A i \in 1..k : d[p + i] = Octet(n, k - i)
    <3>1. 1 \in 1..Len(o) /\ p + 1 - 1 = p
      BY <2>2, <2>3
    <3>2. \A j \in 1..Len(o) : d[p + j - 1] = o[j]
      BY DEF o
    <3>3. d[p] = 128 + k
      BY <2>3, <3>1, <3>2
    <3>4. ASSUME NEW i \in 1..k PROVE d[p + i] = Octet(n, k - i)
      <4>1. 1 + i \in 1..Len(o) /\ p + (1 + i) - 1 = p + i
        BY <2>2, <2>3
      <4> QED BY <2>3, <3>2, <4>1
    <3>5. p + k <= Len(d)
      BY <1>1, <2>2, <2>3 DEF o
    <3> QED BY <3>3, <3>4, <3>5
  <2> DEFINE b == SubSeq(d, p + 1, p + k)
  <2>5. b \in Seq(Byte) /\ Len(b) = k /\ \A i \in 1..k : b[i] = Octet(n, k - i)
    <3>1. \A i \in (p + 1)..(p + k) : d[i] \in Byte
      <4>1. \A i \in (p + 1)..(p + k) : i \in 1..Len(d)
        BY <1>1, <2>2, <2>4
      <4> QED BY <4>1, ElementOfSeq
    <3>2. /\ b \in Seq(Byte) /\ Len(b) = IF p + 1 <= p + k THEN ((p + k) - (p + 1)) + 1 ELSE 0
          /\ \A i \in 1..(((p + k) - (p + 1)) + 1) : b[i] = d[(p + 1) + i - 1]
      <4>1. p + 1 \in Int /\ p + k \in Int
        BY <2>2
      <4> DEFINE l == p + 1
                 m == p + k
      <4>2. l \in Int /\ m \in Int /\ \A i \in l..m : d[i] \in Byte
        BY <3>1, <4>1, Zenon
      <4>3. b = SubSeq(d, l, m)
        OBVIOUS
      <4> HIDE DEF b, l, m
      <4>4. b \in Seq(Byte)
        BY <4>2, <4>3, SubSeqProperties
      <4>5. Len(b) = IF l <= m THEN m - l + 1 ELSE 0
        BY <4>2, <4>3, SubSeqProperties
      <4>6. \A i \in 1..(m - l + 1) : b[i] = d[l + i - 1]
        BY <4>2, <4>3, SubSeqProperties
      <4>7. Len(b) = IF p + 1 <= p + k THEN ((p + k) - (p + 1)) + 1 ELSE 0
        BY <4>5, Zenon DEF l, m
      <4>8. \A i \in 1..(((p + k) - (p + 1)) + 1) : b[i] = d[(p + 1) + i - 1]
        BY <4>6, Zenon DEF l, m
      <4> QED BY <4>4, <4>7, <4>8, Zenon
    <3>3. p + 1 <= p + k /\ ((p + k) - (p + 1)) + 1 = k
      BY <2>2
    <3>4. \A i \in 1..k : (p + 1) + i - 1 = p + i
      BY <2>2
    <3> QED BY <2>4, <3>2, <3>3, <3>4
  <2> HIDE DEF b
  <2>6. Number(b) = n
    <3>1. /\ k = 1 => Number(b) = b[1]
          /\ k = 2 => Number(b) = Two(b)
          /\ k = 3 => Number(b) = Three(b)
          /\ k = 4 => Number(b) = Four(b)
      <4>1. b \in Seq(Byte) /\ Len(b) = k
        BY <2>5
      <4>2. /\ Len(b) = 1 => Number(b) = b[1]
            /\ Len(b) = 2 => Number(b) = Two(b)
            /\ Len(b) = 3 => Number(b) = Three(b)
            /\ Len(b) = 4 => Number(b) = Four(b)
        BY <4>1, NumberOfFew, Zenon
      <4> QED BY <4>1, <4>2, Zenon
    <3>2. /\ n < 256 => n = Octet(n, 0)
          /\ n < 256 * 256 => n = 256 * Octet(n, 1) + Octet(n, 0)
          /\ n < 256 * (256 * 256) => n = 256 * (256 * Octet(n, 2) + Octet(n, 1)) + Octet(n, 0)
          /\ n = 256 * (256 * (256 * Octet(n, 3) + Octet(n, 2)) + Octet(n, 1)) + Octet(n, 0)
      <4>1. n < 256 * (256 * (256 * 256))
        BY DEF Sizes
      <4> QED BY <1>1, <4>1, OctetsOfLess
    <3>3. CASE k = 1
      <4>1. b[1] = Octet(n, 0)
        BY <2>5, <3>3
      <4> QED BY <2>1, <3>1, <3>2, <3>3, <4>1
    <3>4. CASE k = 2
      <4>1. b[1] = Octet(n, 1) /\ b[2] = Octet(n, 0)
        BY <2>5, <3>4
      <4> QED BY <2>1, <3>1, <3>2, <3>4, <4>1 DEF Two
    <3>5. CASE k = 3
      <4>1. b[1] = Octet(n, 2) /\ b[2] = Octet(n, 1) /\ b[3] = Octet(n, 0)
        BY <2>5, <3>5
      <4> QED BY <2>1, <3>1, <3>2, <3>5, <4>1 DEF Two, Three
    <3>6. CASE k = 4
      <4>1. b[1] = Octet(n, 3) /\ b[2] = Octet(n, 2) /\ b[3] = Octet(n, 1) /\ b[4] = Octet(n, 0)
        BY <2>5, <3>6
      <4> QED BY <3>1, <3>2, <3>6, <4>1 DEF Two, Three, Four
    <3> QED BY <2>2, <3>3, <3>4, <3>5, <3>6
  <2>7. ~LengthRefused(d, p)
    BY <2>2, <2>4 DEF LengthRefused
  <2>8. GetLengthInfo(d, p) = [value |-> Number(b), size |-> k + 1, at |-> p + 1 + k]
    <3>1. d[p] - 128 = k /\ k # 0 /\ ~(d[p] < 128)
      BY <2>2, <2>4
    <3> QED BY <3>1 DEF GetLengthInfo, b
  <2>9. p + 1 + k = p + (k + 1)
    BY <2>2
  <2> QED BY <2>3, <2>6, <2>7, <2>8, <2>9 DEF o
<1> QED BY <1>1, <1>2, <1>3

-----------------------------------------------------------------------------
\* A node: a tag, the octets of a size, and as many bytes of content.
Tlv(n) ==
  /\ n \in Seq(Byte)
  /\ \E c \in Sizes : /\ Len(n) = 1 + Len(LengthOctets(c)) + c
                      /\ \A j \in 1..Len(LengthOctets(c)) : n[1 + j] = LengthOctets(c)[j]

\* A reader finds the end of a node by the node's own length.
LEMMA NodeRead ==
  ASSUME NEW n, Tlv(n), NEW d \in Seq(Byte), NEW p \in Nat \ {0},
         p + Len(n) <= Len(d) + 1, \A j \in 1..Len(n) : d[p + j - 1] = n[j]
  PROVE  /\ ~LengthRefused(d, p + 1)
         /\ After(d, p) = p + Len(n)
         /\ Len(n) \in Nat /\ Len(n) >= 2
<1>1. PICK c \in Sizes : /\ Len(n) = 1 + Len(LengthOctets(c)) + c
                         /\ \A j \in 1..Len(LengthOctets(c)) : n[1 + j] = LengthOctets(c)[j]
  BY DEF Tlv
<1> DEFINE o == LengthOctets(c)
<1>2. c \in Nat /\ Len(o) \in 1..5 /\ Len(d) \in Nat
  BY LengthOctetsType, LenProperties DEF Sizes
<1>3. (p + 1) + Len(o) <= Len(d) + 1 /\ p + 1 \in Nat \ {0}
  BY <1>1, <1>2
<1>4. ASSUME NEW j \in 1..Len(o) PROVE d[(p + 1) + j - 1] = o[j]
  <2>1. 1 + j \in 1..Len(n) /\ p + (1 + j) - 1 = (p + 1) + j - 1
    BY <1>1, <1>2
  <2>2. d[p + (1 + j) - 1] = n[1 + j]
    BY <2>1
  <2> QED BY <1>1, <2>1, <2>2
<1>5. /\ ~LengthRefused(d, p + 1)
      /\ GetLengthInfo(d, p + 1) = [value |-> c, size |-> Len(o), at |-> (p + 1) + Len(o)]
  BY <1>3, <1>4, LengthRead
<1>6. After(d, p) = ((p + 1) + Len(o)) + c
  BY <1>5 DEF After
<1>7. Len(n) = 1 + Len(o) + c
  BY <1>1
<1> HIDE DEF o
<1>8. ((p + 1) + Len(o)) + c = p + Len(n) /\ Len(n) \in Nat /\ Len(n) >= 2
  <2>1. \A l \in 1..5 : ((p + 1) + l) + c = p + (1 + l + c) /\ 1 + l + c \in Nat /\ 1 + l + c >= 2
    BY <1>2
  <2> QED BY <1>2, <1>7, <2>1, Zenon
<1> QED BY <1>5, <1>6, <1>8

\* What the writer of tags and lengths makes.
LEMMA TagAndLengthIs ==
  ASSUME NEW t \in Byte, NEW s \in Seq(Byte), Len(s) \in Sizes
  PROVE  LET w == WriteTagAndLength(t, s)
             o == LengthOctets(Len(s))
         IN /\ Tlv(w) /\ Len(w) = 1 + Len(o) + Len(s) /\ w[1] = t
            /\ w = (<<t>> \o o) \o s
            /\ \A j \in 1..Len(o) : w[1 + j] = o[j]
            /\ \A j \in 1..Len(s) : w[1 + Len(o) + j] = s[j]
<1> DEFINE w == WriteTagAndLength(t, s)
           o == LengthOctets(Len(s))
           h == <<t>> \o o
           g == <<t>>
<1>1. Len(s) \in Nat /\ o \in Seq(Byte) /\ Len(o) \in 1..5
  BY LengthOctetsType DEF Sizes
<1>2. g \in Seq(Byte) /\ Len(g) = 1 /\ g[1] = t
  OBVIOUS
<1>3. h = g \o o /\ w = h \o s
  BY DEF WriteTagAndLength
<1> HIDE DEF w, o, h, g
<1>4. /\ h \in Seq(Byte) /\ Len(h) = 1 + Len(o)
      /\ h[1] = t /\ \A j \in 1..Len(o) : h[1 + j] = o[j]
  <2>1. /\ h \in Seq(Byte) /\ Len(h) = Len(g) + Len(o)
        /\ \A i \in 1..(Len(g) + Len(o)) : h[i] = IF i <= Len(g) THEN g[i] ELSE o[i - Len(g)]
    BY <1>1, <1>2, <1>3, ConcatProperties
  <2>2. h[1] = t
    BY <1>1, <1>2, <2>1
  <2>3. ASSUME NEW j \in 1..Len(o) PROVE h[1 + j] = o[j]
    <3>1. 1 + j \in 1..(Len(g) + Len(o)) /\ ~(1 + j <= Len(g)) /\ 1 + j - Len(g) = j
      BY <1>1, <1>2
    <3> QED BY <2>1, <3>1
  <2> QED BY <1>2, <2>1, <2>2, <2>3
<1>5. /\ w \in Seq(Byte) /\ Len(w) = 1 + Len(o) + Len(s)
      /\ \A i \in 1..(Len(h) + Len(s)) : w[i] = IF i <= Len(h) THEN h[i] ELSE s[i - Len(h)]
  <2>1. /\ w \in Seq(Byte) /\ Len(w) = Len(h) + Len(s)
        /\ \A i \in 1..(Len(h) + Len(s)) : w[i] = IF i <= Len(h) THEN h[i] ELSE s[i - Len(h)]
    BY <1>3, <1>4, ConcatProperties
  <2> QED BY <1>1, <1>4, <2>1
<1>6. w[1] = t
  BY <1>1, <1>4, <1>5
<1>7. ASSUME NEW j \in 1..Len(o) PROVE w[1 + j] = o[j]
  <2>1. 1 + j \in 1..(Len(h) + Len(s)) /\ 1 + j <= Len(h)
    BY <1>1, <1>4
  <2> QED BY <1>4, <1>5, <2>1
<1>8. ASSUME NEW j \in 1..Len(s) PROVE w[1 + Len(o) + j] = s[j]
  <2>1. /\ 1 + Len(o) + j \in 1..(Len(h) + Len(s)) /\ ~(1 + Len(o) + j <= Len(h))
        /\ 1 + Len(o) + j - Len(h) = j
    BY <1>1, <1>4
  <2> QED BY <1>5, <2>1
<1>9. Tlv(w)
  BY <1>5, <1>7 DEF Tlv, o
<1> QED BY <1>3, <1>5, <1>6, <1>7, <1>8, <1>9 DEF w, o, h, g

\* What a reader takes out of a node is what was put in.
LEMMA ContentRead ==
  ASSUME NEW t \in Byte, NEW s \in Seq(Byte), Len(s) \in Sizes
  PROVE  LET w == WriteTagAndLength(t, s)
             o == LengthOctets(Len(s))
         IN /\ ~LengthRefused(w, 2)
            /\ GetLengthInfo(w, 2) = [value |-> Len(s), size |-> Len(o), at |-> 2 + Len(o)]
            /\ Len(w) = 1 + Len(o) + Len(s)
            /\ SubSeq(w, 2 + Len(o), 2 + Len(o) + Len(s) - 1) = s
<1> DEFINE w == WriteTagAndLength(t, s)
           o == LengthOctets(Len(s))
<1>1. /\ Tlv(w) /\ Len(w) = 1 + Len(o) + Len(s)
      /\ \A j \in 1..Len(o) : w[1 + j] = o[j]
      /\ \A j \in 1..Len(s) : w[1 + Len(o) + j] = s[j]
  BY TagAndLengthIs
<1>2. Len(s) \in Nat /\ Len(o) \in 1..5 /\ w \in Seq(Byte)
  BY <1>1, LengthOctetsType DEF Sizes, Tlv
<1> HIDE DEF w
<1>3. ~LengthRefused(w, 2) /\ GetLengthInfo(w, 2) = [value |-> Len(s), size |-> Len(o), at |-> 2 + Len(o)]
  <2>1. 2 + Len(o) <= Len(w) + 1 /\ 2 \in Nat \ {0}
    BY <1>1, <1>2
  <2>2. ASSUME NEW j \in 1..Len(o) PROVE w[2 + j - 1] = o[j]
    <3>1. 2 + j - 1 = 1 + j
      BY <1>2
    <3> QED BY <1>1, <3>1
  <2> QED BY <1>2, <2>1, <2>2, LengthRead
<1> DEFINE r == SubSeq(w, 2 + Len(o), 2 + Len(o) + Len(s) - 1)
<1>5. r = s
  <2> DEFINE m == 2 + Len(o)
             n == 2 + Len(o) + Len(s) - 1
  <2>1. m \in Int /\ n \in Int /\ n - m + 1 = Len(s) /\ (m <= n <=> Len(s) # 0)
    BY <1>2
  <2>2. \A i \in m..n : w[i] \in Byte
    <3>1. \A i \in m..n : i \in 1..Len(w)
      BY <1>1, <1>2
    <3> QED BY <1>2, <3>1, ElementOfSeq
  <2>3. \A i \in 1..Len(s) : m + i - 1 = 1 + Len(o) + i
    BY <1>2
  <2> HIDE DEF m, n
  <2>4. /\ SubSeq(w, m, n) \in Seq(Byte) /\ Len(SubSeq(w, m, n)) = IF m <= n THEN n - m + 1 ELSE 0
        /\ \A i \in 1..(n - m + 1) : SubSeq(w, m, n)[i] = w[m + i - 1]
    BY <2>1, <2>2, SubSeqProperties
  <2>5. Len(SubSeq(w, m, n)) = Len(s)
    BY <1>2, <2>1, <2>4
  <2>6. \A i \in 1..Len(s) : SubSeq(w, m, n)[i] = s[i]
    BY <1>1, <2>1, <2>3, <2>4
  <2> QED BY <2>4, <2>5, <2>6, SeqEqual DEF m, n
<1> QED BY <1>1, <1>3, <1>5 DEF w

\* A string comes back as it was written.
LEMMA StringRead ==
  ASSUME NEW t \in Byte, NEW s \in Seq(Byte), Len(s) \in Sizes
  PROVE  ReadTagAndLength(WriteTagAndLength(t, s)) = s
<1> DEFINE w == WriteTagAndLength(t, s)
           o == LengthOctets(Len(s))
<1>1. /\ ~LengthRefused(w, 2)
      /\ GetLengthInfo(w, 2) = [value |-> Len(s), size |-> Len(o), at |-> 2 + Len(o)]
      /\ Len(w) = 1 + Len(o) + Len(s)
      /\ SubSeq(w, 2 + Len(o), 2 + Len(o) + Len(s) - 1) = s
  BY ContentRead
<1> HIDE DEF w
<1>2. Len(s) \in Nat /\ Len(o) \in Nat
  BY LengthOctetsType DEF Sizes
<1>3. 1 + Len(o) + Len(s) = Len(w)
  BY <1>1
<1> DEFINE r == SubSeq(w, 2 + Len(o), 2 + Len(o) + Len(s) - 1)
           l == GetLengthInfo(w, 2)
<1>4. l.at = 2 + Len(o) /\ l.value = Len(s) /\ l.size = Len(o)
  <2> HIDE DEF o
  <2> QED BY <1>1
<1>5. SubSeq(w, l.at, l.at + l.value - 1) = r
  BY <1>4, Zenon
<1>6. 1 + l.size + l.value = Len(w)
  BY <1>3, <1>4, Zenon
<1>7. ReadTagAndLength(w) = SubSeq(w, l.at, l.at + l.value - 1)
  <2> HIDE DEF r
  <2> QED BY <1>1, <1>6, Zenon DEF ReadTagAndLength
<1> QED BY <1>1, <1>5, <1>7, Zenon DEF w

\* The function that Nodes cuts with, from end - n on.
CutAt(f, d, p) ==
  IF p = Len(d) + 1 THEN NoList
  ELSE IF LengthRefused(d, p + 1) \/ After(d, p) \notin (p + 1)..(Len(d) + 1) THEN <<NoNode>>
  ELSE <<SubSeq(d, p, After(d, p) - 1)>> \o f[After(d, p)]

\* There is such a function: each value needs only those of positions behind it.
LEMMA CutExists ==
  ASSUME NEW d, Len(d) \in Nat
  PROVE  \E f : f = [p \in 1..(Len(d) + 1) |-> CutAt(f, d, p)]
<1> DEFINE end == Len(d) + 1
           S == {n \in Nat : n <= Len(d) => \E f : f = [p \in (end - n)..end |-> CutAt(f, d, p)]}
<1>1. 0 \in S
  <2> DEFINE f == [p \in (end - 0)..end |-> NoList]
             h == [p \in (end - 0)..end |-> CutAt(f, d, p)]
  <2>1. \A p \in (end - 0)..end : h[p] = f[p]
    BY DEF CutAt
  <2>2. h = f
    BY <2>1
  <2> QED BY <2>2
<1>2. ASSUME NEW n \in S PROVE n + 1 \in S
  <2>1. n \in Nat /\ end \in Nat
    OBVIOUS
  <2>2. CASE n + 1 <= Len(d)
    <3>1. PICK f : f = [p \in (end - n)..end |-> CutAt(f, d, p)]
      BY <2>1, <2>2
    <3> HIDE DEF S
    <3> DEFINE q == end - (n + 1)
               h == [p \in q..end |-> IF p = q THEN CutAt(f, d, p) ELSE f[p]]
               k == [p \in q..end |-> CutAt(h, d, p)]
    <3>2. q \in Nat /\ q + 1 = end - n /\ end = Len(d) + 1 /\ \A p \in q..end : p = q \/ p \in (end - n)..end
      BY <2>1, <2>2
    <3> HIDE DEF end, q
    <3>3. ASSUME NEW p \in q..end PROVE h[p] = k[p]
      <4>1. CutAt(h, d, p) = CutAt(f, d, p)
        <5>1. CASE After(d, p) \in (p + 1)..(Len(d) + 1)
          <6>1. After(d, p) \in q..end /\ After(d, p) # q
            BY <2>1, <3>2, <5>1
          <6>2. h[After(d, p)] = f[After(d, p)]
            BY <6>1, Zenon
          <6> DEFINE x == <<SubSeq(d, p, After(d, p) - 1)>> \o f[After(d, p)]
                     y == <<SubSeq(d, p, After(d, p) - 1)>> \o h[After(d, p)]
          <6>3. x = y
            BY <6>2, Zenon
          <6>4. /\ CutAt(f, d, p) = IF p = Len(d) + 1 THEN NoList
                                    ELSE IF LengthRefused(d, p + 1) THEN <<NoNode>> ELSE x
                /\ CutAt(h, d, p) = IF p = Len(d) + 1 THEN NoList
                                    ELSE IF LengthRefused(d, p + 1) THEN <<NoNode>> ELSE y
            BY <5>1, SMT DEF CutAt
          <6> HIDE DEF x, y
          <6> QED BY <6>3, <6>4, SMT
        <5>2. CASE After(d, p) \notin (p + 1)..(Len(d) + 1)
          BY <5>2, Zenon DEF CutAt
        <5> QED BY <5>1, <5>2, Zenon
      <4>2. CASE p = q
        BY <4>1, <4>2, Zenon
      <4>3. CASE p # q
        <5>1. p \in (end - n)..end
          BY <3>2, <4>3
        <5>2. f[p] = CutAt(f, d, p)
          BY <3>1, <5>1, Zenon
        <5>3. h[p] = f[p]
          BY <4>3, Zenon
        <5> QED BY <4>1, <5>2, <5>3, Zenon
      <4> QED BY <4>2, <4>3, Zenon
    <3>4. h = k
      BY <3>3, Zenon
    <3>5. \E g : g = [p \in (end - (n + 1))..end |-> CutAt(g, d, p)]
      BY <3>4, Zenon DEF q
    <3> QED BY <2>1, <3>5 DEF S
  <2>3. CASE ~(n + 1 <= Len(d))
    BY <2>1, <2>3
  <2> QED BY <2>2, <2>3
<1>3. Len(d) \in S
  <2>1. S \subseteq Nat
    OBVIOUS
  <2> HIDE DEF S
  <2> QED BY <1>1, <1>2, <2>1, SetInduction
<1>4. end - Len(d) = 1
  OBVIOUS
<1> QED BY <1>3, <1>4

\* Nodes cuts off one node, and then those behind it.
LEMMA NodesIs ==
  ASSUME NEW d, Len(d) \in Nat
  PROVE  /\ Nodes(d, Len(d) + 1) = NoList
         /\ \A p \in 1..Len(d) :
              ~LengthRefused(d, p + 1) /\ After(d, p) \in (p + 1)..(Len(d) + 1)
                => Nodes(d, p) = <<SubSeq(d, p, After(d, p) - 1)>> \o Nodes(d, After(d, p))
<1> DEFINE f == CHOOSE cut : cut = [p \in 1..(Len(d) + 1) |->
                  IF p = Len(d) + 1 THEN NoList
                  ELSE IF LengthRefused(d, p + 1) \/ After(d, p) \notin (p + 1)..(Len(d) + 1) THEN <<NoNode>>
                  ELSE <<SubSeq(d, p, After(d, p) - 1)>> \o cut[After(d, p)]]
<1>1. \A p : Nodes(d, p) = f[p]
  BY Zenon DEF Nodes
<1>2. \E cut : cut = [p \in 1..(Len(d) + 1) |->
                  IF p = Len(d) + 1 THEN NoList
                  ELSE IF LengthRefused(d, p + 1) \/ After(d, p) \notin (p + 1)..(Len(d) + 1) THEN <<NoNode>>
                  ELSE <<SubSeq(d, p, After(d, p) - 1)>> \o cut[After(d, p)]]
  BY CutExists, Zenon DEF CutAt
<1>3. f = [p \in 1..(Len(d) + 1) |-> CutAt(f, d, p)]
  BY <1>2, Zenon DEF CutAt
<1> HIDE DEF f
<1>4. f[Len(d) + 1] = NoList
  <2>1. Len(d) + 1 \in 1..(Len(d) + 1)
    OBVIOUS
  <2> QED BY <1>3, <2>1, Zenon DEF CutAt
<1>5. ASSUME NEW p \in 1..Len(d), ~LengthRefused(d, p + 1), After(d, p) \in (p + 1)..(Len(d) + 1)
      PROVE  f[p] = <<SubSeq(d, p, After(d, p) - 1)>> \o f[After(d, p)]
  <2>1. p \in 1..(Len(d) + 1) /\ p # Len(d) + 1
    OBVIOUS
  <2>2. f[p] = CutAt(f, d, p)
    BY <1>3, <2>1, Zenon
  <2> QED BY <1>5, <2>1, <2>2, Zenon DEF CutAt
<1> QED BY <1>1, <1>4, <1>5, Zenon

\* Nodes that lie one after the other up to the end are cut out as they were.
LEMMA NodesRead ==
  ASSUME NEW ns \in Seq(Seq(Byte)), \A i \in 1..Len(ns) : Tlv(ns[i]),
         NEW d \in Seq(Byte), NEW pos, Laid(ns, Len(ns), pos, d)
  PROVE  Nodes(d, pos[1]) = ns
<1> DEFINE N == Len(ns)
<1>1. N \in Nat /\ Len(d) \in Nat
  BY LenProperties
<1>2. /\ pos \in [1..(N + 1) -> Nat \ {0}] /\ pos[N + 1] = Len(d) + 1
      /\ \A i \in 1..N : /\ pos[i + 1] = pos[i] + Len(ns[i])
                         /\ pos[i + 1] <= Len(d) + 1
                         /\ \A j \in 1..Len(ns[i]) : d[pos[i] + j - 1] = ns[i][j]
  BY DEF Laid
<1> DEFINE S == {m \in Nat : m <= N => Nodes(d, pos[N + 1 - m]) = SubSeq(ns, N + 1 - m, N)}
<1>3. 0 \in S
  <2>1. Nodes(d, pos[N + 1]) = <<>>
    BY <1>1, <1>2, NodesIs DEF NoList
  <2>2. SubSeq(ns, N + 1, N) = <<>>
    BY <1>1, SubSeqEmpty
  <2>3. N + 1 - 0 = N + 1
    BY <1>1
  <2> QED BY <2>1, <2>2, <2>3
<1>4. ASSUME NEW m \in S PROVE m + 1 \in S
  <2>1. m \in Nat
    OBVIOUS
  <2>2. CASE m + 1 <= N
    <3> DEFINE i == N + 1 - (m + 1)
    <3>1. i \in 1..N /\ i + 1 = N + 1 - m /\ m <= N
      BY <1>1, <2>1, <2>2
    <3>2. Nodes(d, pos[i + 1]) = SubSeq(ns, i + 1, N)
      BY <2>1, <3>1
    <3> HIDE DEF S, i
    <3>3. ns[i] \in Seq(Byte) /\ Tlv(ns[i])
      BY <3>1, ElementOfSeq
    <3> DEFINE n == ns[i]
               p == pos[i]
    <3>4. /\ p \in Nat \ {0} /\ pos[i + 1] = p + Len(n) /\ p + Len(n) <= Len(d) + 1
          /\ \A j \in 1..Len(n) : d[p + j - 1] = n[j]
      <4>1. /\ pos[i + 1] = p + Len(n) /\ pos[i + 1] <= Len(d) + 1
            /\ \A j \in 1..Len(n) : d[p + j - 1] = n[j]
        BY <1>2, <3>1, Zenon
      <4>2. p \in Nat \ {0}
        <5>1. i \in 1..(N + 1)
          BY <1>1, <3>1
        <5> QED BY <1>2, <5>1
      <4> QED BY <4>1, <4>2
    <3>5. n \in Seq(Byte) /\ Tlv(n)
      BY <3>3
    <3> HIDE DEF n, p
    <3>6. ~LengthRefused(d, p + 1) /\ After(d, p) = p + Len(n) /\ Len(n) \in Nat /\ Len(n) >= 2
      BY <3>4, <3>5, NodeRead
    <3>7. After(d, p) \in (p + 1)..(Len(d) + 1) /\ p \in 1..Len(d)
      BY <1>1, <3>4, <3>6
    <3>8. Nodes(d, p) = <<SubSeq(d, p, After(d, p) - 1)>> \o Nodes(d, After(d, p))
      BY <1>1, <3>6, <3>7, NodesIs
    <3>9. SubSeq(d, p, After(d, p) - 1) = n
      <4> DEFINE q == After(d, p) - 1
                 r == SubSeq(d, p, q)
      <4>1. q \in Int /\ p \in Int /\ q - p + 1 = Len(n) /\ p <= q
        BY <1>1, <3>4, <3>6
      <4>2. \A j \in p..q : d[j] \in Byte
        <5>1. \A j \in p..q : j \in 1..Len(d)
          BY <1>1, <3>4, <3>6
        <5> QED BY <5>1, ElementOfSeq
      <4> HIDE DEF q
      <4>3. /\ r \in Seq(Byte) /\ Len(r) = IF p <= q THEN q - p + 1 ELSE 0
            /\ \A j \in 1..(q - p + 1) : r[j] = d[p + j - 1]
        BY <4>1, <4>2, SubSeqProperties
      <4> HIDE DEF r
      <4>4. Len(r) = Len(n) /\ \A j \in 1..Len(r) : r[j] = n[j]
        BY <3>4, <4>1, <4>3
      <4>5. r = n
        BY <3>5, <4>3, <4>4, SeqEqual
      <4> QED BY <4>5 DEF q, r
    <3>10. SubSeq(ns, i, N) = <<ns[i]>> \o SubSeq(ns, i + 1, N)
      <4>1. i \in 1..Len(ns) /\ N \in i..Len(ns)
        BY <1>1, <3>1
      <4> QED BY <4>1, SubSeqRecursiveFirst
    <3>11. After(d, p) = pos[i + 1]
      BY <3>4, <3>6
    <3>12. Nodes(d, pos[i]) = SubSeq(ns, i, N)
      BY <3>2, <3>8, <3>9, <3>10, <3>11, Zenon DEF n, p
    <3> QED BY <2>1, <3>12 DEF S, i
  <2>3. CASE ~(m + 1 <= N)
    BY <2>1, <2>3
  <2> QED BY <2>2, <2>3
<1>5. N \in S
  <2>1. S \subseteq Nat
    OBVIOUS
  <2> HIDE DEF S
  <2> QED BY <1>1, <1>3, <1>4, <2>1, SetInduction
<1>6. Nodes(d, pos[1]) = SubSeq(ns, 1, N)
  <2>1. N + 1 - N = 1
    BY <1>1
  <2> QED BY <1>1, <1>5, <2>1
<1> QED BY <1>6, SubSeqFull

\* A list of nodes comes back from its bytes as it was: what DER_ItAsn1_WriteSequence packs,
\* DER_ItAsn1_ReadSequence cuts into the same nodes, whatever their number and contents.
THEOREM SequenceRead ==
  ASSUME NEW ns \in Seq(Seq(Byte)), \A i \in 1..Len(ns) : Tlv(ns[i]),
         Len(FlattenSeq(ns)) \in Sizes
  PROVE  ReadSequence(WriteSequence(ns)) = ns /\ WriteSequence(ns) \in Seq(Byte)
<1> DEFINE s == FlattenSeq(ns)
           o == LengthOctets(Len(s))
           h == <<SEQUENCE>> \o o
           w == WriteTagAndLength(SEQUENCE, s)
<1>1. SEQUENCE \in Byte /\ s \in Seq(Byte) /\ Len(s) \in Sizes
  BY FlattenLaid DEF SEQUENCE, Byte
<1>2. /\ Tlv(w) /\ Len(w) = 1 + Len(o) + Len(s) /\ w[1] = SEQUENCE
      /\ w = h \o s /\ \A j \in 1..Len(o) : w[1 + j] = o[j]
  BY <1>1, TagAndLengthIs
<1>3. Len(s) \in Nat /\ o \in Seq(Byte) /\ Len(o) \in 1..5 /\ w \in Seq(Byte)
  BY <1>1, <1>2, LengthOctetsType DEF Sizes, Tlv
<1>4. h \in Seq(Byte) /\ Len(h) = 1 + Len(o)
  <2>1. <<SEQUENCE>> \in Seq(Byte) /\ Len(<<SEQUENCE>>) = 1
    BY <1>1
  <2> QED BY <1>3, <2>1, ConcatProperties
<1> HIDE DEF w, h
<1>5. ~LengthRefused(w, 2) /\ GetLengthInfo(w, 2) = [value |-> Len(s), size |-> Len(o), at |-> 2 + Len(o)]
  <2>1. 2 + Len(o) <= Len(w) + 1 /\ 2 \in Nat \ {0}
    BY <1>2, <1>3
  <2>2. ASSUME NEW j \in 1..Len(o) PROVE w[2 + j - 1] = o[j]
    <3>1. 2 + j - 1 = 1 + j
      BY <1>3
    <3> QED BY <1>2, <3>1
  <2> QED BY <1>1, <1>3, <2>1, <2>2, LengthRead
<1>6. Nodes(w, 2 + Len(o)) = ns
  <2>1. PICK pos : pos[1] = 1 /\ Laid(ns, Len(ns), pos, s)
    BY FlattenLaid
  <2>2. Len(ns) \in Nat /\ Len(ns) <= Len(ns)
    BY LenProperties
  <2>3. PICK q : q[1] = Len(h) + pos[1] /\ Laid(ns, Len(ns), q, h \o s)
    BY <1>1, <1>4, <2>1, <2>2, LaidBehind
  <2>4. Nodes(w, q[1]) = ns
    BY <1>2, <1>3, <2>3, NodesRead
  <2>5. q[1] = 2 + Len(o)
    BY <1>3, <1>4, <2>1, <2>3
  <2> QED BY <2>4, <2>5
<1>7. ~Contains(ns, NoNode)
  <2> SUFFICES ASSUME NEW i \in 1..Len(ns), ns[i] = NoNode PROVE FALSE
    BY DEF Contains
  <2>1. PICK c \in Sizes : Len(ns[i]) = 1 + Len(LengthOctets(c)) + c
    BY DEF Tlv
  <2>2. c \in Nat /\ Len(LengthOctets(c)) \in 1..5
    BY LengthOctetsType DEF Sizes
  <2>3. Len(ns[i]) = 0
    BY DEF NoNode
  <2>4. \A l \in 1..5 : 1 + l + c # 0
    BY <2>2
  <2> QED BY <2>1, <2>2, <2>3, <2>4, Zenon
<1>8. GetTagInfo(w[1]) = SequenceId
  BY <1>2 DEF GetTagInfo, SEQUENCE, SequenceId
<1>9. ReadSequence(w) = ns
  <2>1. 1 + Len(o) + Len(s) = Len(w)
    BY <1>2
  <2> HIDE DEF o, s
  <2> QED BY <1>5, <1>6, <1>7, <1>8, <2>1 DEF ReadSequence
<1>10. w = WriteSequence(ns)
  BY DEF w, WriteSequence
<1> QED BY <1>3, <1>9, <1>10

-----------------------------------------------------------------------------
\* The bytes of a word from its first that is not zero, or the last.
LEMMA SignificantIs ==
  ASSUME NEW w \in Nat \ {0}, NEW x \in [1..w -> Byte]
  PROVE  \E f \in 1..w : /\ Significant(x) = SubSeq(x, f, w)
                         /\ x[f] # 0 \/ f = w
                         /\ \A j \in 1..(f - 1) : x[j] = 0
<1> DEFINE P(i) == (x[i] # 0 \/ i = w) /\ \A j \in 1..(i - 1) : x[j] = 0
<1>1. Len(x) = w /\ DOMAIN x = 1..w /\ x \in Seq(Byte)
  OBVIOUS
<1>2. \E i \in 1..w : P(i)
  <2> SUFFICES ASSUME \A i \in 1..w : ~P(i) PROVE FALSE
    OBVIOUS
  <2> DEFINE S == {m \in Nat : m < w => \A j \in 1..m : x[j] = 0}
  <2>1. 0 \in S
    OBVIOUS
  <2>2. ASSUME NEW m \in S PROVE m + 1 \in S
    <3>1. m \in Nat
      OBVIOUS
    <3>2. ASSUME m + 1 < w PROVE \A j \in 1..(m + 1) : x[j] = 0
      <4>1. \A j \in 1..m : x[j] = 0
        BY <3>1, <3>2
      <4>2. m + 1 \in 1..w /\ (m + 1) - 1 = m /\ m + 1 # w
        BY <3>1, <3>2
      <4>3. x[m + 1] = 0
        BY <4>1, <4>2
      <4> QED BY <3>1, <4>1, <4>3
    <3> QED BY <3>1, <3>2
  <2>3. w - 1 \in S
    <3>1. S \subseteq Nat /\ w - 1 \in Nat
      OBVIOUS
    <3> HIDE DEF S
    <3> QED BY <2>1, <2>2, <3>1, SetInduction
  <2>4. P(w)
    BY <2>3
  <2>5. w \in 1..w
    OBVIOUS
  <2> QED BY <2>4, <2>5
<1> DEFINE f == CHOOSE i \in 1..w : P(i)
<1>3. f \in 1..w /\ P(f)
  <2> HIDE DEF P
  <2> QED BY <1>2
<1>4. Significant(x) = SubSeq(x, f, w)
  BY <1>1, Zenon DEF Significant
<1> HIDE DEF f
<1> QED BY <1>3, <1>4

\* An integer is written unless it has more than four significant bytes, and an
\* integer that is written is a node.
LEMMA IntegerIs ==
  ASSUME NEW w \in Nat \ {0}, NEW x \in [1..w -> Byte]
  PROVE  \E f \in 1..w :
           /\ x[f] # 0 \/ f = w
           /\ \A j \in 1..(f - 1) : x[j] = 0
           /\ w - f + 1 > 4 => WriteInteger(x) = NoNode
           /\ w - f + 1 <= 4 =>
                /\ WriteInteger(x) # NoNode
                /\ LET s == SubSeq(x, f, w)
                       c == IF x[f] >= 128 THEN <<0>> \o s ELSE s
                   IN /\ WriteInteger(x) = <<INTEGER, Len(c)>> \o c
                      /\ IntToChar(x) = c
                      /\ c \in Seq(Byte) /\ Len(c) \in 1..5
                      /\ s \in Seq(Byte) /\ Len(s) = w - f + 1
                      /\ \A i \in 1..(w - f + 1) : s[i] = x[f + i - 1]
<1>1. PICK f \in 1..w : /\ Significant(x) = SubSeq(x, f, w)
                        /\ x[f] # 0 \/ f = w
                        /\ \A j \in 1..(f - 1) : x[j] = 0
  BY SignificantIs
<1> DEFINE s == SubSeq(x, f, w)
           c == IF x[f] >= 128 THEN <<0>> \o s ELSE s
<1>2. s \in Seq(Byte) /\ Len(s) = w - f + 1 /\ \A i \in 1..(w - f + 1) : s[i] = x[f + i - 1]
  <2>1. \A i \in f..w : x[i] \in Byte
    OBVIOUS
  <2>2. f \in Int /\ w \in Int /\ f <= w
    OBVIOUS
  <2> QED BY <2>1, <2>2, SubSeqProperties
<1> HIDE DEF s
<1>3. s[1] = x[f]
  <2>1. 1 \in 1..(w - f + 1) /\ f + 1 - 1 = f
    OBVIOUS
  <2> QED BY <1>2, <2>1
<1>4. CASE w - f + 1 > 4
  <2>1. WriteInteger(x) = NoNode
    BY <1>1, <1>2, <1>4 DEF WriteInteger, IntToChar, s
  <2> QED BY <1>1, <1>4, <2>1
<1>5. CASE w - f + 1 <= 4
  <2>1. c \in Seq(Byte) /\ Len(c) \in 1..5
    <3>1. <<0>> \in Seq(Byte) /\ Len(<<0>>) = 1
      BY DEF Byte
    <3>2. <<0>> \o s \in Seq(Byte) /\ Len(<<0>> \o s) = 1 + Len(s)
      BY <1>2, <3>1, ConcatProperties
    <3>3. Len(s) \in 1..5 /\ 1 + Len(s) \in 1..5
      BY <1>2, <1>5
    <3>4. c = s \/ c = <<0>> \o s
      BY Zenon
    <3> QED BY <1>2, <3>2, <3>3, <3>4, Zenon
  <2>2. c # NoNode
    <3>1. Len(NoNode) = 0 /\ 0 \notin 1..5
      BY DEF NoNode
    <3> QED BY <2>1, <3>1, Zenon
  <2>3. IntToChar(x) = c
    <3>1. Significant(x) = s /\ ~(Len(s) > 4)
      BY <1>1, <1>2, <1>5 DEF s
    <3> QED BY <1>3, <3>1, Zenon DEF IntToChar
  <2> HIDE DEF c
  <2>4. WriteInteger(x) = <<INTEGER, Len(c)>> \o c
    BY <2>2, <2>3, Zenon DEF WriteInteger
  <2>5. WriteInteger(x) # NoNode
    <3>1. /\ <<INTEGER, Len(c)>> \in Seq(Byte) /\ Len(<<INTEGER, Len(c)>>) = 2
      BY <2>1 DEF Byte, INTEGER
    <3>2. Len(<<INTEGER, Len(c)>> \o c) = 2 + Len(c)
      BY <2>1, <3>1, ConcatProperties
    <3>3. Len(<<INTEGER, Len(c)>> \o c) # 0
      BY <2>1, <3>2
    <3> QED BY <2>4, <3>3 DEF NoNode
  <2>6. ~(w - f + 1 > 4)
    BY <1>5
  <2> QED BY <1>1, <1>2, <2>1, <2>3, <2>4, <2>5, <2>6, Zenon DEF c, s
<1>6. w - f + 1 > 4 \/ w - f + 1 <= 4
  OBVIOUS
<1> QED BY <1>4, <1>5, <1>6

\* The two bytes before an integer are its tag and its length.
LEMMA PairConcat ==
  ASSUME NEW t \in Int, NEW l \in Int PROVE <<t>> \o <<l>> = <<t, l>>
<1> DEFINE a == <<t>>
           b == <<l>>
           c == <<t, l>>
<1>1. a \in Seq(Int) /\ b \in Seq(Int) /\ Len(a) = 1 /\ Len(b) = 1 /\ a[1] = t /\ b[1] = l
  OBVIOUS
<1>2. c \in Seq(Int) /\ Len(c) = 2 /\ c[1] = t /\ c[2] = l
  OBVIOUS
<1> HIDE DEF a, b, c
<1>3. /\ a \o b \in Seq(Int) /\ Len(a \o b) = Len(a) + Len(b)
      /\ \A i \in 1..(Len(a) + Len(b)) : (a \o b)[i] = IF i <= Len(a) THEN a[i] ELSE b[i - Len(a)]
  BY <1>1, ConcatProperties
<1>4. Len(a \o b) = 2 /\ (a \o b)[1] = t /\ (a \o b)[2] = l
  BY <1>1, <1>3
<1>5. a \o b = c
  <2>1. a \o b \in Seq(Int)
    BY <1>1, ConcatProperties
  <2>2. \A i \in 1..Len(a \o b) : (a \o b)[i] = c[i]
    BY <1>2, <1>4
  <2> QED BY <1>2, <1>4, <2>1, <2>2, SeqEqual
<1> QED BY <1>5, Zenon DEF a, b, c

\* An integer that is written comes back, on any width of long.
LEMMA IntegerRead ==
  ASSUME NEW w \in Nat \ {0}, NEW x \in [1..w -> Byte], WriteInteger(x) # NoNode
  PROVE  /\ Tlv(WriteInteger(x)) /\ Len(WriteInteger(x)) \in 3..7
         /\ WriteInteger(x) = WriteTagAndLength(INTEGER, IntToChar(x))
         /\ ReadInteger(WriteInteger(x), w) = x
<1> DEFINE S(f) == SubSeq(x, f, w)
           C(f) == IF x[f] >= 128 THEN <<0>> \o S(f) ELSE S(f)
<1>1. PICK f \in 1..w :
           /\ x[f] # 0 \/ f = w
           /\ \A j \in 1..(f - 1) : x[j] = 0
           /\ w - f + 1 <= 4
           /\ WriteInteger(x) = <<INTEGER, Len(C(f))>> \o C(f)
           /\ IntToChar(x) = C(f)
           /\ C(f) \in Seq(Byte) /\ Len(C(f)) \in 1..5
           /\ S(f) \in Seq(Byte) /\ Len(S(f)) = w - f + 1
           /\ \A i \in 1..(w - f + 1) : S(f)[i] = x[f + i - 1]
  <2>1. \A f \in 1..w : ~(w - f + 1 > 4) <=> w - f + 1 <= 4
    OBVIOUS
  <2> QED BY <2>1, IntegerIs, Zenon
<1> DEFINE s == S(f)
           c == C(f)
           n == WriteInteger(x)
           o == LengthOctets(Len(c))
<1>2. Len(c) \in Sizes /\ INTEGER \in Byte /\ o = <<Len(c)>> /\ Len(o) = 1
  <2>1. Len(c) \in Nat /\ Len(c) < 128
    BY <1>1
  <2>2. LengthOctets(Len(c)) = <<Len(c)>>
    BY <2>1, LengthOctetsType, Zenon
  <2>3. Len(c) \in Sizes
    BY <2>1 DEF Sizes
  <2>4. Len(<<Len(c)>>) = 1 /\ INTEGER \in Byte
    BY DEF INTEGER, Byte
  <2> HIDE DEF c
  <2> QED BY <2>2, <2>3, <2>4, Zenon DEF o
<1>3. n = WriteTagAndLength(INTEGER, c)
  <2>1. \A l \in 1..5 : <<INTEGER>> \o <<l>> = <<INTEGER, l>>
    <3>1. INTEGER \in Int /\ \A l \in 1..5 : l \in Int
      BY DEF INTEGER
    <3> QED BY <3>1, PairConcat, Zenon
  <2>a. Len(c) \in 1..5
    BY <1>1, Zenon
  <2> HIDE DEF c, n
  <2>2. WriteTagAndLength(INTEGER, c) = (<<INTEGER>> \o <<Len(c)>>) \o c
    BY <1>2 DEF WriteTagAndLength
  <2>3. n = <<INTEGER, Len(c)>> \o c
    BY <1>1, Zenon DEF n, c
  <2>4. <<INTEGER>> \o <<Len(c)>> = <<INTEGER, Len(c)>>
    BY <2>1, <2>a, Zenon
  <2> QED BY <2>2, <2>3, <2>4, Zenon
<1>4. c \in Seq(Byte) /\ Len(c) \in 1..5 /\ s \in Seq(Byte)
  BY <1>1, Zenon
<1>5. /\ s \in Seq(Byte) /\ Len(s) = w - f + 1 /\ \A i \in 1..(w - f + 1) : s[i] = x[f + i - 1]
      /\ c = IF x[f] >= 128 THEN <<0>> \o s ELSE s
  BY <1>1, Zenon
<1> HIDE DEF C, S, s, c, n
<1>6. Tlv(n) /\ Len(n) \in 3..7
  <2>1. Tlv(n) /\ Len(n) = 1 + Len(o) + Len(c)
    BY <1>2, <1>3, <1>4, TagAndLengthIs
  <2>2. \A l \in 1..5 : 1 + 1 + l \in 3..7
    OBVIOUS
  <2> QED BY <1>2, <1>4, <2>1, <2>2, Zenon
<1>7. ReadInteger(n, w) = CharToInt(c, w)
  <2>1. /\ GetLengthInfo(n, 2) = [value |-> Len(c), size |-> Len(o), at |-> 2 + Len(o)]
        /\ SubSeq(n, 2 + Len(o), 2 + Len(o) + Len(c) - 1) = c
    BY <1>2, <1>3, <1>4, ContentRead
  <2> DEFINE l == GetLengthInfo(n, 2)
  <2>2. l.at = 2 + Len(o) /\ l.value = Len(c)
    <3> HIDE DEF o
    <3> QED BY <2>1
  <2>3. ReadInteger(n, w) = CharToInt(SubSeq(n, l.at, l.at + l.value - 1), w)
    BY Zenon DEF ReadInteger
  <2> HIDE DEF l, o
  <2> QED BY <2>1, <2>2, <2>3, Zenon
<1> DEFINE d == IF c[1] = 0 /\ Len(c) > 1 THEN Tail(c) ELSE c
<1>8. d = s
  <2>1. s[1] = x[f]
    <3>1. 1 \in 1..(w - f + 1) /\ f + 1 - 1 = f
      OBVIOUS
    <3> QED BY <1>5, <3>1
  <2>2. CASE x[f] >= 128
    <3> DEFINE z == <<0>>
    <3>1. c = z \o s /\ z \in Seq(Byte) /\ Len(z) = 1 /\ z[1] = 0
      <4>1. z \in Seq(Byte) /\ Len(z) = 1 /\ z[1] = 0
        BY DEF Byte
      <4> QED BY <1>5, <2>2, <4>1, Zenon
    <3> HIDE DEF z
    <3>2. /\ Len(c) = Len(z) + Len(s)
          /\ \A i \in 1..(Len(z) + Len(s)) : c[i] = IF i <= Len(z) THEN z[i] ELSE s[i - Len(z)]
      <4> DEFINE y == z \o s
      <4>1. /\ Len(y) = Len(z) + Len(s)
            /\ \A i \in 1..(Len(z) + Len(s)) : y[i] = IF i <= Len(z) THEN z[i] ELSE s[i - Len(z)]
        <5>1. s \in Seq(Byte) /\ z \in Seq(Byte)
          BY <1>4, <3>1, Zenon
        <5> QED BY <5>1, ConcatProperties, Zenon
      <4>2. c = y
        BY <3>1
      <4> HIDE DEF y
      <4> QED BY <4>1, <4>2, Zenon
    <3>3. Len(s) \in Nat /\ Len(s) >= 1
      BY <1>5
    <3>4. c[1] = 0 /\ Len(c) > 1 /\ c # <<>>
      BY <3>1, <3>2, <3>3
    <3>5. /\ Tail(c) \in Seq(Byte) /\ Len(Tail(c)) = Len(c) - 1
          /\ \A i \in 1..Len(Tail(c)) : Tail(c)[i] = c[i + 1]
      BY <1>4, <3>4, HeadTailProperties
    <3>6. Len(Tail(c)) = Len(s)
      BY <3>1, <3>2, <3>3, <3>5
    <3>7. ASSUME NEW i \in 1..Len(s) PROVE Tail(c)[i] = s[i]
      <4>1. i + 1 \in 1..(Len(z) + Len(s)) /\ ~(i + 1 <= Len(z)) /\ i + 1 - Len(z) = i
        BY <3>1, <3>3
      <4> QED BY <3>2, <3>5, <3>6, <4>1
    <3>8. Tail(c) = s
      BY <1>5, <3>5, <3>6, <3>7, SeqEqual
    <3> QED BY <3>4, <3>8
  <2>3. CASE ~(x[f] >= 128)
    <3>1. c = s
      BY <1>5, <2>3
    <3>2. s[1] = 0 => Len(s) = 1
      <4>1. x[f] = 0 => f = w
        BY <1>1
      <4> QED BY <1>5, <2>1, <4>1
    <3>3. ~(Len(s) = 1 /\ Len(s) > 1)
      <4>1. ~(1 > 1)
        OBVIOUS
      <4> QED BY <4>1, Zenon
    <3>4. ~(c[1] = 0 /\ Len(c) > 1)
      BY <3>1, <3>2, <3>3, Zenon
    <3> QED BY <3>1, <3>4, Zenon
  <2> QED BY <2>2, <2>3
<1>9. CharToInt(c, w) = [i \in 1..w |-> IF Len(s) - w + i >= 1 THEN s[Len(s) - w + i] ELSE 0]
  <2>1. CharToInt(c, w) = [i \in 1..w |-> IF Len(d) - w + i >= 1 THEN d[Len(d) - w + i] ELSE 0]
    BY Zenon DEF CharToInt
  <2> HIDE DEF d
  <2> QED BY <1>8, <2>1, Zenon
<1>10. ASSUME NEW i \in 1..w
       PROVE  (IF Len(s) - w + i >= 1 THEN s[Len(s) - w + i] ELSE 0) = x[i]
  <2>1. Len(s) - w + i = i - f + 1
    BY <1>5
  <2>2. CASE i >= f
    <3>1. i - f + 1 \in 1..(w - f + 1) /\ f + (i - f + 1) - 1 = i /\ i - f + 1 >= 1
      BY <2>2
    <3>2. s[i - f + 1] = x[i]
      BY <1>5, <3>1
    <3> QED BY <2>1, <3>1, <3>2
  <2>3. CASE ~(i >= f)
    <3>1. i \in 1..(f - 1) /\ ~(i - f + 1 >= 1)
      BY <2>3
    <3> QED BY <1>1, <2>1, <3>1
  <2> QED BY <2>2, <2>3
<1>11. CharToInt(c, w) = x
  <2>1. x = [i \in 1..w |-> x[i]]
    OBVIOUS
  <2> QED BY <1>9, <1>10, <2>1
<1>12. c = IntToChar(x)
  BY <1>1, Zenon DEF c
<1> QED BY <1>3, <1>6, <1>7, <1>11, <1>12 DEF n

-----------------------------------------------------------------------------
\* An int as the bytes of an unsigned long.
LEMMA WordIs ==
  ASSUME NEW v \in Int, NEW w \in {4, 8}
  PROVE  /\ Word(v, w) \in [1..w -> Byte]
         /\ \A i \in (w - 3)..w : Word(v, w)[i] = Octet(v, w - i)
         /\ w = 8 => \A i \in 1..4 : Word(v, w)[i] = IF v < 0 THEN 255 ELSE 0
<1>1. ASSUME NEW i \in 1..w
      PROVE  (IF w - i > 3 THEN (IF v < 0 THEN 255 ELSE 0) ELSE Octet(v, w - i)) \in Byte
  <2>1. CASE w - i > 3
    BY <2>1 DEF Byte
  <2>2. CASE ~(w - i > 3)
    <3>1. w - i \in 0..3
      BY <2>2
    <3>2. \A k \in 0..3 : Octet(v, k) \in Byte
      BY Octets
    <3> QED BY <2>2, <3>1, <3>2
  <2> QED BY <2>1, <2>2
<1>2. Word(v, w) \in [1..w -> Byte]
  BY <1>1 DEF Word
<1>3. ASSUME NEW i \in (w - 3)..w PROVE Word(v, w)[i] = Octet(v, w - i)
  <2>1. i \in 1..w /\ ~(w - i > 3)
    OBVIOUS
  <2> QED BY <2>1, Zenon DEF Word
<1>4. ASSUME w = 8, NEW i \in 1..4 PROVE Word(v, w)[i] = IF v < 0 THEN 255 ELSE 0
  <2>1. i \in 1..w /\ w - i > 3
    BY <1>4
  <2> QED BY <2>1, Zenon DEF Word
<1> QED BY <1>2, <1>3, <1>4

\* The writer of integers refuses what has more than four significant bytes: a
\* negative number where long has eight.
LEMMA IntegerWritten ==
  ASSUME NEW v \in Int, NEW w \in {4, 8}
  PROVE  WriteInteger(Word(v, w)) # NoNode <=> ~(w = 8 /\ v < 0)
<1> DEFINE x == Word(v, w)
<1>1. w \in Nat \ {0} /\ x \in [1..w -> Byte]
  <2>1. w \in Nat \ {0}
    OBVIOUS
  <2>2. x \in [1..w -> Byte]
    BY WordIs, Zenon
  <2> QED BY <2>1, <2>2
<1>2. w = 8 => \A i \in 1..4 : x[i] = IF v < 0 THEN 255 ELSE 0
  BY WordIs, Zenon
<1> HIDE DEF x
<1>3. PICK f \in 1..w : /\ x[f] # 0 \/ f = w
                        /\ \A j \in 1..(f - 1) : x[j] = 0
                        /\ w - f + 1 > 4 => WriteInteger(x) = NoNode
                        /\ w - f + 1 <= 4 => WriteInteger(x) # NoNode
  BY <1>1, IntegerIs, Zenon
<1>4. CASE w = 4
  <2>1. w - f + 1 <= 4
    BY <1>4
  <2> QED BY <1>3, <1>4, <2>1 DEF x
<1>5. CASE w = 8 /\ v < 0
  <2>1. x[1] = 255
    BY <1>2, <1>5
  <2>2. f = 1
    <3>1. f # 1 => 1 \in 1..(f - 1)
      OBVIOUS
    <3> QED BY <1>3, <2>1, <3>1
  <2>3. w - f + 1 > 4
    BY <1>5, <2>2
  <2> QED BY <1>3, <1>5, <2>3 DEF x
<1>6. CASE w = 8 /\ ~(v < 0)
  <2>1. f \notin 1..4
    BY <1>2, <1>3, <1>6
  <2>2. w - f + 1 <= 4
    BY <1>6, <2>1
  <2> QED BY <1>3, <1>6, <2>2 DEF x
<1> QED BY <1>4, <1>5, <1>6
=============================================================================
