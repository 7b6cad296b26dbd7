-------------------------- MODULE TcpSocketProofs ---------------------------
(***************************************************************************)
(* What is proved of TcpSocket for every set of messages, size of a byte,  *)
(* limit of recvMsg and buffer: the receiver stays in step with the frames *)
(* of the sender, it refuses only a message that is too long, and every    *)
(* step of the two loops is a step, or no step, of the channel of whole    *)
(* messages.  Let S be all the bytes the sender has begun to write, frame  *)
(* after frame, and at[k] the bytes before frame k: what readn has read,   *)
(* what is on its way and what writen has left are consecutive parts of S, *)
(* and where they begin follows from the messages received.                *)
(***************************************************************************)
EXTENDS TcpSocket, TLAPS

\* S is the frames of ms, one after the other.
Frames(S, at, ms) ==
  /\ S \in Seq(Byte) /\ at \in [1..(Len(ms) + 1) -> Nat]
  /\ at[Len(ms) + 1] = Len(S)
  /\ \A k \in 1..Len(ms) :
       /\ at[k + 1] = at[k] + HeaderLen + Len(ms[k]) /\ at[k + 1] <= Len(S)
       /\ \A j \in 1..HeaderLen : S[at[k] + j] = Header(Len(ms[k]))[j]
       /\ \A j \in 1..Len(ms[k]) : S[at[k] + HeaderLen + j] = ms[k][j]

\* part is what S holds after its first p bytes.
Holds(S, p, part) ==
  /\ p + Len(part) <= Len(S)
  /\ \A i \in 1..Len(part) : part[i] = S[p + i]

\* The bytes that readn was done with, and those that were written.
Taken(at)   == at[Len(got) + 1] + (IF rpc = "body" THEN HeaderLen ELSE 0)
Written(at) == Taken(at) + Len(rbuf) + Len(pipe)

\* Every byte that is not taken is in a buffer, on its way or not yet written.
InFlight(S, at) ==
  /\ Frames(S, at, Begun)
  /\ Holds(S, Taken(at), rbuf)
  /\ Holds(S, Taken(at) + Len(rbuf), pipe)
  /\ wpc = "idle" => Written(at) = Len(S)
  /\ wpc \in {"header", "body"} => Holds(S, Written(at), wbuf)
  /\ wpc = "header" => Written(at) + Len(wbuf) + Len(wmsg) = Len(S)
  /\ wpc = "body" => Written(at) + Len(wbuf) = Len(S)
  /\ wmsg # <<>> => Written(at) < Len(S)

Flow ==
  rpc \in {"idle", "header", "body"} =>
    /\ Len(got) <= Len(Begun)
    /\ \E S \in Seq(Byte), at \in [1..(Len(Begun) + 1) -> Nat] : InFlight(S, at)

\* The locals of the two loops.
SenderOK ==
  /\ wpc = "idle" => wmsg = <<>>
  /\ wpc \in {"header", "body"} => wmsg # <<>> /\ wbuf # <<>>
ReceiverOK ==
  /\ rpc = "idle" => rbuf = <<>>
  /\ rpc = "header" => rlen = HeaderLen
  /\ rpc = "body" => Len(got) < Len(Begun) /\ rlen = Len(Begun[Len(got) + 1])

Inv == TypeOK /\ SenderOK /\ ReceiverOK /\ RefusesOnlyLong /\ Flow

-----------------------------------------------------------------------------
(* Numbers and sequences.                                                  *)

LEMMA Division ==
  ASSUME NEW n \in Nat, NEW d \in Nat \ {0}
  PROVE  n \div d \in Nat /\ n % d \in 0..(d - 1) /\ n = (n \div d) * d + (n % d)
<1>1. n \div d \in Int /\ n % d \in 0..(d - 1) /\ n = d * (n \div d) + (n % d)
  OBVIOUS
<1>2. n \div d >= 0
  OBVIOUS
<1> DEFINE q == n \div d
           r == n % d
<1>3. d * q = q * d
  <2>1. q \in Int
    BY <1>1
  <2> HIDE DEF q
  <2> QED BY <2>1
<1> QED BY <1>1, <1>2, <1>3

LEMMA QuotientBound ==
  ASSUME NEW n \in Nat, NEW d \in Nat \ {0}, NEW c \in Nat, n < c * d
  PROVE  n \div d < c
<1> DEFINE q == n \div d
<1>1. q \in Nat /\ n >= q * d
  BY Division
<1>2. CASE q >= c
  <2>1. q * d >= c * d
    BY <1>1, <1>2
  <2> QED BY <1>1, <2>1
<1> QED BY <1>1, <1>2

\* The header of a length is four bytes, and ntohl finds the length again.
LEMMA HeaderBytes ==
  ASSUME NEW n \in Nat
  PROVE  Header(n) \in Seq(Byte) /\ Len(Header(n)) = HeaderLen
<1> DEFINE q1 == n \div Base
           q2 == q1 \div Base
           q3 == q2 \div Base
<1>1. Base \in Nat \ {0}
  BY TransportAssumption
<1>2. q1 \in Nat /\ n % Base \in Byte
  BY <1>1, Division DEF Byte
<1>3. q2 \in Nat /\ q1 % Base \in Byte
  BY <1>1, <1>2, Division DEF Byte
<1>4. q3 \in Nat /\ q2 % Base \in Byte
  BY <1>1, <1>3, Division DEF Byte
<1>5. q3 % Base \in Byte
  BY <1>1, <1>4, Division DEF Byte
<1> QED BY <1>2, <1>3, <1>4, <1>5 DEF Header, HeaderLen

LEMMA LengthOfHeader ==
  ASSUME NEW n \in Nat, n < Base * Base * Base * Base
  PROVE  Length(Header(n)) = n
<1> DEFINE q1 == n \div Base
           q2 == q1 \div Base
           q3 == q2 \div Base
<1>1. Base \in Nat \ {0} /\ Base * Base \in Nat /\ Base * Base * Base \in Nat
  BY TransportAssumption
<1>2. q1 \in Nat /\ n = q1 * Base + (n % Base) /\ q1 < Base * Base * Base
  BY <1>1, Division, QuotientBound
<1>3. q2 \in Nat /\ q1 = q2 * Base + (q1 % Base) /\ q2 < Base * Base
  <2> HIDE DEF q1
  <2> QED BY <1>1, <1>2, Division, QuotientBound
<1>4. q3 \in Nat /\ q2 = q3 * Base + (q2 % Base) /\ q3 < Base
  <2> HIDE DEF q2
  <2> QED BY <1>1, <1>3, Division, QuotientBound
<1>5. q3 % Base = q3
  <2> HIDE DEF q3
  <2> QED BY <1>1, <1>4
<1>6. Length(Header(n)) = (((q3 % Base) * Base + (q2 % Base)) * Base + (q1 % Base)) * Base + (n % Base)
  BY DEF Length, Header
<1> HIDE DEF q1, q2, q3
<1> QED BY <1>2, <1>3, <1>4, <1>5, <1>6

LEMMA Cut ==
  ASSUME NEW s \in Seq(Byte), NEW n \in 0..Len(s)
  PROVE  /\ SubSeq(s, 1, n) \in Seq(Byte) /\ Len(SubSeq(s, 1, n)) = n
         /\ \A i \in 1..n : SubSeq(s, 1, n)[i] = s[i]
         /\ SubSeq(s, n + 1, Len(s)) \in Seq(Byte) /\ Len(SubSeq(s, n + 1, Len(s))) = Len(s) - n
         /\ \A i \in 1..(Len(s) - n) : SubSeq(s, n + 1, Len(s))[i] = s[n + i]
OBVIOUS

LEMMA Join ==
  ASSUME NEW s \in Seq(Byte), NEW t \in Seq(Byte)
  PROVE  /\ s \o t \in Seq(Byte) /\ Len(s \o t) = Len(s) + Len(t)
         /\ \A i \in 1..Len(s) : (s \o t)[i] = s[i]
         /\ \A i \in 1..Len(t) : (s \o t)[Len(s) + i] = t[i]
OBVIOUS

LEMMA SameSequence ==
  ASSUME NEW s \in Seq(Byte), NEW t \in Seq(Byte), Len(s) = Len(t),
         \A i \in 1..Len(s) : s[i] = t[i]
  PROVE  s = t
OBVIOUS

LEMMA HoldsParts ==
  ASSUME NEW S \in Seq(Byte), NEW p \in Nat, NEW s \in Seq(Byte), NEW n \in 0..Len(s),
         Holds(S, p, s)
  PROVE  Holds(S, p, SubSeq(s, 1, n)) /\ Holds(S, p + n, SubSeq(s, n + 1, Len(s)))
<1> DEFINE t == SubSeq(s, n + 1, Len(s))
<1>1. Len(t) = Len(s) - n /\ \A i \in 1..Len(t) : t[i] = s[n + i] /\ n + i \in 1..Len(s)
  BY Cut
<1>2. \A i \in 1..Len(t) : t[i] = S[p + n + i]
  <2> TAKE i \in 1..Len(t)
  <2>1. t[i] = s[n + i] /\ n + i \in 1..Len(s)
    BY <1>1
  <2>2. s[n + i] = S[p + (n + i)]
    BY <2>1 DEF Holds
  <2>3. i \in Int
    OBVIOUS
  <2> QED BY <2>1, <2>2, <2>3
<1>3. p + n + Len(t) <= Len(S)
  BY <1>1 DEF Holds
<1>4. Holds(S, p + n, t)
  BY <1>2, <1>3 DEF Holds
<1>5. Holds(S, p, SubSeq(s, 1, n))
  BY Cut DEF Holds
<1> QED BY <1>4, <1>5

LEMMA HoldsJoined ==
  ASSUME NEW S \in Seq(Byte), NEW p \in Nat, NEW s \in Seq(Byte), NEW t \in Seq(Byte),
         Holds(S, p, s), Holds(S, p + Len(s), t)
  PROVE  Holds(S, p, s \o t)
<1>1. p + Len(s \o t) <= Len(S)
  BY Join DEF Holds
<1>2. ASSUME NEW i \in 1..Len(s \o t)
      PROVE  (s \o t)[i] = S[p + i]
  <2>1. CASE i <= Len(s)
    BY <2>1, Join DEF Holds
  <2>2. CASE i > Len(s)
    <3>1. i - Len(s) \in 1..Len(t) /\ i = Len(s) + (i - Len(s))
      BY <2>2, Join
    <3>2. (s \o t)[i] = t[i - Len(s)]
      BY <3>1, Join
    <3>3. t[i - Len(s)] = S[p + Len(s) + (i - Len(s))]
      BY <3>1 DEF Holds
    <3> QED BY <3>1, <3>2, <3>3
  <2> QED BY <2>1, <2>2
<1> QED BY <1>1, <1>2 DEF Holds

LEMMA HoldsMore ==
  ASSUME NEW S \in Seq(Byte), NEW T \in Seq(Byte), NEW p \in Nat, NEW s \in Seq(Byte),
         Holds(S, p, s)
  PROVE  Holds(S \o T, p, s)
<1>1. Len(S \o T) >= Len(S)
  BY Join
<1>2. \A i \in 1..Len(s) : p + i \in 1..Len(S)
  BY DEF Holds
<1> QED BY <1>1, <1>2, Join DEF Holds

-----------------------------------------------------------------------------
(* The frames.                                                             *)

LEMMA MessageLength ==
  ASSUME NEW m \in Msgs
  PROVE  m \in Seq(Byte) /\ Len(m) \in Nat \ {0} /\ Length(Header(Len(m))) = Len(m)
<1>1. m \in Seq(Byte) /\ m # <<>> /\ Len(m) < Base * Base * Base * Base
  BY TransportAssumption
<1>2. Len(m) \in Nat \ {0}
  BY <1>1
<1> QED BY <1>1, <1>2, LengthOfHeader

LEMMA FramesAppend ==
  ASSUME NEW ms \in Seq(Msgs), NEW m \in Msgs, NEW S \in Seq(Byte),
         NEW at \in [1..(Len(ms) + 1) -> Nat], Frames(S, at, ms)
  PROVE  LET S2  == (S \o Header(Len(m))) \o m
             at2 == [k \in 1..(Len(ms) + 2) |-> IF k <= Len(ms) + 1 THEN at[k]
                                                ELSE Len(S) + HeaderLen + Len(m)]
         IN  /\ Frames(S2, at2, Append(ms, m))
             /\ Len(S2) = Len(S) + HeaderLen + Len(m)
             /\ Holds(S2, Len(S), Header(Len(m)))
<1> DEFINE h == Header(Len(m))
           S1 == S \o h
           S2 == S1 \o m
           at2 == [k \in 1..(Len(ms) + 2) |-> IF k <= Len(ms) + 1 THEN at[k]
                                              ELSE Len(S) + HeaderLen + Len(m)]
           ns == Append(ms, m)
<1>1. m \in Seq(Byte) /\ Len(m) \in Nat \ {0}
  BY MessageLength
<1>2. h \in Seq(Byte) /\ Len(h) = HeaderLen /\ HeaderLen = 4
  BY <1>1, HeaderBytes DEF HeaderLen
<1>3. ns \in Seq(Msgs) /\ Len(ns) = Len(ms) + 1 /\ ns[Len(ms) + 1] = m
      /\ \A k \in 1..Len(ms) : ns[k] = ms[k]
  OBVIOUS
<1> HIDE DEF h, ns
<1>4. /\ S1 \in Seq(Byte) /\ Len(S1) = Len(S) + HeaderLen
      /\ \A i \in 1..Len(S) : S1[i] = S[i]
      /\ \A i \in 1..HeaderLen : S1[Len(S) + i] = h[i]
  <2>1. S1 \in Seq(Byte) /\ Len(S1) = Len(S) + Len(h)
    BY <1>2, Join
  <2>2. \A i \in 1..Len(S) : S1[i] = S[i]
    BY <1>2, Join
  <2>3. \A i \in 1..Len(h) : S1[Len(S) + i] = h[i]
    BY <1>2, Join
  <2> HIDE DEF S1
  <2> QED BY <2>1, <2>2, <2>3, <1>2
<1> HIDE DEF S1
<1>5. /\ S2 \in Seq(Byte) /\ Len(S2) = Len(S) + HeaderLen + Len(m)
      /\ \A i \in 1..Len(S) : S2[i] = S[i]
      /\ \A i \in 1..HeaderLen : S2[Len(S) + i] = h[i]
      /\ \A i \in 1..Len(m) : S2[Len(S) + HeaderLen + i] = m[i]
  <2>1. /\ S2 \in Seq(Byte) /\ Len(S2) = Len(S1) + Len(m)
        /\ \A i \in 1..Len(S1) : S2[i] = S1[i]
        /\ \A i \in 1..Len(m) : S2[Len(S1) + i] = m[i]
    BY <1>1, <1>4, Join
  <2>0. ASSUME NEW i \in 1..Len(m)
        PROVE  S2[Len(S1) + i] = m[i]
    BY <1>1, <1>4, Join
  <2>2. \A i \in 1..HeaderLen : Len(S) + i \in 1..Len(S1)
    BY <1>2, <1>4
  <2>3. \A i \in 1..Len(S) : i \in 1..Len(S1)
    BY <1>2, <1>4
  <2> HIDE DEF S2
  <2>4. \A i \in 1..Len(S) : S2[i] = S[i]
    BY <2>1, <2>3, <1>4
  <2>5. \A i \in 1..HeaderLen : S2[Len(S) + i] = h[i]
    BY <2>1, <2>2, <1>4
  <2>6. \A i \in 1..Len(m) : S2[Len(S) + HeaderLen + i] = m[i]
    BY <2>0, <1>4
  <2> QED BY <2>1, <2>4, <2>5, <2>6, <1>4
<1> HIDE DEF S2
<1>6. /\ at2 \in [1..(Len(ns) + 1) -> Nat] /\ at2[Len(ns) + 1] = Len(S2)
      /\ at2[Len(ms) + 1] = Len(S) /\ \A k \in 1..(Len(ms) + 1) : at2[k] = at[k]
  <2>1. Len(ms) \in Nat /\ Len(S) \in Nat /\ Len(S2) = Len(S) + HeaderLen + Len(m)
    BY <1>5
  <2>2. at \in [1..(Len(ms) + 1) -> Nat] /\ at[Len(ms) + 1] = Len(S)
    BY DEF Frames
  <2>3. Len(S) + HeaderLen + Len(m) \in Nat
    BY <1>1, <1>2, <2>1
  <2>4. at2 \in [1..(Len(ms) + 2) -> Nat]
    BY <2>1, <2>2, <2>3
  <2>5. at2[Len(ms) + 2] = Len(S) + HeaderLen + Len(m)
    BY <2>1
  <2>6. \A k \in 1..(Len(ms) + 1) : at2[k] = at[k]
    BY <2>1
  <2>7. Len(ns) + 1 = Len(ms) + 2 /\ Len(ms) + 1 \in 1..(Len(ms) + 1)
    BY <1>3, <2>1
  <2> HIDE DEF at2
  <2> QED BY <2>1, <2>2, <2>4, <2>5, <2>6, <2>7
<1>7. Holds(S2, Len(S), h)
  <2>1. Len(S) + Len(h) <= Len(S2)
    <3> DEFINE k == Len(S)
               l == Len(m)
    <3>1. k \in Nat /\ l \in Nat /\ Len(h) = 4 /\ Len(S2) = k + 4 + l
      BY <1>1, <1>2, <1>5
    <3> HIDE DEF k, l
    <3>2. k + Len(h) <= Len(S2)
      BY <3>1
    <3> QED BY <3>2 DEF k
  <2>2. \A i \in 1..Len(h) : h[i] = S2[Len(S) + i]
    BY <1>2, <1>5
  <2> QED BY <2>1, <2>2 DEF Holds
<1> HIDE DEF at2
<1>8. ASSUME NEW k \in 1..Len(ns)
      PROVE  /\ at2[k + 1] = at2[k] + HeaderLen + Len(ns[k]) /\ at2[k + 1] <= Len(S2)
             /\ \A j \in 1..HeaderLen : S2[at2[k] + j] = Header(Len(ns[k]))[j]
             /\ \A j \in 1..Len(ns[k]) : S2[at2[k] + HeaderLen + j] = ns[k][j]
  <2>1. CASE k = Len(ms) + 1
    BY <2>1, <1>3, <1>5, <1>6 DEF h
  <2>2. CASE k \in 1..Len(ms)
    <3>1. ns[k] = ms[k] /\ at2[k] = at[k] /\ at2[k + 1] = at[k + 1]
      BY <2>2, <1>3, <1>6
    <3>2. at[k] \in Nat /\ at[k + 1] \in Nat /\ ms[k] \in Msgs
      BY <2>2
    <3>0. Len(ms[k]) \in Nat
      BY <3>2, MessageLength
    <3>3. /\ at[k + 1] = at[k] + HeaderLen + Len(ms[k]) /\ at[k + 1] <= Len(S)
          /\ \A j \in 1..HeaderLen : S[at[k] + j] = Header(Len(ms[k]))[j]
          /\ \A j \in 1..Len(ms[k]) : S[at[k] + HeaderLen + j] = ms[k][j]
      BY <2>2 DEF Frames
    <3>4. ASSUME NEW j \in 1..HeaderLen
          PROVE  S2[at[k] + j] = Header(Len(ms[k]))[j]
      <4> DEFINE a == at[k]
                 l == Len(ms[k])
                 s == Len(S)
      <4>0. a \in Nat /\ l \in Nat /\ s \in Nat /\ a + 4 + l <= s /\ j \in 1..4
        BY <3>0, <3>2, <3>3, <1>2
      <4>1. at[k] + j \in 1..Len(S)
        <5> HIDE DEF a, l, s
        <5>1. a + j \in 1..s
          BY <4>0
        <5> QED BY <5>1 DEF a, s
      <4> QED BY <4>1, <3>3, <1>5
    <3>5. ASSUME NEW j \in 1..Len(ms[k])
          PROVE  S2[at[k] + HeaderLen + j] = ms[k][j]
      <4> DEFINE a == at[k]
                 l == Len(ms[k])
                 s == Len(S)
      <4>0. a \in Nat /\ l \in Nat /\ s \in Nat /\ a + 4 + l <= s /\ j \in 1..l
        BY <3>0, <3>2, <3>3, <1>2
      <4>1. at[k] + HeaderLen + j \in 1..Len(S)
        <5> HIDE DEF a, l, s
        <5>1. a + 4 + j \in 1..s
          BY <4>0
        <5> QED BY <5>1, <1>2 DEF a, s
      <4> QED BY <4>1, <3>3, <1>5
    <3>6. at[k + 1] <= Len(S2)
      BY <3>2, <3>3, <1>1, <1>2, <1>5
    <3> QED BY <3>1, <3>3, <3>4, <3>5, <3>6
  <2> QED BY <2>1, <2>2, <1>3
<1>9. Frames(S2, at2, ns)
  BY <1>5, <1>6, <1>8 DEF Frames
<1> QED BY <1>5, <1>7, <1>9 DEF S2, S1, h, at2, ns

-----------------------------------------------------------------------------
(* The types and the sender's buffer.                                      *)

LEMMA TypeInit == Init => TypeOK /\ SenderOK
BY TransportAssumption DEF Init, TypeOK, SenderOK

LEMMA TypeStep == TypeOK /\ SenderOK /\ [Next]_vars => TypeOK' /\ SenderOK'
<1> SUFFICES ASSUME TypeOK, SenderOK, [Next]_vars
             PROVE  TypeOK' /\ SenderOK'
  OBVIOUS
<1>1. ASSUME NEW m \in Msgs, SendMsg(m)
      PROVE  TypeOK' /\ SenderOK'
  <2>1. m # <<>> /\ Header(Len(m)) \in Seq(Byte) /\ Header(Len(m)) # <<>>
    <3>1. m \in Seq(Byte) /\ Len(m) \in Nat \ {0}
      BY MessageLength
    <3> DEFINE h == Header(Len(m))
    <3>2. h \in Seq(Byte) /\ Len(h) = 4
      BY <3>1, HeaderBytes DEF HeaderLen
    <3>3. h # <<>>
      <4> HIDE DEF h
      <4> QED BY <3>2
    <3> QED BY <3>1, <3>2, <3>3
  <2> QED BY <1>1, <2>1 DEF SendMsg, TypeOK, SenderOK, rvars
<1>2. ASSUME NEW n \in 1..Room, Write(n)
      PROVE  TypeOK' /\ SenderOK'
  <2> USE <1>2 DEF Write
  <2>1. wpc \in {"header", "body"} /\ wmsg \in Msgs /\ wbuf \in Seq(Byte) /\ wbuf # <<>>
    BY DEF TypeOK, SenderOK
  <2>2. n \in 1..Len(wbuf) /\ (rpc # "closed" => n <= BufSize - Len(pipe))
    BY TransportAssumption DEF Room, Least, TypeOK
  <2>3. pipe' \in Seq(Byte) /\ Len(pipe') <= BufSize
    <3>1. CASE rpc = "closed"
      BY <3>1 DEF Carry, TypeOK
    <3>2. CASE rpc # "closed"
      <4> DEFINE part == SubSeq(wbuf, 1, n)
      <4>1. part \in Seq(Byte) /\ Len(part) = n
        BY <2>1, <2>2, Cut
      <4>2. pipe \o part \in Seq(Byte) /\ Len(pipe \o part) = Len(pipe) + n
        <5> HIDE DEF part
        <5> QED BY <4>1, Join DEF TypeOK
      <4>3. Len(pipe) \in Nat /\ BufSize \in Nat
        BY TransportAssumption DEF TypeOK
      <4> QED BY <3>2, <4>2, <4>3, <2>2 DEF Carry
    <3> QED BY <3>1, <3>2
  <2>4. CASE WritePart(n)
    <3>1. wbuf' \in Seq(Byte) /\ Len(wbuf') = Len(wbuf) - n /\ n < Len(wbuf)
      BY <2>4, <2>1, <2>2, Cut DEF WritePart
    <3>2. wbuf' # <<>>
      BY <3>1, <2>1
    <3> QED BY <2>4, <2>1, <2>3, <3>1, <3>2 DEF WritePart, TypeOK, SenderOK, rvars
  <2>5. CASE WriteRest(n)
    <3>1. wmsg \in Seq(Byte) /\ wmsg # <<>>
      BY <2>1, TransportAssumption
    <3>2. CASE wpc = "header"
      BY <2>5, <2>1, <2>3, <3>1, <3>2 DEF WriteRest, TypeOK, SenderOK, rvars
    <3>3. CASE wpc = "body"
      <4>1. wpc' = "idle" /\ wbuf' = <<>> /\ wmsg' = <<>> /\ sent' = Append(sent, wmsg)
        BY <2>5, <3>3 DEF WriteRest
      <4>2. sent' \in Seq(Msgs)
        BY <2>1, <4>1 DEF TypeOK
      <4> QED BY <2>3, <4>1, <4>2 DEF TypeOK, SenderOK, rvars
    <3> QED BY <2>1, <3>2, <3>3
  <2> QED BY <2>4, <2>5
<1>3. CASE WriteFails
  BY <1>3 DEF WriteFails, TypeOK, SenderOK, rvars
<1>4. CASE CloseSender
  <2>1. PICK n \in 0..Len(pipe) : pipe' = SubSeq(pipe, 1, n)
    BY <1>4 DEF CloseSender
  <2>2. pipe' \in Seq(Byte) /\ Len(pipe') <= BufSize
    <3>1. pipe' \in Seq(Byte) /\ Len(pipe') = n
      BY <2>1, Cut DEF TypeOK
    <3> QED BY <3>1, TransportAssumption DEF TypeOK
  <2> QED BY <1>4, <2>2 DEF CloseSender, TypeOK, SenderOK, rvars
<1>5. CASE RecvMsg
  BY <1>5 DEF RecvMsg, TypeOK, SenderOK, wvars, HeaderLen
<1>6. ASSUME NEW n \in 1..Least(rlen - Len(rbuf), Len(pipe)), Read(n)
      PROVE  TypeOK' /\ SenderOK'
  <2> USE <1>6
  <2> DEFINE part == SubSeq(pipe, 1, n)
             bytes == rbuf \o part
  <2>1. n \in 1..Len(pipe) /\ rpc \in {"header", "body"}
    BY DEF Least, Read, TypeOK
  <2>2. part \in Seq(Byte) /\ pipe' \in Seq(Byte) /\ Len(pipe') = Len(pipe) - n
    BY <2>1, Cut DEF Read, TypeOK
  <2>3. Len(pipe') <= BufSize
    BY <2>1, <2>2, TransportAssumption DEF TypeOK
  <2>4. bytes \in Seq(Byte)
    <3> HIDE DEF part
    <3> QED BY <2>2, Join DEF TypeOK
  <2>5. SenderOK' /\ UNCHANGED wvars
    BY DEF Read, SenderOK, wvars
  <2>6. CASE Len(bytes) < rlen
    <3>1. rbuf' = bytes /\ UNCHANGED <<rpc, rlen, got>>
      BY <2>6 DEF Read
    <3> HIDE DEF bytes
    <3> QED BY <3>1, <2>2, <2>3, <2>4, <2>5, <2>6 DEF TypeOK, wvars
  <2>7. CASE ~(Len(bytes) < rlen) /\ rpc = "header"
    <3>1. HeaderRead(bytes)
      BY <2>7 DEF Read
    <3> HIDE DEF bytes
    <3>2. (rpc' = "refused" /\ rlen' = 0) \/ (rpc' = "body" /\ rlen' \in 1..MaxLen)
      <4>1. CASE Length(bytes) \in 1..MaxLen
        BY <3>1, <4>1 DEF HeaderRead
      <4>2. CASE Length(bytes) \notin 1..MaxLen
        BY <3>1, <4>2 DEF HeaderRead
      <4> QED BY <4>1, <4>2
    <3> QED BY <3>1, <3>2, <2>2, <2>3, <2>5, TransportAssumption DEF HeaderRead, TypeOK, wvars
  <2>8. CASE ~(Len(bytes) < rlen) /\ rpc # "header"
    <3>1. BodyRead(bytes)
      BY <2>8 DEF Read
    <3> HIDE DEF bytes
    <3> QED BY <3>1, <2>2, <2>3, <2>4, <2>5 DEF BodyRead, TypeOK, wvars
  <2> QED BY <2>6, <2>7, <2>8
<1>7. CASE ReadEnd
  BY <1>7 DEF ReadEnd, TypeOK, SenderOK, wvars
<1>8. CASE CloseReceiver
  BY <1>8, TransportAssumption DEF CloseReceiver, TypeOK, SenderOK, wvars
<1>9. CASE UNCHANGED vars
  BY <1>9 DEF vars, TypeOK, SenderOK
<1> QED BY <1>1, <1>2, <1>3, <1>4, <1>5, <1>6, <1>7, <1>8, <1>9 DEF Next, Writes, Reads

-----------------------------------------------------------------------------
(* The sender's steps.                                                     *)

LEMMA BegunType ==
  ASSUME TypeOK
  PROVE  /\ Begun \in Seq(Msgs)
         /\ wmsg # <<>> => Begun = Append(sent, wmsg) /\ Len(Begun) = Len(sent) + 1
                           /\ Begun[Len(Begun)] = wmsg
         /\ \A k \in 1..Len(sent) : sent[k] = Begun[k]
         /\ Len(sent) <= Len(Begun)
BY DEF TypeOK, Begun

LEMMA Positions ==
  ASSUME TypeOK, Len(got) <= Len(Begun), NEW at, at \in [1..(Len(Begun) + 1) -> Nat]
  PROVE  /\ Len(got) \in Nat /\ Len(Begun) \in Nat /\ Len(got) + 1 \in 1..(Len(Begun) + 1)
         /\ at[Len(got) + 1] \in Nat /\ Len(rbuf) \in Nat /\ Len(pipe) \in Nat
         /\ rbuf \in Seq(Byte) /\ pipe \in Seq(Byte)
         /\ Taken(at) \in Nat /\ Written(at) \in Nat
         /\ Written(at) = Taken(at) + Len(rbuf) + Len(pipe)
<1>1. Len(got) \in Nat /\ Len(rbuf) \in Nat /\ Len(pipe) \in Nat
      /\ rbuf \in Seq(Byte) /\ pipe \in Seq(Byte)
  BY DEF TypeOK
<1>2. Len(Begun) \in Nat
  BY BegunType
<1>3. Len(got) + 1 \in 1..(Len(Begun) + 1)
  BY <1>1, <1>2
<1>4. at[Len(got) + 1] \in Nat
  BY <1>3
<1>5. Taken(at) \in Nat
  BY <1>4 DEF Taken, HeaderLen
<1>6. Written(at) = Taken(at) + Len(rbuf) + Len(pipe)
  BY DEF Written
<1> QED BY <1>1, <1>2, <1>3, <1>4, <1>5, <1>6

\* What a step of the sender leaves alone.
LEMMA OthersOfSender ==
  ASSUME TypeOK, TypeOK', ReceiverOK, RefusesOnlyLong, UNCHANGED rvars,
         Begun' = Begun \/ \E m \in Msgs : Begun' = Append(Begun, m)
  PROVE  ReceiverOK' /\ RefusesOnlyLong' /\ Len(Begun') >= Len(Begun)
<1>1. /\ Len(Begun') >= Len(Begun)
      /\ \A k \in 1..Len(Begun) : Begun'[k] = Begun[k]
  BY BegunType
<1>2. UNCHANGED <<rpc, rbuf, rlen, got>>
  BY DEF rvars
<1>3. Len(got) \in Nat /\ Len(Begun) \in Nat /\ Len(Begun') \in Nat
  BY BegunType, <1>2 DEF TypeOK
<1>4. Len(got) < Len(Begun) => Len(got') < Len(Begun')
                               /\ Begun'[Len(got') + 1] = Begun[Len(got) + 1]
  BY <1>1, <1>2, <1>3
<1> QED BY <1>1, <1>2, <1>4 DEF ReceiverOK, RefusesOnlyLong

LEMMA SendMsgStep ==
  ASSUME TypeOK, TypeOK', SenderOK, ReceiverOK, RefusesOnlyLong, Flow,
         NEW m \in Msgs, SendMsg(m)
  PROVE  ReceiverOK' /\ RefusesOnlyLong' /\ Flow'
<1>1. Begun' = Append(Begun, m)
  <2>1. m # <<>>
    BY TransportAssumption
  <2> QED BY <2>1 DEF SendMsg, SenderOK, Begun
<1>2. UNCHANGED <<rpc, rbuf, rlen, got, pipe, sent>> /\ wpc = "idle"
      /\ wpc' = "header" /\ wmsg' = m /\ wbuf' = Header(Len(m))
  BY DEF SendMsg, rvars
<1>3. ReceiverOK' /\ RefusesOnlyLong'
  BY <1>1, <1>2, OthersOfSender DEF rvars
<1>4. ASSUME rpc \in {"idle", "header", "body"}
      PROVE  Flow'
  <2>1. Len(got) <= Len(Begun)
    BY <1>4 DEF Flow
  <2>2. PICK S \in Seq(Byte), at \in [1..(Len(Begun) + 1) -> Nat] : InFlight(S, at)
    BY <1>4 DEF Flow
  <2>3. PICK ms \in Seq(Msgs) : ms = Begun
    BY BegunType
  <2> DEFINE h   == Header(Len(m))
             S2  == (S \o h) \o m
             at2 == [k \in 1..(Len(ms) + 2) |-> IF k <= Len(ms) + 1 THEN at[k]
                                                ELSE Len(S) + HeaderLen + Len(m)]
  <2>4. at \in [1..(Len(ms) + 1) -> Nat] /\ Frames(S, at, ms)
    BY <2>2, <2>3 DEF InFlight
  <2>5. /\ Frames(S2, at2, Append(ms, m)) /\ Len(S2) = Len(S) + HeaderLen + Len(m)
        /\ Holds(S2, Len(S), h)
    BY <2>4, FramesAppend
  <2>6. m \in Seq(Byte) /\ Len(m) \in Nat \ {0} /\ h \in Seq(Byte) /\ Len(h) = HeaderLen
    BY MessageLength, HeaderBytes
  <2>7. Len(got) \in Nat /\ Len(got) + 1 \in 1..(Len(ms) + 1) /\ HeaderLen = 4
    BY <2>1, <2>3 DEF TypeOK, HeaderLen
  <2>8. at2[Len(got) + 1] = at[Len(got) + 1] /\ at[Len(got) + 1] \in Nat
    BY <2>4, <2>7
  <2>9. /\ Taken(at2)' = Taken(at) /\ Written(at2)' = Written(at)
        /\ Taken(at) \in Nat /\ Written(at) = Len(S)
    BY <1>2, <2>2, <2>7, <2>8 DEF Taken, Written, InFlight
  <2>10. /\ Holds(S2, Taken(at), rbuf) /\ Holds(S2, Taken(at) + Len(rbuf), pipe)
    <3> DEFINE S1 == S \o h
    <3>1. S1 \in Seq(Byte)
      BY <2>6, Join
    <3>2. rbuf \in Seq(Byte) /\ pipe \in Seq(Byte) /\ Len(rbuf) \in Nat
      BY DEF TypeOK
    <3>3. Holds(S1, Taken(at), rbuf) /\ Holds(S1, Taken(at) + Len(rbuf), pipe)
      <4> HIDE DEF h
      <4> QED BY <2>2, <2>6, <2>9, <3>2, HoldsMore DEF InFlight
    <3> HIDE DEF S1
    <3>4. Holds(S1 \o m, Taken(at), rbuf) /\ Holds(S1 \o m, Taken(at) + Len(rbuf), pipe)
      BY <3>1, <3>2, <3>3, <2>6, <2>9, HoldsMore
    <3> QED BY <3>4 DEF S1
  <2>11. S2 \in Seq(Byte) /\ at2 \in [1..(Len(Begun') + 1) -> Nat]
    BY <2>5, <1>1, <2>3, BegunType DEF Frames
  <2> HIDE DEF S2, at2, h
  <2>12. InFlight(S2, at2)'
    <3>1. Frames(S2, at2, Begun')
      BY <2>5, <2>3, <1>1
    <3>2. Holds(S2, Taken(at2)', rbuf') /\ Holds(S2, Taken(at2)' + Len(rbuf'), pipe')
      BY <1>2, <2>9, <2>10
    <3>3. Holds(S2, Written(at2)', wbuf')
      BY <1>2, <2>5, <2>9 DEF h
    <3>4. Written(at2)' + Len(wbuf') + Len(wmsg') = Len(S2) /\ Written(at2)' < Len(S2)
      BY <1>2, <2>5, <2>6, <2>7, <2>9 DEF h
    <3> QED BY <1>2, <3>1, <3>2, <3>3, <3>4 DEF InFlight
  <2> QED BY <1>1, <1>2, <1>3, <2>1, <2>11, <2>12, BegunType DEF Flow
<1> QED BY <1>2, <1>3, <1>4 DEF Flow

LEMMA WriteStep ==
  ASSUME TypeOK, TypeOK', SenderOK, ReceiverOK, RefusesOnlyLong, Flow,
         NEW n \in 1..Room, Write(n)
  PROVE  ReceiverOK' /\ RefusesOnlyLong' /\ Flow'
<1>1. /\ wpc \in {"header", "body"} /\ wmsg \in Msgs /\ wmsg # <<>>
      /\ wbuf \in Seq(Byte) /\ Len(wbuf) \in Nat
  BY DEF Write, TypeOK, SenderOK
<1>2. UNCHANGED <<rpc, rbuf, rlen, got>>
  BY DEF Write, rvars
<1>3. n \in 1..Len(wbuf)
  BY <1>1, TransportAssumption DEF Room, Least, TypeOK
<1>4. \/ WritePart(n)
      \/ WriteRest(n) /\ wpc = "header"
      \/ WriteRest(n) /\ wpc = "body"
  BY <1>1 DEF Write
<1>5. Begun' = Begun
  BY <1>1, <1>4 DEF WritePart, WriteRest, Begun
<1>6. ReceiverOK' /\ RefusesOnlyLong'
  BY <1>2, <1>5, OthersOfSender DEF rvars
<1>7. ASSUME rpc \in {"idle", "header", "body"}
      PROVE  Flow'
  <2>1. Len(got) <= Len(Begun)
    BY <1>7 DEF Flow
  <2>2. PICK S \in Seq(Byte), at \in [1..(Len(Begun) + 1) -> Nat] : InFlight(S, at)
    BY <1>7 DEF Flow
  <2> DEFINE part == SubSeq(wbuf, 1, n)
             rest == SubSeq(wbuf, n + 1, Len(wbuf))
  <2>3. /\ Taken(at) \in Nat /\ Written(at) \in Nat /\ Len(rbuf) \in Nat /\ Len(pipe) \in Nat
        /\ Written(at) = Taken(at) + Len(rbuf) + Len(pipe)
    BY <2>1, <2>2, Positions
  <2>4. /\ part \in Seq(Byte) /\ Len(part) = n
        /\ rest \in Seq(Byte) /\ Len(rest) = Len(wbuf) - n
    BY <1>1, <1>3, Cut
  <2>5. Holds(S, Written(at), part) /\ Holds(S, Written(at) + n, rest)
    BY <1>1, <1>3, <2>2, <2>3, HoldsParts DEF InFlight
  <2>6. pipe' = pipe \o part
    BY <1>7 DEF Write, Carry
  <2> HIDE DEF part
  <2>7. Holds(S, Taken(at) + Len(rbuf), pipe')
    <3>1. pipe \in Seq(Byte) /\ Taken(at) + Len(rbuf) \in Nat
      <4>1. pipe \in Seq(Byte)
        BY DEF TypeOK
      <4>2. Taken(at) + Len(rbuf) \in Nat
        <5> DEFINE k == Taken(at)
                   l == Len(rbuf)
        <5>1. k \in Nat /\ l \in Nat
          BY <2>3
        <5> HIDE DEF k, l
        <5>2. k + l \in Nat
          BY <5>1
        <5> QED BY <5>2 DEF k, l
      <4> QED BY <4>1, <4>2
    <3>2. /\ Holds(S, Taken(at) + Len(rbuf), pipe)
          /\ Holds(S, (Taken(at) + Len(rbuf)) + Len(pipe), part)
      BY <2>2, <2>3, <2>5 DEF InFlight
    <3> QED BY <3>1, <3>2, <2>4, <2>6, HoldsJoined
  <2>8. Len(pipe') = Len(pipe) + n
    BY <2>4, <2>6, Join DEF TypeOK
  <2>9. Taken(at)' = Taken(at) /\ Written(at)' = Written(at) + n
    BY <1>2, <2>3, <2>8 DEF Taken, Written
  <2>10. /\ Frames(S, at, Begun') /\ Holds(S, Taken(at)', rbuf')
         /\ Holds(S, Taken(at)' + Len(rbuf'), pipe')
    BY <1>2, <1>5, <2>2, <2>7, <2>9 DEF InFlight
  <2>11. CASE WritePart(n)
    <3>1. wbuf' = rest /\ UNCHANGED <<wpc, wmsg, sent>> /\ n < Len(wbuf)
      BY <2>11 DEF WritePart
    <3> HIDE DEF rest
    <3>2. Written(at)' + Len(wbuf') = Written(at) + Len(wbuf)
      <4>1. Len(wbuf') = Len(wbuf) - n /\ Written(at)' = Written(at) + n
        BY <2>4, <2>9, <3>1
      <4>2. Written(at) \in Nat /\ Len(wbuf) \in Nat /\ n \in Int
        BY <1>1, <2>3
      <4> QED BY <4>1, <4>2
    <3>3. Holds(S, Written(at)', wbuf')
      BY <2>5, <2>9, <3>1
    <3>4. Written(at)' < Len(S)
      <4>1. Len(wbuf') \in Nat /\ Len(wbuf') > 0
        BY <1>1, <1>3, <2>4, <3>1
      <4>2. Written(at)' + Len(wbuf') <= Len(S)
        BY <3>3 DEF Holds
      <4>3. Written(at)' \in Nat /\ Len(S) \in Nat
        BY <1>3, <2>3, <2>9
      <4> QED BY <4>1, <4>2, <4>3
    <3>5. InFlight(S, at)'
      BY <1>1, <2>2, <2>10, <3>1, <3>2, <3>3, <3>4 DEF InFlight
    <3> QED BY <1>2, <1>5, <2>1, <3>5 DEF Flow
  <2>12. CASE WriteRest(n) /\ wpc = "header"
    <3>1. wpc' = "body" /\ wbuf' = wmsg /\ wmsg' = wmsg /\ n = Len(wbuf)
      BY <2>12 DEF WriteRest
    <3>2. wmsg \in Seq(Byte) /\ Len(wmsg) \in Nat \ {0}
      BY <1>1, MessageLength
    <3>3. Written(at)' + Len(wmsg) = Len(S)
      BY <2>2, <2>3, <2>9, <2>12, <3>1 DEF InFlight
    <3>4. Holds(S, Written(at)', wmsg)
      <4> DEFINE b == Len(Begun)
      <4>1. b \in 1..b /\ Begun[b] = wmsg
        BY <1>1, BegunType DEF TypeOK
      <4>2. /\ at[b + 1] = Len(S) /\ at[b + 1] = at[b] + HeaderLen + Len(Begun[b])
            /\ \A j \in 1..Len(Begun[b]) : S[at[b] + HeaderLen + j] = Begun[b][j]
        BY <4>1, <2>2 DEF InFlight, Frames
      <4>3. at[b] \in Nat
        BY <4>1, <2>2
      <4>4. Written(at)' = at[b] + HeaderLen
        <5> HIDE DEF b
        <5>1. Written(at)' \in Nat /\ HeaderLen = 4
          BY <1>3, <2>3, <2>9 DEF HeaderLen
        <5> QED BY <3>2, <3>3, <4>1, <4>2, <4>3, <5>1
      <4> HIDE DEF b
      <4>5. \A j \in 1..Len(wmsg) : wmsg[j] = S[Written(at)' + j]
        BY <4>1, <4>2, <4>4
      <4> QED BY <3>3, <4>5 DEF Holds
    <3>5. Written(at)' < Len(S)
      BY <1>3, <2>3, <2>9, <3>2, <3>3
    <3>6. InFlight(S, at)'
      BY <2>10, <3>1, <3>3, <3>4, <3>5 DEF InFlight
    <3> QED BY <1>2, <1>5, <2>1, <3>6 DEF Flow
  <2>13. CASE WriteRest(n) /\ wpc = "body"
    <3>1. wpc' = "idle" /\ wmsg' = <<>> /\ n = Len(wbuf)
      BY <2>13 DEF WriteRest
    <3>2. Written(at)' = Len(S)
      BY <2>2, <2>9, <2>13, <3>1 DEF InFlight
    <3>3. InFlight(S, at)'
      BY <2>10, <3>1, <3>2 DEF InFlight
    <3> QED BY <1>2, <1>5, <2>1, <3>3 DEF Flow
  <2> QED BY <1>4, <2>11, <2>12, <2>13
<1> QED BY <1>2, <1>6, <1>7 DEF Flow

LEMMA CloseSenderStep ==
  ASSUME TypeOK, TypeOK', SenderOK, ReceiverOK, RefusesOnlyLong, Flow,
         WriteFails \/ CloseSender
  PROVE  ReceiverOK' /\ RefusesOnlyLong' /\ Flow'
<1>1. UNCHANGED <<rpc, rbuf, rlen, got, wmsg, wbuf, sent>> /\ wpc' = "closed" /\ Begun' = Begun
  BY DEF WriteFails, CloseSender, rvars, Begun
<1>2. ReceiverOK' /\ RefusesOnlyLong'
  BY <1>1, OthersOfSender DEF rvars
<1>3. ASSUME rpc \in {"idle", "header", "body"}
      PROVE  Flow'
  <2>1. PICK S \in Seq(Byte), at \in [1..(Len(Begun) + 1) -> Nat] : InFlight(S, at)
    BY <1>3 DEF Flow
  <2>2. Len(got) <= Len(Begun)
    BY <1>3 DEF Flow
  <2>3. PICK n \in 0..Len(pipe) : pipe' = SubSeq(pipe, 1, n)
    BY <1>3 DEF WriteFails, CloseSender
  <2>4. /\ Taken(at) \in Nat /\ Len(rbuf) \in Nat /\ Len(pipe) \in Nat
        /\ Written(at) = Taken(at) + Len(rbuf) + Len(pipe)
    BY <2>1, <2>2, Positions
  <2>5. Len(pipe') = n
    BY <2>3, Cut DEF TypeOK
  <2>6. Holds(S, Taken(at) + Len(rbuf), pipe')
    <3> DEFINE p == Taken(at) + Len(rbuf)
    <3>1. p \in Nat
      BY <2>4
    <3>2. pipe \in Seq(Byte)
      BY DEF TypeOK
    <3>3. Holds(S, p, pipe)
      BY <2>1 DEF InFlight
    <3> HIDE DEF p
    <3>4. Holds(S, p, SubSeq(pipe, 1, n))
      BY <3>1, <3>2, <3>3, HoldsParts
    <3> QED BY <2>3, <3>4 DEF p
  <2>7. Taken(at)' = Taken(at) /\ Written(at)' = Taken(at) + Len(rbuf) + n
    BY <1>1, <2>5 DEF Taken, Written
  <2>8. wmsg' # <<>> => Written(at)' < Len(S)
    BY <1>1, <2>1, <2>3, <2>4, <2>7 DEF InFlight
  <2>9. InFlight(S, at)'
    BY <1>1, <2>1, <2>6, <2>7, <2>8 DEF InFlight
  <2> QED BY <1>1, <2>2, <2>9 DEF Flow
<1> QED BY <1>1, <1>2, <1>3 DEF Flow

-----------------------------------------------------------------------------
(* The receiver's steps.                                                   *)

\* A step of the receiver that moves no byte out of its place.
LEMMA StillInFlight ==
  ASSUME TypeOK, UNCHANGED wvars, NEW S, NEW at, InFlight(S, at),
         Holds(S, Taken(at)', rbuf'), Holds(S, Taken(at)' + Len(rbuf'), pipe'),
         Written(at)' = Written(at)
  PROVE  InFlight(S, at)'
<1>1. UNCHANGED <<wpc, wmsg, wbuf>> /\ Begun' = Begun
  BY DEF wvars, Begun
<1> QED BY <1>1 DEF InFlight

LEMMA RecvMsgStep ==
  ASSUME TypeOK, SenderOK, ReceiverOK, RefusesOnlyLong, Flow, RecvMsg
  PROVE  ReceiverOK' /\ RefusesOnlyLong' /\ Flow'
<1>1. rpc = "idle" /\ rpc' = "header" /\ rbuf = <<>> /\ rbuf' = <<>> /\ rlen' = HeaderLen
      /\ UNCHANGED <<pipe, got>> /\ UNCHANGED wvars /\ Begun' = Begun
  BY DEF RecvMsg, ReceiverOK, wvars, Begun
<1>2. PICK S \in Seq(Byte), at \in [1..(Len(Begun) + 1) -> Nat] : InFlight(S, at)
  BY <1>1 DEF Flow
<1>3. Taken(at)' = Taken(at) /\ Written(at)' = Written(at)
  BY <1>1 DEF Taken, Written
<1>4. InFlight(S, at)'
  BY <1>1, <1>2, <1>3, StillInFlight DEF InFlight
<1> QED BY <1>1, <1>2, <1>4 DEF ReceiverOK, RefusesOnlyLong, Flow

\* What one read leaves: the bytes of this call, and what is still on its way.
LEMMA ReadParts ==
  ASSUME TypeOK, ReceiverOK, Flow, NEW n \in 1..Least(rlen - Len(rbuf), Len(pipe)), Read(n),
         NEW bytes, bytes = rbuf \o SubSeq(pipe, 1, n),
         NEW S \in Seq(Byte), NEW at, at \in [1..(Len(Begun) + 1) -> Nat], InFlight(S, at)
  PROVE  /\ bytes \in Seq(Byte) /\ Len(bytes) \in Nat /\ Len(bytes) <= rlen /\ Len(pipe') \in Nat
         /\ Holds(S, Taken(at), bytes) /\ Holds(S, Taken(at) + Len(bytes), pipe')
         /\ Written(at) = Taken(at) + Len(bytes) + Len(pipe')
<1>1. rpc \in {"header", "body"} /\ pipe' = SubSeq(pipe, n + 1, Len(pipe))
  BY DEF Read
<1>2. Len(got) <= Len(Begun)
  BY <1>1 DEF Flow
<1>3. /\ rbuf \in Seq(Byte) /\ pipe \in Seq(Byte) /\ Len(rbuf) \in Nat /\ Len(pipe) \in Nat
      /\ Taken(at) \in Nat /\ Written(at) = Taken(at) + Len(rbuf) + Len(pipe)
  BY <1>2, Positions
<1>4. n \in 1..Len(pipe) /\ n <= rlen - Len(rbuf) /\ rlen \in Nat
  BY <1>3 DEF Least, TypeOK
<1> DEFINE part == SubSeq(pipe, 1, n)
<1>5. part \in Seq(Byte) /\ Len(part) = n /\ pipe' \in Seq(Byte) /\ Len(pipe') = Len(pipe) - n
  <2> DEFINE rest == SubSeq(pipe, n + 1, Len(pipe))
  <2>1. part \in Seq(Byte) /\ Len(part) = n /\ rest \in Seq(Byte) /\ Len(rest) = Len(pipe) - n
    BY <1>3, <1>4, Cut
  <2> QED BY <1>1, <2>1
<1>6. /\ Holds(S, Taken(at), rbuf) /\ Holds(S, Taken(at) + Len(rbuf), part)
      /\ Holds(S, Taken(at) + Len(rbuf) + n, pipe')
  BY <1>1, <1>3, <1>4, HoldsParts DEF InFlight
<1> HIDE DEF part
<1>7. bytes \in Seq(Byte) /\ Len(bytes) = Len(rbuf) + n
  BY <1>3, <1>5, Join DEF part
<1>8. Holds(S, Taken(at), bytes)
  <2>1. Holds(S, Taken(at), rbuf \o part)
    BY <1>3, <1>5, <1>6, HoldsJoined
  <2> QED BY <2>1 DEF part
<1>9. /\ Taken(at) + Len(bytes) = Taken(at) + Len(rbuf) + n
      /\ Written(at) = Taken(at) + Len(bytes) + Len(pipe')
  <2>1. Taken(at) \in Int /\ Len(rbuf) \in Int /\ Len(pipe) \in Int /\ n \in Int
    BY <1>3
  <2>2. Len(bytes) = Len(rbuf) + n /\ Len(pipe') = Len(pipe) - n
    BY <1>5, <1>7
  <2>3. Written(at) = Taken(at) + Len(rbuf) + Len(pipe)
    BY <1>3
  <2> QED BY <2>1, <2>2, <2>3
<1>10. Len(bytes) \in Nat /\ Len(bytes) <= rlen /\ Len(pipe') \in Nat
  BY <1>3, <1>4, <1>5, <1>7
<1>11. Holds(S, Taken(at) + Len(bytes), pipe')
  BY <1>6, <1>9
<1> QED BY <1>7, <1>8, <1>9, <1>10, <1>11

LEMMA HoldsNothing ==
  ASSUME NEW S \in Seq(Byte), NEW p \in Nat, p <= Len(S)
  PROVE  Holds(S, p, <<>>)
BY DEF Holds

\* A header that is complete is the header of the next message.
LEMMA HeaderStep ==
  ASSUME TypeOK, SenderOK, ReceiverOK, RefusesOnlyLong, Flow,
         NEW n \in 1..Least(rlen - Len(rbuf), Len(pipe)), Read(n), rpc = "header",
         ~(Len(rbuf \o SubSeq(pipe, 1, n)) < rlen)
  PROVE  ReceiverOK' /\ RefusesOnlyLong' /\ Flow' /\ got' = got
<1> DEFINE bytes == rbuf \o SubSeq(pipe, 1, n)
           g == Len(got) + 1
<1>1. PICK S \in Seq(Byte), at \in [1..(Len(Begun) + 1) -> Nat] : InFlight(S, at)
  BY DEF Flow
<1>2. /\ bytes \in Seq(Byte) /\ Len(bytes) \in Nat /\ Len(bytes) <= rlen /\ Len(pipe') \in Nat
      /\ Holds(S, Taken(at), bytes) /\ Holds(S, Taken(at) + Len(bytes), pipe')
      /\ Written(at) = Taken(at) + Len(bytes) + Len(pipe')
  BY <1>1, ReadParts
<1>3. HeaderRead(bytes) /\ UNCHANGED wvars /\ rlen = HeaderLen /\ HeaderLen = 4
  BY DEF Read, ReceiverOK, HeaderLen
<1>4. Len(bytes) = HeaderLen
  <2> DEFINE l == Len(bytes)
  <2>1. ~(l < rlen) /\ rlen = 4 /\ HeaderLen = 4
    BY <1>3
  <2>2. l \in Nat /\ l <= rlen
    BY <1>2
  <2> HIDE DEF l
  <2>3. l = HeaderLen
    BY <2>1, <2>2
  <2> QED BY <2>3 DEF l
<1> HIDE DEF bytes
<1>5. Len(got) <= Len(Begun)
  BY DEF Flow
<1>6. /\ Len(got) \in Nat /\ Len(Begun) \in Nat /\ at[g] \in Nat
      /\ Taken(at) \in Nat /\ Taken(at) = at[g] + 0
  BY <1>1, <1>5, Positions DEF Taken
<1>7. Len(got) < Len(Begun)
  <2>1. at[g] + 4 <= Len(S)
    BY <1>2, <1>3, <1>4, <1>6 DEF Holds
  <2>2. at[Len(Begun) + 1] = Len(S) /\ Len(S) \in Nat
    BY <1>1 DEF InFlight, Frames
  <2>3. Len(got) # Len(Begun)
    BY <1>6, <2>1, <2>2
  <2> QED BY <1>5, <1>6, <2>3
<1>8. g \in 1..Len(Begun) /\ Begun[g] \in Msgs
  BY <1>6, <1>7, BegunType
<1> DEFINE l == Len(Begun[g])
<1>9. l \in Nat \ {0} /\ Length(Header(l)) = l /\ Header(l) \in Seq(Byte) /\ Len(Header(l)) = 4
  BY <1>8, <1>3, MessageLength, HeaderBytes
<1>10. \A j \in 1..HeaderLen : S[at[g] + j] = Header(l)[j]
  BY <1>1, <1>8 DEF InFlight, Frames
<1>11. bytes = Header(l)
  <2>1. ASSUME NEW j \in 1..Len(bytes)
        PROVE  bytes[j] = Header(l)[j]
    <3>1. bytes[j] = S[Taken(at) + j]
      BY <1>2 DEF Holds
    <3>2. j \in 1..HeaderLen /\ Taken(at) = at[g]
      BY <1>4, <1>6
    <3> HIDE DEF l, g
    <3> QED BY <3>1, <3>2, <1>10
  <2> DEFINE h == Header(l)
  <2>2. h \in Seq(Byte) /\ Len(h) = Len(bytes) /\ \A j \in 1..Len(bytes) : bytes[j] = h[j]
    BY <1>3, <1>4, <1>9, <2>1
  <2> HIDE DEF h
  <2>3. bytes = h
    BY <1>2, <2>2, SameSequence
  <2> QED BY <2>3 DEF h
<1>12. Length(bytes) = l
  BY <1>9, <1>11
<1>13. Begun' = Begun /\ got' = got /\ rbuf' = <<>>
  BY <1>3 DEF wvars, Begun, HeaderRead
<1>14. CASE l \in 1..MaxLen
  <2>1. rpc' = "body" /\ rlen' = l
    BY <1>3, <1>12, <1>14 DEF HeaderRead
  <2>2. Taken(at)' = at[g] + HeaderLen
    BY <1>13, <2>1 DEF Taken
  <2>3. Taken(at)' = Taken(at) + Len(bytes) /\ Taken(at)' \in Nat /\ Len(rbuf') = 0
    BY <1>3, <1>4, <1>6, <1>13, <2>2
  <2>4. Holds(S, Taken(at)' + Len(rbuf'), pipe') /\ Holds(S, Taken(at)', rbuf')
    <3>1. Taken(at)' + Len(rbuf') = Taken(at) + Len(bytes)
      BY <2>3
    <3>2. Taken(at)' <= Len(S)
      BY <1>2, <2>3 DEF Holds
    <3> QED BY <1>2, <1>13, <2>3, <3>1, <3>2, HoldsNothing
  <2>5. Written(at)' = Written(at)
    BY <1>2, <2>3 DEF Written
  <2>6. InFlight(S, at)'
    BY <1>1, <1>3, <2>4, <2>5, StillInFlight
  <2> QED BY <1>5, <1>7, <1>13, <2>1, <2>6 DEF ReceiverOK, RefusesOnlyLong, Flow
<1>15. CASE l \notin 1..MaxLen
  <2>1. rpc' = "refused"
    BY <1>3, <1>12, <1>15 DEF HeaderRead
  <2>2. l > MaxLen
    BY <1>9, <1>15, TransportAssumption
  <2> QED BY <1>7, <1>13, <2>1, <2>2 DEF ReceiverOK, RefusesOnlyLong, Flow
<1> QED BY <1>13, <1>14, <1>15

\* A body that is complete is the next message, which is out of the sender's hands.
LEMMA BodyStep ==
  ASSUME TypeOK, SenderOK, ReceiverOK, RefusesOnlyLong, Flow,
         NEW n \in 1..Least(rlen - Len(rbuf), Len(pipe)), Read(n), rpc = "body",
         ~(Len(rbuf \o SubSeq(pipe, 1, n)) < rlen)
  PROVE  /\ ReceiverOK' /\ RefusesOnlyLong' /\ Flow'
         /\ Len(got) < Len(sent) /\ got' = Append(got, sent[Len(got) + 1]) /\ rpc' = "idle"
<1> DEFINE bytes == rbuf \o SubSeq(pipe, 1, n)
           g == Len(got) + 1
<1>1. PICK S \in Seq(Byte), at \in [1..(Len(Begun) + 1) -> Nat] : InFlight(S, at)
  BY DEF Flow
<1>2. /\ bytes \in Seq(Byte) /\ Len(bytes) \in Nat /\ Len(bytes) <= rlen /\ Len(pipe') \in Nat
      /\ Holds(S, Taken(at), bytes) /\ Holds(S, Taken(at) + Len(bytes), pipe')
      /\ Written(at) = Taken(at) + Len(bytes) + Len(pipe')
  BY <1>1, ReadParts
<1>3. BodyRead(bytes) /\ UNCHANGED wvars
  BY DEF Read
<1>4. Len(got) < Len(Begun) /\ rlen = Len(Begun[g])
  BY DEF ReceiverOK
<1>5. /\ Len(got) \in Nat /\ Len(Begun) \in Nat /\ at[g] \in Nat
      /\ Taken(at) \in Nat /\ Taken(at) = at[g] + HeaderLen /\ HeaderLen = 4
  <2>1. Len(got) <= Len(Begun)
    BY DEF Flow
  <2>2. /\ Len(got) \in Nat /\ Len(Begun) \in Nat /\ at[g] \in Nat /\ Taken(at) \in Nat
    BY <1>1, <2>1, Positions
  <2>3. Taken(at) = at[g] + HeaderLen
    BY DEF Taken
  <2> QED BY <2>2, <2>3 DEF HeaderLen
<1>6. g \in 1..Len(Begun) /\ Begun[g] \in Msgs
  BY <1>4, <1>5, BegunType
<1> DEFINE m == Begun[g]
<1>7. m \in Seq(Byte) /\ Len(m) \in Nat \ {0}
  BY <1>6, MessageLength
<1>8. Len(bytes) = Len(m)
  <2> DEFINE l == Len(bytes)
             k == Len(m)
  <2>1. ~(l < rlen) /\ rlen = k /\ l \in Nat /\ l <= rlen /\ k \in Nat
    BY <1>2, <1>4, <1>7
  <2> HIDE DEF l, k
  <2>2. l = k
    BY <2>1
  <2> QED BY <2>2 DEF l, k
<1> HIDE DEF bytes
<1>9. /\ at[g + 1] = at[g] + HeaderLen + Len(m) /\ at[g + 1] <= Len(S)
      /\ \A j \in 1..Len(m) : S[at[g] + HeaderLen + j] = m[j]
      /\ at[Len(Begun) + 1] = Len(S)
  BY <1>1, <1>6 DEF InFlight, Frames
<1>10. bytes = m
  <2>1. ASSUME NEW j \in 1..Len(bytes)
        PROVE  bytes[j] = m[j]
    <3>1. bytes[j] = S[Taken(at) + j]
      BY <1>2 DEF Holds
    <3> QED BY <3>1, <1>5, <1>8, <1>9
  <2> HIDE DEF m
  <2> QED BY <1>2, <1>7, <1>8, <2>1, SameSequence
<1>11. /\ rpc' = "idle" /\ rbuf' = <<>> /\ got' = Append(got, m) /\ Begun' = Begun
       /\ Len(got') = Len(got) + 1
  <2>1. rpc' = "idle" /\ rbuf' = <<>> /\ got' = Append(got, bytes)
    BY <1>3 DEF BodyRead
  <2>2. Begun' = Begun
    BY <1>3 DEF wvars, Begun
  <2>3. Len(got') = Len(got) + 1
    BY <2>1 DEF TypeOK
  <2> QED BY <1>10, <2>1, <2>2, <2>3
<1>12. Taken(at)' = Taken(at) + Len(bytes) /\ Taken(at)' \in Nat /\ Len(rbuf') = 0
  <2>1. Taken(at)' = at[g + 1] + 0
    BY <1>11 DEF Taken
  <2>2. at[g + 1] \in Nat
    <3>1. g + 1 \in 1..(Len(Begun) + 1)
      BY <1>5, <1>6
    <3> HIDE DEF g
    <3> QED BY <1>1, <3>1
  <2> QED BY <1>2, <1>5, <1>7, <1>8, <1>9, <1>11, <2>1, <2>2
<1>13. InFlight(S, at)'
  <2>1. Taken(at)' <= Len(S) /\ Taken(at)' + Len(rbuf') = Taken(at) + Len(bytes)
    BY <1>2, <1>12 DEF Holds
  <2>2. Holds(S, Taken(at)' + Len(rbuf'), pipe') /\ Holds(S, Taken(at)', rbuf')
    BY <1>2, <1>11, <1>12, <2>1, HoldsNothing
  <2>3. Written(at)' = Written(at)
    BY <1>2, <1>12 DEF Written
  <2> QED BY <1>1, <1>3, <2>2, <2>3, StillInFlight
<1>14. Len(got) < Len(sent)
  <2>1. CASE wmsg = <<>>
    BY <2>1, <1>4 DEF Begun
  <2>2. CASE wmsg # <<>>
    <3>1. Written(at) < Len(S) /\ Len(Begun) = Len(sent) + 1 /\ Len(sent) \in Nat
      BY <2>2, <1>1, BegunType DEF InFlight, TypeOK
    <3>2. at[g + 1] <= Written(at)
      <4>1. at[g + 1] = Taken(at) + Len(bytes)
        BY <1>5, <1>8, <1>9
      <4>2. Written(at) = at[g + 1] + Len(pipe')
        BY <1>2, <4>1
      <4>3. Len(pipe') \in Nat
        BY <1>2
      <4> DEFINE a == at[g + 1]
                 w == Written(at)
      <4>4. a \in Nat
        <5>1. g + 1 \in 1..(Len(Begun) + 1)
          BY <1>5, <1>6
        <5> HIDE DEF g
        <5> QED BY <1>1, <5>1
      <4> HIDE DEF a, w
      <4>5. w = a + Len(pipe')
        BY <4>2 DEF a, w
      <4>6. a <= w
        BY <4>3, <4>4, <4>5
      <4> QED BY <4>6 DEF a, w
    <3>3. at[g + 1] # at[Len(Begun) + 1]
      <4>1. Written(at) \in Nat /\ at[g + 1] \in Nat /\ Len(S) \in Nat
        <5>1. Written(at) \in Nat
          <6>1. Len(got) <= Len(Begun)
            BY DEF Flow
          <6> QED BY <1>1, <6>1, Positions
        <5>2. at[g + 1] \in Nat
          <6>1. g + 1 \in 1..(Len(Begun) + 1)
            BY <1>5, <1>6
          <6> HIDE DEF g
          <6> QED BY <1>1, <6>1
        <5> QED BY <5>1, <5>2
      <4> QED BY <4>1, <3>1, <3>2, <1>9
    <3>4. g # Len(Begun)
      BY <3>3
    <3> QED BY <3>1, <3>4, <1>4, <1>5
  <2> QED BY <2>1, <2>2
<1>15. m = sent[g]
  <2>1. g \in 1..Len(sent)
    <3>1. Len(sent) \in Nat
      BY DEF TypeOK
    <3> QED BY <3>1, <1>5, <1>14
  <2> QED BY <2>1, BegunType
<1>16. ReceiverOK' /\ RefusesOnlyLong' /\ Flow'
  <2>1. ReceiverOK' /\ RefusesOnlyLong'
    BY <1>11 DEF ReceiverOK, RefusesOnlyLong
  <2>2. Len(got') <= Len(Begun')
    BY <1>4, <1>5, <1>11
  <2> QED BY <1>11, <1>13, <2>1, <2>2 DEF Flow
<1> QED BY <1>11, <1>14, <1>15, <1>16

LEMMA ReadStep ==
  ASSUME TypeOK, SenderOK, ReceiverOK, RefusesOnlyLong, Flow,
         NEW n \in 1..Least(rlen - Len(rbuf), Len(pipe)), Read(n)
  PROVE  ReceiverOK' /\ RefusesOnlyLong' /\ Flow'
<1> DEFINE bytes == rbuf \o SubSeq(pipe, 1, n)
<1>1. CASE Len(bytes) < rlen
  <2>1. PICK S \in Seq(Byte), at \in [1..(Len(Begun) + 1) -> Nat] : InFlight(S, at)
    BY DEF Flow, Read
  <2>2. /\ bytes \in Seq(Byte) /\ Len(bytes) \in Nat
        /\ Holds(S, Taken(at), bytes) /\ Holds(S, Taken(at) + Len(bytes), pipe')
        /\ Written(at) = Taken(at) + Len(bytes) + Len(pipe')
    BY <2>1, ReadParts
  <2>3. rbuf' = bytes /\ UNCHANGED <<rpc, rlen, got>> /\ UNCHANGED wvars
    BY <1>1 DEF Read
  <2> HIDE DEF bytes
  <2>4. Taken(at)' = Taken(at) /\ Written(at)' = Written(at) /\ Begun' = Begun
    BY <2>2, <2>3 DEF Taken, Written, wvars, Begun
  <2>5. InFlight(S, at)'
    BY <2>1, <2>2, <2>3, <2>4, StillInFlight
  <2> QED BY <2>1, <2>3, <2>4, <2>5 DEF Read, ReceiverOK, RefusesOnlyLong, Flow
<1>2. CASE ~(Len(bytes) < rlen) /\ rpc = "header"
  BY <1>2, HeaderStep
<1>3. CASE ~(Len(bytes) < rlen) /\ rpc = "body"
  BY <1>3, BodyStep
<1> QED BY <1>1, <1>2, <1>3 DEF Read

LEMMA CloseReceiverStep ==
  ASSUME ReadEnd \/ CloseReceiver
  PROVE  ReceiverOK' /\ RefusesOnlyLong' /\ Flow'
BY DEF ReadEnd, CloseReceiver, ReceiverOK, RefusesOnlyLong, Flow

-----------------------------------------------------------------------------
(* The invariant and what it gives.                                        *)

LEMMA InvInit == Init => Inv
<1> SUFFICES ASSUME Init
             PROVE  Inv
  OBVIOUS
<1>1. Begun = <<>> /\ Len(Begun) = 0 /\ Len(got) = 0
  BY DEF Init, Begun
<1> DEFINE at == [k \in 1..1 |-> 0]
<1>2. InFlight(<<>>, at)
  <2>1. Frames(<<>>, at, <<>>)
    BY DEF Frames
  <2>2. Taken(at) = 0 /\ Written(at) = 0
    BY <1>1 DEF Init, Taken, Written
  <2> HIDE DEF at
  <2> QED BY <1>1, <2>1, <2>2 DEF Init, InFlight, Holds
<1>3. Flow
  <2>1. <<>> \in Seq(Byte) /\ at \in [1..(Len(Begun) + 1) -> Nat]
    BY <1>1
  <2> HIDE DEF at
  <2>2. \E S \in Seq(Byte), a \in [1..(Len(Begun) + 1) -> Nat] : InFlight(S, a)
    BY <1>2, <2>1
  <2> QED BY <1>1, <2>2 DEF Flow
<1>4. ReceiverOK /\ RefusesOnlyLong
  BY DEF Init, ReceiverOK, RefusesOnlyLong
<1> QED BY <1>3, <1>4, TypeInit DEF Inv

LEMMA InvStep == Inv /\ [Next]_vars => Inv'
<1> SUFFICES ASSUME Inv, [Next]_vars
             PROVE  Inv'
  OBVIOUS
<1>1. TypeOK /\ SenderOK /\ ReceiverOK /\ RefusesOnlyLong /\ Flow
  BY DEF Inv
<1>2. TypeOK' /\ SenderOK'
  BY <1>1, TypeStep
<1> SUFFICES ReceiverOK' /\ RefusesOnlyLong' /\ Flow'
  BY <1>2 DEF Inv
<1>3. ASSUME NEW m \in Msgs, SendMsg(m)
      PROVE  ReceiverOK' /\ RefusesOnlyLong' /\ Flow'
  BY <1>1, <1>2, <1>3, SendMsgStep
<1>4. ASSUME NEW n \in 1..Room, Write(n)
      PROVE  ReceiverOK' /\ RefusesOnlyLong' /\ Flow'
  BY <1>1, <1>2, <1>4, WriteStep
<1>5. CASE WriteFails \/ CloseSender
  BY <1>1, <1>2, <1>5, CloseSenderStep
<1>6. CASE RecvMsg
  BY <1>1, <1>6, RecvMsgStep
<1>7. ASSUME NEW n \in 1..Least(rlen - Len(rbuf), Len(pipe)), Read(n)
      PROVE  ReceiverOK' /\ RefusesOnlyLong' /\ Flow'
  BY <1>1, <1>7, ReadStep
<1>8. CASE ReadEnd \/ CloseReceiver
  BY <1>8, CloseReceiverStep
<1>9. CASE UNCHANGED vars
  <2>1. UNCHANGED <<wpc, wmsg, wbuf, pipe, rpc, rbuf, rlen, sent, got>> /\ Begun' = Begun
    BY <1>9 DEF vars, Begun
  <2> QED BY <1>1, <2>1 DEF ReceiverOK, RefusesOnlyLong, Flow, InFlight, Taken, Written
<1> QED BY <1>3, <1>4, <1>5, <1>6, <1>7, <1>8, <1>9 DEF Next, Writes, Reads

THEOREM Invariant == Spec => []Inv
BY InvInit, InvStep, PTL DEF Spec

\* The buffers of the two loops stay within what was asked for, the bytes on
\* their way within what a connection holds (TcpSocket.cpp:120-166).
THEOREM TypeCorrect == Spec => []TypeOK
<1>1. Inv => TypeOK
  BY DEF Inv
<1> QED BY <1>1, Invariant, PTL

\* recvMsg refuses a length only when the message really is too long, however
\* the reads cut the stream (TcpSocket.cpp:81).
THEOREM RefusesLong == Spec => []RefusesOnlyLong
<1>1. Inv => RefusesOnlyLong
  BY DEF Inv
<1> QED BY <1>1, Invariant, PTL

LEMMA InvInStep == Inv => InStep
<1> SUFFICES ASSUME Inv, rpc = "body"
             PROVE  /\ Len(got) < Len(Begun)
                    /\ rlen = Len(Begun[Len(got) + 1])
                    /\ IsPrefix(rbuf, Begun[Len(got) + 1])
  BY DEF InStep
<1> DEFINE g == Len(got) + 1
           m == Begun[g]
<1>1. TypeOK /\ Len(got) < Len(Begun) /\ rlen = Len(m)
  BY DEF Inv, ReceiverOK
<1>2. PICK S \in Seq(Byte), at \in [1..(Len(Begun) + 1) -> Nat] : InFlight(S, at)
  BY DEF Inv, Flow
<1>3. /\ rbuf \in Seq(Byte) /\ Len(rbuf) \in Nat /\ Len(got) \in Nat /\ Len(Begun) \in Nat
      /\ Taken(at) = at[g] + HeaderLen
  BY <1>1, <1>2, Positions DEF Inv, Flow, Taken
<1>4. g \in 1..Len(Begun) /\ m \in Msgs
  BY <1>1, <1>3, BegunType
<1>5. m \in Seq(Byte) /\ Len(m) \in Nat
  BY <1>4, MessageLength
<1>6. \A j \in 1..Len(m) : S[at[g] + HeaderLen + j] = m[j]
  BY <1>2, <1>4 DEF InFlight, Frames
<1>7. \A j \in 1..Len(rbuf) : rbuf[j] = S[Taken(at) + j]
  BY <1>2 DEF InFlight, Holds
<1>8. Len(rbuf) <= Len(m)
  BY <1>1, <1>3, <1>5 DEF TypeOK
<1> HIDE DEF m
<1>9. \A j \in 1..Len(rbuf) : rbuf[j] = m[j]
  <2> TAKE j \in 1..Len(rbuf)
  <2>1. rbuf[j] = S[Taken(at) + j] /\ j \in 1..Len(m)
    BY <1>3, <1>5, <1>7, <1>8
  <2> HIDE DEF g
  <2>2. S[Taken(at) + j] = S[at[g] + HeaderLen + j]
    BY <1>3
  <2> QED BY <1>6, <2>1, <2>2
<1>10. SubSeq(rbuf, 1, Len(rbuf)) = SubSeq(m, 1, Len(rbuf))
  <2> DEFINE s == SubSeq(rbuf, 1, Len(rbuf))
             t == SubSeq(m, 1, Len(rbuf))
  <2>1. /\ s \in Seq(Byte) /\ Len(s) = Len(rbuf)
        /\ \A j \in 1..Len(rbuf) : s[j] = rbuf[j]
    BY <1>3, Cut
  <2>2. /\ t \in Seq(Byte) /\ Len(t) = Len(rbuf)
        /\ \A j \in 1..Len(rbuf) : t[j] = m[j]
    BY <1>3, <1>5, <1>8, Cut
  <2> HIDE DEF s, t
  <2>3. Len(s) = Len(t) /\ \A j \in 1..Len(s) : s[j] = t[j]
    BY <1>9, <2>1, <2>2
  <2>4. s = t
    BY <2>1, <2>2, <2>3, SameSequence
  <2> QED BY <2>4 DEF s, t
<1> QED BY <1>1, <1>8, <1>10 DEF IsPrefix, m

\* The receiver never takes bytes of one message for the header or the body of
\* another (TcpSocket.h:9-13, TcpSocket.cpp:73-98).
THEOREM StaysInStep == Spec => []InStep
BY InvInStep, Invariant, PTL

-----------------------------------------------------------------------------
(* The channel of whole messages.                                          *)

LEMMA ChannelInit == Init => Channel!Init
BY DEF Init, Channel!Init

LEMMA ChannelStep == Inv /\ [Next]_vars => [Channel!Next]_(Channel!cvars)
<1> SUFFICES ASSUME Inv, [Next]_vars
             PROVE  [Channel!Next]_(Channel!cvars)
  OBVIOUS
<1>1. TypeOK /\ SenderOK /\ ReceiverOK /\ RefusesOnlyLong /\ Flow
  BY DEF Inv
<1> USE DEF Channel!Next, Channel!cvars
<1>2. CASE (\E m \in Msgs : SendMsg(m)) \/ WriteFails \/ CloseSender \/ RecvMsg
  BY <1>2 DEF SendMsg, WriteFails, CloseSender, RecvMsg, rvars, wvars
<1>3. ASSUME NEW n \in 1..Room, Write(n)
      PROVE  [Channel!Next]_(Channel!cvars)
  <2>1. UNCHANGED <<rpc, got>> /\ wpc \in {"header", "body"} /\ wmsg \in Msgs
    BY <1>1, <1>3 DEF Write, rvars, TypeOK, SenderOK
  <2>2. sent' = sent \/ sent' = Append(sent, wmsg)
    BY <1>3, <2>1 DEF Write, WritePart, WriteRest
  <2>3. CASE sent' = sent
    BY <2>1, <2>3
  <2>4. CASE sent' = Append(sent, wmsg)
    <3>1. \E m \in Msgs : Channel!Send(m)
      BY <2>1, <2>4 DEF Channel!Send
    <3> QED BY <3>1
  <2> QED BY <2>2, <2>3, <2>4
<1>4. ASSUME NEW n \in 1..Least(rlen - Len(rbuf), Len(pipe)), Read(n)
      PROVE  [Channel!Next]_(Channel!cvars)
  <2> DEFINE bytes == rbuf \o SubSeq(pipe, 1, n)
  <2>1. rpc \in {"header", "body"} /\ sent' = sent
    BY <1>4 DEF Read, wvars
  <2>2. CASE Len(bytes) < rlen
    BY <1>4, <2>1, <2>2 DEF Read
  <2>3. CASE ~(Len(bytes) < rlen) /\ rpc = "header"
    <3>1. got' = got /\ rpc' \in {"body", "refused"}
      <4>1. HeaderRead(bytes)
        BY <1>4, <2>3 DEF Read
      <4> QED BY <4>1 DEF HeaderRead
    <3> QED BY <2>1, <2>3, <3>1 DEF Channel!End
  <2>4. CASE ~(Len(bytes) < rlen) /\ rpc = "body"
    <3>1. Len(got) < Len(sent) /\ got' = Append(got, sent[Len(got) + 1]) /\ rpc' = "idle"
      BY <1>1, <1>4, <2>4, BodyStep
    <3> QED BY <2>1, <2>4, <3>1 DEF Channel!Receive
  <2> QED BY <2>1, <2>2, <2>3, <2>4
<1>5. CASE ReadEnd \/ CloseReceiver
  <2>1. rpc' = "closed" /\ UNCHANGED <<sent, got>>
    BY <1>5 DEF ReadEnd, CloseReceiver, wvars
  <2>2. CASE rpc \in {"refused", "closed"}
    BY <2>1, <2>2
  <2>3. CASE rpc \notin {"refused", "closed"}
    BY <2>1, <2>3 DEF Channel!End
  <2> QED BY <2>2, <2>3
<1>6. CASE UNCHANGED vars
  BY <1>6 DEF vars
<1> QED BY <1>2, <1>3, <1>4, <1>5, <1>6 DEF Next, Writes, Reads

\* Every step of the two loops is a step, or no step, of the channel of whole
\* messages that KeyAgreement takes a connection to be (TcpSocket.cpp:52-101).
THEOREM ImplementsChannel == Spec => ChannelSteps
<1>1. Init => Channel!Init
  BY ChannelInit
<1>2. Inv /\ [Next]_vars => [Channel!Next]_(Channel!cvars)
  BY ChannelStep
<1> QED BY <1>1, <1>2, Invariant, PTL DEF Spec, ChannelSteps
=============================================================================
