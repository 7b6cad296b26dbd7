----------------------------- MODULE TcpSocket ------------------------------
(***************************************************************************)
(* sendMsg and recvMsg over one direction of a connection: a header of     *)
(* four bytes with the length, most significant first, and the body, moved *)
(* by read and write calls that may carry any part of what is asked for.   *)
(* A connection has two such directions, which share only their end.       *)
(*                                                                         *)
(* A message is the sequence of its bytes; the values of a byte and the    *)
(* limit of recvMsg are parameters (256 and 2^20 in the code).             *)
(***************************************************************************)
EXTENDS Integers, Sequences, SequencesExt

CONSTANTS
  Msgs,     \* the messages; not empty, as sendMsg refuses those
  Base,     \* the number of values of a byte
  MaxLen,   \* the longest body recvMsg accepts
  BufSize,  \* bytes the connection holds between the two ends
  MaxMsgs   \* bound of the model: messages sent

Byte == 0..(Base - 1)

ASSUME TransportAssumption ==
  /\ Base \in Nat /\ Base > 1
  /\ Msgs \subseteq Seq(Byte) \ {<<>>}
  /\ \A m \in Msgs : Len(m) < Base * Base * Base * Base
  /\ MaxLen \in Nat \ {0} /\ BufSize \in Nat \ {0} /\ MaxMsgs \in Nat

VARIABLES
  wpc,   \* the sender: "idle", in writen of the "header" or "body", or "closed"
  wmsg,  \* its message
  wbuf,  \* what writen still has to write
  pipe,  \* the bytes on their way
  rpc,   \* the receiver: "idle", in readn of the "header" or "body", "refused" or "closed"
  rbuf,  \* what readn has read
  rlen,  \* the bytes readn is asked for
  sent,  \* history: messages sent with success
  got    \* history: messages received

wvars == <<wpc, wmsg, wbuf, sent>>
rvars == <<rpc, rbuf, rlen, got>>
vars == <<wpc, wmsg, wbuf, pipe, rpc, rbuf, rlen, sent, got>>

HeaderLen == 4
\* Mutant: the length goes in the order of the host.
HeaderLittle(n) ==
  LET q1 == n \div Base  q2 == q1 \div Base  q3 == q2 \div Base
  IN  <<n % Base, q1 % Base, q2 % Base, q3 % Base>>

\* htonl, ntohl
Header(n) ==
  LET q1 == n \div Base  q2 == q1 \div Base  q3 == q2 \div Base
  IN  <<q3 % Base, q2 % Base, q1 % Base, n % Base>>
Length(bytes) == ((bytes[1] * Base + bytes[2]) * Base + bytes[3]) * Base + bytes[4]
Least(a, b) == IF a <= b THEN a ELSE b

Init ==
  /\ wpc = "idle" /\ wmsg = <<>> /\ wbuf = <<>>
  /\ pipe = <<>>
  /\ rpc = "idle" /\ rbuf = <<>> /\ rlen = 0
  /\ sent = <<>> /\ got = <<>>

-----------------------------------------------------------------------------
(* The sender *)

SendMsg(m) ==
  /\ wpc = "idle" /\ Len(sent) < MaxMsgs
  /\ wpc' = "header" /\ wmsg' = m /\ wbuf' = Header(Len(m))
  /\ UNCHANGED <<pipe, sent>> /\ UNCHANGED rvars

\* Bytes that a closed end is sent are dropped: the first write after the close succeeds.
Room == IF rpc = "closed" THEN Len(wbuf) ELSE Least(Len(wbuf), BufSize - Len(pipe))
Carry(n) == pipe' = IF rpc = "closed" THEN pipe ELSE pipe \o SubSeq(wbuf, 1, n)

WritePart(n) ==
  /\ n < Len(wbuf)
  /\ wbuf' = SubSeq(wbuf, n + 1, Len(wbuf))
  /\ UNCHANGED <<wpc, wmsg, sent>>

WriteRest(n) ==
  /\ n = Len(wbuf)
  /\ IF wpc = "header"
     THEN wpc' = "body" /\ wbuf' = wmsg /\ UNCHANGED <<wmsg, sent>>
     ELSE wpc' = "idle" /\ wbuf' = <<>> /\ wmsg' = <<>> /\ sent' = Append(sent, wmsg)

\* One write of writen's loop.
Write(n) ==
  /\ wpc \in {"header", "body"}
  /\ Carry(n)
  /\ WritePart(n) \/ WriteRest(n)
  /\ UNCHANGED rvars

\* The peer has closed: write fails, or SIGPIPE ends the process.
WriteFails ==
  /\ wpc \in {"header", "body"} /\ rpc = "closed"
  /\ wpc' = "closed"
  /\ UNCHANGED <<wmsg, wbuf, sent, pipe>> /\ UNCHANGED rvars

\* disConnect, or the end of the process in the middle of a call.  What has not
\* arrived is lost when the close is a reset.
CloseSender ==
  /\ wpc # "closed"
  /\ wpc' = "closed"
  /\ \E n \in 0..Len(pipe) : pipe' = SubSeq(pipe, 1, n)
  /\ UNCHANGED <<wmsg, wbuf, sent>> /\ UNCHANGED rvars

-----------------------------------------------------------------------------
(* The receiver *)

RecvMsg ==
  /\ rpc = "idle"
  /\ rpc' = "header" /\ rbuf' = <<>> /\ rlen' = HeaderLen
  /\ UNCHANGED <<pipe, got>> /\ UNCHANGED wvars

\* Mutant: the bytes of the header stay in the buffer.
HeaderReadKept(bytes) ==
  /\ IF Length(bytes) \in 1..MaxLen
     THEN rpc' = "body" /\ rlen' = Length(bytes)
     ELSE rpc' = "refused" /\ rlen' = 0
  /\ rbuf' = bytes
  /\ UNCHANGED got

\* Mutant: one byte more, for a \0.
HeaderReadMore(bytes) ==
  /\ IF Length(bytes) \in 1..MaxLen
     THEN rpc' = "body" /\ rlen' = Length(bytes) + 1
     ELSE rpc' = "refused" /\ rlen' = 0
  /\ rbuf' = <<>>
  /\ UNCHANGED got

\* The header is complete: a length out of bounds ends the call.
HeaderRead(bytes) ==
  /\ IF Length(bytes) \in 1..MaxLen
     THEN rpc' = "body" /\ rlen' = Length(bytes)
     ELSE rpc' = "refused" /\ rlen' = 0
  /\ rbuf' = <<>>
  /\ UNCHANGED got

BodyRead(bytes) ==
  /\ rpc' = "idle" /\ rbuf' = <<>> /\ rlen' = 0
  /\ got' = Append(got, bytes)

\* Mutant: one read is taken for the whole body.
ReadOnce(n) ==
  LET bytes == rbuf \o SubSeq(pipe, 1, n) IN
  /\ rpc \in {"header", "body"}
  /\ pipe' = SubSeq(pipe, n + 1, Len(pipe))
  /\ IF rpc = "header"
     THEN IF Len(bytes) < rlen THEN rbuf' = bytes /\ UNCHANGED <<rpc, rlen, got>>
          ELSE HeaderRead(bytes)
     ELSE BodyRead(bytes)
  /\ UNCHANGED wvars

\* One read of readn's loop.
Read(n) ==
  LET bytes == rbuf \o SubSeq(pipe, 1, n) IN
  /\ rpc \in {"header", "body"}
  /\ pipe' = SubSeq(pipe, n + 1, Len(pipe))
  /\ IF Len(bytes) < rlen THEN rbuf' = bytes /\ UNCHANGED <<rpc, rlen, got>>
     ELSE IF rpc = "header" THEN HeaderRead(bytes) ELSE BodyRead(bytes)
  /\ UNCHANGED wvars

\* read returns 0 or an error: recvMsg fails, a part of a body is freed.
ReadEnd ==
  /\ rpc \in {"header", "body"} /\ pipe = <<>> /\ wpc = "closed"
  /\ rpc' = "closed" /\ rbuf' = <<>> /\ rlen' = 0
  /\ UNCHANGED <<pipe, got>> /\ UNCHANGED wvars

\* disConnect, a read that fails (a signal interrupts it), or the end of the process.
CloseReceiver ==
  /\ rpc # "closed"
  /\ rpc' = "closed" /\ rbuf' = <<>> /\ rlen' = 0
  /\ pipe' = <<>>
  /\ UNCHANGED got /\ UNCHANGED wvars

-----------------------------------------------------------------------------
Writes == (\E n \in 1..Room : Write(n)) \/ WriteFails
\* Mutant: a caller whose recvMsg refused leaves the connection open.
ReadsLeaveOpen ==
  \/ RecvMsg
  \/ \E n \in 1..Least(rlen - Len(rbuf), Len(pipe)) : Read(n)
  \/ ReadEnd

\* Whoever calls recvMsg closes when it has failed.
Reads ==
  \/ RecvMsg
  \/ \E n \in 1..Least(rlen - Len(rbuf), Len(pipe)) : Read(n)
  \/ ReadEnd
  \/ rpc = "refused" /\ CloseReceiver

Next ==
  \/ \E m \in Msgs : SendMsg(m)
  \/ Writes \/ Reads
  \/ CloseSender \/ CloseReceiver

\* writen and readn loop; their callers go on to recvMsg.
Spec == Init /\ [][Next]_vars /\ WF_vars(Writes) /\ WF_vars(Reads)

-----------------------------------------------------------------------------
(* Properties *)

(* The buffers of the two loops stay within what was asked for, the bytes on
   their way within what a connection holds. *)
TypeOK ==
  /\ wpc \in {"idle", "header", "body", "closed"} /\ rpc \in {"idle", "header", "body", "refused", "closed"}
  /\ wmsg \in Msgs \cup {<<>>} /\ wbuf \in Seq(Byte)
  /\ pipe \in Seq(Byte) /\ Len(pipe) <= BufSize
  /\ rbuf \in Seq(Byte) /\ rlen \in Nat
  /\ rpc \in {"header", "body"} => Len(rbuf) < rlen
  /\ sent \in Seq(Msgs) /\ got \in Seq(Seq(Byte))

Begun == IF wmsg = <<>> THEN sent ELSE Append(sent, wmsg)

(* The receiver never takes bytes of one message for the header or body of another:
   the body it waits for is as long as the message it is about to get (the 4-byte
   header against "sticky" packets, TcpSocket.h:9-13). *)
InStep ==
  rpc = "body" =>
    /\ Len(got) < Len(Begun)
    /\ rlen = Len(Begun[Len(got) + 1])
    /\ IsPrefix(rbuf, Begun[Len(got) + 1])

(* recvMsg refuses a length only when the message really is too long: partial reads
   never make up a length (TcpSocket.cpp:81). *)
RefusesOnlyLong ==
  rpc = "refused" => Len(got) < Len(Begun) /\ Len(Begun[Len(got) + 1]) > MaxLen

(* A sendMsg that has begun ends although the connection holds less than a message:
   both loops make progress on every part, and an end that refuses a message closes
   (TcpSocket.cpp:81, ServerOperation.cpp:235-241). *)
SendEnds == wpc \in {"header", "body"} ~> wpc \in {"idle", "closed"}

Channel == INSTANCE MsgChannel WITH over <- (rpc \in {"refused", "closed"})

\* What the channel promises about each step.
ChannelSteps == Channel!Init /\ [][Channel!Next]_(Channel!cvars)

(* The two loops and the header implement a channel of whole messages in order,
   which KeyAgreement takes a connection to be. *)
ChannelSpec == Channel!Spec
=============================================================================
