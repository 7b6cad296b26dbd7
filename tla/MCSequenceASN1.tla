--------------------------- MODULE MCSequenceASN1 ---------------------------
(***************************************************************************)
(* The messages that the client's operations and the server's answers      *)
(* send, with ids of one, four and eleven characters and numbers on both   *)
(* sides of every boundary of the integer writer.                          *)
(***************************************************************************)
EXTENDS SequenceASN1

(* A text of n visible characters, different ones at different places. *)
Text(n, c) == [i \in 1..n |-> 33 + ((7 * i + c) % 94)]

IdLengths == {1, 4, 11}

(* time(NULL) % 100000; keyids of the database can be any positive int *)
ClockIds == {0, 1, 127, 128, 255, 256, 32767, 32768, 65535, 65536, 99999}
DbIds == (ClockIds \ {0}) \cup {8388607, 8388608, 16777215, 16777216, 2147483647}

RequestOf(cmd, id, auth, sid, r1) ==
  [kind |-> "request", fields |-> << <<cmd>>, Text(id, 1), Text(auth, 2), Text(sid, 3), Text(r1, 4) >>]
RespondOf(rv, id, sid, r2, kid) ==
  [kind |-> "respond", fields |-> << <<rv>>, Text(id, 1), Text(sid, 3), Text(r2, 5), <<kid>> >>]

(* agree: HMAC and r1; check: SHA1 in authCode; revoke: digits in r1; view *)
Requests ==
  {RequestOf(q[1], id, q[2], sid, q[3]) : id, sid \in IdLengths,
      q \in {<<1, 64, 63>>, <<2, 40, 0>>, <<3, 0, 1>>, <<3, 0, 5>>, <<4, 0, 0>>}}

(* agreed; answered or refused; viewed *)
Responds ==
  {RespondOf(0, id, sid, 63, k) : id, sid \in IdLengths, k \in ClockIds}
    \cup {RespondOf(rv, id, sid, 0, 0) : rv \in {0, -1}, id, sid \in IdLengths}
    \cup {RespondOf(0, id, sid, 40, k) : id, sid \in IdLengths, k \in DbIds}

MCMessages == Requests \cup Responds

=============================================================================
