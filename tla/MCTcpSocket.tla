---------------------------- MODULE MCTcpSocket -----------------------------
(***************************************************************************)
(* Bytes of two values, so that a header of four has lengths up to 15; one *)
(* message is too long for recvMsg, and the connection holds less than a   *)
(* header.                                                                 *)
(***************************************************************************)
EXTENDS TcpSocket

MCMsgs == { <<1>>, <<0, 1>>, <<1, 0, 0>>, <<0, 0, 0, 1, 1>> }
=============================================================================
