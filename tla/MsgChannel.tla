----------------------------- MODULE MsgChannel -----------------------------
(***************************************************************************)
(* What one direction of a connection promises to the two ends: messages   *)
(* are received whole, once and in the order they were sent, until the     *)
(* receiver's end is over; and a message that was sent is received or the  *)
(* receiver's end is over.                                                 *)
(***************************************************************************)
EXTENDS Naturals, Sequences

CONSTANT Msgs

VARIABLES
  sent,  \* the messages whose sendMsg has succeeded
  got,   \* the messages that recvMsg has returned
  over   \* recvMsg has failed, or the receiver is gone

Init == sent = <<>> /\ got = <<>> /\ over = FALSE

Send(m) ==
  /\ sent' = Append(sent, m)
  /\ UNCHANGED <<got, over>>

Receive ==
  /\ ~over
  /\ Len(got) < Len(sent)
  /\ got' = Append(got, sent[Len(got) + 1])
  /\ UNCHANGED <<sent, over>>

End ==
  /\ ~over
  /\ over' = TRUE
  /\ UNCHANGED <<sent, got>>

Next == (\E m \in Msgs : Send(m)) \/ Receive \/ End

cvars == <<sent, got, over>>

Spec == Init /\ [][Next]_cvars /\ WF_cvars(Receive)
=============================================================================
