--------------------------- MODULE MessageChannel ---------------------------
(***************************************************************************)
(* What the client asks of a Transport in one direction: messages arrive   *)
(* whole, in order, each once (the trait of transport.rs).                 *)
(***************************************************************************)
EXTENDS Naturals, Sequences

CONSTANT Messages

VARIABLES sent, received

Init == sent = <<>> /\ received = <<>>

Send(message) ==
  /\ sent' = Append(sent, message)
  /\ UNCHANGED received

Receive ==
  /\ Len(received) < Len(sent)
  /\ received' = Append(received, sent[Len(received) + 1])
  /\ UNCHANGED sent

Next == (\E message \in Messages : Send(message)) \/ Receive

Spec == Init /\ [][Next]_<<sent, received>>
=============================================================================
