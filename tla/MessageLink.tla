------------------------------ MODULE MessageLink ------------------------------
(***************************************************************************)
(* What netty.md promises of the framed protocol, without bytes: the server *)
(* receives the client's messages one by one, in order, each exactly once,  *)
(* and the client receives one reply to each, in order, until the           *)
(* connection ends.                                                         *)
(***************************************************************************)
EXTENDS Naturals, Sequences

CONSTANTS
  Requests,      \* the messages the client sends
  ReplyTo(_)     \* the server's reply to the n-th message

VARIABLES
  sent,          \* messages the client has sent
  served,        \* the messages the server has received
  answers,       \* the replies the client has received
  open           \* the connection stands

mlvars == <<sent, served, answers, open>>

Init == sent = 0 /\ served = <<>> /\ answers = <<>> /\ open = TRUE

Send ==
  /\ open
  /\ sent < Len(Requests)
  /\ sent' = sent + 1
  /\ UNCHANGED <<served, answers, open>>

Serve ==
  /\ open
  /\ Len(served) < sent
  /\ served' = Append(served, Requests[Len(served) + 1])
  /\ UNCHANGED <<sent, answers, open>>

Answer ==
  /\ open
  /\ Len(answers) < Len(served)
  /\ answers' = Append(answers, ReplyTo(Len(answers) + 1))
  /\ UNCHANGED <<sent, served, open>>

Break ==
  /\ open' = FALSE
  /\ UNCHANGED <<sent, served, answers>>

Next == Send \/ Serve \/ Answer \/ Break

Spec == Init /\ [][Next]_mlvars
================================================================================
