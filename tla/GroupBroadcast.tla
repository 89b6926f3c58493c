----------------------------- MODULE GroupBroadcast -----------------------------
(***************************************************************************)
(* What a group chat promises, without channels, loops and iterations: what  *)
(* is said about a channel reaches every member in the order it was said,    *)
(* each notice once, and a member that joins misses nothing said after.      *)
(* NettyGroupChat implements this specification.                            *)
(***************************************************************************)
EXTENDS Naturals, Sequences

CONSTANT Clients

VARIABLES
  members,    \* who is in the chat
  said,       \* how many things were said about each client
  passed,     \* the last notice about each client that each member need not be told
  heard       \* what each member was told since it joined, in order

gbvars == <<members, said, passed, heard>>

Nothing == [c \in Clients |-> 0]

Init ==
  /\ members = {}
  /\ said = Nothing
  /\ passed = [d \in Clients |-> Nothing]
  /\ heard = [d \in Clients |-> <<>>]

\* One more thing is said about c, whether c is a member or not.
Speak(c) ==
  /\ said' = [said EXCEPT ![c] = @ + 1]
  /\ UNCHANGED <<members, passed, heard>>

\* Member d is told the next thing about c.
Tell(c, d) ==
  /\ d \in members
  /\ passed[d][c] < said[c]
  /\ passed' = [passed EXCEPT ![d][c] = @ + 1]
  /\ heard' = [heard EXCEPT ![d] = Append(@, <<c, passed[d][c] + 1>>)]
  /\ UNCHANGED <<members, said>>

\* A newcomer is told what is said from now on; the last thing about some of the others,
\* which may be passing just then, it is told as well.
Join(d, late) ==
  /\ d \notin members
  /\ \A c \in late : said[c] > 0
  /\ members' = members \cup {d}
  /\ passed' = [passed EXCEPT ![d] = [c \in Clients |-> IF c \in late THEN said[c] - 1 ELSE said[c]]]
  /\ UNCHANGED <<said, heard>>

Depart(d) ==
  /\ members' = members \ {d}
  /\ passed' = [passed EXCEPT ![d] = Nothing]
  /\ heard' = [heard EXCEPT ![d] = <<>>]
  /\ UNCHANGED said

Next ==
  \/ \E c \in Clients : Speak(c)
  \/ \E c, d \in Clients : Tell(c, d)
  \/ \E d \in Clients, late \in SUBSET Clients : Join(d, late)
  \/ \E d \in Clients : Depart(d)

Spec == Init /\ [][Next]_gbvars
================================================================================
