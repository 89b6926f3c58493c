---------------------------- MODULE MCNettyGroupChat ----------------------------
(* Three clients: c1 and c2 share an event loop, c3 has one of its own; c1 and c3  *)
(* send.                                                                           *)
EXTENDS NettyGroupChat

CONSTANTS c1, c2, c3, l1, l2

MCClients == {c1, c2, c3}
MCLoops == {l1, l2}
MCLoopOf == [c \in MCClients |-> IF c = c3 THEN l2 ELSE l1]
MCMaxSends == [c \in MCClients |-> IF c = c2 THEN 0 ELSE 1]
================================================================================
