------------------------------ MODULE MCFramedLink ------------------------------
(* An empty message, one whose content looks like a length, and one whose length *)
(* takes two bytes.                                                               *)
EXTENDS FramedLink

MCRequests == <<<<>>, <<0, 0, 0, 1>>, [n \in 1..256 |-> n % 256]>>
MCReplyTo(n) == IF n = 2 THEN <<>> ELSE <<n, 0>>
================================================================================
