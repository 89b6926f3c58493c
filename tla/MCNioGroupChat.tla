----------------------------- MODULE MCNioGroupChat -----------------------------
(* Three clients: c1 sends a line of one character of two bytes, c2 one of a *)
(* single byte, c3 only listens; a socket takes one and a half buffers.      *)
EXTENDS NioGroupChat

CONSTANTS c1, c2, c3

MCClients == {c1, c2, c3}
MCLines == [c \in MCClients |->
              IF c = c1 THEN << <<1, 1>> >> ELSE IF c = c2 THEN << <<1>> >> ELSE <<>>]
================================================================================
