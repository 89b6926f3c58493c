------------------------------ MODULE LossyForward ------------------------------
(***************************************************************************)
(* What the selector's group chat still promises when reads cut lines and    *)
(* characters, sockets are full and connections break: all a client is given *)
(* are beginnings of pieces of another client's stream, each piece decoded   *)
(* by itself and newer than all the client was given of that stream before.  *)
(* Pieces and ends of pieces may be missing; nothing comes twice.            *)
(* NioGroupChat implements this specification.                              *)
(***************************************************************************)
EXTENDS Naturals, Sequences

CONSTANTS
  Clients,    \* who sends and is given something
  Lines,      \* their lines, for every byte the character it belongs to
  PieceSize   \* the room a piece is decoded in

VARIABLES
  stream,     \* what each client has sent: byte p of line l as <<l, p>>
  given       \* what each client was given, in order: byte k of c as <<c, k>>

lfvars == <<stream, given>>

Init ==
  /\ stream = [c \in Clients |-> <<>>]
  /\ given = [d \in Clients |-> <<>>]

\* c sends the beginning of one of its lines, later than those before.
Send(c) ==
  /\ UNCHANGED given
  /\ \E l \in DOMAIN Lines[c] : \E n \in 0..Len(Lines[c][l]) :
       /\ \A i \in 1..Len(stream[c]) : stream[c][i][1] < l
       /\ stream' = [stream EXCEPT ![c] = @ \o [p \in 1..n |-> <<l, p>>]]

\* The bytes of the character that byte b of c belongs to.
Character(c, b) ==
  {<<b[1], p>> : p \in {q \in DOMAIN Lines[c][b[1]] :
                          Lines[c][b[1]][q] = Lines[c][b[1]][b[2]]}}

\* The n bytes after from: whole characters are kept, the rest is none of c's bytes.
Piece(c, from, n) ==
  LET window == {stream[c][j] : j \in (from + 1)..(from + n)}
  IN  [i \in 1..PieceSize |->
         IF i <= n /\ Character(c, stream[c][from + i]) \subseteq window
         THEN <<c, from + i>> ELSE <<c, 0>>]

\* d is given the first m bytes of a piece of c's stream.
Forward(c, d, from, n, m) ==
  /\ c # d /\ given' # given
  /\ from + n <= Len(stream[c])
  /\ \A i \in 1..Len(given[d]) : given[d][i][1] = c => given[d][i][2] <= from
  /\ given' = [given EXCEPT ![d] = @ \o SubSeq(Piece(c, from, n), 1, m)]
  /\ UNCHANGED stream

Next ==
  \/ \E c \in Clients : Send(c)
  \/ \E c, d \in Clients : \E from \in 0..Len(stream[c]) : \E n, m \in 1..PieceSize :
       Forward(c, d, from, n, m)

Spec == Init /\ [][Next]_lfvars
================================================================================
