--------------------------- MODULE NioGroupChatProofs ---------------------------
(***************************************************************************)
(* Theorems about NioGroupChat for any clients, lines and sizes of buffers.  *)
(***************************************************************************)
EXTENDS NioGroupChat, SequenceTheorems, TLAPS

\* A write takes no more than the string, and no more than there is room for.
LEMMA FittingBounds ==
  ASSUME NEW held \in 0..SendCap
  PROVE  Fitting(held) \in 0..BufferSize /\ held + Fitting(held) \in 0..SendCap
BY BoundsAssumption DEF Fitting

\* What is made of a read is as long as the buffer: bytes read, each at its place, or none's.
LEMMA TextShape ==
  ASSUME NEW c \in Clients, NEW from \in Nat, NEW n \in Nat
  PROVE  /\ Text(c, from, n) \in Seq(Bytes) /\ Len(Text(c, from, n)) = BufferSize
         /\ \A i \in 1..BufferSize :
              \/ Text(c, from, n)[i] = <<c, 0>>
              \/ i <= n /\ Text(c, from, n)[i] = <<c, from + i>>
<1> DEFINE t == Text(c, from, n)
           Keeps(i) == /\ i <= n
                       /\ CharacterOf(c, stream[c][from + i])
                            \subseteq {stream[c][j] : j \in (from + 1)..(from + n)}
<1>1. t = [i \in 1..BufferSize |-> IF Keeps(i) THEN <<c, from + i>> ELSE <<c, 0>>]
  BY DEF Text
<1>2. \A i \in 1..BufferSize : Keeps(i) => i <= n
  OBVIOUS
<1> HIDE DEF t, Keeps
<1>3. \A i \in 1..BufferSize : t[i] = <<c, 0>> \/ (i <= n /\ t[i] = <<c, from + i>>)
  BY <1>1, <1>2
<1>4. BufferSize \in Nat
  BY BoundsAssumption
<1>5. \A i \in 1..BufferSize : t[i] \in Bytes
  <2>1. <<c, 0>> \in Bytes /\ \A i \in 1..BufferSize : <<c, from + i>> \in Bytes
    BY DEF Bytes
  <2>2. QED
    BY <1>3, <2>1
<1>6. t \in [1..BufferSize -> Bytes]
  BY <1>1, <1>5
<1>7. t \in Seq(Bytes) /\ Len(t) = BufferSize
  BY <1>4, <1>6
<1>8. QED
  BY <1>3, <1>7 DEF t

\* The first n elements of a sequence.
LEMMA Beginning ==
  ASSUME NEW S, NEW s \in Seq(S), NEW n \in 0..Len(s)
  PROVE  /\ SubSeq(s, 1, n) \in Seq(S) /\ Len(SubSeq(s, 1, n)) = n
         /\ \A i \in 1..n : SubSeq(s, 1, n)[i] = s[i]
OBVIOUS

\* What a client's socket takes of a line.
LEMMA LineShape ==
  ASSUME NEW l \in Nat, NEW n \in Nat
  PROVE  /\ [p \in 1..n |-> <<l, p>>] \in Seq(Nat \X Nat)
         /\ Len([p \in 1..n |-> <<l, p>>]) = n
OBVIOUS

\* Sending appends to the sender's stream and changes no other.
LEMMA SendAppends ==
  ASSUME TypeOK, NEW c \in Clients, SendInfo(c)
  PROVE  \E n \in 0..Len(Lines[c][said[c] + 1]) :
           LET new == [p \in 1..n |-> <<said[c] + 1, p>>]
           IN  /\ stream' = [stream EXCEPT ![c] = @ \o new]
               /\ stream'[c] = stream[c] \o new
               /\ stream' \in [Clients -> Seq(Nat \X Nat)]
               /\ Len(stream'[c]) = Len(stream[c]) + n
               /\ \A i \in 1..Len(stream[c]) : stream'[c][i] = stream[c][i]
               /\ \A i \in (Len(stream[c]) + 1)..(Len(stream[c]) + n) :
                    stream'[c][i] = <<said[c] + 1, i - Len(stream[c])>>
               /\ \A b \in Clients : b # c => stream'[b] = stream[b]
<1>1. PICK n \in 0..Len(Lines[c][said[c] + 1]) :
        stream' = [stream EXCEPT ![c] = @ \o [p \in 1..n |-> <<said[c] + 1, p>>]]
  BY DEF SendInfo
<1> DEFINE new == [p \in 1..n |-> <<said[c] + 1, p>>]
           s == stream[c]
<1>2. said[c] \in Nat /\ said[c] + 1 \in 1..Len(Lines[c]) /\ Lines[c] \in Seq(Seq(Nat))
  <2>1. said[c] \in Nat
    BY DEF TypeOK
  <2>2. Lines[c] \in Seq(Seq(Nat)) /\ Len(Lines[c]) \in Nat
    BY LinesAssumption
  <2>3. said[c] < Len(Lines[c])
    BY DEF SendInfo
  <2>4. QED
    BY <2>1, <2>2, <2>3
<1>3. n \in Nat
  OBVIOUS
<1>4. new \in Seq(Nat \X Nat) /\ Len(new) = n /\ \A p \in 1..n : new[p] = <<said[c] + 1, p>>
  BY <1>2, <1>3, LineShape
<1>5. s \in Seq(Nat \X Nat) /\ Len(s) \in Nat /\ stream \in [Clients -> Seq(Nat \X Nat)]
  BY DEF TypeOK
<1> HIDE DEF new
<1>6. /\ s \o new \in Seq(Nat \X Nat) /\ Len(s \o new) = Len(s) + n
      /\ \A i \in 1..Len(s) : (s \o new)[i] = s[i]
      /\ \A i \in (Len(s) + 1)..(Len(s) + n) : (s \o new)[i] = new[i - Len(s)]
  <2> HIDE DEF s
  <2>1. /\ s \o new \in Seq(Nat \X Nat) /\ Len(s \o new) = Len(s) + n
        /\ \A i \in 1..(Len(s) + n) :
             (s \o new)[i] = IF i <= Len(s) THEN s[i] ELSE new[i - Len(s)]
    BY <1>4, <1>5, ConcatProperties
  <2>2. QED
    BY <1>3, <1>5, <2>1
<1>7. \A i \in (Len(s) + 1)..(Len(s) + n) : (s \o new)[i] = <<said[c] + 1, i - Len(s)>>
  <2> HIDE DEF s
  <2>1. \A i \in (Len(s) + 1)..(Len(s) + n) : i - Len(s) \in 1..n
    BY <1>3, <1>5
  <2>2. QED
    BY <1>4, <1>6, <2>1
<1>8. stream' = [stream EXCEPT ![c] = @ \o new]
  BY <1>1 DEF new
<1>9. stream'[c] = s \o new /\ \A b \in Clients : b # c => stream'[b] = stream[b]
  BY <1>5, <1>8
<1>10. stream' \in [Clients -> Seq(Nat \X Nat)]
  BY <1>5, <1>6, <1>8
<1>11. QED
  BY <1>6, <1>7, <1>8, <1>9, <1>10 DEF new, s

\* No stream gets shorter.
LEMMA SentGrows ==
  ASSUME TypeOK, NEW c \in Clients, SendInfo(c), NEW d \in Clients
  PROVE  /\ Len(stream[d]) \in Nat /\ Len(stream'[d]) \in Nat
         /\ Len(stream[d]) <= Len(stream'[d])
<1>1. PICK n \in 0..Len(Lines[c][said[c] + 1]) :
        /\ Len(stream'[c]) = Len(stream[c]) + n
        /\ \A b \in Clients : b # c => stream'[b] = stream[b]
  BY SendAppends
<1>2. Len(stream[d]) \in Nat
  BY DEF TypeOK
<1>3. n \in Nat
  OBVIOUS
<1>4. QED
  BY <1>1, <1>2, <1>3

\* A read takes no more than there is.
LEMMA ReadCounts ==
  ASSUME TypeOK, NEW c \in Clients, NEW n \in Nat, got[c] + n <= Len(stream[c]),
         got' = [got EXCEPT ![c] = @ + n]
  PROVE  got' \in [Clients -> Nat] /\ \A d \in Clients : got'[d] <= Len(stream[d])
<1>1. got \in [Clients -> Nat] /\ \A d \in Clients : got[d] <= Len(stream[d])
  BY DEF TypeOK
<1>2. got[c] + n \in Nat
  BY <1>1
<1>3. got' \in [Clients -> Nat] /\ \A d \in Clients : got'[d] = IF d = c THEN got[c] + n ELSE got[d]
  BY <1>1, <1>2
<1>4. QED
  BY <1>1, <1>3

\* The bookkeeping of a round and the types of the variables hold together: a write
\* that throws closes the sender, so there must be one.
LEMMA RoundStep == TypeOK /\ RoundOK /\ [Next]_vars => TypeOK' /\ RoundOK'
<1> SUFFICES ASSUME TypeOK, RoundOK, [Next]_vars
             PROVE  TypeOK' /\ RoundOK'
  OBVIOUS
<1>0. /\ \A c \in Clients : SendInfo(c) => stream' \in [Clients -> Seq(Nat \X Nat)]
      /\ \A c, d \in Clients : SendInfo(c) =>
           Len(stream[d]) \in Nat /\ Len(stream'[d]) \in Nat /\ Len(stream[d]) <= Len(stream'[d])
      /\ \A c \in Clients, n \in Nat :
           got[c] + n <= Len(stream[c]) /\ got' = [got EXCEPT ![c] = @ + n]
           => got' \in [Clients -> Nat] /\ \A d \in Clients : got'[d] <= Len(stream[d])
  BY SendAppends, SentGrows, ReadCounts
<1> USE KeysAssumption, BoundsAssumption DEF TypeOK, RoundOK, net_vars, server_vars
<1>1. ASSUME NEW c \in Clients, Connect(c)
      PROVE  TypeOK' /\ RoundOK'
  BY <1>1 DEF Connect
<1>2. ASSUME NEW c \in Clients, SendInfo(c)
      PROVE  TypeOK' /\ RoundOK'
  <2>1. stream' \in [Clients -> Seq(Nat \X Nat)]
    BY <1>0, <1>2
  <2>2. got \in [Clients -> Nat] /\ \A d \in Clients : got[d] <= Len(stream'[d])
    <3>1. \A d \in Clients : got[d] \in Nat /\ got[d] <= Len(stream[d])
      OBVIOUS
    <3>2. \A d \in Clients : /\ Len(stream[d]) \in Nat /\ Len(stream'[d]) \in Nat
                             /\ Len(stream[d]) <= Len(stream'[d])
      BY <1>0, <1>2
    <3>3. \A d \in Clients : got[d] <= Len(stream'[d])
      BY <3>1, <3>2
    <3>4. QED
      BY <3>3
  <2>3. said' \in [Clients -> Nat] /\ \A d \in Clients : said'[d] <= Len(Lines[d])
    <3>1. \A d \in Clients : Len(Lines[d]) \in Nat
      BY LinesAssumption
    <3>2. said[c] < Len(Lines[c]) /\ said' = [said EXCEPT ![c] = @ + 1]
      BY <1>2 DEF SendInfo
    <3>3. QED
      BY <3>1, <3>2
  <2>4. UNCHANGED <<net, backlog, got, left, delivered, unread, server_vars>>
    BY <1>2 DEF SendInfo
  <2>5. QED
    BY <2>1, <2>2, <2>3, <2>4
<1>3. ASSUME NEW c \in Clients, ReadInfo(c) \/ Leave(c)
      PROVE  TypeOK' /\ RoundOK'
  <2>1. unread' \in [Clients -> 0..SendCap]
    <3>1. /\ 0 \in 0..SendCap
          /\ ~(unread[c] < BufferSize) => unread[c] - BufferSize \in 0..SendCap
      OBVIOUS
    <3>2. CASE ReadInfo(c)
      BY <3>1, <3>2 DEF ReadInfo
    <3>3. CASE Leave(c)
      BY <3>3 DEF Leave
    <3>4. QED
      BY <1>3, <3>2, <3>3
  <2>2. net' \in [Clients -> {"none", "open", "fin", "rst", "closed"}]
    BY <1>3 DEF ReadInfo, Leave
  <2>3. left' \in SUBSET Clients
    BY <1>3 DEF ReadInfo, Leave
  <2>4. UNCHANGED <<backlog, said, stream, got, delivered, server_vars>>
    BY <1>3 DEF ReadInfo, Leave
  <2>5. QED
    BY <2>1, <2>2, <2>3, <2>4
<1>4. CASE Select
  BY <1>4 DEF Select, Ready, Readable, AtSelect
<1>5. ASSUME NEW c \in Clients, Accept(c)
      PROVE  TypeOK' /\ RoundOK'
  BY <1>5 DEF Accept
<1>6. ASSUME NEW c \in Clients, ReadData(c)
      PROVE  TypeOK' /\ RoundOK'
  <2>1. PICK n \in 1..BufferSize :
          /\ got[c] + n <= Len(stream[c]) /\ msg' = Text(c, got[c], n)
          /\ got' = [got EXCEPT ![c] = @ + n]
    BY <1>6 DEF ReadData
  <2>2. n \in Nat /\ got[c] \in Nat
    OBVIOUS
  <2>3. msg' \in Seq(Bytes) /\ Len(msg') = BufferSize
    BY <2>1, <2>2, TextShape
  <2>4. got' \in [Clients -> Nat] /\ \A d \in Clients : got'[d] <= Len(stream[d])
    BY <1>0, <2>1, <2>2
  <2>5. /\ cur' = c /\ todo' = keys \ {c} /\ selected' = selected \ {c} /\ c \in selected
        /\ UNCHANGED <<net, backlog, said, stream, left, delivered, unread, keys, cancelled>>
    BY <1>6 DEF ReadData
  <2>6. QED
    BY <2>3, <2>4, <2>5
<1>7. ASSUME NEW c \in Clients, ReadEof(c)
      PROVE  TypeOK' /\ RoundOK'
  BY <1>7 DEF ReadEof
<1>8. ASSUME NEW c \in Clients, ReadThrows(c)
      PROVE  TypeOK' /\ RoundOK'
  BY <1>8 DEF ReadThrows, CloseSender
<1>9. ASSUME NEW d \in Clients, WriteOpen(d)
      PROVE  TypeOK' /\ RoundOK'
  <2> DEFINE n == Fitting(unread[d])
  <2>1. n \in 0..BufferSize /\ unread[d] + n \in 0..SendCap
    BY FittingBounds
  <2>2. cur # NoOne /\ Len(msg) = BufferSize
    BY <1>9 DEF WriteOpen
  <2>3. SubSeq(msg, 1, n) \in Seq(Bytes)
    BY <2>1, <2>2, Beginning
  <2>4. /\ delivered' = [delivered EXCEPT ![d] = @ \o SubSeq(msg, 1, n)]
        /\ unread' = [unread EXCEPT ![d] = @ + n]
        /\ todo' = todo \ {d} /\ UNCHANGED <<net_vars, keys, cancelled, selected, cur, msg>>
    BY <1>9 DEF WriteOpen
  <2> HIDE DEF n
  <2>5. delivered' \in [Clients -> Seq(Bytes)]
    <3>1. delivered[d] \o SubSeq(msg, 1, n) \in Seq(Bytes)
      BY <2>3, ConcatProperties
    <3>2. QED
      BY <2>4, <3>1
  <2>6. unread' \in [Clients -> 0..SendCap]
    BY <2>1, <2>4
  <2>7. QED
    BY <2>4, <2>5, <2>6
<1>10. ASSUME NEW d \in Clients, WriteFin(d)
       PROVE  TypeOK' /\ RoundOK'
  BY <1>10 DEF WriteFin
<1>11. ASSUME NEW d \in Clients, WriteThrows(d)
       PROVE  TypeOK' /\ RoundOK'
  <2>1. cur \in Clients /\ cur \in keys \ (cancelled \cup selected)
    BY <1>11 DEF WriteThrows
  <2>2. QED
    BY <1>11, <2>1 DEF WriteThrows, CloseSender
<1>12. CASE Forwarded
  BY <1>12 DEF Forwarded
<1>13. CASE UNCHANGED vars
  BY <1>13 DEF vars
<1>14. QED
  BY <1>1, <1>2, <1>3, <1>4, <1>5, <1>6, <1>7, <1>8, <1>9, <1>10, <1>11, <1>12, <1>13
     DEF Next, ServerStep, ClientStep

\* Every variable keeps its type, and a round its bookkeeping.
THEOREM TypeCorrect == Spec => [](TypeOK /\ RoundOK)
<1>1. Init => TypeOK /\ RoundOK
  BY KeysAssumption, BoundsAssumption DEF Init, TypeOK, RoundOK
<1>2. QED
  BY <1>1, RoundStep, PTL DEF Spec

------------------------------------------------------------------------------
\* How the server's end of a connection may change in one step.
LEMMA NetStep ==
  ASSUME TypeOK, RoundOK, [Next]_vars, NEW c \in Clients
  PROVE  \/ net'[c] = net[c]
         \/ net[c] = "none" /\ net'[c] = "open"
         \/ net[c] = "open" /\ net'[c] \in {"fin", "rst"} /\ left' # {}
         \/ net[c] = "fin" /\ net'[c] = "rst"
         \/ net[c] = "rst" /\ net'[c] = "closed"
         \/ net'[c] = "closed" /\ \E d \in keys \ {c} : net[d] \in {"rst", "closed"}
<1> USE KeysAssumption DEF TypeOK, RoundOK, net_vars
<1>1. ASSUME NEW d \in Clients, ClientStep(d)
      PROVE  \/ net'[c] = net[c]
             \/ net[c] = "none" /\ net'[c] = "open"
             \/ net[c] = "open" /\ net'[c] \in {"fin", "rst"} /\ left' # {}
  BY <1>1 DEF ClientStep, Connect, SendInfo, ReadInfo, Leave
<1>2. CASE Select \/ Forwarded
  BY <1>2 DEF Select, Forwarded
<1>3. ASSUME NEW d \in Clients,
             Accept(d) \/ ReadData(d) \/ ReadEof(d) \/ WriteOpen(d) \/ WriteFin(d)
      PROVE  net'[c] = net[c] \/ (net[c] = "fin" /\ net'[c] = "rst")
  BY <1>3 DEF Accept, ReadData, ReadEof, WriteOpen, WriteFin
<1>4. ASSUME NEW d \in Clients, ReadThrows(d)
      PROVE  net'[c] = net[c] \/ (net[c] = "rst" /\ net'[c] = "closed")
  BY <1>4 DEF ReadThrows, CloseSender
<1>5. ASSUME NEW d \in Clients, WriteThrows(d)
      PROVE  \/ net'[c] = net[c]
             \/ net'[c] = "closed" /\ \E e \in keys \ {c} : net[e] \in {"rst", "closed"}
  BY <1>5 DEF WriteThrows, CloseSender
<1>6. CASE UNCHANGED vars
  BY <1>6 DEF vars
<1>7. QED
  BY <1>1, <1>2, <1>3, <1>4, <1>5, <1>6 DEF Next, ServerStep

\* The server takes a channel away only when some channel it still lists has failed.
THEOREM ClosesOnlyOnFailure == Spec => ClosedForAFailure
<1>1. TypeOK /\ RoundOK /\ [Next]_vars
        => [\A c \in Clients : net[c] = "open" /\ net'[c] = "closed" =>
              \E d \in keys \ {c} : net[d] \in {"rst", "closed"}]_vars
  BY NetStep
<1>2. QED
  BY <1>1, TypeCorrect, PTL DEF Spec, ClosedForAFailure

------------------------------------------------------------------------------
(* The select loop *)

\* Connections in the backlog and channels in the key set have been made; a connection is either
\* waiting or registered, and the server closes none that waits.
Registered ==
  /\ \A c \in keys \cup backlog : net[c] # "none"
  /\ \A c \in backlog : c \notin keys /\ net[c] # "closed"

\* The key set's closed channels are those cancelled in this round.
ClosedOK == \A c \in keys : net[c] = "closed" <=> c \in cancelled

\* Whatever a round has still to handle it can handle: a connection to accept, data, an end or an
\* error to read, a channel to write to.
RoundGoesOn ==
  /\ Listen \in selected => backlog # {}
  /\ \A c \in selected \ {Listen} : got[c] < Len(stream[c]) \/ net[c] \in {"fin", "rst"}
  /\ \A d \in todo : net[d] # "none"

\* Registering, selecting and closing keep the key set in step with the connections.
LEMMA SelectorStep ==
  ASSUME TypeOK, RoundOK, Registered, ClosedOK, [Next]_vars
  PROVE  Registered' /\ ClosedOK'
<1> USE KeysAssumption DEF TypeOK, RoundOK, Registered, ClosedOK, net_vars, server_vars
<1>1. ASSUME NEW d \in Clients, ClientStep(d)
      PROVE  Registered' /\ ClosedOK'
  <2>1. CASE Connect(d)
    <3>1. d \notin keys /\ d \notin backlog
      BY <2>1 DEF Connect
    <3>2. QED
      BY <2>1, <3>1 DEF Connect
  <2>2. CASE SendInfo(d) \/ ReadInfo(d)
    BY <2>2 DEF SendInfo, ReadInfo
  <2>3. CASE Leave(d)
    BY <2>3 DEF Leave
  <2>4. QED
    BY <1>1, <2>1, <2>2, <2>3 DEF ClientStep
<1>2. CASE Select
  BY <1>2 DEF Select
<1>3. ASSUME NEW d \in Clients, Accept(d)
      PROVE  Registered' /\ ClosedOK'
  BY <1>3 DEF Accept
<1>4. ASSUME NEW d \in Clients, ReadData(d) \/ ReadEof(d) \/ WriteOpen(d)
      PROVE  Registered' /\ ClosedOK'
  BY <1>4 DEF ReadData, ReadEof, WriteOpen
<1>5. ASSUME NEW d \in Clients, WriteFin(d)
      PROVE  Registered' /\ ClosedOK'
  BY <1>5 DEF WriteFin
<1>6. ASSUME NEW d \in Clients, ReadThrows(d)
      PROVE  Registered' /\ ClosedOK'
  BY <1>6 DEF ReadThrows, CloseSender
<1>7. ASSUME NEW d \in Clients, WriteThrows(d)
      PROVE  Registered' /\ ClosedOK'
  <2>1. cur \in keys /\ cur \in Clients
    BY <1>7 DEF WriteThrows
  <2>2. QED
    BY <1>7, <2>1 DEF WriteThrows, CloseSender
<1>8. CASE Forwarded
  BY <1>8 DEF Forwarded
<1>9. CASE UNCHANGED vars
  BY <1>9 DEF vars
<1>10. QED
  BY <1>1, <1>2, <1>3, <1>4, <1>5, <1>6, <1>7, <1>8, <1>9 DEF Next, ServerStep

\* What is selected stays ready until it is handled, though clients go on and other keys of the
\* round are handled first.
LEMMA RoundGoesOnStep ==
  ASSUME TypeOK, RoundOK, Registered, ClosedOK, RoundGoesOn, [Next]_vars
  PROVE  RoundGoesOn'
<1>0. \A b, c \in Clients : SendInfo(b) =>
        /\ Len(stream[c]) \in Nat /\ Len(stream'[c]) \in Nat
        /\ Len(stream[c]) <= Len(stream'[c])
  BY SentGrows
<1> USE KeysAssumption DEF TypeOK, RoundOK, RoundGoesOn, net_vars, server_vars
<1>1. ASSUME NEW d \in Clients, ClientStep(d)
      PROVE  RoundGoesOn'
  <2>1. CASE Connect(d)
    <3>1. net[d] = "none" /\ d \notin keys /\ d # Listen
      BY <2>1 DEF Connect, Registered
    <3>2. QED
      BY <2>1, <3>1 DEF Connect
  <2>2. CASE SendInfo(d)
    <3>1. \A c \in Clients : got[c] < Len(stream[c]) => got[c] < Len(stream'[c])
      <4>1. \A c \in Clients :
              /\ got[c] \in Nat /\ Len(stream[c]) \in Nat /\ Len(stream'[c]) \in Nat
              /\ Len(stream[c]) <= Len(stream'[c])
        BY <1>0, <2>2
      <4>2. SUFFICES ASSUME NEW c \in Clients, got[c] < Len(stream[c])
                     PROVE  got[c] < Len(stream'[c])
        OBVIOUS
      <4>3. /\ got[c] \in Nat /\ Len(stream[c]) \in Nat /\ Len(stream'[c]) \in Nat
            /\ Len(stream[c]) <= Len(stream'[c])
        BY <4>1
      <4> DEFINE x == got[c]
                 y == Len(stream[c])
                 z == Len(stream'[c])
      <4>4. x \in Nat /\ y \in Nat /\ z \in Nat /\ y <= z /\ x < y
        BY <4>2, <4>3
      <4> HIDE DEF x, y, z
      <4>5. x < z
        BY <4>4
      <4>6. QED
        BY <4>5 DEF x, z
    <3>2. UNCHANGED <<net, backlog, got, server_vars>>
      BY <2>2 DEF SendInfo
    <3>3. selected \ {Listen} \subseteq Clients /\ UNCHANGED <<selected, todo>>
      BY <3>2
    <3> HIDE DEF server_vars
    <3>4. QED
      BY <3>1, <3>2, <3>3
  <2>3. CASE ReadInfo(d)
    BY <2>3 DEF ReadInfo
  <2>4. CASE Leave(d)
    BY <2>4 DEF Leave
  <2>5. QED
    BY <1>1, <2>1, <2>2, <2>3, <2>4 DEF ClientStep
<1>2. CASE Select
  BY <1>2 DEF Select, AtSelect, Ready, Readable
<1>3. ASSUME NEW d \in Clients, Accept(d)
      PROVE  RoundGoesOn'
  BY <1>3 DEF Accept
<1>4. ASSUME NEW d \in Clients, ReadData(d)
      PROVE  RoundGoesOn'
  BY <1>4 DEF ReadData, Registered
<1>5. ASSUME NEW d \in Clients, ReadEof(d) \/ WriteOpen(d)
      PROVE  RoundGoesOn'
  BY <1>5 DEF ReadEof, WriteOpen
<1>6. ASSUME NEW d \in Clients, WriteFin(d)
      PROVE  RoundGoesOn'
  BY <1>6 DEF WriteFin
<1>7. ASSUME NEW d \in Clients, ReadThrows(d)
      PROVE  RoundGoesOn'
  BY <1>7 DEF ReadThrows, CloseSender
<1>8. ASSUME NEW d \in Clients, WriteThrows(d)
      PROVE  RoundGoesOn'
  <2>1. cur \in Clients /\ cur \notin selected
    BY <1>8 DEF WriteThrows
  <2>2. QED
    BY <1>8, <2>1 DEF WriteThrows, CloseSender
<1>9. CASE Forwarded
  BY <1>9 DEF Forwarded
<1>10. CASE UNCHANGED vars
  BY <1>10 DEF vars
<1>11. QED
  BY <1>1, <1>2, <1>3, <1>4, <1>5, <1>6, <1>7, <1>8, <1>9, <1>10 DEF Next, ServerStep

\* The selector thread is never left with a key it can do nothing about, and a closed channel is
\* gone from the key set with the next select (lines 35-57 and 85-91; the parts of ResetDetected and
\* AllRead that need no fairness).
THEOREM SelectorNeverStalls == Spec => [](RoundGoesOn /\ ClosedOK)
<1>1. Init => Registered /\ ClosedOK /\ RoundGoesOn
  BY DEF Init, Registered, ClosedOK, RoundGoesOn
<1>2. TypeOK /\ RoundOK /\ Registered /\ ClosedOK /\ RoundGoesOn /\ [Next]_vars
        => Registered' /\ ClosedOK' /\ RoundGoesOn'
  BY SelectorStep, RoundGoesOnStep
<1>3. QED
  BY <1>1, <1>2, TypeCorrect, PTL DEF Spec

------------------------------------------------------------------------------
\* While no client has ended every connection is unused or open.
NoneFailed == left = {} => \A c \in Clients : net[c] \in {"none", "open"}

\* Only a client that ends brings a failure.
LEMMA NoneFailedStep ==
  ASSUME TypeOK, RoundOK, NoneFailed, [Next]_vars
  PROVE  NoneFailed'
<1> SUFFICES ASSUME left' = {}, NEW c \in Clients
             PROVE  net'[c] \in {"none", "open"}
  BY DEF NoneFailed
<1>1. left = {}
  BY DEF Next, ServerStep, ClientStep, Connect, SendInfo, ReadInfo, Leave, Select, Accept,
         ReadData, ReadEof, ReadThrows, WriteOpen, WriteFin, WriteThrows, Forwarded,
         net_vars, vars
<1>2. \A d \in Clients : net[d] \in {"none", "open"}
  BY <1>1 DEF NoneFailed
<1>3. keys \subseteq Clients
  BY DEF TypeOK
<1>4. QED
  BY <1>2, <1>3, NetStep

\* A slow or silent client costs nobody the connection.
THEOREM NoFailureNoClose == Spec => []NobodyLeftNobodyClosed
<1>1. Init => NoneFailed
  BY DEF Init, NoneFailed
<1>2. TypeOK /\ RoundOK /\ NoneFailed /\ [Next]_vars => NoneFailed'
  BY NoneFailedStep
<1>3. NoneFailed => NobodyLeftNobodyClosed
  BY DEF NoneFailed, NobodyLeftNobodyClosed
<1>4. QED
  BY <1>1, <1>2, <1>3, TypeCorrect, PTL DEF Spec

------------------------------------------------------------------------------
(* The order of what is delivered *)

\* The lines of a stream are those its client has sent.
StreamOK == \A c \in Clients : \A i \in 1..Len(stream[c]) : stream[c][i][1] <= said[c]

\* What is being forwarded are the last n bytes read of the sender, decoded by themselves, and
\* newer than all that was delivered of that sender where it is still to go.
UnderWay(n) ==
  /\ n <= got[cur]
  /\ msg = Text(cur, got[cur] - n, n)
  /\ \A d \in todo : \A i \in 1..Len(delivered[d]) :
       delivered[d][i][1] = cur => delivered[d][i][2] <= got[cur] - n

UnderWayOK == cur # NoOne => \E n \in 1..BufferSize : UnderWay(n)

\* Only what was read is delivered.
ArrivedOK ==
  \A d \in Clients : \A i \in 1..Len(delivered[d]) :
    delivered[d][i][2] <= got[delivered[d][i][1]]

OrderOK == StreamOK /\ UnderWayOK /\ ArrivedOK /\ ForwardedInOrder

\* What is delivered is of a client and carries a number.
LEMMA ByteShape ==
  ASSUME NEW w \in Seq(Bytes), NEW i \in 1..Len(w)
  PROVE  w[i][1] \in Clients /\ w[i][2] \in Nat
BY DEF Bytes

\* The text made of a read does not change when the stream goes on.
LEMMA TextStable ==
  ASSUME NEW c \in Clients, NEW from \in Nat, NEW n \in Nat,
         \A k \in 1..(from + n) : stream'[c][k] = stream[c][k]
  PROVE  Text(c, from, n)' = Text(c, from, n)
<1>1. \A j \in (from + 1)..(from + n) : stream'[c][j] = stream[c][j]
  OBVIOUS
<1>2. {stream'[c][j] : j \in (from + 1)..(from + n)} = {stream[c][j] : j \in (from + 1)..(from + n)}
  BY <1>1
<1>3. ASSUME NEW i \in 1..BufferSize, i <= n
      PROVE  CharacterOf(c, stream'[c][from + i]) = CharacterOf(c, stream[c][from + i])
  <2>1. stream'[c][from + i] = stream[c][from + i]
    BY <1>1, <1>3, BoundsAssumption
  <2>2. QED
    BY <2>1
<1>4. QED
  BY <1>2, <1>3, Zenon DEF Text, CharacterOf

\* Whatever neither sends, reads nor writes keeps the order.
LEMMA QuietKeeps ==
  ASSUME TypeOK, RoundOK, OrderOK, UNCHANGED <<said, stream, got, delivered>>,
         \/ UNCHANGED <<cur, msg>> /\ todo' \subseteq todo
         \/ cur' = NoOne
  PROVE  OrderOK'
<1>1. StreamOK' /\ ArrivedOK' /\ ForwardedInOrder'
  BY DEF OrderOK, StreamOK, ArrivedOK, ForwardedInOrder
<1>2. UnderWayOK'
  <2>1. CASE cur' = NoOne
    BY <2>1 DEF UnderWayOK
  <2>2. CASE cur' # NoOne /\ UNCHANGED <<cur, msg>> /\ todo' \subseteq todo
    <3>1. PICK n \in 1..BufferSize : UnderWay(n)
      BY <2>2 DEF OrderOK, UnderWayOK
    <3>2. Text(cur, got[cur] - n, n)' = Text(cur, got[cur] - n, n)
      BY <2>2 DEF Text, CharacterOf
    <3>3. UnderWay(n)'
      BY <2>2, <3>1, <3>2 DEF UnderWay
    <3>4. QED
      BY <3>3 DEF UnderWayOK
  <2>3. QED
    BY <2>1, <2>2
<1>3. QED
  BY <1>1, <1>2 DEF OrderOK

\* What a client sends comes after all that was read of it.
LEMMA SendKeeps ==
  ASSUME TypeOK, RoundOK, OrderOK, NEW c \in Clients, SendInfo(c)
  PROVE  OrderOK'
<1>1. /\ UNCHANGED <<got, delivered, cur, msg, todo>>
      /\ said' = [said EXCEPT ![c] = @ + 1]
  BY DEF SendInfo, server_vars
<1>2. PICK n \in 0..Len(Lines[c][said[c] + 1]) :
        /\ Len(stream'[c]) = Len(stream[c]) + n
        /\ \A i \in 1..Len(stream[c]) : stream'[c][i] = stream[c][i]
        /\ \A i \in (Len(stream[c]) + 1)..(Len(stream[c]) + n) :
             stream'[c][i] = <<said[c] + 1, i - Len(stream[c])>>
        /\ \A b \in Clients : b # c => stream'[b] = stream[b]
  BY SendAppends
<1>3. \A b \in Clients : Len(stream[b]) \in Nat /\ said[b] \in Nat
  BY DEF TypeOK
<1>4. \A b \in Clients : said'[b] = IF b = c THEN said[b] + 1 ELSE said[b]
  BY <1>1 DEF TypeOK
<1>5. StreamOK'
  <2>1. ASSUME NEW b \in Clients, NEW i \in 1..Len(stream'[b])
        PROVE  stream'[b][i][1] <= said'[b]
    <3>1. CASE b # c
      BY <1>2, <1>4, <2>1, <3>1 DEF OrderOK, StreamOK
    <3>2. CASE b = c /\ i \in 1..Len(stream[c])
      <4>1. stream[c][i] \in Nat \X Nat /\ stream[c][i][1] <= said[c]
        BY <3>2 DEF TypeOK, OrderOK, StreamOK
      <4>2. stream'[c][i] = stream[c][i] /\ said'[c] = said[c] + 1 /\ said[c] \in Nat
        BY <1>2, <1>3, <1>4, <3>2
      <4>3. stream[c][i][1] \in Nat
        BY <4>1
      <4>4. QED
        BY <3>2, <4>1, <4>2, <4>3
    <3>3. CASE b = c /\ ~(i \in 1..Len(stream[c]))
      <4>1. i \in (Len(stream[c]) + 1)..(Len(stream[c]) + n)
        BY <1>2, <1>3, <2>1, <3>3
      <4>2. stream'[c][i][1] = said[c] + 1
        BY <1>2, <4>1
      <4>3. QED
        BY <1>3, <1>4, <3>3, <4>2
    <3>4. QED
      BY <3>1, <3>2, <3>3
  <2>2. QED
    BY <2>1 DEF StreamOK
<1>6. UnderWayOK'
  <2>1. CASE cur = NoOne
    BY <1>1, <2>1 DEF UnderWayOK
  <2>2. CASE cur # NoOne
    <3>1. PICK m \in 1..BufferSize : UnderWay(m)
      BY <2>2 DEF OrderOK, UnderWayOK
    <3>2. /\ cur \in Clients /\ got[cur] \in Nat /\ got[cur] <= Len(stream[cur])
          /\ Len(stream[cur]) \in Nat /\ m \in Nat /\ m <= got[cur]
      BY <2>2, <3>1, BoundsAssumption DEF TypeOK, UnderWay
    <3>3. got[cur] - m \in Nat /\ (got[cur] - m) + m = got[cur]
      BY <3>2
    <3>4. \A k \in 1..Len(stream[cur]) : stream'[cur][k] = stream[cur][k]
      BY <1>2, <3>2
    <3>5. \A k \in 1..((got[cur] - m) + m) : stream'[cur][k] = stream[cur][k]
      BY <3>2, <3>3, <3>4
    <3>6. Text(cur, got[cur] - m, m)' = Text(cur, got[cur] - m, m)
      <4>1. PICK c0 \in Clients, f0 \in Nat : c0 = cur /\ f0 = got[cur] - m
        BY <3>2, <3>3
      <4>2. Text(c0, f0, m)' = Text(c0, f0, m)
        BY <3>2, <3>5, <4>1, TextStable
      <4>3. QED
        BY <1>1, <4>1, <4>2, Zenon
    <3>7. UnderWay(m)'
      BY <1>1, <3>1, <3>6 DEF UnderWay
    <3>8. QED
      BY <3>7 DEF UnderWayOK
  <2>3. QED
    BY <2>1, <2>2
<1>7. ArrivedOK' /\ ForwardedInOrder'
  BY <1>1 DEF OrderOK, ArrivedOK, ForwardedInOrder
<1>8. QED
  BY <1>5, <1>6, <1>7 DEF OrderOK

\* A read takes the oldest bytes of its sender that were not read.
LEMMA ReadKeeps ==
  ASSUME TypeOK, RoundOK, OrderOK, NEW c \in Clients, ReadData(c)
  PROVE  OrderOK'
<1>1. PICK n \in 1..BufferSize :
        msg' = Text(c, got[c], n) /\ got' = [got EXCEPT ![c] = @ + n]
  BY DEF ReadData
<1>2. cur' = c /\ UNCHANGED <<said, stream, delivered>>
  BY DEF ReadData
<1>3. /\ n \in Nat /\ got[c] \in Nat /\ got'[c] = got[c] + n /\ got'[c] - n = got[c]
      /\ \A b \in Clients : got[b] \in Nat /\ got'[b] \in Nat /\ got[b] <= got'[b]
  BY <1>1, BoundsAssumption DEF TypeOK
<1>4. \A d \in Clients : \A i \in 1..Len(delivered[d]) :
        /\ delivered[d][i][1] \in Clients /\ delivered[d][i][2] \in Nat
        /\ delivered[d][i][2] <= got[delivered[d][i][1]]
  BY ByteShape DEF TypeOK, OrderOK, ArrivedOK
<1>5. ArrivedOK'
  <2>1. ASSUME NEW d \in Clients, NEW i \in 1..Len(delivered[d])
        PROVE  delivered[d][i][2] <= got'[delivered[d][i][1]]
    <3> DEFINE b == delivered[d][i][1]
               k == delivered[d][i][2]
    <3>1. b \in Clients /\ k \in Nat /\ k <= got[b]
      BY <1>4
    <3>2. got[b] \in Nat /\ got'[b] \in Nat /\ got[b] <= got'[b]
      BY <1>3, <3>1
    <3> HIDE DEF b, k
    <3>3. k <= got'[b]
      BY <3>1, <3>2
    <3>4. QED
      BY <3>3 DEF b, k
  <2>2. QED
    BY <1>2, <2>1 DEF ArrivedOK
<1>6. UnderWay(n)'
  <2>1. todo' \subseteq Clients
    BY DEF ReadData, TypeOK
  <2>2. PICK b \in Clients, from \in Nat : b = c /\ from = got[c]
    BY <1>3
  <2>3. Text(b, from, n)' = Text(b, from, n)
    BY <1>2, <1>3, TextStable
  <2>4. msg' = Text(b, from, n)'
    BY <1>1, <2>2, <2>3
  <2>5. n <= got'[cur'] /\ got'[cur'] - n = from /\ cur' = b
    BY <1>2, <1>3, <2>2
  <2>6. msg' = Text(cur, got[cur] - n, n)'
    BY <2>4, <2>5, Zenon
  <2>7. ASSUME NEW d \in todo', NEW i \in 1..Len(delivered'[d]), delivered'[d][i][1] = cur'
        PROVE  delivered'[d][i][2] <= got'[cur'] - n
    <3>1. d \in Clients /\ delivered'[d] = delivered[d]
      BY <1>2, <2>1, <2>7
    <3>2. delivered[d][i][2] <= got[delivered[d][i][1]] /\ delivered[d][i][1] = c
      BY <1>2, <1>4, <2>7, <3>1
    <3>3. QED
      BY <2>2, <2>5, <3>1, <3>2
  <2>8. QED
    BY <2>5, <2>6, <2>7 DEF UnderWay
<1>7. UnderWayOK'
  BY <1>6 DEF UnderWayOK
<1>8. StreamOK' /\ ForwardedInOrder'
  BY <1>2 DEF OrderOK, StreamOK, ForwardedInOrder
<1>9. QED
  BY <1>5, <1>7, <1>8 DEF OrderOK

\* What a write puts at the end of what was delivered: bytes of the sender newer than all of it.
LEMMA WriteAppends ==
  ASSUME TypeOK, RoundOK, OrderOK, NEW d \in Clients, WriteOpen(d)
  PROVE  \E n \in 1..BufferSize :
           LET s    == delivered[d]
               w    == Fitting(unread[d])
               from == got[cur] - n
           IN  /\ cur \in Clients /\ cur # d /\ UnderWay(n) /\ from \in Nat /\ w \in 0..BufferSize
               /\ delivered' = [delivered EXCEPT ![d] = @ \o SubSeq(msg, 1, w)]
               /\ Len(delivered'[d]) = Len(s) + w
               /\ \A i \in 1..Len(s) : delivered'[d][i] = s[i]
               /\ \A i \in (Len(s) + 1)..(Len(s) + w) :
                    \/ delivered'[d][i] = <<cur, 0>>
                    \/ /\ delivered'[d][i] = <<cur, from + (i - Len(s))>>
                       /\ from + (i - Len(s)) <= got[cur]
<1> DEFINE s == delivered[d]
           w == Fitting(unread[d])
<1>1. d \in todo /\ delivered' = [delivered EXCEPT ![d] = @ \o SubSeq(msg, 1, w)]
  BY DEF WriteOpen
<1>2. cur \in Clients /\ cur # d /\ cur # NoOne /\ Len(msg) = BufferSize
  BY <1>1 DEF RoundOK, TypeOK
<1>3. PICK n \in 1..BufferSize : UnderWay(n)
  BY <1>2 DEF OrderOK, UnderWayOK
<1> DEFINE from == got[cur] - n
<1>4. n \in Nat /\ got[cur] \in Nat /\ from \in Nat /\ from + n = got[cur]
  <2>1. got[cur] \in Nat
    BY <1>2 DEF TypeOK
  <2>2. n <= got[cur]
    BY <1>3 DEF UnderWay
  <2>3. QED
    BY <2>1, <2>2
<1>5. msg = Text(cur, from, n)
  BY <1>3 DEF UnderWay
<1>6. w \in 0..BufferSize
  BY FittingBounds DEF TypeOK
<1>7. s \in Seq(Bytes) /\ Len(s) \in Nat /\ msg \in Seq(Bytes)
  BY DEF TypeOK
<1> HIDE DEF w, from
<1>8. \A i \in 1..BufferSize : msg[i] = <<cur, 0>> \/ (i <= n /\ msg[i] = <<cur, from + i>>)
  BY <1>2, <1>4, <1>5, TextShape
<1> DEFINE b == SubSeq(msg, 1, w)
<1>9. b \in Seq(Bytes) /\ Len(b) = w /\ \A i \in 1..w : b[i] = msg[i]
  BY <1>2, <1>6, <1>7, Beginning
<1> HIDE DEF b
<1>10. delivered'[d] = s \o b
  <2>1. delivered \in [Clients -> Seq(Bytes)]
    BY DEF TypeOK
  <2>2. QED
    BY <1>1, <2>1 DEF b
<1> HIDE DEF s
<1>11. /\ Len(s \o b) = Len(s) + w
       /\ \A i \in 1..(Len(s) + w) : (s \o b)[i] = IF i <= Len(s) THEN s[i] ELSE b[i - Len(s)]
  BY <1>7, <1>9, ConcatProperties
<1>12. w \in Nat
  BY <1>6, BoundsAssumption
<1>13. \A i \in 1..Len(s) : (s \o b)[i] = s[i]
  BY <1>7, <1>11, <1>12
<1>14. ASSUME NEW i \in (Len(s) + 1)..(Len(s) + w)
       PROVE  \/ (s \o b)[i] = <<cur, 0>>
              \/ (s \o b)[i] = <<cur, from + (i - Len(s))>> /\ from + (i - Len(s)) <= got[cur]
  <2>1. /\ i - Len(s) \in 1..w /\ i - Len(s) \in 1..BufferSize /\ i \in 1..(Len(s) + w)
        /\ ~(i <= Len(s))
    BY <1>6, <1>7, <1>12, BoundsAssumption
  <2>2. (s \o b)[i] = msg[i - Len(s)]
    BY <1>9, <1>11, <2>1
  <2>3. i - Len(s) <= n => from + (i - Len(s)) <= got[cur]
    BY <1>4, <2>1
  <2>4. QED
    BY <1>8, <2>1, <2>2, <2>3
<1>15. QED
  BY <1>1, <1>2, <1>3, <1>4, <1>6, <1>10, <1>11, <1>13, <1>14 DEF s, w, from

\* A write appends what fits of the text under way, once.
LEMMA WriteKeeps ==
  ASSUME TypeOK, RoundOK, OrderOK, NEW d \in Clients, WriteOpen(d)
  PROVE  OrderOK'
<1> DEFINE s == delivered[d]
           w == Fitting(unread[d])
<1>1. /\ todo' = todo \ {d} /\ d \in todo /\ UNCHANGED <<said, stream, got, cur, msg>>
  BY DEF WriteOpen, net_vars
<1>2. PICK n \in 1..BufferSize :
        /\ cur \in Clients /\ cur # d /\ UnderWay(n) /\ got[cur] - n \in Nat /\ w \in 0..BufferSize
        /\ delivered' = [delivered EXCEPT ![d] = @ \o SubSeq(msg, 1, w)]
        /\ Len(delivered'[d]) = Len(s) + w
        /\ \A i \in 1..Len(s) : delivered'[d][i] = s[i]
        /\ \A i \in (Len(s) + 1)..(Len(s) + w) :
             \/ delivered'[d][i] = <<cur, 0>>
             \/ /\ delivered'[d][i] = <<cur, (got[cur] - n) + (i - Len(s))>>
                /\ (got[cur] - n) + (i - Len(s)) <= got[cur]
  BY WriteAppends
<1> DEFINE from == got[cur] - n
<1>3. /\ Len(s) \in Nat /\ w \in Nat /\ from \in Nat
      /\ \A b \in Clients : got[b] \in Nat
  <2>1. s \in Seq(Bytes) /\ \A b \in Clients : got[b] \in Nat
    BY DEF TypeOK
  <2>2. Len(s) \in Nat
    BY <2>1, LenProperties
  <2>3. w \in 0..BufferSize /\ from \in Nat
    BY <1>2
  <2> HIDE DEF s, w, from
  <2>4. w \in Nat
    BY <2>3, BoundsAssumption
  <2>5. QED
    BY <2>1, <2>2, <2>3, <2>4
<1>4. \A e \in Clients : e # d => delivered'[e] = delivered[e]
  BY <1>2 DEF TypeOK
<1>5. \A i \in 1..Len(s) : /\ s[i][1] \in Clients /\ s[i][2] \in Nat /\ s[i][1] # d
                           /\ s[i][2] <= got[s[i][1]]
                           /\ (s[i][1] = cur => s[i][2] <= from)
  <2>1. TAKE i \in 1..Len(s)
  <2>2. s \in Seq(Bytes)
    BY DEF TypeOK
  <2>3. s[i][1] \in Clients /\ s[i][2] \in Nat
    BY <2>1, <2>2, ByteShape
  <2>4. s[i][1] # d /\ s[i][2] <= got[s[i][1]]
    BY <2>1 DEF OrderOK, ArrivedOK, ForwardedInOrder
  <2>5. s[i][1] = cur => s[i][2] <= from
    BY <1>1, <1>2, <2>1 DEF UnderWay
  <2>6. QED
    BY <2>3, <2>4, <2>5
<1>6. \A i \in 1..Len(s) : s[i][2] # 0 => \A j \in 1..(i - 1) : s[j][1] = s[i][1] => s[j][2] < s[i][2]
  BY DEF OrderOK, ForwardedInOrder
<1> HIDE DEF s, w, from
<1>7. /\ Len(delivered'[d]) = Len(s) + w
      /\ \A i \in 1..Len(s) : delivered'[d][i] = s[i]
  BY <1>2 DEF s, w
<1>8. ASSUME NEW i \in 1..Len(delivered'[d]), ~(i \in 1..Len(s))
      PROVE  /\ delivered'[d][i][1] = cur
             /\ \/ delivered'[d][i][2] = 0
                \/ /\ delivered'[d][i][2] = from + (i - Len(s))
                   /\ from + (i - Len(s)) <= got[cur] /\ i - Len(s) >= 1
  <2>1. i \in (Len(s) + 1)..(Len(s) + w) /\ i - Len(s) >= 1
    BY <1>3, <1>7, <1>8
  <2>2. \/ delivered'[d][i] = <<cur, 0>>
        \/ delivered'[d][i] = <<cur, from + (i - Len(s))>> /\ from + (i - Len(s)) <= got[cur]
    BY <1>2, <2>1 DEF s, w, from
  <2>3. QED
    BY <2>1, <2>2
<1>9. ASSUME NEW i \in 1..Len(delivered'[d])
      PROVE  delivered'[d][i][1] # d /\ delivered'[d][i][2] <= got[delivered'[d][i][1]]
  <2>1. CASE i \in 1..Len(s)
    BY <1>5, <1>7, <2>1
  <2>2. CASE ~(i \in 1..Len(s))
    <3>1. cur # d /\ cur \in Clients
      BY <1>2
    <3>2. delivered'[d][i][1] = cur /\ (delivered'[d][i][2] = 0 \/ delivered'[d][i][2] <= got[cur])
      BY <1>8, <2>2
    <3>3. 0 <= got[cur]
      BY <1>3, <3>1
    <3>4. QED
      BY <3>1, <3>2, <3>3
  <2>3. QED
    BY <2>1, <2>2
<1>10. ASSUME NEW i \in 1..Len(delivered'[d]), delivered'[d][i][2] # 0, NEW j \in 1..(i - 1),
              delivered'[d][j][1] = delivered'[d][i][1]
       PROVE  delivered'[d][j][2] < delivered'[d][i][2]
  <2>1. j \in 1..Len(delivered'[d]) /\ j < i /\ i \in Nat /\ j \in Nat
    BY <1>3, <1>7
  <2>2. CASE i \in 1..Len(s)
    <3>1. j \in 1..Len(s)
      BY <1>3, <2>1, <2>2
    <3>2. QED
      BY <1>6, <1>7, <1>10, <2>2, <3>1
  <2>3. CASE ~(i \in 1..Len(s)) /\ j \in 1..Len(s)
    <3>1. /\ delivered'[d][i][1] = cur /\ delivered'[d][i][2] = from + (i - Len(s))
          /\ i - Len(s) >= 1
      BY <1>8, <1>10, <2>3
    <3>2. delivered'[d][j] = s[j] /\ s[j][1] = cur
      BY <1>7, <1>10, <2>3, <3>1
    <3>3. s[j][2] <= from /\ s[j][2] \in Nat
      BY <1>5, <2>3, <3>2
    <3>4. from + (i - Len(s)) > from
      BY <1>3, <2>1, <3>1
    <3>5. QED
      BY <1>3, <2>1, <3>1, <3>2, <3>3, <3>4
  <2>4. CASE ~(i \in 1..Len(s)) /\ ~(j \in 1..Len(s))
    <3>1. delivered'[d][i][2] = from + (i - Len(s)) /\ i - Len(s) >= 1
      BY <1>8, <1>10, <2>4
    <3>2. delivered'[d][j][2] = 0 \/ delivered'[d][j][2] = from + (j - Len(s))
      BY <1>8, <2>1, <2>4
    <3>3. 0 < from + (i - Len(s)) /\ from + (j - Len(s)) < from + (i - Len(s))
      BY <1>3, <2>1, <3>1
    <3>4. QED
      BY <3>1, <3>2, <3>3
  <2>5. QED
    BY <2>2, <2>3, <2>4
<1>11. ArrivedOK'
  BY <1>1, <1>4, <1>9 DEF OrderOK, ArrivedOK
<1>12. ForwardedInOrder'
  <2>1. ASSUME NEW e \in Clients, NEW i \in 1..Len(delivered'[e])
        PROVE  /\ delivered'[e][i][1] # e
               /\ delivered'[e][i][2] # 0 => \A j \in 1..(i - 1) :
                    delivered'[e][j][1] = delivered'[e][i][1]
                    => delivered'[e][j][2] < delivered'[e][i][2]
    <3>1. CASE e = d
      BY <1>9, <1>10, <3>1
    <3>2. CASE e # d
      BY <1>4, <3>2 DEF OrderOK, ForwardedInOrder
    <3>3. QED
      BY <3>1, <3>2
  <2>2. QED
    BY <2>1 DEF ForwardedInOrder
<1>13. UnderWay(n)'
  <2>1. UnderWay(n)
    BY <1>2
  <2>2. Text(cur, got[cur] - n, n)' = Text(cur, got[cur] - n, n)
    BY <1>1 DEF Text, CharacterOf
  <2>3. \A e \in todo' : e \in todo /\ delivered'[e] = delivered[e]
    BY <1>1, <1>4 DEF TypeOK
  <2>4. QED
    BY <1>1, <2>1, <2>2, <2>3 DEF UnderWay
<1>14. StreamOK' /\ UnderWayOK'
  BY <1>1, <1>13 DEF OrderOK, StreamOK, UnderWayOK
<1>15. QED
  BY <1>11, <1>12, <1>14 DEF OrderOK

\* Every step keeps the order.
LEMMA ForwardingStep == TypeOK /\ RoundOK /\ OrderOK /\ [Next]_vars => OrderOK'
<1> SUFFICES ASSUME TypeOK, RoundOK, OrderOK, [Next]_vars
             PROVE  OrderOK'
  OBVIOUS
<1>1. ASSUME NEW c \in Clients, Connect(c) \/ ReadInfo(c) \/ Leave(c)
      PROVE  OrderOK'
  BY <1>1, QuietKeeps DEF Connect, ReadInfo, Leave, net_vars, server_vars
<1>2. ASSUME NEW c \in Clients, Accept(c) \/ ReadEof(c) \/ WriteFin(c)
      PROVE  OrderOK'
  BY <1>2, QuietKeeps DEF Accept, ReadEof, WriteFin, net_vars
<1>3. ASSUME NEW c \in Clients, ReadThrows(c) \/ WriteThrows(c)
      PROVE  OrderOK'
  BY <1>3, QuietKeeps DEF ReadThrows, WriteThrows, CloseSender
<1>4. CASE Select
  BY <1>4, QuietKeeps DEF Select, net_vars
<1>5. CASE Forwarded
  <2>1. cur' = NoOne /\ UNCHANGED <<said, stream, got, delivered>>
    BY <1>5 DEF Forwarded, net_vars
  <2>2. QED
    BY <2>1, QuietKeeps
<1>6. CASE UNCHANGED vars
  BY <1>6, QuietKeeps DEF vars
<1>7. QED
  BY <1>1, <1>2, <1>3, <1>4, <1>5, <1>6, SendKeeps, ReadKeeps, WriteKeeps
     DEF Next, ServerStep, ClientStep

\* However reads cut and merge lines, sockets take a part and exceptions cut loops short, what
\* every client gets of any one sender is in order and nothing comes twice, and never its own.
THEOREM OrderKept == Spec => []ForwardedInOrder
<1>1. Init => OrderOK
  BY DEF Init, OrderOK, StreamOK, UnderWayOK, ArrivedOK, ForwardedInOrder
<1>2. OrderOK => ForwardedInOrder
  BY DEF OrderOK
<1>3. QED
  BY <1>1, <1>2, ForwardingStep, TypeCorrect, PTL DEF Spec

------------------------------------------------------------------------------
(* What is forwarded are beginnings of decoded pieces of the streams *)

\* The text made of a read is the piece of the stream the abstract specification speaks of.
LEMMA TextIsPiece ==
  ASSUME NEW c, NEW from, NEW n
  PROVE  Text(c, from, n) = Forwarding!Piece(c, from, n)
BY Zenon DEF Text, CharacterOf, Forwarding!Piece, Forwarding!Character

\* A write forwards the beginning of the piece that is under way, or nothing.
LEMMA WriteForwards ==
  ASSUME TypeOK, RoundOK, OrderOK, NEW d \in Clients, WriteOpen(d)
  PROVE  Forwarding!Next \/ UNCHANGED Forwarding!lfvars
<1>1. d \in todo /\ stream' = stream
  BY DEF WriteOpen, net_vars
<1>2. CASE delivered' = delivered
  BY <1>1, <1>2 DEF Forwarding!lfvars
<1>3. CASE delivered' # delivered
  <2> DEFINE m == Fitting(unread[d])
  <2>1. PICK n \in 1..BufferSize :
          /\ cur \in Clients /\ cur # d /\ UnderWay(n) /\ got[cur] - n \in Nat /\ m \in 0..BufferSize
          /\ delivered' = [delivered EXCEPT ![d] = @ \o SubSeq(msg, 1, m)]
          /\ Len(delivered'[d]) = Len(delivered[d]) + m
    BY WriteAppends
  <2> DEFINE from == got[cur] - n
  <2>2. /\ n \in Nat /\ got[cur] \in Nat /\ Len(stream[cur]) \in Nat
        /\ got[cur] <= Len(stream[cur])
    BY <2>1, BoundsAssumption DEF TypeOK
  <2>3. from \in 0..Len(stream[cur]) /\ from + n <= Len(stream[cur])
    BY <2>1, <2>2
  <2>4. msg = Forwarding!Piece(cur, from, n)
    BY <2>1, TextIsPiece DEF UnderWay
  <2>5. \A i \in 1..Len(delivered[d]) : delivered[d][i][1] = cur => delivered[d][i][2] <= from
    BY <1>1, <2>1 DEF UnderWay
  <2>6. m # 0
    <3>1. SUFFICES ASSUME m = 0
                   PROVE  delivered' = delivered
      BY <1>3
    <3>2. msg \in Seq(Bytes) /\ delivered \in [Clients -> Seq(Bytes)]
      BY DEF TypeOK
    <3>3. SubSeq(msg, 1, 0) = <<>>
      BY <3>2
    <3>4. delivered[d] \o <<>> = delivered[d]
      BY <3>2
    <3>5. delivered' = [delivered EXCEPT ![d] = delivered[d] \o SubSeq(msg, 1, 0)]
      BY <2>1, <3>1, Zenon
    <3> HIDE DEF m
    <3>6. QED
      BY <3>2, <3>3, <3>4, <3>5
  <2> HIDE DEF m, from
  <2>7. m \in 1..BufferSize
    BY <2>1, <2>6, BoundsAssumption DEF m
  <2>8. delivered' = [delivered EXCEPT ![d] = @ \o SubSeq(Forwarding!Piece(cur, from, n), 1, m)]
    BY <2>1, <2>4, Zenon DEF m
  <2>9. Forwarding!Forward(cur, d, from, n, m)
    BY <1>1, <1>3, <2>1, <2>3, <2>5, <2>8, Zenon DEF Forwarding!Forward
  <2>10. QED
    BY <2>1, <2>3, <2>7, <2>9, Zenon DEF Forwarding!Next
<1>4. QED
  BY <1>2, <1>3

\* Sending a line is the abstract sending of its beginning.
LEMMA SendForwards ==
  ASSUME TypeOK, OrderOK, NEW c \in Clients, SendInfo(c)
  PROVE  Forwarding!Next
<1> DEFINE l == said[c] + 1
<1>1. PICK n \in 0..Len(Lines[c][l]) :
        stream' = [stream EXCEPT ![c] = @ \o [p \in 1..n |-> <<l, p>>]]
  BY DEF SendInfo
<1>2. l \in DOMAIN Lines[c]
  <2>1. said[c] \in Nat
    BY DEF TypeOK
  <2>2. Lines[c] \in Seq(Seq(Nat)) /\ Len(Lines[c]) \in Nat
    BY LinesAssumption
  <2>3. said[c] < Len(Lines[c])
    BY DEF SendInfo
  <2>4. l \in 1..Len(Lines[c])
    BY <2>1, <2>2, <2>3
  <2> HIDE DEF l
  <2>5. QED
    BY <2>2, <2>4
<1>3. \A i \in 1..Len(stream[c]) : stream[c][i][1] < l
  <2>1. ASSUME NEW i \in 1..Len(stream[c])
        PROVE  stream[c][i][1] < l
    <3>1. stream[c] \in Seq(Nat \X Nat) /\ said[c] \in Nat
      BY DEF TypeOK
    <3>2. stream[c][i] \in Nat \X Nat
      BY <3>1
    <3>3. stream[c][i][1] \in Nat /\ stream[c][i][1] <= said[c]
      BY <3>2 DEF OrderOK, StreamOK
    <3>4. QED
      BY <3>1, <3>3
  <2>2. QED
    BY <2>1
<1>4. delivered' = delivered
  BY DEF SendInfo
<1> HIDE DEF l
<1>5. Forwarding!Send(c)
  BY <1>1, <1>2, <1>3, <1>4, Zenon DEF Forwarding!Send
<1>6. QED
  BY <1>5 DEF Forwarding!Next

\* Every step of server and clients is a step of the forwarding or invisible.
LEMMA StepForwards ==
  TypeOK /\ RoundOK /\ OrderOK /\ [Next]_vars => [Forwarding!Next]_Forwarding!lfvars
<1> SUFFICES ASSUME TypeOK, RoundOK, OrderOK, [Next]_vars
             PROVE  Forwarding!Next \/ UNCHANGED Forwarding!lfvars
  OBVIOUS
<1>1. ASSUME NEW c \in Clients, Connect(c) \/ ReadInfo(c) \/ Leave(c) \/ Accept(c) \/ ReadEof(c)
             \/ WriteFin(c) \/ ReadData(c)
      PROVE  UNCHANGED Forwarding!lfvars
  BY <1>1 DEF Connect, ReadInfo, Leave, Accept, ReadEof, WriteFin, ReadData, net_vars,
     server_vars, Forwarding!lfvars
<1>2. ASSUME NEW c \in Clients, ReadThrows(c) \/ WriteThrows(c)
      PROVE  UNCHANGED Forwarding!lfvars
  BY <1>2 DEF ReadThrows, WriteThrows, Forwarding!lfvars
<1>3. CASE Select \/ Forwarded \/ UNCHANGED vars
  BY <1>3 DEF Select, Forwarded, net_vars, vars, Forwarding!lfvars
<1>4. QED
  BY <1>1, <1>2, <1>3, SendForwards, WriteForwards DEF Next, ServerStep, ClientStep

\* NioGroupChat implements LossyForward, for any clients, lines and sizes of buffers and sockets:
\* cut reads, partial writes and loops that end early never show a client anything but beginnings
\* of decoded pieces, each newer than the last of the same sender (lines 70-115).
THEOREM ImplementsForwarding == Spec => ForwardingSpec
<1>1. Init => Forwarding!Init
  BY DEF Init, Forwarding!Init
<1>2. Init => OrderOK
  BY DEF Init, OrderOK, StreamOK, UnderWayOK, ArrivedOK, ForwardedInOrder
<1>3. QED
  BY <1>1, <1>2, ForwardingStep, StepForwards, TypeCorrect, PTL
     DEF Spec, ForwardingSpec, Forwarding!Spec

------------------------------------------------------------------------------
(* What loses bytes *)

\* No client has ended, and every socket that is still to be written to has room for the string.
Calm == left = {} /\ \A d \in todo : unread[d] + BufferSize <= SendCap

\* Who the loop over the keys has been at has got all that was read.
ReachedAll ==
  cur # NoOne =>
    \A d \in keys \ ({cur} \cup todo) : \A i \in 1..Len(msg) :
      \E j \in 1..Len(delivered[d]) : delivered[d][j] = msg[i]

\* A write to a socket with room puts all of the string at the end of what was delivered.
LEMMA WriteReaches ==
  ASSUME TypeOK, RoundOK, NEW d \in Clients, WriteOpen(d), Calm
  PROVE  \A i \in 1..Len(msg) : \E j \in 1..Len(delivered'[d]) : delivered'[d][j] = msg[i]
<1> DEFINE b == delivered[d]
<1>1. b \in Seq(Bytes) /\ msg \in Seq(Bytes) /\ Len(b) \in Nat /\ Len(msg) \in Nat
  BY DEF TypeOK
<1>2. delivered'[d] = b \o msg
  <2>1. d \in todo /\ delivered' = [delivered EXCEPT ![d] = @ \o SubSeq(msg, 1, Fitting(unread[d]))]
    BY DEF WriteOpen
  <2>2. Len(msg) = BufferSize /\ unread[d] + BufferSize <= SendCap /\ unread[d] \in 0..SendCap
    BY <2>1 DEF TypeOK, RoundOK, Calm
  <2>3. Fitting(unread[d]) = Len(msg)
    BY <2>2, BoundsAssumption DEF Fitting
  <2>4. SubSeq(msg, 1, Len(msg)) = msg
    BY <1>1
  <2>5. delivered \in [Clients -> Seq(Bytes)]
    BY DEF TypeOK
  <2>6. QED
    BY <2>1, <2>3, <2>4, <2>5
<1> HIDE DEF b
<1>3. /\ Len(b \o msg) = Len(b) + Len(msg)
      /\ \A j \in 1..(Len(b) + Len(msg)) :
           (b \o msg)[j] = IF j <= Len(b) THEN b[j] ELSE msg[j - Len(b)]
  BY <1>1, ConcatProperties, Zenon
<1>4. ASSUME NEW i \in 1..Len(msg)
      PROVE  \E j \in 1..Len(b \o msg) : (b \o msg)[j] = msg[i]
  <2>1. /\ Len(b) + i \in 1..(Len(b) + Len(msg)) /\ ~(Len(b) + i <= Len(b))
        /\ (Len(b) + i) - Len(b) = i
    BY <1>1
  <2>2. (b \o msg)[Len(b) + i] = msg[i]
    BY <1>3, <2>1
  <2>3. QED
    BY <1>3, <2>1, <2>2
<1>5. QED
  BY <1>2, <1>4

\* In calm no write fails or is dropped.
LEMMA ReachedStep ==
  ASSUME TypeOK, RoundOK, NoneFailed, ReachedAll, Calm, [Next]_vars
  PROVE  ReachedAll'
<1>1. \A c \in Clients : net[c] \in {"none", "open"}
  BY DEF Calm, NoneFailed
<1> USE KeysAssumption DEF TypeOK, RoundOK, ReachedAll, net_vars, server_vars
<1>2. ASSUME NEW c \in Clients, ClientStep(c)
      PROVE  ReachedAll'
  <2>1. UNCHANGED <<delivered, server_vars>>
    BY <1>2 DEF ClientStep, Connect, SendInfo, ReadInfo, Leave
  <2>2. delivered' = delivered /\ keys' = keys /\ cur' = cur /\ msg' = msg /\ todo' = todo
    BY <2>1
  <2> HIDE DEF server_vars, TypeOK, RoundOK
  <2>3. QED
    BY <2>2
<1>3. CASE Select
  BY <1>3 DEF Select, AtSelect
<1>4. ASSUME NEW c \in Clients, Accept(c) \/ ReadEof(c)
      PROVE  ReachedAll'
  BY <1>4 DEF Accept, ReadEof
<1>5. ASSUME NEW c \in Clients, ReadData(c)
      PROVE  ReachedAll'
  <2>1. keys' \ ({cur'} \cup todo') = {}
    BY <1>5 DEF ReadData
  <2> HIDE DEF TypeOK, RoundOK
  <2>2. QED
    BY <2>1, Zenon
<1>6. ASSUME NEW d \in Clients, WriteOpen(d)
      PROVE  ReachedAll'
  <2>1. \A i \in 1..Len(msg) : \E j \in 1..Len(delivered'[d]) : delivered'[d][j] = msg[i]
    BY <1>6, WriteReaches
  <2>2. /\ \A e \in Clients \ {d} : delivered'[e] = delivered[e]
        /\ todo' = todo \ {d} /\ UNCHANGED <<keys, cur, msg>>
    BY <1>6 DEF WriteOpen
  <2>3. ASSUME cur' # NoOne, NEW e \in keys' \ ({cur'} \cup todo'), NEW i \in 1..Len(msg')
        PROVE  \E j \in 1..Len(delivered'[e]) : delivered'[e][j] = msg'[i]
    <3>1. CASE e = d
      <4>1. i \in 1..Len(msg)
        BY <2>2
      <4>2. \E j \in 1..Len(delivered'[d]) : delivered'[d][j] = msg[i]
        BY <2>1, <4>1
      <4>3. QED
        BY <2>2, <3>1, <4>2
    <3>2. CASE e # d
      <4>1. e \in Clients \ {d} /\ e \in keys \ ({cur} \cup todo) /\ cur # NoOne
        BY <2>2, <2>3, <3>2
      <4>2. i \in 1..Len(msg)
        BY <2>2
      <4>3. \E j \in 1..Len(delivered[e]) : delivered[e][j] = msg[i]
        BY <4>1, <4>2
      <4>4. delivered'[e] = delivered[e]
        BY <2>2, <4>1
      <4>5. QED
        BY <2>2, <4>3, <4>4, Zenon
    <3>3. QED
      BY <3>1, <3>2
  <2>4. QED
    BY <2>3
<1>7. ASSUME NEW d \in Clients, ReadThrows(d) \/ WriteFin(d) \/ WriteThrows(d)
      PROVE  FALSE
  BY <1>1, <1>7 DEF ReadThrows, WriteFin, WriteThrows
<1>8. CASE Forwarded
  BY <1>8 DEF Forwarded
<1>9. CASE UNCHANGED vars
  <2>1. delivered' = delivered /\ keys' = keys /\ cur' = cur /\ msg' = msg /\ todo' = todo
    BY <1>9 DEF vars
  <2> HIDE DEF TypeOK, RoundOK
  <2>2. QED
    BY <2>1
<1> HIDE DEF TypeOK, RoundOK, ReachedAll, net_vars, server_vars
<1>10. QED
  BY <1>2, <1>3, <1>4, <1>5, <1>6, <1>7, <1>8, <1>9 DEF Next, ServerStep

\* Only a client that ends or a full socket costs anyone a byte of the string: as long as there is
\* neither, the loop over selector.keys() reaches every other registered client with all of it (lines
\* 97-115; without the hypothesis it fails: an exception leaves the loop, and line 111 drops).
THEOREM CalmReachesAll == Spec /\ []Calm => []ReachedAll
<1>1. Init => NoneFailed /\ ReachedAll
  BY DEF Init, NoneFailed, ReachedAll
<1>2. TypeOK /\ RoundOK /\ NoneFailed /\ [Next]_vars => NoneFailed'
  BY NoneFailedStep
<1>3. TypeOK /\ RoundOK /\ NoneFailed /\ ReachedAll /\ Calm /\ [Next]_vars => ReachedAll'
  BY ReachedStep
<1>4. QED
  BY <1>1, <1>2, <1>3, TypeCorrect, PTL DEF Spec
================================================================================
