-------------------------- MODULE NettyGroupChatProofs --------------------------
(***************************************************************************)
(* Theorems about NettyGroupChat for any clients, event loops and messages. *)
(***************************************************************************)
EXTENDS NettyGroupChat, SequenceTheorems, TLAPS

\* The count of notices keeps to the channel's life.
Counted ==
  \A c \in Clients :
    /\ state[c] = "none" => said[c] = 0
    /\ state[c] = "adding" => said[c] <= 1
    /\ state[c] \in {"in", "closed"} => said[c] <= MaxSends[c] + 1
    /\ saying[c] => said[c] >= 1
    /\ todo[c] # {} => saying[c]

\* Nothing is written to a channel outside the group, and what is written about c is not
\* newer than the last notice, older than it for those the handler has yet to come to.
NotNewer ==
  /\ \A d \in Clients : state[d] # "in" => written[d] = <<>>
  /\ \A d \in Clients : \A i \in 1..Len(written[d]) :
       LET c == written[d][i][1]
           n == written[d][i][2]
       IN  n <= said[c] /\ (d \in todo[c] => n < said[c])

\* A notice is about a channel and carries a number.
LEMMA NoticeShape ==
  ASSUME NEW w \in Seq(Notices), NEW i \in 1..Len(w)
  PROVE  w[i][1] \in Clients /\ w[i][2] \in Nat
<1>1. w[i] \in Notices
  OBVIOUS
<1>2. PICK c \in Clients : w[i] \in {c} \X (1..LastNotice(c))
  BY <1>1 DEF Notices
<1>3. LastNotice(c) \in Nat
  BY BoundAssumption DEF LastNotice
<1>4. QED
  BY <1>2, <1>3

\* What every handler that announces does to the bookkeeping.
LEMMA SayType ==
  ASSUME TypeOK, NEW c \in Clients, Say(c), said[c] < LastNotice(c)
  PROVE  /\ said' \in [Clients -> Nat] /\ \A d \in Clients : said'[d] <= LastNotice(d)
         /\ saying' \in [Clients -> BOOLEAN]
         /\ todo' \in [Clients -> SUBSET Clients]
<1>1. LastNotice(c) \in Nat /\ said[c] \in Nat
  BY BoundAssumption DEF TypeOK, LastNotice
<1>2. said' \in [Clients -> Nat] /\ \A d \in Clients : said'[d] <= LastNotice(d)
  BY <1>1 DEF TypeOK, Say
<1>3. saying' \in [Clients -> BOOLEAN] /\ todo' \in [Clients -> SUBSET Clients]
  BY DEF TypeOK, Say
<1>4. QED
  BY <1>2, <1>3

\* A channel that is closed is in the group's past.
LEMMA CloseType ==
  ASSUME TypeOK, NEW c \in Clients, CloseChannel(c)
  PROVE  /\ state' \in [Clients -> {"none", "adding", "in", "closed", "removed"}]
         /\ group' \in SUBSET Clients
         /\ written' \in [Clients -> Seq(Notices)]
         /\ since' \in [Clients -> [Clients -> Nat]]
<1>1. <<>> \in Seq(Notices)
  OBVIOUS
<1>2. [d \in Clients |-> 0] \in [Clients -> Nat]
  OBVIOUS
<1>3. QED
  BY <1>1, <1>2 DEF TypeOK, CloseChannel

LEMMA TypeStep == TypeOK /\ Counted /\ [Next]_vars => TypeOK' /\ Counted'
<1> SUFFICES ASSUME TypeOK, Counted, [Next]_vars
             PROVE  TypeOK' /\ Counted'
  OBVIOUS
<1>0. \A c \in Clients : MaxSends[c] \in Nat /\ said[c] \in Nat /\ LastNotice(c) = MaxSends[c] + 2
  BY BoundAssumption DEF TypeOK, LastNotice
<1>1. ASSUME NEW c \in Clients, HandlerAdded(c)
      PROVE  TypeOK' /\ Counted'
  <2>1. said[c] = 0 /\ said[c] < LastNotice(c)
    BY <1>1, <1>0 DEF HandlerAdded, Counted
  <2>2. TypeOK'
    BY <1>1, <2>1, SayType DEF HandlerAdded, TypeOK
  <2>3. Counted'
    BY <1>0, <1>1, <2>1 DEF HandlerAdded, Say, Counted, TypeOK
  <2>4. QED
    BY <2>2, <2>3
<1>2. ASSUME NEW c \in Clients, ChannelRead(c)
      PROVE  TypeOK' /\ Counted'
  <2>1. said[c] <= MaxSends[c] /\ said[c] < LastNotice(c)
    BY <1>2, <1>0 DEF ChannelRead
  <2>2. TypeOK'
    BY <1>2, <2>1, SayType DEF ChannelRead, TypeOK
  <2>3. Counted'
    BY <1>0, <1>2, <2>1 DEF ChannelRead, Say, Counted, TypeOK
  <2>4. QED
    BY <2>2, <2>3
<1>3. ASSUME NEW c \in Clients, HandlerRemoved(c)
      PROVE  TypeOK' /\ Counted'
  <2>1. said[c] <= MaxSends[c] + 1 /\ said[c] < LastNotice(c)
    BY <1>3, <1>0 DEF HandlerRemoved, Counted
  <2>2. TypeOK'
    BY <1>3, <2>1, SayType DEF HandlerRemoved, TypeOK
  <2>3. Counted'
    BY <1>0, <1>3, <2>1 DEF HandlerRemoved, Say, Counted, TypeOK
  <2>4. QED
    BY <2>2, <2>3
<1>4. ASSUME NEW c \in Clients, Close(c)
      PROVE  TypeOK' /\ Counted'
  <2>1. TypeOK'
    BY <1>4, CloseType DEF Close, TypeOK
  <2>2. Counted'
    BY <1>4 DEF Close, CloseChannel, Counted, TypeOK
  <2>3. QED
    BY <2>1, <2>2
<1>5. ASSUME NEW c \in Clients, Add(c)
      PROVE  TypeOK' /\ Counted'
  <2>1. PICK met \in SUBSET {d \in Clients : saying[d] /\ d # c} :
          todo' = [d \in Clients |-> IF d \in met THEN todo[d] \cup {c} ELSE todo[d]]
    BY <1>5 DEF Add
  <2>2. TypeOK'
    BY <1>5, <2>1 DEF Add, TypeOK
  <2>3. ASSUME NEW d \in Clients
        PROVE  todo'[d] # {} => saying'[d]
    BY <1>5, <2>1 DEF Add, Counted, TypeOK
  <2>4. Counted'
    BY <1>0, <1>5, <2>3 DEF Add, Counted, TypeOK
  <2>5. QED
    BY <2>2, <2>4
<1>6. ASSUME NEW c \in Clients, Said(c)
      PROVE  TypeOK' /\ Counted'
  BY <1>6 DEF Said, TypeOK, Counted
<1>7. ASSUME NEW c \in Clients, NEW d \in Clients, Write(c, d)
      PROVE  TypeOK' /\ Counted'
  <2>1. said[c] >= 1 /\ said[c] \in 1..LastNotice(c)
    BY <1>0, <1>7 DEF Write, Counted, TypeOK
  <2>2. <<c, said[c]>> \in Notices
    BY <2>1 DEF Notices
  <2>3. written' \in [Clients -> Seq(Notices)]
    BY <1>7, <2>2 DEF Write, TypeOK
  <2>4. QED
    BY <1>7, <2>3 DEF Write, TypeOK, Counted
<1>8. ASSUME NEW c \in Clients, NEW d \in Clients, WriteFails(c, d)
      PROVE  TypeOK' /\ Counted'
  <2>1. TypeOK'
    BY <1>8, CloseType DEF WriteFails, TypeOK
  <2>2. Counted'
    BY <1>8 DEF WriteFails, CloseChannel, Counted, TypeOK
  <2>3. QED
    BY <2>1, <2>2
<1>9. CASE UNCHANGED vars
  BY <1>9 DEF vars, TypeOK, Counted
<1>10. QED
  BY <1>1, <1>2, <1>3, <1>4, <1>5, <1>6, <1>7, <1>8, <1>9 DEF Next, LoopStep

\* The types hold, and no channel is spoken of more often than its life allows.
THEOREM TypeCorrect == Spec => [](TypeOK /\ Counted)
<1>1. Init => TypeOK /\ Counted
  BY BoundAssumption DEF Init, TypeOK, Counted, LastNotice
<1>2. QED
  BY <1>1, TypeStep, PTL DEF Spec

\* An announcement raises the last notice above all that is written.
LEMMA SayKeeps ==
  ASSUME TypeOK, NotNewer, ToldInOrder, NEW c \in Clients, Say(c),
         UNCHANGED written,
         \A d \in Clients : state[d] = "in" => state'[d] = "in"
  PROVE  NotNewer' /\ ToldInOrder'
<1>1. \A d \in Clients : \A i \in 1..Len(written[d]) :
        written[d][i][1] \in Clients /\ written[d][i][2] \in Nat
  BY NoticeShape DEF TypeOK
<1>2. \A d \in Clients : said'[d] = IF d = c THEN said[d] + 1 ELSE said[d]
  BY DEF TypeOK, Say
<1>3. \A d \in Clients : d # c => todo'[d] = todo[d]
  BY DEF TypeOK, Say
<1>4. \A d \in Clients : said[d] \in Nat
  BY DEF TypeOK
<1>5. ASSUME NEW d \in Clients, NEW i \in 1..Len(written[d])
      PROVE  /\ written[d][i][2] <= said'[written[d][i][1]]
             /\ d \in todo'[written[d][i][1]] => written[d][i][2] < said'[written[d][i][1]]
  <2> DEFINE b == written[d][i][1]
             n == written[d][i][2]
  <2>1. b \in Clients /\ n \in Nat /\ said[b] \in Nat
    BY <1>1, <1>4
  <2>2. n <= said[b] /\ (d \in todo[b] => n < said[b])
    BY DEF NotNewer
  <2> HIDE DEF b, n
  <2>3. n <= said'[b] /\ (d \in todo'[b] => n < said'[b])
    BY <1>2, <1>3, <2>1, <2>2
  <2>4. QED
    BY <2>3 DEF b, n
<1>6. QED
  BY <1>5 DEF NotNewer, ToldInOrder

\* Closing a channel leaves the others as they are told.
LEMMA CloseKeeps ==
  ASSUME TypeOK, NotNewer, ToldInOrder, NEW c \in Clients, CloseChannel(c),
         UNCHANGED said, \A x \in Clients : todo'[x] \subseteq todo[x]
  PROVE  NotNewer' /\ ToldInOrder'
<1>1. \A d \in Clients : written'[d] = IF d = c THEN <<>> ELSE written[d]
  BY DEF TypeOK, CloseChannel
<1>2. \A d \in Clients : state'[d] = IF d = c THEN "closed" ELSE state[d]
  BY DEF TypeOK, CloseChannel
<1>3. \A d \in Clients : \A i \in 1..Len(written[d]) : written[d][i][1] \in Clients
  BY NoticeShape DEF TypeOK
<1>4. Len(<<>>) = 0
  OBVIOUS
<1>5. QED
  BY <1>1, <1>2, <1>3, <1>4 DEF NotNewer, ToldInOrder

LEMMA OrderStep ==
  TypeOK /\ Counted /\ NotNewer /\ ToldInOrder /\ [Next]_vars => NotNewer' /\ ToldInOrder'
<1> SUFFICES ASSUME TypeOK, Counted, NotNewer, ToldInOrder, [Next]_vars
             PROVE  NotNewer' /\ ToldInOrder'
  OBVIOUS
<1>1. ASSUME NEW c \in Clients, HandlerAdded(c) \/ ChannelRead(c) \/ HandlerRemoved(c)
      PROVE  NotNewer' /\ ToldInOrder'
  <2>1. Say(c) /\ UNCHANGED written
    BY <1>1 DEF HandlerAdded, ChannelRead, HandlerRemoved
  <2>2. \A d \in Clients : state[d] = "in" => state'[d] = "in"
    BY <1>1 DEF HandlerAdded, ChannelRead, HandlerRemoved, TypeOK
  <2>3. QED
    BY <2>1, <2>2, SayKeeps
<1>2. ASSUME NEW c \in Clients, Close(c)
      PROVE  NotNewer' /\ ToldInOrder'
  BY <1>2, CloseKeeps DEF Close
<1>3. ASSUME NEW c \in Clients, NEW d \in Clients, WriteFails(c, d)
      PROVE  NotNewer' /\ ToldInOrder'
  <2>1. \A x \in Clients : todo'[x] \subseteq todo[x]
    BY <1>3 DEF WriteFails, TypeOK
  <2>2. QED
    BY <1>3, <2>1, CloseKeeps DEF WriteFails
<1>4. ASSUME NEW c \in Clients, Add(c)
      PROVE  NotNewer' /\ ToldInOrder'
  <2>1. written[c] = <<>>
    BY <1>4 DEF Add, NotNewer
  <2>2. \A x \in Clients : todo'[x] \subseteq todo[x] \cup {c}
    BY <1>4 DEF Add
  <2>3. \A d \in Clients : state'[d] # "in" => state[d] # "in"
    BY <1>4 DEF Add, TypeOK
  <2>4. UNCHANGED <<said, written>>
    BY <1>4 DEF Add
  <2>5. \A d \in Clients : \A i \in 1..Len(written[d]) : d # c /\ written[d][i][1] \in Clients
    BY <2>1, NoticeShape DEF TypeOK
  <2>6. QED
    BY <2>2, <2>3, <2>4, <2>5 DEF NotNewer, ToldInOrder
<1>5. ASSUME NEW c \in Clients, Said(c)
      PROVE  NotNewer' /\ ToldInOrder'
  BY <1>5 DEF Said, NotNewer, ToldInOrder
<1>6. ASSUME NEW c \in Clients, NEW d \in Clients, Write(c, d)
      PROVE  NotNewer' /\ ToldInOrder'
  <2>1. \A x \in Clients : todo'[x] = IF x = c THEN todo[x] \ {d} ELSE todo[x]
    BY <1>6 DEF Write, TypeOK
  <2>2. UNCHANGED <<state, said>>
    BY <1>6 DEF Write
  <2>3. \A e \in Clients : \A i \in 1..Len(written[e]) :
          written[e][i][1] \in Clients /\ written[e][i][2] \in Nat
    BY NoticeShape DEF TypeOK
  <2>4. CASE state[d] # "in"
    <3>1. written' = written
      BY <1>6, <2>4 DEF Write
    <3>2. QED
      BY <2>1, <2>2, <2>3, <3>1 DEF NotNewer, ToldInOrder
  <2>5. CASE state[d] = "in"
    <3>1. \A e \in Clients : e # d => written'[e] = written[e]
      BY <1>6, <2>5 DEF Write, TypeOK
    <3>2. written'[d] = Append(written[d], <<c, said[c]>>)
      BY <1>6, <2>5 DEF Write, TypeOK
    <3>3. written[d] \in Seq(Notices) /\ said[c] \in Nat
      BY DEF TypeOK
    <3>4. /\ Len(written'[d]) = Len(written[d]) + 1
          /\ Len(written[d]) \in Nat
          /\ \A i \in 1..Len(written[d]) : written'[d][i] = written[d][i]
          /\ written'[d][Len(written[d]) + 1] = <<c, said[c]>>
      BY <3>2, <3>3
    <3>5. \A i \in 1..Len(written[d]) : written[d][i][1] = c => written[d][i][2] < said[c]
      BY <1>6 DEF Write, NotNewer
    <3>6. ASSUME NEW e \in Clients, NEW i \in 1..Len(written'[e])
          PROVE  /\ written'[e][i][2] <= said[written'[e][i][1]]
                 /\ e \in todo'[written'[e][i][1]] => written'[e][i][2] < said[written'[e][i][1]]
      <4>1. CASE e # d
        <5> DEFINE b == written[e][i][1]
                   n == written[e][i][2]
        <5>1. written'[e] = written[e] /\ i \in 1..Len(written[e])
          BY <4>1, <3>1
        <5>2. b \in Clients /\ n <= said[b] /\ (e \in todo[b] => n < said[b])
          BY <2>3, <5>1 DEF NotNewer
        <5> HIDE DEF b, n
        <5>3. e \in todo'[b] => e \in todo[b]
          BY <2>1, <5>2
        <5>4. n <= said[b] /\ (e \in todo'[b] => n < said[b])
          BY <5>2, <5>3
        <5>5. QED
          BY <5>1, <5>4 DEF b, n
      <4>2. CASE e = d /\ i \in 1..Len(written[d])
        BY <4>2, <2>1, <2>3, <3>4 DEF NotNewer
      <4>3. CASE e = d /\ i = Len(written[d]) + 1
        <5>1. written'[e][i] = <<c, said[c]>>
          BY <4>3, <3>4
        <5>2. d \notin todo'[c]
          BY <2>1
        <5>3. QED
          BY <4>3, <3>3, <5>1, <5>2
      <4>4. QED
        BY <4>1, <4>2, <4>3, <3>4
    <3>7. NotNewer'
      BY <2>2, <2>5, <3>1, <3>6 DEF NotNewer
    <3>8. ASSUME NEW e \in Clients, NEW i \in 1..Len(written'[e]), NEW j \in 1..(i - 1),
                 written'[e][j][1] = written'[e][i][1]
          PROVE  written'[e][j][2] < written'[e][i][2]
      <4>1. CASE e # d
        BY <4>1, <3>1, <3>8 DEF ToldInOrder
      <4>2. CASE e = d /\ i \in 1..Len(written[d])
        <5>1. j \in 1..Len(written[d])
          BY <4>2, <3>4
        <5>2. QED
          BY <4>2, <5>1, <3>4, <3>8 DEF ToldInOrder
      <4>3. CASE e = d /\ i = Len(written[d]) + 1
        <5>1. j \in 1..Len(written[d])
          BY <4>3, <3>4
        <5>2. QED
          BY <4>3, <5>1, <3>4, <3>5, <3>8
      <4>4. QED
        BY <4>1, <4>2, <4>3, <3>4
    <3>9. QED
      BY <3>7, <3>8 DEF ToldInOrder
  <2>6. QED
    BY <2>4, <2>5
<1>7. CASE UNCHANGED vars
  BY <1>7 DEF vars, NotNewer, ToldInOrder
<1>8. QED
  BY <1>1, <1>2, <1>3, <1>4, <1>5, <1>6, <1>7 DEF Next, LoopStep

\* Whatever the channels and their loops, each client is told of another's joining,
\* messages and leaving in order and once.
THEOREM OrderKept == Spec => []ToldInOrder
<1>1. Init => NotNewer /\ ToldInOrder
  BY DEF Init, NotNewer, ToldInOrder
<1>2. QED
  BY <1>1, TypeCorrect, OrderStep, PTL DEF Spec

------------------------------------------------------------------------------
(* Members miss nothing *)

\* The group is the channels that were added and not closed; nobody was added in the future.
MembersOK ==
  /\ \A d \in Clients : d \in group <=> state[d] = "in"
  /\ \A d \in group, c \in Clients : since[d][c] <= said[c]

\* What a member d has been told of c, and what it has still to be told.
Complete(d, c) ==
  /\ \A n \in (since[d][c] + 1)..said[c] :
       <<c, n>> \in Heard(d) \/ (n = said[c] /\ saying[c] /\ d \in todo[c])
  /\ \A n \in 1..said[c] : <<c, n>> \in Heard(d) => n >= since[d][c]

\* A step that says nothing new of c to d's disadvantage.
LEMMA CompleteKeeps ==
  ASSUME NEW d \in Clients, NEW c \in Clients, Complete(d, c),
         since'[d] = since[d], said'[c] = said[c], written'[d] = written[d],
         d \in todo[c] => saying'[c] = saying[c] /\ d \in todo'[c]
  PROVE  Complete(d, c)'
<1>1. Heard(d)' = Heard(d)
  BY DEF Heard
<1>2. QED
  BY <1>1 DEF Complete

\* A new notice is still to be told to the whole group, and the one before has been told.
LEMMA SayCompletes ==
  ASSUME TypeOK, MembersOK, MembersMissNothing, NEW c \in Clients, Say(c), LoopFree(c),
         UNCHANGED <<group, written, since>>,
         \A d \in Clients : state'[d] = "in" <=> state[d] = "in"
  PROVE  MembersOK' /\ MembersMissNothing'
<1>1. ~saying[c]
  BY DEF LoopFree
<1>2. /\ said[c] \in Nat /\ said'[c] = said[c] + 1 /\ saying'[c] = TRUE /\ todo'[c] = group
      /\ \A b \in Clients : b # c =>
           said'[b] = said[b] /\ saying'[b] = saying[b] /\ todo'[b] = todo[b]
  BY DEF Say, TypeOK
<1>3. group \subseteq Clients /\ \A d \in Clients, b \in Clients : since[d][b] \in Nat
  BY DEF TypeOK
<1>4. MembersOK'
  <2>1. \A d \in group, b \in Clients : since[d][b] <= said'[b]
    <3> SUFFICES ASSUME NEW d \in group, NEW b \in Clients
                 PROVE  since[d][b] <= said'[b]
      OBVIOUS
    <3>1. since[d][b] <= said[b] /\ since[d][b] \in Nat /\ d \in Clients
      BY <1>3 DEF MembersOK
    <3>2. QED
      BY <1>2, <3>1
  <2>2. QED
    BY <2>1 DEF MembersOK
<1>5. ASSUME NEW d \in group, NEW b \in Clients
      PROVE  Complete(d, b)'
  <2>1. d \in Clients /\ Complete(d, b)
    BY <1>3 DEF MembersMissNothing, Complete
  <2>2. CASE b # c
    BY <1>2, <2>1, <2>2, CompleteKeeps
  <2>3. CASE b = c
    <3>1. Heard(d)' = Heard(d)
      BY DEF Heard
    <3>2. since[d][c] \in Nat /\ since[d][c] <= said[c]
      BY <1>3, <2>1 DEF MembersOK
    <3>3. ASSUME NEW n \in (since[d][c] + 1)..(said[c] + 1)
          PROVE  <<c, n>> \in Heard(d) \/ n = said[c] + 1
      BY <1>1, <1>2, <2>1, <2>3, <3>2 DEF Complete
    <3>4. ASSUME NEW n \in 1..(said[c] + 1), <<c, n>> \in Heard(d)
          PROVE  n >= since[d][c]
      BY <1>2, <2>1, <2>3, <3>2, <3>4 DEF Complete
    <3>5. QED
      BY <1>2, <2>3, <3>1, <3>3, <3>4 DEF Complete
  <2>4. QED
    BY <2>2, <2>3
<1>6. QED
  BY <1>4, <1>5 DEF MembersMissNothing, Complete

\* A channel that is closed is no member any more; nothing changes for the others.
LEMMA CloseCompletes ==
  ASSUME TypeOK, MembersOK, MembersMissNothing, NEW c \in Clients, CloseChannel(c),
         UNCHANGED <<said, saying>>,
         \A b \in Clients : todo[b] \ {c} \subseteq todo'[b]
  PROVE  MembersOK' /\ MembersMissNothing'
<1>1. /\ group' = group \ {c} /\ group \subseteq Clients
      /\ \A d \in Clients : d # c =>
           state'[d] = state[d] /\ written'[d] = written[d] /\ since'[d] = since[d]
      /\ state'[c] = "closed"
  BY DEF CloseChannel, TypeOK
<1>2. MembersOK'
  BY <1>1 DEF MembersOK
<1>3. ASSUME NEW d \in group', NEW b \in Clients
      PROVE  Complete(d, b)'
  <2>1. d \in Clients /\ d # c /\ Complete(d, b)
    BY <1>1 DEF MembersMissNothing, Complete
  <2>2. QED
    BY <1>1, <2>1, CompleteKeeps
<1>4. QED
  BY <1>2, <1>3 DEF MembersMissNothing, Complete

\* Every step keeps the group told.
LEMMA CompleteStep ==
  /\ TypeOK /\ Counted /\ NotNewer /\ MembersOK /\ MembersMissNothing /\ [Next]_vars
  => MembersOK' /\ MembersMissNothing'
<1> SUFFICES ASSUME TypeOK, Counted, NotNewer, MembersOK, MembersMissNothing, [Next]_vars
             PROVE  MembersOK' /\ MembersMissNothing'
  OBVIOUS
<1>0. group \subseteq Clients /\ \A d \in group, c \in Clients : Complete(d, c)
  BY DEF TypeOK, MembersMissNothing, Complete
<1>1. ASSUME NEW c \in Clients, HandlerAdded(c) \/ ChannelRead(c) \/ HandlerRemoved(c)
      PROVE  MembersOK' /\ MembersMissNothing'
  <2>1. Say(c) /\ LoopFree(c) /\ UNCHANGED <<group, written, since>>
    BY <1>1 DEF HandlerAdded, ChannelRead, HandlerRemoved
  <2>2. \A d \in Clients : state'[d] = "in" <=> state[d] = "in"
    BY <1>1 DEF HandlerAdded, ChannelRead, HandlerRemoved, TypeOK
  <2>3. QED
    BY <2>1, <2>2, SayCompletes
<1>2. ASSUME NEW c \in Clients, Close(c)
      PROVE  MembersOK' /\ MembersMissNothing'
  BY <1>2, CloseCompletes DEF Close
<1>3. ASSUME NEW c \in Clients, NEW d \in Clients, WriteFails(c, d)
      PROVE  MembersOK' /\ MembersMissNothing'
  <2>1. \A b \in Clients : todo[b] \ {d} \subseteq todo'[b]
    BY <1>3 DEF WriteFails, TypeOK
  <2>2. QED
    BY <1>3, <2>1, CloseCompletes DEF WriteFails
<1>4. ASSUME NEW c \in Clients, Add(c)
      PROVE  MembersOK' /\ MembersMissNothing'
  <2>1. /\ group' = group \cup {c} /\ todo[c] = {} /\ UNCHANGED <<said, written>>
        /\ \A d \in Clients : d # c => since'[d] = since[d] /\ saying'[d] = saying[d]
                                       /\ state'[d] = state[d]
        /\ since'[c] = said /\ state'[c] = "in"
        /\ \A d \in Clients : todo[d] \subseteq todo'[d]
    BY <1>4 DEF Add, TypeOK
  <2>2. state[c] # "in" /\ written[c] = <<>> /\ c \notin group
    BY <1>4 DEF Add, NotNewer, MembersOK
  <2>3. \A b \in Clients : said[b] \in Nat
    BY DEF TypeOK
  <2>4. MembersOK'
    BY <1>0, <2>1, <2>2, <2>3 DEF MembersOK
  <2>5. ASSUME NEW d \in group', NEW b \in Clients
        PROVE  Complete(d, b)'
    <3>1. CASE d = c
      <4>1. Heard(c)' = {}
        BY <2>1, <2>2 DEF Heard
      <4>2. QED
        BY <2>1, <2>3, <3>1, <4>1 DEF Complete
    <3>2. CASE d # c
      BY <1>0, <2>1, <3>2, CompleteKeeps
    <3>3. QED
      BY <3>1, <3>2
  <2>6. QED
    BY <2>4, <2>5 DEF MembersMissNothing, Complete
<1>5. ASSUME NEW c \in Clients, Said(c)
      PROVE  MembersOK' /\ MembersMissNothing'
  <2>1. /\ UNCHANGED <<state, group, said, todo, written, since>> /\ todo[c] = {}
        /\ \A b \in Clients : b # c => saying'[b] = saying[b]
    BY <1>5 DEF Said, TypeOK
  <2>2. \A d \in group, b \in Clients : Complete(d, b)'
    BY <1>0, <2>1, CompleteKeeps
  <2>3. QED
    BY <2>1, <2>2 DEF MembersOK, MembersMissNothing, Complete
<1>6. ASSUME NEW c \in Clients, NEW d \in Clients, Write(c, d)
      PROVE  MembersOK' /\ MembersMissNothing'
  <2>1. /\ UNCHANGED <<state, group, said, saying, since>>
        /\ \A b \in Clients : todo'[b] = IF b = c THEN todo[b] \ {d} ELSE todo[b]
    BY <1>6 DEF Write, TypeOK
  <2>2. MembersOK'
    BY <2>1 DEF MembersOK
  <2>3. ASSUME NEW e \in group, NEW b \in Clients
        PROVE  Complete(e, b)'
    <3>1. e \in Clients /\ Complete(e, b) /\ state[e] = "in"
      BY <1>0 DEF MembersOK
    <3>2. CASE e # d
      <4>1. written'[e] = written[e]
        BY <1>6, <3>1, <3>2 DEF Write, TypeOK
      <4>2. QED
        BY <2>1, <3>1, <3>2, <4>1, CompleteKeeps
    <3>3. CASE e = d
      <4>1. written'[d] = Append(written[d], <<c, said[c]>>)
        BY <1>6, <3>1, <3>3 DEF Write, TypeOK
      <4>2. written[d] \in Seq(Notices)
        BY DEF TypeOK
      <4>3. /\ Len(written'[d]) = Len(written[d]) + 1 /\ Len(written[d]) \in Nat
            /\ \A i \in 1..Len(written[d]) : written'[d][i] = written[d][i]
            /\ written'[d][Len(written[d]) + 1] = <<c, said[c]>>
        BY <4>1, <4>2
      <4>4. Heard(d)' = Heard(d) \cup {<<c, said[c]>>}
        <5>1. ASSUME NEW x \in Heard(d)'
              PROVE  x \in Heard(d) \cup {<<c, said[c]>>}
          <6>1. PICK i \in 1..Len(written'[d]) : x = written'[d][i]
            BY <5>1 DEF Heard
          <6>2. CASE i \in 1..Len(written[d])
            BY <4>3, <6>1, <6>2 DEF Heard
          <6>3. CASE i = Len(written[d]) + 1
            BY <4>3, <6>1, <6>3
          <6>4. QED
            BY <4>3, <6>1, <6>2, <6>3
        <5>2. ASSUME NEW x \in Heard(d) \cup {<<c, said[c]>>}
              PROVE  x \in Heard(d)'
          BY <4>3 DEF Heard
        <5>3. QED
          BY <5>1, <5>2
      <4>5. since[d][c] <= said[c]
        BY <3>3 DEF MembersOK
      <4>6. ASSUME NEW n \in (since[d][b] + 1)..said[b]
            PROVE  <<b, n>> \in Heard(d)' \/ (n = said[b] /\ saying[b] /\ d \in todo'[b])
        <5>1. <<b, n>> \in Heard(d) \/ (n = said[b] /\ saying[b] /\ d \in todo[b])
          BY <3>1, <3>3 DEF Complete
        <5>2. QED
          BY <2>1, <4>4, <5>1
      <4>7. ASSUME NEW n \in 1..said[b], <<b, n>> \in Heard(d)'
            PROVE  n >= since[d][b]
        <5>1. CASE <<b, n>> \in Heard(d)
          BY <3>1, <3>3, <5>1 DEF Complete
        <5>2. CASE b = c /\ n = said[c]
          BY <4>5, <5>2
        <5>3. QED
          BY <4>4, <4>7, <5>1, <5>2
      <4>8. QED
        BY <2>1, <3>3, <4>6, <4>7 DEF Complete
    <3>4. QED
      BY <3>2, <3>3
  <2>4. QED
    BY <2>1, <2>2, <2>3 DEF MembersMissNothing, Complete
<1>7. CASE UNCHANGED vars
  <2>1. \A d \in group, b \in Clients : Complete(d, b)'
    BY <1>0, <1>7, CompleteKeeps DEF vars
  <2>2. QED
    BY <1>7, <2>1 DEF vars, MembersOK, MembersMissNothing, Complete
<1>8. QED
  BY <1>1, <1>2, <1>3, <1>4, <1>5, <1>6, <1>7 DEF Next, LoopStep

\* A member is told of everything that is begun to be said after it was added, and of
\* nothing older than what was being said then.
THEOREM NothingMissed == Spec => []MembersMissNothing
<1>1. Init => NotNewer /\ ToldInOrder /\ MembersOK /\ MembersMissNothing
  BY DEF Init, NotNewer, ToldInOrder, MembersOK, MembersMissNothing
<1>2. QED
  BY <1>1, TypeCorrect, OrderStep, CompleteStep, PTL DEF Spec

------------------------------------------------------------------------------
(* Neighbours: channels that share an event loop *)

\* The handlers of one loop run one at a time (each @ChannelHandler callback is a task
\* of the channel's loop).
OneHandlerPerLoop ==
  \A c, d \in Clients : saying[c] /\ saying[d] /\ LoopOf[c] = LoopOf[d] => c = d

\* What the loop makes of two joins on it: whoever is added second was not yet spoken of
\* when the first was added.
NeighboursMet ==
  /\ \A c \in Clients : state[c] = "adding" => saying[c]
  /\ \A c \in Clients : state[c] = "in" => said[c] >= 1 /\ (saying[c] => said[c] >= 2)
  /\ \A c \in Clients, d \in group :
       LoopOf[c] = LoopOf[d] /\ state[c] \in {"none", "adding"} => since[d][c] = 0
  /\ \A c, d \in group : LoopOf[c] = LoopOf[d] /\ c # d => since[d][c] = 0 \/ since[c][d] = 0

\* Of two members on one loop, one was told of the other's joining.
NeighboursTold ==
  \A c, d \in group :
    LoopOf[c] = LoopOf[d] /\ c # d => <<c, 1>> \in Heard(d) \/ <<d, 1>> \in Heard(c)

\* Once handlerRemoved has returned, every member that was added before it spoke has been
\* told of the leaving.
LeaversTold ==
  \A c \in Clients, d \in group :
    state[c] = "removed" /\ ~saying[c] /\ since[d][c] < said[c] => <<c, said[c]>> \in Heard(d)

\* A handler starts only where no other runs.
LEMMA HandlerStep == TypeOK /\ OneHandlerPerLoop /\ [Next]_vars => OneHandlerPerLoop'
<1> SUFFICES ASSUME TypeOK, OneHandlerPerLoop, [Next]_vars
             PROVE  OneHandlerPerLoop'
  OBVIOUS
<1>1. ASSUME NEW c \in Clients, HandlerAdded(c) \/ ChannelRead(c) \/ HandlerRemoved(c)
      PROVE  OneHandlerPerLoop'
  <2>1. LoopFree(c) /\ \A b \in Clients : b # c => saying'[b] = saying[b]
    BY <1>1 DEF HandlerAdded, ChannelRead, HandlerRemoved, Say, TypeOK
  <2>2. QED
    BY <2>1 DEF OneHandlerPerLoop, LoopFree
<1>2. ASSUME NEW c \in Clients, Close(c) \/ LoopStep(c), ~HandlerRemoved(c)
      PROVE  OneHandlerPerLoop'
  <2>1. \A b \in Clients : saying'[b] => saying[b]
    BY <1>2 DEF Close, LoopStep, Add, Said, Write, WriteFails, TypeOK
  <2>2. QED
    BY <2>1 DEF OneHandlerPerLoop
<1>3. CASE UNCHANGED vars
  BY <1>3 DEF vars, OneHandlerPerLoop
<1>4. QED
  BY <1>1, <1>2, <1>3 DEF Next, LoopStep

\* Closing a channel takes it from the group and changes nothing between the others.
LEMMA CloseNeighbours ==
  ASSUME TypeOK, NeighboursMet, NEW c \in Clients, CloseChannel(c), UNCHANGED <<said, saying>>
  PROVE  NeighboursMet'
<1>1. /\ group' = group \ {c} /\ group \subseteq Clients /\ state'[c] = "closed"
      /\ \A b \in Clients : b # c => state'[b] = state[b] /\ since'[b] = since[b]
  BY DEF CloseChannel, TypeOK
<1>2. QED
  BY <1>1 DEF NeighboursMet

\* A handler that announces moves no channel into or out of the group.
LEMMA SayNeighbours ==
  ASSUME TypeOK, Counted, NeighboursMet, NEW c \in Clients,
         HandlerAdded(c) \/ ChannelRead(c) \/ HandlerRemoved(c)
  PROVE  NeighboursMet'
<1>1. /\ said[c] \in Nat /\ said'[c] = said[c] + 1 /\ saying'[c] = TRUE
      /\ UNCHANGED <<group, since>>
      /\ \A b \in Clients : b # c =>
           said'[b] = said[b] /\ saying'[b] = saying[b] /\ state'[b] = state[b]
  BY DEF HandlerAdded, ChannelRead, HandlerRemoved, Say, TypeOK
<1>2. /\ state'[c] \in {"none", "adding"} => state[c] \in {"none", "adding"}
      /\ state'[c] = "in" => state[c] = "in"
  BY DEF HandlerAdded, ChannelRead, HandlerRemoved, TypeOK
<1>3. \A b \in Clients : state'[b] = "adding" => saying'[b]
  BY <1>1 DEF NeighboursMet
<1>4. ASSUME NEW b \in Clients, state'[b] = "in"
      PROVE  said'[b] >= 1 /\ (saying'[b] => said'[b] >= 2)
  <2>1. CASE b = c
    <3>1. said[c] >= 1
      BY <1>2, <1>4, <2>1 DEF NeighboursMet
    <3>2. said'[c] >= 1 /\ said'[c] >= 2
      BY <1>1, <3>1
    <3>3. QED
      BY <2>1, <3>2
  <2>2. CASE b # c
    BY <1>1, <1>4, <2>2 DEF NeighboursMet
  <2>3. QED
    BY <2>1, <2>2
<1>5. \A b \in Clients, d \in group' :
        LoopOf[b] = LoopOf[d] /\ state'[b] \in {"none", "adding"} => since'[d][b] = 0
  BY <1>1, <1>2 DEF NeighboursMet
<1>6. \A b, d \in group' :
        LoopOf[b] = LoopOf[d] /\ b # d => since'[d][b] = 0 \/ since'[b][d] = 0
  BY <1>1 DEF NeighboursMet
<1>7. QED
  BY <1>3, <1>4, <1>5, <1>6 DEF NeighboursMet

\* The channel that is added is alone at work on its loop, so no neighbour is between its
\* announcement and its own adding.
LEMMA AddNeighbours ==
  ASSUME TypeOK, Counted, OneHandlerPerLoop, NeighboursMet, NEW c \in Clients, Add(c)
  PROVE  NeighboursMet'
<1>1. /\ group' = group \cup {c} /\ group \subseteq Clients /\ said' = said
      /\ since'[c] = said /\ state[c] = "adding" /\ state'[c] = "in" /\ saying'[c] = FALSE
      /\ \A b \in Clients : b # c =>
           since'[b] = since[b] /\ state'[b] = state[b] /\ saying'[b] = saying[b]
  BY DEF Add, TypeOK
<1>2. saying[c]
  BY <1>1 DEF NeighboursMet
<1>3. said[c] >= 1
  BY <1>2 DEF Counted
<1>4. ASSUME NEW b \in Clients, b # c, LoopOf[b] = LoopOf[c], state[b] \in {"none", "adding"}
      PROVE  said[b] = 0
  <2>1. ~saying[b]
    BY <1>2, <1>4 DEF OneHandlerPerLoop
  <2>2. state[b] = "none"
    BY <1>4, <2>1 DEF NeighboursMet
  <2>3. QED
    BY <2>2 DEF Counted
<1>5. \A b \in Clients : state'[b] = "adding" => saying'[b]
  BY <1>1 DEF NeighboursMet
<1>6. ASSUME NEW b \in Clients, state'[b] = "in"
      PROVE  said'[b] >= 1 /\ (saying'[b] => said'[b] >= 2)
  <2>1. CASE b = c
    BY <1>1, <1>3, <2>1
  <2>2. CASE b # c
    BY <1>1, <1>6, <2>2 DEF NeighboursMet
  <2>3. QED
    BY <2>1, <2>2
<1>7. ASSUME NEW b \in Clients, NEW d \in group', LoopOf[b] = LoopOf[d],
             state'[b] \in {"none", "adding"}
      PROVE  since'[d][b] = 0
  <2>1. b # c /\ state[b] \in {"none", "adding"}
    BY <1>1, <1>7
  <2>2. CASE d = c
    BY <1>1, <1>4, <1>7, <2>1, <2>2
  <2>3. CASE d # c
    BY <1>1, <1>7, <2>1, <2>3 DEF NeighboursMet
  <2>4. QED
    BY <2>2, <2>3
<1>8. ASSUME NEW b \in group', NEW d \in group', LoopOf[b] = LoopOf[d], b # d
      PROVE  since'[d][b] = 0 \/ since'[b][d] = 0
  <2>1. CASE b = c
    BY <1>1, <1>8, <2>1 DEF NeighboursMet
  <2>2. CASE d = c
    BY <1>1, <1>8, <2>2 DEF NeighboursMet
  <2>3. CASE b # c /\ d # c
    BY <1>1, <1>8, <2>3 DEF NeighboursMet
  <2>4. QED
    BY <2>1, <2>2, <2>3
<1>9. QED
  BY <1>5, <1>6, <1>7, <1>8 DEF NeighboursMet

LEMMA NeighbourStep ==
  TypeOK /\ Counted /\ OneHandlerPerLoop /\ NeighboursMet /\ [Next]_vars => NeighboursMet'
<1> SUFFICES ASSUME TypeOK, Counted, OneHandlerPerLoop, NeighboursMet, [Next]_vars
             PROVE  NeighboursMet'
  OBVIOUS
<1>1. ASSUME NEW c \in Clients, Close(c)
      PROVE  NeighboursMet'
  BY <1>1, CloseNeighbours DEF Close
<1>2. ASSUME NEW c \in Clients, NEW d \in Clients, WriteFails(c, d)
      PROVE  NeighboursMet'
  BY <1>2, CloseNeighbours DEF WriteFails
<1>3. ASSUME NEW c \in Clients, Said(c)
      PROVE  NeighboursMet'
  <2>1. UNCHANGED <<state, group, said, since>> /\ state[c] # "adding"
    BY <1>3 DEF Said
  <2>2. \A b \in Clients : (saying'[b] => saying[b]) /\ (b # c => saying'[b] = saying[b])
    BY <1>3 DEF Said, TypeOK
  <2>3. QED
    BY <2>1, <2>2 DEF NeighboursMet
<1>4. ASSUME NEW c \in Clients, NEW d \in Clients, Write(c, d)
      PROVE  NeighboursMet'
  BY <1>4 DEF Write, NeighboursMet
<1>5. CASE UNCHANGED vars
  BY <1>5 DEF vars, NeighboursMet
<1>6. QED
  BY <1>1, <1>2, <1>3, <1>4, <1>5, SayNeighbours, AddNeighbours DEF Next, LoopStep

\* Whatever the channels and their spread over loops, no loop runs two handlers at once.
THEOREM LoopsAreSerial == Spec => []OneHandlerPerLoop
<1>1. Init => OneHandlerPerLoop
  BY DEF Init, OneHandlerPerLoop
<1>2. QED
  BY <1>1, TypeCorrect, HandlerStep, PTL DEF Spec

\* What line 24 promises holds on each loop: two members of one loop do not miss each
\* other.  That two of different loops may is what run netty_chat_joins shows.
THEOREM NeighboursHearOfJoining == Spec => []NeighboursTold
<1>1. Init => NeighboursMet
  BY DEF Init, NeighboursMet
<1>2. ASSUME TypeOK, NeighboursMet, MembersOK, MembersMissNothing
      PROVE  NeighboursTold
  <2>1. ASSUME NEW c \in group, NEW d \in group, since[d][c] = 0
        PROVE  <<c, 1>> \in Heard(d)
    <3>1. c \in Clients /\ d \in Clients /\ said[c] \in Nat /\ state[c] = "in"
      BY <1>2 DEF TypeOK, MembersOK
    <3>2. said[c] >= 1
      BY <1>2, <3>1 DEF NeighboursMet
    <3>3. saying[c] => said[c] >= 2
      BY <1>2, <3>1 DEF NeighboursMet
    <3>4. 1 \in (since[d][c] + 1)..said[c]
      BY <2>1, <3>1, <3>2
    <3>5. <<c, 1>> \in Heard(d) \/ (1 = said[c] /\ saying[c] /\ d \in todo[c])
      BY <1>2, <3>1, <3>4 DEF MembersMissNothing
    <3>6. QED
      BY <3>3, <3>5
  <2>2. QED
    BY <1>2, <2>1 DEF NeighboursMet, NeighboursTold, TypeOK
<1>3. Init => NotNewer /\ ToldInOrder /\ MembersOK /\ MembersMissNothing /\ OneHandlerPerLoop
  BY DEF Init, NotNewer, ToldInOrder, MembersOK, MembersMissNothing, OneHandlerPerLoop
<1>4. QED
  BY <1>1, <1>2, <1>3, TypeCorrect, OrderStep, CompleteStep, HandlerStep, NeighbourStep, PTL
     DEF Spec

\* The safety half of LeavingTold: when handlerRemoved is done, the members it found have
\* been told.
THEOREM MembersHearOfLeaving == Spec => []LeaversTold
<1>1. ASSUME TypeOK, MembersMissNothing
      PROVE  LeaversTold
  <2> SUFFICES ASSUME NEW c \in Clients, NEW d \in group, ~saying[c], since[d][c] < said[c]
               PROVE  <<c, said[c]>> \in Heard(d)
    BY DEF LeaversTold
  <2>1. said[c] \in Nat /\ since[d][c] \in Nat
    BY <1>1 DEF TypeOK
  <2>2. said[c] \in (since[d][c] + 1)..said[c]
    BY <2>1
  <2>3. QED
    BY <1>1, <2>1, <2>2 DEF MembersMissNothing
<1>2. QED
  BY <1>1, TypeCorrect, NothingMissed, PTL

------------------------------------------------------------------------------
(* The handlers implement a broadcast to the group *)

\* The place of d in what is said about c.
PassedBy(d, c) == IF d \notin group THEN 0 ELSE IF d \in todo[c] THEN said[c] - 1 ELSE said[c]

\* Where every d is at the same place as before, nothing has passed anybody.
LEMMA PassedKeeps ==
  ASSUME \A d, c \in Clients : PassedBy(d, c)' = PassedBy(d, c)
  PROVE  Passed' = Passed
BY DEF Passed, PassedBy

\* A handler that begins to announce speaks: no earlier iteration of its channel is under way.
LEMMA SayBroadcasts ==
  ASSUME TypeOK, Counted, NEW c \in Clients, LoopFree(c), Say(c), UNCHANGED <<group, written>>
  PROVE  Broadcast!Next
<1>1. todo[c] = {}
  BY DEF LoopFree, Counted
<1>2. said[c] \in Nat /\ said'[c] = said[c] + 1 /\ todo'[c] = group
      /\ \A b \in Clients : b # c => said'[b] = said[b] /\ todo'[b] = todo[b]
  BY DEF TypeOK, Say
<1>3. ASSUME NEW d \in Clients, NEW b \in Clients
      PROVE  PassedBy(d, b)' = PassedBy(d, b)
  <2>1. CASE b = c
    BY <1>1, <1>2, <2>1 DEF PassedBy
  <2>2. CASE b # c
    BY <1>2, <2>2 DEF PassedBy
  <2>3. QED
    BY <2>1, <2>2
<1>4. Passed' = Passed
  BY <1>3, PassedKeeps
<1>5. Broadcast!Speak(c)
  BY <1>4 DEF Broadcast!Speak, Say
<1>6. QED
  BY <1>5 DEF Broadcast!Next

\* Closing a channel is its departure.
LEMMA CloseBroadcasts ==
  ASSUME TypeOK, NEW d \in Clients, CloseChannel(d), said' = said,
         \A b \in Clients : todo'[b] \ {d} = todo[b] \ {d}
  PROVE  Broadcast!Next
<1>1. group' = group \ {d} /\ written' = [written EXCEPT ![d] = <<>>]
  BY DEF CloseChannel
<1>2. ASSUME NEW e \in Clients, NEW b \in Clients
      PROVE  PassedBy(e, b)' = IF e = d THEN 0 ELSE PassedBy(e, b)
  BY <1>1 DEF PassedBy
<1>3. Passed' = [Passed EXCEPT ![d] = Broadcast!Nothing]
  BY <1>2 DEF Passed, PassedBy, Broadcast!Nothing
<1>4. Broadcast!Depart(d)
  BY <1>1, <1>3 DEF Broadcast!Depart
<1>5. QED
  BY <1>4 DEF Broadcast!Next

\* The channel that is added joins; iterations that meet it tell it the last notice too.
LEMMA AddBroadcasts ==
  ASSUME TypeOK, Counted, MembersOK, NEW c \in Clients, Add(c)
  PROVE  Broadcast!Next
<1>1. PICK met \in SUBSET {d \in Clients : saying[d] /\ d # c} :
        todo' = [d \in Clients |-> IF d \in met THEN todo[d] \cup {c} ELSE todo[d]]
  BY DEF Add
<1>2. group' = group \cup {c} /\ c \notin group /\ said' = said /\ written' = written
  BY DEF Add, MembersOK
<1> DEFINE late == {b \in Clients : c \in todo'[b]}
<1>3. \A b \in Clients : b \in late => said[b] > 0
  <2>1. SUFFICES ASSUME NEW b \in Clients, c \in todo'[b]
                 PROVE  said[b] > 0
    OBVIOUS
  <2>2. saying[b]
    BY <1>1, <2>1 DEF Counted
  <2>3. QED
    BY <2>2 DEF Counted, TypeOK
<1>4. ASSUME NEW e \in Clients, NEW b \in Clients
      PROVE  PassedBy(e, b)' = IF e = c THEN IF b \in late THEN said[b] - 1 ELSE said[b]
                               ELSE PassedBy(e, b)
  <2>1. CASE e = c
    BY <1>2, <2>1 DEF PassedBy
  <2>2. CASE e # c
    <3>1. e \in todo'[b] <=> e \in todo[b]
      BY <1>1, <2>2
    <3>2. e \in group' <=> e \in group
      BY <1>2, <2>2
    <3>3. QED
      BY <1>2, <2>2, <3>1, <3>2 DEF PassedBy
  <2>3. QED
    BY <2>1, <2>2
<1> HIDE DEF late
<1>5. Passed' = [Passed EXCEPT ![c] = [b \in Clients |-> IF b \in late THEN said[b] - 1 ELSE said[b]]]
  BY <1>4 DEF Passed, PassedBy
<1>6. late \in SUBSET Clients
  BY DEF late
<1>7. Broadcast!Join(c, late)
  BY <1>2, <1>3, <1>5, <1>6 DEF Broadcast!Join
<1>8. QED
  BY <1>6, <1>7 DEF Broadcast!Next

\* A write to a member tells it the next notice; a write to any other tells nobody.
LEMMA WriteBroadcasts ==
  ASSUME TypeOK, MembersOK, NEW c \in Clients, NEW d \in Clients, Write(c, d)
  PROVE  Broadcast!Next \/ UNCHANGED Broadcast!gbvars
<1>1. /\ d \in todo[c] /\ todo' = [todo EXCEPT ![c] = @ \ {d}]
      /\ UNCHANGED <<group, said>> /\ said[c] \in Nat
  BY DEF Write, TypeOK
<1>2. \A e, b \in Clients : e # d \/ b # c => PassedBy(e, b)' = PassedBy(e, b)
  BY <1>1 DEF PassedBy, TypeOK
<1>3. CASE state[d] = "in"
  <2>1. d \in group /\ written' = [written EXCEPT ![d] = Append(@, <<c, said[c]>>)]
    BY <1>3 DEF Write, MembersOK
  <2>2. PassedBy(d, c) = said[c] - 1 /\ PassedBy(d, c)' = said[c]
    BY <1>1, <2>1 DEF PassedBy, TypeOK
  <2>3. Passed[d][c] = said[c] - 1 /\ (said[c] - 1) + 1 = said[c] /\ said[c] - 1 < said[c]
    BY <1>1, <2>2 DEF Passed, PassedBy
  <2>4. Passed' = [Passed EXCEPT ![d][c] = @ + 1]
    <3> DEFINE now(e, b) == IF e = d /\ b = c THEN said[c] ELSE PassedBy(e, b)
    <3>1. \A e, b \in Clients : PassedBy(e, b)' = now(e, b)
      BY <1>2, <2>2
    <3>2. Passed' = [e \in Clients |-> [b \in Clients |-> now(e, b)]]
      <4> HIDE DEF now
      <4>1. Passed' = [e \in Clients |-> [b \in Clients |-> PassedBy(e, b)']]
        BY DEF Passed, PassedBy
      <4>2. QED
        BY <3>1, <4>1
    <3>3. Passed = [e \in Clients |-> [b \in Clients |-> PassedBy(e, b)]]
      BY DEF Passed, PassedBy
    <3>4. [Passed EXCEPT ![d][c] = said[c]] = [e \in Clients |-> [b \in Clients |-> now(e, b)]]
      BY <3>3
    <3>5. QED
      BY <2>3, <3>2, <3>4
  <2>5. Broadcast!Tell(c, d)
    BY <1>1, <2>1, <2>3, <2>4 DEF Broadcast!Tell
  <2>6. QED
    BY <2>5 DEF Broadcast!Next
<1>4. CASE state[d] # "in"
  <2>1. d \notin group /\ written' = written
    BY <1>4 DEF Write, MembersOK
  <2>2. PassedBy(d, c)' = PassedBy(d, c)
    BY <1>1, <2>1 DEF PassedBy
  <2>3. Passed' = Passed
    BY <1>2, <2>2, PassedKeeps
  <2>4. QED
    BY <1>1, <2>1, <2>3 DEF Broadcast!gbvars
<1>5. QED
  BY <1>3, <1>4

\* Every step of the handlers is a step of the broadcast or invisible.
LEMMA StepBroadcasts ==
  TypeOK /\ Counted /\ MembersOK /\ [Next]_vars => [Broadcast!Next]_Broadcast!gbvars
<1> SUFFICES ASSUME TypeOK, Counted, MembersOK, [Next]_vars
             PROVE  Broadcast!Next \/ UNCHANGED Broadcast!gbvars
  OBVIOUS
<1>1. ASSUME NEW c \in Clients, HandlerAdded(c) \/ ChannelRead(c) \/ HandlerRemoved(c)
      PROVE  Broadcast!Next
  BY <1>1, SayBroadcasts DEF HandlerAdded, ChannelRead, HandlerRemoved
<1>2. ASSUME NEW c \in Clients, Close(c)
      PROVE  Broadcast!Next
  BY <1>2, CloseBroadcasts DEF Close
<1>3. ASSUME NEW c \in Clients, NEW d \in Clients, WriteFails(c, d)
      PROVE  Broadcast!Next
  <2>1. \A b \in Clients : todo'[b] \ {d} = todo[b] \ {d}
    BY <1>3 DEF WriteFails, TypeOK
  <2>2. QED
    BY <1>3, <2>1, CloseBroadcasts DEF WriteFails
<1>4. ASSUME NEW c \in Clients, Said(c)
      PROVE  UNCHANGED Broadcast!gbvars
  BY <1>4 DEF Said, Passed, Broadcast!gbvars
<1>5. CASE UNCHANGED vars
  BY <1>5 DEF vars, Passed, Broadcast!gbvars
<1>6. QED
  BY <1>1, <1>2, <1>3, <1>4, <1>5, AddBroadcasts, WriteBroadcasts DEF Next, LoopStep

\* NettyGroupChat implements GroupBroadcast, for any channels and any spread over event loops:
\* a member is told everything from its joining on, in order and once, as if by one speaker.
THEOREM ImplementsBroadcast == Spec => BroadcastSpec
<1>1. Init => Broadcast!Init
  BY DEF Init, Passed, Broadcast!Init, Broadcast!Nothing
<1>2. Init => NotNewer /\ ToldInOrder /\ MembersOK /\ MembersMissNothing
  BY DEF Init, NotNewer, ToldInOrder, MembersOK, MembersMissNothing
<1>3. QED
  BY <1>1, <1>2, StepBroadcasts, TypeCorrect, OrderStep, CompleteStep, PTL
     DEF Spec, BroadcastSpec, Broadcast!Spec
================================================================================
