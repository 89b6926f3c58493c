----------------------------- MODULE NettyGroupChat -----------------------------
(***************************************************************************)
(* netty/groupChat: every channel belongs to one event loop of the worker   *)
(* group; its handlers run there, one at a time.  A handler tells the whole  *)
(* static channelGroup of a join, a message or a departure by going through  *)
(* the group channel by channel, while handlers on other loops add, remove   *)
(* and write.                                                               *)
(***************************************************************************)
EXTENDS Naturals, Sequences

CONSTANTS
  Clients,    \* the clients' channels
  Loops,      \* event loops of workGroup
  LoopOf,     \* the loop each channel is registered with
  MaxSends    \* bound: how many messages each client sends

ASSUME LoopAssumption == LoopOf \in [Clients -> Loops]
ASSUME BoundAssumption == MaxSends \in [Clients -> Nat]

VARIABLES
  state,      \* where each channel is in its life
  group,      \* channelGroup
  said,       \* how many things the server has begun to say about each channel
  saying,     \* TRUE while a handler of the channel goes through the group
  todo,       \* the channels it will still come to
  written,    \* what was written to each channel while it is open, in order
  since       \* ghost: `said' when the channel was added to the group

vars == <<state, group, said, saying, todo, written, since>>

\* The n-th thing said about channel c: its joining is the first, its leaving the last.
LastNotice(c) == MaxSends[c] + 2
Notices == UNION {{c} \X (1..LastNotice(c)) : c \in Clients}

TypeOK ==
  /\ state \in [Clients -> {"none", "adding", "in", "closed", "removed"}]
  /\ group \in SUBSET Clients
  /\ said \in [Clients -> Nat] /\ \A c \in Clients : said[c] <= LastNotice(c)
  /\ saying \in [Clients -> BOOLEAN]
  /\ todo \in [Clients -> SUBSET Clients]
  /\ written \in [Clients -> Seq(Notices)]
  /\ since \in [Clients -> [Clients -> Nat]]

Init ==
  /\ state = [c \in Clients |-> "none"]
  /\ group = {}
  /\ said = [c \in Clients |-> 0]
  /\ saying = [c \in Clients |-> FALSE]
  /\ todo = [c \in Clients |-> {}]
  /\ written = [c \in Clients |-> <<>>]
  /\ since = [c \in Clients |-> [d \in Clients |-> 0]]

LoopFree(c) == \A d \in Clients : LoopOf[d] = LoopOf[c] => ~saying[d]

\* A handler of c begins to go through the group: those that are in it now and, of
\* those added meanwhile, whichever the iteration happens to meet.
Say(c) ==
  /\ said' = [said EXCEPT ![c] = @ + 1]
  /\ saying' = [saying EXCEPT ![c] = TRUE]
  /\ todo' = [todo EXCEPT ![c] = group]

\* handlerAdded: first the announcement ...
HandlerAdded(c) ==
  /\ state[c] = "none"
  /\ LoopFree(c)
  /\ Say(c)
  /\ state' = [state EXCEPT ![c] = "adding"]
  /\ UNCHANGED <<group, written, since>>

\* ... then channelGroup.add.
Add(c) ==
  /\ state[c] = "adding"
  /\ todo[c] = {}
  /\ group' = group \cup {c}
  /\ state' = [state EXCEPT ![c] = "in"]
  /\ saying' = [saying EXCEPT ![c] = FALSE]
  /\ since' = [since EXCEPT ![c] = said]
  /\ \E met \in SUBSET {d \in Clients : saying[d] /\ d # c} :
       todo' = [d \in Clients |-> IF d \in met THEN todo[d] \cup {c} ELSE todo[d]]
  /\ UNCHANGED <<said, written>>

\* Fault: the sender is left out.
ChannelReadOthers(c) ==
  /\ state[c] = "in"
  /\ said[c] <= MaxSends[c]
  /\ LoopFree(c)
  /\ said' = [said EXCEPT ![c] = @ + 1]
  /\ saying' = [saying EXCEPT ![c] = TRUE]
  /\ todo' = [todo EXCEPT ![c] = group \ {c}]
  /\ UNCHANGED <<state, group, written, since>>

\* channelRead0
ChannelRead(c) ==
  /\ state[c] = "in"
  /\ said[c] <= MaxSends[c]
  /\ LoopFree(c)
  /\ Say(c)
  /\ UNCHANGED <<state, group, written, since>>

\* Fault: no else, the sender is written both forms.
WriteBoth(c, d) ==
  /\ d \in todo[c]
  /\ todo' = [todo EXCEPT ![c] = @ \ {d}]
  /\ written' = IF state[d] # "in" THEN written
                ELSE [written EXCEPT ![d] = @ \o
                        IF c = d THEN <<<<c, said[c]>>, <<c, said[c]>>>> ELSE <<<<c, said[c]>>>>]
  /\ UNCHANGED <<state, group, said, saying, since>>

\* ch.writeAndFlush of the notice; on a closed channel it fails and no one looks.
Write(c, d) ==
  /\ d \in todo[c]
  /\ todo' = [todo EXCEPT ![c] = @ \ {d}]
  /\ written' = IF state[d] = "in"
                THEN [written EXCEPT ![d] = Append(@, <<c, said[c]>>)]
                ELSE written
  /\ UNCHANGED <<state, group, said, saying, since>>

\* The channel group forgets a channel as soon as it is closed; so do we.
CloseChannel(c) ==
  /\ group' = group \ {c}
  /\ state' = [state EXCEPT ![c] = "closed"]
  /\ written' = [written EXCEPT ![c] = <<>>]
  /\ since' = [since EXCEPT ![c] = [d \in Clients |-> 0]]

\* A write made on the channel's own loop finds the connection broken and closes it.
WriteFails(c, d) ==
  /\ d \in todo[c]
  /\ state[d] = "in"
  /\ LoopOf[d] = LoopOf[c]
  /\ CloseChannel(d)
  /\ todo' = [todo EXCEPT ![c] = @ \ {d}]
  /\ UNCHANGED <<said, saying>>

\* The handler has gone through the group and returns.
Said(c) ==
  /\ saying[c]
  /\ state[c] # "adding"
  /\ todo[c] = {}
  /\ saying' = [saying EXCEPT ![c] = FALSE]
  /\ UNCHANGED <<state, group, said, todo, written, since>>

\* The client has gone, or exceptionCaught closes the channel.
Close(c) ==
  /\ state[c] = "in"
  /\ LoopFree(c)
  /\ CloseChannel(c)
  /\ UNCHANGED <<said, saying, todo>>

\* Fault: handlerRemoved announces again and again.
HandlerRemovedAgain(c) ==
  /\ state[c] = "closed"
  /\ LoopFree(c)
  /\ Say(c)
  /\ UNCHANGED <<state, group, written, since>>

\* Fault: handlerRemoved says nothing.
HandlerRemovedSilently(c) ==
  /\ state[c] = "closed"
  /\ LoopFree(c)
  /\ state' = [state EXCEPT ![c] = "removed"]
  /\ UNCHANGED <<group, said, saying, todo, written, since>>

\* Fault: handlerRemoved is called inside the write that failed, not as a task of its own.
HandlerRemovedAtOnce(c) ==
  /\ state[c] = "closed"
  /\ Say(c)
  /\ state' = [state EXCEPT ![c] = "removed"]
  /\ UNCHANGED <<group, written, since>>

\* handlerRemoved, a task of its own after the close
HandlerRemoved(c) ==
  /\ state[c] = "closed"
  /\ LoopFree(c)
  /\ Say(c)
  /\ state' = [state EXCEPT ![c] = "removed"]
  /\ UNCHANGED <<group, written, since>>

\* What the loop of c does once it has begun, or was given, a task.
LoopStep(c) ==
  \/ Add(c) \/ Said(c) \/ HandlerRemoved(c)
  \/ \E d \in Clients : Write(c, d) \/ WriteFails(c, d)

Next ==
  \E c \in Clients : HandlerAdded(c) \/ ChannelRead(c) \/ Close(c) \/ LoopStep(c)

Spec == Init /\ [][Next]_vars

\* Every loop gets its turn; clients come, write and go as they like.
FairSpec == Spec /\ \A l \in Loops : WF_vars(\E c \in Clients : LoopOf[c] = l /\ LoopStep(c))

------------------------------------------------------------------------------
(* Properties *)

\* Whatever loops the channels are on, a client is told of another's joining, messages
\* and leaving in the order they happened, nothing twice and nothing after the leaving
\* (lines 22-65 of GroupChatServerHandler; all about one channel is said on its loop).
ToldInOrder ==
  \A d \in Clients : \A i \in 1..Len(written[d]) : \A j \in 1..(i - 1) :
    written[d][j][1] = written[d][i][1] => written[d][j][2] < written[d][i][2]

Heard(d) == {written[d][i] : i \in 1..Len(written[d])}

\* A member misses nothing that was begun to be said after it was added, its own
\* messages included, however many handlers change the group meanwhile, and it hears
\* nothing older but what was being said at that moment (lines 26, 27, 49 and 57-63).
MembersMissNothing ==
  \A d \in group, c \in Clients :
    /\ \A n \in (since[d][c] + 1)..said[c] :
         <<c, n>> \in Heard(d) \/ (n = said[c] /\ saying[c] /\ d \in todo[c])
    /\ \A n \in 1..said[c] : <<c, n>> \in Heard(d) => n >= since[d][c]

\* "将xxx客户离开信息推送给当前的在线客户" (line 43): whoever is a member when a channel
\* closes and stays one is told of its leaving.
LeavingTold ==
  \A c, d \in Clients :
    (state[c] = "closed" /\ d \in group)
      ~> (d \notin group \/ (state[c] = "removed" /\ <<c, said[c]>> \in Heard(d)))

\* "将该客户端加入聊天的信息推送给其他的在线客户端" (line 24): of two members, one was told
\* of the other's joining.
JoinsTold ==
  \A c, d \in group : c # d => <<c, 1>> \in Heard(d) \/ <<d, 1>> \in Heard(c)

\* What a member need not be told any more: the handler of c has come past d.
Passed ==
  [d \in Clients |-> [c \in Clients |->
     IF d \notin group THEN 0 ELSE IF d \in todo[c] THEN said[c] - 1 ELSE said[c]]]

Broadcast == INSTANCE GroupBroadcast WITH members <- group, passed <- Passed, heard <- written

\* The handlers of all channels together broadcast to the group: every member is told
\* everything from its joining on, in order and once, however joins, departures, failed
\* writes and messages on other loops cut across an iteration (lines 19-65).
BroadcastSpec == Broadcast!Spec
================================================================================
