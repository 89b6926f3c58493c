------------------------------ MODULE NioGroupChat ------------------------------
(***************************************************************************)
(* nio/groupChat: one selector thread serves every client.  A round takes   *)
(* the ready keys of a select, accepts or reads each, and writes what it    *)
(* read to all other registered channels, ignoring how much was written.   *)
(* Clients connect, send, receive, leave and break at any moment between.   *)
(* Nothing keeps lines apart: a connection is a stream of bytes, a read      *)
(* takes what has arrived up to the size of the buffer, a write what fits.   *)
(***************************************************************************)
EXTENDS Naturals, Sequences

CONSTANTS
  Clients,    \* GroupChatClient processes
  Listen,     \* the key of the listening channel
  NoOne,      \* no key is being served
  Lines,      \* bound: the lines each client sends, each line as a sequence that
              \* gives for every byte the number of the character it belongs to
  BufferSize, \* bytes of the buffer a read fills (1024)
  SendCap     \* bytes the socket to a client takes before it is full

ASSUME KeysAssumption == {Listen, NoOne} \cap Clients = {} /\ Listen # NoOne
ASSUME LinesAssumption == Lines \in [Clients -> Seq(Seq(Nat))]
ASSUME BoundsAssumption == BufferSize \in Nat \ {0} /\ SendCap \in Nat \ {0}

VARIABLES
  net,        \* how the server's end of each client's connection is
  backlog,    \* connections not accepted yet
  said,       \* how many of its lines each client has sent
  stream,     \* the bytes of them its socket took: byte p of line l as <<l, p>>
  got,        \* how many of these the server has read
  delivered,  \* the bytes the socket to each client took, in order
  unread,     \* how many of these the client has not read yet
  keys,       \* selector.keys() without the listening key
  cancelled,  \* keys cancelled since the last select, still in selector.keys()
  selected,   \* selectedKeys of this round that are not handled yet
  cur,        \* the sender whose bytes are being forwarded
  msg,        \* the string made of what was read from it, as the bytes it is sent as
  todo,       \* keys the forwarding loop has not visited
  left        \* ghost: the clients that have ended

net_vars == <<net, backlog, said, stream, got, left>>
server_vars == <<keys, cancelled, selected, cur, msg, todo>>
vars == <<net, backlog, said, stream, got, delivered, unread,
          keys, cancelled, selected, cur, msg, todo, left>>

\* What is forwarded: byte k of the stream of c as <<c, k>>, and as <<c, 0>> a byte
\* that is none of c's: a NUL of the buffer or what stands for a byte not decoded.
Bytes == Clients \X Nat

TypeOK ==
  /\ net \in [Clients -> {"none", "open", "fin", "rst", "closed"}]
  /\ backlog \in SUBSET Clients
  /\ said \in [Clients -> Nat] /\ \A c \in Clients : said[c] <= Len(Lines[c])
  /\ stream \in [Clients -> Seq(Nat \X Nat)]
  /\ got \in [Clients -> Nat] /\ \A c \in Clients : got[c] <= Len(stream[c])
  /\ delivered \in [Clients -> Seq(Bytes)]
  /\ unread \in [Clients -> 0..SendCap]
  /\ keys \in SUBSET Clients
  /\ cancelled \in SUBSET Clients
  /\ selected \in SUBSET (Clients \cup {Listen})
  /\ cur \in Clients \cup {NoOne}
  /\ msg \in Seq(Bytes)
  /\ todo \in SUBSET Clients
  /\ left \in SUBSET Clients

Init ==
  /\ net = [c \in Clients |-> "none"]
  /\ backlog = {}
  /\ said = [c \in Clients |-> 0]
  /\ stream = [c \in Clients |-> <<>>]
  /\ got = [c \in Clients |-> 0]
  /\ delivered = [c \in Clients |-> <<>>]
  /\ unread = [c \in Clients |-> 0]
  /\ keys = {} /\ cancelled = {} /\ selected = {} /\ todo = {} /\ left = {}
  /\ cur = NoOne
  /\ msg = <<>>

------------------------------------------------------------------------------
(* GroupChatClient *)

\* SocketChannel.open: the connection waits in the backlog of the server.
Connect(c) ==
  /\ net[c] = "none"
  /\ net' = [net EXCEPT ![c] = "open"]
  /\ backlog' = backlog \cup {c}
  /\ UNCHANGED <<said, stream, got, left, delivered, unread, server_vars>>

\* sendInfo: the write takes the beginning of the line that fits, nothing writes the
\* rest; once the server has closed the connection the write just fails.
SendInfo(c) ==
  /\ net[c] = "open"
  /\ said[c] < Len(Lines[c])
  /\ said' = [said EXCEPT ![c] = @ + 1]
  /\ \E n \in 0..Len(Lines[c][said[c] + 1]) :
       stream' = [stream EXCEPT ![c] = @ \o [p \in 1..n |-> <<said[c] + 1, p>>]]
  /\ UNCHANGED <<net, backlog, got, left, delivered, unread, server_vars>>

\* readInfo: what is there, up to the size of its buffer
ReadInfo(c) ==
  /\ net[c] \in {"open", "closed"}
  /\ unread[c] > 0
  /\ unread' = [unread EXCEPT ![c] = IF @ < BufferSize THEN 0 ELSE @ - BufferSize]
  /\ UNCHANGED <<net_vars, delivered, server_vars>>

\* The client ends: an orderly close when it has read everything, else a reset.
Leave(c) ==
  /\ net[c] = "open"
  /\ \/ unread[c] = 0 /\ net' = [net EXCEPT ![c] = "fin"]
     \/ net' = [net EXCEPT ![c] = "rst"]
  /\ left' = left \cup {c}
  /\ UNCHANGED <<backlog, said, stream, got, delivered, unread, server_vars>>

------------------------------------------------------------------------------
(* GroupChatServer *)

\* The channels on which a read would not block: data, end of stream or an error.
Readable ==
  {c \in keys \ cancelled : got[c] < Len(stream[c]) \/ net[c] \in {"fin", "rst"}}
Ready == Readable \cup (IF backlog = {} THEN {} ELSE {Listen})

AtSelect == selected = {} /\ cur = NoOne

\* select(2000) drops the cancelled keys and returns the ready ones; a timeout
\* without any leads back here.
Select ==
  /\ AtSelect
  /\ Ready # {} \/ cancelled # {}
  /\ keys' = keys \ cancelled
  /\ cancelled' = {}
  /\ selected' = Ready
  /\ UNCHANGED <<net_vars, delivered, unread, cur, msg, todo>>

\* accept one connection and register it for OP_READ
Accept(c) ==
  /\ cur = NoOne
  /\ Listen \in selected
  /\ c \in backlog
  /\ backlog' = backlog \ {c}
  /\ keys' = keys \cup {c}
  /\ selected' = selected \ {Listen}
  /\ UNCHANGED <<net, said, stream, got, left, delivered, unread, cancelled, cur, msg, todo>>

\* The bytes of the character that byte b of c's lines belongs to.
CharacterOf(c, b) ==
  LET line == Lines[c][b[1]]
  IN  {<<b[1], p>> : p \in {q \in DOMAIN line : line[q] = line[b[2]]}}

\* Fault: what was read of a character is kept.
TextByBytes(c, from, n) ==
  [i \in 1..BufferSize |-> IF i <= n THEN <<c, from + i>> ELSE <<c, 0>>]

\* new String(buffer.array(), "UTF-8") and getBytes again, after a read of n bytes: a
\* character the read has cut is replaced, and the buffer is taken to its end.
Text(c, from, n) ==
  LET read == {stream[c][j] : j \in (from + 1)..(from + n)}
  IN  [i \in 1..BufferSize |->
         IF i <= n /\ CharacterOf(c, stream[c][from + i]) \subseteq read
         THEN <<c, from + i>> ELSE <<c, 0>>]

\* Fault: the last byte stays in the stream and comes again with the next read.
ReadDataAgain(c) ==
  /\ cur = NoOne
  /\ c \in selected
  /\ \E n \in 1..BufferSize :
       /\ got[c] + n <= Len(stream[c])
       /\ msg' = Text(c, got[c], n)
       /\ got' = [got EXCEPT ![c] = (@ + n) - 1]
  /\ cur' = c
  /\ todo' = keys \ {c}
  /\ selected' = selected \ {c}
  /\ UNCHANGED <<net, backlog, said, stream, left, delivered, unread, keys, cancelled>>

\* readData: what has arrived, up to the size of the buffer, goes to every other registered
\* channel; selector.keys() still has the keys cancelled in this round.
ReadData(c) ==
  /\ cur = NoOne
  /\ c \in selected
  /\ \E n \in 1..BufferSize :
       /\ got[c] + n <= Len(stream[c])
       /\ msg' = Text(c, got[c], n)
       /\ got' = [got EXCEPT ![c] = @ + n]
  /\ cur' = c
  /\ todo' = keys \ {c}
  /\ selected' = selected \ {c}
  /\ UNCHANGED <<net, backlog, said, stream, left, delivered, unread, keys, cancelled>>

\* Fault: the key is not removed from the selected keys.
ReadEofNotRemoved(c) ==
  /\ cur = NoOne
  /\ c \in selected
  /\ net[c] = "fin" /\ got[c] = Len(stream[c])
  /\ UNCHANGED vars

\* read returns -1: `count > 0' is false and nothing happens.
ReadEof(c) ==
  /\ cur = NoOne
  /\ c \in selected
  /\ net[c] = "fin" /\ got[c] = Len(stream[c])
  /\ selected' = selected \ {c}
  /\ UNCHANGED <<net_vars, delivered, unread, keys, cancelled, cur, msg, todo>>

\* The catch block of readData: the key that was being read is cancelled and its
\* channel closed.
CloseSender(c) ==
  /\ net' = [net EXCEPT ![c] = "closed"]
  /\ cancelled' = cancelled \cup {c}
  /\ cur' = NoOne
  /\ msg' = <<>>
  /\ todo' = {}

\* Fault: the catch block only prints.
ReadThrowsPrinted(c) ==
  /\ cur = NoOne
  /\ c \in selected
  /\ net[c] = "rst"
  /\ selected' = selected \ {c}
  /\ UNCHANGED <<net_vars, delivered, unread, keys, cancelled, cur, msg, todo>>

\* read throws on a connection that was reset.
ReadThrows(c) ==
  /\ cur = NoOne
  /\ c \in selected
  /\ net[c] = "rst"
  /\ CloseSender(c)
  /\ selected' = selected \ {c}
  /\ UNCHANGED <<backlog, said, stream, got, left, delivered, unread, keys>>

\* Fault: no account is taken of the room in the socket.
FittingAlways(held) == BufferSize

\* What a write of the string puts into a socket that holds so many bytes: what fits.
Fitting(held) == IF SendCap - held < BufferSize THEN SendCap - held ELSE BufferSize

\* Fault: a write that does not take everything is taken for a failure.
WriteOpenOrThrow(d) ==
  /\ d \in todo
  /\ net[d] = "open"
  /\ LET n == Fitting(unread[d])
     IN  IF n = BufferSize
         THEN /\ delivered' = [delivered EXCEPT ![d] = @ \o SubSeq(msg, 1, n)]
              /\ unread' = [unread EXCEPT ![d] = @ + n]
              /\ todo' = todo \ {d}
              /\ UNCHANGED <<net_vars, keys, cancelled, selected, cur, msg>>
         ELSE /\ CloseSender(cur)
              /\ UNCHANGED <<backlog, said, stream, got, left, delivered, unread, keys,
                             selected>>

\* dest.write: its result is not looked at, the rest is not written by anyone.
WriteOpen(d) ==
  /\ d \in todo
  /\ net[d] = "open"
  /\ LET n == Fitting(unread[d])
     IN  /\ delivered' = [delivered EXCEPT ![d] = @ \o SubSeq(msg, 1, n)]
         /\ unread' = [unread EXCEPT ![d] = @ + n]
  /\ todo' = todo \ {d}
  /\ UNCHANGED <<net_vars, keys, cancelled, selected, cur, msg>>

\* Fault: a write to a peer that has closed is taken for a failure at once.
WriteFinThrows(d) ==
  /\ d \in todo
  /\ net[d] = "fin"
  /\ CloseSender(cur)
  /\ UNCHANGED <<backlog, said, stream, got, left, delivered, unread, keys, selected>>

\* The first write to a peer that has closed succeeds and is answered by a reset.
WriteFin(d) ==
  /\ d \in todo
  /\ net[d] = "fin"
  /\ net' = [net EXCEPT ![d] = "rst"]
  /\ todo' = todo \ {d}
  /\ UNCHANGED <<backlog, said, stream, got, left, delivered, unread, keys, cancelled, selected,
                 cur, msg>>

\* write throws, on a reset connection or on a channel closed in this round: the
\* exception leaves the loop and ends in the sender's catch block.
WriteThrows(d) ==
  /\ d \in todo
  /\ net[d] \in {"rst", "closed"}
  /\ CloseSender(cur)
  /\ UNCHANGED <<backlog, said, stream, got, left, delivered, unread, keys, selected>>

\* The loop over selector.keys() is done.
Forwarded ==
  /\ cur # NoOne
  /\ todo = {}
  /\ cur' = NoOne
  /\ msg' = <<>>
  /\ UNCHANGED <<net_vars, delivered, unread, keys, cancelled, selected, todo>>

------------------------------------------------------------------------------
ClientStep(c) == Connect(c) \/ SendInfo(c) \/ ReadInfo(c) \/ Leave(c)

ServerStep ==
  \/ Select \/ Forwarded
  \/ \E c \in Clients :
       \/ Accept(c) \/ ReadData(c) \/ ReadEof(c) \/ ReadThrows(c)
       \/ WriteOpen(c) \/ WriteFin(c) \/ WriteThrows(c)

Next == ServerStep \/ \E c \in Clients : ClientStep(c)

Spec == Init /\ [][Next]_vars

\* The selector thread runs; clients do what they like.
FairSpec == Spec /\ WF_vars(ServerStep)

------------------------------------------------------------------------------
(* Properties *)

\* A round: what is selected is registered and not cancelled; the loop visits other
\* keys than the sender's, the sender's key is still good, and what is forwarded is as
\* long as the buffer.
RoundOK ==
  /\ cancelled \subseteq keys
  /\ selected \ {Listen} \subseteq keys \ cancelled
  /\ todo \subseteq keys \ {cur}
  /\ IF cur = NoOne THEN todo = {} ELSE cur \in keys \ (cancelled \cup selected)
  /\ Len(msg) = IF cur = NoOne THEN 0 ELSE BufferSize

\* No client is sent what it sent itself, and what is left of the bytes of any one sender
\* comes in the order they were sent and none twice, though reads cut and merge lines,
\* writes stop in the middle and loops are cut short (lines 76, 101-111 of GroupChatServer).
ForwardedInOrder ==
  \A d \in Clients : \A i \in 1..Len(delivered[d]) :
    /\ delivered[d][i][1] # d
    /\ delivered[d][i][2] # 0 => \A j \in 1..(i - 1) :
         delivered[d][j][1] = delivered[d][i][1] => delivered[d][j][2] < delivered[d][i][2]

\* As long as no client has ended, the server closes nobody: a slow reader, however
\* full its socket, costs no one the connection (line 111 drops instead).
NobodyLeftNobodyClosed == left = {} => \A c \in Clients : net[c] # "closed"

\* The server takes a channel away only for a failure that is there to be seen: when
\* it closes a client that had not ended, some channel it still lists has failed.
ClosedForAFailure ==
  [][\A c \in Clients : net[c] = "open" /\ net'[c] = "closed" =>
       \E d \in keys \ {c} : net[d] \in {"rst", "closed"}]_vars

\* A connection that was reset leaves the key set, whoever else is ready and however
\* often (the select loop, lines 35-57, and the catch block, lines 85-91).
ResetDetected == \A c \in Clients : (c \in keys /\ net[c] = "rst") ~> (c \notin keys)

\* What an accepted client has sent is read or the client is gone: the keys that stay
\* readable for ever at end of stream do not starve the others.
AllRead == \A c \in Clients :
  (c \in keys /\ got[c] < Len(stream[c])) ~> (got[c] = Len(stream[c]) \/ c \notin keys)

\* "服务端：可以检测用户上线,离线": the user the server declares offline (line 87)
\* is one that has left.
OfflineMeansLeft == \A c \in Clients : net[c] = "closed" => c \in left

Forwarding == INSTANCE LossyForward WITH given <- delivered, PieceSize <- BufferSize

\* Reads cut and merge lines, sockets take a part and exceptions cut the loop over the keys
\* short: still all a client is given are beginnings of decoded pieces of others' streams,
\* each newer than the last of the same sender (lines 70-115).
ForwardingSpec == Forwarding!Spec
================================================================================
