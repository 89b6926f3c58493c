------------------------------- MODULE FramedLink -------------------------------
(***************************************************************************)
(* netty/protocoltcp: messages with a length in front over a byte stream.   *)
(* TCP hands each side any non-empty piece of the bytes under way; the      *)
(* ReplayingDecoder starts a message over until all of its bytes are there. *)
(* Each side runs on its own event loop.                                    *)
(***************************************************************************)
EXTENDS Naturals, Sequences

CONSTANTS
  Requests,     \* contents of the messages the client sends, in order
  ReplyTo(_)    \* content of the server's reply to the n-th message (a UUID)

Bytes == 0..255
MaxInt == 127 * (256 * (256 * 256)) + (256 * (256 * 256) - 1)  \* the largest length of an array

ASSUME RequestAssumption ==
  /\ Requests \in Seq(Seq(Bytes))
  /\ \A n \in 1..Len(Requests) : Len(Requests[n]) <= MaxInt
ASSUME ReplyAssumption ==
  \A n \in 1..Len(Requests) : ReplyTo(n) \in Seq(Bytes) /\ Len(ReplyTo(n)) <= MaxInt

VARIABLES
  sent,         \* messages written by channelActive so far
  c2s, s2c,     \* bytes under way in each direction
  serverIn,     \* bytes the server's decoder has and not yet used
  clientIn,     \* the same at the client
  served,       \* messages the server's channelRead0 was called with; its count
  answers,      \* messages the client's channelRead0 was called with; its count
  open          \* the connection stands

vars == <<sent, c2s, s2c, serverIn, clientIn, served, answers, open>>

TypeOK ==
  /\ sent \in 0..Len(Requests)
  /\ \A stream \in {c2s, s2c, serverIn, clientIn} : stream \in Seq(Bytes)
  /\ served \in Seq(Seq(Bytes))
  /\ answers \in Seq(Seq(Bytes))
  /\ open \in BOOLEAN

Init ==
  /\ sent = 0
  /\ c2s = <<>> /\ s2c = <<>>
  /\ serverIn = <<>> /\ clientIn = <<>>
  /\ served = <<>> /\ answers = <<>>
  /\ open = TRUE

\* writeInt and readInt: four bytes, the most significant first.
IntBytes == 4
WriteInt(n) ==
  <<((n \div 256) \div 256) \div 256, ((n \div 256) \div 256) % 256, (n \div 256) % 256, n % 256>>
ReadInt(b) == ((b[1] * 256 + b[2]) * 256 + b[3]) * 256 + b[4]

\* Fault: the length is put in the last byte as it is.
EncodeOneByteLength(content) == <<0, 0, 0, Len(content)>> \o content

\* Fault: the length counts characters of three bytes each.
EncodeCharacters(content) == WriteInt((Len(content) + 2) \div 3) \o content

\* MyMessageEncoder: the length, then the content.
Encode(content) == WriteInt(Len(content)) \o content

\* Fault: the length in front of the content is not counted.
RestFromContent(in) == SubSeq(in, ReadInt(in) + 1, Len(in))

\* MyMessageDecoder runs to its end: readInt and readBytes find what they need.
Complete(in) == Len(in) >= IntBytes /\ Len(in) >= IntBytes + ReadInt(in)
Content(in) == SubSeq(in, IntBytes + 1, IntBytes + ReadInt(in))
Rest(in) == SubSeq(in, IntBytes + ReadInt(in) + 1, Len(in))

\* channelActive: writeAndFlush of the next message of the loop.
ClientSend ==
  /\ open
  /\ sent < Len(Requests)
  /\ sent' = sent + 1
  /\ c2s' = c2s \o Encode(Requests[sent + 1])
  /\ UNCHANGED <<s2c, serverIn, clientIn, served, answers, open>>

\* A channelRead with the next bytes of the stream, after the decoder has used up
\* every whole message of the last one.
ServerRead ==
  /\ open
  /\ ~Complete(serverIn)
  /\ \E n \in 1..Len(c2s) :
       /\ serverIn' = serverIn \o SubSeq(c2s, 1, n)
       /\ c2s' = SubSeq(c2s, n + 1, Len(c2s))
  /\ UNCHANGED <<sent, s2c, clientIn, served, answers, open>>

\* Fault: channelRead0 sends no reply to an empty message.
ServerDecodeSilent ==
  /\ open
  /\ Complete(serverIn)
  /\ serverIn' = Rest(serverIn)
  /\ served' = Append(served, Content(serverIn))
  /\ s2c' = IF Content(serverIn) = <<>> THEN s2c
            ELSE s2c \o Encode(ReplyTo(Len(served) + 1))
  /\ UNCHANGED <<sent, c2s, clientIn, answers, open>>

\* One message decoded; MyServerHandler.channelRead0 counts it and replies.
ServerDecode ==
  /\ open
  /\ Complete(serverIn)
  /\ serverIn' = Rest(serverIn)
  /\ served' = Append(served, Content(serverIn))
  /\ s2c' = s2c \o Encode(ReplyTo(Len(served) + 1))
  /\ UNCHANGED <<sent, c2s, clientIn, answers, open>>

\* The client's event loop reads once channelActive has returned.
ClientRead ==
  /\ open
  /\ sent = Len(Requests)
  /\ ~Complete(clientIn)
  /\ \E n \in 1..Len(s2c) :
       /\ clientIn' = clientIn \o SubSeq(s2c, 1, n)
       /\ s2c' = SubSeq(s2c, n + 1, Len(s2c))
  /\ UNCHANGED <<sent, c2s, serverIn, served, answers, open>>

\* MyClientHandler.channelRead0 counts a reply.
ClientDecode ==
  /\ open
  /\ Complete(clientIn)
  /\ clientIn' = Rest(clientIn)
  /\ answers' = Append(answers, Content(clientIn))
  /\ UNCHANGED <<sent, c2s, s2c, serverIn, served, open>>

\* The connection ends (exceptionCaught closes it, or the peer is gone): bytes under
\* way and an unfinished message are dropped.
Close ==
  /\ open
  /\ open' = FALSE
  /\ c2s' = <<>> /\ s2c' = <<>>
  /\ serverIn' = <<>> /\ clientIn' = <<>>
  /\ UNCHANGED <<sent, served, answers>>

Progress == ClientSend \/ ServerRead \/ ServerDecode \/ ClientRead \/ ClientDecode

Next == Progress \/ Close

Spec == Init /\ [][Next]_vars

\* Both event loops run and TCP delivers, while the connection stands.
FairSpec == Spec /\ WF_vars(Progress)

------------------------------------------------------------------------------
(* Properties *)

\* The framed byte streams implement the message link: whatever pieces the bytes come
\* in, each message is received whole, once and in order, and answered once.
Link == INSTANCE MessageLink
LinkSpec == Link!Spec

\* Where the frame of the n-th message ends in all that the client writes.
FrameEnd[n \in 0..Len(Requests)] ==
  IF n = 0 THEN 0 ELSE FrameEnd[n - 1] + Len(Encode(Requests[n]))

\* No byte of a message is left over or missing between the messages: what the server
\* holds and what is under way start at a message's first byte and end at the last's.
InStep == open => FrameEnd[Len(served)] + Len(serverIn) + Len(c2s) = FrameEnd[sent]

\* "每读取到一个Message，会回复一个Message": in the end every message is answered, unless
\* the connection is lost first.
AllAnswered == <>(~open \/ Len(answers) = Len(Requests))
================================================================================
