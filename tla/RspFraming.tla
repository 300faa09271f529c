----------------------------- MODULE RspFraming -----------------------------
(***************************************************************************)
(* The connection of module RspWire byte by byte: how packets are put on   *)
(* the wire (gdbRemoteMessages.py), how GDBServerStub.onData and           *)
(* GdbRemoteClient.receivePkt find them again in what recv returns, and    *)
(* what becomes of a packet that recv returns a part of.                   *)
(*                                                                         *)
(* RspWire is this module seen from where no packet is cut.                *)
(***************************************************************************)
EXTENDS Integers, Subsequences

CONSTANTS
  Requests,   \* bodies of the packets the client sends, as character codes
  Replies,    \* bodies of the packets the stub answers with
  Report,     \* body of a stop report, which nobody asks for
  Chunk,      \* what one recv returns at most, 1024 in the code
  Window,     \* requests without an answer: one per waiting call of receivePkt
  MaxSent,    \* bound: requests in a session
  MaxReports  \* bound: stop reports in a session

Char == 0 .. 127

Dollar == 36

Hash == 35

Plus == 43

Bodies == Requests \cup Replies \cup {Report}

(* gdbMessageEscape replaces nothing: its table has strings for keys where *)
(* str.translate looks for numbers.  No body the two programs exchange     *)
(* needs escaping but the name of a register that holds one of these.      *)
ASSUME FramingAssumption ==
  /\ Bodies \subseteq Seq(Char \ {Dollar, Hash})
  /\ Report \notin Replies
  /\ {Chunk, Window} \subseteq Nat \ {0}
  /\ {MaxSent, MaxReports} \subseteq Nat

VARIABLES
  cuts,          \* does the network cut what was written in one go, or join only
  noAckMode,
  toServer,      \* bytes under way to the stub
  toClient,      \* bytes under way to the client
  srv,           \* select, data (in onData), reply (in handlePacket), down
  inp,           \* what onData has not looked at of the chunk
  cli,           \* up, down
  receiveBuffer,
  waiting,       \* calls that wait for an answer
  split,         \* history: has a recv returned a part of what was there
  asked,         \* history: bodies the client has sent
  handled,       \* history: bodies handlePacket was called with
  replied,       \* history: bodies the stub has sent
  taken          \* history: bodies receivePkt has returned

vars == <<cuts, noAckMode, toServer, toClient, srv, inp, cli, receiveBuffer,
          waiting, split, asked, handled, replied, taken>>

clientVars == <<cli, receiveBuffer, waiting, asked, taken>>

stubVars == <<srv, inp, handled, replied>>

FramingTypeOK ==
  /\ {cuts, noAckMode, split} \subseteq BOOLEAN
  /\ {toServer, toClient, inp, receiveBuffer} \subseteq Seq(Char)
  /\ srv \in {"select", "data", "reply", "down"}
  /\ cli \in {"up", "down"}
  /\ waiting \in 0 .. Window
  /\ {asked, handled} \subseteq Seq(Requests)
  /\ {replied, taken} \subseteq Seq(Replies \cup {Report})

Init ==
  /\ cuts \in BOOLEAN
  /\ noAckMode \in BOOLEAN
  /\ toServer = <<>> /\ toClient = <<>>
  /\ srv = "select" /\ inp = <<>>
  /\ cli = "up" /\ receiveBuffer = <<>> /\ waiting = 0
  /\ split = FALSE
  /\ asked = <<>> /\ handled = <<>> /\ replied = <<>> /\ taken = <<>>

-----------------------------------------------------------------------------
(* Packets.                                                                *)

(* gdbReplyComputeChecksum's sum after each number of characters.          *)
Sums(body) ==
  LET sum[n \in 0 .. Len(body)] == IF n = 0 THEN 0 ELSE (sum[n - 1] + body[n]) % 256
  IN  sum

Checksum(body) == Sums(body)[Len(body)]

HexDigit(d) == IF d < 10 THEN 48 + d ELSE 87 + d

Digits(n) == <<HexDigit(n \div 16), HexDigit(n % 16)>>

(* gdbPacketReply *)
Packet(body) == <<Dollar>> \o body \o <<Hash>> \o Digits(Checksum(body))

Alphanumeric == (48 .. 57) \cup (65 .. 90) \cup (97 .. 122)

(* Mutant of Matches: the packet is searched for, not matched.             *)
MatchesAnywhere(s) ==
  { h \in 2 .. Len(s) - 2 :
      /\ s[h] = Hash
      /\ \A i \in 2 .. h - 1 : s[i] # Hash
      /\ {s[h + 1], s[h + 2]} \subseteq Alphanumeric }

(* The places of the hash where the pattern of gdbParserReply matches a    *)
(* beginning of s; there is one at most.                                   *)
Matches(s) ==
  { h \in 2 .. Len(s) - 2 :
      /\ s[1] = Dollar /\ s[h] = Hash
      /\ \A i \in 2 .. h - 1 : s[i] # Hash
      /\ {s[h + 1], s[h + 2]} \subseteq Alphanumeric }

Intact(s, h) == SubSeq(s, h + 1, h + 2) = Digits(Checksum(SubSeq(s, 2, h - 1)))

After(s, h) == SubSeq(s, h + 3, Len(s))

(* How many bytes of a stream recv returns: what is there, up to a chunk.  *)
Returned(stream) ==
  LET most == IF Len(stream) < Chunk THEN Len(stream) ELSE Chunk
  IN  IF cuts THEN 1 .. most ELSE {most}

Rest(stream, n) == SubSeq(stream, n + 1, Len(stream))

-----------------------------------------------------------------------------
(* The client.                                                             *)

ClientSend ==
  /\ cli = "up"
  /\ waiting < Window /\ Len(asked) < MaxSent
  /\ \E body \in Requests :
       /\ toServer' = toServer \o Packet(body)
       /\ asked' = Append(asked, body)
  /\ waiting' = waiting + 1
  /\ UNCHANGED <<cuts, noAckMode, toClient, stubVars, cli, receiveBuffer, split, taken>>

ClientRecv ==
  /\ cli = "up"
  /\ receiveBuffer = <<>> /\ toClient # <<>>
  /\ \E n \in Returned(toClient) :
       /\ receiveBuffer' = SubSeq(toClient, 1, n)
       /\ toClient' = Rest(toClient, n)
       /\ split' = (split \/ n < Len(toClient))
  /\ UNCHANGED <<cuts, noAckMode, toServer, stubVars, cli, waiting, asked, taken>>

Looking == cli = "up" /\ receiveBuffer # <<>>

ClientAck ==
  /\ Looking
  /\ Head(receiveBuffer) = Plus
  /\ receiveBuffer' = Tail(receiveBuffer)
  /\ UNCHANGED <<cuts, noAckMode, toServer, toClient, stubVars, cli, waiting, split, asked, taken>>

(* Mutants of ClientPacket: a stop report counts as an answer, or the      *)
(* buffer is emptied with its first packet.                                *)
ClientPacketCounts ==
  /\ Looking
  /\ \E h \in Matches(receiveBuffer) :
       /\ Intact(receiveBuffer, h)
       /\ taken' = Append(taken, SubSeq(receiveBuffer, 2, h - 1))
       /\ waiting' = waiting - 1
       /\ receiveBuffer' = After(receiveBuffer, h)
  /\ UNCHANGED <<cuts, noAckMode, toServer, toClient, stubVars, cli, split, asked>>

ClientPacketOnly ==
  /\ Looking
  /\ \E h \in Matches(receiveBuffer) :
       LET body == SubSeq(receiveBuffer, 2, h - 1)
       IN  /\ Intact(receiveBuffer, h)
           /\ taken' = Append(taken, body)
           /\ waiting' = IF body = Report THEN waiting ELSE waiting - 1
           /\ receiveBuffer' = <<>>
  /\ UNCHANGED <<cuts, noAckMode, toServer, toClient, stubVars, cli, split, asked>>

ClientPacket ==
  /\ Looking
  /\ \E h \in Matches(receiveBuffer) :
       LET body == SubSeq(receiveBuffer, 2, h - 1)
       IN  /\ Intact(receiveBuffer, h)
           /\ taken' = Append(taken, body)
           /\ waiting' = IF body = Report THEN waiting ELSE waiting - 1
           /\ receiveBuffer' = After(receiveBuffer, h)
  /\ UNCHANGED <<cuts, noAckMode, toServer, toClient, stubVars, cli, split, asked>>

(* "Invalid packet", or an invalid checksum: an assertion fails.           *)
ClientFails ==
  /\ Looking
  /\ Head(receiveBuffer) # Plus
  /\ \A h \in Matches(receiveBuffer) : ~Intact(receiveBuffer, h)
  /\ cli' = "down"
  /\ UNCHANGED <<cuts, noAckMode, toServer, toClient, stubVars, receiveBuffer,
                 waiting, split, asked, taken>>

-----------------------------------------------------------------------------
(* The stub.                                                               *)

StubRecv ==
  /\ srv = "select"
  /\ toServer # <<>>
  /\ \E n \in Returned(toServer) :
       /\ inp' = SubSeq(toServer, 1, n)
       /\ toServer' = Rest(toServer, n)
       /\ split' = (split \/ n < Len(toServer))
  /\ srv' = "data"
  /\ UNCHANGED <<cuts, noAckMode, toClient, clientVars, handled, replied>>

InData == srv = "data" /\ inp # <<>>

OnDataAck ==
  /\ InData
  /\ Head(inp) = Plus
  /\ inp' = Tail(inp)
  /\ UNCHANGED <<cuts, noAckMode, toServer, toClient, srv, clientVars, split, handled, replied>>

Acked == IF noAckMode THEN toClient ELSE Append(toClient, Plus)

(* Mutants of OnDataPacket: the packet stays in the chunk, or the rest of  *)
(* the chunk goes with it.                                                 *)
OnDataPacketKeeps ==
  /\ InData
  /\ \E h \in Matches(inp) :
       /\ Intact(inp, h)
       /\ handled' = Append(handled, SubSeq(inp, 2, h - 1))
  /\ toClient' = Acked
  /\ srv' = "reply"
  /\ UNCHANGED <<cuts, noAckMode, toServer, clientVars, inp, split, replied>>

OnDataPacketOnly ==
  /\ InData
  /\ \E h \in Matches(inp) :
       /\ Intact(inp, h)
       /\ handled' = Append(handled, SubSeq(inp, 2, h - 1))
       /\ inp' = <<>>
  /\ toClient' = Acked
  /\ srv' = "reply"
  /\ UNCHANGED <<cuts, noAckMode, toServer, clientVars, split, replied>>

OnDataPacket ==
  /\ InData
  /\ \E h \in Matches(inp) :
       /\ Intact(inp, h)
       /\ handled' = Append(handled, SubSeq(inp, 2, h - 1))
       /\ inp' = After(inp, h)
  /\ toClient' = Acked
  /\ srv' = "reply"
  /\ UNCHANGED <<cuts, noAckMode, toServer, clientVars, split, replied>>

SendPacket(body) ==
  /\ toClient' = toClient \o Packet(body)
  /\ replied' = Append(replied, body)

StubReply ==
  /\ srv = "reply"
  /\ \E body \in Replies : SendPacket(body)
  /\ srv' = "data"
  /\ UNCHANGED <<cuts, noAckMode, toServer, clientVars, inp, split, handled>>

(* A packet with a wrong checksum ends the stub, anything else is ignored  *)
(* with the rest of the chunk.                                             *)
OnDataUnknown ==
  /\ InData
  /\ Head(inp) # Plus
  /\ \A h \in Matches(inp) : ~Intact(inp, h)
  /\ IF Matches(inp) = {}
     THEN inp' = <<>> /\ UNCHANGED srv
     ELSE srv' = "down" /\ UNCHANGED inp
  /\ UNCHANGED <<cuts, noAckMode, toServer, toClient, clientVars, split, handled, replied>>

(* The chunk is used up; then an instruction runs, which may end in a stop *)
(* report.                                                                 *)
OnDataDone ==
  /\ srv = "data" /\ inp = <<>>
  /\ srv' = "select"
  /\ \/ UNCHANGED <<toClient, replied>>
     \/ /\ Cardinality(Places(replied, {Report})) < MaxReports
        /\ SendPacket(Report)
  /\ UNCHANGED <<cuts, noAckMode, toServer, clientVars, inp, split, handled>>

-----------------------------------------------------------------------------
Client == ClientRecv \/ ClientAck \/ ClientPacket \/ ClientFails

Stub ==
  \/ StubRecv
  \/ OnDataAck
  \/ OnDataPacket
  \/ StubReply
  \/ OnDataUnknown
  \/ OnDataDone

Next == ClientSend \/ Client \/ Stub

(* recv returns when bytes are there, and neither side stops in between.   *)
Spec == Init /\ [][Next]_vars /\ WF_vars(Client) /\ WF_vars(Stub)

-----------------------------------------------------------------------------
(* The bytes of a sequence of packets.                                     *)
Streams(bodies) ==
  LET stream[n \in 0 .. Len(bodies)] ==
        IF n = 0 THEN <<>> ELSE stream[n - 1] \o Packet(bodies[n])
  IN  stream

Stream(bodies) == Streams(bodies)[Len(bodies)]

WithoutAcks(stream) == Only(stream, Char \ {Plus})

(* a is b with some of its elements left out.                              *)
Within(a, b) ==
  \E at \in [1 .. Len(a) -> 1 .. Len(b)] :
    /\ \A i \in 1 .. Len(a) : a[i] = b[at[i]]
    /\ \A i, j \in 1 .. Len(a) : i < j => at[i] < at[j]

(* Wherever the network cuts the streams, neither side ever takes the rest *)
(* of one packet, or the end of one and the beginning of another, for a    *)
(* packet: what is handled was sent, in that order, once.  onData keeps    *)
(* nothing of a chunk and receivePkt raises, and both rely on it.          *)
NothingInvented == Within(handled, asked) /\ Within(taken, replied)

(* The stub outlives every cut: onData ignores what it does not know, and  *)
(* what is left of a packet never passes for one with a wrong checksum.    *)
StubSurvives == srv # "down"

(* As long as recv has always returned all there was, every request sent   *)
(* is handled or still on its way, none is skipped with the rest of a      *)
(* chunk, and every answer reaches the client.                             *)
NothingLost ==
  ~split =>
    /\ Stream(SubSeq(asked, Len(handled) + 1, Len(asked))) = inp \o toServer
    /\ WithoutAcks(receiveBuffer \o toClient)
         = WithoutAcks(Stream(SubSeq(replied, Len(taken) + 1, Len(replied))))
    /\ cli = "up"

(* ... and every call gets its answer.  (A call whose request or answer is *)
(* cut waits for ever, or ends the client.)                                *)
Answered == Cardinality(Places(taken, Replies))

CallsReturn == []~split => \A n \in 1 .. MaxSent : (Len(asked) >= n ~> Answered >= n)

(* Where complete packets begin in s.                                      *)
Packets(s) ==
  { i \in 1 .. Len(s) : LET rest == SubSeq(s, i, Len(s))
                        IN  \E h \in Matches(rest) : Intact(rest, h) }

(* "Process all packets in data", as onData says of itself: every complete *)
(* packet of a chunk is handled, with cuts too, unless the chunk or what   *)
(* is left of it begins inside another packet.  Behind the rest of a cut   *)
(* one they are ignored with it.                                           *)
AllProcessed ==
  [][InData /\ Head(inp) \in {Dollar, Plus}
       => Cardinality(Packets(inp)) + Len(handled)
            = Cardinality(Packets(inp')) + Len(handled')]_vars

=============================================================================
