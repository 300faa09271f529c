------------------------------ MODULE RspWire ------------------------------
(***************************************************************************)
(* The GDB remote serial protocol between the debugger process             *)
(* (gdbRemoteClient.py) and the server stub inside the simulation          *)
(* (gdbServerStub.py): the packets the two exchange, at the level of       *)
(* "which packet", and the two directions of their one TCP connection.     *)
(*                                                                         *)
(* A TCP direction is a FIFO of packets.  Each side reads it in chunks of  *)
(* up to 1024 bytes; here a chunk holds whole packets.                     *)
(***************************************************************************)
EXTENDS Naturals, Sequences

VARIABLES
  c2s,     \* packets sent by the client that the server has not handled yet
  s2c,     \* packets sent by the server that the client has not taken yet
  cliOpen  \* TRUE while the client's end of the connection is open

wireVars == <<c2s, s2c, cliOpen>>

-----------------------------------------------------------------------------
(* An instruction is named by its code line, and the address the two sides *)
(* exchange for it is eight times that line.                               *)

AddrOf(line) == 8 * line

LineOf(addr) == addr \div 8

-----------------------------------------------------------------------------
(* What a client can send.  "query" stands for every query the stub        *)
(* answers from constants, "unknown" for a packet no pattern matches, and  *)
(* "raising" for one whose handler raises whatever its argument ("G", "m", *)
(* "M", a qSupported with a "-" feature).                                  *)

Ops == {"+", "qSupported", "vMustReplyEmpty", "QStartNoAckMode",
        "c", "s", "vCtrlC", "Z", "z", "p", "g", "?",
        "query", "unknown", "raising"}

Request(op, arg) == [op |-> op, arg |-> arg]

Message == [op : Ops, arg : Nat]

ClientAck == Request("+", 0)

Asks(m) == m.op # "+"

(* What the server can send.  "re" is no part of the packet: it records    *)
(* which request the packet answers, so that properties can tell a reply   *)
(* taken by its own caller from one taken by somebody else.                *)

INT == 2

TRAP == 5

SIGKILL == 9

ReplyKinds == {"ok", "error", "hex", "text", "empty"}

Packet == [kind : {"ack", "stop"} \cup ReplyKinds, val : Nat, re : Message]

Nothing == Request("+", 0)

Ack == [kind |-> "ack", val |-> 0, re |-> Nothing]

Stopped(sig) == [kind |-> "stop", val |-> sig, re |-> Nothing]

Answer(kind, val, m) == [kind |-> kind, val |-> val, re |-> m]

IsAnswer(p) == Asks(p.re)

IsReport(p) == p.kind = "stop" /\ ~IsAnswer(p)

WireTypeOK ==
  /\ c2s \in Seq(Message)
  /\ s2c \in Seq(Packet)
  /\ cliOpen \in BOOLEAN

WireInit == c2s = <<>> /\ s2c = <<>> /\ cliOpen = FALSE

=============================================================================
