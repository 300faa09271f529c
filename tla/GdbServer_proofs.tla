--------------------------- MODULE GdbServer_proofs ---------------------------
(***************************************************************************)
(* What every step of the server preserves, whoever its client is: the     *)
(* lemmas that the proofs about GdbServerOpen and GdbSession share.        *)
(***************************************************************************)
EXTENDS GdbServer, TLAPS

(* The server starts well typed. *)
LEMMA ServerInitType == ServerInit => ServerTypeOK
<1> SUFFICES ASSUME ServerInit PROVE ServerTypeOK
  OBVIOUS
<1>1. /\ <<>> \in Seq(Message) /\ Len(<<>>) = 0
      /\ <<>> \in Seq(Packet)
  OBVIOUS
<1>2. c2s \in Seq(Message) /\ Len(c2s) = 0
  BY <1>1 DEF ServerInit, WireInit
<1>3. s2c \in Seq(Packet) /\ cliOpen \in BOOLEAN
  BY <1>1 DEF ServerInit, WireInit
<1>4. got \in 0 .. Len(c2s)
  BY <1>2 DEF ServerInit, StubInit
<1>5. WireTypeOK
  BY <1>2, <1>3 DEF WireTypeOK
<1>6. srv = "listen" /\ noAckMode \in BOOLEAN /\ exeStopped \in BOOLEAN
  BY DEF ServerInit, StubInit
<1>7. cycleLimit \in {0, 1, Inf} /\ instr \in Lines \cup {NoLine} /\ breakpoints \subseteq Nat
  BY DEF ServerInit, HandlerInit
<1>8. ran \in 0 .. 2
  BY DEF ServerInit, HandlerInit
<1> QED
  BY <1>4, <1>5, <1>6, <1>7, <1>8 DEF ServerTypeOK

(* The packets the server sends are well formed. *)
LEMMA AnswerType ==
  ASSUME NEW kind \in ReplyKinds \cup {"stop"}, NEW val \in Nat, NEW m \in Message
  PROVE  Answer(kind, val, m) \in Packet
  BY DEF Answer, Packet

LEMMA StoppedType ==
  ASSUME NEW sig \in Nat
  PROVE  Stopped(sig) \in Packet
  BY DEF Stopped, Packet, Nothing, Request, Message, Ops

LEMMA AckType == Ack \in Packet
  BY DEF Ack, Packet, Nothing, Request, Message, Ops

LEMMA AckedType ==
  ASSUME s2c \in Seq(Packet)
  PROVE  Acked \in Seq(Packet)
  BY AckType DEF Acked

(* The packet at hand is one the client sent. *)
LEMMA HandledPacket ==
  ASSUME ServerTypeOK, srv = "handle"
  PROVE  /\ c2s # <<>>
         /\ Head(c2s) \in Message
         /\ Tail(c2s) \in Seq(Message)
         /\ Len(Tail(c2s)) = Len(c2s) - 1
  BY DEF ServerTypeOK, WireTypeOK

(* A packet handled leaves the wire and the chunk well formed. *)
LEMMA AfterPacketType ==
  ASSUME ServerTypeOK, srv = "handle", AfterPacket
  PROVE  /\ c2s' \in Seq(Message)
         /\ cliOpen' \in BOOLEAN
         /\ srv' \in {"handle", "select", "exec"}
         /\ got' \in 0 .. Len(c2s')
         /\ srv' = "handle" => got' > 0
  BY HandledPacket DEF AfterPacket, ServerTypeOK, WireTypeOK

LEMMA ReplyType ==
  ASSUME ServerTypeOK, srv = "handle",
         NEW kind \in ReplyKinds \cup {"stop"}, NEW val \in Nat,
         Reply(kind, val)
  PROVE  /\ s2c' \in Seq(Packet)
         /\ AfterPacket
<1>1. Acked \in Seq(Packet)
  BY AckedType DEF ServerTypeOK, WireTypeOK
<1>2. Answer(kind, val, Head(c2s)) \in Packet
  BY AnswerType, HandledPacket
<1> QED
  BY <1>1, <1>2 DEF Reply

(* The addresses the server reads out are natural numbers. *)
LEMMA AddressType ==
  ASSUME ServerTypeOK
  PROVE  /\ Pc \in Nat
         /\ instr # NoLine => AddrOf(instr) \in Nat
  BY ProgramAssumption DEF Pc, AddrOf, ServerTypeOK

LEMMA CycleType ==
  ASSUME ServerTypeOK, cycleLimit # 0
  PROVE  CycleSpent \in {0, Inf}
  BY HandlerAssumption DEF CycleSpent, ServerTypeOK

(* Every step of the server keeps the server's type invariant. *)
LEMMA ServerStepType ==
  ASSUME ServerTypeOK, ServerNext
  PROVE  ServerTypeOK'
<1> USE DEF ServerTypeOK, WireTypeOK, wireVars, Handling
<1>1. CASE ServerAccept
  BY <1>1 DEF ServerAccept
<1>2. CASE ServerRecv
  BY <1>2 DEF ServerRecv
<1>3. CASE ServerNoInput
  BY <1>3 DEF ServerNoInput
<1>4. CASE ServerLosesPeer
  BY <1>4 DEF ServerLosesPeer
<1>5. CASE Handle
  <2>1. CASE HandleAck
    BY <2>1, AfterPacketType DEF HandleAck
  <2>2. CASE HandleHaltReason
    BY <2>2, ReplyType, AfterPacketType DEF HandleHaltReason, TRAP
  <2>3. CASE HandleQuery
    BY <2>3, ReplyType, AfterPacketType DEF HandleQuery, ReplyKinds
  <2>4. CASE HandleEmpty
    BY <2>4, ReplyType, AfterPacketType DEF HandleEmpty, ReplyKinds
  <2>5. CASE HandleStartNoAckMode
    BY <2>5, ReplyType, AfterPacketType DEF HandleStartNoAckMode, ReplyKinds
  <2>6. CASE HandleInterrupt
    <3>1. Acked \in Seq(Packet)
      BY AckedType
    <3>2. Answer("ok", 0, Head(c2s)) \in Packet /\ Stopped(INT) \in Packet
      BY <2>6, AnswerType, StoppedType, HandledPacket DEF HandleInterrupt, ReplyKinds, INT
    <3> QED
      BY <2>6, <3>1, <3>2, AfterPacketType DEF HandleInterrupt
  <2>7. CASE HandleStep
    <3>1. s2c' \in Seq(Packet) /\ AfterPacket
      BY <2>7, ReplyType DEF HandleStep, ReplyKinds
    <3>2. ran' \in 0 .. 2 /\ cycleLimit' \in {0, 1, Inf}
      BY <2>7 DEF HandleStep
    <3> QED
      BY <2>7, <3>1, <3>2, AfterPacketType DEF HandleStep
  <2>8. CASE HandleContinue
    <3>1. s2c' \in Seq(Packet) /\ AfterPacket
      BY <2>8, ReplyType DEF HandleContinue, ReplyKinds
    <3>2. ran' \in 0 .. 2 /\ cycleLimit' \in {0, 1, Inf}
      BY <2>8 DEF HandleContinue
    <3> QED
      BY <2>8, <3>1, <3>2, AfterPacketType DEF HandleContinue
  <2>9. CASE HandleAddBreakpoint
    <3>1. Head(c2s).arg \in Nat
      BY <2>9, HandledPacket DEF HandleAddBreakpoint, Message
    <3> QED
      BY <2>9, <3>1, ReplyType, AfterPacketType DEF HandleAddBreakpoint, ReplyKinds
  <2>10. CASE HandleRemoveBreakpoint
    <3>1. (IF Head(c2s).arg \in breakpoints THEN "ok" ELSE "error") \in ReplyKinds
      BY DEF ReplyKinds
    <3> QED
      BY <2>10, <3>1, ReplyType, AfterPacketType DEF HandleRemoveBreakpoint
  <2>11. CASE HandleReadRegisters
    <3>1. (IF instr = NoLine THEN 0 ELSE AddrOf(instr)) \in Nat
      BY AddressType
    <3> QED
      BY <2>11, <3>1, ReplyType, AfterPacketType DEF HandleReadRegisters, ReplyKinds
  <2>12. CASE HandleReadRegister
    <3>1. PICK val \in RegisterReply(Head(c2s).arg) : Reply("hex", val)
      BY <2>12 DEF HandleReadRegister
    <3>2. val \in Nat
      BY <3>1, AddressType, HandlerAssumption DEF RegisterReply
    <3> QED
      BY <2>12, <3>1, <3>2, ReplyType, AfterPacketType DEF HandleReadRegister, ReplyKinds
  <2>13. CASE HandleRaises
    BY <2>13, HandledPacket, AckedType DEF HandleRaises
  <2> QED
    BY <1>5, <2>1, <2>2, <2>3, <2>4, <2>5, <2>6, <2>7, <2>8, <2>9, <2>10, <2>11, <2>12, <2>13
       DEF Handle
<1>6. CASE Execute
  <2>1. ASSUME NEW sig \in Nat, ReportStop(sig)
        PROVE  s2c' \in Seq(Packet) /\ exeStopped' \in BOOLEAN
    BY <2>1, StoppedType DEF ReportStop
  <2>2. CASE ExecLimitReached
    BY <2>1, <2>2 DEF ExecLimitReached, TRAP
  <2>3. CASE ExecEntryBreak
    BY <2>1, <2>3, CycleType, ProgramAssumption DEF ExecEntryBreak, MayRun, TRAP
  <2>4. CASE ExecInstr
    <3>1. Current \in Lines
      BY ProgramAssumption DEF Current
    <3>2. instr' \in Lines
      BY <2>4, <3>1, ProgramAssumption DEF ExecInstr
    <3>3. cycleLimit' \in {0, 1, Inf}
      BY <2>4, CycleType DEF ExecInstr, MayRun
    <3>4. s2c' \in Seq(Packet) /\ exeStopped' \in BOOLEAN
      BY <2>1, <2>4 DEF ExecInstr, TRAP
    <3> QED
      BY <2>4, <3>2, <3>3, <3>4 DEF ExecInstr
  <2>5. CASE ExecRaises
    <3>1. instr' \in Lines \cup {NoLine}
      BY <2>5, ProgramAssumption DEF ExecRaises, Current
    <3>2. cycleLimit' \in {0, 1, Inf}
      BY <2>5, CycleType, HandlerAssumption DEF ExecRaises, MayRun
    <3> QED
      BY <2>1, <2>5, <3>1, <3>2 DEF ExecRaises, SIGKILL
  <2> QED
    BY <1>6, <2>2, <2>3, <2>4, <2>5 DEF Execute
<1> QED
  BY <1>1, <1>2, <1>3, <1>4, <1>5, <1>6 DEF ServerNext

=============================================================================
