------------------------ MODULE GdbSessionSync_proofs ------------------------
(***************************************************************************)
(* With a polite front-end every call takes its own reply and the debugger *)
(* survives, for every program that runs for ever.  With one that also     *)
(* interrupts the program and changes breakpoints while it runs, and for   *)
(* any program, what is shown and listed is what the server has, and a     *)
(* reply that a wrong call takes is noticed.  There may be any number of   *)
(* registers, breakpoints and terminals.                                   *)
(***************************************************************************)
EXTENDS GdbSessionSync, GdbSession_proofs

-----------------------------------------------------------------------------
(* Short sequences.                                                        *)

LEMMA EmptyLength ==
  ASSUME NEW T, NEW s \in Seq(T)
  PROVE  s = <<>> <=> Len(s) = 0
  OBVIOUS

LEMMA TailElements ==
  ASSUME NEW T, NEW s \in Seq(T), s # <<>>
  PROVE  /\ Head(s) = s[1] /\ Head(s) \in T /\ Len(s) \in Nat \ {0}
         /\ Tail(s) \in Seq(T) /\ Len(Tail(s)) = Len(s) - 1
         /\ \A i \in 1 .. Len(s) - 1 : Tail(s)[i] = s[i + 1]
  OBVIOUS

LEMMA AppendElements ==
  ASSUME NEW T, NEW s \in Seq(T), NEW e \in T
  PROVE  /\ Append(s, e) \in Seq(T) /\ Append(s, e) # <<>>
         /\ Len(Append(s, e)) = Len(s) + 1 /\ Append(s, e)[Len(s) + 1] = e
         /\ \A i \in 1 .. Len(s) : Append(s, e)[i] = s[i]
  OBVIOUS

-----------------------------------------------------------------------------
(* What the server does with the requests of a session.                    *)

Waits ==
  UNCHANGED <<c2s, s2c, noAckMode, exeStopped, instr, breakpoints>>

SkipsAck ==
  /\ c2s # <<>> /\ ~Asks(Head(c2s))
  /\ c2s' = Tail(c2s)
  /\ UNCHANGED <<s2c, noAckMode, exeStopped, instr, breakpoints>>

AnswerKinds(m) ==
  CASE m.op = "qSupported" -> {"text"}
    [] m.op = "vMustReplyEmpty" -> {"empty"}
    [] m.op = "p" -> {"hex"}
    [] m.op = "z" /\ m.arg \notin breakpoints -> {"error"}
    [] OTHER -> {"ok"}

Serves(m) ==
  /\ c2s # <<>> /\ m = Head(c2s) /\ Asks(m) /\ ~Raising(m) /\ m.op # "vCtrlC"
  /\ c2s' = Tail(c2s)
  /\ \E kind \in AnswerKinds(m), val \in Nat :
       /\ s2c' = Append(Acked, Answer(kind, val, m))
       /\ m.op = "p" /\ m.arg = 0 => val = Pc
  /\ noAckMode' = (noAckMode \/ m.op = "QStartNoAckMode")
  /\ exeStopped' = (exeStopped /\ ~Resumes(m))
  /\ breakpoints' = IF m.op = "Z" THEN breakpoints \cup {m.arg}
                    ELSE IF m.op = "z" THEN breakpoints \ {m.arg} ELSE breakpoints
  /\ UNCHANGED instr

Interrupts(m) ==
  /\ c2s # <<>> /\ m = Head(c2s) /\ m.op = "vCtrlC"
  /\ c2s' = Tail(c2s)
  /\ s2c' = Append(Append(Acked, Answer("ok", 0, m)), Stopped(INT))
  /\ exeStopped'
  /\ UNCHANGED <<noAckMode, instr, breakpoints>>

Fails(m) ==
  /\ c2s # <<>> /\ m = Head(c2s) /\ Raising(m)
  /\ s2c' = Acked /\ srv' = "closed"

Executes ==
  /\ srv = "exec" /\ ~exeStopped
  /\ UNCHANGED <<c2s, noAckMode, breakpoints>>
  /\ \/ UNCHANGED s2c /\ ~exeStopped'
     \/ \E sig \in Nat : s2c' = Append(s2c, Stopped(sig)) /\ exeStopped'

LEMMA SessionHandle ==
  ASSUME SessionTypeOK, Handle, Head(c2s).op \in ClientOps
  PROVE  \/ srv' # "closed" /\ (SkipsAck \/ Serves(Head(c2s)) \/ Interrupts(Head(c2s)))
         \/ Fails(Head(c2s))
<1> USE DEF Handling, Asks, ClientOps
<1>0. srv = "handle"
  BY DEF Handle, HandleAck, HandleHaltReason, HandleQuery, HandleEmpty, HandleStartNoAckMode,
         HandleInterrupt, HandleStep, HandleContinue, HandleAddBreakpoint, HandleRemoveBreakpoint,
         HandleReadRegisters, HandleReadRegister, HandleRaises
<1>t. /\ c2s # <<>> /\ Head(c2s) \in Message
      /\ noAckMode \in BOOLEAN /\ exeStopped \in BOOLEAN
  BY <1>0, HandledPacket DEF SessionTypeOK, ServerTypeOK
<1>r. ASSUME NEW kind, NEW val, Reply(kind, val)
      PROVE  /\ s2c' = Append(Acked, Answer(kind, val, Head(c2s)))
             /\ c2s' = Tail(c2s) /\ srv' # "closed"
  BY <1>r DEF Reply, AfterPacket
<1>1. CASE HandleAck
  BY <1>1, <1>t DEF HandleAck, AfterPacket, SkipsAck
<1>2. CASE HandleHaltReason \/ HandleReadRegisters
  BY <1>2 DEF HandleHaltReason, HandleReadRegisters
<1>3. CASE HandleQuery
  BY <1>3, <1>r, <1>t DEF HandleQuery, Queries, Serves, AnswerKinds, Resumes, Raising
<1>4. CASE HandleEmpty
  BY <1>4, <1>r, <1>t DEF HandleEmpty, Serves, AnswerKinds, Resumes, Raising
<1>5. CASE HandleStartNoAckMode
  BY <1>5, <1>r, <1>t DEF HandleStartNoAckMode, Serves, AnswerKinds, Resumes, Raising
<1>6. CASE HandleInterrupt
  BY <1>6, <1>t DEF HandleInterrupt, AfterPacket, Interrupts
<1>7. CASE HandleStep
  BY <1>7, <1>r, <1>t DEF HandleStep, Serves, AnswerKinds, Resumes, Raising
<1>8. CASE HandleContinue
  BY <1>8, <1>r, <1>t DEF HandleContinue, Serves, AnswerKinds, Resumes, Raising
<1>9. CASE HandleAddBreakpoint
  BY <1>9, <1>r, <1>t DEF HandleAddBreakpoint, Serves, AnswerKinds, Resumes, Raising
<1>10. CASE HandleRemoveBreakpoint
  <2>1. (IF Head(c2s).arg \in breakpoints THEN "ok" ELSE "error") \in AnswerKinds(Head(c2s))
    BY <1>10 DEF HandleRemoveBreakpoint, AnswerKinds
  <2> QED
    BY <1>10, <2>1, <1>r, <1>t DEF HandleRemoveBreakpoint, Serves, Resumes, Raising
<1>11. CASE HandleRaises
  BY <1>11, <1>t DEF HandleRaises, Fails
<1>12. CASE HandleReadRegister
  <2>1. PICK val \in RegisterReply(Head(c2s).arg) : Reply("hex", val)
    BY <1>12 DEF HandleReadRegister
  <2>2. val \in Nat /\ (Head(c2s).arg = 0 => val = Pc)
    BY <2>1, AddressType, HandlerAssumption DEF RegisterReply, SessionTypeOK
  <2>3. "hex" \in AnswerKinds(Head(c2s))
    BY <1>12 DEF HandleReadRegister, AnswerKinds
  <2>4. ~Raising(Head(c2s))
    <3>1. Head(c2s).arg \in Nat /\ NumRegs \in Nat
      BY <1>t, HandlerAssumption DEF Message
    <3> QED
      BY <1>12, <3>1 DEF HandleReadRegister, Raising
  <2> QED
    BY <1>12, <1>t, <1>r, <2>1, <2>2, <2>3, <2>4 DEF HandleReadRegister, Serves, Resumes
<1> QED
  BY <1>1, <1>2, <1>3, <1>4, <1>5, <1>6, <1>7, <1>8, <1>9, <1>10, <1>11, <1>12 DEF Handle

LEMMA SessionExecute ==
  ASSUME SessionTypeOK, LoopShape, Execute
  PROVE  Executes /\ (Polite => srv' # "closed")
<1>1. Polite => ~ExecRaises
  <2>1. Current \in Lines
    BY ProgramAssumption DEF Current, SessionTypeOK, ServerTypeOK
  <2> QED
    BY <2>1 DEF ExecRaises, Polite
<1>2. srv = "exec" /\ ~exeStopped
  BY DEF Execute, MayRun, ExecLimitReached, ExecEntryBreak, ExecInstr, ExecRaises, LoopShape
<1>3. ASSUME NEW sig \in Nat, ReportStop(sig)
      PROVE  \E n \in Nat : s2c' = Append(s2c, Stopped(n)) /\ exeStopped'
  BY <1>3 DEF ReportStop
<1>4. CASE ExecLimitReached
  BY <1>2, <1>3, <1>4 DEF ExecLimitReached, Executes, TRAP
<1>5. CASE ExecEntryBreak
  BY <1>2, <1>3, <1>5 DEF ExecEntryBreak, Executes, TRAP
<1>6. CASE ExecInstr
  BY <1>2, <1>3, <1>6 DEF ExecInstr, Executes, TRAP
<1>7. CASE ExecRaises
  BY <1>1, <1>2, <1>3, <1>7 DEF ExecRaises, Executes, SIGKILL
<1> QED
  BY <1>4, <1>5, <1>6, <1>7 DEF Execute

(* A step of the server while the client is there. *)
LEMMA SessionServerStep ==
  ASSUME SessionTypeOK, Accounting, cliOpen, ServerNext
  PROVE  /\ cliOpen' = cliOpen
         /\ Polite /\ srv' = "closed" => Fails(Head(c2s))
         /\ Waits \/ SkipsAck \/ Serves(Head(c2s)) \/ Executes \/ Interrupts(Head(c2s)) \/ Fails(Head(c2s))
<1>1. cliOpen' = cliOpen
  BY ServerModes DEF SessionTypeOK, Accounting
<1>2. CASE Handle
  <2>1. srv = "handle"
    BY <1>2
       DEF Handle, Handling, HandleAck, HandleHaltReason, HandleQuery, HandleEmpty,
           HandleStartNoAckMode, HandleInterrupt, HandleStep, HandleContinue,
           HandleAddBreakpoint, HandleRemoveBreakpoint, HandleReadRegisters,
           HandleReadRegister, HandleRaises
  <2>2. c2s # <<>> /\ c2s \in Seq(Message)
    BY <2>1, HandledPacket DEF SessionTypeOK, ServerTypeOK, WireTypeOK
  <2>3. Head(c2s) = c2s[1] /\ Len(c2s) \in Nat \ {0}
    BY <2>2, TailElements
  <2>4. Head(c2s).op \in ClientOps
    BY <2>3 DEF Accounting, ClientSends
  <2> QED
    BY <1>1, <1>2, <2>4, SessionHandle
<1>3. CASE Execute
  BY <1>1, <1>3, SessionExecute DEF Accounting
<1>4. CASE ServerAccept \/ ServerRecv \/ ServerNoInput \/ ServerLosesPeer
  BY <1>1, <1>4 DEF ServerAccept, ServerRecv, ServerNoInput, ServerLosesPeer, Waits, wireVars
<1> QED
  BY <1>2, <1>3, <1>4 DEF ServerNext

(* Neither fails nor interrupts: the requests of a polite session.         *)
PoliteRequest(m) == m.op \in ClientOps \ {"vCtrlC"} /\ (m.op = "p" => m.arg <= NumRegs)

LEMMA PoliteIsServed ==
  ASSUME NEW m \in Message, PoliteRequest(m)
  PROVE  ~Fails(m) /\ ~Interrupts(m)
<1>1. m.arg \in Nat /\ NumRegs \in Nat
  BY HandlerAssumption DEF Message
<1>2. ~Raising(m)
  BY <1>1 DEF Raising, PoliteRequest, ClientOps
<1> QED
  BY <1>2 DEF Fails, Interrupts, PoliteRequest

LEMMA PoliteServerStep ==
  ASSUME SessionTypeOK, Accounting, cliOpen, ServerNext,
         c2s # <<>> => PoliteRequest(Head(c2s))
  PROVE  /\ Polite => srv' # "closed"
         /\ Waits \/ SkipsAck \/ Serves(Head(c2s)) \/ Executes
<1>1. c2s # <<>> => Head(c2s) \in Message
  BY TailElements DEF SessionTypeOK, ServerTypeOK, WireTypeOK
<1>2. ~Fails(Head(c2s)) /\ ~Interrupts(Head(c2s))
  BY <1>1, PoliteIsServed DEF Fails, Interrupts
<1> QED
  BY <1>2, SessionServerStep

-----------------------------------------------------------------------------
(* What is on the wire in a polite session.                                *)

LEMMA CallerType ==
  ASSUME SessionTypeOK, frames # <<>>
  PROVE  Caller \in Frame /\ Caller = Head(frames) /\ Caller.req \in Message
<1>1. frames \in Seq(Frame)
  BY DEF SessionTypeOK
<1>2. frames[1] \in Frame /\ Head(frames) = frames[1]
  BY <1>1, TailElements
<1> QED
  BY <1>2 DEF Caller, Frame

LEMMA OneCallShape ==
  ASSUME SessionTypeOK, OneCall
  PROVE  frames # <<>> /\ Caller \in Frame /\ Caller.req \in Message
<1>1. frames # <<>>
  BY NotEmpty DEF OneCall
<1> QED
  BY <1>1, CallerType

LEMMA WireType ==
  ASSUME SessionTypeOK
  PROVE  /\ c2s \in Seq(Message) /\ s2c \in Seq(Packet)
         /\ Len(c2s) \in Nat /\ Len(s2c) \in Nat
         /\ c2s = <<>> <=> Len(c2s) = 0
         /\ s2c = <<>> <=> Len(s2c) = 0
<1>1. c2s \in Seq(Message) /\ s2c \in Seq(Packet)
  BY DEF SessionTypeOK, ServerTypeOK, WireTypeOK
<1> QED
  BY <1>1, EmptyLength

LEMMA AskingHead ==
  ASSUME SessionTypeOK, NEW m, Asking(m)
  PROVE  /\ c2s # <<>> /\ Head(c2s) \in {m, ClientAck}
         /\ Len(c2s) = 2 => Head(c2s) = ClientAck
         /\ Len(c2s) = 1 => Head(c2s) = m
<1>1. c2s # <<>>
  BY WireType DEF Asking
<1>2. Head(c2s) = c2s[1]
  BY <1>1, WireType, TailElements
<1> QED
  BY <1>1, <1>2 DEF Asking

LEMMA ClientAckAsksNothing ==
  /\ ~Asks(ClientAck) /\ PoliteRequest(ClientAck) /\ ClientAck \in Message
  BY RequestType DEF ClientAck, Request, Asks, PoliteRequest, ClientOps, Ops

(* The calls of a polite session wait for an answer to a polite request.   *)
LEMMA CallsArePolite ==
  ASSUME Locating \/ Commanding \/ Shaking
  PROVE  PoliteRequest(Caller.req) /\ Asks(Caller.req)
<1> USE DEF PoliteRequest, Asks, ClientOps
<1>1. CASE Locating
  BY <1>1, HandlerAssumption DEF Locating, Waiting, Request
<1>2. CASE Commanding
  BY <1>2 DEF Commanding, CommandCall
<1>3. CASE Shaking
  BY <1>3 DEF Shaking, Request
<1> QED
  BY <1>1, <1>2, <1>3

LEMMA TurnsArePolite ==
  ASSUME SessionTypeOK, Resting \/ Moving \/ Locating \/ Commanding \/ Shaking, c2s # <<>>
  PROVE  PoliteRequest(Head(c2s))
<1>1. CASE Resting
  <2>1. c2s[1] = Head(c2s)
    BY WireType, TailElements
  <2> QED
    BY <1>1, <2>1, ClientAckAsksNothing DEF Resting
<1>2. CASE Moving
  BY <1>2 DEF Moving
<1>3. CASE Locating \/ Commanding \/ Shaking
  <2>1. Asking(Caller.req)
    BY <1>3 DEF Locating, Commanding, Shaking, Answering
  <2> QED
    BY <1>3, <2>1, AskingHead, CallsArePolite, ClientAckAsksNothing
<1> QED
  BY <1>1, <1>2, <1>3

(* A request under way stays under way until it is answered.               *)
LEMMA AskingStep ==
  ASSUME SessionTypeOK, SessionTypeOK', NEW m, Asking(m), Asks(m),
         Waits \/ SkipsAck \/ Serves(Head(c2s)) \/ Executes
  PROVE  \/ Asking(m)' /\ UNCHANGED <<s2c, noAckMode, exeStopped, instr, breakpoints>>
         \/ Serves(m) /\ c2s' = <<>>
<1>1. /\ c2s # <<>> /\ Head(c2s) \in {m, ClientAck}
      /\ Len(c2s) = 2 => Head(c2s) = ClientAck
      /\ Len(c2s) = 1 => Head(c2s) = m
  BY AskingHead
<1>2. /\ Tail(c2s) \in Seq(Message) /\ Len(Tail(c2s)) = Len(c2s) - 1
      /\ \A i \in 1 .. Len(c2s) - 1 : Tail(c2s)[i] = c2s[i + 1]
      /\ Len(c2s) \in {1, 2}
  BY <1>1, WireType, TailElements DEF Asking
<1>3. CASE Waits
  BY <1>3 DEF Waits, Asking
<1>4. CASE SkipsAck
  <2>1. Head(c2s) = ClientAck /\ Len(c2s) = 2
    BY <1>1, <1>2, <1>4 DEF SkipsAck
  <2>2. Len(c2s') = 1 /\ c2s'[1] = m
    BY <1>2, <1>4, <2>1 DEF SkipsAck, Asking
  <2> QED
    BY <1>4, <2>2 DEF SkipsAck, Asking
<1>5. CASE Serves(Head(c2s))
  <2>1. Head(c2s) = m /\ Len(c2s) = 1
    BY <1>1, <1>2, <1>5, ClientAckAsksNothing DEF Serves
  <2>2. c2s' = Tail(c2s)
    BY <1>5 DEF Serves
  <2>3. Tail(c2s) = <<>>
    <3>1. Len(Tail(c2s)) = 0 /\ Tail(c2s) \in Seq(Message)
      BY <1>2, <2>1
    <3> QED
      BY <3>1, EmptyLength
  <2> QED
    BY <1>5, <2>1, <2>2, <2>3
<1>6. CASE Executes
  BY <1>6 DEF Executes, Asking
<1> QED
  BY <1>3, <1>4, <1>5, <1>6

(* The answer to a call that is no part of the handshake.                  *)
LEMMA Answered ==
  ASSUME SessionTypeOK, NEW m \in Message, Serves(m), s2c = <<>>
  PROVE  \E kind \in AnswerKinds(m), val \in Nat :
           /\ m.op = "p" /\ m.arg = 0 => val = Pc
           /\ noAckMode  => Len(s2c') = 1 /\ s2c'[1] = Answer(kind, val, m)
           /\ ~noAckMode => Len(s2c') = 2 /\ s2c'[1] = Ack /\ s2c'[2] = Answer(kind, val, m)
<1>1. PICK kind \in AnswerKinds(m), val \in Nat :
        /\ s2c' = Append(Acked, Answer(kind, val, m))
        /\ m.op = "p" /\ m.arg = 0 => val = Pc
  BY DEF Serves
<1>2. AnswerKinds(m) \subseteq ReplyKinds
  BY DEF AnswerKinds, ReplyKinds
<1>3. Answer(kind, val, m) \in Packet
  BY <1>2, AnswerType
<1>4. Acked \in Seq(Packet) /\ Len(s2c) = 0
  BY WireType, AckedType
<1>5. /\ Len(s2c') = Len(Acked) + 1 /\ s2c'[Len(Acked) + 1] = Answer(kind, val, m)
      /\ \A i \in 1 .. Len(Acked) : s2c'[i] = Acked[i]
  BY <1>1, <1>3, <1>4, AppendElements
<1>6. CASE noAckMode
  BY <1>1, <1>4, <1>5, <1>6 DEF Acked
<1>7. CASE ~noAckMode
  <2>1. Acked = Append(s2c, Ack)
    BY <1>7 DEF Acked
  <2>2. Len(Acked) = 1 /\ Acked[1] = Ack
    BY <1>4, <2>1, WireType, AckType, AppendElements
  <2> QED
    BY <1>1, <1>5, <1>7, <2>2
<1> QED
  BY <1>6, <1>7

-----------------------------------------------------------------------------
(* Steps of the server.                                                    *)

LEMMA AcksAreOver ==
  ASSUME SessionTypeOK, Accounting, cliOpen, OneCall, Caller.role \notin {"ack", "connect"}
  PROVE  noAckMode
<1>1. frames # <<>> /\ Caller = Head(frames)
  BY OneCallShape, CallerType
<1>2. ~Connecting
  BY <1>1, TopOfStack
<1> QED
  BY <1>2 DEF Accounting, AckFree

(* A step of the server that concerns the packets of a phase.              *)
ServerMove ==
  /\ Waits \/ SkipsAck \/ Serves(Head(c2s)) \/ Executes
  /\ UNCHANGED clientVars

LEMMA RestingServer ==
  ASSUME SessionTypeOK, SessionTypeOK', remote, Resting, ServerMove
  PROVE  Resting' /\ (Waits \/ SkipsAck)
<1>1. ~Executes
  BY DEF Executes, Resting
<1>2. CASE c2s = <<>>
  <2>1. Waits
    BY <1>1, <1>2 DEF ServerMove, SkipsAck, Serves
  <2> QED
    BY <1>2, <2>1 DEF Waits, Resting, Expecting, ServerMove, clientVars
<1>3. CASE c2s # <<>>
  <2>1. Head(c2s) = ClientAck /\ Len(c2s) = 1 /\ Tail(c2s) = <<>>
    <3>1. Len(c2s) = 1 /\ c2s[1] = ClientAck
      BY <1>3 DEF Resting
    <3>2. Head(c2s) = c2s[1] /\ Len(Tail(c2s)) = 0 /\ Tail(c2s) \in Seq(Message)
      BY <1>3, <3>1, WireType, TailElements
    <3> QED
      BY <3>1, <3>2, EmptyLength
  <2>2. Waits \/ SkipsAck
    BY <1>1, <2>1, ClientAckAsksNothing DEF ServerMove, Serves
  <2> QED
    BY <2>1, <2>2 DEF Waits, SkipsAck, Resting, Expecting, ServerMove, clientVars
<1> QED
  BY <1>2, <1>3

LEMMA MovingServer ==
  ASSUME SessionTypeOK, SessionTypeOK', Moving, ServerMove
  PROVE  Moving' /\ (Waits \/ (Executes /\ ui = "running"))
<1>1. Waits \/ Executes
  BY DEF Moving, ServerMove, SkipsAck, Serves
<1>2. CASE Waits
  BY <1>2 DEF Waits, Moving, Expecting, ServerMove, clientVars
<1>3. CASE Executes
  <2>1. s2c = <<>> /\ ~exeStopped /\ Len(s2c) = 0 /\ ui = "running"
    BY <1>3, WireType DEF Executes, Moving
  <2>2. CASE UNCHANGED s2c /\ ~exeStopped'
    BY <1>3, <2>1, <2>2 DEF Executes, Moving, Expecting, ServerMove, clientVars
  <2>3. CASE ~(UNCHANGED s2c /\ ~exeStopped')
    <3>1. PICK sig \in Nat : s2c' = Append(s2c, Stopped(sig)) /\ exeStopped'
      BY <1>3, <2>3 DEF Executes
    <3>2. Len(s2c') = 1 /\ s2c'[1] = Stopped(sig)
      BY <2>1, <3>1, WireType, StoppedType, AppendElements
    <3> QED
      BY <1>3, <3>1, <3>2 DEF Executes, Moving, Expecting, ServerMove, Stopped, clientVars
  <2> QED
    BY <2>2, <2>3
<1> QED
  BY <1>1, <1>2, <1>3

LEMMA LocatingServer ==
  ASSUME SessionTypeOK, SessionTypeOK', Accounting, cliOpen, Locating, ServerMove
  PROVE  Locating' /\ UNCHANGED <<instr, breakpoints>>
<1>f. UNCHANGED <<frames, cli, ui, interrupted, remote>> /\ UNCHANGED <<Caller, Expecting>>
  BY DEF ServerMove, clientVars, Caller, Expecting
<1>1. PICK m \in Message : m = Caller.req
  BY OneCallShape DEF Locating
<1>2. m.op = "p" /\ m.arg = 0 /\ Asks(m) /\ Caller.role = "stop"
  BY <1>1 DEF Locating, Waiting, Request, Asks
<1>3. noAckMode
  BY <1>2, AcksAreOver DEF Locating
<1>4. CASE Asking(m)
  <2>1. CASE Asking(m)' /\ UNCHANGED <<s2c, noAckMode, exeStopped, instr, breakpoints>>
    BY <1>f, <1>1, <1>4, <2>1 DEF Locating, OneCall
  <2>2. CASE Serves(m) /\ c2s' = <<>>
    <3>1. s2c = <<>>
      BY <1>4 DEF Asking
    <3>2. PICK kind \in AnswerKinds(m), val \in Nat :
            /\ val = Pc
            /\ Len(s2c') = 1 /\ s2c'[1] = Answer(kind, val, m)
      BY <1>2, <1>3, <2>2, <3>1, Answered
    <3>3. kind \in Number
      BY <1>2, <3>2 DEF AnswerKinds, Number
    <3>4. exeStopped' /\ UNCHANGED <<instr, breakpoints>> /\ Pc' = Pc
      BY <1>2, <2>2 DEF Locating, Serves, Resumes, Pc
    <3>5. Answering(m, s2c[1], Number)'
      BY <2>2, <3>2, <3>3 DEF Answering, Answer
    <3> QED
      BY <1>f, <1>1, <3>2, <3>4, <3>5 DEF Locating, OneCall, Answer, Answering
  <2> QED
    BY <1>2, <1>4, <2>1, <2>2, AskingStep DEF ServerMove
<1>5. CASE ~Asking(m)
  <2>1. c2s = <<>> /\ exeStopped
    BY <1>1, <1>5 DEF Locating, Answering
  <2>2. Waits
    BY <2>1 DEF ServerMove, SkipsAck, Serves, Executes
  <2>3. UNCHANGED <<c2s, s2c, exeStopped, instr, breakpoints>> /\ Pc' = Pc
    BY <2>2 DEF Waits, Pc
  <2> QED
    BY <1>f, <1>1, <1>5, <2>3 DEF Locating, OneCall, Answering
<1> QED
  BY <1>4, <1>5

LEMMA CommandingServer ==
  ASSUME SessionTypeOK, SessionTypeOK', Accounting, cliOpen, Commanding, ServerMove,
         Caller.req.op = "z" /\ s2c = <<>> => Caller.req.arg \in breakpoints
  PROVE  /\ Commanding'
         /\ \/ UNCHANGED <<s2c, instr, breakpoints>>
            \/ Serves(Caller.req) /\ s2c = <<>> /\ s2c' # <<>>
            \/ Executes /\ Resumes(Caller.req)
<1>f. UNCHANGED <<frames, cli, ui, interrupted, remote>> /\ UNCHANGED <<Caller, Expecting>>
  BY DEF ServerMove, clientVars, Caller, Expecting
<1>1. PICK m \in Message : m = Caller.req
  BY OneCallShape DEF Commanding
<1>2. Asks(m) /\ CommandCall(Caller) /\ Caller.role \notin {"ack", "connect"}
  BY <1>1, CallsArePolite DEF Commanding, CommandCall
<1>3. noAckMode
  BY <1>2, AcksAreOver DEF Commanding
<1>4. CASE Asking(m)
  <2>1. CASE Asking(m)' /\ UNCHANGED <<s2c, noAckMode, exeStopped, instr, breakpoints>>
    BY <1>f, <1>1, <1>4, <2>1 DEF Commanding, OneCall
  <2>2. CASE Serves(m) /\ c2s' = <<>>
    <3>1. s2c = <<>> /\ exeStopped
      BY <1>4 DEF Asking
    <3>2. PICK kind \in AnswerKinds(m), val \in Nat :
            Len(s2c') = 1 /\ s2c'[1] = Answer(kind, val, m)
      BY <1>3, <2>2, <3>1, Answered
    <3>3. kind \in Expected(Caller)
      BY <1>1, <1>2, <3>1, <3>2 DEF AnswerKinds, CommandCall, Expected, Number
    <3>4. exeStopped' <=> ~Resumes(m)
      BY <2>2, <3>1 DEF Serves
    <3>5. Answering(m, s2c[1], Expected(Caller))'
      BY <1>f, <2>2, <3>2, <3>3 DEF Answering, Answer, Expected
    <3>6. s2c' # <<>>
      BY <3>2, NotEmpty
    <3>7. Commanding'
      BY <1>f, <1>1, <3>2, <3>4, <3>5 DEF Commanding, OneCall
    <3> QED
      BY <1>1, <2>2, <3>1, <3>6, <3>7
  <2> QED
    BY <1>2, <1>4, <2>1, <2>2, AskingStep DEF ServerMove
<1>5. CASE ~Asking(m)
  <2>0. c2s = <<>>
    BY <1>1, <1>5 DEF Commanding, Answering
  <2>1. Waits \/ Executes
    BY <2>0 DEF ServerMove, SkipsAck, Serves
  <2>2. CASE Waits
    <3>1. UNCHANGED <<c2s, s2c, exeStopped, instr, breakpoints>>
      BY <2>2 DEF Waits
    <3> QED
      BY <1>f, <1>1, <1>5, <3>1 DEF Commanding, OneCall, Answering, Expected
  <2>3. CASE Executes
    <3>1. /\ Len(s2c) = 1 /\ Answering(m, s2c[1], Expected(Caller))
          /\ Resumes(m) /\ c2s' = <<>>
      BY <1>1, <1>5, <2>0, <2>3 DEF Commanding, Executes
    <3>2. CASE UNCHANGED s2c /\ ~exeStopped'
      BY <1>f, <1>1, <2>3, <3>1, <3>2 DEF Commanding, OneCall, Answering, Expected
    <3>3. CASE ~(UNCHANGED s2c /\ ~exeStopped')
      <4>1. PICK sig \in Nat : s2c' = Append(s2c, Stopped(sig)) /\ exeStopped'
        BY <2>3, <3>3 DEF Executes
      <4>2. Len(s2c') = 2 /\ s2c'[2] = Stopped(sig) /\ s2c'[1] = s2c[1]
        <5>1. s2c \in Seq(Packet) /\ Stopped(sig) \in Packet
          BY WireType, StoppedType
        <5>2. /\ Len(s2c') = Len(s2c) + 1 /\ s2c'[Len(s2c) + 1] = Stopped(sig)
              /\ \A i \in 1 .. Len(s2c) : s2c'[i] = s2c[i]
          BY <4>1, <5>1, AppendElements
        <5> QED
          BY <3>1, <5>2
      <4>3. Answering(m, s2c[1], Expected(Caller))'
        BY <1>f, <3>1, <4>2 DEF Answering, Expected
      <4> QED
        BY <1>f, <1>1, <2>3, <3>1, <4>1, <4>2, <4>3 DEF Commanding, OneCall, Stopped
    <3> QED
      BY <3>2, <3>3
  <2> QED
    BY <2>1, <2>2, <2>3
<1> QED
  BY <1>4, <1>5

LEMMA ShakingServer ==
  ASSUME SessionTypeOK, SessionTypeOK', Shaking, ServerMove
  PROVE  Shaking' /\ UNCHANGED <<instr, breakpoints>>
<1>f. UNCHANGED <<frames, cli, ui, interrupted, remote>> /\ UNCHANGED <<Caller, Expecting>>
  BY DEF ServerMove, clientVars, Caller, Expecting
<1>1. PICK m \in Message : m = Caller.req
  BY OneCallShape DEF Shaking
<1>2. Asks(m) /\ m.op \in {"qSupported", "vMustReplyEmpty", "QStartNoAckMode"}
  BY <1>1, CallsArePolite DEF Shaking, Request
<1> DEFINE kinds == Expected(Waiting("connect", m))
<1>3. CASE Asking(m)
  <2>0. Caller.role = "ack" /\ ~noAckMode /\ s2c = <<>> /\ exeStopped
    <3>1. Len(c2s) # 0 /\ s2c = <<>> /\ exeStopped
      BY <1>3 DEF Asking
    <3>2. c2s # <<>> /\ Len(s2c) = 0
      BY <3>1, WireType
    <3> QED
      BY <1>1, <3>1, <3>2 DEF Shaking, Answering
  <2>1. CASE Asking(m)' /\ UNCHANGED <<s2c, noAckMode, exeStopped, instr, breakpoints>>
    BY <1>f, <1>1, <2>0, <2>1 DEF Shaking, OneCall
  <2>2. CASE Serves(m) /\ c2s' = <<>>
    <3>1. PICK kind \in AnswerKinds(m), val \in Nat :
            Len(s2c') = 2 /\ s2c'[1] = Ack /\ s2c'[2] = Answer(kind, val, m)
      BY <2>0, <2>2, Answered
    <3>2. kind \in kinds
      BY <1>2, <3>1 DEF AnswerKinds, Expected, Waiting
    <3>3. /\ noAckMode' <=> m.op = "QStartNoAckMode"
          /\ exeStopped' /\ UNCHANGED <<instr, breakpoints>>
      BY <1>2, <2>0, <2>2 DEF Serves, Resumes
    <3>4. Answering(m, s2c[2], kinds)'
      BY <2>2, <3>1, <3>2 DEF Answering, Answer
    <3> QED
      BY <1>f, <1>1, <2>0, <3>1, <3>3, <3>4 DEF Shaking, OneCall
  <2> QED
    BY <1>2, <1>3, <2>1, <2>2, AskingStep DEF ServerMove
<1>4. CASE ~Asking(m)
  <2>1. c2s = <<>> /\ exeStopped
    BY <1>1, <1>4 DEF Shaking, Answering
  <2>2. Waits
    BY <2>1 DEF ServerMove, SkipsAck, Serves, Executes
  <2>3. UNCHANGED <<c2s, s2c, noAckMode, exeStopped, instr, breakpoints>>
    BY <2>2 DEF Waits
  <2> QED
    BY <1>f, <1>1, <1>4, <2>3 DEF Shaking, OneCall, Answering
<1> QED
  BY <1>3, <1>4

(* The server inserts or deletes the breakpoint it is asked to.            *)
LEMMA BreakpointsServed ==
  ASSUME SessionTypeOK, Mirrored, Changing, ~Gone, Serves(Caller.req),
         s2c = <<>>, s2c' # <<>>, UNCHANGED clientVars
  PROVE  Mirrored'
<1> DEFINE m == Caller.req
<1>1. /\ LineOf(m.arg) \in Lines /\ m.arg = AddrOf(LineOf(m.arg))
      /\ \A n \in Used : table[n] # LineOf(m.arg)
      /\ breakpoints = IF m.op = "Z" THEN Mirror ELSE Mirror \cup {m.arg}
      /\ m.op \in {"Z", "z"}
  BY DEF Mirrored, Changing
<1>2. m.arg \notin Mirror
  <2> SUFFICES ASSUME NEW n \in Used, m.arg = AddrOf(table[n])
               PROVE  FALSE
    BY DEF Mirror
  <2>1. table[n] \in Lines
    BY DEF Used, SessionTypeOK
  <2>2. table[n] = LineOf(m.arg)
    BY <2>1, AddressOfLine
  <2> QED
    BY <1>1, <2>2
<1>3. breakpoints' = IF m.op = "Z" THEN Mirror \cup {m.arg} ELSE Mirror
  BY <1>1, <1>2 DEF Serves
<1>4. UNCHANGED <<table, Used, Mirror, Caller, Changing>>
  BY DEF clientVars, Used, Mirror, Caller, Changing
<1> QED
  BY <1>1, <1>3, <1>4 DEF Mirrored

(* Before the target is selected the server listens.                       *)
LEMMA ServerIsAlone ==
  ASSUME Accounting, InTurn, ~Gone, ~remote
  PROVE  ~ServerNext
<1>1. srv = "listen" /\ ~cliOpen
  BY DEF InTurn, Resting, Moving, Locating, Commanding, Shaking, OneCall, Gone,
         Accounting, StackShape
<1> QED
  BY <1>1
     DEF ServerNext, ServerAccept, ServerRecv, ServerNoInput, ServerLosesPeer, Handle, Handling,
         Execute, MayRun, ExecLimitReached, ExecEntryBreak, ExecInstr, ExecRaises, HandleAck,
         HandleHaltReason, HandleQuery, HandleEmpty, HandleStartNoAckMode, HandleInterrupt,
         HandleStep, HandleContinue, HandleAddBreakpoint, HandleRemoveBreakpoint,
         HandleReadRegisters, HandleReadRegister, HandleRaises

(* Every step of the server keeps the turn, and what the debugger knows.   *)
LEMMA ServerKeepsStep ==
  ASSUME SessionTypeOK, SessionTypeOK', Accounting, InStep,
         ServerNext, UNCHANGED clientVars
  PROVE  InStep'
<1>f. UNCHANGED <<cli, remote, frames, ui, interrupted, shown, table, bkNext>> /\ UNCHANGED Caller
  BY DEF clientVars, Caller
<1>u. UNCHANGED <<Gone, Used, Mirror, Changing>>
  BY <1>f DEF Gone, Used, Mirror, Changing
<1>1. Numbered'
  BY <1>f, <1>u DEF InStep, Numbered
<1>2. ASSUME UNCHANGED <<instr, breakpoints, s2c>>
      PROVE  Located' /\ Mirrored'
  BY <1>2, <1>f, <1>u DEF InStep, Located, Pc, Mirrored
<1>3. CASE Gone
  <2>1. cli = "exited" /\ frames = <<>>
    BY <1>3 DEF InStep, InTurn, Resting, Moving, Locating, Commanding, Shaking, Gone
  <2> QED
    BY <1>1, <1>3, <1>f, <1>u, <2>1 DEF InStep, InTurn, Located, Mirrored
<1>4. CASE ~Gone /\ ~remote
  <2> QED
    BY <1>4, ServerIsAlone DEF InStep
<1>5. CASE ~Gone /\ remote
  <2>1. cliOpen /\ LoopShape
    BY <1>5 DEF Accounting, StackShape
  <2>2. Resting \/ Moving \/ Locating \/ Commanding \/ Shaking
    BY <1>5 DEF InStep, InTurn, Gone
  <2>3. ServerMove
    BY <2>1, <2>2, TurnsArePolite, PoliteServerStep DEF ServerMove
  <2>5. CASE Resting
    <3>1. Resting' /\ UNCHANGED <<instr, breakpoints, s2c>>
      BY <1>5, <2>3, <2>5, RestingServer DEF Waits, SkipsAck
    <3> QED
      BY <1>1, <1>2, <3>1 DEF InStep, InTurn
  <2>6. CASE Moving
    <3>1. Moving' /\ UNCHANGED breakpoints /\ (UNCHANGED instr \/ ui = "running")
      BY <2>3, <2>6, MovingServer DEF Waits, Executes
    <3>2. ~Changing
      BY <2>6 DEF Moving, Changing
    <3>3. Located' /\ Mirrored'
      BY <1>5, <1>f, <1>u, <2>6, <3>1, <3>2 DEF InStep, Located, Mirrored, Moving, Pc
    <3> QED
      BY <1>1, <3>1, <3>3 DEF InStep, InTurn
  <2>7. CASE Locating \/ Shaking
    <3>1. (Locating' \/ Shaking') /\ UNCHANGED <<instr, breakpoints>>
      BY <2>1, <2>3, <2>7, LocatingServer, ShakingServer
    <3>2. ~Changing
      BY <2>7 DEF Locating, Shaking, Changing, Waiting, Request
    <3>3. Located' /\ Mirrored'
      BY <1>5, <1>f, <1>u, <3>1, <3>2 DEF InStep, Located, Mirrored, Pc
    <3> QED
      BY <1>1, <3>1, <3>3 DEF InStep, InTurn
  <2>8. CASE Commanding
    <3>0. frames # <<>>
      BY <2>8, OneCallShape DEF Commanding
    <3>1. Caller.req.op = "z" /\ s2c = <<>> => Caller.req.arg \in breakpoints
      BY <1>5, <3>0 DEF InStep, Mirrored, Changing
    <3>2. /\ Commanding'
          /\ \/ UNCHANGED <<s2c, instr, breakpoints>>
             \/ Serves(Caller.req) /\ s2c = <<>> /\ s2c' # <<>>
             \/ Executes /\ Resumes(Caller.req)
      BY <2>1, <2>3, <2>8, <3>1, CommandingServer
    <3>3. CASE UNCHANGED <<s2c, instr, breakpoints>>
      BY <1>1, <1>2, <3>2, <3>3 DEF InStep, InTurn
    <3>4. CASE Executes /\ Resumes(Caller.req)
      <4>1. ~Changing
        BY <3>4 DEF Changing, Resumes
      <4>2. Located' /\ Mirrored'
        BY <1>5, <1>f, <1>u, <3>0, <3>4, <4>1
           DEF InStep, Located, Mirrored, Resumes, Executes
      <4> QED
        BY <1>1, <3>2, <4>2 DEF InStep, InTurn
    <3>5. CASE Serves(Caller.req) /\ s2c = <<>> /\ s2c' # <<>>
      <4>1. Located'
        BY <1>f, <1>u, <3>5 DEF InStep, Located, Serves, Pc
      <4>2. CASE ~Changing
        <5>1. UNCHANGED breakpoints
          BY <3>0, <3>5, <4>2 DEF Serves, Changing
        <5> QED
          BY <1>1, <1>5, <1>f, <1>u, <3>2, <4>1, <4>2, <5>1
             DEF InStep, InTurn, Mirrored
      <4>3. CASE Changing
        <5>1. Mirrored'
          BY <1>5, <3>5, <4>3, BreakpointsServed DEF InStep
        <5> QED
          BY <1>1, <3>2, <4>1, <5>1 DEF InStep, InTurn
      <4> QED
        BY <4>2, <4>3
    <3> QED
      BY <3>2, <3>3, <3>4, <3>5
  <2> QED
    BY <2>2, <2>5, <2>6, <2>7, <2>8
<1> QED
  BY <1>3, <1>4, <1>5

-----------------------------------------------------------------------------
(* Steps of the debugger.                                                  *)

LEMMA InTurnAlive ==
  ASSUME InTurn, cli # "exited"
  PROVE  /\ ~Gone
         /\ Resting \/ Moving \/ Locating \/ Commanding \/ Shaking
  BY DEF InTurn, Gone, Resting, Moving, Locating, Commanding, Shaking

(* With no call waiting the program rests or moves. *)
LEMMA NoCall ==
  ASSUME SessionTypeOK, InTurn, cli # "exited", frames = <<>>
  PROVE  ~Gone /\ (Resting \/ Moving)
<1>1. Locating \/ Commanding \/ Shaking => OneCall
  BY DEF Locating, Commanding, Shaking
<1>2. ~OneCall
  BY OneCallShape
<1> QED
  BY <1>1, <1>2, InTurnAlive

LEMMA LoopKeepsSync ==
  ASSUME SessionTypeOK, SessionTypeOK', Accounting, InStep, LoopNext
  PROVE  InStep'
<1>1. frames = <<>> /\ cli # "exited"
  BY DEF LoopNext, PollNothing, PollPacket, Polling, ServeDone, Exit, Accounting, StackShape
<1>2. ~Gone /\ (Resting \/ Moving)
  BY <1>1, NoCall DEF InStep
<1>3. /\ UNCHANGED <<srv, noAckMode, exeStopped, instr, breakpoints, remote, ui, interrupted, shown, table, bkNext>>
      /\ UNCHANGED Expecting
  BY DEF LoopNext, PollNothing, PollPacket, ServeDone, Exit, serverVars, Expecting
<1>4. Numbered' /\ UNCHANGED <<Used, Mirror>>
  BY <1>3 DEF InStep, Numbered, Used, Mirror
<1>5. ~Changing
  BY <1>1 DEF Changing
<1>6. CASE UNCHANGED <<c2s, s2c, frames>>
  <2>1. cli' \in {"poll", "serve", "exited"}
    <3>1. ~PollPacket
      <4>1. PollPacket => s2c # <<>> /\ s2c' = Tail(s2c)
        BY DEF PollPacket, FromWire
      <4>2. s2c # <<>> => Tail(s2c) # s2c
        <5>1. s2c # <<>> => Len(Tail(s2c)) = Len(s2c) - 1 /\ Len(s2c) \in Nat
          BY WireType, TailElements
        <5> QED
          BY <5>1
      <4> QED
        BY <1>6, <4>1, <4>2
    <3> QED
      BY <3>1 DEF LoopNext, PollNothing, StartServing, ServeDone, Exit
  <2>2. InTurn'
    BY <1>1, <1>2, <1>3, <1>6, <2>1 DEF InTurn, Resting, Moving
  <2>3. Located'
    BY <1>1, <1>2, <1>3, <1>6 DEF InStep, Located, Pc, Caller
  <2>4. Mirrored'
    BY <1>1, <1>2, <1>3, <1>4, <1>5, <1>6 DEF InStep, Mirrored, Changing
  <2> QED
    BY <1>4, <2>2, <2>3, <2>4 DEF InStep
<1>7. CASE PollPacket
  <2>1. s2c # <<>> /\ pushed = <<>> /\ cli = "poll" /\ s2c' = Tail(s2c)
    BY <1>7 DEF PollPacket, Polling, FromWire
  <2>2. /\ Expecting /\ remote /\ c2s = <<>> /\ exeStopped
        /\ Len(s2c) = 1 /\ s2c[1].kind = "stop"
    BY <1>2, <2>1 DEF Resting, Moving
  <2>3. Head(s2c) = s2c[1] /\ Len(s2c') = 0 /\ s2c' \in Seq(Packet)
    BY <2>1, <2>2, WireType, TailElements
  <2>4. s2c' = <<>> /\ StopArrives
    BY <2>1, <2>2, <2>3, EmptyLength DEF StopArrives
  <2>5. /\ c2s' = Append(c2s, Request("p", 0))
        /\ frames' = <<Waiting("stop", Request("p", 0))>> \o frames
        /\ cli' = cli
    BY <1>7, <2>4 DEF PollPacket, AskPosition
  <2>6. /\ Len(c2s) = 0 /\ c2s \in Seq(Message)
        /\ Len(c2s') = 1 /\ c2s'[1] = Request("p", 0)
    <3>1. Len(c2s) = 0 /\ c2s \in Seq(Message)
      BY <2>2, WireType
    <3> QED
      BY <2>5, <3>1, PositionType, AppendElements
  <2>7. /\ Len(frames') = 1 /\ frames'[1] = Waiting("stop", Request("p", 0))
        /\ frames' # <<>>
    <3>1. <<>> \in Seq(Frame) /\ Len(<<>>) = 0
      OBVIOUS
    <3>2. frames \in Seq(Frame) /\ Len(frames) = 0
      BY <1>1, <3>1, Zenon
    <3>3. Len(frames') = 1 /\ frames'[1] = Waiting("stop", Request("p", 0))
      BY <2>5, <3>2, PositionType, OneFrame
    <3> QED
      BY <3>3, NotEmpty
  <2>8. Locating'
    <3>1. Asking(Caller.req)'
      BY <1>3, <2>2, <2>4, <2>6, <2>7 DEF Asking, Caller, Waiting
    <3> QED
      BY <1>3, <2>1, <2>2, <2>5, <2>7, <3>1 DEF Locating, OneCall, Caller
  <2>9. Located'
    BY <1>1, <1>3, <2>5 DEF InStep, Located, Pc, Gone
  <2>10. Mirrored'
    <3>1. ~Changing'
      BY <2>7 DEF Changing, Caller, Waiting, Request
    <3> QED
      BY <1>2, <1>3, <1>4, <1>5, <3>1 DEF InStep, Mirrored
  <2> QED
    BY <1>2, <1>3, <1>4, <2>8, <2>9, <2>10 DEF InStep, InTurn
<1> QED
  BY <1>6, <1>7 DEF LoopNext, PollNothing, ServeDone, Exit, wireVars

(* A command sends its request behind nothing but an acknowledgement.      *)
LEMMA CallAsks ==
  ASSUME SessionTypeOK, Resting, NEW role \in Roles, NEW m \in Message, Call(role, m)
  PROVE  /\ Asking(m)'
         /\ Len(frames') = 1 /\ Caller' = Waiting(role, m) /\ frames' # <<>>
         /\ cli' = "command"
         /\ UNCHANGED <<s2c, serverVars, ui, interrupted, shown, bkNext>>
<1>1. /\ c2s' = Append(c2s, m) /\ frames' = <<Waiting(role, m)>> /\ cli' = "command"
      /\ UNCHANGED <<s2c, serverVars, ui, interrupted, shown, bkNext>>
  BY DEF Call
<1>2. /\ c2s \in Seq(Message)
      /\ Len(c2s) = 0 \/ (Len(c2s) = 1 /\ c2s[1] = ClientAck)
  BY WireType DEF Resting
<1>3. /\ Len(c2s') = Len(c2s) + 1 /\ c2s'[Len(c2s) + 1] = m
      /\ \A i \in 1 .. Len(c2s) : c2s'[i] = c2s[i]
  BY <1>1, <1>2, AppendElements
<1>4. /\ Len(c2s') \in {1, 2} /\ c2s'[Len(c2s')] = m
      /\ Len(c2s') = 2 => c2s'[1] = ClientAck
  BY <1>2, <1>3
<1>5. Asking(m)'
  BY <1>1, <1>4 DEF Asking, Resting, serverVars
<1>6. Waiting(role, m) \in Frame
  BY DEF Waiting, Frame
<1>7. Len(frames') = 1 /\ Caller' = Waiting(role, m)
  BY <1>1, <1>6, OneFrame DEF Caller
<1>8. frames' # <<>>
  BY <1>7, NotEmpty
<1> QED
  BY <1>1, <1>5, <1>7, <1>8

LEMMA TargetSelectKeepsSync ==
  ASSUME SessionTypeOK, SessionTypeOK', Accounting, InStep, TargetSelect
  PROVE  InStep'
<1>1. /\ frames = <<>> /\ cli = "serve" /\ ~remote /\ srv = "listen" /\ remote'
      /\ Call("ack", Request("qSupported", 0)) /\ UNCHANGED table
  BY DEF TargetSelect, Call, Accounting, StackShape
<1>2. Resting
  BY <1>1, NoCall DEF InStep, Moving
<1>3. Request("qSupported", 0) \in Message /\ "ack" \in Roles
  BY RequestType DEF Ops, Roles
<1>4. /\ Asking(Request("qSupported", 0))'
      /\ Len(frames') = 1 /\ Caller' = Waiting("ack", Request("qSupported", 0)) /\ frames' # <<>>
      /\ cli' = "command"
      /\ UNCHANGED <<s2c, serverVars, ui, interrupted, shown, bkNext>>
  BY <1>1, <1>2, <1>3, CallAsks
<1>5. ~noAckMode' /\ exeStopped' /\ ~Expecting'
  BY <1>1, <1>2, <1>4 DEF Accounting, LoopShape, Resting, Expecting, serverVars
<1>6. Shaking'
  <2>1. Caller'.role = "ack" /\ Caller'.req = Request("qSupported", 0)
    BY <1>4 DEF Waiting
  <2> QED
    BY <1>1, <1>4, <1>5, <2>1 DEF Shaking, OneCall
<1>7. Numbered' /\ UNCHANGED <<Used, Mirror>>
  BY <1>1, <1>4 DEF InStep, Numbered, Used, Mirror
<1>8. Located'
  BY <1>1, <1>4 DEF InStep, Located, Pc, Gone, serverVars
<1>9. Mirrored'
  <2>1. ~Changing /\ ~Changing'
    BY <1>1, <1>4 DEF Changing, Waiting, Request
  <2> QED
    BY <1>1, <1>4, <1>7, <2>1 DEF InStep, Mirrored, Gone, serverVars
<1> QED
  BY <1>5, <1>6, <1>7, <1>8, <1>9 DEF InStep, InTurn

(* A command while the program runs, and no report of its stop is there.   *)
LEMMA CallInterferes ==
  ASSUME SessionTypeOK, Moving, s2c = <<>>, NEW m \in Message, Call("ok", m), UNCHANGED remote,
         m.op \in {"vCtrlC", "Z", "z"}
  PROVE  /\ Interfering'
         /\ Caller' = Waiting("ok", m) /\ frames' # <<>>
         /\ UNCHANGED <<s2c, serverVars, ui, interrupted, shown, bkNext>>
<1>1. /\ c2s' = Append(c2s, m) /\ frames' = <<Waiting("ok", m)>> /\ cli' = "command"
      /\ UNCHANGED <<s2c, serverVars, ui, interrupted, shown, bkNext>>
  BY DEF Call
<1>2. c2s \in Seq(Message) /\ Len(c2s) = 0
  BY WireType DEF Moving
<1>3. Len(c2s') = 1 /\ c2s'[1] = m
  BY <1>1, <1>2, AppendElements
<1>4. Waiting("ok", m) \in Frame
  BY DEF Waiting, Frame, Roles
<1>5. Len(frames') = 1 /\ Caller' = Waiting("ok", m)
  BY <1>1, <1>4, OneFrame DEF Caller
<1>6. Caller'.role = "ok" /\ Caller'.req = m
  BY <1>5 DEF Waiting
<1>7. Interfering'
  <2>1. ui' = "running" /\ s2c' = <<>> /\ ~exeStopped' /\ remote'
    <3>1. Len(s2c) = 0
      BY WireType
    <3> QED
      BY <1>1, <3>1 DEF Moving, serverVars
  <2> QED
    BY <1>1, <1>3, <1>5, <1>6, <2>1 DEF Interfering, OneCall
<1> QED
  BY <1>1, <1>5, <1>7, NotEmpty

(* Any command but the first, up to what it does to the breakpoints. *)
LEMMA CommandTurn ==
  ASSUME SessionTypeOK, Accounting, InStep,
         NEW role \in Roles, NEW m \in Message, Call(role, m), Sends(m.op),
         \/ Resting /\ CommandCall(Waiting(role, m))
         \/ Moving /\ s2c = <<>> /\ role = "ok" /\ m.op \in {"vCtrlC", "Z", "z"}
  PROVE  /\ IF Resting THEN InTurn' ELSE Interfering'
         /\ Located'
         /\ Caller' = Waiting(role, m) /\ frames' # <<>>
         /\ s2c' = <<>> /\ UNCHANGED <<breakpoints, bkNext>>
         /\ breakpoints = Mirror
<1>1. frames = <<>> /\ cli = "serve" /\ remote /\ UNCHANGED remote
  BY DEF Sends, Call, Accounting, StackShape
<1>2. breakpoints = Mirror
  BY <1>1 DEF InStep, Mirrored, Changing, Gone
<1>3. CASE Resting
  <2>1. /\ Asking(m)'
        /\ Len(frames') = 1 /\ Caller' = Waiting(role, m) /\ frames' # <<>>
        /\ cli' = "command"
        /\ UNCHANGED <<s2c, serverVars, ui, interrupted, shown, bkNext>>
        /\ UNCHANGED Expecting
    BY <1>3, CallAsks DEF Expecting
  <2>2. Commanding'
    <3>1. Caller'.req = m
      BY <2>1 DEF Waiting
    <3>2. CommandCall(Waiting(role, m))
      BY <1>3 DEF Moving, Resting
    <3> QED
      BY <1>1, <1>3, <2>1, <3>1, <3>2 DEF Commanding, OneCall, CommandCall, Resting
  <2>3. Located'
    BY <1>1, <2>1 DEF InStep, Located, Pc, Gone, serverVars
  <2> QED
    BY <1>2, <1>3, <2>1, <2>2, <2>3 DEF InTurn, Resting, serverVars
<1>4. CASE ~Resting
  <2>1. /\ Interfering'
        /\ Caller' = Waiting(role, m) /\ frames' # <<>>
        /\ UNCHANGED <<s2c, serverVars, ui, interrupted, shown, bkNext>>
    BY <1>1, <1>4, CallInterferes
  <2>2. Located'
    BY <2>1 DEF Interfering, Located
  <2> QED
    BY <1>2, <1>4, <2>1, <2>2 DEF serverVars
<1> QED
  BY <1>3, <1>4

(* What a session is in behind a command. *)
Steady == (InTurn \/ Interfering) /\ Located /\ Numbered /\ Mirrored

(* A command that leaves the breakpoints alone.                            *)
LEMMA QuietCommandTurn ==
  ASSUME SessionTypeOK, Accounting, InStep,
         NEW role \in Roles, NEW m \in Message, Call(role, m), Sends(m.op),
         \/ Resting /\ CommandCall(Waiting(role, m))
         \/ Moving /\ s2c = <<>> /\ role = "ok" /\ m.op \in {"vCtrlC", "Z", "z"},
         m.op \notin {"Z", "z"}, UNCHANGED table
  PROVE  Steady' /\ (Resting => InStep')
<1>1. /\ IF Resting THEN InTurn' ELSE Interfering'
      /\ Located'
      /\ Caller' = Waiting(role, m) /\ frames' # <<>>
      /\ UNCHANGED <<breakpoints, bkNext>> /\ breakpoints = Mirror
  BY CommandTurn
<1>2. Numbered' /\ UNCHANGED <<Used, Mirror>>
  BY <1>1 DEF InStep, Numbered, Used, Mirror
<1>3. ~Changing'
  BY <1>1 DEF Changing, Waiting
<1>4. Mirrored'
  BY <1>1, <1>2, <1>3 DEF Mirrored
<1> QED
  BY <1>1, <1>2, <1>4 DEF InStep, Steady

LEMMA BreakInsertTurn ==
  ASSUME SessionTypeOK, Accounting, UniqueBreaks, InStep, BreakInsert,
         Resting \/ (Moving /\ s2c = <<>>)
  PROVE  Steady' /\ (Resting => InStep')
<1>1. PICK line \in Lines :
        /\ \A n \in Numbers : table[n] # line
        /\ Sends("Z") /\ Call("ok", Request("Z", AddrOf(line))) /\ UNCHANGED table
  BY DEF BreakInsert
<1> DEFINE m == Request("Z", AddrOf(line))
<1>2. AddrOf(line) \in Nat /\ LineOf(AddrOf(line)) = line
  BY <1>1, AddressOfLine
<1>3. m \in Message /\ m.op = "Z" /\ m.arg = AddrOf(line) /\ "ok" \in Roles
  BY <1>2, RequestType DEF Ops, Roles, Request
<1>4. CommandCall(Waiting("ok", m))
  BY <1>3 DEF CommandCall, Waiting
<1> HIDE DEF m
<1>5. /\ IF Resting THEN InTurn' ELSE Interfering'
      /\ Located'
      /\ Caller' = Waiting("ok", m) /\ frames' # <<>>
      /\ s2c' = <<>> /\ UNCHANGED <<breakpoints, bkNext>>
      /\ breakpoints = Mirror
  BY <1>1, <1>3, <1>4, CommandTurn DEF m
<1>6. Numbered' /\ UNCHANGED <<Used, Mirror>>
  BY <1>1, <1>5 DEF InStep, Numbered, Used, Mirror
<1>7. Caller'.req = m /\ Changing'
  BY <1>3, <1>5 DEF Changing, Waiting
<1>8. Mirrored'
  <2>1. \A n \in Used : table[n] # line
    BY <1>1 DEF Used
  <2> QED
    BY <1>1, <1>2, <1>3, <1>5, <1>6, <1>7, <2>1 DEF Mirrored
<1> QED
  BY <1>5, <1>6, <1>8 DEF InStep, Steady

LEMMA BreakDeleteTurn ==
  ASSUME SessionTypeOK, Accounting, InStep, BreakDelete, Resting \/ (Moving /\ s2c = <<>>)
  PROVE  Steady' /\ (Resting => InStep')
<1>1. PICK n \in Numbers :
        /\ table[n] # NoLine
        /\ table' = [table EXCEPT ![n] = NoLine]
        /\ Sends("z") /\ Call("ok", Request("z", AddrOf(table[n])))
  BY DEF BreakDelete
<1>t. table \in [Numbers -> Lines \cup {NoLine}] /\ table[n] \in Lines
  BY <1>1 DEF SessionTypeOK
<1> DEFINE m == Request("z", AddrOf(table[n]))
<1>2. AddrOf(table[n]) \in Nat /\ LineOf(AddrOf(table[n])) = table[n]
  BY <1>t, AddressOfLine
<1>3. m \in Message /\ m.op = "z" /\ m.arg = AddrOf(table[n]) /\ "ok" \in Roles
  BY <1>2, RequestType DEF Ops, Roles, Request
<1>4. CommandCall(Waiting("ok", m))
  BY <1>3 DEF CommandCall, Waiting
<1>5. PICK k \in Message : k = m
  BY <1>3
<1>6. /\ IF Resting THEN InTurn' ELSE Interfering'
      /\ Located'
      /\ Caller' = Waiting("ok", k) /\ frames' # <<>>
      /\ s2c' = <<>> /\ UNCHANGED <<breakpoints, bkNext>>
      /\ breakpoints = Mirror
  <2>1. Call("ok", k) /\ Sends(k.op) /\ CommandCall(Waiting("ok", k)) /\ k.op = "z"
    BY <1>1, <1>3, <1>4, <1>5
  <2> QED
    BY <1>3, <2>1, CommandTurn
<1>7. /\ Used' = Used \ {n} /\ n \in Used
      /\ \A j \in Used' : table'[j] = table[j]
  BY <1>1, <1>t DEF Used
<1>8. Numbered'
  BY <1>6, <1>7 DEF InStep, Numbered
<1>9. Mirror = Mirror' \cup {k.arg}
  BY <1>3, <1>5, <1>7 DEF Mirror
<1>10. \A j \in Used' : table'[j] # table[n]
  BY <1>7 DEF InStep, Numbered
<1>11. Caller'.req = k /\ Changing' /\ k.op = "z" /\ LineOf(k.arg) = table[n] /\ k.arg = AddrOf(table[n])
  BY <1>2, <1>3, <1>5, <1>6 DEF Changing, Waiting
<1>12. Mirrored'
  BY <1>t, <1>6, <1>9, <1>10, <1>11 DEF Mirrored
<1> QED
  BY <1>6, <1>8, <1>12 DEF InStep, Steady

(* A register is asked for that the function does not have.                *)
AsksTooMuch ==
  \E r \in ReadIdx :
    /\ ~(r <= NumRegs)
    /\ Sends("p") /\ Call("read", Request("p", r)) /\ UNCHANGED table

(* An exec-interrupt is served, and no *stopped is waited for.             *)
InterruptsLate ==
  Sends("vCtrlC") /\ Call("ok", Request("vCtrlC", 0)) /\ UNCHANGED table

(* The commands of a program that is shown as stopped. *)
LEMMA RestingCommand ==
  ASSUME SessionTypeOK, SessionTypeOK', Accounting, UniqueBreaks, InStep, Command, Resting
  PROVE  InStep' \/ AsksTooMuch \/ InterruptsLate
<1> USE DEF Roles, CommandCall, Waiting
<1>r. ASSUME NEW op \in Ops, NEW arg \in Nat
      PROVE  /\ Request(op, arg) \in Message
             /\ Request(op, arg).op = op /\ Request(op, arg).arg = arg
  BY RequestType DEF Request
<1>1. CASE ExecCommand
  <2>1. PICK op \in {"c", "s", "vCtrlC"} :
          Sends(op) /\ Call("ok", Request(op, 0)) /\ UNCHANGED table
    BY <1>1 DEF ExecCommand
  <2>2. op \in Ops
    BY <2>1 DEF Ops
  <2> QED
    BY <1>r, <2>1, <2>2, QuietCommandTurn DEF InterruptsLate
<1>2. CASE ReadCommand
  <2>1. PICK r \in {0} \cup ReadIdx :
          Sends("p") /\ Call("read", Request("p", r)) /\ UNCHANGED table
    BY <1>2 DEF ReadCommand
  <2>2. r \in Nat /\ "p" \in Ops /\ NumRegs \in Nat
    BY <2>1, HandlerAssumption, FrontEndAssumption DEF Ops
  <2>3. CASE r <= NumRegs
    BY <1>r, <2>1, <2>2, <2>3, QuietCommandTurn
  <2>4. CASE ~(r <= NumRegs)
    <3>1. r \in ReadIdx
      BY <2>1, <2>2, <2>4
    <3> QED
      BY <2>1, <2>4, <3>1 DEF AsksTooMuch
  <2> QED
    BY <2>3, <2>4
<1>3. CASE ListValues
  <2>1. NumRegs > 0 /\ Sends("p") /\ Call("values", Request("p", 1)) /\ UNCHANGED table
    BY <1>3 DEF ListValues
  <2>2. 1 \in Nat /\ 1 <= NumRegs /\ "p" \in Ops
    BY <2>1, HandlerAssumption DEF Ops
  <2> QED
    BY <1>r, <2>1, <2>2, QuietCommandTurn
<1> QED
  BY <1>1, <1>2, <1>3, TargetSelectKeepsSync, BreakInsertTurn, BreakDeleteTurn DEF Command

(* Who commands, and does not wait for the answer to something else. *)
LEMMA CommandFromLoop ==
  ASSUME SessionTypeOK, Accounting, InStep, Command
  PROVE  frames = <<>> /\ ~Gone /\ (Resting \/ (Moving /\ remote /\ Expecting))
<1>1. cli = "serve"
  BY DEF Command, TargetSelect, ExecCommand, ReadCommand, ListValues, BreakInsert, BreakDelete, Call
<1>2. frames = <<>>
  BY <1>1 DEF Accounting, StackShape
<1> QED
  BY <1>1, <1>2, NoCall DEF InStep, Moving

LEMMA CommandKeepsSync ==
  ASSUME SessionTypeOK, SessionTypeOK', Accounting, Polite, InStep, Command
  PROVE  InStep'
<1>1. Resting
  <2>1. CASE TargetSelect
    BY <2>1, CommandFromLoop DEF TargetSelect
  <2>2. CASE ~TargetSelect
    <3>1. PICK op : Sends(op)
      BY <2>2 DEF Command, ExecCommand, ReadCommand, ListValues, BreakInsert, BreakDelete
    <3> QED
      BY <3>1, CommandFromLoop DEF Sends, Polite
  <2> QED
    BY <2>1, <2>2
<1>2. ~AsksTooMuch /\ ~InterruptsLate
  BY HandlerAssumption DEF AsksTooMuch, InterruptsLate, Sends, Polite
<1> QED
  BY <1>1, <1>2, RestingCommand DEF Polite

-----------------------------------------------------------------------------
(* The packet a waiting call takes.                                        *)

(* It is the right one: the acknowledgement, or the call's own answer.     *)
LEMMA Welcome ==
  ASSUME SessionTypeOK, InTurn, frames # <<>>, s2c # <<>>
  PROVE  /\ s2c[1].kind \in Expected(Caller) /\ s2c[1].kind # "stop"
         /\ Caller.role # "ack" => s2c[1].re = Caller.req
<1> USE DEF Answering, Number, Expected
<1>1. Locating \/ Commanding \/ Shaking
  BY DEF InTurn, Resting, Moving
<1>2. ~Asking(Caller.req)
  BY DEF Asking
<1>3. CASE Locating
  BY <1>2, <1>3 DEF Locating, Waiting
<1>4. CASE Commanding
  BY <1>2, <1>4 DEF Commanding, CommandCall
<1>5. CASE Shaking
  <2>1. CASE Caller.role = "ack" /\ s2c[1] = Ack
    BY <2>1 DEF Ack
  <2>2. CASE Caller.role = "connect" /\ Answering(Caller.req, s2c[1], Expected(Waiting("connect", Caller.req)))
    BY <2>2 DEF Waiting
  <2> QED
    BY <1>2, <1>5, <2>1, <2>2 DEF Shaking
<1> QED
  BY <1>1, <1>3, <1>4, <1>5

(* No stop report is met, and nothing unexpected is.                       *)
LEMMA NothingGoesWrong ==
  ASSUME SessionTypeOK, NoStrayPacket, InTurn
  PROVE  ~RecvStop /\ ~RecvWrong
<1>1. ASSUME frames # <<>>, s2c # <<>>
      PROVE  /\ Head(s2c) = s2c[1] /\ Head(frames) = Caller
             /\ Head(s2c).kind \in Expected(Head(frames)) /\ Head(s2c).kind # "stop"
  BY <1>1, WireType, TailElements, CallerType, Welcome
<1>2. ~RecvStop
  BY <1>1 DEF RecvStop, StopArrives
<1>3. ~RecvWrong
  BY <1>1 DEF RecvWrong, Readable, Incoming, NoStrayPacket
<1> QED
  BY <1>2, <1>3

(* A server that has closed is fatal, and it is open while the debugger connects. *)
LEMMA EofIsFatal ==
  ASSUME Accounting, RecvEof
  PROVE  Gone' /\ srv = "closed" /\ cli # "exited"
<1>1. srv = "closed" /\ ~Connecting /\ cli # "exited"
  BY DEF RecvEof, Polling, Accounting, Handshake, StackShape, Gone
<1> QED
  BY <1>1 DEF RecvEof, Raise, Gone

(* What taking it does to the wire. *)
LEMMA TakesReply ==
  ASSUME SessionTypeOK, Accounting, NEW role, Good(role), Receive
  PROVE  /\ frames # <<>> /\ Caller.role = role /\ Asked = Caller.req
         /\ s2c # <<>> /\ Len(s2c') = Len(s2c) - 1 /\ Incoming = s2c[1]
         /\ \A i \in 1 .. Len(s2c) - 1 : s2c'[i] = s2c[i + 1]
         /\ Len(s2c) = 1 => s2c' = <<>>
<1>1. /\ frames # <<>> /\ Head(frames).role = role
      /\ s2c # <<>> /\ s2c' = Tail(s2c) /\ Incoming = Head(s2c)
  BY GoodTakes
<1>2. Caller = Head(frames)
  BY <1>1, CallerType
<1>3. /\ Head(s2c) = s2c[1] /\ Len(s2c) \in Nat \ {0}
      /\ Tail(s2c) \in Seq(Packet) /\ Len(Tail(s2c)) = Len(s2c) - 1
      /\ \A i \in 1 .. Len(s2c) - 1 : Tail(s2c)[i] = s2c[i + 1]
  BY <1>1, WireType, TailElements
<1>4. Len(s2c) = 1 => Tail(s2c) = <<>>
  <2>1. Len(s2c) = 1 => Len(Tail(s2c)) = 0
    BY <1>3
  <2> QED
    BY <1>3, <2>1, EmptyLength
<1> QED
  BY <1>1, <1>2, <1>3, <1>4 DEF Asked

(* A call returns to the loop, or to nothing. *)
LEMMA ReturnsToLoop ==
  ASSUME SessionTypeOK, Len(frames) = 1, frames' = Tail(frames)
  PROVE  frames' = <<>>
<1>1. frames \in Seq(Frame) /\ frames # <<>>
  BY NotEmpty DEF SessionTypeOK
<1>2. Tail(frames) \in Seq(Frame) /\ Len(Tail(frames)) = 0
  BY <1>1, TailElements
<1> QED
  BY <1>2, EmptyLength

LEMMA AsksNext ==
  ASSUME SessionTypeOK, Len(frames) = 1, NEW f \in Frame, frames' = <<f>> \o Tail(frames)
  PROVE  Len(frames') = 1 /\ Caller' = f /\ frames' # <<>>
<1>1. frames \in Seq(Frame) /\ frames # <<>>
  BY NotEmpty DEF SessionTypeOK
<1>2. Len(frames') = 1 /\ frames'[1] = f
  BY <1>1, ReplacedTop
<1> QED
  BY <1>2, NotEmpty DEF Caller

LEMMA RecvAckKeepsSync ==
  ASSUME SessionTypeOK, SessionTypeOK', Accounting, InStep, RecvAck
  PROVE  InStep'
<1>1. /\ Good("ack") /\ Receive
      /\ frames' = <<Waiting("connect", Asked)>> \o Tail(frames)
      /\ UNCHANGED <<c2s, serverVars, cli, remote, ui, interrupted, shown, table, bkNext>>
      /\ UNCHANGED Expecting
  BY DEF RecvAck, Expecting
<1>2. /\ frames # <<>> /\ Caller.role = "ack" /\ Asked = Caller.req
      /\ s2c # <<>> /\ Len(s2c') = Len(s2c) - 1
      /\ \A i \in 1 .. Len(s2c) - 1 : s2c'[i] = s2c[i + 1]
  BY <1>1, TakesReply
<1>3. /\ Shaking /\ ~Asking(Caller.req)
  BY <1>2
     DEF InStep, InTurn, Resting, Moving, Locating, Commanding, CommandCall, Waiting, Asking
<1>4. /\ noAckMode <=> Caller.req.op = "QStartNoAckMode"
      /\ Len(s2c) = 2 /\ OneCall /\ exeStopped
      /\ Answering(Caller.req, s2c[2], Expected(Waiting("connect", Caller.req)))
  BY <1>2, <1>3 DEF Shaking
<1>5. PICK m \in Message : m = Caller.req
  BY <1>4, OneCallShape
<1>6. Waiting("connect", m) \in Frame
  BY DEF Waiting, Frame, Roles
<1>7. Len(frames') = 1 /\ Caller' = Waiting("connect", m) /\ frames' # <<>>
  BY <1>1, <1>2, <1>4, <1>5, <1>6, AsksNext DEF OneCall
<1>8. Len(s2c') = 1 /\ s2c'[1] = s2c[2]
  BY <1>2, <1>4
<1>9. Shaking'
  <2>1. Caller'.role = "connect" /\ Caller'.req = m
    BY <1>7 DEF Waiting
  <2>2. Answering(m, s2c[1], Expected(Waiting("connect", m)))'
    BY <1>1, <1>4, <1>5, <1>8 DEF Answering, Expected, Waiting
  <2> QED
    BY <1>1, <1>3, <1>4, <1>5, <1>7, <1>8, <2>1, <2>2 DEF Shaking, OneCall, serverVars
<1>10. UNCHANGED <<Gone, Used, Mirror, Changing, instr, breakpoints>> /\ ~Changing
  BY <1>1, <1>2, <1>3, <1>5, <1>7
     DEF Gone, Used, Mirror, Changing, Waiting, Shaking, Request, serverVars
<1>11. Numbered' /\ Mirrored'
  BY <1>1, <1>10 DEF InStep, Numbered, Mirrored
<1>12. Located'
  BY <1>1, <1>2, <1>5, <1>7, <1>10 DEF InStep, Located, Pc, Waiting
<1> QED
  BY <1>1, <1>3, <1>9, <1>11, <1>12 DEF InStep, InTurn, serverVars

LEMMA RecvConnectKeepsSync ==
  ASSUME SessionTypeOK, SessionTypeOK', Accounting, InStep, RecvConnect
  PROVE  InStep'
<1>1. /\ Good("connect") /\ Receive
      /\ UNCHANGED <<serverVars, remote, ui, interrupted, shown, table, bkNext>>
      /\ UNCHANGED Expecting
  BY DEF RecvConnect, Expecting
<1>2. /\ frames # <<>> /\ Caller.role = "connect" /\ Asked = Caller.req
      /\ s2c # <<>> /\ (Len(s2c) = 1 => s2c' = <<>>)
  BY <1>1, TakesReply
<1>3. /\ Shaking /\ ~Asking(Caller.req)
  BY <1>2
     DEF InStep, InTurn, Resting, Moving, Locating, Commanding, CommandCall, Waiting, Asking
<1>4. /\ noAckMode <=> Caller.req.op = "QStartNoAckMode"
      /\ OneCall /\ exeStopped /\ ~Expecting /\ cli = "command"
      /\ Len(s2c) = 1 /\ c2s = <<>>
  BY <1>2, <1>3 DEF Shaking, Answering
<1>5. s2c' = <<>> /\ c2s \in Seq(Message) /\ Len(c2s) = 0
  BY <1>2, <1>4, WireType
<1>6. UNCHANGED <<Used, Mirror, instr, breakpoints>> /\ ~Changing /\ ~Gone
  BY <1>1, <1>3, <1>4 DEF Gone, Used, Mirror, Changing, Shaking, Request, serverVars
<1>7. Numbered' /\ breakpoints = Mirror
  BY <1>1, <1>6 DEF InStep, Numbered, Mirrored
<1>8. ASSUME ~Changing', frames' # <<>> => ~Resumes(Caller'.req),
             Resting' \/ Shaking'
      PROVE  InStep'
  <2>1. Located'
    BY <1>1, <1>3, <1>6, <1>8 DEF InStep, Located, Pc, Shaking, Resumes, Request
  <2>2. Mirrored'
    BY <1>6, <1>7, <1>8 DEF Mirrored
  <2> QED
    BY <1>1, <1>3, <1>7, <1>8, <2>1, <2>2 DEF InStep, InTurn, serverVars
<1> DEFINE Next(op) == Waiting("ack", Request(op, 0))
<1>9. ASSUME NEW op \in {"vMustReplyEmpty", "QStartNoAckMode"},
             frames' = <<Next(op)>> \o Tail(frames), cli' = cli,
             Asking(Request(op, 0))', ~noAckMode
      PROVE  InStep'
  <2>1. Next(op) \in Frame
    BY RequestType DEF Roles, Ops
  <2>2. Len(frames') = 1 /\ Caller' = Next(op) /\ frames' # <<>>
    BY <1>4, <1>9, <2>1, AsksNext DEF OneCall
  <2>3. Caller'.role = "ack" /\ Caller'.req = Request(op, 0) /\ Caller'.req.op = op
    BY <2>2 DEF Waiting, Request
  <2>4. Shaking'
    BY <1>1, <1>4, <1>9, <2>2, <2>3 DEF Shaking, OneCall, serverVars
  <2> QED
    BY <1>8, <2>3, <2>4 DEF Changing, Resumes
<1>10. CASE Asked.op = "qSupported"
  <2>1. /\ c2s' = Append(c2s, Request("vMustReplyEmpty", 0))
        /\ frames' = <<Next("vMustReplyEmpty")>> \o Tail(frames) /\ cli' = cli
    BY <1>10 DEF RecvConnect
  <2>2. Request("vMustReplyEmpty", 0) \in Message
    BY RequestType DEF Ops
  <2>3. Len(c2s') = 1 /\ c2s'[1] = Request("vMustReplyEmpty", 0)
    BY <1>5, <2>1, <2>2, AppendElements
  <2>4. Asking(Request("vMustReplyEmpty", 0))'
    BY <1>1, <1>4, <1>5, <2>3 DEF Asking, serverVars
  <2> QED
    BY <1>2, <1>4, <1>9, <1>10, <2>1, <2>4
<1>11. CASE Asked.op = "vMustReplyEmpty"
  <2>1. /\ c2s' = c2s \o <<ClientAck, Request("QStartNoAckMode", 0)>>
        /\ frames' = <<Next("QStartNoAckMode")>> \o Tail(frames) /\ cli' = cli
    BY <1>11 DEF RecvConnect
  <2>2. c2s' = <<ClientAck, Request("QStartNoAckMode", 0)>>
    BY <1>4, <2>1
  <2>3. Len(c2s') = 2 /\ c2s'[1] = ClientAck /\ c2s'[2] = Request("QStartNoAckMode", 0)
    BY <2>2
  <2>4. Asking(Request("QStartNoAckMode", 0))'
    BY <1>1, <1>4, <1>5, <2>3 DEF Asking, serverVars
  <2> QED
    BY <1>2, <1>4, <1>9, <1>11, <2>1, <2>4
<1>12. CASE Asked.op = "QStartNoAckMode"
  <2>1. c2s' = Append(c2s, ClientAck) /\ frames' = Tail(frames) /\ cli' = "serve"
    BY <1>12 DEF RecvConnect, Return
  <2>2. Len(c2s') = 1 /\ c2s'[1] = ClientAck
    BY <1>5, <2>1, ClientAckAsksNothing, AppendElements
  <2>3. frames' = <<>>
    BY <1>4, <2>1, ReturnsToLoop DEF OneCall
  <2>4. Resting'
    BY <1>1, <1>4, <1>5, <2>1, <2>2, <2>3 DEF Resting, OneCall, serverVars
  <2> QED
    BY <1>8, <2>3, <2>4 DEF Changing
<1> QED
  BY <1>10, <1>11, <1>12 DEF RecvConnect

(* The reply to a command comes alone, or with the report of the resumed   *)
(* program's next stop behind it.                                          *)
LEMMA CommandAnswered ==
  ASSUME SessionTypeOK, Accounting, InTurn, NEW role \in {"ok", "read", "values"},
         Good(role), Receive
  PROVE  /\ Commanding /\ Caller.role = role /\ Asked = Caller.req
         /\ s2c # <<>> /\ c2s = <<>>
         /\ ~Resumes(Caller.req) => s2c' = <<>> /\ exeStopped
         /\ Resumes(Caller.req) => \/ s2c' = <<>> /\ ~exeStopped
                                   \/ Len(s2c') = 1 /\ s2c'[1].kind = "stop" /\ exeStopped
<1>1. /\ frames # <<>> /\ Caller.role = role /\ Asked = Caller.req
      /\ s2c # <<>> /\ Len(s2c') = Len(s2c) - 1
      /\ \A i \in 1 .. Len(s2c) - 1 : s2c'[i] = s2c[i + 1]
      /\ Len(s2c) = 1 => s2c' = <<>>
  BY TakesReply
<1>2. Commanding /\ ~Asking(Caller.req)
  BY <1>1 DEF InTurn, Resting, Moving, Locating, Shaking, Waiting, Asking
<1>3. Len(s2c) = 2 => Len(s2c') = 1 /\ s2c'[1] = s2c[2]
  BY <1>1
<1> QED
  BY <1>1, <1>2, <1>3 DEF Commanding, Answering

(* A command that changes no breakpoint is over. *)
LEMMA CommandOver ==
  ASSUME SessionTypeOK, InStep, Commanding, ~Resumes(Caller.req),
         s2c' = <<>>, c2s' = <<>>, exeStopped,
         frames' = Tail(frames), cli' = "serve",
         UNCHANGED <<serverVars, remote, ui, interrupted, shown>>
  PROVE  InTurn' /\ Located' /\ frames' = <<>>
<1>1. frames' = <<>>
  BY ReturnsToLoop DEF Commanding, OneCall
<1>2. Resting'
  BY <1>1 DEF Resting, Commanding, Expecting, OneCall, serverVars
<1>3. Located'
  BY <1>1 DEF InStep, Located, Pc, Commanding, Gone, serverVars
<1> QED
  BY <1>1, <1>2, <1>3 DEF InTurn, serverVars

LEMMA QuietReturn ==
  ASSUME SessionTypeOK, InStep, ~Changing, ~Gone, ~Changing', InTurn', Located',
         UNCHANGED <<breakpoints, table, bkNext>>
  PROVE  InStep'
<1>1. UNCHANGED <<Used, Mirror>>
  BY DEF Used, Mirror
<1> QED
  BY <1>1 DEF InStep, Numbered, Mirrored

(* The debugger's table follows the server.                                *)
LEMMA ChangeConfirmed ==
  ASSUME SessionTypeOK, Accounting, Numbered, Mirrored, Changing, ~Gone, RecvOk,
         s2c # <<>>, Asked = Caller.req, frames' = <<>>, Len(frames) = 1
  PROVE  Numbered' /\ Mirrored'
<1> DEFINE m == Caller.req
<1>1. /\ LineOf(m.arg) \in Lines /\ m.arg = AddrOf(LineOf(m.arg))
      /\ \A n \in Used : table[n] # LineOf(m.arg)
      /\ breakpoints = IF m.op = "Z" THEN Mirror \cup {m.arg} ELSE Mirror
      /\ m.op \in {"Z", "z"}
  BY DEF Mirrored, Changing
<1>2. ~Changing' /\ UNCHANGED breakpoints
  BY DEF Changing, RecvOk, serverVars
<1>3. CASE m.op = "z"
  <2>1. UNCHANGED <<table, bkNext>>
    BY <1>3 DEF RecvOk
  <2>2. UNCHANGED <<Used, Mirror>>
    BY <2>1 DEF Used, Mirror
  <2> QED
    BY <1>1, <1>2, <1>3, <2>1, <2>2 DEF Numbered, Mirrored
<1>4. CASE m.op = "Z"
  <2>1. PICK line \in Lines : line = LineOf(m.arg) /\ m.arg = AddrOf(line)
    BY <1>1
  <2>2. table' = [table EXCEPT ![bkNext] = line] /\ bkNext' = bkNext + 1
    BY <1>4, <2>1 DEF RecvOk
  <2>3. bkNext \in Numbers
    <3>1. bkNext < MaxBreaks
      <4>1. 1 \in 1 .. Len(frames)
        OBVIOUS
      <4> QED
        BY <1>4, <4>1 DEF Accounting, PendingInsert, Caller
    <3> QED
      BY <3>1, FrontEndAssumption DEF Numbers, SessionTypeOK
  <2>4. table \in [Numbers -> Lines \cup {NoLine}] /\ line # NoLine
    BY ProgramAssumption DEF SessionTypeOK
  <2>5. /\ table'[bkNext] = line
        /\ \A n \in Numbers : n # bkNext => table'[n] = table[n]
    BY <2>2, <2>3, <2>4
  <2>6. Used' = Used \cup {bkNext} /\ \A n \in Used : n # bkNext
    <3>1. \A n \in Used : n \in Nat /\ n < bkNext
      BY DEF Numbered, Used, Numbers
    <3> QED
      BY <2>3, <2>4, <2>5, <3>1 DEF Used
  <2>7. \A n \in Used : table'[n] = table[n]
    BY <2>5, <2>6 DEF Used
  <2>8. Mirror' = Mirror \cup {m.arg}
    BY <2>1, <2>5, <2>6, <2>7 DEF Mirror
  <2>9. Numbered'
    <3>1. \A n \in Used' : n < bkNext'
      <4>1. bkNext \in Nat /\ \A n \in Used : n \in Nat
        BY <2>3 DEF Used, Numbers
      <4> QED
        BY <2>2, <2>6, <4>1 DEF Numbered
    <3>2. \A n, k \in Used' : table'[n] = table'[k] => n = k
      BY <1>1, <2>1, <2>5, <2>6, <2>7 DEF Numbered
    <3> QED
      BY <3>1, <3>2 DEF Numbered
  <2> QED
    BY <1>1, <1>2, <1>4, <2>8, <2>9 DEF Mirrored
<1> QED
  BY <1>1, <1>3, <1>4

LEMMA RecvOkKeepsSync ==
  ASSUME SessionTypeOK, SessionTypeOK', Accounting, InStep, RecvOk
  PROVE  InStep'
<1>1. /\ Good("ok") /\ Receive /\ frames' = Tail(frames) /\ cli' = "serve"
      /\ ui' = IF Asked.op \in {"c", "s"} THEN "running" ELSE ui
      /\ Asked.op # "vCtrlC" => UNCHANGED interrupted
      /\ UNCHANGED <<c2s, serverVars, remote, shown>>
  BY DEF RecvOk, Return, SessionTypeOK
<1>2. /\ Commanding /\ Caller.role = "ok" /\ Asked = Caller.req
      /\ s2c # <<>> /\ c2s = <<>>
      /\ ~Resumes(Caller.req) => s2c' = <<>> /\ exeStopped
      /\ Resumes(Caller.req) => \/ s2c' = <<>> /\ ~exeStopped
                                \/ Len(s2c') = 1 /\ s2c'[1].kind = "stop" /\ exeStopped
  BY <1>1, CommandAnswered DEF InStep
<1>3. /\ frames' = <<>> /\ ~Gone /\ remote /\ frames # <<>> /\ Len(frames) = 1
      /\ Caller.req.op \in {"c", "s", "Z", "z"}
  BY <1>1, <1>2, ReturnsToLoop, NotEmpty DEF Commanding, CommandCall, OneCall, Gone
<1>4. CASE Resumes(Caller.req)
  <2>1. ui' = "running" /\ Expecting'
    BY <1>1, <1>2, <1>4 DEF Resumes, Expecting
  <2>2. Moving'
    BY <1>1, <1>2, <1>3, <1>4, <2>1 DEF Moving, serverVars
  <2>3. UNCHANGED <<table, bkNext>>
    BY <1>2, <1>4 DEF RecvOk, Resumes
  <2>4. InTurn' /\ Located'
    BY <1>1, <1>2, <2>1, <2>2 DEF InTurn, Located, serverVars
  <2>5. ~Changing /\ ~Changing' /\ UNCHANGED breakpoints
    BY <1>1, <1>3, <1>4 DEF Changing, Resumes, serverVars
  <2> QED
    BY <1>3, <2>3, <2>4, <2>5, QuietReturn
<1>5. CASE ~Resumes(Caller.req)
  <2> DEFINE m == Caller.req
  <2>1. m.op \in {"Z", "z"} /\ Changing /\ UNCHANGED <<ui, interrupted>>
    BY <1>1, <1>2, <1>3, <1>5 DEF Resumes, Changing
  <2>2. InTurn' /\ Located'
    BY <1>1, <1>2, <1>5, <2>1, CommandOver
  <2>3. Numbered' /\ Mirrored'
    BY <1>1, <1>2, <1>3, <2>1, ChangeConfirmed DEF InStep
  <2> QED
    BY <2>2, <2>3 DEF InStep
<1> QED
  BY <1>4, <1>5

LEMMA RecvReadKeepsSync ==
  ASSUME SessionTypeOK, SessionTypeOK', Accounting, InStep, RecvRead \/ RecvListed
  PROVE  InStep'
<1>1. PICK role \in {"read", "values"} :
        /\ Good(role) /\ Receive /\ (role = "read" => RecvRead)
        /\ UNCHANGED <<serverVars, remote, ui, interrupted, shown, table, bkNext>>
        /\ UNCHANGED Expecting
  BY DEF RecvRead, RecvListed, Expecting
<1>2. /\ Commanding /\ Caller.role = role /\ Asked = Caller.req
      /\ s2c # <<>> /\ c2s = <<>>
      /\ ~Resumes(Caller.req) => s2c' = <<>> /\ exeStopped
  BY <1>1, CommandAnswered DEF InStep
<1>3. /\ ~Resumes(Caller.req) /\ ~Changing /\ ~Gone
      /\ OneCall /\ Caller.req \in Message /\ Caller.req.arg \in Nat
  BY <1>1, <1>2, OneCallShape
     DEF Commanding, CommandCall, Resumes, Changing, Gone, Message
<1>4. CASE Return /\ UNCHANGED c2s
  <2>1. InTurn' /\ Located' /\ frames' = <<>>
    BY <1>1, <1>2, <1>3, <1>4, CommandOver DEF Return
  <2> QED
    BY <1>1, <1>3, <2>1, QuietReturn DEF Changing, serverVars
<1>5. CASE ~(Return /\ UNCHANGED c2s)
  <2> DEFINE next == Request("p", Asked.arg + 1)
  <2>1. /\ Asked.arg < NumRegs /\ c2s' = Append(c2s, next)
        /\ frames' = <<Waiting("values", next)>> \o Tail(frames) /\ UNCHANGED cli
    BY <1>5 DEF RecvRead, RecvListed
  <2>2. PICK m \in Message : m = next
    BY <1>2, <1>3, RequestType DEF Ops
  <2>3. /\ m.op = "p" /\ m.arg <= NumRegs /\ Waiting("values", m) \in Frame
    BY <1>2, <1>3, <2>1, <2>2, HandlerAssumption DEF Request, Waiting, Frame, Roles
  <2>4. Len(frames') = 1 /\ Caller' = Waiting("values", m) /\ frames' # <<>>
    BY <1>3, <2>1, <2>2, <2>3, AsksNext DEF OneCall
  <2>5. Len(c2s') = 1 /\ c2s'[1] = m
    <3>1. c2s \in Seq(Message) /\ Len(c2s) = 0
      BY <1>2, WireType
    <3> QED
      BY <2>1, <2>2, <3>1, AppendElements
  <2>6. Asking(m)'
    BY <1>1, <1>2, <1>3, <2>5 DEF Asking, serverVars
  <2>7. Commanding'
    <3>1. Caller'.role = "values" /\ Caller'.req = m
      BY <2>4 DEF Waiting
    <3> QED
      BY <1>1, <1>2, <1>3, <2>1, <2>3, <2>4, <2>6, <3>1 DEF Commanding, CommandCall, OneCall
  <2>8. InTurn'
    BY <1>1, <1>2, <2>7 DEF InTurn, serverVars
  <2>9. Located' /\ ~Changing'
    BY <1>1, <1>3, <2>1, <2>3, <2>4
       DEF InStep, Located, Pc, Gone, Changing, Waiting, serverVars
  <2> QED
    BY <1>1, <1>3, <2>8, <2>9, QuietReturn DEF serverVars
<1> QED
  BY <1>4, <1>5

LEMMA RecvPositionKeepsSync ==
  ASSUME SessionTypeOK, SessionTypeOK', Accounting, InStep, RecvPosition
  PROVE  InStep'
<1>1. /\ Good("stop") /\ Receive /\ frames' = Tail(frames) /\ ui' = "stopped"
      /\ shown' = LineOf(Incoming.val) /\ ~Expecting'
      /\ UNCHANGED <<c2s, serverVars, cli, remote, table, bkNext>>
  BY DEF RecvPosition, Expecting
<1>2. /\ frames # <<>> /\ Caller.role = "stop" /\ s2c # <<>> /\ Incoming = s2c[1]
      /\ Len(s2c) = 1 => s2c' = <<>>
  BY <1>1, TakesReply
<1>3. Locating /\ ~Asking(Caller.req)
  BY <1>2
     DEF InStep, InTurn, Resting, Moving, Commanding, CommandCall, Shaking, Asking
<1>4. /\ Len(s2c) = 1 /\ c2s = <<>> /\ Incoming.val = Pc /\ exeStopped /\ OneCall /\ cli = "poll"
  BY <1>2, <1>3 DEF Locating, Answering
<1>5. frames' = <<>>
  BY <1>1, <1>4, ReturnsToLoop DEF OneCall
<1>6. Resting'
  BY <1>1, <1>2, <1>4, <1>5 DEF Resting, OneCall, serverVars
<1>7. InTurn'
  BY <1>1, <1>3, <1>6 DEF InTurn, serverVars
<1>8. Located'
  <2>1. PICK line \in Lines : Pc = AddrOf(line)
    BY ProgramAssumption DEF Pc, SessionTypeOK, ServerTypeOK
  <2>2. shown' = line
    BY <1>1, <1>4, <2>1, AddressOfLine
  <2>3. Pc' = Pc
    BY <1>1 DEF Pc, serverVars
  <2> QED
    BY <2>1, <2>2, <2>3 DEF Located
<1>9. ~Changing /\ ~Changing' /\ ~Gone /\ UNCHANGED breakpoints
  BY <1>1, <1>3, <1>4, <1>5 DEF Changing, Locating, Waiting, Request, Gone, serverVars
<1> QED
  BY <1>1, <1>7, <1>8, <1>9, QuietReturn

-----------------------------------------------------------------------------
(* The invariant is inductive.                                             *)

LEMMA SyncInitial ==
  ASSUME SessionInit
  PROVE  SyncInvariant
<1> USE DEF SessionInit, ServerInit, WireInit, StubInit, HandlerInit
<1>1. InTurn
  BY DEF InTurn, Resting, Expecting
<1>2. Used = {} /\ Mirror = {}
  BY DEF Used, Mirror
<1>3. Located /\ Numbered /\ Mirrored
  BY <1>2 DEF Located, Numbered, Mirrored, Changing
<1> QED
  BY <1>1, <1>3 DEF SyncInvariant, InStep

LEMMA InStepStutter ==
  ASSUME InStep, UNCHANGED sessionVars
  PROVE  InStep'
<1>1. InTurn'
  BY DEF InStep, InTurn, Resting, Moving, Locating, Commanding, CommandCall, Shaking, Expecting,
         OneCall, Caller, Asking, Answering, Pc, Expected, Waiting,
         sessionVars, wireVars, serverVars, clientVars
<1>2. Located' /\ Numbered' /\ Mirrored'
  BY DEF InStep, Located, Numbered, Mirrored, Changing, Caller, Gone, Used, Mirror, Pc,
         sessionVars, wireVars, serverVars, clientVars
<1> QED
  BY <1>1, <1>2 DEF InStep

(* A packet received in step, unless the server has closed.                *)
LEMMA RecvKeepsSync ==
  ASSUME SessionTypeOK, SessionTypeOK', Accounting, InStep, Recv
  PROVE  InStep' \/ RecvEof
<1>1. ~RecvStop /\ ~RecvWrong
  BY NothingGoesWrong DEF InStep, Accounting
<1> QED
  BY <1>1, RecvAckKeepsSync, RecvConnectKeepsSync, RecvOkKeepsSync, RecvReadKeepsSync,
     RecvPositionKeepsSync DEF Recv

(* The debugger leaves the server as it is.                                *)
LEMMA ClientLeavesServer ==
  ASSUME Recv \/ LoopNext \/ Command
  PROVE  UNCHANGED <<srv, breakpoints, instr>>
<1>1. CASE Recv
  BY <1>1
     DEF Recv, RecvStop, RecvAck, RecvConnect, RecvOk, RecvRead, RecvListed, RecvPosition,
         RecvWrong, RecvEof, serverVars
<1>2. CASE LoopNext
  BY <1>2 DEF LoopNext, PollNothing, PollPacket, ServeDone, Exit, serverVars
<1>3. CASE Command
  BY <1>3
     DEF Command, TargetSelect, ExecCommand, ReadCommand, ListValues, BreakInsert, BreakDelete,
         Call, serverVars
<1> QED
  BY <1>1, <1>2, <1>3

LEMMA PoliteServer ==
  ASSUME Polite, SessionTypeOK, Accounting, InTurn, ServerNext, cli # "exited"
  PROVE  srv' # "closed"
<1>1. /\ ~Gone
      /\ Resting \/ Moving \/ Locating \/ Commanding \/ Shaking
  BY InTurnAlive
<1>2. cliOpen
  BY <1>1, ServerIsAlone DEF Accounting, StackShape
<1> QED
  BY <1>1, <1>2, TurnsArePolite, PoliteServerStep

LEMMA SyncStep ==
  ASSUME Polite, SessionTypeOK, SessionTypeOK', Accounting, SyncInvariant,
         [SessionNext]_sessionVars
  PROVE  SyncInvariant'
<1>0. InStep /\ InTurn /\ (srv = "closed" => cli = "exited")
  BY DEF SyncInvariant, InStep
<1>1. CASE Recv
  <2>1. InStep'
    BY <1>0, <1>1, RecvKeepsSync, EofIsFatal
  <2>2. cli # "exited"
    BY <1>1, <1>0
       DEF Recv, RecvStop, RecvAck, RecvConnect, RecvOk, RecvRead, RecvListed, RecvPosition,
           RecvWrong, RecvEof, Good, Takes, Polling, Accounting, StackShape, Gone
  <2> QED
    BY <1>0, <1>1, <2>1, <2>2, ClientLeavesServer DEF SyncInvariant
<1>2. CASE LoopNext
  <2>1. cli # "exited"
    BY <1>2 DEF LoopNext, PollNothing, PollPacket, Polling, ServeDone, Exit
  <2> QED
    BY <1>0, <1>2, <2>1, LoopKeepsSync, ClientLeavesServer DEF SyncInvariant
<1>3. CASE Command
  <2>1. cli # "exited"
    BY <1>3
       DEF Command, TargetSelect, ExecCommand, ReadCommand, ListValues, BreakInsert, BreakDelete, Call
  <2> QED
    BY <1>0, <1>3, <2>1, CommandKeepsSync, ClientLeavesServer DEF SyncInvariant
<1>4. CASE ServerNext /\ UNCHANGED clientVars
  <2>1. InStep' /\ cli' = cli
    BY <1>0, <1>4, ServerKeepsStep DEF clientVars
  <2> QED
    BY <1>0, <1>4, <2>1, PoliteServer DEF SyncInvariant
<1>5. CASE Finished \/ UNCHANGED sessionVars
  <2>1. UNCHANGED sessionVars
    BY <1>5 DEF Finished
  <2>2. UNCHANGED <<srv, cli>>
    BY <2>1 DEF sessionVars, serverVars, clientVars
  <2> QED
    BY <1>0, <2>1, <2>2, InStepStutter DEF SyncInvariant
<1> QED
  BY <1>1, <1>2, <1>3, <1>4, <1>5 DEF SessionNext

(* With a polite front-end the two processes take turns.                   *)
THEOREM SessionsInStep ==
  ASSUME Polite
  PROVE  SessionSpec => []SyncInvariant
<1> DEFINE Inv == SessionTypeOK /\ Accounting /\ SyncInvariant
<1>1. SessionInit => Inv
  BY SessionInitial, SyncInitial
<1>2. Inv /\ [SessionNext]_sessionVars => Inv'
  BY SessionStep, SyncStep
<1>3. Inv => SyncInvariant
  OBVIOUS
<1> QED
  BY <1>1, <1>2, <1>3, PTL DEF SessionSpec

(* Every waiting receivePkt gets the reply to the request it has sent,     *)
(* although no reply says which request it answers.                        *)
THEOREM RepliesToTheirCallers ==
  ASSUME Polite
  PROVE  SessionSpec => []NextReplyIsMine
<1>1. SessionTypeOK /\ Accounting /\ SyncInvariant => NextReplyIsMine
  <2> SUFFICES ASSUME SessionTypeOK, Accounting, SyncInvariant,
                      frames # <<>>, Readable, Head(frames).role # "ack"
               PROVE  Incoming.re = Asked
    BY DEF NextReplyIsMine
  <2>1. s2c # <<>> /\ Incoming = Head(s2c) /\ Asked = Caller.req /\ Caller = Head(frames)
    BY CallerType DEF Accounting, NoStrayPacket, Readable, Incoming, Asked
  <2>2. Head(s2c) = s2c[1]
    BY <2>1, WireType, TailElements
  <2> QED
    BY <2>1, <2>2, Welcome DEF SyncInvariant, InStep
<1> QED
  BY <1>1, SessionInvariant, SessionsInStep, PTL

(* No assertion of the debugger fails, and its loop is never left but by   *)
(* gdb-exit.                                                               *)
THEOREM DebuggerSurvives ==
  ASSUME Polite
  PROVE  SessionSpec => []ClientAlive
<1>1. SyncInvariant => ClientAlive
  BY DEF SyncInvariant, InStep, InTurn, Resting, Moving, Locating, Commanding, Shaking, ClientAlive
<1> QED
  BY <1>1, SessionsInStep, PTL

-----------------------------------------------------------------------------
(* A front-end that interrupts.  First, what comes before what on the wire.*)

LEMMA LeadsBehind ==
  ASSUME NEW V, NEW s \in Seq(V), NEW e \in V, NEW S, NEW T
  PROVE  /\ Leads(s, S, T) => Leads(Append(s, e), S, T)
         /\ (\A i \in 1 .. Len(s) : s[i] \in S) =>
               /\ e \in T => Leads(Append(s, e), S, T)
               /\ e \in S => \A i \in 1 .. Len(Append(s, e)) : Append(s, e)[i] \in S
<1> DEFINE t == Append(s, e)
<1>1. /\ Len(t) = Len(s) + 1 /\ t[Len(s) + 1] = e
      /\ \A i \in 1 .. Len(s) : t[i] = s[i]
  BY AppendElements
<1>2. Len(s) \in Nat
  OBVIOUS
<1> HIDE DEF t
<1>3. ASSUME Leads(s, S, T)
      PROVE  Leads(t, S, T)
  <2>1. PICK i \in 1 .. Len(s) : s[i] \in T /\ \A j \in 1 .. i - 1 : s[j] \in S
    BY <1>3 DEF Leads
  <2>2. i \in 1 .. Len(t) /\ \A j \in 1 .. i - 1 : j \in 1 .. Len(s)
    BY <1>1, <1>2
  <2> QED
    BY <1>1, <2>1, <2>2 DEF Leads
<1>4. ASSUME \A i \in 1 .. Len(s) : s[i] \in S, e \in T
      PROVE  Leads(t, S, T)
  <2>1. Len(s) + 1 \in 1 .. Len(t) /\ (Len(s) + 1) - 1 = Len(s)
    BY <1>1, <1>2
  <2>2. \A j \in 1 .. (Len(s) + 1) - 1 : t[j] \in S
    BY <1>1, <1>4, <2>1
  <2> QED
    BY <1>1, <1>4, <2>1, <2>2 DEF Leads
<1>5. ASSUME \A i \in 1 .. Len(s) : s[i] \in S, e \in S
      PROVE  \A i \in 1 .. Len(t) : t[i] \in S
  BY <1>1, <1>2, <1>5
<1> QED
  BY <1>3, <1>4, <1>5 DEF t

LEMMA LeadsTail ==
  ASSUME NEW V, NEW s \in Seq(V), s # <<>>, NEW S, NEW T
  PROVE  /\ Leads(s, S, T) /\ Head(s) \notin T => Head(s) \in S /\ Leads(Tail(s), S, T)
         /\ (\A i \in 1 .. Len(s) : s[i] \in S)
              => Head(s) \in S /\ \A i \in 1 .. Len(Tail(s)) : Tail(s)[i] \in S
<1> DEFINE t == Tail(s)
<1>1. /\ Head(s) = s[1] /\ Len(s) \in Nat \ {0} /\ Len(t) = Len(s) - 1
      /\ \A i \in 1 .. Len(s) - 1 : t[i] = s[i + 1]
  BY TailElements
<1> HIDE DEF t
<1>2. ASSUME Leads(s, S, T), Head(s) \notin T
      PROVE  Head(s) \in S /\ Leads(t, S, T)
  <2>1. PICK i \in 1 .. Len(s) : s[i] \in T /\ \A j \in 1 .. i - 1 : s[j] \in S
    BY <1>2 DEF Leads
  <2>2. i # 1
    BY <1>1, <1>2, <2>1
  <2>3. /\ i - 1 \in 1 .. Len(t) /\ 1 \in 1 .. i - 1
        /\ \A j \in 1 .. (i - 1) - 1 : j \in 1 .. Len(s) - 1 /\ j + 1 \in 1 .. i - 1
    BY <1>1, <2>2
  <2>4. t[i - 1] = s[i] /\ \A j \in 1 .. (i - 1) - 1 : t[j] \in S
    BY <1>1, <2>1, <2>3
  <2> QED
    BY <1>1, <2>1, <2>3, <2>4 DEF Leads
<1>3. ASSUME \A i \in 1 .. Len(s) : s[i] \in S
      PROVE  Head(s) \in S /\ \A i \in 1 .. Len(t) : t[i] \in S
  BY <1>1, <1>3
<1> QED
  BY <1>2, <1>3 DEF t

LEMMA HeadStays ==
  ASSUME NEW V, NEW s \in Seq(V), s # <<>>, NEW e \in V
  PROVE  Append(s, e) # <<>> /\ Head(Append(s, e)) = Head(s)
<1>1. /\ Append(s, e) # <<>> /\ Append(s, e) \in Seq(V)
      /\ \A i \in 1 .. Len(s) : Append(s, e)[i] = s[i]
  BY AppendElements
<1>2. Head(s) = s[1] /\ 1 \in 1 .. Len(s)
  BY TailElements
<1>3. Head(Append(s, e)) = Append(s, e)[1]
  BY <1>1, TailElements
<1> QED
  BY <1>1, <1>2, <1>3

(* The server sends behind what it has sent: one packet, or two.           *)
Sent(p) == s2c' = Append(s2c, p)

SentBoth(p, q) == s2c' = Append(Append(s2c, p), q)

LEMMA NestingStays ==
  ASSUME SessionTypeOK, UNCHANGED clientVars, NEW p \in Packet, NEW q \in Packet,
         UNCHANGED s2c \/ Sent(p) \/ SentBoth(p, q)
  PROVE  Nesting => Nesting'
<1>1. UNCHANGED <<pushed, frames>>
  BY DEF clientVars
<1>2. s2c # <<>> => s2c' # <<>> /\ Head(s2c') = Head(s2c)
  <2>1. s2c \in Seq(Packet)
    BY WireType
  <2>2. CASE Sent(p)
    BY <2>1, <2>2, HeadStays DEF Sent
  <2>3. CASE SentBoth(p, q)
    <3>1. Append(s2c, p) \in Seq(Packet)
      BY <2>1, AppendElements
    <3>2. s2c # <<>> => Append(s2c, p) # <<>> /\ Head(Append(s2c, p)) = Head(s2c)
      BY <2>1, HeadStays
    <3>3. s2c # <<>> => Head(Append(Append(s2c, p), q)) = Head(Append(s2c, p))
                        /\ Append(Append(s2c, p), q) # <<>>
      BY <3>1, <3>2, HeadStays
    <3> QED
      BY <2>3, <3>2, <3>3 DEF SentBoth
  <2> QED
    BY <2>2, <2>3
<1> QED
  BY <1>1, <1>2 DEF Nesting, StopArrives

LEMMA ConfirmationBehind ==
  ASSUME SessionTypeOK, NEW p \in Packet, NEW q \in Packet,
         UNCHANGED s2c \/ Sent(p) \/ SentBoth(p, q)
  PROVE  /\ Leads(s2c, Stops, Confirmations) => Leads(s2c, Stops, Confirmations)'
         /\ OnlyReports => /\ UNCHANGED s2c => OnlyReports'
                           /\ Sent(p) /\ p \in Stops => OnlyReports'
                           /\ ~UNCHANGED s2c /\ p \in Confirmations => Leads(s2c, Stops, Confirmations)'
<1>1. s2c \in Seq(Packet) /\ Append(s2c, p) \in Seq(Packet)
  BY WireType, AppendElements
<1>2. CASE UNCHANGED s2c
  BY <1>2 DEF Leads, OnlyReports, Stops, Confirmations
<1>3. /\ Leads(s2c, Stops, Confirmations) => Leads(Append(s2c, p), Stops, Confirmations)
      /\ OnlyReports => /\ p \in Confirmations => Leads(Append(s2c, p), Stops, Confirmations)
                        /\ p \in Stops => \A i \in 1 .. Len(Append(s2c, p)) : Append(s2c, p)[i] \in Stops
  BY <1>1, LeadsBehind DEF OnlyReports
<1>4. CASE Sent(p) /\ ~UNCHANGED s2c
  <2>1. Leads(s2c, Stops, Confirmations)' <=> Leads(Append(s2c, p), Stops, Confirmations)
    BY <1>4 DEF Sent, Leads, Stops, Confirmations
  <2> QED
    BY <1>3, <1>4, <2>1 DEF Sent, OnlyReports
<1>5. CASE SentBoth(p, q) /\ ~UNCHANGED s2c /\ ~Sent(p)
  <2>1. Leads(s2c, Stops, Confirmations)' <=> Leads(Append(Append(s2c, p), q), Stops, Confirmations)
    BY <1>5 DEF SentBoth, Leads, Stops, Confirmations
  <2>2. Leads(Append(s2c, p), Stops, Confirmations) => Leads(Append(Append(s2c, p), q), Stops, Confirmations)
    BY <1>1, LeadsBehind
  <2> QED
    BY <1>3, <1>5, <2>1, <2>2
<1> QED
  BY <1>2, <1>4, <1>5

(* A confirmation of what the front-end asked meanwhile, or a refusal.     *)
LEMMA MeddlingAnswered ==
  ASSUME SessionTypeOK, NEW m \in Message, m \in Meddling, Acked = s2c,
         Serves(m) \/ Interrupts(m)
  PROVE  \E p \in Packet, q \in Packet :
           /\ p \in Confirmations /\ (Sent(p) \/ SentBoth(p, q)) /\ ~UNCHANGED s2c
<1>w. s2c \in Seq(Packet)
  BY WireType
<1>l. ASSUME NEW p \in Packet
      PROVE  Append(s2c, p) # s2c /\ Append(s2c, p) \in Seq(Packet) /\ Len(Append(s2c, p)) = Len(s2c) + 1
  BY <1>w, AppendElements
<1>n. Len(s2c) \in Nat
  BY WireType
<1>1. CASE Serves(m)
  <2>1. PICK kind \in AnswerKinds(m), val \in Nat : s2c' = Append(s2c, Answer(kind, val, m))
    BY <1>1 DEF Serves
  <2>2. kind \in {"ok", "error"}
    BY <1>1 DEF AnswerKinds, Meddling, Serves
  <2>3. Answer(kind, val, m) \in Packet
    BY <2>2, AnswerType DEF ReplyKinds
  <2>4. Answer(kind, val, m) \in Confirmations
    BY <2>2, <2>3 DEF Confirmations, Answer
  <2> QED
    BY <1>l, <2>1, <2>3, <2>4 DEF Sent
<1>2. CASE Interrupts(m)
  <2>1. s2c' = Append(Append(s2c, Answer("ok", 0, m)), Stopped(INT))
    BY <1>2 DEF Interrupts
  <2>2. Answer("ok", 0, m) \in Packet /\ Stopped(INT) \in Packet
    BY AnswerType, StoppedType DEF ReplyKinds, INT
  <2>3. Answer("ok", 0, m) \in Confirmations
    BY <2>2 DEF Confirmations, Answer
  <2>4. s2c' # s2c
    <3>1. Len(Append(Append(s2c, Answer("ok", 0, m)), Stopped(INT))) = Len(s2c) + 1 + 1
      BY <1>l, <2>2, AppendElements
    <3> QED
      BY <1>n, <2>1, <3>1
  <2> QED
    BY <2>1, <2>2, <2>3, <2>4 DEF SentBoth
<1> QED
  BY <1>1, <1>2

(* Any answer, and what the running program reports.                       *)
LEMMA ServerAppends ==
  ASSUME SessionTypeOK, Acked = s2c,
         Waits \/ SkipsAck \/ Serves(Head(c2s)) \/ Executes \/ Interrupts(Head(c2s)) \/ Fails(Head(c2s))
  PROVE  \E p \in Packet, q \in Packet :
           /\ UNCHANGED s2c \/ Sent(p) \/ SentBoth(p, q)
           /\ Executes => UNCHANGED s2c \/ (Sent(p) /\ p \in Stops)
<1> DEFINE Goal == \E p \in Packet, q \in Packet :
                     /\ UNCHANGED s2c \/ Sent(p) \/ SentBoth(p, q)
                     /\ Executes => UNCHANGED s2c \/ (Sent(p) /\ p \in Stops)
<1> SUFFICES Goal
  OBVIOUS
<1>0. Stopped(INT) \in Packet
  BY StoppedType DEF INT
<1>h. c2s # <<>> => Head(c2s) \in Message
  BY WireType, TailElements
<1>1. CASE Executes
  <2>1. CASE UNCHANGED s2c
    BY <1>0, <2>1
  <2>2. CASE ~UNCHANGED s2c
    <3>1. PICK sig \in Nat : s2c' = Append(s2c, Stopped(sig))
      BY <1>1, <2>2 DEF Executes
    <3>2. Stopped(sig) \in Packet /\ Stopped(sig) \in Stops
      BY StoppedType DEF Stops, Stopped
    <3> QED
      BY <3>1, <3>2 DEF Sent
  <2> QED
    BY <2>1, <2>2
<1>2. CASE ~Executes /\ Serves(Head(c2s))
  <2>1. PICK kind \in AnswerKinds(Head(c2s)), val \in Nat :
          s2c' = Append(s2c, Answer(kind, val, Head(c2s)))
    BY <1>2 DEF Serves
  <2>2. kind \in ReplyKinds
    BY <2>1 DEF AnswerKinds, ReplyKinds
  <2>3. Answer(kind, val, Head(c2s)) \in Packet
    BY <1>2, <1>h, <2>2, AnswerType DEF Serves
  <2> QED
    BY <1>2, <2>1, <2>3 DEF Sent
<1>3. CASE ~Executes /\ Interrupts(Head(c2s))
  <2>1. s2c' = Append(Append(s2c, Answer("ok", 0, Head(c2s))), Stopped(INT))
    BY <1>3 DEF Interrupts
  <2>2. Answer("ok", 0, Head(c2s)) \in Packet
    BY <1>3, <1>h, AnswerType DEF ReplyKinds, Interrupts
  <2> QED
    BY <1>0, <1>3, <2>1, <2>2 DEF SentBoth
<1>4. CASE ~Executes /\ (Waits \/ SkipsAck \/ Fails(Head(c2s)))
  BY <1>0, <1>4 DEF Waits, SkipsAck, Fails
<1> HIDE DEF Goal
<1> QED
  BY <1>1, <1>2, <1>3, <1>4

(* The server's steps do not save a debugger that will fail.               *)
LEMMA DoomedServer ==
  ASSUME SessionTypeOK, SessionTypeOK', Accounting, Doomed, ServerNext, UNCHANGED clientVars
  PROVE  Doomed'
<1>1. frames # <<>> /\ ~Connecting /\ frames' # <<>> /\ ~Connecting'
  BY DEF Doomed, Connecting, clientVars
<1>2. cliOpen
  BY <1>1 DEF Accounting, StackShape
<1>3. Acked = s2c
  BY <1>1, <1>2 DEF Accounting, AckFree, Acked
<1>4. srv # "closed"
  BY ServerModes DEF SessionTypeOK, Accounting
<1>5. Waits \/ SkipsAck \/ Serves(Head(c2s)) \/ Executes \/ Interrupts(Head(c2s)) \/ Fails(Head(c2s))
  BY <1>2, SessionServerStep
<1>6. PICK p \in Packet, q \in Packet :
        /\ UNCHANGED s2c \/ Sent(p) \/ SentBoth(p, q)
        /\ Executes => UNCHANGED s2c \/ (Sent(p) /\ p \in Stops)
  BY <1>3, <1>5, ServerAppends
<1>7. Nesting => Nesting'
  BY <1>6, NestingStays
<1>8. /\ Leads(s2c, Stops, Confirmations) => Leads(s2c, Stops, Confirmations)'
      /\ OnlyReports => /\ UNCHANGED s2c => OnlyReports'
                        /\ Sent(p) /\ p \in Stops => OnlyReports'
  BY <1>6, ConfirmationBehind
<1> DEFINE Meets == Nesting /\ Leads(s2c, Stops, Confirmations)
<1>9. CASE Meets
  BY <1>1, <1>7, <1>8, <1>9 DEF Doomed
<1>10. CASE ~Meets /\ OnlyReports /\ UNCHANGED c2s /\ (Waits \/ Executes)
  <2>1. OnlyReports'
    BY <1>6, <1>8, <1>10 DEF Waits
  <2>3. /\ Leads(c2s, Asides, Meddling) => Leads(c2s, Asides, Meddling)'
        /\ Leads(c2s, Asides, Fatal) => Leads(c2s, Asides, Fatal)'
    BY <1>10 DEF Leads, Asides, Meddling, Fatal, Raising
  <2> QED
    BY <1>1, <1>4, <1>7, <1>10, <2>1, <2>3 DEF Doomed
<1>11. CASE ~Meets /\ OnlyReports /\ SkipsAck
  <2>1. OnlyReports'
    BY <1>8, <1>11 DEF SkipsAck
  <2>2. /\ c2s \in Seq(Message) /\ c2s # <<>> /\ c2s' = Tail(c2s)
        /\ Head(c2s) \notin Meddling /\ Head(c2s) \notin Fatal
    BY <1>11, WireType DEF SkipsAck, Asks, Meddling, Fatal, Raising
  <2>3. /\ Leads(c2s, Asides, Meddling) => Leads(Tail(c2s), Asides, Meddling)
        /\ Leads(c2s, Asides, Fatal) => Leads(Tail(c2s), Asides, Fatal)
    BY <2>2, LeadsTail
  <2>4. /\ Leads(c2s, Asides, Meddling) => Leads(c2s, Asides, Meddling)'
        /\ Leads(c2s, Asides, Fatal) => Leads(c2s, Asides, Fatal)'
    BY <2>2, <2>3 DEF Leads, Asides, Meddling, Fatal, Raising
  <2> QED
    BY <1>1, <1>4, <1>7, <1>11, <2>1, <2>4 DEF Doomed
<1>12. CASE ~Meets /\ OnlyReports /\ Fails(Head(c2s))
  <2>1. OnlyReports' /\ srv' = "closed"
    BY <1>3, <1>8, <1>12 DEF Fails
  <2> QED
    BY <1>1, <2>1 DEF Doomed
<1>13. CASE ~Meets /\ OnlyReports /\ (Serves(Head(c2s)) \/ Interrupts(Head(c2s)))
  <2>1. /\ c2s \in Seq(Message) /\ c2s # <<>> /\ Head(c2s) \in Message
        /\ Asks(Head(c2s)) /\ ~Raising(Head(c2s))
    BY <1>13, WireType, TailElements DEF Serves, Interrupts, Asks, Raising
  <2>2. Head(c2s) \notin Asides /\ Head(c2s) \notin Fatal
    BY <2>1 DEF Asides, Fatal
  <2>3. ~Leads(c2s, Asides, Fatal)
    BY <2>1, <2>2, LeadsTail
  <2>4. Nesting /\ Leads(c2s, Asides, Meddling)
    BY <1>4, <1>13, <2>3 DEF Doomed
  <2>5. Head(c2s) \in Meddling
    BY <2>1, <2>2, <2>4, LeadsTail
  <2>6. PICK x \in Packet, y \in Packet :
          x \in Confirmations /\ (Sent(x) \/ SentBoth(x, y)) /\ ~UNCHANGED s2c
    BY <1>3, <1>13, <2>1, <2>5, MeddlingAnswered
  <2>7. Leads(s2c, Stops, Confirmations)'
    BY <1>13, <2>6, ConfirmationBehind
  <2> QED
    BY <1>1, <1>7, <2>4, <2>7 DEF Doomed
<1>14. OnlyReports \/ Meets
  BY DEF Doomed
<1>15. Executes \/ Waits => UNCHANGED c2s
  BY DEF Executes, Waits
<1> HIDE DEF Meets
<1> QED
  BY <1>5, <1>9, <1>10, <1>11, <1>12, <1>13, <1>14, <1>15

(* Another stop report: the handler is called once more.                   *)
LEMMA DoomedRecvStop ==
  ASSUME SessionTypeOK, SessionTypeOK', Accounting, Doomed, RecvStop
  PROVE  Doomed'
<1> DEFINE ask == Request("p", 0)
           f == Waiting("stop", ask)
<1>1. /\ frames # <<>> /\ StopArrives /\ s2c # <<>> /\ Head(s2c).kind = "stop"
      /\ s2c' = Tail(s2c) /\ c2s' = Append(c2s, ask) /\ frames' = <<f>> \o frames
      /\ UNCHANGED <<srv, pushed>>
  BY DEF RecvStop, StopArrives, FromWire, AskPosition, serverVars
<1>2. f \in Frame /\ ask \in Message /\ f.role = "stop"
  BY PositionType DEF Waiting
<1> HIDE DEF f, ask
<1>3. /\ frames \in Seq(Frame) /\ c2s \in Seq(Message) /\ s2c \in Seq(Packet)
  BY WireType DEF SessionTypeOK
<1>4. /\ Len(frames') = Len(frames) + 1 /\ frames'[1] = f
      /\ \A i \in 1 .. Len(frames) : frames'[i + 1] = frames[i]
  <2>1. /\ Len(<<f>> \o frames) = Len(frames) + 1 /\ (<<f>> \o frames)[1] = f
        /\ \A i \in 1 .. Len(frames) : (<<f>> \o frames)[i + 1] = frames[i]
    BY <1>2, <1>3, OneFrame
  <2> QED
    BY <1>1, <2>1, Zenon
<1>5. frames' # <<>> /\ Nesting'
  <2>1. frames' \in Seq(Frame) /\ Len(frames) \in Nat
    BY <1>3 DEF SessionTypeOK
  <2>2. frames' # <<>>
    <3>1. Len(frames') # 0
      BY <1>4, <2>1
    <3> QED
      BY <2>1, <3>1, EmptyLength
  <2>3. Head(frames') = frames'[1]
    BY <2>1, <2>2, TailElements
  <2> QED
    BY <1>2, <1>4, <2>2, <2>3 DEF Nesting
<1>6. ~Connecting'
  <2>1. \A i \in 1 .. Len(frames) : frames[i].role \notin {"ack", "connect"}
    BY DEF Doomed, Connecting
  <2>2. ASSUME NEW i \in 1 .. Len(frames')
        PROVE  frames'[i].role \notin {"ack", "connect"}
    <3>1. Len(frames) \in Nat
      BY <1>3
    <3>2. i = 1 \/ (i - 1 \in 1 .. Len(frames) /\ (i - 1) + 1 = i)
      BY <1>4, <3>1
    <3>3. i # 1 => frames'[i] = frames[i - 1]
      BY <1>4, <3>2
    <3> QED
      BY <1>2, <1>4, <2>1, <3>2, <3>3
  <2> QED
    BY <2>2 DEF Connecting
<1>7. Head(s2c) \notin Confirmations
  BY <1>1 DEF Confirmations
<1>8. /\ Leads(s2c, Stops, Confirmations) => Leads(Tail(s2c), Stops, Confirmations)
      /\ OnlyReports => \A i \in 1 .. Len(Tail(s2c)) : Tail(s2c)[i] \in Stops
  BY <1>1, <1>3, <1>7, LeadsTail DEF OnlyReports
<1>9. \A T : Leads(c2s, Asides, T) => Leads(Append(c2s, ask), Asides, T)
  BY <1>2, <1>3, LeadsBehind
<1>10. /\ Leads(s2c, Stops, Confirmations) => Leads(s2c, Stops, Confirmations)'
       /\ OnlyReports => OnlyReports'
       /\ Leads(c2s, Asides, Meddling) => Leads(c2s, Asides, Meddling)'
       /\ Leads(c2s, Asides, Fatal) => Leads(c2s, Asides, Fatal)'
  BY <1>1, <1>8, <1>9 DEF OnlyReports, Leads, Stops, Confirmations, Asides, Meddling, Fatal, Raising
<1> QED
  BY <1>1, <1>5, <1>6, <1>10 DEF Doomed

(* Nobody takes the answer for his own.                                    *)
LEMMA DoomedTakesNothing ==
  ASSUME SessionTypeOK, Accounting, Doomed, NEW role, Good(role)
  PROVE  FALSE
<1>1. /\ frames # <<>> /\ Head(frames).role = role /\ pushed = <<>> /\ s2c # <<>>
      /\ ~StopArrives /\ Incoming = Head(s2c) /\ Head(s2c).kind \in Expected(Head(frames))
      /\ Head(s2c).kind # "stop"
  BY DEF Good, Takes, Readable, Incoming, StopArrives, Accounting, NoStrayPacket
<1>2. Head(s2c) \notin Stops /\ s2c \in Seq(Packet)
  BY <1>1, WireType DEF Stops
<1>3. ~OnlyReports
  BY <1>1, <1>2, LeadsTail DEF OnlyReports
<1>4. Nesting /\ Leads(s2c, Stops, Confirmations)
  BY <1>3 DEF Doomed
<1>5. Head(frames).role = "stop" /\ Head(s2c) \in Confirmations
  BY <1>1, <1>2, <1>4, LeadsTail DEF Nesting
<1>6. Expected(Head(frames)) = Number
  BY <1>5 DEF Expected
<1> QED
  BY <1>1, <1>5, <1>6 DEF Confirmations, Number

LEMMA DoomedClient ==
  ASSUME SessionTypeOK, SessionTypeOK', Accounting, Doomed, LoopNext \/ Command \/ Recv
  PROVE  Doomed' \/ Gone'
<1>1. frames # <<>> /\ cli # "serve"
  BY DEF Doomed, Accounting, StackShape
<1>2. ~LoopNext /\ ~Command
  BY <1>1
     DEF LoopNext, PollNothing, PollPacket, Polling, ServeDone, Exit,
         Command, TargetSelect, ExecCommand, ReadCommand, ListValues, BreakInsert, BreakDelete, Call
<1>3. CASE RecvStop
  BY <1>3, DoomedRecvStop
<1>4. CASE RecvWrong \/ RecvEof
  <2>1. Raise /\ ~Connecting
    BY <1>4 DEF RecvWrong, RecvEof, Doomed
  <2> QED
    BY <2>1 DEF Raise, Gone
<1>5. ASSUME Recv, ~RecvStop, ~RecvWrong, ~RecvEof
      PROVE  \E role : Good(role)
  BY <1>5 DEF Recv, RecvAck, RecvConnect, RecvOk, RecvRead, RecvListed, RecvPosition
<1> QED
  BY <1>2, <1>3, <1>4, <1>5, DoomedTakesNothing

-----------------------------------------------------------------------------
(* A command that the front-end sends while the program runs.              *)

LEMMA OneWaits ==
  ASSUME NEW role \in {"ok", "read"}, NEW m \in Message, Call(role, m)
  PROVE  /\ frames' # <<>> /\ ~Connecting'
         /\ c2s' = Append(c2s, m) /\ UNCHANGED <<s2c, srv, pushed>>
<1>1. /\ c2s' = Append(c2s, m) /\ frames' = <<Waiting(role, m)>>
      /\ UNCHANGED <<s2c, srv, pushed>>
  BY DEF Call, serverVars
<1>2. Waiting(role, m) \in Frame
  BY DEF Waiting, Frame, Roles
<1>3. Len(frames') = 1 /\ frames'[1] = Waiting(role, m)
  BY <1>1, <1>2, OneFrame
<1>4. frames' # <<>>
  BY <1>3, NotEmpty
<1>5. ~Connecting'
  BY <1>3 DEF Connecting, Waiting
<1> QED
  BY <1>1, <1>4, <1>5

(* A register is read that the function does not have: the server fails.   *)
LEMMA AsksTooMuchDoomed ==
  ASSUME SessionTypeOK, Resting, AsksTooMuch
  PROVE  Doomed'
<1>1. PICK r \in ReadIdx : ~(r <= NumRegs) /\ Call("read", Request("p", r))
  BY DEF AsksTooMuch
<1>2. r \in Nat /\ NumRegs \in Nat
  BY HandlerAssumption, FrontEndAssumption
<1>3. PICK m \in Message : m = Request("p", r)
  BY <1>2, RequestType DEF Ops
<1>4. m \in Fatal
  BY <1>1, <1>2, <1>3 DEF Fatal, Raising, Request
<1>5. /\ frames' # <<>> /\ ~Connecting'
      /\ c2s' = Append(c2s, m) /\ s2c' = s2c
  BY <1>1, <1>3, OneWaits
<1>6. c2s \in Seq(Message) /\ \A i \in 1 .. Len(c2s) : c2s[i] \in Asides
  BY WireType, ClientAckAsksNothing DEF Resting, Asides
<1>7. Leads(Append(c2s, m), Asides, Fatal)
  BY <1>4, <1>6, LeadsBehind
<1>8. OnlyReports'
  <2>1. Len(s2c') = 0
    BY <1>5, WireType DEF Resting
  <2> QED
    BY <2>1 DEF OnlyReports
<1>9. Leads(c2s, Asides, Fatal)'
  BY <1>5, <1>7 DEF Leads, Asides, Fatal, Raising
<1> QED
  BY <1>5, <1>8, <1>9 DEF Doomed

(* While the program runs the front-end interrupts, or changes breakpoints.*)
LEMMA RunningCalls ==
  ASSUME Restrained, SessionTypeOK, Command, Moving
  PROVE  \E m \in Message : m \in Meddling /\ Call("ok", m)
<1>1. remote /\ \A op : Sends(op) => op \in {"vCtrlC", "Z", "z"}
  BY DEF Moving, Sends, Restrained
<1>2. ASSUME NEW op \in {"vCtrlC", "Z", "z"}, NEW arg \in Nat, Call("ok", Request(op, arg))
      PROVE  \E m \in Message : m \in Meddling /\ Call("ok", m)
  <2>1. Request(op, arg) \in Message /\ Request(op, arg) \in Meddling
    BY RequestType DEF Ops, Meddling, Request
  <2> QED
    BY <1>2, <2>1
<1>3. CASE ExecCommand
  <2>1. PICK op \in {"c", "s", "vCtrlC"} : Sends(op) /\ Call("ok", Request(op, 0))
    BY <1>3 DEF ExecCommand
  <2> QED
    BY <1>1, <1>2, <2>1
<1>4. CASE BreakInsert
  <2>1. PICK line \in Lines : Call("ok", Request("Z", AddrOf(line)))
    BY <1>4 DEF BreakInsert
  <2> QED
    BY <1>2, <2>1, AddressOfLine
<1>5. CASE BreakDelete
  <2>1. PICK n \in Numbers : table[n] # NoLine /\ Call("ok", Request("z", AddrOf(table[n])))
    BY <1>5 DEF BreakDelete
  <2>2. AddrOf(table[n]) \in Nat
    BY <2>1, AddressOfLine DEF SessionTypeOK
  <2> QED
    BY <1>2, <2>1, <2>2
<1>6. ~TargetSelect /\ ~ReadCommand /\ ~ListValues
  BY <1>1 DEF TargetSelect, ReadCommand, ListValues
<1> QED
  BY <1>3, <1>4, <1>5, <1>6 DEF Command

(* The report of its stop is there already, and is met before the answer.  *)
LEMMA TooLate ==
  ASSUME SessionTypeOK, Accounting, Moving, s2c # <<>>,
         NEW m \in Message, m \in Meddling, Call("ok", m)
  PROVE  Doomed'
<1>1. /\ frames' # <<>> /\ ~Connecting'
      /\ c2s' = Append(c2s, m) /\ UNCHANGED <<s2c, pushed>>
  BY OneWaits
<1>2. Len(s2c) = 1 /\ s2c[1].kind = "stop" /\ s2c \in Seq(Packet) /\ Head(s2c) = s2c[1]
      /\ s2c[1] \in Stops
  BY WireType, TailElements DEF Moving, Stops
<1>3. OnlyReports' /\ Nesting'
  BY <1>1, <1>2 DEF OnlyReports, Nesting, StopArrives, Accounting, NoStrayPacket, Stops
<1>4. c2s \in Seq(Message) /\ \A i \in 1 .. Len(c2s) : c2s[i] \in Asides
  BY WireType DEF Moving
<1>5. Leads(Append(c2s, m), Asides, Meddling)
  BY <1>4, LeadsBehind
<1>6. Leads(c2s, Asides, Meddling)'
  BY <1>1, <1>5 DEF Leads, Asides, Meddling
<1> QED
  BY <1>1, <1>3, <1>6 DEF Doomed

LEMMA RunningCommand ==
  ASSUME Restrained, SessionTypeOK, Accounting, InStep, Command, Moving
  PROVE  Steady' \/ Doomed'
<1>1. CASE s2c # <<>>
  BY <1>1, RunningCalls, TooLate
<1>2. CASE s2c = <<>>
  <2>1. UniqueBreaks /\ remote /\ \A op : Sends(op) => op \in {"vCtrlC", "Z", "z"}
    BY DEF Moving, Sends, Restrained
  <2>2. CASE ExecCommand
    <3>1. PICK op \in {"c", "s", "vCtrlC"} :
            Sends(op) /\ Call("ok", Request(op, 0)) /\ UNCHANGED table
      BY <2>2 DEF ExecCommand
    <3>2. op = "vCtrlC"
      BY <2>1, <3>1
    <3>3. Request(op, 0) \in Message /\ Request(op, 0).op = op /\ "ok" \in Roles
      BY <3>2, RequestType DEF Ops, Request, Roles
    <3> QED
      BY <1>2, <3>1, <3>2, <3>3, QuietCommandTurn
  <2>3. ~TargetSelect /\ ~ReadCommand /\ ~ListValues
    BY <2>1 DEF TargetSelect, ReadCommand, ListValues
  <2> QED
    BY <1>2, <2>1, <2>2, <2>3, BreakInsertTurn, BreakDeleteTurn DEF Command
<1> QED
  BY <1>1, <1>2

Meddled == Interfering /\ Located /\ Numbered /\ Mirrored

Halted == Halting /\ Located /\ Numbered /\ Mirrored

LEMMA InterferingCaller ==
  ASSUME SessionTypeOK, Accounting, Interfering \/ Halting
  PROVE  /\ frames # <<>> /\ Head(frames) = Caller /\ Len(frames) = 1
         /\ cliOpen /\ ~Connecting /\ ~Gone /\ noAckMode /\ Acked = s2c
         /\ Caller.req \in Message /\ Caller.req \in Meddling
         /\ Asks(Caller.req) /\ ~Raising(Caller.req) /\ ~Resumes(Caller.req)
<1>1. OneCall /\ Caller.role = "ok" /\ Caller.req.op \in {"vCtrlC", "Z", "z"} /\ cli = "command"
  BY DEF Interfering, Halting, Waiting, Request
<1>2. frames # <<>> /\ Caller.req \in Message /\ Head(frames) = Caller
  BY <1>1, OneCallShape, CallerType
<1>3. ~Connecting
  BY <1>1, <1>2, TopOfStack
<1>4. cliOpen
  BY <1>2 DEF Accounting, StackShape
<1>5. noAckMode /\ Acked = s2c
  BY <1>3, <1>4 DEF Accounting, AckFree, Acked
<1>6. Caller.req \in Meddling /\ Asks(Caller.req) /\ ~Raising(Caller.req) /\ ~Resumes(Caller.req)
  BY <1>1, <1>2 DEF Meddling, Asks, Raising, Resumes
<1> QED
  BY <1>1, <1>2, <1>3, <1>4, <1>5, <1>6 DEF OneCall, Gone

(* The request is on its way.                                              *)
Meant ==
  /\ Len(c2s) = 1 /\ c2s[1] = Caller.req
  /\ s2c = <<>> /\ ~exeStopped

LEMMA MeantServer ==
  ASSUME SessionTypeOK, SessionTypeOK', Accounting, Meddled, Meant, UNCHANGED clientVars,
         Serves(Head(c2s)) \/ Interrupts(Head(c2s))
  PROVE  Interfering' /\ Mirrored'
<1>f. UNCHANGED <<cli, remote, frames, ui, table, bkNext>> /\ UNCHANGED Caller
  BY DEF clientVars, Caller
<1>c. /\ noAckMode /\ Acked = s2c /\ ~Gone /\ frames # <<>>
      /\ Caller.req \in Message /\ Asks(Caller.req) /\ ~Resumes(Caller.req)
  BY InterferingCaller DEF Meddled
<1>1. PICK m \in Message : m = Caller.req
  BY <1>c
<1>2. /\ c2s \in Seq(Message) /\ c2s # <<>> /\ Head(c2s) = m
      /\ Tail(c2s) \in Seq(Message) /\ Len(Tail(c2s)) = 0
  <2>1. c2s \in Seq(Message) /\ c2s # <<>> /\ Len(c2s) = 1 /\ c2s[1] = m
    BY <1>1, WireType, NotEmpty DEF Meant
  <2> QED
    BY <2>1, TailElements
<1>3. c2s' = <<>>
  BY <1>2, EmptyLength DEF Serves, Interrupts
<1>4. CASE Serves(m)
  <2>1. PICK kind \in AnswerKinds(m), val \in Nat :
          Len(s2c') = 1 /\ s2c'[1] = Answer(kind, val, m)
    BY <1>c, <1>4, Answered DEF Meant
  <2>2. m.op \in {"Z", "z"} /\ Changing
    BY <1>1, <1>4, <1>c DEF Serves, Meddled, Interfering, Changing
  <2>3. kind = "ok"
    <3>1. m.op = "z" => m.arg \in breakpoints
      BY <1>1, <1>c, <2>2 DEF Meddled, Mirrored, Meant
    <3> QED
      BY <2>1, <2>2, <3>1 DEF AnswerKinds
  <2>4. Answering(m, s2c[1], {"ok"})'
    BY <1>3, <2>1, <2>3 DEF Answering, Answer
  <2>5. ~exeStopped'
    BY <1>4 DEF Serves, Meant
  <2>6. Interfering'
    BY <1>1, <1>f, <2>1, <2>2, <2>4, <2>5 DEF Meddled, Interfering, OneCall
  <2>7. s2c' # <<>>
    BY <2>1, NotEmpty
  <2>8. Mirrored'
    BY <1>1, <1>c, <1>4, <2>2, <2>7, BreakpointsServed DEF Meddled, Meant
  <2> QED
    BY <2>6, <2>8
<1>5. CASE Interrupts(m)
  <2> DEFINE a == Answer("ok", 0, m)
             b == Stopped(INT)
  <2>1. a \in Packet /\ b \in Packet /\ a.kind = "ok" /\ a.re = m /\ b.kind = "stop"
    BY AnswerType, StoppedType DEF ReplyKinds, INT, Answer, Stopped
  <2>2. s2c' = Append(Append(s2c, a), b) /\ s2c \in Seq(Packet) /\ Len(s2c) = 0
    BY <1>c, <1>5, WireType DEF Interrupts, Meant
  <2> HIDE DEF a, b
  <2>3. Append(s2c, a) \in Seq(Packet) /\ Len(Append(s2c, a)) = 1 /\ Append(s2c, a)[1] = a
    BY <2>1, <2>2, AppendElements
  <2>4. Len(s2c') = 2 /\ s2c'[1] = a /\ s2c'[2] = b
    BY <2>1, <2>2, <2>3, AppendElements
  <2>5. Answering(m, s2c[1], {"ok"})' /\ exeStopped'
    BY <1>3, <1>5, <2>1, <2>4 DEF Answering, Interrupts
  <2>6. Interfering'
    BY <1>1, <1>f, <2>1, <2>4, <2>5 DEF Meddled, Interfering, OneCall
  <2>7. ~Changing /\ ~Changing' /\ UNCHANGED <<breakpoints, Mirror>>
    BY <1>1, <1>5, <1>f DEF Interrupts, Changing, Mirror, Used
  <2>8. Mirrored'
    BY <1>c, <2>7 DEF Meddled, Mirrored
  <2> QED
    BY <2>6, <2>8
<1> QED
  BY <1>2, <1>4, <1>5

(* The program halts.                                                      *)
LEMMA MeddledExecutes ==
  ASSUME SessionTypeOK, SessionTypeOK', Accounting, Meddled, Executes, UNCHANGED clientVars
  PROVE  Doomed' \/ (Interfering' /\ Mirrored')
<1>f. UNCHANGED <<cli, remote, frames, ui, table, bkNext, pushed>> /\ UNCHANGED Caller
  BY DEF clientVars, Caller
<1>e. UNCHANGED <<c2s, breakpoints>> /\ ~exeStopped
  BY DEF Executes
<1>c. frames # <<>> /\ ~Connecting /\ ~Gone /\ Caller.req \in Meddling /\ Asks(Caller.req)
  BY InterferingCaller DEF Meddled
<1>u. UNCHANGED <<Gone, Changing, Used, Mirror>>
  BY <1>f DEF Gone, Changing, Used, Mirror
<1>1. CASE UNCHANGED s2c /\ ~exeStopped'
  <2>1. Interfering'
    BY <1>f, <1>e, <1>1 DEF Meddled, Interfering, OneCall, Answering
  <2>2. Mirrored'
    BY <1>f, <1>e, <1>u, <1>1 DEF Meddled, Mirrored
  <2> QED
    BY <2>1, <2>2
<1>2. CASE ~(UNCHANGED s2c /\ ~exeStopped')
  <2>1. PICK sig \in Nat : s2c' = Append(s2c, Stopped(sig)) /\ exeStopped'
    BY <1>2 DEF Executes
  <2>2. Stopped(sig) \in Packet /\ Stopped(sig).kind = "stop" /\ s2c \in Seq(Packet)
    BY StoppedType, WireType DEF Stopped
  <2>3. /\ Len(s2c') = Len(s2c) + 1 /\ s2c'[Len(s2c) + 1] = Stopped(sig) /\ s2c' # <<>>
        /\ \A i \in 1 .. Len(s2c) : s2c'[i] = s2c[i]
        /\ s2c' \in Seq(Packet)
    BY <2>1, <2>2, AppendElements
  <2>4. CASE Meant
    <3>1. Len(s2c') = 1 /\ s2c'[1] = Stopped(sig) /\ Head(s2c') = s2c'[1]
      <4>1. Len(s2c) = 0
        BY <2>4, WireType DEF Meant
      <4> QED
        BY <2>3, <4>1, TailElements
    <3>2. OnlyReports' /\ Nesting'
      BY <1>f, <2>2, <2>3, <3>1
         DEF OnlyReports, Nesting, StopArrives, Accounting, NoStrayPacket, Stops
    <3>3. Leads(c2s, Asides, Meddling)'
      <4>1. Len(c2s') = 1 /\ c2s'[1] \in Meddling
        BY <1>e, <1>c, <2>4 DEF Meant
      <4>2. 1 \in 1 .. Len(c2s') /\ \A j \in 1 .. 1 - 1 : c2s'[j] \in Asides'
        BY <4>1
      <4>3. Meddling' = Meddling
        BY DEF Meddling
      <4> QED
        BY <4>1, <4>2, <4>3 DEF Leads
    <3>4. frames' # <<>> /\ ~Connecting'
      BY <1>f, <1>c DEF Connecting
    <3> QED
      BY <3>2, <3>3, <3>4 DEF Doomed
  <2>5. CASE ~Meant
    <3>1. Len(s2c) = 1 /\ Answering(Caller.req, s2c[1], {"ok"})
      BY <1>e, <2>5 DEF Meddled, Interfering, Meant
    <3>2. Len(s2c') = 2 /\ s2c'[2].kind = "stop" /\ s2c'[1] = s2c[1]
      BY <2>2, <2>3, <3>1
    <3>3. Answering(Caller.req, s2c[1], {"ok"})'
      BY <1>f, <1>e, <3>1, <3>2 DEF Answering
    <3>4. Interfering'
      BY <1>f, <2>1, <3>2, <3>3 DEF Meddled, Interfering, OneCall
    <3>5. s2c # <<>>
      BY <3>1, NotEmpty
    <3>6. Mirrored'
      BY <1>f, <1>e, <1>u, <2>3, <3>5 DEF Meddled, Mirrored
    <3> QED
      BY <3>4, <3>6
  <2> QED
    BY <2>4, <2>5
<1> QED
  BY <1>1, <1>2

LEMMA MeddledServer ==
  ASSUME SessionTypeOK, SessionTypeOK', Accounting, Meddled, ServerNext, UNCHANGED clientVars
  PROVE  Doomed' \/ Meddled'
<1>f. UNCHANGED <<cli, remote, frames, ui, interrupted, shown, table, bkNext>> /\ UNCHANGED Caller
  BY DEF clientVars, Caller
<1>u. UNCHANGED <<Gone, Changing, Used, Mirror>>
  BY <1>f DEF Gone, Changing, Used, Mirror
<1>c. cliOpen /\ Asks(Caller.req) /\ ~Raising(Caller.req)
  BY InterferingCaller DEF Meddled
<1>1. Located' /\ Numbered'
  BY <1>f, <1>u DEF Meddled, Interfering, Located, Numbered
<1>2. c2s # <<>> => Meant /\ Head(c2s) = Caller.req
  <2> SUFFICES ASSUME c2s # <<>>
               PROVE  Meant /\ Head(c2s) = Caller.req
    OBVIOUS
  <2>1. Meant
    BY DEF Meddled, Interfering, Meant, Answering
  <2> QED
    BY <2>1, WireType, TailElements DEF Meant
<1>3. CASE Waits
  <2>1. UNCHANGED <<c2s, s2c, exeStopped, breakpoints>>
    BY <1>3 DEF Waits
  <2>2. Interfering'
    BY <1>f, <2>1 DEF Meddled, Interfering, OneCall, Answering
  <2>3. Mirrored'
    BY <1>f, <1>u, <2>1 DEF Meddled, Mirrored
  <2> QED
    BY <1>1, <2>2, <2>3 DEF Meddled
<1>4. CASE Serves(Head(c2s)) \/ Interrupts(Head(c2s))
  BY <1>1, <1>2, <1>4, MeantServer DEF Meddled, Serves, Interrupts
<1>5. CASE Executes
  BY <1>1, <1>5, MeddledExecutes DEF Meddled
<1>6. ~SkipsAck /\ ~Fails(Head(c2s))
  BY <1>2, <1>c DEF SkipsAck, Fails
<1> QED
  BY <1>c, <1>3, <1>4, <1>5, <1>6, SessionServerStep

LEMMA MeddledRecvOk ==
  ASSUME SessionTypeOK, SessionTypeOK', Accounting, Meddled, RecvOk
  PROVE  InStep'
<1>c. /\ frames # <<>> /\ Len(frames) = 1 /\ ~Gone /\ ~Resumes(Caller.req)
      /\ remote /\ ui = "running"
  BY InterferingCaller DEF Meddled, Interfering, OneCall
<1>1. /\ Good("ok") /\ Receive /\ frames' = Tail(frames) /\ cli' = "serve"
      /\ ui' = IF Asked.op \in {"c", "s"} THEN "running" ELSE ui
      /\ UNCHANGED <<c2s, serverVars, remote, shown>>
  BY DEF RecvOk, Return
<1>2. /\ Asked = Caller.req /\ s2c # <<>> /\ Len(s2c') = Len(s2c) - 1
      /\ \A i \in 1 .. Len(s2c) - 1 : s2c'[i] = s2c[i + 1]
      /\ Len(s2c) = 1 => s2c' = <<>>
  BY <1>1, TakesReply
<1>3. frames' = <<>>
  BY <1>1, <1>c, ReturnsToLoop
<1>4. /\ c2s = <<>>
      /\ \/ Len(s2c) = 1 /\ ~exeStopped
         \/ Len(s2c) = 2 /\ s2c[2].kind = "stop" /\ exeStopped
  BY <1>2 DEF Meddled, Interfering, Answering
<1>5. ui' = "running"
  BY <1>1, <1>c
<1>6. Moving'
  <2>1. CASE Len(s2c) = 1 /\ ~exeStopped
    BY <1>1, <1>2, <1>3, <1>4, <1>5, <1>c, <2>1 DEF Moving, Expecting, serverVars
  <2>2. CASE Len(s2c) = 2 /\ s2c[2].kind = "stop" /\ exeStopped
    <3>1. Len(s2c') = 1 /\ s2c'[1] = s2c[2]
      BY <1>2, <2>2
    <3> QED
      BY <1>1, <1>3, <1>4, <1>5, <1>c, <2>2, <3>1 DEF Moving, Expecting, serverVars
  <2> QED
    BY <1>4, <2>1, <2>2
<1>7. Located'
  BY <1>5 DEF Located
<1>8. Numbered' /\ Mirrored'
  <2>1. CASE Changing
    BY <1>2, <1>3, <1>c, <2>1, ChangeConfirmed DEF Meddled
  <2>2. CASE ~Changing
    <3>1. Asked.op # "Z"
      BY <1>2, <1>c, <2>2 DEF Changing
    <3>2. UNCHANGED <<table, bkNext, breakpoints>>
      BY <3>1 DEF RecvOk, serverVars
    <3>3. UNCHANGED <<Used, Mirror>> /\ ~Changing'
      BY <1>3, <3>2 DEF Used, Mirror, Changing
    <3> QED
      BY <1>c, <2>2, <3>2, <3>3 DEF Meddled, Numbered, Mirrored
  <2> QED
    BY <2>1, <2>2
<1> QED
  BY <1>6, <1>7, <1>8 DEF InStep, InTurn

(* The front-end has sent an exec-interrupt before it saw the *stopped.    *)
LEMMA LateInterrupt ==
  ASSUME SessionTypeOK, Accounting, InStep, Resting, InterruptsLate
  PROVE  Halted'
<1>1. PICK m \in Message : m = Request("vCtrlC", 0)
  BY RequestType DEF Ops
<1>2. /\ Call("ok", m) /\ UNCHANGED table /\ UNCHANGED remote /\ remote /\ "ok" \in Roles
      /\ m.op = "vCtrlC"
  BY <1>1 DEF InterruptsLate, Sends, Roles, Request
<1>3. frames = <<>> /\ cli = "serve" /\ ~Gone
  BY <1>2 DEF Call, Gone, Accounting, StackShape
<1>4. /\ Asking(m)'
      /\ Len(frames') = 1 /\ Caller' = Waiting("ok", m) /\ frames' # <<>>
      /\ cli' = "command"
      /\ UNCHANGED <<s2c, serverVars, ui, interrupted, shown, bkNext>>
  BY <1>2, CallAsks
<1>5. Halting'
  <2>1. Caller'.req = m /\ ~Expecting' /\ exeStopped'
    BY <1>4 DEF Waiting, Resting, Expecting, serverVars
  <2> QED
    BY <1>1, <1>2, <1>4, <2>1 DEF Halting, OneCall
<1>6. Numbered' /\ UNCHANGED <<Used, Mirror>>
  BY <1>2, <1>4 DEF InStep, Numbered, Used, Mirror
<1>7. ~Changing /\ ~Changing'
  BY <1>2, <1>3, <1>4 DEF Changing, Waiting
<1>8. Located'
  BY <1>3, <1>4 DEF InStep, Located, Pc, Gone, serverVars
<1>9. Mirrored'
  BY <1>3, <1>4, <1>6, <1>7 DEF InStep, Mirrored, serverVars
<1> QED
  BY <1>5, <1>6, <1>8, <1>9 DEF Halted

LEMMA HaltedServer ==
  ASSUME SessionTypeOK, SessionTypeOK', Accounting, Halted, ServerNext, UNCHANGED clientVars
  PROVE  Halted'
<1>f. /\ UNCHANGED <<cli, remote, frames, ui, interrupted, shown, table, bkNext>>
      /\ UNCHANGED <<Caller, Expecting>>
  BY DEF clientVars, Caller, Expecting
<1>u. UNCHANGED <<Gone, Changing, Used, Mirror>>
  BY <1>f DEF Gone, Changing, Used, Mirror
<1>c. /\ cliOpen /\ noAckMode /\ Acked = s2c /\ ~Gone /\ frames # <<>>
      /\ Caller.req \in Message /\ ~Raising(Caller.req)
  BY InterferingCaller DEF Halted
<1>1. PICK m \in Message : m = Caller.req
  BY <1>c
<1>2. m.op = "vCtrlC" /\ Asks(m) /\ exeStopped
  BY <1>1 DEF Halted, Halting, Waiting, Request, Asks
<1>3. ~Executes
  BY <1>2 DEF Executes
<1>4. c2s # <<>> =>
        /\ Asking(m) /\ s2c = <<>> /\ Head(c2s) \in {m, ClientAck}
        /\ Head(c2s) = m => Len(c2s) = 1
  <2> SUFFICES ASSUME c2s # <<>>
               PROVE  /\ Asking(m) /\ s2c = <<>> /\ Head(c2s) \in {m, ClientAck}
                      /\ Head(c2s) = m => Len(c2s) = 1
    OBVIOUS
  <2>1. Asking(m)
    BY <1>1 DEF Halted, Halting, Answering
  <2>2. ClientAck # m
    BY <1>2, ClientAckAsksNothing
  <2> QED
    BY <2>1, <2>2, AskingHead DEF Asking
<1>5. Waits \/ SkipsAck \/ Interrupts(Head(c2s))
  <2>1. ~Serves(Head(c2s))
    BY <1>2, <1>4, ClientAckAsksNothing DEF Serves
  <2>2. ~Fails(Head(c2s))
    BY <1>1, <1>4, <1>c, ClientAckAsksNothing, PoliteIsServed DEF Fails
  <2> QED
    BY <1>3, <1>c, <2>1, <2>2, SessionServerStep
<1>6. Halting' /\ UNCHANGED <<instr, breakpoints>>
  <2>1. CASE Waits \/ SkipsAck
    <3>1. ~Serves(m)
      BY <1>2 DEF Serves
    <3>2. CASE Asking(m)
      <4>1. Asking(m)' /\ UNCHANGED <<s2c, exeStopped, instr, breakpoints>>
        BY <1>2, <2>1, <3>1, <3>2, AskingStep
      <4> QED
        BY <1>f, <1>1, <4>1 DEF Halted, Halting, OneCall
    <3>3. CASE ~Asking(m)
      <4>1. UNCHANGED <<c2s, s2c, exeStopped, instr, breakpoints>>
        BY <1>4, <2>1, <3>3 DEF Waits, SkipsAck
      <4> QED
        BY <1>f, <1>1, <3>3, <4>1 DEF Halted, Halting, OneCall, Answering
    <3> QED
      BY <3>2, <3>3
  <2>2. CASE Interrupts(Head(c2s))
    <3> DEFINE a == Answer("ok", 0, m)
               b == Stopped(INT)
    <3>1. a \in Packet /\ b \in Packet /\ a.kind = "ok" /\ a.re = m /\ b.kind = "stop"
      BY AnswerType, StoppedType DEF ReplyKinds, INT, Answer, Stopped
    <3>2. /\ Head(c2s) = m /\ Len(c2s) = 1 /\ s2c = <<>> /\ c2s' = Tail(c2s)
          /\ exeStopped' /\ UNCHANGED <<instr, breakpoints>>
      BY <1>4, <2>2 DEF Interrupts, ClientAck, Request
    <3>3. s2c' = Append(Append(s2c, a), b) /\ s2c \in Seq(Packet) /\ Len(s2c) = 0
      BY <1>c, <2>2, <3>2, WireType DEF Interrupts
    <3> HIDE DEF a, b
    <3>4. Append(s2c, a) \in Seq(Packet) /\ Len(Append(s2c, a)) = 1 /\ Append(s2c, a)[1] = a
      BY <3>1, <3>3, AppendElements
    <3>5. Len(s2c') = 2 /\ s2c'[1] = a /\ s2c'[2] = b
      BY <3>1, <3>3, <3>4, AppendElements
    <3>6. c2s' = <<>>
      <4>1. Tail(c2s) \in Seq(Message) /\ Len(Tail(c2s)) = 0
        BY <3>2, WireType, TailElements
      <4> QED
        BY <3>2, <4>1, EmptyLength
    <3>7. Answering(m, s2c[1], {"ok"})'
      BY <3>1, <3>5, <3>6 DEF Answering
    <3> QED
      BY <1>f, <1>1, <3>1, <3>2, <3>5, <3>7 DEF Halted, Halting, OneCall
  <2> QED
    BY <1>5, <2>1, <2>2
<1>7. Located' /\ Numbered'
  BY <1>f, <1>u, <1>6 DEF Halted, Located, Numbered, Pc
<1>8. Mirrored'
  <2>1. ~Changing
    BY <1>1, <1>2 DEF Changing
  <2> QED
    BY <1>c, <1>u, <1>6, <2>1 DEF Halted, Mirrored
<1> QED
  BY <1>6, <1>7, <1>8 DEF Halted

(* Its second report is on the way while the front-end shows the first.    *)
LEMMA HaltedRecvOk ==
  ASSUME SessionTypeOK, SessionTypeOK', Accounting, Halted, RecvOk
  PROVE  InStep'
<1>c. /\ frames # <<>> /\ Len(frames) = 1 /\ ~Gone /\ ~Resumes(Caller.req)
      /\ remote /\ ~Changing /\ Caller.req.op = "vCtrlC" /\ exeStopped
  BY InterferingCaller DEF Halted, Halting, OneCall, Changing, Waiting, Request
<1>1. /\ Good("ok") /\ Receive /\ frames' = Tail(frames) /\ cli' = "serve"
      /\ UNCHANGED <<c2s, serverVars, remote, shown>>
  BY DEF RecvOk, Return
<1>2. /\ Asked = Caller.req /\ s2c # <<>> /\ Len(s2c') = Len(s2c) - 1
      /\ \A i \in 1 .. Len(s2c) - 1 : s2c'[i] = s2c[i + 1]
  BY <1>1, TakesReply
<1>3. frames' = <<>>
  BY <1>1, <1>c, ReturnsToLoop
<1>4. c2s = <<>> /\ Len(s2c) = 2 /\ s2c[2].kind = "stop"
  BY <1>2 DEF Halted, Halting, Asking, Answering
<1>5. interrupted' /\ UNCHANGED <<ui, table, bkNext>>
  BY <1>2, <1>c DEF RecvOk
<1>6. Moving'
  <2>1. Len(s2c') = 1 /\ s2c'[1] = s2c[2]
    BY <1>2, <1>4
  <2> QED
    BY <1>1, <1>3, <1>4, <1>5, <1>c, <2>1 DEF Moving, Expecting, serverVars
<1>7. Located'
  BY <1>1, <1>5, <1>c DEF Halted, Located, Pc, serverVars
<1>8. Numbered' /\ Mirrored'
  <2>1. UNCHANGED <<Used, Mirror, breakpoints>> /\ ~Changing'
    BY <1>1, <1>3, <1>5 DEF Used, Mirror, Changing, serverVars
  <2> QED
    BY <1>c, <1>5, <2>1 DEF Halted, Numbered, Mirrored
<1> QED
  BY <1>6, <1>7, <1>8 DEF InStep, InTurn

LEMMA MeddledClient ==
  ASSUME SessionTypeOK, SessionTypeOK', Accounting, Meddled \/ Halted,
         LoopNext \/ Command \/ Recv
  PROVE  InStep' \/ Gone'
<1>1. /\ cli = "command" /\ frames # <<>> /\ Head(frames) = Caller /\ Caller.role = "ok"
      /\ pushed = <<>>
  BY InterferingCaller DEF Meddled, Interfering, Halted, Halting, Waiting, Accounting, NoStrayPacket
<1>2. ~LoopNext /\ ~Command
  BY <1>1
     DEF LoopNext, PollNothing, PollPacket, Polling, ServeDone, Exit,
         Command, TargetSelect, ExecCommand, ReadCommand, ListValues, BreakInsert, BreakDelete, Call
<1>3. ASSUME s2c # <<>>
      PROVE  Head(s2c).kind = "ok"
  <2>1. Head(s2c) = s2c[1]
    BY <1>3, WireType, TailElements
  <2> QED
    BY <1>3, <2>1 DEF Meddled, Interfering, Halted, Halting, Asking, Answering
<1>4. ~RecvStop
  BY <1>3 DEF RecvStop, StopArrives
<1>5. ~RecvWrong
  <2>1. Expected(Head(frames)) = {"ok"}
    BY <1>1 DEF Expected
  <2> QED
    BY <1>1, <1>3, <2>1 DEF RecvWrong, Readable, Incoming
<1>6. ~RecvAck /\ ~RecvConnect /\ ~RecvRead /\ ~RecvListed /\ ~RecvPosition
  BY <1>1 DEF RecvAck, RecvConnect, RecvRead, RecvListed, RecvPosition, Good, Takes
<1> QED
  BY <1>2, <1>4, <1>5, <1>6, MeddledRecvOk, HaltedRecvOk, EofIsFatal DEF Recv

-----------------------------------------------------------------------------
(* The debugger that has ended does nothing.                               *)

LEMMA GoneStays ==
  ASSUME Accounting, Gone, [SessionNext]_sessionVars
  PROVE  Gone'
<1>1. frames = <<>>
  BY DEF Accounting, StackShape
<1>2. ~Recv /\ ~LoopNext /\ ~Command
  BY <1>1
     DEF Gone, Recv, RecvStop, RecvAck, RecvConnect, RecvOk, RecvRead, RecvListed, RecvPosition,
         RecvWrong, RecvEof, Good, Takes, Polling, LoopNext, PollNothing, PollPacket, ServeDone,
         Exit, Command, TargetSelect, ExecCommand, ReadCommand, ListValues, BreakInsert,
         BreakDelete, Call
<1>3. UNCHANGED cli
  BY <1>2 DEF SessionNext, Finished, sessionVars, clientVars
<1> QED
  BY <1>3 DEF Gone

LEMMA LoudStutter ==
  ASSUME FailsLoudly, UNCHANGED sessionVars
  PROVE  FailsLoudly'
<1>1. CASE Gone
  BY <1>1 DEF Gone, FailsLoudly, sessionVars, clientVars
<1>2. CASE Doomed
  BY <1>2
     DEF Doomed, FailsLoudly, Connecting, Nesting, StopArrives, OnlyReports, Leads, Stops,
         Confirmations, Asides, Meddling, Fatal, Raising,
         sessionVars, wireVars, serverVars, clientVars
<1>3. CASE InStep
  BY <1>3, InStepStutter DEF FailsLoudly
<1>4. CASE Interfering /\ Located /\ Numbered /\ Mirrored
  BY <1>4
     DEF FailsLoudly, Interfering, OneCall, Caller, Answering, Located, Numbered, Mirrored,
         Changing, Gone, Used, Mirror, Pc, sessionVars, wireVars, serverVars, clientVars
<1>5. CASE Halting /\ Located /\ Numbered /\ Mirrored
  BY <1>5
     DEF FailsLoudly, Halting, Expecting, OneCall, Caller, Asking, Answering, Located, Numbered,
         Mirrored, Changing, Gone, Used, Mirror, Pc, sessionVars, wireVars, serverVars, clientVars
<1> QED
  BY <1>1, <1>2, <1>3, <1>4, <1>5 DEF FailsLoudly

LEMMA LoudStep ==
  ASSUME Restrained, SessionTypeOK, SessionTypeOK', Accounting, FailsLoudly,
         [SessionNext]_sessionVars
  PROVE  FailsLoudly'
<1>d. FailsLoudly <=> Gone \/ Doomed \/ InStep \/ Meddled \/ Halted
  BY DEF FailsLoudly, Meddled, Halted
<1>e. FailsLoudly' <=> Gone' \/ Doomed' \/ InStep' \/ Meddled' \/ Halted'
  BY DEF FailsLoudly, Meddled, Halted
<1>1. CASE Gone
  BY <1>1, <1>e, GoneStays
<1>2. CASE UNCHANGED sessionVars
  BY <1>2, LoudStutter
<1>3. CASE LoopNext \/ Command \/ Recv
  <2>1. CASE Doomed
    BY <1>3, <1>e, <2>1, DoomedClient
  <2>2. CASE Meddled \/ Halted
    BY <1>3, <1>e, <2>2, MeddledClient
  <2>3. CASE InStep /\ ~Command
    BY <1>3, <1>e, <2>3, RecvKeepsSync, EofIsFatal, LoopKeepsSync
  <2>4. CASE InStep /\ Command
    <3>1. Resting \/ Moving
      BY <2>4, CommandFromLoop
    <3>2. CASE Resting
      BY <1>e, <2>4, <3>2, RestingCommand, AsksTooMuchDoomed, LateInterrupt
         DEF Restrained
    <3>3. CASE Moving
      <4>1. Steady' => InStep' \/ Meddled'
        BY DEF Steady, InStep, Meddled
      <4> QED
        BY <1>e, <2>4, <3>3, <4>1, RunningCommand
    <3> QED
      BY <3>1, <3>2, <3>3
  <2> QED
    BY <1>d, <1>1, <2>1, <2>2, <2>3, <2>4
<1>4. CASE ServerNext /\ UNCHANGED clientVars
  BY <1>d, <1>e, <1>1, <1>4, DoomedServer, MeddledServer, HaltedServer,
     ServerKeepsStep
<1> QED
  BY <1>2, <1>3, <1>4 DEF SessionNext, Finished

(* A front-end may interrupt the program and change its breakpoints while  *)
(* it runs: the session stays in step, or a packet is taken by the wrong   *)
(* call and the client raises before anything wrong is shown or listed.    *)
THEOREM WrongRepliesAreNoticed ==
  ASSUME Restrained
  PROVE  SessionSpec => []FailsLoudly
<1> DEFINE Inv == SessionTypeOK /\ Accounting /\ FailsLoudly
<1>1. SessionInit => Inv
  BY SessionInitial, SyncInitial DEF SyncInvariant, FailsLoudly
<1>2. Inv /\ [SessionNext]_sessionVars => Inv'
  BY SessionStep, LoudStep
<1>3. Inv => FailsLoudly
  OBVIOUS
<1> QED
  BY <1>1, <1>2, <1>3, PTL DEF SessionSpec

(* What the front-end shows as stopped is stopped, at the line shown.      *)
THEOREM ShownIsTrue ==
  ASSUME Restrained
  PROVE  SessionSpec => []Truthful
<1>1. SessionTypeOK /\ FailsLoudly => Truthful
  <2> SUFFICES ASSUME SessionTypeOK, FailsLoudly, Idle, ui = "stopped"
               PROVE  exeStopped /\ (shown # NoLine => Pc = AddrOf(shown))
    BY DEF Truthful
  <2>1. frames = <<>> /\ ~Gone /\ cli # "exited"
    BY DEF Idle, Gone
  <2>2. InStep
    BY <2>1, OneCallShape DEF FailsLoudly, Doomed, Interfering, Halting
  <2>3. exeStopped
    BY <2>1, <2>2, NoCall DEF InStep, Resting, Moving
  <2> QED
    BY <2>1, <2>2, <2>3 DEF InStep, Located
<1> QED
  BY <1>1, SessionInvariant, WrongRepliesAreNoticed, PTL

(* The server's breakpoints are those the debugger lists.                  *)
THEOREM BreakpointsAgree ==
  ASSUME Restrained
  PROVE  SessionSpec => []BreakpointsMirrored
<1>1. SessionTypeOK /\ FailsLoudly => BreakpointsMirrored
  <2> SUFFICES ASSUME SessionTypeOK, FailsLoudly, Idle
               PROVE  breakpoints = Mirror
    BY DEF BreakpointsMirrored, Mirror, Used
  <2>1. frames = <<>> /\ ~Gone
    BY DEF Idle
  <2>2. Mirrored
    BY <2>1 DEF FailsLoudly, Doomed, InStep
  <2> QED
    BY <2>1, <2>2 DEF Mirrored, Changing
<1> QED
  BY <1>1, SessionInvariant, WrongRepliesAreNoticed, PTL

=============================================================================
