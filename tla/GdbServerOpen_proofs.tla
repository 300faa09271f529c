------------------------- MODULE GdbServerOpen_proofs -------------------------
(***************************************************************************)
(* Safety of the server with any client at all, for every program, every   *)
(* set of requests and every queue length.                                 *)
(***************************************************************************)
EXTENDS GdbServerOpen, GdbServer_proofs, Subsequences_proofs

(* Every step keeps the type invariant: the server's by ServerStepType,    *)
(* the client's because it sends messages and takes whole packets.         *)
LEMMA OpenStepType ==
  ASSUME OpenTypeOK, [OpenNext]_openVars
  PROVE  OpenTypeOK'
<1> USE DEF OpenTypeOK
<1>1. CASE Connect
  BY <1>1 DEF Connect, ServerTypeOK, WireTypeOK, serverVars
<1>2. CASE Send
  <2>1. PICK m \in Sent :
          /\ c2s' = Append(c2s, m)
          /\ asked' = IF Asks(m) THEN Append(asked, m) ELSE asked
    BY <1>2 DEF Send
  <2>2. m \in Message
    BY ClientAssumption
  <2>3. c2s' \in Seq(Message) /\ Len(c2s') = Len(c2s) + 1 /\ asked' \in Seq(Message)
    BY <2>1, <2>2 DEF ServerTypeOK, WireTypeOK
  <2> QED
    BY <1>2, <2>3 DEF Send, ServerTypeOK, WireTypeOK, serverVars
<1>3. CASE Take
  BY <1>3 DEF Take, ServerTypeOK, WireTypeOK, serverVars
<1>4. CASE Close
  BY <1>4 DEF Close, ServerTypeOK, WireTypeOK, serverVars
<1>5. CASE ServerNext /\ UNCHANGED asked
  BY <1>5, ServerStepType
<1>6. CASE UNCHANGED openVars
  BY <1>6 DEF openVars, wireVars, serverVars, ServerTypeOK, WireTypeOK
<1> QED
  BY <1>1, <1>2, <1>3, <1>4, <1>5, <1>6 DEF OpenNext

LEMMA OpenInitType == OpenInit => OpenTypeOK
  BY ServerInitType DEF OpenInit, OpenTypeOK

(* Type correctness of the server and of its wire under any client.        *)
THEOREM OpenTypeCorrect == OpenSpec => []OpenTypeOK
<1>1. OpenTypeOK /\ [OpenNext]_openVars => OpenTypeOK'
  BY OpenStepType
<1> QED
  BY OpenInitType, <1>1, PTL DEF OpenSpec

-----------------------------------------------------------------------------
(* Only the two resumes and the instructions themselves touch the pair     *)
(* that bounds a step; a resume sets it, an instruction moves one from the *)
(* limit to the count.                                                     *)
LEMMA ServerStepLimit ==
  ASSUME ServerTypeOK, StepRunsAtMostOne, ServerNext
  PROVE  StepRunsAtMostOne'
<1> USE DEF StepRunsAtMostOne
<1>1. CASE UNCHANGED <<cycleLimit, ran>>
  BY <1>1
<1>2. CASE HandleStep
  BY <1>2 DEF HandleStep
<1>3. CASE HandleContinue
  BY <1>3 DEF HandleContinue
<1>4. CASE ExecEntryBreak
  <2>1. cycleLimit' = CycleSpent /\ ran' = ran /\ cycleLimit # 0
    BY <1>4 DEF ExecEntryBreak, MayRun
  <2> QED
    BY <2>1, HandlerAssumption DEF CycleSpent, ServerTypeOK
<1>5. CASE ExecInstr
  <2>1. cycleLimit' = CycleSpent /\ cycleLimit # 0
    BY <1>5 DEF ExecInstr, MayRun
  <2>2. ran' = IF ran < 2 THEN ran + 1 ELSE 2
    BY <1>5 DEF ExecInstr
  <2> QED
    BY <2>1, <2>2, HandlerAssumption DEF CycleSpent, ServerTypeOK
<1>6. CASE ExecRaises
  <2>1. ran' = ran /\ (cycleLimit' = cycleLimit \/ (cycleLimit' = CycleSpent /\ cycleLimit # 0))
    BY <1>6 DEF ExecRaises, MayRun
  <2> QED
    BY <2>1, HandlerAssumption DEF CycleSpent, ServerTypeOK
<1> QED
  <2>1. CASE Handle
    BY <2>1, <1>1, <1>2, <1>3
       DEF Handle, HandleAck, HandleHaltReason, HandleQuery, HandleEmpty,
           HandleStartNoAckMode, HandleInterrupt, HandleAddBreakpoint, HandleRemoveBreakpoint,
           HandleReadRegisters, HandleReadRegister, HandleRaises
  <2>2. CASE Execute
    BY <2>2, <1>1, <1>4, <1>5, <1>6 DEF Execute, ExecLimitReached
  <2> QED
    BY <2>1, <2>2, <1>1
       DEF ServerNext, ServerAccept, ServerRecv, ServerNoInput, ServerLosesPeer

(* A step runs at most one instruction, whatever the client sends while it *)
(* is under way.                                                           *)
THEOREM StepBounded == OpenSpec => []StepRunsAtMostOne
<1>1. OpenInit => StepRunsAtMostOne
  BY DEF OpenInit, ServerInit, HandlerInit, StepRunsAtMostOne
<1>2. ASSUME OpenTypeOK, StepRunsAtMostOne, [OpenNext]_openVars
      PROVE  StepRunsAtMostOne'
  <2>1. CASE ServerNext
    BY <1>2, <2>1, ServerStepLimit DEF OpenTypeOK
  <2>2. CASE UNCHANGED serverVars
    BY <1>2, <2>2 DEF serverVars, StepRunsAtMostOne
  <2> QED
    BY <1>2, <2>1, <2>2 DEF OpenNext, Connect, Send, Take, Close, openVars
<1> QED
  BY OpenTypeCorrect, <1>1, <1>2, PTL DEF OpenSpec

-----------------------------------------------------------------------------
(* The limit becomes 0 where an instruction or the entry's breakpoint      *)
(* takes the last of it, and until the next resume nothing counts or moves *)
(* any more.                                                               *)
LEMMA ServerStepSpent ==
  ASSUME ServerTypeOK, StepRunsAtMostOne, StepSpent, ServerNext
  PROVE  StepSpent'
<1> USE DEF StepSpent
<1>1. CASE UNCHANGED <<cycleLimit, ran, instr>> /\ srv # "closed"
  BY <1>1
<1>2. CASE srv' = "closed"
  BY <1>2
<1>3. CASE HandleStep
  BY <1>3 DEF HandleStep
<1>4. CASE HandleContinue
  BY <1>4, HandlerAssumption DEF HandleContinue
<1>5. CASE ExecEntryBreak
  <2>1. cycleLimit' = CycleSpent /\ ran' = ran /\ cycleLimit # 0 /\ instr' = Entry
    BY <1>5 DEF ExecEntryBreak, MayRun
  <2> QED
    BY <2>1, HandlerAssumption DEF CycleSpent, ServerTypeOK, StepRunsAtMostOne
<1>6. CASE ExecInstr
  <2>1. cycleLimit' = CycleSpent /\ cycleLimit # 0
    BY <1>6 DEF ExecInstr, MayRun
  <2>2. ran' = IF ran < 2 THEN ran + 1 ELSE 2
    BY <1>6 DEF ExecInstr
  <2> QED
    BY <2>1, <2>2, HandlerAssumption DEF CycleSpent, ServerTypeOK, StepRunsAtMostOne
<1> QED
  <2>1. CASE Handle
    BY <2>1, <1>1, <1>2, <1>3, <1>4
       DEF Handle, Handling, HandleAck, HandleHaltReason, HandleQuery, HandleEmpty,
           HandleStartNoAckMode, HandleInterrupt, HandleAddBreakpoint, HandleRemoveBreakpoint,
           HandleReadRegisters, HandleReadRegister, HandleRaises
  <2>2. CASE Execute
    BY <2>2, <1>1, <1>2, <1>5, <1>6 DEF Execute, ExecLimitReached, ExecRaises
  <2> QED
    BY <2>1, <2>2, <1>1, <1>2
       DEF ServerNext, ServerAccept, ServerRecv, ServerNoInput, ServerLosesPeer

(* A step whose limit is used up has run its instruction, except at a      *)
(* breakpoint on the entry.                                                *)
THEOREM StepSpends == OpenSpec => []StepSpent
<1>1. OpenInit => StepSpent
  BY DEF OpenInit, ServerInit, HandlerInit, StepSpent
<1>2. ASSUME OpenTypeOK, StepRunsAtMostOne, StepSpent, [OpenNext]_openVars
      PROVE  StepSpent'
  <2>1. CASE ServerNext
    BY <1>2, <2>1, ServerStepSpent DEF OpenTypeOK
  <2>2. CASE UNCHANGED serverVars
    BY <1>2, <2>2 DEF serverVars, StepSpent
  <2> QED
    BY <1>2, <2>1, <2>2 DEF OpenNext, Connect, Send, Take, Close, openVars
<1> QED
  BY OpenTypeCorrect, StepBounded, <1>1, <1>2, PTL DEF OpenSpec

-----------------------------------------------------------------------------
(* What the packets the server appends mean for the two queues of          *)
(* interest: the answers on their way and the reports on their way.        *)

AnswerSet == { p \in Packet : IsAnswer(p) }

ReportSet == { p \in Packet : IsReport(p) }

AskSet == { m \in Message : Asks(m) }

LEMMA AppendAnswer ==
  ASSUME NEW s \in Seq(Packet), NEW kind \in ReplyKinds \cup {"stop"}, NEW val \in Nat,
         NEW m \in Message, Asks(m)
  PROVE  LET p == Answer(kind, val, m)
         IN  /\ p \in Packet
             /\ Append(s, p) \in Seq(Packet)
             /\ Only(Append(s, p), AnswerSet) = Append(Only(s, AnswerSet), p)
             /\ Only(Append(s, p), ReportSet) = Only(s, ReportSet)
<1> DEFINE p == Answer(kind, val, m)
<1>1. p \in Packet
  BY DEF Answer, Packet
<1>2. p \in AnswerSet /\ p \notin ReportSet
  BY <1>1 DEF Answer, AnswerSet, ReportSet, IsAnswer, IsReport
<1> HIDE DEF p
<1>3. Append(s, p) \in Seq(Packet)
  BY <1>1
<1>4. Only(Append(s, p), AnswerSet) = Append(Only(s, AnswerSet), p)
  BY <1>1, <1>2, OnlyAppend
<1>5. Only(Append(s, p), ReportSet) = Only(s, ReportSet)
  BY <1>1, <1>2, OnlyAppend
<1> QED
  BY <1>1, <1>3, <1>4, <1>5 DEF p

LEMMA AppendReport ==
  ASSUME NEW s \in Seq(Packet), NEW sig \in Nat
  PROVE  /\ Stopped(sig) \in Packet
         /\ Append(s, Stopped(sig)) \in Seq(Packet)
         /\ Only(Append(s, Stopped(sig)), AnswerSet) = Only(s, AnswerSet)
         /\ Only(Append(s, Stopped(sig)), ReportSet) = Append(Only(s, ReportSet), Stopped(sig))
<1> DEFINE p == Stopped(sig)
<1>1. p \in Packet
  BY DEF Stopped, Packet, Nothing, Request, Message, Ops
<1>2. p \notin AnswerSet /\ p \in ReportSet
  BY <1>1 DEF Stopped, AnswerSet, ReportSet, IsAnswer, IsReport, Asks, Nothing, Request
<1> HIDE DEF p
<1>3. Append(s, p) \in Seq(Packet)
  BY <1>1
<1>4. Only(Append(s, p), AnswerSet) = Only(s, AnswerSet)
  BY <1>1, <1>2, OnlyAppend
<1>5. Only(Append(s, p), ReportSet) = Append(Only(s, ReportSet), p)
  BY <1>1, <1>2, OnlyAppend
<1> QED
  BY <1>1, <1>3, <1>4, <1>5 DEF p

LEMMA AppendAck ==
  ASSUME s2c \in Seq(Packet)
  PROVE  /\ Acked \in Seq(Packet)
         /\ Only(Acked, AnswerSet) = Only(s2c, AnswerSet)
         /\ Only(Acked, ReportSet) = Only(s2c, ReportSet)
<1>1. Ack \in Packet
  BY DEF Ack, Packet, Nothing, Request, Message, Ops
<1>2. Ack \notin AnswerSet /\ Ack \notin ReportSet
  BY DEF Ack, AnswerSet, ReportSet, IsAnswer, IsReport, Asks, Nothing, Request
<1>3. Append(s2c, Ack) \in Seq(Packet)
  BY <1>1
<1>4. Only(Append(s2c, Ack), AnswerSet) = Only(s2c, AnswerSet)
  BY <1>1, <1>2, OnlyAppend
<1>5. Only(Append(s2c, Ack), ReportSet) = Only(s2c, ReportSet)
  BY <1>1, <1>2, OnlyAppend
<1> QED
  BY <1>3, <1>4, <1>5 DEF Acked

(* The requests they answer, and the signals they report.                  *)
LEMMA AnsweredAppend ==
  ASSUME NEW s \in Seq(Packet), NEW p \in Packet
  PROVE  /\ Answered(s) \in Seq(Message)
         /\ Answered(Append(s, p)) = Append(Answered(s), p.re)
<1>1. \A q \in Packet : q.re \in Message
  BY DEF Packet
<1>2. \A i \in 1 .. Len(s) : s[i] \in Packet
  OBVIOUS
<1>3. Answered(s) \in Seq(Message) /\ Len(Answered(s)) = Len(s)
  BY <1>1, <1>2 DEF Answered
<1>4. /\ Append(s, p) \in Seq(Packet) /\ Len(Append(s, p)) = Len(s) + 1
      /\ \A i \in 1 .. Len(s) : Append(s, p)[i] = s[i]
      /\ Append(s, p)[Len(s) + 1] = p
  OBVIOUS
<1> DEFINE t == Append(s, p)
<1> HIDE DEF t
<1>5. \A i \in 1 .. Len(t) : t[i] \in Packet
  BY <1>4 DEF t
<1>6. Answered(t) \in Seq(Message) /\ Len(Answered(t)) = Len(s) + 1
  BY <1>1, <1>4, <1>5 DEF Answered, t
<1>7. /\ \A i \in 1 .. Len(s) : Answered(t)[i] = Answered(s)[i]
      /\ Answered(t)[Len(s) + 1] = p.re
  BY <1>4 DEF Answered, t
<1>8. Answered(t) = Append(Answered(s), p.re)
  BY <1>1, <1>3, <1>6, <1>7
<1> QED
  BY <1>3, <1>8 DEF t

LEMMA AnsweredTail ==
  ASSUME NEW s \in Seq(Packet), s # <<>>
  PROVE  /\ Answered(s) # <<>>
         /\ Answered(Tail(s)) = Tail(Answered(s))
<1>1. /\ Tail(s) \in Seq(Packet) /\ Len(Tail(s)) = Len(s) - 1 /\ Len(s) \in Nat \ {0}
      /\ \A i \in 1 .. Len(s) - 1 : Tail(s)[i] = s[i + 1]
  OBVIOUS
<1>2. \A q \in Packet : q.re \in Message
  BY DEF Packet
<1>3. \A i \in 1 .. Len(s) : s[i] \in Packet
  OBVIOUS
<1>4. Answered(s) \in Seq(Message) /\ Len(Answered(s)) = Len(s)
  BY <1>2, <1>3 DEF Answered
<1> DEFINE t == Tail(s)
<1> HIDE DEF t
<1>5. \A i \in 1 .. Len(t) : t[i] \in Packet
  BY <1>1 DEF t
<1>6. Answered(t) \in Seq(Message) /\ Len(Answered(t)) = Len(s) - 1
  BY <1>1, <1>2, <1>5 DEF Answered, t
<1>7. \A i \in 1 .. Len(s) - 1 : Answered(t)[i] = Answered(s)[i + 1]
  BY <1>1 DEF Answered, t
<1>8. Answered(s) # <<>>
  BY <1>1, <1>4
<1>9. Answered(t) = Tail(Answered(s))
  BY <1>4, <1>6, <1>7, <1>8, IsTail
<1> QED
  BY <1>8, <1>9 DEF t

LEMMA SignalsAppend ==
  ASSUME NEW s \in Seq(Packet), NEW p \in Packet
  PROVE  Signals(Append(s, p)) = Append(Signals(s), p.val)
<1>1. \A q \in Packet : q.val \in Nat
  BY DEF Packet
<1>2. \A i \in 1 .. Len(s) : s[i] \in Packet
  OBVIOUS
<1>3. Signals(s) \in Seq(Nat) /\ Len(Signals(s)) = Len(s)
  BY <1>1, <1>2 DEF Signals
<1>4. /\ Append(s, p) \in Seq(Packet) /\ Len(Append(s, p)) = Len(s) + 1
      /\ \A i \in 1 .. Len(s) : Append(s, p)[i] = s[i]
      /\ Append(s, p)[Len(s) + 1] = p
  OBVIOUS
<1> DEFINE t == Append(s, p)
<1> HIDE DEF t
<1>5. \A i \in 1 .. Len(t) : t[i] \in Packet
  BY <1>4 DEF t
<1>6. Signals(t) \in Seq(Nat) /\ Len(Signals(t)) = Len(s) + 1
  BY <1>1, <1>4, <1>5 DEF Signals, t
<1>7. /\ \A i \in 1 .. Len(s) : Signals(t)[i] = Signals(s)[i]
      /\ Signals(t)[Len(s) + 1] = p.val
  BY <1>4 DEF Signals, t
<1>8. Signals(t) = Append(Signals(s), p.val)
  BY <1>1, <1>3, <1>6, <1>7
<1> QED
  BY <1>8 DEF t

LEMMA SignalsTail ==
  ASSUME NEW s \in Seq(Packet), s # <<>>
  PROVE  /\ Signals(s) # <<>>
         /\ Signals(Tail(s)) = Tail(Signals(s))
<1>1. /\ Tail(s) \in Seq(Packet) /\ Len(Tail(s)) = Len(s) - 1 /\ Len(s) \in Nat \ {0}
      /\ \A i \in 1 .. Len(s) - 1 : Tail(s)[i] = s[i + 1]
  OBVIOUS
<1>2. \A q \in Packet : q.val \in Nat
  BY DEF Packet
<1>3. \A i \in 1 .. Len(s) : s[i] \in Packet
  OBVIOUS
<1>4. Signals(s) \in Seq(Nat) /\ Len(Signals(s)) = Len(s)
  BY <1>2, <1>3 DEF Signals
<1> DEFINE t == Tail(s)
<1> HIDE DEF t
<1>5. \A i \in 1 .. Len(t) : t[i] \in Packet
  BY <1>1 DEF t
<1>6. Signals(t) \in Seq(Nat) /\ Len(Signals(t)) = Len(s) - 1
  BY <1>1, <1>2, <1>5 DEF Signals, t
<1>7. \A i \in 1 .. Len(s) - 1 : Signals(t)[i] = Signals(s)[i + 1]
  BY <1>1 DEF Signals, t
<1>8. Signals(s) # <<>>
  BY <1>1, <1>4
<1>9. Signals(t) = Tail(Signals(s))
  BY <1>4, <1>6, <1>7, <1>8, IsTail
<1> QED
  BY <1>8, <1>9 DEF t

-----------------------------------------------------------------------------
(* What a step of the server does to these queues.                         *)

LEMMA Queues ==
  /\ Answers = Only(s2c, AnswerSet) /\ Answers' = Only(s2c', AnswerSet)
  /\ Reports = Only(s2c, ReportSet) /\ Reports' = Only(s2c', ReportSet)
  /\ Requests = Only(c2s, AskSet) /\ Requests' = Only(c2s', AskSet)
BY DEF Answers, Reports, Requests, AnswerSet, ReportSet, AskSet

LEMMA QueueTypes ==
  ASSUME WireTypeOK
  PROVE  Answers \in Seq(Packet) /\ Reports \in Seq(Packet) /\ Requests \in Seq(Message)
BY OnlyType, Queues DEF WireTypeOK

(* A packet handled is answered once if it asks, and an interrupt has a    *)
(* report behind its answer.                                               *)
LEMMA HandleSends ==
  ASSUME ServerTypeOK, Handle, srv' # "closed"
  PROVE  /\ srv = "handle" /\ c2s' = Tail(c2s)
         /\ \/ Head(c2s).op = "+" /\ s2c' = s2c
            \/ /\ Head(c2s).op \notin {"+", "vCtrlC"}
               /\ \E kind \in ReplyKinds \cup {"stop"}, val \in Nat :
                    s2c' = Append(Acked, Answer(kind, val, Head(c2s)))
            \/ /\ Head(c2s).op = "vCtrlC"
               /\ s2c' = Append(Append(Acked, Answer("ok", 0, Head(c2s))), Stopped(INT))
<1> DEFINE Answering == \E kind \in ReplyKinds \cup {"stop"}, val \in Nat :
                          s2c' = Append(Acked, Answer(kind, val, Head(c2s)))
<1>1. ASSUME NEW kind \in ReplyKinds \cup {"stop"}, NEW val \in Nat, Reply(kind, val)
      PROVE  Answering /\ c2s' = Tail(c2s)
  BY <1>1 DEF Reply, AfterPacket
<1> HIDE DEF Answering
<1>2. CASE HandleAck
  BY <1>2 DEF HandleAck, Handling, AfterPacket
<1>3. CASE HandleInterrupt
  BY <1>3 DEF HandleInterrupt, Handling, AfterPacket
<1>4. CASE HandleHaltReason \/ HandleQuery \/ HandleEmpty \/ HandleStartNoAckMode
  BY <1>1, <1>4
     DEF HandleHaltReason, HandleQuery, Queries, HandleEmpty, HandleStartNoAckMode, Handling,
         ReplyKinds, TRAP, Answering
<1>5. CASE HandleStep \/ HandleContinue \/ HandleAddBreakpoint \/ HandleRemoveBreakpoint
  BY <1>1, <1>5
     DEF HandleStep, HandleContinue, HandleAddBreakpoint, HandleRemoveBreakpoint, Handling,
         ReplyKinds, Answering
<1>6. CASE HandleReadRegisters
  <2>1. Reply("hex", IF instr = NoLine THEN 0 ELSE AddrOf(instr)) /\ Handling("g")
    BY <1>6 DEF HandleReadRegisters
  <2>2. (IF instr = NoLine THEN 0 ELSE AddrOf(instr)) \in Nat
    BY ProgramAssumption DEF ServerTypeOK, AddrOf
  <2> QED
    BY <1>1, <2>1, <2>2 DEF Handling, ReplyKinds, Answering
<1>7. CASE HandleReadRegister
  <2>1. PICK val \in RegisterReply(Head(c2s).arg) : Reply("hex", val)
    BY <1>7 DEF HandleReadRegister
  <2>2. val \in Nat
    BY ProgramAssumption, HandlerAssumption DEF ServerTypeOK, RegisterReply, Pc, AddrOf
  <2> QED
    BY <1>1, <1>7, <2>1, <2>2 DEF HandleReadRegister, Handling, ReplyKinds, Answering
<1>8. CASE HandleRaises
  BY <1>8 DEF HandleRaises
<1> QED
  BY <1>2, <1>3, <1>4, <1>5, <1>6, <1>7, <1>8 DEF Handle, Answering

LEMMA HandleQueues ==
  ASSUME ServerTypeOK, Handle, srv' # "closed"
  PROVE  /\ srv = "handle" /\ c2s # <<>>
         /\ Answered(Answers') = IF Asks(Head(c2s)) THEN Append(Answered(Answers), Head(c2s))
                                 ELSE Answered(Answers)
         /\ IF Asks(Head(c2s))
            THEN /\ Requests # <<>> /\ Head(Requests) = Head(c2s)
                 /\ Requests' = Tail(Requests)
            ELSE Requests' = Requests
         /\ Signals(Reports') = IF Head(c2s).op = "vCtrlC" THEN Append(Signals(Reports), INT)
                                ELSE Signals(Reports)
<1> DEFINE m == Head(c2s)
<1>1. srv = "handle" /\ c2s' = Tail(c2s)
  BY HandleSends
<1>2. c2s \in Seq(Message) /\ c2s # <<>> /\ s2c \in Seq(Packet) /\ m \in Message
  BY <1>1 DEF ServerTypeOK, WireTypeOK
<1>3. m \in AskSet <=> Asks(m)
  BY <1>2 DEF AskSet
<1>4. IF Asks(m)
      THEN /\ Requests # <<>> /\ Head(Requests) = m
           /\ Requests' = Tail(Requests)
      ELSE Requests' = Requests
  <2> HIDE DEF m
  <2>1. IF m \in AskSet
        THEN /\ Only(c2s, AskSet) # <<>> /\ Head(Only(c2s, AskSet)) = m
             /\ Only(Tail(c2s), AskSet) = Tail(Only(c2s, AskSet))
        ELSE Only(Tail(c2s), AskSet) = Only(c2s, AskSet)
    BY <1>2, OnlyTail DEF m
  <2> QED
    BY <1>1, <1>3, <2>1, Queues
<1>5. /\ Acked \in Seq(Packet)
      /\ Only(Acked, AnswerSet) = Answers
      /\ Only(Acked, ReportSet) = Reports
  BY <1>2, AppendAck, Queues
<1>6. Answers \in Seq(Packet) /\ Reports \in Seq(Packet)
  BY QueueTypes DEF ServerTypeOK
<1>7. CASE m.op = "+" /\ s2c' = s2c
  <2>1. ~Asks(m)
    BY <1>7 DEF Asks
  <2> QED
    BY <1>1, <1>2, <1>4, <1>7, <2>1, Queues
<1>8. ASSUME m.op \notin {"+", "vCtrlC"},
             NEW kind \in ReplyKinds \cup {"stop"}, NEW val \in Nat,
             s2c' = Append(Acked, Answer(kind, val, m))
      PROVE  Answered(Answers') = Append(Answered(Answers), m) /\ Signals(Reports') = Signals(Reports)
  <2>1. Asks(m)
    BY <1>8 DEF Asks
  <2> DEFINE p == Answer(kind, val, m)
  <2>2. /\ p \in Packet
        /\ Only(Append(Acked, p), AnswerSet) = Append(Answers, p)
        /\ Only(Append(Acked, p), ReportSet) = Reports
    BY <1>2, <1>5, <1>8, <2>1, AppendAnswer
  <2>3. p.re = m
    BY DEF Answer
  <2> HIDE DEF p
  <2>4. s2c' = Append(Acked, p)
    BY <1>8 DEF p
  <2>5. Answers' = Append(Answers, p) /\ Reports' = Reports
    BY <2>2, <2>4, Queues
  <2> QED
    BY <1>6, <2>2, <2>3, <2>5, AnsweredAppend
<1>9. ASSUME m.op = "vCtrlC",
             s2c' = Append(Append(Acked, Answer("ok", 0, m)), Stopped(INT))
      PROVE  /\ Answered(Answers') = Append(Answered(Answers), m)
             /\ Signals(Reports') = Append(Signals(Reports), INT)
  <2>1. Asks(m) /\ "ok" \in ReplyKinds \cup {"stop"} /\ 0 \in Nat /\ INT \in Nat
    BY <1>9 DEF Asks, ReplyKinds, INT
  <2> DEFINE p == Answer("ok", 0, m)
             t == Append(Acked, p)
  <2>2. /\ p \in Packet /\ t \in Seq(Packet)
        /\ Only(t, AnswerSet) = Append(Answers, p) /\ Only(t, ReportSet) = Reports
    BY <1>2, <1>5, <2>1, AppendAnswer
  <2>3. p.re = m /\ Stopped(INT).val = INT
    BY DEF Answer, Stopped
  <2> HIDE DEF p, t
  <2>4. s2c' = Append(t, Stopped(INT))
    BY <1>9 DEF p, t
  <2>5. /\ Stopped(INT) \in Packet
        /\ Answers' = Append(Answers, p) /\ Reports' = Append(Reports, Stopped(INT))
    BY <2>1, <2>2, <2>4, AppendReport, Queues
  <2> QED
    BY <1>6, <2>2, <2>3, <2>5, AnsweredAppend, SignalsAppend
<1> QED
  <2>1. CASE m.op = "+"
    BY <1>1, <1>2, <1>4, <1>7, <2>1, HandleSends DEF Asks
  <2>2. CASE m.op = "vCtrlC"
    BY <1>1, <1>2, <1>4, <1>9, <2>2, HandleSends DEF Asks
  <2>3. CASE m.op \notin {"+", "vCtrlC"}
    BY <1>1, <1>2, <1>4, <1>8, <2>3, HandleSends DEF Asks
  <2> QED
    BY <2>1, <2>2, <2>3

(* An instruction sends nothing, or a report.                              *)
LEMMA ReportQueues ==
  ASSUME ServerTypeOK, NEW sig \in Nat, s2c' = Append(s2c, Stopped(sig))
  PROVE  Answers' = Answers /\ Signals(Reports') = Append(Signals(Reports), sig)
<1>1. s2c \in Seq(Packet) /\ Reports \in Seq(Packet)
  BY QueueTypes DEF ServerTypeOK, WireTypeOK
<1>2. Stopped(sig) \in Packet /\ Answers' = Answers /\ Reports' = Append(Reports, Stopped(sig))
  BY <1>1, AppendReport, Queues
<1>3. Stopped(sig).val = sig
  BY DEF Stopped
<1> QED
  BY <1>1, <1>2, <1>3, SignalsAppend

-----------------------------------------------------------------------------
(* Replies in order.                                                       *)

LEMMA MoveAcross ==
  ASSUME NEW T, NEW a \in Seq(T), NEW b \in Seq(T), b # <<>>
  PROVE  Append(a, Head(b)) \o Tail(b) = a \o b
OBVIOUS

LEMMA AppendAfter ==
  ASSUME NEW T, NEW a \in Seq(T), NEW b \in Seq(T), NEW e \in T
  PROVE  a \o Append(b, e) = Append(a \o b, e)
OBVIOUS

LEMMA TailBefore ==
  ASSUME NEW T, NEW a \in Seq(T), NEW b \in Seq(T), a # <<>>
  PROVE  a \o b # <<>> /\ Tail(a) \o b = Tail(a \o b)
<1>1. a \o b # <<>>
  OBVIOUS
<1>2. Tail(a) \in Seq(T) /\ Len(Tail(a)) = Len(a) - 1
  OBVIOUS
<1>3. Tail(a) \o b \in Seq(T) /\ Len(Tail(a) \o b) = Len(a \o b) - 1
  BY <1>2
<1>4. \A i \in 1 .. Len(a \o b) - 1 : (Tail(a) \o b)[i] = (a \o b)[i + 1]
  BY <1>2
<1>5. a \o b \in Seq(T)
  OBVIOUS
<1> QED
  BY <1>1, <1>3, <1>4, <1>5, IsTail

(* The server moves a request from the one queue to the other as it        *)
(* answers; the client adds at the end and takes from the front.           *)
LEMMA ServerStepFifo ==
  ASSUME ServerTypeOK, FifoReplies, ServerNext, UNCHANGED asked
  PROVE  FifoReplies'
<1>0. SUFFICES ASSUME srv' # "closed"
               PROVE  Answered(Answers') \o Requests' = asked
  BY DEF FifoReplies
<1>1. srv # "closed"
  BY DEF ServerNext, ServerAccept, ServerRecv, ServerNoInput, ServerLosesPeer, Handle, Handling,
         HandleAck, HandleHaltReason, HandleQuery, HandleEmpty, HandleStartNoAckMode,
         HandleInterrupt, HandleStep, HandleContinue, HandleAddBreakpoint,
         HandleRemoveBreakpoint, HandleReadRegisters, HandleReadRegister, HandleRaises,
         Execute, MayRun, ExecLimitReached, ExecEntryBreak, ExecInstr, ExecRaises
<1>2. Answered(Answers) \o Requests = asked
  BY <1>1 DEF FifoReplies
<1>3. CASE c2s' = c2s /\ s2c' = s2c
  BY <1>2, <1>3, Queues
<1>4. CASE Handle
  <2>1. Requests \in Seq(Message) /\ Answers \in Seq(Packet)
    BY QueueTypes DEF ServerTypeOK
  <2>2. Answered(Answers) \in Seq(Message)
    <3>1. Ack \in Packet
      BY DEF Ack, Packet, Nothing, Request, Message, Ops
    <3> QED
      BY <2>1, <3>1, AnsweredAppend
  <2>3. CASE Asks(Head(c2s))
    <3>1. /\ Answered(Answers') = Append(Answered(Answers), Head(Requests))
          /\ Requests # <<>> /\ Requests' = Tail(Requests)
      BY <1>0, <1>4, <2>3, HandleQueues
    <3> QED
      BY <1>2, <2>1, <2>2, <3>1, MoveAcross
  <2>4. CASE ~Asks(Head(c2s))
    BY <1>0, <1>2, <1>4, <2>4, HandleQueues
  <2> QED
    BY <2>3, <2>4
<1>5. ASSUME NEW sig \in Nat, s2c' = Append(s2c, Stopped(sig)), c2s' = c2s
      PROVE  Answered(Answers') \o Requests' = asked
  BY <1>2, <1>5, ReportQueues, Queues
<1>6. CASE Execute
  BY <1>0, <1>3, <1>5, <1>6
     DEF Execute, ExecLimitReached, ExecEntryBreak, ExecInstr, ExecRaises, ReportStop, TRAP
<1> QED
  BY <1>0, <1>3, <1>4, <1>6
     DEF ServerNext, ServerAccept, ServerRecv, ServerNoInput, ServerLosesPeer, wireVars

LEMMA OpenStepFifo ==
  ASSUME OpenTypeOK, FifoReplies, [OpenNext]_openVars
  PROVE  FifoReplies'
<1>1. /\ c2s \in Seq(Message) /\ s2c \in Seq(Packet)
      /\ Requests \in Seq(Message) /\ Answers \in Seq(Packet)
  BY QueueTypes DEF OpenTypeOK, ServerTypeOK, WireTypeOK
<1>2. Answered(Answers) \in Seq(Message)
  <2>1. Ack \in Packet
    BY DEF Ack, Packet, Nothing, Request, Message, Ops
  <2> QED
    BY <1>1, <2>1, AnsweredAppend
<1>3. CASE UNCHANGED <<srv, c2s, s2c, asked>>
  BY <1>3, Queues DEF FifoReplies
<1>4. CASE Send
  <2>1. PICK m \in Sent :
          /\ c2s' = Append(c2s, m)
          /\ asked' = IF Asks(m) THEN Append(asked, m) ELSE asked
    BY <1>4 DEF Send
  <2>2. m \in Message /\ srv' = srv /\ s2c' = s2c
    BY <1>4, ClientAssumption DEF Send, serverVars
  <2>3. Requests' = IF Asks(m) THEN Append(Requests, m) ELSE Requests
    BY <1>1, <2>1, <2>2, OnlyAppend, Queues DEF AskSet
  <2>4. Answers' = Answers
    BY <2>2, Queues
  <2>5. Answered(Answers) \o Append(Requests, m) = Append(Answered(Answers) \o Requests, m)
    BY <1>1, <1>2, <2>2, AppendAfter
  <2> QED
    BY <2>1, <2>2, <2>3, <2>4, <2>5 DEF FifoReplies
<1>5. CASE Take
  <2>1. /\ s2c # <<>> /\ s2c' = Tail(s2c) /\ c2s' = c2s /\ srv' = srv
        /\ asked' = IF IsAnswer(Head(s2c)) /\ asked # <<>> THEN Tail(asked) ELSE asked
    BY <1>5 DEF Take, serverVars
  <2>2. Head(s2c) \in Packet
    BY <1>1, <2>1
  <2>3. Requests' = Requests
    BY <2>1, Queues
  <2>4. CASE IsAnswer(Head(s2c))
    <3>1. Head(s2c) \in AnswerSet
      BY <2>2, <2>4 DEF AnswerSet
    <3>2. Answers # <<>> /\ Answers' = Tail(Answers)
      BY <1>1, <2>1, <3>1, OnlyTail, Queues
    <3>3. Answered(Answers) # <<>> /\ Answered(Answers') = Tail(Answered(Answers))
      BY <1>1, <3>2, AnsweredTail
    <3>4. /\ Answered(Answers) \o Requests # <<>>
          /\ Answered(Answers') \o Requests = Tail(Answered(Answers) \o Requests)
      BY <1>1, <1>2, <3>3, TailBefore
    <3> QED
      BY <2>1, <2>3, <2>4, <3>4 DEF FifoReplies
  <2>5. CASE ~IsAnswer(Head(s2c))
    <3>1. Head(s2c) \notin AnswerSet
      BY <2>5 DEF AnswerSet
    <3>2. Answers' = Answers
      BY <1>1, <2>1, <3>1, OnlyTail, Queues
    <3> QED
      BY <2>1, <2>3, <2>5, <3>2 DEF FifoReplies
  <2> QED
    BY <2>4, <2>5
<1>6. CASE ServerNext /\ UNCHANGED asked
  BY <1>6, ServerStepFifo DEF OpenTypeOK
<1> QED
  BY <1>3, <1>4, <1>5, <1>6 DEF OpenNext, Connect, Close, openVars, wireVars, serverVars

(* Replies come in the order of the requests, none lost, doubled or        *)
(* invented, whatever is sent, however it is cut into chunks and whatever  *)
(* the program does.                                                       *)
THEOREM RepliesInOrder == OpenSpec => []FifoReplies
<1>1. OpenInit => FifoReplies
  <2> SUFFICES ASSUME OpenInit
               PROVE  Answered(Answers) \o Requests = asked
    BY DEF FifoReplies
  <2>1. s2c = <<>> /\ c2s = <<>> /\ asked = <<>>
    BY DEF OpenInit, ServerInit, WireInit
  <2>2. Answers = <<>> /\ Requests = <<>>
    BY <2>1, OnlyEmpty DEF Answers, Requests
  <2>3. <<>> \in Seq(Packet) /\ Len(<<>>) = 0
    OBVIOUS
  <2>4. Answered(<<>>) = <<>>
    BY <2>3 DEF Answered
  <2>5. <<>> \o <<>> = <<>>
    OBVIOUS
  <2> QED
    BY <2>1, <2>2, <2>4, <2>5
<1>2. OpenTypeOK /\ FifoReplies /\ [OpenNext]_openVars => FifoReplies'
  BY OpenStepFifo
<1> QED
  BY OpenTypeCorrect, <1>1, <1>2, PTL DEF OpenSpec

-----------------------------------------------------------------------------
(* The refinement: what the target sees of a state of the server ...       *)

LEMMA Modes ==
  ASSUME cycleLimit \in {0, 1, Inf}
  PROVE  /\ srv = "closed" => TargetMode = "gone"
         /\ srv # "closed" /\ exeStopped => TargetMode = "halted"
         /\ srv # "closed" /\ ~exeStopped /\ cycleLimit = Inf => TargetMode = "running"
         /\ srv # "closed" /\ ~exeStopped /\ cycleLimit = 1 => TargetMode = "stepping"
         /\ srv # "closed" /\ ~exeStopped /\ cycleLimit = 0 => TargetMode = "stepped"
BY HandlerAssumption DEF TargetMode

LEMMA ModesNext ==
  ASSUME cycleLimit' \in {0, 1, Inf}
  PROVE  /\ srv' = "closed" => TargetMode' = "gone"
         /\ srv' # "closed" /\ exeStopped' => TargetMode' = "halted"
         /\ srv' # "closed" /\ ~exeStopped' /\ cycleLimit' = Inf => TargetMode' = "running"
         /\ srv' # "closed" /\ ~exeStopped' /\ cycleLimit' = 1 => TargetMode' = "stepping"
         /\ srv' # "closed" /\ ~exeStopped' /\ cycleLimit' = 0 => TargetMode' = "stepped"
BY HandlerAssumption DEF TargetMode

LEMMA Views ==
  /\ Signals(Reports)' = Signals(Reports')
  /\ breakpoints' = breakpoints => Watched' = Watched
  /\ s2c' = s2c => Signals(Reports') = Signals(Reports)
  /\ Watched \in SUBSET Lines /\ Watched' \in SUBSET Lines
  /\ \A line \in Lines : (line \in Watched) <=> (AddrOf(line) \in breakpoints)
  /\ \A line \in Lines : (line \in Watched') <=> (AddrOf(line) \in breakpoints')
BY DEF Watched, Signals, Reports

LEMMA SameMode ==
  ASSUME UNCHANGED <<exeStopped, cycleLimit>>, srv # "closed", srv' # "closed"
  PROVE  TargetMode' = TargetMode
BY DEF TargetMode

(* ... which needs that the loop runs instructions only while it is not    *)
(* stopped.                                                                *)
ExecRuns == srv = "exec" => ~exeStopped

LEMMA OpenStepExecRuns ==
  ASSUME ExecRuns, [OpenNext]_openVars
  PROVE  ExecRuns'
<1> USE DEF ExecRuns
<1>1. CASE AfterPacket
  BY <1>1 DEF AfterPacket
<1>2. CASE srv' # "exec"
  BY <1>2
<1>3. CASE UNCHANGED <<srv, exeStopped>>
  BY <1>3
<1>4. CASE Handle
  BY <1>1, <1>2, <1>4
     DEF Handle, HandleAck, HandleHaltReason, HandleQuery, HandleEmpty, HandleStartNoAckMode,
         HandleInterrupt, HandleStep, HandleContinue, HandleAddBreakpoint,
         HandleRemoveBreakpoint, HandleReadRegisters, HandleReadRegister, HandleRaises, Reply
<1>5. CASE Execute
  BY <1>2, <1>5 DEF Execute, ExecLimitReached, ExecEntryBreak, ExecInstr, ExecRaises
<1>6. CASE ServerNext
  BY <1>2, <1>3, <1>4, <1>5, <1>6
     DEF ServerNext, ServerAccept, ServerRecv, ServerNoInput, ServerLosesPeer
<1> QED
  BY <1>3, <1>6 DEF OpenNext, Connect, Send, Take, Close, openVars, serverVars

(* Nothing the target sees changes.                                        *)
LEMMA Stutters ==
  ASSUME UNCHANGED <<exeStopped, cycleLimit, instr, breakpoints>>,
         srv = "closed" <=> srv' = "closed",
         Signals(Reports') = Signals(Reports)
  PROVE  UNCHANGED (Target!vars)
<1>1. TargetMode' = TargetMode
  BY DEF TargetMode
<1>2. Watched' = Watched /\ Signals(Reports)' = Signals(Reports)
  BY Views
<1> QED
  BY <1>1, <1>2 DEF Target!vars

(* The server is gone and what it sent is still to be seen.                *)
LEMMA Vanishes ==
  ASSUME UNCHANGED <<instr, breakpoints>>, cycleLimit' \in {0, 1, Inf}, srv' = "closed",
         Signals(Reports') = Signals(Reports)
  PROVE  Target!Vanish
<1>1. TargetMode' = "gone" /\ Watched' = Watched /\ Signals(Reports)' = Signals(Reports)
  BY ModesNext, Views
<1> QED
  BY <1>1 DEF Target!Vanish

(* A request stutters, resumes, sets a breakpoint or interrupts.           *)
LEMMA HandleSimulates ==
  ASSUME ServerTypeOK, ServerTypeOK', Handle
  PROVE  [Target!Next]_(Target!vars)
<1> USE DEF Target!Next
<1>1. cycleLimit \in {0, 1, Inf} /\ cycleLimit' \in {0, 1, Inf} /\ s2c \in Seq(Packet)
  BY DEF ServerTypeOK, WireTypeOK
<1>2. CASE HandleRaises
  <2>1. /\ srv' = "closed" /\ s2c' = Acked
        /\ UNCHANGED <<exeStopped, cycleLimit, instr, breakpoints>>
    BY <1>2 DEF HandleRaises
  <2>2. Reports' = Reports
    BY <1>1, <2>1, AppendAck, Queues
  <2> QED
    BY <1>1, <2>1, <2>2, Vanishes
<1>3. CASE ~HandleRaises
  <2>1. srv = "handle" /\ srv' # "closed"
    BY <1>3 DEF Handle, Handling, AfterPacket, Reply,
         HandleAck, HandleHaltReason, HandleQuery, HandleEmpty, HandleStartNoAckMode,
         HandleInterrupt, HandleStep, HandleContinue, HandleAddBreakpoint,
         HandleRemoveBreakpoint, HandleReadRegisters, HandleReadRegister
  <2>2. Signals(Reports') = IF Head(c2s).op = "vCtrlC" THEN Append(Signals(Reports), INT)
                            ELSE Signals(Reports)
    BY <2>1, HandleQueues
  <2>3. TargetMode # "gone"
    BY <1>1, <2>1, Modes
  <2>4. CASE HandleInterrupt
    <3>1. /\ Head(c2s).op = "vCtrlC" /\ exeStopped' = TRUE
          /\ UNCHANGED <<instr, breakpoints>>
      BY <2>4 DEF HandleInterrupt, Handling
    <3>2. TargetMode' = "halted" /\ Watched' = Watched
      BY <1>1, <2>1, <3>1, ModesNext, Views
    <3>3. Signals(Reports)' = Append(Signals(Reports), 2)
      BY <2>2, <3>1, Views DEF INT
    <3>4. Target!Interrupt
      BY <2>3, <3>1, <3>2, <3>3 DEF Target!Interrupt, Target!Halt
    <3> QED
      BY <3>4
  <2>5. ASSUME Head(c2s).op # "vCtrlC", UNCHANGED <<instr, breakpoints>>,
               exeStopped' = FALSE, cycleLimit' \in {1, Inf}
        PROVE  Target!Resume
    <3>1. TargetMode' \in {"stepping", "running"}
      BY <1>1, <2>1, <2>5, ModesNext
    <3>2. Watched' = Watched /\ Signals(Reports)' = Signals(Reports)
      BY <2>2, <2>5, Views
    <3> QED
      BY <2>3, <2>5, <3>1, <3>2 DEF Target!Resume
  <2>6. CASE HandleStep \/ HandleContinue
    BY <2>5, <2>6 DEF HandleStep, HandleContinue, Handling
  <2>7. ASSUME Head(c2s).op # "vCtrlC", UNCHANGED <<instr, exeStopped, cycleLimit>>
        PROVE  Target!SetWatch
    <3>1. TargetMode' = TargetMode
      BY <2>1, <2>7, SameMode
    <3>2. Watched' \in SUBSET Lines /\ Signals(Reports)' = Signals(Reports)
      BY <2>2, <2>7, Views
    <3> QED
      BY <2>3, <2>7, <3>1, <3>2 DEF Target!SetWatch
  <2>8. CASE HandleAddBreakpoint \/ HandleRemoveBreakpoint
    BY <2>7, <2>8 DEF HandleAddBreakpoint, HandleRemoveBreakpoint, Handling
  <2>9. ASSUME Head(c2s).op # "vCtrlC",
               UNCHANGED <<exeStopped, cycleLimit, instr, breakpoints>>
        PROVE  UNCHANGED (Target!vars)
    BY <2>1, <2>2, <2>9, Stutters
  <2> QED
    BY <1>3, <2>4, <2>6, <2>8, <2>9
       DEF Handle, Handling, HandleAck, HandleHaltReason, HandleQuery, HandleEmpty,
           HandleStartNoAckMode, HandleReadRegisters, HandleReadRegister, Queries
<1> QED
  BY <1>2, <1>3

(* A turn of runCurrentInstr is a step of the target.                      *)
LEMMA ExecuteSimulates ==
  ASSUME ServerTypeOK, ServerTypeOK', ExecRuns, RunnerBound, Execute
  PROVE  Target!Next
<1> USE DEF Target!Next, Target!Progress
<1>1. /\ cycleLimit \in {0, 1, Inf} /\ cycleLimit' \in {0, 1, Inf}
      /\ instr \in Lines \cup {NoLine}
      /\ srv = "exec" /\ ~exeStopped
  BY DEF ServerTypeOK, Execute, ExecRuns, MayRun,
         ExecLimitReached, ExecEntryBreak, ExecInstr, ExecRaises
<1>2. Target!Here = Current
  BY DEF Target!Here, Current
<1>3. /\ Current \in Lines
      /\ \A line \in Lines : line \in Watched <=> AddrOf(line) \in breakpoints
      /\ Succ[Current] \in SUBSET Lines
      /\ Entry \in Lines
  <2>1. Current \in Lines /\ Entry \in Lines
    BY <1>1, ProgramAssumption DEF Current
  <2> QED
    BY <2>1, ProgramAssumption, Views
<1>4. ASSUME ~EntryBreak
      PROVE  ~(instr = NoLine /\ Entry \in Watched)
  BY <1>3, <1>4 DEF EntryBreak
<1>5. ASSUME cycleLimit # 0
      PROVE  /\ TargetMode = IF cycleLimit = Inf THEN "running" ELSE "stepping"
             /\ Target!Moving
  <2>1. TargetMode = IF cycleLimit = Inf THEN "running" ELSE "stepping"
    BY <1>1, <1>5, Modes
  <2> QED
    BY <2>1 DEF Target!Moving
<1>6. ASSUME NEW sig \in Nat, ReportStop(sig), srv' = "select"
      PROVE  TargetMode' = "halted" /\ Signals(Reports)' = Append(Signals(Reports), sig)
  <2>1. TargetMode' = "halted"
    BY <1>1, <1>6, ModesNext DEF ReportStop
  <2>2. s2c' = Append(s2c, Stopped(sig))
    BY <1>6 DEF ReportStop
  <2>3. Signals(Reports') = Append(Signals(Reports), sig)
    BY <2>2, ReportQueues
  <2> QED
    BY <2>1, <2>3, Views
<1>7. CASE ExecLimitReached
  <2>1. /\ ReportStop(5) /\ srv' = "select" /\ cycleLimit = 0
        /\ UNCHANGED <<instr, breakpoints>>
    BY <1>7 DEF ExecLimitReached, TRAP
  <2>2. TargetMode = "stepped" /\ Watched' = Watched
    BY <1>1, <2>1, Modes, Views
  <2>3. TargetMode' = "halted" /\ Signals(Reports)' = Append(Signals(Reports), 5)
    BY <1>6, <2>1
  <2>4. Target!FinishStep
    BY <2>1, <2>2, <2>3 DEF Target!FinishStep, Target!Halt
  <2> QED
    BY <2>4
<1>8. CASE ExecEntryBreak
  <2>1. /\ ReportStop(5) /\ srv' = "select" /\ cycleLimit # 0 /\ EntryBreak
        /\ instr' = Entry /\ breakpoints' = breakpoints
    BY <1>8 DEF ExecEntryBreak, MayRun, TRAP
  <2>2. instr = NoLine /\ Entry \in Watched /\ Watched' = Watched
    BY <1>3, <2>1, Views DEF EntryBreak
  <2>3. TargetMode' = "halted" /\ Signals(Reports)' = Append(Signals(Reports), 5)
    BY <1>6, <2>1
  <2>4. Target!HaltAtEntry
    BY <1>5, <2>1, <2>2, <2>3 DEF Target!HaltAtEntry, Target!Halt
  <2> QED
    BY <2>4
<1>9. CASE ExecInstr
  <2>1. /\ srv' = "select" /\ cycleLimit # 0 /\ ~EntryBreak
        /\ breakpoints' = breakpoints /\ cycleLimit' = CycleSpent
    BY <1>9 DEF ExecInstr, MayRun
  <2>2. /\ instr' \in Succ[Current]
        /\ IF AddrOf(instr') \in breakpoints THEN ReportStop(5) ELSE UNCHANGED <<s2c, exeStopped>>
    BY <1>9 DEF ExecInstr, TRAP
  <2>3. Watched' = Watched
    BY <2>1, Views
  <2>4. /\ instr' \in Succ[Target!Here]
        /\ instr' \in Watched <=> AddrOf(instr') \in breakpoints
    BY <1>2, <1>3, <2>2
  <2>5. CASE instr' \in Watched
    <3>1. TargetMode' = "halted" /\ Signals(Reports)' = Append(Signals(Reports), 5)
      BY <1>6, <2>1, <2>2, <2>4, <2>5
    <3>2. Target!Advance
      BY <1>4, <1>5, <2>1, <2>3, <2>4, <2>5, <3>1 DEF Target!Advance, Target!Halt
    <3> QED
      BY <3>2
  <2>6. CASE instr' \notin Watched
    <3>1. UNCHANGED <<s2c, exeStopped>>
      BY <2>2, <2>4, <2>6
    <3>2. Signals(Reports)' = Signals(Reports)
      BY <3>1, Views
    <3>3. cycleLimit' = IF cycleLimit = Inf THEN Inf ELSE 0
      BY <1>1, <2>1, HandlerAssumption DEF CycleSpent
    <3>4. TargetMode' = IF cycleLimit = Inf THEN "running" ELSE "stepped"
      BY <1>1, <2>1, <3>1, <3>3, ModesNext
    <3>5. TargetMode' = IF TargetMode = "stepping" THEN "stepped" ELSE TargetMode
      BY <1>5, <2>1, <3>4
    <3>6. Target!Advance
      BY <1>4, <1>5, <2>1, <2>3, <2>4, <2>6, <3>2, <3>5 DEF Target!Advance
    <3> QED
      BY <3>6
  <2> QED
    BY <2>5, <2>6
<1>10. CASE ExecRaises
  <2>1. /\ ReportStop(9) /\ srv' = "closed" /\ cycleLimit # 0
        /\ Current \in Faulting \/ Succ[Current] = {}
        /\ instr' \in {Current, NoLine} /\ breakpoints' = breakpoints
    BY <1>10 DEF ExecRaises, MayRun, SIGKILL
  <2>2. TargetMode' = "gone" /\ Watched' = Watched
    BY <1>1, <2>1, ModesNext, Views
  <2>3. s2c' = Append(s2c, Stopped(9))
    BY <2>1 DEF ReportStop
  <2>4. Signals(Reports') = Append(Signals(Reports), 9)
    BY <2>3, ReportQueues
  <2>5. Signals(Reports)' = Append(Signals(Reports), 9)
    BY <2>4, Views
  <2>6. Target!Crash
    BY <1>2, <1>5, <2>1, <2>2, <2>5 DEF Target!Crash
  <2> QED
    BY <2>6
<1> QED
  BY <1>7, <1>8, <1>9, <1>10 DEF Execute

(* Taking a report is the client's observation; whatever else a client     *)
(* does the target does not see.                                           *)
LEMMA TakeSimulates ==
  ASSUME ServerTypeOK, Take
  PROVE  [Target!Next]_(Target!vars)
<1>1. /\ s2c \in Seq(Packet) /\ s2c # <<>> /\ s2c' = Tail(s2c)
      /\ UNCHANGED <<srv, exeStopped, cycleLimit, instr, breakpoints>>
  BY DEF Take, serverVars, ServerTypeOK, WireTypeOK
<1>2. Reports \in Seq(Packet)
  BY QueueTypes DEF ServerTypeOK
<1>3. CASE Head(s2c) \in ReportSet
  <2>1. Reports # <<>> /\ Reports' = Tail(Reports)
    BY <1>1, <1>3, OnlyTail, Queues
  <2>2. Signals(Reports) # <<>> /\ Signals(Reports') = Tail(Signals(Reports))
    BY <1>2, <2>1, SignalsTail
  <2>3. TargetMode' = TargetMode
    BY <1>1 DEF TargetMode
  <2>4. Watched' = Watched /\ Signals(Reports)' = Tail(Signals(Reports))
    BY <1>1, <2>2, Views
  <2>5. Target!Observe
    BY <1>1, <2>2, <2>3, <2>4 DEF Target!Observe
  <2> QED
    BY <2>5 DEF Target!Next
<1>4. CASE Head(s2c) \notin ReportSet
  <2>1. Reports' = Reports
    BY <1>1, <1>4, OnlyTail, Queues
  <2> QED
    BY <1>1, <2>1, Stutters
<1> QED
  BY <1>3, <1>4

LEMMA OpenStepSimulates ==
  ASSUME OpenTypeOK, OpenTypeOK', ExecRuns, RunnerBound, [OpenNext]_openVars
  PROVE  [Target!Next]_(Target!vars)
<1>1. ServerTypeOK /\ ServerTypeOK'
  BY DEF OpenTypeOK
<1>2. cycleLimit' \in {0, 1, Inf}
  BY <1>1 DEF ServerTypeOK
<1>3. ASSUME UNCHANGED <<exeStopped, cycleLimit, instr, breakpoints, s2c>>,
             srv = "closed" <=> srv' = "closed"
      PROVE  UNCHANGED (Target!vars)
  BY <1>3, Views, Stutters
<1>4. CASE ServerLosesPeer
  <2>1. /\ srv' = "closed" /\ UNCHANGED <<instr, breakpoints, s2c>>
    BY <1>4 DEF ServerLosesPeer, wireVars
  <2>2. Target!Vanish
    BY <1>2, <2>1, Views, Vanishes
  <2> QED
    BY <2>2 DEF Target!Next
<1>5. CASE ServerAccept \/ ServerRecv \/ ServerNoInput
  BY <1>3, <1>5 DEF ServerAccept, ServerRecv, ServerNoInput, wireVars
<1>6. CASE Handle
  BY <1>1, <1>6, HandleSimulates
<1>7. CASE Execute
  BY <1>1, <1>7, ExecuteSimulates
<1>8. CASE Take
  BY <1>1, <1>8, TakeSimulates
<1>9. CASE Connect \/ Send \/ Close \/ UNCHANGED openVars
  BY <1>3, <1>9 DEF Connect, Send, Close, openVars, wireVars, serverVars
<1> QED
  BY <1>4, <1>5, <1>6, <1>7, <1>8, <1>9 DEF OpenNext, ServerNext

LEMMA OpenStartSimulates == OpenInit => Target!Init
<1> SUFFICES ASSUME OpenInit
             PROVE  Target!Init
  OBVIOUS
<1>1. /\ s2c = <<>> /\ srv = "listen" /\ exeStopped = TRUE
      /\ cycleLimit = 0 /\ instr = NoLine /\ breakpoints = {}
  BY DEF OpenInit, ServerInit, WireInit, StubInit, HandlerInit
<1>2. TargetMode = "halted"
  BY <1>1, Modes
<1>3. Watched = {}
  BY <1>1 DEF Watched
<1>4. Reports = <<>>
  BY <1>1, OnlyEmpty DEF Reports
<1>5. <<>> \in Seq(Packet) /\ Len(<<>>) = 0
  OBVIOUS
<1>6. Signals(<<>>) = <<>>
  BY <1>5 DEF Signals
<1> QED
  BY <1>1, <1>2, <1>3, <1>4, <1>6 DEF Target!Init

(* Every run of the server is, seen through the mapping, a run of the      *)
(* debug target: each halt is reported exactly once and in order, a step   *)
(* is one instruction, no breakpoint arrived at is run past - provided     *)
(* that the handler has the attributes runCurrentInstr reads.              *)
THEOREM ServerIsTarget ==
  ASSUME RunnerBound
  PROVE  OpenSpec => Target!Safety
<1>1. OpenInit => ExecRuns
  BY DEF OpenInit, ServerInit, StubInit, ExecRuns
<1>2. ExecRuns /\ [OpenNext]_openVars => ExecRuns'
  BY OpenStepExecRuns
<1>3. OpenTypeOK /\ OpenTypeOK' /\ ExecRuns /\ [OpenNext]_openVars
        => [Target!Next]_(Target!vars)
  BY OpenStepSimulates
<1> QED
  BY OpenTypeCorrect, OpenStartSimulates, <1>1, <1>2, <1>3, PTL DEF OpenSpec, Target!Safety

=============================================================================
