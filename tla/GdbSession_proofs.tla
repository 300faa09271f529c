-------------------------- MODULE GdbSession_proofs --------------------------
(***************************************************************************)
(* The accounting of requests, replies and acknowledgements in a session,  *)
(* for every program, any number of breakpoints and terminals and every    *)
(* behaviour of the front-end.                                             *)
(***************************************************************************)
EXTENDS GdbSession, GdbServer_proofs, FiniteSetTheorems, FunctionTheorems

-----------------------------------------------------------------------------
(* Counting the elements of a sequence that are in a set.                  *)

LEMMA CountType ==
  ASSUME NEW T, NEW s \in Seq(T), NEW S
  PROVE  /\ IsFiniteSet({ i \in 1 .. Len(s) : s[i] \in S })
         /\ Count(s, S) \in Nat
<1>1. IsFiniteSet(1 .. Len(s))
  BY FS_Interval
<1>2. IsFiniteSet({ i \in 1 .. Len(s) : s[i] \in S })
  BY <1>1, FS_Subset
<1> QED
  BY <1>2, FS_CardinalityType DEF Count

(* A count of zero means that there is none. *)
LEMMA CountZero ==
  ASSUME NEW T, NEW s \in Seq(T), NEW S
  PROVE  Count(s, S) = 0 <=> \A i \in 1 .. Len(s) : s[i] \notin S
<1> DEFINE Is == { i \in 1 .. Len(s) : s[i] \in S }
<1>1. IsFiniteSet(Is)
  BY CountType
<1>2. Cardinality(Is) = 0 <=> Is = {}
  BY <1>1, FS_EmptySet
<1> QED
  BY <1>2 DEF Count

LEMMA CountEmpty ==
  ASSUME NEW S
  PROVE  Count(<<>>, S) = 0
<1>1. <<>> \in Seq({}) /\ Len(<<>>) = 0
  OBVIOUS
<1>2. 1 .. Len(<<>>) = {}
  BY <1>1
<1> QED
  BY <1>1, <1>2, CountZero

LEMMA NotEmpty ==
  ASSUME NEW s, Len(s) = 1
  PROVE  s # <<>>
<1>1. Len(<<>>) = 0
  OBVIOUS
<1>2. ASSUME s = <<>> PROVE Len(s) = 0
  BY <1>1, <1>2, Zenon
<1> QED
  BY <1>2

(* A packet sent counts once. *)
LEMMA CountAppend ==
  ASSUME NEW T, NEW s \in Seq(T), NEW e \in T, NEW S
  PROVE  Count(Append(s, e), S) = Count(s, S) + IF e \in S THEN 1 ELSE 0
<1> DEFINE t  == Append(s, e)
           Is == { i \in 1 .. Len(s) : s[i] \in S }
           It == { i \in 1 .. Len(t) : t[i] \in S }
<1>1. Len(t) = Len(s) + 1 /\ (\A i \in 1 .. Len(s) : t[i] = s[i]) /\ t[Len(s) + 1] = e
  OBVIOUS
<1>2. It = IF e \in S THEN Is \cup {Len(s) + 1} ELSE Is
  BY <1>1
<1>3. IsFiniteSet(Is) /\ Len(s) + 1 \notin Is
  <2>1. IsFiniteSet(Is)
    BY CountType
  <2>2. Len(s) + 1 \notin 1 .. Len(s)
    OBVIOUS
  <2> QED
    BY <2>1, <2>2
<1>4. Cardinality(Is \cup {Len(s) + 1}) = Cardinality(Is) + 1
  BY <1>3, FS_AddElement
<1>5. Count(s, S) = Cardinality(Is) /\ Count(t, S) = Cardinality(It)
  BY DEF Count
<1>6. Count(s, S) \in Nat
  BY CountType
<1> HIDE DEF Is, It
<1> QED
  BY <1>2, <1>4, <1>5, <1>6

(* A packet taken counts once less. *)
LEMMA CountTail ==
  ASSUME NEW T, NEW s \in Seq(T), s # <<>>, NEW S
  PROVE  Count(Tail(s), S) = Count(s, S) - IF Head(s) \in S THEN 1 ELSE 0
<1> DEFINE t  == Tail(s)
           Is == { i \in 1 .. Len(s) : s[i] \in S }
           It == { i \in 1 .. Len(t) : t[i] \in S }
           Up == { i \in 2 .. Len(s) : s[i] \in S }
<1>1. /\ t \in Seq(T) /\ Len(t) = Len(s) - 1 /\ Len(s) \in Nat \ {0}
      /\ \A i \in 1 .. Len(t) : t[i] = s[i + 1]
      /\ Head(s) = s[1]
  OBVIOUS
<1>2. IsFiniteSet(It)
  BY <1>1, CountType
<1>3. Cardinality(Up) = Cardinality(It)
  <2> DEFINE f == [i \in It |-> i + 1]
  <2>1. \A i \in It : f[i] \in Up
    BY <1>1
  <2>2. f \in [It -> Up]
    BY <2>1
  <2>3. ASSUME NEW i \in It, NEW j \in It, f[i] = f[j]
        PROVE  i = j
    BY <2>3
  <2>4. ASSUME NEW j \in Up
        PROVE  \E i \in It : f[i] = j
    <3>1. j - 1 \in It /\ (j - 1) + 1 = j
      BY <1>1
    <3>2. f[j - 1] = j
      BY <3>1
    <3> QED
      BY <3>1, <3>2
  <2>5. f \in Bijection(It, Up)
    BY <2>2, <2>3, <2>4, Fun_IsBij
  <2>6. ExistsBijection(It, Up)
    BY <2>5 DEF ExistsBijection
  <2> QED
    BY <1>2, <2>6, FS_Bijection
<1>4. IsFiniteSet(Is) /\ IsFiniteSet(Up)
  <2>1. IsFiniteSet(Is)
    BY CountType
  <2>2. Up \subseteq Is
    BY <1>1
  <2> QED
    BY <2>1, <2>2, FS_Subset
<1>5. Is = (IF Head(s) \in S THEN Up \cup {1} ELSE Up) /\ 1 \notin Up
  BY <1>1
<1>6. Cardinality(Up \cup {1}) = Cardinality(Up) + 1
  BY <1>4, <1>5, FS_AddElement
<1>7. Count(s, S) = Cardinality(Is) /\ Count(t, S) = Cardinality(It)
  BY DEF Count
<1>8. Count(s, S) \in Nat /\ Count(t, S) \in Nat
  BY <1>1, CountType
<1> HIDE DEF Is, It, Up, t
<1>9. Count(t, S) = Count(s, S) - IF Head(s) \in S THEN 1 ELSE 0
  BY <1>3, <1>5, <1>6, <1>7, <1>8
<1> QED
  BY <1>9 DEF t

-----------------------------------------------------------------------------
(* What a step of the server does to the counts.                           *)

(* A packet of the server's is an acknowledgement, a stop or an answer. *)
LEMMA PacketKinds ==
  ASSUME NEW p \in Packet
  PROVE  /\ p \in Acks \/ p \in Stops \/ p \in Answers
         /\ ~(p \in Acks /\ p \in Stops)
         /\ ~(p \in Acks /\ p \in Answers)
         /\ ~(p \in Stops /\ p \in Answers)
  BY DEF Acks, Stops, Answers, Packet, ReplyKinds

LEMMA AckedCounts ==
  ASSUME s2c \in Seq(Packet), noAckMode \in BOOLEAN
  PROVE  /\ Count(Acked, Answers) = Count(s2c, Answers)
         /\ Count(Acked, Stops) = Count(s2c, Stops)
         /\ Count(Acked, Acks) = Count(s2c, Acks) + IF noAckMode THEN 0 ELSE 1
<1>1. Ack \in Packet /\ Ack \in Acks /\ Ack \notin Answers /\ Ack \notin Stops
  BY AckType, PacketKinds DEF Ack, Acks
<1>2. /\ Count(s2c, Acks) \in Nat /\ Count(s2c, Answers) \in Nat /\ Count(s2c, Stops) \in Nat
  BY CountType
<1>3. /\ Count(Append(s2c, Ack), Answers) = Count(s2c, Answers)
      /\ Count(Append(s2c, Ack), Stops) = Count(s2c, Stops)
      /\ Count(Append(s2c, Ack), Acks) = Count(s2c, Acks) + 1
  BY <1>1, <1>2, CountAppend
<1> QED
  BY <1>2, <1>3 DEF Acked

LEMMA AnswerCounts ==
  ASSUME NEW s \in Seq(Packet), NEW kind \in ReplyKinds, NEW val \in Nat, NEW m \in Message
  PROVE  LET t == Append(s, Answer(kind, val, m))
         IN  /\ Count(t, Answers) = Count(s, Answers) + 1
             /\ Count(t, Stops) = Count(s, Stops)
             /\ Count(t, Acks) = Count(s, Acks)
<1>1. Answer(kind, val, m) \in Packet
  BY AnswerType
<1>2. Answer(kind, val, m) \in Answers
  BY <1>1 DEF Answer, Answers
<1>3. Answer(kind, val, m) \notin Stops /\ Answer(kind, val, m) \notin Acks
  BY <1>1, <1>2, PacketKinds
<1>4. Count(s, Acks) \in Nat /\ Count(s, Answers) \in Nat /\ Count(s, Stops) \in Nat
  BY CountType
<1> QED
  BY <1>1, <1>2, <1>3, <1>4, CountAppend

LEMMA StoppedCounts ==
  ASSUME NEW s \in Seq(Packet), NEW sig \in Nat
  PROVE  LET t == Append(s, Stopped(sig))
         IN  /\ Count(t, Answers) = Count(s, Answers)
             /\ Count(t, Acks) = Count(s, Acks)
<1>1. Stopped(sig) \in Packet
  BY StoppedType
<1>2. Stopped(sig) \in Stops
  BY <1>1 DEF Stopped, Stops
<1>3. Stopped(sig) \notin Answers /\ Stopped(sig) \notin Acks
  BY <1>1, <1>2, PacketKinds
<1>4. Count(s, Acks) \in Nat /\ Count(s, Answers) \in Nat
  BY CountType
<1> QED
  BY <1>1, <1>3, <1>4, CountAppend

(* The ways a step of the server touches the wire. *)
Silent == UNCHANGED <<c2s, s2c, noAckMode>>

TakesAck ==
  /\ srv = "handle" /\ ~Asks(Head(c2s))
  /\ c2s' = Tail(c2s)
  /\ UNCHANGED s2c

Replies ==
  /\ srv = "handle" /\ Asks(Head(c2s))
  /\ c2s' = Tail(c2s)
  /\ Count(s2c', Answers) = Count(s2c, Answers) + 1
  /\ Count(s2c', Acks) = Count(s2c, Acks) + IF noAckMode THEN 0 ELSE 1
  /\ Head(c2s).op # "vCtrlC" => Count(s2c', Stops) = Count(s2c, Stops)

Dies ==
  /\ srv = "handle" /\ Asks(Head(c2s))
  /\ c2s' = Tail(c2s)
  /\ srv' = "closed"
  /\ Head(c2s).op \in {"raising", "p"}
  /\ Count(s2c', Answers) = Count(s2c, Answers)
  /\ Count(s2c', Acks) = Count(s2c, Acks) + IF noAckMode THEN 0 ELSE 1

Reports ==
  /\ srv = "exec"
  /\ UNCHANGED c2s
  /\ Count(s2c', Answers) = Count(s2c, Answers)
  /\ Count(s2c', Acks) = Count(s2c, Acks)

LEMMA ReplyEffect ==
  ASSUME ServerTypeOK, srv = "handle", Asks(Head(c2s)),
         NEW kind \in ReplyKinds, NEW val \in Nat, Reply(kind, val)
  PROVE  Replies
<1>1. s2c \in Seq(Packet) /\ noAckMode \in BOOLEAN /\ Head(c2s) \in Message
  BY HandledPacket DEF ServerTypeOK, WireTypeOK
<1>2. Acked \in Seq(Packet)
  BY <1>1, AckedType
<1>3. s2c' = Append(Acked, Answer(kind, val, Head(c2s))) /\ c2s' = Tail(c2s)
  BY DEF Reply, AfterPacket
<1> QED
  BY <1>1, <1>2, <1>3, AckedCounts, AnswerCounts DEF Replies

LEMMA HandleEffect ==
  ASSUME ServerTypeOK, ClientSends, Handle
  PROVE  TakesAck \/ Replies \/ Dies
<1> USE DEF Handling, Asks
<1>0. srv = "handle"
  BY DEF Handle, HandleAck, HandleHaltReason, HandleQuery, HandleEmpty, HandleStartNoAckMode,
         HandleInterrupt, HandleStep, HandleContinue, HandleAddBreakpoint, HandleRemoveBreakpoint,
         HandleReadRegisters, HandleReadRegister, HandleRaises
<1>t. /\ s2c \in Seq(Packet) /\ noAckMode \in BOOLEAN
      /\ Head(c2s) \in Message /\ Acked \in Seq(Packet)
  BY <1>0, HandledPacket, AckedType DEF ServerTypeOK, WireTypeOK
<1>1. CASE HandleAck
  BY <1>1 DEF HandleAck, AfterPacket, TakesAck
<1>2. CASE HandleHaltReason
  <2>1. c2s \in Seq(Message) /\ Len(c2s) > 0 /\ Head(c2s) = c2s[1]
    BY <1>0 DEF ServerTypeOK, WireTypeOK
  <2>2. Head(c2s).op \in ClientOps
    BY <2>1 DEF ClientSends
  <2> QED
    BY <1>2, <2>2 DEF HandleHaltReason, ClientOps
<1>3. CASE HandleQuery
  BY <1>3, ReplyEffect DEF HandleQuery, Queries, ReplyKinds
<1>4. CASE HandleEmpty
  BY <1>4, ReplyEffect DEF HandleEmpty, ReplyKinds
<1>5. CASE HandleStartNoAckMode
  BY <1>5, ReplyEffect DEF HandleStartNoAckMode, ReplyKinds
<1>6. CASE HandleInterrupt
  <2> DEFINE s == Append(Acked, Answer("ok", 0, Head(c2s)))
  <2>1. /\ s2c' = Append(s, Stopped(INT))
        /\ c2s' = Tail(c2s)
        /\ Head(c2s).op = "vCtrlC"
    BY <1>6 DEF HandleInterrupt, AfterPacket
  <2>2. Answer("ok", 0, Head(c2s)) \in Packet
    BY <1>t, AnswerType DEF ReplyKinds
  <2>3. s \in Seq(Packet)
    BY <1>t, <2>2
  <2>4. /\ Count(s, Answers) = Count(s2c, Answers) + 1
        /\ Count(s, Acks) = Count(s2c, Acks) + IF noAckMode THEN 0 ELSE 1
    BY <1>t, AckedCounts, AnswerCounts DEF ReplyKinds
  <2> HIDE DEF s
  <2>5. Count(s2c', Answers) = Count(s, Answers) /\ Count(s2c', Acks) = Count(s, Acks)
    BY <2>1, <2>3, StoppedCounts DEF INT
  <2> QED
    BY <1>0, <2>1, <2>4, <2>5 DEF Replies
<1>7. CASE HandleStep
  BY <1>7, ReplyEffect DEF HandleStep, ReplyKinds
<1>8. CASE HandleContinue
  BY <1>8, ReplyEffect DEF HandleContinue, ReplyKinds
<1>9. CASE HandleAddBreakpoint
  BY <1>9, ReplyEffect DEF HandleAddBreakpoint, ReplyKinds
<1>10. CASE HandleRemoveBreakpoint
  <2>1. (IF Head(c2s).arg \in breakpoints THEN "ok" ELSE "error") \in ReplyKinds
    BY DEF ReplyKinds
  <2> QED
    BY <1>10, <2>1, ReplyEffect DEF HandleRemoveBreakpoint
<1>11. CASE HandleReadRegisters
  <2>1. (IF instr = NoLine THEN 0 ELSE AddrOf(instr)) \in Nat
    BY AddressType
  <2> QED
    BY <1>11, <2>1, ReplyEffect DEF HandleReadRegisters, ReplyKinds
<1>12. CASE HandleReadRegister
  <2>1. PICK val \in RegisterReply(Head(c2s).arg) : Reply("hex", val)
    BY <1>12 DEF HandleReadRegister
  <2>2. val \in Nat
    BY <2>1, AddressType, HandlerAssumption DEF RegisterReply
  <2> QED
    BY <1>12, <2>1, <2>2, ReplyEffect DEF HandleReadRegister, ReplyKinds
<1>13. CASE HandleRaises
  BY <1>13, <1>t, AckedCounts DEF HandleRaises, Raising, Dies
<1> QED
  BY <1>1, <1>2, <1>3, <1>4, <1>5, <1>6, <1>7, <1>8, <1>9, <1>10, <1>11, <1>12, <1>13 DEF Handle

LEMMA ServerEffect ==
  ASSUME ServerTypeOK, ClientSends, ServerNext
  PROVE  Silent \/ TakesAck \/ Replies \/ Dies \/ Reports
<1>1. CASE Handle
  BY <1>1, HandleEffect
<1>2. CASE Execute
  <2>1. ASSUME NEW sig \in Nat, ReportStop(sig)
        PROVE  /\ Count(s2c', Answers) = Count(s2c, Answers)
               /\ Count(s2c', Acks) = Count(s2c, Acks)
    BY <2>1, StoppedCounts DEF ReportStop, ServerTypeOK, WireTypeOK
  <2>2. CASE ExecLimitReached
    BY <2>1, <2>2 DEF ExecLimitReached, Reports, TRAP
  <2>3. CASE ExecEntryBreak
    BY <2>1, <2>3 DEF ExecEntryBreak, MayRun, Reports, TRAP
  <2>4. CASE ExecInstr
    BY <2>1, <2>4 DEF ExecInstr, MayRun, Reports, Silent, TRAP
  <2>5. CASE ExecRaises
    BY <2>1, <2>5 DEF ExecRaises, Reports, SIGKILL
  <2> QED
    BY <1>2, <2>2, <2>3, <2>4, <2>5 DEF Execute
<1> QED
  BY <1>1, <1>2
     DEF ServerNext, ServerAccept, ServerRecv, ServerNoInput, ServerLosesPeer, Silent, wireVars

-----------------------------------------------------------------------------
(* A step of the server keeps the accounting.                              *)

(* What a step of the server does to its own modes. *)
LEMMA ServerModes ==
  ASSUME ServerTypeOK, LoopShape, ServerNext
  PROVE  /\ cliOpen' = cliOpen
         /\ srv # "closed" /\ srv' # "listen"
         /\ srv' = "exec" => ~exeStopped'
         /\ noAckMode => noAckMode'
         /\ srv = "handle" /\ srv' # "closed"
              => noAckMode' = (noAckMode \/ Head(c2s).op = "QStartNoAckMode")
         /\ \/ exeStopped' = exeStopped
            \/ exeStopped'
            \/ srv = "handle" /\ Head(c2s).op \in {"c", "s"}
         /\ srv' = "closed" => ~cliOpen \/ srv = "exec" \/ (srv = "handle" /\ Raising(Head(c2s)))
         /\ srv = "listen" => UNCHANGED <<c2s, s2c>>
<1> USE DEF LoopShape, ServerTypeOK
<1>1. CASE Handle
  BY <1>1
     DEF Handle, Handling, Reply, AfterPacket, Queries, Raising, HandleAck, HandleHaltReason,
         HandleQuery, HandleEmpty, HandleStartNoAckMode, HandleInterrupt, HandleStep,
         HandleContinue, HandleAddBreakpoint, HandleRemoveBreakpoint, HandleReadRegisters,
         HandleReadRegister, HandleRaises
<1>2. CASE Execute
  BY <1>2
     DEF Execute, ReportStop, MayRun, ExecLimitReached, ExecEntryBreak, ExecInstr, ExecRaises
<1> QED
  BY <1>1, <1>2
     DEF ServerNext, ServerAccept, ServerRecv, ServerNoInput, ServerLosesPeer, wireVars

(* What handling a packet does to the count of requests. *)
LEMMA HandledCount ==
  ASSUME ServerTypeOK, srv = "handle", c2s' = Tail(c2s)
  PROVE  /\ Count(c2s', Requests) = Count(c2s, Requests) - IF Asks(Head(c2s)) THEN 1 ELSE 0
         /\ \A i \in 1 .. Len(c2s') : \E j \in 1 .. Len(c2s) : c2s'[i] = c2s[j]
         /\ Head(c2s) = c2s[1] /\ 1 \in 1 .. Len(c2s)
<1>1. c2s \in Seq(Message) /\ c2s # <<>> /\ Head(c2s) \in Message
  BY HandledPacket DEF ServerTypeOK, WireTypeOK
<1>2. Head(c2s) \in Requests <=> Asks(Head(c2s))
  BY <1>1 DEF Requests
<1>3. Len(c2s) \in Nat \ {0} /\ Len(Tail(c2s)) = Len(c2s) - 1
  BY <1>1
<1>4. ASSUME NEW i \in 1 .. Len(c2s')
      PROVE  i + 1 \in 1 .. Len(c2s) /\ c2s'[i] = c2s[i + 1]
  BY <1>1, <1>3
<1>5. \A i \in 1 .. Len(c2s') : \E j \in 1 .. Len(c2s) : c2s'[i] = c2s[j]
  BY <1>4
<1>6. Head(c2s) = c2s[1] /\ 1 \in 1 .. Len(c2s)
  BY <1>1, <1>3
<1> QED
  BY <1>1, <1>2, <1>5, <1>6, CountTail

LEMMA CountsAreNaturals ==
  ASSUME WireTypeOK
  PROVE  /\ Count(c2s, Requests) \in Nat
         /\ Count(s2c, Answers) \in Nat
         /\ Count(s2c, Acks) \in Nat
         /\ Count(s2c, Stops) \in Nat
  BY CountType DEF WireTypeOK

LEMMA ServerKeepsAccounting ==
  ASSUME SessionTypeOK, Accounting, ServerNext, UNCHANGED clientVars
  PROVE  Accounting'
<1> USE DEF Accounting
<1>0. ServerTypeOK
  BY DEF SessionTypeOK
<1>e. Silent \/ TakesAck \/ Replies \/ Dies \/ Reports
  BY <1>0, ServerEffect
<1>w. \/ UNCHANGED c2s
      \/ srv = "handle" /\ c2s' = Tail(c2s)
  BY <1>e DEF Silent, TakesAck, Replies, Dies, Reports
<1>n. /\ Count(c2s, Requests) \in Nat /\ Count(s2c, Answers) \in Nat
      /\ Count(s2c, Acks) \in Nat /\ Count(s2c, Stops) \in Nat
  BY <1>0, CountsAreNaturals DEF ServerTypeOK
<1>f. frames \in Seq(Frame) /\ Len(frames) \in Nat /\ noAckMode \in BOOLEAN
  BY DEF SessionTypeOK, ServerTypeOK
<1>1. ClientSends'
  BY <1>0, <1>w, HandledCount DEF ClientSends
<1>2. PendingInsert' /\ NoStrayPacket'
  BY DEF PendingInsert, NoStrayPacket, clientVars
<1>3. StackShape'
  BY <1>0, ServerModes DEF StackShape, Gone, clientVars
<1>4. LoopShape'
  BY <1>0, ServerModes DEF LoopShape
<1>5. ReplyDebt'
  <2> SUFFICES ASSUME cliOpen
               PROVE  /\ Count(c2s', Requests) + Count(s2c', Answers) <= Len(frames)
                      /\ srv' # "closed" => Count(c2s', Requests) + Count(s2c', Answers) = Len(frames)
    BY <1>0, ServerModes DEF ReplyDebt, clientVars
  <2>1. Count(c2s, Requests) + Count(s2c, Answers) = Len(frames)
    BY <1>0, ServerModes DEF ReplyDebt
  <2>2. CASE Silent
    BY <2>1, <2>2, <1>n DEF Silent
  <2>3. CASE TakesAck
    BY <2>1, <2>3, <1>0, <1>n, HandledCount DEF TakesAck
  <2>4. CASE Replies
    BY <2>1, <2>4, <1>0, <1>n, HandledCount DEF Replies
  <2>5. CASE Dies
    BY <2>1, <2>5, <1>0, <1>n, <1>f, HandledCount DEF Dies
  <2>6. CASE Reports
    BY <2>1, <2>6, <1>n DEF Reports
  <2> QED
    BY <1>e, <2>2, <2>3, <2>4, <2>5, <2>6
<1>6. AckFree'
  <2> SUFFICES ASSUME cliOpen, ~Connecting
               PROVE  noAckMode' /\ Count(s2c', Acks) = 0
    BY <1>0, ServerModes DEF AckFree, Connecting, clientVars
  <2>1. noAckMode /\ Count(s2c, Acks) = 0
    BY DEF AckFree
  <2>2. Count(s2c, Acks) + (IF noAckMode THEN 0 ELSE 1) = 0
    BY <2>1
  <2>3. Count(s2c', Acks) = 0
    BY <1>e, <2>1, <2>2 DEF Silent, TakesAck, Replies, Dies, Reports
  <2> QED
    BY <1>0, <2>1, <2>3, ServerModes
<1>7. Handshake'
  <2> SUFFICES ASSUME Connecting
               PROVE  Handshake'
    BY DEF Handshake, Connecting, clientVars
  <2>1. /\ Len(frames) = 1
        /\ Asked.op \in {"qSupported", "vMustReplyEmpty", "QStartNoAckMode"}
        /\ srv # "closed" /\ exeStopped
        /\ Count(s2c, Stops) = 0
        /\ \A i \in 1 .. Len(c2s) : Asks(c2s[i]) => c2s[i] = Asked
        /\ noAckMode <=> Asked.op = "QStartNoAckMode" /\ Count(c2s, Requests) = 0
        /\ IF Head(frames).role = "ack"
           THEN Count(s2c, Acks) = Count(s2c, Answers)
           ELSE Count(s2c, Acks) = 0 /\ Count(c2s, Requests) = 0
    BY DEF Handshake
  <2>2. cliOpen
    <3>1. frames # <<>>
      BY <1>f, <2>1, NotEmpty
    <3> QED
      BY <3>1 DEF StackShape
  <2>3. srv # "exec" /\ ~Dies /\ ~Reports
    <3>1. srv # "exec"
      BY <2>1 DEF LoopShape
    <3>2. ~Dies
      BY <1>0, <2>1, HandledCount DEF Dies
    <3> QED
      BY <3>1, <3>2 DEF Reports
  <2>4. ASSUME srv = "handle", c2s' = Tail(c2s), Asks(Head(c2s))
        PROVE  Head(c2s) = Asked
    BY <1>0, <2>1, <2>4, HandledCount
  <2>5. srv' # "closed"
    <3>1. ASSUME srv = "handle", Raising(Head(c2s)), srv' = "closed"
          PROVE  FALSE
      <4>1. Head(c2s) = c2s[1] /\ 1 \in 1 .. Len(c2s)
        BY <1>0, <3>1 DEF ServerTypeOK, WireTypeOK
      <4>2. Asks(Head(c2s))
        BY <3>1 DEF Raising, Asks
      <4> QED
        BY <3>1, <4>1, <4>2, <2>1 DEF Raising
    <3> QED
      BY <1>0, <2>2, <2>3, <3>1, ServerModes
  <2>6. exeStopped'
    <3>1. ASSUME srv = "handle", Head(c2s).op \in {"c", "s"}
          PROVE  FALSE
      <4>1. Head(c2s) = c2s[1] /\ 1 \in 1 .. Len(c2s)
        BY <1>0, <3>1 DEF ServerTypeOK, WireTypeOK
      <4>2. Asks(Head(c2s))
        BY <3>1 DEF Asks
      <4> QED
        BY <3>1, <4>1, <4>2, <2>1
    <3> QED
      BY <1>0, <2>1, <3>1, ServerModes
  <2>7. \A i \in 1 .. Len(c2s') : Asks(c2s'[i]) => c2s'[i] = Asked
    BY <1>0, <1>w, <2>1, HandledCount
  <2>8. Asked' = Asked /\ frames' = frames
    BY DEF Asked, clientVars
  <2>9. /\ Count(s2c', Stops) = 0
        /\ noAckMode' <=> Asked.op = "QStartNoAckMode" /\ Count(c2s', Requests) = 0
        /\ IF Head(frames).role = "ack"
           THEN Count(s2c', Acks) = Count(s2c', Answers)
           ELSE Count(s2c', Acks) = 0 /\ Count(c2s', Requests) = 0
    <3>1. CASE Silent
      BY <3>1, <2>1 DEF Silent
    <3>2. CASE TakesAck
      <4>1. Count(c2s', Requests) = Count(c2s, Requests)
        BY <3>2, <1>0, <1>n, HandledCount DEF TakesAck
      <4>2. noAckMode' = noAckMode
        BY <3>2, <2>5, <1>0, <1>f, ServerModes DEF TakesAck, Asks
      <4> QED
        BY <3>2, <4>1, <4>2, <2>1 DEF TakesAck
    <3>3. CASE Replies
      <4>1. Head(c2s) = Asked
        BY <3>3, <2>4 DEF Replies
      <4>2. Count(c2s, Requests) + Count(s2c, Answers) = 1
        BY <2>1, <2>2 DEF ReplyDebt
      <4>3. Count(c2s', Requests) = Count(c2s, Requests) - 1
        BY <3>3, <1>0, HandledCount DEF Replies
      <4>4. Count(c2s', Requests) \in Nat
        <5>1. c2s' \in Seq(Message)
          BY <3>3, <1>0, HandledPacket DEF Replies
        <5> QED
          BY <5>1, CountType
      <4>5. /\ Count(c2s, Requests) = 1 /\ Count(c2s', Requests) = 0
            /\ Count(s2c, Answers) = 0 /\ Count(s2c', Answers) = 1
        BY <3>3, <4>2, <4>3, <4>4, <1>n DEF Replies
      <4>6. ~noAckMode /\ Head(frames).role = "ack" /\ Count(s2c, Acks) = 0
        BY <4>5, <2>1
      <4>7. Count(s2c', Acks) = 1
        BY <3>3, <4>6 DEF Replies
      <4>8. noAckMode' <=> Asked.op = "QStartNoAckMode"
        BY <3>3, <4>1, <4>6, <2>5, <1>0, ServerModes DEF Replies
      <4>9. Count(s2c', Stops) = 0
        BY <3>3, <4>1, <2>1 DEF Replies
      <4> QED
        BY <4>5, <4>6, <4>7, <4>8, <4>9
    <3> QED
      BY <1>e, <2>3, <3>1, <3>2, <3>3
  <2> QED
    BY <2>1, <2>5, <2>6, <2>7, <2>8, <2>9 DEF Handshake
<1> QED
  BY <1>1, <1>2, <1>3, <1>4, <1>5, <1>6, <1>7

-----------------------------------------------------------------------------
(* The stack of calls and the packet at hand.                              *)

LEMMA TopOfStack ==
  ASSUME SessionTypeOK, Accounting, frames # <<>>
  PROVE  /\ Head(frames) \in Frame /\ Head(frames) = frames[1] /\ 1 \in 1 .. Len(frames)
         /\ Tail(frames) \in Seq(Frame) /\ Len(Tail(frames)) = Len(frames) - 1
         /\ \A i \in 1 .. Len(Tail(frames)) : Tail(frames)[i] = frames[i + 1]
         /\ Connecting <=> Head(frames).role \in {"ack", "connect"}
         /\ Head(frames).role # "stop" => Len(frames) = 1 /\ cli = "command"
<1>1. frames \in Seq(Frame)
  BY DEF SessionTypeOK
<1>2. /\ Head(frames) \in Frame /\ Head(frames) = frames[1] /\ 1 \in 1 .. Len(frames)
      /\ Tail(frames) \in Seq(Frame) /\ Len(Tail(frames)) = Len(frames) - 1
      /\ \A i \in 1 .. Len(Tail(frames)) : Tail(frames)[i] = frames[i + 1]
  BY <1>1
<1>3. ASSUME Connecting
      PROVE  Head(frames).role \in {"ack", "connect"}
  <2>1. Len(frames) = 1
    BY <1>3 DEF Accounting, Handshake
  <2> QED
    BY <1>2, <1>3, <2>1 DEF Connecting
<1>4. Head(frames).role \in {"ack", "connect"} => Connecting
  BY <1>2 DEF Connecting
<1>5. Head(frames).role # "stop" => Len(frames) = 1 /\ cli = "command"
  BY <1>2 DEF Accounting, StackShape
<1> QED
  BY <1>2, <1>3, <1>4, <1>5

LEMMA NoFrames ==
  ASSUME NEW s, s = <<>>
  PROVE  Len(s) = 0
<1>1. Len(<<>>) = 0
  OBVIOUS
<1> QED
  BY <1>1, Zenon

(* A single frame, as a sequence. *)
LEMMA OneFrame ==
  ASSUME NEW f \in Frame
  PROVE  /\ <<f>> \in Seq(Frame) /\ Len(<<f>>) = 1 /\ <<f>>[1] = f /\ Head(<<f>>) = f
         /\ \A g \in Seq(Frame) :
              /\ <<f>> \o g \in Seq(Frame)
              /\ Len(<<f>> \o g) = Len(g) + 1
              /\ (<<f>> \o g)[1] = f
              /\ \A i \in 1 .. Len(g) : (<<f>> \o g)[i + 1] = g[i]
  OBVIOUS

(* A packet is taken from the wire. *)
LEMMA FromWireTakes ==
  ASSUME SessionTypeOK, s2c # <<>>, FromWire
  PROVE  /\ s2c' = Tail(s2c) /\ s2c' \in Seq(Packet)
         /\ buffered' \in 0 .. Len(s2c')
         /\ Head(s2c) \in Packet
<1>1. s2c \in Seq(Packet) /\ buffered \in 0 .. Len(s2c)
  BY DEF SessionTypeOK, ServerTypeOK, WireTypeOK
<1>2. /\ Head(s2c) \in Packet /\ Tail(s2c) \in Seq(Packet)
      /\ Len(Tail(s2c)) = Len(s2c) - 1 /\ Len(s2c) \in Nat \ {0}
  BY <1>1
<1>3. s2c' = Tail(s2c)
  BY DEF FromWire
<1>4. CASE buffered > 0
  BY <1>1, <1>2, <1>3, <1>4 DEF FromWire
<1>5. CASE ~(buffered > 0)
  <2>1. PICK n \in 1 .. Len(s2c) : buffered' = n - 1
    BY <1>5 DEF FromWire
  <2> QED
    BY <1>2, <1>3, <2>1
<1> QED
  BY <1>2, <1>3, <1>4, <1>5

(* Nothing has been pushed back, so receivePkt takes it from the wire. *)
LEMMA ReceiveTakes ==
  ASSUME SessionTypeOK, NoStrayPacket, Receive
  PROVE  s2c # <<>> /\ FromWire /\ pushed' = pushed /\ Incoming = Head(s2c)
  BY DEF NoStrayPacket, Receive, Readable, Incoming

LEMMA TakenCounts ==
  ASSUME s2c \in Seq(Packet), s2c # <<>>, s2c' = Tail(s2c)
  PROVE  /\ Head(s2c) \in Packet
         /\ Count(s2c', Acks) = Count(s2c, Acks) - IF Head(s2c) \in Acks THEN 1 ELSE 0
         /\ Count(s2c', Stops) = Count(s2c, Stops) - IF Head(s2c) \in Stops THEN 1 ELSE 0
         /\ Count(s2c', Answers) = Count(s2c, Answers) - IF Head(s2c) \in Answers THEN 1 ELSE 0
         /\ Count(s2c, Acks) \in Nat /\ Count(s2c', Acks) \in Nat
         /\ Count(s2c, Stops) \in Nat /\ Count(s2c', Stops) \in Nat
         /\ Count(s2c, Answers) \in Nat /\ Count(s2c', Answers) \in Nat
         /\ Count(s2c, Stops) = 0 => Count(s2c', Stops) = 0
<1>1. Tail(s2c) \in Seq(Packet) /\ Head(s2c) \in Packet
  OBVIOUS
<1>2. /\ Count(s2c', Acks) = Count(s2c, Acks) - IF Head(s2c) \in Acks THEN 1 ELSE 0
      /\ Count(s2c', Stops) = Count(s2c, Stops) - IF Head(s2c) \in Stops THEN 1 ELSE 0
      /\ Count(s2c', Answers) = Count(s2c, Answers) - IF Head(s2c) \in Answers THEN 1 ELSE 0
      /\ Count(s2c, Acks) \in Nat /\ Count(s2c', Acks) \in Nat
      /\ Count(s2c, Stops) \in Nat /\ Count(s2c', Stops) \in Nat
      /\ Count(s2c, Answers) \in Nat /\ Count(s2c', Answers) \in Nat
  BY <1>1, CountTail, CountType
<1>3. Count(s2c, Stops) = 0 => Count(s2c', Stops) = 0
  BY <1>2
<1> QED
  BY <1>1, <1>2, <1>3

(* A request sent. *)
LEMMA SentCounts ==
  ASSUME c2s \in Seq(Message), NEW m \in Message, c2s' = Append(c2s, m), Asks(m)
  PROVE  /\ c2s' \in Seq(Message) /\ Len(c2s') = Len(c2s) + 1
         /\ Count(c2s', Requests) = Count(c2s, Requests) + 1
         /\ Count(c2s, Requests) \in Nat
         /\ m.op \in ClientOps /\ ClientSends => ClientSends'
<1>1. m \in Requests
  BY DEF Requests
<1>2. Count(c2s', Requests) = Count(c2s, Requests) + 1
  BY <1>1, CountAppend
<1>3. c2s' \in Seq(Message) /\ Len(c2s') = Len(c2s) + 1
  OBVIOUS
<1>4. m.op \in ClientOps /\ ClientSends => ClientSends'
  <2> SUFFICES ASSUME m.op \in ClientOps, ClientSends, NEW i \in 1 .. Len(c2s')
               PROVE  c2s'[i].op \in ClientOps
    BY DEF ClientSends
  <2>1. c2s'[i] = IF i = Len(c2s) + 1 THEN m ELSE c2s[i]
    BY <1>3
  <2> QED
    BY <1>3, <2>1 DEF ClientSends
<1> QED
  BY <1>2, <1>3, <1>4, CountType

-----------------------------------------------------------------------------
(* Type correctness.                                                       *)

LEMMA ClientKeepsServerType ==
  ASSUME ServerTypeOK, UNCHANGED serverVars,
         c2s' \in Seq(Message), Len(c2s') >= Len(c2s),
         s2c' \in Seq(Packet), cliOpen' \in BOOLEAN
  PROVE  ServerTypeOK'
  BY DEF ServerTypeOK, WireTypeOK, serverVars

LEMMA AddressOfLine ==
  ASSUME NEW line \in Lines
  PROVE  AddrOf(line) \in Nat /\ LineOf(AddrOf(line)) = line
  BY ProgramAssumption DEF AddrOf, LineOf

LEMMA RequestType ==
  ASSUME NEW op \in Ops, NEW arg \in Nat
  PROVE  /\ Request(op, arg) \in Message
         /\ \A role \in Roles : Waiting(role, Request(op, arg)) \in Frame
  BY DEF Request, Message, Waiting, Frame

LEMMA PositionType ==
  /\ Request("p", 0) \in Message
  /\ Waiting("stop", Request("p", 0)) \in Frame
  /\ Asks(Request("p", 0))
  BY RequestType DEF Ops, Roles, Asks, Request

(* Every command sends a well-formed request and waits with it. *)
LEMMA CommandCalls ==
  ASSUME SessionTypeOK, Command
  PROVE  \E role \in Roles \ {"stop"}, m \in Message :
           /\ Call(role, m)
           /\ Asks(m) /\ m.op \in ClientOps
           /\ m.op = "Z" => bkNext < MaxBreaks /\ LineOf(m.arg) \in Lines
           /\ \/ TargetSelect /\ role = "ack" /\ m = Request("qSupported", 0)
              \/ UNCHANGED <<cliOpen, remote>> /\ remote /\ role \notin {"ack", "connect"}
           /\ table' \in [Numbers -> Lines \cup {NoLine}]
<1> USE DEF SessionTypeOK
<1>1. CASE TargetSelect
  <2>1. Request("qSupported", 0) \in Message
    BY RequestType DEF Ops
  <2> QED
    BY <1>1, <2>1 DEF TargetSelect, Roles, Asks, Request, ClientOps
<1>2. CASE ExecCommand
  <2>1. PICK op \in {"c", "s", "vCtrlC"} :
          Sends(op) /\ Call("ok", Request(op, 0)) /\ UNCHANGED table
    BY <1>2 DEF ExecCommand
  <2>2. Request(op, 0) \in Message
    BY RequestType DEF Ops
  <2> QED
    BY <2>1, <2>2 DEF Sends, Roles, Asks, Request, ClientOps
<1>3. CASE ReadCommand
  <2>1. PICK r \in {0} \cup ReadIdx :
          Sends("p") /\ Call("read", Request("p", r)) /\ UNCHANGED table
    BY <1>3 DEF ReadCommand
  <2>2. Request("p", r) \in Message
    BY RequestType, FrontEndAssumption DEF Ops
  <2> QED
    BY <2>1, <2>2 DEF Sends, Roles, Asks, Request, ClientOps
<1>4. CASE ListValues
  <2>1. Request("p", 1) \in Message
    BY RequestType DEF Ops
  <2> QED
    BY <1>4, <2>1 DEF ListValues, Sends, Roles, Asks, Request, ClientOps
<1>5. CASE BreakInsert
  <2>1. PICK line \in Lines :
          /\ bkNext < MaxBreaks
          /\ Sends("Z") /\ Call("ok", Request("Z", AddrOf(line))) /\ UNCHANGED table
    BY <1>5 DEF BreakInsert
  <2>2. Request("Z", AddrOf(line)) \in Message
    BY RequestType, AddressOfLine DEF Ops
  <2>3. LineOf(Request("Z", AddrOf(line)).arg) = line
    BY AddressOfLine DEF Request
  <2> QED
    BY <2>1, <2>2, <2>3 DEF Sends, Roles, Asks, Request, ClientOps
<1>6. CASE BreakDelete
  <2>1. PICK n \in Numbers :
          /\ table[n] # NoLine
          /\ table' = [table EXCEPT ![n] = NoLine]
          /\ Sends("z") /\ Call("ok", Request("z", AddrOf(table[n])))
    BY <1>6 DEF BreakDelete
  <2>2. Request("z", AddrOf(table[n])) \in Message
    BY <2>1, RequestType, AddressOfLine DEF Ops
  <2> QED
    BY <2>1, <2>2 DEF Sends, Roles, Asks, Request, ClientOps
<1> QED
  BY <1>1, <1>2, <1>3, <1>4, <1>5, <1>6 DEF Command

LEMMA AskPositionType ==
  ASSUME SessionTypeOK, AskPosition
  PROVE  /\ c2s' \in Seq(Message) /\ Len(c2s') = Len(c2s) + 1
         /\ frames' \in Seq(Frame)
<1>1. c2s \in Seq(Message) /\ frames \in Seq(Frame)
  BY DEF SessionTypeOK, ServerTypeOK, WireTypeOK
<1>2. c2s' \in Seq(Message) /\ Len(c2s') = Len(c2s) + 1
  BY <1>1, PositionType DEF AskPosition
<1>3. frames' \in Seq(Frame)
  BY <1>1, PositionType, OneFrame DEF AskPosition
<1> QED
  BY <1>2, <1>3

(* What every step of the client owes the type invariant, once the server  *)
(* variables, the wire and the stack are seen to.                          *)
LEMMA SessionTypeFrom ==
  ASSUME SessionTypeOK, UNCHANGED serverVars,
         c2s' \in Seq(Message), Len(c2s') >= Len(c2s),
         s2c' \in Seq(Packet), cliOpen' \in BOOLEAN,
         cli' \in {"poll", "serve", "command", "dead", "exited"},
         remote' \in BOOLEAN, frames' \in Seq(Frame), buffered' \in 0 .. Len(s2c'),
         pushed' \in Seq(Packet), left' \in 0 .. Uis, ui' \in {"stopped", "running"},
         interrupted' \in BOOLEAN, shown' \in Nat \cup {NoLine},
         table' \in [Numbers -> Lines \cup {NoLine}], bkNext' \in 0 .. MaxBreaks
  PROVE  SessionTypeOK'
<1>1. ServerTypeOK'
  BY ClientKeepsServerType DEF SessionTypeOK
<1> QED
  BY <1>1 DEF SessionTypeOK, Numbers

LEMMA ClientStepType ==
  ASSUME SessionTypeOK, Accounting, LoopNext \/ Command \/ Recv
  PROVE  SessionTypeOK'
<1>t. /\ c2s \in Seq(Message) /\ Len(c2s) >= Len(c2s) /\ s2c \in Seq(Packet) /\ cliOpen \in BOOLEAN
      /\ cli \in {"poll", "serve", "command", "dead", "exited"}
      /\ remote \in BOOLEAN /\ frames \in Seq(Frame) /\ buffered \in 0 .. Len(s2c)
      /\ pushed \in Seq(Packet) /\ left \in 0 .. Uis /\ ui \in {"stopped", "running"}
      /\ interrupted \in BOOLEAN /\ shown \in Nat \cup {NoLine}
      /\ table \in [Numbers -> Lines \cup {NoLine}] /\ bkNext \in 0 .. MaxBreaks
      /\ Uis \in Nat /\ MaxBreaks \in Nat
  BY FrontEndAssumption DEF SessionTypeOK, ServerTypeOK, WireTypeOK
<1>n. NoStrayPacket
  BY DEF Accounting
<1>1. CASE PollNothing
  <2>1. left' \in 0 .. Uis /\ cli' = "serve"
    BY <1>1, <1>t DEF PollNothing, StartServing
  <2> QED
    BY <1>1, <1>t, <2>1, SessionTypeFrom DEF PollNothing, wireVars
<1>2. CASE PollPacket
  <2>1. /\ s2c' \in Seq(Packet) /\ buffered' \in 0 .. Len(s2c') /\ Head(s2c) \in Packet
    BY <1>2, FromWireTakes DEF PollPacket
  <2>2. UNCHANGED <<cliOpen, serverVars, remote, ui, interrupted, shown, table, bkNext>>
    BY <1>2 DEF PollPacket
  <2>3. CASE StopArrives
    <3>1. AskPosition /\ UNCHANGED <<cli, left, pushed>>
      BY <1>2, <2>3 DEF PollPacket
    <3>2. c2s' \in Seq(Message) /\ Len(c2s') >= Len(c2s) /\ frames' \in Seq(Frame)
      BY <1>t, <3>1, AskPositionType
    <3> QED
      BY <1>t, <2>1, <2>2, <3>1, <3>2, SessionTypeFrom
  <2>4. CASE ~StopArrives
    <3>1. pushed' = <<Head(s2c)>> /\ StartServing /\ UNCHANGED <<c2s, frames>>
      BY <1>2, <2>4 DEF PollPacket
    <3>2. pushed' \in Seq(Packet)
      BY <2>1, <3>1
    <3>3. left' \in 0 .. Uis /\ cli' = "serve"
      BY <1>t, <3>1 DEF StartServing
    <3> QED
      BY <1>t, <2>1, <2>2, <3>1, <3>2, <3>3, SessionTypeFrom
  <2> QED
    BY <2>3, <2>4
<1>3. CASE ServeDone
  BY <1>3, <1>t, SessionTypeFrom DEF ServeDone, wireVars
<1>4. CASE Exit
  BY <1>4, <1>t, SessionTypeFrom DEF Exit
<1>5. CASE Command
  <2>1. PICK role \in Roles \ {"stop"}, m \in Message :
          /\ Call(role, m)
          /\ TargetSelect \/ UNCHANGED <<cliOpen, remote>>
          /\ table' \in [Numbers -> Lines \cup {NoLine}]
    BY <1>5, CommandCalls
  <2>2. cliOpen' \in BOOLEAN /\ remote' \in BOOLEAN
    BY <1>t, <2>1 DEF TargetSelect
  <2>3. c2s' \in Seq(Message) /\ Len(c2s') >= Len(c2s)
    BY <1>t, <2>1 DEF Call
  <2>4. frames' \in Seq(Frame)
    <3>1. Waiting(role, m) \in Frame
      BY DEF Waiting, Frame
    <3> QED
      BY <2>1, <3>1, OneFrame DEF Call
  <2>5. left' \in 0 .. Uis /\ cli' = "command"
    BY <1>t, <2>1 DEF Call
  <2>6. UNCHANGED <<s2c, serverVars, buffered, pushed, ui, interrupted, shown, bkNext>>
    BY <2>1 DEF Call
  <2> QED
    BY <1>t, <2>1, <2>2, <2>3, <2>4, <2>5, <2>6, SessionTypeFrom
<1>6. ASSUME Receive
      PROVE  /\ s2c' \in Seq(Packet) /\ buffered' \in 0 .. Len(s2c')
             /\ pushed' \in Seq(Packet) /\ Incoming \in Packet
  BY <1>6, <1>t, <1>n, ReceiveTakes, FromWireTakes
<1>7. CASE RecvStop
  <2>1. /\ s2c' \in Seq(Packet) /\ buffered' \in 0 .. Len(s2c')
    BY <1>7, FromWireTakes DEF RecvStop, StopArrives
  <2>2. c2s' \in Seq(Message) /\ Len(c2s') >= Len(c2s) /\ frames' \in Seq(Frame)
    BY <1>7, <1>t, AskPositionType DEF RecvStop
  <2> QED
    BY <1>7, <1>t, <2>1, <2>2, SessionTypeFrom DEF RecvStop
<1>8. ASSUME frames # <<>>
      PROVE  /\ Asked \in Message /\ Tail(frames) \in Seq(Frame)
             /\ \A f \in Frame : <<f>> \o Tail(frames) \in Seq(Frame)
  <2>1. Head(frames) \in Frame /\ Tail(frames) \in Seq(Frame)
    BY <1>8, TopOfStack
  <2> QED
    BY <2>1, OneFrame DEF Asked, Frame
<1>9. CASE RecvAck
  <2>1. Receive /\ frames # <<>> /\ frames' = <<Waiting("connect", Asked)>> \o Tail(frames)
    BY <1>9 DEF RecvAck, Good, Takes
  <2>2. frames' \in Seq(Frame)
    <3>1. Waiting("connect", Asked) \in Frame
      BY <2>1, <1>8 DEF Waiting, Frame, Roles
    <3> QED
      BY <2>1, <1>8, <3>1
  <2> QED
    BY <1>9, <1>t, <1>6, <2>1, <2>2, SessionTypeFrom DEF RecvAck
<1>10. CASE RecvConnect
  <2>1. Receive /\ frames # <<>>
    BY <1>10 DEF RecvConnect, Good, Takes
  <2>2. /\ c2s' \in Seq(Message) /\ Len(c2s') >= Len(c2s)
        /\ frames' \in Seq(Frame) /\ cli' \in {cli, "serve"}
    <3>1. ASSUME NEW op \in {"qSupported", "vMustReplyEmpty", "QStartNoAckMode"}
          PROVE  Request(op, 0) \in Message /\ Waiting("ack", Request(op, 0)) \in Frame
      BY RequestType DEF Ops, Roles
    <3>2. ClientAck \in Message
      BY RequestType DEF ClientAck, Ops
    <3>3. CASE Asked.op = "qSupported"
      <4>1. /\ c2s' = Append(c2s, Request("vMustReplyEmpty", 0))
            /\ frames' = <<Waiting("ack", Request("vMustReplyEmpty", 0))>> \o Tail(frames)
            /\ cli' = cli
        BY <1>10, <3>3 DEF RecvConnect
      <4> QED
        BY <4>1, <3>1, <2>1, <1>8, <1>t
    <3>4. CASE Asked.op = "vMustReplyEmpty"
      <4>1. /\ c2s' = c2s \o <<ClientAck, Request("QStartNoAckMode", 0)>>
            /\ frames' = <<Waiting("ack", Request("QStartNoAckMode", 0))>> \o Tail(frames)
            /\ cli' = cli
        BY <1>10, <3>4 DEF RecvConnect
      <4> QED
        BY <4>1, <3>1, <3>2, <2>1, <1>8, <1>t
    <3>5. CASE Asked.op = "QStartNoAckMode"
      <4>1. c2s' = Append(c2s, ClientAck) /\ frames' = Tail(frames) /\ cli' = "serve"
        BY <1>10, <3>5 DEF RecvConnect, Return
      <4> QED
        BY <4>1, <3>2, <2>1, <1>8, <1>t
    <3> QED
      BY <1>10, <3>3, <3>4, <3>5 DEF RecvConnect
  <2> QED
    BY <1>10, <1>t, <1>6, <2>1, <2>2, SessionTypeFrom DEF RecvConnect
<1>11. CASE RecvOk
  <2>1. Receive /\ frames # <<>> /\ frames' = Tail(frames) /\ cli' = "serve"
    BY <1>11 DEF RecvOk, Good, Takes, Return
  <2>2. table' \in [Numbers -> Lines \cup {NoLine}] /\ bkNext' \in 0 .. MaxBreaks
    <3>1. CASE Asked.op = "Z"
      <4>1. bkNext < MaxBreaks /\ LineOf(Asked.arg) \in Lines
        BY <2>1, <3>1, TopOfStack DEF Asked, Accounting, PendingInsert
      <4>2. table' = [table EXCEPT ![bkNext] = LineOf(Asked.arg)] /\ bkNext' = bkNext + 1
        BY <1>11, <3>1 DEF RecvOk
      <4>3. table' \in [Numbers -> Lines \cup {NoLine}]
        BY <4>1, <4>2, <1>t
      <4>4. bkNext' \in 0 .. MaxBreaks
        BY <4>1, <4>2, <1>t
      <4> QED
        BY <4>3, <4>4
    <3>2. CASE Asked.op # "Z"
      BY <1>11, <3>2, <1>t DEF RecvOk
    <3> QED
      BY <3>1, <3>2
  <2>3. ui' \in {"stopped", "running"}
    BY <1>11, <1>t DEF RecvOk
  <2> QED
    BY <1>11, <1>t, <1>6, <1>8, <2>1, <2>2, <2>3, SessionTypeFrom DEF RecvOk
<1>12. CASE RecvRead
  <2>1. Receive /\ frames # <<>> /\ frames' = Tail(frames) /\ cli' = "serve"
    BY <1>12 DEF RecvRead, Good, Takes, Return
  <2> QED
    BY <1>12, <1>t, <1>6, <1>8, <2>1, SessionTypeFrom DEF RecvRead
<1>13. CASE RecvListed
  <2>1. Receive /\ frames # <<>>
    BY <1>13 DEF RecvListed, Good, Takes
  <2>2. /\ c2s' \in Seq(Message) /\ Len(c2s') >= Len(c2s)
        /\ frames' \in Seq(Frame) /\ cli' \in {cli, "serve"}
    <3>1. CASE Asked.arg < NumRegs
      <4> DEFINE next == Request("p", Asked.arg + 1)
      <4>1. Asked.arg + 1 \in Nat
        BY <2>1, <1>8 DEF Message
      <4>2. next \in Message /\ Waiting("values", next) \in Frame
        BY <4>1, RequestType DEF Ops, Roles
      <4>3. /\ c2s' = Append(c2s, next)
            /\ frames' = <<Waiting("values", next)>> \o Tail(frames)
            /\ cli' = cli
        BY <1>13, <3>1 DEF RecvListed
      <4> HIDE DEF next
      <4> QED
        BY <4>2, <4>3, <2>1, <1>8, <1>t
    <3>2. CASE ~(Asked.arg < NumRegs)
      BY <1>13, <3>2, <2>1, <1>8, <1>t DEF RecvListed, Return
    <3> QED
      BY <3>1, <3>2
  <2> QED
    BY <1>13, <1>t, <1>6, <2>1, <2>2, SessionTypeFrom DEF RecvListed
<1>14. CASE RecvPosition
  <2>1. Receive /\ frames # <<>> /\ frames' = Tail(frames) /\ ui' = "stopped"
    BY <1>14 DEF RecvPosition, Good, Takes
  <2>2. shown' \in Nat
    <3>1. Incoming.val \in Nat
      BY <2>1, <1>6 DEF Packet
    <3> QED
      BY <1>14, <3>1 DEF RecvPosition, LineOf
  <2> QED
    BY <1>14, <1>t, <1>6, <1>8, <2>1, <2>2, SessionTypeFrom DEF RecvPosition
<1>15. ASSUME Raise
       PROVE  /\ cli' \in {"serve", "dead"} /\ remote' \in BOOLEAN
              /\ frames' \in Seq(Frame) /\ cliOpen' \in BOOLEAN
  <2>1. <<>> \in Seq(Frame)
    OBVIOUS
  <2> QED
    BY <1>15, <1>t, <2>1 DEF Raise
<1>16. CASE RecvWrong
  BY <1>16, <1>t, <1>6, <1>15, SessionTypeFrom DEF RecvWrong
<1>17. CASE RecvEof
  BY <1>17, <1>t, <1>15, SessionTypeFrom DEF RecvEof
<1> QED
  BY <1>1, <1>2, <1>3, <1>4, <1>5, <1>7, <1>9, <1>10, <1>11, <1>12, <1>13, <1>14, <1>16, <1>17
     DEF LoopNext, Recv

-----------------------------------------------------------------------------
(* A step of the client keeps the accounting.                              *)

(* The closed connection owes nothing. *)
LEMMA ClosedAccounting ==
  ASSUME SessionTypeOK, Accounting,
         UNCHANGED <<c2s, serverVars, bkNext>>,
         cliOpen' = FALSE, frames' = <<>>, pushed' = <<>>,
         srv # "listen" \/ UNCHANGED <<s2c, remote>>,
         cli' \in {"dead", "exited"} \/ (cli' = "serve" /\ remote' = FALSE)
  PROVE  Accounting'
<1> USE DEF Accounting
<1>1. Len(frames') = 0
  BY NoFrames
<1>2. 1 .. Len(frames') = {}
  BY <1>1
<1>3. ClientSends' /\ LoopShape' /\ NoStrayPacket'
  BY DEF ClientSends, LoopShape, NoStrayPacket, serverVars
<1>4. PendingInsert' /\ ~Connecting'
  BY <1>2 DEF PendingInsert, Connecting
<1>5. StackShape'
  BY <1>2 DEF StackShape, Gone
<1> QED
  BY <1>3, <1>4, <1>5 DEF Handshake, ReplyDebt, AckFree

(* The loop moves on without touching the connection. *)
LEMMA LoopAccounting ==
  ASSUME SessionTypeOK, Accounting, PollNothing \/ ServeDone \/ Exit
  PROVE  Accounting'
<1> USE DEF Accounting
<1>1. CASE PollNothing \/ ServeDone
  <2>1. /\ UNCHANGED <<wireVars, serverVars, remote, frames, pushed, bkNext>>
        /\ frames = <<>>
        /\ cli \in {"poll", "serve"} /\ cli' \in {"poll", "serve"}
    BY <1>1 DEF PollNothing, ServeDone, Polling, StartServing, StackShape
  <2>2. 1 .. Len(frames) = {}
    BY <2>1, NoFrames
  <2>3. ClientSends' /\ PendingInsert' /\ LoopShape' /\ ReplyDebt' /\ NoStrayPacket'
    BY <2>1 DEF ClientSends, PendingInsert, LoopShape, ReplyDebt, NoStrayPacket, wireVars, serverVars
  <2>4. Handshake' /\ AckFree'
    BY <2>1 DEF Handshake, AckFree, Connecting, Asked, wireVars, serverVars
  <2>5. StackShape'
    BY <2>1, <2>2 DEF StackShape, Gone, wireVars
  <2> QED
    BY <2>3, <2>4, <2>5
<1>2. CASE Exit
  BY <1>2, ClosedAccounting DEF Exit, StackShape, NoStrayPacket
<1> QED
  BY <1>1, <1>2

LEMMA CommandAccounting ==
  ASSUME SessionTypeOK, Accounting, Command
  PROVE  Accounting'
<1> USE DEF Accounting
<1>1. PICK role \in Roles \ {"stop"}, m \in Message :
        /\ Call(role, m)
        /\ Asks(m) /\ m.op \in ClientOps
        /\ m.op = "Z" => bkNext < MaxBreaks /\ LineOf(m.arg) \in Lines
        /\ \/ TargetSelect /\ role = "ack" /\ m = Request("qSupported", 0)
           \/ UNCHANGED <<cliOpen, remote>> /\ remote /\ role \notin {"ack", "connect"}
  BY CommandCalls
<1>2. /\ cli = "serve" /\ cli' = "command" /\ c2s' = Append(c2s, m)
      /\ frames' = <<Waiting(role, m)>>
      /\ UNCHANGED <<s2c, serverVars, pushed, bkNext>>
  BY <1>1 DEF Call
<1>3. Waiting(role, m) \in Frame /\ Waiting(role, m).role = role /\ Waiting(role, m).req = m
  BY DEF Waiting, Frame
<1>4. /\ Len(frames') = 1 /\ frames'[1] = Waiting(role, m) /\ Head(frames') = Waiting(role, m)
      /\ \A i \in 1 .. Len(frames') : i = 1
  BY <1>2, <1>3, OneFrame
<1>5. frames = <<>> /\ Len(frames) = 0 /\ ~Connecting /\ cliOpen = remote
  <2>1. frames = <<>> /\ cliOpen = remote
    BY <1>2 DEF StackShape, Gone
  <2>2. Len(frames) = 0
    BY <2>1, NoFrames
  <2>3. 1 .. Len(frames) = {}
    BY <2>2
  <2> QED
    BY <2>1, <2>2, <2>3 DEF Connecting
<1>6. c2s \in Seq(Message) /\ s2c \in Seq(Packet)
  BY DEF SessionTypeOK, ServerTypeOK, WireTypeOK
<1>7. ClientSends' /\ Count(c2s', Requests) = Count(c2s, Requests) + 1
  BY <1>1, <1>2, <1>6, SentCounts
<1>n. Count(c2s, Requests) \in Nat /\ Count(s2c, Answers) \in Nat
  BY <1>6, CountType
<1>8. cliOpen' /\ remote'
  BY <1>1, <1>5 DEF TargetSelect
<1>9. PendingInsert' /\ NoStrayPacket'
  BY <1>1, <1>2, <1>3, <1>4 DEF PendingInsert, NoStrayPacket
<1>10. StackShape'
  BY <1>2, <1>4, <1>8 DEF StackShape, Gone
<1>11. LoopShape'
  BY <1>2, <1>8 DEF LoopShape, serverVars
<1>12. srv' = srv /\ noAckMode' = noAckMode /\ exeStopped' = exeStopped /\ s2c' = s2c
  BY <1>2 DEF serverVars
<1>13. CASE TargetSelect /\ role = "ack" /\ m = Request("qSupported", 0)
  <2>1. srv = "listen" /\ exeStopped /\ ~noAckMode /\ c2s = <<>> /\ s2c = <<>>
    BY <1>13 DEF TargetSelect, LoopShape
  <2>2. /\ Count(c2s, Requests) = 0 /\ Count(s2c, Answers) = 0
        /\ Count(s2c, Acks) = 0 /\ Count(s2c, Stops) = 0
    BY <2>1, CountEmpty
  <2>3. ReplyDebt'
    BY <1>4, <1>7, <1>12, <2>2 DEF ReplyDebt
  <2>4. Connecting'
    BY <1>3, <1>4, <1>13 DEF Connecting
  <2>5. Asked' = m /\ m.op = "qSupported" /\ Head(frames').role = "ack"
    BY <1>3, <1>4, <1>13 DEF Asked, Request
  <2>6. \A i \in 1 .. Len(c2s') : c2s'[i] = m
    <3>1. Len(c2s) = 0
      BY <2>1, NoFrames
    <3> QED
      BY <1>2, <1>6, <3>1
  <2>7. Handshake'
    BY <1>4, <1>12, <2>1, <2>2, <2>5, <2>6 DEF Handshake
  <2> QED
    BY <1>7, <1>9, <1>10, <1>11, <2>3, <2>4, <2>7 DEF AckFree
<1>14. CASE UNCHANGED <<cliOpen, remote>> /\ remote /\ role \notin {"ack", "connect"}
  <2>1. ~Connecting'
    BY <1>3, <1>4, <1>14 DEF Connecting
  <2>2. ReplyDebt'
    BY <1>4, <1>5, <1>7, <1>n, <1>12, <1>14 DEF ReplyDebt
  <2>3. AckFree'
    BY <1>5, <1>12, <1>14 DEF AckFree
  <2> QED
    BY <1>7, <1>9, <1>10, <1>11, <2>1, <2>2, <2>3 DEF Handshake
<1> QED
  BY <1>1, <1>13, <1>14

(* A packet on the wire means that the server has accepted. *)
LEMMA WireInUse ==
  ASSUME SessionTypeOK, Accounting, s2c # <<>>, UNCHANGED <<serverVars, remote>>
  PROVE  LoopShape'
  BY DEF Accounting, LoopShape, serverVars

(* A stop report is met: the interrupt handler asks for the position. *)
LEMMA StopAccounting ==
  ASSUME SessionTypeOK, Accounting, StopArrives, FromWire, AskPosition,
         ~Connecting, cliOpen, cli # "serve",
         UNCHANGED <<cliOpen, serverVars, cli, remote, pushed, bkNext>>
  PROVE  Accounting'
<1> USE DEF Accounting
<1> DEFINE ask == Request("p", 0)
<1>1. /\ c2s' = Append(c2s, ask) /\ frames' = <<Waiting("stop", ask)>> \o frames
      /\ ask \in Message /\ Waiting("stop", ask) \in Frame /\ Asks(ask)
      /\ ask.op = "p" /\ ask.op \in ClientOps
      /\ Waiting("stop", ask).role = "stop" /\ Waiting("stop", ask).req = ask
  BY PositionType DEF AskPosition, Request, Waiting, ClientOps
<1>2. /\ c2s \in Seq(Message) /\ s2c \in Seq(Packet) /\ s2c # <<>> /\ s2c' = Tail(s2c)
      /\ frames \in Seq(Frame) /\ Len(frames) \in Nat
  BY DEF SessionTypeOK, ServerTypeOK, WireTypeOK, StopArrives, FromWire
<1> HIDE DEF ask
<1>3. ClientSends' /\ Count(c2s', Requests) = Count(c2s, Requests) + 1
  BY <1>1, <1>2, SentCounts
<1>4. /\ Count(s2c', Answers) = Count(s2c, Answers) /\ Count(s2c', Acks) = Count(s2c, Acks)
      /\ Count(c2s, Requests) \in Nat /\ Count(s2c, Answers) \in Nat
  <2>1. Head(s2c) \in Packet
    BY <1>2
  <2>2. Head(s2c) \notin Answers /\ Head(s2c) \notin Acks
    BY <2>1, PacketKinds DEF StopArrives, Stops
  <2>3. Count(c2s, Requests) \in Nat
    BY <1>2, CountType
  <2>4. /\ Count(s2c, Answers) \in Nat /\ Count(s2c, Acks) \in Nat
        /\ Count(s2c', Answers) = Count(s2c, Answers) - IF Head(s2c) \in Answers THEN 1 ELSE 0
        /\ Count(s2c', Acks) = Count(s2c, Acks) - IF Head(s2c) \in Acks THEN 1 ELSE 0
    BY <1>2, TakenCounts
  <2> QED
    BY <2>2, <2>3, <2>4
<1>5. /\ Len(frames') = Len(frames) + 1 /\ frames'[1] = Waiting("stop", ask)
      /\ \A i \in 1 .. Len(frames) : frames'[i + 1] = frames[i]
  BY <1>1, <1>2, OneFrame
<1>6. ASSUME NEW i \in 1 .. Len(frames')
      PROVE  \/ i = 1
             \/ i - 1 \in 1 .. Len(frames) /\ frames'[i] = frames[i - 1]
  <2>1. i # 1 => i - 1 \in 1 .. Len(frames) /\ i = (i - 1) + 1
    BY <1>2, <1>5
  <2> QED
    BY <1>5, <2>1
<1>7. LoopShape' /\ NoStrayPacket'
  BY <1>2, WireInUse DEF NoStrayPacket
<1>8. PendingInsert'
  <2> SUFFICES ASSUME NEW i \in 1 .. Len(frames'), frames'[i].req.op = "Z"
               PROVE  bkNext < MaxBreaks /\ LineOf(frames'[i].req.arg) \in Lines
    BY DEF PendingInsert
  <2>1. i # 1
    BY <1>1, <1>5
  <2> QED
    BY <1>6, <2>1 DEF PendingInsert
<1>9. StackShape'
  <2>1. ASSUME NEW i \in 1 .. Len(frames'), frames'[i].role # "stop"
        PROVE  i = Len(frames') /\ cli = "command"
    <3>1. i # 1
      BY <1>1, <1>5, <2>1
    <3>2. i - 1 = Len(frames) /\ cli = "command"
      BY <1>6, <2>1, <3>1 DEF StackShape
    <3> QED
      BY <1>2, <1>5, <3>2
  <2> QED
    BY <2>1 DEF StackShape, Gone
<1>10. ~Connecting'
  <2> SUFFICES ASSUME NEW i \in 1 .. Len(frames'), frames'[i].role \in {"ack", "connect"}
               PROVE  FALSE
    BY DEF Connecting
  <2>1. i # 1
    BY <1>1, <1>5
  <2> QED
    BY <1>6, <2>1 DEF Connecting
<1>11. ReplyDebt'
  BY <1>2, <1>3, <1>4, <1>5 DEF ReplyDebt, serverVars
<1>12. AckFree'
  BY <1>4 DEF AckFree, serverVars
<1> QED
  BY <1>3, <1>7, <1>8, <1>9, <1>10, <1>11, <1>12 DEF Handshake

LEMMA PollPacketAccounting ==
  ASSUME SessionTypeOK, Accounting, PollPacket
  PROVE  Accounting'
<1> USE DEF Accounting
<1>1. /\ cli = "poll" /\ frames = <<>> /\ remote /\ pushed = <<>> /\ s2c # <<>> /\ FromWire
      /\ UNCHANGED <<cliOpen, serverVars, remote, bkNext>>
  BY DEF PollPacket, Polling
<1>2. cliOpen
  BY <1>1 DEF StackShape, Gone
<1>3. ~Connecting /\ Len(frames) = 0
  <2>1. Len(frames) = 0
    BY <1>1, NoFrames
  <2>2. 1 .. Len(frames) = {}
    BY <2>1
  <2> QED
    BY <2>1, <2>2 DEF Connecting
<1>4. StopArrives
  <2>1. s2c \in Seq(Packet) /\ c2s \in Seq(Message)
    BY DEF SessionTypeOK, ServerTypeOK, WireTypeOK
  <2>2. Head(s2c) \in Packet
    BY <1>1, <2>1
  <2>3. Count(s2c, Acks) = 0
    BY <1>2, <1>3 DEF AckFree
  <2>4. Count(s2c, Answers) = 0
    <3>1. Count(c2s, Requests) \in Nat /\ Count(s2c, Answers) \in Nat
      BY <2>1, CountType
    <3>2. Count(c2s, Requests) + Count(s2c, Answers) <= 0
      BY <1>2, <1>3 DEF ReplyDebt
    <3> QED
      BY <3>1, <3>2
  <2>5. Head(s2c) = s2c[1] /\ 1 \in 1 .. Len(s2c)
    BY <1>1, <2>1
  <2>6. Head(s2c) \notin Acks /\ Head(s2c) \notin Answers
    BY <2>1, <2>3, <2>4, <2>5, CountZero
  <2> QED
    BY <1>1, <2>2, <2>6, PacketKinds DEF StopArrives, Stops
<1>5. AskPosition /\ UNCHANGED <<cli, pushed>>
  BY <1>4 DEF PollPacket
<1> QED
  BY <1>1, <1>2, <1>3, <1>4, <1>5, StopAccounting

LEMMA RecvStopAccounting ==
  ASSUME SessionTypeOK, Accounting, RecvStop
  PROVE  Accounting'
<1> USE DEF Accounting
<1>1. /\ frames # <<>> /\ StopArrives /\ FromWire /\ AskPosition
      /\ UNCHANGED <<cliOpen, serverVars, cli, remote, pushed, bkNext>>
  BY DEF RecvStop
<1>2. cliOpen /\ cli # "serve"
  BY <1>1 DEF StackShape
<1>3. ~Connecting
  <2>1. s2c \in Seq(Packet) /\ s2c # <<>> /\ s2c' = Tail(s2c)
    BY <1>1 DEF SessionTypeOK, ServerTypeOK, WireTypeOK, StopArrives, FromWire
  <2>2. Head(s2c) \in Packet /\ Head(s2c) \in Stops
    BY <1>1, <2>1 DEF StopArrives, Stops
  <2>3. Count(s2c', Stops) = Count(s2c, Stops) - 1 /\ Count(s2c', Stops) \in Nat
    BY <2>1, <2>2, TakenCounts
  <2>4. Count(s2c, Stops) # 0
    BY <2>3
  <2> QED
    BY <2>4 DEF Handshake
<1> QED
  BY <1>1, <1>2, <1>3, StopAccounting

-----------------------------------------------------------------------------
(* The call at the top of the stack takes its packet.                      *)

(* What a call other than the one for an acknowledgement expects answers   *)
(* a request.                                                              *)
LEMMA GoodTakes ==
  ASSUME SessionTypeOK, Accounting, NEW role, Good(role), Receive
  PROVE  /\ frames # <<>> /\ Head(frames).role = role
         /\ s2c # <<>> /\ s2c' = Tail(s2c) /\ pushed' = pushed
         /\ Incoming = Head(s2c) /\ Head(s2c) \in Packet
         /\ cliOpen
         /\ role = "ack" => Head(s2c) \in Acks /\ Head(s2c) \notin Answers
         /\ role # "ack" => Head(s2c) \in Answers /\ Head(s2c) \notin Acks
<1>1. frames # <<>> /\ Head(frames).role = role /\ Incoming.kind \in Expected(Head(frames))
  BY DEF Good, Takes
<1>2. s2c # <<>> /\ s2c' = Tail(s2c) /\ pushed' = pushed /\ Incoming = Head(s2c)
  BY ReceiveTakes DEF Accounting, FromWire
<1>3. s2c \in Seq(Packet)
  BY DEF SessionTypeOK, ServerTypeOK, WireTypeOK
<1>4. Head(s2c) \in Packet
  BY <1>2, <1>3
<1>5. cliOpen
  BY <1>1 DEF Accounting, StackShape
<1>6. CASE role = "ack"
  <2>1. Head(s2c).kind = "ack"
    BY <1>1, <1>2, <1>6 DEF Expected
  <2>2. Head(s2c) \in Acks
    BY <1>4, <2>1 DEF Acks
  <2> QED
    BY <1>1, <1>2, <1>4, <1>5, <1>6, <2>2, PacketKinds
<1>7. CASE role # "ack"
  <2>1. Head(s2c).kind \in ReplyKinds
    BY <1>1, <1>2, <1>7 DEF Expected, Number, ReplyKinds
  <2>2. Head(s2c) \in Answers
    BY <1>4, <2>1 DEF Answers
  <2> QED
    BY <1>1, <1>2, <1>4, <1>5, <1>7, <2>2, PacketKinds
<1> QED
  BY <1>6, <1>7

(* The top of the stack is replaced. *)
LEMMA ReplacedTop ==
  ASSUME frames \in Seq(Frame), frames # <<>>, NEW f \in Frame,
         frames' = <<f>> \o Tail(frames)
  PROVE  /\ Len(frames') = Len(frames) /\ frames'[1] = f /\ Head(frames') = f
         /\ \A i \in 1 .. Len(frames') : i = 1 \/ frames'[i] = frames[i]
<1>1. /\ Tail(frames) \in Seq(Frame) /\ Len(Tail(frames)) = Len(frames) - 1
      /\ Len(frames) \in Nat \ {0}
      /\ \A i \in 1 .. Len(Tail(frames)) : Tail(frames)[i] = frames[i + 1]
  OBVIOUS
<1>2. /\ frames' \in Seq(Frame) /\ Len(frames') = Len(Tail(frames)) + 1 /\ frames'[1] = f
      /\ \A i \in 1 .. Len(Tail(frames)) : frames'[i + 1] = Tail(frames)[i]
  BY <1>1, OneFrame
<1>3. Len(frames') = Len(frames) /\ Head(frames') = f
  BY <1>1, <1>2
<1>4. ASSUME NEW i \in 1 .. Len(frames'), i # 1
      PROVE  frames'[i] = frames[i]
  <2>1. i - 1 \in 1 .. Len(Tail(frames)) /\ (i - 1) + 1 = i
    BY <1>1, <1>3, <1>4
  <2> QED
    BY <1>1, <1>2, <2>1
<1> QED
  BY <1>2, <1>3, <1>4

LEMMA Predecessor ==
  ASSUME NEW j \in Nat, NEW n \in Nat, j + 1 = n
  PROVE  j = n - 1
  OBVIOUS

(* A call returns with its packet. *)
LEMMA ReturnAccounting ==
  ASSUME SessionTypeOK, Accounting,
         NEW role \in {"ok", "read", "values", "stop"}, Good(role), Receive,
         frames' = Tail(frames),
         UNCHANGED <<c2s, cliOpen, serverVars, remote>>,
         cli' = (IF role = "stop" THEN cli ELSE "serve"),
         role = "stop" => bkNext' = bkNext
  PROVE  Accounting'
<1> USE DEF Accounting
<1>1. /\ frames # <<>> /\ Head(frames).role = role
      /\ s2c # <<>> /\ s2c' = Tail(s2c) /\ pushed' = pushed /\ cliOpen
      /\ Head(s2c) \in Answers /\ Head(s2c) \notin Acks
  BY GoodTakes
<1>2. c2s \in Seq(Message) /\ s2c \in Seq(Packet) /\ frames \in Seq(Frame)
  BY DEF SessionTypeOK, ServerTypeOK, WireTypeOK
<1>3. Count(s2c', Acks) = Count(s2c, Acks)
  <2>1. Count(s2c, Acks) \in Nat
    BY <1>2, CountType
  <2> QED
    BY <1>1, <1>2, <2>1, TakenCounts
<1>4. Count(s2c', Answers) = Count(s2c, Answers) - 1
  BY <1>1, <1>2, TakenCounts
<1>n. Count(c2s, Requests) \in Nat /\ Count(s2c, Answers) \in Nat
  BY <1>2, CountType
<1>5. /\ Len(frames') = Len(frames) - 1 /\ Len(frames) \in Nat \ {0}
      /\ \A i \in 1 .. Len(frames') : i + 1 \in 1 .. Len(frames) /\ frames'[i] = frames[i + 1]
  <2>1. Len(frames) \in Nat \ {0}
    BY <1>1, <1>2
  <2> QED
    BY <1>1, <2>1, TopOfStack
<1>6. ~Connecting
  BY <1>1, TopOfStack
<1>7. ~Connecting'
  BY <1>5, <1>6 DEF Connecting
<1>8. role # "stop" => 1 .. Len(frames') = {} /\ cli = "command"
  <2>1. role # "stop" => Len(frames) = 1 /\ cli = "command"
    BY <1>1, TopOfStack
  <2>2. role # "stop" => Len(frames') = 0
    BY <1>5, <2>1
  <2>3. 1 .. 0 = {}
    OBVIOUS
  <2> QED
    BY <2>1, <2>2, <2>3
<1>9. LoopShape' /\ ClientSends' /\ NoStrayPacket'
  BY <1>1, WireInUse DEF ClientSends, NoStrayPacket
<1>10. PendingInsert'
  BY <1>5, <1>8 DEF PendingInsert
<1>11. StackShape'
  <2>1. ASSUME NEW i \in 1 .. Len(frames'), frames'[i].role # "stop"
        PROVE  i = Len(frames') /\ cli' = "command"
    <3>1. role = "stop"
      BY <1>8
    <3>2. i + 1 = Len(frames) /\ cli = "command"
      BY <1>5, <2>1 DEF StackShape
    <3>3. Len(frames') \in Nat
      BY <1>5
    <3>4. i \in Nat
      BY <3>3
    <3>5. i = Len(frames')
      BY <1>5, <3>2, <3>4, Predecessor, Zenon
    <3> QED
      BY <3>1, <3>2, <3>5
  <2>2. cli' = "serve" => frames' = <<>>
    <3>1. cli' = "serve" => role # "stop"
      BY <1>1 DEF StackShape
    <3>2. role # "stop" => Len(frames') = 0
      BY <1>1, <1>5, TopOfStack
    <3>3. frames' \in Seq(Frame)
      BY <1>1, TopOfStack
    <3> QED
      BY <3>1, <3>2, <3>3
  <2>3. Gone' => Gone
    BY DEF Gone
  <2>4. ~Gone
    BY <1>1 DEF StackShape
  <2> QED
    BY <1>1, <2>1, <2>2, <2>3, <2>4 DEF StackShape
<1>12. ReplyDebt'
  BY <1>1, <1>4, <1>5, <1>n DEF ReplyDebt, serverVars
<1>13. AckFree'
  BY <1>1, <1>3, <1>6 DEF AckFree, serverVars
<1> QED
  BY <1>7, <1>9, <1>10, <1>11, <1>12, <1>13 DEF Handshake

(* The loop over the registers goes on with the next request. *)
LEMMA ListedAccounting ==
  ASSUME SessionTypeOK, Accounting, RecvListed
  PROVE  Accounting'
<1> USE DEF Accounting
<1>0. Good("values") /\ Receive /\ UNCHANGED <<cliOpen, serverVars, remote, bkNext>>
  BY DEF RecvListed
<1>1. CASE ~(Asked.arg < NumRegs)
  <2>1. frames' = Tail(frames) /\ cli' = "serve" /\ UNCHANGED c2s
    BY <1>1 DEF RecvListed, Return
  <2> QED
    BY <1>0, <2>1, ReturnAccounting
<1>2. CASE Asked.arg < NumRegs
  <2> DEFINE next == Request("p", Asked.arg + 1)
  <2>1. /\ frames # <<>> /\ Head(frames).role = "values"
        /\ s2c # <<>> /\ s2c' = Tail(s2c) /\ pushed' = pushed /\ cliOpen
        /\ Head(s2c) \in Answers /\ Head(s2c) \notin Acks
    BY <1>0, GoodTakes
  <2>2. c2s \in Seq(Message) /\ s2c \in Seq(Packet) /\ frames \in Seq(Frame)
    BY DEF SessionTypeOK, ServerTypeOK, WireTypeOK
  <2>3. /\ next \in Message /\ Waiting("values", next) \in Frame /\ Asks(next)
        /\ next.op = "p" /\ next.op \in ClientOps
        /\ Waiting("values", next).role = "values" /\ Waiting("values", next).req = next
    <3>1. Asked.arg + 1 \in Nat
      BY <2>1, TopOfStack DEF Asked, Frame, Message
    <3>2. next \in Message /\ Waiting("values", next) \in Frame
      BY <3>1, RequestType DEF Ops, Roles
    <3> QED
      BY <3>2 DEF Asks, Request, Waiting, ClientOps
  <2>4. /\ c2s' = Append(c2s, next) /\ frames' = <<Waiting("values", next)>> \o Tail(frames)
        /\ cli' = cli
    BY <1>2 DEF RecvListed
  <2> HIDE DEF next
  <2>5. ClientSends' /\ Count(c2s', Requests) = Count(c2s, Requests) + 1
    BY <2>2, <2>3, <2>4, SentCounts
  <2>6. Count(c2s, Requests) \in Nat /\ Count(s2c, Answers) \in Nat /\ Count(s2c, Acks) \in Nat
    BY <2>2, CountType
  <2>7. Count(s2c', Answers) = Count(s2c, Answers) - 1
    BY <2>1, <2>2, TakenCounts
  <2>8. Count(s2c', Acks) = Count(s2c, Acks)
    BY <2>1, <2>2, <2>6, TakenCounts
  <2>9. /\ Len(frames') = Len(frames) /\ frames'[1] = Waiting("values", next)
        /\ \A i \in 1 .. Len(frames') : i = 1 \/ frames'[i] = frames[i]
    BY <2>1, <2>2, <2>3, <2>4, ReplacedTop
  <2>10. ~Connecting /\ Len(frames) = 1 /\ cli = "command"
    BY <2>1, TopOfStack
  <2>11. \A i \in 1 .. Len(frames') : i = 1 /\ i = Len(frames')
    BY <2>9, <2>10
  <2>12. ~Connecting'
    BY <2>3, <2>9, <2>11 DEF Connecting
  <2>13. LoopShape' /\ NoStrayPacket'
    BY <1>0, <2>1, WireInUse DEF NoStrayPacket
  <2>14. PendingInsert'
    BY <2>3, <2>9, <2>11 DEF PendingInsert
  <2>15. StackShape'
    BY <1>0, <2>1, <2>4, <2>10, <2>11 DEF StackShape, Gone
  <2>16. ReplyDebt'
    BY <1>0, <2>1, <2>5, <2>6, <2>7, <2>9, <2>10 DEF ReplyDebt, serverVars
  <2>17. AckFree'
    BY <1>0, <2>1, <2>8, <2>10 DEF AckFree, serverVars
  <2> QED
    BY <2>5, <2>12, <2>13, <2>14, <2>15, <2>16, <2>17 DEF Handshake
<1> QED
  BY <1>1, <1>2

(* An exception closes the connection. *)
LEMMA RaiseAccounting ==
  ASSUME SessionTypeOK, Accounting, RecvWrong \/ RecvEof
  PROVE  Accounting'
<1> USE DEF Accounting
<1>1. Raise /\ UNCHANGED <<c2s, serverVars, bkNext>> /\ srv # "listen" /\ pushed' = <<>>
  <2>1. CASE RecvWrong
    <3>1. Receive /\ Raise /\ UNCHANGED <<c2s, serverVars, bkNext>>
      BY <2>1 DEF RecvWrong
    <3>2. s2c # <<>> /\ pushed' = pushed
      BY <3>1, ReceiveTakes
    <3> QED
      BY <3>1, <3>2 DEF LoopShape, NoStrayPacket
  <2>2. CASE RecvEof
    BY <2>2 DEF RecvEof, NoStrayPacket
  <2> QED
    BY <2>1, <2>2
<1>2. /\ cliOpen' = FALSE /\ frames' = <<>>
      /\ cli' = "dead" \/ (cli' = "serve" /\ remote' = FALSE)
  BY <1>1 DEF Raise
<1> QED
  BY <1>1, <1>2, ClosedAccounting

-----------------------------------------------------------------------------
(* The handshake.                                                          *)

(* What the handshake knows when its call gets the packet it waits for. *)
LEMMA HandshakeTakes ==
  ASSUME SessionTypeOK, Accounting, NEW role \in {"ack", "connect"}, Good(role), Receive,
         UNCHANGED <<cliOpen, serverVars, remote, bkNext>>
  PROVE  /\ Connecting /\ Len(frames) = 1 /\ cli = "command" /\ cliOpen
         /\ Head(frames).role = role /\ frames \in Seq(Frame) /\ frames # <<>>
         /\ srv # "closed" /\ exeStopped /\ pushed' = pushed
         /\ Count(s2c', Stops) = 0
         /\ Count(s2c', Acks) = 0
         /\ Count(c2s, Requests) = 0
         /\ Count(s2c', Answers) = IF role = "ack" THEN 1 ELSE 0
         /\ noAckMode <=> Asked.op = "QStartNoAckMode"
         /\ LoopShape' /\ NoStrayPacket'
<1> USE DEF Accounting
<1>1. /\ frames # <<>> /\ Head(frames).role = role
      /\ s2c # <<>> /\ s2c' = Tail(s2c) /\ pushed' = pushed /\ cliOpen
      /\ Head(s2c) \in Packet
      /\ role = "ack" => Head(s2c) \in Acks /\ Head(s2c) \notin Answers
      /\ role # "ack" => Head(s2c) \in Answers /\ Head(s2c) \notin Acks
  BY GoodTakes
<1>2. c2s \in Seq(Message) /\ s2c \in Seq(Packet) /\ frames \in Seq(Frame)
  BY DEF SessionTypeOK, ServerTypeOK, WireTypeOK
<1>3. Connecting /\ Len(frames) = 1 /\ cli = "command"
  BY <1>1, TopOfStack
<1>4. /\ srv # "closed" /\ exeStopped
      /\ Count(s2c, Stops) = 0
      /\ noAckMode <=> Asked.op = "QStartNoAckMode" /\ Count(c2s, Requests) = 0
      /\ role = "ack" => Count(s2c, Acks) = Count(s2c, Answers)
      /\ role # "ack" => Count(s2c, Acks) = 0 /\ Count(c2s, Requests) = 0
  BY <1>1, <1>3 DEF Handshake
<1>5. Count(c2s, Requests) + Count(s2c, Answers) = 1
  BY <1>1, <1>3, <1>4 DEF ReplyDebt
<1>6. Count(c2s, Requests) \in Nat /\ Count(s2c, Answers) \in Nat /\ Count(s2c, Acks) \in Nat
  BY <1>2, CountType
<1>7. /\ Count(s2c', Acks) = Count(s2c, Acks) - IF Head(s2c) \in Acks THEN 1 ELSE 0
      /\ Count(s2c', Stops) = Count(s2c, Stops) - IF Head(s2c) \in Stops THEN 1 ELSE 0
      /\ Count(s2c', Answers) = Count(s2c, Answers) - IF Head(s2c) \in Answers THEN 1 ELSE 0
      /\ Count(s2c', Acks) \in Nat /\ Count(s2c', Stops) \in Nat /\ Count(s2c', Answers) \in Nat
  BY <1>1, <1>2, TakenCounts
<1>8. Count(s2c', Stops) = 0
  <2>1. Count(s2c, Stops) = 0
    BY <1>4
  <2> QED
    BY <1>1, <1>2, <2>1, TakenCounts
<1>9. CASE role = "ack"
  <2>1. Count(s2c', Acks) = Count(s2c, Acks) - 1 /\ Count(s2c', Answers) = Count(s2c, Answers)
    BY <1>1, <1>6, <1>7, <1>9
  <2>2. /\ Count(s2c', Acks) = 0 /\ Count(c2s, Requests) = 0 /\ Count(s2c', Answers) = 1
    BY <1>4, <1>5, <1>6, <1>7, <1>9, <2>1
  <2> QED
    BY <1>1, <1>2, <1>3, <1>4, <1>8, <1>9, <2>2, WireInUse DEF NoStrayPacket
<1>10. CASE role = "connect"
  <2>1. Count(s2c', Acks) = Count(s2c, Acks) /\ Count(s2c', Answers) = Count(s2c, Answers) - 1
    BY <1>1, <1>6, <1>7, <1>10
  <2>2. /\ Count(s2c', Acks) = 0 /\ Count(c2s, Requests) = 0 /\ Count(s2c', Answers) = 0
    BY <1>4, <1>5, <1>6, <1>10, <2>1
  <2> QED
    BY <1>1, <1>2, <1>3, <1>4, <1>8, <1>10, <2>2, WireInUse DEF NoStrayPacket
<1> QED
  BY <1>9, <1>10

LEMMA RecvAckAccounting ==
  ASSUME SessionTypeOK, Accounting, RecvAck
  PROVE  Accounting'
<1> USE DEF Accounting
<1> DEFINE top == Waiting("connect", Asked)
<1>1. /\ Good("ack") /\ Receive /\ frames' = <<top>> \o Tail(frames)
      /\ UNCHANGED <<c2s, cliOpen, serverVars, cli, remote, bkNext>>
  BY DEF RecvAck
<1>2. /\ Connecting /\ Len(frames) = 1 /\ cli = "command" /\ cliOpen
      /\ Head(frames).role = "ack" /\ frames \in Seq(Frame) /\ frames # <<>>
      /\ srv # "closed" /\ exeStopped
      /\ Count(s2c', Stops) = 0 /\ Count(s2c', Acks) = 0
      /\ Count(c2s, Requests) = 0 /\ Count(s2c', Answers) = 1
      /\ noAckMode <=> Asked.op = "QStartNoAckMode"
      /\ LoopShape' /\ NoStrayPacket'
  BY <1>1, HandshakeTakes
<1>3. top \in Frame /\ top.role = "connect" /\ top.req = Asked
  BY <1>2, TopOfStack DEF Asked, Waiting, Frame, Roles
<1> HIDE DEF top
<1>4. Len(frames') = 1 /\ frames'[1] = top /\ Head(frames') = top
  BY <1>1, <1>2, <1>3, ReplacedTop
<1>5. Asked' = Asked /\ Connecting'
  BY <1>3, <1>4 DEF Asked, Connecting
<1>6. /\ Asked.op \in {"qSupported", "vMustReplyEmpty", "QStartNoAckMode"}
      /\ \A i \in 1 .. Len(c2s) : Asks(c2s[i]) => c2s[i] = Asked
  BY <1>2 DEF Handshake
<1>7. Handshake'
  BY <1>1, <1>2, <1>3, <1>4, <1>5, <1>6 DEF Handshake, serverVars
<1>8. ReplyDebt'
  BY <1>1, <1>2, <1>4 DEF ReplyDebt
<1>9. StackShape'
  <2>1. \A i \in 1 .. Len(frames') : i = Len(frames')
    BY <1>4
  <2> QED
    BY <1>1, <1>2, <2>1 DEF StackShape, Gone
<1>10. PendingInsert'
  BY <1>3, <1>4, <1>6 DEF PendingInsert
<1>11. ClientSends'
  BY <1>1 DEF ClientSends
<1> QED
  BY <1>2, <1>5, <1>7, <1>8, <1>9, <1>10, <1>11 DEF AckFree

(* The client acknowledges a reply. *)
LEMMA AckSent ==
  ASSUME c2s \in Seq(Message)
  PROVE  /\ Append(c2s, ClientAck) \in Seq(Message)
         /\ Count(Append(c2s, ClientAck), Requests) = Count(c2s, Requests)
         /\ ClientSends =>
              \A i \in 1 .. Len(Append(c2s, ClientAck)) : Append(c2s, ClientAck)[i].op \in ClientOps
<1>1. ClientAck \in Message /\ ClientAck \notin Requests /\ ClientAck.op \in ClientOps
  BY RequestType DEF ClientAck, Ops, Request, Asks, Requests, ClientOps
<1>2. Count(c2s, Requests) \in Nat
  BY CountType
<1>3. Count(Append(c2s, ClientAck), Requests) = Count(c2s, Requests)
  BY <1>1, <1>2, CountAppend
<1>4. Append(c2s, ClientAck) \in Seq(Message)
  BY <1>1
<1>5. ClientSends =>
        \A i \in 1 .. Len(Append(c2s, ClientAck)) : Append(c2s, ClientAck)[i].op \in ClientOps
  BY <1>1 DEF ClientSends
<1> QED
  BY <1>3, <1>4, <1>5

(* The next line of the handshake is sent: it is the one request there is. *)
LEMMA AskedNext ==
  ASSUME SessionTypeOK, Accounting, Good("connect"), Receive,
         UNCHANGED <<cliOpen, serverVars, cli, remote, bkNext>>,
         NEW op \in {"vMustReplyEmpty", "QStartNoAckMode"},
         NEW sent \in Seq(Message), Count(sent, Requests) = 0,
         \A i \in 1 .. Len(sent) : sent[i].op \in ClientOps,
         c2s' = Append(sent, Request(op, 0)),
         frames' = <<Waiting("ack", Request(op, 0))>> \o Tail(frames),
         Asked.op # "QStartNoAckMode"
  PROVE  Accounting'
<1> USE DEF Accounting
<1> DEFINE ask == Request(op, 0)
           top == Waiting("ack", ask)
<1>1. ask \in Message /\ top \in Frame
  BY RequestType DEF Ops, Roles
<1>2. Asks(ask) /\ ask.op = op /\ ask.op \in ClientOps /\ top.role = "ack" /\ top.req = ask
  BY DEF Asks, Request, Waiting, ClientOps
<1>3. c2s' = Append(sent, ask) /\ frames' = <<top>> \o Tail(frames)
  OBVIOUS
<1> HIDE DEF ask, top
<1>4. /\ Connecting /\ Len(frames) = 1 /\ cli = "command" /\ cliOpen
      /\ frames \in Seq(Frame) /\ frames # <<>>
      /\ srv # "closed" /\ exeStopped /\ ~noAckMode
      /\ Count(s2c', Stops) = 0 /\ Count(s2c', Acks) = 0 /\ Count(s2c', Answers) = 0
      /\ LoopShape' /\ NoStrayPacket'
  BY HandshakeTakes
<1>5. Len(frames') = 1 /\ frames'[1] = top /\ Head(frames') = top
  BY <1>1, <1>3, <1>4, ReplacedTop
<1>6. Asked' = ask /\ Connecting'
  BY <1>2, <1>5 DEF Asked, Connecting
<1>7. /\ Len(c2s') = Len(sent) + 1 /\ Len(sent) \in Nat
      /\ \A i \in 1 .. Len(c2s') : c2s'[i] = IF i = Len(sent) + 1 THEN ask ELSE sent[i]
  BY <1>1, <1>3
<1>8. Count(c2s', Requests) = 1
  <2>1. ask \in Requests
    BY <1>1, <1>2 DEF Requests
  <2> QED
    BY <1>1, <1>3, <2>1, CountAppend
<1>9. ASSUME NEW i \in 1 .. Len(sent)
      PROVE  ~Asks(sent[i])
  <2>1. sent[i] \in Message /\ sent[i] \notin Requests
    BY CountZero
  <2> QED
    BY <2>1 DEF Requests
<1>10. \A i \in 1 .. Len(c2s') : Asks(c2s'[i]) => c2s'[i] = ask
  BY <1>7, <1>9
<1>11. Handshake'
  BY <1>2, <1>4, <1>5, <1>6, <1>8, <1>10 DEF Handshake, serverVars
<1>12. ReplyDebt'
  BY <1>4, <1>5, <1>8 DEF ReplyDebt
<1>13. StackShape'
  <2>1. \A i \in 1 .. Len(frames') : i = Len(frames')
    BY <1>5
  <2> QED
    BY <1>4, <2>1 DEF StackShape, Gone
<1>14. PendingInsert'
  BY <1>2, <1>5 DEF PendingInsert
<1>15. ClientSends'
  BY <1>2, <1>7 DEF ClientSends
<1> QED
  BY <1>4, <1>6, <1>11, <1>12, <1>13, <1>14, <1>15 DEF AckFree

LEMMA RecvConnectAccounting ==
  ASSUME SessionTypeOK, Accounting, RecvConnect
  PROVE  Accounting'
<1> USE DEF Accounting
<1>1. Good("connect") /\ Receive /\ UNCHANGED <<cliOpen, serverVars, remote, bkNext>>
  BY DEF RecvConnect
<1>2. /\ Connecting /\ Len(frames) = 1 /\ cli = "command" /\ cliOpen
      /\ frames \in Seq(Frame) /\ frames # <<>>
      /\ Count(s2c', Acks) = 0 /\ Count(s2c', Answers) = 0 /\ Count(c2s, Requests) = 0
      /\ noAckMode <=> Asked.op = "QStartNoAckMode"
      /\ LoopShape' /\ NoStrayPacket'
  BY <1>1, HandshakeTakes
<1>3. c2s \in Seq(Message)
  BY DEF SessionTypeOK, ServerTypeOK, WireTypeOK
<1>4. /\ Append(c2s, ClientAck) \in Seq(Message)
      /\ Count(Append(c2s, ClientAck), Requests) = 0
      /\ \A i \in 1 .. Len(Append(c2s, ClientAck)) : Append(c2s, ClientAck)[i].op \in ClientOps
  BY <1>2, <1>3, AckSent
<1>5. CASE Asked.op = "qSupported"
  <2>1. /\ c2s' = Append(c2s, Request("vMustReplyEmpty", 0))
        /\ frames' = <<Waiting("ack", Request("vMustReplyEmpty", 0))>> \o Tail(frames)
        /\ cli' = cli
    BY <1>5 DEF RecvConnect
  <2>2. \A i \in 1 .. Len(c2s) : c2s[i].op \in ClientOps
    BY DEF ClientSends
  <2> QED
    BY <1>1, <1>2, <1>3, <1>5, <2>1, <2>2, AskedNext
<1>6. CASE Asked.op = "vMustReplyEmpty"
  <2> DEFINE sent == Append(c2s, ClientAck)
             ask  == Request("QStartNoAckMode", 0)
  <2>1. /\ c2s' = c2s \o <<ClientAck, ask>>
        /\ frames' = <<Waiting("ack", ask)>> \o Tail(frames)
        /\ cli' = cli
    BY <1>6 DEF RecvConnect
  <2>2. c2s' = Append(sent, ask)
    <3>1. ClientAck \in Message /\ ask \in Message
      BY RequestType DEF ClientAck, Ops
    <3> HIDE DEF ask
    <3> QED
      BY <1>3, <2>1, <3>1
  <2> HIDE DEF sent
  <2>3. sent \in Seq(Message) /\ Count(sent, Requests) = 0
        /\ \A i \in 1 .. Len(sent) : sent[i].op \in ClientOps
    BY <1>4 DEF sent
  <2> QED
    BY <1>1, <1>6, <2>1, <2>2, <2>3, AskedNext
<1>7. CASE Asked.op = "QStartNoAckMode"
  <2>1. c2s' = Append(c2s, ClientAck) /\ frames' = Tail(frames) /\ cli' = "serve"
    BY <1>7 DEF RecvConnect, Return
  <2>2. Len(frames') = 0 /\ frames' = <<>>
    BY <1>2, <2>1
  <2>3. 1 .. Len(frames') = {}
    BY <2>2
  <2>4. PendingInsert' /\ ~Connecting'
    BY <2>3 DEF PendingInsert, Connecting
  <2>5. ClientSends' /\ Count(c2s', Requests) = 0
    BY <1>4, <2>1 DEF ClientSends
  <2>6. StackShape'
    BY <1>1, <1>2, <2>1, <2>2, <2>3 DEF StackShape, Gone
  <2>7. ReplyDebt'
    BY <1>2, <2>2, <2>5 DEF ReplyDebt
  <2>8. AckFree'
    BY <1>1, <1>2, <1>7 DEF AckFree, serverVars
  <2> QED
    BY <1>2, <2>4, <2>5, <2>6, <2>7, <2>8 DEF Handshake
<1> QED
  BY <1>5, <1>6, <1>7 DEF RecvConnect

-----------------------------------------------------------------------------
LEMMA ClientKeepsAccounting ==
  ASSUME SessionTypeOK, Accounting, LoopNext \/ Command \/ Recv
  PROVE  Accounting'
<1>1. CASE PollNothing \/ ServeDone \/ Exit
  BY <1>1, LoopAccounting
<1>2. CASE PollPacket
  BY <1>2, PollPacketAccounting
<1>3. CASE Command
  BY <1>3, CommandAccounting
<1>4. CASE RecvStop
  BY <1>4, RecvStopAccounting
<1>5. CASE RecvAck
  BY <1>5, RecvAckAccounting
<1>6. CASE RecvConnect
  BY <1>6, RecvConnectAccounting
<1>7. CASE RecvOk
  BY <1>7, ReturnAccounting DEF RecvOk, Return
<1>8. CASE RecvRead
  BY <1>8, ReturnAccounting DEF RecvRead, Return
<1>9. CASE RecvListed
  BY <1>9, ListedAccounting
<1>10. CASE RecvPosition
  BY <1>10, ReturnAccounting DEF RecvPosition
<1>11. CASE RecvWrong \/ RecvEof
  BY <1>11, RaiseAccounting
<1> QED
  BY <1>1, <1>2, <1>3, <1>4, <1>5, <1>6, <1>7, <1>8, <1>9, <1>10, <1>11 DEF LoopNext, Recv

(* The server only ever adds to what it has sent, so that what the client  *)
(* has buffered stays where it is.                                         *)
LEMMA ServerSends ==
  ASSUME ServerTypeOK, ServerNext
  PROVE  Len(s2c') >= Len(s2c)
<1>t. s2c \in Seq(Packet) /\ Len(s2c) \in Nat
  BY DEF ServerTypeOK, WireTypeOK
<1>1. ASSUME NEW s \in Seq(Packet), NEW p \in Packet
      PROVE  Len(Append(s, p)) = Len(s) + 1 /\ Append(s, p) \in Seq(Packet) /\ Len(s) \in Nat
  OBVIOUS
<1>2. Acked \in Seq(Packet) /\ Len(Acked) >= Len(s2c)
  BY <1>t, <1>1, AckType DEF Acked
<1>3. ASSUME srv = "handle",
             NEW kind \in ReplyKinds \cup {"stop"}, NEW val \in Nat, Reply(kind, val)
      PROVE  Len(s2c') >= Len(s2c)
  <2>1. Answer(kind, val, Head(c2s)) \in Packet
    BY <1>3, AnswerType, HandledPacket
  <2> QED
    BY <1>t, <1>1, <1>2, <1>3, <2>1 DEF Reply
<1>4. ASSUME NEW sig \in Nat, ReportStop(sig)
      PROVE  Len(s2c') >= Len(s2c)
  BY <1>t, <1>1, <1>4, StoppedType DEF ReportStop
<1>5. CASE UNCHANGED s2c
  BY <1>t, <1>5
<1>6. CASE HandleHaltReason
  BY <1>3, <1>6 DEF HandleHaltReason, Handling, TRAP
<1>7. CASE HandleQuery
  BY <1>3, <1>7 DEF HandleQuery, Handling, ReplyKinds
<1>8. CASE HandleEmpty
  BY <1>3, <1>8 DEF HandleEmpty, Handling, ReplyKinds
<1>9. CASE HandleStartNoAckMode
  BY <1>3, <1>9 DEF HandleStartNoAckMode, Handling, ReplyKinds
<1>10. CASE HandleInterrupt
  <2> DEFINE s == Append(Acked, Answer("ok", 0, Head(c2s)))
  <2>1. Answer("ok", 0, Head(c2s)) \in Packet
    BY <1>10, AnswerType, HandledPacket DEF HandleInterrupt, Handling, ReplyKinds
  <2>2. s \in Seq(Packet) /\ Len(s) = Len(Acked) + 1 /\ Len(Acked) \in Nat
    BY <1>1, <1>2, <2>1
  <2>3. s2c' = Append(s, Stopped(INT)) /\ Stopped(INT) \in Packet
    BY <1>10, StoppedType DEF HandleInterrupt, INT
  <2> HIDE DEF s
  <2> QED
    BY <1>t, <1>1, <1>2, <2>2, <2>3
<1>11. CASE HandleStep
  BY <1>3, <1>11 DEF HandleStep, Handling, ReplyKinds
<1>12. CASE HandleContinue
  BY <1>3, <1>12 DEF HandleContinue, Handling, ReplyKinds
<1>13. CASE HandleAddBreakpoint
  BY <1>3, <1>13 DEF HandleAddBreakpoint, Handling, ReplyKinds
<1>14. CASE HandleRemoveBreakpoint
  <2>1. (IF Head(c2s).arg \in breakpoints THEN "ok" ELSE "error") \in ReplyKinds \cup {"stop"}
    BY DEF ReplyKinds
  <2> QED
    BY <1>3, <1>14, <2>1 DEF HandleRemoveBreakpoint, Handling
<1>15. CASE HandleReadRegisters
  <2>1. (IF instr = NoLine THEN 0 ELSE AddrOf(instr)) \in Nat
    BY AddressType
  <2> QED
    BY <1>3, <1>15, <2>1 DEF HandleReadRegisters, Handling, ReplyKinds
<1>16. CASE HandleReadRegister
  <2>1. PICK val \in RegisterReply(Head(c2s).arg) : Reply("hex", val)
    BY <1>16 DEF HandleReadRegister
  <2>2. val \in Nat
    BY <2>1, AddressType, HandlerAssumption DEF RegisterReply
  <2> QED
    BY <1>3, <1>16, <2>1, <2>2 DEF HandleReadRegister, Handling, ReplyKinds
<1>17. CASE HandleRaises
  BY <1>2, <1>17 DEF HandleRaises
<1>18. CASE Execute
  BY <1>4, <1>5, <1>18
     DEF Execute, ExecLimitReached, ExecEntryBreak, ExecInstr, ExecRaises, TRAP, SIGKILL
<1>19. CASE HandleAck \/ ServerAccept \/ ServerRecv \/ ServerNoInput \/ ServerLosesPeer
  BY <1>5, <1>19
     DEF HandleAck, ServerAccept, ServerRecv, ServerNoInput, ServerLosesPeer, wireVars
<1> QED
  BY <1>6, <1>7, <1>8, <1>9, <1>10, <1>11, <1>12, <1>13, <1>14, <1>15, <1>16, <1>17, <1>18, <1>19
     DEF ServerNext, Handle

LEMMA ServerStepKeepsSessionType ==
  ASSUME SessionTypeOK, ServerNext, UNCHANGED clientVars
  PROVE  SessionTypeOK'
<1>1. ServerTypeOK /\ ServerTypeOK'
  BY ServerStepType DEF SessionTypeOK
<1>2. buffered' \in 0 .. Len(s2c')
  <2>1. Len(s2c) \in Nat /\ Len(s2c') \in Nat
    BY <1>1 DEF ServerTypeOK, WireTypeOK
  <2>2. Len(s2c') >= Len(s2c)
    BY <1>1, ServerSends
  <2> QED
    BY <2>1, <2>2 DEF SessionTypeOK, clientVars
<1> QED
  BY <1>1, <1>2 DEF SessionTypeOK, clientVars

LEMMA SessionInitial ==
  ASSUME SessionInit
  PROVE  SessionTypeOK /\ Accounting
<1> USE DEF SessionInit
<1>1. SessionTypeOK
  <2>1. ServerTypeOK
    BY ServerInitType
  <2>2. frames \in Seq(Frame) /\ pushed \in Seq(Packet) /\ buffered \in 0 .. Len(s2c)
    <3>1. s2c = <<>>
      BY DEF ServerInit, StubInit, WireInit
    <3>2. Len(s2c) = 0
      BY <3>1, NoFrames
    <3> QED
      BY <3>2
  <2>3. left \in 0 .. Uis /\ bkNext \in 0 .. MaxBreaks
    BY FrontEndAssumption
  <2> QED
    BY <2>1, <2>2, <2>3 DEF SessionTypeOK
<1>2. c2s = <<>> /\ s2c = <<>> /\ cliOpen = FALSE /\ srv = "listen" /\ exeStopped /\ ~noAckMode
  BY DEF ServerInit, StubInit, WireInit
<1>3. 1 .. Len(frames) = {} /\ 1 .. Len(c2s) = {}
  <2>1. Len(frames) = 0 /\ Len(c2s) = 0
    BY <1>2, NoFrames
  <2> QED
    BY <2>1
<1>4. ~Connecting
  BY <1>3 DEF Connecting
<1>5. ClientSends /\ PendingInsert /\ StackShape /\ LoopShape
  <2>1. ClientSends /\ PendingInsert
    BY <1>3 DEF ClientSends, PendingInsert
  <2>2. LoopShape
    BY <1>2 DEF LoopShape
  <2>3. StackShape
    BY <1>2, <1>3 DEF StackShape, Gone
  <2> QED
    BY <2>1, <2>2, <2>3
<1>6. Handshake /\ ReplyDebt /\ NoStrayPacket /\ AckFree
  BY <1>2, <1>4 DEF Handshake, ReplyDebt, NoStrayPacket, AckFree
<1> QED
  BY <1>1, <1>5, <1>6 DEF Accounting

LEMMA SessionStutter ==
  ASSUME SessionTypeOK, Accounting, UNCHANGED sessionVars
  PROVE  SessionTypeOK' /\ Accounting'
<1>1. SessionTypeOK'
  BY DEF SessionTypeOK, ServerTypeOK, WireTypeOK, sessionVars, wireVars, serverVars, clientVars
<1>2. Accounting'
  BY DEF Accounting, ClientSends, PendingInsert, StackShape, LoopShape, Handshake, ReplyDebt,
         NoStrayPacket, AckFree, Connecting, Asked, Gone,
         sessionVars, wireVars, serverVars, clientVars
<1> QED
  BY <1>1, <1>2

LEMMA SessionStep ==
  ASSUME SessionTypeOK, Accounting, [SessionNext]_sessionVars
  PROVE  SessionTypeOK' /\ Accounting'
<1>1. CASE LoopNext \/ Command \/ Recv
  BY <1>1, ClientStepType, ClientKeepsAccounting
<1>2. CASE ServerNext /\ UNCHANGED clientVars
  <2>1. SessionTypeOK'
    BY <1>2, ServerStepKeepsSessionType
  <2> QED
    BY <1>2, <2>1, ServerKeepsAccounting
<1>3. CASE Finished \/ UNCHANGED sessionVars
  BY <1>3, SessionStutter DEF Finished
<1> QED
  BY <1>1, <1>2, <1>3 DEF SessionNext

(* The accounting is inductive: every reachable state of a session, with   *)
(* any program, any number of breakpoints and terminals and any front-end, *)
(* is well-typed and has one waiting call for each request under way.      *)
LEMMA SessionInvariant ==
  SessionSpec => [](SessionTypeOK /\ Accounting)
<1>1. SessionInit => SessionTypeOK /\ Accounting
  BY SessionInitial
<1>2. SessionTypeOK /\ Accounting /\ [SessionNext]_sessionVars => (SessionTypeOK /\ Accounting)'
  BY SessionStep
<1> QED
  BY <1>1, <1>2, PTL DEF SessionSpec

-----------------------------------------------------------------------------
(* Both processes, the wire and the stack of calls stay well-typed: in     *)
(* particular an inserted breakpoint always has a number left, and the     *)
(* address it was sent with is that of a code line.                        *)
THEOREM SessionTypeCorrect == SessionSpec => []SessionTypeOK
  BY SessionInvariant, PTL

THEOREM AccountingInvariant == SessionSpec => []Accounting
  BY SessionInvariant, PTL

(* There is one waiting receivePkt for every request under way, however    *)
(* deep stop reports have nested the calls.                                *)
THEOREM RepliesAccounted == SessionSpec => []ReplyDebt
<1>1. Accounting => ReplyDebt
  BY DEF Accounting
<1> QED
  BY <1>1, SessionInvariant, PTL

(* poolInterrupts never has a packet to push back.                         *)
THEOREM PollsOnlyStops == SessionSpec => []NoStrayPacket
<1>1. Accounting => NoStrayPacket
  BY DEF Accounting
<1> QED
  BY <1>1, SessionInvariant, PTL

(* After the handshake the server acknowledges nothing, and no             *)
(* acknowledgement of the handshake is left for a later call to take.      *)
THEOREM AcksEndWithHandshake == SessionSpec => []AckFree
<1>1. Accounting => AckFree
  BY DEF Accounting
<1> QED
  BY <1>1, SessionInvariant, PTL

=============================================================================
