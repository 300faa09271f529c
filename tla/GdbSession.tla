----------------------------- MODULE GdbSession -----------------------------
(***************************************************************************)
(* A whole debug session: the server of module GdbServer and the debugger  *)
(* process, that is the main loop of gdbLlvimIr.py, the command functions  *)
(* gdbLlvmIrProcessCmd* it dispatches to and the GdbRemoteClient they      *)
(* share.  The front-end (VS Code, Eclipse) is the environment: it decides *)
(* which command comes next.                                               *)
(*                                                                         *)
(* The debugger has one thread, but GdbRemoteClient is re-entrant: any     *)
(* receivePkt that meets a stop report calls the interrupt handler, which  *)
(* sends a request of its own and calls receivePkt again before the first  *)
(* call has its reply.  "frames" is that stack of waiting calls.           *)
(***************************************************************************)
EXTENDS GdbServer, FiniteSets

CONSTANTS
  Uis,          \* bound: commands served in one pass of the loop, one per MI terminal
  MaxBreaks,    \* bound: breakpoints inserted in a session
  ReadIdx,      \* registers var-create and var-update read (module VarObjects)
  WhileRunning, \* requests the front-end may cause while it waits for a *stopped
  UniqueBreaks  \* does the front-end insert no breakpoint on a line that has one

ASSUME FrontEndAssumption ==
  /\ Uis \in Nat /\ MaxBreaks \in Nat
  /\ ReadIdx \subseteq Nat
  /\ WhileRunning \subseteq {"c", "s", "vCtrlC", "Z", "z", "p"}
  /\ UniqueBreaks \in BOOLEAN

VARIABLES
  cli,      \* where main is: poll (poolInterrupts), serve, command, dead, exited
  remote,   \* state.remote is not None
  frames,   \* calls of receivePkt that wait for a packet, the innermost first
  buffered, \* leading packets of s2c that are in receiveBuffer
  pushed,   \* _receivedPkt: nothing or one packet
  left,     \* inputs of toRead the loop still has to serve
  ui,       \* what the front-end shows: stopped or running
  interrupted, \* has an exec-interrupt been answered since the last *stopped
  shown,    \* the code line of the last *stopped it was sent
  table,    \* state.breakpoints: number to code line
  bkNext    \* state.breakpointIdCntr

clientVars == <<cli, remote, frames, buffered, pushed, left, ui, interrupted, shown, table, bkNext>>

sessionVars == <<wireVars, serverVars, clientVars>>

Numbers == 0 .. MaxBreaks - 1

Roles == {"ack", "connect", "ok", "read", "values", "stop"}

Frame == [role : Roles, req : Message]

Waiting(role, m) == [role |-> role, req |-> m]

SessionTypeOK ==
  /\ ServerTypeOK
  /\ cli \in {"poll", "serve", "command", "dead", "exited"}
  /\ remote \in BOOLEAN
  /\ frames \in Seq(Frame)
  /\ buffered \in 0 .. Len(s2c)
  /\ pushed \in Seq(Packet)
  /\ left \in 0 .. Uis
  /\ ui \in {"stopped", "running"}
  /\ interrupted \in BOOLEAN
  /\ shown \in Nat \cup {NoLine}
  /\ table \in [Numbers -> Lines \cup {NoLine}]
  /\ bkNext \in 0 .. MaxBreaks

SessionInit ==
  /\ ServerInit
  /\ cli = "poll"
  /\ remote = FALSE
  /\ frames = <<>>
  /\ buffered = 0
  /\ pushed = <<>>
  /\ left = 0
  /\ ui = "stopped"
  /\ interrupted = FALSE
  /\ shown = NoLine
  /\ table = [n \in Numbers |-> NoLine]
  /\ bkNext = 0

-----------------------------------------------------------------------------
(* receivePkt: a packet pushed back comes first, then receiveBuffer, then  *)
(* what recv returns.                                                      *)

Readable == pushed # <<>> \/ s2c # <<>>

Incoming == IF pushed # <<>> THEN Head(pushed) ELSE Head(s2c)

FromWire ==
  /\ s2c' = Tail(s2c)
  /\ IF buffered > 0
     THEN buffered' = buffered - 1
     ELSE \E n \in 1 .. Len(s2c) : buffered' = n - 1

Receive ==
  /\ Readable
  /\ IF pushed # <<>>
     THEN pushed' = <<>> /\ UNCHANGED <<s2c, buffered>>
     ELSE FromWire /\ UNCHANGED pushed

(* A stop report is never returned: the interrupt handler runs first.      *)
StopArrives == pushed = <<>> /\ s2c # <<>> /\ Head(s2c).kind = "stop"

(* Mutant of AskPosition: the handler does not wait for the reply.         *)
AskAndForget ==
  /\ c2s' = Append(c2s, Request("p", 0))
  /\ UNCHANGED frames

(* interuptHandler begins with readRegister(0) on the same connection.     *)
AskPosition ==
  /\ c2s' = Append(c2s, Request("p", 0))
  /\ frames' = <<Waiting("stop", Request("p", 0))>> \o frames

(* An exception ends main, except one raised while connecting, after which *)
(* the debugger goes on without a target.  Either way the socket closes.   *)
Connecting == \E i \in 1 .. Len(frames) : frames[i].role \in {"ack", "connect"}

Raise ==
  /\ cli' = IF Connecting THEN "serve" ELSE "dead"
  /\ remote' = (remote /\ ~Connecting)
  /\ frames' = <<>>
  /\ cliOpen' = FALSE

-----------------------------------------------------------------------------
(* One pass of the loop: poolInterrupts, then the inputs select found.     *)

StartServing ==
  /\ cli' = "serve"
  /\ left' = Uis

Polling == cli = "poll" /\ frames = <<>>

(* There is no remote, nothing has arrived, or what receivePkt returns is  *)
(* the packet that is pushed back again.                                   *)
PollNothing ==
  /\ Polling
  /\ ~remote \/ pushed # <<>> \/ buffered = 0
  /\ StartServing
  /\ UNCHANGED <<wireVars, serverVars, remote, frames, buffered, pushed, ui, interrupted, shown, table, bkNext>>

(* After a stop receivePkt goes on to look for another packet, so the      *)
(* debugger keeps polling.                                                 *)
PollPacket ==
  /\ Polling
  /\ remote /\ pushed = <<>> /\ s2c # <<>>
  /\ FromWire
  /\ IF StopArrives
     THEN AskPosition /\ UNCHANGED <<cli, left, pushed>>
     ELSE pushed' = <<Head(s2c)>> /\ StartServing /\ UNCHANGED <<c2s, frames>>
  /\ UNCHANGED <<cliOpen, serverVars, remote, ui, interrupted, shown, table, bkNext>>

(* The other inputs had no complete line, or a command that needs no       *)
(* remote.                                                                 *)
ServeDone ==
  /\ cli = "serve"
  /\ cli' = "poll"
  /\ UNCHANGED <<wireVars, serverVars, remote, frames, buffered, pushed, left, ui, interrupted, shown, table, bkNext>>

Exit ==
  /\ cli = "serve" /\ left > 0
  /\ cli' = "exited"
  /\ cliOpen' = FALSE
  /\ UNCHANGED <<c2s, s2c, serverVars, remote, frames, buffered, pushed, left, ui, interrupted, shown, table, bkNext>>

-----------------------------------------------------------------------------
(* Commands, up to the point where they wait for the first packet.         *)

Call(role, m) ==
  /\ cli = "serve" /\ left > 0
  /\ left' = left - 1
  /\ cli' = "command"
  /\ c2s' = Append(c2s, m)
  /\ frames' = <<Waiting(role, m)>>
  /\ UNCHANGED <<s2c, serverVars, buffered, pushed, ui, interrupted, shown, bkNext>>

(* The front-end selects the target once, when the server listens: a       *)
(* refused connection changes nothing here.                                *)
TargetSelect ==
  /\ ~remote /\ srv = "listen"
  /\ remote' = TRUE
  /\ cliOpen' = TRUE
  /\ Call("ack", Request("qSupported", 0))
  /\ UNCHANGED table

(* The front-end waits for a *stopped while it shows the program as        *)
(* running, and from the answer to an exec-interrupt on.                   *)
Expecting == ui = "running" \/ interrupted

(* What may be served, not what is written: an exec-interrupt written      *)
(* while the program ran may be served after the *stopped of a breakpoint. *)
Sends(op) ==
  /\ remote
  /\ Expecting \/ op = "vCtrlC" => op \in WhileRunning
  /\ op = "vCtrlC" => Expecting \/ shown # NoLine
  /\ UNCHANGED <<cliOpen, remote>>

(* exec-continue and exec-run, exec-next and exec-step, exec-interrupt.    *)
ExecCommand ==
  \E op \in {"c", "s", "vCtrlC"} :
    Sends(op) /\ Call("ok", Request(op, 0)) /\ UNCHANGED table

(* stack-list-frames, thread-info, list-thread-groups i1 and thread-select *)
(* read the program counter, var-create and var-update the others.         *)
ReadCommand ==
  \E r \in {0} \cup ReadIdx :
    Sends("p") /\ Call("read", Request("p", r)) /\ UNCHANGED table

ListValues ==
  /\ NumRegs > 0
  /\ Sends("p") /\ Call("values", Request("p", 1)) /\ UNCHANGED table

BreakInsert ==
  \E line \in Lines :
    /\ bkNext < MaxBreaks
    /\ UniqueBreaks => \A n \in Numbers : table[n] # line
    /\ Sends("Z") /\ Call("ok", Request("Z", AddrOf(line))) /\ UNCHANGED table

(* Mutant of BreakDelete: a code line is sent for an address.              *)
BreakDeleteByLine ==
  \E n \in Numbers :
    /\ table[n] # NoLine
    /\ table' = [table EXCEPT ![n] = NoLine]
    /\ Sends("z") /\ Call("ok", Request("z", table[n]))

(* The number leaves the table before the server is asked.                 *)
BreakDelete ==
  \E n \in Numbers :
    /\ table[n] # NoLine
    /\ table' = [table EXCEPT ![n] = NoLine]
    /\ Sends("z") /\ Call("ok", Request("z", AddrOf(table[n])))

Command ==
  \/ TargetSelect
  \/ ExecCommand
  \/ ReadCommand
  \/ ListValues
  \/ BreakInsert
  \/ BreakDelete

-----------------------------------------------------------------------------
(* The innermost waiting call gets a packet.                               *)

Takes(role) == frames # <<>> /\ Head(frames).role = role /\ Readable /\ ~StopArrives

Asked == Head(frames).req

(* Mutant of Number: readRegister returns something for OK, too.           *)
NumberOrOk == {"hex", "empty", "ok"}

Number == {"hex", "empty"}

Expected(f) ==
  CASE f.role = "ack" -> {"ack"}
    [] f.role = "connect" /\ f.req.op = "qSupported" -> {"text"}
    [] f.role = "connect" /\ f.req.op = "vMustReplyEmpty" -> {"empty"}
    [] f.role \in {"read", "values", "stop"} -> Number
    [] OTHER -> {"ok"}

Good(role) == Takes(role) /\ Incoming.kind \in Expected(Head(frames))

Return ==
  /\ frames' = Tail(frames)
  /\ cli' = "serve"

RecvStop ==
  /\ frames # <<>>
  /\ StopArrives
  /\ FromWire
  /\ AskPosition
  /\ UNCHANGED <<cliOpen, serverVars, cli, remote, pushed, left, ui, interrupted, shown, table, bkNext>>

RecvAck ==
  /\ Good("ack")
  /\ Receive
  /\ frames' = <<Waiting("connect", Asked)>> \o Tail(frames)
  /\ UNCHANGED <<c2s, cliOpen, serverVars, cli, remote, left, ui, interrupted, shown, table, bkNext>>

(* The next line of the handshake; the client acknowledges the second and  *)
(* third reply only.                                                       *)
RecvConnect ==
  /\ Good("connect")
  /\ Receive
  /\ LET Ask(op) == frames' = <<Waiting("ack", Request(op, 0))>> \o Tail(frames) /\ UNCHANGED cli
     IN  \/ /\ Asked.op = "qSupported"
            /\ c2s' = Append(c2s, Request("vMustReplyEmpty", 0))
            /\ Ask("vMustReplyEmpty")
         \/ /\ Asked.op = "vMustReplyEmpty"
            /\ c2s' = c2s \o <<ClientAck, Request("QStartNoAckMode", 0)>>
            /\ Ask("QStartNoAckMode")
         \/ /\ Asked.op = "QStartNoAckMode"
            /\ c2s' = Append(c2s, ClientAck)
            /\ Return
  /\ UNCHANGED <<cliOpen, serverVars, remote, left, ui, interrupted, shown, table, bkNext>>

(* Mutant of RecvOk: breakpointIdCntr does not count.                      *)
RecvOkSameNumber ==
  /\ Good("ok")
  /\ Receive
  /\ Return
  /\ ui' = IF Asked.op \in {"c", "s"} THEN "running" ELSE ui
  /\ interrupted' = (interrupted \/ Asked.op = "vCtrlC")
  /\ table' = IF Asked.op = "Z" THEN [table EXCEPT ![bkNext] = LineOf(Asked.arg)] ELSE table
  /\ UNCHANGED <<c2s, cliOpen, serverVars, remote, left, shown, bkNext>>

(* ^running goes out when a resume is confirmed, the ^done of an           *)
(* exec-interrupt before its report, and an inserted breakpoint gets its   *)
(* number then.                                                            *)
RecvOk ==
  /\ Good("ok")
  /\ Receive
  /\ Return
  /\ ui' = IF Asked.op \in {"c", "s"} THEN "running" ELSE ui
  /\ interrupted' = (interrupted \/ Asked.op = "vCtrlC")
  /\ IF Asked.op = "Z"
     THEN /\ table' = [table EXCEPT ![bkNext] = LineOf(Asked.arg)]
          /\ bkNext' = bkNext + 1
     ELSE UNCHANGED <<table, bkNext>>
  /\ UNCHANGED <<c2s, cliOpen, serverVars, remote, left, shown>>

RecvRead ==
  /\ Good("read")
  /\ Receive
  /\ Return
  /\ UNCHANGED <<c2s, cliOpen, serverVars, remote, left, ui, interrupted, shown, table, bkNext>>

RecvListed ==
  /\ Good("values")
  /\ Receive
  /\ IF Asked.arg < NumRegs
     THEN LET next == Request("p", Asked.arg + 1)
          IN  /\ c2s' = Append(c2s, next)
              /\ frames' = <<Waiting("values", next)>> \o Tail(frames)
              /\ UNCHANGED cli
     ELSE Return /\ UNCHANGED c2s
  /\ UNCHANGED <<cliOpen, serverVars, remote, left, ui, interrupted, shown, table, bkNext>>

(* The rest of interuptHandler: *stopped goes to the front-end, and the    *)
(* call that met the report waits on.                                      *)
RecvPosition ==
  /\ Good("stop")
  /\ Receive
  /\ frames' = Tail(frames)
  /\ ui' = "stopped"
  /\ interrupted' = FALSE
  /\ shown' = LineOf(Incoming.val)
  /\ UNCHANGED <<c2s, cliOpen, serverVars, cli, remote, left, table, bkNext>>

(* Any other packet fails an assertion or does not parse as a number.      *)
RecvWrong ==
  /\ frames # <<>> /\ Readable /\ ~StopArrives
  /\ Incoming.kind \notin Expected(Head(frames))
  /\ Receive
  /\ Raise
  /\ UNCHANGED <<c2s, serverVars, left, ui, interrupted, shown, table, bkNext>>

(* The server has closed: recv returns nothing, and "assert buff" fails.   *)
RecvEof ==
  /\ frames # <<>> \/ (Polling /\ remote)
  /\ ~Readable
  /\ srv = "closed"
  /\ Raise
  /\ UNCHANGED <<c2s, s2c, serverVars, buffered, pushed, left, ui, interrupted, shown, table, bkNext>>

Recv ==
  \/ RecvStop
  \/ RecvAck
  \/ RecvConnect
  \/ RecvOk
  \/ RecvRead
  \/ RecvListed
  \/ RecvPosition
  \/ RecvWrong
  \/ RecvEof

-----------------------------------------------------------------------------
Gone == cli \in {"dead", "exited"}

Finished == Gone /\ UNCHANGED sessionVars

LoopNext ==
  \/ PollNothing
  \/ PollPacket
  \/ ServeDone
  \/ Exit

SessionNext ==
  \/ LoopNext
  \/ Command
  \/ Recv
  \/ ServerNext /\ UNCHANGED clientVars
  \/ Finished

SessionSpec == SessionInit /\ [][SessionNext]_sessionVars

(* select and recv return when something is there, handlers return or      *)
(* raise, and what was sent arrives: a select that has timed out finds it  *)
(* one of the next times.  The front-end owes nothing.                     *)
FairSessionSpec ==
  /\ SessionSpec
  /\ WF_sessionVars((ServerAccept \/ ServerNoInput \/ Handle \/ Execute) /\ UNCHANGED clientVars)
  /\ SF_sessionVars(ServerRecv /\ UNCHANGED clientVars)
  /\ WF_sessionVars(PollNothing \/ ServeDone \/ Recv)
  /\ SF_sessionVars(PollPacket)

-----------------------------------------------------------------------------
Count(s, S) == Cardinality({ i \in 1 .. Len(s) : s[i] \in S })

Requests == { m \in Message : Asks(m) }

Answers == { p \in Packet : p.kind \in ReplyKinds }

Acks == { p \in Packet : p.kind = "ack" }

Stops == { p \in Packet : p.kind = "stop" }

(* The reply accounting of the re-entrant receivePkt: there is exactly one *)
(* waiting call for every request under way, as a request or as its answer *)
(* - although the replies carry no name and a nested call may take the     *)
(* packet of an outer one.  A server that has closed may owe a reply.      *)
ReplyDebt ==
  cliOpen =>
    /\ Count(c2s, Requests) + Count(s2c, Answers) <= Len(frames)
    /\ srv # "closed" => Count(c2s, Requests) + Count(s2c, Answers) = Len(frames)

(* poolInterrupts never meets anything but a stop report: the packet it    *)
(* would push back, and every later poll would return instead of looking   *)
(* at the socket, never exists.                                            *)
NoStrayPacket == pushed = <<>>

(* Acknowledgements are part of the handshake only.  One left over would   *)
(* be taken by a later call in place of its reply.                         *)
AckFree == cliOpen /\ ~Connecting => noAckMode /\ Count(s2c, Acks) = 0

(* Why the three hold: an inductive invariant.                             *)
ClientOps == {"+", "qSupported", "vMustReplyEmpty", "QStartNoAckMode", "c", "s", "vCtrlC", "Z", "z", "p"}

ClientSends == \A i \in 1 .. Len(c2s) : c2s[i].op \in ClientOps

(* The stack of calls: only the outermost call is a command's own.         *)
StackShape ==
  /\ Gone => ~cliOpen
  /\ ~Gone => cliOpen = remote
  /\ frames # <<>> => cliOpen
  /\ cli = "serve" => frames = <<>>
  /\ \A i \in 1 .. Len(frames) : frames[i].role # "stop" => i = Len(frames) /\ cli = "command"

LoopShape ==
  /\ srv = "exec" => ~exeStopped
  /\ srv = "listen" => /\ exeStopped
                       /\ ~noAckMode
                       /\ s2c = <<>>
                       /\ ~remote => c2s = <<>>

(* While connecting one call waits, the program is halted, and an answer   *)
(* is preceded by its acknowledgement until that has been taken.           *)
Handshake ==
  Connecting =>
    /\ Len(frames) = 1
    /\ Asked.op \in {"qSupported", "vMustReplyEmpty", "QStartNoAckMode"}
    /\ srv # "closed" /\ exeStopped
    /\ Count(s2c, Stops) = 0
    /\ \A i \in 1 .. Len(c2s) : Asks(c2s[i]) => c2s[i] = Asked
    /\ noAckMode <=> Asked.op = "QStartNoAckMode" /\ Count(c2s, Requests) = 0
    /\ IF Head(frames).role = "ack"
       THEN Count(s2c, Acks) = Count(s2c, Answers)
       ELSE Count(s2c, Acks) = 0 /\ Count(c2s, Requests) = 0

(* A breakpoint under way has a number left and a line.                    *)
PendingInsert ==
  \A i \in 1 .. Len(frames) :
    frames[i].req.op = "Z" => bkNext < MaxBreaks /\ LineOf(frames[i].req.arg) \in Lines

Accounting ==
  /\ ClientSends
  /\ PendingInsert
  /\ StackShape
  /\ LoopShape
  /\ Handshake
  /\ ReplyDebt
  /\ NoStrayPacket
  /\ AckFree

Idle == ~Gone /\ remote /\ frames = <<>>

(* While the front-end shows the program as stopped, it is, and at the     *)
(* line of the *stopped message.                                           *)
Truthful ==
  Idle /\ ui = "stopped" =>
    exeStopped /\ (shown # NoLine => Pc = AddrOf(shown))

(* The packet a waiting call is about to take answers the request that     *)
(* this call has sent.                                                     *)
NextReplyIsMine ==
  frames # <<>> /\ Readable /\ ~StopArrives /\ Head(frames).role # "ack"
    => Incoming.re = Asked

(* No assertion of GdbRemoteClient fails and no reply fails to parse.      *)
ClientAlive == cli # "dead"

(* The server's breakpoints are those of the debugger's table.             *)
BreakpointsMirrored ==
  Idle /\ cli # "command" =>
    breakpoints = { AddrOf(table[n]) : n \in { k \in Numbers : table[k] # NoLine } }

(* Every command the front-end sends is answered, and the loop gets back   *)
(* to its inputs.                                                          *)
CommandsReturn == cli = "command" ~> cli \in {"serve", "exited"}

(* A confirmed step is reported to the front-end: the program halts, and a *)
(* poll or a nested receivePkt meets the report.                           *)
StepIsReported == ui = "running" /\ cycleLimit # Inf ~> ui = "stopped" \/ Gone

(* breakDelete asserts that the server answers "OK".                       *)
DeleteConfirmed == Takes("ok") /\ Asked.op = "z" => Incoming.kind = "ok"

(* interuptHandler, which has a branch for SIGKILL, gets the position it   *)
(* asks for before it writes the *stopped message.                         *)
PositionFollowsReport ==
  frames # <<>> /\ Head(frames).role = "stop" /\ ~Readable => srv # "closed"

=============================================================================
