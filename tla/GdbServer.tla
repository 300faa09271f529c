----------------------------- MODULE GdbServer -----------------------------
(***************************************************************************)
(* The simulation's side of a debug session: GDBServerStub                 *)
(* (gdbServerStub.py), which owns the connection and the loop that         *)
(* alternates between reading packets and running one instruction, and     *)
(* GdbCmdHandlerLllvmIr (gdbCmdHandlerLlvmIr.py), which it calls back and  *)
(* which keeps the position in the LLVM IR, the breakpoints and the number *)
(* of instructions it may still run.                                       *)
(*                                                                         *)
(* The program being debugged is a control flow graph over code lines; the *)
(* values its instructions compute are left out.                           *)
(***************************************************************************)
EXTENDS RspWire

CONSTANTS
  Lines,       \* code lines that hold an instruction
  Entry,       \* the first instruction's code line, codelineOffset
  Succ,        \* the lines an instruction may continue at
  Faulting,    \* lines whose instruction may raise, as input reads do at the end of input
  NumRegs,     \* registers besides the program counter
  RegVals,     \* what such a register may hold
  RunnerBound, \* does the handler have waveLog, timeStep, nowTime, fn, ... which
               \* runCurrentInstr reads and __init__ does not set
  Inf,         \* math.inf
  NoLine       \* None

ASSUME ProgramAssumption ==
  /\ Lines \subseteq Nat \ {0}
  /\ Entry \in Lines
  /\ Succ \in [Lines -> SUBSET Lines]
  /\ Faulting \subseteq Lines
  /\ NoLine \notin Lines

ASSUME HandlerAssumption ==
  /\ NumRegs \in Nat
  /\ RegVals \subseteq Nat /\ RegVals # {}
  /\ RunnerBound \in BOOLEAN
  /\ Inf \notin Nat

VARIABLES
  srv,         \* where GDBServerStub.start is
  got,         \* packets of c2s that belong to the chunk recv returned
  noAckMode,
  exeStopped,
  cycleLimit,
  instr,       \* the next instruction, not executed yet
  breakpoints, \* addresses
  ran          \* history: instructions run since the last resume, 2 for any more

serverVars == <<srv, got, noAckMode, exeStopped, cycleLimit, instr, breakpoints, ran>>

ServerTypeOK ==
  /\ WireTypeOK
  /\ srv \in {"listen", "select", "handle", "exec", "closed"}
  /\ got \in 0 .. Len(c2s)
  /\ srv = "handle" => got > 0
  /\ noAckMode \in BOOLEAN
  /\ exeStopped \in BOOLEAN
  /\ cycleLimit \in {0, 1, Inf}
  /\ instr \in Lines \cup {NoLine}
  /\ breakpoints \subseteq Nat
  /\ ran \in 0 .. 2

StubInit ==
  /\ srv = "listen"
  /\ got = 0
  /\ noAckMode = FALSE
  /\ exeStopped = TRUE

HandlerInit ==
  /\ cycleLimit = 0
  /\ instr = NoLine
  /\ breakpoints = {}
  /\ ran = 0

ServerInit ==
  /\ WireInit
  /\ StubInit
  /\ HandlerInit

-----------------------------------------------------------------------------
(* The loop: accept one connection, then select, handle, run, ...          *)

ServerAccept ==
  /\ srv = "listen"
  /\ cliOpen
  /\ srv' = "select"
  /\ UNCHANGED <<wireVars, got, noAckMode, exeStopped, cycleLimit, instr, breakpoints, ran>>

ServerRecv ==
  /\ srv = "select"
  /\ \E n \in 1 .. Len(c2s) : got' = n
  /\ srv' = "handle"
  /\ UNCHANGED <<wireVars, noAckMode, exeStopped, cycleLimit, instr, breakpoints, ran>>

(* select timed out, or recv returned the empty string because the client  *)
(* has closed: either way onData has nothing to do.                        *)
ServerNoInput ==
  /\ srv = "select"
  /\ ~exeStopped
  /\ srv' = "exec"
  /\ UNCHANGED <<wireVars, got, noAckMode, exeStopped, cycleLimit, instr, breakpoints, ran>>

(* The client has closed, and a send or a recv raises.                     *)
ServerLosesPeer ==
  /\ srv \in {"select", "handle", "exec"}
  /\ ~cliOpen
  /\ srv' = "closed"
  /\ UNCHANGED <<wireVars, got, noAckMode, exeStopped, cycleLimit, instr, breakpoints, ran>>

-----------------------------------------------------------------------------
(* One packet of the chunk.                                                *)

Handling(op) == srv = "handle" /\ Head(c2s).op = op

(* Mutants of AfterPacket: the loop of onData runs once too often, or      *)
(* drops the rest of the chunk.                                            *)
AfterPacketOffByOne ==
  /\ c2s' = Tail(c2s)
  /\ got' = got - 1
  /\ srv' = "handle"
  /\ UNCHANGED cliOpen

AfterPacketDropsRest ==
  /\ c2s' = SubSeq(c2s, got + 1, Len(c2s))
  /\ got' = 0
  /\ srv' = IF exeStopped' THEN "select" ELSE "exec"
  /\ UNCHANGED cliOpen

(* Every branch of handlePacket starts with the acknowledgement and ends   *)
(* with the reply; onData goes on with the rest of the chunk, and after it *)
(* the loop runs an instruction unless the execution is stopped.           *)
AfterPacket ==
  /\ c2s' = Tail(c2s)
  /\ got' = got - 1
  /\ srv' = IF got > 1 THEN "handle" ELSE IF exeStopped' THEN "select" ELSE "exec"
  /\ UNCHANGED cliOpen

Acked == IF noAckMode THEN s2c ELSE Append(s2c, Ack)

Reply(kind, val) ==
  /\ s2c' = Append(Acked, Answer(kind, val, Head(c2s)))
  /\ AfterPacket

HandleAck ==
  /\ Handling("+")
  /\ UNCHANGED <<s2c, noAckMode, exeStopped, cycleLimit, instr, breakpoints, ran>>
  /\ AfterPacket

HandleHaltReason ==
  /\ Handling("?")
  /\ UNCHANGED <<noAckMode, exeStopped, cycleLimit, instr, breakpoints, ran>>
  /\ Reply("stop", TRAP)

Queries == {"qSupported", "query"}

HandleQuery ==
  /\ \E op \in Queries : Handling(op)
  /\ UNCHANGED <<noAckMode, exeStopped, cycleLimit, instr, breakpoints, ran>>
  /\ Reply("text", 0)

(* vMustReplyEmpty is answered by an empty text, anything unknown by the   *)
(* empty "unsupported" reply.                                              *)
HandleEmpty ==
  /\ \E op \in {"vMustReplyEmpty", "unknown"} : Handling(op)
  /\ UNCHANGED <<noAckMode, exeStopped, cycleLimit, instr, breakpoints, ran>>
  /\ Reply("empty", 0)

(* Mutant of HandleStartNoAckMode: confirmed, and forgotten.               *)
HandleStartNoAckModeForgets ==
  /\ Handling("QStartNoAckMode")
  /\ UNCHANGED <<noAckMode, exeStopped, cycleLimit, instr, breakpoints, ran>>
  /\ Reply("ok", 0)

HandleStartNoAckMode ==
  /\ Handling("QStartNoAckMode")
  /\ noAckMode' = TRUE
  /\ UNCHANGED <<exeStopped, cycleLimit, instr, breakpoints, ran>>
  /\ Reply("ok", 0)

(* Mutant of HandleInterrupt: reported, and still running.                 *)
HandleInterruptKeepsRunning ==
  /\ Handling("vCtrlC")
  /\ UNCHANGED <<noAckMode, exeStopped, cycleLimit, instr, breakpoints, ran>>
  /\ s2c' = Append(Append(Acked, Answer("ok", 0, Head(c2s))), Stopped(INT))
  /\ AfterPacket

(* handleInterruption's OK is followed by a stop report in the same call.  *)
HandleInterrupt ==
  /\ Handling("vCtrlC")
  /\ exeStopped' = TRUE
  /\ s2c' = Append(Append(Acked, Answer("ok", 0, Head(c2s))), Stopped(INT))
  /\ AfterPacket
  /\ UNCHANGED <<noAckMode, cycleLimit, instr, breakpoints, ran>>

(* Mutants of HandleStep: no reply, or a limit of no instruction.          *)
HandleStepAtZero ==
  /\ Handling("s")
  /\ cycleLimit' = 0
  /\ exeStopped' = FALSE
  /\ ran' = 0
  /\ UNCHANGED <<noAckMode, instr, breakpoints>>
  /\ Reply("ok", 0)

HandleStepSilently ==
  /\ Handling("s")
  /\ cycleLimit' = 1
  /\ exeStopped' = FALSE
  /\ ran' = 0
  /\ UNCHANGED <<noAckMode, instr, breakpoints>>
  /\ s2c' = Acked
  /\ AfterPacket

HandleStep ==
  /\ Handling("s")
  /\ cycleLimit' = 1
  /\ exeStopped' = FALSE
  /\ ran' = 0
  /\ UNCHANGED <<noAckMode, instr, breakpoints>>
  /\ Reply("ok", 0)

HandleContinue ==
  /\ Handling("c")
  /\ cycleLimit' = Inf
  /\ exeStopped' = FALSE
  /\ ran' = 0
  /\ UNCHANGED <<noAckMode, instr, breakpoints>>
  /\ Reply("ok", 0)

HandleAddBreakpoint ==
  /\ Handling("Z")
  /\ breakpoints' = breakpoints \cup {Head(c2s).arg}
  /\ UNCHANGED <<noAckMode, exeStopped, cycleLimit, instr, ran>>
  /\ Reply("ok", 0)

HandleRemoveBreakpoint ==
  /\ Handling("z")
  /\ breakpoints' = breakpoints \ {Head(c2s).arg}
  /\ UNCHANGED <<noAckMode, exeStopped, cycleLimit, instr, ran>>
  /\ Reply(IF Head(c2s).arg \in breakpoints THEN "ok" ELSE "error", 0)

(* The program counter in "g" before the first instruction is 0 ...        *)
HandleReadRegisters ==
  /\ Handling("g")
  /\ UNCHANGED <<noAckMode, exeStopped, cycleLimit, instr, breakpoints, ran>>
  /\ Reply("hex", IF instr = NoLine THEN 0 ELSE AddrOf(instr))

(* ... and in "p0" it is the address of the code line offset.              *)
Pc == AddrOf(IF instr = NoLine THEN Entry ELSE instr)

RegisterReply(r) == IF r = 0 THEN {Pc} ELSE RegVals

HandleReadRegister ==
  /\ Handling("p")
  /\ Head(c2s).arg <= NumRegs
  /\ UNCHANGED <<noAckMode, exeStopped, cycleLimit, instr, breakpoints, ran>>
  /\ \E val \in RegisterReply(Head(c2s).arg) : Reply("hex", val)

(* A handler raises: nothing in onData or start catches it, so the         *)
(* connection and the server go with it.  The acknowledgement is out.      *)
Raising(m) == m.op = "raising" \/ (m.op = "p" /\ m.arg > NumRegs)

HandleRaises ==
  /\ srv = "handle"
  /\ Raising(Head(c2s))
  /\ srv' = "closed"
  /\ c2s' = Tail(c2s)
  /\ got' = got - 1
  /\ s2c' = Acked
  /\ UNCHANGED <<cliOpen, noAckMode, exeStopped, cycleLimit, instr, breakpoints, ran>>

-----------------------------------------------------------------------------
(* runCurrentInstr and what start does with its result.                    *)

Current == IF instr = NoLine THEN Entry ELSE instr

(* The first call of all checks the entry's breakpoint before it runs.     *)
EntryBreak == instr = NoLine /\ AddrOf(Entry) \in breakpoints

MayRun == srv = "exec" /\ RunnerBound /\ cycleLimit # 0

(* Mutant of CycleSpent: the limit is checked and not counted down.        *)
CycleKept == cycleLimit

CycleSpent == IF cycleLimit = Inf THEN Inf ELSE cycleLimit - 1

(* Mutant of ReportStop: the report goes out and the loop runs on.         *)
ReportAndRun(sig) ==
  /\ s2c' = Append(s2c, Stopped(sig))
  /\ UNCHANGED exeStopped

ReportStop(sig) ==
  /\ s2c' = Append(s2c, Stopped(sig))
  /\ exeStopped' = TRUE

ExecLimitReached ==
  /\ srv = "exec"
  /\ RunnerBound
  /\ cycleLimit = 0
  /\ ReportStop(TRAP)
  /\ srv' = "select"
  /\ UNCHANGED <<c2s, cliOpen, got, noAckMode, cycleLimit, instr, breakpoints, ran>>

ExecEntryBreak ==
  /\ MayRun
  /\ EntryBreak
  /\ cycleLimit' = CycleSpent
  /\ instr' = Entry
  /\ ReportStop(TRAP)
  /\ srv' = "select"
  /\ UNCHANGED <<c2s, cliOpen, got, noAckMode, breakpoints, ran>>

ExecInstr ==
  /\ MayRun
  /\ ~EntryBreak
  /\ \E next \in Succ[Current] :
       /\ instr' = next
       /\ IF AddrOf(next) \in breakpoints
          THEN ReportStop(TRAP)
          ELSE UNCHANGED <<s2c, exeStopped>>
  /\ cycleLimit' = CycleSpent
  /\ ran' = IF ran < 2 THEN ran + 1 ELSE 2
  /\ srv' = "select"
  /\ UNCHANGED <<c2s, cliOpen, got, noAckMode, breakpoints>>

(* Anything runCurrentInstr raises - the end of the program's input, the   *)
(* end of the function, an attribute the handler lacks - is reported as a  *)
(* SIGKILL stop, after which the stub closes.                              *)
ExecRaises ==
  /\ srv = "exec"
  /\ RunnerBound => MayRun /\ ~EntryBreak /\ (Current \in Faulting \/ Succ[Current] = {})
  /\ IF RunnerBound
     THEN instr' \in {Current, NoLine} /\ cycleLimit' = CycleSpent
     ELSE UNCHANGED <<instr, cycleLimit>>
  /\ ReportStop(SIGKILL)
  /\ srv' = "closed"
  /\ UNCHANGED <<c2s, cliOpen, got, noAckMode, breakpoints, ran>>

-----------------------------------------------------------------------------
Handle ==
  \/ HandleAck
  \/ HandleHaltReason
  \/ HandleQuery
  \/ HandleEmpty
  \/ HandleStartNoAckMode
  \/ HandleInterrupt
  \/ HandleStep
  \/ HandleContinue
  \/ HandleAddBreakpoint
  \/ HandleRemoveBreakpoint
  \/ HandleReadRegisters
  \/ HandleReadRegister
  \/ HandleRaises

Execute ==
  \/ ExecLimitReached
  \/ ExecEntryBreak
  \/ ExecInstr
  \/ ExecRaises

ServerNext ==
  \/ ServerAccept
  \/ ServerRecv
  \/ ServerNoInput
  \/ ServerLosesPeer
  \/ Handle
  \/ Execute

=============================================================================
