# A verification project for hwtHlsGdb

hwtHlsGdb lets an IDE debug a *simulated* LLVM IR program as if a `gdb` were
attached to it. Two processes take part:

    front-end (VS Code, Eclipse)
        |  GDB/MI text, one or more terminals
    gdbLlvimIr.py            main loop, command functions, interpreter state
    gdbRemoteClient.py       GdbRemoteClient, re-entrant receivePkt
        |  GDB remote serial protocol, one TCP connection
    gdbServerStub.py         GDBServerStub: accept, select, handle, run
    gdbCmdHandlerLlvmIr.py   GdbCmdHandlerLllvmIr: runs the IR

This directory models both processes and their connection in TLA+, checks
them with TLC on small programs and sessions, and proves the parts that matter
most with TLAPS for every program, every front-end and every bound.

| module | what it is |
|---|---|
| `RspWire` | the packets and the two FIFOs of the connection |
| `GdbServer` | the server stub and the LLVM IR handler |
| `GdbServerOpen` | the server with the most general client; its properties; the refinement |
| `Subsequences` | the elements of a queue that are of one kind, in their order |
| `DebugTarget` | abstract specification: what a debug server promises |
| `GdbSession` | the server composed with this repository's debugger process |
| `GdbSessionSync` | the session of a front-end that waits for `*stopped`: whose turn it is; and of one that interrupts: how it fails |
| `RspFraming` | the same connection byte by byte, with `recv` cutting packets |
| `MiInput` | reading the MI terminals: `TeeedFile.readline` and the `select` loop |
| `LineQueue` | abstract specification: a terminal is a queue of lines |
| `VarObjects` | the numbering of registers and code lines, and the variable objects named by it |
| `MCServerOpen`, `MCSession`, `MCRspFraming`, `MCMiInput`, `MCVarObjects` | the programs, requests and texts TLC uses |
| `GdbServer_proofs`, `Subsequences_proofs`, `GdbServerOpen_proofs`, `GdbSession_proofs`, `GdbSessionSync_proofs`, `MiInput_proofs`, `VarObjects_proofs`, `RspFraming_proofs` | theorems and their proofs |

How they fit: `GdbServer` EXTENDS `RspWire`; `GdbServerOpen` and `GdbSession`
each EXTEND `GdbServer` with a client, so that the server is written once;
`GdbSessionSync` EXTENDS `GdbSession` with invariants only. `GdbServerOpen` and
`MiInput` each hold an INSTANCE of the abstract specification they implement.
`GdbServerOpen` and `RspFraming` count and filter queues with `Subsequences`.
`RspFraming`, `MiInput` and `VarObjects` are modules of their own, because what
they model meets the session at one point each: whole packets, whole lines,
and a register's number.

## 1. Inventory

### Server stub (`gdbServerStub.py`)
*State*: the connection, `noAckMode`, `exeStopped`. *Operations*: `start`
accepts one connection, then for ever selects with a timeout of a millisecond,
handles what `recv(1024)` returned (`onData`, `handlePacket`) and, unless the
execution is stopped, calls the handler's `runCurrentInstr` once.
*Interaction*: calls the handler back for every packet; talks to the client by
packets. *Hard*: several packets in one chunk, some of which resume the
program; `vCtrlC` is answered by two packets; any exception of an instruction
is a report followed by the end of the connection; an exception of a packet
handler ends the server without one. *Correct when*: every request is answered
once and in order; every halt is reported once; a halt stays one.

### LLVM IR command handler (`gdbCmdHandlerLlvmIr.py`, `gdbCmdHandler.py`)
*State*: `instr` (the next instruction), `cycleLimit`, `breakpoints`, the
registers, and attributes for logging that are set from outside. *Operations*:
`handleContinue`, `handleStep`, `handleInterruption`, breakpoints, registers,
`runCurrentInstr`. *Hard*: the first call checks the entry's breakpoint before
it runs, every later one the breakpoint of the line it arrives at; the step
limit is spent between requests that set it again. `llvmIrIterRegs` numbers
code lines and registers, in the server from the function it simulates and in
the debugger from the file it has loaded. *Correct when*: a step runs one
instruction, no breakpoint is run past, the program counter shown is the
instruction that will run next, both processes number alike.

### Remote protocol messages (`gdbRemoteMessages.py`)
No state: framing, checksum, escaping, `GdbTargetSignal`. *Hard*: `recv(1024)`
may return a part of a packet. *Correct when*: what one side formats the other
side parses back, and what one side takes for a packet the other has sent.

### Remote client (`gdbRemoteClient.py`)
*State*: the socket, `receiveBuffer`, `_receivedPkt` (one packet pushed back).
*Operations*: `_connect` (three requests with acknowledgements), `sendStep`,
`sendContinue`, `sendInterrupt`, `breakInsert`, `breakDelete`,
`readRegister`, `poolInterrupts`, `receivePkt`. *Hard*: `receivePkt` is
re-entrant. A stop report met while a reply is awaited runs the interrupt
handler, which sends a request of its own and waits in a nested `receivePkt`;
replies carry no name; several packets may be in one `recv`. *Correct when*: each call takes the reply to its own
request, and a poll never takes a reply at all.

### Debugger main loop (`gdbLlvimIr.py`)
*State*: the terminals and a `GdbLlvmIrInterpretState`. *Operations*: each
pass polls the remote, selects over the terminals, serves one command of each
readable one. *Hard*: an exception anywhere ends the process; the loop is the
only thread and every command blocks it. *Correct when*: every command is
answered and the loop comes back.

### Target, exec and break commands (`gdbLlvimIrCmdTarget.py`, `...CmdExec.py`, `...CmdBreak.py`)
*State*: `state.remote`, `state.breakpoints`, `state.breakpointIdCntr`.
*Operations*: `target-select` (connects and installs `interuptHandler`),
`exec-continue`/`run`, `exec-next`/`step`, `exec-interrupt`, `break-insert`,
`break-delete`. *Hard*: the debugger's numbered breakpoints mirror a set of
addresses on the server; insertion commits after the reply, deletion before
the request. *Correct when*: the mirror is exact, and what `*stopped` shows is
where the program is.

### Data, stack, thread and variable commands
(`gdbLlvimIrCmdData.py`, `...CmdStack.py`, `...CmdThread.py`, `...CmdVar.py`)
*State*: `llvmRegs`, `tmpVariables`, `tmpVariablesIdCntr`, `curStackDepth`; the
variable objects themselves are the front-end's, the debugger keeps only what
their numbers mean. *Operations*: one or several register reads; creation,
deletion and update of variable objects. *Hard*: a register's number and a
temporary's are told apart by the length of `llvmRegs`, which counts
instructions; an assertion that fails ends the debugger. *Correct when*: two
objects have two names, and no name the debugger gave out ends it.

### Interpreter state (`gdbLlvimIrInterpretState.py`)
A record shared by all command functions; owned by the loop.

### MI messages and terminals (`gdbMiMessages.py`)
*State*: `TeeedFile.buff`, the text of a terminal that was read and not used.
*Operations*: `readline`, `hasLineAvailable`; parsing and escaping of MI text.
*Hard*: a read returns any part of a line or several lines; a complete line in
the buffer is invisible to `select`; `os.read` blocks the only thread when
nothing has come. *Correct when*: every complete line is processed once,
unaltered and in order, no read blocks, and no terminal waits for ever.

`PROJECT.json` lists the hazards of all of these, each at its line.

## 2. Plan

The order is that of importance: the protocol and its re-entrancy first, the
text later.

1. *(done)* `RspWire`, `GdbServer`, `GdbServerOpen`: the server alone, under
   any client.
2. *(done)* `DebugTarget`: the promise, and the server shown to keep it.
3. *(done)* `GdbSession`: the composition with this repository's client.
4. *(done)* Proofs of type correctness, `StepRunsAtMostOne`, and the reply
   accounting of a session.
5. *(done)* `RspFraming`: `recv(1024)` cutting packets in both directions; what
   is lost, what raises, and when neither happens; proved.
6. *(done)* `LineQueue`, `MiInput`: no line is lost, altered or served twice, no
   read blocks, who is served; the refinement proved.
7. *(done)* `VarObjects`: registers, code lines and variable objects; proved.
8. *(done)* `GdbSessionSync`: with a front-end that waits, the whole session is
   correct: `NextReplyIsMine` and `ClientAlive` proved from one inductive
   invariant.
9. Pure algorithms against reference definitions. The numbering of
   `llvmIrIterRegs`, the checksum and the framing are done; `filterArgs` and the
   layout of `REGISTER_INFO` are left.
10. *(done)* `Subsequences`, and with it the proofs that replies come in order
   and that every step of the server is one of `DebugTarget`.
11. *(done)* `FailsLoudly`: the front-ends of `session_interrupt`, which no longer
   take turns; with it `Truthful` and `BreakpointsMirrored` for those.

## 3. The models

### `RspWire`
A request is an operation and an argument, a reply is a kind and a value. The
field `re` of a reply is no part of the packet: it records which request was
answered, so that properties can tell whose reply a call has taken. Each
direction is a FIFO; a TCP connection neither loses, doubles nor reorders.
What it does do, cutting the stream into chunks, is in the readers: `ServerRecv`
and `FromWire` choose how many whole packets one `recv` returns. Chunks that end
inside a packet are `RspFraming`'s.

### `GdbServer`
`srv` is the program counter of `start`: `listen`, `select`, `handle` (inside
`onData`), `exec` (about to call `runCurrentInstr`), `closed`. `got` is the
number of packets of the current chunk that are still to be handled; they stay
at the head of `c2s` until then. There is one action per branch of
`handlePacket`; each appends the acknowledgement unless `noAckMode`, runs the
handler and appends the reply (`Reply`), then goes to the next packet, to the
instruction or back to `select` (`AfterPacket`). A call of `runCurrentInstr`
is one of four actions by what it returns: the limit is reached, the entry has
a breakpoint, an instruction ran, something raised.

The program is a control flow graph (`Lines`, `Entry`, `Succ`, `Faulting`);
an instruction goes to any successor. Values of registers are any member of
`RegVals`, the program counter is exact. `RunnerBound = FALSE` is a handler as
its constructor leaves it, `TRUE` one whose user has set the attributes
`runCurrentInstr` reads, as `src/README.md:47` would through `strCtx`, `f`,
`args` and `waveLog`. `ran` is a history variable, saturating at 2.

### `DebugTarget`
The program is `halted`, `stepping`, `stepped`, `running` or `gone`; `news` is
the signals of the halts not seen yet. `Advance` moves along one edge of the
graph and halts at a watched line. There are no packets, no chunks, no loop and
no replies. `GdbServerOpen!Target` maps the server to it: the mode comes from
`srv`, `exeStopped` and `cycleLimit`, `news` from the reports in `s2c`. The
abstract `WF(Progress)` is implemented too.

### `GdbServerOpen`
The client connects, sends any request of `Sent` at any time, takes packets
and may close, with no protocol at all. `asked` is a history variable.

What of a queue counts (the answers, the reports, the requests that ask) is
`Only` of `Subsequences`: `SelectSeq` with a set for a test, by counting how many
members come before one in place of a recursion, which no proof could unfold.
The assumption `OnlyIsSelectSeq` has TLC compare the two on all short sequences.

### `GdbSession`
`cli` says where `main` is: polling, serving the inputs `select` found, inside a
command, ended by `gdb-exit`, or ended by an exception. `frames` is the stack
of `receivePkt` calls, each with the request its caller has sent and the role
that says what the caller does with the packet:

| role | the caller |
|---|---|
| `ack`, `connect` | `_connect` waiting for an acknowledgement or a reply |
| `ok` | `sendContinue`, `sendStep`, `sendInterrupt`, `breakInsert`, `breakDelete` |
| `read` | `readRegister` of a command |
| `values` | `readRegister` in the loop over all registers |
| `stop` | `readRegister(0)` inside `interuptHandler` |

`RecvStop` pushes a `stop` frame on whatever waits. The other `Recv` actions
pop the innermost. `RecvWrong` is every failed assertion and every reply that
does not parse; `RecvEof` the assertion on an empty `recv`. `buffered` is how
much of `s2c` is already in `receiveBuffer`, which decides whether a poll finds
it without a `select`. `pushed` is `_receivedPkt`.

A command is an action up to the point where it blocks; what it does after the
reply is in the `Recv` action. The text written for the front-end is left
out except for the two facts it lives on: `ui` (the last of `^running` and
`*stopped`) and `shown` (the line in `*stopped`).

The front-end is the environment. A terminal holds what it has written, so
`Sends` says what is *served*, not what is written: an `exec-interrupt` written
while the program ran may be served after the `*stopped` of a breakpoint
(`gdbLlvimIr.py:156-169`). The halted program answers it by `OK` and a second
report, `S02`. `Expecting` says that the front-end waits for a `*stopped`: it
shows the program as running, or an `exec-interrupt` has got its `^done` and no
`*stopped` since (`interrupted`). `WhileRunning` says which requests may be served
while it is expecting, `UniqueBreaks` whether the front-end avoids a second
breakpoint on a line. A front-end keeps to its `WhileRunning` when it leaves one
command at a time unanswered, or puts nothing else behind an `exec-interrupt`.
These two parameters separate the front-ends for which a property holds from
those for which it does not.

### `GdbSessionSync`
No new behaviour: the invariant `SyncInvariant` of a session whose front-end
waits for `*stopped` (`Polite`). The session is in one of five phases, each of
which says what both queues hold:

| phase | who has the turn |
|---|---|
| `Resting` | nobody has asked, the program is halted and shown as stopped |
| `Moving` | the program runs, or its one stop report is on the way (the second one of a halted program too, which is shown as stopped already) |
| `Locating` | the interrupt handler's `readRegister(0)` is asked or answered |
| `Commanding` | a command's request is asked or answered; behind the answer to a resume there may be the stop report already |
| `Shaking` | a request of the handshake, whose answer has an acknowledgement before it |

`Located` says that the line shown is the server's program counter, `Mirrored`
that the table of numbers is the server's dictionary, the request under way
counted, and `Numbered` that no number is given twice. The four together are
`InStep`.

A front-end that is only `Restrained` may interrupt and change breakpoints while
the program runs; the program may fail or end. `FailsLoudly` says what a session
with it is like. It is `InStep`; or such a command is under way and no report has
come before its answer (`Interfering`); or an `exec-interrupt` is under way that
was served after the `*stopped` of a breakpoint (`Halting`), to which the halted
program answers; or the debugger is `Doomed`; or it is `Gone`. Doomed means that nothing can save it any more: the report's handler runs,
or will before anything else, and its `readRegister` will find the answer to
another call, which is no number, or a request that ends the server, or a
closed connection.

### `RspFraming`
Bodies are sequences of character codes. `Packet` frames one with its checksum
(`gdbPacketReply`), `Matches` is where the pattern of `gdbParserReply` matches at
the beginning of a chunk, `Intact` whether the checksum does. The stub is in
`select`, `data` (inside `onData`) or `reply` (inside `handlePacket`); the client
keeps `receiveBuffer`. `cuts` says what the network does: `FALSE` is a `recv`
that returns everything there is up to a chunk, `TRUE` one that may return
less. `split` is a history variable: has a `recv` ever left something behind.
Which request means what is left out, and any reply answers any request.
`Checksum` and `Stream` are the last values of functions defined by recursion,
`Sums` and `Streams`, and the acknowledgements are filtered out by `Only`: all
three can be reasoned about.

### `MiInput` and `LineQueue`
A terminal's text is a sequence of words and line ends, `pending` in the
kernel and `buff` in `TeeedFile`. `Select` takes the terminals that are
readable, and when there is none the first that has a line in its buffer
(`gdbLlvimIr.py:161-168`); `ReadBuffered` and `ReadChunk` are the two halves of
`readline`. `line` is the command being processed; nothing is read meanwhile,
but the front-ends go on writing. `LineQueue` has no buffers, no chunks and no
`select`: a line is delivered. `MiInput!Lines` maps `text` to
`buff \o pending`.

`LineQueue!Fairness` says who is served: a terminal whose front-end has at
most one command in front of the debugger, and any terminal as soon as the
others are silent. It is as strong as the code allows: a front-end that
sends commands ahead of the answers may wait for ever while another terminal is
busy, or closed (a closed one stays readable, and `TeeedFile.closed` does not say
that it is), since lines in a buffer are looked at only when `select`
finds nothing.

### `VarObjects`
A function is a sequence of blocks, which are sequences of results.
`Codeline` and `RegisterIndex` are what `llvmIrIterRegs` counts, in closed form:
an instruction's number is how many come before it. The state is what names
depend on: `llvmRegs`, `tmpVariables`, `tmpVariablesIdCntr`, and as history the
objects the front-end has. `alive` becomes `FALSE` when a command ends the
debugger, which is what every assertion, every missing method and every
register number the server does not have comes to (`Readable`, `Deletable`).
`NotImplemented` is a form of a command that raises `NotImplementedError` for any
front-end: `var-update 1 *`, and `data-evaluate-expression` with an option before
the expression; `declined` remembers that one of them was given.
`careful` front-ends connect first, load the function simulated, and watch
registers only; `orderly` sessions load one file before anything that is no
register is watched.

## 4. The runs

Passing:

| run | what it shows | bounds |
|---|---|---|
| `server_open` | replies are in order, none lost, doubled or invented; a step runs at most one instruction, and none only at the entry's breakpoint; the server implements `DebugTarget`, progress included | 3 lines with a straight one, a loop with an exit, and one that fails or ends the program; 9 requests; 2 packets per direction |
| `session_sync` | with a front-end that waits for `*stopped`: both processes take turns and agree; each call takes its own reply, the debugger stays alive, each command returns, each confirmed step is reported | 3 lines, 3 breakpoint numbers, 2 terminals, a program that does not fail |
| `session_interrupt` | with interrupts and breakpoint changes while a `*stopped` is awaited, register reads only when none is, and interrupts served late: what is shown as stopped is stopped at that line; breakpoints agree; a reply taken by a wrong call makes the debugger raise | 2 breakpoint numbers, 2 terminals, one line may fail |
| `session_any` | with any front-end: the reply accounting and its inductive invariant | the same, everything allowed while running, two breakpoints on a line |
| `mi_input` | whatever chunks text arrives in: lines are processed whole, once, in order; no read blocks; who is served | 2 terminals, 2 words, reads of 2 pieces, 3 pieces in front of the debugger on each |
| `framing` | wherever the streams are cut: no packet is invented, the stub survives, and complete packets are skipped only behind the rest of a cut one; while nothing is cut, nothing is lost and every call returns | chunks of 12 characters, 2 requests ahead, 3 requests, 1 report |
| `variables` | code lines and numbers tell instructions apart; objects share no name but the last register's; a careful front-end loses the debugger through the commands that are not implemented only | 2 functions, 4 expressions, 2 loads |

Why the bounds are enough. Two packets per direction are enough for a chunk of
several packets, for an interrupt behind a resume in one chunk and for a report
behind a reply; in `GdbSession` the queues need no bound, since each waiting call
accounts for one request (that is `ReplyDebt`). Two breakpoint numbers are needed
for a delete that leaves one behind, or that shares its address with another; a
third for one inserted after both; two terminals for a second command
in one pass with no poll in between; three lines for a breakpoint that is
neither at the entry nor at the next line, and for a loop, so that `continue`
need not end. In `framing` a chunk of 12 is longer than any request and shorter
than one of the replies, so that cuts happen with `cuts = FALSE` too; bodies with
a `+` in them make the rest of a packet begin like an acknowledgement. In
`mi_input` three pieces are a line and the beginning of another, or three empty
lines, and a chunk of two ends before, at and behind a line end. In `variables`
one function has two blocks, with instructions without a value before and
behind those with one, and one name is a register of both functions. `MaxQueue`, `Uis`, `MaxBreaks`,
`Window`, `MaxSent`, `MaxReports`, `MaxText` and `MaxLoads` are the only bounds in
guards.

`CHECK_DEADLOCK FALSE` is said where the system may really stop: of the open
server (`server_open`, `bare_handler`), which ends when it has closed and whose
client need not do anything; of `framing`, where everything may be sent and
answered or a side be down; of `VarObjects` (`variables`, `delete_object`), where a
command may have ended the debugger. In `GdbSession` and `MiInput` TLC checks for
deadlock; `GdbSession!Finished` is the only stuttering step, of a debugger that
has ended.

Disagreements between the code and what it says of itself, each a run that TLC
answers with a counterexample, and a finding in `PROJECT.json`:

| run | what happens |
|---|---|
| `race_interrupt` | `exec-interrupt` crosses a breakpoint's report; the nested `readRegister` takes the `OK` of `vCtrlC` and raises, which ends the debugger |
| `break_twice` | two breakpoints on one line are one address: the second deletion is answered `E01` and an assertion fails |
| `program_end` | the end of the program is reported by `S09` and a closed connection; the handler of that report asks for the program counter and gets nothing |
| `bare_handler` | the handler's own constructor leaves attributes unset that `runCurrentInstr` reads; the first resume ends in `SIGKILL` |
| `delete_object` | a variable object that is no register has a number `var-delete` does not accept; deleting it ends the debugger |

A register read that crosses a report is the race of `race_interrupt` without its
noise: both packets awaited are register values, the two `readRegister` calls
take each other's reply, and nothing notices. The report need not be a
breakpoint's: when an `exec-interrupt` is served after the `*stopped` of a
breakpoint, its `S02` may miss the next poll and meet the register read after it,
whose value the handler then shows as the line. (Add `"p"` to `WhileRunning`
in `session_interrupt` and `Truthful` fails.) No assertion or document speaks of it, so no
run claims it. `session_sync` shows that these
need a front-end that sends while the program runs, and `session_any` that the
*number* of replies is right even then: it is who takes which that goes wrong.
The first step with a breakpoint at the entry executes no instruction, where
`gdbCmdHandler.py:35` says "It executes one instruction and stops."; `StepSpent`
states that this is the only such step. `onData` says "Process all packets in
data" (`gdbServerStub.py:84`) and drops complete ones behind the rest of a cut one;
`AllProcessed` states that it drops none else.

## 5. Fairness

`FairOpenSpec` asks weak fairness of `ServerNoInput`, `Handle` and `Execute`
together: `select` has a timeout of a millisecond, every handler and every
instruction returns or raises. It asks nothing of the client, and nothing of
`ServerRecv`.

`FairSessionSpec` adds what a TCP connection gives: what was sent arrives, so a
`select` that has timed out finds it one of the next times. That is strong
fairness of `ServerRecv` and of `PollPacket`, each of which is disabled over
and over while the loop does something else. `PollNothing`, `ServeDone` and
`Recv` are weakly fair, because the client's loop runs by itself and `recv`
returns when something is there. No fairness is assumed of commands: the
front-end owes nothing.

`MiInput!FairSpec` asks weak fairness of the loop as a whole: `select` has a
timeout, a read of a readable terminal returns, commands come to an end (in the
session that is `CommandsReturn`). It is not asked of `Write` or `End`.
`LineQueue!Fairness`, which `NotStarved` claims of it, is strong fairness:
`Deliver(t)` is disabled whenever another terminal's line is processed, and
weak fairness would promise nothing while others are busy. That the loop gives it
is what the run shows: a readable terminal is in `ready` of every pass and is read
before the pass ends.

`RspFraming!Spec` asks weak fairness of the client's receiving and of the stub: a
`recv` with bytes to return does, and the code between two `recv` terminates.
The client need not send.

`VarObjects` states safety only: a command is one step.

## 6. The proofs

Assumed are the named assumptions of the modules only: `ProgramAssumption`
(`Entry` is a line, `Succ` a graph on `Lines`, `NoLine` no line),
`HandlerAssumption`, `ClientAssumption`, `FrontEndAssumption`, `InputAssumption`
(a line end is no word, a read returns something), `VarAssumption` (a block
ends in an instruction without a value, as LLVM's terminators are) and
`FramingAssumption` (no body holds a dollar or a hash, which `gdbMessageEscape`
does not replace; a stop report is no answer; a `recv` returns something). TLC
evaluates each on its instances. There is no bound on anything in the theorems:
any program, any number of registers, breakpoints and terminals, any chunk.

### The server

* `OpenTypeCorrect`: `OpenTypeOK`. It holds that `srv = "handle" => got > 0` and
  `got <= Len(c2s)`: `onData` never takes a packet that is not there.
* `StepBounded`, `StepSpends`: `StepRunsAtMostOne` is inductive beside the type
  invariant, and `StepSpent` beside both.
* `RepliesInOrder`: `FifoReplies`, inductive beside the type invariant. Handling
  moves a request from the head of `Requests` to the end of `Answers`, the client
  adds at the end of the one and takes at the head of the other, and so each
  changes `Answered(Answers) \o Requests` as it changes `asked`.
* `ServerIsTarget`: `OpenSpec => Target!Safety`, the part of `ImplementsTarget`
  without fairness, for a handler that has its attributes (`RunnerBound`). One
  lemma for the requests, one for `runCurrentInstr`, one for the client. Beside the
  type invariant it needs `ExecRuns`, that the loop is about to run an instruction
  only when it is not stopped: without it an instruction could move a target that
  is halted.

`Subsequences_proofs` has what `Only` does on `Append`, `Tail` and the empty
sequence, from facts on finite sets: the places in question are ranked one to
one by how many are not behind them.

### Any session

* `SessionTypeCorrect`: `SessionTypeOK`. It is not inductive alone: that an
  inserted breakpoint gets a number within `MaxBreaks` and a line of `Lines`
  depends on what was true when its request was sent (`PendingInsert`).
* `RepliesAccounted`, `PollsOnlyStops`, `AcksEndWithHandshake`: `ReplyDebt`,
  `NoStrayPacket` and `AckFree`, from `SessionInvariant`.

The inductive invariant is `SessionTypeOK /\ Accounting`, and `Accounting` is
also an invariant of `session_any`. The argument: `ReplyDebt` counts requests in
`c2s`, answers in `s2c` and waiting calls. A call adds a frame and a request; the
server turns a request into an answer; a return removes a frame and an answer.
The last needs that the packet removed is an answer, which is where the other
conjuncts come in:

* `NoStrayPacket` (polls push nothing back) needs that a poll, which has no
  frame, finds no answer: `ReplyDebt` with `frames = <<>>`; and no
  acknowledgement: `AckFree`.
* `AckFree` needs that the handshake ends with as many acknowledgements taken
  as sent. `Handshake` says why: while connecting one call waits, the program is
  halted so that no report nests, `noAckMode` is on exactly from the third
  request on, and an answer's acknowledgement comes before it.
* `StackShape` says that only the outermost frame is a command's own and the
  ones above it are `stop` frames, so a `stop` frame never returns to the loop.
* `LoopShape` ties the server's program counter to `exeStopped`: an
  instruction runs only when not stopped, and nothing is on the wire before
  `accept`.
* `ClientSends`: the client sends no request whose handling would raise without
  an answer other than a register number out of range.

`GdbServer_proofs` has what the server contributes, one lemma per idea:
each step's effect on the two queues. `GdbSession_proofs` first states lemmas on
`Count` (over `Append`, `Tail` and concatenation), then one lemma per group of
actions.

### A session in step

Under `Polite` (an assumption of the theorems below, not of the module): the
front-end sends nothing while it shows the program as running, inserts no
breakpoint twice and names existing registers; the program neither fails nor
ends; the handler has its attributes.

* `SessionsInStep`: `SyncInvariant`, inductive beside `SessionTypeOK` and
  `Accounting`. `Accounting` bounds how *many* packets there may be;
  `SyncInvariant` says *which*, and that is what the others need.
* `RepliesToTheirCallers` (`NextReplyIsMine`) and `DebuggerSurvives`
  (`ClientAlive`): each follows from `SyncInvariant`.

The proof has one lemma on what any step of a polite server does (it takes a
request and answers it, or runs an instruction and perhaps reports), one lemma
per phase on what that does to the phase, and one lemma per action of the
client. The phases are needed because a reply carries no name: only the
knowledge that the one packet in `s2c` answers the one call, and was computed
when nothing could move the program, makes `shown` true. The order of
commit matters in `Mirrored`: an insertion enters the table after the
reply and a deletion leaves it before the request, so the invariant adds
the address under way, on one side of the answer for `Z` and on the other for
`z`.

### A session out of step

Under `Restrained`, which is weaker: while the front-end waits for a `*stopped`,
because it shows the program as running or has got the `^done` of an
`exec-interrupt`, nothing but `exec-interrupt`, `break-insert` and `break-delete`
of it is served, and it inserts no breakpoint twice. An `exec-interrupt` may
also be served when it waits for none. Any program, any handler and any register
number.

* `WrongRepliesAreNoticed`: `FailsLoudly`, inductive beside `SessionTypeOK` and
  `Accounting`.
* `ShownIsTrue` (`Truthful`), `BreakpointsAgree` (`BreakpointsMirrored`): between
  two commands a session that is neither doomed nor gone is in step.

`DebuggerSurvives` is false here (that is `race_interrupt`), and so is
`NextReplyIsMine`. What remains true is that no wrong packet is *believed*, by these front-ends: those
that read a register while they wait may be shown another register's value as the
line. The argument is that `Doomed` is stable. A report met by `receivePkt` always runs the
handler, whose `readRegister(0)` is sent behind the command that was under way,
so that the first answer to come is that command's, an `OK` or `E01`, and
`unhexlify` refuses both. The definition follows this packet on its way: still a
request (`Leads(c2s, Asides, Meddling)`), then an answer
(`Leads(s2c, Stops, Confirmations)`), in either case with nothing in front of it
but what needs no answer or is a report; and one more report in front only nests
one more handler. A server that closes first dooms the debugger the other way,
since whatever waits gets nothing. The lucky order is the last case of
`Interfering` and of `Halting`: the answer is in front of the report, and the
session is back in step (`Moving`) as soon as it is taken. For a late
`exec-interrupt` there is no other order, since the halted program sends nothing
by itself.

There is one lemma for each of: a step of the server in a session in step, in an
interfering one and in a doomed one; and one for each action of the client that
can doom it, continue its doom or end it. A register read while a report is awaited has
no place in this argument, because its answer *is* a number: two reads that cross
take each other's value and nothing notices, which is why `Restrained` excludes
`p`, from the `^done` of an `exec-interrupt` on too.

### The terminals

* `MiTypeCorrect`: `MiTypeOK`, in which a processed line holds no line end.
* `ReadsNeverBlock`: `NeverBlocks`. Inductive: a buffered line or arrived text
  stays until this terminal is read.
* `ReadsAreQueue`: `Spec => ImplementsLineQueue`. `ReadChunk` maps to `Deliver`
  when the text up to the chunk's end holds a line end, and to a stutter when it
  does not; the lemmas are about the first line end of a concatenation.

### Variable objects

* `VarTypeCorrect`, `LinesApart`, `NamesApart`, `CarefulSurvives`: `VarTypeOK`,
  `OneLineEach`, `SharedNames`, `CarefulAlive`.

The inductive invariant is `VarIInv`. `Numbered` bounds the counter by the
expressions that have no number yet; `Unloaded` says what there is before the
first file; `Temporaries` that in an orderly session the temporaries' numbers
start where the registers' end and differ; `Numbers` that every object has a register's
number or its expression's; `OfTarget` that a careful front-end's numbers are
registers of the function simulated, and its debugger alive unless one of the two
commands that are not implemented was given. Below them are lemmas on finite
sets: the instructions before one are fewer than those before a later one, so
that `Codeline` and `RegisterIndex` are injective, and a function has more
instructions than registers, which is why a register passes the assertion of
`var-delete`.

### The framing

* `FramingTypeCorrect`, `NoneInvented`, `StubAlive`, `NoneLost`: `FramingTypeOK`,
  `NothingInvented`, `StubSurvives`, `NothingLost`, for every alphabet of bodies,
  every chunk and every cut.

The checksum and the bytes of a sequence of packets are recursive, and the
induction theorems of the library take a predicate, which the provers cannot
instantiate. `SetInduction` takes a set of numbers in its place and is proved
from the least element that is not in it (`WFMin`); `Recursion` derives
from it that a function defined by recursion solves its equation, and
`SumsType`, `StreamsStep` and `StreamAppend` are instances. What a stream of packets and
acknowledgements looks like is an inductive definition, and so is again a set:
`Carried` is the smallest set of pairs of a line and the bodies it holds that
contains the empty line and is closed under a further packet or `+`. A fact
about all lines is proved by showing that the pairs that have it are closed
(`CarriesOnly`, `CarriesStarts`).

The inductive invariant is `IInv`:

* `StubReads`: what is in front of the stub, `inp \o toServer`, is the rest of a
  packet without a dollar and then whole packets, the last of those asked; and
  what was handled is within the ones before. The rest of a packet does not
  match, because a match begins with a dollar, and so a cut loses packets and
  never makes one. A hash there is no danger, nor are its digits.
* `ClientReads`: what the client has taken is the beginning of what was
  replied, and as long as it is up, its line holds the others. It is never
  inside a packet: `receivePkt` raises on the rest of one before it reads more.
* `Counts`: as many calls wait as requests were sent and not answered, and
  no more answers were taken than requests handled, so that `waiting` is never
  negative.
* `StubWhole` and `ClientWhole`: while nothing is split, there is no such rest,
  and a buffer holds whole packets.
* `Stages`: the stub is not down, and between two chunks has nothing left.

`PacketMatches`, `MatchIsPacket` and `MatchStarts` are about the pattern: it
matches the first packet of a line at its hash and nowhere else, and what
matches at the beginning of whole packets is the first of them, its checksum
right. `IInv` is not an invariant of a run, since `Carried` is a statement about
all sets of lines; the four properties that follow from it are.

## 7. Only model-checked

* Liveness (`CommandsReturn`, `StepIsReported`, `CallsReturn`, `NotStarved`, the
  fairness part of `ImplementsTarget`): the proof system has no `ENABLED`.
* `AllProcessed`, which counts packets, and what the violation runs show.

## 8. Not modelled

* Cuts and the session at once: `RspFraming` has no re-entrant calls, `GdbSession`
  no cut packets. The stub's and the client's treatment of a chunk is the same
  code in both; a cut that does harm leaves a call without an answer or ends the client,
  which `framing` shows.
* A connection reset that discards what was already sent. After a client closes, the server
  may still handle what it has, or lose its peer at any point. After a server closes,
  the client still reads what was sent.
* MI parsing, escaping and the layout of output records: text processing
  without state. So is `gdbMessageEscape`, which by its table's types replaces
  nothing. That `symbol-list-lines` falls through to the error of an unknown
  command is therefore out of the models' reach.
* Values an instruction computes, and the bit widths of registers; the layout
  of `REGISTER_INFO`; waveform logging.
* `curStackDepth`, a number that is only shown.
* An `exec-interrupt` before the first `*stopped` of a program that was never
  resumed, and a register read or resume written behind an unanswered
  `exec-interrupt` (by the front-ends of `session_sync` and `session_interrupt`;
  `session_any` has them).
* Commands that touch neither the connection nor shared state, such as
  `list-features`, are in `ServeDone`.
* A second `target-select` (it would wait for ever in the listen backlog), a
  refused connection, a delete of an unknown number: each raises or blocks
  without any interleaving. Commands before `target-select` are in `VarObjects`,
  as `remote = FALSE`, and not in `GdbSession`.
* A halted server whose client has closed spins on an empty `recv`; the model
  leaves it in `select`, which is the same state.
