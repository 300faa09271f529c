--------------------------- MODULE GdbServerOpen ---------------------------
(***************************************************************************)
(* GDBServerStub and its handler with the most general client: one that    *)
(* connects, sends any request at any time without waiting for anything,   *)
(* takes what the server sends when it likes, and may close.  The client   *)
(* of this repository is a special case (module GdbSession).               *)
(***************************************************************************)
EXTENDS GdbServer, Subsequences

CONSTANTS
  Sent,     \* the requests this client uses
  MaxQueue  \* bound: it sends nothing while this many packets wait in a direction

ASSUME ClientAssumption ==
  /\ Sent \subseteq Message
  /\ MaxQueue \in Nat

VARIABLE asked  \* history: requests sent whose reply the client has not taken

openVars == <<wireVars, serverVars, asked>>

OpenTypeOK ==
  /\ ServerTypeOK
  /\ asked \in Seq(Message)

OpenInit ==
  /\ ServerInit
  /\ asked = <<>>

Connect ==
  /\ srv = "listen"
  /\ ~cliOpen
  /\ cliOpen' = TRUE
  /\ UNCHANGED <<serverVars, c2s, s2c, asked>>

Send ==
  /\ cliOpen
  /\ Len(c2s) < MaxQueue /\ Len(s2c) < MaxQueue
  /\ \E m \in Sent :
       /\ c2s' = Append(c2s, m)
       /\ asked' = IF Asks(m) THEN Append(asked, m) ELSE asked
  /\ UNCHANGED <<serverVars, s2c, cliOpen>>

Take ==
  /\ cliOpen
  /\ s2c # <<>>
  /\ s2c' = Tail(s2c)
  /\ asked' = IF IsAnswer(Head(s2c)) /\ asked # <<>> THEN Tail(asked) ELSE asked
  /\ UNCHANGED <<serverVars, c2s, cliOpen>>

Close ==
  /\ cliOpen
  /\ srv # "listen"
  /\ cliOpen' = FALSE
  /\ UNCHANGED <<serverVars, c2s, s2c, asked>>

OpenNext ==
  \/ Connect
  \/ Send
  \/ Take
  \/ Close
  \/ ServerNext /\ UNCHANGED asked

OpenSpec == OpenInit /\ [][OpenNext]_openVars

(* The stub's loop never stops for long: select times out after a          *)
(* millisecond and every handler returns or raises.  Nothing is asked of   *)
(* the client, and nothing says that recv ever returns what was sent.      *)
LoopStep == ServerNoInput \/ Handle \/ Execute

FairOpenSpec == OpenSpec /\ WF_openVars(LoopStep /\ UNCHANGED asked)

-----------------------------------------------------------------------------
(* Replies come in the order of the requests and none is lost, doubled or  *)
(* invented, however the packets are cut into chunks and whatever the      *)
(* program does in between: the answers on their way, then the requests    *)
(* still to handle, are what the client asked and has no answer to.        *)
Answers == Only(s2c, { p \in Packet : IsAnswer(p) })

Requests == Only(c2s, { m \in Message : Asks(m) })

Answered(s) == [i \in 1 .. Len(s) |-> s[i].re]

FifoReplies == srv # "closed" => Answered(Answers) \o Requests = asked

(* "s" lets the program run one instruction, never two (handleStep sets    *)
(* cycleLimit, runCurrentInstr spends it), even when further requests,     *)
(* breakpoints or an interrupt come in between.                            *)
StepRunsAtMostOne == cycleLimit # Inf => ran + cycleLimit <= 1

(* ... and not none: when the limit of a step is used up the instruction   *)
(* has run, whatever came in between - but for the first of all, which a   *)
(* breakpoint at the entry uses up before anything has run.  (handleStep's *)
(* documentation knows no such case.)                                      *)
StepSpent ==
  srv # "closed" /\ cycleLimit = 0 /\ instr # NoLine
    => ran = 1 \/ (ran = 0 /\ instr = Entry)

(* A program that cannot fail is never reported as killed.                 *)
NeverKilled ==
  Faulting = {} /\ (\A line \in Lines : Succ[line] # {})
    => \A i \in 1 .. Len(s2c) : s2c[i].val # SIGKILL

-----------------------------------------------------------------------------
(* The server implements the debug target.                                 *)

TargetMode ==
  CASE srv = "closed" -> "gone"
    [] srv # "closed" /\ exeStopped -> "halted"
    [] srv # "closed" /\ ~exeStopped /\ cycleLimit = Inf -> "running"
    [] srv # "closed" /\ ~exeStopped /\ cycleLimit = 1 -> "stepping"
    [] OTHER -> "stepped"

Reports == Only(s2c, { p \in Packet : IsReport(p) })

Signals(s) == [i \in 1 .. Len(s) |-> s[i].val]

Watched == { line \in Lines : AddrOf(line) \in breakpoints }

Target == INSTANCE DebugTarget WITH
  mode <- TargetMode,
  at <- instr,
  watch <- Watched,
  news <- Signals(Reports)

(* Every halt is reported exactly once and in order, a step is one         *)
(* instruction, no breakpoint arrived at is run past, and a resumed        *)
(* program gets on.                                                        *)
ImplementsTarget == Target!Spec

=============================================================================
