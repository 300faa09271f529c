--------------------------- MODULE GdbSessionSync ---------------------------
(***************************************************************************)
(* A debug session whose front-end sends nothing while it shows the        *)
(* program as running: the two processes take turns, and this module says  *)
(* how, in an inductive invariant.  Then one whose front-end interrupts    *)
(* and changes breakpoints meanwhile: what the session is like when it is  *)
(* out of step.  Both are proved in GdbSessionSync_proofs.                 *)
(***************************************************************************)
EXTENDS GdbSession

(* The front-end waits for *stopped, and inserts no breakpoint twice; the  *)
(* program neither fails nor ends; the handler has been given what         *)
(* runCurrentInstr reads.                                                  *)
Polite ==
  /\ WhileRunning = {} /\ UniqueBreaks
  /\ ReadIdx \subseteq 0 .. NumRegs
  /\ Faulting = {} /\ RunnerBound
  /\ \A line \in Lines : Succ[line] # {}

-----------------------------------------------------------------------------
(* Whose turn it is.                                                       *)

Resumes(m) == m.op \in {"c", "s"}

(* A request is on its way, behind the last acknowledgement of the         *)
(* handshake perhaps.                                                      *)
Asking(m) ==
  /\ Len(c2s) \in {1, 2} /\ c2s[Len(c2s)] = m
  /\ Len(c2s) = 2 => c2s[1] = ClientAck
  /\ s2c = <<>>
  /\ exeStopped

(* Its answer is.                                                          *)
Answering(m, p, kinds) == c2s = <<>> /\ p.re = m /\ p.kind \in kinds

OneCall == Len(frames) = 1 /\ remote

Caller == frames[1]

Resting ==
  /\ frames = <<>> /\ cli \in {"poll", "serve"} /\ ~Expecting
  /\ c2s = <<>> \/ (Len(c2s) = 1 /\ c2s[1] = ClientAck)
  /\ s2c = <<>> /\ exeStopped
  /\ remote \/ srv = "listen"

(* The program runs, or a report is on its way.                            *)
Moving ==
  /\ frames = <<>> /\ cli \in {"poll", "serve"} /\ Expecting
  /\ remote
  /\ c2s = <<>>
  /\ \/ s2c = <<>> /\ ~exeStopped /\ ui = "running"
     \/ Len(s2c) = 1 /\ s2c[1].kind = "stop" /\ exeStopped

Locating ==
  /\ OneCall /\ Caller = Waiting("stop", Request("p", 0))
  /\ cli = "poll" /\ Expecting /\ exeStopped
  /\ \/ Asking(Caller.req)
     \/ Len(s2c) = 1 /\ Answering(Caller.req, s2c[1], Number) /\ s2c[1].val = Pc

CommandCall(f) ==
  \/ f.role = "ok" /\ f.req.op \in {"c", "s", "Z", "z"}
  \/ f.role \in {"read", "values"} /\ f.req.op = "p" /\ f.req.arg <= NumRegs

Commanding ==
  /\ OneCall /\ CommandCall(Caller)
  /\ cli = "command" /\ ~Expecting
  /\ \/ Asking(Caller.req)
     \/ /\ Len(s2c) = 1 /\ Answering(Caller.req, s2c[1], Expected(Caller))
        /\ exeStopped <=> ~Resumes(Caller.req)
     \/ /\ Len(s2c) = 2 /\ Answering(Caller.req, s2c[1], Expected(Caller))
        /\ s2c[2].kind = "stop" /\ Resumes(Caller.req) /\ exeStopped

(* An answer has its acknowledgement before it.                            *)
Shaking ==
  /\ OneCall
  /\ Caller.req \in { Request(op, 0) : op \in {"qSupported", "vMustReplyEmpty", "QStartNoAckMode"} }
  /\ cli = "command" /\ ~Expecting /\ exeStopped
  /\ \/ Caller.role = "ack" /\ Asking(Caller.req) /\ ~noAckMode
     \/ /\ noAckMode <=> Caller.req.op = "QStartNoAckMode"
        /\ LET kinds == Expected(Waiting("connect", Caller.req))
           IN  \/ /\ Caller.role = "ack"
                  /\ Len(s2c) = 2 /\ s2c[1] = Ack
                  /\ Answering(Caller.req, s2c[2], kinds)
               \/ /\ Caller.role = "connect"
                  /\ Len(s2c) = 1 /\ Answering(Caller.req, s2c[1], kinds)

(* The debugger has ended in order, or it is in one of these phases.       *)
InTurn ==
  \/ cli = "exited" /\ frames = <<>>
  \/ Resting \/ Moving \/ Locating \/ Commanding \/ Shaking

-----------------------------------------------------------------------------
(* What the debugger knows of the server.                                  *)

(* It has shown where the program is, unless it is about to resume it.     *)
Located ==
  ~Gone /\ ui = "stopped" /\ shown # NoLine /\ (frames # <<>> => ~Resumes(Caller.req))
    => Pc = AddrOf(shown)

Used == { n \in Numbers : table[n] # NoLine }

Mirror == { AddrOf(table[n]) : n \in Used }

(* Numbers are given in order, and no two to one line.                     *)
Numbered ==
  /\ \A n \in Used : n < bkNext
  /\ \A n, k \in Used : table[n] = table[k] => n = k

Changing == frames # <<>> /\ Caller.req.op \in {"Z", "z"}

(* While a breakpoint is inserted or deleted, the server has it from the   *)
(* answer to the insertion on, and up to the answer to the deletion.       *)
Mirrored ==
  ~Gone =>
    IF Changing
    THEN LET m == Caller.req
         IN  /\ LineOf(m.arg) \in Lines /\ m.arg = AddrOf(LineOf(m.arg))
             /\ \A n \in Used : table[n] # LineOf(m.arg)
             /\ breakpoints = IF m.op = "Z" <=> s2c # <<>> THEN Mirror \cup {m.arg} ELSE Mirror
    ELSE breakpoints = Mirror

(* What is on the wire and what the debugger knows fit together.           *)
InStep == InTurn /\ Located /\ Numbered /\ Mirrored

(* The debugger and the server take turns: a call has its one request or   *)
(* its one answer under way, a stop report comes only when nothing is      *)
(* asked, and meanwhile the line shown and the debugger's table of         *)
(* breakpoints say of the server what is true (receivePkt,                 *)
(* gdbRemoteClient.py:49-86, under the commands of gdbLlvimIrCmd*.py).     *)
SyncInvariant == InStep /\ (cli # "exited" => srv # "closed")

-----------------------------------------------------------------------------
(* A front-end that does not wait: while it shows the program as running   *)
(* it may interrupt it and change the breakpoints.  The program may be any.*)
Restrained ==
  /\ WhileRunning \subseteq {"vCtrlC", "Z", "z"}
  /\ UniqueBreaks

(* Such a command is under way, and no stop report before its answer.      *)
Interfering ==
  /\ OneCall /\ Caller.role = "ok" /\ Caller.req.op \in {"vCtrlC", "Z", "z"}
  /\ cli = "command" /\ ui = "running"
  /\ \/ /\ Len(c2s) = 1 /\ c2s[1] = Caller.req
        /\ s2c = <<>> /\ ~exeStopped
     \/ /\ Len(s2c) = 1 /\ Answering(Caller.req, s2c[1], {"ok"})
        /\ Caller.req.op # "vCtrlC" /\ ~exeStopped
     \/ /\ Len(s2c) = 2 /\ Answering(Caller.req, s2c[1], {"ok"})
        /\ s2c[2].kind = "stop" /\ exeStopped

(* An exec-interrupt is served although the program has halted meanwhile,  *)
(* and the front-end has been told.                                        *)
Halting ==
  /\ OneCall /\ Caller = Waiting("ok", Request("vCtrlC", 0))
  /\ cli = "command" /\ ~Expecting /\ exeStopped
  /\ \/ Asking(Caller.req)
     \/ Len(s2c) = 2 /\ Answering(Caller.req, s2c[1], {"ok"}) /\ s2c[2].kind = "stop"

(* What comes first in s, but for members of S, is a member of T.          *)
Leads(s, S, T) == \E i \in 1 .. Len(s) : s[i] \in T /\ \A j \in 1 .. i - 1 : s[j] \in S

Confirmations == { p \in Packet : p.kind \in {"ok", "error"} }

Meddling == { m \in Message : m.op \in {"vCtrlC", "Z", "z"} }

Fatal == { m \in Message : Raising(m) }

Asides == { m \in Message : ~Asks(m) }

OnlyReports == \A i \in 1 .. Len(s2c) : s2c[i] \in Stops

(* The interrupt handler's readRegister waits for a packet, or will.       *)
Nesting == Head(frames).role = "stop" \/ StopArrives

(* The debugger will fail: the handler's readRegister will take the answer *)
(* to another call, which is no number, or nothing will be answered.       *)
Doomed ==
  /\ frames # <<>> /\ ~Connecting
  /\ \/ Nesting /\ Leads(s2c, Stops, Confirmations)
     \/ /\ OnlyReports
        /\ \/ Nesting /\ Leads(c2s, Asides, Meddling)
           \/ Leads(c2s, Asides, Fatal)
           \/ srv = "closed"

(* A reply that goes to the wrong caller is noticed: before the debugger   *)
(* shows or lists anything that is not so, its client raises (receivePkt,  *)
(* or readRegister in the handler that receivePkt calls back,              *)
(* gdbRemoteClient.py:49-86, 117-122).                                     *)
FailsLoudly ==
  \/ Gone
  \/ Doomed
  \/ InStep
  \/ (Interfering \/ Halting) /\ Located /\ Numbered /\ Mirrored

=============================================================================
