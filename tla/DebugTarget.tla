---------------------------- MODULE DebugTarget ----------------------------
(***************************************************************************)
(* What a debug server promises its client about the program it runs,      *)
(* without packets, acknowledgements, chunks or a server loop: the program *)
(* is halted, takes one step or runs; every time it halts there is exactly *)
(* one report of it, in order; it never runs past a watched line it has    *)
(* arrived at.                                                             *)
(***************************************************************************)
EXTENDS Naturals, Sequences

CONSTANTS Lines, Entry, Succ, Faulting, NoLine

VARIABLES
  mode,   \* halted, stepping (its one instruction is to come), stepped, running, gone
  at,     \* the next instruction, NoLine before the first resume
  watch,  \* lines with a breakpoint
  news    \* signals of the halts the client has not seen yet

vars == <<mode, at, watch, news>>

Init ==
  /\ mode = "halted"
  /\ at = NoLine
  /\ watch = {}
  /\ news = <<>>

Resume ==
  /\ mode # "gone"
  /\ mode' \in {"stepping", "running"}
  /\ UNCHANGED <<at, watch, news>>

SetWatch ==
  /\ mode # "gone"
  /\ watch' \in SUBSET Lines
  /\ UNCHANGED <<mode, at, news>>

Halt(sig) ==
  /\ mode' = "halted"
  /\ news' = Append(news, sig)

Interrupt ==
  /\ mode # "gone"
  /\ Halt(2)
  /\ UNCHANGED <<at, watch>>

Here == IF at = NoLine THEN Entry ELSE at

Moving == mode \in {"stepping", "running"}

HaltAtEntry ==
  /\ Moving
  /\ at = NoLine /\ Entry \in watch
  /\ at' = Entry
  /\ Halt(5)
  /\ UNCHANGED watch

Advance ==
  /\ Moving
  /\ ~(at = NoLine /\ Entry \in watch)
  /\ at' \in Succ[Here]
  /\ IF at' \in watch
     THEN Halt(5)
     ELSE /\ mode' = IF mode = "stepping" THEN "stepped" ELSE mode
          /\ UNCHANGED news
  /\ UNCHANGED watch

FinishStep ==
  /\ mode = "stepped"
  /\ Halt(5)
  /\ UNCHANGED <<at, watch>>

Crash ==
  /\ Moving
  /\ Here \in Faulting \/ Succ[Here] = {}
  /\ mode' = "gone"
  /\ at' \in {Here, NoLine}
  /\ news' = Append(news, 9)
  /\ UNCHANGED watch

Vanish ==
  /\ mode' = "gone"
  /\ UNCHANGED <<at, watch, news>>

Observe ==
  /\ news # <<>>
  /\ news' = Tail(news)
  /\ UNCHANGED <<mode, at, watch>>

Progress == HaltAtEntry \/ Advance \/ FinishStep \/ Crash

Next ==
  \/ Resume
  \/ SetWatch
  \/ Interrupt
  \/ Progress
  \/ Vanish
  \/ Observe

Safety == Init /\ [][Next]_vars

(* Once resumed, the program does move: a step is taken, and reported.     *)
Spec == Safety /\ WF_vars(Progress)

=============================================================================
