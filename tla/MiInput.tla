------------------------------ MODULE MiInput ------------------------------
(***************************************************************************)
(* How the debugger reads its MI terminals: TeeedFile.readline             *)
(* (gdbMiMessages.py), which reads a terminal in chunks and keeps what it  *)
(* has not used yet, and the part of main (gdbLlvimIr.py) that decides     *)
(* which terminals to read.  A command is processed before the next        *)
(* terminal is read.                                                       *)
(*                                                                         *)
(* Text is a sequence of words and line ends.  TeeedFile's deque of parts  *)
(* is the text it was split from: it holds more than one part when that    *)
(* text holds a line end.                                                  *)
(***************************************************************************)
EXTENDS Naturals, Sequences

CONSTANTS
  Count,    \* how many terminals: stdin, and one for every "new-ui"
  Words,    \* what lines are made of
  NL,       \* the end of a line
  None,     \* no line
  Chunk,    \* what one os.read returns at most, 1024 in the code
  MaxText   \* bound: a front-end writes nothing while this much is unprocessed

ASSUME InputAssumption ==
  /\ Count \in Nat
  /\ NL \notin Words
  /\ None \notin [from : 1 .. Count, words : Seq(Words)]
  /\ Chunk \in Nat \ {0}
  /\ MaxText \in Nat

VARIABLES
  pending,  \* per terminal, text that has been written and not read
  buff,     \* per terminal, TeeedFile.buff
  ended,    \* per terminal, whether its writer has closed it
  toRead,   \* terminals the loop still has to read in this pass
  line      \* the command line being processed, None when there is none

vars == <<pending, buff, ended, toRead, line>>

Terminals == 1 .. Count

Text == Seq(Words \cup {NL})

MiTypeOK ==
  /\ pending \in [Terminals -> Text]
  /\ buff \in [Terminals -> Text]
  /\ ended \in [Terminals -> BOOLEAN]
  /\ toRead \subseteq Terminals
  /\ line \in [from : Terminals, words : Seq(Words)] \cup {None}

Init ==
  /\ pending = [t \in Terminals |-> <<>>]
  /\ buff = [t \in Terminals |-> <<>>]
  /\ ended = [t \in Terminals |-> FALSE]
  /\ toRead = {}
  /\ line = None

-----------------------------------------------------------------------------
(* The front-end.                                                          *)

Write(t) ==
  /\ ~ended[t]
  /\ Len(pending[t]) + Len(buff[t]) < MaxText
  /\ \E c \in Words \cup {NL} : pending' = [pending EXCEPT ![t] = Append(@, c)]
  /\ UNCHANGED <<buff, ended, toRead, line>>

End(t) ==
  /\ ~ended[t]
  /\ ended' = [ended EXCEPT ![t] = TRUE]
  /\ UNCHANGED <<pending, buff, toRead, line>>

-----------------------------------------------------------------------------
(* The loop.                                                               *)

HasLine(s) == \E i \in 1 .. Len(s) : s[i] = NL

(* os.read would return: text has come, or none will come any more.        *)
Readable(t) == pending[t] # <<>> \/ ended[t]

(* Lines that are in a buffer already are looked at only when no terminal  *)
(* is readable, and then those of the first such terminal.                 *)
FirstBuffered ==
  { t \in Terminals : HasLine(buff[t]) /\ \A o \in Terminals : HasLine(buff[o]) => t <= o }

(* Mutants of ToRead: every terminal is read in every pass, or only the    *)
(* first that has text.                                                    *)
ToReadAll == Terminals

ToReadOne ==
  LET ready == { t \in Terminals : pending[t] # <<>> }
  IN  IF ready # {}
      THEN { t \in ready : \A o \in ready : t <= o }
      ELSE FirstBuffered

ToRead ==
  LET ready == { t \in Terminals : Readable(t) }
  IN  IF ready # {} THEN ready ELSE FirstBuffered

Select ==
  /\ toRead = {} /\ line = None
  /\ toRead' = ToRead
  /\ UNCHANGED <<pending, buff, ended, line>>

(* The terminals are read in the order of the list.                        *)
Turn(t) ==
  /\ line = None
  /\ t \in toRead
  /\ \A o \in toRead : t <= o
  /\ toRead' = toRead \ {t}

(* Mutant of PopLine: the line end stays with the line.                    *)
PopLineAndEnd(t, s) ==
  \E i \in 1 .. Len(s) :
    /\ s[i] = NL
    /\ \A j \in 1 .. i - 1 : s[j] # NL
    /\ line' = [from |-> t, words |-> SubSeq(s, 1, i)]
    /\ buff' = [buff EXCEPT ![t] = SubSeq(s, i + 1, Len(s))]

(* The text s up to its first line end is a line, the rest stays.          *)
PopLine(t, s) ==
  \E i \in 1 .. Len(s) :
    /\ s[i] = NL
    /\ \A j \in 1 .. i - 1 : s[j] # NL
    /\ line' = [from |-> t, words |-> SubSeq(s, 1, i - 1)]
    /\ buff' = [buff EXCEPT ![t] = SubSeq(s, i + 1, Len(s))]

ReadBuffered(t) ==
  /\ Turn(t)
  /\ HasLine(buff[t])
  /\ PopLine(t, buff[t])
  /\ UNCHANGED <<pending, ended>>

(* A chunk is joined to the unfinished line before it.  With no line end   *)
(* in it yet readline returns nothing, and so it does for ever at the end  *)
(* of the input: TeeedFile.closed says that the debugger has closed the    *)
(* terminal, which it never does.                                          *)
TakeChunk(t, n, s) ==
  /\ IF HasLine(s)
     THEN PopLine(t, s)
     ELSE buff' = [buff EXCEPT ![t] = s] /\ UNCHANGED line
  /\ pending' = [pending EXCEPT ![t] = SubSeq(@, n + 1, Len(@))]

(* Mutant of ReadChunk: the unfinished line is not put back.               *)
ReadChunkForgets(t) ==
  /\ Turn(t)
  /\ ~HasLine(buff[t])
  /\ Readable(t)
  /\ \E n \in 0 .. Chunk :
       /\ n <= Len(pending[t]) /\ (n = 0 <=> pending[t] = <<>>)
       /\ TakeChunk(t, n, SubSeq(pending[t], 1, n))
  /\ UNCHANGED ended

ReadChunk(t) ==
  /\ Turn(t)
  /\ ~HasLine(buff[t])
  /\ Readable(t)
  /\ \E n \in 0 .. Chunk :
       /\ n <= Len(pending[t]) /\ (n = 0 <=> pending[t] = <<>>)
       /\ TakeChunk(t, n, buff[t] \o SubSeq(pending[t], 1, n))
  /\ UNCHANGED ended

Process ==
  /\ line # None
  /\ line' = None
  /\ UNCHANGED <<pending, buff, ended, toRead>>

FrontEnd == \E t \in Terminals : Write(t) \/ End(t)

Loop ==
  \/ Select
  \/ \E t \in Terminals : ReadBuffered(t) \/ ReadChunk(t)
  \/ Process

Next == FrontEnd \/ Loop

Spec == Init /\ [][Next]_vars

(* select has a timeout, reads of a readable terminal return, and commands *)
(* come to an end.  The front-end owes nothing.                            *)
FairSpec == Spec /\ WF_vars(Loop)

-----------------------------------------------------------------------------
(* The only thread never waits in os.read: a terminal that is going to be  *)
(* read holds a line or is readable, although commands are processed and   *)
(* text arrives between select and the read.                               *)
NeverBlocks == \A t \in toRead : HasLine(buff[t]) \/ Readable(t)

Unprocessed == [t \in Terminals |-> buff[t] \o pending[t]]

Lines == INSTANCE LineQueue WITH text <- Unprocessed

(* Whatever chunks the text arrives in, complete lines are processed       *)
(* unaltered, once, and in order (TeeedFile.readline).                     *)
ImplementsLineQueue == Lines!Spec

(* A front-end that sends one command at a time is served however busy the *)
(* other terminals are, and one that sends many is when they are silent.   *)
(* (One that sends many while others are busy may wait for ever: select    *)
(* does not see lines that are in a buffer.)                               *)
NotStarved == Lines!Fairness

=============================================================================
