----------------------------- MODULE LineQueue -----------------------------
(***************************************************************************)
(* What the debugger promises a front-end about its terminals: the text    *)
(* written to a terminal is a queue of lines, and complete lines are       *)
(* processed one at a time, unaltered and in the order they were written.  *)
(* There are no reads, no buffers and no select.                           *)
(***************************************************************************)
EXTENDS Naturals, Sequences, FiniteSets

CONSTANTS Terminals, Words, NL, None

VARIABLES
  text,   \* per terminal, what has been written and not processed
  ended,  \* per terminal, whether its writer has closed it
  line    \* the line being processed, None between two

vars == <<text, ended, line>>

Breaks(s) == { i \in 1 .. Len(s) : s[i] = NL }

FirstBreak(s, i) == i \in Breaks(s) /\ \A j \in Breaks(s) : i <= j

Line(t, s) == [from |-> t, words |-> s]

Init ==
  /\ text = [t \in Terminals |-> <<>>]
  /\ ended = [t \in Terminals |-> FALSE]
  /\ line = None

Write(t) ==
  /\ ~ended[t]
  /\ \E c \in Words \cup {NL} : text' = [text EXCEPT ![t] = Append(@, c)]
  /\ UNCHANGED <<ended, line>>

End(t) ==
  /\ ~ended[t]
  /\ ended' = [ended EXCEPT ![t] = TRUE]
  /\ UNCHANGED <<text, line>>

Deliver(t) ==
  /\ line = None
  /\ \E i \in 1 .. Len(text[t]) :
       /\ FirstBreak(text[t], i)
       /\ line' = Line(t, SubSeq(text[t], 1, i - 1))
       /\ text' = [text EXCEPT ![t] = SubSeq(@, i + 1, Len(@))]
  /\ UNCHANGED ended

Finish ==
  /\ line # None
  /\ line' = None
  /\ UNCHANGED <<text, ended>>

Next ==
  \/ \E t \in Terminals : Write(t) \/ End(t) \/ Deliver(t)
  \/ Finish

Spec == Init /\ [][Next]_vars

-----------------------------------------------------------------------------
(* Lines are processed for a terminal whose front-end waits for the answer *)
(* to a command before it sends the next one, whatever the other terminals *)
(* do: their lines disable Deliver(t) again and again, hence the strong    *)
(* fairness.  And for any terminal once the others are silent.             *)
Polite(t) == Cardinality(Breaks(text[t])) <= 1

Alone(t) == \A o \in Terminals \ {t} : ~ended[o] /\ text[o] = <<>>

Fairness ==
  \A t \in Terminals : []Polite(t) \/ <>[]Alone(t) => SF_vars(Deliver(t))

=============================================================================
