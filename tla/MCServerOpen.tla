---------------------------- MODULE MCServerOpen ----------------------------
(* The server with a client that sends anything, on a program of three     *)
(* instructions: a straight one, a loop with an exit, and one that may     *)
(* fail and otherwise ends the program; and on a loop of two.              *)
EXTENDS GdbServerOpen

MCLines == 1 .. 3

MCSucc == <<{2}, {1, 3}, {}>>

MCShortLines == 1 .. 2

MCShortSucc == <<{2}, {1}>>

(* Everything that moves the program, with breakpoints on two lines, ...   *)
MCMoving ==
  { Request(op, 0) : op \in {"c", "s", "vCtrlC"} } \cup { Request("Z", 8), Request("Z", 16), Request("z", 16) }

(* ... and requests that are answered and change nothing, or end the       *)
(* server.                                                                 *)
MCEvery == MCMoving \cup { Request("g", 0), Request("?", 0), Request("p", 2) }


(* Counting selects what SelectSeq does.                                   *)
ASSUME OnlyIsSelectSeq ==
  \A n \in 0 .. 4 : \A s \in [1 .. n -> MCLines] : \A S \in SUBSET MCLines :
    Only(s, S) = SelectSeq(s, LAMBDA e : e \in S)

=============================================================================
