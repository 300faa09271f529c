----------------------------- MODULE MCSession -----------------------------
(* A session on a program that goes from line 1 to a loop of lines 2 and 3 *)
(* and back; line 3 may be the one that can fail.                          *)
EXTENDS GdbSessionSync

MCLines == 1 .. 3

MCSucc == <<{2}, {3}, {1, 2}>>
=============================================================================
