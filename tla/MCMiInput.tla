----------------------------- MODULE MCMiInput -----------------------------
(* Two terminals, reads of up to two pieces of text, and up to three       *)
(* pieces in front of the debugger on each.                                *)
EXTENDS MiInput

=============================================================================
