---------------------------- MODULE Subsequences ----------------------------
(***************************************************************************)
(* What is left of a queue when only some of what is in it counts.  This   *)
(* is SelectSeq with a set for a test, and by counting in place of a       *)
(* recursion, so that it can be proved about.                              *)
(***************************************************************************)
EXTENDS Naturals, Sequences, FiniteSets

Places(s, S) == { i \in 1 .. Len(s) : s[i] \in S }

Rank(I, i) == Cardinality({ j \in I : j <= i })

Place(I, n) == CHOOSE i \in I : Rank(I, i) = n

(* The elements of s that are in S, in their order.                        *)
Only(s, S) == [n \in 1 .. Cardinality(Places(s, S)) |-> s[Place(Places(s, S), n)]]

=============================================================================
