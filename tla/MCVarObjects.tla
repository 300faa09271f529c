---------------------------- MODULE MCVarObjects ----------------------------
(* Two functions: one of two blocks with two registers, and one of a       *)
(* single block with one register, which has the name of one of the first; *)
(* and two expressions that are no registers.                              *)
EXTENDS VarObjects

MCPrograms == { << <<"a", "void">>, <<"void", "b", "void">> >>, << <<"b", "void">> >> }

MCExprs == {"a", "b", "x", "y"}
=============================================================================
