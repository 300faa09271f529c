---------------------------- MODULE MCRspFraming ----------------------------
(* Bodies of a few characters, two of them with a "+", which at the        *)
(* beginning of a chunk is an acknowledgement; an answer that is longer    *)
(* than a chunk, as the value of a register of 4080 bits is.               *)
EXTENDS RspFraming

(* "p0" and "q+;" *)
MCRequests == { <<112, 48>>, <<113, 43, 59>> }

(* "k+" and "000000000" *)
MCReplies == { <<107, 43>>, [i \in 1 .. 9 |-> 48] }

(* "S05" *)
MCReport == <<83, 48, 53>>
=============================================================================
