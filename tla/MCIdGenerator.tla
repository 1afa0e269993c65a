---------------------------- MODULE MCIdGenerator ----------------------------
(* IntegerIdGenerator over 3-bit ids: max() = 7, so a caller reaches the   *)
(* end of the id space within a few calls.                                 *)
EXTENDS IdGenerator
=============================================================================
