-------------------------- MODULE MCPrivilegedFlow --------------------------
(* Constants of PrivilegedFlow for TLC: two repairs one after the other, so   *)
(* that a helper of the first may still be at work during the second.        *)
EXTENDS PrivilegedFlow

MCOp == 1 .. 2
=============================================================================
