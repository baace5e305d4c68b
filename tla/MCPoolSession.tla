---------------------------- MODULE MCPoolSession ---------------------------
(* PoolSession for TLC. *)
EXTENDS PoolSession

\* Sizes of the extranonces: each protocol takes one and refuses another; the
\* third is a Verus one that reaches the words the miner rolls.
SizesTried == {[xn1 |-> 4, xn2 |-> 0], [xn1 |-> 4, xn2 |-> 4], [xn1 |-> 14, xn2 |-> 18]}
=============================================================================
