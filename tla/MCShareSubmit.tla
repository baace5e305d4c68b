---------------------------- MODULE MCShareSubmit ----------------------------
(* ShareSubmit for TLC. *)
EXTENDS ShareSubmit, TLC

\* Threads are interchangeable.
Symmetry == Permutations(Threads)
=============================================================================
