--------------------------- MODULE MCLineTransport --------------------------
(* LineTransport for TLC: the senders are interchangeable. *)
EXTENDS LineTransport, TLC

Perms == Permutations(Senders)
=============================================================================
