--------------------------- MODULE NoncePartition ---------------------------
(* The split of the nonce space between the miner threads (miner.cpp). *)
EXTENDS Integers

CONSTANT opt_n_threads    \* miner threads

ASSUME ThreadsAssumption == opt_n_threads \in Nat \ {0}

Threads == 0 .. opt_n_threads-1

\* miner_get_thread_nonce_range: thread t scans RangeStart(t) .. RangeEnd(t)-1.
RangeStart(t, space) == (t * space) \div opt_n_threads
RangeEnd(t, space) == ((t + 1) * space) \div opt_n_threads

miner_get_thread_nonce_range(t, space) == RangeStart(t, space) .. RangeEnd(t, space)-1
=============================================================================
