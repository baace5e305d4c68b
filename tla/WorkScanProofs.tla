--------------------------- MODULE WorkScanProofs ---------------------------
(***************************************************************************)
(* The thread ranges partition the nonce space, and the threads keep to    *)
(* them without ever computing a hash twice: for any number of threads,    *)
(* any size of the spaces, any number of Verus epochs and any sequence of  *)
(* jobs.                                                                   *)
(***************************************************************************)
EXTENDS WorkScan, TLAPS

-----------------------------------------------------------------------------
(* The partition. *)

\* Division rounds down.
LEMMA DivFloor ==
    ASSUME NEW a \in Nat, NEW n \in Nat \ {0}
    PROVE  /\ a \div n \in Nat
           /\ n * (a \div n) <= a
           /\ a < n * (a \div n) + n
  OBVIOUS

\* A quotient is at most q exactly when the dividend is below n * (q + 1).
LEMMA DivAtMost ==
    ASSUME NEW a \in Nat, NEW n \in Nat \ {0}, NEW q \in Nat
    PROVE  a \div n <= q <=> a < n * (q + 1)
  <1> DEFINE d == a \div n
  <1>1. d \in Nat /\ n * d <= a /\ a < n * d + n
    BY DivFloor
  <1> HIDE DEF d
  <1>2. ASSUME d <= q PROVE a < n * (q + 1)
    <2>1. n * d <= n * q
      BY <1>1, <1>2
    <2> QED
      BY <1>1, <2>1
  <1>3. ASSUME a < n * (q + 1), ~(d <= q) PROVE FALSE
    <2>1. d >= q + 1
      BY <1>1, <1>3
    <2>2. n * d >= n * (q + 1)
      BY <1>1, <2>1
    <2> QED
      BY <1>1, <1>3, <2>2
  <1> QED
    BY <1>2, <1>3, <1>1 DEF d

-----------------------------------------------------------------------------
\* A range starts at or below nonce n exactly when its thread is not above
\* the one computed from n; this names the thread that scans n.
LEMMA StartAtMost ==
    ASSUME NEW space \in Nat, NEW t \in Nat, NEW n \in Nat
    PROVE  RangeStart(t, space) <= n <=> t * space < opt_n_threads * (n + 1)
  <1>1. t * space \in Nat
    OBVIOUS
  <1> QED
    BY <1>1, DivAtMost, ThreadsAssumption DEF RangeStart

\* A thread's range ends where the next one's starts.
LEMMA EndIsNextStart ==
    ASSUME NEW space \in Nat, NEW t \in Nat
    PROVE  RangeEnd(t, space) = RangeStart(t + 1, space)
  BY DEF RangeEnd, RangeStart

\* The ranges stay inside the nonce space, so a nonce never overflows the
\* header field (or the part of it that a nicehash pool leaves to the miner).
THEOREM RangesInSpace ==
    ASSUME NEW space \in Nat, NEW t \in Threads
    PROVE  miner_get_thread_nonce_range(t, space) \subseteq 0 .. space-1
  <1>1. RangeStart(t, space) \in Nat
    <2>1. t \in Nat /\ t * space \in Nat
      BY ThreadsAssumption DEF Threads
    <2> QED
      BY <2>1, DivFloor, ThreadsAssumption DEF RangeStart
  <1>2. RangeEnd(t, space) \in Nat /\ RangeEnd(t, space) <= space
    <2>1. t + 1 \in Nat /\ t + 1 <= opt_n_threads /\ (t + 1) * space \in Nat
      BY ThreadsAssumption DEF Threads
    <2>2. (t + 1) * space <= opt_n_threads * space
      BY <2>1, ThreadsAssumption
    <2>3. (t + 1) * space < opt_n_threads * (space + 1)
      BY <2>1, <2>2, ThreadsAssumption
    <2> QED
      BY <2>1, <2>3, DivAtMost, DivFloor, ThreadsAssumption DEF RangeEnd
  <1> QED
    BY <1>1, <1>2 DEF miner_get_thread_nonce_range

\* Two threads never share a nonce.
THEOREM RangesDisjoint ==
    ASSUME NEW space \in Nat, NEW t1 \in Threads, NEW t2 \in Threads, t1 # t2
    PROVE  miner_get_thread_nonce_range(t1, space)
             \cap miner_get_thread_nonce_range(t2, space) = {}
  <1>1. ASSUME NEW a \in Threads, NEW b \in Threads, a < b,
               NEW n \in Int,
               n \in miner_get_thread_nonce_range(a, space),
               n \in miner_get_thread_nonce_range(b, space)
        PROVE  FALSE
    <2>1. a \in Nat /\ b \in Nat /\ a + 1 <= b
      BY <1>1, ThreadsAssumption DEF Threads
    <2>2. /\ RangeStart(a, space) \in Nat
          /\ RangeStart(b, space) \in Nat
          /\ RangeStart(a + 1, space) \in Nat
      <3>1. a * space \in Nat /\ b * space \in Nat /\ (a + 1) * space \in Nat
        BY <2>1
      <3> QED
        BY <3>1, DivFloor, ThreadsAssumption DEF RangeStart
    <2>3. n \in Nat /\ RangeStart(b, space) <= n /\ n < RangeStart(a + 1, space)
      BY <1>1, <2>1, <2>2, EndIsNextStart DEF miner_get_thread_nonce_range
    <2>4. b * space < opt_n_threads * (n + 1)
      BY <2>1, <2>3, StartAtMost
    <2>5. (a + 1) * space <= b * space
      BY <2>1
    <2>6. (a + 1) * space < opt_n_threads * (n + 1)
      BY <2>1, <2>3, <2>4, <2>5, ThreadsAssumption
    <2>7. RangeStart(a + 1, space) <= n
      BY <2>1, <2>3, <2>6, StartAtMost
    <2> QED
      BY <2>2, <2>3, <2>7
  <1>2. miner_get_thread_nonce_range(t1, space) \subseteq Int
    BY DEF miner_get_thread_nonce_range
  <1>3. t1 < t2 \/ t2 < t1
    BY ThreadsAssumption DEF Threads
  <1> QED
    BY <1>1, <1>2, <1>3

\* Every nonce of the space belongs to some thread.
THEOREM RangesCover ==
    ASSUME NEW space \in Nat, NEW n \in 0 .. space-1
    PROVE  \E t \in Threads : n \in miner_get_thread_nonce_range(t, space)
  <1> DEFINE k == opt_n_threads * (n + 1) - 1
             t == k \div space
  <1>1. n \in Nat /\ n < space /\ space \in Nat \ {0}
    OBVIOUS
  <1>2. k \in Nat /\ opt_n_threads * (n + 1) = k + 1
    <2>1. opt_n_threads * (n + 1) >= 1
      BY <1>1, ThreadsAssumption
    <2> QED
      BY <1>1, <2>1, ThreadsAssumption
  <1>3. k < opt_n_threads * space
    <2>1. opt_n_threads * (n + 1) <= opt_n_threads * space
      BY <1>1, ThreadsAssumption
    <2> QED
      BY <1>1, <1>2, <2>1, ThreadsAssumption
  <1> HIDE DEF k
  <1>4. t \in Nat /\ space * t <= k /\ k < space * t + space
    BY <1>1, <1>2, DivFloor
  <1> HIDE DEF t
  <1>5. t \in Threads
    <2>1. ASSUME t >= opt_n_threads PROVE FALSE
      <3>1. space * t >= space * opt_n_threads
        BY <1>1, <1>4, <2>1, ThreadsAssumption
      <3> QED
        BY <1>1, <1>2, <1>3, <1>4, <3>1, ThreadsAssumption
    <2> QED
      BY <1>4, <2>1, ThreadsAssumption DEF Threads
  <1>6. RangeStart(t, space) <= n
    <2>1. t * space < opt_n_threads * (n + 1)
      BY <1>1, <1>2, <1>4
    <2> QED
      BY <1>1, <1>4, <2>1, StartAtMost
  <1>7. ~(RangeStart(t + 1, space) <= n)
    <2>1. ~((t + 1) * space < opt_n_threads * (n + 1))
      <3>1. (t + 1) * space = space * t + space
        BY <1>1, <1>4
      <3> QED
        BY <1>1, <1>2, <1>4, <3>1
    <2> QED
      BY <1>1, <1>4, <2>1, StartAtMost
  <1>8. RangeStart(t, space) \in Nat /\ RangeStart(t + 1, space) \in Nat
    <2>1. t * space \in Nat /\ (t + 1) * space \in Nat
      BY <1>1, <1>4
    <2> QED
      BY <2>1, DivFloor, ThreadsAssumption DEF RangeStart
  <1>9. n \in miner_get_thread_nonce_range(t, space)
    BY <1>1, <1>4, <1>6, <1>7, <1>8, EndIsNextStart DEF miner_get_thread_nonce_range
  <1> QED
    BY <1>5, <1>9

\* The bounds of a range, as numbers.
LEMMA RangeType ==
    ASSUME NEW space \in Nat, NEW t \in Threads
    PROVE  /\ RangeStart(t, space) \in Nat /\ RangeEnd(t, space) \in Nat
           /\ RangeStart(t, space) <= RangeEnd(t, space)
           /\ space >= opt_n_threads => RangeStart(t, space) < RangeEnd(t, space)
  <1> DEFINE a == t * space
             n == opt_n_threads
  <1>1. t \in Nat /\ n \in Nat \ {0} /\ a \in Nat /\ a + space \in Nat
        /\ (t + 1) * space = a + space
    BY ThreadsAssumption DEF Threads
  <1> HIDE DEF a, n
  <1> DEFINE lo == a \div n
             hi == (a + space) \div n
  <1>2. lo \in Nat /\ n * lo <= a /\ a < n * lo + n
    BY <1>1, DivFloor
  <1>3. hi \in Nat /\ n * hi <= a + space /\ a + space < n * hi + n
    BY <1>1, DivFloor
  <1>4. RangeStart(t, space) = lo /\ RangeEnd(t, space) = hi
    BY <1>1 DEF RangeStart, RangeEnd, a, n
  <1> HIDE DEF lo, hi
  <1>5. ASSUME hi < lo PROVE FALSE
    <2>1. n * (hi + 1) <= n * lo
      BY <1>1, <1>2, <1>3, <1>5
    <2> QED
      BY <1>1, <1>2, <1>3, <2>1
  <1>6. ASSUME space >= n, hi = lo PROVE FALSE
    BY <1>1, <1>2, <1>3, <1>6
  <1> QED
    BY <1>2, <1>3, <1>4, <1>5, <1>6 DEF n

-----------------------------------------------------------------------------
(* The inductive invariant. *)

\* What the service thread published: preimages are numbered as they come,
\* and only RandomX knows a smaller nonce space.
PublishedOK ==
    /\ current_work.pre <= work_updates_total
    /\ work_ready => current_work.pre > 0 /\ current_work.job \in Jobs
    /\ current_work # NoWork => current_work.pre > 0 /\ current_work.job \in Jobs
    /\ opt_algo # "randomx" => current_work.space = FullSpace

\* A thread's locals are those of the work it copied last, and whoever has
\* the same preimage has the same nonce space and job.
CopiesOK ==
    /\ \A t \in Threads :
          /\ last_scanned_header[t] = work[t].pre
          /\ nonce_space[t] = work[t].space
          /\ previous_job[t] = work[t].job
          /\ work[t].pre <= current_work.pre
          /\ work[t].pre = current_work.pre =>
                work[t].space = current_work.space /\ work[t].job = current_work.job
    /\ \A t, u \in Threads : work[t].pre = work[u].pre => work[t].space = work[u].space

\* A thread stays in its range, which is not exhausted when it scans.
PositionOK ==
    \A t \in Threads :
        /\ RangeStart(t, nonce_space[t]) <= next_nonce_index[t]
        /\ next_nonce_index[t] <= RangeEnd(t, nonce_space[t])
        /\ pc[t] = "scan" => next_nonce_index[t] < RangeEnd(t, nonce_space[t])

\* Of the hashes in a thread's range only those were computed that it has
\* behind it, and a thread that has not seen the current preimage has none
\* of it behind it.
BehindOK ==
    \A h \in scanned :
        /\ h.pre <= current_work.pre
        /\ \A t \in Threads :
              /\ h.pre = work[t].pre
                    /\ h.nonce \in miner_get_thread_nonce_range(t, work[t].space) =>
                  \/ h.epoch < verus_nonce_epoch[t]
                  \/ h.epoch = verus_nonce_epoch[t] /\ h.nonce < next_nonce_index[t]
              /\ h.pre = current_work.pre
                    /\ h.nonce \in miner_get_thread_nonce_range(t, current_work.space) =>
                  work[t].pre = h.pre

IInv == TypeOK /\ PublishedOK /\ CopiesOK /\ PositionOK /\ BehindOK /\ NoRepeatedHash

LEMMA SpaceFacts ==
    /\ FullSpace \in Nat /\ FullSpace >= opt_n_threads
    /\ NonceSpaces \subseteq Nat /\ FullSpace \in NonceSpaces
    /\ MaxEpoch \in Nat /\ 0 \notin Jobs /\ Jobs \subseteq Nat
    /\ NoWork \in Work
  BY WorkScanAssumption DEF NonceSpaces, NoWork, Work

LEMMA InitInv == Init => IInv
  <1> SUFFICES ASSUME Init PROVE IInv
    OBVIOUS
  <1>1. \A t \in Threads : /\ RangeStart(t, FullSpace) \in Nat
                           /\ RangeStart(t, FullSpace) <= RangeEnd(t, FullSpace)
    BY SpaceFacts, RangeType
  <1>2. TypeOK
    <2>1. /\ opt_algo \in Algos /\ work_ready \in BOOLEAN /\ aborting \in BOOLEAN
          /\ current_work \in Work /\ work_updates_total \in Nat /\ generation \in Nat
          /\ scanned \subseteq Hash /\ repeated \subseteq scanned
      BY SpaceFacts DEF Init
    <2>2. /\ pc \in [Threads -> Labels] /\ work \in [Threads -> Work]
          /\ nonce_space \in [Threads -> NonceSpaces]
      BY SpaceFacts DEF Init, Labels
    <2>3. /\ work_update_snapshot \in [Threads -> Nat] /\ next_nonce_index \in [Threads -> Nat]
          /\ verus_nonce_epoch \in [Threads -> 0 .. MaxEpoch]
          /\ previous_job \in [Threads -> Jobs \cup {0}] /\ last_scanned_header \in [Threads -> Nat]
      BY <1>1, SpaceFacts DEF Init
    <2> QED
      BY <2>1, <2>2, <2>3 DEF TypeOK
  <1>3. PublishedOK /\ CopiesOK /\ BehindOK /\ NoRepeatedHash
    BY DEF Init, PublishedOK, CopiesOK, BehindOK, NoRepeatedHash, NoWork
  <1>4. PositionOK
    BY <1>1 DEF Init, PositionOK
  <1> QED
    BY <1>2, <1>3, <1>4 DEF IInv

-----------------------------------------------------------------------------
(* One lemma per action. *)

\* A job is published: the latest one again, or one with a preimage that no
\* hash and no thread has.
LEMMA PublishStep == IInv /\ Publish => IInv'
  <1> SUFFICES ASSUME IInv, Publish PROVE IInv'
    OBVIOUS
  <1> USE SpaceFacts
  <1>1. PICK new \in Work, restart \in BOOLEAN :
          /\ stratum_publish_work(new, restart)
          /\ new.pre > 0 /\ new.job \in Jobs /\ new.pre <= work_updates_total + 1
          /\ opt_algo # "randomx" => new.space = FullSpace
          /\ \/ /\ new.pre = current_work.pre /\ new.space = current_work.space
                /\ new.job = current_work.job
             \/ new.pre > current_work.pre
    <2>1. PICK restart \in BOOLEAN :
            \/ current_work # NoWork /\ stratum_publish_work(current_work, restart)
            \/ \E j \in Jobs, space \in IF opt_algo = "randomx" THEN NonceSpaces ELSE {FullSpace} :
                  stratum_publish_work([pre |-> work_updates_total + 1, job |-> j,
                                        space |-> space, gen |-> 0], restart)
      BY DEF Publish
    <2>2. CASE current_work # NoWork /\ stratum_publish_work(current_work, restart)
      <3>1. /\ current_work \in Work /\ current_work.pre > 0 /\ current_work.job \in Jobs
            /\ current_work.pre <= work_updates_total + 1
            /\ opt_algo # "randomx" => current_work.space = FullSpace
        BY <2>2 DEF IInv, TypeOK, PublishedOK, Work
      <3> QED
        BY <2>2, <3>1
    <2>3. ASSUME NEW j \in Jobs,
                 NEW space \in IF opt_algo = "randomx" THEN NonceSpaces ELSE {FullSpace},
                 stratum_publish_work([pre |-> work_updates_total + 1, job |-> j,
                                       space |-> space, gen |-> 0], restart)
          PROVE  \E new \in Work, again \in BOOLEAN :
                   /\ stratum_publish_work(new, again)
                   /\ new.pre > 0 /\ new.job \in Jobs /\ new.pre <= work_updates_total + 1
                   /\ opt_algo # "randomx" => new.space = FullSpace
                   /\ new.pre > current_work.pre
      <3> DEFINE new == [pre |-> work_updates_total + 1, job |-> j, space |-> space, gen |-> 0]
      <3>1. work_updates_total \in Nat /\ current_work.pre \in Nat
            /\ current_work.pre <= work_updates_total
        BY DEF IInv, TypeOK, PublishedOK, Work
      <3>2. new \in Work /\ new.pre = work_updates_total + 1 /\ new.job = j /\ new.space = space
        BY <3>1 DEF Work
      <3>3. opt_algo # "randomx" => space = FullSpace
        BY <2>3
      <3>4. stratum_publish_work(new, restart)
        BY <2>3
      <3> HIDE DEF new
      <3> QED
        BY <3>1, <3>2, <3>3, <3>4
    <2> QED
      BY <2>1, <2>2, <2>3
  <1>2. /\ current_work' \in Work /\ current_work'.pre = new.pre
        /\ current_work'.space = new.space /\ current_work'.job = new.job
        /\ work_updates_total' = work_updates_total + 1
        /\ generation' \in Nat /\ work_ready' = TRUE
    BY <1>1 DEF IInv, TypeOK, stratum_publish_work, Work
  <1>3. UNCHANGED <<opt_algo, aborting, locals, history>>
    BY <1>1 DEF stratum_publish_work
  <1>4. TypeOK'
    BY <1>2, <1>3 DEF IInv, TypeOK, locals, history
  <1>5. PublishedOK'
    BY <1>1, <1>2, <1>3 DEF IInv, TypeOK, PublishedOK, Work, NoWork
  <1>6. CopiesOK'
    BY <1>1, <1>2, <1>3 DEF IInv, TypeOK, CopiesOK, Work, locals
  <1>7. PositionOK' /\ NoRepeatedHash'
    BY <1>3 DEF IInv, PositionOK, NoRepeatedHash, locals, history
  <1>8. BehindOK'
    BY <1>1, <1>2, <1>3 DEF IInv, TypeOK, BehindOK, Work, Hash, locals, history
  <1> QED
    BY <1>4, <1>5, <1>6, <1>7, <1>8 DEF IInv

\* Steps that move no thread through the nonce space.
LEMMA QuietStep ==
    ASSUME IInv,
           \/ stratum_reset_work_state
           \/ miner_request_abort
           \/ \E t \in Threads : Top(t) \/ CopyFails(t) \/ WaitEnds(t)
           \/ UNCHANGED vars
    PROVE  IInv'
  <1>1. /\ UNCHANGED <<opt_algo, current_work, work_updates_total, work, nonce_space,
                       next_nonce_index, verus_nonce_epoch, previous_job,
                       last_scanned_header, scanned, repeated>>
        /\ work_ready' => work_ready
    BY DEF stratum_reset_work_state, miner_request_abort, Top, CopyFails, WaitEnds, vars, runtime,
           locals, history
  <1>2. /\ work_ready' \in BOOLEAN /\ generation' \in Nat /\ aborting' \in BOOLEAN
    <2>1. generation' \in Nat
      BY DEF IInv, TypeOK, stratum_reset_work_state, miner_request_abort, Top, CopyFails,
             WaitEnds, vars, runtime
    <2>2. work_ready' \in {work_ready, FALSE} /\ aborting' \in {aborting, TRUE}
      BY DEF stratum_reset_work_state, miner_request_abort, Top, CopyFails, WaitEnds, vars,
             runtime
    <2> QED
      BY <2>1, <2>2 DEF IInv, TypeOK
  <1>3. /\ pc' \in [Threads -> Labels] /\ work_update_snapshot' \in [Threads -> Nat]
        /\ \A t \in Threads : pc'[t] = "scan" => pc[t] = "scan"
    BY DEF IInv, TypeOK, Labels, stratum_reset_work_state, miner_request_abort, Top, CopyFails,
           WaitEnds, vars, runtime, locals
  <1>4. TypeOK'
    BY <1>1, <1>2, <1>3 DEF IInv, TypeOK
  <1>5. PublishedOK' /\ CopiesOK' /\ PositionOK' /\ BehindOK' /\ NoRepeatedHash'
    BY <1>1, <1>3 DEF IInv, PublishedOK, CopiesOK, PositionOK, BehindOK, NoRepeatedHash
  <1> QED
    BY <1>4, <1>5 DEF IInv

\* The nonce and epoch a thread goes on from.
LEMMA CopyStep ==
    ASSUME IInv, NEW t \in Threads, CopyWork(t)
    PROVE  IInv'
  <1> DEFINE w         == current_work
             resume    == ResumeAt(t, w)
             epoch     == IF work_is_new_job(t, w) THEN 0 ELSE verus_nonce_epoch[t]
             exhausted == RangeExhausted(t, resume, w.space)
             roll      == exhausted /\ verus_nonce_epoch_can_roll(epoch)
             start     == RangeStart(t, w.space)
             nonce     == IF roll THEN start ELSE resume
             rolled    == IF roll THEN epoch + 1 ELSE epoch
             label     == IF exhausted /\ ~roll THEN "wait" ELSE "scan"
  <1>1. /\ w \in Work /\ w.space \in Nat /\ w.space \in NonceSpaces /\ w.pre \in Nat /\ w.pre > 0
        /\ w.job \in Jobs /\ w.job # 0
    BY SpaceFacts DEF IInv, TypeOK, PublishedOK, CopyWork, Work
  <1>2. /\ start \in Nat /\ RangeEnd(t, w.space) \in Nat /\ start <= RangeEnd(t, w.space)
        /\ w.space >= opt_n_threads => start < RangeEnd(t, w.space)
    BY <1>1, RangeType
  <1>3. /\ next_nonce_index[t] \in Nat /\ verus_nonce_epoch[t] \in 0 .. MaxEpoch
        /\ nonce_space[t] = w.space =>
              start <= next_nonce_index[t] /\ next_nonce_index[t] <= RangeEnd(t, w.space)
    BY DEF IInv, TypeOK, PositionOK
  <1>4. /\ resume \in Nat /\ start <= resume /\ resume <= RangeEnd(t, w.space)
    BY <1>2, <1>3 DEF ResumeAt
  <1>5. epoch \in 0 .. MaxEpoch /\ rolled \in 0 .. MaxEpoch
    BY <1>3, SpaceFacts DEF verus_nonce_epoch_can_roll
  <1>6. roll => start < RangeEnd(t, w.space)
    BY <1>2, SpaceFacts DEF IInv, PublishedOK, verus_nonce_epoch_can_roll
  <1>7. /\ nonce \in Nat /\ start <= nonce /\ nonce <= RangeEnd(t, w.space)
        /\ label = "scan" => nonce < RangeEnd(t, w.space)
    BY <1>2, <1>4, <1>6 DEF RangeExhausted
  <1>8. work[t].pre = w.pre =>
          resume = next_nonce_index[t] /\ epoch = verus_nonce_epoch[t]
    BY <1>1 DEF IInv, CopiesOK, ResumeAt, work_is_new_job
  <1>9. /\ work' = [work EXCEPT ![t] = w]
        /\ nonce_space' = [nonce_space EXCEPT ![t] = w.space]
        /\ previous_job' = [previous_job EXCEPT ![t] = w.job]
        /\ last_scanned_header' = [last_scanned_header EXCEPT ![t] = w.pre]
        /\ verus_nonce_epoch' = [verus_nonce_epoch EXCEPT ![t] = rolled]
        /\ next_nonce_index' = [next_nonce_index EXCEPT ![t] = nonce]
        /\ pc' = [pc EXCEPT ![t] = label]
        /\ UNCHANGED <<opt_algo, runtime, aborting, work_update_snapshot, history>>
    BY DEF CopyWork
  <1>10. label \in Labels /\ (roll => rolled = epoch + 1) /\ (~roll => rolled = epoch /\ nonce = resume)
    BY DEF Labels
  <1> HIDE DEF resume, epoch, exhausted, roll, start, nonce, rolled, label
  <1>11. TypeOK'
    BY <1>1, <1>5, <1>7, <1>9, <1>10 DEF IInv, TypeOK, runtime, history
  <1>12. PublishedOK' /\ NoRepeatedHash'
    BY <1>9 DEF IInv, PublishedOK, NoRepeatedHash, runtime, history
  <1>13. CopiesOK'
    <2>1. /\ work'[t] = w /\ current_work' = w
          /\ last_scanned_header'[t] = w.pre /\ nonce_space'[t] = w.space
          /\ previous_job'[t] = w.job
      BY <1>9 DEF IInv, TypeOK, runtime
    <2>2. \A u \in Threads : u # t =>
            /\ work'[u] = work[u] /\ last_scanned_header'[u] = last_scanned_header[u]
            /\ nonce_space'[u] = nonce_space[u] /\ previous_job'[u] = previous_job[u]
      BY <1>9 DEF IInv, TypeOK
    <2> QED
      BY <1>1, <2>1, <2>2 DEF IInv, CopiesOK
  <1>14. PositionOK'
    BY <1>7, <1>9 DEF IInv, TypeOK, PositionOK, start
  <1>15. BehindOK'
    <2> SUFFICES ASSUME NEW h \in scanned, NEW u \in Threads
                 PROVE  /\ h.pre <= w.pre
                        /\ h.pre = work'[u].pre
                             /\ h.nonce \in miner_get_thread_nonce_range(u, work'[u].space) =>
                           \/ h.epoch < verus_nonce_epoch'[u]
                           \/ h.epoch = verus_nonce_epoch'[u] /\ h.nonce < next_nonce_index'[u]
                        /\ h.pre = w.pre
                             /\ h.nonce \in miner_get_thread_nonce_range(u, w.space) =>
                           work'[u].pre = h.pre
      BY <1>9 DEF BehindOK, runtime, history
    <2>1. /\ h.pre <= w.pre
          /\ h.pre = work[u].pre
               /\ h.nonce \in miner_get_thread_nonce_range(u, work[u].space) =>
             \/ h.epoch < verus_nonce_epoch[u]
             \/ h.epoch = verus_nonce_epoch[u] /\ h.nonce < next_nonce_index[u]
          /\ h.pre = w.pre
               /\ h.nonce \in miner_get_thread_nonce_range(u, w.space) =>
             work[u].pre = h.pre
      BY DEF IInv, BehindOK
    <2>2. CASE u # t
      BY <1>9, <2>1, <2>2 DEF IInv, TypeOK
    <2>3. CASE u = t
      <3>1. /\ work'[u] = w /\ verus_nonce_epoch'[u] = rolled /\ next_nonce_index'[u] = nonce
        BY <1>9, <2>3 DEF IInv, TypeOK
      <3>2. CASE h.pre = w.pre /\ h.nonce \in miner_get_thread_nonce_range(u, w.space)
        <4>1. work[u].pre = w.pre /\ work[u].space = w.space
          BY <2>1, <3>2 DEF IInv, CopiesOK
        <4>2. \/ h.epoch < epoch
              \/ h.epoch = epoch /\ h.nonce < resume
          BY <1>8, <2>1, <2>3, <3>2, <4>1
        <4>3. h.epoch \in Nat
          BY SpaceFacts DEF IInv, TypeOK, Hash
        <4> QED
          BY <1>5, <1>10, <2>1, <3>1, <3>2, <4>2, <4>3
      <3> QED
        BY <2>1, <3>1, <3>2
    <2> QED
      BY <2>2, <2>3
  <1> QED
    BY <1>11, <1>12, <1>13, <1>14, <1>15 DEF IInv

\* The hashes of a chunk are new, and they are behind the thread afterwards.
LEMMA ScanStep ==
    ASSUME IInv, NEW t \in Threads, NEW hashes_done \in 0 .. ChunkSize, NEW found \in BOOLEAN,
           Scan(t, hashes_done, found)
    PROVE  IInv'
  <1> DEFINE old    == next_nonce_index[t]
             next   == old + hashes_done
             hashes == [pre : {work[t].pre}, epoch : {verus_nonce_epoch[t]}, nonce : old .. next-1]
  <1>1. /\ old \in Nat /\ hashes_done \in Nat /\ next \in Nat /\ old <= next
        /\ work[t] \in Work /\ work[t].space \in Nat /\ work[t].pre \in Nat
        /\ work[t].space = nonce_space[t] /\ work[t].pre <= current_work.pre
        /\ verus_nonce_epoch[t] \in 0 .. MaxEpoch
    <2>1. old \in Nat /\ work[t] \in Work /\ verus_nonce_epoch[t] \in 0 .. MaxEpoch
      BY DEF IInv, TypeOK
    <2>2. work[t].space = nonce_space[t] /\ work[t].pre <= current_work.pre
      BY DEF IInv, CopiesOK
    <2>3. work[t].space \in Nat /\ work[t].pre \in Nat
      BY <2>1, SpaceFacts DEF Work
    <2>4. hashes_done \in Nat
      BY WorkScanAssumption
    <2> QED
      BY <2>1, <2>2, <2>3, <2>4
  <1>2. /\ RangeStart(t, work[t].space) \in Nat /\ RangeEnd(t, work[t].space) \in Nat
        /\ RangeStart(t, work[t].space) <= old /\ next <= RangeEnd(t, work[t].space)
    BY <1>1, RangeType DEF IInv, PositionOK, Scan
  <1>3. ASSUME NEW h \in hashes
        PROVE  /\ h \in Hash /\ h.pre = work[t].pre /\ h.epoch = verus_nonce_epoch[t]
               /\ h.nonce \in miner_get_thread_nonce_range(t, work[t].space)
               /\ old <= h.nonce /\ h.nonce < next
    BY <1>1, <1>2 DEF Hash, miner_get_thread_nonce_range
  <1>4. /\ next_nonce_index' = [next_nonce_index EXCEPT ![t] = next]
        /\ scanned' = scanned \cup hashes
        /\ repeated' = repeated \cup (scanned \cap hashes)
        /\ UNCHANGED <<opt_algo, runtime, aborting, work_update_snapshot, work, nonce_space,
                       verus_nonce_epoch, previous_job, last_scanned_header>>
    BY DEF Scan
  <1>5. pc' \in [Threads -> Labels] /\ \A u \in Threads : pc'[u] = "scan" => pc[u] = "scan" /\ u # t
    BY DEF IInv, TypeOK, Scan, Labels
  <1> HIDE DEF hashes, next
  <1>6. scanned \cap hashes = {}
    <2> SUFFICES ASSUME NEW h \in scanned, h \in hashes PROVE FALSE
      OBVIOUS
    <2>1. h.epoch < verus_nonce_epoch[t] \/ h.nonce < old
      BY <1>3 DEF IInv, BehindOK
    <2> QED
      BY <1>1, <1>3, <2>1, SpaceFacts DEF Hash
  <1>7. NoRepeatedHash'
    BY <1>4, <1>6 DEF IInv, NoRepeatedHash
  <1>8. TypeOK'
    BY <1>1, <1>3, <1>4, <1>5, <1>6 DEF IInv, TypeOK, NoRepeatedHash, runtime
  <1>9. PublishedOK' /\ CopiesOK'
    BY <1>4 DEF IInv, PublishedOK, CopiesOK, runtime
  <1>10. PositionOK'
    BY <1>1, <1>2, <1>4, <1>5 DEF IInv, TypeOK, PositionOK
  <1>11. BehindOK'
    <2> SUFFICES ASSUME NEW h \in scanned', NEW u \in Threads
                 PROVE  /\ h.pre <= current_work.pre
                        /\ h.pre = work[u].pre
                             /\ h.nonce \in miner_get_thread_nonce_range(u, work[u].space) =>
                           \/ h.epoch < verus_nonce_epoch[u]
                           \/ h.epoch = verus_nonce_epoch[u] /\ h.nonce < next_nonce_index'[u]
                        /\ h.pre = current_work.pre
                             /\ h.nonce \in miner_get_thread_nonce_range(u, current_work.space) =>
                           work[u].pre = h.pre
      BY <1>4 DEF BehindOK, runtime
    <2>1. CASE h \in scanned
      <3>1. h.nonce \in Nat /\ next_nonce_index[u] \in Nat
        BY <2>1 DEF IInv, TypeOK, Hash
      <3>2. next_nonce_index'[u] \in Nat /\ next_nonce_index[u] <= next_nonce_index'[u]
        BY <1>1, <1>4, <3>1 DEF IInv, TypeOK
      <3> QED
        BY <2>1, <3>1, <3>2 DEF IInv, BehindOK
    <2>2. CASE h \in hashes
      <3>1. ASSUME u # t, NEW space \in Nat, space = work[t].space
            PROVE  h.nonce \notin miner_get_thread_nonce_range(u, space)
        BY <1>3, <2>2, <3>1, RangesDisjoint
      <3>2. CASE u = t
        BY <1>1, <1>3, <1>4, <2>2, <3>2 DEF IInv, TypeOK
      <3>3. CASE u # t
        <4>1. h.pre = work[u].pre => work[u].space = work[t].space
          BY <1>3, <2>2 DEF IInv, CopiesOK
        <4>2. h.pre = current_work.pre => current_work.space = work[t].space
          BY <1>3, <2>2 DEF IInv, CopiesOK
        <4> QED
          BY <1>1, <1>3, <2>2, <3>1, <3>3, <4>1, <4>2
      <3> QED
        BY <3>2, <3>3
    <2> QED
      BY <1>4, <2>1, <2>2
  <1> QED
    BY <1>7, <1>8, <1>9, <1>10, <1>11 DEF IInv

LEMMA InvInductive == IInv /\ [Next]_vars => IInv'
  <1> SUFFICES ASSUME IInv, [Next]_vars PROVE IInv'
    OBVIOUS
  <1>1. ASSUME NEW t \in Threads, miner_thread(t) PROVE IInv'
    BY <1>1, QuietStep, CopyStep, ScanStep DEF miner_thread
  <1> QED
    BY <1>1, PublishStep, QuietStep DEF Next

-----------------------------------------------------------------------------
(* Theorems. *)

THEOREM Invariance == Spec => []IInv
  BY InitInv, InvInductive, PTL DEF Spec

\* Every variable keeps its type; the Verus epoch never wraps.
THEOREM TypeCorrect == Spec => []TypeOK
  <1>1. IInv => TypeOK
    BY DEF IInv
  <1> QED
    BY <1>1, Invariance, PTL

\* A thread that scans is inside its own part of the nonce space.
THEOREM ScanInRangeCorrect == Spec => []ScanInRange
  <1>1. IInv => ScanInRange
    <2> SUFFICES ASSUME IInv, NEW t \in Threads, pc[t] = "scan"
                 PROVE  next_nonce_index[t] \in miner_get_thread_nonce_range(t, work[t].space)
      BY DEF ScanInRange
    <2>1. work[t].space \in Nat /\ work[t].space = nonce_space[t] /\ next_nonce_index[t] \in Nat
      BY SpaceFacts DEF IInv, TypeOK, CopiesOK, Work
    <2> QED
      BY <2>1, RangeType DEF IInv, PositionOK, miner_get_thread_nonce_range
  <1> QED
    BY <1>1, Invariance, PTL

\* No hash is computed twice, by one thread or by two, across refreshes,
\* epochs, reconnects, restarts and changes of the nonce space.
THEOREM NoRepeatedHashCorrect == Spec => []NoRepeatedHash
  <1>1. IInv => NoRepeatedHash
    BY DEF IInv
  <1> QED
    BY <1>1, Invariance, PTL
=============================================================================
