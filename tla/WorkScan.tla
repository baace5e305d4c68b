------------------------------ MODULE WorkScan ------------------------------
(***************************************************************************)
(* Published work and the threads that scan it.  The service thread        *)
(* installs a job (stratum_publish_work) or withdraws it                   *)
(* (stratum_reset_work_state); every miner thread copies the published     *)
(* job, decides where in its part of the nonce space to go on, scans a     *)
(* chunk, and waits for new work when its part is exhausted.               *)
(*                                                                         *)
(* A job is abstracted to pre, the part of the header below the nonce,     *)
(* which decides the hashes; job, what work_is_new_job compares (the       *)
(* previous block for Verus, the job id otherwise); and the size of the    *)
(* nonce space.  The pool is assumed never to go back to an earlier        *)
(* preimage: it sends the latest job again or one with a preimage of its   *)
(* own.                                                                    *)
(***************************************************************************)
EXTENDS NoncePartition, FiniteSets

CONSTANTS
    Algos,        \* of "verus", "standard" (SHA256d and scrypt), "randomx"
    FullSpace,    \* size of the nonce space (2^32)
    NicehashSpace,\* its size in nicehash mode, which only RandomX has (2^24)
    Jobs,         \* previous blocks or job ids
    MaxEpoch,     \* largest Verus epoch (UINT32_MAX)
    ChunkSize,    \* bound: nonces scanned in one go
    MaxPublish    \* bound: jobs published

ASSUME WorkScanAssumption ==
    /\ Algos \subseteq {"verus", "standard", "randomx"} /\ Algos # {}
    /\ FullSpace \in Nat /\ FullSpace >= opt_n_threads /\ NicehashSpace \in Nat
    /\ Jobs \subseteq Nat \ {0} /\ Jobs # {}
    /\ MaxEpoch \in Nat
    /\ ChunkSize \in Nat \ {0}
    /\ MaxPublish \in Nat

NonceSpaces == {FullSpace, NicehashSpace}

Work   == [pre : Nat, job : Jobs \cup {0}, space : NonceSpaces, gen : Nat]
NoWork == [pre |-> 0, job |-> 0, space |-> FullSpace, gen |-> 0]
Hash   == [pre : Nat, epoch : 0 .. MaxEpoch, nonce : Nat]
Labels == {"top", "copy", "scan", "wait", "done"}

VARIABLES
    opt_algo,               \* chosen at start-up
    \* g_runtime_state, under stratum_work_lock, and the generation
    work_ready, current_work, work_updates_total, generation,
    aborting,
    \* locals of each miner_thread
    pc, work_update_snapshot, work, nonce_space, next_nonce_index,
    verus_nonce_epoch,
    previous_job,           \* 0 before the first work
    last_scanned_header,
    \* history
    scanned,                \* hashes computed
    repeated                \* hashes computed more than once

runtime == <<work_ready, current_work, work_updates_total, generation>>
locals  == <<pc, work_update_snapshot, work, nonce_space, next_nonce_index,
             verus_nonce_epoch, previous_job, last_scanned_header>>
history == <<scanned, repeated>>
vars    == <<opt_algo, runtime, aborting, locals, history>>

TypeOK ==
    /\ opt_algo \in Algos
    /\ work_ready \in BOOLEAN
    /\ current_work \in Work
    /\ work_updates_total \in Nat
    /\ generation \in Nat
    /\ aborting \in BOOLEAN
    /\ pc \in [Threads -> Labels]
    /\ work_update_snapshot \in [Threads -> Nat]
    /\ work \in [Threads -> Work]
    /\ nonce_space \in [Threads -> NonceSpaces]
    /\ next_nonce_index \in [Threads -> Nat]
    /\ verus_nonce_epoch \in [Threads -> 0 .. MaxEpoch]
    /\ previous_job \in [Threads -> Jobs \cup {0}]
    /\ last_scanned_header \in [Threads -> Nat]
    /\ scanned \subseteq Hash
    /\ repeated \subseteq scanned

-----------------------------------------------------------------------------
(* The service thread. *)

\* Install a job.  It forces a restart when it is clean, when its height or
\* target differ, or when no work was published.
stratum_publish_work(new, restart) ==
    /\ work_updates_total < MaxPublish
    /\ ~work_ready => restart
    /\ work_updates_total' = work_updates_total + 1
    /\ generation' = IF restart THEN generation + 1 ELSE generation
    /\ current_work' = [new EXCEPT !.gen = generation']
    /\ work_ready' = TRUE
    /\ UNCHANGED <<opt_algo, aborting, locals, history>>

\* The pool sends the latest job again, or a job with a fresh preimage.
Publish ==
    \E restart \in BOOLEAN :
        \/ current_work # NoWork /\ stratum_publish_work(current_work, restart)
        \/ \E j \in Jobs, space \in IF opt_algo = "randomx" THEN NonceSpaces ELSE {FullSpace} :
              stratum_publish_work([pre |-> work_updates_total + 1, job |-> j,
                                    space |-> space, gen |-> 0], restart)

\* A disconnect withdraws the work; current_work is kept here as the job the
\* pool may send again.  A second disconnect before the next job moves the
\* generation once more, away from values no thread has a copy of any longer,
\* and is left out.
stratum_reset_work_state ==
    /\ work_ready
    /\ work_ready' = FALSE
    /\ generation' = generation + 1
    /\ UNCHANGED <<opt_algo, current_work, work_updates_total, aborting, locals, history>>

miner_request_abort ==
    /\ ~aborting
    /\ aborting' = TRUE
    /\ UNCHANGED <<opt_algo, runtime, locals, history>>

-----------------------------------------------------------------------------
(* A miner thread. *)

RangeExhausted(t, n, space) == n >= RangeEnd(t, space)

work_is_new_job(t, w) == previous_job[t] = 0 \/ w.job # previous_job[t]

\* Bug: the last epoch is not recognised.
RollsForever(epoch) == opt_algo = "verus"

verus_nonce_epoch_can_roll(epoch) == opt_algo = "verus" /\ epoch < MaxEpoch

\* The loop head: leave on abort, else note the publication counter.
Top(t) ==
    /\ pc[t] = "top"
    /\ IF aborting
       THEN pc' = [pc EXCEPT ![t] = "done"] /\ UNCHANGED work_update_snapshot
       ELSE /\ pc' = [pc EXCEPT ![t] = "copy"]
            /\ work_update_snapshot' = [work_update_snapshot EXCEPT ![t] = work_updates_total]
    /\ UNCHANGED <<opt_algo, runtime, aborting, work, nonce_space, next_nonce_index,
                   verus_nonce_epoch, previous_job, last_scanned_header, history>>

\* No work is published: sleep and start over.
CopyFails(t) ==
    /\ pc[t] = "copy" /\ ~work_ready
    /\ pc' = [pc EXCEPT ![t] = "top"]
    /\ UNCHANGED <<opt_algo, runtime, aborting, work_update_snapshot, work, nonce_space,
                   next_nonce_index, verus_nonce_epoch, previous_job,
                   last_scanned_header, history>>

\* Bug: a new preimage is assumed whenever the range is exhausted.
ResumeIgnoringPreimage(t, w) ==
    IF \/ w.space # nonce_space[t]
       \/ work_is_new_job(t, w)
       \/ RangeExhausted(t, next_nonce_index[t], w.space)
    THEN RangeStart(t, w.space)
    ELSE next_nonce_index[t]

\* Bug: a change of the nonce space goes unnoticed.
ResumeInOldSpace(t, w) ==
    IF work_is_new_job(t, w) THEN RangeStart(t, w.space) ELSE next_nonce_index[t]

\* The nonce to go on from with job w: the start of the thread's range for a
\* new job, for another nonce space, or for a preimage that differs from the
\* one the range was exhausted with; else where the thread was.
ResumeAt(t, w) ==
    IF \/ w.space # nonce_space[t]
       \/ work_is_new_job(t, w)
       \/ /\ opt_algo # "randomx"
          /\ RangeExhausted(t, next_nonce_index[t], w.space)
          /\ w.pre # last_scanned_header[t]
    THEN RangeStart(t, w.space)
    ELSE next_nonce_index[t]

\* stratum_copy_work succeeds; choose nonce and epoch.  A Verus thread whose
\* range is exhausted rolls to the next epoch, another one has to wait.
CopyWork(t) ==
    LET w         == current_work
        resume    == ResumeAt(t, w)
        epoch     == IF work_is_new_job(t, w) THEN 0 ELSE verus_nonce_epoch[t]
        exhausted == RangeExhausted(t, resume, w.space)
        roll      == exhausted /\ verus_nonce_epoch_can_roll(epoch)
    IN  /\ pc[t] = "copy" /\ work_ready
        /\ work' = [work EXCEPT ![t] = w]
        /\ nonce_space' = [nonce_space EXCEPT ![t] = w.space]
        /\ previous_job' = [previous_job EXCEPT ![t] = w.job]
        /\ last_scanned_header' = [last_scanned_header EXCEPT ![t] = w.pre]
        /\ verus_nonce_epoch' = [verus_nonce_epoch EXCEPT
                                   ![t] = IF roll THEN epoch + 1 ELSE epoch]
        /\ next_nonce_index' = [next_nonce_index EXCEPT
                                   ![t] = IF roll THEN RangeStart(t, w.space) ELSE resume]
        /\ pc' = [pc EXCEPT ![t] = IF exhausted /\ ~roll THEN "wait" ELSE "scan"]
        /\ UNCHANGED <<opt_algo, runtime, aborting, work_update_snapshot, history>>

\* scanhash_dispatch computes some of the chunk's hashes (it stops early when
\* the work is outdated or it found shares).  An exhausted thread that found
\* nothing waits at once.
Scan(t, hashes_done, found) ==
    LET next   == next_nonce_index[t] + hashes_done
        hashes == [pre : {work[t].pre}, epoch : {verus_nonce_epoch[t]},
                   nonce : next_nonce_index[t] .. next-1]
    IN  /\ pc[t] = "scan"
        /\ next <= RangeEnd(t, nonce_space[t])
        /\ found => hashes_done > 0
        /\ next_nonce_index' = [next_nonce_index EXCEPT ![t] = next]
        /\ scanned' = scanned \cup hashes
        /\ repeated' = repeated \cup (scanned \cap hashes)
        /\ pc' = [pc EXCEPT ![t] =
                    IF /\ ~found
                       /\ RangeExhausted(t, next, nonce_space[t])
                       /\ ~verus_nonce_epoch_can_roll(verus_nonce_epoch[t])
                    THEN "wait" ELSE "top"]
        /\ UNCHANGED <<opt_algo, runtime, aborting, work_update_snapshot, work, nonce_space,
                       verus_nonce_epoch, previous_job, last_scanned_header>>

\* Bugs: only a restart ends the wait; an abort does not.
WaitOverOnRestart(t) == work[t].gen # generation \/ aborting
WaitOverOnWork(t) ==
    work[t].gen # generation \/ work_updates_total # work_update_snapshot[t]

\* When the wait of an exhausted thread is over.
WaitOver(t) ==
    \/ work[t].gen # generation
    \/ aborting
    \/ work_updates_total # work_update_snapshot[t]

\* wait_for_work_restart_after_nonce_exhaustion ends.
WaitEnds(t) ==
    /\ pc[t] = "wait"
    /\ WaitOver(t)
    /\ pc' = [pc EXCEPT ![t] = "top"]
    /\ UNCHANGED <<opt_algo, runtime, aborting, work_update_snapshot, work, nonce_space,
                   next_nonce_index, verus_nonce_epoch, previous_job,
                   last_scanned_header, history>>

miner_thread(t) ==
    \/ Top(t) \/ CopyFails(t) \/ CopyWork(t)
    \/ \E hashes_done \in 0 .. ChunkSize, found \in BOOLEAN : Scan(t, hashes_done, found)
    \/ WaitEnds(t)

-----------------------------------------------------------------------------
Init ==
    /\ opt_algo \in Algos
    /\ work_ready = FALSE
    /\ current_work = NoWork
    /\ work_updates_total = 0
    /\ generation = 0
    /\ aborting = FALSE
    /\ pc = [t \in Threads |-> "top"]
    /\ work_update_snapshot = [t \in Threads |-> 0]
    /\ work = [t \in Threads |-> NoWork]
    /\ nonce_space = [t \in Threads |-> FullSpace]
    /\ next_nonce_index = [t \in Threads |-> RangeStart(t, FullSpace)]
    /\ verus_nonce_epoch = [t \in Threads |-> 0]
    /\ previous_job = [t \in Threads |-> 0]
    /\ last_scanned_header = [t \in Threads |-> 0]
    /\ scanned = {}
    /\ repeated = {}

Next ==
    \/ Publish
    \/ stratum_reset_work_state
    \/ miner_request_abort
    \/ \E t \in Threads : miner_thread(t)

Spec == Init /\ [][Next]_vars

\* Every miner thread keeps running; pools and user owe nothing.
FairSpec == Spec /\ \A t \in Threads : WF_vars(miner_thread(t))

-----------------------------------------------------------------------------
(* Properties. *)

\* No hash is computed twice, by one thread or by two: not across refreshes
\* of a job, epochs, reconnects, restarts in the middle of a chunk, or a
\* change of the nonce space.  A repeated hash is a duplicate share.
NoRepeatedHash == repeated = {}

\* A thread never leaves its part of the nonce space.
ScanInRange ==
    \A t \in Threads : pc[t] = "scan" =>
        next_nonce_index[t] \in miner_get_thread_nonce_range(t, work[t].space)

\* Once the pool has sent its last job, that job reaches every thread, also one
\* that waits with an exhausted range and even if the job forces no restart,
\* unless it is withdrawn or the program ends: no wakeup is lost.
WorkAdopted ==
    <>[][work_updates_total' = work_updates_total]_work_updates_total =>
        []<>(work_ready /\ ~aborting =>
                \A t \in Threads : work[t].pre = current_work.pre)

\* Every thread stops after an abort, wherever it is in its loop.
ThreadsStop == []<>(aborting => \A t \in Threads : pc[t] = "done")
=============================================================================
