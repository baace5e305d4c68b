---------------------------- MODULE RandomXRekey ----------------------------
(***************************************************************************)
(* The RandomX runtime: one dataset (fast mode) or cache (light mode) that *)
(* all miner threads read without a lock while they hash, and that the     *)
(* service thread rebuilds in place when a job carries another seed.       *)
(*                                                                         *)
(* randomx_set_seed moves the work generation and then polls a counter of  *)
(* the threads inside the scan loop; scanhash_randomx moves the counter    *)
(* and then reads the generation.  The two sequentially consistent fences  *)
(* of the code are what makes interleavings of single steps a faithful     *)
(* model of it.  The poll is bounded: after DrainPolls rounds the rebuild  *)
(* goes on with hashes in flight.                                          *)
(*                                                                         *)
(* A hash is two steps, its start and its end; it is sound when the memory *)
(* held the key of its job from the one to the other.  Keys are abstract,  *)
(* blobs, nonces and hash values are left out.                             *)
(***************************************************************************)
EXTENDS Naturals, FiniteSets

CONSTANTS
    Threads,
    Seeds,        \* seed hashes the pool sends
    BenchmarkKey, \* the built-in key of benchmark mode
    None,         \* no seed, no key
    Torn,         \* memory that is being rebuilt
    DrainPolls,   \* rounds of rx_drain_active_hashers (2000)
    MaxJobs,      \* bound: jobs and disconnects
    MaxFailures   \* bound: allocations that fail

ASSUME RandomXAssumption ==
    /\ IsFiniteSet(Threads)
    /\ Seeds # {} /\ BenchmarkKey \notin Seeds
    /\ {None, Torn} \cap (Seeds \cup {BenchmarkKey}) = {} /\ None # Torn
    /\ DrainPolls \in Nat \ {0} /\ MaxJobs \in Nat
    /\ MaxFailures \in Nat

Keys  == Seeds \cup {BenchmarkKey}
Work  == [seed : Keys \cup {None}, gen : Nat]
NoWork == [seed |-> None, gen |-> 0]

VARIABLES
    opt_benchmark, aborting,
    \* under g_rx_lock
    g_rx_lock,              \* whether the service thread is inside
    g_runtime_ready, g_seed, g_epoch,
    g_vm_epoch,             \* 0: the thread has no VM
    memory,                 \* the key the dataset or cache holds
    g_rx_active_hashers,
    \* published work
    generation, current_work, work_ready, events, failures,
    \* the service thread
    svc, job_seed, polls,
    gave_up,                \* the drain of this re-key ended with hashers left
    \* each miner thread
    pc, work,
    sound,                  \* the last hash had its key throughout
    submitted               \* history: whether the shares sent were sound

service == <<svc, job_seed, polls, gave_up>>
locals  == <<pc, work, sound>>
feed    == <<generation, current_work, work_ready, events, failures>>
keyed   == <<g_seed, g_epoch, memory>>
vars    == <<opt_benchmark, aborting, g_rx_lock, g_runtime_ready, keyed, g_vm_epoch,
             g_rx_active_hashers, feed, service, locals, submitted>>

TypeOK ==
    /\ opt_benchmark \in BOOLEAN /\ aborting \in BOOLEAN /\ g_rx_lock \in BOOLEAN
    /\ g_runtime_ready \in BOOLEAN
    /\ g_seed \in Keys \cup {None} /\ g_epoch \in Nat
    /\ memory \in Keys \cup {None, Torn}
    /\ g_vm_epoch \in [Threads -> Nat]
    /\ g_rx_active_hashers \in 0 .. Cardinality(Threads)
    /\ generation \in Nat /\ current_work \in Work /\ work_ready \in BOOLEAN
    /\ events \in 0 .. MaxJobs /\ failures \in 0 .. MaxFailures
    /\ svc \in {"off", "recv", "set_seed", "drain", "apply", "rebuild", "commit", "done"}
    /\ job_seed \in Seeds \cup {None} /\ polls \in 0 .. DrainPolls
    /\ gave_up \in BOOLEAN
    /\ pc \in [Threads -> {"off", "copy", "vm", "enter", "check", "hash", "leave",
                           "leave_share", "submit", "done"}]
    /\ work \in [Threads -> Work] /\ sound \in [Threads -> BOOLEAN]
    /\ submitted \subseteq BOOLEAN

-----------------------------------------------------------------------------
(* Start-up and shutdown, by the main thread. *)

AllocationFails == failures < MaxFailures /\ failures' = failures + 1

\* Self-test on a throwaway VM (JIT, else JIT with W^X, else interpreter),
\* then allocation of the cache and, in fast mode, the dataset, whose lack
\* selects light mode.  Light mode rebuilds the cache where fast mode rebuilds
\* both, and the modes of a VM compute the same hashes, so what is left here
\* is whether the runtime comes up.  If not, the program does not mine.
randomx_init_runtime ==
    /\ svc = "off" /\ ~g_runtime_ready /\ ~aborting
    /\ \/ /\ g_runtime_ready' = TRUE /\ UNCHANGED failures
          /\ svc' = IF opt_benchmark THEN "done" ELSE "recv"
          /\ pc' = [t \in Threads |-> "copy"]
          /\ UNCHANGED aborting
       \/ AllocationFails /\ aborting' = TRUE /\ UNCHANGED <<g_runtime_ready, svc, pc>>
    /\ g_seed' = None /\ g_epoch' = 0 /\ memory' = None
    /\ g_vm_epoch' = [t \in Threads |-> 0]
    /\ current_work' = [current_work EXCEPT
                          !.seed = IF opt_benchmark THEN BenchmarkKey ELSE None]
    /\ work_ready' = opt_benchmark
    /\ UNCHANGED <<opt_benchmark, g_rx_lock, g_rx_active_hashers, generation, events,
                   job_seed, polls, gave_up, work, sound, submitted>>

\* After the worker threads and the service thread were joined.
randomx_cleanup_runtime ==
    /\ g_runtime_ready /\ svc = "done"
    /\ \A t \in Threads : pc[t] = "done"
    /\ g_runtime_ready' = FALSE /\ memory' = None
    /\ g_vm_epoch' = [t \in Threads |-> 0]
    /\ UNCHANGED <<opt_benchmark, aborting, g_rx_lock, g_seed, g_epoch,
                   g_rx_active_hashers, feed, service, locals, submitted>>

miner_request_abort ==
    /\ g_runtime_ready /\ ~aborting
    /\ aborting' = TRUE
    /\ UNCHANGED <<opt_benchmark, g_rx_lock, g_runtime_ready, keyed, g_vm_epoch,
                   g_rx_active_hashers, feed, service, locals, submitted>>

-----------------------------------------------------------------------------
(* The service thread: a job arrives, the key is changed, work is published. *)

\* A job with a usable seed; one without is rejected by xmr_parse_job_view.
xmr_stratum_handle_job ==
    \E s \in Seeds :
        /\ svc = "recv" /\ events < MaxJobs /\ ~aborting
        /\ events' = events + 1
        /\ job_seed' = s
        /\ svc' = "set_seed"
        /\ UNCHANGED <<opt_benchmark, aborting, g_rx_lock, g_runtime_ready, keyed, g_vm_epoch,
                       g_rx_active_hashers, generation, current_work, work_ready, failures,
                       polls, gave_up, locals, submitted>>

\* Bug: the threads are not told to leave the scan loop.
SetSeedWithoutBump ==
    LET rekey == g_runtime_ready /\ g_seed # job_seed IN
    /\ svc = "set_seed" /\ ~g_rx_lock
    /\ g_rx_lock' = rekey
    /\ svc' = IF ~rekey THEN "commit" ELSE IF g_epoch > 0 THEN "drain" ELSE "apply"
    /\ polls' = 0 /\ gave_up' = FALSE
    /\ UNCHANGED <<opt_benchmark, aborting, g_runtime_ready, keyed, g_vm_epoch,
                   g_rx_active_hashers, feed, job_seed, locals, submitted>>

\* Take the lock; with another seed move the generation, unless no key was
\* ever applied, and go on to the drain.
randomx_set_seed ==
    LET rekey == g_runtime_ready /\ g_seed # job_seed IN
    /\ svc = "set_seed" /\ ~g_rx_lock
    /\ g_rx_lock' = rekey
    /\ svc' = IF ~rekey THEN "commit" ELSE IF g_epoch > 0 THEN "drain" ELSE "apply"
    /\ generation' = IF rekey /\ g_epoch > 0 THEN generation + 1 ELSE generation
    /\ polls' = 0 /\ gave_up' = FALSE
    /\ UNCHANGED <<opt_benchmark, aborting, g_runtime_ready, keyed, g_vm_epoch, g_rx_active_hashers,
                   current_work, work_ready, events, failures, job_seed, locals, submitted>>

\* Bug: the drain is skipped.
NoDrain ==
    /\ svc = "drain"
    /\ svc' = "apply" /\ UNCHANGED <<polls, gave_up>>

\* One round of rx_drain_active_hashers.
DrainRound ==
    /\ svc = "drain"
    /\ IF g_rx_active_hashers = 0
       THEN svc' = "apply" /\ UNCHANGED <<polls, gave_up>>
       ELSE IF polls + 1 < DrainPolls
            THEN polls' = polls + 1 /\ UNCHANGED <<svc, gave_up>>
            ELSE svc' = "apply" /\ gave_up' = TRUE /\ UNCHANGED polls

rx_drain_active_hashers ==
    /\ DrainRound
    /\ UNCHANGED <<opt_benchmark, aborting, g_rx_lock, g_runtime_ready, keyed, g_vm_epoch,
                   g_rx_active_hashers, feed, job_seed, locals, submitted>>

\* rx_apply_seed_locked begins: cache and dataset are written in place, under
\* every hash that is in flight.
RebuildStart ==
    /\ svc = "apply"
    /\ svc' = "rebuild"
    /\ g_seed' = job_seed
    /\ memory' = Torn
    /\ sound' = [t \in Threads |-> sound[t] /\ pc[t] # "hash"]
    /\ UNCHANGED <<opt_benchmark, aborting, g_rx_lock, g_runtime_ready, g_epoch, g_vm_epoch,
                   g_rx_active_hashers, feed, job_seed, polls, gave_up, pc, work, submitted>>

\* Bug: the lock is kept.
RebuildKeepsLock ==
    /\ svc = "rebuild"
    /\ svc' = "commit"
    /\ memory' = g_seed
    /\ g_epoch' = g_epoch + 1
    /\ polls' = 0 /\ gave_up' = FALSE
    /\ UNCHANGED <<opt_benchmark, aborting, g_rx_lock, g_runtime_ready, g_seed, g_vm_epoch,
                   g_rx_active_hashers,
                   feed, job_seed, locals, submitted>>

\* Its workers are joined; the epoch moves, the lock is released.
RebuildEnd ==
    /\ svc = "rebuild"
    /\ svc' = "commit"
    /\ memory' = g_seed
    /\ g_epoch' = g_epoch + 1
    /\ g_rx_lock' = FALSE
    /\ polls' = 0 /\ gave_up' = FALSE
    /\ UNCHANGED <<opt_benchmark, aborting, g_runtime_ready, g_seed, g_vm_epoch,
                   g_rx_active_hashers,
                   feed, job_seed, locals, submitted>>

\* Bug: the work carries the generation before the bump.
StampBefore == generation

\* The restart generation stratum_publish_work stores with the work.
WorkStamp == generation + 1

\* stratum_commit_job_update publishes the job, always as a restart, or fails
\* for want of memory and leaves the work of the last job in place.
Commit ==
    /\ svc = "commit"
    /\ \/ /\ generation' = generation + 1
          /\ current_work' = [seed |-> job_seed, gen |-> WorkStamp]
          /\ work_ready' = TRUE
          /\ UNCHANGED failures
       \/ AllocationFails /\ UNCHANGED <<generation, current_work, work_ready>>
    /\ svc' = "recv" /\ job_seed' = None
    /\ UNCHANGED <<opt_benchmark, aborting, g_rx_lock, g_runtime_ready, keyed, g_vm_epoch,
                   g_rx_active_hashers, events, polls, gave_up, locals, submitted>>

\* A disconnect withdraws the work.
stratum_reset_work_state ==
    /\ svc = "recv" /\ events < MaxJobs
    /\ events' = events + 1
    /\ work_ready' = FALSE
    /\ current_work' = NoWork
    /\ generation' = generation + 1
    /\ UNCHANGED <<opt_benchmark, aborting, g_rx_lock, g_runtime_ready, keyed, g_vm_epoch,
                   g_rx_active_hashers, failures, service, locals, submitted>>

ServiceStops ==
    /\ svc = "recv" /\ aborting
    /\ svc' = "done"
    /\ UNCHANGED <<opt_benchmark, aborting, g_rx_lock, g_runtime_ready, keyed, g_vm_epoch,
                   g_rx_active_hashers, feed, job_seed, polls, gave_up, locals, submitted>>

ServiceStep ==
    \/ randomx_set_seed \/ rx_drain_active_hashers \/ RebuildStart \/ RebuildEnd
    \/ Commit \/ ServiceStops

-----------------------------------------------------------------------------
(* A miner thread. *)

Goto(t, l) == pc' = [pc EXCEPT ![t] = l]

\* The loop starts over; the work it scanned is not read again.
Forget(t) ==
    /\ work' = [work EXCEPT ![t] = NoWork]
    /\ sound' = [sound EXCEPT ![t] = FALSE]

\* The head of the thread's loop: leave on abort, else copy the work.
CopyWork(t) ==
    /\ pc[t] = "copy"
    /\ \/ aborting /\ Goto(t, "done") /\ UNCHANGED work
       \/ ~aborting /\ work_ready /\ Goto(t, "vm") /\ work' = [work EXCEPT ![t] = current_work]
    /\ UNCHANGED <<opt_benchmark, aborting, g_rx_lock, g_runtime_ready, keyed, g_vm_epoch,
                   g_rx_active_hashers, feed, service, sound, submitted>>

\* The VM of the thread, in one hold of the lock: the first caller in
\* benchmark mode applies the built-in key; a VM is created (rx_create_vm tries
\* its three modes in turn and may fail) or moved to the memory of the current
\* epoch.  Without a VM nothing is scanned.
rx_thread_vm(t) ==
    LET benchmark == g_epoch = 0 /\ g_seed = None
        epoch     == IF benchmark THEN g_epoch + 1 ELSE g_epoch
    IN  /\ pc[t] = "vm" /\ ~g_rx_lock /\ g_runtime_ready
        /\ g_epoch' = epoch
        /\ g_seed' = IF benchmark THEN BenchmarkKey ELSE g_seed
        /\ memory' = IF benchmark THEN BenchmarkKey ELSE memory
        /\ \/ /\ g_vm_epoch' = [g_vm_epoch EXCEPT ![t] = epoch]
              /\ Goto(t, "enter") /\ UNCHANGED <<failures, work, sound>>
           \/ /\ g_vm_epoch[t] = 0 /\ AllocationFails
              /\ Goto(t, "copy") /\ Forget(t) /\ UNCHANGED g_vm_epoch
        /\ UNCHANGED <<opt_benchmark, aborting, g_rx_lock, g_runtime_ready,
                       g_rx_active_hashers, generation, current_work, work_ready, events,
                       service, submitted>>

\* scanhash_randomx registers as a reader of the shared memory.
Enter(t) ==
    /\ pc[t] = "enter"
    /\ g_rx_active_hashers' = g_rx_active_hashers + 1
    /\ Goto(t, "check")
    /\ UNCHANGED <<opt_benchmark, aborting, g_rx_lock, g_runtime_ready, keyed, g_vm_epoch,
                   feed, service, work, sound, submitted>>

\* What the loop condition reads besides its own count.
GoesOn(t) == work[t].gen = generation /\ ~aborting

\* The loop condition; a hash that starts now reads the memory.
LoopHead(t) ==
    /\ pc[t] = "check"
    /\ IF GoesOn(t)
       THEN Goto(t, "hash") /\ sound' = [sound EXCEPT ![t] = memory = work[t].seed]
       ELSE Goto(t, "leave") /\ UNCHANGED sound
    /\ UNCHANGED <<opt_benchmark, aborting, g_rx_lock, g_runtime_ready, keyed, g_vm_epoch,
                   g_rx_active_hashers, feed, service, work, submitted>>

\* The hash ends.  It is a share, which ends the scan, or it is none and the
\* scan goes on or has computed max_hashes.
HashEnds(t) ==
    /\ pc[t] = "hash"
    /\ \E next \in {"check", "leave", "leave_share"} : Goto(t, next)
    /\ UNCHANGED <<opt_benchmark, aborting, g_rx_lock, g_runtime_ready, keyed, g_vm_epoch,
                   g_rx_active_hashers, feed, service, work, sound, submitted>>

Unregister == g_rx_active_hashers' = g_rx_active_hashers - 1

Leave(t) ==
    /\ pc[t] \in {"leave", "leave_share"}
    /\ Unregister
    /\ IF pc[t] = "leave_share" /\ ~opt_benchmark
       THEN Goto(t, "submit") /\ UNCHANGED <<work, sound>>
       ELSE Goto(t, "copy") /\ Forget(t)
    /\ UNCHANGED <<opt_benchmark, aborting, g_rx_lock, g_runtime_ready, keyed, g_vm_epoch,
                   feed, service, submitted>>

\* Bug: a share is submitted whatever became of its job.
SubmitAlways(t) == TRUE

\* submit_ready_share drops the share of a job that was replaced.
StillCurrent(t) == work[t].gen = generation

submit_ready_share(t) ==
    /\ pc[t] = "submit"
    /\ submitted' = IF StillCurrent(t)
                    THEN submitted \cup {sound[t]}
                    ELSE submitted
    /\ Goto(t, "copy") /\ Forget(t)
    /\ UNCHANGED <<opt_benchmark, aborting, g_rx_lock, g_runtime_ready, keyed, g_vm_epoch,
                   g_rx_active_hashers, feed, service>>

scanhash_randomx(t) ==
    \/ rx_thread_vm(t) \/ Enter(t) \/ LoopHead(t) \/ HashEnds(t) \/ Leave(t)

miner_thread(t) == CopyWork(t) \/ scanhash_randomx(t) \/ submit_ready_share(t)

-----------------------------------------------------------------------------
Init ==
    /\ opt_benchmark \in BOOLEAN /\ aborting = FALSE /\ g_rx_lock = FALSE
    /\ g_runtime_ready = FALSE
    /\ g_seed = None /\ g_epoch = 0 /\ memory = None
    /\ g_vm_epoch = [t \in Threads |-> 0]
    /\ g_rx_active_hashers = 0
    /\ generation = 0 /\ current_work = NoWork
    /\ work_ready = FALSE /\ events = 0 /\ failures = 0
    /\ svc = "off" /\ job_seed = None /\ polls = 0 /\ gave_up = FALSE
    /\ pc = [t \in Threads |-> "off"]
    /\ work = [t \in Threads |-> NoWork]
    /\ sound = [t \in Threads |-> FALSE]
    /\ submitted = {}

Next ==
    \/ randomx_init_runtime \/ randomx_cleanup_runtime \/ miner_request_abort
    \/ xmr_stratum_handle_job \/ stratum_reset_work_state \/ ServiceStep
    \/ \E t \in Threads : miner_thread(t)

Spec == Init /\ [][Next]_vars

\* Both kinds of thread run on; pool and user owe nothing.
FairSpec ==
    /\ Spec
    /\ WF_vars(ServiceStep)
    /\ \A t \in Threads : WF_vars(miner_thread(t))

-----------------------------------------------------------------------------
(* Properties. *)

\* While the dataset is written no thread hashes, unless the bounded drain
\* gave up on one.
RebuildAlone ==
    svc \in {"apply", "rebuild"} /\ ~gave_up => \A t \in Threads : pc[t] # "hash"

\* Every hash in flight reads the key of its own job, unless it outlived the
\* drain of a re-key.
HashesKeyed ==
    \A t \in Threads : pc[t] = "hash" /\ work[t].gen = generation => sound[t]

\* No share computed on another key or on torn memory reaches the pool, not
\* even when the drain gave up.
SharesSound == submitted \subseteq {TRUE}

\* A seed the pool sent is always acted upon: the re-key ends and the service
\* thread is back at the pool, whatever the miner threads do.
RekeyEnds == (svc = "set_seed") ~> (svc \in {"recv", "done"})

\* Published work is picked up: some thread comes to hash it on its key, or
\* the work is replaced, withdrawn, or the program ends.
WorkHashed ==
    \A g \in 1 .. 2 * MaxJobs :
        (work_ready /\ svc = "recv" /\ generation = g /\ current_work.seed = g_seed)
            ~> \/ \E t \in Threads : pc[t] = "hash" /\ work[t].gen = g /\ sound[t]
               \/ generation # g \/ aborting
=============================================================================
