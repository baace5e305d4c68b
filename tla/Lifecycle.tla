----------------------------- MODULE Lifecycle ------------------------------
(***************************************************************************)
(* The life of the program: the main thread brings up the algorithm        *)
(* runtime, the pool contexts, the service thread, the statistics API, the *)
(* worker threads and the hashrate reporter (start_mining), or the part of *)
(* them that benchmark mode needs (run_benchmark), and takes them down     *)
(* again from wherever it got to.  Every step that can fail does.          *)
(*                                                                         *)
(* What the threads do while they run is the subject of the other modules; *)
(* here they hold on to what they read: a worker the algorithm runtime,    *)
(* the pool contexts and thr_info, the service thread the contexts and     *)
(* thr_info, the API thread and the reporter thr_info and the contexts.    *)
(* The API thread and main share a condition variable and four flags       *)
(* (g_api_service_lock); the critical sections are single steps.           *)
(***************************************************************************)
EXTENDS Naturals, FiniteSets, Sequences

CONSTANTS
    opt_n_threads,
    MaxFailures,     \* bound: creations and allocations that fail
    MaxWorkFailures, \* bound: workers whose miner_work_init fails
    MaxDrops         \* bound: sessions lost

ASSUME LifecycleAssumption ==
    /\ opt_n_threads \in Nat \ {0}
    /\ MaxFailures \in Nat /\ MaxWorkFailures \in Nat /\ MaxDrops \in Nat

Workers   == 1 .. opt_n_threads
Service   == opt_n_threads + 1
Api       == opt_n_threads + 2
Reporter  == opt_n_threads + 3
Everyone  == 1 .. opt_n_threads + 3
Resources == {"thr_info", "algorithm", "contexts"}

\* What a running thread reads.
Uses == [x \in Everyone |-> IF x \in Workers THEN Resources
                            ELSE {"thr_info", "contexts"}]

\* Where main is: start-up, the running program, cleanup.
Labels ==
    {"allocate", "init_algorithm", "init_pools", "start_service", "wait_ready",
     "check_ready", "api_start", "api_wait", "api_join", "start_workers",
     "start_reporter", "sleep", "join_workers", "stop_reporter", "join_reporter",
     "stop_pools", "join_service",
     "cleanup", "cleanup_api", "cleanup_reporter", "cleanup_join_reporter",
     "cleanup_workers", "cleanup_pools",
     "cleanup_service", "release_algorithm", "release_contexts", "release_threads", "exit"}

VARIABLES
    opt_benchmark, opt_api, opt_quiet,  \* chosen on the command line
    abort_flag,
    main,
    state,       \* of each thread: "off", "run", "ended", "joined"
    live,        \* the resources that exist
    started_threads, reporter_started, pool_services_stopped,
    reporter_stop,                 \* hashrate_reporter_stop_requested
    service_created,               \* g_service_thread_created
    authenticated, work_ready,     \* the session of the active pool
    api_open, api_complete, api_succeeded, api_shutdown, api_join_pending,
    failures, work_failures, drops,
    bad_join     \* history: a join of a thread that cannot be joined

options  == <<opt_benchmark, opt_api, opt_quiet>>
runtime  == <<started_threads, reporter_started, pool_services_stopped, reporter_stop>>
session  == <<authenticated, work_ready, drops>>
apiFlags == <<api_open, api_complete, api_succeeded, api_shutdown, api_join_pending>>
vars == <<options, abort_flag, main, state, live, runtime, service_created, session,
          apiFlags, failures, work_failures, bad_join>>

TypeOK ==
    /\ {opt_benchmark, opt_api, opt_quiet, abort_flag, reporter_started, reporter_stop,
        pool_services_stopped, service_created, authenticated, work_ready, api_open,
        api_complete, api_succeeded, api_shutdown, api_join_pending, bad_join} \subseteq BOOLEAN
    /\ main \in Labels
    /\ state \in [Everyone -> {"off", "run", "ended", "joined"}]
    /\ live \subseteq Resources
    /\ started_threads \in 0 .. opt_n_threads
    /\ failures \in 0 .. MaxFailures /\ work_failures \in 0 .. MaxWorkFailures
    /\ drops \in 0 .. MaxDrops

Fail == failures < MaxFailures /\ failures' = failures + 1
Goto(l) == main' = l

\* pthread_create of x, then main at label l.
Create(x, l) ==
    /\ state' = [state EXCEPT ![x] = "run"]
    /\ Goto(l) /\ UNCHANGED failures

\* pthread_join of the threads of xs: waits for their ends; joining a thread
\* that was never created, or twice, is undefined.
Join(xs) ==
    /\ \A x \in xs : state[x] # "run"
    /\ state' = [x \in Everyone |-> IF x \in xs THEN "joined" ELSE state[x]]
    /\ bad_join' = (bad_join \/ \E x \in xs : state[x] # "ended")

-----------------------------------------------------------------------------
(* Start-up. *)

\* thr_info; benchmark mode allocates it after the algorithm is up.
allocate_mining_runtime_state ==
    /\ main = "allocate"
    /\ \/ /\ live' = live \cup {"thr_info"}
          /\ Goto(IF opt_benchmark THEN "api_start" ELSE "init_algorithm")
          /\ UNCHANGED failures
       \/ Fail /\ Goto("cleanup") /\ UNCHANGED live
    /\ UNCHANGED <<options, abort_flag, state, runtime, service_created, session, apiFlags,
                   work_failures, bad_join>>

miner_init_algorithm_runtime ==
    /\ main = "init_algorithm"
    /\ \/ /\ live' = live \cup {"algorithm"}
          /\ Goto(IF opt_benchmark THEN "allocate" ELSE "init_pools")
          /\ UNCHANGED failures
       \/ Fail /\ Goto("cleanup") /\ UNCHANGED live
    /\ UNCHANGED <<options, abort_flag, state, runtime, service_created, session, apiFlags,
                   work_failures, bad_join>>

init_pool_runtime ==
    /\ main = "init_pools"
    /\ live' = live \cup {"contexts"}
    /\ Goto("start_service")
    /\ UNCHANGED <<options, abort_flag, state, runtime, service_created, session, apiFlags,
                   failures, work_failures, bad_join>>

stratum_start_service ==
    /\ main = "start_service"
    /\ reporter_stop' = FALSE
    /\ \/ Create(Service, "wait_ready") /\ service_created' = TRUE
       \/ Fail /\ Goto("cleanup") /\ UNCHANGED <<state, service_created>>
    /\ UNCHANGED <<options, abort_flag, live, started_threads, reporter_started,
                   pool_services_stopped, session, apiFlags, work_failures, bad_join>>

\* Bug: start-up waits for a pool whatever the user wants.
WaitIgnoringAbort == work_ready /\ authenticated

WaitOver == abort_flag \/ (work_ready /\ authenticated)

\* The loop of stratum_wait_ready ends when work is there and the active pool
\* authenticated, or on abort.
stratum_wait_ready ==
    /\ main = "wait_ready"
    /\ WaitOver
    /\ Goto("check_ready")
    /\ UNCHANGED <<options, abort_flag, state, live, runtime, service_created, session,
                   apiFlags, failures, work_failures, bad_join>>

\* Its result, which looks at the session a second time.  Without a session
\* the program stops.
ReadyResult ==
    LET ok == ~abort_flag /\ authenticated IN
    /\ main = "check_ready"
    /\ Goto(IF ok THEN "api_start" ELSE "cleanup")
    /\ abort_flag' = (abort_flag \/ ~ok)
    /\ UNCHANGED <<options, state, live, runtime, service_created, session, apiFlags, failures,
                   work_failures, bad_join>>

-----------------------------------------------------------------------------
(* The statistics API: its start by main, the thread, its end. *)

api_start_service ==
    /\ main = "api_start"
    /\ IF ~opt_api
       THEN Goto("start_workers") /\ UNCHANGED <<state, apiFlags, failures>>
       ELSE /\ api_shutdown' = FALSE /\ api_complete' = FALSE /\ api_succeeded' = FALSE
            /\ UNCHANGED api_open
            /\ \/ Create(Api, "api_wait") /\ api_join_pending' = TRUE
               \/ Fail /\ Goto("start_workers") /\ UNCHANGED state /\ api_join_pending' = FALSE
    /\ UNCHANGED <<options, abort_flag, live, runtime, service_created, session, work_failures,
                   bad_join>>

\* pthread_cond_wait until the thread reported; a failed start is joined.
ApiStarted ==
    /\ main = "api_wait" /\ api_complete
    /\ Goto(IF api_succeeded THEN "start_workers" ELSE "api_join")
    /\ UNCHANGED <<options, abort_flag, state, live, runtime, service_created, session,
                   apiFlags, failures, work_failures, bad_join>>

\* Bug: the failed thread is left to be joined once more.
JoinPendingKept == UNCHANGED api_join_pending

JoinPendingCleared == api_join_pending' = FALSE

ApiFailedJoin ==
    /\ main = "api_join"
    /\ Join({Api})
    /\ JoinPendingCleared
    /\ Goto("start_workers")
    /\ UNCHANGED <<options, abort_flag, live, runtime, service_created, session, api_open,
                   api_complete, api_succeeded, api_shutdown, failures, work_failures>>

\* api_thread_main up to the first look at its loop condition: the listening
\* socket is opened and the outcome reported.
ApiOpens ==
    /\ state[Api] = "run" /\ ~api_open /\ ~api_complete
    /\ api_complete' = TRUE
    /\ \/ /\ api_open' = TRUE /\ api_succeeded' = TRUE
          /\ UNCHANGED <<state, failures, api_shutdown>>
       \/ /\ Fail /\ state' = [state EXCEPT ![Api] = "ended"]
          /\ api_succeeded' = FALSE /\ api_shutdown' = FALSE /\ UNCHANGED api_open
    /\ UNCHANGED <<options, abort_flag, main, live, runtime, service_created, session,
                   api_join_pending, work_failures, bad_join>>

\* The loop ends, for an abort, a request or a failed poll; the last critical
\* section takes the report of the start back.
ApiEnds ==
    /\ state[Api] = "run" /\ api_open
    /\ \/ (abort_flag \/ api_shutdown) /\ UNCHANGED failures
       \/ Fail
    /\ state' = [state EXCEPT ![Api] = "ended"]
    /\ api_open' = FALSE /\ api_complete' = FALSE /\ api_succeeded' = FALSE
    /\ api_shutdown' = FALSE
    /\ UNCHANGED <<options, abort_flag, main, live, runtime, service_created, session,
                   api_join_pending, work_failures, bad_join>>

-----------------------------------------------------------------------------
(* The workers and the reporter. *)

\* The thread created now is the last one.
StartedAll == started_threads + 1 >= opt_n_threads

\* start_worker_threads, one pthread_create per step; a failure aborts.
\* Benchmark mode joins the ones it started before it cleans up.
start_worker_threads ==
    /\ main = "start_workers"
    /\ \/ /\ Create(started_threads + 1,
                    IF ~StartedAll THEN "start_workers"
                    ELSE IF opt_benchmark THEN "sleep"
                    ELSE IF opt_quiet THEN "join_workers" ELSE "start_reporter")
          /\ started_threads' = started_threads + 1
          /\ UNCHANGED abort_flag
       \/ /\ Fail /\ abort_flag' = TRUE
          /\ Goto(IF opt_benchmark THEN "join_workers" ELSE "cleanup")
          /\ UNCHANGED <<state, started_threads>>
    /\ UNCHANGED <<options, live, reporter_started, reporter_stop, pool_services_stopped,
                   service_created, session, apiFlags, work_failures, bad_join>>

StartReporter ==
    /\ main = "start_reporter"
    /\ \/ /\ Create(Reporter, "join_workers")
          /\ reporter_started' = TRUE /\ reporter_stop' = FALSE
          /\ UNCHANGED abort_flag
       \/ /\ Fail /\ Goto("cleanup") /\ abort_flag' = TRUE
          /\ reporter_stop' = TRUE /\ UNCHANGED <<state, reporter_started>>
    /\ UNCHANGED <<options, live, started_threads, pool_services_stopped, service_created,
                   session, apiFlags, work_failures, bad_join>>

\* run_benchmark sleeps until the abort.
BenchmarkLoop ==
    /\ main = "sleep" /\ abort_flag
    /\ Goto("join_workers")
    /\ UNCHANGED <<options, abort_flag, state, live, runtime, service_created, session,
                   apiFlags, failures, work_failures, bad_join>>

join_worker_threads(from, after) ==
    /\ main = from
    /\ Join(1 .. started_threads)
    /\ started_threads' = 0
    /\ Goto(after)
    /\ UNCHANGED <<options, abort_flag, live, reporter_started, reporter_stop,
                   pool_services_stopped, service_created, session, apiFlags, failures,
                   work_failures>>

\* At the end of run_mining_workers, and once more in the cleanup.
StopReporter(from, join, after) ==
    /\ main = from
    /\ reporter_stop' = (reporter_stop \/ reporter_started)
    /\ Goto(IF reporter_started THEN join ELSE after)
    /\ UNCHANGED <<options, abort_flag, state, live, started_threads, reporter_started,
                   pool_services_stopped, service_created, session, apiFlags, failures,
                   work_failures, bad_join>>

JoinReporter(from, after) ==
    /\ main = from
    /\ Join({Reporter})
    /\ reporter_started' = FALSE
    /\ Goto(after)
    /\ UNCHANGED <<options, abort_flag, live, started_threads, reporter_stop,
                   pool_services_stopped, service_created, session, apiFlags, failures,
                   work_failures>>

run_mining_workers ==
    \/ start_worker_threads \/ StartReporter
    \/ join_worker_threads("join_workers", IF opt_benchmark THEN "cleanup" ELSE "stop_reporter")
    \/ StopReporter("stop_reporter", "join_reporter", "stop_pools")
    \/ JoinReporter("join_reporter", "stop_pools")

\* A worker ends on abort, or at once when it finds no memory for its work.
WorkerEnds(x) ==
    /\ state[x] = "run"
    /\ \/ abort_flag /\ UNCHANGED work_failures
       \/ work_failures < MaxWorkFailures /\ work_failures' = work_failures + 1
    /\ state' = [state EXCEPT ![x] = "ended"]
    /\ UNCHANGED <<options, abort_flag, main, live, runtime, service_created, session,
                   apiFlags, failures, bad_join>>

miner_hashrate_reporter_thread ==
    /\ state[Reporter] = "run" /\ (abort_flag \/ reporter_stop)
    /\ state' = [state EXCEPT ![Reporter] = "ended"]
    /\ UNCHANGED <<options, abort_flag, main, live, runtime, service_created, session,
                   apiFlags, failures, work_failures, bad_join>>

-----------------------------------------------------------------------------
(* The service thread, as main sees it, and the user. *)

Connect ==
    /\ state[Service] = "run" /\ ~abort_flag
    /\ ~authenticated \/ ~work_ready
    /\ authenticated' = TRUE
    /\ work_ready' = authenticated   \* the first job follows
    /\ UNCHANGED <<options, abort_flag, main, state, live, runtime, service_created, drops,
                   apiFlags, failures, work_failures, bad_join>>

\* stratum_disconnect; the thread tries again, or has no attempts left.
Disconnect ==
    /\ state[Service] = "run" /\ authenticated /\ drops < MaxDrops
    /\ drops' = drops + 1
    /\ authenticated' = FALSE /\ work_ready' = FALSE
    /\ UNCHANGED <<options, abort_flag, main, state, live, runtime, service_created,
                   apiFlags, failures, work_failures, bad_join>>

\* The retry limit of the service thread, or a signal.
miner_request_abort ==
    /\ main # "exit" /\ ~abort_flag
    /\ abort_flag' = TRUE
    /\ UNCHANGED <<options, main, state, live, runtime, service_created, session, apiFlags,
                   failures, work_failures, bad_join>>

ServiceEnds ==
    /\ state[Service] = "run" /\ abort_flag
    /\ state' = [state EXCEPT ![Service] = "ended"]
    /\ authenticated' = FALSE /\ work_ready' = FALSE
    /\ UNCHANGED <<options, abort_flag, main, live, runtime, service_created, drops, apiFlags,
                   failures, work_failures, bad_join>>

-----------------------------------------------------------------------------
(* The end of the program. *)

\* stop_pool_runtime_services, once: every socket is shut down, which ends a
\* receive but not the thread, and the thread is joined if it was created.
StopPools(from, join, after) ==
    /\ main = from
    /\ Goto(IF pool_services_stopped \/ ~service_created THEN after ELSE join)
    /\ pool_services_stopped' = TRUE
    /\ UNCHANGED <<options, abort_flag, state, live, started_threads, reporter_started,
                   reporter_stop, service_created, session, apiFlags, failures,
                   work_failures, bad_join>>

stratum_join_service_thread(from, after) ==
    /\ main = from
    /\ Join({Service})
    /\ service_created' = FALSE
    /\ Goto(after)
    /\ UNCHANGED <<options, abort_flag, live, runtime, session, apiFlags, failures,
                   work_failures>>

\* api_stop_service: ask and join, if a thread is to be joined.
api_stop_service ==
    /\ main = "cleanup"
    /\ api_shutdown' = (api_shutdown \/ api_join_pending)
    /\ Goto(IF api_join_pending THEN "cleanup_api"
            ELSE IF opt_benchmark THEN "release_algorithm" ELSE "cleanup_reporter")
    /\ UNCHANGED <<options, abort_flag, state, live, runtime, service_created, session,
                   api_open, api_complete, api_succeeded, api_join_pending, failures,
                   work_failures, bad_join>>

ApiJoin ==
    /\ main = "cleanup_api"
    /\ Join({Api})
    /\ api_join_pending' = FALSE /\ api_shutdown' = FALSE
    /\ Goto(IF opt_benchmark THEN "release_algorithm" ELSE "cleanup_reporter")
    /\ UNCHANGED <<options, abort_flag, live, runtime, service_created, session, api_open,
                   api_complete, api_succeeded, failures, work_failures>>

Release(from, resource, after) ==
    /\ main = from
    /\ live' = live \ {resource}
    /\ Goto(after)
    /\ UNCHANGED <<options, abort_flag, state, runtime, service_created, session, apiFlags,
                   failures, work_failures, bad_join>>

\* Bug: the contexts go before the service thread is joined.
CleanupWithoutJoin ==
    \/ api_stop_service \/ ApiJoin
    \/ StopReporter("cleanup_reporter", "cleanup_join_reporter", "cleanup_workers")
    \/ JoinReporter("cleanup_join_reporter", "cleanup_workers")
    \/ join_worker_threads("cleanup_workers", "cleanup_pools")
    \/ StopPools("cleanup_pools", "release_algorithm", "release_algorithm")
    \/ Release("release_algorithm", "algorithm",
               IF opt_benchmark THEN "release_threads" ELSE "release_contexts")
    \/ Release("release_contexts", "contexts", "release_threads")
    \/ Release("release_threads", "thr_info", "exit")

cleanup_mining_runtime ==
    \/ api_stop_service \/ ApiJoin
    \/ StopReporter("cleanup_reporter", "cleanup_join_reporter", "cleanup_workers")
    \/ JoinReporter("cleanup_join_reporter", "cleanup_workers")
    \/ join_worker_threads("cleanup_workers", "cleanup_pools")
    \/ StopPools("cleanup_pools", "cleanup_service", "release_algorithm")
    \/ stratum_join_service_thread("cleanup_service", "release_algorithm")
    \/ Release("release_algorithm", "algorithm",
               IF opt_benchmark THEN "release_threads" ELSE "release_contexts")
    \/ Release("release_contexts", "contexts", "release_threads")
    \/ Release("release_threads", "thr_info", "exit")

finish_stratum_runtime ==
    \/ StopPools("stop_pools", "join_service", "cleanup")
    \/ stratum_join_service_thread("join_service", "cleanup")

start_mining ==
    \/ allocate_mining_runtime_state \/ miner_init_algorithm_runtime \/ init_pool_runtime
    \/ stratum_start_service \/ stratum_wait_ready \/ ReadyResult
    \/ api_start_service \/ ApiStarted \/ ApiFailedJoin
    \/ run_mining_workers \/ BenchmarkLoop
    \/ finish_stratum_runtime \/ cleanup_mining_runtime

api_thread_main == ApiOpens \/ ApiEnds

-----------------------------------------------------------------------------
Init ==
    /\ opt_benchmark \in BOOLEAN /\ opt_api \in BOOLEAN
    /\ opt_quiet \in BOOLEAN /\ (opt_benchmark => opt_quiet)
    /\ abort_flag = FALSE
    /\ main = IF opt_benchmark THEN "init_algorithm" ELSE "allocate"
    /\ state = [x \in Everyone |-> "off"]
    /\ live = {}
    /\ started_threads = 0 /\ reporter_started = FALSE /\ pool_services_stopped = FALSE
    /\ reporter_stop = TRUE
    /\ service_created = FALSE
    /\ authenticated = FALSE /\ work_ready = FALSE /\ drops = 0
    /\ api_open = FALSE /\ api_complete = FALSE /\ api_succeeded = FALSE
    /\ api_shutdown = FALSE /\ api_join_pending = FALSE
    /\ failures = 0 /\ work_failures = 0
    /\ bad_join = FALSE

Next ==
    \/ start_mining \/ api_thread_main
    \/ \E x \in Workers : WorkerEnds(x)
    \/ miner_hashrate_reporter_thread
    \/ Connect \/ Disconnect \/ ServiceEnds \/ miner_request_abort

Spec == Init /\ [][Next]_vars

\* Every thread runs on; a worker leaves its loop after an abort, the service
\* thread its waits, which all have a time-out.
FairSpec ==
    /\ Spec
    /\ WF_vars(start_mining) /\ WF_vars(api_thread_main)
    /\ \A x \in Workers : WF_vars(WorkerEnds(x) /\ abort_flag)
    /\ WF_vars(miner_hashrate_reporter_thread) /\ WF_vars(ServiceEnds)

-----------------------------------------------------------------------------
(* Properties. *)

\* No thread runs without what it reads: resources come up before and go after
\* their users, on every path through start-up failures.
NoUseAfterRelease ==
    \A x \in Everyone : state[x] = "run" =>
        Uses[x] \subseteq (live \cup IF opt_benchmark THEN {"contexts"} ELSE {})

\* Every join is of a thread that was created and not joined before.
JoinsOnce == ~bad_join

\* The program ends with every thread joined and everything released.
NothingLeft ==
    main = "exit" => live = {} /\ \A x \in Everyone : state[x] \in {"off", "joined"}

\* After an abort the program ends: every wait of main for another thread is
\* over in the end.  The wait for the API to start is left out; see CtrlCStops.
AbortEnds ==
    abort_flag /\ (~opt_api \/ main \in {"sleep", "join_workers", "cleanup"}) ~> main = "exit"

\* Ctrl+C stops the program, whenever it comes.
CtrlCStops == abort_flag ~> main = "exit"
=============================================================================
