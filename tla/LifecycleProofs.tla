-------------------------- MODULE LifecycleProofs ---------------------------
(***************************************************************************)
(* Start-up and shutdown are in order for any number of worker threads and *)
(* any number of failures: nothing is used after its release, every join   *)
(* is legal, and the program leaves nothing behind.                        *)
(***************************************************************************)
EXTENDS Lifecycle, TLAPS

-----------------------------------------------------------------------------
(* The inductive invariant. *)

Created == {"run", "ended"}   \* the states of a thread that is still to be joined

\* Main's own records tell which threads are still to be joined.
RecordsOK ==
    /\ \A x \in Workers : state[x] \in Created <=> x <= started_threads
    /\ state[Service] \in Created <=> service_created
    /\ state[Api] \in Created <=> api_join_pending
    /\ state[Reporter] \in Created <=> reporter_started

Loading   == {"allocate", "init_algorithm", "init_pools"}
Starting  == {"start_service", "wait_ready", "check_ready", "api_start", "api_wait", "api_join"}
Launching == Starting \cup {"start_workers", "start_reporter"}
Releasing == {"release_algorithm", "release_contexts", "release_threads", "exit"}
PoolPath  == {"init_pools", "start_service", "wait_ready", "check_ready", "start_reporter",
              "stop_reporter", "join_reporter", "stop_pools", "join_service",
              "cleanup_reporter", "cleanup_join_reporter", "cleanup_workers", "cleanup_pools",
              "cleanup_service", "release_contexts"}

\* What main has done, and not yet done, at each place.
PathOK ==
    /\ opt_benchmark => main \notin PoolPath /\ ~service_created /\ ~reporter_started
    /\ main \in Loading => ~service_created
    /\ main \in Loading \cup {"start_service", "wait_ready", "check_ready", "api_start"}
         => ~api_join_pending
    /\ main \in Loading \cup {"start_service"} => ~pool_services_stopped
    /\ main \in Loading \cup Starting => started_threads = 0 /\ ~reporter_started
    /\ main = "start_workers" => started_threads < opt_n_threads
    /\ main \in {"api_wait", "api_join", "cleanup_api"} => api_join_pending
    /\ main \in {"join_reporter", "cleanup_join_reporter"} => reporter_started
    /\ main \in {"join_service", "cleanup_service"} => service_created
    /\ pool_services_stopped /\ service_created => main \in {"join_service", "cleanup_service"}
    /\ opt_benchmark /\ main \in {"cleanup", "cleanup_api"} => started_threads = 0
    /\ main \in {"cleanup_reporter", "cleanup_join_reporter", "cleanup_workers", "cleanup_pools",
                 "cleanup_service"} \cup Releasing => ~api_join_pending
    /\ main \in {"cleanup_workers", "cleanup_pools", "cleanup_service"} \cup Releasing
         => ~reporter_started
    /\ main \in {"cleanup_pools", "cleanup_service"} \cup Releasing => started_threads = 0
    /\ main \in Releasing => ~service_created

\* What exists at each place.
LiveOK ==
    /\ opt_benchmark => "contexts" \notin live
    /\ main = "allocate" /\ opt_benchmark => "algorithm" \in live
    /\ main = "init_algorithm" /\ ~opt_benchmark => "thr_info" \in live
    /\ main \in Launching \cup {"init_pools"} => "thr_info" \in live /\ "algorithm" \in live
    /\ main \in Launching /\ ~opt_benchmark => "contexts" \in live
    /\ main \in {"release_contexts", "release_threads", "exit"} => "algorithm" \notin live
    /\ main \in {"release_threads", "exit"} => "contexts" \notin live
    /\ main = "exit" => "thr_info" \notin live

IInv == TypeOK /\ RecordsOK /\ PathOK /\ LiveOK /\ NoUseAfterRelease /\ JoinsOnce
-----------------------------------------------------------------------------
(* Lemmas. *)

\* The threads are different ones.
LEMMA ThreadFacts ==
    /\ opt_n_threads \in Nat \ {0}
    /\ Workers \subseteq Everyone /\ Everyone = Workers \cup {Service, Api, Reporter}
    /\ Service \notin Workers /\ Api \notin Workers /\ Reporter \notin Workers
    /\ Service # Api /\ Service # Reporter /\ Api # Reporter
    /\ Workers \subseteq Nat /\ \A x \in Workers : x >= 1 /\ x <= opt_n_threads
    /\ \A x \in Nat : x >= 1 /\ x <= opt_n_threads => x \in Workers
  BY LifecycleAssumption DEF Workers, Everyone, Service, Api, Reporter

LEMMA UsesFacts ==
    /\ \A x \in Workers : Uses[x] = {"thr_info", "algorithm", "contexts"}
    /\ Uses[Service] = {"thr_info", "contexts"} /\ Uses[Api] = {"thr_info", "contexts"}
    /\ Uses[Reporter] = {"thr_info", "contexts"}
  BY ThreadFacts DEF Uses, Resources

\* The type invariant by kinds of values.
FlagsOK ==
    /\ opt_benchmark \in BOOLEAN /\ opt_api \in BOOLEAN /\ opt_quiet \in BOOLEAN
    /\ abort_flag \in BOOLEAN /\ reporter_started \in BOOLEAN /\ reporter_stop \in BOOLEAN
    /\ pool_services_stopped \in BOOLEAN /\ service_created \in BOOLEAN
    /\ authenticated \in BOOLEAN /\ work_ready \in BOOLEAN /\ api_open \in BOOLEAN
    /\ api_complete \in BOOLEAN /\ api_succeeded \in BOOLEAN /\ api_shutdown \in BOOLEAN
    /\ api_join_pending \in BOOLEAN /\ bad_join \in BOOLEAN

PlaceOK ==
    /\ main \in Labels /\ live \subseteq Resources
    /\ started_threads \in 0 .. opt_n_threads
    /\ failures \in 0 .. MaxFailures /\ work_failures \in 0 .. MaxWorkFailures
    /\ drops \in 0 .. MaxDrops

StateOK == state \in [Everyone -> {"off", "run", "ended", "joined"}]

LEMMA TypeSplit == TypeOK <=> FlagsOK /\ PlaceOK /\ StateOK
  BY DEF TypeOK, FlagsOK, PlaceOK, StateOK

LEMMA TypeSplitNext == TypeOK' <=> FlagsOK' /\ PlaceOK' /\ StateOK'
  BY DEF TypeOK, FlagsOK, PlaceOK, StateOK

\* A join leaves every thread in a state a thread can be in.
LEMMA JoinType ==
    ASSUME StateOK, NEW xs \in SUBSET Everyone, Join(xs)
    PROVE  StateOK'
  BY DEF StateOK, Join

\* What a creation and a join do to the set of threads to be joined.
LEMMA CreatedMore ==
    ASSUME TypeOK, NEW x \in Everyone, NEW l, Create(x, l)
    PROVE  \A y \in Everyone : state'[y] \in Created <=> y = x \/ state[y] \in Created
  BY DEF TypeOK, Create, Created

LEMMA CreatedLess ==
    ASSUME TypeOK, NEW xs \in SUBSET Everyone, Join(xs)
    PROVE  \A y \in Everyone : state'[y] \in Created <=> state[y] \in Created /\ y \notin xs
  BY DEF TypeOK, Join, Created

LEMMA InitInv == Init => IInv
  <1> SUFFICES ASSUME Init PROVE IInv
    OBVIOUS
  <1> USE LifecycleAssumption, ThreadFacts DEF Init
  <1>1. FlagsOK
    BY DEF FlagsOK
  <1>2. PlaceOK /\ StateOK
    BY DEF PlaceOK, StateOK, Labels
  <1>3. RecordsOK
    BY DEF RecordsOK, Created
  <1>4. PathOK /\ LiveOK
    BY DEF PathOK, LiveOK, Loading, Starting, Launching, Releasing, PoolPath
  <1>5. NoUseAfterRelease /\ JoinsOnce
    BY DEF NoUseAfterRelease, JoinsOnce
  <1> QED
    BY <1>1, <1>2, <1>3, <1>4, <1>5, TypeSplit DEF IInv

-----------------------------------------------------------------------------
(* One lemma per action. *)

\* thr_info is allocated, or start-up ends.
LEMMA AllocateStep ==
    ASSUME IInv, allocate_mining_runtime_state
    PROVE  IInv'
  <1> USE LifecycleAssumption, ThreadFacts DEF allocate_mining_runtime_state, Goto, Fail, runtime, session, apiFlags, options
  <1>1. FlagsOK'
    BY DEF IInv, TypeOK, FlagsOK
  <1>2. PlaceOK'
    <2>1. main' \in Labels
      BY DEF Labels
    <2>2. live' \subseteq Resources
      BY DEF IInv, TypeOK, Resources
    <2>3. failures' \in 0 .. MaxFailures
      BY DEF IInv, TypeOK
    <2> QED
      BY <2>1, <2>2, <2>3 DEF IInv, TypeOK, PlaceOK
  <1>3. StateOK'
    BY DEF IInv, TypeOK, StateOK
  <1>4. RecordsOK'
    BY DEF IInv, TypeOK, RecordsOK, Created
  <1>5. PathOK'
    BY DEF IInv, TypeOK, PathOK, Loading, Starting, Launching, Releasing, PoolPath
  <1>6. LiveOK'
    BY DEF IInv, TypeOK, LiveOK, PathOK, Loading, Starting, Launching, Releasing, PoolPath
  <1>7. NoUseAfterRelease'
    BY UsesFacts DEF IInv, TypeOK, NoUseAfterRelease, LiveOK, RecordsOK, Created, PathOK, Loading, Starting, Launching, Releasing, PoolPath
  <1>8. JoinsOnce'
    BY DEF IInv, TypeOK, JoinsOnce, RecordsOK, Created, PathOK, Loading, Starting, Launching, Releasing, PoolPath
  <1> QED
    BY <1>1, <1>2, <1>3, <1>4, <1>5, <1>6, <1>7, <1>8, TypeSplitNext DEF IInv

\* The algorithm runtime comes up, or start-up ends.
LEMMA AlgorithmStep ==
    ASSUME IInv, miner_init_algorithm_runtime
    PROVE  IInv'
  <1> USE LifecycleAssumption, ThreadFacts DEF miner_init_algorithm_runtime, Goto, Fail, runtime, session, apiFlags, options
  <1>1. FlagsOK'
    BY DEF IInv, TypeOK, FlagsOK
  <1>2. PlaceOK'
    <2>1. main' \in Labels
      BY DEF Labels
    <2>2. live' \subseteq Resources
      BY DEF IInv, TypeOK, Resources
    <2>3. failures' \in 0 .. MaxFailures
      BY DEF IInv, TypeOK
    <2> QED
      BY <2>1, <2>2, <2>3 DEF IInv, TypeOK, PlaceOK
  <1>3. StateOK'
    BY DEF IInv, TypeOK, StateOK
  <1>4. RecordsOK'
    BY DEF IInv, TypeOK, RecordsOK, Created
  <1>5. PathOK'
    BY DEF IInv, TypeOK, PathOK, Loading, Starting, Launching, Releasing, PoolPath
  <1>6. LiveOK'
    BY DEF IInv, TypeOK, LiveOK, PathOK, Loading, Starting, Launching, Releasing, PoolPath
  <1>7. NoUseAfterRelease'
    BY UsesFacts DEF IInv, TypeOK, NoUseAfterRelease, LiveOK, RecordsOK, Created, PathOK, Loading, Starting, Launching, Releasing, PoolPath
  <1>8. JoinsOnce'
    BY DEF IInv, TypeOK, JoinsOnce, RecordsOK, Created, PathOK, Loading, Starting, Launching, Releasing, PoolPath
  <1> QED
    BY <1>1, <1>2, <1>3, <1>4, <1>5, <1>6, <1>7, <1>8, TypeSplitNext DEF IInv

\* The pool contexts are set up.
LEMMA PoolsStep ==
    ASSUME IInv, init_pool_runtime
    PROVE  IInv'
  <1> USE LifecycleAssumption, ThreadFacts DEF init_pool_runtime, Goto, runtime, session, apiFlags, options
  <1>1. FlagsOK'
    BY DEF IInv, TypeOK, FlagsOK
  <1>2. PlaceOK'
    BY DEF IInv, TypeOK, PlaceOK, Labels, Resources
  <1>3. StateOK'
    BY DEF IInv, TypeOK, StateOK
  <1>4. RecordsOK'
    BY DEF IInv, TypeOK, RecordsOK, Created
  <1>5. PathOK'
    BY DEF IInv, TypeOK, PathOK, Loading, Starting, Launching, Releasing, PoolPath
  <1>6. LiveOK'
    BY DEF IInv, TypeOK, LiveOK, PathOK, Loading, Starting, Launching, Releasing, PoolPath
  <1>7. NoUseAfterRelease'
    BY UsesFacts DEF IInv, TypeOK, NoUseAfterRelease, LiveOK, RecordsOK, Created, PathOK, Loading, Starting, Launching, Releasing, PoolPath
  <1>8. JoinsOnce'
    BY DEF IInv, TypeOK, JoinsOnce, RecordsOK, Created, PathOK, Loading, Starting, Launching, Releasing, PoolPath
  <1> QED
    BY <1>1, <1>2, <1>3, <1>4, <1>5, <1>6, <1>7, <1>8, TypeSplitNext DEF IInv

\* The service thread is created with everything it reads in place.
LEMMA StartServiceStep ==
    ASSUME IInv, stratum_start_service
    PROVE  IInv'
  <1> USE LifecycleAssumption, ThreadFacts DEF stratum_start_service, Create, Goto, Fail, session, apiFlags, options
  <1>1. FlagsOK'
    BY DEF IInv, TypeOK, FlagsOK
  <1>2. PlaceOK'
    BY DEF IInv, TypeOK, PlaceOK, Labels, Resources, PathOK, Loading, Starting, Launching, Releasing, PoolPath
  <1>3. StateOK'
    BY DEF IInv, TypeOK, StateOK, PathOK, Loading, Starting, Launching, Releasing, PoolPath
  <1>4. RecordsOK'
    <2>1. CASE Create(Service, "wait_ready") /\ service_created' = TRUE
      <3> HIDE DEF Create
      <3>1. \A y \in Everyone : state'[y] \in Created <=> y = Service \/ state[y] \in Created
        BY <2>1, CreatedMore DEF IInv
      <3> QED
        BY <2>1, <3>1 DEF IInv, TypeOK, RecordsOK
    <2>2. CASE UNCHANGED <<state, service_created>>
      BY <2>2 DEF IInv, TypeOK, RecordsOK
    <2> QED
      BY <2>1, <2>2
  <1>5. PathOK'
    BY DEF IInv, TypeOK, PathOK, Loading, Starting, Launching, Releasing, PoolPath
  <1>6. LiveOK'
    BY DEF IInv, TypeOK, LiveOK, PathOK, Loading, Starting, Launching, Releasing, PoolPath
  <1>7. NoUseAfterRelease'
    BY UsesFacts DEF IInv, TypeOK, NoUseAfterRelease, LiveOK, RecordsOK, Created, PathOK, Loading, Starting, Launching, Releasing, PoolPath
  <1>8. JoinsOnce'
    BY DEF IInv, TypeOK, JoinsOnce, RecordsOK, Created, PathOK, Loading, Starting, Launching, Releasing, PoolPath
  <1> QED
    BY <1>1, <1>2, <1>3, <1>4, <1>5, <1>6, <1>7, <1>8, TypeSplitNext DEF IInv

\* Main stops waiting for a session.
LEMMA WaitReadyStep ==
    ASSUME IInv, stratum_wait_ready
    PROVE  IInv'
  <1> USE LifecycleAssumption, ThreadFacts DEF stratum_wait_ready, Goto, runtime, session, apiFlags, options
  <1>1. FlagsOK'
    BY DEF IInv, TypeOK, FlagsOK
  <1>2. PlaceOK'
    BY DEF IInv, TypeOK, PlaceOK, Labels, Resources
  <1>3. StateOK'
    BY DEF IInv, TypeOK, StateOK
  <1>4. RecordsOK'
    BY DEF IInv, TypeOK, RecordsOK, Created
  <1>5. PathOK'
    BY DEF IInv, TypeOK, PathOK, Loading, Starting, Launching, Releasing, PoolPath
  <1>6. LiveOK'
    BY DEF IInv, TypeOK, LiveOK, PathOK, Loading, Starting, Launching, Releasing, PoolPath
  <1>7. NoUseAfterRelease'
    BY UsesFacts DEF IInv, TypeOK, NoUseAfterRelease, LiveOK, RecordsOK, Created, PathOK, Loading, Starting, Launching, Releasing, PoolPath
  <1>8. JoinsOnce'
    BY DEF IInv, TypeOK, JoinsOnce, RecordsOK, Created, PathOK, Loading, Starting, Launching, Releasing, PoolPath
  <1> QED
    BY <1>1, <1>2, <1>3, <1>4, <1>5, <1>6, <1>7, <1>8, TypeSplitNext DEF IInv

\* Main looks at the session once more.
LEMMA ReadyResultStep ==
    ASSUME IInv, ReadyResult
    PROVE  IInv'
  <1> USE LifecycleAssumption, ThreadFacts DEF ReadyResult, Goto, runtime, session, apiFlags, options
  <1>1. FlagsOK'
    BY DEF IInv, TypeOK, FlagsOK
  <1>2. PlaceOK'
    BY DEF IInv, TypeOK, PlaceOK, Labels, Resources
  <1>3. StateOK'
    BY DEF IInv, TypeOK, StateOK
  <1>4. RecordsOK'
    BY DEF IInv, TypeOK, RecordsOK, Created
  <1>5. PathOK'
    BY DEF IInv, TypeOK, PathOK, Loading, Starting, Launching, Releasing, PoolPath
  <1>6. LiveOK'
    BY DEF IInv, TypeOK, LiveOK, PathOK, Loading, Starting, Launching, Releasing, PoolPath
  <1>7. NoUseAfterRelease'
    BY UsesFacts DEF IInv, TypeOK, NoUseAfterRelease, LiveOK, RecordsOK, Created, PathOK, Loading, Starting, Launching, Releasing, PoolPath
  <1>8. JoinsOnce'
    BY DEF IInv, TypeOK, JoinsOnce, RecordsOK, Created, PathOK, Loading, Starting, Launching, Releasing, PoolPath
  <1> QED
    BY <1>1, <1>2, <1>3, <1>4, <1>5, <1>6, <1>7, <1>8, TypeSplitNext DEF IInv

\* The API thread is created, or not.
LEMMA ApiStartStep ==
    ASSUME IInv, api_start_service
    PROVE  IInv'
  <1> USE LifecycleAssumption, ThreadFacts DEF api_start_service, Create, Goto, Fail, runtime, session, apiFlags, options
  <1>1. FlagsOK'
    BY DEF IInv, TypeOK, FlagsOK
  <1>2. PlaceOK'
    BY DEF IInv, TypeOK, PlaceOK, Labels, Resources, PathOK, Loading, Starting, Launching, Releasing, PoolPath
  <1>3. StateOK'
    BY DEF IInv, TypeOK, StateOK, PathOK, Loading, Starting, Launching, Releasing, PoolPath
  <1>4. RecordsOK'
    <2>1. CASE Create(Api, "api_wait") /\ api_join_pending' = TRUE
      <3> HIDE DEF Create
      <3>1. \A y \in Everyone : state'[y] \in Created <=> y = Api \/ state[y] \in Created
        BY <2>1, CreatedMore DEF IInv
      <3> QED
        BY <2>1, <3>1 DEF IInv, TypeOK, RecordsOK
    <2>2. CASE ~opt_api
      BY <2>2 DEF IInv, TypeOK, RecordsOK
    <2>3. CASE UNCHANGED state /\ api_join_pending' = FALSE
      <3>1. ~api_join_pending
        BY <2>3 DEF IInv, PathOK
      <3> QED
        BY <2>3, <3>1 DEF IInv, TypeOK, RecordsOK
    <2> QED
      BY <2>1, <2>2, <2>3
  <1>5. PathOK'
    BY DEF IInv, TypeOK, PathOK, Loading, Starting, Launching, Releasing, PoolPath
  <1>6. LiveOK'
    BY DEF IInv, TypeOK, LiveOK, PathOK, Loading, Starting, Launching, Releasing, PoolPath
  <1>7. NoUseAfterRelease'
    BY UsesFacts DEF IInv, TypeOK, NoUseAfterRelease, LiveOK, RecordsOK, Created, PathOK, Loading, Starting, Launching, Releasing, PoolPath
  <1>8. JoinsOnce'
    BY DEF IInv, TypeOK, JoinsOnce, RecordsOK, Created, PathOK, Loading, Starting, Launching, Releasing, PoolPath
  <1> QED
    BY <1>1, <1>2, <1>3, <1>4, <1>5, <1>6, <1>7, <1>8, TypeSplitNext DEF IInv

\* The API thread has reported.
LEMMA ApiStartedStep ==
    ASSUME IInv, ApiStarted
    PROVE  IInv'
  <1> USE LifecycleAssumption, ThreadFacts DEF ApiStarted, Goto, runtime, session, apiFlags, options
  <1>1. FlagsOK'
    BY DEF IInv, TypeOK, FlagsOK
  <1>2. PlaceOK'
    BY DEF IInv, TypeOK, PlaceOK, Labels, Resources
  <1>3. StateOK'
    BY DEF IInv, TypeOK, StateOK
  <1>4. RecordsOK'
    BY DEF IInv, TypeOK, RecordsOK, Created
  <1>5. PathOK'
    BY DEF IInv, TypeOK, PathOK, Loading, Starting, Launching, Releasing, PoolPath
  <1>6. LiveOK'
    BY DEF IInv, TypeOK, LiveOK, PathOK, Loading, Starting, Launching, Releasing, PoolPath
  <1>7. NoUseAfterRelease'
    BY UsesFacts DEF IInv, TypeOK, NoUseAfterRelease, LiveOK, RecordsOK, Created, PathOK, Loading, Starting, Launching, Releasing, PoolPath
  <1>8. JoinsOnce'
    BY DEF IInv, TypeOK, JoinsOnce, RecordsOK, Created, PathOK, Loading, Starting, Launching, Releasing, PoolPath
  <1> QED
    BY <1>1, <1>2, <1>3, <1>4, <1>5, <1>6, <1>7, <1>8, TypeSplitNext DEF IInv

\* An API thread that failed to start is joined.
LEMMA ApiFailedJoinStep ==
    ASSUME IInv, ApiFailedJoin
    PROVE  IInv'
  <1> USE LifecycleAssumption, ThreadFacts DEF ApiFailedJoin, JoinPendingCleared, Join, Goto, runtime, session, options
  <1>1. FlagsOK'
    BY DEF IInv, TypeOK, FlagsOK
  <1>2. PlaceOK'
    BY DEF IInv, TypeOK, PlaceOK, Labels, Resources, PathOK, Loading, Starting, Launching, Releasing, PoolPath
  <1>3. StateOK'
    BY DEF IInv, TypeOK, StateOK
  <1>4. RecordsOK'
    BY DEF IInv, TypeOK, RecordsOK, Created, PathOK, Loading, Starting, Launching, Releasing, PoolPath
  <1>5. PathOK'
    BY DEF IInv, TypeOK, PathOK, Loading, Starting, Launching, Releasing, PoolPath
  <1>6. LiveOK'
    BY DEF IInv, TypeOK, LiveOK, PathOK, Loading, Starting, Launching, Releasing, PoolPath
  <1>7. NoUseAfterRelease'
    BY UsesFacts DEF IInv, TypeOK, NoUseAfterRelease, LiveOK, RecordsOK, Created, PathOK, Loading, Starting, Launching, Releasing, PoolPath
  <1>8. JoinsOnce'
    BY DEF IInv, TypeOK, JoinsOnce, RecordsOK, Created, PathOK, Loading, Starting, Launching, Releasing, PoolPath
  <1> QED
    BY <1>1, <1>2, <1>3, <1>4, <1>5, <1>6, <1>7, <1>8, TypeSplitNext DEF IInv

\* The API thread reports its start.
LEMMA ApiOpensStep ==
    ASSUME IInv, ApiOpens
    PROVE  IInv'
  <1> USE LifecycleAssumption, ThreadFacts DEF ApiOpens, Fail, runtime, session, options
  <1>1. FlagsOK'
    BY DEF IInv, TypeOK, FlagsOK
  <1>2. PlaceOK'
    BY DEF IInv, TypeOK, PlaceOK, Labels, Resources
  <1>3. StateOK'
    BY DEF IInv, TypeOK, StateOK
  <1>4. RecordsOK'
    BY DEF IInv, TypeOK, RecordsOK, Created
  <1>5. PathOK'
    BY DEF IInv, TypeOK, PathOK, Loading, Starting, Launching, Releasing, PoolPath
  <1>6. LiveOK'
    BY DEF IInv, TypeOK, LiveOK, PathOK, Loading, Starting, Launching, Releasing, PoolPath
  <1>7. NoUseAfterRelease'
    BY UsesFacts DEF IInv, TypeOK, NoUseAfterRelease, LiveOK, RecordsOK, Created, PathOK, Loading, Starting, Launching, Releasing, PoolPath
  <1>8. JoinsOnce'
    BY DEF IInv, TypeOK, JoinsOnce, RecordsOK, Created, PathOK, Loading, Starting, Launching, Releasing, PoolPath
  <1> QED
    BY <1>1, <1>2, <1>3, <1>4, <1>5, <1>6, <1>7, <1>8, TypeSplitNext DEF IInv

\* The API thread ends.
LEMMA ApiEndsStep ==
    ASSUME IInv, ApiEnds
    PROVE  IInv'
  <1> USE LifecycleAssumption, ThreadFacts DEF ApiEnds, Fail, runtime, session, options
  <1>1. FlagsOK'
    BY DEF IInv, TypeOK, FlagsOK
  <1>2. PlaceOK'
    BY DEF IInv, TypeOK, PlaceOK, Labels, Resources
  <1>3. StateOK'
    BY DEF IInv, TypeOK, StateOK
  <1>4. RecordsOK'
    BY DEF IInv, TypeOK, RecordsOK, Created
  <1>5. PathOK'
    BY DEF IInv, TypeOK, PathOK, Loading, Starting, Launching, Releasing, PoolPath
  <1>6. LiveOK'
    BY DEF IInv, TypeOK, LiveOK, PathOK, Loading, Starting, Launching, Releasing, PoolPath
  <1>7. NoUseAfterRelease'
    BY UsesFacts DEF IInv, TypeOK, NoUseAfterRelease, LiveOK, RecordsOK, Created, PathOK, Loading, Starting, Launching, Releasing, PoolPath
  <1>8. JoinsOnce'
    BY DEF IInv, TypeOK, JoinsOnce, RecordsOK, Created, PathOK, Loading, Starting, Launching, Releasing, PoolPath
  <1> QED
    BY <1>1, <1>2, <1>3, <1>4, <1>5, <1>6, <1>7, <1>8, TypeSplitNext DEF IInv

\* A worker is created with everything it reads in place.
LEMMA StartWorkersStep ==
    ASSUME IInv, start_worker_threads
    PROVE  IInv'
  <1> USE LifecycleAssumption, ThreadFacts DEF start_worker_threads, StartedAll, Create, Goto, Fail, session, apiFlags, options
  <1>1. FlagsOK'
    BY DEF IInv, TypeOK, FlagsOK
  <1>2. PlaceOK'
    BY DEF IInv, TypeOK, PlaceOK, Labels, Resources, PathOK, Loading, Starting, Launching, Releasing, PoolPath
  <1>3. StateOK'
    BY DEF IInv, TypeOK, StateOK, PathOK, Loading, Starting, Launching, Releasing, PoolPath
  <1>4. RecordsOK'
    <2>1. CASE started_threads' = started_threads + 1
      <3>1. main = "start_workers" /\ started_threads + 1 \in Workers
        BY DEF IInv, TypeOK, PathOK
      <3>2. PICK l : Create(started_threads + 1, l)
        BY <2>1 DEF IInv, TypeOK
      <3> HIDE DEF Create
      <3>3. \A y \in Everyone : state'[y] \in Created
                                 <=> y = started_threads + 1 \/ state[y] \in Created
        BY <3>1, <3>2, CreatedMore DEF IInv
      <3>4. UNCHANGED <<reporter_started, api_join_pending, service_created>>
        OBVIOUS
      <3>5. RecordsOK /\ started_threads \in Nat
        BY DEF IInv, TypeOK
      <3>6. ASSUME NEW x \in Workers PROVE state'[x] \in Created <=> x <= started_threads'
        <4>1. x \in Nat /\ x \in Everyone /\ (state[x] \in Created <=> x <= started_threads)
          BY <3>5 DEF RecordsOK
        <4> QED
          BY <2>1, <3>3, <3>5, <4>1
      <3>7. \A y \in {Service, Api, Reporter} : state'[y] \in Created <=> state[y] \in Created
        BY <3>1, <3>3
      <3> QED
        BY <3>4, <3>5, <3>6, <3>7 DEF RecordsOK
    <2>2. CASE UNCHANGED <<state, started_threads>>
      BY <2>2 DEF IInv, TypeOK, RecordsOK
    <2> QED
      BY <2>1, <2>2
  <1>5. PathOK'
    BY DEF IInv, TypeOK, PathOK, Loading, Starting, Launching, Releasing, PoolPath
  <1>6. LiveOK'
    BY DEF IInv, TypeOK, LiveOK, PathOK, Loading, Starting, Launching, Releasing, PoolPath
  <1>7. NoUseAfterRelease'
    BY UsesFacts DEF IInv, TypeOK, NoUseAfterRelease, LiveOK, RecordsOK, Created, PathOK, Loading, Starting, Launching, Releasing, PoolPath
  <1>8. JoinsOnce'
    BY DEF IInv, TypeOK, JoinsOnce, RecordsOK, Created, PathOK, Loading, Starting, Launching, Releasing, PoolPath
  <1> QED
    BY <1>1, <1>2, <1>3, <1>4, <1>5, <1>6, <1>7, <1>8, TypeSplitNext DEF IInv

\* The reporter is created with everything it reads in place.
LEMMA StartReporterStep ==
    ASSUME IInv, StartReporter
    PROVE  IInv'
  <1> USE LifecycleAssumption, ThreadFacts DEF StartReporter, Create, Goto, Fail, session, apiFlags, options
  <1>1. FlagsOK'
    BY DEF IInv, TypeOK, FlagsOK
  <1>2. PlaceOK'
    BY DEF IInv, TypeOK, PlaceOK, Labels, Resources, PathOK, Loading, Starting, Launching, Releasing, PoolPath
  <1>3. StateOK'
    BY DEF IInv, TypeOK, StateOK, PathOK, Loading, Starting, Launching, Releasing, PoolPath
  <1>4. RecordsOK'
    <2>1. CASE Create(Reporter, "join_workers") /\ reporter_started' = TRUE
      <3> HIDE DEF Create
      <3>1. \A y \in Everyone : state'[y] \in Created <=> y = Reporter \/ state[y] \in Created
        BY <2>1, CreatedMore DEF IInv
      <3> QED
        BY <2>1, <3>1 DEF IInv, TypeOK, RecordsOK
    <2>2. CASE UNCHANGED <<state, reporter_started>>
      BY <2>2 DEF IInv, TypeOK, RecordsOK
    <2> QED
      BY <2>1, <2>2
  <1>5. PathOK'
    BY DEF IInv, TypeOK, PathOK, Loading, Starting, Launching, Releasing, PoolPath
  <1>6. LiveOK'
    BY DEF IInv, TypeOK, LiveOK, PathOK, Loading, Starting, Launching, Releasing, PoolPath
  <1>7. NoUseAfterRelease'
    BY UsesFacts DEF IInv, TypeOK, NoUseAfterRelease, LiveOK, RecordsOK, Created, PathOK, Loading, Starting, Launching, Releasing, PoolPath
  <1>8. JoinsOnce'
    BY DEF IInv, TypeOK, JoinsOnce, RecordsOK, Created, PathOK, Loading, Starting, Launching, Releasing, PoolPath
  <1> QED
    BY <1>1, <1>2, <1>3, <1>4, <1>5, <1>6, <1>7, <1>8, TypeSplitNext DEF IInv

\* The benchmark is over.
LEMMA BenchmarkStep ==
    ASSUME IInv, BenchmarkLoop
    PROVE  IInv'
  <1> USE LifecycleAssumption, ThreadFacts DEF BenchmarkLoop, Goto, runtime, session, apiFlags, options
  <1>1. FlagsOK'
    BY DEF IInv, TypeOK, FlagsOK
  <1>2. PlaceOK'
    BY DEF IInv, TypeOK, PlaceOK, Labels, Resources
  <1>3. StateOK'
    BY DEF IInv, TypeOK, StateOK
  <1>4. RecordsOK'
    BY DEF IInv, TypeOK, RecordsOK, Created
  <1>5. PathOK'
    BY DEF IInv, TypeOK, PathOK, Loading, Starting, Launching, Releasing, PoolPath
  <1>6. LiveOK'
    BY DEF IInv, TypeOK, LiveOK, PathOK, Loading, Starting, Launching, Releasing, PoolPath
  <1>7. NoUseAfterRelease'
    BY UsesFacts DEF IInv, TypeOK, NoUseAfterRelease, LiveOK, RecordsOK, Created, PathOK, Loading, Starting, Launching, Releasing, PoolPath
  <1>8. JoinsOnce'
    BY DEF IInv, TypeOK, JoinsOnce, RecordsOK, Created, PathOK, Loading, Starting, Launching, Releasing, PoolPath
  <1> QED
    BY <1>1, <1>2, <1>3, <1>4, <1>5, <1>6, <1>7, <1>8, TypeSplitNext DEF IInv

\* The workers are joined.
LEMMA JoinWorkersStep ==
    ASSUME IInv, \/ join_worker_threads("join_workers", IF opt_benchmark THEN "cleanup" ELSE "stop_reporter")
                 \/ join_worker_threads("cleanup_workers", "cleanup_pools")
    PROVE  IInv'
  <1> USE LifecycleAssumption, ThreadFacts DEF join_worker_threads, Join, Goto, session, apiFlags, options
  <1>1. FlagsOK'
    BY DEF IInv, TypeOK, FlagsOK
  <1>2. PlaceOK'
    <2>1. main' \in Labels
      BY DEF Labels
    <2> QED
      BY <2>1 DEF IInv, TypeOK, PlaceOK
  <1>3. StateOK'
    <2>1. Join(1 .. started_threads)
      OBVIOUS
    <2> QED
      BY <2>1 DEF IInv, TypeOK, StateOK
  <1>4. RecordsOK'
    <2>1. Join((1 .. started_threads)) /\ (1 .. started_threads) \in SUBSET Everyone
      BY DEF IInv, TypeOK
    <2> HIDE DEF Join
    <2>2. \A y \in Everyone : state'[y] \in Created
                               <=> state[y] \in Created /\ y \notin (1 .. started_threads)
      BY <2>1, CreatedLess DEF IInv
    <2>3. started_threads' = 0 /\ UNCHANGED <<reporter_started, api_join_pending, service_created>>
      OBVIOUS
    <2>4. RecordsOK /\ started_threads \in Nat
      BY DEF IInv, TypeOK
    <2>5. ASSUME NEW x \in Workers PROVE state'[x] \in Created <=> x <= started_threads'
      <3>1. x \in Nat /\ x >= 1 /\ x \in Everyone /\ (state[x] \in Created <=> x <= started_threads)
        BY <2>4 DEF RecordsOK
      <3> QED
        BY <2>2, <2>3, <2>4, <3>1
    <2>6. \A y \in {Service, Api, Reporter} : state'[y] \in Created <=> state[y] \in Created
      <3>1. (1 .. started_threads) \subseteq Workers
        BY DEF IInv, TypeOK, Workers
      <3> QED
        BY <2>2, <3>1
    <2> QED
      BY <2>3, <2>4, <2>5, <2>6 DEF RecordsOK
  <1>5. PathOK'
    BY DEF IInv, TypeOK, PathOK, Loading, Starting, Launching, Releasing, PoolPath
  <1>6. LiveOK'
    BY DEF IInv, TypeOK, LiveOK, PathOK, Loading, Starting, Launching, Releasing, PoolPath
  <1>7. NoUseAfterRelease'
    BY UsesFacts DEF IInv, TypeOK, NoUseAfterRelease, LiveOK, RecordsOK, Created, PathOK, Loading, Starting, Launching, Releasing, PoolPath
  <1>8. JoinsOnce'
    BY DEF IInv, TypeOK, JoinsOnce, RecordsOK, Created, PathOK, Loading, Starting, Launching, Releasing, PoolPath
  <1> QED
    BY <1>1, <1>2, <1>3, <1>4, <1>5, <1>6, <1>7, <1>8, TypeSplitNext DEF IInv

\* The reporter is asked to stop.
LEMMA StopReporterStep ==
    ASSUME IInv, \/ StopReporter("stop_reporter", "join_reporter", "stop_pools")
                 \/ StopReporter("cleanup_reporter", "cleanup_join_reporter", "cleanup_workers")
    PROVE  IInv'
  <1> USE LifecycleAssumption, ThreadFacts DEF StopReporter, Goto, session, apiFlags, options
  <1>1. FlagsOK'
    BY DEF IInv, TypeOK, FlagsOK
  <1>2. PlaceOK'
    BY DEF IInv, TypeOK, PlaceOK, Labels, Resources
  <1>3. StateOK'
    BY DEF IInv, TypeOK, StateOK
  <1>4. RecordsOK'
    BY DEF IInv, TypeOK, RecordsOK, Created
  <1>5. PathOK'
    BY DEF IInv, TypeOK, PathOK, Loading, Starting, Launching, Releasing, PoolPath
  <1>6. LiveOK'
    BY DEF IInv, TypeOK, LiveOK, PathOK, Loading, Starting, Launching, Releasing, PoolPath
  <1>7. NoUseAfterRelease'
    BY UsesFacts DEF IInv, TypeOK, NoUseAfterRelease, LiveOK, RecordsOK, Created, PathOK, Loading, Starting, Launching, Releasing, PoolPath
  <1>8. JoinsOnce'
    BY DEF IInv, TypeOK, JoinsOnce, RecordsOK, Created, PathOK, Loading, Starting, Launching, Releasing, PoolPath
  <1> QED
    BY <1>1, <1>2, <1>3, <1>4, <1>5, <1>6, <1>7, <1>8, TypeSplitNext DEF IInv

\* The reporter is joined.
LEMMA JoinReporterStep ==
    ASSUME IInv, \/ JoinReporter("join_reporter", "stop_pools")
                 \/ JoinReporter("cleanup_join_reporter", "cleanup_workers")
    PROVE  IInv'
  <1> USE LifecycleAssumption, ThreadFacts DEF JoinReporter, Join, Goto, session, apiFlags, options
  <1>1. FlagsOK'
    BY DEF IInv, TypeOK, FlagsOK
  <1>2. PlaceOK'
    <2>1. PlaceOK
      BY TypeSplit DEF IInv
    <2>2. main' \in {"stop_pools", "cleanup_workers"}
          /\ UNCHANGED <<live, started_threads, failures, work_failures, drops>>
      OBVIOUS
    <2> HIDE DEF JoinReporter, Join, Goto, session, apiFlags, options
    <2> QED
      BY <2>1, <2>2 DEF PlaceOK, Labels
  <1>3. StateOK'
    <2>1. StateOK /\ Join({Reporter}) /\ {Reporter} \in SUBSET Everyone
      BY TypeSplit DEF IInv
    <2> HIDE DEF Join
    <2> QED
      BY <2>1, JoinType
  <1>4. RecordsOK'
    <2>1. Join({Reporter}) /\ {Reporter} \in SUBSET Everyone
      BY DEF IInv, TypeOK
    <2> HIDE DEF Join
    <2>2. \A y \in Everyone : state'[y] \in Created
                               <=> state[y] \in Created /\ y \notin {Reporter}
      BY <2>1, CreatedLess DEF IInv
    <2>3. reporter_started' = FALSE /\ UNCHANGED <<started_threads, api_join_pending, service_created>>
      OBVIOUS
    <2>4. RecordsOK /\ started_threads \in Nat
      BY DEF IInv, TypeOK
    <2> QED
      BY <2>2, <2>3, <2>4 DEF RecordsOK
  <1>5. PathOK'
    BY DEF IInv, TypeOK, PathOK, Loading, Starting, Launching, Releasing, PoolPath
  <1>6. LiveOK'
    BY DEF IInv, TypeOK, LiveOK, PathOK, Loading, Starting, Launching, Releasing, PoolPath
  <1>7. NoUseAfterRelease'
    BY UsesFacts DEF IInv, TypeOK, NoUseAfterRelease, LiveOK, RecordsOK, Created, PathOK, Loading, Starting, Launching, Releasing, PoolPath
  <1>8. JoinsOnce'
    BY DEF IInv, TypeOK, JoinsOnce, RecordsOK, Created, PathOK, Loading, Starting, Launching, Releasing, PoolPath
  <1> QED
    BY <1>1, <1>2, <1>3, <1>4, <1>5, <1>6, <1>7, <1>8, TypeSplitNext DEF IInv

\* A worker ends.
LEMMA WorkerEndsStep ==
    ASSUME IInv, NEW x \in Workers, WorkerEnds(x)
    PROVE  IInv'
  <1> USE LifecycleAssumption, ThreadFacts DEF WorkerEnds, runtime, session, apiFlags, options
  <1>1. FlagsOK'
    BY DEF IInv, TypeOK, FlagsOK
  <1>2. PlaceOK'
    BY DEF IInv, TypeOK, PlaceOK, Labels, Resources
  <1>3. StateOK'
    BY DEF IInv, TypeOK, StateOK
  <1>4. RecordsOK'
    BY DEF IInv, TypeOK, RecordsOK, Created
  <1>5. PathOK'
    BY DEF IInv, TypeOK, PathOK, Loading, Starting, Launching, Releasing, PoolPath
  <1>6. LiveOK'
    BY DEF IInv, TypeOK, LiveOK, PathOK, Loading, Starting, Launching, Releasing, PoolPath
  <1>7. NoUseAfterRelease'
    BY UsesFacts DEF IInv, TypeOK, NoUseAfterRelease, LiveOK, RecordsOK, Created, PathOK, Loading, Starting, Launching, Releasing, PoolPath
  <1>8. JoinsOnce'
    BY DEF IInv, TypeOK, JoinsOnce, RecordsOK, Created, PathOK, Loading, Starting, Launching, Releasing, PoolPath
  <1> QED
    BY <1>1, <1>2, <1>3, <1>4, <1>5, <1>6, <1>7, <1>8, TypeSplitNext DEF IInv

\* The reporter ends.
LEMMA ReporterEndsStep ==
    ASSUME IInv, miner_hashrate_reporter_thread
    PROVE  IInv'
  <1> USE LifecycleAssumption, ThreadFacts DEF miner_hashrate_reporter_thread, runtime, session, apiFlags, options
  <1>1. FlagsOK'
    BY DEF IInv, TypeOK, FlagsOK
  <1>2. PlaceOK'
    BY DEF IInv, TypeOK, PlaceOK, Labels, Resources
  <1>3. StateOK'
    BY DEF IInv, TypeOK, StateOK
  <1>4. RecordsOK'
    BY DEF IInv, TypeOK, RecordsOK, Created
  <1>5. PathOK'
    BY DEF IInv, TypeOK, PathOK, Loading, Starting, Launching, Releasing, PoolPath
  <1>6. LiveOK'
    BY DEF IInv, TypeOK, LiveOK, PathOK, Loading, Starting, Launching, Releasing, PoolPath
  <1>7. NoUseAfterRelease'
    BY UsesFacts DEF IInv, TypeOK, NoUseAfterRelease, LiveOK, RecordsOK, Created, PathOK, Loading, Starting, Launching, Releasing, PoolPath
  <1>8. JoinsOnce'
    BY DEF IInv, TypeOK, JoinsOnce, RecordsOK, Created, PathOK, Loading, Starting, Launching, Releasing, PoolPath
  <1> QED
    BY <1>1, <1>2, <1>3, <1>4, <1>5, <1>6, <1>7, <1>8, TypeSplitNext DEF IInv

\* The session comes and goes.
LEMMA SessionStep ==
    ASSUME IInv, Connect \/ Disconnect
    PROVE  IInv'
  <1> USE LifecycleAssumption, ThreadFacts DEF Connect, Disconnect, runtime, apiFlags, options
  <1>1. FlagsOK'
    BY DEF IInv, TypeOK, FlagsOK
  <1>2. PlaceOK'
    <2>1. drops' \in 0 .. MaxDrops
      BY DEF IInv, TypeOK
    <2> QED
      BY <2>1 DEF IInv, TypeOK, PlaceOK
  <1>3. StateOK'
    BY DEF IInv, TypeOK, StateOK
  <1>4. RecordsOK'
    BY DEF IInv, TypeOK, RecordsOK, Created
  <1>5. PathOK'
    BY DEF IInv, TypeOK, PathOK, Loading, Starting, Launching, Releasing, PoolPath
  <1>6. LiveOK'
    BY DEF IInv, TypeOK, LiveOK, PathOK, Loading, Starting, Launching, Releasing, PoolPath
  <1>7. NoUseAfterRelease'
    BY UsesFacts DEF IInv, TypeOK, NoUseAfterRelease, LiveOK, RecordsOK, Created, PathOK, Loading, Starting, Launching, Releasing, PoolPath
  <1>8. JoinsOnce'
    BY DEF IInv, TypeOK, JoinsOnce, RecordsOK, Created, PathOK, Loading, Starting, Launching, Releasing, PoolPath
  <1> QED
    BY <1>1, <1>2, <1>3, <1>4, <1>5, <1>6, <1>7, <1>8, TypeSplitNext DEF IInv

\* A signal changes nothing but the flag.
LEMMA AbortStep ==
    ASSUME IInv, miner_request_abort
    PROVE  IInv'
  <1> USE LifecycleAssumption, ThreadFacts DEF miner_request_abort, runtime, session, apiFlags, options
  <1>1. FlagsOK'
    BY DEF IInv, TypeOK, FlagsOK
  <1>2. PlaceOK'
    BY DEF IInv, TypeOK, PlaceOK, Labels, Resources
  <1>3. StateOK'
    BY DEF IInv, TypeOK, StateOK
  <1>4. RecordsOK'
    BY DEF IInv, TypeOK, RecordsOK, Created
  <1>5. PathOK'
    BY DEF IInv, TypeOK, PathOK, Loading, Starting, Launching, Releasing, PoolPath
  <1>6. LiveOK'
    BY DEF IInv, TypeOK, LiveOK, PathOK, Loading, Starting, Launching, Releasing, PoolPath
  <1>7. NoUseAfterRelease'
    BY UsesFacts DEF IInv, TypeOK, NoUseAfterRelease, LiveOK, RecordsOK, Created, PathOK, Loading, Starting, Launching, Releasing, PoolPath
  <1>8. JoinsOnce'
    BY DEF IInv, TypeOK, JoinsOnce, RecordsOK, Created, PathOK, Loading, Starting, Launching, Releasing, PoolPath
  <1> QED
    BY <1>1, <1>2, <1>3, <1>4, <1>5, <1>6, <1>7, <1>8, TypeSplitNext DEF IInv

\* The service thread ends.
LEMMA ServiceEndsStep ==
    ASSUME IInv, ServiceEnds
    PROVE  IInv'
  <1> USE LifecycleAssumption, ThreadFacts DEF ServiceEnds, runtime, apiFlags, options
  <1>1. FlagsOK'
    BY DEF IInv, TypeOK, FlagsOK
  <1>2. PlaceOK'
    BY DEF IInv, TypeOK, PlaceOK, Labels, Resources
  <1>3. StateOK'
    BY DEF IInv, TypeOK, StateOK
  <1>4. RecordsOK'
    BY DEF IInv, TypeOK, RecordsOK, Created
  <1>5. PathOK'
    BY DEF IInv, TypeOK, PathOK, Loading, Starting, Launching, Releasing, PoolPath
  <1>6. LiveOK'
    BY DEF IInv, TypeOK, LiveOK, PathOK, Loading, Starting, Launching, Releasing, PoolPath
  <1>7. NoUseAfterRelease'
    BY UsesFacts DEF IInv, TypeOK, NoUseAfterRelease, LiveOK, RecordsOK, Created, PathOK, Loading, Starting, Launching, Releasing, PoolPath
  <1>8. JoinsOnce'
    BY DEF IInv, TypeOK, JoinsOnce, RecordsOK, Created, PathOK, Loading, Starting, Launching, Releasing, PoolPath
  <1> QED
    BY <1>1, <1>2, <1>3, <1>4, <1>5, <1>6, <1>7, <1>8, TypeSplitNext DEF IInv

\* The pool services are stopped once.
LEMMA StopPoolsStep ==
    ASSUME IInv, \/ StopPools("stop_pools", "join_service", "cleanup")
                 \/ StopPools("cleanup_pools", "cleanup_service", "release_algorithm")
    PROVE  IInv'
  <1> USE LifecycleAssumption, ThreadFacts DEF StopPools, Goto, session, apiFlags, options
  <1>1. FlagsOK'
    BY DEF IInv, TypeOK, FlagsOK
  <1>2. PlaceOK'
    BY DEF IInv, TypeOK, PlaceOK, Labels, Resources
  <1>3. StateOK'
    BY DEF IInv, TypeOK, StateOK
  <1>4. RecordsOK'
    BY DEF IInv, TypeOK, RecordsOK, Created
  <1>5. PathOK'
    BY DEF IInv, TypeOK, PathOK, Loading, Starting, Launching, Releasing, PoolPath
  <1>6. LiveOK'
    BY DEF IInv, TypeOK, LiveOK, PathOK, Loading, Starting, Launching, Releasing, PoolPath
  <1>7. NoUseAfterRelease'
    BY UsesFacts DEF IInv, TypeOK, NoUseAfterRelease, LiveOK, RecordsOK, Created, PathOK, Loading, Starting, Launching, Releasing, PoolPath
  <1>8. JoinsOnce'
    BY DEF IInv, TypeOK, JoinsOnce, RecordsOK, Created, PathOK, Loading, Starting, Launching, Releasing, PoolPath
  <1> QED
    BY <1>1, <1>2, <1>3, <1>4, <1>5, <1>6, <1>7, <1>8, TypeSplitNext DEF IInv

\* The service thread is joined.
LEMMA JoinServiceStep ==
    ASSUME IInv, \/ stratum_join_service_thread("join_service", "cleanup")
                 \/ stratum_join_service_thread("cleanup_service", "release_algorithm")
    PROVE  IInv'
  <1> USE LifecycleAssumption, ThreadFacts DEF stratum_join_service_thread, Join, Goto, runtime, session, apiFlags, options
  <1>1. FlagsOK'
    BY DEF IInv, TypeOK, FlagsOK
  <1>2. PlaceOK'
    BY DEF IInv, TypeOK, PlaceOK, Labels, Resources, PathOK, Loading, Starting, Launching, Releasing, PoolPath
  <1>3. StateOK'
    <2>1. StateOK /\ Join({Service}) /\ {Service} \in SUBSET Everyone
      BY TypeSplit DEF IInv
    <2> HIDE DEF Join
    <2> QED
      BY <2>1, JoinType
  <1>4. RecordsOK'
    <2>1. Join({Service}) /\ {Service} \in SUBSET Everyone
      BY DEF IInv, TypeOK
    <2> HIDE DEF Join
    <2>2. \A y \in Everyone : state'[y] \in Created
                               <=> state[y] \in Created /\ y \notin {Service}
      BY <2>1, CreatedLess DEF IInv
    <2>3. service_created' = FALSE /\ UNCHANGED <<started_threads, api_join_pending, reporter_started>>
      OBVIOUS
    <2>4. RecordsOK /\ started_threads \in Nat
      BY DEF IInv, TypeOK
    <2> QED
      BY <2>2, <2>3, <2>4 DEF RecordsOK
  <1>5. PathOK'
    BY DEF IInv, TypeOK, PathOK, Loading, Starting, Launching, Releasing, PoolPath
  <1>6. LiveOK'
    BY DEF IInv, TypeOK, LiveOK, PathOK, Loading, Starting, Launching, Releasing, PoolPath
  <1>7. NoUseAfterRelease'
    BY UsesFacts DEF IInv, TypeOK, NoUseAfterRelease, LiveOK, RecordsOK, Created, PathOK, Loading, Starting, Launching, Releasing, PoolPath
  <1>8. JoinsOnce'
    BY DEF IInv, TypeOK, JoinsOnce, RecordsOK, Created, PathOK, Loading, Starting, Launching, Releasing, PoolPath
  <1> QED
    BY <1>1, <1>2, <1>3, <1>4, <1>5, <1>6, <1>7, <1>8, TypeSplitNext DEF IInv

\* The API thread is asked to stop.
LEMMA StopApiStep ==
    ASSUME IInv, api_stop_service
    PROVE  IInv'
  <1> USE LifecycleAssumption, ThreadFacts DEF api_stop_service, Goto, runtime, session, options
  <1>1. FlagsOK'
    BY DEF IInv, TypeOK, FlagsOK
  <1>2. PlaceOK'
    BY DEF IInv, TypeOK, PlaceOK, Labels, Resources
  <1>3. StateOK'
    BY DEF IInv, TypeOK, StateOK
  <1>4. RecordsOK'
    BY DEF IInv, TypeOK, RecordsOK, Created
  <1>5. PathOK'
    BY DEF IInv, TypeOK, PathOK, Loading, Starting, Launching, Releasing, PoolPath
  <1>6. LiveOK'
    BY DEF IInv, TypeOK, LiveOK, PathOK, Loading, Starting, Launching, Releasing, PoolPath
  <1>7. NoUseAfterRelease'
    BY UsesFacts DEF IInv, TypeOK, NoUseAfterRelease, LiveOK, RecordsOK, Created, PathOK, Loading, Starting, Launching, Releasing, PoolPath
  <1>8. JoinsOnce'
    BY DEF IInv, TypeOK, JoinsOnce, RecordsOK, Created, PathOK, Loading, Starting, Launching, Releasing, PoolPath
  <1> QED
    BY <1>1, <1>2, <1>3, <1>4, <1>5, <1>6, <1>7, <1>8, TypeSplitNext DEF IInv

\* The API thread is joined.
LEMMA ApiJoinStep ==
    ASSUME IInv, ApiJoin
    PROVE  IInv'
  <1> USE LifecycleAssumption, ThreadFacts DEF ApiJoin, Join, Goto, runtime, session, options
  <1>1. FlagsOK'
    BY DEF IInv, TypeOK, FlagsOK
  <1>2. PlaceOK'
    BY DEF IInv, TypeOK, PlaceOK, Labels, Resources, PathOK, Loading, Starting, Launching, Releasing, PoolPath
  <1>3. StateOK'
    BY DEF IInv, TypeOK, StateOK
  <1>4. RecordsOK'
    BY DEF IInv, TypeOK, RecordsOK, Created, PathOK, Loading, Starting, Launching, Releasing, PoolPath
  <1>5. PathOK'
    BY DEF IInv, TypeOK, PathOK, Loading, Starting, Launching, Releasing, PoolPath
  <1>6. LiveOK'
    BY DEF IInv, TypeOK, LiveOK, PathOK, Loading, Starting, Launching, Releasing, PoolPath
  <1>7. NoUseAfterRelease'
    BY UsesFacts DEF IInv, TypeOK, NoUseAfterRelease, LiveOK, RecordsOK, Created, PathOK, Loading, Starting, Launching, Releasing, PoolPath
  <1>8. JoinsOnce'
    BY DEF IInv, TypeOK, JoinsOnce, RecordsOK, Created, PathOK, Loading, Starting, Launching, Releasing, PoolPath
  <1> QED
    BY <1>1, <1>2, <1>3, <1>4, <1>5, <1>6, <1>7, <1>8, TypeSplitNext DEF IInv

\* A resource is released when no thread is left.
LEMMA ReleaseStep ==
    ASSUME IInv, \/ Release("release_algorithm", "algorithm",
                            IF opt_benchmark THEN "release_threads" ELSE "release_contexts")
                 \/ Release("release_contexts", "contexts", "release_threads")
                 \/ Release("release_threads", "thr_info", "exit")
    PROVE  IInv'
  <1> USE LifecycleAssumption, ThreadFacts DEF Release, Goto, runtime, session, apiFlags, options
  <1>1. FlagsOK'
    BY DEF IInv, TypeOK, FlagsOK
  <1>2. PlaceOK'
    BY DEF IInv, TypeOK, PlaceOK, Labels, Resources
  <1>3. StateOK'
    BY DEF IInv, TypeOK, StateOK
  <1>4. RecordsOK'
    BY DEF IInv, TypeOK, RecordsOK, Created
  <1>5. PathOK'
    BY DEF IInv, TypeOK, PathOK, Loading, Starting, Launching, Releasing, PoolPath
  <1>6. LiveOK'
    BY DEF IInv, TypeOK, LiveOK, PathOK, Loading, Starting, Launching, Releasing, PoolPath
  <1>7. NoUseAfterRelease'
    BY UsesFacts DEF IInv, TypeOK, NoUseAfterRelease, LiveOK, RecordsOK, Created, PathOK, Loading, Starting, Launching, Releasing, PoolPath
  <1>8. JoinsOnce'
    BY DEF IInv, TypeOK, JoinsOnce, RecordsOK, Created, PathOK, Loading, Starting, Launching, Releasing, PoolPath
  <1> QED
    BY <1>1, <1>2, <1>3, <1>4, <1>5, <1>6, <1>7, <1>8, TypeSplitNext DEF IInv

LEMMA InvInductive == IInv /\ [Next]_vars => IInv'
  <1> SUFFICES ASSUME IInv, [Next]_vars PROVE IInv'
    OBVIOUS
  <1>1. CASE UNCHANGED vars
    <2> USE <1>1 DEF vars, options, runtime, session, apiFlags
    <2>1. TypeOK'
      BY DEF IInv, TypeOK
    <2>2. RecordsOK' /\ PathOK' /\ LiveOK' /\ NoUseAfterRelease' /\ JoinsOnce'
      BY DEF IInv, RecordsOK, PathOK, LiveOK, NoUseAfterRelease, JoinsOnce
    <2> QED
      BY <2>1, <2>2 DEF IInv
  <1>2. CASE run_mining_workers
    BY <1>2, StartWorkersStep, StartReporterStep, JoinWorkersStep, StopReporterStep,
       JoinReporterStep DEF run_mining_workers
  <1>3. CASE finish_stratum_runtime
    BY <1>3, StopPoolsStep, JoinServiceStep DEF finish_stratum_runtime
  <1>4. CASE cleanup_mining_runtime
    BY <1>4, StopApiStep, ApiJoinStep, StopReporterStep, JoinReporterStep, JoinWorkersStep,
       StopPoolsStep, JoinServiceStep, ReleaseStep DEF cleanup_mining_runtime
  <1>5. CASE start_mining
    BY <1>2, <1>3, <1>4, <1>5, AllocateStep, AlgorithmStep, PoolsStep, StartServiceStep,
       WaitReadyStep, ReadyResultStep, ApiStartStep, ApiStartedStep, ApiFailedJoinStep,
       BenchmarkStep DEF start_mining
  <1>6. CASE api_thread_main
    BY <1>6, ApiOpensStep, ApiEndsStep DEF api_thread_main
  <1> QED
    BY <1>1, <1>5, <1>6, WorkerEndsStep, ReporterEndsStep, SessionStep, AbortStep, ServiceEndsStep
       DEF Next

-----------------------------------------------------------------------------
(* Theorems. *)

THEOREM Invariance == Spec => []IInv
  BY InitInv, InvInductive, PTL DEF Spec

\* No thread runs without what it reads, on every path through start-up
\* failures and shutdown.
THEOREM NoUseAfterReleaseCorrect == Spec => []NoUseAfterRelease
  <1>1. IInv => NoUseAfterRelease
    BY DEF IInv
  <1> QED
    BY <1>1, Invariance, PTL

\* Every join is of a thread that was created and not joined before.
THEOREM JoinsOnceCorrect == Spec => []JoinsOnce
  <1>1. IInv => JoinsOnce
    BY DEF IInv
  <1> QED
    BY <1>1, Invariance, PTL

\* The program ends with every thread joined and everything released.
THEOREM NothingLeftCorrect == Spec => []NothingLeft
  <1>1. IInv => NothingLeft
    <2> SUFFICES ASSUME IInv, main = "exit"
                 PROVE  live = {} /\ \A x \in Everyone : state[x] \in {"off", "joined"}
      BY DEF NothingLeft
    <2>1. live = {}
      BY DEF IInv, TypeOK, LiveOK, Resources
    <2>2. /\ ~service_created /\ ~api_join_pending /\ ~reporter_started /\ started_threads = 0
      BY DEF IInv, PathOK, Releasing
    <2>3. \A x \in Everyone : state[x] \notin Created
      BY <2>2, ThreadFacts DEF IInv, RecordsOK
    <2> QED
      BY <2>1, <2>3 DEF IInv, TypeOK, Created
  <1> QED
    BY <1>1, Invariance, PTL
=============================================================================
