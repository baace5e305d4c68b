-------------------------- MODULE RandomXRekeyProofs -------------------------
(***************************************************************************)
(* Re-keying is safe for every number of miner threads, every set of       *)
(* seeds, every length of the drain and any number of jobs and failures.   *)
(***************************************************************************)
EXTENDS RandomXRekey, FiniteSetTheorems, TLAPS

-----------------------------------------------------------------------------
(* The inductive invariant. *)

\* Where a thread is registered as a reader of the shared memory, and where
\* it has a copy of the work, with or without its VM.
Inside  == {"check", "hash", "leave", "leave_share"}
WithVM  == Inside \cup {"enter", "submit"}
Holding == WithVM \cup {"vm"}

\* The counter that the drain polls is exact.
Hashers == {t \in Threads : pc[t] \in Inside}
Counted == g_rx_active_hashers = Cardinality(Hashers)

\* The service thread between a job and its publication.
ServiceOK ==
    /\ opt_benchmark => svc \in {"off", "done"} /\ g_seed \in {None, BenchmarkKey}
    /\ svc = "off" => ~g_runtime_ready /\ \A t \in Threads : pc[t] = "off"
    /\ svc \notin {"off", "done"} => g_runtime_ready
    /\ ~g_runtime_ready => \A t \in Threads : pc[t] \in {"off", "done"}
    /\ svc \in {"set_seed", "drain", "apply", "rebuild", "commit"} => job_seed \in Seeds
    /\ svc \in {"rebuild", "commit"} => g_seed = job_seed
    /\ g_rx_lock <=> (svc \in {"drain", "apply", "rebuild"})
    /\ svc = "drain" => g_epoch > 0
    /\ svc # "rebuild" /\ g_runtime_ready => memory = g_seed
    /\ svc # "rebuild" => (g_epoch = 0 <=> g_seed = None)

\* Before the first key nobody hashes, and without the benchmark's own work
\* nobody has anything to hash.
Unkeyed ==
    g_epoch = 0 =>
        /\ \A t \in Threads : pc[t] \notin WithVM
        /\ ~opt_benchmark => ~work_ready /\ \A t \in Threads : pc[t] \notin Holding

\* Generations only grow, and from the start of a re-key to the publication
\* of its job all work anybody has is of an earlier one.
Stamped ==
    /\ current_work.gen <= generation
    /\ \A t \in Threads : work[t].gen <= generation
    /\ svc \in {"drain", "apply", "rebuild"} /\ g_epoch > 0 =>
          /\ current_work.gen < generation
          /\ \A t \in Threads : pc[t] \in Holding => work[t].gen < generation

\* Work of the current generation is for the key in force.
KeyInForce == IF opt_benchmark THEN BenchmarkKey ELSE g_seed

WorkKeyed ==
    /\ work_ready /\ current_work.gen = generation => current_work.seed = KeyInForce
    /\ \A t \in Threads :
          pc[t] \in Holding /\ work[t].gen = generation => work[t].seed = KeyInForce

\* A hash of the current generation, and the share it became, is sound.
ResultSound ==
    \A t \in Threads :
        pc[t] \in {"hash", "leave_share", "submit"} /\ work[t].gen = generation => sound[t]

IInv ==
    /\ TypeOK /\ Counted /\ ServiceOK /\ Unkeyed /\ Stamped /\ WorkKeyed /\ ResultSound
    /\ RebuildAlone /\ SharesSound
-----------------------------------------------------------------------------
(* Lemmas. *)

\* The type invariant by kinds of values.
FlagsOK ==
    /\ opt_benchmark \in BOOLEAN /\ aborting \in BOOLEAN /\ g_rx_lock \in BOOLEAN
    /\ g_runtime_ready \in BOOLEAN /\ work_ready \in BOOLEAN /\ gave_up \in BOOLEAN
    /\ submitted \subseteq BOOLEAN

SharedOK ==
    /\ g_seed \in Keys \cup {None} /\ g_epoch \in Nat
    /\ memory \in Keys \cup {None, Torn}
    /\ g_rx_active_hashers \in 0 .. Cardinality(Threads)
    /\ generation \in Nat /\ current_work \in Work
    /\ events \in 0 .. MaxJobs /\ failures \in 0 .. MaxFailures
    /\ svc \in {"off", "recv", "set_seed", "drain", "apply", "rebuild", "commit", "done"}
    /\ job_seed \in Seeds \cup {None} /\ polls \in 0 .. DrainPolls

ThreadsOK ==
    /\ g_vm_epoch \in [Threads -> Nat]
    /\ pc \in [Threads -> {"off", "copy", "vm", "enter", "check", "hash", "leave",
                           "leave_share", "submit", "done"}]
    /\ work \in [Threads -> Work]

SoundOK == sound \in [Threads -> BOOLEAN]

LEMMA TypeSplit == TypeOK <=> FlagsOK /\ SharedOK /\ ThreadsOK /\ SoundOK
  BY DEF TypeOK, FlagsOK, SharedOK, ThreadsOK, SoundOK

LEMMA TypeSplitNext == TypeOK' <=> FlagsOK' /\ SharedOK' /\ ThreadsOK' /\ SoundOK'
  BY DEF TypeOK, FlagsOK, SharedOK, ThreadsOK, SoundOK

LEMMA KeyFacts ==
    /\ Seeds \subseteq Keys /\ BenchmarkKey \in Keys /\ BenchmarkKey \notin Seeds
    /\ None \notin Keys /\ Torn \notin Keys /\ None # Torn
    /\ NoWork \in Work /\ NoWork.gen = 0 /\ NoWork.seed = None
  BY RandomXAssumption DEF Keys, Work, NoWork

\* The registered threads are a finite set.
LEMMA HashersFinite ==
    /\ IsFiniteSet(Hashers) /\ Cardinality(Hashers) \in 0 .. Cardinality(Threads)
    /\ Cardinality(Hashers) = 0 => Hashers = {}
  <1>1. Hashers \in SUBSET Threads /\ IsFiniteSet(Threads)
    BY RandomXAssumption DEF Hashers
  <1>2. /\ IsFiniteSet(Hashers) /\ Cardinality(Hashers) <= Cardinality(Threads)
    BY <1>1, FS_Subset
  <1>3. Cardinality(Hashers) \in Nat /\ Cardinality(Threads) \in Nat
    BY <1>1, <1>2, FS_CardinalityType
  <1> QED
    BY <1>2, <1>3, FS_EmptySet

\* What a move of thread t to label l does to the set of registered threads.
LEMMA MoveCounted ==
    ASSUME TypeOK, Counted, NEW t \in Threads, NEW l, Goto(t, l),
           g_rx_active_hashers' =
               g_rx_active_hashers
                 + (IF l \in Inside THEN 1 ELSE 0) - (IF pc[t] \in Inside THEN 1 ELSE 0)
    PROVE  Counted' /\ g_rx_active_hashers' \in 0 .. Cardinality(Threads)
  <1>1. IsFiniteSet(Hashers) /\ Cardinality(Hashers) \in Nat /\ (t \in Hashers <=> pc[t] \in Inside)
    BY HashersFinite DEF Hashers
  <1>2. Hashers' = IF l \in Inside THEN Hashers \cup {t} ELSE Hashers \ {t}
    BY DEF Hashers, Goto, TypeOK
  <1>3. Counted'
    <2>1. CASE l \in Inside
      <3>1. Cardinality(Hashers') = IF t \in Hashers THEN Cardinality(Hashers)
                                                   ELSE Cardinality(Hashers) + 1
        BY <1>1, <1>2, <2>1, FS_AddElement
      <3> QED
        BY <1>1, <2>1, <3>1 DEF Counted
    <2>2. CASE l \notin Inside
      <3>1. Cardinality(Hashers') = IF t \in Hashers THEN Cardinality(Hashers) - 1
                                                   ELSE Cardinality(Hashers)
        BY <1>1, <1>2, <2>2, FS_RemoveElement
      <3> QED
        BY <1>1, <2>2, <3>1 DEF Counted
    <2> QED
      BY <2>1, <2>2
  <1>4. Cardinality(Hashers)' \in 0 .. Cardinality(Threads)
    <2>1. Hashers' \in SUBSET Threads /\ IsFiniteSet(Threads)
      BY RandomXAssumption DEF Hashers
    <2>2. IsFiniteSet(Hashers') /\ Cardinality(Hashers') <= Cardinality(Threads)
      BY <2>1, FS_Subset
    <2> QED
      BY <2>1, <2>2, FS_CardinalityType
  <1> QED
    BY <1>3, <1>4 DEF Counted

LEMMA InitInv == Init => IInv
  <1> SUFFICES ASSUME Init PROVE IInv
    OBVIOUS
  <1>1. TypeOK
    <2>1. FlagsOK
      BY DEF Init, FlagsOK
    <2>3. SharedOK
      BY KeyFacts, FS_CardinalityType, RandomXAssumption DEF Init, SharedOK
    <2>2. ThreadsOK /\ SoundOK
      BY KeyFacts DEF Init, ThreadsOK, SoundOK
    <2> QED
      BY <2>1, <2>2, <2>3, TypeSplit
  <1>2. Counted
    <2>1. Hashers = {}
      BY DEF Init, Hashers, Inside
    <2> QED
      BY <2>1, FS_EmptySet DEF Init, Counted
  <1>3. ServiceOK
    BY KeyFacts DEF Init, ServiceOK
  <1>4. Unkeyed /\ Stamped /\ WorkKeyed
    BY KeyFacts DEF Init, Unkeyed, Stamped, WorkKeyed, WithVM, Holding, Inside
  <1>5. ResultSound /\ RebuildAlone /\ SharesSound
    BY DEF Init, ResultSound, RebuildAlone, SharesSound
  <1> QED
    BY <1>1, <1>2, <1>3, <1>4, <1>5 DEF IInv

-----------------------------------------------------------------------------
(* One lemma per action. *)

\* The runtime comes up, or the program gives up.
LEMMA InitRuntimeStep ==
    ASSUME IInv, randomx_init_runtime
    PROVE  IInv'
  <1> USE RandomXAssumption, KeyFacts DEF randomx_init_runtime, AllocationFails
  <1>1. Counted' /\ g_rx_active_hashers' \in 0 .. Cardinality(Threads)
    <2>1. Hashers' = Hashers
      BY DEF IInv, ServiceOK, TypeOK, Hashers, Inside
    <2> QED
      BY <2>1, HashersFinite DEF IInv, Counted
  <1>2. TypeOK'
    <2>1. FlagsOK'
      BY DEF IInv, TypeOK, FlagsOK
    <2>2. SharedOK'
      BY <1>1 DEF IInv, TypeOK, SharedOK, Work
    <2>3. ThreadsOK'
      BY DEF IInv, TypeOK, ThreadsOK, Work
    <2>4. SoundOK'
      BY DEF IInv, TypeOK, SoundOK
    <2> QED
      BY <2>1, <2>2, <2>3, <2>4, TypeSplitNext
  <1>3. ServiceOK'
    BY DEF IInv, TypeOK, ServiceOK, Unkeyed, WithVM, Holding, Inside
  <1>4. Unkeyed'
    BY DEF IInv, TypeOK, ServiceOK, Unkeyed, WithVM, Holding, Inside
  <1>5. Stamped'
    BY DEF IInv, TypeOK, ServiceOK, Unkeyed, Stamped, Work, WithVM, Holding, Inside
  <1>6. WorkKeyed'
    BY DEF IInv, TypeOK, ServiceOK, Unkeyed, Stamped, WorkKeyed, KeyInForce, Work, WithVM, Holding, Inside
  <1>7. ResultSound'
    BY DEF IInv, TypeOK, ServiceOK, Unkeyed, Stamped, WorkKeyed, ResultSound, KeyInForce, Work, WithVM, Holding, Inside
  <1>8. RebuildAlone'
    BY HashersFinite DEF IInv, TypeOK, ServiceOK, Unkeyed, Stamped, RebuildAlone, Counted, Hashers, Work, WithVM, Holding, Inside
  <1>9. SharesSound'
    BY DEF IInv, TypeOK, ResultSound, SharesSound
  <1> QED
    BY <1>1, <1>2, <1>3, <1>4, <1>5, <1>6, <1>7, <1>8, <1>9 DEF IInv

\* Only after every thread has ended.
LEMMA CleanupStep ==
    ASSUME IInv, randomx_cleanup_runtime
    PROVE  IInv'
  <1> USE RandomXAssumption, KeyFacts DEF randomx_cleanup_runtime, feed, service, locals
  <1>1. Counted' /\ g_rx_active_hashers' \in 0 .. Cardinality(Threads)
    BY HashersFinite DEF IInv, Counted, Hashers, vars, locals
  <1>2. TypeOK'
    <2>1. FlagsOK'
      BY DEF IInv, TypeOK, FlagsOK
    <2>2. SharedOK'
      BY <1>1 DEF IInv, TypeOK, SharedOK, Work
    <2>3. ThreadsOK'
      BY DEF IInv, TypeOK, ThreadsOK, Work
    <2>4. SoundOK'
      BY DEF IInv, TypeOK, SoundOK
    <2> QED
      BY <2>1, <2>2, <2>3, <2>4, TypeSplitNext
  <1>3. ServiceOK'
    BY DEF IInv, TypeOK, ServiceOK, Unkeyed, WithVM, Holding, Inside
  <1>4. Unkeyed'
    BY DEF IInv, TypeOK, ServiceOK, Unkeyed, WithVM, Holding, Inside
  <1>5. Stamped'
    BY DEF IInv, TypeOK, ServiceOK, Unkeyed, Stamped, Work, WithVM, Holding, Inside
  <1>6. WorkKeyed'
    BY DEF IInv, TypeOK, ServiceOK, Unkeyed, Stamped, WorkKeyed, KeyInForce, Work, WithVM, Holding, Inside
  <1>7. ResultSound'
    BY DEF IInv, TypeOK, ServiceOK, Unkeyed, Stamped, WorkKeyed, ResultSound, KeyInForce, Work, WithVM, Holding, Inside
  <1>8. RebuildAlone'
    BY HashersFinite DEF IInv, TypeOK, ServiceOK, Unkeyed, Stamped, RebuildAlone, Counted, Hashers, Work, WithVM, Holding, Inside
  <1>9. SharesSound'
    BY DEF IInv, TypeOK, ResultSound, SharesSound
  <1> QED
    BY <1>1, <1>2, <1>3, <1>4, <1>5, <1>6, <1>7, <1>8, <1>9 DEF IInv

\* A signal changes nothing but the flag.
LEMMA AbortStep ==
    ASSUME IInv, miner_request_abort
    PROVE  IInv'
  <1> USE RandomXAssumption, KeyFacts DEF miner_request_abort, keyed, feed, service, locals
  <1>1. Counted' /\ g_rx_active_hashers' \in 0 .. Cardinality(Threads)
    BY HashersFinite DEF IInv, Counted, Hashers, vars, locals
  <1>2. TypeOK'
    <2>1. FlagsOK'
      BY DEF IInv, TypeOK, FlagsOK
    <2>2. SharedOK'
      BY <1>1 DEF IInv, TypeOK, SharedOK, Work
    <2>3. ThreadsOK'
      BY DEF IInv, TypeOK, ThreadsOK, Work
    <2>4. SoundOK'
      BY DEF IInv, TypeOK, SoundOK
    <2> QED
      BY <2>1, <2>2, <2>3, <2>4, TypeSplitNext
  <1>3. ServiceOK'
    BY DEF IInv, TypeOK, ServiceOK, Unkeyed, WithVM, Holding, Inside
  <1>4. Unkeyed'
    BY DEF IInv, TypeOK, ServiceOK, Unkeyed, WithVM, Holding, Inside
  <1>5. Stamped'
    BY DEF IInv, TypeOK, ServiceOK, Unkeyed, Stamped, Work, WithVM, Holding, Inside
  <1>6. WorkKeyed'
    BY DEF IInv, TypeOK, ServiceOK, Unkeyed, Stamped, WorkKeyed, KeyInForce, Work, WithVM, Holding, Inside
  <1>7. ResultSound'
    BY DEF IInv, TypeOK, ServiceOK, Unkeyed, Stamped, WorkKeyed, ResultSound, KeyInForce, Work, WithVM, Holding, Inside
  <1>8. RebuildAlone'
    BY HashersFinite DEF IInv, TypeOK, ServiceOK, Unkeyed, Stamped, RebuildAlone, Counted, Hashers, Work, WithVM, Holding, Inside
  <1>9. SharesSound'
    BY DEF IInv, TypeOK, ResultSound, SharesSound
  <1> QED
    BY <1>1, <1>2, <1>3, <1>4, <1>5, <1>6, <1>7, <1>8, <1>9 DEF IInv

\* A job arrives.
LEMMA JobStep ==
    ASSUME IInv, xmr_stratum_handle_job
    PROVE  IInv'
  <1> USE RandomXAssumption, KeyFacts DEF xmr_stratum_handle_job, keyed, locals
  <1>1. Counted' /\ g_rx_active_hashers' \in 0 .. Cardinality(Threads)
    BY HashersFinite DEF IInv, Counted, Hashers, vars, locals
  <1>2. TypeOK'
    <2>1. FlagsOK'
      BY DEF IInv, TypeOK, FlagsOK
    <2>2. SharedOK'
      BY <1>1 DEF IInv, TypeOK, SharedOK, Work
    <2>3. ThreadsOK'
      BY DEF IInv, TypeOK, ThreadsOK, Work
    <2>4. SoundOK'
      BY DEF IInv, TypeOK, SoundOK
    <2> QED
      BY <2>1, <2>2, <2>3, <2>4, TypeSplitNext
  <1>3. ServiceOK'
    BY DEF IInv, TypeOK, ServiceOK, Unkeyed, WithVM, Holding, Inside
  <1>4. Unkeyed'
    BY DEF IInv, TypeOK, ServiceOK, Unkeyed, WithVM, Holding, Inside
  <1>5. Stamped'
    BY DEF IInv, TypeOK, ServiceOK, Unkeyed, Stamped, Work, WithVM, Holding, Inside
  <1>6. WorkKeyed'
    BY DEF IInv, TypeOK, ServiceOK, Unkeyed, Stamped, WorkKeyed, KeyInForce, Work, WithVM, Holding, Inside
  <1>7. ResultSound'
    BY DEF IInv, TypeOK, ServiceOK, Unkeyed, Stamped, WorkKeyed, ResultSound, KeyInForce, Work, WithVM, Holding, Inside
  <1>8. RebuildAlone'
    BY HashersFinite DEF IInv, TypeOK, ServiceOK, Unkeyed, Stamped, RebuildAlone, Counted, Hashers, Work, WithVM, Holding, Inside
  <1>9. SharesSound'
    BY DEF IInv, TypeOK, ResultSound, SharesSound
  <1> QED
    BY <1>1, <1>2, <1>3, <1>4, <1>5, <1>6, <1>7, <1>8, <1>9 DEF IInv

\* The generation moves before the drain begins.
LEMMA SetSeedStep ==
    ASSUME IInv, randomx_set_seed
    PROVE  IInv'
  <1> USE RandomXAssumption, KeyFacts DEF randomx_set_seed, keyed, locals
  <1>1. Counted' /\ g_rx_active_hashers' \in 0 .. Cardinality(Threads)
    BY HashersFinite DEF IInv, Counted, Hashers, vars, locals
  <1>2. TypeOK'
    <2>1. FlagsOK'
      BY DEF IInv, TypeOK, FlagsOK
    <2>2. SharedOK'
      BY <1>1 DEF IInv, TypeOK, SharedOK, Work
    <2>3. ThreadsOK'
      BY DEF IInv, TypeOK, ThreadsOK, Work
    <2>4. SoundOK'
      BY DEF IInv, TypeOK, SoundOK
    <2> QED
      BY <2>1, <2>2, <2>3, <2>4, TypeSplitNext
  <1>3. ServiceOK'
    BY DEF IInv, TypeOK, ServiceOK, Unkeyed, WithVM, Holding, Inside
  <1>4. Unkeyed'
    BY DEF IInv, TypeOK, ServiceOK, Unkeyed, WithVM, Holding, Inside
  <1>5. Stamped'
    BY DEF IInv, TypeOK, ServiceOK, Unkeyed, Stamped, Work, WithVM, Holding, Inside
  <1>6. WorkKeyed'
    BY DEF IInv, TypeOK, ServiceOK, Unkeyed, Stamped, WorkKeyed, KeyInForce, Work, WithVM, Holding, Inside
  <1>7. ResultSound'
    BY DEF IInv, TypeOK, ServiceOK, Unkeyed, Stamped, WorkKeyed, ResultSound, KeyInForce, Work, WithVM, Holding, Inside
  <1>8. RebuildAlone'
    BY HashersFinite DEF IInv, TypeOK, ServiceOK, Unkeyed, Stamped, RebuildAlone, Counted, Hashers, Work, WithVM, Holding, Inside
  <1>9. SharesSound'
    BY DEF IInv, TypeOK, ResultSound, SharesSound
  <1> QED
    BY <1>1, <1>2, <1>3, <1>4, <1>5, <1>6, <1>7, <1>8, <1>9 DEF IInv

\* The drain ends with nobody registered, or gives up.
LEMMA DrainStep ==
    ASSUME IInv, rx_drain_active_hashers
    PROVE  IInv'
  <1> USE RandomXAssumption, KeyFacts DEF rx_drain_active_hashers, DrainRound, keyed, feed, locals
  <1>1. Counted' /\ g_rx_active_hashers' \in 0 .. Cardinality(Threads)
    BY HashersFinite DEF IInv, Counted, Hashers, vars, locals
  <1>2. TypeOK'
    <2>1. FlagsOK'
      BY DEF IInv, TypeOK, FlagsOK
    <2>2. SharedOK'
      BY <1>1 DEF IInv, TypeOK, SharedOK, Work
    <2>3. ThreadsOK'
      BY DEF IInv, TypeOK, ThreadsOK, Work
    <2>4. SoundOK'
      BY DEF IInv, TypeOK, SoundOK
    <2> QED
      BY <2>1, <2>2, <2>3, <2>4, TypeSplitNext
  <1>3. ServiceOK'
    BY DEF IInv, TypeOK, ServiceOK, Unkeyed, WithVM, Holding, Inside
  <1>4. Unkeyed'
    BY DEF IInv, TypeOK, ServiceOK, Unkeyed, WithVM, Holding, Inside
  <1>5. Stamped'
    BY DEF IInv, TypeOK, ServiceOK, Unkeyed, Stamped, Work, WithVM, Holding, Inside
  <1>6. WorkKeyed'
    BY DEF IInv, TypeOK, ServiceOK, Unkeyed, Stamped, WorkKeyed, KeyInForce, Work, WithVM, Holding, Inside
  <1>7. ResultSound'
    BY DEF IInv, TypeOK, ServiceOK, Unkeyed, Stamped, WorkKeyed, ResultSound, KeyInForce, Work, WithVM, Holding, Inside
  <1>8. RebuildAlone'
    BY HashersFinite DEF IInv, TypeOK, ServiceOK, Unkeyed, Stamped, RebuildAlone, Counted, Hashers, Work, WithVM, Holding, Inside
  <1>9. SharesSound'
    BY DEF IInv, TypeOK, ResultSound, SharesSound
  <1> QED
    BY <1>1, <1>2, <1>3, <1>4, <1>5, <1>6, <1>7, <1>8, <1>9 DEF IInv

\* The memory is torn under hashes of earlier generations only.
LEMMA RebuildStartStep ==
    ASSUME IInv, RebuildStart
    PROVE  IInv'
  <1> USE RandomXAssumption, KeyFacts DEF RebuildStart, feed
  <1>1. Counted' /\ g_rx_active_hashers' \in 0 .. Cardinality(Threads)
    BY HashersFinite DEF IInv, Counted, Hashers, vars, locals
  <1>2. TypeOK'
    <2>1. FlagsOK'
      BY DEF IInv, TypeOK, FlagsOK
    <2>2. SharedOK'
      BY <1>1 DEF IInv, TypeOK, SharedOK, Work
    <2>3. ThreadsOK'
      BY DEF IInv, TypeOK, ThreadsOK, Work
    <2>4. SoundOK'
      BY DEF IInv, TypeOK, SoundOK
    <2> QED
      BY <2>1, <2>2, <2>3, <2>4, TypeSplitNext
  <1>3. ServiceOK'
    BY DEF IInv, TypeOK, ServiceOK, Unkeyed, WithVM, Holding, Inside
  <1>4. Unkeyed'
    BY DEF IInv, TypeOK, ServiceOK, Unkeyed, WithVM, Holding, Inside
  <1>5. Stamped'
    BY DEF IInv, TypeOK, ServiceOK, Unkeyed, Stamped, Work, WithVM, Holding, Inside
  <1>6. WorkKeyed'
    BY DEF IInv, TypeOK, ServiceOK, Unkeyed, Stamped, WorkKeyed, KeyInForce, Work, WithVM, Holding, Inside
  <1>7. ResultSound'
    BY DEF IInv, TypeOK, ServiceOK, Unkeyed, Stamped, WorkKeyed, ResultSound, KeyInForce, Work, WithVM, Holding, Inside
  <1>8. RebuildAlone'
    BY HashersFinite DEF IInv, TypeOK, ServiceOK, Unkeyed, Stamped, RebuildAlone, Counted, Hashers, Work, WithVM, Holding, Inside
  <1>9. SharesSound'
    BY DEF IInv, TypeOK, ResultSound, SharesSound
  <1> QED
    BY <1>1, <1>2, <1>3, <1>4, <1>5, <1>6, <1>7, <1>8, <1>9 DEF IInv

\* The memory holds the key of the job that is about to be published.
LEMMA RebuildEndStep ==
    ASSUME IInv, RebuildEnd
    PROVE  IInv'
  <1> USE RandomXAssumption, KeyFacts DEF RebuildEnd, feed, locals
  <1>1. Counted' /\ g_rx_active_hashers' \in 0 .. Cardinality(Threads)
    BY HashersFinite DEF IInv, Counted, Hashers, vars, locals
  <1>2. TypeOK'
    <2>1. FlagsOK'
      BY DEF IInv, TypeOK, FlagsOK
    <2>2. SharedOK'
      BY <1>1 DEF IInv, TypeOK, SharedOK, Work
    <2>3. ThreadsOK'
      BY DEF IInv, TypeOK, ThreadsOK, Work
    <2>4. SoundOK'
      BY DEF IInv, TypeOK, SoundOK
    <2> QED
      BY <2>1, <2>2, <2>3, <2>4, TypeSplitNext
  <1>3. ServiceOK'
    BY DEF IInv, TypeOK, ServiceOK, Unkeyed, WithVM, Holding, Inside
  <1>4. Unkeyed'
    BY DEF IInv, TypeOK, ServiceOK, Unkeyed, WithVM, Holding, Inside
  <1>5. Stamped'
    BY DEF IInv, TypeOK, ServiceOK, Unkeyed, Stamped, Work, WithVM, Holding, Inside
  <1>6. WorkKeyed'
    BY DEF IInv, TypeOK, ServiceOK, Unkeyed, Stamped, WorkKeyed, KeyInForce, Work, WithVM, Holding, Inside
  <1>7. ResultSound'
    BY DEF IInv, TypeOK, ServiceOK, Unkeyed, Stamped, WorkKeyed, ResultSound, KeyInForce, Work, WithVM, Holding, Inside
  <1>8. RebuildAlone'
    BY HashersFinite DEF IInv, TypeOK, ServiceOK, Unkeyed, Stamped, RebuildAlone, Counted, Hashers, Work, WithVM, Holding, Inside
  <1>9. SharesSound'
    BY DEF IInv, TypeOK, ResultSound, SharesSound
  <1> QED
    BY <1>1, <1>2, <1>3, <1>4, <1>5, <1>6, <1>7, <1>8, <1>9 DEF IInv

\* The job is published for the key in force.
LEMMA CommitStep ==
    ASSUME IInv, Commit
    PROVE  IInv'
  <1> USE RandomXAssumption, KeyFacts DEF Commit, AllocationFails, WorkStamp, keyed, locals
  <1>1. Counted' /\ g_rx_active_hashers' \in 0 .. Cardinality(Threads)
    BY HashersFinite DEF IInv, Counted, Hashers, vars, locals
  <1>2. TypeOK'
    <2>1. FlagsOK'
      BY DEF IInv, TypeOK, FlagsOK
    <2>2. SharedOK'
      BY <1>1 DEF IInv, TypeOK, SharedOK, Work
    <2>3. ThreadsOK'
      BY DEF IInv, TypeOK, ThreadsOK, Work
    <2>4. SoundOK'
      BY DEF IInv, TypeOK, SoundOK
    <2> QED
      BY <2>1, <2>2, <2>3, <2>4, TypeSplitNext
  <1>3. ServiceOK'
    BY DEF IInv, TypeOK, ServiceOK, Unkeyed, WithVM, Holding, Inside
  <1>4. Unkeyed'
    BY DEF IInv, TypeOK, ServiceOK, Unkeyed, WithVM, Holding, Inside
  <1>5. Stamped'
    BY DEF IInv, TypeOK, ServiceOK, Unkeyed, Stamped, Work, WithVM, Holding, Inside
  <1>6. WorkKeyed'
    BY DEF IInv, TypeOK, ServiceOK, Unkeyed, Stamped, WorkKeyed, KeyInForce, Work, WithVM, Holding, Inside
  <1>7. ResultSound'
    BY DEF IInv, TypeOK, ServiceOK, Unkeyed, Stamped, WorkKeyed, ResultSound, KeyInForce, Work, WithVM, Holding, Inside
  <1>8. RebuildAlone'
    BY HashersFinite DEF IInv, TypeOK, ServiceOK, Unkeyed, Stamped, RebuildAlone, Counted, Hashers, Work, WithVM, Holding, Inside
  <1>9. SharesSound'
    BY DEF IInv, TypeOK, ResultSound, SharesSound
  <1> QED
    BY <1>1, <1>2, <1>3, <1>4, <1>5, <1>6, <1>7, <1>8, <1>9 DEF IInv

\* A disconnect moves the generation.
LEMMA ResetStep ==
    ASSUME IInv, stratum_reset_work_state
    PROVE  IInv'
  <1> USE RandomXAssumption, KeyFacts DEF stratum_reset_work_state, keyed, service, locals
  <1>1. Counted' /\ g_rx_active_hashers' \in 0 .. Cardinality(Threads)
    BY HashersFinite DEF IInv, Counted, Hashers, vars, locals
  <1>2. TypeOK'
    <2>1. FlagsOK'
      BY DEF IInv, TypeOK, FlagsOK
    <2>2. SharedOK'
      BY <1>1 DEF IInv, TypeOK, SharedOK, Work
    <2>3. ThreadsOK'
      BY DEF IInv, TypeOK, ThreadsOK, Work
    <2>4. SoundOK'
      BY DEF IInv, TypeOK, SoundOK
    <2> QED
      BY <2>1, <2>2, <2>3, <2>4, TypeSplitNext
  <1>3. ServiceOK'
    BY DEF IInv, TypeOK, ServiceOK, Unkeyed, WithVM, Holding, Inside
  <1>4. Unkeyed'
    BY DEF IInv, TypeOK, ServiceOK, Unkeyed, WithVM, Holding, Inside
  <1>5. Stamped'
    BY DEF IInv, TypeOK, ServiceOK, Unkeyed, Stamped, Work, WithVM, Holding, Inside
  <1>6. WorkKeyed'
    BY DEF IInv, TypeOK, ServiceOK, Unkeyed, Stamped, WorkKeyed, KeyInForce, Work, WithVM, Holding, Inside
  <1>7. ResultSound'
    BY DEF IInv, TypeOK, ServiceOK, Unkeyed, Stamped, WorkKeyed, ResultSound, KeyInForce, Work, WithVM, Holding, Inside
  <1>8. RebuildAlone'
    BY HashersFinite DEF IInv, TypeOK, ServiceOK, Unkeyed, Stamped, RebuildAlone, Counted, Hashers, Work, WithVM, Holding, Inside
  <1>9. SharesSound'
    BY DEF IInv, TypeOK, ResultSound, SharesSound
  <1> QED
    BY <1>1, <1>2, <1>3, <1>4, <1>5, <1>6, <1>7, <1>8, <1>9 DEF IInv

\* The service thread ends.
LEMMA ServiceStopsStep ==
    ASSUME IInv, ServiceStops
    PROVE  IInv'
  <1> USE RandomXAssumption, KeyFacts DEF ServiceStops, keyed, feed, locals
  <1>1. Counted' /\ g_rx_active_hashers' \in 0 .. Cardinality(Threads)
    BY HashersFinite DEF IInv, Counted, Hashers, vars, locals
  <1>2. TypeOK'
    <2>1. FlagsOK'
      BY DEF IInv, TypeOK, FlagsOK
    <2>2. SharedOK'
      BY <1>1 DEF IInv, TypeOK, SharedOK, Work
    <2>3. ThreadsOK'
      BY DEF IInv, TypeOK, ThreadsOK, Work
    <2>4. SoundOK'
      BY DEF IInv, TypeOK, SoundOK
    <2> QED
      BY <2>1, <2>2, <2>3, <2>4, TypeSplitNext
  <1>3. ServiceOK'
    BY DEF IInv, TypeOK, ServiceOK, Unkeyed, WithVM, Holding, Inside
  <1>4. Unkeyed'
    BY DEF IInv, TypeOK, ServiceOK, Unkeyed, WithVM, Holding, Inside
  <1>5. Stamped'
    BY DEF IInv, TypeOK, ServiceOK, Unkeyed, Stamped, Work, WithVM, Holding, Inside
  <1>6. WorkKeyed'
    BY DEF IInv, TypeOK, ServiceOK, Unkeyed, Stamped, WorkKeyed, KeyInForce, Work, WithVM, Holding, Inside
  <1>7. ResultSound'
    BY DEF IInv, TypeOK, ServiceOK, Unkeyed, Stamped, WorkKeyed, ResultSound, KeyInForce, Work, WithVM, Holding, Inside
  <1>8. RebuildAlone'
    BY HashersFinite DEF IInv, TypeOK, ServiceOK, Unkeyed, Stamped, RebuildAlone, Counted, Hashers, Work, WithVM, Holding, Inside
  <1>9. SharesSound'
    BY DEF IInv, TypeOK, ResultSound, SharesSound
  <1> QED
    BY <1>1, <1>2, <1>3, <1>4, <1>5, <1>6, <1>7, <1>8, <1>9 DEF IInv

\* A thread copies the work.
LEMMA CopyStep ==
    ASSUME NEW t \in Threads, IInv, CopyWork(t)
    PROVE  IInv'
  <1> USE RandomXAssumption, KeyFacts DEF CopyWork, Goto, keyed, feed, service
  <1>1. Counted' /\ g_rx_active_hashers' \in 0 .. Cardinality(Threads)
    BY MoveCounted, HashersFinite DEF IInv, TypeOK, Inside, Counted
  <1>2. TypeOK'
    <2>1. FlagsOK'
      BY DEF IInv, TypeOK, FlagsOK
    <2>2. SharedOK'
      BY <1>1 DEF IInv, TypeOK, SharedOK, Work
    <2>3. ThreadsOK'
      BY DEF IInv, TypeOK, ThreadsOK, Work
    <2>4. SoundOK'
      BY DEF IInv, TypeOK, SoundOK
    <2> QED
      BY <2>1, <2>2, <2>3, <2>4, TypeSplitNext
  <1>3. ServiceOK'
    BY DEF IInv, TypeOK, ServiceOK, Unkeyed, WithVM, Holding, Inside
  <1>4. Unkeyed'
    BY DEF IInv, TypeOK, ServiceOK, Unkeyed, WithVM, Holding, Inside
  <1>5. Stamped'
    BY DEF IInv, TypeOK, ServiceOK, Unkeyed, Stamped, Work, WithVM, Holding, Inside
  <1>6. WorkKeyed'
    BY DEF IInv, TypeOK, ServiceOK, Unkeyed, Stamped, WorkKeyed, KeyInForce, Work, WithVM, Holding, Inside
  <1>7. ResultSound'
    BY DEF IInv, TypeOK, ServiceOK, Unkeyed, Stamped, WorkKeyed, ResultSound, KeyInForce, Work, WithVM, Holding, Inside
  <1>8. RebuildAlone'
    BY HashersFinite DEF IInv, TypeOK, ServiceOK, Unkeyed, Stamped, RebuildAlone, Counted, Hashers, Work, WithVM, Holding, Inside
  <1>9. SharesSound'
    BY DEF IInv, TypeOK, ResultSound, SharesSound
  <1> QED
    BY <1>1, <1>2, <1>3, <1>4, <1>5, <1>6, <1>7, <1>8, <1>9 DEF IInv

\* A thread gets its VM; in benchmark mode the first one applies the key.
LEMMA VmStep ==
    ASSUME NEW t \in Threads, IInv, rx_thread_vm(t)
    PROVE  IInv'
  <1> USE RandomXAssumption, KeyFacts DEF rx_thread_vm, AllocationFails, Goto, Forget, service
  <1>1. Counted' /\ g_rx_active_hashers' \in 0 .. Cardinality(Threads)
    BY MoveCounted, HashersFinite DEF IInv, TypeOK, Inside, Counted
  <1>2. TypeOK'
    <2>1. FlagsOK'
      BY DEF IInv, TypeOK, FlagsOK
    <2>2. SharedOK'
      BY <1>1 DEF IInv, TypeOK, SharedOK, Work
    <2>3. ThreadsOK'
      <3>1. ThreadsOK /\ g_epoch \in Nat /\ NoWork \in Work
        BY DEF IInv, TypeOK, ThreadsOK, Work, NoWork
      <3>2. /\ \/ UNCHANGED g_vm_epoch
               \/ \E e \in {g_epoch, g_epoch + 1} : g_vm_epoch' = [g_vm_epoch EXCEPT ![t] = e]
            /\ \E l \in {"enter", "copy"} : pc' = [pc EXCEPT ![t] = l]
            /\ \/ UNCHANGED work
               \/ work' = [work EXCEPT ![t] = NoWork]
        OBVIOUS
      <3> HIDE DEF rx_thread_vm, AllocationFails, Goto, Forget, service
      <3> QED
        BY <3>1, <3>2 DEF ThreadsOK
    <2>4. SoundOK'
      BY DEF IInv, TypeOK, SoundOK
    <2> QED
      BY <2>1, <2>2, <2>3, <2>4, TypeSplitNext
  <1>3. ServiceOK'
    BY DEF IInv, TypeOK, ServiceOK, Unkeyed, WithVM, Holding, Inside
  <1>4. Unkeyed'
    BY DEF IInv, TypeOK, ServiceOK, Unkeyed, WithVM, Holding, Inside
  <1>5. Stamped'
    BY DEF IInv, TypeOK, ServiceOK, Unkeyed, Stamped, Work, WithVM, Holding, Inside
  <1>6. WorkKeyed'
    BY DEF IInv, TypeOK, ServiceOK, Unkeyed, Stamped, WorkKeyed, KeyInForce, Work, WithVM, Holding, Inside
  <1>7. ResultSound'
    BY DEF IInv, TypeOK, ServiceOK, Unkeyed, Stamped, WorkKeyed, ResultSound, KeyInForce, Work, WithVM, Holding, Inside
  <1>8. RebuildAlone'
    BY HashersFinite DEF IInv, TypeOK, ServiceOK, Unkeyed, Stamped, RebuildAlone, Counted, Hashers, Work, WithVM, Holding, Inside
  <1>9. SharesSound'
    BY DEF IInv, TypeOK, ResultSound, SharesSound
  <1> QED
    BY <1>1, <1>2, <1>3, <1>4, <1>5, <1>6, <1>7, <1>8, <1>9 DEF IInv

\* A thread registers.
LEMMA EnterStep ==
    ASSUME NEW t \in Threads, IInv, Enter(t)
    PROVE  IInv'
  <1> USE RandomXAssumption, KeyFacts DEF Enter, Goto, keyed, feed, service
  <1>1. Counted' /\ g_rx_active_hashers' \in 0 .. Cardinality(Threads)
    <2>1. Goto(t, "check") /\ "check" \in Inside /\ pc[t] \notin Inside
      BY DEF Inside
    <2>2. TypeOK /\ Counted /\ g_rx_active_hashers \in Nat
      BY DEF IInv, TypeOK
    <2> HIDE DEF Goto
    <2> QED
      BY <2>1, <2>2, MoveCounted
  <1>2. TypeOK'
    <2>1. FlagsOK'
      BY DEF IInv, TypeOK, FlagsOK
    <2>2. SharedOK'
      BY <1>1 DEF IInv, TypeOK, SharedOK, Work
    <2>3. ThreadsOK'
      BY DEF IInv, TypeOK, ThreadsOK, Work
    <2>4. SoundOK'
      BY DEF IInv, TypeOK, SoundOK
    <2> QED
      BY <2>1, <2>2, <2>3, <2>4, TypeSplitNext
  <1>3. ServiceOK'
    BY DEF IInv, TypeOK, ServiceOK, Unkeyed, WithVM, Holding, Inside
  <1>4. Unkeyed'
    BY DEF IInv, TypeOK, ServiceOK, Unkeyed, WithVM, Holding, Inside
  <1>5. Stamped'
    BY DEF IInv, TypeOK, ServiceOK, Unkeyed, Stamped, Work, WithVM, Holding, Inside
  <1>6. WorkKeyed'
    BY DEF IInv, TypeOK, ServiceOK, Unkeyed, Stamped, WorkKeyed, KeyInForce, Work, WithVM, Holding, Inside
  <1>7. ResultSound'
    BY DEF IInv, TypeOK, ServiceOK, Unkeyed, Stamped, WorkKeyed, ResultSound, KeyInForce, Work, WithVM, Holding, Inside
  <1>8. RebuildAlone'
    BY HashersFinite DEF IInv, TypeOK, ServiceOK, Unkeyed, Stamped, RebuildAlone, Counted, Hashers, Work, WithVM, Holding, Inside
  <1>9. SharesSound'
    BY DEF IInv, TypeOK, ResultSound, SharesSound
  <1> QED
    BY <1>1, <1>2, <1>3, <1>4, <1>5, <1>6, <1>7, <1>8, <1>9 DEF IInv

\* A registered thread starts a hash only for the current generation.
LEMMA LoopHeadStep ==
    ASSUME NEW t \in Threads, IInv, LoopHead(t)
    PROVE  IInv'
  <1> USE RandomXAssumption, KeyFacts DEF LoopHead, GoesOn, Goto, keyed, feed, service
  <1>1. Counted' /\ g_rx_active_hashers' \in 0 .. Cardinality(Threads)
    BY MoveCounted, HashersFinite DEF IInv, TypeOK, Inside, Counted
  <1>2. TypeOK'
    <2>1. FlagsOK'
      BY DEF IInv, TypeOK, FlagsOK
    <2>2. SharedOK'
      BY <1>1 DEF IInv, TypeOK, SharedOK, Work
    <2>3. ThreadsOK'
      BY DEF IInv, TypeOK, ThreadsOK, Work
    <2>4. SoundOK'
      <3>1. \A b \in BOOLEAN : [sound EXCEPT ![t] = b] \in [Threads -> BOOLEAN]
        BY DEF IInv, TypeOK
      <3>2. (memory = work[t].seed) \in BOOLEAN
        OBVIOUS
      <3> QED
        BY <3>1, <3>2 DEF IInv, TypeOK, SoundOK
    <2> QED
      BY <2>1, <2>2, <2>3, <2>4, TypeSplitNext
  <1>3. ServiceOK'
    BY DEF IInv, TypeOK, ServiceOK, Unkeyed, WithVM, Holding, Inside
  <1>4. Unkeyed'
    BY DEF IInv, TypeOK, ServiceOK, Unkeyed, WithVM, Holding, Inside
  <1>5. Stamped'
    BY DEF IInv, TypeOK, ServiceOK, Unkeyed, Stamped, Work, WithVM, Holding, Inside
  <1>6. WorkKeyed'
    BY DEF IInv, TypeOK, ServiceOK, Unkeyed, Stamped, WorkKeyed, KeyInForce, Work, WithVM, Holding, Inside
  <1>7. ResultSound'
    BY DEF IInv, TypeOK, ServiceOK, Unkeyed, Stamped, WorkKeyed, ResultSound, KeyInForce, Work, WithVM, Holding, Inside
  <1>8. RebuildAlone'
    BY HashersFinite DEF IInv, TypeOK, ServiceOK, Unkeyed, Stamped, RebuildAlone, Counted, Hashers, Work, WithVM, Holding, Inside
  <1>9. SharesSound'
    BY DEF IInv, TypeOK, ResultSound, SharesSound
  <1> QED
    BY <1>1, <1>2, <1>3, <1>4, <1>5, <1>6, <1>7, <1>8, <1>9 DEF IInv

\* A hash ends.
LEMMA HashEndsStep ==
    ASSUME NEW t \in Threads, IInv, HashEnds(t)
    PROVE  IInv'
  <1> USE RandomXAssumption, KeyFacts DEF HashEnds, Goto, keyed, feed, service
  <1>1. Counted' /\ g_rx_active_hashers' \in 0 .. Cardinality(Threads)
    <2>1. PICK l \in {"check", "leave", "leave_share"} : Goto(t, l)
      BY Zenon
    <2>2. l \in Inside /\ pc[t] \in Inside
      BY <2>1 DEF Inside
    <2>3. TypeOK /\ Counted /\ g_rx_active_hashers \in Nat
      BY DEF IInv, TypeOK
    <2> HIDE DEF Goto
    <2> QED
      BY <2>1, <2>2, <2>3, MoveCounted
  <1>2. TypeOK'
    <2>1. FlagsOK'
      BY DEF IInv, TypeOK, FlagsOK
    <2>2. SharedOK'
      BY <1>1 DEF IInv, TypeOK, SharedOK, Work
    <2>3. ThreadsOK'
      BY DEF IInv, TypeOK, ThreadsOK, Work
    <2>4. SoundOK'
      BY DEF IInv, TypeOK, SoundOK
    <2> QED
      BY <2>1, <2>2, <2>3, <2>4, TypeSplitNext
  <1>3. ServiceOK'
    BY DEF IInv, TypeOK, ServiceOK, Unkeyed, WithVM, Holding, Inside
  <1>4. Unkeyed'
    BY DEF IInv, TypeOK, ServiceOK, Unkeyed, WithVM, Holding, Inside
  <1>5. Stamped'
    BY DEF IInv, TypeOK, ServiceOK, Unkeyed, Stamped, Work, WithVM, Holding, Inside
  <1>6. WorkKeyed'
    BY DEF IInv, TypeOK, ServiceOK, Unkeyed, Stamped, WorkKeyed, KeyInForce, Work, WithVM, Holding, Inside
  <1>7. ResultSound'
    BY DEF IInv, TypeOK, ServiceOK, Unkeyed, Stamped, WorkKeyed, ResultSound, KeyInForce, Work, WithVM, Holding, Inside
  <1>8. RebuildAlone'
    BY HashersFinite DEF IInv, TypeOK, ServiceOK, Unkeyed, Stamped, RebuildAlone, Counted, Hashers, Work, WithVM, Holding, Inside
  <1>9. SharesSound'
    BY DEF IInv, TypeOK, ResultSound, SharesSound
  <1> QED
    BY <1>1, <1>2, <1>3, <1>4, <1>5, <1>6, <1>7, <1>8, <1>9 DEF IInv

\* A thread deregisters.
LEMMA LeaveStep ==
    ASSUME NEW t \in Threads, IInv, Leave(t)
    PROVE  IInv'
  <1> USE RandomXAssumption, KeyFacts DEF Leave, Unregister, Goto, Forget, keyed, feed, service
  <1>1. Counted' /\ g_rx_active_hashers' \in 0 .. Cardinality(Threads)
    BY MoveCounted, HashersFinite DEF IInv, TypeOK, Inside, Counted
  <1>2. TypeOK'
    <2>1. FlagsOK'
      BY DEF IInv, TypeOK, FlagsOK
    <2>2. SharedOK'
      BY <1>1 DEF IInv, TypeOK, SharedOK, Work
    <2>3. ThreadsOK'
      <3>1. pc' \in [Threads -> {"off", "copy", "vm", "enter", "check", "hash", "leave",
                                "leave_share", "submit", "done"}]
        BY DEF IInv, TypeOK
      <3>2. work' \in [Threads -> Work]
        BY DEF IInv, TypeOK
      <3> QED
        BY <3>1, <3>2 DEF IInv, TypeOK, ThreadsOK
    <2>4. SoundOK'
      BY DEF IInv, TypeOK, SoundOK
    <2> QED
      BY <2>1, <2>2, <2>3, <2>4, TypeSplitNext
  <1>3. ServiceOK'
    BY DEF IInv, TypeOK, ServiceOK, Unkeyed, WithVM, Holding, Inside
  <1>4. Unkeyed'
    BY DEF IInv, TypeOK, ServiceOK, Unkeyed, WithVM, Holding, Inside
  <1>5. Stamped'
    BY DEF IInv, TypeOK, ServiceOK, Unkeyed, Stamped, Work, WithVM, Holding, Inside
  <1>6. WorkKeyed'
    BY DEF IInv, TypeOK, ServiceOK, Unkeyed, Stamped, WorkKeyed, KeyInForce, Work, WithVM, Holding, Inside
  <1>7. ResultSound'
    BY DEF IInv, TypeOK, ServiceOK, Unkeyed, Stamped, WorkKeyed, ResultSound, KeyInForce, Work, WithVM, Holding, Inside
  <1>8. RebuildAlone'
    BY HashersFinite DEF IInv, TypeOK, ServiceOK, Unkeyed, Stamped, RebuildAlone, Counted, Hashers, Work, WithVM, Holding, Inside
  <1>9. SharesSound'
    BY DEF IInv, TypeOK, ResultSound, SharesSound
  <1> QED
    BY <1>1, <1>2, <1>3, <1>4, <1>5, <1>6, <1>7, <1>8, <1>9 DEF IInv

\* A share of the current generation is sent.
LEMMA SubmitStep ==
    ASSUME NEW t \in Threads, IInv, submit_ready_share(t)
    PROVE  IInv'
  <1> USE RandomXAssumption, KeyFacts DEF submit_ready_share, StillCurrent, Goto, Forget, keyed, feed, service
  <1>1. Counted' /\ g_rx_active_hashers' \in 0 .. Cardinality(Threads)
    <2>1. Goto(t, "copy") /\ "copy" \notin Inside /\ pc[t] \notin Inside
      BY DEF Inside
    <2>2. TypeOK /\ Counted /\ g_rx_active_hashers \in Nat
      BY DEF IInv, TypeOK
    <2> HIDE DEF Goto
    <2> QED
      BY <2>1, <2>2, MoveCounted
  <1>2. TypeOK'
    <2>1. FlagsOK'
      BY DEF IInv, TypeOK, FlagsOK
    <2>2. SharedOK'
      BY <1>1 DEF IInv, TypeOK, SharedOK, Work
    <2>3. ThreadsOK'
      BY DEF IInv, TypeOK, ThreadsOK, Work
    <2>4. SoundOK'
      BY DEF IInv, TypeOK, SoundOK
    <2> QED
      BY <2>1, <2>2, <2>3, <2>4, TypeSplitNext
  <1>3. ServiceOK'
    BY DEF IInv, TypeOK, ServiceOK, Unkeyed, WithVM, Holding, Inside
  <1>4. Unkeyed'
    BY DEF IInv, TypeOK, ServiceOK, Unkeyed, WithVM, Holding, Inside
  <1>5. Stamped'
    BY DEF IInv, TypeOK, ServiceOK, Unkeyed, Stamped, Work, WithVM, Holding, Inside
  <1>6. WorkKeyed'
    BY DEF IInv, TypeOK, ServiceOK, Unkeyed, Stamped, WorkKeyed, KeyInForce, Work, WithVM, Holding, Inside
  <1>7. ResultSound'
    BY DEF IInv, TypeOK, ServiceOK, Unkeyed, Stamped, WorkKeyed, ResultSound, KeyInForce, Work, WithVM, Holding, Inside
  <1>8. RebuildAlone'
    BY HashersFinite DEF IInv, TypeOK, ServiceOK, Unkeyed, Stamped, RebuildAlone, Counted, Hashers, Work, WithVM, Holding, Inside
  <1>9. SharesSound'
    BY DEF IInv, TypeOK, ResultSound, SharesSound
  <1> QED
    BY <1>1, <1>2, <1>3, <1>4, <1>5, <1>6, <1>7, <1>8, <1>9 DEF IInv

LEMMA InvInductive == IInv /\ [Next]_vars => IInv'
  <1> SUFFICES ASSUME IInv, [Next]_vars PROVE IInv'
    OBVIOUS
  <1>1. CASE UNCHANGED vars
    <2> USE <1>1 DEF vars, keyed, feed, service, locals
    <2>1. Counted'
      BY DEF IInv, Counted, Hashers
    <2>2. TypeOK'
      BY DEF IInv, TypeOK
    <2>3. ServiceOK' /\ Unkeyed' /\ Stamped'
      BY DEF IInv, ServiceOK, Unkeyed, Stamped
    <2>4. WorkKeyed' /\ ResultSound' /\ RebuildAlone' /\ SharesSound'
      BY DEF IInv, WorkKeyed, KeyInForce, ResultSound, RebuildAlone, SharesSound
    <2> QED
      BY <2>1, <2>2, <2>3, <2>4 DEF IInv
  <1>2. ASSUME NEW t \in Threads, miner_thread(t) PROVE IInv'
    BY <1>2, CopyStep, VmStep, EnterStep, LoopHeadStep, HashEndsStep, LeaveStep, SubmitStep
       DEF miner_thread, scanhash_randomx
  <1>3. CASE ServiceStep
    BY <1>3, SetSeedStep, DrainStep, RebuildStartStep, RebuildEndStep, CommitStep,
       ServiceStopsStep DEF ServiceStep
  <1> QED
    BY <1>1, <1>2, <1>3, InitRuntimeStep, CleanupStep, AbortStep, JobStep, ResetStep DEF Next

-----------------------------------------------------------------------------
(* Theorems. *)

THEOREM Invariance == Spec => []IInv
  BY InitInv, InvInductive, PTL DEF Spec

\* While the dataset is written no thread hashes, unless the bounded drain
\* gave up on one.
THEOREM RebuildAloneCorrect == Spec => []RebuildAlone
  <1>1. IInv => RebuildAlone
    BY DEF IInv
  <1> QED
    BY <1>1, Invariance, PTL

\* A hash in flight for the current generation reads the key of its job.
THEOREM HashesKeyedCorrect == Spec => []HashesKeyed
  <1>1. IInv => HashesKeyed
    BY DEF IInv, ResultSound, HashesKeyed
  <1> QED
    BY <1>1, Invariance, PTL

\* No share computed on another key or on torn memory reaches the pool, even
\* if the drain gave up.
THEOREM SharesSoundCorrect == Spec => []SharesSound
  <1>1. IInv => SharesSound
    BY DEF IInv
  <1> QED
    BY <1>1, Invariance, PTL
=============================================================================
