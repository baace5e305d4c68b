----------------------------- MODULE ShareSubmit -----------------------------
(***************************************************************************)
(* The path of a share from a miner thread to the counters: the checks of  *)
(* submit_ready_share (miner.cpp), the pending-submit table keyed by       *)
(* JSON-RPC id (stratum_rpc.cpp), the pool's reply, and the statistics     *)
(* (stratum_state.cpp); against it runs the service thread, whose          *)
(* stratum_disconnect tears the session down in four separately locked     *)
(* steps while miner threads are anywhere in between.                      *)
(*                                                                         *)
(* The choice of the next pool is left open: PoolService models it.        *)
(***************************************************************************)
EXTENDS Integers, FiniteSets

CONSTANTS
    Threads,              \* miner threads
    UserPools, DevPools,  \* DevPools holds the dev-fee slot, or is empty
    MAX_PENDING_SUBMITS,  \* slots of a pool's pending-submit table
    NoSubmit,             \* an unused slot
    MaxConn,              \* bound: connections made
    MaxPublish,           \* bound: jobs published
    MaxShares             \* bound: shares found

ASSUME ShareSubmitAssumption ==
    /\ Threads # {}
    /\ UserPools # {}
    /\ UserPools \cap DevPools = {}
    /\ MAX_PENDING_SUBMITS \in Nat \ {0}
    /\ MaxConn \in Nat /\ MaxPublish \in Nat /\ MaxShares \in Nat

Pools   == UserPools \cup DevPools
Slots   == 1 .. MAX_PENDING_SUBMITS
Shares  == 1 .. MaxShares
FirstId == 10           \* smaller ids belong to the handshake

\* What a miner thread keeps of a published job; conn (history) is the
\* connection the job came from.
Work == [pool : Pools, gen : Nat, conn : Nat]

\* An entry of pending_submits.  expired: queued for the pool timeout or
\* longer.  share and born are history: the share, and the number of table
\* resets before its id was drawn.
Pending == [id : Nat, thread : Threads, expired : BOOLEAN, share : Shares, born : Nat]

ASSUME NoSubmitAssumption == NoSubmit \notin Pending

\* A result that was counted (history).
Result == [share : Shares, pool : Pools, thread : Threads, ok : BOOLEAN]

\* The submission a thread is working on: the id it drew, and the same
\* history.
Attempt == [id : Nat, share : Shares \cup {0}, born : Nat]
NoAttempt == [id |-> 0, share |-> 0, born |-> 0]

ThreadLabels == {"idle", "scan", "check", "auth", "id", "reserve",
                 "request_send", "shut_send", "request_drop", "shut_drop",
                 "send", "release"}

VARIABLES
    \* service thread and session
    svc,                  \* where the service thread is
    cur,                  \* its pool
    conn,                 \* connections made so far
    sock,                 \* pools with an open socket
    lost,                 \* the open socket was shut down
    authenticated,        \* pools whose flag is set
    reconnect_requested,  \* pools whose flag is set
    \* published work
    generation, work_ready, current_work, published,
    \* per-pool submit tables
    pending, next_submit_id,
    wire,                 \* submits the pool received on this connection
    \* miner threads
    pc, work, attempt,
    \* statistics
    pool_results, share_total, thread_results,
    \* history
    found, credits, tally

session == <<svc, cur, conn, sock, lost, authenticated, reconnect_requested>>
works   == <<generation, work_ready, current_work, published>>
tables  == <<pending, next_submit_id, wire>>
miners  == <<pc, work, attempt>>
stats   == <<pool_results, share_total, thread_results>>
history == <<found, credits, tally>>
vars == <<session, works, tables, miners, stats, history>>

SvcLabels == {"down", "handshake", "session", "close", "reset_work",
              "reset_runtime", "clear_auth"}

TypeOK ==
    /\ svc \in SvcLabels
    /\ cur \in Pools
    /\ conn \in Nat
    /\ sock \subseteq Pools
    /\ lost \in BOOLEAN
    /\ authenticated \subseteq Pools
    /\ reconnect_requested \subseteq Pools
    /\ generation \in Nat
    /\ work_ready \in BOOLEAN
    /\ current_work \in Work
    /\ published \in Nat
    /\ pending \in [Pools -> [Slots -> Pending \cup {NoSubmit}]]
    /\ next_submit_id \in [Pools -> {n \in Nat : n >= FirstId}]
    /\ wire \subseteq [id : Nat, share : Shares, born : Nat]
    /\ pc \in [Threads -> ThreadLabels]
    /\ work \in [Threads -> Work]
    /\ attempt \in [Threads -> Attempt]
    /\ pool_results \in [Pools -> [BOOLEAN -> Nat]]
    /\ share_total \in [BOOLEAN -> Nat]
    /\ thread_results \in [Threads -> [BOOLEAN -> Nat]]
    /\ found \in 0 .. MaxShares
    /\ credits \in [Shares -> Nat]
    /\ tally \subseteq Result

\* The lowest slot of pool p's table that satisfies Test: the for loops over
\* pending_submits stop at the first match.
IsFirst(s, S) == s \in S /\ \A x \in S : s <= x

\* Table resets so far: every connection ends with one.
Resets == IF svc \in {"down", "clear_auth"} THEN conn ELSE conn - 1

UsedWithId(p, id) ==
    {s \in Slots : pending[p][s] # NoSubmit /\ pending[p][s].id = id}

-----------------------------------------------------------------------------
(* The service thread. *)

\* stratum_connect, possibly after a switch to another pool.
stratum_connect(p) ==
    /\ svc = "down"
    /\ conn < MaxConn
    /\ cur' = p
    /\ conn' = conn + 1
    /\ sock' = sock \cup {p}
    /\ lost' = FALSE
    /\ svc' = "handshake"
    /\ UNCHANGED <<authenticated, reconnect_requested, works, tables, miners,
                   stats, history>>

\* The authorize (or login) reply arrives.
stratum_set_authenticated ==
    /\ svc = "handshake" /\ ~lost
    /\ authenticated' = authenticated \cup {cur}
    /\ svc' = "session"
    /\ UNCHANGED <<cur, conn, sock, lost, reconnect_requested, works, tables,
                   miners, stats, history>>

\* A job is published; it may arrive during the handshake.  A clean job, a
\* new height or target, or the first job after a reset bumps the generation.
stratum_publish_work(restart) ==
    /\ svc \in {"handshake", "session"}
    /\ published < MaxPublish
    /\ ~work_ready => restart
    /\ generation' = IF restart THEN generation + 1 ELSE generation
    /\ current_work' = [pool |-> cur, gen |-> generation', conn |-> conn]
    /\ work_ready' = TRUE
    /\ published' = published + 1
    /\ UNCHANGED <<session, tables, miners, stats, history>>

\* The handshake fails or the message loop ends, for whatever reason.
LeaveSession ==
    /\ svc \in {"handshake", "session"}
    /\ svc' = "close"
    /\ UNCHANGED <<cur, conn, sock, lost, authenticated, reconnect_requested, works,
                   tables, miners, stats, history>>

\* stratum_disconnect, step 1: close the transport (stratum_sock_lock).
stratum_close_transport ==
    /\ svc = "close"
    /\ sock' = sock \ {cur}
    /\ lost' = FALSE
    /\ wire' = {}
    /\ svc' = "reset_work"
    /\ UNCHANGED <<cur, conn, authenticated, reconnect_requested, works, pending,
                   next_submit_id, miners, stats, history>>

\* Bug: the generation is left alone.
ResetWithoutBump ==
    /\ svc = "reset_work"
    /\ work_ready' = FALSE
    /\ svc' = "reset_runtime"
    /\ UNCHANGED <<cur, conn, sock, lost, authenticated, reconnect_requested, generation,
                   current_work, published, tables, miners, stats, history>>

\* Step 2: withdraw the published work and bump the generation
\* (stratum_work_lock).
stratum_reset_work_state ==
    /\ svc = "reset_work"
    /\ work_ready' = FALSE
    /\ generation' = generation + 1
    /\ svc' = "reset_runtime"
    /\ UNCHANGED <<cur, conn, sock, lost, authenticated, reconnect_requested,
                   current_work, published, tables, miners, stats, history>>

\* Bug: the id counter is zeroed with the rest of the table.
ResetZeroesIds ==
    /\ svc = "reset_runtime"
    /\ pending' = [pending EXCEPT ![cur] = [s \in Slots |-> NoSubmit]]
    /\ next_submit_id' = [next_submit_id EXCEPT ![cur] = 0]
    /\ svc' = "clear_auth"
    /\ UNCHANGED <<cur, conn, sock, lost, authenticated, reconnect_requested, works,
                   wire, miners, stats, history>>

\* Step 3: forget the pending submits and restart the ids (submit_lock).
stratum_reset_session_runtime ==
    /\ svc = "reset_runtime"
    /\ pending' = [pending EXCEPT ![cur] = [s \in Slots |-> NoSubmit]]
    /\ next_submit_id' = [next_submit_id EXCEPT ![cur] = FirstId]
    /\ svc' = "clear_auth"
    /\ UNCHANGED <<cur, conn, sock, lost, authenticated, reconnect_requested, works,
                   wire, miners, stats, history>>

\* Step 4: clear the authenticated flag.  A user pool's reconnect request is
\* then consumed, except at a slice boundary; the dev slot's never is.
ClearAuthenticated ==
    /\ svc = "clear_auth"
    /\ authenticated' = authenticated \ {cur}
    /\ \/ /\ cur \in UserPools
          /\ reconnect_requested' = reconnect_requested \ {cur}
       \/ UNCHANGED reconnect_requested
    /\ svc' = "down"
    /\ UNCHANGED <<cur, conn, sock, lost, works, tables, miners, stats, history>>

\* Bug: dev-fee results enter the user's totals.
RecordEverything(p, t, ok) ==
    /\ pool_results' = [pool_results EXCEPT ![p][ok] = @ + 1]
    /\ share_total' = [share_total EXCEPT ![ok] = @ + 1]
    /\ thread_results' = [thread_results EXCEPT ![t][ok] = @ + 1]

\* stratum_update_share_stats and miner_record_thread_share_result.
RecordResult(p, t, ok) ==
    /\ pool_results' = [pool_results EXCEPT ![p][ok] = @ + 1]
    /\ IF p \in DevPools
       THEN UNCHANGED <<share_total, thread_results>>
       ELSE /\ share_total' = [share_total EXCEPT ![ok] = @ + 1]
            /\ thread_results' = [thread_results EXCEPT ![t][ok] = @ + 1]

\* Bug: the entry stays in use.
TakeKeepsEntry(p, s) == UNCHANGED pending

\* submit_id_take_metadata: the first entry with the id is freed.
submit_id_take_metadata(p, s) ==
    pending' = [pending EXCEPT ![p][s] = NoSubmit]

\* A reply arrives for a submit the pool has received; the pool may send the
\* same reply again.  Without a matching entry it is dropped.
stratum_handle_submit_response(m, ok, again) ==
    LET matches == UsedWithId(cur, m.id)
    IN  /\ svc \in {"handshake", "session"}
        /\ m \in wire
        /\ wire' = IF again THEN wire ELSE wire \ {m}
        /\ \/ /\ matches = {}
              /\ UNCHANGED <<pending, stats, credits, tally>>
           \/ \E s \in matches :
                /\ IsFirst(s, matches)
                /\ submit_id_take_metadata(cur, s)
                /\ RecordResult(cur, pending[cur][s].thread, ok)
                /\ credits' = [credits EXCEPT ![pending[cur][s].share] = @ + 1]
                /\ tally' = tally \cup {[share |-> pending[cur][s].share, pool |-> cur,
                                         thread |-> pending[cur][s].thread, ok |-> ok]}
        /\ UNCHANGED <<session, works, next_submit_id, miners, found>>

-----------------------------------------------------------------------------
(* A miner thread. *)

\* Thread t goes on to label; at "idle" its submission is over.
Goto(t, label) ==
    /\ pc' = [pc EXCEPT ![t] = label]
    /\ attempt' = IF label = "idle" THEN [attempt EXCEPT ![t] = NoAttempt] ELSE attempt

\* stratum_copy_work at the top of the mining loop; without published work
\* the thread sleeps and tries again.
stratum_copy_work(t) ==
    /\ pc[t] \in {"idle", "scan"}
    /\ work' = IF work_ready THEN [work EXCEPT ![t] = current_work] ELSE work
    /\ Goto(t, IF work_ready THEN "scan" ELSE "idle")
    /\ UNCHANGED <<session, works, tables, stats, history>>

\* The scan finds a share.
FindShare(t) ==
    /\ pc[t] = "scan"
    /\ found < MaxShares
    /\ found' = found + 1
    /\ pc' = [pc EXCEPT ![t] = "check"]
    /\ attempt' = [attempt EXCEPT ![t].share = found + 1]
    /\ UNCHANGED <<session, works, tables, work, stats, credits, tally>>

\* submit_ready_share: drop a share of an expired generation ...
CheckGeneration(t) ==
    /\ pc[t] = "check"
    /\ Goto(t, IF work[t].gen # generation THEN "idle" ELSE "auth")
    /\ UNCHANGED <<session, works, tables, work, stats, history>>

\* ... or of a pool that is not authenticated.
CheckAuthenticated(t) ==
    /\ pc[t] = "auth"
    /\ Goto(t, IF work[t].pool \in authenticated THEN "id" ELSE "idle")
    /\ UNCHANGED <<session, works, tables, work, stats, history>>

\* Bug: the id is read and not advanced.
IdNotAdvanced(t) ==
    /\ pc[t] = "id"
    /\ attempt' = [attempt EXCEPT ![t].id = next_submit_id[work[t].pool], ![t].born = Resets]
    /\ pc' = [pc EXCEPT ![t] = "reserve"]
    /\ UNCHANGED <<session, works, tables, work, stats, history>>

stratum_submit_id_next(t) ==
    LET p == work[t].pool
    IN  /\ pc[t] = "id"
        /\ attempt' = [attempt EXCEPT ![t].id = next_submit_id[p], ![t].born = Resets]
        /\ next_submit_id' = [next_submit_id EXCEPT ![p] = @ + 1]
        /\ pc' = [pc EXCEPT ![t] = "reserve"]
        /\ UNCHANGED <<session, works, pending, wire, work, stats, history>>

\* submit_id_reserve: reap what has expired, then take the first free slot.
\* Having reaped, or finding no slot, leads to a reconnect request.
submit_id_reserve(t) ==
    LET p      == work[t].pool
        Stale  == {s \in Slots : pending[p][s] # NoSubmit /\ pending[p][s].expired}
        kept   == [s \in Slots |-> IF s \in Stale THEN NoSubmit ELSE pending[p][s]]
        free   == {s \in Slots : kept[s] = NoSubmit}
        entry  == [id |-> attempt[t].id, thread |-> t, expired |-> FALSE,
                   share |-> attempt[t].share, born |-> attempt[t].born]
    IN  /\ pc[t] = "reserve"
        /\ \/ /\ free = {}
              /\ pending' = [pending EXCEPT ![p] = kept]
              /\ Goto(t, "request_drop")
           \/ \E s \in free :
                /\ IsFirst(s, free)
                /\ pending' = [pending EXCEPT ![p] = [kept EXCEPT ![s] = entry]]
                /\ Goto(t, IF Stale # {} THEN "request_send" ELSE "send")
        /\ UNCHANGED <<session, works, next_submit_id, wire, work, stats, history>>

\* submit_id_request_reconnect: raise the flag; whoever raised it goes on to
\* shut the pool's socket down.
submit_id_request_reconnect(t) ==
    /\ pc[t] \in {"request_send", "request_drop"}
    /\ reconnect_requested' = reconnect_requested \cup {work[t].pool}
    /\ Goto(t, IF work[t].pool \in reconnect_requested
               THEN IF pc[t] = "request_send" THEN "send" ELSE "idle"
               ELSE IF pc[t] = "request_send" THEN "shut_send" ELSE "shut_drop")
    /\ UNCHANGED <<svc, cur, conn, sock, lost, authenticated, works, tables, work, stats, history>>

stratum_request_shutdown(t) ==
    /\ pc[t] \in {"shut_send", "shut_drop"}
    /\ lost' = (lost \/ work[t].pool \in sock)
    /\ Goto(t, IF pc[t] = "shut_send" THEN "send" ELSE "idle")
    /\ UNCHANGED <<svc, cur, conn, sock, authenticated, reconnect_requested, works,
                   tables, work, stats, history>>

\* stratum_send_line succeeds on whatever connection the pool has by now ...
SendLineOk(t) ==
    /\ pc[t] = "send"
    /\ work[t].pool \in sock /\ ~lost
    /\ wire' = wire \cup {attempt[t]}
    /\ Goto(t, "idle")
    /\ UNCHANGED <<session, works, pending, next_submit_id, work, stats, history>>

\* ... or fails,
SendLineFail(t) ==
    /\ pc[t] = "send"
    /\ Goto(t, "release")
    /\ UNCHANGED <<session, works, tables, work, stats, history>>

\* Bug: after a failed send the share is reserved once more.
ReleaseRetries(t) ==
    LET p       == work[t].pool
        matches == UsedWithId(p, attempt[t].id)
    IN  /\ pc[t] = "release"
        /\ pending' = [pending EXCEPT ![p] = [s \in Slots |->
                          IF s \in matches THEN NoSubmit ELSE pending[p][s]]]
        /\ Goto(t, "reserve")
        /\ UNCHANGED <<session, works, next_submit_id, wire, work, stats, history>>

\* and submit_id_release frees the first entry that has the id.
submit_id_release(t) ==
    LET p       == work[t].pool
        matches == UsedWithId(p, attempt[t].id)
    IN  /\ pc[t] = "release"
        /\ \/ matches = {} /\ UNCHANGED pending
           \/ \E s \in matches :
                /\ IsFirst(s, matches)
                /\ pending' = [pending EXCEPT ![p][s] = NoSubmit]
        /\ Goto(t, "idle")
        /\ UNCHANGED <<session, works, next_submit_id, wire, work, stats, history>>

-----------------------------------------------------------------------------
\* An entry has been queued for the pool timeout.
Expire(p, s) ==
    /\ pending[p][s] # NoSubmit
    /\ ~pending[p][s].expired
    /\ pending' = [pending EXCEPT ![p][s].expired = TRUE]
    /\ UNCHANGED <<session, works, next_submit_id, wire, miners, stats, history>>

-----------------------------------------------------------------------------
AnyWork == [pool |-> CHOOSE p \in Pools : TRUE, gen |-> 0, conn |-> 0]

Init ==
    /\ svc = "down"
    /\ cur \in UserPools
    /\ conn = 0
    /\ sock = {}
    /\ lost = FALSE
    /\ authenticated = {}
    /\ reconnect_requested = {}
    /\ generation = 0
    /\ work_ready = FALSE
    /\ current_work = AnyWork
    /\ published = 0
    /\ pending = [p \in Pools |-> [s \in Slots |-> NoSubmit]]
    /\ next_submit_id = [p \in Pools |-> FirstId]
    /\ wire = {}
    /\ pc = [t \in Threads |-> "idle"]
    /\ work = [t \in Threads |-> AnyWork]
    /\ attempt = [t \in Threads |-> NoAttempt]
    /\ pool_results = [p \in Pools |-> [ok \in BOOLEAN |-> 0]]
    /\ share_total = [ok \in BOOLEAN |-> 0]
    /\ thread_results = [t \in Threads |-> [ok \in BOOLEAN |-> 0]]
    /\ found = 0
    /\ credits = [x \in Shares |-> 0]
    /\ tally = {}

Service ==
    \/ \E p \in Pools : stratum_connect(p)
    \/ stratum_set_authenticated
    \/ \E restart \in BOOLEAN : stratum_publish_work(restart)
    \/ LeaveSession
    \/ stratum_close_transport
    \/ stratum_reset_work_state
    \/ stratum_reset_session_runtime
    \/ ClearAuthenticated
    \/ \E m \in wire, ok, again \in BOOLEAN : stratum_handle_submit_response(m, ok, again)

Miner(t) ==
    \/ stratum_copy_work(t) \/ FindShare(t)
    \/ CheckGeneration(t) \/ CheckAuthenticated(t)
    \/ stratum_submit_id_next(t) \/ submit_id_reserve(t)
    \/ submit_id_request_reconnect(t) \/ stratum_request_shutdown(t)
    \/ SendLineOk(t) \/ SendLineFail(t) \/ submit_id_release(t)

Next ==
    \/ Service
    \/ \E t \in Threads : Miner(t)
    \/ \E p \in Pools, s \in Slots : Expire(p, s)

Spec == Init /\ [][Next]_vars

-----------------------------------------------------------------------------
(* Properties. *)

\* A share is counted at most once, accepted or rejected, however often the
\* pool repeats its reply and however ids are reused across reconnects.
CreditedOnce == \A x \in Shares : credits[x] <= 1

\* The results ok that were counted for the pools P and the threads T.
Counted(ok, P, T) == {r \in tally : r.ok = ok /\ r.pool \in P /\ r.thread \in T}

\* Every counter is the number of results that were counted for it: a pool's
\* counters of its own results, a thread's and the totals of those for user
\* pools.  So the totals are the sum of the user pools' counters and of the
\* threads' counters, and results of the dev-fee slot are in neither.
TotalsExcludeDevFee ==
    \A ok \in BOOLEAN :
        /\ \A p \in Pools : pool_results[p][ok] = Cardinality(Counted(ok, {p}, Threads))
        /\ \A t \in Threads : thread_results[t][ok] = Cardinality(Counted(ok, UserPools, {t}))
        /\ share_total[ok] = Cardinality(Counted(ok, UserPools, Threads))

\* The generation check of submit_ready_share is sound: a share that passes
\* it was found for work of the connection that is the latest one, and that
\* connection has not yet gone through stratum_reset_work_state.
PassedCheckIsCurrent ==
    [][\A t \in Threads :
          pc[t] = "check" /\ pc'[t] = "auth" =>
              /\ work[t].conn = conn
              /\ svc \in {"handshake", "session", "close", "reset_work"}]_vars

\* A reply finds the share it is about: of the ids drawn since the table was
\* last reset, no two are alike, so an entry with the id of a submit the pool
\* has received belongs to that submit, through reaping, slot reuse and
\* failed sends.
ReplyFindsItsShare ==
    \A m \in wire, s \in Slots :
        LET e == pending[cur][s]
        IN  e # NoSubmit /\ e.id = m.id /\ e.born = m.born => e.share = m.share

-----------------------------------------------------------------------------
(* The abstract specification. *)

\* Labels at which a thread holds a share that it has not entered in the
\* table.
Unreserved == {"check", "auth", "id", "reserve"}

HeldShares ==
    {e \in Shares \X Pools : \E t \in Threads :
        pc[t] \in Unreserved /\ attempt[t].share = e[1] /\ work[t].pool = e[2]}

OutstandingShares ==
    {e \in Shares \X Pools : \E s \in Slots :
        pending[e[2]][s] # NoSubmit /\ pending[e[2]][s].share = e[1]}

CountedShares == {x \in Shares : credits[x] > 0}

Ledger == INSTANCE ShareLedger
    WITH held <- HeldShares, outstanding <- OutstandingShares, counted <- CountedShares

\* With ids drawn, reused and repeated, tables reaped and cleared, sends that
\* fail and sessions torn down between any two steps of a thread, every share
\* goes the way of the ledger: found, held, outstanding, counted, never twice
\* and for no other pool than the one it was found for.
KeepsLedger == Ledger!Spec
=============================================================================
