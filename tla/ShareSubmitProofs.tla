-------------------------- MODULE ShareSubmitProofs --------------------------
(***************************************************************************)
(* Safety of the submit path for any number of threads, pools, pending     *)
(* slots, connections and shares.                                          *)
(***************************************************************************)
EXTENDS ShareSubmit, FiniteSetTheorems, TLAPS

-----------------------------------------------------------------------------
(* The inductive invariant. *)

Live == {"handshake", "session", "close", "reset_work"}

\* Labels at which a thread holds an id.
Drawn      == {"reserve", "request_send", "shut_send", "request_drop", "shut_drop",
               "send", "release"}

\* Only the pool of the session has a socket, and only an open socket has
\* received submits.
SessionOK ==
    /\ svc # "down" => conn >= 1
    /\ sock \subseteq {cur}
    /\ svc \notin {"handshake", "session", "close"} => sock = {} /\ wire = {}

\* Work of the current generation belongs to the latest connection, before
\* the withdrawal of its work.
WorkOK ==
    /\ current_work.gen <= generation
    /\ \A t \in Threads : work[t].gen <= generation
    /\ work_ready => current_work.conn = conn /\ svc \in Live
    /\ \A t \in Threads :
          pc[t] # "idle" /\ work[t].gen = generation => work[t].conn = conn /\ svc \in Live

Used(p, s) == pending[p][s] # NoSubmit

\* A share is in at most one place until it is counted.
SharesOK ==
    /\ \A x \in Shares : credits[x] <= 1 /\ (x > found => credits[x] = 0)
    /\ \A t \in Threads : pc[t] \notin {"idle", "scan"} => attempt[t].share \in 1 .. found
    /\ \A p \in Pools, s \in Slots : Used(p, s) =>
          /\ pending[p][s].share <= found
          /\ credits[pending[p][s].share] = 0
    /\ \A p, q \in Pools, s, r \in Slots :
          Used(p, s) /\ Used(q, r) /\ pending[p][s].share = pending[q][r].share
             => p = q /\ s = r
    /\ \A t \in Threads : pc[t] \in Unreserved =>
          /\ credits[attempt[t].share] = 0
          /\ \A p \in Pools, s \in Slots : Used(p, s) => pending[p][s].share # attempt[t].share
    /\ \A t, u \in Threads :
          pc[t] \in Unreserved /\ pc[u] \in Unreserved /\ t # u
             => attempt[t].share # attempt[u].share

\* The submissions of pool p that carry an id: in a thread's hands, in the
\* table, or received by the pool.
Tag(e) == [id |-> e.id, share |-> e.share, born |-> e.born]
Holders(p) ==
    {attempt[t] : t \in {u \in Threads : pc[u] \in Drawn /\ work[u].pool = p}}
      \cup {Tag(pending[p][s]) : s \in {r \in Slots : Used(p, r)}}
      \cup {m \in wire : cur = p}

\* Ids drawn since the last reset are below the counter, and an id drawn in
\* one such period belongs to one share.
IdsOK ==
    \A p \in Pools :
        /\ \A a \in Holders(p) :
              a.born <= Resets /\ (a.born = Resets => a.id < next_submit_id[p])
        /\ \A a, b \in Holders(p) :
              a.id = b.id /\ a.born = b.born => a.share = b.share

IInv == TypeOK /\ SessionOK /\ WorkOK /\ SharesOK /\ IdsOK

-----------------------------------------------------------------------------
LEMMA InitInv == Init => IInv
  <1> SUFFICES ASSUME Init PROVE IInv
    OBVIOUS
  <1> USE DEF Init
  <1>1. AnyWork \in Work /\ NoAttempt \in Attempt
    <2>1. (CHOOSE p \in Pools : TRUE) \in Pools
      BY ShareSubmitAssumption DEF Pools
    <2> QED
      BY <2>1 DEF AnyWork, Work, NoAttempt, Attempt
  <1>2. TypeOK
    <2>1. pending \in [Pools -> [Slots -> Pending \cup {NoSubmit}]]
      OBVIOUS
    <2>2. next_submit_id \in [Pools -> {n \in Nat : n >= FirstId}]
      BY DEF FirstId
    <2>3. /\ pc \in [Threads -> ThreadLabels] /\ work \in [Threads -> Work]
          /\ attempt \in [Threads -> Attempt]
      BY <1>1 DEF ThreadLabels
    <2>4. /\ pool_results \in [Pools -> [BOOLEAN -> Nat]] /\ share_total \in [BOOLEAN -> Nat]
          /\ thread_results \in [Threads -> [BOOLEAN -> Nat]] /\ credits \in [Shares -> Nat]
      OBVIOUS
    <2>5. found \in 0 .. MaxShares /\ cur \in Pools
      BY ShareSubmitAssumption DEF Pools
    <2> QED
      BY <1>1, <2>1, <2>2, <2>3, <2>4, <2>5 DEF TypeOK, SvcLabels
  <1>3. SessionOK
    BY DEF SessionOK
  <1>4. WorkOK
    BY DEF WorkOK, AnyWork
  <1>5. SharesOK
    BY DEF SharesOK, Used, Unreserved
  <1>6. IdsOK
    <2>1. \A p \in Pools : Holders(p) = {}
      BY DEF Holders, Used, Drawn
    <2> QED
      BY <2>1 DEF IdsOK
  <1> QED
    BY <1>2, <1>3, <1>4, <1>5, <1>6 DEF IInv

-----------------------------------------------------------------------------
(* Types. *)

LEMMA ResetsType == TypeOK /\ SessionOK => Resets \in Nat
  BY DEF TypeOK, SessionOK, Resets

LEMMA GotoType ==
    ASSUME TypeOK, NEW t \in Threads, NEW label \in ThreadLabels, Goto(t, label)
    PROVE  pc' \in [Threads -> ThreadLabels] /\ attempt' \in [Threads -> Attempt]
  BY DEF Goto, TypeOK, NoAttempt, Attempt

LEMMA ServiceType == TypeOK /\ SessionOK /\ Service => TypeOK'
  <1> SUFFICES ASSUME TypeOK, SessionOK, Service PROVE TypeOK'
    OBVIOUS
  <1> USE DEF TypeOK, session, works, tables, miners, stats, history, SvcLabels
  <1>1. ASSUME NEW p \in Pools, stratum_connect(p) PROVE TypeOK'
    <2>1. sock' \subseteq Pools /\ conn' \in Nat /\ lost' = FALSE /\ svc' \in SvcLabels
      BY <1>1 DEF stratum_connect
    <2> QED
      BY <1>1, <2>1 DEF stratum_connect
  <1>2. CASE stratum_set_authenticated
    <2>1. authenticated' \subseteq Pools /\ svc' \in SvcLabels
      BY <1>2 DEF stratum_set_authenticated
    <2> QED
      BY <1>2, <2>1 DEF stratum_set_authenticated
  <1>3. ASSUME NEW restart \in BOOLEAN, stratum_publish_work(restart) PROVE TypeOK'
    <2>1. generation' \in Nat /\ published' \in Nat
      BY <1>3 DEF stratum_publish_work
    <2>2. current_work' \in Work
      BY <1>3, <2>1 DEF stratum_publish_work, Work
    <2> QED
      BY <1>3, <2>1, <2>2 DEF stratum_publish_work
  <1>4. CASE LeaveSession
    BY <1>4 DEF LeaveSession
  <1>5. CASE stratum_close_transport
    <2>1. sock' \subseteq Pools /\ wire' = {} /\ lost' = FALSE /\ svc' \in SvcLabels
      BY <1>5 DEF stratum_close_transport
    <2> QED
      BY <1>5, <2>1 DEF stratum_close_transport
  <1>6. CASE stratum_reset_work_state
    <2>1. generation' \in Nat /\ work_ready' = FALSE /\ svc' \in SvcLabels
      BY <1>6 DEF stratum_reset_work_state
    <2> QED
      BY <1>6, <2>1 DEF stratum_reset_work_state
  <1>7. CASE stratum_reset_session_runtime
    <2>1. pending' \in [Pools -> [Slots -> Pending \cup {NoSubmit}]]
      BY <1>7 DEF stratum_reset_session_runtime
    <2>2. next_submit_id' \in [Pools -> {n \in Nat : n >= FirstId}]
      BY <1>7 DEF stratum_reset_session_runtime, FirstId
    <2> QED
      BY <1>7, <2>1, <2>2 DEF stratum_reset_session_runtime
  <1>8. CASE ClearAuthenticated
    BY <1>8 DEF ClearAuthenticated
  <1>9. ASSUME NEW m \in wire, NEW ok \in BOOLEAN, NEW again \in BOOLEAN,
               stratum_handle_submit_response(m, ok, again)
        PROVE  TypeOK'
    <2> DEFINE matches == UsedWithId(cur, m.id)
    <2>1. wire' \subseteq wire
      BY <1>9 DEF stratum_handle_submit_response
    <2>2. CASE UNCHANGED <<pending, stats, credits, tally>>
      BY <1>9, <2>1, <2>2 DEF stratum_handle_submit_response
    <2>3. ASSUME NEW s \in matches,
                 submit_id_take_metadata(cur, s),
                 RecordResult(cur, pending[cur][s].thread, ok),
                 credits' = [credits EXCEPT ![pending[cur][s].share] = @ + 1],
                 tally' = tally \cup {[share |-> pending[cur][s].share, pool |-> cur,
                                       thread |-> pending[cur][s].thread, ok |-> ok]}
          PROVE  TypeOK'
      <3>1. s \in Slots /\ pending[cur][s] \in Pending
        BY DEF UsedWithId
      <3>2. pending[cur][s].thread \in Threads /\ pending[cur][s].share \in Shares
        BY <3>1 DEF Pending
      <3>3. pending' \in [Pools -> [Slots -> Pending \cup {NoSubmit}]]
        BY <2>3, <3>1 DEF submit_id_take_metadata
      <3>4. credits' \in [Shares -> Nat]
        BY <2>3, <3>2
      <3>5. pool_results' \in [Pools -> [BOOLEAN -> Nat]]
        BY <2>3 DEF RecordResult
      <3>6. share_total' \in [BOOLEAN -> Nat] /\ thread_results' \in [Threads -> [BOOLEAN -> Nat]]
        <4>1. CASE cur \in DevPools
          BY <2>3, <4>1 DEF RecordResult
        <4>2. CASE cur \notin DevPools
          <5>1. /\ share_total' = [share_total EXCEPT ![ok] = @ + 1]
                /\ thread_results' = [thread_results EXCEPT ![pending[cur][s].thread][ok] = @ + 1]
            BY <2>3, <4>2 DEF RecordResult
          <5> QED
            BY <3>2, <5>1
        <4> QED
          BY <4>1, <4>2
      <3>7. tally' \subseteq Result
        BY <2>3, <3>2 DEF Result
      <3> QED
        BY <1>9, <2>1, <3>3, <3>4, <3>5, <3>6, <3>7 DEF stratum_handle_submit_response
    <2> QED
      BY <1>9, <2>2, <2>3 DEF stratum_handle_submit_response
  <1> QED
    BY <1>1, <1>2, <1>3, <1>4, <1>5, <1>6, <1>7, <1>8, <1>9 DEF Service

LEMMA HeldShare ==
    ASSUME TypeOK, SharesOK, NEW t \in Threads, pc[t] \notin {"idle", "scan"}
    PROVE  attempt[t].share \in Shares
  <1>1. attempt[t].share \in 1 .. found
    BY DEF SharesOK
  <1>2. found \in 0 .. MaxShares
    BY DEF TypeOK
  <1> QED
    BY <1>1, <1>2, ShareSubmitAssumption DEF Shares

\* There is a number left for the share that is found.
LEMMA FoundNext ==
    ASSUME found \in 0 .. MaxShares, found < MaxShares
    PROVE  found + 1 \in Shares /\ found + 1 \in 0 .. MaxShares /\ found \in Nat
  BY ShareSubmitAssumption DEF Shares

\* A step of a miner thread leaves the session and the statistics alone but
\* for the reconnect flag and the shutdown.
LEMMA MinerType ==
    ASSUME TypeOK, SessionOK, SharesOK, NEW t \in Threads, Miner(t)
    PROVE  TypeOK'
  <1> USE DEF TypeOK, session, works, tables, miners, stats, history, ThreadLabels
  <1>0. pc[t] \in ThreadLabels /\ work[t].pool \in Pools
    BY DEF Work
  <1>1. CASE stratum_copy_work(t)
    <2>1. work' \in [Threads -> Work]
      BY <1>1 DEF stratum_copy_work
    <2> QED
      BY <1>1, <2>1, GotoType DEF stratum_copy_work
  <1>2. CASE FindShare(t)
    <2>1. found + 1 \in Shares /\ found + 1 \in 0 .. MaxShares
      BY <1>2, FoundNext, Zenon DEF FindShare
    <2>2. attempt' \in [Threads -> Attempt]
      BY <1>2, <2>1 DEF FindShare, Attempt
    <2>3. pc' \in [Threads -> ThreadLabels] /\ found' \in 0 .. MaxShares
      BY <1>2, <2>1 DEF FindShare
    <2> QED
      BY <1>2, <2>2, <2>3 DEF FindShare
  <1>3. CASE CheckGeneration(t)
    BY <1>3, GotoType DEF CheckGeneration
  <1>4. CASE CheckAuthenticated(t)
    BY <1>4, GotoType DEF CheckAuthenticated
  <1>5. CASE stratum_submit_id_next(t)
    <2>1. Resets \in Nat
      BY ResetsType
    <2>2. next_submit_id[work[t].pool] \in Nat
      BY <1>0
    <2>3. attempt' \in [Threads -> Attempt]
      <3> HIDE DEF TypeOK, session, works, tables, miners, stats, history
      <3>1. attempt \in [Threads -> Attempt]
        BY DEF TypeOK
      <3>2. attempt' = [attempt EXCEPT ![t].id = next_submit_id[work[t].pool], ![t].born = Resets]
        BY <1>5 DEF stratum_submit_id_next
      <3> QED
        BY <2>1, <2>2, <3>1, <3>2 DEF Attempt
    <2>4. next_submit_id' \in [Pools -> {n \in Nat : n >= FirstId}]
      BY <1>0, <1>5 DEF stratum_submit_id_next, FirstId
    <2>5. pc' \in [Threads -> ThreadLabels]
      BY <1>5 DEF stratum_submit_id_next
    <2> QED
      BY <1>5, <2>3, <2>4, <2>5 DEF stratum_submit_id_next
  <1>6. CASE submit_id_reserve(t)
    <2> DEFINE p == work[t].pool
               Stale == {s \in Slots : pending[p][s] # NoSubmit /\ pending[p][s].expired}
               kept  == [s \in Slots |-> IF s \in Stale THEN NoSubmit ELSE pending[p][s]]
               free  == {s \in Slots : kept[s] = NoSubmit}
               entry == [id |-> attempt[t].id, thread |-> t, expired |-> FALSE,
                         share |-> attempt[t].share, born |-> attempt[t].born]
    <2>1. kept \in [Slots -> Pending \cup {NoSubmit}]
      BY <1>0
    <2>2. entry \in Pending
      <3>1. attempt[t].share \in Shares
        <4>1. pc[t] = "reserve"
          BY <1>6 DEF submit_id_reserve
        <4> QED
          BY <4>1, HeldShare
      <3>2. attempt[t].id \in Nat /\ attempt[t].born \in Nat
        BY DEF Attempt
      <3> QED
        BY <3>1, <3>2 DEF Pending
    <2>3. \/ pending' = [pending EXCEPT ![p] = kept]
          \/ \E s \in free : pending' = [pending EXCEPT ![p] = [kept EXCEPT ![s] = entry]]
      BY <1>6 DEF submit_id_reserve
    <2> HIDE DEF kept, entry
    <2>4. pending' \in [Pools -> [Slots -> Pending \cup {NoSubmit}]]
      <3>1. CASE pending' = [pending EXCEPT ![p] = kept]
        BY <2>1, <3>1
      <3>2. ASSUME NEW s \in free, pending' = [pending EXCEPT ![p] = [kept EXCEPT ![s] = entry]]
            PROVE  pending' \in [Pools -> [Slots -> Pending \cup {NoSubmit}]]
        <4>1. [kept EXCEPT ![s] = entry] \in [Slots -> Pending \cup {NoSubmit}]
          BY <2>1, <2>2
        <4> QED
          BY <3>2, <4>1
      <3> QED
        BY <2>3, <3>1, <3>2
    <2>5. pc' \in [Threads -> ThreadLabels] /\ attempt' \in [Threads -> Attempt]
      BY <1>6, GotoType DEF submit_id_reserve
    <2> QED
      BY <1>6, <2>4, <2>5 DEF submit_id_reserve
  <1>7. CASE submit_id_request_reconnect(t)
    <2>1. reconnect_requested' \subseteq Pools
      BY <1>0, <1>7 DEF submit_id_request_reconnect
    <2>2. pc' \in [Threads -> ThreadLabels] /\ attempt' \in [Threads -> Attempt]
      BY <1>7, GotoType DEF submit_id_request_reconnect
    <2> QED
      BY <1>7, <2>1, <2>2 DEF submit_id_request_reconnect
  <1>8. CASE stratum_request_shutdown(t)
    <2>1. lost' \in BOOLEAN
      BY <1>8 DEF stratum_request_shutdown
    <2>2. pc' \in [Threads -> ThreadLabels] /\ attempt' \in [Threads -> Attempt]
      BY <1>8, GotoType DEF stratum_request_shutdown
    <2> QED
      BY <1>8, <2>1, <2>2 DEF stratum_request_shutdown
  <1>9. CASE SendLineOk(t)
    <2>1. attempt[t] \in [id : Nat, share : Shares, born : Nat]
      <3>1. attempt[t].share \in Shares
        <4>1. pc[t] = "send"
          BY <1>9 DEF SendLineOk
        <4> QED
          BY <4>1, HeldShare
      <3> QED
        BY <3>1 DEF Attempt
    <2>3. wire' \subseteq [id : Nat, share : Shares, born : Nat]
      BY <1>9, <2>1 DEF SendLineOk
    <2>4. pc' \in [Threads -> ThreadLabels] /\ attempt' \in [Threads -> Attempt]
      BY <1>9, GotoType DEF SendLineOk
    <2> QED
      BY <1>9, <2>3, <2>4 DEF SendLineOk
  <1>10. CASE SendLineFail(t)
    BY <1>10, GotoType DEF SendLineFail
  <1>11. CASE submit_id_release(t)
    <2>1. pending' \in [Pools -> [Slots -> Pending \cup {NoSubmit}]]
      <3>1. ASSUME NEW s \in Slots, pending' = [pending EXCEPT ![work[t].pool][s] = NoSubmit]
            PROVE  pending' \in [Pools -> [Slots -> Pending \cup {NoSubmit}]]
        BY <1>0, <3>1
      <3> QED
        BY <1>11, <3>1 DEF submit_id_release, UsedWithId
    <2>2. pc' \in [Threads -> ThreadLabels] /\ attempt' \in [Threads -> Attempt]
      BY <1>11, GotoType DEF submit_id_release
    <2> QED
      BY <1>11, <2>1, <2>2 DEF submit_id_release
  <1> QED
    BY <1>1, <1>2, <1>3, <1>4, <1>5, <1>6, <1>7, <1>8, <1>9, <1>10, <1>11 DEF Miner

LEMMA ExpireType ==
    ASSUME TypeOK, NEW p \in Pools, NEW s \in Slots, Expire(p, s)
    PROVE  TypeOK'
  <1>1. pending[p][s] \in Pending
    BY DEF Expire, TypeOK
  <1>2. [pending[p][s] EXCEPT !.expired = TRUE] \in Pending
    BY <1>1 DEF Pending
  <1>3. pending' = [pending EXCEPT ![p] = [pending[p] EXCEPT
                      ![s] = [pending[p][s] EXCEPT !.expired = TRUE]]]
    BY DEF Expire, TypeOK
  <1>4. pending' \in [Pools -> [Slots -> Pending \cup {NoSubmit}]]
    BY <1>2, <1>3 DEF TypeOK
  <1> QED
    BY <1>4 DEF Expire, TypeOK, session, works, miners, stats, history

LEMMA NextType == TypeOK /\ SessionOK /\ SharesOK /\ Next => TypeOK'
  BY ServiceType, MinerType, ExpireType DEF Next

-----------------------------------------------------------------------------
(* The session. *)

\* What the steps of miner threads, and the clock, leave alone.
LEMMA MinerFrame ==
    ASSUME NEW t \in Threads, Miner(t)
    PROVE  /\ UNCHANGED <<svc, cur, conn, sock, authenticated>>
           /\ UNCHANGED <<generation, work_ready, current_work>>
           /\ UNCHANGED credits
  BY DEF Miner, stratum_copy_work, FindShare, CheckGeneration, CheckAuthenticated,
         stratum_submit_id_next, submit_id_reserve, submit_id_request_reconnect,
         stratum_request_shutdown, SendLineOk, SendLineFail, submit_id_release,
         session, works, history

LEMMA SessionStep == TypeOK /\ SessionOK /\ Next => SessionOK'
  <1> SUFFICES ASSUME TypeOK, SessionOK, Next PROVE SessionOK'
    OBVIOUS
  <1> USE DEF SessionOK
  <1>1. CASE Service
    BY <1>1 DEF TypeOK, SvcLabels, Service, stratum_connect, stratum_set_authenticated,
           stratum_publish_work, LeaveSession, stratum_close_transport, stratum_reset_work_state,
           stratum_reset_session_runtime, ClearAuthenticated, stratum_handle_submit_response,
           session, tables
  <1>2. ASSUME NEW t \in Threads, Miner(t) PROVE SessionOK'
    <2>1. CASE SendLineOk(t)
      <3>1. sock # {}
        BY <2>1 DEF SendLineOk
      <3> QED
        BY <1>2, <3>1, MinerFrame
    <2>2. CASE ~SendLineOk(t)
      <3>1. wire' = wire
        BY <1>2, <2>2 DEF Miner, stratum_copy_work, FindShare, CheckGeneration, CheckAuthenticated,
               stratum_submit_id_next, submit_id_reserve, submit_id_request_reconnect,
               stratum_request_shutdown, SendLineFail, submit_id_release, tables
      <3> QED
        BY <1>2, <3>1, MinerFrame
    <2> QED
      BY <2>1, <2>2
  <1>3. ASSUME NEW p \in Pools, NEW s \in Slots, Expire(p, s) PROVE SessionOK'
    BY <1>3 DEF Expire, session
  <1> QED
    BY <1>1, <1>2, <1>3 DEF Next

-----------------------------------------------------------------------------
(* Generations. *)

LEMMA WorkStep == TypeOK /\ WorkOK /\ Next => WorkOK'
  <1> SUFFICES ASSUME TypeOK, WorkOK, Next PROVE WorkOK'
    OBVIOUS
  <1>0. /\ generation \in Nat /\ conn \in Nat /\ current_work \in Work
        /\ work \in [Threads -> Work] /\ pc \in [Threads -> ThreadLabels]
        /\ current_work.gen \in Nat /\ \A t \in Threads : work[t].gen \in Nat
    BY DEF TypeOK, Work
  <1>1. ASSUME UNCHANGED <<generation, work_ready, current_work, work, pc>>,
               UNCHANGED conn, svc \in Live => svc' \in Live
        PROVE  WorkOK'
    BY <1>1 DEF WorkOK
  <1>2. CASE Service
    <2>1. ASSUME NEW p \in Pools, stratum_connect(p) PROVE WorkOK'
      BY <2>1 DEF stratum_connect, WorkOK, Live, works, miners
    <2>2. ASSUME NEW restart \in BOOLEAN, stratum_publish_work(restart) PROVE WorkOK'
      <3>1. /\ generation' \in {generation, generation + 1} /\ current_work'.gen = generation'
            /\ current_work'.conn = conn /\ svc \in Live
            /\ UNCHANGED <<svc, conn, work, pc>>
        BY <2>2 DEF stratum_publish_work, Live, session, miners
      <3> QED
        BY <1>0, <3>1 DEF WorkOK
    <2>3. CASE stratum_reset_work_state
      <3>1. generation' = generation + 1 /\ work_ready' = FALSE /\ UNCHANGED <<current_work, work, pc>>
        BY <2>3 DEF stratum_reset_work_state, miners
      <3> QED
        BY <1>0, <3>1 DEF WorkOK
    <2>4. CASE \/ stratum_set_authenticated \/ LeaveSession \/ stratum_close_transport
               \/ stratum_reset_session_runtime \/ ClearAuthenticated
      <3>1. /\ UNCHANGED <<generation, work_ready, current_work, work, pc>> /\ UNCHANGED conn
            /\ svc \in Live => svc' \in Live
        BY <2>4 DEF stratum_set_authenticated, LeaveSession, stratum_close_transport,
               stratum_reset_session_runtime, ClearAuthenticated, works, miners, Live
      <3> QED
        BY <1>1, <3>1
    <2>5. ASSUME NEW m \in wire, NEW ok \in BOOLEAN, NEW again \in BOOLEAN,
                 stratum_handle_submit_response(m, ok, again)
          PROVE  WorkOK'
      BY <1>1, <2>5 DEF stratum_handle_submit_response, session, works, miners
    <2> QED
      BY <1>2, <2>1, <2>2, <2>3, <2>4, <2>5 DEF Service
  <1>3. ASSUME NEW t \in Threads, Miner(t) PROVE WorkOK'
    <2>1. UNCHANGED <<svc, conn, generation, work_ready, current_work>>
      BY <1>3, MinerFrame
    <2>2. CASE stratum_copy_work(t)
      <3>1. CASE work_ready
        <4>1. work' = [work EXCEPT ![t] = current_work] /\ pc' = [pc EXCEPT ![t] = "scan"]
          BY <2>2, <3>1 DEF stratum_copy_work, Goto
        <4> QED
          BY <1>0, <2>1, <3>1, <4>1 DEF WorkOK
      <3>2. CASE ~work_ready
        <4>1. work' = work /\ pc' = [pc EXCEPT ![t] = "idle"]
          BY <2>2, <3>2 DEF stratum_copy_work, Goto
        <4> QED
          BY <1>0, <2>1, <3>2, <4>1 DEF WorkOK
      <3> QED
        BY <3>1, <3>2
    <2>3. CASE ~stratum_copy_work(t)
      <3>1. work' = work /\ pc[t] # "idle" /\ \E label \in ThreadLabels : pc' = [pc EXCEPT ![t] = label]
        BY <1>3, <2>3 DEF Miner, FindShare, CheckGeneration, CheckAuthenticated,
               stratum_submit_id_next, submit_id_reserve, submit_id_request_reconnect,
               stratum_request_shutdown, SendLineOk, SendLineFail, submit_id_release, Goto,
               ThreadLabels
      <3> QED
        BY <1>0, <2>1, <3>1 DEF WorkOK
    <2> QED
      BY <2>2, <2>3
  <1>4. ASSUME NEW p \in Pools, NEW s \in Slots, Expire(p, s) PROVE WorkOK'
    BY <1>1, <1>4 DEF Expire, session, works, miners
  <1> QED
    BY <1>2, <1>3, <1>4 DEF Next

-----------------------------------------------------------------------------
(* Shares. *)

\* Entries that are in use after the step were in use before it, for the same
\* submission.
TablesShrink ==
    \A p \in Pools, s \in Slots :
        pending'[p][s] # NoSubmit =>
            /\ Used(p, s)
            /\ pending'[p][s].id = pending[p][s].id
            /\ pending'[p][s].share = pending[p][s].share
            /\ pending'[p][s].born = pending[p][s].born

\* No thread comes to hold a share.
ThreadsKeep ==
    \A t \in Threads :
        /\ pc'[t] \notin {"idle", "scan"} =>
              pc[t] \notin {"idle", "scan"} /\ attempt'[t].share = attempt[t].share
        /\ pc'[t] \in Unreserved => pc[t] \in Unreserved

LEMMA SharesKept ==
    ASSUME TypeOK, SharesOK, TablesShrink, ThreadsKeep, UNCHANGED <<found, credits>>
    PROVE  SharesOK'
  <1> USE DEF SharesOK, Used
  <1>1. (\A x \in Shares : credits[x] <= 1 /\ (x > found => credits[x] = 0))'
    OBVIOUS
  <1>2. (\A t \in Threads : pc[t] \notin {"idle", "scan"} => attempt[t].share \in 1 .. found)'
    BY DEF ThreadsKeep
  <1>3. (\A p \in Pools, s \in Slots : Used(p, s) =>
            pending[p][s].share <= found /\ credits[pending[p][s].share] = 0)'
    BY DEF TablesShrink
  <1>4. (\A p, q \in Pools, s, r \in Slots :
            Used(p, s) /\ Used(q, r) /\ pending[p][s].share = pending[q][r].share
               => p = q /\ s = r)'
    BY DEF TablesShrink
  <1>5. (\A t \in Threads : pc[t] \in Unreserved =>
            /\ credits[attempt[t].share] = 0
            /\ \A p \in Pools, s \in Slots : Used(p, s) => pending[p][s].share # attempt[t].share)'
    BY DEF TablesShrink, ThreadsKeep, Unreserved
  <1>6. (\A t, u \in Threads :
            pc[t] \in Unreserved /\ pc[u] \in Unreserved /\ t # u
               => attempt[t].share # attempt[u].share)'
    BY DEF ThreadsKeep, Unreserved
  <1> QED
    BY <1>1, <1>2, <1>3, <1>4, <1>5, <1>6

LEMMA ExpireShrinks ==
    ASSUME TypeOK, NEW p \in Pools, NEW s \in Slots, Expire(p, s)
    PROVE  TablesShrink
  <1>1. pending' = [pending EXCEPT ![p] = [pending[p] EXCEPT
                      ![s] = [pending[p][s] EXCEPT !.expired = TRUE]]]
    BY DEF Expire, TypeOK
  <1>2. /\ pending \in [Pools -> [Slots -> Pending \cup {NoSubmit}]] /\ Used(p, s)
        /\ pending[p][s] \in Pending
    BY DEF Expire, TypeOK, Used
  <1>3. LET e == [pending[p][s] EXCEPT !.expired = TRUE]
        IN  /\ e.id = pending[p][s].id /\ e.share = pending[p][s].share /\ e.born = pending[p][s].born
    BY <1>2 DEF Pending
  <1> HIDE DEF Used
  <1> SUFFICES ASSUME NEW q \in Pools, NEW r \in Slots, pending'[q][r] # NoSubmit
               PROVE  /\ Used(q, r)
                      /\ pending'[q][r].id = pending[q][r].id
                      /\ pending'[q][r].share = pending[q][r].share
                      /\ pending'[q][r].born = pending[q][r].born
    BY DEF TablesShrink
  <1>4. CASE q = p /\ r = s
    <2>1. pending'[q][r] = [pending[p][s] EXCEPT !.expired = TRUE]
      BY <1>1, <1>2, <1>4
    <2> QED
      BY <1>2, <1>3, <1>4, <2>1
  <1>5. CASE ~(q = p /\ r = s)
    <2>1. pending'[q][r] = pending[q][r]
      BY <1>1, <1>2, <1>5
    <2> QED
      BY <2>1 DEF Used
  <1> QED
    BY <1>4, <1>5

\* Freeing one entry.
LEMMA FreeShrinks ==
    ASSUME TypeOK, NEW p \in Pools, NEW s \in Slots,
           pending' = [pending EXCEPT ![p][s] = NoSubmit]
    PROVE  /\ TablesShrink
           /\ \A q \in Pools, r \in Slots :
                 pending'[q][r] = IF q = p /\ r = s THEN NoSubmit ELSE pending[q][r]
  <1>1. \A q \in Pools, r \in Slots :
           pending'[q][r] = IF q = p /\ r = s THEN NoSubmit ELSE pending[q][r]
    BY DEF TypeOK
  <1> QED
    BY <1>1 DEF TablesShrink, Used

\* Service steps other than a reply.
LEMMA QuietService ==
    ASSUME TypeOK,
           \/ \E p \in Pools : stratum_connect(p)
           \/ stratum_set_authenticated
           \/ \E restart \in BOOLEAN : stratum_publish_work(restart)
           \/ LeaveSession \/ stratum_close_transport \/ stratum_reset_work_state
           \/ stratum_reset_session_runtime \/ ClearAuthenticated
    PROVE  TablesShrink /\ ThreadsKeep /\ UNCHANGED <<found, credits, pc, work, attempt>>
  <1>1. UNCHANGED <<found, credits, pc, work, attempt>>
    BY DEF stratum_connect, stratum_set_authenticated, stratum_publish_work, LeaveSession,
           stratum_close_transport, stratum_reset_work_state, stratum_reset_session_runtime,
           ClearAuthenticated, miners, history
  <1>2. \/ pending' = pending
        \/ pending' = [pending EXCEPT ![cur] = [s \in Slots |-> NoSubmit]]
    BY DEF stratum_connect, stratum_set_authenticated, stratum_publish_work, LeaveSession,
           stratum_close_transport, stratum_reset_work_state, stratum_reset_session_runtime,
           ClearAuthenticated, tables
  <1>3. TablesShrink
    BY <1>2 DEF TablesShrink, Used, TypeOK
  <1>4. ThreadsKeep
    BY <1>1 DEF ThreadsKeep
  <1> QED
    BY <1>1, <1>3, <1>4

\* Miner steps that neither find nor reserve.
LEMMA QuietMiner ==
    ASSUME TypeOK, NEW t \in Threads, Miner(t), ~FindShare(t), ~submit_id_reserve(t)
    PROVE  TablesShrink /\ ThreadsKeep /\ UNCHANGED <<found, credits>>
  <1>1. UNCHANGED <<found, credits>>
    BY DEF Miner, stratum_copy_work, CheckGeneration, CheckAuthenticated,
           stratum_submit_id_next, submit_id_request_reconnect,
           stratum_request_shutdown, SendLineOk, SendLineFail, submit_id_release, history
  <1>2. TablesShrink
    <2>1. CASE submit_id_release(t)
      <3>1. work[t].pool \in Pools
        BY DEF TypeOK, Work
      <3>2. \/ pending' = pending
            \/ \E s \in Slots : pending' = [pending EXCEPT ![work[t].pool][s] = NoSubmit]
        BY <2>1 DEF submit_id_release, UsedWithId
      <3>3. CASE pending' = pending
        BY <3>3 DEF TablesShrink, Used
      <3> QED
        BY <3>1, <3>2, <3>3, FreeShrinks
    <2>2. CASE ~submit_id_release(t)
      <3>1. pending' = pending
        BY <2>2 DEF Miner, stratum_copy_work, CheckGeneration, CheckAuthenticated,
               stratum_submit_id_next, submit_id_request_reconnect,
               stratum_request_shutdown, SendLineOk, SendLineFail, tables
      <3> QED
        BY <3>1 DEF TablesShrink, Used
    <2> QED
      BY <2>1, <2>2
  <1>3. ThreadsKeep
    <2>1. CASE stratum_submit_id_next(t)
      <3>1. /\ pc[t] = "id" /\ pc' = [pc EXCEPT ![t] = "reserve"]
            /\ \A u \in Threads : attempt'[u].share = attempt[u].share
        BY <2>1 DEF stratum_submit_id_next, TypeOK, Attempt
      <3> QED
        BY <3>1 DEF ThreadsKeep, Unreserved, TypeOK
    <2>2. CASE ~stratum_submit_id_next(t)
      <3>1. \E label \in ThreadLabels :
               /\ Goto(t, label)
               /\ label \notin {"idle", "scan"} => pc[t] \notin {"idle", "scan"}
               /\ label \in Unreserved => pc[t] \in Unreserved
        BY <2>2 DEF Miner, stratum_copy_work, CheckGeneration, CheckAuthenticated,
               submit_id_request_reconnect, stratum_request_shutdown, SendLineOk,
               SendLineFail, submit_id_release, ThreadLabels, Unreserved
      <3>2. PICK label \in ThreadLabels :
               /\ Goto(t, label)
               /\ label \notin {"idle", "scan"} => pc[t] \notin {"idle", "scan"}
               /\ label \in Unreserved => pc[t] \in Unreserved
        BY <3>1
      <3>3. /\ pc' = [pc EXCEPT ![t] = label]
            /\ label # "idle" => attempt' = attempt
            /\ \A u \in Threads \ {t} : attempt'[u] = attempt[u]
        BY <3>2 DEF Goto, TypeOK
      <3> QED
        BY <3>2, <3>3 DEF ThreadsKeep, TypeOK
    <2> QED
      BY <2>1, <2>2
  <1> QED
    BY <1>1, <1>2, <1>3

\* A share that is found is a new one.
LEMMA FindShares ==
    ASSUME TypeOK, SharesOK, NEW t \in Threads, FindShare(t)
    PROVE  SharesOK'
  <1>1. /\ pc[t] = "scan" /\ found' = found + 1 /\ pc' = [pc EXCEPT ![t] = "check"]
        /\ UNCHANGED <<pending, credits>>
    BY DEF FindShare, tables
  <1>2. /\ attempt'[t].share = found + 1
        /\ \A u \in Threads \ {t} : attempt'[u] = attempt[u]
    BY DEF FindShare, TypeOK, Attempt
  <1>3. found \in Nat /\ pc \in [Threads -> ThreadLabels] /\ found + 1 \in Shares
    <2>1. found \in 0 .. MaxShares /\ found < MaxShares /\ pc \in [Threads -> ThreadLabels]
      BY DEF TypeOK, FindShare
    <2> QED
      BY <2>1, FoundNext
  <1>4. \A p \in Pools, s \in Slots : Used(p, s) => pending[p][s].share \in Shares
    BY DEF TypeOK, Used, Pending
  <1>5. Shares \subseteq Nat
    BY DEF Shares
  <1> USE DEF SharesOK, Used
  <1>6. (\A x \in Shares : credits[x] <= 1 /\ (x > found => credits[x] = 0))'
    <2>1. \A x \in Shares : credits[x] <= 1 /\ (x > found => credits[x] = 0)
      OBVIOUS
    <2> SUFFICES ASSUME NEW x \in Shares
                 PROVE  credits'[x] <= 1 /\ (x > found' => credits'[x] = 0)
      OBVIOUS
    <2>2. x > found + 1 => x > found
      BY <1>3, <1>5
    <2> QED
      BY <1>1, <2>1, <2>2
  <1>7. (\A u \in Threads : pc[u] \notin {"idle", "scan"} => attempt[u].share \in 1 .. found)'
    <2> SUFFICES ASSUME NEW u \in Threads, pc'[u] \notin {"idle", "scan"}
                 PROVE  attempt'[u].share \in 1 .. found'
      OBVIOUS
    <2>1. CASE u = t
      BY <1>1, <1>2, <1>3, <2>1
    <2>2. CASE u # t
      <3>1. attempt[u].share \in 1 .. found /\ attempt'[u] = attempt[u]
        BY <1>1, <1>2, <1>3, <2>2
      <3> QED
        BY <1>1, <1>3, <3>1
    <2> QED
      BY <2>1, <2>2
  <1>8. (\A p \in Pools, s \in Slots : Used(p, s) =>
            pending[p][s].share <= found /\ credits[pending[p][s].share] = 0)'
    <2>1. \A p \in Pools, s \in Slots : pending[p][s] # NoSubmit =>
             pending[p][s].share <= found /\ credits[pending[p][s].share] = 0
      OBVIOUS
    <2>2. \A p \in Pools, s \in Slots : pending[p][s] # NoSubmit => pending[p][s].share <= found'
      BY <1>1, <1>3, <1>4, <1>5, <2>1
    <2> QED
      BY <1>1, <2>1, <2>2
  <1>9. (\A p, q \in Pools, s, r \in Slots :
            Used(p, s) /\ Used(q, r) /\ pending[p][s].share = pending[q][r].share
               => p = q /\ s = r)'
    BY <1>1
  <1>10. (\A u \in Threads : pc[u] \in Unreserved =>
            /\ credits[attempt[u].share] = 0
            /\ \A p \in Pools, s \in Slots : Used(p, s) => pending[p][s].share # attempt[u].share)'
    <2> SUFFICES ASSUME NEW u \in Threads, pc'[u] \in Unreserved
                 PROVE  /\ credits'[attempt'[u].share] = 0
                        /\ \A p \in Pools, s \in Slots :
                              pending'[p][s] # NoSubmit => pending'[p][s].share # attempt'[u].share
      OBVIOUS
    <2>1. CASE u = t
      <3>1. credits[found + 1] = 0
        BY <1>3
      <3>2. \A p \in Pools, s \in Slots : pending[p][s] # NoSubmit => pending[p][s].share # found + 1
        BY <1>3, <1>4, <1>5
      <3> QED
        BY <1>1, <1>2, <2>1, <3>1, <3>2
    <2>2. CASE u # t
      BY <1>1, <1>2, <1>3, <2>2
    <2> QED
      BY <2>1, <2>2
  <1>11. (\A u, v \in Threads :
            pc[u] \in Unreserved /\ pc[v] \in Unreserved /\ u # v
               => attempt[u].share # attempt[v].share)'
    <2>1. \A u \in Threads \ {t} : pc'[u] \in Unreserved =>
             pc[u] \in Unreserved /\ attempt'[u] = attempt[u] /\ attempt[u].share # found + 1
      <3> SUFFICES ASSUME NEW u \in Threads \ {t}, pc'[u] \in Unreserved
                   PROVE  attempt[u].share # found + 1 /\ pc[u] \in Unreserved
        BY <1>2
      <3>1. pc[u] \in Unreserved
        BY <1>1, <1>3
      <3>2. attempt[u].share \in 1 .. found
        BY <3>1 DEF Unreserved
      <3> QED
        BY <1>3, <3>1, <3>2
    <2> QED
      BY <1>2, <2>1
  <1> QED
    BY <1>6, <1>7, <1>8, <1>9, <1>10, <1>11

\* What a reservation does to the table: entries are reaped, and one slot may
\* take the thread's submission.
LEMMA ReserveTable ==
    ASSUME TypeOK, SharesOK, NEW t \in Threads, submit_id_reserve(t)
    PROVE  \/ TablesShrink
           \/ \E s \in Slots :
                 /\ pending'[work[t].pool][s].id = attempt[t].id
                 /\ pending'[work[t].pool][s].share = attempt[t].share
                 /\ pending'[work[t].pool][s].born = attempt[t].born
                 /\ \A q \in Pools, r \in Slots :
                       ~(q = work[t].pool /\ r = s) /\ pending'[q][r] # NoSubmit =>
                           Used(q, r) /\ pending'[q][r] = pending[q][r]
  <1> DEFINE p == work[t].pool
             Stale == {s \in Slots : pending[p][s] # NoSubmit /\ pending[p][s].expired}
             kept  == [s \in Slots |-> IF s \in Stale THEN NoSubmit ELSE pending[p][s]]
             free  == {s \in Slots : kept[s] = NoSubmit}
             entry == [id |-> attempt[t].id, thread |-> t, expired |-> FALSE,
                       share |-> attempt[t].share, born |-> attempt[t].born]
  <1>1. p \in Pools /\ pending \in [Pools -> [Slots -> Pending \cup {NoSubmit}]]
    BY DEF TypeOK, Work
  <1>2. \A r \in Slots : kept[r] # NoSubmit => Used(p, r) /\ kept[r] = pending[p][r]
    BY DEF Used
  <1>3. \/ pending' = [pending EXCEPT ![p] = kept]
        \/ \E s \in free : pending' = [pending EXCEPT ![p] = [kept EXCEPT ![s] = entry]]
    BY DEF submit_id_reserve
  <1>4. CASE pending' = [pending EXCEPT ![p] = kept]
    <2>1. \A q \in Pools, r \in Slots :
             pending'[q][r] # NoSubmit => Used(q, r) /\ pending'[q][r] = pending[q][r]
      <3> HIDE DEF kept
      <3> QED
        BY <1>1, <1>2, <1>4 DEF Used
    <2> QED
      BY <2>1 DEF TablesShrink
  <1>5. ASSUME NEW s \in free, pending' = [pending EXCEPT ![p] = [kept EXCEPT ![s] = entry]]
        PROVE  /\ pending'[p][s] = entry
               /\ \A q \in Pools, r \in Slots :
                     ~(q = p /\ r = s) /\ pending'[q][r] # NoSubmit =>
                         Used(q, r) /\ pending'[q][r] = pending[q][r]
    <2>1. s \in Slots /\ DOMAIN kept = Slots
      OBVIOUS
    <2> HIDE DEF kept, entry
    <2>2. \A r \in Slots : pending'[p][r] = IF r = s THEN entry ELSE kept[r]
      BY <1>1, <1>5, <2>1
    <2>3. \A q \in Pools \ {p} : pending'[q] = pending[q]
      BY <1>1, <1>5
    <2> QED
      BY <1>1, <1>2, <2>1, <2>2, <2>3 DEF Used
  <1>6. entry.id = attempt[t].id /\ entry.share = attempt[t].share /\ entry.born = attempt[t].born
    OBVIOUS
  <1>7. free \subseteq Slots
    OBVIOUS
  <1> HIDE DEF kept, entry, free
  <1>8. ASSUME NEW s \in free, pending' = [pending EXCEPT ![p] = [kept EXCEPT ![s] = entry]]
        PROVE  /\ s \in Slots
               /\ pending'[p][s].id = attempt[t].id
               /\ pending'[p][s].share = attempt[t].share
               /\ pending'[p][s].born = attempt[t].born
               /\ \A q \in Pools, r \in Slots :
                     ~(q = p /\ r = s) /\ pending'[q][r] # NoSubmit =>
                         Used(q, r) /\ pending'[q][r] = pending[q][r]
    BY <1>5, <1>6, <1>7, <1>8
  <1> QED
    BY <1>3, <1>4, <1>8

LEMMA ReserveShares ==
    ASSUME TypeOK, SharesOK, NEW t \in Threads, submit_id_reserve(t)
    PROVE  SharesOK'
  <1>1. pc[t] = "reserve" /\ UNCHANGED <<found, credits>>
    BY DEF submit_id_reserve, history
  <1>2. PICK label \in {"request_drop", "request_send", "send"} : Goto(t, label)
    BY DEF submit_id_reserve
  <1>3. pc' = [pc EXCEPT ![t] = label] /\ attempt' = attempt
    BY <1>2 DEF Goto
  <1>4. ThreadsKeep /\ pc'[t] \notin Unreserved
    BY <1>1, <1>3 DEF ThreadsKeep, Unreserved, TypeOK
  <1>5. CASE TablesShrink
    BY <1>1, <1>4, <1>5, SharesKept
  <1>6. CASE ~TablesShrink
    <2> DEFINE p == work[t].pool
    <2>1. PICK s \in Slots :
             /\ pending'[p][s].share = attempt[t].share
             /\ \A q \in Pools, r \in Slots :
                   ~(q = p /\ r = s) /\ pending'[q][r] # NoSubmit =>
                       Used(q, r) /\ pending'[q][r] = pending[q][r]
      BY <1>6, ReserveTable
    <2>2. /\ attempt[t].share \in 1 .. found /\ credits[attempt[t].share] = 0
          /\ \A q \in Pools, r \in Slots : Used(q, r) => pending[q][r].share # attempt[t].share
          /\ \A u \in Threads \ {t} : pc[u] \in Unreserved => attempt[u].share # attempt[t].share
      BY <1>1 DEF SharesOK, Unreserved
    <2>3. p \in Pools /\ found \in Nat
      BY ShareSubmitAssumption DEF TypeOK, Work
    <2> HIDE DEF p
    <2> USE DEF SharesOK, Used
    <2>4. (\A x \in Shares : credits[x] <= 1 /\ (x > found => credits[x] = 0))'
      BY <1>1
    <2>5. (\A u \in Threads : pc[u] \notin {"idle", "scan"} => attempt[u].share \in 1 .. found)'
      BY <1>1, <1>4 DEF ThreadsKeep
    <2>6. (\A q \in Pools, r \in Slots : Used(q, r) =>
              pending[q][r].share <= found /\ credits[pending[q][r].share] = 0)'
      <3> SUFFICES ASSUME NEW q \in Pools, NEW r \in Slots, pending'[q][r] # NoSubmit
                   PROVE  pending'[q][r].share <= found /\ credits[pending'[q][r].share] = 0
        BY <1>1
      <3>1. CASE q = p /\ r = s
        BY <2>1, <2>2, <2>3, <3>1
      <3>2. CASE ~(q = p /\ r = s)
        BY <2>1, <3>2
      <3> QED
        BY <3>1, <3>2
    <2>7. (\A q, q2 \in Pools, r, r2 \in Slots :
              Used(q, r) /\ Used(q2, r2) /\ pending[q][r].share = pending[q2][r2].share
                 => q = q2 /\ r = r2)'
      BY <2>1, <2>2, <2>3
    <2>8. (\A u \in Threads : pc[u] \in Unreserved =>
              /\ credits[attempt[u].share] = 0
              /\ \A q \in Pools, r \in Slots : Used(q, r) => pending[q][r].share # attempt[u].share)'
      <3> SUFFICES ASSUME NEW u \in Threads, pc'[u] \in Unreserved
                   PROVE  /\ credits[attempt[u].share] = 0
                          /\ \A q \in Pools, r \in Slots :
                                pending'[q][r] # NoSubmit => pending'[q][r].share # attempt[u].share
        BY <1>1, <1>3
      <3>1. u # t /\ pc[u] \in Unreserved
        BY <1>4 DEF ThreadsKeep
      <3> QED
        BY <2>1, <2>2, <2>3, <3>1
    <2>9. (\A u, v \in Threads :
              pc[u] \in Unreserved /\ pc[v] \in Unreserved /\ u # v
                 => attempt[u].share # attempt[v].share)'
      BY <1>3, <1>4 DEF ThreadsKeep
    <2> QED
      BY <2>4, <2>5, <2>6, <2>7, <2>8, <2>9
  <1> QED
    BY <1>5, <1>6

\* A reply counts the share of the entry that it frees.
LEMMA ResponseShares ==
    ASSUME TypeOK, SharesOK, NEW m \in wire, NEW ok \in BOOLEAN, NEW again \in BOOLEAN,
           stratum_handle_submit_response(m, ok, again)
    PROVE  SharesOK' /\ TablesShrink
  <1>1. UNCHANGED <<found, pc, work, attempt>>
    BY DEF stratum_handle_submit_response, miners
  <1>2. ThreadsKeep
    BY <1>1 DEF ThreadsKeep
  <1>3. CASE UNCHANGED <<pending, stats, credits>>
    <2>1. TablesShrink
      BY <1>3 DEF TablesShrink, Used
    <2> QED
      BY <1>1, <1>2, <1>3, <2>1, SharesKept
  <1>4. ASSUME NEW s \in UsedWithId(cur, m.id),
               pending' = [pending EXCEPT ![cur][s] = NoSubmit],
               credits' = [credits EXCEPT ![pending[cur][s].share] = @ + 1]
        PROVE  SharesOK' /\ TablesShrink
    <2> DEFINE x == pending[cur][s].share
    <2>1. s \in Slots /\ cur \in Pools /\ Used(cur, s) /\ x \in Shares
      BY DEF UsedWithId, TypeOK, Used, Pending
    <2>2. /\ TablesShrink
          /\ \A q \in Pools, r \in Slots :
                pending'[q][r] = IF q = cur /\ r = s THEN NoSubmit ELSE pending[q][r]
      BY <1>4, <2>1, FreeShrinks
    <2>3. credits'[x] = 1 /\ \A y \in Shares \ {x} : credits'[y] = credits[y]
      BY <1>4, <2>1 DEF TypeOK, SharesOK
    <2>4. x <= found
      BY <2>1 DEF SharesOK
    <2>5. found \in Nat /\ Shares \subseteq Nat
      BY DEF TypeOK, Shares
    <2>6. \A q \in Pools, r \in Slots : pending'[q][r] # NoSubmit =>
             Used(q, r) /\ pending'[q][r] = pending[q][r] /\ pending[q][r].share \in Shares \ {x}
      BY <2>1, <2>2 DEF SharesOK, Used, TypeOK, Pending
    <2>7. \A t \in Threads : pc[t] \in Unreserved => attempt[t].share \in Shares \ {x}
      <3> SUFFICES ASSUME NEW t \in Threads, pc[t] \in Unreserved
                   PROVE  attempt[t].share \in Shares \ {x}
        OBVIOUS
      <3>1. attempt[t].share \in Shares
        BY HeldShare DEF Unreserved
      <3> QED
        BY <2>1, <3>1 DEF SharesOK
    <2> HIDE DEF x
    <2> USE DEF SharesOK, Used
    <2>8. (\A y \in Shares : credits[y] <= 1 /\ (y > found => credits[y] = 0))'
      BY <1>1, <2>1, <2>3, <2>4, <2>5
    <2>9. (\A t \in Threads : pc[t] \notin {"idle", "scan"} => attempt[t].share \in 1 .. found)'
      BY <1>1
    <2>10. (\A q \in Pools, r \in Slots : Used(q, r) =>
              pending[q][r].share <= found /\ credits[pending[q][r].share] = 0)'
      BY <1>1, <2>3, <2>6
    <2>11. (\A q, q2 \in Pools, r, r2 \in Slots :
              Used(q, r) /\ Used(q2, r2) /\ pending[q][r].share = pending[q2][r2].share
                 => q = q2 /\ r = r2)'
      BY <2>6
    <2>12. (\A t \in Threads : pc[t] \in Unreserved =>
              /\ credits[attempt[t].share] = 0
              /\ \A q \in Pools, r \in Slots : Used(q, r) => pending[q][r].share # attempt[t].share)'
      BY <1>1, <2>3, <2>6, <2>7
    <2>13. (\A t, u \in Threads :
              pc[t] \in Unreserved /\ pc[u] \in Unreserved /\ t # u
                 => attempt[t].share # attempt[u].share)'
      BY <1>1
    <2> QED
      BY <2>2, <2>8, <2>9, <2>10, <2>11, <2>12, <2>13
  <1> QED
    BY <1>3, <1>4 DEF stratum_handle_submit_response, submit_id_take_metadata

LEMMA SharesStep == TypeOK /\ SharesOK /\ Next => SharesOK'
  <1> SUFFICES ASSUME TypeOK, SharesOK, Next PROVE SharesOK'
    OBVIOUS
  <1>1. CASE Service
    BY <1>1, QuietService, SharesKept, ResponseShares DEF Service
  <1>2. ASSUME NEW t \in Threads, Miner(t) PROVE SharesOK'
    BY <1>2, QuietMiner, SharesKept, FindShares, ReserveShares
  <1>3. ASSUME NEW p \in Pools, NEW s \in Slots, Expire(p, s) PROVE SharesOK'
    <2>1. UNCHANGED <<pc, attempt, found, credits>>
      BY <1>3 DEF Expire, miners, history
    <2>2. ThreadsKeep
      BY <2>1 DEF ThreadsKeep
    <2> QED
      BY <1>3, <2>1, <2>2, ExpireShrinks, SharesKept
  <1> QED
    BY <1>1, <1>2, <1>3 DEF Next

-----------------------------------------------------------------------------
(* Ids. *)

LEMMA HoldersMember ==
    ASSUME NEW p, NEW a
    PROVE  a \in Holders(p) <=>
              \/ \E t \in Threads : pc[t] \in Drawn /\ work[t].pool = p /\ a = attempt[t]
              \/ \E s \in Slots : Used(p, s) /\ a = Tag(pending[p][s])
              \/ a \in wire /\ cur = p
  BY DEF Holders

LEMMA HoldersMemberNext ==
    ASSUME NEW p, NEW a
    PROVE  a \in Holders(p)' <=>
              \/ \E t \in Threads : pc'[t] \in Drawn /\ work'[t].pool = p /\ a = attempt'[t]
              \/ \E s \in Slots : pending'[p][s] # NoSubmit /\ a = Tag(pending'[p][s])
              \/ a \in wire' /\ cur' = p
  BY DEF Holders, Used

LEMMA HoldersType ==
    ASSUME TypeOK, NEW p \in Pools, NEW a \in Holders(p)
    PROVE  a.id \in Nat /\ a.born \in Nat
  <1>1. CASE \E t \in Threads : a = attempt[t]
    BY <1>1 DEF TypeOK, Attempt
  <1>2. CASE \E s \in Slots : Used(p, s) /\ a = Tag(pending[p][s])
    BY <1>2 DEF TypeOK, Pending, Used, Tag
  <1>3. CASE a \in wire
    BY <1>3 DEF TypeOK
  <1> QED
    BY <1>1, <1>2, <1>3, HoldersMember

\* A step that draws no id and resets no table.
LEMMA IdsKept ==
    ASSUME IdsOK, UNCHANGED next_submit_id, Resets' = Resets,
           \A p \in Pools : Holders(p)' \subseteq Holders(p)
    PROVE  IdsOK'
  BY DEF IdsOK

LEMMA TableHolders ==
    ASSUME TablesShrink, NEW p \in Pools, NEW s \in Slots, pending'[p][s] # NoSubmit
    PROVE  Tag(pending'[p][s]) \in Holders(p)
  <1>1. Used(p, s) /\ Tag(pending'[p][s]) = Tag(pending[p][s])
    BY DEF TablesShrink, Tag
  <1> QED
    BY <1>1, HoldersMember

\* Where the id carriers of a step that shrinks the tables come from.
LEMMA HoldersShrink ==
    ASSUME TablesShrink,
           \A t \in Threads : pc'[t] \in Drawn =>
              pc[t] \in Drawn /\ work'[t] = work[t] /\ attempt'[t] = attempt[t],
           \A m \in wire' : m \in Holders(cur'),
           NEW p \in Pools
    PROVE  Holders(p)' \subseteq Holders(p)
  <1> SUFFICES ASSUME NEW a \in Holders(p)' PROVE a \in Holders(p)
    OBVIOUS
  <1>1. CASE \E t \in Threads : pc'[t] \in Drawn /\ work'[t].pool = p /\ a = attempt'[t]
    BY <1>1, HoldersMember
  <1>2. CASE \E s \in Slots : pending'[p][s] # NoSubmit /\ a = Tag(pending'[p][s])
    BY <1>2, TableHolders
  <1>3. CASE a \in wire' /\ cur' = p
    BY <1>3
  <1> QED
    BY <1>1, <1>2, <1>3, HoldersMemberNext

LEMMA ServiceIds ==
    ASSUME TypeOK, SessionOK, SharesOK, IdsOK, Service
    PROVE  IdsOK'
  <1>1. TablesShrink /\ UNCHANGED <<pc, work, attempt>>
    <2>1. ASSUME NEW m \in wire, NEW ok \in BOOLEAN, NEW again \in BOOLEAN,
                 stratum_handle_submit_response(m, ok, again)
          PROVE  TablesShrink /\ UNCHANGED <<pc, work, attempt>>
      BY <2>1, ResponseShares DEF stratum_handle_submit_response, miners
    <2> QED
      BY <2>1, QuietService DEF Service
  <1>2. wire' \subseteq wire /\ (wire' # {} => cur' = cur)
    <2>1. ASSUME NEW p \in Pools, stratum_connect(p) PROVE wire' = {}
      BY <2>1 DEF stratum_connect, SessionOK, tables
    <2>2. ASSUME NEW m \in wire, NEW ok \in BOOLEAN, NEW again \in BOOLEAN,
                 stratum_handle_submit_response(m, ok, again)
          PROVE  wire' \subseteq wire /\ cur' = cur
      BY <2>2 DEF stratum_handle_submit_response, session
    <2> QED
      BY <2>1, <2>2 DEF Service, stratum_set_authenticated,
         stratum_publish_work, LeaveSession, stratum_close_transport, stratum_reset_work_state,
         stratum_reset_session_runtime, ClearAuthenticated, session, tables
  <1>3. \A m \in wire' : m \in Holders(cur')
    BY <1>2, HoldersMember
  <1>4. \A p \in Pools : Holders(p)' \subseteq Holders(p)
    BY <1>1, <1>3, HoldersShrink
  <1>5. CASE stratum_reset_session_runtime
    <2>1. conn \in Nat /\ conn >= 1 /\ Resets = conn - 1 /\ Resets' = conn
      BY <1>5 DEF stratum_reset_session_runtime, TypeOK, SessionOK, Resets
    <2>2. \A p \in Pools : \A a \in Holders(p)' : a.born \in Nat /\ a.born <= conn - 1
      BY <1>4, <2>1, HoldersType DEF IdsOK
    <2>3. \A p \in Pools : \A a \in Holders(p)' :
             a.born <= Resets' /\ (a.born = Resets' => a.id < next_submit_id'[p])
      BY <2>1, <2>2
    <2>4. \A p \in Pools : \A a, b \in Holders(p)' : a.id = b.id /\ a.born = b.born => a.share = b.share
      BY <1>4 DEF IdsOK
    <2> QED
      BY <2>3, <2>4 DEF IdsOK
  <1>6. CASE ~stratum_reset_session_runtime
    <2>1. next_submit_id' = next_submit_id
      BY <1>6 DEF Service, stratum_connect, stratum_set_authenticated,
         stratum_publish_work, LeaveSession, stratum_close_transport, stratum_reset_work_state,
         ClearAuthenticated, stratum_handle_submit_response, tables
    <2>2. Resets' = Resets
      BY <1>6 DEF Service, stratum_connect, stratum_set_authenticated,
         stratum_publish_work, LeaveSession, stratum_close_transport, stratum_reset_work_state,
         ClearAuthenticated, stratum_handle_submit_response, session, Resets, TypeOK
    <2> QED
      BY <1>4, <2>1, <2>2, IdsKept
  <1> QED
    BY <1>5, <1>6

\* The id a thread draws is not below the counter, so nobody holds it.
LEMMA DrawIds ==
    ASSUME TypeOK, SessionOK, IdsOK, NEW t \in Threads, stratum_submit_id_next(t)
    PROVE  IdsOK'
  <1> DEFINE p == work[t].pool
             n == next_submit_id[p]
             new == attempt'[t]
  <1>1. p \in Pools /\ n \in Nat /\ Resets \in Nat
    BY ResetsType DEF TypeOK, Work
  <1>2. UNCHANGED <<pending, wire, cur, work, svc, conn>>
    BY DEF stratum_submit_id_next, session
  <1>3. new.id = n /\ new.born = Resets
    BY DEF stratum_submit_id_next, TypeOK, Attempt
  <1>4. \A u \in Threads \ {t} : pc'[u] = pc[u] /\ attempt'[u] = attempt[u]
    BY DEF stratum_submit_id_next, TypeOK
  <1>5. next_submit_id'[p] = n + 1 /\ \A q \in Pools \ {p} : next_submit_id'[q] = next_submit_id[q]
    BY <1>1 DEF stratum_submit_id_next, TypeOK
  <1>6. Resets' = Resets
    BY <1>2 DEF Resets
  <1>7. \A q \in Pools : \A a \in Holders(q)' : a \in Holders(q) \/ (q = p /\ a = new)
    <2> HIDE DEF new, n
    <2> SUFFICES ASSUME NEW q \in Pools, NEW a \in Holders(q)'
                 PROVE  a \in Holders(q) \/ (q = p /\ a = attempt'[t])
      BY DEF new
    <2>1. CASE \E u \in Threads : pc'[u] \in Drawn /\ work'[u].pool = q /\ a = attempt'[u]
      <3>1. PICK u \in Threads : pc'[u] \in Drawn /\ work[u].pool = q /\ a = attempt'[u]
        BY <1>2, <2>1
      <3>2. CASE u = t
        BY <3>1, <3>2
      <3>3. CASE u # t
        BY <1>4, <3>1, <3>3, HoldersMember
      <3> QED
        BY <3>2, <3>3
    <2>2. CASE \E s \in Slots : pending'[q][s] # NoSubmit /\ a = Tag(pending'[q][s])
      BY <1>2, <2>2, HoldersMember DEF Used
    <2>3. CASE a \in wire' /\ cur' = q
      BY <1>2, <2>3, HoldersMember
    <2> QED
      BY <2>1, <2>2, <2>3, HoldersMemberNext
  <1> HIDE DEF p, n, new
  <1>8. \A a \in Holders(p) : a.born = Resets => a.id # n
    BY <1>1, HoldersType DEF IdsOK, n
  <1>9. \A q \in Pools : \A a \in Holders(q)' :
           a.born <= Resets' /\ (a.born = Resets' => a.id < next_submit_id'[q])
    <2> SUFFICES ASSUME NEW q \in Pools, NEW a \in Holders(q)'
                 PROVE  a.born <= Resets /\ (a.born = Resets => a.id < next_submit_id'[q])
      BY <1>6
    <2>1. CASE q = p /\ a = new
      BY <1>1, <1>3, <1>5, <2>1
    <2>2. CASE a \in Holders(q)
      <3>1. a.id \in Nat /\ a.born <= Resets /\ (a.born = Resets => a.id < next_submit_id[q])
        BY <2>2, HoldersType DEF IdsOK
      <3>2. next_submit_id[q] \in Nat /\ next_submit_id'[q] \in {next_submit_id[q], next_submit_id[q] + 1}
        BY <1>1, <1>5 DEF n, TypeOK
      <3> QED
        BY <3>1, <3>2
    <2> QED
      BY <1>7, <2>1, <2>2
  <1>10. \A q \in Pools : \A a, b \in Holders(q)' : a.id = b.id /\ a.born = b.born => a.share = b.share
    BY <1>3, <1>7, <1>8 DEF IdsOK
  <1> QED
    BY <1>9, <1>10 DEF IdsOK

LEMMA ReserveIds ==
    ASSUME TypeOK, SharesOK, IdsOK, NEW t \in Threads, submit_id_reserve(t)
    PROVE  IdsOK'
  <1>1. pc[t] = "reserve" /\ UNCHANGED <<next_submit_id, wire, cur, work, svc, conn>>
    BY DEF submit_id_reserve, session
  <1>2. PICK label \in {"request_drop", "request_send", "send"} : Goto(t, label)
    BY DEF submit_id_reserve
  <1>3. attempt' = attempt /\ \A u \in Threads : pc'[u] \in Drawn => pc[u] \in Drawn
    BY <1>1, <1>2 DEF Goto, TypeOK, Drawn
  <1>4. attempt[t] \in Holders(work[t].pool)
    BY <1>1, HoldersMember DEF Drawn
  <1>5. \A q \in Pools : \A s \in Slots : pending'[q][s] # NoSubmit => Tag(pending'[q][s]) \in Holders(q)
    <2>1. CASE TablesShrink
      BY <2>1, TableHolders
    <2>2. CASE ~TablesShrink
      <3>1. PICK s \in Slots :
                 /\ pending'[work[t].pool][s].id = attempt[t].id
                 /\ pending'[work[t].pool][s].share = attempt[t].share
                 /\ pending'[work[t].pool][s].born = attempt[t].born
                 /\ \A q \in Pools, r \in Slots :
                       ~(q = work[t].pool /\ r = s) /\ pending'[q][r] # NoSubmit =>
                           Used(q, r) /\ pending'[q][r] = pending[q][r]
        BY <2>2, ReserveTable
      <3>2. Tag(pending'[work[t].pool][s]) = attempt[t]
        <4>1. attempt[t] = [id |-> attempt[t].id, share |-> attempt[t].share, born |-> attempt[t].born]
          BY DEF TypeOK, Attempt
        <4> QED
          BY <3>1, <4>1 DEF Tag
      <3>3. ASSUME NEW q \in Pools, NEW r \in Slots, pending'[q][r] # NoSubmit,
                   ~(q = work[t].pool /\ r = s)
            PROVE  Tag(pending'[q][r]) \in Holders(q)
        BY <3>1, <3>3, HoldersMember
      <3> QED
        BY <1>4, <3>2, <3>3
    <2> QED
      BY <2>1, <2>2
  <1>6. \A p \in Pools : Holders(p)' \subseteq Holders(p)
    <2> SUFFICES ASSUME NEW p \in Pools, NEW a \in Holders(p)' PROVE a \in Holders(p)
      OBVIOUS
    <2>1. CASE \E u \in Threads : pc'[u] \in Drawn /\ work'[u].pool = p /\ a = attempt'[u]
      BY <1>1, <1>3, <2>1, HoldersMember
    <2>2. CASE \E s \in Slots : pending'[p][s] # NoSubmit /\ a = Tag(pending'[p][s])
      BY <1>5, <2>2
    <2>3. CASE a \in wire' /\ cur' = p
      BY <1>1, <2>3, HoldersMember
    <2> QED
      BY <2>1, <2>2, <2>3, HoldersMemberNext
  <1>7. Resets' = Resets
    BY <1>1 DEF Resets
  <1> QED
    BY <1>1, <1>6, <1>7, IdsKept

LEMMA MinerIds ==
    ASSUME TypeOK, SessionOK, SharesOK, IdsOK, NEW t \in Threads, Miner(t)
    PROVE  IdsOK'
  <1>1. CASE stratum_submit_id_next(t)
    BY <1>1, DrawIds
  <1>2. CASE submit_id_reserve(t)
    BY <1>2, ReserveIds
  <1>3. CASE ~stratum_submit_id_next(t) /\ ~submit_id_reserve(t)
    <2>1. UNCHANGED <<svc, cur, conn>>
      BY MinerFrame
    <2>2. next_submit_id' = next_submit_id
      BY <1>3 DEF Miner, stratum_copy_work, FindShare, CheckGeneration, CheckAuthenticated,
             submit_id_request_reconnect, stratum_request_shutdown, SendLineOk, SendLineFail,
             submit_id_release, tables
    <2>3. TablesShrink
      <3>1. CASE FindShare(t)
        BY <3>1 DEF FindShare, tables, TablesShrink, Used
      <3> QED
        BY <1>3, <3>1, QuietMiner
    <2>4. \A u \in Threads : pc'[u] \in Drawn =>
             pc[u] \in Drawn /\ work'[u] = work[u] /\ attempt'[u] = attempt[u]
      <3>1. CASE stratum_copy_work(t) \/ FindShare(t)
        <4>1. pc'[t] \notin Drawn
          BY <3>1 DEF stratum_copy_work, FindShare, Goto, Drawn, TypeOK
        <4>2. \A u \in Threads \ {t} : pc'[u] = pc[u] /\ work'[u] = work[u] /\ attempt'[u] = attempt[u]
          BY <3>1 DEF stratum_copy_work, FindShare, Goto, TypeOK
        <4> QED
          BY <4>1, <4>2
      <3>2. CASE ~stratum_copy_work(t) /\ ~FindShare(t)
        <4>1. \E label \in ThreadLabels :
                 Goto(t, label) /\ work' = work /\ (label \in Drawn => pc[t] \in Drawn)
          BY <1>3, <3>2 DEF Miner, CheckGeneration, CheckAuthenticated,
               submit_id_request_reconnect, stratum_request_shutdown, SendLineOk,
               SendLineFail, submit_id_release, ThreadLabels, Drawn
        <4>2. PICK label \in ThreadLabels :
                 Goto(t, label) /\ work' = work /\ (label \in Drawn => pc[t] \in Drawn)
          BY <4>1
        <4>3. CASE label = "idle"
          BY <4>2, <4>3 DEF Goto, Drawn, TypeOK
        <4>4. CASE label # "idle"
          BY <4>2, <4>4 DEF Goto, TypeOK
        <4> QED
          BY <4>3, <4>4
      <3> QED
        BY <3>1, <3>2
    <2>5. \A m \in wire' : m \in Holders(cur')
      <3>1. CASE SendLineOk(t)
        <4>1. wire' = wire \cup {attempt[t]} /\ pc[t] \in Drawn /\ work[t].pool = cur
          BY <3>1 DEF SendLineOk, SessionOK, Drawn
        <4> QED
          BY <2>1, <4>1, HoldersMember
      <3>2. CASE ~SendLineOk(t)
        <4>1. wire' = wire
          BY <1>3, <3>2 DEF Miner, stratum_copy_work, FindShare, CheckGeneration,
               CheckAuthenticated, submit_id_request_reconnect, stratum_request_shutdown,
               SendLineFail, submit_id_release, tables
        <4> QED
          BY <2>1, <4>1, HoldersMember
      <3> QED
        BY <3>1, <3>2
    <2>6. Resets' = Resets
      BY <2>1 DEF Resets
    <2> QED
      BY <2>2, <2>3, <2>4, <2>5, <2>6, HoldersShrink, IdsKept
  <1> QED
    BY <1>1, <1>2, <1>3

LEMMA ExpireIds ==
    ASSUME TypeOK, IdsOK, NEW p \in Pools, NEW s \in Slots, Expire(p, s)
    PROVE  IdsOK'
  <1>1. UNCHANGED <<svc, cur, conn, next_submit_id, wire, pc, work, attempt>>
    BY DEF Expire, session, miners
  <1>2. Resets' = Resets
    BY <1>1 DEF Resets
  <1>3. \A m \in wire' : m \in Holders(cur')
    BY <1>1, HoldersMember
  <1>4. \A q \in Pools : Holders(q)' \subseteq Holders(q)
    BY <1>1, <1>3, ExpireShrinks, HoldersShrink
  <1> QED
    BY <1>1, <1>2, <1>4, IdsKept

-----------------------------------------------------------------------------
LEMMA InvInductive == IInv /\ [Next]_vars => IInv'
  <1> SUFFICES ASSUME IInv, [Next]_vars PROVE IInv'
    OBVIOUS
  <1>1. TypeOK /\ SessionOK /\ WorkOK /\ SharesOK /\ IdsOK
    BY DEF IInv
  <1>2. CASE Next
    <2>1. IdsOK'
      BY <1>1, <1>2, ServiceIds, MinerIds, ExpireIds DEF Next
    <2> QED
      BY <1>1, <1>2, <2>1, NextType, SessionStep, WorkStep, SharesStep DEF IInv
  <1>3. CASE UNCHANGED vars
    BY <1>3 DEF IInv, vars, session, works, tables, miners, stats, history, TypeOK, SessionOK,
           WorkOK, SharesOK, IdsOK, Used, Holders, Resets
  <1> QED
    BY <1>2, <1>3

\* Every reachable state satisfies the inductive invariant.
THEOREM Invariance == Spec => []IInv
  BY InitInv, InvInductive, PTL DEF Spec

\* The variables of the submit path keep their types: in particular an entry of
\* pending_submits always names a miner thread.
THEOREM TypeCorrect == Spec => []TypeOK
  <1>1. IInv => TypeOK
    BY DEF IInv
  <1> QED
    BY <1>1, Invariance, PTL

\* No share is counted twice by stratum_handle_submit_response, whatever the
\* pool repeats and however threads interleave with stratum_disconnect.
THEOREM CreditedOnceCorrect == Spec => []CreditedOnce
  <1>1. IInv => CreditedOnce
    BY DEF IInv, SharesOK, CreditedOnce
  <1> QED
    BY <1>1, Invariance, PTL

\* A reply to a submit of the running id sequence finds that submit's entry.
THEOREM ReplyFindsItsShareCorrect == Spec => []ReplyFindsItsShare
  <1>1. IInv => ReplyFindsItsShare
    <2> SUFFICES ASSUME IInv, NEW m \in wire, NEW s \in Slots, pending[cur][s] # NoSubmit,
                        pending[cur][s].id = m.id, pending[cur][s].born = m.born
                 PROVE  pending[cur][s].share = m.share
      BY DEF ReplyFindsItsShare
    <2>1. cur \in Pools
      BY DEF IInv, TypeOK
    <2>2. m \in Holders(cur) /\ Tag(pending[cur][s]) \in Holders(cur)
      BY HoldersMember DEF Used
    <2>3. Tag(pending[cur][s]).share = m.share
      BY <2>1, <2>2 DEF IInv, IdsOK, Tag
    <2> QED
      BY <2>3 DEF Tag
  <1> QED
    BY <1>1, Invariance, PTL

\* A share passes the generation check of submit_ready_share only while the
\* connection its work came from is the latest and still has its work.
THEOREM PassedCheckIsCurrentCorrect == Spec => PassedCheckIsCurrent
  <1> DEFINE P == \A t \in Threads :
                     pc[t] = "check" /\ pc'[t] = "auth" =>
                        /\ work[t].conn = conn
                        /\ svc \in {"handshake", "session", "close", "reset_work"}
  <1>1. IInv /\ [Next]_vars => [P]_vars
    <2> SUFFICES ASSUME IInv, Next, NEW t \in Threads, pc[t] = "check", pc'[t] = "auth"
                 PROVE  work[t].conn = conn /\ svc \in Live
      BY DEF Live
    <2>1. pc \in [Threads -> ThreadLabels]
      BY DEF IInv, TypeOK
    <2>2. ~Service /\ \A p \in Pools, s \in Slots : ~Expire(p, s)
      BY DEF Service, stratum_connect, stratum_set_authenticated, stratum_publish_work,
             LeaveSession, stratum_close_transport, stratum_reset_work_state,
             stratum_reset_session_runtime, ClearAuthenticated,
             stratum_handle_submit_response, Expire, miners
    <2>3. PICK u \in Threads : Miner(u)
      BY <2>2 DEF Next
    <2>4. u = t
      BY <2>1, <2>3 DEF Miner, stratum_copy_work, FindShare, CheckGeneration, CheckAuthenticated,
         stratum_submit_id_next, submit_id_reserve, submit_id_request_reconnect,
         stratum_request_shutdown, SendLineOk, SendLineFail, submit_id_release, Goto
    <2>5. CheckGeneration(t)
      BY <2>3, <2>4 DEF Miner, stratum_copy_work, FindShare, CheckAuthenticated,
         stratum_submit_id_next, submit_id_reserve, submit_id_request_reconnect,
         stratum_request_shutdown, SendLineOk, SendLineFail, submit_id_release
    <2>6. work[t].gen = generation
      BY <2>1, <2>5 DEF CheckGeneration, Goto
    <2> QED
      BY <2>6 DEF IInv, WorkOK
  <1> QED
    BY <1>1, Invariance, PTL DEF Spec, PassedCheckIsCurrent

-----------------------------------------------------------------------------
(* The counters. *)

\* The tally is finite and holds results of counted shares only.
TallyOK ==
    /\ IsFiniteSet(tally)
    /\ \A r \in tally : credits[r.share] > 0

\* A new result joins the sets of results it belongs to, and no other.
LEMMA CountedGrows ==
    ASSUME TypeOK, TallyOK, NEW r \in Result, r \notin tally, tally' = tally \cup {r},
           NEW ok \in BOOLEAN, NEW P, NEW T
    PROVE  /\ Cardinality(Counted(ok, P, T)) \in Nat
           /\ Cardinality(Counted(ok, P, T)') =
                 IF r.ok = ok /\ r.pool \in P /\ r.thread \in T
                 THEN Cardinality(Counted(ok, P, T)) + 1 ELSE Cardinality(Counted(ok, P, T))
  <1> DEFINE C == Counted(ok, P, T)
  <1>1. IsFiniteSet(C) /\ Cardinality(C) \in Nat
    <2>1. C \subseteq tally
      BY DEF Counted
    <2> QED
      BY <2>1, FS_Subset, FS_CardinalityType DEF TallyOK
  <1>2. r \notin C
    BY DEF Counted
  <1>3. CASE r.ok = ok /\ r.pool \in P /\ r.thread \in T
    <2>1. Counted(ok, P, T)' = C \cup {r}
      BY <1>3 DEF Counted
    <2>2. Cardinality(C \cup {r}) = Cardinality(C) + 1
      BY <1>1, <1>2, FS_AddElement
    <2> QED
      BY <1>1, <1>3, <2>1, <2>2
  <1>4. CASE ~(r.ok = ok /\ r.pool \in P /\ r.thread \in T)
    <2>1. Counted(ok, P, T)' = C
      BY <1>4 DEF Counted
    <2> QED
      BY <1>1, <1>4, <2>1
  <1> QED
    BY <1>3, <1>4

\* Only a reply that finds its entry counts anything.
LEMMA OnlyRepliesCount ==
    ASSUME [Next]_vars
    PROVE  \/ UNCHANGED <<stats, credits, tally>>
           \/ \E m \in wire, ok \in BOOLEAN : \E s \in UsedWithId(cur, m.id) :
                /\ RecordResult(cur, pending[cur][s].thread, ok)
                /\ credits' = [credits EXCEPT ![pending[cur][s].share] = @ + 1]
                /\ tally' = tally \cup {[share |-> pending[cur][s].share, pool |-> cur,
                                         thread |-> pending[cur][s].thread, ok |-> ok]}
  <1>1. CASE UNCHANGED vars
    BY <1>1 DEF vars, history
  <1>2. ASSUME NEW m \in wire, NEW ok \in BOOLEAN, NEW again \in BOOLEAN,
               stratum_handle_submit_response(m, ok, again)
        PROVE  \/ UNCHANGED <<stats, credits, tally>>
               \/ \E s \in UsedWithId(cur, m.id) :
                    /\ RecordResult(cur, pending[cur][s].thread, ok)
                    /\ credits' = [credits EXCEPT ![pending[cur][s].share] = @ + 1]
                    /\ tally' = tally \cup {[share |-> pending[cur][s].share, pool |-> cur,
                                             thread |-> pending[cur][s].thread, ok |-> ok]}
    BY <1>2 DEF stratum_handle_submit_response
  <1>3. ASSUME NEW t \in Threads, Miner(t)
        PROVE  UNCHANGED <<stats, credits, tally>>
    BY <1>3 DEF Miner, stratum_copy_work, FindShare, CheckGeneration, CheckAuthenticated,
       stratum_submit_id_next, submit_id_reserve, submit_id_request_reconnect,
       stratum_request_shutdown, SendLineOk, SendLineFail, submit_id_release, history
  <1>4. CASE \/ \E p \in Pools : stratum_connect(p)
             \/ stratum_set_authenticated \/ \E restart \in BOOLEAN : stratum_publish_work(restart)
             \/ LeaveSession \/ stratum_close_transport \/ stratum_reset_work_state
             \/ stratum_reset_session_runtime \/ ClearAuthenticated
             \/ \E p \in Pools, s \in Slots : Expire(p, s)
    BY <1>4 DEF stratum_connect, stratum_set_authenticated, stratum_publish_work, LeaveSession,
       stratum_close_transport, stratum_reset_work_state, stratum_reset_session_runtime,
       ClearAuthenticated, Expire, history
  <1> QED
    BY <1>1, <1>2, <1>3, <1>4 DEF Next, Service

\* Counting a result moves exactly the counters that it belongs to.
LEMMA RecordCounts ==
    ASSUME IInv, TallyOK, TotalsExcludeDevFee, NEW t \in Threads, NEW x \in Shares,
           NEW ok \in BOOLEAN, credits[x] = 0, RecordResult(cur, t, ok),
           tally' = tally \cup {[share |-> x, pool |-> cur, thread |-> t, ok |-> ok]}
    PROVE  TotalsExcludeDevFee'
  <1> DEFINE r == [share |-> x, pool |-> cur, thread |-> t, ok |-> ok]
  <1>1. cur \in Pools /\ TypeOK
    BY DEF IInv, TypeOK
  <1>2. r \in Result /\ r.share = x /\ r.pool = cur /\ r.thread = t /\ r.ok = ok
    BY <1>1 DEF Result
  <1>3. r \notin tally
    BY <1>2 DEF TallyOK
  <1>4. /\ pool_results \in [Pools -> [BOOLEAN -> Nat]] /\ share_total \in [BOOLEAN -> Nat]
        /\ thread_results \in [Threads -> [BOOLEAN -> Nat]]
    BY <1>1 DEF TypeOK
  <1>5. cur \in DevPools <=> cur \notin UserPools
    BY <1>1, ShareSubmitAssumption DEF Pools
  <1> HIDE DEF r
  <1>6. ASSUME NEW k \in BOOLEAN, NEW P, NEW T
        PROVE  Cardinality(Counted(k, P, T)') =
                 IF ok = k /\ cur \in P /\ t \in T
                 THEN Cardinality(Counted(k, P, T)) + 1 ELSE Cardinality(Counted(k, P, T))
    <2>1. tally' = tally \cup {r}
      BY DEF r
    <2> QED
      BY <1>1, <1>2, <1>3, <2>1, CountedGrows
  <1> SUFFICES ASSUME NEW k \in BOOLEAN
               PROVE  /\ \A p \in Pools : pool_results'[p][k] = Cardinality(Counted(k, {p}, Threads)')
                      /\ \A u \in Threads : thread_results'[u][k] = Cardinality(Counted(k, UserPools, {u})')
                      /\ share_total'[k] = Cardinality(Counted(k, UserPools, Threads)')
    BY DEF TotalsExcludeDevFee
  <1>7. ASSUME NEW p \in Pools
        PROVE  pool_results'[p][k] = Cardinality(Counted(k, {p}, Threads)')
    <2>1. pool_results'[p][k] = IF p = cur /\ k = ok THEN pool_results[p][k] + 1 ELSE pool_results[p][k]
      BY <1>1, <1>4 DEF RecordResult
    <2>2. pool_results[p][k] = Cardinality(Counted(k, {p}, Threads))
      BY DEF TotalsExcludeDevFee
    <2>3. Cardinality(Counted(k, {p}, Threads)') =
             IF ok = k /\ cur \in {p} /\ t \in Threads
             THEN Cardinality(Counted(k, {p}, Threads)) + 1 ELSE Cardinality(Counted(k, {p}, Threads))
      BY <1>6
    <2> QED
      BY <2>1, <2>2, <2>3
  <1>8. ASSUME NEW u \in Threads
        PROVE  thread_results'[u][k] = Cardinality(Counted(k, UserPools, {u})')
    <2>1. thread_results'[u][k] = IF cur \in UserPools /\ u = t /\ k = ok
                                  THEN thread_results[u][k] + 1 ELSE thread_results[u][k]
      <3>1. CASE cur \in DevPools
        BY <1>5, <3>1 DEF RecordResult
      <3>2. CASE cur \notin DevPools
        BY <1>4, <1>5, <3>2 DEF RecordResult
      <3> QED
        BY <3>1, <3>2
    <2>2. thread_results[u][k] = Cardinality(Counted(k, UserPools, {u}))
      BY DEF TotalsExcludeDevFee
    <2>3. Cardinality(Counted(k, UserPools, {u})') =
             IF ok = k /\ cur \in UserPools /\ t \in {u}
             THEN Cardinality(Counted(k, UserPools, {u})) + 1 ELSE Cardinality(Counted(k, UserPools, {u}))
      BY <1>6
    <2> QED
      BY <2>1, <2>2, <2>3
  <1>9. share_total'[k] = Cardinality(Counted(k, UserPools, Threads)')
    <2>1. share_total'[k] = IF cur \in UserPools /\ k = ok
                            THEN share_total[k] + 1 ELSE share_total[k]
      <3>1. CASE cur \in DevPools
        BY <1>5, <3>1 DEF RecordResult
      <3>2. CASE cur \notin DevPools
        BY <1>4, <1>5, <3>2 DEF RecordResult
      <3> QED
        BY <3>1, <3>2
    <2>2. share_total[k] = Cardinality(Counted(k, UserPools, Threads))
      BY DEF TotalsExcludeDevFee
    <2>3. Cardinality(Counted(k, UserPools, Threads)') =
             IF ok = k /\ cur \in UserPools /\ t \in Threads
             THEN Cardinality(Counted(k, UserPools, Threads)) + 1
             ELSE Cardinality(Counted(k, UserPools, Threads))
      BY <1>6
    <2> QED
      BY <2>1, <2>2, <2>3
  <1> QED
    BY <1>7, <1>8, <1>9

LEMMA TotalsInductive ==
    IInv /\ TallyOK /\ TotalsExcludeDevFee /\ [Next]_vars => (TallyOK /\ TotalsExcludeDevFee)'
  <1> SUFFICES ASSUME IInv, TallyOK, TotalsExcludeDevFee, [Next]_vars
               PROVE  (TallyOK /\ TotalsExcludeDevFee)'
    OBVIOUS
  <1>1. CASE UNCHANGED <<stats, credits, tally>>
    <2>1. TallyOK'
      BY <1>1 DEF TallyOK
    <2>2. UNCHANGED <<pool_results, share_total, thread_results, tally>>
      BY <1>1 DEF stats
    <2> QED
      BY <2>1, <2>2 DEF TotalsExcludeDevFee, Counted
  <1>2. ASSUME NEW m \in wire, NEW ok \in BOOLEAN, NEW s \in UsedWithId(cur, m.id),
               RecordResult(cur, pending[cur][s].thread, ok),
               credits' = [credits EXCEPT ![pending[cur][s].share] = @ + 1],
               tally' = tally \cup {[share |-> pending[cur][s].share, pool |-> cur,
                                     thread |-> pending[cur][s].thread, ok |-> ok]}
        PROVE  (TallyOK /\ TotalsExcludeDevFee)'
    <2> DEFINE x == pending[cur][s].share
               t == pending[cur][s].thread
               r == [share |-> x, pool |-> cur, thread |-> t, ok |-> ok]
    <2>1. /\ s \in Slots /\ cur \in Pools /\ Used(cur, s)
          /\ x \in Shares /\ t \in Threads
      BY DEF UsedWithId, IInv, TypeOK, Used, Pending
    <2>2. credits[x] = 0 /\ credits \in [Shares -> Nat] /\ tally \subseteq Result
      BY <2>1 DEF IInv, SharesOK, TypeOK
    <2>3. TotalsExcludeDevFee'
      BY <1>2, <2>1, <2>2, RecordCounts
    <2>4. IsFiniteSet(tally')
      BY <1>2, FS_AddElement DEF TallyOK
    <2>5. \A q \in tally' : credits'[q.share] > 0
      <3>1. credits'[x] = 1 /\ \A y \in Shares \ {x} : credits'[y] = credits[y]
        BY <1>2, <2>1, <2>2
      <3>2. r.share = x
        OBVIOUS
      <3>3. \A q \in tally : q.share \in Shares /\ credits[q.share] > 0
        BY <2>2 DEF TallyOK, Result
      <3> HIDE DEF r, x
      <3>4. tally' = tally \cup {r}
        BY <1>2 DEF r, x
      <3> QED
        BY <3>1, <3>2, <3>3, <3>4
    <2> QED
      BY <2>3, <2>4, <2>5 DEF TallyOK
  <1> QED
    BY <1>1, <1>2, OnlyRepliesCount

\* The counters of pools, threads and the user's totals are the numbers of
\* results counted for them, dev-fee results only for the dev-fee slot
\* (stratum_update_share_stats, miner_record_thread_share_result), for any
\* number of pools, threads and shares.
THEOREM TotalsExcludeDevFeeCorrect == Spec => []TotalsExcludeDevFee
  <1>1. Init => TallyOK /\ TotalsExcludeDevFee
    <2> SUFFICES ASSUME Init PROVE TallyOK /\ TotalsExcludeDevFee
      OBVIOUS
    <2>1. tally = {}
      BY DEF Init
    <2>2. TallyOK
      BY <2>1, FS_EmptySet DEF TallyOK
    <2>3. \A ok \in BOOLEAN : \A P, T : Counted(ok, P, T) = {}
      BY <2>1 DEF Counted
    <2>4. Cardinality({}) = 0
      BY FS_EmptySet
    <2> QED
      BY <2>2, <2>3, <2>4 DEF TotalsExcludeDevFee, Init
  <1> QED
    BY <1>1, TotalsInductive, Invariance, PTL DEF Spec

-----------------------------------------------------------------------------
(***************************************************************************)
(* The submit path implements the ledger of ShareLedger.  The refinement   *)
(* mapping reads the shares in hand, outstanding and counted off the       *)
(* program counters, the tables and the counters; SharesOK of the          *)
(* inductive invariant makes each step of one share a step of the ledger.  *)
(***************************************************************************)

(* The refinement mapping under a step. *)

\* A step that leaves the shares in hand alone.
LEMMA HeldKept ==
    ASSUME \A t \in Threads :
              /\ pc'[t] \in Unreserved <=> pc[t] \in Unreserved
              /\ pc[t] \in Unreserved =>
                    attempt'[t].share = attempt[t].share /\ work'[t].pool = work[t].pool
    PROVE  HeldShares' = HeldShares
  BY DEF HeldShares

\* A thread lets go of its share.
LEMMA HeldDropped ==
    ASSUME TypeOK, SharesOK, NEW t \in Threads,
           pc[t] \in Unreserved, pc'[t] \notin Unreserved,
           \A u \in Threads \ {t} :
              pc'[u] = pc[u] /\ attempt'[u] = attempt[u] /\ work'[u] = work[u]
    PROVE  /\ <<attempt[t].share, work[t].pool>> \in HeldShares
           /\ HeldShares' = HeldShares \ {<<attempt[t].share, work[t].pool>>}
  <1> DEFINE e == <<attempt[t].share, work[t].pool>>
  <1>1. attempt[t].share \in Shares /\ work[t].pool \in Pools
    BY HeldShare DEF Unreserved, TypeOK, Work
  <1>2. e \in HeldShares
    BY <1>1 DEF HeldShares
  <1>3. \A u \in Threads \ {t} : pc[u] \in Unreserved => attempt[u].share # attempt[t].share
    BY DEF SharesOK
  <1>4. ASSUME NEW o \in Shares \X Pools
        PROVE  o \in HeldShares' <=> o \in HeldShares \ {e}
    <2>1. o \in HeldShares' <=> \E u \in Threads \ {t} :
             pc[u] \in Unreserved /\ attempt[u].share = o[1] /\ work[u].pool = o[2]
      BY DEF HeldShares
    <2>2. o \in HeldShares <=> \E u \in Threads :
             pc[u] \in Unreserved /\ attempt[u].share = o[1] /\ work[u].pool = o[2]
      BY DEF HeldShares
    <2>3. o = e <=> o[1] = attempt[t].share /\ o[2] = work[t].pool
      OBVIOUS
    <2> QED
      BY <1>3, <2>1, <2>2, <2>3
  <1>5. HeldShares \subseteq Shares \X Pools /\ HeldShares' \subseteq Shares \X Pools
    BY DEF HeldShares
  <1> QED
    BY <1>2, <1>4, <1>5

\* A step that the ledger does not see.
LEMMA Unseen ==
    ASSUME HeldShares' = HeldShares, UNCHANGED <<pending, found, credits, pool_results, share_total>>
    PROVE  UNCHANGED Ledger!vars
  BY DEF Ledger!vars, OutstandingShares, CountedShares

\* Entries of one pool are freed.
LEMMA ShrinkForgets ==
    ASSUME TypeOK, TablesShrink, NEW p \in Pools,
           \A q \in Pools \ {p} : pending'[q] = pending[q],
           HeldShares' = HeldShares, UNCHANGED <<found, credits, pool_results, share_total>>
    PROVE  Ledger!Next
  <1> DEFINE gone == OutstandingShares \ OutstandingShares'
  <1>1. OutstandingShares' \subseteq OutstandingShares
    BY DEF OutstandingShares, TablesShrink, Used
  <1>2. gone \in SUBSET {o \in OutstandingShares : o[2] = p}
    BY DEF OutstandingShares
  <1>3. OutstandingShares' = OutstandingShares \ gone
    BY <1>1
  <1>4. CountedShares' = CountedShares
    BY DEF CountedShares
  <1>5. Ledger!Forget(p)
    BY <1>2, <1>3, <1>4 DEF Ledger!Forget
  <1> QED
    BY <1>5 DEF Ledger!Next, Ledger!Pools, Pools

-----------------------------------------------------------------------------
(* The service thread. *)

LEMMA ServiceLedger ==
    ASSUME TypeOK,
           \/ \E p \in Pools : stratum_connect(p)
           \/ stratum_set_authenticated
           \/ \E restart \in BOOLEAN : stratum_publish_work(restart)
           \/ LeaveSession \/ stratum_close_transport \/ stratum_reset_work_state
           \/ stratum_reset_session_runtime \/ ClearAuthenticated
    PROVE  [Ledger!Next]_(Ledger!vars)
  <1>1. TablesShrink /\ UNCHANGED <<found, credits, pc, work, attempt>>
    BY QuietService
  <1>2. UNCHANGED <<pool_results, share_total>>
    BY DEF stratum_connect, stratum_set_authenticated, stratum_publish_work, LeaveSession,
           stratum_close_transport, stratum_reset_work_state, stratum_reset_session_runtime,
           ClearAuthenticated, stats
  <1>3. \/ pending' = pending
        \/ pending' = [pending EXCEPT ![cur] = [s \in Slots |-> NoSubmit]]
    BY DEF stratum_connect, stratum_set_authenticated, stratum_publish_work, LeaveSession,
           stratum_close_transport, stratum_reset_work_state, stratum_reset_session_runtime,
           ClearAuthenticated, tables
  <1>4. cur \in Pools /\ \A q \in Pools \ {cur} : pending'[q] = pending[q]
    BY <1>3 DEF TypeOK
  <1>5. HeldShares' = HeldShares
    BY <1>1, HeldKept
  <1> QED
    BY <1>1, <1>2, <1>4, <1>5, ShrinkForgets

\* A reply counts the share of the entry that it frees, or is dropped.
LEMMA ResponseLedger ==
    ASSUME TypeOK, SharesOK, NEW m \in wire, NEW ok \in BOOLEAN, NEW again \in BOOLEAN,
           stratum_handle_submit_response(m, ok, again)
    PROVE  [Ledger!Next]_(Ledger!vars)
  <1>1. UNCHANGED <<found, pc, work, attempt>>
    BY DEF stratum_handle_submit_response, miners
  <1>2. HeldShares' = HeldShares
    BY <1>1, HeldKept
  <1>3. CASE UNCHANGED <<pending, stats, credits>>
    BY <1>1, <1>2, <1>3, Unseen DEF stats
  <1>4. ASSUME NEW s \in UsedWithId(cur, m.id),
               pending' = [pending EXCEPT ![cur][s] = NoSubmit],
               RecordResult(cur, pending[cur][s].thread, ok),
               credits' = [credits EXCEPT ![pending[cur][s].share] = @ + 1]
        PROVE  Ledger!Next
    <2> DEFINE x == pending[cur][s].share
               e == <<x, cur>>
    <2>1. s \in Slots /\ cur \in Pools /\ Used(cur, s) /\ x \in Shares
      BY DEF UsedWithId, TypeOK, Used, Pending
    <2>2. \A q \in Pools, r \in Slots :
             pending'[q][r] = IF q = cur /\ r = s THEN NoSubmit ELSE pending[q][r]
      BY <1>4, <2>1, FreeShrinks
    <2>3. \A q \in Pools, r \in Slots : Used(q, r) /\ pending[q][r].share = x => q = cur /\ r = s
      BY <2>1 DEF SharesOK
    <2>4. credits[x] = 0 /\ credits'[x] = 1 /\ \A y \in Shares \ {x} : credits'[y] = credits[y]
      BY <1>4, <2>1 DEF SharesOK, TypeOK
    <2> HIDE DEF x
    <2>5. e \in OutstandingShares
      BY <2>1 DEF OutstandingShares, Used, x
    <2>6. OutstandingShares' = OutstandingShares \ {e}
      <3>1. ASSUME NEW o \in Shares \X Pools
            PROVE  o \in OutstandingShares' <=> o \in OutstandingShares \ {e}
        <4>1. o \in OutstandingShares' <=>
                 \E r \in Slots : ~(o[2] = cur /\ r = s) /\ Used(o[2], r) /\ pending[o[2]][r].share = o[1]
          BY <2>2 DEF OutstandingShares, Used
        <4>2. o \in OutstandingShares <=> \E r \in Slots : Used(o[2], r) /\ pending[o[2]][r].share = o[1]
          BY DEF OutstandingShares, Used
        <4>3. o = e <=> o[1] = x /\ o[2] = cur
          OBVIOUS
        <4>4. Used(cur, s) /\ pending[cur][s].share = x
          BY <2>1 DEF x
        <4> QED
          BY <2>1, <2>3, <4>1, <4>2, <4>3, <4>4
      <3>2. OutstandingShares \subseteq Shares \X Pools /\ OutstandingShares' \subseteq Shares \X Pools
        BY DEF OutstandingShares
      <3> QED
        BY <3>1, <3>2
    <2>7. x \notin CountedShares /\ CountedShares' = CountedShares \cup {x}
      <3>1. \A y \in Shares : credits'[y] > 0 <=> y = x \/ credits[y] > 0
        BY <2>1, <2>4
      <3> QED
        BY <2>1, <2>4, <3>1 DEF CountedShares
    <2>8. /\ pool_results' = [pool_results EXCEPT ![cur][ok] = @ + 1]
          /\ share_total' = IF cur \in UserPools THEN [share_total EXCEPT ![ok] = @ + 1]
                                                 ELSE share_total
      BY <1>4, <2>1, ShareSubmitAssumption DEF RecordResult, Pools
    <2>9. Ledger!Count(e, ok)
      BY <1>1, <1>2, <2>6, <2>7, <2>8 DEF Ledger!Count
    <2> QED
      BY <2>5, <2>9 DEF Ledger!Next
  <1> QED
    BY <1>3, <1>4 DEF stratum_handle_submit_response, submit_id_take_metadata

-----------------------------------------------------------------------------
(* Miner threads. *)

LEMMA FindLedger ==
    ASSUME TypeOK, NEW t \in Threads, FindShare(t)
    PROVE  Ledger!Next
  <1> DEFINE p == work[t].pool
  <1>1. /\ pc[t] = "scan" /\ found < MaxShares /\ found' = found + 1
        /\ pc' = [pc EXCEPT ![t] = "check"]
        /\ UNCHANGED <<pending, credits, work, pool_results, share_total>>
    BY DEF FindShare, tables, stats
  <1>2. /\ attempt'[t].share = found + 1
        /\ \A u \in Threads \ {t} : attempt'[u] = attempt[u]
    BY DEF FindShare, TypeOK, Attempt
  <1>3. p \in Pools /\ found + 1 \in Shares
    BY <1>1, ShareSubmitAssumption DEF TypeOK, Work, Shares
  <1>4. /\ pc[t] \notin Unreserved /\ pc'[t] \in Unreserved
        /\ \A u \in Threads \ {t} : pc'[u] = pc[u]
    BY <1>1 DEF Unreserved, TypeOK
  <1>5. HeldShares' = HeldShares \cup {<<found + 1, p>>}
    <2>1. ASSUME NEW o \in Shares \X Pools
          PROVE  o \in HeldShares' <=> o \in HeldShares \cup {<<found + 1, p>>}
      <3>1. o \in HeldShares' <=> \E u \in Threads :
               pc'[u] \in Unreserved /\ attempt'[u].share = o[1] /\ work[u].pool = o[2]
        BY <1>1 DEF HeldShares
      <3>2. o \in HeldShares <=> \E u \in Threads :
               pc[u] \in Unreserved /\ attempt[u].share = o[1] /\ work[u].pool = o[2]
        BY DEF HeldShares
      <3>3. o = <<found + 1, p>> <=> o[1] = found + 1 /\ o[2] = p
        OBVIOUS
      <3> QED
        BY <1>2, <1>4, <3>1, <3>2, <3>3
    <2>2. HeldShares \subseteq Shares \X Pools /\ HeldShares' \subseteq Shares \X Pools
      BY DEF HeldShares
    <2> QED
      BY <1>3, <2>1, <2>2
  <1>6. OutstandingShares' = OutstandingShares /\ CountedShares' = CountedShares
    BY <1>1 DEF OutstandingShares, CountedShares
  <1>7. Ledger!Find(p)
    BY <1>1, <1>5, <1>6 DEF Ledger!Find
  <1> QED
    BY <1>3, <1>7 DEF Ledger!Next, Ledger!Pools, Pools

\* The checks either pass, or drop the share.
LEMMA CheckLedger ==
    ASSUME TypeOK, SharesOK, NEW t \in Threads, CheckGeneration(t) \/ CheckAuthenticated(t)
    PROVE  [Ledger!Next]_(Ledger!vars)
  <1>1. /\ pc[t] \in {"check", "auth"}
        /\ UNCHANGED <<pending, found, credits, work, pool_results, share_total>>
    BY DEF CheckGeneration, CheckAuthenticated, tables, stats, history
  <1>2. PICK label \in {"auth", "id", "idle"} : Goto(t, label)
    BY DEF CheckGeneration, CheckAuthenticated
  <1>3. pc' = [pc EXCEPT ![t] = label] /\ \A u \in Threads \ {t} : pc'[u] = pc[u]
    BY <1>2 DEF Goto, TypeOK
  <1>4. CASE label = "idle"
    <2>1. pc'[t] = "idle" /\ \A u \in Threads \ {t} : attempt'[u] = attempt[u] /\ work'[u] = work[u]
      BY <1>1, <1>2, <1>3, <1>4 DEF Goto, TypeOK
    <2>2. /\ <<attempt[t].share, work[t].pool>> \in HeldShares
          /\ HeldShares' = HeldShares \ {<<attempt[t].share, work[t].pool>>}
      BY <1>1, <1>3, <2>1, HeldDropped DEF Unreserved
    <2>3. OutstandingShares' = OutstandingShares /\ CountedShares' = CountedShares
      BY <1>1 DEF OutstandingShares, CountedShares
    <2>4. Ledger!Drop(<<attempt[t].share, work[t].pool>>)
      BY <1>1, <2>2, <2>3 DEF Ledger!Drop
    <2> QED
      BY <2>2, <2>4 DEF Ledger!Next
  <1>5. CASE label # "idle"
    <2>1. attempt' = attempt /\ pc'[t] \in Unreserved /\ pc[t] \in Unreserved
      BY <1>1, <1>2, <1>3, <1>5 DEF Goto, Unreserved, TypeOK
    <2>2. HeldShares' = HeldShares
      BY <1>1, <1>3, <2>1, HeldKept
    <2> QED
      BY <1>1, <2>2, Unseen
  <1> QED
    BY <1>4, <1>5

\* A reservation moves the share from the thread to the table, or drops it.
LEMMA ReserveLedger ==
    ASSUME TypeOK, SharesOK, NEW t \in Threads, submit_id_reserve(t)
    PROVE  Ledger!Next
  <1> DEFINE p == work[t].pool
             x == attempt[t].share
             e == <<x, p>>
             Stale == {s \in Slots : pending[p][s] # NoSubmit /\ pending[p][s].expired}
             kept  == [s \in Slots |-> IF s \in Stale THEN NoSubmit ELSE pending[p][s]]
             free  == {s \in Slots : kept[s] = NoSubmit}
             entry == [id |-> attempt[t].id, thread |-> t, expired |-> FALSE,
                       share |-> x, born |-> attempt[t].born]
  <1>1. pc[t] = "reserve" /\ UNCHANGED <<found, credits, work, pool_results, share_total>>
    BY DEF submit_id_reserve, stats, history
  <1>2. PICK label \in {"request_drop", "request_send", "send"} : Goto(t, label)
    BY DEF submit_id_reserve
  <1>3. /\ pc'[t] \notin Unreserved /\ attempt' = attempt
        /\ \A u \in Threads \ {t} : pc'[u] = pc[u]
    BY <1>2 DEF Goto, Unreserved, TypeOK
  <1>4. e \in HeldShares /\ HeldShares' = HeldShares \ {e}
    BY <1>1, <1>3, HeldDropped DEF Unreserved
  <1>5. CountedShares' = CountedShares
    BY <1>1 DEF CountedShares
  <1>6. p \in Pools /\ pending \in [Pools -> [Slots -> Pending \cup {NoSubmit}]] /\ x \in Shares
    BY <1>1, HeldShare DEF TypeOK, Work
  <1>7. entry \in Pending /\ entry # NoSubmit /\ entry.share = x
    <2>1. attempt[t].id \in Nat /\ attempt[t].born \in Nat
      BY DEF TypeOK, Attempt
    <2>2. entry \in Pending
      BY <1>6, <2>1 DEF Pending
    <2>3. entry.share = x
      OBVIOUS
    <2> QED
      BY <2>2, <2>3, NoSubmitAssumption
  <1>8. CASE free = {} /\ pending' = [pending EXCEPT ![p] = kept]
    <2>1. \A s \in Slots : kept[s] = pending[p][s]
      BY <1>8
    <2>2. kept = pending[p]
      BY <1>6, <2>1
    <2>3. pending' = pending
      BY <1>6, <1>8, <2>2
    <2>4. OutstandingShares' = OutstandingShares
      BY <2>3 DEF OutstandingShares
    <2>5. Ledger!Drop(e)
      BY <1>1, <1>4, <1>5, <2>4 DEF Ledger!Drop
    <2> QED
      BY <1>4, <2>5 DEF Ledger!Next
  <1>9. ASSUME NEW s \in free, pending' = [pending EXCEPT ![p] = [kept EXCEPT ![s] = entry]]
        PROVE  Ledger!Next
    <2> DEFINE late == {o \in OutstandingShares : o[2] = p /\ \E r \in Stale : pending[p][r].share = o[1]}
    <2>1. s \in Slots /\ DOMAIN kept = Slots
      OBVIOUS
    <2>2. /\ pending'[p][s] = entry
          /\ \A r \in Slots \ {s} : pending'[p][r] = kept[r]
          /\ \A q \in Pools \ {p} : pending'[q] = pending[q]
      <3> HIDE DEF kept, entry
      <3> QED
        BY <1>6, <1>9, <2>1
    <2>3. \A r \in Slots : kept[r] # NoSubmit <=> Used(p, r) /\ r \notin Stale
      BY DEF Used
    <2>4. \A r \in Slots : kept[r] # NoSubmit => kept[r] = pending[p][r]
      OBVIOUS
    <2>5. kept[s] = NoSubmit
      OBVIOUS
    <2>6. \A r, r2 \in Slots : Used(p, r) /\ Used(p, r2) /\ pending[p][r].share = pending[p][r2].share
             => r = r2
      BY <1>6 DEF SharesOK
    <2>7. Stale \subseteq Slots /\ \A r \in Stale : Used(p, r)
      BY DEF Used
    <2> HIDE DEF kept, entry, free, Stale, x, p
    <2>8. ASSUME NEW o \in Shares \X Pools
          PROVE  o \in OutstandingShares' <=> o \in (OutstandingShares \ late) \cup {e}
      <3>1. o \in OutstandingShares <=> \E r \in Slots : Used(o[2], r) /\ pending[o[2]][r].share = o[1]
        BY DEF OutstandingShares, Used
      <3>2. o \in OutstandingShares' <=>
               \E r \in Slots : pending'[o[2]][r] # NoSubmit /\ pending'[o[2]][r].share = o[1]
        BY DEF OutstandingShares
      <3>3. o = e <=> o[1] = x /\ o[2] = p
        OBVIOUS
      <3>4. CASE o[2] # p
        <4>1. pending'[o[2]] = pending[o[2]]
          BY <2>2, <3>4
        <4> QED
          BY <3>1, <3>2, <3>3, <3>4, <4>1 DEF Used
      <3>5. CASE o[2] = p
        <4>1. o \in OutstandingShares' <=>
                 o[1] = x \/ \E r \in Slots : Used(p, r) /\ r \notin Stale /\ pending[p][r].share = o[1]
          BY <1>7, <2>1, <2>2, <2>3, <2>4, <2>5, <3>2, <3>5
        <4>2. o \in OutstandingShares \ late <=>
                 \E r \in Slots : Used(p, r) /\ r \notin Stale /\ pending[p][r].share = o[1]
          BY <2>6, <2>7, <3>1, <3>5
        <4> QED
          BY <3>3, <3>5, <4>1, <4>2
      <3> QED
        BY <3>4, <3>5
    <2>9. OutstandingShares' = (OutstandingShares \ late) \cup {e}
      <3>1. OutstandingShares \subseteq Shares \X Pools /\ OutstandingShares' \subseteq Shares \X Pools
        BY DEF OutstandingShares
      <3>2. e \in Shares \X Pools
        BY <1>6
      <3> QED
        BY <2>8, <3>1, <3>2
    <2>10. late \in SUBSET {o \in OutstandingShares : o[2] = e[2]}
      OBVIOUS
    <2>11. Ledger!Reserve(e)
      BY <1>1, <1>4, <1>5, <2>9, <2>10 DEF Ledger!Reserve
    <2> QED
      BY <1>4, <2>11 DEF Ledger!Next
  <1> QED
    BY <1>8, <1>9 DEF submit_id_reserve

\* Steps of a thread with no share in hand before or after, or the same one.
LEMMA QuietMinerLedger ==
    ASSUME TypeOK, NEW t \in Threads,
           \/ stratum_copy_work(t) \/ stratum_submit_id_next(t)
           \/ submit_id_request_reconnect(t) \/ stratum_request_shutdown(t)
           \/ SendLineOk(t) \/ SendLineFail(t) \/ submit_id_release(t)
    PROVE  [Ledger!Next]_(Ledger!vars)
  <1>1. UNCHANGED <<found, credits, pool_results, share_total>>
    BY DEF stratum_copy_work, stratum_submit_id_next, submit_id_request_reconnect,
           stratum_request_shutdown, SendLineOk, SendLineFail, submit_id_release, stats, history
  <1>2. HeldShares' = HeldShares
    <2>1. CASE stratum_submit_id_next(t)
      <3>1. /\ pc[t] = "id" /\ pc' = [pc EXCEPT ![t] = "reserve"] /\ UNCHANGED work
            /\ \A u \in Threads : attempt'[u].share = attempt[u].share
        BY <2>1 DEF stratum_submit_id_next, TypeOK, Attempt
      <3> QED
        BY <3>1, HeldKept DEF Unreserved, TypeOK
    <2>2. CASE stratum_copy_work(t)
      <3>1. /\ pc[t] \in {"idle", "scan"} /\ pc'[t] \in {"idle", "scan"}
            /\ \A u \in Threads \ {t} : pc'[u] = pc[u] /\ attempt'[u] = attempt[u] /\ work'[u] = work[u]
        BY <2>2 DEF stratum_copy_work, Goto, TypeOK
      <3> QED
        BY <3>1, HeldKept DEF Unreserved
    <2>3. CASE ~stratum_submit_id_next(t) /\ ~stratum_copy_work(t)
      <3>1. /\ pc[t] \notin Unreserved /\ UNCHANGED work
            /\ \E label \in {"send", "idle", "shut_send", "shut_drop", "release"} : Goto(t, label)
        BY <2>3 DEF submit_id_request_reconnect, stratum_request_shutdown, SendLineOk,
               SendLineFail, submit_id_release, Unreserved
      <3>2. /\ pc'[t] \notin Unreserved
            /\ \A u \in Threads \ {t} : pc'[u] = pc[u] /\ attempt'[u] = attempt[u]
        BY <3>1 DEF Goto, Unreserved, TypeOK
      <3> QED
        BY <3>1, <3>2, HeldKept
    <2> QED
      BY <2>1, <2>2, <2>3
  <1>3. CASE submit_id_release(t)
    <2>1. work[t].pool \in Pools
      BY DEF TypeOK, Work
    <2>2. ASSUME NEW s \in Slots, pending' = [pending EXCEPT ![work[t].pool][s] = NoSubmit]
          PROVE  Ledger!Next
      <3>1. TablesShrink /\ \A q \in Pools \ {work[t].pool} : pending'[q] = pending[q]
        BY <2>1, <2>2, FreeShrinks DEF TypeOK
      <3> QED
        BY <1>1, <1>2, <2>1, <3>1, ShrinkForgets
    <2> QED
      BY <1>1, <1>2, <1>3, <2>2, Unseen DEF submit_id_release, UsedWithId
  <1>4. CASE ~submit_id_release(t)
    <2>1. UNCHANGED pending
      BY <1>4 DEF stratum_copy_work, stratum_submit_id_next, submit_id_request_reconnect,
             stratum_request_shutdown, SendLineOk, SendLineFail, tables
    <2> QED
      BY <1>1, <1>2, <2>1, Unseen
  <1> QED
    BY <1>3, <1>4

LEMMA ExpireLedger ==
    ASSUME TypeOK, NEW p \in Pools, NEW s \in Slots, Expire(p, s)
    PROVE  Ledger!Next
  <1>1. UNCHANGED <<pc, work, attempt, found, credits, pool_results, share_total>>
    BY DEF Expire, miners, stats, history
  <1>2. \A q \in Pools \ {p} : pending'[q] = pending[q]
    BY DEF Expire, TypeOK
  <1> QED
    BY <1>1, <1>2, HeldKept, ExpireShrinks, ShrinkForgets

-----------------------------------------------------------------------------
LEMMA InitLedger == Init => Ledger!Init
  <1> SUFFICES ASSUME Init PROVE Ledger!Init
    OBVIOUS
  <1>1. HeldShares = {}
    BY DEF Init, HeldShares, Unreserved
  <1>2. OutstandingShares = {} /\ CountedShares = {}
    BY DEF Init, OutstandingShares, CountedShares
  <1> QED
    BY <1>1, <1>2 DEF Init, Ledger!Init, Ledger!None, Ledger!Pools, Pools

LEMMA StepLedger == IInv /\ [Next]_vars => [Ledger!Next]_(Ledger!vars)
  <1> SUFFICES ASSUME IInv, [Next]_vars PROVE [Ledger!Next]_(Ledger!vars)
    OBVIOUS
  <1>1. TypeOK /\ SharesOK
    BY DEF IInv
  <1>2. CASE Service
    BY <1>1, <1>2, ServiceLedger, ResponseLedger DEF Service
  <1>3. ASSUME NEW t \in Threads, Miner(t) PROVE [Ledger!Next]_(Ledger!vars)
    BY <1>1, <1>3, FindLedger, CheckLedger, ReserveLedger, QuietMinerLedger DEF Miner
  <1>4. ASSUME NEW p \in Pools, NEW s \in Slots, Expire(p, s) PROVE [Ledger!Next]_(Ledger!vars)
    BY <1>1, <1>4, ExpireLedger
  <1>5. CASE UNCHANGED vars
    <2>1. UNCHANGED <<pending, found, credits, pool_results, share_total, pc, work, attempt>>
      BY <1>5 DEF vars, tables, miners, stats, history
    <2> QED
      BY <2>1, HeldKept, Unseen
  <1> QED
    BY <1>2, <1>3, <1>4, <1>5 DEF Next

\* The submit path keeps the ledger: stratum_rpc.cpp, submit_ready_share and
\* the statistics move every share from found to counted as ShareLedger says,
\* through id reuse, reaping, failed sends and session teardown.
THEOREM LedgerKept == Spec => KeepsLedger
  BY InitLedger, StepLedger, Invariance, PTL DEF Spec, KeepsLedger, Ledger!Spec
=============================================================================
