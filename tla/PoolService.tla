----------------------------- MODULE PoolService -----------------------------
(***************************************************************************)
(* The stratum service thread (stratum_session.cpp) together with the      *)
(* dev-fee scheduler it drives (dev_fee.cpp).  There is exactly one        *)
(* service thread.  It connects to one pool at a time, logs in, runs the   *)
(* message loop, fails over, pauses between rounds of failed attempts, and *)
(* moves to the hidden dev-fee slot for one slice per cycle.               *)
(*                                                                         *)
(* Around it run the pools (reachable or not, silent or talking, closing   *)
(* connections, redirecting), the miner threads (which ask for a reconnect *)
(* when the submit queue stalls), the main thread (which aborts and then   *)
(* shuts the sockets down once) and the clock.                             *)
(*                                                                         *)
(* Time is relative: until, timer and silent are the seconds that the code *)
(* derives from time(NULL), so no bound on the clock is needed.            *)
(***************************************************************************)
EXTENDS Integers, FiniteSets

CONSTANTS
    NumUserPools,   \* pools the user configured: slots 0 .. NumUserPools-1
    Usable,         \* the user slots that miner_pool_is_usable accepts
    DevFee,         \* TRUE when devfee_install_pool added the hidden slot
    NumTargets,     \* devfee_count_targets: length of the dev target list
    SliceSeconds,   \* g_devfee.slice_seconds
    CycleSeconds,   \* g_devfee.cycle_seconds
    OptRetries,     \* opt_retries; -1 retries forever
    RetryPause,     \* opt_retry_pause
    PoolTimeout,    \* miner_get_pool_timeout
    KeepaliveSec,   \* STRATUM_IDLE_KEEPALIVE_SEC; 0 if the protocol has none
    OpenTimeout,    \* bound: longest time opening the transport takes
    ReplyTimeout,   \* the deadline of the subscribe (both attempts) or login
    XnonceTimeout,  \* the deadline of the extranonce subscribe
    RetryCap,       \* bound: retry_count saturates here (only compared with
                    \* OptRetries, so any cap above it changes nothing)
    MaxLate         \* bound: reconnect requests in flight at the same time

ASSUME PoolServiceAssumption ==
    /\ NumUserPools \in Nat \ {0}
    /\ Usable \subseteq 0 .. NumUserPools-1
    /\ Usable # {}
    /\ DevFee \in BOOLEAN
    /\ NumTargets \in Nat \ {0}
    /\ SliceSeconds \in Nat /\ SliceSeconds >= 4
    /\ CycleSeconds \in Nat /\ CycleSeconds >= SliceSeconds
    /\ OptRetries \in Int /\ OptRetries >= -1
    /\ RetryPause \in Nat
    /\ PoolTimeout \in Nat \ {0}
    /\ KeepaliveSec \in Nat
    /\ OpenTimeout \in Nat /\ ReplyTimeout \in Nat /\ XnonceTimeout \in Nat
    /\ RetryCap \in Nat /\ RetryCap > OptRetries
    /\ MaxLate \in Nat

Dev == NumUserPools
num_pools == IF DevFee THEN NumUserPools + 1 ELSE NumUserPools
Pools == 0 .. num_pools-1

(***************************************************************************)
(* bound says what limits the recv that is in progress: the pool timeout,  *)
(* the idle keepalive, or the next slice boundary.                         *)
(***************************************************************************)
Bounds == {"pool", "keepalive", "devfee"}

(***************************************************************************)
(* The waits of the handshake: for the reply to subscribe (or to RandomX's *)
(* login), to authorize, and to the extranonce subscribe.  Their loop,     *)
(* stratum_wait_for_response, hands every other line to the dispatcher and *)
(* looks neither at the abort flag nor at the reconnect request.           *)
(***************************************************************************)
Handshake == {"reply", "authorize", "extranonce"}
Labels == Handshake \cup {"top", "connect", "recv", "after", "disc", "pause", "done"}

VARIABLES
    \* the service thread
    pc, cur, retry_count, retry_cycle_start, timer, bound, silent,
    \* session state other threads touch
    open,                 \* pools whose transport is open
    lost,                 \* the open transport was closed or shut down
    reconnect_requested,  \* pools whose flag is set
    late,                 \* a miner thread is about to request a reconnect
    aborting,             \* miner_should_abort()
    stopped,              \* the main thread has shut the sockets down
    up,                   \* pools that accept a connection and answer in time
    \* g_devfee
    in_slice, user_pool_index, until, cur_target, dev_redirected,
    \* history
    failed,               \* user pools whose attempt failed in this round
    dev_fault             \* the dev pool misbehaved in this slice

thread    == <<pc, cur, retry_count, retry_cycle_start>>
clocks    == <<timer, bound, silent>>
transport == <<open, lost>>
requests  == <<reconnect_requested, late>>
devfee    == <<in_slice, user_pool_index, until, cur_target, dev_redirected>>
history   == <<failed, dev_fault>>
control   == <<aborting, stopped>>
vars == <<thread, clocks, transport, requests, control, up, devfee, history>>

TypeOK ==
    /\ pc \in Labels
    /\ cur \in Pools
    /\ retry_count \in 0 .. RetryCap
    /\ retry_cycle_start \in Pools
    /\ timer \in Nat
    /\ bound \in Bounds
    /\ silent \in Nat
    /\ open \subseteq Pools
    /\ lost \in BOOLEAN
    /\ reconnect_requested \subseteq Pools
    /\ late \subseteq Pools
    /\ aborting \in BOOLEAN
    /\ stopped \in BOOLEAN
    /\ up \subseteq Pools
    /\ in_slice \in BOOLEAN
    /\ user_pool_index \in Pools
    /\ until \in 0 .. CycleSeconds
    /\ cur_target \in 0 .. NumTargets-1
    /\ dev_redirected \in BOOLEAN
    /\ failed \subseteq Pools
    /\ dev_fault \in BOOLEAN

-----------------------------------------------------------------------------
(* Helpers of stratum_session.cpp and dev_fee.cpp. *)

\* The usable pool with the smallest offset after i, else i itself.
find_next_pool_index(i) ==
    LET offsets == {o \in 1 .. num_pools-1 : (i + o) % num_pools \in Usable}
    IN  IF offsets = {}
        THEN i
        ELSE (i + (CHOOSE o \in offsets : \A x \in offsets : o <= x)) % num_pools

devfee_is_dev_pool(i) == DevFee /\ i = Dev

\* Bug: a boundary is due a second early.
DueEarly == DevFee /\ until <= 1

devfee_transition_due == DevFee /\ until = 0

\* Closing the transport also resets the published work and the pending
\* submits of the session; those are the subject of ShareSubmit.
stratum_disconnect(p) ==
    /\ open' = open \ {p}
    /\ lost' = FALSE

stratum_reset_retry_cycle ==
    /\ retry_count' = 0
    /\ retry_cycle_start' = cur

\* The slot gets the URL of target t, which drops any redirect.
devfee_set_pool_target(t) ==
    /\ cur_target' = t
    /\ dev_redirected' = FALSE

CanAdvanceTarget ==
    /\ in_slice
    /\ cur_target + 1 < NumTargets
    /\ until >= SliceSeconds \div 4

devfee_advance_target ==
    /\ CanAdvanceTarget
    /\ devfee_set_pool_target(cur_target + 1)
    /\ UNCHANGED <<in_slice, user_pool_index, until>>

\* Bug: the slice is skipped and stays marked as running.
AbortKeepsInSlice ==
    /\ ~CanAdvanceTarget
    /\ until' = CycleSeconds
    /\ UNCHANGED <<in_slice, user_pool_index, cur_target, dev_redirected>>

devfee_abort_slice ==
    /\ ~CanAdvanceTarget
    /\ in_slice' = FALSE
    /\ until' = CycleSeconds
    /\ UNCHANGED <<user_pool_index, cur_target, dev_redirected>>

\* Slice start: remember the user's pool and go to the head of the list.
BeginSlice ==
    /\ ~in_slice
    /\ in_slice' = TRUE
    /\ user_pool_index' = cur
    /\ until' = SliceSeconds
    /\ IF cur_target # 0
       THEN devfee_set_pool_target(0)
       ELSE UNCHANGED <<cur_target, dev_redirected>>
    /\ cur' = Dev
    /\ dev_fault' = FALSE

EndSlice ==
    /\ in_slice
    /\ in_slice' = FALSE
    /\ until' = CycleSeconds
    /\ cur' = user_pool_index
    /\ UNCHANGED <<user_pool_index, cur_target, dev_redirected, dev_fault>>

devfee_take_transition == BeginSlice \/ EndSlice

(***************************************************************************)
(* The head of the message loop: leave on abort, on a requested reconnect  *)
(* or at a slice boundary; otherwise block in recv, for the pool timeout   *)
(* cut down to the keepalive interval and to the next boundary.            *)
(***************************************************************************)
IdleBound == IF KeepaliveSec > 0 /\ PoolTimeout > KeepaliveSec
             THEN KeepaliveSec ELSE PoolTimeout

\* Bug: the slice boundary is not looked at.
TimeoutWithoutBoundary == IdleBound

receive_timeout ==
    IF DevFee /\ until < IdleBound THEN until ELSE IdleBound

receive_bound ==
    IF DevFee /\ until < IdleBound THEN "devfee"
    ELSE IF IdleBound < PoolTimeout THEN "keepalive" ELSE "pool"

LeaveLoop ==
    /\ pc' = "after"
    /\ timer' = 0
    /\ silent' = 0
    /\ UNCHANGED bound

\* Bug: an abort is not noticed while lines keep coming.
LoopHeadIgnoresAbort(quiet) ==
    IF cur \in reconnect_requested' \/ devfee_transition_due
    THEN LeaveLoop
    ELSE /\ pc' = "recv"
         /\ timer' = receive_timeout
         /\ bound' = receive_bound
         /\ silent' = quiet

LoopHead(quiet) ==
    IF aborting \/ cur \in reconnect_requested' \/ devfee_transition_due
    THEN LeaveLoop
    ELSE /\ pc' = "recv"
         /\ timer' = receive_timeout
         /\ bound' = receive_bound
         /\ silent' = quiet

-----------------------------------------------------------------------------
(* The service thread, one action per stretch of code between two points   *)
(* where it blocks or reads a variable that other threads write.           *)

\* while (!miner_should_abort()): start an attempt or leave the thread.
Top ==
    /\ pc = "top"
    /\ pc' = IF aborting THEN "done" ELSE "connect"
    /\ open' = IF aborting THEN open ELSE open \cup {cur}
    /\ timer' = IF aborting THEN 0 ELSE OpenTimeout
    /\ UNCHANGED <<cur, retry_count, retry_cycle_start, bound, silent, lost, requests,
                   control, up, devfee, history>>

\* stratum_connect succeeded and the subscribe (or login) request is out.  A
\* pool that is not up may get as far: it is silent, or talks of other things.
Connected ==
    /\ pc = "connect" /\ ~lost
    /\ pc' = "reply"
    /\ timer' = ReplyTimeout
    /\ UNCHANGED <<cur, retry_count, retry_cycle_start, bound, silent, transport, requests,
                   control, up, devfee, history>>

\* RandomX, the one protocol with keepalives, logs in with a single call.
is_randomx == KeepaliveSec > 0

Answered == cur \in up /\ cur \in open /\ ~lost

\* The pool accepted the subscribe, then the authorize request.  The wait for
\* the latter is called with a timeout of 0: no deadline, only the pool
\* timeout for each line.
Reply ==
    /\ Answered
    /\ \/ /\ pc = "reply" /\ ~is_randomx
          /\ pc' = "authorize" /\ timer' = PoolTimeout
       \/ /\ pc = "authorize"
          /\ pc' = "extranonce" /\ timer' = XnonceTimeout
    /\ UNCHANGED <<cur, retry_count, retry_cycle_start, bound, silent, transport, requests,
                   control, up, devfee, history>>

\* Another line arrives in the wait for the authorize reply, which starts anew.
OtherLine ==
    /\ pc = "authorize" /\ cur \in open /\ ~lost
    /\ timer' = PoolTimeout
    /\ UNCHANGED <<thread, bound, silent, transport, requests, control, up, devfee, history>>

\* Bug: the service thread stays on the dev slot of a skipped slice.
OpenFailDevStays ==
    /\ devfee_is_dev_pool(cur)
    /\ devfee_advance_target \/ devfee_abort_slice
    /\ pc' = "top"
    /\ dev_fault' = TRUE
    /\ UNCHANGED <<cur, failed>>

\* The attempt failed on the dev slot: next target or skip the slice,
\* without touching the retry bookkeeping.
OpenFailDev ==
    /\ devfee_is_dev_pool(cur)
    /\ \/ devfee_advance_target /\ UNCHANGED cur
       \/ devfee_abort_slice /\ cur' = user_pool_index
    /\ pc' = "top"
    /\ dev_fault' = TRUE
    /\ UNCHANGED failed

OpenFailUser ==
    /\ ~devfee_is_dev_pool(cur)
    /\ pc' = "disc"
    /\ failed' = failed \cup {cur}
    /\ UNCHANGED <<cur, devfee, dev_fault>>

\* stratum_open_pool_connection returned false ...
SetupFails ==
    /\ stratum_disconnect(cur)
    /\ OpenFailDev \/ OpenFailUser
    /\ timer' = 0
    /\ UNCHANGED <<retry_count, retry_cycle_start, bound, silent, requests, control, up>>

\* ... for the pool cannot be reached, its reply did not come in time, the
\* socket was shut down or a redirect closed it under the handshake ...
OpenFail ==
    /\ \/ pc = "connect" /\ (cur \notin up \/ lost)
       \/ /\ pc \in {"reply", "authorize"}
          /\ cur \notin open \/ lost \/ (timer = 0 /\ cur \notin up)
    /\ SetupFails

\* ... or the pool closed the connection, sent no JSON, or said no.
Refused ==
    /\ pc \in {"reply", "authorize"} /\ cur \notin up
    /\ SetupFails

\* It returned true, after the login or after the extranonce subscribe, whose
\* outcome does not matter: reset the retry cycle and enter the message loop.
OpenOk ==
    /\ \/ pc = "reply" /\ is_randomx /\ Answered
       \/ pc = "extranonce"
    /\ stratum_reset_retry_cycle
    /\ UNCHANGED reconnect_requested
    /\ LoopHead(0)
    /\ failed' = IF devfee_is_dev_pool(cur) THEN failed ELSE {}
    /\ UNCHANGED <<cur, transport, late, control, up, devfee, dev_fault>>

\* A line arrived and its handler returned true.
RecvLine ==
    /\ pc = "recv"
    /\ UNCHANGED reconnect_requested
    /\ LoopHead(0)
    /\ UNCHANGED <<cur, retry_count, retry_cycle_start, transport, late, control,
                   up, devfee, history>>

\* A line arrived and its handler reported a fatal protocol error.
RecvFatal ==
    /\ pc = "recv"
    /\ LeaveLoop
    /\ dev_fault' = (dev_fault \/ devfee_is_dev_pool(cur))
    /\ UNCHANGED <<cur, retry_count, retry_cycle_start, transport, requests,
                   control, up, devfee, failed>>

\* client.reconnect: retarget the slot, raise the flag, drop the connection.
\* The loop head then leaves the loop; in a handshake the wait goes on and
\* finds the connection closed.
stratum_reconnect ==
    /\ pc \in Handshake \cup {"recv"} /\ cur \in open
    /\ reconnect_requested' = reconnect_requested \cup {cur}
    /\ stratum_disconnect(cur)
    /\ \/ pc = "recv" /\ LoopHead(0)
       \/ pc # "recv" /\ UNCHANGED <<pc, clocks>>
    /\ dev_redirected' = (dev_redirected \/ devfee_is_dev_pool(cur))
    /\ dev_fault' = (dev_fault \/ devfee_is_dev_pool(cur))
    /\ UNCHANGED <<cur, retry_count, retry_cycle_start, late, control, up, in_slice,
                   user_pool_index, until, cur_target, failed>>

\* recv failed because the transport is gone.
RecvLost ==
    /\ pc = "recv" /\ lost
    /\ LeaveLoop
    /\ UNCHANGED <<cur, retry_count, retry_cycle_start, transport, requests,
                   control, up, devfee, history>>

\* Bug: as long as keepalives can be sent the connection is kept.
KeepaliveSuffices ==
    /\ pc = "recv" /\ timer = 0 /\ ~lost
    /\ UNCHANGED reconnect_requested
    /\ IF bound # "pool"
       THEN LoopHead(silent) /\ UNCHANGED dev_fault
       ELSE LeaveLoop /\ dev_fault' = (dev_fault \/ devfee_is_dev_pool(cur))
    /\ UNCHANGED <<cur, retry_count, retry_cycle_start, transport, late, control,
                   up, devfee, failed>>

\* recv timed out: against the slice boundary it is no error; against the
\* keepalive the pool is pinged unless it has been silent for too long.
RecvTimeout ==
    /\ pc = "recv" /\ timer = 0 /\ ~lost
    /\ UNCHANGED reconnect_requested
    /\ IF \/ bound = "devfee"
          \/ bound = "keepalive" /\ silent < PoolTimeout
       THEN LoopHead(silent) /\ UNCHANGED dev_fault
       ELSE LeaveLoop /\ dev_fault' = (dev_fault \/ devfee_is_dev_pool(cur))
    /\ UNCHANGED <<cur, retry_count, retry_cycle_start, transport, late, control,
                   up, devfee, failed>>

\* Bug: the pool is left with its transport open.
SwitchKeepsTransport ==
    /\ devfee_transition_due /\ ~aborting /\ cur \notin reconnect_requested
    /\ devfee_take_transition
    /\ UNCHANGED transport
    /\ pc' = "top"

\* After the message loop: a due slice boundary, else a dev pool that was
\* lost in mid-slice, else the ordinary path.
SliceBoundary ==
    /\ devfee_transition_due /\ ~aborting /\ cur \notin reconnect_requested
    /\ devfee_take_transition
    /\ stratum_disconnect(cur)
    /\ pc' = "top"

DevPoolLost ==
    /\ ~(devfee_transition_due /\ cur \notin reconnect_requested)
    /\ devfee_is_dev_pool(cur) /\ ~aborting
    /\ \/ devfee_advance_target /\ UNCHANGED cur
       \/ devfee_abort_slice /\ cur' = user_pool_index
    /\ stratum_disconnect(cur)
    /\ pc' = "top"
    /\ UNCHANGED dev_fault

UserPoolLost ==
    /\ \/ aborting
       \/ /\ ~(devfee_transition_due /\ cur \notin reconnect_requested)
          /\ ~devfee_is_dev_pool(cur)
    /\ pc' = "disc"
    /\ UNCHANGED <<cur, transport, devfee, dev_fault>>

AfterLoop ==
    /\ pc = "after"
    /\ SliceBoundary \/ DevPoolLost \/ UserPoolLost
    /\ UNCHANGED <<retry_count, retry_cycle_start, clocks, requests, control, up, failed>>

\* Bug: failover goes round without end.
RoundNeverEnds(next) == FALSE

\* Failover has come round to the pool the round began with.
wrapped(next) == next # cur /\ next = retry_cycle_start

\* stratum_handle_disconnected_session, up to the retry pause.
handle_disconnected_session ==
    LET next    == find_next_pool_index(cur)
        avail   == next # cur
        count   == IF retry_count < RetryCap THEN retry_count + 1 ELSE RetryCap
    IN  /\ pc = "disc"
        /\ stratum_disconnect(cur)
        /\ \/ /\ aborting
              /\ pc' = "done"
              /\ UNCHANGED <<cur, retry_count, retry_cycle_start, timer,
                             reconnect_requested, aborting, failed>>
           \/ /\ ~aborting /\ cur \in reconnect_requested
              /\ reconnect_requested' = reconnect_requested \ {cur}
              /\ stratum_reset_retry_cycle
              /\ pc' = "top"
              /\ failed' = {}
              /\ UNCHANGED <<cur, timer, aborting>>
           \/ /\ ~aborting /\ cur \notin reconnect_requested
              /\ avail /\ ~wrapped(next)
              /\ cur' = next
              /\ pc' = "top"
              /\ UNCHANGED <<retry_count, retry_cycle_start, timer,
                             reconnect_requested, aborting, failed>>
           \/ /\ ~aborting /\ cur \notin reconnect_requested
              /\ ~avail \/ wrapped(next)
              /\ retry_count' = count
              /\ IF OptRetries >= 0 /\ count > OptRetries
                 THEN aborting' = TRUE  /\ pc' = "done"  /\ timer' = 0
                 ELSE UNCHANGED aborting /\ pc' = "pause" /\ timer' = RetryPause
              /\ UNCHANGED <<cur, retry_cycle_start, reconnect_requested, failed>>
        /\ UNCHANGED <<bound, silent, late, stopped, up, devfee, dev_fault>>

\* Bug: every pause forgets the rounds before it.
PauseResetsCount ==
    /\ pc = "pause"
    /\ aborting \/ timer = 0
    /\ timer' = 0
    /\ IF aborting
       THEN pc' = "done" /\ UNCHANGED <<cur, retry_cycle_start, failed>>
       ELSE /\ pc' = "top"
            /\ cur' = find_next_pool_index(cur)
            /\ retry_cycle_start' = cur'
            /\ failed' = {}
    /\ retry_count' = 0
    /\ UNCHANGED <<bound, silent, transport, requests, control, up, devfee, dev_fault>>

\* The rest of it: sleep opt_retry_pause seconds, then try the next pool.
wait_before_retry ==
    /\ pc = "pause"
    /\ aborting \/ timer = 0
    /\ timer' = 0
    /\ IF aborting
       THEN pc' = "done" /\ UNCHANGED <<cur, retry_cycle_start, failed>>
       ELSE /\ pc' = "top"
            /\ cur' = find_next_pool_index(cur)
            /\ retry_cycle_start' = cur'
            /\ failed' = {}
    /\ UNCHANGED <<retry_count, bound, silent, transport, requests, control, up,
                   devfee, dev_fault>>

Service ==
    \/ Top \/ Connected \/ Reply \/ OpenFail \/ OpenOk
    \/ RecvLost \/ RecvTimeout
    \/ AfterLoop \/ handle_disconnected_session \/ wait_before_retry

-----------------------------------------------------------------------------
(* The rest of the program and the world. *)

\* The seconds left to the slice boundary, one second later.
devfee_seconds_until_transition == IF DevFee /\ until > 0 THEN until - 1 ELSE until

\* One second passes while the service thread waits; what it does between
\* two waits takes no time, and it runs as soon as its wait is over.
Tick ==
    /\ pc \in Handshake \cup {"connect", "recv", "pause"}
    /\ timer > 0
    /\ until' = devfee_seconds_until_transition
    /\ timer' = timer - 1
    /\ silent' = IF pc = "recv" THEN silent + 1 ELSE silent
    /\ UNCHANGED <<thread, bound, transport, requests, control, up, in_slice,
                   user_pool_index, cur_target, dev_redirected, history>>

\* A pool starts or stops to accept connections and answer on them.
PoolUpDown(p) ==
    /\ up' = IF p \in up THEN up \ {p} ELSE up \cup {p}
    /\ UNCHANGED <<thread, clocks, transport, requests, control, devfee, history>>

\* The connection breaks.  (While it waits for a reply: Refused.)
ConnDrop ==
    /\ pc \in {"extranonce", "recv"} /\ cur \in open /\ ~lost
    /\ lost' = TRUE
    /\ dev_fault' = (dev_fault \/ devfee_is_dev_pool(cur))
    /\ UNCHANGED <<thread, clocks, open, requests, control, up, devfee, failed>>

\* A miner thread submits on the connected pool, finds the pending queue
\* stale or full, and has released submit_lock ...
SubmitStalled ==
    /\ pc = "recv"
    /\ cur \notin late
    /\ Cardinality(late) < MaxLate
    /\ late' = late \cup {cur}
    /\ UNCHANGED <<thread, clocks, transport, reconnect_requested, control, up,
                   devfee, history>>

\* ... and some time later requests the reconnect: the flag, and unless it
\* was set already, a shutdown of whatever socket the pool has by then.
submit_id_request_reconnect(p) ==
    /\ p \in late
    /\ late' = late \ {p}
    /\ reconnect_requested' = reconnect_requested \cup {p}
    /\ IF p \notin reconnect_requested /\ p \in open
       THEN lost' \in IF pc = "connect" THEN BOOLEAN ELSE {TRUE}
       ELSE UNCHANGED lost
    /\ dev_fault' = (dev_fault \/ (devfee_is_dev_pool(p) /\ in_slice))
    /\ UNCHANGED <<thread, clocks, open, control, up, devfee, failed>>

\* What the poll of the wait in progress was started with, at most.
FullWait == CASE pc = "recv"       -> IdleBound
              [] pc = "reply"      -> ReplyTimeout
              [] pc = "authorize"  -> PoolTimeout
              [] pc = "extranonce" -> XnonceTimeout
              [] OTHER             -> timer

\* SIGINT/SIGTERM or a fatal error elsewhere.  A signal that this thread gets
\* interrupts its poll, which stratum_poll_socket starts anew in full.
miner_request_abort ==
    /\ ~aborting
    /\ aborting' = TRUE
    /\ timer' \in timer .. FullWait
    /\ UNCHANGED <<thread, bound, silent, transport, requests, stopped, up, devfee, history>>

\* The main thread shuts down every pool's socket, once, before joining.  A
\* pool that is being connected may have no socket yet: nothing happens.
stop_all_pool_services ==
    /\ aborting /\ ~stopped
    /\ stopped' = TRUE
    /\ lost' \in IF open = {} THEN {lost}
                ELSE IF pc = "connect" THEN {lost, TRUE} ELSE {TRUE}
    /\ UNCHANGED <<thread, clocks, open, requests, aborting, up, devfee, history>>

Environment ==
    \/ \E p \in Pools : PoolUpDown(p)
    \/ OtherLine \/ Refused
    \/ RecvLine \/ RecvFatal \/ stratum_reconnect
    \/ ConnDrop
    \/ SubmitStalled
    \/ \E p \in Pools : submit_id_request_reconnect(p)
    \/ miner_request_abort
    \/ stop_all_pool_services

-----------------------------------------------------------------------------
Init ==
    /\ pc = "top"
    /\ cur \in {p \in Usable : \A q \in Usable : p <= q}
    /\ retry_count = 0
    /\ retry_cycle_start = cur
    /\ timer = 0
    /\ bound = "pool"
    /\ silent = 0
    /\ open = {}
    /\ lost = FALSE
    /\ reconnect_requested = {}
    /\ late = {}
    /\ aborting = FALSE
    /\ stopped = FALSE
    /\ up \in SUBSET Pools
    /\ in_slice = FALSE
    /\ user_pool_index = 0
    /\ until \in IF DevFee THEN SliceSeconds .. CycleSeconds ELSE {0}
    /\ cur_target = 0
    /\ dev_redirected = FALSE
    /\ failed = {}
    /\ dev_fault = FALSE

Next == Service \/ Tick \/ Environment

Spec == Init /\ [][Next]_vars

\* The service thread and the clock keep running, and the main thread gets to
\* its shutdown; the pools, the miner threads and the user owe nothing.
FairSpec == Spec /\ WF_vars(Service) /\ SF_vars(Tick) /\ WF_vars(stop_all_pool_services)

-----------------------------------------------------------------------------
(* Properties. *)

\* The service thread is on the hidden dev slot exactly while a slice is
\* running; otherwise it is on a pool the user configured and did not
\* disable.  During a slice the pool to return to is such a pool.  (Failover
\* goes through stratum_find_next_pool_index, slices through g_devfee: two
\* pieces of state that must never disagree.)
PoolSelection ==
    IF in_slice THEN DevFee /\ cur = Dev /\ user_pool_index \in Usable
                ELSE cur \in Usable

\* At most one pool has an open transport, and it is the one the service
\* thread works on: every switch disconnects the pool it leaves.
OneTransport == open \subseteq {cur}

\* The message loop never sits in recv past a slice boundary: the receive
\* timeout is cut down to the time that is left.  (The signal of an abort can
\* start the wait anew.)
NoWaitPastBoundary ==
    [][pc = "recv" /\ silent' > silent => aborting \/ ~devfee_transition_due]_vars

\* A connection on which nothing arrives is given up within the pool timeout
\* plus one keepalive interval, however often keepalives were sent; only the
\* signal of an abort can prolong the last wait.
SilenceBounded == aborting \/ silent < PoolTimeout + KeepaliveSec + 1

\* Within one round no pool is tried twice: after every usable pool has
\* failed, the retry pause (and the retry limit) comes first.
PacedRetries == pc = "connect" => cur \notin failed

\* After an abort the service thread ends, unless the pool keeps it in the wait
\* for the authorize reply: even when the one shutdown of the sockets came
\* while there was none yet, the attempt ends and the next loop head or the
\* next round sees the abort.  (A pool that talks of other things for ever can
\* keep the thread in that wait, which neither has a deadline nor looks at the
\* abort.)
ServiceStops == []<>(pc # "authorize") => (aborting ~> pc = "done")

\* With a retry limit, if from some time on no pool accepts a connection and
\* no session is left, the miner gives up.
RetryLimitReached ==
    OptRetries >= 0 /\ <>[](up = {} /\ pc \notin Handshake \cup {"recv"})
        => <>(pc = "done")

\* A redirect before the session is set up: the same slot is tried again,
\* without pause and without failover.
HandshakeReconnect == pc \in Handshake /\ cur \in Usable /\ stratum_reconnect

\* A line that is not the authorize reply, and so late that the session is
\* set up only when the next slice boundary is due, if at all.
HeldUp == OtherLine /\ (DevFee => until =< PoolTimeout + XnonceTimeout)

\* If some usable pool stays reachable, the miner keeps coming back to a
\* connected user pool, whatever other pools and dev-fee slices do, unless
\* time and again a pool talks of other things up to the slice boundary while
\* the miner waits for its authorize reply, or a user pool redirects it in
\* the handshake.
UserMiningResumes ==
    (\E p \in Usable : <>[](p \in up))
        => \/ []<>(pc = "done" \/ (pc = "recv" /\ cur \in Usable))
           \/ []<><<HeldUp>>_vars
           \/ []<><<HandshakeReconnect>>_vars

\* A slice that ends before its time does so for a cause: the dev pool was
\* unreachable, dropped, sent a fatal line or asked for a reconnect in this
\* slice, or the flag of an earlier request is still up (nothing clears the
\* flag of the dev slot).
SliceCutForCause ==
    [][in_slice /\ ~in_slice' /\ until > 0 => dev_fault' \/ Dev \in reconnect_requested]_vars
=============================================================================
