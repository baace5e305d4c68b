-------------------------- MODULE PoolServiceProofs --------------------------
(***************************************************************************)
(* Safety of the service thread for every number of pools, every dev-fee   *)
(* schedule and every timeout.                                             *)
(***************************************************************************)
EXTENDS PoolService, WellFoundedInduction, TLAPS

-----------------------------------------------------------------------------
(* Lemmas about the helpers. *)

\* A set of numbers has a least element.
LEMMA LeastElement ==
    ASSUME NEW S, S \subseteq Nat, S # {}
    PROVE  \E o \in S : \A x \in S : o <= x
  <1> DEFINE R == OpToRel(<, Nat)
  <1>1. IsWellFoundedOn(R, Nat)
    BY NatLessThanWellFounded, Zenon
  <1>2. \A x, y \in Nat : x < y => <<x, y>> \in R
    BY DEF OpToRel
  <1> HIDE DEF R
  <1>3. PICK o \in S : \A x \in S : ~(<<x, o>> \in R)
    BY <1>1, WFMin
  <1>4. ASSUME NEW x \in S PROVE o <= x
    <2>1. x \in Nat /\ o \in Nat
      OBVIOUS
    <2>2. ~(x < o)
      BY <1>2, <1>3, <2>1, Zenon
    <2> QED
      BY <2>1, <2>2
  <1> QED
    BY <1>4

\* The user slots and the dev slot are pools, and the dev slot is not usable.
LEMMA PoolFacts ==
    /\ num_pools \in Nat \ {0}
    /\ Usable \subseteq Pools
    /\ Dev \notin Usable
    /\ DevFee => Dev \in Pools
  BY PoolServiceAssumption DEF num_pools, Pools, Dev

\* Failover goes to a usable pool or stays where it is.
LEMMA FailoverTarget ==
    ASSUME NEW i \in Pools
    PROVE  find_next_pool_index(i) \in Usable \cup {i}
  <1> DEFINE offsets == {o \in 1 .. num_pools-1 : (i + o) % num_pools \in Usable}
  <1>1. CASE offsets = {}
    BY <1>1 DEF find_next_pool_index
  <1>2. CASE offsets # {}
    <2>1. offsets \subseteq Nat
      BY PoolFacts
    <2>2. \E o \in offsets : \A x \in offsets : o <= x
      BY <1>2, <2>1, LeastElement
    <2> DEFINE first == CHOOSE o \in offsets : \A x \in offsets : o <= x
    <2>3. first \in offsets
      BY <2>2
    <2>4. find_next_pool_index(i) = (i + first) % num_pools
      BY <1>2 DEF find_next_pool_index
    <2> QED
      BY <2>3, <2>4
  <1> QED
    BY <1>1, <1>2

\* The receive timeout is a number of seconds within the pool timeout, and
\* with the dev fee on it ends at the next slice boundary at the latest.
LEMMA ReceiveTimeout ==
    ASSUME until \in Nat
    PROVE  /\ receive_timeout \in Nat
           /\ receive_timeout <= PoolTimeout
           /\ DevFee => receive_timeout <= until
           /\ KeepaliveSec > 0 /\ receive_bound = "keepalive"
                => receive_timeout <= KeepaliveSec
           /\ receive_bound = "keepalive" => KeepaliveSec > 0
           /\ receive_bound = "devfee" => DevFee /\ receive_timeout = until
           /\ receive_bound \in Bounds
  BY PoolServiceAssumption DEF receive_timeout, receive_bound, IdleBound, Bounds

-----------------------------------------------------------------------------
(* The inductive invariant. *)

\* A thread that pauses holds no transport; outside an abort, failover
\* bookkeeping is only ever done for a user pool.
Settled ==
    /\ pc = "pause" => open = {} /\ ~in_slice
    /\ pc = "disc" => aborting \/ ~in_slice

\* What a recv in progress still may wait, unless a signal started it anew.
WaitBounded ==
    /\ pc # "recv" => silent = 0
    /\ pc = "recv" /\ ~aborting =>
         /\ DevFee => timer <= until
         /\ bound = "devfee" => DevFee /\ timer = until
         /\ bound = "keepalive" => KeepaliveSec > 0 /\ PoolTimeout > KeepaliveSec
         /\ silent + timer <= PoolTimeout + KeepaliveSec

IInv == TypeOK /\ PoolSelection /\ OneTransport /\ Settled /\ WaitBounded

LEMMA InitInv == Init => IInv
  <1> SUFFICES ASSUME Init PROVE IInv
    OBVIOUS
  <1> USE DEF Init
  <1>1. TypeOK
    <2>1. cur \in Pools /\ retry_cycle_start \in Pools /\ user_pool_index \in Pools
      BY PoolFacts DEF Pools
    <2>2. until \in 0 .. CycleSeconds
      BY PoolServiceAssumption
    <2>3. retry_count \in 0 .. RetryCap /\ cur_target \in 0 .. NumTargets-1
      BY PoolServiceAssumption
    <2> QED
      BY <2>1, <2>2, <2>3 DEF TypeOK, Labels, Bounds
  <1>2. PoolSelection /\ OneTransport /\ Settled /\ WaitBounded
    BY DEF PoolSelection, OneTransport, Settled, WaitBounded
  <1> QED
    BY <1>1, <1>2 DEF IInv

\* The loop head keeps the types and bounds of what it sets.
LEMMA LoopHeadStep ==
    ASSUME IInv, NEW quiet \in Nat, LoopHead(quiet), UNCHANGED <<until, aborting>>,
           quiet = 0 \/ aborting \/ devfee_transition_due
             \/ (quiet < PoolTimeout /\ KeepaliveSec > 0 /\ PoolTimeout > KeepaliveSec)
    PROVE  /\ pc' \in {"recv", "after"}
           /\ timer' \in Nat /\ bound' \in Bounds /\ silent' \in Nat
           /\ WaitBounded'
  <1>1. until \in Nat /\ bound \in Bounds
    BY PoolServiceAssumption DEF IInv, TypeOK
  <1>2. CASE aborting \/ cur \in reconnect_requested' \/ devfee_transition_due
    BY <1>1, <1>2 DEF LoopHead, LeaveLoop, WaitBounded
  <1>3. CASE ~(aborting \/ cur \in reconnect_requested' \/ devfee_transition_due)
    <2>1. /\ pc' = "recv" /\ timer' = receive_timeout
          /\ bound' = receive_bound /\ silent' = quiet
      BY <1>3 DEF LoopHead
    <2>2. quiet + receive_timeout <= PoolTimeout + KeepaliveSec
      <3>1. CASE quiet = 0
        BY <1>1, <3>1, ReceiveTimeout, PoolServiceAssumption
      <3>2. CASE quiet < PoolTimeout /\ KeepaliveSec > 0 /\ PoolTimeout > KeepaliveSec
        <4>1. receive_timeout <= KeepaliveSec
          BY <1>1, <3>2, PoolServiceAssumption DEF receive_timeout, IdleBound
        <4> QED
          BY <1>1, <3>2, <4>1, ReceiveTimeout, PoolServiceAssumption
      <3> QED
        BY <1>3, <3>1, <3>2
    <2>3. receive_bound = "keepalive" => KeepaliveSec > 0 /\ PoolTimeout > KeepaliveSec
      BY PoolServiceAssumption DEF receive_bound, IdleBound
    <2> QED
      BY <1>1, <2>1, <2>2, <2>3, ReceiveTimeout DEF WaitBounded
  <1> QED
    BY <1>2, <1>3

-----------------------------------------------------------------------------
(* One step per action. *)

LEMMA TopStep == IInv /\ Top => IInv'
  BY PoolServiceAssumption
     DEF Top, IInv, TypeOK, PoolSelection, OneTransport, Settled, WaitBounded, Labels,
         requests, control, devfee, history

\* The steps of the handshake move the thread and its timer only.
LEMMA HandshakeStep == IInv /\ (Connected \/ Reply \/ OtherLine) => IInv'
  <1> SUFFICES ASSUME IInv, Connected \/ Reply \/ OtherLine PROVE IInv'
    OBVIOUS
  <1>1. /\ pc' \in Handshake /\ pc # "recv"
        /\ timer' \in {ReplyTimeout, PoolTimeout, XnonceTimeout}
        /\ UNCHANGED <<cur, retry_count, retry_cycle_start, bound, silent, open, lost,
                       reconnect_requested, late, aborting, stopped, up, in_slice,
                       user_pool_index, until, cur_target, dev_redirected, failed, dev_fault>>
    BY DEF Connected, Reply, OtherLine, Handshake, thread, transport, requests, control, devfee,
           history
  <1>2. timer' \in Nat
    BY <1>1, PoolServiceAssumption
  <1> QED
    BY <1>1, <1>2 DEF IInv, TypeOK, PoolSelection, OneTransport, Settled, WaitBounded, Labels,
                      Handshake

\* Either way out of a failing dev slot: another target for the rest of the
\* slice, or back to the user's pool.
LEMMA DevSlotStep ==
    ASSUME IInv, devfee_is_dev_pool(cur),
           \/ devfee_advance_target /\ UNCHANGED cur
           \/ devfee_abort_slice /\ cur' = user_pool_index
    PROVE  /\ cur' \in Pools /\ in_slice' \in BOOLEAN /\ user_pool_index' \in Pools
           /\ until' \in 0 .. CycleSeconds /\ cur_target' \in 0 .. NumTargets-1
           /\ dev_redirected' \in BOOLEAN
           /\ PoolSelection'
  <1>1. in_slice /\ DevFee /\ cur = Dev /\ user_pool_index \in Usable
    BY PoolFacts DEF IInv, PoolSelection, devfee_is_dev_pool
  <1>2. CASE devfee_advance_target /\ UNCHANGED cur
    <2>1. /\ UNCHANGED <<cur, in_slice, user_pool_index, until>>
          /\ cur_target' = cur_target + 1 /\ cur_target + 1 < NumTargets
          /\ dev_redirected' = FALSE
      BY <1>2 DEF devfee_advance_target, CanAdvanceTarget, devfee_set_pool_target
    <2>2. cur_target' \in 0 .. NumTargets-1
      BY <2>1, PoolServiceAssumption DEF IInv, TypeOK
    <2>3. PoolSelection'
      BY <1>1, <2>1 DEF PoolSelection
    <2> QED
      BY <2>1, <2>2, <2>3 DEF IInv, TypeOK
  <1>3. CASE devfee_abort_slice /\ cur' = user_pool_index
    <2>1. /\ cur' = user_pool_index /\ in_slice' = FALSE /\ until' = CycleSeconds
          /\ UNCHANGED <<user_pool_index, cur_target, dev_redirected>>
      BY <1>3 DEF devfee_abort_slice
    <2>2. until' \in 0 .. CycleSeconds
      BY <2>1, PoolServiceAssumption
    <2>3. PoolSelection'
      BY <1>1, <2>1 DEF PoolSelection
    <2> QED
      BY <2>1, <2>2, <2>3 DEF IInv, TypeOK
  <1> QED
    BY <1>2, <1>3

LEMMA OpenFailStep == IInv /\ (OpenFail \/ Refused) => IInv'
  <1> SUFFICES ASSUME IInv, OpenFail \/ Refused PROVE IInv'
    OBVIOUS
  <1>0. SetupFails /\ pc # "recv"
    BY DEF OpenFail, Refused
  <1>1. open' = {} /\ lost' = FALSE /\ silent' = 0 /\ timer' = 0
    BY <1>0 DEF SetupFails, stratum_disconnect, IInv, OneTransport, WaitBounded
  <1>2. CASE OpenFailDev
    <2>1. pc' = "top" /\ dev_fault' = TRUE /\ failed' = failed
      BY <1>2 DEF OpenFailDev
    <2>2. /\ cur' \in Pools /\ in_slice' \in BOOLEAN /\ user_pool_index' \in Pools
          /\ until' \in 0 .. CycleSeconds /\ cur_target' \in 0 .. NumTargets-1
          /\ dev_redirected' \in BOOLEAN
          /\ PoolSelection'
      BY <1>2, DevSlotStep DEF OpenFailDev
    <2> QED
      BY <1>0, <1>1, <2>1, <2>2
         DEF SetupFails, IInv, TypeOK, OneTransport, Settled, WaitBounded, Labels, requests,
             control
  <1>3. CASE OpenFailUser
    BY <1>0, <1>1, <1>3
       DEF SetupFails, OpenFailUser, devfee_is_dev_pool, devfee, IInv, TypeOK, PoolSelection,
           OneTransport, Settled, WaitBounded, Labels, requests, control
  <1> QED
    BY <1>0, <1>2, <1>3 DEF SetupFails

LEMMA OpenOkStep == IInv /\ OpenOk => IInv'
  <1> SUFFICES ASSUME IInv, OpenOk PROVE IInv'
    OBVIOUS
  <1>1. /\ pc' \in {"recv", "after"}
        /\ timer' \in Nat /\ bound' \in Bounds /\ silent' \in Nat
        /\ WaitBounded'
    BY LoopHeadStep DEF OpenOk, devfee, control
  <1> QED
    BY <1>1, PoolServiceAssumption
       DEF OpenOk, stratum_reset_retry_cycle, transport, control, devfee, IInv, TypeOK,
           PoolSelection, OneTransport, Settled, Labels

LEMMA RecvLineStep == IInv /\ RecvLine => IInv'
  <1> SUFFICES ASSUME IInv, RecvLine PROVE IInv'
    OBVIOUS
  <1>1. /\ pc' \in {"recv", "after"}
        /\ timer' \in Nat /\ bound' \in Bounds /\ silent' \in Nat
        /\ WaitBounded'
    BY LoopHeadStep DEF RecvLine, control, devfee
  <1> QED
    BY <1>1 DEF RecvLine, transport, control, devfee, history, IInv, TypeOK, PoolSelection,
                OneTransport, Settled, Labels

LEMMA ReconnectStep == IInv /\ stratum_reconnect => IInv'
  <1> SUFFICES ASSUME IInv, stratum_reconnect PROVE IInv'
    OBVIOUS
  <1>1. /\ pc' \in Handshake \cup {"recv", "after"}
        /\ timer' \in Nat /\ bound' \in Bounds /\ silent' \in Nat
        /\ WaitBounded'
    <2>1. CASE pc = "recv"
      BY <2>1, LoopHeadStep DEF stratum_reconnect, control
    <2>2. CASE pc # "recv"
      BY <2>2 DEF stratum_reconnect, clocks, IInv, TypeOK, WaitBounded
    <2> QED
      BY <2>1, <2>2
  <1>2. open' \subseteq {cur} /\ open' \subseteq Pools
    BY DEF stratum_reconnect, stratum_disconnect, IInv, OneTransport, TypeOK
  <1>3. dev_redirected' \in BOOLEAN /\ dev_fault' \in BOOLEAN
    BY DEF stratum_reconnect
  <1> QED
    BY <1>1, <1>2, <1>3
       DEF stratum_reconnect, stratum_disconnect, control, IInv, TypeOK, PoolSelection,
           OneTransport, Settled, Labels, Handshake

LEMMA LeaveLoopStep == IInv /\ (RecvFatal \/ RecvLost) => IInv'
  <1> SUFFICES ASSUME IInv, RecvFatal \/ RecvLost PROVE IInv'
    OBVIOUS
  <1>1. /\ pc' = "after" /\ timer' = 0 /\ silent' = 0
        /\ UNCHANGED <<bound, cur, retry_count, retry_cycle_start, open, lost,
                       reconnect_requested, late, aborting, stopped, up, in_slice,
                       user_pool_index, until, cur_target, dev_redirected, failed>>
    BY DEF RecvFatal, RecvLost, LeaveLoop, transport, requests, control, devfee, history
  <1>2. dev_fault' \in BOOLEAN
    BY DEF RecvFatal, RecvLost, history, IInv, TypeOK
  <1> QED
    BY <1>1, <1>2 DEF IInv, TypeOK, PoolSelection, OneTransport, Settled, WaitBounded, Labels

LEMMA RecvTimeoutStep == IInv /\ RecvTimeout => IInv'
  <1> SUFFICES ASSUME IInv, RecvTimeout PROVE IInv'
    OBVIOUS
  <1>1. /\ pc' \in {"recv", "after"}
        /\ timer' \in Nat /\ bound' \in Bounds /\ silent' \in Nat
        /\ WaitBounded'
    <2>1. CASE \/ bound = "devfee"
               \/ bound = "keepalive" /\ silent < PoolTimeout
      <3>1. \/ aborting \/ devfee_transition_due
            \/ silent < PoolTimeout /\ KeepaliveSec > 0 /\ PoolTimeout > KeepaliveSec
        BY <2>1 DEF RecvTimeout, IInv, WaitBounded, devfee_transition_due
      <3> QED
        BY <2>1, <3>1, LoopHeadStep DEF RecvTimeout, control, devfee, IInv, TypeOK
    <2>2. CASE ~(\/ bound = "devfee"
                 \/ bound = "keepalive" /\ silent < PoolTimeout)
      BY <2>2 DEF RecvTimeout, LeaveLoop, IInv, TypeOK, WaitBounded
    <2> QED
      BY <2>1, <2>2
  <1>2. dev_fault' \in BOOLEAN
    BY DEF RecvTimeout, IInv, TypeOK
  <1> QED
    BY <1>1, <1>2 DEF RecvTimeout, transport, control, devfee, IInv, TypeOK, PoolSelection,
                      OneTransport, Settled, Labels

LEMMA TransitionStep ==
    ASSUME IInv, devfee_transition_due, devfee_take_transition
    PROVE  /\ cur' \in Pools /\ in_slice' \in BOOLEAN /\ user_pool_index' \in Pools
           /\ until' \in 0 .. CycleSeconds /\ cur_target' \in 0 .. NumTargets-1
           /\ dev_redirected' \in BOOLEAN /\ dev_fault' \in BOOLEAN
           /\ PoolSelection'
  <1>1. DevFee
    BY DEF devfee_transition_due
  <1>2. CASE BeginSlice
    <2>1. cur \in Usable
      BY <1>2 DEF BeginSlice, IInv, PoolSelection
    <2>2. cur_target' \in 0 .. NumTargets-1 /\ dev_redirected' \in BOOLEAN
      <3>1. \/ cur_target' = 0 /\ dev_redirected' = FALSE
            \/ UNCHANGED <<cur_target, dev_redirected>>
        BY <1>2 DEF BeginSlice, devfee_set_pool_target
      <3>2. 0 \in 0 .. NumTargets-1
        BY PoolServiceAssumption
      <3> QED
        BY <3>1, <3>2 DEF IInv, TypeOK
    <2>3. until' \in 0 .. CycleSeconds
      BY <1>2, PoolServiceAssumption DEF BeginSlice
    <2>4. in_slice' = TRUE /\ user_pool_index' = cur /\ cur' = Dev /\ dev_fault' = FALSE
      BY <1>2 DEF BeginSlice
    <2>5. PoolSelection'
      BY <1>1, <2>1, <2>4 DEF PoolSelection
    <2> QED
      BY <1>1, <2>1, <2>2, <2>3, <2>4, <2>5, PoolFacts
  <1>3. CASE EndSlice
    <2>1. user_pool_index \in Usable
      BY <1>3 DEF EndSlice, IInv, PoolSelection
    <2>2. /\ in_slice' = FALSE /\ cur' = user_pool_index /\ until' = CycleSeconds
          /\ UNCHANGED <<user_pool_index, cur_target, dev_redirected, dev_fault>>
      BY <1>3 DEF EndSlice
    <2>3. until' \in 0 .. CycleSeconds
      BY <2>2, PoolServiceAssumption
    <2>4. PoolSelection'
      BY <2>1, <2>2 DEF PoolSelection
    <2> QED
      BY <2>1, <2>2, <2>3, <2>4, PoolFacts DEF IInv, TypeOK
  <1> QED
    BY <1>2, <1>3 DEF devfee_take_transition

LEMMA AfterLoopStep == IInv /\ AfterLoop => IInv'
  <1> SUFFICES ASSUME IInv, AfterLoop PROVE IInv'
    OBVIOUS
  <1>1. /\ pc = "after" /\ silent' = 0
        /\ UNCHANGED <<retry_count, retry_cycle_start, timer, bound, silent,
                       reconnect_requested, late, aborting, stopped, up, failed>>
    BY DEF AfterLoop, clocks, requests, control, IInv, WaitBounded
  <1>2. CASE SliceBoundary
    <2>1. /\ cur' \in Pools /\ in_slice' \in BOOLEAN /\ user_pool_index' \in Pools
          /\ until' \in 0 .. CycleSeconds /\ cur_target' \in 0 .. NumTargets-1
          /\ dev_redirected' \in BOOLEAN /\ dev_fault' \in BOOLEAN
          /\ PoolSelection'
      BY <1>2, TransitionStep DEF SliceBoundary
    <2>2. pc' = "top" /\ open' = {} /\ lost' = FALSE
      BY <1>2 DEF SliceBoundary, stratum_disconnect, IInv, OneTransport
    <2> QED
      BY <1>1, <2>1, <2>2 DEF IInv, TypeOK, OneTransport, Settled, WaitBounded, Labels
  <1>3. CASE DevPoolLost
    <2>1. /\ cur' \in Pools /\ in_slice' \in BOOLEAN /\ user_pool_index' \in Pools
          /\ until' \in 0 .. CycleSeconds /\ cur_target' \in 0 .. NumTargets-1
          /\ dev_redirected' \in BOOLEAN
          /\ PoolSelection'
      BY <1>3, DevSlotStep DEF DevPoolLost
    <2>2. pc' = "top" /\ open' = {} /\ lost' = FALSE /\ dev_fault' = dev_fault
      BY <1>3 DEF DevPoolLost, stratum_disconnect, IInv, OneTransport
    <2> QED
      BY <1>1, <2>1, <2>2 DEF IInv, TypeOK, OneTransport, Settled, WaitBounded, Labels
  <1>4. CASE UserPoolLost
    <2>1. /\ pc' = "disc"
          /\ UNCHANGED <<cur, open, lost, in_slice, user_pool_index, until, cur_target,
                         dev_redirected, dev_fault>>
      BY <1>4 DEF UserPoolLost, transport, devfee
    <2>2. aborting \/ ~in_slice
      BY <1>4 DEF UserPoolLost, devfee_is_dev_pool, IInv, PoolSelection
    <2> QED
      BY <1>1, <2>1, <2>2
         DEF IInv, TypeOK, PoolSelection, OneTransport, Settled, WaitBounded, Labels
  <1> QED
    BY <1>2, <1>3, <1>4 DEF AfterLoop

LEMMA DisconnectedStep == IInv /\ handle_disconnected_session => IInv'
  <1> SUFFICES ASSUME IInv, handle_disconnected_session PROVE IInv'
    OBVIOUS
  <1>1. /\ pc = "disc" /\ silent = 0 /\ open' = {} /\ lost' = FALSE
        /\ UNCHANGED <<bound, silent, late, stopped, up, in_slice, user_pool_index, until,
                       cur_target, dev_redirected, dev_fault>>
    BY DEF handle_disconnected_session, stratum_disconnect, devfee, IInv, OneTransport,
           WaitBounded
  <1>2. pc' \in {"done", "top", "pause"}
    BY DEF handle_disconnected_session
  <1>3. CASE aborting
    BY <1>1, <1>3
       DEF handle_disconnected_session, IInv, TypeOK, PoolSelection, OneTransport, Settled,
           WaitBounded, Labels
  <1>4. CASE ~aborting
    <2>1. ~in_slice /\ cur \in Usable
      BY <1>1, <1>4 DEF IInv, Settled, PoolSelection
    <2>2. find_next_pool_index(cur) \in Usable
      BY <2>1, FailoverTarget DEF IInv, TypeOK
    <2>3. cur' \in Usable /\ retry_cycle_start' \in Pools
      BY <1>4, <2>1, <2>2, PoolFacts
         DEF handle_disconnected_session, stratum_reset_retry_cycle, IInv, TypeOK
    <2>4. retry_count' \in 0 .. RetryCap /\ timer' \in Nat
      BY <1>4, PoolServiceAssumption
         DEF handle_disconnected_session, stratum_reset_retry_cycle, IInv, TypeOK
    <2>5. aborting' \in BOOLEAN /\ reconnect_requested' \subseteq Pools /\ failed' \subseteq Pools
      BY <1>4 DEF handle_disconnected_session, IInv, TypeOK
    <2>6. PoolSelection' /\ ~in_slice'
      BY <1>1, <2>1, <2>3 DEF PoolSelection
    <2> QED
      BY <1>1, <1>2, <2>3, <2>4, <2>5, <2>6, PoolFacts
         DEF IInv, TypeOK, OneTransport, Settled, WaitBounded, Labels
  <1> QED
    BY <1>3, <1>4

LEMMA PauseStep == IInv /\ wait_before_retry => IInv'
  <1> SUFFICES ASSUME IInv, wait_before_retry PROVE IInv'
    OBVIOUS
  <1>1. /\ pc = "pause" /\ silent = 0 /\ open = {} /\ ~in_slice /\ timer' = 0
        /\ UNCHANGED <<retry_count, bound, silent, open, lost, reconnect_requested, late,
                       aborting, stopped, up, in_slice, user_pool_index, until, cur_target,
                       dev_redirected, dev_fault>>
    BY DEF wait_before_retry, transport, requests, control, devfee, IInv, Settled, WaitBounded
  <1>2. cur \in Usable /\ find_next_pool_index(cur) \in Usable
    BY <1>1, FailoverTarget DEF IInv, TypeOK, PoolSelection
  <1>3. /\ pc' \in {"done", "top"}
        /\ cur' \in Usable /\ retry_cycle_start' \in Pools /\ failed' \subseteq Pools
    BY <1>2, PoolFacts DEF wait_before_retry, IInv, TypeOK
  <1>4. PoolSelection'
    BY <1>1, <1>3 DEF PoolSelection
  <1> QED
    BY <1>1, <1>3, <1>4, PoolFacts
       DEF IInv, TypeOK, OneTransport, Settled, WaitBounded, Labels

LEMMA TickStep == IInv /\ Tick => IInv'
  <1> SUFFICES ASSUME IInv, Tick PROVE IInv'
    OBVIOUS
  <1>1. /\ timer \in Nat /\ timer > 0 /\ timer' = timer - 1 /\ silent \in Nat
        /\ silent' = IF pc = "recv" THEN silent + 1 ELSE silent
        /\ until \in 0 .. CycleSeconds
        /\ until' = devfee_seconds_until_transition
        /\ UNCHANGED <<pc, cur, retry_count, retry_cycle_start, bound, open, lost,
                       reconnect_requested, late, aborting, stopped, up, in_slice,
                       user_pool_index, cur_target, dev_redirected, failed, dev_fault>>
    BY DEF Tick, thread, transport, requests, control, history, IInv, TypeOK
  <1>2. until' \in 0 .. CycleSeconds /\ timer' \in Nat /\ silent' \in Nat
    BY <1>1, PoolServiceAssumption DEF devfee_seconds_until_transition
  <1>3. WaitBounded'
    <2>1. DevFee /\ timer <= until => until' = until - 1
      BY <1>1, PoolServiceAssumption DEF devfee_seconds_until_transition
    <2> QED
      BY <1>1, <2>1, PoolServiceAssumption DEF IInv, WaitBounded
  <1> QED
    BY <1>1, <1>2, <1>3 DEF IInv, TypeOK, PoolSelection, OneTransport, Settled

\* What happens around the service thread leaves its own state alone.
LEMMA EnvironmentStep ==
    ASSUME IInv,
           \/ \E p \in Pools : PoolUpDown(p)
           \/ ConnDrop
           \/ SubmitStalled
           \/ \E p \in Pools : submit_id_request_reconnect(p)
           \/ miner_request_abort
           \/ stop_all_pool_services
    PROVE  IInv'
  <1>1. UNCHANGED <<pc, cur, retry_count, retry_cycle_start, bound, silent, open,
                    in_slice, user_pool_index, until, cur_target, dev_redirected, failed>>
    BY DEF PoolUpDown, ConnDrop, SubmitStalled, submit_id_request_reconnect,
           miner_request_abort, stop_all_pool_services, thread, clocks, transport, devfee,
           history
  <1>2. /\ up' \subseteq Pools /\ late' \subseteq Pools
        /\ reconnect_requested' \subseteq Pools
    BY DEF PoolUpDown, ConnDrop, SubmitStalled, submit_id_request_reconnect,
           miner_request_abort, stop_all_pool_services, requests, IInv, TypeOK
  <1>3. lost' \in BOOLEAN /\ dev_fault' \in BOOLEAN
    BY DEF PoolUpDown, ConnDrop, SubmitStalled, submit_id_request_reconnect,
           miner_request_abort, stop_all_pool_services, transport, history, IInv, TypeOK
  <1>4. aborting' \in BOOLEAN /\ (aborting => aborting') /\ stopped' \in BOOLEAN
    BY DEF PoolUpDown, ConnDrop, SubmitStalled, submit_id_request_reconnect,
           miner_request_abort, stop_all_pool_services, control, IInv, TypeOK
  <1>5. timer' \in Nat /\ (timer' = timer \/ aborting')
    <2>1. CASE miner_request_abort
      <3>1. timer \in Nat /\ FullWait \in Nat
        BY PoolServiceAssumption DEF FullWait, IdleBound, IInv, TypeOK
      <3> QED
        BY <2>1, <3>1 DEF miner_request_abort
    <2>2. CASE ~miner_request_abort
      BY <2>2 DEF PoolUpDown, ConnDrop, SubmitStalled, submit_id_request_reconnect,
                  stop_all_pool_services, clocks, IInv, TypeOK
    <2> QED
      BY <2>1, <2>2
  <1> QED
    BY <1>1, <1>2, <1>3, <1>4, <1>5
       DEF IInv, TypeOK, PoolSelection, OneTransport, Settled, WaitBounded

LEMMA InvInductive == IInv /\ [Next]_vars => IInv'
  <1> SUFFICES ASSUME IInv, [Next]_vars PROVE IInv'
    OBVIOUS
  <1>1. CASE Service
    BY <1>1, TopStep, HandshakeStep, OpenFailStep, OpenOkStep, LeaveLoopStep, RecvTimeoutStep,
       AfterLoopStep, DisconnectedStep, PauseStep DEF Service
  <1>2. CASE Tick
    BY <1>2, TickStep
  <1>3. CASE Environment
    BY <1>3, HandshakeStep, OpenFailStep, RecvLineStep, LeaveLoopStep, ReconnectStep,
       EnvironmentStep DEF Environment
  <1>4. CASE UNCHANGED vars
    BY <1>4 DEF vars, thread, clocks, transport, requests, control, devfee, history, IInv,
                TypeOK, PoolSelection, OneTransport, Settled, WaitBounded
  <1> QED
    BY <1>1, <1>2, <1>3, <1>4 DEF Next

-----------------------------------------------------------------------------
(* The theorems. *)

\* The inductive invariant holds in every reachable state.
THEOREM Invariance == Spec => []IInv
  BY InitInv, InvInductive, PTL DEF Spec

\* Every variable of the service thread keeps its type.
THEOREM TypeCorrect == Spec => []TypeOK
  <1>1. IInv => TypeOK
    BY DEF IInv
  <1> QED
    BY <1>1, Invariance, PTL

\* The service thread is on the dev slot exactly during a slice and on a
\* usable pool of the user otherwise, for every number of pools.
THEOREM PoolSelectionCorrect == Spec => []PoolSelection
  <1>1. IInv => PoolSelection
    BY DEF IInv
  <1> QED
    BY <1>1, Invariance, PTL

\* Only the current pool ever has an open transport.
THEOREM OneTransportCorrect == Spec => []OneTransport
  <1>1. IInv => OneTransport
    BY DEF IInv
  <1> QED
    BY <1>1, Invariance, PTL

\* A silent connection is given up after at most the pool timeout and one
\* keepalive interval, unless the signal of an abort starts the wait anew.
THEOREM SilenceIsBounded == Spec => []SilenceBounded
  <1>1. IInv => SilenceBounded
    BY PoolServiceAssumption DEF IInv, TypeOK, WaitBounded, SilenceBounded
  <1> QED
    BY <1>1, Invariance, PTL

\* No second passes in recv once a slice boundary is due, short of an abort.
THEOREM BoundariesAreMet == Spec => NoWaitPastBoundary
  <1>1. IInv /\ [Next]_vars =>
          [pc = "recv" /\ silent' > silent => aborting \/ ~devfee_transition_due]_vars
    <2> SUFFICES ASSUME IInv, Next, pc = "recv", silent' > silent, ~aborting
                 PROVE  ~devfee_transition_due
      OBVIOUS
    <2>1. silent \in Nat /\ timer \in Nat /\ until \in Nat
      BY PoolServiceAssumption DEF IInv, TypeOK
    <2>2. CASE Tick
      BY <2>1, <2>2 DEF Tick, devfee_transition_due, IInv, WaitBounded
    <2>3. CASE ~Tick
      <3>1. silent' \in {0, silent}
        BY <2>3 DEF Next, Service, Environment, Top, Connected, Reply, OtherLine, OpenFail,
                    Refused, SetupFails, OpenOk, RecvLost, RecvTimeout, AfterLoop, handle_disconnected_session, wait_before_retry, RecvLine,
                    RecvFatal, stratum_reconnect, LoopHead, LeaveLoop, PoolUpDown, ConnDrop,
                    SubmitStalled, submit_id_request_reconnect, miner_request_abort,
                    stop_all_pool_services, clocks
      <3> QED
        BY <2>1, <3>1
    <2> QED
      BY <2>2, <2>3
  <1> QED
    BY <1>1, Invariance, PTL DEF Spec, NoWaitPastBoundary

-----------------------------------------------------------------------------
(* Why a slice ends early. *)

\* Once a session on the dev pool is over before its time, or its connection
\* is gone, the cause is on record.
CauseKept ==
    in_slice /\ (lost \/ (pc = "after" /\ until > 0))
        => aborting \/ dev_fault \/ Dev \in reconnect_requested

\* The loop head leaves a slice early only on an abort or a request.
LEMMA LoopHeadCause ==
    ASSUME IInv, CauseKept, NEW quiet, LoopHead(quiet),
           lost' \in {lost, FALSE}, UNCHANGED <<cur, in_slice, until, aborting>>,
           reconnect_requested \subseteq reconnect_requested', dev_fault => dev_fault'
    PROVE  CauseKept'
  <1> SUFFICES ASSUME in_slice', ~aborting', ~dev_fault', Dev \notin reconnect_requested'
               PROVE  pc' # "after" \/ ~(until' > 0)
    <2>1. lost' /\ in_slice' => aborting' \/ dev_fault' \/ Dev \in reconnect_requested'
      BY DEF CauseKept
    <2> QED
      BY <2>1 DEF CauseKept
  <1>1. cur = Dev /\ until \in Nat
    BY PoolServiceAssumption DEF IInv, PoolSelection, TypeOK
  <1> QED
    BY <1>1 DEF LoopHead, devfee_transition_due

LEMMA CauseInductive == IInv /\ CauseKept /\ [Next]_vars => CauseKept'
  <1> SUFFICES ASSUME IInv, CauseKept, [Next]_vars PROVE CauseKept'
    OBVIOUS
  <1>0. in_slice => cur = Dev /\ devfee_is_dev_pool(cur)
    BY DEF IInv, PoolSelection, devfee_is_dev_pool
  <1>1. CASE Top \/ Connected \/ Reply \/ OtherLine \/ wait_before_retry
    <2>1. /\ pc' # "after"
          /\ UNCHANGED <<lost, in_slice, aborting, dev_fault, reconnect_requested>>
      BY <1>1 DEF Top, Connected, Reply, OtherLine, wait_before_retry, thread, transport, requests,
                  control, devfee, history, Handshake
    <2> QED
      BY <2>1 DEF CauseKept
  <1>14. CASE OpenFail \/ Refused \/ handle_disconnected_session
    <2>1. pc' # "after" /\ lost' = FALSE
      BY <1>14 DEF OpenFail, Refused, SetupFails, OpenFailDev, OpenFailUser,
                   handle_disconnected_session, stratum_disconnect
    <2> QED
      BY <2>1 DEF CauseKept
  <1>2. CASE OpenOk
    <2>1. LoopHead(0)
          /\ UNCHANGED <<lost, cur, in_slice, until, aborting, reconnect_requested, dev_fault>>
      BY <1>2 DEF OpenOk, transport, control, devfee
    <2> QED
      BY <2>1, LoopHeadCause
  <1>3. CASE RecvLine
    <2>1. LoopHead(0) /\ pc = "recv"
          /\ UNCHANGED <<lost, cur, in_slice, until, aborting, reconnect_requested, dev_fault>>
      BY <1>3 DEF RecvLine, transport, control, devfee, history
    <2> QED
      BY <2>1, LoopHeadCause
  <1>4. CASE stratum_reconnect
    <2>1. /\ lost' = FALSE
          /\ reconnect_requested \subseteq reconnect_requested' /\ (dev_fault => dev_fault')
          /\ UNCHANGED <<cur, in_slice, until, aborting>>
      BY <1>4 DEF stratum_reconnect, stratum_disconnect, control
    <2>2. CASE LoopHead(0)
      BY <2>1, <2>2, LoopHeadCause
    <2>3. CASE pc' # "after"
      BY <2>1, <2>3 DEF CauseKept
    <2> QED
      BY <1>4, <2>2, <2>3 DEF stratum_reconnect, Handshake
  <1>5. CASE RecvFatal
    <2>1. dev_fault' = (dev_fault \/ devfee_is_dev_pool(cur)) /\ in_slice' = in_slice
      BY <1>5 DEF RecvFatal, devfee
    <2> QED
      BY <1>0, <2>1 DEF CauseKept
  <1>6. CASE RecvLost
    <2>1. pc = "recv" /\ lost /\ UNCHANGED <<in_slice, aborting, dev_fault, reconnect_requested>>
      BY <1>6 DEF RecvLost, control, devfee, history, requests
    <2> QED
      BY <2>1 DEF CauseKept
  <1>7. CASE RecvTimeout
    <2>1. /\ pc = "recv" /\ UNCHANGED <<lost, cur, in_slice, until, aborting, reconnect_requested>>
      BY <1>7 DEF RecvTimeout, transport, control, devfee
    <2>2. \/ LoopHead(silent) /\ dev_fault' = dev_fault
          \/ dev_fault' = (dev_fault \/ devfee_is_dev_pool(cur))
      BY <1>7 DEF RecvTimeout
    <2>3. CASE LoopHead(silent) /\ dev_fault' = dev_fault
      BY <2>1, <2>3, LoopHeadCause
    <2>4. CASE dev_fault' = (dev_fault \/ devfee_is_dev_pool(cur))
      BY <1>0, <2>1, <2>4 DEF CauseKept
    <2> QED
      BY <2>2, <2>3, <2>4
  <1>8. CASE AfterLoop
    <2>1. pc' \in {"top", "disc"} /\ UNCHANGED <<aborting, reconnect_requested>>
      BY <1>8 DEF AfterLoop, SliceBoundary, DevPoolLost, UserPoolLost, control, requests
    <2>2. CASE SliceBoundary \/ DevPoolLost
      <3>1. lost' = FALSE
        BY <2>2 DEF SliceBoundary, DevPoolLost, stratum_disconnect
      <3> QED
        BY <2>1, <3>1 DEF CauseKept
    <2>3. CASE UserPoolLost
      <3>1. UNCHANGED <<lost, in_slice, dev_fault>>
        BY <2>3 DEF UserPoolLost, transport, devfee
      <3> QED
        BY <2>1, <3>1 DEF CauseKept
    <2> QED
      BY <1>8, <2>2, <2>3 DEF AfterLoop
  <1>9. CASE Tick
    <2>1. UNCHANGED <<pc, lost, in_slice, aborting, dev_fault, reconnect_requested>> /\ pc # "after"
      BY <1>9 DEF Tick, Handshake, thread, transport, control, history, requests
    <2> QED
      BY <2>1 DEF CauseKept
  <1>10. CASE (\E p \in Pools : PoolUpDown(p)) \/ SubmitStalled \/ miner_request_abort \/ UNCHANGED vars
    <2>1. /\ UNCHANGED <<pc, lost, in_slice, until, dev_fault, reconnect_requested>>
          /\ aborting => aborting'
      BY <1>10 DEF PoolUpDown, SubmitStalled, miner_request_abort, vars, thread, transport, history,
                   requests, control, devfee
    <2> QED
      BY <2>1 DEF CauseKept
  <1>11. CASE ConnDrop
    <2>1. /\ dev_fault' = (dev_fault \/ devfee_is_dev_pool(cur)) /\ in_slice' = in_slice
      BY <1>11 DEF ConnDrop, devfee
    <2> QED
      BY <1>0, <2>1 DEF CauseKept
  <1>12. ASSUME NEW p \in Pools, submit_id_request_reconnect(p) PROVE CauseKept'
    <2>1. /\ UNCHANGED <<pc, in_slice, until, aborting>>
          /\ reconnect_requested' = reconnect_requested \cup {p}
          /\ dev_fault => dev_fault'
          /\ p \in open \/ lost' = lost
      BY <1>12 DEF submit_id_request_reconnect, thread, control, devfee
    <2>2. CASE p \in open /\ in_slice
      <3>1. p = Dev
        BY <1>0, <2>2 DEF IInv, OneTransport
      <3> QED
        BY <2>1, <3>1 DEF CauseKept
    <2>3. CASE ~(p \in open /\ in_slice)
      BY <2>1, <2>3 DEF CauseKept
    <2> QED
      BY <2>2, <2>3
  <1>13. CASE stop_all_pool_services
    BY <1>13 DEF stop_all_pool_services, CauseKept
  <1> QED
    BY <1>1, <1>2, <1>3, <1>4, <1>5, <1>6, <1>7, <1>8, <1>9, <1>10, <1>11, <1>12, <1>13, <1>14
       DEF Next, Service, Environment

\* A slice of the dev fee is cut short only when the dev pool gave cause
\* (devfee_abort_slice), for every schedule and every list of targets.
THEOREM SlicesCutForCause == Spec => SliceCutForCause
  <1> DEFINE A == in_slice /\ ~in_slice' /\ until > 0 => dev_fault' \/ Dev \in reconnect_requested
  <1>1. IInv /\ CauseKept /\ [Next]_vars => [A]_vars
    <2> SUFFICES ASSUME IInv, CauseKept, Next, in_slice, ~in_slice', until > 0
                 PROVE  dev_fault' \/ Dev \in reconnect_requested
      OBVIOUS
    <2>1. OpenFail \/ Refused \/ AfterLoop
      BY DEF Next, Service, Environment, Top, Connected, Reply, OtherLine, OpenOk, RecvLost, RecvTimeout,
             handle_disconnected_session, wait_before_retry, RecvLine, RecvFatal,
             stratum_reconnect, PoolUpDown, ConnDrop, SubmitStalled,
             submit_id_request_reconnect, miner_request_abort, stop_all_pool_services, Tick,
             devfee
    <2>2. CASE OpenFail \/ Refused
      BY <2>2 DEF OpenFail, Refused, SetupFails, OpenFailDev, OpenFailUser, devfee
    <2>3. CASE AfterLoop
      <3>0. ~devfee_transition_due
        BY DEF devfee_transition_due
      <3>1. DevPoolLost
        <4>1. SliceBoundary \/ DevPoolLost \/ UserPoolLost
          BY <2>3 DEF AfterLoop
        <4>2. ~SliceBoundary
          BY <3>0 DEF SliceBoundary
        <4>3. UserPoolLost => in_slice' = in_slice
          BY DEF UserPoolLost, devfee
        <4> QED
          BY <4>1, <4>2, <4>3
      <3>2. pc = "after" /\ ~aborting /\ dev_fault' = dev_fault
        BY <2>3, <3>1 DEF AfterLoop, DevPoolLost
      <3> QED
        BY <3>2 DEF CauseKept
    <2> QED
      BY <2>1, <2>2, <2>3
  <1>2. Init => CauseKept
    BY DEF Init, CauseKept
  <1>3. Spec => []CauseKept
    BY <1>2, CauseInductive, Invariance, PTL DEF Spec
  <1> QED
    BY <1>1, <1>3, Invariance, PTL DEF Spec, SliceCutForCause

-----------------------------------------------------------------------------
(* Rounds of failed attempts, without the dev fee. *)

\* How far failover has to go from slot a to slot b.
Distance(a, b) == IF a =< b THEN b - a ELSE b - a + num_pools

\* In a round, failover moves away from the pool it began with; the pools it
\* has left behind are the ones that failed.
RoundOK ==
    ~DevFee =>
        /\ retry_cycle_start \in Usable
        /\ pc \in Handshake \cup {"top", "connect"} =>
              \A p \in failed :
                  Distance(retry_cycle_start, p) < Distance(retry_cycle_start, cur)
        /\ pc = "disc" =>
              \A p \in failed :
                  Distance(retry_cycle_start, p) =< Distance(retry_cycle_start, cur)
        /\ pc \in {"recv", "after"} => failed = {}

\* Failover goes to the first usable pool after i.
LEMMA NextIsFirst ==
    ASSUME NEW i \in Pools, NEW u \in Usable, u # i
    PROVE  /\ find_next_pool_index(i) \in Usable
           /\ find_next_pool_index(i) # i
           /\ Distance(i, find_next_pool_index(i)) =< Distance(i, u)
  <1> DEFINE offsets == {o \in 1 .. num_pools-1 : (i + o) % num_pools \in Usable}
             first == CHOOSE o \in offsets : \A x \in offsets : o <= x
  <1>0. num_pools \in Nat \ {0} /\ i \in Nat /\ i < num_pools /\ u \in Nat /\ u < num_pools
    BY PoolFacts DEF Pools
  <1>1. \A o \in 1 .. num_pools-1 :
            (i + o) % num_pools = IF i + o < num_pools THEN i + o ELSE i + o - num_pools
    BY <1>0
  <1>2. Distance(i, u) \in offsets
    <2>1. Distance(i, u) \in 1 .. num_pools-1
      BY <1>0 DEF Distance
    <2>2. (i + Distance(i, u)) % num_pools = u
      BY <1>0, <1>1, <2>1 DEF Distance
    <2> QED
      BY <2>1, <2>2
  <1>3. offsets \subseteq Nat
    BY <1>0
  <1>4. \E o \in offsets : \A x \in offsets : o <= x
    BY <1>2, <1>3, LeastElement
  <1>5. first \in offsets /\ \A x \in offsets : first <= x
    BY <1>4
  <1>6. find_next_pool_index(i) = (i + first) % num_pools
    BY <1>2 DEF find_next_pool_index
  <1> HIDE DEF first
  <1>7. first \in 1 .. num_pools-1 /\ (i + first) % num_pools \in Usable /\ first =< Distance(i, u)
    BY <1>2, <1>5
  <1>8. find_next_pool_index(i) = IF i + first < num_pools THEN i + first ELSE i + first - num_pools
    BY <1>1, <1>6, <1>7
  <1>9. Distance(i, find_next_pool_index(i)) = first /\ find_next_pool_index(i) # i
    BY <1>0, <1>7, <1>8 DEF Distance
  <1> QED
    BY <1>6, <1>7, <1>9

\* As long as the round is not over, the next pool is farther from its start.
LEMMA RoundAdvances ==
    ASSUME NEW start \in Usable, NEW i \in Usable,
           find_next_pool_index(i) # i, find_next_pool_index(i) # start
    PROVE  Distance(start, i) < Distance(start, find_next_pool_index(i))
  <1> DEFINE next == find_next_pool_index(i)
  <1>0. num_pools \in Nat \ {0} /\ Usable \subseteq 0 .. num_pools-1 /\ i \in Pools
    BY PoolFacts DEF Pools
  <1>1. next \in Usable
    BY <1>0, FailoverTarget
  <1>2. next # i /\ next # start
    OBVIOUS
  <1>3. start # i => Distance(i, next) =< Distance(i, start)
    BY <1>0, NextIsFirst
  <1> HIDE DEF next
  <1>4. next \in Nat /\ next < num_pools /\ i \in Nat /\ i < num_pools /\ start \in Nat
        /\ start < num_pools
    BY <1>0, <1>1
  <1>5. Distance(start, i) < Distance(start, next)
    BY <1>0, <1>2, <1>3, <1>4 DEF Distance
  <1> QED
    BY <1>5 DEF next

LEMMA DistanceType ==
    ASSUME NEW a \in Pools, NEW b \in Pools
    PROVE  Distance(a, b) \in Nat
  BY PoolFacts DEF Pools, Distance

LEMMA RoundInductive == IInv /\ RoundOK /\ [Next]_vars => RoundOK'
  <1> SUFFICES ASSUME IInv, RoundOK, [Next]_vars, ~DevFee PROVE RoundOK'
    BY DEF RoundOK
  <1>0. /\ cur \in Usable /\ cur \in Pools /\ ~in_slice /\ ~devfee_is_dev_pool(cur)
        /\ retry_cycle_start \in Usable /\ failed \subseteq Pools
    BY PoolFacts DEF IInv, TypeOK, PoolSelection, devfee_is_dev_pool, RoundOK
  <1>1. CASE Top
    <2>1. pc = "top" /\ pc' \in {"connect", "done"} /\ UNCHANGED <<cur, retry_cycle_start, failed>>
      BY <1>1 DEF Top, history
    <2> QED
      BY <2>1 DEF RoundOK, Handshake
  <1>9. CASE Connected \/ Reply \/ OtherLine
    <2>1. /\ pc \in Handshake \cup {"connect"} /\ pc' \in Handshake
          /\ UNCHANGED <<cur, retry_cycle_start, failed>>
      BY <1>9 DEF Connected, Reply, OtherLine, thread, history, Handshake
    <2> QED
      BY <2>1 DEF RoundOK, Distance, Handshake
  <1>2. CASE OpenFail \/ Refused
    <2>1. /\ pc \in Handshake \cup {"connect"} /\ pc' = "disc" /\ failed' = failed \cup {cur}
          /\ UNCHANGED <<cur, retry_cycle_start>>
      BY <1>0, <1>2 DEF OpenFail, Refused, SetupFails, OpenFailDev, OpenFailUser, Handshake
    <2>2. \A p \in failed :
              Distance(retry_cycle_start, p) < Distance(retry_cycle_start, cur)
      BY <2>1 DEF RoundOK
    <2>3. \A p \in failed \cup {cur} : Distance(retry_cycle_start, p) \in Nat
      BY <1>0, DistanceType, PoolFacts
    <2>4. \A p \in failed' :
              Distance(retry_cycle_start, p) =< Distance(retry_cycle_start, cur)
      BY <2>1, <2>2, <2>3
    <2>5. \A p \in failed' :
              Distance(retry_cycle_start, p)' =< Distance(retry_cycle_start, cur)'
      BY <2>1, <2>4 DEF Distance
    <2> QED
      BY <1>0, <2>1, <2>5 DEF RoundOK, Distance, Handshake
  <1>3. CASE OpenOk
    <2>1. failed' = {} /\ retry_cycle_start' = cur
      BY <1>0, <1>3 DEF OpenOk, stratum_reset_retry_cycle
    <2> QED
      BY <1>0, <2>1 DEF RoundOK
  <1>10. CASE stratum_reconnect /\ pc # "recv"
    <2>1. UNCHANGED <<pc, cur, retry_cycle_start, failed>>
      BY <1>10 DEF stratum_reconnect
    <2> QED
      BY <2>1 DEF RoundOK, Distance
  <1>4. CASE RecvLine \/ RecvFatal \/ (stratum_reconnect /\ pc = "recv") \/ RecvLost \/ RecvTimeout
    <2>1. pc = "recv" /\ UNCHANGED <<retry_cycle_start, failed>>
      BY <1>4 DEF RecvLine, RecvFatal, stratum_reconnect, RecvLost, RecvTimeout, history
    <2>2. failed' = {} /\ retry_cycle_start' \in Usable
      BY <1>0, <2>1 DEF RoundOK
    <2> QED
      BY <2>2 DEF RoundOK
  <1>5. CASE AfterLoop
    <2>1. pc = "after" /\ UNCHANGED <<retry_cycle_start, failed>>
      BY <1>5 DEF AfterLoop
    <2>2. failed' = {} /\ retry_cycle_start' \in Usable
      BY <1>0, <2>1 DEF RoundOK
    <2> QED
      BY <2>2 DEF RoundOK
  <1>6. CASE handle_disconnected_session
    <2> DEFINE next == find_next_pool_index(cur)
    <2>1. CASE aborting \/ pc' = "pause" \/ pc' = "done"
      <3>1. pc' \in {"done", "pause"} /\ retry_cycle_start' = retry_cycle_start
        BY <1>6, <2>1 DEF handle_disconnected_session, stratum_reset_retry_cycle
      <3> QED
        BY <1>0, <3>1 DEF RoundOK, Handshake
    <2>2. CASE ~aborting /\ cur \in reconnect_requested
      <3>1. failed' = {} /\ retry_cycle_start' = cur
        BY <1>6, <2>2 DEF handle_disconnected_session, stratum_reset_retry_cycle
      <3> QED
        BY <1>0, <3>1 DEF RoundOK
    <2>3. CASE ~aborting /\ cur \notin reconnect_requested /\ pc' = "top"
      <3>1. /\ next # cur /\ next # retry_cycle_start /\ cur' = next
            /\ UNCHANGED <<retry_cycle_start, failed>> /\ pc = "disc"
        BY <1>6, <2>3 DEF handle_disconnected_session, wrapped
      <3>2. Distance(retry_cycle_start, cur) < Distance(retry_cycle_start, next)
        BY <1>0, <3>1, RoundAdvances
      <3>3. \A p \in failed :
                Distance(retry_cycle_start, p) =< Distance(retry_cycle_start, cur)
        BY <3>1 DEF RoundOK
      <3>4. next \in Pools
        BY <1>0, FailoverTarget, PoolFacts
      <3> HIDE DEF next
      <3>5. /\ \A p \in failed : Distance(retry_cycle_start, p) \in Nat
            /\ Distance(retry_cycle_start, cur) \in Nat
            /\ Distance(retry_cycle_start, next) \in Nat
        BY <1>0, <3>4, DistanceType, PoolFacts
      <3>6. \A p \in failed :
                Distance(retry_cycle_start, p) < Distance(retry_cycle_start, next)
        BY <3>2, <3>3, <3>5
      <3> QED
        BY <1>0, <2>3, <3>1, <3>6 DEF RoundOK, Distance
    <2> QED
      BY <1>6, <2>1, <2>2, <2>3 DEF handle_disconnected_session
  <1>7. CASE wait_before_retry
    <2>1. \/ pc' = "done" /\ retry_cycle_start' = retry_cycle_start
          \/ failed' = {} /\ retry_cycle_start' = find_next_pool_index(cur)
      BY <1>7 DEF wait_before_retry
    <2>2. find_next_pool_index(cur) \in Usable
      BY <1>0, FailoverTarget
    <2> QED
      BY <1>0, <2>1, <2>2 DEF RoundOK, Handshake
  <1>8. CASE \/ Tick \/ (\E p \in Pools : PoolUpDown(p)) \/ ConnDrop \/ SubmitStalled
             \/ (\E p \in Pools : submit_id_request_reconnect(p)) \/ miner_request_abort
             \/ stop_all_pool_services \/ UNCHANGED vars
    <2>1. UNCHANGED <<pc, cur, retry_cycle_start, failed>>
      BY <1>8 DEF Tick, PoolUpDown, ConnDrop, SubmitStalled, submit_id_request_reconnect,
                  miner_request_abort, stop_all_pool_services, vars, thread, history
    <2> QED
      BY <2>1 DEF RoundOK, Distance
  <1> QED
    BY <1>1, <1>2, <1>3, <1>4, <1>5, <1>6, <1>7, <1>8, <1>9, <1>10 DEF Next, Service, Environment

\* Without the dev fee no pool is tried twice in a round, for every number of
\* pools and every choice of usable ones (stratum_handle_disconnected_session).
THEOREM PacedRetriesCorrect ==
    ASSUME ~DevFee
    PROVE  Spec => []PacedRetries
  <1>1. IInv /\ RoundOK => PacedRetries
    <2> SUFFICES ASSUME IInv, RoundOK, pc = "connect", cur \in failed PROVE FALSE
      BY DEF PacedRetries
    <2>1. Distance(retry_cycle_start, cur) < Distance(retry_cycle_start, cur)
      BY DEF RoundOK
    <2>2. Distance(retry_cycle_start, cur) \in Nat
      BY DistanceType DEF IInv, TypeOK
    <2> QED
      BY <2>1, <2>2
  <1>2. Init => RoundOK
    BY DEF Init, RoundOK
  <1>3. Spec => []RoundOK
    BY <1>2, RoundInductive, Invariance, PTL DEF Spec
  <1> QED
    BY <1>1, <1>3, Invariance, PTL
=============================================================================
