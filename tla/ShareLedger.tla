----------------------------- MODULE ShareLedger ------------------------------
(***************************************************************************)
(* What the submit path promises, without ids, tables, threads and         *)
(* connections: a share is found for a pool, held until it is dropped or   *)
(* reserved, outstanding until it is forgotten or counted, and a share     *)
(* that left one of these places never comes back to it.  It is counted    *)
(* for the pool it was found for, and for the user unless that pool is the *)
(* dev-fee slot.                                                           *)
(***************************************************************************)
EXTENDS Integers

CONSTANTS UserPools, DevPools, MaxShares

VARIABLES
    found,         \* shares found so far; they are numbered
    held,          \* pairs of a share and its pool: not yet reserved
    outstanding,   \* pairs of a share and its pool: the answer is awaited
    counted,       \* shares that entered the statistics
    pool_results, share_total

vars == <<found, held, outstanding, counted, pool_results, share_total>>

Pools == UserPools \cup DevPools
None  == [ok \in BOOLEAN |-> 0]

Init ==
    /\ found = 0 /\ held = {} /\ outstanding = {} /\ counted = {}
    /\ pool_results = [p \in Pools |-> None] /\ share_total = None

Find(p) ==
    /\ found < MaxShares
    /\ found' = found + 1
    /\ held' = held \cup {<<found + 1, p>>}
    /\ UNCHANGED <<outstanding, counted, pool_results, share_total>>

Drop(e) ==
    /\ held' = held \ {e}
    /\ UNCHANGED <<found, outstanding, counted, pool_results, share_total>>

\* Entries of the same pool that waited too long make room.
Reserve(e) ==
    /\ held' = held \ {e}
    /\ \E late \in SUBSET {o \in outstanding : o[2] = e[2]} :
          outstanding' = (outstanding \ late) \cup {e}
    /\ UNCHANGED <<found, counted, pool_results, share_total>>

\* A failed send, or the end of a session.
Forget(p) ==
    /\ \E gone \in SUBSET {o \in outstanding : o[2] = p} : outstanding' = outstanding \ gone
    /\ UNCHANGED <<found, held, counted, pool_results, share_total>>

Count(e, ok) ==
    /\ e[1] \notin counted
    /\ outstanding' = outstanding \ {e}
    /\ counted' = counted \cup {e[1]}
    /\ pool_results' = [pool_results EXCEPT ![e[2]][ok] = @ + 1]
    /\ share_total' = IF e[2] \in UserPools THEN [share_total EXCEPT ![ok] = @ + 1]
                                            ELSE share_total
    /\ UNCHANGED <<found, held>>

Next ==
    \/ \E p \in Pools : Find(p) \/ Forget(p)
    \/ \E e \in held : Drop(e) \/ Reserve(e)
    \/ \E e \in outstanding, ok \in BOOLEAN : Count(e, ok)

Spec == Init /\ [][Next]_vars
===============================================================================
