# Verification of primo-arm-miner

A TLA+ development of the concurrent core of the miner: the stratum service
thread with failover and the dev fee, the session with a pool and the transport
below it, the path of a share from a miner thread to the counters, the
distribution of work and nonces over the miner threads, the RandomX re-keying,
the statistics API, and the start and end of the program. TLC checks the models
on small instances; TLAPS proves the main safety properties for every value of
the parameters. `PROJECT.json` maps every definition to the source lines it
stands for.

## 1. The system

The miner is one process. Its threads and shared state:

| part | code | state | operations |
|---|---|---|---|
| service thread | `stratum_session.cpp` | current pool, retry count, start of the retry round; per pool: transport, `reconnect_requested`, `authenticated` | connect and log in, message loop, keepalive, failover, retry pause, disconnect |
| dev-fee scheduler | `dev_fee.cpp` | `g_devfee`: in a slice or not, pool to return to, next boundary, target | take transition, advance target, abort slice |
| submit table | `stratum_rpc.cpp` | per pool: `pending_submits`, `next_submit_id` (under `submit_lock`) | draw id, reserve (and reap), release, take, request reconnect |
| runtime state | `stratum_state.cpp`, `stratum_job.cpp` | current work, `work_ready`, update counter, generation (under `stratum_work_lock`), share counters | publish, reset, copy, record a result |
| miner threads | `miner.cpp` | own copy of the work, next nonce, Verus epoch, last preimage | copy, resume, scan, wait, submit |
| handshake and dispatch | `stratum_handshake.cpp`, `stratum_rpc.cpp`, `stratum_xmr.cpp` | subscription, session id, extranonce, difficulty, nonce mode | subscribe, authorize, login, every server method |
| transport | `stratum_transport.cpp` | socket, receive buffer (under `stratum_sock_lock`) | connect, send line, receive line, close, shut down |
| resolver | `utils/dns_fallback.c` | budget, servers, record type | ask over UDP, over TCP |
| job builders | `stratum_standard.cpp`, `stratum_verus.cpp`, `stratum_xmr.cpp`, `stratum.cpp` | job of the session | parse notify, build header and target |
| RandomX memory | `algorithm/randomx_algo.cpp` | cache, dataset, seed, number of active hashers | re-key, hash |
| statistics API | `api.cpp` | sample ring, start and stop flags (under `g_api_service_lock`) | sample, read a request, answer, start, stop |
| lifecycle | `main.cpp`, `miner.cpp` | abort flag, thread handles | start, signal, shut sockets down, join, release |
| others | `config.cpp`, `utils/log.cpp`, `algorithm/`, `android/` | options, log, kernels, user interface | |

Interaction. The service thread publishes jobs that miner threads copy and poll
for; miner threads send shares on the service thread's socket, and ask for a
reconnect by a flag and a socket shutdown; replies come back on the service
thread and meet the submit table. `stratum_disconnect` runs on the service
thread in separately locked steps while miner threads are anywhere in their
loops. The main thread only sets the abort flag, shuts sockets down and joins.

What is hard here: checks that are not atomic with the send they protect; ids
that are reused from connection to connection; retry bookkeeping that is shared
by failover and dev-fee slices; timeouts that cut each other short; wakeups of
threads that wait for work; nonce ranges that must not overlap when jobs,
preimages and nonce spaces change under a thread; a dataset rebuilt in place
under threads that read it without a lock; lines that arrive and leave in parts
while connections are replaced; start-ups that fail half-way. `PROJECT.json` lists these
under "hazards", each at its line.

What makes each part correct:

- service thread: it is on a usable pool, or on the dev slot during a slice; it
  pauses between rounds; it notices silence, boundaries and the abort;
- dev fee: slices begin and end on time or for a cause, and the miner comes back
  to the user's pool;
- submit path: a share is counted once, for the right pool, against its own
  reply; a share passes the checks only while its connection is current;
- work and nonces: no hash is computed twice, no job is slept through;
- RandomX: no thread reads the dataset while it is written, no share of a wrong
  key is sent;
- session: work is published only from this connection and from what the pool
  said on it; every outdated copy is recognised; set-up ends;
- transport: bytes are neither lost nor mixed short of a protocol error,
  deadlines are kept short of a signal;
- lifecycle: every thread is joined once, before what it reads is released; an
  abort ends the program;
- API: the history is the latest samples in order, a request is read as a whole.

## 2. Modules

| module | models | extends |
|---|---|---|
| `PoolService` | service thread, message loop, failover, retry, dev fee | |
| `MCPoolService` | names the value -1 of `OptRetries` for a cfg | `PoolService` |
| `PoolServiceProofs` | proofs | `PoolService` |
| `ShareSubmit` | submission, pending table, replies, statistics, teardown | |
| `MCShareSubmit` | symmetry of the threads | `ShareSubmit` |
| `ShareLedger` | abstract specification of share accounting | instantiated by `ShareSubmit` |
| `ShareSubmitProofs` | proofs, the refinement included | `ShareSubmit` |
| `NoncePartition` | `miner_get_thread_nonce_range` | |
| `WorkScan` | publication of work and the mining loop | `NoncePartition` |
| `WorkScanProofs` | proofs, the partition included | `WorkScan` |
| `RandomXRekey` | seed change, drain, rebuild, hashing threads | |
| `RandomXRekeyProofs` | proofs | `RandomXRekey` |
| `Lifecycle` | start-up, abort, joins, cleanup, API start and stop | |
| `LifecycleProofs` | proofs | `Lifecycle` |
| `DnsFallback` | the resolver's walk | |
| `LineTransport` | one pool's connection: connect, receive, send, shut down | `DnsFallback` |
| `MCLineTransport` | symmetry of the senders | `LineTransport` |
| `LineTransportProofs` | proofs, those about `DnsFallback` included | `LineTransport` |
| `PoolSession` | handshake, dispatch, jobs, published work | |
| `MCPoolSession` | the extranonce sizes that are tried | `PoolSession` |
| `PoolSessionProofs` | proofs | `PoolSession` |
| `StatsApi` | sample ring and requests | |
| `StatsApiProofs` | proofs | `StatsApi` |

The modules meet at stated places: a receive of `PoolService` is a line of
`LineTransport`; an attempt of `PoolService` (opening the transport, then the
waits of the handshake) is the handshake of `PoolSession` over the connect of
`LineTransport`, which drives `DnsFallback`;
what `PoolSession` publishes is what `WorkScan` and `RandomXRekey` scan and
`ShareSubmit` submits; `Lifecycle` starts and joins the threads of all of them.

Operators marked "Bug:" are deliberate mistakes, one per property, used to show
that the property can fail; the specifications do not use them.

### PoolService

Variables keep the names of the code (`retry_count`, `in_slice`,
`user_pool_index`, `cur_target`, ...). `pc` is where the service thread is:

- `top`: the head of the loop of `stratum_service_thread`;
- `connect`: `stratum_open_pool_connection` opens the transport, in at most
  `OpenTimeout` seconds;
- `reply`, `authorize`, `extranonce`: it waits for a reply of the handshake, in
  `stratum_wait_for_response`. The first (subscribe, or RandomX's login) ends
  after `ReplyTimeout` seconds, the last after `XnonceTimeout`, and its outcome
  is ignored. The wait for authorize is called with a timeout of 0 and so has no
  deadline: every other line (`OtherLine`) starts it anew. No wait looks at the
  abort flag. Other lines are dispatched, so `client.reconnect` is obeyed here
  too: it disconnects, the attempt fails, and the same pool is tried again at
  once. An attempt ends in `OpenOk` or `OpenFail`;
- `recv`: inside the receive of `stratum_run_message_loop`. `LoopHead` is the
  part from the end of one receive to the start of the next: abort, reconnect
  flag, slice boundary, computation of the timeout;
- `after`: the code after the message loop; `disc`:
  `stratum_handle_disconnected_session`; `pause`: the retry pause; `done`.

Time is relative: `until` (to the boundary), `timer` (to the end of the pause,
receive or attempt) and `silent` (since the last line) count seconds. `Tick`
advances them together, so no clock is bounded. A receive that is due to time
out, and a pause that is over, must be handled before time goes on. The code's
`time(NULL)` could step; the model's time does not.

The environment: pools go up (they accept a connection and answer in time) and
down, connections drop, lines arrive, a line may be fatal, a `client.reconnect`
may redirect, a miner thread may ask for a reconnect (raised and carried out in
two steps, so it may hit the next session), the user may abort. The signal of an
abort may interrupt a poll, which then starts anew with its full time
(`FullWait`). After the abort main shuts the sockets down, once
(`stop_all_pool_services`): a pool that is still being opened has no socket yet
and is left out.

Abstraction: what is said in the handshake is in `PoolSession`; jobs and shares
are not here.
`failed` and `dev_fault` are history variables.

### ShareSubmit

A miner thread walks through `submit_ready_share` and `stratum_send_submit`:
generation check, authentication check, id, reservation, send or release, each
its own action because each takes its own lock or reads its own atomic. The
service thread connects, logs in, publishes, handles replies, and disconnects
in four steps (transport, work, table, authentication). Which pool is next is
left open, so everything here holds for any choice `PoolService` can make.
The pool may send any reply any number of times and in any order. `Expire` says
that an entry has aged past the timeout. `share`, `born`, `conn` of works,
`credits` and `found` are history.

`ShareLedger` is what this path promises, without ids, tables, threads and
connections: a share is found for a pool, held, outstanding, then counted; it
may be dropped or forgotten on the way, never comes back to a place it left, and
is counted for its own pool only, in the user's totals unless that is the dev
slot. `Ledger` in `ShareSubmit` reads `held` off the program counters,
`outstanding` off the tables and `counted` off the credits; `KeepsLedger` says
that every behaviour of the submit path is then one of the ledger.

### NoncePartition and WorkScan

`NoncePartition` is the arithmetic of the split: thread t of n gets
`[space*t \div n, space*(t+1) \div n)`. In `WorkScan` a job is its preimage, the key
`work_is_new_job` compares, and its nonce space. `ResumeAt` is the decision
where to go on, `CopyWork` the whole block from the copy to the epoch roll,
`Scan` one call of the hash function with any number of hashes done.

Assumption: a pool sends the latest job again or one with a new preimage; it
does not go back to an earlier preimage. (If it did, threads would scan it
again; see the hazard at `miner.cpp:1462`.)

### RandomXRekey

`randomx_set_seed` bumps the generation, drains (`rx_drain_active_hashers`, at
most `DrainPolls` rounds) and rebuilds the memory in place under `g_rx_lock`;
`scanhash_randomx` takes its VM under the lock, enters the counter, then reads
the generation before each hash. A hash has a start and an end; `sound` records
whether the memory held the job's key from the one to the other. `gave_up`
records that the drain ended with hashers left. The sequentially consistent
fences of the code are what justifies interleaving single steps.

### PoolSession

`phase` is the reply the service thread waits for, or the message loop. Every
line other than the awaited reply goes through `Dispatch`, in the handshake too:
notifications, difficulty, extranonce, redirect, show_message, and refused ones.
`told` (history) is what the pool said on this connection; the properties
compare with it. A job is its block, its id, its height if known, its
difficulty; the contents of headers are left out. Seconds pass only while
waiting.

### LineTransport and DnsFallback

Streams are sequences of pieces; a line ends with a piece that carries the
newline. The receive loop is modelled per iteration (deadline, try or poll,
chunk), for plain sockets and for TLS, where a receive comes first because the
TLS layer may hold bytes the socket no longer shows. `left` is the time to the
receive's deadline, `poll_left` what is left of the poll in progress: a signal
(`Interrupted`; the handlers are installed without `SA_RESTART`) starts the poll
again with the time it had in the beginning, so each signal can put the end off
by one time-out. A send holds the lock and writes parts; a shutdown by any
thread closes the stream under both. A chunk with a NUL, or one that makes a
line too long, is thrown away (`lost`) and the receive fails. The connection is
then dropped, except in the wait for the extranonce reply, where the failure is
taken for a pool without that extension and the session goes on with a hole in
its input (`FailureIgnored`, `hole`). When the
name cannot be resolved, the service thread walks through `DnsFallback` and
tries once more. `delivered` (history) is the sequence of pieces that the
receives returned and `cuts` the places where one line ended and the next began.

### Lifecycle

`main` is where the main thread is in `start_mining` or `run_benchmark`; `state`
of each thread is off, running, ended or joined; `live` are the resources.
`Fail` stands for any creation or allocation that fails. The API's four flags
are kept because main and the API thread decide by them.

### StatsApi

The ring with its head and count, the per-thread deltas, and one client at a
time whose request arrives in pieces. A round of samples takes one step per
thread, because the snapshot reads the counters one by one while the miner
threads count on. `log` (history) is every sample and `reported` what the
samples of each thread add up to.

## 3. Runs

Every passing run explores its whole state space.

| run | question | result |
|---|---|---|
| `pool_failover` | failover over four slots, one disabled, retry limit 1, no dev fee | `PacedRetries` holds; an abort ends the thread unless a pool holds it in the authorize wait; with every pool down the limit ends it |
| `pool_devfee` | two pools, dev slot with two targets, keepalive, retrying for ever | `PoolSelection`, `OneTransport`, `SilenceBounded`, `NoWaitPastBoundary`, `SliceCutForCause`, `UserMiningResumes` hold (the last with the two exceptions it states) |
| `pool_paced_dev` | `PacedRetries` with the dev fee on | violated |
| `submit_session` | two threads, a user pool and the dev slot, one pending slot per pool, two connections | shares are counted once, in the right totals, against their own reply; the generation check is sound at the moment it is made; the path implements `ShareLedger` |
| `work_scan` | each algorithm with two threads on three nonces, Verus epochs 0..1, RandomX with a nicehash space of one | no repeated hash, ranges kept, the epoch never wraps, no lost wakeup, threads stop |
| `rx_rekey` | two threads, two seeds, two jobs or disconnects, a drain of two polls | the rebuild is alone unless the drain gave up; a hash of the current generation has its key; no unsound share is sent; the re-key ends and its work is hashed |
| `lifecycle` | both modes, with and without API and reporter, one failure anywhere, a worker without memory, a lost session, an abort at any time | nothing is used after its release, every join is legal, nothing is left, an abort ends the program (outside the API start) |
| `lifecycle_ctrlc` | does an abort end the program at any time | violated |
| `transport` | two connections, plain and TLS, two senders, three pieces, a signal, two resolver servers | lines whole and in order both ways short of a protocol error, deadlines kept but for one time-out per signal, no timeout with a line at hand, the walk within its budget over UDP |
| `dns_budget` | does the whole walk, TCP included, keep the budget | violated |
| `session` | each protocol, two connections, four lines besides the replies | `AuthorizedHere`, `PublishedWorkSound`, `CurrentCopyAgrees`, `SetupBounded` hold |
| `api` | two threads, a ring of three, four rounds, two clients | the history is faithful, requests are read whole |

### What the violations show

1. `pool_paced_dev`: a connection to the dev slot starts a retry round *at the
   dev slot*, which failover never visits. The round never ends, so pools that
   fail after a slice are retried without pause and without limit.
2. `lifecycle_ctrlc`: the API thread reports its start, sees the abort, ends and
   clears the report; main, which has not looked yet, waits for ever. With an
   abort at any other time the program ends (`AbortEnds`).
3. `dns_budget`: an exchange over TCP clamps its time-out to the budget once, and
   each of its blocking calls may take it. Over UDP the budget is kept
   (`WalkBounded`).

### What the models show beside the checked properties

Behaviours of the code that no property excludes, because they really happen:

- the dev slot's `reconnect_requested` is never cleared, so after one request
  every later slice ends at once (the second cause in `SliceCutForCause`);
- a redirected first dev target stays for later slices; an unanswered connect to
  the dev pool outlasts the slice;
- an id drawn before the table is reset and stored after it duplicates an id of
  the new session; `CreditedOnce` and `KeepsLedger` hold, the reply may be
  credited to the other of the two shares of that pool;
- check and send of a share are not atomic, so a share can reach the next
  connection; `PassedCheckIsCurrent` states what the check does guarantee;
- a hasher that outlives the drain may compute on a torn dataset; the generation
  check stops its share (`SharesSound`);
- a user pool that redirects the miner in every handshake is tried again without
  pause and without failover (`HandshakeReconnect` in `UserMiningResumes`);
- a signal restarts a poll in full: a receive may then outlast its deadline, the
  slice boundary and the silence bound (`signals` in `RecvOnTime`, `aborting` in
  `NoWaitPastBoundary` and `SilenceBounded`);
- a send that fails midway does not close the connection, so the next line is
  glued to the rest (`torn` in `WholeLinesOut`);
- jobs that arrive before the reply to subscribe or login are built from the
  extranonce and nonce mode of the previous connection (`replied` in
  `PublishedWorkSound`);
- the wait for the authorize reply is bounded by silence only (`Bounded` in
  `SetupBounded`): every other line starts it anew, and it looks neither at the
  abort nor at the slice boundary. If main shuts the sockets down before the pool
  that is being opened has one, and that pool keeps sending other lines, the
  thread never ends and main never returns from the join, against
  `miner.cpp:1925-1928` ("shutdown() makes that wait return immediately"). A dev
  pool that does so holds the miner past the slice boundary, against
  `docs/INTERNALS.md:209-211` ("the fee can never cost the user mining time").
  The premise of `ServiceStops` and `HeldUp` in `UserMiningResumes` are these
  cases;
- a receive in the extranonce wait that meets a NUL or a line that is too long
  throws the chunk away, its failure is ignored, and the next line is put
  together from what came before and after, against
  `stratum_transport.cpp:420-427` ("a fatal protocol error rather than truncating
  the data", "dropping connection"). `LinesIntact` says that this is the only
  place where a loss does not end the connection (`hole`).

### Bounds

Pools: the ring needs a disabled slot between usable ones and a wrap (four
slots); the dev fee needs two user pools to make failover and slices meet.
Slices of four seconds are the shortest for which the quarter-slice rule of
`devfee_advance_target` is not trivial. In `pool_devfee` the waits of a handshake
together are shorter than the cycle of seven seconds, as with the default cycle
of the code, so that a session can be set up between two slices. `RetryCap` lies above the retry limit,
the only value `retry_count` is compared with. `MaxLate` requests in flight: one
is enough to hit the wrong session (`pool_failover`; the safety properties are
proved for any number, with the dev fee too). Submit path: two threads and two connections
give every overlap of an old attempt with a new session; one slot forces reuse.
Nonces: three nonces for two threads make the split uneven, and the nicehash
space of one moves the second thread's start (and leaves the first thread, which
then waits, no nonce); two jobs give new block, refresh and
repetition. RandomX: two jobs with two seeds give a first key and a
re-key under hashing threads; two polls let the drain both succeed and give up.
Lifecycle: one failure at a time, as a second one after the first only meets the
cleanup; two workers so that some are running when the next cannot be created.
Transport: two connections for what may leak from one into the next, three
pieces for two lines of which one is cut, a buffer of two, one signal (the
deadline is proved for any number); `dns_budget` needs one
connection and neither pieces nor sends. Session: two
connections, two blocks, and three sizes of extranonce of which each protocol
refuses one. API: four rounds of two samples overflow a ring of three.
`MaxConn`, `MaxPublish`, `MaxShares`, `ChunkSize`, `MaxJobs`, `MaxPieces`,
`MaxSends`, `MaxSignals`, `MaxConnects`, `MaxConns`, `MaxLines`, `MaxRounds`, `MaxClients` and
`MaxHashes` only bound exploration.

Deadlock is checked in the pool and submit runs. The others end: the threads
after an abort, the environment when its bounds are used up.

### Fairness

`PoolService`: the service thread keeps running (weak fairness) and time passes
(strong fairness on `Tick`, as steps of the thread disable it in between), and
main gets to its shutdown of the sockets after an abort. The pools, the miner
threads and the user owe nothing. `WorkScan`: every miner
thread keeps running; it polls with bounded sleeps, so nothing but the
scheduler is assumed. `RandomXRekey`: the service thread and every miner thread
keep running; a hash ends. `Lifecycle`: every thread keeps running, workers
leave their loops after an abort (shown by `ThreadsStop`) and so does the
service thread (shown by `ServiceStops`, for pools that do not hold it in the
authorize wait).

## 4. Proofs

Every safety property of a passing run is proved for arbitrary constants, under
the assumptions named in the modules (`PoolServiceAssumption`,
`ShareSubmitAssumption`, `NoSubmitAssumption`, `ThreadsAssumption`,
`WorkScanAssumption`, `RandomXAssumption`, `LifecycleAssumption`,
`TransportAssumption`, `DnsAssumption`, `SessionAssumption`, `ApiAssumption`).
These say what the code's types and start-up checks give. Two deserve a word:
the miner threads of `RandomXRekey` are finitely many, as the count of hashers
is compared with their number; and `WorkScan` has no more threads than nonces in
the full space (an `int` against 2^32), as a Verus thread with an empty range
would roll its epoch without hashing.

Each module has an inductive invariant `IInv`, kept by every action
(`Invariance`), from which its properties follow. Each was first model-checked
on the instance of its run.

`PoolServiceProofs`. The inductive invariant adds to type, `PoolSelection` and
`OneTransport` two facts: `Settled` (the retry pause and, unless aborting, the
failover code are only reached outside a slice, and the pause with every
transport closed) and `WaitBounded` (while receiving, silence so far and time
left add up to at most the pool timeout plus a keepalive interval, and the time
left does not exceed the time to the boundary, until an abort). `WaitBounded` is what makes `SilenceBounded`
and `NoWaitPastBoundary` inductive: neither mentions the timer. That failover
returns a usable pool needs the least distance around the ring with a usable
slot, hence the well-foundedness of the naturals (`LeastElement`).
`SlicesCutForCause` needs that the cause is on record as soon as a session on
the dev pool has ended early, or its connection is gone (`CauseKept`); the step
that cuts the slice only comes later. `PacedRetriesCorrect` measures how far
failover has come from the start of the round (`Distance`): the pools that
failed lie strictly nearer to the start than the current one (`RoundOK`), and
failover to the next usable pool either goes further or passes the start, which
`wrapped` detects (`RoundAdvances`). It holds without the dev fee only: with it,
`pool_paced_dev` shows the counterexample.

`ShareSubmitProofs`. Five parts: type; `SessionOK` (only the current pool has a
socket, and only an open socket has received submits); `WorkOK` (work of the
current generation comes from the latest connection, before its withdrawal);
`SharesOK` (a share is in one place: one thread before reservation, one table
entry, or counted); `IdsOK` (among all carriers of an id - threads, table,
pool - those drawn since the last reset are below the counter, and an id drawn
between two resets belongs to one share). From these follow `CreditedOnce`,
`ReplyFindsItsShare` and `PassedCheckIsCurrent`. Most steps only remove entries
(`TablesShrink`) and carriers (`HoldersShrink`); finding, reserving, drawing an
id, counting and resetting are proved one by one. `TotalsExcludeDevFee` compares
the counters with the set of counted results (`tally`); that a new result is not
in the set yet comes from `SharesOK`: the share of a pending entry has no credit.

`LedgerKept`, in the same module: initial states map to initial states, and
under the inductive invariant every step maps to a step of the ledger or to a
stutter. `SharesOK` is what is needed: because a share is in one place, letting
go of it empties that place (`HeldDropped`), and counting it removes exactly one
outstanding entry (`ResponseLedger`). Every step that only frees entries of one
pool is a `Forget` (`ShrinkForgets`), whether it resets a session, releases after
a failed send or lets an entry age; a reservation is a `Reserve` in which the
reaped entries make room (`ReserveLedger`).

`WorkScanProofs`. The ranges lie in the space, are disjoint and cover it, for
every number of threads and size of the space, from the floor property of
integer division. On top of them: a thread's locals are those of the work it
copied last and equal preimages have equal nonce spaces (`CopiesOK`), a thread
stays in its range (`PositionOK`), and of the hashes in a thread's range only
those behind it, in the order of epoch and nonce, were computed (`BehindOK`).
`NoRepeatedHash` alone is not inductive: `BehindOK` is what a thread that resumes
after a refresh, a reset or a change of the nonce space must find true, and
disjointness keeps the hashes of other threads out of the range.

`RandomXRekeyProofs`. The counter of hashers is the number of threads inside
(`Counted`); from the start of a re-key to the publication of its job all work
anybody holds is of an earlier generation (`Stamped`), and work of the current
one is for the key in force (`WorkKeyed`). So a hash of the current generation
cannot overlap a rebuild, even when the drain gives up (`ResultSound`), which
gives `HashesKeyed` and `SharesSound`; `RebuildAlone` needs `Counted` as well.

`LifecycleProofs`. Main's own records tell which threads are still to be joined
(`RecordsOK`), and at each place of main what has been created (`PathOK`) and
what exists (`LiveOK`): the release of a resource is only reached when the
records of its users are clear.

`LineTransportProofs`. What was delivered, buffered, decrypted and in flight is,
in this order, what the pool sent (`LinesIntact`), and nothing of an earlier
connection is left (`NothingKept`); what was thrown away is either about to end
the connection or the hole of the extranonce wait (`LossOK`). `TimeoutIsSilence`, an action property,
needs that a receive waits only without a complete line in its buffer and polls
only with an empty TLS layer (`SilenceOK`). `RecvOnTime` needs that time passed
and time left of the poll add up to at most one time-out and one more per signal
(`DeadlineOK`, `PutOff`), `WholeLinesOut` that the last piece in the
stream is the lock holder's last one or ends a line (`TailOK`), `WalkBounded`
that an exchange over UDP begins within the budget and is clamped to the rest of
it (`WalkOK`).

`PoolSessionProofs`. What the context remembers is what the pool said since its
reply (`SaidOK`), so work built from it is sound when it is published
(`Published`); the published work carries the generation and the clean job in
force and copies are never ahead (`CopyOld`), which makes `CurrentCopyAgrees`
inductive. `DeadlineOK` is `SetupBounded` with the time that is left.

`StatsApiProofs`. Entry i of the ring, counted from the oldest, is entry i of the
end of the log (`RingOK`, `PushRing`), with the index reduced by hand because it
wraps at most once (`WrapsOnce`). A request that was received as a whole has the
pieces that its client sent (`Begins`, `PiecesHas`), and reading stops early only
at its last piece or at the end of the buffer (`HandleRequest`, `RecvSomeStep`).

Only model-checked, by `pool_failover`, `pool_devfee`, `work_scan`, `rx_rekey`
and `lifecycle`: everything under fairness (`ServiceStops`, `RetryLimitReached`,
`UserMiningResumes`, `WorkAdopted`, `ThreadsStop`, `RekeyEnds`, `WorkHashed`,
`AbortEnds`), as liveness is out of the prover's reach. The three properties that
do not hold (`PacedRetries` with the dev fee, `CtrlCStops`, `WalkInBudget`) are
shown by their counterexamples.

## 5. Not modelled

- Hash kernels and vendored code: bit-level computation; the values of hashes
  are out of a model checker's reach.
- Target arithmetic and the byte layout of headers, coinbases and submit
  requests: 256-bit numbers and buffers. Only which job they are built from is
  modelled. Requests that cannot be built for want of memory are left out.
- Configuration: JSON into option variables before any thread runs; its result
  is a parameter.
- CPU probing and thread placement, logging, the formatting of statistics and of
  the other API responses: no shared state and nothing another part waits for.
- Android application: Kotlin around the native process.
- Unsynchronised reads of `session_id` and of the extranonce size by miner
  threads that build a request (listed as a hazard).
- Steps of the wall clock.

## 6. Plan

1. An abstract specification of nonce assignment (every preimage, epoch and
   nonce is handed out at most once) that `WorkScan` implements, and the proof
   of the refinement.
2. An abstract specification of re-keying (a key in force, hashes on it or void)
   that `RandomXRekey` implements, with its proof.
3. Pure algorithms against reference definitions: difficulty to target, Monero
   compact target, coinbase height.
