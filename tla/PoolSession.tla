---------------------------- MODULE PoolSession -----------------------------
(***************************************************************************)
(* A session with one pool, as the service thread drives it: the handshake *)
(* (subscribe, authorize and extranonce.subscribe, or one login), the      *)
(* dispatch of every line the pool sends, during the handshake too, the    *)
(* jobs built from notifications and the work published from them, and a   *)
(* miner thread that copies that work.                                     *)
(*                                                                         *)
(* A line is one step (LineTransport has its bytes).  A block is its       *)
(* version and previous hash; its number is the height the pool knows it   *)
(* by, and a job id names the jobs of one block.  Difficulties are numbers *)
(* of which 1 is the default, and a target is known by its difficulty.     *)
(* stratum_disconnect is one step (ShareSubmit has the order inside it).   *)
(***************************************************************************)
EXTENDS Integers

CONSTANTS
    Algos,           \* a subset of {"standard", "verus", "randomx"}
    Blocks,          \* block heights
    Diffs,           \* difficulties a pool announces
    Xnonces,         \* records [xn1, xn2] of extranonce sizes; xn2 = 0 if not given
    ReplyTimeout,    \* of subscribe and login (30)
    XnonceTimeout,   \* of extranonce.subscribe (2)
    PoolTimeout,     \* miner_get_pool_timeout
    RebuildTime,     \* of the RandomX dataset
    None,
    MaxConns, MaxLines   \* bounds: connections, lines that are no awaited reply

ASSUME SessionAssumption ==
    /\ Algos \subseteq {"standard", "verus", "randomx"}
    /\ Blocks \subseteq Nat \ {0} /\ Diffs \subseteq Nat \ {0}
    /\ Xnonces \subseteq [xn1 : Nat, xn2 : Nat]
    /\ {ReplyTimeout, XnonceTimeout, PoolTimeout, RebuildTime} \subseteq Nat \ {0}
    /\ {MaxConns, MaxLines} \subseteq Nat

VARIABLES
    opt_algo,
    phase,         \* "off", the reply awaited ("subscribe", "resubscribe",
                   \* "authorize", "extranonce", "login"), "loop", "failed"
    sock,
    left,          \* seconds to the deadline of the wait
    silent,        \* seconds since the last line
    elapsed,       \* history: seconds since the request was sent
    \* the context
    authenticated, session_id, xnonce, next_diff, xmr_nicehash, job,
    reconnect_requested,
    \* the published work, and a miner's copy of it
    work_ready, current_work, work_generation, copy,
    \* history
    conn,          \* the connections made
    lines,         \* the lines received besides awaited replies
    told,          \* what the pool said on this connection
    era            \* clean jobs published

waitVars == <<left, silent, elapsed>>
workVars == <<work_ready, current_work, work_generation, era>>
ctxVars  == <<authenticated, session_id, xnonce, next_diff, xmr_nicehash, job,
              reconnect_requested>>
vars     == <<opt_algo, phase, sock, waitVars, ctxVars, workVars, copy, conn, lines, told>>

NoJob  == [id |-> 0, block |-> 0, height |-> 0, diff |-> 0]
NoWork == [job_id |-> 0, block |-> 0, height |-> 0, diff |-> 0, xnonce |-> None,
           masked |-> FALSE, gen |-> 0, conn |-> 0, era |-> 0, told |-> None]

\* Nothing said yet: a difficulty of 1 is the rule of the protocol.
Untold == [accepted |-> FALSE, replied |-> FALSE, diff |-> 1, nicehash |-> FALSE, block |-> 0,
           xnonce |-> None]

is_verus == opt_algo = "verus"

Xnonce == [xn1 : Nat, xn2 : Nat] \cup {None}
Told   == [accepted : BOOLEAN, replied : BOOLEAN, diff : Nat, nicehash : BOOLEAN, block : Nat,
           xnonce : Xnonce]
Job    == [id : Nat, block : Nat, height : Nat, diff : Nat]
Work   == [job_id : Nat, block : Nat, height : Nat, diff : Nat, xnonce : Xnonce,
           masked : BOOLEAN, gen : Nat, conn : Nat, era : Nat, told : Told \cup {None}]

TypeOK ==
    /\ opt_algo \in {"standard", "verus", "randomx"}
    /\ phase \in {"off", "subscribe", "resubscribe", "authorize", "extranonce", "login", "loop",
                  "failed"}
    /\ sock \in BOOLEAN /\ authenticated \in BOOLEAN /\ xmr_nicehash \in BOOLEAN
    /\ reconnect_requested \in BOOLEAN /\ work_ready \in BOOLEAN
    /\ {left, silent, elapsed, session_id, next_diff, work_generation, conn, lines, era}
          \subseteq Nat
    /\ xnonce \in Xnonce /\ told \in Told /\ job \in Job
    /\ current_work \in Work /\ copy \in Work

-----------------------------------------------------------------------------
(* Connecting and disconnecting. *)

\* Bug: the session stays authenticated.
ResetButStayAuthenticated == next_diff' = 1 /\ UNCHANGED authenticated

stratum_reset_session_runtime == next_diff' = 1 /\ authenticated' = FALSE

stratum_reset_work_state ==
    /\ current_work' = NoWork /\ work_ready' = FALSE
    /\ work_generation' = work_generation + 1 /\ UNCHANGED era

\* The extranonce, the session id and the nonce mode outlive the connection.
stratum_disconnect ==
    /\ sock' = FALSE /\ told' = Untold
    /\ stratum_reset_work_state
    /\ job' = NoJob
    /\ stratum_reset_session_runtime
    /\ UNCHANGED <<session_id, xnonce, xmr_nicehash>>

WaitFor(p, seconds) ==
    phase' = p /\ left' = seconds /\ silent' = 0 /\ elapsed' = 0

Goto(p) == WaitFor(p, 0)

\* stratum_send_request_and_wait: an error of the socket is seen at once.
Request(p, seconds, otherwise) ==
    \/ sock /\ WaitFor(p, seconds)
    \/ Goto(otherwise)

stratum_open_pool_connection ==
    /\ phase = "off" /\ conn < MaxConns
    /\ conn' = conn + 1 /\ told' = Untold
    /\ sock' = TRUE
    /\ \/ WaitFor(IF opt_algo = "randomx" THEN "login" ELSE "subscribe", ReplyTimeout)
       \/ Goto("failed")
    /\ UNCHANGED <<opt_algo, ctxVars, workVars, copy, lines>>

\* After a failed setup, or after the message loop: the service thread takes
\* the reconnect request and disconnects.
Disconnect ==
    /\ phase = "failed"
    /\ phase' = "off" /\ reconnect_requested' = FALSE
    /\ stratum_disconnect
    /\ UNCHANGED <<opt_algo, waitVars, copy, conn, lines>>

-----------------------------------------------------------------------------
(* Jobs and work. *)

\* Bug: only a clean job makes the miners start over.
RestartWhenClean(new, clean) == clean

\* The rule of stratum_publish_work.
ShouldRestart(new, clean) ==
    \/ ~work_ready \/ clean
    \/ new.height # current_work.height
    \/ new.diff # current_work.diff

\* A copy that fails for want of memory leaves the old work in place.
stratum_publish_work(new, clean) ==
    \/ UNCHANGED workVars
    \/ LET restart == ShouldRestart(new, clean)
           gen     == IF restart THEN work_generation + 1 ELSE work_generation
       IN  /\ work_generation' = gen
           /\ era' = IF clean THEN era + 1 ELSE era
           /\ current_work' = [new EXCEPT !.gen = gen, !.era = era']
           /\ work_ready' = TRUE

\* build_standard_work, build_verus_work and build_xmr_work
BuildWork(j) ==
    [NoWork EXCEPT !.job_id = j.id, !.block = j.block, !.height = j.height, !.diff = j.diff,
                   !.xnonce = IF opt_algo = "randomx" THEN None ELSE xnonce,
                   !.masked = opt_algo = "randomx" /\ xmr_nicehash,
                   !.conn = conn, !.told = told]

\* The job and the work built from it, under one lock.
stratum_commit_job_update(j, clean) ==
    /\ job' = j
    /\ told' = [told EXCEPT !.block = j.block]
    /\ stratum_publish_work(BuildWork(j), clean)

\* The height of a standard job is in its coinbase.
apply_standard_job_locked(m) ==
    [id |-> m.block, block |-> m.block, height |-> m.block, diff |-> next_diff]

\* Bug: the height is kept whatever the block.
HeightAlwaysKept(m) ==
    [id |-> m.block, block |-> m.block, height |-> job.height, diff |-> next_diff]

\* The height of a Verus job comes with a later show_message, and stays while
\* the block does.
apply_verus_job_locked(m) ==
    [id |-> m.block, block |-> m.block, diff |-> next_diff,
     height |-> IF job.id # 0 /\ job.block = m.block THEN job.height ELSE 0]

xmr_apply_job_locked(m) ==
    [id |-> m.block, block |-> m.block, height |-> m.block, diff |-> m.diff]

\* The extranonce must leave the words that the miner rolls alone.
verus_validate_nonce_layout ==
    xnonce # None /\ xnonce.xn1 + xnonce.xn2 = 32 /\ xnonce.xn1 =< 12

\* What the parsers, the decoders and the allocations of a notification refuse.
Faults ==
    [standard |-> {"params", "ntime", "merkle", "job_id", "hex", "memory"},
     verus    |-> {"params", "ntime", "solution", "job_id", "hex", "memory"},
     randomx  |-> {"params", "job_id", "blob", "target", "seed", "memory"}]

\* A notification that is refused changes nothing.
Refused(ok) == ~ok /\ UNCHANGED <<job, told, workVars>>

stratum_notify_standard(m, ok) ==
    IF m.fault \in Faults["standard"]
    THEN Refused(ok)
    ELSE ok /\ stratum_commit_job_update(apply_standard_job_locked(m), m.clean)

verus_stratum_notify(m, ok) ==
    IF m.fault \in Faults["verus"] \/ ~verus_validate_nonce_layout
    THEN Refused(ok)
    ELSE ok /\ stratum_commit_job_update(apply_verus_job_locked(m), m.clean)

\* The seed is changed first, if it did; the job always makes miners restart.
xmr_stratum_handle_job(m, ok) ==
    IF m.fault \in Faults["randomx"]
    THEN Refused(ok)
    ELSE ok /\ stratum_commit_job_update(xmr_apply_job_locked(m), TRUE)

handle_notify(m, ok) ==
    CASE opt_algo = "standard" -> stratum_notify_standard(m, ok)
      [] opt_algo = "verus"    -> verus_stratum_notify(m, ok)
      [] opt_algo = "randomx"  -> xmr_stratum_handle_job(m, ok)

-----------------------------------------------------------------------------
(* The methods a pool calls. *)

\* What stratum_parse_extranonce accepts, with the size it derives for Verus.
XnonceValid(x) ==
    IF is_verus THEN x.xn1 =< 31 /\ (x.xn2 = 0 \/ x.xn1 + x.xn2 = 32)
                ELSE x.xn1 =< 12 /\ x.xn2 \in 2 .. 16

stratum_parse_extranonce(x, ok) ==
    IF XnonceValid(x)
    THEN ok /\ xnonce' = IF x.xn2 = 0 THEN [x EXCEPT !.xn2 = 32 - x.xn1] ELSE x
    ELSE ~ok /\ UNCHANGED xnonce

stratum_store_next_diff(d) == next_diff' = d /\ told' = [told EXCEPT !.diff = d]

\* "client.reconnect" to a valid address takes the session down at once.
stratum_reconnect(m, ok) ==
    IF m.valid
    THEN ok /\ reconnect_requested' = TRUE /\ stratum_disconnect
    ELSE ~ok /\ UNCHANGED <<sock, told, ctxVars, workVars>>

\* A height is for the job the pool sent last, and for the work if that is
\* the same job.  Nobody restarts for it.
stratum_show_message(m) ==
    /\ job' = [job EXCEPT !.height = m.height]
    /\ current_work' =
           IF work_ready /\ job.id # 0 /\ current_work.job_id = job.id
           THEN [current_work EXCEPT !.height = m.height] ELSE current_work

\* What a pool may send that is not the awaited reply.  Answers are requests
\* for the name, the version or a pong; other lines are methods nobody knows
\* and replies, awaited no more or to shares.
Lines ==
         [is : {"notify"}, block : Blocks, clean : BOOLEAN, diff : Diffs, fault : {"none"}]
    \cup [is : {"notify"}, fault : Faults[opt_algo]]
    \cup [is : {"difficulty", "target"}, diff : Diffs \cup {0}]
    \cup [is : {"extranonce"}, xnonce : Xnonces]
    \cup [is : {"reconnect"}, valid : BOOLEAN]
    \cup [is : {"message"}, height : {told.block} \ {0}]
    \cup [is : {"answer", "unknown"}, id : BOOLEAN]
    \cup [is : {"reply", "garbage"}]

\* stratum_handle_method_value, with the method's handler, and
\* stratum_handle_response_value.  A line that is not ok is fatal.  What has
\* to be answered is not ok when the answer cannot be sent.
Dispatch(m, ok) ==
    \/ /\ m.is = "notify" /\ handle_notify(m, ok)
       /\ UNCHANGED <<sock, authenticated, session_id, xnonce, next_diff, xmr_nicehash,
                      reconnect_requested>>
    \/ /\ m.is = "target" /\ ~is_verus /\ ok      \* ignored
       /\ UNCHANGED <<sock, told, ctxVars, workVars>>
    \/ /\ m.is = "difficulty" \/ (m.is = "target" /\ is_verus)
       /\ IF m.diff > 0 THEN ok /\ stratum_store_next_diff(m.diff)
                        ELSE ~ok /\ UNCHANGED <<next_diff, told>>
       /\ UNCHANGED <<sock, authenticated, session_id, xnonce, xmr_nicehash, job,
                      reconnect_requested, workVars>>
    \/ /\ m.is = "extranonce" /\ stratum_parse_extranonce(m.xnonce, ok)
       /\ told' = [told EXCEPT !.xnonce = IF ok THEN xnonce' ELSE @]
       /\ UNCHANGED <<sock, authenticated, session_id, next_diff, xmr_nicehash, job,
                      reconnect_requested, workVars>>
    \/ m.is = "reconnect" /\ stratum_reconnect(m, ok)
    \/ /\ m.is = "message" /\ stratum_show_message(m)
       /\ UNCHANGED <<sock, told, authenticated, session_id, xnonce, next_diff, xmr_nicehash,
                      reconnect_requested, work_ready, work_generation, era>>
    \/ /\ \/ m.is = "answer" /\ (ok => m.id)
          \/ m.is = "unknown" /\ (~m.id => ok)
          \/ m.is = "reply" /\ ok
          \/ m.is = "garbage" /\ ~ok
       /\ UNCHANGED <<sock, told, ctxVars, workVars>>

-----------------------------------------------------------------------------
(* Waiting for a reply. *)

Waiting == phase \in {"subscribe", "resubscribe", "authorize", "extranonce", "login"}

\* What a wait without a usable reply leads to.
AfterWait == IF phase = "extranonce" THEN "loop" ELSE "failed"

Bounded == phase # "authorize"

\* Bug: every wait is bounded by the pool's silence only.
SilenceOnly == PoolTimeout - silent

\* How long the receive may still take.
receive_timeout == IF Bounded THEN left ELSE PoolTimeout - silent

\* Another line arrives: it is handled and, fatal or not, the wait goes on;
\* only what is no JSON ends it.  A RandomX job with a new seed takes the
\* time of a rebuild.
OtherLine ==
    /\ Waiting /\ sock /\ receive_timeout > 0 /\ lines < MaxLines
    /\ lines' = lines + 1
    /\ \E m \in Lines, ok \in BOOLEAN :
         /\ Dispatch(m, ok)
         /\ IF m.is = "garbage" THEN Goto(AfterWait)
            ELSE \E busy \in IF opt_algo = "randomx" /\ m.is = "notify" /\ ok
                             THEN {0, RebuildTime} ELSE {0} :
                   /\ left' = IF left > busy THEN left - busy ELSE 0
                   /\ elapsed' = elapsed + busy
                   /\ silent' = 0
                   /\ UNCHANGED phase
    /\ UNCHANGED <<opt_algo, copy, conn>>

\* The deadline, silence, or a socket that is gone.
NoReply ==
    /\ Waiting
    /\ Goto(AfterWait)
    /\ UNCHANGED <<opt_algo, sock, ctxVars, workVars, copy, conn, lines, told>>

\* A negative reply gets a second attempt, without agent and session id.
stratum_subscribe ==
    /\ phase \in {"subscribe", "resubscribe"} /\ sock
    /\ \/ /\ IF phase = "subscribe" THEN Request("resubscribe", ReplyTimeout, "failed")
                                    ELSE Goto("failed")
          /\ UNCHANGED <<session_id, xnonce, next_diff, told>>
       \/ \E x \in Xnonces, ok \in BOOLEAN :
            /\ stratum_parse_extranonce(x, ok)
            /\ IF ok
               THEN /\ session_id' = conn /\ next_diff' = 1
                    /\ told' = [told EXCEPT !.replied = TRUE, !.xnonce = xnonce', !.diff = 1]
                    /\ Request("authorize", 0, "failed")
               ELSE Goto("failed") /\ UNCHANGED <<session_id, next_diff, told>>
    /\ UNCHANGED <<opt_algo, sock, authenticated, xmr_nicehash, job, reconnect_requested,
                   workVars, copy, conn, lines>>

stratum_authorize ==
    /\ phase = "authorize" /\ sock
    /\ \E accepted \in BOOLEAN :
         /\ authenticated' = accepted
         /\ told' = [told EXCEPT !.accepted = accepted]
         /\ IF accepted THEN Request("extranonce", XnonceTimeout, "loop")
                        ELSE Goto("failed")
    /\ UNCHANGED <<opt_algo, sock, session_id, xnonce, next_diff, xmr_nicehash, job,
                   reconnect_requested, workVars, copy, conn, lines>>

\* Whatever it says, the reply changes nothing.
stratum_try_extranonce_subscribe ==
    /\ phase = "extranonce" /\ sock
    /\ Goto("loop")
    /\ UNCHANGED <<opt_algo, sock, ctxVars, workVars, copy, conn, lines, told>>

\* A login without session id fails.  A good one authenticates, sets the mode
\* of the nonce, and applies the job it may carry, which may fail it yet.
xmr_stratum_login ==
    /\ phase = "login" /\ sock
    /\ \/ Goto("failed") /\ UNCHANGED <<told, ctxVars, workVars>>
       \/ \E nicehash \in BOOLEAN :
            LET said == [told EXCEPT !.accepted = TRUE, !.replied = TRUE,
                                     !.nicehash = nicehash]
                work(j) == [BuildWork(j) EXCEPT !.masked = nicehash, !.told = said]
            IN
            /\ session_id' = conn /\ next_diff' = 1
            /\ authenticated' = TRUE /\ xmr_nicehash' = nicehash
            /\ \/ Goto("loop") /\ told' = said /\ UNCHANGED <<job, workVars>>
               \/ Goto("failed") /\ told' = said /\ UNCHANGED <<job, workVars>>
               \/ \E b \in Blocks, d \in Diffs :
                    LET j == xmr_apply_job_locked([block |-> b, diff |-> d]) IN
                    /\ Goto("loop") /\ job' = j
                    /\ told' = [said EXCEPT !.block = b]
                    /\ stratum_publish_work(work(j), TRUE)
            /\ UNCHANGED <<xnonce, reconnect_requested>>
    /\ UNCHANGED <<opt_algo, sock, copy, conn, lines>>

-----------------------------------------------------------------------------
(* The message loop, the miner and the clock. *)

MessageLine ==
    /\ phase = "loop" /\ ~reconnect_requested /\ sock /\ lines < MaxLines
    /\ lines' = lines + 1
    /\ \E m \in Lines, ok \in BOOLEAN :
         /\ Dispatch(m, ok)
         /\ phase' = IF ok THEN "loop" ELSE "failed"
    /\ UNCHANGED <<opt_algo, waitVars, copy, conn>>

\* A reconnect request, a lost connection, the end of a dev-fee slice.
MessageLoopEnds ==
    /\ phase = "loop"
    /\ phase' = "failed"
    /\ UNCHANGED <<opt_algo, sock, waitVars, ctxVars, workVars, copy, conn, lines, told>>

stratum_copy_work ==
    /\ work_ready
    /\ copy' = current_work
    /\ UNCHANGED <<opt_algo, phase, sock, waitVars, ctxVars, workVars, conn, lines, told>>

\* A second passes while a reply is awaited.
Tick ==
    /\ Waiting /\ sock /\ receive_timeout > 0
    /\ left' = IF left > 0 THEN left - 1 ELSE 0
    /\ silent' = IF silent < PoolTimeout THEN silent + 1 ELSE silent
    /\ elapsed' = IF Bounded THEN elapsed + 1 ELSE elapsed
    /\ UNCHANGED <<opt_algo, phase, sock, ctxVars, workVars, copy, conn, lines, told>>

Init ==
    /\ opt_algo \in Algos
    /\ phase = "off" /\ sock = FALSE /\ left = 0 /\ silent = 0 /\ elapsed = 0
    /\ authenticated = FALSE /\ session_id = 0 /\ xnonce = None /\ next_diff = 1
    /\ xmr_nicehash = FALSE /\ job = NoJob /\ reconnect_requested = FALSE
    /\ work_ready = FALSE /\ current_work = NoWork /\ work_generation = 0 /\ copy = NoWork
    /\ conn = 0 /\ lines = 0 /\ told = Untold /\ era = 0

Next ==
    \/ stratum_open_pool_connection \/ Disconnect \/ OtherLine \/ NoReply
    \/ stratum_subscribe \/ stratum_authorize \/ stratum_try_extranonce_subscribe
    \/ xmr_stratum_login \/ MessageLine \/ MessageLoopEnds \/ stratum_copy_work \/ Tick

Spec == Init /\ [][Next]_vars

-----------------------------------------------------------------------------
(* Properties. *)

\* The session counts as authenticated, which lets miner threads submit, only
\* while connected to a pool that accepted the credentials on this very
\* connection: across a redirect in the middle of the handshake, a second
\* subscribe, a login whose job is refused, and reconnects.
AuthorizedHere == authenticated => sock /\ told.accepted

\* The published work is from this connection, its height is unknown or that of
\* its block, and a Verus extranonce leaves the words the miner rolls alone.
\* Work built after the reply to subscribe or login uses the extranonce, the
\* difficulty and the nonce mode the pool stated on this connection since.
PublishedWorkSound ==
    work_ready =>
        LET w == current_work IN
        /\ w.conn = conn /\ sock
        /\ w.height \in {0, w.block}
        /\ is_verus => w.xnonce.xn1 =< 12 /\ w.xnonce.xn1 + w.xnonce.xn2 = 32
        /\ w.told.replied =>
              IF opt_algo = "randomx" THEN w.masked = w.told.nicehash
              ELSE w.xnonce = w.told.xnonce /\ w.diff = w.told.diff

\* A miner whose copy still has the current generation mines for the target
\* that is in force, on the connection that is in use, and no clean job has
\* come since.
CurrentCopyAgrees ==
    copy.conn > 0 /\ copy.gen = work_generation =>
        work_ready /\ copy.conn = conn /\ copy.diff = current_work.diff /\ copy.era = era

\* The replies to subscribe, login and extranonce.subscribe are awaited until
\* their deadline however many other lines arrive; a rebuild of the RandomX
\* dataset for a job that arrives meanwhile may exceed it once.
SetupBounded ==
    Waiting /\ Bounded =>
        elapsed =< (IF phase = "extranonce" THEN XnonceTimeout ELSE ReplyTimeout)
                   + (IF opt_algo = "randomx" THEN RebuildTime ELSE 0)
=============================================================================
