------------------------- MODULE PoolSessionProofs --------------------------
(***************************************************************************)
(* What a session promises its miners, for every set of blocks,            *)
(* difficulties and extranonce sizes, every time-out, any number of        *)
(* connections and any number of lines between two replies.                *)
(***************************************************************************)
EXTENDS PoolSession, TLAPS

-----------------------------------------------------------------------------
(* The inductive invariant. *)

\* What the context remembers of the pool's words since the reply to
\* subscribe or login, and of its last job.
SaidOK ==
    /\ told.replied => IF opt_algo = "randomx" THEN xmr_nicehash = told.nicehash
                       ELSE xnonce = told.xnonce /\ next_diff = told.diff
    /\ job.id = job.block /\ told.block = job.block
    /\ job.height \in {0, job.block}

\* Work that miners may be given.
Sound(w) ==
    /\ w.job_id = w.block
    /\ w.height \in {0, w.block}
    /\ is_verus => w.xnonce.xn1 =< 12 /\ w.xnonce.xn1 + w.xnonce.xn2 = 32
    /\ w.told.replied =>
          IF opt_algo = "randomx" THEN w.masked = w.told.nicehash
          ELSE w.xnonce = w.told.xnonce /\ w.diff = w.told.diff

\* The published work carries the generation and the clean job in force.
Published ==
    work_ready =>
        /\ sock /\ current_work.conn = conn
        /\ current_work.gen = work_generation /\ current_work.era = era
        /\ Sound(current_work)

CopyOld == copy.gen =< work_generation

\* Between connections there is no socket and no job, and each phase of the
\* handshake belongs to one protocol.
PhaseOK ==
    /\ phase = "off" => ~sock /\ job = NoJob
    /\ phase = "login" => opt_algo = "randomx"
    /\ phase \in {"subscribe", "resubscribe", "authorize", "extranonce"} => opt_algo # "randomx"

\* Until the deadline every second counts; a rebuild may run past it.
DeadlineOK ==
    Waiting /\ Bounded =>
        LET timeout == IF phase = "extranonce" THEN XnonceTimeout ELSE ReplyTimeout
        IN  IF left > 0 THEN elapsed + left =< timeout
            ELSE elapsed =< timeout + IF opt_algo = "randomx" THEN RebuildTime ELSE 0

IInv ==
    /\ TypeOK /\ AuthorizedHere /\ SaidOK /\ Published /\ CopyOld /\ CurrentCopyAgrees
    /\ PhaseOK /\ DeadlineOK

-----------------------------------------------------------------------------
(* Types, part by part. *)

LEMMA SessionFacts ==
    /\ Algos \subseteq {"standard", "verus", "randomx"}
    /\ \A b \in Blocks : b \in Nat \ {0}
    /\ \A d \in Diffs : d \in Nat \ {0}
    /\ \A x \in Xnonces : x \in [xn1 : Nat, xn2 : Nat]
    /\ ReplyTimeout \in Nat \ {0} /\ XnonceTimeout \in Nat \ {0} /\ PoolTimeout \in Nat \ {0}
    /\ RebuildTime \in Nat \ {0}
    /\ MaxConns \in Nat /\ MaxLines \in Nat
  BY SessionAssumption

PlaceOK ==
    /\ opt_algo \in {"standard", "verus", "randomx"}
    /\ phase \in {"off", "subscribe", "resubscribe", "authorize", "extranonce", "login", "loop",
                  "failed"}

FlagsOK ==
    /\ sock \in BOOLEAN /\ authenticated \in BOOLEAN /\ xmr_nicehash \in BOOLEAN
    /\ reconnect_requested \in BOOLEAN

WaitOK == left \in Nat /\ silent \in Nat /\ elapsed \in Nat

CountsOK == session_id \in Nat /\ next_diff \in Nat /\ conn \in Nat /\ lines \in Nat

WordsOK == xnonce \in Xnonce /\ told \in Told /\ job \in Job

WorkOK ==
    /\ work_ready \in BOOLEAN /\ work_generation \in Nat /\ era \in Nat
    /\ current_work \in Work

LEMMA TypeSplit ==
    /\ TypeOK <=> /\ PlaceOK /\ FlagsOK /\ WaitOK /\ CountsOK /\ WordsOK /\ WorkOK
                  /\ copy \in Work
    /\ TypeOK' <=> /\ PlaceOK' /\ FlagsOK' /\ WaitOK' /\ CountsOK' /\ WordsOK' /\ WorkOK'
                   /\ copy' \in Work
  <1>1. {left, silent, elapsed, session_id, next_diff, work_generation, conn, lines, era}
            \subseteq Nat
          <=> /\ left \in Nat /\ silent \in Nat /\ elapsed \in Nat /\ session_id \in Nat
              /\ next_diff \in Nat /\ work_generation \in Nat /\ conn \in Nat /\ lines \in Nat
              /\ era \in Nat
    OBVIOUS
  <1>2. {left', silent', elapsed', session_id', next_diff', work_generation', conn', lines', era'}
            \subseteq Nat
          <=> /\ left' \in Nat /\ silent' \in Nat /\ elapsed' \in Nat /\ session_id' \in Nat
              /\ next_diff' \in Nat /\ work_generation' \in Nat /\ conn' \in Nat
              /\ lines' \in Nat /\ era' \in Nat
    OBVIOUS
  <1> QED
    BY <1>1, <1>2, Zenon DEF TypeOK, PlaceOK, FlagsOK, WaitOK, CountsOK, WordsOK, WorkOK

-----------------------------------------------------------------------------
(* Publishing work. *)

LEMMA NoWorkType == NoWork \in Work /\ NoWork.conn = 0 /\ NoWork.gen = 0
  BY DEF NoWork, Work, Xnonce

LEMMA NoJobType ==
    /\ NoJob \in Job /\ NoJob.id = 0 /\ NoJob.block = 0 /\ NoJob.height = 0
    /\ Untold \in Told /\ ~Untold.replied /\ ~Untold.accepted /\ Untold.block = 0
  BY DEF NoJob, Job, Untold, Told, Xnonce

\* What a job is built into.
LEMMA Built ==
    ASSUME NEW j \in Job, PlaceOK, FlagsOK, CountsOK, WordsOK, NEW w, w = BuildWork(j)
    PROVE  /\ w \in Work
           /\ w.job_id = j.id /\ w.block = j.block /\ w.height = j.height /\ w.diff = j.diff
           /\ w.conn = conn /\ w.told = told
           /\ opt_algo # "randomx" => w.xnonce = xnonce
           /\ opt_algo = "randomx" => w.masked = xmr_nicehash
  <1> DEFINE x == IF opt_algo = "randomx" THEN None ELSE xnonce
             k == opt_algo = "randomx" /\ xmr_nicehash
  <1>1. x \in Xnonce /\ k \in BOOLEAN /\ told \in Told /\ conn \in Nat
    BY DEF WordsOK, CountsOK, Xnonce
  <1>2. w = [NoWork EXCEPT !.job_id = j.id, !.block = j.block, !.height = j.height,
                           !.diff = j.diff, !.xnonce = x, !.masked = k,
                           !.conn = conn, !.told = told]
    BY DEF BuildWork
  <1>3. opt_algo = "randomx" => k = xmr_nicehash
    BY DEF FlagsOK
  <1>4. opt_algo # "randomx" => x = xnonce
    OBVIOUS
  <1> HIDE DEF x, k
  <1>5. w = [job_id |-> j.id, block |-> j.block, height |-> j.height, diff |-> j.diff,
             xnonce |-> x, masked |-> k, gen |-> 0, conn |-> conn, era |-> 0, told |-> told]
    BY <1>2, ZenonT(40) DEF NoWork
  <1>6. w \in Work
    BY <1>1, <1>5 DEF Work, Job
  <1> QED
    BY <1>3, <1>4, <1>5, <1>6

\* Publishing sound work of this connection keeps what the miners rely on.
LEMMA PublishStep ==
    ASSUME WorkOK, CountsOK, copy \in Work, sock, Published, CopyOld, CurrentCopyAgrees,
           NEW new \in Work, new.conn = conn, Sound(new), NEW clean \in BOOLEAN,
           stratum_publish_work(new, clean), UNCHANGED <<opt_algo, sock, conn, copy>>
    PROVE  WorkOK' /\ Published' /\ CopyOld' /\ CurrentCopyAgrees'
  <1>1. CASE UNCHANGED workVars
    <2>1. WorkOK'
      BY <1>1 DEF workVars, WorkOK
    <2>2. Published'
      BY <1>1 DEF workVars, Published, Sound, is_verus
    <2>3. CopyOld' /\ CurrentCopyAgrees'
      BY <1>1 DEF workVars, CopyOld, CurrentCopyAgrees
    <2> QED
      BY <2>1, <2>2, <2>3
  <1>2. CASE ~UNCHANGED workVars
    <2> DEFINE restart == ShouldRestart(new, clean)
               gen == IF restart THEN work_generation + 1 ELSE work_generation
    <2>1. /\ work_generation' = gen
          /\ era' = IF clean THEN era + 1 ELSE era
          /\ current_work' = [new EXCEPT !.gen = gen, !.era = era']
          /\ work_ready' = TRUE
      BY <1>2 DEF stratum_publish_work
    <2>2. gen \in Nat /\ era' \in Nat
      BY <2>1 DEF WorkOK
    <2>3. ~restart => gen = work_generation /\ work_ready /\ ~clean /\ new.diff = current_work.diff
      BY DEF ShouldRestart
    <2>4. restart => gen = work_generation + 1
      OBVIOUS
    <2> HIDE DEF restart, gen
    <2>5. /\ current_work' \in Work
          /\ current_work'.gen = gen /\ current_work'.era = era'
          /\ current_work'.conn = new.conn /\ current_work'.diff = new.diff
          /\ current_work'.job_id = new.job_id /\ current_work'.block = new.block
          /\ current_work'.height = new.height /\ current_work'.xnonce = new.xnonce
          /\ current_work'.masked = new.masked /\ current_work'.told = new.told
      BY <2>1, <2>2 DEF Work
    <2>6. WorkOK'
      BY <2>1, <2>2, <2>5 DEF WorkOK
    <2>7. Published'
      BY <2>1, <2>5 DEF Published, Sound, is_verus
    <2>8. copy.gen \in Nat
      BY DEF Work
    <2>9. CopyOld'
      BY <2>1, <2>3, <2>4, <2>8 DEF CopyOld, WorkOK
    <2>10. CurrentCopyAgrees'
      <3>1. CASE restart
        <4>1. copy.gen # work_generation'
          BY <2>1, <2>4, <2>8, <3>1 DEF CopyOld, WorkOK
        <4> QED
          BY <4>1 DEF CurrentCopyAgrees
      <3>2. CASE ~restart
        BY <2>1, <2>3, <2>5, <3>2 DEF CurrentCopyAgrees
      <3> QED
        BY <3>1, <3>2
    <2> QED
      BY <2>6, <2>7, <2>9, <2>10
  <1> QED
    BY <1>1, <1>2

\* What the rules about the context, the work and the copies are, together.
CtxInv ==
    /\ FlagsOK /\ CountsOK /\ WordsOK /\ WorkOK /\ copy \in Work
    /\ AuthorizedHere /\ SaidOK /\ Published /\ CopyOld /\ CurrentCopyAgrees

\* A job that fits its protocol is built, committed and published.
LEMMA CommitStep ==
    ASSUME PlaceOK, CtxInv, sock, NEW j \in Job, j.id = j.block, j.height \in {0, j.block},
           is_verus => verus_validate_nonce_layout,
           opt_algo # "randomx" => j.diff = next_diff,
           NEW clean \in BOOLEAN, stratum_commit_job_update(j, clean),
           UNCHANGED <<opt_algo, sock, authenticated, session_id, xnonce, next_diff, xmr_nicehash,
                       reconnect_requested, copy, conn>>,
           lines' \in Nat
    PROVE  CtxInv'
  <1> DEFINE w == BuildWork(j)
  <1>1. /\ w \in Work
        /\ w.job_id = j.id /\ w.block = j.block /\ w.height = j.height /\ w.diff = j.diff
        /\ w.conn = conn /\ w.told = told
        /\ opt_algo # "randomx" => w.xnonce = xnonce
        /\ opt_algo = "randomx" => w.masked = xmr_nicehash
    BY Built DEF CtxInv
  <1>2. /\ job' = j /\ told' = [told EXCEPT !.block = j.block]
        /\ stratum_publish_work(w, clean)
    BY DEF stratum_commit_job_update
  <1> HIDE DEF w
  <1>3. Sound(w)
    <2>1. is_verus => w.xnonce.xn1 =< 12 /\ w.xnonce.xn1 + w.xnonce.xn2 = 32
      BY <1>1 DEF is_verus, verus_validate_nonce_layout
    <2>2. w.told.replied => IF opt_algo = "randomx" THEN w.masked = w.told.nicehash
                            ELSE w.xnonce = w.told.xnonce /\ w.diff = w.told.diff
      BY <1>1 DEF CtxInv, SaidOK
    <2> QED
      BY <1>1, <2>1, <2>2 DEF Sound
  <1>4. WorkOK' /\ Published' /\ CopyOld' /\ CurrentCopyAgrees'
    BY <1>1, <1>2, <1>3, PublishStep DEF CtxInv
  <1>5. /\ told' \in Told /\ told'.block = j.block /\ told'.accepted = told.accepted
        /\ told'.replied = told.replied /\ told'.diff = told.diff
        /\ told'.nicehash = told.nicehash /\ told'.xnonce = told.xnonce
    BY <1>2 DEF CtxInv, WordsOK, Told, Job
  <1>6. WordsOK' /\ FlagsOK' /\ CountsOK' /\ copy' \in Work
    <2>1. WordsOK'
      BY <1>2, <1>5 DEF WordsOK, CtxInv
    <2>2. FlagsOK'
      BY DEF FlagsOK, CtxInv
    <2>3. CountsOK' /\ copy' \in Work
      BY DEF CountsOK, CtxInv
    <2> QED
      BY <2>1, <2>2, <2>3
  <1>7. AuthorizedHere'
    BY <1>5 DEF CtxInv, AuthorizedHere
  <1>8. SaidOK'
    BY <1>2, <1>5 DEF CtxInv, SaidOK
  <1> QED
    BY <1>4, <1>6, <1>7, <1>8 DEF CtxInv

-----------------------------------------------------------------------------
(* The steps that touch the context. *)

LEMMA CtxFrame ==
    ASSUME CtxInv, lines' \in Nat, UNCHANGED <<opt_algo, sock, told, ctxVars, workVars, copy, conn>>
    PROVE  CtxInv'
  <1>1. FlagsOK' /\ CountsOK' /\ WordsOK'
    BY DEF CtxInv, FlagsOK, CountsOK, WordsOK, ctxVars
  <1>2. WorkOK' /\ copy' \in Work
    BY DEF CtxInv, WorkOK, workVars
  <1>3. AuthorizedHere' /\ SaidOK'
    BY DEF CtxInv, AuthorizedHere, SaidOK, ctxVars
  <1>4. Published'
    BY DEF CtxInv, Published, Sound, is_verus, workVars
  <1>5. CopyOld' /\ CurrentCopyAgrees'
    BY DEF CtxInv, CopyOld, CurrentCopyAgrees, workVars
  <1> QED
    BY <1>1, <1>2, <1>3, <1>4, <1>5 DEF CtxInv

\* Disconnecting makes every copy of the work an old one.
LEMMA DisconnectStep ==
    ASSUME CtxInv, stratum_disconnect, UNCHANGED <<opt_algo, copy, conn>>,
           reconnect_requested' \in BOOLEAN, lines' \in Nat
    PROVE  CtxInv' /\ ~sock' /\ job' = NoJob
  <1>1. /\ sock' = FALSE /\ told' = Untold /\ job' = NoJob /\ next_diff' = 1
        /\ authenticated' = FALSE /\ current_work' = NoWork /\ work_ready' = FALSE
        /\ work_generation' = work_generation + 1
        /\ UNCHANGED <<era, session_id, xnonce, xmr_nicehash>>
    BY DEF stratum_disconnect, stratum_reset_work_state, stratum_reset_session_runtime
  <1>2. FlagsOK'
    BY <1>1 DEF CtxInv, FlagsOK
  <1>3. CountsOK'
    BY <1>1 DEF CtxInv, CountsOK
  <1>4. WordsOK'
    BY <1>1, NoJobType DEF CtxInv, WordsOK
  <1>5. WorkOK' /\ copy' \in Work
    <2>1. work_generation' \in Nat /\ era' \in Nat
      BY <1>1 DEF CtxInv, WorkOK
    <2>2. current_work' \in Work /\ copy' \in Work
      BY <1>1, NoWorkType DEF CtxInv
    <2>3. work_ready' \in BOOLEAN
      BY <1>1
    <2> QED
      BY <2>1, <2>2, <2>3 DEF WorkOK
  <1>6. AuthorizedHere' /\ SaidOK' /\ Published'
    BY <1>1, NoJobType DEF AuthorizedHere, SaidOK, Published
  <1>7. copy.gen \in Nat /\ work_generation \in Nat /\ copy' = copy
    BY DEF CtxInv, Work, WorkOK
  <1>8. CopyOld' /\ copy.gen # work_generation'
    BY <1>1, <1>7 DEF CtxInv, CopyOld
  <1>9. CurrentCopyAgrees'
    BY <1>7, <1>8 DEF CurrentCopyAgrees
  <1> QED
    BY <1>1, <1>2, <1>3, <1>4, <1>5, <1>6, <1>8, <1>9 DEF CtxInv

\* A notification that is not refused has a block, a difficulty and a flag.
LEMMA NotifyLine ==
    ASSUME PlaceOK, NEW m \in Lines, m.is = "notify", m.fault \notin Faults[opt_algo]
    PROVE  m.block \in Nat \ {0} /\ m.diff \in Nat \ {0} /\ m.clean \in BOOLEAN
  <1>1. m \in [is : {"notify"}, block : Blocks, clean : BOOLEAN, diff : Diffs, fault : {"none"}]
    BY DEF Lines
  <1> QED
    BY <1>1, SessionFacts

\* A notification is refused, or its job is committed.
LEMMA NotifyStep ==
    ASSUME PlaceOK, CtxInv, sock, NEW m \in Lines, NEW ok \in BOOLEAN, m.is = "notify",
           handle_notify(m, ok), lines' \in Nat,
           UNCHANGED <<opt_algo, sock, authenticated, session_id, xnonce, next_diff, xmr_nicehash,
                       reconnect_requested, copy, conn>>
    PROVE  CtxInv'
  <1>1. CASE Refused(ok)
    BY <1>1, CtxFrame DEF Refused, ctxVars
  <1>2. CASE ~Refused(ok)
    <2>0. next_diff \in Nat /\ job \in Job /\ job.height \in {0, job.block}
      BY DEF CtxInv, CountsOK, WordsOK, SaidOK
    <2>1. CASE opt_algo = "standard"
      <3>1. /\ m.fault \notin Faults["standard"]
            /\ stratum_commit_job_update(apply_standard_job_locked(m), m.clean)
        BY <1>2, <2>1 DEF handle_notify, stratum_notify_standard
      <3>2. m.block \in Nat \ {0} /\ m.clean \in BOOLEAN
        BY <2>1, <3>1, NotifyLine
      <3> DEFINE j == apply_standard_job_locked(m)
      <3>3. j \in Job /\ j.id = j.block /\ j.height \in {0, j.block} /\ j.diff = next_diff
        BY <2>0, <3>2 DEF apply_standard_job_locked, Job
      <3> HIDE DEF j
      <3>4. ~is_verus
        BY <2>1 DEF is_verus
      <3> QED
        BY <3>1, <3>2, <3>3, <3>4, CommitStep DEF j
    <2>2. CASE opt_algo = "verus"
      <3>1. /\ m.fault \notin Faults["verus"] /\ verus_validate_nonce_layout
            /\ stratum_commit_job_update(apply_verus_job_locked(m), m.clean)
        BY <1>2, <2>2 DEF handle_notify, verus_stratum_notify
      <3>2. m.block \in Nat \ {0} /\ m.clean \in BOOLEAN
        BY <2>2, <3>1, NotifyLine
      <3> DEFINE j == apply_verus_job_locked(m)
      <3>3. j \in Job /\ j.id = j.block /\ j.height \in {0, j.block} /\ j.diff = next_diff
        BY <2>0, <3>2 DEF apply_verus_job_locked, Job
      <3> HIDE DEF j
      <3> QED
        BY <3>1, <3>2, <3>3, CommitStep DEF j
    <2>3. CASE opt_algo = "randomx"
      <3>1. /\ m.fault \notin Faults["randomx"]
            /\ stratum_commit_job_update(xmr_apply_job_locked(m), TRUE)
        BY <1>2, <2>3 DEF handle_notify, xmr_stratum_handle_job
      <3>2. m.block \in Nat \ {0} /\ m.diff \in Nat \ {0}
        BY <2>3, <3>1, NotifyLine
      <3> DEFINE j == xmr_apply_job_locked(m)
      <3>3. j \in Job /\ j.id = j.block /\ j.height \in {0, j.block}
        BY <3>2 DEF xmr_apply_job_locked, Job
      <3> HIDE DEF j
      <3>4. ~is_verus
        BY <2>3 DEF is_verus
      <3> QED
        BY <2>3, <3>1, <3>3, <3>4, CommitStep DEF j
    <2> QED
      BY <2>1, <2>2, <2>3 DEF PlaceOK
  <1> QED
    BY <1>1, <1>2

\* An extranonce that is accepted is one.
LEMMA ParsedXnonce ==
    ASSUME NEW x \in [xn1 : Nat, xn2 : Nat], NEW ok \in BOOLEAN, stratum_parse_extranonce(x, ok)
    PROVE  /\ ok => xnonce' \in Xnonce
           /\ ~ok => xnonce' = xnonce
  <1>1. CASE ok
    <2>1. XnonceValid(x) /\ xnonce' = IF x.xn2 = 0 THEN [x EXCEPT !.xn2 = 32 - x.xn1] ELSE x
      BY <1>1 DEF stratum_parse_extranonce
    <2>2. x.xn2 = 0 => x.xn1 =< 31
      BY <2>1 DEF XnonceValid
    <2>3. xnonce' \in [xn1 : Nat, xn2 : Nat]
      BY <2>1, <2>2
    <2> QED
      BY <1>1, <2>3 DEF Xnonce
  <1>2. CASE ~ok
    BY <1>2 DEF stratum_parse_extranonce
  <1> QED
    BY <1>1, <1>2

\* A step that changes only the words of the pool, in agreement with them,
\* leaves the published work as it is.
LEMMA WordsStep ==
    ASSUME CtxInv, UNCHANGED <<opt_algo, sock, workVars, copy, conn>>, lines' \in Nat,
           FlagsOK', session_id' \in Nat, next_diff' \in Nat, WordsOK', AuthorizedHere', SaidOK'
    PROVE  CtxInv'
  <1>1. CountsOK'
    BY DEF CtxInv, CountsOK
  <1>2. WorkOK' /\ copy' \in Work
    BY DEF CtxInv, WorkOK, workVars
  <1>3. Published'
    BY DEF CtxInv, Published, Sound, is_verus, workVars
  <1>4. CopyOld' /\ CurrentCopyAgrees'
    BY DEF CtxInv, CopyOld, CurrentCopyAgrees, workVars
  <1> QED
    BY <1>1, <1>2, <1>3, <1>4 DEF CtxInv

\* Every line that is dispatched leaves the rules in force.
LEMMA DispatchStep ==
    ASSUME PlaceOK, CtxInv, sock, NEW m \in Lines, NEW ok \in BOOLEAN, Dispatch(m, ok),
           UNCHANGED <<opt_algo, copy, conn>>, lines' \in Nat
    PROVE  CtxInv'
  <1>0. told \in Told /\ job \in Job /\ xnonce \in Xnonce /\ next_diff \in Nat /\ session_id \in Nat
    BY DEF CtxInv, WordsOK, CountsOK
  <1>1. CASE m.is = "notify"
    BY <1>1, NotifyStep DEF Dispatch
  <1>2. CASE UNCHANGED <<sock, told, ctxVars, workVars>>
    BY <1>2, CtxFrame
  <1>3. CASE /\ m.is = "difficulty" \/ (m.is = "target" /\ is_verus)
             /\ m.diff > 0 /\ stratum_store_next_diff(m.diff)
             /\ UNCHANGED <<sock, authenticated, session_id, xnonce, xmr_nicehash, job,
                            reconnect_requested, workVars>>
    <2>1. m.diff \in Nat
      BY <1>3, SessionFacts DEF Lines
    <2>2. next_diff' = m.diff /\ told' = [told EXCEPT !.diff = m.diff]
      BY <1>3 DEF stratum_store_next_diff
    <2>3. /\ told' \in Told /\ told'.block = told.block /\ told'.accepted = told.accepted
          /\ told'.replied = told.replied /\ told'.diff = m.diff
          /\ told'.nicehash = told.nicehash /\ told'.xnonce = told.xnonce
      BY <1>0, <2>1, <2>2 DEF Told
    <2>4. WordsOK' /\ FlagsOK'
      BY <1>0, <1>3, <2>3 DEF WordsOK, FlagsOK, CtxInv
    <2>5. AuthorizedHere' /\ SaidOK'
      BY <1>3, <2>2, <2>3 DEF AuthorizedHere, SaidOK, CtxInv
    <2> QED
      BY <1>0, <1>3, <2>1, <2>2, <2>4, <2>5, WordsStep
  <1>4. CASE m.is = "extranonce"
    <2>1. /\ stratum_parse_extranonce(m.xnonce, ok)
          /\ told' = [told EXCEPT !.xnonce = IF ok THEN xnonce' ELSE @]
          /\ UNCHANGED <<sock, authenticated, session_id, next_diff, xmr_nicehash, job,
                          reconnect_requested, workVars>>
      BY <1>4 DEF Dispatch
    <2>2. m.xnonce \in [xn1 : Nat, xn2 : Nat]
      BY <1>4, SessionFacts DEF Lines
    <2>3. (ok => xnonce' \in Xnonce) /\ (~ok => xnonce' = xnonce)
      BY <2>1, <2>2, ParsedXnonce
    <2>4. xnonce' \in Xnonce
      BY <1>0, <2>3
    <2>5. /\ told' \in Told /\ told'.block = told.block /\ told'.accepted = told.accepted
          /\ told'.replied = told.replied /\ told'.diff = told.diff
          /\ told'.nicehash = told.nicehash
          /\ told'.xnonce = IF ok THEN xnonce' ELSE told.xnonce
      BY <1>0, <2>1, <2>4 DEF Told
    <2>6. WordsOK' /\ FlagsOK'
      BY <1>0, <2>1, <2>4, <2>5 DEF WordsOK, FlagsOK, CtxInv
    <2>7. AuthorizedHere' /\ SaidOK'
      BY <2>1, <2>3, <2>5 DEF AuthorizedHere, SaidOK, CtxInv
    <2> QED
      BY <1>0, <2>1, <2>6, <2>7, WordsStep
  <1>5. CASE m.is = "reconnect" /\ reconnect_requested' = TRUE /\ stratum_disconnect
    BY <1>5, DisconnectStep
  <1>6. CASE m.is = "message"
    <2>1. /\ stratum_show_message(m)
          /\ UNCHANGED <<sock, told, authenticated, session_id, xnonce, next_diff, xmr_nicehash,
                         reconnect_requested, work_ready, work_generation, era>>
      BY <1>6 DEF Dispatch
    <2>2. m.height = told.block
      BY <1>6 DEF Lines
    <2>3. m.height \in Nat /\ m.height = job.block
      BY <1>0, <2>2 DEF CtxInv, SaidOK, Told
    <2>4. /\ job' \in Job /\ job'.id = job.id /\ job'.block = job.block /\ job'.height = job.block
      BY <1>0, <2>1, <2>3 DEF stratum_show_message, Job
    <2>5. WordsOK' /\ FlagsOK' /\ CountsOK'
      BY <1>0, <2>1, <2>4 DEF WordsOK, FlagsOK, CountsOK, CtxInv
    <2>6. AuthorizedHere' /\ SaidOK'
      BY <2>1, <2>4 DEF AuthorizedHere, SaidOK, CtxInv
    <2>7. \/ current_work' = current_work
          \/ /\ work_ready /\ current_work.job_id = job.id
             /\ current_work' = [current_work EXCEPT !.height = m.height]
      BY <2>1 DEF stratum_show_message
    <2>8. /\ current_work' \in Work
          /\ current_work'.gen = current_work.gen /\ current_work'.era = current_work.era
          /\ current_work'.conn = current_work.conn /\ current_work'.diff = current_work.diff
          /\ current_work'.job_id = current_work.job_id /\ current_work'.block = current_work.block
          /\ current_work'.xnonce = current_work.xnonce
          /\ current_work'.masked = current_work.masked /\ current_work'.told = current_work.told
      BY <2>3, <2>7 DEF CtxInv, WorkOK, Work
    <2>9. work_ready => current_work'.height \in {0, current_work.block}
      <3>1. work_ready => /\ current_work.height \in {0, current_work.block}
                          /\ current_work.job_id = current_work.block
        BY DEF CtxInv, Published, Sound
      <3>2. current_work \in Work /\ job.id = job.block
        BY DEF CtxInv, WorkOK, SaidOK
      <3> QED
        BY <2>3, <2>7, <3>1, <3>2 DEF Work
    <2>10. WorkOK' /\ copy' \in Work
      BY <2>1, <2>8 DEF WorkOK, CtxInv
    <2>11. Published'
      BY <2>1, <2>8, <2>9 DEF CtxInv, Published, Sound, is_verus
    <2>12. CopyOld' /\ CurrentCopyAgrees'
      BY <2>1, <2>8 DEF CtxInv, CopyOld, CurrentCopyAgrees
    <2> QED
      BY <2>5, <2>6, <2>10, <2>11, <2>12 DEF CtxInv
  <1>7. \/ m.is = "notify" \/ UNCHANGED <<sock, told, ctxVars, workVars>>
        \/ /\ m.is = "difficulty" \/ (m.is = "target" /\ is_verus)
           /\ m.diff > 0 /\ stratum_store_next_diff(m.diff)
           /\ UNCHANGED <<sock, authenticated, session_id, xnonce, xmr_nicehash, job,
                          reconnect_requested, workVars>>
        \/ m.is = "extranonce"
        \/ m.is = "reconnect" /\ reconnect_requested' = TRUE /\ stratum_disconnect
        \/ m.is = "message"
    BY DEF Dispatch, stratum_reconnect, ctxVars
  <1> QED
    BY <1>1, <1>2, <1>3, <1>4, <1>5, <1>6, <1>7

LEMMA OpenStep ==
    ASSUME CtxInv, PhaseOK, stratum_open_pool_connection
    PROVE  CtxInv'
  <1>1. /\ ~sock /\ job = NoJob /\ conn' = conn + 1 /\ told' = Untold /\ sock' = TRUE
        /\ UNCHANGED <<opt_algo, ctxVars, workVars, copy, lines>>
    BY DEF stratum_open_pool_connection, PhaseOK
  <1>2. ~work_ready /\ ~authenticated
    BY <1>1 DEF CtxInv, Published, AuthorizedHere
  <1>3. ~work_ready' /\ ~authenticated'
    BY <1>1, <1>2 DEF ctxVars, workVars
  <1>4. FlagsOK'
    BY <1>1 DEF CtxInv, FlagsOK, ctxVars
  <1>5. CountsOK'
    BY <1>1 DEF CtxInv, CountsOK, ctxVars
  <1>6. WordsOK'
    BY <1>1, NoJobType DEF CtxInv, WordsOK, ctxVars
  <1>7. WorkOK' /\ copy' \in Work
    BY <1>1 DEF CtxInv, WorkOK, workVars
  <1>8. AuthorizedHere' /\ Published'
    BY <1>3 DEF AuthorizedHere, Published
  <1>9. SaidOK'
    BY <1>1, NoJobType DEF SaidOK, ctxVars
  <1>10. CopyOld' /\ CurrentCopyAgrees'
    BY <1>1, <1>2 DEF CtxInv, CopyOld, CurrentCopyAgrees, workVars
  <1> QED
    BY <1>4, <1>5, <1>6, <1>7, <1>8, <1>9, <1>10 DEF CtxInv

LEMMA SubscribeStep ==
    ASSUME CtxInv, PhaseOK, stratum_subscribe
    PROVE  CtxInv'
  <1>0. /\ told \in Told /\ xnonce \in Xnonce /\ next_diff \in Nat /\ session_id \in Nat
        /\ conn \in Nat /\ lines \in Nat /\ opt_algo # "randomx"
        /\ UNCHANGED <<opt_algo, sock, authenticated, xmr_nicehash, job, reconnect_requested,
                       workVars, copy, conn, lines>>
    BY DEF CtxInv, WordsOK, CountsOK, PhaseOK, stratum_subscribe
  <1>1. CASE UNCHANGED <<session_id, xnonce, next_diff, told>>
    BY <1>0, <1>1, CtxFrame DEF ctxVars
  <1>2. ASSUME NEW x \in Xnonces, NEW ok \in BOOLEAN, stratum_parse_extranonce(x, ok),
               IF ok
               THEN /\ session_id' = conn /\ next_diff' = 1
                    /\ told' = [told EXCEPT !.replied = TRUE, !.xnonce = xnonce', !.diff = 1]
               ELSE UNCHANGED <<session_id, next_diff, told>>
        PROVE  CtxInv'
    <2>1. (ok => xnonce' \in Xnonce) /\ (~ok => xnonce' = xnonce)
      BY <1>2, ParsedXnonce, SessionFacts
    <2>2. CASE ~ok
      <3>1. UNCHANGED <<session_id, xnonce, next_diff, told>>
        BY <1>2, <2>1, <2>2
      <3> QED
        BY <1>1, <3>1
    <2>3. CASE ok
      <3>1. /\ session_id' = conn /\ next_diff' = 1 /\ xnonce' \in Xnonce
            /\ told' = [told EXCEPT !.replied = TRUE, !.xnonce = xnonce', !.diff = 1]
        BY <1>2, <2>1, <2>3
      <3>2. /\ told' \in Told /\ told'.block = told.block /\ told'.accepted = told.accepted
            /\ told'.diff = 1 /\ told'.xnonce = xnonce'
        BY <1>0, <3>1 DEF Told
      <3>3. WordsOK' /\ FlagsOK'
        BY <1>0, <3>1, <3>2 DEF WordsOK, FlagsOK, CtxInv
      <3>4. AuthorizedHere' /\ SaidOK'
        BY <1>0, <3>1, <3>2 DEF AuthorizedHere, SaidOK, CtxInv
      <3> QED
        BY <1>0, <3>1, <3>3, <3>4, WordsStep
    <2> QED
      BY <2>2, <2>3
  <1>3. \/ UNCHANGED <<session_id, xnonce, next_diff, told>>
        \/ \E x \in Xnonces, ok \in BOOLEAN :
              /\ stratum_parse_extranonce(x, ok)
              /\ IF ok
                 THEN /\ session_id' = conn /\ next_diff' = 1
                      /\ told' = [told EXCEPT !.replied = TRUE, !.xnonce = xnonce', !.diff = 1]
                 ELSE UNCHANGED <<session_id, next_diff, told>>
    BY Zenon DEF stratum_subscribe
  <1> QED
    BY <1>1, <1>2, <1>3

LEMMA AuthorizeStep ==
    ASSUME CtxInv, stratum_authorize
    PROVE  CtxInv'
  <1>0. /\ told \in Told /\ next_diff \in Nat /\ session_id \in Nat /\ lines \in Nat /\ sock
        /\ UNCHANGED <<opt_algo, sock, session_id, xnonce, next_diff, xmr_nicehash, job,
                       reconnect_requested, workVars, copy, conn, lines>>
    BY DEF CtxInv, WordsOK, CountsOK, stratum_authorize
  <1>1. PICK accepted \in BOOLEAN :
            authenticated' = accepted /\ told' = [told EXCEPT !.accepted = accepted]
    BY DEF stratum_authorize
  <1>2. /\ told' \in Told /\ told'.block = told.block /\ told'.accepted = accepted
        /\ told'.replied = told.replied /\ told'.diff = told.diff
        /\ told'.nicehash = told.nicehash /\ told'.xnonce = told.xnonce
    BY <1>0, <1>1 DEF Told
  <1>3. WordsOK' /\ FlagsOK'
    BY <1>0, <1>1, <1>2 DEF WordsOK, FlagsOK, CtxInv
  <1>4. AuthorizedHere' /\ SaidOK'
    BY <1>0, <1>1, <1>2 DEF AuthorizedHere, SaidOK, CtxInv
  <1> QED
    BY <1>0, <1>3, <1>4, WordsStep

LEMMA LoginStep ==
    ASSUME PlaceOK, CtxInv, PhaseOK, xmr_stratum_login
    PROVE  CtxInv'
  <1>0. /\ told \in Told /\ xnonce \in Xnonce /\ job \in Job /\ conn \in Nat /\ lines \in Nat
        /\ opt_algo = "randomx" /\ sock /\ UNCHANGED <<opt_algo, sock, copy, conn, lines>>
    BY DEF CtxInv, WordsOK, CountsOK, PhaseOK, xmr_stratum_login
  <1>1. CASE UNCHANGED <<told, ctxVars, workVars>>
    BY <1>0, <1>1, CtxFrame
  <1> DEFINE said(nicehash) == [told EXCEPT !.accepted = TRUE, !.replied = TRUE,
                                            !.nicehash = nicehash]
             work(j, nicehash) == [BuildWork(j) EXCEPT !.masked = nicehash,
                                                       !.told = said(nicehash)]
             new(b, d) == xmr_apply_job_locked([block |-> b, diff |-> d])
  <1>2. ASSUME NEW nicehash \in BOOLEAN,
               session_id' = conn, next_diff' = 1, authenticated' = TRUE,
               xmr_nicehash' = nicehash, UNCHANGED <<xnonce, reconnect_requested>>,
               \/ told' = said(nicehash) /\ UNCHANGED <<job, workVars>>
               \/ \E b \in Blocks, d \in Diffs :
                     /\ job' = new(b, d) /\ told' = [said(nicehash) EXCEPT !.block = b]
                     /\ stratum_publish_work(work(new(b, d), nicehash), TRUE)
        PROVE  CtxInv'
    <2>1. /\ said(nicehash) \in Told /\ said(nicehash).block = told.block
          /\ said(nicehash).accepted = TRUE /\ said(nicehash).nicehash = nicehash
      BY <1>0, <1>2 DEF Told
    <2> HIDE DEF said
    <2>2. FlagsOK' /\ CountsOK'
      <3>1. FlagsOK'
        BY <1>0, <1>2 DEF FlagsOK, CtxInv
      <3>2. CountsOK'
        BY <1>0, <1>2 DEF CountsOK
      <3> QED
        BY <3>1, <3>2
    <2>3. CASE told' = said(nicehash) /\ UNCHANGED <<job, workVars>>
      <3>1. WordsOK'
        BY <1>0, <1>2, <2>1, <2>3 DEF WordsOK
      <3>2. AuthorizedHere' /\ SaidOK'
        BY <1>0, <1>2, <2>1, <2>3 DEF AuthorizedHere, SaidOK, CtxInv
      <3> QED
        BY <1>0, <1>2, <2>2, <2>3, <3>1, <3>2, WordsStep DEF CountsOK
    <2>4. ASSUME NEW b \in Blocks, NEW d \in Diffs,
                 job' = new(b, d), told' = [said(nicehash) EXCEPT !.block = b],
                 stratum_publish_work(work(new(b, d), nicehash), TRUE)
          PROVE  CtxInv'
      <3> DEFINE j == new(b, d)
                 built == BuildWork(j)
                 w == work(j, nicehash)
      <3>1. j \in Job /\ j.id = b /\ j.block = b /\ j.height = b /\ b \in Nat
        BY <2>4, SessionFacts DEF xmr_apply_job_locked, Job
      <3>2. job' = j /\ stratum_publish_work(w, TRUE)
        BY <2>4
      <3>8. w = [built EXCEPT !.masked = nicehash, !.told = said(nicehash)]
        OBVIOUS
      <3> HIDE DEF j
      <3>3. /\ built \in Work /\ built.job_id = b /\ built.block = b /\ built.height = b
            /\ built.conn = conn
        BY <3>1, Built DEF CtxInv
      <3> HIDE DEF built, w
      <3>4. /\ w \in Work /\ w.job_id = b /\ w.block = b /\ w.height = b /\ w.conn = conn
            /\ w.masked = nicehash /\ w.told = said(nicehash)
        BY <1>2, <2>1, <3>3, <3>8 DEF Work
      <3>5. Sound(w)
        BY <1>0, <2>1, <3>4 DEF Sound, is_verus
      <3>6. WorkOK' /\ Published' /\ CopyOld' /\ CurrentCopyAgrees'
        BY <1>0, <3>2, <3>4, <3>5, PublishStep DEF CtxInv
      <3>7. /\ told' \in Told /\ told'.block = b /\ told'.accepted = TRUE
            /\ told'.nicehash = nicehash
        BY <2>1, <2>4, <3>1 DEF Told
      <3>9. WordsOK' /\ copy' \in Work
        BY <1>0, <1>2, <3>1, <3>2, <3>7 DEF WordsOK, CtxInv
      <3>10. AuthorizedHere' /\ SaidOK'
        BY <1>0, <1>2, <3>1, <3>2, <3>7 DEF AuthorizedHere, SaidOK
      <3> QED
        BY <2>2, <3>6, <3>9, <3>10 DEF CtxInv
    <2> QED
      BY <1>2, <2>3, <2>4
  <1>3. \/ UNCHANGED <<told, ctxVars, workVars>>
        \/ \E nicehash \in BOOLEAN :
              /\ session_id' = conn /\ next_diff' = 1 /\ authenticated' = TRUE
              /\ xmr_nicehash' = nicehash /\ UNCHANGED <<xnonce, reconnect_requested>>
              /\ \/ told' = said(nicehash) /\ UNCHANGED <<job, workVars>>
                 \/ \E b \in Blocks, d \in Diffs :
                       /\ job' = new(b, d) /\ told' = [said(nicehash) EXCEPT !.block = b]
                       /\ stratum_publish_work(work(new(b, d), nicehash), TRUE)
    BY Zenon DEF xmr_stratum_login
  <1> QED
    BY <1>1, <1>2, <1>3, Zenon

LEMMA CopyStep ==
    ASSUME CtxInv, stratum_copy_work
    PROVE  CtxInv'
  <1>1. /\ work_ready /\ copy' = current_work
        /\ UNCHANGED <<opt_algo, sock, told, ctxVars, workVars, conn, lines>>
    BY DEF stratum_copy_work
  <1>2. FlagsOK' /\ CountsOK' /\ WordsOK'
    BY <1>1 DEF CtxInv, FlagsOK, CountsOK, WordsOK, ctxVars
  <1>3. WorkOK' /\ copy' \in Work
    BY <1>1 DEF CtxInv, WorkOK, workVars
  <1>4. AuthorizedHere' /\ SaidOK'
    BY <1>1 DEF CtxInv, AuthorizedHere, SaidOK, ctxVars
  <1>5. Published'
    BY <1>1 DEF CtxInv, Published, Sound, is_verus, workVars
  <1>6. CopyOld' /\ CurrentCopyAgrees'
    BY <1>1 DEF CtxInv, Published, WorkOK, CopyOld, CurrentCopyAgrees, workVars
  <1> QED
    BY <1>2, <1>3, <1>4, <1>5, <1>6 DEF CtxInv

\* Every step leaves the rules about the context in force.
LEMMA CtxPreserved ==
    ASSUME PlaceOK, CtxInv, PhaseOK, [Next]_vars
    PROVE  CtxInv'
  <1>0. lines \in Nat
    BY DEF CtxInv, CountsOK
  <1>1. CASE OtherLine \/ MessageLine
    <2>1. /\ sock /\ lines' \in Nat /\ UNCHANGED <<opt_algo, copy, conn>>
          /\ \E m \in Lines, ok \in BOOLEAN : Dispatch(m, ok)
      BY <1>0, <1>1 DEF OtherLine, MessageLine
    <2> QED
      BY <2>1, DispatchStep
  <1>2. CASE Disconnect
    BY <1>0, <1>2, DisconnectStep DEF Disconnect
  <1>3. CASE NoReply \/ stratum_try_extranonce_subscribe \/ MessageLoopEnds \/ Tick
    BY <1>0, <1>3, CtxFrame DEF NoReply, stratum_try_extranonce_subscribe, MessageLoopEnds, Tick
  <1>4. CASE UNCHANGED vars
    BY <1>0, <1>4, CtxFrame DEF vars
  <1> QED
    BY <1>1, <1>2, <1>3, <1>4, OpenStep, SubscribeStep, AuthorizeStep, LoginStep, CopyStep
       DEF Next

-----------------------------------------------------------------------------
(* The phases of a session. *)

\* A wait begins with its whole time-out; a phase that is no wait has none.
LEMMA WaitBegins ==
    ASSUME NEW p, NEW seconds \in Nat, WaitFor(p, seconds),
           \/ p \in {"loop", "failed", "authorize"}
           \/ p \in {"subscribe", "resubscribe", "login"} /\ seconds = ReplyTimeout
           \/ p = "extranonce" /\ seconds = XnonceTimeout
    PROVE  WaitOK' /\ DeadlineOK' /\ phase' = p
  <1>1. phase' = p /\ left' = seconds /\ silent' = 0 /\ elapsed' = 0
    BY DEF WaitFor
  <1>2. WaitOK'
    BY <1>1 DEF WaitOK
  <1>3. DeadlineOK'
    BY <1>1, SessionFacts DEF DeadlineOK, Waiting, Bounded
  <1> QED
    BY <1>1, <1>2, <1>3

LEMMA PhasePreserved ==
    ASSUME PlaceOK, WaitOK, PhaseOK, DeadlineOK, [Next]_vars
    PROVE  PlaceOK' /\ WaitOK' /\ PhaseOK' /\ DeadlineOK'
  <1>0. opt_algo' = opt_algo
    BY DEF Next, stratum_open_pool_connection, Disconnect, OtherLine, NoReply, stratum_subscribe,
           stratum_authorize, stratum_try_extranonce_subscribe, xmr_stratum_login, MessageLine,
           MessageLoopEnds, stratum_copy_work, Tick, vars
  <1>1. ASSUME WaitOK', DeadlineOK', phase' \in {"loop", "failed"}
        PROVE  PlaceOK' /\ WaitOK' /\ PhaseOK' /\ DeadlineOK'
    BY <1>0, <1>1 DEF PlaceOK, PhaseOK
  <1>2. ASSUME NEW p \in {"loop", "failed"}, Goto(p)
        PROVE  PlaceOK' /\ WaitOK' /\ PhaseOK' /\ DeadlineOK'
    BY <1>1, <1>2, WaitBegins DEF Goto
  <1>3. CASE stratum_open_pool_connection
    <2>1. CASE Goto("failed")
      BY <1>2, <2>1
    <2>2. CASE ~Goto("failed")
      <3> DEFINE p == IF opt_algo = "randomx" THEN "login" ELSE "subscribe"
      <3>1. WaitFor(p, ReplyTimeout)
        BY <1>3, <2>2 DEF stratum_open_pool_connection
      <3>2. WaitOK' /\ DeadlineOK' /\ phase' = p
        BY <3>1, WaitBegins, SessionFacts
      <3> QED
        BY <1>0, <3>2 DEF PlaceOK, PhaseOK
    <2> QED
      BY <2>1, <2>2
  <1>4. CASE Disconnect
    <2>1. phase' = "off" /\ ~sock' /\ job' = NoJob /\ UNCHANGED waitVars
      BY <1>4 DEF Disconnect, stratum_disconnect
    <2>2. PlaceOK' /\ PhaseOK'
      BY <1>0, <2>1 DEF PlaceOK, PhaseOK
    <2>3. WaitOK' /\ DeadlineOK'
      BY <2>1 DEF waitVars, WaitOK, DeadlineOK, Waiting
    <2> QED
      BY <2>2, <2>3
  <1>5. CASE OtherLine
    <2>1. Waiting /\ receive_timeout > 0
      BY <1>5 DEF OtherLine
    <2>2. CASE Goto(AfterWait)
      BY <1>2, <2>2 DEF AfterWait
    <2>3. CASE ~Goto(AfterWait)
      <3>1. PICK busy \in {0, RebuildTime} :
                /\ left' = IF left > busy THEN left - busy ELSE 0
                /\ elapsed' = elapsed + busy /\ silent' = 0 /\ phase' = phase
                /\ opt_algo # "randomx" => busy = 0
        BY <1>5, <2>3 DEF OtherLine
      <3>2. WaitOK'
        BY <3>1, SessionFacts DEF WaitOK
      <3>3. DeadlineOK'
        <4> SUFFICES ASSUME Bounded PROVE DeadlineOK'
          BY <3>1 DEF DeadlineOK, Bounded
        <4>1. left > 0
          BY <2>1 DEF receive_timeout
        <4>2. elapsed + left =< IF phase = "extranonce" THEN XnonceTimeout ELSE ReplyTimeout
          BY <2>1, <4>1 DEF DeadlineOK
        <4> QED
          BY <1>0, <3>1, <4>1, <4>2, SessionFacts DEF DeadlineOK, WaitOK
      <3>4. PlaceOK' /\ PhaseOK'
        BY <1>0, <2>1, <3>1 DEF PlaceOK, PhaseOK, Waiting
      <3> QED
        BY <3>2, <3>3, <3>4
    <2> QED
      BY <2>2, <2>3
  <1>6. CASE NoReply
    BY <1>2, <1>6 DEF NoReply, AfterWait
  <1>7. CASE stratum_subscribe
    <2>1. phase \in {"subscribe", "resubscribe"} /\ opt_algo # "randomx"
      BY <1>7 DEF stratum_subscribe, PhaseOK
    <2>2. \/ Goto("failed") \/ WaitFor("resubscribe", ReplyTimeout) \/ WaitFor("authorize", 0)
      BY <1>7 DEF stratum_subscribe, Request
    <2>3. CASE WaitFor("resubscribe", ReplyTimeout) \/ WaitFor("authorize", 0)
      <3>1. WaitOK' /\ DeadlineOK' /\ phase' \in {"resubscribe", "authorize"}
        BY <2>3, WaitBegins, SessionFacts
      <3> QED
        BY <1>0, <2>1, <3>1 DEF PlaceOK, PhaseOK
    <2> QED
      BY <1>2, <2>2, <2>3
  <1>8. CASE stratum_authorize
    <2>1. opt_algo # "randomx"
      BY <1>8 DEF stratum_authorize, PhaseOK
    <2>2. \/ Goto("failed") \/ Goto("loop") \/ WaitFor("extranonce", XnonceTimeout)
      BY <1>8 DEF stratum_authorize, Request
    <2>3. CASE WaitFor("extranonce", XnonceTimeout)
      <3>1. WaitOK' /\ DeadlineOK' /\ phase' = "extranonce"
        BY <2>3, WaitBegins, SessionFacts
      <3> QED
        BY <1>0, <2>1, <3>1 DEF PlaceOK, PhaseOK
    <2> QED
      BY <1>2, <2>2, <2>3
  <1>9. CASE stratum_try_extranonce_subscribe
    BY <1>2, <1>9 DEF stratum_try_extranonce_subscribe
  <1>10. CASE xmr_stratum_login
    <2>1. Goto("failed") \/ Goto("loop")
      BY <1>10 DEF xmr_stratum_login
    <2> QED
      BY <1>2, <2>1
  <1>11. CASE MessageLine \/ MessageLoopEnds
    <2>1. phase' \in {"loop", "failed"} /\ UNCHANGED waitVars
      BY <1>11 DEF MessageLine, MessageLoopEnds
    <2>2. WaitOK' /\ DeadlineOK'
      BY <2>1 DEF waitVars, WaitOK, DeadlineOK, Waiting
    <2> QED
      BY <1>1, <2>1, <2>2
  <1>12. CASE Tick
    <2>1. /\ Waiting /\ receive_timeout > 0 /\ UNCHANGED <<phase, sock, ctxVars>>
          /\ left' = IF left > 0 THEN left - 1 ELSE 0
          /\ silent' = IF silent < PoolTimeout THEN silent + 1 ELSE silent
          /\ elapsed' = IF Bounded THEN elapsed + 1 ELSE elapsed
      BY <1>12 DEF Tick
    <2>2. WaitOK'
      BY <2>1 DEF WaitOK
    <2>3. DeadlineOK'
      <3> SUFFICES ASSUME Bounded PROVE DeadlineOK'
        BY <2>1 DEF DeadlineOK, Bounded
      <3>1. left > 0
        BY <2>1 DEF receive_timeout
      <3>2. elapsed + left =< IF phase = "extranonce" THEN XnonceTimeout ELSE ReplyTimeout
        BY <2>1, <3>1 DEF DeadlineOK
      <3> QED
        BY <1>0, <2>1, <3>1, <3>2, SessionFacts DEF DeadlineOK, WaitOK
    <2>4. PlaceOK' /\ PhaseOK'
      BY <1>0, <2>1 DEF PlaceOK, PhaseOK, ctxVars
    <2> QED
      BY <2>2, <2>3, <2>4
  <1>13. CASE stratum_copy_work \/ UNCHANGED vars
    <2>1. UNCHANGED <<phase, sock, waitVars, ctxVars>>
      BY <1>13 DEF stratum_copy_work, vars
    <2>2. PlaceOK' /\ PhaseOK'
      BY <1>0, <2>1 DEF PlaceOK, PhaseOK, ctxVars
    <2>3. WaitOK' /\ DeadlineOK'
      BY <1>0, <2>1 DEF waitVars, WaitOK, DeadlineOK, Waiting, Bounded
    <2> QED
      BY <2>2, <2>3
  <1> QED
    BY <1>3, <1>4, <1>5, <1>6, <1>7, <1>8, <1>9, <1>10, <1>11, <1>12, <1>13 DEF Next

-----------------------------------------------------------------------------
(* The theorems. *)

LEMMA IInvSplit ==
    /\ IInv <=> PlaceOK /\ WaitOK /\ CtxInv /\ PhaseOK /\ DeadlineOK
    /\ IInv' <=> PlaceOK' /\ WaitOK' /\ CtxInv' /\ PhaseOK' /\ DeadlineOK'
  BY TypeSplit, Zenon DEF IInv, CtxInv

LEMMA InitIInv == Init => IInv
  <1> SUFFICES ASSUME Init PROVE IInv
    OBVIOUS
  <1>1. PlaceOK /\ WaitOK /\ PhaseOK /\ DeadlineOK
    BY SessionFacts DEF Init, PlaceOK, WaitOK, PhaseOK, DeadlineOK, Waiting
  <1>2. FlagsOK
    BY DEF Init, FlagsOK
  <1>3. CountsOK
    BY DEF Init, CountsOK
  <1>4. WordsOK /\ SaidOK
    BY NoJobType DEF Init, WordsOK, SaidOK, Xnonce
  <1>5. work_ready \in BOOLEAN
    BY DEF Init
  <1>6. work_generation \in Nat /\ era \in Nat /\ current_work \in Work /\ copy \in Work
    BY NoWorkType DEF Init
  <1>7. AuthorizedHere /\ Published
    BY DEF Init, AuthorizedHere, Published
  <1>8. CopyOld /\ CurrentCopyAgrees
    BY NoWorkType DEF Init, CopyOld, CurrentCopyAgrees
  <1> QED
    BY <1>1, <1>2, <1>3, <1>4, <1>5, <1>6, <1>7, <1>8, IInvSplit DEF CtxInv, WorkOK

LEMMA NextIInv == IInv /\ [Next]_vars => IInv'
  BY IInvSplit, CtxPreserved, PhasePreserved

\* The invariant holds in every reachable state.
THEOREM Invariance == Spec => []IInv
  BY InitIInv, NextIInv, PTL DEF Spec

\* Shares are only ever submitted to a pool that accepted the credentials on
\* the connection in use (sctx->authenticated).
THEOREM AuthorizedHereCorrect == Spec => []AuthorizedHere
  <1>1. IInv => AuthorizedHere
    BY DEF IInv
  <1> QED
    BY <1>1, Invariance, PTL

\* stratum_publish_work only ever publishes work of this connection, built
\* from what the pool said on it.
THEOREM PublishedWorkSoundCorrect == Spec => []PublishedWorkSound
  <1>1. IInv => PublishedWorkSound
    BY DEF IInv, Published, Sound, PublishedWorkSound
  <1> QED
    BY <1>1, Invariance, PTL

\* The generation a miner compares tells it when its copy of the work is
\* stale (stratum_publish_work, stratum_reset_work_state).
THEOREM CurrentCopyAgreesCorrect == Spec => []CurrentCopyAgrees
  <1>1. IInv => CurrentCopyAgrees
    BY DEF IInv
  <1> QED
    BY <1>1, Invariance, PTL

\* The waits of the handshake end by their deadline
\* (stratum_send_request_and_wait).
THEOREM SetupBoundedCorrect == Spec => []SetupBounded
  <1>1. IInv => SetupBounded
    <2>1. IInv => WaitOK
      BY IInvSplit
    <2> QED
      BY <2>1, SessionFacts DEF IInv, DeadlineOK, SetupBounded, WaitOK
  <1> QED
    BY <1>1, Invariance, PTL
=============================================================================
