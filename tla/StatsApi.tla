------------------------------ MODULE StatsApi ------------------------------
(***************************************************************************)
(* The thread of the statistics API: it samples the hash counters of the   *)
(* miner threads into a ring and serves one client after the other.        *)
(*                                                                         *)
(* A request is a sequence of pieces that may arrive one by one: the       *)
(* command, its argument, the end of the path of an HTTP request, the key  *)
(* that asks for a WebSocket, and the end (a newline, or the empty line    *)
(* after the headers), which a plain client may leave out.  An answer is   *)
(* the command and argument it is for and what it lists.                   *)
(***************************************************************************)
EXTENDS Integers, Sequences

CONSTANTS
    opt_n_threads,
    API_HISTORY_SIZE,
    API_RECV_SIZE,      \* of the request buffer, in pieces
    None,
    MaxHashes, MaxRounds, MaxClients   \* bounds

ASSUME ApiAssumption ==
    /\ {opt_n_threads, API_HISTORY_SIZE, API_RECV_SIZE} \subseteq Nat \ {0}
    /\ {MaxHashes, MaxRounds, MaxClients} \subseteq Nat

Threads == 0 .. opt_n_threads - 1
Indices == 0 .. API_HISTORY_SIZE - 1

VARIABLES
    hashes_done_total,      \* of each miner thread
    g_api_history, g_api_history_head, g_api_history_count, g_api_history_next_id,
    g_api_previous_hash_totals,
    sampled,                \* threads sampled so far in this round
    rounds, log, reported,  \* history: rounds of samples, every sample, and the
                            \* hashes that those of each thread report
    api,                    \* "poll", "sample", "recv", "close"
    client,                 \* None, or its request and how much of it was sent
    request,                \* the pieces received
    answer,                 \* None, or what the client gets
    clients

ringVars == <<g_api_history, g_api_history_head, g_api_history_count, g_api_history_next_id,
              g_api_previous_hash_totals, sampled, rounds, log, reported>>
vars == <<hashes_done_total, ringVars, api, client, request, answer, clients>>

Commands == {"summary", "pool", "histo"}
Args     == {None} \cup Threads

\* A request as its client means it.
Requests == [cmd : Commands \cup {"other"}, arg : Args, form : {"plain", "http", "ws"},
             ended : BOOLEAN]

Pieces(r) ==
    LET arg == IF r.arg = None THEN <<>> ELSE <<"arg">>
        end == IF r.ended THEN <<"end">> ELSE <<>>
    IN  CASE r.form = "plain" -> <<"cmd">> \o arg \o end
          [] r.form = "http"  -> <<"cmd">> \o arg \o <<"path_end">> \o end
          [] r.form = "ws"    -> <<"cmd">> \o arg \o <<"path_end", "key">> \o end

-----------------------------------------------------------------------------
(* The ring of samples. *)

\* Bug: the oldest entry is one too far.
IndexOffByOne(offset) == (g_api_history_head + offset) % API_HISTORY_SIZE

\* Where build_history_response finds its entry number offset, oldest first.
HistoryIndex(offset) ==
    (g_api_history_head + API_HISTORY_SIZE - g_api_history_count + offset) % API_HISTORY_SIZE

\* api_push_history_sample: the oldest entry gives way once the ring is full.
api_push_history_sample(entry) ==
    /\ g_api_history' = [g_api_history EXCEPT ![g_api_history_head] = entry]
    /\ g_api_history_head' = (g_api_history_head + 1) % API_HISTORY_SIZE
    /\ g_api_history_count' = IF g_api_history_count < API_HISTORY_SIZE
                              THEN g_api_history_count + 1 ELSE g_api_history_count

\* What miner_get_api_snapshot reads of thread t.
miner_get_api_snapshot(t) == hashes_done_total[t]

\* The next thread of api_collect_history_sample, which begins a round when
\* the interval is over.  The snapshot reads the counters one by one while
\* the miner threads count on; what follows a read is the API thread's own.
api_collect_history_sample ==
    LET t     == sampled
        now   == miner_get_api_snapshot(t)
        old   == g_api_previous_hash_totals[t]
        entry == [thread |-> t, id |-> g_api_history_next_id,
                  hash_count |-> IF now >= old THEN now - old ELSE now]
        last  == sampled + 1 = opt_n_threads
    IN
    /\ \/ api = "poll" /\ rounds < MaxRounds /\ rounds' = rounds + 1
       \/ api = "sample" /\ UNCHANGED rounds
    /\ api' = IF last THEN "poll" ELSE "sample"
    /\ sampled' = IF last THEN 0 ELSE sampled + 1
    /\ g_api_history_next_id' = g_api_history_next_id + 1
    /\ g_api_previous_hash_totals' = [g_api_previous_hash_totals EXCEPT ![t] = now]
    /\ api_push_history_sample(entry)
    /\ log' = Append(log, entry)
    /\ reported' = [reported EXCEPT ![t] = @ + entry.hash_count]
    /\ UNCHANGED <<hashes_done_total, client, request, answer, clients>>

\* The miner threads count on.
Hash(t) ==
    /\ hashes_done_total[t] < MaxHashes
    /\ hashes_done_total' = [hashes_done_total EXCEPT ![t] = @ + 1]
    /\ UNCHANGED <<ringVars, api, client, request, answer, clients>>

-----------------------------------------------------------------------------
(* Clients. *)

Accept ==
    /\ api = "poll" /\ client = None /\ clients < MaxClients
    /\ clients' = clients + 1
    /\ \E r \in Requests :
         /\ r.form # "plain" => r.ended   \* an HTTP client ends its headers
         /\ client' = [req |-> r, sent |-> 0, paused |-> FALSE]
    /\ api' = "recv" /\ request' = <<>> /\ answer' = None
    /\ UNCHANGED <<hashes_done_total, ringVars>>

\* The next piece of the request.
ClientSends ==
    /\ api = "recv" /\ client.sent < Len(Pieces(client.req))
    /\ client' = [client EXCEPT !.sent = @ + 1]
    /\ UNCHANGED <<hashes_done_total, ringVars, api, request, answer, clients>>

Received == SubSeq(Pieces(client.req), 1, client.sent)

\* Bug: one receive is taken for the whole request.
CompleteAtOnce(got) == TRUE

\* When api_recv_request stops reading: at the end of the request, or when the
\* buffer is full.
RequestComplete(got) == Len(got) >= API_RECV_SIZE \/ \E i \in DOMAIN got : got[i] = "end"

\* api_parse_command and api_parse_http_get: an HTTP request without the end
\* of its path is no command.
Parsed(got) ==
    LET has(p) == \E i \in DOMAIN got : got[i] = p
        r == client.req
    IN  IF has("cmd") /\ (r.form # "plain" => has("path_end"))
        THEN [cmd |-> r.cmd, arg |-> IF has("arg") THEN r.arg ELSE None, ws |-> has("key")]
        ELSE None

\* The samples of one thread, or all.
SamplesOf(arg, samples) == SelectSeq(samples, LAMBDA e : arg = None \/ e.thread = arg)

\* build_history_response: what is asked for of the ring, oldest first.
build_history_response(arg) ==
    SamplesOf(arg, [i \in 1 .. g_api_history_count |-> g_api_history[HistoryIndex(i - 1)]])

\* api_handle_client after the request: an unknown command gets no answer.
api_handle_client(got) ==
    LET p == Parsed(got) IN
    /\ answer' = IF p = None \/ p.cmd \notin Commands THEN None
                 ELSE [cmd |-> p.cmd, arg |-> p.arg, ws |-> p.ws,
                       lists |-> IF p.cmd = "histo" THEN build_history_response(p.arg) ELSE <<>>]
    /\ api' = "close"

\* More of the request arrives, as far as it fits.
RecvSome ==
    /\ api = "recv" /\ Len(request) < client.sent /\ Len(request) < API_RECV_SIZE
    /\ \E n \in Len(request) + 1 .. client.sent :
         LET got == SubSeq(Received, 1, IF n < API_RECV_SIZE THEN n ELSE API_RECV_SIZE) IN
         /\ request' = got
         /\ IF RequestComplete(got) THEN api_handle_client(got)
                                    ELSE UNCHANGED <<api, answer>>
    /\ UNCHANGED <<hashes_done_total, ringVars, client, clients>>

\* Nothing arrived within the time-out, or the client closed: what is there
\* is the request.
RecvIdle ==
    /\ api = "recv" /\ Len(request) = client.sent
    /\ client' = [client EXCEPT !.paused = client.sent < Len(Pieces(client.req))]
    /\ IF request = <<>> THEN api' = "close" /\ UNCHANGED answer ELSE api_handle_client(request)
    /\ UNCHANGED <<hashes_done_total, ringVars, request, clients>>

\* The answer is sent, or cannot be, and the connection is closed.
Close ==
    /\ api = "close"
    /\ api' = "poll" /\ client' = None /\ request' = <<>> /\ answer' = None
    /\ UNCHANGED <<hashes_done_total, ringVars, clients>>

Init ==
    /\ hashes_done_total = [t \in Threads |-> 0]
    /\ g_api_history = [i \in Indices |-> None]
    /\ g_api_history_head = 0 /\ g_api_history_count = 0 /\ g_api_history_next_id = 1
    /\ g_api_previous_hash_totals = [t \in Threads |-> 0]
    /\ sampled = 0 /\ rounds = 0 /\ log = <<>> /\ reported = [t \in Threads |-> 0]
    /\ api = "poll" /\ client = None /\ request = <<>> /\ answer = None /\ clients = 0

Next ==
    \/ api_collect_history_sample \/ (\E t \in Threads : Hash(t))
    \/ Accept \/ ClientSends \/ RecvSome \/ RecvIdle \/ Close

Spec == Init /\ [][Next]_vars

-----------------------------------------------------------------------------
(* Properties. *)

\* The latest samples, as many as the ring holds.
Recent ==
    SubSeq(log, IF Len(log) > API_HISTORY_SIZE THEN Len(log) - API_HISTORY_SIZE + 1 ELSE 1, Len(log))

\* "histo" lists the latest samples, as many as the ring holds, oldest first,
\* of all threads or of the one asked for, and the samples of a thread report
\* every hash that it had done at its last one, each of them once.
HistoryFaithful ==
    /\ answer # None /\ answer.cmd = "histo" => answer.lists = SamplesOf(answer.arg, Recent)
    /\ \A t \in Threads : reported[t] = g_api_previous_hash_totals[t]

\* A client that does not pause, and whose request fits the buffer, gets the
\* answer to its whole request, in the form it asked for, however the pieces
\* of the request arrive.
RequestWhole ==
    answer # None /\ ~client.paused /\ Len(Pieces(client.req)) =< API_RECV_SIZE =>
        /\ answer.cmd = client.req.cmd /\ answer.arg = client.req.arg
        /\ answer.ws = (client.req.form = "ws")
=============================================================================
