--------------------------- MODULE StatsApiProofs ---------------------------
(***************************************************************************)
(* The statistics API for any number of threads, any size of the ring and  *)
(* of the request buffer: the ring lists the latest samples, and a request *)
(* is answered as a whole however its pieces arrive.                       *)
(***************************************************************************)
EXTENDS StatsApi, TLAPS

-----------------------------------------------------------------------------
(* The inductive invariant. *)

Sample == [thread : Threads, id : Nat, hash_count : Nat]
Piece  == {"cmd", "arg", "path_end", "key", "end"}
Client == [req : Requests, sent : Nat, paused : BOOLEAN]

\* The counters of the miner threads and what the samples took of them.
CountersOK ==
    /\ sampled \in Threads
    /\ hashes_done_total \in [Threads -> Nat]
    /\ g_api_previous_hash_totals \in [Threads -> Nat]
    /\ reported \in [Threads -> Nat]
    /\ \A t \in Threads :
          /\ g_api_previous_hash_totals[t] =< hashes_done_total[t]
          /\ reported[t] = g_api_previous_hash_totals[t]

RingType ==
    /\ g_api_history \in [Indices -> Sample \cup {None}]
    /\ g_api_history_head \in Indices
    /\ g_api_history_next_id \in Nat
    /\ log \in Seq(Sample)

\* The ring holds the end of the log.
RingOK ==
    /\ g_api_history_count = IF Len(log) < API_HISTORY_SIZE THEN Len(log) ELSE API_HISTORY_SIZE
    /\ \A i \in 1 .. g_api_history_count :
          g_api_history[HistoryIndex(i - 1)] = log[Len(log) - g_api_history_count + i]

\* s is the beginning of w.
Begins(s, w) == Len(s) =< Len(w) /\ \A i \in 1 .. Len(s) : s[i] = w[i]

\* While a request is read, what was received of it is its beginning.
ClientOK ==
    /\ api \in {"recv", "close"} => client \in Client
    /\ api = "recv" => /\ request \in Seq(Piece)
                       /\ Begins(request, Pieces(client.req))
                       /\ client.sent =< Len(Pieces(client.req))

\* There is an answer only until the connection is closed, and no sample is
\* taken in between.
AnswerOK ==
    /\ api # "close" => answer = None
    /\ answer # None /\ answer.cmd = "histo" => answer.lists = SamplesOf(answer.arg, Recent)

IInv == CountersOK /\ RingType /\ RingOK /\ ClientOK /\ AnswerOK /\ RequestWhole

-----------------------------------------------------------------------------
(* The ring. *)

\* Reduction of an index that wraps around at most once.
LEMMA WrapsOnce ==
    ASSUME NEW x \in Nat, NEW n \in Nat \ {0}, x < n + n
    PROVE  x % n = IF x < n THEN x ELSE x - n
  OBVIOUS

LEMMA SizeType == API_HISTORY_SIZE \in Nat \ {0} /\ opt_n_threads \in Nat \ {0}
  BY ApiAssumption

\* A push keeps the ring the end of the log.
LEMMA PushRing ==
    ASSUME RingType, RingOK, NEW entry \in Sample, api_push_history_sample(entry),
           log' = Append(log, entry)
    PROVE  /\ g_api_history' \in [Indices -> Sample \cup {None}]
           /\ g_api_history_head' \in Indices
           /\ log' \in Seq(Sample)
           /\ RingOK'
  <1> DEFINE S == API_HISTORY_SIZE
             h == g_api_history_head
             c == g_api_history_count
             n == Len(log)
  <1>1. S \in Nat /\ S > 0 /\ n \in Nat /\ h \in Nat /\ h < S /\ c \in Nat /\ c =< S
    BY SizeType DEF RingType, RingOK, Indices
  <1>0. S \in Nat \ {0}
    BY SizeType
  <1>2. c = (IF n < S THEN n ELSE S)
    BY DEF RingOK
  <1>3. /\ g_api_history' \in [Indices -> Sample \cup {None}]
        /\ g_api_history'[h] = entry
        /\ \A i \in Indices \ {h} : g_api_history'[i] = g_api_history[i]
    BY DEF api_push_history_sample, RingType
  <1>4. g_api_history_head' = IF h + 1 < S THEN h + 1 ELSE 0
    <2> DEFINE x == h + 1
    <2>1. x \in Nat /\ x < S + S
      BY <1>1
    <2> HIDE DEF x
    <2>2. x % S = IF x < S THEN x ELSE x - S
      BY <1>0, <2>1, WrapsOnce
    <2> QED
      BY <1>1, <2>2 DEF x, api_push_history_sample
  <1>5. g_api_history_count' = IF c < S THEN c + 1 ELSE c
    BY DEF api_push_history_sample
  <1>6. /\ log' \in Seq(Sample) /\ Len(log') = n + 1 /\ log'[n + 1] = entry
        /\ \A i \in 1 .. n : log'[i] = log[i]
    BY DEF RingType
  <1>7. ASSUME NEW i \in 1 .. g_api_history_count'
        PROVE  g_api_history'[(g_api_history_head' + S - g_api_history_count' + (i - 1)) % S]
                  = log'[n + 1 - g_api_history_count' + i]
    <2> DEFINE x == g_api_history_head' + S - g_api_history_count' + (i - 1)
    <2>1. x \in Nat /\ x < S + S
      BY <1>1, <1>4, <1>5
    <2>2. SUFFICES g_api_history'[x % S] = log'[n + 1 - g_api_history_count' + i]
      OBVIOUS
    <2> HIDE DEF x
    <2>3. x % S = IF x < S THEN x ELSE x - S
      BY <1>0, <2>1, WrapsOnce
    <2>4. CASE i = g_api_history_count'
      <3>1. x % S = h
        BY <1>1, <1>4, <1>5, <2>3, <2>4 DEF x
      <3>2. n + 1 - g_api_history_count' + i = n + 1
        BY <1>1, <1>5, <2>4
      <3> QED
        BY <1>3, <1>6, <3>1, <3>2
    <2>5. CASE i < g_api_history_count'
      <3> DEFINE k == IF c < S THEN i ELSE i + 1
      <3>1. k \in 1 .. c /\ n + 1 - g_api_history_count' + i = n - c + k
        BY <1>1, <1>5, <2>5
      <3>2. n - c + k \in 1 .. n
        BY <1>1, <1>2, <3>1
      <3> DEFINE y == h + S - c + (k - 1)
      <3>3. y \in Nat /\ y < S + S
        BY <1>1, <3>1
      <3>4. HistoryIndex(k - 1) = y % S
        BY DEF HistoryIndex
      <3>5. y % S = IF y < S THEN y ELSE y - S
        <4> HIDE DEF y
        <4> QED
          BY <1>0, <3>3, WrapsOnce
      <3>6. y % S = x % S
        BY <1>1, <1>4, <1>5, <2>3, <3>1, <3>5 DEF x
      <3>7. y % S # h /\ y % S \in Indices
        BY <1>1, <3>1, <3>3, <3>5 DEF Indices
      <3>8. g_api_history[HistoryIndex(k - 1)] = log[n - c + k]
        BY <3>1 DEF RingOK
      <3> HIDE DEF k, y
      <3> QED
        BY <1>3, <1>6, <3>1, <3>2, <3>4, <3>6, <3>7, <3>8
    <2>6. i = g_api_history_count' \/ i < g_api_history_count'
      <3>1. g_api_history_count' \in Nat
        BY <1>1, <1>5
      <3> QED
        BY <3>1
    <2> QED
      BY <2>4, <2>5, <2>6
  <1>8. g_api_history_head' \in Indices
    BY <1>1, <1>4 DEF Indices
  <1>9. g_api_history_count' = IF n + 1 < S THEN n + 1 ELSE S
    BY <1>1, <1>2, <1>5
  <1>10. RingOK'
    <2> HIDE DEF n
    <2>1. \A i \in 1 .. g_api_history_count' :
             g_api_history'[(g_api_history_head' + S - g_api_history_count' + (i - 1)) % S]
                = log'[n + 1 - g_api_history_count' + i]
      BY <1>7
    <2>3. Len(log)' = n + 1
      BY <1>6
    <2>2. g_api_history_count' = IF Len(log') < API_HISTORY_SIZE THEN Len(log') ELSE API_HISTORY_SIZE
      BY <1>6, <1>9
    <2>4. ASSUME NEW i \in 1 .. g_api_history_count'
          PROVE  (g_api_history[HistoryIndex(i - 1)] = log[Len(log) - g_api_history_count + i])'
      <3>1. g_api_history'[(g_api_history_head' + S - g_api_history_count' + (i - 1)) % S]
                = log'[n + 1 - g_api_history_count' + i]
        BY <2>1
      <3>2. HistoryIndex(i - 1)' = (g_api_history_head' + S - g_api_history_count' + (i - 1)) % S
        BY DEF HistoryIndex
      <3>3. (Len(log) - g_api_history_count + i)' = n + 1 - g_api_history_count' + i
        BY <1>1, <1>5, <2>3
      <3> QED
        BY <3>1, <3>2, <3>3, Zenon
    <2> QED
      BY <2>2, <2>4 DEF RingOK
  <1> QED
    BY <1>3, <1>6, <1>8, <1>10

\* What the API lists is the end of the log.
LEMMA ListedIsRecent ==
    ASSUME RingType, RingOK
    PROVE  [i \in 1 .. g_api_history_count |-> g_api_history[HistoryIndex(i - 1)]] = Recent
  <1> DEFINE S == API_HISTORY_SIZE
             c == g_api_history_count
             n == Len(log)
             first == IF n > S THEN n - S + 1 ELSE 1
             listed == [i \in 1 .. c |-> g_api_history[HistoryIndex(i - 1)]]
  <1>1. S \in Nat /\ S > 0 /\ n \in Nat /\ c \in Nat /\ c = (IF n < S THEN n ELSE S)
    BY SizeType DEF RingType, RingOK
  <1>2. first \in 1 .. n + 1 /\ n - first + 1 = c
    <2> HIDE DEF n, S, c
    <2>1. CASE n > S
      BY <1>1, <2>1
    <2>2. CASE n =< S
      BY <1>1, <2>2
    <2> QED
      BY <1>1, <2>1, <2>2
  <1>3. Recent = [i \in 1 .. c |-> log[first + i - 1]]
    <2>1. Recent = SubSeq(log, first, n)
      BY DEF Recent
    <2>2. SubSeq(log, first, n) = [i \in 1 .. n - first + 1 |-> log[first + i - 1]]
      <3> HIDE DEF first
      <3> QED
        BY <1>1, <1>2 DEF RingType
    <2> QED
      BY <1>2, <2>1, <2>2
  <1>4. ASSUME NEW i \in 1 .. c PROVE listed[i] = log[first + i - 1]
    <2>1. listed[i] = log[n - c + i]
      BY DEF RingOK
    <2>2. n - c + i = first + i - 1
      <3> HIDE DEF first, n, c
      <3> QED
        BY <1>1, <1>2
    <2> QED
      BY <2>1, <2>2
  <1> HIDE DEF first, n
  <1> QED
    BY <1>3, <1>4

-----------------------------------------------------------------------------
(* Requests. *)

Has(w, p) == \E i \in DOMAIN w : w[i] = p

LEMMA HasConcat ==
    ASSUME NEW u \in Seq(Piece), NEW v \in Seq(Piece), NEW p
    PROVE  /\ u \o v \in Seq(Piece)
           /\ Has(u \o v, p) <=> Has(u, p) \/ Has(v, p)
  <1>1. /\ u \o v \in Seq(Piece) /\ Len(u \o v) = Len(u) + Len(v)
        /\ \A i \in 1 .. Len(u) : (u \o v)[i] = u[i]
        /\ \A i \in 1 .. Len(v) : (u \o v)[Len(u) + i] = v[i]
    OBVIOUS
  <1>2. ASSUME NEW i \in 1 .. Len(u) + Len(v), i > Len(u)
        PROVE  (u \o v)[i] = v[i - Len(u)] /\ i - Len(u) \in 1 .. Len(v)
    BY <1>2
  <1>3. DOMAIN u = 1 .. Len(u) /\ DOMAIN v = 1 .. Len(v) /\ DOMAIN (u \o v) = 1 .. Len(u) + Len(v)
        /\ Len(u) \in Nat /\ Len(v) \in Nat
    BY <1>1
  <1>4. ASSUME Has(u, p) PROVE Has(u \o v, p)
    BY <1>1, <1>3, <1>4 DEF Has
  <1>5. ASSUME Has(v, p) PROVE Has(u \o v, p)
    <2>1. PICK i \in 1 .. Len(v) : v[i] = p
      BY <1>3, <1>5 DEF Has
    <2>2. Len(u) + i \in 1 .. Len(u) + Len(v) /\ (u \o v)[Len(u) + i] = p
      BY <1>1, <1>3, <2>1
    <2> QED
      BY <1>3, <2>2 DEF Has
  <1>6. ASSUME Has(u \o v, p) PROVE Has(u, p) \/ Has(v, p)
    <2>1. PICK i \in 1 .. Len(u) + Len(v) : (u \o v)[i] = p
      BY <1>3, <1>6 DEF Has
    <2>2. CASE i =< Len(u)
      BY <1>1, <1>3, <2>1, <2>2 DEF Has
    <2>3. CASE i > Len(u)
      BY <1>2, <1>3, <2>1, <2>3 DEF Has
    <2> QED
      BY <1>3, <2>2, <2>3
  <1> QED
    BY <1>1, <1>4, <1>5, <1>6

LEMMA HasOne ==
    ASSUME NEW x \in Piece, NEW p
    PROVE  <<x>> \in Seq(Piece) /\ (Has(<<x>>, p) <=> p = x)
  <1>1. <<x>> \in Seq(Piece)
    OBVIOUS
  <1>2. DOMAIN <<x>> = {1} /\ <<x>>[1] = x
    OBVIOUS
  <1> QED
    BY <1>1, <1>2, Zenon DEF Has

LEMMA HasNone ==
    ASSUME NEW p
    PROVE  <<>> \in Seq(Piece) /\ ~Has(<<>>, p)
  BY DEF Has

LEMMA HasTwo ==
    ASSUME NEW x \in Piece, NEW y \in Piece, NEW p
    PROVE  <<x, y>> \in Seq(Piece) /\ (Has(<<x, y>>, p) <=> p = x \/ p = y)
  <1>1. <<x, y>> \in Seq(Piece)
    OBVIOUS
  <1>2. DOMAIN <<x, y>> = {1, 2} /\ <<x, y>>[1] = x /\ <<x, y>>[2] = y
    OBVIOUS
  <1> QED
    BY <1>1, <1>2, Zenon DEF Has

\* A request without its end.
Body(r) ==
    LET arg == IF r.arg = None THEN <<>> ELSE <<"arg">>
    IN  CASE r.form = "plain" -> <<"cmd">> \o arg
          [] r.form = "http"  -> <<"cmd">> \o arg \o <<"path_end">>
          [] r.form = "ws"    -> <<"cmd">> \o arg \o <<"path_end", "key">>

LEMMA BodyHas ==
    ASSUME NEW r \in Requests
    PROVE  /\ Body(r) \in Seq(Piece)
           /\ Has(Body(r), "cmd") /\ ~Has(Body(r), "end")
           /\ Has(Body(r), "arg") <=> r.arg # None
           /\ Has(Body(r), "path_end") <=> r.form # "plain"
           /\ Has(Body(r), "key") <=> r.form = "ws"
  <1> DEFINE arg == IF r.arg = None THEN <<>> ELSE <<"arg">>
             u   == <<"cmd">> \o arg
  <1>1. arg \in Seq(Piece) /\ \A p : Has(arg, p) <=> p = "arg" /\ r.arg # None
    <2> HIDE DEF Has
    <2>1. "arg" \in Piece
      BY DEF Piece
    <2>2. CASE r.arg = None
      BY <2>2, HasNone, Zenon
    <2>3. CASE r.arg # None
      BY <2>1, <2>3, HasOne, Zenon
    <2> QED
      BY <2>2, <2>3
  <1>2. u \in Seq(Piece) /\ \A p : Has(u, p) <=> p = "cmd" \/ (p = "arg" /\ r.arg # None)
    <2> HIDE DEF arg
    <2>1. "cmd" \in Piece
      BY DEF Piece
    <2>2. <<"cmd">> \in Seq(Piece) /\ \A p : Has(<<"cmd">>, p) <=> p = "cmd"
      BY <2>1, HasOne, Zenon
    <2>3. <<"cmd">> \o arg \in Seq(Piece)
          /\ \A p : Has(<<"cmd">> \o arg, p) <=> Has(<<"cmd">>, p) \/ Has(arg, p)
      BY <1>1, <2>2, HasConcat, Zenon
    <2> QED
      BY <1>1, <2>2, <2>3, Zenon
  <1> HIDE DEF u
  <1>3. /\ u \o <<"path_end">> \in Seq(Piece)
        /\ \A p : Has(u \o <<"path_end">>, p) <=> Has(u, p) \/ p = "path_end"
    <2>1. "path_end" \in Piece
      BY DEF Piece
    <2>2. <<"path_end">> \in Seq(Piece) /\ \A p : Has(<<"path_end">>, p) <=> p = "path_end"
      BY <2>1, HasOne, Zenon
    <2> QED
      BY <1>2, <2>2, HasConcat, Zenon
  <1>4. /\ u \o <<"path_end", "key">> \in Seq(Piece)
        /\ \A p : Has(u \o <<"path_end", "key">>, p) <=> Has(u, p) \/ p = "path_end" \/ p = "key"
    <2>1. "path_end" \in Piece /\ "key" \in Piece
      BY DEF Piece
    <2>2. /\ <<"path_end", "key">> \in Seq(Piece)
          /\ \A p : Has(<<"path_end", "key">>, p) <=> p = "path_end" \/ p = "key"
      BY <2>1, HasTwo, Zenon
    <2> QED
      BY <1>2, <2>2, HasConcat, Zenon
  <1>5. CASE r.form = "plain"
    <2>1. Body(r) = u
      BY <1>5 DEF Body, u
    <2> QED
      BY <1>2, <1>5, <2>1
  <1>6. CASE r.form = "http"
    <2>1. Body(r) = u \o <<"path_end">>
      BY <1>6 DEF Body, u
    <2> QED
      BY <1>2, <1>3, <1>6, <2>1
  <1>7. CASE r.form = "ws"
    <2>1. Body(r) = u \o <<"path_end", "key">>
      BY <1>7 DEF Body, u
    <2> QED
      BY <1>2, <1>4, <1>7, <2>1
  <1> QED
    BY <1>5, <1>6, <1>7 DEF Requests

LEMMA PiecesOf ==
    ASSUME NEW r \in Requests
    PROVE  Pieces(r) = Body(r) \o (IF r.ended THEN <<"end">> ELSE <<>>)
  <1>1. CASE r.form = "plain"
    BY <1>1 DEF Pieces, Body
  <1>2. CASE r.form = "http"
    BY <1>2 DEF Pieces, Body
  <1>3. CASE r.form = "ws"
    BY <1>3 DEF Pieces, Body
  <1> QED
    BY <1>1, <1>2, <1>3 DEF Requests

\* What is in a request, and that its end is its last piece.
LEMMA PiecesHas ==
    ASSUME NEW r \in Requests
    PROVE  /\ Pieces(r) \in Seq(Piece)
           /\ Has(Pieces(r), "cmd")
           /\ Has(Pieces(r), "arg") <=> r.arg # None
           /\ Has(Pieces(r), "path_end") <=> r.form # "plain"
           /\ Has(Pieces(r), "key") <=> r.form = "ws"
           /\ \A i \in 1 .. Len(Pieces(r)) : Pieces(r)[i] = "end" => i = Len(Pieces(r))
  <1> DEFINE b == Body(r)
             e == IF r.ended THEN <<"end">> ELSE <<>>
  <1>1. e \in Seq(Piece) /\ Len(e) =< 1 /\ Len(e) \in Nat /\ \A p : Has(e, p) => p = "end"
    <2>1. "end" \in Piece /\ Len(<<"end">>) = 1 /\ Len(<<>>) = 0
      BY DEF Piece
    <2>2. <<"end">> \in Seq(Piece) /\ \A p : Has(<<"end">>, p) => p = "end"
      BY <2>1, HasOne, Zenon
    <2>3. <<>> \in Seq(Piece) /\ \A p : ~Has(<<>>, p)
      BY HasNone, Zenon
    <2>4. CASE r.ended
      <3>1. e = <<"end">>
        BY <2>4
      <3> HIDE DEF e
      <3> QED
        BY <2>1, <2>2, <3>1
    <2>5. CASE ~r.ended
      <3>1. e = <<>>
        BY <2>5
      <3> HIDE DEF e
      <3> QED
        BY <2>1, <2>3, <3>1
    <2> QED
      BY <2>4, <2>5
  <1>2. Pieces(r) = b \o e
    BY PiecesOf
  <1>3. b \in Seq(Piece)
    BY BodyHas
  <1> HIDE DEF b, e
  <1>4. Pieces(r) \in Seq(Piece) /\ \A p : Has(Pieces(r), p) <=> Has(b, p) \/ Has(e, p)
    BY <1>1, <1>2, <1>3, HasConcat
  <1>5. ASSUME NEW i \in 1 .. Len(Pieces(r)), Pieces(r)[i] = "end" PROVE i = Len(Pieces(r))
    <2>1. /\ Len(Pieces(r)) = Len(b) + Len(e) /\ Len(b) \in Nat
          /\ \A k \in 1 .. Len(b) : Pieces(r)[k] = b[k]
      BY <1>1, <1>2, <1>3
    <2>2. i \notin 1 .. Len(b)
      <3>1. ~Has(b, "end") /\ DOMAIN b = 1 .. Len(b)
        BY <1>3, BodyHas DEF b
      <3> QED
        BY <1>5, <2>1, <3>1 DEF Has
    <2> QED
      BY <1>1, <2>1, <2>2
  <1> QED
    BY <1>1, <1>4, <1>5, BodyHas DEF b

\* A request that was received as a whole is parsed as its client meant it.
LEMMA WholeParsed ==
    ASSUME client \in Client, NEW got \in Seq(Piece), Begins(got, Pieces(client.req)),
           Len(got) = Len(Pieces(client.req)), Parsed(got) # None
    PROVE  /\ Parsed(got).cmd = client.req.cmd /\ Parsed(got).arg = client.req.arg
           /\ Parsed(got).ws = (client.req.form = "ws")
  <1> DEFINE r == client.req
             w == Pieces(r)
             has(p) == \E i \in DOMAIN got : got[i] = p
  <1>1. r \in Requests
    BY DEF Client
  <1>2. w \in Seq(Piece) /\ DOMAIN w = 1 .. Len(w) /\ DOMAIN got = 1 .. Len(got)
    BY <1>1, PiecesHas
  <1>3. \A p : has(p) <=> Has(w, p)
    BY <1>2 DEF Begins, Has
  <1>4. (has("arg") <=> r.arg # None) /\ (has("key") <=> r.form = "ws")
    BY <1>1, <1>3, PiecesHas
  <1>5. Parsed(got) = [cmd |-> r.cmd, arg |-> IF has("arg") THEN r.arg ELSE None, ws |-> has("key")]
    BY DEF Parsed
  <1> HIDE DEF has
  <1>6. (IF has("arg") THEN r.arg ELSE None) = r.arg
    BY <1>4
  <1>7. Parsed(got) = [cmd |-> r.cmd, arg |-> r.arg, ws |-> has("key")]
    BY <1>5, <1>6
  <1>8. has("key") = (r.form = "ws")
    BY <1>4 DEF has
  <1> QED
    BY <1>7, <1>8

\* What api_handle_client makes of the part of a request that it is given.
LEMMA HandleRequest ==
    ASSUME IInv, client \in Client, client' \in Client, client'.req = client.req,
           NEW got \in Seq(Piece), Begins(got, Pieces(client.req)), api_handle_client(got),
           ~client'.paused /\ Len(Pieces(client.req)) =< API_RECV_SIZE
              => Len(got) = Len(Pieces(client.req)),
           UNCHANGED ringVars
    PROVE  ClientOK' /\ AnswerOK' /\ RequestWhole'
  <1> DEFINE p == Parsed(got)
  <1>1. api' = "close"
    BY DEF api_handle_client
  <1>2. ClientOK'
    BY <1>1 DEF ClientOK
  <1>3. Recent' = Recent
    BY DEF ringVars, Recent
  <1>4. CASE answer' = None
    BY <1>1, <1>2, <1>4 DEF AnswerOK, RequestWhole
  <1>5. CASE answer' # None
    <2>1. /\ p # None
          /\ answer' = [cmd |-> p.cmd, arg |-> p.arg, ws |-> p.ws,
                        lists |-> IF p.cmd = "histo" THEN build_history_response(p.arg) ELSE <<>>]
      BY <1>5 DEF api_handle_client
    <2> HIDE DEF p
    <2>2. answer'.cmd = p.cmd /\ answer'.arg = p.arg /\ answer'.ws = p.ws
      BY <2>1
    <2>3. p.cmd = "histo" => answer'.lists = build_history_response(p.arg)
      BY <2>1
    <2>4. build_history_response(p.arg) = SamplesOf(p.arg, Recent)
      BY ListedIsRecent DEF IInv, build_history_response
    <2>5. AnswerOK'
      BY <1>1, <1>3, <2>2, <2>3, <2>4 DEF AnswerOK
    <2>6. RequestWhole'
      <3> SUFFICES ASSUME ~client'.paused, Len(Pieces(client'.req)) =< API_RECV_SIZE
                   PROVE  /\ answer'.cmd = client'.req.cmd /\ answer'.arg = client'.req.arg
                          /\ answer'.ws = (client'.req.form = "ws")
        BY DEF RequestWhole
      <3>1. Len(got) = Len(Pieces(client.req))
        OBVIOUS
      <3>2. /\ p.cmd = client.req.cmd /\ p.arg = client.req.arg
            /\ p.ws = (client.req.form = "ws")
        BY <2>1, <3>1, WholeParsed DEF p
      <3> QED
        BY <2>2, <3>2
    <2> QED
      BY <1>2, <2>5, <2>6
  <1> QED
    BY <1>4, <1>5

-----------------------------------------------------------------------------
LEMMA InitInv == Init => IInv
  <1> SUFFICES ASSUME Init PROVE IInv
    OBVIOUS
  <1>1. CountersOK
    BY SizeType DEF Init, CountersOK, Threads
  <1>2. RingType
    BY SizeType DEF Init, RingType, Indices
  <1>3. RingOK
    BY SizeType DEF Init, RingOK
  <1>4. ClientOK /\ AnswerOK /\ RequestWhole
    BY DEF Init, ClientOK, AnswerOK, RequestWhole
  <1> QED
    BY <1>1, <1>2, <1>3, <1>4 DEF IInv

LEMMA SampleStep == IInv /\ api_collect_history_sample => IInv'
  <1> SUFFICES ASSUME IInv, api_collect_history_sample PROVE IInv'
    OBVIOUS
  <1> DEFINE t     == sampled
             now   == hashes_done_total[t]
             old   == g_api_previous_hash_totals[t]
             entry == [thread |-> t, id |-> g_api_history_next_id,
                       hash_count |-> IF now >= old THEN now - old ELSE now]
  <1>1. /\ t \in Threads /\ now \in Nat /\ old \in Nat /\ old =< now /\ reported[t] = old
        /\ Threads = 0 .. opt_n_threads - 1 /\ opt_n_threads \in Nat
    BY SizeType DEF IInv, CountersOK, Threads
  <1>2. entry \in Sample /\ entry.hash_count = now - old
    BY <1>1 DEF IInv, RingType, Sample
  <1>3. /\ api \in {"poll", "sample"} /\ api' \in {"poll", "sample"}
        /\ sampled' = IF sampled + 1 = opt_n_threads THEN 0 ELSE sampled + 1
        /\ g_api_history_next_id' = g_api_history_next_id + 1
        /\ g_api_previous_hash_totals' = [g_api_previous_hash_totals EXCEPT ![t] = now]
        /\ api_push_history_sample(entry)
        /\ log' = Append(log, entry)
        /\ reported' = [reported EXCEPT ![t] = @ + entry.hash_count]
        /\ UNCHANGED <<hashes_done_total, client, request, answer>>
    BY DEF api_collect_history_sample, miner_get_api_snapshot
  <1> HIDE DEF entry
  <1>4. RingType' /\ RingOK'
    BY <1>2, <1>3, PushRing DEF IInv, RingType
  <1>5. CountersOK'
    <2>1. sampled' \in Threads
      BY <1>1, <1>3
    <2>2. /\ reported'[t] = now /\ g_api_previous_hash_totals'[t] = now
          /\ \A u \in Threads \ {t} : /\ reported'[u] = reported[u]
                                     /\ g_api_previous_hash_totals'[u] = g_api_previous_hash_totals[u]
      BY <1>1, <1>2, <1>3 DEF IInv, CountersOK
    <2>3. reported' \in [Threads -> Nat] /\ g_api_previous_hash_totals' \in [Threads -> Nat]
      BY <1>1, <1>2, <1>3 DEF IInv, CountersOK
    <2> QED
      BY <1>1, <1>3, <2>1, <2>2, <2>3 DEF IInv, CountersOK
  <1>6. answer' = None
    BY <1>3 DEF IInv, AnswerOK
  <1>7. ClientOK' /\ AnswerOK' /\ RequestWhole'
    BY <1>3, <1>6 DEF ClientOK, AnswerOK, RequestWhole
  <1> QED
    BY <1>4, <1>5, <1>7 DEF IInv

\* The ring and its counters do not depend on the clients.
LEMMA RingKept ==
    ASSUME IInv, UNCHANGED <<ringVars, hashes_done_total>>
    PROVE  CountersOK' /\ RingType' /\ RingOK' /\ Recent' = Recent
  BY DEF IInv, ringVars, CountersOK, RingType, RingOK, HistoryIndex, Recent

LEMMA HashStep ==
    ASSUME IInv, NEW t \in Threads, Hash(t)
    PROVE  IInv'
  <1>1. UNCHANGED <<ringVars, api, client, request, answer>>
    BY DEF Hash
  <1>2. UNCHANGED <<g_api_history, g_api_history_head, g_api_history_count, g_api_history_next_id,
                    g_api_previous_hash_totals, sampled, log, reported>>
    BY <1>1 DEF ringVars
  <1>3. hashes_done_total' = [hashes_done_total EXCEPT ![t] = @ + 1]
    BY DEF Hash
  <1>4. CountersOK'
    BY <1>2, <1>3 DEF IInv, CountersOK
  <1>5. RingType' /\ RingOK' /\ Recent' = Recent
    BY <1>2 DEF IInv, RingType, RingOK, HistoryIndex, Recent
  <1>6. ClientOK' /\ RequestWhole'
    BY <1>1 DEF IInv, ClientOK, RequestWhole
  <1>7. AnswerOK'
    BY <1>1, <1>5 DEF IInv, AnswerOK
  <1> QED
    BY <1>4, <1>5, <1>6, <1>7 DEF IInv

LEMMA ClientStep ==
    ASSUME IInv, Accept \/ ClientSends \/ Close
    PROVE  IInv'
  <1>0. UNCHANGED <<ringVars, hashes_done_total>>
    BY DEF Accept, ClientSends, Close
  <1>1. CountersOK' /\ RingType' /\ RingOK'
    BY <1>0, RingKept
  <1>2. answer' = None
    BY DEF Accept, ClientSends, Close, IInv, AnswerOK
  <1>3. AnswerOK' /\ RequestWhole'
    BY <1>2 DEF AnswerOK, RequestWhole
  <1>4. ClientOK'
    <2>1. CASE Accept
      <3>1. PICK r \in Requests : client' = [req |-> r, sent |-> 0, paused |-> FALSE]
        BY <2>1 DEF Accept
      <3>2. api' = "recv" /\ request' = <<>>
        BY <2>1 DEF Accept
      <3>3. client' \in Client /\ client'.sent = 0 /\ client'.req = r
        BY <3>1 DEF Client
      <3>4. Pieces(r) \in Seq(Piece)
        BY PiecesHas
      <3> QED
        BY <3>2, <3>3, <3>4 DEF ClientOK, Begins
    <2>2. CASE ClientSends
      <3>1. /\ api = "recv" /\ api' = "recv" /\ request' = request
            /\ client' = [client EXCEPT !.sent = @ + 1] /\ client.sent < Len(Pieces(client.req))
        BY <2>2 DEF ClientSends
      <3>2. client \in Client /\ request \in Seq(Piece) /\ Begins(request, Pieces(client.req))
        BY <3>1 DEF IInv, ClientOK
      <3>3. client' \in Client /\ client'.req = client.req /\ client'.sent = client.sent + 1
        BY <3>1, <3>2 DEF Client
      <3>4. Len(Pieces(client.req)) \in Nat /\ client.sent \in Nat
        BY <3>2, PiecesHas DEF Client
      <3> QED
        BY <3>1, <3>2, <3>3, <3>4 DEF ClientOK
    <2>3. CASE Close
      BY <2>3 DEF Close, ClientOK
    <2> QED
      BY <2>1, <2>2, <2>3
  <1> QED
    BY <1>1, <1>3, <1>4 DEF IInv

LEMMA RecvSomeStep == IInv /\ RecvSome => IInv'
  <1> SUFFICES ASSUME IInv, RecvSome PROVE IInv'
    OBVIOUS
  <1> DEFINE w == Pieces(client.req)
  <1>0. api = "recv" /\ UNCHANGED <<hashes_done_total, ringVars, client>>
    BY DEF RecvSome
  <1>1. CountersOK' /\ RingType' /\ RingOK' /\ Recent' = Recent
    BY <1>0, RingKept
  <1>2. /\ client \in Client /\ client.sent =< Len(w) /\ client.sent \in Nat
        /\ w \in Seq(Piece) /\ Len(w) \in Nat /\ request \in Seq(Piece) /\ Len(request) \in Nat
    <2>1. client \in Client /\ client.sent =< Len(w) /\ request \in Seq(Piece)
      BY <1>0 DEF IInv, ClientOK
    <2>2. client.req \in Requests /\ client.sent \in Nat
      BY <2>1 DEF Client
    <2> QED
      BY <2>1, <2>2, PiecesHas
  <1>3. PICK n \in Len(request) + 1 .. client.sent :
           LET got == SubSeq(Received, 1, IF n < API_RECV_SIZE THEN n ELSE API_RECV_SIZE) IN
           /\ request' = got
           /\ IF RequestComplete(got) THEN api_handle_client(got) ELSE UNCHANGED <<api, answer>>
    BY DEF RecvSome
  <1> DEFINE m   == IF n < API_RECV_SIZE THEN n ELSE API_RECV_SIZE
             got == SubSeq(Received, 1, m)
  <1>4. API_RECV_SIZE \in Nat \ {0} /\ n \in Nat /\ n =< client.sent
    BY <1>2, ApiAssumption
  <1>5. m \in Nat /\ m =< n /\ m =< API_RECV_SIZE
    BY <1>4
  <1> HIDE DEF m, w
  <1>6. got \in Seq(Piece) /\ Len(got) = m /\ \A i \in 1 .. m : got[i] = w[i]
    <2>1. /\ Received \in Seq(Piece) /\ Len(Received) = client.sent
          /\ \A i \in 1 .. client.sent : Received[i] = w[i]
      BY <1>2 DEF Received, w
    <2> QED
      BY <1>2, <1>4, <1>5, <2>1
  <1> HIDE DEF got
  <1>7. Begins(got, w)
    BY <1>2, <1>4, <1>5, <1>6 DEF Begins
  <1>8. request' = got /\ (RequestComplete(got) => api_handle_client(got))
        /\ (~RequestComplete(got) => UNCHANGED <<api, answer>>)
    BY <1>3 DEF got, m
  <1>9. CASE RequestComplete(got)
    <2>1. ASSUME Len(w) =< API_RECV_SIZE PROVE Len(got) = Len(w)
      <3>1. Len(got) =< Len(w) /\ Len(got) \in Nat
        BY <1>2, <1>4, <1>5, <1>6
      <3>2. CASE Len(got) >= API_RECV_SIZE
        BY <1>2, <1>4, <2>1, <3>1, <3>2
      <3>3. CASE \E i \in DOMAIN got : got[i] = "end"
        <4>1. PICK i \in 1 .. m : got[i] = "end"
          BY <1>6, <3>3
        <4>2. w[i] = "end" /\ i \in 1 .. Len(w)
          BY <1>2, <1>4, <1>5, <1>6, <4>1
        <4>3. i = Len(w)
          <5>1. client.req \in Requests
            BY <1>2 DEF Client
          <5> QED
            BY <4>2, <5>1, PiecesHas DEF w
        <4> QED
          BY <1>2, <1>6, <3>1, <4>1, <4>3
      <3> QED
        BY <1>9, <3>2, <3>3 DEF RequestComplete
    <2>2. ClientOK' /\ AnswerOK' /\ RequestWhole'
      BY <1>0, <1>2, <1>6, <1>7, <1>8, <1>9, <2>1, HandleRequest DEF w
    <2> QED
      BY <1>1, <2>2 DEF IInv
  <1>10. CASE ~RequestComplete(got)
    <2>1. answer' = None /\ api' = "recv"
      BY <1>0, <1>8, <1>10 DEF IInv, AnswerOK
    <2>2. ClientOK'
      BY <1>0, <1>2, <1>6, <1>7, <1>8, <2>1 DEF ClientOK, w
    <2> QED
      BY <1>1, <2>1, <2>2 DEF IInv, AnswerOK, RequestWhole
  <1> QED
    BY <1>9, <1>10

LEMMA RecvIdleStep == IInv /\ RecvIdle => IInv'
  <1> SUFFICES ASSUME IInv, RecvIdle PROVE IInv'
    OBVIOUS
  <1> DEFINE w == Pieces(client.req)
  <1>0. /\ api = "recv" /\ Len(request) = client.sent
        /\ client' = [client EXCEPT !.paused = client.sent < Len(w)]
        /\ UNCHANGED <<hashes_done_total, ringVars, request>>
    BY DEF RecvIdle
  <1>1. CountersOK' /\ RingType' /\ RingOK' /\ Recent' = Recent
    BY <1>0, RingKept
  <1>2. /\ client \in Client /\ client.sent =< Len(w) /\ client.sent \in Nat /\ Len(w) \in Nat
        /\ request \in Seq(Piece) /\ Begins(request, w)
    <2>1. client \in Client /\ client.sent =< Len(w) /\ request \in Seq(Piece) /\ Begins(request, w)
      BY <1>0 DEF IInv, ClientOK
    <2>2. client.req \in Requests /\ client.sent \in Nat
      BY <2>1 DEF Client
    <2> QED
      BY <2>1, <2>2, PiecesHas
  <1> HIDE DEF w
  <1>3. client' \in Client /\ client'.req = client.req /\ (client'.paused <=> client.sent < Len(w))
    <2>1. (client.sent < Len(w)) \in BOOLEAN
      OBVIOUS
    <2> DEFINE b == client.sent < Len(w)
    <2> HIDE DEF b
    <2>2. client' = [client EXCEPT !.paused = b] /\ b \in BOOLEAN
      BY <1>0, <2>1 DEF b
    <2>3. client' \in Client /\ client'.req = client.req /\ client'.paused = b
      BY <1>2, <2>2 DEF Client
    <2> QED
      BY <2>3 DEF b
  <1>4. CASE request = <<>> /\ api' = "close" /\ UNCHANGED answer
    <2>1. answer' = None
      BY <1>0, <1>4 DEF IInv, AnswerOK
    <2> QED
      BY <1>1, <1>3, <1>4, <2>1 DEF IInv, ClientOK, AnswerOK, RequestWhole
  <1>5. CASE api_handle_client(request)
    <2>1. ~client'.paused => Len(request) = Len(w)
      BY <1>0, <1>2, <1>3
    <2>2. ClientOK' /\ AnswerOK' /\ RequestWhole'
      BY <1>0, <1>2, <1>3, <1>5, <2>1, HandleRequest DEF w
    <2> QED
      BY <1>1, <2>2 DEF IInv
  <1> QED
    BY <1>4, <1>5 DEF RecvIdle

\* The invariant is kept by every step of the API thread, its clients and the
\* miner threads.
THEOREM Invariance == Spec => []IInv
  <1>1. IInv /\ [Next]_vars => IInv'
    <2> SUFFICES ASSUME IInv, [Next]_vars PROVE IInv'
      OBVIOUS
    <2>1. CASE Next
      BY <2>1, SampleStep, HashStep, ClientStep, RecvSomeStep, RecvIdleStep DEF Next
    <2>2. CASE UNCHANGED vars
      <3>1. CountersOK' /\ RingType' /\ RingOK' /\ Recent' = Recent
        BY <2>2, RingKept DEF vars
      <3>2. UNCHANGED <<api, client, request, answer>>
        BY <2>2 DEF vars
      <3>3. ClientOK' /\ RequestWhole'
        BY <3>2 DEF IInv, ClientOK, RequestWhole
      <3>4. AnswerOK'
        BY <3>1, <3>2 DEF IInv, AnswerOK
      <3> QED
        BY <3>1, <3>3, <3>4 DEF IInv
    <2> QED
      BY <2>1, <2>2
  <1> QED
    BY <1>1, InitInv, PTL DEF Spec

\* "histo" lists the latest samples oldest first and the samples report every
\* hash once (api_push_history_sample, build_history_response), for every size
\* of the ring and every number of threads.
THEOREM HistoryFaithfulCorrect == Spec => []HistoryFaithful
  <1>1. IInv => HistoryFaithful
    BY DEF IInv, AnswerOK, CountersOK, HistoryFaithful
  <1> QED
    BY <1>1, Invariance, PTL

\* The answer is to the whole request of a client that does not pause
\* (api_recv_request, api_parse_command), for every size of the buffer and
\* every way in which the request is cut.
THEOREM RequestWholeCorrect == Spec => []RequestWhole
  <1>1. IInv => RequestWhole
    BY DEF IInv
  <1> QED
    BY <1>1, Invariance, PTL
=============================================================================
