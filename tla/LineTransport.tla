--------------------------- MODULE LineTransport ----------------------------
(***************************************************************************)
(* One pool's transport: a connection made and closed by the service       *)
(* thread, which also receives from it, lines sent by any thread, and      *)
(* shutdown requests from any thread.                                      *)
(*                                                                         *)
(* A stream is a sequence of pieces; a line is a run of pieces of which    *)
(* the last carries the newline.  A receive takes up to RecvSize pieces,   *)
(* a send writes a part of a line.  stratum_sock_lock is held for all of a *)
(* send, for a single TLS receive, and for opening and closing.  Over TLS  *)
(* what has been decrypted no longer shows as readable on the socket.      *)
(* The handlers of SIGINT and SIGTERM do not restart system calls: a       *)
(* signal ends a poll, and stratum_poll_socket polls again from the start. *)
(*                                                                         *)
(* A step of a thread that can run takes no time; seconds pass while the   *)
(* thread waits.                                                           *)
(***************************************************************************)
EXTENDS DnsFallback, FiniteSets

CONSTANTS
    Senders,       \* threads that send lines
    None,
    Timeout,       \* of a receive, in seconds
    SendTimeout,   \* of the wait for a writable socket (30)
    RecvSize, STRATUM_MAX_LINE_BYTES,   \* in pieces
    LinePieces,    \* pieces of a line that is sent
    MaxPieces,     \* bound: pieces a pool sends on a connection
    MaxSends, MaxConnects,  \* bounds
    MaxSignals     \* bound: signals that end a poll during a receive

ASSUME TransportAssumption ==
    /\ None \notin Senders
    /\ {Timeout, SendTimeout, RecvSize, STRATUM_MAX_LINE_BYTES, LinePieces} \subseteq Nat \ {0}
    /\ {MaxPieces, MaxSends, MaxConnects, MaxSignals} \subseteq Nat

VARIABLES
    use_tls,
    sock_lock,       \* the sender inside, or None
    handle,          \* sctx->curl: "none", "new", "connecting", "open"
    sock,            \* whether sctx->sock is a socket
    closed,          \* shut down here, or by the pool
    connects,
    \* from the pool
    pool_sent,       \* history: every piece the pool sent on this connection
    inflight,        \* sent and not yet read from the socket
    tls_layer,       \* decrypted and not yet received
    sockbuf,
    delivered,       \* history: the pieces handed to the session
    cuts,            \* history: where in delivered a line ended
    lost,            \* history: a chunk was thrown away with an error
    hole,            \* history: and the session went on nevertheless
    svc,             \* "off", "prepared", "perform", "resolve", "retry",
                     \* "idle", "loop", "try", "poll", "failed"
    left, elapsed,   \* until the deadline, since the start of the receive
    remaining,       \* left, as the head of the loop saw it
    poll_left,       \* until poll gives up
    signals,         \* history: signals since the start of the receive
    contended,       \* history: the receive waited for a sender
    \* to the pool
    sending,         \* pieces of its line the holder of the lock has written
    patience,        \* seconds the holder still waits
    sent_lines,      \* per sender: how many lines were begun
    stream,          \* the pieces written on this connection
    torn             \* history: a send on this connection failed midway

connVars == <<handle, sock, closed, connects>>
inVars   == <<pool_sent, inflight, tls_layer, sockbuf, delivered, cuts, lost, hole>>
recvVars == <<svc, left, elapsed, remaining, poll_left, signals, contended>>
clock    == <<left, elapsed, remaining, poll_left, signals, contended>>
outVars  == <<sock_lock, sending, patience, sent_lines, stream, torn>>
vars     == <<use_tls, aborting, dnsVars, connVars, inVars, recvVars, outVars>>

Piece == [line : Nat, end : BOOLEAN, nul : BOOLEAN]

TypeOK ==
    /\ DnsTypeOK
    /\ use_tls \in BOOLEAN /\ sock_lock \in Senders \cup {None}
    /\ handle \in {"none", "new", "connecting", "open"}
    /\ sock \in BOOLEAN /\ closed \in BOOLEAN /\ connects \in 0 .. MaxConnects
    /\ {pool_sent, inflight, tls_layer, sockbuf} \subseteq Seq(Piece)
    /\ Len(sockbuf) =< STRATUM_MAX_LINE_BYTES
    /\ delivered \in Seq(Piece) /\ cuts \subseteq Nat /\ lost \in BOOLEAN
    /\ hole \in BOOLEAN /\ signals \in 0 .. MaxSignals
    /\ svc \in {"off", "prepared", "perform", "resolve", "retry", "idle", "loop", "try", "poll",
                "failed"}
    /\ {left, remaining, poll_left} \subseteq 0 .. Timeout /\ elapsed \in Nat
    /\ contended \in BOOLEAN
    /\ sending \in 0 .. LinePieces /\ patience \in 0 .. SendTimeout
    /\ sent_lines \in [Senders -> Nat]
    /\ stream \in Seq([by : Senders, line : Nat, part : 1 .. LinePieces])
    /\ torn \in BOOLEAN

HasLine(s) == \E i \in DOMAIN s : s[i].end

-----------------------------------------------------------------------------
(* Connecting and closing. *)

\* Bug: what the last connection left in the buffer stays.
BufferKept == sockbuf

\* stratum_ensure_socket_buffer and stratum_reset_socket_buffer
EmptyBuffer == <<>>

\* stratum_close_transport_locked, with the end of the connection's history.
CloseTransport ==
    /\ handle' = "none" /\ sock' = FALSE /\ closed' = FALSE
    /\ sockbuf' = EmptyBuffer
    /\ pool_sent' = <<>> /\ inflight' = <<>> /\ tls_layer' = <<>> /\ delivered' = <<>>
    /\ cuts' = {} /\ lost' = FALSE /\ hole' = FALSE /\ stream' = <<>> /\ torn' = FALSE
    /\ svc' = "off" /\ left' = 0 /\ elapsed' = 0 /\ remaining' = 0 /\ poll_left' = 0
    /\ signals' = 0 /\ contended' = FALSE
    /\ UNCHANGED <<use_tls, aborting, connects, sock_lock, sending, patience, sent_lines>>

\* Under the lock: a new handle and an empty buffer.
stratum_prepare_transport ==
    /\ svc = "off" /\ sock_lock = None /\ connects < MaxConnects
    /\ connects' = connects + 1
    /\ handle' = "new" /\ sockbuf' = EmptyBuffer
    /\ svc' = "prepared"
    /\ UNCHANGED <<use_tls, aborting, dnsVars, sock, closed, pool_sent, inflight, tls_layer,
                   delivered, cuts, lost, hole, clock, outVars>>

\* An URL without scheme, or TLS without support for it.
CannotConnect ==
    /\ svc = "prepared" /\ sock_lock = None
    /\ CloseTransport
    /\ UNCHANGED dnsVars

\* curl_easy_perform runs without the lock; its callback stores the socket.
Perform(from) ==
    /\ svc = from /\ ~sock
    /\ handle' = "connecting" /\ sock' = TRUE
    /\ svc' = "perform"
    /\ UNCHANGED <<use_tls, aborting, dnsVars, closed, connects, inVars, clock, outVars>>

Connected ==
    /\ svc = "perform" /\ ~closed
    /\ handle' = "open" /\ svc' = "idle"
    /\ UNCHANGED <<use_tls, aborting, dnsVars, sock, closed, connects, inVars, clock,
                   outVars>>

PerformFails ==
    /\ svc = "perform" /\ sock_lock = None
    /\ CloseTransport
    /\ UNCHANGED dnsVars

\* A name that the platform cannot resolve: no socket was opened.
ResolveFails ==
    /\ svc = "prepared"
    /\ svc' = "resolve"
    /\ dns_fallback_resolve
    /\ UNCHANGED <<use_tls, aborting, connVars, inVars, clock, outVars>>

ResolveStep ==
    /\ svc = "resolve" /\ dns_query_servers
    /\ UNCHANGED <<use_tls, aborting, connVars, inVars, recvVars, outVars>>

\* stratum_retry_with_dns_fallback: once more with the addresses, if any.
ResolveDone ==
    /\ svc = "resolve" /\ dns = "done"
    /\ dns' = "idle" /\ ips' = <<>> /\ dns_now' = 0 /\ tcp_used' = FALSE
    /\ UNCHANGED <<qtype, server>>
    /\ IF Len(ips) > 0
       THEN /\ svc' = "retry"
            /\ UNCHANGED <<use_tls, aborting, connVars, inVars, clock, outVars>>
       ELSE sock_lock = None /\ CloseTransport

\* The service thread ends the session, after a failure or on its own.
stratum_close_transport ==
    /\ svc \in {"idle", "failed"} /\ sock_lock = None
    /\ CloseTransport
    /\ UNCHANGED dnsVars

stratum_connect ==
    \/ stratum_prepare_transport \/ CannotConnect \/ Perform("prepared") \/ Perform("retry")
    \/ Connected \/ PerformFails \/ ResolveFails \/ ResolveStep \/ ResolveDone

\* Any thread; nothing happens before curl has stored the socket.
stratum_request_shutdown ==
    /\ sock_lock = None /\ sock /\ ~closed
    /\ closed' = TRUE
    /\ UNCHANGED <<use_tls, aborting, dnsVars, handle, sock, connects, inVars, recvVars,
                   outVars>>

miner_request_abort ==
    /\ svc = "resolve" /\ ~aborting   \* only the resolver looks at it
    /\ aborting' = TRUE
    /\ UNCHANGED <<use_tls, dnsVars, connVars, inVars, recvVars, outVars>>

-----------------------------------------------------------------------------
(* The pool's side. *)

PoolPiece ==
    \E end, nul \in BOOLEAN :   \* a NUL spoils the line it is in
        LET line == Cardinality({i \in DOMAIN pool_sent : pool_sent[i].end})
            p    == [line |-> line, end |-> end, nul |-> nul]
        IN  /\ ~(end /\ nul)
            /\ handle = "open" /\ ~closed /\ Len(pool_sent) < MaxPieces
            /\ pool_sent' = pool_sent \o <<p>>
            /\ inflight' = inflight \o <<p>>
            /\ UNCHANGED <<use_tls, aborting, dnsVars, connVars, tls_layer, sockbuf, delivered,
                           cuts, lost, hole, recvVars, outVars>>

-----------------------------------------------------------------------------
(* Receiving a line. *)

\* A complete line is in the buffer: hand it out and keep the rest.
stratum_take_buffer_line(buffer) ==
    LET n == CHOOSE i \in DOMAIN buffer :
                 buffer[i].end /\ \A j \in 1 .. i - 1 : ~buffer[j].end
    IN  /\ delivered' = delivered \o SubSeq(buffer, 1, n)
        /\ cuts' = cuts \cup {Len(delivered) + n}
        /\ sockbuf' = SubSeq(buffer, n + 1, Len(buffer))
        /\ svc' = "idle"

RecvStart ==
    /\ svc = "idle"
    /\ left' = Timeout /\ elapsed' = 0 /\ remaining' = 0 /\ poll_left' = 0 /\ signals' = 0
    /\ contended' = FALSE
    /\ IF HasLine(sockbuf)
       THEN stratum_take_buffer_line(sockbuf)
       ELSE svc' = "loop" /\ UNCHANGED <<delivered, cuts, sockbuf>>
    /\ UNCHANGED <<use_tls, aborting, dnsVars, connVars, pool_sent, inflight, tls_layer, lost,
                   hole, outVars>>

\* poll reports the socket readable
Readable == inflight # <<>> \/ closed

\* Bug: TLS, too, waits for the socket first.
PollFirstAlways == TRUE

\* A plain socket is polled and then read, TLS is read and then polled.
PollFirst == ~use_tls

\* The head of the loop.  After a time-out what was received stays.
LoopHead ==
    /\ svc = "loop"
    /\ IF left = 0 THEN svc' = "idle" /\ UNCHANGED <<remaining, poll_left>>
                   ELSE /\ svc' = IF PollFirst THEN "poll" ELSE "try"
                        /\ remaining' = left /\ poll_left' = left
    /\ UNCHANGED <<use_tls, aborting, dnsVars, connVars, inVars, left, elapsed, signals,
                   contended, outVars>>

\* poll returns: the socket is readable, or it waited as long as it was told.
PollWakes ==
    /\ svc = "poll" /\ (Readable \/ poll_left = 0)
    /\ svc' = IF ~Readable THEN "idle" ELSE IF PollFirst THEN "try" ELSE "loop"
    /\ UNCHANGED <<use_tls, aborting, dnsVars, connVars, inVars, clock, outVars>>

\* stratum_poll_socket after EINTR: a signal came to a thread that polls, the
\* receiver or the sender that holds the lock, and poll is called again with
\* the same time-out.  The handler asks the program to stop.
Interrupted ==
    /\ signals < MaxSignals
    /\ signals' = signals + 1
    /\ aborting' = TRUE
    /\ \/ svc = "poll" /\ poll_left' = remaining /\ UNCHANGED patience
       \/ sock_lock # None /\ patience' = SendTimeout /\ UNCHANGED poll_left
    /\ UNCHANGED <<use_tls, dnsVars, connVars, inVars, svc, left, elapsed, remaining, contended,
                   sock_lock, sending, sent_lines, stream, torn>>

\* Bug: every chunk restarts the wait.
LeftRestarted == Timeout

LeftAfterChunk == left

\* stratum_reserve_socket_buffer
TooLong(n) == n > STRATUM_MAX_LINE_BYTES

\* One receive, over TLS under the lock: nothing there (CURLE_AGAIN), the end
\* of the connection, or a chunk, which is appended, or thrown away with an
\* error when it holds a NUL or does not fit.
Chunk ==
    LET pending == IF use_tls THEN tls_layer \o inflight ELSE inflight
        fails   == svc' = "failed" /\ UNCHANGED <<sockbuf, delivered, cuts>>
    IN
    /\ svc = "try"
    /\ use_tls => sock_lock = None
    /\ left' = LeftAfterChunk
    /\ IF pending = <<>>
       THEN /\ IF closed THEN fails
               ELSE /\ svc' = IF PollFirst THEN "loop" ELSE "poll"
                    /\ UNCHANGED <<sockbuf, delivered, cuts>>
            /\ UNCHANGED <<inflight, tls_layer, lost>>
       ELSE \E n \in 1 .. IF Len(pending) < RecvSize THEN Len(pending) ELSE RecvSize :
              LET chunk  == SubSeq(pending, 1, n)
                  rest   == SubSeq(pending, n + 1, Len(pending))
                  buffer == sockbuf \o chunk
              IN  /\ inflight' = IF use_tls THEN <<>> ELSE rest
                  /\ tls_layer' = IF use_tls THEN rest ELSE <<>>
                  /\ IF (\E i \in DOMAIN chunk : chunk[i].nul)
                          \/ TooLong(Len(buffer))
                     THEN fails /\ lost' = TRUE
                     ELSE /\ IF HasLine(buffer)
                             THEN stratum_take_buffer_line(buffer)
                             ELSE /\ svc' = "loop" /\ sockbuf' = buffer
                                  /\ UNCHANGED <<delivered, cuts>>
                          /\ UNCHANGED lost
    /\ UNCHANGED <<use_tls, aborting, dnsVars, connVars, pool_sent, hole, elapsed,
                   remaining, poll_left, signals, contended, outVars>>

\* The wait for the extranonce reply ignores a failed receive and the session
\* goes on with the next one, also when the failure cost it a chunk.
FailureIgnored ==
    /\ svc = "failed"
    /\ svc' = "idle"
    /\ hole' = (hole \/ lost)
    /\ UNCHANGED <<use_tls, aborting, dnsVars, connVars, pool_sent, inflight, tls_layer, sockbuf,
                   delivered, cuts, lost, clock, outVars>>

stratum_recv_line_timeout ==
    RecvStart \/ LoopHead \/ PollWakes \/ Interrupted \/ Chunk \/ FailureIgnored

-----------------------------------------------------------------------------
(* Sending a line. *)

\* Bug: the lock is not taken.
SendUnlocked(t) ==
    /\ sent_lines[t] < MaxSends /\ sock
    /\ sent_lines' = [sent_lines EXCEPT ![t] = @ + 1]
    /\ sock_lock' = t /\ sending' = 0 /\ patience' = SendTimeout
    /\ UNCHANGED <<use_tls, aborting, dnsVars, connVars, inVars, recvVars, stream, torn>>

SendStart(t) ==
    /\ sock_lock = None /\ sent_lines[t] < MaxSends
    /\ sent_lines' = [sent_lines EXCEPT ![t] = @ + 1]
    /\ IF sock /\ (use_tls => handle # "none")
       THEN sock_lock' = t /\ sending' = 0 /\ patience' = SendTimeout
       ELSE UNCHANGED <<sock_lock, sending, patience>>   \* fails at once
    /\ UNCHANGED <<use_tls, aborting, dnsVars, connVars, inVars, recvVars, stream, torn>>

\* The socket takes a part of what is left of the line.
SendSome(t) ==
    /\ sock_lock = t /\ ~closed /\ handle = "open"
    /\ \E n \in 1 .. LinePieces - sending :
         /\ stream' = stream \o [i \in 1 .. n |->
                          [by |-> t, line |-> sent_lines[t], part |-> sending + i]]
         /\ IF sending + n = LinePieces
            THEN sock_lock' = None /\ sending' = 0 /\ patience' = 0
            ELSE sending' = sending + n /\ patience' = SendTimeout /\ UNCHANGED sock_lock
    /\ UNCHANGED <<use_tls, aborting, dnsVars, connVars, inVars, recvVars, sent_lines, torn>>

\* An error of the socket, or nothing could be written for SendTimeout.
SendFails(t) ==
    /\ sock_lock = t
    /\ sock_lock' = None /\ sending' = 0 /\ patience' = 0
    /\ torn' = (torn \/ sending > 0)
    /\ UNCHANGED <<use_tls, aborting, dnsVars, connVars, inVars, recvVars, sent_lines, stream>>

send_line(t) == SendStart(t) \/ SendSome(t) \/ SendFails(t)

-----------------------------------------------------------------------------
\* A second passes while the receiver waits for the socket or, over TLS, for
\* a sender that holds the lock.
LockWait == svc = "try" /\ use_tls /\ sock_lock # None

Tick ==
    LET less(n) == IF n > 0 THEN n - 1 ELSE 0 IN
    /\ LockWait \/ (svc = "poll" /\ ~Readable /\ poll_left > 0)
    /\ sock_lock # None => patience > 0
    /\ elapsed' = elapsed + 1
    /\ left' = less(left) /\ patience' = less(patience)
    /\ poll_left' = IF LockWait THEN poll_left ELSE poll_left - 1
    /\ contended' = (contended \/ LockWait)
    /\ UNCHANGED <<use_tls, aborting, dnsVars, connVars, inVars, svc, remaining, signals,
                   sock_lock, sending, sent_lines, stream, torn>>

Init ==
    /\ use_tls \in BOOLEAN /\ aborting = FALSE /\ DnsInit
    /\ sock_lock = None /\ handle = "none" /\ sock = FALSE /\ closed = FALSE /\ connects = 0
    /\ pool_sent = <<>> /\ inflight = <<>> /\ tls_layer = <<>> /\ sockbuf = <<>>
    /\ delivered = <<>> /\ cuts = {} /\ lost = FALSE /\ hole = FALSE
    /\ svc = "off" /\ left = 0 /\ elapsed = 0 /\ remaining = 0 /\ poll_left = 0
    /\ signals = 0 /\ contended = FALSE
    /\ sending = 0 /\ patience = 0 /\ sent_lines = [t \in Senders |-> 0]
    /\ stream = <<>> /\ torn = FALSE

Next ==
    \/ stratum_connect \/ stratum_close_transport \/ stratum_request_shutdown
    \/ miner_request_abort \/ PoolPiece \/ stratum_recv_line_timeout \/ Tick
    \/ \E t \in Senders : send_line(t)

Spec == Init /\ [][Next]_vars

-----------------------------------------------------------------------------
(* Properties. *)

\* Every piece the pool sent on this connection is delivered once and in
\* order, or waits to be, and what is delivered is one whole line at a time:
\* across time-outs with half a line in the buffer, chunks with several lines,
\* TLS records and reconnects.  The one exception is a chunk that is thrown
\* away, because it holds a NUL or the line is too long: the connection is then
\* not used again, unless the wait for the extranonce reply ignored the error
\* and the session went on with a hole.
LinesIntact ==
    /\ handle = "open" /\ ~lost =>
          delivered \o sockbuf \o tls_layer \o inflight = pool_sent
    /\ lost => svc = "failed" \/ hole
    /\ \A i \in DOMAIN delivered : delivered[i].end <=> i \in cuts
    /\ delivered # <<>> => Len(delivered) \in cuts

\* What the pool reads are whole lines, one after the other, whatever threads
\* sent them, until a send fails midway.
WholeLinesOut ==
    ~torn => \A i \in DOMAIN stream :
        /\ stream[i].part > 1 =>
              i > 1 /\ stream[i - 1] = [stream[i] EXCEPT !.part = @ - 1]
        /\ (i < Len(stream) /\ stream[i].part < LinePieces) => stream[i + 1].by = stream[i].by

\* A receive on a plain socket is over by its deadline however the bytes
\* trickle in, and every signal that ends a poll puts it off by at most one
\* time-out.
RecvOnTime == ~use_tls => elapsed =< Timeout * (1 + signals)

\* A receive never times out with a complete line already read from the
\* socket, the bytes inside the TLS layer included, unless a sender kept it
\* from receiving.
TimeoutIsSilence ==
    [][(svc \in {"loop", "poll"} /\ svc' = "idle" /\ delivered' = delivered)
          => contended \/ ~HasLine(sockbuf \o tls_layer)]_vars
=============================================================================
