------------------------ MODULE LineTransportProofs -------------------------
(***************************************************************************)
(* The framing of lines in both directions, the deadline of a receive and  *)
(* the budget of the resolver, for every number of senders, every size of  *)
(* a line, of a receive and of the buffer, every time-out and any number   *)
(* of lines, connections and signals.                                      *)
(***************************************************************************)
EXTENDS LineTransport, FiniteSetTheorems, SequenceTheorems, WellFoundedInduction,
        NaturalsInduction, TLAPS

-----------------------------------------------------------------------------
(* The inductive invariant. *)

\* An exchange over TCP follows one over UDP with the same server.
WalkOK ==
    /\ dns = "tcp" => server =< num_servers
    /\ WalkBounded

\* The service thread is past the connection exactly when the handle is open.
Receiving == {"idle", "loop", "try", "poll", "failed"}

OpenOK == svc \in Receiving <=> handle = "open"

\* Nothing of an earlier connection is left; bytes are inside the TLS layer
\* only over TLS.
NothingKept ==
    /\ handle # "open" =>
          /\ pool_sent = <<>> /\ inflight = <<>> /\ tls_layer = <<>> /\ sockbuf = <<>>
          /\ delivered = <<>> /\ cuts = {}
    /\ ~use_tls => tls_layer = <<>>

CutsOK == cuts \subseteq 1 .. Len(delivered)

\* The deadline of a receive, put off by every signal.
PutOff == Timeout * (1 + signals)

\* What is left is what is left until the deadline; on a plain socket poll
\* gives up by then, or a signal put it off.
DeadlineOK ==
    /\ left > 0 => elapsed + left =< Timeout
    /\ ~use_tls => elapsed =< PutOff
    /\ ~use_tls /\ svc = "poll" => elapsed + poll_left =< PutOff

\* No complete line waits while the receive waits; a receive only waits for
\* the socket, or runs out of time, with an empty TLS layer.
SilenceOK ==
    /\ svc \in {"loop", "try", "poll"} => ~HasLine(sockbuf)
    /\ svc = "poll" => tls_layer = <<>>
    /\ svc = "loop" /\ left = 0 /\ ~contended => tls_layer = <<>>
    /\ use_tls /\ svc = "try" /\ ~contended => left > 0

\* The last piece in the stream is the holder's last piece, or the end of a
\* line.
TailOK ==
    /\ sock_lock = None => sending = 0
    /\ sending < LinePieces
    /\ ~torn => IF sending > 0
                THEN /\ Len(stream) > 0
                     /\ stream[Len(stream)] = [by |-> sock_lock, line |-> sent_lines[sock_lock],
                                               part |-> sending]
                ELSE stream # <<>> => stream[Len(stream)].part = LinePieces

IInv ==
    /\ TypeOK /\ WalkOK /\ OpenOK /\ NothingKept /\ CutsOK /\ LinesIntact
    /\ DeadlineOK /\ SilenceOK /\ TailOK /\ WholeLinesOut

-----------------------------------------------------------------------------
(* The resolver. *)

\* What the resolver keeps has its type, flag by flag and value by value.
Answers == {"A", "AAAA", "literal"} \X (0 .. num_servers)

DnsPlace ==
    /\ dns \in {"idle", "query", "tcp", "done"}
    /\ qtype \in {"A", "AAAA"} /\ server \in 1 .. num_servers + 1

DnsAnswers == ips \in Seq(Answers) /\ Len(ips) =< max_ips

LEMMA DnsSplit ==
    /\ DnsTypeOK <=> (aborting \in BOOLEAN /\ DnsPlace /\ dns_now \in Nat
                       /\ tcp_used \in BOOLEAN /\ DnsAnswers)
    /\ DnsTypeOK' <=> (aborting' \in BOOLEAN /\ DnsPlace' /\ dns_now' \in Nat
                        /\ tcp_used' \in BOOLEAN /\ DnsAnswers')
  BY Zenon DEF DnsTypeOK, DnsPlace, DnsAnswers, Answers

\* An exchange never gets more than what is left of the budget, rounded up.
LEMMA OpTimeout ==
    ASSUME dns_now \in Nat
    PROVE  /\ dns_op_timeout \in Nat
           /\ dns_op_timeout > 0 => dns_now + dns_op_timeout =< DNS_TOTAL_BUDGET_SEC + 1
  BY DnsAssumption DEF dns_op_timeout, dns_budget_remaining

\* The records of an answer are appended within the room there is.
LEMMA RecordsFit ==
    ASSUME DnsPlace, DnsAnswers, server =< num_servers,
           NEW answer, NEW n \in Records(answer)
    PROVE  /\ WithRecords(n) \in Seq(Answers)
           /\ Len(WithRecords(n)) =< max_ips
  <1>1. n \in Nat /\ n =< max_ips - Len(ips)
    BY DnsAssumption DEF Records, DnsAnswers
  <1> DEFINE r == [i \in 1 .. n |-> <<qtype, server>>]
  <1>2. <<qtype, server>> \in Answers
    BY DnsAssumption DEF DnsPlace, Answers
  <1>3. r \in Seq(Answers) /\ Len(r) = n
    BY <1>1, <1>2
  <1>4. WithRecords(n) = ips \o r
    BY DEF WithRecords
  <1> HIDE DEF r
  <1>5. ips \o r \in Seq(Answers) /\ Len(ips \o r) = Len(ips) + n
    BY <1>3, ConcatProperties DEF DnsAnswers
  <1> QED
    BY <1>1, <1>4, <1>5, LenProperties, DnsAssumption DEF DnsAnswers

\* One step of the resolver, or of what starts and ends it.
DnsStep ==
    \/ dns_fallback_resolve \/ dns_query_servers
    \/ /\ dns' = "idle" /\ ips' = <<>> /\ dns_now' = 0 /\ tcp_used' = FALSE
       /\ UNCHANGED <<qtype, server>>

LEMMA AnswerStep ==
    ASSUME DnsPlace, DnsAnswers, server =< num_servers,
           NEW answer, NEW n \in Records(answer), AfterAnswer(answer, n)
    PROVE  DnsPlace' /\ DnsAnswers' /\ dns' # "tcp"
  <1>1. DnsAnswers'
    BY RecordsFit DEF AfterAnswer, DnsAnswers
  <1>2. DnsPlace' /\ dns' # "tcp"
    BY DnsAssumption DEF AfterAnswer, DnsPlace, QueryReturns
  <1> QED
    BY <1>1, <1>2

\* The types of the resolver and its budget survive each of its steps.
LEMMA DnsPreserved ==
    ASSUME DnsTypeOK, WalkOK, DnsStep, aborting' = aborting
    PROVE  DnsTypeOK' /\ WalkOK'
  <1> SUFFICES DnsPlace' /\ DnsAnswers' /\ dns_now' \in Nat /\ tcp_used' \in BOOLEAN /\ WalkOK'
    BY DnsSplit
  <1>0. DnsPlace /\ DnsAnswers /\ dns_now \in Nat /\ tcp_used \in BOOLEAN
    BY DnsSplit
  <1>1. CASE dns_fallback_resolve
    <2>1. dns' \in {"query", "done"} /\ qtype' = "A" /\ server' = 1 /\ dns_now' = 0
      BY <1>1 DEF dns_fallback_resolve
    <2>4. DnsPlace' /\ dns_now' \in Nat
      BY <2>1, DnsAssumption DEF DnsPlace
    <2>5. tcp_used' \in BOOLEAN
      BY <1>1 DEF dns_fallback_resolve
    <2>2. DnsAnswers'
      <3>1. ips' = <<>> \/ ips' = <<<<"literal", 0>>>>
        BY <1>1 DEF dns_fallback_resolve
      <3>2. <<"literal", 0>> \in Answers
        BY DnsAssumption DEF Answers
      <3>3. \A e \in Answers : <<e>> \in Seq(Answers) /\ Len(<<e>>) = 1
        OBVIOUS
      <3>4. <<>> \in Seq(Answers) /\ Len(<<>>) = 0
        OBVIOUS
      <3>5. ips' \in Seq(Answers) /\ Len(ips') \in {0, 1}
        BY <3>1, <3>2, <3>3, <3>4, Zenon
      <3> QED
        BY <3>5, DnsAssumption DEF DnsAnswers
    <2>3. WalkOK'
      BY <1>0, <1>1, DnsAssumption DEF dns_fallback_resolve, WalkOK, WalkBounded
    <2> QED
      BY <2>2, <2>3, <2>4, <2>5
  <1>2. CASE QueryEnds
    <2>1. DnsPlace' /\ dns_now' \in Nat /\ dns' # "tcp"
      BY <1>0, <1>2, DnsAssumption DEF QueryEnds, QueryReturns, DnsPlace
    <2>2. DnsAnswers' /\ tcp_used' \in BOOLEAN
      BY <1>0, <1>2 DEF QueryEnds, DnsAnswers
    <2>3. WalkOK'
      BY <1>0, <1>2, <2>1 DEF QueryEnds, WalkOK, WalkBounded
    <2> QED
      BY <2>1, <2>2, <2>3
  <1>3. CASE dns_exchange_udp
    <2>1. DnsPlace' /\ DnsAnswers' /\ (dns' = "tcp" => server' =< num_servers)
      <3>1. CASE dns' = "tcp" /\ UNCHANGED <<qtype, server, ips>>
        BY <1>0, <1>3, <3>1 DEF dns_exchange_udp, DnsPlace, DnsAnswers
      <3>2. CASE \E answer \in {"none", "found", "malformed"} : \E n \in Records(answer) :
                     AfterAnswer(answer, n)
        BY <1>0, <1>3, <3>2, AnswerStep DEF dns_exchange_udp
      <3> QED
        BY <1>0, <1>3, <3>1, <3>2 DEF dns_exchange_udp
    <2>2. dns_now' \in Nat /\ dns_now' =< DNS_TOTAL_BUDGET_SEC + 1
      <3>1. dns_budget_remaining > 0
        BY <1>0, <1>3 DEF dns_exchange_udp
      <3>2. dns_op_timeout > 0
        BY <1>0, <3>1, DnsAssumption DEF dns_op_timeout
      <3>3. PICK d \in 0 .. dns_op_timeout : dns_now' = dns_now + d
        BY <1>0, <1>3 DEF dns_exchange_udp
      <3> QED
        BY <1>0, <3>2, <3>3, OpTimeout, DnsAssumption
    <2>3. tcp_used' \in BOOLEAN
      BY <1>0, <1>3 DEF dns_exchange_udp
    <2>4. WalkBounded'
      BY <2>2 DEF WalkBounded
    <2> QED
      BY <2>1, <2>2, <2>3, <2>4 DEF WalkOK
  <1>4. CASE dns_exchange_tcp
    <2>1. DnsPlace' /\ DnsAnswers' /\ dns' # "tcp"
      BY <1>0, <1>4, AnswerStep DEF dns_exchange_tcp, WalkOK
    <2>2. dns_now' \in Nat
      <3>1. TcpOps * dns_op_timeout \in Nat
        <4>1. \A a, b \in Nat : a * b \in Nat
          OBVIOUS
        <4> QED
          BY <1>0, <4>1, OpTimeout, DnsAssumption
      <3>2. PICK d \in 0 .. TcpOps * dns_op_timeout : dns_now' = dns_now + d
        BY <1>0, <1>4 DEF dns_exchange_tcp
      <3> QED
        BY <1>0, <3>1, <3>2
    <2>3. tcp_used' = TRUE
      BY <1>0, <1>4 DEF dns_exchange_tcp
    <2> QED
      BY <2>1, <2>2, <2>3 DEF WalkOK, WalkBounded
  <1>5. CASE /\ dns' = "idle" /\ ips' = <<>> /\ dns_now' = 0 /\ tcp_used' = FALSE
             /\ UNCHANGED <<qtype, server>>
    <2>1. DnsPlace' /\ dns_now' \in Nat /\ tcp_used' \in BOOLEAN
      BY <1>0, <1>5 DEF DnsPlace
    <2>2. DnsAnswers'
      BY <1>0, <1>5, DnsAssumption DEF DnsAnswers
    <2>3. WalkOK'
      BY <1>0, <1>5, DnsAssumption DEF WalkOK, WalkBounded
    <2> QED
      BY <2>1, <2>2, <2>3
  <1> QED
    BY <1>0, <1>1, <1>2, <1>3, <1>4, <1>5 DEF DnsStep, dns_query_servers

-----------------------------------------------------------------------------
(* What a step of each kind leaves alone. *)

LEMMA TransportFacts ==
    /\ None \notin Senders
    /\ Timeout \in Nat \ {0} /\ SendTimeout \in Nat \ {0} /\ RecvSize \in Nat \ {0}
    /\ STRATUM_MAX_LINE_BYTES \in Nat \ {0} /\ LinePieces \in Nat \ {0}
    /\ MaxPieces \in Nat /\ MaxSends \in Nat /\ MaxConnects \in Nat /\ MaxSignals \in Nat
  BY TransportAssumption

\* Every action that closes the connection does so under the lock and does
\* nothing else but end the resolver.
Closing == CloseTransport /\ sock_lock = None

Sending == \E t \in Senders : send_line(t)

\* The resolver is worked on by the service thread alone, between two uses of
\* the connection.
LEMMA DnsFrame ==
    ASSUME Next
    PROVE  \/ DnsStep /\ aborting' = aborting
           \/ UNCHANGED dnsVars /\ (aborting' = aborting \/ aborting' = TRUE)
  <1>1. CASE stratum_connect
    <2>1. CASE ResolveFails \/ ResolveStep
      BY <2>1 DEF ResolveFails, ResolveStep, DnsStep
    <2>2. CASE ResolveDone
      BY <2>2 DEF ResolveDone, DnsStep, CloseTransport
    <2>3. CASE stratum_prepare_transport \/ Perform("prepared") \/ Perform("retry") \/ Connected
      BY <2>3 DEF stratum_prepare_transport, Perform, Connected
    <2>4. CASE CannotConnect \/ PerformFails
      BY <2>4 DEF CannotConnect, PerformFails, CloseTransport
    <2> QED
      BY <1>1, <2>1, <2>2, <2>3, <2>4 DEF stratum_connect
  <1>2. CASE stratum_close_transport \/ stratum_request_shutdown \/ miner_request_abort
    BY <1>2 DEF stratum_close_transport, stratum_request_shutdown, miner_request_abort,
                CloseTransport
  <1>3. CASE PoolPiece \/ Tick
    BY <1>3 DEF PoolPiece, Tick
  <1>4. CASE stratum_recv_line_timeout
    BY <1>4 DEF stratum_recv_line_timeout, RecvStart, LoopHead, PollWakes, Interrupted, Chunk,
                FailureIgnored
  <1>5. CASE Sending
    BY <1>5 DEF Sending, send_line, SendStart, SendSome, SendFails
  <1> QED
    BY <1>1, <1>2, <1>3, <1>4, <1>5 DEF Next, Sending

\* What the pool sent is touched by opening, closing, the pool and a receive.
LEMMA LinesFrame ==
    ASSUME Next
    PROVE  /\ use_tls' = use_tls
           /\ \/ UNCHANGED <<handle, inVars>> \/ FailureIgnored
              \/ Closing \/ stratum_prepare_transport \/ Perform("prepared")
              \/ Perform("retry") \/ Connected \/ PoolPiece \/ RecvStart \/ Chunk
  <1>1. CASE stratum_connect
    <2>1. CASE ResolveFails \/ ResolveStep
      BY <2>1 DEF ResolveFails, ResolveStep, connVars
    <2>2. CASE ResolveDone
      BY <2>2 DEF ResolveDone, CloseTransport, Closing, connVars
    <2>3. CASE stratum_prepare_transport \/ Perform("prepared") \/ Perform("retry") \/ Connected
      BY <2>3 DEF stratum_prepare_transport, Perform, Connected
    <2>4. CASE CannotConnect \/ PerformFails
      BY <2>4 DEF CannotConnect, PerformFails, CloseTransport, Closing
    <2> QED
      BY <1>1, <2>1, <2>2, <2>3, <2>4 DEF stratum_connect
  <1>2. CASE stratum_close_transport \/ stratum_request_shutdown \/ miner_request_abort
    BY <1>2 DEF stratum_close_transport, stratum_request_shutdown, miner_request_abort,
                CloseTransport, Closing, connVars
  <1>3. CASE PoolPiece \/ Tick
    BY <1>3 DEF PoolPiece, Tick, connVars
  <1>4. CASE stratum_recv_line_timeout
    BY <1>4 DEF stratum_recv_line_timeout, RecvStart, LoopHead, PollWakes, Interrupted, Chunk,
                FailureIgnored, connVars, inVars
  <1>5. CASE Sending
    BY <1>5 DEF Sending, send_line, SendStart, SendSome, SendFails, connVars
  <1> QED
    BY <1>1, <1>2, <1>3, <1>4, <1>5 DEF Next, Sending

\* The streams of the lines that are sent are touched by closing and the
\* senders.
LEMMA StreamFrame ==
    ASSUME Next
    PROVE  \/ UNCHANGED <<sock_lock, sending, sent_lines, stream, torn>>
           \/ Closing \/ Sending
  <1>1. CASE stratum_connect
    <2>1. CASE ResolveFails \/ ResolveStep
      BY <2>1 DEF ResolveFails, ResolveStep, outVars
    <2>2. CASE ResolveDone
      BY <2>2 DEF ResolveDone, CloseTransport, Closing, outVars
    <2>3. CASE stratum_prepare_transport \/ Perform("prepared") \/ Perform("retry") \/ Connected
      BY <2>3 DEF stratum_prepare_transport, Perform, Connected, outVars
    <2>4. CASE CannotConnect \/ PerformFails
      BY <2>4 DEF CannotConnect, PerformFails, CloseTransport, Closing
    <2> QED
      BY <1>1, <2>1, <2>2, <2>3, <2>4 DEF stratum_connect
  <1>2. CASE stratum_close_transport \/ stratum_request_shutdown \/ miner_request_abort
    BY <1>2 DEF stratum_close_transport, stratum_request_shutdown, miner_request_abort,
                CloseTransport, Closing, outVars
  <1>3. CASE PoolPiece \/ Tick
    BY <1>3 DEF PoolPiece, Tick, outVars
  <1>4. CASE stratum_recv_line_timeout
    BY <1>4 DEF stratum_recv_line_timeout, RecvStart, LoopHead, PollWakes, Interrupted, Chunk,
                FailureIgnored, outVars
  <1> QED
    BY <1>1, <1>2, <1>3, <1>4 DEF Next, Sending

-----------------------------------------------------------------------------
(* Types, part by part. *)

Out == [by : Senders, line : Nat, part : 1 .. LinePieces]

FlagsOK ==
    /\ use_tls \in BOOLEAN /\ sock \in BOOLEAN /\ closed \in BOOLEAN /\ lost \in BOOLEAN
    /\ hole \in BOOLEAN /\ contended \in BOOLEAN /\ torn \in BOOLEAN

PlaceOK ==
    /\ handle \in {"none", "new", "connecting", "open"} /\ connects \in 0 .. MaxConnects
    /\ svc \in {"off", "prepared", "perform", "resolve", "retry", "idle", "loop", "try", "poll",
                "failed"}

ClockOK ==
    /\ left \in 0 .. Timeout /\ remaining \in 0 .. Timeout /\ poll_left \in 0 .. Timeout
    /\ elapsed \in Nat /\ signals \in 0 .. MaxSignals

InOK ==
    /\ pool_sent \in Seq(Piece) /\ inflight \in Seq(Piece) /\ tls_layer \in Seq(Piece)
    /\ sockbuf \in Seq(Piece) /\ delivered \in Seq(Piece)
    /\ Len(sockbuf) =< STRATUM_MAX_LINE_BYTES

OutOK ==
    /\ sock_lock \in Senders \cup {None} /\ sending \in 0 .. LinePieces
    /\ sent_lines \in [Senders -> Nat] /\ stream \in Seq(Out)

LEMMA TypeSplit ==
    TypeOK <=> DnsTypeOK /\ FlagsOK /\ PlaceOK /\ ClockOK /\ InOK /\ OutOK
               /\ patience \in 0 .. SendTimeout /\ cuts \subseteq Nat
  BY Zenon DEF TypeOK, FlagsOK, PlaceOK, ClockOK, InOK, OutOK, Out

LEMMA TypeSplitNext ==
    TypeOK' <=> /\ DnsTypeOK' /\ FlagsOK' /\ PlaceOK' /\ ClockOK' /\ InOK' /\ OutOK'
                /\ patience' \in 0 .. SendTimeout /\ cuts' \subseteq Nat
  BY Zenon DEF TypeOK, FlagsOK, PlaceOK, ClockOK, InOK, OutOK, Out

-----------------------------------------------------------------------------
(* What the pool reads. *)

\* The part of a line that one write of a sender puts on the stream.
LEMMA WrittenPart ==
    ASSUME NEW t \in Senders, OutOK, NEW n \in 1 .. LinePieces - sending,
           NEW s, s = [i \in 1 .. n |-> [by |-> t, line |-> sent_lines[t], part |-> sending + i]]
    PROVE  /\ s \in Seq(Out) /\ Len(s) = n
           /\ \A i \in 1 .. n : s[i] = [by |-> t, line |-> sent_lines[t], part |-> sending + i]
  <1>1. n \in Nat /\ sending \in Nat /\ sending + n =< LinePieces /\ sent_lines[t] \in Nat
    BY TransportFacts DEF OutOK
  <1>2. \A i \in 1 .. n : [by |-> t, line |-> sent_lines[t], part |-> sending + i] \in Out
    BY <1>1, TransportFacts DEF Out
  <1>3. s \in [1 .. n -> Out]
    BY <1>2
  <1>4. s \in Seq(Out)
    BY <1>1, <1>3, SeqDef
  <1>5. Len(s) = n
    BY <1>1, <1>3, <1>4
  <1> QED
    BY <1>4, <1>5

LEMMA StreamPreserved ==
    ASSUME OutOK, TailOK, WholeLinesOut, FlagsOK, Next
    PROVE  OutOK' /\ TailOK' /\ WholeLinesOut'
  <1>1. CASE UNCHANGED <<sock_lock, sending, sent_lines, stream, torn>>
    BY <1>1 DEF OutOK, TailOK, WholeLinesOut
  <1>2. CASE Closing
    <2>1. /\ stream' = <<>> /\ torn' = FALSE
          /\ UNCHANGED <<sock_lock, sending, sent_lines>> /\ sock_lock = None
      BY <1>2 DEF Closing, CloseTransport
    <2> QED
      BY <2>1 DEF OutOK, TailOK, WholeLinesOut
  <1>3. ASSUME NEW t \in Senders, SendStart(t)
        PROVE  OutOK' /\ TailOK' /\ WholeLinesOut'
    <2>1. /\ sending' = 0 /\ sending = 0 /\ UNCHANGED <<stream, torn>>
          /\ sock_lock' \in Senders \cup {None}
      BY <1>3 DEF SendStart, OutOK, TailOK
    <2>2. sent_lines' \in [Senders -> Nat]
      BY <1>3 DEF SendStart, OutOK
    <2>3. OutOK'
      BY <2>1, <2>2, TransportFacts DEF OutOK
    <2>4. TailOK'
      BY <2>1, TransportFacts DEF TailOK
    <2>5. WholeLinesOut'
      BY <2>1 DEF WholeLinesOut
    <2> QED
      BY <2>3, <2>4, <2>5
  <1>4. ASSUME NEW t \in Senders, SendFails(t)
        PROVE  OutOK' /\ TailOK' /\ WholeLinesOut'
    <2>1. /\ sending' = 0 /\ sock_lock' = None /\ UNCHANGED <<sent_lines, stream>>
      BY <1>4 DEF SendFails
    <2>2. ~torn' => ~torn /\ ~(sending > 0)
      BY <1>4 DEF SendFails
    <2>3. OutOK'
      BY <2>1, TransportFacts DEF OutOK
    <2>4. TailOK'
      BY <2>1, <2>2, TransportFacts DEF TailOK
    <2>5. WholeLinesOut'
      BY <2>1, <2>2 DEF WholeLinesOut
    <2> QED
      BY <2>3, <2>4, <2>5
  <1>5. ASSUME NEW t \in Senders, SendSome(t)
        PROVE  OutOK' /\ TailOK' /\ WholeLinesOut'
    <2>1. PICK n \in 1 .. LinePieces - sending :
              /\ stream' = stream \o [i \in 1 .. n |->
                              [by |-> t, line |-> sent_lines[t], part |-> sending + i]]
              /\ IF sending + n = LinePieces
                 THEN sock_lock' = None /\ sending' = 0
                 ELSE sending' = sending + n /\ sock_lock' = sock_lock
      BY <1>5 DEF SendSome
    <2>2. sock_lock = t /\ UNCHANGED <<sent_lines, torn>>
      BY <1>5 DEF SendSome
    <2>3. n \in Nat \ {0} /\ sending \in Nat /\ sending + n =< LinePieces
      BY TransportFacts DEF OutOK
    <2> DEFINE s == [i \in 1 .. n |-> [by |-> t, line |-> sent_lines[t], part |-> sending + i]]
               k == Len(stream)
    <2>4. /\ s \in Seq(Out) /\ Len(s) = n
          /\ \A i \in 1 .. n : s[i] = [by |-> t, line |-> sent_lines[t], part |-> sending + i]
      BY WrittenPart
    <2>5. stream' = stream \o s
      BY <2>1
    <2> HIDE DEF s
    <2>6. stream \in Seq(Out) /\ k \in Nat /\ DOMAIN stream = 1 .. k
      BY LenProperties DEF OutOK
    <2>7. /\ stream' \in Seq(Out) /\ Len(stream') = k + n
          /\ \A i \in 1 .. k + n : stream'[i] = IF i =< k THEN stream[i] ELSE s[i - k]
      BY <2>4, <2>5, <2>6, ConcatProperties
    <2>8. DOMAIN stream' = 1 .. k + n
      BY <2>7, LenProperties
    <2>9. \A i \in 1 .. k : stream'[i] = stream[i]
      BY <2>3, <2>6, <2>7
    <2>10. \A i \in 1 .. n :
               stream'[k + i] = [by |-> t, line |-> sent_lines[t], part |-> sending + i]
      BY <2>3, <2>4, <2>6, <2>7
    <2>11. \A i \in 1 .. k + n : i =< k \/ (i - k \in 1 .. n /\ k + (i - k) = i)
      BY <2>3, <2>6
    <2> HIDE DEF k
    <2>12. OutOK'
      <3>1. sock_lock' \in Senders \cup {None} /\ sent_lines' \in [Senders -> Nat]
        BY <2>1, <2>2 DEF OutOK
      <3>2. sending' \in 0 .. LinePieces
        BY <2>1, <2>3, TransportFacts
      <3> QED
        BY <2>7, <3>1, <3>2 DEF OutOK
    <2>13. TailOK'
      <3>1. stream'[k + n] = [by |-> t, line |-> sent_lines[t], part |-> sending + n]
        BY <2>3, <2>10
      <3>2. CASE sending + n = LinePieces
        <4>1. stream'[k + n].part = LinePieces
          BY <3>1, <3>2
        <4> QED
          BY <2>1, <2>7, <3>2, <4>1, TransportFacts DEF TailOK
      <3>3. CASE sending + n # LinePieces
        <4>1. sending' = sending + n /\ sock_lock' = t /\ sent_lines' = sent_lines
          BY <2>1, <2>2, <3>3
        <4>2. sending' < LinePieces /\ sending' > 0 /\ Len(stream') > 0
          <5>1. sending' < LinePieces /\ sending' > 0
            BY <2>3, <3>3, <4>1, TransportFacts
          <5>2. Len(stream') > 0
            BY <2>3, <2>6, <2>7
          <5> QED
            BY <5>1, <5>2
        <4>3. stream'[Len(stream')]
                = [by |-> sock_lock', line |-> sent_lines'[sock_lock'], part |-> sending']
          BY <2>7, <3>1, <4>1
        <4> QED
          BY <4>1, <4>2, <4>3, TransportFacts DEF TailOK
      <3> QED
        BY <3>2, <3>3
    <2>14. WholeLinesOut'
      <3> SUFFICES ASSUME ~torn', NEW i \in 1 .. k + n
                   PROVE  /\ stream'[i].part > 1 =>
                                i > 1 /\ stream'[i - 1] = [stream'[i] EXCEPT !.part = @ - 1]
                          /\ (i < k + n /\ stream'[i].part < LinePieces)
                                => stream'[i + 1].by = stream'[i].by
        BY <2>7, <2>8 DEF WholeLinesOut
      <3>1. ~torn
        BY <2>2
      <3>2. \A j \in 1 .. k :
                /\ stream[j].part > 1 =>
                      j > 1 /\ stream[j - 1] = [stream[j] EXCEPT !.part = @ - 1]
                /\ (j < k /\ stream[j].part < LinePieces) => stream[j + 1].by = stream[j].by
        BY <2>6, <3>1 DEF WholeLinesOut, k
      <3>3. IF sending > 0
            THEN k > 0 /\ stream[k] = [by |-> t, line |-> sent_lines[t], part |-> sending]
            ELSE k > 0 => stream[k].part = LinePieces
        <4>1. k > 0 => stream # <<>>
          BY DEF k
        <4> QED
          BY <2>2, <3>1, <4>1 DEF TailOK, k
      <3>4. k \in Nat
        BY <2>6
      <3>5. CASE i < k
        <4>1. stream'[i] = stream[i] /\ stream'[i + 1] = stream[i + 1]
          BY <2>9, <3>4, <3>5
        <4>2. i > 1 => stream'[i - 1] = stream[i - 1]
          BY <2>9, <3>4, <3>5
        <4> QED
          BY <3>2, <3>4, <3>5, <4>1, <4>2
      <3>6. CASE i = k
        <4>1. stream'[i] = stream[i] /\ i \in 1 .. k
          BY <2>9, <3>4, <3>6
        <4>2. i > 1 => stream'[i - 1] = stream[i - 1]
          BY <2>9, <3>4, <3>6
        <4>3. stream'[i + 1] = [by |-> t, line |-> sent_lines[t], part |-> sending + 1]
          BY <2>3, <2>10, <3>4, <3>6
        <4>4. stream[k].part < LinePieces => stream[k].by = t
          <5>1. CASE sending > 0
            BY <3>3, <5>1
          <5>2. CASE ~(sending > 0)
            <6>1. k > 0
              BY <3>4, <3>6
            <6>2. stream[k].part = LinePieces
              BY <3>3, <5>2, <6>1
            <6> QED
              BY <6>2, TransportFacts
          <5> QED
            BY <5>1, <5>2
        <4> QED
          BY <3>2, <3>4, <3>6, <4>1, <4>2, <4>3, <4>4
      <3>7. CASE i = k + 1
        <4>1. stream'[i] = [by |-> t, line |-> sent_lines[t], part |-> sending + 1]
          BY <2>3, <2>10, <3>4, <3>7
        <4>2. i < k + n => stream'[i + 1].by = t
          <5>1. i < k + n => stream'[k + 2] = [by |-> t, line |-> sent_lines[t], part |-> sending + 2]
            BY <2>3, <2>10, <3>4, <3>7
          <5> QED
            BY <3>4, <3>7, <5>1
        <4>3. sending > 0 => /\ i > 1
                             /\ stream'[i - 1] = [by |-> t, line |-> sent_lines[t], part |-> sending]
          BY <2>3, <2>9, <3>3, <3>4, <3>7
        <4>4. stream'[i].part = sending + 1 /\ stream'[i].by = t
          BY <4>1
        <4>5. [stream'[i] EXCEPT !.part = @ - 1]
                = [by |-> t, line |-> sent_lines[t], part |-> sending]
          BY <2>3, <4>1
        <4> QED
          BY <2>3, <4>2, <4>3, <4>4, <4>5
      <3>8. CASE i > k + 1
        <4> DEFINE j == i - k
        <4>1. j \in 2 .. n /\ k + j = i /\ k + (j - 1) = i - 1 /\ k + (j + 1) = i + 1
          BY <2>3, <3>4, <3>8
        <4>2. stream'[i] = [by |-> t, line |-> sent_lines[t], part |-> sending + j]
          BY <2>3, <2>10, <4>1
        <4>3. stream'[i - 1] = [by |-> t, line |-> sent_lines[t], part |-> sending + (j - 1)]
          BY <2>3, <2>10, <4>1
        <4>4. i < k + n => stream'[i + 1].by = t
          <5>1. i < k + n => stream'[i + 1]
                    = [by |-> t, line |-> sent_lines[t], part |-> sending + (j + 1)]
            BY <2>3, <2>10, <3>4, <4>1
          <5> QED
            BY <5>1
        <4>5. [stream'[i] EXCEPT !.part = @ - 1]
                = [by |-> t, line |-> sent_lines[t], part |-> sending + (j - 1)]
          BY <2>3, <4>1, <4>2
        <4> QED
          BY <3>4, <3>8, <4>2, <4>3, <4>4, <4>5
      <3> QED
        BY <2>3, <3>4, <3>5, <3>6, <3>7, <3>8
    <2> QED
      BY <2>12, <2>13, <2>14
  <1> QED
    BY <1>1, <1>2, <1>3, <1>4, <1>5, StreamFrame DEF Sending, send_line

-----------------------------------------------------------------------------
(* Cutting a buffer into lines. *)

\* A set of numbers has a least element.
LEMMA LeastElement ==
    ASSUME NEW S, S \subseteq Nat, S # {}
    PROVE  \E o \in S : \A x \in S : o <= x
  <1> DEFINE R == OpToRel(<, Nat)
  <1>1. IsWellFoundedOn(R, Nat)
    BY NatLessThanWellFounded, Zenon
  <1>2. \A x, y \in Nat : x < y => <<x, y>> \in R
    BY DEF OpToRel
  <1> HIDE DEF R
  <1>3. PICK o \in S : \A x \in S : ~(<<x, o>> \in R)
    BY <1>1, WFMin
  <1>4. ASSUME NEW x \in S PROVE o <= x
    <2>1. x \in Nat /\ o \in Nat
      OBVIOUS
    <2>2. ~(x < o)
      BY <1>2, <1>3, <2>1, Zenon
    <2> QED
      BY <2>1, <2>2
  <1> QED
    BY <1>4

\* The first end of a line in the buffer.
LEMMA FirstLine ==
    ASSUME NEW buffer \in Seq(Piece), HasLine(buffer), NEW n,
           n = CHOOSE i \in DOMAIN buffer :
                   buffer[i].end /\ \A j \in 1 .. i - 1 : ~buffer[j].end
    PROVE  /\ n \in 1 .. Len(buffer) /\ buffer[n].end
           /\ \A j \in 1 .. n - 1 : ~buffer[j].end
  <1> DEFINE ends == {i \in DOMAIN buffer : buffer[i].end}
  <1>1. DOMAIN buffer = 1 .. Len(buffer) /\ Len(buffer) \in Nat
    BY LenProperties
  <1>2. ends \subseteq Nat /\ ends # {}
    BY <1>1 DEF HasLine
  <1>3. PICK o \in ends : \A x \in ends : o <= x
    BY <1>2, LeastElement
  <1>4. \A j \in 1 .. o - 1 : j \in DOMAIN buffer /\ ~(o <= j)
    BY <1>1, <1>3
  <1>5. \A j \in 1 .. o - 1 : ~buffer[j].end
    BY <1>3, <1>4
  <1>6. \E i \in DOMAIN buffer : buffer[i].end /\ \A j \in 1 .. i - 1 : ~buffer[j].end
    BY <1>3, <1>5
  <1> QED
    BY <1>1, <1>6

LEMMA Associative ==
    ASSUME NEW a \in Seq(Piece), NEW b \in Seq(Piece), NEW c \in Seq(Piece)
    PROVE  (a \o b) \o c = a \o (b \o c)
  <1> DEFINE l == (a \o b) \o c
             r == a \o (b \o c)
  <1>1. /\ a \o b \in Seq(Piece) /\ b \o c \in Seq(Piece)
        /\ Len(a \o b) = Len(a) + Len(b) /\ Len(b \o c) = Len(b) + Len(c)
    BY ConcatProperties
  <1>2. l \in Seq(Piece) /\ r \in Seq(Piece)
    BY <1>1, ConcatProperties
  <1>3. Len(l) = Len(r) /\ Len(l) = Len(a) + Len(b) + Len(c)
    BY <1>1
  <1>4. ASSUME NEW i \in 1 .. Len(l) PROVE l[i] = r[i]
    BY <1>1, <1>3
  <1> HIDE DEF l, r
  <1>5. l = r
    BY <1>2, <1>3, <1>4, SeqEqual
  <1> QED
    BY <1>5 DEF l, r

\* A sequence in two parts.
LEMMA TwoParts ==
    ASSUME NEW s \in Seq(Piece), NEW n \in 0 .. Len(s)
    PROVE  /\ SubSeq(s, 1, n) \in Seq(Piece) /\ SubSeq(s, n + 1, Len(s)) \in Seq(Piece)
           /\ Len(SubSeq(s, 1, n)) = n /\ Len(SubSeq(s, n + 1, Len(s))) = Len(s) - n
           /\ SubSeq(s, 1, n) \o SubSeq(s, n + 1, Len(s)) = s
           /\ \A i \in 1 .. n : SubSeq(s, 1, n)[i] = s[i]
  <1>1. Len(s) \in Nat /\ n \in Nat /\ \A i \in 1 .. Len(s) : s[i] \in Piece
    BY LenProperties, ElementOfSeq
  <1>2. /\ SubSeq(s, 1, n) \in Seq(Piece) /\ Len(SubSeq(s, 1, n)) = n
        /\ \A i \in 1 .. n : SubSeq(s, 1, n)[i] = s[i]
    BY <1>1
  <1>3. SubSeq(s, n + 1, Len(s)) \in Seq(Piece) /\ Len(SubSeq(s, n + 1, Len(s))) = Len(s) - n
    BY <1>1
  <1>4. SubSeq(s, 1, n) \o SubSeq(s, n + 1, Len(s)) = SubSeq(s, 1, Len(s))
    <2>1. 1 \in 1 .. Len(s) + 1 /\ n \in 1 - 1 .. Len(s) /\ Len(s) \in n .. Len(s)
      BY <1>1
    <2> QED
      BY <2>1, ConcatAdjacentSubSeq
  <1> QED
    BY <1>2, <1>3, <1>4, SubSeqFull

\* Where the delivered lines end.
CutsMarkEnds ==
    /\ cuts \subseteq 1 .. Len(delivered)
    /\ \A i \in DOMAIN delivered : delivered[i].end <=> i \in cuts

\* Handing out a line moves it, whole, from the front of the buffer to the end
\* of what was delivered.
LEMMA TakeLine ==
    ASSUME delivered \in Seq(Piece), NEW buffer \in Seq(Piece), HasLine(buffer), CutsMarkEnds,
           stratum_take_buffer_line(buffer)
    PROVE  /\ delivered' \in Seq(Piece) /\ sockbuf' \in Seq(Piece)
           /\ Len(sockbuf') =< Len(buffer)
           /\ delivered' \o sockbuf' = delivered \o buffer
           /\ CutsMarkEnds' /\ Len(delivered') \in cuts' /\ cuts' \subseteq Nat
           /\ svc' = "idle"
  <1> DEFINE n == CHOOSE i \in DOMAIN buffer :
                      buffer[i].end /\ \A j \in 1 .. i - 1 : ~buffer[j].end
             k == Len(delivered)
             a == SubSeq(buffer, 1, n)
             b == SubSeq(buffer, n + 1, Len(buffer))
  <1>1. /\ n \in 1 .. Len(buffer) /\ buffer[n].end
        /\ \A j \in 1 .. n - 1 : ~buffer[j].end
    BY FirstLine
  <1>2. /\ delivered' = delivered \o a /\ cuts' = cuts \cup {k + n} /\ sockbuf' = b
        /\ svc' = "idle"
    BY DEF stratum_take_buffer_line
  <1> HIDE DEF n
  <1>3. k \in Nat /\ DOMAIN delivered = 1 .. k /\ Len(buffer) \in Nat /\ n \in Nat \ {0}
        /\ n =< Len(buffer)
    BY <1>1, LenProperties
  <1>4. /\ a \in Seq(Piece) /\ b \in Seq(Piece) /\ Len(a) = n /\ Len(b) = Len(buffer) - n
        /\ a \o b = buffer /\ \A i \in 1 .. n : a[i] = buffer[i]
    <2>1. n \in 0 .. Len(buffer)
      BY <1>3
    <2> QED
      BY <2>1, TwoParts
  <1> HIDE DEF a, b
  <1>5. /\ delivered' \in Seq(Piece) /\ Len(delivered') = k + n
        /\ \A i \in 1 .. k + n : delivered'[i] = IF i =< k THEN delivered[i] ELSE a[i - k]
    BY <1>2, <1>4, ConcatProperties
  <1>6. DOMAIN delivered' = 1 .. k + n
    BY <1>5, LenProperties
  <1>7. delivered' \o sockbuf' = delivered \o buffer
    <2>1. delivered \in Seq(Piece) /\ a \in Seq(Piece) /\ b \in Seq(Piece)
      BY <1>4
    <2>2. (delivered \o a) \o b = delivered \o (a \o b)
      BY <2>1, Associative, Zenon
    <2> QED
      BY <1>2, <1>4, <2>2, Zenon
  <1>8. cuts' \subseteq 1 .. Len(delivered') /\ cuts' \subseteq Nat /\ Len(delivered') \in cuts'
    <2>1. \A x \in cuts : x \in 1 .. k
      BY DEF CutsMarkEnds
    <2>2. \A x \in cuts' : x \in 1 .. k + n
      BY <1>2, <1>3, <2>1
    <2> QED
      BY <1>2, <1>3, <1>5, <2>2
  <1>9. ASSUME NEW i \in 1 .. k + n
        PROVE  delivered'[i].end <=> i \in cuts'
    <2>1. CASE i =< k
      <3>1. delivered'[i] = delivered[i] /\ i \in 1 .. k /\ i # k + n
        BY <1>3, <1>5, <2>1
      <3> QED
        BY <1>2, <1>3, <3>1 DEF CutsMarkEnds
    <2>2. CASE i > k
      <3>1. i - k \in 1 .. n /\ delivered'[i] = buffer[i - k]
        BY <1>3, <1>4, <1>5, <2>2
      <3>2. i \notin cuts
        BY <1>3, <2>2 DEF CutsMarkEnds
      <3>3. CASE i = k + n
        <4>1. delivered'[i].end
          BY <1>1, <1>3, <3>1, <3>3
        <4> QED
          BY <1>2, <3>3, <4>1
      <3>4. CASE i # k + n
        <4>1. i - k \in 1 .. n - 1
          BY <1>3, <2>2, <3>1, <3>4
        <4>2. ~delivered'[i].end
          BY <1>1, <3>1, <4>1
        <4> QED
          BY <1>2, <3>2, <3>4, <4>2
      <3> QED
        BY <3>3, <3>4
    <2> QED
      BY <1>3, <2>1, <2>2
  <1>10. CutsMarkEnds'
    BY <1>6, <1>8, <1>9 DEF CutsMarkEnds
  <1>11. Len(sockbuf') =< Len(buffer)
    BY <1>2, <1>3, <1>4
  <1> QED
    BY <1>2, <1>4, <1>5, <1>7, <1>8, <1>10, <1>11

-----------------------------------------------------------------------------
(* What the session is handed. *)

\* What LinesIntact says while the connection is open and nothing was thrown
\* away, what it says of a chunk that was, and the rest of it.
Kept == delivered \o sockbuf \o tls_layer \o inflight = pool_sent

LossOK == lost => svc = "failed" \/ hole

LEMMA LinesSplit ==
    /\ CutsOK /\ LinesIntact <=>
          /\ handle = "open" /\ ~lost => Kept
          /\ LossOK
          /\ CutsMarkEnds
          /\ delivered # <<>> => Len(delivered) \in cuts
    /\ CutsOK' /\ LinesIntact' <=>
          /\ handle' = "open" /\ ~lost' => Kept'
          /\ LossOK'
          /\ CutsMarkEnds'
          /\ delivered' # <<>> => Len(delivered') \in cuts'
  BY Zenon DEF CutsOK, LinesIntact, CutsMarkEnds, Kept, LossOK

\* A new piece goes to the end.
LEMMA PieceSent ==
    ASSUME InOK, FlagsOK, PoolPiece
    PROVE  /\ pool_sent' \in Seq(Piece) /\ inflight' \in Seq(Piece)
           /\ handle = "open" /\ (Kept => Kept')
           /\ UNCHANGED <<handle, tls_layer, sockbuf, delivered, cuts, lost>>
  <1> DEFINE line == Cardinality({i \in DOMAIN pool_sent : pool_sent[i].end})
             new(end, nul) == [line |-> line, end |-> end, nul |-> nul]
  <1>1. PICK end \in BOOLEAN, nul \in BOOLEAN :
            /\ pool_sent' = pool_sent \o <<new(end, nul)>>
            /\ inflight' = inflight \o <<new(end, nul)>>
            /\ handle = "open"
            /\ UNCHANGED <<handle, tls_layer, sockbuf, delivered, cuts, lost>>
    BY DEF PoolPiece, connVars
  <1>2. line \in Nat
    <2>1. IsFiniteSet(DOMAIN pool_sent)
      BY LenProperties, FS_Interval DEF InOK
    <2> QED
      BY <2>1, FS_Subset, FS_CardinalityType
  <1> HIDE DEF line
  <1> DEFINE p == new(end, nul)
             d == delivered \o sockbuf \o tls_layer
  <1>3. p \in Piece
    BY <1>2 DEF Piece
  <1>4. pool_sent' = pool_sent \o <<p>> /\ inflight' = inflight \o <<p>>
    BY <1>1
  <1> HIDE DEF p
  <1>5. <<p>> \in Seq(Piece)
    BY <1>3
  <1>6. pool_sent' \in Seq(Piece) /\ inflight' \in Seq(Piece)
    BY <1>4, <1>5, ConcatProperties DEF InOK
  <1>7. d \in Seq(Piece)
    <2>1. delivered \o sockbuf \in Seq(Piece)
      BY ConcatProperties DEF InOK
    <2> QED
      BY <2>1, ConcatProperties DEF InOK
  <1>8. (d \o inflight) \o <<p>> = d \o (inflight \o <<p>>)
    <2>1. inflight \in Seq(Piece)
      BY DEF InOK
    <2> HIDE DEF d
    <2> QED
      BY <1>5, <1>7, <2>1, Associative, Zenon
  <1>9. Kept => Kept'
    BY <1>1, <1>4, <1>8, Zenon DEF Kept
  <1> QED
    BY <1>1, <1>6, <1>9

\* One receive that reads a chunk: what is read, and what becomes of it.
LEMMA ChunkRead ==
    ASSUME InOK, FlagsOK, NothingKept, OpenOK, CutsMarkEnds,
           delivered # <<>> => Len(delivered) \in cuts, cuts \subseteq Nat, Chunk
    PROVE  /\ InOK' /\ CutsMarkEnds' /\ cuts' \subseteq Nat
           /\ delivered' # <<>> => Len(delivered') \in cuts'
           /\ handle' = "open" /\ handle = "open"
           /\ ~use_tls => tls_layer' = <<>>
           /\ ~lost' => ~lost /\ (Kept => Kept')
  <1> DEFINE pending == IF use_tls THEN tls_layer \o inflight ELSE inflight
  <1>1. handle = "open" /\ handle' = handle /\ pool_sent' = pool_sent /\ use_tls' = use_tls
    BY DEF Chunk, OpenOK, Receiving, connVars
  <1>2. pending \in Seq(Piece) /\ pending = tls_layer \o inflight
    <2>1. CASE use_tls
      BY <2>1, ConcatProperties DEF InOK
    <2>2. CASE ~use_tls
      BY <2>2, ConcatEmptySeq DEF InOK, NothingKept
    <2> QED
      BY <2>1, <2>2
  <1>3. CASE pending = <<>>
    <2>1. UNCHANGED <<sockbuf, delivered, cuts, inflight, tls_layer, lost>>
      BY <1>3 DEF Chunk
    <2>2. InOK' /\ CutsMarkEnds' /\ cuts' \subseteq Nat
      BY <1>1, <2>1 DEF InOK, CutsMarkEnds
    <2>3. (~use_tls => tls_layer' = <<>>) /\ (Kept => Kept')
      BY <1>1, <2>1 DEF Kept, NothingKept
    <2> QED
      BY <1>1, <2>1, <2>2, <2>3
  <1>4. CASE pending # <<>>
    <2> DEFINE most == IF Len(pending) < RecvSize THEN Len(pending) ELSE RecvSize
               chunk(n) == SubSeq(pending, 1, n)
               rest(n) == SubSeq(pending, n + 1, Len(pending))
               bad(n) == (\E i \in DOMAIN chunk(n) : chunk(n)[i].nul)
                             \/ TooLong(Len(sockbuf \o chunk(n)))
               took(n) == IF HasLine(sockbuf \o chunk(n))
                          THEN stratum_take_buffer_line(sockbuf \o chunk(n))
                          ELSE /\ svc' = "loop" /\ sockbuf' = sockbuf \o chunk(n)
                               /\ UNCHANGED <<delivered, cuts>>
    <2>1. PICK n \in 1 .. most :
              /\ inflight' = IF use_tls THEN <<>> ELSE rest(n)
              /\ tls_layer' = IF use_tls THEN rest(n) ELSE <<>>
              /\ IF bad(n) THEN UNCHANGED <<sockbuf, delivered, cuts>> /\ lost' = TRUE
                           ELSE took(n) /\ lost' = lost
      BY <1>4, Zenon DEF Chunk
    <2>2. n \in 0 .. Len(pending)
      BY <1>2, LenProperties, TransportFacts
    <2> DEFINE c == chunk(n)
               r == rest(n)
               b == sockbuf \o c
    <2>3. c \in Seq(Piece) /\ r \in Seq(Piece) /\ c \o r = pending
      BY <1>2, <2>2, TwoParts, Zenon
    <2>4. /\ inflight' = IF use_tls THEN <<>> ELSE r
          /\ tls_layer' = IF use_tls THEN r ELSE <<>>
      BY <2>1
    <2>5. \/ UNCHANGED <<sockbuf, delivered, cuts>> /\ lost' = TRUE
          \/ /\ ~TooLong(Len(b)) /\ lost' = lost
             /\ \/ HasLine(b) /\ stratum_take_buffer_line(b)
                \/ sockbuf' = b /\ UNCHANGED <<delivered, cuts>>
      BY <2>1, Zenon
    <2> HIDE DEF pending, c, r
    <2>6. inflight' \in Seq(Piece) /\ tls_layer' \in Seq(Piece) /\ (~use_tls => tls_layer' = <<>>)
      BY <2>3, <2>4, EmptySeq
    <2>7. b \in Seq(Piece)
      BY <2>3, ConcatProperties DEF InOK
    <2> HIDE DEF b
    <2>8. CASE UNCHANGED <<sockbuf, delivered, cuts>> /\ lost' = TRUE
      <3>1. InOK' /\ CutsMarkEnds' /\ cuts' \subseteq Nat
        BY <1>1, <2>6, <2>8 DEF InOK, CutsMarkEnds
      <3> QED
        BY <1>1, <2>6, <2>8, <3>1
    <2>9. ASSUME ~TooLong(Len(b)), lost' = lost,
                 \/ HasLine(b) /\ stratum_take_buffer_line(b)
                 \/ sockbuf' = b /\ UNCHANGED <<delivered, cuts>>
          PROVE  /\ InOK' /\ CutsMarkEnds' /\ cuts' \subseteq Nat
                 /\ delivered' # <<>> => Len(delivered') \in cuts'
                 /\ delivered' \o sockbuf' = delivered \o b
      <3>1. Len(b) =< STRATUM_MAX_LINE_BYTES
        BY <2>7, <2>9, LenProperties, TransportFacts DEF TooLong
      <3>2. CASE HasLine(b) /\ stratum_take_buffer_line(b)
        <4>1. /\ delivered' \in Seq(Piece) /\ sockbuf' \in Seq(Piece)
              /\ Len(sockbuf') =< Len(b)
              /\ delivered' \o sockbuf' = delivered \o b
              /\ CutsMarkEnds' /\ Len(delivered') \in cuts' /\ cuts' \subseteq Nat
          BY <2>7, <3>2, TakeLine, Zenon DEF InOK
        <4>2. Len(sockbuf') =< STRATUM_MAX_LINE_BYTES
          BY <2>7, <3>1, <4>1, LenProperties, TransportFacts
        <4>3. InOK'
          BY <1>1, <2>6, <4>1, <4>2 DEF InOK
        <4> QED
          BY <4>1, <4>3
      <3>3. CASE sockbuf' = b /\ UNCHANGED <<delivered, cuts>>
        <4>1. InOK'
          BY <1>1, <2>6, <2>7, <3>1, <3>3 DEF InOK
        <4>2. CutsMarkEnds'
          BY <3>3 DEF CutsMarkEnds
        <4> QED
          BY <3>3, <4>1, <4>2
      <3> QED
        BY <2>9, <3>2, <3>3
    <2>10. ASSUME delivered' \o sockbuf' = delivered \o b, Kept
           PROVE  Kept'
      <3>1. tls_layer' \o inflight' = r
        BY <2>3, <2>4, ConcatEmptySeq
      <3>2. (delivered \o b) \o r = ((delivered \o sockbuf) \o tls_layer) \o inflight
        <4>1. tls_layer \o inflight = c \o r
          BY <1>2, <2>3
        <4>2. (delivered \o (sockbuf \o c)) \o r = ((delivered \o sockbuf) \o tls_layer) \o inflight
          <5>1. /\ delivered \in Seq(Piece) /\ sockbuf \in Seq(Piece) /\ tls_layer \in Seq(Piece)
                /\ inflight \in Seq(Piece) /\ delivered \o sockbuf \in Seq(Piece)
            BY ConcatProperties DEF InOK
          <5>2. ((delivered \o sockbuf) \o tls_layer) \o inflight
                  = (delivered \o sockbuf) \o (tls_layer \o inflight)
            BY <5>1, Associative, Zenon
          <5>3. (delivered \o sockbuf) \o (c \o r) = ((delivered \o sockbuf) \o c) \o r
            <6> DEFINE d == delivered \o sockbuf
            <6>1. d \in Seq(Piece) /\ c \in Seq(Piece) /\ r \in Seq(Piece)
              BY <2>3, <5>1
            <6> HIDE DEF d
            <6>2. d \o (c \o r) = (d \o c) \o r
              BY <6>1, Associative, Zenon
            <6> QED
              BY <6>2 DEF d
          <5>4. (delivered \o sockbuf) \o c = delivered \o (sockbuf \o c)
            <6>1. delivered \in Seq(Piece) /\ sockbuf \in Seq(Piece) /\ c \in Seq(Piece)
              BY <2>3, <5>1
            <6> QED
              BY <6>1, Associative, Zenon
          <5> QED
            BY <4>1, <5>2, <5>3, <5>4
        <4> QED
          BY <4>2 DEF b
      <3>3. ((delivered \o b) \o tls_layer') \o inflight' = (delivered \o b) \o (tls_layer' \o inflight')
        <4>1. delivered \o b \in Seq(Piece)
          BY <2>7, ConcatProperties DEF InOK
        <4> QED
          BY <2>6, <4>1, Associative, Zenon
      <3> QED
        BY <1>1, <2>10, <3>1, <3>2, <3>3, Zenon DEF Kept
    <2>11. CASE ~(UNCHANGED <<sockbuf, delivered, cuts>> /\ lost' = TRUE)
      <3>1. /\ InOK' /\ CutsMarkEnds' /\ cuts' \subseteq Nat
            /\ delivered' # <<>> => Len(delivered') \in cuts'
            /\ delivered' \o sockbuf' = delivered \o b
            /\ lost' = lost
        BY <2>5, <2>9, <2>11, Zenon
      <3>2. Kept => Kept'
        BY <2>10, <3>1
      <3> QED
        BY <1>1, <2>6, <3>1, <3>2
    <2> QED
      BY <2>8, <2>11
  <1> QED
    BY <1>3, <1>4

\* A failed receive is followed by closing, or ignored, and a chunk is thrown
\* away with a failure.
LEMMA LossPreserved ==
    ASSUME FlagsOK, LossOK, Next
    PROVE  LossOK'
  <1>1. CASE stratum_connect
    <2>1. CASE stratum_prepare_transport \/ Perform("prepared") \/ Perform("retry") \/ Connected
      BY <2>1 DEF stratum_prepare_transport, Perform, Connected, inVars, LossOK
    <2>2. CASE ResolveFails \/ ResolveStep
      BY <2>2 DEF ResolveFails, ResolveStep, inVars, recvVars, LossOK
    <2>3. CASE ResolveDone
      BY <2>3 DEF ResolveDone, CloseTransport, inVars, LossOK
    <2>4. CASE CannotConnect \/ PerformFails
      BY <2>4 DEF CannotConnect, PerformFails, CloseTransport, LossOK
    <2> QED
      BY <1>1, <2>1, <2>2, <2>3, <2>4 DEF stratum_connect
  <1>2. CASE stratum_close_transport
    BY <1>2 DEF stratum_close_transport, CloseTransport, LossOK
  <1>3. CASE stratum_request_shutdown \/ miner_request_abort \/ PoolPiece \/ Tick
    BY <1>3 DEF stratum_request_shutdown, miner_request_abort, PoolPiece, Tick, inVars, recvVars,
                LossOK
  <1>4. CASE RecvStart \/ LoopHead \/ PollWakes \/ Interrupted
    BY <1>4 DEF RecvStart, LoopHead, PollWakes, Interrupted, inVars, LossOK
  <1>5. CASE Chunk
    <2>1. svc = "try" /\ hole' = hole
      BY <1>5 DEF Chunk
    <2>2. lost' = lost \/ svc' = "failed"
      BY <1>5, Zenon DEF Chunk
    <2> QED
      BY <2>1, <2>2 DEF LossOK
  <1>6. CASE FailureIgnored
    BY <1>6 DEF FailureIgnored, LossOK, FlagsOK
  <1>7. CASE Sending
    <2>1. UNCHANGED <<lost, hole, svc>>
      BY <1>7 DEF Sending, send_line, SendStart, SendSome, SendFails, inVars, recvVars
    <2> QED
      BY <2>1 DEF LossOK
  <1> QED
    BY <1>1, <1>2, <1>3, <1>4, <1>5, <1>6, <1>7 DEF Next, Sending, stratum_recv_line_timeout

\* The lines stay intact in every step.
LEMMA LinesPreserved ==
    ASSUME FlagsOK, InOK, cuts \subseteq Nat, OpenOK, NothingKept, CutsOK, LinesIntact, Next
    PROVE  InOK' /\ cuts' \subseteq Nat /\ NothingKept' /\ CutsOK' /\ LinesIntact'
  <1>0. /\ handle = "open" /\ ~lost => Kept
        /\ LossOK
        /\ CutsMarkEnds
        /\ delivered # <<>> => Len(delivered) \in cuts
    BY LinesSplit
  <1>1. use_tls' = use_tls
    BY LinesFrame
  <1>9. LossOK'
    BY <1>0, LossPreserved
  <1> SUFFICES /\ InOK' /\ cuts' \subseteq Nat /\ NothingKept'
               /\ handle' = "open" /\ ~lost' => Kept'
               /\ CutsMarkEnds'
               /\ delivered' # <<>> => Len(delivered') \in cuts'
    BY <1>9, LinesSplit
  <1>2. CASE UNCHANGED <<handle, inVars>> \/ FailureIgnored
    <2>0. UNCHANGED <<handle, pool_sent, inflight, tls_layer, sockbuf, delivered, cuts, lost>>
      BY <1>2 DEF inVars, FailureIgnored, connVars
    <2>1. InOK' /\ cuts' \subseteq Nat /\ CutsMarkEnds'
      BY <1>0, <2>0 DEF InOK, CutsMarkEnds
    <2>2. NothingKept' /\ (Kept => Kept')
      BY <1>1, <2>0 DEF NothingKept, Kept
    <2> QED
      BY <1>0, <2>0, <2>1, <2>2
  <1>3. CASE Closing
    <2>1. /\ handle' = "none" /\ sockbuf' = <<>> /\ pool_sent' = <<>> /\ inflight' = <<>>
          /\ tls_layer' = <<>> /\ delivered' = <<>> /\ cuts' = {}
      BY <1>3 DEF Closing, CloseTransport, EmptyBuffer
    <2>2. InOK' /\ CutsMarkEnds'
      BY <2>1, TransportFacts DEF InOK, CutsMarkEnds
    <2> QED
      BY <2>1, <2>2 DEF NothingKept
  <1>4. CASE stratum_prepare_transport \/ Perform("prepared") \/ Perform("retry")
    <2>1. handle # "open" /\ handle' # "open"
      BY <1>4 DEF stratum_prepare_transport, Perform, OpenOK, Receiving
    <2>2. sockbuf = <<>>
      BY <2>1 DEF NothingKept
    <2>3. UNCHANGED <<pool_sent, inflight, tls_layer, delivered, cuts, sockbuf>>
      BY <1>4, <2>2 DEF stratum_prepare_transport, Perform, EmptyBuffer, inVars
    <2>4. InOK' /\ cuts' \subseteq Nat /\ CutsMarkEnds'
      BY <1>0, <2>3 DEF InOK, CutsMarkEnds
    <2>5. NothingKept'
      BY <1>1, <2>1, <2>3 DEF NothingKept
    <2> QED
      BY <1>0, <2>1, <2>3, <2>4, <2>5
  <1>5. CASE Connected
    <2>1. handle # "open" /\ UNCHANGED inVars
      BY <1>5 DEF Connected, OpenOK, Receiving
    <2>2. InOK' /\ cuts' \subseteq Nat /\ CutsMarkEnds'
      BY <1>0, <2>1 DEF inVars, InOK, CutsMarkEnds
    <2>3. NothingKept'
      BY <1>1, <2>1 DEF inVars, NothingKept
    <2>4. Kept'
      <3>1. /\ pool_sent' = <<>> /\ inflight' = <<>> /\ tls_layer' = <<>> /\ sockbuf' = <<>>
            /\ delivered' = <<>>
        BY <2>1 DEF inVars, NothingKept
      <3>2. <<>> \o <<>> = <<>>
        OBVIOUS
      <3> QED
        BY <3>1, <3>2 DEF Kept
    <2> QED
      BY <1>0, <2>1, <2>2, <2>3, <2>4 DEF inVars
  <1>6. CASE PoolPiece
    <2>1. /\ pool_sent' \in Seq(Piece) /\ inflight' \in Seq(Piece)
          /\ handle = "open" /\ (Kept => Kept')
          /\ UNCHANGED <<handle, tls_layer, sockbuf, delivered, cuts, lost>>
      BY <1>6, PieceSent
    <2>2. InOK' /\ cuts' \subseteq Nat /\ CutsMarkEnds'
      BY <1>0, <2>1 DEF InOK, CutsMarkEnds
    <2>3. NothingKept'
      BY <1>1, <2>1 DEF NothingKept
    <2> QED
      BY <1>0, <2>1, <2>2, <2>3
  <1>7. CASE RecvStart
    <2>1. /\ UNCHANGED <<handle, pool_sent, inflight, tls_layer, lost>>
          /\ handle = "open"
          /\ \/ HasLine(sockbuf) /\ stratum_take_buffer_line(sockbuf)
             \/ UNCHANGED <<delivered, cuts, sockbuf>>
      BY <1>7 DEF RecvStart, OpenOK, Receiving, connVars
    <2>2. NothingKept'
      BY <1>1, <2>1 DEF NothingKept
    <2>3. CASE HasLine(sockbuf) /\ stratum_take_buffer_line(sockbuf)
      <3>1. /\ delivered' \in Seq(Piece) /\ sockbuf' \in Seq(Piece)
            /\ Len(sockbuf') =< Len(sockbuf)
            /\ delivered' \o sockbuf' = delivered \o sockbuf
            /\ CutsMarkEnds' /\ Len(delivered') \in cuts' /\ cuts' \subseteq Nat
        BY <1>0, <2>3, TakeLine, Zenon DEF InOK
      <3>2. Len(sockbuf') =< STRATUM_MAX_LINE_BYTES
        BY <3>1, LenProperties, TransportFacts DEF InOK
      <3>3. InOK'
        BY <2>1, <3>1, <3>2 DEF InOK
      <3>4. Kept => Kept'
        BY <2>1, <3>1, Zenon DEF Kept
      <3> QED
        BY <1>0, <2>1, <2>2, <3>1, <3>3, <3>4
    <2>4. CASE UNCHANGED <<delivered, cuts, sockbuf>>
      <3>1. InOK' /\ cuts' \subseteq Nat /\ CutsMarkEnds' /\ (Kept => Kept')
        BY <1>0, <2>1, <2>4 DEF InOK, CutsMarkEnds, Kept
      <3> QED
        BY <1>0, <2>1, <2>2, <2>4, <3>1
    <2> QED
      BY <2>1, <2>3, <2>4
  <1>8. CASE Chunk
    <2>1. /\ InOK' /\ CutsMarkEnds' /\ cuts' \subseteq Nat
          /\ delivered' # <<>> => Len(delivered') \in cuts'
          /\ handle' = "open" /\ handle = "open"
          /\ ~use_tls => tls_layer' = <<>>
          /\ ~lost' => ~lost /\ (Kept => Kept')
      BY <1>0, <1>8, ChunkRead
    <2>2. NothingKept'
      BY <1>1, <2>1 DEF NothingKept
    <2> QED
      BY <1>0, <2>1, <2>2
  <1> QED
    BY <1>2, <1>3, <1>4, <1>5, <1>6, <1>7, <1>8, LinesFrame

-----------------------------------------------------------------------------
(* Waiting. *)

\* The clock of a receive is worked by the receive itself, the passing of
\* time and closing.
LEMMA ClockFrame ==
    ASSUME Next
    PROVE  \/ UNCHANGED <<left, elapsed, remaining, poll_left, signals, contended, use_tls,
                          sockbuf, tls_layer>>
              /\ (svc' = svc \/ svc' \notin {"loop", "try", "poll"})
           \/ Closing \/ stratum_prepare_transport \/ RecvStart \/ LoopHead \/ PollWakes
           \/ Interrupted \/ Chunk \/ Tick
  <1>1. CASE stratum_connect
    <2>1. CASE ResolveFails \/ ResolveStep
      BY <2>1 DEF ResolveFails, ResolveStep, clock, recvVars, inVars
    <2>2. CASE ResolveDone
      BY <2>2 DEF ResolveDone, CloseTransport, Closing, clock, inVars
    <2>3. CASE Perform("prepared") \/ Perform("retry") \/ Connected
      BY <2>3 DEF Perform, Connected, clock, inVars
    <2>4. CASE CannotConnect \/ PerformFails
      BY <2>4 DEF CannotConnect, PerformFails, CloseTransport, Closing
    <2> QED
      BY <1>1, <2>1, <2>2, <2>3, <2>4 DEF stratum_connect
  <1>2. CASE stratum_close_transport \/ stratum_request_shutdown \/ miner_request_abort
    BY <1>2 DEF stratum_close_transport, stratum_request_shutdown, miner_request_abort,
                CloseTransport, Closing, recvVars, inVars
  <1>3. CASE PoolPiece \/ FailureIgnored
    BY <1>3 DEF PoolPiece, FailureIgnored, recvVars, clock, inVars
  <1>4. CASE Sending
    BY <1>4 DEF Sending, send_line, SendStart, SendSome, SendFails, recvVars, inVars
  <1> QED
    BY <1>1, <1>2, <1>3, <1>4 DEF Next, Sending, stratum_recv_line_timeout

\* The deadline before any signal, and as a signal puts it off.
LEMMA NoSignalYet == Timeout * (1 + 0) = Timeout
  BY TransportFacts

LEMMA DeadlineAhead ==
    ASSUME ClockOK
    PROVE  /\ PutOff \in Nat /\ PutOff >= Timeout
           /\ Timeout * (1 + (signals + 1)) = PutOff + Timeout
  <1>1. \A a, b \in Nat : /\ a * (1 + b) \in Nat /\ a * (1 + b) >= a
                          /\ a * (1 + (b + 1)) = a * (1 + b) + a
    OBVIOUS
  <1> QED
    BY <1>1, TransportFacts DEF PutOff, ClockOK

LEMMA WaitPreserved ==
    ASSUME FlagsOK, ClockOK, InOK, NothingKept, NothingKept', DeadlineOK, SilenceOK, Next
    PROVE  ClockOK' /\ DeadlineOK' /\ SilenceOK'
  <1>1. CASE /\ UNCHANGED <<left, elapsed, remaining, poll_left, signals, contended, use_tls,
                            sockbuf, tls_layer>>
             /\ svc' = svc \/ svc' \notin {"loop", "try", "poll"}
    <2>1. ClockOK' /\ DeadlineOK'
      BY <1>1 DEF ClockOK, DeadlineOK, PutOff
    <2>2. SilenceOK'
      BY <1>1 DEF SilenceOK, HasLine
    <2> QED
      BY <2>1, <2>2
  <1>2. CASE Closing
    <2>1. /\ left' = 0 /\ elapsed' = 0 /\ remaining' = 0 /\ poll_left' = 0 /\ signals' = 0
          /\ svc' = "off"
      BY <1>2 DEF Closing, CloseTransport
    <2>2. ClockOK' /\ SilenceOK'
      BY <2>1, TransportFacts DEF ClockOK, SilenceOK
    <2>3. DeadlineOK'
      BY <2>1, NoSignalYet, TransportFacts DEF DeadlineOK, PutOff
    <2> QED
      BY <2>2, <2>3
  <1>3. CASE stratum_prepare_transport
    <2>1. /\ UNCHANGED <<left, elapsed, remaining, poll_left, signals, use_tls>>
          /\ svc' = "prepared"
      BY <1>3 DEF stratum_prepare_transport, clock
    <2> QED
      BY <2>1 DEF ClockOK, DeadlineOK, PutOff, SilenceOK
  <1>4. CASE RecvStart
    <2>1. /\ left' = Timeout /\ elapsed' = 0 /\ remaining' = 0 /\ poll_left' = 0 /\ signals' = 0
          /\ \/ svc' = "idle"
             \/ svc' = "loop" /\ ~HasLine(sockbuf) /\ sockbuf' = sockbuf
      BY <1>4 DEF RecvStart, stratum_take_buffer_line
    <2>4. ClockOK'
      BY <2>1, TransportFacts DEF ClockOK
    <2>2. ClockOK' /\ DeadlineOK'
      BY <2>1, <2>4, NoSignalYet, TransportFacts DEF DeadlineOK, PutOff
    <2>3. SilenceOK'
      BY <2>1, TransportFacts DEF SilenceOK, HasLine
    <2> QED
      BY <2>2, <2>3
  <1>5. CASE LoopHead
    <2>1. /\ svc = "loop"
          /\ UNCHANGED <<use_tls, left, elapsed, signals, contended, sockbuf, tls_layer>>
          /\ IF left = 0 THEN svc' = "idle" /\ UNCHANGED <<remaining, poll_left>>
                         ELSE /\ svc' = IF PollFirst THEN "poll" ELSE "try"
                              /\ remaining' = left /\ poll_left' = left
      BY <1>5 DEF LoopHead, inVars
    <2>4. ClockOK'
      BY <2>1 DEF ClockOK
    <2>2. ClockOK' /\ DeadlineOK'
      <3>1. PutOff' = PutOff /\ PutOff \in Nat /\ PutOff >= Timeout
        BY <2>1, DeadlineAhead DEF PutOff
      <3>2. left' > 0 => elapsed' + left' =< Timeout
        BY <2>1 DEF DeadlineOK
      <3>3. ~use_tls' => elapsed' =< PutOff'
        BY <2>1, <3>1 DEF DeadlineOK
      <3>4. svc' = "poll" => elapsed' + poll_left' =< Timeout
        BY <2>1 DEF ClockOK, DeadlineOK
      <3>5. \A n \in Nat : n =< Timeout => n =< PutOff
        BY <3>1, TransportFacts
      <3>6. elapsed' + poll_left' \in Nat
        BY <2>1, TransportFacts DEF ClockOK
      <3>7. svc' = "poll" => elapsed' + poll_left' =< PutOff'
        BY <3>1, <3>4, <3>5, <3>6
      <3> QED
        BY <2>4, <3>2, <3>3, <3>7 DEF DeadlineOK
    <2>3. SilenceOK'
      BY <2>1 DEF SilenceOK, HasLine, PollFirst, NothingKept, ClockOK
    <2> QED
      BY <2>2, <2>3
  <1>6. CASE PollWakes
    <2>1. /\ svc = "poll" /\ svc' = IF ~Readable THEN "idle" ELSE IF PollFirst THEN "try" ELSE "loop"
          /\ UNCHANGED <<use_tls, left, elapsed, remaining, poll_left, signals, contended, sockbuf,
                         tls_layer>>
      BY <1>6 DEF PollWakes, inVars, clock
    <2>2. ClockOK' /\ DeadlineOK'
      BY <2>1 DEF ClockOK, DeadlineOK, PutOff
    <2>3. SilenceOK'
      BY <2>1 DEF SilenceOK, HasLine, PollFirst
    <2> QED
      BY <2>2, <2>3
  <1>9. CASE Interrupted
    <2>1. /\ signals < MaxSignals /\ signals' = signals + 1
          /\ poll_left' \in {poll_left, remaining}
          /\ UNCHANGED <<svc, use_tls, left, elapsed, remaining, contended, sockbuf, tls_layer>>
      BY <1>9 DEF Interrupted, inVars
    <2>2. ClockOK'
      BY <2>1, TransportFacts DEF ClockOK
    <2>3. DeadlineOK'
      <3>1. PutOff' = PutOff + Timeout /\ PutOff \in Nat
        BY <2>1, DeadlineAhead DEF PutOff
      <3>2. left' > 0 => elapsed' + left' =< Timeout
        BY <2>1 DEF DeadlineOK
      <3>3. elapsed =< PutOff => elapsed' =< PutOff' /\ elapsed' + remaining =< PutOff'
        BY <2>1, <3>1, TransportFacts DEF ClockOK
      <3>4. elapsed + poll_left =< PutOff => elapsed' + poll_left =< PutOff'
        BY <2>1, <3>1, TransportFacts DEF ClockOK
      <3>5. ~use_tls' /\ svc' = "poll" => elapsed' + poll_left' =< PutOff'
        BY <2>1, <3>3, <3>4 DEF DeadlineOK
      <3> QED
        BY <2>1, <3>2, <3>3, <3>5 DEF DeadlineOK
    <2>4. SilenceOK'
      BY <2>1 DEF SilenceOK, HasLine
    <2> QED
      BY <2>2, <2>3, <2>4
  <1>7. CASE Chunk
    <2>1. /\ svc = "try" /\ left' = left
          /\ UNCHANGED <<use_tls, elapsed, remaining, poll_left, signals, contended>>
      BY <1>7 DEF Chunk, LeftAfterChunk
    <2>2. \/ svc' \in {"failed", "idle"}
          \/ /\ use_tls /\ svc' = "poll" /\ sockbuf' = sockbuf /\ tls_layer' = tls_layer
             /\ tls_layer \o inflight = <<>>
          \/ ~use_tls /\ svc' = "loop" /\ sockbuf' = sockbuf
          \/ svc' = "loop" /\ ~HasLine(sockbuf')
      <3> DEFINE pending == IF use_tls THEN tls_layer \o inflight ELSE inflight
      <3>1. CASE pending = <<>>
        BY <1>7, <3>1 DEF Chunk, PollFirst
      <3>2. CASE pending # <<>>
        <4> DEFINE most == IF Len(pending) < RecvSize THEN Len(pending) ELSE RecvSize
                   buffer(n) == sockbuf \o SubSeq(pending, 1, n)
        <4>1. PICK n \in 1 .. most :
                  \/ svc' = "failed"
                  \/ HasLine(buffer(n)) /\ stratum_take_buffer_line(buffer(n))
                  \/ ~HasLine(buffer(n)) /\ svc' = "loop" /\ sockbuf' = buffer(n)
          BY <1>7, <3>2, Zenon DEF Chunk
        <4> QED
          BY <4>1, Zenon DEF stratum_take_buffer_line
      <3> QED
        BY <3>1, <3>2
    <2>3. svc' = "poll" => tls_layer' = <<>>
      <3>1. tls_layer \o inflight = <<>> => tls_layer = <<>>
        BY ConcatEqualIffEmpty DEF InOK
      <3> QED
        BY <2>2, <3>1 DEF NothingKept
    <2>4. ClockOK' /\ DeadlineOK'
      BY <2>1, <2>2 DEF ClockOK, DeadlineOK, PutOff
    <2>5. svc' \in {"loop", "try", "poll"} => ~HasLine(sockbuf')
      BY <2>1, <2>2 DEF SilenceOK, HasLine
    <2>6. svc' = "loop" /\ left' = 0 /\ ~contended' => tls_layer' = <<>>
      BY <2>1 DEF SilenceOK, NothingKept
    <2>7. svc' # "try"
      BY <2>2
    <2>8. SilenceOK'
      <3>1. HasLine(sockbuf)' = HasLine(sockbuf')
        BY DEF HasLine
      <3> QED
        BY <2>3, <2>5, <2>6, <2>7, <3>1 DEF SilenceOK
    <2> QED
      BY <2>4, <2>8
  <1>8. CASE Tick
    <2>1. /\ LockWait \/ (svc = "poll" /\ poll_left > 0)
          /\ elapsed' = elapsed + 1
          /\ left' = IF left > 0 THEN left - 1 ELSE 0
          /\ poll_left' = IF LockWait THEN poll_left ELSE poll_left - 1
          /\ contended' = (contended \/ LockWait)
          /\ UNCHANGED <<svc, remaining, signals, use_tls, sockbuf, tls_layer>>
      BY <1>8 DEF Tick, inVars
    <2>4. PutOff' = PutOff /\ PutOff \in Nat
      BY <2>1, DeadlineAhead DEF PutOff
    <2>2. CASE LockWait
      <3>1. svc = "try" /\ use_tls /\ contended' = TRUE
        BY <2>1, <2>2 DEF LockWait
      <3>2. ClockOK' /\ DeadlineOK'
        BY <2>1, <2>2, <2>4, <3>1, TransportFacts DEF ClockOK, DeadlineOK
      <3>3. SilenceOK'
        BY <2>1, <3>1 DEF SilenceOK, HasLine
      <3> QED
        BY <3>2, <3>3
    <2>3. CASE ~LockWait
      <3>1. svc = "poll" /\ poll_left > 0 /\ poll_left' = poll_left - 1
        BY <2>1, <2>3
      <3>2. ClockOK' /\ DeadlineOK'
        BY <2>1, <2>4, <3>1, TransportFacts DEF ClockOK, DeadlineOK
      <3>3. SilenceOK'
        BY <2>1, <3>1 DEF SilenceOK, HasLine
      <3> QED
        BY <3>2, <3>3
    <2> QED
      BY <2>2, <2>3
  <1> QED
    BY <1>1, <1>2, <1>3, <1>4, <1>5, <1>6, <1>7, <1>8, <1>9, ClockFrame

\* The places of the service thread and of the connection.
LEMMA PlacePreserved ==
    ASSUME FlagsOK, PlaceOK, OpenOK, patience \in 0 .. SendTimeout, Next
    PROVE  FlagsOK' /\ PlaceOK' /\ OpenOK' /\ patience' \in 0 .. SendTimeout
  <1> USE TransportFacts
  <1>1. CASE stratum_prepare_transport
    <2>1. PlaceOK' /\ OpenOK'
      BY <1>1 DEF stratum_prepare_transport, PlaceOK, OpenOK, Receiving
    <2> QED
      BY <1>1, <2>1 DEF stratum_prepare_transport, FlagsOK, outVars, clock
  <1>2. CASE Closing
    <2>1. PlaceOK' /\ OpenOK'
      BY <1>2 DEF Closing, CloseTransport, PlaceOK, OpenOK, Receiving
    <2> QED
      BY <1>2, <2>1 DEF Closing, CloseTransport, FlagsOK
  <1>3. CASE Perform("prepared") \/ Perform("retry") \/ Connected \/ FailureIgnored
    <2>1. PlaceOK' /\ OpenOK'
      BY <1>3 DEF Perform, Connected, FailureIgnored, PlaceOK, OpenOK, Receiving, connVars
    <2> QED
      BY <1>3, <2>1 DEF Perform, Connected, FailureIgnored, FlagsOK, outVars, clock, connVars, inVars
  <1>4. CASE ResolveFails \/ ResolveStep \/ (ResolveDone /\ svc' = "retry")
    <2>1. UNCHANGED <<use_tls, sock, closed, lost, hole, contended, torn, patience, handle,
                      connects>>
          /\ svc \in {"prepared", "resolve"} /\ svc' \in {"resolve", "retry"}
      BY <1>4 DEF ResolveFails, ResolveStep, ResolveDone, CloseTransport, outVars, clock, connVars,
                  inVars, recvVars
    <2> QED
      BY <2>1 DEF PlaceOK, OpenOK, Receiving, FlagsOK
  <1>5. CASE stratum_request_shutdown \/ miner_request_abort \/ PoolPiece
    <2>1. UNCHANGED <<use_tls, sock, lost, hole, contended, torn, patience, handle, connects, svc>>
          /\ closed' \in BOOLEAN
      BY <1>5 DEF stratum_request_shutdown, miner_request_abort, PoolPiece, outVars, connVars, inVars,
                  recvVars, FlagsOK
    <2> QED
      BY <2>1 DEF PlaceOK, OpenOK, Receiving, FlagsOK
  <1>6. CASE RecvStart \/ LoopHead \/ PollWakes
    <2>1. UNCHANGED <<use_tls, sock, closed, lost, hole, torn, patience, handle, connects>>
          /\ svc \in Receiving /\ svc' \in Receiving
      BY <1>6 DEF RecvStart, LoopHead, PollWakes, stratum_take_buffer_line, outVars, connVars, inVars,
                  Receiving
    <2>2. contended' \in BOOLEAN
      BY <1>6 DEF RecvStart, LoopHead, PollWakes, clock, FlagsOK
    <2>3. PlaceOK' /\ OpenOK'
      BY <2>1 DEF PlaceOK, OpenOK, Receiving
    <2> QED
      BY <2>1, <2>2, <2>3 DEF FlagsOK
  <1>7. CASE Chunk
    <2>1. UNCHANGED <<use_tls, sock, closed, hole, contended, torn, patience, handle, connects>>
          /\ svc \in Receiving
      BY <1>7 DEF Chunk, outVars, connVars, Receiving
    <2>2. svc' \in Receiving /\ (lost' = lost \/ lost' = TRUE)
      BY <1>7 DEF Chunk, stratum_take_buffer_line, Receiving
    <2>3. PlaceOK' /\ OpenOK'
      BY <2>1, <2>2 DEF PlaceOK, OpenOK, Receiving
    <2> QED
      BY <2>1, <2>2, <2>3 DEF FlagsOK
  <1>8. CASE Tick
    <2>1. UNCHANGED <<use_tls, sock, closed, lost, hole, torn, handle, connects, svc>>
      BY <1>8 DEF Tick, connVars, inVars
    <2>2. contended' \in BOOLEAN
      BY <1>8 DEF Tick, FlagsOK
    <2>3. patience' \in 0 .. SendTimeout
      BY <1>8 DEF Tick
    <2>4. PlaceOK' /\ OpenOK'
      BY <2>1 DEF PlaceOK, OpenOK
    <2> QED
      BY <2>1, <2>2, <2>3, <2>4 DEF FlagsOK
  <1>9. CASE Sending
    <2>1. UNCHANGED <<use_tls, sock, closed, lost, hole, contended, handle, connects, svc>>
      BY <1>9 DEF Sending, send_line, SendStart, SendSome, SendFails, connVars, inVars, recvVars
    <2>2. torn' \in BOOLEAN
      BY <1>9 DEF Sending, send_line, SendStart, SendSome, SendFails, FlagsOK
    <2>3. patience' \in 0 .. SendTimeout
      BY <1>9 DEF Sending, send_line, SendStart, SendSome, SendFails
    <2>4. PlaceOK' /\ OpenOK'
      BY <2>1 DEF PlaceOK, OpenOK
    <2> QED
      BY <2>1, <2>2, <2>3, <2>4 DEF FlagsOK
  <1>11. CASE Interrupted
    <2>1. UNCHANGED <<use_tls, sock, closed, lost, hole, contended, torn, handle, connects, svc>>
          /\ patience' \in {patience, SendTimeout}
      BY <1>11 DEF Interrupted, connVars, inVars
    <2> QED
      BY <2>1 DEF PlaceOK, OpenOK, FlagsOK
  <1>10. /\ CannotConnect => Closing
         /\ PerformFails => Closing
         /\ stratum_close_transport => Closing
         /\ ResolveDone /\ svc' # "retry" => Closing
    BY DEF CannotConnect, PerformFails, stratum_close_transport, ResolveDone, Closing
  <1> QED
    BY <1>1, <1>2, <1>3, <1>4, <1>5, <1>6, <1>7, <1>8, <1>9, <1>10, <1>11, Zenon
       DEF Next, Sending, stratum_connect, stratum_recv_line_timeout

-----------------------------------------------------------------------------
(* The theorems. *)

LEMMA InitIInv == Init => IInv
  <1> SUFFICES ASSUME Init PROVE IInv
    OBVIOUS
  <1> USE TransportFacts DEF Init
  <1>1. DnsTypeOK /\ WalkOK
    <2>1. aborting \in BOOLEAN /\ tcp_used \in BOOLEAN
      BY DEF DnsInit
    <2>2. DnsPlace /\ dns_now \in Nat
      BY DnsAssumption DEF DnsInit, DnsPlace
    <2>3. DnsAnswers
      BY DnsAssumption DEF DnsInit, DnsAnswers
    <2>4. WalkOK
      BY DnsAssumption DEF DnsInit, WalkOK, WalkBounded
    <2> QED
      BY <2>1, <2>2, <2>3, <2>4, DnsSplit
  <1>2. FlagsOK
    BY DEF FlagsOK
  <1>3. PlaceOK /\ ClockOK /\ patience \in 0 .. SendTimeout /\ cuts \subseteq Nat
    BY DEF PlaceOK, ClockOK
  <1>4. InOK
    BY DEF InOK
  <1>5. OutOK
    BY DEF OutOK
  <1>6. TypeOK
    BY <1>1, <1>2, <1>3, <1>4, <1>5, TypeSplit
  <1>7. OpenOK /\ NothingKept /\ CutsOK /\ LinesIntact
    BY DEF OpenOK, NothingKept, CutsOK, LinesIntact, Receiving
  <1>8. DeadlineOK /\ SilenceOK
    BY NoSignalYet DEF DeadlineOK, PutOff, SilenceOK, HasLine
  <1>9. TailOK /\ WholeLinesOut
    BY DEF TailOK, WholeLinesOut
  <1> QED
    BY <1>1, <1>6, <1>7, <1>8, <1>9 DEF IInv

LEMMA NextIInv == IInv /\ [Next]_vars => IInv'
  <1> SUFFICES ASSUME IInv, [Next]_vars PROVE IInv'
    OBVIOUS
  <1>1. /\ DnsTypeOK /\ FlagsOK /\ PlaceOK /\ ClockOK /\ InOK /\ OutOK
        /\ patience \in 0 .. SendTimeout /\ cuts \subseteq Nat
    BY TypeSplit DEF IInv
  <1>2. CASE Next
    <2>1. DnsTypeOK' /\ WalkOK'
      <3>1. CASE DnsStep /\ aborting' = aborting
        BY <1>1, <3>1, DnsPreserved DEF IInv
      <3>2. CASE UNCHANGED dnsVars /\ (aborting' = aborting \/ aborting' = TRUE)
        <4>1. DnsPlace' /\ dns_now' \in Nat
          BY <1>1, <3>2, DnsSplit DEF dnsVars, DnsPlace
        <4>2. DnsAnswers'
          BY <1>1, <3>2, DnsSplit DEF dnsVars, DnsAnswers
        <4>3. aborting' \in BOOLEAN /\ tcp_used' \in BOOLEAN
          BY <1>1, <3>2 DEF dnsVars, DnsTypeOK
        <4>4. WalkOK'
          BY <3>2 DEF dnsVars, WalkOK, WalkBounded, IInv
        <4> QED
          BY <4>1, <4>2, <4>3, <4>4, DnsSplit
      <3> QED
        BY <1>2, <3>1, <3>2, DnsFrame
    <2>2. FlagsOK' /\ PlaceOK' /\ OpenOK' /\ patience' \in 0 .. SendTimeout
      BY <1>1, <1>2, PlacePreserved DEF IInv
    <2>3. InOK' /\ cuts' \subseteq Nat /\ NothingKept' /\ CutsOK' /\ LinesIntact'
      BY <1>1, <1>2, LinesPreserved DEF IInv
    <2>4. ClockOK' /\ DeadlineOK' /\ SilenceOK'
      BY <1>1, <1>2, <2>3, WaitPreserved DEF IInv
    <2>5. OutOK' /\ TailOK' /\ WholeLinesOut'
      BY <1>1, <1>2, StreamPreserved DEF IInv
    <2> QED
      BY <2>1, <2>2, <2>3, <2>4, <2>5, TypeSplitNext DEF IInv
  <1>3. CASE UNCHANGED vars
    <2> USE <1>3 DEF vars
    <2>1. TypeOK'
      <3>1. DnsTypeOK'
        BY <1>1 DEF DnsTypeOK, dnsVars
      <3>2. FlagsOK' /\ PlaceOK' /\ ClockOK'
        BY <1>1 DEF FlagsOK, PlaceOK, ClockOK, connVars, inVars, recvVars, outVars
      <3>3. InOK' /\ OutOK' /\ patience' \in 0 .. SendTimeout /\ cuts' \subseteq Nat
        BY <1>1 DEF InOK, OutOK, inVars, outVars
      <3> QED
        BY <3>1, <3>2, <3>3, TypeSplitNext
    <2>2. WalkOK' /\ OpenOK' /\ NothingKept' /\ CutsOK'
      BY DEF IInv, WalkOK, WalkBounded, OpenOK, NothingKept, CutsOK, dnsVars, connVars, inVars,
             recvVars
    <2>3. LinesIntact'
      BY DEF IInv, LinesIntact, connVars, inVars, recvVars
    <2>4. DeadlineOK' /\ SilenceOK'
      BY DEF IInv, DeadlineOK, PutOff, SilenceOK, HasLine, recvVars, inVars
    <2>5. TailOK' /\ WholeLinesOut'
      BY DEF IInv, TailOK, WholeLinesOut, outVars
    <2> QED
      BY <2>1, <2>2, <2>3, <2>4, <2>5 DEF IInv
  <1> QED
    BY <1>2, <1>3

\* The invariant holds in every reachable state.
THEOREM Invariance == Spec => []IInv
  BY InitIInv, NextIInv, PTL DEF Spec

\* The resolver stays within its budget over every server and both record
\* types (dns_query_servers), as long as no answer sends it to TCP.
THEOREM WalkBoundedCorrect == Spec => []WalkBounded
  <1>1. IInv => WalkBounded
    BY DEF IInv, WalkOK
  <1> QED
    BY <1>1, Invariance, PTL

\* stratum_recv_line_timeout hands out every line the pool sent, once, whole
\* and in order, unless it throws a chunk away with an error; nothing is
\* received on that connection any more, except after the extranonce wait,
\* which ignores the error.
THEOREM LinesIntactCorrect == Spec => []LinesIntact
  <1>1. IInv => LinesIntact
    BY DEF IInv
  <1> QED
    BY <1>1, Invariance, PTL

\* send_line puts whole lines on the wire, whichever threads call it.
THEOREM WholeLinesOutCorrect == Spec => []WholeLinesOut
  <1>1. IInv => WholeLinesOut
    BY DEF IInv
  <1> QED
    BY <1>1, Invariance, PTL

\* A receive on a plain socket ends by its deadline, put off by at most one
\* time-out for every signal that ends a poll (stratum_poll_socket).
THEOREM RecvOnTimeCorrect == Spec => []RecvOnTime
  <1>1. IInv => RecvOnTime
    <2>1. IInv => ClockOK
      BY TypeSplit DEF IInv
    <2> QED
      BY <2>1 DEF IInv, DeadlineOK, PutOff, RecvOnTime
  <1> QED
    BY <1>1, Invariance, PTL

\* A receive that times out leaves no complete line behind, in the buffer or
\* in the TLS layer.
THEOREM TimeoutIsSilenceCorrect == Spec => TimeoutIsSilence
  <1> DEFINE A == (svc \in {"loop", "poll"} /\ svc' = "idle" /\ delivered' = delivered)
                      => contended \/ ~HasLine(sockbuf \o tls_layer)
  <1>1. IInv /\ [Next]_vars => [A]_vars
    <2> SUFFICES ASSUME IInv, Next, svc \in {"loop", "poll"}, svc' = "idle", ~contended
                 PROVE  ~HasLine(sockbuf \o tls_layer)
      OBVIOUS
    <2>1. tls_layer = <<>>
      <3>1. CASE svc = "poll"
        BY <3>1 DEF IInv, SilenceOK
      <3>2. CASE svc = "loop"
        <4>1. LoopHead
          BY <3>2 DEF Next, stratum_connect, stratum_prepare_transport, CannotConnect, Perform,
                      Connected, PerformFails, ResolveFails, ResolveStep, ResolveDone,
                      stratum_close_transport, stratum_request_shutdown, miner_request_abort,
                      PoolPiece, stratum_recv_line_timeout, RecvStart, PollWakes, Interrupted,
                      Chunk, FailureIgnored, Tick, send_line, SendStart, SendSome, SendFails, recvVars
        <4>2. left = 0
          BY <4>1 DEF LoopHead
        <4> QED
          BY <3>2, <4>2 DEF IInv, SilenceOK
      <3> QED
        BY <3>1, <3>2
    <2>2. sockbuf \o tls_layer = sockbuf
      <3>1. sockbuf \in Seq(Piece)
        BY TypeSplit DEF IInv, InOK
      <3> QED
        BY <2>1, <3>1, ConcatEmptySeq
    <2>3. ~HasLine(sockbuf)
      BY DEF IInv, SilenceOK
    <2> QED
      BY <2>2, <2>3
  <1>2. Spec => []IInv /\ [][Next]_vars
    BY Invariance, PTL DEF Spec
  <1>3. [][A]_vars <=> TimeoutIsSilence
    BY PTL DEF TimeoutIsSilence
  <1> QED
    BY <1>1, <1>2, <1>3, PTL
=============================================================================
