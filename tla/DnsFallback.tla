---------------------------- MODULE DnsFallback -----------------------------
(***************************************************************************)
(* The resolver of last resort: when the platform cannot resolve the host  *)
(* of a pool, dns_fallback_resolve asks a list of public servers, first    *)
(* for A and, if no server gave one, for AAAA records, over UDP and, when  *)
(* an answer was cut off, over TCP, all within one budget of seconds.      *)
(*                                                                         *)
(* An exchange is one step that takes some of the budget.  An address is   *)
(* the record type and the server it came from.                            *)
(***************************************************************************)
EXTENDS Integers, Sequences

CONSTANTS
    num_servers,
    max_ips,
    DNS_TIMEOUT_SEC,
    DNS_TOTAL_BUDGET_SEC,
    TcpOps        \* bound: blocking calls of one TCP exchange

ASSUME DnsAssumption ==
    /\ num_servers \in Nat \ {0} /\ max_ips \in Nat \ {0} /\ TcpOps \in Nat \ {0}
    /\ DNS_TIMEOUT_SEC \in Nat \ {0} /\ DNS_TOTAL_BUDGET_SEC \in Nat \ {0}

VARIABLES
    aborting,
    dns,         \* "idle", "query", "tcp", "done"
    qtype, server,
    dns_now,     \* seconds since dns_deadline_init
    ips,
    tcp_used     \* history: the walk went over TCP

dnsVars == <<dns, qtype, server, dns_now, ips, tcp_used>>

DnsTypeOK ==
    /\ aborting \in BOOLEAN
    /\ dns \in {"idle", "query", "tcp", "done"}
    /\ qtype \in {"A", "AAAA"} /\ server \in 1 .. num_servers + 1
    /\ dns_now \in Nat /\ tcp_used \in BOOLEAN
    /\ ips \in Seq({"A", "AAAA", "literal"} \X (0 .. num_servers)) /\ Len(ips) =< max_ips

DnsInit ==
    /\ dns = "idle" /\ qtype = "A" /\ server = 1 /\ dns_now = 0
    /\ ips = <<>> /\ tcp_used = FALSE

\* Rounded up to whole seconds; nothing is left once the program stops.
dns_budget_remaining ==
    IF aborting \/ dns_now >= DNS_TOTAL_BUDGET_SEC THEN 0
    ELSE DNS_TOTAL_BUDGET_SEC - dns_now + 1

\* Bug: an exchange always gets its full time-out.
OpTimeoutUnclamped == IF dns_budget_remaining = 0 THEN 0 ELSE DNS_TIMEOUT_SEC

dns_op_timeout ==
    IF dns_budget_remaining < DNS_TIMEOUT_SEC THEN dns_budget_remaining ELSE DNS_TIMEOUT_SEC

\* An address literal is its own answer, a fallback that is switched off has
\* none; otherwise the walk begins.
dns_fallback_resolve ==
    /\ dns = "idle"
    /\ \/ dns' = "done" /\ ips' = <<<<"literal", 0>>>>
       \/ dns' = "done" /\ ips' = <<>>
       \/ dns' = "query" /\ ips' = <<>>
    /\ qtype' = "A" /\ server' = 1 /\ dns_now' = 0 /\ tcp_used' = FALSE

\* AAAA is the last resort.
AskAaaa == qtype = "A" /\ Len(ips') = 0

\* dns_query_servers returned.
QueryReturns ==
    /\ IF AskAaaa THEN dns' = "query" /\ qtype' = "AAAA"
                  ELSE dns' = "done" /\ UNCHANGED qtype
    /\ server' = 1

\* What dns_parse_response does with an answer: n records appended, then the
\* end of the message or a malformed record.
WithRecords(n) == ips \o [i \in 1 .. n |-> <<qtype, server>>]

Records(answer) == IF answer \in {"found", "malformed"} THEN 0 .. max_ips - Len(ips) ELSE {0}

\* A server that gave addresses ends the query for this type; anything else,
\* a "no such name" included, leads to the next server.
AfterAnswer(answer, n) ==
    /\ ips' = WithRecords(n)
    /\ IF answer = "found" /\ n > 0
       THEN QueryReturns
       ELSE dns' = "query" /\ server' = server + 1 /\ UNCHANGED qtype

\* The head of the loop over the servers ends it.
QueryEnds ==
    /\ dns = "query"
    /\ server > num_servers \/ Len(ips) >= max_ips \/ dns_budget_remaining = 0
    /\ UNCHANGED <<dns_now, ips, tcp_used>>
    /\ QueryReturns

\* No answer, no usable answer, an answer, or one that was cut off.
dns_exchange_udp ==
    /\ dns = "query"
    /\ server =< num_servers /\ Len(ips) < max_ips /\ dns_budget_remaining > 0
    /\ \E d \in 0 .. dns_op_timeout : dns_now' = dns_now + d
    /\ \/ dns' = "tcp" /\ UNCHANGED <<qtype, server, ips>>
       \/ \E answer \in {"none", "found", "malformed"} : \E n \in Records(answer) :
              AfterAnswer(answer, n)
    /\ UNCHANGED tcp_used

\* Every call of the exchange may take the time-out computed at its start.
dns_exchange_tcp ==
    /\ dns = "tcp"
    /\ \E d \in 0 .. TcpOps * dns_op_timeout : dns_now' = dns_now + d
    /\ \E answer \in {"none", "found", "malformed"} : \E n \in Records(answer) :
           /\ dns_op_timeout = 0 => answer = "none"
           /\ AfterAnswer(answer, n)
    /\ tcp_used' = TRUE

dns_query_servers == QueryEnds \/ dns_exchange_udp \/ dns_exchange_tcp

-----------------------------------------------------------------------------
(* Properties. *)

\* The walk ends within its budget, up to the rounding of a second, over both
\* record types and every server, as long as it stays on UDP.
WalkBounded == ~tcp_used => dns_now =< DNS_TOTAL_BUDGET_SEC + 1

\* "The ENTIRE walk (every server, both transports, both qtypes) shares one
\* ~10 s budget" (dns_fallback.h).
WalkInBudget == dns_now =< DNS_TOTAL_BUDGET_SEC + 1
=============================================================================
