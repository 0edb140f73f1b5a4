------------------------------- MODULE ProxyConn -------------------------------
(***************************************************************************)
(* handle_conn (connect.rs): one connection to the proxy, from its first   *)
(* byte to the tunnel.  Connections share nothing but the allowlist.       *)
(*                                                                         *)
(* The client sends a header of `size' bytes, the last four of them the    *)
(* blank line, and then payload, all in pieces of any length and without   *)
(* waiting for an answer; a byte is named by its position.  The tunnel     *)
(* itself is module Tunnel, here it only goes on where the header ended.   *)
(***************************************************************************)
EXTENDS Allowlist

CONSTANTS
  Rules,        \* allowlists as the caller means them: sequences of rules
  Targets,      \* the words the client may ask for, none of them excluded
  Ports,        \* labels that are port numbers
  Methods,      \* "CONNECT" or another
  Sizes,        \* Sizes[t]: lengths of a header that asks for t
  MaxPayload,   \* MaxPayload[t]: payload bytes sent behind that header (bound)
  READ_MAX,     \* bytes of one read (1024)
  HEADER_CAP    \* a longer header is taken to have ended (16 KiB)

ASSUME ConnAssumption ==
  /\ \A t \in Targets : Sizes[t] \subseteq Nat /\ \A k \in Sizes[t] : k >= 4
  /\ MaxPayload \in [Targets -> Nat]
  /\ READ_MAX \in Nat \ {0} /\ HEADER_CAP \in Nat

IsPattern(p) ==
  /\ p = Pattern(p.kind, p.name)
  /\ \/ p.kind = "Any" /\ p.name = <<>>
     \/ p.kind \in {"Exact", "SubdomainsOnly", "ApexAndSubdomains"} /\ p.name \in Seq(DOMAIN Lower)

\* A rule is the pattern the caller means and the way to it: built as a
\* HostPattern, or written, with spaces around it, and parsed.
ASSUME NameAssumption ==
  /\ Ports \subseteq Labels
  /\ Targets \subseteq Seq(DOMAIN Lower \ {" "})
  /\ \A rs \in Rules : \A i \in DOMAIN rs :
       /\ rs[i].built \in BOOLEAN
       /\ rs[i].pad \in Seq({" "})
       /\ IsPattern(rs[i].means)

VARIABLES
  rules, target, method, size,   \* the caller's rules; what the client asks for
  patterns,    \* the allowlist, parsed when the proxy started
  arrived,     \* bytes of the client in the proxy's socket, read or not
  finished,    \* the client sends no more
  n,           \* buf.len(), and in the tunnel all that was read
  header_end,
  at,          \* where handle_conn is
  seen,        \* what the client was sent: status codes and the server's bytes
  dialled,     \* the host a connection was tried to, if any
  upstream     \* the client's bytes as the server receives them

asked == <<rules, target, method, size, patterns>>
client == <<arrived, finished>>
vars == <<asked, client, n, header_end, at, seen, dialled, upstream>>

RuleText(r) == r.pad \o to_pattern_string(r.means) \o r.pad

\* The rule as the policy has it.
Rule(r) == IF r.built THEN r.means ELSE HostPattern_parse(RuleText(r))

\* An IPv6 address: labels and colons (none with an IPv4 tail).
IPv6(s) ==
  /\ s \in Seq(Labels \cup {":"})
  /\ \E i, j \in DOMAIN s : i < j /\ s[i] = ":" /\ s[j] = ":"

Bracketed(s) == <<"[">> \o s \o <<"]">>

\* The host and no other that TcpStream::connect tries for the text w, if w ends
\* in a port: what is before it, an address out of its brackets.
ToSocketAddrs(w) ==
  LET host == SubSeq(w, 1, Len(w) - 2)
      inner == SubSeq(w, 2, Len(w) - 3)
  IN  IF ~(Len(w) >= 2 /\ w[Len(w) - 1] = ":" /\ w[Len(w)] \in Ports) THEN {}
      ELSE IF IPv6(inner) /\ host = Bracketed(inner) THEN {inner}
      ELSE {host}

\* The strings that core hands to the proxy.
allowlist(hosts) == [i \in DOMAIN hosts |-> to_pattern_string(hosts[i])]

Init ==
  /\ rules \in Rules
  /\ target \in Targets
  /\ method \in Methods
  /\ size \in Sizes[target]
  /\ patterns = Allowlist_parse(allowlist([i \in DOMAIN rules |-> Rule(rules[i])]))
  /\ arrived = 0
  /\ finished = FALSE
  /\ n = 0
  /\ header_end = 0
  /\ at = "header"
  /\ seen = <<>>
  /\ dialled = {}
  /\ upstream = <<>>

ClientSends ==
  /\ ~finished
  /\ arrived < size + MaxPayload[target]
  /\ \E k \in 1..size + MaxPayload[target] - arrived : arrived' = arrived + k
  /\ UNCHANGED <<asked, finished, n, header_end, at, seen, dialled, upstream>>

\* It shuts down, or goes away.
ClientFinishes ==
  /\ ~finished
  /\ finished' = TRUE
  /\ UNCHANGED <<asked, arrived, n, header_end, at, seen, dialled, upstream>>

\* Mutant of BlankLine: only the bytes of the last read are searched.
BlankLineInRead(m) == m >= size /\ n <= size - 4

\* Mutant of BlankLine: one byte too early.
BlankLineEarly(m) == m >= size - 1

\* The blank line is among the first m bytes: all of them are searched.
BlankLine(m) == m >= size

\* Mutant of OverCap: >= for >.
OverCapEarly(m) == m >= HEADER_CAP

OverCap(m) == m > HEADER_CAP

ReadHeader ==
  /\ at = "header"
  /\ \E k \in 1..READ_MAX :
       /\ n + k <= arrived
       /\ n' = n + k
       /\ \/ /\ BlankLine(n + k)
             /\ header_end' = size
             /\ at' = "request"
          \/ /\ ~BlankLine(n + k) /\ OverCap(n + k)
             /\ header_end' = n + k
             /\ at' = "request"
          \/ /\ ~BlankLine(n + k) /\ ~OverCap(n + k)
             /\ UNCHANGED <<header_end, at>>
  /\ UNCHANGED <<asked, client, seen, dialled, upstream>>

\* Nothing more comes: the connection is dropped without a word.
ReadNothing ==
  /\ at = "header"
  /\ finished /\ n = arrived
  /\ at' = "closed"
  /\ UNCHANGED <<asked, client, n, header_end, seen, dialled, upstream>>

\* Mutant of Answer: the return after the answer is missing.
AnswerAndGoOn(status) == seen' = Append(seen, status) /\ at' = "reply"

\* An answer, and the connection is closed.
Answer(status) == seen' = Append(seen, status) /\ at' = "closed"

Refuse ==
  /\ at = "request"
  /\ \/ method # "CONNECT" /\ Answer("405")
     \/ method = "CONNECT" /\ ~allows(patterns, target) /\ Answer("403")
  /\ UNCHANGED <<asked, client, n, header_end, dialled, upstream>>

\* TcpStream::connect takes the target as it came.
Dial ==
  /\ at = "request"
  /\ method = "CONNECT"
  /\ allows(patterns, target)
  /\ dialled' = ToSocketAddrs(target)
  /\ at' = "dialling"
  /\ UNCHANGED <<asked, client, n, header_end, seen, upstream>>

\* Without a port, or for a host that does not answer, it fails.
Connected ==
  /\ at = "dialling"
  /\ \/ dialled # {} /\ at' = "reply" /\ UNCHANGED seen
     \/ Answer("502")
  /\ UNCHANGED <<asked, client, n, header_end, dialled, upstream>>

\* The client may be gone by now, and then so is the connection upstream.
Reply ==
  /\ at = "reply"
  /\ \/ seen' = Append(seen, "200") /\ at' = "forward"
     \/ finished /\ at' = "closed" /\ UNCHANGED seen
  /\ UNCHANGED <<asked, client, n, header_end, dialled, upstream>>

Interval(a, b) == [i \in 1..(b - a) |-> a + i]

\* What the reads took past the header: buf[header_end..].
Pipelined == Interval(header_end, n)

\* The server may have closed.
Forward ==
  /\ at = "forward"
  /\ \/ upstream' = upstream \o Pipelined /\ at' = "tunnel"
     \/ at' = "closed" /\ UNCHANGED upstream
  /\ UNCHANGED <<asked, client, n, header_end, seen, dialled>>

TunnelUp ==
  /\ at = "tunnel"
  /\ \E k \in 1..arrived - n :
       /\ upstream' = upstream \o Interval(n, n + k)
       /\ n' = n + k
  /\ UNCHANGED <<asked, client, header_end, at, seen, dialled>>

\* One byte of the server stands for all.
TunnelDown ==
  /\ at = "tunnel"
  /\ "server" \notin Range(seen)
  /\ seen' = Append(seen, "server")
  /\ UNCHANGED <<asked, client, n, header_end, at, dialled, upstream>>

TunnelEnds ==
  /\ at = "tunnel"
  /\ at' = "closed"
  /\ UNCHANGED <<asked, client, n, header_end, seen, dialled, upstream>>

Next ==
  \/ ClientSends \/ ClientFinishes
  \/ ReadHeader \/ ReadNothing \/ Refuse
  \/ Dial \/ Connected \/ Reply \/ Forward
  \/ TunnelUp \/ TunnelDown \/ TunnelEnds

\* The task is polled when its socket has something to read.
Fairness == WF_vars(ReadHeader \/ ReadNothing)

Spec == Init /\ [][Next]_vars /\ Fairness

-----------------------------------------------------------------------------
(* What the caller means by a rule, and the rules that say what is meant.   *)

\* h is the name, or has it behind a dot.
Covers(p, h) ==
  LET Named(s) == to_ascii_lowercase(s) = to_ascii_lowercase(p.name) IN
  \/ p.kind = "Any"
  \/ p.kind \in {"Exact", "ApexAndSubdomains"} /\ Named(h)
  \/ /\ p.kind \in {"SubdomainsOnly", "ApexAndSubdomains"}
     /\ \E i \in DOMAIN h : h[i] = "." /\ Named(SubSeq(h, i + 1, Len(h)))

Covered(h) == \E i \in DOMAIN rules : Covers(rules[i].means, h)

\* No space around the name, and the name of one host does not read as a pattern.
Plain(p) ==
  /\ trim(p.name) = p.name
  /\ p.kind = "Exact" => ParseTrimmed(p.name) = p

PlainRules == \A i \in DOMAIN rules : Plain(rules[i].means)

-----------------------------------------------------------------------------
(* Correctness.                                                            *)

\* The domain of each variable; the proxy has read no more than arrived.
TypeOK ==
  /\ rules \in Rules /\ target \in Targets /\ method \in Methods /\ size \in Sizes[target]
  /\ arrived \in 0..size + MaxPayload[target]
  /\ finished \in BOOLEAN
  /\ n \in 0..arrived
  /\ header_end \in 0..n
  /\ at \in {"header", "request", "dialling", "reply", "forward", "tunnel", "closed"}
  /\ Range(seen) \subseteq {"200", "403", "405", "502", "server"}
  /\ dialled \subseteq ToSocketAddrs(target)
  /\ Range(upstream) \subseteq 1..arrived

\* What matcher.rs says of Allowlist::allows: "Block-by-default: host is allowed
\* only if some pattern matches".  No host is tried that no rule covers,
\* whatever word the client sends and however the rules were made.
OnlyAllowedHosts == \A h \in dialled : Covered(h)

\* Where the rules are plain and the target has no bracket, the proxy decides as
\* the caller means it, through two parsers, the printing between them and
\* normalize: it tries a host only if a rule covers it, and says 403 only of a
\* target whose host no rule covers.
DecisionAsMeant ==
  PlainRules /\ Range(target) \cap {"[", "]"} = {} =>
    /\ \A h \in dialled : Covered(h)
    /\ "403" \in Range(seen) => \A h \in ToSocketAddrs(target) : ~Covered(h)

\* What normalize leaves of an IPv6 address passes for no host name, brackets
\* and port or not: with an allowlist of names no address is tried.
AddressRefused ==
  /\ PlainRules
  /\ \A i \in DOMAIN rules : rules[i].means.kind # "Any" /\ ":" \notin Range(rules[i].means.name)
  => \A h \in dialled : ~IPv6(h)

\* However the client's bytes were cut into reads, what the server receives
\* is the payload from its first byte on, nothing of it skipped or doubled
\* and nothing of the header.  A header past the cap does not count.
PayloadIntact ==
  size <= HEADER_CAP + 1 =>
    /\ \A i \in DOMAIN upstream : upstream[i] = size + i
    /\ at = "tunnel" => Len(upstream) = n - size

\* The client is told one thing, before anything of the server's; the server's
\* bytes come only after 200, and no byte goes up without it.
AnsweredOnce ==
  /\ \A i \in DOMAIN seen : i > 1 => seen[i] = "server" /\ seen[1] = "200"
  /\ seen # <<>> => seen[1] # "server"
  /\ upstream # <<>> => "200" \in Range(seen)

\* A header that has arrived, or the end of one that will not, is recognised,
\* though the blank line may come in several pieces and with payload behind it:
\* handle_conn does not wait for bytes the client has no reason to send.
HeaderRecognised ==
  arrived >= size \/ arrived > HEADER_CAP \/ finished ~> at # "header"
=============================================================================
