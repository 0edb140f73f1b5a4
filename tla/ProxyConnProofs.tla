----------------------------- MODULE ProxyConnProofs -----------------------------
(***************************************************************************)
(* Proofs about one connection to the proxy, for every allowlist, every    *)
(* length of the header and of the payload, every READ_MAX and HEADER_CAP. *)
(***************************************************************************)
EXTENDS ProxyConn, AllowlistProofs, SequenceTheorems, TLAPS

Answers == {"200", "403", "405", "502"}

\* s is the bytes that follow position h.
Counts(s, h) == \A i \in 1..Len(s) : s[i] = h + i

\* The domains, with the sequences as such.
Typed ==
  /\ rules \in Rules /\ target \in Targets /\ method \in Methods /\ size \in Sizes[target]
  /\ arrived \in Nat /\ arrived <= size + MaxPayload[target]
  /\ finished \in BOOLEAN
  /\ n \in Nat /\ n <= arrived
  /\ header_end \in Nat /\ header_end <= n
  /\ at \in {"header", "request", "dialling", "reply", "forward", "tunnel", "closed"}
  /\ seen \in Seq(Answers \cup {"server"})
  /\ dialled \subseteq ToSocketAddrs(target)
  /\ upstream \in Seq(Nat)

\* While the header is read neither its end nor the cap has been passed, so the
\* read that finds the blank line finds all of it.
Scanned ==
  /\ at = "header" => n < size /\ n <= HEADER_CAP
  /\ /\ at \notin {"header", "closed"} \/ upstream # <<>>
     /\ size <= HEADER_CAP + 1
     => header_end = size

\* The server has the client's bytes from header_end on; in the tunnel, all of
\* those the proxy has read.
Forwarded ==
  /\ Counts(upstream, header_end)
  /\ upstream # <<>> => header_end + Len(upstream) <= n
  /\ at \in {"header", "request", "dialling", "reply", "forward"} => upstream = <<>>
  /\ at = "tunnel" => header_end + Len(upstream) = n

\* One answer first, and only behind "200" what the server says.
Told ==
  /\ at \in {"header", "request", "dialling", "reply"} => seen = <<>>
  /\ at \in {"forward", "tunnel"} \/ upstream # <<>> => seen # <<>> /\ seen[1] = "200"
  /\ seen # <<>> => seen[1] \in Answers
  /\ \A i \in 2..Len(seen) : seen[i] = "server" /\ seen[1] = "200"

IInv == Typed /\ Scanned /\ Forwarded /\ Told

-----------------------------------------------------------------------------
(* The bytes between two positions.                                        *)

\* Interval(a, b) has the bytes a+1 to b, in order.
LEMMA IntervalCounts ==
  ASSUME NEW a \in Nat, NEW b \in Nat, a <= b
  PROVE  /\ Interval(a, b) \in Seq(Nat)
         /\ Len(Interval(a, b)) = b - a
         /\ Counts(Interval(a, b), a)
  <1>1. b - a \in Nat
    OBVIOUS
  <1>2. Interval(a, b) = [i \in 1..(b - a) |-> a + i]
    BY DEF Interval
  <1>3. \A i \in 1..(b - a) : a + i \in Nat
    OBVIOUS
  <1>4. QED
    BY <1>1, <1>2, <1>3 DEF Counts

\* No bytes follow any position.
LEMMA CountsNone == \A h : Counts(<<>>, h)
  BY DEF Counts

\* Appending the bytes that come next leaves no gap.
LEMMA Concat ==
  ASSUME NEW s \in Seq(Nat), NEW t \in Seq(Nat), NEW h \in Nat,
         Counts(s, h), Counts(t, h + Len(s))
  PROVE  /\ s \o t \in Seq(Nat)
         /\ Len(s \o t) = Len(s) + Len(t)
         /\ Counts(s \o t, h)
  <1>1. s \o t \in Seq(Nat) /\ Len(s \o t) = Len(s) + Len(t)
    BY ConcatProperties
  <1>2. ASSUME NEW i \in 1..Len(s) + Len(t)
        PROVE  (s \o t)[i] = h + i
    <2>1. Len(s) \in Nat /\ Len(t) \in Nat /\ i \in Nat
      OBVIOUS
    <2>2. CASE i <= Len(s)
      <3>1. i \in 1..Len(s) /\ (s \o t)[i] = s[i]
        BY <2>2
      <3>2. QED
        BY <3>1 DEF Counts
    <2>3. CASE i > Len(s)
      <3>1. (s \o t)[i] = t[i - Len(s)]
        BY <2>3
      <3>2. i - Len(s) \in 1..Len(t)
        BY <2>1, <2>3
      <3>3. t[i - Len(s)] = (h + Len(s)) + (i - Len(s))
        BY <3>2 DEF Counts
      <3>4. (h + Len(s)) + (i - Len(s)) = h + i
        BY <2>1
      <3>5. QED
        BY <3>1, <3>3, <3>4
    <2>4. QED
      BY <2>1, <2>2, <2>3
  <1>3. QED
    BY <1>1, <1>2 DEF Counts

LEMMA Extend ==
  ASSUME NEW s \in Seq(Nat), NEW h \in Nat, NEW a \in Nat, NEW b \in Nat, a <= b,
         h + Len(s) = a, Counts(s, h)
  PROVE  /\ s \o Interval(a, b) \in Seq(Nat)
         /\ h + Len(s \o Interval(a, b)) = b
         /\ Counts(s \o Interval(a, b), h)
  <1>1. /\ Interval(a, b) \in Seq(Nat) /\ Len(Interval(a, b)) = b - a
        /\ Counts(Interval(a, b), h + Len(s))
    BY IntervalCounts
  <1>2. Len(s) \in Nat
    OBVIOUS
  <1>3. QED
    BY <1>1, <1>2, Concat

-----------------------------------------------------------------------------
(* The invariant.                                                          *)

\* A new connection has read and said nothing.
LEMMA InitIInv == Init => IInv
  <1> SUFFICES ASSUME Init
               PROVE  IInv
    OBVIOUS
  <1>1. /\ size \in Nat /\ size >= 4 /\ MaxPayload[target] \in Nat /\ HEADER_CAP \in Nat
    BY ConnAssumption DEF Init
  <1>2. /\ arrived = 0 /\ n = 0 /\ header_end = 0 /\ at = "header" /\ finished = FALSE
        /\ dialled = {} /\ seen = <<>> /\ upstream = <<>>
        /\ rules \in Rules /\ target \in Targets /\ method \in Methods /\ size \in Sizes[target]
    BY DEF Init
  <1>3. QED
    <2>1. 0 <= size + MaxPayload[target] /\ 0 < size /\ 0 <= HEADER_CAP /\ 0 \in Nat /\ 0 <= 0
      BY <1>1
    <2>2. seen \in Seq(Answers \cup {"server"}) /\ upstream \in Seq(Nat)
      BY <1>2
    <2>3. Typed
      BY <1>2, <2>1, <2>2 DEF Typed
    <2>4. Scanned
      BY <1>2, <2>1, <2>2 DEF Scanned
    <2>5. Forwarded
      BY <1>2, CountsNone DEF Forwarded
    <2>6. Told
      BY <1>2 DEF Told
    <2>7. QED
      BY <2>3, <2>4, <2>5, <2>6 DEF IInv

\* What the client does touches only what has arrived.
LEMMA ClientKeeps == IInv /\ (ClientSends \/ ClientFinishes) => IInv'
  <1> SUFFICES ASSUME IInv, ClientSends \/ ClientFinishes
               PROVE  IInv'
    OBVIOUS
  <1>1. arrived \in Nat /\ arrived <= size + MaxPayload[target] /\ size \in Nat /\ MaxPayload[target] \in Nat
    BY ConnAssumption DEF IInv, Typed
  <1>2. /\ UNCHANGED <<asked, n, header_end, at, seen, dialled, upstream>>
        /\ arrived' \in Nat /\ arrived <= arrived' /\ arrived' <= size + MaxPayload[target]
        /\ finished' \in BOOLEAN
    <2>1. CASE ClientFinishes
      BY <1>1, <2>1 DEF ClientFinishes
    <2>2. CASE ClientSends
      <3>1. PICK k \in 1..size + MaxPayload[target] - arrived : arrived' = arrived + k
        BY <2>2 DEF ClientSends
      <3>2. arrived + k \in Nat /\ arrived <= arrived + k /\ arrived + k <= size + MaxPayload[target]
        BY <1>1
      <3>3. QED
        BY <2>2, <3>1, <3>2 DEF ClientSends, IInv, Typed
    <2>3. QED
      BY <2>1, <2>2
  <1>3. QED
    BY <1>2 DEF IInv, Typed, Scanned, Forwarded, Told, asked

\* A read before the blank line, the one that completes it, or the one past the cap.
LEMMA ReadKeeps == IInv /\ (ReadHeader \/ ReadNothing) => IInv'
  <1> SUFFICES ASSUME IInv, ReadHeader \/ ReadNothing
               PROVE  IInv'
    OBVIOUS
  <1>1. CASE ReadNothing
    BY <1>1 DEF IInv, Typed, Scanned, Forwarded, Told, ReadNothing, asked, client
  <1>2. CASE ReadHeader
    <2>1. PICK k \in 1..READ_MAX :
            /\ n + k <= arrived
            /\ n' = n + k
            /\ \/ n' >= size /\ header_end' = size /\ at' = "request"
               \/ n' < size /\ n' > HEADER_CAP /\ header_end' = n' /\ at' = "request"
               \/ n' < size /\ n' <= HEADER_CAP /\ UNCHANGED <<header_end, at>>
      <3>1. n \in Nat /\ size \in Nat /\ HEADER_CAP \in Nat /\ READ_MAX \in Nat
        BY ConnAssumption DEF IInv, Typed
      <3>2. QED
        BY <1>2, <3>1 DEF ReadHeader, BlankLine, OverCap
    <2>2. /\ at = "header" /\ upstream = <<>> /\ seen = <<>>
          /\ UNCHANGED <<asked, client, seen, dialled, upstream>>
          /\ n \in Nat /\ k \in Nat /\ size \in Nat /\ HEADER_CAP \in Nat
      BY <1>2, ConnAssumption DEF ReadHeader, IInv, Typed, Forwarded, Told
    <2>3. Typed'
      BY <2>1, <2>2 DEF IInv, Typed, asked, client
    <2>4. Scanned'
      BY <2>1, <2>2 DEF IInv, Scanned, asked
    <2>5. Forwarded' /\ Told'
      <3>1. /\ upstream' = <<>> /\ Len(upstream') = 0 /\ seen' = <<>> /\ Len(seen') = 0
            /\ at' \in {"header", "request"}
        BY <2>1, <2>2
      <3>2. Forwarded'
        BY <3>1, CountsNone DEF Forwarded
      <3>3. Told'
        BY <3>1 DEF Told
      <3>4. QED
        BY <3>2, <3>3
    <2>6. QED
      BY <2>3, <2>4, <2>5 DEF IInv
  <1>3. QED
    BY <1>1, <1>2

\* Until the tunnel exactly one thing is said, or nothing.
LEMMA AnswerKeeps ==
  IInv /\ (Refuse \/ Dial \/ Connected \/ Reply \/ TunnelEnds) => IInv'
  <1> SUFFICES ASSUME IInv, Refuse \/ Dial \/ Connected \/ Reply \/ TunnelEnds
               PROVE  IInv'
    OBVIOUS
  <1>1. /\ UNCHANGED <<asked, client, n, header_end, upstream>>
        /\ dialled' \subseteq ToSocketAddrs(target)
    BY DEF Refuse, Dial, Connected, Reply, TunnelEnds, IInv, Typed
  <1>2. \/ /\ at \in {"request", "dialling", "reply"}
           /\ \/ seen' = seen /\ at' \in {"dialling", "reply", "closed"}
              \/ \E a \in Answers \ {"200"} : seen' = Append(seen, a) /\ at' = "closed"
              \/ seen' = Append(seen, "200") /\ at' = "forward"
        \/ at = "tunnel" /\ at' = "closed" /\ seen' = seen
    BY DEF Refuse, Dial, Connected, Reply, TunnelEnds, Answer, Answers
  <1>3. Typed' /\ Scanned' /\ Forwarded'
    <2>1. seen' \in Seq(Answers \cup {"server"})
      <3>1. seen \in Seq(Answers \cup {"server"})
        BY DEF IInv, Typed
      <3>2. ASSUME NEW a \in Answers
            PROVE  Append(seen, a) \in Seq(Answers \cup {"server"})
        BY <3>1
      <3>3. "200" \in Answers
        BY DEF Answers
      <3>4. QED
        BY <1>2, <3>1, <3>2, <3>3
    <2>2. Typed'
      BY <1>1, <1>2, <2>1 DEF IInv, Typed, asked, client
    <2>3. Scanned'
      BY <1>1, <1>2 DEF IInv, Scanned, asked
    <2>4. Forwarded'
      BY <1>1, <1>2 DEF IInv, Forwarded
    <2>5. QED
      BY <2>2, <2>3, <2>4
  <1>4. Told'
    <2>1. CASE seen' = seen
      BY <2>1, <1>1, <1>2 DEF IInv, Typed, Told, Forwarded
    <2>2. CASE seen' # seen
      <3>1. PICK a \in Answers : /\ seen = <<>> /\ seen' = Append(seen, a)
                                 /\ upstream = <<>> /\ at' \in {"closed", "forward"}
                                 /\ at' = "forward" => a = "200"
        BY <2>2, <1>2 DEF IInv, Told, Forwarded, Answers
      <3>2. seen' = <<a>> /\ Len(seen') = 1 /\ seen'[1] = a
        BY <3>1
      <3>3. QED
        BY <3>1, <3>2, <1>1 DEF Told
    <2>3. QED
      BY <2>1, <2>2
  <1>5. QED
    BY <1>3, <1>4 DEF IInv

\* The pipelined bytes and then the tunnel's follow on one another.
LEMMA ForwardKeeps == IInv /\ (Forward \/ TunnelUp) => IInv'
  <1> SUFFICES ASSUME IInv, Forward \/ TunnelUp
               PROVE  IInv'
    OBVIOUS
  <1>1. CASE at' = "closed"
    BY <1>1 DEF IInv, Typed, Scanned, Forwarded, Told, Forward, TunnelUp, asked, client
  <1>2. CASE at' # "closed"
    <2>1. PICK m \in Nat :
            /\ n <= m /\ m <= arrived /\ n' = m /\ at' = "tunnel"
            /\ at \in {"forward", "tunnel"}
            /\ \E a \in Nat : /\ a <= m /\ header_end + Len(upstream) = a
                              /\ upstream' = upstream \o Interval(a, m)
      <3>1. CASE Forward
        BY <3>1, <1>2 DEF Forward, Pipelined, IInv, Typed, Forwarded
      <3>2. CASE TunnelUp
        <4>1. PICK k \in 1..arrived - n : upstream' = upstream \o Interval(n, n + k) /\ n' = n + k
          BY <3>2 DEF TunnelUp
        <4>2. n \in Nat /\ arrived \in Nat /\ n <= arrived
          BY DEF IInv, Typed
        <4>3. n + k \in Nat /\ n <= n + k /\ n + k <= arrived
          BY <4>2
        <4>4. at = "tunnel" /\ at' = "tunnel" /\ header_end + Len(upstream) = n
          BY <3>2 DEF TunnelUp, IInv, Forwarded
        <4>5. QED
          BY <4>1, <4>2, <4>3, <4>4
      <3>3. QED
        BY <3>1, <3>2
    <2>2. UNCHANGED <<asked, client, header_end, seen, dialled>>
      BY DEF Forward, TunnelUp
    <2>3. /\ upstream' \in Seq(Nat)
          /\ header_end + Len(upstream') = m
          /\ Counts(upstream', header_end)
      <3>1. /\ upstream \in Seq(Nat) /\ header_end \in Nat
            /\ Counts(upstream, header_end)
        BY DEF IInv, Typed, Forwarded
      <3>2. QED
        BY <2>1, <3>1, Extend
    <2>4. Typed' /\ Scanned' /\ Forwarded' /\ Told'
      BY <2>1, <2>2, <2>3 DEF IInv, Typed, Scanned, Forwarded, Told, asked, client
    <2>5. QED
      BY <2>4 DEF IInv
  <1>3. QED
    BY <1>1, <1>2

\* The server's bytes come behind the 200.
LEMMA TunnelDownKeeps == IInv /\ TunnelDown => IInv'
  <1> SUFFICES ASSUME IInv, TunnelDown
               PROVE  IInv'
    OBVIOUS
  <1>1. Typed' /\ Scanned' /\ Forwarded'
    BY DEF TunnelDown, IInv, Typed, Scanned, Forwarded, asked, client
  <1>2. /\ seen \in Seq(Answers \cup {"server"}) /\ seen # <<>> /\ seen[1] = "200"
        /\ seen' = Append(seen, "server") /\ at' = at /\ upstream' = upstream
    BY DEF TunnelDown, IInv, Typed, Told
  <1>3. seen' # <<>> /\ seen'[1] = "200" /\ Len(seen') = Len(seen) + 1
    BY <1>2
  <1>4. \A i \in 2..Len(seen') : seen'[i] = "server"
    BY <1>2, <1>3 DEF IInv, Told
  <1>5. Told'
    BY <1>2, <1>3, <1>4 DEF IInv, Told, Answers, TunnelDown
  <1>6. QED
    BY <1>1, <1>5 DEF IInv

\* Every step keeps the invariant.
LEMMA NextIInv == IInv /\ [Next]_vars => IInv'
  <1>1. IInv /\ UNCHANGED vars => IInv'
    BY DEF IInv, Typed, Scanned, Forwarded, Told, vars, asked, client
  <1>2. QED
    BY <1>1, ClientKeeps, ReadKeeps, AnswerKeeps, ForwardKeeps, TunnelDownKeeps DEF Next

\* IInv holds throughout.
LEMMA Invariance == Spec => []IInv
  BY InitIInv, NextIInv, PTL DEF Spec

-----------------------------------------------------------------------------
(* What the invariant gives.                                               *)

\* The proxy never reads ahead of what has arrived, the header ends within what
\* was read, and only bytes the client sent go up (handle_conn's buf).
THEOREM TypeCorrect == Spec => []TypeOK
  <1>1. IInv => TypeOK
    <2> SUFFICES ASSUME IInv
                 PROVE  TypeOK
      OBVIOUS
    <2>1. ASSUME NEW i \in DOMAIN upstream
          PROVE  upstream[i] \in 1..arrived
      <3>1. /\ i \in 1..Len(upstream) /\ Len(upstream) \in Nat /\ i \in Nat
            /\ header_end \in Nat /\ n \in Nat /\ arrived \in Nat /\ n <= arrived
            /\ header_end + Len(upstream) <= n
        BY DEF IInv, Typed, Forwarded
      <3>2. upstream[i] = header_end + i
        BY <3>1 DEF IInv, Forwarded, Counts
      <3>3. QED
        BY <3>1, <3>2
    <2>2. Range(seen) \subseteq {"200", "403", "405", "502", "server"}
      BY DEF IInv, Typed, Answers, Range
    <2>3. QED
      <3>1. Range(upstream) \subseteq 1..arrived
        BY <2>1 DEF Range
      <3>2. /\ arrived \in Nat /\ n \in Nat /\ header_end \in Nat /\ n <= arrived
            /\ header_end <= n /\ arrived <= size + MaxPayload[target] /\ size \in Nat
            /\ MaxPayload[target] \in Nat
        BY ConnAssumption DEF IInv, Typed
      <3>3. arrived \in 0..size + MaxPayload[target] /\ n \in 0..arrived /\ header_end \in 0..n
        BY <3>2
      <3>4. QED
        BY <2>2, <3>1, <3>3 DEF IInv, Typed, TypeOK
  <1>2. QED
    BY <1>1, Invariance, PTL

\* For every way to cut the client's bytes into reads of up to READ_MAX, what it
\* pipelined behind its header reaches the server once, in order and whole,
\* before the tunnel's bytes (connect.rs, header_end and buf[header_end..]).
THEOREM Pipelining == Spec => []PayloadIntact
  <1>1. IInv => PayloadIntact
    <2> SUFFICES ASSUME IInv, size <= HEADER_CAP + 1
                 PROVE  /\ \A i \in DOMAIN upstream : upstream[i] = size + i
                        /\ at = "tunnel" => Len(upstream) = n - size
      BY DEF PayloadIntact
    <2>1. upstream # <<>> \/ at = "tunnel" => header_end = size
      BY DEF IInv, Scanned
    <2>2. DOMAIN upstream = 1..Len(upstream)
      BY DEF IInv, Typed
    <2>3. QED
      <3>1. \A i \in DOMAIN upstream : upstream[i] = size + i
        BY <2>1, <2>2 DEF IInv, Forwarded, Counts
      <3>2. ASSUME at = "tunnel"
            PROVE  Len(upstream) = n - size
        <4>1. header_end + Len(upstream) = n /\ header_end = size
          BY <3>2, <2>1 DEF IInv, Forwarded
        <4>2. Len(upstream) \in Nat /\ n \in Nat /\ size \in Nat
          BY ConnAssumption DEF IInv, Typed
        <4>3. QED
          BY <4>1, <4>2
      <3>3. QED
        BY <3>1, <3>2
  <1>2. QED
    BY <1>1, Invariance, PTL

\* On every path through handle_conn the client gets one answer at most, and
\* neither side gets a byte of the other before a 200.
THEOREM OneAnswer == Spec => []AnsweredOnce
  <1>1. IInv => AnsweredOnce
    <2> SUFFICES ASSUME IInv
                 PROVE  AnsweredOnce
      OBVIOUS
    <2>1. \A i \in DOMAIN seen : i > 1 => seen[i] = "server" /\ seen[1] = "200"
      BY DEF IInv, Typed, Told
    <2>2. seen # <<>> => seen[1] # "server"
      BY DEF IInv, Told, Answers
    <2>3. upstream # <<>> => "200" \in Range(seen)
      BY DEF IInv, Typed, Told, Range
    <2>4. QED
      BY <2>1, <2>2, <2>3 DEF AnsweredOnce
  <1>2. QED
    BY <1>1, Invariance, PTL

-----------------------------------------------------------------------------
(* A rule, from the caller's pattern to the proxy's.                       *)

Point == "."

LEMMA PointToken ==
  /\ Point \in Special /\ Point \in Tok
  /\ Point \notin {Space, Open, Close, Colon}
  BY CleanLabels DEF Special, Point, Space, Open, Close, Colon

\* A plain pattern is read in what it is printed as.
LEMMA PlainPrint ==
  ASSUME NEW p, IsPattern(p), Plain(p)
  PROVE  /\ p.name \in Text
         /\ to_pattern_string(p) \in Text /\ Tight(to_pattern_string(p))
         /\ ParseTrimmed(to_pattern_string(p)) = p
  <1> DEFINE s == to_pattern_string(p)
             u == p.name
  <1>1. /\ p = Pattern(p.kind, u)
        /\ \/ p.kind = "Any" /\ u = <<>>
           \/ p.kind \in {"Exact", "SubdomainsOnly", "ApexAndSubdomains"}
    BY DEF IsPattern
  <1>2. u \in Text
    <2>1. <<>> \in Seq(Tok)
      OBVIOUS
    <2> QED BY <2>1 DEF IsPattern, Text, Tok
  <1>3. Tight(u)
    BY <1>2, TrimText DEF Plain
  <1> HIDE DEF u
  <1>4. CASE p.kind = "Any"
    <2>1. s = Star /\ Star # <<>> /\ Tight(Star)
      BY <1>4 DEF to_pattern_string, Star, Tight, Space
    <2>2. p = Pattern("Any", <<>>)
      BY <1>1, <1>4
    <2> QED BY <1>2, <2>1, <2>2, MarkTexts DEF ParseTrimmed, u
  <1>5. CASE p.kind = "Exact"
    <2>1. s = u
      BY <1>5 DEF to_pattern_string, u
    <2> QED BY <1>2, <1>3, <1>5, <2>1 DEF Plain, u
  <1>6. CASE p.kind = "SubdomainsOnly"
    <2>1. s = SubMark \o u /\ p = Pattern("SubdomainsOnly", u)
      BY <1>1, <1>6 DEF to_pattern_string, u
    <2> DEFINE v == SubMark \o u
    <2>2. v \in Text /\ v # <<>> /\ Tight(v) /\ IsPrefix(SubMark, v) /\ After(SubMark, v) = u
      BY <1>2, <1>3, MarkedTight
    <2> HIDE DEF v
    <2>3. Len(v) \in Nat /\ Len(v) >= 2 /\ v[2] = "."
      BY <2>2, Begins, TextLen
    <2>4. v # Star /\ ~IsPrefix(ApexMark, v)
      BY <2>2, <2>3, Begins
    <2>5. ParseTrimmed(v) = Pattern("SubdomainsOnly", u)
      BY <2>2, <2>4 DEF ParseTrimmed
    <2> QED BY <1>2, <2>1, <2>2, <2>5 DEF u, v
  <1>7. CASE p.kind = "ApexAndSubdomains"
    <2>1. s = ApexMark \o u /\ p = Pattern("ApexAndSubdomains", u)
      BY <1>1, <1>7 DEF to_pattern_string, u
    <2> DEFINE v == ApexMark \o u
    <2>2. v \in Text /\ v # <<>> /\ Tight(v) /\ IsPrefix(ApexMark, v) /\ After(ApexMark, v) = u
      BY <1>2, <1>3, MarkedTight
    <2> HIDE DEF v
    <2>3. Len(v) \in Nat /\ Len(v) >= 3
      BY <2>2, Begins, TextLen
    <2>4. v # Star
      BY <2>2, <2>3, Begins
    <2>5. ParseTrimmed(v) = Pattern("ApexAndSubdomains", u)
      BY <2>2, <2>4 DEF ParseTrimmed
    <2> QED BY <1>2, <2>1, <2>2, <2>5 DEF u, v
  <1> QED BY <1>1, <1>4, <1>5, <1>6, <1>7

IsRule(r) ==
  r.built \in BOOLEAN /\ r.pad \in Seq({Space}) /\ IsPattern(r.means)

\* Built or written, a plain rule reaches the proxy as it was meant.
LEMMA RuleReceived ==
  ASSUME NEW r, IsRule(r), Plain(r.means)
  PROVE  Pattern_parse(to_pattern_string(Rule(r))) = LowerPattern(r.means)
  <1> DEFINE s == to_pattern_string(r.means)
             t == (r.pad \o s) \o r.pad
  <1>1. s \in Text /\ Tight(s) /\ ParseTrimmed(s) = r.means
    BY PlainPrint DEF IsRule
  <1>2. RuleText(r) = t
    BY DEF RuleText
  <1> HIDE DEF s
  <1>3. ParseTrimmed(to_ascii_lowercase(s)) = LowerPattern(r.means)
    BY <1>1, LowerParse
  <1>4. CASE r.built
    <2>1. to_pattern_string(Rule(r)) = s
      BY <1>4 DEF Rule, s
    <2>2. trim(s) = s
      BY <1>1, TrimTight
    <2> QED BY <1>3, <2>1, <2>2 DEF Pattern_parse
  <1>5. CASE ~r.built
    <2>1. r.pad \in Text /\ \A i \in 1..Len(r.pad) : r.pad[i] = Space
      <3>1. r.pad \in Seq({Space}) /\ {Space} \subseteq Tok
        BY CleanLabels DEF IsRule
      <3> QED BY <3>1 DEF Text
    <2>2. t \in Text /\ trim(t) = s
      <3>1. CASE s = <<>>
        BY <2>1, <3>1, TrimSpaces
      <3>2. CASE s # <<>>
        BY <1>1, <2>1, <3>2, TrimPadded
      <3> QED BY <3>1, <3>2
    <2> HIDE DEF t
    <2>3. HostPattern_parse(t) = LowerPattern(r.means)
      BY <1>3, <2>2, ParseIs
    <2>4. Pattern_parse(to_pattern_string(HostPattern_parse(t))) = HostPattern_parse(t)
      BY <2>2, RoundTrip
    <2> QED BY <1>2, <1>5, <2>3, <2>4 DEF Rule
  <1> QED BY <1>4, <1>5 DEF IsRule

-----------------------------------------------------------------------------
(* A pattern and a host, in lower case both.                               *)

\* A text ends in a dot and u exactly if u is what follows one of its dots.
LEMMA BehindDot ==
  ASSUME NEW u \in Text, NEW l \in Text
  PROVE  IsSuffix(Dot \o u, l) <=>
           \E i \in DOMAIN l : l[i] = Point /\ SubSeq(l, i + 1, Len(l)) = u
  <1>1. PICK k \in Nat : k = Len(u)
    BY TextLen
  <1>2. PICK m \in Nat : m = Len(l) /\ DOMAIN l = 1..m
    BY TextLen
  <1>3. u \in Seq(Tok) /\ l \in Seq(Tok)
    BY DEF Text
  <1> DEFINE D == Dot \o u
  <1>4. D \in Seq(Tok) /\ Len(D) = 1 + k /\ D[1] = Point /\ \A i \in 1..k : D[1 + i] = u[i]
    <2>1. Dot \in Seq(Tok) /\ Len(Dot) = 1 /\ Dot[1] = Point
      BY MarkTexts DEF Dot, Point, Text
    <2>2. /\ Dot \o u \in Seq(Tok) /\ Len(Dot \o u) = Len(Dot) + Len(u)
          /\ \A i \in 1..(Len(Dot) + Len(u)) :
               (Dot \o u)[i] = IF i <= Len(Dot) THEN Dot[i] ELSE u[i - Len(Dot)]
      BY <1>3, <2>1, ConcatProperties
    <2>3. D \in Seq(Tok) /\ Len(D) = 1 + k
          /\ \A i \in 1..(1 + k) : D[i] = IF i <= 1 THEN Dot[i] ELSE u[i - 1]
      BY <1>1, <2>1, <2>2
    <2> HIDE DEF D
    <2>4. /\ 1 \in 1..(1 + k) /\ 1 <= 1
          /\ \A i \in 1..k : 1 + i \in 1..(1 + k) /\ ~(1 + i <= 1) /\ 1 + i - 1 = i
      OBVIOUS
    <2> QED BY <2>1, <2>3, <2>4
  <1> HIDE DEF D
  <1>5. IsSuffix(D, l) <=> 1 + k <= m /\ \A i \in 1..(1 + k) : D[i] = l[m - (1 + k) + i]
    <2>1. IsSuffix(D, l) <=>
            Len(D) <= Len(l) /\ \A i \in 1..Len(D) : D[i] = l[Len(l) - Len(D) + i]
      BY <1>3, <1>4, SuffixPointwise
    <2> QED BY <1>2, <1>4, <2>1
  <1>6. ASSUME NEW i \in 1..m
        PROVE  /\ SubSeq(l, i + 1, m) \in Seq(Tok) /\ Len(SubSeq(l, i + 1, m)) = m - i
               /\ \A j \in 1..(m - i) : SubSeq(l, i + 1, m)[j] = l[i + j]
    <2>1. PICK a \in Nat : a = i + 1 /\ a >= 1 /\ m <= m /\ a <= m + 1 /\ m + 1 - a = m - i
      OBVIOUS
    <2>2. /\ SubSeq(l, a, m) \in Seq(Tok) /\ Len(SubSeq(l, a, m)) = m + 1 - a
          /\ \A j \in 1..(m + 1 - a) : SubSeq(l, a, m)[j] = l[a + j - 1]
      BY <1>2, <1>3, <2>1, Piece
    <2>3. \A j \in 1..(m - i) : a + j - 1 = i + j
      BY <2>1
    <2> QED BY <2>1, <2>2, <2>3
  <1>7. ASSUME IsSuffix(D, l)
        PROVE  \E i \in 1..m : l[i] = Point /\ SubSeq(l, i + 1, m) = u
    <2>1. PICK i \in Nat : i = m - k /\ i \in 1..m /\ m - i = k /\ m - (1 + k) + 1 = i
      BY <1>5, <1>7
    <2>2. l[i] = Point
      <3>1. 1 \in 1..(1 + k)
        OBVIOUS
      <3> QED BY <1>4, <1>5, <1>7, <2>1, <3>1
    <2>3. \A j \in 1..k : l[i + j] = u[j]
      <3>1. \A j \in 1..k : 1 + j \in 1..(1 + k) /\ m - (1 + k) + (1 + j) = i + j
        BY <2>1
      <3> QED BY <1>4, <1>5, <1>7, <3>1
    <2> DEFINE t == SubSeq(l, i + 1, m)
    <2>4. t \in Seq(Tok) /\ Len(t) = k /\ \A j \in 1..k : t[j] = l[i + j]
      BY <1>6, <2>1
    <2> HIDE DEF t
    <2>5. t = u
      BY <1>1, <1>3, <2>3, <2>4, SeqEqual
    <2> QED BY <2>1, <2>2, <2>5 DEF t
  <1>8. ASSUME NEW i \in 1..m, l[i] = Point, SubSeq(l, i + 1, m) = u
        PROVE  IsSuffix(D, l)
    <2>1. m - i = k /\ \A j \in 1..k : u[j] = l[i + j]
      BY <1>1, <1>6, <1>8
    <2>2. 1 + k <= m /\ \A j \in 1..(1 + k) : m - (1 + k) + j = i + j - 1
      BY <2>1
    <2>3. ASSUME NEW j \in 1..(1 + k)
          PROVE  D[j] = l[m - (1 + k) + j]
      <3>1. CASE j = 1
        <4>1. i + j - 1 = i
          BY <3>1
        <4> QED BY <1>4, <1>8, <2>2, <3>1, <4>1
      <3>2. CASE j # 1
        <4>1. PICK x \in 1..k : j = 1 + x
          <5>1. j - 1 \in 1..k /\ j = 1 + (j - 1)
            BY <3>2
          <5> QED BY <5>1
        <4>2. i + j - 1 = i + x
          BY <4>1
        <4> QED BY <1>4, <2>1, <2>2, <4>1, <4>2
      <3> QED BY <3>1, <3>2
    <2> QED BY <1>5, <2>2, <2>3
  <1> QED BY <1>2, <1>7, <1>8 DEF D

\* What follows a position, lowered before or after.
LEMMA LowerRest ==
  ASSUME NEW s \in Text, NEW m \in Nat, m = Len(s), NEW i \in 1..m
  PROVE  SubSeq(to_ascii_lowercase(s), i + 1, m) = to_ascii_lowercase(SubSeq(s, i + 1, m))
  <1> DEFINE l == to_ascii_lowercase(s)
             u == SubSeq(s, i + 1, m)
             v == SubSeq(l, i + 1, m)
             w == to_ascii_lowercase(u)
  <1>1. l \in Text /\ Len(l) = m /\ \A j \in 1..m : l[j] = Lower[s[j]]
    BY LowerText
  <1> HIDE DEF l
  <1>2. PICK a \in Nat : a = i + 1 /\ a >= 1 /\ m <= m /\ a <= m + 1 /\ m + 1 - a = m - i
    OBVIOUS
  <1>3. \A j \in 1..(m - i) : a + j - 1 \in 1..m
    BY <1>2
  <1>4. u \in Text /\ Len(u) = m - i /\ \A j \in 1..(m - i) : u[j] = s[a + j - 1]
    <2>1. s \in Seq(Tok)
      BY DEF Text
    <2>2. /\ SubSeq(s, a, m) \in Seq(Tok) /\ Len(SubSeq(s, a, m)) = m + 1 - a
          /\ \A j \in 1..(m + 1 - a) : SubSeq(s, a, m)[j] = s[a + j - 1]
      BY <1>2, <2>1, Piece
    <2> QED BY <1>2, <2>2 DEF Text
  <1>5. v \in Text /\ Len(v) = m - i /\ \A j \in 1..(m - i) : v[j] = l[a + j - 1]
    <2>1. l \in Seq(Tok)
      BY <1>1 DEF Text
    <2>2. /\ SubSeq(l, a, m) \in Seq(Tok) /\ Len(SubSeq(l, a, m)) = m + 1 - a
          /\ \A j \in 1..(m + 1 - a) : SubSeq(l, a, m)[j] = l[a + j - 1]
      BY <1>1, <1>2, <2>1, Piece
    <2> QED BY <1>2, <2>2 DEF Text
  <1> HIDE DEF u, v
  <1>6. w \in Text /\ Len(w) = m - i /\ \A j \in 1..(m - i) : w[j] = Lower[u[j]]
    BY <1>4, LowerText
  <1> HIDE DEF w
  <1>7. \A j \in 1..(m - i) : v[j] = w[j]
    BY <1>1, <1>3, <1>4, <1>5, <1>6
  <1>8. v = w
    BY <1>5, <1>6, <1>7, SeqEqual DEF Text
  <1> QED BY <1>8 DEF u, v, w, l

\* The lowered pattern matches the lowered host exactly if the pattern covers it.
LEMMA MatchesMeant ==
  ASSUME NEW p, IsPattern(p), NEW h \in Text
  PROVE  matches(LowerPattern(p), to_ascii_lowercase(h)) <=> Covers(p, h)
  <1> DEFINE u == to_ascii_lowercase(p.name)
             l == to_ascii_lowercase(h)
  <1>1. CASE p.kind = "Any"
    BY <1>1 DEF LowerPattern, Pattern, matches, Covers
  <1>2. CASE p.kind \in {"Exact", "SubdomainsOnly", "ApexAndSubdomains"}
    <2>1. u \in Text
      <3>1. p.name \in Text
        BY <1>2 DEF IsPattern, Text, Tok
      <3> QED BY <3>1, LowerText
    <2>2. PICK m \in Nat : m = Len(h) /\ DOMAIN h = 1..m
      BY TextLen
    <2>3. /\ l \in Text /\ Len(l) = m /\ DOMAIN l = 1..m
          /\ \A i \in 1..m : l[i] = Point <=> h[i] = Point
      <3>1. l \in Text /\ Len(l) = m /\ \A i \in 1..m : l[i] = Lower[h[i]]
        BY <2>2, LowerText
      <3> HIDE DEF l
      <3>2. \A i \in 1..m : h[i] \in Tok
        BY <2>2, TextLen
      <3> QED BY <3>1, <3>2, LowerToken, PointToken, TextLen
    <2>4. \A i \in 1..m : SubSeq(l, i + 1, m) = to_ascii_lowercase(SubSeq(h, i + 1, m))
      BY <2>2, LowerRest
    <2>5. matches(LowerPattern(p), l) <=>
            \/ p.kind \in {"Exact", "ApexAndSubdomains"} /\ l = u
            \/ p.kind \in {"SubdomainsOnly", "ApexAndSubdomains"} /\ IsSuffix(Dot \o u, l)
      BY <1>2 DEF LowerPattern, Pattern, matches
    <2>6. Covers(p, h) <=>
            \/ p.kind \in {"Exact", "ApexAndSubdomains"} /\ l = u
            \/ /\ p.kind \in {"SubdomainsOnly", "ApexAndSubdomains"}
               /\ \E i \in DOMAIN h : /\ h[i] = Point
                                      /\ to_ascii_lowercase(SubSeq(h, i + 1, Len(h))) = u
      BY <1>2 DEF Covers, Point
    <2> HIDE DEF u, l
    <2>7. IsSuffix(Dot \o u, l) <=> \E i \in 1..m : l[i] = Point /\ SubSeq(l, i + 1, m) = u
      BY <2>1, <2>3, BehindDot
    <2>8. (\E i \in DOMAIN h : h[i] = Point /\ to_ascii_lowercase(SubSeq(h, i + 1, Len(h))) = u)
            <=> \E i \in 1..m : l[i] = Point /\ SubSeq(l, i + 1, m) = u
      BY <2>2, <2>3, <2>4
    <2> QED BY <2>5, <2>6, <2>7, <2>8 DEF l
  <1> QED BY <1>1, <1>2 DEF IsPattern

-----------------------------------------------------------------------------
(* The target: what is tried and what normalize leaves.                    *)

\* A host that is tried stands in the target, as it is or in brackets, with a
\* port behind it.
LEMMA HostIn ==
  ASSUME NEW w \in Text, NEW h \in ToSocketAddrs(w)
  PROVE  \E d \in Labels : \/ h \in Text /\ w = h \o <<Colon, d>>
                           \/ IPv6(h) /\ w = Bracketed(h) \o <<Colon, d>>
  <1>1. PICK m \in Nat : m = Len(w)
    BY TextLen
  <1> DEFINE host == SubSeq(w, 1, m - 2)
             inner == SubSeq(w, 2, m - 3)
             rest == <<w[m - 1], w[m]>>
  <1>2. m >= 2 /\ w[m - 1] = Colon /\ w[m] \in Ports
    BY <1>1 DEF ToSocketAddrs, Colon
  <1>3. w[m] \in Labels /\ rest = <<Colon, w[m]>>
    BY <1>2, NameAssumption
  <1>4. \/ h = inner /\ IPv6(inner) /\ host = Bracketed(inner)
        \/ h = host
    BY <1>1 DEF ToSocketAddrs
  <1>5. PICK k \in Nat : k = m - 2
    BY <1>2
  <1>6. w \in Seq(Tok)
    BY DEF Text
  <1>7. host \in Seq(Tok) /\ Len(host) = k /\ \A i \in 1..k : host[i] = w[i]
    <2>1. 1 >= 1 /\ k <= m /\ 1 <= k + 1 /\ k + 1 - 1 = k /\ \A i \in 1..k : 1 + i - 1 = i
      BY <1>5
    <2>2. /\ SubSeq(w, 1, k) \in Seq(Tok) /\ Len(SubSeq(w, 1, k)) = k + 1 - 1
          /\ \A i \in 1..(k + 1 - 1) : SubSeq(w, 1, k)[i] = w[1 + i - 1]
      BY <1>1, <1>6, <2>1, Piece
    <2> QED BY <1>5, <2>1, <2>2
  <1> HIDE DEF host
  <1>8. rest \in Seq(Tok) /\ Len(rest) = 2 /\ rest[1] = w[m - 1] /\ rest[2] = w[m]
    BY <1>2, <1>3, CleanLabels
  <1> HIDE DEF rest
  <1>9. w = host \o rest
    <2> DEFINE v == host \o rest
    <2>1. /\ v \in Seq(Tok) /\ Len(v) = k + 2
          /\ \A i \in 1..(k + 2) : v[i] = IF i <= k THEN host[i] ELSE rest[i - k]
      <3>1. /\ host \o rest \in Seq(Tok) /\ Len(host \o rest) = Len(host) + Len(rest)
            /\ \A i \in 1..(Len(host) + Len(rest)) :
                 (host \o rest)[i] = IF i <= Len(host) THEN host[i] ELSE rest[i - Len(host)]
        BY <1>7, <1>8, ConcatProperties
      <3> QED BY <1>7, <1>8, <3>1
    <2> HIDE DEF v
    <2>2. k + 2 = m /\ m - 1 = k + 1
      BY <1>2, <1>5
    <2>3. ASSUME NEW i \in 1..m PROVE v[i] = w[i]
      <3>1. CASE i <= k
        <4>1. i \in 1..k /\ i \in 1..(k + 2)
          BY <2>2, <3>1
        <4> QED BY <1>7, <2>1, <3>1, <4>1
      <3>2. CASE i = k + 1
        <4>1. i \in 1..(k + 2) /\ ~(i <= k) /\ i - k = 1 /\ i = m - 1
          BY <2>2, <3>2
        <4> QED BY <1>8, <2>1, <4>1
      <3>3. CASE i = k + 2
        <4>1. i \in 1..(k + 2) /\ ~(i <= k) /\ i - k = 2 /\ i = m
          BY <2>2, <3>3
        <4> QED BY <1>8, <2>1, <4>1
      <3>4. i <= k \/ i = k + 1 \/ i = k + 2
        BY <2>2
      <3> QED BY <3>1, <3>2, <3>3, <3>4
    <2>4. Len(v) = m
      BY <2>1, <2>2
    <2>5. v = w
      BY <1>1, <1>6, <2>1, <2>3, <2>4, SeqEqual
    <2> QED BY <2>5 DEF v
  <1>10. w = host \o <<Colon, w[m]>>
    BY <1>3, <1>9 DEF rest
  <1> QED BY <1>3, <1>4, <1>7, <1>10 DEF Text

\* Without brackets the host is what normalize leaves, but for the case of letters.
LEMMA PlainHost ==
  ASSUME NEW w \in Text, \A i \in 1..Len(w) : w[i] \notin {Space, Open, Close},
         NEW h \in ToSocketAddrs(w)
  PROVE  h \in Text /\ normalize(w) = to_ascii_lowercase(h)
  <1>1. PICK d \in Labels : \/ h \in Text /\ w = h \o <<Colon, d>>
                            \/ IPv6(h) /\ w = Bracketed(h) \o <<Colon, d>>
    BY HostIn
  <1> DEFINE e == <<Colon, d>>
  <1>2. e \in Seq(Tok) /\ Len(e) = 2
    BY CleanLabels
  <1>3. CASE h \in Text /\ w = h \o <<Colon, d>>
    <2>1. h \in Seq(Tok) /\ w = h \o e
      BY <1>3 DEF Text
    <2> HIDE DEF e
    <2>2. Len(w) = Len(h) + 2 /\ \A i \in 1..Len(h) : w[i] = h[i]
      <3>1. h \in Seq(Tok) /\ e \in Seq(Tok)
        BY <1>2, <2>1
      <3>2. Len(h \o e) = Len(h) + Len(e) /\ \A i \in 1..Len(h) : (h \o e)[i] = h[i]
        BY <3>1, Joined
      <3> QED BY <1>2, <2>1, <3>2
    <2>3. \A i \in 1..Len(h) : i \in 1..Len(w)
      BY <2>1, <2>2
    <2>4. Clean(h)
      BY <2>2, <2>3 DEF Clean
    <2> QED BY <1>3, <2>4, NormalizeHost
  <1>4. CASE IPv6(h) /\ w = Bracketed(h) \o <<Colon, d>>
    <2> DEFINE o == <<Open>>
               c == <<Close>>
               v == o \o h
               b == v \o c
    <2>1. /\ Labels \cup {Colon} \subseteq Tok
          /\ o \in Seq(Tok) /\ Len(o) = 1 /\ o[1] = Open /\ c \in Seq(Tok)
      BY CleanLabels
    <2>2. h \in Seq(Tok)
      BY <1>4, <2>1 DEF IPv6, Colon
    <2>3. w = b \o e
      BY <1>4 DEF Bracketed, Open, Close
    <2> HIDE DEF o, c, e
    <2>4. v \in Seq(Tok) /\ 1 \in 1..Len(v) /\ v[1] = Open
      <3>1. /\ v \in Seq(Tok) /\ Len(v) = Len(o) + Len(h)
            /\ \A i \in 1..Len(o) : v[i] = o[i]
        BY <2>1, <2>2, Joined
      <3>2. Len(h) \in Nat
        BY <2>2
      <3> HIDE DEF v
      <3> QED BY <2>1, <3>1, <3>2
    <2> HIDE DEF v
    <2>5. b \in Seq(Tok) /\ 1 \in 1..Len(b) /\ b[1] = Open
      <3>1. /\ b \in Seq(Tok) /\ Len(b) = Len(v) + Len(c)
            /\ \A i \in 1..Len(v) : b[i] = v[i]
        BY <2>1, <2>4, Joined
      <3>2. Len(v) \in Nat /\ Len(c) \in Nat
        BY <2>1, <2>4
      <3> HIDE DEF b
      <3> QED BY <2>4, <3>1, <3>2
    <2> HIDE DEF b
    <2>6. Len(w) = Len(b) + Len(e) /\ \A i \in 1..Len(b) : w[i] = b[i]
      BY <1>2, <2>3, <2>5, Joined
    <2>7. Len(b) \in Nat /\ Len(e) \in Nat
      BY <1>2, <2>5
    <2>8. 1 \in 1..Len(w) /\ w[1] = Open
      BY <2>5, <2>6, <2>7
    <2> QED BY <2>8
  <1> QED BY <1>1, <1>3, <1>4

\* Of an address there is no dot left, but a colon.
LEMMA AddressLeft ==
  ASSUME NEW w \in Text, NEW h \in ToSocketAddrs(w), IPv6(h)
  PROVE  /\ normalize(w) \in Text
         /\ \A p \in 1..Len(normalize(w)) : normalize(w)[p] # Point
         /\ \E p \in 1..Len(normalize(w)) : normalize(w)[p] = Colon
  <1>1. PICK d \in Labels : \/ h \in Text /\ w = h \o <<Colon, d>>
                            \/ IPv6(h) /\ w = Bracketed(h) \o <<Colon, d>>
    BY HostIn
  <1>2. PICK m \in Nat : m = Len(h) /\ DOMAIN h = 1..m
    BY DEF IPv6
  <1>3. h \in Text /\ \A p \in 1..m : h[p] \in Labels \cup {Colon}
    <2>1. Labels \cup {Colon} \subseteq Tok
      BY CleanLabels
    <2>2. h \in Seq(Labels \cup {Colon})
      BY DEF IPv6, Colon
    <2> QED BY <1>2, <2>1, <2>2 DEF Text
  <1>4. PICK i \in Nat, j \in Nat : 1 <= i /\ i < j /\ j <= m /\ h[i] = Colon /\ h[j] = Colon
    BY <1>2 DEF IPv6, Colon
  <1>5. h # <<>> /\ Clean(h)
    <2>1. m # 0
      BY <1>4
    <2> QED BY <1>2, <1>3, <2>1, TextLen, CleanLabels DEF Clean
  <1> DEFINE u == UpToLast(Colon, h)
  <1>6. /\ u \in Text /\ i <= Len(u) /\ Len(u) <= m /\ u[i] = Colon
        /\ \A p \in 1..Len(u) : u[p] = h[p]
    BY <1>2, <1>3, <1>4, ColonLeft
  <1> HIDE DEF u
  <1>7. normalize(w) \in {to_ascii_lowercase(h), to_ascii_lowercase(u)}
    <2>1. CASE w = h \o <<Colon, d>>
      BY <1>3, <1>5, <2>1, NormalizeHost
    <2>2. CASE w = Bracketed(h) \o <<Colon, d>>
      <3>1. w = ((<<Open>> \o h) \o <<Close>>) \o <<Colon, d>>
        BY <2>2 DEF Bracketed, Open, Close
      <3> QED BY <1>3, <1>5, <3>1, NormalizeBracketed DEF u
    <2> QED BY <1>1, <2>1, <2>2
  <1>8. ASSUME NEW s \in {h, u}
        PROVE  /\ to_ascii_lowercase(s) \in Text
               /\ \A p \in 1..Len(to_ascii_lowercase(s)) : to_ascii_lowercase(s)[p] # Point
               /\ \E p \in 1..Len(to_ascii_lowercase(s)) : to_ascii_lowercase(s)[p] = Colon
    <2>1. /\ s \in Text /\ i <= Len(s) /\ Len(s) <= m /\ s[i] = Colon
          /\ \A p \in 1..Len(s) : s[p] = h[p]
      <3>1. i <= m /\ m <= m
        BY <1>4
      <3> QED BY <1>2, <1>3, <1>4, <1>6, <3>1
    <2>2. PICK k \in Nat : k = Len(s)
      BY <2>1, TextLen
    <2> DEFINE l == to_ascii_lowercase(s)
    <2>3. l \in Text /\ Len(l) = k /\ \A p \in 1..k : l[p] = Lower[s[p]]
      BY <2>1, <2>2, LowerText
    <2> HIDE DEF l
    <2>4. i \in 1..k /\ \A p \in 1..k : p \in 1..m
      BY <1>4, <2>1, <2>2
    <2>5. \A p \in 1..k : s[p] \in Labels \cup {Colon}
      BY <1>3, <2>1, <2>2, <2>4
    <2>6. /\ Lower[Colon] = Colon /\ Colon # Point
          /\ \A t \in Labels : Lower[t] # Point
      BY CleanLabels, PointToken, LowerAssumption
    <2>7. \A p \in 1..k : l[p] # Point
      BY <2>3, <2>5, <2>6
    <2>8. l[i] = Colon
      BY <2>1, <2>3, <2>4, <2>6
    <2> QED BY <2>3, <2>4, <2>7, <2>8 DEF l
  <1> QED BY <1>7, <1>8

\* A name without a colon does not match what has one and no dot.
LEMMA NamesMissAddress ==
  ASSUME NEW p, IsPattern(p), p.kind # "Any", Colon \notin Range(p.name),
         NEW g \in Text, \A i \in 1..Len(g) : g[i] # Point, \E i \in 1..Len(g) : g[i] = Colon
  PROVE  ~matches(LowerPattern(p), g)
  <1> DEFINE u == to_ascii_lowercase(p.name)
  <1>1. p.kind \in {"Exact", "SubdomainsOnly", "ApexAndSubdomains"} /\ p.name \in Text
    BY DEF IsPattern, Text, Tok
  <1>2. matches(LowerPattern(p), g) => g = u \/ IsSuffix(Dot \o u, g)
    BY <1>1 DEF LowerPattern, Pattern, matches
  <1>3. PICK k \in Nat : k = Len(p.name) /\ DOMAIN p.name = 1..k
    BY <1>1, TextLen
  <1>4. u \in Text /\ Len(u) = k /\ \A i \in 1..k : u[i] = Lower[p.name[i]]
    BY <1>1, <1>3, LowerText
  <1> HIDE DEF u
  <1>5. \A i \in 1..k : u[i] # Colon
    <2>1. \A i \in 1..k : p.name[i] \in Tok /\ p.name[i] # Colon
      BY <1>1, <1>3, TextLen DEF Range
    <2> QED BY <1>4, <2>1, LowerToken, CleanLabels
  <1>6. g # u
    BY <1>4, <1>5
  <1>7. ~IsSuffix(Dot \o u, g)
    <2>1. DOMAIN g = 1..Len(g)
      BY TextLen
    <2> QED BY <1>4, <2>1, BehindDot
  <1> QED BY <1>2, <1>6, <1>7

-----------------------------------------------------------------------------
(* The decision along a run.                                               *)

Patterns(rs) == Allowlist_parse(allowlist([i \in DOMAIN rs |-> Rule(rs[i])]))

Permits(rs, w) == allows(Patterns(rs), w)

\* The allowlist stays as it was parsed, and what was done about the target is
\* what it says of it.
Decided ==
  /\ patterns = Patterns(rules)
  /\ dialled # {} => Permits(rules, target)
  /\ "403" \in Range(seen) => ~Permits(rules, target)

LEMMA InitDecided == Init => Decided
  <1> SUFFICES ASSUME Init PROVE Decided
    OBVIOUS
  <1>1. patterns = Patterns(rules)
    BY DEF Init, Patterns
  <1>2. dialled = {} /\ Range(seen) = {}
    BY DEF Init, Range
  <1> QED BY <1>1, <1>2 DEF Decided

\* Only Dial tries the target and only Refuse says 403.
LEMMA NextDecided == IInv /\ Decided /\ [Next]_vars => Decided'
  <1> SUFFICES ASSUME IInv, Decided, [Next]_vars
               PROVE  Decided'
    OBVIOUS
  <1>1. UNCHANGED asked
    BY DEF Next, vars, ClientSends, ClientFinishes, ReadHeader, ReadNothing, Refuse, Dial,
           Connected, Reply, Forward, TunnelUp, TunnelDown, TunnelEnds
  <1>2. rules' = rules /\ target' = target /\ patterns' = patterns
    BY <1>1 DEF asked
  <1> DEFINE yes == Permits(rules, target)
  <1>3. allows(patterns, target) <=> yes
    BY DEF Decided, Permits
  <1> HIDE DEF yes
  <1>4. seen \in Seq(Answers \cup {"server"})
    BY DEF IInv, Typed
  <1>5. /\ dialled' # {} => dialled # {} \/ yes
        /\ \/ seen' = seen
           \/ \E a \in (Answers \cup {"server"}) \ {"403"} : seen' = Append(seen, a)
           \/ seen' = Append(seen, "403") /\ ~yes
    <2>1. CASE UNCHANGED <<seen, dialled>>
      BY <2>1
    <2>2. CASE Refuse
      BY <1>3, <2>2 DEF Refuse, Answer, Answers
    <2>3. CASE Dial
      BY <1>3, <2>3 DEF Dial
    <2>4. CASE Connected
      BY <2>4 DEF Connected, Answer, Answers
    <2>5. CASE Reply
      BY <2>5 DEF Reply, Answers
    <2>6. CASE TunnelDown
      BY <2>6 DEF TunnelDown
    <2>7. QED
      BY <2>1, <2>2, <2>3, <2>4, <2>5, <2>6
         DEF Next, vars, ClientSends, ClientFinishes, ReadHeader, ReadNothing, Forward,
             TunnelUp, TunnelEnds
  <1>6. \A a : Range(Append(seen, a)) = Range(seen) \cup {a}
    <2>1. ASSUME NEW a PROVE Range(Append(seen, a)) = Range(seen) \cup {a}
      <3>1. PICK k \in Nat : k = Len(seen) /\ DOMAIN seen = 1..k
        BY <1>4
      <3>2. /\ DOMAIN Append(seen, a) = 1..(k + 1) /\ Append(seen, a)[k + 1] = a
            /\ \A i \in 1..k : Append(seen, a)[i] = seen[i]
        BY <1>4, <3>1
      <3>3. \A i \in 1..(k + 1) : i \in 1..k \/ i = k + 1
        OBVIOUS
      <3>4. k + 1 \in 1..(k + 1) /\ \A i \in 1..k : i \in 1..(k + 1)
        OBVIOUS
      <3> QED BY <3>1, <3>2, <3>3, <3>4 DEF Range
    <2> QED BY <2>1
  <1>7. "403" \in Range(seen') => "403" \in Range(seen) \/ ~yes
    BY <1>5, <1>6
  <1>8. Permits(rules, target)' <=> yes
    BY <1>2 DEF yes, Permits, Patterns
  <1> QED BY <1>2, <1>5, <1>7, <1>8 DEF Decided, yes, Patterns

LEMMA DecidedInvariance == Spec => [](IInv /\ Decided)
  <1>1. Init => IInv /\ Decided
    BY InitIInv, InitDecided
  <1>2. IInv /\ Decided /\ [Next]_vars => (IInv /\ Decided)'
    BY NextIInv, NextDecided
  <1> QED BY <1>1, <1>2, PTL DEF Spec

\* Each rule has its pattern at the proxy.
LEMMA PatternsMeant ==
  ASSUME NEW rs \in Rules, \A i \in DOMAIN rs : Plain(rs[i].means)
  PROVE  /\ DOMAIN Patterns(rs) = DOMAIN rs
         /\ \A i \in DOMAIN rs : /\ IsPattern(rs[i].means)
                                 /\ Patterns(rs)[i] = LowerPattern(rs[i].means)
  <1>1. \A i \in DOMAIN rs : IsRule(rs[i])
    BY NameAssumption DEF IsRule, Space
  <1> DEFINE hosts == [i \in DOMAIN rs |-> Rule(rs[i])]
             strings == allowlist(hosts)
             ps == Patterns(rs)
  <1>2. DOMAIN strings = DOMAIN rs
    BY DEF allowlist
  <1>3. \A i \in DOMAIN rs : strings[i] = to_pattern_string(Rule(rs[i]))
    BY DEF allowlist
  <1>4. ps = [i \in DOMAIN strings |-> Pattern_parse(strings[i])]
    BY DEF Patterns, Allowlist_parse
  <1> HIDE DEF strings, ps
  <1>5. \A i \in DOMAIN rs :
          Pattern_parse(to_pattern_string(Rule(rs[i]))) = LowerPattern(rs[i].means)
    BY <1>1, RuleReceived
  <1> QED BY <1>1, <1>2, <1>3, <1>4, <1>5 DEF IsRule, ps

\* What the proxy permits is what the caller's rules cover.
LEMMA PermitsMeant ==
  ASSUME NEW rs \in Rules, \A i \in DOMAIN rs : Plain(rs[i].means),
         NEW w \in Text, NEW h \in Text, normalize(w) = to_ascii_lowercase(h)
  PROVE  Permits(rs, w) <=> \E i \in DOMAIN rs : Covers(rs[i].means, h)
  <1>1. Permits(rs, w) <=>
          \E i \in DOMAIN Patterns(rs) : matches(Patterns(rs)[i], to_ascii_lowercase(h))
    BY DEF Permits, allows
  <1>2. \A i \in DOMAIN rs :
          matches(LowerPattern(rs[i].means), to_ascii_lowercase(h)) <=> Covers(rs[i].means, h)
    BY PatternsMeant, MatchesMeant
  <1> QED BY <1>1, <1>2, PatternsMeant

\* A target is a text without spaces.
LEMMA TargetText ==
  ASSUME IInv
  PROVE  target \in Text /\ \A i \in 1..Len(target) : target[i] # Space
  <1>1. target \in Seq(Tok \ {Space})
    BY NameAssumption DEF IInv, Typed, Tok, Space
  <1> QED BY <1>1 DEF Text

\* From the caller's pattern through HostPattern::parse, to_pattern_string,
\* Pattern::parse, normalize and matches to the connection: for every alphabet,
\* allowlist of plain rules, written or built, and every word without a bracket
\* as target, a host is tried only if a rule covers it, and a target refused
\* with 403 only if none covers its host.
THEOREM DecisionFollowsRules == Spec => []DecisionAsMeant
  <1>1. IInv /\ Decided => DecisionAsMeant
    <2> SUFFICES ASSUME IInv, Decided, PlainRules, Range(target) \cap {"[", "]"} = {}
                 PROVE  /\ \A h \in dialled : Covered(h)
                        /\ "403" \in Range(seen) => \A h \in ToSocketAddrs(target) : ~Covered(h)
      BY DEF DecisionAsMeant
    <2>1. /\ rules \in Rules /\ \A i \in DOMAIN rules : Plain(rules[i].means)
          /\ dialled \subseteq ToSocketAddrs(target)
      BY DEF IInv, Typed, PlainRules
    <2>2. target \in Text /\ \A i \in 1..Len(target) : target[i] \notin {Space, Open, Close}
      BY TargetText, TextLen DEF Range, Open, Close
    <2>3. ASSUME NEW h \in ToSocketAddrs(target)
          PROVE  Permits(rules, target) <=> Covered(h)
      <3>1. h \in Text /\ normalize(target) = to_ascii_lowercase(h)
        BY <2>2, PlainHost
      <3> QED BY <2>1, <2>2, <3>1, PermitsMeant DEF Covered
    <2> QED BY <2>1, <2>3 DEF Decided
  <1> QED BY <1>1, DecidedInvariance, PTL

\* The note at normalize (matcher.rs), "a mangled IPv6 literal won't match a
\* hostname allowlist": for every alphabet, allowlist of plain names and target,
\* bracketed or not, no IPv6 address is tried.
THEOREM AddressFailsClosed == Spec => []AddressRefused
  <1>1. IInv /\ Decided => AddressRefused
    <2> SUFFICES ASSUME IInv, Decided, PlainRules,
                        \A i \in DOMAIN rules : /\ rules[i].means.kind # "Any"
                                                /\ ":" \notin Range(rules[i].means.name),
                        NEW h \in dialled, IPv6(h)
                 PROVE  FALSE
      BY DEF AddressRefused
    <2>1. /\ rules \in Rules /\ \A i \in DOMAIN rules : Plain(rules[i].means)
          /\ h \in ToSocketAddrs(target)
      BY DEF IInv, Typed, PlainRules
    <2>2. target \in Text
      BY TargetText
    <2> DEFINE g == normalize(target)
    <2>3. /\ g \in Text /\ \A p \in 1..Len(g) : g[p] # Point
          /\ \E p \in 1..Len(g) : g[p] = Colon
      BY <2>1, <2>2, AddressLeft
    <2>4. \E i \in DOMAIN Patterns(rules) : matches(Patterns(rules)[i], g)
      BY DEF Decided, Permits, allows
    <2> HIDE DEF g
    <2>5. PICK i \in DOMAIN rules : matches(LowerPattern(rules[i].means), g)
      BY <2>1, <2>4, PatternsMeant
    <2>6. /\ IsPattern(rules[i].means) /\ rules[i].means.kind # "Any"
          /\ Colon \notin Range(rules[i].means.name)
      BY <2>1, <2>5, PatternsMeant DEF Colon
    <2> QED BY <2>3, <2>5, <2>6, NamesMissAddress
  <1> QED BY <1>1, DecidedInvariance, PTL
=============================================================================
