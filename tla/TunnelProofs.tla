------------------------------- MODULE TunnelProofs -------------------------------
(***************************************************************************)
(* Proofs about a tunnelled connection, for a chain of any stages, any     *)
(* buffers and any number of bytes.                                        *)
(***************************************************************************)
EXTENDS Tunnel, SequenceTheorems, TLAPS

\* s is the bytes that follow byte h.
Counts(s, h) == \A k \in 1..Len(s) : s[k] = h + k

\* Link k lies before link l, or is l, on the way of direction d.
Before(d, k, l) == IF d = "up" THEN k <= l ELSE l <= k

-----------------------------------------------------------------------------
(* Sequences.                                                              *)

\* No bytes follow any byte.
LEMMA CountsNone == \A h : Counts(<<>>, h)
  BY DEF Counts

\* What is taken off the front and what stays.
LEMMA Split ==
  ASSUME NEW s \in Seq(Nat), NEW h \in Nat, Counts(s, h), NEW n \in 1..Len(s)
  PROVE  /\ n \in Nat
         /\ SubSeq(s, 1, n) \in Seq(Nat) /\ Len(SubSeq(s, 1, n)) = n
         /\ Counts(SubSeq(s, 1, n), h)
         /\ SubSeq(s, n + 1, Len(s)) \in Seq(Nat)
         /\ Len(SubSeq(s, n + 1, Len(s))) + n = Len(s)
         /\ Counts(SubSeq(s, n + 1, Len(s)), h + n)
  <1>1. n \in Nat /\ n >= 1 /\ Len(s) \in Nat /\ n <= Len(s)
    OBVIOUS
  <1>2. /\ SubSeq(s, 1, n) \in Seq(Nat) /\ Len(SubSeq(s, 1, n)) = n
        /\ \A k \in 1..n : SubSeq(s, 1, n)[k] = s[k]
    BY <1>1
  <1>3. Counts(SubSeq(s, 1, n), h)
    BY <1>1, <1>2 DEF Counts
  <1>4. /\ SubSeq(s, n + 1, Len(s)) \in Seq(Nat)
        /\ Len(SubSeq(s, n + 1, Len(s))) = Len(s) - n
        /\ \A k \in 1..Len(s) - n : SubSeq(s, n + 1, Len(s))[k] = s[n + k]
    BY <1>1
  <1>5. Counts(SubSeq(s, n + 1, Len(s)), h + n)
    <2> SUFFICES ASSUME NEW k \in 1..Len(s) - n
                 PROVE  SubSeq(s, n + 1, Len(s))[k] = (h + n) + k
      BY <1>4 DEF Counts
    <2>1. n + k \in 1..Len(s) /\ k \in Nat
      BY <1>1
    <2>2. s[n + k] = h + (n + k)
      BY <2>1 DEF Counts
    <2>3. h + (n + k) = (h + n) + k
      BY <1>1, <2>1
    <2>4. QED
      BY <1>4, <2>2, <2>3
  <1>6. QED
    BY <1>1, <1>2, <1>3, <1>4, <1>5

\* Appending the bytes that come next leaves no gap.
LEMMA Concat ==
  ASSUME NEW s \in Seq(Nat), NEW t \in Seq(Nat), NEW h \in Nat,
         Counts(s, h), Counts(t, h + Len(s))
  PROVE  /\ s \o t \in Seq(Nat)
         /\ Len(s \o t) = Len(s) + Len(t)
         /\ Counts(s \o t, h)
  <1>1. s \o t \in Seq(Nat) /\ Len(s \o t) = Len(s) + Len(t)
    BY ConcatProperties
  <1>2. ASSUME NEW k \in 1..Len(s) + Len(t)
        PROVE  (s \o t)[k] = h + k
    <2>1. Len(s) \in Nat /\ Len(t) \in Nat /\ k \in Nat
      OBVIOUS
    <2>2. CASE k <= Len(s)
      <3>1. k \in 1..Len(s) /\ (s \o t)[k] = s[k]
        BY <2>2
      <3>2. QED
        BY <3>1 DEF Counts
    <2>3. CASE k > Len(s)
      <3>1. (s \o t)[k] = t[k - Len(s)]
        BY <2>3
      <3>2. k - Len(s) \in 1..Len(t)
        BY <2>1, <2>3
      <3>3. t[k - Len(s)] = (h + Len(s)) + (k - Len(s))
        BY <3>2 DEF Counts
      <3>4. (h + Len(s)) + (k - Len(s)) = h + k
        BY <2>1
      <3>5. QED
        BY <3>1, <3>3, <3>4
    <2>4. QED
      BY <2>1, <2>2, <2>3
  <1>3. QED
    BY <1>1, <1>2 DEF Counts

\* The next byte at the end.
LEMMA CountsAppend ==
  ASSUME NEW s \in Seq(Nat), NEW h \in Nat, Counts(s, h), NEW x, x = h + Len(s) + 1
  PROVE  /\ Append(s, x) \in Seq(Nat) /\ Len(Append(s, x)) = Len(s) + 1
         /\ Counts(Append(s, x), h)
  <1>1. Len(s) \in Nat /\ x \in Nat
    OBVIOUS
  <1>2. /\ Append(s, x) \in Seq(Nat) /\ Len(Append(s, x)) = Len(s) + 1
        /\ \A k \in 1..Len(s) : Append(s, x)[k] = s[k]
        /\ Append(s, x)[Len(s) + 1] = x
    BY <1>1
  <1>3. ASSUME NEW k \in 1..Len(s) + 1
        PROVE  Append(s, x)[k] = h + k
    <2>1. CASE k \in 1..Len(s)
      BY <1>2, <2>1 DEF Counts
    <2>2. CASE k = Len(s) + 1
      <3>1. h + (Len(s) + 1) = x
        BY <1>1
      <3>2. QED
        BY <1>2, <2>2, <3>1
    <2>3. QED
      BY <1>1, <2>1, <2>2
  <1>4. QED
    BY <1>2, <1>3 DEF Counts

\* The byte at the front, and the rest.
LEMMA CountsTail ==
  ASSUME NEW s \in Seq(Nat), NEW h \in Nat, Counts(s, h), s # <<>>
  PROVE  /\ Head(s) = h + 1
         /\ Tail(s) \in Seq(Nat) /\ Len(Tail(s)) + 1 = Len(s)
         /\ Counts(Tail(s), h + 1)
  <1>1. Len(s) \in Nat /\ Len(s) >= 1
    OBVIOUS
  <1>2. /\ Head(s) = s[1] /\ Tail(s) \in Seq(Nat) /\ Len(Tail(s)) = Len(s) - 1
        /\ \A k \in 1..Len(s) - 1 : Tail(s)[k] = s[k + 1]
    OBVIOUS
  <1>3. s[1] = h + 1
    BY <1>1 DEF Counts
  <1>4. ASSUME NEW k \in 1..Len(s) - 1
        PROVE  Tail(s)[k] = (h + 1) + k
    <2>1. k + 1 \in 1..Len(s) /\ k \in Nat
      BY <1>1
    <2>2. s[k + 1] = h + (k + 1)
      BY <2>1 DEF Counts
    <2>3. h + (k + 1) = (h + 1) + k
      BY <2>1
    <2>4. QED
      BY <1>2, <2>2, <2>3
  <1>5. Counts(Tail(s), h + 1)
    BY <1>2, <1>4 DEF Counts
  <1>6. QED
    BY <1>1, <1>2, <1>3, <1>5

-----------------------------------------------------------------------------
(* The chain.                                                              *)

\* Where a direction begins and ends, and what a stage lies between.
LEMMA Chain ==
  ASSUME setup \in Setups, NEW d \in Dirs
  PROVE  /\ Other(d) \in Dirs /\ Other(d) # d /\ Other(Other(d)) = d
         /\ First(d) \in Links /\ Last(d) \in Links /\ First(d) # Last(d)
         /\ First(Other(d)) = Last(d)
         /\ \A l \in Links : Before(d, l, Last(d)) /\ (Before(d, l, First(d)) => l = First(d))
         /\ \A l \in Links : l = First(d) \/ \E i \in Stages : l = To(d, i)
         /\ \A i \in Stages :
              /\ From(d, i) \in Links /\ To(d, i) \in Links
              /\ From(d, i) # To(d, i)
              /\ From(d, i) # Last(d) /\ To(d, i) # First(d)
              /\ From(Other(d), i) = To(d, i) /\ To(Other(d), i) = From(d, i)
              /\ \A l \in Links : Before(d, l, To(d, i)) => l = To(d, i) \/ Before(d, l, From(d, i))
         /\ \A i, j \in Stages : From(d, i) = From(d, j) \/ To(d, i) = To(d, j) => i = j
  <1> DEFINE N == Len(kinds)
  <1>1. N \in Nat /\ N > 0 /\ Stages = 1..N /\ Links = 0..N
    BY TunnelAssumption DEF Stages, Links, kinds
  <1>2. d = "up" \/ d = "down"
    BY DEF Dirs
  <1>3. First(d) = (IF d = "up" THEN 0 ELSE N) /\ Last(d) = (IF d = "up" THEN N ELSE 0)
    BY <1>2 DEF First, Last, Other
  <1>4. Other(d) \in Dirs /\ Other(d) # d /\ Other(Other(d)) = d
    BY <1>2 DEF Other, Dirs
  <1> HIDE DEF N
  <1>5. /\ First(d) \in Links /\ Last(d) \in Links /\ First(d) # Last(d)
        /\ First(Other(d)) = Last(d)
    BY <1>1, <1>3 DEF Last
  <1>6. \A l \in Links : Before(d, l, Last(d)) /\ (Before(d, l, First(d)) => l = First(d))
    BY <1>1, <1>2, <1>3 DEF Before
  <1>7. \A l \in Links : l = First(d) \/ \E i \in Stages : l = To(d, i)
    <2> SUFFICES ASSUME NEW l \in Links, l # First(d)
                 PROVE  \E i \in Stages : l = To(d, i)
      OBVIOUS
    <2>1. CASE d = "up"
      BY <2>1, <1>1, <1>3 DEF To
    <2>2. CASE d = "down"
      <3>1. l + 1 \in Stages /\ l = (l + 1) - 1
        BY <2>2, <1>1, <1>3
      <3>2. QED
        BY <2>2, <3>1 DEF To
    <2>3. QED
      BY <2>1, <2>2, <1>2
  <1>8. ASSUME NEW i \in Stages
        PROVE  /\ From(d, i) \in Links /\ To(d, i) \in Links
               /\ From(d, i) # To(d, i)
               /\ From(d, i) # Last(d) /\ To(d, i) # First(d)
               /\ From(Other(d), i) = To(d, i) /\ To(Other(d), i) = From(d, i)
               /\ \A l \in Links :
                    Before(d, l, To(d, i)) => l = To(d, i) \/ Before(d, l, From(d, i))
    BY <1>1, <1>2, <1>3 DEF From, To, Other, Before
  <1>9. \A i, j \in Stages : From(d, i) = From(d, j) \/ To(d, i) = To(d, j) => i = j
    BY <1>1, <1>2 DEF From, To
  <1>10. QED
    BY <1>4, <1>5, <1>6, <1>7, <1>8, <1>9

\* The ends.
LEMMA TwoEnds ==
  /\ \A e \in Ends : Out(e) \in Dirs /\ Reader(Other(Out(e))) = e
  /\ \A d \in Dirs : /\ Reader(d) \in Ends /\ Out(Reader(d)) = Other(d)
                     /\ Other(d) \in Dirs /\ Other(Other(d)) = d
  BY DEF Ends, Dirs, Out, Reader, Other

-----------------------------------------------------------------------------
(* The invariant.  b[d][l] is the number of bytes of direction d that were *)
(* read from link l, h[d][i] the number that stage i has written on.       *)

Counters == [Dirs -> [Links -> Nat]]
Written == [Dirs -> [Stages -> Nat]]

Shape ==
  /\ setup \in Setups
  /\ buf \in [Dirs -> [Links -> Seq(Nat)]]
  /\ shut \in [Links -> SUBSET Dirs]
  /\ gone \in [Links -> SUBSET Dirs]
  /\ reset \subseteq Links
  /\ hand \in [Dirs -> [Stages -> Seq(Nat)]]
  /\ copy \in [Dirs -> [Stages -> {"copying", "done"}]]
  /\ stage \in [Stages -> {"starting", "open", "closed"}]
  /\ sent \in [Dirs -> Nat]
  /\ rcvd \in [Dirs -> Seq(Nat)]
  /\ ended \in [Dirs -> BOOLEAN]
  /\ closed \subseteq Ends

\* What lies in a link are the bytes that follow those read from it.
LinkFlow(b) ==
  \A d \in Dirs, l \in Links :
    /\ Counts(buf[d][l], b[d][l])
    /\ b[d][l] + Len(buf[d][l]) <= sent[d]

\* What a stage holds are the bytes between its two links, without a gap.
StageFlow(b, h) ==
  \A d \in Dirs, i \in Stages :
    /\ Counts(hand[d][i], h[d][i])
    /\ h[d][i] + Len(hand[d][i]) <= sent[d]
    /\ stage[i] # "closed" => h[d][i] + Len(hand[d][i]) = b[d][From(d, i)]
    /\ stage[i] # "closed" /\ d \notin gone[To(d, i)] =>
         b[d][To(d, i)] + Len(buf[d][To(d, i)]) = h[d][i]

\* The same between the ends and the first and the last link.
EndFlow(b) ==
  \A d \in Dirs :
    /\ d \notin gone[First(d)] => b[d][First(d)] + Len(buf[d][First(d)]) = sent[d]
    /\ Counts(rcvd[d], 0)
    /\ Len(rcvd[d]) <= sent[d]
    /\ Reader(d) \notin closed => Len(rcvd[d]) = b[d][Last(d)]

\* A link is shut by a stage that is done, and an end seen is an end.
EndsInv ==
  \A d \in Dirs :
    /\ \A i \in Stages : d \in shut[To(d, i)] => copy[d][i] = "done" \/ stage[i] = "closed"
    /\ ended[d] => d \in shut[Last(d)] /\ buf[d][Last(d)] = <<>>

\* The writer is done and all it wrote has come as far as link l.
Complete(b, d, l) == d \in shut[First(d)] /\ b[d][l] + Len(buf[d][l]) = sent[d]

\* As long as nobody gave up, a link that is shut has carried everything, and
\* so have all links before it.
ShutInv(b) ==
  \A d \in Dirs, l \in Links :
    /\ d \in shut[l] => Complete(b, d, l)
    /\ d \in shut[l] => \A k \in Links : Before(d, k, l) => d \in shut[k]
    /\ d \in gone[l] => d \in shut[l] /\ buf[d][l] = <<>>

DoneInv(b) ==
  \A d \in Dirs, i \in Stages :
    /\ copy[d][i] = "done" =>
         /\ buf[d][From(d, i)] = <<>> /\ hand[d][i] = <<>>
         /\ d \in shut[From(d, i)]
         /\ Complete(b, d, To(d, i))
    /\ kinds[i] = "pump" /\ d \in shut[To(d, i)] => stage[i] = "closed"

Quiet(b) == ~Broken => reset = {} /\ ShutInv(b) /\ DoneInv(b)

Held(b, h) ==
  Shape /\ LinkFlow(b) /\ StageFlow(b, h) /\ EndFlow(b) /\ EndsInv /\ Quiet(b)

IInv == \E b \in Counters, h \in Written : Held(b, h)

-----------------------------------------------------------------------------
(* Steps.                                                                  *)

\* The chain does not change.
LEMMA Frame ==
  ASSUME setup' = setup
  PROVE  /\ kinds' = kinds /\ reads' = reads
         /\ Stages' = Stages /\ Links' = Links
         /\ Counters' = Counters /\ Written' = Written
         /\ \A d \in Dirs : First(d)' = First(d) /\ Last(d)' = Last(d)
  BY DEF kinds, reads, Stages, Links, Counters, Written, First, Last

\* At the start nothing was written, read, shut or closed.
LEMMA InitHeld == Init => IInv
  <1> SUFFICES ASSUME Init
               PROVE  IInv
    OBVIOUS
  <1> DEFINE b == [d \in Dirs |-> [l \in Links |-> 0]]
             h == [d \in Dirs |-> [i \in Stages |-> 0]]
  <1>1. b \in Counters /\ h \in Written
    BY DEF Counters, Written
  <1>2. Shape
    BY DEF Init, Shape
  <1>3. Len(<<>>) = 0
    OBVIOUS
  <1>4. \A d \in Dirs :
          /\ First(d) \in Links /\ Last(d) \in Links
          /\ \A i \in Stages : From(d, i) \in Links /\ To(d, i) \in Links
    BY Chain DEF Init
  <1>5. LinkFlow(b)
    BY CountsNone, <1>3 DEF Init, LinkFlow
  <1>6. StageFlow(b, h)
    BY CountsNone, <1>3, <1>4 DEF Init, StageFlow
  <1>7. EndFlow(b)
    BY CountsNone, <1>3, <1>4 DEF Init, EndFlow
  <1>8. EndsInv
    BY <1>4 DEF Init, EndsInv
  <1>9. Quiet(b)
    BY <1>4 DEF Init, Quiet, ShutInv, DoneInv
  <1>10. QED
    BY <1>1, <1>2, <1>5, <1>6, <1>7, <1>8, <1>9 DEF IInv, Held

\* What lies in the links and in the hands of stages, by types.
LEMMA Types ==
  ASSUME Shape, NEW b \in Counters, NEW h \in Written, NEW d \in Dirs
  PROVE  /\ sent[d] \in Nat
         /\ rcvd[d] \in Seq(Nat) /\ Len(rcvd[d]) \in Nat
         /\ \A l \in Links : buf[d][l] \in Seq(Nat) /\ Len(buf[d][l]) \in Nat /\ b[d][l] \in Nat
         /\ \A i \in Stages : hand[d][i] \in Seq(Nat) /\ Len(hand[d][i]) \in Nat /\ h[d][i] \in Nat
  <1>1. /\ sent[d] \in Nat /\ rcvd[d] \in Seq(Nat)
        /\ \A l \in Links : buf[d][l] \in Seq(Nat) /\ b[d][l] \in Nat
        /\ \A i \in Stages : hand[d][i] \in Seq(Nat) /\ h[d][i] \in Nat
    BY DEF Shape, Counters, Written
  <1>2. \A s \in Seq(Nat) : Len(s) \in Nat
    OBVIOUS
  <1>3. QED
    BY <1>1, <1>2

\* Sockets S, those of stages I and of ends E, are closed, and what the stages
\* hold is perhaps dropped.
Closing(I, E, S) ==
  /\ \A d \in Dirs, l \in Links :
       <<l, d>> \in S <=> (\E i \in I : l = From(d, i)) \/ (Reader(d) \in E /\ l = Last(d))
  /\ Close(S)
  /\ UNCHANGED <<setup, copy, sent, rcvd, ended>>
  /\ closed' = closed \cup E
  /\ stage' \in [Stages -> {"starting", "open", "closed"}]
  /\ \A i \in Stages : stage'[i] = IF i \in I THEN "closed" ELSE stage[i]
  /\ hand' \in [Dirs -> [Stages -> Seq(Nat)]]
  /\ \A d \in Dirs, i \in Stages :
       hand'[d][i] = hand[d][i] \/ (i \in I /\ hand'[d][i] = <<>>)

\* Only if all that close had seen the end of what they read is the connection
\* not broken, and then nothing is lost.
LEMMA CloseKeeps ==
  ASSUME NEW b \in Counters, NEW h \in Written, Held(b, h),
         NEW I \in SUBSET Stages, NEW E \in SUBSET Ends, NEW S, Closing(I, E, S)
  PROVE  Held(b, h)'
  <1> USE DEF Closing
  <1>1. Shape /\ LinkFlow(b) /\ StageFlow(b, h) /\ EndFlow(b) /\ EndsInv /\ Quiet(b)
    BY DEF Held
  <1>2. setup \in Setups
    BY <1>1 DEF Shape
  <1>3. /\ kinds' = kinds /\ Stages' = Stages /\ Links' = Links
        /\ \A d \in Dirs : First(d)' = First(d) /\ Last(d)' = Last(d)
    BY Frame
  <1>4. ASSUME NEW d \in Dirs, NEW l \in Links
        PROVE  /\ buf'[d][l] = IF <<l, d>> \in S THEN <<>> ELSE buf[d][l]
               /\ d \in gone'[l] <=> d \in gone[l] \/ <<l, d>> \in S
               /\ d \in shut'[l] <=> d \in shut[l] \/ <<l, Other(d)>> \in S
    BY DEF Close
  <1>5. ASSUME NEW d \in Dirs, NEW l \in Links
        PROVE  <<l, Other(d)>> \in S <=> \/ \E i \in I : l = To(d, i)
                                         \/ Reader(Other(d)) \in E /\ l = First(d)
    <2>1. Other(d) \in Dirs /\ Last(Other(d)) = First(d)
      BY <1>2, Chain
    <2>2. \A i \in I : From(Other(d), i) = To(d, i)
      BY <1>2, Chain
    <2>3. QED
      BY <2>1, <2>2
  <1>5a. ASSUME NEW d \in Dirs, NEW i \in Stages, d \in shut'[To(d, i)]
         PROVE  d \in shut[To(d, i)] \/ i \in I
    <2>1. /\ To(d, i) \in Links /\ To(d, i) # First(d)
          /\ \A j \in Stages : To(d, i) = To(d, j) => i = j
      BY <1>2, Chain
    <2>2. d \in shut[To(d, i)] \/ <<To(d, i), Other(d)>> \in S
      BY <1>4, <1>5a, <2>1
    <2>3. <<To(d, i), Other(d)>> \in S => \E j \in I : To(d, i) = To(d, j)
      BY <1>5, <2>1
    <2>4. QED
      BY <2>1, <2>2, <2>3
  <1>6. Len(<<>>) = 0
    OBVIOUS
  <1>7. Shape'
    <2>1. buf' \in [Dirs -> [Links -> Seq(Nat)]]
      <3>1. <<>> \in Seq(Nat)
        OBVIOUS
      <3>2. \A d \in Dirs, l \in Links : buf[d][l] \in Seq(Nat)
        BY <1>1 DEF Shape
      <3>3. QED
        BY <3>1, <3>2 DEF Close
    <2>2. shut' \in [Links -> SUBSET Dirs] /\ gone' \in [Links -> SUBSET Dirs]
      BY <1>1 DEF Close, Shape
    <2>3. reset' \subseteq Links
      BY <1>1 DEF Close, Shape
    <2>4. QED
      BY <1>1, <1>3, <2>1, <2>2, <2>3 DEF Shape
  <1>8. LinkFlow(b)'
    <2> SUFFICES ASSUME NEW d \in Dirs, NEW l \in Links
                 PROVE  /\ Counts(buf'[d][l], b[d][l])
                        /\ b[d][l] + Len(buf'[d][l]) <= sent[d]
      BY <1>3 DEF LinkFlow
    <2>1. /\ Counts(buf[d][l], b[d][l]) /\ b[d][l] + Len(buf[d][l]) <= sent[d]
      BY <1>1 DEF LinkFlow
    <2>2. b[d][l] \in Nat /\ Len(buf[d][l]) \in Nat /\ sent[d] \in Nat
      BY <1>1, Types
    <2>3. b[d][l] + 0 <= sent[d]
      BY <2>1, <2>2
    <2>4. CASE <<l, d>> \in S
      <3>1. buf'[d][l] = <<>>
        BY <1>4, <2>4
      <3>2. QED
        BY <1>6, <2>3, <3>1, CountsNone
    <2>5. CASE <<l, d>> \notin S
      BY <1>4, <2>1, <2>5
    <2>6. QED
      BY <2>4, <2>5
  <1>9. StageFlow(b, h)'
    <2> SUFFICES ASSUME NEW d \in Dirs, NEW i \in Stages
                 PROVE  /\ Counts(hand'[d][i], h[d][i])
                        /\ h[d][i] + Len(hand'[d][i]) <= sent[d]
                        /\ stage'[i] # "closed" =>
                             h[d][i] + Len(hand'[d][i]) = b[d][From(d, i)]
                        /\ stage'[i] # "closed" /\ d \notin gone'[To(d, i)] =>
                             b[d][To(d, i)] + Len(buf'[d][To(d, i)]) = h[d][i]
      BY <1>3 DEF StageFlow
    <2>1. /\ Counts(hand[d][i], h[d][i]) /\ h[d][i] + Len(hand[d][i]) <= sent[d]
          /\ stage[i] # "closed" => h[d][i] + Len(hand[d][i]) = b[d][From(d, i)]
          /\ stage[i] # "closed" /\ d \notin gone[To(d, i)] =>
               b[d][To(d, i)] + Len(buf[d][To(d, i)]) = h[d][i]
      BY <1>1 DEF StageFlow
    <2>2. h[d][i] \in Nat /\ Len(hand[d][i]) \in Nat /\ sent[d] \in Nat
      BY <1>1, Types
    <2>3. h[d][i] + 0 <= sent[d]
      BY <2>1, <2>2
    <2>4. To(d, i) \in Links
      BY <1>2, Chain
    <2>5. stage'[i] # "closed" => stage[i] # "closed" /\ i \notin I
      OBVIOUS
    <2>6. QED
      BY <1>4, <1>6, <2>1, <2>3, <2>4, <2>5, CountsNone
  <1>10. EndFlow(b)'
    <2> SUFFICES ASSUME NEW d \in Dirs
                 PROVE  /\ d \notin gone'[First(d)] =>
                             b[d][First(d)] + Len(buf'[d][First(d)]) = sent[d]
                        /\ Counts(rcvd[d], 0)
                        /\ Len(rcvd[d]) <= sent[d]
                        /\ Reader(d) \notin closed' => Len(rcvd[d]) = b[d][Last(d)]
      BY <1>3 DEF EndFlow
    <2>1. First(d) \in Links
      BY <1>2, Chain
    <2>2. QED
      BY <1>1, <1>4, <2>1 DEF EndFlow
  <1>11. EndsInv'
    <2> SUFFICES ASSUME NEW d \in Dirs
                 PROVE  /\ \A i \in Stages : d \in shut'[To(d, i)] =>
                             copy[d][i] = "done" \/ stage'[i] = "closed"
                        /\ ended[d] => d \in shut'[Last(d)] /\ buf'[d][Last(d)] = <<>>
      BY <1>3 DEF EndsInv
    <2>1. ASSUME NEW i \in Stages, d \in shut'[To(d, i)]
          PROVE  copy[d][i] = "done" \/ stage'[i] = "closed"
      <3>1. d \in shut[To(d, i)] \/ i \in I
        BY <1>5a, <2>1
      <3>2. QED
        BY <1>1, <3>1 DEF EndsInv
    <2>2. Last(d) \in Links
      BY <1>2, Chain
    <2>3. QED
      BY <1>1, <1>4, <2>1, <2>2 DEF EndsInv
  <1>12. Quiet(b)'
    <2> SUFFICES ASSUME ~Broken'
                 PROVE  reset' = {} /\ ShutInv(b)' /\ DoneInv(b)'
      BY DEF Quiet
    <2>1. ~Broken
      <3>1. \A e \in closed : ended[Other(Out(e))]
        BY DEF Broken
      <3>2. \A i \in Stages : stage[i] = "closed" => \A d \in Dirs : copy[d][i] = "done"
        BY <1>3 DEF Broken
      <3>3. QED
        BY <3>1, <3>2 DEF Broken
    <2>2. \A i \in I, d \in Dirs : copy[d][i] = "done"
      BY <1>3 DEF Broken
    <2>3. \A d \in Dirs : Reader(d) \in E => ended[d]
      <3> SUFFICES ASSUME NEW d \in Dirs, Reader(d) \in E
                   PROVE  ended[d]
        OBVIOUS
      <3>1. Other(Out(Reader(d))) = d
        BY TwoEnds
      <3>2. ended'[Other(Out(Reader(d)))]
        BY DEF Broken
      <3>3. QED
        BY <3>1, <3>2
    <2>4. reset = {} /\ ShutInv(b) /\ DoneInv(b)
      BY <1>1, <2>1 DEF Quiet
    <2>5. ASSUME NEW d \in Dirs, NEW l \in Links, <<l, d>> \in S
          PROVE  d \in shut[l] /\ buf[d][l] = <<>>
      <3>1. CASE \E i \in I : l = From(d, i)
        BY <3>1, <2>2, <2>4 DEF DoneInv
      <3>2. CASE Reader(d) \in E /\ l = Last(d)
        BY <3>2, <2>3, <1>1 DEF EndsInv
      <3>3. QED
        BY <2>5, <3>1, <3>2
    <2>6. ASSUME NEW d \in Dirs, NEW l \in Links
          PROVE  buf'[d][l] = buf[d][l]
      <3>1. CASE <<l, d>> \in S
        <4>1. buf'[d][l] = <<>>
          BY <1>4, <3>1
        <4>2. buf[d][l] = <<>>
          BY <2>5, <3>1
        <4>3. QED
          BY <4>1, <4>2
      <3>2. CASE <<l, d>> \notin S
        BY <1>4, <3>2
      <3>3. QED
        BY <3>1, <3>2
    <2>7. \A d \in Dirs, i \in Stages : hand'[d][i] = hand[d][i]
      BY <2>2, <2>4 DEF DoneInv
    <2>8. reset' = {}
      BY <2>4, <2>5 DEF Close
    <2>9. ASSUME NEW d \in Dirs, NEW l \in Links, <<l, Other(d)>> \in S
          PROVE  /\ d \in shut'[First(d)]
                 /\ b[d][l] + Len(buf[d][l]) = sent[d]
                 /\ \A k \in Links : Before(d, k, l) => k = l \/ d \in shut[k]
      <3>1. First(d) \in Links
        BY <1>2, Chain
      <3>2. CASE \E i \in I : l = To(d, i)
        <4>1. PICK i \in I : l = To(d, i)
          BY <3>2
        <4>2. Complete(b, d, l) /\ d \in shut[From(d, i)]
          BY <4>1, <2>2, <2>4 DEF DoneInv
        <4>3. From(d, i) \in Links
              /\ \A k \in Links : Before(d, k, l) => k = l \/ Before(d, k, From(d, i))
          BY <1>2, <4>1, Chain
        <4>4. \A k \in Links : Before(d, k, From(d, i)) => d \in shut[k]
          BY <2>4, <4>2, <4>3 DEF ShutInv
        <4>5. QED
          BY <1>4, <3>1, <4>2, <4>3, <4>4 DEF Complete
      <3>3. CASE l = First(d)
        <4>1. d \in shut'[First(d)]
          BY <1>4, <2>9, <3>1, <3>3
        <4>2. d \in gone[First(d)] => Complete(b, d, First(d))
          BY <2>4, <3>1 DEF ShutInv
        <4>3. b[d][l] + Len(buf[d][l]) = sent[d]
          BY <1>1, <3>3, <4>2 DEF EndFlow, Complete
        <4>4. \A k \in Links : Before(d, k, l) => k = l
          BY <1>2, <3>3, Chain
        <4>5. QED
          BY <4>1, <4>3, <4>4
      <3>4. QED
        BY <1>5, <2>9, <3>2, <3>3
    <2>10. ASSUME NEW d \in Dirs, NEW l \in Links, Complete(b, d, l)
           PROVE  Complete(b, d, l)'
      <3>1. First(d) \in Links
        BY <1>2, Chain
      <3>2. QED
        BY <1>3, <1>4, <2>6, <2>10, <3>1 DEF Complete
    <2>11. ShutInv(b)'
      <3> SUFFICES ASSUME NEW d \in Dirs, NEW l \in Links
                   PROVE  /\ d \in shut'[l] => Complete(b, d, l)'
                          /\ d \in shut'[l] => \A k \in Links : Before(d, k, l) => d \in shut'[k]
                          /\ d \in gone'[l] => d \in shut'[l] /\ buf'[d][l] = <<>>
        BY <1>3 DEF ShutInv
      <3>1. ASSUME d \in shut'[l]
            PROVE  Complete(b, d, l)'
        <4>1. CASE d \in shut[l]
          BY <4>1, <2>4, <2>10 DEF ShutInv
        <4>2. CASE <<l, Other(d)>> \in S
          BY <4>2, <1>3, <2>6, <2>9 DEF Complete
        <4>3. QED
          BY <1>4, <3>1, <4>1, <4>2
      <3>2. ASSUME d \in shut'[l], NEW k \in Links, Before(d, k, l)
            PROVE  d \in shut'[k]
        <4>1. CASE d \in shut[l]
          BY <4>1, <2>4, <3>2, <1>4 DEF ShutInv
        <4>2. CASE <<l, Other(d)>> \in S
          BY <4>2, <2>9, <3>2, <1>4
        <4>3. QED
          BY <1>4, <3>2, <4>1, <4>2
      <3>3. ASSUME d \in gone'[l]
            PROVE  d \in shut'[l] /\ buf'[d][l] = <<>>
        <4>1. CASE d \in gone[l]
          <5>1. d \in shut[l] /\ buf[d][l] = <<>>
            BY <2>4, <4>1 DEF ShutInv
          <5>2. QED
            BY <1>4, <2>6, <5>1
        <4>2. CASE <<l, d>> \in S
          <5>1. d \in shut[l] /\ buf[d][l] = <<>>
            BY <2>5, <4>2
          <5>2. QED
            BY <1>4, <2>6, <5>1
        <4>3. QED
          BY <1>4, <3>3, <4>1, <4>2
      <3>4. QED
        BY <3>1, <3>2, <3>3
    <2>12. DoneInv(b)'
      <3> SUFFICES ASSUME NEW d \in Dirs, NEW i \in Stages
                   PROVE  /\ copy[d][i] = "done" =>
                               /\ buf'[d][From(d, i)] = <<>> /\ hand'[d][i] = <<>>
                               /\ d \in shut'[From(d, i)]
                               /\ Complete(b, d, To(d, i))'
                          /\ kinds[i] = "pump" /\ d \in shut'[To(d, i)] => stage'[i] = "closed"
        BY <1>3 DEF DoneInv
      <3>1. /\ From(d, i) \in Links /\ To(d, i) \in Links /\ To(d, i) # First(d)
            /\ \A j \in I : To(d, i) = To(d, j) => i = j
        BY <1>2, Chain
      <3>2. ASSUME copy[d][i] = "done"
            PROVE  /\ buf'[d][From(d, i)] = <<>> /\ hand'[d][i] = <<>>
                   /\ d \in shut'[From(d, i)]
                   /\ Complete(b, d, To(d, i))'
        <4>1. /\ buf[d][From(d, i)] = <<>> /\ hand[d][i] = <<>>
              /\ d \in shut[From(d, i)]
              /\ Complete(b, d, To(d, i))
          BY <2>4, <3>2 DEF DoneInv
        <4>2. buf'[d][From(d, i)] = <<>> /\ hand'[d][i] = <<>>
          BY <2>6, <2>7, <3>1, <4>1
        <4>3. d \in shut'[From(d, i)]
          BY <1>4, <3>1, <4>1
        <4>4. Complete(b, d, To(d, i))'
          BY <2>10, <3>1, <4>1
        <4>5. QED
          BY <4>2, <4>3, <4>4
      <3>3. ASSUME kinds[i] = "pump", d \in shut'[To(d, i)]
            PROVE  stage'[i] = "closed"
        <4>1. d \in shut[To(d, i)] \/ i \in I
          BY <1>5a, <3>3
        <4>2. QED
          BY <2>4, <3>3, <4>1 DEF DoneInv
      <3>4. QED
        BY <3>2, <3>3
    <2>13. QED
      BY <2>8, <2>11, <2>12
  <1>13. QED
    BY <1>7, <1>8, <1>9, <1>10, <1>11, <1>12 DEF Held

\* The sockets of a stage and of an end.
LEMMA Sockets ==
  ASSUME NEW d \in Dirs, NEW l
  PROVE  /\ \A i \in Stages : <<l, d>> \in StageSockets(i) <=> l = From(d, i)
         /\ \A e \in Ends : <<l, d>> \in EndSockets(e) <=> Reader(d) = e /\ l = Last(d)
  <1>1. \A i \in Stages : <<l, d>> \in StageSockets(i) <=> l = From(d, i)
    BY DEF StageSockets
  <1>2. \A e \in Ends : Reader(d) = e <=> Other(Out(e)) = d
    BY DEF Ends, Dirs, Reader, Other, Out
  <1>3. \A e \in Ends : <<l, d>> \in EndSockets(e) <=> Reader(d) = e /\ l = Last(d)
    BY <1>2 DEF EndSockets
  <1>4. QED
    BY <1>1, <1>3

\* Nothing that was complete is lost where bytes only move.
LEMMA QuietStays ==
  ASSUME NEW b \in Counters, NEW c \in Counters, Shape, Quiet(b),
         UNCHANGED <<setup, shut, gone, copy>>,
         Broken => Broken', ~Broken => reset' = {},
         \A j \in Stages : stage[j] = "closed" => stage'[j] = "closed",
         \A x \in Dirs, l \in Links :
           /\ Complete(b, x, l) => c[x][l] + Len(buf'[x][l]) = sent'[x]
           /\ x \in shut[l] /\ buf[x][l] = <<>> => buf'[x][l] = <<>>,
         \A x \in Dirs, j \in Stages :
           copy[x][j] = "done" => hand'[x][j] \in {<<>>, hand[x][j]}
  PROVE  Quiet(c)'
  <1> SUFFICES ASSUME ~Broken'
               PROVE  reset' = {} /\ ShutInv(c)' /\ DoneInv(c)'
    BY DEF Quiet
  <1>1. ShutInv(b) /\ DoneInv(b) /\ reset' = {}
    BY DEF Quiet
  <1>2. /\ kinds' = kinds /\ Stages' = Stages /\ Links' = Links
        /\ \A x \in Dirs : First(x)' = First(x)
    BY Frame
  <1>3. ASSUME NEW x \in Dirs, NEW l \in Links, Complete(b, x, l)
        PROVE  Complete(c, x, l)'
    BY <1>2, <1>3 DEF Complete
  <1>4. ShutInv(c)'
    <2> SUFFICES ASSUME NEW x \in Dirs, NEW l \in Links
                 PROVE  /\ x \in shut[l] => Complete(c, x, l)'
                        /\ x \in shut[l] => \A k \in Links : Before(x, k, l) => x \in shut[k]
                        /\ x \in gone[l] => x \in shut[l] /\ buf'[x][l] = <<>>
      BY <1>2 DEF ShutInv
    <2>1. x \in shut[l] => Complete(c, x, l)'
      BY <1>1, <1>3 DEF ShutInv
    <2>2. x \in shut[l] => \A k \in Links : Before(x, k, l) => x \in shut[k]
      BY <1>1 DEF ShutInv
    <2>3. x \in gone[l] => x \in shut[l] /\ buf'[x][l] = <<>>
      BY <1>1 DEF ShutInv
    <2>4. QED
      BY <2>1, <2>2, <2>3
  <1>5. DoneInv(c)'
    <2> SUFFICES ASSUME NEW x \in Dirs, NEW j \in Stages
                 PROVE  /\ copy[x][j] = "done" =>
                             /\ buf'[x][From(x, j)] = <<>> /\ hand'[x][j] = <<>>
                             /\ x \in shut[From(x, j)]
                             /\ Complete(c, x, To(x, j))'
                        /\ kinds[j] = "pump" /\ x \in shut[To(x, j)] => stage'[j] = "closed"
      BY <1>2 DEF DoneInv
    <2>1. From(x, j) \in Links /\ To(x, j) \in Links
      BY Chain DEF Shape
    <2>2. ASSUME copy[x][j] = "done"
          PROVE  /\ buf'[x][From(x, j)] = <<>> /\ hand'[x][j] = <<>>
                 /\ x \in shut[From(x, j)]
                 /\ Complete(c, x, To(x, j))'
      <3>1. /\ buf[x][From(x, j)] = <<>> /\ hand[x][j] = <<>>
            /\ x \in shut[From(x, j)]
            /\ Complete(b, x, To(x, j))
        BY <1>1, <2>2 DEF DoneInv
      <3>2. buf'[x][From(x, j)] = <<>>
        BY <2>1, <3>1
      <3>3. hand'[x][j] = <<>>
        BY <2>2, <3>1
      <3>4. QED
        BY <1>3, <2>1, <3>1, <3>2, <3>3
    <2>3. kinds[j] = "pump" /\ x \in shut[To(x, j)] => stage'[j] = "closed"
      BY <1>1 DEF DoneInv
    <2>4. QED
      BY <2>2, <2>3
  <1>6. QED
    BY <1>1, <1>4, <1>5

\* pump_bidirectional starts, or gives up at once.
LEMMA CloneKeeps ==
  ASSUME IInv, NEW i \in Stages, Clone(i)
  PROVE  IInv'
  <1>1. PICK b \in Counters, h \in Written : Held(b, h)
    BY DEF IInv
  <1>2. Shape /\ LinkFlow(b) /\ StageFlow(b, h) /\ EndFlow(b) /\ EndsInv /\ Quiet(b)
    BY <1>1 DEF Held
  <1>3. UNCHANGED <<setup, hand, copy, sent, rcvd, ended, closed>> /\ stage[i] = "starting"
    BY DEF Clone, ends
  <1>4. stage' \in [Stages -> {"starting", "open", "closed"}]
    BY <1>2 DEF Clone, Shape
  <1>5. /\ kinds' = kinds /\ Stages' = Stages /\ Links' = Links
        /\ Counters' = Counters /\ Written' = Written
        /\ \A d \in Dirs : First(d)' = First(d) /\ Last(d)' = Last(d)
    BY <1>3, Frame
  <1>6. CASE stage' = [stage EXCEPT ![i] = "open"] /\ UNCHANGED links
    <2>1. UNCHANGED <<buf, shut, gone, reset>>
      BY <1>6 DEF links
    <2>2. \A j \in Stages : stage'[j] = "closed" <=> stage[j] = "closed"
      BY <1>2, <1>3, <1>6 DEF Shape
    <2>3. Shape'
      BY <1>2, <1>3, <1>4, <1>5, <2>1 DEF Shape
    <2>4. LinkFlow(b)' /\ EndFlow(b)'
      BY <1>2, <1>3, <1>5, <2>1 DEF LinkFlow, EndFlow
    <2>5. StageFlow(b, h)'
      BY <1>2, <1>3, <1>5, <2>1, <2>2 DEF StageFlow
    <2>6. EndsInv'
      BY <1>2, <1>3, <1>5, <2>1, <2>2 DEF EndsInv
    <2>7. Broken' <=> Broken
      BY <1>3, <1>5, <2>2 DEF Broken
    <2>8. Quiet(b)'
      <3>1. ~Broken => reset' = {}
        BY <1>2, <2>1 DEF Quiet
      <3>2. \A x \in Dirs, l \in Links :
              Complete(b, x, l) => b[x][l] + Len(buf'[x][l]) = sent'[x]
        BY <1>3, <2>1 DEF Complete
      <3>3. QED
        BY <1>2, <1>3, <2>1, <2>2, <2>7, <3>1, <3>2, QuietStays
    <2>9. QED
      BY <1>5, <2>3, <2>4, <2>5, <2>6, <2>8 DEF IInv, Held
  <1>7. CASE stage' = [stage EXCEPT ![i] = "closed"] /\ Close(StageSockets(i))
    <2> PICK I \in SUBSET Stages : I = {i}
      OBVIOUS
    <2> PICK E \in SUBSET Ends : E = {}
      OBVIOUS
    <2>1. \A d \in Dirs, l \in Links :
            <<l, d>> \in StageSockets(i) <=> \/ \E j \in I : l = From(d, j)
                                             \/ Reader(d) \in E /\ l = Last(d)
      BY Sockets
    <2>2. \A j \in Stages : stage'[j] = IF j \in I THEN "closed" ELSE stage[j]
      BY <1>2, <1>7 DEF Shape
    <2>3. hand' \in [Dirs -> [Stages -> Seq(Nat)]]
      BY <1>2, <1>3 DEF Shape
    <2>4. Held(b, h)'
      <3>1. closed' = closed \cup E
        BY <1>3
      <3>2. \A d \in Dirs, j \in Stages :
              hand'[d][j] = hand[d][j] \/ (j \in I /\ hand'[d][j] = <<>>)
        BY <1>3
      <3>3. Closing(I, E, StageSockets(i))
        BY <1>3, <1>4, <1>7, <2>1, <2>2, <2>3, <3>1, <3>2 DEF Closing
      <3>4. QED
        BY <1>1, <3>3, CloseKeeps
    <2>5. QED
      BY <1>5, <2>4 DEF IInv
  <1>8. QED
    BY <1>6, <1>7 DEF Clone

\* A stage that is done in both directions drops its sockets.
LEMMA ReturnKeeps ==
  ASSUME IInv, NEW i \in Stages, Return(i)
  PROVE  IInv'
  <1>1. PICK b \in Counters, h \in Written : Held(b, h)
    BY DEF IInv
  <1>2. Shape
    BY <1>1 DEF Held
  <1>3. /\ UNCHANGED <<setup, copy, sent, rcvd, ended, closed>>
        /\ stage' = [stage EXCEPT ![i] = "closed"]
        /\ hand' = [d \in Dirs |-> [hand[d] EXCEPT ![i] = <<>>]]
        /\ Close(StageSockets(i))
    BY DEF Return, ends
  <1>4. Counters' = Counters /\ Written' = Written
    BY <1>3, Frame
  <1> PICK I \in SUBSET Stages : I = {i}
    OBVIOUS
  <1> PICK E \in SUBSET Ends : E = {}
    OBVIOUS
  <1>5. \A d \in Dirs, l \in Links :
          <<l, d>> \in StageSockets(i) <=> \/ \E j \in I : l = From(d, j)
                                           \/ Reader(d) \in E /\ l = Last(d)
    BY Sockets
  <1>6. /\ stage' \in [Stages -> {"starting", "open", "closed"}]
        /\ \A j \in Stages : stage'[j] = IF j \in I THEN "closed" ELSE stage[j]
    BY <1>2, <1>3 DEF Shape
  <1>7. /\ hand' \in [Dirs -> [Stages -> Seq(Nat)]]
        /\ \A d \in Dirs, j \in Stages :
             hand'[d][j] = hand[d][j] \/ (j \in I /\ hand'[d][j] = <<>>)
    BY <1>2, <1>3 DEF Shape
  <1>8. closed' = closed \cup E
    BY <1>3
  <1>9. Closing(I, E, StageSockets(i))
    BY <1>3, <1>5, <1>6, <1>7, <1>8 DEF Closing
  <1>10. Held(b, h)'
    BY <1>1, <1>9, CloseKeeps
  <1>11. QED
    BY <1>4, <1>10 DEF IInv

\* An end closes its socket.
LEMMA EndCloseKeeps ==
  ASSUME IInv, NEW e \in Ends, EndClose(e)
  PROVE  IInv'
  <1>1. PICK b \in Counters, h \in Written : Held(b, h)
    BY DEF IInv
  <1>2. Shape
    BY <1>1 DEF Held
  <1>3. /\ UNCHANGED <<setup, hand, copy, stage, sent, rcvd, ended>>
        /\ closed' = closed \cup {e}
        /\ Close(EndSockets(e))
    BY DEF EndClose, stages
  <1>4. Counters' = Counters /\ Written' = Written
    BY <1>3, Frame
  <1> PICK I \in SUBSET Stages : I = {}
    OBVIOUS
  <1> PICK E \in SUBSET Ends : E = {e}
    OBVIOUS
  <1>5. \A d \in Dirs, l \in Links :
          <<l, d>> \in EndSockets(e) <=> \/ \E j \in I : l = From(d, j)
                                         \/ Reader(d) \in E /\ l = Last(d)
    BY Sockets
  <1>6. /\ stage' \in [Stages -> {"starting", "open", "closed"}]
        /\ \A j \in Stages : stage'[j] = IF j \in I THEN "closed" ELSE stage[j]
        /\ hand' \in [Dirs -> [Stages -> Seq(Nat)]]
        /\ \A d \in Dirs, j \in Stages :
             hand'[d][j] = hand[d][j] \/ (j \in I /\ hand'[d][j] = <<>>)
    BY <1>2, <1>3 DEF Shape
  <1>7. Closing(I, E, EndSockets(e))
    BY <1>3, <1>5, <1>6 DEF Closing
  <1>8. Held(b, h)'
    BY <1>1, <1>7, CloseKeeps
  <1>9. QED
    BY <1>4, <1>8 DEF IInv

\* The namespace dies: the target's socket and the bridge's go at once.
LEMMA TargetExitsKeeps ==
  ASSUME IInv, TargetExits
  PROVE  IInv'
  <1>1. PICK b \in Counters, h \in Written : Held(b, h)
    BY DEF IInv
  <1>2. Shape
    BY <1>1 DEF Held
  <1>3. /\ UNCHANGED <<setup, copy, sent, rcvd, ended>>
        /\ closed' = closed \cup {"client"}
        /\ stage' = [stage EXCEPT ![1] = "closed"]
        /\ hand' = [d \in Dirs |-> [hand[d] EXCEPT ![1] = <<>>]]
        /\ Close(EndSockets("client") \cup StageSockets(1))
    BY DEF TargetExits
  <1>4. Counters' = Counters /\ Written' = Written
    BY <1>3, Frame
  <1>5. 1 \in Stages /\ "client" \in Ends
    BY <1>2, TunnelAssumption DEF Shape, Stages, kinds, Ends
  <1> PICK I \in SUBSET Stages : I = {1}
    BY <1>5
  <1> PICK E \in SUBSET Ends : E = {"client"}
    BY <1>5
  <1>6. \A d \in Dirs, l \in Links :
          <<l, d>> \in EndSockets("client") \cup StageSockets(1) <=>
            \/ \E j \in I : l = From(d, j)
            \/ Reader(d) \in E /\ l = Last(d)
    BY <1>5, Sockets
  <1>7. /\ stage' \in [Stages -> {"starting", "open", "closed"}]
        /\ \A j \in Stages : stage'[j] = IF j \in I THEN "closed" ELSE stage[j]
    BY <1>2, <1>3, <1>5 DEF Shape
  <1>8. /\ hand' \in [Dirs -> [Stages -> Seq(Nat)]]
        /\ \A d \in Dirs, j \in Stages :
             hand'[d][j] = hand[d][j] \/ (j \in I /\ hand'[d][j] = <<>>)
    BY <1>2, <1>3, <1>5 DEF Shape
  <1>9. closed' = closed \cup E
    BY <1>3
  <1>10. Closing(I, E, EndSockets("client") \cup StageSockets(1))
    BY <1>3, <1>6, <1>7, <1>8, <1>9 DEF Closing
  <1>11. Held(b, h)'
    BY <1>1, <1>10, CloseKeeps
  <1>12. QED
    BY <1>4, <1>11 DEF IInv

\* A stage reads: bytes go from the link to its hand.
LEMMA TakeKeeps ==
  ASSUME IInv, NEW d \in Dirs, NEW i \in Stages, Take(d, i)
  PROVE  IInv'
  <1>1. PICK b \in Counters, h \in Written : Held(b, h)
    BY DEF IInv
  <1>2. Shape /\ LinkFlow(b) /\ StageFlow(b, h) /\ EndFlow(b) /\ EndsInv /\ Quiet(b)
    BY <1>1 DEF Held
  <1> PICK f \in Links : f = From(d, i)
    BY <1>2, Chain DEF Shape
  <1>3. /\ UNCHANGED <<setup, shut, gone, reset, copy, stage, sent, rcvd, ended, closed>>
        /\ stage[i] = "open" /\ copy[d][i] = "copying"
    BY DEF Take, Copying, ends
  <1>4. /\ buf[d][f] \in Seq(Nat) /\ b[d][f] \in Nat /\ Len(buf[d][f]) \in Nat
        /\ hand[d][i] \in Seq(Nat) /\ h[d][i] \in Nat /\ Len(hand[d][i]) \in Nat
        /\ sent[d] \in Nat
    BY <1>2, Types
  <1>5. PICK n \in Nat :
          /\ n \in 1..Len(buf[d][f])
          /\ hand' = [hand EXCEPT ![d][i] = @ \o SubSeq(buf[d][f], 1, n)]
          /\ buf' = [buf EXCEPT ![d][f] = SubSeq(@, n + 1, Len(@))]
    <2>1. \A k \in 1..Len(buf[d][f]) : k \in Nat
      BY <1>4
    <2>2. QED
      BY <2>1 DEF Take
  <1> DEFINE front == SubSeq(buf[d][f], 1, n)
             rest == SubSeq(buf[d][f], n + 1, Len(buf[d][f]))
  <1>6. /\ n \in Nat
        /\ front \in Seq(Nat) /\ Len(front) = n /\ Counts(front, b[d][f])
        /\ rest \in Seq(Nat) /\ Len(rest) + n = Len(buf[d][f]) /\ Counts(rest, b[d][f] + n)
    <2>1. Counts(buf[d][f], b[d][f])
      BY <1>2 DEF LinkFlow
    <2>2. QED
      BY <1>5, <1>4, <2>1, Split
  <1>7. h[d][i] + Len(hand[d][i]) = b[d][f]
    BY <1>2, <1>3 DEF StageFlow
  <1>8. /\ hand[d][i] \o front \in Seq(Nat)
        /\ Len(hand[d][i] \o front) = Len(hand[d][i]) + n
        /\ Counts(hand[d][i] \o front, h[d][i])
    <2> HIDE DEF front
    <2>1. Counts(hand[d][i], h[d][i])
      BY <1>2 DEF StageFlow
    <2>2. QED
      BY <1>4, <1>6, <1>7, <2>1, Concat
  <1>9. Len(rest) \in Nat /\ b[d][f] + Len(buf[d][f]) <= sent[d]
    BY <1>2, <1>6 DEF LinkFlow
  <1>10. /\ (b[d][f] + n) + Len(rest) = b[d][f] + Len(buf[d][f])
         /\ h[d][i] + (Len(hand[d][i]) + n) = b[d][f] + n
         /\ b[d][f] + n <= sent[d]
         /\ b[d][f] + n \in Nat
    <2> HIDE DEF front, rest
    <2>1. /\ b[d][f] \in Nat /\ Len(buf[d][f]) \in Nat /\ sent[d] \in Nat
          /\ h[d][i] \in Nat /\ Len(hand[d][i]) \in Nat
      BY <1>4
    <2>2. Len(rest) \in Nat /\ Len(rest) + n = Len(buf[d][f])
      BY <1>6, <1>9
    <2>3. b[d][f] + Len(buf[d][f]) <= sent[d]
      BY <1>9
    <2>4. b[d][f] + n <= sent[d]
      <3>1. PICK x \in Nat, y \in Nat, r \in Nat, z \in Nat :
              x = b[d][f] /\ y = Len(buf[d][f]) /\ r = Len(rest) /\ z = sent[d]
        BY <2>1, <2>2
      <3>2. r + n = y /\ x + y <= z
        BY <2>2, <2>3, <3>1
      <3>3. x + n <= z
        BY <3>2
      <3>4. QED
        BY <3>1, <3>3
    <2>5. (b[d][f] + n) + Len(rest) = b[d][f] + Len(buf[d][f])
      BY <2>1, <2>2
    <2>6. h[d][i] + (Len(hand[d][i]) + n) = (h[d][i] + Len(hand[d][i])) + n
      BY <2>1
    <2>7. h[d][i] + (Len(hand[d][i]) + n) = b[d][f] + n
      BY <2>6, <1>7, Zenon
    <2>8. b[d][f] + n \in Nat
      BY <2>1
    <2>9. QED
      BY <2>4, <2>5, <2>7, <2>8, Zenon
  <1>11. PICK c \in Counters :
           \A x \in Dirs, l \in Links :
             c[x][l] = IF x = d /\ l = f THEN b[d][f] + n ELSE b[x][l]
    <2> DEFINE c == [b EXCEPT ![d][f] = @ + n]
    <2>1. c \in Counters
      BY <1>10 DEF Counters
    <2>2. \A x \in Dirs, l \in Links :
            c[x][l] = IF x = d /\ l = f THEN b[d][f] + n ELSE b[x][l]
      BY DEF Counters
    <2>3. QED
      BY <2>1, <2>2
  <1>12. \A x \in Dirs, l \in Links : buf'[x][l] = IF x = d /\ l = f THEN rest ELSE buf[x][l]
    BY <1>2, <1>5 DEF Shape
  <1>13. \A x \in Dirs, j \in Stages :
           hand'[x][j] = IF x = d /\ j = i THEN hand[d][i] \o front ELSE hand[x][j]
    BY <1>2, <1>5 DEF Shape
  <1>14. \A x \in Dirs, l \in Links :
           c[x][l] + Len(buf'[x][l]) = b[x][l] + Len(buf[x][l])
    BY <1>10, <1>11, <1>12
  <1>15. Shape'
    <2>1. buf' \in [Dirs -> [Links -> Seq(Nat)]]
      BY <1>2, <1>5, <1>6 DEF Shape
    <2>2. hand' \in [Dirs -> [Stages -> Seq(Nat)]]
      BY <1>2, <1>5, <1>8 DEF Shape
    <2>3. QED
      BY <1>2, <1>3, <2>1, <2>2, Frame DEF Shape
  <1> HIDE DEF front, rest
  <1>16. LinkFlow(c)'
    <2> SUFFICES ASSUME NEW x \in Dirs, NEW l \in Links
                 PROVE  Counts(buf'[x][l], c[x][l]) /\ c[x][l] + Len(buf'[x][l]) <= sent[x]
      BY <1>3, Frame DEF LinkFlow
    <2>1. Counts(buf'[x][l], c[x][l])
      BY <1>2, <1>6, <1>11, <1>12 DEF LinkFlow
    <2>2. c[x][l] + Len(buf'[x][l]) <= sent[x]
      BY <1>2, <1>14 DEF LinkFlow
    <2>3. QED
      BY <2>1, <2>2
  <1>17. StageFlow(c, h)'
    <2> SUFFICES ASSUME NEW x \in Dirs, NEW j \in Stages
                 PROVE  /\ Counts(hand'[x][j], h[x][j])
                        /\ h[x][j] + Len(hand'[x][j]) <= sent[x]
                        /\ stage[j] # "closed" =>
                             h[x][j] + Len(hand'[x][j]) = c[x][From(x, j)]
                        /\ stage[j] # "closed" /\ x \notin gone[To(x, j)] =>
                             c[x][To(x, j)] + Len(buf'[x][To(x, j)]) = h[x][j]
      BY <1>3, Frame DEF StageFlow
    <2>1. From(x, j) \in Links /\ To(x, j) \in Links
      BY <1>2, Chain DEF Shape
    <2>2. /\ Counts(hand[x][j], h[x][j])
          /\ h[x][j] + Len(hand[x][j]) <= sent[x]
          /\ stage[j] # "closed" => h[x][j] + Len(hand[x][j]) = b[x][From(x, j)]
          /\ stage[j] # "closed" /\ x \notin gone[To(x, j)] =>
               b[x][To(x, j)] + Len(buf[x][To(x, j)]) = h[x][j]
      BY <1>2 DEF StageFlow
    <2>3. stage[j] # "closed" /\ x \notin gone[To(x, j)] =>
            c[x][To(x, j)] + Len(buf'[x][To(x, j)]) = h[x][j]
      BY <1>14, <2>1, <2>2
    <2>4. CASE x = d /\ j = i
      <3>1. hand'[x][j] = hand[d][i] \o front /\ c[x][From(x, j)] = b[d][f] + n
        BY <1>11, <1>13, <2>4
      <3>2. QED
        BY <1>8, <1>10, <2>3, <2>4, <3>1
    <2>5. CASE ~(x = d /\ j = i)
      <3>1. hand'[x][j] = hand[x][j]
        BY <1>13, <2>5
      <3>2. ~(x = d /\ From(x, j) = f)
        <4>1. From(d, i) = From(d, j) => i = j
          BY <1>2, Chain DEF Shape
        <4>2. QED
          BY <2>5, <4>1
      <3>3. c[x][From(x, j)] = b[x][From(x, j)]
        BY <1>11, <2>1, <3>2
      <3>4. QED
        BY <2>2, <2>3, <3>1, <3>3
    <2>6. QED
      BY <2>4, <2>5
  <1>18. EndFlow(c)'
    <2> SUFFICES ASSUME NEW x \in Dirs
                 PROVE  /\ x \notin gone[First(x)] =>
                             c[x][First(x)] + Len(buf'[x][First(x)]) = sent[x]
                        /\ Counts(rcvd[x], 0)
                        /\ Len(rcvd[x]) <= sent[x]
                        /\ Reader(x) \notin closed => Len(rcvd[x]) = c[x][Last(x)]
      BY <1>3, Frame DEF EndFlow
    <2>1. First(x) \in Links /\ Last(x) \in Links /\ From(x, i) # Last(x)
      BY <1>2, Chain DEF Shape
    <2>2. c[x][Last(x)] = b[x][Last(x)]
      BY <1>11, <2>1
    <2>3. QED
      BY <1>2, <1>14, <2>1, <2>2 DEF EndFlow
  <1>19. buf[d][f] # <<>>
    BY <1>5
  <1>20. EndsInv'
    <2>1. \A x \in Dirs : buf[x][Last(x)] = <<>> => buf'[x][Last(x)] = <<>>
      BY <1>2, <1>12, <1>19, Chain DEF Shape
    <2>2. QED
      BY <1>2, <1>3, <2>1, Frame DEF EndsInv
  <1>21. Quiet(c)'
    <2>1. (Broken => Broken') /\ (~Broken => reset' = {})
      <3>1. Broken' <=> Broken
        BY <1>3, Frame DEF Broken
      <3>2. QED
        BY <1>2, <1>3, <3>1 DEF Quiet
    <2>2. \A x \in Dirs, l \in Links :
            /\ Complete(b, x, l) => c[x][l] + Len(buf'[x][l]) = sent'[x]
            /\ x \in shut[l] /\ buf[x][l] = <<>> => buf'[x][l] = <<>>
      BY <1>3, <1>12, <1>14, <1>19 DEF Complete
    <2>3. \A x \in Dirs, j \in Stages :
            copy[x][j] = "done" => hand'[x][j] \in {<<>>, hand[x][j]}
      BY <1>3, <1>13
    <2>4. QED
      BY <1>2, <1>3, <2>1, <2>2, <2>3, QuietStays
  <1>22. Held(c, h)'
    BY <1>15, <1>16, <1>17, <1>18, <1>20, <1>21 DEF Held
  <1>23. QED
    BY <1>3, <1>22, Frame DEF IInv

\* A stage that is copying has not shut what it writes to, and while nobody gave
\* up the other side of that has not closed.
LEMMA CopyingIsOpen ==
  ASSUME NEW b \in Counters, Shape, EndsInv, Quiet(b),
         NEW d \in Dirs, NEW i \in Stages, Copying(d, i)
  PROVE  /\ d \notin shut[To(d, i)]
         /\ ~Broken => d \notin gone[To(d, i)]
  <1>1. copy[d][i] = "copying" /\ stage[i] = "open"
    BY DEF Copying
  <1>2. d \notin shut[To(d, i)]
    BY <1>1 DEF EndsInv
  <1>3. To(d, i) \in Links
    BY Chain DEF Shape
  <1>4. ~Broken => d \notin gone[To(d, i)]
    BY <1>2, <1>3 DEF Quiet, ShutInv
  <1>5. QED
    BY <1>2, <1>4

\* A stage writes to an open link: bytes go from its hand to the link.
LEMMA PutKeeps ==
  ASSUME IInv, NEW d \in Dirs, NEW i \in Stages, Put(d, i), d \notin gone[To(d, i)]
  PROVE  IInv'
  <1>1. PICK b \in Counters, h \in Written : Held(b, h)
    BY DEF IInv
  <1>2. Shape /\ LinkFlow(b) /\ StageFlow(b, h) /\ EndFlow(b) /\ EndsInv /\ Quiet(b)
    BY <1>1 DEF Held
  <1> PICK t \in Links : t = To(d, i)
    BY <1>2, Chain DEF Shape
  <1>3. /\ UNCHANGED <<setup, shut, gone, reset, copy, stage, sent, rcvd, ended, closed>>
        /\ stage[i] = "open" /\ copy[d][i] = "copying"
    BY DEF Put, Copying, ends
  <1>4. /\ buf[d][t] \in Seq(Nat) /\ b[d][t] \in Nat /\ Len(buf[d][t]) \in Nat
        /\ hand[d][i] \in Seq(Nat) /\ h[d][i] \in Nat /\ Len(hand[d][i]) \in Nat
        /\ sent[d] \in Nat
    BY <1>2, Types
  <1>5. PICK n \in Nat :
          /\ n \in 1..Len(hand[d][i])
          /\ hand' = [hand EXCEPT ![d][i] = SubSeq(@, n + 1, Len(@))]
          /\ buf' = [buf EXCEPT ![d][t] = @ \o SubSeq(hand[d][i], 1, n)]
    <2>1. \A k \in 1..Len(hand[d][i]) : k \in Nat
      BY <1>4
    <2>2. QED
      BY <2>1 DEF Put
  <1> DEFINE front == SubSeq(hand[d][i], 1, n)
             rest == SubSeq(hand[d][i], n + 1, Len(hand[d][i]))
  <1>6. /\ n \in Nat
        /\ front \in Seq(Nat) /\ Len(front) = n /\ Counts(front, h[d][i])
        /\ rest \in Seq(Nat) /\ Len(rest) + n = Len(hand[d][i]) /\ Counts(rest, h[d][i] + n)
    <2>1. Counts(hand[d][i], h[d][i])
      BY <1>2 DEF StageFlow
    <2>2. QED
      BY <1>5, <1>4, <2>1, Split
  <1>7. b[d][t] + Len(buf[d][t]) = h[d][i]
    BY <1>2, <1>3 DEF StageFlow
  <1>8. /\ buf[d][t] \o front \in Seq(Nat)
        /\ Len(buf[d][t] \o front) = Len(buf[d][t]) + n
        /\ Counts(buf[d][t] \o front, b[d][t])
    <2> HIDE DEF front
    <2>1. Counts(buf[d][t], b[d][t])
      BY <1>2 DEF LinkFlow
    <2>2. QED
      BY <1>4, <1>6, <1>7, <2>1, Concat
  <1>9. Len(rest) \in Nat /\ h[d][i] + Len(hand[d][i]) <= sent[d]
    BY <1>2, <1>6 DEF StageFlow
  <1>10. /\ (h[d][i] + n) + Len(rest) = h[d][i] + Len(hand[d][i])
         /\ b[d][t] + (Len(buf[d][t]) + n) = h[d][i] + n
         /\ h[d][i] + n <= sent[d]
         /\ h[d][i] + n \in Nat
         /\ b[d][t] + Len(buf[d][t]) < sent[d]
    <2> HIDE DEF front, rest
    <2>1. /\ b[d][t] \in Nat /\ Len(buf[d][t]) \in Nat /\ sent[d] \in Nat
          /\ h[d][i] \in Nat /\ Len(hand[d][i]) \in Nat
      BY <1>4
    <2>2. Len(rest) \in Nat /\ Len(rest) + n = Len(hand[d][i]) /\ n >= 1
      BY <1>5, <1>6, <1>9
    <2>3. h[d][i] + Len(hand[d][i]) <= sent[d]
      BY <1>9
    <2>4. h[d][i] + n <= sent[d]
      <3>1. PICK x \in Nat, y \in Nat, r \in Nat, z \in Nat :
              x = h[d][i] /\ y = Len(hand[d][i]) /\ r = Len(rest) /\ z = sent[d]
        BY <2>1, <2>2
      <3>2. r + n = y /\ x + y <= z
        BY <2>2, <2>3, <3>1
      <3>3. x + n <= z
        BY <3>2
      <3>4. QED
        BY <3>1, <3>3
    <2>5. (h[d][i] + n) + Len(rest) = h[d][i] + Len(hand[d][i])
      BY <2>1, <2>2
    <2>6. b[d][t] + (Len(buf[d][t]) + n) = (b[d][t] + Len(buf[d][t])) + n
      BY <2>1
    <2>7. b[d][t] + (Len(buf[d][t]) + n) = h[d][i] + n
      BY <2>6, <1>7, Zenon
    <2>8. h[d][i] < sent[d]
      BY <2>1, <2>2, <2>4
    <2>9. b[d][t] + Len(buf[d][t]) < sent[d]
      BY <2>8, <1>7, Zenon
    <2>10. h[d][i] + n \in Nat
      BY <2>1
    <2>11. QED
      BY <2>4, <2>5, <2>7, <2>9, <2>10, Zenon
  <1>11. PICK g \in Written :
           \A x \in Dirs, j \in Stages :
             g[x][j] = IF x = d /\ j = i THEN h[d][i] + n ELSE h[x][j]
    <2> DEFINE g == [h EXCEPT ![d][i] = @ + n]
    <2>1. g \in Written
      BY <1>10 DEF Written
    <2>2. \A x \in Dirs, j \in Stages :
            g[x][j] = IF x = d /\ j = i THEN h[d][i] + n ELSE h[x][j]
      BY DEF Written
    <2>3. QED
      BY <2>1, <2>2
  <1>12. \A x \in Dirs, l \in Links :
           buf'[x][l] = IF x = d /\ l = t THEN buf[d][t] \o front ELSE buf[x][l]
    BY <1>2, <1>5 DEF Shape
  <1>13. \A x \in Dirs, j \in Stages :
           hand'[x][j] = IF x = d /\ j = i THEN rest ELSE hand[x][j]
    BY <1>2, <1>5 DEF Shape
  <1>14. Shape'
    <2>1. buf' \in [Dirs -> [Links -> Seq(Nat)]]
      BY <1>2, <1>5, <1>8 DEF Shape
    <2>2. hand' \in [Dirs -> [Stages -> Seq(Nat)]]
      BY <1>2, <1>5, <1>6 DEF Shape
    <2>3. QED
      BY <1>2, <1>3, <2>1, <2>2, Frame DEF Shape
  <1> HIDE DEF front, rest
  <1>15. b[d][t] + Len(buf'[d][t]) = h[d][i] + n
    BY <1>8, <1>10, <1>12
  <1>16. LinkFlow(b)'
    <2> SUFFICES ASSUME NEW x \in Dirs, NEW l \in Links
                 PROVE  Counts(buf'[x][l], b[x][l]) /\ b[x][l] + Len(buf'[x][l]) <= sent[x]
      BY <1>3, Frame DEF LinkFlow
    <2>1. CASE x = d /\ l = t
      BY <1>8, <1>10, <1>12, <1>15, <2>1
    <2>2. CASE ~(x = d /\ l = t)
      <3>1. buf'[x][l] = buf[x][l]
        BY <1>12, <2>2
      <3>2. QED
        BY <1>2, <3>1 DEF LinkFlow
    <2>3. QED
      BY <2>1, <2>2
  <1>17. StageFlow(b, g)'
    <2> SUFFICES ASSUME NEW x \in Dirs, NEW j \in Stages
                 PROVE  /\ Counts(hand'[x][j], g[x][j])
                        /\ g[x][j] + Len(hand'[x][j]) <= sent[x]
                        /\ stage[j] # "closed" =>
                             g[x][j] + Len(hand'[x][j]) = b[x][From(x, j)]
                        /\ stage[j] # "closed" /\ x \notin gone[To(x, j)] =>
                             b[x][To(x, j)] + Len(buf'[x][To(x, j)]) = g[x][j]
      BY <1>3, Frame DEF StageFlow
    <2>1. From(x, j) \in Links /\ To(x, j) \in Links
      BY <1>2, Chain DEF Shape
    <2>2. /\ Counts(hand[x][j], h[x][j])
          /\ h[x][j] + Len(hand[x][j]) <= sent[x]
          /\ stage[j] # "closed" => h[x][j] + Len(hand[x][j]) = b[x][From(x, j)]
          /\ stage[j] # "closed" /\ x \notin gone[To(x, j)] =>
               b[x][To(x, j)] + Len(buf[x][To(x, j)]) = h[x][j]
      BY <1>2 DEF StageFlow
    <2>3. CASE x = d /\ j = i
      <3>1. hand'[x][j] = rest /\ g[x][j] = h[d][i] + n
        BY <1>11, <1>13, <2>3
      <3>2. QED
        BY <1>6, <1>10, <1>15, <2>2, <2>3, <3>1
    <2>4. CASE ~(x = d /\ j = i)
      <3>1. hand'[x][j] = hand[x][j] /\ g[x][j] = h[x][j]
        BY <1>11, <1>13, <2>4
      <3>2. ~(x = d /\ To(x, j) = t)
        <4>1. setup \in Setups
          BY <1>2 DEF Shape
        <4>2. \A k, m \in Stages : From(d, k) = From(d, m) \/ To(d, k) = To(d, m) => k = m
          BY <4>1, Chain
        <4>3. QED
          BY <2>4, <4>2
      <3>3. buf'[x][To(x, j)] = buf[x][To(x, j)]
        BY <1>12, <2>1, <3>2
      <3>4. QED
        BY <2>2, <3>1, <3>3
    <2>5. QED
      BY <2>3, <2>4
  <1>18. EndFlow(b)'
    <2> SUFFICES ASSUME NEW x \in Dirs
                 PROVE  /\ x \notin gone[First(x)] =>
                             b[x][First(x)] + Len(buf'[x][First(x)]) = sent[x]
                        /\ Counts(rcvd[x], 0)
                        /\ Len(rcvd[x]) <= sent[x]
                        /\ Reader(x) \notin closed => Len(rcvd[x]) = b[x][Last(x)]
      BY <1>3, Frame DEF EndFlow
    <2>1. First(x) \in Links /\ To(x, i) # First(x)
      BY <1>2, Chain DEF Shape
    <2>2. buf'[x][First(x)] = buf[x][First(x)]
      BY <1>12, <2>1
    <2>3. QED
      BY <1>2, <2>2 DEF EndFlow
  <1>19. d \notin shut[t] /\ ~Complete(b, d, t)
    <2>1. d \notin shut[t]
      BY <1>2, <1>3, CopyingIsOpen DEF Copying
    <2>2. ~Complete(b, d, t)
      BY <1>4, <1>10 DEF Complete
    <2>3. QED
      BY <2>1, <2>2
  <1>20. EndsInv'
    <2>1. \A x \in Dirs : ended[x] => x \in shut[Last(x)] /\ buf'[x][Last(x)] = <<>>
      <3> SUFFICES ASSUME NEW x \in Dirs, ended[x]
                   PROVE  x \in shut[Last(x)] /\ buf'[x][Last(x)] = <<>>
        OBVIOUS
      <3>1. x \in shut[Last(x)] /\ buf[x][Last(x)] = <<>>
        BY <1>2 DEF EndsInv
      <3>2. Last(x) \in Links
        BY <1>2, Chain DEF Shape
      <3>3. ~(x = d /\ Last(x) = t)
        BY <1>19, <3>1
      <3>4. QED
        BY <1>12, <3>1, <3>2, <3>3
    <2>2. QED
      BY <1>2, <1>3, <2>1, Frame DEF EndsInv
  <1>21. Quiet(b)'
    <2>1. (Broken => Broken') /\ (~Broken => reset' = {})
      <3>1. Broken' <=> Broken
        BY <1>3, Frame DEF Broken
      <3>2. QED
        BY <1>2, <1>3, <3>1 DEF Quiet
    <2>2. \A x \in Dirs, l \in Links :
            /\ Complete(b, x, l) => b[x][l] + Len(buf'[x][l]) = sent'[x]
            /\ x \in shut[l] /\ buf[x][l] = <<>> => buf'[x][l] = <<>>
      <3> SUFFICES ASSUME NEW x \in Dirs, NEW l \in Links
                   PROVE  /\ Complete(b, x, l) => b[x][l] + Len(buf'[x][l]) = sent'[x]
                          /\ x \in shut[l] /\ buf[x][l] = <<>> => buf'[x][l] = <<>>
        OBVIOUS
      <3>1. CASE x = d /\ l = t
        BY <1>19, <3>1
      <3>2. CASE ~(x = d /\ l = t)
        BY <1>3, <1>12, <3>2 DEF Complete
      <3>3. QED
        BY <3>1, <3>2
    <2>3. \A x \in Dirs, j \in Stages :
            copy[x][j] = "done" => hand'[x][j] \in {<<>>, hand[x][j]}
      BY <1>3, <1>13
    <2>4. QED
      BY <1>2, <1>3, <2>1, <2>2, <2>3, QuietStays
  <1>22. Held(b, g)'
    BY <1>14, <1>16, <1>17, <1>18, <1>20, <1>21 DEF Held
  <1>23. QED
    BY <1>3, <1>22, Frame DEF IInv

\* A stage writes to a peer that is gone: the bytes are lost with the connection.
LEMMA PutGoneKeeps ==
  ASSUME IInv, NEW d \in Dirs, NEW i \in Stages, Put(d, i), d \in gone[To(d, i)]
  PROVE  IInv'
  <1>1. PICK b \in Counters, h \in Written : Held(b, h)
    BY DEF IInv
  <1>2. Shape /\ LinkFlow(b) /\ StageFlow(b, h) /\ EndFlow(b) /\ EndsInv /\ Quiet(b)
    BY <1>1 DEF Held
  <1>3. /\ UNCHANGED <<setup, buf, shut, gone, copy, stage, sent, rcvd, ended, closed>>
        /\ hand' = [hand EXCEPT ![d][i] = <<>>]
        /\ reset' = reset \cup {To(d, i)}
        /\ Copying(d, i) /\ stage[i] = "open"
    BY DEF Put, Copying, ends
  <1>4. h[d][i] \in Nat /\ Len(hand[d][i]) \in Nat /\ sent[d] \in Nat
    BY <1>2, Types
  <1>5. h[d][i] + Len(hand[d][i]) \in Nat
    BY <1>4
  <1>6. PICK g \in Written :
          \A x \in Dirs, j \in Stages :
            g[x][j] = IF x = d /\ j = i THEN h[d][i] + Len(hand[d][i]) ELSE h[x][j]
    <2> DEFINE g == [h EXCEPT ![d][i] = @ + Len(hand[d][i])]
    <2>1. g \in Written
      BY <1>5 DEF Written
    <2>2. \A x \in Dirs, j \in Stages :
            g[x][j] = IF x = d /\ j = i THEN h[d][i] + Len(hand[d][i]) ELSE h[x][j]
      BY DEF Written
    <2>3. QED
      BY <2>1, <2>2
  <1>7. \A x \in Dirs, j \in Stages :
          hand'[x][j] = IF x = d /\ j = i THEN <<>> ELSE hand[x][j]
    BY <1>2, <1>3 DEF Shape
  <1>8. Shape'
    <2>1. hand' \in [Dirs -> [Stages -> Seq(Nat)]]
      BY <1>2, <1>3 DEF Shape
    <2>2. To(d, i) \in Links
      BY <1>2, Chain DEF Shape
    <2>3. QED
      BY <1>2, <1>3, <2>1, <2>2, Frame DEF Shape
  <1>9. LinkFlow(b)' /\ EndFlow(b)' /\ EndsInv'
    BY <1>2, <1>3, Frame DEF LinkFlow, EndFlow, EndsInv
  <1>10. StageFlow(b, g)'
    <2> SUFFICES ASSUME NEW x \in Dirs, NEW j \in Stages
                 PROVE  /\ Counts(hand'[x][j], g[x][j])
                        /\ g[x][j] + Len(hand'[x][j]) <= sent[x]
                        /\ stage[j] # "closed" =>
                             g[x][j] + Len(hand'[x][j]) = b[x][From(x, j)]
                        /\ stage[j] # "closed" /\ x \notin gone[To(x, j)] =>
                             b[x][To(x, j)] + Len(buf[x][To(x, j)]) = g[x][j]
      BY <1>3, Frame DEF StageFlow
    <2>1. /\ Counts(hand[x][j], h[x][j])
          /\ h[x][j] + Len(hand[x][j]) <= sent[x]
          /\ stage[j] # "closed" => h[x][j] + Len(hand[x][j]) = b[x][From(x, j)]
          /\ stage[j] # "closed" /\ x \notin gone[To(x, j)] =>
               b[x][To(x, j)] + Len(buf[x][To(x, j)]) = h[x][j]
      BY <1>2 DEF StageFlow
    <2>2. CASE x = d /\ j = i
      <3>1. hand'[x][j] = <<>> /\ Len(hand'[x][j]) = 0 /\ g[x][j] = h[x][j] + Len(hand[x][j])
        BY <1>6, <1>7, <2>2
      <3>2. g[x][j] + Len(hand'[x][j]) = h[x][j] + Len(hand[x][j])
        BY <1>4, <2>2, <3>1
      <3>3. Counts(hand'[x][j], g[x][j])
        BY <3>1, CountsNone
      <3>4. QED
        BY <2>1, <2>2, <3>2, <3>3
    <2>3. CASE ~(x = d /\ j = i)
      BY <1>6, <1>7, <2>1, <2>3
    <2>4. QED
      BY <2>2, <2>3
  <1>11. Broken'
    <2>1. Broken' <=> Broken
      BY <1>3, Frame DEF Broken
    <2>2. QED
      BY <1>2, <1>3, <2>1, CopyingIsOpen
  <1>12. Held(b, g)'
    BY <1>8, <1>9, <1>10, <1>11 DEF Held, Quiet
  <1>13. QED
    BY <1>3, <1>12, Frame DEF IInv

\* A copy meets an error: somebody gave up before.
LEMMA FailKeeps ==
  ASSUME IInv, NEW d \in Dirs, NEW i \in Stages, Fail(d, i)
  PROVE  IInv'
  <1>1. PICK b \in Counters, h \in Written : Held(b, h)
    BY DEF IInv
  <1>2. Shape /\ LinkFlow(b) /\ StageFlow(b, h) /\ EndFlow(b) /\ EndsInv /\ Quiet(b)
    BY <1>1 DEF Held
  <1>3. /\ UNCHANGED <<setup, buf, shut, gone, reset, hand, stage, sent, rcvd, ended, closed>>
        /\ copy' = [x \in Dirs |-> IF x = d \/ kinds[i] = "tokio"
                                   THEN [copy[x] EXCEPT ![i] = "done"] ELSE copy[x]]
        /\ Copying(d, i) /\ stage[i] = "open" /\ Broke(d, i)
    BY DEF Fail, Copying, links, ends
  <1>4. /\ copy' \in [Dirs -> [Stages -> {"copying", "done"}]]
        /\ \A x \in Dirs, j \in Stages : copy'[x][j] = copy[x][j] \/ (j = i /\ copy'[x][j] = "done")
    BY <1>2, <1>3 DEF Shape
  <1>5. Shape'
    BY <1>2, <1>3, <1>4, Frame DEF Shape
  <1>6. LinkFlow(b)' /\ EndFlow(b)' /\ StageFlow(b, h)'
    BY <1>2, <1>3, Frame DEF LinkFlow, EndFlow, StageFlow
  <1>7. EndsInv'
    BY <1>2, <1>3, <1>4, Frame DEF EndsInv
  <1>8. Broken'
    <2>1. Broken
      BY <1>2, <1>3, CopyingIsOpen, Chain DEF Broke, Quiet, Shape
    <2>2. Broken' <=> Broken
      <3>1. \A j \in Stages : stage[j] = "closed" =>
              \A x \in Dirs : copy'[x][j] = copy[x][j]
        BY <1>3, <1>4
      <3>2. QED
        BY <1>3, <3>1, Frame DEF Broken
    <2>3. QED
      BY <2>1, <2>2
  <1>9. Held(b, h)'
    BY <1>5, <1>6, <1>7, <1>8 DEF Held, Quiet
  <1>10. QED
    BY <1>3, <1>9, Frame DEF IInv

\* A copy meets the end of its stream, and hands it on.
LEMMA EofKeeps ==
  ASSUME IInv, NEW d \in Dirs, NEW i \in Stages, Eof(d, i)
  PROVE  IInv'
  <1>1. PICK b \in Counters, h \in Written : Held(b, h)
    BY DEF IInv
  <1>2. Shape /\ LinkFlow(b) /\ StageFlow(b, h) /\ EndFlow(b) /\ EndsInv /\ Quiet(b)
    BY <1>1 DEF Held
  <1> PICK f \in Links, t \in Links : f = From(d, i) /\ t = To(d, i)
    BY <1>2, Chain DEF Shape
  <1>3. /\ UNCHANGED <<setup, buf, gone, reset, hand, stage, sent, rcvd, ended, closed>>
        /\ copy' = [copy EXCEPT ![d][i] = "done"]
        /\ shut' = [shut EXCEPT ![t] = IF PassOn(i) THEN @ \cup {d} ELSE @]
        /\ buf[d][f] = <<>> /\ hand[d][i] = <<>> /\ d \in shut[f]
        /\ Copying(d, i) /\ stage[i] = "open"
    BY DEF Eof, Drained, Copying, ends
  <1>4. /\ copy' \in [Dirs -> [Stages -> {"copying", "done"}]]
        /\ \A x \in Dirs, j \in Stages :
             copy'[x][j] = IF x = d /\ j = i THEN "done" ELSE copy[x][j]
    BY <1>2, <1>3 DEF Shape
  <1>5. /\ shut' \in [Links -> SUBSET Dirs]
        /\ \A l \in Links : shut'[l] = IF l = t /\ PassOn(i) THEN shut[l] \cup {d} ELSE shut[l]
    BY <1>2, <1>3 DEF Shape
  <1>6. Shape'
    BY <1>2, <1>3, <1>4, <1>5, Frame DEF Shape
  <1>7. LinkFlow(b)' /\ EndFlow(b)' /\ StageFlow(b, h)'
    BY <1>2, <1>3, Frame DEF LinkFlow, EndFlow, StageFlow
  <1>8. EndsInv'
    <2> SUFFICES ASSUME NEW x \in Dirs
                 PROVE  /\ \A j \in Stages : x \in shut'[To(x, j)] =>
                             copy'[x][j] = "done" \/ stage[j] = "closed"
                        /\ ended[x] => x \in shut'[Last(x)] /\ buf[x][Last(x)] = <<>>
      BY <1>3, Frame DEF EndsInv
    <2>1. ASSUME NEW j \in Stages, x \in shut'[To(x, j)]
          PROVE  copy'[x][j] = "done" \/ stage[j] = "closed"
      <3>1. To(x, j) \in Links
        BY <1>2, Chain DEF Shape
      <3>2. x \in shut[To(x, j)] \/ (x = d /\ To(x, j) = t)
        BY <1>5, <2>1, <3>1
      <3>3. x = d /\ To(x, j) = t => j = i
        <4>1. To(d, i) = To(d, j) => i = j
          BY <1>2, Chain DEF Shape
        <4>2. QED
          BY <4>1
      <3>4. x \in shut[To(x, j)] => copy[x][j] = "done" \/ stage[j] = "closed"
        BY <1>2 DEF EndsInv
      <3>5. QED
        BY <1>4, <3>2, <3>3, <3>4
    <2>2. Last(x) \in Links
      BY <1>2, Chain DEF Shape
    <2>3. QED
      BY <1>2, <1>5, <2>1, <2>2 DEF EndsInv
  <1>9. Quiet(b)'
    <2> SUFFICES ASSUME ~Broken'
                 PROVE  reset' = {} /\ ShutInv(b)' /\ DoneInv(b)'
      BY DEF Quiet
    <2>1. ~Broken
      <3>1. \A j \in Stages : stage[j] = "closed" =>
              \A x \in Dirs : copy'[x][j] = copy[x][j]
        BY <1>3, <1>4
      <3>2. QED
        BY <1>3, <3>1, Frame DEF Broken
    <2>2. reset = {} /\ ShutInv(b) /\ DoneInv(b)
      BY <1>2, <2>1 DEF Quiet
    <2>3. d \notin gone[t]
      BY <1>2, <1>3, <2>1, CopyingIsOpen
    <2>4. Complete(b, d, t)
      <3>1. Complete(b, d, f)
        BY <1>3, <2>2 DEF ShutInv
      <3>2. /\ h[d][i] + Len(hand[d][i]) = b[d][f]
            /\ b[d][t] + Len(buf[d][t]) = h[d][i]
        BY <1>2, <1>3, <2>3 DEF StageFlow
      <3>3. Len(hand[d][i]) = 0 /\ Len(buf[d][f]) = 0 /\ h[d][i] \in Nat /\ b[d][f] \in Nat
        BY <1>2, <1>3, Types
      <3>4. b[d][f] = sent[d] /\ h[d][i] = b[d][f]
        BY <3>1, <3>2, <3>3 DEF Complete
      <3>5. QED
        BY <3>1, <3>2, <3>4 DEF Complete
    <2>5. ASSUME NEW x \in Dirs, NEW l \in Links, Complete(b, x, l)
          PROVE  Complete(b, x, l)'
      <3>1. First(x) \in Links
        BY <1>2, Chain DEF Shape
      <3>2. QED
        BY <1>3, <1>5, <2>5, <3>1, Frame DEF Complete
    <2>6. ShutInv(b)'
      <3> SUFFICES ASSUME NEW x \in Dirs, NEW l \in Links
                   PROVE  /\ x \in shut'[l] => Complete(b, x, l)'
                          /\ x \in shut'[l] => \A k \in Links : Before(x, k, l) => x \in shut'[k]
                          /\ x \in gone[l] => x \in shut'[l] /\ buf[x][l] = <<>>
        BY <1>3, Frame DEF ShutInv
      <3>1. ASSUME x \in shut'[l]
            PROVE  x \in shut[l] \/ (x = d /\ l = t)
        BY <1>5, <3>1
      <3>2. x \in shut'[l] => Complete(b, x, l)'
        <4>1. x \in shut[l] => Complete(b, x, l)
          BY <2>2 DEF ShutInv
        <4>2. QED
          BY <2>4, <2>5, <3>1, <4>1
      <3>3. ASSUME x \in shut'[l], NEW k \in Links, Before(x, k, l)
            PROVE  x \in shut'[k]
        <4>1. CASE x \in shut[l]
          BY <1>5, <2>2, <3>3, <4>1 DEF ShutInv
        <4>2. CASE x = d /\ l = t
          <5>1. k = t \/ Before(d, k, f)
            BY <1>2, <3>3, <4>2, Chain DEF Shape
          <5>2. Before(d, k, f) => d \in shut[k]
            BY <1>3, <2>2 DEF ShutInv
          <5>3. QED
            BY <1>5, <3>3, <4>2, <5>1, <5>2
        <4>3. QED
          BY <3>1, <3>3, <4>1, <4>2
      <3>4. x \in gone[l] => x \in shut'[l] /\ buf[x][l] = <<>>
        BY <1>5, <2>2 DEF ShutInv
      <3>5. QED
        BY <3>2, <3>3, <3>4
    <2>7. DoneInv(b)'
      <3> SUFFICES ASSUME NEW x \in Dirs, NEW j \in Stages
                   PROVE  /\ copy'[x][j] = "done" =>
                               /\ buf[x][From(x, j)] = <<>> /\ hand[x][j] = <<>>
                               /\ x \in shut'[From(x, j)]
                               /\ Complete(b, x, To(x, j))'
                          /\ kinds[j] = "pump" /\ x \in shut'[To(x, j)] => stage[j] = "closed"
        BY <1>3, Frame DEF DoneInv
      <3>1. From(x, j) \in Links /\ To(x, j) \in Links
        BY <1>2, Chain DEF Shape
      <3>2. ASSUME copy'[x][j] = "done"
            PROVE  /\ buf[x][From(x, j)] = <<>> /\ hand[x][j] = <<>>
                   /\ x \in shut'[From(x, j)]
                   /\ Complete(b, x, To(x, j))'
        <4>1. CASE x = d /\ j = i
          BY <1>3, <1>5, <2>4, <2>5, <4>1
        <4>2. CASE copy[x][j] = "done"
          <5>1. /\ buf[x][From(x, j)] = <<>> /\ hand[x][j] = <<>>
                /\ x \in shut[From(x, j)]
                /\ Complete(b, x, To(x, j))
            BY <2>2, <4>2 DEF DoneInv
          <5>2. QED
            BY <1>5, <2>5, <3>1, <5>1
        <4>3. QED
          BY <1>4, <3>2, <4>1, <4>2
      <3>3. ASSUME kinds[j] = "pump", x \in shut'[To(x, j)]
            PROVE  stage[j] = "closed"
        <4>1. x \in shut[To(x, j)] \/ (x = d /\ To(x, j) = t /\ kinds[i] = "tokio")
          BY <1>5, <3>1, <3>3 DEF PassOn
        <4>2. x = d /\ To(x, j) = t => j = i
          <5>1. To(d, i) = To(d, j) => i = j
            BY <1>2, Chain DEF Shape
          <5>2. QED
            BY <5>1
        <4>3. QED
          BY <2>2, <3>3, <4>1, <4>2 DEF DoneInv
      <3>4. QED
        BY <3>2, <3>3
    <2>8. QED
      BY <1>3, <2>2, <2>6, <2>7
  <1>10. Held(b, h)'
    BY <1>6, <1>7, <1>8, <1>9 DEF Held
  <1>11. QED
    BY <1>3, <1>10, Frame DEF IInv

\* An end writes the next byte.
LEMMA EndWriteKeeps ==
  ASSUME IInv, NEW e \in Ends, EndWrite(e)
  PROVE  IInv'
  <1>1. PICK b \in Counters, h \in Written : Held(b, h)
    BY DEF IInv
  <1>2. Shape /\ LinkFlow(b) /\ StageFlow(b, h) /\ EndFlow(b) /\ EndsInv /\ Quiet(b)
    BY <1>1 DEF Held
  <1> PICK d \in Dirs : d = Out(e)
    BY TwoEnds
  <1> PICK f \in Links : f = First(d)
    BY <1>2, Chain DEF Shape
  <1>3. /\ UNCHANGED <<setup, shut, gone, reset, hand, copy, stage, rcvd, ended, closed>>
        /\ buf' = [buf EXCEPT ![d][f] = Append(@, sent[d] + 1)]
        /\ sent' = [sent EXCEPT ![d] = @ + 1]
        /\ d \notin shut[f] /\ d \notin gone[f]
    BY DEF EndWrite, stages
  <1>4. /\ buf[d][f] \in Seq(Nat) /\ b[d][f] \in Nat /\ Len(buf[d][f]) \in Nat
        /\ sent[d] \in Nat
    BY <1>2, Types
  <1>5. PICK new \in Seq(Nat) : new = Append(buf[d][f], sent[d] + 1)
    <2>1. sent[d] + 1 \in Nat
      BY <1>4
    <2>2. \A s \in Seq(Nat), x \in Nat : Append(s, x) \in Seq(Nat)
      OBVIOUS
    <2>3. Append(buf[d][f], sent[d] + 1) \in Seq(Nat)
      BY <1>4, <2>1, <2>2
    <2>4. QED
      BY <2>3, Zenon
  <1>6. b[d][f] + Len(buf[d][f]) = sent[d]
    BY <1>2, <1>3 DEF EndFlow
  <1>7. Len(new) = Len(buf[d][f]) + 1 /\ Counts(new, b[d][f])
    <2>1. Counts(buf[d][f], b[d][f])
      BY <1>2 DEF LinkFlow
    <2>2. sent[d] + 1 = b[d][f] + Len(buf[d][f]) + 1
      BY <1>4, <1>6
    <2>3. QED
      BY <1>4, <1>5, <2>1, <2>2, CountsAppend
  <1>8. \A x \in Dirs, l \in Links : buf'[x][l] = IF x = d /\ l = f THEN new ELSE buf[x][l]
    BY <1>2, <1>3, <1>5 DEF Shape
  <1>9. \A x \in Dirs : sent'[x] = IF x = d THEN sent[d] + 1 ELSE sent[x]
    BY <1>2, <1>3 DEF Shape
  <1>10. \A x \in Dirs : sent[x] \in Nat /\ sent'[x] \in Nat
    <2>1. \A x \in Dirs : sent[x] \in Nat
      BY <1>2 DEF Shape
    <2>2. PICK n \in Nat : n = sent[d] + 1
      BY <1>4
    <2>3. \A x \in Dirs : sent'[x] = n \/ sent'[x] = sent[x]
      BY <1>9, <2>2
    <2>4. QED
      BY <2>1, <2>3
  <1>11. \A x \in Dirs : \A m \in Nat : m <= sent[x] => m <= sent'[x]
    BY <1>4, <1>9, <1>10
  <1>12. Shape'
    <2>1. buf' \in [Dirs -> [Links -> Seq(Nat)]]
      BY <1>2, <1>3, <1>5 DEF Shape
    <2>2. sent' \in [Dirs -> Nat]
      BY <1>2, <1>3, <1>4 DEF Shape
    <2>3. QED
      BY <1>2, <1>3, <2>1, <2>2, Frame DEF Shape
  <1>13. b[d][f] + Len(buf'[d][f]) = sent'[d]
    <2>1. b[d][f] + (Len(buf[d][f]) + 1) = sent[d] + 1
      BY <1>4, <1>6
    <2>2. QED
      BY <1>7, <1>8, <1>9, <2>1
  <1>14. LinkFlow(b)'
    <2> SUFFICES ASSUME NEW x \in Dirs, NEW l \in Links
                 PROVE  Counts(buf'[x][l], b[x][l]) /\ b[x][l] + Len(buf'[x][l]) <= sent'[x]
      BY <1>3, Frame DEF LinkFlow
    <2>1. CASE x = d /\ l = f
      BY <1>7, <1>8, <1>10, <1>13, <2>1
    <2>2. CASE ~(x = d /\ l = f)
      <3>1. buf'[x][l] = buf[x][l]
        BY <1>8, <2>2
      <3>2. b[x][l] + Len(buf[x][l]) \in Nat
        <4>1. b[x][l] \in Nat /\ Len(buf[x][l]) \in Nat
          BY <1>2, Types
        <4>2. QED
          BY <4>1
      <3>3. Counts(buf[x][l], b[x][l]) /\ b[x][l] + Len(buf[x][l]) <= sent[x]
        BY <1>2 DEF LinkFlow
      <3>4. QED
        BY <1>11, <3>1, <3>2, <3>3
    <2>3. QED
      BY <2>1, <2>2
  <1>15. StageFlow(b, h)'
    <2> SUFFICES ASSUME NEW x \in Dirs, NEW j \in Stages
                 PROVE  /\ Counts(hand[x][j], h[x][j])
                        /\ h[x][j] + Len(hand[x][j]) <= sent'[x]
                        /\ stage[j] # "closed" =>
                             h[x][j] + Len(hand[x][j]) = b[x][From(x, j)]
                        /\ stage[j] # "closed" /\ x \notin gone[To(x, j)] =>
                             b[x][To(x, j)] + Len(buf'[x][To(x, j)]) = h[x][j]
      BY <1>3, Frame DEF StageFlow
    <2>1. To(x, j) \in Links /\ To(x, j) # First(x)
      BY <1>2, Chain DEF Shape
    <2>2. buf'[x][To(x, j)] = buf[x][To(x, j)]
      BY <1>8, <2>1
    <2>3. h[x][j] + Len(hand[x][j]) \in Nat
      <3>1. h[x][j] \in Nat /\ Len(hand[x][j]) \in Nat
        BY <1>2, Types
      <3>2. QED
        BY <3>1
    <2>4. h[x][j] + Len(hand[x][j]) <= sent'[x]
      BY <1>2, <1>11, <2>3 DEF StageFlow
    <2>5. QED
      BY <1>2, <2>2, <2>4 DEF StageFlow
  <1>16. EndFlow(b)'
    <2> SUFFICES ASSUME NEW x \in Dirs
                 PROVE  /\ x \notin gone[First(x)] =>
                             b[x][First(x)] + Len(buf'[x][First(x)]) = sent'[x]
                        /\ Counts(rcvd[x], 0)
                        /\ Len(rcvd[x]) <= sent'[x]
                        /\ Reader(x) \notin closed => Len(rcvd[x]) = b[x][Last(x)]
      BY <1>3, Frame DEF EndFlow
    <2>1. First(x) \in Links
      BY <1>2, Chain DEF Shape
    <2>2. x \notin gone[First(x)] => b[x][First(x)] + Len(buf'[x][First(x)]) = sent'[x]
      <3>1. CASE x = d
        BY <1>13, <3>1
      <3>2. CASE x # d
        BY <1>2, <1>8, <1>9, <2>1, <3>2 DEF EndFlow
      <3>3. QED
        BY <3>1, <3>2
    <2>3. Len(rcvd[x]) \in Nat
      BY <1>2, Types
    <2>4. Len(rcvd[x]) <= sent'[x]
      BY <1>2, <1>11, <2>3 DEF EndFlow
    <2>5. QED
      BY <1>2, <2>2, <2>4 DEF EndFlow
  <1>17. \A x \in Dirs, l \in Links : x \in shut[l] /\ buf[x][l] = <<>> => buf'[x][l] = <<>>
    BY <1>3, <1>8
  <1>18. EndsInv'
    <2> SUFFICES ASSUME NEW x \in Dirs
                 PROVE  /\ \A i \in Stages : x \in shut[To(x, i)] =>
                             copy[x][i] = "done" \/ stage[i] = "closed"
                        /\ ended[x] => x \in shut[Last(x)] /\ buf'[x][Last(x)] = <<>>
      BY <1>3, Frame DEF EndsInv
    <2>1. Last(x) \in Links
      BY <1>2, Chain DEF Shape
    <2>2. QED
      BY <1>2, <1>17, <2>1 DEF EndsInv
  <1>19. Quiet(b)'
    <2>1. (Broken => Broken') /\ (~Broken => reset' = {})
      <3>1. Broken' <=> Broken
        BY <1>3, Frame DEF Broken
      <3>2. QED
        BY <1>2, <1>3, <3>1 DEF Quiet
    <2>2. \A x \in Dirs, l \in Links :
            /\ Complete(b, x, l) => b[x][l] + Len(buf'[x][l]) = sent'[x]
            /\ x \in shut[l] /\ buf[x][l] = <<>> => buf'[x][l] = <<>>
      <3> SUFFICES ASSUME NEW x \in Dirs, NEW l \in Links, Complete(b, x, l)
                   PROVE  b[x][l] + Len(buf'[x][l]) = sent'[x]
        BY <1>17
      <3>1. x # d
        BY <1>3 DEF Complete
      <3>2. QED
        BY <1>8, <1>9, <3>1 DEF Complete
    <2>3. QED
      BY <1>2, <1>3, <2>1, <2>2, QuietStays
  <1>20. Held(b, h)'
    BY <1>12, <1>14, <1>15, <1>16, <1>18, <1>19 DEF Held
  <1>21. QED
    BY <1>3, <1>20, Frame DEF IInv

\* An end reads a byte.
LEMMA EndReadKeeps ==
  ASSUME IInv, NEW e \in Ends, EndRead(e), buf[Other(Out(e))][Last(Other(Out(e)))] # <<>>
  PROVE  IInv'
  <1>1. PICK b \in Counters, h \in Written : Held(b, h)
    BY DEF IInv
  <1>2. Shape /\ LinkFlow(b) /\ StageFlow(b, h) /\ EndFlow(b) /\ EndsInv /\ Quiet(b)
    BY <1>1 DEF Held
  <1> PICK d \in Dirs : d = Other(Out(e)) /\ Reader(d) = e
    BY TwoEnds
  <1> PICK f \in Links : f = Last(d)
    BY <1>2, Chain DEF Shape
  <1>3. /\ UNCHANGED <<setup, shut, gone, reset, hand, copy, stage, sent, ended, closed>>
        /\ buf[d][f] # <<>>
        /\ rcvd' = [rcvd EXCEPT ![d] = Append(@, Head(buf[d][f]))]
        /\ buf' = [buf EXCEPT ![d][f] = Tail(@)]
        /\ Reader(d) \notin closed
    BY DEF EndRead, stages
  <1>4. /\ buf[d][f] \in Seq(Nat) /\ b[d][f] \in Nat /\ Len(buf[d][f]) \in Nat
        /\ rcvd[d] \in Seq(Nat) /\ Len(rcvd[d]) \in Nat
        /\ sent[d] \in Nat
    BY <1>2, Types
  <1>5. PICK rest \in Seq(Nat) : /\ rest = Tail(buf[d][f])
                                 /\ Head(buf[d][f]) = b[d][f] + 1
                                 /\ Len(rest) + 1 = Len(buf[d][f])
                                 /\ Counts(rest, b[d][f] + 1)
    <2>1. Counts(buf[d][f], b[d][f])
      BY <1>2 DEF LinkFlow
    <2>2. /\ Head(buf[d][f]) = b[d][f] + 1
          /\ Tail(buf[d][f]) \in Seq(Nat) /\ Len(Tail(buf[d][f])) + 1 = Len(buf[d][f])
          /\ Counts(Tail(buf[d][f]), b[d][f] + 1)
      BY <1>3, <1>4, <2>1, CountsTail
    <2>3. QED
      BY <2>2, Zenon
  <1>6. PICK new \in Seq(Nat) : new = Append(rcvd[d], Head(buf[d][f]))
    <2>1. Head(buf[d][f]) \in Nat
      BY <1>4, <1>5
    <2>2. \A s \in Seq(Nat), x \in Nat : Append(s, x) \in Seq(Nat)
      OBVIOUS
    <2>3. Append(rcvd[d], Head(buf[d][f])) \in Seq(Nat)
      BY <1>4, <2>1, <2>2
    <2>4. QED
      BY <2>3, Zenon
  <1>7. Len(rcvd[d]) = b[d][f] /\ b[d][f] + Len(buf[d][f]) <= sent[d]
    BY <1>2, <1>3 DEF EndFlow, LinkFlow
  <1>8. Len(new) = Len(rcvd[d]) + 1 /\ Counts(new, 0)
    <2>1. Counts(rcvd[d], 0)
      BY <1>2 DEF EndFlow
    <2>2. Head(buf[d][f]) = 0 + Len(rcvd[d]) + 1
      BY <1>4, <1>5, <1>7
    <2>3. QED
      BY <1>4, <1>6, <2>1, <2>2, CountsAppend
  <1>9. /\ (b[d][f] + 1) + Len(rest) = b[d][f] + Len(buf[d][f])
        /\ b[d][f] + 1 \in Nat
        /\ b[d][f] + 1 <= sent[d]
    <2>1. \A s \in Seq(Nat) : Len(s) \in Nat
      OBVIOUS
    <2>2. Len(rest) \in Nat
      BY <2>1
    <2>3. Len(rest) + 1 = Len(buf[d][f])
      BY <1>5
    <2>4. b[d][f] + Len(buf[d][f]) <= sent[d]
      BY <1>7
    <2>5. PICK x \in Nat : x = b[d][f]
      BY <1>4
    <2>6. PICK y \in Nat : y = Len(rest)
      BY <2>2
    <2>7. PICK z \in Nat : z = Len(buf[d][f])
      BY <1>4
    <2>8. PICK n \in Nat : n = sent[d]
      BY <1>4
    <2>9. y + 1 = z
      BY <2>3, <2>6, <2>7
    <2>10. x + z <= n
      BY <2>4, <2>5, <2>7, <2>8
    <2>11. (x + 1) + y = x + z /\ x + 1 \in Nat /\ x + 1 <= n
      BY <2>9, <2>10
    <2>12. QED
      BY <2>5, <2>6, <2>7, <2>8, <2>11
  <1>10. PICK c \in Counters :
           \A x \in Dirs, l \in Links :
             c[x][l] = IF x = d /\ l = f THEN b[d][f] + 1 ELSE b[x][l]
    <2> DEFINE c == [b EXCEPT ![d][f] = @ + 1]
    <2>1. c \in Counters
      BY <1>9 DEF Counters
    <2>2. \A x \in Dirs, l \in Links :
            c[x][l] = IF x = d /\ l = f THEN b[d][f] + 1 ELSE b[x][l]
      BY DEF Counters
    <2>3. QED
      BY <2>1, <2>2
  <1>11. \A x \in Dirs, l \in Links :
           buf'[x][l] = IF x = d /\ l = f THEN rest ELSE buf[x][l]
    BY <1>2, <1>3, <1>5 DEF Shape
  <1>12. \A x \in Dirs : rcvd'[x] = IF x = d THEN new ELSE rcvd[x]
    BY <1>2, <1>3, <1>6 DEF Shape
  <1>13. \A x \in Dirs, l \in Links : c[x][l] + Len(buf'[x][l]) = b[x][l] + Len(buf[x][l])
    BY <1>9, <1>10, <1>11
  <1>14. Shape'
    <2>1. buf' \in [Dirs -> [Links -> Seq(Nat)]]
      BY <1>2, <1>3, <1>5 DEF Shape
    <2>2. rcvd' \in [Dirs -> Seq(Nat)]
      BY <1>2, <1>3, <1>6 DEF Shape
    <2>3. QED
      BY <1>2, <1>3, <2>1, <2>2, Frame DEF Shape
  <1>15. LinkFlow(c)'
    <2> SUFFICES ASSUME NEW x \in Dirs, NEW l \in Links
                 PROVE  Counts(buf'[x][l], c[x][l]) /\ c[x][l] + Len(buf'[x][l]) <= sent[x]
      BY <1>3, Frame DEF LinkFlow
    <2>1. Counts(buf'[x][l], c[x][l])
      <3>1. CASE x = d /\ l = f
        <4>1. buf'[x][l] = rest /\ c[x][l] = b[d][f] + 1
          BY <1>10, <1>11, <3>1
        <4>2. QED
          BY <1>5, <4>1
      <3>2. CASE ~(x = d /\ l = f)
        <4>1. buf'[x][l] = buf[x][l] /\ c[x][l] = b[x][l]
          BY <1>10, <1>11, <3>2
        <4>2. QED
          BY <1>2, <4>1 DEF LinkFlow
      <3>3. QED
        BY <3>1, <3>2
    <2>2. QED
      BY <1>2, <1>13, <2>1 DEF LinkFlow
  <1>16. StageFlow(c, h)'
    <2> SUFFICES ASSUME NEW x \in Dirs, NEW j \in Stages
                 PROVE  /\ Counts(hand[x][j], h[x][j])
                        /\ h[x][j] + Len(hand[x][j]) <= sent[x]
                        /\ stage[j] # "closed" =>
                             h[x][j] + Len(hand[x][j]) = c[x][From(x, j)]
                        /\ stage[j] # "closed" /\ x \notin gone[To(x, j)] =>
                             c[x][To(x, j)] + Len(buf'[x][To(x, j)]) = h[x][j]
      BY <1>3, Frame DEF StageFlow
    <2>1. From(x, j) \in Links /\ To(x, j) \in Links /\ From(x, j) # Last(x)
      BY <1>2, Chain DEF Shape
    <2>2. c[x][From(x, j)] = b[x][From(x, j)]
      BY <1>10, <2>1
    <2>3. c[x][To(x, j)] + Len(buf'[x][To(x, j)]) = b[x][To(x, j)] + Len(buf[x][To(x, j)])
      BY <1>13, <2>1
    <2>4. QED
      BY <1>2, <2>2, <2>3 DEF StageFlow
  <1>17. EndFlow(c)'
    <2> SUFFICES ASSUME NEW x \in Dirs
                 PROVE  /\ x \notin gone[First(x)] =>
                             c[x][First(x)] + Len(buf'[x][First(x)]) = sent[x]
                        /\ Counts(rcvd'[x], 0)
                        /\ Len(rcvd'[x]) <= sent[x]
                        /\ Reader(x) \notin closed => Len(rcvd'[x]) = c[x][Last(x)]
      BY <1>3, Frame DEF EndFlow
    <2>1. First(x) \in Links /\ Last(x) \in Links
      BY <1>2, Chain DEF Shape
    <2>2. x \notin gone[First(x)] => c[x][First(x)] + Len(buf'[x][First(x)]) = sent[x]
      BY <1>2, <1>13, <2>1 DEF EndFlow
    <2>3. CASE x = d
      <3>1. rcvd'[x] = new /\ c[x][Last(x)] = b[d][f] + 1
        BY <1>10, <1>12, <2>3
      <3>2. QED
        BY <1>7, <1>8, <1>9, <2>2, <2>3, <3>1
    <2>4. CASE x # d
      <3>1. rcvd'[x] = rcvd[x] /\ c[x][Last(x)] = b[x][Last(x)]
        BY <1>10, <1>12, <2>1, <2>4
      <3>2. QED
        BY <1>2, <2>2, <3>1 DEF EndFlow
    <2>5. QED
      BY <2>3, <2>4
  <1>18. \A x \in Dirs, l \in Links : buf[x][l] = <<>> => buf'[x][l] = <<>>
    BY <1>3, <1>11
  <1>19. EndsInv'
    <2> SUFFICES ASSUME NEW x \in Dirs
                 PROVE  /\ \A i \in Stages : x \in shut[To(x, i)] =>
                             copy[x][i] = "done" \/ stage[i] = "closed"
                        /\ ended[x] => x \in shut[Last(x)] /\ buf'[x][Last(x)] = <<>>
      BY <1>3, Frame DEF EndsInv
    <2>1. Last(x) \in Links
      BY <1>2, Chain DEF Shape
    <2>2. QED
      BY <1>2, <1>18, <2>1 DEF EndsInv
  <1>20. Quiet(c)'
    <2>1. (Broken => Broken') /\ (~Broken => reset' = {})
      <3>1. Broken' <=> Broken
        BY <1>3, Frame DEF Broken
      <3>2. QED
        BY <1>2, <1>3, <3>1 DEF Quiet
    <2>2. \A x \in Dirs, l \in Links :
            /\ Complete(b, x, l) => c[x][l] + Len(buf'[x][l]) = sent'[x]
            /\ x \in shut[l] /\ buf[x][l] = <<>> => buf'[x][l] = <<>>
      BY <1>3, <1>13, <1>18 DEF Complete
    <2>3. QED
      BY <1>2, <1>3, <2>1, <2>2, QuietStays
  <1>21. Held(c, h)'
    BY <1>14, <1>15, <1>16, <1>17, <1>19, <1>20 DEF Held
  <1>22. QED
    BY <1>3, <1>21, Frame DEF IInv

\* An end sees the end of what it reads.
LEMMA EndSeesKeeps ==
  ASSUME IInv, NEW e \in Ends, EndRead(e), buf[Other(Out(e))][Last(Other(Out(e)))] = <<>>
  PROVE  IInv'
  <1>1. PICK b \in Counters, h \in Written : Held(b, h)
    BY DEF IInv
  <1>2. Shape /\ LinkFlow(b) /\ StageFlow(b, h) /\ EndFlow(b) /\ EndsInv /\ Quiet(b)
    BY <1>1 DEF Held
  <1> PICK d \in Dirs : d = Other(Out(e)) /\ Reader(d) = e
    BY TwoEnds
  <1>3. /\ UNCHANGED <<setup, buf, shut, gone, reset, hand, copy, stage, sent, rcvd, closed>>
        /\ ended' = [ended EXCEPT ![d] = TRUE]
        /\ d \in shut[Last(d)] /\ buf[d][Last(d)] = <<>>
        /\ e \notin closed
    BY DEF EndRead, stages
  <1>4. Shape'
    BY <1>2, <1>3, Frame DEF Shape
  <1>5. LinkFlow(b)' /\ EndFlow(b)' /\ StageFlow(b, h)'
    BY <1>2, <1>3, Frame DEF LinkFlow, EndFlow, StageFlow
  <1>6. \A x \in Dirs : ended'[x] <=> ended[x] \/ x = d
    BY <1>2, <1>3 DEF Shape
  <1>7. EndsInv'
    BY <1>2, <1>3, <1>6, Frame DEF EndsInv
  <1>8. Quiet(b)'
    <2>1. Broken => Broken'
      <3>1. \A k \in closed : ended'[Other(Out(k))] => ended[Other(Out(k))]
        <4> SUFFICES ASSUME NEW k \in closed, ended'[Other(Out(k))]
                     PROVE  ended[Other(Out(k))]
          OBVIOUS
        <4>1. k \in Ends
          BY <1>2 DEF Shape
        <4>2. Other(Out(k)) \in Dirs /\ Other(Out(k)) # d
          BY <1>3, <4>1, TwoEnds
        <4>3. QED
          BY <1>6, <4>2
      <3>2. QED
        BY <1>3, <3>1, Frame DEF Broken
    <2>2. ~Broken => reset' = {}
      BY <1>2, <1>3 DEF Quiet
    <2>3. \A x \in Dirs, l \in Links :
            Complete(b, x, l) => b[x][l] + Len(buf'[x][l]) = sent'[x]
      BY <1>3 DEF Complete
    <2>4. QED
      BY <1>2, <1>3, <2>1, <2>2, <2>3, QuietStays
  <1>9. Held(b, h)'
    BY <1>4, <1>5, <1>7, <1>8 DEF Held
  <1>10. QED
    BY <1>3, <1>9, Frame DEF IInv

\* An end shuts down what it writes.
LEMMA EndShutdownKeeps ==
  ASSUME IInv, NEW e \in Ends, EndShutdown(e)
  PROVE  IInv'
  <1>1. PICK b \in Counters, h \in Written : Held(b, h)
    BY DEF IInv
  <1>2. Shape /\ LinkFlow(b) /\ StageFlow(b, h) /\ EndFlow(b) /\ EndsInv /\ Quiet(b)
    BY <1>1 DEF Held
  <1> PICK d \in Dirs : d = Out(e)
    BY TwoEnds
  <1> PICK f \in Links : f = First(d)
    BY <1>2, Chain DEF Shape
  <1>3. /\ UNCHANGED <<setup, buf, gone, reset, hand, copy, stage, sent, rcvd, ended, closed>>
        /\ shut' = [shut EXCEPT ![f] = @ \cup {d}]
    BY DEF EndShutdown, stages, ends
  <1>4. /\ shut' \in [Links -> SUBSET Dirs]
        /\ \A l \in Links : shut'[l] = IF l = f THEN shut[l] \cup {d} ELSE shut[l]
    <2>1. shut \in [Links -> SUBSET Dirs]
      BY <1>2 DEF Shape
    <2>2. shut[f] \cup {d} \in SUBSET Dirs
      BY <2>1
    <2>3. QED
      BY <1>3, <2>1, <2>2
  <1>5. Shape'
    BY <1>2, <1>3, <1>4, Frame DEF Shape
  <1>6. LinkFlow(b)' /\ EndFlow(b)' /\ StageFlow(b, h)'
    BY <1>2, <1>3, Frame DEF LinkFlow, EndFlow, StageFlow
  <1>7. \A x \in Dirs, i \in Stages :
          /\ From(x, i) \in Links /\ To(x, i) \in Links
          /\ x \in shut'[To(x, i)] => x \in shut[To(x, i)]
    <2> SUFFICES ASSUME NEW x \in Dirs, NEW i \in Stages
                 PROVE  /\ From(x, i) \in Links /\ To(x, i) \in Links
                        /\ x \in shut'[To(x, i)] => x \in shut[To(x, i)]
      OBVIOUS
    <2>1. From(x, i) \in Links /\ To(x, i) \in Links /\ To(x, i) # First(x)
      BY <1>2, Chain DEF Shape
    <2>2. QED
      BY <1>4, <2>1
  <1>8. EndsInv'
    <2> SUFFICES ASSUME NEW x \in Dirs
                 PROVE  /\ \A i \in Stages : x \in shut'[To(x, i)] =>
                             copy[x][i] = "done" \/ stage[i] = "closed"
                        /\ ended[x] => x \in shut'[Last(x)] /\ buf[x][Last(x)] = <<>>
      BY <1>3, Frame DEF EndsInv
    <2>1. Last(x) \in Links
      BY <1>2, Chain DEF Shape
    <2>2. QED
      BY <1>2, <1>4, <1>7, <2>1 DEF EndsInv
  <1>9. Quiet(b)'
    <2> SUFFICES ASSUME ~Broken'
                 PROVE  reset' = {} /\ ShutInv(b)' /\ DoneInv(b)'
      BY DEF Quiet
    <2>1. ~Broken
      BY <1>3, Frame DEF Broken
    <2>2. reset = {} /\ ShutInv(b) /\ DoneInv(b)
      BY <1>2, <2>1 DEF Quiet
    <2>3. ASSUME NEW x \in Dirs, NEW l \in Links, Complete(b, x, l)
          PROVE  Complete(b, x, l)'
      <3>1. First(x) \in Links
        BY <1>2, Chain DEF Shape
      <3>2. QED
        BY <1>3, <1>4, <2>3, <3>1, Frame DEF Complete
    <2>4. Complete(b, d, f)'
      <3>1. b[d][f] + Len(buf[d][f]) = sent[d]
        BY <1>2, <2>2 DEF EndFlow, ShutInv, Complete
      <3>2. QED
        BY <1>3, <1>4, <3>1, Frame DEF Complete
    <2>5. ShutInv(b)'
      <3> SUFFICES ASSUME NEW x \in Dirs, NEW l \in Links
                   PROVE  /\ x \in shut'[l] => Complete(b, x, l)'
                          /\ x \in shut'[l] => \A k \in Links : Before(x, k, l) => x \in shut'[k]
                          /\ x \in gone[l] => x \in shut'[l] /\ buf[x][l] = <<>>
        BY <1>3, Frame DEF ShutInv
      <3>1. x \in shut'[l] => x \in shut[l] \/ (x = d /\ l = f)
        BY <1>4
      <3>2. x \in shut'[l] => Complete(b, x, l)'
        <4>1. x \in shut[l] => Complete(b, x, l)
          BY <2>2 DEF ShutInv
        <4>2. QED
          BY <2>3, <2>4, <3>1, <4>1
      <3>3. ASSUME x \in shut'[l], NEW k \in Links, Before(x, k, l)
            PROVE  x \in shut'[k]
        <4>1. CASE x \in shut[l]
          BY <1>4, <2>2, <3>3, <4>1 DEF ShutInv
        <4>2. CASE x = d /\ l = f
          <5>1. k = f
            BY <1>2, <3>3, <4>2, Chain DEF Shape
          <5>2. QED
            BY <3>3, <4>2, <5>1
        <4>3. QED
          BY <3>1, <3>3, <4>1, <4>2
      <3>4. x \in gone[l] => x \in shut'[l] /\ buf[x][l] = <<>>
        BY <1>4, <2>2 DEF ShutInv
      <3>5. QED
        BY <3>2, <3>3, <3>4
    <2>6. DoneInv(b)'
      <3> SUFFICES ASSUME NEW x \in Dirs, NEW j \in Stages
                   PROVE  /\ copy[x][j] = "done" =>
                               /\ buf[x][From(x, j)] = <<>> /\ hand[x][j] = <<>>
                               /\ x \in shut'[From(x, j)]
                               /\ Complete(b, x, To(x, j))'
                          /\ kinds[j] = "pump" /\ x \in shut'[To(x, j)] => stage[j] = "closed"
        BY <1>3, Frame DEF DoneInv
      <3>1. ASSUME copy[x][j] = "done"
            PROVE  /\ buf[x][From(x, j)] = <<>> /\ hand[x][j] = <<>>
                   /\ x \in shut'[From(x, j)]
                   /\ Complete(b, x, To(x, j))'
        <4>1. /\ buf[x][From(x, j)] = <<>> /\ hand[x][j] = <<>>
              /\ x \in shut[From(x, j)]
              /\ Complete(b, x, To(x, j))
          BY <2>2, <3>1 DEF DoneInv
        <4>2. QED
          BY <1>4, <1>7, <2>3, <4>1
      <3>2. kinds[j] = "pump" /\ x \in shut'[To(x, j)] => stage[j] = "closed"
        BY <1>7, <2>2 DEF DoneInv
      <3>3. QED
        BY <3>1, <3>2
    <2>7. QED
      BY <1>3, <2>2, <2>5, <2>6
  <1>10. Held(b, h)'
    BY <1>5, <1>6, <1>8, <1>9 DEF Held
  <1>11. QED
    BY <1>3, <1>10, Frame DEF IInv
\* Every step keeps the invariant.
LEMMA NextKeeps == IInv /\ [Next]_vars => IInv'
  <1> SUFFICES ASSUME IInv, [Next]_vars
               PROVE  IInv'
    OBVIOUS
  <1>1. ASSUME NEW d \in Dirs, NEW i \in Stages, Step(d, i)
        PROVE  IInv'
    <2>1. CASE Take(d, i)
      BY <2>1, TakeKeeps
    <2>2. CASE Put(d, i) /\ d \notin gone[To(d, i)]
      BY <2>2, PutKeeps
    <2>3. CASE Put(d, i) /\ d \in gone[To(d, i)]
      BY <2>3, PutGoneKeeps
    <2>4. CASE Eof(d, i)
      BY <2>4, EofKeeps
    <2>5. CASE Fail(d, i)
      BY <2>5, FailKeeps
    <2>6. QED
      BY <1>1, <2>1, <2>2, <2>3, <2>4, <2>5 DEF Step
  <1>2. ASSUME NEW i \in Stages, Main(i) \/ Helping(i)
        PROVE  IInv'
    <2>1. "up" \in Dirs /\ "down" \in Dirs
      BY DEF Dirs
    <2>2. CASE Step("up", i) \/ Step("down", i)
      BY <1>1, <2>1, <2>2
    <2>3. CASE Clone(i)
      BY <2>3, CloneKeeps
    <2>4. CASE Return(i)
      BY <2>4, ReturnKeeps
    <2>5. QED
      BY <1>2, <2>2, <2>3, <2>4 DEF Main, Helping
  <1>3. ASSUME NEW e \in Ends, EndWrite(e) \/ EndRead(e) \/ EndShutdown(e) \/ EndClose(e)
        PROVE  IInv'
    <2>1. CASE EndWrite(e)
      BY <2>1, EndWriteKeeps
    <2>2. CASE EndRead(e) /\ buf[Other(Out(e))][Last(Other(Out(e)))] # <<>>
      BY <2>2, EndReadKeeps
    <2>3. CASE EndRead(e) /\ buf[Other(Out(e))][Last(Other(Out(e)))] = <<>>
      BY <2>3, EndSeesKeeps
    <2>4. CASE EndShutdown(e)
      BY <2>4, EndShutdownKeeps
    <2>5. CASE EndClose(e)
      BY <2>5, EndCloseKeeps
    <2>6. QED
      BY <1>3, <2>1, <2>2, <2>3, <2>4, <2>5
  <1>4. CASE TargetExits
    BY <1>4, TargetExitsKeeps
  <1>5. CASE UNCHANGED vars
    <2>1. /\ UNCHANGED <<setup, buf, shut, gone, reset, hand, copy, stage>>
          /\ UNCHANGED <<sent, rcvd, ended, closed>>
      BY <1>5 DEF vars, links, stages, ends
    <2>2. PICK b \in Counters, h \in Written : Held(b, h)
      BY DEF IInv
    <2>3. Broken' <=> Broken
      BY <2>1, Frame DEF Broken
    <2>4. Shape' /\ LinkFlow(b)' /\ StageFlow(b, h)' /\ EndFlow(b)' /\ EndsInv'
      BY <2>1, <2>2, Frame DEF Held, Shape, LinkFlow, StageFlow, EndFlow, EndsInv
    <2>5. Quiet(b)'
      BY <2>1, <2>2, <2>3, Frame DEF Held, Quiet, ShutInv, DoneInv, Complete
    <2>6. Held(b, h)'
      BY <2>4, <2>5 DEF Held
    <2>7. QED
      BY <2>1, <2>6, Frame DEF IInv
  <1>6. QED
    BY <1>2, <1>3, <1>4, <1>5 DEF Next

\* The invariant holds in every reachable state.
LEMMA Invariance == Spec => []IInv
  BY InitHeld, NextKeeps, PTL DEF Spec

\* While nobody gave up, an end that sees the other's end behind a pump has
\* ended its own stream before: pump_bidirectional's threads shut nothing down,
\* and its duplicates close only after both have ended.
THEOREM EofIsMutual == Spec => []EofWaitsForBoth
  <1>1. IInv => EofWaitsForBoth
    <2> SUFFICES ASSUME IInv, NEW d \in Dirs, ended[d], ~Broken,
                        NEW i \in Stages, kinds[i] = "pump"
                 PROVE  Other(d) \in shut[First(Other(d))]
      BY DEF EofWaitsForBoth
    <2>1. PICK b \in Counters, h \in Written : Held(b, h)
      BY DEF IInv
    <2>2. /\ Other(d) \in Dirs /\ Last(d) \in Links /\ To(d, i) \in Links
          /\ Before(d, To(d, i), Last(d))
      BY <2>1, Chain DEF Held, Shape
    <2>3. d \in shut[Last(d)]
      BY <2>1 DEF Held, EndsInv
    <2>4. d \in shut[To(d, i)]
      BY <2>1, <2>2, <2>3 DEF Held, Quiet, ShutInv
    <2>5. stage[i] = "closed"
      BY <2>1, <2>4 DEF Held, Quiet, DoneInv
    <2>6. copy[Other(d)][i] = "done"
      BY <2>2, <2>5 DEF Broken
    <2>7. Complete(b, Other(d), To(Other(d), i))
      BY <2>1, <2>2, <2>6 DEF Held, Quiet, DoneInv
    <2>8. QED
      BY <2>7 DEF Complete
  <1>2. QED
    BY <1>1, Invariance, PTL

-----------------------------------------------------------------------------
(* Types and capacities.                                                   *)

\* No buffer is overfull, and no end writes more than it has.
Bounded ==
  /\ \A d \in Dirs, l \in Links : Len(buf[d][l]) <= LinkCap
  /\ \A d \in Dirs, i \in Stages : Len(hand[d][i]) <= HandCap
  /\ \A d \in Dirs : sent[d] <= setup.max[d]

\* Bytes of t move to the end of s.
LEMMA Lengths ==
  ASSUME NEW s \in Seq(Nat), NEW t \in Seq(Nat), NEW n \in 1..Len(t)
  PROVE  /\ n \in Nat /\ Len(t) \in Nat /\ Len(s) \in Nat
         /\ Len(SubSeq(t, n + 1, Len(t))) \in Nat
         /\ Len(SubSeq(t, n + 1, Len(t))) <= Len(t)
         /\ Len(s \o SubSeq(t, 1, n)) = Len(s) + n
  <1>1. n \in Nat /\ n >= 1 /\ Len(t) \in Nat /\ n <= Len(t) /\ Len(s) \in Nat
    OBVIOUS
  <1>2. Len(SubSeq(t, n + 1, Len(t))) = Len(t) - n
    BY <1>1
  <1>3. SubSeq(t, 1, n) \in Seq(Nat) /\ Len(SubSeq(t, 1, n)) = n
    BY <1>1
  <1>4. Len(s \o SubSeq(t, 1, n)) = Len(s) + n
    BY <1>3, ConcatProperties
  <1>5. QED
    BY <1>1, <1>2, <1>4

\* Bytes that were written are among those an end has to write.
LEMMA AmongBytes ==
  ASSUME NEW s \in Seq(Nat), NEW h \in Nat, Counts(s, h), NEW n \in Nat, NEW m \in Nat,
         h + Len(s) <= n, n <= m
  PROVE  s \in Seq(1..m)
  <1>1. Len(s) \in Nat /\ s \in [1..Len(s) -> Nat]
    OBVIOUS
  <1>2. ASSUME NEW k \in 1..Len(s)
        PROVE  s[k] \in 1..m
    <2>1. k \in Nat /\ k >= 1 /\ k <= Len(s)
      BY <1>1
    <2>2. s[k] = h + k
      BY DEF Counts
    <2>3. h + k \in 1..m
      BY <1>1, <2>1
    <2>4. QED
      BY <2>2, <2>3
  <1>3. s \in [1..Len(s) -> 1..m]
    BY <1>1, <1>2
  <1>4. QED
    BY <1>1, <1>3

\* Closing fills nothing.
LEMMA CloseBounded ==
  ASSUME Shape, Bounded, NEW S, Close(S), UNCHANGED <<setup, sent>>,
         \A d \in Dirs, i \in Stages : hand'[d][i] \in {hand[d][i], <<>>}
  PROVE  Bounded'
  <1>1. Len(<<>>) = 0 /\ 0 <= LinkCap /\ 0 <= HandCap
    BY TunnelAssumption
  <1>2. \A d \in Dirs, l \in Links : buf'[d][l] \in {buf[d][l], <<>>}
    BY DEF Close
  <1>3. \A d \in Dirs, l \in Links : Len(buf'[d][l]) <= LinkCap
    BY <1>1, <1>2 DEF Bounded
  <1>4. \A d \in Dirs, i \in Stages : Len(hand'[d][i]) <= HandCap
    BY <1>1 DEF Bounded
  <1>5. QED
    BY <1>3, <1>4, Frame DEF Bounded

\* A read of a stage takes no more than it has room for.
LEMMA TakeBounded ==
  ASSUME Shape, Bounded, NEW d \in Dirs, NEW i \in Stages, Take(d, i)
  PROVE  Bounded'
  <1> PICK l \in Links : l = From(d, i)
    BY Chain DEF Shape
  <1>1. buf[d][l] \in Seq(Nat) /\ hand[d][i] \in Seq(Nat)
    BY DEF Shape
  <1>2. UNCHANGED <<setup, sent>>
    BY DEF Take, ends
  <1>3. PICK n \in 1..Len(buf[d][l]) :
          /\ Len(hand[d][i]) + n <= HandCap
          /\ hand' = [hand EXCEPT ![d][i] = @ \o SubSeq(buf[d][l], 1, n)]
          /\ buf' = [buf EXCEPT ![d][l] = SubSeq(@, n + 1, Len(@))]
    BY DEF Take
  <1>4. PICK s : s = SubSeq(buf[d][l], n + 1, Len(buf[d][l]))
    OBVIOUS
  <1>5. PICK t : t = hand[d][i] \o SubSeq(buf[d][l], 1, n)
    OBVIOUS
  <1>6. /\ Len(s) \in Nat /\ Len(buf[d][l]) \in Nat /\ Len(s) <= Len(buf[d][l])
        /\ Len(t) = Len(hand[d][i]) + n
    BY <1>1, <1>4, <1>5, Lengths
  <1>7. \A x \in Dirs, k \in Links : buf'[x][k] = IF x = d /\ k = l THEN s ELSE buf[x][k]
    BY <1>3, <1>4 DEF Shape
  <1>8. \A x \in Dirs, j \in Stages : hand'[x][j] = IF x = d /\ j = i THEN t ELSE hand[x][j]
    BY <1>3, <1>5 DEF Shape
  <1>9. Len(s) <= LinkCap
    <2>1. Len(buf[d][l]) <= LinkCap
      BY DEF Bounded
    <2>2. QED
      BY <1>6, <2>1, TunnelAssumption
  <1>10. Len(t) <= HandCap
    BY <1>3, <1>6
  <1>11. QED
    BY <1>2, <1>7, <1>8, <1>9, <1>10, Frame DEF Bounded

\* A write fills a link at most to its capacity.
LEMMA PutBounded ==
  ASSUME Shape, Bounded, NEW d \in Dirs, NEW i \in Stages, Put(d, i)
  PROVE  Bounded'
  <1> PICK l \in Links : l = To(d, i)
    BY Chain DEF Shape
  <1>1. buf[d][l] \in Seq(Nat) /\ hand[d][i] \in Seq(Nat)
    BY DEF Shape
  <1>2. UNCHANGED <<setup, sent>>
    BY DEF Put, ends
  <1>3. CASE d \notin gone[l]
    <2>1. PICK n \in 1..Len(hand[d][i]) :
            /\ n <= LinkCap - Len(buf[d][l])
            /\ hand' = [hand EXCEPT ![d][i] = SubSeq(@, n + 1, Len(@))]
            /\ buf' = [buf EXCEPT ![d][l] = @ \o SubSeq(hand[d][i], 1, n)]
      BY <1>3 DEF Put, Room
    <2>2. PICK s : s = SubSeq(hand[d][i], n + 1, Len(hand[d][i]))
      OBVIOUS
    <2>3. PICK t : t = buf[d][l] \o SubSeq(hand[d][i], 1, n)
      OBVIOUS
    <2>4. /\ Len(s) \in Nat /\ Len(hand[d][i]) \in Nat /\ Len(s) <= Len(hand[d][i])
          /\ Len(t) = Len(buf[d][l]) + n /\ Len(buf[d][l]) \in Nat /\ n \in Nat
      BY <1>1, <2>2, <2>3, Lengths
    <2>5. \A x \in Dirs, k \in Links : buf'[x][k] = IF x = d /\ k = l THEN t ELSE buf[x][k]
      BY <2>1, <2>3 DEF Shape
    <2>6. \A x \in Dirs, j \in Stages : hand'[x][j] = IF x = d /\ j = i THEN s ELSE hand[x][j]
      BY <2>1, <2>2 DEF Shape
    <2>7. Len(s) <= HandCap
      <3>1. Len(hand[d][i]) <= HandCap
        BY DEF Bounded
      <3>2. QED
        BY <2>4, <3>1, TunnelAssumption
    <2>8. Len(t) <= LinkCap
      BY <2>1, <2>4, TunnelAssumption
    <2>9. QED
      BY <1>2, <2>5, <2>6, <2>7, <2>8, Frame DEF Bounded
  <1>4. CASE d \in gone[l]
    <2>1. UNCHANGED buf /\ hand' = [hand EXCEPT ![d][i] = <<>>]
      BY <1>4 DEF Put
    <2>2. Len(<<>>) = 0 /\ 0 <= HandCap
      BY TunnelAssumption
    <2>3. \A x \in Dirs, j \in Stages : hand'[x][j] \in {hand[x][j], <<>>}
      BY <2>1 DEF Shape
    <2>4. \A x \in Dirs, j \in Stages : Len(hand'[x][j]) <= HandCap
      BY <2>2, <2>3 DEF Bounded
    <2>5. QED
      BY <1>2, <2>1, <2>4, Frame DEF Bounded
  <1>5. QED
    BY <1>3, <1>4

\* What an end writes and reads.
LEMMA EndBounded ==
  ASSUME Shape, Bounded, NEW e \in Ends, EndWrite(e) \/ EndRead(e)
  PROVE  Bounded'
  <1>1. CASE EndWrite(e)
    <2> PICK d \in Dirs : d = Out(e)
      BY TwoEnds
    <2> PICK l \in Links : l = First(d)
      BY Chain DEF Shape
    <2>1. /\ UNCHANGED <<setup, hand>>
          /\ sent[d] < setup.max[d] /\ LinkCap - Len(buf[d][l]) > 0
          /\ buf' = [buf EXCEPT ![d][l] = Append(@, sent[d] + 1)]
          /\ sent' = [sent EXCEPT ![d] = @ + 1]
      BY <1>1 DEF EndWrite, Room, stages
    <2>2. buf[d][l] \in Seq(Nat) /\ sent[d] \in Nat /\ setup.max[d] \in Nat
      BY TunnelAssumption DEF Shape
    <2>3. PICK t : t = Append(buf[d][l], sent[d] + 1)
      OBVIOUS
    <2>4. Len(t) = Len(buf[d][l]) + 1 /\ Len(buf[d][l]) \in Nat
      BY <2>2, <2>3
    <2>5. \A x \in Dirs, k \in Links : buf'[x][k] = IF x = d /\ k = l THEN t ELSE buf[x][k]
      BY <2>1, <2>3 DEF Shape
    <2>6. \A x \in Dirs : sent'[x] = IF x = d THEN sent[d] + 1 ELSE sent[x]
      BY <2>1 DEF Shape
    <2>7. Len(t) <= LinkCap
      BY <2>1, <2>4, TunnelAssumption
    <2>8. sent[d] + 1 <= setup.max[d]
      BY <2>1, <2>2
    <2>9. \A x \in Dirs, k \in Links : Len(buf'[x][k]) <= LinkCap
      BY <2>5, <2>7 DEF Bounded
    <2>10. \A x \in Dirs : sent'[x] <= setup.max[x]
      BY <2>6, <2>8 DEF Bounded
    <2>11. QED
      BY <2>1, <2>9, <2>10, Frame DEF Bounded
  <1>2. CASE EndRead(e)
    <2> PICK d \in Dirs : d = Other(Out(e))
      BY TwoEnds
    <2> PICK l \in Links : l = Last(d)
      BY Chain DEF Shape
    <2>1. UNCHANGED <<setup, hand, sent>>
      BY <1>2 DEF EndRead, stages
    <2>2. CASE UNCHANGED buf
      BY <2>1, <2>2, Frame DEF Bounded
    <2>3. CASE buf[d][l] # <<>> /\ buf' = [buf EXCEPT ![d][l] = Tail(@)]
      <3>1. buf[d][l] \in Seq(Nat)
        BY DEF Shape
      <3>2. PICK t : t = Tail(buf[d][l])
        OBVIOUS
      <3>3. Len(t) = Len(buf[d][l]) - 1 /\ Len(buf[d][l]) \in Nat
        BY <2>3, <3>1, <3>2
      <3>4. \A x \in Dirs, k \in Links : buf'[x][k] = IF x = d /\ k = l THEN t ELSE buf[x][k]
        BY <2>3, <3>2 DEF Shape
      <3>5. Len(t) <= LinkCap
        <4>1. Len(buf[d][l]) <= LinkCap
          BY DEF Bounded
        <4>2. QED
          BY <3>3, <4>1, TunnelAssumption
      <3>6. QED
        BY <2>1, <3>4, <3>5, Frame DEF Bounded
    <2>4. QED
      BY <1>2, <2>2, <2>3 DEF EndRead
  <1>3. QED
    BY <1>1, <1>2
\* No step overfills anything.
LEMMA BoundedKeeps == IInv /\ Bounded /\ [Next]_vars => Bounded'
  <1> SUFFICES ASSUME IInv, Bounded, [Next]_vars
               PROVE  Bounded'
    OBVIOUS
  <1>1. Shape
    BY DEF IInv, Held
  <1>2. ASSUME NEW d \in Dirs, NEW i \in Stages, Step(d, i)
        PROVE  Bounded'
    <2>1. CASE Take(d, i)
      BY <1>1, <2>1, TakeBounded
    <2>2. CASE Put(d, i)
      BY <1>1, <2>2, PutBounded
    <2>3. CASE Eof(d, i) \/ Fail(d, i)
      <3>1. UNCHANGED <<setup, buf, hand, sent>>
        BY <2>3 DEF Eof, Fail, links, ends
      <3>2. QED
        BY <3>1, Frame DEF Bounded
    <2>4. QED
      BY <1>2, <2>1, <2>2, <2>3 DEF Step
  <1>3. ASSUME NEW i \in Stages, Main(i) \/ Helping(i)
        PROVE  Bounded'
    <2>1. "up" \in Dirs /\ "down" \in Dirs
      BY DEF Dirs
    <2>2. CASE Step("up", i) \/ Step("down", i)
      BY <1>2, <2>1, <2>2
    <2>3. CASE Clone(i)
      <3>1. UNCHANGED <<setup, hand, sent>>
        BY <2>3 DEF Clone, ends
      <3>2. CASE UNCHANGED links
        BY <3>1, <3>2, Frame DEF links, Bounded
      <3>3. CASE Close(StageSockets(i))
        BY <1>1, <3>1, <3>3, CloseBounded
      <3>4. QED
        BY <2>3, <3>2, <3>3 DEF Clone
    <2>4. CASE Return(i)
      <3>1. /\ UNCHANGED <<setup, sent>> /\ Close(StageSockets(i))
            /\ \A d \in Dirs, j \in Stages : hand'[d][j] \in {hand[d][j], <<>>}
        BY <1>1, <2>4 DEF Return, ends, Shape
      <3>2. QED
        BY <1>1, <3>1, CloseBounded
    <2>5. QED
      BY <1>3, <2>2, <2>3, <2>4 DEF Main, Helping
  <1>4. ASSUME NEW e \in Ends, EndWrite(e) \/ EndRead(e) \/ EndShutdown(e) \/ EndClose(e)
        PROVE  Bounded'
    <2>1. CASE EndWrite(e) \/ EndRead(e)
      BY <1>1, <2>1, EndBounded
    <2>2. CASE EndShutdown(e)
      BY <2>2, Frame DEF EndShutdown, stages, ends, Bounded
    <2>3. CASE EndClose(e)
      <3>1. UNCHANGED <<setup, hand, sent>> /\ Close(EndSockets(e))
        BY <2>3 DEF EndClose, stages
      <3>2. QED
        BY <1>1, <3>1, CloseBounded
    <2>4. QED
      BY <1>4, <2>1, <2>2, <2>3
  <1>5. CASE TargetExits
    <2>1. /\ UNCHANGED <<setup, sent>> /\ Close(EndSockets("client") \cup StageSockets(1))
          /\ \A d \in Dirs, j \in Stages : hand'[d][j] \in {hand[d][j], <<>>}
      BY <1>1, <1>5 DEF TargetExits, Shape
    <2>2. QED
      BY <1>1, <2>1, CloseBounded
  <1>6. CASE UNCHANGED vars
    BY <1>6, Frame DEF vars, links, stages, ends, Bounded
  <1>7. QED
    BY <1>3, <1>4, <1>5, <1>6 DEF Next

\* What is in flight and what was read are bytes that were written, and no
\* link and no stage ever holds more than its capacity.
THEOREM TypeCorrect == Spec => []TypeOK
  <1>1. Init => Bounded
    <2> SUFFICES ASSUME Init
                 PROVE  Bounded
      OBVIOUS
    <2>1. Len(<<>>) = 0 /\ 0 <= LinkCap /\ 0 <= HandCap
      BY TunnelAssumption
    <2>2. \A d \in Dirs : 0 <= setup.max[d]
      BY TunnelAssumption DEF Init
    <2>3. QED
      BY <2>1, <2>2 DEF Init, Bounded
  <1>2. IInv /\ Bounded => TypeOK
    <2> SUFFICES ASSUME IInv, Bounded
                 PROVE  TypeOK
      OBVIOUS
    <2>1. PICK b \in Counters, h \in Written : Held(b, h)
      BY DEF IInv
    <2>2. Shape
      BY <2>1 DEF Held
    <2>3. ASSUME NEW d \in Dirs
          PROVE  /\ \A l \in Links : buf[d][l] \in Seq(Bytes(d))
                 /\ \A i \in Stages : hand[d][i] \in Seq(Bytes(d))
                 /\ rcvd[d] \in Seq(Bytes(d))
      <3>1. setup.max[d] \in Nat /\ sent[d] \in Nat /\ sent[d] <= setup.max[d]
        BY <2>2, TunnelAssumption DEF Shape, Bounded
      <3> PICK m \in Nat, n \in Nat : m = setup.max[d] /\ n = sent[d] /\ n <= m
        BY <3>1
      <3>2. ASSUME NEW l \in Links
            PROVE  buf[d][l] \in Seq(1..m)
        <4>1. buf[d][l] \in Seq(Nat) /\ b[d][l] \in Nat
          BY <2>2, Types
        <4>2. Counts(buf[d][l], b[d][l]) /\ b[d][l] + Len(buf[d][l]) <= n
          BY <2>1 DEF Held, LinkFlow
        <4>3. QED
          BY <4>1, <4>2, AmongBytes
      <3>3. ASSUME NEW i \in Stages
            PROVE  hand[d][i] \in Seq(1..m)
        <4>1. hand[d][i] \in Seq(Nat) /\ h[d][i] \in Nat
          BY <2>2, Types
        <4>2. Counts(hand[d][i], h[d][i]) /\ h[d][i] + Len(hand[d][i]) <= n
          BY <2>1 DEF Held, StageFlow
        <4>3. QED
          BY <4>1, <4>2, AmongBytes
      <3>4. rcvd[d] \in Seq(1..m)
        <4>1. rcvd[d] \in Seq(Nat) /\ Len(rcvd[d]) \in Nat
          BY <2>2, Types
        <4>2. Counts(rcvd[d], 0) /\ 0 + Len(rcvd[d]) <= n
          BY <2>1, <4>1 DEF Held, EndFlow
        <4>3. QED
          BY <4>1, <4>2, AmongBytes
      <3>5. QED
        BY <3>2, <3>3, <3>4 DEF Bytes
    <2>4. QED
      BY <2>2, <2>3 DEF Shape, Bounded, TypeOK
  <1>3. QED
    BY <1>1, <1>2, Invariance, InitHeld, NextKeeps, BoundedKeeps, PTL DEF Spec
-----------------------------------------------------------------------------
(* The chain implements DuplexChannel.                                     *)

\* The writers that have ended their streams.
Fin == [d \in Dirs |-> d \in shut[First(d)]]

\* The state the ends see.
LEMMA Seen ==
  ASSUME UNCHANGED <<setup, sent, rcvd, ended>>, Fin' = Fin, Broken' <=> Broken
  PROVE  UNCHANGED Channel!vars
  <1>1. Broken' = Broken
    BY DEF Broken
  <1>2. QED
    BY <1>1 DEF Channel!vars, Fin

\* Streams are ended in a step where their links are shut.
LEMMA FinStep ==
  ASSUME UNCHANGED setup
  PROVE  /\ \A d \in Dirs : Fin[d] = (d \in shut[First(d)])
         /\ (\A d \in Dirs : d \in shut'[First(d)] <=> d \in shut[First(d)]) => Fin' = Fin
         /\ \A x \in Dirs :
              (\A d \in Dirs : d \in shut'[First(d)] <=> d \in shut[First(d)] \/ d = x) =>
                /\ Fin' = [Fin EXCEPT ![x] = TRUE]
                /\ Fin' = [d \in Dirs |-> Fin[d] \/ d \in {x}]
  <1>1. Fin' = [d \in Dirs |-> d \in shut'[First(d)]]
    BY Frame DEF Fin
  <1>2. \A d \in Dirs : Fin[d] = (d \in shut[First(d)])
    BY DEF Fin
  <1>3. ASSUME \A d \in Dirs : d \in shut'[First(d)] <=> d \in shut[First(d)]
        PROVE  Fin' = Fin
    <2>1. \A d \in Dirs : (d \in shut'[First(d)]) = (d \in shut[First(d)])
      BY <1>3
    <2>2. QED
      BY <1>1, <2>1 DEF Fin
  <1>4. ASSUME NEW x \in Dirs,
               \A d \in Dirs : d \in shut'[First(d)] <=> d \in shut[First(d)] \/ d = x
        PROVE  /\ Fin' = [Fin EXCEPT ![x] = TRUE]
               /\ Fin' = [d \in Dirs |-> Fin[d] \/ d \in {x}]
    <2>1. ASSUME NEW d \in Dirs
          PROVE  (d \in shut'[First(d)]) = (IF d = x THEN TRUE ELSE Fin[d])
      <3>1. CASE d = x
        <4>1. d \in shut'[First(d)]
          BY <1>4, <3>1
        <4>2. (d \in shut'[First(d)]) = TRUE
          BY <4>1
        <4>3. QED
          BY <3>1, <4>2
      <3>2. CASE d # x
        <4>1. d \in shut'[First(d)] <=> d \in shut[First(d)]
          BY <1>4, <3>2
        <4>2. (d \in shut'[First(d)]) = (d \in shut[First(d)])
          BY <4>1
        <4>3. QED
          BY <1>2, <3>2, <4>2
      <3>3. QED
        BY <3>1, <3>2
    <2>2. ASSUME NEW d \in Dirs
          PROVE  (d \in shut'[First(d)]) = (Fin[d] \/ d \in {x})
      <3>1. Fin[d] <=> d \in shut[First(d)]
        BY <1>2, Zenon
      <3>2. d \in shut'[First(d)] <=> Fin[d] \/ d \in {x}
        BY <1>4, <3>1
      <3>3. QED
        BY <3>2
    <2>3. [Fin EXCEPT ![x] = TRUE] = [d \in Dirs |-> IF d = x THEN TRUE ELSE Fin[d]]
      BY DEF Fin
    <2>4. QED
      BY <1>1, <2>1, <2>2, <2>3
  <1>5. QED
    BY <1>2, <1>3, <1>4

\* A step in which no stream ends, and perhaps something gives up.
LEMMA Silent ==
  ASSUME UNCHANGED <<setup, sent, rcvd, ended>>, Fin' = Fin, Broken => Broken'
  PROVE  [Channel!Next]_(Channel!vars)
  <1>1. CASE Broken'
    <2>1. Broken' = TRUE
      BY <1>1 DEF Broken
    <2>2. Fin' = [d \in Dirs |-> Fin[d] \/ d \in {}]
      <3>1. \A d \in Dirs : Fin[d] <=> d \in shut[First(d)]
        BY Zenon DEF Fin
      <3>2. \A d \in Dirs : (d \in shut[First(d)]) = (Fin[d] \/ d \in {})
        BY <3>1
      <3>3. Fin = [d \in Dirs |-> Fin[d] \/ d \in {}]
        BY <3>2, Zenon DEF Fin
      <3>4. QED
        BY <3>3
    <2>3. \E quit \in SUBSET Dirs : Fin' = [d \in Dirs |-> Fin[d] \/ d \in quit]
      <3>1. {} \in SUBSET Dirs
        OBVIOUS
      <3>2. QED
        BY <2>2, <3>1
    <2>4. Channel!Break
      BY <2>1, <2>3, Zenon DEF Channel!Break, Fin
    <2>5. QED
      BY <2>4 DEF Channel!Next
  <1>2. CASE ~Broken'
    BY <1>2, Seen
  <1>3. QED
    BY <1>1, <1>2

\* A step in which one stream ends, and perhaps something gives up.
LEMMA StreamEnds ==
  ASSUME UNCHANGED <<setup, sent, rcvd, ended>>, Broken => Broken', NEW x \in Dirs,
         Fin' = [Fin EXCEPT ![x] = TRUE], Fin' = [d \in Dirs |-> Fin[d] \/ d \in {x}]
  PROVE  Channel!Next
  <1>1. CASE Broken'
    <2>1. Broken' = TRUE
      BY <1>1 DEF Broken
    <2>2. Channel!Break
      BY <2>1 DEF Channel!Break, Fin
    <2>3. QED
      BY <2>2 DEF Channel!Next
  <1>2. CASE ~Broken'
    <2>1. Broken' = Broken
      BY <1>2 DEF Broken
    <2>2. Channel!Finish(x)
      BY <2>1 DEF Channel!Finish, Fin
    <2>3. QED
      BY <2>2 DEF Channel!Next
  <1>3. QED
    BY <1>1, <1>2
\* A stage only moves bytes and ends copies: its ends see nothing of it.
LEMMA StepSeen ==
  ASSUME IInv, NEW d \in Dirs, NEW i \in Stages, Step(d, i)
  PROVE  [Channel!Next]_(Channel!vars)
  <1>1. Shape
    BY DEF IInv, Held
  <1>2. UNCHANGED <<setup, sent, rcvd, ended, closed, stage>>
    BY DEF Step, Take, Put, Eof, Fail, ends
  <1>3. stage[i] = "open"
    BY DEF Step, Take, Put, Eof, Fail, Copying
  <1>4. \A x \in Dirs, j \in Stages : j # i => copy'[x][j] = copy[x][j]
    <2>1. CASE UNCHANGED copy
      BY <2>1
    <2>2. CASE Eof(d, i)
      <3>1. copy' = [copy EXCEPT ![d][i] = "done"]
        BY <2>2 DEF Eof
      <3>2. QED
        BY <1>1, <3>1 DEF Shape
    <2>3. CASE Fail(d, i)
      <3>1. copy' = [x \in Dirs |-> IF x = d \/ kinds[i] = "tokio"
                                    THEN [copy[x] EXCEPT ![i] = "done"] ELSE copy[x]]
        BY <2>3 DEF Fail
      <3>2. \A x \in Dirs : copy'[x] = copy[x] \/ copy'[x] = [copy[x] EXCEPT ![i] = "done"]
        BY <3>1
      <3>3. ASSUME NEW x \in Dirs, NEW j \in Stages, j # i
            PROVE  copy'[x][j] = copy[x][j]
        <4>1. copy[x] \in [Stages -> {"copying", "done"}]
          BY <1>1 DEF Shape
        <4>2. [copy[x] EXCEPT ![i] = "done"][j] = copy[x][j]
          BY <3>3, <4>1
        <4>3. QED
          BY <3>2, <4>2
      <3>4. QED
        BY <3>3
    <2>4. QED
      BY <2>1, <2>2, <2>3 DEF Step, Take, Put
  <1>5. Broken => Broken'
    <2>1. \A x \in Dirs, j \in Stages : stage[j] = "closed" => copy'[x][j] = copy[x][j]
      BY <1>3, <1>4
    <2>2. QED
      BY <1>2, <2>1, Frame DEF Broken
  <1>6. \A x \in Dirs : x \in shut'[First(x)] <=> x \in shut[First(x)]
    <2>1. CASE UNCHANGED shut
      BY <2>1
    <2>2. CASE shut' = [shut EXCEPT ![To(d, i)] = IF PassOn(i) THEN @ \cup {d} ELSE @]
      <3>1. /\ To(d, i) # First(d)
            /\ \A x \in Dirs : First(x) \in Links
        BY <1>1, Chain DEF Shape
      <3>2. \A x \in Dirs, l \in Links :
              (x \in shut'[l] <=> x \in shut[l]) \/ (x = d /\ l = To(d, i))
        BY <1>1, <2>2 DEF Shape
      <3>3. QED
        BY <3>1, <3>2
    <2>3. QED
      BY <2>1, <2>2 DEF Step, Take, Put, Eof, Fail, links
  <1>7. QED
    BY <1>2, <1>5, <1>6, FinStep, Silent

\* Stages that close end no stream but those they write themselves.
LEMMA StagesClose ==
  ASSUME Shape, NEW I \in SUBSET Stages, NEW S, Close(S), NEW x \in Dirs,
         \A d \in Dirs, l \in Links :
           <<l, Other(d)>> \in S => \E i \in I : l = To(d, i)
  PROVE  x \in shut'[First(x)] <=> x \in shut[First(x)]
  <1>1. First(x) \in Links /\ \A i \in Stages : To(x, i) # First(x)
    BY Chain DEF Shape
  <1>2. x \in shut'[First(x)] <=> x \in shut[First(x)] \/ <<First(x), Other(x)>> \in S
    BY <1>1 DEF Close
  <1>3. QED
    BY <1>1, <1>2

\* The sockets a stage closes are those it writes to in the other direction.
LEMMA StageWrites ==
  ASSUME Shape, NEW d \in Dirs, NEW i \in Stages, NEW l,
         <<l, Other(d)>> \in StageSockets(i)
  PROVE  l = To(d, i)
  <1>1. Other(d) \in Dirs /\ From(Other(d), i) = To(d, i)
    BY Chain DEF Shape
  <1>2. QED
    BY <1>1, Sockets

\* A stage that starts, or returns after both copies.
LEMMA StageSeen ==
  ASSUME IInv, NEW i \in Stages, Clone(i) \/ Return(i)
  PROVE  [Channel!Next]_(Channel!vars)
  <1>1. Shape
    BY DEF IInv, Held
  <1>2. UNCHANGED <<setup, sent, rcvd, ended, closed, copy>>
    BY DEF Clone, Return, ends
  <1>3. \A j \in Stages : stage[j] = "closed" => stage'[j] = "closed"
    BY <1>1 DEF Clone, Return, Shape
  <1>4. Broken => Broken'
    BY <1>2, <1>3, Frame DEF Broken
  <1>5. ASSUME NEW x \in Dirs
        PROVE  x \in shut'[First(x)] <=> x \in shut[First(x)]
    <2>1. CASE UNCHANGED links
      BY <2>1 DEF links
    <2>2. CASE Close(StageSockets(i))
      <3>1. \A d \in Dirs, l \in Links :
              <<l, Other(d)>> \in StageSockets(i) => \E j \in {i} : l = To(d, j)
        BY <1>1, StageWrites
      <3>2. {i} \in SUBSET Stages
        OBVIOUS
      <3>3. QED
        BY <1>1, <2>2, <3>1, <3>2, StagesClose
    <2>3. QED
      BY <2>1, <2>2 DEF Clone, Return
  <1>6. QED
    BY <1>2, <1>4, <1>5, FinStep, Silent

\* An end shuts down, closes or exits: its stream ends.
LEMMA EndEndsStream ==
  ASSUME IInv, NEW e \in Ends,
         EndShutdown(e) \/ EndClose(e) \/ (e = "client" /\ TargetExits)
  PROVE  [Channel!Next]_(Channel!vars)
  <1>1. Shape
    BY DEF IInv, Held
  <1> PICK d \in Dirs : d = Out(e) /\ Reader(Other(d)) = e
    BY TwoEnds
  <1>2. UNCHANGED <<setup, sent, rcvd, ended, copy>> /\ closed \subseteq closed'
    BY DEF EndShutdown, EndClose, TargetExits, stages, ends
  <1>3. \A j \in Stages : stage[j] = "closed" => stage'[j] = "closed"
    BY <1>1 DEF EndShutdown, EndClose, TargetExits, stages, Shape
  <1>4. Broken => Broken'
    BY <1>2, <1>3, Frame DEF Broken
  <1>5. ASSUME NEW x \in Dirs
        PROVE  x \in shut'[First(x)] <=> x \in shut[First(x)] \/ x = d
    <2>1. /\ First(x) \in Links /\ Other(x) \in Dirs /\ Last(Other(x)) = First(x)
          /\ Other(Other(x)) = x /\ Other(Other(d)) = d /\ First(d) \in Links
          /\ \A i \in Stages : To(x, i) # First(x)
      BY <1>1, Chain DEF Shape
    <2>2. CASE EndShutdown(e)
      <3>1. shut' = [shut EXCEPT ![First(d)] = @ \cup {d}]
        BY <2>2 DEF EndShutdown
      <3>2. First(x) = First(d) => x = d
        <4>1. x = d \/ x = Other(d)
          BY DEF Dirs, Other
        <4>2. First(d) # Last(d) /\ First(Other(d)) = Last(d)
          BY <1>1, Chain DEF Shape
        <4>3. QED
          BY <4>1, <4>2
      <3>3. QED
        BY <1>1, <2>1, <3>1, <3>2 DEF Shape
    <2>3. ASSUME NEW S, Close(S),
                 <<First(x), Other(x)>> \in S <=> <<First(x), Other(x)>> \in EndSockets(e)
          PROVE  x \in shut'[First(x)] <=> x \in shut[First(x)] \/ x = d
      <3>1. x \in shut'[First(x)] <=> x \in shut[First(x)] \/ <<First(x), Other(x)>> \in S
        BY <2>1, <2>3 DEF Close
      <3>2. <<First(x), Other(x)>> \in EndSockets(e) <=> Reader(Other(x)) = e
        BY <2>1, Sockets
      <3>3. Reader(Other(x)) = e <=> x = d
        BY <2>1, TwoEnds
      <3>4. QED
        BY <2>3, <3>1, <3>2, <3>3
    <2>4. CASE EndClose(e)
      <3>1. Close(EndSockets(e))
        BY <2>4 DEF EndClose
      <3>2. QED
        BY <2>3, <3>1
    <2>5. CASE e = "client" /\ TargetExits
      <3>1. Close(EndSockets(e) \cup StageSockets(1)) /\ kinds[1] = "pump"
        BY <2>5 DEF TargetExits
      <3>2. 1 \in Stages
        BY <1>1, TunnelAssumption DEF Shape, Stages, kinds
      <3>3. <<First(x), Other(x)>> \notin StageSockets(1)
        BY <1>1, <2>1, <3>2, StageWrites
      <3>4. QED
        BY <2>3, <3>1, <3>3
    <2>6. QED
      BY <2>2, <2>4, <2>5
  <1>6. QED
    BY <1>2, <1>4, <1>5, FinStep, StreamEnds
\* What an end writes is sent.
LEMMA WriteSeen ==
  ASSUME IInv, NEW e \in Ends, EndWrite(e)
  PROVE  Channel!Next
  <1> PICK d \in Dirs : d = Out(e)
    BY TwoEnds
  <1>1. /\ UNCHANGED <<setup, shut, copy, stage, rcvd, ended, closed>>
        /\ d \notin shut[First(d)]
        /\ sent' = [sent EXCEPT ![d] = @ + 1]
    BY DEF EndWrite, stages
  <1>2. Broken' = Broken /\ Fin' = Fin
    BY <1>1, Frame DEF Broken, Fin
  <1>3. ~Fin[d]
    BY <1>1, Zenon DEF Fin
  <1>4. Channel!Send(d)
    BY <1>1, <1>2, <1>3, Zenon DEF Channel!Send, Fin
  <1>5. QED
    BY <1>4 DEF Channel!Next

\* What an end reads is the next byte, and no stream goes on after its end.
LEMMA ReadSeen ==
  ASSUME IInv, NEW e \in Ends, EndRead(e), buf[Other(Out(e))][Last(Other(Out(e)))] # <<>>
  PROVE  Channel!Next
  <1>1. PICK b \in Counters, h \in Written : Held(b, h)
    BY DEF IInv
  <1>2. Shape /\ LinkFlow(b) /\ EndFlow(b) /\ EndsInv
    BY <1>1 DEF Held
  <1> PICK d \in Dirs : d = Other(Out(e)) /\ Reader(d) = e
    BY TwoEnds
  <1> PICK f \in Links : f = Last(d)
    BY <1>2, Chain DEF Shape
  <1>3. /\ UNCHANGED <<setup, shut, copy, stage, sent, ended, closed>>
        /\ buf[d][f] # <<>> /\ Reader(d) \notin closed
        /\ rcvd' = [rcvd EXCEPT ![d] = Append(@, Head(buf[d][f]))]
    BY DEF EndRead, stages
  <1>4. Broken' = Broken /\ Fin' = Fin
    BY <1>3, Frame DEF Broken, Fin
  <1>5. ~ended[d]
    BY <1>2, <1>3 DEF EndsInv
  <1>6. /\ buf[d][f] \in Seq(Nat) /\ b[d][f] \in Nat /\ Len(buf[d][f]) \in Nat
        /\ sent[d] \in Nat
    BY <1>2, Types
  <1>7. Head(buf[d][f]) = b[d][f] + 1
    BY <1>2, <1>3, <1>6, CountsTail DEF LinkFlow
  <1>8. Len(rcvd[d]) = b[d][f] /\ b[d][f] + Len(buf[d][f]) <= sent[d]
    BY <1>2, <1>3 DEF EndFlow, LinkFlow
  <1>9. Len(buf[d][f]) > 0
    BY <1>3, <1>6
  <1>10. Len(rcvd[d]) < sent[d]
    <2>1. PICK x \in Nat, y \in Nat, n \in Nat :
            x = b[d][f] /\ y = Len(buf[d][f]) /\ n = sent[d]
      BY <1>6
    <2>2. y > 0 /\ x + y <= n
      BY <1>8, <1>9, <2>1
    <2>3. x < n
      BY <2>2
    <2>4. QED
      BY <1>8, <2>1, <2>3
  <1>11. rcvd' = [rcvd EXCEPT ![d] = Append(@, Len(@) + 1)]
    BY <1>3, <1>7, <1>8
  <1>12. Channel!Deliver(d)
    BY <1>3, <1>4, <1>5, <1>10, <1>11 DEF Channel!Deliver, Fin
  <1>13. QED
    BY <1>12 DEF Channel!Next

\* The end that is seen, unless the connection was broken, comes after all that
\* was written and where the writer ended it.
LEMMA SeesSeen ==
  ASSUME IInv, NEW e \in Ends, EndRead(e), buf[Other(Out(e))][Last(Other(Out(e)))] = <<>>
  PROVE  Channel!Next
  <1>1. PICK b \in Counters, h \in Written : Held(b, h)
    BY DEF IInv
  <1>2. Shape /\ EndFlow(b) /\ Quiet(b)
    BY <1>1 DEF Held
  <1> PICK d \in Dirs : d = Other(Out(e)) /\ Reader(d) = e
    BY TwoEnds
  <1> PICK f \in Links : f = Last(d)
    BY <1>2, Chain DEF Shape
  <1>3. /\ UNCHANGED <<setup, shut, copy, stage, sent, rcvd, closed>>
        /\ buf[d][f] = <<>> /\ d \in shut[f] /\ e \notin closed
        /\ ended' = [ended EXCEPT ![d] = TRUE]
    BY DEF EndRead, stages
  <1>4. Fin' = Fin
    BY <1>3, Frame DEF Fin
  <1>5. Broken' = Broken
    <2>1. \A c \in closed : Other(Out(c)) # d
      BY <1>2, <1>3, TwoEnds DEF Shape
    <2>2. \A c \in closed : ended'[Other(Out(c))] = ended[Other(Out(c))]
      BY <1>2, <1>3, <2>1, TwoEnds DEF Shape
    <2>3. Broken' <=> Broken
      BY <1>3, <2>2, Frame DEF Broken
    <2>4. QED
      BY <2>3 DEF Broken
  <1>6. ~Broken => d \in shut[First(d)] /\ Len(rcvd[d]) = sent[d]
    <2> SUFFICES ASSUME ~Broken
                 PROVE  d \in shut[First(d)] /\ Len(rcvd[d]) = sent[d]
      OBVIOUS
    <2>1. Complete(b, d, f)
      BY <1>2, <1>3 DEF Quiet, ShutInv
    <2>2. Len(rcvd[d]) = b[d][f]
      BY <1>2, <1>3 DEF EndFlow
    <2>3. b[d][f] \in Nat /\ Len(<<>>) = 0
      BY <1>2, Types
    <2>4. d \in shut[First(d)] /\ b[d][f] + 0 = sent[d]
      BY <1>3, <2>1, <2>3 DEF Complete
    <2>5. QED
      BY <2>2, <2>3, <2>4
  <1>7. Fin[d] <=> d \in shut[First(d)]
    BY Zenon DEF Fin
  <1>8. Broken \/ (Fin[d] /\ Len(rcvd[d]) = sent[d])
    BY <1>6, <1>7
  <1>9. Channel!End(d)
    BY <1>3, <1>4, <1>5, <1>8, Zenon DEF Channel!End, Fin
  <1>10. QED
    BY <1>9 DEF Channel!Next

\* The ends of a chain of any stages and any buffers see a DuplexChannel: no byte
\* is lost, doubled or moved, and unless something gave up, the end of a stream is
\* the end its writer put to it.
THEOREM Refinement == Spec => ImplementsChannel
  <1>1. Init => Channel!Init
    <2> SUFFICES ASSUME Init
                 PROVE  Channel!Init
      OBVIOUS
    <2>1. Broken = FALSE
      BY DEF Init, Broken
    <2>2. \A d \in Dirs : (d \in shut[First(d)]) = FALSE
      BY Chain DEF Init
    <2>3. Fin = [d \in Dirs |-> FALSE]
      BY <2>2 DEF Fin
    <2>4. QED
      BY <2>1, <2>3 DEF Init, Channel!Init, Fin
  <1>2. IInv /\ [Next]_vars => [Channel!Next]_(Channel!vars)
    <2> SUFFICES ASSUME IInv, [Next]_vars
                 PROVE  [Channel!Next]_(Channel!vars)
      OBVIOUS
    <2>1. ASSUME NEW i \in Stages, Main(i) \/ Helping(i)
          PROVE  [Channel!Next]_(Channel!vars)
      <3>1. "up" \in Dirs /\ "down" \in Dirs
        BY DEF Dirs
      <3>2. QED
        BY <2>1, <3>1, StepSeen, StageSeen DEF Main, Helping
    <2>2. ASSUME NEW e \in Ends, EndWrite(e) \/ EndRead(e) \/ EndShutdown(e) \/ EndClose(e)
          PROVE  [Channel!Next]_(Channel!vars)
      BY <2>2, WriteSeen, ReadSeen, SeesSeen, EndEndsStream
    <2>3. CASE TargetExits
      <3>1. "client" \in Ends
        BY DEF Ends
      <3>2. QED
        BY <2>3, <3>1, EndEndsStream
    <2>4. CASE UNCHANGED vars
      <3>1. /\ UNCHANGED <<setup, shut, copy, stage, sent, rcvd, ended, closed>>
        BY <2>4 DEF vars, links, stages, ends
      <3>2. Fin' = Fin /\ (Broken' <=> Broken)
        BY <3>1, Frame DEF Fin, Broken
      <3>3. QED
        BY <3>1, <3>2, Seen
    <2>5. QED
      BY <2>1, <2>2, <2>3, <2>4 DEF Next
  <1>3. QED
    BY <1>1, <1>2, Invariance, PTL DEF Spec, ImplementsChannel, Channel!Spec
=============================================================================
