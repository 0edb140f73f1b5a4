----------------------------- MODULE AllowlistProofs -----------------------------
(***************************************************************************)
(* Lemmas about texts, and that core and proxy read the same pattern in    *)
(* every text, for every alphabet of labels.                               *)
(***************************************************************************)
EXTENDS Allowlist, Extrema, SequenceTheorems

Tok == DOMAIN Lower
Text == Seq(Tok)

\* What every text has.
LEMMA TextLen ==
  ASSUME NEW s \in Text
  PROVE  /\ Len(s) \in Nat /\ DOMAIN s = 1..Len(s)
         /\ \A i \in 1..Len(s) : s[i] \in Tok
         /\ s = <<>> <=> Len(s) = 0
  BY DEF Text

\* The tokens of two texts put together.
LEMMA Joined ==
  ASSUME NEW S, NEW s \in Seq(S), NEW t \in Seq(S)
  PROVE  /\ s \o t \in Seq(S) /\ Len(s \o t) = Len(s) + Len(t)
         /\ \A i \in 1..Len(s) : (s \o t)[i] = s[i]
         /\ \A i \in 1..Len(t) : (s \o t)[Len(s) + i] = t[i]
  <1>1. /\ s \o t \in Seq(S) /\ Len(s \o t) = Len(s) + Len(t)
        /\ \A i \in 1..(Len(s) + Len(t)) :
             (s \o t)[i] = IF i <= Len(s) THEN s[i] ELSE t[i - Len(s)]
    BY ConcatProperties
  <1>2. PICK k \in Nat, m \in Nat : k = Len(s) /\ m = Len(t)
    OBVIOUS
  <1>3. \A i \in 1..k : i \in 1..(k + m) /\ i <= k
    OBVIOUS
  <1>4. \A i \in 1..m : k + i \in 1..(k + m) /\ ~(k + i <= k) /\ k + i - k = i
    OBVIOUS
  <1> QED BY <1>1, <1>2, <1>3, <1>4

-----------------------------------------------------------------------------
(* Lower case.                                                             *)

\* A special token stands for itself and nothing becomes one.
LEMMA LowerToken ==
  /\ \A t \in Tok : Lower[t] \in Tok /\ Lower[Lower[t]] = Lower[t]
  /\ \A t \in Tok, c \in Special : Lower[t] = c <=> t = c
  <1>1. \A t \in Tok : t \in Special \/ t \in Labels
    BY DEF Tok, Labels
  <1>2. \A t \in Labels : t \notin Special /\ t \in Tok
    BY DEF Tok, Labels
  <1> QED BY <1>1, <1>2, LowerAssumption DEF Tok

LEMMA LowerText ==
  ASSUME NEW s \in Text
  PROVE  /\ to_ascii_lowercase(s) \in Text
         /\ Len(to_ascii_lowercase(s)) = Len(s)
         /\ \A i \in 1..Len(s) : to_ascii_lowercase(s)[i] = Lower[s[i]]
  <1>1. PICK k \in Nat : k = Len(s)
    BY DEF Text
  <1>2. DOMAIN s = 1..k /\ \A i \in 1..k : s[i] \in Tok
    BY <1>1 DEF Text
  <1>3. to_ascii_lowercase(s) = [i \in 1..k |-> Lower[s[i]]]
    BY <1>2 DEF to_ascii_lowercase
  <1>4. \A i \in 1..k : Lower[s[i]] \in Tok
    BY <1>2, LowerToken
  <1> QED BY <1>1, <1>3, <1>4 DEF Text

LEMMA LowerTwice ==
  ASSUME NEW s \in Text
  PROVE  to_ascii_lowercase(to_ascii_lowercase(s)) = to_ascii_lowercase(s)
  <1> DEFINE l == to_ascii_lowercase(s)
             m == to_ascii_lowercase(l)
  <1>1. /\ l \in Text /\ Len(l) = Len(s)
        /\ \A i \in 1..Len(s) : l[i] = Lower[s[i]] /\ s[i] \in Tok
    BY LowerText DEF Text
  <1> HIDE DEF l
  <1>2. m \in Text /\ Len(m) = Len(l) /\ \A i \in 1..Len(l) : m[i] = Lower[l[i]]
    BY <1>1, LowerText
  <1> HIDE DEF m
  <1>3. \A i \in 1..Len(l) : m[i] = l[i]
    BY <1>1, <1>2, LowerToken
  <1>4. m = l
    BY <1>1, <1>2, <1>3, SeqEqual DEF Text
  <1> QED BY <1>4 DEF l, m

-----------------------------------------------------------------------------
(* Pieces of a text.                                                       *)

\* A piece, position by position.
LEMMA Piece ==
  ASSUME NEW S, NEW s \in Seq(S), NEW a \in Nat, NEW b \in Nat,
         a >= 1, b <= Len(s), a <= b + 1
  PROVE  /\ SubSeq(s, a, b) \in Seq(S)
         /\ Len(SubSeq(s, a, b)) = b + 1 - a
         /\ \A i \in 1..(b + 1 - a) : SubSeq(s, a, b)[i] = s[a + i - 1]
  <1>1. PICK k \in Nat : k = Len(s)
    OBVIOUS
  <1>2. \A i \in a..b : s[i] \in S
    <2>1. \A i \in a..b : i \in 1..k
      BY <1>1
    <2> QED BY <1>1, <2>1
  <1>3. /\ SubSeq(s, a, b) \in Seq(S)
        /\ Len(SubSeq(s, a, b)) = IF a <= b THEN b - a + 1 ELSE 0
        /\ \A i \in 1..(b - a + 1) : SubSeq(s, a, b)[i] = s[a + i - 1]
    BY <1>2, SubSeqProperties
  <1>4. b - a + 1 = b + 1 - a /\ (a <= b \/ b + 1 - a = 0)
    OBVIOUS
  <1> QED BY <1>3, <1>4

LEMMA PrefixPointwise ==
  ASSUME NEW S, NEW s \in Seq(S), NEW t \in Seq(S)
  PROVE  IsPrefix(s, t) <=> Len(s) <= Len(t) /\ \A i \in 1..Len(s) : s[i] = t[i]
  <1>1. PICK k \in Nat : k = Len(s)
    OBVIOUS
  <1>2. CASE k <= Len(t)
    <2>1. SubSeq(s, 1, k) = s
      BY <1>1
    <2>2. /\ SubSeq(t, 1, k) \in Seq(S) /\ Len(SubSeq(t, 1, k)) = k
          /\ \A i \in 1..k : SubSeq(t, 1, k)[i] = t[i]
      BY <1>2, Piece
    <2>3. (\A i \in 1..k : s[i] = t[i]) => s = SubSeq(t, 1, k)
      BY <1>1, <2>2, SeqEqual
    <2> QED BY <1>1, <1>2, <2>1, <2>2, <2>3 DEF IsPrefix
  <1>3. CASE ~(k <= Len(t))
    BY <1>1, <1>3 DEF IsPrefix
  <1> QED BY <1>2, <1>3

LEMMA SuffixPointwise ==
  ASSUME NEW S, NEW s \in Seq(S), NEW t \in Seq(S)
  PROVE  IsSuffix(s, t) <=>
           /\ Len(s) <= Len(t)
           /\ \A i \in 1..Len(s) : s[i] = t[Len(t) - Len(s) + i]
  <1>1. PICK k \in Nat : k = Len(s)
    OBVIOUS
  <1>2. PICK n \in Nat : n = Len(t)
    OBVIOUS
  <1> DEFINE rs == Reverse(s)
             rt == Reverse(t)
  <1>3. /\ rs \in Seq(S) /\ Len(rs) = k
        /\ \A i \in 1..k : rs[i] = s[k - i + 1]
    <2>1. \A i \in 1..k : s[k - i + 1] \in S
      BY <1>1
    <2>2. rs = [i \in 1..k |-> s[k - i + 1]]
      BY <1>1 DEF Reverse
    <2> QED BY <2>1, <2>2
  <1>4. /\ rt \in Seq(S) /\ Len(rt) = n
        /\ \A i \in 1..n : rt[i] = t[n - i + 1]
    <2>1. \A i \in 1..n : t[n - i + 1] \in S
      BY <1>2
    <2>2. rt = [i \in 1..n |-> t[n - i + 1]]
      BY <1>2 DEF Reverse
    <2> QED BY <2>1, <2>2
  <1>5. IsSuffix(s, t) <=> IsPrefix(rs, rt)
    BY DEF IsSuffix
  <1> HIDE DEF rs, rt
  <1>6. IsPrefix(rs, rt) <=> k <= n /\ \A i \in 1..k : rs[i] = rt[i]
    <2>1. rs \in Seq(S) /\ rt \in Seq(S)
      BY <1>3, <1>4
    <2>2. IsPrefix(rs, rt) <=> Len(rs) <= Len(rt) /\ \A i \in 1..Len(rs) : rs[i] = rt[i]
      BY <2>1, PrefixPointwise
    <2> QED BY <1>3, <1>4, <2>2
  <1>7. ASSUME k <= n
        PROVE  (\A i \in 1..k : rs[i] = rt[i]) <=> (\A i \in 1..k : s[i] = t[n - k + i])
    <2>1. ASSUME NEW i \in 1..k
          PROVE  /\ k - i + 1 \in 1..k
                 /\ k - (k - i + 1) + 1 = i
                 /\ rs[i] = s[k - i + 1]
                 /\ rt[i] = t[n - k + (k - i + 1)]
      <3>1. i \in 1..n /\ k - i + 1 \in 1..k /\ k - (k - i + 1) + 1 = i
        BY <1>7
      <3>2. n - i + 1 = n - k + (k - i + 1)
        OBVIOUS
      <3>3. rt[i] = t[n - i + 1]
        BY <1>4, <3>1
      <3> QED BY <1>3, <3>1, <3>2, <3>3
    <2>2. ASSUME \A i \in 1..k : s[i] = t[n - k + i], NEW i \in 1..k
          PROVE  rs[i] = rt[i]
      BY <2>1, <2>2
    <2>3. ASSUME \A i \in 1..k : rs[i] = rt[i], NEW i \in 1..k
          PROVE  s[i] = t[n - k + i]
      <3>1. PICK j \in 1..k : j = k - i + 1
        BY <2>1
      <3>2. k - j + 1 = i
        BY <3>1
      <3>3. rs[j] = s[i] /\ rt[j] = t[n - k + i]
        BY <2>1, <3>2
      <3> QED BY <2>3, <3>3
    <2> QED BY <2>2, <2>3
  <1> QED BY <1>1, <1>2, <1>5, <1>6, <1>7
-----------------------------------------------------------------------------
(* trim.                                                                   *)

Space == " "

\* Between the first and the last token that is no space.
LEMMA TrimIs ==
  ASSUME NEW s \in Text, NEW k \in Nat, k = Len(s),
         NEW a \in Nat, NEW b \in Nat, a \in 1..k, b \in 1..k,
         s[a] # Space, s[b] # Space,
         \A i \in 1..k : s[i] # Space => a <= i /\ i <= b
  PROVE  trim(s) = SubSeq(s, a, b)
  <1> DEFINE inked == {i \in DOMAIN s : s[i] # Space}
  <1>1. DOMAIN s = 1..k
    BY TextLen
  <1>2. a \in inked /\ b \in inked /\ inked \subseteq 1..k
    BY <1>1
  <1>3. \A i \in inked : a <= i /\ i <= b
    BY <1>1
  <1>4. trim(s) = IF inked = {} THEN <<>> ELSE SubSeq(s, Min(inked), Max(inked))
    BY DEF trim, Space
  <1> HIDE DEF inked
  <1>5. Min(inked) = a /\ Max(inked) = b
    <2>1. 1..k \subseteq Nat
      BY Positions
    <2> QED BY <1>2, <1>3, <2>1, MinIs, MaxIs
  <1> QED BY <1>2, <1>4, <1>5

\* No space is left at either end.
Tight(s) == s = <<>> \/ (s[1] # Space /\ s[Len(s)] # Space)

LEMMA TrimTight ==
  ASSUME NEW s \in Text, Tight(s)
  PROVE  trim(s) = s
  <1>1. CASE s = <<>>
    BY <1>1 DEF trim
  <1>2. CASE s # <<>>
    <2>1. PICK k \in Nat : k = Len(s)
      BY TextLen
    <2>2. k # 0
      BY <1>2, <2>1, TextLen
    <2>3. trim(s) = SubSeq(s, 1, k)
      <3>1. s[1] # Space /\ s[k] # Space
        BY <1>2, <2>1 DEF Tight
      <3>2. 1 \in 1..k /\ k \in 1..k /\ \A i \in 1..k : 1 <= i /\ i <= k
        BY <2>2
      <3> QED BY <2>1, <3>1, <3>2, TrimIs
    <2>4. SubSeq(s, 1, k) = s
      BY <2>1, SubSeqFull DEF Text
    <2> QED BY <2>3, <2>4
  <1> QED BY <1>1, <1>2

LEMMA TrimText ==
  ASSUME NEW s \in Text
  PROVE  trim(s) \in Text /\ Tight(trim(s))
  <1>1. PICK k \in Nat : k = Len(s) /\ DOMAIN s = 1..k
    BY TextLen
  <1>2. DOMAIN s = 1..k
    BY <1>1
  <1> DEFINE inked == {i \in DOMAIN s : s[i] # Space}
             t == trim(s)
  <1>3. CASE inked = {}
    <2>1. t = <<>>
      BY <1>3 DEF trim, Space
    <2>2. <<>> \in Text
      BY DEF Text
    <2> QED BY <2>1, <2>2 DEF Tight
  <1>4. CASE inked # {}
    <2>1. inked \subseteq 1..k
      BY <1>2
    <2> HIDE DEF inked
    <2>2. /\ Min(inked) \in inked /\ \A x \in inked : Min(inked) <= x
          /\ Max(inked) \in inked /\ \A x \in inked : x <= Max(inked)
      BY <1>4, <2>1, Extremes
    <2>3. Min(inked) \in Nat /\ Max(inked) \in Nat
      BY <2>2, <2>1, Positions
    <2>4. PICK a \in Nat : a \in inked /\ \A x \in inked : a <= x
      BY <2>2, <2>3
    <2>5. PICK b \in Nat : b \in inked /\ \A x \in inked : x <= b
      BY <2>2, <2>3
    <2>6. /\ a \in 1..k /\ b \in 1..k
          /\ s[a] # Space /\ s[b] # Space
          /\ \A i \in 1..k : s[i] # Space => a <= i /\ i <= b
      BY <1>2, <2>4, <2>5 DEF inked
    <2>7. 1 <= a /\ b <= k /\ a <= b
      <3>1. a \in 1..k /\ b \in 1..k
        BY <2>6
      <3>2. a <= b
        BY <2>4, <2>5
      <3> QED BY <3>1, <3>2, Positions
    <2>8. t = SubSeq(s, a, b)
      BY <1>1, <2>6, TrimIs
    <2> HIDE DEF t
    <2>9. /\ t \in Text /\ Len(t) = b + 1 - a
          /\ \A i \in 1..(b + 1 - a) : t[i] = s[a + i - 1]
      <3>1. a \in Nat /\ b \in Nat /\ a >= 1 /\ b <= Len(s) /\ a <= b + 1
        BY <1>1, <2>7
      <3>2. s \in Seq(Tok)
        BY DEF Text
      <3>3. /\ SubSeq(s, a, b) \in Seq(Tok) /\ Len(SubSeq(s, a, b)) = b + 1 - a
            /\ \A i \in 1..(b + 1 - a) : SubSeq(s, a, b)[i] = s[a + i - 1]
        BY <3>1, <3>2, Piece
      <3> QED BY <2>8, <3>3 DEF Text
    <2>10. t[1] = s[a] /\ t[b + 1 - a] = s[b]
      <3>1. 1 \in 1..(b + 1 - a) /\ b + 1 - a \in 1..(b + 1 - a)
        BY <2>7
      <3>2. a + 1 - 1 = a /\ a + (b + 1 - a) - 1 = b
        BY <2>7
      <3>3. t[1] = s[a + 1 - 1] /\ t[b + 1 - a] = s[a + (b + 1 - a) - 1]
        BY <2>9, <3>1
      <3> QED BY <3>2, <3>3
    <2>11. Tight(t)
      BY <2>6, <2>9, <2>10 DEF Tight
    <2> QED BY <2>9, <2>11 DEF t
  <1> QED BY <1>3, <1>4

\* Lowering keeps a text tight.
LEMMA LowerTight ==
  ASSUME NEW s \in Text, Tight(s)
  PROVE  Tight(to_ascii_lowercase(s))
  <1>1. PICK k \in Nat : k = Len(s) /\ DOMAIN s = 1..k
    BY TextLen
  <1> DEFINE l == to_ascii_lowercase(s)
  <1>2. l \in Text /\ Len(l) = k /\ \A i \in 1..k : l[i] = Lower[s[i]]
    BY <1>1, LowerText
  <1> HIDE DEF l
  <1>3. CASE s = <<>>
    <2>1. l = <<>>
      BY <1>1, <1>2, <1>3 DEF Text
    <2> QED BY <2>1 DEF Tight, l
  <1>4. CASE s # <<>>
    <2>1. k # 0
      BY <1>1, <1>4, TextLen
    <2>2. /\ 1 \in 1..k /\ k \in 1..k
          /\ s[1] # Space /\ s[k] # Space /\ s[1] \in Tok /\ s[k] \in Tok
      <3>1. 1 \in 1..k /\ k \in 1..k
        BY <2>1
      <3> QED BY <1>1, <1>4, <3>1, TextLen DEF Tight
    <2>3. Space \in Special
      BY DEF Special, Space
    <2>4. l[1] # Space /\ l[k] # Space
      BY <1>2, <2>2, <2>3, LowerToken
    <2> QED BY <1>2, <2>4 DEF Tight, l
  <1> QED BY <1>3, <1>4
-----------------------------------------------------------------------------
(* The marks.                                                              *)

LEMMA MarkTexts ==
  /\ Star \in Text /\ SubMark \in Text /\ ApexMark \in Text /\ Dot \in Text
  /\ Len(Star) = 1 /\ Len(SubMark) = 2 /\ Len(ApexMark) = 3 /\ Len(Dot) = 1
  <1>1. "*" \in Tok /\ "." \in Tok
    BY LowerAssumption DEF Special, Tok
  <1> QED BY <1>1 DEF Star, SubMark, ApexMark, Dot, Text

\* How a text begins.
LEMMA Begins ==
  ASSUME NEW s \in Text
  PROVE  /\ s = Star <=> Len(s) = 1 /\ s[1] = "*"
         /\ IsPrefix(SubMark, s) <=> Len(s) >= 2 /\ s[1] = "*" /\ s[2] = "."
         /\ IsPrefix(ApexMark, s) <=> Len(s) >= 3 /\ s[1] = "*" /\ s[2] = "*" /\ s[3] = "."
  <1>1. Len(s) \in Nat
    BY TextLen
  <1>2. (Len(s) = 1 /\ s[1] = "*") => s = Star
    <2> SUFFICES ASSUME Len(s) = 1, s[1] = "*" PROVE s = Star
      OBVIOUS
    <2>1. \A i \in 1..Len(s) : s[i] = Star[i]
      BY DEF Star
    <2> QED BY <2>1, MarkTexts, SeqEqual DEF Text
  <1>3. s = Star => Len(s) = 1 /\ s[1] = "*"
    BY DEF Star
  <1>4. IsPrefix(SubMark, s) <=>
          2 <= Len(s) /\ \A i \in 1..2 : SubMark[i] = s[i]
    <2>1. SubMark \in Seq(Tok) /\ s \in Seq(Tok)
      BY MarkTexts DEF Text
    <2>2. IsPrefix(SubMark, s) <=>
            Len(SubMark) <= Len(s) /\ \A i \in 1..Len(SubMark) : SubMark[i] = s[i]
      BY <2>1, PrefixPointwise
    <2> QED BY <2>2, MarkTexts
  <1>5. IsPrefix(ApexMark, s) <=>
          3 <= Len(s) /\ \A i \in 1..3 : ApexMark[i] = s[i]
    <2>1. ApexMark \in Seq(Tok) /\ s \in Seq(Tok)
      BY MarkTexts DEF Text
    <2>2. IsPrefix(ApexMark, s) <=>
            Len(ApexMark) <= Len(s) /\ \A i \in 1..Len(ApexMark) : ApexMark[i] = s[i]
      BY <2>1, PrefixPointwise
    <2> QED BY <2>2, MarkTexts
  <1>6. SubMark[1] = "*" /\ SubMark[2] = "."
    BY DEF SubMark
  <1>7. ApexMark[1] = "*" /\ ApexMark[2] = "*" /\ ApexMark[3] = "."
    BY DEF ApexMark
  <1>8. (\A i \in 1..2 : SubMark[i] = s[i]) <=> s[1] = "*" /\ s[2] = "."
    BY <1>6
  <1>9. (\A i \in 1..3 : ApexMark[i] = s[i]) <=> s[1] = "*" /\ s[2] = "*" /\ s[3] = "."
    BY <1>7
  <1> QED BY <1>1, <1>2, <1>3, <1>4, <1>5, <1>8, <1>9

\* What follows a mark.
LEMMA AfterMark ==
  ASSUME NEW mark \in Text, NEW s \in Text, IsPrefix(mark, s)
  PROVE  /\ After(mark, s) \in Text
         /\ Len(After(mark, s)) = Len(s) - Len(mark)
         /\ \A i \in 1..(Len(s) - Len(mark)) : After(mark, s)[i] = s[Len(mark) + i]
         /\ mark \o After(mark, s) = s
  <1>1. PICK k \in Nat : k = Len(s)
    BY TextLen
  <1>2. PICK m \in Nat : m = Len(mark)
    BY TextLen
  <1>3. m <= k /\ \A i \in 1..m : mark[i] = s[i]
    BY <1>1, <1>2, PrefixPointwise DEF Text
  <1> DEFINE u == After(mark, s)
  <1>4. /\ u \in Text /\ Len(u) = k - m
        /\ \A i \in 1..(k - m) : u[i] = s[m + i]
    <2>1. m + 1 \in Nat /\ m + 1 >= 1 /\ k <= k /\ m + 1 <= k + 1
      BY <1>3
    <2>2. k + 1 - (m + 1) = k - m /\ \A i \in Nat : m + 1 + i - 1 = m + i
      OBVIOUS
    <2>3. s \in Seq(Tok)
      BY DEF Text
    <2>4. /\ SubSeq(s, m + 1, k) \in Seq(Tok)
          /\ Len(SubSeq(s, m + 1, k)) = k + 1 - (m + 1)
          /\ \A i \in 1..(k + 1 - (m + 1)) : SubSeq(s, m + 1, k)[i] = s[m + 1 + i - 1]
      BY <1>1, <2>1, <2>3, Piece
    <2>5. u = SubSeq(s, m + 1, k)
      BY <1>1, <1>2 DEF After
    <2>6. \A i \in 1..(k - m) : i \in Nat
      OBVIOUS
    <2> QED BY <2>2, <2>4, <2>5, <2>6 DEF Text
  <1> HIDE DEF u
  <1>5. mark \o u = s
    <2>1. /\ mark \o u \in Seq(Tok) /\ Len(mark \o u) = m + (k - m)
          /\ \A i \in 1..(m + (k - m)) :
               (mark \o u)[i] = IF i <= m THEN mark[i] ELSE u[i - m]
      BY <1>2, <1>4, ConcatProperties DEF Text
    <2>2. m + (k - m) = k
      OBVIOUS
    <2>3. ASSUME NEW i \in 1..k PROVE (mark \o u)[i] = s[i]
      <3>1. CASE i <= m
        <4>1. i \in 1..m
          BY <3>1
        <4> QED BY <1>3, <2>1, <2>2, <3>1, <4>1
      <3>2. CASE ~(i <= m)
        <4>1. i - m \in 1..(k - m) /\ m + (i - m) = i
          BY <3>2
        <4>2. u[i - m] = s[m + (i - m)]
          BY <1>4, <4>1
        <4> QED BY <2>1, <2>2, <3>2, <4>1, <4>2
      <3> QED BY <3>1, <3>2
    <2> QED BY <1>1, <2>1, <2>2, <2>3, SeqEqual DEF Text
  <1> QED BY <1>1, <1>2, <1>4, <1>5 DEF u

\* What follows a mark that was put in front.
LEMMA AfterConcat ==
  ASSUME NEW mark \in Text, NEW u \in Text
  PROVE  mark \o u \in Text /\ IsPrefix(mark, mark \o u) /\ After(mark, mark \o u) = u
  <1>1. PICK k \in Nat : k = Len(u)
    BY TextLen
  <1>2. PICK m \in Nat : m = Len(mark)
    BY TextLen
  <1> DEFINE s == mark \o u
  <1>3. /\ s \in Seq(Tok) /\ Len(s) = m + k
        /\ \A i \in 1..(m + k) : s[i] = IF i <= m THEN mark[i] ELSE u[i - m]
    BY <1>1, <1>2, ConcatProperties DEF Text
  <1> HIDE DEF s
  <1>4. m <= m + k /\ \A i \in 1..m : i \in 1..(m + k) /\ i <= m
    OBVIOUS
  <1>5. IsPrefix(mark, s)
    <2>1. \A i \in 1..m : mark[i] = s[i]
      BY <1>3, <1>4
    <2> QED BY <1>2, <1>3, <1>4, <2>1, PrefixPointwise DEF Text
  <1>6. /\ After(mark, s) \in Text /\ Len(After(mark, s)) = m + k - m
        /\ \A i \in 1..(m + k - m) : After(mark, s)[i] = s[m + i]
    <2>1. s \in Text
      BY <1>3 DEF Text
    <2>2. /\ After(mark, s) \in Text /\ Len(After(mark, s)) = Len(s) - Len(mark)
          /\ \A i \in 1..(Len(s) - Len(mark)) : After(mark, s)[i] = s[Len(mark) + i]
      BY <1>5, <2>1, AfterMark
    <2> QED BY <1>2, <1>3, <2>2
  <1>7. ASSUME NEW i \in 1..k PROVE After(mark, s)[i] = u[i]
    <2>1. m + k - m = k /\ m + i \in 1..(m + k) /\ ~(m + i <= m) /\ m + i - m = i
      OBVIOUS
    <2>2. s[m + i] = u[m + i - m]
      BY <1>3, <2>1
    <2> QED BY <1>6, <2>1, <2>2
  <1>8. After(mark, s) = u
    <2>1. m + k - m = k
      OBVIOUS
    <2> QED BY <1>1, <1>6, <1>7, <2>1, SeqEqual DEF Text
  <1> QED BY <1>3, <1>5, <1>8 DEF s, Text
-----------------------------------------------------------------------------
(* Parsing and printing.                                                   *)

\* Lowering changes no mark.
LEMMA LowerBegins ==
  ASSUME NEW s \in Text
  PROVE  /\ to_ascii_lowercase(s) = Star <=> s = Star
         /\ IsPrefix(SubMark, to_ascii_lowercase(s)) <=> IsPrefix(SubMark, s)
         /\ IsPrefix(ApexMark, to_ascii_lowercase(s)) <=> IsPrefix(ApexMark, s)
  <1> DEFINE l == to_ascii_lowercase(s)
  <1>1. l \in Text /\ Len(l) = Len(s) /\ \A i \in 1..Len(s) : l[i] = Lower[s[i]]
    BY LowerText
  <1>2. Len(s) \in Nat /\ \A i \in 1..Len(s) : s[i] \in Tok
    BY TextLen
  <1>3. "*" \in Special /\ "." \in Special
    BY DEF Special
  <1> HIDE DEF l
  <1>4. \A i \in 1..Len(s) : (l[i] = "*" <=> s[i] = "*") /\ (l[i] = "." <=> s[i] = ".")
    BY <1>1, <1>2, <1>3, LowerToken
  <1>5. \A i \in {1, 2, 3} : i <= Len(s) => i \in 1..Len(s)
    BY <1>2
  <1>6. /\ l = Star <=> Len(l) = 1 /\ l[1] = "*"
        /\ IsPrefix(SubMark, l) <=> Len(l) >= 2 /\ l[1] = "*" /\ l[2] = "."
        /\ IsPrefix(ApexMark, l) <=> Len(l) >= 3 /\ l[1] = "*" /\ l[2] = "*" /\ l[3] = "."
    BY <1>1, Begins
  <1>7. /\ s = Star <=> Len(s) = 1 /\ s[1] = "*"
        /\ IsPrefix(SubMark, s) <=> Len(s) >= 2 /\ s[1] = "*" /\ s[2] = "."
        /\ IsPrefix(ApexMark, s) <=> Len(s) >= 3 /\ s[1] = "*" /\ s[2] = "*" /\ s[3] = "."
    BY Begins
  <1>8. Len(s) = 1 => (l[1] = "*" <=> s[1] = "*")
    BY <1>4, <1>5
  <1>9. Len(s) >= 2 => (l[1] = "*" <=> s[1] = "*") /\ (l[2] = "." <=> s[2] = ".")
    BY <1>2, <1>4, <1>5
  <1>10. Len(s) >= 3 => /\ l[1] = "*" <=> s[1] = "*"
                        /\ l[2] = "*" <=> s[2] = "*"
                        /\ l[3] = "." <=> s[3] = "."
    BY <1>2, <1>4, <1>5
  <1>11. (l = Star <=> s = Star)
    BY <1>1, <1>6, <1>7, <1>8
  <1>12. IsPrefix(SubMark, l) <=> IsPrefix(SubMark, s)
    BY <1>1, <1>6, <1>7, <1>9
  <1>13. IsPrefix(ApexMark, l) <=> IsPrefix(ApexMark, s)
    BY <1>1, <1>6, <1>7, <1>10
  <1> QED BY <1>11, <1>12, <1>13 DEF l

\* What follows a mark may be lowered before or after.
LEMMA LowerAfter ==
  ASSUME NEW mark \in Text, NEW s \in Text, IsPrefix(mark, s),
         IsPrefix(mark, to_ascii_lowercase(s))
  PROVE  After(mark, to_ascii_lowercase(s)) = to_ascii_lowercase(After(mark, s))
  <1>1. PICK k \in Nat : k = Len(s)
    BY TextLen
  <1>2. PICK m \in Nat : m = Len(mark)
    BY TextLen
  <1> DEFINE l == to_ascii_lowercase(s)
             u == After(mark, s)
             v == After(mark, l)
             w == to_ascii_lowercase(u)
  <1>3. l \in Text /\ Len(l) = k /\ \A i \in 1..k : l[i] = Lower[s[i]]
    BY <1>1, LowerText
  <1>4. u \in Text /\ Len(u) = k - m /\ \A i \in 1..(k - m) : u[i] = s[m + i]
    BY <1>1, <1>2, AfterMark
  <1> HIDE DEF l
  <1>5. v \in Text /\ Len(v) = k - m /\ \A i \in 1..(k - m) : v[i] = l[m + i]
    <2>1. IsPrefix(mark, l)
      BY DEF l
    <2>2. /\ After(mark, l) \in Text /\ Len(After(mark, l)) = Len(l) - Len(mark)
          /\ \A i \in 1..(Len(l) - Len(mark)) : After(mark, l)[i] = l[Len(mark) + i]
      BY <1>3, <2>1, AfterMark
    <2> QED BY <1>2, <1>3, <2>2
  <1> HIDE DEF u, v
  <1>6. w \in Text /\ Len(w) = k - m /\ \A i \in 1..(k - m) : w[i] = Lower[u[i]]
    BY <1>4, LowerText
  <1> HIDE DEF w
  <1>7. \A i \in 1..(k - m) : m + i \in 1..k
    OBVIOUS
  <1>8. \A i \in 1..(k - m) : v[i] = w[i]
    BY <1>3, <1>4, <1>5, <1>6, <1>7
  <1>9. v = w
    BY <1>5, <1>6, <1>8, SeqEqual DEF Text
  <1> QED BY <1>9 DEF v, w, u, l

LowerPattern(p) == Pattern(p.kind, to_ascii_lowercase(p.name))

\* It does not matter whether a parser lowers before the split or after it.
LEMMA LowerParse ==
  ASSUME NEW s \in Text
  PROVE  ParseTrimmed(to_ascii_lowercase(s)) = LowerPattern(ParseTrimmed(s))
  <1> DEFINE l == to_ascii_lowercase(s)
  <1>1. /\ l = Star <=> s = Star
        /\ IsPrefix(SubMark, l) <=> IsPrefix(SubMark, s)
        /\ IsPrefix(ApexMark, l) <=> IsPrefix(ApexMark, s)
    BY LowerBegins
  <1>2. to_ascii_lowercase(<<>>) = <<>>
    BY DEF to_ascii_lowercase
  <1>3. IsPrefix(ApexMark, s) => After(ApexMark, l) = to_ascii_lowercase(After(ApexMark, s))
    BY <1>1, MarkTexts, LowerAfter
  <1>4. IsPrefix(SubMark, s) => After(SubMark, l) = to_ascii_lowercase(After(SubMark, s))
    BY <1>1, MarkTexts, LowerAfter
  <1> HIDE DEF l
  <1>5. CASE s = Star
    BY <1>1, <1>2, <1>5 DEF ParseTrimmed, LowerPattern, Pattern, l
  <1>6. CASE s # Star /\ IsPrefix(ApexMark, s)
    BY <1>1, <1>3, <1>6 DEF ParseTrimmed, LowerPattern, Pattern, l
  <1>7. CASE s # Star /\ ~IsPrefix(ApexMark, s) /\ IsPrefix(SubMark, s)
    BY <1>1, <1>4, <1>7 DEF ParseTrimmed, LowerPattern, Pattern, l
  <1>8. CASE s # Star /\ ~IsPrefix(ApexMark, s) /\ ~IsPrefix(SubMark, s)
    BY <1>1, <1>8 DEF ParseTrimmed, LowerPattern, Pattern, l
  <1> QED BY <1>5, <1>6, <1>7, <1>8

\* Printing puts back what parsing took off.
LEMMA PrintParse ==
  ASSUME NEW s \in Text
  PROVE  to_pattern_string(ParseTrimmed(s)) = s
  <1>1. CASE s = Star
    BY <1>1 DEF ParseTrimmed, Pattern, to_pattern_string
  <1>2. CASE s # Star /\ IsPrefix(ApexMark, s)
    <2>1. ApexMark \o After(ApexMark, s) = s
      BY <1>2, MarkTexts, AfterMark
    <2> QED BY <1>2, <2>1 DEF ParseTrimmed, Pattern, to_pattern_string
  <1>3. CASE s # Star /\ ~IsPrefix(ApexMark, s) /\ IsPrefix(SubMark, s)
    <2>1. SubMark \o After(SubMark, s) = s
      BY <1>3, MarkTexts, AfterMark
    <2> QED BY <1>3, <2>1 DEF ParseTrimmed, Pattern, to_pattern_string
  <1>4. CASE s # Star /\ ~IsPrefix(ApexMark, s) /\ ~IsPrefix(SubMark, s)
    BY <1>4 DEF ParseTrimmed, Pattern, to_pattern_string
  <1> QED BY <1>1, <1>2, <1>3, <1>4

\* Both parsers lower the trimmed text and split it.
LEMMA ParseIs ==
  ASSUME NEW s \in Text
  PROVE  /\ HostPattern_parse(s) = ParseTrimmed(to_ascii_lowercase(trim(s)))
         /\ to_pattern_string(HostPattern_parse(s)) = to_ascii_lowercase(trim(s))
  <1>1. trim(s) \in Text /\ to_ascii_lowercase(trim(s)) \in Text
    BY TrimText, LowerText
  <1>2. HostPattern_parse(s) = LowerPattern(ParseTrimmed(trim(s)))
    BY DEF HostPattern_parse, LowerPattern
  <1> QED BY <1>1, <1>2, LowerParse, PrintParse

\* HostPattern::to_pattern_string and the two parsers: whatever text the caller
\* writes, the proxy reads in what core prints exactly the pattern that core
\* read in the text, letters, spaces and stray marks included.
THEOREM RoundTrip ==
  \A s \in Text :
    Pattern_parse(to_pattern_string(HostPattern_parse(s))) = HostPattern_parse(s)
  <1> TAKE s \in Text
  <1> DEFINE l == to_ascii_lowercase(trim(s))
  <1>1. trim(s) \in Text /\ Tight(trim(s)) /\ l \in Text
    BY TrimText, LowerText
  <1>2. Tight(l) /\ to_ascii_lowercase(l) = l
    BY <1>1, LowerTight, LowerTwice
  <1>3. HostPattern_parse(s) = ParseTrimmed(l) /\ to_pattern_string(HostPattern_parse(s)) = l
    BY ParseIs
  <1> HIDE DEF l
  <1>4. trim(l) = l
    BY <1>1, <1>2, TrimTight
  <1> QED BY <1>2, <1>3, <1>4 DEF Pattern_parse
-----------------------------------------------------------------------------
(* Spaces around a rule.                                                   *)

LEMMA TrimPadded ==
  ASSUME NEW body \in Text, body # <<>>, Tight(body),
         NEW pad \in Text, \A i \in 1..Len(pad) : pad[i] = Space
  PROVE  (pad \o body) \o pad \in Text /\ trim((pad \o body) \o pad) = body
  <1>1. PICK p \in Nat : p = Len(pad) /\ \A i \in 1..p : pad[i] = Space
    BY TextLen
  <1>2. PICK b \in Nat : b = Len(body) /\ b # 0
    BY TextLen
  <1>3. pad \in Seq(Tok) /\ body \in Seq(Tok)
    BY DEF Text
  <1> DEFINE u == pad \o body
             s == u \o pad
  <1>4. /\ u \in Seq(Tok) /\ Len(u) = p + b
        /\ \A i \in 1..(p + b) : u[i] = IF i <= p THEN pad[i] ELSE body[i - p]
    BY <1>1, <1>2, <1>3, ConcatProperties
  <1> HIDE DEF u
  <1>5. /\ s \in Seq(Tok) /\ Len(s) = p + b + p
        /\ \A i \in 1..(p + b + p) : s[i] = IF i <= p + b THEN u[i] ELSE pad[i - (p + b)]
    <2>1. /\ u \o pad \in Seq(Tok) /\ Len(u \o pad) = Len(u) + Len(pad)
          /\ \A i \in 1..(Len(u) + Len(pad)) :
               (u \o pad)[i] = IF i <= Len(u) THEN u[i] ELSE pad[i - Len(u)]
      BY <1>3, <1>4, ConcatProperties
    <2> QED BY <1>1, <1>4, <2>1
  <1> HIDE DEF s
  <1>6. ASSUME NEW i \in Nat, i \in 1..b
        PROVE  s[p + i] = body[i]
    <2>1. p + i \in 1..(p + b + p) /\ p + i <= p + b /\ p + i \in 1..(p + b)
          /\ ~(p + i <= p) /\ p + i - p = i
      BY <1>6
    <2> QED BY <1>4, <1>5, <2>1
  <1>7. ASSUME NEW i \in Nat, i \in 1..(p + b + p), i < p + 1 \/ i > p + b
        PROVE  s[i] = Space
    <2>1. CASE i < p + 1
      <3>1. i <= p /\ i <= p + b /\ i \in 1..(p + b) /\ i \in 1..p
        BY <1>7, <2>1
      <3> QED BY <1>1, <1>4, <1>5, <1>7, <3>1
    <2>2. CASE i > p + b
      <3>1. ~(i <= p + b) /\ i - (p + b) \in 1..p
        BY <1>7, <2>2
      <3> QED BY <1>1, <1>5, <1>7, <3>1
    <2> QED BY <1>7, <2>1, <2>2
  <1>8. trim(s) = SubSeq(s, p + 1, p + b)
    <2>1. body[1] # Space /\ body[b] # Space
      BY <1>2 DEF Tight
    <2>2. 1 \in 1..b /\ b \in 1..b
      BY <1>2
    <2>3. s[p + 1] # Space /\ s[p + b] # Space
      BY <1>6, <2>1, <2>2
    <2>4. \A i \in 1..(p + b + p) : i \in Nat /\ (s[i] # Space => p + 1 <= i /\ i <= p + b)
      <3>1. \A i \in 1..(p + b + p) : i \in Nat /\ (~(p + 1 <= i /\ i <= p + b) => i < p + 1 \/ i > p + b)
        OBVIOUS
      <3> QED BY <1>7, <3>1
    <2>5. /\ p + b + p \in Nat /\ p + 1 \in Nat /\ p + b \in Nat
          /\ p + 1 \in 1..(p + b + p) /\ p + b \in 1..(p + b + p)
      BY <1>2
    <2>6. s \in Text
      BY <1>5 DEF Text
    <2>7. PICK k \in Nat, x \in Nat, y \in Nat : k = p + b + p /\ x = p + 1 /\ y = p + b
      BY <2>5
    <2>8. /\ k = Len(s) /\ x \in 1..k /\ y \in 1..k /\ s[x] # Space /\ s[y] # Space
          /\ \A i \in 1..k : s[i] # Space => x <= i /\ i <= y
      BY <1>5, <2>3, <2>4, <2>5, <2>7
    <2>9. trim(s) = SubSeq(s, x, y)
      BY <2>6, <2>8, TrimIs
    <2> QED BY <2>7, <2>9
  <1>9. SubSeq(s, p + 1, p + b) = body
    <2>1. PICK k \in Nat, x \in Nat, y \in Nat : k = p + b + p /\ x = p + 1 /\ y = p + b
      OBVIOUS
    <2> DEFINE t == SubSeq(s, x, y)
    <2>2. /\ x >= 1 /\ y <= k /\ x <= y + 1 /\ y + 1 - x = b
          /\ \A i \in 1..b : i \in Nat /\ x + i - 1 = p + i
      BY <1>2, <2>1
    <2>3. s \in Seq(Tok) /\ Len(s) = k
      BY <1>5, <2>1
    <2>4. /\ t \in Seq(Tok) /\ Len(t) = y + 1 - x
          /\ \A i \in 1..(y + 1 - x) : t[i] = s[x + i - 1]
      BY <2>2, <2>3, Piece
    <2> HIDE DEF t
    <2>5. \A i \in 1..b : t[i] = body[i]
      BY <1>6, <2>2, <2>4
    <2>6. t = body
      BY <1>2, <1>3, <2>2, <2>4, <2>5, SeqEqual
    <2> QED BY <2>1, <2>6 DEF t
  <1> QED BY <1>5, <1>8, <1>9 DEF s, u, Text

\* Of spaces alone nothing is left.
LEMMA TrimSpaces ==
  ASSUME NEW pad \in Text, \A i \in 1..Len(pad) : pad[i] = Space
  PROVE  (pad \o <<>>) \o pad \in Text /\ trim((pad \o <<>>) \o pad) = <<>>
  <1> DEFINE s == pad \o pad
  <1>1. pad \in Seq(Tok) /\ (pad \o <<>>) \o pad = s
    BY ConcatEmptySeq DEF Text
  <1>2. PICK k \in Nat : k = Len(pad)
    BY TextLen
  <1>3. /\ s \in Seq(Tok) /\ Len(s) = k + k
        /\ \A i \in 1..(k + k) : s[i] = IF i <= k THEN pad[i] ELSE pad[i - k]
    BY <1>1, <1>2, ConcatProperties
  <1> HIDE DEF s
  <1>4. \A i \in 1..(k + k) : (i <= k /\ i \in 1..k) \/ (~(i <= k) /\ i - k \in 1..k)
    OBVIOUS
  <1>5. \A i \in 1..(k + k) : s[i] = Space
    BY <1>2, <1>3, <1>4
  <1>6. s \in Text /\ DOMAIN s = 1..(k + k)
    BY <1>3 DEF Text
  <1>7. {i \in DOMAIN s : s[i] # Space} = {}
    BY <1>5, <1>6
  <1>8. trim(s) = <<>>
    BY <1>7 DEF trim, Space
  <1> QED BY <1>1, <1>6, <1>8

\* A mark put before a text that has no space at its ends.
LEMMA MarkedTight ==
  ASSUME NEW mark \in {SubMark, ApexMark}, NEW u \in Text, Tight(u)
  PROVE  /\ mark \o u \in Text /\ mark \o u # <<>> /\ Tight(mark \o u)
         /\ IsPrefix(mark, mark \o u) /\ After(mark, mark \o u) = u
  <1> DEFINE s == mark \o u
  <1>1. PICK m \in Nat : /\ m = Len(mark) /\ m >= 1 /\ mark \in Text
                         /\ \/ mark = SubMark /\ m = 2
                            \/ mark = ApexMark /\ m = 3
    <2>1. CASE mark = SubMark
      BY <2>1, MarkTexts
    <2>2. CASE mark = ApexMark
      BY <2>2, MarkTexts
    <2> QED BY <2>1, <2>2
  <1>2. PICK k \in Nat : k = Len(u)
    BY TextLen
  <1>3. s \in Text /\ IsPrefix(mark, s) /\ After(mark, s) = u
    BY <1>1, AfterConcat
  <1>4. mark \in Seq(Tok) /\ u \in Seq(Tok)
    BY <1>1 DEF Text
  <1>5. /\ Len(s) = m + k
        /\ \A i \in 1..(m + k) : s[i] = IF i <= m THEN mark[i] ELSE u[i - m]
    <2>1. /\ Len(mark \o u) = Len(mark) + Len(u)
          /\ \A i \in 1..(Len(mark) + Len(u)) :
               (mark \o u)[i] = IF i <= Len(mark) THEN mark[i] ELSE u[i - Len(mark)]
      BY <1>4, ConcatProperties
    <2> QED BY <1>1, <1>2, <2>1
  <1> HIDE DEF s
  <1>6. mark[1] # Space /\ mark[m] # Space
    <2>1. SubMark[1] # Space /\ SubMark[2] # Space /\ ApexMark[1] # Space /\ ApexMark[3] # Space
      BY DEF SubMark, ApexMark, Space
    <2> QED BY <1>1, <2>1
  <1>7. s[1] # Space
    <2>1. 1 \in 1..(m + k) /\ 1 <= m
      BY <1>1
    <2> QED BY <1>5, <1>6, <2>1
  <1>8. s[m + k] # Space
    <2>1. CASE k = 0
      <3>1. m + k = m /\ m \in 1..(m + k) /\ m <= m
        BY <1>1, <2>1
      <3> QED BY <1>5, <1>6, <3>1
    <2>2. CASE k # 0
      <3>1. m + k \in 1..(m + k) /\ ~(m + k <= m) /\ m + k - m = k
        BY <2>2
      <3>2. u[k] # Space
        BY <1>2, <2>2, TextLen DEF Tight
      <3> QED BY <1>5, <3>1, <3>2
    <2> QED BY <2>1, <2>2
  <1>9. m + k # 0
    BY <1>1
  <1>10. s # <<>> /\ Tight(s)
    BY <1>3, <1>5, <1>7, <1>8, <1>9, TextLen DEF Tight
  <1> QED BY <1>3, <1>10 DEF s

-----------------------------------------------------------------------------
(* normalize.                                                              *)

\* A text that has no such token is left as it is.
LEMMA NotCut ==
  ASSUME NEW s \in Text, NEW c, \A i \in 1..Len(s) : s[i] # c
  PROVE  UpToFirst(c, s) = s /\ UpToLast(c, s) = s
  <1>1. {i \in DOMAIN s : s[i] = c} = {}
    BY TextLen
  <1> QED BY <1>1 DEF UpToFirst, UpToLast

\* A text that goes on with the token behind u is cut back to u, if u has none
\* of them or nothing after it has.
LEMMA Cut ==
  ASSUME NEW u \in Text, NEW k \in Nat, k = Len(u),
         NEW s \in Text, NEW n \in Nat, n = Len(s), k + 1 <= n,
         NEW c, s[k + 1] = c, \A i \in 1..k : s[i] = u[i]
  PROVE  /\ (\A i \in 1..k : u[i] # c) => UpToFirst(c, s) = u
         /\ (\A i \in (k + 2)..n : s[i] # c) => UpToLast(c, s) = u
  <1> DEFINE T == {i \in DOMAIN s : s[i] = c}
  <1>1. DOMAIN s = 1..n
    BY TextLen
  <1>2. k + 1 \in 1..n /\ k + 1 - 1 = k
    OBVIOUS
  <1>3. k + 1 \in T /\ T \subseteq 1..n
    BY <1>1, <1>2
  <1>4. UpToFirst(c, s) = SubSeq(s, 1, Min(T) - 1) /\ UpToLast(c, s) = SubSeq(s, 1, Max(T) - 1)
    BY <1>3 DEF UpToFirst, UpToLast
  <1>5. SubSeq(s, 1, k) = u
    <2>1. k <= n /\ 1 \in Nat /\ 1 >= 1 /\ 1 <= k + 1 /\ k + 1 - 1 = k
      OBVIOUS
    <2>2. /\ SubSeq(s, 1, k) \in Seq(Tok) /\ Len(SubSeq(s, 1, k)) = k + 1 - 1
          /\ \A i \in 1..(k + 1 - 1) : SubSeq(s, 1, k)[i] = s[1 + i - 1]
      BY <2>1, Piece DEF Text
    <2>3. \A i \in 1..k : 1 + i - 1 = i
      OBVIOUS
    <2>4. \A i \in 1..k : SubSeq(s, 1, k)[i] = u[i]
      BY <2>1, <2>2, <2>3
    <2> QED BY <2>1, <2>2, <2>4, SeqEqual DEF Text
  <1>6. T \subseteq Nat
    BY <1>3, Positions
  <1>7. ASSUME \A i \in 1..k : u[i] # c
        PROVE  \A i \in T : k + 1 <= i
    <2>1. \A i \in 1..n : i \in 1..k \/ k + 1 <= i
      OBVIOUS
    <2> QED BY <1>3, <1>7, <2>1
  <1>8. ASSUME \A i \in (k + 2)..n : s[i] # c
        PROVE  \A i \in T : i <= k + 1
    <2>1. \A i \in 1..n : i \in (k + 2)..n \/ i <= k + 1
      OBVIOUS
    <2> QED BY <1>3, <1>8, <2>1
  <1> HIDE DEF T
  <1>9. (\A i \in 1..k : u[i] # c) => Min(T) = k + 1
    BY <1>3, <1>6, <1>7, MinIs
  <1>10. (\A i \in (k + 2)..n : s[i] # c) => Max(T) = k + 1
    BY <1>3, <1>6, <1>8, MaxIs
  <1> QED BY <1>2, <1>4, <1>5, <1>9, <1>10

\* Leading tokens: none, or one.
LEMMA Skip ==
  ASSUME NEW s \in Text, NEW n \in Nat, n = Len(s), NEW c
  PROVE  /\ n >= 1 /\ s[1] # c => SkipLeading(c, s) = s
         /\ n >= 2 /\ s[1] = c /\ s[2] # c => SkipLeading(c, s) = SubSeq(s, 2, n)
  <1> DEFINE T == {i \in DOMAIN s : s[i] # c}
  <1>1. DOMAIN s = 1..n
    BY TextLen
  <1>2. SkipLeading(c, s) = IF T = {} THEN <<>> ELSE SubSeq(s, Min(T), n)
    BY DEF SkipLeading
  <1>3. T \subseteq 1..n
    BY <1>1
  <1>4. T \subseteq Nat
    BY <1>3, Positions
  <1>5. ASSUME n >= 1, s[1] # c PROVE SkipLeading(c, s) = s
    <2>1. 1 \in 1..n
      BY <1>5
    <2>2. 1 \in T /\ \A i \in T : 1 <= i
      BY <1>1, <1>3, <1>5, <2>1, Positions
    <2> HIDE DEF T
    <2>3. Min(T) = 1
      BY <1>4, <2>2, MinIs
    <2>4. SubSeq(s, 1, n) = s
      BY SubSeqFull DEF Text
    <2> QED BY <1>2, <2>2, <2>3, <2>4
  <1>6. ASSUME n >= 2, s[1] = c, s[2] # c PROVE SkipLeading(c, s) = SubSeq(s, 2, n)
    <2>1. 2 \in 1..n /\ \A i \in 1..n : i = 1 \/ 2 <= i
      BY <1>6
    <2>2. 2 \in T /\ \A i \in T : 2 <= i
      BY <1>1, <1>3, <1>6, <2>1
    <2> HIDE DEF T
    <2>3. Min(T) = 2
      BY <1>4, <2>2, MinIs
    <2> QED BY <1>2, <2>2, <2>3
  <1> QED BY <1>5, <1>6

Colon == ":"
Open == "["
Close == "]"

\* No token of s is one that normalize looks for.
Clean(s) == \A i \in 1..Len(s) : s[i] \notin {Space, Open, Close}

LEMMA CleanLabels ==
  /\ {Space, Open, Close, Colon} \subseteq Special
  /\ Special \subseteq Tok /\ Labels \subseteq Tok
  /\ \A t \in Labels : t \notin Special
  /\ Colon \notin {Space, Open, Close} /\ Open # Space /\ Close # Space
  BY LowerAssumption DEF Special, Space, Open, Close, Colon, Labels, Tok

\* The port is taken off, and the host is left as it is, but for the case of its
\* letters.
LEMMA NormalizeHost ==
  ASSUME NEW h \in Text, Clean(h), NEW d \in Labels
  PROVE  normalize(h \o <<Colon, d>>) = to_ascii_lowercase(h)
  <1>1. PICK k \in Nat : k = Len(h)
    BY TextLen
  <1> DEFINE t == <<Colon, d>>
             s == h \o t
  <1>2. t \in Seq(Tok) /\ Len(t) = 2 /\ t[1] = Colon /\ t[2] = d
    BY CleanLabels
  <1>3. Colon \notin {Space, Open, Close} /\ d \notin {Space, Open, Close, Colon}
    BY CleanLabels
  <1> HIDE DEF t
  <1>4. /\ s \in Seq(Tok) /\ Len(s) = k + 2
        /\ \A i \in 1..(k + 2) : s[i] = IF i <= k THEN h[i] ELSE t[i - k]
    <2>1. h \in Seq(Tok)
      BY DEF Text
    <2>2. /\ h \o t \in Seq(Tok) /\ Len(h \o t) = Len(h) + Len(t)
          /\ \A i \in 1..(Len(h) + Len(t)) :
               (h \o t)[i] = IF i <= Len(h) THEN h[i] ELSE t[i - Len(h)]
      BY <1>2, <2>1, ConcatProperties
    <2> QED BY <1>1, <1>2, <2>2
  <1> HIDE DEF s
  <1>5. \A i \in 1..k : s[i] = h[i]
    <2>1. \A i \in 1..k : i \in 1..(k + 2) /\ i <= k
      OBVIOUS
    <2> QED BY <1>4, <2>1
  <1>6. s[k + 1] = Colon /\ s[k + 2] = d
    <2>1. /\ k + 1 \in 1..(k + 2) /\ ~(k + 1 <= k) /\ k + 1 - k = 1
          /\ k + 2 \in 1..(k + 2) /\ ~(k + 2 <= k) /\ k + 2 - k = 2
      OBVIOUS
    <2> QED BY <1>2, <1>4, <2>1
  <1>7. s \in Text /\ Len(s) = k + 2 /\ k + 2 \in Nat
    BY <1>4 DEF Text
  <1>8. \A i \in 1..(k + 2) : s[i] \notin {Space, Open, Close}
    <2>1. \A i \in 1..(k + 2) : i \in 1..k \/ i = k + 1 \/ i = k + 2
      OBVIOUS
    <2>2. \A i \in 1..k : h[i] \notin {Space, Open, Close}
      BY <1>1 DEF Clean
    <2> QED BY <1>3, <1>5, <1>6, <2>1, <2>2
  <1>9. 1 \in 1..(k + 2) /\ k + 2 \in 1..(k + 2) /\ k + 2 >= 1
    BY <1>1
  <1>10. trim(s) = s
    <2>1. Tight(s)
      BY <1>7, <1>8, <1>9 DEF Tight
    <2> QED BY <1>7, <2>1, TrimTight
  <1>11. SkipLeading(Open, s) = s
    <2>1. s[1] # Open
      BY <1>8, <1>9
    <2> QED BY <1>7, <1>9, <2>1, Skip
  <1>12. UpToFirst(Close, s) = s
    BY <1>7, <1>8, NotCut
  <1>13. UpToLast(Colon, s) = h
    <2>1. k + 1 <= k + 2 /\ \A i \in (k + 2)..(k + 2) : i = k + 2
      OBVIOUS
    <2>2. \A i \in (k + 2)..(k + 2) : s[i] # Colon
      BY <1>3, <1>6, <2>1
    <2> QED BY <1>1, <1>5, <1>6, <1>7, <2>1, <2>2, Cut
  <1>14. normalize(s) = to_ascii_lowercase(h)
    BY <1>10, <1>11, <1>12, <1>13 DEF normalize, Colon, Open, Close
  <1> QED BY <1>14 DEF s, t

\* A bracketed address is taken out of its brackets and then loses what follows
\* its last colon.
LEMMA NormalizeBracketed ==
  ASSUME NEW u \in Text, u # <<>>, Clean(u), NEW d \in Labels
  PROVE  normalize(((<<Open>> \o u) \o <<Close>>) \o <<Colon, d>>)
           = to_ascii_lowercase(UpToLast(Colon, u))
  <1>1. PICK k \in Nat : k = Len(u) /\ k # 0
    BY TextLen
  <1>2. u \in Seq(Tok)
    BY DEF Text
  <1> DEFINE o == <<Open>>
             c == <<Close>>
             t == <<Colon, d>>
             v == o \o u
             w == v \o c
             s == w \o t
  <1>3. /\ o \in Seq(Tok) /\ Len(o) = 1 /\ o[1] = Open
        /\ c \in Seq(Tok) /\ Len(c) = 1 /\ c[1] = Close
        /\ t \in Seq(Tok) /\ Len(t) = 2 /\ t[2] = d
    BY CleanLabels
  <1> HIDE DEF o, c, t
  <1>4. /\ v \in Seq(Tok) /\ Len(v) = k + 1
        /\ v[1] = Open /\ \A i \in 1..k : v[i + 1] = u[i]
    <2>1. /\ o \o u \in Seq(Tok) /\ Len(o \o u) = Len(o) + Len(u)
          /\ \A i \in 1..(Len(o) + Len(u)) :
               (o \o u)[i] = IF i <= Len(o) THEN o[i] ELSE u[i - Len(o)]
      BY <1>2, <1>3, ConcatProperties
    <2>2. \A i \in 1..(1 + k) : v[i] = IF i <= 1 THEN o[i] ELSE u[i - 1]
      BY <1>1, <1>3, <2>1
    <2>3. 1 + k = k + 1 /\ 1 \in 1..(1 + k) /\ 1 <= 1
      OBVIOUS
    <2>4. \A i \in 1..k : i + 1 \in 1..(1 + k) /\ ~(i + 1 <= 1) /\ i + 1 - 1 = i
      OBVIOUS
    <2> HIDE DEF v
    <2>5. v[1] = Open /\ \A i \in 1..k : v[i + 1] = u[i]
      BY <1>3, <2>2, <2>3, <2>4
    <2> QED BY <1>1, <1>3, <2>1, <2>3, <2>5 DEF v
  <1> HIDE DEF v
  <1>5. /\ w \in Seq(Tok) /\ Len(w) = k + 2
        /\ w[1] = Open /\ \A i \in 1..k : w[i + 1] = u[i]
        /\ w[k + 2] = Close
    <2>1. /\ v \o c \in Seq(Tok) /\ Len(v \o c) = Len(v) + Len(c)
          /\ \A i \in 1..(Len(v) + Len(c)) :
               (v \o c)[i] = IF i <= Len(v) THEN v[i] ELSE c[i - Len(v)]
      BY <1>3, <1>4, ConcatProperties
    <2>2. k + 1 + 1 = k + 2
      OBVIOUS
    <2>3. \A i \in 1..(k + 2) : w[i] = IF i <= k + 1 THEN v[i] ELSE c[i - (k + 1)]
      BY <1>3, <1>4, <2>1, <2>2
    <2>4. /\ 1 \in 1..(k + 2) /\ 1 <= k + 1
          /\ k + 2 \in 1..(k + 2) /\ ~(k + 2 <= k + 1) /\ k + 2 - (k + 1) = 1
      OBVIOUS
    <2>5. \A i \in 1..k : i + 1 \in 1..(k + 2) /\ i + 1 <= k + 1
      OBVIOUS
    <2> HIDE DEF w
    <2>6. w[1] = Open /\ w[k + 2] = Close /\ \A i \in 1..k : w[i + 1] = u[i]
      BY <1>3, <1>4, <2>3, <2>4, <2>5
    <2> QED BY <1>3, <1>4, <2>1, <2>2, <2>6 DEF w
  <1> HIDE DEF w
  <1>6. /\ s \in Seq(Tok) /\ Len(s) = k + 4
        /\ s[1] = Open /\ \A i \in 1..k : s[i + 1] = u[i]
        /\ s[k + 2] = Close /\ s[k + 4] = d
    <2>1. /\ w \o t \in Seq(Tok) /\ Len(w \o t) = Len(w) + Len(t)
          /\ \A i \in 1..(Len(w) + Len(t)) :
               (w \o t)[i] = IF i <= Len(w) THEN w[i] ELSE t[i - Len(w)]
      BY <1>3, <1>5, ConcatProperties
    <2>2. k + 2 + 2 = k + 4
      OBVIOUS
    <2>3. \A i \in 1..(k + 4) : s[i] = IF i <= k + 2 THEN w[i] ELSE t[i - (k + 2)]
      BY <1>3, <1>5, <2>1, <2>2
    <2>4. /\ 1 \in 1..(k + 4) /\ 1 <= k + 2
          /\ k + 2 \in 1..(k + 4) /\ k + 2 <= k + 2
          /\ k + 4 \in 1..(k + 4) /\ ~(k + 4 <= k + 2) /\ k + 4 - (k + 2) = 2
      OBVIOUS
    <2>5. \A i \in 1..k : i + 1 \in 1..(k + 4) /\ i + 1 <= k + 2
      OBVIOUS
    <2> HIDE DEF s
    <2>6. s[1] = Open /\ s[k + 2] = Close /\ s[k + 4] = d /\ \A i \in 1..k : s[i + 1] = u[i]
      BY <1>3, <1>5, <2>3, <2>4, <2>5
    <2> QED BY <1>3, <1>5, <2>1, <2>2, <2>6 DEF s
  <1> HIDE DEF s
  <1>7. ASSUME NEW x \in Text, NEW n \in Nat, n = Len(x), k + 2 <= n,
               x[1] = Open, \A i \in 1..k : x[i + 1] = u[i], x[k + 2] = Close,
               x[n] # Space
        PROVE  normalize(x) = to_ascii_lowercase(UpToLast(Colon, u))
    <2>1. 1 \in 1..k /\ 1 + 1 = 2 /\ n >= 2
      BY <1>1, <1>7
    <2>2. x[2] # Open
      BY <1>1, <1>7, <2>1 DEF Clean
    <2>3. trim(x) = x
      <3>1. Tight(x)
        BY <1>7, CleanLabels DEF Tight
      <3> QED BY <3>1, TrimTight
    <2> DEFINE y == SubSeq(x, 2, n)
    <2>4. SkipLeading(Open, x) = y
      BY <1>7, <2>1, <2>2, Skip
    <2>5. /\ y \in Seq(Tok) /\ Len(y) = n - 1
          /\ \A i \in 1..(n - 1) : y[i] = x[i + 1]
      <3>1. x \in Seq(Tok)
        BY DEF Text
      <3>2. 2 \in Nat /\ 2 >= 1 /\ n <= n /\ 2 <= n + 1 /\ n + 1 - 2 = n - 1
        BY <2>1
      <3>3. /\ SubSeq(x, 2, n) \in Seq(Tok) /\ Len(SubSeq(x, 2, n)) = n + 1 - 2
            /\ \A i \in 1..(n + 1 - 2) : SubSeq(x, 2, n)[i] = x[2 + i - 1]
        BY <1>7, <3>1, <3>2, Piece
      <3>4. \A i \in 1..(n - 1) : 2 + i - 1 = i + 1
        OBVIOUS
      <3> QED BY <3>2, <3>3, <3>4
    <2> HIDE DEF y
    <2>6. UpToFirst(Close, y) = u
      <3>1. n - 1 \in Nat /\ k + 1 <= n - 1 /\ k + 1 \in 1..(n - 1) /\ k + 1 + 1 = k + 2
        BY <1>7
      <3>2. \A i \in 1..k : i \in 1..(n - 1)
        BY <1>7
      <3>3. y[k + 1] = Close /\ \A i \in 1..k : y[i] = u[i]
        BY <1>7, <2>5, <3>1, <3>2
      <3>4. \A i \in 1..k : u[i] # Close
        BY <1>1 DEF Clean
      <3>5. y \in Text /\ n - 1 = Len(y)
        BY <2>5 DEF Text
      <3> QED BY <1>1, <3>1, <3>3, <3>4, <3>5, Cut
    <2> QED BY <2>3, <2>4, <2>6 DEF normalize, Colon, Open, Close
  <1>8. normalize(s) = to_ascii_lowercase(UpToLast(Colon, u))
    <2>1. s \in Text /\ k + 4 \in Nat /\ k + 2 <= k + 4 /\ s[k + 4] # Space
      BY <1>6, CleanLabels DEF Text
    <2> QED BY <1>6, <1>7, <2>1
  <1> QED BY <1>8 DEF s, t, w, c, v, o

\* Of a text with two colons one is left.
LEMMA ColonLeft ==
  ASSUME NEW u \in Text, NEW n \in Nat, n = Len(u),
         NEW i \in Nat, NEW j \in Nat, 1 <= i, i < j, j <= n, u[i] = Colon, u[j] = Colon
  PROVE  /\ UpToLast(Colon, u) \in Text
         /\ i <= Len(UpToLast(Colon, u)) /\ Len(UpToLast(Colon, u)) <= n
         /\ UpToLast(Colon, u)[i] = Colon
         /\ \A p \in 1..Len(UpToLast(Colon, u)) : UpToLast(Colon, u)[p] = u[p]
  <1> DEFINE T == {p \in DOMAIN u : u[p] = Colon}
             v == UpToLast(Colon, u)
  <1>1. DOMAIN u = 1..n
    BY TextLen
  <1>2. T \subseteq 1..n /\ i \in T /\ j \in T
    BY <1>1
  <1>3. v = SubSeq(u, 1, Max(T) - 1)
    BY <1>2 DEF UpToLast
  <1> HIDE DEF T
  <1>4. Max(T) \in T /\ \A p \in T : p <= Max(T)
    BY <1>2, Extremes
  <1>5. PICK m \in Nat : m = Max(T) /\ m \in T /\ j <= m
    BY <1>2, <1>4, Positions
  <1>6. m \in 1..n
    BY <1>2, <1>5
  <1>7. m - 1 \in Nat /\ m - 1 <= n /\ 1 <= m - 1 + 1 /\ m - 1 + 1 - 1 = m - 1 /\ i <= m - 1
    BY <1>5, <1>6
  <1>8. /\ v \in Seq(Tok) /\ Len(v) = m - 1
        /\ \A p \in 1..(m - 1) : v[p] = u[p]
    <2>1. u \in Seq(Tok)
      BY DEF Text
    <2>2. 1 \in Nat /\ 1 >= 1 /\ \A p \in 1..(m - 1) : 1 + p - 1 = p
      OBVIOUS
    <2>3. /\ SubSeq(u, 1, m - 1) \in Seq(Tok) /\ Len(SubSeq(u, 1, m - 1)) = m - 1 + 1 - 1
          /\ \A p \in 1..(m - 1 + 1 - 1) : SubSeq(u, 1, m - 1)[p] = u[1 + p - 1]
      BY <1>7, <2>1, <2>2, Piece
    <2> QED BY <1>3, <1>5, <1>7, <2>2, <2>3
  <1> HIDE DEF v
  <1>9. v[i] = Colon
    <2>1. i \in 1..(m - 1)
      BY <1>7
    <2> QED BY <1>8, <2>1
  <1>10. QED
    BY <1>7, <1>8, <1>9 DEF v, Text
=============================================================================
