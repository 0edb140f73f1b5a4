--------------------------------- MODULE Extrema ---------------------------------
(***************************************************************************)
(* Least and greatest elements of sets of natural numbers, what Min and    *)
(* Max of the community modules choose, and recursion over the positions   *)
(* of a sequence from its end: facts that the proofs about layers and      *)
(* globs (FsPolicyProofs) and texts (AllowlistProofs) share.               *)
(***************************************************************************)
EXTENDS FiniteSetsExt, WellFoundedInduction, Integers, TLAPS

\* The natural numbers are well ordered.
LEMMA LeastElement ==
  ASSUME NEW T, T \subseteq Nat, T # {}
  PROVE  \E m \in T : \A x \in T : m <= x
  <1> DEFINE R == OpToRel(<, Nat)
  <1>1. IsWellFoundedOn(R, Nat)
    BY NatLessThanWellFounded
  <1>2. \A x, y \in Nat : x < y => <<x, y>> \in R
    BY DEF OpToRel
  <1> HIDE DEF R
  <1>3. PICK m \in T : \A x \in T : ~(<<x, m>> \in R)
    BY <1>1, WFMin
  <1>4. ASSUME NEW x \in T PROVE m <= x
    <2>1. ~(x < m)
      BY <1>2, <1>3
    <2>2. x \in Nat /\ m \in Nat
      OBVIOUS
    <2> QED BY <2>1, <2>2
  <1> QED BY <1>4

\* A bounded set of them has a greatest element.
LEMMA GreatestElement ==
  ASSUME NEW T, T \subseteq Nat, T # {}, NEW b \in Nat, \A x \in T : x <= b
  PROVE  \E m \in T : \A x \in T : x <= m
  <1> DEFINE U == {b - x : x \in T}
  <1>1. U \subseteq Nat
    <2>1. \A x \in T : b - x \in Nat
      OBVIOUS
    <2> QED BY <2>1
  <1>2. U # {}
    OBVIOUS
  <1>3. PICK u \in U : \A y \in U : u <= y
    BY <1>1, <1>2, LeastElement
  <1>4. PICK m \in T : u = b - m
    OBVIOUS
  <1>5. ASSUME NEW x \in T PROVE x <= m
    <2>1. b - m <= b - x
      BY <1>3, <1>4
    <2>2. x \in Nat /\ m \in Nat
      OBVIOUS
    <2> QED BY <2>1, <2>2
  <1> QED BY <1>5

\* Min and Max are the least and the greatest element.
LEMMA MinIs ==
  ASSUME NEW T, T \subseteq Nat, NEW m \in T, \A x \in T : m <= x
  PROVE  Min(T) = m
  <1>1. \A y \in T : (\A x \in T : y <= x) => y = m
    OBVIOUS
  <1>2. Min(T) \in T /\ \A x \in T : Min(T) <= x
    BY DEF Min
  <1> QED BY <1>1, <1>2

LEMMA MaxIs ==
  ASSUME NEW T, T \subseteq Nat, NEW m \in T, \A x \in T : x <= m
  PROVE  Max(T) = m
  <1>1. \A y \in T : (\A x \in T : y >= x) => y = m
    OBVIOUS
  <1>2. Max(T) \in T /\ \A x \in T : Max(T) >= x
    BY DEF Max
  <1> QED BY <1>1, <1>2

\* What a position of a sequence of length n is.
LEMMA Positions ==
  /\ \A n \in Nat : 1..n \subseteq Nat
  /\ \A n \in Nat : \A i \in 1..n : i \in Nat /\ 1 <= i /\ i <= n
  OBVIOUS

\* They exist in every nonempty set of the positions of a sequence.
LEMMA Extremes ==
  ASSUME NEW n \in Nat, NEW T, T \subseteq 1..n, T # {}
  PROVE  /\ Min(T) \in T /\ \A x \in T : Min(T) <= x
         /\ Max(T) \in T /\ \A x \in T : x <= Max(T)
  <1>1. T \subseteq Nat /\ \A x \in T : x <= n
    OBVIOUS
  <1>2. PICK m \in T : \A x \in T : m <= x
    BY <1>1, LeastElement
  <1>3. PICK k \in T : \A x \in T : x <= k
    BY <1>1, GreatestElement
  <1>4. Min(T) = m /\ Max(T) = k
    BY <1>1, <1>2, <1>3, MinIs, MaxIs
  <1> QED BY <1>2, <1>3, <1>4

-----------------------------------------------------------------------------
(* Recursion from the end.                                                 *)

Values(n, V) == [1..n -> V]

\* Each value of F[f] depends on those of f at later positions only.
FromLater(F, n, V) ==
  \A f, h \in Values(n, V) : \A i \in 1..n :
    (\A k \in 1..n : k > i => f[k] = h[k]) => F[f][i] = F[h][i]

\* A definition by recursion over later positions defines a function.
LEMMA Recursion ==
  ASSUME NEW n \in Nat, NEW V, V # {}, NEW F,
         F \in [Values(n, V) -> Values(n, V)], FromLater(F, n, V)
  PROVE  \E f \in Values(n, V) : F[f] = f
  <1> DEFINE Good(d) == \E f \in Values(n, V) : \A i \in 1..n : i > n - d => F[f][i] = f[i]
             T == {d \in Nat : ~Good(d)}
  <1>1. Good(0)
    <2>1. PICK v \in V : TRUE
      OBVIOUS
    <2>2. [i \in 1..n |-> v] \in Values(n, V)
      BY DEF Values
    <2>3. \A i \in 1..n : ~(i > n - 0)
      OBVIOUS
    <2> QED BY <2>2, <2>3
  <1>2. ASSUME NEW d \in Nat, Good(d)
        PROVE  Good(d + 1)
    <2>1. PICK f \in Values(n, V) : \A i \in 1..n : i > n - d => F[f][i] = f[i]
      BY <1>2
    <2>2. F[f] \in Values(n, V)
      OBVIOUS
    <2>3. ASSUME NEW i \in 1..n, i > n - (d + 1)
          PROVE  F[F[f]][i] = F[f][i]
      <3>1. \A k \in 1..n : k > i => F[f][k] = f[k]
        <4>1. \A k \in 1..n : k > i => k > n - d
          BY <2>3
        <4> QED BY <2>1, <4>1
      <3> QED BY <2>2, <3>1 DEF FromLater
    <2> QED BY <2>2, <2>3
  <1> HIDE DEF Good
  <1>3. T = {}
    <2>1. ASSUME T # {} PROVE FALSE
      <3>1. T \subseteq Nat
        OBVIOUS
      <3>2. PICK m \in T : \A x \in T : m <= x
        BY <2>1, <3>1, LeastElement
      <3>3. m \in Nat /\ ~Good(m) /\ m # 0
        BY <1>1, <3>2
      <3>4. m - 1 \in Nat /\ ~(m <= m - 1) /\ m - 1 + 1 = m
        BY <3>3
      <3>5. Good(m - 1)
        BY <3>2, <3>4
      <3> QED BY <1>2, <3>3, <3>4, <3>5
    <2> QED BY <2>1
  <1>4. Good(n)
    BY <1>3
  <1>5. PICK f \in Values(n, V) : \A i \in 1..n : i > n - n => F[f][i] = f[i]
    BY <1>4 DEF Good
  <1>6. \A i \in 1..n : F[f][i] = f[i]
    <2>1. \A i \in 1..n : i > n - n
      OBVIOUS
    <2> QED BY <1>5, <2>1
  <1>7. F[f] \in Values(n, V)
    OBVIOUS
  <1> QED BY <1>6, <1>7 DEF Values
=============================================================================
