---------------------------- MODULE FsPolicyProofs ----------------------------
(***************************************************************************)
(* Proofs about FsPolicy, for every tree, every set of policies over it,   *)
(* every set of globs and every set of names they are made of.             *)
(***************************************************************************)
EXTENDS FsPolicy, FiniteSetTheorems, SequenceTheorems, Extrema, TLAPS

Enforcing == {"landlock", "bwrap", "seatbelt"}

\* What each step of the way knows of the backend.
StepInv ==
  /\ step = "transform" => backend = "undecided"
  /\ step = "expand" => backend = "bwrap"
  /\ step = "mount" => backend = "bwrap"
  /\ step = "restrict" => backend = "landlock"
  /\ step = "running" => backend # "undecided"
  /\ step \in {"transform", "expand", "restrict"} => layers = {}
  /\ backend = "none" => layers = {}
  /\ backend = "landlock" => Expressible

\* Only a writable root's layer gives writes, and the layers of sections 3
\* and 4 come after it; nothing of section 4 gives reads.
GivesInv ==
  \A l \in layers :
    /\ "write" \in l.gives =>
         l.section <= 2 /\ \E i \in DOMAIN policy.roots : l.on = Subtree(policy.roots[i])
    /\ "read" \in l.gives => l.section <= 3

Ready(b) == backend = b /\ step \in {"mount", "running"}

\* Every read-only subpath still has its layer, or was replaced.
ProtectedInv ==
  Ready("bwrap") \/ Ready("seatbelt") =>
    \A i \in DOMAIN policy.readOnly :
      \/ policy.readOnly[i] \in late
      \/ \E k \in layers : /\ k.section = 3
                           /\ "write" \in k.ops
                           /\ k.on = Subtree(policy.readOnly[i])

\* Every match of the walk still has its mask, or was replaced.
MaskedInv ==
  Ready("bwrap") =>
    \A i \in DOMAIN policy.globs : \A p \in fs :
      /\ p \notin late
      /\ p \in WalkMatches(resolve_deny_globs(policy)[i], fs)
      => \E k \in layers : k.section = 4 /\ "read" \in k.ops /\ k.on = Subtree(p)

\* Every match of a regular expression has its rule.
DeniedInv ==
  Ready("seatbelt") =>
    \A i \in DOMAIN policy.globs : \A p \in Tree :
      deny_read_regexes(resolve_deny_globs(policy)[i], p) =>
        \E k \in layers : k.section = 4 /\ "read" \in k.ops /\ p \in k.on

\* The three ways an environment is built agree on the marker.
MarkerInv ==
  /\ backend \in Enforcing => (marker <=> netRule = "none")
  /\ backend = "undecided" => ~marker

IInv == TypeOK /\ StepInv /\ GivesInv /\ ProtectedInv /\ MaskedInv /\ DeniedInv /\ MarkerInv

-----------------------------------------------------------------------------
(* Paths.                                                                  *)

\* A path is below itself.
LEMMA UnderSelf == \A p \in Tree : p \in Subtree(p)
  <1> TAKE p \in Tree
  <1>1. p \in Seq(STRING)
    BY FsAssumption
  <1>2. SubSeq(p, 1, Len(p)) = SubSeq(p, 1, Len(p)) /\ Len(p) <= Len(p)
    BY <1>1
  <1> QED BY <1>2 DEF Subtree, Under, IsPrefix

\* A directory that is a single file is that file.
LEMMA OnlyFile ==
  ASSUME NEW p \in Tree, NEW q \in Tree, Subtree(q) = {p}
  PROVE  q = p
  BY UnderSelf

\* The roots, subpaths and lengths that layers are made of.
LEMMA PolicyTypes ==
  ASSUME policy \in Policies
  PROVE  /\ policy.roots \in Seq(Tree) /\ policy.readOnly \in Seq(Tree)
         /\ \A i \in DOMAIN policy.roots :
              i \in Nat /\ policy.roots[i] \in Tree /\ Len(policy.roots[i]) \in Nat
         /\ \A i \in DOMAIN policy.readOnly : i \in Nat /\ policy.readOnly[i] \in Tree
         /\ DOMAIN policy.globs \subseteq Nat
         /\ network \in {"Blocked", "Allowed", "Proxied"}
  BY FsAssumption DEF network

\* What a layer has to be to be one of Layers.
LEMMA LayerType ==
  ASSUME NEW s \in 0..4, NEW d \in Nat, NEW i \in Nat, NEW on, on \subseteq Tree,
         NEW ops, ops \subseteq Ops, NEW gives, gives \subseteq Ops
  PROVE  Layer(s, d, i, on, ops, gives) \in Layers
  BY DEF Layer, Layers

LEMMA SubtreeLayer ==
  ASSUME NEW s \in 0..4, NEW d \in Nat, NEW i \in Nat, NEW r,
         NEW ops, ops \subseteq Ops, NEW gives, gives \subseteq Ops
  PROVE  Layer(s, d, i, Subtree(r), ops, gives) \in Layers
  BY LayerType DEF Subtree

-----------------------------------------------------------------------------
(* The steps, by what they do to the rules.                                *)

\* There are no rules yet.
LEMMA InitIInv == Init => IInv
  BY FsAssumption
  DEF Init, IInv, TypeOK, StepInv, GivesInv, ProtectedInv, MaskedInv, DeniedInv,
      MarkerInv, Ready, Enforcing

\* transform() without rules: run unwrapped, hand on, or refuse.
LEMMA DispatchKeeps ==
  ASSUME IInv, passthrough \/ from_policy \/ for_proxied
  PROVE  IInv'
  <1> USE DEF passthrough, from_policy, for_proxied, OnLinux, NotProxied, IInv, TypeOK
  <1>1. UNCHANGED <<platform, policy, cwd, fs, late, layers>> /\ step = "transform" /\ layers = {}
    BY DEF StepInv
  <1>2. TypeOK'
    BY <1>1 DEF build_env, network, StepInv
  <1>3. StepInv'
    BY <1>1 DEF StepInv, Expressible
  <1>4. GivesInv'
    BY <1>1 DEF GivesInv
  <1>5. ~Ready("bwrap")' /\ ~Ready("seatbelt")'
    BY <1>1 DEF Ready, StepInv
  <1>6. ProtectedInv' /\ MaskedInv' /\ DeniedInv'
    BY <1>5 DEF ProtectedInv, MaskedInv, DeniedInv, Ready
  <1>7. MarkerInv'
    <2>1. backend = "undecided" /\ ~marker
      BY <1>1 DEF StepInv, MarkerInv
    <2>2. CASE passthrough
      BY <2>2 DEF MarkerInv, Enforcing
    <2>3. CASE for_proxied
      BY <2>1, <2>3 DEF MarkerInv, Enforcing
    <2>4. CASE from_policy
      <3>1. CASE UNCHANGED <<backend, netRule, marker>>
        BY <2>1, <3>1 DEF MarkerInv, Enforcing
      <3>2. CASE /\ backend' = "landlock"
                 /\ netRule' = IF network = "Blocked" THEN "none" ELSE "all"
                 /\ marker' = (network = "Blocked")
        <4>1. marker' <=> netRule' = "none"
          BY <3>2
        <4> QED BY <3>2, <4>1 DEF MarkerInv, Enforcing
      <3> QED BY <2>4, <3>1, <3>2
    <2> QED BY <2>2, <2>3, <2>4
  <1> QED BY <1>2, <1>3, <1>4, <1>6, <1>7

\* The profile of the Seatbelt backend.
LEMMA SeatbeltKeeps ==
  ASSUME IInv, transform_seatbelt
  PROVE  IInv'
  <1> USE DEF transform_seatbelt, IInv
  <1> DEFINE G == resolve_deny_globs(policy)
             Roots(i) == Layer(2, 0, i, Subtree(policy.roots[i]), {"write"}, {"write"})
             Keeps(i) == Layer(3, 0, i, Subtree(policy.readOnly[i]), {"write"}, {})
             Denies(i) == Layer(4, 0, i, {p \in Tree : deny_read_regexes(G[i], p)}, {"read"}, {})
  <1>1. UNCHANGED <<platform, policy, cwd, fs, late>> /\ resolve_deny_globs(policy)' = G
    BY DEF resolve_deny_globs
  <1>2. layers' = {Layer(0, 0, 0, Tree, {"read"}, {"read"})}
                    \cup {Roots(i) : i \in DOMAIN policy.roots}
                    \cup {Keeps(i) : i \in DOMAIN policy.readOnly}
                    \cup {Denies(i) : i \in DOMAIN policy.globs}
    BY DEF build_policy
  <1>3. layers' \subseteq Layers
    <2>1. Layer(0, 0, 0, Tree, {"read"}, {"read"}) \in Layers
      BY LayerType DEF Ops
    <2>2. \A i \in DOMAIN policy.roots : Roots(i) \in Layers
      <3>1. ASSUME NEW i \in DOMAIN policy.roots PROVE i \in Nat
        BY PolicyTypes DEF TypeOK
      <3> QED BY <3>1, SubtreeLayer DEF Ops
    <2>3. \A i \in DOMAIN policy.readOnly : Keeps(i) \in Layers
      <3>1. ASSUME NEW i \in DOMAIN policy.readOnly PROVE i \in Nat
        BY PolicyTypes DEF TypeOK
      <3> QED BY <3>1, SubtreeLayer DEF Ops
    <2>4. \A i \in DOMAIN policy.globs : Denies(i) \in Layers
      BY LayerType, PolicyTypes DEF Ops, TypeOK
    <2> QED BY <1>2, <2>1, <2>2, <2>3, <2>4
  <1>4. TypeOK'
    BY <1>1, <1>3, PolicyTypes DEF TypeOK, build_env
  <1>5. StepInv'
    BY <1>1 DEF StepInv
  <1>6. GivesInv'
    BY <1>1, <1>2 DEF GivesInv, Layer
  <1>7. ProtectedInv'
    <2>1. \A i \in DOMAIN policy.readOnly :
            /\ Keeps(i) \in layers'
            /\ Keeps(i).section = 3
            /\ "write" \in Keeps(i).ops
            /\ Keeps(i).on = Subtree(policy.readOnly[i])
      BY <1>2 DEF Layer
    <2> QED BY <1>1, <2>1 DEF ProtectedInv
  <1>8. MaskedInv'
    BY DEF MaskedInv, Ready
  <1>9. DeniedInv'
    <2>1. \A i \in DOMAIN policy.globs :
            /\ Denies(i) \in layers'
            /\ Denies(i).section = 4
            /\ "read" \in Denies(i).ops
            /\ Denies(i).on = {p \in Tree : deny_read_regexes(G[i], p)}
      BY <1>2 DEF Layer
    <2> HIDE DEF Denies
    <2> QED BY <1>1, <2>1 DEF DeniedInv
  <1>10. MarkerInv'
    <2>1. netRule' = "none" <=> network = "Blocked"
      BY PolicyTypes DEF TypeOK
    <2>2. marker' <=> network = "Blocked"
      BY Zenon DEF build_env
    <2>3. backend' = "seatbelt"
      OBVIOUS
    <2> QED BY <2>1, <2>2, <2>3 DEF MarkerInv, Enforcing
  <1> QED BY <1>4, <1>5, <1>6, <1>7, <1>8, <1>9, <1>10

\* Landlock's rules, made only where nothing has to be taken back.
LEMMA LandlockKeeps ==
  ASSUME IInv, install_landlock
  PROVE  IInv'
  <1> USE DEF install_landlock, IInv
  <1> DEFINE Roots(i) == Layer(2, 0, i, Subtree(policy.roots[i]), Ops, Ops)
  <1>1. UNCHANGED <<platform, policy, cwd, fs, late, backend, netRule, marker>>
    OBVIOUS
  <1>2. backend = "landlock"
    BY DEF StepInv
  <1>3. layers' = {Layer(0, 0, 0, Tree, Ops, {"read"})}
          \cup {Roots(i) : i \in {k \in DOMAIN policy.roots : policy.roots[k] \in fs}}
    OBVIOUS
  <1>4. layers' \subseteq Layers
    <2>1. Layer(0, 0, 0, Tree, Ops, {"read"}) \in Layers
      BY LayerType DEF Ops
    <2>2. \A i \in DOMAIN policy.roots : Roots(i) \in Layers
      <3>1. ASSUME NEW i \in DOMAIN policy.roots PROVE i \in Nat
        BY PolicyTypes DEF TypeOK
      <3> QED BY <3>1, SubtreeLayer DEF Ops
    <2> QED BY <1>3, <2>1, <2>2
  <1>5. TypeOK'
    BY <1>1, <1>4 DEF TypeOK, network
  <1>6. StepInv'
    BY <1>1, <1>2 DEF StepInv, Expressible
  <1>7. GivesInv'
    BY <1>1, <1>3 DEF GivesInv, Layer, Ops
  <1>8. ProtectedInv' /\ MaskedInv' /\ DeniedInv'
    BY <1>1, <1>2 DEF ProtectedInv, MaskedInv, DeniedInv, Ready
  <1>9. MarkerInv'
    BY <1>1 DEF MarkerInv
  <1> QED BY <1>5, <1>6, <1>7, <1>8, <1>9

\* The walk: past the cap nothing runs, otherwise every match is masked.
LEMMA ExpandKeeps ==
  ASSUME IInv, expand_deny_read_masks
  PROVE  IInv'
  <1> USE DEF expand_deny_read_masks, IInv
  <1> DEFINE masked == {f[2] : f \in Found}
             Fresh1(d) == Layer(1, 0, 0, Subtree(d), Ops, {})
             Roots(i) == Layer(2, Len(policy.roots[i]), i, Subtree(policy.roots[i]), Ops, Ops)
             Keeps(i) == Layer(3, 0, i, Subtree(policy.readOnly[i]), Ops, {"read"})
             Masks(p) == Layer(4, 0, 0, Subtree(p), Ops, {})
  <1>1. UNCHANGED <<platform, policy, cwd, fs, late, backend, netRule, marker>>
    OBVIOUS
  <1>2. backend = "bwrap"
    BY DEF StepInv
  <1>3. CASE step' = "refused" /\ UNCHANGED layers
    <2>1. ~Ready("bwrap")' /\ ~Ready("seatbelt")'
      BY <1>3 DEF Ready
    <2>2. TypeOK' /\ StepInv' /\ GivesInv' /\ MarkerInv'
      BY <1>1, <1>2, <1>3 DEF TypeOK, StepInv, GivesInv, MarkerInv, network
    <2> QED BY <2>1, <2>2 DEF ProtectedInv, MaskedInv, DeniedInv
  <1>4. CASE step' = "mount" /\ layers' = build_bwrap_argv(masked)
    <2>1. layers' = {Layer(0, 0, 0, Tree, Ops, {"read"})}
                      \cup {Fresh1(d) : d \in Fresh}
                      \cup {Roots(i) : i \in DOMAIN policy.roots}
                      \cup {Keeps(i) : i \in DOMAIN policy.readOnly}
                      \cup {Masks(p) : p \in masked}
      BY <1>4 DEF build_bwrap_argv
    <2>2. layers' \subseteq Layers
      <3>1. Layer(0, 0, 0, Tree, Ops, {"read"}) \in Layers
        BY LayerType DEF Ops
      <3>2. \A i \in DOMAIN policy.roots : Roots(i) \in Layers
        <4>1. ASSUME NEW i \in DOMAIN policy.roots PROVE i \in Nat /\ Len(policy.roots[i]) \in Nat
          BY PolicyTypes DEF TypeOK
        <4> QED BY <4>1, SubtreeLayer DEF Ops
      <3>3. \A i \in DOMAIN policy.readOnly : Keeps(i) \in Layers
        <4>1. ASSUME NEW i \in DOMAIN policy.readOnly PROVE i \in Nat
          BY PolicyTypes DEF TypeOK
        <4> QED BY <4>1, SubtreeLayer DEF Ops
      <3>4. \A d \in Fresh : Fresh1(d) \in Layers
        BY SubtreeLayer DEF Ops
      <3>5. \A p \in masked : Masks(p) \in Layers
        BY SubtreeLayer DEF Ops
      <3> QED BY <2>1, <3>1, <3>2, <3>3, <3>4, <3>5
    <2>3. TypeOK'
      BY <1>1, <1>4, <2>2 DEF TypeOK, network
    <2>4. StepInv'
      BY <1>1, <1>2, <1>4 DEF StepInv
    <2>5. GivesInv'
      BY <1>1, <2>1 DEF GivesInv, Layer, Ops
    <2>6. ProtectedInv'
      <3>1. \A i \in DOMAIN policy.readOnly :
              /\ Keeps(i) \in layers'
              /\ Keeps(i).section = 3
              /\ "write" \in Keeps(i).ops
              /\ Keeps(i).on = Subtree(policy.readOnly[i])
        BY <2>1 DEF Layer, Ops
      <3> QED BY <1>1, <3>1 DEF ProtectedInv
    <2>7. MaskedInv'
      <3>1. \A p \in masked :
              /\ Masks(p) \in layers'
              /\ Masks(p).section = 4
              /\ "read" \in Masks(p).ops
              /\ Masks(p).on = Subtree(p)
        BY <2>1 DEF Layer, Ops
      <3>2. ASSUME NEW i \in DOMAIN policy.globs, NEW p \in fs,
                   p \in WalkMatches(resolve_deny_globs(policy)[i], fs)
            PROVE  p \in masked
        <4>1. <<i, p>> \in Found
          BY <3>2 DEF Found
        <4> QED BY <4>1
      <3> QED BY <1>1, <3>1, <3>2 DEF MaskedInv, resolve_deny_globs
    <2>8. DeniedInv'
      BY <1>1, <1>2 DEF DeniedInv, Ready
    <2>9. MarkerInv'
      BY <1>1 DEF MarkerInv
    <2> QED BY <2>3, <2>4, <2>5, <2>6, <2>7, <2>8, <2>9
  <1> QED BY <1>3, <1>4

\* bwrap starts the command or does not.
LEMMA BwrapKeeps ==
  ASSUME IInv, Bwrap
  PROVE  IInv'
  <1> USE DEF Bwrap, IInv
  <1>1. /\ UNCHANGED <<platform, policy, cwd, fs, late, backend, layers, netRule, marker>>
        /\ backend = "bwrap" /\ step = "mount" /\ step' \in {"running", "refused"}
    BY DEF StepInv
  <1>2. TypeOK' /\ StepInv' /\ GivesInv' /\ MarkerInv'
    BY <1>1 DEF TypeOK, StepInv, GivesInv, MarkerInv, network
  <1>3. ProtectedInv' /\ DeniedInv'
    BY <1>1 DEF ProtectedInv, DeniedInv, Ready
  <1>4. MaskedInv'
    BY <1>1 DEF MaskedInv, Ready, resolve_deny_globs
  <1> QED BY <1>2, <1>3, <1>4

\* A new file is late for a mount; rules of the other kind know its path.
LEMMA AppearKeeps ==
  ASSUME IInv, NEW q \in Tree, Appear(q)
  PROVE  IInv'
  <1> USE DEF Appear, IInv
  <1>1. /\ UNCHANGED <<platform, policy, cwd, step, backend, layers, netRule, marker>>
        /\ fs' = fs \cup {q} /\ late \subseteq late'
    OBVIOUS
  <1>2. TypeOK' /\ StepInv' /\ GivesInv' /\ MarkerInv'
    BY <1>1 DEF TypeOK, StepInv, GivesInv, MarkerInv, network, Expressible
  <1>3. ProtectedInv' /\ DeniedInv'
    BY <1>1 DEF ProtectedInv, DeniedInv, Ready, resolve_deny_globs
  <1>4. MaskedInv'
    <2>1. Ready("bwrap") => q \in late'
      BY DEF Bound, Ready
    <2>2. \A g : \A p \in fs : p \in WalkMatches(g, fs') => p \in WalkMatches(g, fs)
      BY DEF WalkMatches
    <2> QED BY <1>1, <2>1, <2>2 DEF MaskedInv, Ready, resolve_deny_globs
  <1> QED BY <1>2, <1>3, <1>4

\* A replaced file takes with it only the mounts that were on it alone.
LEMMA ReplaceKeeps ==
  ASSUME IInv, NEW q \in Tree, Replace(q)
  PROVE  IInv'
  <1> USE DEF Replace, IInv
  <1>1. /\ UNCHANGED <<platform, policy, cwd, fs, step, backend, netRule, marker>>
        /\ late' = late \cup {q} /\ q \in fs /\ step = "running"
        /\ layers' = {l \in layers : l.on # {q}}
    OBVIOUS
  <1>2. backend \in {"landlock", "bwrap"}
    BY DEF Bound
  <1>3. TypeOK' /\ StepInv' /\ GivesInv' /\ MarkerInv'
    BY <1>1 DEF TypeOK, StepInv, GivesInv, MarkerInv, network, Expressible
  <1>4. ProtectedInv'
    <2>1. \A i \in DOMAIN policy.readOnly :
            Subtree(policy.readOnly[i]) = {q} => policy.readOnly[i] \in late'
      BY <1>1, OnlyFile, PolicyTypes DEF TypeOK
    <2> QED BY <1>1, <2>1 DEF ProtectedInv, Ready
  <1>5. MaskedInv'
    <2>1. \A p \in fs : Subtree(p) = {q} => p \in late'
      BY <1>1, OnlyFile DEF TypeOK
    <2> QED BY <1>1, <2>1 DEF MaskedInv, Ready, resolve_deny_globs
  <1>6. DeniedInv'
    BY <1>1, <1>2 DEF DeniedInv, Ready
  <1> QED BY <1>3, <1>4, <1>5, <1>6

\* Every step keeps the invariant.
LEMMA StepIInv == IInv /\ [Next]_vars => IInv'
  <1> SUFFICES ASSUME IInv, [Next]_vars PROVE IInv'
    OBVIOUS
  <1>1. CASE passthrough \/ from_policy \/ for_proxied
    BY <1>1, DispatchKeeps
  <1>2. CASE transform_seatbelt
    BY <1>2, SeatbeltKeeps
  <1>3. CASE install_landlock
    BY <1>3, LandlockKeeps
  <1>4. CASE expand_deny_read_masks
    BY <1>4, ExpandKeeps
  <1>5. CASE Bwrap
    BY <1>5, BwrapKeeps
  <1>6. ASSUME NEW p \in Tree, Appear(p) PROVE IInv'
    BY <1>6, AppearKeeps
  <1>7. ASSUME NEW p \in Tree, Replace(p) PROVE IInv'
    BY <1>7, ReplaceKeeps
  <1>8. CASE UNCHANGED vars
    BY <1>8
    DEF vars, IInv, TypeOK, StepInv, GivesInv, ProtectedInv, MaskedInv, DeniedInv,
        MarkerInv, Ready, network, Expressible, resolve_deny_globs
  <1> QED BY <1>1, <1>2, <1>3, <1>4, <1>5, <1>6, <1>7, <1>8 DEF Next

LEMMA Invariance == Spec => []IInv
  BY InitIInv, StepIInv, PTL DEF Spec

-----------------------------------------------------------------------------
(* The masks.                                                              *)

MaskSet == {l \in layers : backend = "bwrap" /\ l.section = 4}

\* Finitely many files exist, and what is masked stays within the cap.
CapInv ==
  /\ IsFiniteSet(fs)
  /\ IsFiniteSet(MaskSet)
  /\ Cardinality(MaskSet) <= MAX_DENY_READ_GLOB_MATCHES

\* A step that hides nothing more keeps within the cap.
LEMMA FewerMasks ==
  ASSUME CapInv, IsFiniteSet(fs)', MaskSet' \subseteq MaskSet
  PROVE  CapInv'
  <1>1. /\ IsFiniteSet(MaskSet')
        /\ Cardinality(MaskSet') <= Cardinality(MaskSet)
        /\ Cardinality(MaskSet) \in Nat /\ Cardinality(MaskSet') \in Nat
    BY FS_Subset, FS_CardinalityType DEF CapInv
  <1>2. MAX_DENY_READ_GLOB_MATCHES \in Nat
    BY FsAssumption
  <1>3. Cardinality(MaskSet') <= MAX_DENY_READ_GLOB_MATCHES
    BY <1>1, <1>2 DEF CapInv
  <1> QED BY <1>1, <1>3 DEF CapInv

\* One mask for each match at most, and the matches were counted.
LEMMA ExpandWithinCap ==
  ASSUME IInv, CapInv, expand_deny_read_masks
  PROVE  CapInv'
  <1> USE DEF expand_deny_read_masks
  <1>1. UNCHANGED <<platform, policy, cwd, fs, backend>> /\ IsFiniteSet(fs)'
    BY DEF CapInv
  <1>2. CASE UNCHANGED layers
    <2>1. MaskSet' = MaskSet
      BY <1>1, <1>2 DEF MaskSet
    <2> QED BY <1>1, <2>1, FewerMasks
  <1>3. CASE ~TooMany /\ layers' = build_bwrap_argv({f[2] : f \in Found})
    <2> DEFINE Mask(f) == Layer(4, 0, 0, Subtree(f[2]), Ops, {})
    <2>1. IsFiniteSet(Found)
      <3>1. IsFiniteSet(DOMAIN policy.globs) /\ IsFiniteSet(fs)
        BY FsAssumption DEF IInv, TypeOK, CapInv
      <3>2. IsFiniteSet((DOMAIN policy.globs) \X fs)
        BY <3>1, FS_Product
      <3>3. Found \subseteq (DOMAIN policy.globs) \X fs
        BY DEF Found
      <3> QED BY <3>2, <3>3, FS_Subset
    <2>2. MaskSet' \subseteq {Mask(f) : f \in Found}
      BY <1>3 DEF MaskSet, build_bwrap_argv, Layer
    <2>3. /\ IsFiniteSet({Mask(f) : f \in Found})
          /\ Cardinality({Mask(f) : f \in Found}) <= Cardinality(Found)
      <3> DEFINE T == {Mask(f) : f \in Found}
                 M == [f \in Found |-> Mask(f)]
      <3>1. M \in Surjection(Found, T)
        <4>1. M \in [Found -> T] /\ \A t \in T : \E f \in Found : M[f] = t
          OBVIOUS
        <4> QED BY <4>1 DEF Surjection
      <3> HIDE DEF T, M
      <3>2. IsFiniteSet(T) /\ Cardinality(T) <= Cardinality(Found)
        BY <2>1, <3>1, FS_Surjection
      <3> QED BY <3>2 DEF T
    <2>4. /\ IsFiniteSet(MaskSet')
          /\ Cardinality(MaskSet') <= Cardinality({Mask(f) : f \in Found})
      BY <2>2, <2>3, FS_Subset
    <2>5. Cardinality(Found) <= MAX_DENY_READ_GLOB_MATCHES
      <3>1. Cardinality(Found) \in Nat /\ MAX_DENY_READ_GLOB_MATCHES \in Nat
        BY <2>1, FS_CardinalityType, FsAssumption
      <3> QED BY <1>3, <3>1 DEF TooMany
    <2>6. Cardinality(MaskSet') <= MAX_DENY_READ_GLOB_MATCHES
      <3> DEFINE a == Cardinality(MaskSet')
                 b == Cardinality({Mask(f) : f \in Found})
                 c == Cardinality(Found)
      <3>1. a \in Nat /\ b \in Nat /\ c \in Nat /\ MAX_DENY_READ_GLOB_MATCHES \in Nat
        BY <2>1, <2>3, <2>4, FS_CardinalityType, FsAssumption
      <3>2. a <= b /\ b <= c /\ c <= MAX_DENY_READ_GLOB_MATCHES
        BY <2>3, <2>4, <2>5
      <3> HIDE DEF a, b, c
      <3>3. a <= MAX_DENY_READ_GLOB_MATCHES
        BY <3>1, <3>2
      <3> QED BY <3>3 DEF a
    <2> QED BY <1>1, <2>4, <2>6 DEF CapInv
  <1> QED BY <1>2, <1>3

LEMMA StepCapInv == IInv /\ CapInv /\ [Next]_vars => CapInv'
  <1> SUFFICES ASSUME IInv, CapInv, [Next]_vars PROVE CapInv'
    OBVIOUS
  <1>1. CASE passthrough \/ from_policy \/ for_proxied
    <2>1. UNCHANGED <<fs, layers>> /\ layers = {}
      BY <1>1 DEF passthrough, from_policy, for_proxied, OnLinux, IInv, StepInv
    <2>2. MaskSet' \subseteq MaskSet /\ IsFiniteSet(fs)'
      BY <2>1 DEF MaskSet, CapInv
    <2> QED BY <2>2, FewerMasks
  <1>2. CASE transform_seatbelt
    <2>1. MaskSet' \subseteq MaskSet /\ IsFiniteSet(fs)'
      BY <1>2 DEF MaskSet, CapInv, transform_seatbelt
    <2> QED BY <2>1, FewerMasks
  <1>3. CASE install_landlock
    <2>1. MaskSet' \subseteq MaskSet /\ IsFiniteSet(fs)'
      BY <1>3 DEF MaskSet, CapInv, install_landlock, IInv, StepInv
    <2> QED BY <2>1, FewerMasks
  <1>4. CASE expand_deny_read_masks
    BY <1>4, ExpandWithinCap
  <1>5. CASE Bwrap
    <2>1. MaskSet' \subseteq MaskSet /\ IsFiniteSet(fs)'
      BY <1>5 DEF MaskSet, CapInv, Bwrap
    <2> QED BY <2>1, FewerMasks
  <1>6. ASSUME NEW p \in Tree, Appear(p) PROVE CapInv'
    <2>1. IsFiniteSet(fs \cup {p})
      BY FS_AddElement DEF CapInv
    <2>2. MaskSet' \subseteq MaskSet /\ IsFiniteSet(fs)'
      BY <1>6, <2>1 DEF MaskSet, Appear
    <2> QED BY <2>2, FewerMasks
  <1>7. ASSUME NEW p \in Tree, Replace(p) PROVE CapInv'
    <2>1. MaskSet' \subseteq MaskSet /\ IsFiniteSet(fs)'
      BY <1>7 DEF MaskSet, CapInv, Replace
    <2> QED BY <2>1, FewerMasks
  <1>8. CASE UNCHANGED vars
    BY <1>8 DEF vars, CapInv, MaskSet
  <1> QED BY <1>1, <1>2, <1>3, <1>4, <1>5, <1>6, <1>7, <1>8 DEF Next

LEMMA CapInvariance == Spec => []CapInv
  <1>1. Init => CapInv
    <2> SUFFICES ASSUME Init PROVE CapInv
      OBVIOUS
    <2>1. MaskSet = {} /\ IsFiniteSet(fs)
      BY FsAssumption DEF Init, MaskSet
    <2>2. IsFiniteSet(MaskSet) /\ Cardinality(MaskSet) = 0
      BY <2>1, FS_EmptySet
    <2> QED BY <2>1, <2>2, FsAssumption DEF CapInv
  <1> QED BY <1>1, StepCapInv, Invariance, PTL DEF Spec

-----------------------------------------------------------------------------
(* The writable roots.                                                     *)

\* Every directory of what exists exists.
ClosedInv == \A p \in fs : \A k \in 0..Len(p) : SubSeq(p, 1, k) \in fs

RootLayer(l, i) ==
  /\ l.section = 2 /\ l.pos = i
  /\ l.depth \in {0, Len(policy.roots[i])}
  /\ l.on = Subtree(policy.roots[i])
  /\ "write" \in l.ops /\ "write" \in l.gives

\* Section 2 is the writable roots, section 3 the read-only subpaths.
SectionsInv ==
  \A l \in layers :
    /\ l.section = 2 => \E i \in DOMAIN policy.roots : RootLayer(l, i)
    /\ l.section = 3 => \E i \in DOMAIN policy.readOnly : l.on = Subtree(policy.readOnly[i])

\* A writable root has its layer, unless it was not there when the rules were
\* made or was replaced since.
RootsInv ==
  Ready("landlock") \/ Ready("bwrap") \/ Ready("seatbelt") =>
    \A i \in DOMAIN policy.roots :
      \/ policy.roots[i] \in late
      \/ backend = "landlock" /\ policy.roots[i] \notin fs
      \/ \E l \in layers : RootLayer(l, i)

GrantInv == ClosedInv /\ SectionsInv /\ RootsInv

\* A directory of a path is one of its prefixes.
LEMMA UnderIsPrefix ==
  ASSUME NEW p \in Tree, NEW r \in Tree, Under(p, r)
  PROVE  /\ Len(r) \in 0..Len(p) /\ Len(p) \in Nat /\ Len(r) \in Nat
         /\ r = SubSeq(p, 1, Len(r))
  <1>1. p \in Seq(STRING) /\ r \in Seq(STRING)
    BY FsAssumption
  <1>2. Len(p) \in Nat /\ Len(r) \in Nat /\ Len(r) <= Len(p)
    BY <1>1 DEF Under, IsPrefix
  <1>3. SubSeq(r, 1, Len(r)) = SubSeq(p, 1, Len(r))
    BY DEF Under, IsPrefix
  <1>4. SubSeq(r, 1, Len(r)) = r
    BY <1>1
  <1> QED BY <1>2, <1>3, <1>4

\* A new file is made in a directory that is there.
LEMMA AppearClosed ==
  ASSUME IInv, ClosedInv, NEW q \in Tree, Appear(q)
  PROVE  ClosedInv'
  <1>1. q \in Seq(STRING) /\ q \notin fs /\ Front(q) \in fs /\ fs' = fs \cup {q}
    BY FsAssumption DEF Appear
  <1>2. PICK m \in Nat : m = Len(q)
    BY <1>1
  <1>3. ASSUME NEW k \in 0..m PROVE SubSeq(q, 1, k) \in fs'
    <2>1. CASE k = m
      <3>1. SubSeq(q, 1, m) = q
        BY <1>1, <1>2
      <3> QED BY <1>1, <2>1, <3>1
    <2>2. CASE k < m
      <3>1. /\ Front(q) = SubSeq(q, 1, m - 1)
            /\ SubSeq(q, 1, m - 1) \in Seq(STRING)
            /\ Len(SubSeq(q, 1, m - 1)) = m - 1
        BY <1>1, <1>2, <2>2 DEF Front
      <3>2. SubSeq(SubSeq(q, 1, m - 1), 1, k) = SubSeq(q, 1, k)
        BY <1>1, <1>2, <2>2
      <3>3. k \in 0..Len(Front(q))
        BY <2>2, <3>1
      <3> QED BY <1>1, <3>1, <3>2, <3>3 DEF ClosedInv
    <2> QED BY <2>1, <2>2
  <1> QED BY <1>1, <1>2, <1>3 DEF ClosedInv

\* What a root's layer is does not change.
LEMMA RootLayerStable ==
  ASSUME policy' = policy, NEW l, NEW i
  PROVE  RootLayer(l, i)' <=> RootLayer(l, i)
  BY DEF RootLayer

\* The profile has a rule for each root.
LEMMA SeatbeltGrants ==
  ASSUME IInv, GrantInv, transform_seatbelt
  PROVE  GrantInv'
  <1> USE DEF transform_seatbelt
  <1> DEFINE Roots(i) == Layer(2, 0, i, Subtree(policy.roots[i]), {"write"}, {"write"})
             Keeps(i) == Layer(3, 0, i, Subtree(policy.readOnly[i]), {"write"}, {})
  <1>1. UNCHANGED <<policy, fs, late>>
    OBVIOUS
  <1>2. \A l \in layers' :
          \/ l.section \notin {2, 3}
          \/ \E i \in DOMAIN policy.roots : l = Roots(i)
          \/ \E i \in DOMAIN policy.readOnly : l = Keeps(i)
    BY DEF build_policy, Layer
  <1>3. \A i \in DOMAIN policy.roots : Roots(i) \in layers' /\ RootLayer(Roots(i), i)
    BY <1>1 DEF build_policy, RootLayer, Layer
  <1>4. \A i \in DOMAIN policy.readOnly :
          Keeps(i).section = 3 /\ Keeps(i).on = Subtree(policy.readOnly[i])
    BY DEF Layer
  <1>5. \A i \in DOMAIN policy.roots : Roots(i).section = 2
    BY DEF Layer
  <1> HIDE DEF Roots, Keeps
  <1>6. SectionsInv'
    BY <1>1, <1>2, <1>3, <1>4, <1>5, RootLayerStable DEF SectionsInv
  <1>7. RootsInv'
    BY <1>1, <1>3, RootLayerStable DEF RootsInv
  <1> QED BY <1>1, <1>6, <1>7 DEF GrantInv, ClosedInv

\* Landlock has a rule for each root that is there.
LEMMA LandlockGrants ==
  ASSUME IInv, GrantInv, install_landlock
  PROVE  GrantInv'
  <1> USE DEF install_landlock
  <1> DEFINE Roots(i) == Layer(2, 0, i, Subtree(policy.roots[i]), Ops, Ops)
  <1>1. UNCHANGED <<policy, fs, late, backend>> /\ backend = "landlock"
    BY DEF IInv, StepInv
  <1>2. \A l \in layers' :
          \/ l.section \notin {2, 3}
          \/ \E i \in DOMAIN policy.roots : l = Roots(i)
    BY DEF Layer
  <1>3. \A i \in DOMAIN policy.roots : Roots(i).section = 2 /\ RootLayer(Roots(i), i)
    BY <1>1 DEF RootLayer, Layer, Ops
  <1>4. \A i \in DOMAIN policy.roots : policy.roots[i] \in fs => Roots(i) \in layers'
    OBVIOUS
  <1> HIDE DEF Roots
  <1>5. SectionsInv'
    BY <1>1, <1>2, <1>3, RootLayerStable DEF SectionsInv
  <1>6. RootsInv'
    BY <1>1, <1>3, <1>4, RootLayerStable DEF RootsInv
  <1> QED BY <1>1, <1>5, <1>6 DEF GrantInv, ClosedInv

\* bwrap is told to mount each root.
LEMMA ExpandGrants ==
  ASSUME IInv, GrantInv, expand_deny_read_masks
  PROVE  GrantInv'
  <1> USE DEF expand_deny_read_masks
  <1> DEFINE Roots(i) == Layer(2, Len(policy.roots[i]), i, Subtree(policy.roots[i]), Ops, Ops)
             Keeps(i) == Layer(3, 0, i, Subtree(policy.readOnly[i]), Ops, {"read"})
  <1>1. UNCHANGED <<policy, fs, late, backend>> /\ backend = "bwrap"
    BY DEF IInv, StepInv
  <1>2. CASE step' = "refused" /\ UNCHANGED layers
    <2>1. SectionsInv'
      BY <1>1, <1>2 DEF GrantInv, SectionsInv, RootLayer
    <2>2. RootsInv'
      BY <1>1, <1>2 DEF RootsInv, Ready
    <2> QED BY <1>1, <2>1, <2>2 DEF GrantInv, ClosedInv
  <1>3. CASE layers' = build_bwrap_argv({f[2] : f \in Found})
    <2>1. \A l \in layers' :
            \/ l.section \notin {2, 3}
            \/ \E i \in DOMAIN policy.roots : l = Roots(i)
            \/ \E i \in DOMAIN policy.readOnly : l = Keeps(i)
      BY <1>3 DEF build_bwrap_argv, Layer
    <2>2. \A i \in DOMAIN policy.roots :
            Roots(i) \in layers' /\ Roots(i).section = 2 /\ RootLayer(Roots(i), i)
      BY <1>1, <1>3 DEF build_bwrap_argv, RootLayer, Layer, Ops
    <2>3. \A i \in DOMAIN policy.readOnly :
            Keeps(i).section = 3 /\ Keeps(i).on = Subtree(policy.readOnly[i])
      BY DEF Layer
    <2> HIDE DEF Roots, Keeps
    <2>4. SectionsInv'
      BY <1>1, <2>1, <2>2, <2>3, RootLayerStable DEF SectionsInv
    <2>5. RootsInv'
      BY <1>1, <2>2, RootLayerStable DEF RootsInv
    <2> QED BY <1>1, <2>4, <2>5 DEF GrantInv, ClosedInv
  <1> QED BY <1>2, <1>3

\* A root that appears is late; a layer goes only with the one file it is on.
LEMMA HostGrants ==
  ASSUME IInv, GrantInv, NEW q \in Tree, Appear(q) \/ Replace(q)
  PROVE  GrantInv'
  <1>1. UNCHANGED <<policy, step, backend>> /\ late \subseteq late' /\ layers' \subseteq layers
    BY DEF Appear, Replace
  <1>2. SectionsInv'
    BY <1>1 DEF GrantInv, SectionsInv, RootLayer
  <1>3. CASE Appear(q)
    <2>1. /\ fs' = fs \cup {q} /\ layers' = layers
          /\ Ready("landlock") => q \in late'
      BY <1>3 DEF Appear, Bound, Ready
    <2>2. RootsInv'
      BY <1>1, <2>1 DEF GrantInv, RootsInv, RootLayer, Ready
    <2> QED BY <1>2, <1>3, <2>2, AppearClosed DEF GrantInv
  <1>4. CASE Replace(q)
    <2>1. /\ fs' = fs /\ q \in late'
          /\ \A l \in layers : l.on # {q} => l \in layers'
      BY <1>4 DEF Replace
    <2>2. ASSUME NEW i \in DOMAIN policy.roots, Subtree(policy.roots[i]) = {q}
          PROVE  policy.roots[i] \in late'
      BY <2>1, <2>2, OnlyFile, PolicyTypes DEF IInv, TypeOK
    <2>3. RootsInv'
      BY <1>1, <2>1, <2>2 DEF GrantInv, RootsInv, RootLayer, Ready
    <2> QED BY <1>2, <2>1, <2>3 DEF GrantInv, ClosedInv
  <1> QED BY <1>3, <1>4

LEMMA StepGrantInv == IInv /\ GrantInv /\ [Next]_vars => GrantInv'
  <1> SUFFICES ASSUME IInv, GrantInv, [Next]_vars PROVE GrantInv'
    OBVIOUS
  <1>1. CASE passthrough \/ from_policy \/ for_proxied
    <2>1. UNCHANGED <<policy, fs, late, layers>> /\ layers = {} /\ step = "transform"
      BY <1>1 DEF passthrough, from_policy, for_proxied, OnLinux, IInv, StepInv
    <2>2. ~Ready("landlock")' /\ ~Ready("bwrap")' /\ ~Ready("seatbelt")'
      BY <1>1 DEF passthrough, from_policy, for_proxied, Ready
    <2> QED BY <2>1, <2>2 DEF GrantInv, ClosedInv, SectionsInv, RootsInv
  <1>2. CASE transform_seatbelt
    BY <1>2, SeatbeltGrants
  <1>3. CASE install_landlock
    BY <1>3, LandlockGrants
  <1>4. CASE expand_deny_read_masks
    BY <1>4, ExpandGrants
  <1>5. CASE Bwrap
    <2>1. /\ UNCHANGED <<policy, fs, late, backend, layers>>
          /\ backend = "bwrap" /\ Ready("bwrap")
      BY <1>5 DEF Bwrap, IInv, StepInv, Ready
    <2> QED BY <2>1 DEF GrantInv, ClosedInv, SectionsInv, RootsInv, RootLayer
  <1>6. ASSUME NEW q \in Tree, Appear(q) \/ Replace(q) PROVE GrantInv'
    BY <1>6, HostGrants
  <1>7. CASE UNCHANGED vars
    BY <1>7 DEF vars, GrantInv, ClosedInv, SectionsInv, RootsInv, RootLayer, Ready
  <1> QED BY <1>1, <1>2, <1>3, <1>4, <1>5, <1>6, <1>7 DEF Next

LEMMA GrantInvariance == Spec => []GrantInv
  <1>1. Init => GrantInv
    BY FsAssumption DEF Init, GrantInv, ClosedInv, SectionsInv, RootsInv, Ready
  <1> QED BY <1>1, StepGrantInv, Invariance, PTL DEF Spec

-----------------------------------------------------------------------------
(* The last layer.                                                         *)

\* Among bounded pairs of depth and position there is a last one.
LEMMA LastPair ==
  ASSUME NEW S, S # {}, NEW b \in Nat,
         \A l \in S : l.depth \in 0..b /\ l.pos \in 0..b
  PROVE  \E l \in S : \A k \in S :
           l.depth > k.depth \/ (l.depth = k.depth /\ l.pos >= k.pos)
  <1> DEFINE D == {l.depth : l \in S}
  <1>1. D \subseteq Nat /\ D # {} /\ \A x \in D : x <= b
    OBVIOUS
  <1>2. PICK d \in D : \A x \in D : x <= d
    BY <1>1, GreatestElement
  <1> DEFINE P == {l.pos : l \in {k \in S : k.depth = d}}
  <1>3. P \subseteq Nat /\ P # {} /\ \A x \in P : x <= b
    OBVIOUS
  <1> HIDE DEF P
  <1>4. PICK m \in P : \A x \in P : x <= m
    BY <1>3, GreatestElement
  <1>5. PICK l \in S : l.depth = d /\ l.pos = m
    BY DEF P
  <1>6. ASSUME NEW k \in S
        PROVE  l.depth > k.depth \/ (l.depth = k.depth /\ l.pos >= k.pos)
    <2>1. k.depth \in D
      OBVIOUS
    <2>2. k.depth \in Nat /\ k.depth <= d /\ d \in Nat
      BY <1>1, <1>2, <2>1
    <2>3. CASE k.depth < d
      <3>1. d > k.depth
        BY <2>2, <2>3
      <3> QED BY <1>5, <3>1
    <2>4. CASE k.depth = d
      <3>1. k.pos \in P
        BY <2>4 DEF P
      <3>2. k.pos \in Nat /\ m \in Nat /\ k.pos <= m
        BY <1>3, <1>4, <3>1
      <3> QED BY <1>5, <2>4, <3>2
    <2> QED BY <2>2, <2>3, <2>4
  <1> QED BY <1>6

-----------------------------------------------------------------------------
(* What the matchers compute.                                              *)

\* One step of GlobMatch's recursion over the components, and the recursion.
Matched(g, p, crossing, from, i) ==
  CASE i > Len(g) -> {Len(p) + 1}
    [] i = Len(g) /\ g[i].is = "any" -> 1..Len(p)
    [] i < Len(g) /\ g[i].is = "any" ->
         {j \in 1..Len(p) + 1 : \E k \in from[i + 1] : j <= k}
    [] i <= Len(g) /\ g[i].is = "star" /\ crossing ->
         {j \in 1..Len(p) :
            \E k \in j..Len(p) : p[k] \in Of(g[i]) /\ k + 1 \in from[i + 1]}
    [] OTHER -> {j \in 1..Len(p) : p[j] \in Of(g[i]) /\ j + 1 \in from[i + 1]}

GlobFrom(g, p, crossing) ==
  CHOOSE from : from = [i \in 1..Len(g) + 1 |-> Matched(g, p, crossing, from, i)]

\* The same for the regular expression.
RegexMatched(g, p, from, i) ==
  CASE i > Len(g) -> {Len(p) + 1}
    [] i = Len(g) /\ g[i].is = "any" -> 1..Len(p)
    [] i < Len(g) /\ g[i].is = "any" ->
         {j \in 1..Len(p) :
            \E k \in j..Len(p) :
              p[k] \in EndsLike(g[i + 1]) /\ k + 1 \in from[i + 2]}
    [] OTHER -> {j \in 1..Len(p) : p[j] \in Spelled(g[i]) /\ j + 1 \in from[i + 1]}

RegexFrom(g, p) ==
  CHOOSE from : from = [i \in 1..Len(g) + 1 |-> RegexMatched(g, p, from, i)]

\* The recursions are well founded, so the matchers satisfy their equations.
LEMMA GlobFromIs ==
  ASSUME NEW g, NEW p, NEW crossing \in BOOLEAN, Len(g) \in Nat, Len(p) \in Nat
  PROVE  /\ GlobMatch(g, p, crossing) <=> 1 \in GlobFrom(g, p, crossing)[1]
         /\ \A i \in 1..Len(g) + 1 :
              /\ GlobFrom(g, p, crossing)[i] \subseteq 1..Len(p) + 1
              /\ GlobFrom(g, p, crossing)[i]
                   = Matched(g, p, crossing, GlobFrom(g, p, crossing), i)
  <1>1. GlobMatch(g, p, crossing) <=> 1 \in GlobFrom(g, p, crossing)[1]
    BY Zenon DEF GlobMatch, GlobFrom, Matched
  <1>2. PICK n \in Nat : n = Len(g) + 1
    OBVIOUS
  <1> DEFINE V == SUBSET (1..Len(p) + 1)
             Step(f) == [i \in 1..n |-> Matched(g, p, crossing, f, i)]
             F == [f \in Values(n, V) |-> Step(f)]
  <1>3. ASSUME NEW f, NEW i \in 1..n
        PROVE  Matched(g, p, crossing, f, i) \in V
    <2>1. 1..Len(p) \in V /\ {Len(p) + 1} \in V
      OBVIOUS
    <2>2. CASE i > Len(g)
      BY <2>1, <2>2 DEF Matched
    <2>3. CASE i <= Len(g) /\ g[i].is = "any"
      BY <1>2, <2>1, <2>3 DEF Matched
    <2>4. CASE i <= Len(g) /\ g[i].is # "any"
      <3>1. i \in Nat /\ ~(i > Len(g))
        BY <2>4
      <3>2. CASE g[i].is = "star" /\ crossing
        BY <2>4, <3>1, <3>2 DEF Matched
      <3>3. CASE ~(g[i].is = "star" /\ crossing)
        BY <2>4, <3>1, <3>3 DEF Matched
      <3> QED BY <3>2, <3>3
    <2> QED BY <1>2, <2>2, <2>3, <2>4
  <1>4. F \in [Values(n, V) -> Values(n, V)]
    BY <1>3 DEF Values
  <1>5. ASSUME NEW f \in Values(n, V), NEW h \in Values(n, V), NEW i \in 1..n,
               \A k \in 1..n : k > i => f[k] = h[k]
        PROVE  F[f][i] = F[h][i]
    <2>1. F[f][i] = Matched(g, p, crossing, f, i) /\ F[h][i] = Matched(g, p, crossing, h, i)
      OBVIOUS
    <2>2. CASE i > Len(g)
      BY <2>1, <2>2 DEF Matched
    <2>3. CASE i <= Len(g)
      <3>1. f[i + 1] = h[i + 1]
        <4>1. i + 1 \in 1..n /\ i + 1 > i
          BY <1>2, <2>3
        <4> QED BY <1>5, <4>1
      <3> QED BY <2>1, <3>1 DEF Matched
    <2> QED BY <1>2, <2>2, <2>3
  <1>6. V # {}
    OBVIOUS
  <1> HIDE DEF V
  <1>7. PICK f \in Values(n, V) : F[f] = f
    <2> HIDE DEF F
    <2>1. FromLater(F, n, V)
      BY <1>5 DEF FromLater
    <2>2. \E f \in Values(n, V) : F[f] = f
      BY <1>4, <1>6, <2>1, Recursion
    <2> QED BY <2>2
  <1>8. f = [i \in 1..Len(g) + 1 |-> Matched(g, p, crossing, f, i)]
    BY <1>2, <1>7
  <1>9. GlobFrom(g, p, crossing)
          = [i \in 1..Len(g) + 1 |-> Matched(g, p, crossing, GlobFrom(g, p, crossing), i)]
    BY <1>8 DEF GlobFrom
  <1> DEFINE G == GlobFrom(g, p, crossing)
  <1> HIDE DEF G
  <1>10. \A i \in 1..n : G[i] = Matched(g, p, crossing, G, i)
    BY <1>2, <1>9 DEF G
  <1>11. \A i \in 1..n : Matched(g, p, crossing, G, i) \subseteq 1..Len(p) + 1
    BY <1>3 DEF V
  <1> QED BY <1>1, <1>2, <1>10, <1>11 DEF G

LEMMA RegexFromIs ==
  ASSUME NEW g, NEW p, Len(g) \in Nat, Len(p) \in Nat
  PROVE  /\ glob_body_to_regex(g, p) <=> 1 \in RegexFrom(g, p)[1]
         /\ \A i \in 1..Len(g) + 1 :
              RegexFrom(g, p)[i] = RegexMatched(g, p, RegexFrom(g, p), i)
  <1>1. glob_body_to_regex(g, p) <=> 1 \in RegexFrom(g, p)[1]
    BY Zenon DEF glob_body_to_regex, RegexFrom, RegexMatched
  <1>2. PICK n \in Nat : n = Len(g) + 1
    OBVIOUS
  <1> DEFINE V == SUBSET (1..Len(p) + 1)
             Step(f) == [i \in 1..n |-> RegexMatched(g, p, f, i)]
             F == [f \in Values(n, V) |-> Step(f)]
  <1>3. ASSUME NEW f, NEW i \in 1..n
        PROVE  RegexMatched(g, p, f, i) \in V
    <2>1. 1..Len(p) \in V /\ {Len(p) + 1} \in V /\ {} \in V
      OBVIOUS
    <2>2. CASE i > Len(g)
      BY <2>1, <2>2 DEF RegexMatched
    <2>3. CASE i <= Len(g) /\ g[i].is = "any"
      <3>1. CASE i = Len(g)
        BY <1>2, <2>1, <2>3, <3>1 DEF RegexMatched
      <3>2. CASE i < Len(g)
        BY <1>2, <2>1, <2>3, <3>2 DEF RegexMatched
      <3> QED BY <1>2, <2>3, <3>1, <3>2
    <2>4. CASE i <= Len(g) /\ g[i].is # "any"
      <3>1. ~(i > Len(g))
        BY <1>2, <2>4
      <3> QED BY <2>4, <3>1 DEF RegexMatched
    <2> QED BY <1>2, <2>2, <2>3, <2>4
  <1>4. F \in [Values(n, V) -> Values(n, V)]
    BY <1>3 DEF Values
  <1>5. ASSUME NEW f \in Values(n, V), NEW h \in Values(n, V), NEW i \in 1..n,
               \A k \in 1..n : k > i => f[k] = h[k]
        PROVE  F[f][i] = F[h][i]
    <2>1. /\ F[f][i] = RegexMatched(g, p, f, i)
          /\ F[h][i] = RegexMatched(g, p, h, i)
      OBVIOUS
    <2>2. CASE i > Len(g)
      BY <2>1, <2>2 DEF RegexMatched
    <2>3. CASE i = Len(g)
      <3>1. f[i + 1] = h[i + 1] /\ ~(i < Len(g))
        <4>1. i + 1 \in 1..n /\ i + 1 > i /\ ~(i < Len(g))
          BY <1>2, <2>3
        <4> QED BY <1>5, <4>1
      <3> QED BY <2>1, <3>1 DEF RegexMatched
    <2>4. CASE i < Len(g)
      <3>1. f[i + 1] = h[i + 1] /\ f[i + 2] = h[i + 2]
        <4>1. i + 1 \in 1..n /\ i + 1 > i /\ i + 2 \in 1..n /\ i + 2 > i
          BY <1>2, <2>4
        <4> QED BY <1>5, <4>1
      <3> QED BY <2>1, <3>1 DEF RegexMatched
    <2> QED BY <1>2, <2>2, <2>3, <2>4
  <1>6. V # {}
    OBVIOUS
  <1> HIDE DEF V
  <1>7. PICK f \in Values(n, V) : F[f] = f
    <2> HIDE DEF F
    <2>1. FromLater(F, n, V)
      BY <1>5 DEF FromLater
    <2>2. \E f \in Values(n, V) : F[f] = f
      BY <1>4, <1>6, <2>1, Recursion
    <2> QED BY <2>2
  <1>8. f = [i \in 1..Len(g) + 1 |-> RegexMatched(g, p, f, i)]
    BY <1>2, <1>7
  <1>9. RegexFrom(g, p) = [i \in 1..Len(g) + 1 |-> RegexMatched(g, p, RegexFrom(g, p), i)]
    BY <1>8 DEF RegexFrom
  <1> DEFINE G == RegexFrom(g, p)
  <1> HIDE DEF G
  <1>10. \A i \in 1..n : G[i] = RegexMatched(g, p, G, i)
    BY <1>2, <1>9 DEF G
  <1> QED BY <1>1, <1>2, <1>10 DEF G

-----------------------------------------------------------------------------
(* What a glob means both backends match, read as it is meant.             *)

\* The regular expression of g reads every component of m at least as widely.
Understood(m, g) ==
  \A i \in 1..Len(m) :
    /\ m[i].is = "any" => g[i].is = "any"
    /\ m[i].is # "any" =>
         g[i].is # "any" /\ Of(m[i]) \subseteq Spelled(g[i]) /\ Spelled(g[i]) \subseteq DOMAIN Ending
    /\ i < Len(m) /\ m[i].is = "any" => m[i + 1].is # "any"

\* Crossing separators a star only matches more.
LEMMA CrossingMatchesMore ==
  ASSUME NEW g, NEW p, Len(g) \in Nat, Len(p) \in Nat, Denotes(g, p)
  PROVE  is_match(g, p)
  <1>1. PICK n \in Nat : n = Len(g) + 1
    OBVIOUS
  <1> DEFINE A == GlobFrom(g, p, FALSE)
             B == GlobFrom(g, p, TRUE)
             T == {i \in 1..n : ~(A[i] \subseteq B[i])}
  <1>2. /\ 1 \in A[1]
        /\ \A i \in 1..n : A[i] = Matched(g, p, FALSE, A, i)
    BY <1>1, GlobFromIs DEF Denotes
  <1>3. /\ is_match(g, p) <=> 1 \in B[1]
        /\ \A i \in 1..n : B[i] = Matched(g, p, TRUE, B, i)
    BY <1>1, GlobFromIs DEF is_match
  <1> HIDE DEF A, B
  <1>4. ASSUME NEW i \in 1..n, \A k \in 1..n : k > i => A[k] \subseteq B[k]
        PROVE  A[i] \subseteq B[i]
    <2>1. A[i] = Matched(g, p, FALSE, A, i) /\ B[i] = Matched(g, p, TRUE, B, i)
      BY <1>2, <1>3
    <2>2. CASE i > Len(g)
      BY <2>1, <2>2 DEF Matched
    <2>3. CASE i <= Len(g)
      <3>1. A[i + 1] \subseteq B[i + 1] /\ ~(i > Len(g))
        <4>1. i + 1 \in 1..n /\ i + 1 > i /\ ~(i > Len(g))
          BY <1>1, <2>3
        <4> QED BY <1>4, <4>1
      <3>2. CASE g[i].is = "any"
        BY <2>1, <2>3, <3>1, <3>2 DEF Matched
      <3>3. CASE g[i].is = "star"
        <4>1. /\ A[i] = {j \in 1..Len(p) : p[j] \in Of(g[i]) /\ j + 1 \in A[i + 1]}
              /\ B[i] = {j \in 1..Len(p) :
                           \E k \in j..Len(p) : p[k] \in Of(g[i]) /\ k + 1 \in B[i + 1]}
          BY <2>1, <2>3, <3>1, <3>3 DEF Matched
        <4>2. \A j \in 1..Len(p) : j \in j..Len(p)
          OBVIOUS
        <4> QED BY <3>1, <4>1, <4>2
      <3>4. CASE g[i].is \notin {"any", "star"}
        <4>1. /\ A[i] = {j \in 1..Len(p) : p[j] \in Of(g[i]) /\ j + 1 \in A[i + 1]}
              /\ B[i] = {j \in 1..Len(p) : p[j] \in Of(g[i]) /\ j + 1 \in B[i + 1]}
          BY <2>1, <2>3, <3>1, <3>4 DEF Matched
        <4> QED BY <3>1, <4>1
      <3> QED BY <3>2, <3>3, <3>4
    <2> QED BY <1>1, <2>2, <2>3
  <1>5. T = {}
    <2>1. ASSUME T # {} PROVE FALSE
      <3>1. T \subseteq Nat /\ \A x \in T : x <= n
        BY Positions
      <3>2. PICK i \in T : \A x \in T : x <= i
        BY <2>1, <3>1, GreatestElement
      <3>3. \A k \in 1..n : k > i => k \notin T
        BY <3>1, <3>2
      <3> QED BY <1>4, <3>2, <3>3
    <2> QED BY <2>1
  <1>6. 1 \in 1..n
    BY <1>1
  <1> QED BY <1>2, <1>3, <1>5, <1>6

\* A name ends like itself.
LEMMA EndsLikeItself ==
  ASSUME NEW c, Spelled(c) \subseteq DOMAIN Ending
  PROVE  Spelled(c) \subseteq EndsLike(c)
  BY GlobAssumption DEF EndsLike

\* So what m denotes the regular expression of g matches.
LEMMA RegexMatchesMore ==
  ASSUME NEW m, NEW g, NEW p, Len(m) \in Nat, Len(g) = Len(m), Len(p) \in Nat,
         Understood(m, g), Denotes(m, p)
  PROVE  glob_body_to_regex(g, p)
  <1>1. PICK n \in Nat : n = Len(m) + 1 /\ n = Len(g) + 1
    OBVIOUS
  <1> DEFINE A == GlobFrom(m, p, FALSE)
             B == RegexFrom(g, p)
             T == {i \in 1..n : ~(A[i] \subseteq B[i])}
  <1>2. /\ 1 \in A[1]
        /\ \A i \in 1..n : A[i] = Matched(m, p, FALSE, A, i)
    BY <1>1, GlobFromIs DEF Denotes
  <1>3. /\ glob_body_to_regex(g, p) <=> 1 \in B[1]
        /\ \A i \in 1..n : B[i] = RegexMatched(g, p, B, i)
    BY <1>1, RegexFromIs
  <1> HIDE DEF A, B
  <1>4. ASSUME NEW i \in 1..n, \A k \in 1..n : k > i => A[k] \subseteq B[k]
        PROVE  A[i] \subseteq B[i]
    <2>1. A[i] = Matched(m, p, FALSE, A, i) /\ B[i] = RegexMatched(g, p, B, i)
      BY <1>2, <1>3
    <2>2. CASE i > Len(m)
      BY <2>1, <2>2 DEF Matched, RegexMatched
    <2>3. CASE i <= Len(m) /\ m[i].is # "any"
      <3>1. A[i + 1] \subseteq B[i + 1] /\ ~(i > Len(m))
        <4>1. i + 1 \in 1..n /\ i + 1 > i /\ ~(i > Len(m))
          BY <1>1, <2>3
        <4> QED BY <1>4, <4>1
      <3>2. g[i].is # "any" /\ m[i].is # "any" /\ Of(m[i]) \subseteq Spelled(g[i])
        <4>1. i \in 1..Len(m)
          BY <1>1, <2>3
        <4> QED BY <2>3, <4>1 DEF Understood
      <3>3. A[i] = {j \in 1..Len(p) : p[j] \in Of(m[i]) /\ j + 1 \in A[i + 1]}
        BY <2>1, <3>1, <3>2 DEF Matched
      <3>4. B[i] = {j \in 1..Len(p) : p[j] \in Spelled(g[i]) /\ j + 1 \in B[i + 1]}
        BY <2>1, <3>1, <3>2 DEF RegexMatched
      <3> QED BY <3>1, <3>2, <3>3, <3>4
    <2>4. CASE i = Len(m) /\ m[i].is = "any"
      <3>1. ~(i > Len(m)) /\ i <= Len(m) /\ i \in 1..Len(m)
        BY <1>1, <2>4
      <3>2. g[i].is = "any"
        BY <2>4, <3>1 DEF Understood
      <3>3. A[i] = 1..Len(p)
        BY <2>1, <2>4, <3>1 DEF Matched
      <3>4. B[i] = 1..Len(p)
        BY <2>1, <2>4, <3>1, <3>2 DEF RegexMatched
      <3> QED BY <3>3, <3>4
    <2>5. CASE i < Len(m) /\ m[i].is = "any"
      <3>1. /\ i + 1 \in 1..n /\ ~(i + 1 > Len(m)) /\ i + 1 \in 1..Len(m) /\ i \in 1..Len(m)
            /\ i + 2 \in 1..n /\ i + 2 > i /\ i + 1 + 1 = i + 2
            /\ ~(i > Len(m)) /\ i # Len(m) /\ i <= Len(m)
        BY <1>1, <2>5
      <3> DEFINE c == m[i + 1]
                 d == g[i + 1]
      <3>2. c.is # "any" /\ g[i].is = "any"
        BY <2>5, <3>1 DEF Understood
      <3>3. d.is # "any" /\ Of(c) \subseteq Spelled(d) /\ Spelled(d) \subseteq DOMAIN Ending
        BY <3>1, <3>2 DEF Understood
      <3>4. A[i] = {j \in 1..Len(p) + 1 : \E k \in A[i + 1] : j <= k}
        BY <2>1, <2>5, <3>1 DEF Matched
      <3>5. A[i + 1] = {j \in 1..Len(p) : p[j] \in Of(c) /\ j + 1 \in A[i + 2]}
        <4>1. A[i + 1] = Matched(m, p, FALSE, A, i + 1)
          BY <1>2, <3>1
        <4> QED BY <3>1, <3>2, <4>1 DEF Matched
      <3>6. B[i] = {j \in 1..Len(p) :
                      \E k \in j..Len(p) : p[k] \in EndsLike(d) /\ k + 1 \in B[i + 2]}
        BY <2>1, <2>5, <3>1, <3>2 DEF RegexMatched
      <3>7. A[i + 2] \subseteq B[i + 2]
        BY <1>4, <3>1
      <3>8. Of(c) \subseteq EndsLike(d)
        BY <3>3, EndsLikeItself
      <3> HIDE DEF c, d
      <3>9. ASSUME NEW j \in A[i]
            PROVE  j \in B[i]
        <4>1. j \in 1..Len(p) + 1
          BY <3>4
        <4>2. PICK k \in A[i + 1] : j <= k
          BY <3>4
        <4>3. k \in 1..Len(p) /\ p[k] \in Of(c) /\ k + 1 \in A[i + 2]
          BY <3>5, <4>2
        <4>4. j \in 1..Len(p) /\ k \in j..Len(p)
          BY <4>1, <4>2, <4>3
        <4> QED BY <3>6, <3>7, <3>8, <4>3, <4>4
      <3> QED BY <3>9
    <2>6. \/ i > Len(m)
          \/ i <= Len(m) /\ m[i].is # "any"
          \/ i = Len(m) /\ m[i].is = "any"
          \/ i < Len(m) /\ m[i].is = "any"
      BY <1>1
    <2> QED BY <2>2, <2>3, <2>4, <2>5, <2>6
  <1>5. T = {}
    <2>1. ASSUME T # {} PROVE FALSE
      <3>1. T \subseteq Nat /\ \A x \in T : x <= n
        BY Positions
      <3>2. PICK i \in T : \A x \in T : x <= i
        BY <2>1, <3>1, GreatestElement
      <3>3. \A k \in 1..n : k > i => k \notin T
        BY <3>1, <3>2
      <3> QED BY <1>4, <3>2, <3>3
    <2> QED BY <2>1
  <1>6. 1 \in 1..n
    BY <1>1
  <1> QED BY <1>2, <1>3, <1>5, <1>6

\* The static prefix ends before the first wildcard, and within the glob.
LEMMA StaticIs ==
  ASSUME NEW g, Len(g) \in Nat, DOMAIN g = 1..Len(g)
  PROVE  /\ StaticLen(g) \in Int /\ StaticLen(g) <= Len(g)
         /\ \A i \in 1..StaticLen(g) : i \in 1..Len(g) /\ g[i].is \notin {"any", "star"}
  <1>1. Wild(g) \subseteq 1..Len(g) /\ Wild(g) \subseteq Nat
    BY Positions DEF Wild
  <1>2. CASE Wild(g) = {}
    <2>1. StaticLen(g) = Len(g) - 1
      BY <1>2 DEF StaticLen
    <2>2. \A i \in 1..StaticLen(g) : i \in 1..Len(g)
      BY <2>1
    <2> QED BY <1>2, <2>1, <2>2 DEF Wild
  <1>3. CASE Wild(g) # {}
    <2>1. PICK m \in Wild(g) : \A k \in Wild(g) : m <= k
      BY <1>1, <1>3, LeastElement
    <2> DEFINE w == CHOOSE i \in Wild(g) : \A k \in Wild(g) : i <= k
    <2>2. w \in Wild(g) /\ \A k \in Wild(g) : w <= k
      BY <2>1
    <2>3. StaticLen(g) = w - 1
      BY <1>3 DEF StaticLen
    <2> HIDE DEF w
    <2>4. w \in Nat /\ 1 <= w /\ w <= Len(g)
      BY <1>1, <2>2, Positions
    <2>5. \A i \in 1..(w - 1) : i \in 1..Len(g) /\ ~(w <= i)
      BY <2>4
    <2> QED BY <2>2, <2>3, <2>4, <2>5 DEF Wild
  <1> QED BY <1>2, <1>3

\* A path a glob denotes lies below the glob's static prefix.
LEMMA PrefixFound ==
  ASSUME NEW g, NEW p, Len(g) \in Nat, DOMAIN g = 1..Len(g), Len(p) \in Nat,
         \A i \in 1..StaticLen(g) : g[i].is = "lit", Denotes(g, p)
  PROVE  static_prefix_dir(g, p)
  <1>1. PICK n \in Nat : n = Len(g) + 1
    OBVIOUS
  <1>2. PICK s \in Int : s = StaticLen(g) /\ s <= Len(g)
    BY StaticIs
  <1>3. \A i \in 1..s : i \in 1..Len(g) /\ g[i].is = "lit"
    <2>1. \A i \in 1..s : i \in 1..Len(g) /\ g[i].is \notin {"any", "star"}
      BY <1>2, StaticIs
    <2> QED BY <1>2, <2>1
  <1> DEFINE A == GlobFrom(g, p, FALSE)
             T == {i \in 1..s : i \notin A[i]}
  <1>4. /\ 1 \in A[1]
        /\ \A i \in 1..n : A[i] = Matched(g, p, FALSE, A, i)
    BY <1>1, GlobFromIs DEF Denotes
  <1> HIDE DEF A
  <1>5. ASSUME NEW i \in 1..s, i \in A[i]
        PROVE  i <= Len(p) /\ p[i] \in Of(g[i]) /\ i + 1 \in A[i + 1]
    <2>1. i \in 1..n /\ ~(i > Len(g)) /\ g[i].is = "lit"
      BY <1>1, <1>3
    <2>2. A[i] = {j \in 1..Len(p) : p[j] \in Of(g[i]) /\ j + 1 \in A[i + 1]}
      BY <1>4, <2>1 DEF Matched
    <2> QED BY <1>5, <2>2
  <1>6. T = {}
    <2>1. ASSUME T # {} PROVE FALSE
      <3>1. T \subseteq Nat
        OBVIOUS
      <3>2. PICK i \in T : \A x \in T : i <= x
        BY <2>1, <3>1, LeastElement
      <3>3. i \in 1..s /\ i \notin A[i] /\ i # 1
        BY <1>4, <3>2
      <3>4. i - 1 \in 1..s /\ ~(i <= i - 1) /\ i - 1 + 1 = i
        BY <3>3
      <3>5. i - 1 \in A[i - 1]
        BY <3>2, <3>4
      <3> QED BY <1>5, <3>3, <3>4, <3>5
    <2> QED BY <2>1
  <1>7. \A i \in 1..s : i <= Len(p) /\ p[i] = g[i].text
    <2>1. \A i \in 1..s : i <= Len(p) /\ p[i] \in Of(g[i])
      BY <1>5, <1>6
    <2> QED BY <1>3, <2>1 DEF Of
  <1>8. Len(p) >= s
    <2>1. CASE s >= 1
      <3>1. s \in 1..s
        BY <2>1
      <3> QED BY <1>7, <3>1
    <2>2. CASE s < 1
      BY <2>2
    <2> QED BY <2>1, <2>2
  <1> QED BY <1>2, <1>3, <1>7, <1>8 DEF static_prefix_dir

\* Components one after another.
LEMMA Anchored ==
  ASSUME NEW names \in Seq(Component), NEW q \in Seq(Component), NEW g, g = names \o q
  PROVE  /\ g \in Seq(Component) /\ Len(g) \in Nat /\ DOMAIN g = 1..Len(g)
         /\ Len(g) = Len(names) + Len(q)
         /\ \A i \in 1..Len(names) : i \in 1..Len(g) /\ g[i] = names[i]
         /\ \A k \in 1..Len(q) : g[Len(names) + k] = q[k]
         /\ \A i \in 1..Len(g) : i \notin 1..Len(names) => i - Len(names) \in 1..Len(q)
  <1>1. g \in Seq(Component)
    OBVIOUS
  <1>2. /\ Len(g) = Len(names) + Len(q)
        /\ \A i \in 1..Len(names) + Len(q) :
             g[i] = IF i <= Len(names) THEN names[i] ELSE q[i - Len(names)]
    BY ConcatProperties
  <1>3. Len(g) \in Nat /\ DOMAIN g = 1..Len(g)
    BY <1>1
  <1>4. PICK a \in Nat, b \in Nat : a = Len(names) /\ b = Len(q)
    OBVIOUS
  <1>5. ASSUME NEW k \in 1..b
        PROVE  g[a + k] = q[k]
    <2>1. a + k \in 1..a + b /\ ~(a + k <= a) /\ a + k - a = k
      BY <1>4
    <2> QED BY <1>2, <1>4, <2>1
  <1>6. ASSUME NEW i \in 1..a
        PROVE  i \in 1..Len(g) /\ g[i] = names[i]
    <2>1. i \in 1..a + b /\ i <= a
      BY <1>4
    <2> QED BY <1>2, <1>4, <2>1
  <1>7. ASSUME NEW i \in 1..a + b, i \notin 1..a
        PROVE  i - a \in 1..b
    BY <1>4, <1>7
  <1> QED BY <1>1, <1>2, <1>3, <1>4, <1>5, <1>6, <1>7

\* What a policy's glob means and what becomes of it differ in the names of
\* the working directory alone.
LEMMA MeantIs ==
  ASSUME NEW glob, glob.absolute \in BOOLEAN, IsGlob(glob.parts),
         NEW wd \in Seq(DOMAIN Pasted),
         NEW m, m = Meant(glob, wd), NEW g, g = resolve_deny_glob(glob, wd)
  PROVE  /\ Len(m) \in Nat /\ DOMAIN m = 1..Len(m) /\ Len(g) = Len(m)
         /\ \A i \in 1..Len(m) :
              /\ m[i] \in Component
              /\ \/ m[i] = g[i]
                 \/ \E n \in DOMAIN Pasted : m[i] = Lit(n) /\ g[i] = Pasted[n]
              /\ i < Len(m) /\ m[i].is = "any" => m[i + 1].is # "any"
  <1> DEFINE q == glob.parts
             lits == [i \in DOMAIN wd |-> Lit(wd[i])]
             pasted == [i \in DOMAIN wd |-> Pasted[wd[i]]]
  <1>1. /\ q \in Seq(Component) /\ Len(q) \in Nat /\ DOMAIN q = 1..Len(q)
        /\ \A i \in 1..Len(q) : q[i] \in Component
        /\ \A i \in 1..Len(q) : i < Len(q) /\ q[i].is = "any" => q[i + 1].is # "any"
    BY DEF IsGlob
  <1>2. CASE glob.absolute
    <2>1. m = q /\ g = q
      BY <1>2 DEF Meant, resolve_deny_glob
    <2> QED BY <1>1, <2>1
  <1>3. CASE ~glob.absolute
    <2>1. PICK l \in Nat : l = Len(wd) /\ DOMAIN wd = 1..l
      OBVIOUS
    <2>2. \A i \in 1..l : wd[i] \in DOMAIN Pasted
      BY <2>1
    <2>3. \A n \in DOMAIN Pasted : Lit(n) \in Component /\ Pasted[n] \in Component
      BY GlobAssumption DEF Lit, Component
    <2>4. lits \in Seq(Component) /\ Len(lits) = l /\ pasted \in Seq(Component) /\ Len(pasted) = l
      BY <2>1, <2>2, <2>3
    <2>5. \A i \in 1..l : lits[i] = Lit(wd[i]) /\ pasted[i] = Pasted[wd[i]]
      BY <2>1
    <2>6. m = lits \o q /\ g = pasted \o q
      BY <1>3 DEF Meant, resolve_deny_glob
    <2> HIDE DEF q, lits, pasted
    <2>7. /\ Len(m) \in Nat /\ DOMAIN m = 1..Len(m) /\ Len(m) = l + Len(q)
          /\ \A i \in 1..l : i \in 1..Len(m) /\ m[i] = lits[i]
          /\ \A k \in 1..Len(q) : m[l + k] = q[k]
          /\ \A i \in 1..Len(m) : i \notin 1..l => i - l \in 1..Len(q)
      <3>1. q \in Seq(Component) /\ lits \in Seq(Component) /\ m = lits \o q
        BY <1>1, <2>4, <2>6
      <3>2. /\ Len(m) \in Nat /\ DOMAIN m = 1..Len(m) /\ Len(m) = Len(lits) + Len(q)
            /\ \A i \in 1..Len(lits) : i \in 1..Len(m) /\ m[i] = lits[i]
            /\ \A k \in 1..Len(q) : m[Len(lits) + k] = q[k]
            /\ \A i \in 1..Len(m) : i \notin 1..Len(lits) => i - Len(lits) \in 1..Len(q)
        BY <3>1, Anchored
      <3> QED BY <2>4, <3>2
    <2>8. /\ Len(g) = l + Len(q)
          /\ \A i \in 1..l : g[i] = pasted[i]
          /\ \A k \in 1..Len(q) : g[l + k] = q[k]
      <3>1. q \in Seq(Component) /\ pasted \in Seq(Component) /\ g = pasted \o q
        BY <1>1, <2>4, <2>6
      <3>2. /\ Len(g) = Len(pasted) + Len(q)
            /\ \A i \in 1..Len(pasted) : g[i] = pasted[i]
            /\ \A k \in 1..Len(q) : g[Len(pasted) + k] = q[k]
        BY <3>1, Anchored
      <3> QED BY <2>4, <3>2
    <2>9. PICK n \in Nat, t \in Nat : n = Len(q) /\ t = Len(m) /\ t = l + n
      BY <1>1, <2>7
    <2>10. ASSUME NEW i \in 1..Len(m)
           PROVE  /\ m[i] \in Component
                  /\ \/ m[i] = g[i]
                     \/ \E nm \in DOMAIN Pasted : m[i] = Lit(nm) /\ g[i] = Pasted[nm]
                  /\ i < Len(m) /\ m[i].is = "any" => m[i + 1].is # "any"
      <3>1. CASE i \in 1..l
        <4>1. m[i] = Lit(wd[i]) /\ g[i] = Pasted[wd[i]] /\ wd[i] \in DOMAIN Pasted
          BY <2>2, <2>5, <2>7, <2>8, <3>1
        <4> QED BY <2>3, <4>1 DEF Lit
      <3>2. CASE i \notin 1..l
        <4>1. PICK k \in 1..Len(q) : k = i - l
          BY <2>7, <3>2
        <4>2. i = l + k
          BY <2>9, <4>1
        <4>3. m[i] = q[k] /\ g[i] = q[k]
          BY <2>7, <2>8, <4>2
        <4>4. i < Len(m) => k < Len(q) /\ m[i + 1] = q[k + 1]
          <5>1. ASSUME i < Len(m)
                PROVE  k < Len(q) /\ k + 1 \in 1..Len(q) /\ l + (k + 1) = i + 1
            BY <2>9, <4>2, <5>1
          <5>2. PICK x : x = k + 1
            OBVIOUS
          <5>3. i < Len(m) => m[l + x] = q[x]
            BY <2>7, <5>1, <5>2
          <5> QED BY <5>1, <5>2, <5>3
        <4> QED BY <1>1, <4>3, <4>4
      <3> QED BY <3>1, <3>2
    <2>11. Len(g) = Len(m)
      BY <2>7, <2>8
    <2> QED BY <2>7, <2>10, <2>11
  <1> QED BY <1>2, <1>3

\* Without classes and in ASCII a glob is understood, whatever the directory.
LEMMA ResolvedUnderstood ==
  ASSUME NEW glob, glob.absolute \in BOOLEAN, IsGlob(glob.parts),
         NEW wd \in Seq(DOMAIN Pasted), ReadByRegex(glob, wd)
  PROVE  Understood(Meant(glob, wd), resolve_deny_glob(glob, wd))
  <1>1. PICK m : m = Meant(glob, wd)
    OBVIOUS
  <1>2. PICK g : g = resolve_deny_glob(glob, wd)
    OBVIOUS
  <1>3. /\ Len(m) \in Nat /\ DOMAIN m = 1..Len(m)
        /\ \A i \in 1..Len(m) :
              /\ m[i] \in Component
              /\ \/ m[i] = g[i]
                 \/ \E n \in DOMAIN Pasted : m[i] = Lit(n) /\ g[i] = Pasted[n]
              /\ i < Len(m) /\ m[i].is = "any" => m[i + 1].is # "any"
    BY <1>1, <1>2, MeantIs
  <1>4. \A i \in 1..Len(m) :
          m[i].is # "class" /\ AsChars[m[i].text] = m[i].text /\ AsChars[g[i].text] = g[i].text
    BY <1>1, <1>2, <1>3 DEF ReadByRegex
  <1>5. ASSUME NEW c \in Component, AsChars[c.text] = c.text
        PROVE  Spelled(c) \subseteq DOMAIN Ending
    BY <1>5, GlobAssumption DEF Spelled, Component
  <1>6. ASSUME NEW c \in Component, AsChars[c.text] = c.text, c.is \in {"lit", "star"}
        PROVE  Of(c) \subseteq Spelled(c)
    BY <1>6 DEF Of, Spelled
  <1>7. ASSUME NEW n \in DOMAIN Pasted, AsChars[Pasted[n].text] = Pasted[n].text
        PROVE  Pasted[n].is # "any" /\ Pasted[n] \in Component /\ n \in Spelled(Pasted[n])
    <2>1. /\ Pasted[n] \in Component
          /\ \/ Pasted[n].is \in {"lit", "class"} /\ Pasted[n].text = n
             \/ Pasted[n].is = "star" /\ n \in Ending[Pasted[n].text]
      BY GlobAssumption
    <2> QED BY <1>7, <2>1 DEF Spelled
  <1>8. ASSUME NEW i \in 1..Len(m), m[i].is # "any"
        PROVE  g[i].is # "any" /\ Of(m[i]) \subseteq Spelled(g[i]) /\ Spelled(g[i]) \subseteq DOMAIN Ending
    <2>1. CASE m[i] = g[i]
      <3>1. m[i] \in Component /\ m[i].is \in {"lit", "star"}
        BY <1>3, <1>4, <1>8 DEF Component
      <3> QED BY <1>4, <1>5, <1>6, <2>1, <3>1
    <2>2. ASSUME NEW n \in DOMAIN Pasted, m[i] = Lit(n), g[i] = Pasted[n]
          PROVE  g[i].is # "any" /\ Of(m[i]) \subseteq Spelled(g[i]) /\ Spelled(g[i]) \subseteq DOMAIN Ending
      <3>1. AsChars[Pasted[n].text] = Pasted[n].text
        BY <1>4, <2>2
      <3>2. Pasted[n].is # "any" /\ Pasted[n] \in Component /\ n \in Spelled(Pasted[n])
        BY <1>7, <3>1
      <3>3. Of(Lit(n)) = {n}
        BY DEF Of, Lit
      <3> QED BY <1>5, <2>2, <3>1, <3>2, <3>3
    <2> QED BY <1>3, <2>1, <2>2
  <1>9. ASSUME NEW i \in 1..Len(m), m[i].is = "any"
        PROVE  g[i].is = "any"
    BY <1>3, <1>9 DEF Lit
  <1> QED BY <1>1, <1>2, <1>3, <1>8, <1>9 DEF Understood

\* What a glob of the policy means the backend in use has a rule for, if it
\* reads it as it is meant.
LEMMA Covered ==
  ASSUME policy \in Policies, cwd \in Cwds, NEW i \in DOMAIN policy.globs, NEW p \in Tree,
         NEW m, m = Meant(policy.globs[i], cwd), Denotes(m, p),
         NEW g, g = resolve_deny_globs(policy)[i]
  PROVE  /\ ReadByWalk(policy.globs[i], cwd) => g = m /\ is_match(g, p) /\ static_prefix_dir(g, p)
         /\ ReadByRegex(policy.globs[i], cwd) => deny_read_regexes(g, p)
  <1>1. g = resolve_deny_glob(policy.globs[i], cwd)
    BY DEF resolve_deny_globs
  <1>2. /\ policy.globs[i].absolute \in BOOLEAN /\ IsGlob(policy.globs[i].parts)
        /\ cwd \in Seq(DOMAIN Pasted) /\ Len(p) \in Nat
    BY FsAssumption
  <1>3. Len(m) \in Nat /\ DOMAIN m = 1..Len(m) /\ Len(g) = Len(m)
    BY <1>1, <1>2, MeantIs
  <1>4. ASSUME ReadByWalk(policy.globs[i], cwd)
        PROVE  g = m /\ is_match(g, p) /\ static_prefix_dir(g, p)
    <2>1. g = m /\ \A k \in 1..StaticLen(m) : m[k].is = "lit"
      BY <1>1, <1>4 DEF ReadByWalk
    <2> QED BY <1>2, <1>3, <2>1, CrossingMatchesMore, PrefixFound
  <1>5. ASSUME ReadByRegex(policy.globs[i], cwd)
        PROVE  deny_read_regexes(g, p)
    <2>1. Understood(m, g)
      BY <1>1, <1>2, <1>5, ResolvedUnderstood
    <2> QED BY <1>2, <1>3, <2>1, RegexMatchesMore DEF deny_read_regexes
  <1> QED BY <1>4, <1>5

-----------------------------------------------------------------------------
(* What the invariant says of the command.                                 *)

\* A write needs a root's layer, and a read-only subpath's comes later.
LEMMA ConfinedByLayers == IInv => WritesConfined
  <1> SUFFICES ASSUME IInv, Confined, NEW p \in fs, May("write", p)
               PROVE  /\ \E r \in Range(policy.roots) : Under(p, r)
                      /\ \A r \in Range(policy.readOnly) : Under(p, r) => r \in late
    BY DEF WritesConfined
  <1> USE DEF IInv
  <1>1. p \in Tree /\ step = "running" /\ backend \in Enforcing
    BY DEF TypeOK, Confined, StepInv, Enforcing
  <1>2. PICK l \in layers :
          /\ Applies(l, "write", p) /\ "write" \in l.gives
          /\ backend \in {"bwrap", "seatbelt"} => Decides(l, "write", p)
    BY <1>1 DEF May, Enforcing, Decides
  <1>3. l.section <= 2 /\ \E i \in DOMAIN policy.roots : l.on = Subtree(policy.roots[i])
    BY <1>2 DEF GivesInv
  <1>4. \E r \in Range(policy.roots) : Under(p, r)
    BY <1>2, <1>3 DEF Applies, Subtree, Range
  <1>5. ASSUME NEW i \in DOMAIN policy.readOnly, Under(p, policy.readOnly[i])
        PROVE  policy.readOnly[i] \in late
    <2>1. CASE backend = "landlock"
      BY <2>1, <1>5 DEF StepInv, Expressible
    <2>2. CASE backend \in {"bwrap", "seatbelt"}
      <3> SUFFICES ASSUME policy.readOnly[i] \notin late PROVE FALSE
        OBVIOUS
      <3>1. PICK k \in layers : /\ k.section = 3
                                /\ "write" \in k.ops
                                /\ k.on = Subtree(policy.readOnly[i])
        BY <1>1, <2>2 DEF ProtectedInv, Ready
      <3>2. Applies(k, "write", p)
        BY <1>1, <1>5, <3>1 DEF Applies, Subtree
      <3>3. ~Later(k, l)
        BY <1>2, <2>2, <3>2 DEF Decides
      <3>4. l.section \in 0..4
        BY DEF TypeOK, Layers
      <3> QED BY <1>3, <3>1, <3>3, <3>4 DEF Later
    <2> QED BY <1>1, <2>1, <2>2 DEF Enforcing
  <1> QED BY <1>4, <1>5 DEF Range

\* A mask or a rule of section 4 comes after every layer that gives reads.
LEMMA HiddenByLayers == IInv => PlainSecretsHidden
  <1> SUFFICES ASSUME IInv, Confined,
                      NEW i \in DOMAIN policy.globs, NEW p \in fs,
                      backend = "bwrap" => ReadByWalk(policy.globs[i], cwd),
                      backend = "seatbelt" => ReadByRegex(policy.globs[i], cwd),
                      NEW m, m = Meant(policy.globs[i], cwd), Denotes(m, p),
                      backend = "bwrap" => p \notin late /\ Listed(m, p)
               PROVE  ~May("read", p)
    BY DEF PlainSecretsHidden, Hides
  <1> USE DEF IInv
  <1> DEFINE g == resolve_deny_globs(policy)[i]
  <1>1. p \in Tree /\ step = "running" /\ backend \in Enforcing
    BY DEF TypeOK, Confined, StepInv, Enforcing
  <1>2. /\ backend = "bwrap" => g = m /\ is_match(g, p) /\ static_prefix_dir(g, p)
        /\ backend = "seatbelt" => deny_read_regexes(g, p)
    BY <1>1, Covered DEF TypeOK
  <1>3. backend # "landlock"
    BY DEF StepInv, Expressible
  <1>4. PICK k \in layers : k.section = 4 /\ "read" \in k.ops /\ p \in k.on
    <2>1. CASE backend = "bwrap"
      <3>1. p \in WalkMatches(g, fs)
        BY <1>2, <2>1 DEF WalkMatches
      <3>2. p \in Subtree(p)
        BY <1>1, UnderSelf
      <3> QED BY <1>1, <2>1, <3>1, <3>2 DEF MaskedInv, Ready
    <2>2. CASE backend = "seatbelt"
      BY <1>1, <1>2, <2>2 DEF DeniedInv, Ready
    <2> QED BY <1>1, <1>3, <2>1, <2>2 DEF Enforcing
  <1>5. ASSUME NEW l \in layers, Decides(l, "read", p) PROVE "read" \notin l.gives
    <2>1. ~Later(k, l)
      BY <1>4, <1>5 DEF Decides, Applies
    <2>2. l.section \in 0..4
      BY DEF TypeOK, Layers
    <2>3. l.section = 4
      BY <1>4, <2>1, <2>2 DEF Later
    <2> QED BY <2>3 DEF GivesInv
  <1> QED BY <1>1, <1>3, <1>5 DEF May, Enforcing

\* Where neither a read-only subpath nor a mask covers the path, the last layer
\* on it is that of a writable root.
LEMMA GrantedByLayers == IInv /\ GrantInv => WritesGranted
  <1> SUFFICES ASSUME IInv, GrantInv, Confined,
                      NEW p \in fs, NEW r \in Range(policy.roots),
                      Under(p, r), r \notin late,
                      \A d \in Range(policy.readOnly) : ~Under(p, d),
                      \A l \in layers : l.section = 4 => p \notin l.on
               PROVE  May("write", p)
    BY DEF WritesGranted
  <1>1. /\ p \in Tree /\ fs \subseteq Tree /\ policy \in Policies /\ layers \subseteq Layers
        /\ step = "running" /\ backend \in Enforcing
    BY DEF IInv, TypeOK, Confined, StepInv, Enforcing
  <1>2. PICK i \in DOMAIN policy.roots : policy.roots[i] = r
    BY DEF Range
  <1>3. r \in Tree
    BY <1>1, <1>2, PolicyTypes
  <1>4. r \in fs
    <2>1. Len(r) \in 0..Len(p) /\ r = SubSeq(p, 1, Len(r))
      BY <1>1, <1>3, UnderIsPrefix
    <2>2. SubSeq(p, 1, Len(r)) \in fs
      BY <2>1 DEF GrantInv, ClosedInv
    <2> QED BY <2>1, <2>2
  <1>5. PICK l0 \in layers : RootLayer(l0, i)
    BY <1>1, <1>2, <1>4 DEF GrantInv, RootsInv, Ready, Enforcing
  <1>6. Applies(l0, "write", p) /\ "write" \in l0.gives /\ l0.section = 2
    BY <1>1, <1>2, <1>5 DEF Applies, RootLayer, Subtree
  <1>7. CASE backend = "landlock"
    BY <1>6, <1>7 DEF May
  <1>8. CASE backend \in {"bwrap", "seatbelt"}
    <2> DEFINE S == {l \in layers : l.section = 2 /\ Applies(l, "write", p)}
    <2>1. PICK b \in Nat : \A l \in S : l.depth \in 0..b /\ l.pos \in 0..b
      <3> DEFINE n == Len(p)
                 m == Len(policy.roots)
      <3>1. n \in Nat /\ m \in Nat /\ DOMAIN policy.roots = 1..m
        BY <1>1, PolicyTypes, FsAssumption
      <3>2. ASSUME NEW l \in S
            PROVE  l.depth \in 0..n /\ l.pos \in 1..m
        <4>1. PICK j \in DOMAIN policy.roots : RootLayer(l, j)
          BY DEF GrantInv, SectionsInv
        <4>2. policy.roots[j] \in Tree /\ Under(p, policy.roots[j])
          BY <1>1, <4>1, PolicyTypes DEF RootLayer, Applies, Subtree
        <4>3. Len(policy.roots[j]) \in 0..n
          BY <1>1, <4>2, UnderIsPrefix
        <4> QED BY <3>1, <4>1, <4>3 DEF RootLayer
      <3> HIDE DEF n, m, S
      <3>3. n + m \in Nat /\ \A l \in S : l.depth \in 0..(n + m) /\ l.pos \in 0..(n + m)
        BY <3>1, <3>2
      <3> QED BY <3>3
    <2>2. l0 \in S
      BY <1>6
    <2> HIDE DEF S
    <2>3. PICK l \in S : \A k \in S :
            l.depth > k.depth \/ (l.depth = k.depth /\ l.pos >= k.pos)
      BY <2>1, <2>2, LastPair
    <2>4. l \in layers /\ l.section = 2 /\ Applies(l, "write", p) /\ "write" \in l.gives
      BY DEF S, GrantInv, SectionsInv, RootLayer
    <2>5. ASSUME NEW k \in layers, Applies(k, "write", p)
          PROVE  ~Later(k, l)
      <3>1. /\ k.section \in 0..4 /\ k.depth \in Nat /\ k.pos \in Nat
            /\ l.depth \in Nat /\ l.pos \in Nat
        BY <1>1, <2>4 DEF Layers
      <3>2. k.section # 4
        BY <2>5 DEF Applies
      <3>3. k.section # 3
        BY <2>5 DEF Applies, GrantInv, SectionsInv, Subtree, Range
      <3>4. CASE k.section < 2
        BY <2>4, <3>1, <3>4 DEF Later
      <3>5. CASE k.section = 2
        <4>1. l.depth > k.depth \/ (l.depth = k.depth /\ l.pos >= k.pos)
          BY <2>3, <2>5, <3>5 DEF S
        <4> QED BY <2>4, <3>1, <3>5, <4>1 DEF Later
      <3> QED BY <3>1, <3>2, <3>3, <3>4, <3>5
    <2> QED BY <1>8, <2>4, <2>5 DEF May, Decides
  <1> QED BY <1>1, <1>7, <1>8 DEF Enforcing

-----------------------------------------------------------------------------

\* Every reachable state is well typed, and Landlock, which has no rule for a
\* proxied network, is never chosen for one.
THEOREM TypeCorrect == Spec => []TypeOK
  BY Invariance, PTL DEF IInv

\* For every tree and every policy over it, whatever files appear or are
\* replaced: the command writes only below a writable root and outside each
\* read-only subpath that was not replaced.
THEOREM Confinement == Spec => []WritesConfined
  BY Invariance, ConfinedByLayers, PTL

\* For every tree, every set of policies, every working directory and whatever
\* texts end in, stand for or are garbled to: what a glob denotes cannot be read
\* where the backend reads it as it is meant, with ** and * anywhere in it and
\* whatever the roots and the order of files appearing.  That is, under bwrap
\* where neither the working directory nor the glob before its first * has a
\* bracket, and under Seatbelt where the glob has none and both are ASCII.
THEOREM Secrecy == Spec => []PlainSecretsHidden
  BY Invariance, HiddenByLayers, PTL

\* And what the policy grants is not lost on the way: whatever the order and
\* the nesting of roots and fresh mounts, on all three backends, a path below a
\* root that was there in time, neither read-only nor hidden, is writable.
THEOREM NothingWithheld == Spec => []WritesGranted
  BY Invariance, GrantInvariance, GrantedByLayers, PTL

\* The globs mask no more files and directories than the cap, at any time of
\* the command, for every policy and whatever the walk met.
THEOREM CapRespected == Spec => []MasksWithinCap
  <1>1. CapInv => MasksWithinCap
    BY DEF CapInv, MaskSet, MasksWithinCap
  <1> QED BY CapInvariance, <1>1, PTL

\* The three places that build the command's environment agree with the rule
\* the network is under.
THEOREM MarkerCorrect == Spec => []MarkerMatchesNetwork
  <1>1. IInv => MarkerMatchesNetwork
    BY DEF IInv, MarkerInv, MarkerMatchesNetwork, Confined, TypeOK, StepInv, Enforcing
  <1> QED BY Invariance, <1>1, PTL
=============================================================================
