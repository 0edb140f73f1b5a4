------------------------------- MODULE Allowlist -------------------------------
(***************************************************************************)
(* The host allowlist on its way from the policy to a decision: a          *)
(* HostPattern is parsed from the caller's text (policy.rs), printed for   *)
(* the proxy, parsed again there, and matched against the normalised       *)
(* target of a CONNECT request (matcher.rs).                               *)
(*                                                                         *)
(* A text is a sequence of tokens: each of . : [ ] * and the space is one, *)
(* and a label stands for any other piece, none for two labels together.   *)
(***************************************************************************)
EXTENDS Naturals, Sequences, SequencesExt

CONSTANT Lower   \* Lower[t]: token t in lower case

\* The tokens that the parsers and normalize look for.
Special == {".", ":", "[", "]", "*", " "}

Labels == DOMAIN Lower \ Special

\* Lowering does nothing to them, and nothing twice.
ASSUME LowerAssumption ==
  /\ Special \subseteq DOMAIN Lower
  /\ \A c \in Special : Lower[c] = c
  /\ \A t \in Labels : Lower[t] \in Labels /\ Lower[Lower[t]] = Lower[t]

to_ascii_lowercase(s) == [i \in DOMAIN s |-> Lower[s[i]]]

\* s without the spaces around it.
trim(s) ==
  LET inked == {i \in DOMAIN s : s[i] # " "} IN
  IF inked = {} THEN <<>> ELSE SubSeq(s, Min(inked), Max(inked))

\* s up to its first or its last token c; all of s if it has none.
UpToFirst(c, s) ==
  LET at == {i \in DOMAIN s : s[i] = c} IN
  IF at = {} THEN s ELSE SubSeq(s, 1, Min(at) - 1)

UpToLast(c, s) ==
  LET at == {i \in DOMAIN s : s[i] = c} IN
  IF at = {} THEN s ELSE SubSeq(s, 1, Max(at) - 1)

\* s from its first token other than c.
SkipLeading(c, s) ==
  LET other == {i \in DOMAIN s : s[i] # c} IN
  IF other = {} THEN <<>> ELSE SubSeq(s, Min(other), Len(s))

Dot == <<".">>
Star == <<"*">>
SubMark == <<"*", ".">>
ApexMark == <<"*", "*", ".">>

After(mark, s) == SubSeq(s, Len(mark) + 1, Len(s))

Pattern(kind, name) == [kind |-> kind, name |-> name]

\* What both parsers do once the text is trimmed.
ParseTrimmed(s) ==
  IF s = Star THEN Pattern("Any", <<>>)
  ELSE IF IsPrefix(ApexMark, s) THEN Pattern("ApexAndSubdomains", After(ApexMark, s))
  ELSE IF IsPrefix(SubMark, s) THEN Pattern("SubdomainsOnly", After(SubMark, s))
  ELSE Pattern("Exact", s)

\* HostPattern::parse lowers the name after the split, Pattern::parse before.
HostPattern_parse(s) ==
  LET p == ParseTrimmed(trim(s)) IN Pattern(p.kind, to_ascii_lowercase(p.name))

Pattern_parse(s) == ParseTrimmed(to_ascii_lowercase(trim(s)))

to_pattern_string(p) ==
  CASE p.kind = "Exact"             -> p.name
    [] p.kind = "SubdomainsOnly"    -> SubMark \o p.name
    [] p.kind = "ApexAndSubdomains" -> ApexMark \o p.name
    [] p.kind = "Any"               -> Star

\* Mutant of normalize: split_once for rsplit_once.
normalize_first(target) ==
  to_ascii_lowercase(UpToFirst(":", UpToFirst("]", SkipLeading("[", trim(target)))))

\* Mutant of matches: *.h covers h itself.
matches_apex(p, host) ==
  \/ p.kind = "Any"
  \/ p.kind \in {"Exact", "ApexAndSubdomains", "SubdomainsOnly"} /\ host = p.name
  \/ p.kind \in {"SubdomainsOnly", "ApexAndSubdomains"} /\ IsSuffix(Dot \o p.name, host)

matches(p, host) ==
  \/ p.kind = "Any"
  \/ p.kind \in {"Exact", "ApexAndSubdomains"} /\ host = p.name
  \/ p.kind \in {"SubdomainsOnly", "ApexAndSubdomains"} /\ IsSuffix(Dot \o p.name, host)

\* The port goes last: of a bracketed IPv6 address only a piece is left.
normalize(target) ==
  to_ascii_lowercase(UpToLast(":", UpToFirst("]", SkipLeading("[", trim(target)))))

\* Allowlist::parse, of what core prints, and Allowlist::allows.
Allowlist_parse(strings) == [i \in DOMAIN strings |-> Pattern_parse(strings[i])]

allows(patterns, target) ==
  LET host == normalize(target) IN \E i \in DOMAIN patterns : matches(patterns[i], host)
=============================================================================
