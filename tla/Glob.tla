---------------------------------- MODULE Glob ----------------------------------
(***************************************************************************)
(* Deny-read globs: what the documentation says one denotes, and what the  *)
(* two backends make of it.  Linux compiles it with globset at its         *)
(* defaults and walks the file system for matches (linux_bwrap.rs); macOS  *)
(* rewrites it as anchored regular expressions (seatbelt.rs).              *)
(*                                                                         *)
(* A path is a sequence of names, a glob a sequence of components, each a  *)
(* text that is read in one of four ways:                                  *)
(*                                                                         *)
(*   "lit"    plain text, a name                                           *)
(*   "star"   * and then the text, as in *.pem; the text may be empty      *)
(*   "any"    the component **                                             *)
(*   "class"  text with [ ] { } or \, which globset does not take as it is *)
(*                                                                         *)
(* What one text is to another is given by the constants.  Left out: ?, *  *)
(* elsewhere than at the start of a component, and a bracket that spans    *)
(* two components.  No glob has ** twice in a row.                         *)
(***************************************************************************)
EXTENDS Naturals, Sequences

CONSTANTS
  Ending,      \* Ending[t]: the texts that end in t, t included
  Class,       \* Class[t]: the names a bracketed t stands for, if t is valid
  Pasted,      \* Pasted[n]: how a directory's name reads in the midst of a glob
  AsChars,     \* AsChars[t]: t with each of its bytes taken for a character
  Unlistable   \* directories whose entries the caller may not list

Component == [is : {"lit", "star", "any", "class"}, text : DOMAIN Ending]

ASSUME GlobAssumption ==
  /\ \A t \in DOMAIN Ending : t \in Ending[t] /\ Ending[t] \subseteq DOMAIN Ending
  /\ AsChars \in [DOMAIN Ending -> DOMAIN Ending]
  /\ DOMAIN Pasted \subseteq DOMAIN Ending
  /\ \A n \in DOMAIN Pasted :
       /\ Pasted[n] \in Component
       /\ \/ Pasted[n].is \in {"lit", "class"} /\ Pasted[n].text = n
          \/ Pasted[n].is = "star" /\ n \in Ending[Pasted[n].text]

IsGlob(g) ==
  /\ g \in Seq(Component)
  /\ \A i \in DOMAIN g : i < Len(g) /\ g[i].is = "any" => g[i + 1].is # "any"

\* The names component c stands for, ** aside.
Of(c) ==
  CASE c.is = "lit" -> {c.text}
    [] c.is = "star" -> Ending[c.text]
    [] c.is = "class" /\ c.text \in DOMAIN Class -> Class[c.text]
    [] OTHER -> {}

\* ** is any number of directories (at the end, everything below), a class or
\* a name one name, a star component one name or, if stars cross separators,
\* whatever directories come before one too.  from[i]: the positions of p from
\* which on the components of g from i on match the rest of it.
GlobMatch(g, p, crossing) ==
  LET from[i \in 1..Len(g) + 1] ==
        CASE i > Len(g) -> {Len(p) + 1}
          [] i = Len(g) /\ g[i].is = "any" -> 1..Len(p)
          [] i < Len(g) /\ g[i].is = "any" ->
               {j \in 1..Len(p) + 1 : \E k \in from[i + 1] : j <= k}
          [] i <= Len(g) /\ g[i].is = "star" /\ crossing ->
               {j \in 1..Len(p) :
                  \E k \in j..Len(p) : p[k] \in Of(g[i]) /\ k + 1 \in from[i + 1]}
          [] OTHER -> {j \in 1..Len(p) : p[j] \in Of(g[i]) /\ j + 1 \in from[i + 1]}
  IN 1 \in from[1]

\* What a glob denotes by the documentation and the tests of both backends.
Denotes(g, p) == GlobMatch(g, p, FALSE)

\* globset with literal_separator at its default, false.
is_match(g, p) == GlobMatch(g, p, TRUE)

\* Glob::new takes every bracket of g.
Valid(g) == \A i \in DOMAIN g : g[i].is = "class" => g[i].text \in DOMAIN Class

\* The names component c stands for in a regular expression that is built
\* byte by byte: * is [^/]*, everything else stands for itself.
Spelled(c) ==
  IF c.is = "star" THEN Ending[AsChars[c.text]] ELSE {AsChars[c.text]}

EndsLike(c) == UNION {Ending[n] : n \in Spelled(c)}

\* The body of the regular expression: ** swallows the separator after it and
\* becomes .*, so what follows it may match the end of a name.
glob_body_to_regex(g, p) ==
  LET from[i \in 1..Len(g) + 1] ==
        CASE i > Len(g) -> {Len(p) + 1}
          [] i = Len(g) /\ g[i].is = "any" -> 1..Len(p)
          [] i < Len(g) /\ g[i].is = "any" ->
               {j \in 1..Len(p) :
                  \E k \in j..Len(p) :
                    p[k] \in EndsLike(g[i + 1]) /\ k + 1 \in from[i + 2]}
          [] OTHER -> {j \in 1..Len(p) : p[j] \in Spelled(g[i]) /\ j + 1 \in from[i + 1]}
  IN 1 \in from[1]

Wild(g) == {i \in DOMAIN g : g[i].is \in {"any", "star"}}

\* Length of the leading directory: up to the first * or ?, or the parent of
\* a glob that has neither.  A class counts as a name.
StaticLen(g) ==
  IF Wild(g) = {} THEN Len(g) - 1
  ELSE (CHOOSE i \in Wild(g) : \A k \in Wild(g) : i <= k) - 1

\* p lies at or below the static prefix of g, whose text is taken as it is.
static_prefix_dir(g, p) ==
  /\ Len(p) >= StaticLen(g)
  /\ \A i \in 1..StaticLen(g) : p[i] = g[i].text

\* A glob with a wildcard denies its static prefix directory too; that text is
\* escaped character by character.
deny_read_regexes(g, p) ==
  \/ glob_body_to_regex(g, p)
  \/ /\ Wild(g) # {}
     /\ StaticLen(g) > 0
     /\ Len(p) = StaticLen(g)
     /\ static_prefix_dir(g, p)

\* WalkDir gets from the static prefix to p: errors are filtered out.
Listed(g, p) ==
  \A k \in StaticLen(g)..Len(p) - 1 : SubSeq(p, 1, k) \notin Unlistable

\* The matches of one glob among the paths of fs.
WalkMatches(g, fs) ==
  {p \in fs : static_prefix_dir(g, p) /\ Listed(g, p) /\ is_match(g, p)}

Lit(n) == [is |-> "lit", text |-> n]

\* What a glob is to mean: a relative one is anchored at the working directory.
Meant(glob, cwd) ==
  IF glob.absolute THEN glob.parts
  ELSE [i \in DOMAIN cwd |-> Lit(cwd[i])] \o glob.parts

\* What becomes of it: the path of the working directory is put before a
\* relative glob as it is, with nothing in it escaped.
resolve_deny_glob(glob, cwd) ==
  IF glob.absolute THEN glob.parts
  ELSE [i \in DOMAIN cwd |-> Pasted[cwd[i]]] \o glob.parts

\* The walk of bwrap's masks reads the glob as it is meant: nothing in the
\* working directory is special, and no class stands before the first *.
ReadByWalk(glob, cwd) ==
  /\ resolve_deny_glob(glob, cwd) = Meant(glob, cwd)
  /\ \A i \in 1..StaticLen(Meant(glob, cwd)) : Meant(glob, cwd)[i].is = "lit"

\* So do the regular expressions: the glob has no class, and both it and the
\* working directory are ASCII.
ReadByRegex(glob, cwd) ==
  \A i \in DOMAIN Meant(glob, cwd) :
    /\ Meant(glob, cwd)[i].is # "class"
    /\ \A c \in {Meant(glob, cwd)[i], resolve_deny_glob(glob, cwd)[i]} :
         AsChars[c.text] = c.text
=============================================================================
