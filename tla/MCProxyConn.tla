------------------------------- MODULE MCProxyConn -------------------------------
(* Instances of ProxyConn: the forms of rules with a name, its parent and a      *)
(* look-alike, against every short word, alone and with a port, and some longer  *)
(* ones.  A few of them come with headers below, at and past the cap, cut into   *)
(* reads in every way.                                                           *)
EXTENDS ProxyConn

MCLower ==
  [t \in {"a", "x", "X", "443", ".", ":", "[", "]", "*", " "} |-> IF t = "X" THEN "x" ELSE t]

Of(kind, name, pad, built) == [means |-> Pattern(kind, name), pad |-> pad, built |-> built]
Written(kind, name, pad) == Of(kind, name, pad, FALSE)
Built(kind, name) == Of(kind, name, <<>>, TRUE)

Port == <<":", "443">>
MCPorts == {"443"}

MCRules ==
  {<<>>,
   <<Written("Any", <<>>, <<" ">>)>>,
   <<Written("Exact", <<"X">>, <<>>)>>,
   <<Written("Exact", <<"a", ".", "x">>, <<" ">>), Built("Exact", <<>>)>>,
   <<Written("SubdomainsOnly", <<"X">>, <<>>)>>,
   <<Written("ApexAndSubdomains", <<"x">>, <<" ", " ">>)>>,
   <<Written("Exact", <<":", ":", "x">>, <<>>), Built("SubdomainsOnly", <<"a", ".", "X">>)>>,
   <<Built("Exact", <<"*", "x">>), Built("ApexAndSubdomains", <<"a", ".", "x">>)>>}

Words(S, k) == UNION {[1..i -> S] : i \in 0..k}
Short == Words({"a", "x", "X", ".", ":", "[", "]"}, 3)
Addresses ==
  {s \in Words({"a", "x", ":"}, 4) : Cardinality({i \in DOMAIN s : s[i] = ":"}) >= 2}

Hosts == Short \cup Addresses \cup {Bracketed(s) : s \in Addresses}
           \cup {<<"a", ".", "a", ".", "x">>, <<"*", "x">>, <<"x", "]", ".", "a">>}
MCTargets == Hosts \cup {h \o Port : h \in Hosts}

Cut == {<<"x">> \o Port, <<"x">>, <<"a", ".", "X">> \o Port, <<"a">> \o Port}
MCSizes == [t \in MCTargets |-> IF t \in Cut THEN {4, 6, 7, 8} ELSE {4}]
MCMaxPayload == [t \in MCTargets |-> IF t \in Cut THEN 2 ELSE 0]

-----------------------------------------------------------------------------
(* One rule, and a target with text behind a bracket.                      *)

ExactRule == {<<Written("Exact", <<"x">>, <<>>)>>}
BracketTargets == {<<"x">> \o Port, <<"a">> \o Port, <<"x", "]", ".", "a">> \o Port}
BracketSizes == [t \in BracketTargets |-> {4}]
NoPayload == [t \in BracketTargets |-> 0]
=============================================================================
