------------------------------- MODULE MCFsPolicy -------------------------------
(***************************************************************************)
(* Instance of FsPolicy: a workspace with two subdirectories and secrets   *)
(* in all three, a scratch directory on /dev, and a home with one key.     *)
(* One subdirectory's name is in brackets, and one secret's begins with a  *)
(* letter that is not ASCII, written e' here.                              *)
(***************************************************************************)
EXTENDS FsPolicy

Names == {"ws", "sub", "[s]", "s", ".env", "e'.env", "dev", "shm", "home", "key"}

\* What is no name of a file: bracketed text, mangled text, and no text.
Texts == Names \cup {"[k]ey", "[k", "s[u]b", "e??.env", ""}

MCEnding ==
  [t \in Texts |->
    CASE t = "" -> Texts
      [] t = ".env" -> {".env", "e'.env", "e??.env"}
      [] OTHER -> {t}]

\* [k has no closing bracket.
MCClass ==
  [t \in {"[s]", "[k]ey", "s[u]b"} |->
    CASE t = "[s]" -> {"s"} [] t = "[k]ey" -> {"key"} [] t = "s[u]b" -> {"sub"}]

MCPasted ==
  [n \in Names |-> [is |-> IF n \in DOMAIN MCClass THEN "class" ELSE "lit", text |-> n]]

MCAsChars == [t \in Texts |-> IF t = "e'.env" THEN "e??.env" ELSE t]

MCTree ==
  {<<>>, <<"ws">>, <<"ws", ".env">>, <<"ws", "e'.env">>, <<"ws", "sub">>,
   <<"ws", "sub", ".env">>, <<"ws", "sub", "key">>, <<"ws", "[s]">>,
   <<"ws", "[s]", ".env">>, <<"dev">>, <<"dev", "shm">>, <<"home">>, <<"home", "key">>}

MCBase == MCTree \ {<<"ws", "sub", "key">>, <<"dev", "shm">>, <<"ws", "e'.env">>}

Workspace == {<<"ws">>}
Bracketed == {<<"ws", "[s]">>}
MCCwds == Workspace \cup Bracketed

AnyDirs == [is |-> "any", text |-> ""]
Star(text) == [is |-> "star", text |-> text]
Brackets(text) == [is |-> "class", text |-> text]

Relative(parts) == [absolute |-> FALSE, parts |-> parts]
Absolute(parts) == [absolute |-> TRUE, parts |-> parts]

\* **/.env ; *.env ; /home/** and sub ; **/*.env and /**/key ; e'.env and
\* /home/[k]ey ; /ws/s[u]b/*
Secrets ==
  {<<Relative(<<AnyDirs, Lit(".env")>>)>>,
   <<Relative(<<Star(".env")>>)>>,
   <<Absolute(<<Lit("home"), AnyDirs>>), Relative(<<Lit("sub")>>)>>,
   <<Relative(<<AnyDirs, Star(".env")>>), Absolute(<<AnyDirs, Lit("key")>>)>>,
   <<Relative(<<Lit("e'.env")>>), Absolute(<<Lit("home"), Brackets("[k]ey")>>)>>,
   <<Absolute(<<Lit("ws"), Brackets("s[u]b"), Star("")>>)>>}

Full == [kind |-> "full", roots |-> <<>>, readOnly |-> <<>>, globs |-> <<>>,
         network |-> "Allowed"]

ReadOnly(globs) ==
  [kind : {"readOnly"}, roots : {<<>>}, readOnly : {<<>>}, globs : globs,
   network : {"Blocked", "Allowed", "Proxied"}]

\* Nested roots in both orders, a root above a fresh mount and one inside it.
Roots == {<<<<"ws">>>>, <<<<"ws", "sub">>, <<"ws">>>>, <<<<>>>>,
          <<<<"dev", "shm">>, <<"ws", "sub">>>>}

\* A directory, a file, and a subpath above a root.
Protected == {<<>>, <<<<"ws", "sub">>>>, <<<<"ws", ".env">>, <<"home">>>>, <<<<"ws">>>>}

WorkspaceWrite ==
  [kind : {"workspaceWrite"}, roots : Roots, readOnly : Protected,
   globs : {<<>>} \cup Secrets, network : {"Blocked", "Allowed", "Proxied"}]

\* **/[k is refused by globset and has no special sense on macOS.
MCPolicies ==
  {Full}
  \cup ReadOnly({<<>>, <<Relative(<<AnyDirs, Brackets("[k")>>)>>} \cup Secrets)
  \cup WorkspaceWrite

MCUnlistable == {<<"home">>}

-----------------------------------------------------------------------------
(* Two globs that the walk of bwrap reads as something else: **/.env in the *)
(* directory /ws/[s], and /ws/s[u]b/*                                       *)

MCGlobPolicies ==
  ReadOnly({<<Relative(<<AnyDirs, Lit(".env")>>),
              Absolute(<<Lit("ws"), Brackets("s[u]b"), Star("")>>)>>})
=============================================================================
