-------------------------------- MODULE FsPolicy --------------------------------
(***************************************************************************)
(* A SandboxPolicy on its way to a running command: transform() chooses a  *)
(* backend or refuses (transform.rs, reexec.rs), the backend turns the     *)
(* policy into rules (seatbelt.rs, linux_bwrap.rs, linux.rs), and the      *)
(* kernel decides the command's reads and writes by them, while files      *)
(* appear and are replaced on the host.                                    *)
(*                                                                         *)
(* Rules are layers.  A Seatbelt rule or a bwrap mount is decisive for an  *)
(* operation on a path if it is the last one that covers it; Landlock      *)
(* grants what any rule grants.  Operations: "read" and "write", the       *)
(* content of the host's file at a path; writes to /dev/null and to the    *)
(* fresh mounts of bwrap do not reach the host and are not modelled.       *)
(***************************************************************************)
EXTENDS Glob, SequencesExt

CONSTANTS
  Tree,       \* paths that can exist on the host, as sequences of names
  Base,       \* those that exist from the start
  Policies,   \* the policies tried
  Platforms,  \* what Sandbox::detect() may say: "linux", "macos", "none"
  Cwds,       \* the working directories tried
  MAX_DENY_READ_GLOB_MATCHES

ASSUME FsAssumption ==
  /\ Tree \subseteq Seq(STRING)
  /\ Base \subseteq Tree /\ IsFiniteSet(Base)
  /\ \A p \in Base : \A k \in 0..Len(p) : SubSeq(p, 1, k) \in Base
  /\ \A pol \in Policies :
       /\ pol.roots \in Seq(Tree) /\ pol.readOnly \in Seq(Tree)
       /\ DOMAIN pol.globs \subseteq Nat /\ IsFiniteSet(DOMAIN pol.globs)
       /\ \A i \in DOMAIN pol.globs :
            pol.globs[i].absolute \in BOOLEAN /\ IsGlob(pol.globs[i].parts)
       /\ pol.network \in {"Blocked", "Allowed", "Proxied"}
  /\ Platforms \subseteq {"linux", "macos", "none"}
  /\ Cwds \subseteq Seq(DOMAIN Pasted)
  /\ MAX_DENY_READ_GLOB_MATCHES \in Nat

VARIABLES
  platform, policy,
  cwd,        \* the command's working directory
  fs,         \* the paths that exist on the host
  late,       \* those that appeared, or were replaced, after the rules took hold
  step,       \* "transform", "expand", "mount", "restrict", "running", "refused"
  backend,    \* "undecided", "none", "landlock", "bwrap", "seatbelt"
  layers,     \* the rules
  netRule,    \* what Seatbelt or the helper's mode lets through: all, proxy, none
  marker      \* NETWORK_DISABLED is in the command's environment

vars == <<platform, policy, cwd, fs, late, step, backend, layers, netRule, marker>>

Ops == {"read", "write"}

Under(p, root) == IsPrefix(root, p)

Subtree(root) == {p \in Tree : Under(p, root)}

resolve_deny_globs(pol) ==
  [i \in DOMAIN pol.globs |-> resolve_deny_glob(pol.globs[i], cwd)]

\* SandboxPolicy::network: full access implies full network.
network == IF policy.kind = "full" THEN "Allowed" ELSE policy.network

Init ==
  /\ platform \in Platforms
  /\ policy \in Policies
  /\ cwd \in Cwds
  /\ fs = Base
  /\ late = {}
  /\ step = "transform"
  /\ backend = "undecided"
  /\ layers = {}
  /\ netRule = "all"
  /\ marker = FALSE

\* A layer comes later if its section does, within a section by depth, then
\* by position (the sort of the writable roots is stable).
Later(a, b) ==
  \/ a.section > b.section
  \/ a.section = b.section /\ a.depth > b.depth
  \/ a.section = b.section /\ a.depth = b.depth /\ a.pos > b.pos

Layer(section, depth, pos, on, ops, gives) ==
  [section |-> section, depth |-> depth, pos |-> pos, on |-> on, ops |-> ops,
   gives |-> gives]

\* The sections, in the order a profile or an argument list has them: 0 what
\* holds everywhere, 1 fresh mounts, 2 writable roots, 3 read-only subpaths,
\* 4 what must not be read.

-----------------------------------------------------------------------------
(* transform()                                                             *)

\* Mutant of build_env: the marker for every policy that is not open.
build_env_not_allowed == network # "Allowed"

\* build_env: only a blocked network is announced.
build_env == network = "Blocked"

\* Full access or no backend: the command runs unwrapped.
passthrough ==
  /\ step = "transform"
  /\ policy.kind = "full" \/ platform = "none"
  /\ backend' = "none"
  /\ marker' = build_env
  /\ step' = "running"
  /\ UNCHANGED <<platform, policy, cwd, fs, late, layers, netRule>>

OnLinux == step = "transform" /\ policy.kind # "full" /\ platform = "linux"

\* Mutant of Expressible: the read-deny globs are forgotten.
ExpressibleRoots == policy.readOnly = <<>>

\* Landlock only allows: it can take nothing back inside a writable root.
Expressible == policy.readOnly = <<>> /\ policy.globs = <<>>

\* Mutant of NotProxied: the check that sends Proxied elsewhere is dropped.
AnyNetwork == TRUE

NotProxied == network # "Proxied"

\* HelperPolicy::from_policy and build_reexec_request.
from_policy ==
  /\ OnLinux
  /\ NotProxied
  /\ \/ /\ Expressible
        /\ backend' = "landlock"
        /\ step' = "restrict"
        /\ netRule' = IF network = "Blocked" THEN "none" ELSE "all"
        /\ marker' = (network = "Blocked")
     \/ /\ ~Expressible
        /\ step' = "refused"
        /\ UNCHANGED <<backend, netRule, marker>>
  /\ UNCHANGED <<platform, policy, cwd, fs, late, layers>>

\* HelperPolicy::for_proxied: bwrap can express everything.
for_proxied ==
  /\ OnLinux
  /\ network = "Proxied"
  /\ backend' = "bwrap"
  /\ step' = "expand"
  /\ netRule' = "proxy"
  /\ UNCHANGED <<platform, policy, cwd, fs, late, layers, marker>>

\* The profile: everything may be read; writes are allowed below each root,
\* then denied below each read-only subpath; reads are denied last.
build_policy ==
  {Layer(0, 0, 0, Tree, {"read"}, {"read"})}
  \cup {Layer(2, 0, i, Subtree(policy.roots[i]), {"write"}, {"write"}) :
          i \in DOMAIN policy.roots}
  \cup {Layer(3, 0, i, Subtree(policy.readOnly[i]), {"write"}, {}) :
          i \in DOMAIN policy.readOnly}
  \cup {Layer(4, 0, i, {p \in Tree : deny_read_regexes(resolve_deny_globs(policy)[i], p)},
              {"read"}, {}) :
          i \in DOMAIN policy.globs}

transform_seatbelt ==
  /\ step = "transform"
  /\ policy.kind # "full"
  /\ platform = "macos"
  /\ backend' = "seatbelt"
  /\ layers' = build_policy
  /\ netRule' = [Blocked |-> "none", Allowed |-> "all", Proxied |-> "proxy"][network]
  /\ marker' = build_env
  /\ step' = "running"
  /\ UNCHANGED <<platform, policy, cwd, fs, late>>

-----------------------------------------------------------------------------
(* The helper, then the kernel or bwrap.                                   *)

\* A root that does not exist is skipped without an error.
install_landlock ==
  /\ step = "restrict"
  /\ layers' = {Layer(0, 0, 0, Tree, Ops, {"read"})}
       \cup {Layer(2, 0, i, Subtree(policy.roots[i]), Ops, Ops) :
               i \in {k \in DOMAIN policy.roots : policy.roots[k] \in fs}}
  /\ step' = "running"
  /\ UNCHANGED <<platform, policy, cwd, fs, late, backend, netRule, marker>>

\* What the walk finds, a path once for every glob that matches it.
Found == {f \in (DOMAIN policy.globs) \X fs :
            f[2] \in WalkMatches(resolve_deny_globs(policy)[f[1]], fs)}

TooMany == Cardinality(Found) > MAX_DENY_READ_GLOB_MATCHES

\* globset cannot compile one of the globs.
BadGlob == \E i \in DOMAIN policy.globs : ~Valid(resolve_deny_globs(policy)[i])

\* Names of the fresh mounts --dev and --proc.
Fresh == {<<"dev">>, <<"proc">>}

\* Mutant of build_bwrap_argv: the writable roots after the read-only subpaths.
build_bwrap_argv_swapped(masked) ==
  {Layer(0, 0, 0, Tree, Ops, {"read"})}
  \cup {Layer(1, 0, 0, Subtree(d), Ops, {}) : d \in Fresh}
  \cup {Layer(3, Len(policy.roots[i]), i, Subtree(policy.roots[i]), Ops, Ops) :
          i \in DOMAIN policy.roots}
  \cup {Layer(2, 0, i, Subtree(policy.readOnly[i]), Ops, {"read"}) :
          i \in DOMAIN policy.readOnly}
  \cup {Layer(4, 0, 0, Subtree(p), Ops, {}) : p \in masked}

\* Mutant of build_bwrap_argv: /dev and /proc after the writable roots.
build_bwrap_argv_fresh_late(masked) ==
  {Layer(0, 0, 0, Tree, Ops, {"read"})}
  \cup {Layer(3, 0, 0, Subtree(d), Ops, {}) : d \in Fresh}
  \cup {Layer(2, Len(policy.roots[i]), i, Subtree(policy.roots[i]), Ops, Ops) :
          i \in DOMAIN policy.roots}
  \cup {Layer(3, 0, i, Subtree(policy.readOnly[i]), Ops, {"read"}) :
          i \in DOMAIN policy.readOnly}
  \cup {Layer(4, 0, 0, Subtree(p), Ops, {}) : p \in masked}

\* All of / read-only, fresh /dev and /proc, the writable roots from shallow
\* to deep, the read-only subpaths, and the masks: /dev/null over a file, an
\* empty tmpfs over a directory.
build_bwrap_argv(masked) ==
  {Layer(0, 0, 0, Tree, Ops, {"read"})}
  \cup {Layer(1, 0, 0, Subtree(d), Ops, {}) : d \in Fresh}
  \cup {Layer(2, Len(policy.roots[i]), i, Subtree(policy.roots[i]), Ops, Ops) :
          i \in DOMAIN policy.roots}
  \cup {Layer(3, 0, i, Subtree(policy.readOnly[i]), Ops, {"read"}) :
          i \in DOMAIN policy.readOnly}
  \cup {Layer(4, 0, 0, Subtree(p), Ops, {}) : p \in masked}

expand_deny_read_masks ==
  /\ step = "expand"
  /\ \/ /\ ~TooMany /\ ~BadGlob
        /\ layers' = build_bwrap_argv({f[2] : f \in Found})
        /\ step' = "mount"
     \/ /\ TooMany \/ BadGlob
        /\ step' = "refused"
        /\ UNCHANGED layers
  /\ UNCHANGED <<platform, policy, cwd, fs, late, backend, netRule, marker>>

\* bwrap mounts what it was told to, or exits if a source is missing.
Bwrap ==
  /\ step = "mount"
  /\ step' = IF Range(policy.roots) \cup Range(policy.readOnly) \subseteq fs
             THEN "running" ELSE "refused"
  /\ UNCHANGED <<platform, policy, cwd, fs, late, backend, layers, netRule, marker>>

-----------------------------------------------------------------------------
(* The host, before and beside the command.                                *)

\* A rule of Landlock and a mount of bwrap belong to the file they were made
\* for, a Seatbelt rule to the path.
Bound == backend \in {"landlock", "bwrap"} /\ step \in {"mount", "running"}

\* A file or directory appears, by whoever may create it.
Appear(p) ==
  /\ p \notin fs
  /\ Front(p) \in fs
  /\ fs' = fs \cup {p}
  /\ late' = IF Bound THEN late \cup {p} ELSE late
  /\ UNCHANGED <<platform, policy, cwd, step, backend, layers, netRule, marker>>

\* Another process replaces a file, as editors do, by a new one of its name: a
\* mount on it goes with it.
Replace(p) ==
  /\ p \in fs
  /\ \A q \in Tree : Under(q, p) => q = p
  /\ Bound /\ step = "running"
  /\ late' = late \cup {p}
  /\ layers' = {l \in layers : l.on # {p}}
  /\ UNCHANGED <<platform, policy, cwd, fs, step, backend, netRule, marker>>

Next ==
  \/ passthrough
  \/ from_policy
  \/ for_proxied
  \/ transform_seatbelt
  \/ install_landlock
  \/ expand_deny_read_masks
  \/ Bwrap
  \/ \E p \in Tree : Appear(p) \/ Replace(p)

Spec == Init /\ [][Next]_vars

-----------------------------------------------------------------------------
(* What the kernel lets the command do.                                    *)

Applies(l, op, p) == op \in l.ops /\ p \in l.on

Decides(l, op, p) ==
  /\ Applies(l, op, p)
  /\ \A k \in layers : Applies(k, op, p) => ~Later(k, l)

May(op, p) ==
  \/ backend = "none"
  \/ backend = "landlock" /\ \E l \in layers : Applies(l, op, p) /\ op \in l.gives
  \/ backend \in {"bwrap", "seatbelt"} /\ \E l \in layers : Decides(l, op, p) /\ op \in l.gives

Confined == step = "running" /\ backend # "none"

-----------------------------------------------------------------------------
(* Correctness.                                                            *)

Layers == [section : 0..4, depth : Nat, pos : Nat, on : SUBSET Tree,
           ops : SUBSET Ops, gives : SUBSET Ops]

\* The domain of each variable; only files of the host are late, and Landlock
\* never stands in for the proxied path.
TypeOK ==
  /\ platform \in Platforms
  /\ policy \in Policies
  /\ cwd \in Cwds
  /\ fs \in SUBSET Tree
  /\ late \in SUBSET fs
  /\ step \in {"transform", "expand", "mount", "restrict", "running", "refused"}
  /\ backend \in {"undecided", "none", "landlock", "bwrap", "seatbelt"}
  /\ layers \in SUBSET Layers
  /\ netRule \in {"all", "proxy", "none"}
  /\ marker \in BOOLEAN
  /\ backend = "landlock" => network # "Proxied"

\* On every backend the host's files change only below a writable root and
\* outside every read-only subpath.  A policy the backend cannot express is
\* refused and not run with less.  A read-only file that another process
\* replaced has lost its protection.
WritesConfined ==
  Confined =>
    \A p \in fs : May("write", p) =>
      /\ \E r \in Range(policy.roots) : Under(p, r)
      /\ \A r \in Range(policy.readOnly) : Under(p, r) => r \in late

\* And nothing more is taken: below a root that was there in time, whatever
\* roots and mounts lie above or below it, everything the policy does not
\* protect or hide is writable.
WritesGranted ==
  Confined =>
    \A p \in fs, r \in Range(policy.roots) :
      /\ Under(p, r)
      /\ r \notin late
      /\ \A d \in Range(policy.readOnly) : ~Under(p, d)
      /\ \A l \in layers : l.section = 4 => p \notin l.on
      => May("write", p)

\* What glob i of the policy means cannot be read at p.
Hides(i, p) ==
  LET g == Meant(policy.globs[i], cwd)
  IN /\ Denotes(g, p)
     /\ backend = "bwrap" => p \notin late /\ Listed(g, p)
     => ~May("read", p)

\* Whatever a deny-read glob denotes cannot be read, even below a writable
\* root.  Under bwrap this is asked of what the helper's one walk met: not of a
\* file that appears or is replaced later, nor of one below a directory that
\* the walk could not list.  The code does not keep it for every glob and every
\* working directory: a run refutes it.
SecretsHidden ==
  Confined => \A i \in DOMAIN policy.globs, p \in fs : Hides(i, p)

\* It does for the globs that the backend in use reads as they are meant, which
\* is a matter of how the glob and the working directory are written, whatever
\* the roots, the subpaths and the nesting of all three.
PlainSecretsHidden ==
  Confined =>
    \A i \in DOMAIN policy.globs, p \in fs :
      /\ backend = "bwrap" => ReadByWalk(policy.globs[i], cwd)
      /\ backend = "seatbelt" => ReadByRegex(policy.globs[i], cwd)
      => Hides(i, p)

\* All globs together mask at most the cap: past it the command does not run.
MasksWithinCap ==
  Cardinality({l \in layers : backend = "bwrap" /\ l.section = 4})
    <= MAX_DENY_READ_GLOB_MATCHES

\* A confined command is told that the network is off exactly when it is,
\* whichever of the three paths built its environment.
MarkerMatchesNetwork == Confined => (marker <=> netRule = "none")
=============================================================================
