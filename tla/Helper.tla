-------------------------------- MODULE Helper --------------------------------
(***************************************************************************)
(* The re-exec helper (motosan-sandbox/src/linux.rs, linux_bridge.rs): the *)
(* life of the process run() spawns on Linux, from its start to the        *)
(* target's end.  One process changes image several times,                 *)
(*                                                                         *)
(*   Landlock:  helper -> target                                           *)
(*   Proxied:   helper (outer) -> bwrap -> helper (inner) -> target        *)
(*                                                                         *)
(* and what a stage knows of itself is only what exec hands on: argv[0],   *)
(* the environment, the restrictions of its thread.  The inner stage also  *)
(* forks the bridge, which lives beside the target.  Any fallible step may *)
(* fail, and the parent may kill the process at any point.  bwrap's own    *)
(* processes and the command inside count as one process, since            *)
(* --die-with-parent makes them die together.  The check that argv names a *)
(* program is left out: build_reexec_request always passes one.            *)
(***************************************************************************)
EXTENDS Naturals, Sequences, FiniteSets

CONSTANTS
  Routes,    \* the env keys of ProxyRouteSpec::routes, in order
  Ports,     \* ports the kernel may give a 127.0.0.1:0 listener
  Networks   \* network policies tried

ASSUME HelperAssumption ==
  /\ Routes \in Seq(STRING)
  /\ Routes # <<>>
  /\ Networks \subseteq {"Allowed", "Blocked", "Proxied"}
  /\ \A i, j \in DOMAIN Routes : Routes[i] = Routes[j] => i = j

Keys == {Routes[i] : i \in DOMAIN Routes}

\* An env value that names no port of the bridge: the caller's, or none.
Foreign == "foreign"

ASSUME PortAssumption == Foreign \notin Ports

VARIABLES
  network,      \* the policy's NetworkPolicy
  image,        \* what the process runs: "helper", "bwrap" or "target"
  pc,           \* its next step
  mode,         \* helper.mode, as the stage read it
  argv0,        \* "sentinel" or "path"
  env,          \* the environment: POLICY_ENV's mode, STAGE_ENV, proxy keys
  bwrapArgs,    \* what build_bwrap_argv asked bwrap for
  has,          \* restrictions in force: NO_NEW_PRIVS, Landlock, namespaces
  socks,        \* socket families its seccomp filters still allow
  lo,           \* loopback of its network namespace is up
  bound,        \* ports of the listeners bound so far, one per route
  bridge,       \* "none", "serving" or "killed"
  bridgeSocks,  \* socket families the bridge may use
  status        \* how the process ended: an exit code class, "none" before

stageVars  == <<image, mode, argv0, env>>
bridgeVars == <<bridge, bridgeSocks>>
vars == <<network, image, pc, mode, argv0, env, bwrapArgs, has, socks, lo,
          bound, bridge, bridgeSocks, status>>

Families == {"inet", "unix", "other"}   \* "inet" stands for AF_INET(6)

\* Environment and argv of build_reexec_request; run() spawns with the
\* sentinel.  The caller's own proxy variables, if any, are foreign.
Init ==
  /\ network \in Networks
  /\ image = "helper"
  /\ pc = "main"
  /\ mode = "none"
  /\ argv0 = "sentinel"
  /\ env = [policy |-> IF network = "Proxied" THEN "ProxiedOuter" ELSE "Landlock",
            stage  |-> "unset",
            proxy  |-> [k \in Keys |-> Foreign]]
  /\ bwrapArgs = {}
  /\ has = {}
  /\ socks = Families
  /\ lo = TRUE
  /\ bound = <<>>
  /\ bridge = "none"
  /\ bridgeSocks = {}
  /\ status = "none"

HELPER_EXIT_NOT_ENFORCED == "121"
HELPER_EXIT_BAD_POLICY == "122"

\* Mutant of HELPER_EXIT_EXEC_FAILED: a failed exec ends like a shell's, 127.
EXIT_LIKE_A_SHELL == "exit"

HELPER_EXIT_EXEC_FAILED == "123"

Ended == pc = "dead"
Setup == {"nnp", "seccomp", "landlock", "exec", "findBwrap", "masks",
          "execBwrap", "bind", "fork"}

die(code) ==
  /\ pc' = "dead"
  /\ status' = code
  /\ UNCHANGED <<network, stageVars, bwrapArgs, has, socks, lo, bound, bridgeVars>>

\* Mutant of into_proxied_inner: the tag is handed on as it is.
keep_proxied_outer(m) == m

into_proxied_inner(m) == IF m = "ProxiedOuter" THEN "ProxiedInner" ELSE m

\* The environment without the variables of the re-exec protocol.  The
\* Landlock path removes POLICY_ENV only: there STAGE_ENV was never set.
scrubbed_env(e) == [e EXCEPT !.policy = "absent", !.stage = "unset"]

\* Mutant of Then: no_new_privs and seccomp come before the fork.
ThenForkLast(step) ==
  CASE step = "nnp"      -> "seccomp"
    [] step = "seccomp"  -> IF mode = "Landlock" THEN "landlock" ELSE "fork"
    [] step = "landlock" -> "exec"
    [] step = "bind"     -> "nnp"
    [] step = "fork"     -> "exec"

\* The order of the steps of run_landlock and run_proxied_inner.
Then(step) ==
  CASE step = "nnp"      -> "seccomp"
    [] step = "seccomp"  -> IF mode = "Landlock" THEN "landlock" ELSE "exec"
    [] step = "landlock" -> "exec"
    [] step = "bind"     -> "fork"
    [] step = "fork"     -> "nnp"

-----------------------------------------------------------------------------
(* Every image that hosts run_if_invoked starts here; a target may be one. *)

\* Mutant of Invoked: the marker is not looked at.
InvokedByArgv0 == argv0 = "sentinel"

Invoked == argv0 = "sentinel" \/ env.stage = "inner"

FirstStep(m) ==
  CASE m = "Landlock"     -> "nnp"
    [] m = "ProxiedOuter" -> "findBwrap"
    [] m = "ProxiedInner" -> "bind"

run_if_invoked ==
  /\ pc = "main"
  /\ IF ~Invoked
     THEN /\ pc' = "app"
          /\ UNCHANGED <<mode, status>>
     ELSE IF env.policy = "absent"
     THEN /\ pc' = "dead"
          /\ status' = HELPER_EXIT_BAD_POLICY
          /\ UNCHANGED mode
     ELSE /\ pc' = FirstStep(env.policy)
          /\ mode' = env.policy
          /\ UNCHANGED status
  /\ UNCHANGED <<network, image, argv0, env, bwrapArgs, has, socks, lo, bound,
                 bridgeVars>>

-----------------------------------------------------------------------------
(* run_landlock, and the end of run_proxied_inner.                         *)

Enforced(step) ==
  /\ pc' = Then(step)
  /\ UNCHANGED <<network, stageVars, bwrapArgs, lo, bound, bridgeVars, status>>

set_no_new_privs ==
  /\ pc = "nnp"
  /\ \/ Enforced("nnp") /\ has' = has \cup {"noNewPrivs"} /\ UNCHANGED socks
     \/ die(HELPER_EXIT_NOT_ENFORCED)

\* install_network_seccomp denies the inet families, the ProxyRouted filter
\* all the others.
Allowed == IF mode = "Landlock" THEN {"unix", "other"} ELSE {"inet"}

\* The kernel takes a filter only from a thread with no_new_privs.
install_seccomp ==
  /\ pc = "seccomp"
  /\ \/ /\ mode = "Landlock" => network = "Blocked"
        /\ "noNewPrivs" \in has
        /\ Enforced("seccomp")
        /\ socks' = socks \cap Allowed
        /\ UNCHANGED has
     \/ /\ mode = "Landlock"
        /\ network # "Blocked"
        /\ Enforced("seccomp")
        /\ UNCHANGED <<has, socks>>
     \/ /\ mode = "Landlock" => network = "Blocked"
        /\ die(HELPER_EXIT_NOT_ENFORCED)

\* PartiallyEnforced counts as enforced, NotEnforced does not.
install_landlock ==
  /\ pc = "landlock"
  /\ \/ Enforced("landlock") /\ has' = has \cup {"landlock"} /\ UNCHANGED socks
     \/ die(HELPER_EXIT_NOT_ENFORCED)

exec_target ==
  /\ pc = "exec"
  /\ \/ /\ image' = "target"
        /\ argv0' = "path"
        /\ pc' = "main"
        /\ env' = IF mode = "Landlock" THEN [env EXCEPT !.policy = "absent"] ELSE env
        /\ UNCHANGED <<network, mode, bwrapArgs, has, socks, lo, bound,
                       bridgeVars, status>>
     \/ die(HELPER_EXIT_EXEC_FAILED)

-----------------------------------------------------------------------------
(* run_proxied_outer, and bwrap.                                           *)

\* The outer stage looks bwrap up on its own PATH, the command's, not on the
\* one its parent checked.
find_bwrap ==
  /\ pc = "findBwrap"
  /\ \/ /\ env' = [env EXCEPT !.policy = into_proxied_inner(mode), !.stage = "inner"]
        /\ pc' = "masks"
        /\ UNCHANGED <<network, image, mode, argv0, bwrapArgs, has, socks, lo,
                       bound, bridgeVars, status>>
     \/ die(HELPER_EXIT_NOT_ENFORCED)

\* Mutant of build_bwrap_argv: one of the namespaces is not asked for.
build_bwrap_argv_sharing_pids(masks) == {"mounts", "netns"} \cup masks

build_bwrap_argv(masks) == {"mounts", "pidns", "netns"} \cup masks

\* Mutant of expand_deny_read_masks: past the cap, go on without masks.
expand_deny_read_masks_lossy ==
  /\ pc = "masks"
  /\ \E masks \in {{}, {"masks"}} : bwrapArgs' = build_bwrap_argv(masks)
  /\ pc' = "execBwrap"
  /\ UNCHANGED <<network, stageVars, has, socks, lo, bound, bridgeVars, status>>

\* current_exe() may fail, a glob may be bad or match more than the cap:
\* refuse rather than mask a part.
expand_deny_read_masks ==
  /\ pc = "masks"
  /\ \/ /\ bwrapArgs' = build_bwrap_argv({"masks"})
        /\ pc' = "execBwrap"
        /\ UNCHANGED <<network, stageVars, has, socks, lo, bound, bridgeVars, status>>
     \/ die(HELPER_EXIT_NOT_ENFORCED)

exec_bwrap ==
  /\ pc = "execBwrap"
  /\ \/ /\ image' = "bwrap"
        /\ argv0' = "path"
        /\ pc' = "bwrap"
        /\ UNCHANGED <<network, mode, env, bwrapArgs, has, socks, lo, bound,
                       bridgeVars, status>>
     \/ die(HELPER_EXIT_EXEC_FAILED)

\* bwrap sets up what its arguments ask for and execs the helper, with the
\* environment it was given and argv[0] replaced; or it exits with a code of
\* its own.  Whether it leaves loopback up depends on its version.
Bwrap ==
  /\ pc = "bwrap"
  /\ \/ /\ image' = "helper"
        /\ pc' = "main"
        /\ has' = has \cup bwrapArgs
        /\ lo' \in BOOLEAN
        /\ UNCHANGED <<network, mode, argv0, env, bwrapArgs, socks, bound,
                       bridgeVars, status>>
     \/ die("exit")

-----------------------------------------------------------------------------
(* run_proxied_inner up to the fork, and the bridge.                       *)

\* Mutant of AllBound: one bind too many.
AllBoundLate(n) == n > Len(Routes)

AllBound(n) == n = Len(Routes)

\* One bind of 127.0.0.1:0 per route.
bind_loopback_listener ==
  /\ pc = "bind"
  /\ \/ /\ lo
        /\ \E p \in Ports \ {bound[i] : i \in DOMAIN bound} :
             bound' = Append(bound, p)
        /\ pc' = IF AllBound(Len(bound) + 1) THEN Then("bind") ELSE pc
        /\ UNCHANGED <<network, stageVars, bwrapArgs, has, socks, lo,
                       bridgeVars, status>>
     \/ die(HELPER_EXIT_NOT_ENFORCED)

\* The first bind found no interface: bring it up, then bind again.
ensure_loopback_up ==
  /\ pc = "bind"
  /\ ~lo
  /\ lo' = TRUE
  /\ UNCHANGED <<network, stageVars, pc, bwrapArgs, has, socks, bound,
                 bridgeVars, status>>

\* Mutant of env_rewrites: the ports of the first route for every key.
env_rewrites_first == [k \in Keys |-> bound[1]]

\* routes zipped with the bound listeners.
env_rewrites ==
  [k \in Keys |-> bound[CHOOSE i \in DOMAIN Routes : Routes[i] = k]]

\* The child serves the listeners with what it inherited at the fork; the
\* parent drops them, rewrites the proxy variables and scrubs its environment.
fork_bridge ==
  /\ pc = "fork"
  /\ \/ /\ bridge' = "serving"
        /\ bridgeSocks' = socks
        /\ env' = scrubbed_env([env EXCEPT !.proxy = env_rewrites])
        /\ pc' = Then("fork")
        /\ UNCHANGED <<network, image, mode, argv0, bwrapArgs, has, socks, lo,
                       bound, status>>
     \/ die(HELPER_EXIT_NOT_ENFORCED)

-----------------------------------------------------------------------------
(* The target, the parent and the kernel.                                  *)

TargetExits ==
  /\ pc = "app"
  /\ \E code \in {"exit", "signal", "121", "122", "123"} : die(code)

\* start_kill or kill_on_drop of the parent, at any point.
Killed ==
  /\ ~Ended
  /\ die("sigkill")

\* --unshare-pid and --die-with-parent: nothing of the namespace outlives it.
NamespaceDies ==
  /\ Ended
  /\ "pidns" \in has
  /\ bridge = "serving"
  /\ bridge' = "killed"
  /\ UNCHANGED <<network, stageVars, pc, bwrapArgs, has, socks, lo, bound,
                 bridgeSocks, status>>

-----------------------------------------------------------------------------

Stage ==
  \/ run_if_invoked
  \/ set_no_new_privs
  \/ install_seccomp
  \/ install_landlock
  \/ exec_target
  \/ find_bwrap
  \/ expand_deny_read_masks
  \/ exec_bwrap
  \/ Bwrap
  \/ bind_loopback_listener
  \/ ensure_loopback_up
  \/ fork_bridge

Next == Stage \/ TargetExits \/ Killed \/ NamespaceDies

Spec == Init /\ [][Next]_vars

\* The helper is a straight-line program and the kernel runs it; the kernel
\* also finishes killing a pid namespace.  The target owes nothing.
FairSpec == Spec /\ WF_vars(Stage) /\ WF_vars(NamespaceDies)

-----------------------------------------------------------------------------
(* Correctness.                                                            *)

Restrictions == {"noNewPrivs", "landlock", "mounts", "masks", "pidns", "netns",
                 "noInet", "noUnix"}

\* The domain of each variable; one listener per route at most.
TypeOK ==
  /\ network \in Networks
  /\ image \in {"helper", "bwrap", "target"}
  /\ pc \in {"main", "bwrap", "app", "dead"} \cup Setup
  /\ mode \in {"none", "Landlock", "ProxiedOuter", "ProxiedInner"}
  /\ argv0 \in {"sentinel", "path"}
  /\ env \in [policy : {"absent", "Landlock", "ProxiedOuter", "ProxiedInner"},
              stage : {"unset", "inner"},
              proxy : [Keys -> Ports \cup {Foreign}]]
  /\ bwrapArgs \in SUBSET {"mounts", "masks", "pidns", "netns"}
  /\ has \in SUBSET Restrictions
  /\ socks \in SUBSET Families
  /\ lo \in BOOLEAN
  /\ bound \in Seq(Ports) /\ Len(bound) <= Len(Routes)
  /\ bridge \in {"none", "serving", "killed"}
  /\ bridgeSocks \in SUBSET Families
  /\ status \in {"none", "exit", "signal", "sigkill", "121", "122", "123"}

\* Each image recognises itself: the helper in each of its stages dispatches,
\* although bwrap does not hand argv[0] on, and the target, itself perhaps a
\* program that calls run_if_invoked, never does.
StageRecognised ==
  /\ pc = "app" => image = "target"
  /\ pc \in Setup => image = "helper"
  /\ image = "target" => env.policy = "absent" /\ ~Invoked

\* The bridge is forked before the filter, so that it can dial the host's
\* socket, and answers inside the namespace that is reaped with the target.
BridgeUnfiltered == bridge # "none" => bridgeSocks = Families /\ "pidns" \in has

\* A running proxied target finds in each proxy variable the port of that
\* variable's own route, and a live bridge that listens there.
RoutesAdvertised ==
  (image = "target" /\ ~Ended /\ network = "Proxied") =>
    /\ bridge = "serving"
    /\ Len(bound) = Len(Routes)
    /\ \A i \in DOMAIN Routes : env.proxy[Routes[i]] = bound[i]

\* What SpawnCapture assumes of the child: before the target runs it ends in
\* a reserved code or our SIGKILL; only bwrap has codes of its own.
SetupStatus ==
  Ended /\ image # "target" =>
    \/ status \in {"121", "122", "123", "sigkill"}
    \/ status = "exit" /\ image = "bwrap"

\* What the policy demands, in terms of what the kernel enforces.
Demands ==
  CASE network = "Allowed" -> {"noNewPrivs", "landlock"}
    [] network = "Blocked" -> {"noNewPrivs", "landlock", "noInet"}
    [] network = "Proxied" -> {"noNewPrivs", "mounts", "masks", "pidns", "netns",
                               "noUnix"}

InForce ==
  has \cup (IF "inet" \in socks THEN {} ELSE {"noInet"})
      \cup (IF "unix" \in socks THEN {} ELSE {"noUnix"})

Phase ==
  CASE image = "target" /\ ~Ended -> "running"
    [] image = "target" /\ Ended  -> "stopped"
    [] image # "target" /\ Ended  -> "refused"
    [] OTHER -> "setup"

Abstract == INSTANCE Enforcement WITH
  want  <- Demands,
  has   <- InForce,
  phase <- Phase

\* Whatever step fails, the target starts only with all its policy demands in
\* force, and what a stage enforced holds for the later ones.
ImplementsEnforcement == Abstract!Spec

\* The chain of stages ends: it reaches the target or a refusal.
Settles == <>(pc \in {"app", "dead"})

\* No bridge outlives the process it was forked for, whether the target
\* exited, the helper failed after the fork, or the parent killed it.
BridgeReaped == Ended ~> bridge # "serving"
=============================================================================
