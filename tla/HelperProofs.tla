----------------------------- MODULE HelperProofs -----------------------------
(***************************************************************************)
(* Proofs about Helper, for every sequence of routes, every set of ports   *)
(* and every set of network policies.                                      *)
(***************************************************************************)
EXTENDS Helper, TLAPS

\* What bwrap is asked for, and what it then enforces.
Walls == {"mounts", "masks", "pidns", "netns"}

Restricting == {"nnp", "seccomp", "landlock", "exec"}

-----------------------------------------------------------------------------
(* The inductive invariant, one part per thing a stage relies on.          *)

\* One listener per route, no more.
BoundInv ==
  /\ pc = "bind" => Len(bound) < Len(Routes)
  /\ pc = "fork" => Len(bound) = Len(Routes)

\* The Landlock chain: one helper stage, then the target.
LandlockChain ==
  network # "Proxied" =>
    /\ image \in {"helper", "target"}
    /\ pc \in {"main", "app", "dead"} \cup Restricting
    /\ mode \in {"none", "Landlock"}
    /\ env.stage = "unset"
    /\ bridge = "none"
    /\ pc \in Restricting => image = "helper" /\ mode = "Landlock"
    /\ image = "helper" /\ pc = "main" =>
         argv0 = "sentinel" /\ env.policy = "Landlock"

\* The proxied chain: outer stage, bwrap, inner stage, target, and what each
\* hands to the next one.
ProxiedChain ==
  network = "Proxied" =>
    /\ mode \in {"none", "ProxiedOuter", "ProxiedInner"}
    /\ pc # "landlock"
    /\ pc \in {"findBwrap", "masks", "execBwrap", "bwrap"} => mode = "ProxiedOuter"
    /\ pc \in {"findBwrap", "masks", "execBwrap"} => image = "helper"
    /\ pc \in {"masks", "execBwrap", "bwrap"} =>
         env.policy = "ProxiedInner" /\ env.stage = "inner"
    /\ pc \in {"execBwrap", "bwrap"} => Walls \subseteq bwrapArgs
    /\ pc = "bwrap" => image = "bwrap"
    /\ image = "bwrap" => pc \in {"bwrap", "dead"}
    /\ pc = "main" /\ image = "helper" =>
         \/ env.policy = "ProxiedOuter" /\ argv0 = "sentinel"
         \/ env.policy = "ProxiedInner" /\ env.stage = "inner" /\ Walls \subseteq has
    /\ pc \in {"bind", "fork"} \cup Restricting =>
         image = "helper" /\ mode = "ProxiedInner" /\ Walls \subseteq has

\* A bridge exists from the fork on, unfiltered and inside the namespace.
BridgeInv ==
  /\ network = "Proxied" /\ (pc \in Restricting \/ (image = "target" /\ ~Ended)) =>
       /\ bridge = "serving"
       /\ Len(bound) = Len(Routes)
       /\ env.policy = "absent" /\ env.stage = "unset"
       /\ \A i \in DOMAIN Routes : env.proxy[Routes[i]] = bound[i]
  /\ bridge # "none" => bridgeSocks = Families /\ "pidns" \in has
  /\ bridge = "killed" => Ended
  /\ pc \in {"bind", "fork"} => bridge = "none" /\ socks = Families

\* No filter, listener or bridge before the inner stage.
FilterInv ==
  pc \in {"findBwrap", "masks", "execBwrap", "bwrap"}
    \/ (pc = "main" /\ image = "helper") =>
      socks = Families /\ bridge = "none" /\ bound = <<>>

\* What is in force before each of the last steps.
ForceInv ==
  /\ pc \in {"seccomp", "landlock", "exec"} => "noNewPrivs" \in has
  /\ pc \in {"landlock", "exec"} /\ network = "Blocked" => "inet" \notin socks
  /\ pc = "exec" /\ network # "Proxied" => "landlock" \in has
  /\ pc = "exec" /\ network = "Proxied" => "unix" \notin socks

\* Only bwrap ends with a code of its own before the target runs, and the
\* target is started clean.
ImageInv ==
  /\ image = "target" =>
       /\ pc \in {"main", "app", "dead"}
       /\ env.policy = "absent" /\ env.stage = "unset" /\ argv0 = "path"
  /\ pc = "app" => image = "target"
  /\ SetupStatus

IInv ==
  /\ TypeOK
  /\ BoundInv
  /\ LandlockChain
  /\ ProxiedChain
  /\ BridgeInv
  /\ FilterInv
  /\ ForceInv
  /\ ImageInv

-----------------------------------------------------------------------------

\* The process run() spawns is a helper that has done nothing yet.
LEMMA InitIInv == Init => IInv
  <1> SUFFICES ASSUME Init PROVE IInv
    OBVIOUS
  <1> USE HelperAssumption, PortAssumption
  <1>1. <<>> \in Seq(Ports) /\ Len(<<>>) = 0 /\ Len(Routes) \in Nat
    BY DEF Init
  <1>2. TypeOK
    BY <1>1 DEF Init, TypeOK, Setup, Restrictions, Families
  <1>3. BoundInv /\ LandlockChain /\ ProxiedChain
    BY DEF Init, BoundInv, LandlockChain, ProxiedChain, Restricting
  <1>4. BridgeInv /\ FilterInv /\ ForceInv /\ ImageInv
    BY DEF Init, BridgeInv, FilterInv, ForceInv, ImageInv, Restricting, Ended,
           SetupStatus
  <1>5. QED
    BY <1>2, <1>3, <1>4 DEF IInv

\* An end of the process, in the helper's, bwrap's or the target's own way.
LEMMA DieKeeps ==
  ASSUME IInv, NEW code, die(code),
         code \in {"exit", "signal", "sigkill", "121", "122", "123"},
         \/ image = "target"
         \/ code \in {"121", "122", "123", "sigkill"}
         \/ code = "exit" /\ image = "bwrap"
  PROVE  IInv'
  <1> USE DEF IInv, die, stageVars, bridgeVars
  <1>1. TypeOK'
    BY DEF TypeOK
  <1>2. BoundInv' /\ LandlockChain' /\ ProxiedChain'
    BY DEF BoundInv, LandlockChain, ProxiedChain, Restricting
  <1>3. BridgeInv' /\ FilterInv' /\ ForceInv'
    BY DEF BridgeInv, FilterInv, ForceInv, Restricting, Ended
  <1>4. ImageInv'
    BY DEF ImageInv, SetupStatus, Ended
  <1>5. QED
    BY <1>1, <1>2, <1>3, <1>4

\* prctl(PR_SET_NO_NEW_PRIVS).
LEMMA NnpKeeps == IInv /\ set_no_new_privs => IInv'
  <1> SUFFICES ASSUME IInv, set_no_new_privs PROVE IInv'
    OBVIOUS
  <1> USE DEF IInv, stageVars, bridgeVars, Restricting, Ended
  <1>1. CASE die(HELPER_EXIT_NOT_ENFORCED)
    <2>1. HELPER_EXIT_NOT_ENFORCED \in {"121", "122", "123", "sigkill"}
      BY DEF HELPER_EXIT_NOT_ENFORCED
    <2>2. QED
      BY <1>1, <2>1, DieKeeps
  <1>2. CASE ~die(HELPER_EXIT_NOT_ENFORCED)
    <2>1. TypeOK'
      BY <1>2
      DEF set_no_new_privs, Enforced, Then, TypeOK, Setup, Restrictions, Families
    <2>2. BoundInv' /\ LandlockChain' /\ ProxiedChain'
      BY <1>2
      DEF set_no_new_privs, Enforced, Then, BoundInv, LandlockChain, ProxiedChain, Walls
    <2>3. BridgeInv' /\ FilterInv'
      BY <1>2
      DEF set_no_new_privs, Enforced, Then, BridgeInv, FilterInv, LandlockChain, ProxiedChain
    <2>4. ForceInv' /\ ImageInv'
      BY <1>2
      DEF set_no_new_privs, Enforced, Then, ForceInv, ImageInv, SetupStatus, LandlockChain, ProxiedChain
    <2>5. QED
      BY <2>1, <2>2, <2>3, <2>4
  <1>3. QED
    BY <1>1, <1>2

\* The Blocked filter, the ProxyRouted filter, or none.
LEMMA SeccompKeeps == IInv /\ install_seccomp => IInv'
  <1> SUFFICES ASSUME IInv, install_seccomp PROVE IInv'
    OBVIOUS
  <1> USE DEF IInv, stageVars, bridgeVars, Restricting, Ended
  <1>1. CASE die(HELPER_EXIT_NOT_ENFORCED)
    <2>1. HELPER_EXIT_NOT_ENFORCED \in {"121", "122", "123", "sigkill"}
      BY DEF HELPER_EXIT_NOT_ENFORCED
    <2>2. QED
      BY <1>1, <2>1, DieKeeps
  <1>2. CASE ~die(HELPER_EXIT_NOT_ENFORCED)
    <2>1. TypeOK'
      BY <1>2
      DEF install_seccomp, Enforced, Then, Allowed, TypeOK, Setup, Restrictions, Families
    <2>2. BoundInv' /\ LandlockChain' /\ ProxiedChain'
      BY <1>2
      DEF install_seccomp, Enforced, Then, Allowed, BoundInv, LandlockChain, ProxiedChain, Walls
    <2>3. BridgeInv' /\ FilterInv'
      BY <1>2
      DEF install_seccomp, Enforced, Then, Allowed, BridgeInv, FilterInv, LandlockChain, ProxiedChain
    <2>4. ForceInv' /\ ImageInv'
      BY <1>2
      DEF install_seccomp, Enforced, Then, Allowed, ForceInv, ImageInv, SetupStatus, LandlockChain, ProxiedChain
    <2>5. QED
      BY <2>1, <2>2, <2>3, <2>4
  <1>3. QED
    BY <1>1, <1>2

\* install_landlock.
LEMMA LandlockKeeps == IInv /\ install_landlock => IInv'
  <1> SUFFICES ASSUME IInv, install_landlock PROVE IInv'
    OBVIOUS
  <1> USE DEF IInv, stageVars, bridgeVars, Restricting, Ended
  <1>1. CASE die(HELPER_EXIT_NOT_ENFORCED)
    <2>1. HELPER_EXIT_NOT_ENFORCED \in {"121", "122", "123", "sigkill"}
      BY DEF HELPER_EXIT_NOT_ENFORCED
    <2>2. QED
      BY <1>1, <2>1, DieKeeps
  <1>2. CASE ~die(HELPER_EXIT_NOT_ENFORCED)
    <2>1. TypeOK'
      BY <1>2
      DEF install_landlock, Enforced, Then, TypeOK, Setup, Restrictions, Families
    <2>2. BoundInv' /\ LandlockChain' /\ ProxiedChain'
      BY <1>2
      DEF install_landlock, Enforced, Then, BoundInv, LandlockChain, ProxiedChain, Walls
    <2>3. BridgeInv' /\ FilterInv'
      BY <1>2
      DEF install_landlock, Enforced, Then, BridgeInv, FilterInv, LandlockChain, ProxiedChain
    <2>4. ForceInv' /\ ImageInv'
      BY <1>2
      DEF install_landlock, Enforced, Then, ForceInv, ImageInv, SetupStatus, LandlockChain, ProxiedChain
    <2>5. QED
      BY <2>1, <2>2, <2>3, <2>4
  <1>3. QED
    BY <1>1, <1>2

\* The exec that ends both chains.
LEMMA ExecTargetKeeps == IInv /\ exec_target => IInv'
  <1> SUFFICES ASSUME IInv, exec_target PROVE IInv'
    OBVIOUS
  <1> USE DEF IInv, stageVars, bridgeVars, Restricting, Ended
  <1>1. CASE die(HELPER_EXIT_EXEC_FAILED)
    <2>1. HELPER_EXIT_EXEC_FAILED \in {"121", "122", "123", "sigkill"}
      BY DEF HELPER_EXIT_EXEC_FAILED
    <2>2. QED
      BY <1>1, <2>1, DieKeeps
  <1>2. CASE ~die(HELPER_EXIT_EXEC_FAILED)
    <2>1. TypeOK'
      BY <1>2
      DEF exec_target, TypeOK, Setup, Restrictions, Families
    <2>2. BoundInv' /\ LandlockChain' /\ ProxiedChain'
      BY <1>2
      DEF exec_target, BoundInv, LandlockChain, ProxiedChain, TypeOK, Walls
    <2>3. BridgeInv' /\ FilterInv'
      BY <1>2
      DEF exec_target, BridgeInv, FilterInv, LandlockChain, ProxiedChain
    <2>4. ForceInv' /\ ImageInv'
      BY <1>2
      DEF exec_target, ForceInv, ImageInv, BridgeInv, LandlockChain, ProxiedChain, TypeOK,
          SetupStatus
    <2>5. QED
      BY <2>1, <2>2, <2>3, <2>4
  <1>3. QED
    BY <1>1, <1>2

\* The outer stage hands the inner stage its mode and its marker.
LEMMA FindBwrapKeeps == IInv /\ find_bwrap => IInv'
  <1> SUFFICES ASSUME IInv, find_bwrap PROVE IInv'
    OBVIOUS
  <1> USE DEF IInv, stageVars, bridgeVars, Restricting, Ended
  <1>1. CASE die(HELPER_EXIT_NOT_ENFORCED)
    <2>1. HELPER_EXIT_NOT_ENFORCED \in {"121", "122", "123", "sigkill"}
      BY DEF HELPER_EXIT_NOT_ENFORCED
    <2>2. QED
      BY <1>1, <2>1, DieKeeps
  <1>2. CASE ~die(HELPER_EXIT_NOT_ENFORCED)
    <2>1. TypeOK'
      BY <1>2
      DEF find_bwrap, into_proxied_inner, LandlockChain, ProxiedChain, TypeOK, Setup
    <2>2. BoundInv' /\ LandlockChain' /\ ProxiedChain'
      BY <1>2
      DEF find_bwrap, into_proxied_inner, BoundInv, LandlockChain, ProxiedChain, TypeOK
    <2>3. BridgeInv' /\ FilterInv'
      BY <1>2
      DEF find_bwrap, into_proxied_inner, BridgeInv, FilterInv, LandlockChain, ProxiedChain
    <2>4. ForceInv' /\ ImageInv'
      BY <1>2
      DEF find_bwrap, into_proxied_inner, ForceInv, ImageInv, SetupStatus, LandlockChain, ProxiedChain
    <2>5. QED
      BY <2>1, <2>2, <2>3, <2>4
  <1>3. QED
    BY <1>1, <1>2

\* The bwrap arguments, with all masks.
LEMMA MasksKeeps == IInv /\ expand_deny_read_masks => IInv'
  <1> SUFFICES ASSUME IInv, expand_deny_read_masks PROVE IInv'
    OBVIOUS
  <1> USE DEF IInv, stageVars, bridgeVars, Restricting, Ended
  <1>1. CASE die(HELPER_EXIT_NOT_ENFORCED)
    <2>1. HELPER_EXIT_NOT_ENFORCED \in {"121", "122", "123", "sigkill"}
      BY DEF HELPER_EXIT_NOT_ENFORCED
    <2>2. QED
      BY <1>1, <2>1, DieKeeps
  <1>2. CASE ~die(HELPER_EXIT_NOT_ENFORCED)
    <2>1. TypeOK'
      BY <1>2
      DEF expand_deny_read_masks, build_bwrap_argv, TypeOK, Setup, Restrictions, Families
    <2>2. BoundInv' /\ LandlockChain' /\ ProxiedChain'
      BY <1>2
      DEF expand_deny_read_masks, build_bwrap_argv, BoundInv, LandlockChain, ProxiedChain, Walls
    <2>3. BridgeInv' /\ FilterInv'
      BY <1>2
      DEF expand_deny_read_masks, build_bwrap_argv, BridgeInv, FilterInv, LandlockChain, ProxiedChain
    <2>4. ForceInv' /\ ImageInv'
      BY <1>2
      DEF expand_deny_read_masks, build_bwrap_argv, ForceInv, ImageInv, SetupStatus, LandlockChain, ProxiedChain
    <2>5. QED
      BY <2>1, <2>2, <2>3, <2>4
  <1>3. QED
    BY <1>1, <1>2

\* exec of bwrap.
LEMMA ExecBwrapKeeps == IInv /\ exec_bwrap => IInv'
  <1> SUFFICES ASSUME IInv, exec_bwrap PROVE IInv'
    OBVIOUS
  <1> USE DEF IInv, stageVars, bridgeVars, Restricting, Ended
  <1>1. CASE die(HELPER_EXIT_EXEC_FAILED)
    <2>1. HELPER_EXIT_EXEC_FAILED \in {"121", "122", "123", "sigkill"}
      BY DEF HELPER_EXIT_EXEC_FAILED
    <2>2. QED
      BY <1>1, <2>1, DieKeeps
  <1>2. CASE ~die(HELPER_EXIT_EXEC_FAILED)
    <2>1. TypeOK'
      BY <1>2
      DEF exec_bwrap, TypeOK, Setup, Restrictions, Families
    <2>2. BoundInv' /\ LandlockChain' /\ ProxiedChain'
      BY <1>2
      DEF exec_bwrap, BoundInv, LandlockChain, ProxiedChain, Walls
    <2>3. BridgeInv' /\ FilterInv'
      BY <1>2
      DEF exec_bwrap, BridgeInv, FilterInv, LandlockChain, ProxiedChain
    <2>4. ForceInv' /\ ImageInv'
      BY <1>2
      DEF exec_bwrap, ForceInv, ImageInv, SetupStatus, LandlockChain, ProxiedChain
    <2>5. QED
      BY <2>1, <2>2, <2>3, <2>4
  <1>3. QED
    BY <1>1, <1>2

\* bwrap builds its walls and execs the helper again.
LEMMA BwrapKeeps == IInv /\ Bwrap => IInv'
  <1> SUFFICES ASSUME IInv, Bwrap PROVE IInv'
    OBVIOUS
  <1> USE DEF IInv, stageVars, bridgeVars, Restricting, Ended
  <1>1. CASE die("exit")
    BY <1>1, DieKeeps DEF Bwrap, ProxiedChain, LandlockChain
  <1>2. CASE ~die("exit")
    <2>1. TypeOK'
      BY <1>2
      DEF Bwrap, TypeOK, Setup, Restrictions, Families
    <2>2. BoundInv' /\ LandlockChain' /\ ProxiedChain'
      BY <1>2
      DEF Bwrap, BoundInv, LandlockChain, ProxiedChain, Walls
    <2>3. BridgeInv' /\ FilterInv'
      BY <1>2
      DEF Bwrap, BridgeInv, FilterInv, LandlockChain, ProxiedChain
    <2>4. ForceInv' /\ ImageInv'
      BY <1>2
      DEF Bwrap, ForceInv, ImageInv, SetupStatus, LandlockChain, ProxiedChain
    <2>5. QED
      BY <2>1, <2>2, <2>3, <2>4
  <1>3. QED
    BY <1>1, <1>2

\* One more listener.
LEMMA BindKeeps == IInv /\ bind_loopback_listener => IInv'
  <1> SUFFICES ASSUME IInv, bind_loopback_listener PROVE IInv'
    OBVIOUS
  <1> USE DEF IInv, stageVars, bridgeVars, Restricting, Ended
  <1>1. CASE die(HELPER_EXIT_NOT_ENFORCED)
    <2>1. HELPER_EXIT_NOT_ENFORCED \in {"121", "122", "123", "sigkill"}
      BY DEF HELPER_EXIT_NOT_ENFORCED
    <2>2. QED
      BY <1>1, <2>1, DieKeeps
  <1>2. CASE ~die(HELPER_EXIT_NOT_ENFORCED)
    <2>a. PICK p \in Ports : bound' = Append(bound, p)
      BY <1>2 DEF bind_loopback_listener
    <2>b. Len(Routes) \in Nat
      BY HelperAssumption
    <2>c. bound \in Seq(Ports) /\ Len(bound) < Len(Routes)
      BY DEF TypeOK, BoundInv, bind_loopback_listener
    <2>d. bound' \in Seq(Ports) /\ Len(bound') = Len(bound) + 1
      BY <2>a, <2>c
    <2>e. pc' \in {"bind", "fork"} /\ (pc' = "fork" <=> Len(bound) + 1 = Len(Routes))
      BY <1>2 DEF bind_loopback_listener, AllBound, Then
    <2>f. UNCHANGED <<network, image, mode, argv0, env, bwrapArgs, has, socks, lo,
                      bridge, bridgeSocks, status>>
      BY <1>2 DEF bind_loopback_listener
    <2>g. Len(bound') <= Len(Routes)
      BY <2>b, <2>c, <2>d
    <2>1. TypeOK'
      BY <2>d, <2>e, <2>f, <2>g DEF TypeOK, Setup
    <2>2. BoundInv' /\ LandlockChain' /\ ProxiedChain'
      BY <1>2, <2>b, <2>c, <2>d, <2>e
      DEF bind_loopback_listener, BoundInv, LandlockChain, ProxiedChain, Walls
    <2>3. BridgeInv' /\ FilterInv'
      BY <1>2
      DEF bind_loopback_listener, AllBound, Then, BridgeInv, FilterInv, LandlockChain, ProxiedChain
    <2>4. ForceInv' /\ ImageInv'
      BY <1>2
      DEF bind_loopback_listener, AllBound, Then, ForceInv, ImageInv, SetupStatus, LandlockChain, ProxiedChain
    <2>5. QED
      BY <2>1, <2>2, <2>3, <2>4
  <1>3. QED
    BY <1>1, <1>2

\* Loopback comes up.
LEMMA LoopbackKeeps == IInv /\ ensure_loopback_up => IInv'
  <1> SUFFICES ASSUME IInv, ensure_loopback_up PROVE IInv'
    OBVIOUS
  <1> USE DEF IInv, stageVars, bridgeVars, Restricting, Ended
  <1>1. TypeOK'
    BY HelperAssumption
    DEF ensure_loopback_up, TypeOK, Setup, Restrictions, Families
  <1>2. BoundInv' /\ LandlockChain' /\ ProxiedChain'
    BY HelperAssumption
    DEF ensure_loopback_up, BoundInv, LandlockChain, ProxiedChain, Walls
  <1>3. BridgeInv' /\ FilterInv'
    BY HelperAssumption
    DEF ensure_loopback_up, BridgeInv, FilterInv, LandlockChain, ProxiedChain
  <1>4. ForceInv' /\ ImageInv'
    BY HelperAssumption
    DEF ensure_loopback_up, ForceInv, ImageInv, SetupStatus, LandlockChain, ProxiedChain
  <1>5. QED
    BY <1>1, <1>2, <1>3, <1>4

\* The fork, and the parent's rewritten and scrubbed environment.
LEMMA ForkKeeps == IInv /\ fork_bridge => IInv'
  <1> SUFFICES ASSUME IInv, fork_bridge PROVE IInv'
    OBVIOUS
  <1> USE DEF IInv, stageVars, bridgeVars, Restricting, Ended
  <1>1. CASE die(HELPER_EXIT_NOT_ENFORCED)
    <2>1. HELPER_EXIT_NOT_ENFORCED \in {"121", "122", "123", "sigkill"}
      BY DEF HELPER_EXIT_NOT_ENFORCED
    <2>2. QED
      BY <1>1, <2>1, DieKeeps
  <1>2. CASE ~die(HELPER_EXIT_NOT_ENFORCED)
    <2>a. Len(bound) = Len(Routes) /\ bound \in Seq(Ports) /\ Routes \in Seq(STRING)
      BY HelperAssumption DEF fork_bridge, BoundInv, TypeOK
    <2>b. \A i \in DOMAIN Routes : env_rewrites[Routes[i]] = bound[i]
      BY <2>a, HelperAssumption DEF env_rewrites, Keys
    <2>c. \A k \in Keys : env_rewrites[k] \in Ports
      <3> SUFFICES ASSUME NEW k \in Keys PROVE env_rewrites[k] \in Ports
        OBVIOUS
      <3>1. PICK i \in DOMAIN Routes : Routes[i] = k
        BY DEF Keys
      <3>2. i \in 1 .. Len(bound)
        BY <2>a
      <3>3. QED
        BY <3>1, <3>2, <2>a, <2>b
    <2>d. env_rewrites \in [Keys -> Ports]
      BY <2>c DEF env_rewrites
    <2>e. /\ env' \in [policy : {"absent"}, stage : {"unset"}, proxy : [Keys -> Ports]]
          /\ env'.policy = "absent" /\ env'.stage = "unset"
          /\ env'.proxy = env_rewrites
      BY <1>2, <2>d DEF fork_bridge, scrubbed_env, TypeOK
    <2>f. /\ pc' = "nnp" /\ bridge' = "serving" /\ bridgeSocks' = socks
          /\ UNCHANGED <<network, image, mode, argv0, bwrapArgs, has, socks, lo,
                         bound, status>>
      BY <1>2 DEF fork_bridge, Then
    <2>1. TypeOK'
      BY <2>e, <2>f DEF TypeOK, Setup
    <2>2. BoundInv' /\ LandlockChain' /\ ProxiedChain'
      BY <2>e, <2>f DEF fork_bridge, BoundInv, LandlockChain, ProxiedChain
    <2>3. BridgeInv' /\ FilterInv'
      BY <2>a, <2>b, <2>e, <2>f
      DEF fork_bridge, BridgeInv, FilterInv, LandlockChain, ProxiedChain, Walls
    <2>4. ForceInv' /\ ImageInv'
      BY <2>e, <2>f
      DEF fork_bridge, ForceInv, ImageInv, SetupStatus, LandlockChain, ProxiedChain
    <2>5. QED
      BY <2>1, <2>2, <2>3, <2>4
  <1>3. QED
    BY <1>1, <1>2

\* A fresh image asks whether it is a helper: it is one exactly in the stages,
\* and the target is not.
LEMMA RunIfInvokedKeeps == IInv /\ run_if_invoked => IInv'
  <1> SUFFICES ASSUME IInv, run_if_invoked PROVE IInv'
    OBVIOUS
  <1> USE DEF IInv, Restricting, Ended, bridgeVars
  <1>1. CASE image = "target"
    <2>1. ~Invoked
      BY <1>1 DEF ImageInv, Invoked
    <2>2. /\ pc = "main" /\ pc' = "app"
          /\ UNCHANGED <<network, image, mode, argv0, env, bwrapArgs, has, socks,
                         lo, bound, bridge, bridgeSocks, status>>
      BY <2>1 DEF run_if_invoked
    <2>3. TypeOK'
      BY <2>2 DEF TypeOK
    <2>4. BoundInv' /\ LandlockChain' /\ ProxiedChain'
      BY <1>1, <2>2 DEF BoundInv, LandlockChain, ProxiedChain
    <2>5. BridgeInv' /\ FilterInv'
      BY <1>1, <2>2 DEF BridgeInv, FilterInv
    <2>6. ForceInv' /\ ImageInv'
      BY <1>1, <2>2 DEF ForceInv, ImageInv, SetupStatus
    <2>7. QED
      BY <2>3, <2>4, <2>5, <2>6
  <1>2. CASE image # "target"
    <2>1. pc = "main" /\ image = "helper"
      BY <1>2 DEF run_if_invoked, LandlockChain, ProxiedChain, TypeOK
    <2>2. Invoked /\ env.policy \in {"Landlock", "ProxiedOuter", "ProxiedInner"}
      BY <2>1 DEF Invoked, LandlockChain, ProxiedChain
    <2>3. /\ pc' = FirstStep(env.policy) /\ mode' = env.policy
          /\ UNCHANGED <<network, image, argv0, env, bwrapArgs, has, socks, lo,
                         bound, bridge, bridgeSocks, status>>
      BY <2>2 DEF run_if_invoked
    <2>4. TypeOK'
      BY <2>2, <2>3 DEF TypeOK, FirstStep, Setup
    <2>5. LandlockChain' /\ ProxiedChain'
      BY <2>1, <2>2, <2>3 DEF LandlockChain, ProxiedChain, FirstStep
    <2>a. Len(bound) = 0 /\ Len(Routes) \in Nat /\ Len(Routes) > 0
      BY <2>1, HelperAssumption DEF FilterInv
    <2>6. BoundInv'
      BY <2>1, <2>2, <2>3, <2>a DEF BoundInv, FirstStep
    <2>7. BridgeInv' /\ FilterInv'
      BY <2>1, <2>2, <2>3 DEF BridgeInv, FilterInv, FirstStep, LandlockChain, ProxiedChain
    <2>8. ForceInv' /\ ImageInv'
      BY <2>1, <2>2, <2>3 DEF ForceInv, ImageInv, SetupStatus, FirstStep
    <2>9. QED
      BY <2>4, <2>5, <2>6, <2>7, <2>8
  <1>3. QED
    BY <1>1, <1>2

\* Every step keeps the strengthening: one of the stages above, the target's own
\* end, a kill by the parent at any point, or the kernel reaping the namespace.
LEMMA NextIInv == IInv /\ [Next]_vars => IInv'
  <1> SUFFICES ASSUME IInv, [Next]_vars PROVE IInv'
    OBVIOUS
  <1>1. CASE Stage
    BY <1>1, NnpKeeps, SeccompKeeps, LandlockKeeps, ExecTargetKeeps,
       FindBwrapKeeps, MasksKeeps, ExecBwrapKeeps, BwrapKeeps, BindKeeps,
       LoopbackKeeps, ForkKeeps, RunIfInvokedKeeps DEF Stage
  <1>2. CASE TargetExits
    <2>1. image = "target"
      BY <1>2 DEF TargetExits, IInv, ImageInv
    <2>2. PICK code \in {"exit", "signal", "121", "122", "123"} : die(code)
      BY <1>2 DEF TargetExits
    <2>3. QED
      BY <2>1, <2>2, DieKeeps
  <1>3. CASE Killed
    BY <1>3, DieKeeps DEF Killed
  <1>4. CASE NamespaceDies
    <2> USE <1>4 DEF IInv, NamespaceDies, stageVars, Ended, Restricting
    <2>1. TypeOK'
      BY DEF TypeOK
    <2>2. BoundInv' /\ LandlockChain' /\ ProxiedChain'
      BY DEF BoundInv, LandlockChain, ProxiedChain
    <2>3. BridgeInv' /\ FilterInv' /\ ForceInv' /\ ImageInv'
      BY DEF BridgeInv, FilterInv, ForceInv, ImageInv, SetupStatus
    <2>4. QED
      BY <2>1, <2>2, <2>3
  <1>5. CASE UNCHANGED vars
    <2> USE <1>5 DEF IInv, vars, Ended, Restricting
    <2>1. TypeOK'
      BY DEF TypeOK
    <2>2. BoundInv' /\ LandlockChain' /\ ProxiedChain'
      BY DEF BoundInv, LandlockChain, ProxiedChain
    <2>3. BridgeInv' /\ FilterInv' /\ ForceInv' /\ ImageInv'
      BY DEF BridgeInv, FilterInv, ForceInv, ImageInv, SetupStatus
    <2>4. QED
      BY <2>1, <2>2, <2>3
  <1>6. QED
    BY <1>1, <1>2, <1>3, <1>4, <1>5 DEF Next

\* The strengthening holds in every reachable state of the chain.
LEMMA Invariance == Spec => []IInv
  BY InitIInv, NextIInv, PTL DEF Spec

-----------------------------------------------------------------------------
(* What the invariant gives.                                               *)

\* Whatever routes and ports, the process's image, environment, credentials and
\* listeners stay in their domains through up to four execs and a fork.
THEOREM TypeCorrect == Spec => []TypeOK
  <1>1. IInv => TypeOK
    BY DEF IInv
  <1>2. QED
    BY <1>1, Invariance, PTL

\* Whatever routes and ports, a fresh image runs a helper's code exactly if the
\* chain is still in its set-up (run_if_invoked).
THEOREM StagesCorrect == Spec => []StageRecognised
  <1>1. IInv => StageRecognised
    BY DEF IInv, ImageInv, StageRecognised, Invoked, LandlockChain, ProxiedChain,
           Restricting, Setup
  <1>2. QED
    BY <1>1, Invariance, PTL

\* A helper that ends before its target does so with a reserved exit code, by
\* our SIGKILL, or in bwrap: what the parent's classify_helper_exit relies on.
THEOREM FailuresRecognisable == Spec => []SetupStatus
  <1>1. IInv => SetupStatus
    BY DEF IInv, ImageInv
  <1>2. QED
    BY <1>1, Invariance, PTL

\* Whatever routes and ports, the forked bridge keeps AF_UNIX, which the target's
\* filter denies (run_proxied_inner forks before it restricts).
THEOREM BridgeCanDial == Spec => []BridgeUnfiltered
  <1>1. IInv => BridgeUnfiltered
    BY DEF IInv, BridgeInv, BridgeUnfiltered
  <1>2. QED
    BY <1>1, Invariance, PTL

\* Every proxy variable the target sees names the listener bound for that very
\* route, and the bridge serves it (run_proxied_inner: bind, fork, rewrite).
THEOREM BridgeCorrect == Spec => []RoutesAdvertised
  <1>1. IInv => RoutesAdvertised
    BY DEF IInv, BridgeInv, RoutesAdvertised
  <1>2. QED
    BY <1>1, Invariance, PTL

-----------------------------------------------------------------------------
(* Helper implements Enforcement.                                          *)

\* The spawned helper is a process under no restriction that has not started.
LEMMA InitRefines == Init => Abstract!Init
  BY HelperAssumption
  DEF Init, Abstract!Init, InForce, Demands, Restrictions, Phase, Ended, Families

\* While the set-up lasts, restrictions only grow, which is the abstract step.
LEMMA Growing ==
  ASSUME IInv, IInv', network' = network, has \subseteq has', socks' \subseteq socks,
         Phase = "setup", Phase' = "setup"
  PROVE  Abstract!Restrict
  <1>1. Demands' = Demands
    BY DEF Demands
  <1>2. InForce \subseteq InForce'
    BY DEF InForce
  <1>3. InForce' \in SUBSET Restrictions
    BY DEF InForce, IInv, TypeOK, Restrictions
  <1>4. QED
    BY <1>1, <1>2, <1>3 DEF Abstract!Restrict

\* An end leaves what is in force alone.
LEMMA Ending ==
  ASSUME IInv, NEW code, die(code), ~Ended
  PROVE  Abstract!Refuse \/ Abstract!Stop
  <1>1. Demands' = Demands /\ InForce' = InForce
    BY DEF die, Demands, InForce
  <1>2. image' = image /\ Ended'
    BY DEF die, stageVars, Ended
  <1>3. CASE image = "target"
    BY <1>1, <1>2, <1>3 DEF Phase, Abstract!Stop
  <1>4. CASE image # "target"
    BY <1>1, <1>2, <1>4 DEF Phase, Abstract!Refuse
  <1>5. QED
    BY <1>3, <1>4

\* A stage that neither dies nor execs the target only adds restrictions.
LEMMA StageGrows ==
  ASSUME IInv, Stage, ~exec_target, image # "target",
         ~(\E code : die(code) /\ ~Ended)
  PROVE  /\ network' = network /\ has \subseteq has' /\ socks' \subseteq socks
         /\ image' # "target" /\ ~Ended /\ ~Ended'
  <1> USE DEF Ended, Enforced, Then, stageVars
  <1>1. CASE run_if_invoked
    <2>1. pc = "main" /\ image = "helper"
      BY <1>1 DEF run_if_invoked, IInv, LandlockChain, ProxiedChain, TypeOK
    <2>2. Invoked /\ env.policy \in {"Landlock", "ProxiedOuter", "ProxiedInner"}
      BY <2>1 DEF Invoked, IInv, LandlockChain, ProxiedChain
    <2>3. QED
      BY <1>1, <2>1, <2>2 DEF run_if_invoked, FirstStep
  <1>2. CASE set_no_new_privs
    BY <1>2 DEF set_no_new_privs
  <1>3. CASE install_seccomp
    BY <1>3 DEF install_seccomp
  <1>4. CASE install_landlock
    BY <1>4 DEF install_landlock
  <1>5. CASE find_bwrap
    BY <1>5 DEF find_bwrap
  <1>6. CASE expand_deny_read_masks
    BY <1>6 DEF expand_deny_read_masks
  <1>7. CASE exec_bwrap
    BY <1>7 DEF exec_bwrap
  <1>8. CASE Bwrap
    BY <1>8 DEF Bwrap
  <1>9. CASE bind_loopback_listener
    BY <1>9 DEF bind_loopback_listener
  <1>10. CASE ensure_loopback_up
    BY <1>10 DEF ensure_loopback_up
  <1>11. CASE fork_bridge
    BY <1>11 DEF fork_bridge
  <1>12. QED
    BY <1>1, <1>2, <1>3, <1>4, <1>5, <1>6, <1>7, <1>8, <1>9, <1>10, <1>11
    DEF Stage

\* Every action is a step of Enforcement or leaves its three variables alone.
LEMMA StepRefines == IInv /\ IInv' /\ [Next]_vars => [Abstract!Next]_Abstract!vars
  <1> SUFFICES ASSUME IInv, IInv', [Next]_vars PROVE [Abstract!Next]_Abstract!vars
    OBVIOUS
  <1> USE DEF Abstract!Next
  <1>1. CASE \E code : die(code) /\ ~Ended
    BY <1>1, Ending
  <1>2. CASE Stage /\ ~(\E code : die(code) /\ ~Ended)
    <2>1. CASE exec_target
      <3>1. pc = "exec" /\ image' = "target" /\ pc' = "main"
            /\ UNCHANGED <<network, has, socks>>
        BY <1>2, <2>1 DEF exec_target, Ended
      <3>2. image # "target"
        BY <3>1 DEF IInv, ImageInv
      <3>3. Demands \subseteq InForce
        <4> USE <3>1 DEF IInv, ForceInv, Demands, InForce
        <4>1. CASE network = "Proxied"
          BY <4>1 DEF ProxiedChain, Restricting, Walls
        <4>2. CASE network = "Blocked"
          BY <4>2
        <4>3. CASE network = "Allowed"
          BY <4>3
        <4>4. QED
          BY <4>1, <4>2, <4>3, HelperAssumption DEF TypeOK
      <3>4. Demands' = Demands /\ InForce' = InForce
        BY <3>1 DEF Demands, InForce
      <3>5. Phase = "setup" /\ Phase' = "running"
        BY <3>1, <3>2 DEF Phase, Ended
      <3>6. QED
        BY <3>3, <3>4, <3>5 DEF Abstract!Start
    <2>2. CASE run_if_invoked /\ image = "target"
      <3>1. UNCHANGED <<network, image, has, socks>> /\ ~Ended /\ ~Ended'
        BY <2>2 DEF run_if_invoked, Ended, Invoked, IInv, ImageInv
      <3>2. QED
        BY <3>1, <2>2 DEF Phase, Demands, InForce, Abstract!vars
    <2>3. CASE ~exec_target /\ image # "target"
      <3>1. /\ network' = network /\ has \subseteq has' /\ socks' \subseteq socks
            /\ image' # "target" /\ ~Ended /\ ~Ended'
        BY <1>2, <2>3, StageGrows
      <3>2. QED
        BY <3>1, <2>3, Growing DEF Phase
    <2>4. CASE ~exec_target /\ ~run_if_invoked /\ image = "target"
      <3>1. pc \in {"main", "app", "dead"}
        BY <2>4 DEF IInv, ImageInv
      <3>2. FALSE
        BY <1>2, <2>4, <3>1
        DEF Stage, set_no_new_privs, install_seccomp, install_landlock, find_bwrap,
            expand_deny_read_masks, exec_bwrap, Bwrap, bind_loopback_listener,
            ensure_loopback_up, fork_bridge
      <3>3. QED
        BY <3>2
    <2>5. QED
      BY <1>2, <2>1, <2>2, <2>3, <2>4
  <1>3. CASE NamespaceDies
    BY <1>3 DEF NamespaceDies, stageVars, Phase, Ended, Demands, InForce, Abstract!vars
  <1>4. CASE UNCHANGED vars
    BY <1>4 DEF vars, Phase, Ended, Demands, InForce, Abstract!vars
  <1>5. QED
    BY <1>1, <1>2, <1>3, <1>4 DEF Next, TargetExits, Killed, Ended

\* The chain implements Enforcement: on no path, whichever step fails and
\* whenever the parent kills, does the target start before all its policy
\* demands is in force, and nothing in force is ever given up.
THEOREM Refinement == Spec => ImplementsEnforcement
  <1>1. Spec => Abstract!Init /\ [][Abstract!Next]_Abstract!vars
    BY InitRefines, StepRefines, Invariance, PTL DEF Spec
  <1>2. QED
    BY <1>1 DEF ImplementsEnforcement, Abstract!Spec
=============================================================================
