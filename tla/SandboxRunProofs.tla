--------------------------- MODULE SandboxRunProofs ---------------------------
(* Theorems about SandboxRun: what run() has going while a command runs, and *)
(* what is left of it at the moment it is over.                              *)
EXTENDS SandboxRun, TLAPS

Up == {"accepting", "ended"}   \* a loop nobody has aborted

\* What CommandServed asks for, said of run() rather than of the command.
Served ==
  /\ Demanded \subseteq held
  /\ \A l \in Demanded : loop[l] \in Up
  /\ Linux /\ network = "Proxied" => dir = "exists"

\* How far maybe_start_proxy and prepare_host_bridge have come.
Progress ==
  /\ fut \in {"server", "bridge", "routes"} => network = "Proxied"
  /\ fut \in {"start", "server", "bridge"} => bound = 0
  /\ fut \in {"start", "server"} => held = {}
  /\ fut \in {"bridge", "routes"} => Linux /\ held = {0} /\ loop[0] \in Up
  /\ fut = "routes" =>
       /\ dir = "exists"
       /\ bound < NumRoutes
       /\ \A l \in 1..bound : loop[l] \in Up
  /\ fut \in {"transform", "spawn", "capture"} => Served
  /\ child = "running" => fut = "capture"

\* A guard knows every loop that accepts, except while the routes are bound.
Guarded ==
  ~Over /\ fut # "routes" => \A l \in Loops : loop[l] = "accepting" => l \in held

\* The moment run() is over, every guard has dropped: no loop still accepts
\* and the sockets are gone, unless prepare_host_bridge failed.
Released ==
  Over =>
    /\ held = {} /\ dir # "exists"
    /\ fut # "bridgeFailed" => \A l \in Loops : loop[l] # "accepting"

ConnType ==
  /\ client \in [Conns -> {"none", "open", "closed"}]
  /\ via \in [Conns -> Loops]
  /\ relay \in [Conns -> {"none", "queued", "connecting", "copying", "ended"}]
  /\ serve \in [Conns -> {"none", "queued", "header", "dialling", "tunnel", "ended"}]
  /\ peer \in [Conns -> {"none", "open", "closed"}]

IInv == TypeOK /\ Progress /\ Guarded /\ Released

-----------------------------------------------------------------------------

\* Nothing is started yet.
LEMMA InitIInv == Init => IInv
  BY RunAssumption
  DEF Init, IInv, TypeOK, Progress, Guarded, Released, Over, Loops, Linux

\* Steps of the connections, the peers and the namespace do not touch run().
LEMMA QuietKeeps ==
  ASSUME IInv, ConnType',
         UNCHANGED <<platform, network, fut, bound, held, dir, loop, child>>
  PROVE  IInv'
  BY DEF IInv, TypeOK, ConnType, Progress, Guarded, Released, Served, Demanded,
         Over, Linux

\* Every exit: the guard drops, and the command, if any, is dead before that.
LEMMA LeaveKeeps ==
  ASSUME IInv, ~Over,
         NEW how \in {"returned", "failed", "bridgeFailed", "dropped"},
         fut = "routes" => how = "bridgeFailed",
         Leave(how), child' \in {child, "dead"}, child' # "running"
  PROVE  IInv'
  <1> USE DEF Leave, DropGuard, IInv
  <1>1. loop' \in [Loops -> {"none", "accepting", "cancelled", "ended"}]
    BY DEF Aborted, TypeOK
  <1>2. TypeOK'
    BY <1>1 DEF TypeOK, connVars
  <1>3. Progress'
    BY DEF Progress
  <1>4. Guarded'
    BY DEF Guarded, Over
  <1>5. how # "bridgeFailed" => \A l \in Loops : loop'[l] # "accepting"
    BY DEF Aborted, Guarded, TypeOK
  <1>6. Released'
    BY <1>5 DEF Released, Over
  <1>7. QED
    BY <1>2, <1>3, <1>4, <1>6

\* maybe_start_proxy decides what it needs.
LEMMA StartKeeps == IInv /\ Start => IInv'
  <1> SUFFICES ASSUME IInv, Start PROVE IInv'
    OBVIOUS
  <1>1. child # "running"
    BY DEF IInv, Progress, Start
  <1>2. CASE Leave("failed") /\ UNCHANGED child
    BY <1>1, <1>2, LeaveKeeps DEF Start, Over, IInv, TypeOK
  <1>3. CASE /\ \/ fut' = "transform" /\ network = "Direct"
                \/ fut' = "server" /\ network = "Proxied"
             /\ UNCHANGED <<platform, network, loop, bound, held, dir, child, connVars>>
    BY <1>3 DEF Start, IInv, TypeOK, connVars, Progress, Served, Demanded, Linux,
                Guarded, Released, Over
  <1>4. QED
    BY <1>2, <1>3 DEF Start

\* The proxy accepts before anything else of the run exists.
LEMMA StartProxyKeeps == IInv /\ StartProxy => IInv'
  <1> SUFFICES ASSUME IInv, StartProxy PROVE IInv'
    OBVIOUS
  <1>1. child # "running" /\ network = "Proxied" /\ held = {} /\ 0 \in Loops
    BY RunAssumption DEF IInv, Progress, StartProxy, Loops
  <1>2. CASE Leave("failed") /\ UNCHANGED child
    BY <1>1, <1>2, LeaveKeeps DEF StartProxy, Over, IInv, TypeOK
  <1>3. CASE /\ fut' = IF Linux THEN "bridge" ELSE "transform"
             /\ loop' = [loop EXCEPT ![0] = "accepting"]
             /\ held' = {0}
             /\ UNCHANGED <<platform, network, bound, dir, child, connVars>>
    <2>1. TypeOK'
      BY <1>1, <1>3 DEF IInv, TypeOK, connVars
    <2>2. Progress'
      BY <1>1, <1>3 DEF IInv, TypeOK, StartProxy, Progress, Served, Demanded, Linux, Up
    <2>3. Guarded' /\ Released'
      BY <1>1, <1>3 DEF IInv, TypeOK, StartProxy, Guarded, Released, Over
    <2>4. QED
      BY <2>1, <2>2, <2>3 DEF IInv
  <1>4. QED
    BY <1>2, <1>3 DEF StartProxy

\* The directory of the sockets.
LEMMA MakeDirKeeps == IInv /\ MakeDir => IInv'
  <1> SUFFICES ASSUME IInv, MakeDir PROVE IInv'
    OBVIOUS
  <1>1. child # "running"
    BY DEF IInv, Progress, MakeDir
  <1>2. CASE Leave("failed") /\ UNCHANGED child
    BY <1>1, <1>2, LeaveKeeps DEF MakeDir, Over, IInv, TypeOK
  <1>3. CASE /\ fut' = "routes" /\ dir' = "exists"
             /\ UNCHANGED <<platform, network, loop, bound, held, child, connVars>>
    <2>1. TypeOK'
      BY <1>3 DEF IInv, TypeOK, connVars
    <2>2. Progress'
      BY <1>1, <1>3, RunAssumption DEF IInv, MakeDir, Progress, Linux
    <2>3. Guarded' /\ Released'
      BY <1>3 DEF Guarded, Released, Over
    <2>4. QED
      BY <2>1, <2>2, <2>3 DEF IInv
  <1>4. QED
    BY <1>2, <1>3 DEF MakeDir

\* Routes are bound in order; the last one completes what is demanded.
LEMMA BindRouteKeeps == IInv /\ BindRoute => IInv'
  <1> SUFFICES ASSUME IInv, BindRoute PROVE IInv'
    OBVIOUS
  <1>1. /\ fut = "routes" /\ child # "running" /\ network = "Proxied" /\ Linux
        /\ held = {0} /\ loop[0] \in Up /\ dir = "exists"
        /\ bound \in Nat /\ bound < NumRoutes /\ bound + 1 \in Loops
        /\ \A l \in 1..bound : loop[l] \in Up
    BY RunAssumption DEF IInv, TypeOK, Progress, BindRoute, Loops
  <1>2. CASE Leave("bridgeFailed") /\ UNCHANGED child
    BY <1>1, <1>2, LeaveKeeps DEF Over, IInv, TypeOK
  <1>3. CASE /\ bound' = bound + 1
             /\ loop' = [loop EXCEPT ![bound + 1] = "accepting"]
             /\ IF LastRoute(bound + 1)
                  THEN fut' = "transform" /\ held' = Loops
                  ELSE UNCHANGED <<fut, held>>
             /\ UNCHANGED <<platform, network, dir, child, connVars>>
    <2>1. \A l \in 0..(bound + 1) : loop'[l] \in Up
      BY <1>1, <1>3, RunAssumption DEF IInv, TypeOK, Loops, Up
    <2>2. CASE LastRoute(bound + 1)
      <3>1. bound + 1 = NumRoutes /\ fut' = "transform" /\ held' = Loops
        BY <1>3, <2>2 DEF LastRoute
      <3>2. \A l \in Loops : loop'[l] \in Up
        BY <2>1, <3>1 DEF Loops
      <3>3. TypeOK'
        BY <1>1, <1>3, <3>1, <3>2 DEF IInv, TypeOK, Up, connVars
      <3>4. Progress'
        BY <1>1, <1>3, <3>1, <3>2 DEF Progress, Served, Demanded, Linux
      <3>5. Guarded' /\ Released'
        BY <3>1 DEF Guarded, Released, Over
      <3>6. QED
        BY <3>3, <3>4, <3>5 DEF IInv
    <2>3. CASE ~LastRoute(bound + 1)
      <3>1. /\ bound + 1 < NumRoutes /\ bound + 1 \in 0..NumRoutes
            /\ fut' = "routes" /\ held' = {0}
        BY <1>1, <1>3, <2>3, RunAssumption DEF LastRoute
      <3>2. TypeOK'
        BY <1>1, <1>3, <3>1 DEF IInv, TypeOK, connVars
      <3>3. Progress'
        BY <1>1, <1>3, <2>1, <3>1 DEF Progress, Linux
      <3>4. Guarded' /\ Released'
        BY <3>1 DEF Guarded, Released, Over
      <3>5. QED
        BY <3>2, <3>3, <3>4 DEF IInv
    <2>4. QED
      BY <2>2, <2>3
  <1>4. QED
    BY <1>2, <1>3 DEF BindRoute

\* transform, and the spawn of the command, with all guards held.
LEMMA TransformSpawnKeep == IInv /\ (Transform \/ Spawn) => IInv'
  <1> SUFFICES ASSUME IInv, Transform \/ Spawn PROVE IInv'
    OBVIOUS
  <1>1. child # "running" /\ fut \in {"transform", "spawn"}
    BY DEF IInv, Progress, Transform, Spawn
  <1>2. CASE Leave("failed") /\ UNCHANGED child
    BY <1>1, <1>2, LeaveKeeps DEF Over, IInv, TypeOK
  <1>3. CASE /\ fut' = "spawn"
             /\ UNCHANGED <<platform, network, loop, bound, held, dir, child, connVars>>
    BY <1>1, <1>3 DEF IInv, TypeOK, connVars, Progress, Served, Demanded, Linux,
                      Guarded, Released, Over
  <1>4. CASE /\ fut' = "capture" /\ child' = "running"
             /\ UNCHANGED <<platform, network, loop, bound, held, dir, connVars>>
    BY <1>1, <1>4 DEF IInv, TypeOK, connVars, Progress, Served, Demanded, Linux,
                      Guarded, Released, Over
  <1>5. QED
    BY <1>2, <1>3, <1>4 DEF Transform, Spawn

\* The two ways out of the capture, and a future never polled.
LEMMA ReturnAbandonKeep == IInv /\ (Return \/ Abandon) => IInv'
  <1> SUFFICES ASSUME IInv, Return \/ Abandon PROVE IInv'
    OBVIOUS
  <1>1. fut \in {"capture", "start"} /\ ~Over /\ fut # "routes"
    BY DEF Return, Abandon, Over
  <1>2. \E how \in {"returned", "failed", "dropped"} : Leave(how)
    BY DEF Return, Abandon
  <1>3. child' \in {child, "dead"} /\ child' # "running"
    BY DEF Return, Abandon, IInv, Progress
  <1>4. QED
    BY <1>1, <1>2, <1>3, LeaveKeeps

\* An accept loop ends by itself or because it was aborted.
LEMMA EndLoopKeeps ==
  ASSUME IInv, NEW l \in Loops, Listening(l), EndLoop(l)
  PROVE  IInv'
  <1> USE DEF EndLoop, runVars
  <1>1. TypeOK'
    <2>1. ConnType'
      BY DEF Refused, IInv, TypeOK, ConnType
    <2>2. QED
      BY <2>1 DEF IInv, TypeOK, ConnType
  <1>2. \A k \in Loops : loop'[k] \in {loop[k], "ended"}
    BY DEF IInv, TypeOK
  <1>3. 0 \in Loops /\ (1..bound) \subseteq Loops
    BY RunAssumption DEF IInv, TypeOK, Loops
  <1>4. Served => Served'
    BY <1>2, <1>3 DEF Served, Demanded, Linux, Up
  <1>5. Progress'
    BY <1>2, <1>3, <1>4 DEF IInv, Progress, Linux, Up
  <1>6. Guarded' /\ Released'
    BY <1>2 DEF IInv, Guarded, Released, Over
  <1>7. QED
    BY <1>1, <1>5, <1>6 DEF IInv

\* The command ends on its own or is killed by the capture.
LEMMA ChildExitsKeeps == IInv /\ ChildExits => IInv'
  BY DEF IInv, ChildExits, TypeOK, runVars, connVars, Progress, Served, Demanded,
         Linux, Guarded, Released, Over

\* An accepted connection changes hands.
LEMMA AcceptKeeps == ASSUME IInv, NEW l \in Loops, Accept(l) PROVE IInv'
  <1>1. ConnType'
    BY DEF Accept, Queued, IInv, TypeOK, ConnType
  <1>2. QED
    BY <1>1, QuietKeeps DEF Accept, runVars

\* Every step of a connection's tasks and of its two ends.
LEMMA ConnKeeps ==
  ASSUME IInv, NEW c \in Conns,
         \/ RelayConnect(c) \/ RelayEnds(c) \/ RelayBreaks(c)
         \/ ReadHead(c) \/ HeadEof(c) \/ Dial(c) \/ ServeEnds(c) \/ ServeBreaks(c)
         \/ Connect(c) \/ ClientCloses(c) \/ PeerCloses(c)
  PROVE  IInv'
  <1>1. ConnType
    BY DEF IInv, TypeOK, ConnType
  <1>2. CASE RelayConnect(c) \/ RelayEnds(c) \/ RelayBreaks(c)
    <2>1. ConnType'
      BY <1>1, <1>2 DEF RelayConnect, RelayEnds, RelayBreaks, SetRelay, ConnType
    <2>2. QED
      BY <1>2, <2>1, QuietKeeps
      DEF RelayConnect, RelayEnds, RelayBreaks, SetRelay, runVars
  <1>3. CASE ReadHead(c) \/ HeadEof(c) \/ Dial(c) \/ ServeEnds(c) \/ ServeBreaks(c)
    <2>1. PICK s \in {"dialling", "tunnel", "ended"},
               p \in {"none", "open", "closed"} : SetServe(c, s, p)
      BY <1>1, <1>3
      DEF ReadHead, HeadEof, Dial, ServeEnds, ServeBreaks, ConnType
    <2>2. ConnType'
      BY <1>1, <2>1 DEF SetServe, ConnType
    <2>3. QED
      BY <2>1, <2>2, QuietKeeps DEF SetServe, runVars
  <1>4. CASE Connect(c)
    <2>1. PICK l \in IF Linux THEN Routes ELSE {0} :
            IF Listening(l) /\ (Linux => dir = "exists")
              THEN /\ client' = [client EXCEPT ![c] = "open"]
                   /\ via' = [via EXCEPT ![c] = l]
                   /\ IF Linux
                        THEN relay' = [relay EXCEPT ![c] = "queued"] /\ UNCHANGED serve
                        ELSE serve' = [serve EXCEPT ![c] = "queued"] /\ UNCHANGED relay
              ELSE /\ client' = [client EXCEPT ![c] = "closed"]
                   /\ UNCHANGED <<via, relay, serve>>
      BY <1>4 DEF Connect
    <2>2. l \in Loops
      BY RunAssumption DEF Routes, Loops
    <2>3. ConnType'
      BY <1>1, <1>4, <2>1, <2>2 DEF Connect, ConnType
    <2>4. QED
      BY <1>4, <2>3, QuietKeeps DEF Connect, runVars
  <1>5. CASE ClientCloses(c) \/ PeerCloses(c)
    <2>1. ConnType'
      BY <1>1, <1>5 DEF ClientCloses, PeerCloses, ConnType
    <2>2. QED
      BY <1>5, <2>1, QuietKeeps DEF ClientCloses, PeerCloses, runVars
  <1>6. QED
    BY <1>2, <1>3, <1>4, <1>5

\* The kernel closes what the command had open.
LEMMA NamespaceDiesKeeps == IInv /\ NamespaceDies => IInv'
  <1> SUFFICES ASSUME IInv, NamespaceDies PROVE IInv'
    OBVIOUS
  <1>1. ConnType'
    BY DEF NamespaceDies, IInv, TypeOK, ConnType
  <1>2. QED
    BY <1>1, QuietKeeps DEF NamespaceDies, runVars

\* Every step keeps the strengthening.
LEMMA NextIInv == IInv /\ [Next]_vars => IInv'
  <1> SUFFICES ASSUME IInv, [Next]_vars PROVE IInv'
    OBVIOUS
  <1>1. CASE Future
    BY <1>1, StartKeeps, StartProxyKeeps, MakeDirKeeps, BindRouteKeeps,
       TransformSpawnKeep, ReturnAbandonKeep DEF Future
  <1>2. CASE ChildExits \/ NamespaceDies
    BY <1>2, ChildExitsKeeps, NamespaceDiesKeeps
  <1>3. CASE \E l \in Loops : Accept(l) \/ AcceptFails(l) \/ LoopCancelled(l)
    BY <1>3, AcceptKeeps, EndLoopKeeps DEF AcceptFails, LoopCancelled, Listening
  <1>4. CASE \E c \in Conns :
               \/ RelayConnect(c) \/ RelayEnds(c) \/ RelayBreaks(c)
               \/ ReadHead(c) \/ HeadEof(c) \/ Dial(c) \/ ServeEnds(c) \/ ServeBreaks(c)
               \/ Connect(c) \/ ClientCloses(c) \/ PeerCloses(c)
    BY <1>4, ConnKeeps
  <1>5. CASE UNCHANGED vars
    <2>1. ConnType'
      BY <1>5 DEF vars, connVars, IInv, TypeOK, ConnType
    <2>2. QED
      BY <1>5, <2>1, QuietKeeps DEF vars
  <1>6. QED
    BY <1>1, <1>2, <1>3, <1>4, <1>5 DEF Next

\* The strengthening holds in every reachable state.
LEMMA Invariance == Spec => []IInv
  BY InitIInv, NextIInv, PTL DEF Spec

-----------------------------------------------------------------------------

\* For any number of routes and connections, a command only ever runs while
\* the guard holds every accept loop its policy demands, each of them started
\* and none aborted, and the sockets exist (run() holds `_guard` until after
\* spawn_and_capture returned).
THEOREM ServedWhileRunning == Spec => []CommandServed
  <1>1. IInv => CommandServed
    BY DEF IInv, Progress, Served, CommandServed, Up
  <1>2. QED
    BY <1>1, Invariance, PTL

\* Whatever the number of routes and connections, every task and guard of a run
\* stays in its domain.
THEOREM TypeCorrect == Spec => []TypeOK
  <1>1. IInv => TypeOK
    BY DEF IInv
  <1>2. QED
    BY <1>1, Invariance, PTL

\* The safety half of RunReleases: at the very moment run() is over no loop
\* accepts any longer, aborted at the latest by that exit, and the sockets are
\* removed, unless prepare_host_bridge failed half-way.
THEOREM ReleasedAtExit == Spec => []Released
  <1>1. IInv => Released
    BY DEF IInv
  <1>2. QED
    BY <1>1, Invariance, PTL

\* What is over stays over: no later step starts a loop or makes a socket, not
\* even one of a connection that is still being served.
THEOREM NothingReopens ==
  Spec => [][Over => /\ UNCHANGED <<held, dir>>
                     /\ \A l \in Loops : loop'[l] \in {loop[l], "ended"}]_vars
  <1>1. IInv /\ [Next]_vars =>
          [Over => /\ UNCHANGED <<held, dir>>
                   /\ \A l \in Loops : loop'[l] \in {loop[l], "ended"}]_vars
    <2> SUFFICES ASSUME IInv, Next, Over
                 PROVE  /\ UNCHANGED <<held, dir>>
                        /\ \A l \in Loops : loop'[l] \in {loop[l], "ended"}
      OBVIOUS
    <2>1. ~Future
      BY DEF Over, Future, Start, StartProxy, MakeDir, BindRoute, Transform, Spawn,
             Return, Abandon
    <2>2. CASE ChildExits \/ NamespaceDies
      BY <2>2 DEF ChildExits, NamespaceDies, runVars
    <2>3. ASSUME NEW l \in Loops, Accept(l) \/ AcceptFails(l) \/ LoopCancelled(l)
          PROVE  /\ UNCHANGED <<held, dir>>
                 /\ \A k \in Loops : loop'[k] \in {loop[k], "ended"}
      BY <2>3 DEF Accept, AcceptFails, LoopCancelled, EndLoop, runVars, IInv, TypeOK
    <2>4. ASSUME NEW c \in Conns,
                 \/ RelayConnect(c) \/ RelayEnds(c) \/ RelayBreaks(c)
                 \/ ReadHead(c) \/ HeadEof(c) \/ Dial(c) \/ ServeEnds(c)
                 \/ ServeBreaks(c) \/ Connect(c) \/ ClientCloses(c) \/ PeerCloses(c)
          PROVE  UNCHANGED <<held, dir, loop>>
      BY <2>4 DEF RelayConnect, RelayEnds, RelayBreaks, SetRelay, ReadHead, HeadEof,
                  Dial, ServeEnds, ServeBreaks, SetServe, Connect, ClientCloses,
                  PeerCloses, runVars
    <2>5. QED
      BY <2>1, <2>2, <2>3, <2>4 DEF Next
  <1>2. QED
    BY <1>1, Invariance, PTL DEF Spec
=============================================================================
