------------------------------ MODULE SandboxRun ------------------------------
(***************************************************************************)
(* Sandbox::run (motosan-sandbox/src/lib.rs) with what it keeps going      *)
(* beside the command: the CONNECT proxy (motosan-sandbox-proxy/src/lib.rs,*)
(* connect.rs) and, on Linux, the host bridge (proxy_bridge.rs).           *)
(*                                                                         *)
(*   command --> route socket --> relay task --> proxy --> serving task    *)
(*           (Linux: through the bridge in its namespace; macOS: directly) *)
(*                                                                         *)
(* Loop 0 is the proxy's accept loop, loop i the accept loop of route i.   *)
(* Every accepted connection gets a task of its own, which no guard knows. *)
(* The command and how its output is captured are SpawnCapture's matter:   *)
(* here the capture is one state, left when the child is dead.  No step of *)
(* maybe_start_proxy suspends, so that the future can be dropped before    *)
(* its first poll or while it captures; other tasks run in between.        *)
(***************************************************************************)
EXTENDS Naturals

CONSTANTS
  Conns,      \* the connections the command may open, each once
  NumRoutes,  \* |ROUTED_PROXY_ENV_KEYS|
  Platforms   \* the targets the library is compiled for

ASSUME RunAssumption ==
  /\ NumRoutes \in Nat \ {0}
  /\ Platforms \subseteq {"linux", "macos"}

Routes == 1..NumRoutes
Loops == 0..NumRoutes

VARIABLES
  platform,
  network,  \* "Proxied", or "Direct" for every other policy
  fut,      \* position of the run() future
  loop,     \* accept loops: "none", "accepting", "cancelled" (aborted, but
            \* perhaps still in its last poll), "ended"
  bound,    \* route sockets bound so far
  held,     \* loops whose JoinHandle a guard holds
  dir,      \* the directory of the route sockets
  child,    \* "none", "running", "dead"
  client,   \* per connection, the command's end of it
  via,      \* the route a connection takes, 0 if none
  relay,    \* the host bridge's task for it
  serve,    \* the proxy's task for it
  peer      \* the upstream server's end of it

runVars  == <<fut, bound, held, dir>>
connVars == <<client, via, relay, serve, peer>>
vars == <<platform, network, fut, loop, bound, held, dir, child, connVars>>

Linux == platform = "linux"
Over == fut \in {"returned", "failed", "bridgeFailed", "dropped"}

Init ==
  /\ platform \in Platforms
  /\ network \in {"Direct", "Proxied"}
  /\ fut = "start"
  /\ loop = [l \in Loops |-> "none"]
  /\ bound = 0
  /\ held = {}
  /\ dir = "none"
  /\ child = "none"
  /\ client = [c \in Conns |-> "none"]
  /\ via = [c \in Conns |-> 0]
  /\ relay = [c \in Conns |-> "none"]
  /\ serve = [c \in Conns |-> "none"]
  /\ peer = [c \in Conns |-> "none"]

\* The loops run() must have going before it starts a command.
Demanded ==
  IF network = "Direct" THEN {} ELSE IF Linux THEN Loops ELSE {0}

-----------------------------------------------------------------------------
(* The run() future.                                                       *)

\* Mutant of Aborted: without a Drop of its own a guard just detaches.
Detached == loop

Aborted ==
  [l \in Loops |->
     IF l \in held /\ loop[l] = "accepting" THEN "cancelled" ELSE loop[l]]

\* Drop of ProxyGuard: its handles abort the accept loops they hold, and the
\* TempDir, in the guard or still a local, removes the sockets.
DropGuard ==
  /\ loop' = Aborted
  /\ held' = {}
  /\ dir' = IF dir = "exists" THEN "removed" ELSE dir

\* An exit of run(), by `?`, at its end, or because the caller dropped it.
Leave(how) ==
  /\ fut' = how
  /\ DropGuard
  /\ UNCHANGED <<platform, network, bound, connVars>>

\* maybe_start_proxy: nothing to do without Proxied; no bwrap, no run.
Start ==
  /\ fut = "start"
  /\ \/ /\ network = "Direct"
        /\ fut' = "transform"
        /\ UNCHANGED <<platform, network, loop, bound, held, dir, child, connVars>>
     \/ /\ network = "Proxied"
        /\ fut' = "server"
        /\ UNCHANGED <<platform, network, loop, bound, held, dir, child, connVars>>
     \/ /\ network = "Proxied"
        /\ Linux
        /\ Leave("failed")
        /\ UNCHANGED child

\* ProxyServer::start binds, spawns the accept loop, and hands out its handle.
StartProxy ==
  /\ fut = "server"
  /\ \/ /\ fut' = IF Linux THEN "bridge" ELSE "transform"
        /\ loop' = [loop EXCEPT ![0] = "accepting"]
        /\ held' = {0}
        /\ UNCHANGED <<platform, network, bound, dir, child, connVars>>
     \/ /\ Leave("failed")
        /\ UNCHANGED child

\* prepare_host_bridge, its directory.
MakeDir ==
  /\ fut = "bridge"
  /\ \/ /\ fut' = "routes"
        /\ dir' = "exists"
        /\ UNCHANGED <<platform, network, loop, bound, held, child, connVars>>
     \/ /\ Leave("failed")
        /\ UNCHANGED child

\* Mutant of LastRoute: prepare_host_bridge returns inside its loop.
FirstRoute(l) == l = 1

LastRoute(l) == l = NumRoutes

\* prepare_host_bridge, one route.  The JoinHandles are in a Vec until the last
\* one is spawned: the early return of a bind detaches the earlier tasks.
BindRoute ==
  /\ fut = "routes"
  /\ \/ /\ bound' = bound + 1
        /\ loop' = [loop EXCEPT ![bound + 1] = "accepting"]
        /\ IF LastRoute(bound + 1)
             THEN fut' = "transform" /\ held' = Loops
             ELSE UNCHANGED <<fut, held>>
        /\ UNCHANGED <<platform, network, dir, child, connVars>>
     \/ /\ Leave("bridgeFailed")
        /\ UNCHANGED child

\* Mutant of Transform: the pattern binds the guard to `_`, which drops it.
TransformUnguarded ==
  /\ fut = "transform"
  /\ Leave("spawn")
  /\ UNCHANGED child

Transform ==
  /\ fut = "transform"
  /\ \/ /\ fut' = "spawn"
        /\ UNCHANGED <<platform, network, loop, bound, held, dir, child, connVars>>
     \/ /\ Leave("failed")
        /\ UNCHANGED child

Spawn ==
  /\ fut = "spawn"
  /\ \/ /\ fut' = "capture"
        /\ child' = "running"
        /\ UNCHANGED <<platform, network, loop, bound, held, dir, connVars>>
     \/ /\ Leave("failed")
        /\ UNCHANGED child

\* spawn_and_capture hands out the output, or an error, of a dead child.
Return ==
  /\ fut = "capture" /\ child = "dead"
  /\ Leave("returned")
  /\ UNCHANGED child

\* wait fails, or the caller drops run(): kill_on_drop strikes first, since the
\* capturing future is dropped before run()'s own locals.
Abandon ==
  \/ /\ fut = "capture"
     /\ child' = "dead"
     /\ \E how \in {"failed", "dropped"} : Leave(how)
  \/ /\ fut = "start"
     /\ Leave("dropped")
     /\ UNCHANGED child

-----------------------------------------------------------------------------
(* Accept loops.                                                           *)

Listening(l) == loop[l] \in {"accepting", "cancelled"}

Queued(l) ==
  IF l = 0 THEN {c \in Conns : serve[c] = "queued"}
           ELSE {c \in Conns : relay[c] = "queued" /\ via[c] = l}

\* ProxyServer's loop spawns handle_conn, a route's loop the forwarding task.
Accept(l) ==
  /\ Listening(l)
  /\ \E c \in Queued(l) :
       IF l = 0
         THEN /\ serve' = [serve EXCEPT ![c] = "header"]
              /\ UNCHANGED relay
         ELSE /\ relay' = [relay EXCEPT ![c] = "connecting"]
              /\ UNCHANGED serve
  /\ UNCHANGED <<platform, network, runVars, loop, child, client, via, peer>>

\* Mutant of Refused: the listener outlives the loop, and its backlog with it.
Forgotten(l) == UNCHANGED <<serve, relay>>

\* The task owned its listener: what it had not accepted is reset.
Refused(l) ==
  IF l = 0
    THEN /\ serve' = [c \in Conns |-> IF c \in Queued(0) THEN "ended" ELSE serve[c]]
         /\ UNCHANGED relay
    ELSE /\ relay' = [c \in Conns |-> IF c \in Queued(l) THEN "ended" ELSE relay[c]]
         /\ UNCHANGED serve

EndLoop(l) ==
  /\ loop' = [loop EXCEPT ![l] = "ended"]
  /\ Refused(l)
  /\ UNCHANGED <<platform, network, runVars, child, client, via, peer>>

\* Either loop breaks at the first error of accept, an EMFILE for instance.
AcceptFails(l) == Listening(l) /\ Queued(l) # {} /\ EndLoop(l)

\* tokio drops an aborted task when its poll returns.
LoopCancelled(l) == loop[l] = "cancelled" /\ EndLoop(l)

-----------------------------------------------------------------------------
(* The tasks of a connection.                                              *)

\* The forwarding task dials the proxy.
RelayConnect(c) ==
  /\ relay[c] = "connecting"
  /\ \/ /\ Listening(0)
        /\ relay' = [relay EXCEPT ![c] = "copying"]
        /\ serve' = [serve EXCEPT ![c] = "queued"]
     \/ /\ relay' = [relay EXCEPT ![c] = "ended"]
        /\ UNCHANGED serve
  /\ UNCHANGED <<platform, network, runVars, loop, child, client, via, peer>>

SetRelay(c, r) ==
  /\ relay' = [relay EXCEPT ![c] = r]
  /\ UNCHANGED <<platform, network, runVars, loop, child, client, via, serve, peer>>

\* copy_bidirectional ends once both directions have...
RelayEnds(c) ==
  /\ relay[c] = "copying"
  /\ client[c] = "closed" /\ serve[c] = "ended"
  /\ SetRelay(c, "ended")

\* ... or when it writes to an end that is gone.
RelayBreaks(c) ==
  /\ relay[c] = "copying"
  /\ client[c] = "closed" \/ serve[c] = "ended"
  /\ SetRelay(c, "ended")

\* handle_conn sees its client end: the command's close, relayed on Linux.
ClientGone(c) == client[c] = "closed" \/ relay[c] = "ended"

SetServe(c, s, p) ==
  /\ serve' = [serve EXCEPT ![c] = s]
  /\ peer' = [peer EXCEPT ![c] = p]
  /\ UNCHANGED <<platform, network, runVars, loop, child, client, via, relay>>

\* A complete header: refused by method or allowlist, or worth dialling.
ReadHead(c) ==
  /\ serve[c] = "header"
  /\ \E s \in {"dialling", "ended"} : SetServe(c, s, peer[c])

\* Mutant of HeadEof: an empty read is not the end.
HeadEofIgnored(c) == FALSE /\ SetServe(c, "ended", peer[c])

\* The client ends before its header does.
HeadEof(c) ==
  /\ serve[c] = "header"
  /\ ClientGone(c)
  /\ SetServe(c, "ended", peer[c])

\* The upstream connection, or 502; nobody watches the client meanwhile.
Dial(c) ==
  /\ serve[c] = "dialling"
  /\ \/ SetServe(c, "tunnel", "open")
     \/ SetServe(c, "ended", peer[c])

ServeEnds(c) ==
  /\ serve[c] = "tunnel"
  /\ ClientGone(c) /\ peer[c] = "closed"
  /\ SetServe(c, "ended", "closed")

ServeBreaks(c) ==
  /\ serve[c] = "tunnel"
  /\ ClientGone(c) \/ peer[c] = "closed"
  /\ SetServe(c, "ended", "closed")

-----------------------------------------------------------------------------
(* The command, what it leaves behind, and the servers it talks to.        *)

\* A process that may still use the network: the command, or on macOS, where
\* nothing contains its descendants, one of those.
Alive == child = "running" \/ (~Linux /\ child = "dead")

\* A program that honours its proxy variables connects; nobody listening, it
\* is refused at once.
Connect(c) ==
  /\ network = "Proxied" /\ Alive /\ client[c] = "none"
  /\ \E l \in IF Linux THEN Routes ELSE {0} :
       IF Listening(l) /\ (Linux => dir = "exists")
         THEN /\ client' = [client EXCEPT ![c] = "open"]
              /\ via' = [via EXCEPT ![c] = l]
              /\ IF Linux
                   THEN relay' = [relay EXCEPT ![c] = "queued"] /\ UNCHANGED serve
                   ELSE serve' = [serve EXCEPT ![c] = "queued"] /\ UNCHANGED relay
         ELSE /\ client' = [client EXCEPT ![c] = "closed"]
              /\ UNCHANGED <<via, relay, serve>>
  /\ UNCHANGED <<platform, network, runVars, loop, child, peer>>

ClientCloses(c) ==
  /\ client[c] = "open"
  /\ client' = [client EXCEPT ![c] = "closed"]
  /\ UNCHANGED <<platform, network, runVars, loop, child, via, relay, serve, peer>>

ChildExits ==
  /\ child = "running"
  /\ child' = "dead"
  /\ UNCHANGED <<platform, network, runVars, loop, connVars>>

\* The kernel reaps the pid namespace of a proxied command on Linux.
NamespaceDies ==
  /\ Linux /\ child = "dead"
  /\ \E c \in Conns : client[c] = "open"
  /\ client' = [c \in Conns |-> IF client[c] = "open" THEN "closed" ELSE client[c]]
  /\ UNCHANGED <<platform, network, runVars, loop, child, via, relay, serve, peer>>

PeerCloses(c) ==
  /\ peer[c] = "open"
  /\ peer' = [peer EXCEPT ![c] = "closed"]
  /\ UNCHANGED <<platform, network, runVars, loop, child, client, via, relay, serve>>

-----------------------------------------------------------------------------
Future ==
  \/ Start \/ StartProxy \/ MakeDir \/ BindRoute
  \/ Transform \/ Spawn \/ Return \/ Abandon

Next ==
  \/ Future
  \/ ChildExits \/ NamespaceDies
  \/ \E l \in Loops : Accept(l) \/ AcceptFails(l) \/ LoopCancelled(l)
  \/ \E c \in Conns :
       \/ RelayConnect(c) \/ RelayEnds(c) \/ RelayBreaks(c)
       \/ ReadHead(c) \/ HeadEof(c) \/ Dial(c) \/ ServeEnds(c) \/ ServeBreaks(c)
       \/ Connect(c) \/ ClientCloses(c) \/ PeerCloses(c)

Spec == Init /\ [][Next]_vars

\* tokio runs what is ready and drops what is aborted, connect has a timeout,
\* and the kernel reaps namespaces.  Nothing is assumed of the command, the
\* upstream servers, or how soon run() is over.
Fairness ==
  /\ WF_vars(NamespaceDies)
  /\ \A l \in Loops : WF_vars(Accept(l)) /\ WF_vars(LoopCancelled(l))
  /\ \A c \in Conns :
       /\ WF_vars(RelayConnect(c)) /\ WF_vars(RelayEnds(c))
       /\ WF_vars(HeadEof(c)) /\ WF_vars(Dial(c)) /\ WF_vars(ServeEnds(c))

FairSpec == Spec /\ Fairness

-----------------------------------------------------------------------------
TypeOK ==
  /\ platform \in Platforms
  /\ network \in {"Direct", "Proxied"}
  /\ fut \in {"start", "server", "bridge", "routes", "transform", "spawn",
              "capture", "returned", "failed", "bridgeFailed", "dropped"}
  /\ loop \in [Loops -> {"none", "accepting", "cancelled", "ended"}]
  /\ bound \in 0..NumRoutes
  /\ held \subseteq {l \in Loops : loop[l] # "none"}
  /\ dir \in {"none", "exists", "removed"}
  /\ child \in {"none", "running", "dead"}
  /\ client \in [Conns -> {"none", "open", "closed"}]
  /\ via \in [Conns -> Loops]
  /\ relay \in [Conns -> {"none", "queued", "connecting", "copying", "ended"}]
  /\ serve \in [Conns -> {"none", "queued", "header", "dialling", "tunnel", "ended"}]
  /\ peer \in [Conns -> {"none", "open", "closed"}]

\* As long as a command runs, whatever becomes of run(), its policy's proxy is
\* there: every loop was started, is held by a guard that has not dropped, and
\* its sockets exist (lib.rs: "All three must live until after
\* `spawn_and_capture` returns").
CommandServed ==
  child = "running" =>
    /\ Demanded \subseteq held
    /\ \A l \in Demanded : loop[l] \in {"accepting", "ended"}
    /\ Linux /\ network = "Proxied" => dir = "exists"

\* No connection is left hanging in a backlog, also when an accept fails or
\* the guard drops while it waits there: it is accepted or reset.
Answered ==
  \A c \in Conns :
    /\ relay[c] = "queued" ~> relay[c] # "queued"
    /\ serve[c] = "queued" ~> serve[c] # "queued"

Closed == dir # "exists" /\ \A l \in Loops : loop[l] \in {"none", "ended"}

\* After a run, however it ended, no listener and no socket of it is left,
\* unless prepare_host_bridge failed half-way (see EveryExitReleases).
RunReleases == (Over /\ fut # "bridgeFailed") ~> Closed

\* The per-connection tasks, which no guard aborts, end all the same after a
\* Linux run, provided that every upstream server closes at last.
ConnectionsEnd ==
  (\A c \in Conns : []<>(peer[c] # "open")) =>
    ((Over /\ Linux) ~>
       \A c \in Conns :
         /\ relay[c] \in {"none", "ended"}
         /\ serve[c] \in {"none", "ended"})

\* proxy_bridge.rs, on HostBridgeGuard: "its `Drop` aborts every accept loop
\* and removes the UDS temp dir, on every exit path (success, `?`, panic)".
EveryExitReleases == Over ~> Closed
=============================================================================
