----------------------------- MODULE SpawnCapture -----------------------------
(***************************************************************************)
(* spawn_and_capture (motosan-sandbox/src/spawn.rs): one command from      *)
(* spawn to the returned Result.  Four kinds of actors interleave:         *)
(*   - the run() future, which spawns the child, races child.wait()        *)
(*     against the timeout and the cancellation token, kills and reaps,    *)
(*     then joins the two reader tasks in a fixed order, and which its     *)
(*     caller may drop at any await;                                       *)
(*   - the two detached read_capped tasks, one per pipe;                   *)
(*   - the child: a helper in its setup phase and then the target, or the  *)
(*     target at once;                                                     *)
(*   - processes the command leaves behind, which inherited the pipes.     *)
(* Bytes are counted, not named: a pipe is a FIFO with one reader, so the  *)
(* captured bytes are the first ones as long as nothing is discarded       *)
(* before the cap is reached.                                              *)
(***************************************************************************)
EXTENDS Integers

CONSTANTS
  Child,         \* the process Command::spawn creates
  Descendants,   \* the processes it may leave behind
  Kinds,         \* how the command is spawned, see KindNames
  Caps,          \* values of RunOpts::max_output_bytes tried
  ExitCodes,     \* how a child may die on its own: a set of ExitStatuses
  Faulty,        \* streams on which a read may return an error
  Timeouts,      \* whether RunOpts::timeout is Some: a set of booleans
  PipeCap,       \* bytes a kernel pipe holds
  MaxBytes       \* bound: bytes emitted on one stream

\* "plain" is a passthrough or Seatbelt spawn (helper_reexec = false),
\* "landlock" the helper re-exec, "proxied" the helper re-exec whose target
\* lives in a bwrap pid namespace that dies with the child.
KindNames == {"plain", "landlock", "proxied"}

Streams == {"stdout", "stderr"}

\* reexec.rs: the exit codes a helper reserves; "exit" is any other code,
\* "signal" a signal that is not ours, "sigkill" the SIGKILL of start_kill or
\* kill_on_drop.
Reserved == {"121", "122", "123"}
ExitStatuses == {"exit", "signal"} \cup Reserved

ASSUME SpawnAssumption ==
  /\ Child \notin Descendants
  /\ Kinds \subseteq KindNames
  /\ Caps \subseteq Nat
  /\ Timeouts \subseteq BOOLEAN
  /\ ExitCodes \subseteq ExitStatuses
  /\ Faulty \subseteq Streams
  /\ PipeCap \in Nat \ {0}
  /\ MaxBytes \in Nat

VARIABLES
  opts,       \* RunOpts and the spawn kind, fixed at the call
  run,        \* where the run() future is
  timedOut,   \* the local `timed_out`
  result,     \* the returned Result's variant, "none" before
  fired,      \* RunOpts::timeout has elapsed
  cancelled,  \* the CancellationToken is cancelled
  child,      \* life of the child process
  status,     \* how the child died: an ExitStatus, "none" before
  ranTarget,  \* the target program was started
  forked,     \* descendants created so far
  open,       \* processes holding the write end of each pipe
  pipe,       \* bytes buffered in each pipe
  written,    \* bytes ever written to each pipe
  captured,   \* read_capped's `buf.len()`
  reader,     \* where each read_capped task is
  broken      \* streams on which a read returned an error

runVars    == <<opts, run, timedOut, result>>
stopVars   == <<fired, cancelled>>
childVars  == <<child, status, ranTarget>>
writerVars == <<forked, open>>
pipeVars   == <<pipe, written>>
readVars   == <<captured, reader, broken>>
vars == <<opts, run, timedOut, result, fired, cancelled, child, status,
          ranTarget, forked, open, pipe, written, captured, reader, broken>>

Alive    == {"setup", "target"}
Dead     == {"zombie", "reaped"}
Awaiting == {"waiting", "killing", "joinOut", "joinErr"}
Finished == {"returned", "dropped"}

\* Mutant of classify_helper_exit: an arm of the match is missing.
classify_without_exec_failed(st) ==
  CASE st = "121" -> "NotEnforced"
    [] st = "122" -> "Transform"
    [] OTHER -> "Ok"

\* classify_helper_exit looks at the code alone.
classify_helper_exit(st) ==
  CASE st = "121" -> "NotEnforced"
    [] st \in {"122", "123"} -> "Transform"
    [] OTHER -> "Ok"

Init ==
  /\ opts \in [max : Caps, timeout : Timeouts, kind : Kinds]
  /\ run = "start"
  /\ timedOut = FALSE
  /\ result = "none"
  /\ fired = FALSE
  /\ cancelled = FALSE
  /\ child = "none"
  /\ status = "none"
  /\ ranTarget = FALSE
  /\ forked = {}
  /\ open = [s \in Streams |-> {}]
  /\ pipe = [s \in Streams |-> 0]
  /\ written = [s \in Streams |-> 0]
  /\ captured = [s \in Streams |-> 0]
  /\ reader = [s \in Streams |-> "idle"]
  /\ broken = {}

-----------------------------------------------------------------------------
(* The child and the processes it leaves behind (the environment).         *)

\* The child is gone: its descriptors close with it.
Die(st) ==
  /\ child' = "zombie"
  /\ status' = st
  /\ open' = [s \in Streams |-> open[s] \ {Child}]

\* The helper enforced its policy and exec'd the target.
HelperExec ==
  /\ child = "setup"
  /\ child' = "target"
  /\ ranTarget' = TRUE
  /\ UNCHANGED <<runVars, stopVars, status, writerVars, pipeVars, readVars>>

\* The helper gives up before the target ran, or is killed.  bwrap's own
\* failures, which only a proxied spawn meets, come with an ordinary code.
SetupFails ==
  /\ child = "setup"
  /\ \E st \in ExitCodes :
       /\ st = "exit" => opts.kind = "proxied"
       /\ Die(st)
  /\ UNCHANGED <<runVars, stopVars, ranTarget, forked, pipeVars, readVars>>

\* The target exits with any code it likes, or crashes.
TargetExits ==
  /\ child = "target"
  /\ \E st \in ExitCodes : Die(st)
  /\ UNCHANGED <<runVars, stopVars, ranTarget, forked, pipeVars, readVars>>

\* A process inherits every pipe its parent has open.  In setup only the
\* proxied helper forks: it leaves the bridge behind.
Fork(d, parent) ==
  /\ d \notin forked
  /\ parent = Child => \/ child = "target"
                       \/ child = "setup" /\ opts.kind = "proxied"
  /\ \E s \in Streams : parent \in open[s]
  /\ forked' = forked \cup {d}
  /\ open' = [s \in Streams |->
                IF parent \in open[s] THEN open[s] \cup {d} ELSE open[s]]
  /\ UNCHANGED <<runVars, stopVars, childVars, pipeVars, readVars>>

Write(p, s) ==
  /\ p \in open[s]
  /\ reader[s] # "done"
  /\ pipe[s] < PipeCap
  /\ written[s] < MaxBytes
  /\ pipe' = [pipe EXCEPT ![s] = @ + 1]
  /\ written' = [written EXCEPT ![s] = @ + 1]
  /\ UNCHANGED <<runVars, stopVars, childVars, writerVars, readVars>>

\* A target or a descendant closes or redirects one of its streams.
CloseStream(p, s) ==
  /\ p \in open[s]
  /\ p = Child => child = "target"
  /\ open' = [open EXCEPT ![s] = @ \ {p}]
  /\ UNCHANGED <<runVars, stopVars, childVars, forked, pipeVars, readVars>>

DescendantExits(d) ==
  /\ \E s \in Streams : d \in open[s]
  /\ open' = [s \in Streams |-> open[s] \ {d}]
  /\ UNCHANGED <<runVars, stopVars, childVars, forked, pipeVars, readVars>>

\* Once the child is dead the kernel kills what is left in its pid namespace
\* (--unshare-pid --die-with-parent); nothing does so for the other kinds.
NamespaceDies(d) ==
  /\ opts.kind = "proxied"
  /\ child \in Dead
  /\ DescendantExits(d)

TimerFires ==
  /\ run = "waiting"
  /\ opts.timeout
  /\ ~fired
  /\ fired' = TRUE
  /\ UNCHANGED <<runVars, cancelled, childVars, writerVars, pipeVars, readVars>>

\* A run without a token is one whose token is never cancelled; one cancelled
\* before the select! is polled is seen cancelled when it is.
Cancel ==
  /\ run = "waiting"
  /\ ~cancelled
  /\ cancelled' = TRUE
  /\ UNCHANGED <<runVars, fired, childVars, writerVars, pipeVars, readVars>>

-----------------------------------------------------------------------------
(* read_capped: one detached task per pipe.                                *)

\* Mutant of Room: the cap is not applied to a read that crosses it.
RoomUncapped(s) == pipe[s]

\* What one read may still put into `buf`: `Take` stops at the cap.
Room(s) == IF opts.max = 0 THEN pipe[s] ELSE opts.max - captured[s]

\* Mutant of AfterRead: no drain loop, the task ends at the cap.
AfterReadNoDrain(s, n) ==
  IF opts.max # 0 /\ captured[s] + n = opts.max THEN "done" ELSE "read"

\* The read that fills the cap sends the task to its drain loop; with max = 0
\* there is no cap to fill.
AfterRead(s, n) ==
  IF opts.max # 0 /\ captured[s] + n = opts.max THEN "drain" ELSE "read"

\* Mutant of Consume: the bytes read stay in the pipe and are read again.
ConsumeNothing(s, n) == UNCHANGED pipe

Consume(s, n) == pipe' = [pipe EXCEPT ![s] = @ - n]

\* One read into `buf`.
ReadChunk(s) ==
  /\ reader[s] = "read"
  /\ \E n \in 1 .. pipe[s] :
       /\ n <= Room(s)
       /\ Consume(s, n)
       /\ captured' = [captured EXCEPT ![s] = @ + n]
       /\ reader' = [reader EXCEPT ![s] = AfterRead(s, n)]
  /\ UNCHANGED <<runVars, stopVars, childVars, writerVars, written, broken>>

\* One read into the scratch buffer, discarded.
DrainChunk(s) ==
  /\ reader[s] = "drain"
  /\ \E n \in 1 .. pipe[s] : Consume(s, n)
  /\ UNCHANGED <<runVars, stopVars, childVars, writerVars, written, readVars>>

\* Mutant of ReadEof: the tasks are polled by the future and stop with it.
ReadEofAttached(s) ==
  /\ run # "dropped"
  /\ reader[s] \in {"read", "drain"}
  /\ pipe[s] = 0
  /\ open[s] = {}
  /\ reader' = [reader EXCEPT ![s] = "done"]
  /\ UNCHANGED <<runVars, stopVars, childVars, writerVars, pipeVars, captured,
                 broken>>

\* read returns 0: every write end is closed and the pipe is empty.
ReadEof(s) ==
  /\ reader[s] \in {"read", "drain"}
  /\ pipe[s] = 0
  /\ open[s] = {}
  /\ reader' = [reader EXCEPT ![s] = "done"]
  /\ UNCHANGED <<runVars, stopVars, childVars, writerVars, pipeVars, captured,
                 broken>>

\* read returns an error.  The capturing loop swallows it: with a cap the task
\* moves on to the drain loop, otherwise, and in the drain loop, it ends.
ReadFails(s) ==
  /\ s \in Faulty
  /\ reader[s] \in {"read", "drain"}
  /\ reader' = [reader EXCEPT ![s] =
                  IF @ = "read" /\ opts.max # 0 THEN "drain" ELSE "done"]
  /\ broken' = broken \cup {s}
  /\ UNCHANGED <<runVars, stopVars, childVars, writerVars, pipeVars, captured>>

-----------------------------------------------------------------------------
(* The run() future.                                                       *)

Spawn ==
  /\ run = "start"
  /\ run' = "waiting"
  /\ child' = IF opts.kind = "plain" THEN "target" ELSE "setup"
  /\ ranTarget' = (opts.kind = "plain")
  /\ open' = [s \in Streams |-> {Child}]
  /\ reader' = [s \in Streams |-> "read"]
  /\ UNCHANGED <<opts, timedOut, result, stopVars, status, forked, pipeVars,
                 captured, broken>>

SpawnFails ==
  /\ run = "start"
  /\ run' = "returned"
  /\ result' = "Spawn"
  /\ UNCHANGED <<opts, timedOut, stopVars, childVars, writerVars, pipeVars,
                 readVars>>

\* Mutant of Kill: the child is left running.
KillForgotten == UNCHANGED <<child, status, open>>

\* start_kill, and what dropping the Child does under kill_on_drop(true).
\* A child that is already dead keeps its status.
Kill ==
  IF child \in Alive
  THEN Die("sigkill")
  ELSE UNCHANGED <<child, status, open>>

\* child.wait() resolves first, or at the same time and select! picks it.
WaitDone ==
  /\ run = "waiting"
  /\ child = "zombie"
  /\ child' = "reaped"
  /\ run' = "joinOut"
  /\ UNCHANGED <<opts, timedOut, result, stopVars, status, ranTarget,
                 writerVars, pipeVars, readVars>>

\* Mutant of StopEarly: timed_out is never set.
StopEarlyUnmarked ==
  /\ run = "waiting"
  /\ fired \/ cancelled
  /\ Kill
  /\ run' = "killing"
  /\ UNCHANGED <<opts, timedOut, result, stopVars, ranTarget, forked, pipeVars,
                 readVars>>

\* `early` resolves with a StopReason, the child exited or not; with both
\* reasons ready its own select! picks either.
StopEarly ==
  /\ run = "waiting"
  /\ \/ fired /\ timedOut' = TRUE
     \/ cancelled /\ timedOut' = FALSE
  /\ Kill
  /\ run' = "killing"
  /\ UNCHANGED <<opts, result, stopVars, ranTarget, forked, pipeVars, readVars>>

\* child.wait().await after the kill.
ReapKilled ==
  /\ run = "killing"
  /\ child = "zombie"
  /\ child' = "reaped"
  /\ run' = "joinOut"
  /\ UNCHANGED <<opts, timedOut, result, stopVars, status, ranTarget,
                 writerVars, pipeVars, readVars>>

\* Mutant of WaitFails: the child survives the error return.
WaitFailsNoKill ==
  /\ run \in {"waiting", "killing"}
  /\ run' = "returned"
  /\ result' = "Spawn"
  /\ UNCHANGED <<opts, timedOut, stopVars, childVars, writerVars, pipeVars,
                 readVars>>

\* wait() returns an error: `?` drops the Child and the two JoinHandles.
WaitFails ==
  /\ run \in {"waiting", "killing"}
  /\ run' = "returned"
  /\ result' = "Spawn"
  /\ Kill
  /\ UNCHANGED <<opts, timedOut, stopVars, ranTarget, forked, pipeVars, readVars>>

\* Mutant of Joined: the buffers are taken without waiting for the tasks.
JoinedAtOnce(s) == TRUE

\* The JoinHandle of a reader task resolves when the task has ended.
Joined(s) == reader[s] = "done"

\* out_task.await
JoinOut ==
  /\ run = "joinOut"
  /\ Joined("stdout")
  /\ run' = "joinErr"
  /\ UNCHANGED <<opts, timedOut, result, stopVars, childVars, writerVars,
                 pipeVars, readVars>>

\* err_task.await, and the Result built from the status and both buffers.
JoinErr ==
  /\ run = "joinErr"
  /\ Joined("stderr")
  /\ run' = "returned"
  /\ result' = IF opts.kind = "plain" THEN "Ok" ELSE classify_helper_exit(status)
  /\ UNCHANGED <<opts, timedOut, stopVars, childVars, writerVars, pipeVars,
                 readVars>>

\* Mutant of DropRun: the reader tasks are aborted with the future.
DropRunAborting ==
  /\ run \in Awaiting
  /\ run' = "dropped"
  /\ Kill
  /\ reader' = [s \in Streams |-> "done"]
  /\ UNCHANGED <<opts, timedOut, result, stopVars, ranTarget, forked, pipeVars,
                 captured, broken>>

\* The caller drops the future at an await: kill_on_drop, and the reader tasks
\* go on detached.
DropRun ==
  /\ run \in Awaiting
  /\ run' = "dropped"
  /\ Kill
  /\ UNCHANGED <<opts, timedOut, result, stopVars, ranTarget, forked, pipeVars,
                 readVars>>

\* tokio reaps the child of a dropped Child handle from its orphan queue.
OrphanReap ==
  /\ run \in Finished
  /\ child = "zombie"
  /\ child' = "reaped"
  /\ UNCHANGED <<runVars, stopVars, status, ranTarget, writerVars, pipeVars,
                 readVars>>

-----------------------------------------------------------------------------

Future == WaitDone \/ StopEarly \/ ReapKilled \/ JoinOut \/ JoinErr
Reader(s) == ReadChunk(s) \/ DrainChunk(s) \/ ReadEof(s)

Next ==
  \/ Spawn
  \/ SpawnFails
  \/ WaitDone
  \/ StopEarly
  \/ ReapKilled
  \/ WaitFails
  \/ JoinOut
  \/ JoinErr
  \/ DropRun
  \/ OrphanReap
  \/ TimerFires
  \/ Cancel
  \/ HelperExec
  \/ SetupFails
  \/ TargetExits
  \/ \E s \in Streams :
       \/ ReadChunk(s)
       \/ DrainChunk(s)
       \/ ReadEof(s)
       \/ ReadFails(s)
       \/ \E p \in {Child} \cup Descendants : Write(p, s) \/ CloseStream(p, s)
  \/ \E d \in Descendants :
       \/ DescendantExits(d)
       \/ NamespaceDies(d)
       \/ \E parent \in {Child} \cup Descendants : Fork(d, parent)

Spec == Init /\ [][Next]_vars

\* tokio polls a ready future and a ready task, the clock advances, and the
\* kernel finishes tearing a namespace down.  Nothing obliges the command, its
\* descendants, the caller or the canceller to do anything.
Fairness ==
  /\ WF_vars(Future)
  /\ \A s \in Streams : WF_vars(Reader(s))
  /\ WF_vars(TimerFires)
  /\ WF_vars(OrphanReap)
  /\ \A d \in Descendants : WF_vars(NamespaceDies(d))

FairSpec == Spec /\ Fairness

-----------------------------------------------------------------------------
(* Correctness.                                                            *)

\* The domain of each variable: PipeCap bounds what a pipe buffers, and the
\* counters never run below zero or past the bytes emitted.
TypeOK ==
  /\ opts \in [max : Caps, timeout : Timeouts, kind : Kinds]
  /\ run \in {"start"} \cup Awaiting \cup Finished
  /\ timedOut \in BOOLEAN
  /\ result \in {"none", "Ok", "NotEnforced", "Transform", "Spawn"}
  /\ fired \in BOOLEAN
  /\ cancelled \in BOOLEAN
  /\ child \in {"none"} \cup Alive \cup Dead
  /\ status \in {"none", "sigkill"} \cup ExitStatuses
  /\ ranTarget \in BOOLEAN
  /\ forked \in SUBSET Descendants
  /\ open \in [Streams -> SUBSET ({Child} \cup Descendants)]
  /\ pipe \in [Streams -> 0 .. PipeCap]
  /\ written \in [Streams -> 0 .. MaxBytes]
  /\ captured \in [Streams -> 0 .. MaxBytes]
  /\ reader \in [Streams -> {"idle", "read", "drain", "done"}]
  /\ broken \in SUBSET Streams

\* Bytes read and thrown away so far.
Discarded(s) == written[s] - pipe[s] - captured[s]

\* The captured bytes are the first ones written, at most `max` of them: no
\* byte is thrown away while `buf` could still take it, whatever the chunks
\* the reads return (spawn.rs, read_capped's Take and drain loop).
CapturedIsPrefix ==
  \A s \in Streams :
    /\ opts.max # 0 => captured[s] <= opts.max
    /\ Discarded(s) >= 0
    /\ s \notin broken /\ Discarded(s) > 0 =>
         opts.max # 0 /\ captured[s] = opts.max

\* A read end is only closed once nobody can write to it: neither the cap, a
\* kill, an early return nor a dropped future makes the command meet SIGPIPE
\* (spawn.rs: "drain and discard the remainder to EOF").
NoSigPipe ==
  \A s \in Streams \ broken : reader[s] = "done" => open[s] = {} /\ pipe[s] = 0

\* An ExecOutput whose run neither timed out nor was cancelled carries the
\* status the child died with on its own, never that of our SIGKILL, however
\* the race between wait, timer and token went.
StatusIsOwn ==
  result = "Ok" /\ ~timedOut /\ ~cancelled => status \in ExitStatuses

\* An exit code that reaches the caller of a Landlock run as a result is the
\* target's own: no setup failure of the helper passes for one.
SetupFailureNotAResult ==
  opts.kind = "landlock" /\ result = "Ok" /\ status \notin {"signal", "sigkill"}
    => ranTarget

\* The abstract command this module implements: the phases of the future, the
\* streams still held, and the buffers of an ExecOutput that was handed out.
Phase ==
  CASE run = "start" -> "ready"
    [] run = "returned" -> IF result = "Ok" THEN "returned" ELSE "failed"
    [] run = "dropped" -> "dropped"
    [] OTHER -> "running"

Held == {s \in Streams : open[s] # {}}
Output == IF Phase = "returned" THEN captured ELSE [s \in Streams |-> 0]

Abstract == INSTANCE Command WITH
  max     <- opts.max,
  live    <- Held,
  emitted <- written,
  lost    <- broken,
  phase   <- Phase,
  output  <- Output

\* spawn_and_capture implements Command: an ExecOutput appears only after the
\* whole process group lost both pipes, and holds exactly the bytes it keeps
\* of all those that were, and ever will be, written.
ImplementsCommand == Abstract!Spec

\* A command blocked on a full pipe is always unblocked, whatever the future
\* is doing and also after its caller dropped it (spawn.rs: "so a full pipe
\* buffer can't deadlock the wait").
FullPipeDrains ==
  \A s \in Streams :
    pipe[s] = PipeCap ~> (pipe[s] < PipeCap \/ s \in broken)

\* In a pid namespace, run() ends once the child is gone or the timeout has
\* elapsed, whatever processes the command left behind.
ContainedReturns ==
  (opts.kind = "proxied" /\ (fired \/ child \in Dead)) ~> run \in Finished

\* The detached reader tasks of a dropped contained run do not leak.
DetachedReadersEnd ==
  (opts.kind = "proxied" /\ run = "dropped") ~>
    (\A s \in Streams : reader[s] = "done")

\* However run() ends, early errors and dropped futures included, it leaves
\* neither a running child nor a zombie.
NoChildLeft == run \in Finished ~> child \in {"none", "reaped"}

-----------------------------------------------------------------------------
(* What comments of the code say and the code does not do.                 *)

\* spawn.rs, on read_capped: "runaway *duration* is still bounded by the
\* caller's RunOpts::timeout".
TimeoutBoundsRun == fired ~> run \in Finished

\* types.rs, ExecOutput::timed_out: "True if the process was killed because
\* it exceeded RunOpts::timeout".
TimedOutMeansKilled == result = "Ok" /\ timedOut => status = "sigkill"
=============================================================================
