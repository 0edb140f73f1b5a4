------------------------- MODULE SpawnCaptureProofs -------------------------
(***************************************************************************)
(* Proofs about SpawnCapture, for every pipe capacity, cap, bound, set of  *)
(* descendants and set of spawn kinds.  The invariants are proved in       *)
(* layers: each is inductive given the ones before it.                     *)
(***************************************************************************)
EXTENDS SpawnCapture, TLAPS

\* A byte captured or still buffered was written.
Accounted == \A s \in Streams : captured[s] + pipe[s] <= written[s]

TypeInv == TypeOK /\ Accounted

\* Every action of a stream, of a descendant, and of the future, by name.
StreamStep(s) ==
  \/ ReadChunk(s)
  \/ DrainChunk(s)
  \/ ReadEof(s)
  \/ ReadFails(s)
  \/ \E p \in {Child} \cup Descendants : Write(p, s) \/ CloseStream(p, s)

DescendantStep(d) ==
  \/ DescendantExits(d)
  \/ NamespaceDies(d)
  \/ \E parent \in {Child} \cup Descendants : Fork(d, parent)

-----------------------------------------------------------------------------
(* Type correctness.                                                       *)

\* The call starts well typed, with no byte accounted for twice.
LEMMA InitTypeInv == Init => TypeInv
  <1> SUFFICES ASSUME Init PROVE TypeInv
    OBVIOUS
  <1>1. 0 \in 0 .. PipeCap /\ 0 \in 0 .. MaxBytes
    BY SpawnAssumption
  <1>2. TypeOK
    BY <1>1 DEF Init, TypeOK
  <1>3. Accounted
    BY DEF Init, Accounted
  <1>4. QED
    BY <1>2, <1>3 DEF TypeInv

\* What Kill leaves behind is typed.
LEMMA KillTyped ==
  ASSUME TypeOK, Kill
  PROVE  /\ child' \in {"none"} \cup Alive \cup Dead
         /\ status' \in {"none", "sigkill"} \cup ExitStatuses
         /\ open' \in [Streams -> SUBSET ({Child} \cup Descendants)]
  BY DEF TypeOK, Kill, Die, Alive, Dead

\* Every step of the future, the reader tasks, the child and its descendants
\* keeps the state well typed, and never captures a byte that was not written.
LEMMA NextTypeInv == TypeInv /\ [Next]_vars => TypeInv'
  <1> SUFFICES ASSUME TypeInv, [Next]_vars
               PROVE  TypeInv'
    OBVIOUS
  <1> USE SpawnAssumption
      DEF TypeInv, TypeOK, Accounted, Awaiting, Finished, Alive, Dead,
          ExitStatuses, Reserved, runVars, stopVars, childVars, writerVars,
          pipeVars, readVars
  <1>1. CASE Spawn
    BY <1>1 DEF Spawn
  <1>2. CASE SpawnFails
    BY <1>2 DEF SpawnFails
  <1>3. CASE WaitDone
    BY <1>3 DEF WaitDone
  <1>4. CASE StopEarly
    BY <1>4, KillTyped DEF StopEarly
  <1>5. CASE ReapKilled
    BY <1>5 DEF ReapKilled
  <1>6. CASE WaitFails
    BY <1>6, KillTyped DEF WaitFails
  <1>7. CASE JoinOut
    BY <1>7 DEF JoinOut
  <1>8. CASE JoinErr
    BY <1>8 DEF JoinErr, classify_helper_exit
  <1>9. CASE DropRun
    BY <1>9, KillTyped DEF DropRun
  <1>10. CASE OrphanReap
    BY <1>10 DEF OrphanReap
  <1>11. CASE TimerFires
    BY <1>11 DEF TimerFires
  <1>12. CASE Cancel
    BY <1>12 DEF Cancel
  <1>13. CASE HelperExec
    BY <1>13 DEF HelperExec
  <1>14. CASE SetupFails
    BY <1>14 DEF SetupFails, Die
  <1>15. CASE TargetExits
    BY <1>15 DEF TargetExits, Die
  <1>16. ASSUME NEW s \in Streams, StreamStep(s)
        PROVE  TypeInv'
    <2>1. CASE ReadChunk(s)
      <3>1. PICK m \in 1 .. pipe[s] :
              /\ m <= Room(s)
              /\ pipe' = [pipe EXCEPT ![s] = @ - m]
              /\ captured' = [captured EXCEPT ![s] = @ + m]
              /\ reader' = [reader EXCEPT ![s] = AfterRead(s, m)]
        BY <2>1 DEF ReadChunk, Consume
      <3>2. /\ pipe[s] - m \in 0 .. PipeCap
            /\ captured[s] + m \in 0 .. MaxBytes
            /\ captured[s] + m + (pipe[s] - m) <= written[s]
        OBVIOUS
      <3>3. AfterRead(s, m) \in {"read", "drain"}
        BY DEF AfterRead
      <3>4. QED
        BY <2>1, <3>1, <3>2, <3>3 DEF ReadChunk
    <2>2. CASE DrainChunk(s)
      BY <2>2 DEF DrainChunk, Consume
    <2>3. CASE ReadEof(s)
      BY <2>3 DEF ReadEof
    <2>4. CASE ReadFails(s)
      BY <2>4 DEF ReadFails
    <2>5. ASSUME NEW p \in {Child} \cup Descendants, Write(p, s)
          PROVE  TypeInv'
      BY <2>5 DEF Write
    <2>6. ASSUME NEW p \in {Child} \cup Descendants, CloseStream(p, s)
          PROVE  TypeInv'
      BY <2>6 DEF CloseStream
    <2>7. QED
      BY <1>16, <2>1, <2>2, <2>3, <2>4, <2>5, <2>6 DEF StreamStep
  <1>17. ASSUME NEW d \in Descendants, DescendantStep(d)
        PROVE  TypeInv'
    <2>1. CASE DescendantExits(d) \/ NamespaceDies(d)
      BY <2>1 DEF DescendantExits, NamespaceDies
    <2>2. ASSUME NEW parent \in {Child} \cup Descendants, Fork(d, parent)
          PROVE  TypeInv'
      BY <2>2 DEF Fork
    <2>3. QED
      BY <1>17, <2>1, <2>2 DEF DescendantStep
  <1>18. CASE UNCHANGED vars
    BY <1>18 DEF vars
  <1>19. QED
    BY <1>1, <1>2, <1>3, <1>4, <1>5, <1>6, <1>7, <1>8,
       <1>9, <1>10, <1>11, <1>12, <1>13, <1>14, <1>15, <1>16, <1>17, <1>18
    DEF Next, StreamStep, DescendantStep

\* spawn_and_capture never leaves its types: in particular a pipe never holds
\* more than its capacity and read_capped never a negative rest.
THEOREM TypeCorrect == Spec => []TypeOK
  <1>1. TypeInv => TypeOK
    BY DEF TypeInv
  <1>2. QED
    BY <1>1, InitTypeInv, NextTypeInv, PTL DEF Spec

-----------------------------------------------------------------------------
(* What the reader tasks establish.                                        *)

\* A capped task drains once the cap is full, or once a read failed.
DrainInv ==
  \A s \in Streams :
    reader[s] = "drain" => opts.max # 0 /\ (s \in broken \/ captured[s] = opts.max)

ReaderInv == CapturedIsPrefix /\ NoSigPipe /\ DrainInv

\* A step that is not one of a stream leaves pipes and buffers alone, and
\* gives no process a pipe that nobody holds, unless it is the spawn, which
\* starts both tasks.
LEMMA OtherSteps ==
  ASSUME [Next]_vars, ~ \E s \in Streams : StreamStep(s)
  PROVE  /\ UNCHANGED <<opts, pipe, written, captured, broken>>
         /\ \/ reader' = [s \in Streams |-> "read"]
            \/ /\ reader' = reader
               /\ \A s \in Streams : open[s] = {} => open'[s] = {}
  <1> USE DEF runVars, stopVars, childVars, writerVars, pipeVars, readVars
  <1>1. CASE Spawn
    BY <1>1 DEF Spawn
  <1>2. CASE SpawnFails \/ WaitDone \/ ReapKilled \/ JoinOut \/ JoinErr
             \/ OrphanReap \/ TimerFires \/ Cancel \/ HelperExec
    BY <1>2 DEF SpawnFails, WaitDone, ReapKilled, JoinOut, JoinErr, OrphanReap,
                TimerFires, Cancel, HelperExec
  <1>3. CASE StopEarly \/ WaitFails \/ DropRun
    BY <1>3 DEF StopEarly, WaitFails, DropRun, Kill, Die
  <1>4. CASE SetupFails \/ TargetExits
    BY <1>4 DEF SetupFails, TargetExits, Die
  <1>5. CASE \E d \in Descendants : DescendantStep(d)
    BY <1>5 DEF DescendantStep, DescendantExits, NamespaceDies, Fork
  <1>6. CASE UNCHANGED vars
    BY <1>6 DEF vars
  <1>7. QED
    BY <1>1, <1>2, <1>3, <1>4, <1>5, <1>6 DEF Next, StreamStep, DescendantStep

\* Before the spawn nothing is captured and no task has ended.
LEMMA InitReaderInv == Init => ReaderInv
  <1> SUFFICES ASSUME Init PROVE ReaderInv
    OBVIOUS
  <1>1. opts.max \in Nat
    BY SpawnAssumption DEF Init
  <1>2. \A s \in Streams : Discarded(s) = 0
    BY DEF Init, Discarded
  <1>3. CapturedIsPrefix
    BY <1>1, <1>2 DEF Init, CapturedIsPrefix
  <1>4. NoSigPipe /\ DrainInv
    BY DEF Init, NoSigPipe, DrainInv
  <1>5. QED
    BY <1>3, <1>4 DEF ReaderInv

\* Every step keeps the capture a prefix: the drain loop, the only one to
\* discard, runs only once `buf` holds max bytes, and a task ends only at EOF.
LEMMA NextReaderInv == TypeInv /\ ReaderInv /\ [Next]_vars => ReaderInv'
  <1> SUFFICES ASSUME TypeInv, ReaderInv, [Next]_vars
               PROVE  ReaderInv'
    OBVIOUS
  <1> USE SpawnAssumption
      DEF TypeInv, TypeOK, Accounted, ReaderInv, CapturedIsPrefix, NoSigPipe,
          DrainInv, Discarded
  <1>1. CASE ~ \E s \in Streams : StreamStep(s)
    BY <1>1, OtherSteps
  <1>2. ASSUME NEW s \in Streams, StreamStep(s)
        PROVE  ReaderInv'
    <2> USE DEF runVars, stopVars, childVars, writerVars, pipeVars, readVars
    <2>1. CASE ReadChunk(s)
      <3>1. PICK m \in 1 .. pipe[s] :
              /\ m <= Room(s)
              /\ pipe' = [pipe EXCEPT ![s] = @ - m]
              /\ captured' = [captured EXCEPT ![s] = @ + m]
              /\ reader' = [reader EXCEPT ![s] = AfterRead(s, m)]
        BY <2>1 DEF ReadChunk, Consume
      <3>2. UNCHANGED <<opts, open, written, broken>> /\ reader[s] = "read"
        BY <2>1 DEF ReadChunk
      <3>3. opts.max \in Nat /\ (opts.max # 0 => captured[s] + m <= opts.max)
        <4>1. opts.max \in Nat
          OBVIOUS
        <4>2. m \in Int /\ captured[s] \in Int
          OBVIOUS
        <4>3. m <= Room(s)
          BY <3>1
        <4>4. QED
          BY ONLY <4>1, <4>2, <4>3 DEF Room
      <3>4. /\ AfterRead(s, m) \in {"read", "drain"}
            /\ AfterRead(s, m) = "drain" =>
                 opts.max # 0 /\ captured[s] + m = opts.max
        BY DEF AfterRead
      <3>5. ASSUME NEW r \in Streams
            PROVE  /\ opts.max # 0 => captured'[r] <= opts.max
                   /\ Discarded(r)' = Discarded(r)
                   /\ Discarded(r) > 0 /\ r \notin broken => captured'[r] = captured[r]
        <4>1. CASE r = s
          BY <3>1, <3>2, <3>3, <4>1
        <4>2. CASE r # s
          BY <3>1, <3>2, <3>3, <4>2
        <4>3. QED
          BY <4>1, <4>2
      <3>6. NoSigPipe' /\ DrainInv'
        BY <3>1, <3>2, <3>4
      <3>7. CapturedIsPrefix'
        BY <3>2, <3>5
      <3>8. QED
        BY <3>6, <3>7
    <2>2. CASE DrainChunk(s)
      BY <2>2 DEF DrainChunk, Consume
    <2>3. CASE ReadEof(s)
      BY <2>3 DEF ReadEof
    <2>4. CASE ReadFails(s)
      BY <2>4 DEF ReadFails
    <2>5. ASSUME NEW p \in {Child} \cup Descendants, Write(p, s)
          PROVE  ReaderInv'
      BY <2>5 DEF Write
    <2>6. ASSUME NEW p \in {Child} \cup Descendants, CloseStream(p, s)
          PROVE  ReaderInv'
      BY <2>6 DEF CloseStream
    <2>7. QED
      BY <1>2, <2>1, <2>2, <2>3, <2>4, <2>5, <2>6 DEF StreamStep
  <1>3. QED
    BY <1>1, <1>2

\* What the two reader tasks keep, in every reachable state.
LEMMA ReaderInvariance == Spec => []ReaderInv
  BY InitTypeInv, NextTypeInv, InitReaderInv, NextReaderInv, PTL DEF Spec

\* read_capped, for every cap, pipe size and chunking: the captured bytes are
\* the first ones, and none is discarded before the cap is full.
THEOREM CaptureCorrect == Spec => []CapturedIsPrefix
  <1>1. ReaderInv => CapturedIsPrefix
    BY DEF ReaderInv
  <1>2. QED
    BY <1>1, ReaderInvariance, PTL

\* read_capped drains to the end: whatever the cap, and however the future
\* ended, no read end is closed while a process may still write to it.
THEOREM WritersSafe == Spec => []NoSigPipe
  <1>1. ReaderInv => NoSigPipe
    BY DEF ReaderInv
  <1>2. QED
    BY <1>1, ReaderInvariance, PTL

-----------------------------------------------------------------------------
(* What the future establishes before it returns.                          *)

FutureInv ==
  /\ run = "start" => child = "none"
  /\ child \in Dead <=> status # "none"
  /\ child = "target" => ranTarget
  /\ run \in {"joinOut", "joinErr"} \/ result = "Ok" => child = "reaped"
  /\ result # "none" => run = "returned"
  /\ status = "sigkill" =>
       timedOut \/ cancelled \/ run = "dropped" \/ result = "Spawn"
  /\ status = "exit" /\ opts.kind = "landlock" => ranTarget
  /\ result = "Ok" /\ opts.kind # "plain" => classify_helper_exit(status) = "Ok"
  /\ run = "joinErr" => reader["stdout"] = "done"
  /\ result = "Ok" => \A s \in Streams : reader[s] = "done"

\* Before the spawn there is neither a status nor a result.
LEMMA InitFutureInv == Init => FutureInv
  BY DEF Init, FutureInv, Dead

\* Every step keeps status, stop reason, result and reader tasks in the order
\* spawn_and_capture goes through them.
LEMMA NextFutureInv == TypeInv /\ FutureInv /\ [Next]_vars => FutureInv'
  <1> SUFFICES ASSUME TypeInv, FutureInv, [Next]_vars
               PROVE  FutureInv'
    OBVIOUS
  <1> USE DEF TypeInv, TypeOK, FutureInv, Alive, Dead, Awaiting, Finished,
              runVars, stopVars, childVars, writerVars, pipeVars, readVars
  <1>1. CASE Spawn
    BY <1>1, SpawnAssumption DEF Spawn
  <1>2. CASE SpawnFails
    BY <1>2, SpawnAssumption DEF SpawnFails
  <1>3. CASE WaitDone
    BY <1>3, SpawnAssumption DEF WaitDone
  <1>4. CASE StopEarly
    BY <1>4, SpawnAssumption DEF StopEarly, Kill, Die
  <1>5. CASE ReapKilled
    BY <1>5, SpawnAssumption DEF ReapKilled
  <1>6. CASE WaitFails
    BY <1>6, SpawnAssumption DEF WaitFails, Kill, Die
  <1>7. CASE JoinOut
    BY <1>7, SpawnAssumption DEF JoinOut, Joined
  <1>8. CASE JoinErr
    <2>1. /\ UNCHANGED <<opts, timedOut, cancelled, child, status, ranTarget, reader>>
          /\ run = "joinErr" /\ run' = "returned"
          /\ opts.kind # "plain" /\ result' = "Ok" =>
               classify_helper_exit(status) = "Ok"
      BY <1>8 DEF JoinErr
    <2>2. \A s \in Streams : reader[s] = "done"
      BY <1>8 DEF JoinErr, Joined, Streams
    <2>3. classify_helper_exit(status)' = classify_helper_exit(status)
      BY <2>1 DEF classify_helper_exit
    <2>4. QED
      BY <2>1, <2>2, <2>3
  <1>9. CASE DropRun
    BY <1>9, SpawnAssumption DEF DropRun, Kill, Die
  <1>10. CASE OrphanReap
    BY <1>10, SpawnAssumption DEF OrphanReap
  <1>11. CASE TimerFires
    BY <1>11, SpawnAssumption DEF TimerFires
  <1>12. CASE Cancel
    BY <1>12, SpawnAssumption DEF Cancel
  <1>13. CASE HelperExec
    BY <1>13, SpawnAssumption DEF HelperExec
  <1>14. CASE SetupFails
    BY <1>14, SpawnAssumption DEF SetupFails, Die, ExitStatuses, Reserved
  <1>15. CASE TargetExits
    BY <1>15, SpawnAssumption DEF TargetExits, Die, ExitStatuses, Reserved
  <1>16. ASSUME NEW s \in Streams, StreamStep(s)
        PROVE  FutureInv'
    <2>1. UNCHANGED <<runVars, stopVars, childVars>>
      BY <1>16 DEF StreamStep, ReadChunk, DrainChunk, ReadEof, ReadFails, Write,
                   CloseStream
    <2>2. \A r \in Streams : reader[r] = "done" => reader'[r] = "done"
      BY <1>16 DEF StreamStep, ReadChunk, DrainChunk, ReadEof, ReadFails, Write,
                   CloseStream
    <2>3. "stdout" \in Streams
      BY DEF Streams
    <2>4. classify_helper_exit(status)' = classify_helper_exit(status)
      BY <2>1 DEF classify_helper_exit
    <2>5. (fired' = fired) /\ (cancelled' = cancelled)
      BY <1>16 DEF StreamStep, ReadChunk, DrainChunk, ReadEof, ReadFails, Write,
                   CloseStream
    <2>6. (run = "joinErr" => reader["stdout"] = "done")'
      BY <2>1, <2>2, <2>3
    <2>7. (result = "Ok" => \A r \in Streams : reader[r] = "done")'
      BY <2>1, <2>2
    <2>8. QED
      BY <2>1, <2>4, <2>5, <2>6, <2>7
  <1>17. ASSUME NEW d \in Descendants, DescendantStep(d)
        PROVE  FutureInv'
    BY <1>17 DEF DescendantStep, DescendantExits, NamespaceDies, Fork
  <1>18. CASE UNCHANGED vars
    BY <1>18 DEF vars
  <1>19. QED
    BY <1>1, <1>2, <1>3, <1>4, <1>5, <1>6, <1>7, <1>8,
       <1>9, <1>10, <1>11, <1>12, <1>13, <1>14, <1>15, <1>16, <1>17, <1>18
    DEF Next, StreamStep, DescendantStep

\* What the future establishes, in every reachable state.
LEMMA FutureInvariance == Spec => [](TypeInv /\ FutureInv)
  BY InitTypeInv, NextTypeInv, InitFutureInv, NextFutureInv, PTL DEF Spec

\* The race of wait, timer and token in spawn_and_capture: an output that was
\* neither timed out nor cancelled has the child's own status.
THEOREM StatusCorrect == Spec => []StatusIsOwn
  <1>1. TypeInv /\ FutureInv => StatusIsOwn
    BY DEF TypeInv, TypeOK, FutureInv, StatusIsOwn, Dead
  <1>2. QED
    BY <1>1, FutureInvariance, PTL

\* classify_helper_exit, on every path to an output: a Landlock helper that
\* failed before the target ran never passes its exit code off as a result.
THEOREM SetupFailureCaught == Spec => []SetupFailureNotAResult
  <1>1. TypeInv /\ FutureInv => SetupFailureNotAResult
    BY DEF TypeInv, TypeOK, FutureInv, SetupFailureNotAResult, Dead, ExitStatuses,
           Reserved, classify_helper_exit
  <1>2. QED
    BY <1>1, FutureInvariance, PTL

-----------------------------------------------------------------------------
(* SpawnCapture implements Command.                                        *)

\* A call that has not spawned yet is a Command that is ready.
LEMMA InitRefines == Init => Abstract!Init
  BY SpawnAssumption
  DEF Init, Abstract!Init, Phase, Held, Output, Streams

\* A returned ExecOutput is complete and exact.
LEMMA OutputExact ==
  ASSUME TypeInv, ReaderInv, NEW s \in Streams \ broken, reader[s] = "done"
  PROVE  open[s] = {} /\ captured[s] = Abstract!Kept(opts.max, written[s])
  <1>1. opts.max \in Nat
    BY SpawnAssumption DEF TypeInv, TypeOK
  <1>2. open[s] = {} /\ pipe[s] = 0
    BY DEF ReaderInv, NoSigPipe
  <1>3. /\ opts.max # 0 => captured[s] <= opts.max
        /\ written[s] - pipe[s] - captured[s] >= 0
        /\ written[s] - pipe[s] - captured[s] > 0 =>
             opts.max # 0 /\ captured[s] = opts.max
    BY DEF ReaderInv, CapturedIsPrefix, Discarded
  <1>4. captured[s] \in Int /\ written[s] \in Int
    BY DEF TypeInv, TypeOK
  <1>5. QED
    BY <1>1, <1>2, <1>3, <1>4 DEF Abstract!Kept

\* Every step of spawn_and_capture and of its environment is a step of Command
\* or leaves what Command speaks of unchanged.
LEMMA StepRefines ==
  TypeInv /\ ReaderInv /\ FutureInv /\ [Next]_vars => [Abstract!Next]_(Abstract!vars)
  <1> SUFFICES ASSUME TypeInv, ReaderInv, FutureInv, [Next]_vars
               PROVE  [Abstract!Next]_(Abstract!vars)
    OBVIOUS
  <1> USE DEF runVars, stopVars, childVars, writerVars, pipeVars, readVars
  <1>a. ASSUME UNCHANGED <<opts, written, broken, Held, Phase, Output>>
        PROVE  [Abstract!Next]_(Abstract!vars)
    BY <1>a DEF Abstract!vars
  <1>b. ASSUME UNCHANGED <<opts, written, broken, Phase, Output>>, Held' \subseteq Held
        PROVE  [Abstract!Next]_(Abstract!vars)
    BY <1>b DEF Abstract!Next, Abstract!CloseStreams
  <1>c. ASSUME UNCHANGED <<opts, written, broken>>, Held' \subseteq Held,
               Phase \in {"ready", "running"}, Phase' \in {"failed", "dropped"}
        PROVE  [Abstract!Next]_(Abstract!vars)
    <2>1. UNCHANGED Output
      BY <1>c DEF Output
    <2>2. QED
      BY <1>c, <2>1 DEF Abstract!Next, Abstract!GiveUp
  <1>d. ASSUME \A s \in Streams : open'[s] \subseteq open[s]
        PROVE  Held' \subseteq Held
    BY <1>d DEF Held
  <1>e. ASSUME UNCHANGED <<run, result, captured>>
        PROVE  UNCHANGED <<Phase, Output>>
    BY <1>e DEF Phase, Output
  <1>f. ASSUME UNCHANGED open
        PROVE  UNCHANGED Held
    BY <1>f DEF Held
  <1>1. CASE Spawn
    <2>1. Phase = "ready" /\ Phase' = "running"
      BY <1>1 DEF Spawn, Phase
    <2>2. UNCHANGED Output
      BY <2>1 DEF Output
    <2>3. Held' = Streams
      BY <1>1 DEF Spawn, Held
    <2>4. QED
      BY <1>1, <2>1, <2>2, <2>3 DEF Spawn, Abstract!Next, Abstract!Start
  <1>2. CASE SpawnFails
    <2>1. Phase = "ready" /\ Phase' = "failed"
      BY <1>2 DEF SpawnFails, Phase
    <2>2. QED
      BY <1>2, <2>1, <1>c, <1>f DEF SpawnFails
  <1>3. CASE WaitDone \/ ReapKilled \/ JoinOut
    <2>1. Phase = "running" /\ Phase' = "running"
      BY <1>3 DEF WaitDone, ReapKilled, JoinOut, Phase
    <2>2. UNCHANGED <<opts, written, broken, open>>
      BY <1>3 DEF WaitDone, ReapKilled, JoinOut
    <2>3. QED
      BY <2>1, <2>2, <1>a, <1>f DEF Output
  <1>4. CASE StopEarly
    <2>1. Phase = "running" /\ Phase' = "running"
      BY <1>4 DEF StopEarly, Phase
    <2>2. UNCHANGED <<opts, written, broken>>
      BY <1>4 DEF StopEarly
    <2>3. Held' \subseteq Held
      BY <1>4, <1>d DEF StopEarly, Kill, Die
    <2>4. QED
      BY <2>1, <2>2, <2>3, <1>b DEF Output
  <1>5. CASE WaitFails \/ DropRun
    <2>1. Phase = "running" /\ Phase' \in {"failed", "dropped"}
      BY <1>5 DEF WaitFails, DropRun, Phase, Awaiting
    <2>2. UNCHANGED <<opts, written, broken>>
      BY <1>5 DEF WaitFails, DropRun
    <2>3. Held' \subseteq Held
      BY <1>5, <1>d DEF WaitFails, DropRun, Kill, Die
    <2>4. QED
      BY <2>1, <2>2, <2>3, <1>c
  <1>6. CASE JoinErr
    <2>1. /\ UNCHANGED <<opts, written, broken, open, captured, reader>>
          /\ run = "joinErr" /\ run' = "returned"
          /\ reader["stderr"] = "done"
      BY <1>6 DEF JoinErr, Joined
    <2>2. Phase = "running" /\ Held' = Held
      BY <2>1, <1>f DEF Phase
    <2>3. CASE result' = "Ok"
      <3>1. Phase' = "returned" /\ Output' = captured
        BY <2>1, <2>3 DEF Phase, Output
      <3>2. \A s \in Streams : reader[s] = "done"
        BY <2>1 DEF FutureInv, Streams
      <3>3. \A s \in Streams \ broken :
              open[s] = {} /\ captured[s] = Abstract!Kept(opts.max, written[s])
        BY <3>2, OutputExact
      <3>4. Held \subseteq broken
        BY <3>3 DEF Held
      <3>5. captured \in [Streams -> Nat]
        BY DEF TypeInv, TypeOK
      <3>6. Abstract!Return
        BY <2>1, <2>2, <3>1, <3>3, <3>4, <3>5 DEF Abstract!Return
      <3>7. QED
        BY <3>6 DEF Abstract!Next
    <2>4. CASE result' # "Ok"
      <3>1. Phase' = "failed"
        BY <2>1, <2>4 DEF Phase
      <3>2. QED
        BY <2>1, <2>2, <3>1, <1>c
    <2>5. QED
      BY <2>3, <2>4
  <1>7. CASE OrphanReap \/ TimerFires \/ Cancel \/ HelperExec
    <2>1. UNCHANGED <<opts, written, broken, open, run, result, captured>>
      BY <1>7 DEF OrphanReap, TimerFires, Cancel, HelperExec
    <2>2. QED
      BY <2>1, <1>a, <1>e, <1>f
  <1>8. CASE SetupFails \/ TargetExits
    <2>1. UNCHANGED <<opts, written, broken, run, result, captured>>
      BY <1>8 DEF SetupFails, TargetExits
    <2>2. Held' \subseteq Held
      BY <1>8, <1>d DEF SetupFails, TargetExits, Die
    <2>3. QED
      BY <2>1, <2>2, <1>b, <1>e
  <1>9. ASSUME NEW s \in Streams, StreamStep(s)
        PROVE  [Abstract!Next]_(Abstract!vars)
    <2>1. CASE ReadChunk(s)
      <3>1. UNCHANGED <<opts, written, broken, open, run, result>>
        BY <2>1 DEF ReadChunk
      <3>2. result # "Ok"
        BY <2>1 DEF ReadChunk, FutureInv
      <3>3. UNCHANGED <<Phase, Output>>
        BY <3>1, <3>2 DEF Phase, Output
      <3>4. QED
        BY <3>1, <3>3, <1>a, <1>f
    <2>2. CASE DrainChunk(s) \/ ReadEof(s)
      <3>1. UNCHANGED <<opts, written, broken, open, run, result, captured>>
        BY <2>2 DEF DrainChunk, ReadEof
      <3>2. QED
        BY <3>1, <1>a, <1>e, <1>f
    <2>3. CASE ReadFails(s)
      <3>1. UNCHANGED <<opts, written, open, run, result, captured>>
        BY <2>3 DEF ReadFails
      <3>2. broken' = broken \cup {s}
        BY <2>3 DEF ReadFails
      <3>3. QED
        BY <3>1, <3>2, <1>e, <1>f DEF Abstract!Next, Abstract!LoseStream
    <2>4. ASSUME NEW p \in {Child} \cup Descendants, Write(p, s)
          PROVE  [Abstract!Next]_(Abstract!vars)
      <3>1. UNCHANGED <<opts, broken, open, run, result, captured>>
        BY <2>4 DEF Write
      <3>2. s \in Held /\ written' = [written EXCEPT ![s] = @ + 1]
        BY <2>4 DEF Write, Held
      <3>3. QED
        BY <3>1, <3>2, <1>e, <1>f DEF Abstract!Next, Abstract!Emit
    <2>5. ASSUME NEW p \in {Child} \cup Descendants, CloseStream(p, s)
          PROVE  [Abstract!Next]_(Abstract!vars)
      <3>1. UNCHANGED <<opts, written, broken, run, result, captured>>
        BY <2>5 DEF CloseStream
      <3>2. Held' \subseteq Held
        BY <2>5, <1>d DEF CloseStream, TypeInv, TypeOK
      <3>3. QED
        BY <3>1, <3>2, <1>b, <1>e
    <2>6. QED
      BY <1>9, <2>1, <2>2, <2>3, <2>4, <2>5 DEF StreamStep
  <1>10. ASSUME NEW d \in Descendants, DescendantStep(d)
         PROVE  [Abstract!Next]_(Abstract!vars)
    <2>1. UNCHANGED <<opts, written, broken, run, result, captured>>
      BY <1>10 DEF DescendantStep, DescendantExits, NamespaceDies, Fork
    <2>2. Held' \subseteq Held
      BY <1>10 DEF DescendantStep, DescendantExits, NamespaceDies, Fork, Held
    <2>3. QED
      BY <2>1, <2>2, <1>b, <1>e
  <1>11. CASE UNCHANGED vars
    BY <1>11, <1>a, <1>e, <1>f DEF vars
  <1>12. QED
    BY <1>1, <1>2, <1>3, <1>4, <1>5, <1>6, <1>7, <1>8, <1>9, <1>10, <1>11
    DEF Next, StreamStep, DescendantStep

\* spawn_and_capture implements Command: an ExecOutput is handed out only when
\* nobody can write any more, and keeps exactly the bytes Command says.
THEOREM Refinement == Spec => ImplementsCommand
  BY InitTypeInv, NextTypeInv, InitReaderInv, NextReaderInv, InitFutureInv,
     NextFutureInv, InitRefines, StepRefines, PTL
  DEF Spec, ImplementsCommand, Abstract!Spec
=============================================================================
