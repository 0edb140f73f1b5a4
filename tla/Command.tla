------------------------------- MODULE Command -------------------------------
(***************************************************************************)
(* What a caller of Sandbox::run is promised about one command, with no    *)
(* mention of pipes, reader tasks, timers or reaping: the command's        *)
(* process group emits bytes on its two streams, at some point nobody can  *)
(* emit any more, and only then is an ExecOutput handed out, holding for   *)
(* each stream exactly the first `max` bytes emitted (all of them when     *)
(* max = 0).  A run may also end in an error or be abandoned by a caller   *)
(* that drops the future.  SpawnCapture implements this specification.     *)
(***************************************************************************)
EXTENDS Integers

CONSTANT Streams            \* the captured streams

VARIABLES
  max,       \* RunOpts::max_output_bytes, fixed at the call
  live,      \* streams on which some process can still emit
  emitted,   \* bytes emitted on each stream so far
  lost,      \* streams whose reading broke off with an I/O error
  phase,     \* "ready", "running", "returned" or "dropped"
  output     \* captured bytes per stream of a returned ExecOutput

vars == <<max, live, emitted, lost, phase, output>>

\* The bytes of a stream that an ExecOutput keeps of n emitted ones.
Kept(cap, n) == IF cap = 0 \/ n <= cap THEN n ELSE cap

Init ==
  /\ max \in Nat
  /\ live = {}
  /\ emitted = [s \in Streams |-> 0]
  /\ lost = {}
  /\ phase = "ready"
  /\ output = [s \in Streams |-> 0]

Start ==
  /\ phase = "ready"
  /\ phase' = "running"
  /\ live' = Streams
  /\ UNCHANGED <<max, emitted, lost, output>>

\* Bytes only come from a stream some process still holds, in any phase after
\* the start: a command abandoned by its caller may go on writing.
Emit(s) ==
  /\ s \in live
  /\ emitted' = [emitted EXCEPT ![s] = @ + 1]
  /\ UNCHANGED <<max, live, lost, phase, output>>

\* Writers only ever go away.
CloseStreams ==
  /\ live' \in SUBSET live
  /\ UNCHANGED <<max, emitted, lost, phase, output>>

LoseStream(s) ==
  /\ lost' = lost \cup {s}
  /\ UNCHANGED <<max, live, emitted, phase, output>>

\* The one way to obtain an ExecOutput.
Return ==
  /\ phase = "running"
  /\ phase' = "returned"
  /\ live \subseteq lost
  /\ output' \in [Streams -> Nat]
  /\ \A s \in Streams \ lost : output'[s] = Kept(max, emitted[s])
  /\ UNCHANGED <<max, live, emitted, lost>>

\* An error return, or the caller dropping the future: the child is killed.
GiveUp ==
  /\ phase \in {"ready", "running"}
  /\ phase' \in {"failed", "dropped"}
  /\ live' \in SUBSET live
  /\ UNCHANGED <<max, emitted, lost, output>>

Next ==
  \/ Start
  \/ \E s \in Streams : Emit(s) \/ LoseStream(s)
  \/ CloseStreams
  \/ Return
  \/ GiveUp

Spec == Init /\ [][Next]_vars
=============================================================================
