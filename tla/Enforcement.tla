------------------------------ MODULE Enforcement ------------------------------
(***************************************************************************)
(* What the re-exec helper promises about one sandboxed command, with no   *)
(* mention of stages, environment variables or bwrap: restrictions are     *)
(* only ever added, the target starts only once everything its policy      *)
(* demands is in force, and a helper that cannot get there refuses, which  *)
(* is final.  Helper implements this specification.                        *)
(***************************************************************************)
CONSTANT Restrictions

VARIABLES
  want,    \* what the policy demands of the target
  has,     \* what is in force for the process that becomes the target
  phase    \* "setup", "running", "refused" or "stopped"

vars == <<want, has, phase>>

Init ==
  /\ want \in SUBSET Restrictions
  /\ has = {}
  /\ phase = "setup"

\* Restrictions survive fork and exec and are never lifted.
Restrict ==
  /\ phase = "setup"
  /\ has' \in SUBSET Restrictions
  /\ has \subseteq has'
  /\ UNCHANGED <<want, phase>>

Start ==
  /\ phase = "setup"
  /\ want \subseteq has
  /\ phase' = "running"
  /\ UNCHANGED <<want, has>>

Refuse ==
  /\ phase = "setup"
  /\ phase' = "refused"
  /\ UNCHANGED <<want, has>>

Stop ==
  /\ phase = "running"
  /\ phase' = "stopped"
  /\ UNCHANGED <<want, has>>

Next == Restrict \/ Start \/ Refuse \/ Stop

Spec == Init /\ [][Next]_vars
=============================================================================
