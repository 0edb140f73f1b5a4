---------------------------- MODULE MCSpawnCapture ----------------------------
(* TLC instances of SpawnCapture. *)
EXTENDS SpawnCapture

CONSTANTS c, d1, d2

AllStatuses == ExitStatuses
OneDescendant == {d1}
TwoDescendants == {d1, d2}
AllKinds == KindNames
OnlyProxied == {"proxied"}
OnlyLandlock == {"landlock"}
=============================================================================
