------------------------ MODULE MCSandboxLifecycle ------------------------
(* Three Resolves, alike, and the deletion of the session.                 *)
EXTENDS SandboxLifecycle, TLC

CONSTANTS r1, r2, r3, d

TwoResolves == {r1, r2}
ThreeResolves == {r1, r2, r3}
OneDelete == {d}
Alike == Permutations(ThreeResolves)
=============================================================================
