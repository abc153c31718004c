--------------------------- MODULE MCModelLimiter ---------------------------
(* Calls of one model, of which the last runs in a process with a fast clock. *)
EXTENDS ModelLimiter

CONSTANTS c1, c2, c3

TwoCalls == {c1, c2}
ThreeCalls == {c1, c2, c3}
TwoClocks == [c \in TwoCalls |-> IF c = c2 THEN Skew ELSE 0]
ThreeClocks == [c \in ThreeCalls |-> IF c = c3 THEN Skew ELSE 0]
=============================================================================
