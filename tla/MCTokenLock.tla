---------------------------- MODULE MCTokenLock ----------------------------
(* Two calls that compete for one key.                                       *)
EXTENDS TokenLock

CONSTANTS c1, c2

MCCalls == {c1, c2}
=============================================================================
