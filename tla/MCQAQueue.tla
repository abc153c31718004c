----------------------------- MODULE MCQAQueue -----------------------------
(* Three questions of two users and a /stop of one of them, two instances.   *)
EXTENDS QAQueue

CONSTANTS r1, r2, r3, s1, i1, i2, u1, u2

MCRequests == {r1, r2, r3}
MCStops == {s1}
MCInstances == {i1, i2}
MCUsers == {u1, u2}
MCUserOf == [x \in {r1, r2, s1} |-> u1] @@ [x \in {r3} |-> u2]
MCRoutes == [x \in {r1, r2} |-> {i1}] @@ [x \in {r3} |-> {i2}] @@ [x \in {s1} |-> MCInstances]
=============================================================================
