---------------------------- MODULE MCWikiQueue ----------------------------
(* Two documents on one page, one of which may be deleted; and one          *)
(* document that is parsed again.                                          *)
EXTENDS WikiQueue, TLC

CONSTANTS doc1, doc2, page1, t1, t2

OnePage == {page1}
TwoTriggers == {t1, t2}
Alike == Permutations(TwoTriggers)

TwoDocs == {doc1, doc2}
Shared == [d \in TwoDocs |-> OnePage]
OnlyA == {doc1}
Once == [d \in TwoDocs |-> 1]

OneDoc == {doc1}
Sole == [d \in OneDoc |-> OnePage]
Nobody == {}
Twice == [d \in OneDoc |-> 2]
=============================================================================
