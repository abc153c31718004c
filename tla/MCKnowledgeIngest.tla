------------------------- MODULE MCKnowledgeIngest -------------------------
(* Instances of KnowledgeIngest for TLC.                                   *)
EXTENDS KnowledgeIngest

CONSTANTS sum, ask

MCSlots == {sum, ask}
MCOneSlot == {sum}
=============================================================================
