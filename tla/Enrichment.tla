----------------------------- MODULE Enrichment -----------------------------
(***************************************************************************)
(* What a parse promises its owner, without workers, queues or counters:   *)
(* a document is parsed, handed over to a fixed set of enrichment jobs,    *)
(* every job settles once, and the document is completed when, and only    *)
(* when, the last one has.  KnowledgeIngest implements it for a parse that *)
(* nobody disturbs.                                                        *)
(***************************************************************************)
EXTENDS FiniteSets

CONSTANT Jobs

VARIABLES
  phase,  \* "parsing", "enriching", "completed" or "failed"
  owed    \* the jobs that have not settled

avars == <<phase, owed>>

AInit == phase = "parsing" /\ owed = {}

\* Parsing ends with a hand-over to the jobs, with a failure, or with nothing
\* to enrich.
Handoff ==
  /\ phase = "parsing"
  /\ phase' = "enriching" /\ owed' = Jobs

GiveUp ==
  /\ phase = "parsing"
  /\ phase' \in {"completed", "failed"} /\ UNCHANGED owed

Settle ==
  /\ phase = "enriching"
  /\ \E j \in owed : owed' = owed \ {j}
  /\ UNCHANGED phase

Complete ==
  /\ phase = "enriching" /\ owed = {}
  /\ phase' = "completed" /\ UNCHANGED owed

ANext == Handoff \/ GiveUp \/ Settle \/ Complete

ASpec == AInit /\ [][ANext]_avars

\* Every phase ends: no sweeper is needed.
AFairSpec == ASpec /\ WF_avars(ANext)
=============================================================================
