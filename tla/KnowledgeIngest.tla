--------------------------- MODULE KnowledgeIngest ---------------------------
(***************************************************************************)
(* The life of one knowledge row: a document is uploaded, parsed, chunked, *)
(* indexed and enriched by asynq workers, while its owner may cancel the   *)
(* parse, reparse the document or delete it and a sweeper recovers rows    *)
(* that are stuck.  One action is one database or queue round trip of the  *)
(* code in internal/application/service and .../repository: a worker that  *)
(* reads, computes and writes does so in separate actions.                 *)
(*                                                                         *)
(*   document:process        ProcessDocument and processChunks    (Doc...) *)
(*   knowledge:post_process  KnowledgePostProcessService.Handle   (Post..) *)
(*   summary, question,      ProcessSummaryGeneration and the              *)
(*   graph extraction        other counted enrichment handlers    (Sub...) *)
(*   HTTP handlers           CancelKnowledgeParse, ReparseKnowledge,       *)
(*                           DeleteKnowledge                               *)
(*   cron                    HousekeepingService.runSweep                  *)
(*                                                                         *)
(* Left out: images and wiki pages (their fan-in has the same shape), tags *)
(* and storage quotas, and every column of the row but parse_status and    *)
(* pending_subtasks_count.                                                 *)
(***************************************************************************)
EXTENDS Naturals, FiniteSets

CONSTANTS
  Slots,           \* the enrichment subtasks one post-process fans out
  SummarySlot,     \* the one among them that generates the summary
  MaxRetry,        \* asynq.MaxRetry of every task (3 in the code)
  MaxReparse,      \* bound: how often the user reparses
  MaxCancel,       \* bound: how often the user cancels
  MaxDelete,       \* bound: how often the user deletes
  MaxFault,        \* bound: crashed workers and failed I/O, in all
  MaxPost,         \* bound: post-process messages ever enqueued
  MaxFan,          \* bound: fan-outs ever made by post-process
  NeedsEmbedding,  \* the knowledge base has vector or keyword indexing
  HasText,         \* the document yields at least one text chunk
  Housekeeping     \* the sweeper is running

ASSUME SlotsAssumption == IsFiniteSet(Slots) /\ SummarySlot \in Slots
ASSUME BoundsAssumption ==
  {MaxRetry, MaxReparse, MaxCancel, MaxDelete, MaxFault, MaxPost, MaxFan}
    \subseteq Nat
ASSUME SwitchesAssumption ==
  {NeedsEmbedding, HasText, Housekeeping} \subseteq BOOLEAN

\* Message 0 is the upload: its payload carries no attempt.  Message d > 0 is
\* the d-th reparse and carries the attempt ReparseKnowledge opened for it.
Docs  == 0 .. MaxReparse
Posts == 1 .. MaxPost
Fans  == 1 .. MaxFan

InFlight == {"pending", "processing", "finalizing"}
Aborted  == {"cancelled", "deleting", "gone"}
Statuses == InFlight \cup Aborted \cup {"completed", "failed"}

DocPcs == {"none", "queued", "recheck", "mark", "open", "parse", "clean",
           "check2", "create", "check3", "index", "undo", "check4", "save",
           "fan", "ack", "dead", "done"}
PostPcs == {"none", "queued", "list", "fast", "handoff", "enq", "promote",
            "dead", "done"}
SubPcs == {"none", "held", "unowned", "queued", "read", "save1", "list",
           "work", "fresh", "store", "save2", "derive", "dec", "promote", "done"}

VARIABLES
  status,    \* knowledges.parse_status; "gone" once the row is soft-deleted
  pending,   \* knowledges.pending_subtasks_count
  latest,    \* the highest attempt number in the span table
  chunks,    \* the attempts whose chunks are in the chunk table
  index,     \* the attempts whose chunks are in the retrieval index
  derived,   \* the fan-outs whose subtasks stored chunks, questions or nodes
  docPc, docTries, docAtt,             \* document:process messages
  postPc, postTries, postAtt,          \* post-process messages
  postSeen,  \* the chunks a post-process delivery has listed
  postFan,   \* and the fan-out it is making
  subPc, subTries, subSeen,            \* enrichment subtasks, by fan-out
  fanAtt, fanChunks,                   \* the payload its messages carry
  nPosts, nFans,                       \* messages and fan-outs so far
  cancelPc, nCancels, reparsePc, nReparses, deletePc, nDeletes,
  faults,    \* crashes and failed calls so far
  calm,      \* history: the current parse has run undisturbed since its reset
  cutAt,     \* history: the attempt last cancelled while finalizing, 0 for none
  slipped    \* history: a worker has passed its last abort check after the
             \* clean-up of a deletion and before its drop

rowVars   == <<status, pending>>
storeVars == <<chunks, index, derived>>
docVars   == <<docPc, docTries, docAtt>>
postVars  == <<postPc, postTries, postAtt, postSeen, postFan, nPosts>>
fanVars   == <<fanAtt, fanChunks, nFans>>
subVars   == <<subPc, subTries, subSeen, fanVars>>
userVars  == <<cancelPc, nCancels, reparsePc, nReparses, deletePc, nDeletes>>
ghostVars == <<calm, cutAt, slipped>>
vars == <<rowVars, latest, storeVars, docVars, postVars, subVars, userVars,
          faults, ghostVars>>

-----------------------------------------------------------------------------
(* The row, as the repository writes it.  A soft-deleted row stays deleted *)
(* under a whole-row Save, a column update and a guarded update.           *)

\* UpdateKnowledge: the whole row but the counter, whatever the status was.
Save(s) == status' = IF status = "gone" THEN "gone" ELSE s

\* UpdateKnowledgeColumns on {parse_status, pending_subtasks_count}.
SetColumns(s, n) ==
  /\ Save(s)
  /\ pending' = IF status = "gone" THEN pending ELSE n

\* Mutated: the clamp guards against 1 instead of 0.
DecrementOffByOne ==
  /\ pending' = IF pending > 1 /\ status # "gone" THEN pending - 1 ELSE pending
  /\ UNCHANGED status

\* Mutated: no clamp.
DecrementUnclamped ==
  /\ pending' = IF status # "gone" THEN pending - 1 ELSE pending
  /\ UNCHANGED status

\* FinalizeSubtask, first statement: the clamped decrement.
Decrement ==
  /\ pending' = IF pending > 0 /\ status # "gone" THEN pending - 1 ELSE pending
  /\ UNCHANGED status

\* Mutated: the promote does not look at the counter.
PromoteUncounted ==
  /\ status' = IF status = "finalizing" THEN "completed" ELSE status
  /\ UNCHANGED pending

\* FinalizeSubtask, second statement: the guarded promote.
Promote ==
  /\ status' = IF status = "finalizing" /\ pending = 0
               THEN "completed" ELSE status
  /\ UNCHANGED pending

LiveDocs  == {d \in Docs : docPc[d] \notin {"none", "done"}}
LivePosts == {p \in Posts : postPc[p] \notin {"none", "done"}}
LiveSubs  == {x \in Fans \X Slots :
                subPc[x[1]][x[2]] \notin {"none", "held", "unowned", "done"}}

\* No task of this row is queued or running anywhere.
Quiet == LiveDocs = {} /\ LivePosts = {} /\ LiveSubs = {}

Fault == faults < MaxFault /\ faults' = faults + 1

Init ==
  /\ status = "pending" /\ pending = 0 /\ latest = 0
  /\ chunks = {} /\ index = {} /\ derived = {}
  /\ docPc = [d \in Docs |-> IF d = 0 THEN "queued" ELSE "none"]
  /\ docTries = [d \in Docs |-> 0]
  /\ docAtt = [d \in Docs |-> 0]
  /\ postPc = [p \in Posts |-> "none"]
  /\ postTries = [p \in Posts |-> 0]
  /\ postAtt = [p \in Posts |-> 0]
  /\ postSeen = [p \in Posts |-> {}]
  /\ postFan = [p \in Posts |-> 0]
  /\ subPc = [f \in Fans |-> [s \in Slots |-> "none"]]
  /\ subTries = [f \in Fans |-> [s \in Slots |-> 0]]
  /\ subSeen = [f \in Fans |-> [st |-> "pending", ch |-> {}]]
  /\ fanAtt = [f \in Fans |-> 0]
  /\ fanChunks = [f \in Fans |-> {}]
  /\ nPosts = 0 /\ nFans = 0
  /\ cancelPc = "idle" /\ reparsePc = "idle" /\ deletePc = "idle"
  /\ nCancels = 0 /\ nReparses = 0 /\ nDeletes = 0
  /\ faults = 0 /\ calm = TRUE /\ cutAt = 0 /\ slipped = FALSE

-----------------------------------------------------------------------------
(* document:process                                                        *)

DocGoto(d, pc) == docPc' = [docPc EXCEPT ![d] = pc]

DocStep(d, from, to) ==
  /\ docPc[d] = from
  /\ DocGoto(d, to)
  /\ UNCHANGED <<docTries, docAtt, latest, postVars, subVars, userVars,
                 ghostVars>>

\* The idempotency guards at the top of ProcessDocument: a failed or
\* finalizing row goes on, and so does one that is processing already.
DocRead(d) ==
  /\ DocStep(d, "queued",
             IF status \in Aborted \cup {"completed"} THEN "done" ELSE "recheck")
  /\ UNCHANGED <<rowVars, storeVars, faults>>

\* The second abort check, after the knowledge base was loaded.
DocRecheck(d) ==
  /\ DocStep(d, "recheck", IF status \in Aborted THEN "done" ELSE "mark")
  /\ UNCHANGED <<rowVars, storeVars, faults>>

\* The row could not be read or could not be marked: that is logged, and the
\* message is not retried.
DocLost(d) ==
  /\ \/ DocStep(d, "queued", "done")
     \/ DocStep(d, "mark", "done")
  /\ Fault
  /\ UNCHANGED <<rowVars, storeVars>>

\* markKnowledgeProcessing and the whole-row save that follows.
DocMark(d) ==
  /\ docPc[d] = "mark"
  /\ DocGoto(d, "open")
  /\ Save("processing")
  /\ UNCHANGED <<pending, latest, storeVars, docTries, docAtt, postVars,
                 subVars, userVars, faults, ghostVars>>

\* Mutated: a reparse opens a second attempt and goes on using its own.
DocOpenAlways(d) ==
  /\ docPc[d] = "open"
  /\ DocGoto(d, "parse")
  /\ latest' = latest + 1
  /\ docAtt' = IF d = 0 THEN [docAtt EXCEPT ![d] = latest + 1] ELSE docAtt
  /\ UNCHANGED <<rowVars, storeVars, docTries, postVars, subVars, userVars,
                 faults, ghostVars>>

\* A payload without an attempt opens a new one on every delivery.
DocOpen(d) ==
  /\ docPc[d] = "open"
  /\ DocGoto(d, "parse")
  /\ latest' = IF d = 0 THEN latest + 1 ELSE latest
  /\ docAtt' = IF d = 0 THEN [docAtt EXCEPT ![d] = latest + 1] ELSE docAtt
  /\ UNCHANGED <<rowVars, storeVars, docTries, postVars, subVars, userVars,
                 faults, ghostVars>>

\* An unreadable knowledge base, an unsupported file, bad credentials: the
\* failure is saved and the task is not retried.
DocFatal(d) ==
  /\ \/ DocStep(d, "recheck", "done")
     \/ DocStep(d, "parse", "done")
  /\ Save("failed")
  /\ UNCHANGED <<pending, storeVars, faults>>

\* Download or conversion failed: asynq retries, and only the last delivery
\* saves the failure.
DocRetryable(d) ==
  /\ docPc[d] = "parse"
  /\ IF docTries[d] < MaxRetry
     THEN /\ DocGoto(d, "queued")
          /\ docTries' = [docTries EXCEPT ![d] = @ + 1]
          /\ UNCHANGED status
     ELSE /\ DocGoto(d, "dead")
          /\ Save("failed")
          /\ UNCHANGED docTries
  /\ UNCHANGED <<pending, latest, storeVars, docAtt, postVars, subVars,
                 userVars, faults, ghostVars>>

\* The dead-letter callback: an unguarded column update.
DocDeadLetter(d) ==
  /\ DocStep(d, "dead", "done")
  /\ Save("failed")
  /\ UNCHANGED <<pending, storeVars, faults>>

\* The document was read and split.  processChunks starts with an abort check.
DocParsed(d) ==
  /\ DocStep(d, "parse", IF status \in Aborted THEN "done" ELSE "clean")
  /\ UNCHANGED <<rowVars, storeVars, faults>>

\* Without its embedding model it returns with the row still processing.
DocNoModel(d) ==
  /\ NeedsEmbedding
  /\ DocStep(d, "parse", "done")
  /\ Fault
  /\ UNCHANGED <<rowVars, storeVars>>

\* Mutated: the old data is left where it is.
DocCleanNothing(d) ==
  /\ DocStep(d, "clean", "check2")
  /\ UNCHANGED <<rowVars, storeVars, faults>>

\* The chunks, index rows and graph of every earlier run are dropped.
DocClean(d) ==
  /\ DocStep(d, "clean", "check2")
  /\ chunks' = {} /\ derived' = {}
  /\ index' = IF NeedsEmbedding THEN {} ELSE index
  /\ UNCHANGED <<rowVars, faults>>

DocCheck2(d) ==
  /\ DocStep(d, "check2", IF status \in Aborted THEN "done" ELSE "create")
  /\ UNCHANGED <<rowVars, storeVars, faults>>

DocCreate(d) ==
  /\ DocStep(d, "create", IF NeedsEmbedding THEN "check3" ELSE "save")
  /\ chunks' = IF HasText THEN chunks \cup {docAtt[d]} ELSE chunks
  /\ UNCHANGED <<rowVars, index, derived, faults>>

\* The chunks could not be created, or (with the chunks in place, and left
\* there) the tenant is out of quota.
DocSaveFailed(d) ==
  /\ \/ DocStep(d, "create", "done")
     \/ DocStep(d, "check3", "done")
  /\ Save("failed")
  /\ Fault
  /\ UNCHANGED <<pending, storeVars>>

\* A row that is being deleted loses the chunks just written; a cancelled one
\* keeps them.
DocCheck3(d) ==
  /\ DocStep(d, "check3", IF status \in Aborted THEN "done" ELSE "index")
  /\ chunks' = IF status \in {"deleting", "gone"} THEN {} ELSE chunks
  /\ derived' = IF status \in {"deleting", "gone"} THEN {} ELSE derived
  /\ UNCHANGED <<rowVars, index, faults>>

DocIndex(d) ==
  /\ DocStep(d, "index", "check4")
  /\ index' = IF HasText THEN index \cup {docAtt[d]} ELSE index
  /\ UNCHANGED <<rowVars, chunks, derived, faults>>

\* Mutated: the error of the index is ignored.
DocIndexFailedIgnored(d) ==
  /\ DocStep(d, "index", "check4")
  /\ Fault
  /\ UNCHANGED <<rowVars, storeVars>>

\* The index refused the chunks: the row is failed, and what there is of the
\* chunks and the index is dropped next.
DocIndexFailed(d) ==
  /\ DocStep(d, "index", "undo")
  /\ Save("failed")
  /\ Fault
  /\ UNCHANGED <<pending, storeVars>>

DocUndo(d) ==
  /\ DocStep(d, "undo", "done")
  /\ chunks' = {} /\ index' = {} /\ derived' = {}
  /\ UNCHANGED <<rowVars, faults>>

\* The last abort check a worker makes.  A row whose deleting mark has been
\* overwritten passes it.
LastCheck(d) ==
  /\ docPc[d] = "check4"
  /\ DocGoto(d, IF status \in Aborted THEN "done" ELSE "save")
  /\ slipped' = (slipped \/ (status \notin Aborted /\ deletePc = "drop"))
  /\ UNCHANGED <<rowVars, latest, docTries, docAtt, postVars, subVars, userVars,
                 faults, calm, cutAt>>

\* Mutated: a worker that finds its row deleted just stops.
DocCheck4KeepsData(d) == LastCheck(d) /\ UNCHANGED storeVars

DocCheck4(d) ==
  /\ LastCheck(d)
  /\ IF status \in {"deleting", "gone"}
     THEN chunks' = {} /\ index' = {} /\ derived' = {}
     ELSE UNCHANGED storeVars

\* finalizeIndexedKnowledgeState and the save, whose failure is only logged.
DocSave(d) ==
  /\ DocStep(d, "save", "fan")
  /\ \/ Save(IF HasText THEN "processing" ELSE "completed") /\ UNCHANGED faults
     \/ UNCHANGED status /\ Fault
  /\ UNCHANGED <<pending, storeVars>>

\* The post-process message carries the attempt of this delivery.
DocFan(d) ==
  /\ docPc[d] = "fan"
  /\ nPosts < MaxPost
  /\ DocGoto(d, "ack")
  /\ nPosts' = nPosts + 1
  /\ postPc' = [postPc EXCEPT ![nPosts + 1] = "queued"]
  /\ postAtt' = [postAtt EXCEPT ![nPosts + 1] = docAtt[d]]
  /\ UNCHANGED <<rowVars, latest, storeVars, docTries, docAtt, postTries,
                 postSeen, postFan, subVars, userVars, faults, ghostVars>>

\* A failed enqueue is only logged.
DocFanFailed(d) ==
  /\ DocStep(d, "fan", "ack")
  /\ Fault
  /\ UNCHANGED <<rowVars, storeVars>>

DocAck(d) ==
  /\ DocStep(d, "ack", "done")
  /\ UNCHANGED <<rowVars, storeVars, faults>>

\* The worker dies.  asynq redelivers when its lease runs out, or archives
\* the message, without the callback, when no retry is left.
DocCrash(d) ==
  /\ docPc[d] \notin {"none", "queued", "done"}
  /\ Fault
  /\ IF docTries[d] < MaxRetry
     THEN /\ DocGoto(d, "queued")
          /\ docTries' = [docTries EXCEPT ![d] = @ + 1]
     ELSE DocGoto(d, "done") /\ UNCHANGED docTries
  /\ calm' = FALSE
  /\ UNCHANGED <<rowVars, latest, storeVars, docAtt, postVars, subVars,
                 userVars, cutAt, slipped>>

-----------------------------------------------------------------------------
(* knowledge:post_process                                                  *)

PostGoto(p, pc) == postPc' = [postPc EXCEPT ![p] = pc]

PostStep(p, from, to) ==
  /\ postPc[p] = from
  /\ PostGoto(p, to)
  /\ UNCHANGED <<latest, storeVars, docVars, postTries, postAtt, postSeen,
                 postFan, nPosts, userVars, ghostVars>>

\* The row is read once; only one that is processing is enriched.
PostLoad(p) ==
  /\ status # "gone"
  /\ PostStep(p, "queued", IF status = "processing" THEN "list" ELSE "done")
  /\ UNCHANGED <<rowVars, subVars, faults>>

\* The row, its knowledge base or its chunks could not be read (a deleted row
\* never can): asynq retries, then calls the dead-letter callback.
PostLoadFailed(p) ==
  /\ \/ postPc[p] = "queued" /\ status = "gone" /\ UNCHANGED faults
     \/ postPc[p] \in {"queued", "list"} /\ status # "gone" /\ Fault
  /\ IF postTries[p] < MaxRetry
     THEN /\ PostGoto(p, "queued")
          /\ postTries' = [postTries EXCEPT ![p] = @ + 1]
     ELSE PostGoto(p, "dead") /\ UNCHANGED postTries
  /\ UNCHANGED <<rowVars, latest, storeVars, docVars, postAtt, postSeen, postFan,
                 nPosts, subVars, userVars, ghostVars>>

PostDeadLetter(p) ==
  /\ PostStep(p, "dead", "done")
  /\ Save("failed")
  /\ UNCHANGED <<pending, subVars, faults>>

\* Without text chunks there is nothing to enrich.
PostList(p) ==
  /\ postPc[p] = "list"
  /\ PostGoto(p, IF chunks = {} THEN "fast" ELSE "handoff")
  /\ postSeen' = [postSeen EXCEPT ![p] = chunks]
  /\ UNCHANGED <<rowVars, latest, storeVars, docVars, postTries, postAtt,
                 postFan, nPosts, subVars, userVars, faults, ghostVars>>

\* The fast path completes the row whatever its status is by now; a failed
\* update is only logged.
PostFast(p) ==
  /\ PostStep(p, "fast", "done")
  /\ \/ Save("completed") /\ UNCHANGED faults
     \/ UNCHANGED status /\ Fault
  /\ UNCHANGED <<pending, subVars>>

\* Mutated: the counter is seeded without the summary.
SeedWithoutSummary(p) ==
  /\ postPc[p] = "handoff"
  /\ status = "processing"
  /\ nFans < MaxFan
  /\ PostGoto(p, "enq")
  /\ status' = "finalizing"
  /\ pending' = Cardinality(Slots \ {SummarySlot})
  /\ nFans' = nFans + 1
  /\ postFan' = [postFan EXCEPT ![p] = nFans + 1]
  /\ fanAtt' = [fanAtt EXCEPT ![nFans + 1] = postAtt[p]]
  /\ fanChunks' = [fanChunks EXCEPT ![nFans + 1] = postSeen[p]]
  /\ subPc' = [subPc EXCEPT ![nFans + 1] = [s \in Slots |-> "held"]]
  /\ UNCHANGED <<latest, storeVars, docVars, postTries, postAtt, postSeen, nPosts,
                 subTries, subSeen, userVars, faults, ghostVars>>

\* SetFinalizing: processing to finalizing, and the counter seeded with one
\* unit per subtask, before any of them is enqueued.
SetFinalizing(p) ==
  /\ postPc[p] = "handoff"
  /\ status = "processing"
  /\ nFans < MaxFan
  /\ PostGoto(p, "enq")
  /\ status' = "finalizing"
  /\ pending' = Cardinality(Slots)
  /\ nFans' = nFans + 1
  /\ postFan' = [postFan EXCEPT ![p] = nFans + 1]
  /\ fanAtt' = [fanAtt EXCEPT ![nFans + 1] = postAtt[p]]
  /\ fanChunks' = [fanChunks EXCEPT ![nFans + 1] = postSeen[p]]
  /\ subPc' = [subPc EXCEPT ![nFans + 1] = [s \in Slots |-> "held"]]
  /\ UNCHANGED <<latest, storeVars, docVars, postTries, postAtt, postSeen, nPosts,
                 subTries, subSeen, userVars, faults, ghostVars>>

\* The row left processing, or the update failed: no fan-out, no retry.
HandoffLost(p) ==
  /\ PostStep(p, "handoff", "done")
  /\ IF status = "processing" THEN Fault ELSE UNCHANGED faults
  /\ UNCHANGED <<rowVars, subVars>>

\* One subtask is enqueued, or its enqueue fails and leaves its unit of the
\* counter without an owner.
PostEnqueue(p, s, pc) ==
  LET f == postFan[p]
  IN /\ postPc[p] = "enq"
     /\ subPc[f][s] = "held"
     /\ subPc' = [subPc EXCEPT ![f][s] = pc]
     /\ UNCHANGED <<rowVars, latest, storeVars, docVars, postVars, subTries,
                    subSeen, fanVars, userVars, faults, ghostVars>>

\* With every enqueue tried, the shortfall is released unit by unit.
PostRelease(p, s) ==
  LET f == postFan[p]
  IN /\ PostStep(p, "enq", "promote")
     /\ \A t \in Slots : subPc[f][t] # "held"
     /\ subPc[f][s] = "unowned"
     /\ subPc' = [subPc EXCEPT ![f][s] = "done"]
     /\ Decrement
     /\ UNCHANGED <<subTries, subSeen, fanVars, faults>>

\* Mutated: a released slot is not followed by the promote.
PostReleaseOnly(p) ==
  /\ PostStep(p, "promote", "enq")
  /\ UNCHANGED <<rowVars, subVars, faults>>

PostPromote(p) ==
  /\ PostStep(p, "promote", "enq")
  /\ Promote
  /\ UNCHANGED <<subVars, faults>>

\* All is enqueued and released; an error of a release ends the loop as well.
PostReturn(p) ==
  LET f == postFan[p]
  IN /\ PostStep(p, "enq", "done")
     /\ \A s \in Slots : subPc[f][s] # "held"
     /\ IF \A s \in Slots : subPc[f][s] # "unowned"
        THEN UNCHANGED faults ELSE Fault
     /\ UNCHANGED <<rowVars, subVars>>

PostCrash(p) ==
  /\ postPc[p] \notin {"none", "queued", "done"}
  /\ Fault
  /\ IF postTries[p] < MaxRetry
     THEN /\ PostGoto(p, "queued")
          /\ postTries' = [postTries EXCEPT ![p] = @ + 1]
     ELSE PostGoto(p, "done") /\ UNCHANGED postTries
  /\ calm' = FALSE
  /\ UNCHANGED <<rowVars, latest, storeVars, docVars, postAtt, postSeen, postFan,
                 nPosts, subVars, userVars, cutAt, slipped>>

-----------------------------------------------------------------------------
(* The counted enrichment subtasks                                         *)

SubGoto(f, s, pc) == subPc' = [subPc EXCEPT ![f][s] = pc]

SubStep(f, s, from, to) ==
  /\ subPc[f][s] = from
  /\ SubGoto(f, s, to)
  /\ UNCHANGED <<latest, chunks, index, docVars, postVars, subTries, fanVars,
                 userVars, ghostVars>>

\* attemptSuperseded: an older attempt's subtask leaves the counter alone.
SubStart(f, s) ==
  /\ SubStep(f, s, "queued", IF latest > fanAtt[f] THEN "done" ELSE "read")
  /\ UNCHANGED <<rowVars, derived, subSeen, faults>>

\* The row is read.  An aborted one ends the subtask, which then drains, and
\* so does a knowledge base without a model; graph extraction does not need
\* the row and goes on without one.
SubRead(f, s) ==
  /\ \/ SubStep(f, s, "read", "dec") /\ UNCHANGED subSeen
     \/ /\ status \notin Aborted \/ (status = "gone" /\ s # SummarySlot)
        /\ SubStep(f, s, "read", IF s = SummarySlot THEN "save1" ELSE "work")
        /\ subSeen' = IF s = SummarySlot
                      THEN [subSeen EXCEPT ![f].st = status] ELSE subSeen
  /\ UNCHANGED <<rowVars, derived, faults>>

\* The summary worker saves the row as it read it, parse_status included.
SummaryMark(f) ==
  /\ SubStep(f, SummarySlot, "save1", "list")
  /\ Save(subSeen[f].st)
  /\ UNCHANGED <<pending, derived, subSeen, faults>>

\* The text chunks are read; without any the worker saves and gives up.
SummaryList(f) ==
  /\ SubStep(f, SummarySlot, "list", IF chunks = {} THEN "dec" ELSE "work")
  /\ IF chunks = {} THEN Save(subSeen[f].st) ELSE UNCHANGED status
  /\ subSeen' = [subSeen EXCEPT ![f].ch = chunks]
  /\ UNCHANGED <<pending, derived, faults>>

\* The LLM call, or a refusal to make it on too little text.
SummaryWork(f) ==
  /\ \/ SubStep(f, SummarySlot, "work", "fresh") /\ UNCHANGED status
     \/ SubStep(f, SummarySlot, "work", "dec") /\ Save(subSeen[f].st)
  /\ UNCHANGED <<pending, derived, subSeen, faults>>

\* A question batch or a graph extraction reads the chunks its message names,
\* calls the LLM, and looks once more whether the chunks are still there.
SubWork(f, s) ==
  /\ s # SummarySlot
  /\ \E step \in {<<"work", "fresh">>, <<"fresh", "store">>} :
       SubStep(f, s, step[1],
               IF fanChunks[f] \cap chunks = {} THEN "dec" ELSE step[2])
  /\ UNCHANGED <<rowVars, derived, subSeen, faults>>

SubStore(f, s) ==
  /\ SubStep(f, s, "store", "dec")
  /\ derived' = derived \cup {f}
  /\ UNCHANGED <<rowVars, subSeen, faults>>

\* Mutated: a subtask drains on success only.
RetryNeverDrains(f, s) ==
  IF subTries[f][s] < MaxRetry
  THEN SubGoto(f, s, "queued") /\ subTries' = [subTries EXCEPT ![f][s] = @ + 1]
  ELSE SubGoto(f, s, "done") /\ UNCHANGED subTries

\* A delivery that returns an error is retried, and only the last one drains.
Retry(f, s) ==
  IF subTries[f][s] < MaxRetry
  THEN SubGoto(f, s, "queued") /\ subTries' = [subTries EXCEPT ![f][s] = @ + 1]
  ELSE SubGoto(f, s, "dec") /\ UNCHANGED subTries

\* A model that does not answer, a chunk that is gone, a store that fails.  A
\* summary worker without an answer saves the row; on its last delivery it
\* goes on to publish a fallback instead.
SubFail(f, s) ==
  /\ \/ /\ subPc[f][s] = "work" /\ s = SummarySlot
        /\ subTries[f][s] < MaxRetry
        /\ Save(subSeen[f].st)
     \/ /\ subPc[f][s] = "work" /\ s # SummarySlot
        /\ UNCHANGED status
     \/ /\ subPc[f][s] \in {"store", "derive"}
        /\ UNCHANGED status
  /\ Retry(f, s)
  /\ UNCHANGED <<pending, latest, storeVars, docVars, postVars, subSeen,
                 fanVars, userVars, faults, ghostVars>>

\* summarySourceChanged, before the summary or a fallback is published: every
\* chunk it was made from must still be there, and if one of them, or the
\* document's metadata, was edited meanwhile the summary is discarded.
SummaryFresh(f) ==
  /\ status # "gone" /\ subSeen[f].ch \subseteq chunks
  /\ \E to \in {"save2", "dec"} : SubStep(f, SummarySlot, "fresh", to)
  /\ UNCHANGED <<rowVars, derived, subSeen, faults>>

\* The chunks are gone: the error is saved with the row and returned.
SummaryStale(f) ==
  /\ subPc[f][SummarySlot] = "fresh"
  /\ status = "gone" \/ ~(subSeen[f].ch \subseteq chunks)
  /\ Save(subSeen[f].st)
  /\ Retry(f, SummarySlot)
  /\ UNCHANGED <<pending, latest, storeVars, docVars, postVars, subSeen,
                 fanVars, userVars, faults, ghostVars>>

SummarySave(f) ==
  /\ SubStep(f, SummarySlot, "save2", "derive")
  /\ Save(subSeen[f].st)
  /\ UNCHANGED <<pending, derived, subSeen, faults>>

\* The summary chunk is created and indexed; a fallback is not.
SummaryDerive(f) ==
  /\ SubStep(f, SummarySlot, "derive", "dec")
  /\ derived' \in {derived, IF NeedsEmbedding THEN derived \cup {f} ELSE derived}
  /\ UNCHANGED <<rowVars, subSeen, faults>>

\* finalizeSubtaskDetached: the terminal exit of a subtask drains its unit.
SubDrain(f, s) ==
  /\ SubStep(f, s, "dec", "promote")
  /\ Decrement
  /\ UNCHANGED <<derived, subSeen, faults>>

SubPromote(f, s) ==
  /\ SubStep(f, s, "promote", "done")
  /\ Promote
  /\ UNCHANGED <<derived, subSeen, faults>>

\* The worker dies, or its decrement fails and is only logged.
SubCrash(f, s) ==
  /\ subPc[f][s] \notin {"none", "held", "unowned", "queued", "done"}
  /\ Fault
  /\ \/ /\ subTries[f][s] < MaxRetry
        /\ SubGoto(f, s, "queued")
        /\ subTries' = [subTries EXCEPT ![f][s] = @ + 1]
     \/ /\ subTries[f][s] = MaxRetry \/ subPc[f][s] = "dec"
        /\ SubGoto(f, s, "done")
        /\ UNCHANGED subTries
  /\ calm' = FALSE
  /\ UNCHANGED <<rowVars, latest, storeVars, docVars, postVars, subSeen,
                 fanVars, userVars, cutAt, slipped>>

-----------------------------------------------------------------------------
(* The user and the sweeper                                                *)

\* CancelTasksForKnowledge: queued messages are deleted, unless the inspector
\* fails, and any of the running workers may be stopped for good.
DequeueAll(ds, ps, ss) ==
  /\ docPc' = [d \in Docs |-> IF d \in ds THEN "done" ELSE docPc[d]]
  /\ postPc' = [p \in Posts |-> IF p \in ps THEN "done" ELSE postPc[p]]
  /\ subPc' = [f \in Fans |-> [s \in Slots |->
                 IF <<f, s>> \in ss THEN "done" ELSE subPc[f][s]]]
  /\ UNCHANGED <<docTries, docAtt, postTries, postAtt, postSeen, postFan, nPosts,
                 subTries, subSeen, fanVars>>

Queued == [docs  |-> {d \in LiveDocs : docPc[d] = "queued"},
           posts |-> {p \in LivePosts : postPc[p] = "queued"},
           subs  |-> {x \in LiveSubs : subPc[x[1]][x[2]] = "queued"}]

Dequeue ==
  \/ \E ds \in SUBSET LiveDocs, ps \in SUBSET LivePosts, ss \in SUBSET LiveSubs :
       /\ Queued.docs \subseteq ds /\ Queued.posts \subseteq ps
       /\ Queued.subs \subseteq ss
       /\ DequeueAll(ds, ps, ss)
  \/ UNCHANGED <<docVars, postVars, subVars>>

\* CancelKnowledgeParse reads the row and refuses one that has settled.
CancelRead ==
  /\ cancelPc = "idle" /\ nCancels < MaxCancel
  /\ status \in InFlight \cup {"cancelled"}
  /\ cancelPc' = IF status = "cancelled" THEN "dequeue" ELSE "write"
  /\ nCancels' = nCancels + 1
  /\ UNCHANGED <<rowVars, latest, storeVars, docVars, postVars, subVars,
                 reparsePc, nReparses, deletePc, nDeletes, faults, ghostVars>>

\* The row is cancelled and its counter zeroed, in one unguarded update.
CancelWrite ==
  /\ cancelPc = "write"
  /\ cancelPc' = "dequeue"
  /\ SetColumns("cancelled", 0)
  /\ calm' = FALSE
  /\ cutAt' = IF status = "finalizing" THEN latest ELSE cutAt
  /\ UNCHANGED <<latest, storeVars, docVars, postVars, subVars, nCancels,
                 reparsePc, nReparses, deletePc, nDeletes, faults, slipped>>

CancelDequeue ==
  /\ cancelPc = "dequeue"
  /\ cancelPc' = "idle"
  /\ Dequeue
  /\ calm' = FALSE
  /\ UNCHANGED <<rowVars, latest, storeVars, nCancels, reparsePc, nReparses,
                 deletePc, nDeletes, faults, cutAt, slipped>>

\* ReparseKnowledge opens the attempt first, whatever the row's status is.
ReparseOpen ==
  /\ reparsePc = "idle" /\ nReparses < MaxReparse /\ status # "gone"
  /\ reparsePc' = "clean"
  /\ nReparses' = nReparses + 1
  /\ latest' = latest + 1
  /\ docAtt' = [docAtt EXCEPT ![nReparses + 1] = latest + 1]
  /\ calm' = FALSE
  /\ UNCHANGED <<rowVars, storeVars, docPc, docTries, postVars, subVars,
                 cancelPc, nCancels, deletePc, nDeletes, faults, cutAt, slipped>>

ReparseStep(from, to) ==
  /\ reparsePc = from
  /\ reparsePc' = to
  /\ UNCHANGED <<latest, docTries, docAtt, postVars, subVars, cancelPc,
                 nCancels, nReparses, deletePc, nDeletes, cutAt, slipped>>

\* cleanupKnowledgeResources.
ReparseClean ==
  /\ ReparseStep("clean", "reset")
  /\ chunks' = {} /\ index' = {} /\ derived' = {}
  /\ UNCHANGED <<rowVars, docPc, faults, calm>>

\* A failed cleanup or update returns the error and leaves the row as it is.
ReparseFailed ==
  /\ \E from \in {"clean", "reset", "zero"} : ReparseStep(from, "idle")
  /\ Fault
  /\ UNCHANGED <<rowVars, storeVars, docPc, calm>>

ReparseReset ==
  /\ ReparseStep("reset", "zero")
  /\ Save("pending")
  /\ UNCHANGED <<pending, storeVars, docPc, faults, calm>>

\* The counter is zeroed by an update of its own.  With nothing else under way
\* and no later attempt the new parse starts undisturbed.
ReparseZero ==
  /\ ReparseStep("zero", "enq")
  /\ pending' = IF status = "gone" THEN pending ELSE 0
  /\ calm' = /\ Quiet /\ cancelPc = "idle" /\ deletePc = "idle"
             /\ status = "pending" /\ docAtt[nReparses] = latest
  /\ UNCHANGED <<status, storeVars, docPc, faults>>

ReparseEnqueue ==
  /\ ReparseStep("enq", "idle")
  /\ DocGoto(nReparses, "queued")
  /\ UNCHANGED <<rowVars, storeVars, faults, calm>>

ReparseEnqueueFailed ==
  /\ ReparseStep("enq", "idle")
  /\ Save("failed")
  /\ Fault
  /\ UNCHANGED <<pending, storeVars, docPc, calm>>

\* DeleteKnowledge marks the row, and only a row it saw pending or processing
\* has its tasks dequeued.  A mark that fails does not stop the deletion.
DeleteMark ==
  /\ deletePc = "idle" /\ nDeletes < MaxDelete /\ status # "gone"
  /\ deletePc' = IF status \in {"pending", "processing"} THEN "dequeue" ELSE "clean"
  /\ nDeletes' = nDeletes + 1
  /\ \/ Save("deleting") /\ UNCHANGED faults
     \/ UNCHANGED status /\ Fault
  /\ calm' = FALSE
  /\ UNCHANGED <<pending, latest, storeVars, docVars, postVars, subVars,
                 cancelPc, nCancels, reparsePc, nReparses, cutAt, slipped>>

DeleteStep(from, to) ==
  /\ deletePc = from
  /\ deletePc' = to
  /\ UNCHANGED <<pending, latest, cancelPc, nCancels, reparsePc, nReparses,
                 nDeletes, ghostVars>>

DeleteDequeue ==
  /\ DeleteStep("dequeue", "clean")
  /\ Dequeue
  /\ UNCHANGED <<status, storeVars, faults>>

DeleteClean ==
  /\ DeleteStep("clean", "drop")
  /\ chunks' = {} /\ index' = {} /\ derived' = {}
  /\ UNCHANGED <<status, docVars, postVars, subVars, faults>>

\* Any error of the cleanup, or of the last step, returns with the row left.
DeleteFailed ==
  /\ \E from \in {"clean", "drop"} : DeleteStep(from, "idle")
  /\ Fault
  /\ UNCHANGED <<status, storeVars, docVars, postVars, subVars>>

DeleteDrop ==
  /\ DeleteStep("drop", "idle")
  /\ status' = "gone"
  /\ UNCHANGED <<storeVars, docVars, postVars, subVars, faults>>

\* Mutated: the sweep does not look for finalizing rows.
SweepMissesFinalizing ==
  /\ Housekeeping
  /\ status \in InFlight \ {"finalizing"}
  /\ Quiet
  /\ cancelPc = "idle" /\ reparsePc = "idle" /\ deletePc = "idle"
  /\ SetColumns("failed", 0)
  /\ UNCHANGED <<latest, storeVars, docVars, postVars, subVars, userVars,
                 faults, ghostVars>>

\* Mutated: the sweep does not look for pending rows.
SweepMissesPending ==
  /\ Housekeeping
  /\ status \in InFlight \ {"pending"}
  /\ Quiet
  /\ cancelPc = "idle" /\ reparsePc = "idle" /\ deletePc = "idle"
  /\ SetColumns("failed", 0)
  /\ UNCHANGED <<latest, storeVars, docVars, postVars, subVars, userVars,
                 faults, ghostVars>>

\* runSweep: a row in flight for longer than any task may run, without a
\* recent span and without a task in any queue, is failed.
Sweep ==
  /\ Housekeeping
  /\ status \in InFlight
  /\ Quiet
  /\ cancelPc = "idle" /\ reparsePc = "idle" /\ deletePc = "idle"
  /\ SetColumns("failed", 0)
  /\ UNCHANGED <<latest, storeVars, docVars, postVars, subVars, userVars,
                 faults, ghostVars>>

-----------------------------------------------------------------------------
DocNext(d) ==
  \/ DocRead(d) \/ DocLost(d) \/ DocRecheck(d) \/ DocMark(d) \/ DocOpen(d)
  \/ DocParsed(d) \/ DocFatal(d) \/ DocRetryable(d) \/ DocDeadLetter(d)
  \/ DocNoModel(d) \/ DocClean(d) \/ DocCheck2(d)
  \/ DocCreate(d) \/ DocSaveFailed(d) \/ DocCheck3(d)
  \/ DocIndex(d) \/ DocIndexFailed(d) \/ DocUndo(d) \/ DocCheck4(d)
  \/ DocSave(d) \/ DocFan(d) \/ DocFanFailed(d) \/ DocAck(d) \/ DocCrash(d)

PostNext(p) ==
  \/ PostLoad(p) \/ PostLoadFailed(p) \/ PostDeadLetter(p) \/ PostList(p)
  \/ PostFast(p) \/ SetFinalizing(p) \/ HandoffLost(p)
  \/ \E s \in Slots, pc \in {"queued", "unowned"} : PostEnqueue(p, s, pc)
  \/ \E s \in Slots : PostRelease(p, s)
  \/ PostPromote(p) \/ PostReturn(p) \/ PostCrash(p)

SubNext(f, s) ==
  \/ SubStart(f, s) \/ SubRead(f, s) \/ SubWork(f, s) \/ SubStore(f, s)
  \/ SubFail(f, s) \/ SubDrain(f, s) \/ SubPromote(f, s) \/ SubCrash(f, s)

SummaryNext(f) ==
  \/ SummaryMark(f) \/ SummaryList(f) \/ SummaryWork(f) \/ SummaryFresh(f)
  \/ SummaryStale(f) \/ SummarySave(f) \/ SummaryDerive(f)

\* Requests come when they come; once one has begun its handler runs on.
Request == CancelRead \/ ReparseOpen \/ DeleteMark
Handler ==
  \/ CancelWrite \/ CancelDequeue
  \/ ReparseClean \/ ReparseFailed \/ ReparseReset \/ ReparseZero
  \/ ReparseEnqueue \/ ReparseEnqueueFailed
  \/ DeleteDequeue \/ DeleteClean \/ DeleteFailed \/ DeleteDrop

Next ==
  \/ \E d \in Docs : DocNext(d)
  \/ \E p \in Posts : PostNext(p)
  \/ \E f \in Fans, s \in Slots : SubNext(f, s)
  \/ \E f \in Fans : SummaryNext(f)
  \/ Request
  \/ Handler
  \/ Sweep

Spec == Init /\ [][Next]_vars

\* asynq has workers for every queue, an HTTP handler runs to its end, and
\* the sweeper comes round on its cron schedule.  Nothing else is fair: no
\* request has to be made, and no fault has to happen.
Fairness ==
  /\ \A d \in Docs : WF_vars(DocNext(d))
  /\ \A p \in Posts : WF_vars(PostNext(p))
  /\ \A f \in Fans, s \in Slots :
       WF_vars(SubNext(f, s) \/ (s = SummarySlot /\ SummaryNext(f)))
  /\ WF_vars(CancelWrite \/ CancelDequeue)
  /\ WF_vars(ReparseClean \/ ReparseReset \/ ReparseZero \/ ReparseEnqueue)
  /\ WF_vars(DeleteDequeue \/ DeleteClean \/ DeleteDrop)
  /\ WF_vars(Sweep)

FairSpec == Spec /\ Fairness

-----------------------------------------------------------------------------
(* Properties                                                              *)

\* The type of the state; counters stay within the bounds the runs set.
RowTypes ==
  /\ status \in Statuses
  /\ pending \in 0 .. Cardinality(Slots)
  /\ latest \in Nat
StoreTypes ==
  /\ chunks \in SUBSET Nat /\ index \in SUBSET Nat
  /\ derived \in SUBSET Fans
DocTypes ==
  /\ docPc \in [Docs -> DocPcs]
  /\ docTries \in [Docs -> 0 .. MaxRetry]
  /\ docAtt \in [Docs -> Nat]
PostTypes ==
  /\ postPc \in [Posts -> PostPcs]
  /\ postTries \in [Posts -> 0 .. MaxRetry]
  /\ postAtt \in [Posts -> Nat]
  /\ postSeen \in [Posts -> SUBSET Nat]
  /\ postFan \in [Posts -> 0 .. MaxFan]
  /\ nPosts \in 0 .. MaxPost
SubTypes ==
  /\ subPc \in [Fans -> [Slots -> SubPcs]]
  /\ subTries \in [Fans -> [Slots -> 0 .. MaxRetry]]
  /\ subSeen \in [Fans -> [st : Statuses, ch : SUBSET Nat]]
FanTypes ==
  /\ fanAtt \in [Fans -> Nat]
  /\ fanChunks \in [Fans -> SUBSET Nat]
  /\ nFans \in 0 .. MaxFan
UserTypes ==
  /\ cancelPc \in {"idle", "write", "dequeue"} /\ nCancels \in 0 .. MaxCancel
  /\ reparsePc \in {"idle", "clean", "reset", "zero", "enq"}
  /\ nReparses \in 0 .. MaxReparse
  /\ deletePc \in {"idle", "dequeue", "clean", "drop"}
  /\ nDeletes \in 0 .. MaxDelete
  /\ faults \in 0 .. MaxFault
GhostTypes == calm \in BOOLEAN /\ slipped \in BOOLEAN /\ cutAt \in Nat
TypeOK ==
  /\ RowTypes /\ StoreTypes /\ DocTypes /\ PostTypes
  /\ SubTypes /\ FanTypes /\ UserTypes /\ GhostTypes

\* The units of the counter a fan-out still owes: slots not yet enqueued,
\* slots to be released, and subtasks that have not drained.
OwedPcs == SubPcs \ {"none", "promote", "done"}
Owed(f) == {s \in Slots : subPc[f][s] \in OwedPcs}

\* A finalizing row's counter is exactly what its newest fan-out still owes,
\* and no older fan-out has a live subtask, as long as the parse runs
\* undisturbed (SetFinalizing, FinalizeSubtask and the shortfall release).
CounterIsOwed ==
  calm /\ status = "finalizing" =>
    /\ nFans > 0
    /\ pending = Cardinality(Owed(nFans))
    /\ \A x \in LiveSubs : x[1] = nFans

\* types/knowledge.go: a completed row has every enrichment subtask in a
\* terminal state and spends no further resources.
Spending == SubPcs \ {"none", "held", "unowned", "promote", "done"}
NothingSpends ==
  /\ \A f \in Fans, s \in Slots : subPc[f][s] \notin Spending
  /\ \A p \in Posts : postPc[p] = "enq" => "held" \notin
       {subPc[postFan[p]][s] : s \in Slots}
  /\ \A d \in Docs : docPc[d] \in {"none", "queued", "fan", "ack", "done"}
CompletedIsTerminal == status = "completed" => NothingSpends

\* The same of a parse that runs undisturbed from its reset on.
CalmCompletedIsTerminal ==
  calm /\ status = "completed" => NothingSpends /\ pending = 0

\* A finalizing row whose counter is zero is about to be promoted: somebody
\* who drained has yet to run the second statement of FinalizeSubtask.
NeverStranded ==
  calm /\ status = "finalizing" /\ pending = 0 =>
    \/ \E p \in Posts : postPc[p] = "promote"
    \/ \E x \in LiveSubs : subPc[x[1]][x[2]] = "promote"

\* What an undisturbed parse publishes is the newest attempt's chunks, all of
\* them indexed, and nothing of an earlier attempt.
OneGeneration ==
  calm /\ status \in {"finalizing", "completed"} /\ HasText =>
    /\ chunks = {latest}
    /\ NeedsEmbedding => index = chunks

\* DeleteKnowledge: a deleted document leaves no chunks or index rows behind,
\* once the workers that were on it have seen the deletion.
DeletedLeavesNothing ==
  status = "gone" /\ Quiet => chunks = {} /\ index = {}

\* With an index, when no call has failed and no cancel could stop a worker
\* before its own clean-up, that is so unless a worker slipped through between
\* the clean-up and the drop: wherever else a worker is in processChunks, it or
\* the deletion removes what it wrote.  Without an index processChunks makes no
\* abort check after CreateChunks.
SeenDeletionLeavesNothing ==
  NeedsEmbedding /\ ~slipped /\ faults = 0 /\ nCancels = 0
    => DeletedLeavesNothing

\* The same of what enrichment stores for it.
DeletedLeavesNoEnrichment ==
  status = "gone" /\ Quiet => derived = {}

\* CancelKnowledgeParse: a late FinalizeSubtask cannot promote a row whose
\* enrichment was cancelled back to completed.
CancelledNeverCompletes == status = "completed" => cutAt = 0 \/ cutAt # latest

\* attemptSuperseded: a subtask of an older attempt does not decrement the
\* counter of the newer one.
SupersededLeavesCounter ==
  [][\A f \in Fans, s \in Slots :
       /\ subPc[f][s] = "dec" /\ subPc'[f][s] = "promote"
       /\ fanAtt[f] < latest
       => pending' = pending]_vars

\* image_multimodal.go: post-process takes a row from processing to completed
\* under a guard on the row.
FastPathIsGuarded ==
  [][\A p \in Posts :
       /\ postPc[p] = "fast" /\ postPc'[p] = "done"
       /\ status # "completed" /\ status' = "completed"
       => status = "processing"]_vars

\* ProcessDocument: retries of one message record onto one attempt.
RetriesKeepAttempt ==
  [][\A d \in Docs : docAtt[d] # 0 => docAtt'[d] = docAtt[d]]_vars

\* Once the user is done with requests the row leaves its in-flight statuses
\* for good: the workers, and failing them the sweeper, settle it.
EndsSettled == <>[](status \notin InFlight)

\* A parse that nobody disturbs implements the abstract Enrichment: the row's
\* in-flight statuses are its phases, the undrained slots its open jobs.
Phase == CASE status \in {"pending", "processing"} -> "parsing"
           [] status = "finalizing" -> "enriching"
           [] OTHER -> status
Abstract == INSTANCE Enrichment WITH
              Jobs <- Slots, phase <- Phase, owed <- UNION {Owed(f) : f \in Fans}
ImplementsEnrichment == Abstract!AFairSpec
=============================================================================
