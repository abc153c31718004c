------------------------------ MODULE WikiQueue ------------------------------
(***************************************************************************)
(* The wiki queue of one knowledge base in the mode with Redis             *)
(* (service/wiki_ingest*.go, repository/task_queue.go).  The durable table *)
(* task_pending_ops says what has to be done to which document's pages; a  *)
(* trigger, an asynq task without content, makes a worker look: it claims  *)
(* some documents, extracts their pages, writes each page under its lock,  *)
(* drains the documents' units of the parse counter and settles the rows.  *)
(* Batches run concurrently, with uploads, reparses and deletions.         *)
(* A step is one request to the database or to Redis, or one model call.   *)
(***************************************************************************)
EXTENDS Integers, FiniteSets

CONSTANTS
  Docs, Pages,
  Contrib,      \* the pages that a document contributes to
  Deletable,    \* documents a user may delete
  Triggers,     \* asynq tasks that have no ID of their own
  Capped,       \* the task wiki-ingest-capped-<kb>
  Recheck,      \* the task wiki-ingest-recheck-<kb>
  NoPage,       \* the page does not exist
  Free,         \* nobody holds the page's lock
  Orphan,       \* a batch that died held it
  Parses,       \* how often each document is parsed: 1 + its reparses
  MaxFails,     \* wikiMaxFailRetries
  BatchSize,    \* documents per batch
  MaxInflight,  \* batches of the knowledge base at a time
  Pool,         \* workers of the wiki queue
  MaxCrashes, MaxFaults

Tasks == Triggers \cup {Capped, Recheck}

ASSUME NamesAssumption ==
  /\ Capped # Recheck /\ {Capped, Recheck} \cap Triggers = {}
  /\ {Free, Orphan} \cap Tasks = {} /\ Free # Orphan
  /\ \A ds \in SUBSET Docs : ds # NoPage
  /\ Deletable \subseteq Docs
  /\ Contrib \in [Docs -> SUBSET Pages]

ASSUME BoundsAssumption ==
  /\ {MaxFails, BatchSize, MaxInflight, Pool, MaxCrashes, MaxFaults} \subseteq Nat
  /\ Parses \in [Docs -> Nat]

VARIABLES
  rows,    \* task_pending_ops: what is still to be done
  lastId,  \* the last row ID given out
  page,    \* the documents a page refers to, or NoPage
  lock,    \* wiki:slug:<kb>:<page>
  leaked,  \* in-flight slots of batches that died
  at,      \* where each asynq task is
  batch,   \* what the run of a task holds in memory
  stage,   \* where each document is: parsing, seeded, handed over
  parses,  \* how often it was handed over
  drains,  \* how often its unit of this parse's counter was released
  del,     \* where its deletion is
  snap,    \* the pages its deletion has listed
  slugs,   \* those it has taken the document off
  crashes, faults, boots,
  lost,       \* history: an enqueue of a trigger failed
  selfLost,   \* history: a task found its own ID taken
  exposed,    \* history: documents whose claim was removed under a batch
  crossed,    \* history: documents deleted while a page with them was written
  dropped,    \* history: documents with an edit or an operation given up
  unguarded,  \* history: pages written without their lock over another's write
  replayed    \* history: documents drained with their row left to be claimed again

table == <<rows, lastId>>
wiki == <<page, lock>>
docs == <<stage, parses, drains>>
deletion == <<del, snap, slugs>>
mishaps == <<crashes, faults, boots>>
ghosts == <<lost, selfLost, exposed, crossed, dropped, unguarded, replayed>>
vars == <<table, wiki, leaked, at, batch, docs, deletion, mishaps, ghosts>>

Row == [id : Nat, doc : Docs, op : {"ingest", "retract"}, slugs : SUBSET Pages,
        claim : {"free", "fresh", "aging", "stale"}, fails : Nat]

Batch == [slot : BOOLEAN,            \* it holds an in-flight slot
          ids : SUBSET Nat,          \* the rows it has claimed
          ops : SUBSET Row,          \* the last one of each document
          mapped : SUBSET Docs,
          adds : [Pages -> SUBSET Docs], rets : [Pages -> SUBSET Docs],
          busy : SUBSET Pages,
          base : [Pages -> {NoPage} \cup SUBSET Docs],  \* the page as it was read
          bad : SUBSET Docs,         \* failed, and not yet requeued
          drained : SUBSET Docs,
          err : BOOLEAN]

NoBatch == [slot |-> FALSE, ids |-> {}, ops |-> {}, mapped |-> {},
            adds |-> [p \in Pages |-> {}], rets |-> [p \in Pages |-> {}],
            busy |-> {}, base |-> [p \in Pages |-> NoPage],
            bad |-> {}, drained |-> {}, err |-> FALSE]

Steps == {"claim", "recheck", "work", "settle"}

Gone(d) == del[d] # "no"
Active(t) == at[t] \in Steps
DocsOf(t) == {r.doc : r \in batch[t].ops}
\* The batch has yet to do something for the document.
Works(t, d) == \/ at[t] = "work" /\ d \in DocsOf(t)
               \/ at[t] = "settle" /\ d \in batch[t].bad

TypeOK ==
  /\ rows \subseteq Row /\ lastId \in Nat
  /\ \A r \in rows : r.id \in 1 .. lastId
  /\ page \in [Pages -> {NoPage} \cup SUBSET Docs]
  /\ lock \in [Pages -> Tasks \cup {Free, Orphan}]
  /\ leaked \in Nat
  /\ at \in [Tasks -> Steps \cup {"absent", "pending"}]
  /\ batch \in [Tasks -> Batch]
  /\ stage \in [Docs -> {"parsing", "seeded", "handed"}]
  /\ parses \in [Docs -> Nat] /\ drains \in [Docs -> Nat]
  /\ del \in [Docs -> {"no", "marked", "scrubbed", "listed", "retracted", "done"}]
  /\ snap \in [Docs -> [Pages -> {NoPage} \cup SUBSET Docs]]
  /\ slugs \in [Docs -> SUBSET Pages]
  /\ crashes \in Nat /\ faults \in Nat /\ boots \in Nat
  /\ lost \in BOOLEAN /\ selfLost \in BOOLEAN
  /\ exposed \cup crossed \cup dropped \cup replayed \subseteq Docs
  /\ unguarded \subseteq Pages

Init ==
  /\ rows = {} /\ lastId = 0
  /\ page = [p \in Pages |-> NoPage]
  /\ lock = [p \in Pages |-> Free]
  /\ leaked = 0
  /\ at = [t \in Tasks |-> "absent"]
  /\ batch = [t \in Tasks |-> NoBatch]
  /\ stage = [d \in Docs |-> "parsing"]
  /\ parses = [d \in Docs |-> 0] /\ drains = [d \in Docs |-> 0]
  /\ del = [d \in Docs |-> "no"]
  /\ snap = [d \in Docs |-> [p \in Pages |-> NoPage]]
  /\ slugs = [d \in Docs |-> {}]
  /\ crashes = 0 /\ faults = 0 /\ boots = 0
  /\ lost = FALSE /\ selfLost = FALSE
  /\ exposed = {} /\ crossed = {} /\ dropped = {} /\ unguarded = {} /\ replayed = {}

Fault == faults < MaxFaults /\ faults' = faults + 1 /\ UNCHANGED <<crashes, boots>>

-----------------------------------------------------------------------------
(* Rows and triggers.                                                       *)

Insert(d, o, ss) ==
  /\ lastId' = lastId + 1
  /\ rows' = rows \cup {[id |-> lastId + 1, doc |-> d, op |-> o, slugs |-> ss,
                         claim |-> "free", fails |-> 0]}

IngestRows(d) == {r \in rows : r.doc = d /\ r.op = "ingest"}

\* DeleteByDedupKey: the ingest rows of a document, claimed ones too.
Scrub(d) == rows' = rows \ IngestRows(d)

\* Documents whose claim vanishes from under the batch that holds it.
Exposing(ids) == {d \in Docs : \E t \in Tasks : Works(t, d)
                                 /\ \E r \in batch[t].ops : r.doc = d /\ r.id \in ids}

Ids(rs) == {r.id : r \in rs}

SetClaim(ids, c) ==
  {[r EXCEPT !.claim = IF r.id \in ids THEN c ELSE @] : r \in rows}

\* A trigger without ID goes into the queue.  The model has a few of them and
\* takes one for two when all of them are there and one has not started.
Enqueue(old) ==
  LET absent == {x \in Triggers : old[x] = "absent"} IN
  IF absent # {}
  THEN \E x \in absent : at' = [old EXCEPT ![x] = "pending"]
  ELSE /\ \E x \in Triggers : old[x] = "pending"
       /\ at' = old

-----------------------------------------------------------------------------
(* Documents: post-processing, reparse, deletion.                           *)

\* SeedKnowledgeFinalizingWithPendingOp: the row and its unit, in one
\* transaction that wants the status processing.
Seed(d) ==
  /\ stage[d] = "parsing" /\ ~Gone(d) /\ parses[d] < Parses[d]
  /\ Insert(d, "ingest", {})
  /\ stage' = [stage EXCEPT ![d] = "seeded"]
  /\ parses' = [parses EXCEPT ![d] = @ + 1]
  /\ drains' = [drains EXCEPT ![d] = 0]
  /\ UNCHANGED <<wiki, leaked, at, batch, deletion, mishaps, ghosts>>

\* enqueueWikiIngestTrigger, which post-processing retries until it succeeds.
TriggerIngest(d) ==
  /\ stage[d] = "seeded"
  /\ Enqueue(at)
  /\ stage' = [stage EXCEPT ![d] = "handed"]
  /\ UNCHANGED <<table, wiki, leaked, batch, parses, drains, deletion, mishaps, ghosts>>

\* ReparseKnowledge: scrub the queue, remove the chunks, reset the counter.
Reparse(d) ==
  /\ stage[d] = "handed" /\ ~Gone(d) /\ parses[d] < Parses[d]
  /\ Scrub(d)
  /\ stage' = [stage EXCEPT ![d] = "parsing"]
  /\ drains' = [drains EXCEPT ![d] = 0]
  /\ exposed' = exposed \cup Exposing(Ids(IngestRows(d)))
  /\ replayed' = replayed \cup {c \in {d} : \E t \in Tasks : Works(t, d)}
  /\ UNCHANGED <<lastId, wiki, leaked, at, batch, parses, deletion, mishaps,
                 lost, selfLost, crossed, dropped, unguarded>>

\* DeleteKnowledge marks the row and cleanupWikiOnKnowledgeDelete sets the
\* tombstone: from here on isKnowledgeGone.
DeleteMark(d) ==
  /\ d \in Deletable /\ del[d] = "no"
  /\ del' = [del EXCEPT ![d] = "marked"]
  /\ crossed' = crossed \cup
       {c \in {d} : \E t \in Tasks, p \in Pages :
                      Active(t) /\ p \in batch[t].busy /\ d \in batch[t].adds[p]}
  /\ UNCHANGED <<table, wiki, leaked, at, batch, docs, snap, slugs, mishaps,
                 lost, selfLost, exposed, dropped, unguarded, replayed>>

\* scrubWikiPendingIngest, whose failure is logged only.
DeleteScrub(d) ==
  /\ del[d] = "marked"
  /\ del' = [del EXCEPT ![d] = "scrubbed"]
  /\ \/ /\ Scrub(d)
        /\ exposed' = exposed \cup Exposing(Ids(IngestRows(d)))
        /\ UNCHANGED mishaps
     \/ Fault /\ UNCHANGED <<rows, exposed>>
  /\ UNCHANGED <<lastId, wiki, leaked, at, batch, docs, snap, slugs,
                 lost, selfLost, crossed, dropped, unguarded, replayed>>

DeleteList(d) ==
  /\ del[d] = "scrubbed"
  /\ del' = [del EXCEPT ![d] = "listed"]
  /\ snap' = [snap EXCEPT ![d] =
       [p \in Pages |-> IF page[p] # NoPage /\ d \in page[p] THEN page[p] ELSE NoPage]]
  /\ UNCHANGED <<table, wiki, leaked, at, batch, docs, slugs, mishaps, ghosts>>

\* A listed page loses the document, or is deleted with its last one.  It is
\* written as it was listed, and without its lock.
DeleteFromPage(d, p) ==
  /\ del[d] = "listed" /\ snap[d][p] # NoPage
  /\ LET rest == snap[d][p] \ {d} IN
       page' = IF page[p] = NoPage THEN page
               ELSE [page EXCEPT ![p] = IF rest = {} THEN NoPage ELSE rest]
  /\ slugs' = [slugs EXCEPT ![d] = IF page[p] = NoPage THEN @ ELSE @ \cup {p}]
  /\ snap' = [snap EXCEPT ![d][p] = NoPage]
  /\ unguarded' = IF page[p] = snap[d][p] THEN unguarded ELSE unguarded \cup {p}
  /\ UNCHANGED <<table, lock, leaked, at, batch, docs, del, mishaps,
                 lost, selfLost, exposed, crossed, dropped, replayed>>

\* EnqueueWikiRetract: the row, unconditionally; a failure is logged only.
DeleteRetract(d) ==
  /\ del[d] = "listed" /\ \A p \in Pages : snap[d][p] = NoPage
  /\ \/ /\ Insert(d, "retract", slugs[d])
        /\ del' = [del EXCEPT ![d] = "retracted"]
        /\ UNCHANGED <<mishaps, dropped>>
     \/ /\ Fault
        /\ del' = [del EXCEPT ![d] = "done"]
        /\ dropped' = dropped \cup {d}
        /\ UNCHANGED table
  /\ UNCHANGED <<wiki, leaked, at, batch, docs, snap, slugs,
                 lost, selfLost, exposed, crossed, unguarded, replayed>>

\* Then its trigger.
DeleteTrigger(d) ==
  /\ del[d] = "retracted"
  /\ del' = [del EXCEPT ![d] = "done"]
  /\ \/ Enqueue(at) /\ UNCHANGED <<mishaps, lost>>
     \/ Fault /\ lost' = TRUE /\ UNCHANGED at
  /\ UNCHANGED <<table, wiki, leaked, batch, docs, snap, slugs,
                 selfLost, exposed, crossed, dropped, unguarded, replayed>>

-----------------------------------------------------------------------------
(* ProcessWikiIngest: the in-flight cap and the claim.                      *)

Goto(t, s) == at' = [at EXCEPT ![t] = s]

\* What the run of the task holds from here on.
Remember(t, b) == batch' = [batch EXCEPT ![t] = b]

\* The task is over: its record in Redis is removed, its batch forgotten.
Forget(t) == Remember(t, NoBatch)

\* Mutated: nothing is armed.
ArmNothing(t, n) == Goto(t, "absent") /\ Forget(t) /\ UNCHANGED selfLost

\* The task arms the task n, unless n is there already, and ends.  While it
\* runs its own ID is taken, so a task that arms itself leaves nothing behind.
Arm(t, n) ==
  /\ at' = [x \in Tasks |-> IF x = t THEN "absent"
                            ELSE IF x = n /\ at[n] = "absent" THEN "pending"
                            ELSE at[x]]
  /\ selfLost' = (selfLost \/ n = t)
  /\ Forget(t)

SlotsTaken == Cardinality({x \in Tasks : batch[x].slot}) + leaked

\* A worker takes the task.  The recheck is due when the claims that were fresh
\* when it was armed are stale (claims last 90 minutes, tasks 60 at most).
Taken(t) ==
  /\ at[t] = "pending" /\ Cardinality({x \in Tasks : Active(x)}) < Pool
  /\ t = Recheck => \A r \in rows : r.claim # "aging"

\* reserveInflightSlot; without Redis the batch runs uncapped.
Start(t) ==
  /\ Taken(t)
  /\ \/ /\ SlotsTaken < MaxInflight
        /\ Remember(t, [batch[t] EXCEPT !.slot = TRUE])
        /\ UNCHANGED mishaps
     \/ Fault /\ UNCHANGED batch
  /\ Goto(t, "claim")
  /\ UNCHANGED <<table, wiki, leaked, docs, deletion, ghosts>>

\* At the cap it is turned away: scheduleCappedRetry.
TurnedAway(t) ==
  /\ Taken(t) /\ SlotsTaken >= MaxInflight
  /\ \/ Arm(t, Capped) /\ UNCHANGED <<mishaps, lost>>
     \/ Fault /\ lost' = TRUE /\ Goto(t, "absent") /\ Forget(t) /\ UNCHANGED selfLost
  /\ UNCHANGED <<table, wiki, leaked, docs, deletion,
                 exposed, crossed, dropped, unguarded, replayed>>

Claimed(r) == r.claim \in {"fresh", "aging"}

\* Mutated: only rows are claimed, not the document with them.
EligibleByRow == {d \in Docs : \E r \in rows : r.doc = d /\ ~Claimed(r)}

\* ClaimBatch: the documents without a claim in force, oldest row first.
Eligible == {d \in Docs : /\ \E r \in rows : r.doc = d
                          /\ \A r \in rows : r.doc = d => ~Claimed(r)}
Older(c, d) == \E r \in rows : r.doc = c /\ \A s \in rows : s.doc = d => r.id < s.id
Chosen == {d \in Eligible : Cardinality({c \in Eligible : Older(c, d)}) < BatchSize}

\* decodePendingRows: the last row of a document counts.
LastOps(rs) == {r \in rs : \A s \in rs : s.doc = r.doc => s.id <= r.id}

Claim(t) ==
  /\ at[t] = "claim"
  /\ LET taken == {r \in rows : r.doc \in Chosen} IN
       /\ rows' = SetClaim(Ids(taken), "fresh")
       /\ Remember(t, [batch[t] EXCEPT !.ids = Ids(taken),
                          !.ops = {r \in rows' : r.id \in Ids(LastOps(taken))}])
       /\ Goto(t, IF taken = {} THEN "recheck" ELSE "work")
  /\ UNCHANGED <<lastId, wiki, leaked, docs, deletion, mishaps, ghosts>>

\* The claim fails, and asynq runs the task again.
ClaimFails(t) ==
  /\ at[t] = "claim" /\ Fault
  /\ Goto(t, "pending") /\ Forget(t)
  /\ UNCHANGED <<table, wiki, leaked, docs, deletion, ghosts>>

\* scheduleStaleClaimRecheck: nothing to claim, but rows that others hold.
ArmRecheck(t) ==
  /\ at[t] = "recheck"
  /\ IF rows = {}
     THEN Goto(t, "absent") /\ Forget(t) /\ UNCHANGED <<rows, mishaps, lost, selfLost>>
     ELSE \/ /\ Arm(t, Recheck)
             /\ rows' = IF at[Recheck] # "absent" THEN rows
                        ELSE {[r EXCEPT !.claim = IF @ = "fresh" THEN "aging" ELSE @] : r \in rows}
             /\ UNCHANGED <<mishaps, lost>>
          \/ /\ Fault /\ lost' = TRUE
             /\ Goto(t, "absent") /\ Forget(t)
             /\ UNCHANGED <<rows, selfLost>>
  /\ UNCHANGED <<lastId, wiki, leaked, docs, deletion,
                 exposed, crossed, dropped, unguarded, replayed>>

-----------------------------------------------------------------------------
(* ProcessWikiIngest: map, reduce, settle.                                  *)

OpOf(t, d) == CHOOSE r \in batch[t].ops : r.doc = d
Unmapped(t) == IF at[t] = "work" THEN DocsOf(t) \ batch[t].mapped ELSE {}
Todo(t) == {p \in Pages : batch[t].adds[p] \cup batch[t].rets[p] # {}}

\* The edits of the page are made, or given up.
Over(b, p) == [b EXCEPT !.adds[p] = {}, !.rets[p] = {}, !.busy = @ \ {p}, !.base[p] = NoPage]

\* finalizeWikiSubtask: before the next hand-over the counter is zero and
\* nothing is released.
Drain(d) == drains' = [drains EXCEPT ![d] = IF stage[d] = "parsing" THEN @ ELSE @ + 1]

\* Pages that refer to the document.
Referring(d) == {p \in Pages : page[p] # NoPage /\ d \in page[p]}

AddTo(f, ps, d) == [p \in Pages |-> IF p \in ps THEN f[p] \cup {d} ELSE f[p]]

\* A retraction takes the document off the pages its deletion has found and
\* those that refer to it now; a failed lookup is logged only.
MapRetract(t, d) ==
  /\ d \in Unmapped(t) /\ OpOf(t, d).op = "retract"
  /\ \E found \in {Referring(d), {}} :
       /\ IF found = Referring(d) THEN UNCHANGED <<mishaps, dropped>>
          ELSE Fault /\ dropped' = dropped \cup {d}
       /\ Remember(t, [batch[t] EXCEPT !.mapped = @ \cup {d},
                          !.rets = AddTo(@, OpOf(t, d).slugs \cup found, d)])
  /\ UNCHANGED <<table, wiki, leaked, at, docs, deletion,
                 lost, selfLost, exposed, crossed, unguarded, replayed>>

\* mapOneDocument: a document that is gone or has no chunks is over, its unit
\* released; another one gives its pages, or fails.
MapIngest(t, d) ==
  LET b == [batch[t] EXCEPT !.mapped = @ \cup {d}] IN
  /\ d \in Unmapped(t) /\ OpOf(t, d).op = "ingest"
  /\ \/ /\ Gone(d) \/ stage[d] = "parsing"
        /\ Drain(d)
        /\ Remember(t, [b EXCEPT !.drained = @ \cup {d}])
     \/ /\ ~Gone(d) /\ stage[d] # "parsing"
        /\ \/ Remember(t, [b EXCEPT !.adds = AddTo(@, Contrib[d], d)])
           \/ Remember(t, [b EXCEPT !.bad = @ \cup {d}])
        /\ UNCHANGED drains
  /\ UNCHANGED <<table, wiki, leaked, at, stage, parses, deletion, mishaps, ghosts>>

\* Mutated: what the batch has extracted is written, deleted since or not.
BeginUnfiltered(t, p, l) ==
  /\ Remember(t, [batch[t] EXCEPT !.busy = @ \cup {p}, !.base[p] = page[p]])
  /\ lock' = l

\* reduceSlugUpdates up to its model call: the lock, the documents that are
\* gone filtered out, the page read.
Begin(t, p, l) ==
  LET b == batch[t]
      live == {d \in b.adds[p] : ~Gone(d)} IN
  IF live = {} /\ (b.rets[p] = {} \/ page[p] = NoPage)
  THEN Remember(t, Over(b, p)) /\ UNCHANGED lock
  ELSE /\ Remember(t, [b EXCEPT !.busy = @ \cup {p}, !.adds[p] = live, !.base[p] = page[p]])
       /\ lock' = l

Reducing(t, p) == at[t] = "work" /\ Unmapped(t) = {} /\ p \in Todo(t) \ batch[t].busy

\* Mutated: the page's lock is not waited for.
ReduceBeginBlindly(t, p) ==
  /\ Reducing(t, p)
  /\ Begin(t, p, [lock EXCEPT ![p] = t])
  /\ UNCHANGED <<table, page, leaked, at, docs, deletion, mishaps, ghosts>>

ReduceBegin(t, p) ==
  /\ Reducing(t, p) /\ lock[p] = Free
  /\ Begin(t, p, [lock EXCEPT ![p] = t])
  /\ UNCHANGED <<table, page, leaked, at, docs, deletion, mishaps, ghosts>>

Unapplied(t, p) ==
  LET b == batch[t] IN
  Remember(t, [Over(b, p) EXCEPT !.bad = @ \cup b.adds[p] \cup b.rets[p]])

\* withSlugLock gives up after two minutes.
ReduceWaitsTooLong(t, p) ==
  /\ Reducing(t, p) /\ lock[p] # Free
  /\ Unapplied(t, p)
  /\ UNCHANGED <<table, wiki, leaked, at, docs, deletion, mishaps, ghosts>>

\* Without Redis the page is written unlocked.
ReduceUnlocked(t, p) ==
  /\ Reducing(t, p) /\ Fault
  /\ Begin(t, p, lock)
  /\ unguarded' = unguarded \cup {p}
  /\ UNCHANGED <<table, page, leaked, at, docs, deletion,
                 lost, selfLost, exposed, crossed, dropped, replayed>>

Unlock(t, p) == lock' = IF lock[p] = t THEN [lock EXCEPT ![p] = Free] ELSE lock

\* The model call is over and the page is written; updating a page that is no
\* longer there, or creating one that is, fails.
ReduceWrite(t, p) ==
  LET b == batch[t] IN
  /\ at[t] = "work" /\ p \in b.busy
  /\ IF (b.base[p] = NoPage) = (page[p] = NoPage)
     THEN /\ page' = [page EXCEPT ![p] =
               (IF b.base[p] = NoPage THEN {} ELSE b.base[p] \ b.rets[p]) \cup b.adds[p]]
          /\ Remember(t, Over(b, p))
     ELSE Unapplied(t, p) /\ UNCHANGED page
  /\ Unlock(t, p)
  /\ UNCHANGED <<table, leaked, at, docs, deletion, mishaps, ghosts>>

\* The model call failed: logged, the page is left as it is.
ReduceGivesUp(t, p) ==
  LET b == batch[t] IN
  /\ at[t] = "work" /\ p \in b.busy
  /\ Remember(t, Over(b, p))
  /\ dropped' = dropped \cup b.adds[p] \cup b.rets[p]
  /\ Unlock(t, p)
  /\ UNCHANGED <<table, page, leaked, at, docs, deletion, mishaps,
                 lost, selfLost, exposed, crossed, unguarded, replayed>>

\* Mutated: those with a page that could not be written too.
DueAll(t) == {r.doc : r \in {o \in batch[t].ops : o.op = "ingest"}} \ batch[t].drained

\* Documents all of whose pages were applied, with their unit to be released.
Due(t) == {r.doc : r \in {o \in batch[t].ops : o.op = "ingest"}}
            \ (batch[t].bad \cup batch[t].drained)

Applied(t) == at[t] = "work" /\ Unmapped(t) = {} /\ Todo(t) = {}

DrainDone(t, d) ==
  /\ Applied(t) /\ d \in Due(t)
  /\ Drain(d)
  /\ Remember(t, [batch[t] EXCEPT !.drained = @ \cup {d}])
  /\ UNCHANGED <<table, wiki, leaked, at, stage, parses, deletion, mishaps, ghosts>>

\* Mutated: failed operations are trimmed with the others.
NoBadOps(t) == {r \in batch[t].ops : FALSE}

BadOps(t) == {r \in batch[t].ops : r.doc \in batch[t].bad}

\* trimPendingList: every claimed row but those of failed operations.
Trim(t) ==
  /\ Applied(t) /\ Due(t) = {}
  /\ \/ /\ rows' = {r \in rows : r.id \notin batch[t].ids \ Ids(BadOps(t))}
        /\ UNCHANGED <<batch, mishaps, replayed>>
     \/ /\ Fault
        /\ Remember(t, [batch[t] EXCEPT !.err = TRUE])
        /\ replayed' = replayed \cup batch[t].drained
        /\ UNCHANGED rows
  /\ Goto(t, "settle")
  /\ UNCHANGED <<lastId, wiki, leaked, docs, deletion,
                 lost, selfLost, exposed, crossed, dropped, unguarded>>

\* requeueFailedOps: one more failure; the claim is given back, or the
\* operation archived, its unit released.  A row scrubbed meanwhile is no more.
Requeue(t, d) ==
  /\ at[t] = "settle" /\ d \in batch[t].bad
  /\ Remember(t, [batch[t] EXCEPT !.bad = @ \ {d}])
  /\ LET o == OpOf(t, d)
         r == {x \in rows : x.id = o.id}
     IN IF \A x \in r : x.fails < MaxFails
        THEN /\ rows' = (rows \ r) \cup
                        {[x EXCEPT !.fails = @ + 1, !.claim = "free"] : x \in r}
             /\ UNCHANGED <<drains, dropped>>
        ELSE /\ rows' = rows \ r
             /\ dropped' = dropped \cup {d}
             /\ IF o.op = "ingest" THEN Drain(d) ELSE UNCHANGED drains
  /\ UNCHANGED <<lastId, wiki, leaked, at, stage, parses, deletion, mishaps,
                 lost, selfLost, exposed, crossed, unguarded, replayed>>

\* The count, or the release after it, or the removal after the drain fails.
RequeueFails(t, d) ==
  /\ at[t] = "settle" /\ d \in batch[t].bad /\ Fault
  /\ LET o == OpOf(t, d)
         r == {x \in rows : x.id = o.id}
         b == [batch[t] EXCEPT !.bad = @ \ {d}, !.err = TRUE]
     IN \/ /\ Remember(t, b)
           /\ UNCHANGED <<rows, drains, dropped, replayed>>
        \/ /\ \A x \in r : x.fails < MaxFails
           /\ rows' = (rows \ r) \cup {[x EXCEPT !.fails = @ + 1] : x \in r}
           /\ Remember(t, b)
           /\ UNCHANGED <<drains, dropped, replayed>>
        \/ /\ \E x \in r : x.fails >= MaxFails
           /\ o.op = "ingest" /\ Drain(d)
           /\ dropped' = dropped \cup {d} /\ replayed' = replayed \cup {d}
           /\ Remember(t, [b EXCEPT !.drained = @ \cup {d}])
           /\ UNCHANGED rows
  /\ UNCHANGED <<lastId, wiki, leaked, at, stage, parses, deletion,
                 lost, selfLost, exposed, crossed, unguarded>>

Settled(t) == at[t] = "settle" /\ batch[t].bad = {}

\* After an error the deferred release gives back every row of the batch,
\* those given back and claimed by others too, and asynq runs the task again.
SettleFailed(t) ==
  /\ Settled(t) /\ batch[t].err
  /\ \/ /\ rows' = SetClaim(batch[t].ids, "free")
        /\ exposed' = exposed \cup {d \in Exposing(batch[t].ids) :
                                      \E x \in Tasks \ {t} : Works(x, d)}
        /\ UNCHANGED mishaps
     \/ Fault /\ UNCHANGED <<rows, exposed>>
  /\ Goto(t, "pending") /\ Forget(t)
  /\ UNCHANGED <<lastId, wiki, leaked, docs, deletion,
                 lost, selfLost, crossed, dropped, unguarded, replayed>>

\* scheduleFollowUp, and the end of the task.  The follow-up of a trigger may
\* take its place.
FollowUp(t) ==
  /\ Settled(t) /\ ~batch[t].err
  /\ \/ /\ IF rows = {} THEN Goto(t, "absent")
           ELSE Enqueue([at EXCEPT ![t] = "absent"])
        /\ UNCHANGED <<mishaps, lost>>
     \/ rows # {} /\ Fault /\ lost' = TRUE /\ Goto(t, "absent")
  /\ Forget(t)
  /\ UNCHANGED <<table, wiki, leaked, docs, deletion,
                 selfLost, exposed, crossed, dropped, unguarded, replayed>>

-----------------------------------------------------------------------------
(* Time and crashes.                                                        *)

\* A claim that no running batch stands for becomes stale.
ClaimAges(r) ==
  /\ r \in rows /\ Claimed(r)
  /\ \A t \in Tasks : Active(t) => r.id \notin batch[t].ids
  /\ rows' = SetClaim({r.id}, "stale")
  /\ UNCHANGED <<lastId, wiki, leaked, at, batch, docs, deletion, mishaps, ghosts>>

\* The lock of a dead batch expires, and so does its in-flight slot.
LockExpires(p) ==
  /\ lock[p] = Orphan
  /\ lock' = [lock EXCEPT ![p] = Free]
  /\ UNCHANGED <<table, page, leaked, at, batch, docs, deletion, mishaps, ghosts>>

SlotExpires ==
  /\ leaked > 0 /\ leaked' = leaked - 1
  /\ UNCHANGED <<table, wiki, at, batch, docs, deletion, mishaps, ghosts>>

\* The worker's process dies.  Its claims, its lock and its slot stay behind;
\* asynq hands the task out again.
Crash(t) ==
  /\ Active(t) /\ crashes < MaxCrashes
  /\ crashes' = crashes + 1 /\ boots' = boots + 1
  /\ lock' = [p \in Pages |-> IF lock[p] = t THEN Orphan ELSE lock[p]]
  /\ leaked' = IF batch[t].slot THEN leaked + 1 ELSE leaked
  /\ replayed' = replayed \cup batch[t].drained
  /\ Goto(t, "pending") /\ Forget(t)
  /\ UNCHANGED <<table, page, docs, deletion, faults,
                 lost, selfLost, exposed, crossed, dropped, unguarded>>

\* recoverPendingWikiTasks when it starts again: a trigger if rows wait.
Boot ==
  /\ boots > 0 /\ boots' = boots - 1
  /\ IF rows = {} THEN UNCHANGED at ELSE Enqueue(at)
  /\ UNCHANGED <<table, wiki, leaked, batch, docs, deletion, crashes, faults, ghosts>>

-----------------------------------------------------------------------------
Work(t) ==
  \/ Start(t) \/ TurnedAway(t) \/ Claim(t) \/ ArmRecheck(t)
  \/ Trim(t) \/ SettleFailed(t) \/ FollowUp(t)
  \/ \E d \in Docs : MapRetract(t, d) \/ MapIngest(t, d) \/ DrainDone(t, d) \/ Requeue(t, d)
  \/ \E p \in Pages : \/ ReduceBegin(t, p) \/ ReduceWaitsTooLong(t, p)
                      \/ ReduceWrite(t, p) \/ ReduceGivesUp(t, p)

Mishap(t) ==
  \/ ClaimFails(t) \/ Crash(t)
  \/ \E d \in Docs : RequeueFails(t, d)
  \/ \E p \in Pages : ReduceUnlocked(t, p)

Deleting(d) ==
  \/ DeleteScrub(d) \/ DeleteList(d) \/ DeleteRetract(d) \/ DeleteTrigger(d)
  \/ \E p \in Pages : DeleteFromPage(d, p)

Passing ==
  \/ \E r \in rows : ClaimAges(r)
  \/ \E p \in Pages : LockExpires(p)
  \/ SlotExpires

Next ==
  \/ \E d \in Docs : Seed(d) \/ TriggerIngest(d) \/ Reparse(d) \/ DeleteMark(d) \/ Deleting(d)
  \/ \E t \in Tasks : Work(t) \/ Mishap(t)
  \/ Passing
  \/ Boot

\* Handlers and batches go on, triggers are taken, leases end; nobody has to
\* upload, reparse or delete, and no process has to start again.
Fairness ==
  /\ \A d \in Docs : WF_vars(TriggerIngest(d)) /\ WF_vars(Deleting(d))
  /\ \A t \in Tasks : WF_vars(Work(t))
  /\ WF_vars(Passing)

Spec == Init /\ [][Next]_vars /\ Fairness

-----------------------------------------------------------------------------
(* What the queue promises.                                                 *)

\* One batch at a time works on a document (ClaimBatch, task_queue.go:190-205),
\* late rows, stale claims and failures included; unless a scrub, or the release
\* after a failed settlement, took the claim away from under a batch.
SingleWorker ==
  \A s, t \in Tasks, d \in Docs : s # t /\ Works(s, d) /\ Works(t, d) => d \in exposed

\* A unit of the parse counter that was not released has a durable row that will
\* release it: whatever fails or dies, no document stays finalizing for the wiki.
SlotKeepsItsRow ==
  \A d \in Docs : stage[d] # "parsing" /\ ~Gone(d) /\ drains[d] = 0 => IngestRows(d) # {}

\* The unit is released once (wiki_ingest_batch.go:790), unless a crash, a failed
\* settlement or a reparse left its row to be claimed again, or its claim was
\* taken away from under a batch.
DrainsOnce == \A d \in Docs : drains[d] > 1 => d \in replayed \cup exposed

\* A document whose row has left the queue is on its pages: concurrent batches
\* overwrite nothing of each other (withSlugLock), and what could not be applied
\* is not trimmed; unless an edit was given up or somebody wrote without the lock.
ContributionLands ==
  \A d \in Docs \ dropped :
    stage[d] # "parsing" /\ ~Gone(d) /\ IngestRows(d) = {} /\ (\A t \in Tasks : ~Works(t, d)) =>
      \A p \in Contrib[d] \ unguarded : page[p] # NoPage /\ d \in page[p]

Quiet == rows = {} /\ \A t \in Tasks : ~Active(t)

\* When the queue is quiet a deleted document is on no page, whatever ran when it
\* was deleted; but see DeletedStaysGone for a page that was just being written.
RetractWins ==
  \A d \in Docs \ (dropped \cup crossed) :
    Quiet /\ del[d] = "done" => \A p \in Pages \ unguarded : page[p] = NoPage \/ d \notin page[p]

\* The queue runs empty: a trigger, a follow-up, a capped retry or a recheck is
\* always there when rows wait, crashes and stale claims included; unless its
\* enqueue failed, or a task had to arm itself again after a batch was cut short.
QueueDrains == <>[](rows = {} \/ lost \/ (selfLost /\ crashes + faults > 0))

-----------------------------------------------------------------------------
(* What the comments say, which the code does not keep.                     *)

\* cleanupWikiOnKnowledgeDelete (knowledge_delete.go:214-217): new pages cannot
\* be born with the reference, ingest tasks in the middle of their model call
\* consult the tombstone before writing; and the retract takes the others off.
DeletedStaysGone ==
  \A d \in Docs \ dropped :
    Quiet /\ del[d] = "done" => \A p \in Pages \ unguarded : page[p] = NoPage \/ d \notin page[p]

\* scheduleCappedRetry (wiki_ingest.go:975-980): the rows of triggers that were
\* turned away drain once a slot is free.
TurnedAwayDrain == <>[](rows = {} \/ lost)
=============================================================================
