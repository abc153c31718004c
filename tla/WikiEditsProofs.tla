--------------------------- MODULE WikiEditsProofs ---------------------------
(***************************************************************************)
(* What becomes of the edits of the wiki queue's batches, for any          *)
(* documents, pages, tasks and bounds: the unit of a document is released  *)
(* once, a document whose row has left the queue is on its pages, and a    *)
(* deleted document is on none when the queue is quiet.  The three follow  *)
(* from what a batch holds of each row it has claimed (EditInv, Pending)   *)
(* and from what the lock of a page protects (PageInv).                    *)
(***************************************************************************)
EXTENDS WikiQueueProofs

-----------------------------------------------------------------------------
(* The invariants                                                           *)

\* A page has the document.
On(d, p) == page[p] # NoPage /\ d \in page[p]

\* The batch is writing the page.
Busy(t, p) == at[t] = "work" /\ p \in batch[t].busy

\* What a batch read has a document that it will not take off.
Based(d, p) ==
  \E t \in Tasks : /\ Busy(t, p) /\ batch[t].base[p] # NoPage
                   /\ d \in batch[t].base[p] \ batch[t].rets[p]

\* The deletion of the document has been through its pages.
Retracting(d) == del[d] \in {"retracted", "done"}

\* A document is retracted once, after its deletion took it off the pages, and
\* ingested by one row at a time.
RowInv ==
  /\ \A r \in rows : r.op = "retract" =>
       /\ Retracting(r.doc) /\ r.slugs = slugs[r.doc]
       /\ \A q \in rows : q.doc = r.doc => q.id <= r.id
  /\ \A q, r \in rows : q.op = "ingest" /\ r.op = "ingest" /\ q.doc = r.doc => q.id = r.id

\* The operations of a batch, one of each document.
OpsSound(t) ==
  /\ \A o, q \in batch[t].ops : o.doc = q.doc => o.id = q.id /\ o.op = q.op
  /\ \A o \in batch[t].ops : o.op = "retract" =>
       Retracting(o.doc) /\ o.slugs = slugs[o.doc]

IsOp(t, d, op) == \E o \in batch[t].ops : o.doc = d /\ o.op = op

\* The edits of a batch are of the documents it has mapped; what it has drained
\* has none and has not failed.
EditsSound(t) ==
  /\ at[t] \notin {"work", "settle"} => batch[t].mapped = {} /\ batch[t].busy = {}
  /\ \A d \in batch[t].drained : IsOp(t, d, "ingest")
  /\ at[t] = "work" =>
       /\ batch[t].bad \cup batch[t].drained \subseteq batch[t].mapped
       /\ \A p \in Pages : \A d \in batch[t].adds[p] : d \in batch[t].mapped /\ IsOp(t, d, "ingest")
       /\ \A p \in Pages : \A d \in batch[t].rets[p] : d \in batch[t].mapped /\ IsOp(t, d, "retract")
       /\ \A d \in batch[t].drained : d \notin batch[t].bad /\ \A p \in Pages : d \notin batch[t].adds[p]

EditInv == SlotInv /\ RowInv /\ \A t \in Tasks : OpsSound(t) /\ EditsSound(t)

\* A page that is written under its lock loses nothing but to deletions, which
\* remember it, and the batch adds no document that was deleted before.
Guarded(t, p) ==
  Busy(t, p) /\ p \notin unguarded =>
    /\ lock[p] = t
    /\ batch[t].base[p] = NoPage => page[p] = NoPage
    /\ batch[t].base[p] # NoPage =>
         /\ page[p] # NoPage => page[p] \subseteq batch[t].base[p]
         /\ \A d \in batch[t].base[p] : On(d, p) \/ p \in slugs[d]
    /\ \A d \in batch[t].adds[p] : Gone(d) => d \in crossed

PageInv == \A t \in Tasks, p \in Pages : Guarded(t, p)

\* Every batch that has claimed the row edits the page, or gives the row back.
Edits(t, r, p) ==
  r.id \in batch[t].ids =>
    /\ \E o \in batch[t].ops : o.id = r.id
    /\ at[t] = "work" /\ r.doc \in batch[t].mapped =>
         r.doc \in batch[t].bad \cup batch[t].adds[p] \cup batch[t].rets[p]

Pending(r, p) == \A t \in Tasks : Edits(t, r, p)

\* A document that was handed over is on its pages, or a row is pending.
Landing(d, p) ==
  stage[d] # "parsing" /\ ~Gone(d) => On(d, p) \/ \E r \in IngestRows(d) : Pending(r, p)

Lands == \A d \in Docs \ dropped : \A p \in Contrib[d] \ unguarded : Landing(d, p)

\* A deleted document is on a page, or about to be written onto it, only until
\* its deletion has been through its pages, or with a row that is pending.
Followed(d, p) ==
  \/ del[d] \in {"marked", "scrubbed"}
  \/ del[d] = "listed" /\ (snap[d][p] # NoPage \/ p \in slugs[d])
  \/ \E r \in rows : r.doc = d /\ r.op = "retract" /\ Pending(r, p)

Trace(d, p) == On(d, p) \/ Based(d, p)

Retracted ==
  \A d \in Docs \ (dropped \cup crossed) : \A p \in Pages \ unguarded :
    Gone(d) /\ Trace(d, p) => Followed(d, p)

\* The batch may still release the document's unit.
MayDrain(t, d) ==
  /\ IsOp(t, d, "ingest")
  /\ \/ at[t] = "work" /\ d \notin batch[t].drained
     \/ at[t] = "settle" /\ d \in batch[t].bad

\* A unit that was released is released by nobody else, and its row is gone or
\* claimed by the batch that has released it.
Once(d) ==
  /\ drains[d] <= 1
  /\ drains[d] = 1 =>
       /\ \A t \in Tasks : ~MayDrain(t, d)
       /\ IngestRows(d) # {} => \E t \in Tasks : at[t] = "work" /\ d \in batch[t].drained

DrainInv == \A d \in Docs \ (replayed \cup exposed) : Once(d)

-----------------------------------------------------------------------------
(* What a step does to the batches and to the rows                          *)

\* The task has claimed nothing.
Cleared(s) == /\ Blank(batch'[s]) /\ batch'[s].mapped = {} /\ batch'[s].busy = {}
              /\ at'[s] \notin {"work", "settle"}

\* A row is the same, for the pages too.
Came(r, q) == Same(r, q) /\ r.slugs = q.slugs

RowsCome == \A q \in rows' : \E r \in rows : Came(r, q)
RowsStay == \A r \in rows : \E q \in rows' : Came(r, q)

Histories ==
  /\ dropped \subseteq dropped' /\ unguarded \subseteq unguarded' /\ replayed \subseteq replayed'
  /\ crossed \subseteq crossed' /\ exposed \subseteq exposed'

\* Deletions go on.
DelGoes ==
  /\ \A d \in Docs : Gone(d) => Gone(d)'
  /\ \A d \in Docs : Retracting(d) => Retracting(d)' /\ slugs'[d] = slugs[d]

\* Tasks start, end or wait; no batch that works does a thing to rows or pages.
Calm ==
  /\ RowsCome /\ RowsStay /\ Histories
  /\ UNCHANGED <<page, drains, snap, slugs, unguarded, dropped, crossed>>
  /\ \A d \in Docs : stage'[d] = "parsing" <=> stage[d] = "parsing"
  /\ \A d \in Docs : \/ del'[d] = del[d]
                     \/ del[d] = "marked" /\ del'[d] = "scrubbed"
                     \/ del[d] = "retracted" /\ del'[d] = "done"
  /\ \A s \in Tasks : \/ Bystander(s)
                      \/ Cleared(s) /\ (at[s] # "work" \/ batch[s].drained \subseteq replayed')
  /\ \A p \in Pages : \/ lock'[p] = lock[p] \/ lock[p] \notin Tasks
                      \/ \A s \in Tasks : lock[p] = s => Cleared(s)

\* The rows of the batch stay, and the documents and other batches too.
Within(t) ==
  /\ at' = at /\ \A s \in Tasks \ {t} : batch'[s] = batch[s]
  /\ batch'[t].ids = batch[t].ids /\ batch'[t].ops = batch[t].ops
  /\ UNCHANGED <<stage, del, snap, slugs, crossed, exposed>>
  /\ Histories

\* A document of the batch is mapped.
Maps(t, d) ==
  /\ at[t] = "work" /\ Within(t) /\ d \in DocsOf(t) \ batch[t].mapped
  /\ UNCHANGED <<rows, page, lock, unguarded, replayed>>
  /\ batch'[t].mapped = batch[t].mapped \cup {d}
  /\ batch'[t].busy = batch[t].busy /\ batch'[t].base = batch[t].base

Retracts(t, d) ==
  /\ Maps(t, d) /\ OpOf(t, d).op = "retract" /\ UNCHANGED drains
  /\ batch'[t].adds = batch[t].adds /\ batch'[t].bad = batch[t].bad
  /\ batch'[t].drained = batch[t].drained
  /\ \E found : /\ found = Referring(d) \/ d \in dropped'
                /\ batch'[t].rets = AddTo(batch[t].rets, OpOf(t, d).slugs \cup found, d)

Skips(t, d) ==
  /\ Maps(t, d) /\ OpOf(t, d).op = "ingest" /\ UNCHANGED dropped
  /\ Gone(d) \/ stage[d] = "parsing"
  /\ Drain(d)
  /\ batch'[t].adds = batch[t].adds /\ batch'[t].rets = batch[t].rets
  /\ batch'[t].bad = batch[t].bad
  /\ batch'[t].drained = batch[t].drained \cup {d}

Extracts(t, d) ==
  /\ Maps(t, d) /\ OpOf(t, d).op = "ingest" /\ UNCHANGED <<drains, dropped>>
  /\ ~Gone(d) /\ stage[d] # "parsing"
  /\ batch'[t].rets = batch[t].rets /\ batch'[t].drained = batch[t].drained
  /\ \/ batch'[t].adds = AddTo(batch[t].adds, Contrib[d], d) /\ batch'[t].bad = batch[t].bad
     \/ batch'[t].adds = batch[t].adds /\ batch'[t].bad = batch[t].bad \cup {d}

\* A page is read to be written.
Begins(t, p) ==
  /\ at[t] = "work" /\ Within(t) /\ p \notin batch[t].busy /\ Unmapped(t) = {}
  /\ UNCHANGED <<rows, page, drains, dropped, replayed>>
  /\ batch'[t].mapped = batch[t].mapped /\ batch'[t].rets = batch[t].rets
  /\ batch'[t].bad = batch[t].bad /\ batch'[t].drained = batch[t].drained
  /\ batch'[t].busy = batch[t].busy \cup {p}
  /\ batch'[t].adds = [batch[t].adds EXCEPT ![p] = {d \in batch[t].adds[p] : ~Gone(d)}]
  /\ batch'[t].base = [batch[t].base EXCEPT ![p] = page[p]]
  /\ \/ lock[p] = Free /\ lock' = [lock EXCEPT ![p] = t]
     \/ lock' = lock /\ p \in unguarded'

\* The edits of a page are over: there is nothing to write, they have failed,
\* they are made, or given up.
Ends(t, p) ==
  LET b == batch[t] IN
  /\ at[t] = "work" /\ Within(t)
  /\ UNCHANGED <<rows, drains, replayed>>
  /\ batch'[t].mapped = b.mapped /\ batch'[t].drained = b.drained
  /\ batch'[t].adds = [b.adds EXCEPT ![p] = {}] /\ batch'[t].rets = [b.rets EXCEPT ![p] = {}]
  /\ batch'[t].busy = b.busy \ {p} /\ batch'[t].base = [b.base EXCEPT ![p] = NoPage]
  /\ lock' = lock \/ (lock[p] = t /\ lock' = [lock EXCEPT ![p] = Free])
  /\ \/ /\ batch'[t].bad = b.bad /\ UNCHANGED page /\ p \notin b.busy
        /\ \A d \in b.adds[p] : Gone(d)
        /\ b.rets[p] = {} \/ page[p] = NoPage
        /\ lock[p] = Free \/ p \in unguarded'
     \/ batch'[t].bad = b.bad \cup b.adds[p] \cup b.rets[p] /\ UNCHANGED page
     \/ /\ batch'[t].bad = b.bad /\ p \in b.busy
        /\ b.base[p] = NoPage <=> page[p] = NoPage
        /\ page' = [page EXCEPT ![p] = (IF b.base[p] = NoPage THEN {} ELSE b.base[p] \ b.rets[p])
                                         \cup b.adds[p]]
     \/ /\ batch'[t].bad = b.bad /\ UNCHANGED page
        /\ b.adds[p] \cup b.rets[p] \subseteq dropped'

\* The unit of a document all of whose pages were applied is released.
Drains(t, d) ==
  /\ Within(t) /\ Applied(t) /\ d \in Due(t) /\ Drain(d)
  /\ UNCHANGED <<rows, page, lock, dropped, unguarded, replayed>>
  /\ batch'[t].mapped = batch[t].mapped /\ batch'[t].busy = batch[t].busy
  /\ batch'[t].adds = batch[t].adds /\ batch'[t].rets = batch[t].rets
  /\ batch'[t].base = batch[t].base /\ batch'[t].bad = batch[t].bad
  /\ batch'[t].drained = batch[t].drained \cup {d}

\* The rows of the batch leave the queue.
Trims(t) ==
  /\ Applied(t) /\ Due(t) = {} /\ at'[t] = "settle"
  /\ \A s \in Tasks \ {t} : batch'[s] = batch[s] /\ at'[s] = at[s]
  /\ UNCHANGED <<page, lock, drains, stage, del, snap, slugs, crossed, exposed, dropped, unguarded>>
  /\ Histories
  /\ batch'[t].ids = batch[t].ids /\ batch'[t].ops = batch[t].ops
  /\ batch'[t].drained = batch[t].drained /\ batch'[t].bad = batch[t].bad
  /\ \/ rows' = {r \in rows : r.id \notin batch[t].ids \ Ids(BadOps(t))}
     \/ rows' = rows /\ batch[t].drained \subseteq replayed'

\* A failed operation is counted, or archived; the latter may fail halfway.
Settles(t, d) ==
  /\ at[t] = "settle" /\ Within(t) /\ d \in batch[t].bad
  /\ UNCHANGED <<page, lock, unguarded>>
  /\ batch'[t].bad = batch[t].bad \ {d}
  /\ RowsCome
  /\ \/ RowsStay /\ UNCHANGED drains /\ batch'[t].drained = batch[t].drained
     \/ /\ d \in dropped'
        /\ rows' = {x \in rows : x.id # OpOf(t, d).id}
        /\ \E x \in rows : x.id = OpOf(t, d).id
        /\ UNCHANGED drains \/ (OpOf(t, d).op = "ingest" /\ Drain(d))
        /\ batch'[t].drained = batch[t].drained
     \/ /\ d \in dropped' /\ d \in replayed'
        /\ UNCHANGED rows /\ OpOf(t, d).op = "ingest" /\ Drain(d)
        /\ batch'[t].drained = batch[t].drained \cup {d}

\* Documents are claimed.
Takes(t) ==
  LET taken == {r \in rows : r.doc \in Chosen} IN
  /\ at[t] = "claim" /\ at'[t] = "work"
  /\ \A s \in Tasks \ {t} : batch'[s] = batch[s] /\ at'[s] = at[s]
  /\ UNCHANGED <<page, lock, drains, stage, del, snap, slugs, crossed, exposed, dropped, unguarded,
                 replayed>>
  /\ RowsCome /\ RowsStay
  /\ batch'[t].ids = Ids(taken)
  /\ batch'[t].ops = {r \in rows' : r.id \in Ids(LastOps(taken))}
  /\ batch'[t].mapped = {} /\ batch'[t].busy = {} /\ batch'[t].drained = {} /\ batch'[t].bad = {}
  /\ \A p \in Pages : batch'[t].adds[p] = {} /\ batch'[t].rets[p] = {}

\* A row that is changed by a settlement, or whose claim changes, stays the row.
LEMMA RowCame ==
  ASSUME NEW x \in Row
  PROVE  /\ Came(x, x)
         /\ Came(x, [x EXCEPT !.fails = @ + 1, !.claim = "free"])
         /\ Came(x, [x EXCEPT !.fails = @ + 1])
         /\ Came(x, [x EXCEPT !.claim = IF @ = "fresh" THEN "aging" ELSE @])
         /\ \A c : Came(x, [x EXCEPT !.claim = c])
BY DEF Row, Came, Same

\* Rows whose claims change are the rows.
LEMMA ClaimsCome ==
  ASSUME TypeOK, NEW ids, NEW c, rows' = SetClaim(ids, c)
  PROVE  RowsCome /\ RowsStay
<1>1. \A x \in rows : Came(x, [x EXCEPT !.claim = IF x.id \in ids THEN c ELSE @])
  BY DEF Came, Same, TypeOK, Row
<1> QED
  BY <1>1 DEF SetClaim, RowsCome, RowsStay

\* So are rows that nothing happens to.
LEMMA RowsCalm ==
  ASSUME UNCHANGED rows
  PROVE  RowsCome /\ RowsStay
BY DEF RowsCome, RowsStay, Came, Same

\* A batch that is forgotten has claimed nothing.
LEMMA ForgetClears ==
  ASSUME TypeOK, NEW t \in Tasks, Forget(t), at'[t] \notin {"work", "settle"}
  PROVE  Cleared(t) /\ \A s \in Tasks \ {t} : batch'[s] = batch[s]
<1>1. batch'[t] = NoBatch /\ \A s \in Tasks \ {t} : batch'[s] = batch[s]
  BY DEF TypeOK, Forget, Remember
<1>2. NoBatch.mapped = {} /\ NoBatch.busy = {}
  BY DEF NoBatch
<1> QED
  BY <1>1, <1>2, NoBatchBlank DEF Cleared

\* The frame of a step that the queue's content takes no notice of.
LEMMA CalmFrame ==
  ASSUME RowsCome /\ RowsStay, UNCHANGED <<wiki, docs, deletion, ghosts>>,
         \A s \in Tasks : \/ Bystander(s)
                          \/ Cleared(s) /\ at[s] # "work"
  PROVE  Calm
BY DEF Calm, Histories, wiki, docs, deletion, ghosts

\* The steps that only move tasks, claims and leases, or a deletion past its
\* scrub and its trigger.
LEMMA CalmSteps ==
  ASSUME EditInv, TypeOK'
  PROVE  /\ \A d \in Docs : TriggerIngest(d) \/ DeleteTrigger(d) => Calm
         /\ \A d \in Docs : DeleteScrub(d) /\ UNCHANGED rows /\ UNCHANGED exposed => Calm
         /\ \A t \in Tasks : (\/ Start(t) \/ TurnedAway(t) \/ ClaimFails(t) \/ ArmRecheck(t)
                              \/ SettleFailed(t) \/ FollowUp(t) \/ Crash(t)) => Calm
         /\ (\E r \in rows : ClaimAges(r)) => Calm
         /\ (\E p \in Pages : LockExpires(p)) => Calm
         /\ SlotExpires \/ Boot => Calm
<1>0. /\ TypeOK /\ batch \in [Tasks -> Batch] /\ at \in [Tasks -> Steps \cup {"absent", "pending"}]
      /\ del \in [Docs -> {"no", "marked", "scrubbed", "listed", "retracted", "done"}]
      /\ stage \in [Docs -> {"parsing", "seeded", "handed"}]
      /\ lock \in [Pages -> Tasks \cup {Free, Orphan}]
  BY DEF EditInv, SlotInv, ClaimInv, TypeOK
<1>1. ASSUME NEW d \in Docs, TriggerIngest(d) PROVE Calm
  <2>1. \A s \in Tasks : Bystander(s)
    BY <1>0, <1>1, EnqueueBystanders DEF TriggerIngest, Bystander
  <2>2. RowsCome /\ RowsStay
    BY <1>1, RowsCalm DEF TriggerIngest, table
  <2> QED
    BY <1>0, <1>1, <2>1, <2>2 DEF TriggerIngest, Calm, Histories, wiki, deletion, ghosts
<1>2. ASSUME NEW d \in Docs, DeleteTrigger(d) PROVE Calm
  <2>1. \A s \in Tasks : Bystander(s)
    BY <1>0, <1>2, EnqueueBystanders DEF DeleteTrigger, Bystander
  <2>2. RowsCome /\ RowsStay
    BY <1>2, RowsCalm DEF DeleteTrigger, table
  <2> QED
    BY <1>0, <1>2, <2>1, <2>2 DEF DeleteTrigger, Calm, Histories, wiki, docs
<1>3. ASSUME NEW d \in Docs, DeleteScrub(d), UNCHANGED rows, UNCHANGED exposed PROVE Calm
  <2>1. \A s \in Tasks : Bystander(s)
    BY <1>3 DEF DeleteScrub, Bystander
  <2>2. RowsCome /\ RowsStay
    BY <1>3, RowsCalm
  <2> QED
    BY <1>0, <1>3, <2>1, <2>2 DEF DeleteScrub, Calm, Histories, wiki, docs
<1>4. ASSUME NEW t \in Tasks, Start(t) PROVE Calm
  <2>1. RowsCome /\ RowsStay /\ UNCHANGED <<wiki, docs, deletion, ghosts>>
    BY <1>4, RowsCalm DEF Start, table
  <2>2. at[t] = "pending" /\ at'[t] = "claim" /\ \A s \in Tasks \ {t} : at'[s] = at[s]
    BY <1>0, <1>4 DEF Start, Taken, Goto
  <2>3. Blank(batch[t]) /\ batch[t].mapped = {} /\ batch[t].busy = {}
    BY <2>2 DEF EditInv, SlotInv, ClaimInv, BatchSound, Sound, EditsSound
  <2>4. Cleared(t) /\ \A s \in Tasks \ {t} : batch'[s] = batch[s]
    <3> DEFINE b == [batch[t] EXCEPT !.slot = TRUE]
    <3>1. /\ b.ids = batch[t].ids /\ b.ops = batch[t].ops /\ b.bad = batch[t].bad
          /\ b.drained = batch[t].drained /\ b.mapped = batch[t].mapped /\ b.busy = batch[t].busy
          /\ b.adds = batch[t].adds /\ b.rets = batch[t].rets
      BY <1>0, BatchOf DEF Batch
    <3>2. Blank(b) /\ b.mapped = {} /\ b.busy = {}
      <4> HIDE DEF b
      <4> QED
        BY <2>3, <3>1 DEF Blank
    <3>3. batch' = batch \/ Remember(t, b)
      BY <1>4 DEF Start
    <3> HIDE DEF b
    <3>4. (batch'[t] = batch[t] \/ batch'[t] = b) /\ \A s \in Tasks \ {t} : batch'[s] = batch[s]
      BY <1>0, <3>3 DEF Remember
    <3> QED
      BY <2>2, <2>3, <3>2, <3>4 DEF Cleared
  <2> QED
    BY <2>1, <2>2, <2>4, CalmFrame DEF Bystander
<1>5. ASSUME NEW t \in Tasks, Forget(t), at[t] # "work", at'[t] \notin {"work", "settle"},
             UNCHANGED <<page, drains, lock, stage, del, snap, slugs, unguarded, dropped, crossed>>,
             RowsCome /\ RowsStay, Histories,
             \A s \in Tasks \ {t} : at'[s] = at[s] \/ (at[s] = "absent" /\ at'[s] = "pending")
      PROVE Calm
  <2>1. Cleared(t) /\ \A s \in Tasks \ {t} : batch'[s] = batch[s]
    BY <1>0, <1>5, ForgetClears
  <2> QED
    BY <1>5, <2>1 DEF Calm, Bystander
<1>6. ASSUME NEW t \in Tasks, TurnedAway(t) PROVE Calm
  <2>1. Forget(t) /\ UNCHANGED <<table, wiki, docs, deletion, exposed, crossed, dropped, unguarded,
                                 replayed>>
    BY <1>6 DEF TurnedAway, Arm
  <2>2. /\ at[t] = "pending" /\ at'[t] \notin {"work", "settle"}
        /\ \A s \in Tasks \ {t} : at'[s] = at[s] \/ (at[s] = "absent" /\ at'[s] = "pending")
    BY <1>0, <1>6, TaskNames DEF TurnedAway, Arm, Goto, Taken
  <2> QED
    BY <1>5, <2>1, <2>2, RowsCalm DEF table, wiki, docs, deletion, Histories
<1>7. ASSUME NEW t \in Tasks, ClaimFails(t) PROVE Calm
  <2>1. Forget(t) /\ UNCHANGED <<table, wiki, docs, deletion, ghosts>>
    BY <1>7 DEF ClaimFails
  <2>2. /\ at[t] = "claim" /\ at'[t] = "pending" /\ \A s \in Tasks \ {t} : at'[s] = at[s]
    BY <1>0, <1>7 DEF ClaimFails, Goto
  <2> QED
    BY <1>5, <2>1, <2>2, RowsCalm DEF table, wiki, docs, deletion, ghosts, Histories
<1>8. ASSUME NEW t \in Tasks, ArmRecheck(t) PROVE Calm
  <2>1. Forget(t) /\ UNCHANGED <<wiki, docs, deletion, exposed, crossed, dropped, unguarded, replayed>>
    BY <1>8 DEF ArmRecheck, Arm
  <2>2. /\ at[t] = "recheck" /\ at'[t] \notin {"work", "settle"}
        /\ \A s \in Tasks \ {t} : at'[s] = at[s] \/ (at[s] = "absent" /\ at'[s] = "pending")
    BY <1>0, <1>8, TaskNames DEF ArmRecheck, Arm, Goto
  <2>3. RowsCome /\ RowsStay
    <3>1. \/ UNCHANGED rows
          \/ rows' = {[r EXCEPT !.claim = IF @ = "fresh" THEN "aging" ELSE @] : r \in rows}
      BY <1>8 DEF ArmRecheck
    <3>2. \A x \in rows : Came(x, [x EXCEPT !.claim = IF @ = "fresh" THEN "aging" ELSE @])
      BY <1>0, RowCame DEF TypeOK
    <3> QED
      BY <3>1, <3>2, RowsCalm DEF RowsCome, RowsStay
  <2> QED
    BY <1>5, <2>1, <2>2, <2>3 DEF wiki, docs, deletion, Histories
<1>9. ASSUME NEW t \in Tasks, SettleFailed(t) PROVE Calm
  <2>1. /\ Forget(t) /\ UNCHANGED <<wiki, docs, deletion, crossed, dropped, unguarded, replayed>>
        /\ exposed \subseteq exposed'
    BY <1>9 DEF SettleFailed
  <2>2. /\ at[t] = "settle" /\ at'[t] = "pending" /\ \A s \in Tasks \ {t} : at'[s] = at[s]
    BY <1>0, <1>9 DEF SettleFailed, Settled, Goto
  <2>3. RowsCome /\ RowsStay
    BY <1>0, <1>9, RowsCalm, ClaimsCome DEF SettleFailed
  <2> QED
    BY <1>5, <2>1, <2>2, <2>3 DEF wiki, docs, deletion, Histories
<1>10. ASSUME NEW t \in Tasks, FollowUp(t) PROVE Calm
  <2>1. Forget(t) /\ UNCHANGED <<table, wiki, docs, deletion, exposed, crossed, dropped, unguarded,
                                 replayed>>
    BY <1>10 DEF FollowUp
  <2>2. [at EXCEPT ![t] = "absent"] \in [Tasks -> Steps \cup {"absent", "pending"}]
    BY <1>0
  <2>3. /\ at[t] = "settle" /\ at'[t] \notin {"work", "settle"}
        /\ \A s \in Tasks \ {t} : at'[s] = at[s] \/ (at[s] = "absent" /\ at'[s] = "pending")
    BY <1>0, <1>10, <2>2, EnqueueBystanders DEF FollowUp, Settled, Goto
  <2> QED
    BY <1>5, <2>1, <2>3, RowsCalm DEF table, wiki, docs, deletion, Histories
<1>11. ASSUME NEW t \in Tasks, Crash(t) PROVE Calm
  <2>1. /\ Forget(t) /\ UNCHANGED <<table, page, docs, deletion, exposed, crossed, dropped, unguarded>>
        /\ replayed' = replayed \cup batch[t].drained
    BY <1>11 DEF Crash
  <2>2. at'[t] = "pending" /\ \A s \in Tasks \ {t} : at'[s] = at[s]
    BY <1>0, <1>11 DEF Crash, Goto
  <2>3. Cleared(t) /\ \A s \in Tasks \ {t} : batch'[s] = batch[s]
    BY <1>0, <2>1, <2>2, ForgetClears
  <2>4. \A p \in Pages : lock'[p] = IF lock[p] = t THEN Orphan ELSE lock[p]
    BY <1>11 DEF Crash
  <2>5. RowsCome /\ RowsStay
    BY <2>1, RowsCalm DEF table
  <2> QED
    BY <2>1, <2>2, <2>3, <2>4, <2>5 DEF table, docs, deletion, Calm, Bystander, Histories
<1>12. ASSUME NEW r \in rows, ClaimAges(r) PROVE Calm
  BY <1>0, <1>12, ClaimsCome, CalmFrame DEF ClaimAges, Bystander
<1>13. ASSUME NEW p \in Pages, LockExpires(p) PROVE Calm
  <2>1. RowsCome /\ RowsStay /\ \A s \in Tasks : Bystander(s)
    BY <1>13, RowsCalm DEF LockExpires, table, Bystander
  <2>2. \A q \in Pages : lock'[q] = lock[q] \/ lock[q] \notin Tasks
    BY <1>0, <1>13, TaskNames DEF LockExpires
  <2> QED
    BY <1>13, <2>1, <2>2 DEF LockExpires, Calm, Histories, docs, deletion, ghosts
<1>14. ASSUME SlotExpires PROVE Calm
  BY <1>14, RowsCalm, CalmFrame DEF SlotExpires, Bystander, table
<1>15. ASSUME Boot PROVE Calm
  <2>1. \A s \in Tasks : Bystander(s)
    BY <1>0, <1>15, EnqueueBystanders DEF Boot, Bystander
  <2> QED
    BY <1>15, <2>1, RowsCalm, CalmFrame DEF Boot, table
<1> QED
  BY <1>1, <1>2, <1>3, <1>4, <1>6, <1>7, <1>8, <1>9, <1>10, <1>11, <1>12, <1>13, <1>14, <1>15

\* A document is mapped,
LEMMA MapDoes ==
  ASSUME EditInv, NEW t \in Tasks, NEW d \in Docs
  PROVE  /\ MapRetract(t, d) => Retracts(t, d)
         /\ MapIngest(t, d) => Skips(t, d) \/ Extracts(t, d)
<1>0. batch[t] \in Batch /\ batch \in [Tasks -> Batch]
  BY BatchOf DEF EditInv, SlotInv, ClaimInv, TypeOK
<1>1. ASSUME d \in Unmapped(t)
      PROVE  at[t] = "work" /\ d \in DocsOf(t) \ batch[t].mapped
  BY <1>1 DEF Unmapped
<1>2. ASSUME MapRetract(t, d) PROVE Retracts(t, d)
  <2>1. /\ UNCHANGED <<table, wiki, at, docs, deletion, exposed, crossed, unguarded, replayed>>
        /\ d \in Unmapped(t) /\ OpOf(t, d).op = "retract"
    BY <1>2 DEF MapRetract
  <2>2. PICK found :
          /\ found = Referring(d) \/ d \in dropped'
          /\ dropped \subseteq dropped'
          /\ Remember(t, [batch[t] EXCEPT !.mapped = @ \cup {d},
                            !.rets = AddTo(@, OpOf(t, d).slugs \cup found, d)])
    BY <1>2 DEF MapRetract
  <2> DEFINE f == AddTo(batch[t].rets, OpOf(t, d).slugs \cup found, d)
             b == [batch[t] EXCEPT !.mapped = @ \cup {d}, !.rets = f]
  <2>3. Remember(t, b)
    BY <2>2
  <2> HIDE DEF f
  <2>4. /\ b.ids = batch[t].ids /\ b.ops = batch[t].ops /\ b.bad = batch[t].bad
        /\ b.drained = batch[t].drained /\ b.mapped = batch[t].mapped \cup {d}
        /\ b.busy = batch[t].busy /\ b.adds = batch[t].adds /\ b.rets = f /\ b.base = batch[t].base
    BY <1>0 DEF Batch
  <2> HIDE DEF b
  <2>5. batch'[t] = b /\ \A s \in Tasks \ {t} : batch'[s] = batch[s]
    BY <1>0, <2>3 DEF Remember
  <2>6. Within(t)
    BY <2>1, <2>2, <2>4, <2>5 DEF Within, Histories, docs, deletion
  <2>7. \E g : (g = Referring(d) \/ d \in dropped') /\ batch'[t].rets = AddTo(batch[t].rets, OpOf(t, d).slugs \cup g, d)
    BY <2>2, <2>4, <2>5 DEF f
  <2>8. UNCHANGED <<rows, page, lock, unguarded, replayed, drains>>
    BY <2>1 DEF table, wiki, docs
  <2> QED
    BY <1>1, <2>1, <2>4, <2>5, <2>6, <2>7, <2>8 DEF Retracts, Maps
<1>3. ASSUME MapIngest(t, d) PROVE Skips(t, d) \/ Extracts(t, d)
  <2> DEFINE b == [batch[t] EXCEPT !.mapped = @ \cup {d}]
             f == AddTo(b.adds, Contrib[d], d)
             b1 == [b EXCEPT !.drained = @ \cup {d}]
             b2 == [b EXCEPT !.adds = f]
             b3 == [b EXCEPT !.bad = @ \cup {d}]
  <2>1. /\ UNCHANGED <<table, wiki, at, stage, parses, deletion, ghosts>>
        /\ d \in Unmapped(t) /\ OpOf(t, d).op = "ingest"
        /\ \/ (Gone(d) \/ stage[d] = "parsing") /\ Drain(d) /\ Remember(t, b1)
           \/ ~Gone(d) /\ stage[d] # "parsing" /\ UNCHANGED drains /\ (Remember(t, b2) \/ Remember(t, b3))
    BY <1>3 DEF MapIngest
  <2>2. /\ b \in Batch
        /\ b.ids = batch[t].ids /\ b.ops = batch[t].ops /\ b.bad = batch[t].bad
        /\ b.drained = batch[t].drained /\ b.mapped = batch[t].mapped \cup {d}
        /\ b.busy = batch[t].busy /\ b.adds = batch[t].adds /\ b.rets = batch[t].rets
        /\ b.base = batch[t].base
    BY <1>0 DEF Batch
  <2> HIDE DEF b, f
  <2>3. /\ b1.ids = b.ids /\ b1.ops = b.ops /\ b1.bad = b.bad /\ b1.drained = b.drained \cup {d}
        /\ b1.mapped = b.mapped /\ b1.busy = b.busy /\ b1.adds = b.adds /\ b1.rets = b.rets
        /\ b1.base = b.base
    BY <2>2 DEF Batch
  <2>4. /\ b2.ids = b.ids /\ b2.ops = b.ops /\ b2.bad = b.bad /\ b2.drained = b.drained
        /\ b2.mapped = b.mapped /\ b2.busy = b.busy /\ b2.adds = f /\ b2.rets = b.rets
        /\ b2.base = b.base
    BY <2>2 DEF Batch
  <2>5. /\ b3.ids = b.ids /\ b3.ops = b.ops /\ b3.bad = b.bad \cup {d} /\ b3.drained = b.drained
        /\ b3.mapped = b.mapped /\ b3.busy = b.busy /\ b3.adds = b.adds /\ b3.rets = b.rets
        /\ b3.base = b.base
    BY <2>2 DEF Batch
  <2>6. f = AddTo(batch[t].adds, Contrib[d], d)
    BY <2>2 DEF f
  <2> HIDE DEF b1, b2, b3
  <2>7. ASSUME NEW c, Remember(t, c)
        PROVE  batch'[t] = c /\ \A s \in Tasks \ {t} : batch'[s] = batch[s]
    BY <1>0, <2>7 DEF Remember
  <2>8. /\ UNCHANGED <<rows, page, lock, unguarded, replayed, dropped, stage, del, snap, slugs, crossed,
                       exposed>>
        /\ Histories
    BY <2>1 DEF table, wiki, deletion, ghosts, Histories
  <2>9. CASE (Gone(d) \/ stage[d] = "parsing") /\ Drain(d) /\ Remember(t, b1)
    BY <1>1, <2>1, <2>2, <2>3, <2>7, <2>8, <2>9 DEF Skips, Maps, Within
  <2>10. CASE ~Gone(d) /\ stage[d] # "parsing" /\ UNCHANGED drains /\ Remember(t, b2)
    BY <1>1, <2>1, <2>2, <2>4, <2>6, <2>7, <2>8, <2>10 DEF Extracts, Maps, Within
  <2>11. CASE ~Gone(d) /\ stage[d] # "parsing" /\ UNCHANGED drains /\ Remember(t, b3)
    BY <1>1, <2>1, <2>2, <2>5, <2>7, <2>8, <2>11 DEF Extracts, Maps, Within
  <2> QED
    BY <2>1, <2>9, <2>10, <2>11
<1> QED
  BY <1>2, <1>3

\* and a page is begun, or over.
LEMMA OverDoes ==
  ASSUME NEW b \in Batch, NEW p \in Pages
  PROVE  LET o == Over(b, p) IN
         /\ o \in Batch
         /\ o.ids = b.ids /\ o.ops = b.ops /\ o.bad = b.bad /\ o.drained = b.drained
         /\ o.mapped = b.mapped /\ o.busy = b.busy \ {p}
         /\ o.adds = [b.adds EXCEPT ![p] = {}] /\ o.rets = [b.rets EXCEPT ![p] = {}]
         /\ o.base = [b.base EXCEPT ![p] = NoPage]
BY DEF Batch, Over

\* A page that could not be written leaves its documents with the failed ones.
LEMMA UnappliedDoes ==
  ASSUME NEW t \in Tasks, NEW p \in Pages, batch \in [Tasks -> Batch], Unapplied(t, p)
  PROVE  /\ batch'[t].ids = batch[t].ids /\ batch'[t].ops = batch[t].ops
         /\ batch'[t].bad = batch[t].bad \cup batch[t].adds[p] \cup batch[t].rets[p]
         /\ batch'[t].drained = batch[t].drained
         /\ batch'[t].mapped = batch[t].mapped /\ batch'[t].busy = batch[t].busy \ {p}
         /\ batch'[t].adds = [batch[t].adds EXCEPT ![p] = {}]
         /\ batch'[t].rets = [batch[t].rets EXCEPT ![p] = {}]
         /\ batch'[t].base = [batch[t].base EXCEPT ![p] = NoPage]
         /\ \A s \in Tasks \ {t} : batch'[s] = batch[s]
<1> DEFINE o == Over(batch[t], p)
           x == batch[t].adds[p] \cup batch[t].rets[p]
           b == [o EXCEPT !.bad = @ \cup x]
<1>1. Remember(t, b)
  <2>1. \A y : y \cup x = y \cup batch[t].adds[p] \cup batch[t].rets[p]
    OBVIOUS
  <2> QED
    BY <2>1 DEF Unapplied
<1>2. batch[t] \in Batch
  BY BatchOf
<1>3. /\ o \in Batch
      /\ o.ids = batch[t].ids /\ o.ops = batch[t].ops /\ o.bad = batch[t].bad
      /\ o.drained = batch[t].drained /\ o.mapped = batch[t].mapped /\ o.busy = batch[t].busy \ {p}
      /\ o.adds = [batch[t].adds EXCEPT ![p] = {}] /\ o.rets = [batch[t].rets EXCEPT ![p] = {}]
      /\ o.base = [batch[t].base EXCEPT ![p] = NoPage]
  BY <1>2, OverDoes
<1> HIDE DEF o
<1>4. /\ b.ids = o.ids /\ b.ops = o.ops /\ b.bad = o.bad \cup x /\ b.drained = o.drained
      /\ b.mapped = o.mapped /\ b.busy = o.busy /\ b.adds = o.adds /\ b.rets = o.rets
      /\ b.base = o.base
  <2> HIDE DEF x
  <2> QED
    BY <1>3 DEF Batch
<1> HIDE DEF b
<1>5. batch'[t] = b /\ \A s \in Tasks \ {t} : batch'[s] = batch[s]
  BY <1>1 DEF Remember
<1> QED
  BY <1>3, <1>4, <1>5

\* A page is begun, or there is nothing to write on it.
LEMMA BeginDoes ==
  ASSUME EditInv, NEW t \in Tasks, NEW p \in Pages, ReduceBegin(t, p) \/ ReduceUnlocked(t, p)
  PROVE  Begins(t, p) \/ Ends(t, p)
<1>0. batch[t] \in Batch /\ batch \in [Tasks -> Batch] /\ page \in [Pages -> {NoPage} \cup SUBSET Docs]
  BY BatchOf DEF EditInv, SlotInv, ClaimInv, TypeOK
<1>1. PICK l : /\ Begin(t, p, l)
               /\ \/ lock[p] = Free /\ l = [lock EXCEPT ![p] = t]
                  \/ l = lock /\ p \in unguarded'
  BY DEF ReduceBegin, ReduceUnlocked
<1>2. /\ at[t] = "work" /\ Unmapped(t) = {} /\ p \notin batch[t].busy
      /\ UNCHANGED <<rows, page, at, stage, drains, del, snap, slugs, exposed, crossed, dropped, replayed>>
      /\ Histories
  BY DEF ReduceBegin, ReduceUnlocked, Reducing, table, docs, deletion, ghosts, Histories
<1> DEFINE live == {d \in batch[t].adds[p] : ~Gone(d)}
           f == [batch[t].adds EXCEPT ![p] = live]
           g == [batch[t].base EXCEPT ![p] = page[p]]
           b == [batch[t] EXCEPT !.busy = @ \cup {p}, !.adds = f, !.base = g]
<1>3. CASE /\ live = {} /\ (batch[t].rets[p] = {} \/ page[p] = NoPage)
           /\ Remember(t, Over(batch[t], p)) /\ UNCHANGED lock
  <2>1. batch'[t] = Over(batch[t], p) /\ \A s \in Tasks \ {t} : batch'[s] = batch[s]
    BY <1>0, <1>3 DEF Remember
  <2> DEFINE o == Over(batch[t], p)
  <2>2. /\ o.ids = batch[t].ids /\ o.ops = batch[t].ops /\ o.bad = batch[t].bad
        /\ o.drained = batch[t].drained /\ o.mapped = batch[t].mapped /\ o.busy = batch[t].busy \ {p}
        /\ o.adds = [batch[t].adds EXCEPT ![p] = {}] /\ o.rets = [batch[t].rets EXCEPT ![p] = {}]
        /\ o.base = [batch[t].base EXCEPT ![p] = NoPage]
    BY <1>0, OverDoes
  <2> HIDE DEF o
  <2>3. /\ batch'[t].ids = batch[t].ids /\ batch'[t].ops = batch[t].ops
        /\ batch'[t].bad = batch[t].bad /\ batch'[t].drained = batch[t].drained
        /\ batch'[t].mapped = batch[t].mapped /\ batch'[t].busy = batch[t].busy \ {p}
        /\ batch'[t].adds = [batch[t].adds EXCEPT ![p] = {}]
        /\ batch'[t].rets = [batch[t].rets EXCEPT ![p] = {}]
        /\ batch'[t].base = [batch[t].base EXCEPT ![p] = NoPage]
    BY <2>1, <2>2 DEF o
  <2>4. \A d \in batch[t].adds[p] : Gone(d)
    BY <1>3
  <2>5. lock[p] = Free \/ p \in unguarded'
    BY <1>1
  <2> QED
    BY <1>2, <1>3, <2>1, <2>3, <2>4, <2>5 DEF Ends, Within
<1>4. CASE Remember(t, [batch[t] EXCEPT !.busy = @ \cup {p}, !.adds[p] = live, !.base[p] = page[p]])
           /\ lock' = l
  <2>1. /\ batch'[t] = [batch[t] EXCEPT !.busy = @ \cup {p}, !.adds[p] = live, !.base[p] = page[p]]
        /\ \A s \in Tasks \ {t} : batch'[s] = batch[s]
    BY <1>0, <1>4 DEF Remember
  <2>2. /\ batch'[t].ids = batch[t].ids /\ batch'[t].ops = batch[t].ops
        /\ batch'[t].bad = batch[t].bad /\ batch'[t].drained = batch[t].drained
        /\ batch'[t].mapped = batch[t].mapped /\ batch'[t].busy = batch[t].busy \cup {p}
        /\ batch'[t].adds = f /\ batch'[t].rets = batch[t].rets /\ batch'[t].base = g
    <3> HIDE DEF live
    <3> QED
      BY <1>0, <2>1 DEF Batch
  <2> QED
    BY <1>1, <1>2, <1>4, <2>1, <2>2 DEF Begins, Within
<1> QED
  BY <1>1, <1>3, <1>4 DEF Begin

\* A page that is waited for too long, written or given up is over.
LEMMA EndDoes ==
  ASSUME EditInv, NEW t \in Tasks, NEW p \in Pages,
         ReduceWaitsTooLong(t, p) \/ ReduceWrite(t, p) \/ ReduceGivesUp(t, p)
  PROVE  Ends(t, p)
<1>0. batch[t] \in Batch /\ batch \in [Tasks -> Batch] /\ page \in [Pages -> {NoPage} \cup SUBSET Docs]
  BY BatchOf DEF EditInv, SlotInv, ClaimInv, TypeOK
<1>1. /\ at[t] = "work"
      /\ UNCHANGED <<rows, at, stage, drains, del, snap, slugs, exposed, crossed, unguarded, replayed>>
      /\ Histories
  BY DEF ReduceWaitsTooLong, ReduceWrite, ReduceGivesUp, Reducing, table, docs, deletion, ghosts,
         Histories
<1>2. lock' = lock \/ (lock[p] = t /\ lock' = [lock EXCEPT ![p] = Free])
  BY DEF ReduceWaitsTooLong, ReduceWrite, ReduceGivesUp, Unlock, wiki
<1>3. CASE Unapplied(t, p) /\ UNCHANGED page
  BY <1>0, <1>1, <1>2, <1>3, UnappliedDoes DEF Ends, Within
<1>4. ASSUME Remember(t, Over(batch[t], p))
      PROVE  /\ batch'[t].ids = batch[t].ids /\ batch'[t].ops = batch[t].ops
             /\ batch'[t].bad = batch[t].bad /\ batch'[t].drained = batch[t].drained
             /\ batch'[t].mapped = batch[t].mapped /\ batch'[t].busy = batch[t].busy \ {p}
             /\ batch'[t].adds = [batch[t].adds EXCEPT ![p] = {}]
             /\ batch'[t].rets = [batch[t].rets EXCEPT ![p] = {}]
             /\ batch'[t].base = [batch[t].base EXCEPT ![p] = NoPage]
             /\ \A s \in Tasks \ {t} : batch'[s] = batch[s]
  <2>1. batch'[t] = Over(batch[t], p) /\ \A s \in Tasks \ {t} : batch'[s] = batch[s]
    BY <1>0, <1>4 DEF Remember
  <2> DEFINE o == Over(batch[t], p)
  <2>2. /\ o.ids = batch[t].ids /\ o.ops = batch[t].ops /\ o.bad = batch[t].bad
        /\ o.drained = batch[t].drained /\ o.mapped = batch[t].mapped /\ o.busy = batch[t].busy \ {p}
        /\ o.adds = [batch[t].adds EXCEPT ![p] = {}] /\ o.rets = [batch[t].rets EXCEPT ![p] = {}]
        /\ o.base = [batch[t].base EXCEPT ![p] = NoPage]
    BY <1>0, OverDoes
  <2> HIDE DEF o
  <2> QED
    BY <2>1, <2>2 DEF o
<1>5. CASE /\ Remember(t, Over(batch[t], p)) /\ p \in batch[t].busy
           /\ batch[t].base[p] = NoPage <=> page[p] = NoPage
           /\ page' = [page EXCEPT ![p] =
                 (IF batch[t].base[p] = NoPage THEN {} ELSE batch[t].base[p] \ batch[t].rets[p])
                    \cup batch[t].adds[p]]
  BY <1>1, <1>2, <1>4, <1>5 DEF Ends, Within
<1>6. CASE Remember(t, Over(batch[t], p)) /\ UNCHANGED page
           /\ batch[t].adds[p] \cup batch[t].rets[p] \subseteq dropped'
  BY <1>1, <1>2, <1>4, <1>6 DEF Ends, Within
<1>7. CASE ReduceWaitsTooLong(t, p)
  BY <1>3, <1>7 DEF ReduceWaitsTooLong, wiki
<1>8. CASE ReduceWrite(t, p)
  BY <1>3, <1>5, <1>8 DEF ReduceWrite
<1>9. CASE ReduceGivesUp(t, p)
  BY <1>6, <1>9 DEF ReduceGivesUp
<1> QED
  BY <1>7, <1>8, <1>9

\* A unit is released,
LEMMA DrainDoes ==
  ASSUME EditInv, NEW t \in Tasks, NEW d \in Docs, DrainDone(t, d)
  PROVE  Drains(t, d)
<1>0. batch[t] \in Batch /\ batch \in [Tasks -> Batch]
  BY BatchOf DEF EditInv, SlotInv, ClaimInv, TypeOK
<1>1. /\ batch'[t] = [batch[t] EXCEPT !.drained = @ \cup {d}]
      /\ \A s \in Tasks \ {t} : batch'[s] = batch[s]
  BY <1>0 DEF DrainDone, Remember
<1>2. /\ batch'[t].ids = batch[t].ids /\ batch'[t].ops = batch[t].ops
      /\ batch'[t].mapped = batch[t].mapped /\ batch'[t].busy = batch[t].busy
      /\ batch'[t].adds = batch[t].adds /\ batch'[t].rets = batch[t].rets
      /\ batch'[t].base = batch[t].base /\ batch'[t].bad = batch[t].bad
      /\ batch'[t].drained = batch[t].drained \cup {d}
  BY <1>0, <1>1 DEF Batch
<1>3. /\ UNCHANGED <<rows, page, lock, at, stage, del, snap, slugs, exposed, crossed, dropped, unguarded,
                     replayed>>
      /\ Applied(t) /\ d \in Due(t) /\ Drain(d)
  BY DEF DrainDone, table, wiki, deletion, ghosts
<1> QED
  BY <1>1, <1>2, <1>3 DEF Drains, Within, Histories

\* the rows of a batch leave the queue,
LEMMA TrimDoes ==
  ASSUME EditInv, NEW t \in Tasks, Trim(t)
  PROVE  Trims(t)
<1>0. /\ batch[t] \in Batch /\ batch \in [Tasks -> Batch]
      /\ at \in [Tasks -> Steps \cup {"absent", "pending"}]
  BY BatchOf DEF EditInv, SlotInv, ClaimInv, TypeOK
<1>1. /\ batch'[t] = batch[t] \/ batch'[t] = [batch[t] EXCEPT !.err = TRUE]
      /\ \A s \in Tasks \ {t} : batch'[s] = batch[s]
  BY <1>0 DEF Trim, Remember
<1>2. /\ batch'[t].ids = batch[t].ids /\ batch'[t].ops = batch[t].ops
      /\ batch'[t].drained = batch[t].drained /\ batch'[t].bad = batch[t].bad
  BY <1>0, <1>1 DEF Batch
<1>3. at'[t] = "settle" /\ \A s \in Tasks \ {t} : at'[s] = at[s]
  BY <1>0 DEF Trim, Goto
<1>4. /\ UNCHANGED <<page, lock, drains, stage, del, snap, slugs, crossed, exposed, dropped, unguarded>>
      /\ replayed \subseteq replayed' /\ Applied(t) /\ Due(t) = {}
  BY DEF Trim, wiki, docs, deletion
<1>5. \/ rows' = {r \in rows : r.id \notin batch[t].ids \ Ids(BadOps(t))}
      \/ rows' = rows /\ batch[t].drained \subseteq replayed'
  BY DEF Trim
<1> QED
  BY <1>1, <1>2, <1>3, <1>4, <1>5 DEF Trims, Histories

\* a failed operation is settled,
LEMMA SettleDoes ==
  ASSUME EditInv, NEW t \in Tasks, NEW d \in Docs, Requeue(t, d) \/ RequeueFails(t, d)
  PROVE  Settles(t, d)
<1> DEFINE o == OpOf(t, d)
           r == {x \in rows : x.id = o.id}
           b == [batch[t] EXCEPT !.bad = @ \ {d}]
           c == [batch[t] EXCEPT !.bad = @ \ {d}, !.err = TRUE]
           e == [c EXCEPT !.drained = @ \cup {d}]
<1>0. batch[t] \in Batch /\ batch \in [Tasks -> Batch] /\ rows \subseteq Row
  BY BatchOf DEF EditInv, SlotInv, ClaimInv, TypeOK
<1>1. /\ b.ids = batch[t].ids /\ b.ops = batch[t].ops /\ b.bad = batch[t].bad \ {d}
      /\ b.drained = batch[t].drained
      /\ c \in Batch /\ c.ids = batch[t].ids /\ c.ops = batch[t].ops /\ c.bad = batch[t].bad \ {d}
      /\ c.drained = batch[t].drained
  BY <1>0 DEF Batch
<1>2. e.ids = c.ids /\ e.ops = c.ops /\ e.bad = c.bad /\ e.drained = c.drained \cup {d}
  <2> HIDE DEF c
  <2> QED
    BY <1>1 DEF Batch
<1> HIDE DEF b, c, e
<1>3. ASSUME NEW x, Remember(t, x)
      PROVE  batch'[t] = x /\ \A s \in Tasks \ {t} : batch'[s] = batch[s]
  BY <1>0, <1>3 DEF Remember
<1>4. /\ at[t] = "settle" /\ at' = at /\ d \in batch[t].bad
      /\ UNCHANGED <<page, lock, unguarded, stage, del, snap, slugs, crossed, exposed>>
      /\ dropped \subseteq dropped' /\ replayed \subseteq replayed'
  BY DEF Requeue, RequeueFails, wiki, deletion
<1>5. \A x \in rows : /\ Came(x, x) /\ Came(x, [x EXCEPT !.fails = @ + 1, !.claim = "free"])
                      /\ Came(x, [x EXCEPT !.fails = @ + 1])
  BY <1>0, RowCame
<1>6. CASE /\ \/ rows' = rows
              \/ rows' = (rows \ r) \cup {[x EXCEPT !.fails = @ + 1, !.claim = "free"] : x \in r}
              \/ rows' = (rows \ r) \cup {[x EXCEPT !.fails = @ + 1] : x \in r}
           /\ UNCHANGED <<drains, dropped, replayed>> /\ (Remember(t, b) \/ Remember(t, c))
  <2>1. RowsCome
    <3> DEFINE back == {[x EXCEPT !.fails = @ + 1, !.claim = "free"] : x \in r}
               kept == {[x EXCEPT !.fails = @ + 1] : x \in r}
    <3>1. \A q \in rows \cup back \cup kept : \E x \in rows : Came(x, q)
      BY <1>5
    <3>2. rows' \subseteq rows \cup back \cup kept
      BY <1>6
    <3> QED
      BY <3>1, <3>2 DEF RowsCome
  <2>2. RowsStay
    <3> SUFFICES ASSUME NEW x \in rows PROVE \E q \in rows' : Came(x, q)
      BY DEF RowsStay
    <3>1. x \in rows' \/ [x EXCEPT !.fails = @ + 1, !.claim = "free"] \in rows'
            \/ [x EXCEPT !.fails = @ + 1] \in rows'
      BY <1>6
    <3> QED
      BY <1>5, <3>1
  <2>3. (batch'[t] = b \/ batch'[t] = c) /\ \A s \in Tasks \ {t} : batch'[s] = batch[s]
    BY <1>3, <1>6
  <2> QED
    BY <1>1, <1>4, <1>6, <2>1, <2>2, <2>3 DEF Settles, Within, Histories
<1>7. CASE /\ rows' = rows \ r /\ (\E x \in r : TRUE) /\ dropped' = dropped \cup {d} /\ UNCHANGED replayed
           /\ (IF o.op = "ingest" THEN Drain(d) ELSE UNCHANGED drains) /\ Remember(t, b)
  <2>1. RowsCome /\ rows' = {x \in rows : x.id # o.id} /\ \E x \in rows : x.id = o.id
    BY <1>5, <1>7 DEF RowsCome
  <2>2. batch'[t] = b /\ \A s \in Tasks \ {t} : batch'[s] = batch[s]
    BY <1>3, <1>7
  <2> QED
    BY <1>1, <1>4, <1>7, <2>1, <2>2 DEF Settles, Within, Histories
<1>8. CASE /\ UNCHANGED rows /\ dropped' = dropped \cup {d} /\ replayed' = replayed \cup {d}
           /\ o.op = "ingest" /\ Drain(d) /\ Remember(t, e)
  <2>1. RowsCome
    BY <1>8, RowsCalm
  <2>2. batch'[t] = e /\ \A s \in Tasks \ {t} : batch'[s] = batch[s]
    BY <1>3, <1>8
  <2> QED
    BY <1>1, <1>2, <1>4, <1>8, <2>1, <2>2 DEF Settles, Within, Histories
<1>9. CASE Requeue(t, d)
  <2>1. Remember(t, b) /\ UNCHANGED replayed
    BY <1>9 DEF Requeue, b
  <2>2. CASE \A x \in r : x.fails < MaxFails
    BY <1>6, <1>9, <2>1, <2>2 DEF Requeue
  <2>3. CASE ~(\A x \in r : x.fails < MaxFails)
    BY <1>7, <1>9, <2>1, <2>3 DEF Requeue
  <2> QED
    BY <2>2, <2>3
<1>10. CASE RequeueFails(t, d)
  BY <1>6, <1>8, <1>10 DEF RequeueFails, c, e
<1> QED
  BY <1>9, <1>10

\* and documents are claimed, or there are none to be.
LEMMA ClaimDoes ==
  ASSUME EditInv, TypeOK', NEW t \in Tasks, Claim(t)
  PROVE  Takes(t) \/ Calm
<1> DEFINE taken == {r \in rows : r.doc \in Chosen}
<1>0. /\ TypeOK /\ batch[t] \in Batch /\ batch \in [Tasks -> Batch]
      /\ at \in [Tasks -> Steps \cup {"absent", "pending"}]
  BY BatchOf DEF EditInv, SlotInv, ClaimInv, TypeOK
<1>1. /\ rows' = SetClaim(Ids(taken), "fresh") /\ at[t] = "claim"
      /\ UNCHANGED <<wiki, docs, deletion, ghosts>>
  BY DEF Claim
<1>2. /\ batch'[t].ids = Ids(taken)
      /\ batch'[t].ops = {r \in rows' : r.id \in Ids(LastOps(taken))}
      /\ batch'[t].mapped = batch[t].mapped /\ batch'[t].busy = batch[t].busy
      /\ batch'[t].drained = batch[t].drained /\ batch'[t].bad = batch[t].bad
      /\ batch'[t].adds = batch[t].adds /\ batch'[t].rets = batch[t].rets
      /\ \A s \in Tasks \ {t} : batch'[s] = batch[s]
  <2>1. batch' = [batch EXCEPT ![t] = [batch[t] EXCEPT !.ids = Ids(taken),
                          !.ops = {r \in rows' : r.id \in Ids(LastOps(taken))}]]
    BY DEF Claim, Remember
  <2> HIDE DEF taken
  <2> QED
    BY <1>0, <2>1 DEF Batch
<1>3. at'[t] = (IF taken = {} THEN "recheck" ELSE "work") /\ \A s \in Tasks \ {t} : at'[s] = at[s]
  BY <1>0 DEF Claim, Goto
<1>4. Blank(batch[t]) /\ batch[t].mapped = {} /\ batch[t].busy = {}
  BY <1>1 DEF EditInv, SlotInv, ClaimInv, BatchSound, Sound, EditsSound
<1>5. RowsCome /\ RowsStay
  <2> HIDE DEF taken
  <2> QED
    BY <1>0, <1>1, ClaimsCome
<1>6. CASE taken = {}
  <2>1. Ids(taken) = {} /\ LastOps(taken) = {} /\ Ids(LastOps(taken)) = {}
    BY <1>6 DEF Ids, LastOps
  <2>2. Cleared(t)
    BY <1>2, <1>3, <1>4, <1>6, <2>1 DEF Cleared, Blank
  <2> QED
    BY <1>1, <1>2, <1>3, <1>5, <2>2, CalmFrame DEF Bystander
<1>7. CASE taken # {}
  <2>1. at'[t] = "work"
    BY <1>3, <1>7
  <2> QED
    BY <1>1, <1>2, <1>3, <1>4, <1>5, <2>1 DEF Takes, Blank, wiki, docs, deletion, ghosts
<1> QED
  BY <1>6, <1>7

\* Every step is one of these.
LEMMA Shapes ==
  ASSUME EditInv, TypeOK', Next
  PROVE  \/ Calm
         \/ \E d \in Docs : \/ Seed(d) \/ Reparse(d) \/ DeleteMark(d)
                            \/ DeleteScrub(d) /\ Scrub(d)
                            \/ DeleteList(d) \/ DeleteRetract(d)
                            \/ \E p \in Pages : DeleteFromPage(d, p)
         \/ \E t \in Tasks :
              \/ Takes(t) \/ Trims(t)
              \/ \E d \in Docs : \/ Retracts(t, d) \/ Skips(t, d) \/ Extracts(t, d)
                                 \/ Drains(t, d) \/ Settles(t, d)
              \/ \E p \in Pages : Begins(t, p) \/ Ends(t, p)
<1>1. ASSUME NEW d \in Docs, Deleting(d)
      PROVE  \/ Calm \/ DeleteList(d) \/ DeleteRetract(d) \/ \E p \in Pages : DeleteFromPage(d, p)
             \/ DeleteScrub(d) /\ Scrub(d)
  <2>1. CASE DeleteScrub(d)
    <3>1. Scrub(d) \/ (UNCHANGED rows /\ UNCHANGED exposed)
      BY <2>1 DEF DeleteScrub
    <3> QED
      BY <2>1, <3>1, CalmSteps
  <2> QED
    BY <1>1, <2>1, CalmSteps DEF Deleting
<1>2. ASSUME NEW t \in Tasks, Work(t) \/ Mishap(t)
      PROVE  \/ Calm \/ Takes(t) \/ Trims(t)
             \/ \E d \in Docs : \/ Retracts(t, d) \/ Skips(t, d) \/ Extracts(t, d)
                                \/ Drains(t, d) \/ Settles(t, d)
             \/ \E p \in Pages : Begins(t, p) \/ Ends(t, p)
  <2>1. CASE \/ Start(t) \/ TurnedAway(t) \/ ClaimFails(t) \/ ArmRecheck(t)
             \/ SettleFailed(t) \/ FollowUp(t) \/ Crash(t)
    BY <2>1, CalmSteps
  <2>2. CASE Claim(t) \/ Trim(t)
    BY <2>2, ClaimDoes, TrimDoes
  <2>3. CASE \E d \in Docs : \/ MapRetract(t, d) \/ MapIngest(t, d) \/ DrainDone(t, d)
                             \/ Requeue(t, d) \/ RequeueFails(t, d)
    BY <2>3, MapDoes, DrainDoes, SettleDoes
  <2>4. CASE \E p \in Pages : \/ ReduceBegin(t, p) \/ ReduceWaitsTooLong(t, p) \/ ReduceWrite(t, p)
                              \/ ReduceGivesUp(t, p) \/ ReduceUnlocked(t, p)
    BY <2>4, BeginDoes, EndDoes
  <2> QED
    BY <1>2, <2>1, <2>2, <2>3, <2>4 DEF Work, Mishap
<1>3. Passing \/ Boot => Calm
  BY CalmSteps DEF Passing
<1>4. ASSUME NEW d \in Docs, TriggerIngest(d) PROVE Calm
  BY <1>4, CalmSteps
<1> QED
  BY <1>1, <1>2, <1>3, <1>4 DEF Next

-----------------------------------------------------------------------------
(* Rows, operations and edits stay sound                                    *)

\* What the invariants hold of.
LEMMA EditFacts ==
  ASSUME EditInv
  PROVE  /\ TypeOK /\ OneOpPerId /\ BatchSound /\ HoldsItsClaim /\ SingleWorker /\ RowSound /\ RowInv
         /\ rows \subseteq Row /\ lastId \in Nat /\ \A r \in rows : r.id \in 1 .. lastId
         /\ batch \in [Tasks -> Batch] /\ at \in [Tasks -> Steps \cup {"absent", "pending"}]
         /\ page \in [Pages -> {NoPage} \cup SUBSET Docs]
         /\ lock \in [Pages -> Tasks \cup {Free, Orphan}]
         /\ stage \in [Docs -> {"parsing", "seeded", "handed"}] /\ drains \in [Docs -> Nat]
         /\ del \in [Docs -> {"no", "marked", "scrubbed", "listed", "retracted", "done"}]
         /\ snap \in [Docs -> [Pages -> {NoPage} \cup SUBSET Docs]]
         /\ slugs \in [Docs -> SUBSET Pages]
         /\ \A t \in Tasks : Sound(t) /\ Holds(t) /\ OpsSound(t) /\ EditsSound(t)
BY DEF EditInv, SlotInv, ClaimInv, TypeOK, BatchSound, HoldsItsClaim

\* Deletions only go on.
LEMMA DelStep ==
  ASSUME EditInv, TypeOK', Next
  PROVE  DelGoes
<1>0. /\ del \in [Docs -> {"no", "marked", "scrubbed", "listed", "retracted", "done"}]
      /\ slugs \in [Docs -> SUBSET Pages]
  BY EditFacts
<1>1. CASE Calm
  BY <1>1 DEF Calm, DelGoes, Gone, Retracting
<1>2. CASE UNCHANGED <<del, slugs>>
  BY <1>2 DEF DelGoes, Gone, Retracting
<1>3. ASSUME NEW d \in Docs, Seed(d) \/ Reparse(d) PROVE DelGoes
  BY <1>2, <1>3 DEF Seed, Reparse, deletion
<1>4. ASSUME NEW d \in Docs, DeleteMark(d) \/ DeleteScrub(d) \/ DeleteList(d) \/ DeleteRetract(d)
      PROVE DelGoes
  <2>1. /\ UNCHANGED slugs /\ del[d] \in {"no", "marked", "scrubbed", "listed"}
        /\ \E x \in {"marked", "scrubbed", "listed", "retracted", "done"} : del' = [del EXCEPT ![d] = x]
    BY <1>4 DEF DeleteMark, DeleteScrub, DeleteList, DeleteRetract
  <2> QED
    BY <1>0, <2>1 DEF DelGoes, Gone, Retracting
<1>5. ASSUME NEW d \in Docs, NEW p \in Pages, DeleteFromPage(d, p) PROVE DelGoes
  <2>1. /\ UNCHANGED del /\ del[d] = "listed" /\ \A c \in Docs \ {d} : slugs'[c] = slugs[c]
    BY <1>0, <1>5 DEF DeleteFromPage
  <2> QED
    BY <2>1 DEF DelGoes, Gone, Retracting
<1>6. ASSUME NEW t \in Tasks,
             \/ Takes(t) \/ Trims(t)
             \/ \E d \in Docs : \/ Retracts(t, d) \/ Skips(t, d) \/ Extracts(t, d)
                                \/ Drains(t, d) \/ Settles(t, d)
             \/ \E p \in Pages : Begins(t, p) \/ Ends(t, p)
      PROVE UNCHANGED <<del, slugs>>
  BY <1>6 DEF Takes, Trims, Retracts, Skips, Extracts, Maps, Drains, Settles, Begins, Ends, Within
<1> QED
  BY <1>1, <1>2, <1>3, <1>4, <1>5, <1>6, Shapes

\* Rows that were there stay sound.
LEMMA RowInvStays ==
  ASSUME EditInv, TypeOK', RowsCome, DelGoes
  PROVE  RowInv'
<1>1. \A r \in rows' : r.op = "retract" =>
        /\ Retracting(r.doc)' /\ r.slugs = slugs'[r.doc]
        /\ \A q \in rows' : q.doc = r.doc => q.id <= r.id
  <2> SUFFICES ASSUME NEW r \in rows', r.op = "retract"
               PROVE  /\ Retracting(r.doc)' /\ r.slugs = slugs'[r.doc]
                      /\ \A q \in rows' : q.doc = r.doc => q.id <= r.id
    OBVIOUS
  <2>1. PICK x \in rows : Came(x, r)
    BY DEF RowsCome
  <2>2. r.doc \in Docs
    BY DEF TypeOK, Row
  <2> QED
    BY <2>1, <2>2, EditFacts DEF RowInv, RowsCome, Came, Same, DelGoes
<1>2. \A q, r \in rows' : q.op = "ingest" /\ r.op = "ingest" /\ q.doc = r.doc => q.id = r.id
  BY EditFacts DEF RowInv, RowsCome, Came, Same
<1> QED
  BY <1>1, <1>2 DEF RowInv

\* A new one is sound.
LEMMA RowInvAdds ==
  ASSUME EditInv, TypeOK', DelGoes, NEW d \in Docs, Seed(d) \/ DeleteRetract(d)
  PROVE  RowInv'
<1>0. RowInv /\ RowSound /\ lastId \in Nat /\ \A r \in rows : r.id \in Nat /\ r.id <= lastId
  BY EditFacts
<1>1. CASE Seed(d)
  <2> DEFINE new == [id |-> lastId + 1, doc |-> d, op |-> "ingest", slugs |-> {},
                     claim |-> "free", fails |-> 0]
  <2>1. rows' = rows \cup {new} /\ stage[d] = "parsing" /\ ~Gone(d) /\ UNCHANGED <<del, slugs>>
    BY <1>1 DEF Seed, Insert, deletion
  <2>2. new.doc = d /\ new.op = "ingest"
    OBVIOUS
  <2>3. \A r \in rows : r.doc # d
    BY <1>0, <2>1 DEF RowSound
  <2> HIDE DEF new
  <2> QED
    BY <1>0, <2>1, <2>2, <2>3 DEF RowInv, Retracting
<1>2. CASE DeleteRetract(d)
  <2>1. CASE UNCHANGED rows
    BY <2>1, RowInvStays, RowsCalm
  <2>2. CASE Insert(d, "retract", slugs[d]) /\ del' = [del EXCEPT ![d] = "retracted"]
    <3> DEFINE new == [id |-> lastId + 1, doc |-> d, op |-> "retract", slugs |-> slugs[d],
                       claim |-> "free", fails |-> 0]
    <3>1. rows' = rows \cup {new} /\ del[d] = "listed" /\ UNCHANGED slugs
      BY <1>2, <2>2 DEF DeleteRetract, Insert
    <3>2. new.doc = d /\ new.op = "retract" /\ new.id = lastId + 1 /\ new.slugs = slugs[d]
      OBVIOUS
    <3> HIDE DEF new
    <3>3. \A r \in rows : r.doc = d => r.op # "retract"
      BY <1>0, <3>1 DEF RowInv, Retracting
    <3>4. Retracting(d)' /\ \A r \in rows : r.doc \in Docs
      BY <2>2, EditFacts DEF Retracting, Row
    <3>5. ASSUME NEW r \in rows', r.op = "retract"
          PROVE  /\ Retracting(r.doc)' /\ r.slugs = slugs'[r.doc]
                 /\ \A q \in rows' : q.doc = r.doc => q.id <= r.id
      <4>1. CASE r = new
        BY <1>0, <3>1, <3>2, <3>4, <4>1
      <4>2. CASE r \in rows
        BY <1>0, <3>1, <3>2, <3>3, <3>4, <3>5, <4>2 DEF RowInv, DelGoes
      <4> QED
        BY <3>1, <4>1, <4>2
    <3>6. \A q, r \in rows' : q.op = "ingest" /\ r.op = "ingest" /\ q.doc = r.doc => q.id = r.id
      BY <1>0, <3>1, <3>2 DEF RowInv
    <3> QED
      BY <3>5, <3>6 DEF RowInv
  <2> QED
    BY <1>2, <2>1, <2>2 DEF DeleteRetract, table
<1> QED
  BY <1>1, <1>2

\* Rows come from rows, but for a new hand-over and a new retraction.
LEMMA RowsStep ==
  ASSUME EditInv, TypeOK', Next
  PROVE  RowsCome \/ \E d \in Docs : Seed(d) \/ DeleteRetract(d)
<1>1. CASE UNCHANGED rows
  BY <1>1, RowsCalm
<1>2. CASE rows' \subseteq rows
  BY <1>2 DEF RowsCome, Came, Same
<1>3. CASE Calm
  BY <1>3 DEF Calm
<1>4. ASSUME NEW d \in Docs, Scrub(d) PROVE rows' \subseteq rows
  BY <1>4 DEF Scrub
<1>5. ASSUME NEW d \in Docs, Reparse(d) PROVE rows' \subseteq rows
  BY <1>5 DEF Reparse, Scrub
<1>6. ASSUME NEW d \in Docs, DeleteMark(d) \/ DeleteList(d) \/ \E p \in Pages : DeleteFromPage(d, p)
      PROVE UNCHANGED rows
  BY <1>6 DEF DeleteMark, DeleteList, DeleteFromPage, table
<1>7. ASSUME NEW t \in Tasks, Trims(t) PROVE rows' \subseteq rows
  BY <1>7 DEF Trims
<1>8. ASSUME NEW t \in Tasks, Takes(t) \/ \E d \in Docs : Settles(t, d) PROVE RowsCome
  BY <1>8 DEF Takes, Settles
<1>9. ASSUME NEW t \in Tasks,
             \/ \E d \in Docs : Retracts(t, d) \/ Skips(t, d) \/ Extracts(t, d) \/ Drains(t, d)
             \/ \E p \in Pages : Begins(t, p) \/ Ends(t, p)
      PROVE UNCHANGED rows
  BY <1>9 DEF Retracts, Skips, Extracts, Maps, Drains, Begins, Ends
<1> QED
  BY <1>1, <1>2, <1>3, <1>4, <1>5, <1>6, <1>7, <1>8, <1>9, Shapes

\* Operations stay sound,
LEMMA OpsStay ==
  ASSUME EditInv, DelGoes, NEW s \in Tasks, batch'[s].ops = batch[s].ops \/ batch'[s].ops = {}
  PROVE  OpsSound(s)'
<1>1. \A o \in batch[s].ops : o.doc \in Docs
  BY EditFacts, BatchOf, BatchFields, RowFields
<1>2. OpsSound(s)
  BY EditFacts
<1> QED
  BY <1>1, <1>2 DEF OpsSound, DelGoes

\* and the edits of a batch that the step does not touch.
LEMMA EditsStay ==
  ASSUME EditInv, NEW s \in Tasks, Bystander(s) \/ Cleared(s)
  PROVE  EditsSound(s)'
<1>1. CASE Cleared(s)
  BY <1>1 DEF Cleared, Blank, EditsSound
<1>2. CASE Bystander(s)
  <2>1. EditsSound(s)
    BY EditFacts
  <2> QED
    BY <1>2, <2>1 DEF Bystander, EditsSound, IsOp
<1> QED
  BY <1>1, <1>2

\* A claim takes the last row of each document.
LEMMA TakenOps ==
  ASSUME EditInv, TypeOK', NEW t \in Tasks, Takes(t)
  PROVE  \A o \in batch'[t].ops :
           /\ o \in rows'
           /\ \E l \in LastOps({r \in rows : r.doc \in Chosen}) : Same(l, o)
<1> DEFINE taken == {r \in rows : r.doc \in Chosen}
<1> SUFFICES ASSUME NEW o \in batch'[t].ops
             PROVE  o \in rows' /\ \E l \in LastOps(taken) : Same(l, o)
  OBVIOUS
<1>1. o \in rows' /\ o.id \in Ids(LastOps(taken))
  BY DEF Takes
<1>2. PICK l \in LastOps(taken) : l.id = o.id
  BY <1>1 DEF Ids
<1>3. PICK r \in rows : Came(r, o)
  BY <1>1 DEF Takes, RowsCome
<1>4. l \in rows
  BY <1>2 DEF LastOps
<1>5. Same(l, o)
  BY <1>2, <1>3, <1>4, EditFacts DEF OneOpPerId, Came, Same
<1> QED
  BY <1>1, <1>2, <1>5

\* They are one of each document.
LEMMA TakenSound ==
  ASSUME EditInv, TypeOK', OneOpPerId', RowInv', NEW t \in Tasks, Takes(t)
  PROVE  OpsSound(t)' /\ EditsSound(t)'
<1> DEFINE taken == {r \in rows : r.doc \in Chosen}
<1>1. \A l, m \in LastOps(taken) : l.doc = m.doc => l.id = m.id
  <2>1. \A l, m \in LastOps(taken) : l.doc = m.doc => l.id <= m.id /\ m.id <= l.id
    BY DEF LastOps
  <2>2. \A l \in LastOps(taken) : l.id \in Nat
    BY EditFacts, RowFields DEF LastOps
  <2> HIDE DEF taken
  <2> QED
    BY <2>1, <2>2
<1> HIDE DEF taken
<1>2. \A o \in batch'[t].ops : o \in rows' /\ \E l \in LastOps(taken) : Same(l, o)
  BY TakenOps DEF taken
<1>3. \A o, q \in batch'[t].ops : o.doc = q.doc => o.id = q.id /\ o.op = q.op
  BY <1>1, <1>2 DEF Same, OneOpPerId
<1>4. \A o \in batch'[t].ops : o.op = "retract" => Retracting(o.doc)' /\ o.slugs = slugs'[o.doc]
  BY <1>2 DEF RowInv
<1>5. OpsSound(t)'
  BY <1>3, <1>4 DEF OpsSound
<1>6. EditsSound(t)'
  BY DEF Takes, EditsSound
<1> QED
  BY <1>5, <1>6

\* Other batches than the one at work.
LEMMA WithinOthers ==
  ASSUME NEW t \in Tasks, Within(t)
  PROVE  \A s \in Tasks \ {t} : Bystander(s)
BY DEF Within, Bystander

\* The operation of a document that a batch has to map.
LEMMA OpIs ==
  ASSUME EditInv, NEW t \in Tasks, NEW d \in DocsOf(t)
  PROVE  /\ OpOf(t, d) \in batch[t].ops /\ OpOf(t, d).doc = d
         /\ IsOp(t, d, OpOf(t, d).op)
         /\ \A op : IsOp(t, d, op) => op = OpOf(t, d).op
<1>1. OpOf(t, d) \in batch[t].ops /\ OpOf(t, d).doc = d
  BY OpOfType DEF EditInv, SlotInv
<1>2. OpsSound(t)
  BY EditFacts
<1> QED
  BY <1>1, <1>2 DEF IsOp, OpsSound

\* The edits of the batch at work stay sound.
LEMMA EditsWork ==
  ASSUME EditInv, TypeOK', NEW t \in Tasks,
         \/ Trims(t)
         \/ \E d \in Docs : \/ Retracts(t, d) \/ Skips(t, d) \/ Extracts(t, d)
                            \/ Drains(t, d) \/ Settles(t, d)
         \/ \E p \in Pages : Begins(t, p) \/ Ends(t, p)
  PROVE  EditsSound(t)'
<1>0. EditsSound(t) /\ OpsSound(t) /\ batch[t] \in Batch
  BY EditFacts, BatchOf
<1>f. /\ batch[t].adds \in [Pages -> SUBSET Docs] /\ batch[t].rets \in [Pages -> SUBSET Docs]
      /\ batch[t].mapped \subseteq Docs
  BY <1>0, BatchFields
<1>1. \A d, op : batch'[t].ops = batch[t].ops => (IsOp(t, d, op)' <=> IsOp(t, d, op))
  BY DEF IsOp
<1>2. ASSUME Trims(t) PROVE EditsSound(t)'
  BY <1>0, <1>1, <1>2 DEF Trims, Applied, EditsSound
<1>3. ASSUME NEW d \in Docs, Retracts(t, d) PROVE EditsSound(t)'
  <2>1. /\ at[t] = "work" /\ at'[t] = "work" /\ d \in DocsOf(t) \ batch[t].mapped
        /\ batch'[t].ops = batch[t].ops /\ batch'[t].mapped = batch[t].mapped \cup {d}
        /\ batch'[t].adds = batch[t].adds /\ batch'[t].bad = batch[t].bad
        /\ batch'[t].drained = batch[t].drained
    BY <1>3 DEF Retracts, Maps, Within
  <2>2. IsOp(t, d, "retract")
    BY <1>3, <2>1, OpIs DEF Retracts
  <2>3. \A p \in Pages : batch'[t].rets[p] \subseteq batch[t].rets[p] \cup {d}
    BY <1>3 DEF Retracts, AddTo
  <2> QED
    BY <1>0, <1>1, <2>1, <2>2, <2>3 DEF EditsSound
<1>4. ASSUME NEW d \in Docs, Skips(t, d) PROVE EditsSound(t)'
  <2>1. /\ at[t] = "work" /\ at'[t] = "work" /\ d \in DocsOf(t) \ batch[t].mapped
        /\ batch'[t].ops = batch[t].ops /\ batch'[t].mapped = batch[t].mapped \cup {d}
        /\ batch'[t].adds = batch[t].adds /\ batch'[t].bad = batch[t].bad
        /\ batch'[t].rets = batch[t].rets
        /\ batch'[t].drained = batch[t].drained \cup {d}
    BY <1>4 DEF Skips, Maps, Within
  <2>2. IsOp(t, d, "ingest")
    BY <1>4, <2>1, OpIs DEF Skips
  <2> QED
    BY <1>0, <1>1, <2>1, <2>2 DEF EditsSound
<1>5. ASSUME NEW d \in Docs, Extracts(t, d) PROVE EditsSound(t)'
  <2>1. /\ at[t] = "work" /\ at'[t] = "work" /\ d \in DocsOf(t) \ batch[t].mapped
        /\ batch'[t].ops = batch[t].ops /\ batch'[t].mapped = batch[t].mapped \cup {d}
        /\ batch'[t].rets = batch[t].rets /\ batch'[t].drained = batch[t].drained
        /\ batch'[t].bad \subseteq batch[t].bad \cup {d}
    BY <1>5 DEF Extracts, Maps, Within
  <2>2. IsOp(t, d, "ingest")
    BY <1>5, <2>1, OpIs DEF Extracts
  <2>3. \A p \in Pages : batch'[t].adds[p] \subseteq batch[t].adds[p] \cup {d}
    BY <1>5 DEF Extracts, AddTo
  <2>4. d \notin batch[t].drained
    BY <1>0, <2>1 DEF EditsSound
  <2> QED
    BY <1>0, <1>1, <2>1, <2>2, <2>3, <2>4 DEF EditsSound
<1>6. ASSUME NEW d \in Docs, Drains(t, d) PROVE EditsSound(t)'
  <2>1. /\ at[t] = "work" /\ at'[t] = "work" /\ Unmapped(t) = {} /\ Todo(t) = {} /\ d \in Due(t)
        /\ batch'[t].ops = batch[t].ops /\ batch'[t].mapped = batch[t].mapped
        /\ batch'[t].adds = batch[t].adds /\ batch'[t].bad = batch[t].bad
        /\ batch'[t].rets = batch[t].rets
        /\ batch'[t].drained = batch[t].drained \cup {d}
    BY <1>6 DEF Drains, Applied, Within
  <2>2. IsOp(t, d, "ingest") /\ d \notin batch[t].bad /\ d \in batch[t].mapped
    BY <2>1 DEF Due, IsOp, Unmapped, DocsOf
  <2>3. \A p \in Pages : batch[t].adds[p] = {}
    BY <2>1 DEF Todo
  <2> QED
    BY <1>0, <1>1, <2>1, <2>2, <2>3 DEF EditsSound
<1>7. ASSUME NEW d \in Docs, Settles(t, d) PROVE EditsSound(t)'
  <2>1. /\ at'[t] = "settle" /\ batch'[t].ops = batch[t].ops /\ d \in batch[t].bad
        /\ \/ batch'[t].drained = batch[t].drained
           \/ batch'[t].drained = batch[t].drained \cup {d} /\ OpOf(t, d).op = "ingest"
    BY <1>7 DEF Settles, Within
  <2>2. d \in DocsOf(t)
    BY <2>1, EditFacts DEF Sound
  <2>3. OpOf(t, d).op = "ingest" => IsOp(t, d, "ingest")
    BY <2>2, OpIs
  <2> QED
    BY <1>0, <1>1, <2>1, <2>3 DEF EditsSound
<1>8. ASSUME NEW p \in Pages, Begins(t, p) PROVE EditsSound(t)'
  <2>1. /\ at[t] = "work" /\ at'[t] = "work" /\ batch'[t].ops = batch[t].ops
        /\ batch'[t].mapped = batch[t].mapped /\ batch'[t].bad = batch[t].bad
        /\ batch'[t].rets = batch[t].rets /\ batch'[t].drained = batch[t].drained
        /\ \A q \in Pages : batch'[t].adds[q] \subseteq batch[t].adds[q]
    BY <1>8, <1>f DEF Begins, Within
  <2> QED
    BY <1>0, <1>1, <2>1 DEF EditsSound
<1>9. ASSUME NEW p \in Pages, Ends(t, p) PROVE EditsSound(t)'
  <2>1. /\ at[t] = "work" /\ at'[t] = "work" /\ batch'[t].ops = batch[t].ops
        /\ batch'[t].mapped = batch[t].mapped /\ batch'[t].drained = batch[t].drained
        /\ batch'[t].bad \subseteq batch[t].bad \cup batch[t].adds[p] \cup batch[t].rets[p]
        /\ \A q \in Pages : /\ batch'[t].adds[q] \subseteq batch[t].adds[q]
                            /\ batch'[t].rets[q] \subseteq batch[t].rets[q]
    BY <1>9, <1>f DEF Ends, Within
  <2>2. \A d \in batch[t].drained : d \notin batch[t].rets[p]
    <3> SUFFICES ASSUME NEW d \in batch[t].drained, d \in batch[t].rets[p] PROVE FALSE
      OBVIOUS
    <3>1. IsOp(t, d, "ingest") /\ IsOp(t, d, "retract")
      BY <1>0, <2>1 DEF EditsSound
    <3> QED
      BY <1>0, <3>1 DEF IsOp, OpsSound
  <2> QED
    BY <1>0, <1>1, <2>1, <2>2 DEF EditsSound
<1> QED
  BY <1>2, <1>3, <1>4, <1>5, <1>6, <1>7, <1>8, <1>9

\* Every step keeps rows, operations and edits sound.
LEMMA EditStep ==
  ASSUME EditInv, SlotInv', Next
  PROVE  EditInv'
<1>1. TypeOK' /\ OneOpPerId'
  BY DEF SlotInv, ClaimInv
<1>2. DelGoes
  BY <1>1, DelStep
<1>3. RowInv'
  BY <1>1, <1>2, RowsStep, RowInvStays, RowInvAdds
<1>4. ASSUME \A s \in Tasks : Bystander(s) \/ Cleared(s) PROVE EditInv'
  <2>1. \A s \in Tasks : OpsSound(s)'
    BY <1>2, <1>4, OpsStay DEF Bystander, Cleared, Blank
  <2>2. \A s \in Tasks : EditsSound(s)'
    BY <1>4, EditsStay
  <2> QED
    BY <1>3, <2>1, <2>2 DEF EditInv
<1>5. ASSUME NEW t \in Tasks, \A s \in Tasks \ {t} : Bystander(s), OpsSound(t)' /\ EditsSound(t)'
      PROVE EditInv'
  <2>1. \A s \in Tasks \ {t} : OpsSound(s)'
    BY <1>2, <1>5, OpsStay DEF Bystander
  <2>2. \A s \in Tasks \ {t} : EditsSound(s)'
    BY <1>5, EditsStay
  <2> QED
    BY <1>3, <1>5, <2>1, <2>2 DEF EditInv
<1>6. CASE Calm
  BY <1>4, <1>6 DEF Calm
<1>7. ASSUME NEW d \in Docs,
             \/ Seed(d) \/ Reparse(d) \/ DeleteMark(d) \/ DeleteScrub(d) \/ DeleteList(d)
             \/ DeleteRetract(d) \/ \E p \in Pages : DeleteFromPage(d, p)
      PROVE EditInv'
  <2>1. UNCHANGED <<batch, at>>
    BY <1>7 DEF Seed, Reparse, DeleteMark, DeleteScrub, DeleteList, DeleteRetract, DeleteFromPage
  <2> QED
    BY <1>4, <2>1 DEF Bystander
<1>8. ASSUME NEW t \in Tasks, Takes(t) PROVE EditInv'
  BY <1>1, <1>3, <1>5, <1>8, TakenSound DEF Takes, Bystander
<1>9. ASSUME NEW t \in Tasks,
         \/ Trims(t)
         \/ \E d \in Docs : \/ Retracts(t, d) \/ Skips(t, d) \/ Extracts(t, d)
                            \/ Drains(t, d) \/ Settles(t, d)
         \/ \E p \in Pages : Begins(t, p) \/ Ends(t, p)
      PROVE EditInv'
  <2>1. /\ batch'[t].ops = batch[t].ops
        /\ \A s \in Tasks \ {t} : Bystander(s)
    BY <1>9 DEF Trims, Retracts, Skips, Extracts, Maps, Drains, Settles, Begins, Ends, Within, Bystander
  <2>2. OpsSound(t)'
    BY <1>2, <2>1, OpsStay
  <2> QED
    BY <1>1, <1>5, <1>9, <2>1, <2>2, EditsWork
<1> QED
  BY <1>1, <1>6, <1>7, <1>8, <1>9, Shapes

-----------------------------------------------------------------------------
(* What the lock of a page protects                                         *)

\* A page that somebody else has the lock of, or that is what it was.
LEMMA GuardStays ==
  ASSUME PageInv, Histories, NEW s \in Tasks, NEW p \in Pages,
         \A d \in Docs : p \in slugs[d] => p \in slugs'[d],
         Busy(s, p)' => /\ Busy(s, p) /\ batch'[s].base[p] = batch[s].base[p]
                        /\ batch'[s].base[p] \in {NoPage} \cup SUBSET Docs
                        /\ \A d \in batch'[s].adds[p] : d \in batch[s].adds[p] \/ ~Gone(d)'
                        /\ \A d \in batch'[s].adds[p] : Gone(d)' => Gone(d) \/ d \in crossed',
         \/ page'[p] = page[p] /\ lock'[p] = lock[p]
         \/ lock[p] # s
         \/ p \in unguarded'
  PROVE  Guarded(s, p)'
<1> SUFFICES ASSUME Busy(s, p)', p \notin unguarded'
             PROVE  /\ lock'[p] = s
                    /\ batch'[s].base[p] = NoPage => page'[p] = NoPage
                    /\ batch'[s].base[p] # NoPage =>
                         /\ page'[p] # NoPage => page'[p] \subseteq batch'[s].base[p]
                         /\ \A d \in batch'[s].base[p] : On(d, p)' \/ p \in slugs'[d]
                    /\ \A d \in batch'[s].adds[p] : Gone(d)' => d \in crossed'
  BY DEF Guarded
<1>1. Guarded(s, p) /\ Busy(s, p) /\ p \notin unguarded
  BY DEF PageInv, Histories
<1>2. page'[p] = page[p] /\ lock'[p] = lock[p] /\ lock[p] = s
  BY <1>1 DEF Guarded
<1>3. \A d \in batch'[s].adds[p] : Gone(d)' => d \in crossed'
  BY <1>1 DEF Guarded, Histories
<1>4. batch'[s].base[p] # NoPage => \A d \in batch'[s].base[p] : On(d, p)' \/ p \in slugs'[d]
  BY <1>1, <1>2 DEF Guarded, On
<1> QED
  BY <1>1, <1>2, <1>3, <1>4 DEF Guarded

\* Only the batch with the lock is writing a page.
LEMMA OneWriter ==
  ASSUME PageInv, NEW s \in Tasks, NEW t \in Tasks, NEW p \in Pages \ unguarded,
         Busy(s, p), Busy(t, p)
  PROVE  s = t
BY DEF PageInv, Guarded

\* A deletion takes a document off a page: it remembers the page.
LEMMA DeletionGuards ==
  ASSUME EditInv, TypeOK', PageInv, NEW d \in Docs, NEW p \in Pages, DeleteFromPage(d, p)
  PROVE  PageInv'
<1>0. /\ page \in [Pages -> {NoPage} \cup SUBSET Docs] /\ slugs \in [Docs -> SUBSET Pages]
      /\ snap \in [Docs -> [Pages -> {NoPage} \cup SUBSET Docs]]
      /\ \A s \in Tasks, q \in Pages : batch[s].base[q] \in {NoPage} \cup SUBSET Docs
      /\ \A s \in Tasks, q \in Pages : batch[s].adds[q] \subseteq Docs
  BY EditFacts, BatchOf, BatchFields
<1>1. /\ UNCHANGED <<batch, at, lock, del, crossed, dropped, replayed, exposed>>
      /\ snap[d][p] # NoPage /\ del[d] = "listed"
      /\ unguarded' = IF page[p] = snap[d][p] THEN unguarded ELSE unguarded \cup {p}
      /\ \A q \in Pages \ {p} : page'[q] = page[q]
      /\ page'[p] = IF page[p] = NoPage THEN NoPage
                    ELSE IF snap[d][p] \ {d} = {} THEN NoPage ELSE snap[d][p] \ {d}
      /\ \A c \in Docs : slugs[c] \subseteq slugs'[c]
      /\ page[p] # NoPage => p \in slugs'[d]
  BY <1>0 DEF DeleteFromPage, table
<1>2. Histories
  BY <1>1 DEF Histories
<1>3. SUFFICES ASSUME NEW s \in Tasks, NEW q \in Pages PROVE Guarded(s, q)'
  BY DEF PageInv
<1>4. CASE q # p \/ p \in unguarded'
  <2>1. Busy(s, q)' <=> Busy(s, q)
    BY <1>1 DEF Busy
  <2>2. q = p => p \in unguarded'
    BY <1>4
  <2> QED
    BY <1>0, <1>1, <1>2, <2>1, <2>2, GuardStays DEF Gone
<1>5. CASE q = p /\ p \notin unguarded'
  <2> SUFFICES ASSUME Busy(s, p)
               PROVE  /\ lock[p] = s
                      /\ batch[s].base[p] = NoPage => page'[p] = NoPage
                      /\ batch[s].base[p] # NoPage =>
                           /\ page'[p] # NoPage => page'[p] \subseteq batch[s].base[p]
                           /\ \A c \in batch[s].base[p] : On(c, p)' \/ p \in slugs'[c]
                      /\ \A c \in batch[s].adds[p] : Gone(c) => c \in crossed
    BY <1>1, <1>5 DEF Guarded, Busy, Gone
  <2>1. page[p] = snap[d][p] /\ page[p] # NoPage /\ p \notin unguarded /\ p \in slugs'[d]
    BY <1>1, <1>5
  <2>2. Guarded(s, p) /\ page[p] \subseteq Docs
    BY <1>0, <2>1 DEF PageInv
  <2>3. \A c \in page[p] : c # d => On(c, p)'
    <3> SUFFICES ASSUME NEW c \in page[p], c # d PROVE On(c, p)'
      OBVIOUS
    <3>1. page'[p] = page[p] \ {d}
      BY <1>1, <2>1
    <3>2. page[p] \ {d} \in SUBSET Docs
      BY <2>2
    <3>3. page'[p] # NoPage
      BY <3>1, <3>2, NamesAssumption
    <3> QED
      BY <3>1, <3>3 DEF On
  <2>4. page'[p] # NoPage => page'[p] \subseteq page[p]
    BY <1>1, <2>1
  <2>5. batch[s].base[p] # NoPage => \A c \in batch[s].base[p] : On(c, p)' \/ p \in slugs'[c]
    <3> SUFFICES ASSUME batch[s].base[p] # NoPage, NEW c \in batch[s].base[p]
                 PROVE  On(c, p)' \/ p \in slugs'[c]
      OBVIOUS
    <3>1. c \in Docs /\ (On(c, p) \/ p \in slugs[c])
      BY <1>0, <2>1, <2>2 DEF Guarded
    <3> QED
      BY <1>1, <2>1, <2>3, <3>1 DEF On
  <2> QED
    BY <2>1, <2>2, <2>4, <2>5 DEF Guarded
<1> QED
  BY <1>4, <1>5

\* A page that is begun is the page that was read.
LEMMA BegunGuards ==
  ASSUME EditInv, PageInv, NEW t \in Tasks, NEW p \in Pages, Begins(t, p)
  PROVE  PageInv'
<1>0. /\ page \in [Pages -> {NoPage} \cup SUBSET Docs] /\ lock \in [Pages -> Tasks \cup {Free, Orphan}]
      /\ \A s \in Tasks, q \in Pages : batch[s].base[q] \in {NoPage} \cup SUBSET Docs
      /\ batch[t].adds \in [Pages -> SUBSET Docs]
      /\ batch[t].base \in [Pages -> {NoPage} \cup SUBSET Docs]
  BY EditFacts, BatchOf, BatchFields
<1>1. /\ at' = at /\ UNCHANGED <<page, del, slugs, crossed>> /\ Histories
      /\ \A s \in Tasks \ {t} : batch'[s] = batch[s]
      /\ batch'[t].busy = batch[t].busy \cup {p}
      /\ \A q \in Pages : batch'[t].base[q] = IF q = p THEN page[p] ELSE batch[t].base[q]
      /\ \A q \in Pages : batch'[t].adds[q] = IF q = p THEN {d \in batch[t].adds[p] : ~Gone(d)}
                                              ELSE batch[t].adds[q]
      /\ \/ lock[p] = Free /\ lock'[p] = t
         \/ lock'[p] = lock[p] /\ p \in unguarded'
      /\ \A q \in Pages \ {p} : lock'[q] = lock[q]
  BY <1>0 DEF Begins, Within
<1>2. SUFFICES ASSUME NEW s \in Tasks, NEW q \in Pages PROVE Guarded(s, q)'
  BY DEF PageInv
<1>3. CASE s # t \/ q # p
  <2>1. Busy(s, q)' => Busy(s, q)
    BY <1>1, <1>3 DEF Busy
  <2>2. batch'[s].base[q] = batch[s].base[q] /\ batch'[s].adds[q] = batch[s].adds[q]
    BY <1>1, <1>3
  <2>3. \/ page'[q] = page[q] /\ lock'[q] = lock[q]
        \/ lock[q] # s \/ q \in unguarded'
    BY <1>1, TaskNames
  <2>4. \A d : Gone(d)' <=> Gone(d)
    BY <1>1 DEF Gone
  <2> QED
    BY <1>0, <1>1, <2>1, <2>2, <2>3, <2>4, GuardStays
<1>4. CASE s = t /\ q = p
  <2>1. \A d : Gone(d)' <=> Gone(d)
    BY <1>1 DEF Gone
  <2>2. p \notin unguarded' => lock'[p] = t
    BY <1>1
  <2>3. batch'[t].base[p] = page[p] /\ page' = page
    BY <1>1
  <2>4. \A d \in batch'[t].adds[p] : ~Gone(d)
    BY <1>1
  <2> QED
    BY <1>4, <2>1, <2>2, <2>3, <2>4 DEF Guarded, On
<1> QED
  BY <1>3, <1>4

\* A page that is over was nobody else's to write.
LEMMA EndedGuards ==
  ASSUME EditInv, PageInv, NEW t \in Tasks, NEW p \in Pages, Ends(t, p)
  PROVE  PageInv'
<1>0. /\ page \in [Pages -> {NoPage} \cup SUBSET Docs] /\ lock \in [Pages -> Tasks \cup {Free, Orphan}]
      /\ \A s \in Tasks, q \in Pages : batch[s].base[q] \in {NoPage} \cup SUBSET Docs
      /\ batch[t].adds \in [Pages -> SUBSET Docs]
      /\ batch[t].base \in [Pages -> {NoPage} \cup SUBSET Docs]
  BY EditFacts, BatchOf, BatchFields
<1>1. /\ at' = at /\ at[t] = "work" /\ UNCHANGED <<del, slugs, crossed>> /\ Histories
      /\ \A s \in Tasks \ {t} : batch'[s] = batch[s]
      /\ batch'[t].busy = batch[t].busy \ {p}
      /\ \A q \in Pages : batch'[t].base[q] = IF q = p THEN NoPage ELSE batch[t].base[q]
      /\ \A q \in Pages : batch'[t].adds[q] = IF q = p THEN {} ELSE batch[t].adds[q]
      /\ lock'[p] = lock[p] \/ lock[p] = t
      /\ page' = page \/ p \in batch[t].busy
      /\ \A q \in Pages \ {p} : lock'[q] = lock[q] /\ page'[q] = page[q]
  BY <1>0 DEF Ends, Within
<1>2. SUFFICES ASSUME NEW s \in Tasks, NEW q \in Pages PROVE Guarded(s, q)'
  BY DEF PageInv
<1>3. CASE s = t /\ q = p
  BY <1>1, <1>3 DEF Guarded, Busy
<1>4. CASE s # t \/ q # p
  <2>1. Busy(s, q)' => Busy(s, q)
    BY <1>1 DEF Busy
  <2>2. batch'[s].base[q] = batch[s].base[q] /\ batch'[s].adds[q] = batch[s].adds[q]
    BY <1>1, <1>4
  <2>3. \A d : Gone(d)' <=> Gone(d)
    BY <1>1 DEF Gone
  <2>4. ASSUME page'[q] # page[q] \/ lock'[q] # lock[q]
        PROVE  lock[q] # s \/ q \in unguarded'
    <3>1. q = p /\ s # t
      BY <1>1, <1>4, <2>4
    <3>2. lock[p] = t \/ p \in unguarded
      BY <1>1, <2>4, <3>1 DEF PageInv, Guarded, Busy
    <3> QED
      BY <1>1, <3>1, <3>2 DEF Histories
  <2> QED
    BY <1>0, <1>1, <2>1, <2>2, <2>3, <2>4, GuardStays
<1> QED
  BY <1>3, <1>4

\* Every step keeps what the locks protect.
LEMMA PageStep ==
  ASSUME EditInv, TypeOK', PageInv, Next
  PROVE  PageInv'
<1>0. /\ \A s \in Tasks, q \in Pages : batch[s].base[q] \in {NoPage} \cup SUBSET Docs
      /\ \A s \in Tasks, q \in Pages : batch[s].adds[q] \subseteq Docs
      /\ \A s \in Tasks, q \in Pages : batch'[s].base[q] \in {NoPage} \cup SUBSET Docs
      /\ \A s \in Tasks : batch[s].adds \in [Pages -> SUBSET Docs]
      /\ del \in [Docs -> {"no", "marked", "scrubbed", "listed", "retracted", "done"}]
  <2>1. batch' \in [Tasks -> Batch]
    BY DEF TypeOK
  <2>2. \A s \in Tasks : batch'[s] \in Batch
    BY <2>1
  <2> QED
    BY <2>2, EditFacts, BatchOf, BatchFields
<1>1. ASSUME Histories, UNCHANGED <<page, slugs>>,
             \A d \in Docs : Gone(d)' => Gone(d),
             \A s \in Tasks, p \in Pages : lock'[p] = lock[p] \/ lock[p] # s \/ ~Busy(s, p)',
             \A s \in Tasks, p \in Pages : Busy(s, p)' =>
               /\ Busy(s, p) /\ batch'[s].base[p] = batch[s].base[p]
               /\ batch'[s].adds[p] = batch[s].adds[p]
      PROVE PageInv'
  <2> SUFFICES ASSUME NEW s \in Tasks, NEW p \in Pages PROVE Guarded(s, p)'
    BY DEF PageInv
  <2>1. CASE ~Busy(s, p)'
    BY <2>1 DEF Guarded
  <2>2. CASE Busy(s, p)'
    <3>1. \A d \in batch'[s].adds[p] : d \in Docs
      BY <1>0, <1>1, <2>2
    <3> QED
      BY <1>0, <1>1, <2>2, <3>1, GuardStays
  <2> QED
    BY <2>1, <2>2
<1>2. ASSUME UNCHANGED <<page, slugs, batch, at, lock, del>>, Histories PROVE PageInv'
  BY <1>1, <1>2 DEF Busy, Gone
<1>3. CASE Calm
  <2>1. \A d \in Docs : Gone(d)' => Gone(d)
    BY <1>3 DEF Calm, Gone
  <2>2. \A s \in Tasks, p \in Pages : Busy(s, p)' => batch'[s] = batch[s] /\ Busy(s, p) /\ ~Cleared(s)
    BY <1>3 DEF Calm, Bystander, Busy, Cleared
  <2>3. \A s \in Tasks, p \in Pages : lock'[p] = lock[p] \/ lock[p] # s \/ ~Busy(s, p)'
    BY <1>3, <2>2 DEF Calm
  <2>4. Histories /\ UNCHANGED <<page, slugs>>
    BY <1>3 DEF Calm
  <2> QED
    BY <1>1, <2>1, <2>2, <2>3, <2>4
<1>4. ASSUME NEW d \in Docs, Seed(d) \/ Reparse(d) PROVE PageInv'
  BY <1>2, <1>4 DEF Seed, Reparse, deletion, wiki, ghosts, Histories
<1>5. ASSUME NEW d \in Docs, DeleteMark(d) PROVE PageInv'
  <2> SUFFICES ASSUME NEW s \in Tasks, NEW p \in Pages PROVE Guarded(s, p)'
    BY DEF PageInv
  <2>1. UNCHANGED <<page, slugs, batch, at, lock>> /\ Histories
    BY <1>5 DEF DeleteMark, wiki, Histories
  <2>2. Busy(s, p)' <=> Busy(s, p)
    BY <2>1 DEF Busy
  <2>3. ASSUME Busy(s, p), d \in batch[s].adds[p] PROVE d \in crossed'
    BY <1>5, <2>3 DEF DeleteMark, Busy, Active, Steps
  <2>4. \A c \in Docs \ {d} : Gone(c)' => Gone(c)
    BY <1>0, <1>5 DEF DeleteMark, Gone
  <2>5. Busy(s, p) => \A c \in batch'[s].adds[p] : Gone(c)' => Gone(c) \/ c \in crossed'
    BY <1>0, <2>1, <2>3, <2>4
  <2> QED
    BY <1>0, <2>1, <2>2, <2>5, GuardStays
<1>6. ASSUME NEW d \in Docs, DeleteScrub(d) \/ DeleteList(d) \/ DeleteRetract(d) PROVE PageInv'
  <2>1. UNCHANGED <<page, slugs, batch, at, lock>> /\ Histories
    BY <1>6 DEF DeleteScrub, DeleteList, DeleteRetract, wiki, ghosts, Histories
  <2>2. \A c \in Docs : Gone(c)' => Gone(c)
    BY <1>0, <1>6 DEF DeleteScrub, DeleteList, DeleteRetract, Gone
  <2> QED
    BY <1>1, <2>1, <2>2 DEF Busy
<1>7. ASSUME NEW t \in Tasks, Takes(t) PROVE PageInv'
  <2>1. UNCHANGED <<page, lock, slugs, del>> /\ Histories
    BY <1>7 DEF Takes, Histories
  <2>2. \A s \in Tasks, p \in Pages : Busy(s, p)' => batch'[s] = batch[s] /\ Busy(s, p)
    BY <1>7 DEF Takes, Busy
  <2> QED
    BY <1>1, <2>1, <2>2 DEF Gone
<1>8. ASSUME NEW t \in Tasks, Trims(t) PROVE PageInv'
  <2>1. UNCHANGED <<page, lock, slugs, del>> /\ Histories
    BY <1>8 DEF Trims
  <2>2. \A s \in Tasks, p \in Pages : Busy(s, p)' => batch'[s] = batch[s] /\ Busy(s, p)
    BY <1>8 DEF Trims, Busy
  <2> QED
    BY <1>1, <2>1, <2>2 DEF Gone
<1>9. ASSUME NEW t \in Tasks, NEW d \in Docs, Settles(t, d) PROVE PageInv'
  <2>1. UNCHANGED <<page, lock, slugs, del>> /\ Histories
    BY <1>9 DEF Settles, Within
  <2>2. \A s \in Tasks, p \in Pages : Busy(s, p)' => batch'[s] = batch[s] /\ Busy(s, p)
    BY <1>9 DEF Settles, Within, Busy
  <2> QED
    BY <1>1, <2>1, <2>2 DEF Gone
<1>10. ASSUME NEW t \in Tasks, NEW d \in Docs, Retracts(t, d) \/ Skips(t, d) \/ Drains(t, d)
       PROVE PageInv'
  <2>1. UNCHANGED <<page, lock, slugs, del>> /\ Histories
    BY <1>10 DEF Retracts, Skips, Maps, Drains, Within
  <2>2. \A s \in Tasks, p \in Pages : Busy(s, p)' =>
          Busy(s, p) /\ batch'[s].base = batch[s].base /\ batch'[s].adds = batch[s].adds
    BY <1>10 DEF Retracts, Skips, Maps, Drains, Within, Busy
  <2> QED
    BY <1>1, <2>1, <2>2 DEF Gone
<1>11. ASSUME NEW t \in Tasks, NEW d \in Docs, Extracts(t, d) PROVE PageInv'
  <2> SUFFICES ASSUME NEW s \in Tasks, NEW p \in Pages PROVE Guarded(s, p)'
    BY DEF PageInv
  <2>1. UNCHANGED <<page, lock, slugs, del>> /\ Histories /\ ~Gone(d)
    BY <1>11 DEF Extracts, Maps, Within
  <2>2. Busy(s, p)' => Busy(s, p) /\ batch'[s].base = batch[s].base
    BY <1>11 DEF Extracts, Maps, Within, Busy
  <2>3. batch'[s].adds[p] \subseteq batch[s].adds[p] \cup {d}
    BY <1>0, <1>11 DEF Extracts, Maps, Within, AddTo
  <2>4. \A c : Gone(c)' <=> Gone(c)
    BY <2>1 DEF Gone
  <2> QED
    BY <1>0, <2>1, <2>2, <2>3, <2>4, GuardStays
<1> QED
  BY <1>3, <1>4, <1>5, <1>6, <1>7, <1>8, <1>9, <1>10, <1>11, Shapes, DeletionGuards, BegunGuards,
     EndedGuards

-----------------------------------------------------------------------------
(* A unit is released once                                                  *)

\* Nothing is released of the document.
LEMMA OnceStays ==
  ASSUME EditInv, DrainInv, Histories, NEW d \in Docs \ (replayed' \cup exposed'),
         drains'[d] = drains[d],
         drains[d] = 1 => \A t \in Tasks : MayDrain(t, d)' => MayDrain(t, d),
         IngestRows(d)' # {} => IngestRows(d) # {},
         \A t \in Tasks : at[t] = "work" /\ d \in batch[t].drained =>
           (at'[t] = "work" /\ d \in batch'[t].drained) \/ IngestRows(d)' = {}
  PROVE  Once(d)'
<1>1. Once(d)
  BY DEF DrainInv, Histories
<1>2. drains'[d] = 1 => \A t \in Tasks : ~MayDrain(t, d)'
  BY <1>1 DEF Once
<1>3. drains'[d] = 1 /\ IngestRows(d)' # {} =>
        \E t \in Tasks : at'[t] = "work" /\ d \in batch'[t].drained
  BY <1>1 DEF Once
<1> QED
  BY <1>1, <1>2, <1>3 DEF Once

\* Whoever may release a unit is at work on its document.
LEMMA DrainerWorks ==
  ASSUME EditInv, NEW t \in Tasks, NEW d \in Docs, MayDrain(t, d)
  PROVE  Works(t, d)
BY DEF MayDrain, Works, IsOp, DocsOf

\* The unit is released, by the one batch that may.
LEMMA Released ==
  ASSUME EditInv, DrainInv, Histories, NEW d \in Docs \ (replayed' \cup exposed'),
         NEW t \in Tasks, MayDrain(t, d), ~MayDrain(t, d)',
         \A s \in Tasks \ {t} : Bystander(s),
         drains'[d] = drains[d] \/ drains'[d] = drains[d] + 1,
         IngestRows(d)' # {} => at'[t] = "work" /\ d \in batch'[t].drained
  PROVE  Once(d)'
<1>1. Once(d) /\ drains[d] \in Nat /\ d \notin exposed
  BY EditFacts DEF DrainInv, Histories
<1>2. drains[d] = 0
  BY <1>1 DEF Once
<1>3. ASSUME NEW s \in Tasks \ {t}, MayDrain(s, d)' PROVE FALSE
  <2>1. MayDrain(s, d)
    BY <1>3 DEF Bystander, MayDrain, IsOp
  <2>2. Works(s, d) /\ Works(t, d)
    BY <2>1, DrainerWorks
  <2> QED
    BY <1>1, <2>2, EditFacts DEF SingleWorker
<1> QED
  BY <1>2, <1>3 DEF Once

\* Who has drained a document, or may drain it, has it among its operations.
LEMMA DrainedWorks ==
  ASSUME EditInv, NEW t \in Tasks, NEW d \in Docs, at[t] = "work", d \in batch[t].drained
  PROVE  IsOp(t, d, "ingest") /\ Works(t, d)
BY EditFacts DEF EditsSound, IsOp, Works, DocsOf

\* A claim takes no document whose unit was released.
LEMMA TakenOnce ==
  ASSUME EditInv, TypeOK', DrainInv, NEW t \in Tasks, Takes(t),
         NEW d \in Docs \ (replayed' \cup exposed')
  PROVE  Once(d)'
<1>1. Histories /\ UNCHANGED drains /\ d \notin exposed /\ \A s \in Tasks \ {t} : Bystander(s)
  BY DEF Takes, Histories, Bystander
<1>2. Once(d)
  BY DEF Takes, DrainInv
<1>3. ASSUME drains[d] = 1, MayDrain(t, d)' PROVE FALSE
  <2>1. PICK o \in batch'[t].ops : o.doc = d /\ o.op = "ingest"
    BY <1>3 DEF MayDrain, IsOp
  <2>2. PICK l \in LastOps({r \in rows : r.doc \in Chosen}) : Same(l, o)
    BY <2>1, TakenOps
  <2>3. l \in rows /\ l.doc = d /\ l.op = "ingest" /\ d \in Chosen
    BY <2>1, <2>2 DEF LastOps, Same
  <2>4. PICK s \in Tasks : at[s] = "work" /\ d \in batch[s].drained
    BY <1>2, <1>3, <2>3 DEF Once, IngestRows
  <2>5. Works(s, d)
    BY <2>4, DrainedWorks
  <2>6. PICK q \in batch[s].ops, r \in rows : q.doc = d /\ r.id = q.id /\ Claimed(r)
    BY <1>1, <2>5, EditFacts DEF Holds
  <2>7. r.doc = d
    BY <2>6, EditFacts DEF Sound
  <2> QED
    BY <2>3, <2>6, <2>7 DEF Chosen, Eligible
<1>4. drains[d] = 1 => \A s \in Tasks : MayDrain(s, d)' => MayDrain(s, d)
  BY <1>1, <1>3 DEF MayDrain, IsOp, Bystander
<1>5. IngestRows(d)' # {} => IngestRows(d) # {}
  BY DEF Takes, RowsCome, Came, Same, IngestRows
<1>6. \A s \in Tasks : at[s] = "work" => at'[s] = "work" /\ batch'[s] = batch[s]
  BY <1>1 DEF Takes, Bystander
<1> QED
  BY <1>1, <1>4, <1>5, <1>6, OnceStays

\* The row of a document that was drained leaves the queue with the batch.
LEMMA TrimmedOnce ==
  ASSUME EditInv, TypeOK', DrainInv, NEW t \in Tasks, Trims(t),
         NEW d \in Docs \ (replayed' \cup exposed')
  PROVE  Once(d)'
<1>1. /\ Histories /\ UNCHANGED drains /\ d \notin exposed /\ at[t] = "work" /\ at'[t] = "settle"
      /\ \A s \in Tasks \ {t} : batch'[s] = batch[s] /\ at'[s] = at[s]
      /\ batch'[t].ops = batch[t].ops /\ batch'[t].bad = batch[t].bad
  BY DEF Trims, Applied
<1>2. OpsSound(t) /\ EditsSound(t) /\ Sound(t) /\ Holds(t) /\ RowInv
  BY EditFacts
<1>3. ASSUME NEW s \in Tasks, MayDrain(s, d)' PROVE MayDrain(s, d)
  <2>1. CASE s = t
    BY <1>1, <1>2, <1>3, <2>1 DEF MayDrain, IsOp, EditsSound
  <2>2. CASE s # t
    BY <1>1, <1>3, <2>2 DEF MayDrain, IsOp
  <2> QED
    BY <2>1, <2>2
<1>4. rows' \subseteq rows
  BY DEF Trims
<1>5. ASSUME d \in batch[t].drained PROVE IngestRows(d)' = {}
  <2>1. rows' = {r \in rows : r.id \notin batch[t].ids \ Ids(BadOps(t))}
    BY <1>5 DEF Trims
  <2>2. IsOp(t, d, "ingest") /\ Works(t, d)
    BY <1>1, <1>5, DrainedWorks
  <2>3. PICK o \in batch[t].ops, r \in rows : o.doc = d /\ r.id = o.id
    BY <1>1, <1>2, <2>2 DEF Holds
  <2>4. o.op = "ingest" /\ r.doc = d /\ r.op = "ingest" /\ r.id \in batch[t].ids
    BY <1>2, <2>2, <2>3 DEF IsOp, OpsSound, Sound
  <2>5. r.id \notin Ids(BadOps(t))
    <3> SUFFICES ASSUME NEW x \in BadOps(t), x.id = r.id PROVE FALSE
      BY DEF Ids
    <3>1. x \in batch[t].ops /\ x.doc \in batch[t].bad
      BY DEF BadOps
    <3>2. x.doc = d
      BY <1>2, <2>4, <3>1 DEF Sound
    <3> QED
      BY <1>1, <1>2, <1>5, <3>1, <3>2 DEF EditsSound
  <2>6. \A q \in rows : q.doc = d /\ q.op = "ingest" => q.id = r.id
    BY <1>2, <2>4 DEF RowInv
  <2> QED
    BY <2>1, <2>4, <2>5, <2>6 DEF IngestRows
<1>6. IngestRows(d)' # {} => IngestRows(d) # {}
  BY <1>4 DEF IngestRows
<1>7. \A s \in Tasks : at[s] = "work" /\ d \in batch[s].drained =>
        (at'[s] = "work" /\ d \in batch'[s].drained) \/ IngestRows(d)' = {}
  BY <1>1, <1>5
<1> QED
  BY <1>1, <1>3, <1>6, <1>7, OnceStays

\* What a release does to the counts.
LEMMA DrainCounts ==
  ASSUME EditInv, NEW d \in Docs, Drain(d)
  PROVE  /\ \A c \in Docs \ {d} : drains'[c] = drains[c]
         /\ drains'[d] = drains[d] \/ drains'[d] = drains[d] + 1
BY EditFacts DEF Drain

\* A settlement releases the unit of the operation it archives.
LEMMA SettledOnce ==
  ASSUME EditInv, TypeOK', DrainInv, NEW t \in Tasks, NEW e \in Docs, Settles(t, e),
         NEW d \in Docs \ (replayed' \cup exposed')
  PROVE  Once(d)'
<1>1. /\ Histories /\ at[t] = "settle" /\ at' = at /\ RowsCome /\ e \in batch[t].bad
      /\ \A s \in Tasks \ {t} : batch'[s] = batch[s]
      /\ batch'[t].ops = batch[t].ops /\ batch'[t].bad = batch[t].bad \ {e}
  BY DEF Settles, Within
<1>2. OpsSound(t) /\ EditsSound(t) /\ Sound(t) /\ RowInv
  BY EditFacts
<1>3. ASSUME NEW s \in Tasks, MayDrain(s, d)' PROVE MayDrain(s, d)
  BY <1>1, <1>3 DEF MayDrain, IsOp
<1>4. IngestRows(d)' # {} => IngestRows(d) # {}
  BY <1>1 DEF RowsCome, Came, Same, IngestRows
<1>5. \A s \in Tasks : at[s] = "work" /\ d \in batch[s].drained =>
        at'[s] = "work" /\ d \in batch'[s].drained
  BY <1>1
<1>6. CASE drains'[d] = drains[d]
  BY <1>1, <1>3, <1>4, <1>5, <1>6, OnceStays
<1>7. CASE drains'[d] # drains[d]
  <2>1. /\ d = e /\ OpOf(t, d).op = "ingest" /\ Drain(d)
        /\ rows' = {x \in rows : x.id # OpOf(t, d).id} /\ \E x \in rows : x.id = OpOf(t, d).id
    BY <1>7, DrainCounts DEF Settles
  <2>2. d \in DocsOf(t)
    BY <1>1, <1>2, <2>1 DEF Sound
  <2>3. OpOf(t, d) \in batch[t].ops /\ OpOf(t, d).doc = d /\ IsOp(t, d, "ingest")
    BY <2>1, <2>2, OpIs
  <2>4. PICK x \in rows : x.id = OpOf(t, d).id /\ x.doc = d /\ x.op = "ingest"
    BY <1>2, <2>1, <2>3 DEF Sound
  <2>5. IngestRows(d)' = {}
    BY <1>2, <2>1, <2>4 DEF RowInv, IngestRows
  <2>6. MayDrain(t, d) /\ ~MayDrain(t, d)'
    BY <1>1, <2>1, <2>3 DEF MayDrain
  <2>7. \A s \in Tasks \ {t} : Bystander(s)
    BY <1>1 DEF Bystander
  <2> QED
    BY <1>1, <2>1, <2>5, <2>6, <2>7, DrainCounts, Released
<1> QED
  BY <1>6, <1>7

\* A batch at work releases the unit of a document that is gone, or all of
\* whose pages were applied.
LEMMA WorkedOnce ==
  ASSUME EditInv, TypeOK', DrainInv, NEW t \in Tasks,
         \/ \E e \in Docs : Retracts(t, e) \/ Skips(t, e) \/ Extracts(t, e) \/ Drains(t, e)
         \/ \E p \in Pages : Begins(t, p) \/ Ends(t, p),
         NEW d \in Docs \ (replayed' \cup exposed')
  PROVE  Once(d)'
<1>1. /\ Histories /\ at[t] = "work" /\ at' = at /\ UNCHANGED rows
      /\ \A s \in Tasks \ {t} : batch'[s] = batch[s]
      /\ batch'[t].ops = batch[t].ops
      /\ \A s \in Tasks \ {t} : Bystander(s)
  BY DEF Retracts, Skips, Extracts, Maps, Drains, Begins, Ends, Within, Applied, Bystander
<1>2. IngestRows(d)' = IngestRows(d)
  BY <1>1 DEF IngestRows
<1>3. CASE drains'[d] = drains[d] /\ batch[t].drained \subseteq batch'[t].drained
  <2>1. \A s \in Tasks : MayDrain(s, d)' => MayDrain(s, d)
    BY <1>1, <1>3 DEF MayDrain, IsOp
  <2>2. \A s \in Tasks : at[s] = "work" /\ d \in batch[s].drained =>
          at'[s] = "work" /\ d \in batch'[s].drained
    BY <1>1, <1>3
  <2> QED
    BY <1>1, <1>2, <1>3, <2>1, <2>2, OnceStays
<1>4. CASE Drain(d) /\ batch'[t].drained = batch[t].drained \cup {d} /\ IsOp(t, d, "ingest")
           /\ d \notin batch[t].drained
  <2>1. MayDrain(t, d) /\ ~MayDrain(t, d)'
    BY <1>1, <1>4 DEF MayDrain
  <2> QED
    BY <1>1, <1>4, <2>1, DrainCounts, Released
<1>5. ASSUME NEW e \in Docs, Skips(t, e) \/ Drains(t, e) PROVE Once(d)'
  <2>1. Drain(e) /\ batch'[t].drained = batch[t].drained \cup {e}
    BY <1>5 DEF Skips, Drains
  <2>2. IsOp(t, e, "ingest") /\ e \notin batch[t].drained
    <3>1. CASE Skips(t, e)
      <4>1. e \in DocsOf(t) /\ e \notin batch[t].mapped /\ OpOf(t, e).op = "ingest"
        BY <3>1 DEF Skips, Maps
      <4> QED
        BY <1>1, <4>1, OpIs, EditFacts DEF EditsSound
    <3>2. CASE Drains(t, e)
      BY <3>2 DEF Drains, Due, IsOp
    <3> QED
      BY <1>5, <3>1, <3>2
  <2>3. CASE d = e
    BY <1>4, <2>1, <2>2, <2>3
  <2>4. CASE d # e
    BY <1>3, <2>1, <2>4, DrainCounts
  <2> QED
    BY <2>3, <2>4
<1>6. ASSUME NEW e \in Docs, Retracts(t, e) \/ Extracts(t, e) PROVE Once(d)'
  BY <1>3, <1>6 DEF Retracts, Extracts
<1>7. ASSUME NEW p \in Pages, Begins(t, p) \/ Ends(t, p) PROVE Once(d)'
  BY <1>3, <1>7 DEF Begins, Ends
<1> QED
  BY <1>5, <1>6, <1>7

\* Every step releases a unit once.
LEMMA DrainStep ==
  ASSUME EditInv, TypeOK', DrainInv, Next
  PROVE  DrainInv'
<1> SUFFICES ASSUME NEW d \in Docs \ (replayed' \cup exposed') PROVE Once(d)'
  BY DEF DrainInv
<1>0. drains \in [Docs -> Nat]
  BY EditFacts
<1>1. CASE Calm
  <2>1. \A s \in Tasks : MayDrain(s, d)' => MayDrain(s, d)
    BY <1>1 DEF Calm, Bystander, Cleared, Blank, MayDrain, IsOp
  <2>2. IngestRows(d)' # {} => IngestRows(d) # {}
    BY <1>1 DEF Calm, RowsCome, Came, Same, IngestRows
  <2>3. \A s \in Tasks : at[s] = "work" /\ d \in batch[s].drained =>
          at'[s] = "work" /\ d \in batch'[s].drained
    BY <1>1 DEF Calm, Bystander
  <2> QED
    BY <1>1, <2>1, <2>2, <2>3, OnceStays DEF Calm
<1>2. ASSUME UNCHANGED <<batch, at>>, Histories, drains'[d] = drains[d],
             \A r \in rows' : r.doc = d /\ r.op = "ingest" => r \in rows
      PROVE Once(d)'
  <2>1. \A s \in Tasks : MayDrain(s, d)' => MayDrain(s, d)
    BY <1>2 DEF MayDrain, IsOp
  <2>2. IngestRows(d)' # {} => IngestRows(d) # {}
    BY <1>2 DEF IngestRows
  <2> QED
    BY <1>2, <2>1, <2>2, OnceStays
<1>3. ASSUME drains'[d] = 0 PROVE Once(d)'
  BY <1>3 DEF Once
<1>4. ASSUME NEW e \in Docs, Seed(e) PROVE Once(d)'
  <2>1. UNCHANGED <<batch, at>> /\ Histories /\ drains' = [drains EXCEPT ![e] = 0]
    BY <1>4 DEF Seed, ghosts, Histories
  <2>2. e # d => \A r \in rows' : r.doc = d => r \in rows
    BY <1>4 DEF Seed, Insert
  <2> QED
    BY <1>0, <1>2, <1>3, <2>1, <2>2
<1>5. ASSUME NEW e \in Docs, Reparse(e) PROVE Once(d)'
  <2>1. UNCHANGED <<batch, at>> /\ Histories /\ drains' = [drains EXCEPT ![e] = 0] /\ rows' \subseteq rows
    BY <1>5 DEF Reparse, Scrub, Histories
  <2> QED
    BY <1>0, <1>2, <1>3, <2>1
<1>6. ASSUME NEW e \in Docs,
             DeleteMark(e) \/ DeleteScrub(e) \/ DeleteList(e) \/ \E p \in Pages : DeleteFromPage(e, p)
      PROVE Once(d)'
  <2>1. UNCHANGED <<batch, at, drains>> /\ Histories /\ rows' \subseteq rows
    BY <1>6 DEF DeleteMark, DeleteScrub, DeleteList, DeleteFromPage, Scrub, table, docs, ghosts, Histories
  <2> QED
    BY <1>2, <2>1
<1>7. ASSUME NEW e \in Docs, DeleteRetract(e) PROVE Once(d)'
  <2>1. UNCHANGED <<batch, at, drains>> /\ Histories
    BY <1>7 DEF DeleteRetract, docs, Histories
  <2>2. \A r \in rows' : r.op = "ingest" => r \in rows
    BY <1>7 DEF DeleteRetract, Insert, table
  <2> QED
    BY <1>2, <2>1, <2>2
<1> QED
  BY <1>1, <1>4, <1>5, <1>6, <1>7, Shapes, TakenOnce, TrimmedOnce, SettledOnce, WorkedOnce


-----------------------------------------------------------------------------
(* What a step leaves of the rows that are pending                          *)

\* The row that is pending for the page is there and still is.
Carried(r, p) == \E q \in rows' : Came(r, q) /\ Pending(q, p)'

\* A batch that the step does not touch, or that has claimed nothing now.
LEMMA EditsAlone ==
  ASSUME NEW s \in Tasks, NEW r, NEW q, NEW p \in Pages, Bystander(s) \/ Cleared(s),
         Came(r, q), Edits(s, r, p)
  PROVE  Edits(s, q, p)'
<1>1. q.id = r.id /\ q.doc = r.doc
  BY DEF Came, Same
<1>2. CASE Cleared(s)
  BY <1>2 DEF Cleared, Blank, Edits
<1>3. CASE Bystander(s)
  BY <1>1, <1>3 DEF Bystander, Edits
<1> QED
  BY <1>2, <1>3

\* Nothing happens to batches, and the row stays.
LEMMA CarriedAlone ==
  ASSUME NEW r \in rows, NEW p \in Pages, Pending(r, p), r \in rows',
         \A s \in Tasks : Bystander(s) \/ Cleared(s)
  PROVE  Carried(r, p)
<1>1. Came(r, r)
  BY DEF Came, Same
<1>2. \A s \in Tasks : Edits(s, r, p)'
  BY <1>1, EditsAlone DEF Pending
<1> QED
  BY <1>1, <1>2 DEF Carried, Pending

\* Tasks come and go, and so do claims.
LEMMA CarriedCalm ==
  ASSUME Calm, NEW r \in rows, NEW p \in Pages, Pending(r, p)
  PROVE  Carried(r, p)
<1>1. PICK q \in rows' : Came(r, q)
  BY DEF Calm, RowsStay
<1>2. \A s \in Tasks : Edits(s, q, p)'
  BY <1>1, EditsAlone DEF Pending, Calm
<1> QED
  BY <1>1, <1>2 DEF Carried, Pending

\* A row that comes in was claimed by nobody.
LEMMA FreshPends ==
  ASSUME EditInv, UNCHANGED <<batch, at>>, NEW q, q.id = lastId + 1, NEW p \in Pages
  PROVE  Pending(q, p)'
<1> SUFFICES ASSUME NEW s \in Tasks, q.id \in batch[s].ids PROVE FALSE
  BY DEF Pending, Edits
<1>1. q.id \in 1 .. lastId /\ lastId \in Nat
  BY EditFacts DEF Sound
<1> QED
  BY <1>1

\* Who claims the last row of a document edits its pages.
LEMMA CarriedTaken ==
  ASSUME EditInv, NEW t \in Tasks, Takes(t), NEW r \in rows, NEW p \in Pages, Pending(r, p),
         \A q \in rows : q.doc = r.doc => q.id <= r.id
  PROVE  Carried(r, p)
<1> DEFINE taken == {x \in rows : x.doc \in Chosen}
<1>0. OneOpPerId /\ r.id \in Nat
  BY EditFacts, RowFields
<1>1. PICK q \in rows' : Came(r, q)
  BY DEF Takes, RowsStay
<1>2. q.id = r.id /\ q.doc = r.doc
  BY <1>1 DEF Came, Same
<1>3. \A s \in Tasks \ {t} : Edits(s, q, p)'
  BY <1>1, EditsAlone DEF Pending, Takes, Bystander
<1>4. ASSUME r.id \in Ids(taken) PROVE r.id \in Ids(LastOps(taken))
  <2>1. PICK x \in taken : x.id = r.id
    BY <1>4 DEF Ids
  <2>2. x.doc = r.doc
    BY <1>0, <2>1 DEF OneOpPerId
  <2>3. r \in LastOps(taken)
    BY <2>1, <2>2 DEF LastOps
  <2> QED
    BY <2>3 DEF Ids
<1>5. Edits(t, q, p)'
  <2> SUFFICES ASSUME q.id \in batch'[t].ids
               PROVE  /\ \E o \in batch'[t].ops : o.id = q.id
                      /\ q.doc \notin batch'[t].mapped
    BY DEF Edits
  <2>1. q.id \in Ids(LastOps(taken))
    BY <1>2, <1>4 DEF Takes
  <2> QED
    BY <2>1 DEF Takes
<1> QED
  BY <1>1, <1>3, <1>5 DEF Carried, Pending

\* A batch that has a row among its claims has the row's operation.
LEMMA RowEdits ==
  ASSUME EditInv, NEW t \in Tasks, NEW r \in rows, NEW p \in Pages, Edits(t, r, p),
         r.id \in batch[t].ids
  PROVE  /\ IsOp(t, r.doc, r.op) /\ r.doc \in DocsOf(t)
         /\ at[t] = "work" /\ r.doc \in batch[t].mapped =>
              \/ r.doc \in batch[t].bad
              \/ r.op = "ingest" /\ r.doc \in batch[t].adds[p] /\ r.doc \notin batch[t].rets[p]
              \/ r.op = "retract" /\ r.doc \in batch[t].rets[p] /\ r.doc \notin batch[t].adds[p]
<1>1. PICK o \in batch[t].ops : o.id = r.id
  BY DEF Edits
<1>2. o.doc = r.doc /\ o.op = r.op
  BY <1>1, EditFacts DEF Sound
<1>3. IsOp(t, r.doc, r.op) /\ r.doc \in DocsOf(t)
  BY <1>1, <1>2 DEF IsOp, DocsOf
<1>4. \A op : IsOp(t, r.doc, op) => op = r.op
  BY <1>1, <1>2, EditFacts DEF IsOp, OpsSound
<1>5. ASSUME at[t] = "work", r.doc \in batch[t].mapped
      PROVE  \/ r.doc \in batch[t].bad
             \/ r.op = "ingest" /\ r.doc \in batch[t].adds[p] /\ r.doc \notin batch[t].rets[p]
             \/ r.op = "retract" /\ r.doc \in batch[t].rets[p] /\ r.doc \notin batch[t].adds[p]
  <2>1. r.doc \in batch[t].adds[p] => r.op = "ingest"
    BY <1>4, <1>5, EditFacts DEF EditsSound
  <2>2. r.doc \in batch[t].rets[p] => r.op = "retract"
    BY <1>4, <1>5, EditFacts DEF EditsSound
  <2> QED
    BY <1>5, <2>1, <2>2 DEF Edits
<1> QED
  BY <1>3, <1>5

\* A batch trims no row of a document that could not be applied.
LEMMA CarriedTrimmed ==
  ASSUME EditInv, NEW t \in Tasks, Trims(t), NEW r \in rows, NEW p \in Pages, Pending(r, p)
  PROVE  Carried(r, p)
<1>1. /\ at[t] = "work" /\ at'[t] = "settle" /\ Unmapped(t) = {} /\ Todo(t) = {}
      /\ batch'[t].ids = batch[t].ids /\ batch'[t].ops = batch[t].ops
      /\ \A s \in Tasks \ {t} : Bystander(s)
  BY DEF Trims, Applied, Bystander
<1>2. Came(r, r) /\ Edits(t, r, p)
  BY DEF Came, Same, Pending
<1>3. r \in rows'
  <2> SUFFICES ASSUME r.id \in batch[t].ids, r.id \notin Ids(BadOps(t)) PROVE FALSE
    BY DEF Trims
  <2>1. r.doc \in batch[t].mapped
    BY <1>1, <1>2, RowEdits DEF Unmapped
  <2>2. batch[t].adds[p] = {} /\ batch[t].rets[p] = {}
    BY <1>1 DEF Todo
  <2>3. r.doc \in batch[t].bad
    BY <1>1, <1>2, <2>1, <2>2, RowEdits
  <2>4. PICK o \in batch[t].ops : o.id = r.id
    BY <1>2 DEF Edits
  <2>5. o.doc = r.doc
    BY <2>4, EditFacts DEF Sound
  <2> QED
    BY <2>3, <2>4, <2>5 DEF BadOps, Ids
<1>4. Edits(t, r, p)'
  BY <1>1, <1>2 DEF Edits
<1>5. \A s \in Tasks \ {t} : Edits(s, r, p)'
  BY <1>1, <1>2, EditsAlone DEF Pending
<1> QED
  BY <1>2, <1>3, <1>4, <1>5 DEF Carried, Pending

\* A settlement gives the row back, or gives it up.
LEMMA CarriedSettled ==
  ASSUME EditInv, NEW t \in Tasks, NEW e \in Docs, Settles(t, e),
         NEW r \in rows, r.doc \notin dropped', NEW p \in Pages, Pending(r, p)
  PROVE  Carried(r, p)
<1>1. /\ at[t] = "settle" /\ at'[t] = "settle" /\ e \in batch[t].bad
      /\ batch'[t].ids = batch[t].ids /\ batch'[t].ops = batch[t].ops
      /\ \A s \in Tasks \ {t} : Bystander(s)
  BY DEF Settles, Within, Bystander
<1>2. e \in dropped' => r.id # OpOf(t, e).id
  <2>1. OpOf(t, e) \in batch[t].ops /\ OpOf(t, e).doc = e
    BY <1>1, OpIs, EditFacts DEF Sound
  <2> QED
    BY <2>1, EditFacts DEF Sound
<1>3. PICK q \in rows' : Came(r, q)
  BY <1>2 DEF Settles, RowsStay, Came, Same
<1>4. Edits(t, q, p)'
  BY <1>1, <1>3 DEF Pending, Edits, Came, Same
<1>5. \A s \in Tasks \ {t} : Edits(s, q, p)'
  BY <1>1, <1>3, EditsAlone DEF Pending
<1> QED
  BY <1>3, <1>4, <1>5 DEF Carried, Pending

\* While a batch works the rows stay; what matters are its own edits.
LEMMA CarriedWithin ==
  ASSUME NEW t \in Tasks, Within(t), UNCHANGED rows, NEW r \in rows, NEW p \in Pages,
         Pending(r, p),
         r.id \in batch[t].ids /\ at[t] = "work" /\ r.doc \in batch'[t].mapped =>
           r.doc \in batch'[t].bad \cup batch'[t].adds[p] \cup batch'[t].rets[p]
  PROVE  Carried(r, p)
<1>1. Came(r, r) /\ Edits(t, r, p)
  BY DEF Came, Same, Pending
<1>2. Edits(t, r, p)'
  BY <1>1 DEF Edits, Within
<1>3. \A s \in Tasks \ {t} : Edits(s, r, p)'
  BY <1>1, WithinOthers, EditsAlone DEF Pending
<1> QED
  BY <1>1, <1>2, <1>3 DEF Carried, Pending

\* A batch maps another document, or releases a unit.
LEMMA CarriedMapped ==
  ASSUME EditInv, NEW t \in Tasks, NEW e \in Docs,
         Retracts(t, e) \/ Skips(t, e) \/ Extracts(t, e) \/ Drains(t, e),
         NEW r \in rows, r.doc # e \/ Drains(t, e), NEW p \in Pages, Pending(r, p)
  PROVE  Carried(r, p)
<1>0. batch[t].adds \in [Pages -> SUBSET Docs] /\ batch[t].rets \in [Pages -> SUBSET Docs]
  BY EditFacts, BatchOf, BatchFields
<1>1. Within(t) /\ UNCHANGED rows
  BY DEF Retracts, Skips, Extracts, Maps, Drains
<1>2. batch'[t].mapped = batch[t].mapped \/ (batch'[t].mapped = batch[t].mapped \cup {e} /\ r.doc # e)
  BY DEF Retracts, Skips, Extracts, Maps, Drains
<1>3. /\ batch[t].bad \subseteq batch'[t].bad
      /\ batch[t].adds[p] \subseteq batch'[t].adds[p]
      /\ batch[t].rets[p] \subseteq batch'[t].rets[p]
  BY <1>0 DEF Retracts, Skips, Extracts, Drains, AddTo
<1> QED
  BY <1>1, <1>2, <1>3, CarriedWithin DEF Pending, Edits

\* A page is begun: documents that are gone are not added to it.
LEMMA CarriedBegun ==
  ASSUME EditInv, NEW t \in Tasks, NEW q \in Pages, Begins(t, q),
         NEW r \in rows, ~Gone(r.doc) \/ r.op = "retract", NEW p \in Pages, Pending(r, p)
  PROVE  Carried(r, p)
<1>0. batch[t].adds \in [Pages -> SUBSET Docs]
  BY EditFacts, BatchOf, BatchFields
<1>1. Within(t) /\ UNCHANGED rows
  BY DEF Begins
<1>2. /\ batch'[t].mapped = batch[t].mapped /\ batch'[t].bad = batch[t].bad
      /\ batch'[t].rets = batch[t].rets
      /\ batch'[t].adds[p] = IF p = q THEN {d \in batch[t].adds[p] : ~Gone(d)} ELSE batch[t].adds[p]
  BY <1>0 DEF Begins
<1>3. Edits(t, r, p)
  BY DEF Pending
<1>4. ASSUME r.id \in batch[t].ids, at[t] = "work", r.doc \in batch[t].mapped
      PROVE  r.doc \in batch'[t].bad \cup batch'[t].adds[p] \cup batch'[t].rets[p]
  BY <1>2, <1>3, <1>4, RowEdits
<1> QED
  BY <1>1, <1>2, <1>4, CarriedWithin

\* A page is over: the edits of the document were made there, or the row is
\* still pending.
LEMMA CarriedEnded ==
  ASSUME EditInv, NEW t \in Tasks, NEW q \in Pages, Ends(t, q),
         NEW r \in rows, NEW p \in Pages, Pending(r, p)
  PROVE  \/ Carried(r, p)
         \/ /\ p = q /\ at[t] = "work" /\ batch'[t].bad = batch[t].bad
            /\ IsOp(t, r.doc, r.op)
            /\ \/ r.op = "ingest" /\ r.doc \in batch[t].adds[p] /\ r.doc \notin batch[t].rets[p]
               \/ r.op = "retract" /\ r.doc \in batch[t].rets[p] /\ r.doc \notin batch[t].adds[p]
<1>0. batch[t].adds \in [Pages -> SUBSET Docs] /\ batch[t].rets \in [Pages -> SUBSET Docs]
  BY EditFacts, BatchOf, BatchFields
<1>1. Within(t) /\ UNCHANGED rows /\ at[t] = "work"
  BY DEF Ends
<1>2. /\ batch'[t].mapped = batch[t].mapped
      /\ \/ batch'[t].bad = batch[t].bad
         \/ batch'[t].bad = batch[t].bad \cup batch[t].adds[q] \cup batch[t].rets[q]
      /\ p # q => batch'[t].adds[p] = batch[t].adds[p] /\ batch'[t].rets[p] = batch[t].rets[p]
  BY <1>0 DEF Ends
<1>3. Edits(t, r, p)
  BY DEF Pending
<1>4. CASE r.id \notin batch[t].ids \/ r.doc \notin batch[t].mapped
           \/ r.doc \in batch'[t].bad \/ p # q
  <2>1. ASSUME r.id \in batch[t].ids, r.doc \in batch[t].mapped
        PROVE  r.doc \in batch'[t].bad \cup batch'[t].adds[p] \cup batch'[t].rets[p]
    BY <1>1, <1>2, <1>3, <1>4, <2>1, RowEdits
  <2> QED
    BY <1>1, <1>2, <2>1, CarriedWithin
<1>5. CASE /\ r.id \in batch[t].ids /\ r.doc \in batch[t].mapped
           /\ r.doc \notin batch'[t].bad /\ p = q
  BY <1>1, <1>2, <1>3, <1>5, RowEdits
<1> QED
  BY <1>4, <1>5

-----------------------------------------------------------------------------
(* A document that was handed over lands                                    *)

\* What is on a page stays, for a document that is not deleted: pages are
\* written under their lock.
LEMMA OnStays ==
  ASSUME EditInv, TypeOK', PageInv, Next, NEW d \in Docs, NEW p \in Pages \ unguarded',
         ~Gone(d), On(d, p)
  PROVE  On(d, p)'
<1>0. page \in [Pages -> {NoPage} \cup SUBSET Docs]
  BY EditFacts
<1>1. CASE UNCHANGED page
  BY <1>1 DEF On
<1>2. CASE Calm
  BY <1>1, <1>2 DEF Calm
<1>3. ASSUME NEW e \in Docs, \/ Seed(e) \/ Reparse(e) \/ DeleteMark(e) \/ DeleteScrub(e)
                             \/ DeleteList(e) \/ DeleteRetract(e)
      PROVE UNCHANGED page
  BY <1>3 DEF Seed, Reparse, DeleteMark, DeleteScrub, DeleteList, DeleteRetract, wiki
<1>4. ASSUME NEW e \in Docs, NEW q \in Pages, DeleteFromPage(e, q) PROVE On(d, p)'
  <2>1. e # d
    BY <1>4 DEF DeleteFromPage, Gone
  <2>2. CASE q # p
    BY <1>0, <1>4, <2>2 DEF DeleteFromPage, On
  <2>3. CASE q = p
    <3>1. page[p] = snap[e][p]
      BY <1>4, <2>3 DEF DeleteFromPage
    <3>2. page[p] \ {e} \in SUBSET Docs /\ d \in page[p] \ {e} /\ page[p] # NoPage
      BY <1>0, <2>1 DEF On
    <3>3. page'[p] = page[p] \ {e}
      BY <1>0, <1>4, <2>3, <3>1, <3>2 DEF DeleteFromPage
    <3>4. page'[p] # NoPage
      BY <3>2, <3>3, NamesAssumption
    <3> QED
      BY <3>2, <3>3, <3>4 DEF On
  <2> QED
    BY <2>2, <2>3
<1>5. ASSUME NEW t \in Tasks, \/ Takes(t) \/ Trims(t)
                              \/ \E e \in Docs : \/ Retracts(t, e) \/ Skips(t, e) \/ Extracts(t, e)
                                                 \/ Drains(t, e) \/ Settles(t, e)
                              \/ \E q \in Pages : Begins(t, q)
      PROVE UNCHANGED page
  BY <1>5 DEF Takes, Trims, Retracts, Skips, Extracts, Maps, Drains, Settles, Begins
<1>6. ASSUME NEW t \in Tasks, NEW q \in Pages, Ends(t, q) PROVE On(d, p)'
  <2> DEFINE b == batch[t]
             new == (IF b.base[p] = NoPage THEN {} ELSE b.base[p] \ b.rets[p]) \cup b.adds[p]
  <2>0. /\ b.adds[p] \in SUBSET Docs /\ b.base[p] \in {NoPage} \cup SUBSET Docs
        /\ p \notin unguarded
    BY <1>6, EditFacts, BatchOf, BatchFields DEF Ends, Within, Histories
  <2>1. SUFFICES ASSUME page' # page, q = p PROVE On(d, p)'
    BY <1>0, <1>1, <1>6 DEF Ends, On
  <2>2. /\ page'[p] = new /\ Busy(t, p) /\ at[t] = "work" /\ (b.base[p] = NoPage <=> page[p] = NoPage)
    BY <1>0, <1>6, <2>1 DEF Ends, Busy
  <2>3. b.base[p] # NoPage /\ d \in b.base[p]
    BY <2>0, <2>2 DEF PageInv, Guarded, On
  <2>4. d \notin b.rets[p]
    <3> SUFFICES ASSUME d \in b.rets[p] PROVE FALSE
      OBVIOUS
    <3>1. IsOp(t, d, "retract")
      BY <2>2, EditFacts DEF EditsSound
    <3> QED
      BY <3>1, EditFacts DEF IsOp, OpsSound, Retracting, Gone
  <2>5. d \in new /\ new \in SUBSET Docs
    BY <2>0, <2>3, <2>4
  <2>6. new # NoPage
    BY <2>5, NamesAssumption
  <2> QED
    BY <2>2, <2>5, <2>6 DEF On
<1> QED
  BY <1>1, <1>2, <1>3, <1>4, <1>5, <1>6, Shapes

\* The row of a document that was handed over is carried on, or its edits are
\* made.
LEMMA LandingRow ==
  ASSUME EditInv, TypeOK', Next, Histories,
         NEW d \in Docs \ dropped', NEW p \in Pages \ unguarded', p \in Contrib[d],
         stage[d] # "parsing", stage'[d] # "parsing", ~Gone(d),
         NEW r \in IngestRows(d), Pending(r, p)
  PROVE  On(d, p)' \/ Carried(r, p)
<1>0. r \in rows /\ r.doc = d /\ r.op = "ingest"
  BY DEF IngestRows
<1>1. CASE Calm
  BY <1>0, <1>1, CarriedCalm
<1>2. ASSUME UNCHANGED <<batch, at>>, r \in rows' PROVE Carried(r, p)
  BY <1>0, <1>2, CarriedAlone DEF Bystander
<1>3. ASSUME NEW e \in Docs, Seed(e) \/ DeleteRetract(e) PROVE Carried(r, p)
  BY <1>0, <1>2, <1>3 DEF Seed, DeleteRetract, Insert, table
<1>4. ASSUME NEW e \in Docs, Reparse(e) \/ (DeleteScrub(e) /\ Scrub(e)) PROVE Carried(r, p)
  <2>1. UNCHANGED <<batch, at>> /\ Scrub(e)
    BY <1>4 DEF Reparse, DeleteScrub
  <2>2. e # d
    BY <1>4, EditFacts DEF Reparse, DeleteScrub, Gone
  <2> QED
    BY <1>0, <1>2, <2>1, <2>2 DEF Scrub, IngestRows
<1>5. ASSUME NEW e \in Docs, DeleteMark(e) \/ DeleteList(e) \/ \E q \in Pages : DeleteFromPage(e, q)
      PROVE Carried(r, p)
  BY <1>0, <1>2, <1>5 DEF DeleteMark, DeleteList, DeleteFromPage, table
<1>6. ASSUME NEW t \in Tasks, Takes(t) PROVE Carried(r, p)
  <2>1. \A q \in rows : q.doc = r.doc => q.id = r.id
    BY <1>0, EditFacts DEF RowSound
  <2>2. r.id \in Nat
    BY <1>0, EditFacts, RowFields
  <2> QED
    BY <1>0, <1>6, <2>1, <2>2, CarriedTaken
<1>7. ASSUME NEW t \in Tasks, Trims(t) PROVE Carried(r, p)
  BY <1>0, <1>7, CarriedTrimmed
<1>8. ASSUME NEW t \in Tasks, NEW e \in Docs, Settles(t, e) PROVE Carried(r, p)
  BY <1>0, <1>8, CarriedSettled
<1>9. ASSUME NEW t \in Tasks, NEW e \in Docs,
             Retracts(t, e) \/ Skips(t, e) \/ Extracts(t, e) \/ Drains(t, e)
      PROVE Carried(r, p)
  <2>1. CASE e # d \/ Drains(t, e)
    BY <1>0, <1>9, <2>1, CarriedMapped
  <2>2. CASE Retracts(t, d)
    <3>1. OpOf(t, d).op = "retract" /\ d \in DocsOf(t)
      BY <2>2 DEF Retracts, Maps
    <3>2. OpOf(t, d) \in batch[t].ops /\ OpOf(t, d).doc = d
      BY <3>1, OpIs
    <3>3. Gone(d)
      BY <3>1, <3>2, EditFacts DEF OpsSound, Retracting, Gone
    <3> QED
      BY <3>3
  <2>3. CASE Skips(t, d)
    BY <2>3 DEF Skips
  <2>4. CASE Extracts(t, d)
    <3>1. Within(t) /\ UNCHANGED rows
      BY <2>4 DEF Extracts, Maps
    <3>2. d \in batch'[t].bad \cup batch'[t].adds[p]
      BY <2>4 DEF Extracts, AddTo
    <3> QED
      BY <1>0, <3>1, <3>2, CarriedWithin
  <2> QED
    BY <1>9, <2>1, <2>2, <2>3, <2>4
<1>10. ASSUME NEW t \in Tasks, NEW q \in Pages, Begins(t, q) PROVE Carried(r, p)
  BY <1>0, <1>10, CarriedBegun
<1>11. ASSUME NEW t \in Tasks, NEW q \in Pages, Ends(t, q), ~Carried(r, p) PROVE On(d, p)'
  <2> DEFINE b == batch[t]
             new == (IF b.base[p] = NoPage THEN {} ELSE b.base[p] \ b.rets[p]) \cup b.adds[p]
  <2>0. /\ b.adds[p] \in SUBSET Docs /\ b.base[p] \in {NoPage} \cup SUBSET Docs
        /\ page \in [Pages -> {NoPage} \cup SUBSET Docs]
    BY EditFacts, BatchOf, BatchFields
  <2>1. /\ p = q /\ at[t] = "work" /\ IsOp(t, d, "ingest") /\ batch'[t].bad = b.bad /\ d \in b.adds[p]
    BY <1>0, <1>11, CarriedEnded
  <2>2. CASE d \in b.bad
    <3>1. Within(t) /\ UNCHANGED rows
      BY <1>11 DEF Ends
    <3> QED
      BY <1>0, <1>11, <2>1, <2>2, <3>1, CarriedWithin
  <2>3. CASE d \notin b.bad
    <3>1. page' = [page EXCEPT ![p] = new]
      BY <1>11, <2>1, <2>3 DEF Ends
    <3>2. page'[p] = new /\ d \in new /\ new \in SUBSET Docs
      BY <2>0, <2>1, <3>1
    <3>3. new # NoPage
      BY <3>2, NamesAssumption
    <3> QED
      BY <3>2, <3>3 DEF On
  <2> QED
    BY <2>2, <2>3
<1> QED
  BY <1>1, <1>3, <1>4, <1>5, <1>6, <1>7, <1>8, <1>9, <1>10, <1>11, Shapes

\* What is remembered of an edit that was given up is not forgotten.
LEMMA HistoryStep ==
  ASSUME EditInv, TypeOK', Next
  PROVE  Histories
<1>1. ASSUME NEW d \in Docs, Seed(d) \/ DeleteList(d) PROVE Histories
  BY <1>1 DEF Seed, DeleteList, ghosts, Histories
<1>2. ASSUME NEW d \in Docs, Reparse(d) \/ DeleteMark(d) \/ DeleteScrub(d) PROVE Histories
  BY <1>2 DEF Reparse, DeleteMark, DeleteScrub, Histories
<1>3. ASSUME NEW d \in Docs, DeleteRetract(d) \/ \E p \in Pages : DeleteFromPage(d, p) PROVE Histories
  BY <1>3 DEF DeleteRetract, DeleteFromPage, Histories
<1>4. ASSUME NEW t \in Tasks,
             \/ Takes(t) \/ Trims(t)
             \/ \E d \in Docs : \/ Retracts(t, d) \/ Skips(t, d) \/ Extracts(t, d)
                                \/ Drains(t, d) \/ Settles(t, d)
             \/ \E p \in Pages : Begins(t, p) \/ Ends(t, p)
      PROVE Histories
  BY <1>4 DEF Takes, Trims, Retracts, Skips, Extracts, Maps, Drains, Settles, Begins, Ends, Within,
              Histories
<1> QED
  BY <1>1, <1>2, <1>3, <1>4, Shapes DEF Calm

\* A document that is handed over has a row that nobody has claimed.
LEMMA HandedOver ==
  ASSUME EditInv, TypeOK', Next, NEW d \in Docs, stage[d] = "parsing", stage'[d] # "parsing"
  PROVE  Seed(d)
<1>0. stage \in [Docs -> {"parsing", "seeded", "handed"}]
  BY EditFacts
<1>1. CASE Calm
  BY <1>1 DEF Calm
<1>2. ASSUME NEW e \in Docs, e # d, Seed(e) PROVE FALSE
  BY <1>0, <1>2 DEF Seed
<1>3. ASSUME NEW e \in Docs, Reparse(e) PROVE FALSE
  BY <1>0, <1>3 DEF Reparse
<1>4. ASSUME NEW e \in Docs, \/ DeleteMark(e) \/ DeleteScrub(e) \/ DeleteList(e) \/ DeleteRetract(e)
                             \/ \E q \in Pages : DeleteFromPage(e, q)
      PROVE UNCHANGED stage
  BY <1>4 DEF DeleteMark, DeleteScrub, DeleteList, DeleteRetract, DeleteFromPage, docs
<1>5. ASSUME NEW t \in Tasks,
             \/ Takes(t) \/ Trims(t)
             \/ \E e \in Docs : \/ Retracts(t, e) \/ Skips(t, e) \/ Extracts(t, e)
                                \/ Drains(t, e) \/ Settles(t, e)
             \/ \E q \in Pages : Begins(t, q) \/ Ends(t, q)
      PROVE UNCHANGED stage
  BY <1>5 DEF Takes, Trims, Retracts, Skips, Extracts, Maps, Drains, Settles, Begins, Ends, Within
<1> QED
  BY <1>1, <1>2, <1>3, <1>4, <1>5, Shapes

\* Every step keeps a document on its pages, or a row that is pending.
LEMMA LandsStep ==
  ASSUME EditInv, TypeOK', PageInv, Lands, Next
  PROVE  Lands'
<1> SUFFICES ASSUME NEW d \in Docs \ dropped', NEW p \in Contrib[d] \ unguarded',
                    stage'[d] # "parsing", ~Gone(d)'
             PROVE  On(d, p)' \/ \E q \in IngestRows(d)' : Pending(q, p)'
  BY DEF Lands, Landing
<1>0. Histories /\ DelGoes /\ p \in Pages
  BY HistoryStep, DelStep, NamesAssumption
<1>1. ~Gone(d) /\ d \notin dropped /\ p \notin unguarded
  BY <1>0 DEF DelGoes, Histories
<1>2. ASSUME NEW r \in IngestRows(d), Carried(r, p)
      PROVE  \E q \in IngestRows(d)' : Pending(q, p)'
  BY <1>2 DEF Carried, IngestRows, Came, Same
<1>3. CASE stage[d] = "parsing"
  <2> DEFINE new == [id |-> lastId + 1, doc |-> d, op |-> "ingest", slugs |-> {},
                     claim |-> "free", fails |-> 0]
  <2>1. Seed(d)
    BY <1>3, HandedOver
  <2>2. new \in rows' /\ UNCHANGED <<batch, at>>
    BY <2>1 DEF Seed, Insert
  <2>3. new.id = lastId + 1 /\ new.doc = d /\ new.op = "ingest"
    OBVIOUS
  <2> HIDE DEF new
  <2> QED
    BY <1>0, <2>2, <2>3, FreshPends DEF IngestRows
<1>4. CASE stage[d] # "parsing"
  <2>1. Landing(d, p)
    BY <1>1 DEF Lands
  <2> QED
    BY <1>0, <1>1, <1>2, <1>4, <2>1, OnStays, LandingRow DEF Landing
<1> QED
  BY <1>3, <1>4

-----------------------------------------------------------------------------
(* A deleted document leaves its pages                                      *)

\* A document gets onto a page, or into what a batch has read of it, while it
\* is not deleted.
LEMMA TraceBack ==
  ASSUME EditInv, TypeOK', PageInv, Next, Histories,
         NEW d \in Docs \ crossed', NEW p \in Pages \ unguarded', Gone(d), Trace(d, p)'
  PROVE  Trace(d, p)
<1>0. /\ page \in [Pages -> {NoPage} \cup SUBSET Docs]
      /\ d \notin crossed /\ p \notin unguarded
      /\ \A s \in Tasks : /\ batch[s].adds \in [Pages -> SUBSET Docs]
                          /\ batch[s].rets \in [Pages -> SUBSET Docs]
                          /\ batch[s].base \in [Pages -> {NoPage} \cup SUBSET Docs]
  BY EditFacts, BatchOf, BatchFields DEF Histories
<1>1. ASSUME On(d, p)' => Trace(d, p), Based(d, p)' => Trace(d, p) PROVE Trace(d, p)
  BY <1>1 DEF Trace
<1>2. page'[p] = page[p] => (On(d, p)' => Trace(d, p))
  BY DEF On, Trace
<1>3. ASSUME \A s \in Tasks : Busy(s, p)' => /\ Busy(s, p) /\ batch'[s].base[p] = batch[s].base[p]
                                             /\ batch[s].rets[p] \subseteq batch'[s].rets[p]
      PROVE  Based(d, p)' => Trace(d, p)
  BY <1>3 DEF Based, Trace
<1>4. CASE Calm
  <2>1. \A s \in Tasks : Busy(s, p)' => Busy(s, p) /\ batch'[s] = batch[s]
    BY <1>4 DEF Calm, Bystander, Cleared, Busy
  <2> QED
    BY <1>1, <1>2, <1>3, <1>4, <2>1 DEF Calm
<1>5. ASSUME UNCHANGED <<batch, at>> PROVE Based(d, p)' => Trace(d, p)
  BY <1>3, <1>5 DEF Busy
<1>6. ASSUME NEW e \in Docs, \/ Seed(e) \/ Reparse(e) \/ DeleteMark(e) \/ DeleteScrub(e)
                             \/ DeleteList(e) \/ DeleteRetract(e)
      PROVE Trace(d, p)
  BY <1>1, <1>2, <1>5, <1>6
  DEF Seed, Reparse, DeleteMark, DeleteScrub, DeleteList, DeleteRetract, wiki
<1>7. ASSUME NEW e \in Docs, NEW q \in Pages, DeleteFromPage(e, q) PROVE Trace(d, p)
  <2>1. UNCHANGED <<batch, at>>
    BY <1>7 DEF DeleteFromPage
  <2>2. CASE q # p
    BY <1>0, <1>1, <1>2, <1>5, <1>7, <2>1, <2>2 DEF DeleteFromPage
  <2>3. CASE q = p
    <3>1. page[p] = snap[e][p]
      BY <1>7, <2>3 DEF DeleteFromPage
    <3>2. On(d, p)' => On(d, p)
      BY <1>0, <1>7, <2>3, <3>1 DEF DeleteFromPage, On
    <3> QED
      BY <1>1, <1>5, <2>1, <3>2 DEF Trace
  <2> QED
    BY <2>2, <2>3
<1>8. ASSUME NEW t \in Tasks, \/ Takes(t) \/ Trims(t) \/ \E e \in Docs : Settles(t, e)
      PROVE Trace(d, p)
  <2>1. UNCHANGED page /\ \A s \in Tasks : Busy(s, p)' => Busy(s, p) /\ batch'[s] = batch[s]
    BY <1>8 DEF Takes, Trims, Settles, Within, Busy
  <2> QED
    BY <1>1, <1>2, <1>3, <2>1
<1>9. ASSUME NEW t \in Tasks, NEW e \in Docs,
             Retracts(t, e) \/ Skips(t, e) \/ Extracts(t, e) \/ Drains(t, e)
      PROVE Trace(d, p)
  <2>1. /\ UNCHANGED page /\ at' = at /\ \A s \in Tasks \ {t} : batch'[s] = batch[s]
        /\ batch'[t].busy = batch[t].busy /\ batch'[t].base = batch[t].base
    BY <1>9 DEF Retracts, Skips, Extracts, Maps, Drains, Within
  <2>2. batch[t].rets[p] \subseteq batch'[t].rets[p]
    BY <1>0, <1>9 DEF Retracts, Skips, Extracts, Drains, AddTo
  <2> QED
    BY <1>1, <1>2, <1>3, <2>1, <2>2 DEF Busy
<1>10. ASSUME NEW t \in Tasks, NEW q \in Pages, Begins(t, q) PROVE Trace(d, p)
  <2>1. /\ UNCHANGED page /\ at' = at /\ \A s \in Tasks \ {t} : batch'[s] = batch[s]
        /\ batch'[t].busy = batch[t].busy \cup {q} /\ batch'[t].rets = batch[t].rets
        /\ batch'[t].base = [batch[t].base EXCEPT ![q] = page[q]]
    BY <1>10 DEF Begins, Within
  <2>2. CASE q # p
    <3>1. batch'[t].base[p] = batch[t].base[p]
      BY <1>0, <2>1, <2>2
    <3> QED
      BY <1>1, <1>2, <1>3, <2>1, <2>2, <3>1 DEF Busy
  <2>3. CASE q = p
    <3>1. batch'[t].base[p] = page[p]
      BY <1>0, <2>1, <2>3
    <3>2. Based(d, p)' => Based(d, p) \/ On(d, p)
      BY <2>1, <3>1 DEF Based, Busy, On
    <3> QED
      BY <1>1, <1>2, <2>1, <3>2 DEF Trace
  <2> QED
    BY <2>2, <2>3
<1>11. ASSUME NEW t \in Tasks, NEW q \in Pages, Ends(t, q) PROVE Trace(d, p)
  <2> DEFINE b == batch[t]
             new == (IF b.base[p] = NoPage THEN {} ELSE b.base[p] \ b.rets[p]) \cup b.adds[p]
  <2>1. /\ at' = at /\ \A s \in Tasks \ {t} : batch'[s] = batch[s]
        /\ batch'[t].busy = batch[t].busy \ {q}
        /\ batch'[t].base = [batch[t].base EXCEPT ![q] = NoPage]
        /\ batch'[t].rets = [batch[t].rets EXCEPT ![q] = {}]
    BY <1>11 DEF Ends, Within
  <2>2. Based(d, p)' => Trace(d, p)
    <3>1. q # p => batch'[t].base[p] = batch[t].base[p] /\ batch'[t].rets[p] = batch[t].rets[p]
      BY <1>0, <2>1
    <3> QED
      BY <1>3, <2>1, <3>1 DEF Busy
  <2>3. CASE page'[p] = page[p]
    BY <1>1, <1>2, <2>2, <2>3
  <2>4. CASE page'[p] # page[p]
    <3>1. page'[p] = new /\ Busy(t, p)
      BY <1>0, <1>11, <2>4 DEF Ends, Busy
    <3>2. d \notin b.adds[p]
      BY <1>0, <3>1 DEF PageInv, Guarded
    <3>3. On(d, p)' => Based(d, p)
      BY <3>1, <3>2 DEF On, Based
    <3> QED
      BY <1>1, <2>2, <3>3 DEF Trace
  <2> QED
    BY <2>3, <2>4
<1> QED
  BY <1>4, <1>6, <1>7, <1>8, <1>9, <1>10, <1>11, Shapes

\* The row of a retraction is carried on, or its edits are made.
LEMMA RetractionRow ==
  ASSUME EditInv, TypeOK', PageInv, Next, Histories,
         NEW d \in Docs \ dropped', NEW p \in Pages \ unguarded', Trace(d, p), Trace(d, p)',
         NEW r \in rows, r.doc = d, r.op = "retract", Pending(r, p)
  PROVE  Carried(r, p)
<1>1. CASE Calm
  BY <1>1, CarriedCalm
<1>2. ASSUME UNCHANGED <<batch, at>>, r \in rows' PROVE Carried(r, p)
  BY <1>2, CarriedAlone DEF Bystander
<1>3. ASSUME NEW e \in Docs, Seed(e) \/ DeleteRetract(e) PROVE Carried(r, p)
  BY <1>2, <1>3 DEF Seed, DeleteRetract, Insert, table
<1>4. ASSUME NEW e \in Docs, Reparse(e) \/ (DeleteScrub(e) /\ Scrub(e)) PROVE Carried(r, p)
  BY <1>2, <1>4 DEF Reparse, DeleteScrub, Scrub, IngestRows
<1>5. ASSUME NEW e \in Docs, DeleteMark(e) \/ DeleteList(e) \/ \E q \in Pages : DeleteFromPage(e, q)
      PROVE Carried(r, p)
  BY <1>2, <1>5 DEF DeleteMark, DeleteList, DeleteFromPage, table
<1>6. ASSUME NEW t \in Tasks, Takes(t) PROVE Carried(r, p)
  <2>1. \A q \in rows : q.doc = r.doc => q.id <= r.id
    BY EditFacts DEF RowInv
  <2> QED
    BY <1>6, <2>1, CarriedTaken
<1>7. ASSUME NEW t \in Tasks, Trims(t) PROVE Carried(r, p)
  BY <1>7, CarriedTrimmed
<1>8. ASSUME NEW t \in Tasks, NEW e \in Docs, Settles(t, e) PROVE Carried(r, p)
  BY <1>8, CarriedSettled
<1>9. ASSUME NEW t \in Tasks, NEW e \in Docs,
             Retracts(t, e) \/ Skips(t, e) \/ Extracts(t, e) \/ Drains(t, e)
      PROVE Carried(r, p)
  <2>1. CASE e # d \/ Drains(t, e)
    BY <1>9, <2>1, CarriedMapped
  <2>2. CASE r.id \notin batch[t].ids
    <3>1. Within(t) /\ UNCHANGED rows
      BY <1>9 DEF Retracts, Skips, Extracts, Maps, Drains
    <3> QED
      BY <2>2, <3>1, CarriedWithin
  <2>3. CASE (Skips(t, d) \/ Extracts(t, d)) /\ r.id \in batch[t].ids
    <3>1. IsOp(t, d, "retract") /\ d \in DocsOf(t)
      BY <2>3, RowEdits DEF Pending
    <3>2. OpOf(t, d).op = "ingest"
      BY <2>3 DEF Skips, Extracts
    <3> QED
      BY <3>1, <3>2, OpIs
  <2>4. CASE Retracts(t, d) /\ r.id \in batch[t].ids
    <3>1. /\ Within(t) /\ UNCHANGED rows /\ d \in DocsOf(t) /\ OpOf(t, d).op = "retract"
          /\ batch'[t].rets = AddTo(batch[t].rets, OpOf(t, d).slugs \cup Referring(d), d)
      BY <2>4 DEF Retracts, Maps
    <3>2. OpOf(t, d).slugs = slugs[d]
      BY <3>1, OpIs, EditFacts DEF OpsSound
    <3>3. On(d, p) \/ p \in slugs[d]
      BY DEF Trace, Based, PageInv, Guarded, Histories
    <3>4. p \in OpOf(t, d).slugs \cup Referring(d)
      BY <3>2, <3>3 DEF On, Referring
    <3>5. d \in batch'[t].rets[p]
      BY <3>1, <3>4 DEF AddTo
    <3> QED
      BY <3>1, <3>5, CarriedWithin
  <2> QED
    BY <1>9, <2>1, <2>2, <2>3, <2>4
<1>10. ASSUME NEW t \in Tasks, NEW q \in Pages, Begins(t, q) PROVE Carried(r, p)
  BY <1>10, CarriedBegun
<1>11. ASSUME NEW t \in Tasks, NEW q \in Pages, Ends(t, q), ~Carried(r, p) PROVE FALSE
  <2> DEFINE b == batch[t]
             new == (IF b.base[p] = NoPage THEN {} ELSE b.base[p] \ b.rets[p]) \cup b.adds[p]
  <2>0. page \in [Pages -> {NoPage} \cup SUBSET Docs] /\ p \notin unguarded
    BY EditFacts DEF Histories
  <2>1. /\ p = q /\ at[t] = "work" /\ batch'[t].bad = b.bad
        /\ d \in b.rets[p] /\ d \notin b.adds[p]
    BY <1>11, CarriedEnded
  <2>2. /\ Within(t) /\ UNCHANGED rows /\ batch'[t].busy = b.busy \ {p}
    BY <1>11, <2>1 DEF Ends
  <2>3. d \notin b.bad
    <3> SUFFICES ASSUME d \in b.bad PROVE FALSE
      OBVIOUS
    <3>1. d \in batch'[t].bad
      BY <2>1
    <3> QED
      BY <1>11, <2>2, <3>1, CarriedWithin
  <2>4. ASSUME NEW s \in Tasks, Busy(s, p)' PROVE s # t /\ Busy(s, p) /\ lock[p] = s
    <3>1. s # t
      BY <2>2, <2>4 DEF Busy
    <3>2. Busy(s, p)
      BY <2>2, <2>4, <3>1 DEF Busy, Within
    <3> QED
      BY <2>0, <3>1, <3>2 DEF PageInv, Guarded
  <2>5. CASE page[p] = NoPage /\ UNCHANGED page /\ lock[p] = Free
    <3>1. ~On(d, p)'
      BY <2>5 DEF On
    <3>2. ~Based(d, p)'
      BY <2>4, <2>5, TaskNames DEF Based
    <3> QED
      BY <3>1, <3>2 DEF Trace
  <2>6. CASE p \in b.busy /\ page' = [page EXCEPT ![p] = new]
    <3>1. ~On(d, p)'
      BY <2>0, <2>1, <2>6 DEF On
    <3>2. Busy(t, p)
      BY <2>1, <2>6 DEF Busy
    <3>3. ~Based(d, p)'
      BY <2>0, <2>4, <3>2, OneWriter DEF Based
    <3> QED
      BY <3>1, <3>3 DEF Trace
  <2>7. ~(d \in batch'[t].bad)
    BY <2>1, <2>3
  <2> QED
    BY <1>11, <2>1, <2>5, <2>6, <2>7 DEF Ends
<1> QED
  BY <1>1, <1>3, <1>4, <1>5, <1>6, <1>7, <1>8, <1>9, <1>10, <1>11, Shapes

\* A deletion goes on to the retraction: what it has found on the pages, and
\* what a batch has read there, it takes off or remembers.
LEMMA DeletionFollows ==
  ASSUME EditInv, TypeOK', PageInv, Next, Histories,
         NEW d \in Docs \ dropped', NEW p \in Pages \ unguarded', Trace(d, p),
         \/ del[d] \in {"marked", "scrubbed"}
         \/ del[d] = "listed" /\ (snap[d][p] # NoPage \/ p \in slugs[d])
  PROVE  Followed(d, p)'
<1>0. /\ del \in [Docs -> {"no", "marked", "scrubbed", "listed", "retracted", "done"}]
      /\ snap \in [Docs -> [Pages -> {NoPage} \cup SUBSET Docs]]
      /\ slugs \in [Docs -> SUBSET Pages]
  BY EditFacts
<1>1. ASSUME del'[d] = del[d], snap'[d][p] = snap[d][p], slugs[d] \subseteq slugs'[d]
      PROVE  Followed(d, p)'
  BY <1>1 DEF Followed
<1>2. CASE Calm
  BY <1>1, <1>2 DEF Calm, Followed
<1>3. CASE UNCHANGED <<del, snap, slugs>>
  BY <1>1, <1>3
<1>4. ASSUME NEW e \in Docs, Seed(e) \/ Reparse(e) PROVE Followed(d, p)'
  BY <1>3, <1>4 DEF Seed, Reparse, deletion
<1>5. ASSUME NEW e \in Docs, DeleteMark(e) \/ DeleteScrub(e) PROVE Followed(d, p)'
  <2>1. /\ UNCHANGED <<snap, slugs>>
        /\ \/ del' = [del EXCEPT ![e] = "marked"] /\ del[e] = "no"
           \/ del' = [del EXCEPT ![e] = "scrubbed"] /\ del[e] = "marked"
    BY <1>5 DEF DeleteMark, DeleteScrub
  <2>2. CASE e = d
    BY <1>0, <2>1, <2>2 DEF Followed
  <2>3. CASE e # d
    BY <1>0, <1>1, <2>1, <2>3
  <2> QED
    BY <2>2, <2>3
<1>6. ASSUME NEW e \in Docs, DeleteList(e) PROVE Followed(d, p)'
  <2>1. CASE e # d
    BY <1>0, <1>1, <1>6, <2>1 DEF DeleteList
  <2>2. CASE e = d
    <3>1. del'[d] = "listed" /\ slugs' = slugs
      BY <1>0, <1>6, <2>2 DEF DeleteList
    <3>2. On(d, p) \/ p \in slugs[d]
      BY DEF Trace, Based, PageInv, Guarded, Histories
    <3>3. On(d, p) => snap'[d][p] # NoPage
      BY <1>0, <1>6, <2>2 DEF DeleteList, On
    <3> QED
      BY <3>1, <3>2, <3>3 DEF Followed
  <2> QED
    BY <2>1, <2>2
<1>7. ASSUME NEW e \in Docs, NEW q \in Pages, DeleteFromPage(e, q) PROVE Followed(d, p)'
  <2>1. /\ UNCHANGED del /\ snap' = [snap EXCEPT ![e][q] = NoPage]
        /\ slugs' = [slugs EXCEPT ![e] = IF page[q] = NoPage THEN @ ELSE @ \cup {q}]
    BY <1>7 DEF DeleteFromPage
  <2>2. slugs[d] \subseteq slugs'[d]
    BY <1>0, <2>1
  <2>3. CASE e # d \/ q # p
    <3>1. snap'[d][p] = snap[d][p]
      BY <1>0, <2>1, <2>3
    <3> QED
      BY <1>1, <2>1, <2>2, <3>1
  <2>4. CASE e = d /\ q = p
    <3>1. page[p] = snap[d][p] /\ page[p] # NoPage /\ del[d] = "listed"
      BY <1>7, <2>4 DEF DeleteFromPage
    <3>2. p \in slugs'[d]
      BY <1>0, <2>1, <2>4, <3>1
    <3> QED
      BY <2>1, <3>1, <3>2 DEF Followed
  <2> QED
    BY <2>3, <2>4
<1>8. ASSUME NEW e \in Docs, DeleteRetract(e) PROVE Followed(d, p)'
  <2>1. CASE e # d
    BY <1>0, <1>1, <1>8, <2>1 DEF DeleteRetract
  <2>2. CASE e = d
    <3> DEFINE new == [id |-> lastId + 1, doc |-> d, op |-> "retract", slugs |-> slugs[d],
                       claim |-> "free", fails |-> 0]
    <3>1. new \in rows' /\ UNCHANGED <<batch, at>>
      BY <1>8, <2>2 DEF DeleteRetract, Insert
    <3>2. new.id = lastId + 1 /\ new.doc = d /\ new.op = "retract"
      OBVIOUS
    <3> HIDE DEF new
    <3> QED
      BY <3>1, <3>2, FreshPends DEF Followed
  <2> QED
    BY <2>1, <2>2
<1>9. ASSUME NEW t \in Tasks,
             \/ Takes(t) \/ Trims(t)
             \/ \E e \in Docs : \/ Retracts(t, e) \/ Skips(t, e) \/ Extracts(t, e)
                                \/ Drains(t, e) \/ Settles(t, e)
             \/ \E q \in Pages : Begins(t, q) \/ Ends(t, q)
      PROVE UNCHANGED <<del, snap, slugs>>
  BY <1>9 DEF Takes, Trims, Retracts, Skips, Extracts, Maps, Drains, Settles, Begins, Ends, Within
<1> QED
  BY <1>2, <1>3, <1>4, <1>5, <1>6, <1>7, <1>8, <1>9, Shapes

\* A deletion begins with its mark.
LEMMA FirstMarked ==
  ASSUME EditInv, TypeOK', Next, NEW d \in Docs, ~Gone(d), Gone(d)'
  PROVE  del'[d] = "marked"
<1>0. del \in [Docs -> {"no", "marked", "scrubbed", "listed", "retracted", "done"}]
  BY EditFacts
<1>1. del[d] = "no" /\ del'[d] # "no"
  BY DEF Gone
<1>2. CASE Calm
  BY <1>1, <1>2 DEF Calm
<1>3. ASSUME UNCHANGED del PROVE FALSE
  BY <1>1, <1>3
<1>4. ASSUME NEW e \in Docs, Seed(e) \/ Reparse(e) \/ \E p \in Pages : DeleteFromPage(e, p) PROVE FALSE
  BY <1>3, <1>4 DEF Seed, Reparse, DeleteFromPage, deletion
<1>5. ASSUME NEW e \in Docs, DeleteScrub(e) \/ DeleteList(e) \/ DeleteRetract(e) PROVE FALSE
  <2>1. del[e] # "no" /\ \E x : del' = [del EXCEPT ![e] = x]
    BY <1>5 DEF DeleteScrub, DeleteList, DeleteRetract
  <2> QED
    BY <1>0, <1>1, <2>1
<1>6. ASSUME NEW e \in Docs, DeleteMark(e) PROVE del'[d] = "marked"
  BY <1>0, <1>1, <1>6 DEF DeleteMark
<1>7. ASSUME NEW t \in Tasks,
             \/ Takes(t) \/ Trims(t)
             \/ \E e \in Docs : \/ Retracts(t, e) \/ Skips(t, e) \/ Extracts(t, e)
                                \/ Drains(t, e) \/ Settles(t, e)
             \/ \E q \in Pages : Begins(t, q) \/ Ends(t, q)
      PROVE UNCHANGED del
  BY <1>7 DEF Takes, Trims, Retracts, Skips, Extracts, Maps, Drains, Settles, Begins, Ends, Within
<1> QED
  BY <1>2, <1>3, <1>4, <1>5, <1>6, <1>7, Shapes

\* Every step follows a deleted document.
LEMMA RetractedStep ==
  ASSUME EditInv, TypeOK', PageInv, Retracted, Next
  PROVE  Retracted'
<1> SUFFICES ASSUME NEW d \in Docs \ (dropped' \cup crossed'), NEW p \in Pages \ unguarded',
                    Gone(d)', Trace(d, p)'
             PROVE  Followed(d, p)'
  BY DEF Retracted
<1>0. Histories /\ d \notin dropped \cup crossed /\ p \notin unguarded
  BY HistoryStep DEF Histories
<1>1. CASE ~Gone(d)
  BY <1>1, FirstMarked DEF Followed
<1>2. CASE Gone(d)
  <2>1. Trace(d, p)
    BY <1>0, <1>2, TraceBack
  <2>2. Followed(d, p)
    BY <1>0, <1>2, <2>1 DEF Retracted
  <2>3. ASSUME NEW r \in rows, r.doc = d, r.op = "retract", Pending(r, p) PROVE Followed(d, p)'
    <3>1. Carried(r, p)
      BY <1>0, <2>1, <2>3, RetractionRow
    <3> QED
      BY <2>3, <3>1 DEF Carried, Followed, Came, Same
  <2> QED
    BY <1>0, <2>1, <2>2, <2>3, DeletionFollows DEF Followed
<1> QED
  BY <1>1, <1>2

-----------------------------------------------------------------------------
(* The invariants hold, and what follows from them                          *)

\* All of it is inductive, beside the claims and units of WikiQueueProofs.
WikiInv == EditInv /\ PageInv /\ Lands /\ Retracted /\ DrainInv

\* At the start there is no row, no page and no batch.
LEMMA EditInit ==
  ASSUME Init, SlotInv
  PROVE  WikiInv
<1>1. /\ rows = {} /\ \A t \in Tasks : batch[t] = NoBatch /\ at[t] = "absent"
      /\ \A d \in Docs : stage[d] = "parsing" /\ del[d] = "no" /\ drains[d] = 0
  BY DEF Init
<1>2. \A t \in Tasks : /\ batch[t].ops = {} /\ batch[t].mapped = {} /\ batch[t].busy = {}
                       /\ batch[t].drained = {}
  BY <1>1 DEF NoBatch
<1>3. RowInv /\ \A t \in Tasks : OpsSound(t) /\ EditsSound(t)
  BY <1>1, <1>2 DEF RowInv, OpsSound, EditsSound
<1>4. PageInv
  BY <1>1 DEF PageInv, Guarded, Busy
<1>5. Lands
  BY <1>1 DEF Lands, Landing
<1>6. Retracted
  BY <1>1 DEF Retracted, Gone
<1>7. DrainInv
  BY <1>1 DEF DrainInv, Once
<1> QED
  BY <1>3, <1>4, <1>5, <1>6, <1>7 DEF WikiInv, EditInv

\* A step that changes nothing keeps it all.
LEMMA EditStutter ==
  ASSUME WikiInv, SlotInv', UNCHANGED vars
  PROVE  WikiInv'
<1>1. UNCHANGED <<rows, lastId, page, lock, at, batch, stage, drains, del, snap, slugs, exposed,
                  crossed, dropped, unguarded, replayed>>
  BY DEF vars, table, wiki, docs, deletion, ghosts
<1>2. EditInv'
  BY <1>1 DEF WikiInv, EditInv, RowInv, OpsSound, EditsSound, IsOp, Retracting
<1>3. PageInv'
  BY <1>1 DEF WikiInv, PageInv, Guarded, Busy, On, Gone
<1>4. Lands'
  BY <1>1 DEF WikiInv, Lands, Landing, On, Gone, IngestRows, Pending, Edits
<1>5. Retracted'
  BY <1>1 DEF WikiInv, Retracted, Gone, Trace, On, Based, Busy, Followed, Pending, Edits
<1>6. DrainInv'
  BY <1>1 DEF WikiInv, DrainInv, Once, MayDrain, IsOp, IngestRows
<1> QED
  BY <1>2, <1>3, <1>4, <1>5, <1>6 DEF WikiInv

\* The invariants hold of every behaviour.
LEMMA WikiInvHolds == Spec => []WikiInv
<1>1. Init /\ SlotInv => WikiInv
  BY EditInit
<1>2. ASSUME WikiInv, SlotInv', [Next]_vars PROVE WikiInv'
  <2>1. TypeOK'
    BY <1>2 DEF SlotInv, ClaimInv
  <2>2. CASE Next
    BY <1>2, <2>1, <2>2, EditStep, PageStep, LandsStep, RetractedStep, DrainStep DEF WikiInv
  <2>3. CASE UNCHANGED vars
    BY <1>2, <2>3, EditStutter
  <2> QED
    BY <1>2, <2>2, <2>3
<1> QED
  BY <1>1, <1>2, SlotInvHolds, PTL DEF Spec

\* The unit of a document is released once for each parse, unless its row was
\* left to be claimed again, or its claim was taken away under a batch.
THEOREM UnitReleasedOnce == Spec => []DrainsOnce
<1>1. WikiInv => DrainsOnce
  <2> SUFFICES ASSUME WikiInv, NEW d \in Docs, drains[d] > 1, d \notin replayed \cup exposed
               PROVE  FALSE
    BY DEF DrainsOnce
  <2>1. drains[d] <= 1 /\ drains[d] \in Nat
    BY EditFacts DEF WikiInv, DrainInv, Once
  <2> QED
    BY <2>1
<1> QED
  BY <1>1, WikiInvHolds, PTL

\* A document whose row has left the queue is on all its pages: no batch has
\* overwritten what another wrote, and none has trimmed what was not applied.
THEOREM ContributionsLand == Spec => []ContributionLands
<1>1. WikiInv => ContributionLands
  <2> SUFFICES ASSUME WikiInv, NEW d \in Docs \ dropped, stage[d] # "parsing", ~Gone(d),
                      IngestRows(d) = {}, NEW p \in Contrib[d] \ unguarded
               PROVE  On(d, p)
    BY DEF ContributionLands, On
  <2> QED
    BY DEF WikiInv, Lands, Landing
<1> QED
  BY <1>1, WikiInvHolds, PTL

\* A deleted document is on no page when the queue is quiet, unless its deletion
\* came while a batch was writing it onto one.
THEOREM RetractionWins == Spec => []RetractWins
<1>1. WikiInv => RetractWins
  <2> SUFFICES ASSUME WikiInv, NEW d \in Docs \ (dropped \cup crossed), Quiet, del[d] = "done",
                      NEW p \in Pages \ unguarded
               PROVE  ~On(d, p)
    BY DEF RetractWins, On
  <2>1. ~Followed(d, p)
    BY DEF Quiet, Followed
  <2> QED
    BY <2>1 DEF WikiInv, Retracted, Gone, Trace
<1> QED
  BY <1>1, WikiInvHolds, PTL

=============================================================================
