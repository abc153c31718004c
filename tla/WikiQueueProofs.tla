--------------------------- MODULE WikiQueueProofs ---------------------------
(***************************************************************************)
(* The wiki queue, for any documents, pages, tasks and bounds: what is     *)
(* stored is of its type; one batch at a time works on a document, unless  *)
(* its claim was taken away under the batch (ClaimInv: a batch at work on a*)
(* document holds a claim in force on the row of its operation); and a unit*)
(* of the parse counter that was not released has a durable row (SlotInv:  *)
(* a row that every batch which has claimed it still has before it).       *)
(***************************************************************************)
EXTENDS WikiQueue, WellFoundedInduction, TLAPS

-----------------------------------------------------------------------------
(* Types                                                                    *)

\* No asynq task is one of the values that a page's lock may have.
LEMMA TaskNames ==
  /\ Capped \in Tasks /\ Recheck \in Tasks /\ Triggers \subseteq Tasks
  /\ Free \notin Tasks /\ Orphan \notin Tasks /\ Free # Orphan
BY NamesAssumption DEF Tasks

\* A step that writes one batch.
LEMMA RememberType ==
  ASSUME NEW t \in Tasks, NEW b \in Batch, batch \in [Tasks -> Batch], Remember(t, b)
  PROVE  batch' \in [Tasks -> Batch]
BY DEF Remember

\* What a task holds is a batch.
LEMMA BatchOf ==
  ASSUME batch \in [Tasks -> Batch], NEW t \in Tasks
  PROVE  batch[t] \in Batch
OBVIOUS

\* The fields of a batch.
LEMMA BatchFields ==
  ASSUME NEW b \in Batch
  PROVE  /\ b.slot \in BOOLEAN /\ b.err \in BOOLEAN
         /\ b.ids \subseteq Nat /\ b.ops \subseteq Row
         /\ b.mapped \subseteq Docs /\ b.bad \subseteq Docs /\ b.drained \subseteq Docs
         /\ b.busy \subseteq Pages
         /\ b.adds \in [Pages -> SUBSET Docs] /\ b.rets \in [Pages -> SUBSET Docs]
         /\ b.base \in [Pages -> {NoPage} \cup SUBSET Docs]
BY DEF Batch

\* What is written into a batch.
LEMMA EditTypes ==
  ASSUME NEW b \in Batch
  PROVE  /\ \A x \in BOOLEAN : [b EXCEPT !.slot = x] \in Batch /\ [b EXCEPT !.err = x] \in Batch
         /\ \A ds \in SUBSET Docs : /\ [b EXCEPT !.mapped = ds] \in Batch
                                   /\ [b EXCEPT !.bad = ds] \in Batch
                                   /\ [b EXCEPT !.drained = ds] \in Batch
         /\ \A f \in [Pages -> SUBSET Docs] : /\ [b EXCEPT !.adds = f] \in Batch
                                             /\ [b EXCEPT !.rets = f] \in Batch
         /\ \A ds \in SUBSET Docs, f \in [Pages -> SUBSET Docs] :
              [b EXCEPT !.mapped = ds, !.rets = f] \in Batch
         /\ \A ds \in SUBSET Docs : [b EXCEPT !.bad = ds, !.err = TRUE] \in Batch
         /\ \A p \in Pages : Over(b, p) \in Batch
BY DEF Batch, Over

\* Adding a document to the edits of some pages gives edits.
LEMMA AddToType ==
  ASSUME NEW f \in [Pages -> SUBSET Docs], NEW ps, NEW d \in Docs
  PROVE  AddTo(f, ps, d) \in [Pages -> SUBSET Docs]
BY DEF AddTo

\* The empty batch is a batch.
LEMMA NoBatchType == NoBatch \in Batch
BY DEF NoBatch, Batch

\* Forgetting a batch leaves batches.
LEMMA ForgetType ==
  ASSUME NEW t \in Tasks, batch \in [Tasks -> Batch], Forget(t)
  PROVE  batch' \in [Tasks -> Batch]
BY NoBatchType, RememberType DEF Forget

\* A trigger that is enqueued leaves every task at a step.
LEMMA EnqueueType ==
  ASSUME NEW old \in [Tasks -> Steps \cup {"absent", "pending"}], Enqueue(old)
  PROVE  at' \in [Tasks -> Steps \cup {"absent", "pending"}]
BY TaskNames DEF Enqueue

\* Changing the claims of rows leaves rows, with the IDs they had.
LEMMA SetClaimType ==
  ASSUME NEW ids, NEW c \in {"free", "fresh", "aging", "stale"}, rows \subseteq Row,
         NEW n, \A r \in rows : r.id \in 1 .. n
  PROVE  /\ SetClaim(ids, c) \subseteq Row
         /\ \A r \in SetClaim(ids, c) : r.id \in 1 .. n
BY DEF SetClaim, Row

\* A new row is a row, with an ID that was given out.
LEMMA InsertType ==
  ASSUME rows \subseteq Row, lastId \in Nat, \A r \in rows : r.id \in 1 .. lastId,
         NEW d \in Docs, NEW o \in {"ingest", "retract"}, NEW ss \in SUBSET Pages,
         Insert(d, o, ss)
  PROVE  /\ rows' \subseteq Row /\ lastId' \in Nat
         /\ \A r \in rows' : r.id \in 1 .. lastId'
BY DEF Insert, Row

Claims == {"free", "fresh", "aging", "stale"}

\* The fields of a row,
LEMMA RowFields ==
  ASSUME NEW r \in Row
  PROVE  r.id \in Nat /\ r.doc \in Docs /\ r.slugs \subseteq Pages /\ r.fails \in Nat
BY DEF Row

\* and its claim.
LEMMA RowClaim ==
  ASSUME NEW r \in Row
  PROVE  r.claim \in Claims
BY DEF Row, Claims

\* A row that changes hands.
LEMMA RowClaimed ==
  ASSUME NEW r \in Row, NEW c \in Claims
  PROVE  [r EXCEPT !.claim = c] \in Row /\ [r EXCEPT !.claim = c].id = r.id
BY DEF Row, Claims

\* A row that fails once more.
LEMMA RowCounted ==
  ASSUME NEW r \in Row
  PROVE  [r EXCEPT !.fails = @ + 1] \in Row /\ [r EXCEPT !.fails = @ + 1].id = r.id
<1>1. r.fails + 1 \in Nat
  BY RowFields
<1> QED
  BY <1>1 DEF Row

\* And is given back.
LEMMA RowReleased ==
  ASSUME NEW r \in Row
  PROVE  /\ [r EXCEPT !.fails = @ + 1, !.claim = "free"] \in Row
         /\ [r EXCEPT !.fails = @ + 1, !.claim = "free"].id = r.id
<1>1. r.fails + 1 \in Nat
  BY RowFields
<1> QED
  BY <1>1 DEF Row

\* Rows that are changed stay rows.
LEMMA RowsChanged ==
  ASSUME rows \subseteq Row, \A r \in rows : r.id \in 1 .. lastId, NEW rs \in SUBSET rows,
         NEW f,
         \/ f = {[x EXCEPT !.fails = @ + 1, !.claim = "free"] : x \in rs}
         \/ f = {[x EXCEPT !.fails = @ + 1] : x \in rs}
         \/ f = {[x EXCEPT !.claim = IF @ = "fresh" THEN "aging" ELSE @] : x \in rs}
  PROVE  f \subseteq Row /\ \A r \in f : r.id \in 1 .. lastId
<1>1. \A x \in rs : /\ [x EXCEPT !.fails = @ + 1, !.claim = "free"] \in Row
                   /\ [x EXCEPT !.fails = @ + 1, !.claim = "free"].id \in 1 .. lastId
  BY RowReleased
<1>2. \A x \in rs : /\ [x EXCEPT !.fails = @ + 1] \in Row
                   /\ [x EXCEPT !.fails = @ + 1].id \in 1 .. lastId
  BY RowCounted
<1>3. ASSUME NEW x \in rs
      PROVE  /\ [x EXCEPT !.claim = IF @ = "fresh" THEN "aging" ELSE @] \in Row
             /\ [x EXCEPT !.claim = IF @ = "fresh" THEN "aging" ELSE @].id \in 1 .. lastId
  <2>1. (IF x.claim = "fresh" THEN "aging" ELSE x.claim) \in Claims
    BY RowClaim DEF Claims
  <2> QED
    BY <2>1, RowClaimed
<1> QED
  BY <1>1, <1>2, <1>3

\* The released units stay numbers.
LEMMA DrainType ==
  ASSUME drains \in [Docs -> Nat], NEW d \in Docs, Drain(d)
  PROVE  drains' \in [Docs -> Nat]
BY DEF Drain

\* Taking a page on leaves batches and locks.
LEMMA BeginType ==
  ASSUME TypeOK, NEW t \in Tasks, NEW p \in Pages,
         NEW l \in [Pages -> Tasks \cup {Free, Orphan}], Begin(t, p, l)
  PROVE  batch' \in [Tasks -> Batch] /\ lock' \in [Pages -> Tasks \cup {Free, Orphan}]
<1>1. batch[t] \in Batch /\ batch \in [Tasks -> Batch] /\ Over(batch[t], p) \in Batch
  BY BatchOf, EditTypes DEF TypeOK
<1>2. \A ds \in SUBSET Docs :
        [batch[t] EXCEPT !.busy = @ \cup {p}, !.adds[p] = ds, !.base[p] = page[p]] \in Batch
  BY <1>1 DEF TypeOK, Batch
<1>3. {d \in batch[t].adds[p] : ~Gone(d)} \in SUBSET Docs
  BY <1>1, BatchFields
<1>4. lock' \in [Pages -> Tasks \cup {Free, Orphan}]
  BY DEF Begin, TypeOK
<1> QED
  BY <1>1, <1>2, <1>3, <1>4, RememberType DEF Begin

\* Giving up a page leaves batches.
LEMMA UnappliedType ==
  ASSUME NEW t \in Tasks, NEW p \in Pages, batch \in [Tasks -> Batch], Unapplied(t, p)
  PROVE  batch' \in [Tasks -> Batch]
<1>1. batch[t] \in Batch /\ Over(batch[t], p) \in Batch
  BY BatchOf, EditTypes
<1>2. [Over(batch[t], p) EXCEPT !.bad = @ \cup batch[t].adds[p] \cup batch[t].rets[p]] \in Batch
  BY <1>1 DEF Batch
<1> QED
  BY <1>2, RememberType DEF Unapplied

\* Every step keeps the types.
LEMMA TypeStep ==
  ASSUME TypeOK, Next
  PROVE  TypeOK'
<1> USE DEF TypeOK, wiki, table, docs, deletion, mishaps, ghosts, Fault
<1>1. ASSUME NEW d \in Docs, Seed(d) PROVE TypeOK'
  BY <1>1, InsertType DEF Seed
<1>2. ASSUME NEW d \in Docs, TriggerIngest(d) PROVE TypeOK'
  BY <1>2, EnqueueType DEF TriggerIngest
<1>3. ASSUME NEW d \in Docs, Reparse(d) PROVE TypeOK'
  BY <1>3 DEF Reparse, Scrub, Exposing
<1>4. ASSUME NEW d \in Docs, DeleteMark(d) PROVE TypeOK'
  BY <1>4 DEF DeleteMark
<1>5. ASSUME NEW d \in Docs, DeleteScrub(d) PROVE TypeOK'
  BY <1>5 DEF DeleteScrub, Scrub, Exposing
<1>6. ASSUME NEW d \in Docs, DeleteList(d) PROVE TypeOK'
  BY <1>6 DEF DeleteList
<1>7. ASSUME NEW d \in Docs, NEW p \in Pages, DeleteFromPage(d, p) PROVE TypeOK'
  BY <1>7 DEF DeleteFromPage
<1>8. ASSUME NEW d \in Docs, DeleteRetract(d) PROVE TypeOK'
  BY <1>8, InsertType DEF DeleteRetract
<1>9. ASSUME NEW d \in Docs, DeleteTrigger(d) PROVE TypeOK'
  <2>1. at' \in [Tasks -> Steps \cup {"absent", "pending"}]
    BY <1>9, EnqueueType DEF DeleteTrigger
  <2>2. UNCHANGED <<crashes, boots>> /\ faults' \in Nat
    BY <1>9 DEF DeleteTrigger
  <2>3. lost' \in BOOLEAN
    BY <1>9 DEF DeleteTrigger
  <2> QED
    BY <1>9, <2>1, <2>2, <2>3 DEF DeleteTrigger
<1>10. ASSUME NEW t \in Tasks, Start(t) PROVE TypeOK'
  <2>0. batch[t] \in Batch /\ batch \in [Tasks -> Batch]
    BY BatchOf
  <2>1. batch' \in [Tasks -> Batch]
    BY <1>10, <2>0, EditTypes, RememberType DEF Start
  <2>2. at' \in [Tasks -> Steps \cup {"absent", "pending"}]
    BY <1>10 DEF Start, Goto, Steps
  <2> QED
    BY <1>10, <2>0, <2>1, <2>2 DEF Start
<1>11. ASSUME NEW t \in Tasks, TurnedAway(t) PROVE TypeOK'
  <2>0. batch[t] \in Batch /\ batch \in [Tasks -> Batch]
    BY BatchOf
  <2>1. batch' \in [Tasks -> Batch]
    BY <1>11, <2>0, ForgetType DEF TurnedAway, Arm
  <2>2. at' \in [Tasks -> Steps \cup {"absent", "pending"}]
    BY <1>11, TaskNames DEF TurnedAway, Arm, Goto
  <2>3. lost' \in BOOLEAN /\ selfLost' \in BOOLEAN
    BY <1>11 DEF TurnedAway, Arm
  <2> QED
    BY <1>11, <2>0, <2>1, <2>2, <2>3 DEF TurnedAway
<1>12. ASSUME NEW t \in Tasks, Claim(t) PROVE TypeOK'
  <2>0. batch[t] \in Batch /\ batch \in [Tasks -> Batch]
    BY BatchOf
  <2>1. rows' \subseteq Row /\ \A r \in rows' : r.id \in 1 .. lastId
    BY <1>12, SetClaimType DEF Claim
  <2>2. \A o \in SUBSET rows' : \A i \in SUBSET Nat : [batch[t] EXCEPT !.ids = i, !.ops = o] \in Batch
    BY <2>0, <2>1 DEF Batch
  <2>3. Ids({r \in rows : r.doc \in Chosen}) \subseteq Nat
    BY DEF Ids
  <2>4. batch' \in [Tasks -> Batch]
    BY <1>12, <2>0, <2>2, <2>3, RememberType DEF Claim
  <2>5. at' \in [Tasks -> Steps \cup {"absent", "pending"}]
    BY <1>12 DEF Claim, Goto, Steps
  <2> QED
    BY <1>12, <2>0, <2>1, <2>2, <2>3, <2>4, <2>5 DEF Claim
<1>13. ASSUME NEW t \in Tasks, ClaimFails(t) PROVE TypeOK'
  BY <1>13, ForgetType DEF ClaimFails, Goto
<1>14. ASSUME NEW t \in Tasks, ArmRecheck(t) PROVE TypeOK'
  <2>0. batch[t] \in Batch /\ batch \in [Tasks -> Batch]
    BY BatchOf
  <2>1. rows' \subseteq Row /\ \A r \in rows' : r.id \in 1 .. lastId
    BY <1>14, RowsChanged DEF ArmRecheck
  <2>2. batch' \in [Tasks -> Batch]
    BY <1>14, <2>0, ForgetType DEF ArmRecheck, Arm
  <2>3. at' \in [Tasks -> Steps \cup {"absent", "pending"}]
    BY <1>14, TaskNames DEF ArmRecheck, Arm, Goto
  <2>4. lost' \in BOOLEAN /\ selfLost' \in BOOLEAN
    BY <1>14 DEF ArmRecheck, Arm
  <2>5. UNCHANGED <<crashes, boots>> /\ faults' \in Nat
    BY <1>14 DEF ArmRecheck
  <2> QED
    BY <1>14, <2>0, <2>1, <2>2, <2>3, <2>4, <2>5 DEF ArmRecheck
<1>15. ASSUME NEW t \in Tasks, NEW d \in Docs, MapRetract(t, d) PROVE TypeOK'
  <2>0. batch[t] \in Batch /\ batch \in [Tasks -> Batch]
    BY BatchOf
  <2>1. \A ps : [batch[t] EXCEPT !.mapped = @ \cup {d}, !.rets = AddTo(@, ps, d)] \in Batch
    <3>1. batch[t].mapped \cup {d} \in SUBSET Docs
      BY <2>0, BatchFields
    <3>2. \A ps : AddTo(batch[t].rets, ps, d) \in [Pages -> SUBSET Docs]
      BY <2>0, BatchFields, AddToType
    <3> QED
      BY <2>0, <3>1, <3>2, EditTypes
  <2>2. batch' \in [Tasks -> Batch]
    BY <1>15, <2>0, <2>1, RememberType DEF MapRetract
  <2>3. UNCHANGED <<crashes, boots>> /\ faults' \in Nat /\ dropped' \subseteq Docs
    BY <1>15 DEF MapRetract
  <2> QED
    BY <1>15, <2>0, <2>1, <2>2, <2>3 DEF MapRetract
<1>16. ASSUME NEW t \in Tasks, NEW d \in Docs, MapIngest(t, d) PROVE TypeOK'
  <2>0. batch[t] \in Batch /\ batch \in [Tasks -> Batch]
    BY BatchOf
  <2> DEFINE b == [batch[t] EXCEPT !.mapped = @ \cup {d}]
  <2>1. b \in Batch
    <3>1. batch[t].mapped \cup {d} \in SUBSET Docs
      BY <2>0, BatchFields
    <3> QED
      BY <2>0, <3>1, EditTypes
  <2>2. /\ [b EXCEPT !.drained = @ \cup {d}] \in Batch
        /\ [b EXCEPT !.bad = @ \cup {d}] \in Batch
        /\ [b EXCEPT !.adds = AddTo(@, Contrib[d], d)] \in Batch
    <3> HIDE DEF b
    <3>1. b.drained \cup {d} \in SUBSET Docs /\ b.bad \cup {d} \in SUBSET Docs
      BY <2>1, BatchFields
    <3>2. AddTo(b.adds, Contrib[d], d) \in [Pages -> SUBSET Docs]
      BY <2>1, BatchFields, AddToType
    <3> QED
      BY <2>1, <3>1, <3>2, EditTypes
  <2>3. batch' \in [Tasks -> Batch]
    <3> HIDE DEF b
    <3> QED
      BY <1>16, <2>0, <2>2, RememberType DEF MapIngest, b
  <2>4. drains' \in [Docs -> Nat]
    BY <1>16 DEF MapIngest, Drain
  <2>5. UNCHANGED <<table, wiki, leaked, at, stage, parses, deletion, mishaps, ghosts>>
    BY <1>16 DEF MapIngest
  <2> QED
    BY <2>3, <2>4, <2>5
<1>17. ASSUME NEW t \in Tasks, NEW p \in Pages, ReduceBegin(t, p) PROVE TypeOK'
  <2>0. batch[t] \in Batch /\ batch \in [Tasks -> Batch]
    BY BatchOf
  <2>1. batch' \in [Tasks -> Batch] /\ lock' \in [Pages -> Tasks \cup {Free, Orphan}]
    BY <1>17, BeginType DEF ReduceBegin
  <2> QED
    BY <1>17, <2>0, <2>1 DEF ReduceBegin
<1>18. ASSUME NEW t \in Tasks, NEW p \in Pages, ReduceWaitsTooLong(t, p) PROVE TypeOK'
  <2>0. batch[t] \in Batch /\ batch \in [Tasks -> Batch]
    BY BatchOf
  <2>1. batch' \in [Tasks -> Batch]
    BY <1>18, UnappliedType DEF ReduceWaitsTooLong
  <2> QED
    BY <1>18, <2>0, <2>1 DEF ReduceWaitsTooLong
<1>19. ASSUME NEW t \in Tasks, NEW p \in Pages, ReduceUnlocked(t, p) PROVE TypeOK'
  <2>0. batch[t] \in Batch /\ batch \in [Tasks -> Batch]
    BY BatchOf
  <2>1. batch' \in [Tasks -> Batch] /\ lock' \in [Pages -> Tasks \cup {Free, Orphan}]
    BY <1>19, BeginType DEF ReduceUnlocked
  <2> QED
    BY <1>19, <2>0, <2>1 DEF ReduceUnlocked
<1>20. ASSUME NEW t \in Tasks, NEW p \in Pages, ReduceWrite(t, p) PROVE TypeOK'
  <2>0. batch[t] \in Batch /\ batch \in [Tasks -> Batch]
    BY BatchOf
  <2>1. batch' \in [Tasks -> Batch]
    BY <1>20, <2>0, UnappliedType, EditTypes, RememberType DEF ReduceWrite
  <2>2. \A ds : ((IF batch[t].base[p] = NoPage THEN {} ELSE batch[t].base[p] \ ds)
                    \cup batch[t].adds[p]) \in SUBSET Docs
    BY <2>0, BatchFields
  <2>3. page' \in [Pages -> {NoPage} \cup SUBSET Docs]
    <3>1. \/ UNCHANGED page
          \/ page' = [page EXCEPT ![p] = (IF batch[t].base[p] = NoPage THEN {}
                                         ELSE batch[t].base[p] \ batch[t].rets[p]) \cup batch[t].adds[p]]
      BY <1>20 DEF ReduceWrite
    <3> QED
      BY <2>2, <3>1
  <2>4. lock' \in [Pages -> Tasks \cup {Free, Orphan}]
    BY <1>20 DEF ReduceWrite, Unlock
  <2> QED
    BY <1>20, <2>0, <2>1, <2>2, <2>3, <2>4 DEF ReduceWrite
<1>21. ASSUME NEW t \in Tasks, NEW p \in Pages, ReduceGivesUp(t, p) PROVE TypeOK'
  <2>0. batch[t] \in Batch /\ batch \in [Tasks -> Batch]
    BY BatchOf
  <2>1. batch' \in [Tasks -> Batch]
    BY <1>21, <2>0, EditTypes, RememberType DEF ReduceGivesUp
  <2>2. dropped' \subseteq Docs
    BY <1>21, <2>0, BatchFields DEF ReduceGivesUp
  <2>3. lock' \in [Pages -> Tasks \cup {Free, Orphan}]
    BY <1>21 DEF ReduceGivesUp, Unlock
  <2> QED
    BY <1>21, <2>0, <2>1, <2>2, <2>3 DEF ReduceGivesUp
<1>22. ASSUME NEW t \in Tasks, NEW d \in Docs, DrainDone(t, d) PROVE TypeOK'
  <2>0. batch[t] \in Batch /\ batch \in [Tasks -> Batch]
    BY BatchOf
  <2>1. batch[t].drained \cup {d} \in SUBSET Docs
    BY <2>0, BatchFields
  <2>2. [batch[t] EXCEPT !.drained = @ \cup {d}] \in Batch
    BY <2>0, <2>1, EditTypes
  <2>3. batch' \in [Tasks -> Batch]
    BY <1>22, <2>0, <2>2, RememberType DEF DrainDone
  <2> QED
    BY <1>22, <2>0, <2>1, <2>2, <2>3 DEF DrainDone, Drain
<1>23. ASSUME NEW t \in Tasks, Trim(t) PROVE TypeOK'
  <2>0. batch[t] \in Batch /\ batch \in [Tasks -> Batch]
    BY BatchOf
  <2>1. batch' \in [Tasks -> Batch]
    BY <1>23, <2>0, EditTypes, RememberType DEF Trim
  <2>2. at' \in [Tasks -> Steps \cup {"absent", "pending"}]
    BY <1>23 DEF Trim, Goto, Steps
  <2>3. rows' \subseteq rows
    BY <1>23 DEF Trim
  <2>4. replayed' \subseteq Docs
    BY <1>23, <2>0, BatchFields DEF Trim
  <2> QED
    BY <1>23, <2>0, <2>1, <2>2, <2>3, <2>4 DEF Trim
<1>24. ASSUME NEW t \in Tasks, NEW d \in Docs, Requeue(t, d) PROVE TypeOK'
  <2>0. batch[t] \in Batch /\ batch \in [Tasks -> Batch]
    BY BatchOf
  <2>1. batch' \in [Tasks -> Batch]
    BY <1>24, <2>0, EditTypes, BatchFields, RememberType DEF Requeue
  <2>2. rows' \subseteq Row /\ \A r \in rows' : r.id \in 1 .. lastId
    BY <1>24, RowsChanged DEF Requeue
  <2>3. drains' \in [Docs -> Nat]
    BY <1>24, DrainType DEF Requeue
  <2>4. dropped' \subseteq Docs
    BY <1>24 DEF Requeue
  <2> QED
    BY <1>24, <2>0, <2>1, <2>2, <2>3, <2>4 DEF Requeue
<1>25. ASSUME NEW t \in Tasks, NEW d \in Docs, RequeueFails(t, d) PROVE TypeOK'
  <2>0. batch[t] \in Batch /\ batch \in [Tasks -> Batch]
    BY BatchOf
  <2> DEFINE b == [batch[t] EXCEPT !.bad = @ \ {d}, !.err = TRUE]
  <2>1. b \in Batch
    <3>1. batch[t].bad \ {d} \in SUBSET Docs
      BY <2>0, BatchFields
    <3> QED
      BY <2>0, <3>1, EditTypes
  <2>2. [b EXCEPT !.drained = @ \cup {d}] \in Batch
    <3> HIDE DEF b
    <3>1. b.drained \cup {d} \in SUBSET Docs
      BY <2>1, BatchFields
    <3> QED
      BY <2>1, <3>1, EditTypes
  <2>3. batch' \in [Tasks -> Batch]
    <3> HIDE DEF b
    <3> QED
      BY <1>25, <2>0, <2>1, <2>2, RememberType DEF RequeueFails, b
  <2>4. rows' \subseteq Row /\ \A r \in rows' : r.id \in 1 .. lastId
    BY <1>25, RowsChanged DEF RequeueFails
  <2>5. drains' \in [Docs -> Nat] /\ dropped' \subseteq Docs
    BY <1>25 DEF RequeueFails, Drain
  <2> QED
    BY <1>25, <2>3, <2>4, <2>5 DEF RequeueFails
<1>26. ASSUME NEW t \in Tasks, SettleFailed(t) PROVE TypeOK'
  <2>0. batch[t] \in Batch /\ batch \in [Tasks -> Batch]
    BY BatchOf
  <2>1. batch' \in [Tasks -> Batch]
    BY <1>26, <2>0, ForgetType DEF SettleFailed
  <2>2. at' \in [Tasks -> Steps \cup {"absent", "pending"}]
    BY <1>26 DEF SettleFailed, Goto
  <2>3. rows' \subseteq Row /\ \A r \in rows' : r.id \in 1 .. lastId
    BY <1>26, SetClaimType DEF SettleFailed
  <2>4. exposed' \subseteq Docs /\ replayed' \subseteq Docs
    BY <1>26, <2>0, BatchFields DEF SettleFailed, Exposing
  <2> QED
    BY <1>26, <2>0, <2>1, <2>2, <2>3, <2>4 DEF SettleFailed
<1>27. ASSUME NEW t \in Tasks, FollowUp(t) PROVE TypeOK'
  <2>0. batch[t] \in Batch /\ batch \in [Tasks -> Batch]
    BY BatchOf
  <2>1. batch' \in [Tasks -> Batch]
    BY <1>27, <2>0, ForgetType DEF FollowUp
  <2>2. [at EXCEPT ![t] = "absent"] \in [Tasks -> Steps \cup {"absent", "pending"}]
    OBVIOUS
  <2>3. at' \in [Tasks -> Steps \cup {"absent", "pending"}]
    BY <1>27, <2>2, EnqueueType DEF FollowUp, Goto
  <2>4. UNCHANGED <<crashes, boots>> /\ faults' \in Nat
    BY <1>27 DEF FollowUp
  <2>5. lost' \in BOOLEAN
    BY <1>27 DEF FollowUp
  <2> QED
    BY <1>27, <2>0, <2>1, <2>2, <2>3, <2>4, <2>5 DEF FollowUp
<1>28. ASSUME NEW r \in rows, ClaimAges(r) PROVE TypeOK'
  BY <1>28, SetClaimType DEF ClaimAges
<1>29. ASSUME NEW p \in Pages, LockExpires(p) PROVE TypeOK'
  BY <1>29 DEF LockExpires
<1>30. ASSUME SlotExpires PROVE TypeOK'
  BY <1>30 DEF SlotExpires
<1>31. ASSUME NEW t \in Tasks, Crash(t) PROVE TypeOK'
  <2>0. batch[t] \in Batch /\ batch \in [Tasks -> Batch]
    BY BatchOf
  <2>1. batch' \in [Tasks -> Batch]
    BY <1>31, <2>0, ForgetType DEF Crash
  <2>2. at' \in [Tasks -> Steps \cup {"absent", "pending"}]
    BY <1>31 DEF Crash, Goto
  <2>3. lock' \in [Pages -> Tasks \cup {Free, Orphan}]
    BY <1>31 DEF Crash
  <2>4. replayed' \subseteq Docs
    BY <1>31, <2>0, BatchFields DEF Crash
  <2> QED
    BY <1>31, <2>0, <2>1, <2>2, <2>3, <2>4 DEF Crash
<1>32. ASSUME Boot PROVE TypeOK'
  BY <1>32, EnqueueType DEF Boot
<1> QED
  BY <1>1, <1>2, <1>3, <1>4, <1>5, <1>6, <1>7, <1>8, <1>9, <1>10, <1>11, <1>12, <1>13, <1>14,
     <1>15, <1>16, <1>17, <1>18, <1>19, <1>20, <1>21, <1>22, <1>23, <1>24, <1>25, <1>26,
     <1>27, <1>28, <1>29, <1>30, <1>31, <1>32 DEF Next, Work, Mishap, Deleting, Passing

-----------------------------------------------------------------------------
(* What a step leaves of batches, rows and claims                           *)

\* A batch that has claimed nothing.
Blank(b) == /\ b.ids = {} /\ b.ops = {} /\ b.bad = {} /\ b.drained = {}
            /\ \A p \in Pages : b.adds[p] = {} /\ b.rets[p] = {}

\* A batch knows the rows it has claimed, and its operations are among them.
Sound(t) ==
  /\ batch[t].ids \subseteq 1 .. lastId
  /\ \A o \in batch[t].ops : o.id \in batch[t].ids
  /\ \A o \in batch[t].ops, r \in rows : r.id = o.id => r.doc = o.doc /\ r.op = o.op
  /\ at[t] = "work" => \A r \in rows : r.id \in batch[t].ids => r.doc \in DocsOf(t)
  /\ at[t] \notin {"work", "settle"} => Blank(batch[t])
  /\ batch[t].bad \subseteq DocsOf(t)
  /\ \A p \in Pages : batch[t].adds[p] \cup batch[t].rets[p] \subseteq DocsOf(t)

\* A batch at work on a document holds the claim of its row.
Holds(t) ==
  \A d \in Docs \ exposed : Works(t, d) =>
    \E o \in batch[t].ops, r \in rows : o.doc = d /\ r.id = o.id /\ Claimed(r)

\* An ID stands for one operation of one document.
OneOpPerId == \A q, r \in rows : q.id = r.id => q.doc = r.doc /\ q.op = r.op

BatchSound == \A t \in Tasks : Sound(t)
HoldsItsClaim == \A t \in Tasks : Holds(t)
ClaimInv == TypeOK /\ OneOpPerId /\ BatchSound /\ HoldsItsClaim /\ SingleWorker

\* The task goes on with what it has claimed.
Kept(s) ==
  /\ batch'[s].ids = batch[s].ids /\ batch'[s].ops = batch[s].ops
  /\ batch'[s].bad \subseteq DocsOf(s)
  /\ \A p \in Pages : batch'[s].adds[p] \cup batch'[s].rets[p] \subseteq DocsOf(s)
  /\ at'[s] = at[s] \/ (at[s] = "work" /\ at'[s] = "settle")
  /\ at'[s] \notin {"work", "settle"} => Blank(batch'[s])
  /\ \A d \in Docs : Works(s, d)' => Works(s, d)

\* Or it has claimed nothing.
Idle(s) == Blank(batch'[s]) /\ at'[s] \notin {"work", "settle"}

\* A row is what it was.
Same(q, r) == q.id = r.id /\ q.doc = r.doc /\ q.op = r.op

\* Rows are new, or rows of the same document with the same ID.
RowsKept ==
  /\ lastId <= lastId'
  /\ \A r \in rows' : r.id > lastId \/ \E q \in rows : Same(q, r)
  /\ \A q, r \in rows' : q.id > lastId /\ q.id = r.id => q = r

\* A claim of a batch that is still at work stays.
ClaimsKept ==
  \A s \in Tasks, d \in Docs \ exposed' : Works(s, d)' =>
    \A o \in batch[s].ops, r \in rows : o.doc = d /\ r.id = o.id /\ Claimed(r) =>
      \E q \in rows' : q.id = r.id /\ Claimed(q)

\* An ID still stands for one operation of one document.
LEMMA IdsStay ==
  ASSUME ClaimInv, TypeOK', RowsKept
  PROVE  OneOpPerId'
<1> SUFFICES ASSUME NEW q \in rows', NEW r \in rows', q.id = r.id
             PROVE  q.doc = r.doc /\ q.op = r.op
  BY DEF OneOpPerId
<1>1. CASE q.id > lastId
  BY <1>1 DEF RowsKept
<1>2. CASE ~(q.id > lastId)
  BY <1>2 DEF RowsKept, Same, ClaimInv, OneOpPerId
<1> QED
  BY <1>1, <1>2

\* A task that goes on, or has claimed nothing, still knows its rows,
LEMMA SoundStays ==
  ASSUME ClaimInv, TypeOK', RowsKept, NEW s \in Tasks, Kept(s) \/ Idle(s)
  PROVE  Sound(s)'
<1>0. lastId \in Nat /\ lastId' \in Nat
  BY DEF ClaimInv, TypeOK
<1>1. CASE Idle(s)
  BY <1>1 DEF Idle, Blank, Sound
<1>2. CASE Kept(s)
  <2>1. DocsOf(s)' = DocsOf(s)
    BY <1>2 DEF Kept, DocsOf
  <2>2. batch'[s].ids \subseteq 1 .. lastId /\ \A o \in batch'[s].ops : o.id \in batch'[s].ids
    BY <1>2 DEF Kept, ClaimInv, BatchSound, Sound
  <2>3. \A i \in batch'[s].ids : i \in 1 .. lastId' /\ ~(i > lastId)
    BY <1>0, <2>2 DEF RowsKept
  <2>4. \A r \in rows' : r.id \in batch'[s].ids => \E q \in rows : Same(q, r)
    BY <2>3 DEF RowsKept
  <2>5. \A o \in batch'[s].ops, r \in rows' : r.id = o.id => r.doc = o.doc /\ r.op = o.op
    BY <1>2, <2>2, <2>4 DEF Kept, ClaimInv, BatchSound, Sound, Same
  <2>6. at'[s] = "work" => \A r \in rows' : r.id \in batch'[s].ids => r.doc \in DocsOf(s)
    BY <1>2, <2>4 DEF Kept, ClaimInv, BatchSound, Sound, Same
  <2> QED
    BY <1>2, <2>1, <2>2, <2>3, <2>5, <2>6 DEF Kept, Sound, Blank
<1> QED
  BY <1>1, <1>2

\* still holds the claims of the documents it works on, and works on no other.
LEMMA HoldsStays ==
  ASSUME ClaimInv, ClaimsKept, exposed \subseteq exposed', NEW s \in Tasks, Kept(s) \/ Idle(s)
  PROVE  Holds(s)' /\ \A d \in Docs : Works(s, d)' => Works(s, d)
<1>1. \A d \in Docs : Works(s, d)' => Kept(s) /\ Works(s, d)
  BY DEF Kept, Idle, Works
<1>2. SUFFICES ASSUME NEW d \in Docs \ exposed', Works(s, d)'
               PROVE  \E o \in batch'[s].ops, r \in rows' : o.doc = d /\ r.id = o.id /\ Claimed(r)
  BY <1>1 DEF Holds, Claimed
<1>3. PICK o \in batch[s].ops, r \in rows : o.doc = d /\ r.id = o.id /\ Claimed(r)
  BY <1>1, <1>2 DEF ClaimInv, HoldsItsClaim, Holds
<1> QED
  BY <1>1, <1>2, <1>3 DEF ClaimsKept, Kept

\* A step in which every task goes on or has claimed nothing keeps the invariant.
LEMMA Preserved ==
  ASSUME ClaimInv, TypeOK', RowsKept, ClaimsKept, exposed \subseteq exposed',
         \A s \in Tasks : Kept(s) \/ Idle(s)
  PROVE  ClaimInv'
<1>1. OneOpPerId'
  BY IdsStay
<1>2. BatchSound'
  BY SoundStays DEF BatchSound
<1>3. HoldsItsClaim' /\ \A s \in Tasks, d \in Docs : Works(s, d)' => Works(s, d)
  BY HoldsStays DEF HoldsItsClaim
<1>4. SingleWorker'
  BY <1>3 DEF ClaimInv, SingleWorker
<1> QED
  BY <1>1, <1>2, <1>3, <1>4 DEF ClaimInv

\* A task that a step leaves alone, but for being put into the queue.
Bystander(s) == batch'[s] = batch[s] /\ (at'[s] = at[s] \/ (at[s] = "absent" /\ at'[s] = "pending"))

\* A task that is left alone goes on, or has claimed nothing.
LEMMA BystanderStays ==
  ASSUME ClaimInv, NEW s \in Tasks, Bystander(s)
  PROVE  Kept(s) \/ Idle(s)
<1>1. CASE at'[s] = at[s]
  <2>1. batch'[s] = batch[s] /\ at'[s] = at[s]
    BY <1>1 DEF Bystander
  <2>2. \A d \in Docs : Works(s, d)' => Works(s, d)
    BY <2>1 DEF Works, DocsOf
  <2>3. /\ batch[s].bad \subseteq DocsOf(s)
        /\ \A p \in Pages : batch[s].adds[p] \cup batch[s].rets[p] \subseteq DocsOf(s)
        /\ at[s] \notin {"work", "settle"} => Blank(batch[s])
    BY DEF ClaimInv, BatchSound, Sound
  <2> QED
    BY <2>1, <2>2, <2>3 DEF Kept
<1>2. CASE at[s] = "absent" /\ at'[s] = "pending"
  BY <1>2 DEF ClaimInv, BatchSound, Sound, Bystander, Idle
<1> QED
  BY <1>1, <1>2 DEF Bystander

\* Nothing happens to rows and claims.
LEMMA RowsStill ==
  ASSUME TypeOK, UNCHANGED <<rows, lastId, exposed>>
  PROVE  RowsKept /\ ClaimsKept /\ exposed \subseteq exposed'
BY DEF TypeOK, RowsKept, Same, ClaimsKept

\* Rows are added.
LEMMA RowsAdded ==
  ASSUME TypeOK, NEW d, NEW o, NEW ss, Insert(d, o, ss), UNCHANGED exposed
  PROVE  RowsKept /\ ClaimsKept /\ exposed \subseteq exposed'
BY DEF TypeOK, RowsKept, Same, ClaimsKept, Insert

\* Enqueueing a trigger moves no task but one that was absent.
LEMMA EnqueueBystanders ==
  ASSUME NEW old \in [Tasks -> Steps \cup {"absent", "pending"}], Enqueue(old),
         NEW s \in Tasks
  PROVE  at'[s] = old[s] \/ (old[s] = "absent" /\ at'[s] = "pending")
<1>1. CASE at' = old
  BY <1>1
<1>2. CASE \E x \in Triggers : old[x] = "absent" /\ at' = [old EXCEPT ![x] = "pending"]
  BY <1>2, TaskNames
<1> QED
  BY <1>1, <1>2 DEF Enqueue

\* The empty batch has claimed nothing.
LEMMA NoBatchBlank == Blank(NoBatch)
BY DEF Blank, NoBatch

\* A task that ends, or is put back into the queue.
LEMMA Forgotten ==
  ASSUME TypeOK, NEW t \in Tasks, Forget(t)
  PROVE  Blank(batch'[t]) /\ \A s \in Tasks \ {t} : batch'[s] = batch[s]
BY NoBatchBlank DEF TypeOK, Forget, Remember

\* Documents whose rows are scrubbed are exposed.
LEMMA Scrubbed ==
  ASSUME ClaimInv, NEW d \in Docs, Scrub(d), UNCHANGED <<lastId, batch, at>>,
         exposed' = exposed \cup Exposing(Ids(IngestRows(d)))
  PROVE  RowsKept /\ ClaimsKept /\ exposed \subseteq exposed'
<1>1. RowsKept
  BY DEF RowsKept, Same, Scrub, ClaimInv, TypeOK
<1>2. ClaimsKept
  <2> SUFFICES ASSUME NEW s \in Tasks, NEW c \in Docs \ exposed', Works(s, c)',
                      NEW o \in batch[s].ops, NEW r \in rows,
                      o.doc = c, r.id = o.id, Claimed(r), r \notin rows'
               PROVE  FALSE
    BY DEF ClaimsKept
  <2>1. r \in IngestRows(d)
    BY DEF Scrub
  <2>2. Works(s, c)
    BY DEF Works, DocsOf
  <2>3. o.id \in Ids(IngestRows(d))
    BY <2>1 DEF Ids
  <2> QED
    BY <2>2, <2>3 DEF Exposing
<1> QED
  BY <1>1, <1>2

\* A task ends or waits again, and rows and claims of the others stay.
LEMMA Ended ==
  ASSUME ClaimInv, TypeOK', NEW t \in Tasks, Forget(t), at'[t] \in {"absent", "pending"},
         \A s \in Tasks \ {t} : at'[s] = at[s] \/ (at[s] = "absent" /\ at'[s] = "pending"),
         RowsKept, ClaimsKept, exposed \subseteq exposed'
  PROVE  ClaimInv'
<1>1. Idle(t)
  BY Forgotten DEF Idle, ClaimInv
<1>2. \A s \in Tasks \ {t} : Kept(s) \/ Idle(s)
  BY Forgotten, BystanderStays DEF Bystander, ClaimInv
<1> QED
  BY <1>1, <1>2, Preserved

\* The task edits its batch, and the rows stay as they are.
LEMMA Edited ==
  ASSUME ClaimInv, TypeOK', NEW t \in Tasks, NEW b \in Batch, Remember(t, b), at' = at,
         UNCHANGED <<table, exposed>>, at[t] \in {"work", "settle"},
         b.ids = batch[t].ids, b.ops = batch[t].ops,
         b.bad \subseteq DocsOf(t), at[t] = "settle" => b.bad \subseteq batch[t].bad,
         \A p \in Pages : b.adds[p] \cup b.rets[p] \subseteq DocsOf(t)
  PROVE  ClaimInv'
<1>1. batch'[t] = b /\ \A s \in Tasks \ {t} : batch'[s] = batch[s]
  BY DEF Remember, ClaimInv, TypeOK
<1>2. DocsOf(t)' = DocsOf(t)
  BY <1>1 DEF DocsOf
<1>3. Kept(t)
  BY <1>1, <1>2 DEF Kept, Works
<1>4. \A s \in Tasks \ {t} : Kept(s) \/ Idle(s)
  BY <1>1, BystanderStays DEF Bystander
<1>5. RowsKept /\ ClaimsKept /\ exposed \subseteq exposed'
  BY RowsStill DEF table, ClaimInv
<1> QED
  BY <1>3, <1>4, <1>5, Preserved

\* Ending a page's edits leaves the rest of the batch.
LEMMA OverFields ==
  ASSUME NEW b \in Batch, NEW p \in Pages
  PROVE  /\ Over(b, p).ids = b.ids /\ Over(b, p).ops = b.ops /\ Over(b, p).bad = b.bad
         /\ Over(b, p).drained = b.drained
         /\ \A q \in Pages : /\ Over(b, p).adds[q] \subseteq b.adds[q]
                             /\ Over(b, p).rets[q] \subseteq b.rets[q]
BY DEF Batch, Over

\* The edits of a page that is begun.
LEMMA BeginEdits ==
  ASSUME ClaimInv, NEW t \in Tasks, NEW p \in Pages, NEW l, Begin(t, p, l)
  PROVE  \E b \in Batch :
           /\ Remember(t, b) /\ b.ids = batch[t].ids /\ b.ops = batch[t].ops /\ b.bad = batch[t].bad
           /\ b.drained = batch[t].drained
           /\ \A q \in Pages : b.adds[q] \subseteq batch[t].adds[q] /\ b.rets[q] \subseteq batch[t].rets[q]
<1>1. batch[t] \in Batch /\ Over(batch[t], p) \in Batch
  BY BatchOf, EditTypes DEF ClaimInv, TypeOK
<1> DEFINE live == {d \in batch[t].adds[p] : ~Gone(d)}
           b == [batch[t] EXCEPT !.busy = @ \cup {p}, !.adds[p] = live, !.base[p] = page[p]]
<1>2. CASE Remember(t, Over(batch[t], p))
  BY <1>1, <1>2, OverFields
<1>3. CASE Remember(t, b)
  <2>1. live \subseteq batch[t].adds[p] /\ live \subseteq Docs
    BY <1>1, BatchFields
  <2>2. b \in Batch
    BY <1>1, <2>1 DEF ClaimInv, TypeOK, Batch
  <2>3. /\ b.ids = batch[t].ids /\ b.ops = batch[t].ops /\ b.bad = batch[t].bad
        /\ b.drained = batch[t].drained
        /\ \A q \in Pages : b.adds[q] \subseteq batch[t].adds[q] /\ b.rets[q] \subseteq batch[t].rets[q]
    BY <1>1, <2>1 DEF Batch
  <2> QED
    BY <1>3, <2>2, <2>3
<1> QED
  BY <1>2, <1>3 DEF Begin

\* Taking a page on keeps the invariant.
LEMMA BegunKeeps ==
  ASSUME ClaimInv, TypeOK', NEW t \in Tasks, NEW p \in Pages, NEW l, Begin(t, p, l),
         at[t] = "work", UNCHANGED <<table, at, exposed>>
  PROVE  ClaimInv'
<1>1. PICK b \in Batch :
           /\ Remember(t, b) /\ b.ids = batch[t].ids /\ b.ops = batch[t].ops /\ b.bad = batch[t].bad
           /\ \A q \in Pages : b.adds[q] \subseteq batch[t].adds[q] /\ b.rets[q] \subseteq batch[t].rets[q]
  BY BeginEdits
<1>2. b.bad \subseteq DocsOf(t) /\ \A q \in Pages : b.adds[q] \cup b.rets[q] \subseteq DocsOf(t)
  BY <1>1 DEF ClaimInv, BatchSound, Sound
<1> QED
  BY <1>1, <1>2, Edited

-----------------------------------------------------------------------------
(* One batch at a time works on a document                                  *)

\* A set of numbers with a bound has a greatest element.
LEMMA GreatestExists ==
  ASSUME NEW n \in Nat, NEW T \in SUBSET (1 .. n), T # {}
  PROVE  \E k \in T : \A j \in T : j <= k
<1> DEFINE U == {n - k : k \in T}
<1>0. \A k \in T : k \in Nat /\ n - k \in Nat
  OBVIOUS
<1>1. U \subseteq Nat /\ U # {}
  BY <1>0
<1>2. PICK u \in U : \A v \in U : ~(<<v, u>> \in OpToRel(<, Nat))
  BY <1>1, NatLessThanWellFounded, WFMin
<1>3. \A v \in U : ~(v < u)
  BY <1>1, <1>2 DEF OpToRel
<1>4. PICK k \in T : u = n - k
  BY <1>2
<1>5. \A j \in T : ~(n - j < n - k)
  BY <1>3, <1>4
<1> QED
  BY <1>0, <1>4, <1>5

\* Every document of a claim has an operation that counts.
LEMMA LastExists ==
  ASSUME TypeOK, NEW rs \in SUBSET rows, NEW r \in rs
  PROVE  \E q \in LastOps(rs) : q.doc = r.doc
<1> DEFINE T == {q.id : q \in {x \in rs : x.doc = r.doc}}
<1>1. T \in SUBSET (1 .. lastId) /\ T # {} /\ lastId \in Nat
  BY DEF TypeOK
<1>2. PICK k \in T : \A j \in T : j <= k
  <2> HIDE DEF T
  <2> QED
    BY <1>1, GreatestExists
<1>3. PICK q \in rs : q.doc = r.doc /\ q.id = k
  BY <1>2
<1>4. \A s \in rs : s.doc = q.doc => s.id <= q.id
  BY <1>2, <1>3
<1> QED
  BY <1>3, <1>4 DEF LastOps

\* What a claim does to the rows.
LEMMA ClaimRows ==
  ASSUME TypeOK, NEW ids, NEW c \in Claims
  PROVE  /\ \A q \in SetClaim(ids, c) : \E r \in rows :
              /\ Same(r, q)
              /\ q.claim = IF r.id \in ids THEN c ELSE r.claim
         /\ \A r \in rows : \E q \in SetClaim(ids, c) :
              /\ Same(r, q)
              /\ q.claim = IF r.id \in ids THEN c ELSE r.claim
<1>1. \A r \in rows : LET q == [r EXCEPT !.claim = IF r.id \in ids THEN c ELSE @] IN
        Same(r, q) /\ q.claim = IF r.id \in ids THEN c ELSE r.claim
  BY DEF TypeOK, Row, Same
<1> QED
  BY <1>1 DEF SetClaim

\* A row that is not named keeps its claim.
LEMMA ClaimRowsLeft ==
  ASSUME TypeOK, NEW ids, NEW c \in Claims, NEW r \in rows, r.id \notin ids
  PROVE  \E q \in SetClaim(ids, c) : q.id = r.id /\ q.claim = r.claim
<1>1. PICK q \in SetClaim(ids, c) :
        /\ Same(r, q)
        /\ q.claim = IF r.id \in ids THEN c ELSE r.claim
  BY ClaimRows
<1> QED
  BY <1>1 DEF Same

\* Nothing but rows that were there.
LEMMA RowsFromRows ==
  ASSUME TypeOK, UNCHANGED lastId, \A q \in rows' : \E r \in rows : Same(r, q)
  PROVE  RowsKept
<1>1. \A q \in rows' : ~(q.id > lastId)
  BY DEF Same, TypeOK
<1> QED
  BY <1>1 DEF RowsKept, Same, TypeOK

\* Counting a failure or changing the claim leaves a row the same.
LEMMA RowUnchanged ==
  ASSUME NEW x \in Row
  PROVE  /\ Same(x, [x EXCEPT !.fails = @ + 1, !.claim = "free"])
         /\ Same(x, [x EXCEPT !.fails = @ + 1])
         /\ Same(x, [x EXCEPT !.claim = IF @ = "fresh" THEN "aging" ELSE @])
BY DEF Row, Same

\* Changing claims keeps the rows.
LEMMA ClaimRowsKept ==
  ASSUME TypeOK, NEW ids, NEW c \in Claims, rows' = SetClaim(ids, c), UNCHANGED lastId
  PROVE  RowsKept
<1>1. \A q \in rows' : \E r \in rows : Same(r, q)
  BY ClaimRows
<1> QED
  BY <1>1, RowsFromRows

\* A claim takes only documents that no other batch works on.
LEMMA Claiming ==
  ASSUME ClaimInv, TypeOK', NEW t \in Tasks, Claim(t)
  PROVE  ClaimInv'
<1> DEFINE taken == {r \in rows : r.doc \in Chosen}
<1>1. /\ rows' = SetClaim(Ids(taken), "fresh") /\ UNCHANGED <<lastId, exposed>>
      /\ at[t] = "claim" /\ taken \subseteq rows
  BY DEF Claim, ghosts
<1>2. /\ batch'[t].ids = Ids(taken)
      /\ batch'[t].ops = {r \in rows' : r.id \in Ids(LastOps(taken))}
      /\ batch'[t].bad = batch[t].bad
      /\ batch'[t].adds = batch[t].adds /\ batch'[t].rets = batch[t].rets
      /\ batch'[t].drained = batch[t].drained
      /\ \A s \in Tasks \ {t} : batch'[s] = batch[s]
  <2>1. batch[t] \in Batch /\ batch \in [Tasks -> Batch]
    BY BatchOf DEF ClaimInv, TypeOK
  <2>2. batch' = [batch EXCEPT ![t] = [batch[t] EXCEPT !.ids = Ids(taken),
                          !.ops = {r \in rows' : r.id \in Ids(LastOps(taken))}]]
    BY DEF Claim, Remember
  <2> HIDE DEF taken
  <2> QED
    BY <2>1, <2>2 DEF Batch
<1>3. at'[t] = (IF taken = {} THEN "recheck" ELSE "work") /\ \A s \in Tasks \ {t} : at'[s] = at[s]
  BY DEF Claim, Goto, ClaimInv, TypeOK
<1>4. Blank(batch[t])
  BY <1>1 DEF ClaimInv, BatchSound, Sound
<1>5. RowsKept
  BY <1>1, ClaimRowsKept DEF Claims, ClaimInv
<1>6. /\ \A r \in rows : \E q \in rows' :
           Same(r, q) /\ q.claim = (IF r.id \in Ids(taken) THEN "fresh" ELSE r.claim)
      /\ \A q \in rows' : \E r \in rows :
           Same(r, q) /\ q.claim = (IF r.id \in Ids(taken) THEN "fresh" ELSE r.claim)
  <2> DEFINE ids == Ids(taken)
  <2>1. rows' = SetClaim(ids, "fresh") /\ "fresh" \in Claims /\ TypeOK
    BY <1>1 DEF Claims, ClaimInv
  <2> HIDE DEF ids
  <2>2. /\ \A r \in rows : \E q \in rows' :
             Same(r, q) /\ q.claim = (IF r.id \in ids THEN "fresh" ELSE r.claim)
        /\ \A q \in rows' : \E r \in rows :
             Same(r, q) /\ q.claim = (IF r.id \in ids THEN "fresh" ELSE r.claim)
    BY <2>1, ClaimRows
  <2> QED
    BY <2>2 DEF ids
<1>8. \A r \in rows : Claimed(r) => \E q \in rows' : q.id = r.id /\ Claimed(q)
  BY <1>6 DEF Claimed, Same
<1>9. OneOpPerId /\ OneOpPerId'
  BY <1>5, IdsStay DEF ClaimInv
<1>10. \A q \in rows' : q.id \in Ids(taken) =>
         \E r \in taken : Same(r, q)
  BY <1>1, <1>6, <1>9 DEF Ids, Same, OneOpPerId
<1>11. Ids(LastOps(taken)) \subseteq Ids(taken)
  BY DEF Ids, LastOps
<1>12. \A s \in Tasks \ {t} : Kept(s) \/ Idle(s)
  BY <1>2, <1>3, BystanderStays DEF Bystander
<1>13. ClaimsKept
  <2> SUFFICES ASSUME NEW s \in Tasks, NEW r \in rows, Claimed(r)
               PROVE  \E q \in rows' : q.id = r.id /\ Claimed(q)
    BY DEF ClaimsKept
  <2> QED
    BY <1>8
<1>14. \A q \in rows' : q.id \in batch'[t].ids => q.doc \in DocsOf(t)'
  <2> SUFFICES ASSUME NEW q \in rows', q.id \in Ids(taken)
               PROVE  \E o \in batch'[t].ops : o.doc = q.doc
    BY <1>2 DEF DocsOf
  <2>1. PICK r \in taken : Same(r, q)
    BY <1>10
  <2>2. PICK l \in LastOps(taken) : l.doc = r.doc
    <3> HIDE DEF taken
    <3> QED
      BY <1>1, <2>1, LastExists DEF ClaimInv
  <2>3. l \in rows /\ l.id \in Ids(LastOps(taken))
    BY <2>2 DEF LastOps, Ids
  <2>4. PICK o \in rows' : Same(l, o)
    BY <1>6, <2>3
  <2> QED
    BY <1>2, <2>1, <2>2, <2>3, <2>4 DEF Same
<1>15. Sound(t)'
  <2>1. batch'[t].ids \subseteq 1 .. lastId'
    BY <1>1, <1>2 DEF Ids, ClaimInv, TypeOK
  <2>2. \A o \in batch'[t].ops : o \in rows' /\ o.id \in batch'[t].ids
    BY <1>2, <1>11
  <2>3. \A o \in batch'[t].ops, r \in rows' : r.id = o.id => r.doc = o.doc /\ r.op = o.op
    BY <1>9, <2>2 DEF OneOpPerId
  <2>4. at'[t] \notin {"work", "settle"} => Blank(batch'[t])
    <3> SUFFICES ASSUME taken = {}
                 PROVE  Blank(batch'[t])
      BY <1>3
    <3>1. Ids(taken) = {}
      BY DEF Ids
    <3> QED
      BY <1>2, <1>4, <1>11, <3>1 DEF Blank
  <2>5. batch'[t].bad = {} /\ \A p \in Pages : batch'[t].adds[p] \cup batch'[t].rets[p] = {}
    BY <1>2, <1>4 DEF Blank
  <2> QED
    BY <1>14, <2>1, <2>2, <2>3, <2>4, <2>5 DEF Sound, Blank
<1>16. BatchSound'
  BY <1>5, <1>12, <1>15, SoundStays DEF BatchSound
<1>17. \A d \in Docs : Works(t, d)' =>
         /\ d \in Chosen
         /\ \E o \in batch'[t].ops : o.doc = d /\ o \in rows' /\ o.claim = "fresh"
  <2> SUFFICES ASSUME NEW d \in Docs, Works(t, d)'
               PROVE  /\ d \in Chosen
                      /\ \E o \in batch'[t].ops : o.doc = d /\ o \in rows' /\ o.claim = "fresh"
    OBVIOUS
  <2>1. batch'[t].bad = {}
    BY <1>2, <1>4 DEF Blank
  <2>2. PICK o \in batch'[t].ops : o.doc = d
    BY <2>1 DEF Works, DocsOf
  <2>3. o \in rows' /\ o.id \in Ids(taken)
    BY <1>2, <1>11, <2>2
  <2>4. PICK r \in taken : Same(r, o)
    BY <1>10, <2>3
  <2>5. o.claim = "fresh"
    BY <1>6, <2>3 DEF Same
  <2> QED
    BY <2>2, <2>3, <2>4, <2>5 DEF Same
<1>18. \A s \in Tasks \ {t} : Holds(s)' /\ \A d \in Docs : Works(s, d)' => Works(s, d)
  BY <1>1, <1>12, <1>13, HoldsStays
<1>19. Holds(t)'
  BY <1>17 DEF Holds, Claimed
<1>20. \A s \in Tasks \ {t}, d \in Docs : Works(s, d)' /\ Works(t, d)' => d \in exposed
  <2> SUFFICES ASSUME NEW s \in Tasks \ {t}, NEW d \in Docs \ exposed, Works(s, d), d \in Chosen
               PROVE  FALSE
    BY <1>17, <1>18
  <2>1. PICK o \in batch[s].ops, r \in rows : o.doc = d /\ r.id = o.id /\ Claimed(r)
    BY DEF ClaimInv, HoldsItsClaim, Holds
  <2>2. r.doc = d
    BY <2>1 DEF ClaimInv, BatchSound, Sound
  <2> QED
    BY <2>1, <2>2 DEF Chosen, Eligible
<1>21. SingleWorker'
  BY <1>1, <1>18, <1>20 DEF SingleWorker, ClaimInv
<1> QED
  BY <1>9, <1>16, <1>18, <1>19, <1>21 DEF ClaimInv, HoldsItsClaim

\* Rows that go away, or change hands, are of documents that no other batch is
\* at work on.
LEMMA OthersKeepTheirClaims ==
  ASSUME ClaimInv, NEW t \in Tasks, NEW d \in Docs, Works(t, d), UNCHANGED exposed,
         \A s \in Tasks \ {t}, c \in Docs : Works(s, c)' => Works(s, c),
         ~Works(t, d)', \A c \in Docs : Works(t, c)' => Works(t, c),
         \A r \in rows : r.doc # d => r \in rows'
  PROVE  ClaimsKept
<1> SUFFICES ASSUME NEW s \in Tasks, NEW c \in Docs \ exposed', Works(s, c)',
                    NEW o \in batch[s].ops, NEW r \in rows,
                    o.doc = c, r.id = o.id, Claimed(r)
             PROVE  \E q \in rows' : q.id = r.id /\ Claimed(q)
  BY DEF ClaimsKept
<1>1. r.doc = c
  BY DEF ClaimInv, BatchSound, Sound
<1>2. c # d
  BY DEF ClaimInv, SingleWorker
<1> QED
  BY <1>1, <1>2

\* The operation of a document that the batch is at work on.
LEMMA OpOfType ==
  ASSUME ClaimInv, NEW t \in Tasks, NEW d \in DocsOf(t)
  PROVE  OpOf(t, d) \in batch[t].ops /\ OpOf(t, d).doc = d
BY DEF OpOf, DocsOf

\* The rows of an operation are rows of its document.
LEMMA RowOfOp ==
  ASSUME ClaimInv, NEW t \in Tasks, NEW o \in batch[t].ops, NEW r \in rows, r.id = o.id
  PROVE  r.doc = o.doc /\ r.op = o.op
BY DEF ClaimInv, BatchSound, Sound

\* A trim takes no row from under another batch.
LEMMA Trimming ==
  ASSUME ClaimInv, TypeOK', NEW t \in Tasks, Trim(t)
  PROVE  ClaimInv'
<1>0. batch[t] \in Batch /\ batch \in [Tasks -> Batch] /\ at \in [Tasks -> Steps \cup {"absent", "pending"}]
  BY BatchOf DEF ClaimInv, TypeOK
<1>1. /\ at[t] = "work" /\ at'[t] = "settle" /\ UNCHANGED <<lastId, exposed>>
      /\ \A s \in Tasks \ {t} : at'[s] = at[s]
  BY <1>0 DEF Trim, Applied, Goto, ghosts
<1>2. /\ batch'[t].ids = batch[t].ids /\ batch'[t].ops = batch[t].ops
      /\ batch'[t].bad = batch[t].bad
      /\ batch'[t].adds = batch[t].adds /\ batch'[t].rets = batch[t].rets
      /\ \A s \in Tasks \ {t} : batch'[s] = batch[s]
  BY <1>0 DEF Trim, Remember, Batch
<1>3. \A r \in rows : r.id \notin batch[t].ids \/ r.id \in Ids(BadOps(t)) => r \in rows'
  BY DEF Trim
<1>4. rows' \subseteq rows
  BY DEF Trim
<1>5. RowsKept
  BY <1>1, <1>4 DEF RowsKept, Same, ClaimInv, TypeOK
<1>6. \A s \in Tasks \ {t} : Kept(s) \/ Idle(s)
  BY <1>1, <1>2, BystanderStays DEF Bystander
<1>7. Kept(t)
  BY <1>1, <1>2 DEF Kept, Works, ClaimInv, BatchSound, Sound
<1>8. ClaimsKept
  <2> SUFFICES ASSUME NEW s \in Tasks, NEW c \in Docs \ exposed', Works(s, c)',
                      NEW o \in batch[s].ops, NEW r \in rows,
                      o.doc = c, r.id = o.id, Claimed(r), r \notin rows'
               PROVE  FALSE
    BY DEF ClaimsKept
  <2>1. r.id \in batch[t].ids /\ r.id \notin Ids(BadOps(t))
    BY <1>3
  <2>2. CASE s = t
    <3>1. c \in batch[t].bad
      BY <1>1, <1>2, <2>2 DEF Works
    <3> QED
      BY <2>1, <2>2, <3>1 DEF BadOps, Ids
  <2>3. CASE s # t
    <3>1. Works(s, c)
      BY <1>1, <1>2, <2>3 DEF Works, DocsOf
    <3>2. r.doc = c /\ r.doc \in DocsOf(t)
      BY <1>1, <2>1, RowOfOp DEF ClaimInv, BatchSound, Sound
    <3>3. Works(t, c)
      BY <1>1, <3>2 DEF Works
    <3> QED
      BY <1>1, <2>3, <3>1, <3>3 DEF ClaimInv, SingleWorker
  <2> QED
    BY <2>2, <2>3
<1> QED
  BY <1>1, <1>5, <1>6, <1>7, <1>8, Preserved

\* Settling the failed operation of one document.
LEMMA Requeuing ==
  ASSUME ClaimInv, TypeOK', NEW t \in Tasks, NEW d \in batch[t].bad, at[t] = "settle",
         NEW b \in Batch, Remember(t, b), UNCHANGED <<lastId, at, exposed>>,
         b.ids = batch[t].ids, b.ops = batch[t].ops, b.bad = batch[t].bad \ {d},
         b.adds = batch[t].adds, b.rets = batch[t].rets,
         LET r == {x \in rows : x.id = OpOf(t, d).id} IN
           \/ rows' = rows
           \/ rows' = rows \ r
           \/ rows' = (rows \ r) \cup {[x EXCEPT !.fails = @ + 1, !.claim = "free"] : x \in r}
           \/ rows' = (rows \ r) \cup {[x EXCEPT !.fails = @ + 1] : x \in r}
  PROVE  ClaimInv'
<1> DEFINE o == OpOf(t, d)
           r == {x \in rows : x.id = o.id}
<1>0. batch'[t] = b /\ \A s \in Tasks \ {t} : batch'[s] = batch[s]
  BY DEF Remember, ClaimInv, TypeOK
<1>1. d \in DocsOf(t) /\ d \in Docs
  BY BatchOf, BatchFields DEF ClaimInv, TypeOK, BatchSound, Sound
<1>2. o \in batch[t].ops /\ o.doc = d
  BY <1>1, OpOfType
<1>3. \A x \in r : x.doc = d
  BY <1>2, RowOfOp
<1>4. \A x \in rows : /\ Same(x, [x EXCEPT !.fails = @ + 1, !.claim = "free"])
                      /\ Same(x, [x EXCEPT !.fails = @ + 1])
  BY RowUnchanged DEF ClaimInv, TypeOK
<1>5. \A q \in rows' : \E x \in rows : Same(x, q)
  <2> DEFINE back == {[x EXCEPT !.fails = @ + 1, !.claim = "free"] : x \in r}
             kept == {[x EXCEPT !.fails = @ + 1] : x \in r}
  <2>1. \A q \in back \cup kept : \E x \in rows : Same(x, q)
    BY <1>4
  <2>2. rows' \subseteq rows \cup back \cup kept
    OBVIOUS
  <2>3. \A x \in rows : Same(x, x)
    BY DEF Same
  <2> QED
    BY <2>1, <2>2, <2>3
<1>6. RowsKept
  BY <1>5, RowsFromRows DEF ClaimInv
<1>7. \A x \in rows : x.doc # d => x \in rows'
  BY <1>3
<1>8. \A s \in Tasks \ {t} : Kept(s) \/ Idle(s)
  BY <1>0, BystanderStays DEF Bystander
<1>9. DocsOf(t)' = DocsOf(t)
  BY <1>0 DEF DocsOf
<1>10. Kept(t) /\ ~Works(t, d)' /\ Works(t, d)
  <2>1. \A c \in Docs : Works(t, c)' => c \in batch[t].bad \ {d}
    BY <1>0 DEF Works
  <2> QED
    BY <1>0, <1>9, <2>1 DEF Kept, Works, ClaimInv, BatchSound, Sound
<1>11. \A s \in Tasks, c \in Docs : Works(s, c)' => Works(s, c)
  BY <1>8, <1>10 DEF Kept, Idle, Works
<1>12. ClaimsKept
  BY <1>1, <1>7, <1>10, <1>11, OthersKeepTheirClaims
<1> QED
  BY <1>6, <1>8, <1>10, <1>12, Preserved

\* Every document whose claim the release takes away is exposed.
LEMMA Releasing ==
  ASSUME ClaimInv, TypeOK', NEW t \in Tasks, SettleFailed(t)
  PROVE  ClaimInv'
<1>1. /\ Forget(t) /\ at'[t] = "pending" /\ UNCHANGED lastId /\ exposed \subseteq exposed'
      /\ \A s \in Tasks \ {t} : at'[s] = at[s] /\ batch'[s] = batch[s]
  BY Forgotten DEF SettleFailed, Goto, ClaimInv, TypeOK
<1>2. CASE UNCHANGED rows
  <2>1. RowsKept /\ ClaimsKept
    BY <1>1, <1>2 DEF RowsKept, ClaimsKept, Same, ClaimInv, TypeOK
  <2> QED
    BY <1>1, <2>1, Ended
<1>3. CASE /\ rows' = SetClaim(batch[t].ids, "free")
           /\ exposed' = exposed \cup {d \in Exposing(batch[t].ids) :
                                         \E x \in Tasks \ {t} : Works(x, d)}
  <2>1. RowsKept
    BY <1>1, <1>3, ClaimRowsKept DEF ClaimInv, Claims
  <2>2. \A r \in rows : r.id \notin batch[t].ids => \E q \in rows' : q.id = r.id /\ q.claim = r.claim
    BY <1>3, ClaimRowsLeft DEF ClaimInv, Claims
  <2>3. ClaimsKept
    <3> SUFFICES ASSUME NEW s \in Tasks, NEW c \in Docs \ exposed', Works(s, c)',
                        NEW o \in batch[s].ops, NEW r \in rows,
                        o.doc = c, r.id = o.id, Claimed(r)
                 PROVE  \E q \in rows' : q.id = r.id /\ Claimed(q)
      BY DEF ClaimsKept
    <3>1. s # t
      BY <1>1 DEF Works
    <3>2. Works(s, c)
      BY <1>1, <3>1 DEF Works, DocsOf
    <3>3. o.id \notin batch[t].ids
      BY <1>3, <3>1, <3>2 DEF Exposing
    <3> QED
      BY <2>2, <3>3 DEF Claimed
  <2> QED
    BY <1>1, <2>1, <2>3, Ended
<1> QED
  BY <1>2, <1>3 DEF SettleFailed

\* Only claims that no running batch stands for become stale.
LEMMA Aging ==
  ASSUME ClaimInv, TypeOK', NEW r \in rows, ClaimAges(r)
  PROVE  ClaimInv'
<1>1. rows' = SetClaim({r.id}, "stale") /\ UNCHANGED <<lastId, at, batch, exposed>>
  BY DEF ClaimAges, ghosts
<1>2. RowsKept
  BY <1>1, ClaimRowsKept DEF ClaimInv, Claims
<1>3. \A x \in rows : x.id # r.id => \E q \in rows' : q.id = x.id /\ q.claim = x.claim
  BY <1>1, ClaimRowsLeft DEF ClaimInv, Claims
<1>4. ClaimsKept
  <2> SUFFICES ASSUME NEW s \in Tasks, NEW c \in Docs, Works(s, c)',
                      NEW o \in batch[s].ops, NEW x \in rows,
                      o.doc = c, x.id = o.id, Claimed(x)
               PROVE  \E q \in rows' : q.id = x.id /\ Claimed(q)
    BY DEF ClaimsKept
  <2>1. Active(s)
    BY <1>1 DEF Works, Active, Steps
  <2>2. o.id \in batch[s].ids
    BY DEF ClaimInv, BatchSound, Sound
  <2>3. x.id # r.id
    BY <2>1, <2>2 DEF ClaimAges
  <2> QED
    BY <1>3, <2>3 DEF Claimed
<1>5. \A s \in Tasks : Kept(s) \/ Idle(s)
  BY <1>1, BystanderStays DEF Bystander
<1> QED
  BY <1>1, <1>2, <1>4, <1>5, Preserved

\* Arming the recheck keeps every claim in force.
LEMMA Rechecking ==
  ASSUME ClaimInv, TypeOK', NEW t \in Tasks, ArmRecheck(t)
  PROVE  ClaimInv'
<1>1. /\ Forget(t) /\ at'[t] = "absent" /\ UNCHANGED <<lastId, exposed>>
      /\ \A s \in Tasks \ {t} : at'[s] = at[s] \/ (at[s] = "absent" /\ at'[s] = "pending")
  BY TaskNames DEF ArmRecheck, Arm, Goto, ClaimInv, TypeOK
<1>2. CASE UNCHANGED rows
  <2>1. RowsKept /\ ClaimsKept
    BY <1>1, <1>2, RowsStill DEF ClaimInv
  <2> QED
    BY <1>1, <2>1, Ended
<1>3. CASE rows' = {[r EXCEPT !.claim = IF @ = "fresh" THEN "aging" ELSE @] : r \in rows}
  <2>1. \A r \in rows : LET q == [r EXCEPT !.claim = IF @ = "fresh" THEN "aging" ELSE @] IN
          Same(r, q) /\ (Claimed(r) => Claimed(q))
    BY DEF ClaimInv, TypeOK, Row, Same, Claimed
  <2>2. RowsKept
    BY <1>1, <1>3, <2>1, RowsFromRows DEF ClaimInv
  <2>3. ClaimsKept
    <3>1. ASSUME NEW r \in rows, Claimed(r)
          PROVE  \E q \in rows' : q.id = r.id /\ Claimed(q)
      <4> DEFINE q == [r EXCEPT !.claim = IF @ = "fresh" THEN "aging" ELSE @]
      <4>1. q \in rows'
        BY <1>3
      <4>2. q.id = r.id /\ Claimed(q)
        BY <2>1, <3>1 DEF Same
      <4> HIDE DEF q
      <4> QED
        BY <4>1, <4>2
    <3> QED
      BY <3>1 DEF ClaimsKept
  <2> QED
    BY <1>1, <2>2, <2>3, Ended
<1> QED
  BY <1>2, <1>3 DEF ArmRecheck

\* Every step keeps the invariant: one case per action.
LEMMA ClaimStep ==
  ASSUME ClaimInv, TypeOK', Next
  PROVE  ClaimInv'
<1>0. TypeOK /\ batch \in [Tasks -> Batch] /\ at \in [Tasks -> Steps \cup {"absent", "pending"}]
  BY DEF ClaimInv, TypeOK
<1> USE DEF table, wiki, docs, deletion, mishaps, ghosts
<1>1. ASSUME NEW d \in Docs, Seed(d) PROVE ClaimInv'
  <2>1. RowsKept /\ ClaimsKept /\ exposed \subseteq exposed'
    BY <1>0, <1>1, RowsAdded DEF Seed
  <2>2. \A s \in Tasks : Kept(s) \/ Idle(s)
    BY <1>1, BystanderStays DEF Seed, Bystander
  <2> QED
    BY <2>1, <2>2, Preserved
<1>2. ASSUME NEW d \in Docs, TriggerIngest(d) PROVE ClaimInv'
  <2>1. RowsKept /\ ClaimsKept /\ exposed \subseteq exposed'
    BY <1>0, <1>2, RowsStill DEF TriggerIngest
  <2>2. \A s \in Tasks : Kept(s) \/ Idle(s)
    BY <1>0, <1>2, EnqueueBystanders, BystanderStays DEF TriggerIngest, Bystander
  <2> QED
    BY <2>1, <2>2, Preserved
<1>3. ASSUME NEW d \in Docs, Reparse(d) PROVE ClaimInv'
  <2>1. RowsKept /\ ClaimsKept /\ exposed \subseteq exposed'
    BY <1>3, Scrubbed DEF Reparse
  <2>2. \A s \in Tasks : Kept(s) \/ Idle(s)
    BY <1>3, BystanderStays DEF Reparse, Bystander
  <2> QED
    BY <2>1, <2>2, Preserved
<1>4. ASSUME UNCHANGED <<table, at, batch, exposed>> PROVE ClaimInv'
  <2>1. RowsKept /\ ClaimsKept /\ exposed \subseteq exposed'
    BY <1>0, <1>4, RowsStill
  <2>2. \A s \in Tasks : Kept(s) \/ Idle(s)
    BY <1>4, BystanderStays DEF Bystander
  <2> QED
    BY <2>1, <2>2, Preserved
<1>5. ASSUME NEW d \in Docs, DeleteScrub(d) PROVE ClaimInv'
  <2>1. CASE UNCHANGED <<rows, exposed>>
    BY <1>4, <1>5, <2>1 DEF DeleteScrub
  <2>2. CASE Scrub(d) /\ exposed' = exposed \cup Exposing(Ids(IngestRows(d)))
    <3>1. RowsKept /\ ClaimsKept /\ exposed \subseteq exposed'
      BY <1>5, <2>2, Scrubbed DEF DeleteScrub
    <3>2. \A s \in Tasks : Kept(s) \/ Idle(s)
      BY <1>5, BystanderStays DEF DeleteScrub, Bystander
    <3> QED
      BY <3>1, <3>2, Preserved
  <2> QED
    BY <1>5, <2>1, <2>2 DEF DeleteScrub
<1>6. ASSUME NEW d \in Docs, DeleteRetract(d) PROVE ClaimInv'
  <2>1. CASE UNCHANGED table
    BY <1>4, <1>6, <2>1 DEF DeleteRetract
  <2>2. CASE Insert(d, "retract", slugs[d])
    <3>1. RowsKept /\ ClaimsKept /\ exposed \subseteq exposed'
      BY <1>0, <1>6, <2>2, RowsAdded DEF DeleteRetract
    <3>2. \A s \in Tasks : Kept(s) \/ Idle(s)
      BY <1>6, BystanderStays DEF DeleteRetract, Bystander
    <3> QED
      BY <3>1, <3>2, Preserved
  <2> QED
    BY <1>6, <2>1, <2>2 DEF DeleteRetract
<1>7. ASSUME NEW d \in Docs, DeleteTrigger(d) PROVE ClaimInv'
  <2>1. RowsKept /\ ClaimsKept /\ exposed \subseteq exposed'
    BY <1>0, <1>7, RowsStill DEF DeleteTrigger
  <2>2. \A s \in Tasks : Kept(s) \/ Idle(s)
    BY <1>0, <1>7, EnqueueBystanders, BystanderStays DEF DeleteTrigger, Bystander
  <2> QED
    BY <2>1, <2>2, Preserved
<1>8. ASSUME NEW t \in Tasks, Start(t) PROVE ClaimInv'
  <2>1. RowsKept /\ ClaimsKept /\ exposed \subseteq exposed'
    BY <1>0, <1>8, RowsStill DEF Start
  <2>2. at[t] = "pending" /\ Blank(batch[t])
    BY <1>8 DEF Start, Taken, ClaimInv, BatchSound, Sound
  <2>3. Blank([batch[t] EXCEPT !.slot = TRUE])
    BY <1>0, <2>2, BatchOf DEF Blank, Batch
  <2>4. Idle(t)
    BY <1>0, <1>8, <2>2, <2>3 DEF Start, Goto, Remember, Idle
  <2>5. \A s \in Tasks \ {t} : Bystander(s)
    BY <1>0, <1>8 DEF Start, Goto, Remember, Bystander
  <2> QED
    BY <2>1, <2>4, <2>5, BystanderStays, Preserved
<1>9. ASSUME NEW t \in Tasks, TurnedAway(t) PROVE ClaimInv'
  <2>1. RowsKept /\ ClaimsKept /\ exposed \subseteq exposed'
    BY <1>0, <1>9, RowsStill DEF TurnedAway
  <2>2. /\ Forget(t) /\ at'[t] \in {"absent", "pending"}
        /\ \A s \in Tasks \ {t} : at'[s] = at[s] \/ (at[s] = "absent" /\ at'[s] = "pending")
    BY <1>0, <1>9, TaskNames DEF TurnedAway, Arm, Goto
  <2> QED
    BY <2>1, <2>2, Ended
<1>10. ASSUME NEW t \in Tasks, Forget(t), at'[t] = "pending" \/ at'[t] = "absent",
              \A s \in Tasks \ {t} : at'[s] = at[s] \/ (at[s] = "absent" /\ at'[s] = "pending"),
              UNCHANGED <<table, exposed>>
       PROVE ClaimInv'
  <2>1. RowsKept /\ ClaimsKept /\ exposed \subseteq exposed'
    BY <1>0, <1>10, RowsStill
  <2> QED
    BY <1>10, <2>1, Ended
<1>11. ASSUME NEW t \in Tasks, ClaimFails(t) PROVE ClaimInv'
  BY <1>0, <1>10, <1>11 DEF ClaimFails, Goto
<1>12. ASSUME NEW t \in Tasks, Crash(t) PROVE ClaimInv'
  BY <1>0, <1>10, <1>12 DEF Crash, Goto
<1>13. ASSUME NEW t \in Tasks, FollowUp(t) PROVE ClaimInv'
  <2> DEFINE old == [at EXCEPT ![t] = "absent"]
  <2>1. at' = old \/ Enqueue(old)
    BY <1>13 DEF FollowUp, Goto
  <2>2. old \in [Tasks -> Steps \cup {"absent", "pending"}] /\ old[t] = "absent"
        /\ \A s \in Tasks \ {t} : old[s] = at[s]
    BY <1>0
  <2>3. \A s \in Tasks : at'[s] = old[s] \/ (old[s] = "absent" /\ at'[s] = "pending")
    BY <2>1, <2>2, EnqueueBystanders
  <2> QED
    BY <1>10, <1>13, <2>2, <2>3 DEF FollowUp
<1>14. ASSUME NEW t \in Tasks, NEW d \in Docs, MapRetract(t, d) PROVE ClaimInv'
  <2>0. at[t] = "work" /\ d \in DocsOf(t) /\ batch[t] \in Batch
    BY <1>0, <1>14 DEF MapRetract, Unmapped
  <2>1. PICK ps : Remember(t, [batch[t] EXCEPT !.mapped = @ \cup {d}, !.rets = AddTo(@, ps, d)])
    BY <1>14 DEF MapRetract
  <2> DEFINE b == [batch[t] EXCEPT !.mapped = @ \cup {d}, !.rets = AddTo(@, ps, d)]
  <2>2. /\ b \in Batch /\ b.ids = batch[t].ids /\ b.ops = batch[t].ops /\ b.bad = batch[t].bad
        /\ b.adds = batch[t].adds /\ \A p \in Pages : b.rets[p] \subseteq batch[t].rets[p] \cup {d}
    BY <2>0 DEF Batch, AddTo
  <2>3. b.bad \subseteq DocsOf(t) /\ \A p \in Pages : b.adds[p] \cup b.rets[p] \subseteq DocsOf(t)
    BY <2>0, <2>2 DEF ClaimInv, BatchSound, Sound
  <2>4. UNCHANGED <<table, at, exposed>>
    BY <1>14 DEF MapRetract
  <2> HIDE DEF b
  <2>5. Remember(t, b)
    BY <2>1 DEF b
  <2> QED
    BY <2>0, <2>2, <2>3, <2>4, <2>5, Edited
<1>15. ASSUME NEW t \in Tasks, NEW d \in Docs, MapIngest(t, d) PROVE ClaimInv'
  <2>0. at[t] = "work" /\ d \in DocsOf(t) /\ batch[t] \in Batch
    BY <1>0, <1>15 DEF MapIngest, Unmapped
  <2> DEFINE b == [batch[t] EXCEPT !.mapped = @ \cup {d}]
             b1 == [b EXCEPT !.drained = @ \cup {d}]
             b2 == [b EXCEPT !.adds = AddTo(@, Contrib[d], d)]
             b3 == [b EXCEPT !.bad = @ \cup {d}]
  <2>1. b \in Batch /\ b.ids = batch[t].ids /\ b.ops = batch[t].ops /\ b.bad = batch[t].bad
        /\ b.adds = batch[t].adds /\ b.rets = batch[t].rets
    BY <2>0 DEF Batch
  <2>2. /\ b1 \in Batch /\ b1.ids = b.ids /\ b1.ops = b.ops /\ b1.bad = b.bad
        /\ b1.adds = b.adds /\ b1.rets = b.rets
    <3> HIDE DEF b
    <3> QED
      BY <2>1 DEF Batch
  <2>3. /\ b2 \in Batch /\ b2.ids = b.ids /\ b2.ops = b.ops /\ b2.bad = b.bad
        /\ b2.rets = b.rets /\ \A p \in Pages : b2.adds[p] \subseteq b.adds[p] \cup {d}
    <3> HIDE DEF b
    <3> QED
      BY <2>1 DEF Batch, AddTo
  <2>4. /\ b3 \in Batch /\ b3.ids = b.ids /\ b3.ops = b.ops /\ b3.bad = b.bad \cup {d}
        /\ b3.adds = b.adds /\ b3.rets = b.rets
    <3> HIDE DEF b
    <3> QED
      BY <2>1 DEF Batch
  <2>5. Remember(t, b1) \/ Remember(t, b2) \/ Remember(t, b3)
    BY <1>15 DEF MapIngest
  <2>6. UNCHANGED <<table, at, exposed>>
    BY <1>15 DEF MapIngest
  <2> HIDE DEF b, b1, b2, b3
  <2>7. /\ batch[t].bad \subseteq DocsOf(t)
        /\ \A p \in Pages : batch[t].adds[p] \cup batch[t].rets[p] \subseteq DocsOf(t)
    BY DEF ClaimInv, BatchSound, Sound
  <2>8. CASE Remember(t, b1)
    <3>1. b1.bad \subseteq DocsOf(t) /\ \A p \in Pages : b1.adds[p] \cup b1.rets[p] \subseteq DocsOf(t)
      BY <2>1, <2>2, <2>7
    <3> QED
      BY <2>0, <2>1, <2>2, <2>6, <2>8, <3>1, Edited
  <2>9. CASE Remember(t, b2)
    <3>1. b2.bad \subseteq DocsOf(t) /\ \A p \in Pages : b2.adds[p] \cup b2.rets[p] \subseteq DocsOf(t)
      BY <2>0, <2>1, <2>3, <2>7
    <3> QED
      BY <2>0, <2>1, <2>3, <2>6, <2>9, <3>1, Edited
  <2>10. CASE Remember(t, b3)
    <3>1. b3.bad \subseteq DocsOf(t) /\ \A p \in Pages : b3.adds[p] \cup b3.rets[p] \subseteq DocsOf(t)
      BY <2>0, <2>1, <2>4, <2>7
    <3> QED
      BY <2>0, <2>1, <2>4, <2>6, <2>10, <3>1, Edited
  <2> QED
    BY <2>5, <2>8, <2>9, <2>10
<1>16. ASSUME NEW t \in Tasks, NEW p \in Pages, Reducing(t, p), NEW l, Begin(t, p, l),
              UNCHANGED <<table, at, exposed>>
       PROVE ClaimInv'
  BY <1>16, BegunKeeps DEF Reducing
<1>17. ASSUME NEW t \in Tasks, NEW p \in Pages, ReduceBegin(t, p) PROVE ClaimInv'
  BY <1>16, <1>17 DEF ReduceBegin
<1>18. ASSUME NEW t \in Tasks, NEW p \in Pages, ReduceUnlocked(t, p) PROVE ClaimInv'
  BY <1>16, <1>18 DEF ReduceUnlocked
<1>19. ASSUME NEW t \in Tasks, NEW p \in Pages, at[t] \in {"work", "settle"},
              Remember(t, Over(batch[t], p)), UNCHANGED <<table, at, exposed>>
       PROVE ClaimInv'
  <2> DEFINE b == Over(batch[t], p)
  <2>1. /\ b \in Batch /\ b.ids = batch[t].ids /\ b.ops = batch[t].ops /\ b.bad = batch[t].bad
        /\ \A q \in Pages : b.adds[q] \subseteq batch[t].adds[q] /\ b.rets[q] \subseteq batch[t].rets[q]
    BY <1>0, BatchOf, EditTypes, OverFields
  <2> HIDE DEF b
  <2>2. b.bad \subseteq DocsOf(t) /\ \A q \in Pages : b.adds[q] \cup b.rets[q] \subseteq DocsOf(t)
    BY <2>1 DEF ClaimInv, BatchSound, Sound
  <2>3. Remember(t, b)
    BY <1>19 DEF b
  <2> QED
    BY <1>19, <2>1, <2>2, <2>3, Edited
<1>20. ASSUME NEW t \in Tasks, NEW p \in Pages, at[t] = "work",
              Unapplied(t, p), UNCHANGED <<table, at, exposed>>
       PROVE ClaimInv'
  <2> DEFINE o == Over(batch[t], p)
             b == [o EXCEPT !.bad = @ \cup batch[t].adds[p] \cup batch[t].rets[p]]
  <2>0. batch[t] \in Batch
    BY <1>0, BatchOf
  <2>1. /\ o \in Batch /\ o.ids = batch[t].ids /\ o.ops = batch[t].ops /\ o.bad = batch[t].bad
        /\ \A q \in Pages : o.adds[q] \subseteq batch[t].adds[q] /\ o.rets[q] \subseteq batch[t].rets[q]
    BY <2>0, EditTypes, OverFields
  <2>2. batch[t].adds[p] \subseteq Docs /\ batch[t].rets[p] \subseteq Docs
    BY <2>0, BatchFields
  <2>3. /\ b \in Batch /\ b.ids = o.ids /\ b.ops = o.ops /\ b.adds = o.adds /\ b.rets = o.rets
        /\ b.bad = o.bad \cup batch[t].adds[p] \cup batch[t].rets[p]
    <3> HIDE DEF o
    <3> QED
      BY <2>1, <2>2 DEF Batch
  <2>4. Remember(t, b)
    BY <1>20 DEF Unapplied
  <2> HIDE DEF o, b
  <2>5. b.bad \subseteq DocsOf(t) /\ \A q \in Pages : b.adds[q] \cup b.rets[q] \subseteq DocsOf(t)
    BY <2>1, <2>3 DEF ClaimInv, BatchSound, Sound
  <2> QED
    BY <1>20, <2>1, <2>3, <2>4, <2>5, Edited
<1>21. ASSUME NEW t \in Tasks, NEW p \in Pages, ReduceWaitsTooLong(t, p) PROVE ClaimInv'
  BY <1>20, <1>21 DEF ReduceWaitsTooLong, Reducing
<1>22. ASSUME NEW t \in Tasks, NEW p \in Pages, ReduceWrite(t, p) PROVE ClaimInv'
  BY <1>19, <1>20, <1>22 DEF ReduceWrite
<1>23. ASSUME NEW t \in Tasks, NEW p \in Pages, ReduceGivesUp(t, p) PROVE ClaimInv'
  BY <1>19, <1>23 DEF ReduceGivesUp
<1>24. ASSUME NEW t \in Tasks, NEW d \in Docs, DrainDone(t, d) PROVE ClaimInv'
  <2> DEFINE b == [batch[t] EXCEPT !.drained = @ \cup {d}]
  <2>1. /\ b \in Batch /\ b.ids = batch[t].ids /\ b.ops = batch[t].ops /\ b.bad = batch[t].bad
        /\ b.adds = batch[t].adds /\ b.rets = batch[t].rets
    BY <1>0, BatchOf DEF Batch
  <2>2. Remember(t, b) /\ at[t] = "work" /\ UNCHANGED <<table, at, exposed>>
    BY <1>24 DEF DrainDone, Applied
  <2>3. /\ batch[t].bad \subseteq DocsOf(t)
        /\ \A q \in Pages : batch[t].adds[q] \cup batch[t].rets[q] \subseteq DocsOf(t)
    BY DEF ClaimInv, BatchSound, Sound
  <2> HIDE DEF b
  <2> QED
    BY <2>1, <2>2, <2>3, Edited
<1>25. ASSUME NEW t \in Tasks, NEW d \in Docs, Requeue(t, d) PROVE ClaimInv'
  <2> DEFINE b == [batch[t] EXCEPT !.bad = @ \ {d}]
  <2>1. /\ b \in Batch /\ b.ids = batch[t].ids /\ b.ops = batch[t].ops /\ b.bad = batch[t].bad \ {d}
        /\ b.adds = batch[t].adds /\ b.rets = batch[t].rets
    BY <1>0, BatchOf DEF Batch
  <2>2. Remember(t, b) /\ at[t] = "settle" /\ d \in batch[t].bad /\ UNCHANGED <<lastId, at, exposed>>
    BY <1>25 DEF Requeue
  <2>3. LET r == {x \in rows : x.id = OpOf(t, d).id} IN
           \/ rows' = rows \ r
           \/ rows' = (rows \ r) \cup {[x EXCEPT !.fails = @ + 1, !.claim = "free"] : x \in r}
    BY <1>25 DEF Requeue
  <2> HIDE DEF b
  <2> QED
    BY <2>1, <2>2, <2>3, Requeuing
<1>26. ASSUME NEW t \in Tasks, NEW d \in Docs, RequeueFails(t, d) PROVE ClaimInv'
  <2> DEFINE b == [batch[t] EXCEPT !.bad = @ \ {d}, !.err = TRUE]
             c == [b EXCEPT !.drained = @ \cup {d}]
  <2>1. /\ b \in Batch /\ b.ids = batch[t].ids /\ b.ops = batch[t].ops /\ b.bad = batch[t].bad \ {d}
        /\ b.adds = batch[t].adds /\ b.rets = batch[t].rets
    BY <1>0, BatchOf DEF Batch
  <2>2. /\ c \in Batch /\ c.ids = b.ids /\ c.ops = b.ops /\ c.bad = b.bad
        /\ c.adds = b.adds /\ c.rets = b.rets
    <3> HIDE DEF b
    <3> QED
      BY <2>1 DEF Batch
  <2>3. /\ Remember(t, b) \/ Remember(t, c)
        /\ at[t] = "settle" /\ d \in batch[t].bad /\ UNCHANGED <<lastId, at, exposed>>
    BY <1>26 DEF RequeueFails
  <2>4. LET r == {x \in rows : x.id = OpOf(t, d).id} IN
           \/ rows' = rows
           \/ rows' = (rows \ r) \cup {[x EXCEPT !.fails = @ + 1] : x \in r}
    BY <1>26 DEF RequeueFails
  <2> HIDE DEF b, c
  <2>5. CASE Remember(t, b)
    BY <2>1, <2>3, <2>4, <2>5, Requeuing
  <2>6. CASE Remember(t, c)
    BY <2>1, <2>2, <2>3, <2>4, <2>6, Requeuing
  <2> QED
    BY <2>3, <2>5, <2>6
<1>27. ASSUME NEW d \in Docs, DeleteMark(d) PROVE ClaimInv'
  BY <1>4, <1>27 DEF DeleteMark
<1>28. ASSUME NEW d \in Docs, DeleteList(d) PROVE ClaimInv'
  BY <1>4, <1>28 DEF DeleteList
<1>29. ASSUME NEW d \in Docs, NEW p \in Pages, DeleteFromPage(d, p) PROVE ClaimInv'
  BY <1>4, <1>29 DEF DeleteFromPage
<1>30. ASSUME NEW p \in Pages, LockExpires(p) PROVE ClaimInv'
  BY <1>4, <1>30 DEF LockExpires
<1>31. ASSUME SlotExpires PROVE ClaimInv'
  BY <1>4, <1>31 DEF SlotExpires
<1>32. ASSUME Boot PROVE ClaimInv'
  <2>1. RowsKept /\ ClaimsKept /\ exposed \subseteq exposed'
    BY <1>0, <1>32, RowsStill DEF Boot
  <2>2. \A s \in Tasks : Kept(s) \/ Idle(s)
    BY <1>0, <1>32, EnqueueBystanders, BystanderStays DEF Boot, Bystander
  <2> QED
    BY <2>1, <2>2, Preserved
<1>33. ASSUME NEW d \in Docs, Deleting(d) PROVE ClaimInv'
  BY <1>5, <1>6, <1>7, <1>28, <1>29, <1>33 DEF Deleting
<1>34. ASSUME NEW t \in Tasks, Work(t) PROVE ClaimInv'
  BY <1>8, <1>9, <1>13, <1>14, <1>15, <1>17, <1>21, <1>22, <1>23, <1>24, <1>25, <1>34,
     Claiming, Rechecking, Trimming, Releasing DEF Work
<1>35. ASSUME NEW t \in Tasks, Mishap(t) PROVE ClaimInv'
  BY <1>11, <1>12, <1>18, <1>26, <1>35 DEF Mishap
<1>36. ASSUME Passing PROVE ClaimInv'
  BY <1>30, <1>31, <1>36, Aging DEF Passing
<1> QED
  BY <1>1, <1>2, <1>3, <1>27, <1>32, <1>33, <1>34, <1>35, <1>36 DEF Next

\* The state before anything has happened.
LEMMA ClaimInit ==
  ASSUME Init
  PROVE  ClaimInv
<1>1. TypeOK
  BY NamesAssumption, NoBatchType DEF Init, TypeOK, Steps
<1>2. \A t \in Tasks : Blank(batch[t]) /\ at[t] = "absent" /\ batch[t].ids = {}
  BY NoBatchBlank DEF Init, Blank
<1>3. \A t \in Tasks, d \in Docs : ~Works(t, d)
  BY <1>2 DEF Works
<1>4. BatchSound
  BY <1>2 DEF BatchSound, Sound, Blank
<1> QED
  BY <1>1, <1>3, <1>4 DEF ClaimInv, HoldsItsClaim, Holds, SingleWorker, OneOpPerId, Init

\* And so does a step that changes nothing.
LEMMA ClaimStutter ==
  ASSUME ClaimInv, UNCHANGED vars
  PROVE  ClaimInv'
<1>1. TypeOK'
  BY DEF ClaimInv, TypeOK, vars, table, wiki, docs, deletion, mishaps, ghosts
<1>2. \A s \in Tasks : Bystander(s)
  BY DEF Bystander, vars
<1>3. RowsKept /\ ClaimsKept /\ exposed \subseteq exposed'
  BY RowsStill DEF ClaimInv, vars, table, ghosts
<1> QED
  BY <1>1, <1>2, <1>3, BystanderStays, Preserved

\* A batch at work on a document holds the claim of its row, in every state.
THEOREM InvHolds == Spec => []ClaimInv
<1>1. ASSUME ClaimInv, [Next]_vars PROVE ClaimInv'
  BY <1>1, TypeStep, ClaimStep, ClaimStutter DEF ClaimInv
<1> QED
  BY <1>1, ClaimInit, PTL DEF Spec

\* Rows, batches and pages are of their types: TypeOK, for every set of documents,
\* every cap and every number of crashes.
THEOREM TypeCorrect == Spec => []TypeOK
<1>1. ClaimInv => TypeOK
  BY DEF ClaimInv
<1> QED
  BY <1>1, InvHolds, PTL

\* One batch at a time works on a document.
THEOREM OneWorker == Spec => []SingleWorker
<1>1. ClaimInv => SingleWorker
  BY DEF ClaimInv
<1> QED
  BY <1>1, InvHolds, PTL

-----------------------------------------------------------------------------
(* A unit of the counter that was not released has a row                    *)

\* A document that is not being deleted has one row at most, of an ingest, and
\* none before its post-processing.
RowSound ==
  \A d \in Docs : ~Gone(d) =>
    /\ \A r \in rows : r.doc = d => r.op = "ingest" /\ stage[d] # "parsing"
    /\ \A q, r \in rows : q.doc = d /\ r.doc = d => q.id = r.id

\* The document's unit is still counted.
Waits(d) == stage[d] # "parsing" /\ ~Gone(d) /\ drains[d] = 0

\* A batch that has claimed the row has its operation before it.
Bears(t, r) ==
  r.id \in batch[t].ids =>
    /\ r.doc \notin batch[t].drained
    /\ \E o \in batch[t].ops : o.id = r.id

\* A unit that was not released is owed by a row, and every batch that has
\* claimed the row will release the unit or give the row back.
Owed == \A d \in Docs : Waits(d) => \E r \in IngestRows(d) : \A t \in Tasks : Bears(t, r)

SlotInv == ClaimInv /\ RowSound /\ Owed

\* Rows that were there before.
RowsBack == \A q \in rows' : \E r \in rows : Same(r, q)

\* The row that owes the unit stays.
OwingStays ==
  \A d \in Docs : Waits(d)' =>
    \A r \in IngestRows(d) : (\A t \in Tasks : Bears(t, r)) => \E q \in rows' : Same(r, q)

\* Rows that were there before are still one per document.
LEMMA RowSoundStays ==
  ASSUME SlotInv, RowsBack, \A d \in Docs : ~Gone(d)' => ~Gone(d),
         \A d \in Docs : ~Gone(d)' /\ stage'[d] = "parsing" =>
           stage[d] = "parsing" \/ \A r \in rows' : r.doc # d
  PROVE  RowSound'
<1> SUFFICES ASSUME NEW d \in Docs, ~Gone(d)'
             PROVE  /\ \A r \in rows' : r.doc = d => r.op = "ingest" /\ stage'[d] # "parsing"
                    /\ \A q, r \in rows' : q.doc = d /\ r.doc = d => q.id = r.id
  BY DEF RowSound
<1>1. ~Gone(d)
  OBVIOUS
<1>2. \A r \in rows' : r.doc = d => r.op = "ingest" /\ stage'[d] # "parsing"
  BY <1>1 DEF SlotInv, RowSound, RowsBack, Same
<1>3. \A q, r \in rows' : q.doc = d /\ r.doc = d => q.id = r.id
  BY <1>1 DEF SlotInv, RowSound, RowsBack, Same
<1> QED
  BY <1>2, <1>3

\* The row that owes a unit still does.
LEMMA OwedStays ==
  ASSUME SlotInv, TypeOK', OwingStays, \A d \in Docs : Waits(d)' => Waits(d),
         \A s \in Tasks : \/ batch'[s].ids = {}
                          \/ /\ batch'[s].ids = batch[s].ids /\ batch'[s].ops = batch[s].ops
                             /\ \A d \in batch'[s].drained : d \in batch[s].drained \/ ~Waits(d)'
  PROVE  Owed'
<1> SUFFICES ASSUME NEW d \in Docs, Waits(d)'
             PROVE  \E q \in rows' : q.doc = d /\ q.op = "ingest" /\ \A t \in Tasks : Bears(t, q)'
  BY DEF Owed, IngestRows
<1>1. PICK r \in IngestRows(d) : \A t \in Tasks : Bears(t, r)
  BY DEF SlotInv, Owed
<1>2. PICK q \in rows' : Same(r, q)
  BY <1>1 DEF OwingStays
<1>3. q.doc = d /\ q.op = "ingest" /\ q.id = r.id /\ r.doc = d
  BY <1>2 DEF Same, IngestRows
<1>4. ASSUME NEW t \in Tasks PROVE Bears(t, q)'
  <2>1. CASE batch'[t].ids = {}
    BY <2>1 DEF Bears
  <2>2. CASE /\ batch'[t].ids = batch[t].ids /\ batch'[t].ops = batch[t].ops
             /\ \A c \in batch'[t].drained : c \in batch[t].drained \/ ~Waits(c)'
    <3>1. Bears(t, r)
      BY <1>1
    <3> QED
      BY <1>3, <2>2, <3>1 DEF Bears
  <2> QED
    BY <2>1, <2>2
<1> QED
  BY <1>3, <1>4

\* A step that leaves the documents alone.
LEMMA DocsStill ==
  ASSUME SlotInv, TypeOK', RowsBack, OwingStays, UNCHANGED <<stage, del>>,
         \A d \in Docs : drains'[d] = 0 => drains[d] = 0,
         \A s \in Tasks : \/ batch'[s].ids = {}
                          \/ /\ batch'[s].ids = batch[s].ids /\ batch'[s].ops = batch[s].ops
                             /\ \A d \in batch'[s].drained : d \in batch[s].drained \/ ~Waits(d)'
  PROVE  RowSound' /\ Owed'
<1>1. \A d \in Docs : Gone(d)' <=> Gone(d)
  BY DEF Gone
<1>2. \A d \in Docs : Waits(d)' => Waits(d)
  BY <1>1 DEF Waits
<1> QED
  BY <1>1, <1>2, RowSoundStays, OwedStays

\* Rows that were there before and still are.
LEMMA RowsSame ==
  ASSUME TypeOK, UNCHANGED rows
  PROVE  RowsBack /\ OwingStays
BY DEF RowsBack, OwingStays, Same, IngestRows

\* The claims change, the rows do not.
LEMMA ClaimsSame ==
  ASSUME TypeOK, NEW ids, NEW c \in Claims, rows' = SetClaim(ids, c)
  PROVE  RowsBack /\ (\A r \in rows : \E q \in rows' : Same(r, q)) /\ OwingStays
<1>1. RowsBack /\ \A r \in rows : \E q \in rows' : Same(r, q)
  BY ClaimRows DEF RowsBack
<1> QED
  BY <1>1 DEF OwingStays, IngestRows

\* A task is over or starts again.
LEMMA SlotForgotten ==
  ASSUME SlotInv, TypeOK', RowsBack, OwingStays, NEW t \in Tasks, Forget(t), UNCHANGED <<docs, del>>
  PROVE  RowSound' /\ Owed'
<1>1. batch'[t].ids = {} /\ \A s \in Tasks \ {t} : batch'[s] = batch[s]
  BY Forgotten DEF SlotInv, ClaimInv, Blank
<1>2. UNCHANGED <<stage, del, drains>>
  BY DEF docs
<1> QED
  BY <1>1, <1>2, DocsStill

\* The batch goes on, having drained no document but one that waits no longer.
LEMMA SlotEdited ==
  ASSUME SlotInv, TypeOK', RowsBack, OwingStays, NEW t \in Tasks, NEW b, Remember(t, b),
         UNCHANGED <<stage, del>>, \A d \in Docs : drains'[d] = 0 => drains[d] = 0,
         b.ids = batch[t].ids, b.ops = batch[t].ops,
         \A d \in b.drained : d \in batch[t].drained \/ ~Waits(d)'
  PROVE  RowSound' /\ Owed'
<1>1. batch'[t] = b /\ \A s \in Tasks \ {t} : batch'[s] = batch[s]
  BY DEF Remember, SlotInv, ClaimInv, TypeOK
<1> QED
  BY <1>1, DocsStill

\* A unit that is released is not owed any more.
LEMMA Drained ==
  ASSUME TypeOK, NEW d \in Docs, Drain(d), UNCHANGED stage
  PROVE  ~Waits(d)' /\ \A c \in Docs : drains'[c] = 0 => drains[c] = 0
<1>1. \A c \in Docs :
        /\ drains[c] \in Nat
        /\ drains'[c] = IF c = d /\ stage[d] # "parsing" THEN drains[c] + 1 ELSE drains[c]
  BY DEF TypeOK, Drain
<1> QED
  BY <1>1 DEF Waits

\* Post-processing: the new row owes the new unit.
LEMMA SeedOwes ==
  ASSUME SlotInv, TypeOK', NEW d \in Docs, Seed(d)
  PROVE  RowSound' /\ Owed'
<1> DEFINE new == [id |-> lastId + 1, doc |-> d, op |-> "ingest", slugs |-> {},
                   claim |-> "free", fails |-> 0]
<1>0. TypeOK /\ lastId \in Nat /\ BatchSound /\ RowSound
  BY DEF SlotInv, ClaimInv, TypeOK
<1>1. /\ rows' = rows \cup {new} /\ stage[d] = "parsing" /\ ~Gone(d)
      /\ UNCHANGED <<at, batch, del>>
      /\ \A c \in Docs : stage'[c] = IF c = d THEN "seeded" ELSE stage[c]
      /\ \A c \in Docs \ {d} : drains'[c] = drains[c]
  BY <1>0 DEF Seed, Insert, deletion, TypeOK
<1>2. new.id = lastId + 1 /\ new.doc = d /\ new.op = "ingest"
  OBVIOUS
<1> HIDE DEF new
<1>3. \A r \in rows : r.doc # d
  BY <1>0, <1>1 DEF RowSound
<1>4. \A c \in Docs : Gone(c)' <=> Gone(c)
  BY <1>1 DEF Gone
<1>5. RowSound'
  <2> SUFFICES ASSUME NEW c \in Docs, ~Gone(c)'
               PROVE  /\ \A r \in rows' : r.doc = c => r.op = "ingest" /\ stage'[c] # "parsing"
                      /\ \A q, r \in rows' : q.doc = c /\ r.doc = c => q.id = r.id
    BY DEF RowSound
  <2>1. CASE c = d
    BY <1>1, <1>2, <1>3, <2>1
  <2>2. CASE c # d
    BY <1>0, <1>1, <1>2, <1>4, <2>2 DEF RowSound
  <2> QED
    BY <2>1, <2>2
<1>6. Owed'
  <2> SUFFICES ASSUME NEW c \in Docs, Waits(c)'
               PROVE  \E q \in rows' : q.doc = c /\ q.op = "ingest" /\ \A t \in Tasks : Bears(t, q)'
    BY DEF Owed, IngestRows
  <2>1. CASE c = d
    <3>1. \A t \in Tasks : new.id \notin batch'[t].ids
      BY <1>0, <1>1, <1>2 DEF BatchSound, Sound
    <3> QED
      BY <1>1, <1>2, <2>1, <3>1 DEF Bears
  <2>2. CASE c # d
    <3>1. Waits(c)
      BY <1>1, <1>4, <2>2 DEF Waits
    <3>2. PICK r \in IngestRows(c) : \A t \in Tasks : Bears(t, r)
      BY <3>1 DEF SlotInv, Owed
    <3>3. \A t \in Tasks : Bears(t, r)'
      BY <1>1, <3>2 DEF Bears
    <3> QED
      BY <1>1, <3>2, <3>3 DEF IngestRows
  <2> QED
    BY <2>1, <2>2
<1> QED
  BY <1>5, <1>6

\* A deletion's retraction is of a document that no longer waits.
LEMMA RetractionOwes ==
  ASSUME SlotInv, TypeOK', NEW d \in Docs, Insert(d, "retract", slugs[d]), Gone(d),
         \A c \in Docs : Gone(c)' <=> Gone(c), UNCHANGED <<docs, batch>>
  PROVE  RowSound' /\ Owed'
<1> DEFINE new == [id |-> lastId + 1, doc |-> d, op |-> "retract", slugs |-> slugs[d],
                   claim |-> "free", fails |-> 0]
<1>1. rows' = rows \cup {new} /\ UNCHANGED <<stage, drains>> /\ RowSound
  BY DEF Insert, docs, SlotInv
<1>2. new.doc = d
  OBVIOUS
<1> HIDE DEF new
<1>3. RowSound'
  <2> SUFFICES ASSUME NEW c \in Docs, ~Gone(c)'
               PROVE  /\ \A r \in rows' : r.doc = c => r.op = "ingest" /\ stage'[c] # "parsing"
                      /\ \A q, r \in rows' : q.doc = c /\ r.doc = c => q.id = r.id
    BY DEF RowSound
  <2> QED
    BY <1>1, <1>2 DEF RowSound
<1>4. OwingStays
  BY <1>1 DEF OwingStays, IngestRows, Same
<1>5. \A c \in Docs : Waits(c)' => Waits(c)
  BY <1>1 DEF Waits
<1>6. Owed'
  BY <1>4, <1>5, OwedStays
<1> QED
  BY <1>3, <1>6

\* The document's ingest rows go, and nobody waits for them.
LEMMA ScrubOwes ==
  ASSUME SlotInv, TypeOK', NEW d \in Docs, Scrub(d), UNCHANGED batch, ~Waits(d)',
         \A c \in Docs : ~Gone(c)' => ~Gone(c), \A c \in Docs \ {d} : Waits(c)' => Waits(c),
         \A c \in Docs \ {d} : stage'[c] = stage[c]
  PROVE  RowSound' /\ Owed'
<1>1. rows' = rows \ IngestRows(d)
  BY DEF Scrub
<1>2. RowsBack
  BY <1>1 DEF RowsBack, Same
<1>3. ~Gone(d)' => \A r \in rows' : r.doc # d
  BY <1>1 DEF SlotInv, RowSound, IngestRows
<1>4. RowSound'
  BY <1>2, <1>3, RowSoundStays
<1>5. OwingStays
  BY <1>1 DEF OwingStays, IngestRows, Same
<1>6. Owed'
  BY <1>5, OwedStays
<1> QED
  BY <1>4, <1>6

\* A claim takes the row of a waiting document as its operation.
LEMMA ClaimOwes ==
  ASSUME SlotInv, TypeOK', NEW t \in Tasks, Claim(t)
  PROVE  RowSound' /\ Owed'
<1> DEFINE taken == {r \in rows : r.doc \in Chosen}
<1>0. TypeOK /\ OneOpPerId /\ RowSound /\ batch[t] \in Batch /\ batch \in [Tasks -> Batch]
  BY BatchOf DEF SlotInv, ClaimInv, TypeOK
<1>1. /\ rows' = SetClaim(Ids(taken), "fresh") /\ UNCHANGED <<stage, del, drains>>
      /\ at[t] = "claim" /\ taken \subseteq rows
  BY DEF Claim, docs, deletion
<1>2. /\ batch'[t].ids = Ids(taken)
      /\ batch'[t].ops = {r \in rows' : r.id \in Ids(LastOps(taken))}
      /\ batch'[t].drained = batch[t].drained
      /\ \A s \in Tasks \ {t} : batch'[s] = batch[s]
  <2>1. batch' = [batch EXCEPT ![t] = [batch[t] EXCEPT !.ids = Ids(taken),
                          !.ops = {r \in rows' : r.id \in Ids(LastOps(taken))}]]
    BY DEF Claim, Remember
  <2> HIDE DEF taken
  <2> QED
    BY <1>0, <2>1 DEF Batch
<1>3. batch[t].drained = {}
  BY <1>1 DEF SlotInv, ClaimInv, BatchSound, Sound, Blank
<1>4. RowsBack /\ \A r \in rows : \E q \in rows' : Same(r, q)
  <2> HIDE DEF taken
  <2> QED
    BY <1>0, <1>1, ClaimsSame DEF Claims
<1>5. \A d \in Docs : (Gone(d)' <=> Gone(d)) /\ (Waits(d)' <=> Waits(d))
  BY <1>1 DEF Gone, Waits
<1>6. RowSound'
  BY <1>1, <1>4, <1>5, RowSoundStays
<1>7. Owed'
  <2> SUFFICES ASSUME NEW d \in Docs, Waits(d)
               PROVE  \E q \in rows' : q.doc = d /\ q.op = "ingest" /\ \A s \in Tasks : Bears(s, q)'
    BY <1>5 DEF Owed, IngestRows
  <2>1. PICK r \in IngestRows(d) : \A s \in Tasks : Bears(s, r)
    BY DEF SlotInv, Owed
  <2>2. PICK q \in rows' : Same(r, q)
    BY <1>4, <2>1 DEF IngestRows
  <2>3. \A s \in Tasks \ {t} : Bears(s, q)'
    BY <1>2, <2>1, <2>2 DEF Bears, Same
  <2>4. r \in rows /\ r.doc = d /\ q.id = r.id /\ q.doc = d /\ q.op = "ingest"
    BY <2>1, <2>2 DEF IngestRows, Same
  <2>5. ASSUME r.id \in Ids(taken) PROVE r \in LastOps(taken)
    <3>1. PICK x \in taken : x.id = r.id
      BY <2>5 DEF Ids
    <3>2. x.doc = d
      BY <1>0, <1>1, <2>4, <3>1 DEF OneOpPerId
    <3>3. r \in taken
      BY <2>4, <3>1, <3>2
    <3>4. \A y \in taken : y.doc = r.doc => y.id = r.id
      BY <1>0, <1>1, <2>4 DEF RowSound, Waits
    <3>5. r.id \in Nat
      BY <1>0, <2>4 DEF TypeOK, Row
    <3> QED
      BY <3>3, <3>4, <3>5 DEF LastOps
  <2>6. Bears(t, q)'
    <3> SUFFICES ASSUME r.id \in Ids(taken)
                 PROVE  q.doc \notin batch'[t].drained /\ \E o \in batch'[t].ops : o.id = q.id
      BY <1>2, <2>4 DEF Bears
    <3>1. r.id \in Ids(LastOps(taken))
      BY <2>5 DEF Ids
    <3> QED
      BY <1>2, <1>3, <2>4, <3>1
  <2> QED
    BY <2>3, <2>4, <2>6
<1> QED
  BY <1>6, <1>7

\* A trim leaves the rows of documents that could not be applied.
LEMMA TrimOwes ==
  ASSUME SlotInv, TypeOK', NEW t \in Tasks, Trim(t)
  PROVE  RowSound' /\ Owed'
<1>0. TypeOK /\ batch[t] \in Batch /\ batch \in [Tasks -> Batch]
  BY BatchOf DEF SlotInv, ClaimInv, TypeOK
<1>1. /\ batch'[t].ids = batch[t].ids /\ batch'[t].ops = batch[t].ops
      /\ batch'[t].drained = batch[t].drained
      /\ \A s \in Tasks \ {t} : batch'[s] = batch[s]
  BY <1>0 DEF Trim, Remember, Batch
<1>2. RowsBack
  BY DEF Trim, RowsBack, Same
<1>3. UNCHANGED <<stage, del, drains>> /\ Due(t) = {}
  BY DEF Trim, docs, deletion
<1>4. OwingStays
  <2> SUFFICES ASSUME NEW d \in Docs, NEW r \in IngestRows(d), Bears(t, r), r \notin rows'
               PROVE  FALSE
    BY DEF OwingStays, Same
  <2>1. r \in rows /\ r.doc = d /\ r.op = "ingest" /\ r.id \in batch[t].ids /\ r.id \notin Ids(BadOps(t))
    BY DEF Trim, IngestRows
  <2>2. PICK o \in batch[t].ops : o.id = r.id /\ d \notin batch[t].drained
    BY <2>1 DEF Bears
  <2>3. o.doc = d /\ o.op = "ingest"
    BY <2>1, <2>2, RowOfOp DEF SlotInv
  <2>4. d \in batch[t].bad
    BY <1>3, <2>2, <2>3 DEF Due
  <2> QED
    BY <2>1, <2>2, <2>3, <2>4 DEF BadOps, Ids
<1> QED
  BY <1>1, <1>2, <1>3, <1>4, DocsStill

\* An operation is given up only with its unit released.
LEMMA RequeueOwes ==
  ASSUME SlotInv, TypeOK', NEW t \in Tasks, NEW d \in batch[t].bad, NEW b, Remember(t, b),
         UNCHANGED <<stage, del>>,
         b.ids = batch[t].ids, b.ops = batch[t].ops,
         \A c \in b.drained : c \in batch[t].drained \/ ~Waits(c)',
         \A c \in Docs : drains'[c] = 0 => drains[c] = 0,
         LET o == OpOf(t, d)
             r == {x \in rows : x.id = o.id} IN
           \/ rows' = rows
           \/ rows' = rows \ r /\ (o.op = "ingest" => ~Waits(d)')
           \/ rows' = (rows \ r) \cup {[x EXCEPT !.fails = @ + 1, !.claim = "free"] : x \in r}
           \/ rows' = (rows \ r) \cup {[x EXCEPT !.fails = @ + 1] : x \in r}
  PROVE  RowSound' /\ Owed'
<1> DEFINE o == OpOf(t, d)
           r == {x \in rows : x.id = o.id}
           back == {[x EXCEPT !.fails = @ + 1, !.claim = "free"] : x \in r}
           kept == {[x EXCEPT !.fails = @ + 1] : x \in r}
<1>1. TypeOK /\ rows \subseteq Row /\ d \in DocsOf(t)
  BY DEF SlotInv, ClaimInv, TypeOK, BatchSound, Sound
<1>2. o \in batch[t].ops /\ o.doc = d
  BY <1>1, OpOfType DEF SlotInv
<1>3. \A x \in rows : /\ Same(x, [x EXCEPT !.fails = @ + 1, !.claim = "free"])
                      /\ Same(x, [x EXCEPT !.fails = @ + 1]) /\ Same(x, x)
  BY <1>1, RowUnchanged DEF Same
<1>4. \A x \in r : x.doc = d /\ x.op = o.op
  BY <1>2, RowOfOp DEF SlotInv
<1>5. RowsBack
  <2>1. rows' \subseteq rows \cup back \cup kept
    OBVIOUS
  <2>2. \A q \in rows \cup back \cup kept : \E x \in rows : Same(x, q)
    BY <1>3
  <2> QED
    BY <2>1, <2>2 DEF RowsBack
<1>6. OwingStays
  <2> SUFFICES ASSUME NEW c \in Docs, Waits(c)', NEW x \in rows, x.doc = c, x.op = "ingest"
               PROVE  \E q \in rows' : Same(x, q)
    BY DEF OwingStays, IngestRows
  <2>1. CASE x \notin r
    BY <1>3, <2>1
  <2>2. CASE x \in r
    <3>1. c = d /\ o.op = "ingest"
      BY <1>4, <2>2
    <3>2. rows' = rows \/ rows' = (rows \ r) \cup back \/ rows' = (rows \ r) \cup kept
      BY <3>1
    <3>3. x \in rows' \/ [x EXCEPT !.fails = @ + 1, !.claim = "free"] \in rows'
            \/ [x EXCEPT !.fails = @ + 1] \in rows'
      BY <2>2, <3>2
    <3> QED
      BY <1>3, <3>3
  <2> QED
    BY <2>1, <2>2
<1> QED
  BY <1>5, <1>6, SlotEdited

\* Every step keeps the row that owes a unit: one case per action.
LEMMA SlotStep ==
  ASSUME SlotInv, TypeOK', Next
  PROVE  RowSound' /\ Owed'
<1>0. TypeOK /\ batch \in [Tasks -> Batch]
  BY DEF SlotInv, ClaimInv, TypeOK
<1> USE DEF table, wiki, docs, deletion, mishaps, ghosts
<1>1. ASSUME NEW d \in Docs, Seed(d) PROVE RowSound' /\ Owed'
  BY <1>1, SeedOwes
<1>2. ASSUME UNCHANGED <<rows, batch, del, drains>>,
             \A d \in Docs : stage'[d] = "parsing" <=> stage[d] = "parsing"
      PROVE  RowSound' /\ Owed'
  <2>1. RowsBack /\ OwingStays
    BY <1>0, <1>2, RowsSame
  <2>2. \A d \in Docs : (Gone(d)' <=> Gone(d)) /\ (Waits(d)' => Waits(d))
    BY <1>2 DEF Gone, Waits
  <2> QED
    BY <1>2, <2>1, <2>2, RowSoundStays, OwedStays
<1>3. ASSUME NEW d \in Docs, TriggerIngest(d) PROVE RowSound' /\ Owed'
  BY <1>0, <1>2, <1>3 DEF TriggerIngest, TypeOK
<1>4. ASSUME NEW d \in Docs, Reparse(d) PROVE RowSound' /\ Owed'
  <2>1. /\ Scrub(d) /\ UNCHANGED batch /\ ~Waits(d)'
        /\ \A c \in Docs : ~Gone(c)' => ~Gone(c)
        /\ \A c \in Docs \ {d} : Waits(c)' => Waits(c)
        /\ \A c \in Docs \ {d} : stage'[c] = stage[c]
    BY <1>0, <1>4 DEF Reparse, TypeOK, Gone, Waits
  <2> QED
    BY <2>1, ScrubOwes
<1>5. ASSUME NEW d \in Docs, UNCHANGED <<rows, batch, stage, drains>>,
             \A c \in Docs : ~Gone(c)' => ~Gone(c)
      PROVE  RowSound' /\ Owed'
  <2>1. RowsBack /\ OwingStays
    BY <1>0, <1>5, RowsSame
  <2>2. \A c \in Docs : Waits(c)' => Waits(c)
    BY <1>5 DEF Waits
  <2> QED
    BY <1>5, <2>1, <2>2, RowSoundStays, OwedStays
<1>6. ASSUME NEW d \in Docs, DeleteMark(d) PROVE RowSound' /\ Owed'
  BY <1>0, <1>5, <1>6 DEF DeleteMark, Gone, TypeOK
<1>7. ASSUME NEW d \in Docs, DeleteScrub(d) PROVE RowSound' /\ Owed'
  <2>1. /\ \A c \in Docs : Gone(c)' <=> Gone(c)
        /\ Gone(d)' /\ UNCHANGED <<batch, stage, drains>>
    BY <1>0, <1>7 DEF DeleteScrub, Gone, TypeOK
  <2>2. CASE UNCHANGED rows
    BY <1>5, <2>1, <2>2
  <2>3. CASE Scrub(d)
    BY <2>1, <2>3, ScrubOwes DEF Waits
  <2> QED
    BY <1>7, <2>2, <2>3 DEF DeleteScrub
<1>8. ASSUME NEW d \in Docs, DeleteList(d) PROVE RowSound' /\ Owed'
  BY <1>0, <1>5, <1>8 DEF DeleteList, Gone, TypeOK
<1>9. ASSUME NEW d \in Docs, NEW p \in Pages, DeleteFromPage(d, p) PROVE RowSound' /\ Owed'
  BY <1>0, <1>5, <1>9 DEF DeleteFromPage, Gone, TypeOK
<1>10. ASSUME NEW d \in Docs, DeleteRetract(d) PROVE RowSound' /\ Owed'
  <2>1. /\ \A c \in Docs : Gone(c)' <=> Gone(c)
        /\ Gone(d) /\ UNCHANGED <<batch, stage, parses, drains>>
    BY <1>0, <1>10 DEF DeleteRetract, Gone, TypeOK
  <2>2. CASE UNCHANGED rows
    BY <1>5, <2>1, <2>2
  <2>3. CASE Insert(d, "retract", slugs[d])
    BY <2>1, <2>3, RetractionOwes
  <2> QED
    BY <1>10, <2>2, <2>3 DEF DeleteRetract
<1>11. ASSUME NEW d \in Docs, DeleteTrigger(d) PROVE RowSound' /\ Owed'
  BY <1>0, <1>5, <1>11 DEF DeleteTrigger, Gone, TypeOK
<1>12. ASSUME NEW t \in Tasks, Start(t) PROVE RowSound' /\ Owed'
  <2>1. UNCHANGED batch \/ Remember(t, [batch[t] EXCEPT !.slot = TRUE])
    BY <1>12 DEF Start
  <2>2. CASE UNCHANGED batch
    BY <1>2, <1>12, <2>2 DEF Start
  <2>3. CASE Remember(t, [batch[t] EXCEPT !.slot = TRUE])
    <3> DEFINE b == [batch[t] EXCEPT !.slot = TRUE]
    <3>1. b.ids = batch[t].ids /\ b.ops = batch[t].ops /\ b.drained = batch[t].drained
      BY <1>0, BatchOf DEF Batch
    <3>2. RowsBack /\ OwingStays /\ UNCHANGED <<stage, del, drains>>
      BY <1>0, <1>12, RowsSame DEF Start
    <3> HIDE DEF b
    <3>3. Remember(t, b)
      BY <2>3 DEF b
    <3> QED
      BY <3>1, <3>2, <3>3, SlotEdited
  <2> QED
    BY <2>1, <2>2, <2>3
<1>13. ASSUME NEW t \in Tasks, Forget(t), UNCHANGED <<rows, stage, parses, drains, del>>
       PROVE RowSound' /\ Owed'
  BY <1>0, <1>13, RowsSame, SlotForgotten
<1>14. ASSUME NEW t \in Tasks, TurnedAway(t) PROVE RowSound' /\ Owed'
  BY <1>13, <1>14 DEF TurnedAway, Arm
<1>15. ASSUME NEW t \in Tasks, ClaimFails(t) PROVE RowSound' /\ Owed'
  BY <1>13, <1>15 DEF ClaimFails
<1>16. ASSUME NEW t \in Tasks, ArmRecheck(t) PROVE RowSound' /\ Owed'
  <2>1. Forget(t) /\ UNCHANGED <<stage, parses, drains, del>>
    BY <1>16 DEF ArmRecheck, Arm
  <2>2. CASE UNCHANGED rows
    BY <1>13, <2>1, <2>2
  <2>3. CASE rows' = {[r EXCEPT !.claim = IF @ = "fresh" THEN "aging" ELSE @] : r \in rows}
    <3>1. \A r \in rows : Same(r, [r EXCEPT !.claim = IF @ = "fresh" THEN "aging" ELSE @])
      BY <1>0, RowUnchanged DEF TypeOK
    <3>2. RowsBack /\ \A r \in rows : \E q \in rows' : Same(r, q)
      BY <2>3, <3>1 DEF RowsBack
    <3>3. OwingStays
      BY <3>2 DEF OwingStays, IngestRows
    <3> QED
      BY <2>1, <3>2, <3>3, SlotForgotten
  <2> QED
    BY <1>16, <2>2, <2>3 DEF ArmRecheck
<1>17. ASSUME NEW t \in Tasks, SettleFailed(t) PROVE RowSound' /\ Owed'
  <2>1. Forget(t) /\ UNCHANGED <<stage, parses, drains, del>>
    BY <1>17 DEF SettleFailed
  <2>2. CASE UNCHANGED rows
    BY <1>13, <2>1, <2>2
  <2>3. CASE rows' = SetClaim(batch[t].ids, "free")
    <3>1. RowsBack /\ OwingStays
      BY <1>0, <2>3, ClaimsSame DEF Claims
    <3> QED
      BY <2>1, <3>1, SlotForgotten
  <2> QED
    BY <1>17, <2>2, <2>3 DEF SettleFailed
<1>18. ASSUME NEW t \in Tasks, FollowUp(t) PROVE RowSound' /\ Owed'
  BY <1>13, <1>18 DEF FollowUp
<1>19. ASSUME NEW t \in Tasks, Crash(t) PROVE RowSound' /\ Owed'
  BY <1>13, <1>19 DEF Crash
<1>20. ASSUME NEW r \in rows, ClaimAges(r) PROVE RowSound' /\ Owed'
  <2>1. RowsBack /\ OwingStays /\ UNCHANGED <<batch, stage, del, drains>>
    BY <1>0, <1>20, ClaimsSame DEF ClaimAges, Claims
  <2> QED
    BY <2>1, DocsStill
<1>21. ASSUME NEW t \in Tasks, NEW b, Remember(t, b), UNCHANGED <<rows, stage, drains, del>>,
              b.ids = batch[t].ids, b.ops = batch[t].ops, b.drained = batch[t].drained
       PROVE RowSound' /\ Owed'
  BY <1>0, <1>21, RowsSame, SlotEdited
<1>22. ASSUME NEW t \in Tasks, NEW d \in Docs, Drain(d), NEW b, Remember(t, b),
              UNCHANGED <<rows, stage, del>>,
              b.ids = batch[t].ids, b.ops = batch[t].ops, b.drained = batch[t].drained \cup {d}
       PROVE RowSound' /\ Owed'
  <2>1. ~Waits(d)' /\ \A c \in Docs : drains'[c] = 0 => drains[c] = 0
    BY <1>0, <1>22, Drained
  <2>2. RowsBack /\ OwingStays
    BY <1>0, <1>22, RowsSame
  <2> QED
    BY <1>22, <2>1, <2>2, SlotEdited
<1>23. ASSUME NEW t \in Tasks, NEW d \in Docs, MapRetract(t, d) PROVE RowSound' /\ Owed'
  <2>1. PICK ps : Remember(t, [batch[t] EXCEPT !.mapped = @ \cup {d}, !.rets = AddTo(@, ps, d)])
    BY <1>23 DEF MapRetract
  <2> DEFINE b == [batch[t] EXCEPT !.mapped = @ \cup {d}, !.rets = AddTo(@, ps, d)]
  <2>2. b.ids = batch[t].ids /\ b.ops = batch[t].ops /\ b.drained = batch[t].drained
    BY <1>0, BatchOf DEF Batch
  <2>3. Remember(t, b) /\ UNCHANGED <<rows, stage, drains, del>>
    BY <1>23, <2>1 DEF MapRetract
  <2> HIDE DEF b
  <2> QED
    BY <1>21, <2>2, <2>3
<1>24. ASSUME NEW t \in Tasks, NEW d \in Docs, MapIngest(t, d) PROVE RowSound' /\ Owed'
  <2> DEFINE b == [batch[t] EXCEPT !.mapped = @ \cup {d}]
             b1 == [b EXCEPT !.drained = @ \cup {d}]
             b2 == [b EXCEPT !.adds = AddTo(@, Contrib[d], d)]
             b3 == [b EXCEPT !.bad = @ \cup {d}]
  <2>1. b \in Batch /\ b.ids = batch[t].ids /\ b.ops = batch[t].ops /\ b.drained = batch[t].drained
    BY <1>0, BatchOf DEF Batch
  <2>2. /\ b1.ids = b.ids /\ b1.ops = b.ops /\ b1.drained = b.drained \cup {d}
        /\ b2.ids = b.ids /\ b2.ops = b.ops /\ b2.drained = b.drained
        /\ b3.ids = b.ids /\ b3.ops = b.ops /\ b3.drained = b.drained
    <3> HIDE DEF b
    <3> QED
      BY <2>1 DEF Batch
  <2>3. /\ UNCHANGED <<rows, stage, del>>
        /\ \/ Drain(d) /\ Remember(t, b1)
           \/ UNCHANGED drains /\ (Remember(t, b2) \/ Remember(t, b3))
    BY <1>24 DEF MapIngest
  <2> HIDE DEF b, b1, b2, b3
  <2>4. CASE Drain(d) /\ Remember(t, b1)
    BY <1>22, <2>1, <2>2, <2>3, <2>4
  <2>5. CASE UNCHANGED drains /\ Remember(t, b2)
    BY <1>21, <2>1, <2>2, <2>3, <2>5
  <2>6. CASE UNCHANGED drains /\ Remember(t, b3)
    BY <1>21, <2>1, <2>2, <2>3, <2>6
  <2> QED
    BY <2>3, <2>4, <2>5, <2>6
<1>25. ASSUME NEW t \in Tasks, NEW p \in Pages, NEW l, Begin(t, p, l),
              UNCHANGED <<rows, stage, drains, del>>
       PROVE RowSound' /\ Owed'
  BY <1>21, <1>25, BeginEdits DEF SlotInv
<1>26. ASSUME NEW t \in Tasks, NEW p \in Pages, UNCHANGED <<rows, stage, drains, del>>,
              Remember(t, Over(batch[t], p)) \/ Unapplied(t, p)
       PROVE RowSound' /\ Owed'
  <2> DEFINE o == Over(batch[t], p)
             b == [o EXCEPT !.bad = @ \cup batch[t].adds[p] \cup batch[t].rets[p]]
  <2>1. o \in Batch /\ o.ids = batch[t].ids /\ o.ops = batch[t].ops /\ o.drained = batch[t].drained
    BY <1>0, BatchOf, EditTypes, OverFields
  <2>2. b.ids = o.ids /\ b.ops = o.ops /\ b.drained = o.drained
    <3> HIDE DEF o
    <3> QED
      BY <2>1 DEF Batch
  <2>3. Remember(t, o) \/ Remember(t, b)
    BY <1>26 DEF Unapplied
  <2> HIDE DEF o, b
  <2> QED
    BY <1>21, <1>26, <2>1, <2>2, <2>3
<1>27. ASSUME NEW t \in Tasks, NEW p \in Pages,
              \/ ReduceBegin(t, p) \/ ReduceUnlocked(t, p) \/ ReduceWaitsTooLong(t, p)
              \/ ReduceWrite(t, p) \/ ReduceGivesUp(t, p)
       PROVE RowSound' /\ Owed'
  <2>1. UNCHANGED <<rows, stage, drains, del>>
    BY <1>27 DEF ReduceBegin, ReduceUnlocked, ReduceWaitsTooLong, ReduceWrite, ReduceGivesUp
  <2>2. \/ \E l : Begin(t, p, l)
        \/ Remember(t, Over(batch[t], p)) \/ Unapplied(t, p)
    BY <1>27 DEF ReduceBegin, ReduceUnlocked, ReduceWaitsTooLong, ReduceWrite, ReduceGivesUp
  <2> QED
    BY <1>25, <1>26, <2>1, <2>2
<1>28. ASSUME NEW t \in Tasks, NEW d \in Docs, DrainDone(t, d) PROVE RowSound' /\ Owed'
  <2> DEFINE b == [batch[t] EXCEPT !.drained = @ \cup {d}]
  <2>1. b.ids = batch[t].ids /\ b.ops = batch[t].ops /\ b.drained = batch[t].drained \cup {d}
    BY <1>0, BatchOf DEF Batch
  <2>2. Remember(t, b) /\ Drain(d) /\ UNCHANGED <<rows, stage, del>>
    BY <1>28 DEF DrainDone
  <2> HIDE DEF b
  <2> QED
    BY <1>22, <2>1, <2>2
<1>29. ASSUME NEW t \in Tasks, Trim(t) PROVE RowSound' /\ Owed'
  BY <1>29, TrimOwes
<1>30. ASSUME NEW t \in Tasks, NEW d \in Docs, Requeue(t, d) PROVE RowSound' /\ Owed'
  <2> DEFINE o == OpOf(t, d)
             b == [batch[t] EXCEPT !.bad = @ \ {d}]
  <2>1. b.ids = batch[t].ids /\ b.ops = batch[t].ops /\ b.drained = batch[t].drained
    BY <1>0, BatchOf DEF Batch
  <2>2. Remember(t, b) /\ d \in batch[t].bad /\ UNCHANGED <<stage, del>>
    BY <1>30 DEF Requeue
  <2>3. /\ UNCHANGED drains \/ Drain(d)
        /\ \/ rows' = rows \ {x \in rows : x.id = o.id} /\ (o.op = "ingest" => Drain(d))
           \/ rows' = (rows \ {x \in rows : x.id = o.id}) \cup
                {[x EXCEPT !.fails = @ + 1, !.claim = "free"] : x \in {y \in rows : y.id = o.id}}
    BY <1>30 DEF Requeue
  <2> HIDE DEF b
  <2>4. /\ \A c \in Docs : drains'[c] = 0 => drains[c] = 0
        /\ Drain(d) => ~Waits(d)'
    BY <1>0, <1>30, <2>2, <2>3, Drained
  <2> QED
    BY <2>1, <2>2, <2>3, <2>4, RequeueOwes
<1>31. ASSUME NEW t \in Tasks, NEW d \in Docs, RequeueFails(t, d) PROVE RowSound' /\ Owed'
  <2> DEFINE o == OpOf(t, d)
             b == [batch[t] EXCEPT !.bad = @ \ {d}, !.err = TRUE]
             c == [b EXCEPT !.drained = @ \cup {d}]
  <2>1. b \in Batch /\ b.ids = batch[t].ids /\ b.ops = batch[t].ops /\ b.drained = batch[t].drained
    BY <1>0, BatchOf DEF Batch
  <2>2. c.ids = b.ids /\ c.ops = b.ops /\ c.drained = b.drained \cup {d}
    <3> HIDE DEF b
    <3> QED
      BY <2>1 DEF Batch
  <2>3. /\ d \in batch[t].bad /\ UNCHANGED <<stage, del>>
        /\ \/ UNCHANGED <<rows, drains>> /\ Remember(t, b)
           \/ /\ rows' = (rows \ {x \in rows : x.id = o.id}) \cup
                   {[x EXCEPT !.fails = @ + 1] : x \in {y \in rows : y.id = o.id}}
              /\ UNCHANGED drains /\ Remember(t, b)
           \/ UNCHANGED rows /\ Drain(d) /\ Remember(t, c)
    BY <1>31 DEF RequeueFails
  <2> HIDE DEF b, c
  <2>4. CASE UNCHANGED <<rows, drains>> /\ Remember(t, b)
    BY <1>21, <2>1, <2>3, <2>4
  <2>5. CASE /\ rows' = (rows \ {x \in rows : x.id = o.id}) \cup
                  {[x EXCEPT !.fails = @ + 1] : x \in {y \in rows : y.id = o.id}}
             /\ UNCHANGED drains /\ Remember(t, b)
    BY <2>1, <2>3, <2>5, RequeueOwes
  <2>6. CASE UNCHANGED rows /\ Drain(d) /\ Remember(t, c)
    BY <1>22, <2>1, <2>2, <2>3, <2>6
  <2> QED
    BY <2>3, <2>4, <2>5, <2>6
<1>32. ASSUME NEW p \in Pages, LockExpires(p) PROVE RowSound' /\ Owed'
  BY <1>2, <1>32 DEF LockExpires
<1>33. ASSUME SlotExpires PROVE RowSound' /\ Owed'
  BY <1>2, <1>33 DEF SlotExpires
<1>34. ASSUME Boot PROVE RowSound' /\ Owed'
  BY <1>2, <1>34 DEF Boot
<1>35. ASSUME NEW d \in Docs, Deleting(d) PROVE RowSound' /\ Owed'
  BY <1>7, <1>8, <1>9, <1>10, <1>11, <1>35 DEF Deleting
<1>36. ASSUME NEW t \in Tasks, Work(t) PROVE RowSound' /\ Owed'
  BY <1>12, <1>14, <1>16, <1>17, <1>18, <1>23, <1>24, <1>27, <1>28, <1>29, <1>30, <1>36,
     ClaimOwes DEF Work
<1>37. ASSUME NEW t \in Tasks, Mishap(t) PROVE RowSound' /\ Owed'
  BY <1>15, <1>19, <1>27, <1>31, <1>37 DEF Mishap
<1>38. ASSUME Passing PROVE RowSound' /\ Owed'
  BY <1>20, <1>32, <1>33, <1>38 DEF Passing
<1> QED
  BY <1>1, <1>3, <1>4, <1>6, <1>34, <1>35, <1>36, <1>37, <1>38 DEF Next

\* The invariant holds of every behaviour.
LEMMA SlotInvHolds == Spec => []SlotInv
<1>1. Init => SlotInv
  BY ClaimInit DEF Init, SlotInv, RowSound, Owed, Waits
<1>2. ASSUME SlotInv, [Next]_vars PROVE SlotInv'
  <2>1. ClaimInv'
    BY <1>2, TypeStep, ClaimStep, ClaimStutter DEF ClaimInv, SlotInv
  <2>2. CASE Next
    BY <2>1, <2>2, <1>2, SlotStep DEF SlotInv, ClaimInv
  <2>3. CASE UNCHANGED vars
    <3>1. UNCHANGED <<rows, batch, stage, drains, del>>
      BY <2>3 DEF vars, table, docs, deletion
    <3>2. RowsBack /\ OwingStays
      BY <1>2, <3>1, RowsSame DEF SlotInv, ClaimInv
    <3> QED
      BY <1>2, <2>1, <3>1, <3>2, DocsStill DEF SlotInv, ClaimInv
  <2> QED
    BY <1>2, <2>2, <2>3
<1> QED
  BY <1>1, <1>2, PTL DEF Spec

\* A unit of the parse counter that was not released has a durable row that
\* will release it.
THEOREM UnitHasItsRow == Spec => []SlotKeepsItsRow
<1>1. SlotInv => SlotKeepsItsRow
  BY DEF SlotInv, Owed, Waits, SlotKeepsItsRow
<1> QED
  BY <1>1, SlotInvHolds, PTL

=============================================================================
