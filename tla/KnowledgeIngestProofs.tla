----------------------- MODULE KnowledgeIngestProofs -----------------------
(***************************************************************************)
(* Theorems about KnowledgeIngest, for every set of slots and every bound. *)
(***************************************************************************)
EXTENDS KnowledgeIngest, FiniteSetTheorems, TLAPS

-----------------------------------------------------------------------------
(* Types                                                                   *)

\* The bounds are numbers, and so is what SetFinalizing seeds the counter with.
LEMMA ConstantsAreNat ==
  /\ MaxRetry \in Nat /\ MaxReparse \in Nat /\ MaxCancel \in Nat
  /\ MaxDelete \in Nat /\ MaxFault \in Nat /\ MaxPost \in Nat /\ MaxFan \in Nat
  /\ Cardinality(Slots) \in Nat /\ SummarySlot \in Slots
<1>1. Cardinality(Slots) \in Nat
  BY SlotsAssumption, FS_CardinalityType
<1>2. QED
  BY <1>1, SlotsAssumption, BoundsAssumption

\* The messages a bound allows are among those the functions are defined on.
LEMMA NextMessage ==
  ASSUME TypeOK
  PROVE  /\ nPosts < MaxPost => nPosts + 1 \in Posts
         /\ nFans < MaxFan => nFans + 1 \in Fans /\ nFans + 1 \in 0 .. MaxFan
         /\ nReparses < MaxReparse => nReparses + 1 \in Docs
         /\ nReparses \in Docs
  BY ConstantsAreNat DEF TypeOK, PostTypes, FanTypes, UserTypes, Posts, Fans, Docs

\* A step of one subtask keeps the type of all of them.
LEMMA SubPcType ==
  ASSUME SubTypes, NEW f, NEW s, NEW pc \in SubPcs
  PROVE  [subPc EXCEPT ![f][s] = pc] \in [Fans -> [Slots -> SubPcs]]
<1>1. CASE f \in Fans
  BY <1>1 DEF SubTypes
<1>2. CASE f \notin Fans
  BY <1>2 DEF SubTypes
<1> QED
  BY <1>1, <1>2

\* So does a guarded step, which leaves the retries alone.
LEMMA SubStepType ==
  ASSUME SubTypes, NEW f, NEW s, NEW from, NEW to \in SubPcs, SubStep(f, s, from, to)
  PROVE  subPc' \in [Fans -> [Slots -> SubPcs]] /\ subTries' = subTries
BY SubPcType DEF SubStep, SubGoto

\* Counting one more retry keeps the type of the retry counters.
LEMMA SubTriesType ==
  ASSUME SubTypes, NEW f \in Fans, NEW s \in Slots, subTries[f][s] < MaxRetry
  PROVE  [subTries EXCEPT ![f][s] = @ + 1] \in [Fans -> [Slots -> 0 .. MaxRetry]]
<1>1. subTries[f][s] + 1 \in 0 .. MaxRetry
  BY ConstantsAreNat DEF SubTypes
<1> QED
  BY <1>1 DEF SubTypes

\* So does a failed delivery.
LEMMA RetryType ==
  ASSUME SubTypes, NEW f \in Fans, NEW s \in Slots, Retry(f, s), subSeen' = subSeen
  PROVE  SubTypes'
<1>1. CASE subTries[f][s] < MaxRetry
  <2>1. subPc' \in [Fans -> [Slots -> SubPcs]]
    <3>1. "queued" \in SubPcs
      BY DEF SubPcs
    <3>2. [subPc EXCEPT ![f][s] = "queued"] \in [Fans -> [Slots -> SubPcs]]
      BY <3>1, SubPcType
    <3> QED
      BY <1>1, <3>2 DEF Retry, SubGoto
  <2>2. subTries' \in [Fans -> [Slots -> 0 .. MaxRetry]]
    BY <1>1, SubTriesType DEF Retry
  <2> QED
    BY <2>1, <2>2 DEF SubTypes
<1>2. CASE ~(subTries[f][s] < MaxRetry)
  <2>1. subPc' \in [Fans -> [Slots -> SubPcs]]
    <3>1. "dec" \in SubPcs
      BY DEF SubPcs
    <3>2. [subPc EXCEPT ![f][s] = "dec"] \in [Fans -> [Slots -> SubPcs]]
      BY <3>1, SubPcType
    <3> QED
      BY <1>2, <3>2 DEF Retry, SubGoto
  <2>2. subTries' = subTries
    BY <1>2 DEF Retry
  <2> QED
    BY <2>1, <2>2 DEF SubTypes
<1> QED
  BY <1>1, <1>2

\* So does saving the status a summary worker read.
LEMMA SeenStatus ==
  ASSUME RowTypes, SubTypes, NEW f \in Fans, Save(subSeen[f].st)
  PROVE  status' \in Statuses
  BY DEF RowTypes, SubTypes, Save, Statuses, Aborted

\* The clamped decrement and the promote keep the type of the row.
LEMMA FinalizeType ==
  ASSUME RowTypes, Decrement \/ Promote, latest' = latest PROVE RowTypes'
  BY ConstantsAreNat DEF RowTypes, Decrement, Promote, Statuses

\* So does a crashed worker.
LEMMA CrashType ==
  ASSUME TypeOK, NEW f \in Fans, NEW s \in Slots, SubCrash(f, s) PROVE SubTypes'
<1>1. CASE SubGoto(f, s, "done") /\ UNCHANGED subTries
  BY <1>1, SubPcType DEF SubCrash, TypeOK, SubGoto, SubTypes, SubPcs
<1>2. CASE subTries[f][s] < MaxRetry /\ SubGoto(f, s, "queued")
           /\ subTries' = [subTries EXCEPT ![f][s] = @ + 1]
  <2>1. subPc' \in [Fans -> [Slots -> SubPcs]]
    BY <1>2, SubPcType DEF TypeOK, SubGoto, SubPcs
  <2>2. subTries' \in [Fans -> [Slots -> 0 .. MaxRetry]]
    BY <1>2, SubTriesType DEF TypeOK
  <2> QED
    BY <2>1, <2>2 DEF SubTypes, TypeOK, SubCrash
<1> QED
  BY <1>1, <1>2 DEF SubCrash

\* DequeueAll settles messages and changes nothing else.
LEMMA DequeueType ==
  ASSUME TypeOK, Dequeue
  PROVE  DocTypes' /\ PostTypes' /\ SubTypes' /\ FanTypes'
<1>1. CASE UNCHANGED <<docVars, postVars, subVars>>
  BY <1>1 DEF TypeOK, DocTypes, PostTypes, SubTypes, FanTypes, docVars, postVars,
     subVars, fanVars
<1>2. ASSUME NEW ds, NEW ps, NEW ss, DequeueAll(ds, ps, ss)
      PROVE  DocTypes' /\ PostTypes' /\ SubTypes' /\ FanTypes'
  <2>1. docPc' \in [Docs -> DocPcs] /\ postPc' \in [Posts -> PostPcs]
    BY <1>2 DEF DequeueAll, TypeOK, DocTypes, PostTypes, DocPcs, PostPcs
  <2>2. subPc' \in [Fans -> [Slots -> SubPcs]]
    BY <1>2 DEF DequeueAll, TypeOK, SubTypes, SubPcs
  <2> QED
    BY <1>2, <2>1, <2>2 DEF DequeueAll, TypeOK, DocTypes, PostTypes, SubTypes,
       FanTypes, fanVars
<1> QED
  BY <1>1, <1>2 DEF Dequeue

\* The steps of document:process.
LEMMA DocSteps ==
  ASSUME TypeOK, NEW d \in Docs, DocNext(d)
  PROVE  TypeOK'
<1> USE DEF TypeOK, rowVars, storeVars, postVars, fanVars, subVars, userVars,
      ghostVars
<1>1. CASE DocRead(d)
  BY <1>1, ConstantsAreNat DEF DocRead, DocStep, DocGoto, Aborted, DocPcs,
     InFlight, RowTypes, StoreTypes, DocTypes, PostTypes, SubTypes, FanTypes,
     UserTypes, GhostTypes
<1>2. CASE DocRecheck(d)
  BY <1>2, ConstantsAreNat DEF DocRecheck, DocStep, DocGoto, Aborted, DocPcs,
     InFlight, RowTypes, StoreTypes, DocTypes, PostTypes, SubTypes, FanTypes,
     UserTypes, GhostTypes
<1>3. CASE DocLost(d)
  BY <1>3, ConstantsAreNat DEF DocLost, DocStep, DocGoto, Fault, DocPcs,
     RowTypes, StoreTypes, DocTypes, PostTypes, SubTypes, FanTypes, UserTypes,
     GhostTypes
<1>4. CASE DocMark(d)
  BY <1>4, ConstantsAreNat DEF DocMark, DocGoto, Save, DocPcs, Statuses,
     InFlight, Aborted, RowTypes, StoreTypes, DocTypes, PostTypes, SubTypes,
     FanTypes, UserTypes, GhostTypes
<1>5. CASE DocOpen(d)
  BY <1>5, ConstantsAreNat DEF DocOpen, DocGoto, DocPcs, RowTypes, StoreTypes,
     DocTypes, PostTypes, SubTypes, FanTypes, UserTypes, GhostTypes
<1>6. CASE DocFatal(d)
  <2>1. RowTypes'
    BY <1>6, ConstantsAreNat DEF DocFatal, DocStep, Save, RowTypes, Statuses,
       Aborted
  <2>2. DocTypes'
    BY <1>6, ConstantsAreNat DEF DocFatal, DocStep, DocGoto, DocTypes, DocPcs
  <2> QED
    BY <1>6, <2>1, <2>2 DEF DocFatal, DocStep, StoreTypes, PostTypes, SubTypes,
       FanTypes, UserTypes, GhostTypes
<1>7. CASE DocRetryable(d)
  <2>1. RowTypes'
    BY <1>7, ConstantsAreNat DEF DocRetryable, Save, RowTypes, Statuses,
       Aborted
  <2>2. DocTypes'
    BY <1>7, ConstantsAreNat DEF DocRetryable, DocGoto, DocTypes, DocPcs
  <2> QED
    BY <1>7, <2>1, <2>2 DEF DocRetryable, StoreTypes, PostTypes, SubTypes,
       FanTypes, UserTypes, GhostTypes
<1>8. CASE DocDeadLetter(d)
  BY <1>8, ConstantsAreNat DEF DocDeadLetter, DocStep, DocGoto, Save, DocPcs,
     Statuses, InFlight, Aborted, RowTypes, StoreTypes, DocTypes, PostTypes,
     SubTypes, FanTypes, UserTypes, GhostTypes
<1>9. CASE DocParsed(d)
  BY <1>9, ConstantsAreNat DEF DocParsed, DocStep, DocGoto, Aborted, DocPcs,
     InFlight, RowTypes, StoreTypes, DocTypes, PostTypes, SubTypes, FanTypes,
     UserTypes, GhostTypes
<1>10. CASE DocNoModel(d)
  BY <1>10, ConstantsAreNat DEF DocNoModel, DocStep, DocGoto, Fault, DocPcs,
     RowTypes, StoreTypes, DocTypes, PostTypes, SubTypes, FanTypes, UserTypes,
     GhostTypes
<1>11. CASE DocClean(d)
  <2>1. StoreTypes'
    BY <1>11, ConstantsAreNat DEF DocClean, DocStep, StoreTypes
  <2>2. DocTypes'
    BY <1>11, ConstantsAreNat DEF DocClean, DocStep, DocGoto, DocTypes, DocPcs
  <2> QED
    BY <1>11, <2>1, <2>2 DEF DocClean, DocStep, RowTypes, PostTypes, SubTypes,
       FanTypes, UserTypes, GhostTypes
<1>12. CASE DocCheck2(d)
  BY <1>12, ConstantsAreNat DEF DocCheck2, DocStep, DocGoto, Aborted, DocPcs,
     InFlight, RowTypes, StoreTypes, DocTypes, PostTypes, SubTypes, FanTypes,
     UserTypes, GhostTypes
<1>13. CASE DocCreate(d)
  <2>1. docAtt[d] \in Nat
    BY DEF DocTypes
  <2>2. StoreTypes'
    BY <1>13, <2>1, ConstantsAreNat DEF DocCreate, DocStep, StoreTypes
  <2>3. DocTypes'
    BY <1>13, ConstantsAreNat DEF DocCreate, DocStep, DocGoto, DocTypes, DocPcs
  <2> QED
    BY <1>13, <2>2, <2>3 DEF DocCreate, DocStep, RowTypes, PostTypes, SubTypes,
       FanTypes, UserTypes, GhostTypes
<1>14. CASE DocSaveFailed(d)
  <2>1. RowTypes'
    BY <1>14, ConstantsAreNat DEF DocSaveFailed, DocStep, Save, RowTypes,
       Statuses, Aborted
  <2>2. DocTypes'
    BY <1>14, ConstantsAreNat DEF DocSaveFailed, DocStep, DocGoto, DocTypes,
       DocPcs
  <2>3. UserTypes'
    BY <1>14, ConstantsAreNat DEF DocSaveFailed, DocStep, Fault, UserTypes
  <2> QED
    BY <1>14, <2>1, <2>2, <2>3 DEF DocSaveFailed, DocStep, StoreTypes,
       PostTypes, SubTypes, FanTypes, GhostTypes
<1>15. CASE DocCheck3(d)
  <2>1. StoreTypes'
    BY <1>15, ConstantsAreNat DEF DocCheck3, DocStep, StoreTypes
  <2>2. DocTypes'
    BY <1>15, ConstantsAreNat DEF DocCheck3, DocStep, DocGoto, DocTypes, DocPcs
  <2> QED
    BY <1>15, <2>1, <2>2 DEF DocCheck3, DocStep, RowTypes, PostTypes, SubTypes,
       FanTypes, UserTypes, GhostTypes
<1>16. CASE DocIndex(d)
  <2>1. docAtt[d] \in Nat
    BY DEF DocTypes
  <2>2. StoreTypes'
    BY <1>16, <2>1, ConstantsAreNat DEF DocIndex, DocStep, StoreTypes
  <2>3. DocTypes'
    BY <1>16, ConstantsAreNat DEF DocIndex, DocStep, DocGoto, DocTypes, DocPcs
  <2> QED
    BY <1>16, <2>2, <2>3 DEF DocIndex, DocStep, RowTypes, PostTypes, SubTypes,
       FanTypes, UserTypes, GhostTypes
<1>17. CASE DocIndexFailed(d)
  BY <1>17, ConstantsAreNat DEF DocIndexFailed, DocStep, DocGoto, Save, Fault,
     DocPcs, Statuses, InFlight, Aborted, RowTypes, StoreTypes, DocTypes,
     PostTypes, SubTypes, FanTypes, UserTypes, GhostTypes
<1>18. CASE DocUndo(d)
  BY <1>18, ConstantsAreNat DEF DocUndo, DocStep, DocGoto, DocPcs, RowTypes,
     StoreTypes, DocTypes, PostTypes, SubTypes, FanTypes, UserTypes, GhostTypes
<1>19. CASE DocCheck4(d)
  <2>1. StoreTypes'
    BY <1>19, ConstantsAreNat DEF DocCheck4, LastCheck, StoreTypes
  <2>2. DocTypes'
    BY <1>19, ConstantsAreNat DEF DocCheck4, LastCheck, DocGoto, DocTypes, DocPcs
  <2> QED
    BY <1>19, <2>1, <2>2 DEF DocCheck4, LastCheck, RowTypes, PostTypes, SubTypes,
       FanTypes, UserTypes, GhostTypes
<1>20. CASE DocSave(d)
  BY <1>20, ConstantsAreNat DEF DocSave, DocStep, DocGoto, Save, Fault, DocPcs,
     Statuses, InFlight, Aborted, RowTypes, StoreTypes, DocTypes, PostTypes,
     SubTypes, FanTypes, UserTypes, GhostTypes
<1>21. CASE DocFan(d)
  <2>1. nPosts + 1 \in Posts /\ nPosts + 1 \in 0 .. MaxPost /\ docAtt[d] \in Nat
    BY <1>21, NextMessage, ConstantsAreNat DEF DocFan, PostTypes, DocTypes
  <2>2. DocTypes'
    BY <1>21, ConstantsAreNat DEF DocFan, DocGoto, DocTypes, DocPcs
  <2>3. PostTypes'
    BY <1>21, <2>1, ConstantsAreNat DEF DocFan, PostTypes, PostPcs
  <2> QED
    BY <1>21, <2>2, <2>3 DEF DocFan, RowTypes, StoreTypes, SubTypes, FanTypes,
       UserTypes, GhostTypes
<1>22. CASE DocFanFailed(d)
  BY <1>22, ConstantsAreNat DEF DocFanFailed, DocStep, DocGoto, Fault, DocPcs,
     RowTypes, StoreTypes, DocTypes, PostTypes, SubTypes, FanTypes, UserTypes,
     GhostTypes
<1>23. CASE DocAck(d)
  BY <1>23, ConstantsAreNat DEF DocAck, DocStep, DocGoto, DocPcs, RowTypes,
     StoreTypes, DocTypes, PostTypes, SubTypes, FanTypes, UserTypes, GhostTypes
<1>24. CASE DocCrash(d)
  <2>1. DocTypes'
    BY <1>24, ConstantsAreNat DEF DocCrash, DocGoto, DocTypes, DocPcs
  <2>2. UserTypes'
    BY <1>24, ConstantsAreNat DEF DocCrash, Fault, UserTypes
  <2>3. GhostTypes'
    BY <1>24, ConstantsAreNat DEF DocCrash, GhostTypes
  <2> QED
    BY <1>24, <2>1, <2>2, <2>3 DEF DocCrash, RowTypes, StoreTypes, PostTypes,
       SubTypes, FanTypes
<1> QED
  BY <1>1, <1>2, <1>3, <1>4, <1>5, <1>6, <1>7, <1>8, <1>9, <1>10, <1>11, <1>12,
     <1>13, <1>14, <1>15, <1>16, <1>17, <1>18, <1>19, <1>20, <1>21, <1>22,
     <1>23, <1>24 DEF DocNext

\* The steps of knowledge:post_process.
LEMMA PostSteps ==
  ASSUME TypeOK, NEW p \in Posts, PostNext(p)
  PROVE  TypeOK'
<1> USE DEF TypeOK, rowVars, storeVars, docVars, postVars, fanVars, subVars,
      userVars, ghostVars
<1>1. CASE PostLoad(p)
  BY <1>1, ConstantsAreNat DEF PostLoad, PostStep, PostGoto, PostPcs, RowTypes,
     StoreTypes, DocTypes, PostTypes, SubTypes, FanTypes, UserTypes, GhostTypes
<1>2. CASE PostLoadFailed(p)
  <2>1. PostTypes'
    BY <1>2, ConstantsAreNat DEF PostLoadFailed, PostGoto, PostTypes, PostPcs
  <2>2. UserTypes'
    BY <1>2, ConstantsAreNat DEF PostLoadFailed, Fault, UserTypes
  <2> QED
    BY <1>2, <2>1, <2>2 DEF PostLoadFailed, RowTypes, StoreTypes, DocTypes,
       SubTypes, FanTypes, GhostTypes
<1>3. CASE PostDeadLetter(p)
  BY <1>3, ConstantsAreNat DEF PostDeadLetter, PostStep, PostGoto, Save,
     PostPcs, Statuses, InFlight, Aborted, RowTypes, StoreTypes, DocTypes,
     PostTypes, SubTypes, FanTypes, UserTypes, GhostTypes
<1>4. CASE PostList(p)
  BY <1>4, ConstantsAreNat DEF PostList, PostGoto, PostPcs, RowTypes,
     StoreTypes, DocTypes, PostTypes, SubTypes, FanTypes, UserTypes, GhostTypes
<1>5. CASE PostFast(p)
  BY <1>5, ConstantsAreNat DEF PostFast, PostStep, PostGoto, Save, Fault,
     PostPcs, Statuses, InFlight, Aborted, RowTypes, StoreTypes, DocTypes,
     PostTypes, SubTypes, FanTypes, UserTypes, GhostTypes
<1>6. CASE SetFinalizing(p)
  <2>1. nFans + 1 \in Fans /\ nFans + 1 \in 0 .. MaxFan
    BY <1>6, NextMessage DEF SetFinalizing
  <2>2. postAtt[p] \in Nat /\ postSeen[p] \in SUBSET Nat
    BY DEF PostTypes
  <2>3. [s \in Slots |-> "held"] \in [Slots -> SubPcs]
    BY DEF SubPcs
  <2>4. RowTypes'
    BY <1>6, ConstantsAreNat DEF SetFinalizing, RowTypes, Statuses, InFlight
  <2>5. PostTypes'
    BY <1>6, <2>1, ConstantsAreNat DEF SetFinalizing, PostGoto, PostTypes,
       PostPcs
  <2>6. SubTypes'
    BY <1>6, <2>1, <2>3, SubPcType DEF SetFinalizing, SubTypes, SubPcs
  <2>7. FanTypes'
    BY <1>6, <2>1, <2>2, ConstantsAreNat DEF SetFinalizing, FanTypes
  <2> QED
    BY <1>6, <2>4, <2>5, <2>6, <2>7 DEF SetFinalizing, StoreTypes, DocTypes,
       UserTypes, GhostTypes
<1>7. CASE HandoffLost(p)
  BY <1>7, ConstantsAreNat DEF HandoffLost, PostStep, PostGoto, Fault, PostPcs,
     RowTypes, StoreTypes, DocTypes, PostTypes, SubTypes, FanTypes, UserTypes,
     GhostTypes
<1>8. ASSUME NEW s \in Slots, NEW pc \in {"queued", "unowned"},
              PostEnqueue(p, s, pc)
      PROVE TypeOK'
  <2>1. SubTypes'
    <3>1. subPc' \in [Fans -> [Slots -> SubPcs]]
      BY <1>8, SubPcType DEF PostEnqueue, SubPcs
    <3> QED
      BY <1>8, <3>1 DEF PostEnqueue, SubTypes
  <2> QED
    BY <1>8, <2>1 DEF PostEnqueue, RowTypes, StoreTypes, DocTypes, PostTypes,
       FanTypes, UserTypes, GhostTypes
<1>9. ASSUME NEW s \in Slots, PostRelease(p, s) PROVE TypeOK'
  <2>1. RowTypes'
    BY <1>9, FinalizeType DEF PostRelease, PostStep
  <2>2. PostTypes'
    BY <1>9, ConstantsAreNat DEF PostRelease, PostStep, PostGoto, PostTypes,
       PostPcs
  <2>3. SubTypes'
    BY <1>9, SubPcType DEF PostRelease, PostStep, SubTypes, SubPcs
  <2> QED
    BY <1>9, <2>1, <2>2, <2>3 DEF PostRelease, PostStep, StoreTypes, DocTypes,
       FanTypes, UserTypes, GhostTypes
<1>10. CASE PostPromote(p)
  BY <1>10, ConstantsAreNat DEF PostPromote, PostStep, PostGoto, Promote,
     PostPcs, Statuses, InFlight, Aborted, RowTypes, StoreTypes, DocTypes,
     PostTypes, SubTypes, FanTypes, UserTypes, GhostTypes
<1>11. CASE PostReturn(p)
  BY <1>11, ConstantsAreNat DEF PostReturn, PostStep, PostGoto, Fault, PostPcs,
     RowTypes, StoreTypes, DocTypes, PostTypes, SubTypes, FanTypes, UserTypes,
     GhostTypes
<1>12. CASE PostCrash(p)
  <2>1. PostTypes'
    BY <1>12, ConstantsAreNat DEF PostCrash, PostGoto, PostTypes, PostPcs
  <2>2. UserTypes'
    BY <1>12, ConstantsAreNat DEF PostCrash, Fault, UserTypes
  <2>3. GhostTypes'
    BY <1>12, ConstantsAreNat DEF PostCrash, GhostTypes
  <2> QED
    BY <1>12, <2>1, <2>2, <2>3 DEF PostCrash, RowTypes, StoreTypes, DocTypes,
       SubTypes, FanTypes
<1> QED
  BY <1>1, <1>2, <1>3, <1>4, <1>5, <1>6, <1>7, <1>8, <1>9, <1>10, <1>11, <1>12
     DEF PostNext

\* The steps of an enrichment subtask.
LEMMA SubSteps ==
  ASSUME TypeOK, NEW f \in Fans, NEW s \in Slots, SubNext(f, s)
  PROVE  TypeOK'
<1> USE DEF TypeOK, rowVars, storeVars, docVars, postVars, fanVars, userVars,
      ghostVars
<1>1. CASE SubStart(f, s)
  BY <1>1, ConstantsAreNat DEF SubStart, SubStep, SubGoto, SubPcs, RowTypes,
     StoreTypes, DocTypes, PostTypes, SubTypes, FanTypes, UserTypes, GhostTypes
<1>2. CASE SubRead(f, s)
  <2>1. subSeen' \in [Fans -> [st : Statuses, ch : SUBSET Nat]]
    BY <1>2 DEF SubRead, RowTypes, SubTypes
  <2>2. SubTypes'
    <3>1. subPc' \in [Fans -> [Slots -> SubPcs]]
      BY <1>2, SubPcType DEF SubRead, SubStep, SubGoto, SubPcs
    <3> QED
      BY <1>2, <2>1, <3>1 DEF SubRead, SubStep, SubTypes
  <2> QED
    BY <1>2, <2>2 DEF SubRead, SubStep, RowTypes, StoreTypes, DocTypes,
       PostTypes, FanTypes, UserTypes, GhostTypes
<1>3. CASE SubWork(f, s)
  BY <1>3, ConstantsAreNat DEF SubWork, SubStep, SubGoto, SubPcs, RowTypes,
     StoreTypes, DocTypes, PostTypes, SubTypes, FanTypes, UserTypes, GhostTypes
<1>4. CASE SubStore(f, s)
  <2>1. StoreTypes'
    BY <1>4, ConstantsAreNat DEF SubStore, SubStep, StoreTypes
  <2>2. SubTypes'
    BY <1>4, SubPcType DEF SubStore, SubStep, SubGoto, SubTypes, SubPcs
  <2> QED
    BY <1>4, <2>1, <2>2 DEF SubStore, SubStep, RowTypes, DocTypes, PostTypes,
       FanTypes, UserTypes, GhostTypes
<1>5. CASE SubFail(f, s)
  <2>1. RowTypes'
    BY <1>5, SeenStatus DEF SubFail, RowTypes
  <2>2. SubTypes'
    BY <1>5, RetryType DEF SubFail
  <2> QED
    BY <1>5, <2>1, <2>2 DEF SubFail, StoreTypes, DocTypes, PostTypes, FanTypes,
       UserTypes, GhostTypes
<1>6. CASE SubDrain(f, s)
  BY <1>6, ConstantsAreNat DEF SubDrain, SubStep, SubGoto, Decrement, SubPcs,
     RowTypes, StoreTypes, DocTypes, PostTypes, SubTypes, FanTypes, UserTypes,
     GhostTypes
<1>7. CASE SubPromote(f, s)
  BY <1>7, ConstantsAreNat DEF SubPromote, SubStep, SubGoto, Promote, SubPcs,
     Statuses, InFlight, Aborted, RowTypes, StoreTypes, DocTypes, PostTypes,
     SubTypes, FanTypes, UserTypes, GhostTypes
<1>8. CASE SubCrash(f, s)
  <2>1. SubTypes'
    BY <1>8, CrashType DEF SubCrash
  <2>2. UserTypes'
    BY <1>8, ConstantsAreNat DEF SubCrash, Fault, UserTypes
  <2>3. GhostTypes'
    BY <1>8, ConstantsAreNat DEF SubCrash, GhostTypes
  <2> QED
    BY <1>8, <2>1, <2>2, <2>3 DEF SubCrash, RowTypes, StoreTypes, DocTypes,
       PostTypes, FanTypes
<1> QED
  BY <1>1, <1>2, <1>3, <1>4, <1>5, <1>6, <1>7, <1>8 DEF SubNext

\* The steps of the summary worker alone.
LEMMA SummarySteps ==
  ASSUME TypeOK, NEW f \in Fans, SummaryNext(f)
  PROVE  TypeOK'
<1> USE DEF TypeOK, rowVars, storeVars, docVars, postVars, fanVars, userVars,
      ghostVars
<1>1. CASE SummaryMark(f)
  <2>1. RowTypes'
    BY <1>1, SeenStatus DEF SummaryMark, SubStep, RowTypes
  <2>2. SubTypes'
    BY <1>1, SubPcType DEF SummaryMark, SubStep, SubGoto, SubTypes, SubPcs
  <2> QED
    BY <1>1, <2>1, <2>2 DEF SummaryMark, SubStep, StoreTypes, DocTypes,
       PostTypes, FanTypes, UserTypes, GhostTypes
<1>2. CASE SummaryList(f)
  <2>1. RowTypes'
    BY <1>2, SeenStatus DEF SummaryList, SubStep, RowTypes
  <2>2. SubTypes'
    <3>1. subPc' \in [Fans -> [Slots -> SubPcs]] /\ subTries' = subTries
      BY <1>2, SubStepType DEF SummaryList, SubPcs
    <3>2. subSeen' \in [Fans -> [st : Statuses, ch : SUBSET Nat]]
      BY <1>2 DEF SummaryList, SubTypes, StoreTypes
    <3> QED
      BY <3>1, <3>2 DEF SubTypes
  <2> QED
    BY <1>2, <2>1, <2>2 DEF SummaryList, SubStep, StoreTypes, DocTypes,
       PostTypes, FanTypes, UserTypes, GhostTypes
<1>3. CASE SummaryWork(f)
  <2>1. RowTypes'
    BY <1>3, SeenStatus DEF SummaryWork, SubStep, RowTypes
  <2>2. SubTypes'
    <3>1. subPc' \in [Fans -> [Slots -> SubPcs]] /\ subTries' = subTries
      BY <1>3, SubStepType DEF SummaryWork, SubPcs
    <3>2. subSeen' \in [Fans -> [st : Statuses, ch : SUBSET Nat]]
      BY <1>3 DEF SummaryWork, SubTypes
    <3> QED
      BY <3>1, <3>2 DEF SubTypes
  <2>3. UNCHANGED <<storeVars, docVars, postVars, fanVars, userVars, ghostVars, faults>>
    BY <1>3 DEF SummaryWork, SubStep
  <2>4. StoreTypes' /\ DocTypes' /\ PostTypes'
    BY <2>3 DEF StoreTypes, DocTypes, PostTypes
  <2>5. FanTypes' /\ UserTypes' /\ GhostTypes'
    BY <2>3 DEF FanTypes, UserTypes, GhostTypes
  <2> QED
    BY <2>1, <2>2, <2>4, <2>5
<1>4. CASE SummaryFresh(f)
  BY <1>4, ConstantsAreNat DEF SummaryFresh, SubStep, SubGoto, SubPcs,
     RowTypes, StoreTypes, DocTypes, PostTypes, SubTypes, FanTypes, UserTypes,
     GhostTypes
<1>5. CASE SummaryStale(f)
  <2>1. RowTypes'
    BY <1>5, SeenStatus DEF SummaryStale, RowTypes
  <2>2. SubTypes'
    BY <1>5, RetryType, ConstantsAreNat DEF SummaryStale
  <2> QED
    BY <1>5, <2>1, <2>2 DEF SummaryStale, StoreTypes, DocTypes, PostTypes,
       FanTypes, UserTypes, GhostTypes
<1>6. CASE SummarySave(f)
  <2>1. RowTypes'
    BY <1>6, SeenStatus DEF SummarySave, SubStep, RowTypes
  <2>2. SubTypes'
    BY <1>6, SubPcType DEF SummarySave, SubStep, SubGoto, SubTypes, SubPcs
  <2> QED
    BY <1>6, <2>1, <2>2 DEF SummarySave, SubStep, StoreTypes, DocTypes,
       PostTypes, FanTypes, UserTypes, GhostTypes
<1>7. CASE SummaryDerive(f)
  <2>1. StoreTypes'
    BY <1>7, ConstantsAreNat DEF SummaryDerive, SubStep, StoreTypes
  <2>2. SubTypes'
    BY <1>7, SubPcType DEF SummaryDerive, SubStep, SubGoto, SubTypes, SubPcs
  <2> QED
    BY <1>7, <2>1, <2>2 DEF SummaryDerive, SubStep, RowTypes, DocTypes,
       PostTypes, FanTypes, UserTypes, GhostTypes
<1> QED
  BY <1>1, <1>2, <1>3, <1>4, <1>5, <1>6, <1>7 DEF SummaryNext

\* The steps of the user's requests and the sweeper's.
LEMMA RequestSteps ==
  ASSUME TypeOK, Request \/ Handler \/ Sweep
  PROVE  TypeOK'
<1> USE DEF TypeOK, rowVars, storeVars, docVars, postVars, fanVars, subVars,
      userVars, ghostVars
<1>1. CASE CancelRead
  BY <1>1, ConstantsAreNat DEF CancelRead, InFlight, RowTypes, StoreTypes,
     DocTypes, PostTypes, SubTypes, FanTypes, UserTypes, GhostTypes
<1>2. CASE CancelWrite
  <2>1. RowTypes'
    BY <1>2, ConstantsAreNat DEF CancelWrite, SetColumns, Save, RowTypes,
       Statuses, Aborted
  <2>2. UserTypes'
    BY <1>2, ConstantsAreNat DEF CancelWrite, UserTypes
  <2>3. GhostTypes'
    BY <1>2, ConstantsAreNat DEF CancelWrite, GhostTypes, RowTypes
  <2> QED
    BY <1>2, <2>1, <2>2, <2>3 DEF CancelWrite, StoreTypes, DocTypes, PostTypes,
       SubTypes, FanTypes
<1>3. CASE CancelDequeue
  <2>1. DocTypes'
    BY <1>3, DequeueType DEF CancelDequeue
  <2>2. PostTypes'
    BY <1>3, DequeueType DEF CancelDequeue
  <2>3. SubTypes'
    BY <1>3, DequeueType DEF CancelDequeue
  <2>4. UserTypes'
    BY <1>3, ConstantsAreNat DEF CancelDequeue, UserTypes
  <2>5. GhostTypes'
    BY <1>3, ConstantsAreNat DEF CancelDequeue, GhostTypes
  <2> QED
    BY <1>3, <2>1, <2>2, <2>3, <2>4, <2>5, DequeueType DEF CancelDequeue,
       RowTypes, StoreTypes
<1>4. CASE ReparseOpen
  <2>1. nReparses + 1 \in Docs /\ latest + 1 \in Nat
    BY <1>4, NextMessage DEF ReparseOpen, RowTypes
  <2>2. RowTypes'
    BY <1>4, <2>1, ConstantsAreNat DEF ReparseOpen, RowTypes, Statuses
  <2>3. DocTypes'
    BY <1>4, <2>1, ConstantsAreNat DEF ReparseOpen, DocTypes, DocPcs
  <2>4. UserTypes'
    BY <1>4, ConstantsAreNat DEF ReparseOpen, UserTypes
  <2>5. GhostTypes'
    BY <1>4, ConstantsAreNat DEF ReparseOpen, GhostTypes
  <2> QED
    BY <1>4, <2>2, <2>3, <2>4, <2>5 DEF ReparseOpen, StoreTypes, PostTypes,
       SubTypes, FanTypes
<1>5. CASE ReparseClean
  BY <1>5, ConstantsAreNat DEF ReparseClean, ReparseStep, RowTypes, StoreTypes,
     DocTypes, PostTypes, SubTypes, FanTypes, UserTypes, GhostTypes
<1>6. CASE ReparseFailed
  <2>1. UserTypes'
    BY <1>6, ConstantsAreNat DEF ReparseFailed, Fault, ReparseStep, UserTypes
  <2> QED
    BY <1>6, <2>1 DEF ReparseFailed, ReparseStep, RowTypes, StoreTypes,
       DocTypes, PostTypes, SubTypes, FanTypes, GhostTypes
<1>7. CASE ReparseReset
  BY <1>7, ConstantsAreNat DEF ReparseReset, Save, ReparseStep, Statuses,
     InFlight, Aborted, RowTypes, StoreTypes, DocTypes, PostTypes, SubTypes,
     FanTypes, UserTypes, GhostTypes
<1>8. CASE ReparseZero
  <2>1. RowTypes'
    BY <1>8, ConstantsAreNat DEF ReparseZero, ReparseStep, RowTypes, Statuses
  <2>2. UserTypes'
    BY <1>8, ConstantsAreNat DEF ReparseZero, ReparseStep, UserTypes
  <2>3. GhostTypes'
    BY <1>8, ConstantsAreNat DEF ReparseZero, ReparseStep, GhostTypes
  <2> QED
    BY <1>8, <2>1, <2>2, <2>3 DEF ReparseZero, ReparseStep, StoreTypes,
       DocTypes, PostTypes, SubTypes, FanTypes
<1>9. CASE ReparseEnqueue
  <2>1. nReparses \in Docs
    BY <1>9, NextMessage
  <2>2. DocTypes'
    BY <1>9, <2>1, ConstantsAreNat DEF ReparseEnqueue, DocGoto, ReparseStep,
       DocTypes, DocPcs
  <2>3. UserTypes'
    BY <1>9, ConstantsAreNat DEF ReparseEnqueue, ReparseStep, UserTypes
  <2> QED
    BY <1>9, <2>2, <2>3 DEF ReparseEnqueue, ReparseStep, RowTypes, StoreTypes,
       PostTypes, SubTypes, FanTypes, GhostTypes
<1>10. CASE ReparseEnqueueFailed
  BY <1>10, ConstantsAreNat DEF ReparseEnqueueFailed, Save, Fault, ReparseStep,
     Statuses, InFlight, Aborted, RowTypes, StoreTypes, DocTypes, PostTypes,
     SubTypes, FanTypes, UserTypes, GhostTypes
<1>11. CASE DeleteMark
  <2>1. RowTypes'
    BY <1>11, ConstantsAreNat DEF DeleteMark, Save, RowTypes, Statuses, Aborted
  <2>2. UserTypes'
    BY <1>11, ConstantsAreNat DEF DeleteMark, Fault, UserTypes
  <2>3. GhostTypes'
    BY <1>11, ConstantsAreNat DEF DeleteMark, GhostTypes
  <2> QED
    BY <1>11, <2>1, <2>2, <2>3 DEF DeleteMark, StoreTypes, DocTypes, PostTypes,
       SubTypes, FanTypes
<1>12. CASE DeleteDequeue
  <2>1. DocTypes'
    BY <1>12, DequeueType DEF DeleteDequeue
  <2>2. PostTypes'
    BY <1>12, DequeueType DEF DeleteDequeue
  <2>3. SubTypes'
    BY <1>12, DequeueType DEF DeleteDequeue
  <2>4. UserTypes'
    BY <1>12, ConstantsAreNat DEF DeleteDequeue, DeleteStep, UserTypes
  <2> QED
    BY <1>12, <2>1, <2>2, <2>3, <2>4, DequeueType DEF DeleteDequeue,
       DeleteStep, RowTypes, StoreTypes, GhostTypes
<1>13. CASE DeleteClean
  BY <1>13, ConstantsAreNat DEF DeleteClean, DeleteStep, RowTypes, StoreTypes,
     DocTypes, PostTypes, SubTypes, FanTypes, UserTypes, GhostTypes
<1>14. CASE DeleteFailed
  BY <1>14, ConstantsAreNat DEF DeleteFailed, Fault, DeleteStep, RowTypes,
     StoreTypes, DocTypes, PostTypes, SubTypes, FanTypes, UserTypes, GhostTypes
<1>15. CASE DeleteDrop
  <2>1. RowTypes'
    BY <1>15, ConstantsAreNat DEF DeleteDrop, DeleteStep, RowTypes, Statuses,
       Aborted
  <2>2. UserTypes'
    BY <1>15, ConstantsAreNat DEF DeleteDrop, DeleteStep, UserTypes
  <2> QED
    BY <1>15, <2>1, <2>2 DEF DeleteDrop, DeleteStep, StoreTypes, DocTypes,
       PostTypes, SubTypes, FanTypes, GhostTypes
<1>16. CASE Sweep
  BY <1>16, ConstantsAreNat DEF Sweep, SetColumns, Save, InFlight, Statuses,
     Aborted, RowTypes, StoreTypes, DocTypes, PostTypes, SubTypes, FanTypes,
     UserTypes, GhostTypes
<1> QED
  BY <1>1, <1>2, <1>3, <1>4, <1>5, <1>6, <1>7, <1>8, <1>9, <1>10, <1>11, <1>12,
     <1>13, <1>14, <1>15, <1>16 DEF Request, Handler

\* Every step keeps the types.
LEMMA TypeStep == ASSUME TypeOK, [Next]_vars PROVE TypeOK'
<1>1. CASE UNCHANGED vars
  BY <1>1 DEF vars, rowVars, storeVars, docVars, postVars, subVars, fanVars,
     userVars, ghostVars, TypeOK, RowTypes, StoreTypes, DocTypes, PostTypes,
     SubTypes, FanTypes, UserTypes, GhostTypes
<1>2. CASE Next
  BY <1>2, DocSteps, PostSteps, SubSteps, SummarySteps, RequestSteps DEF Next
<1> QED
  BY <1>1, <1>2

\* The state of a run has its type: among other things the counter of a row is
\* never negative and never above the number of slots SetFinalizing seeds.
THEOREM TypeCorrect == Spec => []TypeOK
<1>1. Init => TypeOK
  <2> SUFFICES ASSUME Init PROVE TypeOK
    OBVIOUS
  <2>1. RowTypes /\ StoreTypes
    BY ConstantsAreNat DEF Init, RowTypes, StoreTypes, Statuses, InFlight
  <2>2. DocTypes
    BY ConstantsAreNat DEF Init, DocTypes, DocPcs
  <2>3. PostTypes
    BY ConstantsAreNat DEF Init, PostTypes, PostPcs
  <2>4. SubTypes
    BY ConstantsAreNat DEF Init, SubTypes, SubPcs, Statuses, InFlight
  <2>5. FanTypes /\ UserTypes
    BY ConstantsAreNat DEF Init, FanTypes, UserTypes
  <2>6. GhostTypes
    BY DEF Init, GhostTypes
  <2> QED
    BY <2>1, <2>2, <2>3, <2>4, <2>5, <2>6 DEF TypeOK
<1>2. TypeOK /\ [Next]_vars => TypeOK'
  BY TypeStep
<1> QED
  BY <1>1, <1>2, PTL DEF Spec

-----------------------------------------------------------------------------
(* What a deletion leaves behind                                           *)

\* What a worker may have written and not yet had its last abort check on.
Writing == {"check3", "index", "check4"}

\* The deletion has cleaned up and will not do so again.
Erased == deletePc = "drop" \/ status = "gone"

\* The hypotheses of SeenDeletionLeavesNothing about the run so far.
Untroubled == faults = 0 /\ nCancels = 0 /\ ~slipped

\* The mark of a cancel, a summary worker's copy of the row, and the drop.
MarkInv ==
  /\ \A f \in Fans : subSeen[f].st \notin Aborted
  /\ cancelPc # "idle" \/ status = "cancelled" => nCancels > 0
  /\ status = "gone" => deletePc = "idle"

\* Whatever is stored is removed by the last abort check of a live worker.
Covered ==
  /\ chunks # {} => \E d \in Docs : docPc[d] \in Writing
  /\ index # {} => \E d \in Docs : docPc[d] = "check4"

\* A reparse's message does not exist before it is enqueued.
Unsent(d) == d > nReparses \/ (d = nReparses /\ reparsePc # "idle")
UnsentInv ==
  /\ reparsePc # "idle" => nReparses > 0
  /\ \A d \in Docs : Unsent(d) => docPc[d] = "none"

ErasureInv == NeedsEmbedding /\ Untroubled /\ Erased => Covered

DeletionInv == MarkInv /\ ErasureInv

\* A step that keeps the data, and every worker that has written some where it
\* is, keeps it covered.
LEMMA CoveredKept ==
  ASSUME Covered, chunks' = chunks, index' = index,
         \A e \in Docs : docPc[e] \in Writing => docPc'[e] = docPc[e]
  PROVE  Covered'
  BY DEF Covered, Writing

\* Without data there is nothing to cover.
LEMMA CoveredEmpty == ASSUME chunks' = {}, index' = {} PROVE Covered'
  BY DEF Covered

\* A step of one worker from a place where it has nothing to remove.
LEMMA CoveredByOthers ==
  ASSUME TypeOK, Covered, NEW d \in Docs, NEW pc, docPc[d] \notin Writing,
         docPc' = [docPc EXCEPT ![d] = pc], chunks' = chunks, index' = index
  PROVE  Covered'
<1>1. \A e \in Docs : docPc[e] \in Writing => docPc'[e] = docPc[e]
  BY DEF TypeOK, DocTypes
<1> QED
  BY <1>1, CoveredKept

\* A fault, a cancel or a worker that slipped through is for good.
LEMMA FaultTroubles == ASSUME TypeOK, Fault PROVE ~Untroubled'
  BY ConstantsAreNat DEF Fault, Untroubled, TypeOK, UserTypes

\* The writes of the row, and a worker's steps, neither cancel nor drop it.
LEMMA SavedMark ==
  ASSUME MarkInv, NEW s \in Statuses \ {"cancelled", "gone"}, Save(s),
         UNCHANGED <<subSeen, cancelPc, nCancels, deletePc>>
  PROVE  MarkInv' /\ (status' = "gone" => status = "gone")
  BY DEF MarkInv, Save

LEMMA KeptMark ==
  ASSUME MarkInv, status' \in {status, "completed", "finalizing"},
         UNCHANGED <<subSeen, cancelPc, nCancels, deletePc>>
  PROVE  MarkInv' /\ (status' = "gone" => status = "gone")
  BY DEF MarkInv

\* A document worker writes under its own later checks, and removes what it
\* wrote when one of them finds the row deleted.
LEMMA DocErasure ==
  ASSUME TypeOK, DeletionInv, NEW d \in Docs, DocNext(d)
  PROVE  DeletionInv'
<1> USE DEF rowVars, storeVars, subVars, userVars, ghostVars
<1>1. MarkInv' /\ (status' = "gone" => status = "gone") /\ deletePc' = deletePc
  <2>1. UNCHANGED <<subSeen, cancelPc, nCancels, deletePc>>
    BY DEF DocNext, DocRead, DocLost, DocRecheck, DocMark, DocOpen, DocParsed,
       DocFatal, DocRetryable, DocDeadLetter, DocNoModel, DocClean, DocCheck2,
       DocCreate, DocSaveFailed, DocCheck3, DocIndex, DocIndexFailed, DocUndo,
       DocCheck4, LastCheck, DocSave, DocFan, DocFanFailed, DocAck, DocCrash,
       DocStep
  <2>2. status' = status \/ \E s \in {"processing", "completed", "failed"} : Save(s)
    BY DEF DocNext, DocRead, DocLost, DocRecheck, DocMark, DocOpen, DocParsed,
       DocFatal, DocRetryable, DocDeadLetter, DocNoModel, DocClean, DocCheck2,
       DocCreate, DocSaveFailed, DocCheck3, DocIndex, DocIndexFailed, DocUndo,
       DocCheck4, LastCheck, DocSave, DocFan, DocFanFailed, DocAck, DocCrash
  <2> QED
    BY <2>1, <2>2, SavedMark, KeptMark DEF DeletionInv, Statuses, InFlight, Aborted
<1> SUFFICES ASSUME NeedsEmbedding, Untroubled', Erased' PROVE Covered'
  BY <1>1 DEF DeletionInv, ErasureInv
<1>2. ~Fault
  BY FaultTroubles
<1>3. Untroubled
  <2>1. faults' = faults /\ nCancels' = nCancels
    BY <1>2 DEF DocNext, DocRead, DocLost, DocRecheck, DocMark, DocOpen, DocParsed,
       DocFatal, DocRetryable, DocDeadLetter, DocNoModel, DocClean, DocCheck2,
       DocCreate, DocSaveFailed, DocCheck3, DocIndex, DocIndexFailed, DocUndo,
       DocCheck4, LastCheck, DocSave, DocFan, DocFanFailed, DocAck, DocCrash,
       DocStep
  <2>2. slipped' = slipped \/ LastCheck(d)
    BY DEF DocNext, DocRead, DocLost, DocRecheck, DocMark, DocOpen, DocParsed,
       DocFatal, DocRetryable, DocDeadLetter, DocNoModel, DocClean, DocCheck2,
       DocCreate, DocSaveFailed, DocCheck3, DocIndex, DocIndexFailed, DocUndo,
       DocCheck4, DocSave, DocFan, DocFanFailed, DocAck, DocCrash, DocStep
  <2>3. slipped => slipped'
    BY <2>2, Zenon DEF LastCheck
  <2> QED
    BY <2>1, <2>3 DEF Untroubled
<1>4. Erased /\ Covered /\ status # "cancelled"
  BY <1>1, <1>3 DEF Erased, DeletionInv, ErasureInv, MarkInv, Untroubled, TypeOK,
     UserTypes
<1>5. CASE DocRead(d) \/ DocRecheck(d) \/ DocMark(d) \/ DocOpen(d) \/ DocParsed(d)
           \/ DocFatal(d) \/ DocRetryable(d) \/ DocDeadLetter(d) \/ DocCheck2(d)
           \/ DocSave(d) \/ DocFan(d) \/ DocAck(d)
  <2>1. /\ docPc[d] \notin Writing /\ chunks' = chunks /\ index' = index
        /\ \E pc : docPc' = [docPc EXCEPT ![d] = pc]
    BY <1>5 DEF DocRead, DocRecheck, DocMark, DocOpen, DocParsed, DocFatal,
       DocRetryable, DocDeadLetter, DocCheck2, DocSave, DocFan, DocAck, DocStep,
       DocGoto, Writing
  <2> QED
    BY <1>4, <2>1, CoveredByOthers
<1>6. CASE DocClean(d)
  BY <1>6, CoveredEmpty DEF DocClean
<1>7. CASE DocCreate(d)
  <2>1. docPc[d] = "create" /\ docPc' = [docPc EXCEPT ![d] = "check3"] /\ index' = index
    BY <1>7 DEF DocCreate, DocStep, DocGoto
  <2>2. docPc'[d] = "check3" /\ \A e \in Docs : docPc[e] = "check4" => docPc'[e] = "check4"
    BY <2>1 DEF TypeOK, DocTypes
  <2> QED
    BY <1>4, <2>1, <2>2 DEF Covered, Writing
<1>8. CASE DocCheck3(d)
  <2>1. /\ docPc[d] = "check3" /\ index' = index
        /\ docPc' = [docPc EXCEPT ![d] = IF status \in Aborted THEN "done" ELSE "index"]
        /\ chunks' = IF status \in {"deleting", "gone"} THEN {} ELSE chunks
    BY <1>8 DEF DocCheck3, DocStep, DocGoto
  <2>2. \A e \in Docs : docPc[e] = "check4" => docPc'[e] = "check4"
    BY <2>1 DEF TypeOK, DocTypes
  <2>3. CASE status \in {"deleting", "gone"}
    BY <1>4, <2>1, <2>2, <2>3 DEF Covered
  <2>4. CASE status \notin {"deleting", "gone"}
    <3>1. docPc'[d] = "index"
      BY <1>4, <2>1, <2>4 DEF Aborted, TypeOK, DocTypes
    <3> QED
      BY <1>4, <2>1, <2>2, <2>4, <3>1 DEF Covered, Writing
  <2> QED
    BY <2>3, <2>4
<1>9. CASE DocIndex(d)
  <2>1. docPc' = [docPc EXCEPT ![d] = "check4"]
    BY <1>9 DEF DocIndex, DocStep, DocGoto
  <2>2. docPc'[d] = "check4"
    BY <2>1 DEF TypeOK, DocTypes
  <2> QED
    BY <2>2 DEF Covered, Writing
<1>10. CASE DocUndo(d)
  BY <1>10, CoveredEmpty DEF DocUndo
<1>11. CASE DocCheck4(d)
  <2>1. CASE status \in {"deleting", "gone"}
    BY <1>11, <2>1, CoveredEmpty DEF DocCheck4
  <2>2. CASE status \notin {"deleting", "gone"}
    <3>1. deletePc = "drop" /\ status \notin Aborted
      BY <1>4, <2>2 DEF Erased, Aborted
    <3> QED
      BY <1>11, <3>1 DEF DocCheck4, LastCheck, Untroubled
  <2> QED
    BY <2>1, <2>2
<1> QED
  BY <1>2, <1>5, <1>6, <1>7, <1>8, <1>9, <1>10, <1>11 DEF DocNext, DocLost,
     DocNoModel, DocSaveFailed, DocIndexFailed, DocFanFailed, DocCrash

\* Post-process and the enrichment subtasks store neither chunks nor index rows.
LEMMA EnrichmentErasure ==
  ASSUME TypeOK, DeletionInv, MarkInv', UNCHANGED <<chunks, index, docPc>>,
         status' = "gone" => status = "gone", deletePc' = deletePc,
         nCancels' = nCancels, slipped' = slipped, Fault \/ faults' = faults
  PROVE  DeletionInv'
<1> SUFFICES ASSUME NeedsEmbedding, Untroubled', Erased' PROVE Covered'
  BY DEF DeletionInv, ErasureInv
<1>1. Untroubled /\ Erased
  BY FaultTroubles DEF Untroubled, Erased
<1> QED
  BY <1>1, CoveredKept DEF DeletionInv, ErasureInv

LEMMA PostErasure ==
  ASSUME TypeOK, DeletionInv, NEW p \in Posts, PostNext(p)
  PROVE  DeletionInv'
<1> USE DEF rowVars, storeVars, docVars, subVars, userVars, ghostVars
<1>1. /\ UNCHANGED <<subSeen, cancelPc, nCancels, deletePc, chunks, index, docPc>>
      /\ slipped' = slipped /\ (Fault \/ faults' = faults)
  BY DEF PostNext, PostLoad, PostLoadFailed, PostDeadLetter, PostList, PostFast,
     SetFinalizing, HandoffLost, PostEnqueue, PostRelease, PostPromote, PostReturn,
     PostCrash, PostStep
<1>2. \/ status' \in {status, "completed", "finalizing"}
      \/ \E s \in {"completed", "failed"} : Save(s)
  BY DEF PostNext, PostLoad, PostLoadFailed, PostDeadLetter, PostList, PostFast,
     SetFinalizing, HandoffLost, PostEnqueue, PostRelease, PostPromote, PostReturn,
     PostCrash, Decrement, Promote
<1>3. MarkInv' /\ (status' = "gone" => status = "gone")
  BY <1>1, <1>2, SavedMark, KeptMark DEF DeletionInv, Statuses, InFlight, Aborted
<1> QED
  BY <1>1, <1>3, EnrichmentErasure

\* A summary worker saves the row as it read it, never an aborted one.
LEMMA SubErasure ==
  ASSUME TypeOK, DeletionInv, NEW f \in Fans,
         SummaryNext(f) \/ \E s \in Slots : SubNext(f, s)
  PROVE  DeletionInv'
<1> USE DEF rowVars, storeVars, docVars, fanVars, userVars, ghostVars
<1>1. /\ UNCHANGED <<cancelPc, nCancels, deletePc, chunks, index, docPc>>
      /\ slipped' = slipped /\ (Fault \/ faults' = faults)
  BY DEF SubNext, SubStart, SubRead, SubWork, SubStore, SubFail, SubDrain,
     SubPromote, SubCrash, SubStep, SummaryNext, SummaryMark, SummaryList,
     SummaryWork, SummaryFresh, SummaryStale, SummarySave, SummaryDerive
<1>2. \/ status' \in {status, "completed"}
      \/ Save(subSeen[f].st)
  BY DEF SubNext, SubStart, SubRead, SubWork, SubStore, SubFail, SubDrain,
     SubPromote, SubCrash, SummaryNext, SummaryMark, SummaryList, SummaryWork,
     SummaryFresh, SummaryStale, SummarySave, SummaryDerive, Decrement, Promote
<1>3. \/ subSeen' = subSeen
      \/ status \notin Aborted /\ subSeen' = [subSeen EXCEPT ![f].st = status]
      \/ subSeen' = [subSeen EXCEPT ![f].ch = chunks]
  BY DEF SubNext, SubStart, SubRead, SubWork, SubStore, SubFail, SubDrain,
     SubPromote, SubCrash, SummaryNext, SummaryMark, SummaryList, SummaryWork,
     SummaryFresh, SummaryStale, SummarySave, SummaryDerive, Aborted
<1>4. subSeen[f].st \notin Aborted
  BY DEF DeletionInv, MarkInv
<1>5. \A g \in Fans : subSeen'[g].st \notin Aborted
  BY <1>3 DEF DeletionInv, MarkInv, TypeOK, SubTypes
<1>6. /\ status' = "gone" => status = "gone"
      /\ status' = "cancelled" => status = "cancelled"
  BY <1>2, <1>4 DEF Save, Aborted
<1>7. MarkInv'
  BY <1>1, <1>5, <1>6 DEF DeletionInv, MarkInv
<1> QED
  BY <1>1, <1>6, <1>7, EnrichmentErasure

\* A message that does not exist moves only when it is enqueued.
LEMMA UnsentStays ==
  ASSUME TypeOK, UnsentInv, Next, ~ReparseOpen, ~ReparseEnqueue
  PROVE  /\ \A e \in Docs : docPc[e] = "none" => docPc'[e] = "none"
         /\ nReparses' = nReparses
         /\ reparsePc' = reparsePc \/ reparsePc # "idle"
<1> USE DEF rowVars, storeVars, docVars, subVars, userVars
<1>1. CASE \E d \in Docs : DocNext(d)
  <2>1. PICK d \in Docs : DocNext(d)
    BY <1>1
  <2>2. UNCHANGED <<nReparses, reparsePc>>
    BY <2>1 DEF DocNext, DocRead, DocLost, DocRecheck, DocMark, DocOpen, DocParsed,
       DocFatal, DocRetryable, DocDeadLetter, DocNoModel, DocClean, DocCheck2,
       DocCreate, DocSaveFailed, DocCheck3, DocIndex, DocIndexFailed, DocUndo,
       DocCheck4, LastCheck, DocSave, DocFan, DocFanFailed, DocAck, DocCrash,
       DocStep
  <2>3. docPc[d] # "none" /\ \E pc : docPc' = [docPc EXCEPT ![d] = pc]
    BY <2>1 DEF DocNext, DocRead, DocLost, DocRecheck, DocMark, DocOpen, DocParsed,
       DocFatal, DocRetryable, DocDeadLetter, DocNoModel, DocClean, DocCheck2,
       DocCreate, DocSaveFailed, DocCheck3, DocIndex, DocIndexFailed, DocUndo,
       DocCheck4, LastCheck, DocSave, DocFan, DocFanFailed, DocAck, DocCrash,
       DocStep, DocGoto
  <2> QED
    BY <2>2, <2>3 DEF TypeOK, DocTypes
<1>2. CASE \E p \in Posts : PostNext(p)
  BY <1>2 DEF PostNext, PostLoad, PostLoadFailed, PostDeadLetter, PostList, PostFast,
     SetFinalizing, HandoffLost, PostEnqueue, PostRelease, PostPromote, PostReturn,
     PostCrash, PostStep
<1>3. CASE \/ \E f \in Fans, s \in Slots : SubNext(f, s)
           \/ \E f \in Fans : SummaryNext(f)
  BY <1>3 DEF SubNext, SubStart, SubRead, SubWork, SubStore, SubFail, SubDrain,
     SubPromote, SubCrash, SubStep, SummaryNext, SummaryMark, SummaryList,
     SummaryWork, SummaryFresh, SummaryStale, SummarySave, SummaryDerive
<1>4. CASE CancelDequeue \/ DeleteDequeue
  <2>1. UNCHANGED <<nReparses, reparsePc>>
    BY <1>4 DEF CancelDequeue, DeleteDequeue, DeleteStep
  <2>2. Dequeue
    BY <1>4 DEF CancelDequeue, DeleteDequeue
  <2>3. \A e \in Docs : docPc[e] = "none" => docPc'[e] = "none"
    <3>1. CASE UNCHANGED <<docVars, postVars, subVars>>
      BY <3>1
    <3>2. ASSUME NEW ds \in SUBSET LiveDocs, NEW ps, NEW ss, DequeueAll(ds, ps, ss)
          PROVE  \A e \in Docs : docPc[e] = "none" => docPc'[e] = "none"
      BY <3>2 DEF DequeueAll, LiveDocs
    <3> QED
      BY <2>2, <3>1, <3>2 DEF Dequeue
  <2> QED
    BY <2>1, <2>3
<1>5. CASE CancelRead \/ CancelWrite \/ DeleteMark \/ DeleteClean \/ DeleteFailed
           \/ DeleteDrop \/ Sweep
  BY <1>5 DEF CancelRead, CancelWrite, DeleteMark, DeleteClean, DeleteFailed,
     DeleteDrop, DeleteStep, Sweep
<1>6. CASE ReparseClean \/ ReparseFailed \/ ReparseReset \/ ReparseZero
           \/ ReparseEnqueueFailed
  BY <1>6 DEF ReparseClean, ReparseFailed, ReparseReset, ReparseZero,
     ReparseEnqueueFailed, ReparseStep
<1> QED
  BY <1>1, <1>2, <1>3, <1>4, <1>5, <1>6 DEF Next, Request, Handler

\* ReparseKnowledge enqueues its message once, after the clean-up and the reset:
\* no worker can have it, and stored data for it, before.
THEOREM NothingUnsentRuns == Spec => []UnsentInv
<1>1. Init => UnsentInv
  BY ConstantsAreNat DEF Init, UnsentInv, Unsent, Docs
<1>2. TypeOK /\ UnsentInv /\ [Next]_vars => UnsentInv'
  <2> SUFFICES ASSUME TypeOK, UnsentInv, [Next]_vars PROVE UnsentInv'
    OBVIOUS
  <2>0. nReparses \in Nat /\ Docs \subseteq Nat
    BY ConstantsAreNat DEF TypeOK, UserTypes, Docs
  <2>1. CASE UNCHANGED vars
    BY <2>1 DEF vars, docVars, userVars, UnsentInv, Unsent
  <2>2. CASE ReparseOpen
    <3>1. nReparses' = nReparses + 1 /\ docPc' = docPc
      BY <2>2 DEF ReparseOpen
    <3>2. \A d \in Docs : Unsent(d)' => Unsent(d)
      BY <2>0, <3>1 DEF Unsent
    <3> QED
      BY <2>0, <3>1, <3>2 DEF UnsentInv
  <2>3. CASE ReparseEnqueue
    <3>1. /\ reparsePc = "enq" /\ reparsePc' = "idle" /\ nReparses' = nReparses
          /\ docPc' = [docPc EXCEPT ![nReparses] = "queued"]
      BY <2>3 DEF ReparseEnqueue, ReparseStep, DocGoto
    <3>2. \A d \in Docs : Unsent(d)' => Unsent(d) /\ d # nReparses
      BY <2>0, <3>1 DEF Unsent
    <3> QED
      BY <3>1, <3>2 DEF UnsentInv, TypeOK, DocTypes
  <2>4. CASE Next /\ ~ReparseOpen /\ ~ReparseEnqueue
    BY <2>4, UnsentStays DEF UnsentInv, Unsent
  <2> QED
    BY <2>1, <2>2, <2>3, <2>4
<1> QED
  BY <1>1, <1>2, TypeCorrect, PTL DEF Spec

\* The user's requests, their handlers and the sweeper.
LEMMA RequestErasure ==
  ASSUME TypeOK, UnsentInv, DeletionInv, Request \/ Handler \/ Sweep
  PROVE  DeletionInv'
<1> USE DEF rowVars, storeVars, docVars, subVars, userVars, ghostVars
<1>1. subSeen' = subSeen
  BY DEF Request, CancelRead, ReparseOpen, DeleteMark, Handler, CancelWrite,
     CancelDequeue, ReparseClean, ReparseFailed, ReparseReset, ReparseZero,
     ReparseEnqueue, ReparseEnqueueFailed, DeleteDequeue, DeleteClean, DeleteFailed,
     DeleteDrop, Sweep, ReparseStep, DeleteStep, Dequeue, DequeueAll
<1>2. CASE CancelRead \/ CancelWrite \/ CancelDequeue
  <2>1. nCancels' > 0
    BY <1>2, ConstantsAreNat DEF CancelRead, CancelWrite, CancelDequeue,
       DeletionInv, MarkInv, TypeOK, UserTypes
  <2>2. MarkInv'
    BY <1>1, <1>2, <2>1 DEF CancelRead, CancelWrite, CancelDequeue, SetColumns, Save,
       DeletionInv, MarkInv
  <2> QED
    BY <2>1, <2>2 DEF DeletionInv, ErasureInv, Untroubled
<1>3. CASE ReparseOpen \/ ReparseFailed \/ ReparseReset \/ ReparseZero
           \/ ReparseEnqueueFailed \/ Sweep
  <2>1. /\ UNCHANGED <<cancelPc, nCancels, deletePc, chunks, index, docPc>>
        /\ slipped' = slipped /\ (Fault \/ faults' = faults)
    BY <1>3 DEF ReparseOpen, ReparseFailed, ReparseReset, ReparseZero,
       ReparseEnqueueFailed, Sweep, ReparseStep
  <2>2. status' = status \/ \E s \in {"pending", "failed"} : Save(s)
    BY <1>3 DEF ReparseOpen, ReparseFailed, ReparseReset, ReparseZero,
       ReparseEnqueueFailed, Sweep, SetColumns
  <2>3. MarkInv' /\ (status' = "gone" => status = "gone")
    BY <1>1, <2>1, <2>2, SavedMark, KeptMark DEF DeletionInv, Statuses, InFlight,
       Aborted
  <2> QED
    BY <2>1, <2>3, EnrichmentErasure
<1>4. CASE ReparseClean \/ DeleteClean
  <2>1. chunks' = {} /\ index' = {} /\ status' = status /\ cancelPc' = cancelPc
        /\ nCancels' = nCancels
    BY <1>4 DEF ReparseClean, DeleteClean, ReparseStep, DeleteStep
  <2>2. deletePc' = deletePc \/ deletePc = "clean"
    BY <1>4 DEF ReparseClean, DeleteClean, ReparseStep, DeleteStep
  <2> QED
    BY <1>1, <2>1, <2>2, CoveredEmpty DEF DeletionInv, MarkInv, ErasureInv
<1>5. CASE ReparseEnqueue
  <2>1. /\ UNCHANGED <<status, cancelPc, nCancels, deletePc, chunks, index, faults>>
        /\ slipped' = slipped
        /\ docPc' = [docPc EXCEPT ![nReparses] = "queued"]
    BY <1>5 DEF ReparseEnqueue, ReparseStep, DocGoto
  <2>2. nReparses \in Docs /\ docPc[nReparses] = "none"
    BY <1>5, NextMessage DEF ReparseEnqueue, ReparseStep, UnsentInv, Unsent
  <2>3. Covered => Covered'
    BY <2>1, <2>2, CoveredByOthers DEF Writing
  <2> QED
    BY <1>1, <2>1, <2>3 DEF DeletionInv, MarkInv, ErasureInv, Untroubled, Erased
<1>6. CASE DeleteMark
  <2>1. deletePc' \in {"dequeue", "clean"} /\ status # "gone" /\ cancelPc' = cancelPc
        /\ nCancels' = nCancels /\ status' \in {status, "deleting"}
    BY <1>6 DEF DeleteMark, Save
  <2> QED
    BY <1>1, <2>1 DEF DeletionInv, MarkInv, ErasureInv, Erased
<1>7. CASE DeleteDequeue
  <2>1. /\ deletePc = "dequeue" /\ deletePc' = "clean"
        /\ UNCHANGED <<status, cancelPc, nCancels>>
    BY <1>7 DEF DeleteDequeue, DeleteStep
  <2> QED
    BY <1>1, <2>1 DEF DeletionInv, MarkInv, ErasureInv, Erased
<1>8. CASE DeleteFailed
  <2>1. ~Untroubled'
    BY <1>8, FaultTroubles DEF DeleteFailed
  <2>2. deletePc' = "idle" /\ UNCHANGED <<status, cancelPc, nCancels>>
    BY <1>8 DEF DeleteFailed, DeleteStep
  <2> QED
    BY <1>1, <2>1, <2>2 DEF DeletionInv, MarkInv, ErasureInv
<1>9. CASE DeleteDrop
  <2>1. /\ deletePc = "drop" /\ deletePc' = "idle" /\ status' = "gone"
        /\ UNCHANGED <<cancelPc, nCancels, faults, chunks, index, docPc>>
        /\ slipped' = slipped
    BY <1>9 DEF DeleteDrop, DeleteStep
  <2>2. MarkInv'
    BY <1>1, <2>1 DEF DeletionInv, MarkInv
  <2> QED
    BY <2>1, <2>2, CoveredKept DEF DeletionInv, ErasureInv, Untroubled, Erased
<1> QED
  BY <1>2, <1>3, <1>4, <1>5, <1>6, <1>7, <1>8, <1>9 DEF Request, Handler

\* Once a deletion has cleaned up, every chunk and every index row belongs to a
\* worker whose last abort check is still to come.
THEOREM DeletionCovered == Spec => []DeletionInv
<1>1. Init => DeletionInv
  BY DEF Init, DeletionInv, MarkInv, ErasureInv, Erased, Aborted
<1>2. TypeOK /\ UnsentInv /\ DeletionInv /\ [Next]_vars => DeletionInv'
  <2> SUFFICES ASSUME TypeOK, UnsentInv, DeletionInv, [Next]_vars PROVE DeletionInv'
    OBVIOUS
  <2>1. CASE UNCHANGED vars
    BY <2>1, CoveredKept DEF vars, rowVars, storeVars, docVars, subVars, userVars,
       ghostVars, DeletionInv, MarkInv, ErasureInv, Untroubled, Erased
  <2>2. CASE Next
    BY <2>2, DocErasure, PostErasure, SubErasure, RequestErasure DEF Next
  <2> QED
    BY <2>1, <2>2
<1> QED
  BY <1>1, <1>2, TypeCorrect, NothingUnsentRuns, PTL DEF Spec

\* DeleteKnowledge: a deleted document of an indexed knowledge base leaves no
\* chunk and no index row behind once its workers are gone, unless a call failed,
\* a cancel stopped a worker, or a worker passed its last abort check, on a row
\* whose mark had been overwritten, between the clean-up and the drop.
THEOREM DeletionErases == Spec => []SeenDeletionLeavesNothing
<1>1. DeletionInv => SeenDeletionLeavesNothing
  BY DEF DeletionInv, ErasureInv, SeenDeletionLeavesNothing, DeletedLeavesNothing,
     Untroubled, Erased, Covered, Quiet, LiveDocs, Writing
<1> QED
  BY <1>1, DeletionCovered, PTL

=============================================================================
