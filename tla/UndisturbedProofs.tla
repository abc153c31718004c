-------------------------- MODULE UndisturbedProofs --------------------------
(***************************************************************************)
(* What a parse that nobody disturbs keeps (the calm states): its counter  *)
(* is exact, its completion is final, its promoter exists and what it      *)
(* publishes is one generation.  The invariant says that such a parse is   *)
(* in the hands of one actor at a time: the reparse that is enqueueing it, *)
(* then one document message, then one post-process message, then the      *)
(* subtasks of the newest fan-out.  An upload that nobody disturbs from    *)
(* beginning to end implements Enrichment, but for its fairness.           *)
(***************************************************************************)
EXTENDS KnowledgeIngestProofs

-----------------------------------------------------------------------------
(* The invariant                                                           *)

Busy(d) == docPc[d] \notin {"none", "ack", "done"}
PostLive(p) == postPc[p] \notin {"none", "done"}
Fanning(p) == postPc[p] \in {"enq", "promote"}
SubLive(f, s) == subPc[f][s] \notin {"none", "held", "unowned", "done"}

NoDocBusy == \A d \in Docs : ~Busy(d)
NoPostLive == \A p \in Posts : ~PostLive(p)
NoSubLive == \A f \in Fans, s \in Slots : ~SubLive(f, s)

\* No handler has touched the row yet.
HandlersIdle ==
  /\ deletePc = "idle" /\ cancelPc \in {"idle", "write"}
  /\ reparsePc \in {"idle", "enq"}
  /\ status \notin Aborted

ReparseAlone ==
  reparsePc = "enq" =>
    /\ status = "pending" /\ docAtt[nReparses] = latest
    /\ NoDocBusy /\ NoPostLive /\ NoSubLive

\* Where a document message has not opened its attempt yet, and where the
\* summary worker will still save the row as it read it.
Unopened == {"queued", "recheck", "mark", "open"}
Saving == {"save1", "list", "work", "fresh", "save2"}

\* The attempt a document message records onto is the newest, once it has one.
HasAttempt(d) == d > 0 \/ docPc[d] \notin Unopened => docAtt[d] = latest

DocAlone ==
  \A d \in Docs : Busy(d) =>
    /\ \A e \in Docs : Busy(e) => e = d
    /\ NoPostLive /\ NoSubLive
    /\ status # "finalizing" /\ (status = "completed" => docPc[d] = "fan")
    /\ HasAttempt(d)

PostAlone ==
  \A p \in Posts : PostLive(p) =>
    /\ \A q \in Posts : PostLive(q) => q = p
    /\ ~Fanning(p) =>
         status # "finalizing" /\ postAtt[p] = latest /\ NoSubLive
    /\ Fanning(p) =>
         /\ nFans \in Fans /\ postFan[p] = nFans /\ fanAtt[nFans] = latest
         /\ status = "finalizing" \/ (status = "completed" /\ Owed(nFans) = {})

\* Live subtasks are of the newest fan-out, and until they have drained the
\* row is finalizing; that is also what the summary worker saw.
SubsNewest ==
  \A f \in Fans, s \in Slots : SubLive(f, s) =>
    /\ f = nFans /\ fanAtt[f] = latest
    /\ subPc[f][s] # "promote" => status = "finalizing"
    /\ s = SummarySlot /\ subPc[f][s] \in Saving => subSeen[f].st = "finalizing"

Accounted ==
  /\ status = "finalizing" => nFans \in Fans
  /\ pending = IF status = "finalizing" THEN Cardinality(Owed(nFans)) ELSE 0

\* Whoever drained the last unit has not run the promote yet.
PromoterLeft ==
  status = "finalizing" /\ Owed(nFans) = {} =>
    \/ \E p \in Posts : postPc[p] = "promote"
    \/ \E f \in Fans, s \in Slots : subPc[f][s] = "promote"

Emptied(c, i) == c = {} /\ (NeedsEmbedding => i = {})
Stored == chunks = {latest} /\ (NeedsEmbedding => index = {})
Indexed == chunks = {latest} /\ (NeedsEmbedding => index = {latest})

Published ==
  HasText =>
    /\ \A d \in Docs :
         /\ docPc[d] \in {"check2", "create"} => Emptied(chunks, index)
         /\ docPc[d] \in {"check3", "index"} => Stored
         /\ docPc[d] \in {"check4", "save", "fan"} => Indexed
    /\ \A p \in Posts : PostLive(p) => postPc[p] # "fast" /\ Indexed
    /\ status \in {"finalizing", "completed"} => Indexed

OneActor ==
  /\ HandlersIdle /\ ReparseAlone /\ DocAlone /\ PostAlone /\ SubsNewest
  /\ Accounted /\ PromoterLeft

Undisturbed == OneActor /\ Published

CalmInv == calm => Undisturbed

-----------------------------------------------------------------------------
(* The units a fan-out owes                                                *)

\* What a fan-out owes can be counted, and counts zero when it owes nothing.
LEMMA OwedFinite ==
  ASSUME NEW f
  PROVE  /\ IsFiniteSet(Owed(f)) /\ Cardinality(Owed(f)) \in Nat
         /\ Cardinality(Owed(f)) = 0 <=> Owed(f) = {}
<1>1. Owed(f) \subseteq Slots
  BY DEF Owed
<1>2. IsFiniteSet(Owed(f))
  BY <1>1, SlotsAssumption, FS_Subset
<1> QED
  BY <1>2, FS_CardinalityType, FS_EmptySet

\* A step of one subtask between two states that owe, or do not owe, changes
\* no fan-out's units.
LEMMA OwedKept ==
  ASSUME TypeOK, NEW f \in Fans, NEW s \in Slots, NEW pc,
         subPc' = [subPc EXCEPT ![f][s] = pc],
         subPc[f][s] \in OwedPcs <=> pc \in OwedPcs,
         NEW g \in Fans
  PROVE  Owed(g)' = Owed(g)
<1> USE DEF TypeOK, SubTypes
<1>1. \A t \in Slots : subPc'[g][t] \in OwedPcs <=> subPc[g][t] \in OwedPcs
  OBVIOUS
<1> QED
  BY <1>1 DEF Owed

\* One that settles a unit takes exactly this one away.
LEMMA OwedDrained ==
  ASSUME TypeOK, NEW f \in Fans, NEW s \in Slots, NEW pc,
         subPc' = [subPc EXCEPT ![f][s] = pc],
         subPc[f][s] \in OwedPcs, pc \notin OwedPcs
  PROVE  /\ Owed(f)' = Owed(f) \ {s} /\ Owed(f) # {}
         /\ Cardinality(Owed(f)') = Cardinality(Owed(f)) - 1
         /\ Cardinality(Owed(f)) > 0
<1> USE DEF TypeOK, SubTypes
<1>1. \A t \in Slots : subPc'[f][t] = IF t = s THEN pc ELSE subPc[f][t]
  OBVIOUS
<1>2. Owed(f)' = Owed(f) \ {s} /\ s \in Owed(f)
  BY <1>1 DEF Owed
<1>3. Cardinality(Owed(f) \ {s}) = Cardinality(Owed(f)) - 1
  BY <1>2, OwedFinite, FS_RemoveElement
<1>4. Cardinality(Owed(f)) \in Nat /\ Cardinality(Owed(f)) # 0
  BY <1>2, OwedFinite
<1> QED
  BY <1>2, <1>3, <1>4

\* A quiet row has nobody working on it.
LEMMA QuietMeansNobody ==
  ASSUME Quiet
  PROVE  NoDocBusy /\ NoPostLive /\ NoSubLive
<1>1. NoDocBusy
  BY DEF Quiet, LiveDocs, NoDocBusy, Busy
<1>2. NoPostLive
  BY DEF Quiet, LivePosts, NoPostLive, PostLive
<1>3. ASSUME NEW f \in Fans, NEW s \in Slots PROVE ~SubLive(f, s)
  <2>1. <<f, s>> \notin LiveSubs
    BY DEF Quiet
  <2> QED
    BY <2>1 DEF LiveSubs, SubLive
<1> QED
  BY <1>1, <1>2, <1>3 DEF NoSubLive

-----------------------------------------------------------------------------
(* document:process                                                        *)

\* The one busy document message moves on, and with it at most the status,
\* the attempt and the stored data.
LEMMA DocKeeps ==
  ASSUME TypeOK, OneActor, NEW d \in Docs, Busy(d), NEW pc,
         docPc' = [docPc EXCEPT ![d] = pc],
         UNCHANGED <<pending, postVars, subVars, userVars>>,
         status' \notin Aborted \cup {"finalizing"},
         pc \notin {"none", "ack", "done"} /\ status' = "completed" => pc = "fan",
         pc \notin {"none", "ack", "done"} => HasAttempt(d)'
  PROVE  OneActor'
<1> USE DEF OneActor, postVars, subVars, fanVars, userVars
<1>1. /\ NoPostLive /\ NoSubLive /\ status # "finalizing" /\ reparsePc # "enq"
      /\ \A e \in Docs : Busy(e) => e = d
  BY DEF DocAlone, ReparseAlone, NoDocBusy
<1>2. NoPostLive' /\ NoSubLive'
  BY <1>1 DEF NoPostLive, NoSubLive, PostLive, SubLive
<1>3. HandlersIdle' /\ ReparseAlone'
  BY <1>1 DEF HandlersIdle, ReparseAlone
<1>4. \A e \in Docs : Busy(e)' => e = d /\ pc \notin {"none", "ack", "done"}
  BY <1>1 DEF Busy, TypeOK, DocTypes
<1>5. docPc'[d] = pc
  BY DEF TypeOK, DocTypes
<1>6. DocAlone'
  BY <1>2, <1>4, <1>5 DEF DocAlone
<1>7. PostAlone' /\ SubsNewest'
  BY <1>2 DEF PostAlone, SubsNewest, NoPostLive, NoSubLive
<1>8. Accounted' /\ PromoterLeft'
  BY <1>1 DEF Accounted, PromoterLeft
<1> QED
  BY <1>3, <1>6, <1>7, <1>8

\* It publishes what it should if what it has stored fits its next step.
LEMMA DocPublishes ==
  ASSUME TypeOK, OneActor, NEW d \in Docs, Busy(d), NEW pc,
         docPc' = [docPc EXCEPT ![d] = pc],
         UNCHANGED postVars, status' # "finalizing",
         HasText => /\ pc \in {"check2", "create"} => Emptied(chunks', index')
                    /\ pc \in {"check3", "index"} => Stored'
                    /\ pc \in {"check4", "save", "fan"} => Indexed'
                    /\ status' = "completed" => Indexed'
  PROVE  Published'
<1>1. /\ NoPostLive
      /\ \A e \in Docs : Busy(e) => e = d
  BY DEF OneActor, DocAlone
<1>2. NoPostLive'
  BY <1>1 DEF NoPostLive, PostLive, postVars
<1>3. \A e \in Docs : docPc'[e] = IF e = d THEN pc ELSE docPc[e]
  BY DEF TypeOK, DocTypes
<1>4. \A e \in Docs \ {d} : docPc'[e] \in {"none", "ack", "done"}
  BY <1>1, <1>3 DEF Busy
<1> QED
  BY <1>2, <1>3, <1>4 DEF Published, NoPostLive

\* Both at once.
LEMMA DocMoves ==
  ASSUME TypeOK, OneActor, NEW d \in Docs, Busy(d), NEW pc,
         docPc' = [docPc EXCEPT ![d] = pc],
         UNCHANGED <<pending, postVars, subVars, userVars>>,
         status' \notin Aborted \cup {"finalizing"},
         pc \notin {"none", "ack", "done"} =>
           HasAttempt(d)' /\ (status' = "completed" => pc = "fan"),
         HasText => /\ pc \in {"check2", "create"} => Emptied(chunks', index')
                    /\ pc \in {"check3", "index"} => Stored'
                    /\ pc \in {"check4", "save", "fan"} => Indexed'
                    /\ status' = "completed" => Indexed'
  PROVE  Undisturbed'
<1>1. OneActor'
  BY DocKeeps
<1>2. Published'
  BY DocPublishes DEF Aborted
<1> QED
  BY <1>1, <1>2 DEF Undisturbed

\* What is known of the row while a document message is busy with it.
LEMMA DocKnows ==
  ASSUME TypeOK, Undisturbed, NEW d \in Docs, Busy(d)
  PROVE  /\ OneActor /\ HasAttempt(d) /\ status \notin Aborted \cup {"finalizing"}
         /\ status = "completed" => docPc[d] = "fan"
         /\ HasText =>
              /\ docPc[d] \in {"check2", "create"} => Emptied(chunks, index)
              /\ docPc[d] \in {"check3", "index"} => Stored
              /\ docPc[d] \in {"check4", "save", "fan"} => Indexed
              /\ status = "completed" => Indexed
  BY DEF Undisturbed, OneActor, HandlersIdle, DocAlone, Published

\* The same of a step that only moves the program counter and the row: it
\* opens no attempt, so it must not pass the opening.
LEMMA DocStepMoves ==
  ASSUME TypeOK, Undisturbed, NEW d \in Docs, NEW from, NEW to,
         DocStep(d, from, to), Busy(d),
         from \in Unopened => to \in Unopened \cup {"done"},
         pending' = pending, status' \notin Aborted \cup {"finalizing"},
         to \notin {"ack", "done"} /\ status' = "completed" => to = "fan",
         HasText => /\ to \in {"check2", "create"} => Emptied(chunks', index')
                    /\ to \in {"check3", "index"} => Stored'
                    /\ to \in {"check4", "save", "fan"} => Indexed'
                    /\ status' = "completed" => Indexed'
  PROVE  Undisturbed'
<1>1. /\ docPc' = [docPc EXCEPT ![d] = to] /\ docPc[d] = from
      /\ UNCHANGED <<pending, postVars, subVars, userVars, docAtt, latest>>
  BY DEF DocStep, DocGoto
<1>2. docPc'[d] = to
  BY <1>1 DEF TypeOK, DocTypes
<1>3. to # "done" => HasAttempt(d)'
  BY <1>1, <1>2, DocKnows DEF HasAttempt, Unopened
<1> QED
  BY <1>1, <1>3, DocMoves DEF Undisturbed

\* A message that is done but for its acknowledgement is nobody's business.
LEMMA DocAcked ==
  ASSUME TypeOK, Undisturbed, NEW d \in Docs, ~Busy(d), NEW pc \in {"ack", "done"},
         docPc' = [docPc EXCEPT ![d] = pc],
         UNCHANGED <<rowVars, latest, storeVars, docAtt, postVars, subVars, userVars>>
  PROVE  Undisturbed'
<1>1. \A e \in Docs : /\ Busy(e)' <=> Busy(e)
                      /\ Busy(e) => docPc'[e] = docPc[e]
                      /\ docPc'[e] \in {"ack", "done"} \/ docPc'[e] = docPc[e]
  BY DEF Busy, TypeOK, DocTypes
<1> USE DEF Undisturbed, OneActor, rowVars, storeVars, postVars, subVars, fanVars,
      userVars
<1>2. ReparseAlone'
  BY <1>1 DEF ReparseAlone, NoDocBusy, NoPostLive, NoSubLive, PostLive, SubLive
<1>3. DocAlone'
  BY <1>1 DEF DocAlone, HasAttempt, NoPostLive, NoSubLive, PostLive, SubLive
<1>4. HandlersIdle' /\ PostAlone' /\ SubsNewest' /\ Accounted' /\ PromoterLeft'
  BY DEF HandlersIdle, PostAlone, SubsNewest, Accounted, PromoterLeft, PostLive,
     Fanning, SubLive, NoSubLive, Owed
<1>5. Published'
  BY <1>1 DEF Published, Emptied, Stored, Indexed, PostLive
<1> QED
  BY <1>2, <1>3, <1>4, <1>5

\* Enqueueing post-process hands the parse over to it.
LEMMA DocHandsOver ==
  ASSUME TypeOK, Undisturbed, NEW d \in Docs, DocFan(d)
  PROVE  Undisturbed'
<1>1. /\ Busy(d) /\ HasAttempt(d) /\ OneActor /\ docAtt[d] = latest
      /\ status \notin Aborted \cup {"finalizing"}
      /\ HasText => Indexed
  BY DocKnows DEF DocFan, Busy, HasAttempt, Unopened
<1>2. /\ NoPostLive /\ NoSubLive /\ reparsePc # "enq" /\ pending = 0
      /\ \A e \in Docs : Busy(e) => e = d
  BY <1>1 DEF OneActor, DocAlone, ReparseAlone, NoDocBusy, Accounted
<1>3. nPosts + 1 \in Posts
  BY NextMessage DEF DocFan
<1>4. \A e \in Docs : docPc'[e] = IF e = d THEN "ack" ELSE docPc[e]
  BY DEF DocFan, DocGoto, TypeOK, DocTypes
<1>5. NoDocBusy' /\ \A e \in Docs : docPc'[e] \in {"none", "ack", "done"}
  BY <1>2, <1>4 DEF NoDocBusy, Busy
<1>6. \A q \in Posts : /\ postPc'[q] = IF q = nPosts + 1 THEN "queued" ELSE postPc[q]
                       /\ postAtt'[q] = IF q = nPosts + 1 THEN docAtt[d] ELSE postAtt[q]
  BY <1>3 DEF DocFan, TypeOK, PostTypes
<1>7. NoSubLive'
  BY <1>2 DEF NoSubLive, SubLive, DocFan, subVars
<1>8. \A q \in Posts : PostLive(q)' => q = nPosts + 1
  BY <1>2, <1>6 DEF NoPostLive, PostLive
<1> USE DEF DocFan, rowVars, storeVars, userVars
<1>9. HandlersIdle' /\ ReparseAlone' /\ DocAlone'
  BY <1>1, <1>2, <1>5 DEF OneActor, HandlersIdle, ReparseAlone, DocAlone, NoDocBusy
<1>10. PostAlone'
  BY <1>1, <1>3, <1>6, <1>7, <1>8 DEF PostAlone, Fanning
<1>11. SubsNewest' /\ Accounted' /\ PromoterLeft'
  BY <1>1, <1>2, <1>7 DEF SubsNewest, NoSubLive, Accounted, PromoterLeft
<1>12. Published'
  <2>1. UNCHANGED <<chunks, index, latest, status>>
    OBVIOUS
  <2>2. \A q \in Posts : PostLive(q)' => postPc'[q] = "queued"
    BY <1>6, <1>8
  <2> QED
    BY <1>1, <1>5, <2>1, <2>2 DEF Published, Indexed
<1> QED
  BY <1>9, <1>10, <1>11, <1>12 DEF Undisturbed, OneActor

\* A step of a document message that does not crash keeps the invariant.
LEMMA DocCalm ==
  ASSUME TypeOK, Undisturbed, NEW d \in Docs, DocNext(d), ~DocCrash(d)
  PROVE  Undisturbed'
<1>1. CASE DocRead(d)
  <2>1. Busy(d)
    BY <1>1 DEF DocRead, DocStep, Busy
  <2> QED
    BY <1>1, <2>1, DocKnows, DocStepMoves DEF DocRead, DocStep, rowVars,
       storeVars, Aborted, Unopened
<1>2. CASE DocLost(d)
  <2>1. Busy(d)
    BY <1>2 DEF DocLost, DocStep, Busy
  <2> QED
    BY <1>2, <2>1, DocKnows, DocStepMoves DEF DocLost, DocStep, rowVars,
       storeVars, Unopened
<1>3. CASE DocRecheck(d)
  <2>1. Busy(d)
    BY <1>3 DEF DocRecheck, DocStep, Busy
  <2> QED
    BY <1>3, <2>1, DocKnows, DocStepMoves DEF DocRecheck, DocStep, rowVars,
       storeVars, Aborted, Unopened
<1>4. CASE DocMark(d)
  <2>1. Busy(d) /\ docPc' = [docPc EXCEPT ![d] = "open"]
    BY <1>4 DEF DocMark, DocGoto, Busy
  <2>2. HasAttempt(d)'
    BY <1>4, <2>1, DocKnows DEF DocMark, HasAttempt, TypeOK, DocTypes, Unopened
  <2> QED
    BY <1>4, <2>1, <2>2, DocKnows, DocMoves DEF DocMark, Save, Aborted
<1>5. CASE DocOpen(d)
  <2>1. Busy(d) /\ docPc' = [docPc EXCEPT ![d] = "parse"]
    BY <1>5 DEF DocOpen, DocGoto, Busy
  <2>2. HasAttempt(d)'
    BY <1>5, <2>1, DocKnows DEF DocOpen, HasAttempt, TypeOK, DocTypes, Docs
  <2> QED
    BY <1>5, <2>1, <2>2, DocKnows, DocMoves DEF DocOpen, rowVars, storeVars, Aborted
<1>6. CASE DocParsed(d)
  <2>1. Busy(d)
    BY <1>6 DEF DocParsed, DocStep, Busy
  <2> QED
    BY <1>6, <2>1, DocKnows, DocStepMoves DEF DocParsed, DocStep, rowVars,
       storeVars, Aborted, Unopened
<1>7. CASE DocFatal(d)
  <2>1. Busy(d)
    BY <1>7 DEF DocFatal, DocStep, Busy
  <2> QED
    BY <1>7, <2>1, DocKnows, DocStepMoves DEF DocFatal, DocStep, rowVars,
       storeVars, Save, Aborted, Unopened
<1>8. CASE DocRetryable(d)
  <2>1. Busy(d)
    BY <1>8 DEF DocRetryable, Busy
  <2>2. PICK pc \in {"queued", "dead"} :
          docPc' = [docPc EXCEPT ![d] = pc] /\ status' \in {status, "failed"}
    BY <1>8, <2>1, DocKnows DEF DocRetryable, DocGoto, Save, Aborted
  <2>3. HasAttempt(d)'
    BY <1>8, <2>1, <2>2, DocKnows DEF DocRetryable, HasAttempt, TypeOK, DocTypes, Unopened
  <2>4. status' \notin Aborted \cup {"finalizing", "completed"}
    BY <1>8, <2>1, <2>2, DocKnows DEF DocRetryable, Aborted
  <2> QED
    BY <1>8, <2>1, <2>2, <2>3, <2>4, DocKnows, DocMoves DEF DocRetryable
<1>9. CASE DocDeadLetter(d)
  <2>1. Busy(d)
    BY <1>9 DEF DocDeadLetter, DocStep, Busy
  <2> QED
    BY <1>9, <2>1, DocKnows, DocStepMoves DEF DocDeadLetter, DocStep, rowVars,
       storeVars, Save, Aborted, Unopened
<1>10. CASE DocNoModel(d)
  <2>1. Busy(d)
    BY <1>10 DEF DocNoModel, DocStep, Busy
  <2> QED
    BY <1>10, <2>1, DocKnows, DocStepMoves DEF DocNoModel, DocStep, rowVars,
       storeVars, Unopened
<1>11. CASE DocClean(d)
  <2>1. Busy(d)
    BY <1>11 DEF DocClean, DocStep, Busy
  <2> QED
    BY <1>11, <2>1, DocKnows, DocStepMoves DEF DocClean, DocStep, rowVars,
       storeVars, Unopened, Emptied
<1>12. CASE DocCheck2(d)
  <2>1. Busy(d)
    BY <1>12 DEF DocCheck2, DocStep, Busy
  <2> QED
    BY <1>12, <2>1, DocKnows, DocStepMoves DEF DocCheck2, DocStep, rowVars,
       storeVars, Aborted, Unopened
<1>13. CASE DocCreate(d)
  <2>1. Busy(d)
    BY <1>13 DEF DocCreate, DocStep, Busy
  <2>2. HasText => chunks' = {latest} /\ (NeedsEmbedding => index' = {})
    BY <1>13, <2>1, DocKnows DEF DocCreate, DocStep, HasAttempt, Emptied, Unopened
  <2> QED
    BY <1>13, <2>1, <2>2, DocKnows, DocStepMoves DEF DocCreate, DocStep, rowVars,
       Stored, Indexed, Unopened
<1>14. CASE DocSaveFailed(d)
  <2>1. Busy(d)
    BY <1>14 DEF DocSaveFailed, DocStep, Busy
  <2> QED
    BY <1>14, <2>1, DocKnows, DocStepMoves DEF DocSaveFailed, DocStep,
       rowVars, storeVars, Save, Aborted, Unopened
<1>15. CASE DocCheck3(d)
  <2>1. Busy(d)
    BY <1>15 DEF DocCheck3, DocStep, Busy
  <2> QED
    BY <1>15, <2>1, DocKnows, DocStepMoves DEF DocCheck3, DocStep, rowVars,
       storeVars, Stored, Aborted, Unopened
<1>16. CASE DocIndex(d)
  <2>1. Busy(d)
    BY <1>16 DEF DocIndex, DocStep, Busy
  <2>2. HasText => chunks' = {latest} /\ (NeedsEmbedding => index' = {latest})
    BY <1>16, <2>1, DocKnows DEF DocIndex, DocStep, HasAttempt, Stored, Unopened
  <2> QED
    BY <1>16, <2>1, <2>2, DocKnows, DocStepMoves DEF DocIndex, DocStep, rowVars,
       Indexed, Unopened
<1>17. CASE DocIndexFailed(d)
  <2>1. Busy(d)
    BY <1>17 DEF DocIndexFailed, DocStep, Busy
  <2> QED
    BY <1>17, <2>1, DocKnows, DocStepMoves DEF DocIndexFailed, DocStep,
       rowVars, storeVars, Save, Aborted, Unopened
<1>18. CASE DocUndo(d)
  <2>1. Busy(d)
    BY <1>18 DEF DocUndo, DocStep, Busy
  <2> QED
    BY <1>18, <2>1, DocKnows, DocStepMoves DEF DocUndo, DocStep, rowVars,
       storeVars, Unopened
<1>19. CASE DocCheck4(d)
  <2>1. Busy(d)
    BY <1>19 DEF DocCheck4, LastCheck, Busy
  <2>2. HasAttempt(d)'
    BY <1>19, <2>1, DocKnows DEF DocCheck4, LastCheck, HasAttempt, Unopened
  <2> QED
    BY <1>19, <2>1, <2>2, DocKnows, DocMoves DEF DocCheck4, LastCheck, DocGoto,
       rowVars, storeVars, Indexed, Aborted
<1>20. CASE DocSave(d)
  <2>1. Busy(d)
    BY <1>20 DEF DocSave, DocStep, Busy
  <2> QED
    BY <1>20, <2>1, DocKnows, DocStepMoves DEF DocSave, DocStep, rowVars,
       storeVars, Save, Indexed, Aborted, Unopened
<1>21. CASE DocFan(d)
  BY <1>21, DocHandsOver
<1>22. CASE DocFanFailed(d)
  <2>1. Busy(d)
    BY <1>22 DEF DocFanFailed, DocStep, Busy
  <2> QED
    BY <1>22, <2>1, DocKnows, DocStepMoves DEF DocFanFailed, DocStep, rowVars,
       storeVars, Indexed, Unopened
<1>23. CASE DocAck(d)
  BY <1>23, DocAcked DEF DocAck, DocStep, DocGoto, Busy
<1> QED
  BY <1>1, <1>2, <1>3, <1>4, <1>5, <1>6, <1>7, <1>8, <1>9, <1>10, <1>11,
     <1>12, <1>13, <1>14, <1>15, <1>16, <1>17, <1>18, <1>19, <1>20, <1>21,
     <1>22, <1>23 DEF DocNext

-----------------------------------------------------------------------------
(* knowledge:post_process                                                  *)

Loading == {"queued", "list", "fast", "handoff", "dead"}

\* What is known of the row while a post-process message is alive.
LEMMA PostKnows ==
  ASSUME TypeOK, Undisturbed, NEW p \in Posts, PostLive(p)
  PROVE  /\ OneActor /\ NoDocBusy /\ reparsePc # "enq" /\ status \notin Aborted
         /\ \A q \in Posts : PostLive(q) => q = p
         /\ HasText => postPc[p] # "fast" /\ Indexed
         /\ postPc[p] \in Loading =>
              /\ NoSubLive /\ status # "finalizing" /\ pending = 0
              /\ postAtt[p] = latest
         /\ Fanning(p) =>
              /\ nFans \in Fans /\ postFan[p] = nFans /\ fanAtt[nFans] = latest
              /\ status = "finalizing" \/ (status = "completed" /\ Owed(nFans) = {})
<1> USE DEF Undisturbed, OneActor
<1>1. NoDocBusy /\ reparsePc # "enq"
  BY DEF DocAlone, ReparseAlone, NoPostLive, NoDocBusy
<1>2. status \notin Aborted
  BY DEF HandlersIdle
<1>3. HasText => postPc[p] # "fast" /\ Indexed
  BY DEF Published
<1>4. postPc[p] \in Loading <=> ~Fanning(p)
  BY DEF Loading, Fanning, PostLive, TypeOK, PostTypes, PostPcs
<1> QED
  BY <1>1, <1>2, <1>3, <1>4 DEF PostAlone, Accounted

\* While post-process loads, only its own program counter and the status move.
LEMMA PostMoves ==
  ASSUME TypeOK, Undisturbed, NEW p \in Posts, postPc[p] \in Loading,
         NEW pc \in Loading \cup {"done"}, postPc' = [postPc EXCEPT ![p] = pc],
         UNCHANGED <<pending, latest, storeVars, docVars, postAtt, subVars, userVars>>,
         status' \notin Aborted \cup {"finalizing"}, HasText => pc # "fast"
  PROVE  Undisturbed'
<1>1. PostLive(p)
  BY DEF PostLive, Loading
<1>2. /\ OneActor /\ NoDocBusy /\ reparsePc # "enq" /\ NoSubLive /\ pending = 0
      /\ \A q \in Posts : PostLive(q) => q = p
      /\ postAtt[p] = latest /\ (HasText => Indexed)
  BY <1>1, PostKnows
<1>3. NoDocBusy' /\ \A d \in Docs : docPc'[d] \in {"none", "ack", "done"}
  BY <1>2 DEF NoDocBusy, Busy, docVars
<1>4. NoSubLive'
  BY <1>2 DEF NoSubLive, SubLive, subVars
<1>5. \A q \in Posts : postPc'[q] = IF q = p THEN pc ELSE postPc[q]
  BY DEF TypeOK, PostTypes
<1>6. \A q \in Posts : PostLive(q)' => q = p /\ postPc'[q] = pc /\ pc \in Loading
  BY <1>2, <1>5 DEF PostLive
<1> USE DEF storeVars, docVars, userVars
<1>7. HandlersIdle' /\ ReparseAlone' /\ DocAlone'
  BY <1>2, <1>3 DEF OneActor, HandlersIdle, ReparseAlone, DocAlone, NoDocBusy
<1>8. PostAlone'
  BY <1>2, <1>4, <1>6 DEF PostAlone, Fanning, Loading
<1>9. SubsNewest' /\ Accounted' /\ PromoterLeft'
  BY <1>2, <1>4 DEF SubsNewest, NoSubLive, Accounted, PromoterLeft
<1>10. Published'
  BY <1>2, <1>3, <1>6 DEF Published, Indexed
<1> QED
  BY <1>7, <1>8, <1>9, <1>10 DEF Undisturbed, OneActor

\* The fan-out starts with every unit owed and the counter seeded with all.
LEMMA PostSeeds ==
  ASSUME TypeOK, Undisturbed, NEW p \in Posts, SetFinalizing(p)
  PROVE  Undisturbed'
<1>1. PostLive(p) /\ postPc[p] \in Loading
  BY DEF SetFinalizing, PostLive, Loading
<1>2. /\ OneActor /\ NoDocBusy /\ reparsePc # "enq" /\ NoSubLive
      /\ \A q \in Posts : PostLive(q) => q = p
      /\ postAtt[p] = latest /\ (HasText => Indexed)
  BY <1>1, PostKnows
<1>3. nFans + 1 \in Fans
  BY NextMessage DEF SetFinalizing
<1>4. NoDocBusy' /\ \A d \in Docs : docPc'[d] \in {"none", "ack", "done"}
  BY <1>2 DEF NoDocBusy, Busy, SetFinalizing, docVars
<1>5. \A q \in Posts : PostLive(q)' => q = p
  BY <1>2 DEF PostLive, SetFinalizing, PostGoto, TypeOK, PostTypes
<1>6. /\ postPc'[p] = "enq" /\ postFan'[p] = nFans + 1
      /\ nFans' = nFans + 1 /\ fanAtt'[nFans + 1] = latest
      /\ latest' = latest /\ status' = "finalizing" /\ pending' = Cardinality(Slots)
  BY <1>2, <1>3 DEF SetFinalizing, PostGoto, TypeOK, PostTypes, FanTypes
<1>7. \A f \in Fans : subPc'[f] = IF f = nFans + 1 THEN [s \in Slots |-> "held"]
                                 ELSE subPc[f]
  BY <1>3 DEF SetFinalizing, TypeOK, SubTypes
<1>8. Owed(nFans)' = Slots
  BY <1>3, <1>6, <1>7 DEF Owed, OwedPcs, SubPcs
<1>9. NoSubLive'
  BY <1>2, <1>7 DEF NoSubLive, SubLive
<1>10. HandlersIdle' /\ ReparseAlone' /\ DocAlone'
  BY <1>2, <1>4, <1>6 DEF OneActor, HandlersIdle, ReparseAlone, DocAlone,
     NoDocBusy, SetFinalizing, userVars, Aborted
<1>11. PostAlone'
  BY <1>3, <1>5, <1>6 DEF PostAlone, Fanning
<1>12. SubsNewest' /\ Accounted'
  BY <1>3, <1>6, <1>8, <1>9 DEF SubsNewest, NoSubLive, Accounted
<1>13. PromoterLeft'
  BY <1>8, SlotsAssumption DEF PromoterLeft
<1>14. Published'
  BY <1>2, <1>4, <1>5, <1>6 DEF Published, Indexed, SetFinalizing, storeVars
<1> QED
  BY <1>10, <1>11, <1>12, <1>13, <1>14 DEF Undisturbed, OneActor

\* Enqueueing one subtask, or failing to, leaves its unit owed.
LEMMA PostEnqueues ==
  ASSUME TypeOK, Undisturbed, NEW p \in Posts, NEW s \in Slots,
         NEW pc \in {"queued", "unowned"}, PostEnqueue(p, s, pc)
  PROVE  Undisturbed'
<1>1. PostLive(p) /\ Fanning(p)
  BY DEF PostEnqueue, PostLive, Fanning
<1>2. /\ OneActor /\ NoDocBusy /\ reparsePc # "enq"
      /\ nFans \in Fans /\ postFan[p] = nFans /\ fanAtt[nFans] = latest
      /\ status = "finalizing" \/ Owed(nFans) = {}
      /\ \A q \in Posts : PostLive(q) => q = p
  BY <1>1, PostKnows
<1>3. /\ subPc[nFans][s] = "held" /\ subPc' = [subPc EXCEPT ![nFans][s] = pc]
      /\ UNCHANGED <<rowVars, latest, storeVars, docVars, postVars, subSeen,
                     fanVars, userVars>>
  BY <1>2 DEF PostEnqueue
<1>4. \A g \in Fans : Owed(g)' = Owed(g)
  BY <1>2, <1>3, OwedKept DEF OwedPcs, SubPcs
<1>5. Owed(nFans) # {} /\ status = "finalizing"
  BY <1>2, <1>3 DEF Owed, OwedPcs, SubPcs
<1>6. \A f \in Fans, t \in Slots :
        subPc'[f][t] = IF f = nFans /\ t = s THEN pc ELSE subPc[f][t]
  BY <1>2, <1>3 DEF TypeOK, SubTypes
<1> USE <1>3 DEF rowVars, storeVars, docVars, postVars, fanVars, userVars
<1>7. HandlersIdle' /\ ReparseAlone' /\ DocAlone'
  BY <1>2 DEF OneActor, HandlersIdle, ReparseAlone, DocAlone, NoDocBusy, Busy
<1>8. Owed(nFans)' = Owed(nFans)
  BY <1>2, <1>4
<1>9. PostAlone'
  BY <1>1, <1>2, <1>5, <1>8 DEF PostAlone, PostLive, Fanning
<1>10. SubsNewest'
  BY <1>2, <1>5, <1>6 DEF OneActor, SubsNewest, SubLive, Saving
<1>11. Accounted' /\ PromoterLeft'
  BY <1>2, <1>5, <1>8 DEF OneActor, Accounted, PromoterLeft
<1>12. Published'
  BY DEF Undisturbed, Published, PostLive, Indexed, Stored, Emptied
<1> QED
  BY <1>7, <1>9, <1>10, <1>11, <1>12 DEF Undisturbed, OneActor

\* Releasing a unit takes it from the counter, and the promote comes next.
LEMMA PostReleases ==
  ASSUME TypeOK, Undisturbed, NEW p \in Posts, NEW s \in Slots, PostRelease(p, s)
  PROVE  Undisturbed'
<1>1. PostLive(p) /\ Fanning(p)
  BY DEF PostRelease, PostStep, PostLive, Fanning
<1>2. /\ OneActor /\ NoDocBusy /\ reparsePc # "enq" /\ status \notin Aborted
      /\ nFans \in Fans /\ postFan[p] = nFans /\ fanAtt[nFans] = latest
      /\ status = "finalizing" \/ Owed(nFans) = {}
      /\ \A q \in Posts : PostLive(q) => q = p
  BY <1>1, PostKnows
<1>3. /\ subPc[nFans][s] = "unowned" /\ subPc' = [subPc EXCEPT ![nFans][s] = "done"]
      /\ postPc' = [postPc EXCEPT ![p] = "promote"]
      /\ UNCHANGED <<status, latest, storeVars, docVars, postFan, postAtt, subSeen,
                     fanVars, userVars>>
  BY <1>2 DEF PostRelease, PostStep, PostGoto, Decrement
<1>4. /\ Owed(nFans) # {} /\ Cardinality(Owed(nFans)) > 0
      /\ Cardinality(Owed(nFans)') = Cardinality(Owed(nFans)) - 1
  <2>1. \A f \in Fans : f = nFans =>
          /\ Owed(f) # {} /\ Cardinality(Owed(f)) > 0
          /\ Cardinality(Owed(f)') = Cardinality(Owed(f)) - 1
    BY <1>3, OwedDrained DEF OwedPcs, SubPcs
  <2>2. nFans' = nFans
    BY <1>3 DEF fanVars
  <2> QED
    BY <1>2, <2>1, <2>2
<1>5. status = "finalizing" /\ pending = Cardinality(Owed(nFans))
  BY <1>2, <1>4 DEF OneActor, Accounted
<1>6. pending' = pending - 1
  BY <1>4, <1>5 DEF PostRelease, Decrement
<1>7. \A f \in Fans, t \in Slots :
        subPc'[f][t] = IF f = nFans /\ t = s THEN "done" ELSE subPc[f][t]
  BY <1>2, <1>3 DEF TypeOK, SubTypes
<1>8. \A q \in Posts : postPc'[q] = IF q = p THEN "promote" ELSE postPc[q]
  BY <1>3 DEF TypeOK, PostTypes
<1> USE <1>3 DEF storeVars, docVars, fanVars, userVars
<1>9. HandlersIdle' /\ ReparseAlone' /\ DocAlone'
  BY <1>2 DEF OneActor, HandlersIdle, ReparseAlone, DocAlone, NoDocBusy, Busy
<1>10. PostAlone'
  BY <1>2, <1>5, <1>8 DEF PostAlone, PostLive, Fanning
<1>11. SubsNewest'
  BY <1>2, <1>5, <1>7 DEF OneActor, SubsNewest, SubLive
<1>12. Accounted'
  BY <1>2, <1>4, <1>5, <1>6 DEF Accounted
<1>13. PromoterLeft'
  BY <1>8 DEF PromoterLeft
<1>14. Published'
  BY <1>1, <1>5, <1>8 DEF Undisturbed, Published, PostLive, Indexed, Stored, Emptied
<1> QED
  BY <1>9, <1>10, <1>11, <1>12, <1>13, <1>14 DEF Undisturbed, OneActor

\* The promote completes the row when nothing is owed, and only then.
LEMMA PostPromotes ==
  ASSUME TypeOK, Undisturbed, NEW p \in Posts, PostPromote(p)
  PROVE  Undisturbed'
<1>1. PostLive(p) /\ Fanning(p)
  BY DEF PostPromote, PostStep, PostLive, Fanning
<1>2. /\ OneActor /\ NoDocBusy /\ reparsePc # "enq"
      /\ nFans \in Fans /\ postFan[p] = nFans /\ fanAtt[nFans] = latest
      /\ status = "finalizing" \/ (status = "completed" /\ Owed(nFans) = {})
      /\ \A q \in Posts : PostLive(q) => q = p
      /\ HasText => Indexed
  BY <1>1, PostKnows
<1>3. /\ postPc' = [postPc EXCEPT ![p] = "enq"]
      /\ UNCHANGED <<pending, latest, storeVars, docVars, postFan, postAtt, subVars,
                     userVars>>
  BY DEF PostPromote, PostStep, PostGoto, Promote
<1>4. \A q \in Posts : postPc'[q] = IF q = p THEN "enq" ELSE postPc[q]
  BY <1>3 DEF TypeOK, PostTypes
<1>5. Owed(nFans)' = Owed(nFans)
  BY <1>3 DEF Owed, subVars, fanVars
<1>6. \/ status' = "finalizing" /\ status = "finalizing" /\ Owed(nFans) # {}
      \/ status' = "completed" /\ Owed(nFans) = {} /\ pending = 0
  BY <1>2, OwedFinite DEF PostPromote, Promote, OneActor, Accounted
<1> USE <1>3 DEF storeVars, docVars, subVars, fanVars, userVars
<1>7. HandlersIdle' /\ ReparseAlone' /\ DocAlone'
  BY <1>2, <1>6 DEF OneActor, HandlersIdle, ReparseAlone, DocAlone, NoDocBusy, Busy,
     Aborted
<1>8. PostAlone'
  BY <1>2, <1>4, <1>5, <1>6 DEF PostAlone, PostLive, Fanning
<1>9. SubsNewest'
  <2>1. \A s \in Slots : SubLive(nFans, s) /\ subPc[nFans][s] # "promote" =>
          s \in Owed(nFans)
    BY <1>2 DEF SubLive, Owed, OwedPcs, TypeOK, SubTypes
  <2> QED
    BY <1>2, <1>6, <2>1 DEF OneActor, SubsNewest, SubLive
<1>10. Accounted' /\ PromoterLeft'
  BY <1>2, <1>5, <1>6 DEF OneActor, Accounted, PromoterLeft
<1>11. Published'
  BY <1>1, <1>2, <1>4, <1>6 DEF Undisturbed, Published, PostLive, Indexed, Stored,
     Emptied
<1> QED
  BY <1>7, <1>8, <1>9, <1>10, <1>11 DEF Undisturbed, OneActor

\* Post-process returns and leaves the row to its subtasks.
LEMMA PostReturns ==
  ASSUME TypeOK, Undisturbed, NEW p \in Posts, PostReturn(p)
  PROVE  Undisturbed'
<1>1. PostLive(p) /\ Fanning(p)
  BY DEF PostReturn, PostStep, PostLive, Fanning
<1>2. /\ OneActor /\ NoDocBusy /\ reparsePc # "enq"
      /\ \A q \in Posts : PostLive(q) => q = p
  BY <1>1, PostKnows
<1>3. /\ postPc[p] = "enq" /\ postPc' = [postPc EXCEPT ![p] = "done"]
      /\ UNCHANGED <<rowVars, latest, storeVars, docVars, postFan, postAtt, subVars,
                     userVars>>
  BY DEF PostReturn, PostStep, PostGoto
<1>4. \A q \in Posts : postPc'[q] = IF q = p THEN "done" ELSE postPc[q]
  BY <1>3 DEF TypeOK, PostTypes
<1>5. \A q \in Posts : ~PostLive(q)'
  BY <1>2, <1>4 DEF PostLive
<1> USE <1>3 DEF rowVars, storeVars, docVars, subVars, fanVars, userVars
<1>6. HandlersIdle' /\ ReparseAlone' /\ DocAlone'
  BY <1>2 DEF OneActor, HandlersIdle, ReparseAlone, DocAlone, NoDocBusy, Busy
<1>7. PostAlone'
  BY <1>5 DEF PostAlone
<1>8. SubsNewest' /\ Accounted'
  BY <1>2 DEF OneActor, SubsNewest, SubLive, Accounted, Owed
<1>9. PromoterLeft'
  BY <1>2, <1>3, <1>4 DEF OneActor, PromoterLeft, Owed, PostLive
<1>10. Published'
  BY <1>5 DEF Undisturbed, Published, Indexed, Stored, Emptied
<1> QED
  BY <1>6, <1>7, <1>8, <1>9, <1>10 DEF Undisturbed, OneActor

\* A step of a post-process message that does not crash keeps the invariant.
LEMMA PostCalm ==
  ASSUME TypeOK, Undisturbed, NEW p \in Posts, PostNext(p), ~PostCrash(p)
  PROVE  Undisturbed'
<1>1. CASE PostLoad(p)
  <2>1. PostLive(p) /\ postPc[p] \in Loading
    BY <1>1 DEF PostLoad, PostStep, PostLive, Loading
  <2> QED
    BY <1>1, <2>1, PostKnows, PostMoves DEF PostLoad, PostStep, PostGoto, Loading,
       rowVars
<1>2. CASE PostLoadFailed(p)
  <2>1. PostLive(p) /\ postPc[p] \in Loading
    BY <1>2 DEF PostLoadFailed, PostLive, Loading
  <2> QED
    BY <1>2, <2>1, PostKnows, PostMoves DEF PostLoadFailed, PostGoto, Loading, rowVars
<1>3. CASE PostDeadLetter(p)
  <2>1. PostLive(p) /\ postPc[p] \in Loading
    BY <1>3 DEF PostDeadLetter, PostStep, PostLive, Loading
  <2> QED
    BY <1>3, <2>1, PostKnows, PostMoves DEF PostDeadLetter, PostStep, PostGoto,
       Loading, Save, Aborted
<1>4. CASE PostList(p)
  <2>1. PostLive(p) /\ postPc[p] \in Loading
    BY <1>4 DEF PostList, PostLive, Loading
  <2> QED
    BY <1>4, <2>1, PostKnows, PostMoves DEF PostList, PostGoto, Loading, Indexed,
       rowVars
<1>5. CASE PostFast(p)
  <2>1. PostLive(p) /\ postPc[p] \in Loading
    BY <1>5 DEF PostFast, PostStep, PostLive, Loading
  <2> QED
    BY <1>5, <2>1, PostKnows, PostMoves DEF PostFast, PostStep, PostGoto, Loading,
       Save, Aborted
<1>6. CASE SetFinalizing(p)
  BY <1>6, PostSeeds
<1>7. CASE HandoffLost(p)
  <2>1. PostLive(p) /\ postPc[p] \in Loading
    BY <1>7 DEF HandoffLost, PostStep, PostLive, Loading
  <2> QED
    BY <1>7, <2>1, PostKnows, PostMoves DEF HandoffLost, PostStep, PostGoto, Loading,
       rowVars
<1>8. CASE \E s \in Slots, pc \in {"queued", "unowned"} : PostEnqueue(p, s, pc)
  BY <1>8, PostEnqueues
<1>9. CASE \E s \in Slots : PostRelease(p, s)
  BY <1>9, PostReleases
<1>10. CASE PostPromote(p)
  BY <1>10, PostPromotes
<1>11. CASE PostReturn(p)
  BY <1>11, PostReturns
<1> QED
  BY <1>1, <1>2, <1>3, <1>4, <1>5, <1>6, <1>7, <1>8, <1>9, <1>10, <1>11 DEF PostNext

-----------------------------------------------------------------------------
(* The enrichment subtasks                                                 *)

\* What is known of the row while a subtask is alive.
LEMMA SubKnows ==
  ASSUME TypeOK, Undisturbed, NEW f \in Fans, NEW s \in Slots, SubLive(f, s)
  PROVE  /\ OneActor /\ NoDocBusy /\ reparsePc # "enq" /\ status \notin Aborted
         /\ \A p \in Posts : PostLive(p) => Fanning(p)
         /\ f = nFans /\ fanAtt[f] = latest
         /\ subPc[f][s] # "promote" => status = "finalizing"
         /\ s = SummarySlot /\ subPc[f][s] \in Saving => subSeen[f].st = "finalizing"
<1> USE DEF Undisturbed, OneActor
<1>1. NoDocBusy /\ reparsePc # "enq" /\ status \notin Aborted
  BY DEF DocAlone, ReparseAlone, NoSubLive, NoDocBusy, HandlersIdle
<1>2. \A p \in Posts : PostLive(p) => Fanning(p)
  BY DEF PostAlone, NoSubLive
<1> QED
  BY <1>1, <1>2 DEF SubsNewest, Saving

\* Until it drains a subtask changes nothing but where it is and what the
\* summary worker has seen.
LEMMA SubMoves ==
  ASSUME TypeOK, Undisturbed, NEW f \in Fans, NEW s \in Slots,
         subPc[f][s] \in Spending, NEW pc \in Spending,
         subPc' = [subPc EXCEPT ![f][s] = pc],
         UNCHANGED <<rowVars, latest, chunks, index, docVars, postVars, fanVars,
                     userVars>>,
         s = SummarySlot /\ pc \in Saving => subSeen'[f].st = "finalizing",
         s # SummarySlot => UNCHANGED subSeen
  PROVE  Undisturbed'
<1>1. SubLive(f, s) /\ subPc[f][s] # "promote"
  BY DEF Spending, SubLive
<1>2. /\ OneActor /\ NoDocBusy /\ reparsePc # "enq" /\ f = nFans
      /\ fanAtt[f] = latest /\ status = "finalizing"
  BY <1>1, SubKnows
<1>3. \A g \in Fans : Owed(g)' = Owed(g)
  BY OwedKept DEF Spending, OwedPcs
<1>4. Owed(nFans) # {}
  BY <1>2 DEF Owed, OwedPcs, Spending
<1>5. \A g \in Fans, t \in Slots :
        subPc'[g][t] = IF g = f /\ t = s THEN pc ELSE subPc[g][t]
  BY DEF TypeOK, SubTypes
<1> USE DEF rowVars, docVars, postVars, fanVars, userVars
<1>6. HandlersIdle' /\ ReparseAlone' /\ DocAlone'
  BY <1>2 DEF OneActor, HandlersIdle, ReparseAlone, DocAlone, NoDocBusy, Busy
<1>7. Owed(nFans)' = Owed(nFans)
  BY <1>2, <1>3
<1>8. PostAlone'
  BY <1>2, <1>7 DEF OneActor, PostAlone, PostLive, Fanning
<1>9. SubsNewest'
  BY <1>1, <1>2, <1>5 DEF OneActor, SubsNewest, SubLive, Saving
<1>10. Accounted' /\ PromoterLeft'
  BY <1>2, <1>4, <1>7 DEF OneActor, Accounted, PromoterLeft
<1>11. Published'
  BY DEF Undisturbed, Published, PostLive, Indexed, Stored, Emptied
<1> QED
  BY <1>6, <1>8, <1>9, <1>10, <1>11 DEF Undisturbed, OneActor

\* A drain takes the subtask's unit from the counter, and the promote comes next.
LEMMA SubDrains ==
  ASSUME TypeOK, Undisturbed, NEW f \in Fans, NEW s \in Slots, SubDrain(f, s)
  PROVE  Undisturbed'
<1>1. SubLive(f, s) /\ subPc[f][s] = "dec"
  BY DEF SubDrain, SubStep, SubLive
<1>2. /\ OneActor /\ NoDocBusy /\ reparsePc # "enq" /\ status = "finalizing"
      /\ f = nFans /\ fanAtt[f] = latest
  BY <1>1, SubKnows
<1>3. /\ subPc' = [subPc EXCEPT ![f][s] = "promote"]
      /\ UNCHANGED <<status, latest, chunks, index, docVars, postVars, subSeen, fanVars,
                     userVars>>
  BY DEF SubDrain, SubStep, SubGoto, Decrement
<1>4. /\ Owed(f) # {} /\ Cardinality(Owed(f)) > 0
      /\ Cardinality(Owed(f)') = Cardinality(Owed(f)) - 1
  BY <1>1, <1>3, OwedDrained DEF OwedPcs, SubPcs
<1>5. pending = Cardinality(Owed(f)) /\ pending' = pending - 1
  BY <1>2, <1>4 DEF OneActor, Accounted, SubDrain, Decrement
<1>6. \A g \in Fans, t \in Slots :
        subPc'[g][t] = IF g = f /\ t = s THEN "promote" ELSE subPc[g][t]
  BY <1>3 DEF TypeOK, SubTypes
<1> USE <1>3 DEF docVars, postVars, fanVars, userVars
<1>7. HandlersIdle' /\ ReparseAlone' /\ DocAlone'
  BY <1>2 DEF OneActor, HandlersIdle, ReparseAlone, DocAlone, NoDocBusy, Busy
<1>8. PostAlone'
  <2>1. \A p \in Posts : PostLive(p) => Fanning(p)
    BY <1>1, SubKnows
  <2> QED
    BY <1>2, <2>1 DEF OneActor, PostAlone, PostLive, Fanning
<1>9. SubsNewest'
  BY <1>2, <1>6 DEF OneActor, SubsNewest, SubLive, Saving
<1>10. Accounted'
  BY <1>2, <1>4, <1>5 DEF Accounted
<1>11. PromoterLeft'
  BY <1>6 DEF PromoterLeft
<1>12. Published'
  BY DEF Undisturbed, Published, PostLive, Indexed, Stored, Emptied
<1> QED
  BY <1>7, <1>8, <1>9, <1>10, <1>11, <1>12 DEF Undisturbed, OneActor

\* The promote after a drain completes the row when nothing is owed.
LEMMA SubPromotes ==
  ASSUME TypeOK, Undisturbed, NEW f \in Fans, NEW s \in Slots, SubPromote(f, s)
  PROVE  Undisturbed'
<1>1. SubLive(f, s) /\ subPc[f][s] = "promote"
  BY DEF SubPromote, SubStep, SubLive
<1>2. /\ OneActor /\ NoDocBusy /\ reparsePc # "enq" /\ status \notin Aborted
      /\ f = nFans /\ fanAtt[f] = latest
      /\ \A p \in Posts : PostLive(p) => Fanning(p)
  BY <1>1, SubKnows
<1>3. /\ subPc' = [subPc EXCEPT ![f][s] = "done"]
      /\ UNCHANGED <<pending, latest, chunks, index, docVars, postVars, subSeen, fanVars,
                     userVars>>
  BY DEF SubPromote, SubStep, SubGoto, Promote
<1>4. \A g \in Fans, t \in Slots :
        subPc'[g][t] = IF g = f /\ t = s THEN "done" ELSE subPc[g][t]
  BY <1>3 DEF TypeOK, SubTypes
<1>5. \A g \in Fans : Owed(g)' = Owed(g)
  BY <1>1, <1>3, OwedKept DEF OwedPcs
<1>6. Owed(nFans)' = Owed(nFans) /\ nFans' = nFans
  BY <1>2, <1>3, <1>5 DEF fanVars
<1>7. \/ status' = status /\ (status = "finalizing" => Owed(nFans) # {})
      \/ /\ status = "finalizing" /\ status' = "completed" /\ pending = 0
         /\ Owed(nFans) = {}
  BY OwedFinite, <1>2 DEF SubPromote, Promote, OneActor, Accounted
<1> USE <1>3 DEF docVars, postVars, fanVars, userVars
<1>8. HandlersIdle' /\ ReparseAlone' /\ DocAlone'
  BY <1>2, <1>7 DEF OneActor, HandlersIdle, ReparseAlone, DocAlone, NoDocBusy, Busy,
     Aborted
<1>9. PostAlone'
  BY <1>2, <1>6, <1>7 DEF OneActor, PostAlone, PostLive, Fanning
<1>10. SubsNewest'
  <2>1. \A t \in Slots : SubLive(f, t) /\ subPc[f][t] # "promote" => t \in Owed(nFans)
    BY <1>2 DEF SubLive, Owed, OwedPcs, TypeOK, SubTypes
  <2> QED
    BY <1>2, <1>4, <1>7, <2>1 DEF OneActor, SubsNewest, SubLive
<1>11. Accounted' /\ PromoterLeft'
  BY <1>2, <1>6, <1>7 DEF OneActor, Accounted, PromoterLeft
<1>12. Published'
  BY <1>7 DEF Undisturbed, Published, PostLive, Indexed, Stored, Emptied
<1> QED
  BY <1>8, <1>9, <1>10, <1>11, <1>12 DEF Undisturbed, OneActor

\* A delivery that fails is retried or drains.
LEMMA SubRetries ==
  ASSUME TypeOK, Undisturbed, NEW f \in Fans, NEW s \in Slots,
         subPc[f][s] \in Spending, Retry(f, s), status' = status,
         UNCHANGED <<pending, latest, storeVars, docVars, postVars, subSeen, fanVars,
                     userVars>>
  PROVE  Undisturbed'
<1>1. \E pc \in {"queued", "dec"} : subPc' = [subPc EXCEPT ![f][s] = pc]
  BY DEF Retry, SubGoto
<1>2. {"queued", "dec"} \subseteq Spending \ Saving
  BY DEF Spending, SubPcs, Saving
<1> QED
  BY <1>1, <1>2, SubMoves DEF storeVars, rowVars

\* A step of a subtask that does not crash keeps the invariant.
LEMMA SubCalm ==
  ASSUME TypeOK, Undisturbed, NEW f \in Fans, NEW s \in Slots,
         SubNext(f, s), ~SubCrash(f, s)
  PROVE  Undisturbed'
<1>1. CASE SubStart(f, s)
  <2>1. SubLive(f, s) /\ subPc[f][s] \in Spending /\ "read" \in Spending \ Saving
    BY <1>1 DEF SubStart, SubStep, SubLive, Spending, SubPcs, Saving
  <2>2. subPc' = [subPc EXCEPT ![f][s] = "read"]
    <3>1. latest \in Nat
      BY DEF TypeOK, RowTypes
    <3>2. ~(latest > fanAtt[f])
      BY <2>1, <3>1, SubKnows
    <3> QED
      BY <1>1, <3>2 DEF SubStart, SubStep, SubGoto
  <2> QED
    BY <1>1, <2>1, <2>2, SubMoves DEF SubStart, SubStep
<1>2. CASE SubRead(f, s)
  <2>1. SubLive(f, s) /\ subPc[f][s] \in Spending /\ subPc[f][s] = "read"
    BY <1>2 DEF SubRead, SubStep, SubLive, Spending, SubPcs
  <2>2. status = "finalizing"
    BY <2>1, SubKnows
  <2>3. PICK pc \in {"dec", "save1", "work"} :
          /\ subPc' = [subPc EXCEPT ![f][s] = pc]
          /\ s = SummarySlot /\ pc # "dec" => subSeen'[f].st = "finalizing"
          /\ s # SummarySlot => UNCHANGED subSeen
    BY <1>2, <2>2 DEF SubRead, SubStep, SubGoto, TypeOK, SubTypes
  <2>4. pc \in Spending /\ "dec" \notin Saving
    BY DEF Spending, SubPcs, Saving
  <2> QED
    BY <1>2, <2>1, <2>3, <2>4, SubMoves DEF SubRead, SubStep
<1>3. CASE SubWork(f, s)
  <2>1. PICK step \in {<<"work", "fresh">>, <<"fresh", "store">>} :
          SubStep(f, s, step[1],
                  IF fanChunks[f] \cap chunks = {} THEN "dec" ELSE step[2])
    BY <1>3 DEF SubWork
  <2>2. step[1] \in {"work", "fresh"} /\ step[2] \in {"fresh", "store"}
    OBVIOUS
  <2>3. PICK pc \in {"dec", "fresh", "store"} : SubStep(f, s, step[1], pc)
    BY <2>1, <2>2
  <2>4. /\ subPc[f][s] \in Spending /\ pc \in Spending
        /\ subPc' = [subPc EXCEPT ![f][s] = pc]
    BY <2>2, <2>3 DEF SubStep, SubGoto, Spending, SubPcs
  <2> QED
    BY <1>3, <2>3, <2>4, SubMoves DEF SubWork, SubStep
<1>4. CASE SubStore(f, s)
  <2>1. subPc[f][s] \in Spending /\ "dec" \in Spending \ Saving
    BY <1>4 DEF SubStore, SubStep, Spending, SubPcs, Saving
  <2> QED
    BY <1>4, <2>1, SubMoves DEF SubStore, SubStep, SubGoto
<1>5. CASE SubFail(f, s)
  <2>1. SubLive(f, s) /\ subPc[f][s] \in Spending /\ subPc[f][s] # "promote"
    BY <1>5 DEF SubFail, SubLive, Spending, SubPcs
  <2>2. status' = status
    BY <1>5, <2>1, SubKnows DEF SubFail, Save, Saving
  <2> QED
    BY <1>5, <2>1, <2>2, SubRetries DEF SubFail
<1>6. CASE SubDrain(f, s)
  BY <1>6, SubDrains
<1>7. CASE SubPromote(f, s)
  BY <1>7, SubPromotes
<1> QED
  BY <1>1, <1>2, <1>3, <1>4, <1>5, <1>6, <1>7 DEF SubNext

\* So does a step of the summary worker: what it saves is what the row is.
LEMMA SummaryCalm ==
  ASSUME TypeOK, Undisturbed, NEW f \in Fans, SummaryNext(f)
  PROVE  Undisturbed'
<1> DEFINE s == SummarySlot
<1>1. s \in Slots
  BY SlotsAssumption
<1>2. CASE SummaryStale(f)
  <2>1. SubLive(f, s) /\ subPc[f][s] \in Spending /\ subPc[f][s] = "fresh"
    BY <1>2 DEF SummaryStale, SubLive, Spending, SubPcs
  <2>2. status' = status
    BY <1>1, <1>2, <2>1, SubKnows DEF SummaryStale, Save, Saving
  <2> QED
    BY <1>1, <1>2, <2>1, <2>2, SubRetries DEF SummaryStale
<1>3. CASE SummaryMark(f)
  <2>1. PICK pc \in {"list"} : SubStep(f, s, "save1", pc)
    BY <1>3 DEF SummaryMark
  <2>2. /\ SubLive(f, s) /\ subPc[f][s] \in Spending /\ subPc[f][s] = "save1"
        /\ pc \in Spending
    BY <2>1 DEF SubStep, SubLive, Spending, SubPcs
  <2>3. status' = status /\ subSeen'[f].st = "finalizing"
    BY <1>1, <1>3, <2>2, SubKnows DEF SummaryMark, Save, Saving
  <2> QED
    BY <1>1, <1>3, <2>1, <2>2, <2>3, SubMoves DEF SummaryMark, SubStep, SubGoto,
       rowVars
<1>4. CASE SummaryList(f)
  <2>1. PICK pc \in {"dec", "work"} : SubStep(f, s, "list", pc)
    BY <1>4 DEF SummaryList
  <2>2. /\ SubLive(f, s) /\ subPc[f][s] \in Spending /\ subPc[f][s] = "list"
        /\ pc \in Spending
    BY <2>1 DEF SubStep, SubLive, Spending, SubPcs
  <2>3. status' = status /\ subSeen'[f].st = "finalizing"
    BY <1>1, <1>4, <2>2, SubKnows DEF SummaryList, Save, Saving, TypeOK, SubTypes
  <2> QED
    BY <1>1, <1>4, <2>1, <2>2, <2>3, SubMoves DEF SummaryList, SubStep, SubGoto,
       rowVars
<1>5. CASE SummaryWork(f)
  <2>1. PICK pc \in {"dec", "fresh"} : SubStep(f, s, "work", pc)
    BY <1>5 DEF SummaryWork
  <2>2. /\ SubLive(f, s) /\ subPc[f][s] \in Spending /\ subPc[f][s] = "work"
        /\ pc \in Spending
    BY <2>1 DEF SubStep, SubLive, Spending, SubPcs
  <2>3. status' = status /\ subSeen'[f].st = "finalizing"
    BY <1>1, <1>5, <2>2, SubKnows DEF SummaryWork, Save, Saving
  <2> QED
    BY <1>1, <1>5, <2>1, <2>2, <2>3, SubMoves DEF SummaryWork, SubStep, SubGoto,
       rowVars
<1>6. CASE SummaryFresh(f)
  <2>1. PICK pc \in {"dec", "save2"} : SubStep(f, s, "fresh", pc)
    BY <1>6 DEF SummaryFresh
  <2>2. /\ SubLive(f, s) /\ subPc[f][s] \in Spending /\ subPc[f][s] = "fresh"
        /\ pc \in Spending
    BY <2>1 DEF SubStep, SubLive, Spending, SubPcs
  <2>3. status' = status /\ subSeen'[f].st = "finalizing"
    BY <1>1, <1>6, <2>2, SubKnows DEF SummaryFresh, rowVars, Saving
  <2> QED
    BY <1>1, <1>6, <2>1, <2>2, <2>3, SubMoves DEF SummaryFresh, SubStep, SubGoto,
       rowVars
<1>7. CASE SummarySave(f)
  <2>1. PICK pc \in {"derive"} : SubStep(f, s, "save2", pc)
    BY <1>7 DEF SummarySave
  <2>2. /\ SubLive(f, s) /\ subPc[f][s] \in Spending /\ subPc[f][s] = "save2"
        /\ pc \in Spending
    BY <2>1 DEF SubStep, SubLive, Spending, SubPcs
  <2>3. status' = status /\ subSeen'[f].st = "finalizing"
    BY <1>1, <1>7, <2>2, SubKnows DEF SummarySave, Save, Saving
  <2> QED
    BY <1>1, <1>7, <2>1, <2>2, <2>3, SubMoves DEF SummarySave, SubStep, SubGoto,
       rowVars
<1>8. CASE SummaryDerive(f)
  <2>1. PICK pc \in {"dec"} : SubStep(f, s, "derive", pc)
    BY <1>8 DEF SummaryDerive
  <2>2. /\ SubLive(f, s) /\ subPc[f][s] \in Spending /\ subPc[f][s] = "derive"
        /\ pc \in Spending
    BY <2>1 DEF SubStep, SubLive, Spending, SubPcs
  <2> QED
    BY <1>1, <1>8, <2>1, <2>2, SubMoves DEF SummaryDerive, SubStep, SubGoto, Saving
<1> QED
  BY <1>2, <1>3, <1>4, <1>5, <1>6, <1>7, <1>8 DEF SummaryNext

-----------------------------------------------------------------------------
(* The user, the sweeper, and the whole                                    *)

\* Of the handlers' and the sweeper's steps in a calm state only those that
\* leave it calm matter: the deletion's handler is idle, a cancel has only
\* read, and a reparse has nothing left to do but to enqueue its message.
LEMMA RequestCalm ==
  ASSUME TypeOK, Undisturbed, Request \/ Handler \/ Sweep, calm'
  PROVE  Undisturbed'
<1>1. OneActor /\ HandlersIdle /\ Published /\ Accounted
  BY DEF Undisturbed, OneActor
<1>2. CASE CancelRead
  <2> USE <1>2 DEF CancelRead, rowVars, storeVars, docVars, postVars, subVars, fanVars
  <2>1. HandlersIdle'
    BY <1>1 DEF HandlersIdle, Aborted
  <2>2. ReparseAlone' /\ DocAlone'
    BY <1>1 DEF OneActor, ReparseAlone, DocAlone, NoDocBusy, NoPostLive, NoSubLive, Busy,
       PostLive, SubLive, HasAttempt
  <2>3. PostAlone' /\ SubsNewest' /\ Accounted' /\ PromoterLeft'
    BY <1>1 DEF OneActor, PostAlone, SubsNewest, Accounted, PromoterLeft, NoSubLive,
       PostLive, Fanning, SubLive, Owed
  <2>4. Published'
    BY <1>1 DEF Published, PostLive, Indexed, Stored, Emptied
  <2> QED
    BY <2>1, <2>2, <2>3, <2>4 DEF Undisturbed, OneActor
<1>3. CASE CancelWrite \/ CancelDequeue \/ ReparseOpen \/ DeleteMark
  BY <1>3 DEF CancelWrite, CancelDequeue, ReparseOpen, DeleteMark
<1>4. CASE DeleteDequeue \/ DeleteClean \/ DeleteFailed \/ DeleteDrop
  BY <1>1, <1>4 DEF HandlersIdle, DeleteDequeue, DeleteClean, DeleteFailed, DeleteDrop,
     DeleteStep
<1>5. CASE ReparseClean \/ ReparseFailed \/ ReparseReset \/ ReparseZero
  BY <1>1, <1>5 DEF HandlersIdle, ReparseClean, ReparseFailed, ReparseReset, ReparseZero,
     ReparseStep
<1>6. CASE ReparseEnqueue
  <2>1. /\ status = "pending" /\ docAtt[nReparses] = latest
        /\ NoDocBusy /\ NoPostLive /\ NoSubLive
    BY <1>1, <1>6 DEF OneActor, ReparseAlone, ReparseEnqueue, ReparseStep
  <2>2. /\ docPc' = [docPc EXCEPT ![nReparses] = "queued"]
        /\ UNCHANGED <<rowVars, latest, storeVars, docAtt, postVars, subVars, nReparses,
                       deletePc, cancelPc>>
        /\ reparsePc' = "idle"
    BY <1>6 DEF ReparseEnqueue, ReparseStep, DocGoto
  <2>3. \A e \in Docs : docPc'[e] = IF e = nReparses THEN "queued" ELSE docPc[e]
    BY <2>2 DEF TypeOK, DocTypes
  <2>4. \A e \in Docs : Busy(e)' => e = nReparses
    BY <2>1, <2>3 DEF NoDocBusy, Busy
  <2> USE <2>2 DEF rowVars, storeVars, postVars, subVars, fanVars
  <2>5. NoPostLive' /\ NoSubLive'
    BY <2>1 DEF NoPostLive, NoSubLive, PostLive, SubLive
  <2>6. HandlersIdle' /\ ReparseAlone'
    BY <1>1 DEF HandlersIdle, ReparseAlone
  <2>7. DocAlone'
    BY <2>1, <2>4, <2>5 DEF DocAlone, HasAttempt
  <2>8. PostAlone' /\ SubsNewest'
    BY <2>5 DEF PostAlone, SubsNewest, NoPostLive, NoSubLive
  <2>9. Accounted' /\ PromoterLeft'
    BY <1>1, <2>1 DEF Accounted, PromoterLeft
  <2>10. Published'
    <3>1. \A e \in Docs : docPc'[e] \notin {"check2", "create", "check3", "index",
                                           "check4", "save", "fan"}
      BY <2>1, <2>3 DEF NoDocBusy, Busy
    <3> QED
      BY <2>1, <2>5, <3>1 DEF Published, NoPostLive
  <2> QED
    BY <2>6, <2>7, <2>8, <2>9, <2>10 DEF Undisturbed, OneActor
<1>7. ASSUME NoDocBusy, NoPostLive, NoSubLive, reparsePc' = "idle", status' = "failed",
             pending' = 0,
             UNCHANGED <<docVars, postVars, subVars, deletePc, cancelPc>>
      PROVE  Undisturbed'
  <2> USE <1>7 DEF docVars, postVars, subVars, fanVars
  <2>1. NoDocBusy' /\ NoPostLive' /\ NoSubLive'
    BY DEF NoDocBusy, NoPostLive, NoSubLive, Busy, PostLive, SubLive
  <2>2. HandlersIdle' /\ ReparseAlone'
    BY <1>1 DEF HandlersIdle, ReparseAlone, Aborted
  <2>3. DocAlone' /\ PostAlone' /\ SubsNewest'
    BY <2>1 DEF DocAlone, PostAlone, SubsNewest, NoDocBusy, NoPostLive, NoSubLive
  <2>4. Accounted' /\ PromoterLeft'
    BY DEF Accounted, PromoterLeft
  <2>5. Published'
    BY <2>1 DEF Published, NoDocBusy, Busy, NoPostLive
  <2> QED
    BY <2>2, <2>3, <2>4, <2>5 DEF Undisturbed, OneActor
<1>8. CASE ReparseEnqueueFailed
  <2>1. NoDocBusy /\ NoPostLive /\ NoSubLive /\ status = "pending" /\ pending = 0
    BY <1>1, <1>8 DEF OneActor, ReparseAlone, Accounted, ReparseEnqueueFailed, ReparseStep
  <2> QED
    BY <1>7, <1>8, <2>1 DEF ReparseEnqueueFailed, ReparseStep, Save, docVars
<1>9. CASE Sweep
  <2>1. NoDocBusy /\ NoPostLive /\ NoSubLive
    BY <1>9, QuietMeansNobody DEF Sweep
  <2> QED
    BY <1>1, <1>7, <1>9, <2>1 DEF Sweep, SetColumns, Save, HandlersIdle, Aborted, userVars
<1> QED
  BY <1>2, <1>3, <1>4, <1>5, <1>6, <1>8, <1>9 DEF Request, Handler

\* A parse becomes calm when a reparse zeroes the counter of a row nobody
\* else is working on.
LEMMA CalmBegins ==
  ASSUME TypeOK, ReparseZero, calm'
  PROVE  Undisturbed'
<1>1. /\ Quiet /\ cancelPc = "idle" /\ deletePc = "idle" /\ status = "pending"
      /\ docAtt[nReparses] = latest
  BY DEF ReparseZero
<1>2. /\ status' = "pending" /\ pending' = 0 /\ reparsePc' = "enq"
      /\ UNCHANGED <<latest, docVars, postVars, subVars, cancelPc, deletePc, nReparses>>
  BY <1>1 DEF ReparseZero, ReparseStep, docVars
<1>3. NoDocBusy /\ NoPostLive /\ NoSubLive
  BY <1>1, QuietMeansNobody
<1> USE <1>2 DEF docVars, postVars, subVars, fanVars
<1>4. NoDocBusy' /\ NoPostLive' /\ NoSubLive'
  BY <1>3 DEF NoDocBusy, NoPostLive, NoSubLive, Busy, PostLive, SubLive
<1>5. HandlersIdle' /\ ReparseAlone'
  BY <1>1, <1>4 DEF HandlersIdle, ReparseAlone, Aborted
<1>6. DocAlone' /\ PostAlone' /\ SubsNewest'
  BY <1>4 DEF DocAlone, PostAlone, SubsNewest, NoDocBusy, NoPostLive, NoSubLive
<1>7. Accounted' /\ PromoterLeft'
  BY DEF Accounted, PromoterLeft
<1>8. Published'
  BY <1>4 DEF Published, NoDocBusy, Busy, NoPostLive
<1> QED
  BY <1>5, <1>6, <1>7, <1>8 DEF Undisturbed, OneActor

\* No other step makes a state calm, and a crash ends the calm.
LEMMA CalmOnlyBegins ==
  ASSUME Next, calm', ~ReparseZero
  PROVE  calm
<1>1. CASE \E d \in Docs : DocNext(d)
  BY <1>1 DEF DocNext, DocRead, DocLost, DocRecheck, DocMark, DocOpen, DocParsed,
     DocFatal, DocRetryable, DocDeadLetter, DocNoModel, DocClean, DocCheck2, DocCreate,
     DocSaveFailed, DocCheck3, DocIndex, DocIndexFailed, DocUndo, DocCheck4, DocSave,
     DocFan, DocFanFailed, DocAck, DocCrash, LastCheck, DocStep, ghostVars
<1>2. CASE \E p \in Posts : PostNext(p)
  BY <1>2 DEF PostNext, PostLoad, PostLoadFailed, PostDeadLetter, PostList, PostFast,
     SetFinalizing, HandoffLost, PostEnqueue, PostRelease, PostPromote, PostReturn,
     PostCrash, PostStep, ghostVars
<1>3. CASE \E f \in Fans, s \in Slots : SubNext(f, s)
  <2>1. ASSUME NEW f, NEW s, NEW from, NEW to, SubStep(f, s, from, to)
        PROVE  calm' = calm
    BY <2>1 DEF SubStep, ghostVars
  <2>2. ASSUME NEW f \in Fans, NEW s \in Slots, SubWork(f, s) PROVE calm' = calm
    BY <2>1, <2>2 DEF SubWork
  <2>3. ASSUME NEW f \in Fans, NEW s \in Slots, SubStart(f, s) \/ SubRead(f, s)
               \/ SubStore(f, s) \/ SubDrain(f, s) \/ SubPromote(f, s)
        PROVE  calm' = calm
    BY <2>1, <2>3 DEF SubStart, SubRead, SubStore, SubDrain, SubPromote
  <2>4. ASSUME NEW f \in Fans, NEW s \in Slots, SubFail(f, s) \/ SubCrash(f, s), calm'
        PROVE  calm' = calm
    BY <2>4 DEF SubFail, SubCrash, ghostVars
  <2> QED
    BY <1>3, <2>2, <2>3, <2>4 DEF SubNext
<1>4. CASE \E f \in Fans : SummaryNext(f)
  BY <1>4 DEF SummaryNext, SummaryMark, SummaryList, SummaryWork, SummaryFresh,
     SummaryStale, SummarySave, SummaryDerive, SubStep, ghostVars
<1>5. CASE Request \/ Handler \/ Sweep
  BY <1>5 DEF Request, Handler, CancelRead, CancelWrite, CancelDequeue, ReparseOpen,
     DeleteMark, ReparseClean, ReparseFailed, ReparseReset, ReparseEnqueue,
     ReparseEnqueueFailed, DeleteDequeue, DeleteClean, DeleteFailed, DeleteDrop,
     DeleteStep, Sweep, ghostVars
<1> QED
  BY <1>1, <1>2, <1>3, <1>4, <1>5 DEF Next

\* Every step keeps the invariant.
LEMMA CalmStep ==
  ASSUME TypeOK, CalmInv, [Next]_vars
  PROVE  CalmInv'
<1> SUFFICES ASSUME calm' PROVE Undisturbed'
  BY DEF CalmInv
<1>1. CASE UNCHANGED vars
  <2> USE <1>1 DEF vars, rowVars, storeVars, docVars, postVars, subVars, fanVars,
        userVars, ghostVars
  <2>1. Undisturbed
    BY DEF CalmInv
  <2>2. HandlersIdle' /\ ReparseAlone' /\ DocAlone'
    BY <2>1 DEF Undisturbed, OneActor, HandlersIdle, ReparseAlone, DocAlone, NoDocBusy,
       NoPostLive, NoSubLive, Busy, PostLive, SubLive, HasAttempt
  <2>3. PostAlone' /\ SubsNewest' /\ Accounted' /\ PromoterLeft'
    BY <2>1 DEF Undisturbed, OneActor, PostAlone, SubsNewest, Accounted, PromoterLeft,
       NoSubLive, PostLive, Fanning, SubLive, Owed
  <2>4. Published'
    BY <2>1 DEF Undisturbed, Published, PostLive, Indexed, Stored, Emptied
  <2> QED
    BY <2>2, <2>3, <2>4 DEF Undisturbed, OneActor
<1>2. CASE ReparseZero
  BY <1>2, CalmBegins
<1>3. CASE Next /\ ~ReparseZero
  <2>1. Undisturbed
    BY <1>3, CalmOnlyBegins DEF CalmInv
  <2>2. CASE \E d \in Docs : DocNext(d)
    BY <2>1, <2>2, DocCalm DEF DocCrash
  <2>3. CASE \E p \in Posts : PostNext(p)
    BY <2>1, <2>3, PostCalm DEF PostCrash
  <2>4. CASE \E f \in Fans, s \in Slots : SubNext(f, s)
    BY <2>1, <2>4, SubCalm DEF SubCrash
  <2>5. CASE \E f \in Fans : SummaryNext(f)
    BY <2>1, <2>5, SummaryCalm
  <2>6. CASE Request \/ Handler \/ Sweep
    BY <2>1, <2>6, RequestCalm
  <2> QED
    BY <1>3, <2>2, <2>3, <2>4, <2>5, <2>6 DEF Next
<1> QED
  BY <1>1, <1>2, <1>3

\* An upload begins calm.
LEMMA CalmInit == ASSUME Init PROVE CalmInv
<1>1. \A d \in Docs : docPc[d] = IF d = 0 THEN "queued" ELSE "none"
  BY DEF Init
<1>2. NoPostLive /\ NoSubLive
  BY DEF Init, NoPostLive, NoSubLive, PostLive, SubLive
<1>3. HandlersIdle /\ ReparseAlone
  BY DEF Init, HandlersIdle, ReparseAlone, Aborted
<1>4. DocAlone
  BY <1>1, <1>2 DEF Init, DocAlone, Busy, HasAttempt, Docs
<1>5. PostAlone /\ SubsNewest
  BY <1>2 DEF PostAlone, SubsNewest, NoPostLive, NoSubLive
<1>6. Accounted /\ PromoterLeft
  BY DEF Init, Accounted, PromoterLeft
<1>7. Published
  BY <1>1, <1>2 DEF Init, Published, NoPostLive
<1> QED
  BY <1>3, <1>4, <1>5, <1>6, <1>7 DEF CalmInv, Undisturbed, OneActor

\* The invariant holds in every reachable state.
THEOREM CalmInvariant == Spec => []CalmInv
<1>1. Init => CalmInv
  BY CalmInit
<1>2. TypeOK /\ CalmInv /\ [Next]_vars => CalmInv'
  BY CalmStep
<1> QED
  BY <1>1, <1>2, TypeCorrect, PTL DEF Spec

\* A finalizing row's counter is exactly what its newest fan-out owes, and no
\* older subtask is alive, as long as nobody disturbs the parse.
THEOREM CounterIsExact == Spec => []CounterIsOwed
<1>1. TypeOK /\ CalmInv => CounterIsOwed
  <2> SUFFICES ASSUME TypeOK, CalmInv, calm, status = "finalizing"
               PROVE  /\ nFans > 0 /\ pending = Cardinality(Owed(nFans))
                      /\ \A x \in LiveSubs : x[1] = nFans
    BY DEF CounterIsOwed
  <2>1. Accounted /\ SubsNewest
    BY DEF CalmInv, Undisturbed, OneActor
  <2>2. nFans \in Fans /\ pending = Cardinality(Owed(nFans))
    BY <2>1 DEF Accounted
  <2>3. nFans > 0
    BY <2>2, ConstantsAreNat DEF Fans
  <2>4. \A x \in LiveSubs : x[1] = nFans
    BY <2>1 DEF LiveSubs, SubsNewest, SubLive
  <2> QED
    BY <2>2, <2>3, <2>4
<1> QED
  BY <1>1, TypeCorrect, CalmInvariant, PTL

\* An undisturbed parse that has completed spends nothing any more.
THEOREM CompletionIsFinal == Spec => []CalmCompletedIsTerminal
<1>1. TypeOK /\ CalmInv => CalmCompletedIsTerminal
  <2> SUFFICES ASSUME TypeOK, CalmInv, calm, status = "completed"
               PROVE  NothingSpends /\ pending = 0
    BY DEF CalmCompletedIsTerminal
  <2>1. Undisturbed /\ OneActor
    BY DEF CalmInv, Undisturbed
  <2>2. pending = 0
    BY <2>1 DEF OneActor, Accounted
  <2>3. \A f \in Fans, s \in Slots : subPc[f][s] \notin Spending
    BY <2>1 DEF OneActor, SubsNewest, SubLive, Spending
  <2>4. \A p \in Posts : postPc[p] = "enq" =>
          "held" \notin {subPc[postFan[p]][s] : s \in Slots}
    BY <2>1 DEF OneActor, PostAlone, PostLive, Fanning, Owed, OwedPcs, SubPcs
  <2>5. \A d \in Docs : docPc[d] \in {"none", "queued", "fan", "ack", "done"}
    BY <2>1 DEF OneActor, DocAlone, Busy
  <2> QED
    BY <2>2, <2>3, <2>4, <2>5 DEF NothingSpends
<1> QED
  BY <1>1, TypeCorrect, CalmInvariant, PTL

\* A finalizing row with nothing left to count is about to be promoted.
THEOREM PromoterExists == Spec => []NeverStranded
<1>1. TypeOK /\ CalmInv => NeverStranded
  <2> SUFFICES ASSUME TypeOK, CalmInv, calm, status = "finalizing", pending = 0
               PROVE  \/ \E p \in Posts : postPc[p] = "promote"
                      \/ \E x \in LiveSubs : subPc[x[1]][x[2]] = "promote"
    BY DEF NeverStranded
  <2>1. Accounted /\ PromoterLeft
    BY DEF CalmInv, Undisturbed, OneActor
  <2>2. Owed(nFans) = {}
    BY <2>1, OwedFinite DEF Accounted
  <2>3. CASE \E p \in Posts : postPc[p] = "promote"
    BY <2>3
  <2>4. ASSUME NEW f \in Fans, NEW s \in Slots, subPc[f][s] = "promote"
        PROVE  \E x \in LiveSubs : subPc[x[1]][x[2]] = "promote"
    <3>1. <<f, s>> \in LiveSubs
      BY <2>4 DEF LiveSubs
    <3> QED
      BY <2>4, <3>1
  <2> QED
    BY <2>1, <2>2, <2>3, <2>4 DEF PromoterLeft
<1> QED
  BY <1>1, TypeCorrect, CalmInvariant, PTL

\* What an undisturbed parse publishes is the newest attempt's chunks alone.
THEOREM OneGenerationPublished == Spec => []OneGeneration
<1>1. CalmInv => OneGeneration
  BY DEF CalmInv, Undisturbed, Published, Indexed, OneGeneration
<1> QED
  BY <1>1, CalmInvariant, PTL

-----------------------------------------------------------------------------
(* One undisturbed parse implements Enrichment                             *)

\* An upload whose owner makes no request, on which no worker dies and no call
\* fails but those the code answers: deliveries, conversions, enqueues.
Alone == MaxFault = 0 /\ MaxCancel = 0 /\ MaxReparse = 0 /\ MaxDelete = 0

\* It stays undisturbed, and nobody else touches the row.
Unhindered ==
  /\ calm /\ faults = 0
  /\ cancelPc = "idle" /\ reparsePc = "idle" /\ deletePc = "idle"

\* It fans out once, and does not go back from there.
OneFan ==
  /\ nFans \in {0, 1}
  /\ nFans = 1 => status \in {"finalizing", "completed"}
  /\ \A f \in Fans : f > nFans => \A s \in Slots : subPc[f][s] = "none"

\* A failed parse is over.
FailedEnds ==
  status = "failed" =>
    /\ \A d \in Docs : docPc[d] \in {"none", "dead", "ack", "done"}
    /\ NoPostLive

\* A post-process message that has loaded the row hands over what it loaded.
LoadedHolds ==
  \A p \in Posts :
    /\ postPc[p] # "dead"
    /\ postPc[p] \in {"list", "fast", "handoff"} => status = "processing"

\* A slot without a message has a post-process at work on it.
HeldPosted ==
  \A f \in Fans, s \in Slots :
    subPc[f][s] \in {"held", "unowned"} => \E p \in Posts : Fanning(p)

ParseInv == Unhindered /\ OneFan /\ FailedEnds /\ LoadedHolds /\ HeldPosted

\* The abstract state: its jobs that have not settled, and its steps.
Left == UNION {Owed(f) : f \in Fans}
EnrichStep == [Abstract!ANext]_(Abstract!avars)

\* A step that settles no job and moves the row, if at all, within parsing or
\* out of it to an end is GiveUp or a stutter.
LEMMA RowSteps ==
  ASSUME \/ status' = status
         \/ /\ status \in {"pending", "processing"}
            /\ status' \in {"pending", "processing", "completed", "failed"},
         Left' = Left
  PROVE  EnrichStep
<1>1. CASE status' = status
  BY <1>1 DEF EnrichStep, Abstract!avars, Phase, Left
<1>2. CASE /\ status \in {"pending", "processing"}
           /\ status' \in {"pending", "processing"}
  <2>1. Phase' = "parsing" /\ Phase = "parsing"
    BY <1>2 DEF Phase
  <2> QED
    BY <2>1 DEF EnrichStep, Abstract!avars, Left
<1>3. CASE /\ status \in {"pending", "processing"}
           /\ status' \in {"completed", "failed"}
  <2>1. Phase' \in {"completed", "failed"} /\ Phase = "parsing"
    BY <1>3 DEF Phase
  <2> QED
    BY <2>1 DEF EnrichStep, Abstract!ANext, Abstract!GiveUp, Left
<1> QED
  BY <1>1, <1>2, <1>3

\* Subtasks that stay where they are owe what they owed.
LEMMA SameLeft == ASSUME subPc' = subPc PROVE Left' = Left
  BY DEF Left, Owed

\* So does one that moves between two states that owe, or do not owe.
LEMMA LeftKept ==
  ASSUME TypeOK, NEW f \in Fans, NEW s \in Slots, NEW pc,
         subPc' = [subPc EXCEPT ![f][s] = pc],
         subPc[f][s] \in OwedPcs <=> pc \in OwedPcs
  PROVE  Left' = Left
<1>1. \A g \in Fans : Owed(g)' = Owed(g)
  BY OwedKept
<1> QED
  BY <1>1 DEF Left

\* Only the one fan-out owes anything.
LEMMA OthersOweNothing ==
  ASSUME TypeOK, ParseInv, NEW f \in Fans, f # nFans
  PROVE  Owed(f) = {}
<1>1. f > nFans
  BY ConstantsAreNat DEF ParseInv, OneFan, Fans
<1> QED
  BY <1>1 DEF ParseInv, OneFan, Owed, OwedPcs

LEMMA LeftIsOwed ==
  ASSUME TypeOK, ParseInv, nFans \in Fans
  PROVE  Left = Owed(nFans)
  BY OthersOweNothing DEF Left

\* One that settles a unit of a finalizing row settles one job.
LEMMA SettleStep ==
  ASSUME TypeOK, ParseInv, NEW s \in Slots, NEW pc, nFans \in Fans,
         status = "finalizing", status' = status,
         subPc' = [subPc EXCEPT ![nFans][s] = pc],
         subPc[nFans][s] \in OwedPcs, pc \notin OwedPcs
  PROVE  EnrichStep
<1>1. Owed(nFans) = Left /\ s \in Left
  BY LeftIsOwed DEF Owed
<1>2. \A g \in Fans : {t \in Slots : subPc'[g][t] \in OwedPcs} =
                        IF g = nFans THEN Owed(g) \ {s} ELSE {}
  <2>1. \A g \in Fans, t \in Slots :
          subPc'[g][t] = IF g = nFans /\ t = s THEN pc ELSE subPc[g][t]
    BY DEF TypeOK, SubTypes
  <2>2. \A g \in Fans : g # nFans => {t \in Slots : subPc[g][t] \in OwedPcs} = {}
    BY OthersOweNothing DEF Owed
  <2> QED
    BY <2>1, <2>2 DEF Owed
<1>3. Left' = Left \ {s}
  BY <1>1, <1>2 DEF Left, Owed
<1>4. Phase = "enriching" /\ Phase' = "enriching"
  BY DEF Phase
<1> QED
  BY <1>1, <1>3, <1>4 DEF EnrichStep, Abstract!ANext, Abstract!Settle, Left

\* The promote completes a row all of whose jobs have settled.
LEMMA PromoteStep ==
  ASSUME TypeOK, Undisturbed, ParseInv, Promote, Left' = Left
  PROVE  EnrichStep
<1>1. CASE status = "finalizing" /\ pending = 0
  <2>1. nFans \in Fans /\ Cardinality(Owed(nFans)) = 0
    BY <1>1 DEF Undisturbed, OneActor, Accounted
  <2>2. Left = {}
    BY <2>1, OwedFinite, LeftIsOwed
  <2>3. Phase = "enriching" /\ Phase' = "completed"
    BY <1>1 DEF Promote, Phase
  <2> QED
    BY <2>2, <2>3 DEF EnrichStep, Abstract!ANext, Abstract!Complete, Left
<1>2. CASE ~(status = "finalizing" /\ pending = 0)
  BY <1>2, RowSteps DEF Promote
<1> QED
  BY <1>1, <1>2

\* Nothing fails, and nobody cancels, reparses or deletes.
LEMMA NothingFails ==
  ASSUME Alone, TypeOK
  PROVE  /\ ~Fault /\ ~CancelRead /\ ~ReparseOpen /\ ~DeleteMark
         /\ Docs = {0}
  BY ConstantsAreNat DEF Alone, TypeOK, UserTypes, Fault, CancelRead, ReparseOpen,
     DeleteMark, Docs

\* A parse is under way as long as its document message has not handed over.
LEMMA DocParsing ==
  ASSUME TypeOK, Undisturbed, ParseInv, NEW d \in Docs,
         docPc[d] \notin {"none", "fan", "dead", "ack", "done"}
  PROVE  Busy(d) /\ status \in {"pending", "processing"}
<1>1. Busy(d)
  BY DEF Busy
<1>2. status \notin Aborted \cup {"finalizing", "completed"}
  BY <1>1, DocKnows
<1> QED
  BY <1>1, <1>2 DEF ParseInv, FailedEnds, TypeOK, RowTypes, Statuses, InFlight

LEMMA DocFailed ==
  ASSUME TypeOK, Undisturbed, ParseInv, NEW d \in Docs, docPc[d] = "dead"
  PROVE  Busy(d) /\ status \in {"pending", "processing", "failed"}
<1>1. Busy(d)
  BY DEF Busy
<1>2. status \notin Aborted \cup {"finalizing", "completed"}
  BY <1>1, DocKnows
<1> QED
  BY <1>1, <1>2 DEF TypeOK, RowTypes, Statuses, InFlight

\* The document message parses or gives up.
LEMMA DocEnriches ==
  ASSUME Alone, TypeOK, Undisturbed, ParseInv, NEW d \in Docs, DocNext(d)
  PROVE  ParseInv' /\ EnrichStep
<1> USE DEF rowVars, postVars, subVars, fanVars, userVars, ghostVars
<1>0. ~Fault /\ Docs = {0}
  BY NothingFails
<1>1. /\ UNCHANGED <<subPc, nFans, cancelPc, reparsePc, deletePc, faults, calm>>
      /\ \E pc : docPc' = [docPc EXCEPT ![d] = pc]
  BY <1>0 DEF DocNext, DocRead, DocLost, DocRecheck, DocMark, DocOpen, DocParsed,
     DocFatal, DocRetryable, DocDeadLetter, DocNoModel, DocClean, DocCheck2,
     DocCreate, DocSaveFailed, DocCheck3, DocIndex, DocIndexFailed, DocUndo,
     DocCheck4, LastCheck, DocSave, DocFan, DocFanFailed, DocAck, DocCrash,
     DocStep, DocGoto
<1>2. \/ status' = status /\ (status = "failed" => docPc'[d] \in {"ack", "done"})
      \/ /\ status \in {"pending", "processing"}
         /\ status' \in {"processing", "completed"}
         /\ docPc[d] \notin {"ack", "done"}
      \/ /\ status \in {"pending", "processing", "failed"} /\ status' = "failed"
         /\ docPc[d] \notin {"ack", "done"} /\ docPc'[d] \in {"dead", "done"}
  <2>1. CASE DocRead(d) \/ DocRecheck(d) \/ DocOpen(d) \/ DocParsed(d) \/ DocClean(d)
             \/ DocCheck2(d) \/ DocCreate(d) \/ DocCheck3(d) \/ DocIndex(d)
             \/ DocUndo(d) \/ DocCheck4(d)
    <3>1. status' = status /\ docPc[d] \notin {"none", "fan", "dead", "ack", "done"}
      BY <2>1 DEF DocRead, DocRecheck, DocOpen, DocParsed, DocClean, DocCheck2,
         DocCreate, DocCheck3, DocIndex, DocUndo, DocCheck4, LastCheck, DocStep
    <3> QED
      BY <3>1, DocParsing
  <2>2. CASE DocMark(d) \/ DocSave(d)
    <3>1. docPc[d] \in {"mark", "save"} /\ \E s \in {"processing", "completed"} : Save(s)
      BY <1>0, <2>2 DEF DocMark, DocSave, DocStep
    <3> QED
      BY <3>1, DocParsing DEF Save
  <2>3. CASE DocFatal(d)
    <3>1. docPc[d] \in {"recheck", "parse"} /\ docPc'[d] = "done" /\ Save("failed")
      BY <2>3 DEF DocFatal, DocStep, DocGoto, TypeOK, DocTypes
    <3> QED
      BY <3>1, DocParsing DEF Save
  <2>4. CASE DocRetryable(d)
    <3>1. docPc[d] = "parse" /\ (status' = status \/ (docPc'[d] = "dead" /\ Save("failed")))
      BY <2>4 DEF DocRetryable, DocGoto, TypeOK, DocTypes
    <3> QED
      BY <3>1, DocParsing DEF Save
  <2>5. CASE DocDeadLetter(d)
    <3>1. docPc[d] = "dead" /\ docPc'[d] = "done" /\ Save("failed")
      BY <2>5 DEF DocDeadLetter, DocStep, DocGoto, TypeOK, DocTypes
    <3> QED
      BY <3>1, DocFailed DEF Save
  <2>6. CASE DocFan(d) \/ DocAck(d)
    BY <2>6 DEF DocFan, DocAck, DocStep, DocGoto, TypeOK, DocTypes
  <2> QED
    BY <1>0, <2>1, <2>2, <2>3, <2>4, <2>5, <2>6 DEF DocNext, DocLost, DocNoModel,
       DocSaveFailed, DocIndexFailed, DocFanFailed, DocCrash
<1>3. \/ postPc' = postPc
      \/ /\ DocFan(d) /\ nPosts + 1 \in Posts /\ docPc[d] = "fan"
         /\ postPc' = [postPc EXCEPT ![nPosts + 1] = "queued"]
  BY NextMessage DEF DocNext, DocRead, DocLost, DocRecheck, DocMark, DocOpen,
     DocParsed, DocFatal, DocRetryable, DocDeadLetter, DocNoModel, DocClean,
     DocCheck2, DocCreate, DocSaveFailed, DocCheck3, DocIndex, DocIndexFailed,
     DocUndo, DocCheck4, LastCheck, DocSave, DocFan, DocFanFailed, DocAck, DocCrash,
     DocStep
<1>4. Left' = Left
  BY <1>1, SameLeft
<1>5. EnrichStep
  BY <1>2, <1>4, RowSteps
<1>6. docPc[d] \notin {"none", "done"}
  BY DEF DocNext, DocRead, DocLost, DocRecheck, DocMark, DocOpen, DocParsed,
     DocFatal, DocRetryable, DocDeadLetter, DocNoModel, DocClean, DocCheck2,
     DocCreate, DocSaveFailed, DocCheck3, DocIndex, DocIndexFailed, DocUndo,
     DocCheck4, LastCheck, DocSave, DocFan, DocFanFailed, DocAck, DocCrash,
     DocStep
<1>7. docPc[d] # "ack" => NoPostLive
  BY <1>6 DEF Busy, Undisturbed, OneActor, DocAlone
<1>8. Unhindered' /\ OneFan'
  BY <1>1, <1>2 DEF ParseInv, Unhindered, OneFan
<1>9. FailedEnds'
  <2> SUFFICES ASSUME status' = "failed"
               PROVE  docPc'[d] \in {"dead", "ack", "done"} /\ NoPostLive'
    BY <1>0 DEF FailedEnds
  <2>1. docPc'[d] \in {"dead", "ack", "done"}
    BY <1>2
  <2>2. NoPostLive
    BY <1>2, <1>7 DEF ParseInv, FailedEnds
  <2>3. postPc' = postPc
    <3>1. DocFan(d) => status # "failed" /\ status' = status
      BY DEF ParseInv, FailedEnds, DocFan
    <3> QED
      BY <1>3, <3>1
  <2> QED
    BY <2>1, <2>2, <2>3 DEF NoPostLive, PostLive
<1>10. LoadedHolds'
  <2>1. CASE docPc[d] = "ack"
    <3>1. postPc' = postPc /\ status' = status
      BY <1>2, <1>3, <2>1
    <3> QED
      BY <3>1 DEF ParseInv, LoadedHolds
  <2>2. CASE docPc[d] # "ack"
    <3>1. \A p \in Posts : postPc'[p] \in {"none", "done", "queued"}
      BY <1>3, <1>7, <2>2 DEF NoPostLive, PostLive, TypeOK, PostTypes
    <3> QED
      BY <3>1 DEF LoadedHolds
  <2> QED
    BY <2>1, <2>2
<1>11. HeldPosted'
  <2>1. \A p \in Posts : Fanning(p) => Fanning(p)'
    BY <1>3, <1>7 DEF NoPostLive, PostLive, Fanning, TypeOK, PostTypes
  <2> QED
    BY <1>1, <2>1 DEF ParseInv, HeldPosted
<1> QED
  BY <1>5, <1>8, <1>9, <1>10, <1>11 DEF ParseInv

\* What is known of the row while post-process works on it.
LEMMA PostEnriching ==
  ASSUME TypeOK, Undisturbed, ParseInv, NEW p \in Posts, PostLive(p)
  PROVE  /\ \A q \in Posts : PostLive(q) => q = p
         /\ status # "gone" /\ status # "failed"
         /\ Fanning(p) => nFans \in Fans /\ postFan[p] = nFans
         /\ Fanning(p) /\ Owed(nFans) # {} => status = "finalizing"
  BY DEF Undisturbed, OneActor, PostAlone, HandlersIdle, Aborted, ParseInv, FailedEnds,
     NoPostLive

\* A step of post-process that does not fan out keeps the invariant if it finds
\* the row as it says, and stays with the slots it has yet to enqueue or release.
LEMMA PostKeeps ==
  ASSUME TypeOK, Undisturbed, ParseInv, NEW p \in Posts, PostLive(p),
         NEW pc \in PostPcs \ {"dead"},
         postPc' = [postPc EXCEPT ![p] = pc],
         UNCHANGED <<docPc, nFans, cancelPc, reparsePc, deletePc, faults, calm>>,
         status' \in {status, "completed"},
         status' = "completed" =>
           status = "completed" \/ pc \notin {"list", "fast", "handoff"},
         pc \in {"list", "fast", "handoff"} => status = "processing",
         \A f \in Fans, s \in Slots :
           /\ subPc[f][s] = "none" => subPc'[f][s] = "none"
           /\ subPc'[f][s] \in {"held", "unowned"} =>
                subPc[f][s] \in {"held", "unowned"} /\ pc \in {"enq", "promote"}
  PROVE  ParseInv'
<1>1. \A q \in Posts : postPc'[q] = IF q = p THEN pc ELSE postPc[q]
  BY DEF TypeOK, PostTypes
<1>2. /\ \A q \in Posts : PostLive(q) => q = p
      /\ status # "failed"
  BY PostEnriching
<1>3. Unhindered'
  BY DEF ParseInv, Unhindered
<1>4. OneFan'
  BY DEF ParseInv, OneFan
<1>5. FailedEnds'
  BY <1>2 DEF FailedEnds
<1>6. LoadedHolds'
  BY <1>1, <1>2 DEF LoadedHolds, PostLive
<1>7. HeldPosted'
  BY <1>1 DEF HeldPosted, Fanning
<1> QED
  BY <1>3, <1>4, <1>5, <1>6, <1>7 DEF ParseInv

\* Post-process seeds the counter and hands over all jobs at once, then
\* enqueues them, or settles those it cannot.
LEMMA PostEnriches ==
  ASSUME Alone, TypeOK, Undisturbed, ParseInv, NEW p \in Posts, PostNext(p)
  PROVE  ParseInv' /\ EnrichStep
<1> USE DEF rowVars, docVars, subVars, fanVars, userVars, ghostVars
<1>1. ~Fault
  BY NothingFails
<1>2. PostLive(p)
  BY DEF PostNext, PostLoad, PostLoadFailed, PostDeadLetter, PostList, PostFast,
     SetFinalizing, HandoffLost, PostEnqueue, PostRelease, PostPromote, PostReturn,
     PostCrash, PostStep, PostLive
<1>3. CASE PostLoad(p) \/ PostList(p)
  <2>1. \E pc \in PostPcs \ {"dead"} :
          /\ postPc' = [postPc EXCEPT ![p] = pc]
          /\ pc \in {"list", "fast", "handoff"} => status = "processing"
          /\ pc \notin {"enq", "promote"} /\ postPc[p] \in {"queued", "list"}
    BY <1>3 DEF PostLoad, PostList, PostStep, PostGoto, PostPcs, ParseInv, LoadedHolds
  <2>2. /\ UNCHANGED <<docPc, nFans, cancelPc, reparsePc, deletePc, faults, calm>>
        /\ UNCHANGED <<status, subPc>>
    BY <1>3 DEF PostLoad, PostList, PostStep
  <2>3. \A f \in Fans, s \in Slots : subPc[f][s] \notin {"held", "unowned"}
    BY <1>2, <2>1, PostEnriching DEF ParseInv, HeldPosted, Fanning, PostLive
  <2>4. ParseInv'
    BY <1>2, <2>1, <2>2, <2>3, PostKeeps
  <2> QED
    BY <2>2, <2>4, SameLeft, RowSteps
<1>4. CASE PostFast(p)
  <2>1. /\ postPc[p] = "fast" /\ postPc' = [postPc EXCEPT ![p] = "done"]
        /\ UNCHANGED <<docPc, nFans, cancelPc, reparsePc, deletePc, faults, calm>>
        /\ subPc' = subPc /\ Save("completed")
    BY <1>1, <1>4 DEF PostFast, PostStep, PostGoto
  <2>2. status = "processing" /\ status' = "completed"
    BY <2>1 DEF ParseInv, LoadedHolds, Save
  <2>3. \A f \in Fans, s \in Slots : subPc[f][s] \notin {"held", "unowned"}
    BY <1>2, <2>1, PostEnriching DEF ParseInv, HeldPosted, Fanning, PostLive
  <2>4. ParseInv'
    BY <1>2, <2>1, <2>2, <2>3, PostKeeps DEF PostPcs
  <2> QED
    BY <2>1, <2>2, <2>4, SameLeft, RowSteps
<1>5. CASE SetFinalizing(p)
  <2>1. nFans = 0 /\ nFans' = 1 /\ 1 \in Fans
    BY <1>5, NextMessage DEF SetFinalizing, ParseInv, OneFan
  <2>2. /\ status = "processing" /\ status' = "finalizing"
        /\ postPc' = [postPc EXCEPT ![p] = "enq"]
        /\ subPc' = [subPc EXCEPT ![1] = [s \in Slots |-> "held"]]
        /\ UNCHANGED <<docPc, cancelPc, reparsePc, deletePc, faults, calm>>
    BY <1>5, <2>1 DEF SetFinalizing, PostGoto
  <2>3. \A f \in Fans, s \in Slots : subPc'[f][s] = IF f = 1 THEN "held" ELSE "none"
    <3>1. \A f \in Fans : f > 0
      BY ConstantsAreNat DEF Fans
    <3> QED
      BY <2>1, <2>2, <3>1 DEF ParseInv, OneFan, TypeOK, SubTypes
  <2>4. \A q \in Posts : postPc'[q] = IF q = p THEN "enq" ELSE postPc[q]
    BY <2>2 DEF TypeOK, PostTypes
  <2>5. \A q \in Posts : PostLive(q) => q = p
    BY <1>2, PostEnriching
  <2>6. Unhindered' /\ OneFan' /\ FailedEnds'
    BY <2>1, <2>2, <2>3 DEF ParseInv, Unhindered, OneFan, FailedEnds, Fans
  <2>7. LoadedHolds' /\ HeldPosted'
    BY <2>4, <2>5 DEF LoadedHolds, HeldPosted, Fanning, PostLive
  <2>8. Left' = Slots
    <3>1. \A f \in Fans : {s \in Slots : subPc'[f][s] \in OwedPcs} =
                            IF f = 1 THEN Slots ELSE {}
      BY <2>3 DEF OwedPcs, SubPcs
    <3> QED
      BY <2>1, <3>1 DEF Left, Owed
  <2>9. Phase = "parsing" /\ Phase' = "enriching"
    BY <2>2 DEF Phase
  <2>10. EnrichStep
    BY <2>8, <2>9 DEF EnrichStep, Abstract!ANext, Abstract!Handoff, Left
  <2> QED
    BY <2>6, <2>7, <2>10 DEF ParseInv
<1>6. ASSUME NEW s \in Slots, NEW pc \in {"queued", "unowned"}, PostEnqueue(p, s, pc)
      PROVE  ParseInv' /\ EnrichStep
  <2>1. /\ Fanning(p) /\ nFans \in Fans /\ postFan[p] = nFans
        /\ subPc[nFans][s] = "held" /\ subPc' = [subPc EXCEPT ![nFans][s] = pc]
        /\ UNCHANGED <<docPc, postPc, nFans, cancelPc, reparsePc, deletePc, faults, calm>>
        /\ status' = status
    BY <1>2, <1>6, PostEnriching DEF PostEnqueue, Fanning, postVars
  <2>2. Left' = Left
    BY <2>1, LeftKept DEF OwedPcs, SubPcs
  <2>3. \A f \in Fans, t \in Slots : subPc[f][t] = "none" => subPc'[f][t] = "none"
    BY <2>1 DEF TypeOK, SubTypes
  <2>4. Unhindered' /\ OneFan' /\ FailedEnds'
    BY <2>1, <2>3 DEF ParseInv, Unhindered, OneFan, FailedEnds, NoPostLive, PostLive
  <2>5. LoadedHolds' /\ HeldPosted'
    BY <2>1 DEF ParseInv, LoadedHolds, HeldPosted, Fanning
  <2> QED
    BY <2>1, <2>2, <2>4, <2>5, RowSteps DEF ParseInv
<1>7. ASSUME NEW s \in Slots, PostRelease(p, s) PROVE ParseInv' /\ EnrichStep
  <2>1. /\ Fanning(p) /\ nFans \in Fans /\ postFan[p] = nFans
        /\ subPc[nFans][s] = "unowned" /\ subPc' = [subPc EXCEPT ![nFans][s] = "done"]
        /\ postPc' = [postPc EXCEPT ![p] = "promote"] /\ status' = status
        /\ UNCHANGED <<docPc, nFans, cancelPc, reparsePc, deletePc, faults, calm>>
    BY <1>2, <1>7, PostEnriching DEF PostRelease, PostStep, PostGoto, Fanning, Decrement
  <2>2. subPc[nFans][s] \in OwedPcs /\ "done" \notin OwedPcs
    BY <2>1 DEF OwedPcs, SubPcs
  <2>3. status = "finalizing"
    <3>1. s \in Owed(nFans)
      BY <2>2 DEF Owed
    <3> QED
      BY <1>2, <2>1, <3>1, PostEnriching
  <2>4. EnrichStep
    BY <2>1, <2>2, <2>3, SettleStep
  <2>5. \A f \in Fans, t \in Slots :
          /\ subPc[f][t] = "none" => subPc'[f][t] = "none"
          /\ subPc'[f][t] \in {"held", "unowned"} => subPc[f][t] \in {"held", "unowned"}
    BY <2>1 DEF TypeOK, SubTypes
  <2>6. ParseInv'
    BY <1>2, <2>1, <2>3, <2>5, PostKeeps DEF PostPcs
  <2> QED
    BY <2>4, <2>6
<1>8. CASE PostPromote(p)
  <2>1. /\ postPc' = [postPc EXCEPT ![p] = "enq"] /\ subPc' = subPc
        /\ status' \in {status, "completed"} /\ Promote
        /\ UNCHANGED <<docPc, nFans, cancelPc, reparsePc, deletePc, faults, calm>>
    BY <1>8 DEF PostPromote, PostStep, PostGoto, Promote
  <2>2. ParseInv'
    BY <1>2, <2>1, PostKeeps DEF PostPcs
  <2> QED
    BY <2>1, <2>2, SameLeft, PromoteStep
<1>9. CASE PostReturn(p)
  <2>1. /\ Fanning(p) /\ nFans \in Fans /\ postFan[p] = nFans
        /\ \A s \in Slots : subPc[nFans][s] \notin {"held", "unowned"}
        /\ postPc' = [postPc EXCEPT ![p] = "done"]
        /\ UNCHANGED <<docPc, nFans, cancelPc, reparsePc, deletePc, faults, calm>>
        /\ UNCHANGED <<status, subPc>>
    BY <1>1, <1>2, <1>9, PostEnriching DEF PostReturn, PostStep, PostGoto, Fanning
  <2>2. \A f \in Fans : f # nFans => \A s \in Slots : subPc[f][s] = "none"
    BY <2>1, ConstantsAreNat DEF ParseInv, OneFan, Fans
  <2>3. \A f \in Fans, s \in Slots : subPc[f][s] \notin {"held", "unowned"}
    BY <2>1, <2>2
  <2>4. ParseInv'
    BY <1>2, <2>1, <2>3, PostKeeps DEF PostPcs
  <2> QED
    BY <2>1, <2>4, SameLeft, RowSteps
<1>10. ~PostLoadFailed(p) /\ ~PostDeadLetter(p) /\ ~HandoffLost(p) /\ ~PostCrash(p)
  BY <1>1, <1>2, PostEnriching DEF PostLoadFailed, PostDeadLetter, HandoffLost,
     PostCrash, PostStep, ParseInv, LoadedHolds
<1> QED
  BY <1>3, <1>4, <1>5, <1>6, <1>7, <1>8, <1>9, <1>10 DEF PostNext

\* A subtask that moves on without settling, or settles, keeps the invariant.
LEMMA SubKeeps ==
  ASSUME TypeOK, Undisturbed, ParseInv, NEW f \in Fans, NEW s \in Slots, SubLive(f, s),
         NEW pc, pc \notin {"held", "unowned"},
         subPc' = [subPc EXCEPT ![f][s] = pc],
         UNCHANGED <<docPc, postPc, nFans, cancelPc, reparsePc, deletePc, faults, calm>>,
         status' \in {status, "completed"}
  PROVE  ParseInv'
<1>1. \A p \in Posts : PostLive(p) => Fanning(p)
  BY SubKnows
<1>2. f = nFans
  BY SubKnows
<1>3. \A g \in Fans, t \in Slots :
        subPc'[g][t] = IF g = f /\ t = s THEN pc ELSE subPc[g][t]
  BY DEF TypeOK, SubTypes
<1>4. Unhindered' /\ FailedEnds'
  BY DEF ParseInv, Unhindered, FailedEnds, NoPostLive, PostLive
<1>5. OneFan'
  BY <1>2, <1>3 DEF ParseInv, OneFan, TypeOK, FanTypes
<1>6. LoadedHolds'
  BY <1>1 DEF ParseInv, LoadedHolds, PostLive, Fanning
<1>7. HeldPosted'
  BY <1>3 DEF ParseInv, HeldPosted, Fanning
<1> QED
  BY <1>4, <1>5, <1>6, <1>7 DEF ParseInv

\* A subtask's job settles with its drain, and with nothing else.
LEMMA SubEnriches ==
  ASSUME Alone, TypeOK, Undisturbed, ParseInv, NEW f \in Fans, NEW s \in Slots,
         SubNext(f, s) \/ (s = SummarySlot /\ SummaryNext(f))
  PROVE  ParseInv' /\ EnrichStep
<1> USE DEF rowVars, docVars, postVars, fanVars, userVars, ghostVars
<1>1. ~Fault
  BY NothingFails
<1>2. SubLive(f, s)
  BY DEF SubNext, SubStart, SubRead, SubWork, SubStore, SubFail, SubDrain,
     SubPromote, SubCrash, SummaryNext, SummaryMark, SummaryList, SummaryWork,
     SummaryFresh, SummaryStale, SummarySave, SummaryDerive, SubStep, SubLive
<1>3. UNCHANGED <<docPc, postPc, nFans, cancelPc, reparsePc, deletePc, faults, calm>>
  BY <1>1 DEF SubNext, SubStart, SubRead, SubWork, SubStore, SubFail, SubDrain,
     SubPromote, SubCrash, SummaryNext, SummaryMark, SummaryList, SummaryWork,
     SummaryFresh, SummaryStale, SummarySave, SummaryDerive, SubStep
<1>4. /\ f = nFans /\ fanAtt[f] = latest
      /\ subPc[f][s] # "promote" => status = "finalizing"
      /\ s = SummarySlot /\ subPc[f][s] \in Saving => subSeen[f].st = "finalizing"
  BY <1>2, SubKnows
<1>5. CASE SubDrain(f, s)
  <2>1. /\ subPc[f][s] = "dec" /\ subPc' = [subPc EXCEPT ![f][s] = "promote"]
        /\ status' = status
    BY <1>5 DEF SubDrain, SubStep, SubGoto, Decrement
  <2>2. ParseInv'
    <3>1. "promote" \notin {"held", "unowned"} /\ status' \in {status, "completed"}
      BY <2>1
    <3> QED
      BY <1>2, <1>3, <2>1, <3>1, SubKeeps
  <2> QED
    BY <1>4, <2>1, <2>2, SettleStep DEF OwedPcs, SubPcs
<1>6. CASE SubPromote(f, s)
  <2>1. /\ subPc[f][s] = "promote" /\ subPc' = [subPc EXCEPT ![f][s] = "done"]
        /\ status' \in {status, "completed"} /\ Promote
    BY <1>6 DEF SubPromote, SubStep, SubGoto, Promote
  <2>2. ParseInv'
    <3>1. "done" \notin {"held", "unowned"}
      OBVIOUS
    <3> QED
      BY <1>2, <1>3, <2>1, <3>1, SubKeeps
  <2>3. Left' = Left
    BY <2>1, LeftKept DEF OwedPcs
  <2> QED
    BY <2>1, <2>2, <2>3, PromoteStep
<1>7. CASE ~SubDrain(f, s) /\ ~SubPromote(f, s)
  <2>1. /\ subPc[f][s] \in Spending
        /\ \E pc \in Spending : subPc' = [subPc EXCEPT ![f][s] = pc]
    <3>1. CASE SubFail(f, s)
      BY <3>1 DEF SubFail, Retry, SubGoto, Spending, SubPcs
    <3>2. CASE SummaryStale(f) /\ s = SummarySlot
      BY <3>2 DEF SummaryStale, Retry, SubGoto, Spending, SubPcs
    <3>3. CASE SubStart(f, s) \/ SubRead(f, s) \/ SubWork(f, s) \/ SubStore(f, s)
      <4>1. latest > fanAtt[f] <=> FALSE
        BY <1>4 DEF TypeOK, RowTypes
      <4> QED
        BY <3>3, <4>1 DEF SubStart, SubRead, SubWork, SubStore, SubStep, SubGoto,
           Spending, SubPcs
    <3>4. CASE /\ s = SummarySlot
               /\ \/ SummaryMark(f) \/ SummaryList(f) \/ SummaryWork(f)
                  \/ SummaryFresh(f) \/ SummarySave(f) \/ SummaryDerive(f)
      BY <3>4 DEF SummaryMark, SummaryList, SummaryWork, SummaryFresh, SummarySave,
         SummaryDerive, SubStep, SubGoto, Spending, SubPcs
    <3> QED
      BY <1>1, <1>7, <3>1, <3>2, <3>3, <3>4 DEF SubNext, SummaryNext, SubCrash
  <2>2. status = "finalizing"
    BY <1>4, <2>1 DEF Spending
  <2>3. status' = status
    <3>1. status' = status \/ (s = SummarySlot /\ subPc[f][s] \in Saving
                               /\ Save(subSeen[f].st))
      BY <1>1, <1>7 DEF SubNext, SubStart, SubRead, SubWork, SubStore, SubFail,
         SubCrash, SummaryNext, SummaryMark, SummaryList, SummaryWork,
         SummaryFresh, SummaryStale, SummarySave, SummaryDerive, SubStep, Saving
    <3> QED
      BY <1>4, <2>2, <3>1 DEF Save
  <2>4. ParseInv'
    BY <1>2, <1>3, <2>1, <2>3, SubKeeps DEF Spending
  <2>5. Left' = Left
    BY <2>1, LeftKept DEF OwedPcs, Spending
  <2> QED
    BY <2>3, <2>4, <2>5, RowSteps
<1> QED
  BY <1>5, <1>6, <1>7

\* The sweeper finds a finalizing row only with somebody still at work on it.
LEMMA SweepEnriches ==
  ASSUME Alone, TypeOK, Undisturbed, ParseInv, Sweep
  PROVE  ParseInv' /\ EnrichStep
<1> USE DEF rowVars, docVars, postVars, subVars, fanVars, userVars, ghostVars
<1>1. NoDocBusy /\ NoPostLive /\ NoSubLive
  BY QuietMeansNobody DEF Sweep
<1>2. status # "finalizing"
  <2> SUFFICES ASSUME status = "finalizing" PROVE FALSE
    OBVIOUS
  <2>1. nFans \in Fans
    BY DEF Undisturbed, OneActor, Accounted
  <2>2. Owed(nFans) # {}
    BY <1>1 DEF Undisturbed, OneActor, PromoterLeft, NoPostLive, PostLive, NoSubLive,
       SubLive
  <2>3. PICK s \in Slots : subPc[nFans][s] \in OwedPcs
    BY <2>2 DEF Owed
  <2>4. subPc[nFans][s] \in {"held", "unowned"}
    BY <1>1, <2>1, <2>3 DEF NoSubLive, SubLive, OwedPcs
  <2> QED
    BY <1>1, <2>1, <2>4 DEF ParseInv, HeldPosted, NoPostLive, PostLive, Fanning
<1>3. status \in {"pending", "processing"} /\ status' = "failed"
  BY <1>2 DEF Sweep, SetColumns, Save, InFlight
<1>4. UNCHANGED <<docPc, postPc, subPc, nFans, cancelPc, reparsePc, deletePc, faults,
                  calm>>
  BY DEF Sweep
<1>5. Unhindered' /\ OneFan' /\ HeldPosted'
  BY <1>3, <1>4 DEF ParseInv, Unhindered, OneFan, HeldPosted, Fanning
<1>6. FailedEnds' /\ LoadedHolds'
  BY <1>1, <1>4 DEF FailedEnds, LoadedHolds, NoDocBusy, Busy, NoPostLive, PostLive
<1> QED
  BY <1>3, <1>4, <1>5, <1>6, SameLeft, RowSteps DEF ParseInv

\* Every step of an undisturbed upload is a step of Enrichment or a stutter.
LEMMA ParseStep ==
  ASSUME Alone, TypeOK, CalmInv, ParseInv, [Next]_vars
  PROVE  ParseInv' /\ EnrichStep
<1>1. Undisturbed
  BY DEF CalmInv, ParseInv, Unhindered
<1>2. CASE UNCHANGED vars
  <2> USE <1>2 DEF vars, rowVars, docVars, postVars, subVars, fanVars, userVars,
        ghostVars
  <2>1. Unhindered' /\ OneFan' /\ FailedEnds'
    BY DEF ParseInv, Unhindered, OneFan, FailedEnds, NoPostLive, PostLive
  <2>2. LoadedHolds' /\ HeldPosted'
    BY DEF ParseInv, LoadedHolds, HeldPosted, Fanning
  <2> QED
    BY <2>1, <2>2, SameLeft, RowSteps DEF ParseInv
<1>3. CASE Request \/ Handler
  BY <1>3, NothingFails DEF Request, Handler, ParseInv, Unhindered, CancelWrite,
     CancelDequeue, ReparseClean, ReparseFailed, ReparseReset, ReparseZero,
     ReparseEnqueue, ReparseEnqueueFailed, ReparseStep, DeleteDequeue, DeleteClean,
     DeleteFailed, DeleteDrop, DeleteStep
<1>4. CASE Next /\ ~Request /\ ~Handler
  <2>1. CASE \E d \in Docs : DocNext(d)
    BY <1>1, <2>1, DocEnriches
  <2>2. CASE \E p \in Posts : PostNext(p)
    BY <1>1, <2>2, PostEnriches
  <2>3. CASE \E f \in Fans, s \in Slots : SubNext(f, s)
    BY <1>1, <2>3, SubEnriches
  <2>4. CASE \E f \in Fans : SummaryNext(f)
    BY <1>1, <2>4, SubEnriches, ConstantsAreNat
  <2>5. CASE Sweep
    BY <1>1, <2>5, SweepEnriches
  <2> QED
    BY <1>4, <2>1, <2>2, <2>3, <2>4, <2>5 DEF Next
<1> QED
  BY <1>2, <1>3, <1>4

\* An upload that nobody disturbs implements the safety part of Enrichment: the
\* row is handed over to all its subtasks at once, each of them settles once, and
\* the row is completed when, and only when, the last one has.
THEOREM ParseImplementsEnrichment ==
  ASSUME Alone
  PROVE  Spec => Abstract!ASpec
<1>1. Init => ParseInv /\ Abstract!AInit
  <2> SUFFICES ASSUME Init PROVE ParseInv /\ Abstract!AInit
    OBVIOUS
  <2>1. \A f \in Fans, s \in Slots : subPc[f][s] = "none"
    BY DEF Init
  <2>2. \A p \in Posts : postPc[p] = "none"
    BY DEF Init
  <2>3. ParseInv
    BY <2>1, <2>2 DEF Init, ParseInv, Unhindered, OneFan, FailedEnds, LoadedHolds,
       HeldPosted
  <2>4. \A f \in Fans : Owed(f) = {}
    BY <2>1 DEF Owed, OwedPcs
  <2>5. UNION {Owed(f) : f \in Fans} = {} /\ Phase = "parsing"
    BY <2>4 DEF Init, Phase
  <2> QED
    BY <2>3, <2>5 DEF Abstract!AInit
<1>2. TypeOK /\ CalmInv /\ ParseInv /\ [Next]_vars
        => ParseInv' /\ [Abstract!ANext]_(Abstract!avars)
  BY ParseStep DEF EnrichStep
<1> QED
  BY <1>1, <1>2, TypeCorrect, CalmInvariant, PTL DEF Spec, Abstract!ASpec

=============================================================================
