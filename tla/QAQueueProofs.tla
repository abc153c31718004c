--------------------------- MODULE QAQueueProofs ---------------------------
(***************************************************************************)
(* The question queue in multi-instance mode, for any number of requests,  *)
(* users, instances and workers.  As long as nothing fails each counter is *)
(* the number of requests that will give a unit back, and both limits      *)
(* hold.  Faults or not, an instance's local count is the number of its    *)
(* waiting requests, and the registry names the requests being answered.   *)
(***************************************************************************)
EXTENDS QAQueue, TLAPS, FiniteSetTheorems, SequenceTheorems

Good == Calm /\ redis

CoreTypes ==
  /\ pc \in [Requests -> Pcs]
  /\ inst \in [Requests -> Instances \cup {None}]
  /\ queue \in [Instances -> Seq(Requests)]
  /\ count \in [Keys -> Int]

\* A queue holds its instance's waiting requests, each once.
QueueSound ==
  \A i \in Instances :
    /\ \A n \in 1 .. Len(queue[i]) : pc[queue[i][n]] = "queued" /\ inst[queue[i][n]] = i
    /\ \A m, n \in 1 .. Len(queue[i]) : queue[i][m] = queue[i][n] => m = n

UserLimit(u) == Cardinality({r \in Units(u) : pc[r] # "over"}) <= MaxPerUser

Counts == /\ \A k \in Keys : count[k] = Cardinality(Units(k))
          /\ \A u \in Users : UserLimit(u)
          /\ Cardinality(Units(Gate)) <= MaxGlobal

QueueInv ==
  /\ faults \in Nat
  /\ Good => /\ CoreTypes
             /\ QueueSound
             /\ Counts

-----------------------------------------------------------------------------
(* Counting                                                                 *)

\* The requests that will give a unit back are finitely many.
LEMMA UnitsFinite ==
  ASSUME NEW k
  PROVE  IsFiniteSet(Units(k)) /\ Cardinality(Units(k)) \in Nat
<1>1. IsFiniteSet(Requests) /\ Units(k) \subseteq Requests
  BY QueueAssumption DEF Units
<1> QED
  BY <1>1, FS_Subset, FS_CardinalityType

\* One request steps, and every counter follows it.
Pays(r) ==
  /\ \A q \in Requests \ {r} : pc'[q] = pc[q]
  /\ \A k \in Keys : count'[k] = count[k] + (IF r \in Units(k)' THEN 1 ELSE 0)
                                          - (IF r \in Units(k) THEN 1 ELSE 0)

\* A step of one request changes each counter as its share of the counter changes.
LEMMA PaysKeeps ==
  ASSUME NEW r \in Requests, Pays(r), NEW k \in Keys, count[k] = Cardinality(Units(k))
  PROVE  count'[k] = Cardinality(Units(k)')
<1>1. \A q \in Requests \ {r} : q \in Units(k)' <=> q \in Units(k)
  BY DEF Pays, Units
<1>2. Units(k) \subseteq Requests /\ Units(k)' \subseteq Requests
  BY DEF Units
<1>3. IsFiniteSet(Units(k)) /\ Cardinality(Units(k)) \in Nat
  BY UnitsFinite
<1>4. CASE r \in Units(k)' /\ r \notin Units(k)
  <2>1. Units(k)' = Units(k) \cup {r}
    BY <1>1, <1>2, <1>4
  <2>2. Cardinality(Units(k) \cup {r}) = Cardinality(Units(k)) + 1
    BY <1>3, <1>4, FS_AddElement
  <2> QED
    BY <1>3, <1>4, <2>1, <2>2 DEF Pays
<1>5. CASE r \notin Units(k)' /\ r \in Units(k)
  <2>1. Units(k)' = Units(k) \ {r}
    BY <1>1, <1>2, <1>5
  <2>2. Cardinality(Units(k) \ {r}) = Cardinality(Units(k)) - 1
    BY <1>3, <1>5, FS_RemoveElement
  <2> QED
    BY <1>3, <1>5, <2>1, <2>2 DEF Pays
<1>6. CASE r \in Units(k)' <=> r \in Units(k)
  <2>1. Units(k)' = Units(k)
    BY <1>1, <1>2, <1>6
  <2> QED
    BY <1>3, <1>6, <2>1 DEF Pays
<1> QED
  BY <1>4, <1>5, <1>6

\* A user's limit: nobody is admitted but by a count within it.
LEMMA LimitKeeps ==
  ASSUME NEW r \in Requests, Pays(r), NEW u \in Users, UserLimit(u),
         count[u] = Cardinality(Units(u)),
         pc'[r] \in Admitted => pc[r] \in Admitted \/ UserOf[r] # u \/ count'[u] <= MaxPerUser
  PROVE  UserLimit(u)'
<1> DEFINE A == {q \in Units(u) : pc[q] # "over"}
           B == {q \in Units(u)' : pc'[q] # "over"}
<1>0. u \in Keys /\ u # Gate /\ MaxPerUser \in Nat
  BY QueueAssumption DEF Keys
<1>1. IsFiniteSet(Units(u)) /\ A \subseteq Units(u) /\ IsFiniteSet(A) /\ Cardinality(A) \in Nat
  BY UnitsFinite, FS_Subset, FS_CardinalityType
<1>2. Units(u)' \subseteq Requests /\ IsFiniteSet(Units(u)')
  BY QueueAssumption, FS_Subset DEF Units
<1>3. IsFiniteSet(B) /\ Cardinality(B) <= Cardinality(Units(u)') /\ Cardinality(B) \in Nat
  BY <1>2, FS_Subset, FS_CardinalityType
<1>4. CASE B \subseteq A
  <2>1. Cardinality(B) <= Cardinality(A)
    BY <1>1, <1>4, FS_Subset
  <2> QED
    BY <1>0, <1>1, <1>3, <2>1 DEF UserLimit
<1>5. CASE ~(B \subseteq A)
  <2>1. r \in B /\ r \notin A
    BY <1>0, <1>2, <1>5 DEF Pays, Units
  <2>2. count'[u] <= MaxPerUser
    <3>1. "over" \notin Admitted
      BY DEF Admitted, OnWorker, Running
    <3> QED
      BY <1>0, <2>1, <3>1 DEF Units, Counted
  <2>3. count'[u] = Cardinality(Units(u)')
    BY <1>0, PaysKeeps
  <2>4. Cardinality(Units(u)') \in Nat
    BY <1>2, FS_CardinalityType
  <2> QED
    BY <1>0, <1>3, <2>2, <2>3, <2>4 DEF UserLimit
<1> QED
  BY <1>4, <1>5

\* The gate: nobody starts to run but by a count within it.
LEMMA GateKeeps ==
  ASSUME NEW r \in Requests, Pays(r), Cardinality(Units(Gate)) <= MaxGlobal,
         count[Gate] = Cardinality(Units(Gate)),
         pc'[r] \in Running => pc[r] \in Running \/ count'[Gate] <= MaxGlobal
  PROVE  Cardinality(Units(Gate)') <= MaxGlobal
<1>1. Gate \in Keys
  BY DEF Keys
<1>2. IsFiniteSet(Units(Gate)) /\ Cardinality(Units(Gate)) \in Nat
  BY UnitsFinite
<1>3. CASE Units(Gate)' \subseteq Units(Gate)
  <2>1. Cardinality(Units(Gate)') <= Cardinality(Units(Gate)) /\ Cardinality(Units(Gate)') \in Nat
    BY <1>2, <1>3, FS_Subset, FS_CardinalityType
  <2> QED
    BY <1>2, <2>1, QueueAssumption
<1>4. CASE ~(Units(Gate)' \subseteq Units(Gate))
  <2>1. pc'[r] \in Running /\ pc[r] \notin Running
    BY <1>4 DEF Pays, Units
  <2>2. count'[Gate] <= MaxGlobal /\ count'[Gate] = Cardinality(Units(Gate)')
    BY <1>1, <2>1, PaysKeeps
  <2> QED
    BY <2>2
<1> QED
  BY <1>3, <1>4

\* What a step of one request has to satisfy.
Lawful(r) ==
  /\ Pays(r)
  /\ pc'[r] \in Admitted => pc[r] \in Admitted \/ count'[UserOf[r]] <= MaxPerUser
  /\ pc'[r] \in Running => pc[r] \in Running \/ count'[Gate] <= MaxGlobal

\* Such a step of a request keeps counters and limits.
LEMMA LawfulKeeps ==
  ASSUME NEW r \in Requests, Lawful(r), Counts
  PROVE  Counts'
<1>1. \A k \in Keys : count'[k] = Cardinality(Units(k)')
  BY PaysKeeps DEF Lawful, Counts
<1>2. ASSUME NEW u \in Users PROVE UserLimit(u)'
  <2>1. u \in Keys
    BY DEF Keys
  <2> QED
    BY <2>1, LimitKeeps DEF Lawful, Counts
<1>3. Cardinality(Units(Gate)') <= MaxGlobal
  BY GateKeeps DEF Lawful, Counts, Keys
<1> QED
  BY <1>1, <1>2, <1>3 DEF Counts

\* A step that moves no request and touches no counter.
LEMMA QuietKeeps ==
  ASSUME UNCHANGED <<pc, count>>, Counts
  PROVE  Counts'
<1>1. \A k : Units(k)' = Units(k)
  BY DEF Units
<1> QED
  BY <1>1 DEF Counts, UserLimit

-----------------------------------------------------------------------------
(* The steps of a calm run with Redis                                       *)

Sets == /\ "over" \notin Admitted /\ "over" \notin Running
        /\ Running \subseteq Admitted /\ Counted = Admitted \cup {"over"}
        /\ Ended \cap Counted = {} /\ "new" \notin Counted

\* The stages of a request that the counters stand for.
LEMMA SetsHold == Sets
BY DEF Sets, Admitted, OnWorker, Running, Counted, Ended

\* A step of one request that changes no queue.
Solo(r) ==
  /\ CoreTypes' /\ UNCHANGED queue
  /\ \A q \in Requests \ {r} : pc'[q] = pc[q] /\ inst'[q] = inst[q]
  /\ pc[r] # "queued"

\* A step of a request that is not in a queue leaves the queues sound.
LEMMA SoloKeepsQueues ==
  ASSUME NEW r \in Requests, CoreTypes, QueueSound, Solo(r)
  PROVE  QueueSound'
<1>1. \A i \in Instances : \A n \in 1 .. Len(queue[i]) : queue[i][n] \in Requests \ {r}
  BY DEF CoreTypes, QueueSound, Solo
<1> QED
  BY <1>1 DEF QueueSound, Solo

\* The counter of a user changes with one of its requests.
LEMMA UserPays ==
  ASSUME NEW r \in Requests, CoreTypes,
         \A q \in Requests \ {r} : pc'[q] = pc[q],
         pc[r] \in Running <=> pc'[r] \in Running,
         count' = [count EXCEPT ![UserOf[r]] = @ + (IF pc'[r] \in Counted THEN 1 ELSE 0)
                                           - (IF pc[r] \in Counted THEN 1 ELSE 0)]
  PROVE  Pays(r)
<1>1. UserOf[r] \in Users /\ Gate \notin Users /\ UserOf[r] \in Keys
  BY QueueAssumption DEF Keys
<1>2. ASSUME NEW k \in Keys
      PROVE  count'[k] = count[k] + (IF r \in Units(k)' THEN 1 ELSE 0)
                                  - (IF r \in Units(k) THEN 1 ELSE 0)
  <2>1. CASE k = UserOf[r]
    <3>1. /\ r \in Units(k)' <=> pc'[r] \in Counted
          /\ r \in Units(k) <=> pc[r] \in Counted
      BY <1>1, <2>1 DEF Units
    <3> QED
      BY <1>1, <2>1, <3>1 DEF CoreTypes
  <2>2. CASE k # UserOf[r]
    <3>1. r \in Units(k)' <=> r \in Units(k)
      BY <1>1, <2>2 DEF Units
    <3> QED
      BY <1>1, <1>2, <2>2, <3>1 DEF CoreTypes
  <2> QED
    BY <2>1, <2>2
<1> QED
  BY <1>2 DEF Pays

\* The gate's counter changes with a request that stays its user's.
LEMMA GatePays ==
  ASSUME NEW r \in Requests, CoreTypes,
         \A q \in Requests \ {r} : pc'[q] = pc[q],
         pc[r] \in Counted <=> pc'[r] \in Counted,
         count' = [count EXCEPT ![Gate] = @ + (IF pc'[r] \in Running THEN 1 ELSE 0)
                                           - (IF pc[r] \in Running THEN 1 ELSE 0)]
  PROVE  Pays(r)
<1>1. UserOf[r] \in Users /\ Gate \notin Users /\ Gate \in Keys
  BY QueueAssumption DEF Keys
<1>2. ASSUME NEW k \in Keys
      PROVE  count'[k] = count[k] + (IF r \in Units(k)' THEN 1 ELSE 0)
                                  - (IF r \in Units(k) THEN 1 ELSE 0)
  <2>1. CASE k = Gate
    <3>1. /\ r \in Units(k)' <=> pc'[r] \in Running
          /\ r \in Units(k) <=> pc[r] \in Running
      BY <1>1, <2>1 DEF Units
    <3> QED
      BY <1>1, <2>1, <3>1 DEF CoreTypes
  <2>2. CASE k # Gate
    <3>1. r \in Units(k)' <=> r \in Units(k)
      BY <1>1, <2>2 DEF Units
    <3> QED
      BY <1>1, <1>2, <2>2, <3>1 DEF CoreTypes
  <2> QED
    BY <2>1, <2>2
<1> QED
  BY <1>2 DEF Pays

\* A step within a stage pays nothing.
LEMMA StepsAside ==
  ASSUME NEW r \in Requests, CoreTypes, UNCHANGED count,
         \A q \in Requests \ {r} : pc'[q] = pc[q],
         pc[r] \in Running <=> pc'[r] \in Running,
         pc[r] \in Counted <=> pc'[r] \in Counted
  PROVE  Pays(r)
<1>1. ASSUME NEW k \in Keys
      PROVE  count'[k] = count[k] + (IF r \in Units(k)' THEN 1 ELSE 0)
                                  - (IF r \in Units(k) THEN 1 ELSE 0)
  <2>1. r \in Units(k)' <=> r \in Units(k)
    BY DEF Units
  <2>2. count[k] \in Int /\ count'[k] = count[k]
    BY DEF CoreTypes
  <2> QED
    BY <2>1, <2>2
<1> QED
  BY <1>1 DEF Pays

\* The types of a step of one request.
LEMMA SoloTypes ==
  ASSUME NEW r \in Requests, CoreTypes, NEW to \in Pcs, NEW where \in Instances \cup {None},
         pc[r] # "queued", pc' = [pc EXCEPT ![r] = to], inst' = [inst EXCEPT ![r] = where],
         UNCHANGED queue, count' \in [Keys -> Int]
  PROVE  Solo(r) /\ pc'[r] = to
BY DEF CoreTypes, Solo

\* A counter that is changed stays a number.
LEMMA BumpType ==
  ASSUME CoreTypes, NEW k \in Keys, NEW d \in {-1, 0, 1}
  PROVE  [count EXCEPT ![k] = @ + d] \in [Keys -> Int]
BY DEF CoreTypes

\* A request comes in: within its user's limit or over it.
LEMMA ArriveSteps ==
  ASSUME QueueInv, Good, Good', NEW r \in Requests, NEW i \in Instances, Arrive(r, i)
  PROVE  Solo(r) /\ Lawful(r)
<1> USE SetsHold, QueueAssumption
<1>0. /\ CoreTypes /\ redis
      /\ UserOf[r] \in Users /\ UserOf[r] \in Keys /\ UserOf[r] # Gate
      /\ {"over", "admitted"} \subseteq Pcs
      /\ "admitted" \in Admitted /\ "admitted" \notin Running
  BY DEF QueueInv, Good, Keys, Pcs, Admitted, Running, OnWorker
<1> DEFINE to == IF count[UserOf[r]] + 1 > MaxPerUser THEN "over" ELSE "admitted"
<1>1. /\ pc[r] = "new" /\ pc' = [pc EXCEPT ![r] = to] /\ inst' = [inst EXCEPT ![r] = i]
      /\ count' = [count EXCEPT ![UserOf[r]] = @ + 1] /\ UNCHANGED queue
  BY <1>0 DEF Arrive, ArriveAt, Incr, Bump, localVars
<1>2. to \in Pcs /\ count' \in [Keys -> Int]
  BY <1>0, <1>1, BumpType
<1>3. Solo(r) /\ pc'[r] = to
  <2> HIDE DEF to
  <2> QED
    BY <1>0, <1>1, <1>2, SoloTypes
<1>4. Pays(r)
  <2>1. to \in Counted /\ to \notin Running /\ "new" \notin Counted /\ "new" \notin Running
    BY DEF Counted, Admitted, OnWorker, Running
  <2> HIDE DEF to
  <2>2. count' = [count EXCEPT ![UserOf[r]] = @ + (IF pc'[r] \in Counted THEN 1 ELSE 0)
                                                - (IF pc[r] \in Counted THEN 1 ELSE 0)]
    BY <1>0, <1>1, <1>3, <2>1 DEF CoreTypes
  <2> QED
    BY <1>0, <1>1, <1>3, <2>1, <2>2, UserPays DEF Solo
<1>5. to = "admitted" => count'[UserOf[r]] <= MaxPerUser
  BY <1>0, <1>1 DEF CoreTypes
<1> QED
  BY <1>0, <1>3, <1>4, <1>5 DEF Lawful, Sets

\* A request ends without running, or after it: its user's unit goes back.
LEMMA EndSteps ==
  ASSUME QueueInv, Good, Good', NEW r \in Requests,
         OverLimit(r) \/ Reject(r) \/ Discard(r) \/ GateCancelled(r) \/ PayUser(r)
  PROVE  Solo(r) /\ Lawful(r)
<1> USE SetsHold, QueueAssumption
<1>0. /\ CoreTypes /\ redis /\ faults = 0 /\ faults' = 0
      /\ UserOf[r] \in Users /\ UserOf[r] \in Keys /\ UserOf[r] # Gate
      /\ {"rejected", "dropped", "done"} \subseteq Pcs
  BY DEF QueueInv, Good, Calm, Keys, Pcs
<1>1. ASSUME NEW how \in {"rejected", "dropped", "done"}, End(r, how), DecrUser(r), UNCHANGED queue,
             pc[r] \in {"over", "admitted", "taken", "gate", "paying"}
      PROVE  Solo(r) /\ Lawful(r)
  <2>1. /\ pc' = [pc EXCEPT ![r] = how] /\ inst' = [inst EXCEPT ![r] = None]
        /\ count' = [count EXCEPT ![UserOf[r]] = @ + (-1)]
    BY <1>0, <1>1 DEF End, DecrUser, Decr, Bump, Fault
  <2>2. count' \in [Keys -> Int]
    BY <1>0, <2>1, BumpType
  <2>3. Solo(r) /\ pc'[r] = how
    BY <1>0, <1>1, <2>1, <2>2, SoloTypes
  <2>4. how \notin Counted /\ how \notin Running /\ pc[r] \in Counted /\ pc[r] \notin Running
    BY <1>1 DEF Counted, Admitted, OnWorker, Running
  <2>5. Pays(r)
    <3>1. count' = [count EXCEPT ![UserOf[r]] = @ + (IF pc'[r] \in Counted THEN 1 ELSE 0)
                                                  - (IF pc[r] \in Counted THEN 1 ELSE 0)]
      BY <1>0, <2>1, <2>3, <2>4 DEF CoreTypes
    <3> QED
      BY <1>0, <2>3, <2>4, <3>1, UserPays DEF Solo
  <2> QED
    BY <2>3, <2>4, <2>5 DEF Lawful, Sets
<1> QED
  BY <1>1 DEF OverLimit, Reject, Discard, GateCancelled, PayUser, localVars

\* The worker passes the gate, and gives the gate's unit back.
LEMMA GateSteps ==
  ASSUME QueueInv, Good, Good', NEW r \in Requests, GateOpens(r) \/ ReleaseGate(r)
  PROVE  Solo(r) /\ Lawful(r)
<1> USE QueueAssumption
<1>0. /\ CoreTypes /\ redis /\ faults = 0 /\ faults' = 0 /\ Gate \in Keys
      /\ {"entered", "paying"} \subseteq Pcs
  BY DEF QueueInv, Good, Calm, Keys, Pcs
<1>1. CASE GateOpens(r)
  <2>1. /\ pc[r] = "gate" /\ count[Gate] < MaxGlobal /\ UNCHANGED queue
        /\ pc' = [pc EXCEPT ![r] = "entered"] /\ inst' = [inst EXCEPT ![r] = inst[r]]
        /\ count' = [count EXCEPT ![Gate] = @ + 1]
    BY <1>0, <1>1 DEF GateOpens, Goto, Incr, Bump, localVars, CoreTypes
  <2>2. count' \in [Keys -> Int] /\ inst[r] \in Instances \cup {None}
    BY <1>0, <2>1, BumpType DEF CoreTypes
  <2>3. Solo(r) /\ pc'[r] = "entered"
    BY <1>0, <2>1, <2>2, SoloTypes
  <2>4. /\ "gate" \notin Running /\ "gate" \in Counted /\ "gate" \in Admitted
        /\ "entered" \in Running /\ "entered" \in Counted
    BY DEF Running, Counted, Admitted, OnWorker
  <2>5. count' = [count EXCEPT ![Gate] = @ + (IF pc'[r] \in Running THEN 1 ELSE 0)
                                           - (IF pc[r] \in Running THEN 1 ELSE 0)]
    BY <1>0, <2>1, <2>3, <2>4 DEF CoreTypes
  <2>6. Pays(r)
    BY <1>0, <2>1, <2>3, <2>4, <2>5, GatePays DEF Solo
  <2>7. count'[Gate] <= MaxGlobal
    BY <1>0, <2>1 DEF CoreTypes
  <2> QED
    BY <2>1, <2>3, <2>4, <2>6, <2>7 DEF Lawful
<1>2. CASE ReleaseGate(r)
  <2>1. /\ pc[r] = "handled" /\ UNCHANGED queue
        /\ pc' = [pc EXCEPT ![r] = "paying"] /\ inst' = [inst EXCEPT ![r] = inst[r]]
        /\ count' = [count EXCEPT ![Gate] = @ + (-1)]
    BY <1>0, <1>2 DEF ReleaseGate, Goto, Decr, Bump, Fault, localVars, CoreTypes
  <2>2. count' \in [Keys -> Int] /\ inst[r] \in Instances \cup {None}
    BY <1>0, <2>1, BumpType DEF CoreTypes
  <2>3. Solo(r) /\ pc'[r] = "paying"
    BY <1>0, <2>1, <2>2, SoloTypes
  <2>4. /\ "handled" \in Running /\ "handled" \in Counted /\ "handled" \in Admitted
        /\ "paying" \notin Running /\ "paying" \in Counted
    BY DEF Running, Counted, Admitted, OnWorker
  <2>5. count' = [count EXCEPT ![Gate] = @ + (IF pc'[r] \in Running THEN 1 ELSE 0)
                                           - (IF pc[r] \in Running THEN 1 ELSE 0)]
    BY <1>0, <2>1, <2>3, <2>4 DEF CoreTypes
  <2>6. Pays(r)
    BY <1>0, <2>1, <2>3, <2>4, <2>5, GatePays DEF Solo
  <2> QED
    BY <2>1, <2>3, <2>4, <2>6 DEF Lawful
<1> QED
  BY <1>1, <1>2

\* The steps of the handler, between which no unit is taken or given back.
LEMMA HandlerSteps ==
  ASSUME QueueInv, Good, Good', NEW r \in Requests,
         ToGate(r) \/ StoppedByMarker(r) \/ Start(r) \/ Answer(r) \/ Return(r)
  PROVE  Solo(r) /\ Lawful(r)
<1>0. CoreTypes /\ redis /\ faults = 0 /\ faults' = 0
  BY DEF QueueInv, Good, Calm
<1>1. ASSUME NEW to \in {"gate", "preparing", "answering", "handled"},
             Goto(r, to), UNCHANGED <<queue, count>>,
             pc[r] \in {"taken", "entered", "preparing", "answering"},
             to = "gate" <=> pc[r] = "taken"
      PROVE  Solo(r) /\ Lawful(r)
  <2>1. pc' = [pc EXCEPT ![r] = to] /\ inst' = [inst EXCEPT ![r] = inst[r]]
    BY <1>0, <1>1 DEF Goto, CoreTypes
  <2>2. /\ count' \in [Keys -> Int] /\ inst[r] \in Instances \cup {None}
        /\ to \in Pcs /\ pc[r] # "queued"
    BY <1>0, <1>1 DEF CoreTypes, Pcs
  <2>3. Solo(r) /\ pc'[r] = to
    BY <1>0, <1>1, <2>1, <2>2, SoloTypes
  <2>4. /\ to \in Running <=> pc[r] \in Running
        /\ to \in Counted /\ pc[r] \in Counted /\ pc[r] \in Admitted
    BY <1>1 DEF Running, Counted, Admitted, OnWorker
  <2>5. Pays(r)
    BY <1>0, <1>1, <2>3, <2>4, StepsAside DEF Solo
  <2> QED
    BY <2>3, <2>4, <2>5 DEF Lawful
<1>2. CASE ToGate(r)
  BY <1>0, <1>1, <1>2 DEF ToGate, localVars, redisVars
<1>3. CASE StoppedByMarker(r)
  BY <1>0, <1>1, <1>3 DEF StoppedByMarker, localVars, redisVars
<1>4. CASE Start(r)
  BY <1>0, <1>1, <1>4 DEF Start, localVars, redisVars
<1>5. CASE Answer(r)
  BY <1>0, <1>1, <1>5 DEF Answer, localVars, redisVars
<1>6. CASE Return(r)
  <2>1. ASSUME pc[r] = "preparing" PROVE Solo(r) /\ Lawful(r)
    BY <1>0, <1>1, <1>6, <2>1 DEF Return, localVars, redisVars
  <2>2. ASSUME pc[r] = "answering" PROVE Solo(r) /\ Lawful(r)
    BY <1>0, <1>1, <1>6, <2>2 DEF Return, localVars, redisVars
  <2> QED
    BY <1>6, <2>1, <2>2 DEF Return
<1> QED
  BY <1>2, <1>3, <1>4, <1>5, <1>6

-----------------------------------------------------------------------------
(* The steps that change a queue                                            *)

\* A request joins the end of its instance's queue.
LEMMA QueueGrows ==
  ASSUME CoreTypes, QueueSound, NEW r \in Requests, Enqueue(r)
  PROVE  QueueSound'
<1> DEFINE i == inst[r]
<1>1. /\ pc[r] = "admitted" /\ pc' = [pc EXCEPT ![r] = "queued"] /\ UNCHANGED inst
      /\ queue' = [queue EXCEPT ![i] = Append(@, r)]
  BY DEF Enqueue, Goto
<1>2. ASSUME NEW j \in Instances, j # i
      PROVE  /\ queue'[j] = queue[j]
             /\ \A n \in 1 .. Len(queue[j]) : queue[j][n] \in Requests \ {r}
  BY <1>1, <1>2 DEF CoreTypes, QueueSound
<1>3. ASSUME i \in Instances
      PROVE  /\ Len(queue'[i]) = Len(queue[i]) + 1 /\ Len(queue[i]) \in Nat
             /\ queue'[i][Len(queue[i]) + 1] = r
             /\ \A n \in 1 .. Len(queue[i]) :
                  queue'[i][n] = queue[i][n] /\ queue[i][n] \in Requests \ {r}
  BY <1>1, <1>3 DEF CoreTypes, QueueSound
<1>4. ASSUME NEW j \in Instances, j # i
      PROVE  /\ \A n \in 1 .. Len(queue'[j]) : pc'[queue'[j][n]] = "queued" /\ inst'[queue'[j][n]] = j
             /\ \A m, n \in 1 .. Len(queue'[j]) : queue'[j][m] = queue'[j][n] => m = n
  BY <1>1, <1>2, <1>4 DEF CoreTypes, QueueSound
<1>5. ASSUME i \in Instances
      PROVE  /\ \A n \in 1 .. Len(queue'[i]) : pc'[queue'[i][n]] = "queued" /\ inst'[queue'[i][n]] = i
             /\ \A m, n \in 1 .. Len(queue'[i]) : queue'[i][m] = queue'[i][n] => m = n
  BY <1>1, <1>3, <1>5 DEF CoreTypes, QueueSound
<1> HIDE DEF i
<1> QED
  BY <1>4, <1>5 DEF QueueSound

\* A request joins its instance's queue.
LEMMA EnqueueSteps ==
  ASSUME QueueInv, Good, Good', NEW r \in Requests, Enqueue(r)
  PROVE  CoreTypes' /\ QueueSound' /\ Lawful(r)
<1>0. CoreTypes /\ QueueSound /\ redis
  BY DEF QueueInv, Good
<1> DEFINE i == inst[r]
<1>1. /\ pc[r] = "admitted" /\ pc' = [pc EXCEPT ![r] = "queued"] /\ UNCHANGED <<inst, count>>
      /\ queue' = [queue EXCEPT ![i] = Append(@, r)]
  BY DEF Enqueue, Goto, redisVars
<1>2. CoreTypes'
  <2>1. "queued" \in Pcs
    BY DEF Pcs
  <2>2. \A j \in Instances : queue'[j] \in Seq(Requests)
    BY <1>0, <1>1 DEF CoreTypes
  <2> QED
    BY <1>0, <1>1, <2>1, <2>2 DEF CoreTypes
<1>3. Lawful(r)
  <2>1. /\ "queued" \notin Running /\ "admitted" \notin Running
        /\ {"queued", "admitted"} \subseteq Admitted /\ {"queued", "admitted"} \subseteq Counted
    BY DEF Running, Counted, Admitted, OnWorker
  <2>2. pc'[r] = "queued" /\ \A q \in Requests \ {r} : pc'[q] = pc[q]
    BY <1>0, <1>1 DEF CoreTypes
  <2>3. Pays(r)
    BY <1>0, <1>1, <2>1, <2>2, StepsAside
  <2> QED
    BY <1>1, <2>1, <2>2, <2>3 DEF Lawful
<1>4. QueueSound'
  BY <1>0, QueueGrows
<1> QED
  BY <1>2, <1>3, <1>4

\* t is s without its n-th element.
Without(s, n, t) ==
  /\ Len(t) = Len(s) - 1
  /\ \A m \in 1 .. Len(t) : t[m] = s[IF m < n THEN m ELSE m + 1]

\* The tail of a queue.
LEMMA TailWithout ==
  ASSUME NEW s \in Seq(Requests), s # <<>>
  PROVE  Tail(s) \in Seq(Requests) /\ Without(s, 1, Tail(s)) /\ 1 \in 1 .. Len(s)
BY DEF Without

\* A queue without one of its requests.
LEMMA RemoveWithout ==
  ASSUME NEW s \in Seq(Requests), NEW n \in 1 .. Len(s)
  PROVE  RemoveAt(s, n) \in Seq(Requests) /\ Without(s, n, RemoveAt(s, n))
<1> DEFINE a == SubSeq(s, 1, n - 1)
           b == SubSeq(s, n + 1, Len(s))
<1>0. Len(s) \in Nat /\ n \in Int /\ 1 <= n /\ n <= Len(s)
  OBVIOUS
<1>1. /\ a \in Seq(Requests) /\ Len(a) = n - 1
      /\ \A m \in 1 .. n - 1 : a[m] = s[m]
  BY <1>0
<1>2. /\ b \in Seq(Requests) /\ Len(b) = Len(s) - n
      /\ \A m \in 1 .. Len(s) - n : b[m] = s[m + n]
  <2>1. \A k \in n + 1 .. Len(s) : s[k] \in Requests
    BY <1>0
  <2>2. n + 1 \in Int /\ (n + 1 <= Len(s) + 1)
    BY <1>0
  <2>3. b \in Seq(Requests)
    BY <1>0, <2>1, <2>2
  <2>4. Len(b) = Len(s) - n
    BY <1>0, <2>2
  <2>5. ASSUME NEW m \in 1 .. Len(s) - n PROVE b[m] = s[m + n]
    <3>1. b[m] = s[(n + 1) + m - 1] /\ (n + 1) + m - 1 = m + n
      BY <1>0, <2>5
    <3> QED
      BY <3>1
  <2> QED
    BY <2>3, <2>4, <2>5
<1>3. RemoveAt(s, n) = a \o b
  BY DEF RemoveAt
<1> HIDE DEF a, b
<1>4. a \o b \in Seq(Requests) /\ Len(a \o b) = Len(s) - 1
  <2>1. a \o b \in Seq(Requests) /\ Len(a \o b) = Len(a) + Len(b)
    BY <1>1, <1>2, ConcatProperties
  <2> QED
    BY <1>0, <1>1, <1>2, <2>1
<1>5. ASSUME NEW m \in 1 .. Len(s) - 1
      PROVE  (a \o b)[m] = s[IF m < n THEN m ELSE m + 1]
  <2>1. CASE m < n
    BY <1>0, <1>1, <1>2, <2>1
  <2>2. CASE ~(m < n)
    <3>1. (a \o b)[m] = b[m - (n - 1)]
      BY <1>0, <1>1, <1>2, <2>2
    <3>2. m - (n - 1) \in 1 .. Len(s) - n /\ (m - (n - 1)) + n = m + 1
      BY <1>0, <2>2
    <3> QED
      BY <1>2, <2>2, <3>1, <3>2
  <2> QED
    BY <2>1, <2>2
<1> QED
  BY <1>3, <1>4, <1>5 DEF Without

\* The n-th request leaves the queue of an instance.
LEMMA QueueShrinks ==
  ASSUME CoreTypes, QueueSound, NEW i \in Instances, NEW n \in 1 .. Len(queue[i]),
         NEW t \in Seq(Requests), Without(queue[i], n, t), queue' = [queue EXCEPT ![i] = t],
         \A q \in Requests \ {queue[i][n]} : pc'[q] = pc[q] /\ inst'[q] = inst[q]
  PROVE  QueueSound'
<1> DEFINE r == queue[i][n]
           At(m) == IF m < n THEN m ELSE m + 1
<1>1. queue[i] \in Seq(Requests) /\ Len(queue[i]) \in Nat /\ n \in Int
  BY DEF CoreTypes
<1>2. ASSUME NEW j \in Instances, j # i
      PROVE  /\ \A m \in 1 .. Len(queue'[j]) : pc'[queue'[j][m]] = "queued" /\ inst'[queue'[j][m]] = j
             /\ \A l, m \in 1 .. Len(queue'[j]) : queue'[j][l] = queue'[j][m] => l = m
  <2>1. queue'[j] = queue[j] /\ inst[r] = i
    BY <1>1, <1>2 DEF CoreTypes, QueueSound
  <2>2. \A m \in 1 .. Len(queue[j]) : queue[j][m] \in Requests \ {r}
    BY <1>2, <2>1 DEF CoreTypes, QueueSound
  <2> QED
    BY <1>2, <2>1, <2>2 DEF QueueSound
<1>3. queue'[i] = t /\ Len(t) = Len(queue[i]) - 1
  BY DEF CoreTypes, Without
<1>4. \A m \in 1 .. Len(t) : /\ At(m) \in 1 .. Len(queue[i]) /\ At(m) # n
                             /\ t[m] = queue[i][At(m)]
  BY <1>1, <1>3 DEF Without
<1>5. \A l, m \in 1 .. Len(t) : At(l) = At(m) => l = m
  BY <1>1, <1>3
<1> HIDE DEF At
<1>6. \A m \in 1 .. Len(t) : t[m] \in Requests \ {r} /\ pc[t[m]] = "queued" /\ inst[t[m]] = i
  BY <1>1, <1>4 DEF QueueSound
<1>7. ASSUME NEW l \in 1 .. Len(t), NEW m \in 1 .. Len(t), t[l] = t[m]
      PROVE  l = m
  <2>1. queue[i][At(l)] = queue[i][At(m)]
    BY <1>4, <1>7
  <2>2. \A a, b \in 1 .. Len(queue[i]) : queue[i][a] = queue[i][b] => a = b
    BY DEF QueueSound
  <2>3. At(l) = At(m)
    BY <1>4, <2>1, <2>2
  <2> QED
    BY <1>5, <2>3
<1> QED
  BY <1>2, <1>3, <1>6, <1>7 DEF QueueSound

\* A worker takes the head of its queue.
LEMMA DequeueSteps ==
  ASSUME QueueInv, Good, Good', NEW r \in Requests, Dequeue(r)
  PROVE  CoreTypes' /\ QueueSound' /\ Lawful(r)
<1>0. CoreTypes /\ QueueSound
  BY DEF QueueInv
<1> DEFINE i == inst[r]
<1>1. /\ pc[r] = "queued" /\ pc' = [pc EXCEPT ![r] = "taken"] /\ UNCHANGED <<inst, count>>
      /\ queue' = [queue EXCEPT ![i] = Tail(queue[i])] /\ r = Head(queue[i])
      /\ i \in Instances /\ queue[i] # <<>>
  BY DEF Dequeue, Goto, redisVars
<1>2. /\ queue[i] \in Seq(Requests) /\ Tail(queue[i]) \in Seq(Requests)
      /\ Without(queue[i], 1, Tail(queue[i])) /\ 1 \in 1 .. Len(queue[i]) /\ r = queue[i][1]
  BY <1>0, <1>1, TailWithout DEF CoreTypes
<1>3. CoreTypes'
  <2>1. "taken" \in Pcs
    BY DEF Pcs
  <2> QED
    BY <1>0, <1>1, <1>2, <2>1 DEF CoreTypes
<1>4. pc'[r] = "taken" /\ \A q \in Requests \ {r} : pc'[q] = pc[q] /\ inst'[q] = inst[q]
  BY <1>0, <1>1 DEF CoreTypes
<1>5. QueueSound'
  <2>1. \A q \in Requests \ {queue[i][1]} : pc'[q] = pc[q] /\ inst'[q] = inst[q]
    BY <1>2, <1>4
  <2>2. /\ i \in Instances /\ 1 \in 1 .. Len(queue[i]) /\ Tail(queue[i]) \in Seq(Requests)
        /\ Without(queue[i], 1, Tail(queue[i])) /\ queue' = [queue EXCEPT ![i] = Tail(queue[i])]
    BY <1>1, <1>2
  <2> HIDE DEF i
  <2> QED
    BY <1>0, <2>1, <2>2, QueueShrinks
<1>6. Lawful(r)
  <2>1. /\ "queued" \notin Running /\ "taken" \notin Running
        /\ {"queued", "taken"} \subseteq Admitted /\ {"queued", "taken"} \subseteq Counted
    BY DEF Running, Counted, Admitted, OnWorker
  <2>2. Pays(r)
    BY <1>0, <1>1, <1>4, <2>1, StepsAside
  <2> QED
    BY <1>1, <1>4, <2>1, <2>2 DEF Lawful
<1> QED
  BY <1>3, <1>5, <1>6

\* A /stop takes the n-th request of an instance, and gives its unit back.
LEMMA TakeSteps ==
  ASSUME QueueInv, Good, Good', NEW s \in Stops, NEW i \in Instances,
         NEW n \in 1 .. Len(queue[i]), UserOf[queue[i][n]] = UserOf[s],
         Take(i, n), Decr(UserOf[s])
  PROVE  CoreTypes' /\ QueueSound' /\ queue[i][n] \in Requests /\ Lawful(queue[i][n])
<1>0. CoreTypes /\ QueueSound /\ faults = 0 /\ faults' = 0
  BY DEF QueueInv, Good, Calm
<1> DEFINE r == queue[i][n]
<1>1. r \in Requests /\ pc[r] = "queued" /\ inst[r] = i /\ queue[i] \in Seq(Requests)
  BY <1>0 DEF CoreTypes, QueueSound
<1>2. /\ pc' = [pc EXCEPT ![r] = "dropped"] /\ inst' = [inst EXCEPT ![r] = None]
      /\ queue' = [queue EXCEPT ![i] = RemoveAt(queue[i], n)]
      /\ count' = [count EXCEPT ![UserOf[r]] = @ + (-1)]
  BY <1>0 DEF Take, End, Decr, Bump, Fault
<1>3. /\ RemoveAt(queue[i], n) \in Seq(Requests)
      /\ Without(queue[i], n, RemoveAt(queue[i], n))
  BY <1>1, RemoveWithout
<1>4. CoreTypes'
  <2>1. "dropped" \in Pcs /\ UserOf[r] \in Keys
    BY <1>1, QueueAssumption DEF Pcs, Keys
  <2>2. count' \in [Keys -> Int]
    BY <1>0, <1>2, <2>1, BumpType
  <2> QED
    BY <1>0, <1>1, <1>2, <1>3, <2>1, <2>2 DEF CoreTypes
<1>5. pc'[r] = "dropped" /\ \A q \in Requests \ {r} : pc'[q] = pc[q] /\ inst'[q] = inst[q]
  BY <1>0, <1>1, <1>2 DEF CoreTypes
<1>6. QueueSound'
  BY <1>0, <1>2, <1>3, <1>5, QueueShrinks
<1>7. Lawful(r)
  <2>1. /\ "queued" \notin Running /\ "dropped" \notin Running /\ "dropped" \notin Admitted
        /\ "queued" \in Counted /\ "dropped" \notin Counted
    BY DEF Running, Counted, Admitted, OnWorker
  <2>2. count' = [count EXCEPT ![UserOf[r]] = @ + (IF pc'[r] \in Counted THEN 1 ELSE 0)
                                                - (IF pc[r] \in Counted THEN 1 ELSE 0)]
    <3>1. UserOf[r] \in Keys
      BY <1>1, QueueAssumption DEF Keys
    <3> HIDE DEF r
    <3> QED
      BY <1>0, <1>1, <1>2, <1>5, <2>1, <3>1 DEF CoreTypes
  <2> HIDE DEF r
  <2>3. Pays(r)
    BY <1>0, <1>1, <1>5, <2>1, <2>2, UserPays
  <2> QED
    BY <1>5, <2>1, <2>3 DEF Lawful
<1> QED
  BY <1>1, <1>4, <1>6, <1>7

-----------------------------------------------------------------------------
(* The invariant                                                            *)

\* A step of one request that keeps the queue's bookkeeping keeps everything.
LEMMA OneRequest ==
  ASSUME QueueInv, Good, NEW r \in Requests, Lawful(r), faults' \in Nat,
         (CoreTypes' /\ QueueSound') \/ Solo(r)
  PROVE  QueueInv'
<1>1. CoreTypes /\ QueueSound /\ Counts
  BY DEF QueueInv
<1>2. CoreTypes' /\ QueueSound'
  <2>1. CASE Solo(r)
    <3>1. CoreTypes'
      BY <2>1 DEF Solo
    <3>2. QueueSound'
      BY <1>1, <2>1, SoloKeepsQueues
    <3> QED
      BY <3>1, <3>2
  <2> QED
    BY <2>1
<1>3. Counts'
  BY <1>1, LawfulKeeps
<1> QED
  BY <1>2, <1>3 DEF QueueInv

\* A step that changes nothing of this keeps the invariant.
LEMMA NothingCounted ==
  ASSUME UNCHANGED <<pc, inst, queue, count, redis, faults>>, QueueInv
  PROVE  QueueInv'
<1>1. CASE Good
  <2>1. CoreTypes' /\ QueueSound'
    BY <1>1 DEF QueueInv, CoreTypes, QueueSound
  <2>2. Counts'
    BY <1>1, QuietKeeps DEF QueueInv
  <2> QED
    BY <2>1, <2>2 DEF QueueInv
<1>2. CASE ~Good
  BY <1>2 DEF QueueInv, Good, Calm
<1> QED
  BY <1>1, <1>2

\* A counter that is counted on expires only as a fault.
LEMMA ExpiryIsAFault ==
  ASSUME QueueInv, Good, NEW k \in Keys, Expire(k)
  PROVE  ~Good'
<1>1. count[k] # 0 /\ count[k] = Cardinality(Units(k)) /\ faults \in Nat
  BY DEF QueueInv, Counts, Expire
<1>2. Units(k) # {}
  BY <1>1, FS_EmptySet
<1>3. faults' = faults + 1
  BY <1>2 DEF Expire, Fault
<1> QED
  BY <1>1, <1>3 DEF Good, Calm

\* What happens of itself, with the types of the fault counter.
LEMMA FaultsGrow ==
  ASSUME faults \in Nat, [Next]_vars
  PROVE  faults' \in Nat /\ faults <= faults' /\ redis' = redis
<1>1. CASE UNCHANGED vars
  BY <1>1 DEF vars
<1>2. ASSUME NEW r \in Requests, NEW i \in Instances, Arrive(r, i) \/ ArriveUncounted(r, i)
      PROVE  faults' \in Nat /\ faults <= faults' /\ redis' = redis
  BY <1>2 DEF Arrive, ArriveUncounted, ArriveAt, NoRedis, Fault
<1>3. ASSUME NEW r \in Requests, Progress(r) \/ GateCancelled(r)
      PROVE  faults' \in Nat /\ faults <= faults' /\ redis' = redis
  <2>1. (NoRedis \/ Decr(UserOf[r]) \/ Decr(Gate) \/ DecrUser(r) \/ Fault \/ UNCHANGED faults)
        /\ redis' = redis
    BY <1>3 DEF Progress, GateCancelled, OverLimit, Reject, RejectLocal, Enqueue, Dequeue,
      Discard, ToGate, GateOpens, GateShut, GateFailsOpen, StoppedByMarker, Start, Answer,
      Return, ReleaseGate, PayUser
  <2> QED
    BY <2>1 DEF NoRedis, Decr, DecrUser, Fault
<1>4. ASSUME NEW s \in Stops, StopNext(s)
      PROVE  faults' \in Nat /\ faults <= faults' /\ redis' = redis
  <2>1. CASE \E i \in Instances : StopHere(s, i)
    BY <2>1 DEF StopHere, Removed, CancelledHere, NoRedis, Decr, Fault
  <2>2. CASE StopElsewhere(s) \/ StopMark(s)
    BY <2>2 DEF StopElsewhere, StopMark, Fault
  <2> QED
    BY <1>4, <2>1, <2>2 DEF StopNext
<1>5. ASSUME NEW u \in Users, MarkerExpires(u)
      PROVE  faults' \in Nat /\ faults <= faults' /\ redis' = redis
  BY <1>5 DEF MarkerExpires
<1>6. ASSUME NEW k \in Keys, Expire(k)
      PROVE  faults' \in Nat /\ faults <= faults' /\ redis' = redis
  BY <1>6 DEF Expire, Fault
<1>7. ASSUME NEW i \in Instances, Shutdown(i) \/ Crash(i)
      PROVE  faults' \in Nat /\ faults <= faults' /\ redis' = redis
  BY <1>7 DEF Shutdown, Crash, Fault
<1> QED
  BY <1>1, <1>2, <1>3, <1>4, <1>5, <1>6, <1>7 DEF Next

\* The invariant holds at the start,
LEMMA InitHolds == Init => QueueInv
<1> SUFFICES ASSUME Init PROVE QueueInv
  OBVIOUS
<1>1. CoreTypes
  <2>1. "new" \in Pcs /\ <<>> \in Seq(Requests)
    BY DEF Pcs
  <2> QED
    BY <2>1 DEF Init, CoreTypes
<1>2. QueueSound
  BY DEF Init, QueueSound
<1>3. \A k : Units(k) = {}
  BY DEF Init, Units, Running, Counted, Admitted, OnWorker
<1>4. Counts
  <2>1. Cardinality({}) = 0
    BY FS_EmptySet
  <2>2. \A k \in Keys : count[k] = 0
    BY DEF Init
  <2>3. MaxGlobal \in Nat /\ MaxPerUser \in Nat
    BY QueueAssumption
  <2>4. ASSUME NEW u \in Users PROVE UserLimit(u)
    <3>1. {r \in Units(u) : pc[r] # "over"} = {}
      BY <1>3
    <3> QED
      BY <2>1, <2>3, <3>1 DEF UserLimit
  <2>5. \A k : Cardinality(Units(k)) = 0
    BY <1>3, <2>1
  <2>6. \A k \in Keys : count[k] = Cardinality(Units(k))
    BY <2>2, <2>5
  <2>7. Cardinality(Units(Gate)) <= MaxGlobal
    BY <2>3, <2>5
  <2> QED
    BY <2>4, <2>6, <2>7 DEF Counts
<1> QED
  BY <1>1, <1>2, <1>4 DEF Init, QueueInv

\* and every step keeps it.
LEMMA NextHolds == QueueInv /\ [Next]_vars => QueueInv'
<1> SUFFICES ASSUME QueueInv, [Next]_vars PROVE QueueInv'
  OBVIOUS
<1>0. faults \in Nat /\ faults' \in Nat /\ (Good' => Good)
  BY FaultsGrow DEF QueueInv, Good, Calm
<1>1. CASE ~Good'
  BY <1>0, <1>1 DEF QueueInv, Good, Calm
<1> SUFFICES ASSUME Good' PROVE QueueInv'
  BY <1>1
<1>2. Good /\ redis /\ faults = 0 /\ faults' = 0
  BY <1>0 DEF Good, Calm
<1>3. CASE UNCHANGED vars
  BY <1>3, NothingCounted DEF vars, reqVars, localVars, redisVars
<1>4. ASSUME NEW r \in Requests, NEW i \in Instances, Arrive(r, i) \/ ArriveUncounted(r, i)
      PROVE  QueueInv'
  <2>1. ~ArriveUncounted(r, i)
    BY <1>2 DEF ArriveUncounted, Fault
  <2>2. Solo(r) /\ Lawful(r)
    BY <1>2, <1>4, <2>1, ArriveSteps
  <2> QED
    BY <1>0, <1>2, <2>2, OneRequest
<1>5. ASSUME NEW r \in Requests, Progress(r) \/ GateCancelled(r)
      PROVE  QueueInv'
  <2>1. CASE OverLimit(r) \/ Reject(r) \/ Discard(r) \/ GateCancelled(r) \/ PayUser(r)
    <3>1. Solo(r) /\ Lawful(r)
      BY <1>2, <2>1, EndSteps
    <3> QED
      BY <1>0, <1>2, <3>1, OneRequest
  <2>2. CASE ToGate(r) \/ StoppedByMarker(r) \/ Start(r) \/ Answer(r) \/ Return(r)
    <3>1. Solo(r) /\ Lawful(r)
      BY <1>2, <2>2, HandlerSteps
    <3> QED
      BY <1>0, <1>2, <3>1, OneRequest
  <2>3. CASE GateOpens(r) \/ ReleaseGate(r)
    <3>1. Solo(r) /\ Lawful(r)
      BY <1>2, <2>3, GateSteps
    <3> QED
      BY <1>0, <1>2, <3>1, OneRequest
  <2>4. CASE Enqueue(r)
    <3>1. CoreTypes' /\ QueueSound' /\ Lawful(r)
      BY <1>2, <2>4, EnqueueSteps
    <3> QED
      BY <1>0, <1>2, <3>1, OneRequest
  <2>5. CASE Dequeue(r)
    <3>1. CoreTypes' /\ QueueSound' /\ Lawful(r)
      BY <1>2, <2>5, DequeueSteps
    <3> QED
      BY <1>0, <1>2, <3>1, OneRequest
  <2>6. CASE GateShut(r)
    BY <2>6, NothingCounted DEF GateShut, reqVars, localVars
  <2>7. ~RejectLocal(r) /\ ~GateFailsOpen(r)
    BY <1>2 DEF RejectLocal, OverLocal, GateFailsOpen, Fault
  <2> QED
    BY <1>5, <2>1, <2>2, <2>3, <2>4, <2>5, <2>6, <2>7 DEF Progress
<1>6. ASSUME NEW s \in Stops, StopNext(s) PROVE QueueInv'
  <2>1. ASSUME NEW i \in Instances, StopHere(s, i) PROVE QueueInv'
    <3>1. CASE Removed(s, i)
      <4>1. PICK n \in Waiting(i, UserOf[s]) : Take(i, n)
        BY <3>1 DEF Removed
      <4>2. n \in 1 .. Len(queue[i]) /\ UserOf[queue[i][n]] = UserOf[s]
        <5>1. queue[i] \in Seq(Requests)
          BY <1>2 DEF QueueInv, CoreTypes
        <5> QED
          BY <5>1 DEF Waiting
      <4>3. Decr(UserOf[s])
        BY <1>2, <3>1 DEF Removed
      <4>4. /\ CoreTypes' /\ QueueSound' /\ queue[i][n] \in Requests /\ Lawful(queue[i][n])
        BY <1>2, <4>1, <4>2, <4>3, TakeSteps
      <4> QED
        BY <1>0, <1>2, <4>4, OneRequest
    <3>2. CASE CancelledHere(s, i)
      BY <2>1, <3>2, NothingCounted DEF StopHere, CancelledHere, reqVars, localVars, redisVars
    <3> QED
      BY <2>1, <3>1, <3>2 DEF StopHere
  <2>2. CASE StopElsewhere(s) \/ StopMark(s)
    BY <1>2, <2>2, NothingCounted DEF StopElsewhere, StopMark, reqVars, localVars, redisVars
  <2> QED
    BY <1>6, <2>1, <2>2 DEF StopNext
<1>7. ASSUME NEW u \in Users, MarkerExpires(u) PROVE QueueInv'
  BY <1>7, NothingCounted DEF MarkerExpires, reqVars, localVars, redisVars
<1>8. ASSUME NEW k \in Keys, Expire(k) PROVE QueueInv'
  BY <1>2, <1>8, ExpiryIsAFault
<1>9. ASSUME NEW i \in Instances, Shutdown(i) \/ Crash(i) PROVE QueueInv'
  <2>1. ~Crash(i)
    BY <1>2 DEF Crash, Fault
  <2> QED
    BY <1>9, <2>1, NothingCounted DEF Shutdown, reqVars, localVars, redisVars
<1> QED
  BY <1>3, <1>4, <1>5, <1>6, <1>7, <1>8, <1>9 DEF Next

\* Every state is one the invariant describes, as long as nothing fails.
THEOREM InvHolds == Spec => []QueueInv
<1>1. Init => QueueInv
  BY InitHolds
<1>2. QueueInv /\ [Next]_vars => QueueInv'
  BY NextHolds
<1> QED
  BY <1>1, <1>2, PTL DEF Spec

\* In a calm run with Redis every counter is the number of requests that will
\* still give its unit back (qaqueue.go:137-265), however many there are.
THEOREM UnitsAreConserved == Spec => []CountersExact
<1>1. QueueInv => CountersExact
  BY DEF QueueInv, Good, Counts, CountersExact
<1> QED
  BY <1>1, InvHolds, PTL

\* Both limits of the multi-instance mode hold (qaqueue.go:300-375).
THEOREM LimitsHold == Spec => []GlobalLimits
<1>1. QueueInv => GlobalLimits
  BY DEF QueueInv, Good, Counts, UserLimit, GlobalLimits
<1> QED
  BY <1>1, InvHolds, PTL

-----------------------------------------------------------------------------
(* Queues and registry, faults or not                                       *)

\* What every variable is a function of; a local count is a number at least.
Shapes ==
  /\ redis \in BOOLEAN
  /\ state \in [Instances -> {"up", "closed", "down"}]
  /\ CoreTypes
  /\ perUser \in [Instances -> [Users -> Int]]
  /\ expires \in [Keys -> BOOLEAN]
  /\ inflight \in [Instances -> [Users -> Entries \cup {None}]]
  /\ mapping \in [Users -> Requests \cup {None}]
  /\ marker \in [Users -> (SUBSET Requests) \cup {None}]
  /\ stop \in [Stops -> {"new", "looking", "marking", "done"}]
  /\ meant \in [Stops -> SUBSET Requests]
  /\ strays \subseteq Requests
  /\ faults \in 0 .. MaxFaults

\* A request on its way is on an instance.
Placed == \A r \in Requests : pc[r] \in Counted => inst[r] \in Instances

Shaped == Shapes /\ Placed

\* Where users are looked up.
LEMMA UsersKnown ==
  /\ \A r \in Requests : UserOf[r] \in Users
  /\ \A s \in Stops : UserOf[s] \in Users
  /\ Users \subseteq Keys /\ Gate \in Keys /\ Gate \notin Users
BY QueueAssumption DEF Keys

\* What the calls to Redis return, executed or not.
LEMMA RedisTypes ==
  ASSUME Shapes, NEW k \in Keys,
         NoRedis \/ Decr(k) \/ (Incr(k) /\ UNCHANGED faults)
           \/ (Fault /\ (Bump(k, 1) \/ UNCHANGED count) /\ UNCHANGED expires)
  PROVE  count' \in [Keys -> Int] /\ expires' \in [Keys -> BOOLEAN] /\ faults' \in 0 .. MaxFaults
<1> USE QueueAssumption DEF Shapes, CoreTypes
<1>1. CASE NoRedis
  BY <1>1 DEF NoRedis
<1>2. CASE Decr(k)
  BY <1>2 DEF Decr, Fault, Bump
<1>3. CASE Incr(k) /\ UNCHANGED faults
  BY <1>3 DEF Incr, Bump
<1>4. CASE Fault /\ (Bump(k, 1) \/ UNCHANGED count) /\ UNCHANGED expires
  BY <1>4 DEF Fault, Bump
<1> QED
  BY <1>1, <1>2, <1>3, <1>4

\* A request that goes from one place to another.
LEMMA MoveTypes ==
  ASSUME Shaped, NEW r \in Requests, NEW to \in Pcs, NEW where \in Instances \cup {None},
         pc' = [pc EXCEPT ![r] = to], inst' = [inst EXCEPT ![r] = where],
         to \in Counted => where \in Instances
  PROVE  pc' \in [Requests -> Pcs] /\ inst' \in [Requests -> Instances \cup {None}] /\ Placed'
BY DEF Shaped, Shapes, CoreTypes, Placed

\* A request goes to another place of its instance.
LEMMA GotoTypes ==
  ASSUME Shaped, NEW r \in Requests, NEW to \in Pcs, Goto(r, to), pc[r] \in Counted
  PROVE  pc' \in [Requests -> Pcs] /\ inst' \in [Requests -> Instances \cup {None}] /\ Placed'
BY DEF Shaped, Shapes, CoreTypes, Placed, Goto

\* A request comes to its end.
LEMMA EndTypes ==
  ASSUME Shaped, NEW r \in Requests, NEW how \in Ended, End(r, how)
  PROVE  pc' \in [Requests -> Pcs] /\ inst' \in [Requests -> Instances \cup {None}] /\ Placed'
<1>1. how \in Pcs /\ how \notin Counted
  BY DEF Ended, Pcs, Counted, Admitted, OnWorker, Running
<1> QED
  BY <1>1, MoveTypes DEF End

\* The steps of a message that comes in,
LEMMA ArriveShapes ==
  ASSUME Shaped, NEW r \in Requests, NEW i \in Instances, Arrive(r, i) \/ ArriveUncounted(r, i)
  PROVE  Shaped'
<1> USE UsersKnown
<1>1. PICK to \in {"over", "admitted"} : ArriveAt(r, i, to)
  BY DEF Arrive, ArriveUncounted
<1>2. pc' \in [Requests -> Pcs] /\ inst' \in [Requests -> Instances \cup {None}] /\ Placed'
  <2>1. to \in Pcs
    BY <1>1 DEF Pcs
  <2> QED
    BY <1>1, <2>1, MoveTypes DEF ArriveAt
<1>3. count' \in [Keys -> Int] /\ expires' \in [Keys -> BOOLEAN] /\ faults' \in 0 .. MaxFaults
  BY RedisTypes DEF Shaped, Arrive, ArriveUncounted
<1> QED
  BY <1>1, <1>2, <1>3
  DEF Shaped, Shapes, CoreTypes, ArriveAt, localVars, flightVars, stopVars

\* of a request that ends without running,
LEMMA EndShapes ==
  ASSUME Shaped, NEW r \in Requests,
         OverLimit(r) \/ Reject(r) \/ RejectLocal(r) \/ Discard(r) \/ GateCancelled(r) \/ PayUser(r)
  PROVE  Shaped'
<1> USE UsersKnown
<1>1. pc' \in [Requests -> Pcs] /\ inst' \in [Requests -> Instances \cup {None}] /\ Placed'
  BY EndTypes DEF OverLimit, Reject, RejectLocal, Discard, GateCancelled, PayUser, Ended
<1>2. count' \in [Keys -> Int] /\ expires' \in [Keys -> BOOLEAN] /\ faults' \in 0 .. MaxFaults
  <2>1. DecrUser(r) \/ NoRedis
    BY DEF OverLimit, Reject, RejectLocal, Discard, GateCancelled, PayUser, NoRedis, redisVars
  <2> QED
    BY <2>1, RedisTypes DEF Shaped, DecrUser
<1> QED
  BY <1>1, <1>2 DEF Shaped, Shapes, CoreTypes, OverLimit, Reject, RejectLocal, Discard,
    GateCancelled, PayUser, localVars, flightVars, stopVars

\* of a worker at the gate,
LEMMA GateShapes ==
  ASSUME Shaped, NEW r \in Requests,
         ToGate(r) \/ GateOpens(r) \/ GateShut(r) \/ GateFailsOpen(r) \/ ReleaseGate(r)
  PROVE  Shaped'
<1> USE UsersKnown
<1>1. pc' \in [Requests -> Pcs] /\ inst' \in [Requests -> Instances \cup {None}] /\ Placed'
  <2>1. CASE GateShut(r)
    BY <2>1 DEF GateShut, reqVars, Shaped, Shapes, CoreTypes, Placed
  <2>2. CASE ~GateShut(r)
    <3>1. PICK to \in {"gate", "entered", "paying"} : Goto(r, to)
      BY <2>2 DEF ToGate, GateOpens, GateFailsOpen, ReleaseGate
    <3>2. to \in Pcs /\ pc[r] \in Counted
      BY <2>2, <3>1 DEF Pcs, ToGate, GateOpens, GateFailsOpen, ReleaseGate, Counted, Admitted,
        OnWorker, Running
    <3> QED
      BY <3>1, <3>2, GotoTypes
  <2> QED
    BY <2>1, <2>2
<1>2. count' \in [Keys -> Int] /\ expires' \in [Keys -> BOOLEAN] /\ faults' \in 0 .. MaxFaults
  <2>1. CASE ToGate(r) \/ GateOpens(r) \/ ReleaseGate(r)
    BY <2>1, RedisTypes DEF Shaped, ToGate, GateOpens, ReleaseGate, NoRedis, redisVars
  <2>2. CASE GateShut(r)
    BY <2>2 DEF Shaped, Shapes, CoreTypes, GateShut
  <2>3. CASE GateFailsOpen(r)
    <3>1. Incr(Gate) \/ UNCHANGED redisVars
      BY <2>3 DEF GateFailsOpen
    <3>2. count' \in [Keys -> Int] /\ expires' \in [Keys -> BOOLEAN]
      <4>1. CASE Incr(Gate)
        BY <4>1 DEF Shaped, Shapes, CoreTypes, Incr, Bump
      <4>2. CASE UNCHANGED redisVars
        BY <4>2 DEF Shaped, Shapes, CoreTypes, redisVars
      <4> QED
        BY <3>1, <4>1, <4>2
    <3>3. faults' \in 0 .. MaxFaults
      BY <2>3, QueueAssumption DEF Shaped, Shapes, GateFailsOpen, Fault
    <3> QED
      BY <3>2, <3>3
  <2> QED
    BY <2>1, <2>2, <2>3
<1> QED
  BY <1>1, <1>2 DEF Shaped, Shapes, CoreTypes, ToGate, GateOpens, GateShut, GateFailsOpen,
    ReleaseGate, localVars, flightVars, stopVars

\* of the handler,
LEMMA HandlerShapes ==
  ASSUME Shaped, NEW r \in Requests,
         StoppedByMarker(r) \/ Start(r) \/ Answer(r) \/ Return(r)
  PROVE  Shaped'
<1> USE UsersKnown
<1> DEFINE u == UserOf[r]
           i == inst[r]
<1>0. /\ pc[r] \in {"entered", "preparing", "answering"}
      /\ pc[r] \in Counted /\ i \in Instances /\ u \in Users
  BY DEF StoppedByMarker, Start, Answer, Return, Counted, Admitted, OnWorker, Running, Shaped, Placed
<1>1. pc' \in [Requests -> Pcs] /\ inst' \in [Requests -> Instances \cup {None}] /\ Placed'
  <2>1. PICK to \in {"preparing", "answering", "handled"} : Goto(r, to)
    BY DEF StoppedByMarker, Start, Answer, Return
  <2>2. to \in Pcs
    BY <2>1 DEF Pcs
  <2> QED
    BY <1>0, <2>1, <2>2, GotoTypes
<1>2. inflight' \in [Instances -> [Users -> Entries \cup {None}]]
  <2>1. ASSUME NEW e \in Entries \cup {None}, Register(r, e)
        PROVE  inflight' \in [Instances -> [Users -> Entries \cup {None}]]
    BY <1>0, <2>1 DEF Register, Shaped, Shapes
  <2>2. CASE StoppedByMarker(r) \/ Return(r)
    BY <2>1, <2>2 DEF StoppedByMarker, Return
  <2>3. CASE Start(r)
    <3>1. [req |-> r, msg |-> None] \in Entries
      BY DEF Entries
    <3> QED
      BY <2>1, <2>3, <3>1 DEF Start
  <2>4. CASE Answer(r)
    <3>1. CASE inflight[i][u] = None
      BY <1>0, <2>4, <3>1 DEF Answer, Shaped, Shapes
    <3>2. CASE inflight[i][u] # None
      <4>1. inflight[i][u] \in Entries
        BY <1>0, <3>2 DEF Shaped, Shapes
      <4>2. [inflight[i][u] EXCEPT !.msg = r] \in Entries
        BY <4>1 DEF Entries
      <4>3. inflight' = [inflight EXCEPT ![i] = [inflight[i] EXCEPT ![u] = [inflight[i][u] EXCEPT !.msg = r]]]
        BY <2>4, <3>2 DEF Answer
      <4> HIDE DEF i, u
      <4> QED
        BY <1>0, <4>2, <4>3 DEF Shaped, Shapes
    <3> QED
      BY <3>1, <3>2
  <2> QED
    BY <2>2, <2>3, <2>4
<1>3. mapping' \in [Users -> Requests \cup {None}]
  BY DEF Shaped, Shapes, StoppedByMarker, Start, Answer, Return
<1>4. marker' \in [Users -> (SUBSET Requests) \cup {None}] /\ strays' \subseteq Requests
  BY DEF Shaped, Shapes, StoppedByMarker, Start, Answer, Return, stopVars
<1>5. faults' \in 0 .. MaxFaults
  BY QueueAssumption DEF Shaped, Shapes, StoppedByMarker, Start, Answer, Return, Fault
<1> HIDE DEF i, u
<1> QED
  BY <1>1, <1>2, <1>3, <1>4, <1>5 DEF Shaped, Shapes, CoreTypes, StoppedByMarker, Start, Answer,
    Return, localVars, redisVars, stopVars

\* A queue and a local count that change, with one request.
LEMMA LocalTypes ==
  ASSUME Shapes, NEW i \in Instances, NEW u \in Users, NEW d \in {-1, 1}, NEW t \in Seq(Requests),
         queue' = [queue EXCEPT ![i] = t], Local(i, u, d)
  PROVE  queue' \in [Instances -> Seq(Requests)] /\ perUser' \in [Instances -> [Users -> Int]]
BY DEF Shapes, CoreTypes, Local

\* of a request that joins its queue,
LEMMA EnqueueShapes ==
  ASSUME Shaped, NEW r \in Requests, Enqueue(r)
  PROVE  Shaped'
<1>1. pc[r] \in Counted /\ inst[r] \in Instances /\ "queued" \in Pcs /\ UserOf[r] \in Users
  BY UsersKnown DEF Enqueue, Counted, Admitted, OnWorker, Shaped, Placed, Pcs
<1>2. pc' \in [Requests -> Pcs] /\ inst' \in [Requests -> Instances \cup {None}] /\ Placed'
  BY <1>1, GotoTypes DEF Enqueue
<1>3. Append(queue[inst[r]], r) \in Seq(Requests)
  BY <1>1 DEF Shaped, Shapes, CoreTypes
<1>4. queue' \in [Instances -> Seq(Requests)] /\ perUser' \in [Instances -> [Users -> Int]]
  BY <1>1, <1>3, LocalTypes DEF Enqueue, Shaped
<1> QED
  BY <1>2, <1>4 DEF Enqueue, Shaped, Shapes, CoreTypes, redisVars, flightVars, stopVars

\* of a worker that takes one,
LEMMA DequeueShapes ==
  ASSUME Shaped, NEW r \in Requests, Dequeue(r)
  PROVE  Shaped'
<1>1. pc[r] \in Counted /\ inst[r] \in Instances /\ "taken" \in Pcs /\ UserOf[r] \in Users
  BY UsersKnown DEF Dequeue, Counted, Admitted, Pcs
<1>2. pc' \in [Requests -> Pcs] /\ inst' \in [Requests -> Instances \cup {None}] /\ Placed'
  BY <1>1, GotoTypes DEF Dequeue
<1>3. Tail(queue[inst[r]]) \in Seq(Requests)
  BY <1>1 DEF Dequeue, Shaped, Shapes, CoreTypes
<1>4. queue' \in [Instances -> Seq(Requests)] /\ perUser' \in [Instances -> [Users -> Int]]
  BY <1>1, <1>3, LocalTypes DEF Dequeue, Shaped
<1> QED
  BY <1>2, <1>4 DEF Dequeue, Shaped, Shapes, CoreTypes, redisVars, flightVars, stopVars

\* of a /stop,
LEMMA StopShapes ==
  ASSUME Shaped, NEW s \in Stops, StopNext(s)
  PROVE  Shaped'
<1> USE UsersKnown
<1>1. ASSUME NEW i \in Instances, StopHere(s, i) PROVE Shaped'
  <2>0. UNCHANGED <<redis, state, marker, strays>> /\ meant' \in [Stops -> SUBSET Requests]
    BY <1>1 DEF StopHere, Shaped, Shapes
  <2>1. CASE Removed(s, i)
    <3>1. PICK n \in Waiting(i, UserOf[s]) : Take(i, n)
      BY <2>1 DEF Removed
    <3>2. n \in 1 .. Len(queue[i]) /\ queue[i] \in Seq(Requests) /\ UserOf[queue[i][n]] = UserOf[s]
      BY DEF Waiting, Shaped, Shapes, CoreTypes
    <3>3. queue[i][n] \in Requests /\ "dropped" \in Ended
      BY <3>2 DEF Ended
    <3>4. pc' \in [Requests -> Pcs] /\ inst' \in [Requests -> Instances \cup {None}] /\ Placed'
      BY <3>1, <3>3, EndTypes DEF Take
    <3>5. RemoveAt(queue[i], n) \in Seq(Requests)
      BY <3>2, RemoveWithout
    <3>6. queue' \in [Instances -> Seq(Requests)] /\ perUser' \in [Instances -> [Users -> Int]]
      BY <3>1, <3>2, <3>3, <3>5, LocalTypes DEF Take, Shaped
    <3>7. count' \in [Keys -> Int] /\ expires' \in [Keys -> BOOLEAN] /\ faults' \in 0 .. MaxFaults
      BY <2>1, RedisTypes DEF Removed, Shaped
    <3>8. stop' \in [Stops -> {"new", "looking", "marking", "done"}]
      BY <2>1 DEF Removed, StopGoto, Shaped, Shapes
    <3> QED
      BY <2>0, <2>1, <3>4, <3>6, <3>7, <3>8 DEF Removed, Shaped, Shapes, CoreTypes, flightVars
  <2>2. CASE CancelledHere(s, i)
    <3>1. stop' \in [Stops -> {"new", "looking", "marking", "done"}]
      BY <2>2 DEF CancelledHere, StopGoto, Shaped, Shapes
    <3>2. inflight' \in [Instances -> [Users -> Entries \cup {None}]]
      BY <2>2 DEF CancelledHere, Shaped, Shapes
    <3> QED
      BY <2>0, <2>2, <3>1, <3>2 DEF CancelledHere, Shaped, Shapes, CoreTypes, Placed, reqVars,
        localVars, redisVars
  <2> QED
    BY <1>1, <2>1, <2>2 DEF StopHere
<1>2. CASE StopElsewhere(s)
  BY <1>2 DEF StopElsewhere, StopGoto, Shaped, Shapes, CoreTypes, Placed, reqVars, localVars,
    redisVars, flightVars
<1>3. CASE StopMark(s)
  <2>1. /\ stop' \in [Stops -> {"new", "looking", "marking", "done"}]
        /\ meant' \in [Stops -> SUBSET Requests]
        /\ marker' \in [Users -> (SUBSET Requests) \cup {None}]
        /\ faults' \in 0 .. MaxFaults
    BY <1>3, QueueAssumption DEF StopMark, StopGoto, Fault, Shaped, Shapes
  <2> QED
    BY <1>3, <2>1 DEF StopMark, Shaped, Shapes, CoreTypes, Placed, reqVars, localVars, redisVars,
      flightVars
<1> QED
  BY <1>1, <1>2, <1>3 DEF StopNext

\* and of an instance that dies keep the shapes.
LEMMA CrashShapes ==
  ASSUME Shaped, NEW i \in Instances, Crash(i)
  PROVE  Shaped'
<1>1. pc' \in [Requests -> Pcs] /\ inst' \in [Requests -> Instances \cup {None}]
  BY DEF Crash, Shaped, Shapes, CoreTypes, Pcs
<1>2. Placed'
  <2>1. "dead" \notin Counted
    BY DEF Counted, Admitted, OnWorker, Running
  <2> QED
    BY <2>1 DEF Crash, Shaped, Placed
<1>3. queue' \in [Instances -> Seq(Requests)]
  BY DEF Crash, Shaped, Shapes, CoreTypes
<1>4. /\ state' \in [Instances -> {"up", "closed", "down"}]
      /\ perUser' \in [Instances -> [Users -> Int]]
      /\ inflight' \in [Instances -> [Users -> Entries \cup {None}]]
      /\ faults' \in 0 .. MaxFaults
  BY QueueAssumption DEF Crash, Fault, Shaped, Shapes
<1> QED
  BY <1>1, <1>2, <1>3, <1>4 DEF Crash, Shaped, Shapes, CoreTypes, redisVars, stopVars

\* Every step keeps the shapes, faults or not.
LEMMA ShapesKept == Shaped /\ [Next]_vars => Shaped'
<1> SUFFICES ASSUME Shaped, [Next]_vars PROVE Shaped'
  OBVIOUS
<1>1. CASE UNCHANGED vars
  BY <1>1 DEF vars, Shaped, Shapes, CoreTypes, Placed, reqVars, localVars, redisVars, flightVars,
    stopVars
<1>2. ASSUME NEW r \in Requests, Progress(r) \/ GateCancelled(r) PROVE Shaped'
  BY <1>2, EndShapes, GateShapes, HandlerShapes, EnqueueShapes, DequeueShapes DEF Progress
<1>3. ASSUME NEW u \in Users, MarkerExpires(u) PROVE Shaped'
  BY <1>3 DEF MarkerExpires, Shaped, Shapes, CoreTypes, Placed, reqVars, localVars, redisVars,
    flightVars
<1>4. ASSUME NEW k \in Keys, Expire(k) PROVE Shaped'
  <2>1. count' \in [Keys -> Int] /\ expires' \in [Keys -> BOOLEAN] /\ faults' \in 0 .. MaxFaults
    BY <1>4, QueueAssumption DEF Expire, Fault, Shaped, Shapes, CoreTypes
  <2> QED
    BY <1>4, <2>1 DEF Expire, Shaped, Shapes, CoreTypes, Placed, reqVars, localVars, flightVars,
      stopVars
<1>5. ASSUME NEW i \in Instances, Shutdown(i) PROVE Shaped'
  <2>1. state' \in [Instances -> {"up", "closed", "down"}]
    BY <1>5 DEF Shutdown, Shaped, Shapes
  <2> QED
    BY <1>5, <2>1 DEF Shutdown, Shaped, Shapes, CoreTypes, Placed, reqVars, localVars, redisVars,
      flightVars, stopVars
<1> QED
  BY <1>1, <1>2, <1>3, <1>4, <1>5, ArriveShapes, StopShapes, CrashShapes DEF Next

-----------------------------------------------------------------------------
(* The queues and the local counts, faults or not                           *)

\* Every waiting request is in its instance's queue, and no queue is too long.
QueueFull ==
  /\ \A r \in Requests : pc[r] = "queued" =>
       \E n \in 1 .. Len(queue[inst[r]]) : queue[inst[r]][n] = r
  /\ \A i \in Instances : Len(queue[i]) <= MaxSize

\* The requests of a user that wait on an instance.
Waits(i, u) == {r \in Requests : pc[r] = "queued" /\ inst[r] = i /\ UserOf[r] = u}

\* The local count is theirs; it is kept without Redis only.
LocalCount(i, u) ==
  /\ perUser[i][u] = IF redis THEN 0 ELSE Cardinality(Waits(i, u))
  /\ ~redis => Cardinality(Waits(i, u)) <= MaxPerUser

\* The inductive invariant of an instance's queue and count.
LocalInv == /\ Shaped
            /\ QueueSound /\ QueueFull
            /\ \A i \in Instances, u \in Users : LocalCount(i, u)

\* A user's waiting requests are finitely many.
LEMMA WaitsFinite ==
  ASSUME NEW i, NEW u
  PROVE  /\ IsFiniteSet(Waits(i, u)) /\ Cardinality(Waits(i, u)) \in Nat
         /\ (IsFiniteSet(Waits(i, u)) /\ Cardinality(Waits(i, u)) \in Nat)'
<1>1. Waits(i, u) \subseteq Requests /\ Waits(i, u)' \subseteq Requests
  BY DEF Waits
<1> QED
  BY <1>1, QueueAssumption, FS_Subset, FS_CardinalityType

\* Who waits, waits on, and nobody else comes to wait.
Aside ==
  /\ UNCHANGED <<redis, queue, perUser>>
  /\ \A r \in Requests : pc[r] = "queued" \/ pc'[r] = "queued" =>
       pc'[r] = pc[r] /\ inst'[r] = inst[r]

\* A step that leaves queues and waiting requests alone keeps what is said of them.
LEMMA AsideKeeps ==
  ASSUME LocalInv, Shaped', Aside
  PROVE  LocalInv'
<1>1. QueueSound'
  <2>1. \A i \in Instances : \A n \in 1 .. Len(queue[i]) : queue[i][n] \in Requests
    BY DEF LocalInv, Shaped, Shapes, CoreTypes
  <2> QED
    BY <2>1 DEF LocalInv, QueueSound, Aside
<1>2. QueueFull'
  BY DEF LocalInv, QueueFull, Aside
<1>3. \A i, u : Waits(i, u)' = Waits(i, u)
  BY DEF Waits, Aside
<1> QED
  BY <1>1, <1>2, <1>3 DEF LocalInv, LocalCount, Aside

\* One request comes to wait on an instance, or waits no longer: the counts.
LEMMA OneMoreWaits ==
  ASSUME LocalInv, NEW r \in Requests, inst[r] \in Instances, pc[r] # "queued", pc'[r] = "queued",
         inst'[r] = inst[r], \A q \in Requests \ {r} : pc'[q] = pc[q] /\ inst'[q] = inst[q],
         ~OverLocal(r), Local(inst[r], UserOf[r], 1), redis' = redis
  PROVE  \A i \in Instances, u \in Users : LocalCount(i, u)'
<1> SUFFICES ASSUME NEW i \in Instances, NEW u \in Users PROVE LocalCount(i, u)'
  OBVIOUS
<1>0. LocalCount(i, u) /\ perUser \in [Instances -> [Users -> Int]] /\ UserOf[r] \in Users
  BY UsersKnown DEF LocalInv, Shaped, Shapes
<1>1. CASE i = inst[r] /\ u = UserOf[r]
  <2>1. Waits(i, u)' = Waits(i, u) \cup {r} /\ r \notin Waits(i, u)
    BY <1>1 DEF Waits
  <2>2. Cardinality(Waits(i, u)') = Cardinality(Waits(i, u)) + 1
    BY <2>1, WaitsFinite, FS_AddElement
  <2>3. perUser'[i][u] = IF redis THEN perUser[i][u] ELSE perUser[i][u] + 1
    BY <1>0, <1>1 DEF Local
  <2>4. ~redis => Cardinality(Waits(i, u)) < MaxPerUser
    BY <1>0, <1>1, WaitsFinite, QueueAssumption DEF OverLocal, LocalCount
  <2> QED
    BY <1>0, <2>2, <2>3, <2>4, WaitsFinite, QueueAssumption DEF LocalCount
<1>2. CASE ~(i = inst[r] /\ u = UserOf[r])
  <2>1. Waits(i, u)' = Waits(i, u)
    BY <1>2 DEF Waits
  <2>2. perUser'[i][u] = perUser[i][u]
    BY <1>0, <1>2 DEF Local
  <2> QED
    BY <1>0, <2>1, <2>2 DEF LocalCount
<1> QED
  BY <1>1, <1>2

\* The count of an instance's waiting requests, with one less.
LEMMA OneLessWaits ==
  ASSUME LocalInv, NEW r \in Requests, NEW j \in Instances, inst[r] = j, pc[r] = "queued",
         pc'[r] # "queued", \A q \in Requests \ {r} : pc'[q] = pc[q] /\ inst'[q] = inst[q],
         Local(j, UserOf[r], -1), redis' = redis
  PROVE  \A i \in Instances, u \in Users : LocalCount(i, u)'
<1> SUFFICES ASSUME NEW i \in Instances, NEW u \in Users PROVE LocalCount(i, u)'
  OBVIOUS
<1>0. LocalCount(i, u) /\ perUser \in [Instances -> [Users -> Int]] /\ UserOf[r] \in Users
  BY UsersKnown DEF LocalInv, Shaped, Shapes
<1>1. CASE i = j /\ u = UserOf[r]
  <2>1. Waits(i, u)' = Waits(i, u) \ {r} /\ r \in Waits(i, u)
    BY <1>1 DEF Waits
  <2>2. Cardinality(Waits(i, u)') = Cardinality(Waits(i, u)) - 1
    BY <2>1, WaitsFinite, FS_RemoveElement
  <2>3. perUser'[i][u] = IF redis THEN perUser[i][u] ELSE perUser[i][u] - 1
    BY <1>0, <1>1 DEF Local
  <2> QED
    BY <1>0, <2>2, <2>3, WaitsFinite, QueueAssumption DEF LocalCount
<1>2. CASE ~(i = j /\ u = UserOf[r])
  <2>1. Waits(i, u)' = Waits(i, u)
    BY <1>2 DEF Waits
  <2>2. perUser'[i][u] = perUser[i][u]
    BY <1>0, <1>2 DEF Local
  <2> QED
    BY <1>0, <2>1, <2>2 DEF LocalCount
<1> QED
  BY <1>1, <1>2

\* A request that joins the queue is counted.
LEMMA EnqueueKeeps ==
  ASSUME LocalInv, Shaped', NEW r \in Requests, Enqueue(r)
  PROVE  LocalInv'
<1> DEFINE i == inst[r]
<1>0. CoreTypes /\ QueueSound /\ QueueFull /\ i \in Instances
  BY DEF LocalInv, Shaped, Shapes, Placed, Enqueue, Counted, Admitted
<1>1. /\ pc[r] = "admitted" /\ pc'[r] = "queued" /\ UNCHANGED <<inst, redis>>
      /\ \A q \in Requests \ {r} : pc'[q] = pc[q]
      /\ queue' = [queue EXCEPT ![i] = Append(@, r)]
      /\ Len(queue[i]) < MaxSize
  BY <1>0 DEF Enqueue, Goto, HasRoom, CoreTypes
<1>2. QueueSound'
  BY <1>0, QueueGrows
<1>3. QueueFull'
  <2>1. /\ queue'[i] = Append(queue[i], r) /\ queue[i] \in Seq(Requests) /\ Len(queue[i]) \in Nat
        /\ \A j \in Instances \ {i} : queue'[j] = queue[j]
    BY <1>0, <1>1 DEF CoreTypes
  <2>2. ASSUME NEW q \in Requests, pc'[q] = "queued"
        PROVE  \E n \in 1 .. Len(queue'[inst'[q]]) : queue'[inst'[q]][n] = q
    <3>1. CASE q = r
      <4>1. Len(queue[i]) + 1 \in 1 .. Len(queue'[i]) /\ queue'[i][Len(queue[i]) + 1] = r
        BY <1>0, <2>1
      <4> QED
        BY <1>1, <3>1, <4>1
    <3>2. CASE q # r
      <4>0. pc[q] = "queued" /\ inst'[q] = inst[q] /\ inst[q] \in Instances
        BY <1>1, <2>2, <3>2 DEF LocalInv, Shaped, Placed, Counted, Admitted
      <4>1. PICK n \in 1 .. Len(queue[inst[q]]) : queue[inst[q]][n] = q
        BY <1>0, <4>0 DEF QueueFull
      <4>2. n \in 1 .. Len(queue'[inst[q]]) /\ queue'[inst[q]][n] = q
        <5>1. CASE inst[q] = i
          BY <2>1, <4>1, <5>1
        <5>2. CASE inst[q] # i
          BY <2>1, <4>0, <4>1, <5>2
        <5> QED
          BY <5>1, <5>2
      <4> QED
        BY <4>0, <4>2
    <3> QED
      BY <3>1, <3>2
  <2>3. ASSUME NEW j \in Instances PROVE Len(queue'[j]) <= MaxSize
    BY <1>0, <1>1, <2>1, QueueAssumption DEF QueueFull
  <2> QED
    BY <2>2, <2>3 DEF QueueFull
<1>4. \A j \in Instances, u \in Users : LocalCount(j, u)'
  BY <1>0, <1>1, OneMoreWaits DEF Enqueue
<1> QED
  BY <1>2, <1>3, <1>4 DEF LocalInv

\* The n-th request of an instance waits no longer.
LEMMA LeaveKeeps ==
  ASSUME LocalInv, Shaped', NEW i \in Instances, NEW n \in 1 .. Len(queue[i]),
         NEW t \in Seq(Requests), Without(queue[i], n, t), queue' = [queue EXCEPT ![i] = t],
         Local(i, UserOf[queue[i][n]], -1), redis' = redis, pc'[queue[i][n]] # "queued",
         \A q \in Requests \ {queue[i][n]} : pc'[q] = pc[q] /\ inst'[q] = inst[q]
  PROVE  LocalInv'
<1> DEFINE r == queue[i][n]
<1>0. CoreTypes /\ QueueSound /\ QueueFull
  BY DEF LocalInv, Shaped, Shapes
<1>1. r \in Requests /\ pc[r] = "queued" /\ inst[r] = i
  BY <1>0 DEF CoreTypes, QueueSound
<1>2. QueueSound'
  BY <1>0, QueueShrinks
<1>3. QueueFull'
  <2>1. /\ queue'[i] = t /\ Len(t) = Len(queue[i]) - 1 /\ Len(queue[i]) \in Nat /\ n \in Int
        /\ \A j \in Instances \ {i} : queue'[j] = queue[j]
    BY <1>0 DEF CoreTypes, Without
  <2>2. ASSUME NEW q \in Requests, pc'[q] = "queued"
        PROVE  \E m \in 1 .. Len(queue'[inst'[q]]) : queue'[inst'[q]][m] = q
    <3>0. q # r /\ pc[q] = "queued" /\ inst'[q] = inst[q] /\ inst[q] \in Instances
      BY <2>2 DEF LocalInv, Shaped, Placed, Counted, Admitted
    <3>1. PICK m \in 1 .. Len(queue[inst[q]]) : queue[inst[q]][m] = q
      BY <1>0, <3>0 DEF QueueFull
    <3>2. CASE inst[q] # i
      BY <2>1, <3>0, <3>1, <3>2
    <3>3. CASE inst[q] = i
      <4>1. m # n /\ m \in Int
        BY <3>0, <3>1, <3>3
      <4>2. CASE m < n
        <5>1. m \in 1 .. Len(t) /\ t[m] = q
          BY <2>1, <3>1, <3>3, <4>2 DEF Without
        <5> QED
          BY <2>1, <3>0, <3>3, <5>1
      <4>3. CASE m > n
        <5>1. m - 1 \in 1 .. Len(t) /\ ~(m - 1 < n) /\ (m - 1) + 1 = m
          BY <2>1, <3>1, <3>3, <4>1, <4>3
        <5>2. t[m - 1] = q
          BY <3>1, <3>3, <5>1 DEF Without
        <5> QED
          BY <2>1, <3>0, <3>3, <5>1, <5>2
      <4> QED
        BY <2>1, <4>1, <4>2, <4>3
    <3> QED
      BY <3>2, <3>3
  <2>3. ASSUME NEW j \in Instances PROVE Len(queue'[j]) <= MaxSize
    BY <1>0, <2>1, QueueAssumption DEF QueueFull
  <2> QED
    BY <2>2, <2>3 DEF QueueFull
<1>4. \A j \in Instances, u \in Users : LocalCount(j, u)'
  <2> HIDE DEF r
  <2>1. pc'[r] # "queued" /\ Local(i, UserOf[r], -1)
        /\ \A q \in Requests \ {r} : pc'[q] = pc[q] /\ inst'[q] = inst[q]
    BY DEF r
  <2> QED
    BY <1>1, <2>1, OneLessWaits
<1> QED
  BY <1>2, <1>3, <1>4 DEF LocalInv

\* The head of the queue that a worker takes,
LEMMA DequeueKeeps ==
  ASSUME LocalInv, Shaped', NEW r \in Requests, Dequeue(r)
  PROVE  LocalInv'
<1> DEFINE i == inst[r]
<1>0. CoreTypes
  BY DEF LocalInv, Shaped, Shapes
<1>1. /\ pc'[r] # "queued" /\ UNCHANGED <<inst, redis>> /\ i \in Instances
      /\ \A q \in Requests \ {r} : pc'[q] = pc[q]
      /\ queue' = [queue EXCEPT ![i] = Tail(queue[i])] /\ r = Head(queue[i])
      /\ queue[i] # <<>> /\ queue[i] \in Seq(Requests)
      /\ Local(i, UserOf[r], -1)
  BY <1>0 DEF Dequeue, Goto, CoreTypes
<1>2. /\ Tail(queue[i]) \in Seq(Requests) /\ Without(queue[i], 1, Tail(queue[i]))
      /\ 1 \in 1 .. Len(queue[i]) /\ r = queue[i][1]
  BY <1>1, TailWithout
<1> HIDE DEF i
<1> QED
  BY <1>1, <1>2, LeaveKeeps

\* and the request that a /stop takes out of it, are counted no longer.
LEMMA TakeKeeps ==
  ASSUME LocalInv, Shaped', NEW i \in Instances, NEW n \in 1 .. Len(queue[i]), Take(i, n),
         redis' = redis
  PROVE  LocalInv'
<1>0. CoreTypes /\ queue[i] \in Seq(Requests) /\ queue[i][n] \in Requests
  BY DEF LocalInv, Shaped, Shapes, CoreTypes
<1>1. /\ RemoveAt(queue[i], n) \in Seq(Requests) /\ Without(queue[i], n, RemoveAt(queue[i], n))
  BY <1>0, RemoveWithout
<1>2. /\ pc'[queue[i][n]] # "queued"
      /\ \A q \in Requests \ {queue[i][n]} : pc'[q] = pc[q] /\ inst'[q] = inst[q]
      /\ queue' = [queue EXCEPT ![i] = RemoveAt(queue[i], n)]
      /\ Local(i, UserOf[queue[i][n]], -1)
  BY <1>0 DEF Take, End, CoreTypes
<1> QED
  BY <1>1, <1>2, LeaveKeeps

\* An instance dies with its queue.
LEMMA CrashKeeps ==
  ASSUME LocalInv, Shaped', NEW i \in Instances, Crash(i)
  PROVE  LocalInv'
<1>0. /\ Shapes /\ QueueSound /\ QueueFull
      /\ queue \in [Instances -> Seq(Requests)] /\ perUser \in [Instances -> [Users -> Int]]
      /\ pc \in [Requests -> Pcs] /\ inst \in [Requests -> Instances \cup {None}]
  BY DEF LocalInv, Shaped, Shapes, CoreTypes
<1>1. /\ queue'[i] = <<>> /\ \A j \in Instances \ {i} : queue'[j] = queue[j]
      /\ \A q \in Requests : inst[q] = i => pc'[q] = "dead"
      /\ \A q \in Requests : inst[q] # i => pc'[q] = pc[q] /\ inst'[q] = inst[q]
      /\ \A u \in Users : perUser'[i][u] = 0
      /\ \A j \in Instances \ {i} : perUser'[j] = perUser[j]
      /\ redis' = redis
  BY <1>0 DEF Crash
<1>2. \A j \in Instances : \A n \in 1 .. Len(queue[j]) : queue[j][n] \in Requests
  BY <1>0
<1>3. QueueSound'
  <2>1. ASSUME NEW j \in Instances
        PROVE  /\ \A n \in 1 .. Len(queue'[j]) : pc'[queue'[j][n]] = "queued" /\ inst'[queue'[j][n]] = j
               /\ \A m, n \in 1 .. Len(queue'[j]) : queue'[j][m] = queue'[j][n] => m = n
    <3>1. CASE j = i
      BY <1>1, <3>1
    <3>2. CASE j # i
      BY <1>0, <1>1, <1>2, <3>2 DEF QueueSound
    <3> QED
      BY <3>1, <3>2
  <2> QED
    BY <2>1 DEF QueueSound
<1>4. QueueFull'
  <2>1. ASSUME NEW q \in Requests, pc'[q] = "queued"
        PROVE  \E n \in 1 .. Len(queue'[inst'[q]]) : queue'[inst'[q]][n] = q
    <3>1. inst[q] # i /\ pc[q] = "queued" /\ inst'[q] = inst[q] /\ inst[q] \in Instances
      BY <1>1, <2>1 DEF LocalInv, Shaped, Placed, Counted, Admitted
    <3>2. PICK n \in 1 .. Len(queue[inst[q]]) : queue[inst[q]][n] = q
      BY <1>0, <3>1 DEF QueueFull
    <3>3. queue'[inst'[q]] = queue[inst[q]]
      BY <1>1, <3>1
    <3> QED
      BY <3>2, <3>3
  <2>2. ASSUME NEW j \in Instances PROVE Len(queue'[j]) <= MaxSize
    <3>1. CASE j = i
      <4>1. Len(queue'[j]) = 0
        BY <1>1, <3>1
      <4> QED
        BY <4>1, QueueAssumption
    <3>2. CASE j # i
      <4>1. queue'[j] = queue[j]
        BY <1>1, <3>2
      <4> QED
        BY <1>0, <4>1 DEF QueueFull
    <3> QED
      BY <3>1, <3>2
  <2> QED
    BY <2>1, <2>2 DEF QueueFull
<1>5. ASSUME NEW j \in Instances, NEW u \in Users PROVE LocalCount(j, u)'
  <2>1. CASE j = i
    <3>1. Waits(j, u)' = {}
      BY <1>1, <2>1 DEF Waits
    <3> QED
      BY <1>1, <2>1, <3>1, FS_EmptySet, QueueAssumption DEF LocalCount
  <2>2. CASE j # i
    <3>1. Waits(j, u)' = Waits(j, u)
      BY <1>1, <2>2 DEF Waits
    <3> QED
      BY <1>1, <2>2, <3>1 DEF LocalInv, LocalCount
  <2> QED
    BY <2>1, <2>2
<1> QED
  BY <1>3, <1>4, <1>5 DEF LocalInv

\* Every other step leaves the waiting requests alone.
LEMMA OthersAside ==
  ASSUME Shaped, [Next]_vars,
         \A r \in Requests : ~Enqueue(r) /\ ~Dequeue(r),
         \A s \in Stops, i \in Instances : ~Removed(s, i),
         \A i \in Instances : ~Crash(i)
  PROVE  Aside
<1> USE DEF Shaped, Shapes, CoreTypes
<1>1. CASE UNCHANGED vars
  BY <1>1 DEF Aside, vars, reqVars, localVars
<1>2. ASSUME NEW r \in Requests, NEW i \in Instances, Arrive(r, i) \/ ArriveUncounted(r, i)
      PROVE  Aside
  BY <1>2 DEF Aside, Arrive, ArriveUncounted, ArriveAt, localVars
<1>3. ASSUME NEW r \in Requests, Progress(r) \/ GateCancelled(r) PROVE Aside
  <2>1. ASSUME NEW to \in Pcs \ {"queued"}, Goto(r, to) \/ End(r, to), pc[r] # "queued",
               UNCHANGED <<redis, localVars>>
        PROVE  Aside
    <3>1. pc'[r] = to /\ \A q \in Requests \ {r} : pc'[q] = pc[q] /\ inst'[q] = inst[q]
      BY <2>1 DEF Goto, End
    <3> QED
      BY <2>1, <3>1 DEF Aside, localVars
  <2>2. CASE OverLimit(r) \/ Reject(r) \/ RejectLocal(r) \/ Discard(r) \/ GateCancelled(r) \/ PayUser(r)
    BY <2>1, <2>2 DEF OverLimit, Reject, RejectLocal, Discard, GateCancelled, PayUser, Pcs
  <2>3. CASE ToGate(r) \/ GateOpens(r) \/ GateFailsOpen(r) \/ ReleaseGate(r)
    BY <2>1, <2>3 DEF ToGate, GateOpens, GateFailsOpen, ReleaseGate, Pcs
  <2>4. CASE GateShut(r)
    BY <2>4 DEF Aside, GateShut, reqVars, localVars
  <2>5. CASE StoppedByMarker(r) \/ Start(r) \/ Answer(r) \/ Return(r)
    BY <2>1, <2>5 DEF StoppedByMarker, Start, Answer, Return, Pcs
  <2> QED
    BY <1>3, <2>2, <2>3, <2>4, <2>5 DEF Progress
<1>4. ASSUME NEW s \in Stops, StopNext(s) PROVE Aside
  BY <1>4 DEF Aside, StopNext, StopHere, CancelledHere, StopElsewhere, StopMark, reqVars, localVars
<1>5. ASSUME NEW u \in Users, MarkerExpires(u) PROVE Aside
  BY <1>5 DEF Aside, MarkerExpires, reqVars, localVars
<1>6. ASSUME NEW k \in Keys, Expire(k) PROVE Aside
  BY <1>6 DEF Aside, Expire, reqVars, localVars
<1>7. ASSUME NEW i \in Instances, Shutdown(i) PROVE Aside
  BY <1>7 DEF Aside, Shutdown, reqVars, localVars
<1> QED
  BY <1>1, <1>2, <1>3, <1>4, <1>5, <1>6, <1>7 DEF Next

\* Every step keeps the queues within their limits, faults or not.
LEMMA LocalKept == LocalInv /\ [Next]_vars => LocalInv'
<1> SUFFICES ASSUME LocalInv, [Next]_vars PROVE LocalInv'
  OBVIOUS
<1>0. Shaped /\ Shaped' /\ redis' = redis
  <2>1. faults \in Nat
    BY QueueAssumption DEF LocalInv, Shaped, Shapes
  <2> QED
    BY <2>1, ShapesKept, FaultsGrow DEF LocalInv
<1>1. ASSUME NEW s \in Stops, NEW i \in Instances, Removed(s, i) PROVE LocalInv'
  <2>1. PICK n \in Waiting(i, UserOf[s]) : Take(i, n)
    BY <1>1 DEF Removed
  <2>2. n \in 1 .. Len(queue[i])
    <3>1. queue[i] \in Seq(Requests)
      BY <1>0 DEF Shaped, Shapes, CoreTypes
    <3> QED
      BY <3>1 DEF Waiting
  <2> QED
    BY <1>0, <2>1, <2>2, TakeKeeps
<1> QED
  BY <1>0, <1>1, EnqueueKeeps, DequeueKeeps, CrashKeeps, OthersAside, AsideKeeps

-----------------------------------------------------------------------------
(* What /stop finds                                                         *)

\* Entry and message of an entry are of its user and of its instance.
EntrySound(i, u) ==
  LET e == inflight[i][u] IN
  e # None => /\ UserOf[e.req] = u /\ inst[e.req] = i /\ pc[e.req] \in {"preparing", "answering"}
              /\ e.msg # None => UserOf[e.msg] = u /\ inst[e.msg] = i /\ pc[e.msg] = "answering"

\* A mapping names an assistant message of its user's that is being answered,
\* or was when its instance died.
MappingSound(u) ==
  mapping[u] # None =>
    redis /\ UserOf[mapping[u]] = u /\ pc[mapping[u]] \in {"answering", "dead"}

\* The registry of every instance, and the mappings in Redis.
Registered == /\ \A i \in Instances, u \in Users : EntrySound(i, u)
              /\ \A u \in Users : MappingSound(u)

\* Entries are removed at most, and who may have one stays where he is.
Bystanding ==
  /\ redis' = redis
  /\ \A i \in Instances, u \in Users : inflight'[i][u] = None \/ inflight'[i][u] = inflight[i][u]
  /\ mapping' = mapping
  /\ \A r \in Requests : pc[r] \in {"preparing", "answering", "dead"} =>
       pc'[r] = pc[r] /\ inst'[r] = inst[r]

\* The requests an entry or a mapping names.
LEMMA NamedRequests ==
  ASSUME Shaped, NEW i \in Instances, NEW u \in Users
  PROVE  /\ inflight[i][u] # None => inflight[i][u].req \in Requests
         /\ inflight[i][u] # None /\ inflight[i][u].msg # None => inflight[i][u].msg \in Requests
         /\ mapping[u] # None => mapping[u] \in Requests
BY DEF Shaped, Shapes, Entries

\* Such a step keeps what is said of the entries.
LEMMA BystandingKeeps ==
  ASSUME Shaped, Registered, Bystanding
  PROVE  Registered'
<1>1. ASSUME NEW i \in Instances, NEW u \in Users PROVE EntrySound(i, u)'
  BY NamedRequests DEF Registered, EntrySound, Bystanding
<1>2. ASSUME NEW u \in Users PROVE MappingSound(u)'
  <2>1. mapping[u] # None => mapping[u] \in Requests
    BY DEF Shaped, Shapes
  <2> QED
    BY <2>1 DEF Registered, MappingSound, Bystanding
<1> QED
  BY <1>1, <1>2 DEF Registered

\* The entry of a request's user on its instance is set.
LEMMA RegisterSets ==
  ASSUME Shaped, NEW r \in Requests, NEW e, inst[r] \in Instances, Register(r, e)
  PROVE  /\ inflight'[inst[r]][UserOf[r]] = e
         /\ \A i \in Instances, u \in Users :
              i # inst[r] \/ u # UserOf[r] => inflight'[i][u] = inflight[i][u]
BY UsersKnown DEF Register, Shaped, Shapes

\* The handler's own steps on the registry.
LEMMA StartKeeps ==
  ASSUME Shaped, Registered, NEW r \in Requests, Start(r)
  PROVE  Registered'
<1>0. /\ pc[r] = "entered" /\ inst[r] \in Instances /\ inst' = inst /\ pc'[r] = "preparing"
      /\ \A q \in Requests \ {r} : pc'[q] = pc[q]
      /\ mapping' = mapping /\ redis' = redis
      /\ Register(r, [req |-> r, msg |-> None])
  BY DEF Start, Goto, Shaped, Shapes, CoreTypes, Placed, Counted, Admitted, OnWorker, Running
<1>1. ASSUME NEW i \in Instances, NEW u \in Users PROVE EntrySound(i, u)'
  <2>1. CASE i = inst[r] /\ u = UserOf[r]
    <3>1. inflight'[i][u] = [req |-> r, msg |-> None]
      BY <1>0, <2>1, RegisterSets
    <3> QED
      BY <1>0, <2>1, <3>1 DEF EntrySound
  <2>2. CASE ~(i = inst[r] /\ u = UserOf[r])
    <3>1. inflight'[i][u] = inflight[i][u]
      BY <1>0, <2>2, RegisterSets
    <3> QED
      BY <1>0, <3>1, NamedRequests DEF Registered, EntrySound
  <2> QED
    BY <2>1, <2>2
<1>2. ASSUME NEW u \in Users PROVE MappingSound(u)'
  <2>1. mapping[u] # None => mapping[u] \in Requests
    BY DEF Shaped, Shapes
  <2> QED
    BY <1>0, <2>1 DEF Registered, MappingSound
<1> QED
  BY <1>1, <1>2 DEF Registered

\* The assistant message is created: the entry and the mapping name it.
LEMMA AnswerKeeps ==
  ASSUME Shaped, Registered, NEW r \in Requests, Answer(r)
  PROVE  Registered'
<1> DEFINE j == inst[r]
           v == UserOf[r]
<1>0. /\ pc[r] = "preparing" /\ j \in Instances /\ v \in Users
      /\ inst' = inst /\ pc'[r] = "answering"
      /\ \A q \in Requests \ {r} : pc'[q] = pc[q]
      /\ redis' = redis
  BY UsersKnown
  DEF Answer, Goto, Shaped, Shapes, CoreTypes, Placed, Counted, Admitted, OnWorker, Running
<1>1. ASSUME NEW i \in Instances, NEW u \in Users PROVE EntrySound(i, u)'
  <2>1. CASE i = j /\ u = v /\ inflight[i][u] # None
    <3>1. inflight[i][u] \in Entries
      BY <2>1 DEF Shaped, Shapes
    <3>2. inflight'[i][u] = [inflight[i][u] EXCEPT !.msg = r]
      BY <1>0, <2>1 DEF Answer, Shaped, Shapes
    <3>3. inflight'[i][u].req = inflight[i][u].req /\ inflight'[i][u].msg = r
          /\ inflight[i][u].req \in Requests
      BY <3>1, <3>2 DEF Entries
    <3> QED
      BY <1>0, <2>1, <3>3 DEF Registered, EntrySound
  <2>2. CASE ~(i = j /\ u = v /\ inflight[i][u] # None)
    <3>1. inflight'[i][u] = inflight[i][u]
      <4>1. CASE inflight[j][v] = None
        BY <4>1 DEF Answer
      <4>2. CASE inflight[j][v] # None
        BY <1>0, <2>2, <4>2 DEF Answer, Shaped, Shapes
      <4> QED
        BY <4>1, <4>2
    <3> QED
      BY <1>0, <3>1, NamedRequests DEF Registered, EntrySound
  <2> QED
    BY <2>1, <2>2
<1>2. ASSUME NEW u \in Users PROVE MappingSound(u)'
  <2>1. mapping[u] # None => mapping[u] \in Requests
    BY DEF Shaped, Shapes
  <2>2. mapping'[u] = mapping[u] \/ (u = v /\ mapping'[u] = r /\ redis)
    BY <1>0 DEF Answer, Shaped, Shapes
  <2> QED
    BY <1>0, <2>1, <2>2 DEF Registered, MappingSound
<1> QED
  BY <1>1, <1>2 DEF Registered

\* The handler returns and removes its entry.
LEMMA ReturnKeeps ==
  ASSUME Shaped, Registered, NEW r \in Requests, Return(r)
  PROVE  Registered'
<1>0. /\ pc[r] \in {"preparing", "answering"} /\ inst[r] \in Instances /\ UserOf[r] \in Users
      /\ inst' = inst /\ pc'[r] = "handled"
      /\ \A q \in Requests \ {r} : pc'[q] = pc[q]
      /\ redis' = redis /\ Register(r, None)
  BY UsersKnown
  DEF Return, Goto, Shaped, Shapes, CoreTypes, Placed, Counted, Admitted, OnWorker, Running
<1>1. ASSUME NEW i \in Instances, NEW u \in Users PROVE EntrySound(i, u)'
  <2>1. CASE i = inst[r] /\ u = UserOf[r]
    <3>1. inflight'[i][u] = None
      BY <1>0, <2>1, RegisterSets
    <3> QED
      BY <3>1 DEF EntrySound
  <2>2. CASE ~(i = inst[r] /\ u = UserOf[r])
    <3>1. inflight'[i][u] = inflight[i][u]
      BY <1>0, <2>2, RegisterSets
    <3>2. inflight[i][u] # None =>
            inflight[i][u].req # r /\ (inflight[i][u].msg # None => inflight[i][u].msg # r)
      BY <2>2 DEF Registered, EntrySound
    <3> QED
      BY <1>0, <3>1, <3>2, NamedRequests DEF Registered, EntrySound
  <2> QED
    BY <2>1, <2>2
<1>2. ASSUME NEW u \in Users PROVE MappingSound(u)'
  <2>1. mapping[u] # None => mapping[u] \in Requests
    BY DEF Shaped, Shapes
  <2>2. CASE mapping[u] = r
    <3>1. u = UserOf[r] /\ redis /\ pc[r] = "answering"
      BY <1>0, <2>2, UsersKnown, QueueAssumption DEF Registered, MappingSound
    <3>2. mapping'[u] = None
      BY <3>1 DEF Return, Shaped, Shapes
    <3> QED
      BY <3>2 DEF MappingSound
  <2>3. CASE mapping[u] # r
    <3>1. mapping'[u] = None \/ mapping'[u] = mapping[u]
      BY <1>0 DEF Return, Shaped, Shapes
    <3> QED
      BY <1>0, <2>1, <2>3, <3>1 DEF Registered, MappingSound
  <2> QED
    BY <2>2, <2>3
<1> QED
  BY <1>1, <1>2 DEF Registered

\* An instance dies with its entries.
LEMMA CrashRegistered ==
  ASSUME Shaped, Registered, NEW j \in Instances, Crash(j)
  PROVE  Registered'
<1>0. /\ \A u \in Users : inflight'[j][u] = None
      /\ \A i \in Instances \ {j} : inflight'[i] = inflight[i]
      /\ \A q \in Requests : inst[q] = j => pc'[q] = "dead"
      /\ \A q \in Requests : inst[q] # j => pc'[q] = pc[q] /\ inst'[q] = inst[q]
      /\ redis' = redis /\ mapping' = mapping
  BY DEF Crash, Shaped, Shapes, CoreTypes
<1>1. ASSUME NEW i \in Instances, NEW u \in Users PROVE EntrySound(i, u)'
  <2>1. CASE i = j
    BY <1>0, <2>1 DEF EntrySound
  <2>2. CASE i # j
    <3>1. inflight'[i][u] = inflight[i][u]
      BY <1>0, <2>2
    <3> QED
      BY <1>0, <2>2, <3>1, NamedRequests DEF Registered, EntrySound
  <2> QED
    BY <2>1, <2>2
<1>2. ASSUME NEW u \in Users PROVE MappingSound(u)'
  <2>1. mapping[u] # None => mapping[u] \in Requests
    BY DEF Shaped, Shapes
  <2> QED
    BY <1>0, <2>1 DEF Registered, MappingSound
<1> QED
  BY <1>1, <1>2 DEF Registered

\* Nobody else starts, answers or returns, and nobody else sets an entry.
LEMMA OthersBystand ==
  ASSUME LocalInv, [Next]_vars,
         \A r \in Requests : ~Start(r) /\ ~Answer(r) /\ ~Return(r),
         \A i \in Instances : ~Crash(i)
  PROVE  Bystanding
<1> USE DEF Shaped, Shapes, CoreTypes, LocalInv
<1>1. CASE UNCHANGED vars
  BY <1>1 DEF Bystanding, vars, reqVars, flightVars
<1>2. ASSUME NEW r \in Requests, NEW i \in Instances, Arrive(r, i) \/ ArriveUncounted(r, i)
      PROVE  Bystanding
  <2>1. PICK to \in {"over", "admitted"} : ArriveAt(r, i, to)
    BY <1>2 DEF Arrive, ArriveUncounted
  <2> QED
    BY <2>1 DEF Bystanding, ArriveAt, flightVars
<1>3. ASSUME NEW r \in Requests, Progress(r) \/ GateCancelled(r) PROVE Bystanding
  <2>1. ASSUME NEW to \in Pcs, Goto(r, to) \/ End(r, to),
               pc[r] \notin {"preparing", "answering", "dead"}, UNCHANGED <<redis, flightVars>>
        PROVE  Bystanding
    <3>1. \A q \in Requests \ {r} : pc'[q] = pc[q] /\ inst'[q] = inst[q]
      BY <2>1 DEF Goto, End
    <3> QED
      BY <2>1, <3>1 DEF Bystanding, flightVars
  <2>2. CASE OverLimit(r) \/ Reject(r) \/ RejectLocal(r) \/ Discard(r) \/ GateCancelled(r) \/ PayUser(r)
    BY <2>1, <2>2 DEF OverLimit, Reject, RejectLocal, Discard, GateCancelled, PayUser, Pcs
  <2>3. CASE ToGate(r) \/ GateOpens(r) \/ GateFailsOpen(r) \/ ReleaseGate(r)
    BY <2>1, <2>3 DEF ToGate, GateOpens, GateFailsOpen, ReleaseGate, Pcs
  <2>4. CASE GateShut(r)
    BY <2>4 DEF Bystanding, GateShut, reqVars, flightVars
  <2>5. CASE StoppedByMarker(r)
    <3>1. /\ pc[r] = "entered" /\ inst[r] \in Instances /\ inst' = inst
          /\ \A q \in Requests \ {r} : pc'[q] = pc[q]
          /\ Register(r, None) /\ UNCHANGED <<redis, mapping>>
      BY <2>5 DEF StoppedByMarker, Goto, Placed, Counted, Admitted, OnWorker, Running
    <3>2. inflight'[inst[r]][UserOf[r]] = None
      BY <3>1, RegisterSets DEF LocalInv
    <3>3. \A i \in Instances, u \in Users :
            i # inst[r] \/ u # UserOf[r] => inflight'[i][u] = inflight[i][u]
      BY <3>1, RegisterSets DEF LocalInv
    <3> QED
      BY <3>1, <3>2, <3>3 DEF Bystanding
  <2>6. CASE Enqueue(r) \/ Dequeue(r)
    BY <2>1, <2>6 DEF Enqueue, Dequeue, Pcs
  <2> QED
    BY <1>3, <2>2, <2>3, <2>4, <2>5, <2>6 DEF Progress
<1>4. ASSUME NEW s \in Stops, StopNext(s) PROVE Bystanding
  <2>1. ASSUME NEW i \in Instances, StopHere(s, i), Removed(s, i) PROVE Bystanding
    <3>1. PICK n \in Waiting(i, UserOf[s]) : Take(i, n)
      BY <2>1 DEF Removed
    <3>2. n \in 1 .. Len(queue[i])
      <4>1. queue[i] \in Seq(Requests)
        OBVIOUS
      <4> QED
        BY <4>1 DEF Waiting
    <3>3. queue[i][n] \in Requests /\ pc[queue[i][n]] = "queued"
      BY <3>2 DEF QueueSound
    <3>4. \A q \in Requests \ {queue[i][n]} : pc'[q] = pc[q] /\ inst'[q] = inst[q]
      BY <3>1, <3>3 DEF Take, End
    <3> QED
      BY <2>1, <3>3, <3>4 DEF Bystanding, StopHere, Removed, flightVars
  <2>2. ASSUME NEW i \in Instances, StopHere(s, i), CancelledHere(s, i) PROVE Bystanding
    BY <2>2 DEF Bystanding, StopHere, CancelledHere, reqVars
  <2>3. CASE StopElsewhere(s) \/ StopMark(s)
    BY <2>3 DEF Bystanding, StopElsewhere, StopMark, reqVars, flightVars
  <2> QED
    BY <1>4, <2>1, <2>2, <2>3 DEF StopNext, StopHere
<1>5. ASSUME NEW u \in Users, MarkerExpires(u) PROVE Bystanding
  BY <1>5 DEF Bystanding, MarkerExpires, reqVars, flightVars
<1>6. ASSUME NEW k \in Keys, Expire(k) PROVE Bystanding
  BY <1>6 DEF Bystanding, Expire, reqVars, flightVars
<1>7. ASSUME NEW i \in Instances, Shutdown(i) PROVE Bystanding
  BY <1>7 DEF Bystanding, Shutdown, reqVars, flightVars
<1> QED
  BY <1>1, <1>2, <1>3, <1>4, <1>5, <1>6, <1>7 DEF Next

\* Every step keeps the entries and the mappings those of living requests.
LEMMA RegisteredKept == LocalInv /\ Registered /\ [Next]_vars => Registered'
<1> SUFFICES ASSUME LocalInv, Registered, [Next]_vars PROVE Registered'
  OBVIOUS
<1>0. Shaped
  BY DEF LocalInv
<1> QED
  BY <1>0, StartKeeps, AnswerKeeps, ReturnKeeps, CrashRegistered, OthersBystand, BystandingKeeps

\* Both hold at the start,
LEMMA LocalInit == Init => LocalInv /\ Registered
<1> SUFFICES ASSUME Init PROVE LocalInv /\ Registered
  OBVIOUS
<1>1. Shaped
  <2>1. "new" \in Pcs /\ "new" \notin Counted /\ <<>> \in Seq(Requests)
    BY DEF Pcs, Counted, Admitted, OnWorker, Running
  <2> QED
    BY <2>1, QueueAssumption DEF Init, Shaped, Shapes, CoreTypes, Placed
<1>2. QueueSound /\ QueueFull
  BY QueueAssumption DEF Init, QueueSound, QueueFull
<1>3. ASSUME NEW i \in Instances, NEW u \in Users PROVE LocalCount(i, u)
  <2>1. Waits(i, u) = {}
    BY DEF Init, Waits
  <2> QED
    BY <2>1, FS_EmptySet, QueueAssumption DEF Init, LocalCount
<1>4. Registered
  BY DEF Init, Registered, EntrySound, MappingSound
<1> QED
  BY <1>1, <1>2, <1>3, <1>4 DEF LocalInv

\* and in every state.
LEMMA LocalHolds == Spec => [](LocalInv /\ Registered)
<1>1. Init => LocalInv /\ Registered
  BY LocalInit
<1>2. LocalInv /\ Registered /\ [Next]_vars => (LocalInv /\ Registered)'
  BY LocalKept, RegisteredKept
<1> QED
  BY <1>1, <1>2, PTL DEF Spec

\* The types of the state, through faults and crashes (qaqueue.go): a local count
\* is never negative.
THEOREM TypeCorrect == Spec => []TypeOK
<1>1. LocalInv => TypeOK
  <2> SUFFICES ASSUME LocalInv PROVE TypeOK
    OBVIOUS
  <2>1. \A i \in Instances, u \in Users : perUser[i][u] \in Nat
    BY WaitsFinite DEF LocalInv, LocalCount
  <2>2. perUser \in [Instances -> [Users -> Nat]]
    BY <2>1 DEF LocalInv, Shaped, Shapes
  <2> QED
    BY <2>2 DEF LocalInv, Shaped, Shapes, CoreTypes, TypeOK
<1> QED
  BY <1>1, LocalHolds, PTL

\* An instance's own bookkeeping (qaqueue.go:137-265), whatever fails: a request
\* waits once and in the queue of its instance, no queue is longer than its
\* bound, and without Redis the local counts are the waiting requests' and
\* within the user's limit.
THEOREM LocalLimitsHold == Spec => []LocalLimits
<1>1. LocalInv => LocalLimits
  <2> SUFFICES ASSUME LocalInv PROVE LocalLimits
    OBVIOUS
  <2>1. \A i \in Instances : queue[i] \in Seq(Requests) /\ DOMAIN queue[i] = 1 .. Len(queue[i])
    BY DEF LocalInv, Shaped, Shapes, CoreTypes
  <2>2. ASSUME NEW i \in Instances PROVE IsInjective(queue[i]) /\ Len(queue[i]) <= MaxSize
    BY <2>1 DEF LocalInv, QueueSound, QueueFull, IsInjective
  <2>3. ASSUME NEW i \in Instances, NEW r \in Requests
        PROVE  r \in ToSet(queue[i]) <=> (pc[r] = "queued" /\ inst[r] = i)
    <3>1. r \in ToSet(queue[i]) <=> \E n \in 1 .. Len(queue[i]) : queue[i][n] = r
      BY <2>1 DEF ToSet
    <3> QED
      BY <3>1 DEF LocalInv, QueueSound, QueueFull
  <2>4. ASSUME ~redis, NEW i \in Instances, NEW u \in Users
        PROVE  /\ perUser[i][u] = Cardinality({r \in ToSet(queue[i]) : UserOf[r] = u})
               /\ perUser[i][u] <= MaxPerUser
    <3>1. ToSet(queue[i]) \subseteq Requests
      BY <2>1 DEF ToSet
    <3>2. {r \in ToSet(queue[i]) : UserOf[r] = u} = Waits(i, u)
      BY <2>3, <3>1 DEF Waits
    <3> QED
      BY <2>4, <3>2 DEF LocalInv, LocalCount
  <2> QED
    BY <2>2, <2>3, <2>4 DEF LocalLimits
<1> QED
  BY <1>1, LocalHolds, PTL

\* What a /stop finds is alive (service.go): an entry is of a request that runs
\* on its instance, its message of one being answered there, a mapping of one
\* being answered unless its instance has died.
THEOREM StopFindsTheLiving == Spec => []RegistryIsLive
<1>1. Registered => RegistryIsLive
  BY DEF Registered, EntrySound, MappingSound, RegistryIsLive
<1> QED
  BY <1>1, LocalHolds, PTL
=============================================================================
