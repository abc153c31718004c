------------------------- MODULE ModelLimiterProofs -------------------------
(***************************************************************************)
(* The distributed limiter for any number of calls and any limits: whoever *)
(* holds a slot keeps its lease, and nobody is let in over its limit, as   *)
(* long as no call loses two heartbeats in a row.                          *)
(***************************************************************************)
EXTENDS ModelLimiter, TLAPS, FiniteSetTheorems

\* What is pending is not overdue, and heartbeats are those of calls let in.
Timed ==
  \A c \in Calls :
    /\ pc[c] = "asking" => age[c] <= Delay
    /\ beat[c] \in {"adding", "expiring", "failed"} => age[c] <= Delay
    /\ beat[c] = "rest" => age[c] <= Beat
    /\ pc[c] \in {"new", "waiting", "asking"} => beat[c] = "off"
    /\ pc[c] = "calling" /\ redis => beat[c] # "off"

\* Time since the heartbeat that last renewed the lease, at most, and since the
\* one that last renewed the set.
Missing(c) == IF missed[c] = 0 THEN 0 ELSE Beat
Lag(c) == CASE beat[c] = "rest"     -> age[c] + Missing(c)
            [] beat[c] = "adding"   -> age[c] + Beat + Missing(c)
            [] beat[c] = "expiring" -> age[c]
            [] beat[c] = "failed"   -> age[c] + Beat
            [] OTHER                -> 0
KeyLag(c) == CASE beat[c] = "rest"     -> age[c] + Missing(c)
               [] beat[c] = "adding"   -> age[c] + Beat + Missing(c)
               [] beat[c] = "expiring" -> age[c] + Beat + Missing(c)
               [] beat[c] = "failed"   -> age[c] + Beat
               [] OTHER                -> 0

Safe(c) == redis /\ ~lapsed /\ pc[c] = "calling"

Lease(c) ==
  Safe(c) => /\ missed[c] <= 1 /\ (beat[c] = "failed" => missed[c] = 1)
             /\ c \in slots
             /\ left[c] >= TTL - Delay - Lag(c)
             /\ key >= 2 * TTL - KeyLag(c)

Leases == \A c \in Calls : Lease(c)

LimiterInv == TypeOK /\ Timed /\ Leases /\ Capacity

-----------------------------------------------------------------------------
(* Numbers                                                                  *)

\* The parameters as numbers.
LEMMA Numbers ==
  /\ TTL \in Nat /\ Beat \in Nat /\ Delay \in Nat /\ Skew \in Nat /\ Forever \in Nat
  /\ 0 < Beat /\ Delay < Beat /\ Beat < TTL /\ Forever = 2 * TTL + 1
  /\ 2 * Beat + 2 * Delay + Skew < TTL
  /\ Clock \in [Calls -> Nat] /\ \A c \in Calls : Clock[c] <= Skew
BY TimingAssumption, TimelyAssumption DEF Forever

\* A lease of a call that is not cut off is younger than its lifetime, by the skew.
LEMMA LagBound ==
  ASSUME TypeOK, Timed, Leases, NEW c \in Calls, Safe(c)
  PROVE  /\ beat[c] \in {"rest", "adding", "expiring", "failed"}
         /\ Lag(c) \in Nat /\ Lag(c) <= 2 * Beat + Delay
         /\ KeyLag(c) \in Nat /\ KeyLag(c) <= 2 * Beat + Delay
         /\ left[c] > Skew /\ key > 1 /\ c \in slots
<1>1. beat[c] \in {"rest", "adding", "expiring", "failed"} /\ age[c] \in Nat
  BY DEF TypeOK, Timed, Safe
<1>2. Missing(c) \in Nat /\ Missing(c) <= Beat
  BY Numbers DEF Missing
<1>3. Lag(c) \in Nat /\ Lag(c) <= 2 * Beat + Delay
  BY <1>1, <1>2, Numbers DEF Lag, Timed
<1>4. KeyLag(c) \in Nat /\ KeyLag(c) <= 2 * Beat + Delay
  BY <1>1, <1>2, Numbers DEF KeyLag, Timed
<1>5. /\ left[c] >= TTL - Delay - Lag(c) /\ left[c] \in Int
      /\ key >= 2 * TTL - KeyLag(c) /\ key \in Int /\ c \in slots
  BY Numbers DEF Leases, Lease, TypeOK
<1>6. left[c] > Skew /\ key > 1
  BY <1>3, <1>4, <1>5, Numbers
<1> QED
  BY <1>1, <1>3, <1>4, <1>5, <1>6

-----------------------------------------------------------------------------
(* Types                                                                    *)

\* What a prune leaves of the slots and their clocks is of their types.
LEMMA KeepTypes ==
  ASSUME TypeOK, NEW S \in SUBSET Calls, NEW ttl \in 0 .. Forever, Keep(S, ttl)
  PROVE  slots' \subseteq Calls /\ left' \in [Calls -> Int] /\ key' \in 0 .. Forever
BY Numbers DEF TypeOK, Keep

\* A score is a number, and what has not expired are calls.
LEMMA ScoreType ==
  ASSUME TypeOK, NEW c \in Calls
  PROVE  Score(c) \in Int /\ Unexpired(c) \in SUBSET Calls
BY Numbers DEF TypeOK, Score, Unexpired

\* Admission keeps the types.
LEMMA AdmitTypes ==
  ASSUME TypeOK, NEW c \in Calls, Admit(c)
  PROVE  slots' \subseteq Calls /\ left' \in [Calls -> Int] /\ key' \in 0 .. Forever
BY Numbers, ScoreType DEF TypeOK, Admit

\* A request for a slot keeps the types.
LEMMA AskTypes ==
  ASSUME TypeOK, NEW c \in Calls,
         Gate(c) \/ Ask(c) \/ Granted(c) \/ Denied(c) \/ AskFails(c) \/ Cancelled(c)
         \/ LocalGranted(c)
  PROVE  TypeOK'
<1> USE CallsAssumption
<1>1. CASE Gate(c)
  <2>1. cap' \in Nat \cup {None}
    BY <1>1 DEF TypeOK, Gate
  <2>2. lim' \in [Calls -> Limits]
    BY <1>1 DEF TypeOK, Gate
  <2>3. pc' \in [Calls -> Pcs]
    BY <1>1 DEF TypeOK, Pcs, Gate, Goto
  <2>4. UNCHANGED <<redis, limit, beat, age, missed, slots, left, key, lapsed, retunes, faults>>
    BY <1>1 DEF Gate, redisVars, boundVars
  <2> QED
    BY <2>1, <2>2, <2>3, <2>4 DEF TypeOK
<1>2. CASE Ask(c)
  BY <1>2 DEF TypeOK, Pcs, Ask, Goto, Restart, redisVars, boundVars
<1>3. CASE Granted(c)
  <2>1. slots' \subseteq Calls /\ left' \in [Calls -> Int] /\ key' \in 0 .. Forever
    BY <1>3, AdmitTypes DEF Granted
  <2>2. pc' \in [Calls -> Pcs] /\ age' \in [Calls -> Nat]
    BY <1>3 DEF TypeOK, Pcs, Granted, Goto, Restart
  <2>3. /\ beat' \in [Calls -> {"off", "rest", "adding", "expiring", "failed"}]
        /\ missed' \in [Calls -> 0 .. 2]
    BY <1>3 DEF TypeOK, Granted
  <2>4. UNCHANGED <<redis, limit, lim, cap, lapsed, retunes, faults>>
    BY <1>3 DEF Granted, boundVars
  <2> QED
    BY <2>1, <2>2, <2>3, <2>4 DEF TypeOK
<1>4. CASE Denied(c)
  <2>1. slots' \subseteq Calls /\ left' \in [Calls -> Int] /\ key' \in 0 .. Forever
    BY <1>4, KeepTypes, ScoreType DEF Denied, TypeOK
  <2> QED
    BY <1>4, <2>1 DEF TypeOK, Pcs, Denied, Goto, Restart, boundVars
<1>5. CASE AskFails(c)
  <2>1. slots' \subseteq Calls /\ left' \in [Calls -> Int] /\ key' \in 0 .. Forever
    <3>1. CASE Admit(c)
      BY <3>1, AdmitTypes
    <3>2. CASE Keep(Unexpired(c), key)
      BY <3>2, KeepTypes, ScoreType DEF TypeOK
    <3>3. CASE UNCHANGED redisVars
      BY <3>3 DEF TypeOK, redisVars
    <3> QED
      BY <1>5, <3>1, <3>2, <3>3 DEF AskFails
  <2>2. faults' \in 0 .. MaxFaults
    BY <1>5 DEF AskFails, Fault, TypeOK
  <2> QED
    BY <1>5, <2>1, <2>2 DEF TypeOK, Pcs, AskFails, Goto, Restart
<1>6. CASE Cancelled(c)
  BY <1>6 DEF TypeOK, Pcs, Cancelled, Goto, redisVars, boundVars
<1>7. CASE LocalGranted(c)
  BY <1>7 DEF TypeOK, Pcs, LocalGranted, Goto, redisVars, boundVars
<1> QED
  BY <1>1, <1>2, <1>3, <1>4, <1>5, <1>6, <1>7

\* A renewal that is missed keeps the types.
LEMMA MissTypes ==
  ASSUME TypeOK, NEW c \in Calls, Miss(c)
  PROVE  /\ missed' \in [Calls -> 0 .. 2] /\ lapsed' \in BOOLEAN
         /\ faults' \in 0 .. MaxFaults /\ retunes' \in 0 .. MaxRetunes
BY CallsAssumption DEF TypeOK, Miss, Fault

\* A heartbeat keeps the types.
LEMMA BeatTypes ==
  ASSUME TypeOK, NEW c \in Calls, Heartbeat(c)
  PROVE  TypeOK'
<1> USE CallsAssumption
<1>1. CASE Fire(c)
  BY <1>1 DEF TypeOK, Fire, Phase, Restart, redisVars, boundVars
<1>2. CASE Refresh(c)
  <2>1. slots' \subseteq Calls /\ left' \in [Calls -> Int] /\ key' \in 0 .. Forever
    BY <1>2, ScoreType, Numbers DEF Refresh, Add, TypeOK
  <2> QED
    BY <1>2, <2>1 DEF TypeOK, Refresh, Phase, boundVars
<1>3. CASE RefreshFails(c)
  <2>1. /\ missed' \in [Calls -> 0 .. 2] /\ lapsed' \in BOOLEAN
        /\ faults' \in 0 .. MaxFaults /\ retunes' \in 0 .. MaxRetunes
    BY <1>3, MissTypes DEF RefreshFails
  <2> QED
    BY <1>3, <2>1 DEF TypeOK, RefreshFails, Phase, redisVars
<1>4. CASE RenewKey(c)
  <2>1. key' \in 0 .. Forever
    BY <1>4, Numbers DEF RenewKey, Renew
  <2>2. missed' \in [Calls -> 0 .. 2]
    BY <1>4 DEF RenewKey, TypeOK
  <2> QED
    BY <1>4, <2>1, <2>2 DEF TypeOK, RenewKey, Phase, boundVars
<1>5. CASE RenewFails(c)
  <2>1. /\ missed' \in [Calls -> 0 .. 2] /\ lapsed' \in BOOLEAN
        /\ faults' \in 0 .. MaxFaults /\ retunes' \in 0 .. MaxRetunes
    BY <1>5, MissTypes DEF RenewFails, TypeOK, boundVars
  <2> QED
    BY <1>5, <2>1 DEF TypeOK, RenewFails, Phase, redisVars
<1>6. CASE BeatEnds(c)
  BY <1>6 DEF TypeOK, BeatEnds, Phase, Restart, redisVars, boundVars
<1> QED
  BY <1>1, <1>2, <1>3, <1>4, <1>5, <1>6 DEF Heartbeat

\* The end of a call keeps the types.
LEMMA EndTypes ==
  ASSUME TypeOK, NEW c \in Calls, Release(c) \/ Remove(c) \/ OpenEnds(c) \/ Die(c)
  PROVE  TypeOK'
<1> USE CallsAssumption
<1>1. CASE Release(c)
  BY <1>1 DEF TypeOK, Pcs, Release, Goto, redisVars, boundVars
<1>2. CASE Remove(c)
  <2>1. slots' \subseteq Calls /\ left' \in [Calls -> Int] /\ key' \in 0 .. Forever
    <3>1. CASE Keep(slots \ {c}, key)
      <4>1. slots \ {c} \in SUBSET Calls /\ key \in 0 .. Forever
        BY DEF TypeOK
      <4> QED
        BY <3>1, <4>1, KeepTypes
    <3>2. CASE UNCHANGED redisVars
      BY <3>2 DEF TypeOK, redisVars
    <3> QED
      BY <1>2, <3>1, <3>2 DEF Remove
  <2>2. faults' \in 0 .. MaxFaults
    BY <1>2 DEF Remove, Fault, TypeOK
  <2> QED
    BY <1>2, <2>1, <2>2 DEF TypeOK, Pcs, Remove, Goto
<1>3. CASE OpenEnds(c)
  BY <1>3 DEF TypeOK, Pcs, OpenEnds, Goto, redisVars, boundVars
<1>4. CASE Die(c)
  <2>1. faults' \in 0 .. MaxFaults
    BY <1>4 DEF Die, Fault, TypeOK
  <2> QED
    BY <1>4, <2>1 DEF TypeOK, Pcs, Die, Goto, Phase, Restart, redisVars
<1> QED
  BY <1>1, <1>2, <1>3, <1>4

\* Time keeps the types.
LEMMA TickTypes ==
  ASSUME TypeOK, Tick
  PROVE  TypeOK'
<1>1. age' \in [Calls -> Nat]
  BY DEF Tick, TypeOK
<1>2. slots' \subseteq Calls /\ left' \in [Calls -> Int] /\ key' \in 0 .. Forever
  <2>1. CASE key = 1
    BY <2>1, Numbers DEF Tick, TypeOK
  <2>2. CASE key # 1
    <3>1. left' \in [Calls -> Int] /\ slots' \subseteq Calls
      BY <2>2, Numbers DEF Tick, TypeOK
    <3>2. key' \in 0 .. Forever
      BY <2>2, Numbers DEF Tick, TypeOK
    <3> QED
      BY <3>1, <3>2
  <2> QED
    BY <2>1, <2>2
<1> QED
  BY <1>1, <1>2 DEF Tick, TypeOK, boundVars

\* Every step keeps the types.
LEMMA TypesHold == TypeOK /\ [Next]_vars => TypeOK'
<1> SUFFICES ASSUME TypeOK, [Next]_vars PROVE TypeOK'
  OBVIOUS
<1>1. CASE UNCHANGED vars
  BY <1>1 DEF TypeOK, vars, callVars, redisVars, boundVars
<1>2. ASSUME NEW c \in Calls, Progress(c) \/ Cancelled(c) \/ Heartbeat(c) \/ Release(c) \/ Die(c)
      PROVE  TypeOK'
  BY <1>2, AskTypes, BeatTypes, EndTypes DEF Progress
<1>3. ASSUME NEW n \in Limits, Retune(n) PROVE TypeOK'
  <2>1. retunes' \in 0 .. MaxRetunes
    BY <1>3, CallsAssumption DEF Retune, TypeOK
  <2> QED
    BY <1>3, <2>1 DEF Retune, TypeOK, callVars, redisVars
<1>4. CASE Tick
  BY <1>4, TickTypes
<1> QED
  BY <1>1, <1>2, <1>3, <1>4 DEF Next

-----------------------------------------------------------------------------
(* Times                                                                    *)

\* A step of one call leaves the others' goroutines alone.
Alone(c) == \A d \in Calls \ {c} : pc'[d] = pc[d] /\ beat'[d] = beat[d] /\ age'[d] = age[d]
                                   /\ missed'[d] = missed[d]

Steps(c) == Progress(c) \/ Cancelled(c) \/ Heartbeat(c) \/ Release(c) \/ Die(c)

\* A step of one call leaves the others' clocks.
LEMMA StepsAlone ==
  ASSUME TypeOK, NEW c \in Calls, Steps(c)
  PROVE  Alone(c) /\ redis' = redis
<1>1. CASE Progress(c)
  BY <1>1 DEF Progress, Gate, Ask, Granted, Denied, AskFails, LocalGranted, Remove, OpenEnds,
    Alone, Goto, Restart, TypeOK
<1>2. CASE Heartbeat(c)
  <2>1. CASE Fire(c) \/ Refresh(c) \/ BeatEnds(c)
    BY <2>1 DEF Fire, Refresh, BeatEnds, Alone, Phase, Restart, TypeOK
  <2>2. CASE RefreshFails(c)
    BY <2>2 DEF RefreshFails, Alone, Phase, Miss, TypeOK
  <2>3. CASE RenewKey(c)
    BY <2>3 DEF RenewKey, Alone, Phase, TypeOK
  <2>4. CASE RenewFails(c)
    BY <2>4 DEF RenewFails, Alone, Phase, Miss, TypeOK
  <2> QED
    BY <1>2, <2>1, <2>2, <2>3, <2>4 DEF Heartbeat
<1>3. CASE Cancelled(c) \/ Release(c) \/ Die(c)
  BY <1>3 DEF Cancelled, Release, Die, Alone, Goto, Phase, Restart, TypeOK
<1> QED
  BY <1>1, <1>2, <1>3 DEF Steps

OnTime(c) ==
  /\ pc[c] = "asking" => age[c] <= Delay
  /\ beat[c] \in {"adding", "expiring", "failed"} => age[c] <= Delay
  /\ beat[c] = "rest" => age[c] <= Beat
  /\ pc[c] \in {"new", "waiting", "asking"} => beat[c] = "off"
  /\ pc[c] = "calling" /\ redis => beat[c] # "off"

\* A step of a call keeps every deadline.
LEMMA StepsOnTime ==
  ASSUME TypeOK, NEW c \in Calls, OnTime(c), Steps(c)
  PROVE  OnTime(c)'
<1> USE Numbers
<1>1. CASE Gate(c) \/ Ask(c) \/ Cancelled(c) \/ OpenEnds(c)
  BY <1>1 DEF Gate, Ask, Cancelled, OpenEnds, Goto, Restart, OnTime, TypeOK
<1>2. CASE Granted(c)
  BY <1>2 DEF Granted, Goto, Restart, OnTime, TypeOK
<1>3. CASE Denied(c) \/ AskFails(c)
  BY <1>3 DEF Denied, AskFails, Goto, Restart, OnTime, TypeOK
<1>4. CASE LocalGranted(c)
  BY <1>4 DEF LocalGranted, Goto, OnTime, TypeOK
<1>5. CASE Fire(c) \/ BeatEnds(c)
  BY <1>5 DEF Fire, BeatEnds, Phase, Restart, OnTime, TypeOK
<1>6. CASE Refresh(c) \/ RefreshFails(c)
  BY <1>6 DEF Refresh, RefreshFails, Phase, OnTime, TypeOK
<1>7. CASE RenewKey(c) \/ RenewFails(c)
  BY <1>7 DEF RenewKey, RenewFails, Phase, OnTime, TypeOK
<1>8. CASE Release(c) \/ Remove(c)
  BY <1>8 DEF Release, Remove, Goto, OnTime, TypeOK
<1>9. CASE Die(c)
  BY <1>9 DEF Die, Goto, Phase, Restart, OnTime, TypeOK
<1> QED
  BY <1>1, <1>2, <1>3, <1>4, <1>5, <1>6, <1>7, <1>8, <1>9 DEF Steps, Progress, Heartbeat

\* Time passes no deadline.
LEMMA TickOnTime ==
  ASSUME TypeOK, NEW c \in Calls, OnTime(c), Tick
  PROVE  OnTime(c)'
<1>1. age'[c] = IF pc[c] = "asking" \/ beat[c] # "off" THEN age[c] + 1 ELSE age[c]
  BY DEF Tick
<1>2. pc' = pc /\ beat' = beat /\ redis' = redis /\ Timely(c) /\ age[c] \in Nat
  BY DEF Tick, TypeOK
<1> QED
  BY <1>1, <1>2, Numbers DEF OnTime, Timely

\* Every step keeps the deadlines.
LEMMA TimesHold == TypeOK /\ Timed /\ [Next]_vars => Timed'
<1> SUFFICES ASSUME TypeOK, Timed, [Next]_vars, NEW d \in Calls PROVE OnTime(d)'
  BY DEF Timed, OnTime
<1>0. OnTime(d)
  BY DEF Timed, OnTime
<1>1. CASE UNCHANGED vars
  BY <1>0, <1>1 DEF OnTime, vars, callVars
<1>2. ASSUME NEW c \in Calls, Steps(c) PROVE OnTime(d)'
  <2>1. CASE d = c
    BY <1>0, <1>2, <2>1, StepsOnTime
  <2>2. CASE d # c
    BY <1>0, <1>2, <2>2, StepsAlone DEF Alone, OnTime
  <2> QED
    BY <2>1, <2>2
<1>3. ASSUME NEW n \in Limits, Retune(n) PROVE OnTime(d)'
  BY <1>0, <1>3 DEF Retune, OnTime, callVars
<1>4. CASE Tick
  BY <1>0, <1>4, TickOnTime
<1> QED
  BY <1>1, <1>2, <1>3, <1>4 DEF Next, Steps

-----------------------------------------------------------------------------
(* Leases                                                                   *)

\* Redis keeps a call's lease and does not shorten the life of the set.
Spares(d) == Safe(d) => /\ d \in slots' /\ left'[d] = left[d]
                        /\ key' = key \/ key' >= 2 * TTL

\* A lease that a step spares stays in force.
LEMMA SparedLease ==
  ASSUME TypeOK, TypeOK', Timed, Leases, NEW d \in Calls, Spares(d), redis' = redis, lapsed' \in BOOLEAN,
         lapsed => lapsed', pc'[d] = pc[d], beat'[d] = beat[d], age'[d] = age[d],
         missed'[d] = missed[d]
  PROVE  Lease(d)'
<1> SUFFICES ASSUME Safe(d)' PROVE Lease(d)'
  BY DEF Lease
<1>1. Safe(d)
  BY DEF Safe
<1>2. Lag(d)' = Lag(d) /\ KeyLag(d)' = KeyLag(d)
  BY DEF Lag, KeyLag, Missing
<1>3. Lease(d) /\ KeyLag(d) \in Nat /\ key' \in Int /\ TTL \in Nat
  BY <1>1, LagBound, Numbers DEF Leases, TypeOK
<1> QED
  BY <1>1, <1>2, <1>3 DEF Lease, Spares

\* Nobody's clock makes a live lease look expired.
LEMMA PruningSpares ==
  ASSUME TypeOK, Timed, Leases, NEW c \in Calls, NEW d \in Calls, Safe(d)
  PROVE  d \in Unexpired(c)
<1>1. left[d] > Skew /\ d \in slots /\ left[d] \in Int
  BY LagBound DEF TypeOK
<1>2. Clock[c] <= Skew /\ Clock[c] \in Nat /\ age[c] \in Nat
  BY Numbers DEF TypeOK
<1> QED
  BY <1>1, <1>2, Numbers DEF Unexpired

\* A call whose slot is kept is spared.
LEMMA KeepSpares ==
  ASSUME NEW d \in Calls, NEW S, Keep(S, key), d \in S
  PROVE  Spares(d)
BY DEF Keep, Spares

\* Admission prunes no lease in force of another call.
LEMMA AdmitSpares ==
  ASSUME TypeOK, Timed, Leases, NEW c \in Calls, NEW d \in Calls, d # c, Admit(c)
  PROVE  Spares(d)
BY PruningSpares, Numbers DEF Admit, Spares

\* No step of a call prunes another's lease.
LEMMA StepsSpare ==
  ASSUME TypeOK, Timed, Leases, NEW c \in Calls, NEW d \in Calls, d # c, Steps(c)
  PROVE  Spares(d) /\ (lapsed => lapsed')
<1>1. CASE Granted(c)
  BY <1>1, AdmitSpares DEF Granted, boundVars
<1>2. CASE Denied(c)
  BY <1>2, KeepSpares, PruningSpares DEF Denied, boundVars, Spares
<1>3. CASE AskFails(c)
  <2>1. CASE Admit(c)
    BY <1>3, <2>1, AdmitSpares DEF AskFails
  <2>2. CASE Keep(Unexpired(c), key)
    BY <1>3, <2>2, KeepSpares, PruningSpares DEF AskFails, Spares
  <2>3. CASE UNCHANGED redisVars
    BY <1>3, <2>3, LagBound DEF AskFails, redisVars, Spares
  <2> QED
    BY <1>3, <2>1, <2>2, <2>3 DEF AskFails
<1>4. CASE Refresh(c)
  <2>1. Safe(d) => d \in slots
    BY LagBound
  <2>2. left' = [left EXCEPT ![c] = Score(c)] /\ left \in [Calls -> Int]
    BY <1>4 DEF Refresh, Add, TypeOK
  <2>3. Safe(d) => d \in slots' /\ key' = key
    BY <1>4, <2>1 DEF Refresh, Add
  <2>4. left'[d] = left[d] /\ lapsed' = lapsed
    BY <1>4, <2>2 DEF Refresh, boundVars
  <2> QED
    BY <2>3, <2>4 DEF Spares
<1>5. CASE RenewKey(c)
  <2>1. Safe(d) => key' = 2 * TTL
    BY <1>5, LagBound DEF RenewKey, Renew
  <2> QED
    BY <1>5, <2>1, LagBound, Numbers DEF RenewKey, Spares, boundVars
<1>6. CASE Remove(c)
  <2>1. CASE Keep(slots \ {c}, key)
    BY <1>6, <2>1, KeepSpares, LagBound DEF Remove, Spares
  <2>2. CASE UNCHANGED redisVars
    BY <1>6, <2>2, LagBound DEF Remove, redisVars, Spares
  <2> QED
    BY <1>6, <2>1, <2>2 DEF Remove
<1>7. CASE \/ Gate(c) \/ Ask(c) \/ LocalGranted(c) \/ OpenEnds(c) \/ Cancelled(c) \/ Release(c)
           \/ Die(c) \/ Fire(c) \/ BeatEnds(c)
  BY <1>7, LagBound DEF Gate, Ask, LocalGranted, OpenEnds, Cancelled, Release, Die, Fire, BeatEnds,
    redisVars, boundVars, Spares
<1>8. CASE RefreshFails(c) \/ RenewFails(c)
  <2>1. UNCHANGED redisVars
    BY <1>8 DEF RefreshFails, RenewFails
  <2>2. lapsed => lapsed'
    BY <1>8 DEF RefreshFails, RenewFails, Miss, boundVars
  <2> QED
    BY <2>1, <2>2, LagBound DEF redisVars, Spares
<1> QED
  BY <1>1, <1>2, <1>3, <1>4, <1>5, <1>6, <1>7, <1>8 DEF Steps, Progress, Heartbeat

\* A call's own steps: let in, it starts with a fresh lease.
LEMMA GrantLeases ==
  ASSUME TypeOK, Timed, NEW c \in Calls, Granted(c)
  PROVE  Lease(c)'
<1>1. age[c] \in Nat /\ age[c] <= Delay /\ Clock[c] \in Nat
  BY Numbers DEF TypeOK, Timed, Granted
<1>2. left'[c] = TTL + Clock[c] - age[c] /\ c \in slots' /\ key' = 2 * TTL
  BY DEF Granted, Admit, Score
<1>3. beat'[c] = "rest" /\ age'[c] = 0 /\ missed'[c] = 0
  BY DEF Granted, Restart, TypeOK
<1>4. Lag(c)' = 0 /\ KeyLag(c)' = 0
  BY <1>3 DEF Lag, KeyLag, Missing
<1> QED
  BY <1>1, <1>2, <1>3, <1>4, Numbers DEF Lease

\* Its heartbeats keep it, one of them lost.
LEMMA BeatLeases ==
  ASSUME TypeOK, Timed, NEW c \in Calls, Lease(c), Heartbeat(c)
  PROVE  Lease(c)'
<1> SUFFICES ASSUME Safe(c)' PROVE Lease(c)'
  BY DEF Lease
<1>0. /\ age[c] \in Nat /\ missed[c] \in 0 .. 2 /\ left[c] \in Int /\ key \in Nat
      /\ Clock[c] \in Nat
  BY Numbers DEF TypeOK
<1>1. CASE Fire(c)
  <2>1. Safe(c) /\ beat[c] = "rest" /\ age[c] = Beat /\ beat'[c] = "adding" /\ age'[c] = 0
    BY <1>1 DEF Fire, Phase, Restart, TypeOK, Safe, boundVars
  <2>2. UNCHANGED <<missed, slots, left, key>>
    BY <1>1 DEF Fire, redisVars
  <2>3. Lag(c)' = Lag(c) /\ KeyLag(c)' = KeyLag(c)
    BY <1>0, <2>1, <2>2, Numbers DEF Lag, KeyLag, Missing
  <2> QED
    BY <2>1, <2>2, <2>3 DEF Lease
<1>2. CASE Refresh(c)
  <2>1. Safe(c) /\ beat[c] = "adding" /\ age[c] <= Delay /\ beat'[c] = "expiring"
    BY <1>2 DEF Refresh, Phase, TypeOK, Safe, boundVars, Timed
  <2>2. /\ left'[c] = TTL + Clock[c] - age[c] /\ c \in slots' /\ key' = key
        /\ UNCHANGED <<missed, age>>
    BY <1>2, <2>1 DEF Refresh, Add, Score, Lease, TypeOK
  <2>3. Lag(c)' = age[c] /\ KeyLag(c)' = KeyLag(c)
    BY <2>1, <2>2 DEF Lag, KeyLag, Missing
  <2> QED
    BY <1>0, <2>1, <2>2, <2>3, Numbers DEF Lease
<1>3. CASE RefreshFails(c)
  <2>1. /\ Safe(c) /\ beat[c] = "adding" /\ beat'[c] = "failed"
        /\ missed[c] = 0 /\ missed'[c] = 1
    BY <1>0, <1>3 DEF RefreshFails, Miss, Phase, TypeOK, Safe
  <2>2. UNCHANGED <<age, slots, left, key>>
    BY <1>3 DEF RefreshFails, redisVars
  <2>3. Lag(c)' = Lag(c) /\ KeyLag(c)' = KeyLag(c)
    BY <1>0, <2>1, <2>2, Numbers DEF Lag, KeyLag, Missing
  <2> QED
    BY <2>1, <2>2, <2>3 DEF Lease
<1>4. CASE RenewKey(c)
  <2>1. /\ Safe(c) /\ beat[c] \in {"expiring", "failed"} /\ beat'[c] = "rest"
        /\ missed'[c] = IF beat[c] = "failed" THEN missed[c] ELSE 0
    BY <1>4 DEF RenewKey, Phase, TypeOK, Safe, boundVars
  <2>2. key' = 2 * TTL /\ UNCHANGED <<age, slots, left>> /\ c \in slots
    BY <1>4, <2>1 DEF RenewKey, Renew, Lease
  <2>3. missed'[c] \in {0, 1}
    BY <2>1 DEF Lease
  <2>4. Lag(c)' = Lag(c)
    BY <1>0, <2>1, <2>2, <2>3, Numbers DEF Lag, Missing, Lease
  <2>5. KeyLag(c)' \in Nat
    BY <1>0, <2>1, <2>2, Numbers DEF KeyLag, Missing
  <2> QED
    BY <1>0, <2>1, <2>2, <2>3, <2>4, <2>5, Numbers DEF Lease
<1>5. CASE RenewFails(c)
  <2>1. Safe(c) /\ beat'[c] = "rest"
    BY <1>5 DEF RenewFails, Miss, Phase, TypeOK, Safe, boundVars
  <2>2. UNCHANGED <<age, slots, left, key>>
    BY <1>5 DEF RenewFails, redisVars
  <2>3. CASE beat[c] = "expiring"
    <3>1. missed[c] = 0 /\ missed'[c] = 1
      BY <1>0, <1>5, <2>3 DEF RenewFails, Miss, TypeOK, Safe
    <3>2. Lag(c)' = Lag(c) + Beat /\ KeyLag(c)' = KeyLag(c) /\ Lag(c) = age[c]
      BY <1>0, <2>1, <2>2, <2>3, <3>1, Numbers DEF Lag, KeyLag, Missing
    <3> QED
      BY <1>0, <2>1, <2>2, <3>1, <3>2, Numbers DEF Lease
  <2>4. CASE beat[c] = "failed"
    <3>1. missed' = missed /\ missed[c] = 1
      BY <1>5, <2>1, <2>4 DEF RenewFails, Lease
    <3>2. Lag(c)' = Lag(c) /\ KeyLag(c)' = KeyLag(c)
      BY <1>0, <2>1, <2>2, <2>4, <3>1, Numbers DEF Lag, KeyLag, Missing
    <3> QED
      BY <2>1, <2>2, <3>1, <3>2 DEF Lease
  <2> QED
    BY <1>5, <2>3, <2>4 DEF RenewFails
<1>6. CASE BeatEnds(c)
  BY <1>6 DEF BeatEnds, Safe
<1> QED
  BY <1>1, <1>2, <1>3, <1>4, <1>5, <1>6 DEF Heartbeat

\* Time ends no lease of a call that renews it.
LEMMA TickLeases ==
  ASSUME TypeOK, Timed, Leases, NEW c \in Calls, Tick
  PROVE  Lease(c)'
<1> SUFFICES ASSUME Safe(c)' PROVE Lease(c)'
  BY DEF Lease
<1>1. Safe(c) /\ UNCHANGED <<pc, beat, missed>> /\ Timely(c)
  BY DEF Tick, Safe, boundVars
<1>2. /\ beat[c] \in {"rest", "adding", "expiring", "failed"}
      /\ left[c] > Skew /\ key > 1 /\ c \in slots
  BY <1>1, LagBound
<1>3. /\ age[c] \in Nat /\ left[c] \in Int /\ key \in Nat /\ left \in [Calls -> Int]
      /\ missed[c] \in 0 .. 2
  BY Numbers DEF TypeOK
<1>4. age'[c] = age[c] + 1
  BY <1>2 DEF Tick
<1>5. c \in slots' /\ left'[c] = left[c] - 1 /\ key' >= key - 1 /\ key' \in Nat
  BY <1>2, <1>3, Numbers DEF Tick
<1>6. Lag(c)' = Lag(c) + 1 /\ KeyLag(c)' = KeyLag(c) + 1
  BY <1>1, <1>2, <1>3, <1>4, Numbers DEF Lag, KeyLag, Missing
<1>7. Lag(c) \in Nat /\ KeyLag(c) \in Nat
  BY <1>1, LagBound
<1> QED
  BY <1>1, <1>3, <1>5, <1>6, <1>7, Numbers DEF Lease, Leases

\* Every step keeps the leases.
LEMMA LeasesHold == TypeOK /\ Timed /\ Leases /\ [Next]_vars => Leases'
<1> SUFFICES ASSUME TypeOK, Timed, Leases, [Next]_vars, NEW d \in Calls PROVE Lease(d)'
  BY DEF Leases
<1>0. Lease(d) /\ TypeOK'
  BY TypesHold DEF Leases
<1>1. CASE UNCHANGED vars
  BY <1>0, <1>1 DEF Lease, Safe, Lag, KeyLag, Missing, vars, callVars, redisVars, boundVars
<1>2. ASSUME NEW c \in Calls, Steps(c) PROVE Lease(d)'
  <2>1. CASE d # c
    <3>1. Spares(d) /\ (lapsed => lapsed') /\ Alone(c) /\ redis' = redis
      BY <1>2, <2>1, StepsSpare, StepsAlone
    <3>2. lapsed' \in BOOLEAN
      BY <1>0 DEF TypeOK
    <3>3. pc'[d] = pc[d] /\ beat'[d] = beat[d] /\ age'[d] = age[d] /\ missed'[d] = missed[d]
      BY <2>1, <3>1 DEF Alone
    <3> QED
      BY <1>0, <3>1, <3>2, <3>3, SparedLease
  <2>2. CASE d = c
    <3>1. CASE Granted(c)
      BY <2>2, <3>1, GrantLeases
    <3>2. CASE Heartbeat(c)
      BY <1>0, <2>2, <3>2, BeatLeases
    <3>3. CASE \/ Gate(c) \/ Ask(c) \/ Denied(c) \/ AskFails(c) \/ OpenEnds(c) \/ Cancelled(c)
               \/ Release(c) \/ Remove(c) \/ Die(c)
      <4>1. pc'[c] # "calling"
        BY <3>3 DEF Gate, Ask, Denied, AskFails, OpenEnds, Cancelled, Release, Remove, Die, Goto,
          TypeOK
      <4> QED
        BY <2>2, <4>1 DEF Lease, Safe
    <3>4. CASE LocalGranted(c)
      BY <2>2, <3>4 DEF LocalGranted, Lease, Safe
    <3> QED
      BY <1>2, <3>1, <3>2, <3>3, <3>4 DEF Steps, Progress
  <2> QED
    BY <2>1, <2>2
<1>3. ASSUME NEW n \in Limits, Retune(n) PROVE Lease(d)'
  BY <1>0, <1>3 DEF Retune, Lease, Safe, Lag, KeyLag, Missing, callVars, redisVars
<1>4. CASE Tick
  BY <1>4, TickLeases
<1> QED
  BY <1>1, <1>2, <1>3, <1>4 DEF Next, Steps

-----------------------------------------------------------------------------
(* The limits                                                               *)

\* Who stays keeps the limit it was given; the calls that leave do not matter.
LEMMA FewerHolders ==
  ASSUME Capacity, Holding' \subseteq Holding, \A c \in Holding : lim'[c] = lim[c],
         redis' = redis, lapsed => lapsed', lapsed' \in BOOLEAN
  PROVE  Capacity'
BY DEF Capacity

\* One more is let in where all who hold a slot have their lease counted.
LEMMA OneMoreHolder ==
  ASSUME TypeOK, Timed, Leases, Capacity, NEW c \in Calls, Granted(c)
  PROVE  Capacity'
<1>1. UNCHANGED <<redis, lim, lapsed>> /\ lim \in [Calls -> Nat]
  BY CallsAssumption DEF Granted, boundVars, TypeOK
<1> SUFFICES ASSUME redis, ~lapsed, NEW H \in SUBSET (Holding'), H # {}
             PROVE  \E h \in H : Cardinality(H) <= lim[h]
  BY <1>1 DEF Capacity
<1>2. Holding' = Holding \cup {c} /\ c \notin Holding
  BY DEF Granted, Goto, Holding, TypeOK
<1>3. CASE c \notin H
  BY <1>2, <1>3 DEF Capacity
<1>4. CASE c \in H
  <2>1. H \ {c} \subseteq Unexpired(c)
    <3>1. \A d \in Holding : d \in Calls /\ Safe(d)
      BY DEF Holding, Safe
    <3>2. \A d \in Holding : d \in Unexpired(c)
      BY <3>1, PruningSpares
    <3> QED
      BY <1>2, <3>2
  <2>2. /\ IsFiniteSet(Unexpired(c)) /\ Cardinality(Unexpired(c)) \in Nat
        /\ Cardinality(Unexpired(c)) < lim[c]
    <3>1. Unexpired(c) \subseteq Calls
      BY DEF Unexpired, TypeOK
    <3>2. IsFiniteSet(Unexpired(c)) /\ Cardinality(Unexpired(c)) \in Nat
      BY <3>1, CallsAssumption, FS_Subset, FS_CardinalityType
    <3> QED
      BY <1>1, <3>2 DEF Granted, Full
  <2>3. /\ IsFiniteSet(H \ {c}) /\ Cardinality(H \ {c}) \in Nat
        /\ Cardinality(H \ {c}) <= Cardinality(Unexpired(c))
    BY <2>1, <2>2, FS_Subset, FS_CardinalityType
  <2>4. Cardinality(H) = Cardinality(H \ {c}) + 1
    <3>1. H = (H \ {c}) \cup {c} /\ c \notin H \ {c}
      BY <1>4
    <3> QED
      BY <2>3, <3>1, FS_AddElement
  <2>5. Cardinality(H) <= lim[c]
    BY <1>1, <2>2, <2>3, <2>4
  <2> QED
    BY <1>4, <2>5
<1> QED
  BY <1>3, <1>4

\* Every step keeps the number of holders.
LEMMA CapacityHolds == TypeOK /\ Timed /\ Leases /\ Capacity /\ [Next]_vars => Capacity'
<1> SUFFICES ASSUME TypeOK, Timed, Leases, Capacity, [Next]_vars PROVE Capacity'
  OBVIOUS
<1>0. lapsed' \in BOOLEAN
  BY TypesHold DEF TypeOK
<1>1. CASE UNCHANGED vars
  BY <1>1 DEF Capacity, Holding, vars, callVars, boundVars
<1>2. ASSUME NEW c \in Calls, Steps(c) PROVE Capacity'
  <2>1. CASE Granted(c)
    BY <2>1, OneMoreHolder
  <2>2. CASE LocalGranted(c)
    BY <2>2 DEF LocalGranted, Capacity
  <2>3. CASE Gate(c)
    <3>1. Holding' = Holding /\ c \notin Holding
      BY <2>3 DEF Gate, Goto, Holding, TypeOK
    <3>2. \A d \in Holding : lim'[d] = lim[d]
      BY <2>3, <3>1 DEF Gate, TypeOK, Holding
    <3> QED
      BY <1>0, <2>3, <3>1, <3>2, FewerHolders DEF Gate, boundVars
  <2>4. CASE \/ Ask(c) \/ Denied(c) \/ AskFails(c) \/ Remove(c) \/ OpenEnds(c)
             \/ Cancelled(c) \/ Release(c) \/ Die(c)
    <3>1. Holding' \subseteq Holding
      BY <2>4 DEF Ask, Denied, AskFails, Remove, OpenEnds, Cancelled, Release, Die, Goto,
        Holding, TypeOK
    <3>2. UNCHANGED <<lim, redis, lapsed>>
      BY <2>4 DEF Ask, Denied, AskFails, Remove, OpenEnds, Cancelled, Release, Die, boundVars
    <3> QED
      BY <1>0, <3>1, <3>2, FewerHolders
  <2>5. CASE Heartbeat(c)
    <3>1. Holding' = Holding /\ UNCHANGED <<lim, redis>>
      BY <2>5 DEF Heartbeat, Fire, Refresh, RefreshFails, RenewKey, RenewFails, BeatEnds, Holding
    <3>2. lapsed => lapsed'
      BY <2>5 DEF Heartbeat, Fire, Refresh, RefreshFails, RenewKey, RenewFails, BeatEnds, Miss,
        boundVars
    <3> QED
      BY <1>0, <3>1, <3>2, FewerHolders
  <2> QED
    BY <1>2, <2>1, <2>2, <2>3, <2>4, <2>5 DEF Steps, Progress
<1>3. ASSUME NEW n \in Limits, Retune(n) PROVE Capacity'
  BY <1>3 DEF Retune, Capacity, Holding, callVars
<1>4. CASE Tick
  BY <1>4 DEF Tick, Capacity, Holding, boundVars
<1> QED
  BY <1>1, <1>2, <1>3, <1>4 DEF Next, Steps

-----------------------------------------------------------------------------

\* The invariant holds at the start.
LEMMA InitHolds == Init => LimiterInv
<1> SUFFICES ASSUME Init PROVE LimiterInv
  OBVIOUS
<1>1. TypeOK
  <2>1. /\ lim \in [Calls -> Limits] /\ pc \in [Calls -> Pcs]
        /\ beat \in [Calls -> {"off", "rest", "adding", "expiring", "failed"}]
    BY DEF Init, Pcs
  <2>2. /\ age \in [Calls -> Nat] /\ missed \in [Calls -> 0 .. 2]
        /\ left \in [Calls -> Int] /\ slots \subseteq Calls
    BY DEF Init
  <2>3. key \in 0 .. Forever /\ retunes \in 0 .. MaxRetunes /\ faults \in 0 .. MaxFaults
    BY CallsAssumption, Numbers DEF Init
  <2> QED
    BY <2>1, <2>2, <2>3 DEF Init, TypeOK
<1>2. Timed /\ Leases /\ Capacity
  BY DEF Init, Timed, Leases, Lease, Safe, Capacity, Holding
<1> QED
  BY <1>1, <1>2 DEF LimiterInv

\* Every state is one the invariant describes.
THEOREM InvHolds == Spec => []LimiterInv
<1>1. Init => LimiterInv
  BY InitHolds
<1>2. LimiterInv /\ [Next]_vars => LimiterInv'
  BY TypesHold, TimesHold, LeasesHold, CapacityHolds DEF LimiterInv
<1> QED
  BY <1>1, <1>2, PTL DEF Spec

\* Every variable of the limiter keeps its type.
THEOREM TypesCorrect == Spec => []TypeOK
<1>1. LimiterInv => TypeOK
  BY DEF LimiterInv
<1> QED
  BY <1>1, InvHolds, PTL

\* Who holds a slot has its lease in Redis, unexpired by anyone's clock
\* (limiter.go:170-202), one heartbeat in a row lost and however long the call.
THEOREM HoldersKeepTheirLease == Spec => []LeaseIsKept
<1>1. LimiterInv => LeaseIsKept
  <2> SUFFICES ASSUME LimiterInv, redis, ~lapsed, NEW c \in Holding
               PROVE  c \in slots /\ left[c] > Skew /\ key > 0
    BY DEF LeaseIsKept
  <2>1. c \in Calls /\ Safe(c)
    BY DEF Holding, Safe
  <2>2. left[c] > Skew /\ key > 1 /\ c \in slots /\ key \in Nat
    BY <2>1, LagBound, Numbers DEF LimiterInv, TypeOK
  <2> QED
    BY <2>2
<1> QED
  BY <1>1, InvHolds, PTL

\* Nobody is let in over the limit it was given (limiter.go:82-96).
THEOREM NobodyOverLimit == Spec => []Capacity
<1>1. LimiterInv => Capacity
  BY DEF LimiterInv
<1> QED
  BY <1>1, InvHolds, PTL
=============================================================================
