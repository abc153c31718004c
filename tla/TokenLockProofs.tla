-------------------------- MODULE TokenLockProofs --------------------------
(***************************************************************************)
(* Safety of the renewable lock, for every set of calls and all timings    *)
(* that meet TimelyAssumption.                                             *)
(***************************************************************************)
EXTENDS TokenLock, TLAPS

\* The parameters as numbers.
LEMMA Timings ==
  /\ Lease \in Nat /\ RenewEvery \in Nat /\ MaxDelay \in Nat /\ MaxLoss \in Nat
  /\ 0 < RenewEvery /\ MaxDelay < RenewEvery /\ RenewEvery + MaxDelay + MaxDelay < Lease
BY TimingAssumption, TimelyAssumption

Before == {"idle", "asking", "won", "beaten", "retry"}
Working == {"idle", "sent", "applied", "denied"}

\* A call that has not run yet has no renewal and nothing to report.
Fresh(c) == pc[c] \in Before => ren[c] = "off" /\ ~broke[c] /\ exposed[c] = 0

\* Only a call that failed while it waited can still store its token.
StrayOver(c) == <<c, "setnx">> \in stray => pc[c] = "error"

\* The renewal goroutine of a live callback works, and its ticker fired when
\* its request was sent.
Renewing(c) ==
  /\ Owning(c) => ren[c] \in Working
  /\ pc[c] = "running" /\ ren[c] \in {"sent", "applied", "denied"} => tick[c] = age[c]

\* As long as Redis loses nothing the key is a live call's, and its lease
\* reaches beyond the next renewal.
Covered(c) ==
  losses = 0 =>
    /\ pc[c] = "won" => holder = c /\ ttl + age[c] >= Lease
    /\ Owning(c) =>
         /\ holder = c
         /\ ren[c] = "idle" => ttl + tick[c] > RenewEvery + MaxDelay
         /\ ren[c] = "sent" => ttl + age[c] > MaxDelay
         /\ ren[c] = "applied" => ttl + age[c] >= Lease
         /\ ren[c] # "denied"

\* A live callback without the key has run no longer than its ticker shows.
Noticed(c) ==
  /\ exposed[c] <= RenewEvery + MaxDelay
  /\ Owning(c) =>
       /\ holder = c => exposed[c] = 0
       /\ ren[c] \in {"idle", "applied"} => exposed[c] <= tick[c]
       /\ ren[c] \in {"sent", "denied"} => exposed[c] <= RenewEvery + age[c]

\* A token that left the key never comes back to it.
Reported(c) ==
  /\ broke[c] /\ pc[c] \in {"running", "stopping", "releasing"} => holder # c
  /\ pc[c] = "ok" => ~broke[c]

CallInv(c) == /\ Fresh(c) /\ StrayOver(c) /\ Renewing(c)
              /\ Covered(c) /\ Noticed(c) /\ Reported(c)

LockInv == TypeOK /\ \A c \in Calls : CallInv(c)

\* What a step of another call, or of Redis, may do to a call: nothing to
\* itself, and to the key only what the scripts allow.
Bystander(c) ==
  /\ pc'[c] = pc[c] /\ ren'[c] = ren[c] /\ age'[c] = age[c] /\ tick'[c] = tick[c]
  /\ live'[c] = live[c] /\ exposed'[c] = exposed[c]
  /\ <<c, "setnx">> \in stray' => <<c, "setnx">> \in stray
  /\ losses' = 0 => losses = 0
  /\ holder = c => \/ holder' = c /\ ttl' >= ttl /\ broke'[c] = broke[c]
                   \/ pc[c] # "running" /\ ~(losses' = 0 /\ pc[c] = "won")
                      /\ holder' # c /\ broke'[c] = broke[c]
                   \/ losses' # 0 /\ holder' # c /\ broke'[c] = (broke[c] \/ pc[c] = "running")
  /\ holder # c => holder' # c /\ broke'[c] = broke[c]

\* A call that a step leaves alone keeps its part of the invariant.
LEMMA BystanderKeeps ==
  ASSUME TypeOK, TypeOK', NEW c \in Calls, CallInv(c), Bystander(c)
  PROVE  CallInv(c)'
<1> USE Timings DEF CallInv, Bystander, TypeOK
<1>1. Fresh(c)' /\ StrayOver(c)'
  BY DEF Fresh, StrayOver, Before
<1>2. Renewing(c)'
  BY DEF Renewing, Owning
<1>3. Covered(c)'
  BY DEF Covered, Owning
<1>4. Noticed(c)'
  BY DEF Noticed, Owning
<1>5. Reported(c)'
  BY DEF Reported
<1> QED
  BY <1>1, <1>2, <1>3, <1>4, <1>5

-----------------------------------------------------------------------------
(* Types                                                                    *)

\* The types hold at the start,
LEMMA TypeInit == ASSUME Init PROVE TypeOK
BY Timings, TokensAssumption DEF Init, TypeOK, Pcs, Rens

\* and every step keeps them.
LEMMA TypeStep == ASSUME TypeOK, [Next]_vars PROVE TypeOK'
<1> USE Timings, TokensAssumption DEF TypeOK, Goto, Sent, RenGoto, redisVars, callVars, ghostVars
<1>1. ASSUME NEW c \in Calls, Ask(c) \/ AskExecuted(c) \/ Beaten(c) \/ Resend(c)
      PROVE TypeOK'
  BY <1>1 DEF Ask, AskExecuted, Beaten, Resend, SetNX, Pcs
<1>2. ASSUME NEW c \in Calls, Acquired(c) PROVE TypeOK'
  BY <1>2 DEF Acquired, Pcs, Rens
<1>3. ASSUME NEW c \in Calls, AcquireFailed(c) PROVE TypeOK'
  BY <1>3 DEF AcquireFailed, GivenUp, Pcs
<1>4. ASSUME NEW c \in Calls, RenewSend(c) \/ RenewExecuted(c) \/ Renewed(c)
      PROVE TypeOK'
  BY <1>4 DEF RenewSend, RenewExecuted, RenewScript, Renewed, Rens
<1>5. ASSUME NEW c \in Calls, RenewLost(c) \/ RenewStopped(c) PROVE TypeOK'
  <2>1. ren' \in [Calls -> Rens]
    <3>1. {"lost", "stopped"} \subseteq Rens
      BY DEF Rens
    <3> QED
      BY <1>5, <3>1 DEF RenewLost, RenewStopped
  <2>4. age' \in [Calls -> 0 .. MaxDelay] /\ live' \in [Calls -> BOOLEAN]
    <3>1. 0 \in 0 .. MaxDelay
      OBVIOUS
    <3>2. CASE RenewLost(c)
      <4>1. age' = [age EXCEPT ![c] = 0] /\ live' = [live EXCEPT ![c] = FALSE]
        BY <3>2 DEF RenewLost
      <4> QED
        BY <3>1, <4>1
    <3>3. CASE RenewStopped(c)
      <4>1. age' = [age EXCEPT ![c] = 0] /\ UNCHANGED live
        BY <3>3 DEF RenewStopped
      <4> QED
        BY <3>1, <4>1
    <3> QED
      BY <1>5, <3>2, <3>3
  <2>2. stray' \subseteq Calls \X {"setnx", "renew"}
    BY <1>5 DEF RenewLost, RenewStopped, GivenUp
  <2>3. UNCHANGED <<holder, ttl, pc, tick, losses, broke, exposed>>
    BY <1>5 DEF RenewLost, RenewStopped
  <2> QED
    BY <2>1, <2>2, <2>3, <2>4
<1>6. ASSUME NEW c \in Calls, CallbackReturns(c) \/ Release(c) PROVE TypeOK'
  <2>1. {"stopping", "releasing"} \subseteq Pcs
    BY DEF Pcs
  <2>2. pc' \in [Calls -> Pcs]
    BY <1>6, <2>1 DEF CallbackReturns, Release
  <2>3. age' \in [Calls -> 0 .. MaxDelay] /\ live' \in [Calls -> BOOLEAN]
    <3>1. 0 \in 0 .. MaxDelay
      OBVIOUS
    <3>2. CASE CallbackReturns(c)
      BY <3>2 DEF CallbackReturns
    <3>3. CASE Release(c)
      <4>1. age' = [age EXCEPT ![c] = 0] /\ live' = [live EXCEPT ![c] = FALSE]
        BY <3>3 DEF Release
      <4> QED
        BY <3>1, <4>1
    <3> QED
      BY <1>6, <3>2, <3>3
  <2>4. UNCHANGED <<holder, ttl, ren, tick, stray, losses, broke, exposed>>
    BY <1>6 DEF CallbackReturns, Release
  <2> QED
    BY <2>2, <2>3, <2>4
<1>7. ASSUME NEW c \in Calls, Released(c) \/ ReleaseFailed(c) PROVE TypeOK'
  <2>1. pc' \in [Calls -> Pcs]
    <3>1. {"lost", "ok", "error"} \subseteq Pcs
      BY DEF Pcs
    <3> QED
      BY <1>7, <3>1 DEF Released, ReleaseFailed
  <2>2. holder' \in Calls \cup {None} /\ ttl' \in 0 .. Lease /\ broke' \in [Calls -> BOOLEAN]
    BY <1>7 DEF Released, ReleaseFailed, ReleaseScript, Break
  <2>3. age' \in [Calls -> 0 .. MaxDelay]
    BY <1>7 DEF Released, ReleaseFailed
  <2>4. UNCHANGED <<ren, tick, live, stray, losses, exposed>>
    BY <1>7 DEF Released, ReleaseFailed
  <2> QED
    BY <2>1, <2>2, <2>3, <2>4
<1>8. ASSUME NEW c \in Calls, Crash(c) PROVE TypeOK'
  <2>1. "dead" \in Pcs /\ "off" \in Rens /\ 0 \in 0 .. MaxDelay
    BY DEF Pcs, Rens
  <2>2. pc' \in [Calls -> Pcs] /\ ren' \in [Calls -> Rens]
    BY <1>8, <2>1 DEF Crash
  <2>3. age' \in [Calls -> 0 .. MaxDelay] /\ live' \in [Calls -> BOOLEAN]
    BY <1>8, <2>1 DEF Crash
  <2>4. UNCHANGED <<holder, ttl, tick, stray, losses, broke, exposed>>
    BY <1>8 DEF Crash
  <2> QED
    BY <2>2, <2>3, <2>4
<1>9. ASSUME NEW c \in Calls, StrayExecuted(c) PROVE TypeOK'
  BY <1>9 DEF StrayExecuted, SetNX, RenewScript
<1>10. CASE Lose
  BY <1>10 DEF Lose, Break
<1>11. CASE Tick
  <2>0. LeaseElapses
    BY <1>11 DEF Tick
  <2>1. holder' \in Calls \cup {None} /\ ttl' \in 0 .. Lease /\ broke' \in [Calls -> BOOLEAN]
    <3>1. CASE holder # None /\ ttl <= 1
      <4>1. holder' = None /\ ttl' = 0 /\ Break(holder)
        BY <2>0, <3>1 DEF LeaseElapses
      <4>2. broke' \in [Calls -> BOOLEAN]
        BY <4>1 DEF Break
      <4> QED
        BY <4>1, <4>2
    <3>2. CASE ~(holder # None /\ ttl <= 1)
      <4>1. ttl' = (IF holder = None THEN 0 ELSE ttl - 1) /\ UNCHANGED <<holder, broke>>
        BY <2>0, <3>2 DEF LeaseElapses
      <4>2. holder # None => ttl - 1 \in 0 .. Lease
        BY <3>2
      <4> QED
        BY <4>1, <4>2
    <3> QED
      BY <3>1, <3>2
  <2>2. age' \in [Calls -> 0 .. MaxDelay]
    BY <1>11 DEF Tick
  <2>3. tick' \in [Calls -> 0 .. RenewEvery]
    BY <1>11 DEF Tick
  <2>4. exposed' \in [Calls -> Nat]
    BY <1>11 DEF Tick
  <2> QED
    BY <1>11, <2>1, <2>2, <2>3, <2>4 DEF Tick
<1>12. CASE UNCHANGED vars
  BY <1>12 DEF vars
<1> QED
  BY <1>1, <1>2, <1>3, <1>4, <1>5, <1>6, <1>7, <1>8, <1>9, <1>10, <1>11, <1>12
     DEF Next, Replies, Steps

\* Type correctness: ages and tickers stay within their bounds, so no request is
\* older than its time-out and no ticker is late (token_lock.go:227-257).
THEOREM TypeCorrect == Spec => []TypeOK
<1> QED
  BY TypeInit, TypeStep, PTL DEF Spec

-----------------------------------------------------------------------------
(* The invariant is inductive: the call that steps, then the bystanders.    *)

\* The invariant holds at the start,
LEMMA InvInit == ASSUME Init PROVE LockInv
<1>1. TypeOK
  BY TypeInit
<1>2. ASSUME NEW c \in Calls PROVE CallInv(c)
  BY Timings DEF Init, CallInv, Fresh, StrayOver, Renewing, Covered, Noticed, Reported, Owning
<1> QED
  BY <1>1, <1>2 DEF LockInv

\* What the bystanders see of a call's step.
LEMMA OthersStandBy ==
  ASSUME TypeOK, NEW c \in Calls, NEW d \in Calls, d # c,
         Replies(c) \/ Steps(c) \/ CallbackReturns(c) \/ Resend(c) \/ AcquireFailed(c) \/ Crash(c)
  PROVE  Bystander(d)
<1> USE TokensAssumption DEF TypeOK, Bystander, Goto, Sent, RenGoto, redisVars, callVars, ghostVars
<1>1. ASSUME Ask(c) \/ AskExecuted(c) \/ Beaten(c) \/ Resend(c) \/ Acquired(c) PROVE Bystander(d)
  BY <1>1 DEF Ask, AskExecuted, SetNX, Beaten, Resend, Acquired
<1>2. ASSUME AcquireFailed(c) PROVE Bystander(d)
  BY <1>2 DEF AcquireFailed, GivenUp
<1>3. ASSUME RenewSend(c) \/ Renewed(c) PROVE Bystander(d)
  BY <1>3 DEF RenewSend, Renewed
<1>4. ASSUME RenewExecuted(c) PROVE Bystander(d)
  BY <1>4 DEF RenewExecuted, RenewScript
<1>5. ASSUME RenewLost(c) \/ RenewStopped(c) PROVE Bystander(d)
  BY <1>5 DEF RenewLost, RenewStopped, GivenUp
<1>6. ASSUME CallbackReturns(c) \/ Release(c) \/ Crash(c) PROVE Bystander(d)
  BY <1>6 DEF CallbackReturns, Release, Crash
<1>7. ASSUME Released(c) \/ ReleaseFailed(c) PROVE Bystander(d)
  BY <1>7 DEF Released, ReleaseFailed, ReleaseScript, Break
<1> QED
  BY <1>1, <1>2, <1>3, <1>4, <1>5, <1>6, <1>7 DEF Replies, Steps

\* A call's own steps: waiting and acquiring.
LEMMA AcquireKeeps ==
  ASSUME TypeOK, TypeOK', NEW c \in Calls, CallInv(c),
         Ask(c) \/ AskExecuted(c) \/ Beaten(c) \/ Resend(c) \/ Acquired(c) \/ AcquireFailed(c)
  PROVE  CallInv(c)'
<1> USE Timings, TokensAssumption
    DEF CallInv, TypeOK, Goto, Sent, redisVars, callVars, ghostVars
<1>1. ASSUME Ask(c) \/ Beaten(c) \/ Resend(c) PROVE CallInv(c)'
  BY <1>1 DEF Ask, Beaten, Resend,
     Fresh, Before, StrayOver, Renewing, Covered, Noticed, Reported, Owning
<1>2. ASSUME AskExecuted(c) PROVE CallInv(c)'
  BY <1>2 DEF AskExecuted, SetNX,
     Fresh, Before, StrayOver, Renewing, Covered, Noticed, Reported, Owning
<1>3. ASSUME Acquired(c) PROVE CallInv(c)'
  BY <1>3 DEF Acquired, Working,
     Fresh, Before, StrayOver, Renewing, Covered, Noticed, Reported, Owning
<1>4. ASSUME AcquireFailed(c) PROVE CallInv(c)'
  BY <1>4 DEF AcquireFailed, GivenUp,
     Fresh, Before, StrayOver, Renewing, Covered, Noticed, Reported, Owning
<1> QED
  BY <1>1, <1>2, <1>3, <1>4

\* A call's own steps: the renewal goroutine.
LEMMA RenewKeeps ==
  ASSUME TypeOK, TypeOK', NEW c \in Calls, CallInv(c),
         \/ RenewSend(c) \/ RenewExecuted(c) \/ Renewed(c)
         \/ RenewLost(c) \/ RenewStopped(c)
  PROVE  CallInv(c)'
<1> USE Timings, TokensAssumption
    DEF CallInv, TypeOK, RenGoto, Sent, redisVars, callVars, ghostVars
<1>1. ASSUME RenewSend(c) PROVE CallInv(c)'
  BY <1>1 DEF RenewSend, Working,
     Fresh, Before, StrayOver, Renewing, Covered, Noticed, Reported, Owning
<1>2. ASSUME RenewExecuted(c) PROVE CallInv(c)'
  BY <1>2 DEF RenewExecuted, RenewScript, Working,
     Fresh, Before, StrayOver, Renewing, Covered, Noticed, Reported, Owning
<1>3. ASSUME Renewed(c) PROVE CallInv(c)'
  BY <1>3 DEF Renewed, Working,
     Fresh, Before, StrayOver, Renewing, Covered, Noticed, Reported, Owning
<1>4. ASSUME RenewLost(c) \/ RenewStopped(c) PROVE CallInv(c)'
  <2>1. /\ ~Owning(c)' /\ ren'[c] \in {"lost", "stopped"} /\ pc' = pc
        /\ UNCHANGED <<holder, ttl, tick, losses, broke, exposed>>
    BY <1>4 DEF RenewLost, RenewStopped, Owning
  <2>2. <<c, "setnx">> \in stray' => <<c, "setnx">> \in stray
    BY <1>4 DEF RenewLost, RenewStopped, GivenUp
  <2>3. pc[c] \notin Before
    BY <1>4 DEF RenewLost, RenewStopped, Fresh
  <2> QED
    BY <2>1, <2>2, <2>3 DEF Fresh, Before, StrayOver, Renewing, Covered, Noticed, Reported
<1> QED
  BY <1>1, <1>2, <1>3, <1>4

\* A call's own steps: the end of WithRenewableLock.
LEMMA ReturnKeeps ==
  ASSUME TypeOK, TypeOK', NEW c \in Calls, CallInv(c),
         CallbackReturns(c) \/ Release(c) \/ Released(c) \/ ReleaseFailed(c) \/ Crash(c)
  PROVE  CallInv(c)'
<1> USE Timings, TokensAssumption
    DEF CallInv, TypeOK, Goto, RenGoto, Sent, redisVars, callVars, ghostVars
<1>1. ASSUME CallbackReturns(c) PROVE CallInv(c)'
  BY <1>1 DEF CallbackReturns, Working,
     Fresh, Before, StrayOver, Renewing, Covered, Noticed, Reported, Owning
<1>2. ASSUME Release(c) \/ Crash(c) PROVE CallInv(c)'
  <2>1. /\ pc'[c] \in {"releasing", "dead"}
        /\ pc'[c] = "releasing" => pc[c] = "stopping"
        /\ pc[c] = "error" => pc'[c] = "error"
        /\ ~live'[c]
        /\ UNCHANGED <<holder, ttl, stray, losses, broke, exposed>>
    <3>1. CASE Release(c)
      BY <3>1 DEF Release
    <3>2. CASE Crash(c)
      BY <3>2 DEF Crash, Ended
    <3> QED
      BY <1>2, <3>1, <3>2
  <2> QED
    BY <2>1 DEF Fresh, Before, StrayOver, Renewing, Covered, Noticed, Reported, Owning
<1>3. ASSUME Released(c) \/ ReleaseFailed(c) PROVE CallInv(c)'
  <2>1. /\ pc'[c] \in {"ok", "lost", "error"}
        /\ pc'[c] = "ok" => holder = c
        /\ pc[c] = "releasing"
        /\ UNCHANGED <<ren, tick, live, stray, losses, exposed>>
    BY <1>3 DEF Released, ReleaseFailed
  <2>2. broke'[c] = broke[c]
    BY <1>3 DEF Released, ReleaseFailed, ReleaseScript, Break
  <2> QED
    <3>1. Fresh(c)' /\ StrayOver(c)' /\ Renewing(c)'
      BY <2>1, <2>2 DEF Fresh, Before, StrayOver, Renewing, Owning
    <3>2. Covered(c)' /\ Noticed(c)'
      BY <2>1, <2>2 DEF Covered, Noticed, Owning
    <3>3. Reported(c)'
      BY <2>1, <2>2 DEF Reported
    <3> QED
      BY <3>1, <3>2, <3>3
<1> QED
  BY <1>1, <1>2, <1>3

\* Redis: a late request, a lost key.
LEMMA RedisKeeps ==
  ASSUME TypeOK, TypeOK', NEW c \in Calls, CallInv(c),
         Lose \/ (\E d \in Calls : StrayExecuted(d) /\ StrayOver(d))
  PROVE  CallInv(c)'
<1> USE Timings, TokensAssumption DEF TypeOK, redisVars, callVars, ghostVars
<1>1. CASE Lose
  <2>1. Bystander(c)
    BY <1>1 DEF Lose, Break, Bystander
  <2> QED
    BY <2>1, BystanderKeeps
<1>2. ASSUME NEW d \in Calls, StrayExecuted(d), StrayOver(d) PROVE CallInv(c)'
  <2>1. CASE UNCHANGED holder
    <3>1. /\ UNCHANGED callVars /\ UNCHANGED ghostVars /\ stray' \subseteq stray
          /\ holder = c => ttl' >= ttl
      BY <1>2, <2>1 DEF StrayExecuted, SetNX, RenewScript
    <3>2. Bystander(c)
      BY <2>1, <3>1 DEF Bystander, callVars, ghostVars
    <3> QED
      BY <3>2, BystanderKeeps
  <2>2. CASE holder' # holder
    <3>1. /\ holder = None /\ holder' = d /\ pc[d] = "error"
          /\ UNCHANGED callVars /\ UNCHANGED ghostVars /\ stray' \subseteq stray
      BY <1>2, <2>2 DEF StrayExecuted, SetNX, RenewScript, StrayOver
    <3>2. CASE c # d
      BY <3>1, <3>2, BystanderKeeps DEF Bystander
    <3>3. CASE c = d
      BY <3>1, <3>3 DEF CallInv,
         Fresh, Before, StrayOver, Renewing, Covered, Noticed, Reported, Owning
    <3> QED
      BY <3>2, <3>3
  <2> QED
    BY <2>1, <2>2
<1> QED
  BY <1>1, <1>2

\* Time: a renewal in time meets its lease, and a callback without the key
\* grows older with its ticker.
LEMMA TickKeeps ==
  ASSUME TypeOK, TypeOK', NEW c \in Calls, CallInv(c), Tick
  PROVE  CallInv(c)'
<1> USE Timings, TokensAssumption DEF TypeOK, CallInv
<1>1. /\ UNCHANGED <<pc, ren, live, stray, losses>>
      /\ InCall(c) => age[c] < MaxDelay
      /\ ren[c] = "idle" /\ pc[c] = "running" => tick[c] < RenewEvery
      /\ age'[c] = IF InCall(c) THEN age[c] + 1 ELSE age[c]
      /\ tick'[c] = IF ren[c] \in Working /\ tick[c] < RenewEvery THEN tick[c] + 1 ELSE tick[c]
      /\ exposed'[c] = IF Owning(c) /\ holder # c THEN exposed[c] + 1 ELSE exposed[c]
  BY DEF Tick, Working
<1>2. \/ /\ holder # None /\ ttl <= 1 /\ holder' = None /\ ttl' = 0
         /\ broke'[c] = (broke[c] \/ (holder = c /\ pc[c] = "running"))
      \/ UNCHANGED <<holder, broke>> /\ (holder # None => ttl' >= ttl - 1)
  <2>1. LeaseElapses
    BY DEF Tick
  <2>2. CASE holder # None /\ ttl <= 1
    <3>1. holder' = None /\ ttl' = 0 /\ broke' = [broke EXCEPT ![holder] = @ \/ pc[holder] = "running"]
      BY <2>1, <2>2 DEF LeaseElapses, Break
    <3>2. broke'[c] = (broke[c] \/ (holder = c /\ pc[c] = "running"))
      <4>1. CASE holder = c
        BY <3>1, <4>1
      <4>2. CASE holder # c
        BY <3>1, <4>2
      <4> QED
        BY <4>1, <4>2
    <3> QED
      BY <2>2, <3>1, <3>2
  <2>3. CASE ~(holder # None /\ ttl <= 1)
    BY <2>1, <2>3 DEF LeaseElapses
  <2> QED
    BY <2>2, <2>3
<1>3. Owning(c)' = Owning(c)
  BY <1>1 DEF Owning
<1>4. Fresh(c)'
  <2>1. pc[c] \in Before => ~Owning(c) /\ pc[c] # "running"
    BY DEF Before, Owning
  <2> QED
    BY <1>1, <1>2, <2>1 DEF Fresh
<1>5. StrayOver(c)' /\ Renewing(c)'
  BY <1>1, <1>3 DEF StrayOver, Renewing, InCall, Working
<1>6. Covered(c)'
  <2>1. ASSUME losses = 0, pc[c] = "won" PROVE holder' = c /\ ttl' + age'[c] >= Lease
    BY <1>1, <1>2, <2>1 DEF Covered, InCall
  <2>2. ASSUME losses = 0, Owning(c)
        PROVE  /\ holder' = c
               /\ ren[c] = "idle" => ttl' + tick'[c] > RenewEvery + MaxDelay
               /\ ren[c] = "sent" => ttl' + age'[c] > MaxDelay
               /\ ren[c] = "applied" => ttl' + age'[c] >= Lease
               /\ ren[c] # "denied"
    BY <1>1, <1>2, <2>2 DEF Covered, Renewing, InCall, Working, Owning
  <2> QED
    BY <1>1, <1>3, <2>1, <2>2 DEF Covered
<1>7. Noticed(c)'
  BY <1>1, <1>2, <1>3 DEF Noticed, Renewing, InCall, Working, Owning
<1>8. Reported(c)'
  BY <1>1, <1>2 DEF Reported
<1> QED
  BY <1>4, <1>5, <1>6, <1>7, <1>8

\* and every step keeps it.
LEMMA InvStep == ASSUME LockInv, [Next]_vars PROVE LockInv'
<1>1. TypeOK /\ TypeOK' /\ \A c \in Calls : CallInv(c)
  BY TypeStep DEF LockInv
<1>2. ASSUME NEW c \in Calls,
             Replies(c) \/ Steps(c) \/ CallbackReturns(c) \/ Resend(c) \/ AcquireFailed(c) \/ Crash(c)
      PROVE  \A d \in Calls : CallInv(d)'
  <2>1. CallInv(c)'
    BY <1>1, <1>2, AcquireKeeps, RenewKeeps, ReturnKeeps DEF Replies, Steps
  <2>2. ASSUME NEW d \in Calls, d # c PROVE CallInv(d)'
    BY <1>1, <1>2, <2>2, OthersStandBy, BystanderKeeps
  <2> QED
    BY <2>1, <2>2
<1>3. ASSUME Lose \/ (\E d \in Calls : StrayExecuted(d))
      PROVE  \A c \in Calls : CallInv(c)'
  BY <1>1, <1>3, RedisKeeps DEF CallInv
<1>4. ASSUME Tick PROVE \A c \in Calls : CallInv(c)'
  BY <1>1, <1>4, TickKeeps
<1>5. ASSUME UNCHANGED vars PROVE \A c \in Calls : CallInv(c)'
  <2>1. ASSUME NEW c \in Calls PROVE Bystander(c)
    BY <1>1, <1>5 DEF vars, redisVars, callVars, ghostVars, Bystander, TypeOK
  <2> QED
    BY <1>1, <2>1, BystanderKeeps
<1>6. \A c \in Calls : CallInv(c)'
  BY <1>2, <1>3, <1>4, <1>5 DEF Next
<1> QED
  BY <1>1, <1>6 DEF LockInv

\* Every state is one the invariant describes.
LEMMA LockInvariant == Spec => []LockInv
<1> QED
  BY InvInit, InvStep, PTL DEF Spec

\* Mutual exclusion (token_lock.go:1-2): unless Redis loses the key, two
\* callbacks never run at the same time with live ownership contexts.
THEOREM AtMostOneOwner == Spec => []MutualExclusion
<1>1. LockInv => MutualExclusion
  BY DEF LockInv, CallInv, Covered, MutualExclusion
<1> QED
  BY <1>1, LockInvariant, PTL

\* A callback whose key is gone is cancelled within one renewal period and one
\* Redis call (renewLoop, token_lock.go:215-258).
THEOREM LossIsNoticed == Spec => []LostLockIsNoticed
<1>1. LockInv => LostLockIsNoticed
  BY DEF LockInv, CallInv, Noticed, LostLockIsNoticed
<1> QED
  BY <1>1, LockInvariant, PTL

\* A call that returns without an error held the key throughout its callback
\* (token_lock.go:204-206).
THEOREM SuccessMeansHeld == Spec => []LossIsReported
<1>1. LockInv => LossIsReported
  BY DEF LockInv, CallInv, Reported, LossIsReported
<1> QED
  BY <1>1, LockInvariant, PTL
=============================================================================
