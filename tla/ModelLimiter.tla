---------------------------- MODULE ModelLimiter ----------------------------
(***************************************************************************)
(* The concurrency limiter of internal/models/limiter for one model: the   *)
(* sorted set of leases in Redis with its heartbeats (limiter.go), the     *)
(* in-process semaphore of the Lite mode and the gate in front of both     *)
(* (governor.go).  A call is its token.  Time is counted in ticks.         *)
(***************************************************************************)
EXTENDS Integers, FiniteSets

CONSTANTS
  Calls,      \* background calls of the model's provider
  Limits,     \* limits the operator may set
  TTL,        \* life of a lease
  Beat,       \* period of a heartbeat, a third of it
  Delay,      \* longest Redis call, and wake-up of a goroutine
  Skew,       \* how far the clocks of two processes differ
  Clock,      \* how far each call's process is ahead
  None,       \* no semaphore yet
  MaxRetunes, \* how often the operator changes the limit
  MaxFaults   \* failed Redis calls and dead processes

ASSUME CallsAssumption ==
  /\ IsFiniteSet(Calls) /\ Limits \subseteq Nat /\ Limits # {} /\ None \notin Nat
  /\ {MaxRetunes, MaxFaults} \subseteq Nat

ASSUME TimingAssumption ==
  /\ {TTL, Beat, Delay, Skew} \subseteq Nat
  /\ 0 < Beat /\ Delay < Beat /\ Beat < TTL
  /\ Clock \in [Calls -> 0 .. Skew]

\* What makes a lease safe: it outlives one heartbeat that gets lost.
ASSUME TimelyAssumption == 2 * Beat + 2 * Delay + Skew < TTL

VARIABLES
  redis,    \* the limiter is the distributed one
  limit,    \* the limit in force for the model
  lim,      \* the limit each call was given
  pc,       \* where each call is
  beat,     \* where its heartbeat goroutine is
  age,      \* age of its request to Redis, or time since its ticker fired
  missed,   \* heartbeats it has lost since one succeeded
  slots,    \* the members of the sorted set
  left,     \* what is left of each member's lease, by the true time
  key,      \* what is left of the set's own TTL
  cap,      \* the capacity of the in-process semaphore
  lapsed,   \* history: some call lost two heartbeats in a row
  retunes, faults

callVars == <<lim, pc, beat, age, missed>>
redisVars == <<slots, left, key>>
boundVars == <<lapsed, retunes, faults>>
vars == <<redis, limit, callVars, redisVars, cap, boundVars>>

Pcs == {"new", "waiting", "asking", "calling", "leaving", "open", "done", "dead"}

\* Calls that may call the provider by a slot of their own.
Holding == {c \in Calls : pc[c] = "calling"}

\* A key made by a heartbeat has no TTL before its PEXPIRE.
Forever == 2 * TTL + 1

TypeOK ==
  /\ redis \in BOOLEAN
  /\ limit \in Limits
  /\ lim \in [Calls -> Limits]
  /\ pc \in [Calls -> Pcs]
  /\ beat \in [Calls -> {"off", "rest", "adding", "expiring", "failed"}]
  /\ age \in [Calls -> Nat]
  /\ missed \in [Calls -> 0 .. 2]
  /\ slots \subseteq Calls
  /\ left \in [Calls -> Int]
  /\ key \in 0 .. Forever
  /\ cap \in Nat \cup {None}
  /\ lapsed \in BOOLEAN
  /\ retunes \in 0 .. MaxRetunes
  /\ faults \in 0 .. MaxFaults

Init ==
  /\ redis \in BOOLEAN
  /\ limit \in Limits
  /\ lim = [c \in Calls |-> limit]
  /\ pc = [c \in Calls |-> "new"]
  /\ beat = [c \in Calls |-> "off"]
  /\ age = [c \in Calls |-> 0]
  /\ missed = [c \in Calls |-> 0]
  /\ slots = {} /\ left = [c \in Calls |-> 0] /\ key = 0
  /\ cap = None
  /\ lapsed = FALSE /\ retunes = 0 /\ faults = 0

-----------------------------------------------------------------------------
(* Redis                                                                    *)

Fault == faults < MaxFaults /\ faults' = faults + 1

Goto(c, to) == pc' = [pc EXCEPT ![c] = to]
Restart(c) == age' = [age EXCEPT ![c] = 0]

\* The set keeps the members S; without members there is no key.
Keep(S, ttl) ==
  /\ slots' = S
  /\ left' = [c \in Calls |-> IF c \in S THEN left[c] ELSE 0]
  /\ key' = IF S = {} THEN 0 ELSE ttl

\* ZADD by a request as old as age[c].
Score(c) == TTL + Clock[c] - age[c]
Add(c) == /\ slots' = slots \cup {c}
          /\ left' = [left EXCEPT ![c] = Score(c)]
          /\ key' = IF slots = {} THEN Forever ELSE key

\* PEXPIRE, of a key that exists.
Renew == key' = IF slots = {} THEN 0 ELSE 2 * TTL

\* Mutated: expired leases are not pruned.
AllSlots(c) == slots

\* ZREMRANGEBYSCORE by the caller's clock when it asked.
Unexpired(c) == {d \in slots : left[d] > Clock[c] - age[c]}

\* acquireScript.
Admit(c) == /\ slots' = Unexpired(c) \cup {c}
            /\ left' = [d \in Calls |-> IF d = c THEN Score(c)
                                        ELSE IF d \in Unexpired(c) THEN left[d] ELSE 0]
            /\ key' = 2 * TTL
Full(c) == Cardinality(Unexpired(c)) >= lim[c]

-----------------------------------------------------------------------------
(* GateNamedN and Acquire                                                   *)

\* Mutated: a model without a limit of its own does not get the default.
GateUnset(c) ==
  /\ pc[c] = "new"
  /\ lim' = [lim EXCEPT ![c] = -1]
  /\ Goto(c, "open")
  /\ UNCHANGED <<redis, limit, beat, age, missed, redisVars, cap, boundVars>>

\* The limit is read; with none the call passes.
Gate(c) ==
  /\ pc[c] = "new"
  /\ lim' = [lim EXCEPT ![c] = limit]
  /\ Goto(c, IF limit = 0 THEN "open" ELSE "waiting")
  /\ cap' = IF ~redis /\ limit # 0 /\ cap = None THEN limit ELSE cap
  /\ UNCHANGED <<redis, limit, beat, age, missed, redisVars, boundVars>>

\* A try, now: its time is taken before it is sent.
Ask(c) ==
  /\ redis /\ pc[c] = "waiting"
  /\ Goto(c, "asking") /\ Restart(c)
  /\ UNCHANGED <<redis, limit, lim, beat, missed, redisVars, cap, boundVars>>

\* Mutated: one call too many is admitted.
GrantedLoosely(c) ==
  /\ pc[c] = "asking" /\ Cardinality(Unexpired(c)) <= lim[c]
  /\ Admit(c)
  /\ Goto(c, "calling") /\ Restart(c)
  /\ beat' = [beat EXCEPT ![c] = "rest"]
  /\ missed' = [missed EXCEPT ![c] = 0]
  /\ UNCHANGED <<redis, limit, lim, cap, boundVars>>

\* The script admits the call: hold starts its heartbeat.
Granted(c) ==
  /\ pc[c] = "asking" /\ ~Full(c)
  /\ Admit(c)
  /\ Goto(c, "calling") /\ Restart(c)
  /\ beat' = [beat EXCEPT ![c] = "rest"]
  /\ missed' = [missed EXCEPT ![c] = 0]
  /\ UNCHANGED <<redis, limit, lim, cap, boundVars>>

\* The set is full: the caller waits for pollInterval.  The script has pruned it.
Denied(c) ==
  /\ pc[c] = "asking" /\ Full(c)
  /\ Keep(Unexpired(c), key)
  /\ Goto(c, "waiting") /\ Restart(c)
  /\ UNCHANGED <<redis, limit, lim, beat, missed, cap, boundVars>>

\* The request fails, executed or not: the call goes on without a slot.
AskFails(c) ==
  /\ pc[c] = "asking"
  /\ Fault
  /\ \/ ~Full(c) /\ Admit(c)
     \/ Full(c) /\ Keep(Unexpired(c), key)
     \/ UNCHANGED redisVars
  /\ Goto(c, "open") /\ Restart(c)
  /\ UNCHANGED <<redis, limit, lim, beat, missed, cap, lapsed, retunes>>

\* The context ends while the call waits.
Cancelled(c) ==
  /\ pc[c] = "waiting"
  /\ Goto(c, "open")
  /\ UNCHANGED <<redis, limit, lim, beat, age, missed, redisVars, cap, boundVars>>

\* Lite mode: a place in the channel, whose capacity was fixed by its first use.
LocalGranted(c) ==
  /\ ~redis /\ pc[c] = "waiting"
  /\ Cardinality(Holding) < cap
  /\ Goto(c, "calling")
  /\ UNCHANGED <<redis, limit, lim, beat, age, missed, redisVars, cap, boundVars>>

-----------------------------------------------------------------------------
(* hold: the heartbeat                                                      *)

Phase(c, to) == beat' = [beat EXCEPT ![c] = to]

\* The ticker fires; a closed stop channel may lose against it.
Fire(c) ==
  /\ beat[c] = "rest" /\ age[c] = Beat
  /\ Phase(c, "adding") /\ Restart(c)
  /\ UNCHANGED <<redis, limit, lim, pc, missed, redisVars, cap, boundVars>>

\* ZADD, whether or not the member is still there.
Refresh(c) ==
  /\ beat[c] = "adding"
  /\ Add(c)
  /\ Phase(c, "expiring")
  /\ UNCHANGED <<redis, limit, lim, pc, age, missed, cap, boundVars>>

\* One more heartbeat is lost in part or as a whole.
Miss(c) ==
  /\ Fault
  /\ missed' = [missed EXCEPT ![c] = IF @ = 2 THEN 2 ELSE @ + 1]
  /\ lapsed' = (lapsed \/ missed[c] >= 1)
  /\ UNCHANGED retunes

RefreshFails(c) ==
  /\ beat[c] = "adding"
  /\ Miss(c)
  /\ Phase(c, "failed")
  /\ UNCHANGED <<redis, limit, lim, pc, age, redisVars, cap>>

\* Mutated: the set's TTL is not renewed.
RenewNothing(c) ==
  /\ beat[c] \in {"expiring", "failed"}
  /\ Phase(c, "rest")
  /\ missed' = IF beat[c] = "failed" THEN missed ELSE [missed EXCEPT ![c] = 0]
  /\ UNCHANGED <<redis, limit, lim, pc, age, redisVars, cap, boundVars>>

\* PEXPIRE follows, whatever became of the ZADD.
RenewKey(c) ==
  /\ beat[c] \in {"expiring", "failed"}
  /\ Renew
  /\ Phase(c, "rest")
  /\ missed' = IF beat[c] = "failed" THEN missed ELSE [missed EXCEPT ![c] = 0]
  /\ UNCHANGED <<redis, limit, lim, pc, age, slots, left, cap, boundVars>>

RenewFails(c) ==
  /\ \/ beat[c] = "expiring" /\ Miss(c)
     \/ beat[c] = "failed" /\ UNCHANGED <<missed, boundVars>>
  /\ Phase(c, "rest")
  /\ UNCHANGED <<redis, limit, lim, pc, age, redisVars, cap>>

\* The goroutine sees the closed channel.
BeatEnds(c) ==
  /\ beat[c] = "rest" /\ pc[c] # "calling"
  /\ Phase(c, "off") /\ Restart(c)
  /\ UNCHANGED <<redis, limit, lim, pc, missed, redisVars, cap, boundVars>>

-----------------------------------------------------------------------------
(* The end of a call                                                        *)

\* release: the stop channel is closed, or the place in the channel is free.
Release(c) ==
  /\ pc[c] = "calling"
  /\ Goto(c, IF redis THEN "leaving" ELSE "done")
  /\ UNCHANGED <<redis, limit, lim, beat, age, missed, redisVars, cap, boundVars>>

\* ZREM, whose error is not looked at.
Remove(c) ==
  /\ pc[c] = "leaving"
  /\ Goto(c, "done")
  /\ \/ Keep(slots \ {c}, key) /\ UNCHANGED faults
     \/ Fault /\ UNCHANGED redisVars
  /\ UNCHANGED <<redis, limit, lim, beat, age, missed, cap, lapsed, retunes>>

\* A call that passed without a slot ends.
OpenEnds(c) ==
  /\ pc[c] = "open"
  /\ Goto(c, "done")
  /\ UNCHANGED <<redis, limit, lim, beat, age, missed, redisVars, cap, boundVars>>

\* The process of a call dies with its heartbeat; the in-process semaphore is
\* gone with all of them.
Die(c) ==
  /\ redis /\ pc[c] \notin {"new", "dead"} /\ (pc[c] = "done" => beat[c] # "off")
  /\ Fault
  /\ Goto(c, "dead") /\ Phase(c, "off") /\ Restart(c)
  /\ UNCHANGED <<redis, limit, lim, missed, redisVars, cap, lapsed, retunes>>

-----------------------------------------------------------------------------

\* SetGlobalLimit, or an edit of the model's own limit.
Retune(n) ==
  /\ retunes < MaxRetunes /\ n # limit
  /\ limit' = n
  /\ retunes' = retunes + 1
  /\ UNCHANGED <<redis, callVars, redisVars, cap, lapsed, faults>>

\* Nothing that is due within Delay, or at the ticker's time, is overdue.
Timely(c) ==
  /\ pc[c] = "asking" => age[c] < Delay
  /\ beat[c] \in {"adding", "expiring", "failed"} => age[c] < Delay
  /\ beat[c] = "rest" => age[c] < Beat /\ pc[c] = "calling"

\* Time passes; an expired lease stays until a script prunes it, the set is gone
\* when its own TTL is over.
Tick ==
  /\ \A c \in Calls : Timely(c)
  /\ age' = [c \in Calls |-> IF pc[c] = "asking" \/ beat[c] # "off" THEN age[c] + 1 ELSE age[c]]
  /\ IF key = 1 THEN slots' = {} /\ left' = [c \in Calls |-> 0] /\ key' = 0
     ELSE /\ left' = [c \in Calls |-> IF c \in slots /\ left[c] > -Delay
                                      THEN left[c] - 1 ELSE left[c]]
          /\ key' = IF key \in {0, Forever} THEN key ELSE key - 1
          /\ UNCHANGED slots
  /\ UNCHANGED <<redis, limit, lim, pc, beat, missed, cap, boundVars>>

Heartbeat(c) == Fire(c) \/ Refresh(c) \/ RefreshFails(c) \/ RenewKey(c) \/ RenewFails(c) \/ BeatEnds(c)

Progress(c) == \/ Gate(c) \/ Ask(c) \/ Granted(c) \/ Denied(c) \/ AskFails(c) \/ LocalGranted(c)
               \/ Remove(c) \/ OpenEnds(c)

Next ==
  \/ \E c \in Calls : Progress(c) \/ Cancelled(c) \/ Heartbeat(c) \/ Release(c) \/ Die(c)
  \/ \E n \in Limits : Retune(n)
  \/ Tick

\* Redis answers, the provider's calls end, and time passes.
Fairness ==
  /\ \A c \in Calls : /\ WF_vars(Progress(c) /\ UNCHANGED faults)
                      /\ WF_vars(Heartbeat(c) /\ UNCHANGED faults)
                      /\ WF_vars(Release(c))
  /\ WF_vars(Tick)

Spec == Init /\ [][Next]_vars /\ Fairness

-----------------------------------------------------------------------------
(* What the limiter promises.                                               *)

\* A call that holds a slot has its lease in Redis, unexpired by anyone's clock,
\* with a set that outlives it (limiter.go:180-188): one heartbeat may get lost,
\* other calls prune, time out and die.
LeaseIsKept ==
  redis /\ ~lapsed =>
    \A c \in Holding : c \in slots /\ left[c] > Skew /\ key > 0

\* Of the calls running by a slot, some one was let in under a limit that covers
\* them all, and so for each part of them: nobody was let in over its limit
\* (limiter.go:82-96), while the limit is changed and leases expire.
Capacity ==
  redis /\ ~lapsed =>
    \A H \in SUBSET Holding : H # {} => \E h \in H : Cardinality(H) <= lim[h]

\* A slot nobody holds any more, its holder dead, its release lost, or added
\* again by a heartbeat that raced the release, comes free: everyone who waits
\* gets in.
WaitersProceed == []<>(\A c \in Calls : pc[c] \notin {"waiting", "asking"})

-----------------------------------------------------------------------------
(* What the comments say, which the code does not keep.                     *)

\* model.max_concurrency (system_setting.go:267-272, governor.go:32-36) takes a
\* new value without a restart, in the Lite mode as well.
RetuneTakesHold ==
  ~redis => \A H \in SUBSET Holding : H # {} => \E h \in H : Cardinality(H) <= lim[h]
=============================================================================
