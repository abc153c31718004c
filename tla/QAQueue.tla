------------------------------ MODULE QAQueue ------------------------------
(***************************************************************************)
(* The bounded question queue of internal/im (qaqueue.go) on several       *)
(* instances that share Redis, with the handler executeQARequest and the   *)
(* /stop command of service.go.  Redis keeps one counter per user and one  *)
(* for the workers of all instances; a request gives its units back        *)
(* wherever it ends.                                                       *)
(***************************************************************************)
EXTENDS Integers, Sequences, FiniteSets, SequencesExt

CONSTANTS
  Requests,    \* questions users send
  Stops,       \* /stop commands users send
  Instances,   \* application instances
  Users,       \* userKeys
  UserOf,      \* the user of each request and of each /stop
  Routes,      \* the instances each may arrive at
  Gate,        \* the key of the global gate
  None,        \* no request, no /stop
  MaxSize,     \* length of an instance's queue
  MaxPerUser,  \* units one user may hold
  MaxGlobal,   \* workers that may run at once on all instances
  Workers,     \* workers of one instance
  MaxFaults    \* Redis errors, expired counters and crashes

ASSUME QueueAssumption ==
  /\ UserOf \in [Requests \cup Stops -> Users]
  /\ Routes \in [Requests \cup Stops -> SUBSET Instances]
  /\ Gate \notin Users /\ None \notin Requests \cup Stops
  /\ {MaxSize, MaxPerUser, MaxGlobal, Workers} \subseteq Nat \ {0}
  /\ MaxFaults \in Nat
  /\ IsFiniteSet(Requests)

VARIABLES
  redis,      \* Redis is configured (multi-instance mode)
  state,      \* of each instance: "up", "closed" or "down"
  pc,         \* where each request is
  inst,       \* the instance that works on it
  queue,      \* the waiting requests of each instance
  perUser,    \* an instance's own per-user counts
  count,      \* the counters in Redis; an absent key counts 0
  expires,    \* the counter has a time to live
  inflight,   \* an instance's running request per user
  mapping,    \* the user's running request in Redis
  marker,     \* the user's stop marker: the requests it was meant for
  stop,       \* where each /stop is
  meant,      \* history: the user's requests in progress when the /stop came
  strays,     \* history: requests ended by a marker not meant for them
  faults      \* history: how many faults there were

reqVars == <<pc, inst>>
localVars == <<queue, perUser>>
redisVars == <<count, expires>>
flightVars == <<inflight, mapping>>
stopVars == <<marker, stop, meant, strays>>
vars == <<redis, state, reqVars, localVars, redisVars, flightVars, stopVars, faults>>

Keys == Users \cup {Gate}
Pcs == {"new", "over", "admitted", "queued", "taken", "gate", "entered",
        "preparing", "answering", "handled", "paying", "done", "rejected", "dropped", "dead"}
Ended == {"done", "rejected", "dropped", "dead"}
Running == {"entered", "preparing", "answering", "handled"}
OnWorker == {"taken", "gate", "paying"} \cup Running
Admitted == {"admitted", "queued"} \cup OnWorker
Counted == {"over"} \cup Admitted

\* An entry of the inflight map: the request it cancels, and the request whose
\* message its identifiers name.
Entries == [req : Requests, msg : Requests \cup {None}]

\* Nothing went wrong yet.
Calm == faults = 0

TypeOK ==
  /\ redis \in BOOLEAN
  /\ state \in [Instances -> {"up", "closed", "down"}]
  /\ pc \in [Requests -> Pcs]
  /\ inst \in [Requests -> Instances \cup {None}]
  /\ queue \in [Instances -> Seq(Requests)]
  /\ perUser \in [Instances -> [Users -> Nat]]
  /\ count \in [Keys -> Int]
  /\ expires \in [Keys -> BOOLEAN]
  /\ inflight \in [Instances -> [Users -> Entries \cup {None}]]
  /\ mapping \in [Users -> Requests \cup {None}]
  /\ \A u \in Users : marker[u] = None \/ marker[u] \subseteq Requests
  /\ stop \in [Stops -> {"new", "looking", "marking", "done"}]
  /\ meant \in [Stops -> SUBSET Requests]
  /\ strays \subseteq Requests
  /\ faults \in 0 .. MaxFaults

Init ==
  /\ redis \in BOOLEAN
  /\ state = [i \in Instances |-> "up"]
  /\ pc = [r \in Requests |-> "new"]
  /\ inst = [r \in Requests |-> None]
  /\ queue = [i \in Instances |-> <<>>]
  /\ perUser = [i \in Instances |-> [u \in Users |-> 0]]
  /\ count = [k \in Keys |-> 0]
  /\ expires = [k \in Keys |-> FALSE]
  /\ inflight = [i \in Instances |-> [u \in Users |-> None]]
  /\ mapping = [u \in Users |-> None]
  /\ marker = [u \in Users |-> None]
  /\ stop = [s \in Stops |-> "new"]
  /\ meant = [s \in Stops |-> {}]
  /\ strays = {}
  /\ faults = 0

-----------------------------------------------------------------------------
(* Redis                                                                    *)

Fault == faults < MaxFaults /\ faults' = faults + 1

Bump(k, d) == count' = [count EXCEPT ![k] = @ + d]

\* INCR, then EXPIRE.
Incr(k) == Bump(k, 1) /\ expires' = [expires EXCEPT ![k] = TRUE]

\* DECR; its error is not looked at.
Decr(k) == /\ UNCHANGED expires
           /\ \/ Bump(k, -1) /\ UNCHANGED faults
              \/ Fault /\ UNCHANGED count

NoRedis == UNCHANGED <<count, expires, faults>>

\* redisDecrUser.
DecrUser(r) == IF redis THEN Decr(UserOf[r]) ELSE NoRedis

\* The requests that still have a unit of the counter to give back.
Units(k) == {r \in Requests : IF k = Gate THEN pc[r] \in Running
                              ELSE UserOf[r] = k /\ pc[r] \in Counted}

\* A counter reaches the end of its TTL: a fault, unless nobody counts on it.
\* The gate's is renewed by every try of a waiting worker, twice a second.
Expire(k) ==
  /\ expires[k] /\ count[k] # 0
  /\ k = Gate => \A r \in Requests : pc[r] # "gate"
  /\ IF Units(k) = {} THEN UNCHANGED faults ELSE Fault
  /\ count' = [count EXCEPT ![k] = 0]
  /\ expires' = [expires EXCEPT ![k] = FALSE]
  /\ UNCHANGED <<redis, state, reqVars, localVars, flightVars, stopVars>>

-----------------------------------------------------------------------------
(* Enqueue                                                                  *)

Goto(r, to) == pc' = [pc EXCEPT ![r] = to] /\ UNCHANGED inst

End(r, how) == pc' = [pc EXCEPT ![r] = how] /\ inst' = [inst EXCEPT ![r] = None]
Local(i, u, d) ==
  perUser' = IF redis THEN perUser ELSE [perUser EXCEPT ![i][u] = @ + d]

\* The request reaches an instance, and Enqueue.
ArriveAt(r, i, to) ==
  /\ pc[r] = "new" /\ i \in Routes[r] /\ state[i] # "down"
  /\ inst' = [inst EXCEPT ![r] = i]
  /\ pc' = [pc EXCEPT ![r] = to]
  /\ UNCHANGED <<redis, state, localVars, flightVars, stopVars>>

\* redisCheckAndIncrUser up to its comparison; without Redis nothing is counted.
Arrive(r, i) ==
  IF redis THEN /\ ArriveAt(r, i, IF count[UserOf[r]] + 1 > MaxPerUser THEN "over" ELSE "admitted")
                /\ Incr(UserOf[r])
                /\ UNCHANGED faults
           ELSE ArriveAt(r, i, "admitted") /\ NoRedis

\* The INCR fails, executed or not: the request goes on without a unit.
ArriveUncounted(r, i) ==
  /\ redis
  /\ ArriveAt(r, i, "admitted")
  /\ Fault
  /\ Bump(UserOf[r], 1) \/ UNCHANGED count
  /\ UNCHANGED expires

\* Over the user's limit: the unit goes back.
OverLimit(r) ==
  /\ pc[r] = "over"
  /\ End(r, "rejected")
  /\ DecrUser(r)
  /\ UNCHANGED <<redis, state, localVars, flightVars, stopVars>>

\* Under the queue's lock: closed or full.
Reject(r) ==
  LET i == inst[r] IN
  /\ pc[r] = "admitted"
  /\ state[i] = "closed" \/ Len(queue[i]) >= MaxSize
  /\ End(r, "rejected")
  /\ DecrUser(r)
  /\ UNCHANGED <<redis, state, localVars, flightVars, stopVars>>

HasRoom(r) == state[inst[r]] = "up" /\ Len(queue[inst[r]]) < MaxSize
OverLocal(r) == ~redis /\ perUser[inst[r]][UserOf[r]] >= MaxPerUser

\* The local limit, which only counts without Redis.
RejectLocal(r) ==
  /\ pc[r] = "admitted" /\ HasRoom(r) /\ OverLocal(r)
  /\ End(r, "rejected")
  /\ UNCHANGED <<redis, state, localVars, redisVars, flightVars, stopVars, faults>>

\* Mutated: the local count is not taken.
EnqueueUncounted(r) ==
  /\ pc[r] = "admitted" /\ HasRoom(r) /\ ~OverLocal(r)
  /\ Goto(r, "queued")
  /\ queue' = [queue EXCEPT ![inst[r]] = Append(@, r)]
  /\ UNCHANGED <<redis, state, perUser, redisVars, flightVars, stopVars, faults>>

Enqueue(r) ==
  /\ pc[r] = "admitted" /\ HasRoom(r) /\ ~OverLocal(r)
  /\ Goto(r, "queued")
  /\ queue' = [queue EXCEPT ![inst[r]] = Append(@, r)]
  /\ Local(inst[r], UserOf[r], 1)
  /\ UNCHANGED <<redis, state, redisVars, flightVars, stopVars, faults>>

-----------------------------------------------------------------------------
(* runWorker                                                                *)

\* dequeue, by a worker that is free.
Dequeue(r) ==
  LET i == inst[r] IN
  /\ pc[r] = "queued" /\ i \in Instances
  /\ queue[i] # <<>> /\ r = Head(queue[i])
  /\ Cardinality({q \in Requests : inst[q] = i /\ pc[q] \in OnWorker}) < Workers
  /\ Goto(r, "taken")
  /\ queue' = [queue EXCEPT ![i] = Tail(@)]
  /\ Local(i, UserOf[r], -1)
  /\ UNCHANGED <<redis, state, redisVars, flightVars, stopVars, faults>>

\* Its context ended while it was queued, or it was queued for longer than
\* queueTimeout.
Discard(r) ==
  /\ pc[r] = "taken"
  /\ End(r, "dropped")
  /\ DecrUser(r)
  /\ UNCHANGED <<redis, state, localVars, flightVars, stopVars>>

\* On to the gate, which there is only with Redis.
ToGate(r) ==
  /\ pc[r] = "taken"
  /\ Goto(r, IF redis THEN "gate" ELSE "entered")
  /\ UNCHANGED <<redis, state, localVars, redisVars, flightVars, stopVars, faults>>

\* Mutated: the gate lets one worker too many in.
GateOpensWide(r) ==
  /\ pc[r] = "gate" /\ count[Gate] <= MaxGlobal
  /\ Goto(r, "entered")
  /\ Incr(Gate)
  /\ UNCHANGED <<redis, state, localVars, flightVars, stopVars, faults>>

\* globalGateScript succeeds.
GateOpens(r) ==
  /\ pc[r] = "gate" /\ count[Gate] < MaxGlobal
  /\ Goto(r, "entered")
  /\ Incr(Gate)
  /\ UNCHANGED <<redis, state, localVars, flightVars, stopVars, faults>>

\* The script finds no room: the counter's TTL starts again.
GateShut(r) ==
  /\ pc[r] = "gate" /\ count[Gate] >= MaxGlobal
  /\ expires' = [expires EXCEPT ![Gate] = TRUE]
  /\ UNCHANGED <<redis, state, reqVars, localVars, count, flightVars, stopVars, faults>>

\* The script fails, executed or not: the worker goes on without a unit.
GateFailsOpen(r) ==
  /\ pc[r] = "gate"
  /\ Goto(r, "entered")
  /\ Fault
  /\ IF count[Gate] < MaxGlobal THEN Incr(Gate) \/ UNCHANGED redisVars
                                ELSE UNCHANGED redisVars
  /\ UNCHANGED <<redis, state, localVars, flightVars, stopVars>>

\* The request's context ends while it waits: its channel has disconnected.
GateCancelled(r) ==
  /\ pc[r] = "gate"
  /\ End(r, "dropped")
  /\ DecrUser(r)
  /\ UNCHANGED <<redis, state, localVars, flightVars, stopVars>>

\* Mutated: the gate's unit is not given back.
ReleaseNothing(r) ==
  /\ pc[r] = "handled"
  /\ Goto(r, "paying")
  /\ UNCHANGED <<redis, state, localVars, redisVars, flightVars, stopVars, faults>>

\* releaseGlobalGate, whether or not the worker has counted itself in.
ReleaseGate(r) ==
  /\ pc[r] = "handled"
  /\ Goto(r, "paying")
  /\ IF redis THEN Decr(Gate) ELSE NoRedis
  /\ UNCHANGED <<redis, state, localVars, flightVars, stopVars>>

PayUser(r) ==
  /\ pc[r] = "paying"
  /\ End(r, "done")
  /\ DecrUser(r)
  /\ UNCHANGED <<redis, state, localVars, flightVars, stopVars>>

-----------------------------------------------------------------------------
(* executeQARequest                                                         *)

\* The request becomes its user's running one on this instance.
Register(r, e) == inflight' = [inflight EXCEPT ![inst[r]][UserOf[r]] = e]

\* checkAndClearStopMarker finds the user's marker: the handler returns, and its
\* deferred calls remove the user's entry again.
StoppedByMarker(r) ==
  LET u == UserOf[r] IN
  /\ pc[r] = "entered" /\ marker[u] # None
  /\ Goto(r, "handled")
  /\ Register(r, None)
  /\ marker' = [marker EXCEPT ![u] = None]
  /\ strays' = IF r \in marker[u] THEN strays ELSE strays \cup {r}
  /\ UNCHANGED <<redis, state, localVars, redisVars, mapping, stop, meant, faults>>

\* There is none, or the call fails: the handler reads the attachments and
\* creates the messages.
Start(r) ==
  /\ pc[r] = "entered"
  /\ (marker[UserOf[r]] = None /\ UNCHANGED faults) \/ Fault
  /\ Goto(r, "preparing")
  /\ Register(r, [req |-> r, msg |-> None])
  /\ UNCHANGED <<redis, state, localVars, redisVars, mapping, stopVars>>

\* The assistant message exists: whoever's entry there is for the user learns of
\* it, and Redis.
Answer(r) ==
  LET u == UserOf[r] IN
  /\ pc[r] = "preparing"
  /\ Goto(r, "answering")
  /\ inflight' = IF inflight[inst[r]][u] = None THEN inflight
                 ELSE [inflight EXCEPT ![inst[r]][u].msg = r]
  /\ mapping' = IF redis THEN [mapping EXCEPT ![u] = r] ELSE mapping
  /\ UNCHANGED <<redis, state, localVars, redisVars, stopVars, faults>>

\* Mutated: the mapping in Redis is not cleared.
ReturnMapped(r) ==
  /\ pc[r] \in {"preparing", "answering"}
  /\ Goto(r, "handled")
  /\ Register(r, None)
  /\ UNCHANGED <<redis, state, localVars, redisVars, mapping, stopVars, faults>>

\* The answer is sent, something fails, or the context ends: the deferred calls
\* remove the user's entries, whoever's they are.
Return(r) ==
  /\ pc[r] \in {"preparing", "answering"}
  /\ Goto(r, "handled")
  /\ Register(r, None)
  /\ mapping' = IF redis /\ pc[r] = "answering"
                THEN [mapping EXCEPT ![UserOf[r]] = None] ELSE mapping
  /\ UNCHANGED <<redis, state, localVars, redisVars, stopVars, faults>>

-----------------------------------------------------------------------------
(* /stop                                                                    *)

StopGoto(s, to) == stop' = [stop EXCEPT ![s] = to]

Waiting(i, u) == {n \in DOMAIN queue[i] : UserOf[queue[i][n]] = u}

\* Mutated: a request taken out of the queue stays in the local count.
TakeUncounted(i, n) ==
  End(queue[i][n], "dropped") /\ queue' = [queue EXCEPT ![i] = RemoveAt(@, n)]
  /\ UNCHANGED perUser

Take(i, n) == /\ End(queue[i][n], "dropped")
              /\ queue' = [queue EXCEPT ![i] = RemoveAt(@, n)]
              /\ Local(i, UserOf[queue[i][n]], -1)

\* Mutated: the request that is taken out of the queue keeps its unit.
RemovedKeepsUnit(s, i) ==
  /\ \E n \in Waiting(i, UserOf[s]) :
       (\A m \in Waiting(i, UserOf[s]) : n <= m) /\ Take(i, n)
  /\ StopGoto(s, "looking")
  /\ UNCHANGED <<redisVars, flightVars, faults>>

\* Remove: the first of the user's waiting requests.
Removed(s, i) ==
  /\ \E n \in Waiting(i, UserOf[s]) :
       (\A m \in Waiting(i, UserOf[s]) : n <= m) /\ Take(i, n)
  /\ IF redis THEN Decr(UserOf[s]) ELSE NoRedis
  /\ StopGoto(s, "looking")
  /\ UNCHANGED flightVars

\* LoadAndDelete, if none waits; with its message known, the stop event too.  The
\* context of the request ends, so that it returns early.
CancelledHere(s, i) ==
  LET e == inflight[i][UserOf[s]] IN
  /\ Waiting(i, UserOf[s]) = {}
  /\ inflight' = [inflight EXCEPT ![i][UserOf[s]] = None]
  /\ StopGoto(s, IF e # None /\ e.msg # None THEN "marking" ELSE "looking")
  /\ UNCHANGED <<reqVars, localVars, redisVars, mapping, faults>>

\* handleCommand: the queue and the running request of this instance.
StopHere(s, i) ==
  /\ stop[s] = "new" /\ i \in Routes[s] /\ state[i] # "down"
  /\ meant' = [meant EXCEPT ![s] = {r \in Requests : /\ UserOf[r] = UserOf[s]
                                                     /\ pc[r] \notin {"new"} \cup Ended}]
  /\ Removed(s, i) \/ CancelledHere(s, i)
  /\ UNCHANGED <<redis, state, marker, strays>>

\* The stop event for the user's running request wherever it is, by its mapping:
\* the request's watcher ends its context.
StopElsewhere(s) ==
  /\ stop[s] = "looking"
  /\ StopGoto(s, "marking")
  /\ UNCHANGED <<redis, state, reqVars, localVars, redisVars, flightVars, marker, meant,
                 strays, faults>>

\* The marker, for a request that has not started.
StopMark(s) ==
  /\ stop[s] = "marking"
  /\ StopGoto(s, "done")
  /\ \/ /\ marker' = IF redis THEN [marker EXCEPT ![UserOf[s]] = meant[s]] ELSE marker
        /\ UNCHANGED faults
     \/ redis /\ Fault /\ UNCHANGED marker
  /\ meant' = [meant EXCEPT ![s] = {}]
  /\ UNCHANGED <<redis, state, reqVars, localVars, redisVars, flightVars, strays>>

\* stopMarkerTTL is over.
MarkerExpires(u) ==
  /\ marker[u] # None
  /\ marker' = [marker EXCEPT ![u] = None]
  /\ UNCHANGED <<redis, state, reqVars, localVars, redisVars, flightVars, stop, meant, strays,
                 faults>>

-----------------------------------------------------------------------------
(* The instances                                                            *)

\* Stop: what is queued is still worked off.
Shutdown(i) ==
  /\ state[i] = "up"
  /\ state' = [state EXCEPT ![i] = "closed"]
  /\ UNCHANGED <<redis, reqVars, localVars, redisVars, flightVars, stopVars, faults>>

\* The process dies with everything it holds; Redis keeps its units.
Crash(i) ==
  /\ state[i] # "down"
  /\ Fault
  /\ state' = [state EXCEPT ![i] = "down"]
  /\ pc' = [r \in Requests |-> IF inst[r] = i THEN "dead" ELSE pc[r]]
  /\ inst' = [r \in Requests |-> IF inst[r] = i THEN None ELSE inst[r]]
  /\ queue' = [queue EXCEPT ![i] = <<>>]
  /\ perUser' = [perUser EXCEPT ![i] = [u \in Users |-> 0]]
  /\ inflight' = [inflight EXCEPT ![i] = [u \in Users |-> None]]
  /\ UNCHANGED <<redis, redisVars, mapping, stopVars>>

Progress(r) ==
  \/ OverLimit(r) \/ Reject(r) \/ RejectLocal(r) \/ Enqueue(r)
  \/ Dequeue(r) \/ Discard(r) \/ ToGate(r)
  \/ GateOpens(r) \/ GateShut(r) \/ GateFailsOpen(r)
  \/ StoppedByMarker(r) \/ Start(r) \/ Answer(r) \/ Return(r)
  \/ ReleaseGate(r) \/ PayUser(r)

StopNext(s) == (\E i \in Instances : StopHere(s, i)) \/ StopElsewhere(s) \/ StopMark(s)

Next ==
  \/ \E r \in Requests, i \in Instances : Arrive(r, i) \/ ArriveUncounted(r, i)
  \/ \E r \in Requests : Progress(r) \/ GateCancelled(r)
  \/ \E s \in Stops : StopNext(s)
  \/ \E u \in Users : MarkerExpires(u)
  \/ \E k \in Keys : Expire(k)
  \/ \E i \in Instances : Shutdown(i) \/ Crash(i)

\* Workers and handlers go on, and what nobody counts on expires.  Nothing else
\* has to happen.
Fairness ==
  /\ \A r \in Requests : WF_vars(Progress(r) /\ UNCHANGED faults)
  /\ \A s \in Stops : WF_vars((StopElsewhere(s) \/ StopMark(s)) /\ UNCHANGED faults)
  /\ \A k \in Keys : WF_vars(Expire(k) /\ UNCHANGED faults)

Spec == Init /\ [][Next]_vars /\ Fairness

-----------------------------------------------------------------------------
(* What the queue promises as long as Redis answers, nothing expires early  *)
(* and no instance dies.                                                    *)

\* Units are neither lost nor given back twice (qaqueue.go:137-265): a user's
\* counter is the number of requests that will still give a unit back, whether
\* they end over the limit, in a full or closed queue, by /stop, by time-out,
\* at the gate or answered; the gate's is the number of workers past it.
CountersExact ==
  Calm /\ redis => \A k \in Keys : count[k] = Cardinality(Units(k))

\* The limits of the multi-instance mode: of a user's requests on all instances,
\* waiting or being answered, and of the answers being given.
GlobalLimits ==
  Calm /\ redis =>
    /\ \A u \in Users : Cardinality({r \in Units(u) : pc[r] # "over"}) <= MaxPerUser
    /\ Cardinality(Units(Gate)) <= MaxGlobal

\* The limits of an instance, faults or not: a request waits once, in the queue
\* of its instance; without Redis the local counts are those of the waiting
\* requests and stay within the user's limit, /stop and dequeue racing.
LocalLimits ==
  /\ \A i \in Instances : IsInjective(queue[i]) /\ Len(queue[i]) <= MaxSize
  /\ \A i \in Instances, r \in Requests :
       r \in ToSet(queue[i]) <=> (pc[r] = "queued" /\ inst[r] = i)
  /\ ~redis => \A i \in Instances, u \in Users :
       /\ perUser[i][u] = Cardinality({r \in ToSet(queue[i]) : UserOf[r] = u})
       /\ perUser[i][u] <= MaxPerUser

\* What /stop finds is alive: an entry of the inflight map is of a request that
\* runs here, its message of one being answered, and so is a mapping in Redis
\* unless its instance died; a later request is never cancelled for an earlier.
RegistryIsLive ==
  /\ \A i \in Instances, u \in Users :
       LET e == inflight[i][u] IN
       e # None => /\ UserOf[e.req] = u /\ inst[e.req] = i
                   /\ pc[e.req] \in {"preparing", "answering"}
                   /\ e.msg # None => pc[e.msg] = "answering" /\ inst[e.msg] = i
  /\ \A u \in Users :
       mapping[u] # None => UserOf[mapping[u]] = u /\ pc[mapping[u]] \in {"answering", "dead"}

\* Every request comes to an end: workers blocked at the gate get through.
RequestsEnd == []<>(~Calm \/ \A r \in Requests : pc[r] \in {"new"} \cup Ended)

-----------------------------------------------------------------------------
(* What the comments say, which the code does not keep.                     *)

\* globalGateTTL (qaqueue.go:27-29): a counter that instances left behind when
\* they crashed heals itself once its TTL is over.
LeftBehind == count[Gate] >= MaxGlobal /\ Units(Gate) = {}

GateHeals == LeftBehind ~> ~LeftBehind

\* executeQARequest (service.go:1850): the marker ends a request that was queued
\* when the /stop was issued.
MarkerHitsItsOwn == strays = {}
=============================================================================
