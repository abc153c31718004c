----------------------------- MODULE TokenLock -----------------------------
(***************************************************************************)
(* The renewable Redis lock of internal/common/redislock: one key, several *)
(* calls of WithRenewableLock, each with a token of its own.  A call is    *)
(* its token.  Time is counted in ticks; a Redis call ends within MaxDelay *)
(* of them (the client's time-outs), with a reply or with an error.        *)
(***************************************************************************)
EXTENDS Integers

CONSTANTS
  Calls,       \* calls of WithRenewableLock, by their tokens
  None,        \* the key does not exist
  Lease,       \* life of the key without a renewal
  RenewEvery,  \* period of the renewal ticker
  MaxDelay,    \* longest Redis call
  MaxLoss      \* how often Redis may lose the key (failover, eviction)

ASSUME TokensAssumption == None \notin Calls

\* WithRenewableLock refuses an interval that is not shorter than the lease.
ASSUME TimingAssumption ==
  /\ {Lease, RenewEvery, MaxDelay, MaxLoss} \subseteq Nat
  /\ 0 < RenewEvery /\ RenewEvery < Lease

\* What makes the lease safe: a late renewal still comes in time.
ASSUME TimelyAssumption ==
  /\ MaxDelay < RenewEvery
  /\ RenewEvery + 2 * MaxDelay < Lease

VARIABLES
  holder,   \* the token stored under the key, or None
  ttl,      \* what is left of the key's lease
  pc,       \* where each call is
  ren,      \* where its renewal goroutine is
  age,      \* age of its Redis call under way
  tick,     \* time since its ticker last fired
  live,     \* its ownership context is not cancelled
  stray,    \* requests given up by their caller that Redis may still execute
  losses,   \* history: keys Redis has lost
  broke,    \* history: the key stopped being this call's while its callback ran
  exposed   \* history: how long a live callback has run without the key

redisVars == <<holder, ttl>>
callVars == <<pc, ren, age, tick, live>>
ghostVars == <<losses, broke, exposed>>
vars == <<redisVars, callVars, stray, ghostVars>>

Pcs == {"idle", "asking", "won", "beaten", "retry", "running", "stopping",
        "releasing", "ok", "lost", "error", "dead"}
Ended == {"ok", "lost", "error", "dead"}
Rens == {"off", "idle", "sent", "applied", "denied", "lost", "stopped"}

\* A call with a Redis request under way.
InCall(c) == \/ pc[c] \in {"asking", "won", "beaten", "releasing"}
             \/ ren[c] \in {"sent", "applied", "denied"}

Owning(c) == pc[c] = "running" /\ live[c]

TypeOK ==
  /\ holder \in Calls \cup {None}
  /\ ttl \in 0 .. Lease
  /\ pc \in [Calls -> Pcs]
  /\ ren \in [Calls -> Rens]
  /\ age \in [Calls -> 0 .. MaxDelay]
  /\ tick \in [Calls -> 0 .. RenewEvery]
  /\ live \in [Calls -> BOOLEAN]
  /\ stray \subseteq Calls \X {"setnx", "renew"}
  /\ losses \in 0 .. MaxLoss
  /\ broke \in [Calls -> BOOLEAN]
  /\ exposed \in [Calls -> Nat]

Init ==
  /\ holder = None /\ ttl = 0
  /\ pc = [c \in Calls |-> "idle"]
  /\ ren = [c \in Calls |-> "off"]
  /\ age = [c \in Calls |-> 0]
  /\ tick = [c \in Calls |-> 0]
  /\ live = [c \in Calls |-> FALSE]
  /\ stray = {}
  /\ losses = 0
  /\ broke = [c \in Calls |-> FALSE]
  /\ exposed = [c \in Calls |-> 0]

-----------------------------------------------------------------------------
(* The key.  Every command of the scripts is atomic.                        *)

\* The callbacks that run while the key stops being theirs.
Break(c) == broke' = [broke EXCEPT ![c] = @ \/ pc[c] = "running"]

\* SET NX PX lease.
SetNX(c) ==
  IF holder = None THEN holder' = c /\ ttl' = Lease ELSE UNCHANGED redisVars

\* Mutated: the lease is added to what is left of it.
RenewAdds(c) == ttl' = IF holder = c THEN ttl + Lease ELSE ttl

\* renewScript: PEXPIRE if the token is still the call's.
RenewScript(c) == ttl' = IF holder = c THEN Lease ELSE ttl

\* releaseScript: DEL if the token is still the call's.
ReleaseScript(c) ==
  IF holder = c THEN holder' = None /\ ttl' = 0 /\ Break(c)
                ELSE UNCHANGED <<redisVars, broke>>

-----------------------------------------------------------------------------
(* Acquire                                                                  *)

Goto(c, to) == pc' = [pc EXCEPT ![c] = to]
Sent(c) == age' = [age EXCEPT ![c] = 0]

\* A request given up before it was executed may still be, later.
GivenUp(c, pending, op) ==
  \/ UNCHANGED stray
  \/ pending /\ stray' = stray \cup {<<c, op>>}

\* TryAcquire sends its command, again and again while it is beaten.
Ask(c) ==
  /\ pc[c] \in {"idle", "retry"}
  /\ Goto(c, "asking")
  /\ Sent(c)
  /\ UNCHANGED <<redisVars, ren, tick, live, stray, ghostVars>>

\* The client library resends a command whose reply does not arrive: the call
\* is then beaten by its own token.
Resend(c) ==
  /\ pc[c] = "won"
  /\ Goto(c, "asking")
  /\ UNCHANGED <<redisVars, ren, age, tick, live, stray, ghostVars>>

AskExecuted(c) ==
  /\ pc[c] = "asking"
  /\ Goto(c, IF holder = None THEN "won" ELSE "beaten")
  /\ SetNX(c)
  /\ UNCHANGED <<ren, age, tick, live, stray, ghostVars>>

Beaten(c) ==
  /\ pc[c] = "beaten"
  /\ Goto(c, "retry")
  /\ Sent(c)
  /\ UNCHANGED <<redisVars, ren, tick, live, stray, ghostVars>>

\* WithRenewableLock starts the renewal goroutine, then the callback.
Acquired(c) ==
  /\ pc[c] = "won"
  /\ Goto(c, "running")
  /\ ren' = [ren EXCEPT ![c] = "idle"]
  /\ tick' = [tick EXCEPT ![c] = 0]
  /\ live' = [live EXCEPT ![c] = TRUE]
  /\ broke' = [broke EXCEPT ![c] = holder # c]
  /\ Sent(c)
  /\ UNCHANGED <<redisVars, stray, losses, exposed>>

\* An error, or the end of the caller's context while it waits.
AcquireFailed(c) ==
  /\ pc[c] \in {"asking", "won", "beaten", "retry"}
  /\ Goto(c, "error")
  /\ Sent(c)
  /\ GivenUp(c, pc[c] = "asking", "setnx")
  /\ UNCHANGED <<redisVars, ren, tick, live, ghostVars>>

-----------------------------------------------------------------------------
(* renewLoop                                                                *)

RenGoto(c, to) == ren' = [ren EXCEPT ![c] = to]

RenewSend(c) ==
  /\ pc[c] = "running" /\ ren[c] = "idle" /\ tick[c] = RenewEvery
  /\ RenGoto(c, "sent")
  /\ Sent(c)
  /\ tick' = [tick EXCEPT ![c] = 0]
  /\ UNCHANGED <<redisVars, pc, live, stray, ghostVars>>

RenewExecuted(c) ==
  /\ ren[c] = "sent"
  /\ RenGoto(c, IF holder = c THEN "applied" ELSE "denied")
  /\ RenewScript(c)
  /\ UNCHANGED <<holder, pc, age, tick, live, stray, ghostVars>>

Renewed(c) ==
  /\ ren[c] = "applied"
  /\ RenGoto(c, "idle")
  /\ Sent(c)
  /\ UNCHANGED <<redisVars, pc, tick, live, stray, ghostVars>>

\* Mutated: a renewal that finds another token is taken for a success.
RenewDenialIgnored(c) ==
  /\ ren[c] \in {"sent", "applied", "denied"}
  /\ RenGoto(c, IF ren[c] = "denied" THEN "idle" ELSE "lost")
  /\ Sent(c)
  /\ live' = [live EXCEPT ![c] = @ /\ ren[c] = "denied"]
  /\ GivenUp(c, ren[c] = "sent", "renew")
  /\ UNCHANGED <<redisVars, pc, tick, ghostVars>>

\* Mutated: a renewal that fails is tried again at the next tick.
RenewErrorIgnored(c) ==
  /\ ren[c] \in {"sent", "applied", "denied"}
  /\ RenGoto(c, IF ren[c] = "denied" THEN "lost" ELSE "idle")
  /\ Sent(c)
  /\ live' = [live EXCEPT ![c] = @ /\ ren[c] # "denied"]
  /\ GivenUp(c, ren[c] = "sent", "renew")
  /\ UNCHANGED <<redisVars, pc, tick, ghostVars>>

\* The token is not the call's any more, or the call failed: both contexts
\* are cancelled and the goroutine ends.
RenewLost(c) ==
  /\ ren[c] \in {"sent", "applied", "denied"}
  /\ RenGoto(c, "lost")
  /\ Sent(c)
  /\ live' = [live EXCEPT ![c] = FALSE]
  /\ GivenUp(c, ren[c] = "sent", "renew")
  /\ UNCHANGED <<redisVars, pc, tick, ghostVars>>

\* stopRenewal cancels the goroutine's context, its request included.
RenewStopped(c) ==
  /\ pc[c] = "stopping" /\ ren[c] \in {"idle", "sent", "applied", "denied"}
  /\ RenGoto(c, "stopped")
  /\ Sent(c)
  /\ GivenUp(c, ren[c] = "sent", "renew")
  /\ UNCHANGED <<redisVars, pc, tick, live, ghostVars>>

-----------------------------------------------------------------------------
(* The end of WithRenewableLock                                             *)

\* The callback returns, at any time and for any reason.
CallbackReturns(c) ==
  /\ pc[c] = "running"
  /\ Goto(c, "stopping")
  /\ UNCHANGED <<redisVars, ren, age, tick, live, stray, ghostVars>>

\* The renewal's result is in: both contexts are cancelled.
Release(c) ==
  /\ pc[c] = "stopping" /\ ren[c] \in {"lost", "stopped"}
  /\ Goto(c, "releasing")
  /\ live' = [live EXCEPT ![c] = FALSE]
  /\ Sent(c)
  /\ UNCHANGED <<redisVars, ren, tick, stray, ghostVars>>

\* Mutated: what the release script returns is not looked at.
ReleasedBlindly(c) ==
  /\ pc[c] = "releasing"
  /\ Goto(c, IF ren[c] = "lost" THEN "lost" ELSE "ok")
  /\ ReleaseScript(c)
  /\ Sent(c)
  /\ UNCHANGED <<ren, tick, live, stray, losses, exposed>>

\* A key that was not the call's any more is reported as lost.
Released(c) ==
  /\ pc[c] = "releasing"
  /\ Goto(c, IF ren[c] = "lost" \/ holder # c THEN "lost" ELSE "ok")
  /\ ReleaseScript(c)
  /\ Sent(c)
  /\ UNCHANGED <<ren, tick, live, stray, losses, exposed>>

\* The release fails; its command may have been executed.
ReleaseFailed(c) ==
  /\ pc[c] = "releasing"
  /\ Goto(c, "error")
  /\ ReleaseScript(c) \/ UNCHANGED <<redisVars, broke>>
  /\ Sent(c)
  /\ UNCHANGED <<ren, tick, live, stray, losses, exposed>>

\* The process dies.
Crash(c) ==
  /\ pc[c] \notin Ended \cup {"idle"}
  /\ Goto(c, "dead")
  /\ RenGoto(c, "off")
  /\ live' = [live EXCEPT ![c] = FALSE]
  /\ Sent(c)
  /\ UNCHANGED <<redisVars, tick, stray, ghostVars>>

-----------------------------------------------------------------------------
(* Redis and time                                                           *)

\* Redis executes a request its caller has given up.
StrayExecuted(c) ==
  /\ \/ /\ <<c, "setnx">> \in stray
        /\ stray' = stray \ {<<c, "setnx">>}
        /\ SetNX(c)
     \/ /\ <<c, "renew">> \in stray
        /\ stray' = stray \ {<<c, "renew">>}
        /\ RenewScript(c) /\ UNCHANGED holder
  /\ UNCHANGED <<callVars, ghostVars>>

\* Redis loses the key.
Lose ==
  /\ losses < MaxLoss /\ holder # None
  /\ losses' = losses + 1
  /\ holder' = None /\ ttl' = 0
  /\ Break(holder)
  /\ UNCHANGED <<callVars, stray, exposed>>

\* Mutated: a key without an expiry.
LeaseForever ==
  ttl' = (IF ttl = 0 THEN 0 ELSE ttl - 1) /\ UNCHANGED <<holder, broke>>

\* The key's life gets shorter, and ends.
LeaseElapses ==
  IF holder # None /\ ttl <= 1
  THEN holder' = None /\ ttl' = 0 /\ Break(holder)
  ELSE ttl' = (IF holder = None THEN 0 ELSE ttl - 1) /\ UNCHANGED <<holder, broke>>

\* A unit of time passes, unless a request has to end or a ticker to fire
\* first.
Tick ==
  /\ \A c \in Calls : /\ InCall(c) => age[c] < MaxDelay
                      /\ ren[c] = "idle" /\ pc[c] = "running" => tick[c] < RenewEvery
  /\ LeaseElapses
  /\ age' = [c \in Calls |-> IF InCall(c) THEN age[c] + 1 ELSE age[c]]
  /\ tick' = [c \in Calls |-> IF ren[c] \in {"idle", "sent", "applied", "denied"}
                                 /\ tick[c] < RenewEvery
                              THEN tick[c] + 1 ELSE tick[c]]
  /\ exposed' = [c \in Calls |-> IF Owning(c) /\ holder # c
                                 THEN exposed[c] + 1 ELSE exposed[c]]
  /\ UNCHANGED <<pc, ren, live, stray, losses>>

Replies(c) ==
  \/ AskExecuted(c) \/ Beaten(c) \/ Acquired(c)
  \/ RenewExecuted(c) \/ Renewed(c) \/ RenewLost(c)
  \/ Released(c) \/ ReleaseFailed(c)

Steps(c) ==
  Ask(c) \/ RenewSend(c) \/ RenewStopped(c) \/ Release(c)

Next ==
  \/ \E c \in Calls :
       Replies(c) \/ Steps(c) \/ CallbackReturns(c) \/ Resend(c) \/ AcquireFailed(c) \/ Crash(c)
       \/ StrayExecuted(c)
  \/ Lose
  \/ Tick

\* Replies and time-outs come, tickers fire, callbacks return; that a reply is
\* lost for ever and that time stands still is ruled out.  New calls, giving up,
\* crashes and losses are under no fairness.
Fairness ==
  /\ WF_vars(Tick)
  /\ \A c \in Calls : /\ WF_vars(Replies(c)) /\ WF_vars(Steps(c))
                      /\ WF_vars(CallbackReturns(c)) /\ SF_vars(Acquired(c))

Spec == Init /\ [][Next]_vars /\ Fairness

-----------------------------------------------------------------------------
(* What the lock is for.                                                    *)

\* Mutual exclusion (token_lock.go:1-2): unless Redis loses the key, two
\* callbacks never run at the same time with live ownership contexts, whatever
\* crashes, failed, resent and late requests do.
MutualExclusion ==
  losses = 0 => \A c, d \in Calls : Owning(c) /\ Owning(d) => c = d

\* A callback that has lost the key is told: its context is cancelled before
\* one more period and one more Redis call have passed.
LostLockIsNoticed == \A c \in Calls : exposed[c] <= RenewEvery + MaxDelay

\* Loss is reported (token_lock.go:204-206): a call of WithRenewableLock that
\* returns without an error held the key for as long as its callback ran.
LossIsReported == \A c \in Calls : pc[c] = "ok" => ~broke[c]

\* Whoever waits in Acquire gets the lock, or fails.
WaitersGetIn ==
  \A c \in Calls : (pc[c] = "retry") ~> (pc[c] \in {"running"} \cup Ended)
=============================================================================
