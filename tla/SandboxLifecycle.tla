-------------------------- MODULE SandboxLifecycle --------------------------
(***************************************************************************)
(* The remote sandbox of one chat session (internal/sandbox): Resolve      *)
(* finds, recovers or creates it, deleting the session destroys it.  Both  *)
(* run under the lifecycle lock of the session and work on three stores:   *)
(* the binding in Redis, the provider's sandboxes and the session's row.   *)
(* One request to a store is one step: it is executed and answered, or     *)
(* fails, or is executed and its answer is lost.                           *)
(***************************************************************************)
EXTENDS Integers

CONSTANTS
  Resolves,   \* calls of Resolve
  Deletes,    \* calls of DeleteSession
  None,       \* no call, no sandbox
  MaxBoxes,   \* how many sandboxes are ever created
  MaxDeaths,  \* how many of them the provider takes away by itself
  MaxFaults   \* failed requests, lost answers, lost locks and crashes

ASSUME CallsAssumption ==
  /\ Resolves \cap Deletes = {}
  /\ None \notin Resolves \cup Deletes \cup Nat

ASSUME BoundsAssumption == {MaxBoxes, MaxDeaths, MaxFaults} \subseteq Nat

Calls == Resolves \cup Deletes

\* Sandboxes, in the order they were started.
Boxes == 1 .. MaxBoxes

VARIABLES
  binding,   \* the sandbox the binding names, or None
  live,      \* the provider's sandboxes that can be connected to
  made,      \* how many were created
  row,       \* the session's row is there
  listable,  \* the provider lists sandboxes by their metadata
  lock,      \* the call that holds the lifecycle lock, or None
  pc,        \* where each call is
  seen,      \* the binding it has read
  hand,      \* the sandbox it has created or connected to
  listed,    \* the sandboxes it has listed
  res,       \* how it ends
  deaths,    \* history: sandboxes the provider took away
  faults,    \* history: faults so far
  shared,    \* history: calls that were not alone in their critical section
  raced      \* history: a Resolve found the row between destroy and delete

stores == <<binding, live, made>>
ghosts == <<deaths, faults, shared, raced>>
vars == <<stores, row, listable, lock, pc, seen, hand, listed, res, ghosts>>

Steps == {"read", "exists", "connect", "unbind", "list", "pick", "dups",
          "adopt", "create", "recheck", "bind", "winner", "retire", "follow",
          "join", "cleanup", "destroy", "forget", "confirm", "unlock"}
Results == {"none", "ok", "failed", "deleted"}

InSection(c) == pc[c] \in Steps
Active(c) == pc[c] \in Steps \cup {"drop"}

\* A Resolve that has handed its sandbox to its caller.
Uses(c, b) == c \in Resolves /\ pc[c] = "ended" /\ res[c] = "ok" /\ hand[c] = b

TypeOK ==
  /\ binding \in Boxes \cup {None}
  /\ made \in 0 .. MaxBoxes
  /\ live \subseteq 1 .. made
  /\ row \in BOOLEAN /\ listable \in BOOLEAN
  /\ lock \in Calls \cup {None}
  /\ pc \in [Calls -> Steps \cup {"idle", "drop", "ended", "dead"}]
  /\ seen \in [Calls -> Boxes \cup {None}]
  /\ hand \in [Calls -> Boxes \cup {None}]
  /\ listed \in [Calls -> SUBSET Boxes]
  /\ res \in [Calls -> Results]
  /\ deaths \in 0 .. MaxDeaths /\ faults \in 0 .. MaxFaults
  /\ shared \subseteq Calls /\ raced \in BOOLEAN
  /\ \A c \in Calls : lock = c => InSection(c) \/ pc[c] = "dead"

Init ==
  /\ binding = None /\ live = {} /\ made = 0
  /\ row = TRUE
  /\ listable \in BOOLEAN
  /\ lock = None
  /\ pc = [c \in Calls |-> "idle"]
  /\ seen = [c \in Calls |-> None]
  /\ hand = [c \in Calls |-> None]
  /\ listed = [c \in Calls |-> {}]
  /\ res = [c \in Calls |-> "none"]
  /\ deaths = 0 /\ faults = 0
  /\ shared = {} /\ raced = FALSE

-----------------------------------------------------------------------------
(* What the requests do to the stores                                       *)

\* SET NX of the binding, without expiration.
SetNX(b) ==
  /\ binding' = IF binding = None THEN b ELSE binding
  /\ UNCHANGED <<live, made>>

\* Mutated: the binding is deleted whatever it names.
DeleteAnyway(b) == binding' = None /\ UNCHANGED <<live, made>>

\* DeleteIfMatch: the compare-and-delete script.
DeleteIfMatch(b) ==
  /\ binding' = IF binding = b THEN None ELSE binding
  /\ UNCHANGED <<live, made>>

\* The provider's Delete; a sandbox that is gone already counts as deleted.
DeleteBox(b) == live' = live \ {b} /\ UNCHANGED <<binding, made>>

\* The provider's Create, with the session's metadata.
CreateBox ==
  /\ made < MaxBoxes
  /\ made' = made + 1
  /\ live' = live \cup {made + 1}
  /\ UNCHANGED binding

\* Mutated: the duplicates are left alone.
NoDuplicates(c) == {}

\* The duplicates cleanupOwnedDuplicates has yet to delete.
Duplicates(c) == listed[c] \ {hand[c]}

\* The request a call is about to send, for those that change a store.
Effect(c) ==
  \/ pc[c] = "create" /\ CreateBox
  \/ pc[c] \in {"bind", "adopt"} /\ SetNX(hand[c])
  \/ pc[c] \in {"unbind", "forget"} /\ DeleteIfMatch(seen[c])
  \/ pc[c] = "destroy" /\ DeleteBox(seen[c])
  \/ pc[c] \in {"cleanup", "retire"} /\ DeleteBox(hand[c])
  \/ pc[c] = "dups" /\ \E b \in Duplicates(c) : DeleteBox(b)

-----------------------------------------------------------------------------
(* Steps of a call.  "unlock" is the way out of the critical section.       *)

Goto(c, to) == pc' = [pc EXCEPT ![c] = to]

Leave(c, result) ==
  /\ Goto(c, "unlock")
  /\ res' = [res EXCEPT ![c] = result]

Take(c, b) == hand' = [hand EXCEPT ![c] = b]
See(c) == seen' = [seen EXCEPT ![c] = binding]

\* A call enters a critical section that an earlier holder may not have left.
Joins(c) ==
  shared' = IF \E o \in Calls : InSection(o) THEN shared \cup {c} ELSE shared

\* Mutated: the section is entered without waiting for the lock.
LockBlindly(c) ==
  /\ pc[c] = "idle"
  /\ c \in Deletes => row
  /\ lock' = c
  /\ Goto(c, "read")
  /\ Joins(c)
  /\ UNCHANGED <<stores, row, listable, seen, hand, listed, res, deaths, faults, raced>>

\* WithLifecycleLock; DeleteSession has found the row before it.
Lock(c) ==
  /\ pc[c] = "idle"
  /\ c \in Deletes => row
  /\ lock = None
  /\ lock' = c
  /\ Goto(c, "read")
  /\ Joins(c)
  /\ UNCHANGED <<stores, row, listable, seen, hand, listed, res, deaths, faults, raced>>

\* Resolve and Destroy read the binding; Destroy of an unbound session is done.
Read(c) ==
  /\ pc[c] = "read"
  /\ See(c)
  /\ \/ c \in Resolves /\ Goto(c, "exists") /\ UNCHANGED res
     \/ c \in Deletes /\ binding # None /\ Goto(c, "destroy") /\ UNCHANGED res
     \/ c \in Deletes /\ binding = None /\ Leave(c, "ok")
  /\ UNCHANGED <<stores, row, listable, lock, hand, listed, ghosts>>

\* Where a session without a usable binding goes on: recoverOwnedSandbox
\* needs a provider that lists by metadata.
Replace(c) == Goto(c, IF listable THEN "list" ELSE "create")

\* SessionExists: a deleted session's sandbox is destroyed.
Exists(c) ==
  /\ pc[c] = "exists"
  /\ \/ row /\ seen[c] # None /\ Goto(c, "connect") /\ UNCHANGED res
     \/ row /\ seen[c] = None /\ Replace(c) /\ UNCHANGED res
     \/ ~row /\ seen[c] # None /\ Goto(c, "destroy") /\ UNCHANGED res
     \/ ~row /\ seen[c] = None /\ Leave(c, "deleted")
  /\ raced' = (raced \/ (row /\ \E d \in Deletes : pc[d] = "drop"))
  /\ UNCHANGED <<stores, row, listable, lock, seen, hand, listed, deaths, faults, shared>>

\* connectBinding: Get and Connect (a sandbox that is gone never comes back).
Connect(c) ==
  /\ pc[c] = "connect"
  /\ \/ seen[c] \in live /\ Take(c, seen[c]) /\ Leave(c, "ok")
     \/ seen[c] \notin live /\ Goto(c, "unbind") /\ UNCHANGED <<hand, res>>
  /\ UNCHANGED <<stores, row, listable, lock, seen, listed, ghosts>>

\* The binding of a terminal sandbox is deleted, and must be the one read.
Unbind(c) ==
  /\ pc[c] = "unbind"
  /\ DeleteIfMatch(seen[c])
  /\ \/ binding = seen[c] /\ Replace(c) /\ UNCHANGED res
     \/ binding # seen[c] /\ Leave(c, "failed")
  /\ UNCHANGED <<row, listable, lock, seen, hand, listed, ghosts>>

\* recoverOwnedSandbox: the session's sandboxes that are not terminal.
List(c) ==
  /\ pc[c] = "list"
  /\ listed' = [listed EXCEPT ![c] = live]
  /\ Goto(c, "pick")
  /\ UNCHANGED <<stores, row, listable, lock, seen, hand, res, ghosts>>

\* The oldest of them that can still be connected to.
Pick(c) ==
  /\ pc[c] = "pick"
  /\ \/ /\ \E b \in listed[c] \cap live :
             /\ \A o \in listed[c] \cap live : b <= o
             /\ Take(c, b)
        /\ Goto(c, "dups")
     \/ /\ listed[c] \cap live = {}
        /\ Goto(c, "create")
        /\ UNCHANGED hand
  /\ UNCHANGED <<stores, row, listable, lock, seen, listed, res, ghosts>>

\* cleanupOwnedDuplicates, one sandbox after the other.
DeleteDuplicate(c) ==
  /\ pc[c] = "dups"
  /\ \E b \in Duplicates(c) :
       /\ DeleteBox(b)
       /\ listed' = [listed EXCEPT ![c] = @ \ {b}]
  /\ UNCHANGED <<row, listable, lock, pc, seen, hand, res, ghosts>>

Cleaned(c) ==
  /\ pc[c] = "dups"
  /\ Duplicates(c) = {}
  /\ Goto(c, "adopt")
  /\ UNCHANGED <<stores, row, listable, lock, seen, hand, listed, res, ghosts>>

\* The recovered sandbox is bound, or another coordinator's is joined.
Adopt(c) ==
  /\ pc[c] = "adopt"
  /\ SetNX(hand[c])
  /\ \/ binding = None /\ Leave(c, "ok")
     \/ binding # None /\ Goto(c, "follow") /\ UNCHANGED res
  /\ UNCHANGED <<row, listable, lock, seen, hand, listed, ghosts>>

-----------------------------------------------------------------------------
(* createAndBind                                                            *)

Create(c) ==
  /\ pc[c] = "create"
  /\ CreateBox
  /\ Take(c, made + 1)
  /\ Goto(c, "recheck")
  /\ UNCHANGED <<row, listable, lock, seen, listed, res, ghosts>>

\* Mutated: a sandbox created for a session that is gone is forgotten.
RecheckForgets(c) ==
  /\ pc[c] = "recheck"
  /\ \/ row /\ Goto(c, "bind") /\ UNCHANGED res
     \/ ~row /\ Leave(c, "deleted")
  /\ UNCHANGED <<stores, row, listable, lock, seen, hand, listed, ghosts>>

\* The session is looked up again before the new sandbox is bound.
Recheck(c) ==
  /\ pc[c] = "recheck"
  /\ \/ row /\ Goto(c, "bind") /\ UNCHANGED res
     \/ ~row /\ Goto(c, "cleanup") /\ res' = [res EXCEPT ![c] = "deleted"]
  /\ UNCHANGED <<stores, row, listable, lock, seen, hand, listed, ghosts>>

Bind(c) ==
  /\ pc[c] = "bind"
  /\ SetNX(hand[c])
  /\ \/ binding = None /\ Leave(c, "ok")
     \/ binding # None /\ Goto(c, "winner") /\ UNCHANGED res
  /\ UNCHANGED <<row, listable, lock, seen, hand, listed, ghosts>>

\* The binding was there: it may name the very sandbox this call created.
Winner(c) ==
  /\ pc[c] = "winner"
  /\ See(c)
  /\ \/ binding = hand[c] /\ Leave(c, "ok")
     \/ binding # hand[c] /\ Goto(c, "retire") /\ UNCHANGED res
  /\ UNCHANGED <<stores, row, listable, lock, hand, listed, ghosts>>

\* The losing sandbox is deleted.
Retire(c) ==
  /\ pc[c] = "retire"
  /\ DeleteBox(hand[c])
  /\ \/ seen[c] = None /\ Leave(c, "failed")
     \/ seen[c] # None /\ Goto(c, "join") /\ UNCHANGED res
  /\ UNCHANGED <<row, listable, lock, seen, hand, listed, ghosts>>

\* connectWinner reads the binding first.
Follow(c) ==
  /\ pc[c] = "follow"
  /\ See(c)
  /\ \/ binding = None /\ Leave(c, "failed")
     \/ binding # None /\ Goto(c, "join") /\ UNCHANGED res
  /\ UNCHANGED <<stores, row, listable, lock, hand, listed, ghosts>>

\* connectKnownWinner; a winner that is terminal is an error.
Join(c) ==
  /\ pc[c] = "join"
  /\ \/ seen[c] \in live /\ Take(c, seen[c]) /\ Leave(c, "ok")
     \/ seen[c] \notin live /\ Leave(c, "failed") /\ UNCHANGED hand
  /\ UNCHANGED <<stores, row, listable, lock, seen, listed, ghosts>>

\* cleanupCreated, under the ownership context: the result stands already.
Cleanup(c) ==
  /\ pc[c] = "cleanup"
  /\ DeleteBox(hand[c])
  /\ Goto(c, "unlock")
  /\ UNCHANGED <<row, listable, lock, seen, hand, listed, res, ghosts>>

-----------------------------------------------------------------------------
(* destroyBindingLocked, and the end of a call                              *)

Destroy(c) ==
  /\ pc[c] = "destroy"
  /\ DeleteBox(seen[c])
  /\ Goto(c, "forget")
  /\ UNCHANGED <<row, listable, lock, seen, hand, listed, res, ghosts>>

\* A Resolve that destroys answers that its session is deleted.
DestroyResult(c) == IF c \in Resolves THEN "deleted" ELSE "ok"

Forget(c) ==
  /\ pc[c] = "forget"
  /\ DeleteIfMatch(seen[c])
  /\ \/ binding = seen[c] /\ Leave(c, DestroyResult(c))
     \/ binding # seen[c] /\ Goto(c, "confirm") /\ UNCHANGED res
  /\ UNCHANGED <<row, listable, lock, seen, hand, listed, ghosts>>

Confirm(c) ==
  /\ pc[c] = "confirm"
  /\ Leave(c, IF binding = None THEN DestroyResult(c) ELSE "failed")
  /\ UNCHANGED <<stores, row, listable, lock, seen, hand, listed, ghosts>>

\* Mutated: the lock is left to its lease.
UnlockForgets(c) ==
  /\ pc[c] = "unlock"
  /\ UNCHANGED <<lock, res>>
  /\ Goto(c, IF c \in Deletes THEN "drop" ELSE "ended")
  /\ UNCHANGED <<stores, row, listable, seen, hand, listed, ghosts>>

\* WithRenewableLock returns: a call that lost the lock fails.  DeleteSession
\* goes on whatever the outcome.
Unlock(c) ==
  /\ pc[c] = "unlock"
  /\ IF lock = c
       THEN lock' = None /\ UNCHANGED res
       ELSE res' = [res EXCEPT ![c] = "failed"] /\ UNCHANGED lock
  /\ Goto(c, IF c \in Deletes THEN "drop" ELSE "ended")
  /\ UNCHANGED <<stores, row, listable, seen, hand, listed, ghosts>>

\* sessionRepo.Delete
DropRow(c) ==
  /\ pc[c] = "drop"
  /\ row' = FALSE
  /\ Goto(c, "ended")
  /\ UNCHANGED <<stores, listable, lock, seen, hand, listed, res, ghosts>>

Step(c) ==
  \/ Lock(c) \/ Read(c) \/ Exists(c) \/ Connect(c) \/ Unbind(c)
  \/ List(c) \/ Pick(c) \/ DeleteDuplicate(c) \/ Cleaned(c) \/ Adopt(c)
  \/ Create(c) \/ Recheck(c) \/ Bind(c) \/ Winner(c) \/ Retire(c)
  \/ Follow(c) \/ Join(c) \/ Cleanup(c)
  \/ Destroy(c) \/ Forget(c) \/ Confirm(c) \/ Unlock(c) \/ DropRow(c)

-----------------------------------------------------------------------------
(* Faults                                                                   *)

Fault == faults < MaxFaults /\ faults' = faults + 1 /\ UNCHANGED <<deaths, raced>>

\* Where an error takes a call: a sandbox it has created and not bound, as far
\* as it knows, is cleaned up.
Failed(c) ==
  /\ Goto(c, IF pc[c] \in {"recheck", "bind"} THEN "cleanup" ELSE "unlock")
  /\ res' = [res EXCEPT ![c] = IF @ = "deleted" THEN @ ELSE "failed"]

\* A request fails, by itself or because the caller's context is cancelled.
RequestFails(c) ==
  /\ InSection(c) /\ pc[c] # "unlock"
  /\ Fault
  /\ Failed(c)
  /\ UNCHANGED <<stores, row, listable, lock, seen, hand, listed, shared>>

\* It is executed and its answer is lost.
AnswerLost(c) ==
  /\ Fault
  /\ Effect(c)
  /\ Failed(c)
  /\ UNCHANGED <<row, listable, lock, seen, hand, listed, shared>>

\* sessionRepo.Delete fails and DeleteSession returns its error.
DropFails(c) ==
  /\ pc[c] = "drop"
  /\ Fault
  /\ Goto(c, "ended")
  /\ UNCHANGED <<stores, row, listable, lock, seen, hand, listed, res, shared>>

\* The process dies; its lock lives until the lease runs out.
Crash(c) ==
  /\ Active(c)
  /\ Fault
  /\ Goto(c, "dead")
  /\ UNCHANGED <<stores, row, listable, lock, seen, hand, listed, res, shared>>

LeaseExpires(c) ==
  /\ lock = c /\ pc[c] = "dead"
  /\ lock' = None
  /\ UNCHANGED <<stores, row, listable, pc, seen, hand, listed, res, ghosts>>

\* A holder at work loses the lock (TokenLock says when and for how long).
LockLost(c) ==
  /\ lock = c /\ InSection(c)
  /\ Fault
  /\ shared' = shared \cup {c}
  /\ lock' = None
  /\ UNCHANGED <<stores, row, listable, pc, seen, hand, listed, res>>

\* The renewal notices: both contexts are cancelled, no request is sent any
\* more, a cleanup included.
LossNoticed(c) ==
  /\ InSection(c) /\ pc[c] # "unlock" /\ lock # c
  /\ Leave(c, "failed")
  /\ UNCHANGED <<stores, row, listable, lock, seen, hand, listed, ghosts>>

\* The provider takes a sandbox away: idle time-out, host failure.
BoxDies(b) ==
  /\ b \in live
  /\ deaths < MaxDeaths
  /\ deaths' = deaths + 1
  /\ DeleteBox(b)
  /\ UNCHANGED <<row, listable, lock, pc, seen, hand, listed, res, faults, shared, raced>>

Next ==
  \/ \E c \in Calls :
       \/ Step(c) \/ RequestFails(c) \/ AnswerLost(c) \/ DropFails(c)
       \/ Crash(c) \/ LeaseExpires(c) \/ LockLost(c) \/ LossNoticed(c)
  \/ \E b \in Boxes : BoxDies(b)

Spec == Init /\ [][Next]_vars
-----------------------------------------------------------------------------
(* Properties                                                               *)

Settled == \A c \in Calls : ~ Active(c)

\* A sandbox that Resolve has handed out and that still runs is the one the
\* binding names, so that every later call finds the same one and a deletion of
\* the session reaches it: through failures, lost answers, crashes, and even
\* when a lock was lost, by SET NX and the compare-and-delete.
InUseIsBound ==
  \A c \in Resolves, b \in live : Uses(c, b) => binding = b

\* When the provider lists sandboxes, whatever a call binds is the session's
\* only sandbox: what lost answers, crashes and lost locks left is cleaned up
\* first, unless the call was not alone in its critical section.
Binds(c) ==
  pc[c] \in {"bind", "adopt"} /\ binding = None /\ binding' = hand[c]

BoundIsAlone ==
  [][\A c \in Calls \ shared : listable /\ Binds(c) => live \subseteq {hand[c]}]_vars

\* Without a fault, every sandbox is the bound one or in the hands of the call
\* in the critical section: none is left behind, whatever the session's
\* deletion interrupts.
NothingLeaks ==
  faults = 0 =>
    \A b \in live : binding = b \/ \E c \in Calls : lock = c /\ hand[c] = b

\* A session deleted without a fault, and without a Resolve between the
\* destruction of its sandbox and the deletion of its row, leaves nothing.
QuietDeletion ==
  ~ row /\ faults = 0 /\ ~ raced /\ Settled => live = {} /\ binding = None

\* Cleaning up (duplicates, losers, sandboxes of failed calls) never takes a
\* sandbox that is in use: only the session's deletion and the provider do, and
\* a call that was not alone in its critical section.
CleansUp(c) ==
  /\ pc[c] \in {"dups", "cleanup", "retire"}
  /\ pc'[c] # pc[c] \/ listed'[c] # listed[c]

CleanupSparesUsers ==
  [][\A b \in live \ live', c \in Calls \ shared :
       CleansUp(c) => ~ \E u \in Resolves : Uses(u, b)]_vars

\* session_sandbox_pin.go: "deleting a session also destroys its sandbox".
DeletionDestroys == ~ row /\ faults = 0 /\ Settled => live = {}
=============================================================================
