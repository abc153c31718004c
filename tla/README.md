# WeKnora knowledge ingestion in TLA+

WeKnora turns uploaded documents into searchable, enriched knowledge.  This
directory holds TLA+ models of the parts of it where order, failure and
concurrency decide whether the result is right, the TLC instances that check
them, and TLAPS proofs of the properties that matter most.  Everything here is
translated from the Go source; paths are relative to the repository, and
`service/` stands for `internal/application/service/`, `repository/` for
`internal/application/repository/`.

## 1. Inventory

| Component | State | Operations | Talks to |
| --- | --- | --- | --- |
| Knowledge row (`repository/knowledge.go`, `types/knowledge.go`) | `parse_status`, `pending_subtasks_count`, soft-delete mark | `UpdateKnowledge` (whole row, never the counter), `UpdateKnowledgeColumns`, `SetFinalizing`, `FinalizeSubtask`, `DeleteKnowledge` | every worker and handler below, through the database only |
| Attempts (`repository/knowledge_span_repo.go`, `service/knowledge_span_tracker.go`) | highest attempt number per row | `OpenAttempt`, `LatestAttempt` | document worker, reparse handler, superseded check |
| Document processing (`service/knowledge_process.go`) | an asynq message, its retries, its attempt | `ProcessDocument`, `processChunks` | row, chunk table, retrieval index, post-process queue |
| Post-process (`service/knowledge_post_process.go`) | an asynq message | `Handle`: status switch, fast path, seeding the counter, fan-out, release of the shortfall | row, enrichment queues |
| Enrichment subtasks (`service/knowledge_process.go`, `service/extract.go`, `service/knowledge_summary_refresh.go`) | one message per counted unit | summary, question batch, graph extraction; drain on the terminal exit | row, chunks, models |
| User handlers (`service/knowledge_process.go`, `service/knowledge_delete.go`) | a request under way | cancel, reparse, delete | row, queues (dequeue), stores (cleanup) |
| Sweeper (`service/knowledge_housekeeping.go`) | none | fails rows stuck in flight | row, queue inspector |
| Dead letters (`router/task.go`, `middleware/asynqdl`) | archived messages | callback that fails the row | row |
| Image fan-in (`service/image_multimodal.go`) | Redis counter of images | last image enqueues post-process | post-process queue |
| Wiki queue (`repository/task_queue.go`, `service/wiki_ingest*.go`, `service/knowledge_delete.go`) | pending-ops table with claims, triggers, in-flight slots, page locks | seed with op, trigger, claim, map, reduce, drain, trim, requeue, retract | row's counter, wiki pages, Redis |
| Redis lock (`common/redislock`) | token with lease | acquire, renew, release | the sandbox binding store, its only user (`sandbox/session_binding_redis.go:145`); the wiki queue's page lock is a bare `SetNX` of its own |
| IM question queue (`im/qaqueue.go`) | local FIFO, Redis counters | enqueue, remove, run | chat service |
| Model limiter (`models/limiter`) | sorted set of slots, local semaphores | acquire, heartbeat, release | every model call |
| Sandbox lifecycle (`sandbox/`) | binding per session, remote sandboxes | resolve, destroy, reap | remote provider, Redis |
| Approval gate, stream managers, rate limiter, channel supervisor, scheduler | small in-memory or Redis state | see `PROJECT.json` | agent, HTTP, IM |
| Retrieval, agent, tenants, HTTP, reader, clients | | not modelled; reasons in `PROJECT.json` | |

What is hard about it:

* *No transaction spans two round trips.*  A worker reads the row, computes for
  minutes, and writes it, often as a whole; other workers, three handlers and
  a sweeper write the same row.  The guards are the status the worker read,
  two guarded updates (`SetFinalizing`, `FinalizeSubtask`) and the attempt
  number.
* *Completion is counted.*  A fan-out seeds a counter, each subtask drains one
  unit on its terminal exit, whoever brings it to zero completes the row.
  Failed enqueues, retries, crashes, cancels and reparses all touch it.
* *asynq delivers at least once.*  A crashed worker's message comes back, or is
  archived without the callback; a failed handler is retried.

What makes each component correct: the counter equals what the fan-out still
owes; a completed row has nothing running; a row never stays in flight for
ever; what is published is one attempt's chunks; a deleted row leaves nothing;
cancel is final; a superseded worker leaves the row alone.  `PROJECT.json` lists
the hazards behind these, each at its line, with the properties that watch it.

## 2. Modules

| Module | Part | Checked by | Proved in |
| --- | --- | --- | --- |
| `KnowledgeIngest` | the row and everything that writes it | `MCKnowledgeIngest` | `KnowledgeIngestProofs`, `UndisturbedProofs` |
| `Enrichment` | what an undisturbed parse promises; implemented by `KnowledgeIngest` | as a property of `IngestUpload` | |
| `WikiQueue` | the wiki queue of one knowledge base | `MCWikiQueue` | `WikiQueueProofs`, `WikiEditsProofs` |
| `TokenLock` | the renewable Redis lock | `MCTokenLock` | `TokenLockProofs` |
| `SandboxLifecycle` | the remote sandbox of one session, under that lock | `MCSandboxLifecycle` | `SandboxLifecycleProofs` |
| `QAQueue` | the IM question queue on several instances | `MCQAQueue` | `QAQueueProofs` |
| `ModelLimiter` | the concurrency limiter of one model | `MCModelLimiter` | `ModelLimiterProofs` |

How they fit together.  `WikiQueue` is one of the jobs of `KnowledgeIngest`'s
fan-out, seen from inside: its `Seed` is the `SetFinalizing` of a knowledge base
with a wiki, its `Drain` a `FinalizeSubtask`.  `KnowledgeIngest` assumes of a job that
it drains its unit; `SlotKeepsItsRow` and `QueueDrains` are why the wiki does, and
`DrainsOnce` says when it does so once.  `SandboxLifecycle` takes the lock as a single step that
may be lost to its holder (`LockLost`, `LeaseExpires`); `TokenLock` says when it is
not.  The two were not multiplied into one state space: the time of the lock and
the round trips of the lifecycle are independent until the lock is lost, and that
step is there.  `QAQueue` and `ModelLimiter` stand alone.

In all modules a step is one request to a database, to Redis, to asynq or to a
provider, or a stretch of code that touches nothing shared.

## 3. KnowledgeIngest

One knowledge row.  Messages, fan-outs and requests are numbered; each has a
program counter.  One action is one database or queue round trip, so every
interleaving of two round trips of different actors is explored.

| Variables | Code |
| --- | --- |
| `status`, `pending` | `knowledges.parse_status` (`"gone"`: soft-deleted), `pending_subtasks_count` |
| `latest` | highest attempt in the span table |
| `chunks`, `index`, `derived` | the attempts with chunks in the chunk table and in the retrieval index; the fan-outs that stored summary chunks, questions or graph nodes |
| `docPc`, `docTries`, `docAtt` | `document:process` messages: 0 is the upload, *d* > 0 the *d*-th reparse; retries used; attempt recorded onto |
| `postPc`, `postTries`, `postAtt`, `postSeen`, `postFan` | post-process messages, the chunks a delivery listed, the fan-out it made |
| `subPc`, `subTries`, `subSeen` | enrichment subtasks by fan-out and slot; what the summary worker read of the row and its chunks |
| `fanAtt`, `fanChunks`, `nFans`, `nPosts` | payloads of the subtask messages; how many exist |
| `cancelPc`, `reparsePc`, `deletePc` and counts | the HTTP handlers |
| `faults` | failed calls and crashes so far |
| `calm`, `cutAt`, `slipped` | history variables, read by properties only |

`calm` holds as long as the current parse runs undisturbed: it becomes false at
a crash, a cancel, a delete or the opening of a reparse, and true again when a
reparse zeroes the counter on a row nobody else is working on.  Failed calls do
not end it.

| Actions | Code |
| --- | --- |
| `DocRead` .. `DocOpen` | guards, second check, `markKnowledgeProcessing` and attempt of `ProcessDocument` |
| `DocFatal`, `DocRetryable`, `DocDeadLetter` | its failure paths and the dead-letter callback |
| `DocParsed` .. `DocAck` | `processChunks`: four abort checks, cleanup, chunks, index, save, post-process message |
| `PostLoad` .. `PostReturn` | `KnowledgePostProcessService.Handle` |
| `SubStart` .. `SubPromote` | question batches and graph extraction; the summary worker shares the start, the failure and the drain |
| `SummaryMark` .. `SummaryDerive` | what only `ProcessSummaryGeneration` does, its four whole-row saves included |
| `DocCrash`, `PostCrash`, `SubCrash` | death of a worker: redelivery, or archival without the callback |
| `Cancel..`, `Reparse..`, `Delete..` | the handlers, round trip by round trip |
| `Sweep` | `runSweep` |

Abstractions.

* Slots stand for counted subtasks; one of them is the summary.  Question
  batches and graph extraction have the same control and share actions.
* A generation of chunks is the attempt that wrote it.
* Rounds that only read, or that concern only the worker itself, are merged
  with a neighbour: parsing with the abort check that follows it, the quota
  check with the third abort check, the subtask's acknowledgement with its
  promote.
* `CancelTasksForKnowledge` deletes queued messages and may stop any running
  worker, or fails and does nothing.  A stopped worker is gone: the inspector
  deletes the record asynq would retry it from.  That a worker takes longer than
  the second the inspector waits, and is then retried, is left out.
* The sweeper fires only when no task of the row is queued or running.  The
  code looks at the age of the row and at its queues; the age threshold (70
  minutes at least) exceeds the timeouts of the tasks.
* One reparse handler runs at a time, and `OpenAttempt` is one step.
* A read that fails inside `processChunks`' abort checks, which the code treats
  as a deletion, is left out; so are images, wiki pages, tags, storage
  accounting and all other columns.

## 4. Enrichment

The promise of one parse: parse, hand over to a set of jobs, every job settles
once, completed when and only when all have.  `KnowledgeIngest` implements it for
a parse nobody disturbs: `phase` is the row's status with `pending` and
`processing` merged, `owed` the slots whose unit has not been drained.  The
liveness part says such a parse ends without the sweeper.

## 5. WikiQueue

One knowledge base with Redis.  A parse hands a document over by a durable row in
`task_pending_ops`; a trigger, an asynq task without content, makes a worker look
at the table.  Batches run concurrently: the claim keeps them on different
documents, the page lock on different pages.

| Variables | Code |
| --- | --- |
| `rows`, `lastId` | `task_pending_ops`: ID, document, operation, the retract's pages, claim, failures |
| `page`, `lock` | the documents a page refers to (`source_refs`); `wiki:slug:<kb>:<page>` |
| `at`, `batch`, `leaked` | each asynq task and what its run holds in memory; in-flight slots of the dead |
| `stage`, `parses`, `drains` | how far a document is, and how often the unit of this parse was released |
| `del`, `snap`, `slugs` | its deletion, round trip by round trip |
| `lost`, `selfLost`, `exposed`, `crossed`, `dropped`, `unguarded`, `replayed` | history, read by properties only |

| Actions | Code |
| --- | --- |
| `Seed`, `TriggerIngest`, `Reparse` | `SeedKnowledgeFinalizingWithPendingOp`, `enqueueWikiIngestTrigger`, `prepareWikiForReparse` |
| `DeleteMark` .. `DeleteTrigger` | `cleanupWikiOnKnowledgeDelete`, `EnqueueWikiRetract` |
| `Start`, `TurnedAway` | `reserveInflightSlot`, `scheduleCappedRetry` |
| `Claim`, `ClaimFails`, `ArmRecheck` | `ClaimBatch`, `decodePendingRows`, `scheduleStaleClaimRecheck` |
| `MapRetract`, `MapIngest` | the map phase and `mapOneDocument` |
| `ReduceBegin` .. `ReduceGivesUp` | `withSlugLock` and `reduceSlugUpdates` |
| `DrainDone`, `Trim`, `Requeue`, `RequeueFails` | `finalizeWikiSubtask`, `trimPendingList`, `requeueFailedOps` |
| `SettleFailed`, `FollowUp` | the deferred release, `scheduleFollowUp` |
| `ClaimAges`, `LockExpires`, `SlotExpires`, `Crash`, `Boot` | time, a dead worker, `recoverPendingWikiTasks` |

Abstractions.

* One knowledge base, the ingest lane only: the finalize lane (index,
  cross-links) drains no counter.  The Lite mode's in-process lock, deletion and
  move of a knowledge base, folders and a cancel of the row are left out.
* What a document contributes to is the constant `Contrib`; a page is the set of
  documents it refers to, since the properties ask whose contribution is there.
* A page's lock outlives its reduce (its TTL is longer than a model call), and a
  claim its batch (90 against 60 minutes): leases of the living never end.
* asynq's `MaxRetry` of 10 is not used up.  Taking a task and reserving its slot is
  one step, so is the liveness filter with the read of the page that follows it.
  A reparse's handler is one step, from a document that was handed over.
* A failure to archive an operation that is removed all the same, which makes the
  batch fail and run again, is not told apart from success.
* Triggers without an ID are alike; when all IDs of the model are in use and one
  has not started, another trigger counts as that one.

## 6. TokenLock

Several calls of `WithRenewableLock` on one key.  Time is counted in ticks: the
lease, the renewal's ticker and the age of each request.  A request ends within
`MaxDelay` with a reply or an error, may be sent again by the client (`Resend`), and
after its caller gave up may still be executed (`stray`, `StrayExecuted`).

| Actions | Code |
| --- | --- |
| `Ask`, `AskExecuted`, `Beaten`, `Acquired`, `AcquireFailed` | `TryAcquire`, `Acquire` |
| `RenewSend`, `RenewExecuted`, `Renewed`, `RenewLost`, `RenewStopped` | `renewLoop`, `Renew` |
| `CallbackReturns`, `Release`, `Released`, `ReleaseFailed` | the end of `WithRenewableLock` |
| `Lose`, `LeaseElapses`, `Crash`, `Tick` | Redis and time |

The sandbox's binding store uses a lease of 60 s renewed every 20 s; with Redis
calls of a few seconds `TimelyAssumption` holds.

## 7. SandboxLifecycle

The binding of one session in Redis, the provider's sandboxes, the session's row,
and calls of `Resolve` and `DeleteSession`.  Every request may fail, or be executed
and its answer lost (`RequestFails`, `AnswerLost`); a call may die at any point; a
holder may lose the lock.

| Actions | Code |
| --- | --- |
| `Lock`, `Unlock`, `LossNoticed` | `WithLifecycleLock` around `Resolve` and `Destroy` |
| `Read` .. `Unbind` | `resolveLocked` on a stored binding |
| `List` .. `Adopt` | `recoverOwnedSandbox`: pick, clean duplicates, adopt |
| `Create` .. `Cleanup` | `createAndBind`, `connectWinner`, `cleanupCreated` |
| `Destroy`, `Forget`, `Confirm`, `DropRow` | `destroyBindingLocked`, then the deletion of the row |

Abstractions.  One provider; Get and Connect are one step; a request given up is
executed at once or never; `lookupSessionHandle`, which only reads, and the pin of a
configuration (which does not close the race of `DeleteSession`, see below) are left
out; `ReapOrphanSandboxes` has no caller outside its tests.  That a holder who lost
the lock is told in time is `TokenLock`'s `LostLockIsNoticed`; here it may work on, and
the properties say with `shared` which calls were not alone.

## 8. QAQueue

Questions and `/stop` commands of several users on several instances that may share
Redis.  A question takes a unit of its user's counter, waits in its instance's
queue, takes a unit of the global gate, is answered, and gives both back on
whichever of the paths it ends.  `Enqueue`, `Dequeue`, `GateOpens` .. `PayUser`,
`Remove` are `qaqueue.go`; `Register`, `Start`, `Answer`, `Return` are
`executeQARequest`; `StopHere`, `StopElsewhere`, `StopMark` are the command.  Faults are
failed Redis calls, counters whose TTL ends while they count, and dead instances.
`MCQAQueue` routes two questions of one user to one instance, another's to the
other, and the `/stop` to either.

## 9. ModelLimiter

Background calls of one model, each a member of a sorted set with a lease that its
heartbeat goroutine extends, under a limit that the operator may change.  The
module has both round trips of a heartbeat, the pruning by another process's clock
(`Clock`, within `Skew`), the release that races a heartbeat, and the in-process
semaphore of the Lite mode.  The code's numbers, a 30 s lease beaten every
10 s, meet `TimelyAssumption` with requests and clocks within a few seconds.

## 10. Runs

| Run | Instance | Checks |
| --- | --- | --- |
| `IngestUpload` | two slots, one retry, no user, no crash, no sweeper | `CounterIsOwed`, `CalmCompletedIsTerminal`, `NeverStranded`, `EndsSettled`, implements `Enrichment` |
| `IngestReparse` | one slot, no embedding, one reparse and one cancel at any point | `TypeOK`, `CounterIsOwed`, `OneGeneration` |
| `IngestRedelivery` | one slot, one fault or crash anywhere, one retry | `OneGeneration`, `EndsSettled` |
| `IngestOverlap` | one slot, no embedding, one reparse, one fault or crash | `EndsSettled` |
| `IngestDelete` | one slot, two deletions, one cancel, one fault or crash | `SeenDeletionLeavesNothing`, `EndsSettled` |
| `FindCancel` | two slots, one cancel | `CancelledNeverCompletes`, violated |
| `WikiQueue` | two documents on one page, one deletable, one fault, operations given up at their first failure, two slots and workers | `SingleWorker`, `DrainsOnce`, `ContributionLands`, `RetractWins` |
| `WikiDrain` | one document parsed twice, one crash, one retry of a failed operation | `SlotKeepsItsRow`, `QueueDrains` |
| `TokenLock` | two calls, lease 5, period 2, delay 1, one loss of the key | `TypeOK`, `MutualExclusion`, `LostLockIsNoticed`, `LossIsReported`, `WaitersGetIn` |
| `Sandbox` | three Resolves, one deletion, three sandboxes, two faults, one sandbox taken away | `TypeOK`, `InUseIsBound`, `NothingLeaks`, `QuietDeletion`, `BoundIsAlone`, `CleanupSparesUsers` |
| `QAQueue` | three questions of two users, one `/stop`, two instances, one fault; per-user and global limit 1, queues of 2, two workers each | `TypeOK`, `CountersExact`, `LocalLimits`, `GlobalLimits`, `RegistryIsLive`, `RequestsEnd` |
| `ModelLimiter` | two calls with different clocks, limits 0 to 2, one change, two faults | `TypeOK`, `LeaseIsKept`, `Capacity`, `WaitersProceed` |

Bounds.

* `KnowledgeIngest`.  Two slots are the least that let one subtask drain while
  another is not yet enqueued, and that tell the last drain from the first.  One
  retry tells a last delivery from the others.  One reparse makes two attempts and
  two fan-outs overlap.  `MaxPost` and `MaxFan` are as large as the messages the other
  bounds let exist, so they never block.  Without embedding (`NeedsEmbedding` off) the
  index steps are skipped, which is what the code does for a keyword-only
  knowledge base; the runs that overlap two parses use it, and `OneGeneration` is
  checked with the index in `IngestRedelivery`.  `IngestDelete` has one parse: its
  safety property is proved for any number of overlapping ones (section 12).  A second fault would add
  combinations of independent failures, not a new kind of step.
* `WikiQueue`.  Two documents that share a page are the least that overwrite each
  other; batches of one document make them run in different batches, and two
  batches are all the cap and the pool let run.  `Parses` lets one document be
  handed over once there and twice in `WikiDrain`, where a row that was scrubbed, a stale claim
  and a new row of the same document meet.  Its safety properties are all proved for any
  documents, pages, batches and faults.
* `TokenLock`.  The least numbers that meet `TimelyAssumption` and leave a gap
  between the renewal and the end of the lease.  A second loss of the key repeats
  the first.
* `Sandbox`.  Three Resolves let one create, a second find the first's sandbox,
  and a third run beside a call that lost its lock; three sandboxes, since a
  Resolve creates at most one.
* `QAQueue`.  With per-user and global limits of one both counters are at their limit
  at once, and two questions of one user on one instance are what the registry must
  tell apart.  A queue of two lets the local limit be met while there is room; the
  rejection by the queue is then met when it is closed, and a full queue (which takes
  the same way out) with `MaxSize` 1.
* `ModelLimiter`.  Limits of 0, 1 and 2 are no limit, a full set and room for both;
  `Capacity` needs two callers and one slot.

Symmetry is used where no liveness is checked and the elements are alike: the
triggers of `WikiQueue`, the Resolves of `Sandbox`.

Deadlock is not checked because every one of these systems stops: when no message is
left and the users are done nothing has to happen.

Fairness.

* `KnowledgeIngest`: weak fairness of every message's steps (asynq has workers for
  every queue and retries without end short of the limit), of every handler once
  begun, and of the sweeper (a cron job).  `IngestUpload` checks `EndsSettled` with
  the sweeper off: the pipeline settles by itself if nothing goes wrong.
* `WikiQueue`: weak fairness of a batch's steps and of the taking of a trigger (asynq's workers), of
  handlers once begun, and of the ends of leases.  `Boot` has none: no process has
  to start again for the queue to run empty.
* `TokenLock`: time, replies and callbacks go on; `SF(Acquired)` since the poll of a
  waiter is answered again and again while the key comes and goes.
* `QAQueue`, `ModelLimiter`: workers, heartbeats, replies, TTLs and time go on.
* `SandboxLifecycle`: none; it is checked for safety only.

Uploads, reparses, cancels, deletions, `/stop`, changes of a limit, faults and
crashes are under no fairness anywhere.

## 11. Where the code departs from what it says

`FindCancel` is a run and a finding of `PROJECT.json`: the summary worker's whole-row
save undoes a cancel, and its drain completes the row.  The other observations below are
definitions of the modules that are not part of a run; checking one alone with
the constants of the run named gives the counterexample (`SupersededLeavesCounter`,
`FastPathIsGuarded`, `RetriesKeepAttempt`, `GateHeals` and `TurnedAwayDrain` are temporal formulas, to be
named under `PROPERTY`, the others invariants).

| Definition | Shown with | What happens, and what says otherwise |
| --- | --- | --- |
| `CompletedIsTerminal` | `IngestRedelivery` | a redelivered document task works on under a completed row |
| `DeletedLeavesNothing` | `IngestDelete` with `MaxCancel` and `MaxFault` 0 and either `MaxReparse` 1 or `NeedsEmbedding` off | a reparse's reset or another worker's save overwrites `deleting`, a worker passes its last check between the clean-up and the drop, and what it wrote stays; without an index `processChunks` makes no check after `CreateChunks` (`knowledge_process.go:479-619`) and chunks written after the clean-up stay |
| `DeletedLeavesNoEnrichment` | `IngestDelete` | enrichment output stored after the deletion's clean-up stays |
| `SupersededLeavesCounter` | `IngestReparse` | a subtask superseded after its start still drains the counter |
| `FastPathIsGuarded` | `IngestDelete` or `IngestReparse` | the fast path completes a row that has left `processing` |
| `RetriesKeepAttempt` | `IngestRedelivery` | every delivery of an upload opens an attempt of its own |
| `DeletedStaysGone` | `WikiQueue` | a document deleted between the filter of a reduce and its page write comes back: the scrub removes the claimed row, so the retraction can be claimed, mapped and settled before the write (`knowledge_delete.go:214-217`, `task_queue.go:190-205`) |
| `TurnedAwayDrain` | `WikiDrain` with `MaxInflight` 1 | the capped retry that is turned away again finds its own task ID taken and is not armed; after a crash at the cap (the dead slot lives 90 s, the retry comes after 10) rows wait for the next upload (`wiki_ingest.go:975-980`); the recheck arms itself in vain the same way (`wiki_ingest.go:999-1010`) |
| `DeletionDestroys` | `Sandbox` with `MaxFaults` 0 | a Resolve between the destruction of the sandbox (`session.go:509`) and the deletion of the row creates one that outlives the session (`session_sandbox_pin.go:52-53`) |
| `MarkerHitsItsOwn` | `QAQueue` | a `/stop` that has removed or cancelled its request leaves its marker all the same, and the user's next question is dropped by it (`service.go:1850`, `service.go:1991`) |
| `GateHeals` | `QAQueue` | the gate's counter of dead instances does not expire while workers wait: each try renews its TTL (`qaqueue.go:27-29`) |
| `RetuneTakesHold` | `ModelLimiter` with `ThreeCalls`, `ThreeClocks` and `MaxFaults` 0 | in the Lite mode the semaphore keeps the capacity of its first use (`governor.go:130-131`) when the limit is changed (`system_setting.go:269-271`) |

Met while modelling, and part of the model:

* `SettleFailed` releases every row the batch has claimed, those it gave back
  already and another batch has claimed since (`wiki_ingest_batch.go:390-404`): the
  exemption `exposed` of `SingleWorker`.
* A batch drains a document's unit before it trims the row; a crash or a failed trim
  between the two drains it again, or drains a reparse's unit: `replayed` in `DrainsOnce`.
  The row can be claimed again before the batch that left it is over, when the settlement
  of a third one releases it, so `replayed` is set where the row outlives the drain.
* A deletion's own page update writes the page as it was listed, without the page's
  lock (`knowledge_delete.go:279-304`): `unguarded` in `ContributionLands`.
* A failed model call of a retraction, a failed lookup of its pages, a failed
  enqueue of a retract or of its trigger are logged only: `dropped` and `lost`.
* With Redis configured, a failing Redis leaves a user unlimited; the comment at
  `qaqueue.go:366` relies on a local limit that is not checked in that mode.
* A `/stop` handled by another instance between a request's check of the marker and
  its `storeInflightMapping` misses the request it was meant for.

The passing properties say where the line runs: `CalmCompletedIsTerminal` is
`CompletedIsTerminal` without disturbance; `SeenDeletionLeavesNothing` is
`DeletedLeavesNothing` with an index, when no call failed, no cancel took place (a
cancel's dequeue may stop a worker that has written chunks after the clean-up and
before its next abort check) and no worker passed its last abort check between the
clean-up and the drop (`slipped`); `RetractWins` is `DeletedStaysGone` for a
document no page of which was just being written; `QuietDeletion` is
`DeletionDestroys` without a Resolve in between; `QueueDrains` is `TurnedAwayDrain`
unless a batch was cut short.

## 12. Proofs

All theorems hold for every value of the constants that meets the named
assumptions of the module.

`KnowledgeIngestProofs` (`SlotsAssumption`, `BoundsAssumption`, `SwitchesAssumption`):

* `TypeCorrect`: `Spec => []TypeOK`.  The counter stays between zero and the
  number of slots whatever cancels, reparses, deletions and crashes do.  The
  invariant is inductive as it stands.  It is a conjunction of eight named parts;
  each action's step proves the parts it changes and leaves the rest to the frame.
* `DeletionErases`: `Spec => []SeenDeletionLeavesNothing`.  The property speaks of a
  row that is gone and quiet; `DeletionInv` says what holds from the clean-up on: as
  long as there are chunks a worker stands before one of its last two abort checks,
  and as long as there are index rows one stands before the last (`Covered`).  Such a
  worker leaves that place only through the check, which removes everything when it finds the
  row deleted.  `MarkInv` rules out the two ways past it: a row is cancelled only
  by a cancel, the summary worker's copy of the row included, and it is gone only
  after its deletion is over.
* `NothingUnsentRuns`: `Spec => []UnsentInv`.  A reparse's message exists from
  its enqueue on, so the enqueue displaces no worker; `DeletionErases` needs it.

`UndisturbedProofs`:

* `CounterIsExact`: `Spec => []CounterIsOwed`
* `CompletionIsFinal`: `Spec => []CalmCompletedIsTerminal`
* `PromoterExists`: `Spec => []NeverStranded`
* `OneGenerationPublished`: `Spec => []OneGeneration`

None of the four is inductive: that the counter is exact now says nothing of a
stale subtask that is about to drain it.  They follow from `CalmInvariant`, which
says of a calm state that the parse is in one actor's hands: a reparse about to
enqueue its message (`ReparseAlone`), then one busy document message
(`DocAlone`), then one post-process message (`PostAlone`), then the subtasks of
the newest fan-out (`SubsNewest`).  Every one of them carries the newest attempt,
so none is superseded and leaves without draining; the summary worker saw the row
finalizing, so its whole-row saves change nothing; the counter is what is owed
(`Accounted`) and whoever drains the last unit is still there to promote
(`PromoterLeft`).  `Published` follows the chunks and the index through the
document's steps.  The proof has a lemma for the ordinary move of each actor
(`DocMoves`, `PostMoves`, `SubMoves`), whose premises an action has to meet, and
one lemma for each action that hands the parse over or changes the counter.
`CalmBegins` shows that the history variable `calm` is set only when the
invariant holds: on a row that is quiet, pending and just zeroed.

* `ParseImplementsEnrichment`: `ASSUME Alone PROVE Spec => Abstract!ASpec`, the
  safety part of `ImplementsEnrichment`, for any slots, retries and switches, where
  `Alone` says that there are no cancels, reparses, deletions, crashes and failed calls
  (failed deliveries, refused enqueues, retries and the sweeper remain).

Every action of the parse is a step of `Enrichment` or a stutter: `SetFinalizing` is
`Handoff`, whatever fails or completes a row that is pending or processing is
`GiveUp` (`RowSteps`), a drain or a release is `Settle` (`SettleStep`) and the
promote is `Complete` (`PromoteStep`, from the exact counter of `CalmInvariant`).
`ParseInv` adds what the mapping needs: one fan-out, from which the row does not go
back (`OneFan`), a failed row without workers that could take it up again
(`FailedEnds`), a post-process whose row is still as it loaded it (`LoadedHolds`),
and somebody at work on every slot without a message (`HeldPosted`), so that the
sweeper never finds a finalizing row quiet.

`WikiQueueProofs` (`NamesAssumption`, `BoundsAssumption`):

* `TypeCorrect`: `Spec => []TypeOK`
* `OneWorker`: `Spec => []SingleWorker`
* `UnitHasItsRow`: `Spec => []SlotKeepsItsRow`

`SingleWorker` is not inductive: two batches at work say nothing of the rows they
claimed.  `ClaimInv` adds that an ID stands for one operation (`OneOpPerId`), that a
batch knows the rows it has claimed (`Sound`) and that as long as it works on a
document the row of its operation is there with a claim in force (`Holds`), unless a
scrub or another batch's failed settlement took it away.  The claim takes a document only
when none of its rows has a claim in force, so a second batch cannot
begin; ageing spares the rows of running batches.  `SlotInv` adds that a document
has one row at most before its deletion (`RowSound`), and that a unit that was not
released is owed by a row which every batch that has claimed it still has before it
(`Owed`, `Bears`): a batch removes the row only after it has released the unit, or
gives it back.  Most steps are those of one batch; the lemmas about bystanders say what
they leave alone.

`WikiEditsProofs` (the same assumptions), on top of it:

* `UnitReleasedOnce`: `Spec => []DrainsOnce`
* `ContributionsLand`: `Spec => []ContributionLands`
* `RetractionWins`: `Spec => []RetractWins`

The three are about what a batch holds in memory and about pages, so every step is
first brought to one of a dozen shapes (`Shapes`: `Takes`, `Retracts`, `Begins`, `Ends`,
`Settles`, ...) that say what it does to batches, rows and pages and leave out how.  `WikiInv` has
five parts, inductive together with `SlotInv`:

* `EditInv`: a document has at most one row to ingest it, and its retraction is its last row
  (`RowInv`); a batch has one operation for each document (`OpsSound`), edits only what it has
  mapped, and what it has drained has no edit left (`EditsSound`).
* `PageInv`: a page that is written under its lock still has all that the writer
  read, but for deletions that remember the page, and nothing the writer did not read; the
  writer adds no document that was deleted before its filter.
* `Lands`: a document that was handed over is on each of its pages, or has a row that
  is `Pending` there: each batch that has claimed the row still has the edit before it, or the
  document among the failed ones.
* `Retracted`: a deleted document that is on a page, or in what a batch has read of
  it, is followed (`Followed`): by its deletion on the way to that page, by
  a page the deletion remembers, or by a pending retraction.
* `DrainInv`: once the unit was released, no batch may release it and the row is gone or claimed
  by the batch that did.

`CarriedTaken` .. `CarriedEnded` say of each shape what becomes of a pending row; `Lands` and
`Retracted` share them.  The proof of `UnitReleasedOnce` failed at first: with two faults `DrainsOnce` was false
of the model, whose `replayed` was set only when the failed batch ended.  TLC has the counterexample
with `MaxFaults` 2; the history variable was corrected (section 11), the actions stayed.

`TokenLockProofs` (`TokensAssumption`, `TimingAssumption`, `TimelyAssumption`):

* `TypeCorrect`, `AtMostOneOwner` (`MutualExclusion`), `LossIsNoticed`
  (`LostLockIsNoticed`), `SuccessMeansHeld` (`LossIsReported`)

The invariant `LockInv` is a conjunction of statements about a single call.  The
central one, `Covered`, relates the age of a call's request and ticker to what is left
of the lease: while the renewal rests, more is left than the rest of the period and a request
take; while it is sent, more than the rest of that request.  Two owners
would both be `holder`.

`SandboxLifecycleProofs` (`CallsAssumption`, `BoundsAssumption`):

* `TypeCorrect` (`TypeOK`), `UsersShareTheBoundOne` (`InUseIsBound`),
  `BindingIsAlone` (`BoundIsAlone`), `CleanupIsSafe` (`CleanupSparesUsers`)
* `NothingIsLeftBehind` (`NothingLeaks`), `DeletionIsClean` (`QuietDeletion`)

`SandboxInv` has two arguments.  A live sandbox that was read or handed out is bound
(`Bound`): a binding is deleted only by compare-and-delete, by a call that knows its
sandbox to be gone.  A call alone in its critical section has seen no other call at work, so
what it read and listed still holds (`Alone`, `AllSeen`).  The first does not need
the lock, the second does.

The last two are about behaviours without a fault, in which a call that works holds the lock.
`QuietInv` says that as long as nothing failed `Quiet` holds: at most one call is at work and
knows the binding (`Orderly`); a live sandbox is bound or in that call's hands (`Kept`); a
deletion that is over its destruction has left nothing, or a Resolve has come since
(`Deleting`, `Gone`).

`QAQueueProofs` (`QueueAssumption`):

* `UnitsAreConserved` (`CountersExact`), `LimitsHold` (`GlobalLimits`)
* `TypeCorrect` (`TypeOK`), `LocalLimitsHold` (`LocalLimits`),
  `StopFindsTheLiving` (`RegistryIsLive`), through faults and crashes

`QueueInv`: as long as nothing failed, each counter is the number of requests that
will give a unit back, and a queue holds its instance's waiting requests, each once
(`QueueSound`, which a removal by `/stop` needs).  The counting is done once, in lemmas on how a step of one
request changes the cardinality of `Units`.

The others hold whatever fails.  `LocalInv` says of one instance that its queue has the
requests that wait there, each once (`Placed`, `QueueSound`), that it is no longer than its bound, and that
its local counts are what waits (`LocalCount`).  `Registered` follows an entry of the
registry (`EntrySound`) and a mapping in Redis (`MappingSound`) with the request they name.

`ModelLimiterProofs` (`CallsAssumption`, `TimingAssumption`, `TimelyAssumption`):

* `TypesCorrect`, `HoldersKeepTheirLease` (`LeaseIsKept`), `NobodyOverLimit` (`Capacity`)

`LimiterInv` adds to the properties that nothing pending is overdue (`Timed`) and a
bound on the lease of each caller by the time since its last good heartbeat (`Leases`,
with `Lag` and `KeyLag`).  `Capacity` is by the last one let in: all the others'
members were in the set that was counted.

Only model-checked: all liveness properties, the fairness of `Enrichment` in
`ImplementsEnrichment` among them (fairness and `ENABLED` are out of the prover's
reach).

## 13. Not modelled

* The image fan-in (`service/image_multimodal.go`): a Redis counter whose last
  decrement enqueues post-process.  `KnowledgeIngest` enqueues post-process directly,
  as the code does for a document without images.
* The wiki's finalize lane, the Lite mode's executor and its recovery
  (`reset_pending_tasks.go`), deletion, clone and move of knowledge bases, FAQ import.
* The approval gate, the channel supervisor, the stream managers, the rate limiter and
  the data-source scheduler: small state machines of one lock or one Redis script
  each, with little that interleaves.
* Retrieval and ranking: floating-point scores over the answers of models; nothing a
  finite model would tell apart.
* The agent loop, tenants, users and sharing, HTTP handlers, the document reader, the
  frontend, the CLI, the SDK, the connectors: sequential, one transaction each,
  outside the program, or presentation.

Most of the repository's lines are of these kinds; the models stand for the part whose
correctness depends on the order of events.
