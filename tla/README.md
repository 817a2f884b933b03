# A TLA+ model of price-tracker-platform

The platform tracks prices of PC hardware in Peruvian stores. An API and a
dispatcher create *scraping jobs*, one per store and batch of products; the jobs
travel through a queue to workers, which fetch every product page and record
price observations; an operator can replay the jobs that end in a dead letter
queue. A public web client reads the catalogue and the analytics.

The hard part is the asynchronous path from "job created" to "job settled". It
runs on two interchangeable backends: a queue kept in PostgreSQL (development
and the current deployment) and Amazon SQS behind a transactional outbox. Around
that path lie the extraction of a price from a page, the choice of a product's
image, and what users and operators are shown. Source paths below are relative
to `src/`.

## 1. Inventory

| Component | State it keeps | Operations | Interacts through |
|---|---|---|---|
| PostgreSQL queue (`shared/queue/postgres.py`) | `local_queue_messages`: status, queue name, attempts, `visible_at`, receipt handle | send, receive (SKIP LOCKED), delete, change visibility, send to DLQ | rows shared by API, dispatcher, workers |
| Scraping consumer (`worker/app/consumers/scraping_consumer.py`) | `scraping_jobs`: status, `started_at`, counters | `process_next_message` | queue, jobs table |
| Worker service, observations (`worker/app/services/scraping_service.py`, `.../observation_repository.py`) | `price_observations`, image URLs | `process_job`, idempotent insert, image priority | called by the consumer |
| Job creation (`backend/app/services/scraping_service.py`) | – | `create_scraping_job` | jobs table and queue, one transaction |
| DLQ replay (`dispatch_service.replay_dlq_messages`) | – | replay a batch, all or nothing | rows or ledger, jobs, outbox |
| Dispatcher (`dispatch_service.run_once`, `dispatch_manual`, `core/advisory_lock.py`, `dispatcher.py`) | session advisory locks, the unique index on store and slot | scheduled run, manual run | jobs table, queue or outbox |
| Outbox publisher (`backend/app/services/outbox_publisher.py`) | `scraping_outbox`: status, lease, attempts | claim, publish, finalize | outbox, SQS, jobs, ledger |
| SQS queue (`shared/queue/sqs.py`) | external | send, receive, delete, visibility, send to DLQ | redrive after three receives |
| DLQ indexer (`worker/app/services/dlq_indexer.py`) | `scraping_dlq_ledger`, `scraping_quarantine` | `process_cycle` | SQS DLQ, jobs table |
| Queries, analytics, catalogue (`dispatch_service`, `analytics_service`, `product_service`) | none (read only) | pagination, aggregation, metrics | database |
| Price parser, safe HTTP client, store adapters | none | pure functions and I/O | worker service |
| Frontend | React state per page | effects that fetch on a change of filters | HTTP API |
| Seed, migrations, configuration, terraform, CI | – | run by an operator | – |

Behaviours that are hard to test, and what should hold across them:

* **Leases.** A row becomes visible again `VISIBILITY_TIMEOUT` seconds after it
  was received, whether or not the worker has finished. Receipt handles must
  keep the slow worker away from the row (`HandleInv`), and observations must
  neither be lost nor counted twice (`CompletedIsWhole`, `NeverOvercounts`).
* **Unlocked settlement.** The job row is locked only while a message is being
  accepted; it is settled after many commits, from a re-read without lock.
* **Crashes** between the commit of a job and the matching queue operation.
* **Two copies** of a message: a replay of two dead letters of one job, a
  message published twice, a dead letter inserted beside its original.
* **Compensation**: an exhausted outbox event must return the job (and the
  ledger entry it came from) to a state an operator can act on.
* **Progress**: every message is settled or dead-lettered, never for ever
  invisible, skipped or retried.
* **At-least-once delivery** on SQS: copies of a message, redrive behind the
  back of the worker, a message that is out before its job is committed.
* **Stale reads**: the canonical image and the operator's list of dead letters
  are read in one transaction and acted upon in another.
* **One truth, several queries**: the list, the detail and the dashboard each
  decide on their own which observation is the current offer.
* **Text**: the same price or stock in many spellings, of which the wrong reading
  is a plausible value.

`PROJECT.json` lists the hazards with their lines and the properties about them.

## 2. Plan

| Step | Modules | Models | State |
|---|---|---|---|
| 1 | `JobLifecycle`, `LocalPipeline` | the table of transitions, jobs, PostgreSQL queue, consumer, replay | done, proofs in `LocalPipeline_proofs` |
| 2 | `Dispatcher` | advisory locks, slots, both kinds of run, the unique constraint | done, proofs in `Dispatcher_proofs` |
| 3 | `Outbox`, `OutboxPromise` | claim, publish, finalize with leases; what they promise | done, proofs in `Outbox_proofs` |
| 4 | `SqsPipeline` | SQS, the consumer on it, the DLQ indexer, ledger, quarantine, replay, the dual write | done, proofs in `SqsPipeline_proofs` |
| 5 | `QueueViews` | metrics and the list of dead letters | done, proofs in `LocalPipeline_proofs` |
| 6 | `CanonicalImage` | the image of a product | done, proofs in `CanonicalImage_proofs` |
| 7 | `PriceText`, `StorePages`, `Extraction` | price parser, adapters, HTTP client, registry | done, proofs in `Extraction_proofs` |
| 8 | `Catalogue`, `Shares` | list, detail, history, trend, dashboard; percentages; the seed | done, proofs in `Catalogue_proofs`, `Shares_proofs` |

How they fit: `LocalPipeline`, `Outbox` and `SqsPipeline` extend `JobLifecycle`,
the state machine of both backends. `Outbox` refines `OutboxPromise`
(`INSTANCE ... WITH`), and `SqsPipeline` is composed with the promise instead of
the publisher: its outbox steps are the steps of `OutboxPromise`. `QueueViews`
extends `LocalPipeline`, so its views are checked in every state the pipeline
reaches. `Extraction` is one iteration of the loop that `LocalPipeline` steps
through as `InsertObservation`, `SkipProduct` and `RaiseError`; `Catalogue`
starts from the observations these insert. `Dispatcher` creates a job and its
message, or its event, in one step, because one transaction does: it stands in
front of either backend. Every state-machine module is written without RECURSIVE
operators, with its constants' assumptions named, so that it can be proved about.

## 3. LocalPipeline

### State and actions

| Variable | Code |
|---|---|
| `jobStatus`, `started`, `counted` | `ScrapingJob.status`, `.started_at`, `.observations_created` |
| `obs` | which positions of the batch have a `PriceObservation` (unique `source_hash`) |
| `rowStatus`, `rowJob`, `attempts`, `visible`, `holder` | a `LocalQueueMessage`: status, job named by the payload, `attempts`, `visible_at <= now()`, the worker that knows the receipt handle |
| `pc`, `cur`, `tries`, `next`, `gain`, `goal`, `seen`, `base` | a worker inside `process_next_message`: position in the code, row and attempts received, position in the batch, `inserted_count`, settlement asked for, job status and counter as loaded by its session |

| Action | Code |
|---|---|
| `CreateJob` | `create_scraping_job`: job and message in one transaction |
| `Replay` | `replay_dlq_messages`, local path; a batch, all or nothing, locked throughout |
| `Receive` | `receive_messages` |
| `RejectMessage`, `MissJob`, `ReconcileLegacyJob`, `LoseReconcileRace`, `AckTerminalJob`, `SkipConcurrent`, `StartJob`, `RefuseStart` | the branches of `process_next_message` before `process_job`, in order |
| `InsertObservation`, `SkipProduct`, `FinishJob`, `RaiseError` | `process_job`, one product per step, one commit each |
| `Decide`, `RefuseSettlement`, `Write` | `transition_job_status`: the check against the loaded status, and the commit |
| `AckSettled`, `ScheduleRetry`, `DeadLetter`, `MoveToDlq` | the queue operation that follows the commit; `send_to_dlq` is two steps because its lookup takes no lock |
| `Crash`, `BecomeVisible`, `GrowOld`, `PollNothing` | kill -9 or an exception that leaves `process_next_message`; time; polling |

Each action is one transaction, or the part of one that other processes can
tell apart. The lock of `SELECT ... FOR UPDATE` on the job is held from the
lookup to the commit of the same step, so those are one action; everything after
that commit works on an unlocked job, and is cut wherever another process may
come between.

Abstractions. Payloads are reduced to the job they name; product ids to the
positions of the batch, assumed distinct. Time is two comparisons (`visible`,
`started`). `attempts` saturates at `MaxRetries`, beyond which the code does not
tell values apart. Error messages and timestamps used for display are left out.
Receipt handles are represented by who knows the current one: a UUID is never
reused, so a handle that is not current matches nothing. `PromptWorkers = TRUE`
describes a deployment whose batches finish within `VISIBILITY_TIMEOUT`;
`FALSE` allows a lease to run out at any moment. Both are checked, because the
code guarantees different things in each.

### Runs

| Run | Question | Shows |
|---|---|---|
| `LocalPipelineRaces` | leases run out, workers crash; one legacy job with a row older than the jobs table, and a second row | handles stay sound, completed jobs are whole, counters never exceed the observations; the reconcile race is harmless |
| `LocalPipelinePrompt` | leases respected, workers crash, two jobs | nothing lost, copied or acknowledged early; the table of transitions is obeyed |
| `LocalPipelineLiveness` | fairness, leases respected, no crash, no replay, a malformed body | every message is acknowledged or dead-lettered, and a dead-lettered job has a row to replay |

Where leases run out or workers are killed, the code departs from what its
documents say, and the model shows how; TLC refutes these properties at once
under the constants of `LocalPipelineRaces`:

* `StatusFollowsTable` - two workers hold the same job after a lease ran out, and
  the second settlement overwrites the first: it was checked against the status
  its session had loaded.
* `DeadLetterIsReplayable` - a worker is killed after the commit of `dead_letter`
  and before `send_to_dlq`; every redelivery is refused by the transition table
  before it reaches `send_to_dlq` again, so the job stays without a dead letter.
* `CountsEveryObservation` - observations committed before a transient error are
  not in `observations_created`: the retry finds them there already.

`OneRowPerJob` is only stated for prompt workers: with a stale handle
`send_to_dlq` finds no row and inserts a second one. Two more facts came out of
the search for properties that hold. A message of a job that is already
`dead_letter` (after the crash above, or beside a second row) is delivered and
refused for ever, so `MessagesSettle` needs workers that are not killed. And
with unlimited replays an older row, replayed again and again, is always
received before a younger one, so it needs `MaxBatch = 0` as well. Leases that
run out before their worker has looked at the job would let two workers take a row
from each other for ever. So the deliveries that `SkipConcurrent` refuses, each at
the cost of an attempt, occur in `LocalPipelineRaces` only, for the safety of
overlapping attempts.

### Bounds

Two workers are enough for each race above: it involves the slow worker and one
other. One job with two products shows partial batches; two jobs show that the
order of delivery and the replay of a batch matter. `MaxRows` bounds the rows
ever inserted (a second row of a job needs a second id), `OldRows` how many of
them were there before the jobs table. `MaxRetries` is 1 or 2: one settles "last
attempt", two allows one retry. `MaxBatch` bounds a replay request (the API
allows 50); 0 disables replay in the liveness run. Workers are interchangeable,
hence the symmetry; no symmetry is used for liveness.

### Fairness

`FairSpec` assumes that a worker which can step does (`main` loops until it is
signalled), that an idle worker polls, and that time passes (`BecomeVisible`,
`GrowOld`). Weak fairness suffices: a step of a worker is disabled only by its
own steps, and time only moves one way. Nothing is assumed of producers,
operators or crashes.

### Proofs

`LocalPipeline_proofs` proves for every value of the constants, under
`PipelineAssumption` alone, so with leases that run out and workers that crash:

* `TypeCorrect` - `TypeOK`, with `WorkerInv`: what a worker between two steps
  knows of the row it received, the positions it has passed and the
  observations behind it. `TypeOK` alone is not inductive, as a settlement
  writes what was chosen several steps earlier.
* `HandlesAreSound` - `HandleInv`, inductive given the above.
* `CompletedJobsAreWhole` - `CompletedIsWhole`: a worker that means to write
  `completed` has passed every position (`WorkerInv`), and observations are
  never removed.
* `CountersAreCovered` - `NeverOvercounts`. The counters of two attempts at one
  job overlap: each worker adds its gain to the value it loaded, and the last
  writer wins. `CountInv` keeps books behind the numbers: sets of positions whose
  sizes are a worker's gain (those its own `INSERT ... ON CONFLICT DO NOTHING`
  created), the value it loaded and the value in the job. A worker's own
  positions are disjoint from those of every other worker of the job, from
  those already counted and from those it or another loaded, so whatever a
  settlement writes is the size of a set of observations.

Its second part adds the assumption `Prompt` (`PromptWorkers`, no
legacy jobs) and proves `OneRowPerJob`, `AckedMeansSettled`,
`UnfinishedHasMessage` and `StatusFollowsTable`. The inductive invariant adds to
the previous ones: `LeaseInv` (a row somebody holds is not visible), `PairInv`
(a job exists exactly when its row does) and `SettleInv` (what a worker loaded
is still true, and each row's status agrees with its job's). None of the four
is inductive alone: that the message exists depends on nobody else settling the
job, which depends on the lease.

`PromptDeadLetters` proves `DeadLetterIsReplayable` under `Prompt` and the further
assumption that no worker is mortal, which it needs: the crash described above
leaves a dead-lettered job without a dead letter. The invariant, `DeadInv`, says where the row of a dead-lettered job is: in
the DLQ, or in the hands of a worker past the commit of `dead_letter`.

Left to TLC: `MessagesSettle` (liveness).

## 4. Dispatcher

### State and actions

| Variable | Code |
|---|---|
| `hour` | the clock, rounded down to the hour as `normalized_slot` is |
| `jobs` | how many rows of `scraping_jobs` each store has per trigger type and hour: `dispatch_slot` of scheduled ones, the hour of `created_at` of manual ones, whose slot is null |
| `holder` | the session that holds each of the two advisory locks |
| `pc`, `kind`, `slot`, `candidates`, `todo` | a run inside `run_once` or `dispatch_manual` |
| `created`, `skipped`, `failed` | its summary |

| Action | Code |
|---|---|
| `Start`, `TakeLock`, `LockBusy` | the clock is read, then `pg_try_advisory_lock` succeeds or the run gives up (`skipped_lock`, 409) |
| `ListStores`, `Abort` | the query of the active stores, or the errors that end the run there; the context manager frees the lock |
| `Skip`, `Prepare`, `InsertJob`, `InsertDuplicate`, `Fail` | one store: no adapter, job of the slot found, no products; the transaction has decided to insert; commit; `IntegrityError`; any other error |
| `Finish` | the summary, and the lock is freed |
| `LoseLock`, `Crash`, `NextHour` | the connection of the lock drops; the process is killed; time |

The check and the insert of one store are two actions (`Prepare`, then
`InsertJob` or `InsertDuplicate`): the transaction is READ COMMITTED, so only the
unique constraint sees what another run has committed in between. `ListStores`
takes any set of stores, which covers a catalogue that changes and a manual
request for one store. `jobs` saturates at `MaxJobs >= 2`, which still tells one
job from several.

### Runs

`Dispatcher` checks two runs of either kind, both mortal, over two hours and
three stores: one complete, one without products, one without an adapter.
Several hours let a slow run of one slot meet the next one. Whether a lock is
lost or not, `NoDoubleDispatch` (no store in two summaries of one slot),
`SlotIsServed` (a store a run passed without an error has its job) and
`LocksAreReleased` hold. `LocksAreReleased` is the safety form of "a later run is
not blocked": no fairness is assumed of runs that an operator or a cron starts.

`NoRedundantJobs` is part of no run: it fails. Manual runs have no slot and do
not look for earlier jobs, so a second trigger in one hour creates them again,
where `openspec/specs/automated-daily-scraping/spec.md:28` says that "the system
skips or returns an advisory lock conflict rather than generating redundant
scraping jobs for the same store".

### Proofs

`Dispatcher_proofs` proves all four properties for any stores, runs and hours.
`DispatchInv` is `TypeOK`, `NoDoubleDispatch`, `AtMostOne` (the constraint: one
scheduled job per store and slot) and `SummaryInv` (every store a scheduled run
created a job for, or passed without an error, has one). `NoDoubleDispatch` is not inductive without the last two:
that the insert fails depends on the other run's summary being in the database.

## 5. Outbox

### State and actions

| Variable | Code |
|---|---|
| `status`, `evJob`, `source`, `attempts`, `ready`, `owner`, `leased` | a row of `scraping_outbox`; `ready` is `available_at <= now()`, `leased` is `lease_until > now()` |
| `job`, `cycle` | `ScrapingJob.status`, and the `logical_message_id` in its payload |
| `ledger` | `ScrapingDlqLedger.status` of the dead letter of each event |
| `copies` | messages SQS has accepted of each event, counted up to `MaxCopies` |
| `pc`, `batch`, `reported`, `seen` | a publisher inside `process_cycle`: the claimed items, the items reported `Successful`, what `finalize_batch` has read |

| Action | Code |
|---|---|
| `Dispatch`, `Replay` | the producers: job and event in one transaction; a replay moves its ledger entry to `replay_pending` |
| `Claim` | `claim_batch`: due events and expired leases, oldest first, SKIP LOCKED |
| `Publish` | `publish_batch`: SQS accepts some of the batch and confirms a part of that |
| `Inspect`, `Commit` | `finalize_batch` |
| `Crash`, `PollNothing`, `LeaseExpires`, `BackoffEnds` | kill or an exception; an empty outbox; time |
| `Consume`, `Index` | environment: a consumer that received a message moves the job along `ALLOWED_TRANSITIONS`; the DLQ indexer makes a ledger entry of it |

`finalize_batch` is cut in two because its session neither locks the rows it
reads nor flushes before the end: what it decides from may be old when it
commits. `Exhausted`, `NewJob` and `NewLedger` compute the compensation, the
first item of the batch deciding when two of them share a job. A replay request
of several entries is a sequence of `Replay` steps, as its entries are of
different jobs. An event and the message it carries have one identity, so a
ledger entry has the identity of the event whose message died.

### The abstract specification

`OutboxPromise` says what a reader of the outbox may rely on: an event is added,
SQS accepts events that are due, and one transaction settles due events as
published, all of them accepted before, or as given up; nothing is revoked. The
refinement mapping is `Fate` (`pending`, `publishing` and `failed` are all "due")
and the set of events with a message. Claims, leases, retries and crashes are
stutters of the promise.

### Runs

| Run | Question | Shows |
|---|---|---|
| `OutboxPrompt` | two publishers that may be killed, lost responses, exhaustion at the first failure, three events, so up to two replays of one job | a queued job has an event or a message (`QueuedIsDue`), a dead-lettered one can be recovered (`DeadLetterIsRecoverable`), a pending replay has its event, settled events are final |
| `OutboxLiveness` | fair publishers, one retry, two events | every event is published or exhausted; the promise is kept |

One job is enough for compensation, as jobs share nothing but batches; the
second and third event of the job come from replays of the first. `MaxCopies =
1` because no property tells two messages of an event from one. `MaxAttempts` is
1 where replays matter and 2 where retries do.

`FairSpec` lets publishers run and time pass: `process_cycle` is called in a loop
and its steps are disabled only by itself; an event whose backoff has ended stays
claimable until it is claimed. Fairness of `Cycle(p)` suffices because claims go
through events in the order of their ids and there are finitely many. Publishers
are not killed in this run: recovering an expired lease does not count an
attempt, so with endless crashes nothing is settled.

### Proofs

`Outbox_proofs`, for any number of publishers, events and jobs:

* `OutboxTypes` - `TypeOK`. The strengthening is `AttemptsLeft`: the attempts of an
  event that is not settled, and those a publisher has read of an event it owns,
  are below `OUTBOX_MAX_ATTEMPTS`, so one more does not exceed it.
* `OutboxKeepsPromise` - `Spec => KeepsPromise`, assuming `PromptPublishers`. The
  inductive invariant is `LeaseInv`: the events of a batch are `publishing`,
  leased to its publisher, and what SQS reported has been accepted; hence
  batches are disjoint and a commit only settles events that are due.
* `OutboxFinal` - `SettledIsFinal`, from the same invariant.

`PromptPublishers` is the assumption that finalizing takes less than the lease
(`OUTBOX_LEASE_DURATION_SECONDS`). It is needed: without it a second publisher
claims and publishes the event, and the first, which read the row before, writes
its own result over it, so `SettledIsFinal` and `DeadLetterIsRecoverable` fail.

Its last part adds, under the same assumption, `NoJobForgotten`
(`QueuedIsDue`), `NoReplayStranded` (`PendingReplayHasEvent`) and
`DeadLettersRecover` (`DeadLetterIsRecoverable`). What makes them hard is that
`finalize_batch` reads jobs and entries without a lock and writes them in a later
commit. `RecoveryInv` adds to `OwnedInv`, the invariant above:

* `Known` - which rows refer to which: a job whose current event is an initial
  dispatch has no other event, a replay names an entry of its own job.
* `ReplayInv` - an entry is `replay_pending` exactly while it has an unsettled
  event, and it has at most one.
* `JobInv` - `QueuedIsDue`; a job replayed before is recoverable in every status,
  that of an initial dispatch is dead-lettered only once SQS has its message.
* `ReadsInv` - at its commit a publisher has read as pending every entry of its
  batch, and as queued every job that is queued for an event of its batch. So
  what it settles includes the job and the entry of every event it gives up.

`EventsSettle` (liveness) is left to TLC.

## 6. SqsPipeline

### State and actions

| Variable | Code |
|---|---|
| `job`, `started`, `cycle` | `ScrapingJob.status`, `.started_at`, and `logical_message_id` in its payload |
| `cycleJob`, `source` | per logical message: its job and `replayed_from_message_id` |
| `ledger`, `quarantined` | `scraping_dlq_ledger.status` per logical message, rows of `scraping_quarantine` |
| `fate`, `accepted` | the variables of `OutboxPromise`: events of the outbox, and those SQS has a message of |
| `place`, `carries`, `receives`, `visible`, `holder` | SQS: queue, body, receive count, visibility, and who has the current receipt handle of each message |
| `creating` | jobs `create_scraping_job` has sent and not yet committed |
| `pc`, `cur`, `tries`, `loaded`, `goal`, `batch` | a worker inside `process_next_message`, an indexer inside `process_cycle` |

| Action | Code |
|---|---|
| `Dispatch`, `Replay`, `SendDirect`, `CommitDirect`, `RollbackDirect` | the producers: with the outbox, or the message first and the commit after it |
| `Publish`, `SettlePublished`, `GiveUp` | the publisher, as `OutboxPromise` allows, with what it does to job and ledger |
| `Receive` ... `DeadLetter` | the consumer, as in `LocalPipeline`; the queue operations are those of SQS |
| `ReceiveDeadLetters`, `Quarantine`, `DropKnown`, `Inspect`, `Index`, `LoseIndexRace`, `DeleteDeadLetter` | `process_cycle`: the branches, the commit of job and ledger, the delete after it |
| `Redrive`, `BecomeVisible`, `GrowOld`, `Crash` | SQS and time; a process is killed or a call fails |

What sets SQS apart: `send_to_dlq` sends a new message and the consumer passes
no source queue, so the received one stays and is redriven beside its copy;
redrive moves a message after `maxReceiveCount` receives whatever the worker was
about to do; `send_message` ignores the session, so a worker may receive a job
that is not there yet and reconcile it, which makes the commit of the API fail.

`Orderly = TRUE` is the counterpart of prompt workers: leases are kept, and no
other process steps between the check of a settlement and its commit. Without it
the lost update of section 3 is here too. One more overwrite remains and no
property forbids it: the indexer reads the job, a worker that holds another copy
completes it, and the indexer commits `dead_letter` over `completed`
(`dlq_indexer.py:152`). The job can then be replayed, which
finds its observations and completes it again.

### Runs, bounds, fairness

| Run | Question | Shows |
|---|---|---|
| `SqsPipeline` | one job, two cycles, three messages at a time, two workers that may be killed at any step, one indexer, replay, both ways of creation | no job is forgotten (`NoJobForgotten`), an entry of the list can be replayed (`InDlqIsReplayable`), jobs end and messages leave SQS |
| `SqsFaults` | a malformed body, two indexers of which one is killed or fails to delete, an event sent twice or given up | no job and no body vanishes |

Jobs share nothing but batches, so one job is enough; the second cycle is its
replay. `MaxReceives = 2` with `MaxRetries = 2` makes redrive and the last
attempt meet. `FairSpec` only assumes that the system as a whole goes on while it
has anything to do - some loop steps, or time passes; that is enough, since every
receive counts towards redrive, even for workers that are killed at each message.
`JobsEnd` counts a job with a quarantined message as ended: an operator has to
look at it.

### Proofs

`SqsPipeline_proofs`, for any number of jobs, messages, workers and indexers and
any bounds. Without further assumptions, so with leases that run out:

* `TypeCorrect` - `TypeOK`, with `WorkerInv`, `IndexerInv` and `LinkInv`: what a
  process between two steps knows of the message at hand, and that every body,
  entry, event and payload in use names a cycle that has a job.
* `MalformedBodiesKept` - `MalformedIsKept`. The invariant says that an indexer
  about to delete such a body has it in quarantine; that a worker never deletes
  one follows from `WorkerInv`.

Under `Orderly`:

* `NoJobIsForgotten` - `NoJobForgotten`. The inductive invariant is about cycles
  instead of jobs: `KeptInv` says that every cycle is unsent, has a message in SQS
  or is `Over` - its job is settled, the payload names another cycle, or it is in
  quarantine or can be replayed. Cycles that are over stay over (`OverStays`), and
  whoever is about to delete a message knows that its cycle is over (`DeleteInv`).
  That rests on `LedgerInv`, an entry is of an earlier cycle or can be replayed, so
  that dropping a known message loses nothing; on `WriteInv`, a settlement is only
  written to a job in `processing`; and, for the job a worker has reconciled before
  its commit, on `FreshInv`: the status the session loaded is still true because
  the worker has the only message there is (`LeaseInv`).
* `DeadLettersReplayable` - `InDlqIsReplayable`, assuming `~Outages` as well.
  `ReplayInv` adds that a job has one cycle until its payload names one, so that
  the entries of all other cycles have been replayed.

Both assumptions are needed. Without `Orderly`, a worker whose lease ran out writes
`retrying` over the `completed` of another one that has acknowledged the message
already: the job waits for a retry that nobody holds. With `Outages`, an event that
SQS has but whose answers were lost can be given up after its job was dead-lettered
and replayed: the job becomes `failed`, and when the event of the replay is given
up too its entry is `in_dlq` again beside a job that is not `dead_letter`.

`JobsEnd` and `MessagesDrain` (liveness) are left to TLC.

## 7. QueueViews

`get_queue_metrics` and the local branch of `list_dlq_messages` as sets of rows
over the state of `LocalPipeline`; the ledger branch is `Listed` and
`ListedReplayable` of `SqsPipeline`. In `LocalPipelinePrompt`, `EmptyMeansSettled`
relates the live numbers to the jobs: when they are zero, every job is settled but
for those whose row is claimed and has outlived its lease. Such rows are counted nowhere - neither
as processing nor as retrying - until they are received again, so the exception is
real. `ReplayableUntilReplayed` says that what an operator is shown as replayable
waits for the replay.

`LocalPipeline_proofs` (its last section) proves both under `Prompt`. `EmptyQueueIsSettled` combines
`UnfinishedHasMessage` with `HiddenInv`: a row never received is visible, and one
marked as processing has been received, so a row in none of the live numbers is
claimed and out of its lease. `ListedStays` follows from the same
invariant: a row in the DLQ is the only row of its job, so no
worker is busy with it and only the replay can take it out.

## 8. CanonicalImage

One product; per worker the scraped page (`store`, `found`) and its place in
`process_job`: `UpdateStoreProduct` commits the image of the store, `ReadProduct`
reads the product without a lock and decides, `CommitProduct` writes it by
primary key. `Crash` between any two of them. The images a store may show are
those `validate_store_image_url` admits (`ValidatedAssumption`). The product
begins with what the seed has for it (`seed.py:382`); `Seed` is a later start,
which puts the images of its data back over those of the workers (`seed.py:393`
for the product, `:735` for its stores). The seed reads and commits in one
transaction; a worker's commit in between has the effect of one before or after.

The run has four stores - one with a CDN, two of lower priority, one that is not
in the table -, two workers, one mortal, and up to one later start (`MaxSeeds`).
The seed has an image of a host without priority, one that Necs no longer shows,
or none. `BestImageStays` holds although a start or a
stale commit can put a worse image over a better one: the better store is scraped
again (strong fairness of `Scrape`: the dispatcher makes jobs of every store
again and again) and wins then. Its final image may be an old one: a new image of
the same priority never replaces an old one, not even from the same store.
`CanonicalImage_proofs` proves `TypeOK` and `CanonicalIsKnown` for any stores,
priorities, seeds and workers; the inductive invariant adds that a worker past
its first commit has left the image of its store behind. An image of the seed is
excepted in `CanonicalIsKnown`: it is there before any store is scraped.

## 9. Extraction, StorePages, PriceText

`PriceText` reads amounts: a numeral is groups of digits and separators, a style
the way a store writes it; `ReadStrictly` is `_parse_numeric_amount`,
`ReadLoosely` the looser reading of the adapters that do not use `price_parser`. `StorePages` reduces a page to
what adapters look for: JSON-LD offer, price elements with their currency and
their mention of cards, and one wording about stock; one operator per adapter
gives what it makes of the page. `Extraction` is the state machine around it:
registry, `SafeHttpClient.get` with each hop validated, the classes of answers,
parsing, the row that is stored and the settlement the consumer derives.

The run `Extraction` asks for every page of every adapter. `RowIsAdmitted`: the
row satisfies the check constraint of the table. `PriceIsPublished`: the price is
one the page shows for cash, in its currency. It is stated for pages that are
`Regular`, and each condition is a limit of the code: Computer Shop and CyC always
read a lone comma as decimal ("1,097" is 1.097), and every adapter a lone dot;
these two also take the first element when all of them speak of cards; NECS
applies the currency of a JSON-LD offer without a price to a price found
elsewhere. Two adapters do not know "S/.": NECS (`necs_adapter.py:113`) and Memory
Kings (`memorykings_adapter.py:116`) take the dot for the amount, so a page that
announces its price by "S/. " has none for them (`Dot`, `LooseAmount`); where no
space follows, they would read "S/.1097" as a fraction, and such pages are not among
`Pages`. `OnlyTheStoreIsAsked` and `FetchEnds` are about redirects; `FetchEnds` assumes
that the worker goes on and the client has its timeout.

`ExtractionUnavailable` is expected to fail and is the one finding of a run:
NECS spells a disabled cart button in a way its own normalisation does not
recognise, and Memory Kings finds "disponible" in "no disponible".
`docs/REQUIREMENTS.md:35` says that sold out products do not compete as best
price. Beside it: CyC's pattern `0\s*art...` (`cyc_adapter.py:154`) matches in "10
artículos en stock" too, and takes a product that is in stock for one that is not so;
`disable_domain` and `enable_domain` are called nowhere in the code, the model
lets an operator call them.

Bounds: amounts of one to six digits with zero, round and odd cents; up to two
price elements beside each other; three redirects, as in the code; one wording
about stock at a time. `MaxPrice` is a scaled `MAX_PRICE_ALLOWED`: 10,000 instead of
10^10, as TLC counts in 32 bits.

`Prices` are amounts up to 999,999.99, the most that two groups of thousands hold, in
any of the styles, where only an amount without cents may be written without them.
`PagesAssumption` says what the selectors can find on the pages of `PagesOf`: any
number of price elements with any number of `Prices`, at most one offer with at most one
price, and words about cards only where an adapter looks for them; and that
`MAX_PRICE_ALLOWED` is more than a thousand and a whole number of cents, as the
prices of the fake store are. A decimal part of three digits ("9999.997"), which
could round up to the limit, is what no store writes and is not among the styles.

`Extraction_proofs` proves `TypeOK` and `OnlyTheStoreIsAsked` for any pages and
adapters, and `StoredIsChecked`: whichever path an adapter takes, the result has a
currency exactly where it has a price, and the price is positive and below
`MAX_PRICE_ALLOWED`. The invariant `Inv` adds where the worker is (`PlaceInv`): the
host of a fetch belongs to a store that has one, nothing has been asked between
jobs, and a page is there only from parsing on. Without it a job could begin with
hosts that were asked for another store, or a page be parsed for a domain that has no
adapter. Nothing is assumed of what an adapter reads, so these hold for pages the run
does not enumerate.

The other two invariants are about the value that is read, and rest on lemmas about
each layer:

- *Digits* (`DigitsWritten`): the running total of one, two or three groups of a
  written amount is the amount in units, or in cents when these are written.
- *Reading* (`StrictDocumented`, `StrictWhole`, `StrictNone`, `LooseIs`): in the
  documented styles both readings give the amount; a lone separator before three
  digits makes units of thousands, except for a comma in the looser reading; torn
  numerals and text without digits give nothing. So whatever is read is one of
  `Values` (`ReadValues`): a whole number of cents, or at least one unit and below
  a thousand. This is what rounding to cents needs, as nothing rounds to zero or up
  to the limit.
- *Elements* (`FirstAtIs`, `CashElementIs`): the first element at certain positions is
  one of them and the only one; the element chosen for cash is about cash on a page
  that is `Regular`.
- *Dots* (`DotIs`, `LooseAmountIs`): the dot of "S/." is never read as a value.
- *Adapters* (`NecsReads`, `MemoryKingsReads`, `SercoplusReads`, `PrestaShopReads`):
  the price is one of `Values`, and on a regular page one of `Published`.

`ReadInv` carries this to the row: while a row is about to be stored or has been,
`result` is what the adapter made of the `page` that is still there, and it is among
`Values`. `RowsAreAdmitted` (`RowIsAdmitted`) and `PricesArePublished` (`PriceIsPublished`)
follow for any pages that satisfy `PagesAssumption`. `FetchEnds` stays with TLC.

## 10. Catalogue, Shares

| Variable | Code |
|---|---|
| `observations` | `price_observations`, with the instant of capture |
| `active` | `Store.is_active` |
| `reading`, `page`, `seen`, `due` | a client that pages through `GET /products` |

`Insert` adds an observation with any instant that is free: workers overtake each
other, so an older one may arrive last. `Seed` is a start of the platform:
`start_render.sh` runs the seed with its demonstrative observations, and the seed
puts the switches of all stores back, also those an operator has changed
(`Switch`, external). Everything else is an operator that computes an answer from
these two variables, one for each query: `BestPrice`, `OffersCount`, `LatestPrice`
and `Detail` by `MAX` and a join or by `ORDER BY`, `SnapshotRows` by `DISTINCT ON`
over all stores, `DailyLatest` per day.

| Property | Says |
|---|---|
| `ViewsAgree` | four ways to find the current offers give the same ones; an offer that a later capture replaced is never shown |
| `OffersAreInHistory` | the current offer ends its store's series and lies within the daily trend |
| `SharesAddUp` | the percentages of a breakdown add up to 100.00, each within a hundredth of its exact value |
| `DashboardAgrees` | the separate passes of summary, ranking and breakdown do not contradict each other; the share of the top store may differ by 0.01, as one is rounded and the other distributed |
| `ListingMissesNothing` | a client that pages through the list is shown everything that was in it when it began |

`ListingMissesNothing` holds because of what `with_offers_only` really selects:
products with *some* observation in stock, however old and in any currency, so
that a product never leaves the list unless a store is switched off. The
docstring (`product_service.py:44`) speaks of an "active in-stock offer"; with the
latest observation alone (the mutant `ListedWithOffer`) pages would shift under
the reader. Such products are listed without a best price.

Two comments promise more than the code: ties are broken by the first character
of the key and not by the whole of it (`math_utils.py:24`,
`analytics_service.py:240`), and then by the order of a list that no query fixes.
`MostCompetitive` therefore is the set of the stores that may come first: two of the
seeded stores begin with a C. `Shares` numbers the counts in the order they end up
in, and the model assumes that the names of products are distinct, as those of the
seed are, and that no two observations are captured at one instant.

The instance has three products and two stores, so that two products can be
compared, one store can lead or tie (the stores share an initial), and a store with three products has its
availability split in thirds. Two observations are inserted before or after the
seeded ones, on two days, in five kinds: two prices, dollars, sold out, unknown.
A page has one product, the smallest that paging can tell apart. The client is
bound to one pass through the list; no liveness is stated.

`Catalogue_proofs` proves, for any products, stores, kinds of observation, instants
and page size, under the orders named above and `Constrained` (a row of
`price_observations` satisfies its check constraints, and so do the demonstrative
ones):

- `OffersAgree` (`ViewsAgree`) and `OffersEndHistory` (`OffersAreInHistory`) from
  `TypeInv`, which adds to the types that no two observations share an instant:
  without it `DISTINCT ON`, `MAX` with a join and `ORDER BY ... LIMIT` choose
  different rows. Each query has a lemma that reduces it to the newest observation of
  a product at a store (`MaxCapturedIs`, `CurrentOffersAre`, `SameOffers`,
  `BestPriceIs`, `DetailIs`, `LastInOrder`, `TrendBounds`); they rest on `FirstExists`,
  that a finite set ordered by a relation has a first element.
- `ReaderMissesNothing` (`ListingMissesNothing`) from `ReaderInv`: what is due is
  still listed, and a product that is due and unseen has at least
  `(page - 1) * PageSize` listed products ahead of it. The property speaks only of a
  reader who has finished; the second part is what excludes that a product it is
  owed slips onto a page already shown.

The history is put in order by `InOrder`, the sequence that holds each observation
once and in the order of capture, which can be reasoned about where a sorting
function cannot.

`Shares_proofs` proves `BreakdownAddsUp`: for any finite set of counts that are not all
zero, the largest remainder method gives percentages that add up to 100.00, none of
them off by a hundredth or more. A sum over a set is a fold defined with `CHOOSE`:
`SumIsIter` and `SumRecursion` unfold it, and `SubsetInduction` replaces induction
over finite sets, which the provers cannot instantiate, by looking at a smallest subset
without the property. From these follow that a sum is linear, is bounded by its
terms and can be taken group by group (`SumLinear`, `SumBounded`, `SumOfGroups`).
`RankCount` counts the elements of a finite order with a rank below `k`, so exactly
the missing hundredths are handed out (`ExtraIsMissing`). In `Catalogue_proofs`:

- `SharesAlwaysAddUp` (`SharesAddUp`) applies this to the breakdowns by best price and
  by availability. What it takes is that the counts are natural numbers: the
  unobserved associations are a difference, and there are at least as many
  associations as there are current offers (`AvailabilityCountsAre`).
- `DashboardTellsOneStory` (`DashboardAgrees`). Of each part a lemma says what it
  is: each product with two offers has one row of savings (`SpreadIs`),
  the ranking begins with the largest (`TopSavings`), the best prices by store add up
  to the products with an offer (`CountsAddUp`), the most competitive store has the
  most of them, whichever of several comes first (`MostCompetitiveIs`), and its rounded
  share is within a hundredth of the one the breakdown distributes (`TopShare`).

The identifiers of products, by which the code breaks ties, are assumed to be distinct
(`CatalogueAssumption`); the initials of stores are not.

## 11. Not modelled

Left out for good: titles, SKUs and image candidates in the HTML; text search,
filter options, the resolution of periods, averages and medians, the audit of
freshness; `list_jobs` and `get_job`, which copy columns; `purge_queue`, which
only tests call; rendering in the frontend; configuration, migrations, the bulk
data of the seed and the deployment, which hold no state that changes in
operation or are input and output only. The race of the catalogue page (an answer
to earlier filters that arrives late) is real and no promise of the repository
speaks of it; so is the effect of a restart on an operator's switch and on the
chosen image. The dispatcher's stores are a snapshot, and one switched off
meanwhile still gets a job, which the worker refuses; its interval is longer than
an hour, so a slot can be passed over. An event that kills its publisher is
claimed for ever, as recovering a lease does not count an attempt.

Every module has its `TypeOK`. It is checked by a run where a theorem is about it
and proved for `CanonicalImage`, `SqsPipeline`, `Extraction` and `Catalogue` too.

Every invariant and every action property that a passing run checks is stated by a
theorem. Beyond the prover and left to TLC is liveness: `MessagesSettle`,
`EventsSettle`, `JobsEnd`, `MessagesDrain`, `BestImageStays` and `FetchEnds`. The
proofs need no induction theorem with an operator as its parameter: where one would
be used, a smallest counterexample is excluded instead, and running totals are
unfolded as far as the groups of an amount go.
