--------------------------- MODULE LocalPipeline ---------------------------
(***************************************************************************)
(* The scraping pipeline on the PostgreSQL queue backend: jobs             *)
(* (scraping_jobs), queue rows (local_queue_messages, in the main queue or *)
(* in its dead letter queue), the workers that poll the queue, scrape and  *)
(* settle the job, and the operator who replays dead letters.              *)
(*                                                                         *)
(* Time is abstracted to the two comparisons the code makes: a row is      *)
(* visible or not, and a job's started_at is unset, recent (younger than   *)
(* the visibility timeout) or old.  A worker step is one transaction.      *)
(* SQLAlchemy re-reads a job after every commit, without a lock, so the    *)
(* status a settlement is checked against (Decide) may be stale when the   *)
(* settlement is written (Write).                                          *)
(***************************************************************************)
EXTENDS Naturals, FiniteSets, JobLifecycle

CONSTANTS
  Jobs,        \* identifiers of scraping jobs
  LegacyJobs,  \* jobs named only by rows older than the scraping_jobs table
  MaxRows,     \* bound: rows that local_queue_messages can hold
  OldRows,     \* how many rows the queue holds before the first job
  Workers,     \* worker processes
  Mortal,      \* the workers that may be killed and restarted
  BatchSize,   \* product_ids of a message are the positions 1..BatchSize
  Linked,      \* positions whose StoreProduct exists and is active
  MaxRetries,  \* worker_settings.MAX_RETRIES
  MaxBatch,    \* most rows in one replay request (the API allows 50)
  PromptWorkers,  \* TRUE: a live worker settles before its row is visible again
  NoJob,       \* job_id of a body that is no ScrapingMessage
  Nobody       \* holder of a row whose receipt handle no live worker knows

ASSUME PipelineAssumption ==
  /\ LegacyJobs \subseteq Jobs
  /\ MaxRows \in Nat /\ OldRows \in 0..MaxRows
  /\ Mortal \subseteq Workers
  /\ BatchSize \in Nat /\ BatchSize >= 1
  /\ Linked \subseteq 1..BatchSize
  /\ MaxRetries \in Nat /\ MaxRetries >= 1
  /\ MaxBatch \in Nat
  /\ PromptWorkers \in BOOLEAN
  /\ NoJob \notin Jobs /\ Nobody \notin Workers

\* row ids in the order of created_at, which is the order of delivery
Rows == 1..MaxRows

\* The code only compares attempts with MaxRetries, so counting stops there.
AttemptsCap == MaxRetries

NoRow == 0

RowStatuses == {"pending", "processing", "completed", "dlq"}

VARIABLES
  jobStatus,   \* ScrapingJob.status, "absent" before the INSERT
  started,     \* ScrapingJob.started_at: "unset", "recent" or "old"
  counted,     \* ScrapingJob.observations_created
  obs,         \* positions of the job with a PriceObservation (source_hash)
  rowStatus,   \* LocalQueueMessage.status; "dlq" exactly in the dead letter queue
  rowJob,      \* job_id in the payload
  attempts,    \* LocalQueueMessage.attempts, saturating at AttemptsCap
  visible,     \* visible_at <= now()
  holder,      \* the worker that knows the current receipt_handle
  pc,          \* where each worker stands in process_next_message
  cur,         \* the row a worker received
  tries,       \* msg.attempts of the received message
  next,        \* the position process_job handles next
  gain,        \* inserted_count
  goal,        \* target of the pending settlement, "none" while scraping
  seen,        \* job.status as loaded in the worker's session, or "unread"
  base         \* job.observations_created as loaded with it

jobVars == <<jobStatus, started, counted, obs>>
rowVars == <<rowStatus, rowJob, attempts, visible, holder>>
localVars == <<pc, cur, tries, next, gain, goal, seen, base>>
vars == <<jobVars, rowVars, localVars>>

-----------------------------------------------------------------------------
\* The error classes the consumer tells apart, and the settlement each asks for.
StoreErrors == {"StoreDisabledError", "FatalScrapingError"}
FetchErrors == {"StoreBlockedError", "TerminalInternalError",
                "FatalScrapingError", "TransientScrapingError", "Exception"}
\* Mutant: one retry too many, for ever since the counter saturates.
SettlementOffByOne(error, n) ==
  CASE error \in {"StoreDisabledError", "StoreBlockedError"} -> "skipped"
    [] error = "TerminalInternalError" -> "failed"
    [] error = "TransientScrapingError" /\ n <= MaxRetries -> "retrying"
    [] OTHER -> "dead_letter"

Settlement(error, n) ==
  CASE error \in {"StoreDisabledError", "StoreBlockedError"} -> "skipped"
    [] error = "TerminalInternalError" -> "failed"
    [] error = "TransientScrapingError" /\ n < MaxRetries -> "retrying"
    [] OTHER -> "dead_letter"

-----------------------------------------------------------------------------
(* Helpers                                                                 *)

\* Mutant: the filter on queue_name is missing.
InAnyQueue(m) == rowStatus[m] \in {"pending", "processing", "dlq"}

InMainQueue(m) == rowStatus[m] \in {"pending", "processing"}

Deliverable(m) == InMainQueue(m) /\ visible[m]

\* rows are inserted in the order of their ids
Fresh(m) ==
  /\ rowStatus[m] = "absent"
  /\ \A k \in Rows : rowStatus[k] = "absent" => m <= k

JobOf(w) == rowJob[cur[w]]

\* The worker returns to its polling loop and its receipt handle is forgotten.
Return(w) ==
  /\ pc' = [pc EXCEPT ![w] = "idle"]
  /\ cur' = [cur EXCEPT ![w] = NoRow]
  /\ tries' = [tries EXCEPT ![w] = 0]
  /\ next' = [next EXCEPT ![w] = 1]
  /\ gain' = [gain EXCEPT ![w] = 0]
  /\ goal' = [goal EXCEPT ![w] = "none"]
  /\ seen' = [seen EXCEPT ![w] = "unread"]
  /\ base' = [base EXCEPT ![w] = 0]

\* Nobody can acknowledge a row whose handle w has dropped.
Forget(w) == holder' = [m \in Rows |-> IF holder[m] = w THEN Nobody ELSE holder[m]]

\* process_next_message ends with the message unacknowledged
Abandon(w) ==
  /\ Return(w)
  /\ Forget(w)
  /\ UNCHANGED <<jobVars, rowStatus, rowJob, attempts, visible>>

-----------------------------------------------------------------------------
(* Initial state: the queue may hold old rows that name a legacy job or    *)
(* that no ScrapingMessage can be parsed from.                             *)

Init ==
  /\ jobStatus = [j \in Jobs |-> "absent"]
  /\ started = [j \in Jobs |-> "unset"]
  /\ counted = [j \in Jobs |-> 0]
  /\ obs = [j \in Jobs |-> {}]
  /\ rowStatus = [m \in Rows |-> IF m <= OldRows THEN "pending" ELSE "absent"]
  /\ rowJob \in {f \in [Rows -> LegacyJobs \cup {NoJob}] :
                   \A m \in Rows : m > OldRows => f[m] = NoJob}
  /\ attempts = [m \in Rows |-> 0]
  /\ visible = [m \in Rows |-> TRUE]
  /\ holder = [m \in Rows |-> Nobody]
  /\ pc = [w \in Workers |-> "idle"]
  /\ cur = [w \in Workers |-> NoRow]
  /\ tries = [w \in Workers |-> 0]
  /\ next = [w \in Workers |-> 1]
  /\ gain = [w \in Workers |-> 0]
  /\ goal = [w \in Workers |-> "none"]
  /\ seen = [w \in Workers |-> "unread"]
  /\ base = [w \in Workers |-> 0]

-----------------------------------------------------------------------------
(* Producers                                                               *)

\* One transaction inserts the job and its message, so both exist or neither.
CreateJob(j, m) ==
  /\ j \notin LegacyJobs /\ jobStatus[j] = "absent"
  /\ Fresh(m)
  /\ jobStatus' = [jobStatus EXCEPT ![j] = "queued"]
  /\ rowStatus' = [rowStatus EXCEPT ![m] = "pending"]
  /\ rowJob' = [rowJob EXCEPT ![m] = j]
  /\ UNCHANGED <<started, counted, obs, attempts, visible, holder, localVars>>

\* POST /scraping/dlq/replay: all the rows of the request or none of them.
\* Every check is made before the first write, so two dead letters of one job
\* in the same request both pass.
Replay(S) ==
  /\ S # {} /\ Cardinality(S) <= MaxBatch
  /\ \A m \in S : /\ rowStatus[m] = "dlq"
                  /\ rowJob[m] \in Jobs
                  /\ jobStatus[rowJob[m]] = "dead_letter"
  /\ rowStatus' = [m \in Rows |-> IF m \in S THEN "pending" ELSE rowStatus[m]]
  /\ attempts' = [m \in Rows |-> IF m \in S THEN 0 ELSE attempts[m]]
  /\ visible' = [m \in Rows |-> m \in S \/ visible[m]]
  /\ holder' = [m \in Rows |-> IF m \in S THEN Nobody ELSE holder[m]]
  /\ jobStatus' = [j \in Jobs |-> IF \E m \in S : rowJob[m] = j
                                  THEN "queued" ELSE jobStatus[j]]
  /\ started' = [j \in Jobs |-> IF \E m \in S : rowJob[m] = j
                                THEN "unset" ELSE started[j]]
  /\ UNCHANGED <<counted, obs, rowJob, localVars>>

-----------------------------------------------------------------------------
(* The worker: process_next_message                                        *)
\* Mutant: the claim does not move visible_at.
ClaimStaysVisible(w, m) ==
  /\ rowStatus' = [rowStatus EXCEPT ![m] = "processing"]
  /\ holder' = [holder EXCEPT ![m] = w]
  /\ attempts' = [attempts EXCEPT ![m] = IF @ < AttemptsCap THEN @ + 1 ELSE @]
  /\ UNCHANGED visible

\* The claim takes a new receipt handle, which voids the one before it.
Claim(w, m) ==
  /\ rowStatus' = [rowStatus EXCEPT ![m] = "processing"]
  /\ holder' = [holder EXCEPT ![m] = w]
  /\ visible' = [visible EXCEPT ![m] = FALSE]
  /\ attempts' = [attempts EXCEPT ![m] = IF @ < AttemptsCap THEN @ + 1 ELSE @]

\* FOR UPDATE SKIP LOCKED only skips rows of a claim in progress, so claims
\* take effect one after the other, each on the oldest row left.
Receive(w, m) ==
  /\ pc[w] = "idle"
  /\ Deliverable(m) /\ \A k \in Rows : Deliverable(k) => m <= k
  /\ Claim(w, m)
  /\ pc' = [pc EXCEPT ![w] = "begin"]
  /\ cur' = [cur EXCEPT ![w] = m]
  /\ tries' = [tries EXCEPT ![w] = attempts'[m]]
  /\ UNCHANGED <<jobVars, rowJob, next, gain, goal, seen, base>>

\* delete_message and change_message_visibility update by handle alone: when
\* the row has been received again, they match nothing.
Held(w, m) == m \in Rows /\ holder[m] = w

DeleteMessage(w) ==
  /\ rowStatus' = [m \in Rows |-> IF Held(w, m) THEN "completed" ELSE rowStatus[m]]
  /\ Forget(w)
  /\ UNCHANGED <<rowJob, attempts, visible>>

ChangeVisibility(w) ==
  /\ rowStatus' = [m \in Rows |-> IF Held(w, m) THEN "pending" ELSE rowStatus[m]]
  /\ visible' = [m \in Rows |-> visible[m] /\ ~Held(w, m)]
  /\ Forget(w)
  /\ UNCHANGED <<rowJob, attempts>>

\* send_to_dlq looks the row up by handle without locking it; the row it found
\* is moved by the UPDATE of a later step.
FindDeadLetter(w) ==
  /\ holder[cur[w]] = w
  /\ pc' = [pc EXCEPT ![w] = "moving"]
  /\ UNCHANGED <<jobVars, rowVars, cur, tries, next, gain, goal, seen, base>>
\* Mutant: the dead letter is always inserted as a copy.
InsertDeadLetterCopy(w, m) ==
  /\ Fresh(m)
  /\ rowStatus' = [rowStatus EXCEPT ![m] = "dlq"]
  /\ rowJob' = [rowJob EXCEPT ![m] = JobOf(w)]
  /\ attempts' = [attempts EXCEPT ![m] = tries[w]]
  /\ Return(w)
  /\ Forget(w)
  /\ UNCHANGED <<jobVars, visible>>

\* No row has the handle: a new row is inserted straight into the dead letter
\* queue, while the row that was received stays where it is.
InsertDeadLetter(w, m) ==
  /\ holder[cur[w]] # w
  /\ Fresh(m)
  /\ rowStatus' = [rowStatus EXCEPT ![m] = "dlq"]
  /\ rowJob' = [rowJob EXCEPT ![m] = JobOf(w)]
  /\ attempts' = [attempts EXCEPT ![m] = tries[w]]
  /\ Return(w)
  /\ UNCHANGED <<jobVars, visible, holder>>
\* Mutants: the row never leaves the main queue; the receipt handle survives
\* the move.
MoveToDlqKeepsQueue(w) ==
  /\ pc[w] = "moving"
  /\ holder' = [holder EXCEPT ![cur[w]] = Nobody]
  /\ Return(w)
  /\ UNCHANGED <<jobVars, rowStatus, rowJob, attempts, visible>>
MoveToDlqKeepsHandle(w) ==
  /\ pc[w] = "moving"
  /\ rowStatus' = [rowStatus EXCEPT ![cur[w]] = "dlq"]
  /\ Return(w)
  /\ UNCHANGED <<jobVars, rowJob, attempts, visible, holder>>

MoveToDlq(w) ==
  /\ pc[w] = "moving"
  /\ rowStatus' = [rowStatus EXCEPT ![cur[w]] = "dlq"]
  /\ holder' = [holder EXCEPT ![cur[w]] = Nobody]
  /\ Return(w)
  /\ UNCHANGED <<jobVars, rowJob, attempts, visible>>

\* A body that is no ScrapingMessage goes to the dead letter queue at once.
RejectMessage(w) ==
  /\ pc[w] = "begin" /\ JobOf(w) = NoJob
  /\ FindDeadLetter(w) \/ \E m \in Rows : InsertDeadLetter(w, m)

\* A message of a job the database does not know: the row is inserted in a
\* step of its own, and loses the race against another worker's INSERT.
MissJob(w) ==
  /\ pc[w] = "begin" /\ JobOf(w) \in Jobs /\ jobStatus[JobOf(w)] = "absent"
  /\ pc' = [pc EXCEPT ![w] = "reconciling"]
  /\ UNCHANGED <<jobVars, rowVars, cur, tries, next, gain, goal, seen, base>>

ReconcileLegacyJob(w) ==
  /\ pc[w] = "reconciling" /\ jobStatus[JobOf(w)] = "absent"
  /\ jobStatus' = [jobStatus EXCEPT ![JobOf(w)] = "processing"]
  /\ started' = [started EXCEPT ![JobOf(w)] = "recent"]
  /\ pc' = [pc EXCEPT ![w] = "scraping"]
  /\ seen' = [seen EXCEPT ![w] = "processing"]
  /\ UNCHANGED <<counted, obs, rowVars, cur, tries, next, gain, goal, base>>

LoseReconcileRace(w) ==
  /\ pc[w] = "reconciling" /\ jobStatus[JobOf(w)] # "absent"
  /\ Abandon(w)
\* Mutants: the idempotent acknowledgement covers one status too many.
AlreadyTerminalOrRetrying(s) == s \in {"completed", "skipped", "retrying"}
AlreadyTerminalOrDead(s) == s \in {"completed", "skipped", "dead_letter"}

\* The job is locked (FOR UPDATE) from here to the end of the step.
AlreadyTerminal(s) == s \in {"completed", "skipped"}

AckTerminalJob(w) ==
  /\ pc[w] = "begin" /\ JobOf(w) \in Jobs /\ AlreadyTerminal(jobStatus[JobOf(w)])
  /\ DeleteMessage(w)
  /\ Return(w)
  /\ UNCHANGED jobVars

ActivelyProcessed(j) == jobStatus[j] = "processing" /\ started[j] = "recent"

SkipConcurrent(w) ==
  /\ pc[w] = "begin" /\ JobOf(w) \in Jobs /\ ActivelyProcessed(JobOf(w))
  /\ Abandon(w)

Startable(j) ==
  /\ jobStatus[j] \in JobStatuses
  /\ ~AlreadyTerminal(jobStatus[j]) /\ ~ActivelyProcessed(j)

StartJob(w) ==
  LET j == JobOf(w) IN
  /\ pc[w] = "begin" /\ j \in Jobs /\ Startable(j)
  /\ "processing" \in AllowedTransitions[jobStatus[j]]
  /\ jobStatus' = [jobStatus EXCEPT ![j] = "processing"]
  /\ started' = [started EXCEPT ![j] = IF @ = "unset" THEN "recent" ELSE @]
  /\ pc' = [pc EXCEPT ![w] = "scraping"]
  /\ UNCHANGED <<counted, obs, rowVars, cur, tries, next, gain, goal, seen, base>>

\* InvalidStateTransitionError is raised outside the try block.
RefuseStart(w) ==
  LET j == JobOf(w) IN
  /\ pc[w] = "begin" /\ j \in Jobs /\ Startable(j)
  /\ "processing" \notin AllowedTransitions[jobStatus[j]]
  /\ Abandon(w)

-----------------------------------------------------------------------------
(* process_job: one position of the batch after the other                  *)
\* Mutant: a conflicting INSERT is counted too.
InsertObservationCountsAll(w) ==
  LET j == JobOf(w) IN
  /\ pc[w] = "scraping" /\ next[w] \in Linked
  /\ obs' = [obs EXCEPT ![j] = @ \cup {next[w]}]
  /\ gain' = [gain EXCEPT ![w] = @ + 1]
  /\ next' = [next EXCEPT ![w] = @ + 1]
  /\ seen' = [seen EXCEPT ![w] = "unread"]
  /\ UNCHANGED <<jobStatus, started, counted, rowVars, pc, cur, tries, goal, base>>

\* ON CONFLICT (source_hash) DO NOTHING; the commit expires the loaded job.
InsertObservation(w) ==
  LET j == JobOf(w) IN
  /\ pc[w] = "scraping" /\ next[w] \in Linked
  /\ obs' = [obs EXCEPT ![j] = @ \cup {next[w]}]
  /\ gain' = [gain EXCEPT ![w] = IF next[w] \in obs[j] THEN @ ELSE @ + 1]
  /\ next' = [next EXCEPT ![w] = @ + 1]
  /\ seen' = [seen EXCEPT ![w] = "unread"]
  /\ UNCHANGED <<jobStatus, started, counted, rowVars, pc, cur, tries, goal, base>>
\* Mutant: a product without an active StoreProduct is observed all the same.
SkipProductObserves(w) ==
  /\ pc[w] = "scraping" /\ next[w] \in (1..BatchSize) \ Linked
  /\ obs' = [obs EXCEPT ![JobOf(w)] = @ \cup {next[w]}]
  /\ next' = [next EXCEPT ![w] = @ + 1]
  /\ UNCHANGED <<jobStatus, started, counted, rowVars, pc, cur, tries, gain, goal,
                 seen, base>>

SkipProduct(w) ==
  /\ pc[w] = "scraping" /\ next[w] \in (1..BatchSize) \ Linked
  /\ next' = [next EXCEPT ![w] = @ + 1]
  /\ UNCHANGED <<jobVars, rowVars, pc, cur, tries, gain, goal, seen, base>>
\* Mutant: the loop stops one product early.
FinishJobEarly(w) ==
  /\ pc[w] = "scraping" /\ next[w] >= BatchSize
  /\ pc' = [pc EXCEPT ![w] = "deciding"]
  /\ goal' = [goal EXCEPT ![w] = "completed"]
  /\ UNCHANGED <<jobVars, rowVars, cur, tries, next, gain, seen, base>>

FinishJob(w) ==
  /\ pc[w] = "scraping" /\ next[w] > BatchSize
  /\ pc' = [pc EXCEPT ![w] = "deciding"]
  /\ goal' = [goal EXCEPT ![w] = "completed"]
  /\ UNCHANGED <<jobVars, rowVars, cur, tries, next, gain, seen, base>>

\* The store is checked before the first position, the adapter fetches at
\* every linked one.
Errors(n) == (IF n = 1 THEN StoreErrors ELSE {})
               \cup (IF n \in Linked THEN FetchErrors ELSE {})

RaiseError(w, error) ==
  /\ pc[w] = "scraping" /\ next[w] <= BatchSize
  /\ error \in Errors(next[w])
  /\ pc' = [pc EXCEPT ![w] = "deciding"]
  /\ goal' = [goal EXCEPT ![w] = Settlement(error, tries[w])]
  /\ UNCHANGED <<jobVars, rowVars, cur, tries, next, gain, seen, base>>

-----------------------------------------------------------------------------
(* Settlement: check the transition, write the job, then tell the queue    *)

LoadedStatus(w) == IF seen[w] = "unread" THEN jobStatus[JobOf(w)] ELSE seen[w]
LoadedCount(w) == IF seen[w] = "unread" THEN counted[JobOf(w)] ELSE base[w]

Decide(w) ==
  /\ pc[w] = "deciding"
  /\ LoadedStatus(w) \in JobStatuses
  /\ goal[w] \in AllowedTransitions[LoadedStatus(w)]
  /\ seen' = [seen EXCEPT ![w] = LoadedStatus(w)]
  /\ base' = [base EXCEPT ![w] = LoadedCount(w)]
  /\ pc' = [pc EXCEPT ![w] = "writing"]
  /\ UNCHANGED <<jobVars, rowVars, cur, tries, next, gain, goal>>

\* The handler of the exception asks for another illegal transition, so the
\* second exception leaves process_next_message.
RefuseSettlement(w) ==
  /\ pc[w] = "deciding"
  /\ LoadedStatus(w) \in JobStatuses => goal[w] \notin AllowedTransitions[LoadedStatus(w)]
  /\ Abandon(w)

\* observations_created = loaded value + inserted_count, on success alone
NewCount(w) ==
  IF goal[w] = "completed" /\ gain[w] > 0 THEN base[w] + gain[w]
                                          ELSE counted[JobOf(w)]

Write(w) ==
  LET j == JobOf(w) IN
  /\ pc[w] = "writing"
  /\ jobStatus' = [jobStatus EXCEPT ![j] = goal[w]]
  /\ counted' = [counted EXCEPT ![j] = NewCount(w)]
  /\ pc' = [pc EXCEPT ![w] = "acking"]
  /\ UNCHANGED <<started, obs, rowVars, cur, tries, next, gain, goal, seen, base>>

AckSettled(w) ==
  /\ pc[w] = "acking" /\ goal[w] \in {"completed", "skipped", "failed"}
  /\ DeleteMessage(w)
  /\ Return(w)
  /\ UNCHANGED jobVars

ScheduleRetry(w) ==
  /\ pc[w] = "acking" /\ goal[w] = "retrying"
  /\ ChangeVisibility(w)
  /\ Return(w)
  /\ UNCHANGED jobVars

DeadLetter(w) ==
  /\ pc[w] = "acking" /\ goal[w] = "dead_letter"
  /\ FindDeadLetter(w) \/ \E m \in Rows : InsertDeadLetter(w, m)

-----------------------------------------------------------------------------
(* The environment                                                         *)

\* A worker is killed, or an exception the model does not detail (a lost
\* database connection) ends process_next_message: what is committed stays.
Crash(w) ==
  /\ w \in Mortal /\ pc[w] # "idle"
  /\ Abandon(w)

\* visible_at passes: for a retry, after a crash, or, unless PromptWorkers,
\* while the worker that received the row is still busy with it
BecomeVisible(m) ==
  /\ InMainQueue(m) /\ ~visible[m]
  /\ PromptWorkers => holder[m] = Nobody
  /\ visible' = [visible EXCEPT ![m] = TRUE]
  /\ UNCHANGED <<jobVars, rowStatus, rowJob, attempts, holder, localVars>>

\* the visibility timeout has passed since started_at
GrowOld(j) ==
  /\ started[j] = "recent"
  /\ started' = [started EXCEPT ![j] = "old"]
  /\ UNCHANGED <<jobStatus, counted, obs, rowVars, localVars>>

\* polling an empty queue
PollNothing(w) ==
  /\ pc[w] = "idle" /\ \A m \in Rows : ~Deliverable(m)
  /\ UNCHANGED vars

-----------------------------------------------------------------------------

Step(w) ==
  \/ RejectMessage(w) \/ MissJob(w) \/ ReconcileLegacyJob(w)
  \/ LoseReconcileRace(w) \/ AckTerminalJob(w) \/ SkipConcurrent(w)
  \/ StartJob(w) \/ RefuseStart(w)
  \/ InsertObservation(w) \/ SkipProduct(w) \/ FinishJob(w)
  \/ \E error \in StoreErrors \cup FetchErrors : RaiseError(w, error)
  \/ Decide(w) \/ RefuseSettlement(w) \/ Write(w)
  \/ AckSettled(w) \/ ScheduleRetry(w) \/ DeadLetter(w) \/ MoveToDlq(w)

Next ==
  \/ \E j \in Jobs, m \in Rows : CreateJob(j, m)
  \/ \E S \in SUBSET Rows : Replay(S)
  \/ \E w \in Workers, m \in Rows : Receive(w, m)
  \/ \E w \in Workers : Step(w) \/ Crash(w) \/ PollNothing(w)
  \/ \E m \in Rows : BecomeVisible(m)
  \/ \E j \in Jobs : GrowOld(j)

Spec == Init /\ [][Next]_vars

\* The worker loop keeps running and polling, and time passes.  Nothing is
\* assumed of producers, operators and crashes.
FairSpec ==
  /\ Spec
  /\ \A w \in Workers : WF_vars(Step(w)) /\ WF_vars(\E m \in Rows : Receive(w, m))
  /\ \A m \in Rows : WF_vars(BecomeVisible(m))
  /\ \A j \in Jobs : WF_vars(GrowOld(j))

-----------------------------------------------------------------------------
(* Properties                                                              *)

JobTypeOK ==
  /\ jobStatus \in [Jobs -> JobStatuses \cup {"absent"}]
  /\ started \in [Jobs -> {"unset", "recent", "old"}]
  /\ counted \in [Jobs -> Nat]
  /\ obs \in [Jobs -> SUBSET Linked]

RowTypeOK ==
  /\ rowStatus \in [Rows -> RowStatuses \cup {"absent"}]
  /\ rowJob \in [Rows -> Jobs \cup {NoJob}]
  /\ attempts \in [Rows -> 0..AttemptsCap]
  /\ visible \in [Rows -> BOOLEAN]
  /\ holder \in [Rows -> Workers \cup {Nobody}]

WorkerTypeOK ==
  /\ pc \in [Workers -> {"idle", "begin", "reconciling", "scraping", "deciding",
                         "writing", "acking", "moving"}]
  /\ cur \in [Workers -> Rows \cup {NoRow}]
  /\ tries \in [Workers -> 0..AttemptsCap]
  /\ next \in [Workers -> 1..(BatchSize + 1)]
  /\ gain \in [Workers -> Nat]
  /\ goal \in [Workers -> Goals \cup {"none"}]
  /\ seen \in [Workers -> JobStatuses \cup {"unread"}]
  /\ base \in [Workers -> Nat]

\* Every variable has its type.
TypeOK == JobTypeOK /\ RowTypeOK /\ WorkerTypeOK

\* A receipt handle somebody knows belongs to a row in processing and to the
\* worker busy with that row: no stale handle can settle a row that has been
\* received again, replayed, completed or moved.
HandleInv ==
  \A m \in Rows : holder[m] # Nobody =>
    /\ rowStatus[m] = "processing"
    /\ pc[holder[m]] # "idle"
    /\ cur[holder[m]] = m

\* A completed job has an observation of every linked product, whatever
\* crashes, redeliveries and replays came before.
CompletedIsWhole == \A j \in Jobs : jobStatus[j] = "completed" => Linked \subseteq obs[j]

\* observations_created never exceeds the observations the job really has.
NeverOvercounts == \A j \in Jobs : counted[j] <= Cardinality(obs[j])

\* An unfinished job has a row in the main queue that will be delivered.
UnfinishedHasMessage ==
  \A j \in Jobs : jobStatus[j] \in {"queued", "processing", "retrying"} =>
    \E m \in Rows : rowJob[m] = j /\ InMainQueue(m)

\* A row is acknowledged only for a job that is settled for good.
AckedMeansSettled ==
  \A m \in Rows : rowStatus[m] = "completed" =>
    jobStatus[rowJob[m]] \in {"completed", "skipped", "failed"}

\* A dead-lettered job can be replayed: it has a row in the dead letter queue,
\* or a worker is on the way to put it there.
DeadLetterIsReplayable ==
  \A j \in Jobs : jobStatus[j] = "dead_letter" =>
    \/ \E m \in Rows : rowJob[m] = j /\ rowStatus[m] = "dlq"
    \/ \E w \in Workers : /\ pc[w] \in {"acking", "moving"}
                          /\ goal[w] = "dead_letter" /\ JobOf(w) = j

\* The row that carries a job keeps its identity between the main queue and
\* the dead letter queue: there is never a second one.
OneRowPerJob ==
  \A m, n \in Rows : rowJob[m] # NoJob /\ rowJob[m] = rowJob[n] => m = n

\* A job changes status along the table of the consumer, or by its creation
\* or a replay.
LegalChange(s, t) ==
  \/ s = "absent" /\ t \in {"queued", "processing"}
  \/ s = "dead_letter" /\ t = "queued"
  \/ s \in JobStatuses /\ t \in AllowedTransitions[s]

StatusFollowsTable ==
  [][\A j \in Jobs : jobStatus'[j] # jobStatus[j] =>
       LegalChange(jobStatus[j], jobStatus'[j])]_vars

\* observations_created of a completed job is the number of its observations.
CountsEveryObservation ==
  \A j \in Jobs : jobStatus[j] = "completed" => counted[j] = Cardinality(obs[j])

\* Every message that enters the main queue is eventually acknowledged or
\* dead-lettered.
MessagesSettle ==
  \A m \in Rows : InMainQueue(m) ~> rowStatus[m] \in {"completed", "dlq"}

=============================================================================
