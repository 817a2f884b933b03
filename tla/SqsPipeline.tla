---------------------------- MODULE SqsPipeline ----------------------------
(***************************************************************************)
(* The scraping pipeline on the SQS backend: the messages SQS holds in the *)
(* main queue and in the dead letter queue, the workers, the DLQ indexer   *)
(* with its ledger and quarantine, replay of ledger entries, and the API   *)
(* that creates a job beside the outbox.  The outbox itself is present     *)
(* through what it promises (OutboxPromise).                               *)
(*                                                                         *)
(* A cycle is a logical message (logical_message_id); SQS may hold several *)
(* messages of one cycle.  Time is abstracted as in LocalPipeline.         *)
(***************************************************************************)
EXTENDS Naturals, FiniteSets, JobLifecycle

CONSTANTS
  Jobs,         \* identifiers of scraping jobs
  MaxCycles,    \* bound: logical messages ever made
  MaxMessages,  \* bound: messages SQS holds at any one time
  OldMessages,  \* messages in the main queue before the first job
  Workers, Indexers,
  Unreliable,   \* the processes that may be killed or fail to reach SQS
  MaxRetries,   \* worker_settings.MAX_RETRIES
  MaxReceives,  \* maxReceiveCount of the redrive policy
  MaxBatch,     \* messages of one receive of the indexer, entries of one replay
  Outages,      \* TRUE: the publisher may send an event twice, or give it up
  Orderly,      \* TRUE: workers settle within their lease, and nothing comes
                \* between the check of a settlement and its commit
  NoJob, Nobody

ASSUME SqsAssumption ==
  /\ MaxCycles \in Nat /\ MaxMessages \in Nat /\ OldMessages \in 0..MaxMessages
  /\ Unreliable \subseteq Workers \cup Indexers
  /\ Workers \cap Indexers = {}
  /\ MaxRetries \in Nat \ {0} /\ MaxReceives \in Nat \ {0} /\ MaxBatch \in Nat
  /\ Outages \in BOOLEAN /\ Orderly \in BOOLEAN
  /\ NoJob \notin Jobs /\ Nobody \notin Workers \cup Indexers

Cycles == 1..MaxCycles
NoCycle == 0          \* of a body no ScrapingMessage can be parsed from, too
Messages == 1..MaxMessages
NoMessage == 0

Places == {"absent", "main", "dlq"}
LedgerStatuses == {"none", "in_dlq", "replay_pending", "replayed"}

VARIABLES
  job,        \* ScrapingJob.status, "absent" before the INSERT
  started,    \* ScrapingJob.started_at: "unset", "recent" or "old"
  cycle,      \* logical_message_id in ScrapingJob.payload; NoCycle when null
  cycleJob,   \* job_id of each cycle, NoJob before it is made
  source,     \* replayed_from_message_id
  ledger,     \* ScrapingDlqLedger.status of the entry with that id
  quarantined,\* cycles with a row in scraping_quarantine
  fate,       \* of the outbox event of each cycle
  accepted,   \* cycles the publisher has handed to SQS
  place,      \* the queue a message is in
  carries,    \* the cycle in its body
  receives,   \* ApproximateReceiveCount, in the main queue
  visible,    \* not in flight
  holder,     \* the process that received it last
  creating,   \* direct jobs sent to SQS and not yet committed
  pc,         \* of each worker and indexer
  cur,        \* the message at hand
  tries,      \* msg.attempts
  loaded,     \* job.status as read by the session
  goal,       \* target of the pending settlement
  batch       \* messages an indexer has received and not yet processed

jobVars == <<job, started, cycle>>
cycleVars == <<cycleJob, source, ledger, quarantined>>
outboxVars == <<fate, accepted>>
queueVars == <<place, carries, receives, visible, holder>>
localVars == <<pc, cur, tries, loaded, goal, batch>>
vars == <<jobVars, cycleVars, outboxVars, queueVars, creating, localVars>>

Processes == Workers \cup Indexers

\* What the publisher promises of the events (module Outbox implements it).
Outbox == INSTANCE OutboxPromise WITH Events <- Cycles

-----------------------------------------------------------------------------

\* SQS identifiers are not reused while anybody remembers them.
Free(m) ==
  /\ place[m] = "absent"
  /\ \A p \in Processes : cur[p] # m /\ m \notin batch[p]
  /\ \A k \in Messages : k < m => \/ place[k] # "absent"
                                  \/ \E p \in Processes : cur[p] = k \/ k \in batch[p]

Unused(j) == job[j] = "absent" /\ \A c \in Cycles : cycleJob[c] # j

NextCycle(c) == cycleJob[c] = NoJob /\ \A k \in Cycles : k < c => cycleJob[k] # NoJob

Init ==
  /\ job = [j \in Jobs |-> "absent"]
  /\ started = [j \in Jobs |-> "unset"]
  /\ cycle = [j \in Jobs |-> NoCycle]
  /\ cycleJob = [c \in Cycles |-> NoJob]
  /\ source = [c \in Cycles |-> NoCycle]
  /\ ledger = [c \in Cycles |-> "none"]
  /\ quarantined = {}
  /\ Outbox!Init
  /\ place = [m \in Messages |-> IF m <= OldMessages THEN "main" ELSE "absent"]
  /\ carries = [m \in Messages |-> NoCycle]
  /\ receives = [m \in Messages |-> 0]
  /\ visible = [m \in Messages |-> TRUE]
  /\ holder = [m \in Messages |-> Nobody]
  /\ creating = {}
  /\ pc = [p \in Processes |-> "idle"]
  /\ cur = [p \in Processes |-> NoMessage]
  /\ tries = [w \in Workers |-> 0]
  /\ loaded = [p \in Processes |-> "unread"]
  /\ goal = [w \in Workers |-> "none"]
  /\ batch = [p \in Processes |-> {}]

-----------------------------------------------------------------------------
(* Operations of SqsQueue                                                  *)

SendMessage(queue, c) ==
  \E m \in Messages :
    /\ Free(m)
    /\ place' = [place EXCEPT ![m] = queue]
    /\ carries' = [carries EXCEPT ![m] = c]
    /\ receives' = [receives EXCEPT ![m] = 0]
    /\ visible' = [visible EXCEPT ![m] = TRUE]

Delete(m) ==
  /\ place' = [place EXCEPT ![m] = "absent"]
  /\ receives' = [receives EXCEPT ![m] = 0]
  /\ visible' = [visible EXCEPT ![m] = TRUE]
  /\ holder' = [holder EXCEPT ![m] = Nobody]
  /\ UNCHANGED carries

\* DeleteMessage with a handle that is not the latest may delete nothing.
DeleteMessage(p, m) == Delete(m) \/ (holder[m] # p /\ UNCHANGED queueVars)

Release(p) == holder' = [m \in Messages |-> IF holder[m] = p THEN Nobody ELSE holder[m]]

\* A process is back in its loop and has forgotten its receipt handles.
Return(p) ==
  /\ pc' = [pc EXCEPT ![p] = "idle"]
  /\ cur' = [cur EXCEPT ![p] = NoMessage]
  /\ loaded' = [loaded EXCEPT ![p] = "unread"]
  /\ batch' = [batch EXCEPT ![p] = {}]
  /\ tries' = [w \in Workers |-> IF w = p THEN 0 ELSE tries[w]]
  /\ goal' = [w \in Workers |-> IF w = p THEN "none" ELSE goal[w]]

\* The messages at hand stay in flight until their timeout.
Abandon(p) ==
  /\ Return(p)
  /\ Release(p)
  /\ UNCHANGED <<jobVars, cycleVars, outboxVars, place, carries, receives, visible, creating>>

\* The visibility timeout of a message passes.
BecomeVisible(m) ==
  /\ place[m] # "absent" /\ ~visible[m]
  /\ Orderly => holder[m] \notin Workers
  /\ visible' = [visible EXCEPT ![m] = TRUE]
  /\ UNCHANGED <<jobVars, cycleVars, outboxVars, place, carries, receives, holder,
                 creating, localVars>>

\* Redrive policy: what has been received too often goes to the dead letter
\* queue instead of being delivered again.
Redrive(m) ==
  /\ place[m] = "main" /\ visible[m] /\ receives[m] >= MaxReceives
  /\ place' = [place EXCEPT ![m] = "dlq"]
  /\ holder' = [holder EXCEPT ![m] = Nobody]
  /\ UNCHANGED <<jobVars, cycleVars, outboxVars, carries, receives, visible, creating, localVars>>

-----------------------------------------------------------------------------
(* Producers                                                               *)

\* run_once and dispatch_manual: job, payload and event in one transaction
Dispatch(j, c) ==
  /\ Unused(j) /\ NextCycle(c)
  /\ Outbox!Add(c)
  /\ job' = [job EXCEPT ![j] = "queued"]
  /\ cycle' = [cycle EXCEPT ![j] = c]
  /\ cycleJob' = [cycleJob EXCEPT ![c] = j]
  /\ UNCHANGED <<started, source, ledger, quarantined, queueVars, creating, localVars>>

\* create_scraping_job sends the message before its transaction commits.
SendDirect(j, c) ==
  /\ Unused(j) /\ NextCycle(c)
  /\ SendMessage("main", c)
  /\ cycleJob' = [cycleJob EXCEPT ![c] = j]
  /\ creating' = creating \cup {j}
  /\ UNCHANGED <<jobVars, source, ledger, quarantined, outboxVars, holder, localVars>>

CommitDirect(j) ==
  /\ j \in creating /\ job[j] = "absent"
  /\ job' = [job EXCEPT ![j] = "queued"]
  /\ creating' = creating \ {j}
  /\ UNCHANGED <<started, cycle, cycleVars, outboxVars, queueVars, localVars>>

\* The commit fails: a worker has reconciled the job, or the database is lost.
RollbackDirect(j) ==
  /\ j \in creating
  /\ creating' = creating \ {j}
  /\ UNCHANGED <<jobVars, cycleVars, outboxVars, queueVars, localVars>>

\* The job is locked until the end of the transaction.
Replay(l, c) ==
  LET j == cycleJob[l] IN
  /\ ledger[l] = "in_dlq" /\ NextCycle(c)
  /\ job[j] = "dead_letter"
  /\ Outbox!Add(c)
  /\ cycleJob' = [cycleJob EXCEPT ![c] = j]
  /\ source' = [source EXCEPT ![c] = l]
  /\ job' = [job EXCEPT ![j] = "queued"]
  /\ started' = [started EXCEPT ![j] = "unset"]
  /\ cycle' = [cycle EXCEPT ![j] = c]
  /\ ledger' = [ledger EXCEPT ![l] = "replay_pending"]
  /\ UNCHANGED <<quarantined, queueVars, creating, localVars>>

-----------------------------------------------------------------------------
(* The publisher                                                           *)

\* not for the first time, when an earlier response was lost
Publish(c) ==
  /\ Outbox!Accept({c}) /\ c \in Outbox!Due
  /\ c \in accepted => Outages
  /\ SendMessage("main", c)
  /\ UNCHANGED <<jobVars, cycleVars, holder, creating, localVars>>

Settled(c, s) ==
  IF source[c] # NoCycle /\ ledger[source[c]] = "replay_pending"
  THEN [ledger EXCEPT ![source[c]] = s] ELSE ledger

SettlePublished(c) ==
  /\ fate[c] = "due"
  /\ Outbox!Settle({c}, {})
  /\ ledger' = Settled(c, "replayed")
  /\ UNCHANGED <<jobVars, cycleJob, source, quarantined, queueVars, creating, localVars>>

GiveUp(c) ==
  LET j == cycleJob[c] IN
  /\ Outages /\ fate[c] = "due"
  /\ Outbox!Settle({}, {c})
  /\ ledger' = Settled(c, "in_dlq")
  /\ job' = IF job[j] # "queued" THEN job
            ELSE [job EXCEPT ![j] = IF source[c] = NoCycle THEN "failed" ELSE "dead_letter"]
  /\ UNCHANGED <<started, cycle, cycleJob, source, quarantined, queueVars, creating, localVars>>

-----------------------------------------------------------------------------
(* The worker: process_next_message                                        *)

CycleOf(p) == carries[cur[p]]
JobOf(p) == IF CycleOf(p) = NoCycle THEN NoJob ELSE cycleJob[CycleOf(p)]

Receive(w, m) ==
  /\ pc[w] = "idle" /\ place[m] = "main" /\ visible[m] /\ receives[m] < MaxReceives
  /\ receives' = [receives EXCEPT ![m] = @ + 1]
  /\ visible' = [visible EXCEPT ![m] = FALSE]
  /\ holder' = [holder EXCEPT ![m] = w]
  /\ pc' = [pc EXCEPT ![w] = "begin"]
  /\ cur' = [cur EXCEPT ![w] = m]
  /\ tries' = [tries EXCEPT ![w] = receives[m] + 1]
  /\ UNCHANGED <<jobVars, cycleVars, outboxVars, place, carries, creating, loaded, goal, batch>>

\* send_to_dlq without a source_queue: a new message, the received one stays.
SendToDlq(w) ==
  /\ SendMessage("dlq", CycleOf(w))
  /\ Return(w)
  /\ Release(w)
  /\ UNCHANGED <<jobVars, cycleVars, outboxVars, creating>>

RejectMessage(w) ==
  /\ pc[w] = "begin" /\ CycleOf(w) = NoCycle
  /\ SendToDlq(w)

MissJob(w) ==
  /\ pc[w] = "begin" /\ JobOf(w) # NoJob /\ job[JobOf(w)] = "absent"
  /\ pc' = [pc EXCEPT ![w] = "reconciling"]
  /\ UNCHANGED <<jobVars, cycleVars, outboxVars, queueVars, creating,
                 cur, tries, loaded, goal, batch>>

Reconcile(w) ==
  LET j == JobOf(w) IN
  /\ pc[w] = "reconciling" /\ job[j] = "absent"
  /\ job' = [job EXCEPT ![j] = "processing"]
  /\ started' = [started EXCEPT ![j] = "recent"]
  /\ cycle' = [cycle EXCEPT ![j] = CycleOf(w)]
  /\ pc' = [pc EXCEPT ![w] = "scraping"]
  /\ loaded' = [loaded EXCEPT ![w] = "processing"]
  /\ UNCHANGED <<cycleVars, outboxVars, queueVars, creating, cur, tries, goal, batch>>

LoseReconcileRace(w) ==
  /\ pc[w] = "reconciling" /\ job[JobOf(w)] # "absent"
  /\ Abandon(w)

\* Mutant: a job in retrying counts as settled.
AlreadyTerminalOrRetrying(j) == job[j] \in {"completed", "skipped", "retrying"}

AlreadyTerminal(j) == job[j] \in {"completed", "skipped"}

AckTerminalJob(w) ==
  /\ pc[w] = "begin" /\ JobOf(w) # NoJob /\ AlreadyTerminal(JobOf(w))
  /\ DeleteMessage(w, cur[w])
  /\ Return(w)
  /\ UNCHANGED <<jobVars, cycleVars, outboxVars, creating>>

ActivelyProcessed(j) == job[j] = "processing" /\ started[j] = "recent"

SkipConcurrent(w) ==
  /\ pc[w] = "begin" /\ JobOf(w) # NoJob /\ ActivelyProcessed(JobOf(w))
  /\ Abandon(w)

Startable(j) ==
  /\ job[j] \in JobStatuses
  /\ ~AlreadyTerminal(j) /\ ~ActivelyProcessed(j)

\* The cycle of the message is not compared with the one in the payload.
StartJob(w) ==
  LET j == JobOf(w) IN
  /\ pc[w] = "begin" /\ j # NoJob /\ Startable(j)
  /\ "processing" \in AllowedTransitions[job[j]]
  /\ job' = [job EXCEPT ![j] = "processing"]
  /\ started' = [started EXCEPT ![j] = IF @ = "unset" THEN "recent" ELSE @]
  /\ cycle' = [cycle EXCEPT ![j] = IF @ = NoCycle THEN CycleOf(w) ELSE @]
  /\ pc' = [pc EXCEPT ![w] = "scraping"]
  /\ UNCHANGED <<cycleVars, outboxVars, queueVars, creating, cur, tries, loaded, goal, batch>>

RefuseStart(w) ==
  LET j == JobOf(w) IN
  /\ pc[w] = "begin" /\ j # NoJob /\ Startable(j)
  /\ "processing" \notin AllowedTransitions[job[j]]
  /\ Abandon(w)

\* What process_job can end with: its exception classes, and what the
\* attempts make of a transient error.
Outcomes(n) == IF n < MaxRetries THEN Goals ELSE Goals \ {"retrying"}

\* Sessions re-read the job after a commit, which process_job may not reach.
Decide(w) ==
  LET j == JobOf(w) IN
  /\ pc[w] = "scraping"
  /\ \E s \in {job[j], loaded[w]} \cap JobStatuses, g \in Outcomes(tries[w]) :
       IF g \in AllowedTransitions[s]
       THEN /\ goal' = [goal EXCEPT ![w] = g]
            /\ pc' = [pc EXCEPT ![w] = "writing"]
            /\ UNCHANGED <<jobVars, cycleVars, outboxVars, queueVars, creating,
                           cur, tries, loaded, batch>>
       ELSE Abandon(w)

Write(w) ==
  /\ pc[w] = "writing"
  /\ job' = [job EXCEPT ![JobOf(w)] = goal[w]]
  /\ pc' = [pc EXCEPT ![w] = "telling"]
  /\ UNCHANGED <<started, cycle, cycleVars, outboxVars, queueVars, creating,
                 cur, tries, loaded, goal, batch>>

AckSettled(w) ==
  /\ pc[w] = "telling" /\ goal[w] \in {"completed", "skipped", "failed"}
  /\ DeleteMessage(w, cur[w])
  /\ Return(w)
  /\ UNCHANGED <<jobVars, cycleVars, outboxVars, creating>>

\* change_message_visibility: the message stays in flight for the backoff
ScheduleRetry(w) ==
  /\ pc[w] = "telling" /\ goal[w] = "retrying"
  /\ Abandon(w)

DeadLetter(w) ==
  /\ pc[w] = "telling" /\ goal[w] = "dead_letter"
  /\ SendToDlq(w)

-----------------------------------------------------------------------------
(* The indexer: process_cycle                                              *)

ReceiveDeadLetters(i, S) ==
  /\ pc[i] = "idle" /\ S # {} /\ Cardinality(S) <= MaxBatch
  /\ \A m \in S : place[m] = "dlq" /\ visible[m]
  /\ visible' = [m \in Messages |-> visible[m] /\ m \notin S]
  /\ holder' = [m \in Messages |-> IF m \in S THEN i ELSE holder[m]]
  /\ batch' = [batch EXCEPT ![i] = S]
  /\ pc' = [pc EXCEPT ![i] = "next"]
  /\ UNCHANGED <<jobVars, cycleVars, outboxVars, place, carries, receives, creating,
                 cur, tries, loaded, goal>>

Take(i, m, where) ==
  /\ pc[i] = "next" /\ m \in batch[i]
  /\ cur' = [cur EXCEPT ![i] = m]
  /\ batch' = [batch EXCEPT ![i] = @ \ {m}]
  /\ pc' = [pc EXCEPT ![i] = where]
  /\ UNCHANGED <<jobVars, cycleJob, source, ledger, outboxVars, queueVars, creating, tries, goal>>

\* Mutant: a redelivered dead letter is not recognised.
KnownNever(c) == c \notin Cycles

\* The ledger has an entry of this cycle: what is left is the delete.
Known(c) == ledger[c] # "none"

\* A body without a valid message, or a message without its job.
Unusable(c) ==
  IF c = NoCycle THEN TRUE ELSE ~Known(c) /\ job[cycleJob[c]] = "absent"

\* Mutant: no row is kept of a body that has no id.
QuarantineIdentified(i, m) ==
  /\ Take(i, m, "deleting")
  /\ Unusable(carries[m])
  /\ quarantined' = quarantined \cup ({carries[m]} \ {NoCycle})
  /\ UNCHANGED loaded

Quarantine(i, m) ==
  /\ Take(i, m, "deleting")
  /\ Unusable(carries[m])
  /\ quarantined' = quarantined \cup {carries[m]}
  /\ UNCHANGED loaded

\* Mutant: a message of an earlier cycle is obsolete, whatever the job does.
ObsoleteAlways(c) ==
  LET j == cycleJob[c] IN
  \/ job[j] \in {"completed", "skipped"}
  \/ job[j] \in JobStatuses

Obsolete(c) ==
  LET j == cycleJob[c] IN
  \/ job[j] \in {"completed", "skipped"}
  \/ /\ job[j] \in {"queued", "processing"}
     /\ cycle[j] \notin {NoCycle, c}

DropKnown(i, m) ==
  /\ Take(i, m, "deleting")
  /\ ~Unusable(carries[m])
  /\ Known(carries[m]) \/ Obsolete(carries[m])
  /\ UNCHANGED <<quarantined, loaded>>

Inspect(i, m) ==
  /\ Take(i, m, "indexing")
  /\ ~Unusable(carries[m]) /\ ~Known(carries[m]) /\ ~Obsolete(carries[m])
  /\ loaded' = [loaded EXCEPT ![i] = job[cycleJob[carries[m]]]]
  /\ UNCHANGED quarantined

\* The status read was dead_letter already: the UPDATE leaves it out.
Index(i) ==
  LET c == CycleOf(i) IN
  /\ pc[i] = "indexing" /\ ledger[c] = "none"
  /\ ledger' = [ledger EXCEPT ![c] = "in_dlq"]
  /\ job' = [job EXCEPT ![cycleJob[c]] = IF loaded[i] = "dead_letter" THEN @ ELSE "dead_letter"]
  /\ pc' = [pc EXCEPT ![i] = "deleting"]
  /\ UNCHANGED <<started, cycle, cycleJob, source, quarantined, outboxVars, queueVars,
                 creating, cur, tries, loaded, goal, batch>>

\* The entry exists by now: the exception leaves process_cycle.
LoseIndexRace(i) ==
  /\ pc[i] = "indexing" /\ ledger[CycleOf(i)] # "none"
  /\ Abandon(i)

\* A failure to delete is logged, and the loop goes on.
DeleteDeadLetter(i) ==
  /\ pc[i] = "deleting"
  /\ \/ DeleteMessage(i, cur[i])
     \/ /\ i \in Unreliable
        /\ holder' = [holder EXCEPT ![cur[i]] = IF @ = i THEN Nobody ELSE @]
        /\ UNCHANGED <<place, carries, receives, visible>>
  /\ pc' = [pc EXCEPT ![i] = IF batch[i] = {} THEN "idle" ELSE "next"]
  /\ cur' = [cur EXCEPT ![i] = NoMessage]
  /\ loaded' = [loaded EXCEPT ![i] = "unread"]
  /\ UNCHANGED <<jobVars, cycleVars, outboxVars, creating, tries, goal, batch>>

-----------------------------------------------------------------------------
(* Faults and time                                                         *)

\* Killed, or a call of SQS or of the database fails: what is committed stays,
\* what was received comes back.
Crash(p) ==
  /\ p \in Unreliable /\ pc[p] # "idle"
  /\ Abandon(p)

GrowOld(j) ==
  /\ started[j] = "recent"
  /\ started' = [started EXCEPT ![j] = "old"]
  /\ UNCHANGED <<job, cycle, cycleVars, outboxVars, queueVars, creating, localVars>>

\* polling empty queues
PollNothing(p) == pc[p] = "idle" /\ UNCHANGED vars

-----------------------------------------------------------------------------

Worker(w) ==
  \/ \E m \in Messages : Receive(w, m)
  \/ RejectMessage(w) \/ MissJob(w) \/ Reconcile(w) \/ LoseReconcileRace(w)
  \/ AckTerminalJob(w) \/ SkipConcurrent(w) \/ StartJob(w) \/ RefuseStart(w)
  \/ Decide(w) \/ Write(w) \/ AckSettled(w) \/ ScheduleRetry(w) \/ DeadLetter(w)

Indexer(i) ==
  \/ \E S \in SUBSET Messages : ReceiveDeadLetters(i, S)
  \/ \E m \in Messages : Quarantine(i, m) \/ DropKnown(i, m) \/ Inspect(i, m)
  \/ Index(i) \/ LoseIndexRace(i) \/ DeleteDeadLetter(i)

Run(p) == (p \in Workers /\ Worker(p)) \/ (p \in Indexers /\ Indexer(p))

Producers ==
  \/ \E j \in Jobs, c \in Cycles : Dispatch(j, c) \/ SendDirect(j, c)
  \/ \E j \in Jobs : CommitDirect(j) \/ RollbackDirect(j)
  \/ \E l, c \in Cycles : Replay(l, c)

Publisher == \E c \in Cycles : Publish(c) \/ SettlePublished(c) \/ GiveUp(c)

Time ==
  \/ \E m \in Messages : BecomeVisible(m) \/ Redrive(m)
  \/ \E j \in Jobs : GrowOld(j)

\* A settlement that has been checked is about to be committed.
Critical(p) == pc[p] = "writing"

Uninterrupted(S) == Orderly => \A q \in S : ~Critical(q)

Next ==
  \/ \E p \in Processes :
       Uninterrupted(Processes \ {p}) /\ (Run(p) \/ Crash(p) \/ PollNothing(p))
  \/ /\ Uninterrupted(Processes)
     /\ Producers \/ Publisher \/ Time

Spec == Init /\ [][Next]_vars

\* The system as a whole goes on while it has anything to do: some loop takes
\* a step or time passes.  Workers may be killed at every message.
FairSpec ==
  /\ Spec
  /\ WF_vars(\/ \E p \in Processes : Uninterrupted(Processes \ {p}) /\ Run(p)
             \/ /\ Uninterrupted(Processes)
                /\ Time \/ \E c \in Cycles : Publish(c) \/ SettlePublished(c))

-----------------------------------------------------------------------------
(* Properties                                                              *)

JobTypeOK ==
  /\ job \in [Jobs -> JobStatuses \cup {"absent"}]
  /\ started \in [Jobs -> {"unset", "recent", "old"}]
  /\ cycle \in [Jobs -> Cycles \cup {NoCycle}]
  /\ creating \subseteq Jobs

CycleTypeOK ==
  /\ cycleJob \in [Cycles -> Jobs \cup {NoJob}]
  /\ source \in [Cycles -> Cycles \cup {NoCycle}]
  /\ ledger \in [Cycles -> LedgerStatuses]
  /\ quarantined \subseteq Cycles \cup {NoCycle}
  /\ fate \in [Cycles -> {"none", "due", "published", "given_up"}]
  /\ accepted \subseteq Cycles

QueueTypeOK ==
  /\ place \in [Messages -> Places]
  /\ carries \in [Messages -> Cycles \cup {NoCycle}]
  /\ receives \in [Messages -> 0..MaxReceives]
  /\ visible \in [Messages -> BOOLEAN]
  /\ holder \in [Messages -> Processes \cup {Nobody}]

LocalTypeOK ==
  /\ pc \in [Processes -> {"idle", "begin", "reconciling", "scraping", "writing", "telling",
                         "next", "indexing", "deleting"}]
  /\ cur \in [Processes -> Messages \cup {NoMessage}]
  /\ tries \in [Workers -> 0..MaxReceives]
  /\ loaded \in [Processes -> JobStatuses \cup {"unread"}]
  /\ goal \in [Workers -> Goals \cup {"none"}]
  /\ batch \in [Processes -> SUBSET Messages]

\* Every variable has its type.
TypeOK == JobTypeOK /\ CycleTypeOK /\ QueueTypeOK /\ LocalTypeOK

InSqs(c) == \E m \in Messages : place[m] # "absent" /\ carries[m] = c

CurrentCycle(j) ==
  IF cycle[j] # NoCycle THEN cycle[j] ELSE CHOOSE c \in Cycles : cycleJob[c] = j

\* list_dlq_messages: the entries of the ledger, and the flag "replayable" of each.
Listed(c) == ledger[c] \in {"in_dlq", "replay_pending"}
ListedReplayable(c) ==
  Listed(c) /\ job[cycleJob[c]] = "dead_letter" /\ ledger[c] = "in_dlq"

Replayable(j) == \E c \in Cycles : cycleJob[c] = j /\ ListedReplayable(c)

\* The event of the cycle has not reached SQS, or the publisher gave it up before
\* it did.
Unsent(c) == fate[c] \in {"due", "given_up"} /\ c \notin accepted

\* No job is forgotten: unless it is settled for good or can be replayed, the
\* message of its current cycle is still unsent, in SQS or in quarantine.
NoJobForgotten ==
  \A j \in Jobs : job[j] \in {"queued", "processing", "retrying", "dead_letter"} =>
    LET c == CurrentCycle(j) IN
    Unsent(c) \/ InSqs(c) \/ c \in quarantined \/ Replayable(j)

\* An entry of the list can be replayed or waits for a replay that was asked
\* for: none is stuck with a job that is not dead_letter.
InDlqIsReplayable ==
  \A c \in Cycles : Listed(c) /\ ledger[c] # "replay_pending" => ListedReplayable(c)

\* A body that is no ScrapingMessage ends up in quarantine, never nowhere.
MalformedIsKept == OldMessages > 0 => InSqs(NoCycle) \/ NoCycle \in quarantined

\* Every job is eventually settled for good or ready to be replayed, even when
\* each worker that receives it is killed.
JobsEnd ==
  \A j \in Jobs : job[j] # "absent" ~>
    job[j] \in {"completed", "skipped", "failed"} \/ Replayable(j)
      \/ \E c \in quarantined \ {NoCycle} : cycleJob[c] = j

\* Every message eventually leaves SQS.
MessagesDrain == \A m \in Messages : place[m] # "absent" ~> place[m] = "absent"
=============================================================================
