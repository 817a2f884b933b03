------------------------------- MODULE Outbox -------------------------------
(***************************************************************************)
(* The transactional outbox of the SQS backend: scraping_outbox events,    *)
(* the publishers that claim, send and finalize them in three phases, and  *)
(* what an exhausted event does to its job and to the DLQ ledger entry it  *)
(* replays.                                                                *)
(*                                                                         *)
(* The identity of an event stands for the logical message it carries, so  *)
(* the ledger entry of a dead-lettered message has the same identity.      *)
(* Finalizing reads its rows without locks and writes them when it         *)
(* commits: two actions, Inspect and Commit.                               *)
(***************************************************************************)
EXTENDS Naturals, FiniteSets, JobLifecycle

CONSTANTS
  Jobs,             \* identifiers of scraping jobs
  MaxEvents,        \* bound: rows scraping_outbox can hold
  Publishers,       \* publisher processes, each with its publisher_id
  Mortal,           \* the publishers that may be killed and restarted
  BatchSize,        \* OUTBOX_BATCH_SIZE
  MaxAttempts,      \* OUTBOX_MAX_ATTEMPTS
  MaxCopies,        \* counting the messages SQS accepted of an event stops here
  LostResponses,    \* TRUE: SQS may accept a message and not confirm it
  PromptPublishers, \* TRUE: a live publisher finalizes before its lease expires
  Nobody, NoJob

ASSUME OutboxAssumption ==
  /\ MaxEvents \in Nat
  /\ Mortal \subseteq Publishers
  /\ BatchSize \in Nat /\ BatchSize >= 1
  /\ MaxAttempts \in Nat /\ MaxAttempts >= 1
  /\ MaxCopies \in Nat /\ MaxCopies >= 1
  /\ LostResponses \in BOOLEAN /\ PromptPublishers \in BOOLEAN
  /\ Nobody \notin Publishers /\ NoJob \notin Jobs

\* outbox ids, in the order claims go through them
Events == 1..MaxEvents
NoEvent == 0

EventStatuses == {"pending", "publishing", "published", "failed", "exhausted"}
LedgerStatuses == {"in_dlq", "replay_pending", "replayed"}

VARIABLES
  job,       \* ScrapingJob.status, "absent" before the INSERT
  cycle,     \* the event named by ScrapingJob.payload (logical_message_id)
  status,    \* ScrapingOutbox.status
  evJob,     \* ScrapingOutbox.aggregate_id
  source,    \* source_ledger_id; NoEvent for event_type 'initial_dispatch'
  attempts,  \* ScrapingOutbox.attempts
  ready,     \* available_at <= now()
  owner,     \* locked_by
  leased,    \* lease_until > now()
  ledger,    \* ScrapingDlqLedger.status of the dead letter of each event
  copies,    \* messages SQS has accepted of each event
  pc,        \* where a publisher stands in process_cycle
  batch,     \* claimed_items
  reported,  \* the items of the batch SQS reported as Successful
  seen       \* the rows finalize_batch has read

jobVars == <<job, cycle, ledger>>
eventVars == <<status, evJob, source, attempts, ready, owner, leased>>
localVars == <<pc, batch, reported, seen>>
vars == <<jobVars, eventVars, copies, localVars>>

-----------------------------------------------------------------------------

Unsettled(e) == status[e] \in {"pending", "failed", "publishing"}

\* the first events of S in the order of their ids
FirstOf(S, n) == {e \in S : Cardinality({k \in S : k < e}) < n}

Lowest(S) == CHOOSE e \in S : \A k \in S : e <= k

NothingSeen == [owned |-> {}, tries |-> [e \in Events |-> 0],
                queued |-> {}, pending |-> {}]

Init ==
  /\ job = [j \in Jobs |-> "absent"]
  /\ cycle = [j \in Jobs |-> NoEvent]
  /\ status = [e \in Events |-> "absent"]
  /\ evJob = [e \in Events |-> NoJob]
  /\ source = [e \in Events |-> NoEvent]
  /\ attempts = [e \in Events |-> 0]
  /\ ready = [e \in Events |-> TRUE]
  /\ owner = [e \in Events |-> Nobody]
  /\ leased = [e \in Events |-> FALSE]
  /\ ledger = [e \in Events |-> "none"]
  /\ copies = [e \in Events |-> 0]
  /\ pc = [p \in Publishers |-> "idle"]
  /\ batch = [p \in Publishers |-> {}]
  /\ reported = [p \in Publishers |-> {}]
  /\ seen = [p \in Publishers |-> NothingSeen]

-----------------------------------------------------------------------------
(* Producers: each writes the job and its event in one transaction         *)

Enqueue(j, e, l) ==
  /\ status[e] = "absent"
  /\ status' = [status EXCEPT ![e] = "pending"]
  /\ evJob' = [evJob EXCEPT ![e] = j]
  /\ source' = [source EXCEPT ![e] = l]
  /\ job' = [job EXCEPT ![j] = "queued"]
  /\ cycle' = [cycle EXCEPT ![j] = e]
  /\ UNCHANGED <<attempts, ready, owner, leased, copies, localVars>>

\* run_once and dispatch_manual
Dispatch(j, e) ==
  /\ job[j] = "absent"
  /\ Enqueue(j, e, NoEvent)
  /\ UNCHANGED ledger

\* replay_dlq_messages; the entries of one request are of different jobs
Replay(l, e) ==
  /\ ledger[l] = "in_dlq" /\ job[evJob[l]] = "dead_letter"
  /\ Enqueue(evJob[l], e, l)
  /\ ledger' = [ledger EXCEPT ![l] = "replay_pending"]

-----------------------------------------------------------------------------
(* process_cycle of a publisher                                            *)

\* Mutant: a claim ignores the lease of the publisher at work.
ClaimableIgnoresLease ==
  {e \in Events :
     \/ status[e] \in {"pending", "failed"} /\ ready[e] /\ attempts[e] < MaxAttempts
     \/ status[e] = "publishing"}

Claimable ==
  {e \in Events :
     \/ status[e] \in {"pending", "failed"} /\ ready[e] /\ attempts[e] < MaxAttempts
     \/ status[e] = "publishing" /\ ~leased[e]}

\* FOR UPDATE SKIP LOCKED makes concurrent claims take disjoint rows.
Claim(p) ==
  LET S == FirstOf(Claimable, BatchSize) IN
  /\ pc[p] = "idle" /\ Claimable # {}
  /\ status' = [e \in Events |-> IF e \in S THEN "publishing" ELSE status[e]]
  /\ owner' = [e \in Events |-> IF e \in S THEN p ELSE owner[e]]
  /\ leased' = [e \in Events |-> e \in S \/ leased[e]]
  /\ batch' = [batch EXCEPT ![p] = S]
  /\ pc' = [pc EXCEPT ![p] = "sending"]
  /\ UNCHANGED <<jobVars, evJob, source, attempts, ready, copies, reported, seen>>

\* send_message_batch: SQS accepts some items and confirms them, unless the
\* response is lost (publish_batch then reports every item as failed) or
\* incomplete (finalize_batch finds the item missing).
Publish(p) ==
  /\ pc[p] = "sending"
  /\ \E A \in SUBSET batch[p] : \E R \in SUBSET A :
       /\ ~LostResponses => R = A
       /\ copies' = [e \in Events |-> IF e \in A /\ copies[e] < MaxCopies
                                      THEN copies[e] + 1 ELSE copies[e]]
       /\ reported' = [reported EXCEPT ![p] = R]
  /\ pc' = [pc EXCEPT ![p] = "finalizing"]
  /\ UNCHANGED <<jobVars, eventVars, batch, seen>>

\* The unlocked reads of finalize_batch, taken at one instant.  Rows whose
\* lease another publisher took are left out.
Inspect(p) ==
  /\ pc[p] = "finalizing"
  /\ seen' = [seen EXCEPT ![p] =
       [owned   |-> {e \in batch[p] : status[e] = "publishing" /\ owner[e] = p},
        tries   |-> attempts,
        queued  |-> {j \in Jobs : job[j] = "queued"},
        pending |-> {e \in Events : ledger[e] = "replay_pending"}]]
  /\ pc' = [pc EXCEPT ![p] = "committing"]
  /\ UNCHANGED <<jobVars, eventVars, copies, batch, reported>>

\* Mutants: an item missing from the response counts as sent; one attempt too
\* many is waited for.
SucceededUnlessRefused(p) == seen[p].owned \cap batch[p]
ExhaustedLate(p) ==
  {e \in seen[p].owned \ reported[p] : seen[p].tries[e] + 1 > MaxAttempts}

Succeeded(p) == seen[p].owned \cap reported[p]
Failed(p) == seen[p].owned \ reported[p]
Exhausted(p) == {e \in Failed(p) : seen[p].tries[e] + 1 >= MaxAttempts}

\* Mutants: the ledger entry gets the status of the event; is left pending when
\* its replay is given up; counts as replayed all the same.
NewLedgerPublished(p, l) ==
  LET S == {e \in Succeeded(p) \cup Exhausted(p) : source[e] = l} IN
  IF l \notin seen[p].pending \/ S = {} THEN ledger[l]
  ELSE IF Lowest(S) \in reported[p] THEN "published" ELSE "in_dlq"
NewLedgerForgets(p, l) ==
  LET S == {e \in Succeeded(p) : source[e] = l} IN
  IF l \notin seen[p].pending \/ S = {} THEN ledger[l] ELSE "replayed"
NewLedgerAlwaysReplayed(p, l) ==
  LET S == {e \in Succeeded(p) \cup Exhausted(p) : source[e] = l} IN
  IF l \notin seen[p].pending \/ S = {} THEN ledger[l] ELSE "replayed"

\* The first item of the batch that settles a row of another table decides.
NewLedger(p, l) ==
  LET S == {e \in Succeeded(p) \cup Exhausted(p) : source[e] = l} IN
  IF l \notin seen[p].pending \/ S = {} THEN ledger[l]
  ELSE IF Lowest(S) \in reported[p] THEN "replayed" ELSE "in_dlq"

\* Mutant: only a replay compensates its job.
NewJobOfReplays(p, j) ==
  LET S == {e \in Exhausted(p) : evJob[e] = j /\ source[e] # NoEvent} IN
  IF j \notin seen[p].queued \/ S = {} THEN job[j] ELSE "dead_letter"

NewJob(p, j) ==
  LET S == {e \in Exhausted(p) : evJob[e] = j} IN
  IF j \notin seen[p].queued \/ S = {} THEN job[j]
  ELSE IF source[Lowest(S)] = NoEvent THEN "failed" ELSE "dead_letter"

Return(p) ==
  /\ pc' = [pc EXCEPT ![p] = "idle"]
  /\ batch' = [batch EXCEPT ![p] = {}]
  /\ reported' = [reported EXCEPT ![p] = {}]
  /\ seen' = [seen EXCEPT ![p] = NothingSeen]

Commit(p) ==
  /\ pc[p] = "committing"
  /\ status' = [e \in Events |->
       CASE e \in Succeeded(p) -> "published"
         [] e \in Exhausted(p) -> "exhausted"
         [] e \in Failed(p) \ Exhausted(p) -> "failed"
         [] OTHER -> status[e]]
  /\ attempts' = [e \in Events |-> IF e \in Failed(p) THEN seen[p].tries[e] + 1
                                                     ELSE attempts[e]]
  /\ owner' = [e \in Events |-> IF e \in seen[p].owned THEN Nobody ELSE owner[e]]
  /\ leased' = [e \in Events |-> leased[e] /\ e \notin seen[p].owned]
  /\ ready' = [e \in Events |-> ready[e] /\ e \notin Failed(p) \ Exhausted(p)]
  /\ ledger' = [l \in Events |-> NewLedger(p, l)]
  /\ job' = [j \in Jobs |-> NewJob(p, j)]
  /\ Return(p)
  /\ UNCHANGED <<cycle, evJob, source, copies>>

\* Killed, or an exception of the database: the claim stays until its lease ends.
Crash(p) ==
  /\ p \in Mortal /\ pc[p] # "idle"
  /\ Return(p)
  /\ UNCHANGED <<jobVars, eventVars, copies>>

\* polling an empty outbox
PollNothing(p) == pc[p] = "idle" /\ Claimable = {} /\ UNCHANGED vars

-----------------------------------------------------------------------------
(* Time, and what consumers and the DLQ indexer do to jobs meanwhile       *)

LeaseExpires(e) ==
  /\ status[e] = "publishing" /\ leased[e]
  /\ PromptPublishers => \A p \in Publishers : e \notin batch[p]
  /\ leased' = [leased EXCEPT ![e] = FALSE]
  /\ UNCHANGED <<jobVars, status, evJob, source, attempts, ready, owner, copies, localVars>>

BackoffEnds(e) ==
  /\ ~ready[e]
  /\ ready' = [ready EXCEPT ![e] = TRUE]
  /\ UNCHANGED <<jobVars, status, evJob, source, attempts, owner, leased, copies, localVars>>

\* A consumer that received any message of the job moves it along its table.
Consume(j) ==
  /\ \E e \in Events : evJob[e] = j /\ copies[e] > 0
  /\ job[j] \in JobStatuses
  /\ \E t \in AllowedTransitions[job[j]] : job' = [job EXCEPT ![j] = t]
  /\ UNCHANGED <<cycle, ledger, eventVars, copies, localVars>>

\* The indexer finds a message of the event in the dead letter queue.
Index(e) ==
  LET j == evJob[e] IN
  /\ copies[e] > 0 /\ ledger[e] = "none"
  /\ job[j] \notin {"completed", "skipped"}
  /\ cycle[j] = e \/ job[j] \notin {"queued", "processing"}
  /\ ledger' = [ledger EXCEPT ![e] = "in_dlq"]
  /\ job' = [job EXCEPT ![j] = "dead_letter"]
  /\ UNCHANGED <<cycle, eventVars, copies, localVars>>

-----------------------------------------------------------------------------

Cycle(p) == Claim(p) \/ Publish(p) \/ Inspect(p) \/ Commit(p)

Next ==
  \/ \E j \in Jobs, e \in Events : Dispatch(j, e)
  \/ \E l, e \in Events : Replay(l, e)
  \/ \E p \in Publishers : Cycle(p) \/ Crash(p) \/ PollNothing(p)
  \/ \E e \in Events : LeaseExpires(e) \/ BackoffEnds(e) \/ Index(e)
  \/ \E j \in Jobs : Consume(j)

Spec == Init /\ [][Next]_vars

\* The publisher loop keeps running, and time passes.
FairSpec ==
  /\ Spec
  /\ \A p \in Publishers : WF_vars(Cycle(p))
  /\ \A e \in Events : WF_vars(LeaseExpires(e)) /\ WF_vars(BackoffEnds(e))

-----------------------------------------------------------------------------
(* Properties                                                              *)

\* Every variable has its type.
TypeOK ==
  /\ job \in [Jobs -> JobStatuses \cup {"absent"}]
  /\ cycle \in [Jobs -> Events \cup {NoEvent}]
  /\ status \in [Events -> EventStatuses \cup {"absent"}]
  /\ evJob \in [Events -> Jobs \cup {NoJob}]
  /\ source \in [Events -> Events \cup {NoEvent}]
  /\ attempts \in [Events -> 0..MaxAttempts]
  /\ ready \in [Events -> BOOLEAN]
  /\ owner \in [Events -> Publishers \cup {Nobody}]
  /\ leased \in [Events -> BOOLEAN]
  /\ ledger \in [Events -> LedgerStatuses \cup {"none"}]
  /\ copies \in [Events -> 0..MaxCopies]
  /\ pc \in [Publishers -> {"idle", "sending", "finalizing", "committing"}]
  /\ batch \in [Publishers -> SUBSET Events]
  /\ reported \in [Publishers -> SUBSET Events]
  /\ seen \in [Publishers -> [owned : SUBSET Events, tries : [Events -> 0..MaxAttempts],
                              queued : SUBSET Jobs, pending : SUBSET Events]]

\* A queued job is never forgotten: the event of its current cycle is still to
\* be settled, or SQS has a message of it.
QueuedIsDue ==
  \A j \in Jobs : job[j] = "queued" => Unsettled(cycle[j]) \/ copies[cycle[j]] > 0

\* A dead-lettered job can be replayed, now or later: a ledger entry of it is
\* in_dlq, or a message of its current cycle is or will be on its way to the
\* dead letter queue.
DeadLetterIsRecoverable ==
  \A j \in Jobs : job[j] = "dead_letter" =>
    \/ Unsettled(cycle[j]) \/ copies[cycle[j]] > 0
    \/ \E l \in Events : evJob[l] = j /\ ledger[l] = "in_dlq"

\* A ledger entry that waits for its replay has an event that will settle it.
PendingReplayHasEvent ==
  \A l \in Events : ledger[l] = "replay_pending" =>
    \E e \in Events : source[e] = l /\ Unsettled(e)

\* What is published or exhausted stays so: a publisher that lost its lease
\* does not overwrite what another one wrote.
SettledIsFinal ==
  [][\A e \in Events : status[e] \in {"published", "exhausted"} =>
       status'[e] = status[e]]_vars

\* Every event is eventually published or given up.
EventsSettle ==
  \A e \in Events : status[e] = "pending" ~> status[e] \in {"published", "exhausted"}

\* The outbox keeps its promise.
Fate(e) ==
  CASE status[e] = "absent" -> "none"
    [] status[e] = "published" -> "published"
    [] status[e] = "exhausted" -> "given_up"
    [] OTHER -> "due"

Promise == INSTANCE OutboxPromise WITH
  fate <- [e \in Events |-> Fate(e)],
  accepted <- {e \in Events : copies[e] > 0}

\* Publishing in three phases with leases implements the promise.
KeepsPromise == Promise!Spec

=============================================================================
