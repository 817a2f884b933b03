------------------------- MODULE SqsPipeline_proofs -------------------------
(***************************************************************************)
(* Proofs about SqsPipeline, for any number of jobs, messages, workers and *)
(* indexers and any bounds: nothing of what enters the pipeline is lost.   *)
(***************************************************************************)
EXTENDS SqsPipeline, TLAPS

-----------------------------------------------------------------------------
(* What processes know                                                     *)

\* What each place in the loops of workers and indexers says of the message
\* at hand.
WInv(w) ==
  /\ pc[w] \in {"idle", "begin", "reconciling", "scraping", "writing", "telling"}
  /\ batch[w] = {}
  /\ pc[w] # "idle" => cur[w] \in Messages
  /\ pc[w] \in {"reconciling", "scraping", "writing", "telling"} => CycleOf(w) # NoCycle
  /\ pc[w] \in {"scraping", "writing", "telling"} => job[JobOf(w)] # "absent"
  /\ pc[w] \in {"writing", "telling"} => goal[w] \in Goals
  /\ loaded[w] \in {"unread", "processing"}
  /\ loaded[w] # "unread" => pc[w] \in {"scraping", "writing", "telling"}

WorkerInv == \A w \in Workers : WInv(w)

IInv(i) ==
  /\ pc[i] \in {"idle", "next", "indexing", "deleting"}
  /\ pc[i] \in {"indexing", "deleting"} => cur[i] \in Messages
  /\ pc[i] = "indexing" => CycleOf(i) # NoCycle /\ job[JobOf(i)] # "absent"

IndexerInv == \A i \in Indexers : IInv(i)

\* Cycles in use belong to a job.
LinkInv ==
  /\ \A m \in Messages : carries[m] # NoCycle => cycleJob[carries[m]] \in Jobs
  /\ \A c \in Cycles : ledger[c] # "none" \/ fate[c] # "none" =>
       cycleJob[c] \in Jobs /\ job[cycleJob[c]] # "absent"
  /\ \A c \in accepted : fate[c] # "none"
  /\ \A j \in Jobs : cycle[j] # NoCycle => cycleJob[cycle[j]] = j
  /\ \A j \in Jobs : job[j] # "absent" \/ j \in creating => \E c \in Cycles : cycleJob[c] = j

BaseInv == TypeOK /\ WorkerInv /\ IndexerInv /\ LinkInv

\* A body that is no ScrapingMessage is deleted after it is in quarantine.
MalformedInv ==
  /\ MalformedIsKept
  /\ \A i \in Indexers : pc[i] = "deleting" /\ CycleOf(i) = NoCycle => NoCycle \in quarantined

-----------------------------------------------------------------------------
(* What holds when workers settle within their lease                       *)

Remembered(m) == \E p \in Processes : cur[p] = m \/ m \in batch[p]

\* The message of a worker is in flight for nobody else; what an indexer
\* remembers has left the main queue for good.
LeaseInv ==
  /\ \A w \in Workers : pc[w] # "idle" =>
       /\ place[cur[w]] = "main" /\ ~visible[cur[w]] /\ holder[cur[w]] = w
  /\ \A i \in Indexers, m \in Messages : cur[i] = m \/ m \in batch[i] => place[m] # "main"

\* What SQS holds or a process remembers of a job.
About(m, j) ==
  /\ place[m] # "absent" \/ Remembered(m)
  /\ carries[m] # NoCycle /\ cycleJob[carries[m]] = j

\* Before it is committed or reconciled, a job has one message, no event and
\* no dead letter.
Fresh(j) ==
  /\ cycle[j] = NoCycle
  /\ \A c \in Cycles : cycleJob[c] = j => fate[c] = "none" /\ ledger[c] = "none"
  /\ \A m, n \in Messages : About(m, j) /\ About(n, j) => m = n

\* A worker that has reconciled a job has its only message, so the status it
\* loaded is still the one of the row.
Sole(w) ==
  LET j == JobOf(w) IN
  /\ job[j] = "processing"
  /\ \A c \in Cycles : cycleJob[c] = j => fate[c] = "none"
  /\ \A m \in Messages : About(m, j) => m = cur[w]

FreshInv ==
  /\ \A j \in Jobs : job[j] = "absent" => Fresh(j)
  /\ \A w \in Workers : pc[w] = "scraping" /\ loaded[w] # "unread" => Sole(w)

\* A settlement is only written to a job in processing.
WriteInv == \A w \in Workers : pc[w] = "writing" => job[JobOf(w)] = "processing"

\* c is, or will be at the first start of its job, the cycle in the payload.
Current(c) == cycle[cycleJob[c]] \in {NoCycle, c}

\* The cycle needs no message any more.
Over(c) ==
  \/ job[cycleJob[c]] \in {"completed", "skipped", "failed"}
  \/ ~Current(c)
  \/ c \in quarantined
  \/ Replayable(cycleJob[c])

\* An entry of the ledger is of an earlier cycle, or can be replayed.
LedgerInv ==
  /\ \A c \in Cycles : ledger[c] # "none" /\ Current(c) =>
       ledger[c] = "in_dlq" /\ job[cycleJob[c]] = "dead_letter"
  /\ \A i \in Indexers : pc[i] = "indexing" /\ loaded[i] = "dead_letter" /\ Current(CycleOf(i)) =>
       job[cycleJob[CycleOf(i)]] = "dead_letter"

\* Who is about to delete a message has seen that its cycle is over.
DeleteInv ==
  /\ \A w \in Workers : pc[w] = "telling" /\ goal[w] \in {"completed", "skipped", "failed"} =>
       Over(CycleOf(w))
  /\ \A i \in Indexers : pc[i] = "deleting" /\ CycleOf(i) # NoCycle => Over(CycleOf(i))

\* Every cycle whose message was sent has one in SQS until it is over.
KeptInv == \A c \in Cycles : cycleJob[c] \in Jobs => Unsent(c) \/ InSqs(c) \/ Over(c)

OrderInv == LeaseInv /\ FreshInv /\ WriteInv
CycleInv == LedgerInv /\ DeleteInv /\ KeptInv

\* A job has one cycle until its payload names one, and the dead letters of
\* all cycles but the current one have been replayed.
ReplayInv ==
  /\ \A c, d \in Cycles : cycleJob[c] \in Jobs /\ cycleJob[d] = cycleJob[c] /\ Current(c) /\ Current(d) => c = d
  /\ \A c \in Cycles : cycleJob[c] \in Jobs /\ ~Current(c) => ledger[c] \in {"replay_pending", "replayed"}

-----------------------------------------------------------------------------
(* The invariants that need no assumption                                  *)

USE SqsAssumption
    DEF Cycles, NoCycle, Messages, NoMessage, Processes, Places, LedgerStatuses,
        JobStatuses, Goals, JobOf, CycleOf,
        jobVars, cycleVars, outboxVars, queueVars, localVars

\* The queue keeps its types, and no message at hand changes its body.
LEMMA SendType ==
  ASSUME TypeOK, NEW q \in {"main", "dlq"}, NEW c \in Cycles \cup {NoCycle},
         SendMessage(q, c), holder' \in [Messages -> Processes \cup {Nobody}]
  PROVE  /\ QueueTypeOK'
         /\ \A m \in Messages : carries'[m] \in {carries[m], c}
         /\ \A p \in Processes : cur[p] \in Messages => carries'[cur[p]] = carries[cur[p]]
BY DEF SendMessage, Free, TypeOK, QueueTypeOK, LocalTypeOK

LEMMA DeleteType ==
  ASSUME TypeOK, NEW p \in Processes, NEW m \in Messages, DeleteMessage(p, m)
  PROVE  QueueTypeOK' /\ carries' = carries
<1>1. CASE UNCHANGED queueVars
  BY <1>1 DEF TypeOK, QueueTypeOK
<1>2. CASE Delete(m)
  BY <1>2 DEF Delete, TypeOK, QueueTypeOK
<1>3. QED
  BY <1>1, <1>2 DEF DeleteMessage

LEMMA ReleaseType ==
  ASSUME QueueTypeOK, NEW p \in Processes, Release(p)
  PROVE  holder' \in [Messages -> Processes \cup {Nobody}]
BY DEF Release, QueueTypeOK

\* A loop that returns keeps what the others know, as long as the bodies at hand
\* and the jobs stay.
LEMMA ReturnBase ==
  ASSUME BaseInv, NEW p \in Processes, Return(p), UNCHANGED <<job, cycleJob>>,
         \A q \in Processes : cur[q] \in Messages => carries'[cur[q]] = carries[cur[q]]
  PROVE  LocalTypeOK' /\ WorkerInv' /\ IndexerInv'
<1>1. LocalTypeOK'
  BY DEF BaseInv, TypeOK, LocalTypeOK, Return
<1>2. ASSUME NEW q \in Processes, q # p
      PROVE  UNCHANGED <<pc[q], cur[q], loaded[q], batch[q]>> /\ (q \in Workers => goal'[q] = goal[q])
  BY <1>2 DEF BaseInv, TypeOK, LocalTypeOK, Return
<1>3. pc'[p] = "idle" /\ loaded'[p] = "unread" /\ batch'[p] = {}
  BY DEF BaseInv, TypeOK, LocalTypeOK, Return
<1>4. ASSUME NEW w \in Workers
      PROVE  WInv(w)'
  BY <1>2, <1>3 DEF BaseInv, WorkerInv, WInv
<1>5. ASSUME NEW i \in Indexers
      PROVE  IInv(i)'
  BY <1>2, <1>3 DEF BaseInv, IndexerInv, IInv
<1>6. QED
  BY <1>1, <1>4, <1>5 DEF WorkerInv, IndexerInv

\* Leaving the loop early touches nothing else.
LEMMA AbandonBase ==
  ASSUME BaseInv, NEW p \in Processes, Abandon(p)
  PROVE  BaseInv'
<1>1. LocalTypeOK' /\ WorkerInv' /\ IndexerInv'
  BY ReturnBase DEF Abandon
<1>2. JobTypeOK' /\ CycleTypeOK'
  BY DEF Abandon, BaseInv, TypeOK, JobTypeOK, CycleTypeOK
<1>3. QueueTypeOK'
  BY ReleaseType DEF Abandon, BaseInv, TypeOK, QueueTypeOK
<1>4. LinkInv'
  BY DEF Abandon, BaseInv, LinkInv
<1>5. QED
  BY <1>1, <1>2, <1>3, <1>4 DEF BaseInv, TypeOK

\* A dead letter is sent for the message at hand.
LEMMA SendToDlqBase ==
  ASSUME BaseInv, NEW w \in Workers, cur[w] \in Messages, SendToDlq(w)
  PROVE  BaseInv'
<1>1. CycleOf(w) \in Cycles \cup {NoCycle}
  BY DEF BaseInv, TypeOK, QueueTypeOK
<1>2. holder' \in [Messages -> Processes \cup {Nobody}]
  BY ReleaseType DEF SendToDlq, BaseInv, TypeOK
<1>3. /\ QueueTypeOK'
      /\ \A m \in Messages : carries'[m] \in {carries[m], carries[cur[w]]}
      /\ \A p \in Processes : cur[p] \in Messages => carries'[cur[p]] = carries[cur[p]]
  BY <1>1, <1>2, SendType DEF SendToDlq, BaseInv
<1>4. LocalTypeOK' /\ WorkerInv' /\ IndexerInv'
  BY <1>3, ReturnBase DEF SendToDlq
<1>5. JobTypeOK' /\ CycleTypeOK'
  BY DEF SendToDlq, BaseInv, TypeOK, JobTypeOK, CycleTypeOK
<1>6. LinkInv'
  BY <1>3 DEF SendToDlq, BaseInv, LinkInv
<1>7. QED
  BY <1>3, <1>4, <1>5, <1>6 DEF BaseInv, TypeOK

\* Steps of nobody's loop keep what processes know: jobs and cycles stay.
LEMMA OthersBase ==
  ASSUME BaseInv, UNCHANGED localVars,
         \A p \in Processes : cur[p] \in Messages => carries'[cur[p]] = carries[cur[p]],
         \A c \in Cycles : cycleJob[c] \in Jobs => cycleJob'[c] = cycleJob[c],
         \A j \in Jobs : job[j] # "absent" => job'[j] # "absent"
  PROVE  LocalTypeOK' /\ WorkerInv' /\ IndexerInv'
<1>1. LocalTypeOK'
  BY DEF BaseInv, TypeOK, LocalTypeOK
<1>2. ASSUME NEW p \in Processes, cur[p] \in Messages, CycleOf(p) # NoCycle
      PROVE  CycleOf(p) \in Cycles /\ JobOf(p) \in Jobs /\ JobOf(p)' = JobOf(p) /\ CycleOf(p)' = CycleOf(p)
  BY <1>2 DEF BaseInv, LinkInv, TypeOK, QueueTypeOK
<1>3. ASSUME NEW w \in Workers
      PROVE  WInv(w)'
  BY <1>2 DEF BaseInv, WorkerInv, WInv
<1>4. ASSUME NEW i \in Indexers
      PROVE  IInv(i)'
  BY <1>2 DEF BaseInv, IndexerInv, IInv
<1>5. QED
  BY <1>1, <1>3, <1>4 DEF WorkerInv, IndexerInv

LEMMA ProducersBase == BaseInv /\ Producers => BaseInv'
<1> SUFFICES ASSUME BaseInv, Producers
             PROVE  BaseInv'
  OBVIOUS
<1> USE DEF BaseInv, TypeOK, LinkInv
<1>1. ASSUME NEW j \in Jobs, NEW c \in Cycles, Dispatch(j, c)
      PROVE  BaseInv'
  <2>1. LocalTypeOK' /\ WorkerInv' /\ IndexerInv'
    BY <1>1, OthersBase DEF Dispatch, Unused, NextCycle, JobTypeOK, CycleTypeOK
  <2>2. JobTypeOK' /\ CycleTypeOK' /\ QueueTypeOK'
    BY <1>1 DEF Dispatch, Outbox!Add, JobTypeOK, CycleTypeOK, QueueTypeOK
  <2>3. LinkInv'
    BY <1>1 DEF Dispatch, Unused, NextCycle, Outbox!Add, JobTypeOK, CycleTypeOK, QueueTypeOK
  <2>4. QED
    BY <2>1, <2>2, <2>3
<1>2. ASSUME NEW j \in Jobs, NEW c \in Cycles, SendDirect(j, c)
      PROVE  BaseInv'
  <2>1. /\ QueueTypeOK'
        /\ \A m \in Messages : carries'[m] \in {carries[m], c}
        /\ \A p \in Processes : cur[p] \in Messages => carries'[cur[p]] = carries[cur[p]]
    BY <1>2, SendType DEF SendDirect, QueueTypeOK
  <2>2. LocalTypeOK' /\ WorkerInv' /\ IndexerInv'
    BY <1>2, <2>1, OthersBase DEF SendDirect, Unused, NextCycle, JobTypeOK, CycleTypeOK
  <2>3. JobTypeOK' /\ CycleTypeOK'
    BY <1>2 DEF SendDirect, JobTypeOK, CycleTypeOK
  <2>4. LinkInv'
    BY <1>2, <2>1 DEF SendDirect, Unused, NextCycle, JobTypeOK, CycleTypeOK, QueueTypeOK
  <2>5. QED
    BY <2>1, <2>2, <2>3, <2>4
<1>3. ASSUME NEW j \in Jobs, CommitDirect(j)
      PROVE  BaseInv'
  <2>1. LocalTypeOK' /\ WorkerInv' /\ IndexerInv'
    BY <1>3, OthersBase DEF CommitDirect, JobTypeOK
  <2>2. JobTypeOK' /\ CycleTypeOK' /\ QueueTypeOK'
    BY <1>3 DEF CommitDirect, JobTypeOK, CycleTypeOK, QueueTypeOK
  <2>3. LinkInv'
    BY <1>3 DEF CommitDirect, JobTypeOK, CycleTypeOK, QueueTypeOK
  <2>4. QED
    BY <2>1, <2>2, <2>3
<1>4. ASSUME NEW j \in Jobs, RollbackDirect(j)
      PROVE  BaseInv'
  <2>1. LocalTypeOK' /\ WorkerInv' /\ IndexerInv'
    BY <1>4, OthersBase DEF RollbackDirect
  <2>2. JobTypeOK' /\ CycleTypeOK' /\ QueueTypeOK' /\ LinkInv'
    BY <1>4 DEF RollbackDirect, JobTypeOK, CycleTypeOK, QueueTypeOK
  <2>3. QED
    BY <2>1, <2>2
<1>5. ASSUME NEW l \in Cycles, NEW c \in Cycles, Replay(l, c)
      PROVE  BaseInv'
  <2>1. cycleJob[l] \in Jobs
    BY <1>5 DEF Replay
  <2>2. LocalTypeOK' /\ WorkerInv' /\ IndexerInv'
    BY <1>5, <2>1, OthersBase DEF Replay, NextCycle, JobTypeOK, CycleTypeOK
  <2>3. JobTypeOK' /\ CycleTypeOK' /\ QueueTypeOK'
    BY <1>5 DEF Replay, Outbox!Add, JobTypeOK, CycleTypeOK, QueueTypeOK
  <2>4. LinkInv'
    BY <1>5, <2>1 DEF Replay, NextCycle, Outbox!Add, JobTypeOK, CycleTypeOK, QueueTypeOK
  <2>5. QED
    BY <2>2, <2>3, <2>4
<1>6. QED
  BY <1>1, <1>2, <1>3, <1>4, <1>5 DEF Producers

LEMMA PublisherBase == BaseInv /\ Publisher => BaseInv'
<1> SUFFICES ASSUME BaseInv, NEW c \in Cycles, Publish(c) \/ SettlePublished(c) \/ GiveUp(c)
             PROVE  BaseInv'
  BY DEF Publisher
<1> USE DEF BaseInv, TypeOK, LinkInv
<1>1. CASE Publish(c)
  <2>1. /\ QueueTypeOK'
        /\ \A m \in Messages : carries'[m] \in {carries[m], c}
        /\ \A p \in Processes : cur[p] \in Messages => carries'[cur[p]] = carries[cur[p]]
    BY <1>1, SendType DEF Publish, QueueTypeOK
  <2>2. LocalTypeOK' /\ WorkerInv' /\ IndexerInv'
    BY <1>1, <2>1, OthersBase DEF Publish
  <2>3. JobTypeOK' /\ CycleTypeOK'
    BY <1>1 DEF Publish, Outbox!Accept, JobTypeOK, CycleTypeOK
  <2>4. LinkInv'
    BY <1>1, <2>1 DEF Publish, Outbox!Accept, Outbox!Due, CycleTypeOK
  <2>5. QED
    BY <2>1, <2>2, <2>3, <2>4
<1>2. CASE SettlePublished(c)
  <2>1. LocalTypeOK' /\ WorkerInv' /\ IndexerInv'
    BY <1>2, OthersBase DEF SettlePublished
  <2>2. JobTypeOK' /\ CycleTypeOK' /\ QueueTypeOK'
    BY <1>2 DEF SettlePublished, Settled, Outbox!Settle, JobTypeOK, CycleTypeOK, QueueTypeOK
  <2>3. LinkInv'
    BY <1>2 DEF SettlePublished, Settled, Outbox!Settle, CycleTypeOK
  <2>4. QED
    BY <2>1, <2>2, <2>3
<1>3. CASE GiveUp(c)
  <2>1. LocalTypeOK' /\ WorkerInv' /\ IndexerInv'
    BY <1>3, OthersBase DEF GiveUp, JobTypeOK
  <2>2. JobTypeOK' /\ CycleTypeOK' /\ QueueTypeOK'
    BY <1>3 DEF GiveUp, Settled, Outbox!Settle, JobTypeOK, CycleTypeOK, QueueTypeOK
  <2>3. LinkInv'
    BY <1>3 DEF GiveUp, Settled, Outbox!Settle, JobTypeOK, CycleTypeOK
  <2>4. QED
    BY <2>1, <2>2, <2>3
<1>4. QED
  BY <1>1, <1>2, <1>3

LEMMA TimeBase == BaseInv /\ Time => BaseInv'
<1> SUFFICES ASSUME BaseInv, Time
             PROVE  BaseInv'
  OBVIOUS
<1>1. UNCHANGED <<job, cycle, cycleVars, outboxVars, carries, creating, localVars>>
  BY DEF Time, BecomeVisible, Redrive, GrowOld
<1>2. LocalTypeOK' /\ WorkerInv' /\ IndexerInv'
  BY <1>1, OthersBase
<1>3. started' \in [Jobs -> {"unset", "recent", "old"}]
  BY DEF Time, BecomeVisible, Redrive, GrowOld, BaseInv, TypeOK, JobTypeOK
<1>4. ASSUME NEW m \in Messages, BecomeVisible(m)
      PROVE  QueueTypeOK'
  BY <1>4 DEF BecomeVisible, BaseInv, TypeOK, QueueTypeOK
<1>5. ASSUME NEW m \in Messages, Redrive(m)
      PROVE  QueueTypeOK'
  BY <1>5 DEF Redrive, BaseInv, TypeOK, QueueTypeOK
<1>6. ASSUME NEW j \in Jobs, GrowOld(j)
      PROVE  QueueTypeOK'
  BY <1>6 DEF GrowOld, BaseInv, TypeOK, QueueTypeOK
<1>7. QueueTypeOK'
  BY <1>4, <1>5, <1>6 DEF Time
<1>8. JobTypeOK' /\ CycleTypeOK' /\ LinkInv'
  BY <1>1, <1>3 DEF BaseInv, TypeOK, JobTypeOK, CycleTypeOK, LinkInv
<1>9. QED
  BY <1>2, <1>7, <1>8 DEF BaseInv, TypeOK

\* A step of p leaves what the other processes know as it was.
LEMMA StepBase ==
  ASSUME BaseInv, NEW p \in Processes, LocalTypeOK', UNCHANGED <<carries, cycleJob>>,
         \A q \in Processes \ {p} :
           /\ UNCHANGED <<pc[q], cur[q], loaded[q], batch[q]>>
           /\ q \in Workers => goal'[q] = goal[q],
         \A j \in Jobs : job[j] # "absent" => job'[j] # "absent",
         p \in Workers => WInv(p)', p \in Indexers => IInv(p)'
  PROVE  WorkerInv' /\ IndexerInv'
<1>1. ASSUME NEW q \in Processes \ {p}, cur[q] \in Messages, CycleOf(q) # NoCycle
      PROVE  CycleOf(q) \in Cycles /\ JobOf(q) \in Jobs /\ JobOf(q)' = JobOf(q) /\ CycleOf(q)' = CycleOf(q)
  BY <1>1 DEF BaseInv, LinkInv, TypeOK, QueueTypeOK
<1>2. ASSUME NEW w \in Workers, w # p
      PROVE  WInv(w)'
  BY <1>1, <1>2 DEF BaseInv, WorkerInv, WInv
<1>3. ASSUME NEW i \in Indexers, i # p
      PROVE  IInv(i)'
  BY <1>1, <1>3 DEF BaseInv, IndexerInv, IInv
<1>4. QED
  BY <1>2, <1>3 DEF WorkerInv, IndexerInv

\* An acknowledgement ends in the loop.
LEMMA AckBase ==
  ASSUME BaseInv, NEW w \in Workers, cur[w] \in Messages, DeleteMessage(w, cur[w]), Return(w),
         UNCHANGED <<jobVars, cycleVars, outboxVars, creating>>
  PROVE  BaseInv'
<1>1. QueueTypeOK' /\ carries' = carries
  BY DeleteType DEF BaseInv
<1>2. LocalTypeOK' /\ WorkerInv' /\ IndexerInv'
  BY <1>1, ReturnBase
<1>3. JobTypeOK' /\ CycleTypeOK' /\ LinkInv'
  BY <1>1 DEF BaseInv, TypeOK, JobTypeOK, CycleTypeOK, LinkInv
<1>4. QED
  BY <1>1, <1>2, <1>3 DEF BaseInv, TypeOK

\* What process_next_message can begin with: the message, its cycle and its job
\* are those of the types.
LEMMA AtHand ==
  ASSUME BaseInv, NEW w \in Workers, pc[w] # "idle"
  PROVE  /\ cur[w] \in Messages /\ CycleOf(w) \in Cycles \cup {NoCycle}
         /\ CycleOf(w) # NoCycle => CycleOf(w) \in Cycles /\ JobOf(w) = cycleJob[CycleOf(w)] /\ JobOf(w) \in Jobs
         /\ CycleOf(w) = NoCycle => JobOf(w) = NoJob
         /\ tries[w] \in 0..MaxReceives
BY DEF BaseInv, WorkerInv, WInv, LinkInv, TypeOK, QueueTypeOK, LocalTypeOK

LEMMA ReceiveBase ==
  ASSUME BaseInv, NEW w \in Workers, NEW m \in Messages, Receive(w, m)
  PROVE  BaseInv'
<1>1. LocalTypeOK'
  BY DEF Receive, BaseInv, TypeOK, LocalTypeOK, QueueTypeOK
<1>2. WInv(w)'
  BY DEF Receive, BaseInv, TypeOK, LocalTypeOK, WorkerInv, WInv
<1>3. WorkerInv' /\ IndexerInv'
  BY <1>1, <1>2, StepBase DEF Receive, BaseInv, TypeOK, LocalTypeOK
<1>4. QueueTypeOK'
  BY DEF Receive, BaseInv, TypeOK, QueueTypeOK
<1>5. JobTypeOK' /\ CycleTypeOK' /\ LinkInv'
  BY DEF Receive, BaseInv, TypeOK, JobTypeOK, CycleTypeOK, LinkInv
<1>6. QED
  BY <1>1, <1>3, <1>4, <1>5 DEF BaseInv, TypeOK

\* The steps between two SQS calls: they write the row of the job or choose
\* what to write.
JobStep(w) ==
  MissJob(w) \/ Reconcile(w) \/ StartJob(w) \/ (Decide(w) /\ ~Abandon(w)) \/ Write(w)

LEMMA JobStepBase ==
  ASSUME BaseInv, NEW w \in Workers, JobStep(w)
  PROVE  BaseInv'
<1>1. /\ pc[w] # "idle"
      /\ UNCHANGED <<cycleVars, outboxVars, queueVars, creating, cur, tries, batch>>
  BY DEF JobStep, MissJob, Reconcile, StartJob, Decide, Write
<1>2. /\ cur[w] \in Messages /\ CycleOf(w) \in Cycles \cup {NoCycle}
      /\ CycleOf(w) # NoCycle => CycleOf(w) \in Cycles /\ JobOf(w) = cycleJob[CycleOf(w)] /\ JobOf(w) \in Jobs
      /\ CycleOf(w) = NoCycle => JobOf(w) = NoJob
  BY <1>1, AtHand
<1> USE DEF BaseInv, TypeOK, JobTypeOK, LocalTypeOK, WorkerInv, WInv
<1>3. CASE MissJob(w)
  <2>1. LocalTypeOK' /\ WInv(w)'
    BY <1>2, <1>3 DEF MissJob
  <2>2. JobTypeOK' /\ \A q \in Processes \ {w} : UNCHANGED <<pc[q], cur[q], loaded[q], batch[q]>>
    BY <1>3 DEF MissJob
  <2>3. WorkerInv' /\ IndexerInv'
    BY <1>3, <2>1, <2>2, StepBase DEF MissJob
  <2>4. LinkInv' /\ CycleTypeOK' /\ QueueTypeOK'
    BY <1>3 DEF MissJob, LinkInv, CycleTypeOK, QueueTypeOK
  <2>5. QED
    BY <2>1, <2>2, <2>3, <2>4
<1>4. CASE Reconcile(w)
  <2>1. LocalTypeOK' /\ WInv(w)'
    BY <1>2, <1>4 DEF Reconcile
  <2>2. JobTypeOK' /\ \A q \in Processes \ {w} : UNCHANGED <<pc[q], cur[q], loaded[q], batch[q]>>
    BY <1>2, <1>4 DEF Reconcile
  <2>3. \A j \in Jobs : job[j] # "absent" => job'[j] # "absent"
    BY SMTT(30), <1>4 DEF Reconcile
  <2>4. WorkerInv' /\ IndexerInv'
    BY <1>4, <2>1, <2>2, <2>3, StepBase DEF Reconcile
  <2>5. LinkInv' /\ CycleTypeOK' /\ QueueTypeOK'
    BY SMTT(30), <1>2, <1>4 DEF Reconcile, LinkInv, CycleTypeOK, QueueTypeOK
  <2>6. QED
    BY <2>1, <2>2, <2>4, <2>5
<1>5. CASE StartJob(w)
  <2>1. LocalTypeOK' /\ WInv(w)'
    BY <1>2, <1>5 DEF StartJob
  <2>2. JobTypeOK' /\ \A q \in Processes \ {w} : UNCHANGED <<pc[q], cur[q], loaded[q], batch[q]>>
    BY SMTT(30), <1>2, <1>5 DEF StartJob
  <2>3. \A j \in Jobs : job[j] # "absent" => job'[j] # "absent"
    BY SMTT(30), <1>5 DEF StartJob
  <2>4. WorkerInv' /\ IndexerInv'
    BY SMTT(30), <1>5, <2>1, <2>2, <2>3, StepBase DEF StartJob
  <2>5. LinkInv' /\ CycleTypeOK' /\ QueueTypeOK'
    BY SMTT(30), <1>2, <1>5 DEF StartJob, Startable, LinkInv, CycleTypeOK, QueueTypeOK
  <2>6. QED
    BY <2>1, <2>2, <2>4, <2>5
<1>6. CASE Decide(w) /\ ~Abandon(w)
  <2>1. PICK g \in Goals : goal' = [goal EXCEPT ![w] = g]
    BY <1>6 DEF Decide, Outcomes
  <2>2. pc' = [pc EXCEPT ![w] = "writing"] /\ pc[w] = "scraping" /\ UNCHANGED <<jobVars, loaded>>
    BY <1>6 DEF Decide
  <2>3. LocalTypeOK' /\ WInv(w)'
    BY <1>1, <1>2, <2>1, <2>2
  <2>4. JobTypeOK' /\ \A q \in Processes \ {w} : UNCHANGED <<pc[q], cur[q], loaded[q], batch[q]>>
    BY <1>1, <2>2
  <2>5. \A q \in Processes \ {w} : q \in Workers => goal'[q] = goal[q]
    BY <2>1
  <2>6. WorkerInv' /\ IndexerInv'
    BY <1>1, <2>2, <2>3, <2>4, <2>5, StepBase
  <2>7. LinkInv' /\ CycleTypeOK' /\ QueueTypeOK'
    BY <1>1, <2>2 DEF LinkInv, CycleTypeOK, QueueTypeOK
  <2>8. QED
    BY <2>3, <2>4, <2>6, <2>7
<1>7. CASE Write(w)
  <2>1. LocalTypeOK' /\ WInv(w)'
    BY <1>2, <1>7 DEF Write
  <2>2. JobTypeOK' /\ \A q \in Processes \ {w} : UNCHANGED <<pc[q], cur[q], loaded[q], batch[q]>>
    BY <1>2, <1>7 DEF Write
  <2>3. \A j \in Jobs : job[j] # "absent" => job'[j] # "absent"
    BY SMTT(30), <1>2, <1>7 DEF Write
  <2>4. WorkerInv' /\ IndexerInv'
    BY <1>7, <2>1, <2>2, <2>3, StepBase DEF Write
  <2>5. LinkInv' /\ CycleTypeOK' /\ QueueTypeOK'
    BY SMTT(30), <1>2, <1>7, <2>3 DEF Write, LinkInv, CycleTypeOK, QueueTypeOK
  <2>6. QED
    BY <2>1, <2>2, <2>4, <2>5
<1>8. QED
  BY SMTT(30), <1>3, <1>4, <1>5, <1>6, <1>7 DEF JobStep

\* Every other step of a worker returns to the loop.
LEMMA WorkerCases ==
  ASSUME NEW w \in Workers, Worker(w)
  PROVE  \/ \E m \in Messages : Receive(w, m)
         \/ JobStep(w)
         \/ pc[w] # "idle" /\ Abandon(w)
         \/ RejectMessage(w) \/ DeadLetter(w)
         \/ AckTerminalJob(w) \/ AckSettled(w)
BY DEF Worker, JobStep, LoseReconcileRace, SkipConcurrent, RefuseStart, ScheduleRetry, Decide

LEMMA WorkerBase ==
  ASSUME BaseInv, NEW w \in Workers, Worker(w)
  PROVE  BaseInv'
<1>1. CASE \E m \in Messages : Receive(w, m)
  BY <1>1, ReceiveBase
<1>2. CASE JobStep(w)
  BY <1>2, JobStepBase
<1>3. CASE Abandon(w)
  BY <1>3, AbandonBase
<1>4. CASE RejectMessage(w) \/ DeadLetter(w)
  BY <1>4, AtHand, SendToDlqBase DEF RejectMessage, DeadLetter
<1>5. CASE AckTerminalJob(w) \/ AckSettled(w)
  BY <1>5, AtHand, AckBase DEF AckTerminalJob, AckSettled
<1>6. QED
  BY <1>1, <1>2, <1>3, <1>4, <1>5, WorkerCases

LEMMA TakeBase ==
  ASSUME BaseInv, NEW i \in Indexers, NEW m \in Messages,
         Quarantine(i, m) \/ DropKnown(i, m) \/ Inspect(i, m)
  PROVE  BaseInv'
<1>1. PICK where \in {"indexing", "deleting"} : Take(i, m, where)
  BY DEF Quarantine, DropKnown, Inspect
<1>2. where = "indexing" =>
        /\ carries[m] # NoCycle /\ ledger[carries[m]] = "none"
        /\ cycleJob[carries[m]] \in Jobs /\ job[cycleJob[carries[m]]] # "absent"
  BY <1>1 DEF Quarantine, DropKnown, Inspect, Unusable, Known, Take, BaseInv, TypeOK, LocalTypeOK, LinkInv
<1>3. \/ UNCHANGED loaded
      \/ where = "indexing" /\ loaded' = [loaded EXCEPT ![i] = job[cycleJob[carries[m]]]]
  <2>1. Quarantine(i, m) \/ DropKnown(i, m) => UNCHANGED loaded
    BY DEF Quarantine, DropKnown
  <2>2. CASE Inspect(i, m)
    BY <1>1, <2>2 DEF Inspect, Take, BaseInv, TypeOK, LocalTypeOK
  <2>3. QED
    BY <2>1, <2>2
<1>4. LocalTypeOK'
  BY <1>1, <1>2, <1>3 DEF Take, BaseInv, TypeOK, LocalTypeOK, JobTypeOK
<1>5. IInv(i)'
  BY <1>1, <1>2 DEF Take, BaseInv, TypeOK, LocalTypeOK, QueueTypeOK, IInv
<1>6. \A q \in Processes \ {i} : UNCHANGED <<pc[q], cur[q], loaded[q], batch[q]>>
  BY <1>1, <1>3 DEF Take, BaseInv, TypeOK, LocalTypeOK
<1>7. WorkerInv' /\ IndexerInv'
  BY <1>1, <1>4, <1>5, <1>6, StepBase DEF Take
<1>8. quarantined' \subseteq Cycles \cup {NoCycle}
  BY ZenonT(40) DEF Quarantine, DropKnown, Inspect, BaseInv, TypeOK, CycleTypeOK, QueueTypeOK
<1>9. JobTypeOK' /\ CycleTypeOK' /\ QueueTypeOK' /\ LinkInv'
  BY <1>1, <1>8 DEF Take, BaseInv, TypeOK, JobTypeOK, CycleTypeOK, QueueTypeOK, LinkInv
<1>10. QED
  BY <1>4, <1>7, <1>9 DEF BaseInv, TypeOK

LEMMA IndexBase ==
  ASSUME BaseInv, NEW i \in Indexers, Index(i)
  PROVE  BaseInv'
<1>1. /\ cur[i] \in Messages /\ CycleOf(i) \in Cycles
      /\ JobOf(i) = cycleJob[CycleOf(i)] /\ JobOf(i) \in Jobs /\ job[JobOf(i)] # "absent"
  BY DEF Index, BaseInv, TypeOK, QueueTypeOK, IndexerInv, IInv, LinkInv
<1>2. JobTypeOK' /\ \A j \in Jobs : job[j] # "absent" => job'[j] # "absent"
  BY <1>1 DEF Index, BaseInv, TypeOK, JobTypeOK
<1>3. LocalTypeOK' /\ CycleTypeOK' /\ QueueTypeOK'
  BY DEF Index, BaseInv, TypeOK, LocalTypeOK, CycleTypeOK, QueueTypeOK
<1>4. IInv(i)'
  BY <1>1 DEF Index, BaseInv, TypeOK, LocalTypeOK, IInv
<1>5. WorkerInv' /\ IndexerInv'
  BY <1>2, <1>3, <1>4, StepBase DEF Index, BaseInv, TypeOK, LocalTypeOK
<1>6. LinkInv'
  BY <1>1, <1>2 DEF Index, BaseInv, TypeOK, CycleTypeOK, LinkInv
<1>7. QED
  BY <1>2, <1>3, <1>5, <1>6 DEF BaseInv, TypeOK

\* The delete of a dead letter, and what its failure leaves.
LEMMA DeleteDeadLetterBase ==
  ASSUME BaseInv, NEW i \in Indexers, DeleteDeadLetter(i)
  PROVE  BaseInv'
<1>1. cur[i] \in Messages /\ pc[i] = "deleting"
  BY DEF DeleteDeadLetter, BaseInv, IndexerInv, IInv
<1>2. QueueTypeOK' /\ carries' = carries
  <2>1. CASE DeleteMessage(i, cur[i])
    BY <1>1, <2>1, DeleteType DEF BaseInv
  <2>2. CASE ~DeleteMessage(i, cur[i])
    BY <1>1, <2>2 DEF DeleteDeadLetter, BaseInv, TypeOK, QueueTypeOK
  <2>3. QED
    BY <2>1, <2>2
<1>3. LocalTypeOK'
  BY DEF DeleteDeadLetter, BaseInv, TypeOK, LocalTypeOK
<1>4. IInv(i)'
  BY DEF DeleteDeadLetter, BaseInv, TypeOK, LocalTypeOK, IInv
<1>5. WorkerInv' /\ IndexerInv'
  BY <1>2, <1>3, <1>4, StepBase DEF DeleteDeadLetter, BaseInv, TypeOK, LocalTypeOK
<1>6. JobTypeOK' /\ CycleTypeOK' /\ LinkInv'
  BY <1>2 DEF DeleteDeadLetter, BaseInv, TypeOK, JobTypeOK, CycleTypeOK, LinkInv
<1>7. QED
  BY <1>2, <1>3, <1>5, <1>6 DEF BaseInv, TypeOK

LEMMA ReceiveDeadLettersBase ==
  ASSUME BaseInv, NEW i \in Indexers, NEW S \in SUBSET Messages, ReceiveDeadLetters(i, S)
  PROVE  BaseInv'
<1>1. LocalTypeOK'
  BY DEF ReceiveDeadLetters, BaseInv, TypeOK, LocalTypeOK
<1>2. IInv(i)'
  BY DEF ReceiveDeadLetters, BaseInv, TypeOK, LocalTypeOK, IInv
<1>3. WorkerInv' /\ IndexerInv'
  BY <1>1, <1>2, StepBase DEF ReceiveDeadLetters, BaseInv, TypeOK, LocalTypeOK
<1>4. QueueTypeOK'
  BY DEF ReceiveDeadLetters, BaseInv, TypeOK, QueueTypeOK
<1>5. JobTypeOK' /\ CycleTypeOK' /\ LinkInv'
  BY DEF ReceiveDeadLetters, BaseInv, TypeOK, JobTypeOK, CycleTypeOK, LinkInv
<1>6. QED
  BY <1>1, <1>3, <1>4, <1>5 DEF BaseInv, TypeOK

LEMMA IndexerBase ==
  ASSUME BaseInv, NEW i \in Indexers, Indexer(i)
  PROVE  BaseInv'
<1>1. CASE \E S \in SUBSET Messages : ReceiveDeadLetters(i, S)
  BY <1>1, ReceiveDeadLettersBase
<1>2. CASE \E m \in Messages : Quarantine(i, m) \/ DropKnown(i, m) \/ Inspect(i, m)
  BY <1>2, TakeBase
<1>3. CASE Index(i)
  BY <1>3, IndexBase
<1>4. CASE LoseIndexRace(i)
  BY <1>4, AbandonBase DEF LoseIndexRace
<1>5. CASE DeleteDeadLetter(i)
  BY <1>5, DeleteDeadLetterBase
<1>6. QED
  BY <1>1, <1>2, <1>3, <1>4, <1>5 DEF Indexer

LEMMA BaseStep == BaseInv /\ [Next]_vars => BaseInv'
<1> SUFFICES ASSUME BaseInv, [Next]_vars
             PROVE  BaseInv'
  OBVIOUS
<1>1. ASSUME NEW p \in Processes, Run(p)
      PROVE  BaseInv'
  BY <1>1, WorkerBase, IndexerBase DEF Run
<1>2. ASSUME NEW p \in Processes, Crash(p)
      PROVE  BaseInv'
  BY <1>2, AbandonBase DEF Crash
<1>3. CASE UNCHANGED vars
  <2>1. LocalTypeOK' /\ WorkerInv' /\ IndexerInv'
    BY <1>3, OthersBase DEF vars
  <2>2. JobTypeOK' /\ CycleTypeOK' /\ QueueTypeOK' /\ LinkInv'
    BY <1>3 DEF vars, BaseInv, TypeOK, JobTypeOK, CycleTypeOK, QueueTypeOK, LinkInv
  <2>3. QED
    BY <2>1, <2>2 DEF BaseInv, TypeOK
<1>4. QED
  BY <1>1, <1>2, <1>3, ProducersBase, PublisherBase, TimeBase DEF Next, PollNothing

LEMMA BaseInit == Init => BaseInv
<1> SUFFICES ASSUME Init
             PROVE  BaseInv
  OBVIOUS
<1>1. TypeOK
  BY DEF Init, Outbox!Init, TypeOK, JobTypeOK, CycleTypeOK, QueueTypeOK, LocalTypeOK
<1>2. WorkerInv /\ IndexerInv
  BY DEF Init, WorkerInv, WInv, IndexerInv, IInv
<1>3. LinkInv
  BY DEF Init, Outbox!Init, LinkInv
<1>4. QED
  BY <1>1, <1>2, <1>3 DEF BaseInv

LEMMA BaseAlways == Spec => []BaseInv
BY BaseInit, BaseStep, PTL DEF Spec

\* Every variable has its type, whatever is delivered twice, killed or late: a
\* settlement only ever writes a status of ScrapingJobStatus.
THEOREM TypeCorrect == Spec => []TypeOK
<1>1. BaseInv => TypeOK
  BY DEF BaseInv
<1>2. QED
  BY <1>1, BaseAlways, PTL

-----------------------------------------------------------------------------
(* What leaves SQS                                                         *)

SendsMessage ==
  \/ \E j \in Jobs, c \in Cycles : SendDirect(j, c)
  \/ \E c \in Cycles : Publish(c)
  \/ \E w \in Workers : RejectMessage(w) \/ DeadLetter(w)

Deletes(p) ==
  \/ p \in Workers /\ (AckTerminalJob(p) \/ AckSettled(p))
  \/ p \in Indexers /\ DeleteDeadLetter(p)

\* Only sending, redriving and deleting change what SQS holds.
LEMMA QueueCases ==
  ASSUME [Next]_vars
  PROVE  \/ UNCHANGED <<place, carries>>
         \/ SendsMessage
         \/ \E m \in Messages : Redrive(m)
         \/ \E p \in Processes : Deletes(p)
<1>1. ASSUME NEW w \in Workers, Worker(w)
      PROVE  UNCHANGED <<place, carries>> \/ RejectMessage(w) \/ DeadLetter(w) \/ Deletes(w)
  BY <1>1, WorkerCases DEF Receive, JobStep, MissJob, Reconcile, StartJob, Decide, Write, Abandon,
       Deletes
<1>2. ASSUME NEW i \in Indexers, Indexer(i)
      PROVE  UNCHANGED <<place, carries>> \/ Deletes(i)
  BY <1>2 DEF Indexer, ReceiveDeadLetters, Quarantine, DropKnown, Inspect, Take, Index,
       LoseIndexRace, Abandon, Deletes
<1>3. CASE Producers
  BY <1>3 DEF Producers, SendsMessage, Dispatch, CommitDirect, RollbackDirect, Replay
<1>4. CASE Publisher
  BY <1>4 DEF Publisher, SendsMessage, SettlePublished, GiveUp
<1>5. CASE Time
  BY <1>5 DEF Time, BecomeVisible, GrowOld
<1>6. ASSUME NEW p \in Processes, Run(p) \/ Crash(p) \/ PollNothing(p)
      PROVE  UNCHANGED <<place, carries>> \/ SendsMessage \/ Deletes(p)
  BY <1>1, <1>2, <1>6 DEF Run, Crash, Abandon, PollNothing, vars, SendsMessage
<1>7. QED
  BY <1>3, <1>4, <1>5, <1>6 DEF Next, vars

\* A message leaves SQS only when the process that has it at hand deletes it.
LEMMA StaysInSqs ==
  ASSUME BaseInv, [Next]_vars, NEW m \in Messages, place[m] # "absent"
  PROVE  \/ place'[m] # "absent" /\ carries'[m] = carries[m]
         \/ \E p \in Processes : Deletes(p) /\ cur[p] = m
<1>1. CASE UNCHANGED <<place, carries>>
  BY <1>1
<1>2. CASE SendsMessage
  BY ZenonT(40), <1>2 DEF SendsMessage, SendDirect, Publish, RejectMessage, DeadLetter, SendToDlq, SendMessage, Free,
       BaseInv, TypeOK, QueueTypeOK
<1>3. ASSUME NEW k \in Messages, Redrive(k)
      PROVE  place'[m] # "absent" /\ carries'[m] = carries[m]
  BY <1>3 DEF Redrive, BaseInv, TypeOK, QueueTypeOK
<1>4. ASSUME NEW p \in Processes, Deletes(p), cur[p] # m
      PROVE  place'[m] # "absent" /\ carries'[m] = carries[m]
  <2>1. DeleteMessage(p, cur[p]) \/ UNCHANGED <<place, carries>>
    BY <1>4 DEF Deletes, AckTerminalJob, AckSettled, DeleteDeadLetter
  <2>2. QED
    BY <1>4, <2>1 DEF DeleteMessage, Delete, BaseInv, TypeOK, QueueTypeOK
<1>5. QED
  BY <1>1, <1>2, <1>3, <1>4, QueueCases

LEMMA QuarantineGrows ==
  ASSUME [Next]_vars
  PROVE  quarantined \subseteq quarantined'
<1>1. ASSUME NEW w \in Workers, Worker(w)
      PROVE  UNCHANGED quarantined
  BY <1>1, WorkerCases DEF Receive, JobStep, MissJob, Reconcile, StartJob, Decide, Write, Abandon,
       RejectMessage, DeadLetter, SendToDlq, AckTerminalJob, AckSettled
<1>2. ASSUME NEW i \in Indexers, Indexer(i)
      PROVE  quarantined \subseteq quarantined'
  BY <1>2 DEF Indexer, ReceiveDeadLetters, Quarantine, DropKnown, Inspect, Take, Index,
       LoseIndexRace, Abandon, DeleteDeadLetter
<1>3. CASE Producers
  BY <1>3 DEF Producers, Dispatch, SendDirect, CommitDirect, RollbackDirect, Replay
<1>4. CASE Publisher
  BY <1>4 DEF Publisher, Publish, SettlePublished, GiveUp
<1>5. CASE Time
  BY <1>5 DEF Time, BecomeVisible, Redrive, GrowOld
<1>6. QED
  BY <1>1, <1>2, <1>3, <1>4, <1>5 DEF Next, Run, Crash, Abandon, PollNothing, vars

\* No message at hand changes its body.
LEMMA BodiesStay ==
  ASSUME BaseInv, [Next]_vars, NEW p \in Processes, cur[p] \in Messages
  PROVE  carries'[cur[p]] = carries[cur[p]]
<1>1. UNCHANGED carries \/ SendsMessage
  BY QueueCases, DeleteType DEF Redrive, Deletes, AckTerminalJob, AckSettled, DeleteDeadLetter,
       DeleteMessage, Delete
<1>2. SendsMessage => carries'[cur[p]] = carries[cur[p]]
  BY ZenonT(40) DEF SendsMessage, SendDirect, Publish, RejectMessage, DeadLetter, SendToDlq, SendMessage, Free,
       BaseInv, TypeOK, QueueTypeOK
<1>3. QED
  BY <1>1, <1>2

\* An indexer comes to delete a message when it has taken or indexed it, and
\* until then keeps it at hand.
LEMMA Deleting ==
  ASSUME BaseInv, [Next]_vars, NEW i \in Indexers, pc'[i] = "deleting"
  PROVE  \/ pc[i] = "deleting" /\ CycleOf(i)' = CycleOf(i)
         \/ \E m \in Messages : (Quarantine(i, m) \/ DropKnown(i, m)) /\ CycleOf(i)' = carries[m]
         \/ Index(i) /\ CycleOf(i)' = CycleOf(i)
<1>1. \A p \in Processes : cur[p] \in Messages => carries'[cur[p]] = carries[cur[p]]
  BY BodiesStay
<1>2. CASE UNCHANGED <<pc, cur>>
  BY <1>1, <1>2 DEF BaseInv, IndexerInv, IInv
<1>3. ASSUME NEW w \in Workers, Worker(w) \/ Crash(w)
      PROVE  pc[i] = "deleting" /\ CycleOf(i)' = CycleOf(i)
  <2>1. pc'[i] = pc[i] /\ cur'[i] = cur[i]
    BY SMTT(30), <1>3, WorkerCases DEF Receive, JobStep, MissJob, Reconcile, StartJob, Decide, Write,
         RejectMessage, DeadLetter, SendToDlq, AckTerminalJob, AckSettled, Crash, Abandon, Return,
         BaseInv, TypeOK, LocalTypeOK
  <2>2. QED
    BY <1>1, <2>1 DEF BaseInv, IndexerInv, IInv
<1>4. ASSUME NEW k \in Indexers, Indexer(k) \/ Crash(k)
      PROVE  \/ pc[i] = "deleting" /\ CycleOf(i)' = CycleOf(i)
             \/ \E m \in Messages : (Quarantine(i, m) \/ DropKnown(i, m)) /\ CycleOf(i)' = carries[m]
             \/ Index(i) /\ CycleOf(i)' = CycleOf(i)
  <2>1. CASE k # i
    <3>1. pc'[i] = pc[i] /\ cur'[i] = cur[i]
      BY <1>4, <2>1 DEF Indexer, ReceiveDeadLetters, Quarantine, DropKnown, Inspect, Take, Index,
           LoseIndexRace, DeleteDeadLetter, Crash, Abandon, Return, BaseInv, TypeOK, LocalTypeOK
    <3>2. QED
      BY <1>1, <3>1 DEF BaseInv, IndexerInv, IInv
  <2>2. CASE k = i
    <3>1. ~Abandon(i) /\ ~DeleteDeadLetter(i) /\ ~\E S \in SUBSET Messages : ReceiveDeadLetters(i, S)
      BY DEF Abandon, Return, DeleteDeadLetter, ReceiveDeadLetters, BaseInv, TypeOK, LocalTypeOK
    <3>2. ASSUME NEW m \in Messages, Quarantine(i, m) \/ DropKnown(i, m)
          PROVE  CycleOf(i)' = carries[m]
      BY <3>2 DEF Quarantine, DropKnown, Take, BaseInv, TypeOK, LocalTypeOK
    <3>3. \A m \in Messages : ~Inspect(i, m)
      BY DEF Inspect, Take, BaseInv, TypeOK, LocalTypeOK
    <3>4. Index(i) => CycleOf(i)' = CycleOf(i)
      BY DEF Index
    <3>5. QED
      BY <1>4, <2>2, <3>1, <3>2, <3>3, <3>4 DEF Indexer, LoseIndexRace, Crash
  <2>3. QED
    BY <2>1, <2>2
<1>5. Producers \/ Publisher \/ Time => UNCHANGED <<pc, cur>>
  BY DEF Producers, Dispatch, SendDirect, CommitDirect, RollbackDirect, Replay,
         Publisher, Publish, SettlePublished, GiveUp, Time, BecomeVisible, Redrive, GrowOld
<1>6. QED
  BY <1>2, <1>3, <1>4, <1>5 DEF Next, Run, PollNothing, vars

LEMMA MalformedStep == BaseInv /\ MalformedInv /\ [Next]_vars => MalformedInv'
<1> SUFFICES ASSUME BaseInv, MalformedInv, [Next]_vars
             PROVE  MalformedInv'
  OBVIOUS
<1>1. NoCycle \in quarantined => NoCycle \in quarantined'
  BY QuarantineGrows
<1>2. ASSUME NEW i \in Indexers, pc'[i] = "deleting", CycleOf(i)' = NoCycle
      PROVE  NoCycle \in quarantined'
  <2>1. CASE pc[i] = "deleting" /\ CycleOf(i)' = CycleOf(i)
    BY <1>1, <1>2, <2>1 DEF MalformedInv
  <2>2. ASSUME NEW m \in Messages, Quarantine(i, m) \/ DropKnown(i, m), carries[m] = NoCycle
        PROVE  NoCycle \in quarantined'
    BY <2>2 DEF Quarantine, DropKnown, Unusable
  <2>3. ~(Index(i) /\ CycleOf(i)' = CycleOf(i))
    BY <1>2 DEF Index, BaseInv, IndexerInv, IInv
  <2>4. QED
    BY <1>2, <2>1, <2>2, <2>3, Deleting
<1>3. ASSUME NEW p \in Processes, Deletes(p), CycleOf(p) = NoCycle
      PROVE  NoCycle \in quarantined
  <2>1. ASSUME NEW w \in Workers
        PROVE  CycleOf(w) = NoCycle => ~AckTerminalJob(w) /\ ~AckSettled(w)
    BY DEF AckTerminalJob, AckSettled, BaseInv, WorkerInv, WInv
  <2>2. QED
    BY <1>3, <2>1 DEF Deletes, DeleteDeadLetter, MalformedInv
<1>4. ASSUME InSqs(NoCycle)
      PROVE  InSqs(NoCycle)' \/ NoCycle \in quarantined'
  <2>1. PICK m \in Messages : place[m] # "absent" /\ carries[m] = NoCycle
    BY <1>4 DEF InSqs
  <2>2. CASE place'[m] # "absent" /\ carries'[m] = carries[m]
    BY <2>1, <2>2 DEF InSqs
  <2>3. CASE \E p \in Processes : Deletes(p) /\ cur[p] = m
    BY <1>1, <1>3, <2>1, <2>3
  <2>4. QED
    BY <2>1, <2>2, <2>3, StaysInSqs
<1>5. QED
  BY <1>1, <1>2, <1>4 DEF MalformedInv, MalformedIsKept

\* A body that is no ScrapingMessage is in SQS until it is in quarantine, with
\* any number of workers and indexers, killed or failing to delete: _quarantine
\* commits before delete_message, and a worker only deletes what names a job.
THEOREM MalformedBodiesKept == Spec => []MalformedIsKept
<1>1. ASSUME Init
      PROVE  MalformedInv
  <2>1. OldMessages > 0 => 1 \in Messages /\ place[1] = "main" /\ carries[1] = NoCycle
    BY <1>1 DEF Init
  <2>2. \A i \in Indexers : pc[i] = "idle"
    BY <1>1 DEF Init
  <2>3. QED
    BY <2>1, <2>2 DEF MalformedInv, MalformedIsKept, InSqs
<1>2. MalformedInv => MalformedIsKept
  BY DEF MalformedInv
<1>3. QED
  BY <1>1, <1>2, MalformedStep, BaseAlways, PTL DEF Spec

-----------------------------------------------------------------------------
(* The order that leases and settlements keep                              *)

LEMMA SentCycle ==
  ASSUME BaseInv, SendsMessage
  PROVE  \E q \in {"main", "dlq"}, c \in Cycles \cup {NoCycle} : SendMessage(q, c)
<1>1. ASSUME NEW j \in Jobs, NEW c \in Cycles, SendDirect(j, c) \/ Publish(c)
      PROVE  SendMessage("main", c)
  BY <1>1 DEF SendDirect, Publish
<1>2. ASSUME NEW c \in Cycles, Publish(c)
      PROVE  SendMessage("main", c)
  BY <1>2 DEF Publish
<1>3. ASSUME NEW w \in Workers, RejectMessage(w) \/ DeadLetter(w)
      PROVE  SendMessage("dlq", CycleOf(w)) /\ CycleOf(w) \in Cycles \cup {NoCycle}
  BY <1>3, AtHand DEF RejectMessage, DeadLetter, SendToDlq
<1>4. QED
  BY <1>1, <1>2, <1>3 DEF SendsMessage

\* Messages at hand or in a batch are those received, and no others.
LEMMA LeaseStep == Orderly /\ BaseInv /\ LeaseInv /\ [Next]_vars => LeaseInv'
<1> SUFFICES ASSUME Orderly, BaseInv, LeaseInv, [Next]_vars
             PROVE  LeaseInv'
  OBVIOUS
<1> USE DEF BaseInv, TypeOK, QueueTypeOK, LocalTypeOK
<1>1. CASE UNCHANGED <<place, visible, holder, pc, cur, batch>>
  BY <1>1 DEF LeaseInv
<1>2. CASE SendsMessage
  <2>1. PICK m \in Messages : Free(m) /\ \A k \in Messages \ {m} : place'[k] = place[k] /\ visible'[k] = visible[k]
    <3>1. \E q \in {"main", "dlq"}, c \in Cycles \cup {NoCycle} : SendMessage(q, c)
      BY <1>2, SentCycle
    <3>2. QED
      BY <3>1 DEF SendMessage
  <2>2. \/ UNCHANGED <<holder, localVars>>
        \/ \E w \in Workers : Return(w) /\ Release(w)
    BY <1>2 DEF SendsMessage, SendDirect, Publish, RejectMessage, DeadLetter, SendToDlq
  <2>3. \A p \in Processes : /\ cur'[p] \in {cur[p], NoMessage} /\ batch'[p] \subseteq batch[p]
                             /\ pc'[p] # "idle" => pc'[p] = pc[p] /\ cur'[p] = cur[p]
    BY <2>2 DEF Return
  <2>4. ASSUME NEW w \in Workers, pc'[w] # "idle"
        PROVE  place'[cur'[w]] = "main" /\ ~visible'[cur'[w]] /\ holder'[cur'[w]] = w
    <3>1. pc[w] # "idle" /\ cur'[w] = cur[w] /\ cur[w] \in Messages \ {m}
      BY <2>1, <2>3, <2>4 DEF Free, WorkerInv, WInv
    <3>2. holder'[cur[w]] = w
      BY <2>2, <2>4, <3>1 DEF LeaseInv, Return, Release
    <3>3. QED
      BY <2>1, <3>1, <3>2 DEF LeaseInv
  <2>5. ASSUME NEW i \in Indexers, NEW k \in Messages, cur'[i] = k \/ k \in batch'[i]
        PROVE  place'[k] # "main"
    BY <2>1, <2>3, <2>5 DEF Free, LeaseInv
  <2>6. QED
    BY <2>4, <2>5 DEF LeaseInv
<1>3. ASSUME NEW p \in Processes, Deletes(p)
      PROVE  LeaseInv'
  <2>1. cur[p] \in Messages
    BY <1>3, AtHand DEF Deletes, AckTerminalJob, AckSettled, DeleteDeadLetter, IndexerInv, IInv
  <2>2. \/ Delete(cur[p])
        \/ UNCHANGED <<place, visible>> /\ \A k \in Messages : holder'[k] # holder[k] => k = cur[p]
    BY <1>3, <2>1 DEF Deletes, AckTerminalJob, AckSettled, DeleteDeadLetter, DeleteMessage
  <2>3. /\ \A q \in Processes \ {p} : UNCHANGED <<pc[q], cur[q], batch[q]>>
        /\ cur'[p] = NoMessage /\ batch'[p] \subseteq batch[p]
        /\ p \in Workers => pc'[p] = "idle"
    BY <1>3 DEF Deletes, AckTerminalJob, AckSettled, DeleteDeadLetter, Return
  <2>4. ASSUME NEW w \in Workers, w # p, pc[w] # "idle"
        PROVE  cur[w] # cur[p]
    <3>1. p \in Workers => pc[p] # "idle"
      BY <1>3 DEF Deletes, AckTerminalJob, AckSettled
    <3>2. QED
      BY <2>1, <2>4, <3>1 DEF LeaseInv
  <2>5. ASSUME NEW w \in Workers, pc'[w] # "idle"
        PROVE  place'[cur'[w]] = "main" /\ ~visible'[cur'[w]] /\ holder'[cur'[w]] = w
    <3>1. w # p /\ pc[w] # "idle" /\ cur'[w] = cur[w] /\ cur[w] \in Messages /\ cur[w] # cur[p]
      BY <2>3, <2>4, <2>5 DEF WorkerInv, WInv
    <3>2. place[cur[w]] = "main" /\ ~visible[cur[w]] /\ holder[cur[w]] = w
      BY <3>1 DEF LeaseInv
    <3>3. QED
      BY <2>1, <2>2, <3>1, <3>2 DEF Delete
  <2>6. ASSUME NEW i \in Indexers, NEW k \in Messages, cur'[i] = k \/ k \in batch'[i]
        PROVE  place'[k] # "main"
    <3>1. cur[i] = k \/ k \in batch[i]
      BY <2>3, <2>6, SqsAssumption
    <3>2. place[k] # "main"
      BY <3>1 DEF LeaseInv
    <3>3. QED
      BY <2>1, <2>2, <3>2 DEF Delete
  <2>7. QED
    BY <2>5, <2>6 DEF LeaseInv
<1>4. CASE Time
  <2>1. ASSUME NEW m \in Messages, BecomeVisible(m) \/ Redrive(m)
        PROVE  LeaseInv'
    BY SMTT(30), <2>1 DEF BecomeVisible, Redrive, LeaseInv, WorkerInv, WInv
  <2>2. QED
    BY <1>1, <1>4, <2>1 DEF Time, GrowOld
<1>5. ASSUME NEW w \in Workers, NEW m \in Messages, Receive(w, m)
      PROVE  LeaseInv'
  BY <1>5 DEF Receive, LeaseInv, WorkerInv, WInv
<1>6. ASSUME NEW p \in Processes, Abandon(p)
      PROVE  LeaseInv'
  <2>1. /\ \A q \in Processes \ {p} : UNCHANGED <<pc[q], cur[q], batch[q]>>
        /\ pc'[p] = "idle" /\ cur'[p] = NoMessage /\ batch'[p] = {}
        /\ UNCHANGED <<place, visible>>
    BY <1>6 DEF Abandon, Return
  <2>2. \A k \in Messages : holder[k] # p => holder'[k] = holder[k]
    BY <1>6 DEF Abandon, Release
  <2>3. ASSUME NEW w \in Workers, pc'[w] # "idle"
        PROVE  w # p /\ pc[w] # "idle" /\ cur'[w] = cur[w] /\ cur[w] \in Messages
    BY <2>1, <2>3 DEF WorkerInv, WInv
  <2>4. ASSUME NEW w \in Workers, pc'[w] # "idle"
        PROVE  place'[cur'[w]] = "main" /\ ~visible'[cur'[w]] /\ holder'[cur'[w]] = w
    <3>1. place[cur[w]] = "main" /\ ~visible[cur[w]] /\ holder[cur[w]] = w
      BY <2>3, <2>4 DEF LeaseInv
    <3>2. QED
      BY <2>1, <2>2, <2>3, <2>4, <3>1
  <2>5. ASSUME NEW i \in Indexers, NEW k \in Messages, cur'[i] = k \/ k \in batch'[i]
        PROVE  place'[k] # "main"
    BY <2>1, <2>5 DEF LeaseInv
  <2>6. QED
    BY <2>4, <2>5 DEF LeaseInv
<1>7. ASSUME NEW w \in Workers, JobStep(w)
      PROVE  LeaseInv'
  <2>1. UNCHANGED <<place, visible, holder, cur, batch>> /\ pc[w] # "idle"
    BY SMTT(30), <1>7 DEF JobStep, MissJob, Reconcile, StartJob, Decide, Write
  <2>2. \A q \in Processes \ {w} : pc'[q] = pc[q]
    BY <1>7 DEF JobStep, MissJob, Reconcile, StartJob, Decide, Write
  <2>3. \A q \in Workers : pc'[q] # "idle" => pc[q] # "idle"
    BY <2>1, <2>2
  <2>4. QED
    BY <2>1, <2>3 DEF LeaseInv
<1>8. ASSUME NEW i \in Indexers, NEW S \in SUBSET Messages, ReceiveDeadLetters(i, S)
      PROVE  LeaseInv'
  BY <1>8 DEF ReceiveDeadLetters, LeaseInv, WorkerInv, WInv
<1>9. ASSUME NEW i \in Indexers, NEW m \in Messages, Quarantine(i, m) \/ DropKnown(i, m) \/ Inspect(i, m)
      PROVE  LeaseInv'
  <2>1. UNCHANGED <<place, visible, holder>> /\ m \in batch[i]
    BY <1>9 DEF Quarantine, DropKnown, Inspect, Take
  <2>2. /\ cur' = [cur EXCEPT ![i] = m] /\ batch' = [batch EXCEPT ![i] = @ \ {m}]
        /\ \A w \in Workers : pc'[w] = pc[w]
    BY <1>9 DEF Quarantine, DropKnown, Inspect, Take
  <2>3. QED
    BY <2>1, <2>2 DEF LeaseInv
<1>10. ASSUME NEW i \in Indexers, Index(i)
       PROVE  LeaseInv'
  BY <1>10 DEF Index, LeaseInv
<1>11. ASSUME NEW w \in Workers, Worker(w)
       PROVE  LeaseInv'
  BY <1>2, <1>3, <1>5, <1>6, <1>7, <1>11, WorkerCases DEF SendsMessage, Deletes
<1>12. ASSUME NEW i \in Indexers, Indexer(i)
       PROVE  LeaseInv'
  BY <1>3, <1>6, <1>8, <1>9, <1>10, <1>12 DEF Indexer, LoseIndexRace, Deletes
<1>13. CASE Producers \/ Publisher
  BY <1>1, <1>2, <1>13 DEF Producers, Publisher, SendsMessage, Dispatch, CommitDirect, RollbackDirect,
       Replay, SettlePublished, GiveUp
<1>14. QED
  BY <1>1, <1>4, <1>6, <1>11, <1>12, <1>13 DEF Next, Run, Crash, PollNothing, vars

\* The steps that change the status of a job.
LEMMA JobMoves ==
  ASSUME BaseInv, [Next]_vars, NEW j \in Jobs, job'[j] # job[j]
  PROVE  \/ \E c \in Cycles : Dispatch(j, c)
         \/ CommitDirect(j)
         \/ \E l, c \in Cycles : Replay(l, c) /\ cycleJob[l] = j
         \/ \E c \in Cycles : GiveUp(c) /\ cycleJob[c] = j
         \/ \E w \in Workers : JobOf(w) = j /\ (Reconcile(w) \/ StartJob(w) \/ Write(w))
         \/ \E i \in Indexers : JobOf(i) = j /\ Index(i)
<1> USE DEF BaseInv, TypeOK, JobTypeOK
<1>1. ASSUME Producers
      PROVE  \/ \E c \in Cycles : Dispatch(j, c)
             \/ CommitDirect(j)
             \/ \E l, c \in Cycles : Replay(l, c) /\ cycleJob[l] = j
  BY <1>1 DEF Producers, Dispatch, SendDirect, CommitDirect, RollbackDirect, Replay
<1>2. ASSUME Publisher
      PROVE  \E c \in Cycles : GiveUp(c) /\ cycleJob[c] = j
  BY ZenonT(40), <1>2 DEF Publisher, Publish, SettlePublished, GiveUp
<1>3. ~Time
  BY DEF Time, BecomeVisible, Redrive, GrowOld
<1>4. ASSUME NEW w \in Workers, Worker(w)
      PROVE  JobOf(w) = j /\ (Reconcile(w) \/ StartJob(w) \/ Write(w))
  BY <1>4, WorkerCases DEF Receive, JobStep, MissJob, Reconcile, StartJob, Decide, Write, Abandon,
       RejectMessage, DeadLetter, SendToDlq, AckTerminalJob, AckSettled
<1>5. ASSUME NEW i \in Indexers, Indexer(i)
      PROVE  Index(i) /\ JobOf(i) = j
  BY <1>5 DEF Indexer, ReceiveDeadLetters, Quarantine, DropKnown, Inspect, Take, Index,
       LoseIndexRace, Abandon, DeleteDeadLetter, IndexerInv, IInv
<1>6. QED
  BY <1>1, <1>2, <1>3, <1>4, <1>5 DEF Next, Run, Crash, Abandon, PollNothing, vars

\* The steps that change the cycle in the payload of a job.
LEMMA CycleMoves ==
  ASSUME BaseInv, [Next]_vars, NEW j \in Jobs, cycle'[j] # cycle[j]
  PROVE  \/ \E c \in Cycles : Dispatch(j, c)
         \/ \E l, c \in Cycles : Replay(l, c) /\ cycleJob[l] = j
         \/ \E w \in Workers : JobOf(w) = j /\ (Reconcile(w) \/ StartJob(w))
<1> USE DEF BaseInv, TypeOK, JobTypeOK
<1>1. ASSUME Producers
      PROVE  \/ \E c \in Cycles : Dispatch(j, c)
             \/ \E l, c \in Cycles : Replay(l, c) /\ cycleJob[l] = j
  BY <1>1 DEF Producers, Dispatch, SendDirect, CommitDirect, RollbackDirect, Replay
<1>2. ~Publisher /\ ~Time
  BY DEF Publisher, Publish, SettlePublished, GiveUp, Time, BecomeVisible, Redrive, GrowOld
<1>3. ASSUME NEW w \in Workers, Worker(w)
      PROVE  JobOf(w) = j /\ (Reconcile(w) \/ StartJob(w))
  BY <1>3, WorkerCases DEF Receive, JobStep, MissJob, Reconcile, StartJob, Decide, Write, Abandon,
       RejectMessage, DeadLetter, SendToDlq, AckTerminalJob, AckSettled
<1>4. ASSUME NEW i \in Indexers
      PROVE  ~Indexer(i)
  BY DEF Indexer, ReceiveDeadLetters, Quarantine, DropKnown, Inspect, Take, Index,
       LoseIndexRace, Abandon, DeleteDeadLetter
<1>5. QED
  BY <1>1, <1>2, <1>3, <1>4 DEF Next, Run, Crash, Abandon, PollNothing, vars

\* A cycle that has been made keeps its job.
LEMMA CycleJobStays ==
  ASSUME BaseInv, [Next]_vars, NEW c \in Cycles, cycleJob[c] \in Jobs
  PROVE  cycleJob'[c] = cycleJob[c]
<1>1. CASE Producers
  BY <1>1 DEF Producers, Dispatch, SendDirect, CommitDirect, RollbackDirect, Replay, NextCycle,
       BaseInv, TypeOK, CycleTypeOK
<1>2. Publisher \/ Time => UNCHANGED cycleJob
  BY DEF Publisher, Publish, SettlePublished, GiveUp, Time, BecomeVisible, Redrive, GrowOld
<1>3. ASSUME NEW w \in Workers, Worker(w)
      PROVE  UNCHANGED cycleJob
  BY <1>3, WorkerCases DEF Receive, JobStep, MissJob, Reconcile, StartJob, Decide, Write, Abandon,
       RejectMessage, DeadLetter, SendToDlq, AckTerminalJob, AckSettled
<1>4. ASSUME NEW i \in Indexers, Indexer(i)
      PROVE  UNCHANGED cycleJob
  BY <1>4 DEF Indexer, ReceiveDeadLetters, Quarantine, DropKnown, Inspect, Take, Index,
       LoseIndexRace, Abandon, DeleteDeadLetter
<1>5. QED
  BY <1>1, <1>2, <1>3, <1>4 DEF Next, Run, Crash, Abandon, PollNothing, vars

\* While a checked settlement waits for its commit, nothing else happens.
LEMMA CriticalStep ==
  ASSUME Orderly, BaseInv, [Next]_vars, NEW w \in Workers, pc[w] = "writing"
  PROVE  Write(w) \/ Abandon(w) \/ UNCHANGED vars
<1>1. ~Uninterrupted(Processes) /\ \A p \in Processes \ {w} : ~Uninterrupted(Processes \ {p})
  BY DEF Uninterrupted, Critical
<1>2. Run(w) => Write(w)
  BY DEF Run, Worker, Receive, RejectMessage, MissJob, Reconcile, LoseReconcileRace, AckTerminalJob,
         SkipConcurrent, StartJob, RefuseStart, Decide, AckSettled, ScheduleRetry, DeadLetter
<1>3. QED
  BY <1>1, <1>2 DEF Next, Crash, PollNothing

\* What a process comes to remember was in SQS.
LEMMA RememberedNew ==
  ASSUME BaseInv, [Next]_vars, NEW m \in Messages, Remembered(m)'
  PROVE  Remembered(m) \/ place[m] # "absent"
<1> SUFFICES ASSUME NEW p \in Processes, cur'[p] = m \/ m \in batch'[p]
             PROVE  Remembered(m) \/ place[m] # "absent"
  BY DEF Remembered
<1> USE DEF BaseInv, TypeOK, LocalTypeOK
<1>1. CASE UNCHANGED <<cur, batch>>
  BY <1>1 DEF Remembered
<1>2. ASSUME NEW q \in Processes, Return(q)
      PROVE  Remembered(m)
  BY <1>2 DEF Return, Remembered
<1>3. ASSUME NEW w \in Workers, NEW n \in Messages, Receive(w, n)
      PROVE  Remembered(m) \/ place[m] # "absent"
  BY <1>3 DEF Receive, Remembered
<1>4. ASSUME NEW w \in Workers, Worker(w)
      PROVE  Remembered(m) \/ place[m] # "absent"
  BY <1>1, <1>2, <1>3, <1>4, WorkerCases DEF JobStep, MissJob, Reconcile, StartJob, Decide, Write,
       Abandon, RejectMessage, DeadLetter, SendToDlq, AckTerminalJob, AckSettled
<1>5. ASSUME NEW i \in Indexers, NEW S \in SUBSET Messages, ReceiveDeadLetters(i, S)
      PROVE  Remembered(m) \/ place[m] # "absent"
  BY <1>5 DEF ReceiveDeadLetters, Remembered
<1>6. ASSUME NEW i \in Indexers, NEW n \in Messages, Quarantine(i, n) \/ DropKnown(i, n) \/ Inspect(i, n)
      PROVE  Remembered(m)
  BY <1>6 DEF Quarantine, DropKnown, Inspect, Take, Remembered
<1>7. ASSUME NEW i \in Indexers, DeleteDeadLetter(i)
      PROVE  Remembered(m)
  BY <1>7 DEF DeleteDeadLetter, Remembered
<1>8. ASSUME NEW i \in Indexers, Indexer(i)
      PROVE  Remembered(m) \/ place[m] # "absent"
  BY <1>1, <1>2, <1>5, <1>6, <1>7, <1>8 DEF Indexer, Index, LoseIndexRace, Abandon
<1>9. Producers \/ Publisher \/ Time => UNCHANGED <<cur, batch>>
  BY DEF Producers, Dispatch, SendDirect, CommitDirect, RollbackDirect, Replay,
         Publisher, Publish, SettlePublished, GiveUp, Time, BecomeVisible, Redrive, GrowOld
<1>10. QED
  BY <1>1, <1>2, <1>4, <1>8, <1>9 DEF Next, Run, Crash, Abandon, PollNothing, vars

\* What SQS and the processes come to know of a job has been sent to SQS.
LEMMA AboutNew ==
  ASSUME BaseInv, [Next]_vars, NEW j \in Jobs, NEW m \in Messages, About(m, j)', ~About(m, j)
  PROVE  \/ \E c \in Cycles : SendDirect(j, c)
         \/ \E c \in Cycles : Publish(c) /\ cycleJob[c] = j
         \/ \E w \in Workers : JobOf(w) = j /\ DeadLetter(w)
<1>1. carries[m] # NoCycle =>
        carries[m] \in Cycles /\ cycleJob[carries[m]] \in Jobs /\ cycleJob'[carries[m]] = cycleJob[carries[m]]
  <2>1. carries[m] # NoCycle => carries[m] \in Cycles /\ cycleJob[carries[m]] \in Jobs
    BY DEF BaseInv, LinkInv, TypeOK, QueueTypeOK
  <2>2. QED
    BY <2>1, CycleJobStays
<1>2. ASSUME carries'[m] = carries[m], place'[m] # "absent" => place[m] # "absent"
      PROVE  FALSE
  BY <1>1, <1>2, RememberedNew DEF About
<1>3. CASE UNCHANGED carries /\ (place'[m] # "absent" => place[m] # "absent")
  BY <1>2, <1>3
<1>4. ASSUME NEW k \in Messages, Redrive(k)
      PROVE  FALSE
  BY <1>2, <1>4 DEF Redrive, BaseInv, TypeOK, QueueTypeOK
<1>5. ASSUME NEW p \in Processes, Deletes(p)
      PROVE  FALSE
  <2>1. cur[p] \in Messages
    BY <1>5, AtHand DEF Deletes, AckTerminalJob, AckSettled, DeleteDeadLetter, BaseInv, IndexerInv, IInv
  <2>2. Delete(cur[p]) \/ UNCHANGED <<place, carries>>
    BY <1>5 DEF Deletes, AckTerminalJob, AckSettled, DeleteDeadLetter, DeleteMessage
  <2>3. QED
    BY <1>2, <2>1, <2>2 DEF Delete, BaseInv, TypeOK, QueueTypeOK
<1>6. ASSUME NEW q \in {"main", "dlq"}, NEW c \in Cycles \cup {NoCycle}, SendMessage(q, c)
      PROVE  carries'[m] = c /\ c # NoCycle /\ cycleJob'[c] = j
  BY <1>2, <1>6 DEF SendMessage, About, BaseInv, TypeOK, QueueTypeOK
<1>7. ASSUME NEW i \in Jobs, NEW c \in Cycles, SendDirect(i, c)
      PROVE  SendDirect(j, c)
  BY <1>6, <1>7 DEF SendDirect, BaseInv, TypeOK, CycleTypeOK
<1>8. ASSUME NEW c \in Cycles, Publish(c)
      PROVE  cycleJob[c] = j
  BY <1>6, <1>8 DEF Publish
<1>9. ASSUME NEW w \in Workers, RejectMessage(w) \/ DeadLetter(w)
      PROVE  JobOf(w) = j /\ DeadLetter(w)
  <2>1. CycleOf(w) \in Cycles \cup {NoCycle} /\ SendMessage("dlq", CycleOf(w)) /\ UNCHANGED cycleJob
    BY <1>9, AtHand DEF RejectMessage, DeadLetter, SendToDlq
  <2>2. CycleOf(w) # NoCycle /\ cycleJob[CycleOf(w)] = j
    BY <1>6, <2>1
  <2>3. QED
    BY <1>9, <2>2 DEF RejectMessage
<1>10. CASE SendsMessage
  BY <1>7, <1>8, <1>9, <1>10 DEF SendsMessage
<1>11. QED
  BY <1>3, <1>4, <1>5, <1>10, QueueCases

\* Only its own steps change what a worker knows.
LEMMA WorkerKeeps ==
  ASSUME BaseInv, [Next]_vars, NEW w \in Workers
  PROVE  Worker(w) \/ Abandon(w) \/ UNCHANGED <<pc[w], cur[w], loaded[w], goal[w]>>
<1> USE DEF BaseInv, TypeOK, LocalTypeOK
<1>1. ASSUME NEW p \in Processes, p # w, Return(p)
      PROVE  UNCHANGED <<pc[w], cur[w], loaded[w], goal[w]>>
  BY <1>1 DEF Return
<1>2. ASSUME NEW v \in Workers, v # w, Worker(v)
      PROVE  UNCHANGED <<pc[w], cur[w], loaded[w], goal[w]>>
  BY <1>1, <1>2, WorkerCases DEF Receive, JobStep, MissJob, Reconcile, StartJob, Decide, Write, Abandon,
       RejectMessage, DeadLetter, SendToDlq, AckTerminalJob, AckSettled
<1>3. ASSUME NEW i \in Indexers, Indexer(i)
      PROVE  UNCHANGED <<pc[w], cur[w], loaded[w], goal[w]>>
  BY <1>1, <1>3 DEF Indexer, ReceiveDeadLetters, Quarantine, DropKnown, Inspect, Take, Index,
       LoseIndexRace, Abandon, DeleteDeadLetter
<1>4. Producers \/ Publisher \/ Time => UNCHANGED localVars
  BY DEF Producers, Dispatch, SendDirect, CommitDirect, RollbackDirect, Replay,
         Publisher, Publish, SettlePublished, GiveUp, Time, BecomeVisible, Redrive, GrowOld
<1>5. QED
  BY <1>1, <1>2, <1>3, <1>4 DEF Next, Run, Crash, Abandon, PollNothing, vars

\* A worker in its loop has a cycle that stays made, so its job stays the same.
LEMMA WorkerJobStays ==
  ASSUME BaseInv, [Next]_vars, NEW w \in Workers, pc[w] # "idle", cur'[w] = cur[w]
  PROVE  CycleOf(w)' = CycleOf(w) /\ JobOf(w)' = JobOf(w)
<1>1. /\ cur[w] \in Messages
      /\ CycleOf(w) # NoCycle => CycleOf(w) \in Cycles /\ cycleJob[CycleOf(w)] \in Jobs
  BY AtHand
<1>2. CycleOf(w)' = CycleOf(w)
  BY <1>1, BodiesStay
<1>3. CycleOf(w) # NoCycle => cycleJob'[CycleOf(w)] = cycleJob[CycleOf(w)]
  BY <1>1, CycleJobStays
<1>4. QED
  BY <1>2, <1>3

LEMMA WriteStep == Orderly /\ BaseInv /\ FreshInv /\ WriteInv /\ [Next]_vars => WriteInv'
<1> SUFFICES ASSUME Orderly, BaseInv, FreshInv, WriteInv, [Next]_vars,
                    NEW w \in Workers, pc'[w] = "writing"
             PROVE  job'[JobOf(w)'] = "processing"
  BY DEF WriteInv
<1> USE DEF BaseInv, TypeOK, LocalTypeOK
<1>1. CASE pc[w] = "writing"
  <2>1. UNCHANGED vars
    BY <1>1, CriticalStep DEF Write, Abandon, Return
  <2>2. QED
    BY <1>1, <2>1 DEF vars, WriteInv
<1>2. CASE pc[w] # "writing"
  <2>1. Worker(w)
    BY <1>2, WorkerKeeps DEF Abandon, Return
  <2>2. Decide(w) /\ ~Abandon(w)
    BY <1>2, <2>1, WorkerCases DEF Receive, JobStep, MissJob, Reconcile, StartJob, Write, Abandon, Return,
         RejectMessage, DeadLetter, SendToDlq, AckTerminalJob, AckSettled
  <2>3. PICK s \in {job[JobOf(w)], loaded[w]} \cap JobStatuses, g \in Goals : g \in AllowedTransitions[s]
    BY <2>2 DEF Decide, Outcomes
  <2>4. s = "processing"
    BY <2>3 DEF AllowedTransitions
  <2>5. pc[w] = "scraping" /\ UNCHANGED <<jobVars, cycleJob, carries, cur>>
    BY <2>2 DEF Decide
  <2>6. job[JobOf(w)] = "processing"
    BY <2>3, <2>4, <2>5 DEF FreshInv, Sole
  <2>7. QED
    BY <2>5, <2>6
<1>3. QED
  BY <1>1, <1>2

\* A row is never removed.
LEMMA JobsStay ==
  ASSUME BaseInv, [Next]_vars, NEW j \in Jobs, job[j] # "absent"
  PROVE  job'[j] # "absent"
<1> USE DEF BaseInv, TypeOK, JobTypeOK
<1>1. \A c \in Cycles : Dispatch(j, c) => job'[j] # "absent"
  BY DEF Dispatch
<1>2. CommitDirect(j) => job'[j] # "absent"
  BY DEF CommitDirect
<1>3. \A l, c \in Cycles : Replay(l, c) /\ cycleJob[l] = j => job'[j] # "absent"
  BY DEF Replay
<1>4. \A c \in Cycles : GiveUp(c) /\ cycleJob[c] = j => job'[j] # "absent"
  BY DEF GiveUp
<1>5. ASSUME NEW w \in Workers, JobOf(w) = j, Reconcile(w) \/ StartJob(w) \/ Write(w)
      PROVE  job'[j] # "absent"
  BY ZenonT(40), <1>5 DEF Reconcile, StartJob, Write, WorkerInv, WInv
<1>6. ASSUME NEW i \in Indexers, JobOf(i) = j, Index(i)
      PROVE  job'[j] # "absent"
  BY <1>6 DEF Index, IndexerInv, IInv
<1>7. QED
  BY <1>1, <1>2, <1>3, <1>4, <1>5, <1>6, JobMoves

\* The steps that make a cycle.
LEMMA CycleMade ==
  ASSUME BaseInv, [Next]_vars, NEW c \in Cycles, cycleJob'[c] # cycleJob[c]
  PROVE  /\ cycleJob[c] = NoJob /\ cycleJob'[c] \in Jobs
         /\ \/ Dispatch(cycleJob'[c], c)
            \/ SendDirect(cycleJob'[c], c)
            \/ \E l \in Cycles : Replay(l, c) /\ cycleJob[l] = cycleJob'[c]
<1> USE DEF BaseInv, TypeOK, CycleTypeOK
<1>1. ~Publisher /\ ~Time
  BY DEF Publisher, Publish, SettlePublished, GiveUp, Time, BecomeVisible, Redrive, GrowOld
<1>2. ASSUME NEW w \in Workers
      PROVE  ~Worker(w)
  BY WorkerCases DEF Receive, JobStep, MissJob, Reconcile, StartJob, Decide, Write, Abandon,
       RejectMessage, DeadLetter, SendToDlq, AckTerminalJob, AckSettled
<1>3. ASSUME NEW i \in Indexers
      PROVE  ~Indexer(i)
  BY DEF Indexer, ReceiveDeadLetters, Quarantine, DropKnown, Inspect, Take, Index,
       LoseIndexRace, Abandon, DeleteDeadLetter
<1>4. Producers
  BY <1>1, <1>2, <1>3 DEF Next, Run, Crash, Abandon, PollNothing, vars
<1>5. ASSUME NEW j \in Jobs, NEW d \in Cycles, Dispatch(j, d) \/ SendDirect(j, d)
      PROVE  d = c /\ cycleJob'[c] = j /\ cycleJob[c] = NoJob
  BY <1>5 DEF Dispatch, SendDirect, NextCycle
<1>6. ASSUME NEW l \in Cycles, NEW d \in Cycles, Replay(l, d)
      PROVE  d = c /\ cycleJob'[c] = cycleJob[l] /\ cycleJob[c] = NoJob /\ cycleJob[l] \in Jobs
  BY <1>6 DEF Replay, NextCycle, LinkInv
<1>7. QED
  BY <1>4, <1>5, <1>6 DEF Producers, CommitDirect, RollbackDirect

\* The steps that change what has become of an event.
LEMMA FateMoves ==
  ASSUME BaseInv, [Next]_vars, NEW c \in Cycles, fate'[c] # fate[c]
  PROVE  \/ \E j \in Jobs : Dispatch(j, c)
         \/ \E l \in Cycles : Replay(l, c)
         \/ fate[c] = "due" /\ (SettlePublished(c) \/ GiveUp(c))
<1> USE DEF BaseInv, TypeOK, CycleTypeOK
<1>1. ~Time
  BY DEF Time, BecomeVisible, Redrive, GrowOld
<1>2. ASSUME NEW w \in Workers
      PROVE  ~Worker(w)
  BY WorkerCases DEF Receive, JobStep, MissJob, Reconcile, StartJob, Decide, Write, Abandon,
       RejectMessage, DeadLetter, SendToDlq, AckTerminalJob, AckSettled
<1>3. ASSUME NEW i \in Indexers
      PROVE  ~Indexer(i)
  BY DEF Indexer, ReceiveDeadLetters, Quarantine, DropKnown, Inspect, Take, Index,
       LoseIndexRace, Abandon, DeleteDeadLetter
<1>4. Producers \/ Publisher
  BY <1>1, <1>2, <1>3 DEF Next, Run, Crash, Abandon, PollNothing, vars
<1>5. ASSUME Producers
      PROVE  (\E j \in Jobs : Dispatch(j, c)) \/ \E l \in Cycles : Replay(l, c)
  <2>1. ASSUME NEW j \in Jobs, NEW d \in Cycles, Dispatch(j, d)
        PROVE  d = c
    BY <2>1 DEF Dispatch, Outbox!Add
  <2>2. ASSUME NEW l \in Cycles, NEW d \in Cycles, Replay(l, d)
        PROVE  d = c
    BY <2>2 DEF Replay, Outbox!Add
  <2>3. QED
    BY <1>5, <2>1, <2>2 DEF Producers, SendDirect, CommitDirect, RollbackDirect, outboxVars
<1>6. ASSUME Publisher
      PROVE  fate[c] = "due" /\ (SettlePublished(c) \/ GiveUp(c))
  BY <1>6 DEF Publisher, Publish, SettlePublished, GiveUp, Outbox!Accept, Outbox!Settle
<1>7. QED
  BY <1>4, <1>5, <1>6

\* The steps that change the entry of a cycle in the ledger.
LEMMA LedgerMoves ==
  ASSUME BaseInv, [Next]_vars, NEW c \in Cycles, ledger'[c] # ledger[c]
  PROVE  \/ \E i \in Indexers : Index(i) /\ CycleOf(i) = c
         \/ \E d \in Cycles : Replay(c, d)
         \/ /\ ledger[c] = "replay_pending"
            /\ \E d \in Cycles : source[d] = c /\ (SettlePublished(d) \/ GiveUp(d))
<1> USE DEF BaseInv, TypeOK, CycleTypeOK
<1>1. ~Time
  BY SMTT(30) DEF Time, BecomeVisible, Redrive, GrowOld
<1>2. ASSUME NEW w \in Workers
      PROVE  ~Worker(w)
  BY WorkerCases DEF Receive, JobStep, MissJob, Reconcile, StartJob, Decide, Write, Abandon,
       RejectMessage, DeadLetter, SendToDlq, AckTerminalJob, AckSettled
<1>3. ASSUME NEW i \in Indexers, Indexer(i)
      PROVE  Index(i) /\ CycleOf(i) = c
  BY <1>3 DEF Indexer, ReceiveDeadLetters, Quarantine, DropKnown, Inspect, Take, Index,
       LoseIndexRace, Abandon, DeleteDeadLetter
<1>4. ASSUME Producers
      PROVE  \E d \in Cycles : Replay(c, d)
  BY ZenonT(40), <1>4 DEF Producers, Dispatch, SendDirect, CommitDirect, RollbackDirect, Replay
<1>5. ASSUME Publisher
      PROVE  /\ ledger[c] = "replay_pending"
             /\ \E d \in Cycles : source[d] = c /\ (SettlePublished(d) \/ GiveUp(d))
  BY ZenonT(40), <1>5 DEF Publisher, Publish, SettlePublished, GiveUp, Settled
<1>6. QED
  BY <1>1, <1>2, <1>3, <1>4, <1>5 DEF Next, Run, Crash, Abandon, PollNothing, vars

\* What a process has at hand is about its job, and for no two workers the same.
LEMMA AtHandAbout ==
  ASSUME BaseInv
  PROVE  /\ \A w \in Workers : pc[w] # "idle" /\ CycleOf(w) # NoCycle => About(cur[w], JobOf(w))
         /\ \A i \in Indexers : pc[i] = "indexing" => About(cur[i], JobOf(i))
BY DEF BaseInv, WorkerInv, WInv, IndexerInv, IInv, About, Remembered

LEMMA OneHolder ==
  ASSUME BaseInv, LeaseInv, NEW w \in Workers, pc[w] # "idle"
  PROVE  /\ \A v \in Workers : pc[v] # "idle" /\ cur[v] = cur[w] => v = w
         /\ \A i \in Indexers : cur[i] # cur[w]
BY AtHand DEF LeaseInv

\* A job that no row exists of yet stays fresh: its only message is the one
\* SendDirect sends.
LEMMA FreshStays ==
  ASSUME BaseInv, [Next]_vars, FreshInv, NEW j \in Jobs, job'[j] = "absent"
  PROVE  Fresh(j)'
<1>1. job[j] = "absent" /\ Fresh(j)
  BY JobsStay DEF FreshInv
<1> USE DEF BaseInv, TypeOK, JobTypeOK, CycleTypeOK
<1>2. /\ \A c \in Cycles : ~Dispatch(j, c)
      /\ \A l, c \in Cycles : Replay(l, c) => cycleJob[l] # j
      /\ \A w \in Workers : JobOf(w) = j => ~Reconcile(w) /\ ~StartJob(w) /\ ~DeadLetter(w)
      /\ \A i \in Indexers : JobOf(i) = j => ~Index(i)
  BY SMTT(30), <1>1 DEF Dispatch, Replay, Reconcile, StartJob, DeadLetter, Index, WorkerInv, WInv, IndexerInv, IInv
<1>3. cycle'[j] = NoCycle
  BY <1>1, <1>2, CycleMoves DEF Fresh
<1>4. ASSUME NEW c \in Cycles, cycleJob'[c] = j
      PROVE  fate'[c] = "none" /\ ledger'[c] = "none"
  <2>1. CASE cycleJob[c] = j
    <3>1. fate[c] = "none" /\ ledger[c] = "none"
      BY <1>1, <2>1 DEF Fresh
    <3>2. (\A i \in Jobs : ~Dispatch(i, c)) /\ (\A l \in Cycles : ~Replay(l, c))
      BY <2>1 DEF Dispatch, Replay, NextCycle
    <3>3. fate'[c] = "none"
      BY <3>1, <3>2, FateMoves
    <3>4. \A d \in Cycles : ~Replay(c, d)
      BY <3>1 DEF Replay
    <3>5. ASSUME NEW i \in Indexers, Index(i), CycleOf(i) = c
          PROVE  FALSE
      <4>1. JobOf(i) = j
        BY <2>1, <3>5
      <4>2. QED
        BY <1>2, <3>5, <4>1
    <3>6. ledger'[c] = "none"
      BY <3>1, <3>4, <3>5, LedgerMoves
    <3>7. QED
      BY <3>3, <3>6
  <2>2. CASE cycleJob[c] # j
    <3>1. cycleJob[c] = NoJob /\ SendDirect(j, c)
      BY <1>2, <1>4, <2>2, CycleMade
    <3>2. fate[c] = "none" /\ ledger[c] = "none"
      BY <3>1 DEF LinkInv
    <3>3. QED
      BY <3>1, <3>2 DEF SendDirect
  <2>3. QED
    BY <2>1, <2>2
<1>5. ASSUME NEW m \in Messages, NEW n \in Messages, About(m, j)', About(n, j)'
      PROVE  m = n
  <2>1. ASSUME NEW c \in Cycles, Publish(c)
        PROVE  cycleJob[c] # j
    BY <1>1, <2>1 DEF Publish, Outbox!Due, Fresh
  <2>2. ASSUME NEW c \in Cycles, SendDirect(j, c)
        PROVE  m = n
    <3>1. PICK k \in Messages : \A i \in Messages \ {k} : place'[i] = place[i] /\ carries'[i] = carries[i]
      BY ZenonT(40), <2>2 DEF SendDirect, SendMessage, QueueTypeOK
    <3>2. UNCHANGED <<cur, batch>> /\ \A d \in Cycles : cycleJob[d] # j
      BY <2>2 DEF SendDirect, Unused
    <3>3. ASSUME NEW i \in Messages, i # k
          PROVE  ~About(i, j)'
      <4>1. carries[i] # NoCycle => carries[i] \in Cycles /\ cycleJob[carries[i]] \in Jobs /\ cycleJob[carries[i]] # j
        BY <3>2 DEF LinkInv, QueueTypeOK
      <4>2. carries[i] # NoCycle => cycleJob'[carries[i]] # j
        BY <4>1, CycleJobStays
      <4>3. QED
        BY <3>1, <3>3, <4>2 DEF About
    <3>4. QED
      BY <1>5, <3>3
  <2>3. CASE \A c \in Cycles : ~SendDirect(j, c)
    <3>1. About(m, j) /\ About(n, j)
      BY <1>2, <1>5, <2>1, <2>3, AboutNew
    <3>2. QED
      BY <1>1, <3>1 DEF Fresh
  <2>4. QED
    BY <2>2, <2>3
<1>6. QED
  BY <1>3, <1>4, <1>5 DEF Fresh

\* Nobody else touches a job whose only message a worker has at hand.
LEMMA SoleStays ==
  ASSUME BaseInv, [Next]_vars, LeaseInv, NEW w \in Workers, pc[w] = "scraping", Sole(w),
         UNCHANGED <<pc[w], cur[w]>>
  PROVE  Sole(w)'
<1> USE DEF BaseInv, TypeOK, JobTypeOK, CycleTypeOK
<1>1. PICK j \in Jobs : j = JobOf(w)
  BY AtHand DEF WorkerInv, WInv
<1>2. JobOf(w)' = j
  BY <1>1, WorkerJobStays
<1>3. job[j] = "processing"
  BY <1>1 DEF Sole
<1>4. ASSUME NEW v \in Workers, pc[v] \in {"writing", "telling"}
      PROVE  JobOf(v) # j
  <2>1. cur[v] # cur[w]
    BY <1>4, OneHolder
  <2>2. JobOf(v) = j => About(cur[v], j) /\ cur[v] \in Messages
    BY <1>4, AtHandAbout, AtHand DEF WorkerInv, WInv
  <2>3. QED
    BY <1>1, <2>1, <2>2 DEF Sole
<1>5. ASSUME NEW i \in Indexers, pc[i] = "indexing"
      PROVE  JobOf(i) # j
  <2>1. cur[i] # cur[w]
    BY OneHolder
  <2>2. JobOf(i) = j => About(cur[i], j) /\ cur[i] \in Messages
    BY <1>5, AtHandAbout DEF IndexerInv, IInv
  <2>3. QED
    BY <1>1, <2>1, <2>2 DEF Sole
<1>6. /\ \A c \in Cycles : ~Dispatch(j, c) /\ ~SendDirect(j, c)
      /\ ~CommitDirect(j)
      /\ \A l, c \in Cycles : Replay(l, c) => cycleJob[l] # j
      /\ \A v \in Workers : JobOf(v) = j => ~Reconcile(v) /\ ~Write(v) /\ ~DeadLetter(v)
      /\ \A i \in Indexers : JobOf(i) = j => ~Index(i)
  BY <1>3, <1>4, <1>5 DEF Dispatch, SendDirect, CommitDirect, Unused, Replay, Reconcile, Write, DeadLetter, Index
<1>7. \A c \in Cycles : cycleJob[c] = j => fate[c] = "none"
  BY <1>1 DEF Sole
<1>8. /\ \A c \in Cycles : Publish(c) => cycleJob[c] # j
      /\ \A c \in Cycles : SettlePublished(c) \/ GiveUp(c) => cycleJob[c] # j
  BY <1>7 DEF Publish, Outbox!Due, SettlePublished, GiveUp
<1>9. job'[j] = "processing"
  <2>1. \A v \in Workers : JobOf(v) = j /\ StartJob(v) => job'[j] = "processing"
    BY <1>1 DEF StartJob
  <2>2. QED
    BY SMTT(30), <1>1, <1>3, <1>6, <1>8, <2>1, JobMoves
<1>10. ASSUME NEW c \in Cycles, cycleJob'[c] = j
       PROVE  fate'[c] = "none"
  <2>1. cycleJob[c] = j
    BY <1>6, <1>10, CycleMade
  <2>2. (\A i \in Jobs : ~Dispatch(i, c)) /\ (\A l \in Cycles : ~Replay(l, c))
    BY <1>1, <2>1 DEF Dispatch, Replay, NextCycle
  <2>3. QED
    BY <1>7, <1>8, <2>1, <2>2, FateMoves
<1>11. ASSUME NEW m \in Messages, About(m, j)'
       PROVE  m = cur[w]
  <2>1. About(m, j)
    BY ZenonT(40), <1>1, <1>6, <1>8, <1>11, AboutNew
  <2>2. QED
    BY <1>1, <2>1 DEF Sole
<1>12. QED
  BY <1>2, <1>9, <1>10, <1>11 DEF Sole

LEMMA FreshStep == BaseInv /\ LeaseInv /\ FreshInv /\ [Next]_vars => FreshInv'
<1> SUFFICES ASSUME BaseInv, LeaseInv, FreshInv, [Next]_vars
             PROVE  FreshInv'
  OBVIOUS
<1>1. ASSUME NEW w \in Workers, pc'[w] = "scraping", loaded'[w] # "unread"
      PROVE  Sole(w)'
  <2> USE DEF BaseInv, TypeOK, LocalTypeOK
  <2>1. CASE UNCHANGED <<pc[w], cur[w], loaded[w]>>
    BY <1>1, <2>1, SoleStays DEF FreshInv
  <2>2. CASE Worker(w)
    <3>1. Reconcile(w) \/ StartJob(w)
      BY <1>1, <2>2, WorkerCases DEF Receive, JobStep, MissJob, Decide, Write, Abandon, Return,
           RejectMessage, DeadLetter, SendToDlq, AckTerminalJob, AckSettled
    <3>2. ~StartJob(w)
      BY SMTT(30), <1>1 DEF StartJob, WorkerInv, WInv
    <3>3. JobOf(w) \in Jobs /\ cur[w] \in Messages /\ CycleOf(w) # NoCycle
      BY <3>1, <3>2, AtHand DEF Reconcile, WorkerInv, WInv
    <3>4. /\ job[JobOf(w)] = "absent" /\ job'[JobOf(w)] = "processing"
          /\ UNCHANGED <<cycleJob, fate, place, carries, cur, batch>>
      BY <3>1, <3>2, <3>3 DEF Reconcile, JobTypeOK
    <3>5. Fresh(JobOf(w))
      BY <3>3, <3>4 DEF FreshInv
    <3>6. About(cur[w], JobOf(w))
      BY <3>1, <3>2, <3>3, AtHandAbout DEF Reconcile
    <3>7. QED
      BY <3>3, <3>4, <3>5, <3>6 DEF Sole, Fresh, About, Remembered
  <2>3. ~Abandon(w)
    BY <1>1 DEF Abandon, Return
  <2>4. QED
    BY <2>1, <2>2, <2>3, WorkerKeeps
<1>2. QED
  BY <1>1, FreshStays DEF FreshInv

-----------------------------------------------------------------------------
(* Cycles that are over stay over                                          *)

\* A job leaves dead_letter by a replay only.
LEMMA DeadLetterStays ==
  ASSUME BaseInv, WriteInv, [Next]_vars, NEW j \in Jobs, job[j] = "dead_letter"
  PROVE  job'[j] = "dead_letter" \/ \E l, d \in Cycles : Replay(l, d) /\ cycleJob[l] = j
<1> SUFFICES ASSUME job'[j] # job[j]
             PROVE  job'[j] = "dead_letter" \/ \E l, d \in Cycles : Replay(l, d) /\ cycleJob[l] = j
  BY SMTT(30)
<1> USE DEF BaseInv, TypeOK, JobTypeOK
<1>1. /\ \A c \in Cycles : ~Dispatch(j, c)
      /\ ~CommitDirect(j)
      /\ \A c \in Cycles : GiveUp(c) => cycleJob[c] # j
      /\ \A w \in Workers : JobOf(w) = j => ~Reconcile(w) /\ ~Write(w) /\ ~StartJob(w)
  BY DEF Dispatch, Unused, CommitDirect, GiveUp, Reconcile, Write, WriteInv, StartJob, AllowedTransitions
<1>2. \A i \in Indexers : JobOf(i) = j /\ Index(i) => job'[j] = "dead_letter"
  BY DEF Index, IndexerInv, IInv
<1>3. QED
  BY <1>1, <1>2, JobMoves

\* A settled job is only ever moved by an indexer that read it earlier.
LEMMA SettledStays ==
  ASSUME BaseInv, WriteInv, [Next]_vars, NEW j \in Jobs, job[j] \in {"completed", "skipped", "failed"}
  PROVE  job'[j] = job[j] \/ Replayable(j)'
<1> SUFFICES ASSUME job'[j] # job[j]
             PROVE  Replayable(j)'
  BY SMTT(30)
<1> USE DEF BaseInv, TypeOK, JobTypeOK
<1>1. /\ \A c \in Cycles : ~Dispatch(j, c)
      /\ ~CommitDirect(j)
      /\ \A l, c \in Cycles : Replay(l, c) => cycleJob[l] # j
      /\ \A w \in Workers : JobOf(w) = j => ~Reconcile(w) /\ ~Write(w) /\ ~StartJob(w)
  BY SMTT(30) DEF Dispatch, Unused, CommitDirect, Replay, Reconcile, Write, WriteInv, StartJob, AllowedTransitions
<1>2. ASSUME NEW c \in Cycles, GiveUp(c), cycleJob[c] = j
      PROVE  FALSE
  BY <1>2 DEF GiveUp
<1>3. PICK i \in Indexers : JobOf(i) = j /\ Index(i)
  BY <1>1, <1>2, JobMoves
<1>4. CycleOf(i) \in Cycles /\ cycleJob[CycleOf(i)] = j
  BY <1>3 DEF Index, IndexerInv, IInv, QueueTypeOK
<1>5. PICK c \in Cycles : c = CycleOf(i) /\ cycleJob[c] = j
  BY <1>4
<1>6. job'[j] = "dead_letter" /\ ledger'[c] = "in_dlq" /\ cycleJob'[c] = j
  BY <1>3, <1>5 DEF Index, CycleTypeOK
<1>7. QED
  BY <1>6 DEF Replayable, ListedReplayable, Listed

\* A replay gives the job another cycle.
LEMMA ReplayEnds ==
  ASSUME BaseInv, NEW l \in Cycles, NEW d \in Cycles, Replay(l, d),
         NEW c \in Cycles, cycleJob[c] \in Jobs, cycleJob[c] = cycleJob[l]
  PROVE  ~Current(c)'
BY DEF Replay, NextCycle, Current, BaseInv, TypeOK, JobTypeOK, CycleTypeOK

\* A cycle that the payload no longer names is never current again.
LEMMA NotCurrentStays ==
  ASSUME BaseInv, FreshInv, [Next]_vars, NEW c \in Cycles, cycleJob[c] \in Jobs, ~Current(c)
  PROVE  ~Current(c)'
<1> USE DEF BaseInv, TypeOK, JobTypeOK
<1>1. PICK j \in Jobs : j = cycleJob[c]
  OBVIOUS
<1>2. cycleJob'[c] = j
  BY <1>1, CycleJobStays
<1>3. cycle[j] \notin {NoCycle, c}
  BY <1>1 DEF Current
<1>4. CASE cycle'[j] = cycle[j]
  BY <1>2, <1>3, <1>4 DEF Current
<1>5. CASE cycle'[j] # cycle[j]
  <2>1. \A d \in Cycles : ~Dispatch(j, d)
    BY <1>1 DEF Dispatch, Unused
  <2>2. \A w \in Workers : JobOf(w) = j => ~Reconcile(w) /\ ~StartJob(w)
    BY <1>3, <1>5 DEF Reconcile, StartJob, FreshInv, Fresh
  <2>3. QED
    BY <1>1, <1>5, <2>1, <2>2, CycleMoves, ReplayEnds
<1>6. QED
  BY <1>4, <1>5

LEMMA ReplayableStays ==
  ASSUME BaseInv, WriteInv, [Next]_vars, NEW j \in Jobs, Replayable(j)
  PROVE  Replayable(j)' \/ \E l, d \in Cycles : Replay(l, d) /\ cycleJob[l] = j
<1> SUFFICES ASSUME \A l, d \in Cycles : Replay(l, d) => cycleJob[l] # j
             PROVE  Replayable(j)'
  OBVIOUS
<1>1. PICK c \in Cycles : cycleJob[c] = j /\ ledger[c] = "in_dlq" /\ job[j] = "dead_letter"
  BY DEF Replayable, ListedReplayable
<1>2. job'[j] = "dead_letter"
  BY <1>1, DeadLetterStays
<1>3. ledger'[c] = "in_dlq"
  BY <1>1, LedgerMoves DEF Index
<1>4. cycleJob'[c] = j
  BY <1>1, CycleJobStays
<1>5. QED
  BY <1>2, <1>3, <1>4 DEF Replayable, ListedReplayable, Listed

LEMMA OverStays ==
  ASSUME BaseInv, FreshInv, WriteInv, [Next]_vars, NEW c \in Cycles, cycleJob[c] \in Jobs, Over(c)
  PROVE  Over(c)'
<1>1. PICK j \in Jobs : j = cycleJob[c] /\ j = cycleJob'[c]
  BY CycleJobStays
<1>2. CASE job[j] \in {"completed", "skipped", "failed"}
  BY <1>1, <1>2, SettledStays DEF Over
<1>3. CASE ~Current(c)
  BY <1>3, NotCurrentStays DEF Over
<1>4. CASE c \in quarantined
  BY <1>4, QuarantineGrows DEF Over
<1>5. CASE Replayable(j)
  BY <1>1, <1>5, ReplayableStays, ReplayEnds DEF Over
<1>6. QED
  BY <1>1, <1>2, <1>3, <1>4, <1>5 DEF Over

-----------------------------------------------------------------------------
(* The ledger, the deletes and what is kept                                *)

\* An indexer comes to index a message when it has inspected it, and until then
\* keeps what it read.
LEMMA Indexing ==
  ASSUME BaseInv, [Next]_vars, NEW i \in Indexers, pc'[i] = "indexing"
  PROVE  \/ UNCHANGED <<pc[i], cur[i], loaded[i]>>
         \/ \E m \in Messages : Inspect(i, m)
<1> USE DEF BaseInv, TypeOK, LocalTypeOK
<1>1. ASSUME NEW p \in Processes, Return(p)
      PROVE  UNCHANGED <<pc[i], cur[i], loaded[i]>>
  BY <1>1 DEF Return
<1>2. ASSUME NEW w \in Workers, Worker(w)
      PROVE  UNCHANGED <<pc[i], cur[i], loaded[i]>>
  BY <1>1, <1>2, WorkerCases DEF Receive, JobStep, MissJob, Reconcile, StartJob, Decide, Write, Abandon,
       RejectMessage, DeadLetter, SendToDlq, AckTerminalJob, AckSettled
<1>3. ASSUME NEW k \in Indexers, Indexer(k)
      PROVE  UNCHANGED <<pc[i], cur[i], loaded[i]>> \/ \E m \in Messages : Inspect(i, m)
  BY <1>1, <1>3 DEF Indexer, ReceiveDeadLetters, Quarantine, DropKnown, Inspect, Take, Index,
       LoseIndexRace, Abandon, DeleteDeadLetter
<1>4. Producers \/ Publisher \/ Time => UNCHANGED localVars
  BY DEF Producers, Dispatch, SendDirect, CommitDirect, RollbackDirect, Replay,
         Publisher, Publish, SettlePublished, GiveUp, Time, BecomeVisible, Redrive, GrowOld
<1>5. QED
  BY <1>1, <1>2, <1>3, <1>4 DEF Next, Run, Crash, Abandon, PollNothing, vars

LEMMA LedgerStep == BaseInv /\ FreshInv /\ WriteInv /\ LedgerInv /\ [Next]_vars => LedgerInv'
<1> SUFFICES ASSUME BaseInv, FreshInv, WriteInv, LedgerInv, [Next]_vars
             PROVE  LedgerInv'
  OBVIOUS
<1> USE DEF BaseInv, TypeOK, CycleTypeOK
<1>1. ASSUME NEW c \in Cycles, cycleJob[c] \in Jobs, Current(c)', job[cycleJob[c]] = "dead_letter"
      PROVE  /\ job'[cycleJob[c]] = "dead_letter" /\ cycleJob'[c] = cycleJob[c]
             /\ \A d \in Cycles : ~Replay(c, d)
  BY <1>1, DeadLetterStays, ReplayEnds, CycleJobStays
<1>2. ASSUME NEW c \in Cycles, ledger'[c] # "none", Current(c)'
      PROVE  ledger'[c] = "in_dlq" /\ job'[cycleJob'[c]] = "dead_letter"
  <2>1. CASE ledger[c] = "none"
    <3>1. PICK i \in Indexers : Index(i) /\ CycleOf(i) = c
      BY <1>2, <2>1, LedgerMoves DEF Replay
    <3>2. cycleJob[c] \in Jobs /\ cycleJob'[c] = cycleJob[c] /\ ledger'[c] = "in_dlq" /\ Current(c)
      BY <1>2, <3>1 DEF Index, IndexerInv, IInv, LinkInv, Current
    <3>3. loaded[i] = "dead_letter" => job[cycleJob[c]] = "dead_letter"
      BY <3>1, <3>2 DEF LedgerInv, Index
    <3>4. job'[cycleJob[c]] = "dead_letter"
      BY <3>1, <3>2, <3>3 DEF Index, JobTypeOK
    <3>5. QED
      BY <3>2, <3>4
  <2>2. CASE ledger[c] # "none"
    <3>1. cycleJob[c] \in Jobs
      BY <2>2 DEF LinkInv
    <3>2. Current(c)
      BY <1>2, <3>1, NotCurrentStays
    <3>3. ledger[c] = "in_dlq" /\ job[cycleJob[c]] = "dead_letter"
      BY <2>2, <3>2 DEF LedgerInv
    <3>4. ledger'[c] = "in_dlq"
      BY <1>1, <1>2, <3>1, <3>3, LedgerMoves DEF Index
    <3>5. QED
      BY <1>1, <1>2, <3>1, <3>3, <3>4
  <2>3. QED
    BY <2>1, <2>2
<1>3. ASSUME NEW i \in Indexers, pc'[i] = "indexing", loaded'[i] = "dead_letter", Current(CycleOf(i))'
      PROVE  job'[cycleJob'[CycleOf(i)']] = "dead_letter"
  <2>1. CASE UNCHANGED <<pc[i], cur[i], loaded[i]>>
    <3>1. PICK c \in Cycles : c = CycleOf(i) /\ cycleJob[c] \in Jobs
      BY <1>3, <2>1 DEF IndexerInv, IInv, LinkInv, QueueTypeOK
    <3>2. CycleOf(i)' = c
      BY <1>3, <2>1, <3>1, BodiesStay DEF IndexerInv, IInv
    <3>3. Current(c)'
      BY <1>3, <3>2 DEF Current
    <3>4. Current(c)
      BY <3>1, <3>3, NotCurrentStays
    <3>5. job[cycleJob[c]] = "dead_letter"
      BY <1>3, <2>1, <3>1, <3>4 DEF LedgerInv
    <3>6. QED
      BY <1>1, <3>1, <3>2, <3>3, <3>5
  <2>2. ASSUME NEW m \in Messages, Inspect(i, m)
        PROVE  job'[cycleJob'[CycleOf(i)']] = "dead_letter"
    <3>1. CycleOf(i)' = carries[m] /\ UNCHANGED <<job, cycleJob>>
      BY <2>2 DEF Inspect, Take, LocalTypeOK
    <3>2. loaded'[i] = job[cycleJob[carries[m]]]
      BY <2>2 DEF Inspect, LocalTypeOK
    <3>3. QED
      BY <1>3, <3>1, <3>2
  <2>3. QED
    BY <1>3, <2>1, <2>2, Indexing
<1>4. QED
  BY <1>2, <1>3 DEF LedgerInv

\* What is in the ledger, or obsolete, needs no message.
LEMMA KnownIsOver ==
  ASSUME LedgerInv, NEW c \in Cycles, cycleJob[c] \in Jobs, Known(c) \/ Obsolete(c)
  PROVE  Over(c)
<1>1. CASE Known(c) /\ Current(c)
  BY <1>1 DEF Known, LedgerInv, Over, Replayable, ListedReplayable, Listed
<1>2. CASE Obsolete(c)
  BY <1>2 DEF Obsolete, Over, Current
<1>3. QED
  BY <1>1, <1>2 DEF Over

\* A worker comes to acknowledge when it has written the settlement.
LEMMA Telling ==
  ASSUME BaseInv, [Next]_vars, NEW w \in Workers, pc'[w] = "telling"
  PROVE  Write(w) \/ UNCHANGED <<pc[w], cur[w], goal[w]>>
<1> USE DEF BaseInv, TypeOK, LocalTypeOK
<1>1. ~Abandon(w)
  BY DEF Abandon, Return
<1>2. Worker(w) => Write(w)
  BY <1>1, WorkerCases DEF Receive, JobStep, MissJob, Reconcile, StartJob, Decide, Return,
       RejectMessage, DeadLetter, SendToDlq, AckTerminalJob, AckSettled
<1>3. QED
  BY <1>1, <1>2, WorkerKeeps

LEMMA DeleteStep == BaseInv /\ FreshInv /\ WriteInv /\ LedgerInv /\ DeleteInv /\ [Next]_vars => DeleteInv'
<1> SUFFICES ASSUME BaseInv, FreshInv, WriteInv, LedgerInv, DeleteInv, [Next]_vars
             PROVE  DeleteInv'
  OBVIOUS
<1> USE DEF BaseInv, TypeOK
<1>1. ASSUME NEW w \in Workers, pc'[w] = "telling", goal'[w] \in {"completed", "skipped", "failed"}
      PROVE  Over(CycleOf(w))'
  <2>1. CASE Write(w)
    <3>1. CycleOf(w) \in Cycles /\ JobOf(w) = cycleJob[CycleOf(w)] /\ JobOf(w) \in Jobs
      BY <2>1, AtHand DEF Write, WorkerInv, WInv
    <3>2. job'[JobOf(w)] = goal[w] /\ CycleOf(w)' = CycleOf(w) /\ UNCHANGED <<cycleJob, goal>>
      BY <2>1, <3>1 DEF Write, JobTypeOK
    <3>3. QED
      BY <1>1, <3>1, <3>2 DEF Over
  <2>2. CASE UNCHANGED <<pc[w], cur[w], goal[w]>>
    <3>1. PICK c \in Cycles : c = CycleOf(w) /\ cycleJob[c] \in Jobs /\ c = CycleOf(w)'
      BY <1>1, <2>2, AtHand, WorkerJobStays DEF WorkerInv, WInv
    <3>2. Over(c)'
      BY <1>1, <2>2, <3>1, OverStays DEF DeleteInv
    <3>3. QED
      BY <3>1, <3>2 DEF Over, Current
  <2>3. QED
    BY <1>1, <2>1, <2>2, Telling
<1>2. ASSUME NEW c \in Cycles, cycleJob[c] \in Jobs, Over(c), NEW i \in Indexers, CycleOf(i)' = c
      PROVE  Over(CycleOf(i))'
  <2>1. Over(c)'
    BY <1>2, OverStays
  <2>2. QED
    BY <1>2, <2>1 DEF Over, Current
<1>3. ASSUME NEW i \in Indexers, pc'[i] = "deleting", CycleOf(i)' # NoCycle
      PROVE  Over(CycleOf(i))'
  <2>1. CASE pc[i] = "deleting" /\ CycleOf(i)' = CycleOf(i)
    <3>1. CycleOf(i) \in Cycles /\ cycleJob[CycleOf(i)] \in Jobs
      BY <1>3, <2>1 DEF IndexerInv, IInv, LinkInv, QueueTypeOK
    <3>2. QED
      BY <1>2, <1>3, <2>1, <3>1 DEF DeleteInv
  <2>2. ASSUME NEW m \in Messages, CycleOf(i)' = carries[m], Quarantine(i, m)
        PROVE  Over(CycleOf(i))'
    <3>1. CycleOf(i)' \in quarantined'
      BY <2>2 DEF Quarantine
    <3>2. QED
      BY <3>1 DEF Over
  <2>3. ASSUME NEW m \in Messages, CycleOf(i)' = carries[m], DropKnown(i, m)
        PROVE  Over(CycleOf(i))'
    <3>1. carries[m] \in Cycles /\ cycleJob[carries[m]] \in Jobs
      BY <1>3, <2>3 DEF LinkInv, QueueTypeOK
    <3>2. Known(carries[m]) \/ Obsolete(carries[m])
      BY <2>3 DEF DropKnown
    <3>3. QED
      BY <1>2, <2>3, <3>1, <3>2, KnownIsOver
  <2>4. CASE Index(i) /\ CycleOf(i)' = CycleOf(i)
    <3>1. PICK c \in Cycles : c = CycleOf(i) /\ c = CycleOf(i)'
      BY <1>3, <2>4 DEF Index, IndexerInv, IInv, QueueTypeOK
    <3>2. ledger'[c] = "in_dlq" /\ LedgerInv'
      BY <2>4, <3>1, LedgerStep DEF Index, CycleTypeOK
    <3>3. Over(c)'
      BY <3>2 DEF LedgerInv, Over, Replayable, ListedReplayable, Listed
    <3>4. QED
      BY <3>1, <3>3 DEF Over, Current
  <2>5. QED
    BY <1>3, <2>1, <2>2, <2>3, <2>4, Deleting
<1>4. QED
  BY <1>1, <1>3 DEF DeleteInv

\* SQS has not accepted an event before it was published to it.
LEMMA AcceptedMoves ==
  ASSUME BaseInv, [Next]_vars, NEW c \in accepted', c \notin accepted
  PROVE  c \in Cycles /\ Publish(c)
<1>1. ~Producers /\ ~Time
  BY DEF Producers, Dispatch, SendDirect, CommitDirect, RollbackDirect, Replay, Outbox!Add,
         Time, BecomeVisible, Redrive, GrowOld
<1>2. ASSUME NEW w \in Workers
      PROVE  ~Worker(w)
  BY WorkerCases DEF Receive, JobStep, MissJob, Reconcile, StartJob, Decide, Write, Abandon,
       RejectMessage, DeadLetter, SendToDlq, AckTerminalJob, AckSettled
<1>3. ASSUME NEW i \in Indexers
      PROVE  ~Indexer(i)
  BY DEF Indexer, ReceiveDeadLetters, Quarantine, DropKnown, Inspect, Take, Index,
       LoseIndexRace, Abandon, DeleteDeadLetter
<1>4. Publisher
  BY <1>1, <1>2, <1>3 DEF Next, Run, Crash, Abandon, PollNothing, vars
<1>5. QED
  BY <1>4 DEF Publisher, Publish, SettlePublished, GiveUp, Outbox!Accept, Outbox!Settle

LEMMA SentIsInSqs ==
  ASSUME TypeOK, NEW c \in Cycles, SendMessage("main", c)
  PROVE  InSqs(c)'
BY DEF SendMessage, InSqs, TypeOK, QueueTypeOK

LEMMA KeptStep == BaseInv /\ FreshInv /\ WriteInv /\ DeleteInv /\ KeptInv /\ [Next]_vars => KeptInv'
<1> SUFFICES ASSUME BaseInv, FreshInv, WriteInv, DeleteInv, KeptInv, [Next]_vars,
                    NEW c \in Cycles, cycleJob'[c] \in Jobs
             PROVE  Unsent(c)' \/ InSqs(c)' \/ Over(c)'
  BY DEF KeptInv
<1> USE DEF BaseInv
<1>1. CASE cycleJob[c] \notin Jobs
  <2>1. cycleJob[c] = NoJob /\ c \notin accepted /\ fate[c] = "none"
    BY <1>1 DEF LinkInv, TypeOK, CycleTypeOK
  <2>2. ASSUME Outbox!Add(c)
        PROVE  Unsent(c)'
    BY <2>1, <2>2 DEF Outbox!Add, Unsent, TypeOK, CycleTypeOK
  <2>3. QED
    BY <1>1, <2>2, CycleMade, SentIsInSqs DEF Dispatch, SendDirect, Replay
<1>2. CASE cycleJob[c] \in Jobs /\ Over(c)
  BY <1>2, OverStays
<1>3. CASE cycleJob[c] \in Jobs /\ InSqs(c)
  <2>1. PICK m \in Messages : place[m] # "absent" /\ carries[m] = c
    BY <1>3 DEF InSqs
  <2>2. ASSUME NEW p \in Processes, Deletes(p), cur[p] = m
        PROVE  Over(c)
    BY <1>3, <2>1, <2>2 DEF Deletes, AckTerminalJob, AlreadyTerminal, AckSettled, DeleteDeadLetter, DeleteInv, Over
  <2>3. QED
    BY <1>2, <1>3, <2>1, <2>2, StaysInSqs DEF InSqs
<1>4. CASE cycleJob[c] \in Jobs /\ Unsent(c)
  <2>1. CASE c \in accepted'
    BY <1>4, <2>1, AcceptedMoves, SentIsInSqs DEF Unsent, Publish
  <2>2. CASE c \notin accepted' /\ fate'[c] # fate[c]
    <3>1. (\A j \in Jobs : ~Dispatch(j, c)) /\ (\A l \in Cycles : ~Replay(l, c))
      BY <1>4 DEF Dispatch, Replay, NextCycle
    <3>2. ~SettlePublished(c)
      BY <1>4 DEF SettlePublished, Outbox!Settle, Unsent
    <3>3. GiveUp(c)
      BY <2>2, <3>1, <3>2, FateMoves
    <3>4. QED
      BY <2>2, <3>3 DEF GiveUp, Outbox!Settle, Unsent
  <2>3. QED
    BY <1>4, <2>1, <2>2 DEF Unsent
<1>5. QED
  BY <1>1, <1>2, <1>3, <1>4 DEF KeptInv

LEMMA OrderedInit == Init => LeaseInv /\ FreshInv /\ WriteInv /\ LedgerInv /\ DeleteInv /\ KeptInv /\ ReplayInv
<1> SUFFICES ASSUME Init
             PROVE  LeaseInv /\ FreshInv /\ WriteInv /\ LedgerInv /\ DeleteInv /\ KeptInv /\ ReplayInv
  OBVIOUS
<1>1. \A p \in Processes : pc[p] = "idle" /\ cur[p] = NoMessage /\ batch[p] = {}
  BY DEF Init
<1>2. \A c \in Cycles : cycleJob[c] = NoJob /\ ledger[c] = "none" /\ fate[c] = "none"
  BY DEF Init, Outbox!Init
<1>3. \A j \in Jobs, m \in Messages : ~About(m, j)
  BY DEF Init, About
<1>4. LeaseInv /\ WriteInv /\ DeleteInv
  BY <1>1 DEF LeaseInv, WriteInv, DeleteInv
<1>5. FreshInv
  BY <1>1, <1>2, <1>3 DEF Init, FreshInv, Fresh
<1>6. LedgerInv /\ KeptInv /\ ReplayInv
  BY <1>1, <1>2 DEF LedgerInv, KeptInv, ReplayInv
<1>7. QED
  BY <1>4, <1>5, <1>6

\* The invariants of the orderly pipeline hold together.
LEMMA OrderedAlways ==
  ASSUME Orderly
  PROVE  Spec => [](OrderInv /\ CycleInv)
<1>1. Init => OrderInv /\ CycleInv
  BY OrderedInit DEF OrderInv, CycleInv
<1>2. BaseInv /\ OrderInv /\ CycleInv /\ [Next]_vars => (OrderInv /\ CycleInv)'
  BY LeaseStep, FreshStep, WriteStep, LedgerStep, DeleteStep, KeptStep DEF OrderInv, CycleInv
<1>3. QED
  BY <1>1, <1>2, BaseAlways, PTL DEF Spec

\* The current cycle of a job is one of its cycles.
LEMMA CurrentIsCurrent ==
  ASSUME BaseInv, NEW j \in Jobs, job[j] # "absent"
  PROVE  CurrentCycle(j) \in Cycles /\ cycleJob[CurrentCycle(j)] = j /\ Current(CurrentCycle(j))
<1>1. CASE cycle[j] # NoCycle
  BY <1>1 DEF BaseInv, LinkInv, TypeOK, JobTypeOK, CurrentCycle, Current
<1>2. CASE cycle[j] = NoCycle
  <2>1. \E c \in Cycles : cycleJob[c] = j
    BY DEF BaseInv, LinkInv
  <2>2. CurrentCycle(j) = CHOOSE c \in Cycles : cycleJob[c] = j
    BY <1>2 DEF CurrentCycle
  <2>3. CurrentCycle(j) \in Cycles /\ cycleJob[CurrentCycle(j)] = j
    BY <2>1, <2>2
  <2>4. QED
    BY <1>2, <2>3 DEF Current
<1>3. QED
  BY <1>1, <1>2

\* No job is forgotten while workers settle within their lease, whatever is
\* killed, delivered again, refused by SQS or given up: the message of the
\* current cycle is unsent, in SQS or in quarantine until the job is settled or
\* its entry of the ledger can be replayed.
THEOREM NoJobIsForgotten ==
  ASSUME Orderly
  PROVE  Spec => []NoJobForgotten
<1>1. ASSUME BaseInv, CycleInv
      PROVE  NoJobForgotten
  <2> SUFFICES ASSUME NEW j \in Jobs, job[j] \in {"queued", "processing", "retrying", "dead_letter"},
                      NEW c, c = CurrentCycle(j)
               PROVE  Unsent(c) \/ InSqs(c) \/ c \in quarantined \/ Replayable(j)
    BY DEF NoJobForgotten
  <2>1. c \in Cycles /\ cycleJob[c] = j /\ Current(c)
    BY <1>1, CurrentIsCurrent
  <2>2. Unsent(c) \/ InSqs(c) \/ Over(c)
    BY <1>1, <2>1 DEF CycleInv, KeptInv
  <2>3. QED
    BY <2>1, <2>2 DEF Over
<1>2. QED
  BY <1>1, BaseAlways, OrderedAlways, PTL

-----------------------------------------------------------------------------
(* Replay                                                                  *)

\* The payload of a job never loses its cycle.
LEMMA PayloadStays ==
  ASSUME BaseInv, [Next]_vars, NEW j \in Jobs, cycle[j] # NoCycle
  PROVE  cycle'[j] # NoCycle
<1> SUFFICES ASSUME cycle'[j] # cycle[j]
             PROVE  cycle'[j] # NoCycle
  OBVIOUS
<1> USE DEF BaseInv, TypeOK, JobTypeOK
<1>1. \A c \in Cycles : Dispatch(j, c) => cycle'[j] # NoCycle
  BY DEF Dispatch
<1>2. \A l, c \in Cycles : Replay(l, c) /\ cycleJob[l] = j => cycle'[j] # NoCycle
  BY DEF Replay
<1>3. ASSUME NEW w \in Workers, JobOf(w) = j, Reconcile(w) \/ StartJob(w)
      PROVE  cycle'[j] # NoCycle
  <2>1. CycleOf(w) # NoCycle
    BY <1>3
  <2>2. QED
    BY <1>3, <2>1 DEF Reconcile, StartJob
<1>4. QED
  BY <1>1, <1>2, <1>3, CycleMoves

LEMMA ReplayStep == ~Outages /\ BaseInv /\ FreshInv /\ ReplayInv /\ [Next]_vars => ReplayInv'
<1> SUFFICES ASSUME ~Outages, BaseInv, FreshInv, ReplayInv, [Next]_vars
             PROVE  ReplayInv'
  OBVIOUS
<1> USE DEF BaseInv, TypeOK, JobTypeOK, CycleTypeOK
<1>1. ASSUME NEW c \in Cycles, NEW d \in Cycles, NEW j \in Jobs, cycleJob'[c] = j, cycleJob'[d] = j,
             cycle'[j] = NoCycle, c # d
      PROVE  FALSE
  <2>1. cycle[j] = NoCycle
    BY <1>1, PayloadStays
  <2>2. \A e \in Cycles : ~Dispatch(j, e)
    BY <1>1 DEF Dispatch
  <2>3. \A l, e \in Cycles : Replay(l, e) => cycleJob[l] # j
    BY <1>1 DEF Replay
  <2>4. ASSUME NEW e \in Cycles, SendDirect(j, e)
        PROVE  FALSE
    BY <1>1, <2>4 DEF SendDirect, Unused
  <2>5. cycleJob[c] = j /\ cycleJob[d] = j
    <3>1. ASSUME NEW e \in Cycles, cycleJob'[e] = j
          PROVE  cycleJob[e] = j
      BY <2>2, <2>3, <2>4, <3>1, CycleMade
    <3>2. QED
      BY <1>1, <3>1
  <2>6. QED
    BY <1>1, <2>1, <2>5 DEF ReplayInv, Current
<1>2. ASSUME NEW c \in Cycles, cycleJob'[c] \in Jobs, ~Current(c)'
      PROVE  ledger'[c] \in {"replay_pending", "replayed"}
  <2>1. PICK j \in Jobs : j = cycleJob'[c] /\ cycle'[j] \notin {NoCycle, c}
    BY <1>2 DEF Current
  <2>2. cycleJob[c] = j
    <3>1. \A l \in Cycles : ~Dispatch(j, c) /\ (Replay(l, c) => cycleJob[l] # j)
      BY <2>1 DEF Dispatch, Replay
    <3>2. ~SendDirect(j, c)
      BY <2>1 DEF SendDirect, Unused, FreshInv, Fresh
    <3>3. QED
      BY <2>1, <3>1, <3>2, CycleMade
  <2>3. CASE ~Current(c)
    <3>1. ledger[c] \in {"replay_pending", "replayed"}
      BY <2>2, <2>3 DEF ReplayInv
    <3>2. \A d \in Cycles : ~GiveUp(d)
      BY DEF GiveUp
    <3>3. \A d \in Cycles : SettlePublished(d) => ledger'[c] \in {ledger[c], "replayed"}
      BY DEF SettlePublished, Settled
    <3>4. /\ \A i \in Indexers : CycleOf(i) = c => ~Index(i)
          /\ \A d \in Cycles : ~Replay(c, d)
      BY <3>1 DEF Index, Replay
    <3>5. ledger'[c] # ledger[c] => \E d \in Cycles : SettlePublished(d)
      BY <3>2, <3>4, LedgerMoves
    <3>6. QED
      BY <3>1, <3>3, <3>5
  <2>4. CASE Current(c)
    <3>1. cycle'[j] # cycle[j]
      BY <2>1, <2>2, <2>4 DEF Current
    <3>2. \A e \in Cycles : ~Dispatch(j, e)
      BY <2>2 DEF Dispatch, Unused
    <3>3. ASSUME NEW w \in Workers, JobOf(w) = j, Reconcile(w) \/ StartJob(w)
          PROVE  FALSE
      <4>1. pc[w] # "idle"
        BY <3>3 DEF Reconcile, StartJob
      <4>2. PICK d \in Cycles : d = CycleOf(w) /\ cycleJob[d] = j
        BY <3>3, <4>1, AtHand
      <4>3. cycle[j] = NoCycle /\ cycle'[j] = d
        BY <3>1, <3>3, <4>2 DEF Reconcile, StartJob, FreshInv, Fresh
      <4>4. c = d
        BY <2>2, <4>2, <4>3 DEF ReplayInv, Current
      <4>5. QED
        BY SMTT(30), <2>1, <4>3, <4>4
    <3>4. PICK l \in Cycles, e \in Cycles : Replay(l, e) /\ cycleJob[l] = j
      BY <3>1, <3>2, <3>3, CycleMoves
    <3>5. Current(l)
      BY <3>4 DEF Replay, ReplayInv
    <3>6. c = l
      BY <2>2, <2>4, <3>4, <3>5 DEF ReplayInv
    <3>7. QED
      BY <3>4, <3>6 DEF Replay
  <2>5. QED
    BY <2>3, <2>4
<1>3. ASSUME NEW c \in Cycles, NEW d \in Cycles, cycleJob'[c] \in Jobs, cycleJob'[d] = cycleJob'[c],
             Current(c)', Current(d)'
      PROVE  c = d
  BY <1>1, <1>3 DEF Current
<1>4. QED
  BY <1>2, <1>3 DEF ReplayInv

\* Every entry shown as in_dlq can be replayed, as long as workers settle within
\* their lease and the publisher gives up no event: no dead letter is left with a
\* job that has gone on without it.
THEOREM DeadLettersReplayable ==
  ASSUME Orderly, ~Outages
  PROVE  Spec => []InDlqIsReplayable
<1>1. ASSUME BaseInv, CycleInv, ReplayInv
      PROVE  InDlqIsReplayable
  BY <1>1 DEF CycleInv, LedgerInv, ReplayInv, InDlqIsReplayable, ListedReplayable, Listed, BaseInv, LinkInv
<1>2. Init => ReplayInv
  BY OrderedInit
<1>3. BaseInv /\ OrderInv /\ ReplayInv /\ [Next]_vars => ReplayInv'
  BY ReplayStep DEF OrderInv
<1>4. QED
  BY <1>1, <1>2, <1>3, BaseAlways, OrderedAlways, PTL DEF Spec
=============================================================================
