------------------------ MODULE LocalPipeline_proofs ------------------------
(***************************************************************************)
(* Proofs about LocalPipeline for every value of its constants: its types, *)
(* the soundness of receipt handles, the wholeness of completed jobs and   *)
(* the counters of observations; then what it guarantees when every live   *)
(* worker settles within the visibility timeout and no row is older than   *)
(* the scraping_jobs table: a row is handled by one worker at a time and a *)
(* job has one row, so the unlocked settlements of process_next_message    *)
(* are harmless.  Last, what the operator's views of the queue             *)
(* (QueueViews) can be trusted with.                                       *)
(***************************************************************************)
EXTENDS QueueViews, FiniteSetTheorems, TLAPS

\* What a worker relies on: the row it received exists, names a job unless it
\* is to be rejected, and the positions handled so far are observed.
WInv(w) ==
  /\ pc[w] # "idle" => cur[w] \in Rows /\ rowStatus[cur[w]] # "absent"
  /\ pc[w] \in {"reconciling", "scraping", "deciding", "writing", "acking"} =>
       JobOf(w) \in Jobs
  /\ pc[w] \in {"deciding", "writing", "acking"} => goal[w] \in Goals
  /\ pc[w] \in {"deciding", "writing", "acking"} /\ goal[w] = "completed" =>
       next[w] > BatchSize
  /\ pc[w] \in {"scraping", "deciding", "writing", "acking"} =>
       Linked \cap 1..(next[w] - 1) \subseteq obs[JobOf(w)]
  /\ pc[w] \in {"idle", "begin", "reconciling"} => next[w] = 1

WorkerInv == \A w \in Workers : WInv(w)

USE PipelineAssumption DEF Rows, NoRow

-----------------------------------------------------------------------------
(* Types                                                                   *)

\* A worker that returns to its loop leaves well-typed locals behind.
LEMMA ReturnType ==
  ASSUME WorkerTypeOK, NEW w \in Workers, Return(w)
  PROVE  WorkerTypeOK'
BY DEF WorkerTypeOK, Return, AttemptsCap

\* Dropping receipt handles keeps the rows well-typed.
LEMMA ForgetType ==
  ASSUME NEW w \in Workers, Forget(w), holder \in [Rows -> Workers \cup {Nobody}]
  PROVE  holder' \in [Rows -> Workers \cup {Nobody}]
BY DEF Forget

\* Leaving process_next_message early keeps every type.
LEMMA AbandonType ==
  ASSUME TypeOK, NEW w \in Workers, Abandon(w)
  PROVE  TypeOK'
<1>1. WorkerTypeOK'
  BY ReturnType DEF Abandon, TypeOK
<1>2. RowTypeOK'
  BY ForgetType DEF Abandon, TypeOK, RowTypeOK
<1>3. JobTypeOK'
  BY DEF Abandon, TypeOK, JobTypeOK, jobVars
<1>4. QED
  BY <1>1, <1>2, <1>3 DEF TypeOK

\* The three queue operations on an acknowledged row.
LEMMA AckType ==
  ASSUME TypeOK, NEW w \in Workers, DeleteMessage(w) \/ ChangeVisibility(w)
  PROVE  RowTypeOK'
<1>1. holder' \in [Rows -> Workers \cup {Nobody}]
  BY ForgetType DEF TypeOK, RowTypeOK, DeleteMessage, ChangeVisibility
<1>2. rowStatus' \in [Rows -> RowStatuses \cup {"absent"}]
  BY DEF TypeOK, RowTypeOK, RowStatuses, DeleteMessage, ChangeVisibility
<1>3. visible' \in [Rows -> BOOLEAN]
  BY DEF TypeOK, RowTypeOK, DeleteMessage, ChangeVisibility, Held
<1>4. QED
  BY <1>1, <1>2, <1>3 DEF TypeOK, RowTypeOK, DeleteMessage, ChangeVisibility

\* send_to_dlq, which either remembers the row or inserts a copy.
LEMMA DeadLetterType ==
  ASSUME TypeOK, WorkerInv, NEW w \in Workers, pc[w] # "idle",
         FindDeadLetter(w) \/ \E m \in Rows : InsertDeadLetter(w, m)
  PROVE  TypeOK'
<1>1. CASE FindDeadLetter(w)
  BY <1>1 DEF FindDeadLetter, TypeOK, JobTypeOK, RowTypeOK, WorkerTypeOK, jobVars, rowVars
<1>2. ASSUME NEW m \in Rows, InsertDeadLetter(w, m)
      PROVE  TypeOK'
  <2>1. WorkerTypeOK'
    BY <1>2, ReturnType DEF InsertDeadLetter, TypeOK
  <2>2. JobOf(w) \in Jobs \cup {NoJob} /\ tries[w] \in 0..AttemptsCap
    BY DEF TypeOK, RowTypeOK, WorkerTypeOK, WorkerInv, WInv, JobOf
  <2>3. RowTypeOK'
    BY <1>2, <2>2 DEF InsertDeadLetter, TypeOK, RowTypeOK, RowStatuses
  <2>4. JobTypeOK'
    BY <1>2 DEF InsertDeadLetter, TypeOK, JobTypeOK, jobVars
  <2>5. QED
    BY <2>1, <2>3, <2>4 DEF TypeOK
<1>3. QED
  BY <1>1, <1>2

\* Every step keeps the types.
LEMMA TypeStep == TypeOK /\ WorkerInv /\ [Next]_vars => TypeOK'
<1> SUFFICES ASSUME TypeOK, WorkerInv, [Next]_vars
             PROVE  TypeOK'
  OBVIOUS
<1> USE DEF JobTypeOK, RowTypeOK, jobVars, rowVars, localVars
<1>1. ASSUME NEW j \in Jobs, NEW m \in Rows, CreateJob(j, m)
      PROVE  TypeOK'
  BY <1>1 DEF CreateJob, TypeOK, WorkerTypeOK, JobStatuses, RowStatuses
<1>2. ASSUME NEW S \in SUBSET Rows, Replay(S)
      PROVE  TypeOK'
  BY <1>2 DEF Replay, TypeOK, WorkerTypeOK, JobStatuses, RowStatuses, AttemptsCap
<1>3. ASSUME NEW w \in Workers, NEW m \in Rows, Receive(w, m)
      PROVE  TypeOK'
  <2>1. RowTypeOK' /\ JobTypeOK'
    BY <1>3 DEF Receive, Claim, TypeOK, RowStatuses, AttemptsCap
  <2>2. WorkerTypeOK'
    BY SMTT(30), <1>3, <2>1 DEF Receive, TypeOK, WorkerTypeOK
  <2>3. QED
    BY <2>1, <2>2 DEF TypeOK
<1>4. ASSUME NEW w \in Workers, RejectMessage(w) \/ DeadLetter(w)
      PROVE  TypeOK'
  BY <1>4, DeadLetterType DEF RejectMessage, DeadLetter
<1>5. ASSUME NEW w \in Workers, MissJob(w)
      PROVE  TypeOK'
  BY <1>5 DEF MissJob, TypeOK, WorkerTypeOK
<1>6. ASSUME NEW w \in Workers, ReconcileLegacyJob(w)
      PROVE  TypeOK'
  BY <1>6 DEF ReconcileLegacyJob, TypeOK, WorkerTypeOK, JobStatuses
<1>7. ASSUME NEW w \in Workers,
             \/ LoseReconcileRace(w) \/ SkipConcurrent(w) \/ RefuseStart(w)
             \/ RefuseSettlement(w) \/ Crash(w)
      PROVE  TypeOK'
  BY <1>7, AbandonType DEF LoseReconcileRace, SkipConcurrent, RefuseStart,
                           RefuseSettlement, Crash
<1>8. ASSUME NEW w \in Workers, AckTerminalJob(w) \/ AckSettled(w) \/ ScheduleRetry(w)
      PROVE  TypeOK'
  <2>1. RowTypeOK'
    BY <1>8, AckType DEF AckTerminalJob, AckSettled, ScheduleRetry
  <2>2. WorkerTypeOK'
    BY <1>8, ReturnType DEF AckTerminalJob, AckSettled, ScheduleRetry, TypeOK
  <2>3. JobTypeOK'
    BY <1>8 DEF AckTerminalJob, AckSettled, ScheduleRetry, TypeOK
  <2>4. QED
    BY <2>1, <2>2, <2>3 DEF TypeOK
<1>9. ASSUME NEW w \in Workers, StartJob(w)
      PROVE  TypeOK'
  BY <1>9 DEF StartJob, TypeOK, WorkerTypeOK, JobStatuses
<1>10. ASSUME NEW w \in Workers, InsertObservation(w)
       PROVE  TypeOK'
  <2>1. JobTypeOK' /\ RowTypeOK'
    BY <1>10 DEF InsertObservation, TypeOK
  <2>2. next' \in [Workers -> 1..(BatchSize + 1)]
    BY <1>10 DEF InsertObservation, TypeOK, WorkerTypeOK
  <2>3. gain' \in [Workers -> Nat]
    BY <1>10 DEF InsertObservation, TypeOK, WorkerTypeOK
  <2>4. seen' \in [Workers -> JobStatuses \cup {"unread"}]
    BY <1>10 DEF InsertObservation, TypeOK, WorkerTypeOK
  <2>5. QED
    BY <1>10, <2>1, <2>2, <2>3, <2>4 DEF InsertObservation, TypeOK, WorkerTypeOK
<1>11. ASSUME NEW w \in Workers, SkipProduct(w) \/ FinishJob(w)
       PROVE  TypeOK'
  <2>1. CASE SkipProduct(w)
    BY <2>1, SMTT(30) DEF SkipProduct, TypeOK, WorkerTypeOK
  <2>2. CASE FinishJob(w)
    BY <2>2 DEF FinishJob, TypeOK, WorkerTypeOK, Goals
  <2>3. QED
    BY <1>11, <2>1, <2>2
<1>12. ASSUME NEW w \in Workers, NEW error \in StoreErrors \cup FetchErrors,
              RaiseError(w, error)
       PROVE  TypeOK'
  BY <1>12 DEF RaiseError, Settlement, TypeOK, WorkerTypeOK, Goals
<1>13. ASSUME NEW w \in Workers, Decide(w)
       PROVE  TypeOK'
  BY <1>13 DEF Decide, LoadedStatus, LoadedCount, TypeOK, WorkerTypeOK, WorkerInv, WInv
<1>14. ASSUME NEW w \in Workers, Write(w)
       PROVE  TypeOK'
  <2>1. JobOf(w) \in Jobs /\ goal[w] \in Goals
    BY <1>14 DEF Write, WorkerInv, WInv
  <2>2. NewCount(w) \in Nat
    BY <2>1 DEF NewCount, TypeOK, WorkerTypeOK
  <2>3. JobTypeOK'
    BY <1>14, <2>1, <2>2 DEF Write, TypeOK, Goals, JobStatuses
  <2>4. QED
    BY <1>14, <2>3 DEF Write, TypeOK, WorkerTypeOK
<1>15. ASSUME NEW w \in Workers, MoveToDlq(w)
       PROVE  TypeOK'
  <2>1. WorkerTypeOK'
    BY <1>15, ReturnType DEF MoveToDlq, TypeOK
  <2>2. JobTypeOK' /\ RowTypeOK'
    BY <1>15 DEF MoveToDlq, TypeOK, RowStatuses
  <2>3. QED
    BY <2>1, <2>2 DEF TypeOK
<1>16. ASSUME NEW m \in Rows, BecomeVisible(m)
       PROVE  TypeOK'
  BY <1>16 DEF BecomeVisible, TypeOK, WorkerTypeOK
<1>17. ASSUME NEW j \in Jobs, GrowOld(j)
       PROVE  TypeOK'
  BY <1>17 DEF GrowOld, TypeOK, WorkerTypeOK
<1>18. CASE UNCHANGED vars
  BY <1>18 DEF vars, TypeOK, WorkerTypeOK
<1>19. QED
  BY <1>1, <1>2, <1>3, <1>4, <1>5, <1>6, <1>7, <1>8, <1>9, <1>10, <1>11, <1>12,
     <1>13, <1>14, <1>15, <1>16, <1>17, <1>18 DEF Next, Step, PollNothing

-----------------------------------------------------------------------------
(* What a worker relies on                                                 *)

\* Rows are never removed nor given to another job, observations never deleted.
RowsStable ==
  \A m \in Rows : rowStatus[m] # "absent" =>
    rowStatus'[m] # "absent" /\ rowJob'[m] = rowJob[m]

ObsGrow == \A j \in Jobs : obs[j] \subseteq obs'[j]

LocalsKept(w) ==
  pc'[w] = pc[w] /\ cur'[w] = cur[w] /\ next'[w] = next[w] /\ goal'[w] = goal[w]

\* An action of somebody else does not disturb what a worker relies on.
LEMMA Frame ==
  ASSUME NEW w \in Workers, WInv(w), RowsStable, ObsGrow, LocalsKept(w)
  PROVE  WInv(w)'
BY DEF WInv, RowsStable, ObsGrow, LocalsKept, JobOf

\* A worker back in its loop relies on nothing.
LEMMA ReturnInv ==
  ASSUME WorkerTypeOK, NEW w \in Workers, Return(w)
  PROVE  WInv(w)'
BY DEF WorkerTypeOK, Return, WInv

\* Payloads never change, observations are never lost.
LEMMA StepStable == TypeOK /\ WorkerInv /\ [Next]_vars => RowsStable /\ ObsGrow
<1> SUFFICES ASSUME TypeOK, WorkerInv, [Next]_vars
             PROVE  RowsStable /\ ObsGrow
  OBVIOUS
<1> USE DEF RowsStable, ObsGrow, jobVars, rowVars, TypeOK, JobTypeOK, RowTypeOK
<1>1. ASSUME NEW j \in Jobs, NEW m \in Rows, CreateJob(j, m)
      PROVE  RowsStable /\ ObsGrow
  BY <1>1 DEF CreateJob, Fresh
<1>2. ASSUME NEW S \in SUBSET Rows, Replay(S)
      PROVE  RowsStable /\ ObsGrow
  BY <1>2 DEF Replay
<1>3. ASSUME NEW w \in Workers, NEW m \in Rows, Receive(w, m)
      PROVE  RowsStable /\ ObsGrow
  BY <1>3 DEF Receive, Claim
<1>4. ASSUME NEW w \in Workers, FindDeadLetter(w)
      PROVE  RowsStable /\ ObsGrow
  BY <1>4 DEF FindDeadLetter
<1>5. ASSUME NEW w \in Workers, NEW m \in Rows, InsertDeadLetter(w, m)
      PROVE  RowsStable /\ ObsGrow
  BY <1>5 DEF InsertDeadLetter, Fresh
<1>6. ASSUME NEW w \in Workers,
             \/ MissJob(w) \/ ReconcileLegacyJob(w) \/ StartJob(w) \/ SkipProduct(w)
             \/ FinishJob(w) \/ Decide(w) \/ Write(w) \/ Abandon(w)
      PROVE  RowsStable /\ ObsGrow
  BY <1>6 DEF MissJob, ReconcileLegacyJob, StartJob, SkipProduct, FinishJob, Decide,
              Write, Abandon
<1>7. ASSUME NEW w \in Workers, InsertObservation(w)
      PROVE  RowsStable /\ ObsGrow
  BY <1>7 DEF InsertObservation
<1>8. ASSUME NEW w \in Workers, NEW error \in StoreErrors \cup FetchErrors,
             RaiseError(w, error)
      PROVE  RowsStable /\ ObsGrow
  BY <1>8 DEF RaiseError
<1>9. ASSUME NEW w \in Workers, AckTerminalJob(w) \/ AckSettled(w) \/ ScheduleRetry(w)
      PROVE  RowsStable /\ ObsGrow
  BY <1>9 DEF AckTerminalJob, AckSettled, ScheduleRetry, DeleteMessage, ChangeVisibility
<1>10. ASSUME NEW w \in Workers, MoveToDlq(w)
       PROVE  RowsStable /\ ObsGrow
  BY <1>10 DEF MoveToDlq
<1>11. ASSUME NEW m \in Rows, BecomeVisible(m)
       PROVE  RowsStable /\ ObsGrow
  BY <1>11 DEF BecomeVisible
<1>12. ASSUME NEW j \in Jobs, GrowOld(j)
       PROVE  RowsStable /\ ObsGrow
  BY <1>12 DEF GrowOld
<1>13. CASE UNCHANGED vars
  BY <1>13 DEF vars
<1>14. QED
  BY <1>1, <1>2, <1>3, <1>4, <1>5, <1>6, <1>7, <1>8, <1>9, <1>10, <1>11, <1>12, <1>13
     DEF Next, Step, PollNothing, RejectMessage, DeadLetter, LoseReconcileRace,
         SkipConcurrent, RefuseStart, RefuseSettlement, Crash

\* Every step keeps what each worker knows of its row and batch.
LEMMA WorkerStep == TypeOK /\ WorkerInv /\ [Next]_vars => WorkerInv'
<1> SUFFICES ASSUME TypeOK, WorkerInv, [Next]_vars, NEW v \in Workers
             PROVE  WInv(v)'
  BY DEF WorkerInv
<1>0. RowsStable /\ ObsGrow /\ WInv(v)
  BY StepStable DEF WorkerInv
<1> USE DEF TypeOK, WorkerTypeOK
<1>1. CASE LocalsKept(v)
  BY <1>0, <1>1, Frame
<1>2. CASE Return(v)
  BY <1>2, ReturnInv
<1>3. ASSUME NEW m \in Rows, Receive(v, m)
      PROVE  WInv(v)'
  BY <1>0, <1>3 DEF Receive, Claim, RowTypeOK, WInv
<1>4. CASE FindDeadLetter(v) /\ pc[v] # "idle"
  BY <1>0, <1>4 DEF FindDeadLetter, RowsStable, WInv
<1>5. CASE MissJob(v)
  BY <1>0, <1>5 DEF MissJob, RowsStable, WInv, JobOf
<1>6. CASE ReconcileLegacyJob(v) \/ StartJob(v)
  BY <1>0, <1>6 DEF ReconcileLegacyJob, StartJob, RowsStable, WInv, JobOf
<1>7. CASE InsertObservation(v)
  <2>1. JobOf(v)' = JobOf(v) /\ JobOf(v) \in Jobs
    BY <1>0, <1>7 DEF InsertObservation, RowsStable, WInv, JobOf
  <2>2. next'[v] = next[v] + 1 /\ next[v] \in Nat
    BY <1>7 DEF InsertObservation
  <2>3. obs'[JobOf(v)] = obs[JobOf(v)] \cup {next[v]}
    BY <1>7, <2>1 DEF InsertObservation, JobTypeOK
  <2>4. Linked \cap 1..(next'[v] - 1) \subseteq obs'[JobOf(v)]
    BY <1>0, <1>7, <2>2, <2>3 DEF InsertObservation, WInv
  <2>5. QED
    BY <1>0, <1>7, <2>1, <2>4 DEF InsertObservation, RowsStable, WInv
<1>8. CASE SkipProduct(v)
  <2>1. JobOf(v)' = JobOf(v) /\ obs' = obs
    BY <1>0, <1>8 DEF SkipProduct, RowsStable, WInv, JobOf, jobVars
  <2>2. next'[v] = next[v] + 1 /\ next[v] \in Nat /\ next[v] \notin Linked
    BY <1>8 DEF SkipProduct
  <2>3. Linked \cap 1..(next'[v] - 1) \subseteq obs[JobOf(v)]
    BY <1>0, <1>8, <2>2 DEF SkipProduct, WInv
  <2>4. QED
    BY <1>0, <1>8, <2>1, <2>3 DEF SkipProduct, RowsStable, WInv
<1>9. CASE FinishJob(v)
  BY <1>0, <1>9 DEF FinishJob, RowsStable, WInv, JobOf, Goals, jobVars
<1>10. ASSUME NEW error \in StoreErrors \cup FetchErrors, RaiseError(v, error)
       PROVE  WInv(v)'
  BY <1>0, <1>10 DEF RaiseError, Settlement, RowsStable, WInv, JobOf, Goals, jobVars
<1>11. CASE Decide(v) \/ Write(v)
  BY <1>0, <1>11 DEF Decide, Write, RowsStable, WInv, JobOf, jobVars
<1>12. \A w \in Workers : (Step(w) \/ Crash(w)) /\ w # v => LocalsKept(v)
  BY DEF Step, Crash, LocalsKept, RejectMessage, DeadLetter, FindDeadLetter,
         InsertDeadLetter, MissJob, ReconcileLegacyJob, LoseReconcileRace,
         AckTerminalJob, SkipConcurrent, StartJob, RefuseStart, InsertObservation,
         SkipProduct, FinishJob, RaiseError, Decide, RefuseSettlement, Write,
         AckSettled, ScheduleRetry, MoveToDlq, Abandon, Return
<1>13. Step(v) \/ Crash(v) => WInv(v)'
  BY <1>2, <1>4, <1>5, <1>6, <1>7, <1>8, <1>9, <1>10, <1>11
     DEF Step, Crash, RejectMessage, DeadLetter, InsertDeadLetter, LoseReconcileRace,
         AckTerminalJob, SkipConcurrent, RefuseStart, RefuseSettlement, AckSettled,
         ScheduleRetry, MoveToDlq, Abandon
<1>14. ASSUME NEW w \in Workers, NEW m \in Rows, Receive(w, m), w # v
       PROVE  LocalsKept(v)
  BY <1>14 DEF Receive, LocalsKept
<1>15. ASSUME \/ \E j \in Jobs, m \in Rows : CreateJob(j, m)
              \/ \E S \in SUBSET Rows : Replay(S)
              \/ \E m \in Rows : BecomeVisible(m)
              \/ \E j \in Jobs : GrowOld(j)
              \/ UNCHANGED vars
       PROVE  LocalsKept(v)
  BY <1>15 DEF CreateJob, Replay, BecomeVisible, GrowOld, vars, localVars, LocalsKept
<1>16. QED
  BY <1>1, <1>3, <1>12, <1>13, <1>14, <1>15 DEF Next, PollNothing

-----------------------------------------------------------------------------
(* The theorems that hold with any number of slow or crashing workers      *)

\* Every variable keeps its type, and every worker can rely on its row, its job
\* and the observations behind it (process_next_message, process_job).
THEOREM TypeCorrect == Spec => [](TypeOK /\ WorkerInv)
<1>1. Init => TypeOK /\ WorkerInv
  BY DEF Init, TypeOK, JobTypeOK, RowTypeOK, WorkerTypeOK, WorkerInv, WInv,
         RowStatuses, AttemptsCap
<1>2. TypeOK /\ WorkerInv /\ [Next]_vars => (TypeOK /\ WorkerInv)'
  BY TypeStep, WorkerStep
<1>3. QED
  BY <1>1, <1>2, PTL DEF Spec

\* A worker that returns holds no row, provided it held only the row it received.
LEMMA ForgetHandle ==
  ASSUME HandleInv, NEW w \in Workers, Forget(w), pc' = [pc EXCEPT ![w] = "idle"],
         cur' = [cur EXCEPT ![w] = NoRow],
         \A m \in Rows : holder[m] \in Workers \ {w} => rowStatus'[m] = rowStatus[m],
         TypeOK
  PROVE  HandleInv'
BY DEF HandleInv, Forget, TypeOK, RowTypeOK, WorkerTypeOK

\* send_to_dlq keeps the handles sound, whether it finds the row or copies it.
LEMMA DeadLetterHandle ==
  ASSUME TypeOK, WorkerInv, HandleInv, NEW w \in Workers, pc[w] # "idle",
         FindDeadLetter(w) \/ \E m \in Rows : InsertDeadLetter(w, m)
  PROVE  HandleInv'
<1>1. CASE FindDeadLetter(w)
  BY <1>1 DEF FindDeadLetter, HandleInv, TypeOK, RowTypeOK, WorkerTypeOK, rowVars
<1>2. ASSUME NEW m \in Rows, InsertDeadLetter(w, m)
      PROVE  HandleInv'
  <2>1. holder[m] = Nobody
    BY <1>2 DEF InsertDeadLetter, Fresh, HandleInv, RowStatuses
  <2>2. \A k \in Rows : holder[k] # w
    BY <1>2 DEF InsertDeadLetter, HandleInv
  <2>3. QED
    BY <1>2, <2>1, <2>2 DEF InsertDeadLetter, Return, HandleInv, TypeOK, RowTypeOK,
                            WorkerTypeOK
<1>3. QED
  BY <1>1, <1>2

\* Every step keeps receipt handles with the worker that received the row.
LEMMA HandleStep == TypeOK /\ WorkerInv /\ HandleInv /\ [Next]_vars => HandleInv'
<1> SUFFICES ASSUME TypeOK, WorkerInv, HandleInv, [Next]_vars
             PROVE  HandleInv'
  OBVIOUS
<1> USE DEF jobVars, rowVars, localVars
<1>1. ASSUME NEW j \in Jobs, NEW m \in Rows, CreateJob(j, m)
      PROVE  HandleInv'
  BY <1>1 DEF CreateJob, Fresh, HandleInv, TypeOK, RowTypeOK
<1>2. ASSUME NEW S \in SUBSET Rows, Replay(S)
      PROVE  HandleInv'
  BY <1>2 DEF Replay, HandleInv, TypeOK, RowTypeOK
<1>3. ASSUME NEW w \in Workers, NEW m \in Rows, Receive(w, m)
      PROVE  HandleInv'
  BY <1>3, SMTT(30) DEF Receive, Claim, HandleInv, TypeOK, RowTypeOK, WorkerTypeOK
<1>4. ASSUME NEW w \in Workers, RejectMessage(w) \/ DeadLetter(w)
      PROVE  HandleInv'
  BY <1>4, DeadLetterHandle DEF RejectMessage, DeadLetter
<1>5. ASSUME NEW w \in Workers,
             \/ MissJob(w) \/ ReconcileLegacyJob(w) \/ StartJob(w) \/ InsertObservation(w)
             \/ SkipProduct(w) \/ FinishJob(w) \/ Decide(w) \/ Write(w)
      PROVE  HandleInv'
  <2>1. rowStatus' = rowStatus /\ holder' = holder /\ cur' = cur
    BY <1>5 DEF MissJob, ReconcileLegacyJob, StartJob, InsertObservation, SkipProduct,
                FinishJob, Decide, Write
  <2>2. \A v \in Workers : pc[v] # "idle" => pc'[v] # "idle"
    BY <1>5 DEF MissJob, ReconcileLegacyJob, StartJob, InsertObservation, SkipProduct,
                FinishJob, Decide, Write, TypeOK, WorkerTypeOK
  <2>3. \A m \in Rows : holder[m] # Nobody => holder[m] \in Workers
    BY DEF TypeOK, RowTypeOK
  <2>4. QED
    BY <2>1, <2>2, <2>3 DEF HandleInv
<1>6. ASSUME NEW w \in Workers, NEW error \in StoreErrors \cup FetchErrors,
             RaiseError(w, error)
      PROVE  HandleInv'
  BY <1>6 DEF RaiseError, HandleInv, TypeOK, RowTypeOK, WorkerTypeOK
<1>7. ASSUME NEW w \in Workers, Abandon(w)
      PROVE  HandleInv'
  BY <1>7, ForgetHandle DEF Abandon, Return
<1>8. ASSUME NEW w \in Workers, AckTerminalJob(w) \/ AckSettled(w) \/ ScheduleRetry(w)
      PROVE  HandleInv'
  <2>1. \A m \in Rows : holder[m] \in Workers \ {w} => rowStatus'[m] = rowStatus[m]
    BY <1>8 DEF AckTerminalJob, AckSettled, ScheduleRetry, DeleteMessage,
                ChangeVisibility, Held
  <2>2. QED
    BY <1>8, <2>1, ForgetHandle DEF AckTerminalJob, AckSettled, ScheduleRetry,
                                    DeleteMessage, ChangeVisibility, Return
<1>9. ASSUME NEW w \in Workers, MoveToDlq(w)
      PROVE  HandleInv'
  BY <1>9, SMTT(30) DEF MoveToDlq, Return, HandleInv, TypeOK, RowTypeOK, WorkerTypeOK
<1>10. ASSUME NEW m \in Rows, BecomeVisible(m)
       PROVE  HandleInv'
  BY <1>10 DEF BecomeVisible, HandleInv
<1>11. ASSUME NEW j \in Jobs, GrowOld(j)
       PROVE  HandleInv'
  BY <1>11 DEF GrowOld, HandleInv
<1>12. CASE UNCHANGED vars
  BY <1>12 DEF vars, HandleInv
<1>13. QED
  BY <1>1, <1>2, <1>3, <1>4, <1>5, <1>6, <1>7, <1>8, <1>9, <1>10, <1>11, <1>12
     DEF Next, Step, PollNothing, LoseReconcileRace, SkipConcurrent, RefuseStart,
         RefuseSettlement, Crash

\* Receipt handles are sound: delete_message, change_message_visibility and
\* send_to_dlq can only ever find the row their worker is busy with.
THEOREM HandlesAreSound == Spec => []HandleInv
<1>1. Init => HandleInv
  BY DEF Init, HandleInv
<1>2. QED
  BY <1>1, HandleStep, TypeCorrect, PTL DEF Spec

\* A job becomes completed only after its whole batch.
LEMMA WholeStep ==
  TypeOK /\ WorkerInv /\ CompletedIsWhole /\ [Next]_vars => CompletedIsWhole'
<1> SUFFICES ASSUME TypeOK, WorkerInv, CompletedIsWhole, [Next]_vars,
                    NEW i \in Jobs, jobStatus'[i] = "completed"
             PROVE  Linked \subseteq obs'[i]
  BY DEF CompletedIsWhole
<1>1. obs[i] \subseteq obs'[i]
  BY StepStable DEF ObsGrow
<1>2. CASE jobStatus[i] = "completed"
  BY <1>1, <1>2 DEF CompletedIsWhole
<1>3. ASSUME NEW w \in Workers, Write(w), jobStatus[i] # "completed"
      PROVE  Linked \subseteq obs'[i]
  <2>1. JobOf(w) = i /\ goal[w] = "completed"
    BY <1>3 DEF Write, TypeOK, JobTypeOK
  <2>2. next[w] > BatchSize /\ Linked \cap 1..(next[w] - 1) \subseteq obs[i]
    BY <1>3, <2>1 DEF Write, WorkerInv, WInv
  <2>3. Linked \subseteq 1..(next[w] - 1)
    BY <2>2 DEF TypeOK, WorkerTypeOK
  <2>4. QED
    BY <1>1, <2>2, <2>3
<1>4. (\A w \in Workers : ~Write(w)) => jobStatus'[i] = jobStatus[i]
  <2>1. ASSUME NEW w \in Workers, Step(w) \/ Crash(w), ~Write(w)
        PROVE  jobStatus'[i] = jobStatus[i]
    BY <2>1 DEF Step, Crash, RejectMessage, DeadLetter, FindDeadLetter,
         InsertDeadLetter, MissJob, ReconcileLegacyJob, LoseReconcileRace,
         AckTerminalJob, SkipConcurrent, StartJob, RefuseStart, InsertObservation,
         SkipProduct, FinishJob, RaiseError, Decide, RefuseSettlement,
         AckSettled, ScheduleRetry, MoveToDlq, Abandon, jobVars, TypeOK, JobTypeOK
  <2>2. ASSUME NEW j \in Jobs, NEW m \in Rows, CreateJob(j, m)
        PROVE  jobStatus'[i] = jobStatus[i]
    BY <2>2 DEF CreateJob, TypeOK, JobTypeOK
  <2>3. ASSUME NEW S \in SUBSET Rows, Replay(S)
        PROVE  jobStatus'[i] = jobStatus[i]
    BY <2>3 DEF Replay
  <2>4. ASSUME NEW w \in Workers, NEW m \in Rows, Receive(w, m)
        PROVE  jobStatus'[i] = jobStatus[i]
    BY <2>4 DEF Receive, jobVars
  <2>5. ASSUME \/ \E m \in Rows : BecomeVisible(m)
               \/ \E j \in Jobs : GrowOld(j)
               \/ UNCHANGED vars
        PROVE  jobStatus'[i] = jobStatus[i]
    BY <2>5 DEF BecomeVisible, GrowOld, vars, jobVars
  <2>6. QED
    BY <2>1, <2>2, <2>3, <2>4, <2>5 DEF Next, PollNothing
<1>5. QED
  BY <1>2, <1>3, <1>4

\* A completed job is whole (process_job, then the settlement): no crash,
\* redelivery, lost update or replay makes a job "completed" with a linked
\* product that was not observed.
THEOREM CompletedJobsAreWhole == Spec => []CompletedIsWhole
<1>1. Init => CompletedIsWhole
  BY DEF Init, CompletedIsWhole
<1>2. QED
  BY <1>1, WholeStep, TypeCorrect, PTL DEF Spec

-----------------------------------------------------------------------------
(* Counting observations                                                   *)

\* A worker that has started its job and not yet written its outcome.
Busy(w) == pc[w] \in {"scraping", "deciding", "writing"}

Positions == 1..BatchSize

\* The books behind the counters: the positions each worker has inserted itself
\* (own), those a job has counted (cnt), and those that were counted when a
\* worker loaded the job (loaded).
Books(own, cnt, loaded) ==
  /\ \A w \in Workers : pc[w] \in {"idle", "begin", "reconciling"} => gain[w] = 0 /\ base[w] = 0
  /\ \A j \in Jobs : cnt[j] \subseteq obs[j] /\ Cardinality(cnt[j]) = counted[j]
  /\ \A w \in Workers : Busy(w) =>
       /\ own[w] \subseteq obs[JobOf(w)] /\ Cardinality(own[w]) = gain[w]
       /\ loaded[w] \subseteq obs[JobOf(w)] /\ Cardinality(loaded[w]) = base[w]
       /\ own[w] \cap cnt[JobOf(w)] = {}
  /\ \A v, w \in Workers : Busy(v) /\ Busy(w) /\ JobOf(v) = JobOf(w) =>
       /\ own[v] \cap loaded[w] = {}
       /\ v # w => own[v] \cap own[w] = {}

\* No position is counted twice, even where counters are loaded before another
\* worker writes them: what a worker adds, it has inserted itself.
CountInv ==
  \E own, loaded \in [Workers -> SUBSET Positions], cnt \in [Jobs -> SUBSET Positions] :
    Books(own, cnt, loaded)

\* The positions of a batch are finitely many.
LEMMA PositionsFinite ==
  ASSUME NEW S \in SUBSET Positions
  PROVE  IsFiniteSet(S) /\ Cardinality(S) \in Nat
<1>1. IsFiniteSet(Positions)
  BY FS_Interval DEF Positions
<1>2. IsFiniteSet(S)
  BY <1>1, FS_Subset
<1>3. QED
  BY <1>2, FS_CardinalityType

\* Disjoint sets of positions add up.
LEMMA DisjointUnion ==
  ASSUME NEW S \in SUBSET Positions, NEW T \in SUBSET Positions, S \cap T = {}
  PROVE  Cardinality(S \cup T) = Cardinality(S) + Cardinality(T)
<1>1. IsFiniteSet(S) /\ IsFiniteSet(T) /\ Cardinality(S) \in Nat /\ Cardinality(T) \in Nat
  BY PositionsFinite
<1>2. Cardinality(S \cup T) = Cardinality(S) + Cardinality(T) - Cardinality(S \cap T)
  BY <1>1, FS_Union
<1>3. Cardinality(S \cap T) = 0
  BY FS_EmptySet
<1>4. QED
  BY <1>1, <1>2, <1>3

\* Steps that insert nothing, settle nothing and load nothing keep the books.
LEMMA BooksKept ==
  ASSUME NEW own, NEW cnt, NEW loaded, Books(own, cnt, loaded), UNCHANGED <<counted, obs>>,
         \A w \in Workers : Busy(w)' => Busy(w) /\ UNCHANGED <<gain[w], base[w]>> /\ JobOf(w)' = JobOf(w),
         \A w \in Workers : pc'[w] \in {"idle", "begin", "reconciling"} => gain'[w] = 0 /\ base'[w] = 0
  PROVE  Books(own, cnt, loaded)'
BY DEF Books, Busy

\* A busy worker keeps the job of its row.
LEMMA BusyJob ==
  ASSUME TypeOK, WorkerInv, [Next]_vars, NEW w \in Workers, pc[w] # "idle", cur'[w] = cur[w]
  PROVE  JobOf(w)' = JobOf(w)
BY StepStable DEF RowsStable, WorkerInv, WInv, JobOf

\* A row inserted by a worker is its own; one found in the table is nobody's gain.
LEMMA InsertBooks ==
  ASSUME TypeOK, WorkerInv, CountInv, [Next]_vars, NEW w \in Workers, InsertObservation(w)
  PROVE  CountInv'
<1> USE DEF TypeOK, WorkerTypeOK, JobTypeOK
<1>1. PICK own \in [Workers -> SUBSET Positions], loaded \in [Workers -> SUBSET Positions],
           cnt \in [Jobs -> SUBSET Positions] : Books(own, cnt, loaded)
  BY DEF CountInv
<1>2. PICK j \in Jobs, p \in Positions : j = JobOf(w) /\ p = next[w]
  BY DEF InsertObservation, WorkerInv, WInv, Positions
<1>3. /\ obs' = [obs EXCEPT ![j] = @ \cup {p}]
      /\ gain' = [gain EXCEPT ![w] = IF p \in obs[j] THEN @ ELSE @ + 1]
      /\ UNCHANGED <<counted, pc, cur, base, rowJob>> /\ Busy(w)
  BY <1>2 DEF InsertObservation, Busy, rowVars
<1>4. \A v \in Workers : JobOf(v)' = JobOf(v) /\ (Busy(v)' <=> Busy(v))
  BY <1>3 DEF JobOf, Busy
<1>5. CASE p \in obs[j]
  <2>1. UNCHANGED <<obs, gain>>
    BY <1>3, <1>5
  <2>2. Books(own, cnt, loaded)'
    BY SMTT(30), <1>1, <1>3, <1>4, <2>1, BooksKept DEF Books
  <2>3. QED
    BY <2>2 DEF CountInv
<1>6. CASE p \notin obs[j]
  <2>1. PICK mine \in [Workers -> SUBSET Positions] : mine = [own EXCEPT ![w] = @ \cup {p}]
    BY <1>1
  <2>2. Cardinality(mine[w]) = gain'[w]
    <3>1. IsFiniteSet(own[w]) /\ p \notin own[w] /\ Cardinality(own[w]) = gain[w]
      BY <1>1, <1>2, <1>3, <1>6, PositionsFinite DEF Books
    <3>2. Cardinality(own[w] \cup {p}) = Cardinality(own[w]) + 1
      BY <3>1, FS_AddElement
    <3>3. QED
      BY <1>3, <1>6, <2>1, <3>1, <3>2
  <2>3. \A v \in Workers \ {w} : mine[v] = own[v] /\ gain'[v] = gain[v]
    BY <1>3, <2>1
  <2>4. \A i \in Jobs : obs[i] \subseteq obs'[i] /\ cnt[i] \subseteq obs'[i]
    BY <1>1, <1>3 DEF Books
  <2>5. ASSUME NEW v \in Workers, Busy(v)
        PROVE  /\ mine[v] \subseteq obs'[JobOf(v)] /\ loaded[v] \subseteq obs'[JobOf(v)]
               /\ mine[v] \cap cnt[JobOf(v)] = {}
               /\ Cardinality(mine[v]) = gain'[v]
    <3>1. JobOf(v) \in Jobs
      BY <2>5 DEF Busy, WorkerInv, WInv
    <3>2. /\ own[v] \subseteq obs[JobOf(v)] /\ loaded[v] \subseteq obs[JobOf(v)]
          /\ own[v] \cap cnt[JobOf(v)] = {} /\ Cardinality(own[v]) = gain[v]
      BY <1>1, <2>5 DEF Books
    <3>3. CASE v = w
      BY <1>1, <1>2, <1>3, <1>6, <2>1, <2>2, <3>1, <3>2, <3>3 DEF Books
    <3>4. CASE v # w
      BY <2>3, <2>4, <3>1, <3>2, <3>4
    <3>5. QED
      BY <3>3, <3>4
  <2>6. ASSUME NEW u \in Workers, NEW v \in Workers, Busy(u), Busy(v), JobOf(u) = JobOf(v)
        PROVE  /\ mine[u] \cap loaded[v] = {}
               /\ u # v => mine[u] \cap mine[v] = {}
    <3>1. /\ own[u] \cap loaded[v] = {} /\ (u # v => own[u] \cap own[v] = {})
          /\ own[u] \subseteq obs[JobOf(u)] /\ own[v] \subseteq obs[JobOf(v)] /\ loaded[v] \subseteq obs[JobOf(v)]
      BY <1>1, <2>6 DEF Books
    <3>2. u = w \/ v = w => p \notin obs[JobOf(u)] /\ p \notin obs[JobOf(v)]
      BY <1>2, <1>6, <2>6
    <3>3. QED
      BY <2>1, <3>1, <3>2
  <2>7. \A v \in Workers : pc'[v] \in {"idle", "begin", "reconciling"} => gain'[v] = 0 /\ base'[v] = 0
    BY <1>1, <1>3, <2>3 DEF Books, Busy
  <2>8. Books(mine, cnt, loaded)'
    BY <1>1, <1>3, <1>4, <2>4, <2>5, <2>6, <2>7 DEF Books
  <2>9. QED
    BY <2>8 DEF CountInv
<1>7. QED
  BY <1>5, <1>6

\* A worker starts with no position of its own.
LEMMA StartBooks ==
  ASSUME TypeOK, WorkerInv, CountInv, [Next]_vars, NEW w \in Workers, StartJob(w) \/ ReconcileLegacyJob(w)
  PROVE  CountInv'
<1> USE DEF TypeOK, WorkerTypeOK, JobTypeOK
<1>1. PICK own \in [Workers -> SUBSET Positions], loaded \in [Workers -> SUBSET Positions],
           cnt \in [Jobs -> SUBSET Positions] : Books(own, cnt, loaded)
  BY DEF CountInv
<1>2. /\ pc[w] \in {"begin", "reconciling"} /\ pc' = [pc EXCEPT ![w] = "scraping"]
      /\ UNCHANGED <<counted, obs, gain, base, cur, rowJob>>
  BY DEF StartJob, ReconcileLegacyJob, rowVars
<1>3. gain[w] = 0 /\ base[w] = 0
  BY <1>1, <1>2 DEF Books
<1>4. PICK mine \in [Workers -> SUBSET Positions], seenBy \in [Workers -> SUBSET Positions] :
        mine = [own EXCEPT ![w] = {}] /\ seenBy = [loaded EXCEPT ![w] = {}]
  BY <1>1
<1>5. \A v \in Workers : JobOf(v)' = JobOf(v) /\ (v # w => (Busy(v)' <=> Busy(v)))
  BY <1>2 DEF JobOf, Busy
<1>6. Cardinality({}) = 0
  BY FS_EmptySet
<1>7. ASSUME NEW v \in Workers, Busy(v)'
      PROVE  /\ mine[v] \subseteq obs[JobOf(v)] /\ Cardinality(mine[v]) = gain[v]
             /\ seenBy[v] \subseteq obs[JobOf(v)] /\ Cardinality(seenBy[v]) = base[v]
             /\ mine[v] \cap cnt[JobOf(v)] = {}
  BY <1>1, <1>3, <1>4, <1>5, <1>6, <1>7 DEF Books
<1>8. ASSUME NEW u \in Workers, NEW v \in Workers, Busy(u)', Busy(v)', JobOf(u) = JobOf(v)
      PROVE  mine[u] \cap seenBy[v] = {} /\ (u # v => mine[u] \cap mine[v] = {})
  BY <1>1, <1>4, <1>5, <1>8 DEF Books
<1>9. Books(mine, cnt, seenBy)'
  BY <1>1, <1>2, <1>5, <1>7, <1>8 DEF Books
<1>10. QED
  BY <1>9 DEF CountInv

\* What is loaded is what the job has counted, now or earlier.
LEMMA DecideBooks ==
  ASSUME TypeOK, WorkerInv, CountInv, [Next]_vars, NEW w \in Workers, Decide(w)
  PROVE  CountInv'
<1> USE DEF TypeOK, WorkerTypeOK, JobTypeOK
<1>1. PICK own \in [Workers -> SUBSET Positions], loaded \in [Workers -> SUBSET Positions],
           cnt \in [Jobs -> SUBSET Positions] : Books(own, cnt, loaded)
  BY DEF CountInv
<1>2. PICK j \in Jobs : j = JobOf(w)
  BY DEF Decide, WorkerInv, WInv
<1>3. /\ pc[w] = "deciding" /\ pc' = [pc EXCEPT ![w] = "writing"]
      /\ UNCHANGED <<counted, obs, gain, cur, rowJob>>
      /\ base' = [base EXCEPT ![w] = IF seen[w] = "unread" THEN counted[j] ELSE @]
  BY <1>2 DEF Decide, LoadedCount, jobVars, rowVars
<1>4. PICK seenBy \in [Workers -> SUBSET Positions] :
        seenBy = [loaded EXCEPT ![w] = IF seen[w] = "unread" THEN cnt[j] ELSE @]
  BY <1>1
<1>5. \A v \in Workers : JobOf(v)' = JobOf(v) /\ (Busy(v)' <=> Busy(v))
  BY <1>3 DEF JobOf, Busy
<1>6. /\ cnt[j] \subseteq obs[j] /\ Cardinality(cnt[j]) = counted[j]
      /\ \A u \in Workers : Busy(u) /\ JobOf(u) = j => own[u] \cap cnt[j] = {}
  BY <1>1, <1>2 DEF Books
<1>7. ASSUME NEW v \in Workers, Busy(v)
      PROVE  /\ seenBy[v] \subseteq obs[JobOf(v)] /\ Cardinality(seenBy[v]) = base'[v]
             /\ \A u \in Workers : Busy(u) /\ JobOf(u) = JobOf(v) => own[u] \cap seenBy[v] = {}
  <2>1. /\ loaded[v] \subseteq obs[JobOf(v)] /\ Cardinality(loaded[v]) = base[v]
        /\ \A u \in Workers : Busy(u) /\ JobOf(u) = JobOf(v) => own[u] \cap loaded[v] = {}
    BY <1>1, <1>7 DEF Books
  <2>2. CASE v = w
    BY <1>2, <1>3, <1>4, <1>6, <2>1, <2>2
  <2>3. CASE v # w
    BY <1>3, <1>4, <2>1, <2>3
  <2>4. QED
    BY <2>2, <2>3
<1>8. \A v \in Workers : pc'[v] \in {"idle", "begin", "reconciling"} => gain'[v] = 0 /\ base'[v] = 0
  BY <1>1, <1>3 DEF Books
<1>9. Books(own, cnt, seenBy)'
  BY <1>1, <1>3, <1>5, <1>7, <1>8 DEF Books
<1>10. QED
  BY <1>9 DEF CountInv

\* What is written are positions counted earlier and those of the worker.
LEMMA WriteBooks ==
  ASSUME TypeOK, WorkerInv, CountInv, [Next]_vars, NEW w \in Workers, Write(w)
  PROVE  CountInv'
<1> USE DEF TypeOK, WorkerTypeOK, JobTypeOK
<1>1. PICK own \in [Workers -> SUBSET Positions], loaded \in [Workers -> SUBSET Positions],
           cnt \in [Jobs -> SUBSET Positions] : Books(own, cnt, loaded)
  BY DEF CountInv
<1>2. PICK j \in Jobs : j = JobOf(w)
  BY DEF Write, WorkerInv, WInv
<1>3. /\ pc[w] = "writing" /\ pc' = [pc EXCEPT ![w] = "acking"]
      /\ UNCHANGED <<obs, gain, base, cur, rowJob>>
      /\ counted' = [counted EXCEPT ![j] = IF goal[w] = "completed" /\ gain[w] > 0 THEN base[w] + gain[w] ELSE @]
  BY <1>2 DEF Write, NewCount, rowVars
<1>4. \A v \in Workers : JobOf(v)' = JobOf(v) /\ (Busy(v)' => Busy(v) /\ v # w)
  BY <1>3 DEF JobOf, Busy
<1>5. Busy(w)
  BY <1>3 DEF Busy
<1>6. PICK sum \in [Jobs -> SUBSET Positions] :
        sum = [cnt EXCEPT ![j] = IF goal[w] = "completed" /\ gain[w] > 0 THEN loaded[w] \cup own[w] ELSE @]
  BY <1>1
<1>7. Cardinality(loaded[w] \cup own[w]) = base[w] + gain[w]
  <2>1. loaded[w] \cap own[w] = {} /\ Cardinality(loaded[w]) = base[w] /\ Cardinality(own[w]) = gain[w]
    BY <1>1, <1>5 DEF Books
  <2>2. QED
    BY <1>1, <2>1, DisjointUnion
<1>8. ASSUME NEW i \in Jobs
      PROVE  sum[i] \subseteq obs[i] /\ Cardinality(sum[i]) = counted'[i]
  BY <1>1, <1>2, <1>3, <1>5, <1>6, <1>7 DEF Books
<1>9. ASSUME NEW v \in Workers, Busy(v), v # w
      PROVE  own[v] \cap sum[JobOf(v)] = {}
  <2>1. JobOf(v) \in Jobs /\ own[v] \cap cnt[JobOf(v)] = {}
    BY <1>1, <1>9 DEF Busy, WorkerInv, WInv, Books
  <2>2. JobOf(v) = j => own[v] \cap loaded[w] = {} /\ own[v] \cap own[w] = {}
    BY <1>1, <1>2, <1>5, <1>9 DEF Books
  <2>3. QED
    BY <1>6, <2>1, <2>2
<1>10. \A v \in Workers : pc'[v] \in {"idle", "begin", "reconciling"} => gain'[v] = 0 /\ base'[v] = 0
  BY <1>1, <1>3 DEF Books
<1>11. Books(own, sum, loaded)'
  BY <1>1, <1>3, <1>4, <1>8, <1>9, <1>10 DEF Books
<1>12. QED
  BY <1>11 DEF CountInv

\* What the steps of a worker that count nothing do to its books.
Quiet(w) ==
  \/ UNCHANGED <<pc[w], cur[w], gain[w], base[w]>>
  \/ Return(w)
  \/ /\ UNCHANGED <<gain[w], base[w]>>
     /\ \/ Busy(w)' /\ Busy(w) /\ cur'[w] = cur[w]
        \/ ~Busy(w)' /\ (pc'[w] \in {"begin", "reconciling"} => pc[w] \in {"idle", "begin"})
           /\ pc'[w] # "idle"

\* Where every worker is quiet the books are kept.
LEMMA QuietBooks ==
  ASSUME TypeOK, WorkerInv, CountInv, [Next]_vars, UNCHANGED <<counted, obs>>,
         \A w \in Workers : Quiet(w)
  PROVE  CountInv'
<1>1. PICK own \in [Workers -> SUBSET Positions], loaded \in [Workers -> SUBSET Positions],
           cnt \in [Jobs -> SUBSET Positions] : Books(own, cnt, loaded)
  BY DEF CountInv
<1>2. ASSUME NEW w \in Workers, Busy(w)'
      PROVE  Busy(w) /\ UNCHANGED <<gain[w], base[w]>> /\ JobOf(w)' = JobOf(w)
  <2>1. Busy(w) /\ UNCHANGED <<gain[w], base[w]>> /\ cur'[w] = cur[w]
    BY <1>2 DEF Quiet, Busy, Return, TypeOK, WorkerTypeOK
  <2>2. QED
    BY <2>1, BusyJob DEF Busy
<1>3. ASSUME NEW w \in Workers, pc'[w] \in {"idle", "begin", "reconciling"}
      PROVE  gain'[w] = 0 /\ base'[w] = 0
  BY <1>1, <1>3 DEF Quiet, Busy, Return, Books, TypeOK, WorkerTypeOK
<1>4. Books(own, cnt, loaded)'
  BY <1>1, <1>2, <1>3, BooksKept
<1>5. QED
  BY <1>4 DEF CountInv

\* Every step keeps the books.
LEMMA CountStep == TypeOK /\ WorkerInv /\ CountInv /\ [Next]_vars => CountInv'
<1> SUFFICES ASSUME TypeOK, WorkerInv, CountInv, [Next]_vars
             PROVE  CountInv'
  OBVIOUS
<1> USE DEF jobVars, rowVars, localVars
<1>1. ASSUME UNCHANGED <<counted, obs, localVars>>
      PROVE  CountInv'
  BY <1>1, QuietBooks DEF Quiet
<1>2. ASSUME NEW w \in Workers, Return(w), UNCHANGED <<counted, obs>>
      PROVE  CountInv'
  <2>1. Quiet(w)
    BY <1>2 DEF Quiet
  <2>2. ASSUME NEW v \in Workers \ {w}
        PROVE  UNCHANGED <<pc[v], cur[v], gain[v], base[v]>>
    BY <1>2, SMT DEF Return, TypeOK, WorkerTypeOK
  <2>3. \A v \in Workers \ {w} : Quiet(v)
    BY <2>2 DEF Quiet
  <2>4. QED
    BY <1>2, <2>1, <2>3, QuietBooks
<1>3. ASSUME NEW w \in Workers, UNCHANGED <<counted, obs, gain, base>>,
             \A v \in Workers \ {w} : pc'[v] = pc[v] /\ cur'[v] = cur[v],
             \/ pc'[w] \in {"acking", "moving"}
             \/ pc'[w] \in {"begin", "reconciling"} /\ pc[w] \in {"idle", "begin"}
             \/ Busy(w) /\ Busy(w)' /\ cur'[w] = cur[w]
      PROVE  CountInv'
  <2>1. Quiet(w)
    BY <1>3 DEF Quiet, Busy
  <2>2. \A v \in Workers \ {w} : Quiet(v)
    BY <1>3 DEF Quiet
  <2>3. QED
    BY <1>3, <2>1, <2>2, QuietBooks
<1> USE DEF TypeOK, WorkerTypeOK
<1>4. ASSUME NEW w \in Workers, NEW m \in Rows, Receive(w, m)
      PROVE  CountInv'
  BY <1>3, <1>4 DEF Receive
<1>5. ASSUME NEW w \in Workers, FindDeadLetter(w) \/ MissJob(w)
      PROVE  CountInv'
  BY <1>3, <1>5 DEF FindDeadLetter, MissJob
<1>6. ASSUME NEW w \in Workers,
             SkipProduct(w) \/ FinishJob(w) \/ \E error \in StoreErrors \cup FetchErrors : RaiseError(w, error)
      PROVE  CountInv'
  BY <1>3, <1>6 DEF SkipProduct, FinishJob, RaiseError, Busy
<1>7. ASSUME NEW w \in Workers, Step(w) \/ Crash(w)
      PROVE  CountInv'
  BY <1>2, <1>5, <1>6, <1>7, InsertBooks, StartBooks, DecideBooks, WriteBooks
     DEF Step, Crash, RejectMessage, DeadLetter, InsertDeadLetter, LoseReconcileRace,
         AckTerminalJob, SkipConcurrent, RefuseStart, RefuseSettlement, AckSettled,
         ScheduleRetry, MoveToDlq, Abandon
<1>8. QED
  BY <1>1, <1>4, <1>7 DEF Next, CreateJob, Replay, BecomeVisible, GrowOld, PollNothing, vars

\* observations_created never exceeds the observations of the job, with leases
\* that run out, lost updates of the counter and crashes: a worker counts the
\* rows that its own INSERT ... ON CONFLICT DO NOTHING has created, and adds
\* them to a value that is old but never too large.
THEOREM CountersAreCovered == Spec => []NeverOvercounts
<1>1. ASSUME Init
      PROVE  CountInv
  <2>1. PICK own \in [Workers -> SUBSET Positions], cnt \in [Jobs -> SUBSET Positions] :
          own = [w \in Workers |-> {}] /\ cnt = [j \in Jobs |-> {}]
    OBVIOUS
  <2>2. Books(own, cnt, own)
    BY <1>1, <2>1, FS_EmptySet DEF Init, Books, Busy
  <2>3. QED
    BY <2>2 DEF CountInv
<1>2. ASSUME TypeOK, CountInv
      PROVE  NeverOvercounts
  <2> SUFFICES ASSUME NEW j \in Jobs
               PROVE  counted[j] <= Cardinality(obs[j])
    BY DEF NeverOvercounts
  <2>1. PICK S \in SUBSET Positions : S \subseteq obs[j] /\ Cardinality(S) = counted[j]
    BY <1>2 DEF CountInv, Books
  <2>2. obs[j] \in SUBSET Positions
    BY <1>2 DEF TypeOK, JobTypeOK, Positions
  <2>3. Cardinality(S) <= Cardinality(obs[j])
    BY <2>1, <2>2, PositionsFinite, FS_Subset
  <2>4. QED
    BY <2>1, <2>3
<1>3. QED
  BY <1>1, <1>2, CountStep, TypeCorrect, PTL DEF Spec

-----------------------------------------------------------------------------
(* Leases that are respected                                               *)

HIDE PipelineAssumption DEF Rows, NoRow

\* The two conditions: leases are respected, every row came with its job.
Prompt == PromptWorkers /\ LegacyJobs = {}

\* A worker owns the row it handles, and nobody else can receive it.
LeaseInv ==
  /\ \A m \in Rows : holder[m] # Nobody => ~visible[m]
  /\ \A w \in Workers : pc[w] # "idle" => holder[cur[w]] = w

\* Rows and jobs come in pairs.
PairInv ==
  /\ \A m \in Rows : rowStatus[m] = "absent" => rowJob[m] = NoJob
  /\ \A m \in Rows : rowJob[m] \in Jobs => jobStatus[rowJob[m]] # "absent"
  /\ \A j \in Jobs : jobStatus[j] # "absent" => \E m \in Rows : rowJob[m] = j

\* The job is in the status its worker believes, and its row agrees.
SettleInv ==
  /\ \A w \in Workers :
       /\ pc[w] # "reconciling"
       /\ pc[w] \in {"idle", "begin", "scraping", "deciding"} => seen[w] = "unread"
       /\ pc[w] = "writing" => /\ seen[w] \in JobStatuses
                               /\ jobStatus[JobOf(w)] = seen[w]
                               /\ goal[w] \in AllowedTransitions[seen[w]]
       /\ pc[w] = "acking" => jobStatus[JobOf(w)] = goal[w]
       /\ pc[w] = "moving" /\ JobOf(w) \in Jobs => jobStatus[JobOf(w)] = "dead_letter"
  /\ \A m \in Rows : rowStatus[m] = "completed" =>
       rowJob[m] \in Jobs /\ jobStatus[rowJob[m]] \in {"completed", "skipped", "failed"}
  /\ \A m \in Rows : rowStatus[m] = "dlq" /\ rowJob[m] \in Jobs =>
       jobStatus[rowJob[m]] = "dead_letter"

\* The steps of a worker between Receive and the end of the message that leave
\* all rows alone.
LocalStep(w) ==
  \/ MissJob(w) \/ ReconcileLegacyJob(w) \/ StartJob(w) \/ InsertObservation(w)
  \/ SkipProduct(w) \/ FinishJob(w) \/ Decide(w) \/ Write(w)
  \/ /\ FindDeadLetter(w)
     /\ (pc[w] = "begin" /\ JobOf(w) = NoJob) \/ (pc[w] = "acking" /\ goal[w] = "dead_letter")
  \/ \E error \in StoreErrors \cup FetchErrors : RaiseError(w, error)

AckStep(w) == AckTerminalJob(w) \/ AckSettled(w) \/ ScheduleRetry(w)

Inv == TypeOK /\ WorkerInv /\ HandleInv /\ LeaseInv /\ PairInv /\ OneRowPerJob /\ SettleInv

\* With leases respected, send_to_dlq always finds its row.
LEMMA NextCases ==
  ASSUME LeaseInv, Next
  PROVE  \/ \E j \in Jobs, m \in Rows : CreateJob(j, m)
         \/ \E S \in SUBSET Rows : Replay(S)
         \/ \E w \in Workers, m \in Rows : Receive(w, m)
         \/ \E w \in Workers : /\ pc[w] # "idle"
                               /\ LocalStep(w) \/ AckStep(w) \/ Abandon(w) \/ MoveToDlq(w)
         \/ \E m \in Rows : BecomeVisible(m)
         \/ \E j \in Jobs : GrowOld(j)
         \/ UNCHANGED vars
<1>1. ASSUME NEW w \in Workers, NEW m \in Rows, pc[w] # "idle"
      PROVE  ~InsertDeadLetter(w, m)
  BY <1>1 DEF LeaseInv, InsertDeadLetter
<1>2. ASSUME NEW w \in Workers, Step(w) \/ Crash(w)
      PROVE  pc[w] # "idle" /\ (LocalStep(w) \/ AckStep(w) \/ Abandon(w) \/ MoveToDlq(w))
  <2>1. pc[w] # "idle"
    BY <1>2 DEF Step, Crash, RejectMessage, MissJob, ReconcileLegacyJob,
         LoseReconcileRace, AckTerminalJob, SkipConcurrent, StartJob, RefuseStart,
         InsertObservation, SkipProduct, FinishJob, RaiseError, Decide,
         RefuseSettlement, Write, AckSettled, ScheduleRetry, DeadLetter, MoveToDlq
  <2>2. QED
    BY <1>1, <1>2, <2>1 DEF Step, Crash, LocalStep, AckStep, RejectMessage, DeadLetter,
         LoseReconcileRace, SkipConcurrent, RefuseStart, RefuseSettlement
<1>3. QED
  BY <1>2 DEF Next, PollNothing

\* A local step changes no row, and no other worker.
LEMMA LocalFrame ==
  ASSUME TypeOK, NEW w \in Workers, pc[w] # "idle", LocalStep(w)
  PROVE  /\ UNCHANGED rowVars
         /\ cur' = cur
         /\ pc[w] # "idle"
         /\ \A v \in Workers \ {w} : pc'[v] = pc[v] /\ seen'[v] = seen[v] /\ goal'[v] = goal[v]
<1> USE DEF TypeOK, WorkerTypeOK
<1>1. CASE MissJob(w) \/ ReconcileLegacyJob(w) \/ StartJob(w)
  BY <1>1 DEF MissJob, ReconcileLegacyJob, StartJob
<1>2. CASE InsertObservation(w) \/ SkipProduct(w) \/ FinishJob(w)
  BY <1>2 DEF InsertObservation, SkipProduct, FinishJob
<1>3. CASE Decide(w) \/ Write(w)
  BY <1>3 DEF Decide, Write
<1>4. CASE FindDeadLetter(w)
  BY <1>4 DEF FindDeadLetter
<1>5. ASSUME NEW error \in StoreErrors \cup FetchErrors, RaiseError(w, error)
      PROVE  /\ UNCHANGED rowVars
             /\ cur' = cur
             /\ pc[w] # "idle"
             /\ \A v \in Workers \ {w} :
                  pc'[v] = pc[v] /\ seen'[v] = seen[v] /\ goal'[v] = goal[v]
  BY <1>5 DEF RaiseError
<1>6. QED
  BY <1>1, <1>2, <1>3, <1>4, <1>5 DEF LocalStep

-----------------------------------------------------------------------------
(* Leases                                                                  *)

\* A row somebody holds stays invisible to the other workers.
LEMMA LeaseStep == Prompt /\ Inv /\ Next => LeaseInv'
<1> SUFFICES ASSUME Prompt, Inv, Next
             PROVE  LeaseInv'
  OBVIOUS
<1> USE DEF Inv, LeaseInv, rowVars, localVars
<1>1. ASSUME NEW j \in Jobs, NEW m \in Rows, CreateJob(j, m)
      PROVE  LeaseInv'
  BY <1>1 DEF CreateJob
<1>2. ASSUME NEW S \in SUBSET Rows, Replay(S)
      PROVE  LeaseInv'
  <2>1. \A m \in S : holder[m] = Nobody
    BY <1>2 DEF Replay, HandleInv
  <2>2. \A w \in Workers : pc[w] # "idle" => cur[w] \in Rows /\ cur[w] \notin S
    BY <2>1, PipelineAssumption DEF WorkerInv, WInv
  <2>3. QED
    BY <1>2, <2>1, <2>2 DEF Replay
<1>3. ASSUME NEW w \in Workers, NEW m \in Rows, Receive(w, m)
      PROVE  LeaseInv'
  <2>1. holder[m] = Nobody /\ pc[w] = "idle"
    BY <1>3 DEF Receive, Deliverable
  <2>2. \A v \in Workers : pc[v] # "idle" => cur[v] \in Rows /\ cur[v] # m
    BY <2>1, PipelineAssumption DEF WorkerInv, WInv
  <2>3. \A k \in Rows : holder'[k] # Nobody => ~visible'[k]
    BY <1>3 DEF Receive, Claim, TypeOK, RowTypeOK
  <2>4. ASSUME NEW v \in Workers, pc'[v] # "idle"
        PROVE  holder'[cur'[v]] = v
    <3>1. CASE v = w
      BY <1>3, <3>1 DEF Receive, Claim, TypeOK, RowTypeOK, WorkerTypeOK
    <3>2. CASE v # w
      BY <1>3, <2>2, <2>4, <3>2 DEF Receive, Claim, TypeOK, RowTypeOK, WorkerTypeOK
    <3>3. QED
      BY <3>1, <3>2
  <2>5. QED
    BY <2>3, <2>4
<1>4. ASSUME NEW w \in Workers, pc[w] # "idle", LocalStep(w)
      PROVE  LeaseInv'
  BY <1>4, LocalFrame
<1>5. ASSUME NEW w \in Workers, Forget(w), cur' = [cur EXCEPT ![w] = NoRow],
             pc' = [pc EXCEPT ![w] = "idle"], \A m \in Rows : visible'[m] => visible[m]
      PROVE  LeaseInv'
  BY <1>5 DEF Forget, TypeOK, RowTypeOK, WorkerTypeOK, WorkerInv, WInv
<1>6. ASSUME NEW w \in Workers, Abandon(w) \/ AckStep(w)
      PROVE  LeaseInv'
  <2>1. Forget(w) /\ \A m \in Rows : visible'[m] => visible[m]
    BY <1>6 DEF Abandon, AckStep, AckTerminalJob, AckSettled, ScheduleRetry,
                DeleteMessage, ChangeVisibility
  <2>2. QED
    BY <1>5, <1>6, <2>1 DEF Abandon, AckStep, AckTerminalJob, AckSettled, ScheduleRetry,
                            Return
<1>7. ASSUME NEW w \in Workers, MoveToDlq(w)
      PROVE  LeaseInv'
  BY <1>7 DEF MoveToDlq, Return, TypeOK, RowTypeOK, WorkerTypeOK, WorkerInv, WInv
<1>8. ASSUME NEW m \in Rows, BecomeVisible(m)
      PROVE  LeaseInv'
  BY <1>8 DEF BecomeVisible, Prompt, TypeOK, RowTypeOK
<1>9. CASE (\E j \in Jobs : GrowOld(j)) \/ UNCHANGED vars
  BY <1>9 DEF GrowOld, vars
<1>10. QED
  BY <1>1, <1>2, <1>3, <1>4, <1>6, <1>7, <1>8, <1>9, NextCases

-----------------------------------------------------------------------------
(* One row per job, one worker per row                                     *)

\* One row per job, and a created job comes with its row.
LEMMA PairStep == Prompt /\ Inv /\ Next => PairInv' /\ OneRowPerJob'
<1> SUFFICES ASSUME Prompt, Inv, Next
             PROVE  PairInv' /\ OneRowPerJob'
  OBVIOUS
<1> USE DEF Inv, jobVars, rowVars, localVars
<1> DEFINE SamePairs ==
      /\ rowJob' = rowJob
      /\ \A m \in Rows : (rowStatus'[m] = "absent") = (rowStatus[m] = "absent")
      /\ \A j \in Jobs : (jobStatus'[j] = "absent") = (jobStatus[j] = "absent")
<1>1. ASSUME SamePairs
      PROVE  PairInv' /\ OneRowPerJob'
  BY <1>1 DEF PairInv, OneRowPerJob
<1>2. ASSUME NEW j \in Jobs, NEW m \in Rows, CreateJob(j, m)
      PROVE  PairInv' /\ OneRowPerJob'
  <2>1. rowJob[m] = NoJob /\ \A k \in Rows : rowJob[k] # j
    BY <1>2 DEF CreateJob, Fresh, PairInv
  <2>2. \A k \in Rows : rowJob'[k] = IF k = m THEN j ELSE rowJob[k]
    BY <1>2 DEF CreateJob, TypeOK, RowTypeOK
  <2>3. \A k \in Rows : rowStatus'[k] = IF k = m THEN "pending" ELSE rowStatus[k]
    BY <1>2 DEF CreateJob, TypeOK, RowTypeOK
  <2>4. \A i \in Jobs : jobStatus'[i] = IF i = j THEN "queued" ELSE jobStatus[i]
    BY <1>2 DEF CreateJob, TypeOK, JobTypeOK
  <2>5. OneRowPerJob'
    BY <2>1, <2>2 DEF OneRowPerJob
  <2>6. (\A k \in Rows : rowStatus[k] = "absent" => rowJob[k] = NoJob)'
    BY <2>2, <2>3 DEF PairInv
  <2>7. (\A k \in Rows : rowJob[k] \in Jobs => jobStatus[rowJob[k]] # "absent")'
    BY <2>2, <2>4 DEF PairInv
  <2>8. (\A i \in Jobs : jobStatus[i] # "absent" => \E k \in Rows : rowJob[k] = i)'
    <3>1. ASSUME NEW i \in Jobs, jobStatus'[i] # "absent"
          PROVE  \E k \in Rows : rowJob'[k] = i
      <4>1. CASE i = j
        BY <2>2, <4>1
      <4>2. CASE i # j
        <5>1. PICK k \in Rows : rowJob[k] = i
          BY <2>4, <3>1, <4>2 DEF PairInv
        <5>2. k # m
          BY <2>1, <5>1, PipelineAssumption
        <5>3. QED
          BY <2>2, <5>1, <5>2
      <4>3. QED
        BY <4>1, <4>2
    <3>2. QED
      BY <3>1
  <2>9. QED
    BY <2>5, <2>6, <2>7, <2>8 DEF PairInv
<1>3. ASSUME NEW S \in SUBSET Rows, Replay(S)
      PROVE  SamePairs
  BY <1>3 DEF Replay, TypeOK, JobTypeOK, RowTypeOK
<1>4. ASSUME NEW w \in Workers, NEW m \in Rows, Receive(w, m)
      PROVE  SamePairs
  BY <1>4 DEF Receive, Claim, Deliverable, InMainQueue, TypeOK, RowTypeOK
<1>5. ASSUME NEW w \in Workers, pc[w] # "idle", LocalStep(w)
      PROVE  SamePairs
  <2>1. UNCHANGED rowVars
    BY <1>5, LocalFrame
  <2>2. ~ReconcileLegacyJob(w)
    BY <1>5 DEF ReconcileLegacyJob, PairInv, JobOf, WorkerInv, WInv
  <2>3. \A j \in Jobs : (jobStatus'[j] = "absent") = (jobStatus[j] = "absent")
    <3>1. CASE jobStatus' = jobStatus
      BY <3>1
    <3>2. CASE StartJob(w)
      BY <3>2 DEF StartJob, Startable, JobStatuses, TypeOK, JobTypeOK
    <3>3. CASE Write(w)
      <4>1. JobOf(w) \in Jobs /\ goal[w] # "absent" /\ jobStatus[JobOf(w)] # "absent"
        BY <3>3 DEF Write, WorkerInv, WInv, Goals, PairInv, JobOf
      <4>2. QED
        BY <3>3, <4>1 DEF Write, TypeOK, JobTypeOK
    <3>4. QED
      BY <1>5, <2>2, <3>1, <3>2, <3>3 DEF LocalStep, MissJob, InsertObservation,
           SkipProduct, FinishJob, Decide, FindDeadLetter, RaiseError
  <2>4. QED
    BY <2>1, <2>3
<1>6. ASSUME NEW w \in Workers, AckStep(w) \/ Abandon(w)
      PROVE  SamePairs
  <2>1. rowJob' = rowJob /\ jobStatus' = jobStatus
    BY <1>6 DEF AckStep, Abandon, AckTerminalJob, AckSettled, ScheduleRetry,
                DeleteMessage, ChangeVisibility
  <2>2. \A m \in Rows : Held(w, m) => rowStatus[m] = "processing"
    BY PipelineAssumption DEF Held, HandleInv
  <2>3. \A m \in Rows : (rowStatus'[m] = "absent") = (rowStatus[m] = "absent")
    BY <1>6, <2>2 DEF AckStep, Abandon, AckTerminalJob, AckSettled, ScheduleRetry,
                      DeleteMessage, ChangeVisibility
  <2>4. QED
    BY <2>1, <2>3
<1>7. ASSUME NEW w \in Workers, MoveToDlq(w)
      PROVE  SamePairs
  BY <1>7 DEF MoveToDlq, TypeOK, RowTypeOK, WorkerInv, WInv
<1>8. ASSUME \/ \E m \in Rows : BecomeVisible(m)
             \/ \E j \in Jobs : GrowOld(j)
             \/ UNCHANGED vars
      PROVE  SamePairs
  BY <1>8 DEF BecomeVisible, GrowOld, vars
<1>9. QED
  BY <1>1, <1>2, <1>3, <1>4, <1>5, <1>6, <1>7, <1>8, NextCases

\* The row of a job somebody works on is in that worker's hands alone.
LEMMA Exclusive ==
  ASSUME Inv, NEW w \in Workers, pc[w] # "idle", JobOf(w) \in Jobs
  PROVE  /\ rowStatus[cur[w]] = "processing"
         /\ \A m \in Rows : rowJob[m] = JobOf(w) => m = cur[w]
         /\ \A v \in Workers \ {w} : pc[v] # "idle" => JobOf(v) # JobOf(w)
<1>1. \A v \in Workers : pc[v] # "idle" => cur[v] \in Rows /\ holder[cur[v]] = v
  BY DEF Inv, WorkerInv, WInv, LeaseInv
<1>2. rowStatus[cur[w]] = "processing"
  BY <1>1, PipelineAssumption DEF Inv, HandleInv
<1>3. \A m \in Rows : rowJob[m] = JobOf(w) => m = cur[w]
  BY <1>1, PipelineAssumption DEF Inv, OneRowPerJob, JobOf
<1>4. ASSUME NEW v \in Workers \ {w}, pc[v] # "idle", JobOf(v) = JobOf(w)
      PROVE  FALSE
  BY <1>1, <1>3, <1>4 DEF JobOf
<1>5. QED
  BY <1>2, <1>3, <1>4

-----------------------------------------------------------------------------
(* Settlements                                                             *)

WorkerSettle(w) ==
  /\ pc[w] # "reconciling"
  /\ pc[w] \in {"idle", "begin", "scraping", "deciding"} => seen[w] = "unread"
  /\ pc[w] = "writing" => /\ seen[w] \in JobStatuses
                          /\ jobStatus[JobOf(w)] = seen[w]
                          /\ goal[w] \in AllowedTransitions[seen[w]]
  /\ pc[w] = "acking" => jobStatus[JobOf(w)] = goal[w]
  /\ pc[w] = "moving" /\ JobOf(w) \in Jobs => jobStatus[JobOf(w)] = "dead_letter"

RowSettle(m) ==
  /\ rowStatus[m] = "completed" =>
       rowJob[m] \in Jobs /\ jobStatus[rowJob[m]] \in {"completed", "skipped", "failed"}
  /\ rowStatus[m] = "dlq" /\ rowJob[m] \in Jobs => jobStatus[rowJob[m]] = "dead_letter"

\* SettleInv, one worker and one row at a time.
LEMMA SettleParts ==
  SettleInv <=> (\A w \in Workers : WorkerSettle(w)) /\ (\A m \in Rows : RowSettle(m))
BY DEF SettleInv, WorkerSettle, RowSettle

\* A worker that is not the actor still believes the truth, when the status of
\* its job has not changed; a row likewise.
LEMMA SettleFrame ==
  ASSUME Inv, NEW v \in Workers, WorkerSettle(v),
         pc'[v] = pc[v], seen'[v] = seen[v], goal'[v] = goal[v], cur'[v] = cur[v],
         pc[v] # "idle" => rowJob'[cur[v]] = rowJob[cur[v]],
         pc[v] # "idle" /\ JobOf(v) \in Jobs => jobStatus'[JobOf(v)] = jobStatus[JobOf(v)]
  PROVE  WorkerSettle(v)'
BY DEF WorkerSettle, JobOf, Inv, WorkerInv, WInv

\* A row that no step touches stays settled the way it was.
LEMMA RowFrame ==
  ASSUME Inv, NEW m \in Rows, RowSettle(m),
         rowStatus'[m] \in {rowStatus[m], "pending", "processing", "absent"},
         rowJob'[m] = rowJob[m],
         rowStatus[m] \in {"completed", "dlq"} /\ rowJob[m] \in Jobs =>
           jobStatus'[rowJob[m]] = jobStatus[rowJob[m]]
  PROVE  RowSettle(m)'
BY DEF RowSettle

\* No settled row belongs to a job somebody works on.
LEMMA ActorRows ==
  ASSUME Inv, NEW w \in Workers, pc[w] # "idle", NEW m \in Rows,
         rowStatus[m] \in {"completed", "dlq"}, rowJob[m] \in Jobs
  PROVE  rowJob[m] # JobOf(w)
BY Exclusive

\* Steps inside process_next_message that leave the queue alone.
LEMMA LocalSettle ==
  ASSUME Inv, Prompt, NEW w \in Workers, pc[w] # "idle", LocalStep(w)
  PROVE  SettleInv'
<1> USE DEF TypeOK, WorkerTypeOK, JobTypeOK
<1>1. /\ UNCHANGED rowVars
      /\ cur' = cur
      /\ \A v \in Workers \ {w} : pc'[v] = pc[v] /\ seen'[v] = seen[v] /\ goal'[v] = goal[v]
  BY LocalFrame DEF Inv
<1>2. JobOf(w)' = JobOf(w)
  BY <1>1 DEF JobOf, rowVars
<1>3. \A j \in Jobs : j # JobOf(w) => jobStatus'[j] = jobStatus[j]
  BY DEF LocalStep, MissJob, ReconcileLegacyJob, StartJob, InsertObservation, SkipProduct,
         FinishJob, Decide, Write, FindDeadLetter, RaiseError, jobVars, Inv
<1>4. ASSUME NEW v \in Workers \ {w}
      PROVE  WorkerSettle(v)'
  <2>1. pc[v] # "idle" /\ JobOf(v) \in Jobs => JobOf(v) # JobOf(w)
    BY <1>4, Exclusive
  <2>2. WorkerSettle(v)
    BY SettleParts DEF Inv
  <2>3. QED
    BY <1>1, <1>3, <2>1, <2>2, SettleFrame DEF rowVars
<1>5. ASSUME NEW m \in Rows
      PROVE  RowSettle(m)'
  <2>1. RowSettle(m) /\ rowStatus'[m] = rowStatus[m] /\ rowJob'[m] = rowJob[m]
    BY <1>1, SettleParts DEF Inv, rowVars
  <2>2. rowStatus[m] \in {"completed", "dlq"} /\ rowJob[m] \in Jobs =>
          jobStatus'[rowJob[m]] = jobStatus[rowJob[m]]
    BY <1>3, ActorRows
  <2>3. QED
    BY <2>1, <2>2, RowFrame
<1>6. WorkerSettle(w)'
  <2>0. WorkerSettle(w)
    BY SettleParts DEF Inv
  <2>1. ~ReconcileLegacyJob(w) /\ ~MissJob(w)
    BY DEF ReconcileLegacyJob, MissJob, Inv, PairInv, JobOf, WorkerInv, WInv
  <2>2. CASE StartJob(w)
    BY <1>2, <2>0, <2>2 DEF StartJob, WorkerSettle, Inv
  <2>3. CASE InsertObservation(w) \/ SkipProduct(w) \/ FinishJob(w)
    BY <1>2, <2>0, <2>3 DEF InsertObservation, SkipProduct, FinishJob, WorkerSettle, Inv
  <2>4. ASSUME NEW error \in StoreErrors \cup FetchErrors, RaiseError(w, error)
        PROVE  WorkerSettle(w)'
    BY <1>2, <2>0, <2>4 DEF RaiseError, WorkerSettle, Inv
  <2>5. CASE Decide(w)
    BY <1>2, <2>0, <2>5 DEF Decide, LoadedStatus, WorkerSettle, Inv, jobVars
  <2>6. CASE Write(w)
    <3>1. JobOf(w) \in Jobs
      BY <2>6 DEF Write, Inv, WorkerInv, WInv
    <3>2. QED
      BY <1>2, <2>0, <2>6, <3>1 DEF Write, WorkerSettle, Inv
  <2>7. CASE FindDeadLetter(w) /\ pc[w] = "begin" /\ JobOf(w) = NoJob
    BY <1>2, <2>7, PipelineAssumption DEF FindDeadLetter, WorkerSettle, Inv
  <2>8. CASE FindDeadLetter(w) /\ pc[w] = "acking" /\ goal[w] = "dead_letter"
    BY <1>2, <2>0, <2>8 DEF FindDeadLetter, WorkerSettle, Inv, jobVars
  <2>9. QED
    BY <2>1, <2>2, <2>3, <2>4, <2>5, <2>6, <2>7, <2>8 DEF LocalStep
<1>7. QED
  BY <1>4, <1>5, <1>6 DEF SettleInv, WorkerSettle, RowSettle

\* A row leaves the main queue only together with its job.
LEMMA SettleStep == Prompt /\ Inv /\ Next => SettleInv'
<1> SUFFICES ASSUME Prompt, Inv, Next
             PROVE  SettleInv'
  OBVIOUS
<1>0. (\A w \in Workers : WorkerSettle(w)) /\ (\A m \in Rows : RowSettle(m))
  BY SettleParts DEF Inv
<1>00. \A v \in Workers : pc[v] # "idle" =>
         cur[v] \in Rows /\ holder[cur[v]] = v /\ rowStatus[cur[v]] = "processing"
  BY PipelineAssumption DEF Inv, WorkerInv, WInv, LeaseInv, HandleInv
<1> USE DEF TypeOK, JobTypeOK, RowTypeOK, WorkerTypeOK
<1>1. ASSUME NEW j \in Jobs, NEW m \in Rows, CreateJob(j, m)
      PROVE  SettleInv'
  <2>1. rowJob[m] = NoJob /\ rowStatus[m] = "absent" /\ \A k \in Rows : rowJob[k] # j
    BY <1>1 DEF CreateJob, Fresh, Inv, PairInv
  <2>2. ASSUME NEW v \in Workers
        PROVE  WorkerSettle(v)'
    <3>1. pc[v] # "idle" => cur[v] # m /\ JobOf(v) # j
      BY <1>00, <2>1 DEF JobOf
    <3>2. pc[v] # "idle" => rowJob'[cur[v]] = rowJob[cur[v]]
      BY <1>1, <1>00, <3>1 DEF CreateJob, Inv
    <3>3. pc[v] # "idle" /\ JobOf(v) \in Jobs => jobStatus'[JobOf(v)] = jobStatus[JobOf(v)]
      BY <1>1, <3>1 DEF CreateJob, Inv
    <3>4. pc' = pc /\ seen' = seen /\ goal' = goal /\ cur' = cur
      BY <1>1 DEF CreateJob, localVars
    <3>5. QED
      BY <1>0, <3>2, <3>3, <3>4, SettleFrame
  <2>3. ASSUME NEW k \in Rows
        PROVE  RowSettle(k)'
    <3>1. CASE k = m
      BY <1>1, <3>1 DEF CreateJob, RowSettle, Inv
    <3>2. CASE k # m
      BY <1>0, <1>1, <2>1, <3>2, RowFrame DEF CreateJob, Inv
    <3>3. QED
      BY <3>1, <3>2
  <2>4. QED
    BY <2>2, <2>3 DEF SettleInv, WorkerSettle, RowSettle
<1>2. ASSUME NEW S \in SUBSET Rows, Replay(S)
      PROVE  SettleInv'
  <2>1. \A m \in S : rowStatus[m] = "dlq" /\ rowJob[m] \in Jobs
    BY <1>2 DEF Replay
  <2>2. ASSUME NEW k \in Rows, rowJob[k] \in Jobs, k \notin S
        PROVE  jobStatus'[rowJob[k]] = jobStatus[rowJob[k]]
    <3>1. \A m \in S : rowJob[m] # rowJob[k]
      BY <2>1, <2>2, PipelineAssumption DEF Inv, OneRowPerJob
    <3>2. QED
      BY <1>2, <2>2, <3>1 DEF Replay
  <2>3. ASSUME NEW v \in Workers
        PROVE  WorkerSettle(v)'
    <3>1. pc[v] # "idle" => cur[v] \in Rows /\ cur[v] \notin S
      BY <1>00, <2>1
    <3>2. pc[v] # "idle" /\ JobOf(v) \in Jobs => jobStatus'[JobOf(v)] = jobStatus[JobOf(v)]
      BY <2>2, <3>1 DEF JobOf
    <3>3. pc' = pc /\ seen' = seen /\ goal' = goal /\ cur' = cur /\ rowJob' = rowJob
      BY <1>2 DEF Replay, localVars
    <3>4. QED
      BY <1>0, <3>2, <3>3, SettleFrame
  <2>4. ASSUME NEW k \in Rows
        PROVE  RowSettle(k)'
    <3>1. CASE k \in S
      BY <1>2, <3>1 DEF Replay, RowSettle
    <3>2. CASE k \notin S
      BY <1>0, <1>2, <2>2, <3>2, RowFrame DEF Replay
    <3>3. QED
      BY <3>1, <3>2
  <2>5. QED
    BY <2>3, <2>4 DEF SettleInv, WorkerSettle, RowSettle
<1>3. ASSUME NEW w \in Workers, NEW m \in Rows, Receive(w, m)
      PROVE  SettleInv'
  <2>1. jobStatus' = jobStatus /\ rowJob' = rowJob /\ seen' = seen /\ goal' = goal
    BY <1>3 DEF Receive, jobVars
  <2>2. ASSUME NEW v \in Workers
        PROVE  WorkerSettle(v)'
    <3>1. CASE v = w
      BY <1>0, <1>3, <2>1, <3>1 DEF Receive, WorkerSettle, Inv
    <3>2. CASE v # w
      <4>1. pc'[v] = pc[v] /\ cur'[v] = cur[v]
        BY <1>3, <3>2 DEF Receive, Inv
      <4>2. QED
        BY <1>0, <2>1, <4>1, SettleFrame
    <3>3. QED
      BY <3>1, <3>2
  <2>3. ASSUME NEW k \in Rows
        PROVE  RowSettle(k)'
    <3>1. rowStatus'[k] \in {rowStatus[k], "processing"}
      BY <1>3 DEF Receive, Claim, Inv
    <3>2. QED
      BY <1>0, <2>1, <3>1, RowFrame
  <2>4. QED
    BY <2>2, <2>3 DEF SettleInv, WorkerSettle, RowSettle
<1>4. ASSUME NEW w \in Workers, pc[w] # "idle", LocalStep(w)
      PROVE  SettleInv'
  BY <1>4, LocalSettle
\* a worker that returns believes nothing any more, the others are undisturbed
<1>5. ASSUME NEW w \in Workers, Return(w), UNCHANGED <<jobStatus, rowJob>>,
             \A m \in Rows : RowSettle(m)'
      PROVE  SettleInv'
  <2>1. ASSUME NEW v \in Workers
        PROVE  WorkerSettle(v)'
    <3>1. CASE v = w
      BY <1>5, <3>1 DEF Return, WorkerSettle, Inv
    <3>2. CASE v # w
      <4>1. pc'[v] = pc[v] /\ cur'[v] = cur[v] /\ seen'[v] = seen[v] /\ goal'[v] = goal[v]
        BY <1>5, <3>2 DEF Return, Inv
      <4>2. QED
        BY <1>0, <1>5, <4>1, SettleFrame
    <3>3. QED
      BY <3>1, <3>2
  <2>2. QED
    BY <1>5, <2>1 DEF SettleInv, WorkerSettle, RowSettle
<1>6. ASSUME NEW w \in Workers, pc[w] # "idle", AckStep(w) \/ Abandon(w)
      PROVE  SettleInv'
  <2>1. Return(w) /\ jobStatus' = jobStatus /\ rowJob' = rowJob
    BY <1>6 DEF AckStep, Abandon, AckTerminalJob, AckSettled, ScheduleRetry,
                DeleteMessage, ChangeVisibility, jobVars
  <2>2. ASSUME NEW m \in Rows
        PROVE  RowSettle(m)'
    <3>1. CASE Held(w, m) /\ (AckTerminalJob(w) \/ AckSettled(w))
      <4>1. cur[w] = m /\ rowStatus'[m] = "completed"
        BY <3>1, PipelineAssumption DEF Held, AckTerminalJob, AckSettled, DeleteMessage,
                                        HandleInv, Inv
      <4>2. rowJob[m] \in Jobs /\ jobStatus[rowJob[m]] \in {"completed", "skipped", "failed"}
        BY <1>0, <3>1, <4>1 DEF AckTerminalJob, AlreadyTerminal, AckSettled, JobOf,
                                WorkerSettle, Inv, WorkerInv, WInv
      <4>3. QED
        BY <2>1, <4>1, <4>2 DEF RowSettle
    <3>2. CASE ~(Held(w, m) /\ (AckTerminalJob(w) \/ AckSettled(w)))
      <4>1. rowStatus'[m] \in {rowStatus[m], "pending"}
        BY <1>6, <3>2 DEF AckStep, Abandon, AckTerminalJob, AckSettled, ScheduleRetry,
                          DeleteMessage, ChangeVisibility, Inv
      <4>2. QED
        BY <1>0, <2>1, <4>1, RowFrame
    <3>3. QED
      BY <3>1, <3>2
  <2>3. QED
    BY <1>5, <2>1, <2>2
<1>7. ASSUME NEW w \in Workers, MoveToDlq(w)
      PROVE  SettleInv'
  <2>1. Return(w) /\ jobStatus' = jobStatus /\ rowJob' = rowJob
    BY <1>7 DEF MoveToDlq, jobVars
  <2>2. \A m \in Rows : rowStatus'[m] = IF m = cur[w] THEN "dlq" ELSE rowStatus[m]
    BY <1>7 DEF MoveToDlq, Inv
  <2>3. JobOf(w) \in Jobs => jobStatus[JobOf(w)] = "dead_letter"
    BY <1>0, <1>7 DEF MoveToDlq, WorkerSettle
  <2>4. \A m \in Rows : RowSettle(m)'
    BY <1>0, <2>1, <2>2, <2>3 DEF RowSettle, JobOf
  <2>5. QED
    BY <1>5, <2>1, <2>4
<1>8. ASSUME \/ \E m \in Rows : BecomeVisible(m)
             \/ \E j \in Jobs : GrowOld(j)
             \/ UNCHANGED vars
      PROVE  SettleInv'
  <2>1. jobStatus' = jobStatus /\ rowStatus' = rowStatus /\ rowJob' = rowJob
    BY <1>8 DEF BecomeVisible, GrowOld, vars, jobVars, rowVars
  <2>2. pc' = pc /\ cur' = cur /\ seen' = seen /\ goal' = goal
    BY <1>8 DEF BecomeVisible, GrowOld, vars, localVars
  <2>3. (\A v \in Workers : WorkerSettle(v)') /\ (\A m \in Rows : RowSettle(m)')
    BY <1>0, <2>1, <2>2, SettleFrame, RowFrame
  <2>4. QED
    BY <2>3 DEF SettleInv, WorkerSettle, RowSettle
<1>9. QED
  BY <1>1, <1>2, <1>3, <1>4, <1>6, <1>7, <1>8, NextCases DEF Inv

-----------------------------------------------------------------------------
(* The theorems                                                            *)

\* The invariant holds in the initial states.
LEMMA InvInit == Prompt /\ Init => Inv
<1> SUFFICES ASSUME Prompt, Init
             PROVE  Inv
  OBVIOUS
<1>1. TypeOK /\ WorkerInv
  BY PipelineAssumption DEF Init, TypeOK, JobTypeOK, RowTypeOK, WorkerTypeOK, WorkerInv,
         WInv, RowStatuses, AttemptsCap, Rows, NoRow
<1>2. \A m \in Rows : rowJob[m] = NoJob /\ rowStatus[m] \in {"pending", "absent"}
  BY DEF Init, Prompt
<1>3. HandleInv /\ LeaseInv
  BY DEF Init, HandleInv, LeaseInv
<1>4. PairInv /\ OneRowPerJob
  BY <1>2, PipelineAssumption DEF Init, PairInv, OneRowPerJob
<1>5. SettleInv
  BY <1>2 DEF Init, SettleInv
<1>6. QED
  BY <1>1, <1>3, <1>4, <1>5 DEF Inv

\* Every step of the pipeline preserves the invariant.
LEMMA InvStep == Prompt /\ Inv /\ [Next]_vars => Inv'
<1> SUFFICES ASSUME Prompt, Inv, [Next]_vars
             PROVE  Inv'
  OBVIOUS
<1>1. TypeOK' /\ WorkerInv' /\ HandleInv'
  BY TypeStep, WorkerStep, HandleStep DEF Inv
<1>2. CASE Next
  BY <1>1, <1>2, LeaseStep, PairStep, SettleStep DEF Inv
<1>3. CASE UNCHANGED vars
  <2>1. LeaseInv' /\ PairInv' /\ OneRowPerJob'
    BY <1>3 DEF vars, jobVars, rowVars, localVars, Inv, LeaseInv, PairInv, OneRowPerJob
  <2>2. SettleInv'
    BY <1>3 DEF vars, jobVars, rowVars, localVars, Inv, SettleInv, JobOf
  <2>3. QED
    BY <1>1, <2>1, <2>2 DEF Inv
<1>4. QED
  BY <1>2, <1>3

\* The invariant holds for ever.
LEMMA InvAlways == ASSUME Prompt PROVE Spec => []Inv
<1>1. Init => Inv
  BY InvInit
<1>2. Inv /\ [Next]_vars => Inv'
  BY InvStep
<1>3. QED
  BY <1>1, <1>2, PTL DEF Spec

\* With leases respected, the row of a job keeps its identity between the main
\* queue and the dead letter queue (send_to_dlq never inserts a copy).
THEOREM PromptOneRow == ASSUME Prompt PROVE Spec => []OneRowPerJob
<1>1. Inv => OneRowPerJob
  BY DEF Inv
<1>2. QED
  BY <1>1, InvAlways, PTL

\* With leases respected, a message is acknowledged only for a settled job.
THEOREM PromptAck == ASSUME Prompt PROVE Spec => []AckedMeansSettled
<1>1. Inv => AckedMeansSettled
  BY DEF Inv, SettleInv, AckedMeansSettled
<1>2. QED
  BY <1>1, InvAlways, PTL

\* With leases respected, no unfinished job loses its message, whatever
\* crashes, retries and replays happen.
THEOREM PromptNoLoss == ASSUME Prompt PROVE Spec => []UnfinishedHasMessage
<1>1. ASSUME Inv, NEW j \in Jobs, jobStatus[j] \in {"queued", "processing", "retrying"}
      PROVE  \E m \in Rows : rowJob[m] = j /\ InMainQueue(m)
  <2>1. PICK m \in Rows : rowJob[m] = j
    BY <1>1 DEF Inv, PairInv
  <2>2. rowStatus[m] \notin {"absent", "completed", "dlq"}
    BY <1>1, <2>1, PipelineAssumption DEF Inv, PairInv, SettleInv
  <2>3. QED
    BY <1>1, <2>1, <2>2 DEF InMainQueue, Inv, TypeOK, RowTypeOK, RowStatuses
<1>2. Inv => UnfinishedHasMessage
  BY <1>1 DEF UnfinishedHasMessage
<1>3. QED
  BY <1>2, InvAlways, PTL

\* With leases respected, the unlocked settlements follow the consumer's table
\* of transitions: what a worker read is still true when it writes.
THEOREM PromptTable == ASSUME Prompt PROVE Spec => StatusFollowsTable
<1>1. ASSUME Inv, [Next]_vars, NEW j \in Jobs, jobStatus'[j] # jobStatus[j]
      PROVE  LegalChange(jobStatus[j], jobStatus'[j])
  <2> USE DEF TypeOK, JobTypeOK, LegalChange
  <2>1. ASSUME NEW i \in Jobs, NEW m \in Rows, CreateJob(i, m)
        PROVE  LegalChange(jobStatus[j], jobStatus'[j])
    BY <1>1, <2>1 DEF CreateJob, Inv
  <2>2. ASSUME NEW S \in SUBSET Rows, Replay(S)
        PROVE  LegalChange(jobStatus[j], jobStatus'[j])
    BY <1>1, <2>2 DEF Replay
  <2>3. ASSUME NEW w \in Workers, StartJob(w)
        PROVE  LegalChange(jobStatus[j], jobStatus'[j])
    BY <1>1, <2>3 DEF StartJob, Startable, Inv
  <2>4. ASSUME NEW w \in Workers, Write(w)
        PROVE  LegalChange(jobStatus[j], jobStatus'[j])
    <3>1. j = JobOf(w) /\ jobStatus'[j] = goal[w]
      BY <1>1, <2>4 DEF Write, Inv
    <3>2. QED
      BY <1>1, <2>4, <3>1 DEF Write, Inv, SettleInv
  <2>5. ASSUME NEW w \in Workers, LocalStep(w), ~StartJob(w), ~Write(w)
        PROVE  LegalChange(jobStatus[j], jobStatus'[j])
    BY <1>1, <2>5 DEF LocalStep, MissJob, ReconcileLegacyJob, InsertObservation,
       SkipProduct, FinishJob, Decide, FindDeadLetter, RaiseError, jobVars, Inv
  <2>6. ASSUME NEW w \in Workers, AckStep(w) \/ Abandon(w) \/ MoveToDlq(w)
        PROVE  jobStatus' = jobStatus
    BY <2>6 DEF AckStep, AckTerminalJob, AckSettled, ScheduleRetry, Abandon, MoveToDlq,
                jobVars
  <2>7. ASSUME \/ \E w \in Workers, m \in Rows : Receive(w, m)
               \/ \E m \in Rows : BecomeVisible(m)
               \/ \E i \in Jobs : GrowOld(i)
               \/ UNCHANGED vars
        PROVE  jobStatus' = jobStatus
    BY <2>7 DEF Receive, BecomeVisible, GrowOld, vars, jobVars
  <2>8. QED
    BY <1>1, <2>1, <2>2, <2>3, <2>4, <2>5, <2>6, <2>7, NextCases DEF Inv
<1>2. Inv /\ [Next]_vars =>
        [\A j \in Jobs : jobStatus'[j] # jobStatus[j] =>
           LegalChange(jobStatus[j], jobStatus'[j])]_vars
  BY <1>1
<1>3. QED
  BY <1>2, InvAlways, PTL DEF Spec, StatusFollowsTable

-----------------------------------------------------------------------------
(* Dead letters, when no worker dies between the commit of dead_letter and *)
(* send_to_dlq                                                             *)

\* A worker on the way to put its row into the dead letter queue.
Burying(w) == pc[w] \in {"acking", "moving"} /\ goal[w] = "dead_letter"

DeadInv ==
  \A m \in Rows : rowJob[m] \in Jobs /\ jobStatus[rowJob[m]] = "dead_letter" =>
    rowStatus[m] = "dlq" \/ \E w \in Workers : Burying(w) /\ cur[w] = m

\* A worker that is not killed leaves its message only before it has settled
\* the job.
LEMMA AliveCases ==
  ASSUME Mortal = {}, LeaseInv, NEW w \in Workers, Step(w) \/ Crash(w)
  PROVE  /\ pc[w] # "idle"
         /\ \/ LocalStep(w) \/ AckStep(w) \/ MoveToDlq(w)
            \/ Abandon(w) /\ pc[w] \in {"begin", "reconciling", "deciding"}
<1>1. ASSUME NEW m \in Rows, pc[w] # "idle"
      PROVE  ~InsertDeadLetter(w, m)
  BY <1>1 DEF LeaseInv, InsertDeadLetter
<1>2. Step(w)
  BY DEF Crash
<1>3. pc[w] # "idle"
  BY <1>2 DEF Step, RejectMessage, MissJob, ReconcileLegacyJob, LoseReconcileRace,
       AckTerminalJob, SkipConcurrent, StartJob, RefuseStart, InsertObservation, SkipProduct,
       FinishJob, RaiseError, Decide, RefuseSettlement, Write, AckSettled, ScheduleRetry,
       DeadLetter, MoveToDlq
<1>4. QED
  BY <1>1, <1>2, <1>3 DEF Step, LocalStep, AckStep, RejectMessage, DeadLetter,
       LoseReconcileRace, SkipConcurrent, RefuseStart, RefuseSettlement

\* A worker whose job is dead-lettered is on the way to bury it.
LEMMA DeadActor ==
  ASSUME Inv, DeadInv, NEW w \in Workers, pc[w] # "idle", JobOf(w) \in Jobs,
         jobStatus[JobOf(w)] = "dead_letter"
  PROVE  Burying(w)
<1>1. \A v \in Workers : pc[v] # "idle" => cur[v] \in Rows /\ holder[cur[v]] = v
  BY DEF Inv, WorkerInv, WInv, LeaseInv
<1>2. rowStatus[cur[w]] = "processing" /\ cur[w] \in Rows /\ rowJob[cur[w]] = JobOf(w)
  BY <1>1, Exclusive DEF JobOf
<1>3. PICK v \in Workers : Burying(v) /\ cur[v] = cur[w]
  BY <1>2 DEF DeadInv
<1>4. v = w
  BY <1>1, <1>3 DEF Burying
<1>5. QED
  BY <1>3, <1>4

\* The step of a worker that touches no row keeps DeadInv: only Write makes a
\* job dead_letter, and its worker goes on to the dead letter queue.
LEMMA DeadLocal ==
  ASSUME Inv, DeadInv, NEW w \in Workers, pc[w] # "idle", LocalStep(w)
  PROVE  DeadInv'
<1>1. /\ UNCHANGED rowVars /\ cur' = cur
      /\ \A v \in Workers \ {w} : pc'[v] = pc[v] /\ goal'[v] = goal[v]
  BY LocalFrame DEF Inv
<1>2. \A j \in Jobs : j # JobOf(w) => jobStatus'[j] = jobStatus[j]
  BY DEF LocalStep, MissJob, ReconcileLegacyJob, StartJob, InsertObservation, SkipProduct,
         FinishJob, Decide, Write, FindDeadLetter, RaiseError, jobVars, Inv, TypeOK, JobTypeOK
<1>3. ASSUME JobOf(w) \in Jobs, jobStatus'[JobOf(w)] = "dead_letter"
      PROVE  Burying(w)'
  <2> USE DEF Inv, TypeOK, JobTypeOK, WorkerTypeOK
  <2>1. CASE Write(w)
    BY <1>3, <2>1 DEF Write, Burying
  <2>2. CASE StartJob(w)
    BY <1>3, <2>2 DEF StartJob
  <2>3. CASE ReconcileLegacyJob(w)
    BY <1>3, <2>3 DEF ReconcileLegacyJob
  <2>4. CASE jobStatus' = jobStatus /\ ~Write(w) /\ ~StartJob(w) /\ ~ReconcileLegacyJob(w)
    <3>1. Burying(w)
      BY <1>3, <2>4, DeadActor
    <3>2. FindDeadLetter(w)
      BY <2>4, <3>1 DEF Burying, LocalStep, MissJob, InsertObservation, SkipProduct,
         FinishJob, Decide, RaiseError
    <3>3. QED
      BY <3>1, <3>2 DEF FindDeadLetter, Burying
  <2>5. QED
    BY <2>1, <2>2, <2>3, <2>4 DEF LocalStep, MissJob, InsertObservation, SkipProduct,
       FinishJob, Decide, RaiseError, FindDeadLetter, jobVars
<1>4. ASSUME NEW m \in Rows, rowJob'[m] \in Jobs, jobStatus'[rowJob'[m]] = "dead_letter",
             rowStatus'[m] # "dlq"
      PROVE  \E v \in Workers : Burying(v)' /\ cur'[v] = m
  <2>1. CASE rowJob[m] = JobOf(w)
    BY <1>1, <1>3, <1>4, <2>1, Exclusive DEF rowVars
  <2>2. CASE rowJob[m] # JobOf(w)
    <3>1. PICK v \in Workers : Burying(v) /\ cur[v] = m
      BY <1>1, <1>2, <1>4, <2>2 DEF rowVars, DeadInv
    <3>2. v # w
      BY <2>2, <3>1 DEF JobOf
    <3>3. QED
      BY <1>1, <3>1, <3>2 DEF Burying
  <2>3. QED
    BY <2>1, <2>2
<1>5. QED
  BY <1>4 DEF DeadInv

\* A worker that is done with a row, and leaves the others alone, keeps DeadInv
\* unless it drops the row of a dead-lettered job.
LEMMA DeadReturn ==
  ASSUME Inv, DeadInv, NEW w \in Workers, Return(w), UNCHANGED <<jobStatus, rowJob>>,
         \A m \in Rows : rowStatus'[m] = rowStatus[m] \/ (m = cur[w] /\ rowStatus[m] # "dlq"),
         Burying(w) => rowStatus'[cur[w]] = "dlq"
                       \/ (JobOf(w) \in Jobs => jobStatus[JobOf(w)] # "dead_letter")
  PROVE  DeadInv'
<1>1. ASSUME NEW m \in Rows, rowJob'[m] \in Jobs, jobStatus'[rowJob'[m]] = "dead_letter",
             rowStatus'[m] # "dlq"
      PROVE  \E v \in Workers : Burying(v)' /\ cur'[v] = m
  <2>1. PICK v \in Workers : Burying(v) /\ cur[v] = m
    BY <1>1 DEF DeadInv
  <2>2. v # w
    BY <1>1, <2>1 DEF JobOf
  <2>3. QED
    BY <2>1, <2>2 DEF Return, Burying, Inv, TypeOK, WorkerTypeOK
<1>2. QED
  BY <1>1 DEF DeadInv

\* No step leaves a dead-lettered job without its row, if no worker is killed.
LEMMA DeadStep == Mortal = {} /\ Inv /\ DeadInv /\ [Next]_vars => DeadInv'
<1> SUFFICES ASSUME Mortal = {}, Inv, DeadInv, [Next]_vars
             PROVE  DeadInv'
  OBVIOUS
<1> USE DEF Inv, TypeOK, JobTypeOK, RowTypeOK
<1>1. ASSUME NEW j \in Jobs, NEW m \in Rows, CreateJob(j, m)
      PROVE  DeadInv'
  BY <1>1 DEF CreateJob, Fresh, DeadInv, Burying, localVars
<1>2. ASSUME NEW S \in SUBSET Rows, Replay(S)
      PROVE  DeadInv'
  <2>1. \A m \in Rows : rowJob[m] \in Jobs /\ jobStatus'[rowJob[m]] = "dead_letter" =>
          m \notin S /\ jobStatus[rowJob[m]] = "dead_letter"
    BY <1>2 DEF Replay
  <2>2. QED
    BY <1>2, <2>1 DEF Replay, DeadInv, Burying, localVars
<1>3. ASSUME NEW w \in Workers, NEW m \in Rows, Receive(w, m)
      PROVE  DeadInv'
  <2>1. holder[m] = Nobody /\ pc[w] = "idle" /\ rowStatus[m] # "dlq"
    BY <1>3 DEF Receive, Deliverable, InMainQueue, LeaseInv
  <2>2. \A v \in Workers : Burying(v) => cur[v] # m /\ v # w
    BY <2>1, PipelineAssumption DEF Burying, LeaseInv
  <2>3. QED
    BY <1>3, <2>1, <2>2 DEF Receive, Claim, DeadInv, Burying, jobVars, WorkerTypeOK
<1>4. ASSUME NEW w \in Workers, Step(w) \/ Crash(w)
      PROVE  DeadInv'
  <2>0. pc[w] # "idle" /\ \A m \in Rows : Held(w, m) => m = cur[w] /\ rowStatus[m] = "processing"
    BY <1>4, AliveCases, PipelineAssumption DEF Held, HandleInv
  <2>1. CASE LocalStep(w)
    BY <2>0, <2>1, DeadLocal
  <2>2. CASE AckStep(w)
    <3>1. JobOf(w) \in Jobs => jobStatus[JobOf(w)] # "dead_letter"
      BY <2>2 DEF AckStep, AckTerminalJob, AlreadyTerminal, AckSettled, ScheduleRetry, SettleInv
    <3>2. Return(w) /\ UNCHANGED <<jobStatus, rowJob>>
      BY <2>2 DEF AckStep, AckTerminalJob, AckSettled, ScheduleRetry, DeleteMessage,
                  ChangeVisibility, jobVars
    <3>3. \A m \in Rows : rowStatus'[m] = rowStatus[m] \/ (m = cur[w] /\ rowStatus[m] # "dlq")
      BY <2>0, <2>2 DEF AckStep, AckTerminalJob, AckSettled, ScheduleRetry, DeleteMessage,
                  ChangeVisibility
    <3>4. QED
      BY <3>1, <3>2, <3>3, DeadReturn
  <2>3. CASE Abandon(w) /\ pc[w] \in {"begin", "reconciling", "deciding"}
    BY <2>3, DeadReturn DEF Abandon, Burying, jobVars
  <2>4. CASE MoveToDlq(w)
    <3>1. cur[w] \in Rows /\ rowStatus[cur[w]] = "processing"
      BY <2>0, PipelineAssumption DEF WorkerInv, WInv, LeaseInv, HandleInv
    <3>2. QED
      BY <2>4, <3>1, DeadReturn DEF MoveToDlq, jobVars
  <2>5. QED
    BY <1>4, <2>1, <2>2, <2>3, <2>4, AliveCases
<1>5. ASSUME \/ \E m \in Rows : BecomeVisible(m)
             \/ \E j \in Jobs : GrowOld(j)
             \/ UNCHANGED vars
      PROVE  DeadInv'
  BY <1>5 DEF BecomeVisible, GrowOld, vars, jobVars, rowVars, localVars, DeadInv, Burying
<1>6. QED
  BY <1>1, <1>2, <1>3, <1>4, <1>5 DEF Next, PollNothing

\* With leases respected and no worker killed, a dead-lettered job always has a
\* row in the dead letter queue, or a worker on the way to put it there.
THEOREM PromptDeadLetters ==
  ASSUME Prompt, Mortal = {} PROVE Spec => []DeadLetterIsReplayable
<1>1. Init => DeadInv
  BY DEF Init, DeadInv
<1>2. Mortal = {} /\ Inv /\ DeadInv /\ [Next]_vars => DeadInv'
  BY DeadStep
<1>3. Inv /\ DeadInv => DeadLetterIsReplayable
  BY DEF Inv, PairInv, DeadInv, DeadLetterIsReplayable, Burying, JobOf
<1>4. QED
  BY <1>1, <1>2, <1>3, InvAlways, PTL DEF Spec

-----------------------------------------------------------------------------
(* The operator's views                                                    *)

\* The queue hides a row only after somebody received it, so a row that was
\* never delivered is always there to be counted as pending.
HiddenInv ==
  /\ \A m \in Rows : rowStatus[m] = "absent" => visible[m]
  /\ \A m \in Rows : rowStatus[m] = "pending" /\ attempts[m] = 0 => visible[m]
  /\ \A m \in Rows : rowStatus[m] = "processing" => attempts[m] > 0

ViewInv == Inv /\ HiddenInv

\* No step hides a row that was never received.
LEMMA HiddenStep == Prompt /\ ViewInv /\ Next => HiddenInv'
<1> SUFFICES ASSUME Prompt, ViewInv, Next
             PROVE  HiddenInv'
  OBVIOUS
<1> USE DEF ViewInv, Inv, HiddenInv, TypeOK, RowTypeOK, rowVars, localVars
<1>1. ASSUME NEW j \in Jobs, NEW m \in Rows, CreateJob(j, m)
      PROVE  HiddenInv'
  BY <1>1 DEF CreateJob, Fresh
<1>2. ASSUME NEW S \in SUBSET Rows, Replay(S)
      PROVE  HiddenInv'
  BY <1>2 DEF Replay
<1>3. ASSUME NEW w \in Workers, NEW m \in Rows, Receive(w, m)
      PROVE  HiddenInv'
  BY <1>3, PipelineAssumption DEF Receive, Claim, AttemptsCap
<1>4. ASSUME NEW w \in Workers, pc[w] # "idle", LocalStep(w)
      PROVE  HiddenInv'
  BY <1>4, LocalFrame
<1>5. ASSUME NEW w \in Workers, AckStep(w) \/ Abandon(w)
      PROVE  HiddenInv'
  <2>1. \A m \in Rows : Held(w, m) => rowStatus[m] = "processing"
    BY PipelineAssumption DEF Held, HandleInv
  <2>2. QED
    BY <1>5, <2>1 DEF AckStep, Abandon, AckTerminalJob, AckSettled, ScheduleRetry,
                      DeleteMessage, ChangeVisibility
<1>6. ASSUME NEW w \in Workers, MoveToDlq(w)
      PROVE  HiddenInv'
  BY <1>6 DEF MoveToDlq
<1>7. ASSUME NEW m \in Rows, BecomeVisible(m)
      PROVE  HiddenInv'
  BY <1>7 DEF BecomeVisible
<1>8. CASE (\E j \in Jobs : GrowOld(j)) \/ UNCHANGED vars
  BY <1>8 DEF GrowOld, vars
<1>9. QED
  BY <1>1, <1>2, <1>3, <1>4, <1>5, <1>6, <1>7, <1>8, NextCases

\* The invariant of the views holds for ever.
LEMMA ViewInvAlways == ASSUME Prompt PROVE Spec => []ViewInv
<1>1. Init => ViewInv
  BY InvInit DEF ViewInv, HiddenInv, Init
<1>2. ViewInv /\ [Next]_vars => ViewInv'
  <2>1. ASSUME ViewInv, UNCHANGED vars
        PROVE  HiddenInv'
    BY <2>1 DEF ViewInv, HiddenInv, vars, rowVars
  <2>2. QED
    BY <2>1, InvStep, HiddenStep DEF ViewInv
<1>3. QED
  BY <1>1, <1>2, PTL DEF Spec

-----------------------------------------------------------------------------
(* The dashboard                                                           *)

\* Counts that add up to nothing count nothing.
LEMMA NothingCounted ==
  ASSUME TypeOK, QueueMetrics.pending + QueueMetrics.processing + QueueMetrics.retrying = 0
  PROVE  PendingRows = {} /\ ProcessingRows = {} /\ RetryingRows = {}
<1>1. /\ QueueMetrics.pending = Cardinality(PendingRows)
      /\ QueueMetrics.processing = Cardinality(ProcessingRows)
      /\ QueueMetrics.retrying = Cardinality(RetryingRows)
  BY DEF QueueMetrics
<1>2. IsFiniteSet(Rows)
  BY FS_Interval, PipelineAssumption DEF Rows
<1>3. IsFiniteSet(PendingRows) /\ IsFiniteSet(ProcessingRows) /\ IsFiniteSet(RetryingRows)
  <2>1. /\ PendingRows \in SUBSET Rows
        /\ ProcessingRows \in SUBSET Rows
        /\ RetryingRows \in SUBSET Rows
    BY DEF PendingRows, ProcessingRows, RetryingRows
  <2>2. QED
    BY <1>2, <2>1, FS_Subset
<1>4. /\ Cardinality(PendingRows) \in Nat
      /\ Cardinality(ProcessingRows) \in Nat
      /\ Cardinality(RetryingRows) \in Nat
  BY <1>3, FS_CardinalityType
<1>5. /\ Cardinality(PendingRows) = 0
      /\ Cardinality(ProcessingRows) = 0
      /\ Cardinality(RetryingRows) = 0
  BY <1>1, <1>4
<1>6. QED
  BY <1>3, <1>5, FS_EmptySet

\* With leases respected, a dashboard without pending, processing and retrying
\* messages leaves no job unsettled but those whose lease has run out
\* (get_queue_metrics).
THEOREM EmptyQueueIsSettled == ASSUME Prompt PROVE Spec => []EmptyMeansSettled
<1>1. ASSUME ViewInv, UnfinishedHasMessage,
             QueueMetrics.pending + QueueMetrics.processing + QueueMetrics.retrying = 0,
             NEW j \in Jobs, jobStatus[j] \in {"queued", "processing", "retrying"}
      PROVE  \E m \in Rows : rowJob[m] = j /\ rowStatus[m] = "processing" /\ visible[m]
  <2>1. PICK m \in Rows : rowJob[m] = j /\ InMainQueue(m)
    BY <1>1 DEF UnfinishedHasMessage
  <2>2. PendingRows = {} /\ ProcessingRows = {} /\ RetryingRows = {}
    BY <1>1, NothingCounted DEF ViewInv, Inv
  <2>3. rowStatus[m] # "pending"
    <3>1. attempts[m] \in Nat /\ (rowStatus[m] = "pending" /\ attempts[m] = 0 => visible[m])
      BY <1>1, PipelineAssumption DEF ViewInv, Inv, HiddenInv, TypeOK, RowTypeOK, AttemptsCap
    <3>2. QED
      BY <2>2, <3>1 DEF PendingRows, RetryingRows
  <2>4. rowStatus[m] = "processing" /\ visible[m]
    BY <2>1, <2>2, <2>3 DEF InMainQueue, ProcessingRows
  <2>5. QED
    BY <2>1, <2>4
<1>2. ViewInv /\ UnfinishedHasMessage => EmptyMeansSettled
  BY <1>1 DEF EmptyMeansSettled
<1>3. QED
  BY <1>2, ViewInvAlways, PromptNoLoss, PTL

-----------------------------------------------------------------------------
(* The list of dead letters                                                *)

\* Nobody works on a job whose row is in the dead letter queue.
LEMMA ListedIsIdle ==
  ASSUME Inv, NEW m \in Rows, ListedReplayable(m), NEW w \in Workers, pc[w] # "idle"
  PROVE  cur[w] # m /\ JobOf(w) # rowJob[m]
<1>1. rowStatus[m] = "dlq" /\ rowJob[m] \in Jobs
  BY DEF ListedReplayable, DlqRows
<1>2. CASE JobOf(w) = rowJob[m]
  BY <1>1, <1>2, Exclusive
<1>3. CASE cur[w] = m
  BY <1>2, <1>3 DEF JobOf
<1>4. QED
  BY <1>2, <1>3

\* With leases respected, what list_dlq_messages shows as replayable stays so
\* until replay_dlq_messages takes it back to the queue.
THEOREM ListedStays == ASSUME Prompt PROVE Spec => ReplayableUntilReplayed
<1>1. ASSUME Inv, [Next]_vars, NEW m \in Rows, ListedReplayable(m), ~ListedReplayable(m)'
      PROVE  rowStatus'[m] = "pending" /\ jobStatus'[rowJob[m]] = "queued"
  <2> DEFINE Stays == /\ rowStatus'[m] = rowStatus[m]
                      /\ rowJob'[m] = rowJob[m]
                      /\ jobStatus'[rowJob[m]] = jobStatus[rowJob[m]]
  <2>0. /\ rowStatus[m] = "dlq" /\ rowJob[m] \in Jobs
        /\ jobStatus[rowJob[m]] = "dead_letter"
    BY <1>1 DEF ListedReplayable, DlqRows
  <2>1. ~Stays
    BY <1>1 DEF ListedReplayable, DlqRows
  <2> USE DEF Inv, TypeOK, RowTypeOK, JobTypeOK, jobVars, rowVars, localVars
  <2>2. ASSUME NEW j \in Jobs, NEW k \in Rows, CreateJob(j, k)
        PROVE  Stays
    BY <1>1, <2>0, <2>2 DEF CreateJob, Fresh
  <2>3. ASSUME NEW S \in SUBSET Rows, Replay(S)
        PROVE  Stays \/ (rowStatus'[m] = "pending" /\ jobStatus'[rowJob[m]] = "queued")
    <3>1. CASE m \in S
      BY <1>1, <2>0, <2>3, <3>1 DEF Replay
    <3>2. CASE m \notin S
      <4>1. \A k \in S : rowJob[k] # rowJob[m]
        BY <1>1, <2>0, <3>2, PipelineAssumption DEF OneRowPerJob
      <4>2. QED
        BY <1>1, <2>0, <2>3, <3>2, <4>1 DEF Replay
    <3>3. QED
      BY <3>1, <3>2
  <2>4. ASSUME NEW w \in Workers, NEW k \in Rows, Receive(w, k)
        PROVE  Stays
    BY <1>1, <2>0, <2>4 DEF Receive, Claim, Deliverable, InMainQueue
  <2>5. ASSUME NEW w \in Workers, pc[w] # "idle", LocalStep(w)
        PROVE  Stays
    <3>1. UNCHANGED rowVars
      BY <1>1, <2>5, LocalFrame
    <3>2. JobOf(w) # rowJob[m]
      BY <1>1, <2>5, ListedIsIdle
    <3>3. jobStatus'[rowJob[m]] = jobStatus[rowJob[m]]
      BY <1>1, <2>0, <2>5, <3>2 DEF LocalStep, MissJob, ReconcileLegacyJob, StartJob,
         InsertObservation, SkipProduct, FinishJob, Decide, Write, FindDeadLetter, RaiseError
    <3>4. QED
      BY <3>1, <3>3
  <2>6. ASSUME NEW w \in Workers, AckStep(w) \/ Abandon(w)
        PROVE  Stays
    <3>1. ~Held(w, m)
      BY <1>1, <2>0, PipelineAssumption DEF Held, HandleInv
    <3>2. QED
      BY <1>1, <2>6, <3>1 DEF AckStep, Abandon, AckTerminalJob, AckSettled, ScheduleRetry,
                              DeleteMessage, ChangeVisibility
  <2>7. ASSUME NEW w \in Workers, pc[w] # "idle", MoveToDlq(w)
        PROVE  Stays
    BY <1>1, <2>0, <2>7, ListedIsIdle DEF MoveToDlq
  <2>8. ASSUME \/ \E k \in Rows : BecomeVisible(k)
               \/ \E j \in Jobs : GrowOld(j)
               \/ UNCHANGED vars
        PROVE  Stays
    BY <2>8 DEF BecomeVisible, GrowOld, vars
  <2>9. QED
    BY <1>1, <2>1, <2>2, <2>3, <2>4, <2>5, <2>6, <2>7, <2>8, NextCases
<1>2. Inv /\ [Next]_vars =>
        [\A m \in Rows : ListedReplayable(m) /\ ~ListedReplayable(m)' =>
           rowStatus'[m] = "pending" /\ jobStatus'[rowJob[m]] = "queued"]_vars
  BY <1>1
<1>3. QED
  BY <1>2, InvAlways, PTL DEF Spec, ReplayableUntilReplayed

=============================================================================
