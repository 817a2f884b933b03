----------------------------- MODULE QueueViews -----------------------------
(***************************************************************************)
(* What the API shows an operator of the queue of LocalPipeline: the live  *)
(* metrics and the list of dead letters with what can be replayed.         *)
(***************************************************************************)
EXTENDS LocalPipeline, FiniteSetsExt

\* The COUNT(*) FILTERs of get_queue_metrics, as the rows they count.
PendingRows == {m \in Rows : rowStatus[m] = "pending" /\ attempts[m] = 0 /\ visible[m]}
ProcessingRows == {m \in Rows : rowStatus[m] = "processing" /\ ~visible[m]}
\* Mutant: like the pending ones, only those that can be claimed now.
RetryingRowsDue == {m \in Rows : rowStatus[m] = "pending" /\ attempts[m] > 0 /\ visible[m]}
RetryingRows == {m \in Rows : rowStatus[m] = "pending" /\ attempts[m] > 0}
DlqRows == {m \in Rows : rowStatus[m] = "dlq"}

JobsIn(s) == {j \in Jobs : jobStatus[j] = s}

QueueMetrics ==
  LET total == Cardinality(Jobs \ JobsIn("absent")) IN
  [pending |-> Cardinality(PendingRows),
   processing |-> Cardinality(ProcessingRows),
   retrying |-> Cardinality(RetryingRows),
   dlq |-> Cardinality(DlqRows),
   total_jobs |-> total,
   completed_jobs |-> Cardinality(JobsIn("completed")),
   failed_jobs |-> Cardinality(JobsIn("failed")),
   dead_letter_jobs |-> Cardinality(JobsIn("dead_letter")),
   skipped_jobs |-> Cardinality(JobsIn("skipped")),
   total_observations |-> MapThenSumSet(LAMBDA j : counted[j], Jobs)]

\* list_dlq_messages: the flag "replayable" of a dead letter.
ListedReplayable(m) ==
  /\ m \in DlqRows
  /\ rowJob[m] \in Jobs
  /\ jobStatus[rowJob[m]] = "dead_letter"

-----------------------------------------------------------------------------

\* When the dashboard shows an empty queue, every job is settled but for those
\* whose lease has run out.
EmptyMeansSettled ==
  QueueMetrics.pending + QueueMetrics.processing + QueueMetrics.retrying = 0 =>
    \A j \in Jobs : jobStatus[j] \in {"queued", "processing", "retrying"} =>
      \E m \in Rows : rowJob[m] = j /\ rowStatus[m] = "processing" /\ visible[m]

\* A dead letter that the list shows as replayable stays so until somebody
\* replays it, however long the operator takes.
ReplayableUntilReplayed ==
  [][\A m \in Rows : ListedReplayable(m) /\ ~ListedReplayable(m)' =>
       rowStatus'[m] = "pending" /\ jobStatus'[rowJob[m]] = "queued"]_vars
=============================================================================
