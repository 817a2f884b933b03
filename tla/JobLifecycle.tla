---------------------------- MODULE JobLifecycle ----------------------------
(***************************************************************************)
(* The statuses of a scraping job and the transitions the consumer allows. *)
(***************************************************************************)

JobStatuses == {"queued", "processing", "retrying", "completed", "skipped",
                "failed", "dead_letter"}

\* the settlements a worker can ask for
Goals == {"completed", "skipped", "failed", "retrying", "dead_letter"}

\* Mutant: a message that is still about may start a dead-lettered job.
AllowedTransitionsReopen ==
  [s \in JobStatuses |->
     CASE s \in {"queued", "retrying", "dead_letter"} -> {"processing"}
       [] s = "processing" -> Goals \cup {"processing"}
       [] OTHER            -> {}]

AllowedTransitions ==
  [s \in JobStatuses |->
     CASE s = "queued"     -> {"processing"}
       [] s = "processing" -> Goals \cup {"processing"}
       [] s = "retrying"   -> {"processing"}
       [] OTHER            -> {}]

=============================================================================
