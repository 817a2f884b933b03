-------------------------- MODULE MCLocalPipeline --------------------------
(* Model-checking instances of LocalPipeline.                              *)
EXTENDS QueueViews, TLC

\* Workers are interchangeable, and so are the jobs created by the API.
WorkerSymmetry == Permutations(Workers) \cup Permutations(Jobs \ LegacyJobs)

=============================================================================
