--------------------------- MODULE OutboxPromise ---------------------------
(***************************************************************************)
(* What the transactional outbox promises of each event, whatever its      *)
(* publishers do: an event is due until it is published, which only        *)
(* happens once SQS has accepted it, or given up; neither is revoked.      *)
(***************************************************************************)
CONSTANT Events

VARIABLES
  fate,      \* of each event: "none", "due", "published" or "given_up"
  accepted   \* the events SQS has accepted at least once

Due == {e \in Events : fate[e] = "due"}

Init ==
  /\ fate = [e \in Events |-> "none"]
  /\ accepted = {}

\* An event joins with the transaction that changes its job.
Add(e) ==
  /\ fate[e] = "none"
  /\ fate' = [fate EXCEPT ![e] = "due"]
  /\ UNCHANGED accepted

\* SQS accepts some of the due events, perhaps not for the first time.
Accept(S) ==
  /\ S \subseteq Due
  /\ accepted' = accepted \cup S
  /\ UNCHANGED fate

\* One transaction settles some due events as published, gives up others.
Settle(P, G) ==
  /\ P \subseteq Due \cap accepted
  /\ G \subseteq Due \ P
  /\ fate' = [e \in Events |-> IF e \in P THEN "published"
                               ELSE IF e \in G THEN "given_up" ELSE fate[e]]
  /\ UNCHANGED accepted

Next ==
  \/ \E e \in Events : Add(e)
  \/ \E S \in SUBSET Events : Accept(S)
  \/ \E P, G \in SUBSET Events : Settle(P, G)

Spec == Init /\ [][Next]_<<fate, accepted>>

=============================================================================
