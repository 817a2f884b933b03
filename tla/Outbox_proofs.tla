---------------------------- MODULE Outbox_proofs ----------------------------
(***************************************************************************)
(* Proofs about Outbox for every value of its constants: its types, and,   *)
(* when publishers respect their leases, that settled events are final and *)
(* that the outbox implements OutboxPromise; then what the outbox guarantees *)
(* about the other tables it settles: no queued job is forgotten, a pending *)
(* replay always has an event that will settle it, and a dead-lettered job *)
(* can be recovered, although finalize_batch reads jobs and ledger entries *)
(* without locks and writes them when it commits.                          *)
(***************************************************************************)
EXTENDS Outbox, WellFoundedInduction, TLAPS

USE OutboxAssumption DEF Events, NoEvent

-----------------------------------------------------------------------------
(* Types.  Counting attempts stays within its bound because an event that  *)
(* can still fail has an attempt left, and what a publisher has read of    *)
(* the events it owns says so too, even when the reading is stale.         *)

AttemptsLeft ==
  /\ \A e \in Events :
       status[e] \notin {"published", "exhausted"} => attempts[e] < MaxAttempts
  /\ \A p \in Publishers : \A e \in seen[p].owned : seen[p].tries[e] < MaxAttempts

TypeInv == TypeOK /\ AttemptsLeft

SeenType == [owned : SUBSET Events, tries : [Events -> 0..MaxAttempts],
             queued : SUBSET Jobs, pending : SUBSET Events]

\* The readings of a publisher that has read nothing.
LEMMA NothingSeenType == NothingSeen \in SeenType
BY DEF NothingSeen, SeenType

\* A publisher that returns to its loop keeps the types of its locals.
LEMMA ReturnType ==
  ASSUME TypeInv, NEW p \in Publishers, Return(p)
  PROVE  /\ pc' \in [Publishers -> {"idle", "sending", "finalizing", "committing"}]
         /\ batch' \in [Publishers -> SUBSET Events]
         /\ reported' \in [Publishers -> SUBSET Events]
         /\ seen' \in [Publishers -> SeenType]
         /\ \A q \in Publishers : \A e \in seen'[q].owned : seen'[q].tries[e] < MaxAttempts
<1>1. seen' \in [Publishers -> SeenType]
  BY NothingSeenType DEF TypeInv, TypeOK, Return, SeenType
<1>2. ASSUME NEW q \in Publishers, NEW e \in seen'[q].owned
      PROVE  seen'[q].tries[e] < MaxAttempts
  <2>1. CASE q = p
    <3>1. seen'[q] = NothingSeen
      BY <2>1 DEF TypeInv, TypeOK, Return
    <3>2. QED
      BY <1>2, <3>1 DEF NothingSeen
  <2>2. CASE q # p
    <3>1. seen'[q] = seen[q]
      BY <2>2 DEF TypeInv, TypeOK, Return
    <3>2. QED
      BY <1>2, <3>1 DEF TypeInv, AttemptsLeft
  <2>3. QED
    BY <2>1, <2>2
<1>3. QED
  BY <1>1, <1>2 DEF TypeInv, TypeOK, Return

\* Producers insert well-typed events.
LEMMA EnqueueType ==
  ASSUME TypeInv, NEW j \in Jobs \cup {NoJob}, NEW e \in Events,
         NEW l \in Events \cup {NoEvent}, Enqueue(j, e, l),
         ledger' \in [Events -> LedgerStatuses \cup {"none"}]
  PROVE  TypeInv'
<1> USE DEF TypeInv, TypeOK, Enqueue, localVars
<1>1. TypeOK'
  BY DEF EventStatuses, JobStatuses
<1>2. AttemptsLeft'
  BY DEF AttemptsLeft
<1>3. QED
  BY <1>1, <1>2

\* A claim, with the events it takes.
LEMMA ClaimType ==
  ASSUME TypeInv, NEW p \in Publishers, Claim(p)
  PROVE  TypeInv'
<1> DEFINE S == FirstOf(Claimable, BatchSize)
<1>1. S \subseteq Events /\ \A e \in S : status[e] \in {"pending", "failed", "publishing"}
  BY DEF FirstOf, Claimable
<1>2. /\ status' = [e \in Events |-> IF e \in S THEN "publishing" ELSE status[e]]
      /\ owner' = [e \in Events |-> IF e \in S THEN p ELSE owner[e]]
      /\ leased' = [e \in Events |-> e \in S \/ leased[e]]
      /\ batch' = [batch EXCEPT ![p] = S]
      /\ pc' = [pc EXCEPT ![p] = "sending"]
      /\ UNCHANGED <<jobVars, evJob, source, attempts, ready, copies, reported, seen>>
  BY DEF Claim
<1> HIDE DEF S
<1>3. TypeOK'
  BY <1>1, <1>2 DEF TypeInv, TypeOK, EventStatuses, jobVars
<1>4. AttemptsLeft'
  BY <1>1, <1>2 DEF TypeInv, AttemptsLeft
<1>5. QED
  BY <1>3, <1>4 DEF TypeInv

\* Sending a batch.
LEMMA PublishType ==
  ASSUME TypeInv, NEW p \in Publishers, Publish(p)
  PROVE  TypeInv'
<1>1. PICK A \in SUBSET batch[p] : \E R \in SUBSET A :
        /\ copies' = [e \in Events |-> IF e \in A /\ copies[e] < MaxCopies
                                       THEN copies[e] + 1 ELSE copies[e]]
        /\ reported' = [reported EXCEPT ![p] = R]
  BY DEF Publish
<1>2. PICK R \in SUBSET A : reported' = [reported EXCEPT ![p] = R]
  BY <1>1
<1>3. copies' \in [Events -> 0..MaxCopies]
  BY SMTT(30), <1>1 DEF TypeInv, TypeOK
<1>4. reported' \in [Publishers -> SUBSET Events]
  BY <1>2 DEF TypeInv, TypeOK
<1>5. QED
  BY <1>3, <1>4 DEF TypeInv, TypeOK, AttemptsLeft, Publish, jobVars, eventVars

\* The readings of finalize_batch; an event it owns has an attempt left.
LEMMA InspectType ==
  ASSUME TypeInv, NEW p \in Publishers, Inspect(p)
  PROVE  TypeInv'
<1> DEFINE S == [owned   |-> {e \in batch[p] : status[e] = "publishing" /\ owner[e] = p},
                 tries   |-> attempts,
                 queued  |-> {j \in Jobs : job[j] = "queued"},
                 pending |-> {e \in Events : ledger[e] = "replay_pending"}]
<1>1. S \in SeenType
  BY DEF TypeInv, TypeOK, SeenType
<1>2. \A e \in S.owned : S.tries[e] < MaxAttempts
  BY DEF TypeInv, TypeOK, AttemptsLeft
<1>3. seen' = [seen EXCEPT ![p] = S]
  BY DEF Inspect
<1> HIDE DEF S
<1>4. seen' \in [Publishers -> SeenType]
  BY <1>1, <1>3 DEF TypeInv, TypeOK, SeenType
<1>5. ASSUME NEW q \in Publishers, NEW e \in seen'[q].owned
      PROVE  seen'[q].tries[e] < MaxAttempts
  <2>1. CASE q = p
    <3>1. seen'[q] = S
      BY <1>3, <2>1 DEF TypeInv, TypeOK
    <3>2. QED
      BY <1>2, <1>5, <3>1
  <2>2. CASE q # p
    <3>1. seen'[q] = seen[q]
      BY <1>3, <2>2 DEF TypeInv, TypeOK
    <3>2. QED
      BY <1>5, <3>1 DEF TypeInv, AttemptsLeft
  <2>3. QED
    BY <2>1, <2>2
<1>6. TypeOK'
  BY <1>4 DEF TypeInv, TypeOK, Inspect, jobVars, eventVars, SeenType
<1>7. AttemptsLeft'
  BY <1>5 DEF TypeInv, AttemptsLeft, Inspect, eventVars
<1>8. QED
  BY <1>6, <1>7 DEF TypeInv

\* What a publisher settles is among the events it owns, and an event that
\* fails without being exhausted has an attempt left.
LEMMA SettledSets ==
  ASSUME TypeInv, NEW p \in Publishers
  PROVE  /\ seen[p].owned \subseteq Events
         /\ Succeeded(p) \subseteq seen[p].owned
         /\ Failed(p) \subseteq seen[p].owned
         /\ Exhausted(p) \subseteq Failed(p)
         /\ Succeeded(p) \cap Failed(p) = {}
         /\ \A e \in Failed(p) : seen[p].tries[e] + 1 \in 0..MaxAttempts
         /\ \A e \in Failed(p) \ Exhausted(p) : seen[p].tries[e] + 1 < MaxAttempts
<1>1. seen[p] \in SeenType
  BY DEF TypeInv, TypeOK, SeenType
<1>2. seen[p].owned \subseteq Events /\ seen[p].tries \in [Events -> 0..MaxAttempts]
  BY <1>1 DEF SeenType
<1>3. \A e \in seen[p].owned : seen[p].tries[e] \in 0..MaxAttempts
                               /\ seen[p].tries[e] < MaxAttempts
  BY <1>2 DEF TypeInv, AttemptsLeft
<1>4. ASSUME NEW e \in Failed(p)
      PROVE  /\ seen[p].tries[e] + 1 \in 0..MaxAttempts
             /\ e \notin Exhausted(p) => seen[p].tries[e] + 1 < MaxAttempts
  <2>1. e \in seen[p].owned
    BY DEF Failed
  <2>2. seen[p].tries[e] \in 0..MaxAttempts /\ seen[p].tries[e] < MaxAttempts
    BY <1>3, <2>1
  <2>3. QED
    BY <2>2 DEF Exhausted
<1>5. QED
  BY <1>2, <1>4 DEF Succeeded, Failed, Exhausted

\* The transaction that settles a batch.
LEMMA CommitType ==
  ASSUME TypeInv, NEW p \in Publishers, Commit(p)
  PROVE  TypeInv'
<1> USE SettledSets
<1>1. status' \in [Events -> EventStatuses \cup {"absent"}]
  BY DEF TypeInv, TypeOK, Commit, EventStatuses
<1>2. attempts' \in [Events -> 0..MaxAttempts]
  BY DEF TypeInv, TypeOK, Commit
<1>3. owner' \in [Events -> Publishers \cup {Nobody}]
  BY DEF TypeInv, TypeOK, Commit
<1>4. leased' \in [Events -> BOOLEAN] /\ ready' \in [Events -> BOOLEAN]
  BY DEF TypeInv, TypeOK, Commit
<1>5. ledger' \in [Events -> LedgerStatuses \cup {"none"}]
  <2>1. \A l \in Events : NewLedger(p, l) \in LedgerStatuses \cup {"none"}
    BY DEF TypeInv, TypeOK, NewLedger, LedgerStatuses
  <2>2. QED
    BY <2>1 DEF Commit
<1>6. job' \in [Jobs -> JobStatuses \cup {"absent"}]
  <2>1. \A j \in Jobs : NewJob(p, j) \in JobStatuses \cup {"absent"}
    BY DEF TypeInv, TypeOK, NewJob, JobStatuses
  <2>2. QED
    BY <2>1 DEF Commit
<1>7. TypeOK'
  BY <1>1, <1>2, <1>3, <1>4, <1>5, <1>6, ReturnType DEF TypeInv, TypeOK, Commit, SeenType
<1>8. ASSUME NEW e \in Events, status'[e] \notin {"published", "exhausted"}
      PROVE  attempts'[e] < MaxAttempts
  <2>1. e \notin Succeeded(p) /\ e \notin Exhausted(p)
    BY <1>8 DEF Commit
  <2>2. CASE e \in Failed(p)
    BY <2>1, <2>2 DEF Commit
  <2>3. CASE e \notin Failed(p)
    BY <1>8, <2>1, <2>3 DEF Commit, TypeInv, AttemptsLeft
  <2>4. QED
    BY <2>2, <2>3
<1>9. AttemptsLeft'
  BY <1>8, ReturnType DEF AttemptsLeft, Commit
<1>10. QED
  BY <1>7, <1>9 DEF TypeInv

\* Every step keeps the types.
LEMMA TypeStep ==
  ASSUME TypeInv, [Next]_vars
  PROVE  TypeInv'
<1>1. ASSUME NEW j \in Jobs, NEW e \in Events, Dispatch(j, e)  PROVE TypeInv'
  BY <1>1, EnqueueType DEF Dispatch, TypeInv, TypeOK
<1>2. ASSUME NEW l \in Events, NEW e \in Events, Replay(l, e)  PROVE TypeInv'
  <2>1. evJob[l] \in Jobs \cup {NoJob}
    BY DEF TypeInv, TypeOK
  <2>2. ledger' \in [Events -> LedgerStatuses \cup {"none"}]
    BY <1>2 DEF Replay, TypeInv, TypeOK, LedgerStatuses
  <2>3. QED
    BY <1>2, <2>1, <2>2, EnqueueType DEF Replay
<1>3. ASSUME NEW p \in Publishers, Cycle(p)  PROVE TypeInv'
  BY <1>3, ClaimType, PublishType, InspectType, CommitType DEF Cycle
<1>4. ASSUME NEW p \in Publishers, Crash(p)  PROVE TypeInv'
  <2>1. Return(p)
    BY <1>4 DEF Crash
  <2>2. QED
    BY <1>4, <2>1, ReturnType
       DEF Crash, TypeInv, TypeOK, AttemptsLeft, SeenType, jobVars, eventVars
<1>5. ASSUME NEW e \in Events, LeaseExpires(e) \/ BackoffEnds(e)  PROVE TypeInv'
  BY <1>5 DEF LeaseExpires, BackoffEnds, TypeInv, TypeOK, AttemptsLeft, jobVars, localVars
<1>6. ASSUME NEW e \in Events, Index(e)  PROVE TypeInv'
  BY <1>6 DEF Index, TypeInv, TypeOK, AttemptsLeft, JobStatuses, LedgerStatuses,
              eventVars, localVars
<1>7. ASSUME NEW j \in Jobs, Consume(j)  PROVE TypeInv'
  <2>1. PICK t \in AllowedTransitions[job[j]] : job' = [job EXCEPT ![j] = t]
    BY <1>7 DEF Consume
  <2>2. t \in JobStatuses
    BY <1>7 DEF Consume, AllowedTransitions, Goals, JobStatuses
  <2>3. QED
    BY <1>7, <2>1, <2>2 DEF Consume, TypeInv, TypeOK, AttemptsLeft, eventVars, localVars
<1>8. CASE UNCHANGED vars
  BY <1>8 DEF vars, TypeInv, TypeOK, AttemptsLeft, jobVars, eventVars, localVars
<1>9. QED
  BY <1>1, <1>2, <1>3, <1>4, <1>5, <1>6, <1>7, <1>8 DEF Next, PollNothing

\* The types hold at the start.
LEMMA TypeInit ==
  ASSUME Init
  PROVE  TypeInv
<1>1. TypeOK
  BY NothingSeenType DEF Init, TypeOK, SeenType
<1>2. AttemptsLeft
  BY DEF Init, AttemptsLeft, NothingSeen
<1>3. QED
  BY <1>1, <1>2 DEF TypeInv

\* Types and attempts, always.
LEMMA TypeAlways == Spec => []TypeInv
BY TypeInit, TypeStep, PTL DEF Spec

\* Every variable always has its type; in particular an event never counts
\* more than MaxAttempts attempts, even when stale readings are written.
THEOREM OutboxTypes == Spec => []TypeOK
<1>1. TypeInv => TypeOK
  BY DEF TypeInv
<1>2. QED
  BY <1>1, TypeAlways, PTL

-----------------------------------------------------------------------------
(* Leases.  A publisher that finalizes before its lease expires still owns *)
(* what it has claimed.                                                    *)

Lease(p) ==
  /\ \A e \in batch[p] : status[e] = "publishing" /\ owner[e] = p /\ leased[e]
  /\ \A e \in reported[p] : e \in batch[p] /\ copies[e] > 0
  /\ pc[p] = "idle" => batch[p] = {}
  /\ pc[p] = "committing" => seen[p].owned = batch[p]

LeaseInv == \A p \in Publishers : Lease(p)

OwnedInv == TypeInv /\ LeaseInv

\* Events of one batch are in no other.
LEMMA BatchesDisjoint ==
  ASSUME LeaseInv, NEW p \in Publishers, NEW q \in Publishers, p # q
  PROVE  batch[p] \cap batch[q] = {}
BY DEF LeaseInv, Lease

\* A step that leaves a publisher, its events and its messages alone keeps
\* its lease.
LEMMA LeaseFrame ==
  ASSUME NEW p \in Publishers, Lease(p),
         pc'[p] = pc[p], batch'[p] = batch[p], reported'[p] = reported[p],
         seen'[p] = seen[p],
         \A e \in batch[p] : status'[e] = status[e] /\ owner'[e] = owner[e] /\ leased'[e],
         \A e \in batch[p] : copies[e] > 0 => copies'[e] > 0
  PROVE  Lease(p)'
BY DEF Lease

\* The publisher that returns to its loop has no batch.
LEMMA LeaseReturn ==
  ASSUME TypeInv, NEW p \in Publishers, Return(p)
  PROVE  /\ Lease(p)'
         /\ \A q \in Publishers \ {p} :
              /\ pc'[q] = pc[q] /\ batch'[q] = batch[q]
              /\ reported'[q] = reported[q] /\ seen'[q] = seen[q]
<1>1. batch'[p] = {} /\ reported'[p] = {} /\ pc'[p] = "idle"
  BY DEF TypeInv, TypeOK, Return
<1>2. QED
  BY <1>1 DEF TypeInv, TypeOK, Return, Lease

\* A claim takes no event that is leased.
LEMMA LeaseClaim ==
  ASSUME OwnedInv, NEW p \in Publishers, Claim(p), NEW q \in Publishers
  PROVE  Lease(q)'
<1> DEFINE S == FirstOf(Claimable, BatchSize)
<1>1. S \subseteq Events /\ \A e \in S : ~(status[e] = "publishing" /\ leased[e])
  BY DEF FirstOf, Claimable
<1>2. /\ status' = [e \in Events |-> IF e \in S THEN "publishing" ELSE status[e]]
      /\ owner' = [e \in Events |-> IF e \in S THEN p ELSE owner[e]]
      /\ leased' = [e \in Events |-> e \in S \/ leased[e]]
      /\ batch' = [batch EXCEPT ![p] = S]
      /\ pc' = [pc EXCEPT ![p] = "sending"]
      /\ pc[p] = "idle"
      /\ UNCHANGED <<copies, reported, seen>>
  BY DEF Claim
<1> HIDE DEF S
<1>3. Lease(q) /\ Lease(p) /\ batch[q] \subseteq Events
  BY DEF OwnedInv, LeaseInv, TypeInv, TypeOK
<1>4. CASE q = p
  <2>1. batch'[p] = S /\ pc'[p] = "sending" /\ batch[p] = {} /\ reported[p] = {}
    BY <1>2, <1>3 DEF OwnedInv, TypeInv, TypeOK, Lease
  <2>2. QED
    BY <1>1, <1>2, <1>4, <2>1 DEF Lease
<1>5. CASE q # p
  <2>1. \A e \in batch[q] : e \notin S
    BY <1>1, <1>3 DEF Lease
  <2>2. QED
    BY <1>2, <1>3, <1>5, <2>1, LeaseFrame DEF OwnedInv, TypeInv, TypeOK, Lease
<1>6. QED
  BY <1>4, <1>5

\* What SQS reports as successful it has accepted.
LEMMA LeasePublish ==
  ASSUME OwnedInv, NEW p \in Publishers, Publish(p), NEW q \in Publishers
  PROVE  Lease(q)'
<1>0. PICK A \in SUBSET batch[p] : \E R \in SUBSET A :
        /\ copies' = [e \in Events |-> IF e \in A /\ copies[e] < MaxCopies
                                       THEN copies[e] + 1 ELSE copies[e]]
        /\ reported' = [reported EXCEPT ![p] = R]
  BY DEF Publish
<1>1. PICK R \in SUBSET A :
        /\ copies' = [e \in Events |-> IF e \in A /\ copies[e] < MaxCopies
                                       THEN copies[e] + 1 ELSE copies[e]]
        /\ reported' = [reported EXCEPT ![p] = R]
  BY <1>0
<1>2. batch[p] \subseteq Events /\ batch[q] \subseteq Events /\ copies \in [Events -> 0..MaxCopies]
  BY DEF OwnedInv, TypeInv, TypeOK
<1>3. \A e \in Events : copies[e] > 0 => copies'[e] > 0
  BY <1>1, <1>2
<1>4. \A e \in A : copies'[e] > 0
  BY <1>1, <1>2
<1>5. CASE q = p
  <2>1. reported'[p] = R /\ pc'[p] = "finalizing"
    BY <1>1 DEF OwnedInv, TypeInv, TypeOK, Publish
  <2>2. QED
    BY <1>4, <1>5, <2>1, SMTT(30) DEF OwnedInv, LeaseInv, Lease, Publish, eventVars
<1>6. CASE q # p
  <2>1. reported'[q] = reported[q] /\ pc'[q] = pc[q]
    BY <1>1, <1>6 DEF OwnedInv, TypeInv, TypeOK, Publish
  <2>2. QED
    BY <1>2, <1>3, <2>1, LeaseFrame DEF OwnedInv, LeaseInv, Lease, Publish, eventVars
<1>7. QED
  BY <1>5, <1>6

\* With its lease respected, finalize_batch finds all its events owned.
LEMMA LeaseInspect ==
  ASSUME OwnedInv, NEW p \in Publishers, Inspect(p), NEW q \in Publishers
  PROVE  Lease(q)'
<1>1. CASE q = p
  <2>1. seen'[p].owned = {e \in batch[p] : status[e] = "publishing" /\ owner[e] = p}
    BY DEF OwnedInv, TypeInv, TypeOK, Inspect
  <2>2. seen'[p].owned = batch[p]
    BY <2>1 DEF OwnedInv, LeaseInv, Lease
  <2>3. pc'[p] = "committing"
    BY DEF OwnedInv, TypeInv, TypeOK, Inspect
  <2>4. QED
    BY <1>1, <2>2, <2>3 DEF OwnedInv, LeaseInv, Lease, Inspect, eventVars
<1>2. CASE q # p
  <2>1. seen'[q] = seen[q] /\ pc'[q] = pc[q]
    BY <1>2 DEF OwnedInv, TypeInv, TypeOK, Inspect
  <2>2. QED
    BY <2>1, LeaseFrame DEF OwnedInv, LeaseInv, Lease, Inspect, eventVars
<1>3. QED
  BY <1>1, <1>2

\* A commit writes events of its own batch alone.
LEMMA LeaseCommit ==
  ASSUME OwnedInv, NEW p \in Publishers, Commit(p), NEW q \in Publishers
  PROVE  Lease(q)'
<1>1. CASE q = p
  BY <1>1, LeaseReturn DEF OwnedInv, Commit
<1>2. CASE q # p
  <2>1. seen[p].owned = batch[p]
    BY DEF OwnedInv, LeaseInv, Lease, Commit
  <2>2. batch[q] \subseteq Events /\ \A e \in batch[q] : e \notin seen[p].owned
    BY <1>2, <2>1, BatchesDisjoint DEF OwnedInv, TypeInv, TypeOK
  <2>3. \A e \in batch[q] : e \notin Succeeded(p) /\ e \notin Failed(p) /\ e \notin Exhausted(p)
    BY <2>2, SettledSets DEF OwnedInv
  <2>4. \A e \in batch[q] : status'[e] = status[e] /\ owner'[e] = owner[e] /\ leased'[e]
    BY <2>2, <2>3 DEF Commit, OwnedInv, LeaseInv, Lease
  <2>5. Return(p) /\ UNCHANGED copies
    BY DEF Commit
  <2>6. QED
    BY <1>2, <2>4, <2>5, LeaseReturn, LeaseFrame DEF OwnedInv, LeaseInv
<1>3. QED
  BY <1>1, <1>2

\* With prompt publishers every step keeps the leases.
LEMMA LeaseStep ==
  ASSUME PromptPublishers, OwnedInv, [Next]_vars
  PROVE  LeaseInv'
<1> SUFFICES ASSUME NEW q \in Publishers  PROVE Lease(q)'
  BY DEF LeaseInv
<1>0. Lease(q) /\ batch[q] \subseteq Events
  BY DEF OwnedInv, LeaseInv, TypeInv, TypeOK
<1>1. ASSUME NEW j \in Jobs \cup {NoJob}, NEW e \in Events, NEW l \in Events \cup {NoEvent},
             Enqueue(j, e, l)
      PROVE  Lease(q)'
  <2>1. \A k \in batch[q] : k # e
    BY <1>0, <1>1 DEF Lease, Enqueue
  <2>2. QED
    BY SMTT(30), <1>0, <1>1, <2>1, LeaseFrame
       DEF Enqueue, localVars, OwnedInv, TypeInv, TypeOK, Lease
<1>2. ASSUME NEW j \in Jobs, NEW e \in Events, Dispatch(j, e)  PROVE Lease(q)'
  BY <1>1, <1>2 DEF Dispatch
<1>3. ASSUME NEW l \in Events, NEW e \in Events, Replay(l, e)  PROVE Lease(q)'
  BY <1>1, <1>3 DEF Replay, OwnedInv, TypeInv, TypeOK
<1>4. ASSUME NEW p \in Publishers, Cycle(p)  PROVE Lease(q)'
  BY <1>4, LeaseClaim, LeasePublish, LeaseInspect, LeaseCommit DEF Cycle
<1>5. ASSUME NEW p \in Publishers, Crash(p)  PROVE Lease(q)'
  <2>1. Return(p) /\ TypeInv
    BY <1>5 DEF Crash, OwnedInv
  <2>2. QED
    BY <1>0, <1>5, <2>1, LeaseReturn, LeaseFrame DEF Crash, eventVars, Lease
<1>6. ASSUME NEW e \in Events, LeaseExpires(e)  PROVE Lease(q)'
  <2>1. e \notin batch[q]
    BY <1>6 DEF LeaseExpires
  <2>2. QED
    BY <1>0, <1>6, <2>1, LeaseFrame DEF LeaseExpires, localVars, Lease, OwnedInv, TypeInv, TypeOK
<1>7. ASSUME NEW e \in Events, BackoffEnds(e) \/ Index(e)  PROVE Lease(q)'
  BY <1>0, <1>7, LeaseFrame DEF BackoffEnds, Index, localVars, eventVars, Lease
<1>8. ASSUME NEW j \in Jobs, Consume(j)  PROVE Lease(q)'
  BY <1>0, <1>8, LeaseFrame DEF Consume, localVars, eventVars, Lease
<1>9. CASE UNCHANGED vars
  BY <1>0, <1>9, LeaseFrame DEF vars, localVars, eventVars, Lease
<1>10. QED
  BY <1>2, <1>3, <1>4, <1>5, <1>6, <1>7, <1>8, <1>9 DEF Next, PollNothing

\* With prompt publishers the leases always hold.
LEMMA OwnedAlways == ASSUME PromptPublishers PROVE Spec => []OwnedInv
<1>1. Init => OwnedInv
  BY TypeInit DEF Init, OwnedInv, LeaseInv, Lease
<1>2. OwnedInv /\ [Next]_vars => OwnedInv'
  BY TypeStep, LeaseStep DEF OwnedInv
<1>3. QED
  BY <1>1, <1>2, PTL DEF Spec

-----------------------------------------------------------------------------
(* The promise                                                             *)

Fates == [e \in Events |-> Fate(e)]
Accepted == {e \in Events : copies[e] > 0}

\* The fate of an event only depends on its status.
LEMMA FateFrame ==
  ASSUME NEW e \in Events, status'[e] = status[e]
  PROVE  Fate(e)' = Fate(e)
BY DEF Fate

\* A commit settles events of the batch that SQS has accepted as published,
\* others as exhausted, and changes the fate of no other event.
LEMMA CommitFates ==
  ASSUME OwnedInv, NEW p \in Publishers, Commit(p)
  PROVE  /\ Succeeded(p) \subseteq Accepted
         /\ \A e \in seen[p].owned : e \in Events /\ Fate(e) = "due"
         /\ \A e \in Events : Fate(e)' = IF e \in Succeeded(p) THEN "published"
                                        ELSE IF e \in Exhausted(p) THEN "given_up"
                                        ELSE Fate(e)
<1>1. seen[p].owned = batch[p] /\ batch[p] \subseteq Events
  BY DEF OwnedInv, LeaseInv, Lease, TypeInv, TypeOK, Commit
<1>2. \A e \in batch[p] : status[e] = "publishing"
  BY DEF OwnedInv, LeaseInv, Lease
<1>3. Succeeded(p) \subseteq Accepted
  BY <1>1 DEF Succeeded, Accepted, OwnedInv, LeaseInv, Lease
<1>4. \A e \in seen[p].owned : e \in Events /\ Fate(e) = "due"
  BY <1>1, <1>2 DEF Fate
<1>5. ASSUME NEW e \in Events
      PROVE  Fate(e)' = IF e \in Succeeded(p) THEN "published"
                        ELSE IF e \in Exhausted(p) THEN "given_up" ELSE Fate(e)
  <2>0. /\ Succeeded(p) \cap Failed(p) = {} /\ Exhausted(p) \subseteq Failed(p)
        /\ Failed(p) \subseteq seen[p].owned
    BY SettledSets DEF OwnedInv
  <2>1. CASE e \in Succeeded(p)
    BY <2>0, <2>1 DEF Commit, Fate
  <2>2. CASE e \in Exhausted(p)
    BY <2>0, <2>2 DEF Commit, Fate
  <2>3. CASE e \in Failed(p) \ Exhausted(p)
    <3>1. status'[e] = "failed"
      BY <2>0, <2>3 DEF Commit
    <3>2. Fate(e)' = "due" /\ Fate(e) = "due"
      BY <3>1, <2>0, <2>3, <1>4 DEF Fate
    <3>3. QED
      BY <3>2, <2>0, <2>3
  <2>4. CASE e \notin Failed(p) /\ e \notin Succeeded(p)
    <3>1. status'[e] = status[e]
      BY <2>0, <2>4 DEF Commit
    <3>2. QED
      BY <3>1, <2>0, <2>4, FateFrame
  <2>5. QED
    BY <2>1, <2>2, <2>3, <2>4
<1>6. QED
  BY <1>3, <1>4, <1>5

\* A claim only touches events that are still to be settled.
LEMMA ClaimStatus ==
  ASSUME NEW p \in Publishers, Claim(p), NEW e \in Events
  PROVE  \/ status'[e] = status[e]
         \/ status'[e] = "publishing" /\ status[e] \in {"pending", "failed", "publishing"}
<1> DEFINE S == FirstOf(Claimable, BatchSize)
<1>1. \A k \in S : status[k] \in {"pending", "failed", "publishing"}
  BY DEF FirstOf, Claimable
<1>2. status' = [k \in Events |-> IF k \in S THEN "publishing" ELSE status[k]]
  BY DEF Claim
<1> HIDE DEF S
<1>3. QED
  BY <1>1, <1>2

\* A step that keeps every fate and every accepted message is a stutter.
LEMMA Stutter ==
  ASSUME \A e \in Events : Fate(e)' = Fate(e), UNCHANGED copies
  PROVE  Fates' = Fates /\ Accepted' = Accepted
BY DEF Fates, Accepted

\* Every step of the outbox is a step of the promise, or none.
LEMMA PromiseStep ==
  ASSUME OwnedInv, [Next]_vars
  PROVE  \/ \E e \in Events : Fates[e] = "none" /\ Accepted' = Accepted
                               /\ Fates' = [Fates EXCEPT ![e] = "due"]
         \/ \E S \in SUBSET Events :
              S \subseteq {e \in Events : Fates[e] = "due"}
              /\ Accepted' = Accepted \cup S /\ Fates' = Fates
         \/ \E P, G \in SUBSET Events :
              /\ P \subseteq {e \in Events : Fates[e] = "due"} \cap Accepted
              /\ G \subseteq {e \in Events : Fates[e] = "due"} \ P
              /\ Accepted' = Accepted
              /\ Fates' = [e \in Events |-> IF e \in P THEN "published"
                                  ELSE IF e \in G THEN "given_up" ELSE Fates[e]]
         \/ Fates' = Fates /\ Accepted' = Accepted
<1>1. ASSUME NEW j \in Jobs \cup {NoJob}, NEW e \in Events, NEW l \in Events \cup {NoEvent},
             Enqueue(j, e, l)
      PROVE  Fates[e] = "none" /\ Accepted' = Accepted
               /\ Fates' = [Fates EXCEPT ![e] = "due"]
  <2>1. Fate(e) = "none" /\ Fate(e)' = "due"
    BY <1>1 DEF Enqueue, Fate, OwnedInv, TypeInv, TypeOK
  <2>2. \A k \in Events \ {e} : Fate(k)' = Fate(k)
    BY <1>1, FateFrame DEF Enqueue, OwnedInv, TypeInv, TypeOK
  <2>3. QED
    BY <1>1, <2>1, <2>2 DEF Enqueue, Fates, Accepted
<1>2. ASSUME NEW p \in Publishers, Claim(p)
      PROVE  Fates' = Fates /\ Accepted' = Accepted
  <2>1. ASSUME NEW e \in Events  PROVE Fate(e)' = Fate(e)
    <3>1. \/ status'[e] = status[e]
          \/ status'[e] = "publishing" /\ status[e] \in {"pending", "failed", "publishing"}
      BY <1>2, ClaimStatus
    <3>2. QED
      BY <3>1 DEF Fate
  <2>2. UNCHANGED copies
    BY <1>2 DEF Claim
  <2>3. QED
    BY <2>1, <2>2, Stutter
<1>3. ASSUME NEW p \in Publishers, Publish(p)
      PROVE  \E S \in SUBSET Events :
               S \subseteq {e \in Events : Fates[e] = "due"}
               /\ Accepted' = Accepted \cup S /\ Fates' = Fates
  <2>1. PICK A \in SUBSET batch[p] :
          copies' = [e \in Events |-> IF e \in A /\ copies[e] < MaxCopies
                                     THEN copies[e] + 1 ELSE copies[e]]
    BY <1>3 DEF Publish
  <2>2. A \subseteq Events /\ \A e \in A : Fate(e) = "due"
    BY DEF OwnedInv, LeaseInv, Lease, TypeInv, TypeOK, Fate
  <2>3. \A e \in Events : copies'[e] > 0 <=> copies[e] > 0 \/ e \in A
    BY SMTT(30), <2>1 DEF OwnedInv, TypeInv, TypeOK
  <2>4. Accepted' = Accepted \cup A
    BY <2>2, <2>3 DEF Accepted
  <2>5. Fates' = Fates
    BY <1>3, FateFrame DEF Publish, eventVars, Fates
  <2>6. QED
    BY <2>2, <2>4, <2>5 DEF Fates
<1>4. ASSUME NEW p \in Publishers, Commit(p)
      PROVE  \E P, G \in SUBSET Events :
               /\ P \subseteq {e \in Events : Fates[e] = "due"} \cap Accepted
               /\ G \subseteq {e \in Events : Fates[e] = "due"} \ P
               /\ Accepted' = Accepted
               /\ Fates' = [e \in Events |-> IF e \in P THEN "published"
                                   ELSE IF e \in G THEN "given_up" ELSE Fates[e]]
  <2>1. /\ Succeeded(p) \subseteq seen[p].owned /\ Exhausted(p) \subseteq seen[p].owned
        /\ Succeeded(p) \cap Exhausted(p) = {} /\ seen[p].owned \subseteq Events
    BY SettledSets DEF OwnedInv
  <2>2. /\ Succeeded(p) \subseteq {e \in Events : Fates[e] = "due"} \cap Accepted
        /\ Exhausted(p) \subseteq {e \in Events : Fates[e] = "due"} \ Succeeded(p)
    BY <1>4, <2>1, CommitFates DEF Fates
  <2>3. Fates' = [e \in Events |-> IF e \in Succeeded(p) THEN "published"
                     ELSE IF e \in Exhausted(p) THEN "given_up" ELSE Fates[e]]
    BY <1>4, CommitFates DEF Fates
  <2>4. Accepted' = Accepted
    BY <1>4 DEF Commit, Accepted
  <2>5. QED
    BY <2>1, <2>2, <2>3, <2>4, ZenonT(30)
<1>5. ASSUME UNCHANGED <<status, copies>>
      PROVE  Fates' = Fates /\ Accepted' = Accepted
  BY <1>5, FateFrame, Stutter
<1>6. ASSUME NEW p \in Publishers, Inspect(p) \/ Crash(p)
      PROVE  UNCHANGED <<status, copies>>
  BY <1>6 DEF Inspect, Crash, eventVars
<1>7. ASSUME NEW e \in Events, LeaseExpires(e) \/ BackoffEnds(e) \/ Index(e)
      PROVE  UNCHANGED <<status, copies>>
  BY <1>7 DEF LeaseExpires, BackoffEnds, Index, eventVars
<1>8. ASSUME NEW j \in Jobs, Consume(j)
      PROVE  UNCHANGED <<status, copies>>
  BY <1>8 DEF Consume, eventVars
<1>9. CASE UNCHANGED vars
  BY <1>5, <1>9 DEF vars, eventVars
<1>10. ASSUME NEW j \in Jobs, NEW e \in Events, Dispatch(j, e)
       PROVE  Fates[e] = "none" /\ Accepted' = Accepted
               /\ Fates' = [Fates EXCEPT ![e] = "due"]
  BY <1>1, <1>10 DEF Dispatch
<1>11. ASSUME NEW l \in Events, NEW e \in Events, Replay(l, e)
       PROVE  Fates[e] = "none" /\ Accepted' = Accepted
               /\ Fates' = [Fates EXCEPT ![e] = "due"]
  BY <1>1, <1>11 DEF Replay, OwnedInv, TypeInv, TypeOK
<1>12. QED
  BY <1>2, <1>3, <1>4, <1>5, <1>6, <1>7, <1>8, <1>9, <1>10, <1>11
     DEF Next, Cycle, PollNothing

\* With prompt publishers, claiming, sending and finalizing under leases, with
\* crashes, retries and lost responses, implements the promise: an event is
\* published only when SQS has accepted it, and settled once and for all.
THEOREM OutboxKeepsPromise == ASSUME PromptPublishers PROVE Spec => KeepsPromise
<1>1. Init => Promise!Init
  BY DEF Init, Promise!Init, Fate
<1>2. OwnedInv /\ [Next]_vars => [Promise!Next]_<<Fates, Accepted>>
  BY PromiseStep
     DEF Promise!Next, Promise!Add, Promise!Accept, Promise!Settle, Promise!Due,
         Fates, Accepted
<1>3. QED
  BY <1>1, <1>2, OwnedAlways, PTL DEF Spec, KeepsPromise, Promise!Spec, Fates, Accepted

\* With prompt publishers nobody overwrites an event that is settled.
THEOREM OutboxFinal == ASSUME PromptPublishers PROVE Spec => SettledIsFinal
<1>1. ASSUME OwnedInv, [Next]_vars, NEW e \in Events,
             status[e] \in {"published", "exhausted"}
      PROVE  status'[e] = status[e]
  <2>1. ASSUME NEW j \in Jobs \cup {NoJob}, NEW k \in Events, NEW l \in Events \cup {NoEvent},
               Enqueue(j, k, l)
        PROVE  status'[e] = status[e]
    BY <1>1, <2>1 DEF Enqueue, OwnedInv, TypeInv, TypeOK
  <2>2. ASSUME NEW p \in Publishers, Cycle(p)
        PROVE  status'[e] = status[e]
    <3>1. CASE Claim(p)
      BY <1>1, <3>1, ClaimStatus
    <3>2. CASE Commit(p)
      <4>1. e \notin seen[p].owned
        BY <1>1, <3>2 DEF OwnedInv, LeaseInv, Lease, Commit
      <4>2. e \notin Succeeded(p) /\ e \notin Failed(p) /\ e \notin Exhausted(p)
        BY <1>1, <4>1, SettledSets DEF OwnedInv
      <4>3. QED
        BY <3>2, <4>2 DEF Commit
    <3>3. QED
      BY <2>2, <3>1, <3>2 DEF Cycle, Publish, Inspect, eventVars
  <2>3. QED
    BY <1>1, <2>1, <2>2
       DEF Next, Dispatch, Replay, Crash, PollNothing, LeaseExpires, BackoffEnds, Index,
           Consume, vars, eventVars, OwnedInv, TypeInv, TypeOK
<1>2. OwnedInv /\ [Next]_vars
        => [\A e \in Events : status[e] \in {"published", "exhausted"} =>
              status'[e] = status[e]]_vars
  BY <1>1
<1>3. QED
  BY <1>2, OwnedAlways, PTL DEF Spec, SettledIsFinal

-----------------------------------------------------------------------------
(* Jobs and the ledger                                                     *)

HIDE OutboxAssumption DEF Events, NoEvent

\* Rows that refer to each other: an event names an existing job, a replay an
\* entry of its own job, a job the event of its current cycle, which is its
\* only event unless it is a replay.
Known ==
  /\ \A e \in Events : status[e] = "absent" =>
       source[e] = NoEvent /\ evJob[e] = NoJob /\ ledger[e] = "none" /\ ~(copies[e] > 0)
  /\ \A e \in Events : status[e] # "absent" => evJob[e] \in Jobs /\ job[evJob[e]] # "absent"
  /\ \A e \in Events : source[e] \in Events =>
       status[source[e]] # "absent" /\ evJob[source[e]] = evJob[e]
  /\ \A j \in Jobs : job[j] # "absent" =>
       cycle[j] \in Events /\ status[cycle[j]] # "absent" /\ evJob[cycle[j]] = j
  /\ \A j \in Jobs : \A e \in Events :
       job[j] # "absent" /\ source[cycle[j]] = NoEvent /\ evJob[e] = j => e = cycle[j]

\* A pending replay and its unsettled event come in pairs.
ReplayInv ==
  /\ PendingReplayHasEvent
  /\ \A e \in Events : Unsettled(e) /\ source[e] \in Events =>
       ledger[source[e]] = "replay_pending"
  /\ \A e, k \in Events :
       Unsettled(e) /\ Unsettled(k) /\ source[e] \in Events /\ source[e] = source[k] => e = k

\* The cycle of the job is not over, or can be repeated.
Recoverable(j) ==
  \/ Unsettled(cycle[j]) \/ copies[cycle[j]] > 0
  \/ \E l \in Events : evJob[l] = j /\ ledger[l] = "in_dlq"

\* What a job can rely on: a replayed one is recoverable in every status, the
\* job of an initial dispatch is dead-lettered only after SQS has taken its
\* message.
JobInv ==
  /\ QueuedIsDue
  /\ \A j \in Jobs : job[j] # "absent" /\ source[cycle[j]] # NoEvent => Recoverable(j)
  /\ \A j \in Jobs : job[j] = "dead_letter" /\ source[cycle[j]] = NoEvent =>
       copies[cycle[j]] > 0

\* The unlocked readings of finalize_batch cover all that its commit must settle.
Reads(p) ==
  pc[p] = "committing" => \A e \in batch[p] :
    /\ source[e] \in Events => source[e] \in seen[p].pending
    /\ \A j \in Jobs : job[j] = "queued" /\ cycle[j] = e => j \in seen[p].queued

ReadsInv == \A p \in Publishers : Reads(p)

RowsInv == Known /\ ReplayInv /\ JobInv

RecoveryInv == OwnedInv /\ RowsInv /\ ReadsInv

-----------------------------------------------------------------------------
(* Frames                                                                  *)

\* A step that changes neither jobs nor entries, settles nothing and loses no
\* message keeps what relates the rows.
LEMMA RowsFrame ==
  ASSUME RowsInv, UNCHANGED <<job, cycle, ledger, source, evJob>>,
         \A e \in Events : (status'[e] = "absent") = (status[e] = "absent"),
         \A e \in Events : Unsettled(e)' = Unsettled(e),
         \A e \in Events : copies[e] > 0 => copies'[e] > 0,
         \A e \in Events : copies'[e] > 0 => status[e] # "absent"
  PROVE  RowsInv'
<1>1. Known'
  BY DEF RowsInv, Known
<1>2. ReplayInv'
  BY DEF RowsInv, ReplayInv, PendingReplayHasEvent
<1>3. JobInv'
  BY DEF RowsInv, Known, JobInv, QueuedIsDue, Recoverable
<1>4. QED
  BY <1>1, <1>2, <1>3 DEF RowsInv

\* A publisher that does not move still has the readings it needs, when no job
\* was queued for an event of its batch.
LEMMA ReadsFrame ==
  ASSUME NEW p \in Publishers, Reads(p),
         pc'[p] = pc[p], batch'[p] = batch[p], seen'[p] = seen[p],
         \A e \in batch[p] : source'[e] = source[e],
         \A e \in batch[p] : \A j \in Jobs :
           job'[j] = "queued" /\ cycle'[j] = e => job[j] = "queued" /\ cycle[j] = e
  PROVE  Reads(p)'
BY DEF Reads

\* A publisher in any other place has nothing to rely on.
LEMMA ReadsElsewhere ==
  ASSUME NEW p \in Publishers, pc'[p] # "committing"
  PROVE  Reads(p)'
BY DEF Reads

-----------------------------------------------------------------------------
(* Producers                                                               *)

\* The rows one transaction of a producer writes.
LEMMA EnqueueEffect ==
  ASSUME TypeInv, NEW j \in Jobs, NEW e \in Events, NEW l \in Events \cup {NoEvent},
         Enqueue(j, e, l)
  PROVE  /\ status[e] = "absent"
         /\ \A k \in Events : status'[k] = IF k = e THEN "pending" ELSE status[k]
         /\ \A k \in Events : evJob'[k] = IF k = e THEN j ELSE evJob[k]
         /\ \A k \in Events : source'[k] = IF k = e THEN l ELSE source[k]
         /\ \A i \in Jobs : job'[i] = IF i = j THEN "queued" ELSE job[i]
         /\ \A i \in Jobs : cycle'[i] = IF i = j THEN e ELSE cycle[i]
         /\ UNCHANGED <<copies, localVars>>
BY DEF Enqueue, TypeInv, TypeOK

\* The event of a new cycle is in no batch.
LEMMA EnqueueReads ==
  ASSUME RecoveryInv, NEW j \in Jobs, NEW e \in Events, NEW l \in Events \cup {NoEvent},
         Enqueue(j, e, l)
  PROVE  ReadsInv'
<1> SUFFICES ASSUME NEW p \in Publishers
             PROVE  Reads(p)'
  BY DEF ReadsInv
<1>1. Reads(p) /\ TypeInv
  BY DEF RecoveryInv, ReadsInv, OwnedInv
<1>2. \A k \in batch[p] : k \in Events /\ k # e
  BY <1>1, EnqueueEffect DEF RecoveryInv, OwnedInv, LeaseInv, Lease, TypeInv, TypeOK
<1>3. pc' = pc /\ batch' = batch /\ seen' = seen
  BY <1>1, EnqueueEffect DEF localVars
<1>4. \A k \in batch[p] : source'[k] = source[k]
  BY <1>1, <1>2, EnqueueEffect
<1>5. \A k \in batch[p] : \A i \in Jobs :
        job'[i] = "queued" /\ cycle'[i] = k => job[i] = "queued" /\ cycle[i] = k
  BY <1>1, <1>2, EnqueueEffect
<1>6. QED
  BY <1>1, <1>3, <1>4, <1>5, ReadsFrame

\* The first cycle of a job: it has no other event.
LEMMA DispatchStep ==
  ASSUME RecoveryInv, NEW j \in Jobs, NEW e \in Events, Dispatch(j, e)
  PROVE  RowsInv'
<1>0. TypeInv /\ Known /\ ReplayInv /\ JobInv /\ Enqueue(j, e, NoEvent) /\ UNCHANGED ledger
      /\ job[j] = "absent"
  BY DEF RecoveryInv, OwnedInv, RowsInv, Dispatch
<1>1. /\ status[e] = "absent"
      /\ \A k \in Events : status'[k] = IF k = e THEN "pending" ELSE status[k]
      /\ \A k \in Events : evJob'[k] = IF k = e THEN j ELSE evJob[k]
      /\ \A k \in Events : source'[k] = IF k = e THEN NoEvent ELSE source[k]
      /\ \A i \in Jobs : job'[i] = IF i = j THEN "queued" ELSE job[i]
      /\ \A i \in Jobs : cycle'[i] = IF i = j THEN e ELSE cycle[i]
      /\ copies' = copies
  BY <1>0, EnqueueEffect
<1>2. \A k \in Events : evJob[k] # j
  BY <1>0, OutboxAssumption DEF Known
<1>3. \A k \in Events : Unsettled(k)' = (k = e \/ Unsettled(k))
  BY <1>1 DEF Unsettled
<1>4. \A k \in Events : source[k] # e
  BY <1>1, <1>0 DEF Known
<1>5. Known'
  <2> USE <1>0, <1>1, <1>2, <1>4 DEF Known, Events, NoEvent
  <2>1. (\A k \in Events : status[k] = "absent" =>
           source[k] = NoEvent /\ evJob[k] = NoJob /\ ledger[k] = "none" /\ ~(copies[k] > 0))'
    OBVIOUS
  <2>2. (\A k \in Events : status[k] # "absent" => evJob[k] \in Jobs /\ job[evJob[k]] # "absent")'
    OBVIOUS
  <2>3. (\A k \in Events : source[k] \in Events =>
           status[source[k]] # "absent" /\ evJob[source[k]] = evJob[k])'
    OBVIOUS
  <2>4. (\A i \in Jobs : job[i] # "absent" =>
           cycle[i] \in Events /\ status[cycle[i]] # "absent" /\ evJob[cycle[i]] = i)'
    OBVIOUS
  <2>5. (\A i \in Jobs : \A k \in Events :
           job[i] # "absent" /\ source[cycle[i]] = NoEvent /\ evJob[k] = i => k = cycle[i])'
    OBVIOUS
  <2>6. QED
    BY <2>1, <2>2, <2>3, <2>4, <2>5
<1>6. ReplayInv'
  <2>1. PendingReplayHasEvent'
    <3>1. ASSUME NEW k \in Events, ledger'[k] = "replay_pending"
          PROVE  \E i \in Events : source'[i] = k /\ Unsettled(i)'
      <4>1. PICK i \in Events : source[i] = k /\ Unsettled(i)
        BY <1>0, <3>1 DEF ReplayInv, PendingReplayHasEvent
      <4>2. i # e
        BY <1>1, <4>1 DEF Unsettled
      <4>3. QED
        BY <1>1, <1>3, <4>1, <4>2
    <3>2. QED
      BY <3>1 DEF PendingReplayHasEvent
  <2>2. \A k \in Events : source'[k] \in Events => k # e
    BY <1>1 DEF Events, NoEvent
  <2>3. QED
    BY <1>0, <1>1, <1>3, <2>1, <2>2 DEF ReplayInv
<1>7. JobInv'
  <2>1. \A i \in Jobs \ {j} : job[i] # "absent" => cycle[i] \in Events /\ cycle[i] # e
    BY <1>0, <1>1 DEF Known
  <2>2. QueuedIsDue'
    BY <1>0, <1>1, <1>3, <2>1 DEF JobInv, QueuedIsDue
  <2>3. ASSUME NEW i \in Jobs, i # j, job'[i] # "absent", source'[cycle'[i]] # NoEvent
        PROVE  Recoverable(i)'
    <3>1. /\ job[i] # "absent" /\ cycle'[i] = cycle[i] /\ cycle[i] # e
          /\ cycle[i] \in Events /\ source[cycle[i]] # NoEvent
      BY <1>1, <2>1, <2>3
    <3>2. CASE Unsettled(cycle[i]) \/ copies[cycle[i]] > 0
      BY <1>1, <1>3, <3>1, <3>2 DEF Recoverable
    <3>3. CASE \E k \in Events : evJob[k] = i /\ ledger[k] = "in_dlq"
      <4>1. PICK k \in Events : evJob[k] = i /\ ledger[k] = "in_dlq"
        BY <3>3
      <4>2. k # e
        BY <1>0, <1>1, <4>1 DEF Known
      <4>3. QED
        BY <1>0, <1>1, <4>1, <4>2 DEF Recoverable
    <3>4. QED
      BY <1>0, <3>1, <3>2, <3>3 DEF JobInv, Recoverable
  <2>4. (\A i \in Jobs : job[i] = "dead_letter" /\ source[cycle[i]] = NoEvent =>
           copies[cycle[i]] > 0)'
    BY <1>0, <1>1, <2>1 DEF JobInv
  <2>5. source'[cycle'[j]] = NoEvent
    BY <1>1
  <2>6. QED
    BY <2>2, <2>3, <2>4, <2>5 DEF JobInv
<1>8. QED
  BY <1>5, <1>6, <1>7 DEF RowsInv

\* A replay: its entry was in the DLQ, so no unsettled event names it.
LEMMA ReplayStep ==
  ASSUME RecoveryInv, NEW l \in Events, NEW e \in Events, Replay(l, e)
  PROVE  RowsInv' /\ ReadsInv'
<1>0. TypeInv /\ Known /\ ReplayInv /\ JobInv /\ Enqueue(evJob[l], e, l)
      /\ ledger[l] = "in_dlq" /\ job[evJob[l]] = "dead_letter"
      /\ \A k \in Events : ledger'[k] = IF k = l THEN "replay_pending" ELSE ledger[k]
  BY DEF RecoveryInv, OwnedInv, RowsInv, Replay, TypeInv, TypeOK
<1>00. PICK j \in Jobs : j = evJob[l] /\ status[l] # "absent"
  BY <1>0 DEF Known
<1>1. /\ status[e] = "absent"
      /\ \A k \in Events : status'[k] = IF k = e THEN "pending" ELSE status[k]
      /\ \A k \in Events : evJob'[k] = IF k = e THEN j ELSE evJob[k]
      /\ \A k \in Events : source'[k] = IF k = e THEN l ELSE source[k]
      /\ \A i \in Jobs : job'[i] = IF i = j THEN "queued" ELSE job[i]
      /\ \A i \in Jobs : cycle'[i] = IF i = j THEN e ELSE cycle[i]
      /\ copies' = copies
  BY <1>0, <1>00, EnqueueEffect
<1>2. l # e /\ \A k \in Events : source[k] # e
  BY <1>0, <1>00, <1>1 DEF Known
<1>3. \A k \in Events : Unsettled(k)' = (k = e \/ Unsettled(k))
  BY <1>1 DEF Unsettled
<1>4. \A k \in Events : Unsettled(k) => source[k] # l
  BY <1>0 DEF ReplayInv
<1>5. Known'
  <2> USE <1>0, <1>00, <1>1, <1>2 DEF Known, Events, NoEvent
  <2>1. (\A k \in Events : status[k] = "absent" =>
           source[k] = NoEvent /\ evJob[k] = NoJob /\ ledger[k] = "none" /\ ~(copies[k] > 0))'
    OBVIOUS
  <2>2. (\A k \in Events : status[k] # "absent" => evJob[k] \in Jobs /\ job[evJob[k]] # "absent")'
    OBVIOUS
  <2>3. (\A k \in Events : source[k] \in Events =>
           status[source[k]] # "absent" /\ evJob[source[k]] = evJob[k])'
    OBVIOUS
  <2>4. (\A i \in Jobs : job[i] # "absent" =>
           cycle[i] \in Events /\ status[cycle[i]] # "absent" /\ evJob[cycle[i]] = i)'
    OBVIOUS
  <2>5. (\A i \in Jobs : \A k \in Events :
           job[i] # "absent" /\ source[cycle[i]] = NoEvent /\ evJob[k] = i => k = cycle[i])'
    OBVIOUS
  <2>6. QED
    BY <2>1, <2>2, <2>3, <2>4, <2>5
<1>6. ReplayInv'
  <2>1. PendingReplayHasEvent'
    <3>1. ASSUME NEW k \in Events, ledger'[k] = "replay_pending"
          PROVE  \E i \in Events : source'[i] = k /\ Unsettled(i)'
      <4>1. CASE k = l
        BY <1>1, <1>3, <4>1
      <4>2. CASE k # l
        <5>1. PICK i \in Events : source[i] = k /\ Unsettled(i)
          BY <1>0, <3>1, <4>2 DEF ReplayInv, PendingReplayHasEvent
        <5>2. i # e
          BY <1>1, <5>1 DEF Unsettled
        <5>3. QED
          BY <1>1, <1>3, <5>1, <5>2
      <4>3. QED
        BY <4>1, <4>2
    <3>2. QED
      BY <3>1 DEF PendingReplayHasEvent
  <2>2. \A k \in Events : Unsettled(k)' =>
          k = e \/ (Unsettled(k) /\ source'[k] = source[k] /\ source[k] # l)
    BY <1>1, <1>3, <1>4
  <2>3. QED
    BY <1>0, <1>1, <2>1, <2>2 DEF ReplayInv
<1>7. JobInv'
  <2>1. \A i \in Jobs \ {j} : job[i] # "absent" => cycle[i] \in Events /\ cycle[i] # e
    BY <1>0, <1>1 DEF Known
  <2>2. QueuedIsDue'
    BY <1>0, <1>1, <1>3, <2>1 DEF JobInv, QueuedIsDue
  <2>3. ASSUME NEW i \in Jobs, i # j, job'[i] # "absent", source'[cycle'[i]] # NoEvent
        PROVE  Recoverable(i)'
    <3>1. /\ job[i] # "absent" /\ cycle'[i] = cycle[i] /\ cycle[i] # e
          /\ cycle[i] \in Events /\ source[cycle[i]] # NoEvent
      BY <1>1, <2>1, <2>3
    <3>2. CASE Unsettled(cycle[i]) \/ copies[cycle[i]] > 0
      BY <1>1, <1>3, <3>1, <3>2 DEF Recoverable
    <3>3. CASE \E k \in Events : evJob[k] = i /\ ledger[k] = "in_dlq"
      <4>1. PICK k \in Events : evJob[k] = i /\ ledger[k] = "in_dlq"
        BY <3>3
      <4>2. k # e /\ k # l
        BY <1>0, <1>00, <1>1, <2>3, <4>1 DEF Known
      <4>3. QED
        BY <1>0, <1>1, <4>1, <4>2 DEF Recoverable
    <3>4. QED
      BY <1>0, <3>1, <3>2, <3>3 DEF JobInv, Recoverable
  <2>4. (\A i \in Jobs : job[i] = "dead_letter" /\ source[cycle[i]] = NoEvent =>
           copies[cycle[i]] > 0)'
    BY <1>0, <1>1, <2>1 DEF JobInv
  <2>5. Recoverable(j)'
    BY <1>00, <1>1, <1>3 DEF Recoverable
  <2>6. QED
    BY <2>2, <2>3, <2>4, <2>5 DEF JobInv
<1>8. ReadsInv'
  BY <1>0, <1>00, EnqueueReads
<1>9. QED
  BY <1>5, <1>6, <1>7, <1>8 DEF RowsInv

-----------------------------------------------------------------------------
(* Publishers                                                              *)

\* A claim settles nothing, and its publisher has not read yet.
LEMMA ClaimStep ==
  ASSUME RecoveryInv, NEW p \in Publishers, Claim(p)
  PROVE  RowsInv' /\ ReadsInv'
<1>0. TypeInv /\ RowsInv /\ ReadsInv
  BY DEF RecoveryInv, OwnedInv
<1>1. UNCHANGED <<job, cycle, ledger, source, evJob, copies, seen>>
  BY DEF Claim, jobVars
<1>2. \A e \in Events : (status'[e] = "absent") = (status[e] = "absent")
                        /\ Unsettled(e)' = Unsettled(e)
  BY ClaimStatus DEF Unsettled
<1>3. \A e \in Events : copies[e] > 0 => status[e] # "absent"
  BY <1>0 DEF RowsInv, Known
<1>4. RowsInv'
  BY <1>0, <1>1, <1>2, <1>3, RowsFrame
<1>5. ASSUME NEW q \in Publishers
      PROVE  Reads(q)'
  <2>1. CASE q = p
    BY <1>0, <2>1, ReadsElsewhere DEF Claim, TypeInv, TypeOK
  <2>2. CASE q # p
    <3>1. pc'[q] = pc[q] /\ batch'[q] = batch[q]
      BY <1>0, <2>2 DEF Claim, TypeInv, TypeOK
    <3>2. QED
      BY <1>0, <1>1, <3>1, ReadsFrame DEF ReadsInv
  <2>3. QED
    BY <2>1, <2>2
<1>6. QED
  BY <1>4, <1>5 DEF ReadsInv

\* Sending only adds messages of events of the batch.
LEMMA PublishStep ==
  ASSUME RecoveryInv, NEW p \in Publishers, Publish(p)
  PROVE  RowsInv' /\ ReadsInv'
<1>0. TypeInv /\ LeaseInv /\ RowsInv /\ ReadsInv
  BY DEF RecoveryInv, OwnedInv
<1>1. PICK A \in SUBSET batch[p] :
        copies' = [e \in Events |-> IF e \in A /\ copies[e] < MaxCopies
                                    THEN copies[e] + 1 ELSE copies[e]]
  BY DEF Publish
<1>2. UNCHANGED <<job, cycle, ledger, source, evJob, status, batch, seen>>
  BY DEF Publish, jobVars, eventVars
<1>3. \A e \in batch[p] : e \in Events /\ status[e] # "absent"
  BY <1>0 DEF LeaseInv, Lease, TypeInv, TypeOK
<1>4. \A e \in Events : copies[e] > 0 => copies'[e] > 0
  BY <1>0, <1>1, OutboxAssumption DEF TypeInv, TypeOK
<1>5. \A e \in Events : copies'[e] > 0 => status[e] # "absent"
  BY <1>0, <1>1, <1>3 DEF RowsInv, Known
<1>6. \A e \in Events : Unsettled(e)' = Unsettled(e)
  BY <1>2 DEF Unsettled
<1>7. RowsInv'
  BY <1>0, <1>2, <1>4, <1>5, <1>6, RowsFrame
<1>8. ASSUME NEW q \in Publishers
      PROVE  Reads(q)'
  <2>1. CASE q = p
    BY <1>0, <2>1, ReadsElsewhere DEF Publish, TypeInv, TypeOK
  <2>2. CASE q # p
    <3>1. pc'[q] = pc[q]
      BY <1>0, <2>2 DEF Publish, TypeInv, TypeOK
    <3>2. QED
      BY <1>0, <1>2, <3>1, ReadsFrame DEF ReadsInv
  <2>3. QED
    BY <2>1, <2>2
<1>9. QED
  BY <1>7, <1>8 DEF ReadsInv

\* When finalize_batch reads, the entries and jobs of its batch still wait.
LEMMA InspectStep ==
  ASSUME RecoveryInv, NEW p \in Publishers, Inspect(p)
  PROVE  RowsInv' /\ ReadsInv'
<1>0. TypeInv /\ LeaseInv /\ RowsInv /\ ReadsInv
  BY DEF RecoveryInv, OwnedInv
<1>1. UNCHANGED <<job, cycle, ledger, source, evJob, status, copies, batch>>
  BY DEF Inspect, jobVars, eventVars
<1>2. \A e \in Events : Unsettled(e)' = Unsettled(e)
  BY <1>1 DEF Unsettled
<1>3. \A e \in Events : copies[e] > 0 => status[e] # "absent"
  BY <1>0 DEF RowsInv, Known
<1>4. RowsInv'
  BY <1>0, <1>1, <1>2, <1>3, RowsFrame
<1>5. ASSUME NEW q \in Publishers
      PROVE  Reads(q)'
  <2>1. CASE q = p
    <3>1. /\ seen'[p].queued = {j \in Jobs : job[j] = "queued"}
          /\ seen'[p].pending = {e \in Events : ledger[e] = "replay_pending"}
      BY <1>0 DEF Inspect, TypeInv, TypeOK
    <3>2. \A e \in batch[p] : e \in Events /\ Unsettled(e)
      BY <1>0 DEF LeaseInv, Lease, Unsettled, TypeInv, TypeOK
    <3>3. \A e \in batch[p] : source[e] \in Events => ledger[source[e]] = "replay_pending"
      BY <1>0, <3>2 DEF RowsInv, ReplayInv
    <3>4. QED
      BY <1>1, <2>1, <3>1, <3>3 DEF Reads
  <2>2. CASE q # p
    <3>1. pc'[q] = pc[q] /\ seen'[q] = seen[q]
      BY <1>0, <2>2 DEF Inspect, TypeInv, TypeOK
    <3>2. QED
      BY <1>0, <1>1, <3>1, ReadsFrame DEF ReadsInv
  <2>3. QED
    BY <2>1, <2>2
<1>6. QED
  BY <1>4, <1>5 DEF ReadsInv

\* What a publisher settles, it settles itself: nobody else finalizes its batch.
LEMMA CommitEvents ==
  ASSUME RecoveryInv, NEW p \in Publishers, Commit(p)
  PROVE  /\ Succeeded(p) \cup Exhausted(p) \subseteq batch[p]
         /\ batch[p] \subseteq Events
         /\ \A e \in batch[p] : Unsettled(e)
         /\ \A e \in Succeeded(p) : e \in reported[p] /\ copies[e] > 0
         /\ \A e \in Exhausted(p) : e \notin reported[p]
         /\ \A e \in Events : (status'[e] = "absent") = (status[e] = "absent")
         /\ \A e \in Events : Unsettled(e)' =
              (Unsettled(e) /\ e \notin Succeeded(p) \cup Exhausted(p))
<1>0. TypeInv /\ LeaseInv /\ Lease(p)
  BY DEF RecoveryInv, OwnedInv, LeaseInv
<1>1. seen[p].owned = batch[p] /\ batch[p] \subseteq Events
  BY <1>0 DEF Lease, Commit, TypeInv, TypeOK
<1>2. /\ Succeeded(p) \subseteq batch[p] /\ Failed(p) \subseteq batch[p]
      /\ Exhausted(p) \subseteq Failed(p) /\ Succeeded(p) \cap Failed(p) = {}
  BY <1>0, <1>1, SettledSets
<1>3. \A e \in batch[p] : status[e] = "publishing"
  BY <1>0 DEF Lease
<1>4. \A e \in Succeeded(p) : e \in reported[p] /\ copies[e] > 0
  BY <1>0 DEF Succeeded, Lease
<1>5. \A e \in Exhausted(p) : e \notin reported[p]
  BY DEF Exhausted, Failed
<1>6. ASSUME NEW e \in Events
      PROVE  status'[e] = CASE e \in Succeeded(p) -> "published"
                            [] e \in Exhausted(p) -> "exhausted"
                            [] e \in Failed(p) \ Exhausted(p) -> "failed"
                            [] OTHER -> status[e]
  BY DEF Commit
<1>7. ASSUME NEW e \in Events
      PROVE  /\ (status'[e] = "absent") = (status[e] = "absent")
             /\ Unsettled(e)' = (Unsettled(e) /\ e \notin Succeeded(p) \cup Exhausted(p))
  <2>1. CASE e \in Succeeded(p)
    BY <1>2, <1>3, <1>6, <2>1 DEF Unsettled
  <2>2. CASE e \in Exhausted(p)
    <3>1. status'[e] = "exhausted"
      BY <1>2, <1>6, <2>2
    <3>2. QED
      BY <1>2, <1>3, <2>2, <3>1 DEF Unsettled
  <2>3. CASE e \in Failed(p) \ Exhausted(p)
    <3>1. status'[e] = "failed" /\ e \notin Succeeded(p)
      BY <1>2, <1>6, <2>3
    <3>2. QED
      BY <1>2, <1>3, <2>3, <3>1 DEF Unsettled
  <2>4. CASE e \notin Failed(p) /\ e \notin Succeeded(p)
    <3>1. status'[e] = status[e] /\ e \notin Exhausted(p)
      BY <1>2, <1>6, <2>4
    <3>2. QED
      BY <2>4, <3>1 DEF Unsettled
  <2>5. QED
    BY <2>1, <2>2, <2>3, <2>4
<1>8. QED
  BY <1>1, <1>2, <1>3, <1>4, <1>5, <1>7 DEF Unsettled

\* A set of events that is not empty has a lowest one.
LEMMA LowestEvent ==
  ASSUME NEW S \in SUBSET Events, S # {}
  PROVE  Lowest(S) \in S
<1> DEFINE R == OpToRel(<, Nat)
<1>1. IsWellFoundedOn(R, Nat)
  BY NatLessThanWellFounded
<1>2. \A x, y \in Nat : x < y => <<x, y>> \in R
  BY DEF OpToRel
<1> HIDE DEF R
<1>3. S \subseteq Nat
  BY DEF Events
<1>4. PICK e \in S : \A k \in S : ~ (<<k, e>> \in R)
  BY <1>1, <1>3, WFMin
<1>5. ASSUME NEW k \in S
      PROVE  e <= k
  <2>1. k \in Nat /\ e \in Nat
    BY <1>3
  <2>2. ~ (k < e)
    BY <1>2, <1>4, <2>1, Zenon
  <2>3. QED
    BY <2>1, <2>2
<1>6. QED
  BY <1>5 DEF Lowest

\* The entry of a settled replay is settled with it, and no other entry changes.
LEMMA CommitLedger ==
  ASSUME RecoveryInv, NEW p \in Publishers, Commit(p), NEW l \in Events
  PROVE  \/ /\ ledger'[l] = ledger[l]
            /\ \A e \in Succeeded(p) \cup Exhausted(p) : source[e] # l
         \/ \E e \in Succeeded(p) \cup Exhausted(p) :
              /\ source[e] = l /\ ledger[l] = "replay_pending"
              /\ ledger'[l] = IF e \in reported[p] THEN "replayed" ELSE "in_dlq"
<1> DEFINE T == Succeeded(p) \cup Exhausted(p)
           S == {e \in T : source[e] = l}
<1>1. ReplayInv /\ Reads(p) /\ pc[p] = "committing"
  BY DEF RecoveryInv, RowsInv, ReadsInv, Commit
<1>2. T \subseteq batch[p] /\ T \subseteq Events /\ \A e \in T : Unsettled(e)
  BY CommitEvents
<1>3. ledger'[l] = IF l \notin seen[p].pending \/ S = {} THEN ledger[l]
                   ELSE IF Lowest(S) \in reported[p] THEN "replayed" ELSE "in_dlq"
  BY DEF Commit, NewLedger
<1> HIDE DEF T
<1>4. CASE S = {}
  <2>1. \A e \in T : source[e] # l
    BY <1>4
  <2>2. QED
    BY <1>3, <1>4, <2>1 DEF T
<1>5. CASE S # {}
  <2>1. Lowest(S) \in S
    BY <1>2, <1>5, LowestEvent
  <2>2. PICK e \in T : e = Lowest(S) /\ source[e] = l
    BY <2>1
  <2>3. l \in seen[p].pending /\ ledger[l] = "replay_pending"
    BY <1>1, <1>2, <2>2 DEF Reads, ReplayInv
  <2>4. ledger'[l] = IF e \in reported[p] THEN "replayed" ELSE "in_dlq"
    BY <1>3, <1>5, <2>2, <2>3
  <2>5. QED
    BY <2>2, <2>3, <2>4 DEF T
<1>6. QED
  BY <1>4, <1>5

\* The compensation of a job whose event is given up.
LEMMA CommitJob ==
  ASSUME RecoveryInv, NEW p \in Publishers, Commit(p), NEW j \in Jobs
  PROVE  /\ job[j] = "absent" => job'[j] = "absent"
         /\ job'[j] \in {job[j], "failed", "dead_letter"}
         /\ job'[j] = job[j] \/ \E e \in Exhausted(p) :
              /\ evJob[e] = j
              /\ job'[j] = IF source[e] = NoEvent THEN "failed" ELSE "dead_letter"
         /\ job[j] = "queued" /\ cycle[j] \in Exhausted(p) => job'[j] # "queued"
<1> DEFINE S == {e \in Exhausted(p) : evJob[e] = j}
<1>1. Known /\ Reads(p) /\ pc[p] = "committing"
  BY DEF RecoveryInv, RowsInv, ReadsInv, Commit
<1>2. /\ Exhausted(p) \subseteq batch[p] /\ Exhausted(p) \subseteq Events
      /\ \A e \in Exhausted(p) : status[e] # "absent"
  BY CommitEvents DEF Unsettled
<1>3. job'[j] = IF j \notin seen[p].queued \/ S = {} THEN job[j]
                ELSE IF source[Lowest(S)] = NoEvent THEN "failed" ELSE "dead_letter"
  BY DEF Commit, NewJob
<1>4. S # {} => Lowest(S) \in S
  BY <1>2, LowestEvent
<1>5. S # {} => job[j] # "absent"
  BY <1>1, <1>2 DEF Known
<1>6. ASSUME job[j] = "queued", cycle[j] \in Exhausted(p)
      PROVE  job'[j] # "queued"
  <2>1. j \in seen[p].queued
    BY <1>1, <1>2, <1>6 DEF Reads
  <2>2. cycle[j] \in S
    BY <1>1, <1>6 DEF Known
  <2>3. QED
    BY <1>3, <2>1, <2>2
<1>7. job'[j] = job[j] \/ \E e \in Exhausted(p) :
        /\ evJob[e] = j
        /\ job'[j] = IF source[e] = NoEvent THEN "failed" ELSE "dead_letter"
  BY <1>3, <1>4
<1>8. QED
  BY <1>3, <1>5, <1>6, <1>7

\* What finalize_batch commits is what the rows need: a settled replay takes
\* its entry with it, an exhausted event its job.
LEMMA CommitRows ==
  ASSUME RecoveryInv, NEW p \in Publishers, Commit(p)
  PROVE  RowsInv'
<1> DEFINE T == Succeeded(p) \cup Exhausted(p)
<1>0. TypeInv /\ Known /\ ReplayInv /\ JobInv
  BY DEF RecoveryInv, OwnedInv, RowsInv
<1>1. UNCHANGED <<cycle, evJob, source, copies>>
  BY DEF Commit
<1>2. /\ T \subseteq Events /\ \A e \in T : Unsettled(e)
      /\ \A e \in Succeeded(p) : e \in reported[p] /\ copies[e] > 0
      /\ \A e \in Exhausted(p) : e \notin reported[p]
      /\ \A e \in Events : (status'[e] = "absent") = (status[e] = "absent")
      /\ \A e \in Events : Unsettled(e)' = (Unsettled(e) /\ e \notin T)
  BY CommitEvents
<1>3. \A l \in Events :
        \/ ledger'[l] = ledger[l] /\ \A e \in T : source[e] # l
        \/ \E e \in T : /\ source[e] = l /\ ledger[l] = "replay_pending"
                        /\ ledger'[l] = IF e \in reported[p] THEN "replayed" ELSE "in_dlq"
  BY CommitLedger
<1>4. \A j \in Jobs :
        /\ job[j] = "absent" => job'[j] = "absent"
        /\ job'[j] \in {job[j], "failed", "dead_letter"}
        /\ job'[j] = job[j] \/ \E e \in Exhausted(p) :
             /\ evJob[e] = j
             /\ job'[j] = IF source[e] = NoEvent THEN "failed" ELSE "dead_letter"
        /\ job[j] = "queued" /\ cycle[j] \in Exhausted(p) => job'[j] # "queued"
  BY CommitJob
<1>5. \A e \in Exhausted(p) : e \in T
  OBVIOUS
<1>6. \A e \in T : e \in Succeeded(p) \/ e \in Exhausted(p)
  OBVIOUS
<1> HIDE DEF T
<1>7. \A j \in Jobs : (job'[j] = "absent") = (job[j] = "absent")
  <2>1. ASSUME NEW j \in Jobs, job[j] # "absent"
        PROVE  job'[j] # "absent"
    BY <1>4, <2>1
  <2>2. QED
    BY <1>4, <2>1
<1>8. Known'
  <2> USE <1>0, <1>1, <1>2, <1>7 DEF Known
  <2>1. (\A k \in Events : status[k] = "absent" =>
           source[k] = NoEvent /\ evJob[k] = NoJob /\ ledger[k] = "none" /\ ~(copies[k] > 0))'
    BY <1>3
  <2>2. (\A k \in Events : status[k] # "absent" => evJob[k] \in Jobs /\ job[evJob[k]] # "absent")'
    OBVIOUS
  <2>3. (\A k \in Events : source[k] \in Events =>
           status[source[k]] # "absent" /\ evJob[source[k]] = evJob[k])'
    OBVIOUS
  <2>4. (\A i \in Jobs : job[i] # "absent" =>
           cycle[i] \in Events /\ status[cycle[i]] # "absent" /\ evJob[cycle[i]] = i)'
    OBVIOUS
  <2>5. (\A i \in Jobs : \A k \in Events :
           job[i] # "absent" /\ source[cycle[i]] = NoEvent /\ evJob[k] = i => k = cycle[i])'
    OBVIOUS
  <2>6. QED
    BY <2>1, <2>2, <2>3, <2>4, <2>5
<1>9. ReplayInv'
  <2>1. ASSUME NEW l \in Events, ledger'[l] = "replay_pending"
        PROVE  \E e \in Events : source'[e] = l /\ Unsettled(e)'
    <3>1. ledger[l] = "replay_pending" /\ \A e \in T : source[e] # l
      BY <1>3, <2>1
    <3>2. PICK e \in Events : source[e] = l /\ Unsettled(e)
      BY <1>0, <3>1 DEF ReplayInv, PendingReplayHasEvent
    <3>3. QED
      BY <1>1, <1>2, <3>1, <3>2
  <2>2. ASSUME NEW e \in Events, Unsettled(e)', source'[e] \in Events
        PROVE  ledger'[source'[e]] = "replay_pending"
    <3>1. Unsettled(e) /\ e \notin T /\ source[e] \in Events /\ source'[e] = source[e]
      BY <1>1, <1>2, <2>2
    <3>2. \A k \in T : source[k] # source[e]
      BY <1>0, <1>2, <3>1 DEF ReplayInv
    <3>3. QED
      BY <1>0, <1>3, <3>1, <3>2 DEF ReplayInv
  <2>3. (\A e, k \in Events :
          Unsettled(e) /\ Unsettled(k) /\ source[e] \in Events /\ source[e] = source[k] => e = k)'
    BY <1>0, <1>1, <1>2 DEF ReplayInv
  <2>4. QED
    BY <2>1, <2>2, <2>3 DEF ReplayInv, PendingReplayHasEvent
<1>10. JobInv'
  <2>1. ASSUME NEW j \in Jobs, job'[j] = "queued"
        PROVE  Unsettled(cycle[j])' \/ copies'[cycle'[j]] > 0
    <3>1. job[j] = "queued" /\ cycle[j] \in Events /\ cycle[j] \notin Exhausted(p)
      BY <1>0, <1>4, <2>1 DEF Known
    <3>2. CASE copies[cycle[j]] > 0
      BY <1>1, <3>2
    <3>3. CASE Unsettled(cycle[j])
      BY <1>1, <1>2, <1>6, <3>1, <3>3
    <3>4. QED
      BY <1>0, <3>1, <3>2, <3>3 DEF JobInv, QueuedIsDue
  <2>2. ASSUME NEW e \in Exhausted(p), source[e] # NoEvent
        PROVE  source[e] \in Events /\ ledger'[source[e]] = "in_dlq"
               /\ evJob'[source[e]] = evJob[e]
    <3>1. e \in T /\ e \in Events /\ Unsettled(e) /\ e \notin reported[p]
      BY <1>2, <1>5
    <3>2. source[e] \in Events
      BY <1>0, <2>2, <3>1 DEF TypeInv, TypeOK
    <3>3. \A k \in T : source[k] = source[e] => k = e
      BY <1>0, <1>2, <3>1, <3>2 DEF ReplayInv
    <3>4. ledger'[source[e]] = "in_dlq"
      BY <1>3, <3>1, <3>2, <3>3
    <3>5. QED
      BY <1>0, <1>1, <3>1, <3>2, <3>4 DEF Known
  <2>3. ASSUME NEW j \in Jobs, job'[j] # "absent", source'[cycle'[j]] # NoEvent
        PROVE  Recoverable(j)'
    <3>1. /\ job[j] # "absent" /\ source[cycle[j]] # NoEvent
          /\ cycle[j] \in Events /\ evJob[cycle[j]] = j
      BY <1>0, <1>1, <1>7, <2>3 DEF Known
    <3>2. CASE copies[cycle[j]] > 0
      BY <1>1, <3>2 DEF Recoverable
    <3>3. CASE Unsettled(cycle[j]) /\ ~(copies[cycle[j]] > 0)
      <4>1. cycle[j] \notin Succeeded(p)
        BY <1>2, <3>3
      <4>2. CASE cycle[j] \in Exhausted(p)
        BY <2>2, <3>1, <4>2 DEF Recoverable
      <4>3. CASE cycle[j] \notin Exhausted(p)
        BY <1>1, <1>2, <1>6, <3>1, <3>3, <4>1, <4>3 DEF Recoverable
      <4>4. QED
        BY <4>2, <4>3
    <3>4. CASE \E l \in Events : evJob[l] = j /\ ledger[l] = "in_dlq"
      <4>1. PICK l \in Events : evJob[l] = j /\ ledger[l] = "in_dlq"
        BY <3>4
      <4>2. ledger'[l] = "in_dlq"
        BY <1>3, <4>1
      <4>3. QED
        BY <1>1, <4>1, <4>2 DEF Recoverable
    <3>5. QED
      BY <1>0, <3>1, <3>2, <3>3, <3>4 DEF JobInv, Recoverable
  <2>4. ASSUME NEW j \in Jobs, job'[j] = "dead_letter", source'[cycle'[j]] = NoEvent
        PROVE  copies'[cycle'[j]] > 0
    <3>1. job[j] # "absent" /\ source[cycle[j]] = NoEvent
      BY <1>1, <1>7, <2>4
    <3>2. job[j] = "dead_letter"
      <4>1. ASSUME NEW e \in Exhausted(p), evJob[e] = j, source[e] # NoEvent
            PROVE  FALSE
        BY <1>0, <1>2, <1>5, <3>1, <4>1 DEF Known
      <4>2. QED
        BY <1>4, <2>4, <4>1
    <3>3. QED
      BY <1>0, <1>1, <3>1, <3>2 DEF JobInv
  <2>5. QED
    BY <2>1, <2>3, <2>4 DEF JobInv, QueuedIsDue
<1>11. QED
  BY <1>8, <1>9, <1>10 DEF RowsInv

\* A commit makes no job queued, so the readings of the others stay good.
LEMMA CommitReads ==
  ASSUME RecoveryInv, NEW p \in Publishers, Commit(p)
  PROVE  ReadsInv'
<1> SUFFICES ASSUME NEW q \in Publishers
             PROVE  Reads(q)'
  BY DEF ReadsInv
<1>0. TypeInv /\ Reads(q) /\ Return(p)
  BY DEF RecoveryInv, OwnedInv, ReadsInv, Commit
<1>1. CASE q = p
  BY <1>0, <1>1, ReadsElsewhere DEF Return, TypeInv, TypeOK
<1>2. CASE q # p
  <2>1. pc'[q] = pc[q] /\ batch'[q] = batch[q] /\ seen'[q] = seen[q]
    BY <1>0, <1>2, LeaseReturn
  <2>2. UNCHANGED <<source, cycle>>
    BY DEF Commit
  <2>3. \A j \in Jobs : job'[j] = "queued" => job[j] = "queued"
    BY CommitJob
  <2>4. QED
    BY <1>0, <2>1, <2>2, <2>3, ReadsFrame
<1>3. QED
  BY <1>1, <1>2

\* A publisher that is killed leaves the rows as they are.
LEMMA CrashStep ==
  ASSUME RecoveryInv, NEW p \in Publishers, Crash(p)
  PROVE  RowsInv' /\ ReadsInv'
<1>0. TypeInv /\ RowsInv /\ ReadsInv /\ Return(p)
  BY DEF RecoveryInv, OwnedInv, Crash
<1>1. UNCHANGED <<job, cycle, ledger, source, evJob, status, copies>>
  BY DEF Crash, jobVars, eventVars
<1>2. RowsInv'
  BY <1>0, <1>1, RowsFrame DEF Unsettled, RowsInv, Known
<1>3. ASSUME NEW q \in Publishers
      PROVE  Reads(q)'
  <2>1. CASE q = p
    BY <1>0, <2>1, ReadsElsewhere DEF Return, TypeInv, TypeOK
  <2>2. CASE q # p
    BY <1>0, <1>1, <2>2, LeaseReturn, ReadsFrame DEF ReadsInv
  <2>3. QED
    BY <2>1, <2>2
<1>4. QED
  BY <1>2, <1>3 DEF ReadsInv

-----------------------------------------------------------------------------
(* Consumers, the indexer and time                                         *)

\* A consumer needs a message, and never queues a job.
LEMMA ConsumeStep ==
  ASSUME RecoveryInv, NEW j \in Jobs, Consume(j)
  PROVE  RowsInv' /\ ReadsInv'
<1>0. TypeInv /\ Known /\ ReplayInv /\ JobInv /\ ReadsInv
  BY DEF RecoveryInv, OwnedInv, RowsInv
<1>1. UNCHANGED <<cycle, ledger, status, evJob, source, copies, pc, batch, seen>>
  BY DEF Consume, eventVars, localVars
<1>2. PICK t \in AllowedTransitions[job[j]] : job' = [job EXCEPT ![j] = t]
  BY DEF Consume
<1>3. job[j] \in JobStatuses /\ job[j] \notin {"absent", "dead_letter"}
  BY <1>2 DEF Consume, AllowedTransitions, JobStatuses
<1>4. t \notin {"absent", "queued"}
  BY <1>2, <1>3 DEF AllowedTransitions, JobStatuses, Goals
<1>5. \A i \in Jobs : job'[i] = IF i = j THEN t ELSE job[i]
  BY <1>0, <1>2 DEF TypeInv, TypeOK
<1>6. PICK m \in Events : evJob[m] = j /\ copies[m] > 0
  BY DEF Consume
<1>7. Known'
  BY <1>0, <1>1, <1>3, <1>4, <1>5 DEF Known
<1>8. ReplayInv'
  BY <1>0, <1>1 DEF ReplayInv, PendingReplayHasEvent, Unsettled
<1>9. JobInv'
  <2>1. QueuedIsDue'
    BY <1>0, <1>1, <1>4, <1>5 DEF JobInv, QueuedIsDue, Unsettled
  <2>2. \A i \in Jobs : job'[i] = "dead_letter" /\ source[cycle[i]] = NoEvent =>
          copies[cycle[i]] > 0
    BY <1>0, <1>3, <1>5, <1>6 DEF JobInv, Known
  <2>3. \A i \in Jobs : job'[i] # "absent" /\ source'[cycle'[i]] # NoEvent => Recoverable(i)'
    BY <1>0, <1>1, <1>3, <1>5 DEF JobInv, Recoverable, Unsettled
  <2>4. QED
    BY <1>1, <2>1, <2>2, <2>3 DEF JobInv
<1>10. ReadsInv'
  BY <1>0, <1>1, <1>4, <1>5 DEF ReadsInv, Reads
<1>11. QED
  BY <1>7, <1>8, <1>9, <1>10 DEF RowsInv

\* The indexer opens an entry for a message SQS has given up.
LEMMA IndexStep ==
  ASSUME RecoveryInv, NEW e \in Events, Index(e)
  PROVE  RowsInv' /\ ReadsInv'
<1> DEFINE j == evJob[e]
<1>0. TypeInv /\ Known /\ ReplayInv /\ JobInv /\ ReadsInv
  BY DEF RecoveryInv, OwnedInv, RowsInv
<1>1. UNCHANGED <<cycle, status, evJob, source, copies, pc, batch, seen>>
  BY DEF Index, eventVars, localVars
<1>2. copies[e] > 0 /\ ledger[e] = "none"
  BY DEF Index
<1>3. j \in Jobs /\ job[j] # "absent" /\ status[e] # "absent"
  BY <1>0, <1>2 DEF Known
<1>4. \A k \in Events : ledger'[k] = IF k = e THEN "in_dlq" ELSE ledger[k]
  BY <1>0 DEF Index, TypeInv, TypeOK
<1>5. \A i \in Jobs : job'[i] = IF i = j THEN "dead_letter" ELSE job[i]
  BY <1>0 DEF Index, TypeInv, TypeOK
<1>6. Known'
  BY <1>0, <1>1, <1>3, <1>4, <1>5 DEF Known
<1>7. ReplayInv'
  <2>1. \A k \in Events : Unsettled(k)' = Unsettled(k)
    BY <1>1 DEF Unsettled
  <2>2. \A k \in Events : Unsettled(k) /\ source[k] \in Events => source[k] # e
    BY <1>0, <1>2 DEF ReplayInv
  <2>3. QED
    BY <1>0, <1>1, <1>4, <2>1, <2>2 DEF ReplayInv, PendingReplayHasEvent
<1>8. JobInv'
  <2>1. QueuedIsDue'
    BY <1>0, <1>1, <1>5 DEF JobInv, QueuedIsDue, Unsettled
  <2>2. \A i \in Jobs : job'[i] # "absent" /\ source'[cycle'[i]] # NoEvent => Recoverable(i)'
    <3>1. ASSUME NEW i \in Jobs, i # j, job[i] # "absent", source[cycle[i]] # NoEvent
          PROVE  Recoverable(i)'
      BY <1>0, <1>1, <1>4, <3>1 DEF JobInv, Recoverable, Unsettled
    <3>2. Recoverable(j)'
      BY <1>1, <1>4 DEF Recoverable
    <3>3. QED
      BY <1>1, <1>5, <3>1, <3>2
  <2>3. \A i \in Jobs : job'[i] = "dead_letter" /\ source[cycle[i]] = NoEvent =>
          copies[cycle[i]] > 0
    BY <1>0, <1>2, <1>3, <1>5 DEF JobInv, Known
  <2>4. QED
    BY <1>1, <2>1, <2>2, <2>3 DEF JobInv
<1>9. ReadsInv'
  BY <1>0, <1>1, <1>5 DEF ReadsInv, Reads
<1>10. QED
  BY <1>6, <1>7, <1>8, <1>9 DEF RowsInv

\* Time settles nothing.
LEMMA QuietStep ==
  ASSUME RecoveryInv,
         (\E e \in Events : LeaseExpires(e) \/ BackoffEnds(e)) \/ UNCHANGED vars
  PROVE  RowsInv' /\ ReadsInv'
<1>0. RowsInv /\ ReadsInv
  BY DEF RecoveryInv
<1>1. UNCHANGED <<job, cycle, ledger, status, source, evJob, copies, pc, batch, seen>>
  BY DEF LeaseExpires, BackoffEnds, vars, jobVars, eventVars, localVars
<1>2. RowsInv'
  BY <1>0, <1>1, RowsFrame DEF Unsettled, RowsInv, Known
<1>3. ReadsInv'
  BY <1>0, <1>1 DEF ReadsInv, Reads
<1>4. QED
  BY <1>2, <1>3

-----------------------------------------------------------------------------
(* The theorems                                                            *)

\* Every step keeps the rows of the four tables in agreement.
LEMMA RecoveryStep ==
  ASSUME PromptPublishers, RecoveryInv, [Next]_vars
  PROVE  RecoveryInv'
<1>0. OwnedInv'
  BY TypeStep, LeaseStep DEF RecoveryInv, OwnedInv
<1>1. ASSUME NEW j \in Jobs, NEW e \in Events, Dispatch(j, e)
      PROVE  RowsInv' /\ ReadsInv'
  BY <1>1, DispatchStep, EnqueueReads DEF Dispatch
<1>2. ASSUME NEW p \in Publishers, Cycle(p) \/ Crash(p)
      PROVE  RowsInv' /\ ReadsInv'
  BY <1>2, ClaimStep, PublishStep, InspectStep, CommitRows, CommitReads, CrashStep DEF Cycle
<1>3. QED
  BY <1>0, <1>1, <1>2, ReplayStep, IndexStep, ConsumeStep, QuietStep
     DEF Next, PollNothing, RecoveryInv

\* The four tables agree for ever.
LEMMA RecoveryAlways == ASSUME PromptPublishers PROVE Spec => []RecoveryInv
<1>1. Init => OwnedInv
  BY TypeInit DEF Init, OwnedInv, LeaseInv, Lease
<1>2. Init => RowsInv /\ ReadsInv
  BY DEF Init, RowsInv, Known, ReplayInv, PendingReplayHasEvent, JobInv, QueuedIsDue,
         ReadsInv, Reads, Unsettled, Events, NoEvent
<1>3. RecoveryInv /\ [Next]_vars => RecoveryInv'
  BY RecoveryStep
<1>4. QED
  BY <1>1, <1>2, <1>3, PTL DEF Spec, RecoveryInv

\* With leases respected, a queued job is never forgotten: giving up its event
\* (finalize_batch) always settles the job as well, although the job was read
\* before the commit.
THEOREM NoJobForgotten == ASSUME PromptPublishers PROVE Spec => []QueuedIsDue
<1>1. RecoveryInv => QueuedIsDue
  BY DEF RecoveryInv, RowsInv, JobInv
<1>2. QED
  BY <1>1, RecoveryAlways, PTL

\* With leases respected, a ledger entry never waits for a replay whose event
\* is settled already.
THEOREM NoReplayStranded == ASSUME PromptPublishers PROVE Spec => []PendingReplayHasEvent
<1>1. RecoveryInv => PendingReplayHasEvent
  BY DEF RecoveryInv, RowsInv, ReplayInv
<1>2. QED
  BY <1>1, RecoveryAlways, PTL

\* With leases respected, every dead-lettered job can be recovered, through any
\* number of replays, lost responses and crashes of publishers.
THEOREM DeadLettersRecover == ASSUME PromptPublishers PROVE Spec => []DeadLetterIsRecoverable
<1>1. RecoveryInv => DeadLetterIsRecoverable
  BY DEF RecoveryInv, RowsInv, JobInv, Recoverable, DeadLetterIsRecoverable
<1>2. QED
  BY <1>1, RecoveryAlways, PTL

=============================================================================
