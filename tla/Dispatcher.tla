----------------------------- MODULE Dispatcher -----------------------------
(***************************************************************************)
(* DispatchService.run_once and dispatch_manual: a run takes the advisory  *)
(* lock of its kind without waiting, lists the candidate stores, and       *)
(* creates one job per store, each in a transaction of its own.            *)
(*                                                                         *)
(* The lock belongs to a database session: it is gone when the process     *)
(* dies or when its connection drops, and in the second case the run goes  *)
(* on without it.  What keeps a slot from being dispatched twice then is   *)
(* the unique constraint on (store_id, dispatch_slot), checked by the      *)
(* INSERT after the SELECT that found no job.                              *)
(***************************************************************************)
EXTENDS Naturals

CONSTANTS
  Stores,      \* stores, numbered in the order of their names
  Authorized,  \* the stores whose domain has an enabled adapter
  Stocked,     \* the stores with active products
  Runs,        \* processes and requests that dispatch
  Mortal,      \* those that may be killed
  MaxSlot,     \* bound: hours the clock goes through
  MaxJobs,     \* counting the jobs of a store in an hour stops here
  Nobody       \* holder of a free lock

ASSUME DispatcherAssumption ==
  /\ Stores \subseteq Nat
  /\ Authorized \subseteq Stores /\ Stocked \subseteq Stores
  /\ Mortal \subseteq Runs
  /\ MaxSlot \in Nat /\ MaxSlot >= 1
  /\ MaxJobs \in Nat /\ MaxJobs >= 2
  /\ Nobody \notin Runs

\* trigger_type: each kind of run has its own advisory lock
Kinds == {"scheduled", "manual"}
Slots == 1..MaxSlot

VARIABLES
  hour,        \* the current hour
  jobs,        \* jobs of each trigger type, store and hour: the dispatch_slot
               \* of scheduled jobs, the hour of created_at of manual ones
  holder,      \* the run that holds each advisory lock
  pc,          \* where a run stands
  kind,        \* run_once or dispatch_manual
  slot,        \* normalized_slot
  candidates,  \* candidate_stores, as listed at the start of the run
  todo,        \* the candidates the loop has not come to
  created, skipped, failed  \* the summary of the run

dbVars == <<hour, jobs, holder>>
runVars == <<pc, kind, slot, candidates, todo, created, skipped, failed>>
vars == <<dbVars, runVars>>

-----------------------------------------------------------------------------

Init ==
  /\ hour = 1
  /\ jobs = [k \in Kinds |-> [s \in Stores |-> [t \in Slots |-> 0]]]
  /\ holder = [k \in Kinds |-> Nobody]
  /\ pc = [r \in Runs |-> "idle"]
  /\ kind \in [Runs -> Kinds]
  /\ slot = [r \in Runs |-> 1]
  /\ candidates = [r \in Runs |-> {}]
  /\ todo = [r \in Runs |-> {}]
  /\ created = [r \in Runs |-> {}]
  /\ skipped = [r \in Runs |-> {}]
  /\ failed = [r \in Runs |-> {}]

\* Mutant: the slot is rounded up to the next hour.
StartRoundsUp(r) ==
  /\ pc[r] = "idle"
  /\ pc' = [pc EXCEPT ![r] = "locking"]
  /\ slot' = [slot EXCEPT ![r] = hour + 1]
  /\ candidates' = [candidates EXCEPT ![r] = {}]
  /\ created' = [created EXCEPT ![r] = {}]
  /\ skipped' = [skipped EXCEPT ![r] = {}]
  /\ failed' = [failed EXCEPT ![r] = {}]
  /\ UNCHANGED <<dbVars, kind, todo>>

\* The clock is read before the lock is tried.
Start(r) ==
  /\ pc[r] = "idle"
  /\ pc' = [pc EXCEPT ![r] = "locking"]
  /\ slot' = [slot EXCEPT ![r] = hour]
  /\ candidates' = [candidates EXCEPT ![r] = {}]
  /\ created' = [created EXCEPT ![r] = {}]
  /\ skipped' = [skipped EXCEPT ![r] = {}]
  /\ failed' = [failed EXCEPT ![r] = {}]
  /\ UNCHANGED <<dbVars, kind, todo>>

\* pg_try_advisory_lock
TakeLock(r) ==
  /\ pc[r] = "locking" /\ holder[kind[r]] = Nobody
  /\ holder' = [holder EXCEPT ![kind[r]] = r]
  /\ pc' = [pc EXCEPT ![r] = "listing"]
  /\ UNCHANGED <<hour, jobs, kind, slot, candidates, todo, created, skipped, failed>>

\* skipped_lock, or the 409 of a manual run
LockBusy(r) ==
  /\ pc[r] = "locking" /\ holder[kind[r]] # Nobody
  /\ pc' = [pc EXCEPT ![r] = "idle"]
  /\ UNCHANGED <<dbVars, kind, slot, candidates, todo, created, skipped, failed>>

\* pg_advisory_unlock only ever frees the lock of its own session.
Unlock(r) ==
  holder' = [k \in Kinds |-> IF holder[k] = r THEN Nobody ELSE holder[k]]

\* The active stores at this moment, which may change while the run goes on;
\* a manual request may name one store, which must be active and authorized.
ListStores(r) ==
  /\ pc[r] = "listing"
  /\ \E S \in SUBSET Stores :
       /\ candidates' = [candidates EXCEPT ![r] = S]
       /\ todo' = [todo EXCEPT ![r] = S]
  /\ pc' = [pc EXCEPT ![r] = "visiting"]
  /\ UNCHANGED <<dbVars, kind, slot, created, skipped, failed>>

\* Mutant: an exception leaves the lock taken.
AbortKeepsLock(r) ==
  /\ pc[r] = "listing"
  /\ pc' = [pc EXCEPT ![r] = "idle"]
  /\ UNCHANGED <<dbVars, kind, slot, candidates, todo, created, skipped, failed>>

\* The 404 and 422 of a manual request, or an exception of the query.
Abort(r) ==
  /\ pc[r] = "listing"
  /\ Unlock(r)
  /\ pc' = [pc EXCEPT ![r] = "idle"]
  /\ UNCHANGED <<hour, jobs, kind, slot, candidates, todo, created, skipped, failed>>

-----------------------------------------------------------------------------
(* One store after the other, in the order of their names                  *)

\* Mutant: the slot is left out of the query.
TakenInAnySlot(r, s) ==
  kind[r] = "scheduled" /\ \E t \in Slots : jobs["scheduled"][s][t] > 0

\* the query for a job of the store in the slot, and the unique constraint,
\* which ignores the null dispatch_slot of manual jobs
Taken(r, s) == kind[r] = "scheduled" /\ jobs["scheduled"][s][slot[r]] > 0

At(r, s) == pc[r] = "visiting" /\ s \in todo[r] /\ \A n \in todo[r] : s <= n

Leave(r, s) ==
  /\ todo' = [todo EXCEPT ![r] = @ \ {s}]
  /\ pc' = [pc EXCEPT ![r] = "visiting"]

Skip(r, s) ==
  /\ At(r, s)
  /\ s \notin Authorized \/ Taken(r, s) \/ s \notin Stocked
  /\ skipped' = [skipped EXCEPT ![r] = @ \cup {s}]
  /\ Leave(r, s)
  /\ UNCHANGED <<dbVars, kind, slot, candidates, created, failed>>

\* The transaction has found no job of the slot, and products.
Prepare(r, s) ==
  /\ At(r, s)
  /\ s \in Authorized /\ ~Taken(r, s) /\ s \in Stocked
  /\ pc' = [pc EXCEPT ![r] = "inserting"]
  /\ UNCHANGED <<dbVars, kind, slot, candidates, todo, created, skipped, failed>>

Inserting(r, s) == pc[r] = "inserting" /\ s \in todo[r] /\ \A n \in todo[r] : s <= n

JobHour(r) == IF kind[r] = "scheduled" THEN slot[r] ELSE hour

\* Mutant: the database has no unique constraint.
InsertJobAlways(r, s) ==
  /\ Inserting(r, s)
  /\ jobs' = [jobs EXCEPT ![kind[r]][s][JobHour(r)] = IF @ < MaxJobs THEN @ + 1 ELSE @]
  /\ created' = [created EXCEPT ![r] = @ \cup {s}]
  /\ Leave(r, s)
  /\ UNCHANGED <<hour, holder, kind, slot, candidates, skipped, failed>>

\* The job and its message commit together.
InsertJob(r, s) ==
  /\ Inserting(r, s) /\ ~Taken(r, s)
  /\ jobs' = [jobs EXCEPT ![kind[r]][s][JobHour(r)] = IF @ < MaxJobs THEN @ + 1 ELSE @]
  /\ created' = [created EXCEPT ![r] = @ \cup {s}]
  /\ Leave(r, s)
  /\ UNCHANGED <<hour, holder, kind, slot, candidates, skipped, failed>>

\* IntegrityError of uq_scraping_jobs_store_dispatch_slot
InsertDuplicate(r, s) ==
  /\ Inserting(r, s) /\ Taken(r, s)
  /\ skipped' = [skipped EXCEPT ![r] = @ \cup {s}]
  /\ Leave(r, s)
  /\ UNCHANGED <<dbVars, kind, slot, candidates, created, failed>>

\* Any other error rolls the transaction of this store back, and only it.
Fail(r, s) ==
  /\ (At(r, s) /\ s \in Authorized) \/ Inserting(r, s)
  /\ failed' = [failed EXCEPT ![r] = @ \cup {s}]
  /\ Leave(r, s)
  /\ UNCHANGED <<dbVars, kind, slot, candidates, created, skipped>>

Finish(r) ==
  /\ pc[r] = "visiting" /\ todo[r] = {}
  /\ Unlock(r)
  /\ pc' = [pc EXCEPT ![r] = "idle"]
  /\ UNCHANGED <<hour, jobs, kind, slot, candidates, todo, created, skipped, failed>>

-----------------------------------------------------------------------------
(* The environment                                                         *)

\* The connection of the lock drops; the run does not notice.
LoseLock(r) ==
  /\ \E k \in Kinds : holder[k] = r
  /\ Unlock(r)
  /\ UNCHANGED <<hour, jobs, runVars>>

\* The server rolls the open transaction back and frees the lock; there is no
\* summary of the run.
Crash(r) ==
  /\ r \in Mortal /\ pc[r] # "idle"
  /\ Unlock(r)
  /\ pc' = [pc EXCEPT ![r] = "idle"]
  /\ candidates' = [candidates EXCEPT ![r] = {}]
  /\ todo' = [todo EXCEPT ![r] = {}]
  /\ created' = [created EXCEPT ![r] = {}]
  /\ skipped' = [skipped EXCEPT ![r] = {}]
  /\ failed' = [failed EXCEPT ![r] = {}]
  /\ UNCHANGED <<hour, jobs, kind, slot>>

NextHour ==
  /\ hour < MaxSlot
  /\ hour' = hour + 1
  /\ UNCHANGED <<jobs, holder, runVars>>

-----------------------------------------------------------------------------

Visit(r, s) ==
  Skip(r, s) \/ Prepare(r, s) \/ InsertJob(r, s) \/ InsertDuplicate(r, s) \/ Fail(r, s)

Step(r) ==
  \/ TakeLock(r) \/ LockBusy(r) \/ ListStores(r) \/ Abort(r)
  \/ \E s \in Stores : Visit(r, s)
  \/ Finish(r)

Next ==
  \/ \E r \in Runs : Start(r) \/ Step(r) \/ LoseLock(r) \/ Crash(r)
  \/ NextHour

Spec == Init /\ [][Next]_vars

-----------------------------------------------------------------------------
(* Properties                                                              *)

\* Every variable has its type.
TypeOK ==
  /\ hour \in Slots
  /\ jobs \in [Kinds -> [Stores -> [Slots -> 0..MaxJobs]]]
  /\ holder \in [Kinds -> Runs \cup {Nobody}]
  /\ pc \in [Runs -> {"idle", "locking", "listing", "visiting", "inserting"}]
  /\ kind \in [Runs -> Kinds]
  /\ slot \in [Runs -> Slots]
  /\ candidates \in [Runs -> SUBSET Stores]
  /\ todo \in [Runs -> SUBSET Stores]
  /\ created \in [Runs -> SUBSET Stores]
  /\ skipped \in [Runs -> SUBSET Stores]
  /\ failed \in [Runs -> SUBSET Stores]

\* No two scheduled runs of one slot create a job for the same store, even
\* when a run has lost its lock and another one overlaps with it.
NoDoubleDispatch ==
  \A q, r \in Runs :
    q # r /\ kind[q] = "scheduled" /\ kind[r] = "scheduled" /\ slot[q] = slot[r]
      => created[q] \cap created[r] = {}

\* A scheduled run that has passed a store it could serve, without reporting an
\* error, leaves the store with a job of the slot: its own or, when it skipped
\* the store, that of another run.
SlotIsServed ==
  \A r \in Runs : kind[r] = "scheduled" =>
    \A s \in ((candidates[r] \ todo[r]) \cap Authorized \cap Stocked) \ failed[r] :
      jobs["scheduled"][s][slot[r]] = 1

\* A lock is only held by a run of its kind that is under way: whichever way a
\* run ends, it never leaves the lock taken for the runs to come.
LocksAreReleased ==
  \A k \in Kinds, r \in Runs : holder[k] = r =>
    kind[r] = k /\ pc[r] \in {"listing", "visiting", "inserting"}

\* No trigger within one hour creates a second job of the same store.
NoRedundantJobs ==
  \A s \in Stores, t \in Slots : jobs["scheduled"][s][t] + jobs["manual"][s][t] <= 1

=============================================================================
