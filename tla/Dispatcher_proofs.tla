-------------------------- MODULE Dispatcher_proofs --------------------------
(***************************************************************************)
(* Proofs about Dispatcher for every value of its constants: no store is   *)
(* dispatched twice in a slot, none is passed over without a job, and no   *)
(* run leaves its lock behind, whether or not locks are lost.              *)
(***************************************************************************)
EXTENDS Dispatcher, TLAPS

USE DispatcherAssumption DEF Kinds, Slots

\* The unique constraint at work.
AtMostOne == \A s \in Stores, t \in Slots : jobs["scheduled"][s][t] <= 1

\* What the summary of a scheduled run says about the jobs of its slot.
RunInv(r) ==
  kind[r] = "scheduled" =>
    /\ \A s \in created[r] : jobs["scheduled"][s][slot[r]] >= 1
    /\ \A s \in ((candidates[r] \ todo[r]) \cap Authorized \cap Stocked) \ failed[r] :
         jobs["scheduled"][s][slot[r]] >= 1

SummaryInv == \A r \in Runs : RunInv(r)

DispatchInv == TypeOK /\ AtMostOne /\ SummaryInv /\ NoDoubleDispatch

-----------------------------------------------------------------------------
(* Types and locks                                                         *)

\* Each level of the counters has its type.
LEMMA CountType ==
  ASSUME TypeOK, NEW k \in Kinds, NEW s \in Stores, NEW t \in Slots
  PROVE  /\ jobs[k] \in [Stores -> [Slots -> 0..MaxJobs]]
         /\ jobs[k][s] \in [Slots -> 0..MaxJobs]
         /\ jobs[k][s][t] \in 0..MaxJobs
<1>1. jobs[k] \in [Stores -> [Slots -> 0..MaxJobs]]
  BY DEF TypeOK
<1>2. jobs[k][s] \in [Slots -> 0..MaxJobs]
  BY <1>1
<1>3. QED
  BY <1>1, <1>2

\* Where an INSERT counts: the kind of the run and a slot.
LEMMA JobPlace ==
  ASSUME TypeOK, NEW r \in Runs
  PROVE  kind[r] \in Kinds /\ slot[r] \in Slots /\ JobHour(r) \in Slots
BY DEF TypeOK, JobHour

\* Counting one more job keeps the type of the counters.
LEMMA InsertType ==
  ASSUME TypeOK, NEW r \in Runs, NEW s \in Stores, InsertJob(r, s)
  PROVE  jobs' \in [Kinds -> [Stores -> [Slots -> 0..MaxJobs]]]
<1> DEFINE k == kind[r]
           t == JobHour(r)
           n == jobs[k][s][t]
           m == IF n < MaxJobs THEN n + 1 ELSE n
           f == [jobs[k][s] EXCEPT ![t] = m]
           g == [jobs[k] EXCEPT ![s] = f]
<1>1. k \in Kinds /\ t \in Slots
  BY JobPlace
<1>2. /\ jobs[k] \in [Stores -> [Slots -> 0..MaxJobs]]
      /\ jobs[k][s] \in [Slots -> 0..MaxJobs]
      /\ n \in 0..MaxJobs
  BY <1>1, CountType
<1>3. m \in 0..MaxJobs
  BY <1>2
<1>4. f \in [Slots -> 0..MaxJobs]
  <2> HIDE DEF m
  <2> QED
    BY <1>1, <1>2, <1>3
<1>5. g \in [Stores -> [Slots -> 0..MaxJobs]]
  <2> HIDE DEF f
  <2> QED
    BY <1>2, <1>4
<1>6. jobs' = [jobs EXCEPT ![k] = g]
  BY DEF InsertJob
<1>7. QED
  <2> HIDE DEF g, k
  <2> QED
    BY <1>1, <1>5, <1>6 DEF TypeOK

\* The steps of a run, and the environment's, keep the types.
LEMMA TypeStep ==
  ASSUME TypeOK, Next
  PROVE  TypeOK'
<1> USE DEF TypeOK
<1>1. ASSUME NEW r \in Runs, Start(r)  PROVE TypeOK'
  BY <1>1 DEF Start, dbVars
<1>2. ASSUME NEW r \in Runs, TakeLock(r)  PROVE TypeOK'
  BY <1>2 DEF TakeLock
<1>3. ASSUME NEW r \in Runs, LockBusy(r)  PROVE TypeOK'
  BY <1>3 DEF LockBusy, dbVars
<1>4. ASSUME NEW r \in Runs, ListStores(r)  PROVE TypeOK'
  <2>1. PICK S \in SUBSET Stores : /\ candidates' = [candidates EXCEPT ![r] = S]
                                   /\ todo' = [todo EXCEPT ![r] = S]
    BY <1>4 DEF ListStores
  <2>2. candidates' \in [Runs -> SUBSET Stores] /\ todo' \in [Runs -> SUBSET Stores]
    BY <2>1
  <2>3. QED
    BY <1>4, <2>2 DEF ListStores, dbVars
<1>5. ASSUME NEW r \in Runs, Abort(r)  PROVE TypeOK'
  BY <1>5 DEF Abort, Unlock
<1>6. ASSUME NEW r \in Runs, NEW s \in Stores, Visit(r, s)  PROVE TypeOK'
  <2>1. CASE Skip(r, s)
    BY <2>1 DEF Skip, Leave, dbVars
  <2>2. CASE Prepare(r, s)
    BY <2>2 DEF Prepare, dbVars
  <2>3. CASE InsertJob(r, s)
    <3>1. jobs' \in [Kinds -> [Stores -> [Slots -> 0..MaxJobs]]]
      BY <2>3, InsertType
    <3>2. QED
      BY <2>3, <3>1 DEF InsertJob, Leave
  <2>4. CASE InsertDuplicate(r, s)
    BY <2>4 DEF InsertDuplicate, Leave, dbVars
  <2>5. CASE Fail(r, s)
    BY <2>5 DEF Fail, Leave, dbVars
  <2>6. QED
    BY <1>6, <2>1, <2>2, <2>3, <2>4, <2>5 DEF Visit
<1>7. ASSUME NEW r \in Runs, Finish(r)  PROVE TypeOK'
  BY <1>7 DEF Finish, Unlock
<1>8. ASSUME NEW r \in Runs, LoseLock(r)  PROVE TypeOK'
  BY <1>8 DEF LoseLock, Unlock, runVars
<1>9. ASSUME NEW r \in Runs, Crash(r)  PROVE TypeOK'
  BY <1>9 DEF Crash, Unlock
<1>10. CASE NextHour
  BY <1>10, SMTT(30) DEF NextHour, runVars
<1>11. QED
  BY <1>1, <1>2, <1>3, <1>4, <1>5, <1>6, <1>7, <1>8, <1>9, <1>10 DEF Next, Step

\* Every variable always has its type.
THEOREM DispatcherTypes == Spec => []TypeOK
<1>1. Init => TypeOK
  BY DEF Init, TypeOK
<1>2. TypeOK /\ [Next]_vars => TypeOK'
  <2>1. CASE UNCHANGED vars
    BY <2>1 DEF TypeOK, vars, dbVars, runVars
  <2>2. QED
    BY <2>1, TypeStep
<1>3. QED
  BY <1>1, <1>2, PTL DEF Spec

\* Whichever way a run ends, by finishing, failing, crashing or losing its
\* lock, the lock is never left with a run that is not under way.
THEOREM DispatcherLocks == Spec => []LocksAreReleased
<1>1. Init => LocksAreReleased
  BY DEF Init, LocksAreReleased
<1>2. TypeOK /\ LocksAreReleased /\ [Next]_vars => LocksAreReleased'
  <2> SUFFICES ASSUME TypeOK, LocksAreReleased, [Next]_vars
               PROVE  LocksAreReleased'
    OBVIOUS
  <2> USE DEF TypeOK, LocksAreReleased
  <2>1. ASSUME NEW r \in Runs, Start(r)  PROVE LocksAreReleased'
    BY <2>1 DEF Start, dbVars
  <2>2. ASSUME NEW r \in Runs, TakeLock(r)  PROVE LocksAreReleased'
    BY <2>2 DEF TakeLock
  <2>3. ASSUME NEW r \in Runs, LockBusy(r)  PROVE LocksAreReleased'
    BY <2>3 DEF LockBusy, dbVars
  <2>4. ASSUME NEW r \in Runs, ListStores(r)  PROVE LocksAreReleased'
    BY <2>4 DEF ListStores, dbVars
  <2>5. ASSUME NEW r \in Runs, Abort(r)  PROVE LocksAreReleased'
    BY <2>5 DEF Abort, Unlock
  <2>6. ASSUME NEW r \in Runs, NEW s \in Stores, Visit(r, s)
        PROVE  LocksAreReleased'
    BY <2>6, SMTT(30) DEF Visit, Skip, Prepare, InsertJob, InsertDuplicate, Fail, Leave, At,
                Inserting, dbVars
  <2>7. ASSUME NEW r \in Runs, Finish(r)  PROVE LocksAreReleased'
    BY <2>7 DEF Finish, Unlock
  <2>8. ASSUME NEW r \in Runs, LoseLock(r)  PROVE LocksAreReleased'
    BY <2>8 DEF LoseLock, Unlock, runVars
  <2>9. ASSUME NEW r \in Runs, Crash(r)  PROVE LocksAreReleased'
    BY <2>9 DEF Crash, Unlock
  <2>10. CASE NextHour \/ UNCHANGED vars
    BY <2>10 DEF NextHour, vars, dbVars, runVars
  <2>11. QED
    BY <2>1, <2>2, <2>3, <2>4, <2>5, <2>6, <2>7, <2>8, <2>9, <2>10 DEF Next, Step
<1>3. QED
  BY <1>1, <1>2, DispatcherTypes, PTL DEF Spec

-----------------------------------------------------------------------------
(* Jobs and summaries                                                      *)

\* An INSERT adds the first scheduled job of the run's own slot, or none.
LEMMA InsertEffect ==
  ASSUME TypeOK, NEW r \in Runs, NEW s \in Stores, InsertJob(r, s),
         NEW x \in Stores, NEW t \in Slots
  PROVE  jobs'["scheduled"][x][t] =
           IF kind[r] = "scheduled" /\ x = s /\ t = slot[r]
             THEN 1 ELSE jobs["scheduled"][x][t]
<1>1. kind[r] \in Kinds /\ slot[r] \in Slots
  BY JobPlace
<1>2. /\ jobs["scheduled"] \in [Stores -> [Slots -> 0..MaxJobs]]
      /\ jobs["scheduled"][s] \in [Slots -> 0..MaxJobs]
      /\ jobs["scheduled"][s][slot[r]] \in 0..MaxJobs
  BY <1>1, CountType
<1>3. CASE kind[r] = "scheduled"
  <2>1. jobs["scheduled"][s][slot[r]] = 0
    BY <1>2, <1>3 DEF InsertJob, Taken
  <2>2. jobs' = [jobs EXCEPT !["scheduled"][s][slot[r]] = 1]
    <3>1. JobHour(r) = slot[r]
      BY <1>3 DEF JobHour
    <3>2. (IF jobs["scheduled"][s][slot[r]] < MaxJobs
             THEN jobs["scheduled"][s][slot[r]] + 1 ELSE jobs["scheduled"][s][slot[r]]) = 1
      BY <2>1
    <3>3. QED
      BY <1>3, <3>1, <3>2 DEF InsertJob
  <2>3. jobs'["scheduled"] = [jobs["scheduled"] EXCEPT ![s][slot[r]] = 1]
    BY <2>2 DEF TypeOK
  <2>4. QED
    BY <1>1, <1>2, <1>3, <2>3, SMTT(30)
<1>4. CASE kind[r] # "scheduled"
  <2>1. jobs'["scheduled"] = jobs["scheduled"]
    BY <1>1, <1>4 DEF TypeOK, InsertJob
  <2>2. QED
    BY <1>4, <2>1
<1>5. QED
  BY <1>3, <1>4

\* A step that touches neither the scheduled jobs nor the summaries, except
\* that it may skip, fail or forget stores, keeps the invariant.
LEMMA QuietStep ==
  ASSUME DispatchInv, TypeOK', UNCHANGED <<jobs, kind>>,
         \A r \in Runs :
           \/ candidates'[r] = {} /\ created'[r] = {}
           \/ /\ slot'[r] = slot[r] /\ created'[r] = created[r]
              /\ \/ candidates'[r] = todo'[r]
                 \/ /\ candidates'[r] = candidates[r] /\ failed[r] \subseteq failed'[r]
                    /\ \A s \in (todo[r] \ todo'[r]) \cap Authorized \cap Stocked :
                         s \in failed'[r] \/ Taken(r, s)
  PROVE  DispatchInv'
<1>1. AtMostOne'
  BY DEF DispatchInv, AtMostOne
<1>2. SummaryInv'
  <2> SUFFICES ASSUME NEW r \in Runs  PROVE RunInv(r)'
    BY DEF SummaryInv
  <2> USE DEF DispatchInv, SummaryInv, RunInv, TypeOK
  <2>1. CASE candidates'[r] = {} /\ created'[r] = {}
    BY <2>1
  <2>2. CASE slot'[r] = slot[r] /\ created'[r] = created[r] /\ candidates'[r] = todo'[r]
    BY <2>2
  <2>3. CASE /\ slot'[r] = slot[r] /\ created'[r] = created[r]
             /\ candidates'[r] = candidates[r] /\ failed[r] \subseteq failed'[r]
             /\ \A s \in (todo[r] \ todo'[r]) \cap Authorized \cap Stocked :
                  s \in failed'[r] \/ Taken(r, s)
    <3> SUFFICES ASSUME kind[r] = "scheduled"  PROVE RunInv(r)'
      OBVIOUS
    <3>1. \A s \in created'[r] : jobs'["scheduled"][s][slot'[r]] >= 1
      BY <2>3
    <3>2. ASSUME NEW s \in ((candidates'[r] \ todo'[r]) \cap Authorized \cap Stocked)
                             \ failed'[r]
          PROVE  jobs["scheduled"][s][slot[r]] >= 1
      <4>1. CASE s \in todo[r]
        <5>1. Taken(r, s)
          BY <2>3, <3>2, <4>1
        <5>2. s \in Stores /\ slot[r] \in Slots
          BY <3>2
        <5>3. jobs["scheduled"][s][slot[r]] \in 0..MaxJobs
          BY <5>2, CountType
        <5>4. QED
          BY <5>1, <5>3, SMTT(30) DEF Taken
      <4>2. CASE s \notin todo[r]
        BY <2>3, <3>2, <4>2
      <4>3. QED
        BY <4>1, <4>2
    <3>3. QED
      BY <2>3, <3>1, <3>2
  <2>4. QED
    BY <2>1, <2>2, <2>3
<1>3. NoDoubleDispatch'
  BY DEF DispatchInv, NoDoubleDispatch
<1>4. QED
  BY <1>1, <1>2, <1>3 DEF DispatchInv

\* The INSERT that succeeds is the first of its store and slot, so no other
\* run has created a job there.
LEMMA InsertStep ==
  ASSUME DispatchInv, TypeOK', NEW r \in Runs, NEW s \in Stores, InsertJob(r, s)
  PROVE  DispatchInv'
<1> USE DEF DispatchInv
<1>1. \A x \in Stores, t \in Slots :
        jobs'["scheduled"][x][t] = IF kind[r] = "scheduled" /\ x = s /\ t = slot[r]
                                     THEN 1 ELSE jobs["scheduled"][x][t]
  BY InsertEffect
<1>2. AtMostOne'
  BY <1>1 DEF AtMostOne
<1>3. \A x \in Stores, t \in Slots :
        jobs["scheduled"][x][t] >= 1 => jobs'["scheduled"][x][t] >= 1
  <2> SUFFICES ASSUME NEW x \in Stores, NEW t \in Slots,
                      jobs["scheduled"][x][t] >= 1
               PROVE  jobs'["scheduled"][x][t] >= 1
    OBVIOUS
  <2>1. jobs'["scheduled"][x][t] = 1 \/ jobs'["scheduled"][x][t] = jobs["scheduled"][x][t]
    BY <1>1
  <2>2. QED
    BY <2>1
<1>4. /\ created' = [created EXCEPT ![r] = @ \cup {s}]
      /\ todo' = [todo EXCEPT ![r] = @ \ {s}]
      /\ UNCHANGED <<kind, slot, candidates, failed>>
  BY DEF InsertJob, Leave
<1>5. SummaryInv'
  <2> SUFFICES ASSUME NEW q \in Runs  PROVE RunInv(q)'
    BY DEF SummaryInv
  <2>1. CASE q # r
    BY <2>1, <1>3, <1>4 DEF SummaryInv, RunInv, TypeOK
  <2>2. CASE q = r
    <3> SUFFICES ASSUME kind[r] = "scheduled"  PROVE RunInv(r)'
      BY <2>2, <1>4 DEF RunInv
    <3>1. jobs'["scheduled"][s][slot[r]] = 1
      BY <1>1 DEF TypeOK
    <3>2. created'[r] = created[r] \cup {s} /\ todo'[r] = todo[r] \ {s}
      BY <1>4 DEF TypeOK
    <3>3. created[r] \subseteq Stores /\ candidates[r] \subseteq Stores /\ slot[r] \in Slots
      BY DEF TypeOK
    <3>4. \A x \in created'[r] : jobs'["scheduled"][x][slot[r]] >= 1
      BY <3>1, <3>2, <3>3, <1>3 DEF SummaryInv, RunInv
    <3>5. \A x \in ((candidates[r] \ todo'[r]) \cap Authorized \cap Stocked) \ failed[r] :
            jobs'["scheduled"][x][slot[r]] >= 1
      <4> SUFFICES ASSUME NEW x \in ((candidates[r] \ todo'[r]) \cap Authorized \cap Stocked)
                                      \ failed[r]
                   PROVE  jobs'["scheduled"][x][slot[r]] >= 1
        OBVIOUS
      <4>1. CASE x = s
        BY <3>1, <4>1
      <4>2. CASE x # s
        <5>1. jobs["scheduled"][x][slot[r]] >= 1
          BY <3>2, <4>2 DEF SummaryInv, RunInv
        <5>2. QED
          BY <5>1, <3>3, <1>3
      <4>3. QED
        BY <4>1, <4>2
    <3>6. QED
      BY <1>4, <3>4, <3>5 DEF RunInv
  <2>3. QED
    BY <2>1, <2>2
<1>6. NoDoubleDispatch'
  <2>1. ASSUME NEW q \in Runs, q # r, kind[q] = "scheduled", kind[r] = "scheduled",
               slot[q] = slot[r]
        PROVE  s \notin created[q]
    <3>1. jobs["scheduled"][s][slot[q]] \in 0..MaxJobs
      BY CountType, JobPlace
    <3>2. ~(jobs["scheduled"][s][slot[q]] > 0)
      BY <2>1 DEF InsertJob, Taken
    <3>3. QED
      BY <2>1, <3>1, <3>2 DEF SummaryInv, RunInv
  <2>2. /\ created'[r] = created[r] \cup {s}
        /\ \A q \in Runs \ {r} : created'[q] = created[q]
    BY <1>4 DEF TypeOK
  <2>3. ASSUME NEW p \in Runs, NEW q \in Runs, p # q, kind[p] = "scheduled",
               kind[q] = "scheduled", slot[p] = slot[q]
        PROVE  created'[p] \cap created'[q] = {}
    <3>1. created[p] \cap created[q] = {}
      BY <2>3 DEF NoDoubleDispatch
    <3>2. CASE p = r
      BY <2>1, <2>2, <2>3, <3>1, <3>2
    <3>3. CASE q = r
      BY <2>1, <2>2, <2>3, <3>1, <3>3
    <3>4. QED
      BY <2>2, <2>3, <3>1, <3>2, <3>3
  <2>4. QED
    BY <1>4, <2>3 DEF NoDoubleDispatch
<1>7. QED
  BY <1>2, <1>5, <1>6

\* Every step keeps the invariant.
LEMMA DispatchStep ==
  ASSUME DispatchInv, [Next]_vars
  PROVE  DispatchInv'
<1>1. TypeOK'
  <2>1. CASE UNCHANGED vars
    BY <2>1 DEF DispatchInv, TypeOK, vars, dbVars, runVars
  <2>2. QED
    BY <2>1, TypeStep DEF DispatchInv
<1>2. TypeOK
  BY DEF DispatchInv
<1>3. ASSUME NEW r \in Runs, Start(r)  PROVE DispatchInv'
  BY <1>1, <1>2, <1>3, QuietStep DEF Start, dbVars, TypeOK
<1>4. ASSUME NEW r \in Runs, TakeLock(r) \/ LockBusy(r) \/ Abort(r) \/ Finish(r) \/ LoseLock(r)
      PROVE  DispatchInv'
  BY <1>1, <1>2, <1>4, QuietStep
     DEF TakeLock, LockBusy, Abort, Finish, LoseLock, dbVars, runVars, TypeOK
<1>5. ASSUME NEW r \in Runs, ListStores(r)  PROVE DispatchInv'
  <2>1. PICK S \in SUBSET Stores : /\ candidates' = [candidates EXCEPT ![r] = S]
                                   /\ todo' = [todo EXCEPT ![r] = S]
    BY <1>5 DEF ListStores
  <2>2. candidates'[r] = todo'[r]
    BY <1>2, <2>1 DEF TypeOK
  <2>3. \A q \in Runs \ {r} : candidates'[q] = candidates[q] /\ todo'[q] = todo[q]
    BY <1>2, <2>1 DEF TypeOK
  <2>4. UNCHANGED <<jobs, kind, slot, created, failed>>
    BY <1>5 DEF ListStores, dbVars
  <2>5. QED
    BY <1>1, <2>2, <2>3, <2>4, QuietStep
<1>6. ASSUME NEW r \in Runs, Crash(r)  PROVE DispatchInv'
  BY ZenonT(40), <1>1, <1>2, <1>6, QuietStep DEF Crash, TypeOK
<1>7. ASSUME NEW r \in Runs, NEW s \in Stores, Visit(r, s)  PROVE DispatchInv'
  <2>1. CASE Skip(r, s)
    BY ZenonT(40), <1>1, <1>2, <2>1, QuietStep DEF Skip, Leave, dbVars, TypeOK
  <2>2. CASE Prepare(r, s)
    BY <1>1, <1>2, <2>2, QuietStep DEF Prepare, dbVars, TypeOK
  <2>3. CASE InsertJob(r, s)
    BY <1>1, <2>3, InsertStep
  <2>4. CASE InsertDuplicate(r, s)
    BY <1>1, <1>2, <2>4, QuietStep DEF InsertDuplicate, Leave, dbVars, TypeOK
  <2>5. CASE Fail(r, s)
    BY <1>1, <1>2, <2>5, QuietStep DEF Fail, Leave, dbVars, TypeOK
  <2>6. QED
    BY <1>7, <2>1, <2>2, <2>3, <2>4, <2>5 DEF Visit
<1>8. CASE NextHour \/ UNCHANGED vars
  BY <1>1, <1>2, <1>8, QuietStep DEF NextHour, vars, dbVars, runVars, TypeOK
<1>9. QED
  BY <1>3, <1>4, <1>5, <1>6, <1>7, <1>8 DEF Next, Step

\* The inductive invariant.
THEOREM DispatchInvariant == Spec => []DispatchInv
<1>1. Init => DispatchInv
  BY DispatcherTypes DEF Init, DispatchInv, TypeOK, AtMostOne, SummaryInv, RunInv, NoDoubleDispatch
<1>2. DispatchInv /\ [Next]_vars => DispatchInv'
  BY DispatchStep
<1>3. QED
  BY <1>1, <1>2, PTL DEF Spec

\* However many runs overlap, whatever locks are lost: two scheduled runs
\* never create a job for the same store in the same slot.
THEOREM NoStoreTwice == Spec => []NoDoubleDispatch
<1>1. DispatchInv => NoDoubleDispatch
  BY DEF DispatchInv
<1>2. QED
  BY <1>1, DispatchInvariant, PTL

\* A store that a scheduled run could serve and did not report as failed has
\* exactly one job of the slot.
THEOREM NoStorePassedOver == Spec => []SlotIsServed
<1>1. DispatchInv => SlotIsServed
  <2> SUFFICES ASSUME DispatchInv, NEW r \in Runs, kind[r] = "scheduled",
                      NEW s \in ((candidates[r] \ todo[r]) \cap Authorized \cap Stocked)
                                  \ failed[r]
               PROVE  jobs["scheduled"][s][slot[r]] = 1
    BY DEF SlotIsServed
  <2>1. s \in Stores /\ slot[r] \in Slots
    BY DEF DispatchInv, TypeOK
  <2>2. jobs["scheduled"][s][slot[r]] \in 0..MaxJobs
    BY <2>1, CountType DEF DispatchInv
  <2>3. jobs["scheduled"][s][slot[r]] >= 1
    BY DEF DispatchInv, SummaryInv, RunInv
  <2>4. jobs["scheduled"][s][slot[r]] <= 1
    BY <2>1 DEF DispatchInv, AtMostOne
  <2>5. QED
    BY <2>2, <2>3, <2>4
<1>2. QED
  BY <1>1, DispatchInvariant, PTL

=============================================================================
