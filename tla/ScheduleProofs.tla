---------------------------- MODULE ScheduleProofs ----------------------------
(***************************************************************************)
(* Proofs about the schedule: what AddJob's insertion loop makes of a list, *)
(* and what the schedule's methods preserve.                               *)
(***************************************************************************)
EXTENDS ScheduleState, WellFoundedInduction, TLAPS

-----------------------------------------------------------------------------
(* The insertion loop of AddJob.                                           *)

\* Every set of natural numbers has a least one.
LEMMA LeastNumber ==
  ASSUME NEW S \in SUBSET Nat, S # {}
  PROVE  \E m \in S : \A k \in S : m <= k
<1> DEFINE R == {ss \in Nat \X Nat : ss[1] < ss[2]}
<1>1. IsWellFoundedOn(R, Nat)
  BY NatLessThanWellFounded DEF OpToRel
<1>2. \E m \in S : \A k \in S : <<k, m>> \notin R
  <2> HIDE DEF R
  <2> QED
    BY <1>1, WFMin
<1>3. PICK m \in S : \A k \in S : <<k, m>> \notin R
  BY <1>2
<1>4. ASSUME NEW k \in S
      PROVE  m <= k
  <2>1. <<k, m>> \in Nat \X Nat /\ <<k, m>>[1] = k /\ <<k, m>>[2] = m
    BY <1>3
  <2>2. ~(k < m)
    BY <1>3, <2>1
  <2> QED
    BY <2>2, <1>3
<1> QED
  BY <1>3, <1>4

\* Starts are integers, so that they can be compared.
LEMMA StartsAreNumbers ==
  ASSUME NEW list \in Seq(Listed), NEW e \in Listed
  PROVE  /\ Len(list) \in Nat /\ e.tstart \in Int
         /\ \A i \in 1 .. Len(list) : list[i].tstart \in Int
<1>1. Time \subseteq Int
  BY TimeAssumption DEF Time, Forever
<1>2. \A x \in Listed : x.tstart \in Int
  BY <1>1 DEF Listed
<1>3. Len(list) \in Nat /\ \A i \in 1 .. Len(list) : list[i] \in Listed
  OBVIOUS
<1> QED
  BY <1>2, <1>3

\* The loop finds a place: the first entry that starts later, or the end.
LEMMA InsertAtExists ==
  ASSUME NEW list \in Seq(Listed), NEW e \in Listed
  PROVE  /\ InsertAt(list, e) \in 1 .. Len(list) + 1
         /\ \A i \in 1 .. InsertAt(list, e) - 1 : list[i].tstart <= e.tstart
         /\ InsertAt(list, e) <= Len(list) => e.tstart < list[InsertAt(list, e)].tstart
<1> DEFINE Fits(p) == /\ \A i \in 1 .. p - 1 : list[i].tstart <= e.tstart
                      /\ p <= Len(list) => e.tstart < list[p].tstart
           later == {i \in 1 .. Len(list) : e.tstart < list[i].tstart}
<1>0. /\ Len(list) \in Nat /\ e.tstart \in Int
      /\ \A i \in 1 .. Len(list) : list[i].tstart \in Int
  BY StartsAreNumbers
<1>1. \E p \in 1 .. Len(list) + 1 : Fits(p)
  <2>1. CASE later = {}
    BY <1>0, <2>1
  <2>2. CASE later # {}
    <3>1. PICK m \in later : \A k \in later : m <= k
      <4>1. later \in SUBSET Nat
        BY <1>0
      <4> HIDE DEF later
      <4> QED
        BY <2>2, <4>1, LeastNumber
    <3> QED
      BY <1>0, <3>1
  <2> QED
    BY <2>1, <2>2
<1>2. InsertAt(list, e) = CHOOSE p \in 1 .. Len(list) + 1 : Fits(p)
  BY DEF InsertAt
<1> HIDE DEF Fits
<1>3. InsertAt(list, e) \in 1 .. Len(list) + 1 /\ Fits(InsertAt(list, e))
  BY <1>1, <1>2
<1> QED
  BY <1>3 DEF Fits

\* What the list then is, position by position.
LEMMA InsertSortedEntries ==
  ASSUME NEW list \in Seq(Listed), NEW e \in Listed
  PROVE  LET p   == InsertAt(list, e)
             new == InsertSorted(list, e)
         IN  /\ new \in Seq(Listed) /\ Len(new) = Len(list) + 1
             /\ \A k \in 1 .. p - 1 : new[k] = list[k]
             /\ new[p] = e
             /\ \A k \in p + 1 .. Len(list) + 1 : new[k] = list[k - 1]
<1> DEFINE p   == InsertAt(list, e)
           new == InsertSorted(list, e)
           n   == Len(list) + 1
<1>0. n \in Nat /\ p \in 1 .. n /\ Len(list) \in Nat
  BY InsertAtExists
<1>1. new = [k \in 1 .. n |-> IF k < p THEN list[k] ELSE IF k = p THEN e ELSE list[k - 1]]
  BY DEF InsertSorted
<1> HIDE DEF p, new
<1>2. ASSUME NEW k \in 1 .. n
      PROVE  (IF k < p THEN list[k] ELSE IF k = p THEN e ELSE list[k - 1]) \in Listed
  <2>1. CASE k < p
    BY <1>0, <2>1
  <2>2. CASE k > p
    <3>1. k - 1 \in 1 .. Len(list)
      BY <1>0, <2>2
    <3> QED
      BY <1>0, <2>2, <3>1
  <2> QED
    BY <1>0, <2>1, <2>2
<1>3. new \in [1 .. n -> Listed]
  BY <1>1, <1>2
<1>4. new \in Seq(Listed) /\ Len(new) = n
  BY <1>0, <1>3
<1>5. /\ \A k \in 1 .. p - 1 : new[k] = list[k]
      /\ new[p] = e
      /\ \A k \in p + 1 .. n : new[k] = list[k - 1]
  BY <1>0, <1>1
<1> QED
  BY <1>4, <1>5 DEF p, new

\* A list of entries of the schedule, sorted by start.
Sorted(list) == \A a, b \in 1 .. Len(list) : a < b => list[a].tstart <= list[b].tstart

\* Inserting keeps a list sorted ...
LEMMA InsertSortedSorts ==
  ASSUME NEW list \in Seq(Listed), NEW e \in Listed, Sorted(list)
  PROVE  Sorted(InsertSorted(list, e))
<1> DEFINE p   == InsertAt(list, e)
           new == InsertSorted(list, e)
<1>0. /\ Len(list) \in Nat /\ e.tstart \in Int
      /\ \A i \in 1 .. Len(list) : list[i].tstart \in Int
  BY StartsAreNumbers
<1>1. /\ p \in 1 .. Len(list) + 1
      /\ \A i \in 1 .. p - 1 : list[i].tstart <= e.tstart
      /\ p <= Len(list) => e.tstart < list[p].tstart
  BY InsertAtExists
<1>2. /\ Len(new) = Len(list) + 1
      /\ \A k \in 1 .. p - 1 : new[k] = list[k]
      /\ new[p] = e
      /\ \A k \in p + 1 .. Len(list) + 1 : new[k] = list[k - 1]
  BY InsertSortedEntries
<1> HIDE DEF p, new
<1> SUFFICES ASSUME NEW a \in 1 .. Len(list) + 1, NEW b \in 1 .. Len(list) + 1, a < b
             PROVE  new[a].tstart <= new[b].tstart
  BY <1>2 DEF Sorted, new
<1>3. \A i \in p .. Len(list) : e.tstart <= list[i].tstart
  <2>1. \A i \in p + 1 .. Len(list) : list[p].tstart <= list[i].tstart
    BY <1>0, <1>1 DEF Sorted
  <2> QED
    BY <1>0, <1>1, <2>1
<1>4. CASE b < p
  BY <1>0, <1>1, <1>2, <1>4 DEF Sorted
<1>5. CASE b = p
  BY <1>0, <1>1, <1>2, <1>5
<1>6. CASE b > p /\ a < p
  <2>1. a \in 1 .. Len(list) /\ b - 1 \in 1 .. Len(list) /\ b \in p + 1 .. Len(list) + 1
    BY <1>0, <1>1, <1>6
  <2>2. new[a] = list[a] /\ new[b] = list[b - 1]
    BY <1>0, <1>1, <1>2, <1>6, <2>1
  <2>3. list[a].tstart <= e.tstart /\ e.tstart <= list[b - 1].tstart
    BY <1>0, <1>1, <1>3, <1>6, <2>1
  <2> QED
    BY <1>0, <2>1, <2>2, <2>3
<1>7. CASE b > p /\ a = p
  <2>1. new[b] = list[b - 1] /\ b - 1 \in p .. Len(list)
    BY <1>0, <1>1, <1>2, <1>7
  <2> QED
    BY <1>2, <1>3, <1>7, <2>1
<1>8. CASE a > p
  <2>1. /\ new[a] = list[a - 1] /\ new[b] = list[b - 1]
        /\ a - 1 \in 1 .. Len(list) /\ b - 1 \in 1 .. Len(list) /\ a - 1 < b - 1
    <3>1. /\ a \in p + 1 .. Len(list) + 1 /\ b \in p + 1 .. Len(list) + 1
          /\ a - 1 \in 1 .. Len(list) /\ b - 1 \in 1 .. Len(list) /\ a - 1 < b - 1
      BY <1>0, <1>1, <1>8
    <3> QED
      BY <1>2, <3>1
  <2> QED
    BY <2>1 DEF Sorted
<1> QED
  BY <1>0, <1>1, <1>4, <1>5, <1>6, <1>7, <1>8

\* An entry is in a list.
IsIn(e, list) == \E k \in 1 .. Len(list) : list[k] = e

\* ... loses none of its entries, and adds the new one.
LEMMA InsertSortedKeeps ==
  ASSUME NEW list \in Seq(Listed), NEW e \in Listed
  PROVE  /\ IsIn(e, InsertSorted(list, e))
         /\ \A x : IsIn(x, list) => IsIn(x, InsertSorted(list, e))
<1> DEFINE p   == InsertAt(list, e)
           new == InsertSorted(list, e)
<1>1. p \in 1 .. Len(list) + 1 /\ Len(list) \in Nat
  BY InsertAtExists
<1>2. /\ Len(new) = Len(list) + 1
      /\ \A k \in 1 .. p - 1 : new[k] = list[k]
      /\ new[p] = e
      /\ \A k \in p + 1 .. Len(list) + 1 : new[k] = list[k - 1]
  BY InsertSortedEntries
<1> HIDE DEF p, new
<1>3. IsIn(e, new)
  BY <1>1, <1>2 DEF IsIn
<1>4. ASSUME NEW k \in 1 .. Len(list)
      PROVE  IsIn(list[k], new)
  <2>1. CASE k < p
    BY <1>1, <1>2, <2>1 DEF IsIn
  <2>2. CASE k >= p
    <3>1. k + 1 \in p + 1 .. Len(list) + 1 /\ k + 1 - 1 = k
      BY <1>1, <2>2
    <3>2. new[k + 1] = list[k] /\ k + 1 \in 1 .. Len(new)
      BY <1>1, <1>2, <3>1
    <3> QED
      BY <3>2 DEF IsIn
  <2> QED
    BY <1>1, <2>1, <2>2
<1> QED
  BY <1>3, <1>4 DEF IsIn, new

-----------------------------------------------------------------------------
(* The methods of the schedule.                                            *)

\* AddJob keeps the type of the schedule.
LEMMA AddJobType ==
  ASSUME ScheduleTypeOK, NEW id \in JobIds, NEW job \in Job, AddJob(id, job)
  PROVE  ScheduleTypeOK'
<1>1. Entry(id, job) \in Listed
  BY DEF Entry, Listed, Job
<1>2. \A o \in Osts : InsertSorted(schedule[o], Entry(id, job)) \in Seq(Listed)
  BY <1>1, InsertSortedEntries DEF ScheduleTypeOK
<1> QED
  BY <1>2 DEF ScheduleTypeOK, AddJob

\* RemoveJob keeps it.
LEMMA RemoveJobType ==
  ASSUME ScheduleTypeOK, NEW id \in JobIds, RemoveJob(id)
  PROVE  ScheduleTypeOK'
BY DEF ScheduleTypeOK, RemoveJob

\* UpdateJob keeps it.
LEMMA UpdateJobType ==
  ASSUME ScheduleTypeOK, NEW id \in JobIds, NEW state \in JobState, UpdateJob(id, state)
  PROVE  ScheduleTypeOK'
<1>1. CASE jobs[id] = Null
  BY <1>1 DEF ScheduleTypeOK, UpdateJob
<1>2. CASE jobs[id] # Null
  <2>1. jobs[id] \in Job
    BY <1>2 DEF ScheduleTypeOK
  <2>2. [jobs[id] EXCEPT !.state = state] \in Job
    BY <2>1 DEF Job
  <2>3. jobs' = [jobs EXCEPT ![id] = [jobs[id] EXCEPT !.state = state]]
    BY <1>2 DEF UpdateJob
  <2> QED
    BY <2>2, <2>3 DEF ScheduleTypeOK, UpdateJob
<1> QED
  BY <1>1, <1>2

Lists == ScheduleTypeOK /\ ListsSorted /\ JobsAreListed

\* AddJob keeps the lists sorted and complete.
LEMMA AddJobLists ==
  ASSUME Lists, NEW id \in JobIds, NEW job \in Job, AddJob(id, job)
  PROVE  ListsSorted' /\ JobsAreListed'
<1> DEFINE e == Entry(id, job)
<1>0. /\ jobs \in [JobIds -> Job \cup {Null}] /\ schedule \in [Osts -> Seq(Listed)]
      /\ e \in Listed
  BY DEF Lists, ScheduleTypeOK, Entry, Listed, Job
<1>1. /\ jobs' = [jobs EXCEPT ![id] = job]
      /\ schedule' = [o \in Osts |-> IF o \in job.osts THEN InsertSorted(schedule[o], e)
                                                      ELSE schedule[o]]
  BY DEF AddJob
<1> HIDE DEF e
<1>2. ASSUME NEW o \in Osts
      PROVE  Sorted(schedule'[o])
  <2>1. Sorted(schedule[o])
    BY DEF Lists, ListsSorted, Sorted
  <2>2. Sorted(InsertSorted(schedule[o], e))
    BY <1>0, <2>1, InsertSortedSorts
  <2> QED
    BY <1>1, <2>1, <2>2
<1>3. ASSUME NEW o \in Osts
      PROVE  /\ \A x : IsIn(x, schedule[o]) => IsIn(x, schedule'[o])
             /\ o \in job.osts => IsIn(e, schedule'[o])
  BY <1>0, <1>1, InsertSortedKeeps
<1>4. ASSUME NEW j \in JobIds, jobs'[j] # Null, NEW o \in jobs'[j].osts
      PROVE  IsIn(Entry(j, jobs'[j]), schedule'[o])
  <2>1. CASE j = id
    BY <1>0, <1>1, <1>3, <1>4, <2>1 DEF e, Job
  <2>2. CASE j # id
    <3>1. jobs'[j] = jobs[j] /\ jobs[j] \in Job /\ o \in Osts
      BY <1>0, <1>1, <1>4, <2>2 DEF Job
    <3>2. IsIn(Entry(j, jobs[j]), schedule[o])
      BY <1>4, <3>1 DEF Lists, JobsAreListed, IsIn, Accepted
    <3> QED
      BY <1>3, <3>1, <3>2
  <2> QED
    BY <2>1, <2>2
<1>5. ListsSorted'
  BY <1>2 DEF ListsSorted, Sorted
<1>6. JobsAreListed'
  BY <1>4 DEF JobsAreListed, IsIn, Accepted
<1> QED
  BY <1>5, <1>6

\* So does RemoveJob, which leaves the lists alone.
LEMMA RemoveJobLists ==
  ASSUME Lists, NEW id, RemoveJob(id)
  PROVE  ListsSorted' /\ JobsAreListed'
<1>1. ListsSorted'
  BY DEF Lists, ListsSorted, RemoveJob
<1>2. \A j \in JobIds : jobs'[j] # Null => jobs'[j] = jobs[j]
  BY DEF Lists, ScheduleTypeOK, RemoveJob
<1>3. JobsAreListed'
  BY <1>2 DEF Lists, JobsAreListed, Accepted, RemoveJob
<1> QED
  BY <1>1, <1>3

\* So does UpdateJob: the lists do not tell states.
LEMMA UpdateJobLists ==
  ASSUME Lists, NEW id \in JobIds, NEW state \in JobState, UpdateJob(id, state)
  PROVE  ListsSorted' /\ JobsAreListed'
<1>1. ListsSorted'
  BY DEF Lists, ListsSorted, UpdateJob
<1>2. ASSUME NEW j \in JobIds, jobs'[j] # Null
      PROVE  jobs[j] # Null /\ Entry(j, jobs'[j]) = Entry(j, jobs[j])
             /\ jobs'[j].osts = jobs[j].osts
  <2>1. CASE jobs[id] = Null \/ j # id
    BY <1>2, <2>1 DEF Lists, ScheduleTypeOK, UpdateJob
  <2>2. CASE jobs[id] # Null /\ j = id
    <3>1. jobs[id] \in Job
      BY <2>2 DEF Lists, ScheduleTypeOK
    <3>2. jobs'[id] = [jobs[id] EXCEPT !.state = state]
      BY <2>2 DEF Lists, ScheduleTypeOK, UpdateJob
    <3> QED
      BY <2>2, <3>1, <3>2 DEF Entry, Job
  <2> QED
    BY <2>1, <2>2
<1>3. JobsAreListed'
  BY <1>2 DEF Lists, JobsAreListed, Accepted, UpdateJob
<1> QED
  BY <1>1, <1>3
=============================================================================
