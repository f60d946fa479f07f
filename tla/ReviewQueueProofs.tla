-------------------------- MODULE ReviewQueueProofs --------------------------
(***************************************************************************)
(* ReviewQueue's safety for every number of runners, heads and jobs and    *)
(* every setting of the limits.                                            *)
(*                                                                         *)
(* The limits and the one-review-per-head rule are enforced over rows, and *)
(* the properties are about reviews.  WorkIsActive is what joins the two:  *)
(* a job that is worked on, and was not taken from its runner, has a row   *)
(* that the lease transaction counts.                                      *)
(***************************************************************************)
EXTENDS ReviewQueue, FiniteSetTheorems, TLAPS

\* Everything but "absent".
RowStates == WaitingStates \cup ActiveStates \cup FinalStates

\* What one runner is at work on, except for jobs taken from it.
OwnWork(r) == (granted[r] \cup held[r]) \ overridden

\* Whoever lists jobs and then writes to them.
Processes == Runners \cup Tools

Lists == [jobs : SUBSET JobIds, to : SUBSET (WaitingStates \cup FinalStates), open : SUBSET JobIds]

\* TypeOK, the rows and the runners apart.
RowsTyped ==
  /\ jobs \in 0..MaxJobs
  /\ state \in [JobIds -> {"absent"} \cup RowStates]
  /\ head \in [JobIds -> Heads \cup {NoHead}]
  /\ class \in [JobIds -> DOMAIN Rank \cup {"none"}]
  /\ due \in [JobIds -> BOOLEAN]
  /\ lease \in [JobIds -> {"none", "live", "expired"}]
  /\ \A j \in JobIds :
       /\ state[j] = "absent" <=> j > jobs
       /\ head[j] = NoHead <=> j > jobs
       /\ lease[j] = "none" <=> state[j] \notin ActiveStates
       /\ due[j] => state[j] \in DeferredStates

RunnersTyped ==
  /\ rescued \in 0..jobs
  /\ txn \in Runners \cup {NoRunner}
  /\ skipped \subseteq JobIds
  /\ pc \in [Runners -> {"scan", "lease", "review", "defer"}]
  /\ pending \in [Runners -> [head : Heads \cup {NoHead}, first : BOOLEAN]]
  /\ list \in [Processes -> Lists]
  /\ granted \in [Runners -> SUBSET JobIds]
  /\ held \in [Runners -> SUBSET JobIds]
  /\ throttled \in [Runners -> SUBSET {Provider[h] : h \in Heads}]
  /\ overridden \subseteq JobIds

\* Jobs that are leased and reviewed exist.
JobsAreKnown == \A r \in Runners : granted[r] \cup held[r] \subseteq 1..jobs

\* So do jobs that are listed, and none of them was done by then.
ListsKnown ==
  \A p \in Processes : list[p].jobs \subseteq 1..jobs /\ list[p].open = list[p].jobs

\* A job is waiting for its review or under review, not both.
GrantedOrHeld == \A r \in Runners : granted[r] \cap held[r] \subseteq overridden

\* The row of a job at work is leased or running.
WorkIsActive == \A r \in Runners : \A j \in OwnWork(r) : state[j] \in ActiveStates

\* The inductive invariant.
IInv ==
  /\ TypeOK
  /\ JobsAreKnown
  /\ ListsKnown
  /\ GrantedOrHeld
  /\ WorkIsActive
  /\ HeadReviewedByOne
  /\ CapsRespected

LEMMA TypeParts == TypeOK <=> RowsTyped /\ RunnersTyped
BY DEF TypeOK, RowsTyped, RunnersTyped, RowStates, Processes, Lists

LEMMA WorkingIsOwnWork ==
  ASSUME NEW j
  PROVE  j \in Working <=> \E r \in Runners : j \in OwnWork(r)
BY DEF Working, WorkedOn, OwnWork

LEMMA FiniteJobs ==
  ASSUME NEW S \in SUBSET JobIds
  PROVE  IsFiniteSet(S) /\ Cardinality(S) \in Nat
<1>1. MaxJobs \in Int /\ 1 \in Int
  BY QueueConstants
<1>2. IsFiniteSet(JobIds)
  BY <1>1, FS_Interval DEF JobIds
<1> QED BY <1>2, FS_Subset, FS_CardinalityType

LEMMA FewerJobs ==
  ASSUME NEW S \in SUBSET JobIds, NEW T \in SUBSET S, NEW n \in Nat, Cardinality(S) <= n
  PROVE  Cardinality(T) <= n
<1>1. Cardinality(T) <= Cardinality(S)
  BY FiniteJobs, FS_Subset
<1>2. Cardinality(S) \in Nat /\ Cardinality(T) \in Nat
  BY FiniteJobs
<1> QED BY <1>1, <1>2

\* The jobs counted by the rows after one more of them is leased.
LEMMA OneMoreJob ==
  ASSUME NEW S \in SUBSET JobIds, NEW j \in JobIds, NEW T \in SUBSET (S \cup {j}),
         NEW n \in Nat, Cardinality(S) < n
  PROVE  Cardinality(T) <= n
<1>1. Cardinality(S \cup {j}) <= Cardinality(S) + 1
  BY FiniteJobs, FS_AddElement
<1>2. S \cup {j} \in SUBSET JobIds
  OBVIOUS
<1>3. Cardinality(S) \in Nat /\ Cardinality(S \cup {j}) \in Nat
  BY <1>2, FiniteJobs
<1>4. Cardinality(S \cup {j}) <= n
  BY <1>1, <1>3
<1> QED BY <1>2, <1>4, FewerJobs

-----------------------------------------------------------------------------
(***************************************************************************)
(* The rows.                                                               *)
(***************************************************************************)
LEMMA WriteKeepsRows ==
  ASSUME RowsTyped, NEW S \in SUBSET (1..jobs), NEW s \in RowStates, Write(S, s),
         UNCHANGED identity
  PROVE  RowsTyped'
<1> USE DEF JobIds
<1>1. s \in RowStates /\ s # "absent" /\ jobs \in Nat /\ MaxJobs \in Nat
  BY QueueConstants
     DEF RowsTyped, RowStates, WaitingStates, DeferredStates, ActiveStates, FinalStates
<1>2. jobs' = jobs /\ head' = head /\ class' = class
  BY DEF identity
<1>3. state' \in [JobIds -> {"absent"} \cup RowStates]
  BY DEF RowsTyped, Write
<1>4. due' \in [JobIds -> BOOLEAN]
  BY DEF RowsTyped, Write
<1>5. lease' \in [JobIds -> {"none", "live", "expired"}]
  BY DEF RowsTyped, Write
<1>6. ASSUME NEW j \in JobIds
      PROVE  /\ state'[j] = "absent" <=> j > jobs'
             /\ head'[j] = NoHead <=> j > jobs'
             /\ lease'[j] = "none" <=> state'[j] \notin ActiveStates
             /\ due'[j] => state'[j] \in DeferredStates
  <2>1. CASE j \in S
    <3>1. state'[j] = s /\ state[j] # "absent"
      BY <1>1, <2>1 DEF RowsTyped, Write
    <3>2. ~due'[j]
      BY <2>1 DEF Write
    <3>3. lease'[j] = "none" <=> s \notin ActiveStates
      BY <2>1 DEF Write
    <3> QED BY <1>1, <1>2, <2>1, <3>1, <3>2, <3>3 DEF RowsTyped
  <2>2. CASE j \notin S
    BY <1>1, <1>2, <2>2 DEF RowsTyped, Write
  <2> QED BY <2>1, <2>2
<1> QED BY <1>2, <1>3, <1>4, <1>5, <1>6 DEF RowsTyped

LEMMA InsertKeepsRows ==
  ASSUME RowsTyped, NEW h \in Heads, NEW c \in DOMAIN Rank, Insert(h, c)
  PROVE  /\ RowsTyped'
         /\ jobs' = jobs + 1 /\ jobs' \in JobIds
         /\ \A j \in 1..jobs : state'[j] = state[j] /\ head'[j] = head[j]
<1> USE DEF JobIds, RowStates, WaitingStates, DeferredStates, ActiveStates, FinalStates
<1>1. jobs' = jobs + 1 /\ jobs' \in JobIds /\ jobs \in Nat
  BY QueueConstants DEF RowsTyped, Insert
<1>2. /\ state' = [state EXCEPT ![jobs + 1] = "queued"]
      /\ head' = [head EXCEPT ![jobs + 1] = h]
      /\ class' = [class EXCEPT ![jobs + 1] = c]
      /\ UNCHANGED <<due, lease>>
  BY <1>1 DEF Insert
<1>3. h # NoHead
  BY QueueConstants
<1>4. state[jobs + 1] = "absent" /\ lease[jobs + 1] = "none" /\ ~due[jobs + 1]
  BY <1>1 DEF RowsTyped
<1>5. /\ jobs' \in 0..MaxJobs
      /\ state' \in [JobIds -> {"absent"} \cup RowStates]
      /\ head' \in [JobIds -> Heads \cup {NoHead}]
      /\ class' \in [JobIds -> DOMAIN Rank \cup {"none"}]
      /\ due' \in [JobIds -> BOOLEAN]
      /\ lease' \in [JobIds -> {"none", "live", "expired"}]
  BY <1>1, <1>2, QueueConstants DEF RowsTyped
<1>6. ASSUME NEW j \in JobIds
      PROVE  /\ state'[j] = "absent" <=> j > jobs'
             /\ head'[j] = NoHead <=> j > jobs'
             /\ lease'[j] = "none" <=> state'[j] \notin ActiveStates
             /\ due'[j] => state'[j] \in DeferredStates
  BY <1>1, <1>2, <1>3, <1>4, QueueConstants DEF RowsTyped
<1>7. RowsTyped'
  BY <1>5, <1>6 DEF RowsTyped
<1> QED BY <1>1, <1>2, <1>7, QueueConstants DEF RowsTyped

\* Rows that are looked up by their state or head exist.
LEMMA FoundJobsAreKnown ==
  ASSUME RowsTyped
  PROVE  /\ \A states \in SUBSET RowStates : JobsIn(states) \subseteq 1..jobs
         /\ \A h \in Heads : JobsOf(h) \subseteq 1..jobs
         /\ \A h \in Heads : Unsettled(h) \subseteq 1..jobs
<1>1. jobs \in Nat
  BY QueueConstants DEF RowsTyped
<1>2. "absent" \notin RowStates
  BY DEF RowStates, WaitingStates, DeferredStates, ActiveStates, FinalStates
<1>3. \A states \in SUBSET RowStates : JobsIn(states) \subseteq 1..jobs
  BY <1>1, <1>2, QueueConstants DEF RowsTyped, JobsIn, JobIds
<1>4. \A h \in Heads : JobsOf(h) \subseteq 1..jobs
  BY <1>1, QueueConstants DEF RowsTyped, JobsOf, JobIds
<1> QED BY <1>3, <1>4 DEF Unsettled

-----------------------------------------------------------------------------
(***************************************************************************)
(* Two frames for the steps.  In most of them work only shrinks: it ends,  *)
(* or is taken from its runner.                                            *)
(***************************************************************************)
LEMMA WorkOnlyShrinks ==
  ASSUME IInv, RowsTyped', RunnersTyped', JobsAreKnown', ListsKnown', GrantedOrHeld',
         \A r \in Runners : OwnWork(r)' \subseteq OwnWork(r),
         \A r \in Runners : \A j \in OwnWork(r)' :
           state'[j] \in ActiveStates /\ head'[j] = head[j]
  PROVE  IInv'
<1>1. TypeOK'
  BY DEF TypeOK, RowsTyped, RunnersTyped, RowStates, Processes, Lists
<1>2. WorkIsActive'
  BY DEF WorkIsActive
<1>3. HeadReviewedByOne'
  <2> SUFFICES ASSUME NEW q \in Runners, NEW r \in Runners,
                      NEW j \in OwnWork(q)', NEW k \in OwnWork(r)', head'[j] = head'[k]
               PROVE  j = k /\ q = r
    BY DEF HeadReviewedByOne, OwnWork
  <2>1. j \in OwnWork(q) /\ k \in OwnWork(r) /\ head[j] = head[k]
    OBVIOUS
  <2> QED BY <2>1 DEF IInv, HeadReviewedByOne, OwnWork
<1>4. Working' \subseteq Working
  BY DEF Working, WorkedOn, OwnWork
<1>5. \A j \in Working' : head'[j] = head[j]
  BY DEF Working, WorkedOn, OwnWork
<1>6. Working \in SUBSET JobIds
  BY DEF IInv, TypeOK, Working, WorkedOn
<1>7. Cardinality(Working)' <= MaxActive
  BY <1>4, <1>6, FewerJobs, QueueConstants DEF IInv, CapsRespected
<1>8. ASSUME NEW f, NEW h \in Heads, NEW n \in Nat, Load(Working, f, h) <= n
      PROVE  Load(Working, f, h)' <= n
  <2> DEFINE S == {j \in Working : f[head[j]] = f[h]}
             T == {j \in Working' : f[head'[j]] = f[h]}
  <2>1. T \in SUBSET S /\ S \in SUBSET JobIds
    BY <1>4, <1>5, <1>6
  <2>2. Cardinality(S) <= n
    BY <1>8 DEF Load
  <2>3. Cardinality(T) <= n
    <3> HIDE DEF S, T
    <3> QED BY <2>1, <2>2, FewerJobs
  <2> QED BY <2>3 DEF Load
<1>9. CapsRespected'
  <2> SUFFICES ASSUME NEW h \in Heads
               PROVE  /\ Load(Working, Provider, h)' <= MaxProvider
                      /\ Load(Working, Org, h)' <= MaxOrg
                      /\ Load(Working, Repo, h)' <= MaxRepo
    BY <1>7 DEF CapsRespected
  <2>1. /\ Load(Working, Provider, h) <= MaxProvider
        /\ Load(Working, Org, h) <= MaxOrg
        /\ Load(Working, Repo, h) <= MaxRepo
    BY DEF IInv, CapsRespected
  <2> QED BY <1>8, <2>1, QueueConstants
<1> QED BY <1>1, <1>2, <1>3, <1>9 DEF IInv

\* No batch changes; whatever happens to jobs at work takes them away.
LEMMA BatchesUntouched ==
  ASSUME IInv, RowsTyped', RunnersTyped', UNCHANGED <<granted, held>>,
         overridden \subseteq overridden', jobs <= jobs', ListsKnown',
         \A r \in Runners : \A j \in OwnWork(r) \ overridden' :
           state'[j] \in ActiveStates /\ head'[j] = head[j]
  PROVE  IInv'
<1>1. \A r \in Runners : OwnWork(r)' = OwnWork(r) \ overridden'
  BY DEF OwnWork
<1>2. jobs \in Nat /\ jobs' \in Nat
  BY QueueConstants DEF IInv, TypeOK, RowsTyped
<1>3. \A j : j \in 1..jobs => j \in 1..jobs'
  BY <1>2
<1>4. JobsAreKnown'
  BY <1>3 DEF IInv, JobsAreKnown
<1>5. GrantedOrHeld'
  BY DEF IInv, GrantedOrHeld
<1> QED BY <1>1, <1>4, <1>5, WorkOnlyShrinks

\* Jobs are written, and those at work among them taken from their runner.
LEMMA WriteTakesJobs ==
  ASSUME IInv, RunnersTyped', UNCHANGED <<identity, granted, held>>,
         NEW S \in SUBSET (1..jobs), NEW s \in RowStates, Write(S, s),
         overridden \subseteq overridden',
         \A j \in S : j \in Working => j \in overridden', ListsKnown'
  PROVE  IInv'
<1>1. RowsTyped'
  BY TypeParts, WriteKeepsRows DEF IInv
<1>2. jobs' = jobs /\ head' = head
  BY DEF identity
<1>3. jobs \in Nat
  BY QueueConstants DEF IInv, TypeOK
<1>4. ASSUME NEW r \in Runners, NEW j \in OwnWork(r) \ overridden'
      PROVE  state'[j] \in ActiveStates
  <2>1. j \notin S /\ j \in JobIds
    BY WorkingIsOwnWork DEF IInv, TypeOK, OwnWork
  <2>2. state'[j] = state[j]
    BY <2>1 DEF Write
  <2> QED BY <2>2 DEF IInv, WorkIsActive
<1> QED BY <1>1, <1>2, <1>3, <1>4, BatchesUntouched

\* A runner settles a job that it reviews.
LEMMA DroppedJobIsWritten ==
  ASSUME IInv, RunnersTyped', UNCHANGED <<identity, list>>,
         NEW r \in Runners, NEW j \in JobIds, Drop(r, j),
         NEW S \in SUBSET (1..jobs), NEW s \in RowStates, Write(S, s),
         overridden \subseteq overridden',
         \A k \in S \ {j} : k \in Working => k \in overridden'
  PROVE  IInv'
<1>1. RowsTyped'
  BY TypeParts, WriteKeepsRows DEF IInv
<1>2. jobs' = jobs /\ head' = head /\ list' = list
  BY DEF identity
<1>3. /\ granted' = granted
      /\ held' = [held EXCEPT ![r] = @ \ {j}]
      /\ j \in held[r]
  BY DEF Drop
<1>4. \A q \in Runners : held'[q] = IF q = r THEN held[q] \ {j} ELSE held[q]
  BY <1>3 DEF IInv, TypeOK
<1>5. \A q \in Runners : OwnWork(q)' \subseteq OwnWork(q)
  BY <1>3, <1>4 DEF OwnWork
<1>6. JobsAreKnown' /\ ListsKnown' /\ GrantedOrHeld'
  BY <1>2, <1>3, <1>4 DEF IInv, JobsAreKnown, ListsKnown, GrantedOrHeld
<1>7. ASSUME NEW q \in Runners, NEW k \in OwnWork(q)'
      PROVE  state'[k] \in ActiveStates
  <2>1. k \in OwnWork(q) /\ k \notin overridden' /\ k \notin overridden
    BY <1>5 DEF OwnWork
  <2>2. k # j
    <3> SUFFICES ASSUME k = j PROVE FALSE
      OBVIOUS
    <3>1. j \in OwnWork(r)
      BY <1>3, <2>1 DEF OwnWork
    <3>2. q = r
      BY <2>1, <3>1 DEF IInv, HeadReviewedByOne, OwnWork
    <3>3. j \in granted[r]
      BY <1>3, <1>4, <3>2 DEF OwnWork
    <3> QED BY <1>3, <2>1, <3>3 DEF IInv, GrantedOrHeld
  <2>3. k \notin S /\ k \in JobIds
    BY <2>1, <2>2, WorkingIsOwnWork DEF IInv, TypeOK, OwnWork
  <2>4. state'[k] = state[k]
    BY <2>3 DEF Write
  <2> QED BY <2>1, <2>4 DEF IInv, WorkIsActive
<1> QED BY <1>1, <1>2, <1>5, <1>6, <1>7, WorkOnlyShrinks

-----------------------------------------------------------------------------
(***************************************************************************)
(* The scan.                                                               *)
(***************************************************************************)
LEMMA ListedJobs ==
  ASSUME IInv, NEW p \in Processes, NEW S \in SUBSET JobIds, S \cap Done = {},
         NEW to \in SUBSET (WaitingStates \cup FinalStates), WillWrite(p, S, to),
         jobs' \in Nat, jobs <= jobs', S \subseteq 1..jobs'
  PROVE  list' \in [Processes -> Lists] /\ ListsKnown'
<1> DEFINE new == IF S = {} THEN NoList ELSE [jobs |-> S, to |-> to, open |-> S \ Done]
<1>1. new \in Lists /\ new.jobs = S /\ new.open = S
  BY DEF NoList, Lists
<1>2. list \in [Processes -> Lists] /\ jobs \in Nat
  BY TypeParts, QueueConstants DEF IInv, RowsTyped, RunnersTyped
<1>3. list' = [list EXCEPT ![p] = new]
  BY DEF WillWrite
<1> HIDE DEF new
<1>4. list' \in [Processes -> Lists]
  BY <1>1, <1>2, <1>3
<1>5. \A q \in Processes : list'[q] = IF q = p THEN new ELSE list[q]
  BY <1>2, <1>3
<1>6. \A k : k \in 1..jobs => k \in 1..jobs'
  BY <1>2
<1>7. ListsKnown'
  BY <1>1, <1>5, <1>6 DEF IInv, ListsKnown
<1> QED BY <1>4, <1>7

\* The same of jobs that were there already.
LEMMA ListedOldJobs ==
  ASSUME IInv, NEW p \in Processes, NEW S \in SUBSET (1..jobs), S \cap Done = {},
         NEW to \in SUBSET (WaitingStates \cup FinalStates), WillWrite(p, S, to),
         UNCHANGED identity
  PROVE  list' \in [Processes -> Lists] /\ ListsKnown'
<1>1. jobs \in Nat /\ jobs' = jobs /\ S \subseteq JobIds
  BY QueueConstants DEF IInv, TypeOK, identity, JobIds
<1> QED BY <1>1, ListedJobs

LEMMA SameLists ==
  ASSUME IInv, UNCHANGED <<list, jobs>>
  PROVE  ListsKnown'
BY DEF IInv, ListsKnown

\* What is listed is not done.
LEMMA ListedIsOpen ==
  /\ JobsIn(WaitingStates) \cap Done = {} /\ Eligible \cap Done = {}
  /\ \A h : Unsettled(h) \cap Done = {} /\ RetryTargets(h) \cap Done = {}
BY DEF Done, JobsIn, Eligible, Unsettled, RetryTargets, WaitingStates, DeferredStates, ActiveStates

\* A job is inserted; batches are as they were.
LEMMA InsertStep ==
  ASSUME IInv, NEW h \in Heads, NEW c \in DOMAIN Rank, Insert(h, c),
         NEW r \in Runners, NEW to \in SUBSET (WaitingStates \cup FinalStates),
         UNCHANGED list \/ WillWrite(r, {jobs'}, to),
         pending' \in [Runners -> [head : Heads \cup {NoHead}, first : BOOLEAN]],
         UNCHANGED <<txnVars, batchVars, pc, overridden>>
  PROVE  IInv'
<1>1. RowsTyped /\ RunnersTyped
  BY TypeParts DEF IInv
<1>2. /\ RowsTyped'
      /\ jobs' = jobs + 1 /\ jobs' \in JobIds
      /\ \A j \in 1..jobs : state'[j] = state[j] /\ head'[j] = head[j]
  BY <1>1, InsertKeepsRows
<1>3. jobs \in Nat
  BY <1>1, QueueConstants DEF RowsTyped
<1>4. list' \in [Processes -> Lists] /\ ListsKnown'
  <2>1. CASE UNCHANGED list
    <3>1. \A k : k \in 1..jobs => k \in 1..jobs'
      BY <1>2, <1>3
    <3> QED BY <1>1, <2>1, <3>1 DEF IInv, RunnersTyped, ListsKnown
  <2>2. CASE WillWrite(r, {jobs'}, to)
    <3>1. state[jobs'] = "absent"
      BY <1>1, <1>2, <1>3 DEF RowsTyped
    <3>2. {jobs'} \cap Done = {}
      BY <3>1 DEF Done, JobsIn
    <3>3. jobs' \in Nat /\ jobs <= jobs' /\ {jobs'} \subseteq 1..jobs'
      BY <1>2, <1>3
    <3>4. {jobs'} \in SUBSET JobIds /\ r \in Processes
      BY <1>2 DEF Processes
    <3> QED BY <2>2, <3>2, <3>3, <3>4, ListedJobs
  <2> QED BY <2>1, <2>2
<1>5. rescued' \in 0..jobs'
  BY <1>1, <1>2, <1>3 DEF RunnersTyped, txnVars
<1>6. RunnersTyped'
  BY <1>1, <1>4, <1>5 DEF RunnersTyped, txnVars, batchVars
<1>7. \A q \in Runners : \A j \in OwnWork(q) :
         state'[j] \in ActiveStates /\ head'[j] = head[j]
  BY <1>2 DEF IInv, WorkIsActive, JobsAreKnown, OwnWork
<1> QED BY <1>2, <1>3, <1>4, <1>6, <1>7, BatchesUntouched DEF batchVars

LEMMA EnqueueManualStep ==
  ASSUME IInv, NEW r \in Runners, NEW h \in Heads, EnqueueManual(r, h)
  PROVE  IInv'
<1>1. "manual" \in DOMAIN Rank
  BY DEF Rank
<1>2. pending' \in [Runners -> [head : Heads \cup {NoHead}, first : BOOLEAN]]
  BY DEF EnqueueManual, IInv, TypeOK
<1>3. {"retired"} \in SUBSET (WaitingStates \cup FinalStates)
  BY DEF FinalStates
<1> QED BY <1>1, <1>2, <1>3, InsertStep DEF EnqueueManual

\* What concerns only the rows and the batches is as it was.
LEMMA RowsAndBatchesUntouched ==
  ASSUME IInv, RunnersTyped', UNCHANGED <<jobVars, identity, granted, held, overridden>>,
         ListsKnown'
  PROVE  IInv'
<1>1. RowsTyped'
  BY TypeParts DEF IInv, RowsTyped, jobVars, identity
<1>2. jobs \in Nat
  BY QueueConstants DEF IInv, TypeOK
<1>3. jobs <= jobs' /\ jobs' = jobs /\ state' = state /\ head' = head
  BY <1>2 DEF jobVars, identity
<1> QED BY <1>1, <1>3, BatchesUntouched DEF IInv, WorkIsActive

LEMMA DecideAutomaticStep ==
  ASSUME IInv, NEW r \in Runners, NEW h \in Heads, DecideAutomatic(r, h)
  PROVE  IInv'
<1>1. pending' \in [Runners -> [head : Heads \cup {NoHead}, first : BOOLEAN]]
  BY DEF DecideAutomatic, IInv, TypeOK
<1>2. RunnersTyped'
  BY <1>1, TypeParts DEF DecideAutomatic, IInv, RunnersTyped, txnVars, batchVars, identity
<1> QED BY <1>2, SameLists, RowsAndBatchesUntouched DEF DecideAutomatic, identity, batchVars

LEMMA EnqueueAutomaticStep ==
  ASSUME IInv, NEW r \in Runners, EnqueueAutomatic(r)
  PROVE  IInv'
<1> DEFINE h == pending[r].head
<1>1. h \in Heads
  BY DEF EnqueueAutomatic, IInv, TypeOK
<1>2. pending' \in [Runners -> [head : Heads \cup {NoHead}, first : BOOLEAN]]
  BY DEF EnqueueAutomatic, IInv, TypeOK, NoPending
<1>3. UNCHANGED <<txnVars, batchVars, pc, overridden>>
  BY DEF EnqueueAutomatic
<1>4. CASE /\ Insert(h, AutoClass[h])
           /\ UNCHANGED list \/ WillWrite(r, {jobs'}, {"provider_deferred"})
  <2>1. AutoClass[h] \in DOMAIN Rank
    BY <1>1, QueueConstants DEF Rank
  <2>2. {"provider_deferred"} \in SUBSET (WaitingStates \cup FinalStates)
    BY DEF WaitingStates, DeferredStates
  <2> QED BY <1>1, <1>2, <1>3, <1>4, <2>1, <2>2, InsertStep
<1>5. CASE /\ \E j \in AutomaticJobs(h) \cap Unsettled(h) :
                UNCHANGED list \/ WillWrite(r, {j}, {"provider_deferred"})
           /\ UNCHANGED <<jobVars, identity>>
  <2>1. PICK j \in AutomaticJobs(h) \cap Unsettled(h) :
               UNCHANGED list \/ WillWrite(r, {j}, {"provider_deferred"})
    BY <1>5
  <2>2. j \in 1..jobs /\ {j} \cap Done = {}
    BY <1>1, FoundJobsAreKnown, ListedIsOpen, TypeParts DEF IInv, Unsettled
  <2>3. list' \in [Processes -> Lists] /\ ListsKnown'
    <3>1. CASE UNCHANGED list
      BY <1>5, <3>1, SameLists, TypeParts DEF IInv, RunnersTyped, identity
    <3>2. CASE WillWrite(r, {j}, {"provider_deferred"})
      <4>1. {"provider_deferred"} \in SUBSET (WaitingStates \cup FinalStates)
        BY DEF WaitingStates, DeferredStates
      <4> QED BY <1>5, <2>2, <3>2, <4>1, ListedOldJobs DEF Processes
    <3> QED BY <2>1, <3>1, <3>2
  <2>4. RunnersTyped'
    BY <1>2, <1>3, <1>5, <2>3, TypeParts DEF IInv, RunnersTyped, txnVars, batchVars, identity
  <2> QED BY <1>3, <1>5, <2>3, <2>4, RowsAndBatchesUntouched DEF batchVars
<1>6. CASE UNCHANGED <<jobVars, identity, list>>
  <2>1. RunnersTyped'
    BY <1>2, <1>3, <1>6, TypeParts DEF IInv, RunnersTyped, txnVars, batchVars, identity
  <2> QED BY <1>3, <1>6, <2>1, SameLists, RowsAndBatchesUntouched DEF batchVars, identity
<1> QED BY <1>4, <1>5, <1>6 DEF EnqueueAutomatic

\* Listing jobs changes nothing else.
LEMMA ListingStep ==
  ASSUME IInv, NEW p \in Processes, NEW S \in SUBSET (1..jobs), S \cap Done = {},
         NEW to \in SUBSET (WaitingStates \cup FinalStates), WillWrite(p, S, to),
         UNCHANGED <<jobVars, identity, txnVars, batchVars, pc, pending, overridden>>
  PROVE  IInv'
<1>1. list' \in [Processes -> Lists] /\ ListsKnown'
  BY ListedOldJobs
<1>2. RunnersTyped'
  BY <1>1, TypeParts DEF IInv, RunnersTyped, txnVars, batchVars, identity
<1> QED BY <1>1, <1>2, RowsAndBatchesUntouched DEF batchVars

LEMMA ReadSupersededStep ==
  ASSUME IInv, NEW r \in Runners, NEW h \in Heads, ReadSuperseded(r, h)
  PROVE  IInv'
<1> DEFINE S == JobsOf(h) \cap JobsIn(WaitingStates)
<1>1. S \in SUBSET (1..jobs) /\ S \cap Done = {}
  BY FoundJobsAreKnown, ListedIsOpen, TypeParts DEF IInv
<1>2. {"retired"} \in SUBSET (WaitingStates \cup FinalStates)
  BY DEF FinalStates
<1> QED BY <1>1, <1>2, ListingStep DEF ReadSuperseded, Processes

LEMMA WriteListedStep ==
  ASSUME IInv, NEW p \in Processes, NEW j \in JobIds, WriteListed(p, j)
  PROVE  IInv'
<1> DEFINE l == list[p]
           new == IF l.jobs = {j} THEN NoList
                  ELSE [jobs |-> l.jobs \ {j}, to |-> l.to, open |-> l.open \ {j}]
<1>1. list \in [Processes -> Lists] /\ l \in Lists
  BY TypeParts DEF IInv, RunnersTyped
<1>2. PICK s \in l.to : Write({j}, s)
  BY DEF WriteListed
<1>3. j \in 1..jobs /\ s \in RowStates
  BY <1>1 DEF WriteListed, IInv, ListsKnown, Lists, RowStates
<1>4. /\ overridden' = overridden \cup ({j} \cap (WorkedOn \cup (Done \cap l.open)))
      /\ UNCHANGED <<identity, txnVars, batchVars, pc, pending>>
      /\ list' = [list EXCEPT ![p] = new]
  BY DEF WriteListed, Override
<1>5. new \in Lists /\ new.jobs \subseteq l.jobs /\ (l.open = l.jobs => new.open = new.jobs)
  BY <1>1 DEF Lists, NoList
<1> HIDE DEF new, l
<1>6. /\ list' \in [Processes -> Lists]
      /\ \A q \in Processes : list'[q] = IF q = p THEN new ELSE list[q]
  BY <1>1, <1>4, <1>5
<1>7. ListsKnown'
  BY <1>4, <1>5, <1>6 DEF IInv, ListsKnown, identity, l
<1>8. RunnersTyped'
  BY <1>4, <1>6, TypeParts DEF IInv, RunnersTyped, txnVars, batchVars, identity
<1>9. \A k \in {j} : k \in Working => k \in overridden'
  BY <1>4 DEF Working
<1> QED BY <1>2, <1>3, <1>4, <1>7, <1>8, <1>9, WriteTakesJobs DEF batchVars

-----------------------------------------------------------------------------
(***************************************************************************)
(* The lease transaction.  All that grows the work is an admission, and it *)
(* counted every row that is leased or running, WorkIsActive's among them. *)
(***************************************************************************)
LEMMA BeginLeaseStep ==
  ASSUME IInv, NEW r \in Runners, BeginLease(r)
  PROVE  IInv'
<1> DEFINE S == {j \in JobsIn(ActiveStates) : lease[j] = "expired"}
<1>1. S \in SUBSET (1..jobs) /\ S \in SUBSET JobIds
  BY FoundJobsAreKnown, TypeParts DEF IInv, RowStates, JobsIn
<1>2. Write(S, "queued") /\ overridden' = overridden \cup (S \cap WorkedOn)
  BY DEF BeginLease, Override
<1>3. RunnersTyped'
  <2>1. jobs \in Nat /\ jobs' = jobs /\ rescued' \in (IF Aging THEN 0..jobs ELSE {0})
    BY QueueConstants DEF BeginLease, IInv, TypeOK, identity
  <2>2. rescued' \in 0..jobs'
    BY <2>1
  <2> QED BY <1>1, <1>2, <2>2, TypeParts DEF BeginLease, IInv, RunnersTyped, batchVars
<1>4. \A j \in S : j \in Working => j \in overridden'
  BY <1>2 DEF Working
<1>5. "queued" \in RowStates
  BY DEF RowStates, WaitingStates
<1>6. ListsKnown'
  BY SameLists DEF BeginLease, identity
<1> HIDE DEF S
<1> QED BY <1>1, <1>2, <1>3, <1>4, <1>5, <1>6, WriteTakesJobs DEF BeginLease, batchVars

LEMMA EligibleJobsWait ==
  ASSUME NEW j \in Candidates
  PROVE  j \in JobIds /\ state[j] \in WaitingStates /\ state[j] \notin ActiveStates
BY DEF Candidates, Eligible, JobsIn, WaitingStates, DeferredStates, ActiveStates

\* Every job at work is among those that the transaction counts.
LEMMA WorkIsCounted ==
  ASSUME IInv
  PROVE  Working \subseteq JobsIn(ActiveStates)
BY WorkingIsOwnWork DEF IInv, WorkIsActive, TypeOK, JobsIn, OwnWork

LEMMA AdmitStep ==
  ASSUME IInv, NEW r \in Runners, NEW j \in JobIds, Consider(r, j), Admissible(j),
         Write({j}, "leased"), granted' = [granted EXCEPT ![r] = @ \cup {j}],
         UNCHANGED skipped
  PROVE  IInv'
<1> DEFINE A == JobsIn(ActiveStates)
<1>1. /\ j \in 1..jobs
      /\ head[j] \in Heads
      /\ j \notin Working
  <2>1. j \in Candidates
    BY DEF Consider, IsNext
  <2>2. state[j] \in WaitingStates /\ state[j] \notin ActiveStates
    BY <2>1, EligibleJobsWait
  <2>3. j \in 1..jobs
    BY <2>2, FoundJobsAreKnown, TypeParts DEF IInv, RowStates, JobsIn
  <2>4. head[j] \in Heads
    BY <2>3, QueueConstants DEF IInv, TypeOK
  <2> QED BY <2>2, <2>3, <2>4, WorkIsCounted DEF JobsIn
<1>2. /\ jobs' = jobs /\ head' = head /\ list' = list
      /\ held' = held /\ overridden' = overridden
  BY DEF Consider, identity, cycleVars
<1>3. \A q \in Runners : granted'[q] = IF q = r THEN granted[q] \cup {j} ELSE granted[q]
  BY DEF IInv, TypeOK
<1>4. ASSUME NEW q \in Runners
      PROVE  OwnWork(q)' \subseteq OwnWork(q) \cup (IF q = r THEN {j} ELSE {})
  BY <1>2, <1>3 DEF OwnWork
<1>5. "leased" \in RowStates /\ "leased" \in ActiveStates
  BY DEF RowStates, ActiveStates
<1>6. RowsTyped'
  BY <1>1, <1>5, TypeParts, WriteKeepsRows DEF IInv, Consider
<1>7. RunnersTyped'
  <2>1. granted' \in [Runners -> SUBSET JobIds]
    BY DEF IInv, TypeOK
  <2> QED BY <1>2, <2>1, TypeParts DEF Consider, IInv, RunnersTyped, cycleVars
<1>8. TypeOK' /\ ListsKnown'
  BY <1>2, <1>6, <1>7, SameLists DEF TypeOK, RowsTyped, RunnersTyped, RowStates, Processes, Lists
<1>9. JobsAreKnown'
  BY <1>1, <1>2, <1>3 DEF IInv, JobsAreKnown
<1>10. GrantedOrHeld'
  BY <1>1, <1>2, <1>3 DEF IInv, GrantedOrHeld, Working, WorkedOn
<1>11. WorkIsActive'
  <2> SUFFICES ASSUME NEW q \in Runners, NEW k \in OwnWork(q)'
               PROVE  state'[k] \in ActiveStates
    BY DEF WorkIsActive
  <2>1. k \in JobIds
    BY <1>8 DEF TypeOK, OwnWork
  <2>2. state'[k] = IF k = j THEN "leased" ELSE state[k]
    BY <2>1 DEF Write
  <2>3. k # j => k \in OwnWork(q)
    BY <1>4
  <2> QED BY <1>5, <2>2, <2>3 DEF IInv, WorkIsActive
<1>12. \A k \in Working : head[k] # head[j]
  BY WorkIsCounted DEF Admissible, HasRoom, HeadActive
<1>13. HeadReviewedByOne'
  <2> SUFFICES ASSUME NEW p \in Runners, NEW q \in Runners,
                      NEW k \in OwnWork(p)', NEW l \in OwnWork(q)', head[k] = head[l]
               PROVE  k = l /\ p = q
    BY <1>2 DEF HeadReviewedByOne, OwnWork
  <2>1. CASE k \in OwnWork(p) /\ l \in OwnWork(q)
    BY <2>1 DEF IInv, HeadReviewedByOne, OwnWork
  <2>2. CASE k \notin OwnWork(p)
    <3>1. k = j /\ p = r
      BY <1>4, <2>2
    <3>2. l \notin OwnWork(q)
      BY <1>12, <3>1, WorkingIsOwnWork
    <3>3. l = j /\ q = r
      BY <1>4, <3>2
    <3> QED BY <3>1, <3>3
  <2>3. CASE l \notin OwnWork(q)
    <3>1. l = j /\ q = r
      BY <1>4, <2>3
    <3>2. k \notin OwnWork(p)
      BY <1>12, <3>1, WorkingIsOwnWork
    <3>3. k = j /\ p = r
      BY <1>4, <3>2
    <3> QED BY <3>1, <3>3
  <2> QED BY <2>1, <2>2, <2>3
<1>14. Working' \subseteq Working \cup {j}
  BY <1>2, <1>3 DEF Working, WorkedOn
<1>15. Working \subseteq A /\ A \in SUBSET JobIds /\ Working \in SUBSET JobIds
  BY WorkIsCounted DEF JobsIn
<1>16. Cardinality(Working)' <= MaxActive
  <2>1. Cardinality(A) < MaxActive
    BY <1>15, FiniteJobs, QueueConstants DEF Consider, Full
  <2>2. Working' \in SUBSET (A \cup {j})
    BY <1>14, <1>15
  <2> HIDE DEF A
  <2> QED BY <1>15, <2>1, <2>2, OneMoreJob, QueueConstants
\* One limit: the head's own group grows by one, the others not at all.
<1>17. ASSUME NEW f, NEW h \in Heads, NEW n \in Nat,
              Load(A, f, head[j]) < n, Load(Working, f, h) <= n
       PROVE  Load(Working, f, h)' <= n
  <2> DEFINE T == {k \in Working' : f[head[k]] = f[h]}
             Own == {k \in Working : f[head[k]] = f[h]}
             All == {k \in A : f[head[k]] = f[head[j]]}
  <2>1. Load(Working, f, h)' = Cardinality(T)
    BY <1>2 DEF Load
  <2>2. CASE f[head[j]] = f[h]
    <3>1. All \in SUBSET JobIds /\ T \in SUBSET (All \cup {j})
      BY <1>14, <1>15, <2>2
    <3>2. Cardinality(All) < n
      BY <1>17 DEF Load
    <3> HIDE DEF All, T
    <3>3. Cardinality(T) <= n
      BY <3>1, <3>2, OneMoreJob
    <3> QED BY <2>1, <3>3
  <2>3. CASE f[head[j]] # f[h]
    <3>1. Own \in SUBSET JobIds /\ T \in SUBSET Own
      BY <1>14, <1>15, <2>3
    <3>2. Cardinality(Own) <= n
      BY <1>17 DEF Load
    <3> HIDE DEF Own, T
    <3>3. Cardinality(T) <= n
      BY <3>1, <3>2, FewerJobs
    <3> QED BY <2>1, <3>3
  <2> QED BY <2>2, <2>3
<1>18. CapsRespected'
  <2> SUFFICES ASSUME NEW h \in Heads
               PROVE  /\ Load(Working, Provider, h)' <= MaxProvider
                      /\ Load(Working, Org, h)' <= MaxOrg
                      /\ Load(Working, Repo, h)' <= MaxRepo
    BY <1>16 DEF CapsRespected
  <2>1. /\ Load(A, Provider, head[j]) < MaxProvider
        /\ Load(A, Org, head[j]) < MaxOrg
        /\ Load(A, Repo, head[j]) < MaxRepo
    BY DEF Admissible, HasRoom, ProviderLoad
  <2>2. /\ Load(Working, Provider, h) <= MaxProvider
        /\ Load(Working, Org, h) <= MaxOrg
        /\ Load(Working, Repo, h) <= MaxRepo
    BY DEF IInv, CapsRespected
  <2>3. MaxProvider \in Nat /\ MaxOrg \in Nat /\ MaxRepo \in Nat
    BY QueueConstants
  <2> HIDE DEF A
  <2> QED BY <1>17, <2>1, <2>2, <2>3
<1> QED BY <1>8, <1>9, <1>10, <1>11, <1>13, <1>18 DEF IInv

LEMMA ConsiderStep ==
  ASSUME IInv, NEW r \in Runners, NEW j \in JobIds, Consider(r, j)
  PROVE  IInv'
<1>1. CASE ~Admissible(j)
  <2>1. skipped' = skipped \cup {j} /\ UNCHANGED <<jobVars, granted>>
    BY <1>1 DEF Consider
  <2>2. RunnersTyped'
    BY <2>1, TypeParts DEF Consider, IInv, RunnersTyped, cycleVars, identity
  <2> QED BY <2>1, <2>2, SameLists, RowsAndBatchesUntouched DEF Consider, cycleVars, identity
<1> QED BY <1>1, AdmitStep DEF Consider

LEMMA CommitLeaseStep ==
  ASSUME IInv, NEW r \in Runners, CommitLease(r)
  PROVE  IInv'
<1>1. 0 \in 0..jobs
  BY QueueConstants DEF IInv, TypeOK
<1>2. RunnersTyped'
  BY <1>1, TypeParts DEF CommitLease, IInv, RunnersTyped, batchVars, identity
<1> QED BY <1>2, SameLists, RowsAndBatchesUntouched DEF CommitLease, batchVars, identity

-----------------------------------------------------------------------------
(***************************************************************************)
(* The batch.                                                              *)
(***************************************************************************)
LEMMA MarkRunningStep ==
  ASSUME IInv, NEW r \in Runners, NEW j \in JobIds, MarkRunning(r, j)
  PROVE  IInv'
<1>1. /\ j \in granted[r] \cup held[r]
      /\ Write({j}, "running")
      /\ granted' = [granted EXCEPT ![r] = @ \ {j}]
      /\ held' = [held EXCEPT ![r] = @ \cup {j}]
      /\ UNCHANGED <<identity, txnVars, throttled, cycleVars, overridden>>
  BY DEF MarkRunning
<1>2. /\ granted' \in [Runners -> SUBSET JobIds]
      /\ held' \in [Runners -> SUBSET JobIds]
      /\ \A q \in Runners : /\ granted'[q] = IF q = r THEN granted[q] \ {j} ELSE granted[q]
                            /\ held'[q] = IF q = r THEN held[q] \cup {j} ELSE held[q]
  BY <1>1 DEF IInv, TypeOK
<1>3. j \in 1..jobs
  BY <1>1 DEF IInv, JobsAreKnown
<1>4. "running" \in RowStates /\ "running" \in ActiveStates
  BY DEF RowStates, ActiveStates
<1>5. RowsTyped'
  BY <1>1, <1>3, <1>4, TypeParts, WriteKeepsRows DEF IInv
<1>6. RunnersTyped'
  BY <1>1, <1>2, TypeParts DEF IInv, RunnersTyped, txnVars, cycleVars, identity
<1>7. JobsAreKnown' /\ ListsKnown'
  BY <1>1, <1>2, <1>3, SameLists DEF IInv, JobsAreKnown, cycleVars, identity
<1>8. GrantedOrHeld'
  BY <1>1, <1>2 DEF IInv, GrantedOrHeld
<1>9. \A q \in Runners : OwnWork(q)' \subseteq OwnWork(q)
  BY <1>1, <1>2 DEF OwnWork
<1>10. ASSUME NEW q \in Runners, NEW k \in OwnWork(q)'
       PROVE  state'[k] \in ActiveStates /\ head'[k] = head[k]
  <2>1. k \in JobIds /\ k \in OwnWork(q)
    BY <1>9 DEF IInv, TypeOK, OwnWork
  <2>2. state'[k] = IF k = j THEN "running" ELSE state[k]
    BY <1>1, <2>1 DEF Write
  <2> QED BY <1>1, <1>4, <2>1, <2>2 DEF IInv, WorkIsActive, identity
<1> QED BY <1>5, <1>6, <1>7, <1>8, <1>9, <1>10, WorkOnlyShrinks

LEMMA HeldJobIsKnown ==
  ASSUME IInv, NEW r \in Runners, NEW j \in JobIds, Drop(r, j)
  PROVE  /\ j \in 1..jobs /\ head[j] \in Heads
         /\ granted' \in [Runners -> SUBSET JobIds] /\ held' \in [Runners -> SUBSET JobIds]
<1>1. j \in 1..jobs
  BY DEF IInv, JobsAreKnown, Drop
<1>2. head[j] \in Heads
  BY <1>1, QueueConstants DEF IInv, TypeOK
<1> QED BY <1>1, <1>2 DEF IInv, TypeOK, Drop

LEMMA SettleSiblingsStep ==
  ASSUME IInv, NEW r \in Runners, NEW j \in JobIds, SettleSiblings(r, j)
  PROVE  IInv'
<1> DEFINE S == Unsettled(head[j]) \ {j}
<1>1. Unsettled(head[j]) \in SUBSET (1..jobs)
  <2>1. j \in 1..jobs
    BY DEF SettleSiblings, IInv, JobsAreKnown
  <2>2. head[j] \in Heads
    BY <2>1, QueueConstants DEF IInv, TypeOK
  <2> QED BY <2>2, FoundJobsAreKnown, TypeParts DEF IInv
<1>2. S \in SUBSET (1..jobs) /\ S \cap Done = {}
  BY <1>1, ListedIsOpen
<1>3. {"posted"} \in SUBSET (WaitingStates \cup FinalStates)
  BY DEF FinalStates
<1> QED BY <1>2, <1>3, ListingStep DEF SettleSiblings, Processes

LEMMA PostedStep ==
  ASSUME IInv, NEW r \in Runners, NEW j \in JobIds, Posted(r, j)
  PROVE  IInv'
<1>1. /\ Drop(r, j) /\ Write({j}, "posted")
      /\ UNCHANGED <<identity, txnVars, throttled, cycleVars, overridden>>
  BY DEF Posted
<1>2. "posted" \in RowStates
  BY DEF RowStates, FinalStates
<1>3. {j} \in SUBSET (1..jobs)
  BY <1>1, HeldJobIsKnown
<1>4. RunnersTyped'
  BY <1>1, HeldJobIsKnown, TypeParts DEF IInv, RunnersTyped, txnVars, cycleVars, identity
<1> QED BY <1>1, <1>2, <1>3, <1>4, DroppedJobIsWritten DEF cycleVars

LEMMA SettledStep ==
  ASSUME IInv, NEW r \in Runners, NEW j \in JobIds, NEW s, Settled(r, j, s)
  PROVE  IInv'
<1>1. /\ Drop(r, j) /\ Write({j}, s)
      /\ s \in {"failed", "retired", "blocked_on_proof", "queued"}
      /\ UNCHANGED <<identity, txnVars, throttled, cycleVars, overridden>>
  BY DEF Settled
<1>2. s \in RowStates
  BY <1>1 DEF RowStates, FinalStates, WaitingStates, DeferredStates
<1>3. {j} \in SUBSET (1..jobs)
  BY <1>1, HeldJobIsKnown
<1>4. RunnersTyped'
  BY <1>1, HeldJobIsKnown, TypeParts DEF IInv, RunnersTyped, txnVars, cycleVars, identity
<1> QED BY <1>1, <1>2, <1>3, <1>4, DroppedJobIsWritten DEF cycleVars

LEMMA DeferredStep ==
  ASSUME IInv, NEW r \in Runners, NEW j \in JobIds, Deferred(r, j)
  PROVE  IInv'
<1>1. /\ Drop(r, j) /\ Write({j}, "provider_deferred")
      /\ throttled' = [throttled EXCEPT ![r] = @ \cup {Provider[head[j]]}]
      /\ UNCHANGED <<identity, txnVars, cycleVars, overridden>>
  BY DEF Deferred
<1>2. "provider_deferred" \in RowStates
  BY DEF RowStates, WaitingStates, DeferredStates
<1>3. {j} \in SUBSET (1..jobs) /\ head[j] \in Heads
  BY <1>1, HeldJobIsKnown
<1>4. throttled' \in [Runners -> SUBSET {Provider[h] : h \in Heads}]
  BY <1>1, <1>3 DEF IInv, TypeOK
<1>5. RunnersTyped'
  BY <1>1, <1>4, HeldJobIsKnown, TypeParts
     DEF IInv, RunnersTyped, txnVars, cycleVars, identity
<1> QED BY <1>1, <1>2, <1>3, <1>5, DroppedJobIsWritten DEF cycleVars

\* Runners give up jobs without a word to the table.
LEMMA WorkGivenUp ==
  ASSUME IInv, RunnersTyped', UNCHANGED <<jobVars, identity, overridden>>,
         ListsKnown',
         \A r \in Runners : granted'[r] \subseteq granted[r] /\ held'[r] \subseteq held[r]
  PROVE  IInv'
<1>1. RowsTyped'
  BY TypeParts DEF IInv, RowsTyped, jobVars, identity
<1>2. \A r \in Runners : OwnWork(r)' \subseteq OwnWork(r)
  BY DEF OwnWork
<1>3. JobsAreKnown' /\ GrantedOrHeld'
  BY DEF IInv, JobsAreKnown, GrantedOrHeld, identity
<1>4. \A r \in Runners : \A j \in OwnWork(r)' :
         state'[j] \in ActiveStates /\ head'[j] = head[j]
  BY <1>2 DEF IInv, WorkIsActive, jobVars, identity
<1> QED BY <1>1, <1>2, <1>3, <1>4, WorkOnlyShrinks

LEMMA AbandonStep ==
  ASSUME IInv, NEW r \in Runners, NEW j \in JobIds, Abandon(r, j)
  PROVE  IInv'
<1>1. RunnersTyped'
  BY TypeParts DEF Abandon, IInv, RunnersTyped, txnVars, cycleVars, identity
<1>2. \A q \in Runners : granted'[q] \subseteq granted[q] /\ held'[q] \subseteq held[q]
  BY DEF Abandon, IInv, TypeOK
<1> QED BY <1>1, <1>2, SameLists, WorkGivenUp DEF Abandon, cycleVars, identity

LEMMA CrashStep ==
  ASSUME IInv, NEW r \in Runners, Crash(r)
  PROVE  IInv'
<1>1. /\ NoPending \in [head : Heads \cup {NoHead}, first : BOOLEAN]
      /\ NoList \in Lists /\ NoList.jobs = {} /\ NoList.open = {}
  BY DEF NoPending, NoList, Lists
<1>2. RunnersTyped'
  BY <1>1, TypeParts DEF Crash, IInv, RunnersTyped, txnVars, identity
<1>3. \A q \in Runners : granted'[q] \subseteq granted[q] /\ held'[q] \subseteq held[q]
  BY DEF Crash, IInv, TypeOK
<1>4. ListsKnown'
  <2>1. \A q \in Processes : list'[q] = IF q = r THEN NoList ELSE list[q]
    BY TypeParts DEF Crash, IInv, RunnersTyped
  <2> QED BY <1>1, <2>1 DEF Crash, IInv, ListsKnown, identity
<1> QED BY <1>2, <1>3, <1>4, WorkGivenUp DEF Crash

LEMMA EndBatchStep ==
  ASSUME IInv, NEW r \in Runners, EndBatch(r)
  PROVE  IInv'
<1> DEFINE S == {j \in Eligible : class[j] # "manual" /\ Provider[head[j]] \in throttled[r]}
<1>1. WillWrite(r, S, {"provider_deferred"})
  BY DEF EndBatch
<1>2. Eligible \subseteq 1..jobs /\ Eligible \subseteq JobIds
  <2>1. Eligible \subseteq JobsIn(WaitingStates)
    BY DEF Eligible, JobsIn, WaitingStates
  <2>2. JobsIn(WaitingStates) \subseteq 1..jobs
    BY FoundJobsAreKnown, TypeParts DEF IInv, RowStates
  <2> QED BY <2>1, <2>2 DEF JobsIn
<1>3. /\ S \in SUBSET (1..jobs) /\ S \cap Done = {}
      /\ {"provider_deferred"} \in SUBSET (WaitingStates \cup FinalStates)
  BY <1>2, ListedIsOpen DEF WaitingStates, DeferredStates
<1> HIDE DEF S
<1>4. list' \in [Processes -> Lists] /\ ListsKnown'
  BY <1>1, <1>3, ListedOldJobs DEF EndBatch, Processes
<1>5. RunnersTyped'
  BY <1>4, TypeParts DEF EndBatch, IInv, RunnersTyped, txnVars, identity
<1> QED BY <1>4, <1>5, RowsAndBatchesUntouched DEF EndBatch

LEMMA EndCycleStep ==
  ASSUME IInv, NEW r \in Runners, EndCycle(r)
  PROVE  IInv'
<1>1. RunnersTyped'
  BY TypeParts DEF EndCycle, IInv, RunnersTyped, txnVars, batchVars, identity
<1> QED BY <1>1, SameLists, RowsAndBatchesUntouched DEF EndCycle, batchVars, identity

LEMMA CycleStepKeepsInv ==
  ASSUME IInv, NEW r \in Runners, CycleStep(r)
  PROVE  IInv'
BY EnqueueManualStep, DecideAutomaticStep, ReadSupersededStep, EnqueueAutomaticStep,
   WriteListedStep, BeginLeaseStep, MarkRunningStep, SettleSiblingsStep, PostedStep,
   DeferredStep, AbandonStep, SettledStep, EndBatchStep, EndCycleStep, CrashStep
   DEF CycleStep, Processes

-----------------------------------------------------------------------------
(***************************************************************************)
(* Operators and time.                                                     *)
(***************************************************************************)
LEMMA ToolStepKeepsInv ==
  ASSUME IInv, NEW o \in Tools, ToolStep(o)
  PROVE  IInv'
<1>1. o \in Processes /\ RowsTyped
  BY TypeParts DEF Processes, IInv
<1>2. ASSUME NEW h \in Heads, OperatorRetries(o, h)
      PROVE  IInv'
  <2>1. RetryTargets(h) \in SUBSET (1..jobs) /\ RetryTargets(h) \cap Done = {}
    BY <1>1, FoundJobsAreKnown, ListedIsOpen DEF RetryTargets
  <2> QED BY <1>1, <1>2, <2>1, ListingStep DEF OperatorRetries
<1>3. ASSUME NEW h \in Heads, DirectReviewSettles(o, h)
      PROVE  IInv'
  <2>1. Unsettled(h) \in SUBSET (1..jobs) /\ Unsettled(h) \cap Done = {}
    BY <1>1, FoundJobsAreKnown, ListedIsOpen
  <2>2. {"posted"} \in SUBSET (WaitingStates \cup FinalStates)
    BY DEF FinalStates
  <2> QED BY <1>1, <1>3, <2>1, <2>2, ListingStep DEF DirectReviewSettles
<1>4. CASE ToolDies(o)
  <2>1. {} \in SUBSET (1..jobs) /\ {} \cap Done = {}
        /\ {} \in SUBSET (WaitingStates \cup FinalStates)
    OBVIOUS
  <2>2. WillWrite(o, {}, {})
    BY <1>4 DEF ToolDies, WillWrite
  <2> QED BY <1>1, <1>4, <2>1, <2>2, ListingStep DEF ToolDies
<1> QED BY <1>1, <1>2, <1>3, <1>4, WriteListedStep DEF ToolStep

LEMMA OperatorsStep ==
  ASSUME IInv, Operators
  PROVE  IInv'
<1>1. RowsTyped /\ RunnersTyped
  BY TypeParts DEF IInv
<1>2. ASSUME NEW S \in SUBSET (1..jobs), NEW s \in RowStates, Write(S, s), S \subseteq JobIds,
             \/ Override(S \cap WorkedOn)
             \/ UNCHANGED overridden /\ \A j \in S : state[j] \notin ActiveStates,
             UNCHANGED <<identity, txnVars, batchVars, cycleVars>>
      PROVE  IInv'
  <2>1. overridden \subseteq overridden' /\ overridden' \subseteq overridden \cup S
    BY <1>2 DEF Override
  <2>2. RunnersTyped'
    BY <1>1, <1>2, <2>1 DEF RunnersTyped, txnVars, batchVars, cycleVars, identity
  <2>3. \A j \in S : j \in Working => j \in overridden'
    BY <1>2, WorkIsCounted DEF Working, Override, JobsIn
  <2>4. ListsKnown'
    BY <1>2, SameLists DEF cycleVars, identity
  <2> QED BY <1>2, <2>1, <2>2, <2>3, <2>4, WriteTakesJobs DEF batchVars, cycleVars
<1>3. CASE \E j \in JobIds : OperatorRequeues(j)
  <2>1. PICK j \in JobIds : OperatorRequeues(j)
    BY <1>3
  <2>2. {j} \in SUBSET (1..jobs)
    BY <1>1, <2>1, FoundJobsAreKnown DEF OperatorRequeues, JobsIn, RowStates
  <2>3. "queued" \in RowStates
    BY DEF RowStates, WaitingStates
  <2> QED BY <1>2, <2>1, <2>2, <2>3 DEF OperatorRequeues
<1>4. ASSUME NEW o \in Tools, ToolStep(o)
      PROVE  IInv'
  BY <1>4, ToolStepKeepsInv
<1>5. CASE \E h \in Heads : OperatorRetiresFailed(h)
  <2>1. PICK h \in Heads : OperatorRetiresFailed(h)
    BY <1>5
  <2> DEFINE S == JobsOf(h) \cap JobsIn({"failed"})
  <2>2. S \in SUBSET (1..jobs) /\ S \subseteq JobIds
    BY <1>1, FoundJobsAreKnown DEF JobsOf
  <2>3. \A j \in S : state[j] \notin ActiveStates
    BY DEF JobsIn, ActiveStates
  <2>4. "retired" \in RowStates
    BY DEF RowStates, FinalStates
  <2> QED BY <1>2, <2>1, <2>2, <2>3, <2>4 DEF OperatorRetiresFailed
<1> QED BY <1>3, <1>4, <1>5 DEF Operators

LEMMA TimeStep ==
  ASSUME IInv, Time
  PROVE  IInv'
<1>1. RowsTyped /\ RunnersTyped
  BY TypeParts DEF IInv
<1>2. ASSUME RowsTyped', UNCHANGED <<state, identity, txnVars, batchVars, cycleVars, overridden>>
      PROVE  IInv'
  <2>1. RunnersTyped'
    BY <1>1, <1>2 DEF RunnersTyped, txnVars, batchVars, cycleVars, identity
  <2>2. jobs \in Nat
    BY <1>1, QueueConstants DEF RowsTyped
  <2>3. ListsKnown'
    BY <1>2, SameLists DEF cycleVars, identity
  <2> QED BY <1>2, <2>1, <2>2, <2>3, BatchesUntouched
          DEF batchVars, identity, IInv, WorkIsActive
<1>3. ASSUME NEW j \in JobIds, ExpireLease(j)
      PROVE  IInv'
  <2>1. RowsTyped'
    BY <1>1, <1>3 DEF ExpireLease, RowsTyped, identity
  <2> QED BY <1>2, <1>3, <2>1 DEF ExpireLease
<1>4. ASSUME NEW j \in JobIds, BecomeDue(j)
      PROVE  IInv'
  <2>1. RowsTyped'
    BY <1>1, <1>4 DEF BecomeDue, RowsTyped, identity
  <2> QED BY <1>2, <1>4, <2>1 DEF BecomeDue
<1> QED BY <1>3, <1>4 DEF Time

-----------------------------------------------------------------------------
(***************************************************************************)
(* The theorems.                                                           *)
(***************************************************************************)
LEMMA InitEstablishes == Init => IInv
<1> SUFFICES ASSUME Init PROVE IInv
  OBVIOUS
<1>1. Working = {} /\ \A r \in Runners : OwnWork(r) = {}
  BY DEF Init, Working, WorkedOn, OwnWork
<1>2. Cardinality({}) = 0
  BY FS_EmptySet
<1>3. \A f, h : Load(Working, f, h) = 0
  <2>1. \A f, h : {j \in Working : f[head[j]] = f[h]} = {}
    BY <1>1
  <2> QED BY <1>2, <2>1 DEF Load
<1>4. CapsRespected
  BY <1>1, <1>2, <1>3, QueueConstants DEF CapsRespected
<1>5. RowsTyped
  BY QueueConstants DEF Init, RowsTyped, JobIds, ActiveStates
<1>6. RunnersTyped
  BY DEF Init, RunnersTyped, NoPending, NoList, Processes, Lists
<1>7. JobsAreKnown /\ ListsKnown
  BY DEF Init, JobsAreKnown, ListsKnown, NoList, Processes
<1>8. GrantedOrHeld /\ WorkIsActive /\ HeadReviewedByOne
  BY <1>1 DEF Init, GrantedOrHeld, WorkIsActive, HeadReviewedByOne
<1> QED BY <1>4, <1>5, <1>6, <1>7, <1>8, TypeParts DEF IInv

LEMMA StutterKeepsInv ==
  ASSUME IInv, UNCHANGED vars
  PROVE  IInv'
<1>1. RunnersTyped'
  BY TypeParts
     DEF IInv, RunnersTyped, vars, txnVars, batchVars, cycleVars, identity
<1> QED BY <1>1, SameLists, RowsAndBatchesUntouched
        DEF vars, jobVars, batchVars, cycleVars, identity

LEMMA StepKeepsInv == IInv /\ [Next]_vars => IInv'
<1> SUFFICES ASSUME IInv, [Next]_vars PROVE IInv'
  OBVIOUS
<1>1. CASE UNCHANGED vars
  BY <1>1, StutterKeepsInv
<1>2. CASE Time
  BY <1>2, TimeStep
<1>3. CASE \E r \in Runners : CycleStep(r)
  BY <1>3, CycleStepKeepsInv
<1>4. CASE \E r \in Runners : LeaseStep(r)
  BY <1>4, ConsiderStep, CommitLeaseStep DEF LeaseStep
<1>5. CASE Operators
  BY <1>5, OperatorsStep
<1> QED BY <1>1, <1>2, <1>3, <1>4, <1>5 DEF Next, Undisturbed

LEMMA Inductive == Spec => []IInv
BY InitEstablishes, StepKeepsInv, PTL DEF Spec

\* Type correctness of the queue's rows, of the open lease transaction and of
\* the runners' cycles.
THEOREM TypeCorrect == Spec => []TypeOK
<1>1. IInv => TypeOK
  BY DEF IInv
<1> QED BY <1>1, Inductive, PTL

\* leaseNextReviewQueueJobs never has two runners, or two jobs, review one
\* head, for any number of schedulers, duplicate jobs and crashes.
THEOREM OneReviewPerHead == Spec => []HeadReviewedByOne
<1>1. IInv => HeadReviewedByOne
  BY DEF IInv
<1> QED BY <1>1, Inductive, PTL

\* The global, provider, organisation and repository limits of the lease
\* transaction hold of the reviews in progress, whatever their values.
THEOREM CapsHold == Spec => []CapsRespected
<1>1. IInv => CapsRespected
  BY DEF IInv
<1> QED BY <1>1, Inductive, PTL

\* One step's part of SettledStaysSettled.
SettledRowsStay ==
  \A j \in JobIds \ overridden' :
    state[j] \in {"posted", "retired"} => state'[j] = state[j]

LEMMA WrittenRows ==
  ASSUME NEW S, NEW s, Write(S, s), NEW j \in JobIds
  PROVE  state'[j] = IF j \in S THEN s ELSE state[j]
BY DEF Write

\* What a runner writes about its own job: the job is active or was taken.
LEMMA WorkIsUnsettled ==
  ASSUME IInv, NEW r \in Runners, NEW j \in granted[r] \cup held[r], j \notin overridden
  PROVE  state[j] \notin {"posted", "retired"}
BY DEF IInv, WorkIsActive, OwnWork, ActiveStates

\* What is written from a list was open when it was read.
LEMMA ListedKeepsSettled ==
  ASSUME IInv, NEW p \in Processes, NEW k \in JobIds, WriteListed(p, k)
  PROVE  SettledRowsStay
<1> SUFFICES ASSUME NEW j \in JobIds, j \notin overridden', state[j] \in {"posted", "retired"}
             PROVE  state'[j] = state[j]
  BY DEF SettledRowsStay
<1>1. k \in list[p].open
  BY DEF WriteListed, IInv, ListsKnown
<1>2. j # k
  BY <1>1 DEF WriteListed, Override, Done, JobsIn
<1> QED BY <1>2, WrittenRows DEF WriteListed

LEMMA CycleKeepsSettled ==
  ASSUME IInv, NEW r \in Runners, CycleStep(r)
  PROVE  SettledRowsStay
<1> SUFFICES ASSUME NEW j \in JobIds, j \notin overridden', state[j] \in {"posted", "retired"}
             PROVE  state'[j] = state[j]
  BY DEF SettledRowsStay
<1>1. ASSUME NEW h \in Heads, NEW c \in DOMAIN Rank, Insert(h, c)
      PROVE  state'[j] = state[j]
  <2>1. j \in 1..jobs
    BY TypeParts, QueueConstants DEF IInv, RowsTyped, JobIds
  <2> QED BY <1>1, <2>1, InsertKeepsRows, TypeParts DEF IInv
<1>2. ASSUME NEW h \in Heads, EnqueueManual(r, h)
      PROVE  state'[j] = state[j]
  BY <1>1, <1>2 DEF EnqueueManual, Rank
<1>3. CASE EnqueueAutomatic(r)
  <2>1. pending[r].head \in Heads
    BY <1>3 DEF EnqueueAutomatic, IInv, TypeOK
  <2>2. AutoClass[pending[r].head] \in DOMAIN Rank
    BY <2>1, QueueConstants DEF Rank
  <2> QED BY <1>1, <1>3, <2>1, <2>2 DEF EnqueueAutomatic, jobVars
<1>4. ASSUME NEW k \in JobIds, WriteListed(r, k)
      PROVE  state'[j] = state[j]
  BY <1>4, ListedKeepsSettled DEF SettledRowsStay, Processes
<1>5. CASE BeginLease(r)
  BY <1>5, WrittenRows DEF BeginLease, JobsIn, ActiveStates
<1>6. ASSUME NEW k \in JobIds, MarkRunning(r, k)
      PROVE  state'[j] = state[j]
  <2>1. j # k
    BY <1>6, WorkIsUnsettled DEF MarkRunning
  <2> QED BY <1>6, <2>1, WrittenRows DEF MarkRunning
<1>7. ASSUME NEW k \in JobIds, Posted(r, k)
      PROVE  state'[j] = state[j]
  <2>1. j # k
    BY <1>7, WorkIsUnsettled DEF Posted, Drop
  <2> QED BY <1>7, <2>1, WrittenRows DEF Posted
<1>8. ASSUME NEW k \in JobIds, NEW s, Settled(r, k, s)
      PROVE  state'[j] = state[j]
  <2>1. j # k
    BY <1>8, WorkIsUnsettled DEF Settled, Drop
  <2> QED BY <1>8, <2>1, WrittenRows DEF Settled
<1>9. ASSUME NEW k \in JobIds, Deferred(r, k)
      PROVE  state'[j] = state[j]
  <2>1. j # k
    BY <1>9, WorkIsUnsettled DEF Deferred, Drop
  <2> QED BY <1>9, <2>1, WrittenRows DEF Deferred
<1>10. ASSUME UNCHANGED jobVars
       PROVE  state'[j] = state[j]
  BY <1>10 DEF jobVars
<1> QED BY <1>2, <1>3, <1>4, <1>5, <1>6, <1>7, <1>8, <1>9, <1>10
        DEF CycleStep, DecideAutomatic, ReadSuperseded, SettleSiblings, Abandon, EndBatch,
            EndCycle, Crash

LEMMA OperatorsKeepSettled ==
  ASSUME IInv, Operators
  PROVE  SettledRowsStay
<1> SUFFICES ASSUME NEW j \in JobIds, j \notin overridden', state[j] \in {"posted", "retired"}
             PROVE  state'[j] = state[j]
  BY DEF SettledRowsStay
<1>1. ASSUME NEW k \in JobIds, OperatorRequeues(k)
      PROVE  state'[j] = state[j]
  BY <1>1, WrittenRows DEF OperatorRequeues, ActiveStates
<1>2. ASSUME NEW o \in Tools, NEW k \in JobIds, WriteListed(o, k)
      PROVE  state'[j] = state[j]
  BY <1>2, ListedKeepsSettled DEF SettledRowsStay, Processes
<1>3. ASSUME NEW h \in Heads, OperatorRetiresFailed(h)
      PROVE  state'[j] = state[j]
  BY <1>3, WrittenRows DEF OperatorRetiresFailed, JobsIn
<1>4. ASSUME UNCHANGED jobVars
      PROVE  state'[j] = state[j]
  BY <1>4 DEF jobVars
<1> QED BY <1>1, <1>2, <1>3, <1>4
        DEF Operators, ToolStep, OperatorRetries, DirectReviewSettles, ToolDies

LEMMA LeaseKeepsSettled ==
  ASSUME NEW r \in Runners, LeaseStep(r)
  PROVE  SettledRowsStay
<1> SUFFICES ASSUME NEW j \in JobIds, state[j] \in {"posted", "retired"}
             PROVE  state'[j] = state[j]
  BY DEF SettledRowsStay
<1>1. ASSUME NEW k \in JobIds, Consider(r, k)
      PROVE  state'[j] = state[j]
  <2>1. j # k
    BY <1>1, EligibleJobsWait DEF Consider, IsNext, WaitingStates, DeferredStates
  <2> QED BY <1>1, <2>1, WrittenRows DEF Consider, jobVars
<1>2. CASE CommitLease(r)
  BY <1>2 DEF CommitLease, jobVars
<1> QED BY <1>1, <1>2 DEF LeaseStep

LEMMA SettledRowsStayInStep == IInv /\ [Next]_vars => [SettledRowsStay]_vars
<1> SUFFICES ASSUME IInv, Next PROVE SettledRowsStay
  OBVIOUS
<1>1. CASE Time
  BY <1>1 DEF Time, ExpireLease, BecomeDue, jobVars, SettledRowsStay
<1> QED BY <1>1, CycleKeepsSettled, OperatorsKeepSettled, LeaseKeepsSettled DEF Next, Undisturbed

\* No step of a cycle or an operator command brings a posted or retired job
\* back, unless it was read, or taken, before: updateReviewQueueJobState itself
\* would overwrite any state.
THEOREM SettledForGood == Spec => SettledStaysSettled
BY Inductive, SettledRowsStayInStep, PTL DEF Spec, SettledStaysSettled, SettledRowsStay

-----------------------------------------------------------------------------
(***************************************************************************)
(* The manual reserve, where all heads have one provider.  Within its      *)
(* transaction a runner's batch only grows, and the candidates and the     *)
(* room for them only shrink: a manual command that has room at the end    *)
(* had it when the last background job was admitted, and Admissible then   *)
(* left Reserve slots, which only manual commands can have taken since.    *)
(***************************************************************************)
OneProvider == \A g, h \in Heads : Provider[g] = Provider[h]

ManualIn(S) == {j \in S : class[j] = "manual"}

\* The runner in its lease transaction holds just what it leased there.
BatchInTransaction ==
  /\ \A r \in Runners : pc[r] \in {"scan", "defer"} => granted[r] = {}
  /\ \A r \in Runners : txn = r =>
       /\ pc[r] = "lease"
       /\ \A j \in granted[r] : state[j] \in ActiveStates

\* What an admission of background work leaves for manual commands.
ReserveKept ==
  \A r \in Runners :
    ( /\ txn = r
      /\ \E m \in Candidates : class[m] = "manual" /\ HasRoom(m)
      /\ \E b \in granted[r] : class[b] # "manual" )
    => Cardinality(JobsIn(ActiveStates)) + Reserve <= MaxActive + Cardinality(ManualIn(granted[r]))

RInv == IInv /\ BatchInTransaction /\ ReserveKept

\* Outside of the transaction nothing is leased, and no batch meets a scan.
LEMMA UnlockedKeepsReserve ==
  ASSUME RInv, IInv', Unlocked, Time \/ Operators \/ UNCHANGED vars \/ \E r \in Runners : CycleStep(r)
  PROVE  RInv'
<1> USE DEF RInv, IInv, TypeOK, BatchInTransaction
<1>1. NoRunner \notin Runners
  BY QueueConstants
<1>2. CASE UNCHANGED <<pc, granted, txn>>
  BY <1>1, <1>2 DEF ReserveKept, Unlocked
<1>3. ASSUME NEW r \in Runners, pc' = [pc EXCEPT ![r] = "scan"], granted' = [granted EXCEPT ![r] = {}],
             txn' = txn
      PROVE  RInv'
  BY <1>1, <1>3 DEF ReserveKept, Unlocked
<1>4. ASSUME NEW r \in Runners, NEW j \in JobIds, granted' = [granted EXCEPT ![r] = @ \ {j}],
             UNCHANGED <<pc, txn>>
      PROVE  RInv'
  BY <1>1, <1>4 DEF ReserveKept, Unlocked
<1>5. CASE Time \/ Operators \/ UNCHANGED vars
  <2>1. UNCHANGED <<pc, granted, txn>>
    BY <1>5 DEF Time, Operators, ToolStep, ExpireLease, BecomeDue, OperatorRequeues,
                DirectReviewSettles, OperatorRetiresFailed, OperatorRetries, ToolDies,
                WriteListed, vars, txnVars, batchVars, cycleVars
  <2> QED BY <1>2, <2>1
<1>6. CASE \E r \in Runners : CycleStep(r)
  <2>1. PICK r \in Runners : CycleStep(r)
    BY <1>6
  <2>2. CASE \/ \E h \in Heads : EnqueueManual(r, h) \/ DecideAutomatic(r, h) \/ ReadSuperseded(r, h)
             \/ EnqueueAutomatic(r)
             \/ \E j \in JobIds : WriteListed(r, j) \/ SettleSiblings(r, j) \/ Posted(r, j)
             \/ \E j \in JobIds : Deferred(r, j)
             \/ \E j \in JobIds, s \in WaitingStates \cup FinalStates : Settled(r, j, s)
    <3>1. UNCHANGED <<pc, granted, txn>>
      BY <2>2 DEF EnqueueManual, DecideAutomatic, ReadSuperseded, EnqueueAutomatic, WriteListed,
                  SettleSiblings, Posted, Deferred, Settled, Drop, txnVars, batchVars, cycleVars
    <3> QED BY <1>2, <3>1
  <2>3. CASE BeginLease(r)
    <3>1. /\ pc[r] = "scan" /\ txn' = r /\ granted' = granted
          /\ pc' = [pc EXCEPT ![r] = "lease"]
      BY <2>3 DEF BeginLease, Scanning, batchVars
    <3> QED BY <1>1, <3>1 DEF ReserveKept, Unlocked
  <2>4. CASE \E j \in JobIds : MarkRunning(r, j) \/ Abandon(r, j)
    <3>1. PICK j \in JobIds : MarkRunning(r, j) \/ Abandon(r, j)
      BY <2>4
    <3>2. granted' = [granted EXCEPT ![r] = @ \ {j}] /\ UNCHANGED <<pc, txn>>
      BY <3>1 DEF MarkRunning, Abandon, txnVars, cycleVars
    <3> QED BY <1>4, <3>2
  <2>5. CASE EndBatch(r)
    <3>1. granted[r] = {} /\ pc' = [pc EXCEPT ![r] = "defer"] /\ UNCHANGED <<granted, txn>>
      BY <2>5 DEF EndBatch, txnVars
    <3> QED BY <1>1, <3>1 DEF ReserveKept, Unlocked
  <2>6. CASE EndCycle(r)
    <3>1. granted[r] = {} /\ pc' = [pc EXCEPT ![r] = "scan"] /\ UNCHANGED <<granted, txn>>
      BY <2>6 DEF EndCycle, txnVars, batchVars
    <3> QED BY <1>1, <3>1 DEF ReserveKept, Unlocked
  <2>7. CASE Crash(r)
    BY <1>3, <2>7 DEF Crash, txnVars
  <2> QED BY <2>1, <2>2, <2>3, <2>4, <2>5, <2>6, <2>7 DEF CycleStep
<1> QED BY <1>5, <1>6

\* A job is leased: what is a candidate with room afterwards was one before.
LEMMA AdmissionKeepsReserve ==
  ASSUME OneProvider, RInv, NEW r \in Runners, NEW j \in JobIds, Consider(r, j), Admissible(j),
         Write({j}, "leased"), granted' = [granted EXCEPT ![r] = @ \cup {j}],
         UNCHANGED skipped
  PROVE  ReserveKept'
<1> DEFINE A == JobsIn(ActiveStates)
           G == ManualIn(granted[r])
<1>1. /\ txn = r /\ txn' = r /\ skipped' = skipped /\ head' = head /\ class' = class
      /\ j \in Candidates /\ ~Full
  BY DEF Consider, IsNext, identity, txnVars
<1>2. /\ state[j] \in WaitingStates /\ state[j] \notin ActiveStates
      /\ \A k \in JobIds : state'[k] = IF k = j THEN "leased" ELSE state[k]
      /\ \A k \in JobIds : due'[k] <=> due[k] /\ k # j
  BY <1>1, EligibleJobsWait DEF Write, RInv, IInv, TypeOK
<1>3. /\ JobsIn(ActiveStates)' = A \cup {j} /\ j \notin A
      /\ A \in SUBSET JobIds
  BY <1>2 DEF JobsIn, ActiveStates
<1>4. Candidates' \subseteq Candidates \ {j}
  BY <1>1, <1>2 DEF Candidates, Eligible, JobsIn, DeferredStates
<1>5. /\ granted'[r] = granted[r] \cup {j} /\ j \notin granted[r]
      /\ granted[r] \in SUBSET JobIds
  BY <1>1, <1>2 DEF RInv, IInv, TypeOK, BatchInTransaction
<1>6. /\ IsFiniteSet(A) /\ Cardinality(A) \in Nat
      /\ Cardinality(A \cup {j}) = Cardinality(A) + 1
  BY <1>3, FiniteJobs, FS_AddElement
<1>7. Cardinality(A) < MaxActive /\ MaxActive \in Nat /\ Reserve \in Nat
  BY <1>1, <1>6, QueueConstants DEF Full
<1>8. G \in SUBSET JobIds
  BY <1>5 DEF ManualIn
<1>9. IsFiniteSet(G) /\ Cardinality(G) \in Nat
  BY <1>8, FiniteJobs
<1>10. ManualIn(granted[r])' = IF class[j] = "manual" THEN G \cup {j} ELSE G
  BY <1>1, <1>5 DEF ManualIn
\* Room only shrinks.
<1>11. ASSUME NEW m \in Candidates', HasRoom(m)'
       PROVE  HasRoom(m) /\ head[m] # head[j] /\ m # j /\ m \in JobIds
  <2>1. m \in Candidates /\ m # j /\ m \in JobIds
    BY <1>4, EligibleJobsWait
  <2>2. \A k \in A \cup {j} : head[k] # head[m]
    BY <1>1, <1>3, <1>11 DEF HasRoom, HeadActive
  <2>3. ASSUME NEW f, NEW n \in Nat, Load(JobsIn(ActiveStates), f, head[m])' < n
        PROVE  Load(A, f, head[m]) < n
    <3> DEFINE S == {k \in A : f[head[k]] = f[head[m]]}
               T == {k \in A \cup {j} : f[head[k]] = f[head[m]]}
    <3>1. Cardinality(T) < n
      BY <1>1, <1>3, <2>3 DEF Load
    <3>2. S \in SUBSET T /\ T \in SUBSET JobIds
      BY <1>3
    <3> HIDE DEF S, T
    <3>3. Cardinality(S) <= Cardinality(T) /\ Cardinality(S) \in Nat /\ Cardinality(T) \in Nat
      BY <3>2, FiniteJobs, FS_Subset
    <3>4. Cardinality(S) < n
      BY <3>1, <3>3
    <3> QED BY <3>4 DEF Load, S
  <2>4. Load(A, Org, head[m]) < MaxOrg /\ Load(A, Repo, head[m]) < MaxRepo
    BY <1>11, <2>3, QueueConstants DEF HasRoom
  <2>5. ~HeadActive(head[m])
    BY <2>2 DEF HeadActive
  <2> QED BY <1>3, <2>1, <2>2, <2>4, <2>5 DEF HasRoom
<1>12. SUFFICES ASSUME NEW m \in Candidates', class[m] = "manual", HasRoom(m)',
                       NEW b \in granted'[r], class[b] # "manual"
                PROVE  Cardinality(A \cup {j}) + Reserve <= MaxActive + Cardinality(ManualIn(granted[r])')
  BY <1>1, <1>3 DEF ReserveKept
<1>13. m \in Candidates /\ HasRoom(m) /\ head[m] # head[j] /\ m # j
  BY <1>4, <1>11, <1>12
<1>14. CASE class[j] = "manual"
  <2>1. b \in granted[r]
    BY <1>5, <1>12, <1>14
  <2>2. Cardinality(A) + Reserve <= MaxActive + Cardinality(G)
    BY <1>1, <1>12, <1>13, <2>1 DEF RInv, ReserveKept
  <2>3. j \notin G
    BY <1>5 DEF ManualIn
  <2>4. Cardinality(G \cup {j}) = Cardinality(G) + 1
    BY <1>9, <2>3, FS_AddElement
  <2>5. Cardinality(ManualIn(granted[r])') = Cardinality(G) + 1
    BY <1>10, <1>14, <2>4
  <2> HIDE DEF A, G
  <2> QED BY <1>6, <1>7, <1>9, <2>2, <2>5
<1>15. CASE class[j] # "manual"
  <2>1. UncoveredManualAfter(j)
    BY <1>12, <1>13 DEF UncoveredManualAfter, HasRoom
  <2>2. ProviderLoad(j) = Cardinality(A)
    <3>1. \A k \in A : head[k] \in Heads
      BY <1>3, QueueConstants DEF RInv, IInv, TypeOK, JobsIn, ActiveStates
    <3>2. head[j] \in Heads
      BY <1>2, QueueConstants DEF RInv, IInv, TypeOK, WaitingStates, DeferredStates
    <3>3. {k \in A : Provider[head[k]] = Provider[head[j]]} = A
      BY <3>1, <3>2 DEF OneProvider
    <3> QED BY <3>3 DEF ProviderLoad, Load
  <2>3. Reserve = 0 \/ ~(Cardinality(A) + Reserve >= MaxActive)
    BY <1>7, <1>15, <2>1, <2>2 DEF Admissible
  <2>4. Cardinality(ManualIn(granted[r])') \in Nat
    BY <1>9, <1>10, <1>15
  <2> HIDE DEF A, G
  <2> QED BY <1>6, <1>7, <2>3, <2>4
<1> QED BY <1>14, <1>15

LEMMA LeaseStepKeepsReserve ==
  ASSUME OneProvider, RInv, IInv', NEW r \in Runners, LeaseStep(r)
  PROVE  RInv'
<1>1. CASE CommitLease(r)
  <2>1. txn' = NoRunner /\ granted' = granted /\ pc' = [pc EXCEPT ![r] = "review"]
    BY <1>1 DEF CommitLease, batchVars
  <2>2. NoRunner \notin Runners
    BY QueueConstants
  <2> QED BY <2>1, <2>2 DEF RInv, IInv, TypeOK, BatchInTransaction, ReserveKept
<1>2. ASSUME NEW j \in JobIds, Consider(r, j)
      PROVE  RInv'
  <2>1. txn = r /\ txn' = r /\ pc' = pc /\ j \in Candidates /\ UNCHANGED <<head, class>>
    BY <1>2 DEF Consider, cycleVars, IsNext, identity
  <2>2. CASE ~Admissible(j)
    <3>1. skipped' = skipped \cup {j} /\ UNCHANGED <<state, due, granted>>
      BY <1>2, <2>2 DEF Consider, jobVars
    <3>2. /\ Candidates' \subseteq Candidates
          /\ JobsIn(ActiveStates)' = JobsIn(ActiveStates)
          /\ ManualIn(granted[r])' = ManualIn(granted[r])
      BY <2>1, <3>1 DEF Candidates, Eligible, JobsIn, ManualIn
    <3>3. \A m : HasRoom(m)' <=> HasRoom(m)
      BY <2>1, <3>2 DEF HasRoom, HeadActive, Load
    <3>4. ReserveKept'
      BY <2>1, <3>1, <3>2, <3>3 DEF RInv, ReserveKept
    <3> QED BY <2>1, <3>1, <3>4 DEF RInv, BatchInTransaction
  <2>3. CASE Admissible(j)
    <3>1. /\ Write({j}, "leased") /\ UNCHANGED skipped
          /\ granted' = [granted EXCEPT ![r] = @ \cup {j}]
      BY <1>2, <2>3 DEF Consider
    <3>2. ReserveKept'
      BY <1>2, <2>3, <3>1, AdmissionKeepsReserve
    <3>3. granted \in [Runners -> SUBSET JobIds]
      BY DEF RInv, IInv, TypeOK
    <3>4. /\ granted'[r] = granted[r] \cup {j}
          /\ \A q \in Runners : q # r => granted'[q] = granted[q]
      BY <3>1, <3>3
    <3>5. \A k \in JobIds : state'[k] = IF k = j THEN "leased" ELSE state[k]
      BY <3>1 DEF Write
    <3>6. \A k \in granted[r] : state[k] \in ActiveStates
      BY <2>1 DEF RInv, BatchInTransaction
    <3>7. \A k \in granted'[r] : state'[k] \in ActiveStates
      BY <3>3, <3>4, <3>5, <3>6 DEF ActiveStates
    <3> QED BY <2>1, <3>2, <3>4, <3>7 DEF RInv, BatchInTransaction
  <2> QED BY <2>2, <2>3
<1> QED BY <1>1, <1>2 DEF LeaseStep

LEMMA ReserveInductive == OneProvider => (Spec => []RInv)
<1> SUFFICES ASSUME OneProvider PROVE Spec => []RInv
  OBVIOUS
<1>1. Init => RInv
  <2>1. Init => BatchInTransaction /\ ReserveKept
    BY QueueConstants DEF Init, BatchInTransaction, ReserveKept
  <2> QED BY <2>1, InitEstablishes DEF RInv
<1>2. RInv /\ [Next]_vars => RInv'
  <2> SUFFICES ASSUME RInv, [Next]_vars PROVE RInv'
    OBVIOUS
  <2>1. IInv'
    BY StepKeepsInv DEF RInv
  <2>2. CASE \E r \in Runners : LeaseStep(r)
    BY <2>1, <2>2, LeaseStepKeepsReserve
  <2>3. CASE UNCHANGED vars /\ txn # NoRunner
    <3>1. UNCHANGED <<state, head, class, due, skipped, pc, granted, txn>>
      BY <2>3 DEF vars, jobVars, identity, txnVars, batchVars, cycleVars
    <3>2. /\ Candidates' = Candidates
          /\ JobsIn(ActiveStates)' = JobsIn(ActiveStates)
      BY <3>1 DEF Candidates, Eligible, JobsIn
    <3>3. \A m : HasRoom(m)' <=> HasRoom(m)
      BY <3>1, <3>2 DEF HasRoom, HeadActive, Load
    <3>4. ReserveKept'
      BY <3>1, <3>2, <3>3 DEF RInv, ReserveKept, ManualIn
    <3> QED BY <2>1, <3>1, <3>4 DEF RInv, BatchInTransaction
  <2> QED BY <2>1, <2>2, <2>3, UnlockedKeepsReserve DEF Next, Undisturbed, Unlocked
<1> QED BY <1>1, <1>2, PTL DEF Spec

\* leaseNextReviewQueueJobs keeps Reserve slots for manual commands, for any
\* limits and any number of waiting jobs, where one provider serves all heads.
THEOREM ManualReserveHolds == OneProvider => (Spec => []ManualReserveHonoured)
<1> SUFFICES ASSUME OneProvider PROVE Spec => []ManualReserveHonoured
  OBVIOUS
<1>1. RInv => ManualReserveHonoured
  <2> SUFFICES ASSUME RInv, NEW r \in Runners, txn = r, Full,
                      \E m \in Candidates : class[m] = "manual" /\ HasRoom(m),
                      \E b \in granted[r] : class[b] # "manual"
               PROVE  Cardinality(ManualIn(granted[r])) >= Reserve
    BY DEF ManualReserveHonoured, ManualIn
  <2>1. Cardinality(JobsIn(ActiveStates)) + Reserve <= MaxActive + Cardinality(ManualIn(granted[r]))
    BY DEF RInv, ReserveKept
  <2>2. JobsIn(ActiveStates) \in SUBSET JobIds /\ ManualIn(granted[r]) \in SUBSET JobIds
    BY DEF JobsIn, ManualIn, RInv, IInv, TypeOK
  <2>3. Cardinality(JobsIn(ActiveStates)) \in Nat /\ Cardinality(ManualIn(granted[r])) \in Nat
    BY <2>2, FiniteJobs
  <2> QED BY <2>1, <2>3, QueueConstants DEF Full
<1> QED BY <1>1, ReserveInductive, PTL

-----------------------------------------------------------------------------
(***************************************************************************)
(* ReviewQueue implements ReviewSlots.  Work begins in Consider, where the *)
(* rows that are counted include all work; everywhere else it only ends or *)
(* is taken away, and settled rows stay (SettledRowsStay).                 *)
(***************************************************************************)
WorkLetGo ==
  /\ overridden \subseteq overridden'
  /\ Working' \subseteq Working
  /\ \A j \in Working : head'[j] = head[j]

\* The batches grow by no job, and no job at work changes its head.
LEMMA BatchesShrink ==
  ASSUME IInv, overridden \subseteq overridden',
         \A r \in Runners : granted'[r] \cup held'[r] \subseteq granted[r] \cup held[r],
         UNCHANGED identity \/ \E h \in Heads, c \in DOMAIN Rank : Insert(h, c)
  PROVE  WorkLetGo
<1>1. Working' \subseteq Working
  BY DEF Working, WorkedOn
<1>2. \A j \in Working : j \in 1..jobs /\ jobs \in Nat /\ j \in JobIds
  BY QueueConstants DEF IInv, TypeOK, JobsAreKnown, Working, WorkedOn
<1>3. CASE UNCHANGED identity
  BY <1>1, <1>3 DEF identity, WorkLetGo
<1>4. ASSUME NEW h \in Heads, NEW c \in DOMAIN Rank, Insert(h, c)
      PROVE  WorkLetGo
  <2>1. \A j \in Working : j # jobs'
    BY <1>2, <1>4 DEF Insert
  <2>2. \A j \in Working : head'[j] = head[j]
    BY <1>2, <1>4, <2>1 DEF Insert, IInv, TypeOK
  <2> QED BY <1>1, <2>2 DEF WorkLetGo
<1> QED BY <1>3, <1>4

LEMMA SameBatches ==
  ASSUME IInv, UNCHANGED <<granted, held>>, overridden \subseteq overridden',
         UNCHANGED identity \/ \E h \in Heads, c \in DOMAIN Rank : Insert(h, c)
  PROVE  WorkLetGo
BY BatchesShrink

LEMMA CycleLetsGo ==
  ASSUME IInv, NEW r \in Runners, CycleStep(r)
  PROVE  WorkLetGo
<1>1. ASSUME NEW h \in Heads, EnqueueManual(r, h) \/ DecideAutomatic(r, h) \/ ReadSuperseded(r, h)
      PROVE  WorkLetGo
  <2>1. CASE EnqueueManual(r, h)
    <3>1. \E i \in Heads, c \in DOMAIN Rank : Insert(i, c)
      BY <2>1 DEF EnqueueManual, Rank
    <3> QED BY <2>1, <3>1, SameBatches DEF EnqueueManual, batchVars
  <2>2. CASE DecideAutomatic(r, h) \/ ReadSuperseded(r, h)
    BY <2>2, SameBatches DEF DecideAutomatic, ReadSuperseded, batchVars
  <2> QED BY <1>1, <2>1, <2>2
<1>2. CASE EnqueueAutomatic(r)
  <2>1. pending[r].head \in Heads
    BY <1>2 DEF EnqueueAutomatic, IInv, TypeOK
  <2>2. AutoClass[pending[r].head] \in DOMAIN Rank
    BY <2>1, QueueConstants DEF Rank
  <2>3. UNCHANGED identity \/ \E h \in Heads, c \in DOMAIN Rank : Insert(h, c)
    BY <1>2, <2>1, <2>2 DEF EnqueueAutomatic
  <2> QED BY <1>2, <2>3, SameBatches DEF EnqueueAutomatic, batchVars
<1>3. CASE (\E j \in JobIds : WriteListed(r, j) \/ SettleSiblings(r, j)) \/ BeginLease(r)
  BY <1>3, SameBatches DEF WriteListed, SettleSiblings, BeginLease, Override, batchVars
<1>4. ASSUME NEW j \in JobIds, MarkRunning(r, j)
      PROVE  WorkLetGo
  <2>1. \A q \in Runners : granted'[q] \cup held'[q] \subseteq granted[q] \cup held[q]
    BY <1>4 DEF MarkRunning, IInv, TypeOK
  <2> QED BY <1>4, <2>1, BatchesShrink DEF MarkRunning
<1>5. ASSUME NEW j \in JobIds, Drop(r, j), overridden \subseteq overridden', UNCHANGED identity
      PROVE  WorkLetGo
  <2>1. \A q \in Runners : granted'[q] \cup held'[q] \subseteq granted[q] \cup held[q]
    BY <1>5 DEF Drop, IInv, TypeOK
  <2> QED BY <1>5, <2>1, BatchesShrink
<1>6. ASSUME NEW j \in JobIds, Posted(r, j) \/ Deferred(r, j)
      PROVE  WorkLetGo
  BY <1>5, <1>6 DEF Posted, Deferred, Override
<1>7. ASSUME NEW j \in JobIds, NEW s, Settled(r, j, s)
      PROVE  WorkLetGo
  BY <1>5, <1>7 DEF Settled
<1>8. ASSUME NEW j \in JobIds, Abandon(r, j)
      PROVE  WorkLetGo
  <2>1. \A q \in Runners : granted'[q] \cup held'[q] \subseteq granted[q] \cup held[q]
    BY <1>8 DEF Abandon, IInv, TypeOK
  <2> QED BY <1>8, <2>1, BatchesShrink DEF Abandon
<1>9. CASE EndBatch(r) \/ EndCycle(r)
  BY <1>9, SameBatches DEF EndBatch, EndCycle, batchVars
<1>10. CASE Crash(r)
  <2>1. \A q \in Runners : granted'[q] \cup held'[q] \subseteq granted[q] \cup held[q]
    BY <1>10 DEF Crash, IInv, TypeOK
  <2> QED BY <1>10, <2>1, BatchesShrink DEF Crash
<1> QED BY <1>1, <1>2, <1>3, <1>4, <1>6, <1>7, <1>8, <1>9, <1>10 DEF CycleStep

LEMMA OthersLetGo ==
  ASSUME IInv, Operators \/ Time \/ \E r \in Runners : CommitLease(r)
  PROVE  WorkLetGo
<1>1. CASE Operators
  BY <1>1, SameBatches
     DEF Operators, ToolStep, OperatorRequeues, DirectReviewSettles, OperatorRetiresFailed,
         OperatorRetries, ToolDies, WriteListed, Override, batchVars
<1>2. CASE Time
  BY <1>2, SameBatches DEF Time, ExpireLease, BecomeDue, batchVars
<1>3. CASE \E r \in Runners : CommitLease(r)
  BY <1>3, SameBatches DEF CommitLease, batchVars
<1> QED BY <1>1, <1>2, <1>3

\* What is settled stays so, and what is let go is not under review.
LEMMA LettingGoIsAllowed ==
  ASSUME WorkLetGo, SettledRowsStay
  PROVE  Slots!LetGo
<1>1. Working' \subseteq Working \ overridden'
  BY DEF WorkLetGo, Working
<1>2. \A j \in JobIds \ overridden' : Outcome(j) # "open" => Outcome(j)' = Outcome(j)
  BY DEF SettledRowsStay, Outcome
<1> QED BY <1>1, <1>2 DEF WorkLetGo, Slots!LetGo

LEMMA StrictlyFewerJobs ==
  ASSUME NEW S \in SUBSET JobIds, NEW T \in SUBSET S, NEW n \in Nat, Cardinality(S) < n
  PROVE  Cardinality(T) < n
<1>1. Cardinality(T) <= Cardinality(S)
  BY FiniteJobs, FS_Subset
<1>2. Cardinality(S) \in Nat /\ Cardinality(T) \in Nat
  BY FiniteJobs
<1> QED BY <1>1, <1>2

\* The transaction admits a job into a free slot, or passes it over.
LEMMA AdmissionTakes ==
  ASSUME IInv, NEW r \in Runners, NEW j \in JobIds, Consider(r, j)
  PROVE  Slots!Take(j) \/ Slots!LetGo
<1> DEFINE A == JobsIn(ActiveStates)
<1>1. SettledRowsStay /\ UNCHANGED <<head, overridden>> /\ UNCHANGED held
  BY LeaseKeepsSettled DEF LeaseStep, Consider, identity
<1>2. state[j] \in WaitingStates /\ state[j] \notin ActiveStates
  BY EligibleJobsWait DEF Consider, IsNext
<1>3. CASE UNCHANGED granted \/ j \in overridden
  <2>1. \A q \in Runners : granted'[q] \subseteq granted[q] \cup {j}
    <3>1. UNCHANGED granted \/ granted' = [granted EXCEPT ![r] = @ \cup {j}]
      BY DEF Consider
    <3>2. granted \in [Runners -> SUBSET JobIds]
      BY DEF IInv, TypeOK
    <3> QED BY <3>1, <3>2
  <2>2. ASSUME NEW k \in Working'
        PROVE  k \in Working
    <3>1. k \notin overridden /\ \E q \in Runners : k \in granted'[q] \cup held[q]
      BY <1>1, <2>2 DEF Working, WorkedOn
    <3>2. \E q \in Runners : k \in granted[q] \cup held[q]
      BY <1>3, <2>1, <3>1
    <3> QED BY <3>1, <3>2 DEF Working, WorkedOn
  <2> QED BY <1>1, <2>2, LettingGoIsAllowed DEF WorkLetGo
<1>4. CASE /\ j \notin overridden
           /\ Admissible(j)
           /\ Write({j}, "leased")
           /\ granted' = [granted EXCEPT ![r] = @ \cup {j}]
  <2>1. Working' = Working \cup {j}
    <3>1. \A q \in Runners : granted'[q] = IF q = r THEN granted[q] \cup {j} ELSE granted[q]
      BY <1>4 DEF IInv, TypeOK
    <3> QED BY <1>1, <1>4, <3>1 DEF Working, WorkedOn
  <2>2. Working \subseteq A /\ A \in SUBSET JobIds
    BY WorkIsCounted DEF JobsIn
  <2>3. j \notin Working
    BY <1>2, <2>2 DEF JobsIn
  <2>4. \A k \in Working : head[k] # head[j]
    BY <1>4, WorkIsCounted DEF Admissible, HasRoom, HeadActive
  <2>5. Cardinality(Working) < MaxActive
    <3>1. Cardinality(A) < MaxActive
      BY <2>2, FiniteJobs, QueueConstants DEF Consider, Full
    <3> HIDE DEF A
    <3> QED BY <2>2, <3>1, StrictlyFewerJobs, QueueConstants
  <2>6. ASSUME NEW f, NEW n \in Nat, Load(A, f, head[j]) < n
        PROVE  Load(Working, f, head[j]) < n
    <3> DEFINE All == {k \in A : f[head[k]] = f[head[j]]}
               Own == {k \in Working : f[head[k]] = f[head[j]]}
    <3>1. All \in SUBSET JobIds /\ Own \in SUBSET All
      BY <2>2
    <3>2. Cardinality(All) < n
      BY <2>6 DEF Load
    <3> HIDE DEF All, Own
    <3>3. Cardinality(Own) < n
      BY <3>1, <3>2, StrictlyFewerJobs
    <3> QED BY <3>3 DEF Own, Load
  <2>7. /\ Load(Working, Provider, head[j]) < MaxProvider
        /\ Load(Working, Org, head[j]) < MaxOrg
        /\ Load(Working, Repo, head[j]) < MaxRepo
    <3>1. /\ Load(A, Provider, head[j]) < MaxProvider
          /\ Load(A, Org, head[j]) < MaxOrg
          /\ Load(A, Repo, head[j]) < MaxRepo
      BY <1>4 DEF Admissible, HasRoom, ProviderLoad
    <3>2. MaxProvider \in Nat /\ MaxOrg \in Nat /\ MaxRepo \in Nat
      BY QueueConstants
    <3> HIDE DEF A
    <3> QED BY <2>6, <3>1, <3>2
  <2>8. Outcome(j) = "open" /\ \A k \in JobIds : Outcome(k)' = Outcome(k)
    <3>1. \A k \in JobIds : state'[k] = IF k = j THEN "leased" ELSE state[k]
      BY <1>4, WrittenRows
    <3> QED BY <1>2, <3>1 DEF Outcome, WaitingStates, DeferredStates
  <2>9. \A S : Slots!Cardinality(S) = Cardinality(S)
    BY DEF Cardinality, Slots!Cardinality
  <2>10. \A f : Slots!InUse(f, head[j]) = Load(Working, f, head[j])
    BY <2>9 DEF Slots!InUse, Load
  <2> QED BY <1>1, <1>4, <2>1, <2>3, <2>4, <2>5, <2>7, <2>8, <2>9, <2>10 DEF Slots!Take
<1> QED BY <1>3, <1>4 DEF Consider

(***************************************************************************)
(* The queue gives out its slots as promised, for every number of runners, *)
(* heads and jobs and every setting of the limits: leaseNextReviewQueueJobs*)
(* is the only way into a slot and keeps to the limits although it counts  *)
(* rows and not reviews.                                                   *)
(***************************************************************************)
THEOREM SlotsAreKeptHolds == Spec => SlotsAreKept
<1>1. Init => Slots!SlotsInit
  BY DEF Init, Slots!SlotsInit, Outcome, Working, WorkedOn
<1>2. IInv /\ [Next]_vars
        => [Slots!SlotsNext]_<<head, Working, [j \in JobIds |-> Outcome(j)], overridden>>
  <2> SUFFICES ASSUME IInv, [Next]_vars
               PROVE  \/ Slots!SlotsNext
                      \/ UNCHANGED <<head, Working, [j \in JobIds |-> Outcome(j)], overridden>>
    OBVIOUS
  <2>1. CASE UNCHANGED vars
    BY <2>1 DEF vars, jobVars, identity, batchVars, Working, WorkedOn, Outcome
  <2>2. ASSUME NEW r \in Runners, NEW j \in JobIds, Consider(r, j)
        PROVE  Slots!SlotsNext
    BY <2>2, AdmissionTakes DEF Slots!SlotsNext
  <2>3. CASE \/ Operators \/ Time
             \/ \E r \in Runners : CycleStep(r) \/ CommitLease(r)
    <3>1. WorkLetGo
      BY <2>3, CycleLetsGo, OthersLetGo
    <3>2. SettledRowsStay
      <4>1. CASE Operators \/ \E r \in Runners : CycleStep(r) \/ CommitLease(r)
        BY <4>1, CycleKeepsSettled, OperatorsKeepSettled, LeaseKeepsSettled DEF LeaseStep
      <4>2. CASE Time
        BY <4>2 DEF Time, ExpireLease, BecomeDue, jobVars, SettledRowsStay
      <4> QED BY <2>3, <4>1, <4>2
    <3> QED BY <3>1, <3>2, LettingGoIsAllowed DEF Slots!SlotsNext
  <2> QED BY <2>1, <2>2, <2>3 DEF Next, Undisturbed, LeaseStep
<1> QED BY <1>1, <1>2, Inductive, PTL DEF Spec, SlotsAreKept, Slots!SlotsSpec
==============================================================================
