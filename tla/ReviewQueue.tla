----------------------------- MODULE ReviewQueue -----------------------------
(***************************************************************************)
(* The durable review queue: the review_queue_jobs table of the state      *)
(* store (src/src/state.ts) and the scheduler cycles, in any number of     *)
(* processes, that fill it, lease bounded batches from it and settle what  *)
(* they leased (src/src/scheduler.ts).                                     *)
(*                                                                         *)
(* A job is numbered in the order of its created_at.  A cycle scans, which *)
(* enqueues jobs and retires jobs of superseded and closed heads; leases   *)
(* one batch in one transaction; and reviews the batch.  The lease         *)
(* transaction holds the database's write lock, so nothing else happens    *)
(* while it goes through its candidates one by one; a process that dies    *)
(* inside it rolls it back, which is to die before it.                     *)
(***************************************************************************)
EXTENDS Naturals, FiniteSets

CONSTANTS
  Runners, NoRunner,     \* processes that run scheduler cycles
  Tools,                 \* operator commands and direct reviews, in other processes
  Heads, NoHead,         \* pull-request heads
  Repo, Org, Provider,   \* of each head
  AutoClass,             \* of each head: the class of its automatic jobs
  MaxJobs,               \* bound on the number of jobs ever enqueued
  MaxActive,             \* min(maxActiveRuns, maxProviderActive)
  MaxProvider, MaxOrg, MaxRepo,
  Reserve,               \* min(manualCommandReserve, MaxActive)
  MaxQueued,             \* maxQueuedPerRepo
  Aging                  \* riskWeightedQueue.aging.enabled

JobIds == 1..MaxJobs

ASSUME QueueConstants ==
  /\ NoRunner \notin Runners /\ Tools \cap Runners = {}
  /\ NoHead \notin Heads
  /\ AutoClass \in [Heads -> {"self", "elevated", "background"}]
  /\ MaxJobs \in Nat
  /\ MaxActive \in Nat \ {0} /\ MaxProvider \in Nat /\ MaxActive <= MaxProvider
  /\ MaxOrg \in Nat \ {0} /\ MaxRepo \in Nat \ {0} /\ MaxQueued \in Nat
  /\ Reserve \in 0..MaxActive
  /\ Aging \in BOOLEAN

VARIABLES
  jobs,        \* how many jobs have been enqueued
  state,       \* of each job
  head,        \* of each job
  class,       \* its lane and priority
  due,         \* its next_eligible_at has passed
  lease,       \* its lease: none, live or expired
  txn,         \* the runner whose lease transaction is open
  skipped,     \* candidates that transaction has passed over
  rescued,     \* how many of the oldest jobs waited longer than maxWaitMinutes
  pc,          \* where each runner is in its cycle
  pending,     \* the head whose automatic enqueue it has decided upon
  list,        \* jobs that each process has read, and the states it may write
  granted,     \* jobs it has leased
  held,        \* jobs it is reviewing
  throttled,   \* providers that throttled its batch
  overridden   \* jobs changed by somebody who did not hold them (history)

jobVars == <<state, due, lease>>
identity == <<jobs, head, class>>
txnVars == <<txn, skipped, rescued>>
batchVars == <<granted, held, throttled>>
cycleVars == <<pc, pending, list>>
vars == <<jobVars, identity, txnVars, batchVars, cycleVars, overridden>>

ActiveStates == {"leased", "running"}
DeferredStates == {"provider_deferred", "blocked_on_proof"}
WaitingStates == {"queued"} \cup DeferredStates
\* "retired" stands for stale_retired, closed_retired and command_recorded.
FinalStates == {"posted", "failed", "retired"}

\* The default priorities of a job of the bot's own repository, a manual
\* command, a risk-elevated job and any other.  Only the second is in the
\* manual lane.
Rank == [self |-> 1, manual |-> 10, elevated |-> 10, background |-> 50]

NoPending == [head |-> NoHead, first |-> FALSE]
NoList == [jobs |-> {}, to |-> {}, open |-> {}]

TypeOK ==
  /\ jobs \in 0..MaxJobs
  /\ state \in [JobIds -> {"absent"} \cup WaitingStates \cup ActiveStates \cup FinalStates]
  /\ head \in [JobIds -> Heads \cup {NoHead}]
  /\ class \in [JobIds -> DOMAIN Rank \cup {"none"}]
  /\ due \in [JobIds -> BOOLEAN]
  /\ lease \in [JobIds -> {"none", "live", "expired"}]
  /\ \A j \in JobIds :
       /\ state[j] = "absent" <=> j > jobs
       /\ head[j] = NoHead <=> j > jobs
       /\ lease[j] = "none" <=> state[j] \notin ActiveStates
       /\ due[j] => state[j] \in DeferredStates
  /\ txn \in Runners \cup {NoRunner}
  /\ skipped \subseteq JobIds
  /\ rescued \in 0..jobs
  /\ pc \in [Runners -> {"scan", "lease", "review", "defer"}]
  /\ pending \in [Runners -> [head : Heads \cup {NoHead}, first : BOOLEAN]]
  /\ list \in [Runners \cup Tools ->
                 [jobs : SUBSET JobIds, to : SUBSET (WaitingStates \cup FinalStates),
                  open : SUBSET JobIds]]
  /\ granted \in [Runners -> SUBSET JobIds]
  /\ held \in [Runners -> SUBSET JobIds]
  /\ throttled \in [Runners -> SUBSET {Provider[h] : h \in Heads}]
  /\ overridden \subseteq JobIds

Init ==
  /\ jobs = 0
  /\ state = [j \in JobIds |-> "absent"]
  /\ head = [j \in JobIds |-> NoHead]
  /\ class = [j \in JobIds |-> "none"]
  /\ due = [j \in JobIds |-> FALSE]
  /\ lease = [j \in JobIds |-> "none"]
  /\ txn = NoRunner
  /\ skipped = {}
  /\ rescued = 0
  /\ pc = [r \in Runners |-> "scan"]
  /\ pending = [r \in Runners |-> NoPending]
  /\ list = [p \in Runners \cup Tools |-> NoList]
  /\ granted = [r \in Runners |-> {}]
  /\ held = [r \in Runners |-> {}]
  /\ throttled = [r \in Runners |-> {}]
  /\ overridden = {}

JobsIn(states) == {j \in JobIds : state[j] \in states}
JobsOf(h) == {j \in JobIds : head[j] = h}
Unsettled(h) == JobsOf(h) \cap JobsIn(WaitingStates \cup ActiveStates)

\* Jobs that a live process has leased and not yet settled.
WorkedOn == UNION {granted[r] \cup held[r] : r \in Runners}

\* Mutant: leaving a leased state keeps the lease columns.
WriteKeepingLease(S, s) ==
  /\ state' = [j \in JobIds |-> IF j \in S THEN s ELSE state[j]]
  /\ due' = [j \in JobIds |-> due[j] /\ j \notin S]
  /\ UNCHANGED lease

(***************************************************************************)
(* updateReviewQueueJobState: unconditional.  A state that is not leased   *)
(* or running clears the lease; running keeps it, and a job without one is *)
(* timed from its updated_at instead.                                      *)
(***************************************************************************)
Write(S, s) ==
  /\ state' = [j \in JobIds |-> IF j \in S THEN s ELSE state[j]]
  /\ due' = [j \in JobIds |-> due[j] /\ j \notin S]
  /\ lease' = [j \in JobIds |->
                 IF j \notin S THEN lease[j]
                 ELSE IF s \notin ActiveStates THEN "none"
                 ELSE IF lease[j] = "none" THEN "live" ELSE lease[j]]

Override(S) == overridden' = overridden \cup S

\* Jobs that nothing brings back into play once they have got there.
Done == JobsIn({"posted", "retired"})

(***************************************************************************)
(* Several jobs are written as the code does it: one read of the table,    *)
(* then a transaction per job, unconditional, between which others commit. *)
(* (open: those of them that were not done when they were read; history.)  *)
(***************************************************************************)
WillWrite(p, S, states) ==
  list' = [list EXCEPT ![p] =
             IF S = {} THEN NoList ELSE [jobs |-> S, to |-> states, open |-> S \ Done]]

WriteListed(p, j) ==
  LET l == list[p] IN
  /\ j \in l.jobs
  /\ \E s \in l.to : Write({j}, s)
  /\ list' = [list EXCEPT ![p] =
                 IF l.jobs = {j} THEN NoList
                 ELSE [jobs |-> l.jobs \ {j}, to |-> l.to, open |-> l.open \ {j}]]
  /\ Override({j} \cap (WorkedOn \cup (Done \cap l.open)))
  /\ UNCHANGED <<identity, txnVars, batchVars, pc, pending>>

-----------------------------------------------------------------------------
(***************************************************************************)
(* The scan.  Manual commands always enqueue; an automatic enqueue needs a *)
(* head without an active job.  Deciding and inserting are two steps: the  *)
(* attempt id is looked up before the insert, and it is unique, so that    *)
(* the second of two first attempts fails and ends its cycle.              *)
(***************************************************************************)
Scanning(r) == pc[r] = "scan" /\ pending[r] = NoPending /\ list[r] = NoList

Insert(h, c) ==
  /\ jobs < MaxJobs
  /\ jobs' = jobs + 1
  /\ state' = [state EXCEPT ![jobs'] = "queued"]
  /\ head' = [head EXCEPT ![jobs'] = h]
  /\ class' = [class EXCEPT ![jobs'] = c]
  /\ UNCHANGED <<due, lease>>

\* A finishing-touch command's job is recorded right after its insert.
EnqueueManual(r, h) ==
  /\ Scanning(r)
  /\ Insert(h, "manual")
  /\ UNCHANGED list \/ WillWrite(r, {jobs'}, {"retired"})
  /\ UNCHANGED <<txnVars, batchVars, pc, pending, overridden>>

QueuedInRepo(h) ==
  {j \in JobsIn({"queued", "provider_deferred"} \cup ActiveStates) : Repo[head[j]] = Repo[h]}

AutomaticJobs(h) == {j \in JobsOf(h) : class[j] # "manual"}

DecideAutomatic(r, h) ==
  /\ Scanning(r) /\ jobs < MaxJobs
  /\ Unsettled(h) = {}
  /\ Cardinality(QueuedInRepo(h)) < MaxQueued
  /\ pending' = [pending EXCEPT ![r] = [head |-> h, first |-> AutomaticJobs(h) = {}]]
  /\ UNCHANGED <<jobVars, identity, txnVars, batchVars, pc, list, overridden>>

\* Insert, find that somebody else has, or fail: on the unique id (or here on
\* the bound).  In a repository's provider cooldown the job, new or found, is
\* then deferred.
EnqueueAutomatic(r) ==
  LET h == pending[r].head IN
  /\ h # NoHead
  /\ \/ /\ pending[r].first => AutomaticJobs(h) = {}
        /\ Insert(h, AutoClass[h])
        /\ UNCHANGED list \/ WillWrite(r, {jobs'}, {"provider_deferred"})
     \/ /\ \E j \in AutomaticJobs(h) \cap Unsettled(h) :
             UNCHANGED list \/ WillWrite(r, {j}, {"provider_deferred"})
        /\ UNCHANGED <<jobVars, identity>>
     \/ /\ (pending[r].first /\ AutomaticJobs(h) # {}) \/ jobs = MaxJobs
        /\ UNCHANGED <<jobVars, identity, list>>
  /\ pending' = [pending EXCEPT ![r] = NoPending]
  /\ UNCHANGED <<txnVars, batchVars, pc, overridden>>

\* retireSupersededQueueJobsForPull, retireQueuedJobsForClosedPull.
ReadSuperseded(r, h) ==
  /\ Scanning(r)
  /\ WillWrite(r, JobsOf(h) \cap JobsIn(WaitingStates), {"retired"})
  /\ UNCHANGED <<jobVars, identity, txnVars, batchVars, pc, pending, overridden>>

-----------------------------------------------------------------------------
(***************************************************************************)
(* leaseNextReviewQueueJobs: requeue what has expired, then go through the *)
(* eligible jobs in order.  (Its limit is MaxActive as well.  How long the *)
(* jobs have waited is chosen anew for every transaction.)                 *)
(***************************************************************************)
Eligible == JobsIn({"queued"}) \cup {j \in JobsIn(DeferredStates) : due[j]}
Candidates == Eligible \ skipped

Rescued(j) == j <= rescued

\* buildLeaseComparator: the rescued first and oldest first among them, the
\* others by priority and then age.
Before(j, k) ==
  \/ Rescued(j) /\ ~Rescued(k)
  \/ Rescued(j) /\ Rescued(k) /\ j < k
  \/ /\ ~Rescued(j) /\ ~Rescued(k)
     /\ \/ Rank[class[j]] < Rank[class[k]]
        \/ Rank[class[j]] = Rank[class[k]] /\ j < k

IsNext(j) == j \in Candidates /\ \A k \in Candidates \ {j} : Before(j, k)

\* How many of the jobs in S belong to heads with the same f as head h.
Load(S, f, h) == Cardinality({j \in S : f[head[j]] = f[h]})

HeadActive(h) == \E j \in JobsIn(ActiveStates) : head[j] = h

UncoveredManualAfter(j) ==
  \E m \in Candidates \ {j} :
    class[m] = "manual" /\ head[m] # head[j] /\ ~HeadActive(head[m])

HasRoom(j) ==
  /\ ~HeadActive(head[j])
  /\ Load(JobsIn(ActiveStates), Org, head[j]) < MaxOrg
  /\ Load(JobsIn(ActiveStates), Repo, head[j]) < MaxRepo

ProviderLoad(j) == Load(JobsIn(ActiveStates), Provider, head[j])

\* Mutant: two jobs of one head may be leased together.
AdmissibleSameHead(j) ==
  /\ ProviderLoad(j) < MaxProvider
  /\ Load(JobsIn(ActiveStates), Org, head[j]) < MaxOrg
  /\ Load(JobsIn(ActiveStates), Repo, head[j]) < MaxRepo

\* Mutant: the manual reserve is not applied.
AdmissibleIgnoringReserve(j) == HasRoom(j) /\ ProviderLoad(j) < MaxProvider

Admissible(j) ==
  /\ HasRoom(j)
  /\ ProviderLoad(j) < MaxProvider
  /\ ~ /\ class[j] # "manual"
       /\ UncoveredManualAfter(j)
       /\ Reserve > 0
       /\ ProviderLoad(j) + Reserve >= MaxActive

Full == Cardinality(JobsIn(ActiveStates)) >= MaxActive

\* Mutant: an expired lease is not requeued.
BeginLeaseWithoutRequeue(r) ==
  /\ Scanning(r)
  /\ pc' = [pc EXCEPT ![r] = "lease"]
  /\ txn' = r
  /\ rescued' \in IF Aging THEN 0..jobs ELSE {0}
  /\ UNCHANGED <<jobVars, identity, skipped, batchVars, pending, list, overridden>>

BeginLease(r) ==
  LET stale == {j \in JobsIn(ActiveStates) : lease[j] = "expired"} IN
  /\ Scanning(r)
  /\ pc' = [pc EXCEPT ![r] = "lease"]
  /\ txn' = r
  /\ rescued' \in IF Aging THEN 0..jobs ELSE {0}
  /\ Write(stale, "queued")
  /\ Override(stale \cap WorkedOn)
  /\ UNCHANGED <<identity, skipped, batchVars, pending, list>>

Consider(r, j) ==
  /\ txn = r
  /\ ~Full
  /\ IsNext(j)
  /\ \/ /\ Admissible(j)
        /\ Write({j}, "leased")
        /\ granted' = [granted EXCEPT ![r] = @ \cup {j}]
        /\ UNCHANGED skipped
     \/ /\ ~Admissible(j)
        /\ skipped' = skipped \cup {j}
        /\ UNCHANGED <<jobVars, granted>>
  /\ UNCHANGED <<identity, txn, rescued, held, throttled, cycleVars, overridden>>

CommitLease(r) ==
  /\ txn = r
  /\ Full \/ Candidates = {}
  /\ txn' = NoRunner
  /\ skipped' = {}
  /\ rescued' = 0
  /\ pc' = [pc EXCEPT ![r] = "review"]
  /\ UNCHANGED <<jobVars, identity, batchVars, pending, list, overridden>>

-----------------------------------------------------------------------------
(***************************************************************************)
(* The batch.  Nothing a runner writes about its jobs asks whether it      *)
(* still holds them.                                                       *)
(***************************************************************************)
\* A job is marked running as its review begins, and once more when it gets
\* its reviewer session.
MarkRunning(r, j) ==
  /\ j \in granted[r] \cup held[r]
  /\ Write({j}, "running")
  /\ granted' = [granted EXCEPT ![r] = @ \ {j}]
  /\ held' = [held EXCEPT ![r] = @ \cup {j}]
  /\ UNCHANGED <<identity, txnVars, throttled, cycleVars, overridden>>

Drop(r, j) ==
  /\ j \in held[r]
  /\ held' = [held EXCEPT ![r] = @ \ {j}]
  /\ UNCHANGED granted

\* reconcileProcessedHeadAfterDirectReview: a review that is public and was no
\* retry also settles the other jobs of its head, before its own or after it.
SettleSiblings(r, j) ==
  LET siblings == Unsettled(head[j]) \ {j} IN
  /\ j \in held[r]
  /\ list[r] = NoList /\ siblings # {}
  /\ WillWrite(r, siblings, {"posted"})
  /\ UNCHANGED <<jobVars, identity, txnVars, batchVars, pc, pending, overridden>>

Posted(r, j) ==
  /\ Drop(r, j)
  /\ Write({j}, "posted")
  /\ UNCHANGED <<identity, txnVars, throttled, cycleVars, overridden>>

\* Failed, retired, blocked on the license gate, or put back: no capacity, or
\* a dry run that completed.
Settled(r, j, s) ==
  /\ s \in {"failed", "retired", "blocked_on_proof", "queued"}
  /\ Drop(r, j)
  /\ Write({j}, s)
  /\ UNCHANGED <<identity, txnVars, throttled, cycleVars, overridden>>

Deferred(r, j) ==
  /\ Drop(r, j)
  /\ Write({j}, "provider_deferred")
  /\ throttled' = [throttled EXCEPT ![r] = @ \cup {Provider[head[j]]}]
  /\ UNCHANGED <<identity, txnVars, cycleVars, overridden>>

\* A job whose handling throws is left as it is; the batch goes on.
Abandon(r, j) ==
  /\ j \in granted[r] \cup held[r]
  /\ granted' = [granted EXCEPT ![r] = @ \ {j}]
  /\ held' = [held EXCEPT ![r] = @ \ {j}]
  /\ UNCHANGED <<jobVars, identity, txnVars, throttled, cycleVars, overridden>>

\* deferEligibleProviderJobsForProviderThrottle: manual jobs are spared.
EndBatch(r) ==
  /\ pc[r] = "review" /\ list[r] = NoList
  /\ granted[r] = {} /\ held[r] = {}
  /\ pc' = [pc EXCEPT ![r] = "defer"]
  /\ WillWrite(r, {j \in Eligible : class[j] # "manual" /\ Provider[head[j]] \in throttled[r]},
                  {"provider_deferred"})
  /\ throttled' = [throttled EXCEPT ![r] = {}]
  /\ UNCHANGED <<jobVars, identity, txnVars, granted, held, pending, overridden>>

EndCycle(r) ==
  /\ pc[r] = "defer"
  /\ list[r] = NoList
  /\ pc' = [pc EXCEPT ![r] = "scan"]
  /\ UNCHANGED <<jobVars, identity, txnVars, batchVars, pending, list, overridden>>

-----------------------------------------------------------------------------
(***************************************************************************)
(* Operators, other invocations, crashes and time.                         *)
(***************************************************************************)
Crash(r) ==
  /\ pc' = [pc EXCEPT ![r] = "scan"]
  /\ pending' = [pending EXCEPT ![r] = NoPending]
  /\ list' = [list EXCEPT ![r] = NoList]
  /\ granted' = [granted EXCEPT ![r] = {}]
  /\ held' = [held EXCEPT ![r] = {}]
  /\ throttled' = [throttled EXCEPT ![r] = {}]
  /\ UNCHANGED <<jobVars, identity, txnVars, overridden>>

\* clearReviewQueueLeases: expired leases, or any with --force-active.
OperatorRequeues(j) ==
  /\ state[j] \in ActiveStates
  /\ Write({j}, "queued")
  /\ Override({j} \cap WorkedOn)
  /\ UNCHANGED <<identity, txnVars, batchVars, cycleVars>>

\* Mutant: the retry does not look at what became of the head's jobs.
RetryTargetsAll(h) == JobsOf(h)

RetryTargets(h) ==
  JobsOf(h) \cap JobsIn({"queued", "provider_deferred", "failed"} \cup ActiveStates)

\* updateRetryQueueJobsAfterRetry, for a failed-head retry outside the queue.
\* (Its outcome gives all of them one state, or only the manual ones, as if it
\* died before the others; here each job may get its own.)
OperatorRetries(o, h) ==
  /\ list[o] = NoList
  /\ RetryTargets(h) # {}
  /\ WillWrite(o, RetryTargets(h), WaitingStates \cup FinalStates)
  /\ UNCHANGED <<jobVars, identity, txnVars, batchVars, pc, pending, overridden>>

\* reconcileProcessedHeadAfterDirectReview, for a direct live review-pr.
DirectReviewSettles(o, h) ==
  /\ list[o] = NoList
  /\ Unsettled(h) # {}
  /\ WillWrite(o, Unsettled(h), {"posted"})
  /\ UNCHANGED <<jobVars, identity, txnVars, batchVars, pc, pending, overridden>>

\* It is killed, with jobs that it has not yet written.
ToolDies(o) ==
  /\ list[o] # NoList
  /\ list' = [list EXCEPT ![o] = NoList]
  /\ UNCHANGED <<jobVars, identity, txnVars, batchVars, pc, pending, overridden>>

\* retireFailedReviewQueueJobs.
OperatorRetiresFailed(h) ==
  /\ JobsOf(h) \cap JobsIn({"failed"}) # {}
  /\ Write(JobsOf(h) \cap JobsIn({"failed"}), "retired")
  /\ UNCHANGED <<identity, txnVars, batchVars, cycleVars, overridden>>

ExpireLease(j) ==
  /\ lease[j] = "live"
  /\ lease' = [lease EXCEPT ![j] = "expired"]
  /\ UNCHANGED <<state, due, identity, txnVars, batchVars, cycleVars, overridden>>

BecomeDue(j) ==
  /\ state[j] \in DeferredStates
  /\ due' = [due EXCEPT ![j] = TRUE]
  /\ UNCHANGED <<state, lease, identity, txnVars, batchVars, cycleVars, overridden>>

Unlocked == txn = NoRunner

CycleStep(r) ==
  \/ \E h \in Heads : EnqueueManual(r, h) \/ DecideAutomatic(r, h) \/ ReadSuperseded(r, h)
  \/ EnqueueAutomatic(r)
  \/ \E j \in JobIds : WriteListed(r, j)
  \/ BeginLease(r)
  \/ \E j \in JobIds : MarkRunning(r, j) \/ SettleSiblings(r, j) \/ Posted(r, j)
  \/ \E j \in JobIds : Deferred(r, j) \/ Abandon(r, j)
  \/ \E j \in JobIds, s \in WaitingStates \cup FinalStates : Settled(r, j, s)
  \/ EndBatch(r) \/ EndCycle(r) \/ Crash(r)

ToolStep(o) ==
  \/ \E h \in Heads : OperatorRetries(o, h) \/ DirectReviewSettles(o, h)
  \/ \E j \in JobIds : WriteListed(o, j)
  \/ ToolDies(o)

Operators ==
  \/ \E j \in JobIds : OperatorRequeues(j)
  \/ \E h \in Heads : OperatorRetiresFailed(h)
  \/ \E o \in Tools : ToolStep(o)

Time == \E j \in JobIds : ExpireLease(j) \/ BecomeDue(j)

LeaseStep(r) == (\E j \in JobIds : Consider(r, j)) \/ CommitLease(r)

Undisturbed ==
  \/ Unlocked /\ (Time \/ \E r \in Runners : CycleStep(r))
  \/ \E r \in Runners : LeaseStep(r)

Next == Undisturbed \/ (Unlocked /\ Operators)

Spec == Init /\ [][Next]_vars

(***************************************************************************)
(* The daemon starts cycle after cycle and each goes on unless it crashes, *)
(* leases expire, deferrals pass, and a job that is reviewed again and     *)
(* again is posted in the end.  No operator intervenes.                    *)
(***************************************************************************)
Progress(r) ==
  \/ EnqueueAutomatic(r) \/ BeginLease(r) \/ EndBatch(r) \/ EndCycle(r)
  \/ \E j \in JobIds : WriteListed(r, j)

Fairness ==
  /\ \A r \in Runners :
       /\ SF_vars(Unlocked /\ Progress(r))
       /\ WF_vars(LeaseStep(r))
       /\ \A j \in JobIds :
            /\ SF_vars(Unlocked /\ j \in granted[r] /\ MarkRunning(r, j))
            /\ SF_vars(Unlocked /\ Posted(r, j))
  /\ \A j \in JobIds :
       SF_vars(Unlocked /\ ExpireLease(j)) /\ SF_vars(Unlocked /\ BecomeDue(j))

FairSpec == Init /\ [][Undisturbed]_vars /\ Fairness

-----------------------------------------------------------------------------
(***************************************************************************)
(* Properties.                                                             *)
(***************************************************************************)
\* Work that is really going on, except for jobs taken from their runner.
Working == WorkedOn \ overridden

(***************************************************************************)
(* Over all processes, the reviews in progress respect the global,         *)
(* provider, organisation and repository limits, through crashes, expired  *)
(* leases, duplicate jobs and everything operators do: unless a job was    *)
(* taken from its live runner (leaseNextReviewQueueJobs counts rows, the   *)
(* limits are about reviews).                                              *)
(***************************************************************************)
CapsRespected ==
  /\ Cardinality(Working) <= MaxActive
  /\ \A h \in Heads :
       /\ Load(Working, Provider, h) <= MaxProvider
       /\ Load(Working, Org, h) <= MaxOrg
       /\ Load(Working, Repo, h) <= MaxRepo

(***************************************************************************)
(* A head is reviewed by one runner at a time, for one job: however many   *)
(* jobs the races of discovery, commands and retries gave it (activeHeads).*)
(***************************************************************************)
HeadReviewedByOne ==
  \A q, r \in Runners :
    \A j \in (granted[q] \cup held[q]) \ overridden, k \in (granted[r] \cup held[r]) \ overridden :
      head[j] = head[k] => j = k /\ q = r

(***************************************************************************)
(* When a lease transaction leaves behind a manual command that only lacks *)
(* a slot, while it admitted background work, it gave at least Reserve     *)
(* slots to manual commands (manualCommandReserve).                        *)
(***************************************************************************)
ManualReserveHonoured ==
  \A r \in Runners :
    ( /\ txn = r
      /\ Full
      /\ \E m \in Candidates : class[m] = "manual" /\ HasRoom(m)
      /\ \E b \in granted[r] : class[b] # "manual" )
    => Cardinality({m \in granted[r] : class[m] = "manual"}) >= Reserve

(***************************************************************************)
(* A posted or retired job never comes back into play, except by the hand  *)
(* of somebody who read it before it was settled, or lost it and writes    *)
(* all the same.                                                           *)
(***************************************************************************)
SettledStaysSettled ==
  [][\A j \in JobIds \ overridden' :
       state[j] \in {"posted", "retired"} => state'[j] = state[j]]_vars

(***************************************************************************)
(* The queue gives out its slots as ReviewSlots promises: the lease        *)
(* transaction is the only step by which a review begins, whatever         *)
(* scans, batches, operators, expired leases and crashes do between two of *)
(* them, and it never takes up a job that was posted or retired.           *)
(***************************************************************************)
Outcome(j) == IF state[j] \in {"posted", "retired"} THEN state[j] ELSE "open"

Slots == INSTANCE ReviewSlots WITH
  Jobs <- JobIds,
  reviewing <- Working,
  outcome <- [j \in JobIds |-> Outcome(j)],
  taken <- overridden

SlotsAreKept == Slots!SlotsSpec

\* Every job settles: a crashed runner's jobs are leased again, a deferral
\* passes, and no job waits behind the others for ever.
EveryJobSettles ==
  \A j \in JobIds : (state[j] \in WaitingStates \cup ActiveStates) ~> (state[j] \in FinalStates)

==============================================================================
