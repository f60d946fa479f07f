# NeonDiff in TLA+

NeonDiff is a local-first pull-request reviewer: a daemon (`src/src/daemon.ts`) runs scheduler
cycles (`src/src/scheduler.ts`) that find pull-request heads, queue them, review them with a
language model (`src/src/worker.ts`) and post the result on GitHub. Operators and other invocations
of the CLI run the same code at the same time in other processes. All of them share one SQLite
database (`src/src/state.ts`). What makes the system correct is the protocol they follow over its
tables, and that protocol is what these modules are about. The licenses of its users are sold by a
program of its own, the license service (`src/services/license-api`), with a database of its own.

## Inventory

| Component | State it keeps | Operations | Interacts by | Hard behaviour |
|---|---|---|---|---|
| Head claim and processed row (`state.ts`) | `processed_reviews`, `review_head_claims` of a head | record, base-merge skip, dry-run record, claim, release, sweep | transactions called by every reviewer | claims expire under a slow holder; several writers do not own the claim |
| Single-head review (`worker.ts: reviewPull`) | program position, claim, what it read earlier | admit, review, claim, post, record, fail, defer, retry, restore | claim and row, run leases, GitHub | reads before awaits; lost replies; crashes between post and record |
| Run leases and worktree cleanup (`state.ts`, `worktree-cleanup.ts`, `daemon.ts`) | `review_run_leases`, `worktree_cleanup_guard` | acquire, release, guard, remove, clear | both sides check the other's table | snapshot before the removal; dead owners; expiry |
| Review queue (`state.ts`, `scheduler.ts`) | `review_queue_jobs` | enqueue, lease a batch, run, settle, defer, retire, requeue, retry | lease transaction; unconditional updates by id | duplicate jobs, expired leases, limits over all processes, priorities and reserves |
| Owner authorization ledger (`state.ts`, `review-event-policy.ts`) | authorizations, consumptions, outcomes, incidents | consume, record posted / noop / incident | inside the claimed part of a review | exactly once over crashes |
| Reviewer sessions (`state.ts`, `scheduler.ts`) | sessions, assigned heads | assign, drain, expire, reconcile | beside the queue | head-count limit, dead workers |
| Daemon loop and issue enrichment (`daemon.ts`, `issue-enrichment.ts`) | sticky cleanup request, running enrichment pass, heartbeat, enrichment rows, watermark and lease of a repository | cycle, cleanup; a pass lists, probes, admits, analyses, comments, records, defers, moves the watermark | in-process promises, the lease, GitHub | a pass that outlives the cycle that began it; issues that change under it; a crash between comment and row |
| Head gate and readiness (`review-head-gate.ts`, `scheduler.ts`) | readiness rows | transition, decide | reads rows, jobs and readiness | decisions over rows of different age |
| Provider cooldown (`state.ts`, `worker.ts`) | cooldown row of a repository | set, clear, honour | error text of processed rows | a cooldown set by another pull request |
| Public commands (`commands.ts`, `scheduler.ts`, `worker.ts`, `state.ts`) | processed commands, invocations | scan the thread, admit, cool down, decide, enqueue; resolve again, stop, explain, review | comments, queue jobs, the head's row | the same comment read by every scan and every job; jobs retired by pushes; a record before the review |
| License service (`services/license-api`) | licenses, bindings, checkout fulfillments, lifecycle events | fulfill, redeem, apply an event, revoke | webhooks of the payment provider, HTTP | events in any order, twice, late; checks before an await, writes after it |
| License admission (`license-admission.ts`), the service's GitHub broker | cached entitlement; broker tokens | admit, refresh, exchange | HTTP | stale cache |
| GitHub and provider clients | none | requests | HTTP, subprocesses | lost replies, throttles, timeouts |
| Review content (diff, findings, lenses, walkthrough), evaluation, release tooling, CLI, dashboard, desktop application | files, none of the shared tables | text processing, front ends | | |

What makes each of the modelled ones correct:

- **Head**: what discovery posts is the head's first review; a published head never looks unreviewed
  while somebody is left to record it; an approved dry run is posted once and under the configuration it was approved for; a claim never
  outlives the invocation that took it.
- **Run leases**: reviews and cleanup are the readers and writers of one lock, whose readers are at most
  `maxActiveRuns` over all processes; leases are returned; leases and guards of dead processes are
  discarded.
- **Queue**: each head has one slot whatever duplicate jobs exist; the limits hold of
  reviews and not only of rows; only the lease transaction begins a review, and never of a settled job;
  manual commands find their reserve; every
  job settles.
- **Owner authorization**: it is spent by one command, answered by one public review, and resolved
  for good; a review requests changes only as that answer; a refused command is told why; the record
  of a blocking review is replaced by that of an advisory one on one known way only.
- **License service**: a license is issued once, only ever extended, handed out while it is active,
  and beyond change once revoked; it is what the ledger of applied events says; a repetition of what
  was applied is answered as such; what the provider has ended is revoked in the end, and what was
  paid arrives.
- **Enrichment lane**: one comment on an issue; the watermark passes no edit without an answer; the
  heartbeat is that of its own cycle; a due cleanup is done although passes outlive cycles; every
  edit is answered in the end.
- **Public commands**: a command is carried out once, and is reviewed if that is what it asked for;
  an author triggers no more reviews than windows
  open; a head on which a stop was carried out is not reviewed automatically; a command that is due is
  answered in the end.

## Plan

Written, in this order:

1. `HeadStore`, `HeadReview`, `HeadReviewProofs`: one head, claims and reviews.
2. `ExclusiveCleanup`, the abstract lock; `RunLease`, admission against cleanup, which implements it;
   `RunLeaseProofs`.
3. `ReviewSlots`, the abstract slots; `ReviewQueue`, the queue and its scheduler cycles, which implement
   them; `ReviewQueueProofs`.
4. `OneShotAuthorization`, the abstract promise; `AuthorizationLedger`, the transactions and reviews
   that implement it over `HeadStore`; `AuthorizationLedgerProofs`.
5. `Entitlement`, the abstract promise; `SubscriptionLicense`, the webhook and the tables that
   implement it; `SubscriptionLicenseProofs`.
6. `EnrichmentLane`, the daemon's cycle and the passes over the issues; `EnrichmentLaneProofs`.
7. `CommandService`, the abstract promise; `CommandIntake`, the commands of a pull request from comment
   to review, which implement it; `CommandIntakeProofs`.

To be written:

8. `ReviewerSessions`: assignment with the head-count limit, draining, expiry.
9. `ReviewHeadGate`: the decision as an operator, checked against a reference over bounded inputs,
   and composed with the readiness transitions.
10. `HeadSchedule`: `ReviewQueue` and `HeadReview` composed for one head. The abstract
   specification to implement is a head that goes from unreviewed to one discovery review.
11. Provider cooldown, the client's side of license admission.

Theorems worth proving there: the head-count limit; the refinement of step 10. An abstract
specification worth stating for what exists: an exclusive lock with expiry for the claim.

## Modules and the code

### HeadStore

One row of `processed_reviews` and of `review_head_claims`; both tables have the head as primary
key, so that heads do not meet and one is enough. `row` is the status together with the class of
its error text, in the nine kinds that the code tells apart. `rev` is `config_revision`. `claim`
names the owner; `Orphan` stands for a dead process, whose claim nobody can release. `fresh` says
that the claim has not expired. Each operator is one transaction of `state.ts`.

### HeadReview

Any number of workers, of eight kinds: a queue job (`daemon`, or `requeue` after a failure), an
operator's failed-head retry, a trusted command, an explicit `review-pr` (`manual`), an approved
live post, a dry run and a refreshed dry run. A worker's action is what it does between two awaits
(or between two commits, where another process may come in between without an await). GitHub is
external: `createReview` publishes and answers, or publishes and the answer is lost. Crashes may come
at any point; claims may expire at any point. `reviewEventPolicy` is `comment_only`.

A row that is read and then written without an await is read and written in two steps, for the two are
two transactions: `FindMovedHead` and `SkipMovedHead`, `ReadPosted` and `SettlePosted`, `ReadRetryRow` and
`RestoreRetryRow`, `ReadPrevious` and the records of a failure. So a posted row may become a skipped or a
failed one, as in the code.

`posts`, `granted`, `spent` are history and count public reviews, dry runs recorded and approvals posted.
`tainted` notes that a receipt was lost or a claim expired under its holder. `owing` are the workers whose
public review is not in a row yet, and `forsaken` notes that the last of them ended without a record, on a
head that has no row and no unexpired claim of a dead poster. Nothing can mend that, and
`PublishedIsRecorded` says that nothing else leads to a published head that looks unreviewed: a crash, a
lost reply and a lost receipt included.

### ExclusiveCleanup, RunLease

Processes with workers and cleanup passes. `TryAcquire`, `Release`, `TakeGuard` and `EndRemoval`
are the four transactions; `StartScan` is the look at the leases that a whole cleanup pass rests on.
The pass is synchronous in its process (`spawnSync`), so that its own workers stand still. A process
is never restarted under its old id.

`ExclusiveCleanup` is the lock that the two tables are there for: `Enter` and `Leave` of a review,
`Remove` and `EndOfRemoval` of a worktree. Its `reviewing` are the reviews whose lease has not expired,
its `removing` the processes that remove under an unexpired guard. A lease or guard that expires under
its holder ends the holder's part in the lock; what the code then does is not promised to be exclusive.

### ReviewSlots, ReviewQueue

Jobs are numbered in the order of `created_at`. `stale_retired`, `closed_retired` and
`command_recorded` are one state, `retired`. `due` and `lease` abstract `next_eligible_at` and
`lease_expires_at`; `rescued` says how many of the oldest jobs have waited longer than
`maxWaitMinutes`, and is chosen anew by every lease transaction. The lease transaction is modelled candidate by candidate (`BeginLease`,
`Consider`, `CommitLease`) with the database locked, as it is in the code; everything else is atomic
between awaits. An automatic enqueue decides (`DecideAutomatic`) and then inserts
(`EnqueueAutomatic`): the attempt id is looked up before the insert, and the column is unique. The
first attempt of a head has a deterministic id; after the head's job is final, ids are random, and
two schedulers may both insert.

Whatever settles several jobs reads the table once and writes job by job, each in a transaction of its
own and without asking what has become of it. The read fills `list` and each write is a step
(`WriteListed`): retiring the jobs of superseded heads, deferring those of a throttled provider, settling
the other jobs of a head that was reviewed (`SettleSiblings`, `DirectReviewSettles`), an operator's retry
(`OperatorRetries`). The last two are commands of other processes, the `Tools`, which may die between two
writes (`ToolDies`). A retry gives its jobs one state, by its outcome; in the model each may get its own.

`overridden` is history: the jobs that somebody changed who did not hold them, or that were done by
somebody between the read and the write of a list (`open` are the listed jobs that were not done when they
were read). The code has four such ways (an expired lease is requeued, an operator requeues with
`--force-active`, an operator's retry or direct review settles a head, a superseded head is retired after
it was leased), none asks the runner, and the runner writes its result all the same. A property that ignored this would be false of the
code; the properties say what holds of all other jobs. A first lease that expired under a live runner
counts as taken too.

`ReviewSlots` says what all of this amounts to. `Take` puts one unsettled job in a slot, if its head has
none and the four limits leave room; `LetGo` is everything else, and may free slots, take jobs from
their runners and settle open ones, but fill no slot and reopen nothing. Its `reviewing` are the jobs
held by the runner that leased them, its `taken` is `overridden`.

### OneShotAuthorization, AuthorizationLedger

`reviewEventPolicy` is `trusted_command_only`: the repository's owner may ask, once for each head,
that the bot request changes. `OneShotAuthorization` is the promise in three actions (`Spend`,
`Answer`, `Resolve`). `AuthorizationLedger` is the code: `consumer`, `outcome` and `incident` are the
head's row in `review_event_authorization_consumptions`; `job` is the queue job of each of the
owner's comments; the workers run those jobs, ordinary review commands and automatic reviews over the
row and claim of `HeadStore`. `answer` and `changes` are what GitHub shows. Whether a comment
is eligible is decided again at each look at it (the comment may have been edited, the head may have
moved), so that it is a choice at each look.

A job whose lease expired runs again beside its first runner, and a claim that expired may be taken
from a live holder; `lost` records the latter. `keep` is what the worker read before its POST and
acts upon after it: a REQUEST_CHANGES found in the row, and whether that row is sure. `retry` is the policy
`retry_failed_head`, which a job gets that was deferred or whose row is failed or a deferral: it goes on
with such a row and with no other, and no cooldown holds it up. `back` is the event of the posted row that
a settlement has read and is about to write back. `unsure` is the
error column that says that the head moved after the review, or could not be read. The head may have
been blocked before this policy was configured (`Init`).

The module has the scheduler's invocations only. `runOnce` takes no request of the owner, and its
recovery of a lost receipt is in `HeadReview`. The scheduler does not recover one: when the answer to
the POST is lost, the authorization stays consumed and open, the next run of the comment is refused,
and the refusal leaves the incident.

As in `HeadReview`, a row is read and written back in two steps (`FindMovedHead` and `SkipMovedHead`,
`ReadPosted` and `SettlePosted`). That leaves one way in which the record of a blocking review is replaced by
that of an advisory one: a settlement reads a COMMENT row, another run records its REQUEST_CHANGES, and the
settlement writes back what it read (`worker.ts:2909` and `2914`). No claim is taken from anybody: the first
record had ended the claim. `BlockingIsNotDowngraded` says that there is no other, until a claim is taken
from a live holder; that a throttle may overwrite a posted row with a cooldown row, and the authorized answer a
REQUEST_CHANGES that is not sure, is not its subject.

### Entitlement, SubscriptionLicense

`Entitlement` is what a subscription's license may do in four actions (`Issue`, `Extend`, `HandOut`,
`Revoke`). `SubscriptionLicense` is the code: `license` is the row in `licenses` together with the
lifecycle watermark of its binding, `checkout` the row in `stripe_checkout_fulfillments`, `ledger`
`license_subscription_lifecycle_events` with what the canonical hash of each event was computed from.
`billing` and `events` are the payment provider's: it changes a subscription, writes an event, and
delivers each event in any order and any number of times, also after it was acknowledged.

A worker handles a delivery. There is an await between the checks and the transaction of a checkout
event (`VerifyCheckout`, `CommitCheckout`), and of an invoice event, for which the subscription is read
from the provider (`VerifyInvoice`, `ApplyInvoice`); a customer.subscription event carries its
subscription and is handled in one step. The checks of `applyCheckoutSubscriptionLifecycle` come in
the code's order: first whether the event was applied, then the license. A request may fail before it
writes anything (`FailOnTheWay`).

### EnrichmentLane

The issues of one repository, a daemon and any number of operators. A cycle of the daemon begins a
pass and does not wait for it; `pass[p].at` is where the pass of process `p` is between two awaits.
`List` is the scan and its classification by the rows, `Probe`/`EndProbe` the comparison of posted
rows, `Admit`, `Analyse`, `Find`, `Post`, `Record` the way of one issue to its comment and row,
`Finish` the deferrals and the watermark.

Times are compared with the watermark and with the beginning of the pass only, so that the model has
sets of issues in their place: `unseen` was updated since the watermark, `pass[p].later` since the
pass began, `pass[p].moved` since it listed. Whatever updates an issue enters it in all three, the
bot's own comment too. `Body` gives the comment for each version of an issue, so that two versions may
have the same comment; the analysis of a version is taken to be deterministic. Two times within one
second and the difference of two clocks are not modelled.

`owed`, `overlapped` and `torn` are history. `overlapped`: the lease of a pass was swept or cleared
under it. Nothing renews or checks a lease, so that two passes then run side by side, and the
properties do not speak of what follows. `torn`: the pass ended between the comment and its row. The
next pass finds the comment and repairs row and comment, unless the text has meanwhile been edited back
to what the row tells of: then `shouldSkipIssueEnrichmentRecord` believes the row, and the comment
stays that of the other text.

### CommandService, CommandIntake

One pull request; `thread` holds the comments that are commands, in the order of their ids, with the
author's authority (`Owners` are trusted, `Guests` are the public that `publicCommands` admits) and
what they ask for. A process either scans or works off a job; `step[p].at` is where it is. A scan reads
the head (`Scan`), then the comments (`Read`), admits the public commands one transaction after the
other (`Admit`), decides (`Decide`) and enqueues (`Enqueue`). A job reads the pull request (`Fetch`) and
the comments (`Resolve`), of which a command's job looks at its own comment only, and then answers a stop
or an explanation, or reviews: `Begin` records the command, `Check` reads the head for the last time,
`Send` posts.

`cooling` is a row of `public_command_invocations` inside its window; guests ask for reviews only, so
that the action is left out of its key. `answered` is `processed_commands` with the head that is stored
there, at which `hasProcessedCommand` does not look. `row` has the kinds of `processed_reviews` that this
flow tells apart; `stopped` is a skipped row whose text is that of a stop, `cooldown` one whose text names a
provider cooldown. `lost` are the leased jobs of processes that died, `deferred` the waiting jobs that a
cooldown put back. `reviews`, `opened` and `silenced` are history; `silenced` are the heads on which a stop
was carried out, its row included, and that no later failure or cooldown has taken back. One job of a head is at work
at a time: that is the lease transaction's rule, and `ReviewQueue` has what happens when a lease is lost
to a slow runner.

`Return` stands for a job that goes back to the queue for want of capacity or a license, `Fail` for
every request that fails. Whether a review whose post fails is public is a choice. `Defer` is a provider's
limit that a request meets, or a cooldown of the repository that a job meets before it begins: the head's
row becomes a cooldown row, whatever it was, a stop's or a posted one, and the job goes back (`PutBack`) to be
retried. A job that was put back goes on with a failed or a cooldown row and with no other (`TurnAway`);
the command of one that is turned away stays unanswered, and a later scan enqueues it again.

`CommandService` is the promise in four actions (`Write`, `Open`, `CarryOut`, `Review`): a command is
carried out at most once, a guest's only within a window that was opened for the guest, and only a
review command that was carried out is reviewed, once. Its `carried` are the commands in
`processed_commands`.

## Properties and runs

| Run | Instance | Shows |
|---|---|---|
| `head_claim` | 2 workers, all 8 kinds, 2 revisions, at most 2 posts and 2 dry runs | `DiscoveryPostsFirst`, `PublishedIsRecorded`, `ApprovalSpentOnce`, `ApprovedRevisionIsPosted`, `ClaimIsReleased`, types |
| `head_retry` | 2 workers, `daemon` and `retry` | `AtMostOneReviewPerHead` is violated |
| `run_lease` | 3 processes, 4 workers, limit 2 | `CleanupIsExclusive` (the refinement), `RemovalExcludesReviews`, `LeaseIsReturned`, `DeadOwnersAreDiscarded`, types |
| `queue_race` | 2 schedulers and an operator, 1 head, 2 jobs, aging | `SlotsAreKept` (the refinement), `HeadReviewedByOne`, types |
| `queue_live` | 1 scheduler, 2 heads, 2 jobs, 1 slot, a reserve of 1, aging, fair | `EveryJobSettles`, `ManualReserveHonoured` |
| `auth_ledger` | 2 workers, 2 requests, ordinary reviews | `OneShot` (the refinement), `ConsumedCommandNeverAdvises`, `RefusalIsExplained`, `SettledHasNoIncident`, `BlockingIsNotDowngraded`, types |
| `auth_second` | 1 worker, 2 requests | `SecondCommandStillPosts` is violated |
| `license_webhook` | 1 subscription, 3 events, 2 deliveries at a time | `KeepsPromise` (the refinement), `LedgerExplainsLicense`, `SubscriptionRedeliveryIsAnswered`, types |
| `license_live` | the same with a shorter clock and a failing request, fair | `EndedIsRevoked`, `PaidIsLicensed` |
| `enrichment_lane` | 2 issues, 1 to a pass, 2 edits, the daemon and an operator, a failure, fair | `OneComment`, `NothingForgotten`, `EveryEditIsAnswered`, `CleanupComes`, `HeartbeatTellsTheCycle`, types |
| `commands` | 1 process, an owner and a guest, 2 heads, 2 comments, a failure, crash or cooldown, fair | `CommandsAreServed` (the refinement), `PublicReviewsAreRateLimited`, `StopSilencesAutomatic`, `DueCommandsAreAnswered`, types |
| `commands_starved` | the same without failures | `PublicCommandsAreAnswered` is violated |

Bounds, and why they are enough:

- `MaxPosts` and `MaxGrants` (2) cap the history counters of `HeadReview`: the properties speak of
  the first and the second. Two workers suffice for every race over the claim, because a third would
  meet the same claim.
- `MaxJobs` caps the jobs ever inserted. Two give a head with a duplicate (`queue_race`) and two heads with
  one job each, with one slot also a manual command beside a background job that may not have its reserve
  (`queue_live`). An enqueue beyond the bound fails as one on the unique column does. `queue_race` has one
  head, so that two schedulers and a tool with its list fit, and the one limit that binds there is that of one
  review on a head. No run has two processes at one of the four limits: what is known of them is proved, for any
  number of jobs, heads, schedulers and tools (`CapsHold`, `SlotsAreKeptHolds`, `ManualReserveHolds`).
  Its constraint `NotAllTaken` ends behaviours in which every job has been taken from its runner: no property
  speaks of a taken job.
- `AuthorizationLedger` needs no bound: `changes` counts reviews that request changes, and that it
  stays finite is the property. Two requests give a second comment on a consumed head; two workers
  give a job that runs twice, and a claim taken from its holder.
- `SubscriptionLicense`: `MaxEvents` (3) is enough for a checkout, a renewal and an end in every order;
  `MaxTime` (3 and 1) lets the trial (1), a redemption (2) and a period (2) pass, or the trial only;
  `MaxFailures` (0 and 1) counts requests that fail on the way. Without the failure the safety run is
  as general, for a failed request writes nothing.
- `EnrichmentLane`: `MaxFailures` (1) counts everything that goes wrong, crashes, lost answers, expired
  leases, incomplete lists, and also closings and operators' passes. `MaxEdits` (2) bounds the edits of
  an issue, and of any two together. Two issues with room for one make a pass defer the other; two
  edits, the second of which takes the first back, are the least that has a torn row believed.
- `CommandIntake`: one process in the run, which is a scan and a job in every order, and jobs that come
  back from the dead; the proofs are for any number. `MaxHeads` and `MaxComments` (2) give a command that
  a push moves to another head, and a stop or a second command of an author behind a first.
  `MaxFailures` (1) counts crashes, failed requests and jobs that meet a cooldown. The constraint
  `SameAuthorOrNoFailure` leaves out failures where both the owner and the guest write: with them the graph is
  beyond the liveness check. Failures are checked where one author writes both comments, and two authors side
  by side without failures. `opened` is counted up to `MaxComments`: more
  windows than there are commands rate-limit nobody.
- View: `MCHeadReview` hides what an invocation no longer reads: its revision, and its kind past the claim,
  where they are not told apart, and what it read of the row before it acts upon it. `MCAuthorizationLedger`
  hides how an ordinary review was started once it holds the claim, the look at the comment that the
  worker repeats, and why a job that never runs again has ended. No guard, no write and no property of the runs
  reads what they hide.
- Symmetry: runners, workers, requests and revisions are interchangeable. No run with a liveness property uses symmetry.
- Deadlock is checked, except in `head_retry`, where a head with a settled row really is done, and in
  the license runs, where everything ends with the last event.

The manual reserve is stated for one provider. The code counts each provider's jobs: with two,
background work may take every global slot while each provider's count stays under its bound.

### Fairness

`RunLease!FairSpec`: a review ends (provider calls and subprocesses have timeouts), a removal ends
(each git command is killed after 30 s), and admissions are asked again in every cycle. These are
strong where a crash or a cleanup pass may disable them in between.

`ReviewQueue!FairSpec`: the daemon starts cycle after cycle and a cycle goes on unless it crashes,
leases expire, deferrals pass, and a job that is reviewed again and again is posted in the end.
Strong, because a crash disables every step of a cycle. The lease transaction needs weak fairness
only: nothing disturbs it. `FairSpec` allows crashes, abandoned jobs, throttles and expiry at any
point, and no operator: one who requeues a job for ever keeps it from settling. The last of these
assumptions is the strongest: the code does not bound the number of failed attempts at a review.

`SubscriptionLicense!FairSpec`: a request is handled (weak), and the payment provider delivers an event
again until it has seen it acknowledged (strong for each event, for another delivery of it may be in
progress at any time). Nothing is assumed of the buyer, the administrator or the clock.

`EnrichmentLane!FairSpec`: the daemon runs cycle after cycle and is restarted, each await of a pass has
a timeout, the lease of a dead process expires, and the cooldown of a deferred issue ends. All weak.
Failures of every kind are possible and finitely many (`MaxFailures`): one that comes back at each pass
keeps an issue unanswered, here as in the code.

`CommandIntake!FairSpec`: the daemon scans and leases again and again (strong, for the only process may
be busy and a head may have a job at work), a process goes on with what it began (weak), and a job that
goes back to the queue for want of capacity finds it in the end (strong for `Begin`: the code does not
bound how often a job returns). A job that a cooldown put back is leased again like any other. Leases of the dead run out. Windows pass, and not only while a scan is at
`Admit`: a window is minutes long and a scan's loop is not. Failures are finitely many.

## Proofs

All theorems hold for every value of the constants that satisfies the named assumptions
(`StoreConstants`, `ReviewConstants`, `LeaseConstants`, `QueueConstants`, `RequestConstants`,
`SubscriptionConstants`, `LaneConstants`,
`IntakeConstants`): the null values are none
of the real ones, sets of workers are finite where they are counted, limits are natural numbers. TLC
evaluates them in every run.

**HeadReviewProofs.** `TypeCorrect`, `DiscoveryReviewIsFirst`, `PublicationIsDurable`,
`ClaimsAreReleased`, `ApprovedRevision`, `ApprovalIsSpentOnce`, `OneReviewPerHead`. `DiscoveryPostsFirst` is not
inductive: that nothing is posted follows only if every earlier poster left a row or is still
between its post and its record. The invariant therefore adds that an unexpired claim is fresh
(`HeldIsFresh`), that who lost a claim lost it to a written row (`LostClaimLeftRow`), that a
discovery review holds its claim over an empty row (`DiscoveryHoldsNoRow`), and that a retry
remembers a retryable row (`RetryRemembersRow`: what it restores is never "none"). `PublicationIsDurable`
has no exception for a lost reply, a lost receipt or a crash as such: it follows every worker that owes a
record to its end. That a published head without a row has such a worker (`PublishedIsOwed`), which is on
its way to a record (`OwingIsUnderWay`), and that a row once read does not go away (`ReadRowStays`), are
the invariants it needs.
`ApprovalSpentOnce` follows from a count: approvals spent, approved transitions between claim and
post, and an unconsumed dry-run row together never exceed the dry runs recorded
(`ApprovalsAccounted`).

`OneReviewPerHead` is about `AtMostOneReviewPerHead`, which `head_retry` finds violated: it holds where
the only reviews beside dry runs are first discovery reviews (`DiscoveryOnly`: jobs of the daemon that
have not failed) or explicit ones (`ExplicitOnly`: `review-pr`), until a claim expires under its
holder. Then a claim supersedes nothing, so that it finds no row and no other claim. Hence nobody is
between claim and record (`LostClaimLeftRow`), and there is no review either, for its poster would be
there (`PublishedIsOwed`, `OwingIsUnderWay`). The two kinds together break it,
without a retry: a deferral retires a live claim, as any write of the row does, a base-merge skip
replaces the row, an explicit review supersedes the skip, and both post.

**RunLeaseProofs.** `TypeCorrect`, `RemovalIsExclusive`, `CapacityHolds`, `LeasesAreReturned`,
`CleanupIsExclusiveHolds`. The
invariant adds that only live processes act, that a review whose lease is unexpired has its row
(`LeaseOutlivesReview`), and that the table never has more rows than the limit (`RowsBounded`). The
last theorem is the refinement of `ExclusiveCleanup`. Its steps are about live leases and guards and
the code's about rows: a process that removes under a live guard has its row in the guard table, so
that no other does and the admission's prune keeps it; an admission that counts the rows counts every
review; and what pruning, expiry, an operator or a crash takes away only leaves the lock.
`CapacityHolds`, that unexpired leases are at most `MaxRuns`, is contained in it.

**ReviewQueueProofs.** `TypeCorrect`, `OneReviewPerHead`, `CapsHold`, `SettledForGood`,
`ManualReserveHolds`, `SlotsAreKeptHolds`. The limits
and the head check are enforced over rows and the properties are about reviews. `WorkIsActive` joins
them: a job at work that was not taken from its runner has a leased or running row, so that the
transaction counts it. That needs `HeadReviewedByOne` itself (a runner that settles its job writes
nobody else's), that a job is granted or held, not both, and that a job on a list was not done when the
list was read (`ListsKnown`), so that one which is done by the time it is written counts as taken. With it only an admission lets
work grow, by one job, after counting all of it; everything else shrinks it, and the limits follow by
cardinality. `CapsHold`, of `CapsRespected`, is the one theorem here whose property no run checks: an
instance with two schedulers and a limit that binds is too large for it. `SettledForGood` is an action property from the same invariant: what a runner writes is
its own active job, or one that was taken. `SlotsAreKeptHolds` is the refinement of `ReviewSlots`: every
step other than an admission leaves no job at work that was not, keeps the heads of jobs at work, and
keeps settled jobs, so that it lets go; an admission of a job that is not taken passed the head check
and the limits, which count every job at work, and is a `Take`. `ManualReserveHolds` assumes that there is one provider
(`OneProvider`); of several it is false, as the bounds above say.

**AuthorizationLedgerProofs.** `TypeCorrect`, `OneShotHolds`, `SettledHasNoIncidentHolds`,
`RefusalIsExplainedHolds`, `ConsumedCommandNeverAdvisesHolds`, `BlockingIsNotDowngradedHolds`.
`OneShotHolds` is the refinement: every step of the ledger and of its reviews is one of the promise's
or a stutter. It needs to know that the worker between the consumption and its receipt is the only
one that consumed, that its comment is the one in the row, and that nothing is answered or resolved
before it (`ConsumerInv`); no claim is used, so that it holds although claims expire. That a consumed
command never advises does rest on the claim: until a claim is taken from a live holder, at most one
worker is between claim and receipt, and it holds the claim (`ClaimInv`). So
the authorization cannot be consumed by another while one decides (`AdviseInv`), and the row that
`keep` remembers is the row that the receipt finds (`KeepInv`). `BlockingIsNotDowngradedHolds` is an action
property: a posted COMMENT row is written by a receipt, which keeps a REQUEST_CHANGES by `KeepInv`, or by
a settlement that writes back what it read before, which is the exception that the property names.

**SubscriptionLicenseProofs.** `TypeCorrect`, `LedgerExplainsLicenseHolds`,
`SubscriptionRedeliveryIsAnsweredHolds`, `PromiseIsKept`. The last is the refinement of `Entitlement`:
each step of the webhook, the buyer or the administrator is one of the promise's or a stutter. What a
worker read before its await may be out of date when it writes; the invariant says how much of it
still holds (`JobsMatch`: what was verified was issued, and an event was written), that each row in
`checkout` and `ledger` is about the subscription of its event (`CheckoutsMatch`, `LedgerMatches`), and
`LedgerExplainsLicense` itself.

**EnrichmentLaneProofs.** `TypeCorrect`, `HeartbeatIsTheCycles`, `OneCommentHolds`,
`NothingForgottenHolds`. That the watermark forgets nothing is a statement about the end of a pass,
and must be carried through it. The invariant says of every pass, overlapped or not, that an issue
which it does not know to have moved is as it listed it, and that one that moved is listed again
(`Tracks`); and of the passes that were kept apart, that a pass which is not going to keep the
watermark has answered every owed issue that it need not look at any more and that was not updated
since it began (`Good`), that a posted row tells of the comment, unless it is torn or just being
written (`RowTells`), and that what is behind the watermark is answered (`Kept`). `OneComment` needs
that a comment which was not found is still not there when it is written, for which the lease is
needed (`Alone`).

**CommandIntakeProofs.** `TypeCorrect`, `OneReviewHolds`, `RateLimitHolds`, `StopHolds`,
`CommandsAreServedHolds`. That a command
is reviewed once rests on one job of a head being at work (`Exclusive`), on nothing being known of a
head that is not there yet (`Known`), and on the record being written before the head is checked for
the last time: a second job of the command can have passed its own look at the records only if it was
under way on an older head, and then it fails that check (`Once`). An automatic review is of a head
without a row, or with a failed or a cooldown one (`Quiet`), for a stop of that head would need the job. A
silenced head has a row of another kind (`Stopped`: a stop's, a skip's or a posted one), and the two
together are `StopHolds`. That a job which was put back waits is `Deferring`. The rate limit is a count: the
commands of a guest that are somewhere between admission and answer, in a scan, in a waiting, leased or
lost job, or answered, are never more than the windows opened for the guest (`Limited`); each admission
opens one, and everything after it keeps or forgets commands. `CommandsAreServedHolds` is the refinement
of `CommandService`: a scan that admits opens windows, a job that answers carries out, a post is the
review, and all else is a stutter. That a job which is about to post has a command that was recorded and
asked for a review, however often it was read again on the way, is one more invariant
(`AskedForReview`); that a guest's command is carried out within a window is `Limited` after the step.
`OneReviewHolds` is contained in it.

Only model-checked: liveness (`DeadOwnersAreDiscarded`, `EveryJobSettles`, `EndedIsRevoked`,
`PaidIsLicensed`, `CleanupComes`, `EveryEditIsAnswered`, `DueCommandsAreAnswered`), which is beyond the
prover. The violated properties are checked
by TLC only.

## Findings

- **A failed-head retry may post a second review** (`head_retry`). The repository's README promises
  at most one review per head. `retry_failed_head` checks its row before the review and claims with
  no condition on it, so that it supersedes a row that another process posted meanwhile.
- **A second command on a head is refused, not analysed** (`auth_second`). The maintainers' guide says
  that a second request on the same head is reviewed and that its findings are posted as a comment
  (`docs/maintainer-commands.md`, lines 63-72). The code refuses any command of a head that has a
  consumption row, whichever comment consumed it.
- **A guest's second command may never be answered** (`commands_starved`). `admitPublicCommands` offers
  all public commands of the thread to the cooldown, oldest first, and does not leave out those that were
  processed. The oldest one takes every window of its author and action, on a new head too, and the
  newer ones are turned away each time, although the comment there (`scheduler.ts:1291-1294`) says that
  a new push is never blocked.

Twelve more things a reader of the properties should know of the code. No run checks them:

- the manual reserve counts one provider's jobs (see the bounds above);
- it stands above the rescue tier: a background job past `maxWaitMinutes` is still subject to it, and
  with the default single slot every manual command goes first;
- an invoice event's status is read from the provider at each delivery, so that the second delivery of
  an event that was applied may have another content and be refused, although
  `docs/subscription-lifecycle.md:44` of the license service has exact replays answered; the property
  excepts invoice events;
- a torn enrichment row (see `EnrichmentLane`) is believed after an edit that takes the text back;
- a review command that is older than a stop keeps its job: the job looks at its own comment only, so
  that it reviews a head whose latest command is the stop, although `docs/maintainer-commands.md:79-80`
  says that the stop skips the queued work;
- a failure after a stop on the same head overwrites the stop's row (`recordFailedReview`), and so does a
  cooldown that a later job of the head meets (`worker.ts:1947` and `4072`, whatever the row is, a posted
  one included); a waiting automatic job, or the job that met it, then retries the head;
- a crash between the two writes of a stop leaves it answered, and the head not silenced;
- a manual job whose command was answered meanwhile, on a head without a row, is an ordinary review;
- a settlement may write a COMMENT over a REQUEST_CHANGES that was recorded after it read the row
  (`worker.ts:2909` and `2914`), with no claim taken from anybody; `BlockingIsNotDowngraded` names it as its
  one exception;
- a job that is enqueued while its repository is cooling down is marked as deferred and gets no row
  (`scheduler.ts:754-785`); when it is leased it has the policy `retry_failed_head`, finds no row to retry,
  and is turned away. `CommandIntake` has a cooldown at the start of a job, and not this one;
- a command whose deferred job is turned away is not answered, and is enqueued again by a later scan;
- a cleanup guard whose TTL has passed is deleted although its owner lives and removes
  (`RemovalExcludesReviews` is about unexpired guards), so that a review may begin in a worktree that is
  being removed.

## Not modelled

Besides the components of the inventory that the plan has for later:

- what a review contains, how diffs are built, findings filtered and comments rendered: no
  protocol state;
- `reprioritizeExistingSelfRepoQueueJobs`: it gives queued jobs of the bot's own repository the
  priority that they already have unless the configuration changed;
- the reconciliation of processed-and-skipped jobs that older versions left behind, since no step
  produces such rows any more;
- readiness rows, status comments and reviewer sessions beside the queue: advisory state that no
  modelled guard reads;
- of the license service: activations and seats, the administrator's issuance and lifecycle endpoint
  (which runs the same transaction), the backfill of bindings, schema migration, and the GitHub broker;
  of the client, the cached entitlement;
- of the enrichment lane: dry runs, skips by policy or author, the burst threshold, promotion by
  maintainers, several repositories with their global limits, and a lease limit above one;
- of the commands: request-changes (`AuthorizationLedger`), finishing-touch drafts, edited and deleted
  comments, the activation baseline, drafts, closed pull requests, the canary, license and public-author
  gates, changes of the base, a force-push back to an older head, and the parser. The order and the limits
  of the queue and leases lost to a slow runner are `ReviewQueue`'s, the claim `HeadReview`'s. Retiring
  the jobs of other heads is one step here, and write by write in `ReviewQueue`;
- front ends, evaluation and release tooling. The operator commands that write the shared tables are
  actions of the modules above.
