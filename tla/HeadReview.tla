------------------------------ MODULE HeadReview ------------------------------
(***************************************************************************)
(* Review invocations (reviewPull in src/src/worker.ts, with the code of   *)
(* its callers that records what it threw) racing for ONE pull-request     *)
(* head over the store of HeadStore: the daemon's queue jobs, an           *)
(* operator's dry run, approved live post, manual run and failed-head      *)
(* retry, and the operator's retirement of a failed head.                  *)
(*                                                                         *)
(* GitHub is external: createReview either publishes a review and answers, *)
(* or publishes it and the answer is lost.  A step of a worker is what it  *)
(* does between two awaits.  Where a non-transactional read and the write  *)
(* that depends on it have no await between them they still are two steps  *)
(* when another process can commit in between.                             *)
(*                                                                         *)
(* reviewEventPolicy is comment_only here; AuthorizationLedger models what *)
(* trusted_command_only adds between the claim and the POST.               *)
(***************************************************************************)
EXTENDS HeadStore

CONSTANTS
  Kinds,      \* the kinds of invocation that occur, a subset of AllKinds
  MaxRuns,    \* reviewConcurrency.maxActiveRuns
  MaxPosts,   \* bound on the number of public reviews of the head
  MaxGrants   \* bound on the number of dry runs recorded

(***************************************************************************)
(*   "daemon"   a queue job of the scheduler, normal policy                *)
(*   "requeue"  a queue job whose head failed or was deferred before       *)
(*   "retry"    retryFailedHead / retryProviderCooldowns                   *)
(*   "command"  a trusted review command: supersedes any processed row     *)
(*   "manual"   an explicit live review-pr of this pull request            *)
(*   "approved" the live transition of an approved dry run                 *)
(*   "dryrun"   a dry run of the daemon                                    *)
(*   "refresh"  an explicit dry run with refresh_dry_run policy            *)
(***************************************************************************)
DryKinds == {"dryrun", "refresh"}
RetryKinds == {"retry", "requeue"}
DirectKinds == {"manual", "approved"}
AllKinds == DryKinds \cup RetryKinds \cup DirectKinds \cup {"daemon", "command"}

ASSUME ReviewConstants ==
  /\ Kinds \subseteq AllKinds
  /\ MaxRuns \in Nat \ {0}
  /\ MaxPosts \in Nat
  /\ MaxGrants \in Nat

VARIABLES
  pc,        \* where the worker is
  kind,      \* the kind of its invocation
  wrev,      \* its configuration revision
  seen,      \* a processed row it read earlier and will act upon
  retiring,  \* the operator has read a failed row and is about to retire it
  posts,     \* public reviews of this head on GitHub (external)
  granted,   \* dry runs recorded (history)
  spent,     \* public reviews posted by approved transitions (history)
  owing,     \* workers whose public review is not in a row yet (history)
  forsaken,  \* no process is left to record a public review (history)
  tainted    \* a reply or receipt was lost or a claim outlived (history)

workerVars == <<pc, kind, wrev, seen>>
history == <<posts, granted, spent, owing, forsaken, tainted>>
vars == <<storeVars, workerVars, retiring, history>>

\* The worker holds a run lease; it has, or believes it has, the head claim.
RunningPcs == {"working", "claimed", "skipping", "posted", "recorded", "unsettled"}
ClaimPcs == {"claimed", "skipping", "posted", "recorded", "unsettled"}
Pcs == RunningPcs \cup {"idle", "checked", "failing", "throttled", "writing",
                        "deferring", "recovering", "stale", "restoring", "rewriting"}

WorkerTypeOK ==
  /\ pc \in [Workers -> Pcs]
  /\ kind \in [Workers -> AllKinds \cup {"none"}]
  /\ wrev \in [Workers -> Revs \cup {NoRev}]
  /\ seen \in [Workers -> RowKinds]

TypeOK ==
  /\ StoreTypeOK
  /\ WorkerTypeOK
  /\ retiring \in BOOLEAN
  /\ posts \in Nat /\ granted \in Nat /\ spent \in Nat
  /\ owing \subseteq Workers
  /\ forsaken \in BOOLEAN /\ tainted \in BOOLEAN

Init ==
  /\ StoreInit
  /\ pc = [w \in Workers |-> "idle"]
  /\ kind = [w \in Workers |-> "none"]
  /\ wrev = [w \in Workers |-> NoRev]
  /\ seen = [w \in Workers |-> "none"]
  /\ retiring = FALSE
  /\ posts = 0 /\ granted = 0 /\ spent = 0
  /\ owing = {} /\ forsaken = FALSE /\ tainted = FALSE

Goto(w, p) == pc' = [pc EXCEPT ![w] = p] /\ UNCHANGED <<kind, wrev, seen>>

Holds(w) == claim = w

\* The invocation is over; the worker may serve another one.
Return(w) ==
  /\ pc' = [pc EXCEPT ![w] = "idle"]
  /\ kind' = [kind EXCEPT ![w] = "none"]
  /\ wrev' = [wrev EXCEPT ![w] = NoRev]
  /\ seen' = [seen EXCEPT ![w] = "none"]

\* Every way reviewPull returns without throwing; retryFailedHead then
\* restores the row it set out to retry.
Finish(w) == IF kind[w] = "retry" THEN Goto(w, "restoring") ELSE Return(w)

-----------------------------------------------------------------------------
(***************************************************************************)
(* Admission: the processed-row checks of reviewPull, then the run lease.  *)
(***************************************************************************)
AdmitsRow(k, r) ==
  \/ k = "daemon" /\ row = "none"
  \/ k = "manual" /\ row \in {"none", "base_merge"}
  \/ k = "command"
  \/ k = "approved" /\ row = "dry_run" /\ rev = r
  \/ k = "dryrun" /\ row \in {"none", "post_error"}
  \/ k = "refresh" /\ row \in {"none", "post_error", "dry_run", "base_merge"}
  \/ k \in RetryKinds /\ row \in RetryableRows

Running == {w \in Workers : pc[w] \in RunningPcs}

\* A failed-head retry asks for the lease with maxActiveRuns = 1.
CapacityFor(k) == Cardinality(Running) < (IF k = "retry" THEN 1 ELSE MaxRuns)

\* retry_failed_head checks the row, then awaits the live head before it
\* asks for capacity; the other kinds ask in the same step.
Start(w, k, r) ==
  /\ pc[w] = "idle"
  /\ AdmitsRow(k, r)
  /\ k \notin RetryKinds => CapacityFor(k)
  /\ pc' = [pc EXCEPT ![w] = IF k \in RetryKinds THEN "checked" ELSE "working"]
  /\ kind' = [kind EXCEPT ![w] = k]
  /\ wrev' = [wrev EXCEPT ![w] = r]
  /\ seen' = [seen EXCEPT ![w] = IF k \in RetryKinds THEN row ELSE "none"]
  /\ UNCHANGED <<storeVars, retiring, history>>

(***************************************************************************)
(* An active provider cooldown of the repository (another pull request may *)
(* have set it) turns the invocation into a deferral record, except for a  *)
(* dry-run row that an approved or refreshing run is about to use and for  *)
(* the spent approval that a dry run may retry.                            *)
(***************************************************************************)
DeferForCooldown(w, k, r) ==
  /\ pc[w] = "idle"
  /\ AdmitsRow(k, r)
  /\ k \notin RetryKinds
  /\ ~(row = "dry_run" /\ k \in {"approved", "refresh"})
  /\ ~(row = "post_error" /\ k \in DryKinds)
  /\ RecordProcessed("cooldown", NoRev)
  /\ UNCHANGED <<workerVars, retiring, history>>

AcquireAfterCheck(w) ==
  /\ pc[w] = "checked"
  /\ CapacityFor(kind[w])
  /\ Goto(w, "working")
  /\ UNCHANGED <<storeVars, retiring, history>>

SkipForCapacity(w) ==
  /\ pc[w] = "checked"
  /\ ~CapacityFor(kind[w])
  /\ Finish(w)
  /\ UNCHANGED <<storeVars, retiring, history>>

\* restoreFailedRetryRowIfNeeded reads the row: a final one, a failed one and
\* an untrusted author's skip are left alone.
ReadRetryRow(w) ==
  /\ pc[w] = "restoring"
  /\ \/ row \in {"posted", "base_merge", "failed", "skipped"} /\ Return(w)
     \/ row \notin {"posted", "base_merge", "failed"} /\ Goto(w, "rewriting")
  /\ UNCHANGED <<storeVars, retiring, history>>

\* Then it writes, whatever the row has become; a stale head retires a
\* deferred row.
RestoreRetryRow(w) ==
  /\ pc[w] = "rewriting"
  /\ \/ RecordProcessed(seen[w], NoRev)
     \/ seen[w] = "cooldown" /\ RecordProcessed("skipped", NoRev)
  /\ Return(w)
  /\ UNCHANGED <<retiring, history>>

-----------------------------------------------------------------------------
(***************************************************************************)
(* The review work, up to the per-head claim.                              *)
(***************************************************************************)

(***************************************************************************)
(* The live pull request moved or was closed: recordStaleHeadSkip and      *)
(* recordClosedPullBeforeReviewPost keep a posted row they read, and       *)
(* otherwise write theirs in a second transaction, over whatever the row   *)
(* has become.  The finally block releases the worker's own claim.         *)
(***************************************************************************)
FindMovedHead(w) ==
  /\ pc[w] \in {"checked", "working", "claimed"}
  /\ IF row = "posted"
       THEN ReleaseClaim(w) /\ Finish(w)
       ELSE /\ Goto(w, IF pc[w] = "checked" THEN "stale" ELSE "skipping")
            /\ UNCHANGED storeVars
  /\ UNCHANGED <<retiring, history>>

SkipMovedHead(w) ==
  /\ pc[w] \in {"stale", "skipping"}
  /\ RecordProcessed("skipped", NoRev)
  /\ Finish(w)
  /\ UNCHANGED <<retiring, history>>

\* The new head only merged the base branch in: the previous review carries.
SkipBaseMergeOnly(w) ==
  /\ pc[w] = "working"
  /\ kind[w] \in {"daemon"} \cup RetryKinds
  /\ RecordBaseMergeOnlySkip
  /\ Finish(w)
  /\ UNCHANGED <<retiring, history>>

\* The dry run ends in its row; nothing public is posted.
CaptureDryRun(w) ==
  /\ pc[w] = "working"
  /\ kind[w] \in DryKinds
  /\ granted < MaxGrants
  /\ TryRecordDryRun(wrev[w], kind[w] = "refresh")
  /\ granted' = IF DryRunAllowed(kind[w] = "refresh") THEN granted + 1 ELSE granted
  /\ Finish(w)
  /\ UNCHANGED <<retiring, posts, spent, owing, forsaken, tainted>>

ClaimHead(w) ==
  /\ pc[w] = "working"
  /\ kind[w] \notin DryKinds
  /\ ClaimAcquired(w, kind[w], wrev[w])
  /\ Goto(w, "claimed")
  /\ UNCHANGED <<retiring, history>>

\* An active claim or a processed row: the loser records nothing.
LoseClaim(w) ==
  /\ pc[w] = "working"
  /\ kind[w] \notin DryKinds
  /\ ClaimBlocked(kind[w], wrev[w])
  /\ Finish(w)
  /\ UNCHANGED <<retiring, history>>

-----------------------------------------------------------------------------
(***************************************************************************)
(* Publication: POST the review, then make its receipt durable.            *)
(***************************************************************************)
Publish(w) ==
  /\ pc[w] = "claimed"
  /\ posts < MaxPosts
  /\ posts' = posts + 1
  /\ spent' = IF kind[w] = "approved" THEN spent + 1 ELSE spent

\* A posted row that requested changes survives a review that only comments:
\* that row was read before the POST and nothing is recorded after it.
CreateReview(w) ==
  /\ Publish(w)
  /\ \/ Goto(w, "posted") /\ owing' = owing \cup {w}
     \/ row = "posted" /\ Goto(w, "recorded") /\ UNCHANGED owing
  /\ UNCHANGED <<storeVars, retiring, granted, forsaken, tainted>>

\* GitHub published the review but the request failed for the caller.
CreateReviewReplyLost(w) ==
  /\ Publish(w)
  /\ owing' = owing \cup {w} /\ tainted' = TRUE
  /\ ReleaseClaim(w)
  /\ Goto(w, "failing")
  /\ UNCHANGED <<retiring, granted, forsaken>>

\* A dead poster's unexpired claim keeps every other invocation off its head.
OrphanGuards == claim = Orphan /\ fresh

\* The last worker that owes a record ends without one.
GiveUp(w) ==
  /\ owing' = owing \ {w}
  /\ forsaken' = (forsaken \/ (owing = {w} /\ row' = "none" /\ ~OrphanGuards'))

\* Mutant: the poster gives its claim back without writing the row.
RecordPostedOnlyReleases(w) ==
  /\ pc[w] = "posted"
  /\ ReleaseClaim(w)
  /\ Goto(w, "recorded")
  /\ owing' = owing \ {w}
  /\ UNCHANGED <<retiring, posts, granted, spent, forsaken, tainted>>

RecordPosted(w) ==
  /\ pc[w] = "posted"
  /\ RecordProcessed("posted", NoRev)
  /\ Goto(w, "recorded")
  /\ owing' = owing \ {w}
  /\ UNCHANGED <<retiring, posts, granted, spent, forsaken, tainted>>

(***************************************************************************)
(* The receipt cannot be written (ReviewPostPersistenceError).  The finally*)
(* block releases the claim; runOnce then tries the receipt once more, the *)
(* scheduler and retryFailedHead record a failed review.                   *)
(***************************************************************************)
PersistFails(w) ==
  /\ pc[w] = "posted"
  /\ tainted' = TRUE
  /\ ReleaseClaim(w)
  /\ Goto(w, IF kind[w] \in DirectKinds THEN "recovering" ELSE "failing")
  /\ UNCHANGED <<retiring, posts, granted, spent, owing, forsaken>>

RecoverReceipt(w) ==
  /\ pc[w] = "recovering"
  /\ RecordProcessed("posted", NoRev) \/ UNCHANGED storeVars
  /\ Return(w)
  /\ GiveUp(w)
  /\ UNCHANGED <<retiring, posts, granted, spent, tainted>>

(***************************************************************************)
(* The head is read once more.  When it moved, or cannot be read, and the  *)
(* row says posted, a second transaction writes that row back with the     *)
(* uncertainty.                                                            *)
(***************************************************************************)
EndPosted(w) ==
  /\ pc[w] = "recorded"
  /\ ReleaseClaim(w)
  /\ Finish(w)
  /\ UNCHANGED <<retiring, history>>

ReadPosted(w) ==
  /\ pc[w] = "recorded"
  /\ row = "posted"
  /\ Goto(w, "unsettled")
  /\ UNCHANGED <<storeVars, retiring, history>>

SettlePosted(w) ==
  /\ pc[w] = "unsettled"
  /\ RecordProcessed("posted", NoRev)
  /\ Finish(w)
  /\ UNCHANGED <<retiring, history>>

-----------------------------------------------------------------------------
(***************************************************************************)
(* Failure: reviewPull throws, its finally block releases the worker's own *)
(* claim, and the caller reads the row and records what happened.          *)
(***************************************************************************)
\* Mutant: no finally block.
FailWithoutRelease(w) ==
  /\ \/ pc[w] = "working" /\ \E p \in {"failing", "throttled"} : Goto(w, p)
     \/ pc[w] = "claimed" /\ Goto(w, "failing")
  /\ UNCHANGED <<storeVars, retiring, history>>

Fail(w) ==
  /\ \/ pc[w] = "working" /\ \E p \in {"failing", "throttled"} : Goto(w, p)
     \/ pc[w] = "claimed" /\ Goto(w, "failing")
  /\ ReleaseClaim(w)
  /\ UNCHANGED <<retiring, history>>

ReadPrevious(w) ==
  /\ pc[w] \in {"failing", "throttled"}
  /\ seen' = [seen EXCEPT ![w] = row]
  /\ pc' = [pc EXCEPT ![w] = IF pc[w] = "failing" THEN "writing" ELSE "deferring"]
  /\ UNCHANGED <<storeVars, kind, wrev, retiring, history>>

\* The previous row decides what a failure may replace.
PreservesDryRun(w) == kind[w] = "approved" /\ seen[w] = "dry_run"

\* recordFailedReview.  Its read and this write are two transactions: a row
\* posted in between becomes a failed one.
RecordFailed(w) ==
  /\ pc[w] = "writing"
  /\ \/ /\ seen[w] \in ApprovalSpentRows
        /\ RecordProcessed("post_error", rev)
     \/ /\ seen[w] \notin ApprovalSpentRows
        /\ seen[w] # "posted"
        /\ ~PreservesDryRun(w)
        /\ RecordProcessed("failed", NoRev)
     \/ /\ seen[w] = "posted" \/ PreservesDryRun(w)
        /\ UNCHANGED storeVars
  /\ Return(w)
  /\ owing' = owing \ {w}
  /\ UNCHANGED <<retiring, posts, granted, spent, forsaken, tainted>>

\* recordProviderRateLimitCooldownIfNeeded, for a provider's throttle.
RecordThrottled(w) ==
  /\ pc[w] = "deferring"
  /\ \/ /\ kind[w] = "approved" /\ seen[w] \in ApprovalSpentRows
        /\ RecordProcessed("post_error", rev)
     \/ /\ PreservesDryRun(w)
        /\ UNCHANGED storeVars
     \/ /\ kind[w] # "approved" \/ seen[w] \notin ApprovalSpentRows \cup {"dry_run"}
        /\ RecordProcessed("cooldown", NoRev)
  /\ Return(w)
  /\ UNCHANGED <<retiring, history>>

-----------------------------------------------------------------------------
(***************************************************************************)
(* The environment: a process dies, a claim's TTL passes, an operator      *)
(* retires a failed head (retireFailedReview, read and write apart).       *)
(***************************************************************************)
Crash(w) ==
  /\ pc[w] # "idle"
  /\ claim' = IF Holds(w) THEN Orphan ELSE claim
  /\ tainted' = (tainted \/ pc[w] = "posted")
  /\ Return(w)
  /\ UNCHANGED <<row, rev, fresh, retiring, posts, granted, spent>>
  /\ GiveUp(w)

ExpireClaim ==
  /\ ClaimExpires
  /\ forsaken' = (forsaken \/ (claim = Orphan /\ posts > 0 /\ row = "none" /\ owing = {}))
  /\ tainted' = (tainted \/ claim \in Workers)
  /\ UNCHANGED <<workerVars, retiring, posts, granted, spent, owing>>

ReadFailedForRetirement ==
  /\ ~retiring
  /\ row = "failed"
  /\ retiring' = TRUE
  /\ UNCHANGED <<storeVars, workerVars, history>>

RetireFailed ==
  /\ retiring
  /\ RecordProcessed("skipped", NoRev)
  /\ retiring' = FALSE
  /\ UNCHANGED <<workerVars, history>>

Step(w) ==
  \/ \E k \in Kinds, r \in Revs : Start(w, k, r) \/ DeferForCooldown(w, k, r)
  \/ AcquireAfterCheck(w) \/ SkipForCapacity(w) \/ ReadRetryRow(w) \/ RestoreRetryRow(w)
  \/ FindMovedHead(w) \/ SkipMovedHead(w) \/ SkipBaseMergeOnly(w) \/ CaptureDryRun(w)
  \/ ClaimHead(w) \/ LoseClaim(w)
  \/ CreateReview(w) \/ CreateReviewReplyLost(w)
  \/ RecordPosted(w) \/ PersistFails(w) \/ RecoverReceipt(w)
  \/ EndPosted(w) \/ ReadPosted(w) \/ SettlePosted(w)
  \/ Fail(w) \/ ReadPrevious(w) \/ RecordFailed(w) \/ RecordThrottled(w)
  \/ Crash(w)

Next ==
  \/ \E w \in Workers : Step(w)
  \/ ExpireClaim
  \/ ReadFailedForRetirement
  \/ RetireFailed

Spec == Init /\ [][Next]_vars

-----------------------------------------------------------------------------
(***************************************************************************)
(* Properties.                                                             *)
(***************************************************************************)

(***************************************************************************)
(* A discovery review that still owns the head's claim when it is about to *)
(* POST publishes the head's FIRST review, whatever dry runs, approvals,   *)
(* commands, retries, failures, deferrals, crashes and retirements went    *)
(* before: as long as no reply or receipt was lost, no poster died before  *)
(* its record and no claim outlived its TTL.                               *)
(* (tryClaimReviewHead's compare-and-set together with recordProcessed     *)
(* retiring the claim in the transaction that writes the row.)             *)
(***************************************************************************)
DiscoveryPostsFirst ==
  \A w \in Workers :
    (pc[w] = "claimed" /\ kind[w] = "daemon" /\ Holds(w) /\ ~tainted) => posts = 0

(***************************************************************************)
(* A head with a public review never looks unreviewed on a path the code   *)
(* can still mend.  Without a processed row, a process that published is   *)
(* on its way to a record (its own receipt, runOnce's second attempt, or   *)
(* the failure its caller writes after a lost reply or receipt), or it     *)
(* died and its unexpired claim still keeps every other invocation off.    *)
(* The exceptions, forsaken, are what nothing in the code can record: the  *)
(* poster dies after its finally block gave the claim back or after the    *)
(* claim ran out, a dead poster's claim runs out, or runOnce cannot write  *)
(* the receipt the second time either.  What the row says is not part of   *)
(* it: a failed row may replace a posted one (recordFailedReview).         *)
(***************************************************************************)
PublishedIsRecorded ==
  (posts > 0 /\ row = "none") =>
    owing # {} \/ OrphanGuards \/ forsaken

(***************************************************************************)
(* An approved dry run is spent by at most one POST: also when the poster  *)
(* crashes, its reply or receipt is lost, its claim expires, and whatever  *)
(* retries follow (consumeProcessedApprovalOnAcquire).                     *)
(***************************************************************************)
ApprovalSpentOnce == spent <= granted

(***************************************************************************)
(* An approved transition that still owns the claim when it is about to    *)
(* POST has consumed an approval, and of its own revision, even when a dry *)
(* run of another revision replaced the row after it was admitted (the     *)
(* claim transaction compares the revision again).                         *)
(***************************************************************************)
ApprovedRevisionIsPosted ==
  \A w \in Workers :
    (pc[w] = "claimed" /\ kind[w] = "approved" /\ Holds(w))
      => row = "consumed" /\ rev = wrev[w]

\* A live process never leaves its claim behind: the finally block, or the
\* transaction that writes the row, removes it on every path.
ClaimIsReleased == claim \in Workers => pc[claim] \in ClaimPcs

(***************************************************************************)
(* What README.md and the comment on tryClaimReviewHead state, even with   *)
(* every receipt recorded and no claim expired: at most one review per     *)
(* {repo, pr, head_sha}.                                                   *)
(***************************************************************************)
AtMostOneReviewPerHead == ~tainted => posts <= 1
==============================================================================
