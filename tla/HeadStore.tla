------------------------------ MODULE HeadStore ------------------------------
(***************************************************************************)
(* The rows that the review state store (src/src/state.ts) keeps for ONE   *)
(* pull-request head: its processed_reviews row and its review_head_claims *)
(* row.  Both tables have {repo, pull_number, head_sha} as primary key, so *)
(* different heads never touch the same rows and one head is enough.       *)
(*                                                                         *)
(* Every operator below is one "begin immediate" ... "commit" transaction  *)
(* of the store, and therefore one atomic step.                            *)
(***************************************************************************)
EXTENDS Naturals, FiniteSets

CONSTANTS
  Workers,   \* running review invocations, in any number of processes
  Nobody,    \* "there is no claim row"
  Orphan,    \* owner of a claim whose process died: nobody can release it
  Revs,      \* configuration revisions (SHA-256 digests in the code)
  NoRev      \* a null config_revision column

ASSUME StoreConstants ==
  /\ IsFiniteSet(Workers)
  /\ Nobody \notin Workers
  /\ Orphan \notin Workers
  /\ Nobody # Orphan
  /\ NoRev \notin Revs

VARIABLES
  row,    \* the status and error of the processed row, as one of RowKinds
  rev,    \* its config_revision
  claim,  \* owner of the claim row
  fresh   \* whether the claim row exists and has not yet expired

storeVars == <<row, rev, claim, fresh>>

(***************************************************************************)
(* A processed row is told apart by (status, error class):                 *)
(*   "cooldown"   skipped, provider_rate_limit_cooldown_until=...          *)
(*   "consumed"   skipped, approved_dry_run_consumed_for_live_post         *)
(*   "post_error" skipped, approved_dry_run_consumed...; post_error=...    *)
(*   "base_merge" skipped, base_merge_only                                 *)
(*   "skipped"    skipped for any other reason (stale head, closed,        *)
(*                retired, ...)                                            *)
(***************************************************************************)
RowKinds == {"none", "dry_run", "posted", "failed", "cooldown", "consumed",
             "post_error", "base_merge", "skipped"}

\* isRetryableApprovedDryRunPrePostFailure and the failed / deferred rows.
RetryableRows == {"failed", "cooldown"}
ApprovalSpentRows == {"consumed", "post_error"}

StoreTypeOK ==
  /\ row \in RowKinds
  /\ rev \in Revs \cup {NoRev}
  /\ claim \in Workers \cup {Nobody, Orphan}
  /\ fresh \in BOOLEAN
  /\ fresh => claim # Nobody

StoreInit ==
  /\ row = "none"
  /\ rev = NoRev
  /\ claim = Nobody
  /\ fresh = FALSE

\* Mutant: the claim row is deleted but still counts as live.
NoClaimButLive == claim' = Nobody /\ UNCHANGED fresh

NoClaim == claim' = Nobody /\ fresh' = FALSE

-----------------------------------------------------------------------------
(***************************************************************************)
(* recordProcessed: upsert the row and retire the head's claim, whoever    *)
(* owns it.  Only a base_merge_only record is refused, over a posted row.  *)
(***************************************************************************)
RecordProcessed(k, r) ==
  /\ IF k = "base_merge" /\ row = "posted"
       THEN UNCHANGED <<row, rev>>
       ELSE row' = k /\ rev' = r
  /\ NoClaim

(***************************************************************************)
(* recordBaseMergeOnlySkip is a write by a non-owner: it is refused while  *)
(* an unexpired claim or a non-retryable row exists, and never touches the *)
(* claim.  (The anchor review on the previous head is assumed to match;    *)
(* repo_queue_capacity_full rows are "skipped" rows here.)                 *)
(***************************************************************************)
BaseMergeSkipAllowed == ~fresh /\ row \in {"none"} \cup RetryableRows

RecordBaseMergeOnlySkip ==
  /\ IF BaseMergeSkipAllowed
       THEN row' = "base_merge" /\ rev' = NoRev
       ELSE UNCHANGED <<row, rev>>
  /\ UNCHANGED <<claim, fresh>>

(***************************************************************************)
(* tryRecordDryRun: sweep an expired claim, then record the dry run unless *)
(* a live claim or a row that a dry run may not replace is in the way.     *)
(***************************************************************************)
DryRunAllowed(overBaseMerge) ==
  /\ ~fresh
  /\ \/ row \in {"none", "dry_run", "post_error"}
     \/ row = "base_merge" /\ overBaseMerge

TryRecordDryRun(r, overBaseMerge) ==
  /\ IF DryRunAllowed(overBaseMerge)
       THEN row' = "dry_run" /\ rev' = r
       ELSE UNCHANGED <<row, rev>>
  /\ IF fresh THEN UNCHANGED <<claim, fresh>> ELSE NoClaim

(***************************************************************************)
(* tryClaimReviewHeadWithOutcome.  A processed row blocks the claim unless *)
(* the caller may supersede it; the kinds of caller and what each must     *)
(* find are set where the worker builds its claim request.                 *)
(***************************************************************************)
Supersedes(k, r) ==
  \/ k \in {"command", "retry", "requeue"}
  \/ k = "approved" /\ row = "dry_run" /\ rev = r
  \/ k = "manual" /\ row = "base_merge"

\* Mutant: the claim is only a compare-and-set on the claim row.
ClaimAllowedOverAnyRow(k, r) == ~fresh

\* Mutant: an approved transition may consume the dry run of any revision.
ClaimAllowedForAnyRevision(k, r) ==
  /\ ~fresh
  /\ \/ row = "none" /\ k # "approved"
     \/ row # "none" /\ Supersedes(k, rev)

ClaimAllowed(k, r) ==
  /\ ~fresh
  /\ \/ row = "none" /\ k # "approved"
     \/ row # "none" /\ Supersedes(k, r)

\* Mutant: the approval is left in place for its poster to consume later.
ClaimAcquiredUnconsumed(w, k, r) ==
  /\ ClaimAllowed(k, r)
  /\ claim' = w /\ fresh' = TRUE
  /\ UNCHANGED <<row, rev>>

\* An approved live post consumes the dry-run row in the claim transaction.
ClaimAcquired(w, k, r) ==
  /\ ClaimAllowed(k, r)
  /\ claim' = w /\ fresh' = TRUE
  /\ row' = IF k = "approved" THEN "consumed" ELSE row
  /\ UNCHANGED rev

ClaimBlocked(k, r) ==
  /\ ~ClaimAllowed(k, r)
  /\ IF fresh THEN UNCHANGED <<claim, fresh>> ELSE NoClaim
  /\ UNCHANGED <<row, rev>>

\* releaseReviewHeadClaim deletes by claim_id: only the owner's own claim.
ReleaseClaim(w) ==
  /\ IF claim = w THEN NoClaim ELSE UNCHANGED <<claim, fresh>>
  /\ UNCHANGED <<row, rev>>

\* The claim's expires_at passes; the row stays until somebody sweeps it.
ClaimExpires ==
  /\ fresh
  /\ fresh' = FALSE
  /\ UNCHANGED <<row, rev, claim>>
==============================================================================
