------------------------------- MODULE RunLease -------------------------------
(***************************************************************************)
(* Review run leases against worktree cleanup: the review_run_leases and   *)
(* worktree_cleanup_guard tables of the review state store, shared by      *)
(* every process that reviews or cleans up (src/src/state.ts), and the     *)
(* cleanup pass of the daemon (src/src/daemon.ts).                         *)
(*                                                                         *)
(* A review asks for a lease before it prepares its worktree and gives it  *)
(* back in its finally block.  A cleanup pass removes each stale worktree  *)
(* under an exclusive guard.  Both expire, and both are discarded once the *)
(* process that owns them is dead.  A process never comes back under its   *)
(* old process id: a restarted daemon is another member of Procs.          *)
(***************************************************************************)
EXTENDS Naturals, FiniteSets

CONSTANTS
  Procs,    \* operating-system processes
  NoProc,   \* "there is no guard row"
  Workers,  \* review invocations
  Owner,    \* the process each of them runs in
  MaxRuns   \* reviewConcurrency.maxActiveRuns

ASSUME LeaseConstants ==
  /\ IsFiniteSet(Workers)
  /\ Owner \in [Workers -> Procs]
  /\ NoProc \notin Procs
  /\ MaxRuns \in Nat \ {0}

VARIABLES
  alive,         \* processes that run
  running,       \* workers that are inside a review
  leases,        \* workers with a row in review_run_leases
  expired,       \* workers whose lease has outlived its TTL
  guard,         \* owner of the cleanup guard row
  guardExpired,  \* the guard row has outlived its TTL
  pass           \* where each process is in its cleanup pass

vars == <<alive, running, leases, expired, guard, guardExpired, pass>>

reviewVars == <<running, leases, expired>>
guardVars == <<guard, guardExpired>>

TypeOK ==
  /\ alive \subseteq Procs
  /\ running \subseteq Workers
  /\ leases \subseteq Workers
  /\ expired \subseteq Workers
  /\ guard \in Procs \cup {NoProc}
  /\ guardExpired \in BOOLEAN
  /\ guardExpired => guard # NoProc
  /\ pass \in [Procs -> {"idle", "scanning", "removing"}]

Init ==
  /\ alive = Procs
  /\ running = {}
  /\ leases = {}
  /\ expired = {}
  /\ guard = NoProc
  /\ guardExpired = FALSE
  /\ pass = [p \in Procs |-> "idle"]

\* The pass is synchronous: nothing else runs in that process meanwhile.
Awake(w) == Owner[w] \in alive /\ pass[Owner[w]] = "idle"

-----------------------------------------------------------------------------
(***************************************************************************)
(* pruneInactiveReviewRunLeases, pruneInactiveWorktreeCleanupGuard.        *)
(***************************************************************************)
LiveLeases == {w \in leases : w \notin expired /\ Owner[w] \in alive}

\* Mutant: only the TTL retires a guard.
LiveGuardByTtl == IF guardExpired THEN NoProc ELSE guard

LiveGuard == IF guardExpired \/ guard \notin alive THEN NoProc ELSE guard

(***************************************************************************)
(* tryAcquireReviewRunLease: prune, then refuse under a guard or at the    *)
(* limit.  A failed-head retry asks with a limit of 1.  Refused or not,    *)
(* what was pruned stays pruned.                                           *)
(***************************************************************************)
\* Mutant: the cleanup guard is not consulted.
MayRunIgnoringGuard(limit) == Cardinality(LiveLeases) < limit

\* Mutant: off by one at the limit.
MayRunPastLimit(limit) ==
  LiveGuard = NoProc /\ Cardinality(LiveLeases) <= limit

MayRun(limit) == LiveGuard = NoProc /\ Cardinality(LiveLeases) < limit

TryAcquire(w, limit) ==
  /\ Awake(w)
  /\ w \notin running
  /\ \/ /\ MayRun(limit)
        /\ leases' = LiveLeases \cup {w}
        /\ running' = running \cup {w}
        /\ expired' = expired \ {w}
     \/ /\ ~MayRun(limit)
        /\ leases' = LiveLeases
        /\ UNCHANGED <<running, expired>>
  /\ guard' = LiveGuard
  /\ guardExpired' = (guardExpired /\ LiveGuard # NoProc)
  /\ UNCHANGED <<alive, pass>>

\* Mutant: the finally block ends the review but keeps its row.
ReleaseKeepsRow(w) ==
  /\ Awake(w)
  /\ w \in running
  /\ running' = running \ {w}
  /\ UNCHANGED <<alive, leases, expired, guardVars, pass>>

\* releaseReviewCapacity, in the finally block of the review.
Release(w) ==
  /\ Awake(w)
  /\ w \in running
  /\ running' = running \ {w}
  /\ leases' = leases \ {w}
  /\ expired' = expired \ {w}
  /\ UNCHANGED <<alive, guardVars, pass>>

\* clearReviewQueueLeases, unfiltered: the operator deletes stale run leases.
OperatorClearsStale ==
  /\ leases' = LiveLeases
  /\ UNCHANGED <<alive, running, expired, guardVars, pass>>

-----------------------------------------------------------------------------
(***************************************************************************)
(* cleanupReviewWorktreesFromConfig: one look at the leases for the whole  *)
(* pass, then a guarded removal per worktree.                              *)
(***************************************************************************)
\* hasActiveReviewRunLease: a lease counts while its process lives, expired
\* or not.
ActiveLease == \E w \in leases : Owner[w] \in alive

StartScan(p) ==
  /\ p \in alive
  /\ pass[p] = "idle"
  /\ ~ActiveLease
  /\ pass' = [pass EXCEPT ![p] = "scanning"]
  /\ UNCHANGED <<alive, reviewVars, guardVars>>

\* runWithExclusiveReviewIdleGuard, up to its commit.
Idle == LiveGuard = NoProc /\ ~ActiveLease

TakeGuard(p) ==
  /\ p \in alive
  /\ pass[p] = "scanning"
  /\ Idle
  /\ guard' = p
  /\ guardExpired' = FALSE
  /\ pass' = [pass EXCEPT ![p] = "removing"]
  /\ UNCHANGED <<alive, reviewVars>>

\* The guard is refused and the worktree skipped.
SkipWorktree(p) ==
  /\ p \in alive
  /\ pass[p] = "scanning"
  /\ ~Idle
  /\ guard' = LiveGuard
  /\ guardExpired' = (guardExpired /\ LiveGuard # NoProc)
  /\ UNCHANGED <<alive, reviewVars, pass>>

\* Mutant: the guard row is dropped but its expiry still counts.
EndRemovalKeepsExpiry(p) ==
  /\ p \in alive
  /\ pass[p] = "removing"
  /\ pass' = [pass EXCEPT ![p] = "scanning"]
  /\ guard' = IF guard = p THEN NoProc ELSE guard
  /\ UNCHANGED <<alive, reviewVars, guardExpired>>

\* git worktree remove ended; the process drops the guard if it is its own.
EndRemoval(p) ==
  /\ p \in alive
  /\ pass[p] = "removing"
  /\ pass' = [pass EXCEPT ![p] = "scanning"]
  /\ guard' = IF guard = p THEN NoProc ELSE guard
  /\ guardExpired' = (guardExpired /\ guard # p)
  /\ UNCHANGED <<alive, reviewVars>>

EndScan(p) ==
  /\ p \in alive
  /\ pass[p] = "scanning"
  /\ pass' = [pass EXCEPT ![p] = "idle"]
  /\ UNCHANGED <<alive, reviewVars, guardVars>>

-----------------------------------------------------------------------------
(***************************************************************************)
(* Time and crashes.  One process is always up: the service manager starts *)
(* the daemon again.                                                       *)
(***************************************************************************)
ExpireLease(w) ==
  /\ w \in leases \ expired
  /\ expired' = expired \cup {w}
  /\ UNCHANGED <<alive, running, leases, guardVars, pass>>

ExpireGuard ==
  /\ guard # NoProc
  /\ guardExpired' = TRUE
  /\ UNCHANGED <<alive, reviewVars, guard, pass>>

Crash(p) ==
  /\ p \in alive
  /\ alive # {p}
  /\ alive' = alive \ {p}
  /\ running' = {w \in running : Owner[w] # p}
  /\ pass' = [pass EXCEPT ![p] = "idle"]
  /\ UNCHANGED <<leases, expired, guardVars>>

Limits == {1, MaxRuns}

Next ==
  \/ \E w \in Workers :
       \/ \E limit \in Limits : TryAcquire(w, limit)
       \/ Release(w)
       \/ ExpireLease(w)
  \/ \E p \in Procs :
       \/ StartScan(p) \/ TakeGuard(p) \/ SkipWorktree(p)
       \/ EndRemoval(p) \/ EndScan(p) \/ Crash(p)
  \/ OperatorClearsStale
  \/ ExpireGuard

(***************************************************************************)
(* Reviews end (every provider call has a timeout), removals end (each git *)
(* subprocess is killed after 30 s), a scan is a loop over a directory     *)
(* listing, and every daemon cycle runs at most one cleanup pass before it *)
(* asks for leases: the asking recurs however often passes come between.   *)
(***************************************************************************)
Fairness ==
  /\ \A w \in Workers : SF_vars(Release(w))
  /\ \A p \in Procs : WF_vars(EndRemoval(p)) /\ SF_vars(EndScan(p))
  /\ SF_vars(\E w \in Workers, limit \in Limits : TryAcquire(w, limit))

Spec == Init /\ [][Next]_vars

FairSpec == Spec /\ Fairness

-----------------------------------------------------------------------------
(***************************************************************************)
(* Properties.                                                             *)
(***************************************************************************)
\* p removes a worktree under a guard that still holds.
HoldsGuard(p) == pass[p] = "removing" /\ guard = p /\ ~guardExpired

(***************************************************************************)
(* While a process removes a worktree under an unexpired guard, every      *)
(* review in progress, in whatever process, has outlived its own lease:    *)
(* admission (tryAcquireReviewRunLease) and cleanup                        *)
(* (runWithExclusiveReviewIdleGuard) exclude one another.                  *)
(***************************************************************************)
RemovalExcludesReviews ==
  \A p \in Procs : HoldsGuard(p) => running \subseteq expired

(***************************************************************************)
(* Over all processes, at most maxActiveRuns reviews are in progress under *)
(* unexpired leases, whatever crashed, expired or was cleared by hand.     *)
(***************************************************************************)
CapacityRespected == Cardinality(running \ expired) <= MaxRuns

(***************************************************************************)
(* Seen through unexpired leases and guards, the processes keep the        *)
(* promise of ExclusiveCleanup at every step: no prune, refusal, expiry,   *)
(* clearing by hand or crash lets a review start beside a removal, or a    *)
(* removal beside a review or beside another removal.                      *)
(***************************************************************************)
Exclusion == INSTANCE ExclusiveCleanup WITH
  reviewing <- running \ expired,
  removing <- {p \in Procs : HoldsGuard(p)}

CleanupIsExclusive == Exclusion!ExclusionSpec

\* No live process leaves a lease behind: the finally block returns it.
LeaseIsReturned == \A w \in leases : Owner[w] \in alive => w \in running

(***************************************************************************)
(* What a dead process left, a guard or a lease, does not block reviews    *)
(* for ever: the next admission discards it.                               *)
(***************************************************************************)
DeadOwnersAreDiscarded ==
  \A p \in Procs :
    p \notin alive ~> guard # p /\ \A w \in leases : Owner[w] # p
==============================================================================
