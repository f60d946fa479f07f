---------------------------- MODULE RunLeaseProofs ----------------------------
(***************************************************************************)
(* RunLease's safety for every set of processes and workers.               *)
(***************************************************************************)
EXTENDS RunLease, FiniteSetTheorems, TLAPS

\* Only live processes review, and only live processes clean up.
ActorsAreAlive ==
  /\ \A w \in running : Owner[w] \in alive
  /\ \A p \in Procs : pass[p] # "idle" => p \in alive

\* A review whose lease has not expired still has its row.
LeaseOutlivesReview == running \ expired \subseteq leases

\* The table never holds more rows than the limit it is filled under.
RowsBounded == Cardinality(leases) <= MaxRuns

\* The inductive invariant.
IInv ==
  /\ TypeOK
  /\ ActorsAreAlive
  /\ LeaseOutlivesReview
  /\ LeaseIsReturned
  /\ RemovalExcludesReviews
  /\ RowsBounded

LEMMA FiniteRows ==
  ASSUME NEW S \in SUBSET Workers
  PROVE  IsFiniteSet(S) /\ Cardinality(S) \in Nat
BY LeaseConstants, FS_Subset, FS_CardinalityType

LEMMA FewerRows ==
  ASSUME NEW S \in SUBSET Workers, NEW T \in SUBSET S, Cardinality(S) <= MaxRuns
  PROVE  Cardinality(T) <= MaxRuns
<1>1. Cardinality(T) <= Cardinality(S)
  BY FiniteRows, FS_Subset
<1>2. Cardinality(S) \in Nat /\ Cardinality(T) \in Nat
  BY FiniteRows
<1> QED BY <1>1, <1>2, LeaseConstants

LEMMA InvImpliesCapacity == IInv => CapacityRespected
<1> SUFFICES ASSUME IInv PROVE CapacityRespected
  OBVIOUS
<1>1. running \ expired \in SUBSET leases /\ leases \in SUBSET Workers
  BY DEF IInv, LeaseOutlivesReview, TypeOK
<1> QED BY <1>1, FewerRows DEF IInv, RowsBounded, CapacityRespected

LEMMA InitEstablishes == Init => IInv
<1> SUFFICES ASSUME Init PROVE IInv
  OBVIOUS
<1>1. Cardinality({}) = 0
  BY FS_EmptySet
<1>2. RowsBounded
  BY <1>1, LeaseConstants DEF Init, RowsBounded
<1> QED BY <1>2, LeaseConstants
        DEF Init, IInv, TypeOK, ActorsAreAlive, LeaseOutlivesReview,
            LeaseIsReturned, RemovalExcludesReviews

(***************************************************************************)
(* An admission fills the table at most up to the limit it was asked under.*)
(***************************************************************************)
LEMMA AdmissionIsBounded ==
  ASSUME IInv, NEW w \in Workers, NEW limit \in Limits, TryAcquire(w, limit)
  PROVE  RowsBounded'
<1>1. LiveLeases \in SUBSET leases /\ leases \in SUBSET Workers
  BY DEF IInv, TypeOK, LiveLeases
<1>2. Cardinality(LiveLeases) \in Nat /\ limit \in Nat /\ limit <= MaxRuns
  BY <1>1, FiniteRows, LeaseConstants DEF Limits
<1>3. CASE MayRun(limit)
  <2>1. leases' = LiveLeases \cup {w} \/ leases' = LiveLeases
    BY DEF TryAcquire
  <2>2. Cardinality(LiveLeases \cup {w}) <= Cardinality(LiveLeases) + 1
    BY <1>1, <1>2, FiniteRows, FS_AddElement
  <2>3. Cardinality(LiveLeases) < limit
    BY <1>3 DEF MayRun
  <2>4. Cardinality(LiveLeases \cup {w}) \in Nat
    BY <1>1, FiniteRows
  <2>5. Cardinality(LiveLeases \cup {w}) <= MaxRuns
    BY <1>2, <2>2, <2>3, <2>4, LeaseConstants
  <2>6. Cardinality(LiveLeases) <= MaxRuns
    BY <1>2, <2>3, LeaseConstants
  <2>7. CASE leases' = LiveLeases \cup {w}
    BY <2>5, <2>7 DEF RowsBounded
  <2>8. CASE leases' = LiveLeases
    BY <2>6, <2>8 DEF RowsBounded
  <2> QED BY <2>1, <2>7, <2>8
<1>4. CASE ~MayRun(limit)
  <2>1. leases' = LiveLeases
    BY <1>4 DEF TryAcquire
  <2> QED BY <1>1, <2>1, FewerRows DEF IInv, RowsBounded
<1> QED BY <1>3, <1>4

\* The other actions never add a row.
LEMMA NoNewRow ==
  ASSUME IInv, leases' \subseteq leases
  PROVE  RowsBounded'
BY FewerRows DEF IInv, TypeOK, RowsBounded

LEMMA WorkerStep ==
  ASSUME IInv, NEW w \in Workers,
         \/ \E limit \in Limits : TryAcquire(w, limit)
         \/ Release(w)
         \/ ExpireLease(w)
  PROVE  IInv'
<1> USE LeaseConstants
    DEF TypeOK, ActorsAreAlive, LeaseOutlivesReview, LeaseIsReturned,
        RemovalExcludesReviews, HoldsGuard, guardVars, reviewVars
<1>1. ASSUME NEW limit \in Limits, TryAcquire(w, limit) PROVE IInv'
  <2> USE <1>1 DEF IInv, TryAcquire, Awake, LiveLeases, LiveGuard
  <2>1. TypeOK'
    OBVIOUS
  <2>2. ActorsAreAlive'
    OBVIOUS
  <2>3. LeaseOutlivesReview'
    OBVIOUS
  <2>4. LeaseIsReturned'
    OBVIOUS
  <2>5. RemovalExcludesReviews'
    BY DEF MayRun
  <2> QED BY <2>1, <2>2, <2>3, <2>4, <2>5, AdmissionIsBounded
<1>2. CASE Release(w)
  <2>1. RowsBounded'
    BY <1>2, NoNewRow DEF Release
  <2> QED BY <1>2, <2>1 DEF IInv, Release, Awake
<1>3. CASE ExpireLease(w)
  <2>1. RowsBounded'
    BY <1>3, NoNewRow DEF ExpireLease
  <2> QED BY <1>3, <2>1 DEF IInv, ExpireLease
<1> QED BY <1>1, <1>2, <1>3

LEMMA ProcessStep ==
  ASSUME IInv, NEW p \in Procs,
         \/ StartScan(p) \/ TakeGuard(p) \/ SkipWorktree(p)
         \/ EndRemoval(p) \/ EndScan(p) \/ Crash(p)
  PROVE  IInv'
<1>1. RowsBounded'
  BY NoNewRow DEF StartScan, TakeGuard, SkipWorktree, EndRemoval, EndScan, Crash, reviewVars
<1> USE <1>1, LeaseConstants
    DEF IInv, TypeOK, ActorsAreAlive, LeaseOutlivesReview, LeaseIsReturned,
        RemovalExcludesReviews, HoldsGuard, guardVars, reviewVars
<1>2. CASE StartScan(p)
  BY <1>2 DEF StartScan
<1>3. CASE TakeGuard(p)
  BY <1>3 DEF TakeGuard, Idle, ActiveLease
<1>4. CASE SkipWorktree(p)
  BY <1>4 DEF SkipWorktree, LiveGuard
<1>5. CASE EndRemoval(p)
  BY <1>5 DEF EndRemoval
<1>6. CASE EndScan(p)
  BY <1>6 DEF EndScan
<1>7. CASE Crash(p)
  BY <1>7 DEF Crash
<1> QED BY <1>2, <1>3, <1>4, <1>5, <1>6, <1>7

LEMMA OtherStep ==
  ASSUME IInv, OperatorClearsStale \/ ExpireGuard \/ UNCHANGED vars
  PROVE  IInv'
<1>1. RowsBounded'
  BY NoNewRow DEF OperatorClearsStale, LiveLeases, ExpireGuard, vars, reviewVars
<1> USE <1>1, LeaseConstants
    DEF IInv, TypeOK, ActorsAreAlive, LeaseOutlivesReview, LeaseIsReturned,
        RemovalExcludesReviews, HoldsGuard, guardVars, reviewVars
<1>2. CASE OperatorClearsStale
  BY <1>2 DEF OperatorClearsStale, LiveLeases
<1>3. CASE ExpireGuard
  BY <1>3 DEF ExpireGuard
<1>4. CASE UNCHANGED vars
  BY <1>4 DEF vars
<1> QED BY <1>2, <1>3, <1>4

LEMMA Inductive == Spec => []IInv
<1>1. IInv /\ [Next]_vars => IInv'
  BY WorkerStep, ProcessStep, OtherStep DEF Next
<1> QED BY InitEstablishes, <1>1, PTL DEF Spec

\* Every table of the store and every process stays in its type.
THEOREM TypeCorrect == Spec => []TypeOK
<1>1. IInv => TypeOK
  BY DEF IInv
<1> QED BY <1>1, Inductive, PTL

\* Admission and cleanup exclude one another, for any number of processes.
THEOREM RemovalIsExclusive == Spec => []RemovalExcludesReviews
<1>1. IInv => RemovalExcludesReviews
  BY DEF IInv
<1> QED BY <1>1, Inductive, PTL

\* maxActiveRuns bounds the reviews of all processes together.
THEOREM CapacityHolds == Spec => []CapacityRespected
BY InvImpliesCapacity, Inductive, PTL

\* A live process leaves no lease behind.
THEOREM LeasesAreReturned == Spec => []LeaseIsReturned
<1>1. IInv => LeaseIsReturned
  BY DEF IInv
<1> QED BY <1>1, Inductive, PTL

-----------------------------------------------------------------------------
(***************************************************************************)
(* RunLease implements the readers-writer lock of ExclusiveCleanup.        *)
(***************************************************************************)
Reviewing == running \ expired
Removing == {p \in Procs : HoldsGuard(p)}

\* The removal in progress owns the live guard: every step that finds the
\* guard free finds nothing being removed.
LEMMA RemoverIsGuard ==
  ASSUME IInv, NEW p \in Procs, HoldsGuard(p)
  PROVE  /\ LiveGuard = p /\ LiveGuard # NoProc
         /\ Removing = {p} /\ Reviewing = {}
<1>1. p \in alive
  BY DEF IInv, ActorsAreAlive, HoldsGuard
<1>2. LiveGuard = p /\ p # NoProc
  BY <1>1, LeaseConstants DEF HoldsGuard, LiveGuard
<1>3. Removing = {p}
  BY DEF Removing, HoldsGuard
<1>4. Reviewing = {}
  BY DEF Reviewing, IInv, RemovalExcludesReviews
<1> QED BY <1>2, <1>3, <1>4

LEMMA FreeGuard ==
  ASSUME IInv, LiveGuard = NoProc
  PROVE  Removing = {}
BY RemoverIsGuard DEF Removing

\* Discarding a guard that no longer holds is invisible.
LEMMA PruneIsInvisible ==
  ASSUME IInv, UNCHANGED pass,
         guard' = LiveGuard, guardExpired' = (guardExpired /\ LiveGuard # NoProc)
  PROVE  Removing' = Removing
<1>1. CASE LiveGuard = NoProc
  <2>1. Removing' = {}
    BY <1>1, LeaseConstants DEF Removing, HoldsGuard
  <2> QED BY <1>1, <2>1, FreeGuard
<1>2. CASE LiveGuard # NoProc
  <2>1. guard' = guard /\ guardExpired' = guardExpired
    <3>1. ~guardExpired /\ guard = LiveGuard
      BY <1>2 DEF LiveGuard
    <3>2. guardExpired' = FALSE /\ guardExpired = FALSE
      BY <3>1 DEF IInv, TypeOK
    <3> QED BY <3>1, <3>2
  <2> QED BY <2>1 DEF Removing, HoldsGuard
<1> QED BY <1>1, <1>2

\* Every review that counts is in the table and in a live process.
LEMMA ReviewsAreRows ==
  ASSUME IInv
  PROVE  /\ Reviewing \in SUBSET LiveLeases
         /\ ~ActiveLease => Reviewing = {}
<1>1. \A w \in Reviewing : w \in leases /\ w \notin expired /\ Owner[w] \in alive
  BY DEF IInv, ActorsAreAlive, LeaseOutlivesReview, Reviewing
<1>2. Reviewing \in SUBSET LiveLeases
  BY <1>1 DEF LiveLeases
<1>3. ~ActiveLease => Reviewing = {}
  BY <1>1 DEF ActiveLease
<1> QED BY <1>2, <1>3

\* An admission enters the lock, a refusal does nothing to it.
LEMMA AdmissionEnters ==
  ASSUME IInv, NEW w \in Workers, NEW limit \in Limits, TryAcquire(w, limit)
  PROVE  \/ Exclusion!Enter(w)
         \/ Reviewing' = Reviewing /\ Removing' = Removing
<1>1. Removing' = Removing
  BY PruneIsInvisible DEF TryAcquire
<1>2. CASE /\ MayRun(limit)
           /\ running' = running \cup {w}
           /\ expired' = expired \ {w}
  <2>1. Removing = {}
    BY <1>2, FreeGuard DEF MayRun
  <2>2. w \notin Reviewing /\ Reviewing' = Reviewing \cup {w}
    BY <1>2 DEF TryAcquire, Reviewing
  <2>3. Cardinality(Reviewing) < MaxRuns
    <3>1. LiveLeases \in SUBSET Workers /\ Reviewing \in SUBSET LiveLeases
      BY ReviewsAreRows DEF IInv, TypeOK, LiveLeases
    <3>2. Cardinality(Reviewing) <= Cardinality(LiveLeases)
      BY <3>1, FiniteRows, FS_Subset
    <3>3. Cardinality(Reviewing) \in Nat /\ Cardinality(LiveLeases) \in Nat
      BY <3>1, FiniteRows
    <3>4. Cardinality(LiveLeases) < limit
      BY <1>2 DEF MayRun
    <3>5. limit \in Nat /\ MaxRuns \in Nat /\ limit <= MaxRuns
      BY LeaseConstants DEF Limits
    <3> QED BY <3>2, <3>3, <3>4, <3>5
  <2>4. Exclusion!Cardinality(Reviewing) = Cardinality(Reviewing)
    BY DEF Cardinality, Exclusion!Cardinality
  <2> QED BY <1>1, <2>1, <2>2, <2>3, <2>4 DEF Exclusion!Enter, Reviewing, Removing
<1>3. CASE UNCHANGED <<running, expired>>
  BY <1>1, <1>3 DEF Reviewing
<1> QED BY <1>2, <1>3 DEF TryAcquire

\* A process that takes the guard starts the only removal, beside no review.
LEMMA GuardRemoves ==
  ASSUME IInv, NEW p \in Procs, TakeGuard(p)
  PROVE  Exclusion!Remove(p)
<1>1. Removing = {}
  BY FreeGuard DEF TakeGuard, Idle
<1>2. Reviewing = {}
  BY ReviewsAreRows DEF TakeGuard, Idle
<1>3. Reviewing' = Reviewing
  BY DEF TakeGuard, reviewVars, Reviewing
<1>4. \A q \in Procs : HoldsGuard(q)' <=> q = p
  BY DEF TakeGuard, HoldsGuard, IInv, TypeOK
<1>5. Removing' = {p}
  BY <1>4 DEF Removing
<1> QED BY <1>1, <1>2, <1>3, <1>5 DEF Exclusion!Remove, Reviewing, Removing

\* A removal ends with its guard or with its process; in its last step no
\* review ends, since none was in progress.
LEMMA LettingGoOfGuard ==
  ASSUME IInv, Removing' \in SUBSET Removing, Reviewing' \in SUBSET Reviewing
  PROVE  Exclusion!Leave \/ Exclusion!EndOfRemoval
<1>1. CASE Removing = {}
  BY <1>1 DEF Exclusion!Leave, Reviewing, Removing
<1>2. CASE Removing # {}
  <2>1. PICK p \in Procs : HoldsGuard(p)
    BY <1>2 DEF Removing
  <2>2. Removing = {p} /\ Reviewing = {}
    BY <2>1, RemoverIsGuard
  <2>3. Removing' = {} \/ Removing' = Removing
    BY <2>2
  <2>4. Reviewing' = Reviewing
    BY <2>2
  <2> QED BY <2>3, <2>4 DEF Exclusion!Leave, Exclusion!EndOfRemoval, Reviewing, Removing
<1> QED BY <1>1, <1>2

\* Every step but an admission and the taking of the guard only lets go.
LEMMA OtherStepsLetGo ==
  ASSUME IInv,
         \/ \E w \in Workers : Release(w) \/ ExpireLease(w)
         \/ \E p \in Procs :
              StartScan(p) \/ SkipWorktree(p) \/ EndRemoval(p) \/ EndScan(p) \/ Crash(p)
         \/ OperatorClearsStale
         \/ ExpireGuard
  PROVE  Exclusion!Leave \/ Exclusion!EndOfRemoval
<1> SUFFICES Removing' \in SUBSET Removing /\ Reviewing' \in SUBSET Reviewing
  BY LettingGoOfGuard
<1>1. ASSUME NEW w \in Workers, Release(w) \/ ExpireLease(w)
      PROVE  Removing' = Removing /\ Reviewing' \in SUBSET Reviewing
  BY <1>1 DEF Release, ExpireLease, guardVars, Removing, Reviewing, HoldsGuard
<1>2. ASSUME NEW p \in Procs, StartScan(p) \/ EndScan(p)
      PROVE  Removing' \in SUBSET Removing /\ Reviewing' = Reviewing
  <2>1. \A q \in Procs : HoldsGuard(q)' => HoldsGuard(q)
    BY <1>2 DEF StartScan, EndScan, guardVars, HoldsGuard, IInv, TypeOK
  <2> QED BY <1>2, <2>1 DEF StartScan, EndScan, reviewVars, Removing, Reviewing
<1>3. ASSUME NEW p \in Procs, SkipWorktree(p)
      PROVE  Removing' = Removing /\ Reviewing' = Reviewing
  BY <1>3, PruneIsInvisible DEF SkipWorktree, reviewVars, Reviewing
<1>4. ASSUME NEW p \in Procs, EndRemoval(p)
      PROVE  Removing' \in SUBSET Removing /\ Reviewing' = Reviewing
  <2>1. \A q \in Procs : HoldsGuard(q)' => HoldsGuard(q)
    BY <1>4, LeaseConstants DEF EndRemoval, HoldsGuard, IInv, TypeOK
  <2> QED BY <1>4, <2>1 DEF EndRemoval, reviewVars, Removing, Reviewing
<1>5. ASSUME NEW p \in Procs, Crash(p)
      PROVE  Removing' \in SUBSET Removing /\ Reviewing' \in SUBSET Reviewing
  <2>1. \A q \in Procs : HoldsGuard(q)' => HoldsGuard(q)
    BY <1>5 DEF Crash, guardVars, HoldsGuard, IInv, TypeOK
  <2>2. running' \subseteq running /\ expired' = expired
    BY <1>5 DEF Crash
  <2> QED BY <2>1, <2>2 DEF Removing, Reviewing
<1>6. CASE OperatorClearsStale
  BY <1>6 DEF OperatorClearsStale, guardVars, Removing, Reviewing, HoldsGuard
<1>7. CASE ExpireGuard
  BY <1>7 DEF ExpireGuard, reviewVars, Removing, Reviewing, HoldsGuard
<1> QED BY <1>1, <1>2, <1>3, <1>4, <1>5, <1>6, <1>7

(***************************************************************************)
(* For any number of processes and workers, whatever expires, crashes or   *)
(* is cleared by hand, reviews and removals behave as a readers-writer     *)
(* lock: RunLease implements ExclusiveCleanup.                             *)
(***************************************************************************)
THEOREM CleanupIsExclusiveHolds == Spec => CleanupIsExclusive
<1>1. Init => Exclusion!ExclusionInit
  BY LeaseConstants DEF Init, Exclusion!ExclusionInit, HoldsGuard
<1>2. IInv /\ [Next]_vars
        => [Exclusion!ExclusionNext]_<<running \ expired, {p \in Procs : HoldsGuard(p)}>>
  <2> SUFFICES ASSUME IInv, [Next]_vars
               PROVE  \/ Exclusion!ExclusionNext
                      \/ Reviewing' = Reviewing /\ Removing' = Removing
    BY DEF Reviewing, Removing
  <2>1. ASSUME NEW w \in Workers, NEW limit \in Limits, TryAcquire(w, limit)
        PROVE  \/ Exclusion!ExclusionNext
               \/ Reviewing' = Reviewing /\ Removing' = Removing
    BY <2>1, AdmissionEnters DEF Exclusion!ExclusionNext
  <2>2. ASSUME NEW p \in Procs, TakeGuard(p)
        PROVE  Exclusion!ExclusionNext
    BY <2>2, GuardRemoves DEF Exclusion!ExclusionNext
  <2>3. CASE UNCHANGED vars
    BY <2>3 DEF vars, Reviewing, Removing, HoldsGuard
  <2> QED BY <2>1, <2>2, <2>3, OtherStepsLetGo DEF Next, Exclusion!ExclusionNext
<1> QED BY <1>1, <1>2, Inductive, PTL DEF Spec, CleanupIsExclusive, Exclusion!ExclusionSpec
==============================================================================
