--------------------------- MODULE HeadReviewProofs ---------------------------
(***************************************************************************)
(* HeadReview's safety, for every number of workers, every mix of kinds    *)
(* and every bound.                                                        *)
(***************************************************************************)
EXTENDS HeadReview, FiniteSetTheorems, TLAPS

\* A retry carries the retryable row it read until it has restored it.
RetryRemembersRow ==
  \A w \in Workers :
    /\ pc[w] \in {"checked", "stale", "restoring", "rewriting"} => kind[w] \in RetryKinds
    /\ (/\ kind[w] \in RetryKinds
        /\ pc[w] \in {"checked", "stale", "restoring", "rewriting"} \cup RunningPcs)
         => seen[w] \in RetryableRows

\* Without an overrun, the claim of a running worker is unexpired.
HeldIsFresh == (~tainted /\ claim \in Workers) => fresh

\* A worker past its claim that no longer owns it lost it to a written row.
LostClaimLeftRow ==
  \A w \in Workers :
    (~tainted /\ pc[w] \in {"claimed", "posted"} /\ ~Holds(w)) => row # "none"

\* While a discovery review owns the claim, the head has no processed row.
DiscoveryHoldsNoRow ==
  \A w \in Workers :
    (~tainted /\ pc[w] = "claimed" /\ kind[w] = "daemon" /\ Holds(w)) => row = "none"

\* No step takes a row away: one that a failing worker read is still there.
ReadRowStays ==
  \A w \in Workers :
    (pc[w] \in {"writing", "deferring"} /\ seen[w] # "none") => row # "none"

\* A worker that owes a record is on its way to one.
OwingIsUnderWay ==
  \A w \in owing :
    /\ pc[w] \in {"posted", "recovering", "failing", "writing"}
    /\ pc[w] # "posted" => tainted

\* Without lost replies, receipts and posters, some worker owes the record.
PublishedIsOwed == (posts > 0 /\ row = "none" /\ ~tainted) => owing # {}

\* The inductive invariant.
Protocol ==
  /\ RetryRemembersRow
  /\ ClaimIsReleased
  /\ HeldIsFresh
  /\ LostClaimLeftRow
  /\ DiscoveryHoldsNoRow
  /\ ReadRowStays
  /\ OwingIsUnderWay
  /\ PublishedIsOwed
  /\ PublishedIsRecorded
  /\ ApprovedRevisionIsPosted

IInv == TypeOK /\ Protocol

\* The inductive invariant implies the claim protocol's guarantee: another
\* poster in flight would own the claim or have lost it to a written row.
LEMMA InvImpliesPostsFirst == IInv => DiscoveryPostsFirst
<1> SUFFICES ASSUME IInv,
                    NEW w \in Workers,
                    pc[w] = "claimed", kind[w] = "daemon", Holds(w), ~tainted
             PROVE  posts = 0
  BY DEF DiscoveryPostsFirst
<1>1. row = "none"
  BY DEF IInv, Protocol, DiscoveryHoldsNoRow
<1>2. ASSUME NEW x \in Workers, pc[x] = "posted" PROVE FALSE
  <2>1. ~Holds(x)
    BY <1>2, StoreConstants DEF Holds
  <2> QED BY <1>1, <1>2, <2>1 DEF IInv, Protocol, LostClaimLeftRow
<1>3. owing = {}
  BY <1>2 DEF IInv, Protocol, OwingIsUnderWay, TypeOK
<1> QED BY <1>1, <1>3 DEF IInv, Protocol, PublishedIsOwed, TypeOK

LEMMA InitEstablishes == Init => IInv
<1> USE StoreConstants DEF Init, StoreInit
<1> SUFFICES ASSUME Init PROVE IInv
  OBVIOUS
<1>1. TypeOK
  BY DEF TypeOK, StoreTypeOK, WorkerTypeOK, RowKinds, Pcs, RunningPcs
<1>2. RetryRemembersRow
  BY DEF RetryRemembersRow, RunningPcs, RetryKinds
<1>3. ClaimIsReleased /\ HeldIsFresh /\ LostClaimLeftRow /\ DiscoveryHoldsNoRow
  BY DEF ClaimIsReleased, HeldIsFresh, LostClaimLeftRow, DiscoveryHoldsNoRow
<1>4. ReadRowStays /\ OwingIsUnderWay /\ PublishedIsOwed
  BY DEF ReadRowStays, OwingIsUnderWay, PublishedIsOwed
<1>5. PublishedIsRecorded /\ ApprovedRevisionIsPosted
  BY DEF PublishedIsRecorded, ApprovedRevisionIsPosted
<1> QED BY <1>1, <1>2, <1>3, <1>4, <1>5 DEF IInv, Protocol

(***************************************************************************)
(* Type correctness.                                                       *)
(***************************************************************************)

LEMMA StoreWritesTyped ==
  ASSUME StoreTypeOK, NEW w \in Workers,
         NEW k \in RowKinds, NEW r \in Revs \cup {NoRev}
  PROVE  /\ RecordProcessed(k, r) => StoreTypeOK'
         /\ ReleaseClaim(w) => StoreTypeOK'
         /\ UNCHANGED storeVars => StoreTypeOK'
<1> USE StoreConstants DEF StoreTypeOK, NoClaim
<1>1. RecordProcessed(k, r) => StoreTypeOK'
  BY DEF RecordProcessed
<1>2. ReleaseClaim(w) => StoreTypeOK'
  BY DEF ReleaseClaim
<1>3. UNCHANGED storeVars => StoreTypeOK'
  BY DEF storeVars
<1> QED BY <1>1, <1>2, <1>3

LEMMA WorkerWritesTyped ==
  ASSUME WorkerTypeOK, NEW w \in Workers, NEW p \in Pcs
  PROVE  /\ Goto(w, p) => WorkerTypeOK'
         /\ Return(w) => WorkerTypeOK'
         /\ UNCHANGED workerVars => WorkerTypeOK'
<1> USE DEF WorkerTypeOK, Pcs, RowKinds, workerVars
<1>1. Goto(w, p) => WorkerTypeOK'
  BY DEF Goto
<1>2. Return(w) => WorkerTypeOK'
  BY DEF Return
<1>3. UNCHANGED workerVars => WorkerTypeOK'
  OBVIOUS
<1> QED BY <1>1, <1>2, <1>3

LEMMA FinishTyped ==
  ASSUME WorkerTypeOK, NEW w \in Workers, Finish(w)
  PROVE  WorkerTypeOK'
<1>1. "restoring" \in Pcs
  BY DEF Pcs
<1> QED BY <1>1, WorkerWritesTyped DEF Finish

LEMMA StepTyped ==
  ASSUME TypeOK, NEW w \in Workers, Step(w)
  PROVE  TypeOK'
<1> USE DEF TypeOK, history
<1>1. ASSUME NEW k \in Kinds, NEW r \in Revs, Start(w, k, r) PROVE TypeOK'
  <2>1. WorkerTypeOK'
    BY <1>1, ReviewConstants DEF Start, WorkerTypeOK, Pcs, StoreTypeOK, RunningPcs, RowKinds
  <2> QED BY <1>1, <2>1 DEF Start, storeVars, StoreTypeOK
<1>2. ASSUME NEW k \in Kinds, NEW r \in Revs, DeferForCooldown(w, k, r) PROVE TypeOK'
  <2>1. WorkerTypeOK'
    BY <1>2 DEF DeferForCooldown, workerVars, WorkerTypeOK
  <2>2. StoreTypeOK'
    BY <1>2, StoreWritesTyped DEF DeferForCooldown, RowKinds
  <2> QED BY <1>2, <2>1, <2>2 DEF DeferForCooldown
<1>3. CASE AcquireAfterCheck(w)
  <2>1. WorkerTypeOK'
    BY <1>3, WorkerWritesTyped DEF AcquireAfterCheck, Pcs, RunningPcs
  <2>2. StoreTypeOK'
    BY <1>3 DEF AcquireAfterCheck, storeVars, StoreTypeOK
  <2> QED BY <1>3, <2>1, <2>2 DEF AcquireAfterCheck
<1>4. CASE SkipForCapacity(w)
  <2>1. WorkerTypeOK'
    BY <1>4, FinishTyped DEF SkipForCapacity
  <2>2. StoreTypeOK'
    BY <1>4 DEF SkipForCapacity, storeVars, StoreTypeOK
  <2> QED BY <1>4, <2>1, <2>2 DEF SkipForCapacity
<1>22. CASE ReadRetryRow(w)
  <2>1. WorkerTypeOK'
    BY <1>22, WorkerWritesTyped DEF ReadRetryRow, Pcs
  <2>2. StoreTypeOK'
    BY <1>22 DEF ReadRetryRow, storeVars, StoreTypeOK
  <2> QED BY <1>22, <2>1, <2>2 DEF ReadRetryRow
<1>5. CASE RestoreRetryRow(w)
  <2>1. WorkerTypeOK'
    BY <1>5, WorkerWritesTyped DEF RestoreRetryRow, Pcs
  <2>2. StoreTypeOK'
    BY <1>5, StoreWritesTyped DEF RestoreRetryRow, RowKinds, StoreTypeOK, WorkerTypeOK
  <2> QED BY <1>5, <2>1, <2>2 DEF RestoreRetryRow
<1>23. CASE FindMovedHead(w)
  <2>1. WorkerTypeOK'
    BY <1>23, FinishTyped, WorkerWritesTyped DEF FindMovedHead, Pcs, RunningPcs
  <2>2. StoreTypeOK'
    BY <1>23, StoreWritesTyped DEF FindMovedHead, RowKinds, StoreTypeOK, WorkerTypeOK
  <2> QED BY <1>23, <2>1, <2>2 DEF FindMovedHead
<1>6. CASE SkipMovedHead(w)
  <2>1. WorkerTypeOK'
    BY <1>6, FinishTyped DEF SkipMovedHead
  <2>2. StoreTypeOK'
    BY <1>6, StoreWritesTyped DEF SkipMovedHead, RowKinds, StoreTypeOK, WorkerTypeOK
  <2> QED BY <1>6, <2>1, <2>2 DEF SkipMovedHead
<1>7. CASE SkipBaseMergeOnly(w)
  <2>1. WorkerTypeOK'
    BY <1>7, FinishTyped DEF SkipBaseMergeOnly
  <2>2. StoreTypeOK'
    BY <1>7, StoreConstants DEF SkipBaseMergeOnly, RecordBaseMergeOnlySkip, StoreTypeOK, RowKinds, WorkerTypeOK
  <2> QED BY <1>7, <2>1, <2>2 DEF SkipBaseMergeOnly
<1>8. CASE CaptureDryRun(w)
  <2>1. WorkerTypeOK'
    BY <1>8, FinishTyped DEF CaptureDryRun
  <2>2. StoreTypeOK'
    BY <1>8, StoreConstants DEF CaptureDryRun, TryRecordDryRun, DryRunAllowed, NoClaim, StoreTypeOK, RowKinds, WorkerTypeOK
  <2> QED BY <1>8, <2>1, <2>2 DEF CaptureDryRun
<1>9. CASE ClaimHead(w)
  <2>1. WorkerTypeOK'
    BY <1>9, WorkerWritesTyped DEF ClaimHead, Pcs, RunningPcs
  <2>2. StoreTypeOK'
    BY <1>9, StoreConstants DEF ClaimHead, ClaimAcquired, StoreTypeOK, RowKinds, WorkerTypeOK
  <2> QED BY <1>9, <2>1, <2>2 DEF ClaimHead
<1>10. CASE LoseClaim(w)
  <2>1. WorkerTypeOK'
    BY <1>10, FinishTyped DEF LoseClaim
  <2>2. StoreTypeOK'
    BY <1>10, StoreConstants DEF LoseClaim, ClaimBlocked, NoClaim, StoreTypeOK, RowKinds, WorkerTypeOK
  <2> QED BY <1>10, <2>1, <2>2 DEF LoseClaim
<1>11. CASE CreateReview(w)
  <2>1. WorkerTypeOK'
    BY <1>11, WorkerWritesTyped DEF CreateReview, Pcs, RunningPcs
  <2>2. StoreTypeOK'
    BY <1>11 DEF CreateReview, storeVars, StoreTypeOK
  <2> QED BY <1>11, <2>1, <2>2 DEF CreateReview, Publish
<1>12. CASE CreateReviewReplyLost(w)
  <2>1. WorkerTypeOK'
    BY <1>12, WorkerWritesTyped DEF CreateReviewReplyLost, Pcs, RunningPcs
  <2>2. StoreTypeOK'
    BY <1>12, StoreWritesTyped DEF CreateReviewReplyLost, RowKinds, StoreTypeOK, WorkerTypeOK
  <2> QED BY <1>12, <2>1, <2>2 DEF CreateReviewReplyLost, Publish
<1>13. CASE RecordPosted(w)
  <2>1. WorkerTypeOK'
    BY <1>13, WorkerWritesTyped DEF RecordPosted, Pcs, RunningPcs
  <2>2. StoreTypeOK'
    BY <1>13, StoreWritesTyped DEF RecordPosted, RowKinds, StoreTypeOK, WorkerTypeOK
  <2> QED BY <1>13, <2>1, <2>2 DEF RecordPosted
<1>14. CASE PersistFails(w)
  <2>1. WorkerTypeOK'
    BY <1>14, WorkerWritesTyped DEF PersistFails, Pcs, RunningPcs
  <2>2. StoreTypeOK'
    BY <1>14, StoreWritesTyped DEF PersistFails, RowKinds, StoreTypeOK, WorkerTypeOK
  <2> QED BY <1>14, <2>1, <2>2 DEF PersistFails
<1>15. CASE RecoverReceipt(w)
  <2>1. WorkerTypeOK'
    BY <1>15, WorkerWritesTyped DEF RecoverReceipt, Pcs
  <2>2. StoreTypeOK'
    BY <1>15, StoreWritesTyped DEF RecoverReceipt, RowKinds, StoreTypeOK, WorkerTypeOK
  <2> QED BY <1>15, <2>1, <2>2 DEF RecoverReceipt, GiveUp
<1>24. CASE EndPosted(w)
  <2>1. WorkerTypeOK'
    BY <1>24, FinishTyped DEF EndPosted
  <2>2. StoreTypeOK'
    BY <1>24, StoreWritesTyped DEF EndPosted, RowKinds, StoreTypeOK, WorkerTypeOK
  <2> QED BY <1>24, <2>1, <2>2 DEF EndPosted
<1>25. CASE ReadPosted(w)
  <2>1. WorkerTypeOK'
    BY <1>25, WorkerWritesTyped DEF ReadPosted, Pcs, RunningPcs
  <2>2. StoreTypeOK'
    BY <1>25 DEF ReadPosted, storeVars, StoreTypeOK
  <2> QED BY <1>25, <2>1, <2>2 DEF ReadPosted
<1>16. CASE SettlePosted(w)
  <2>1. WorkerTypeOK'
    BY <1>16, FinishTyped DEF SettlePosted
  <2>2. StoreTypeOK'
    BY <1>16, StoreWritesTyped DEF SettlePosted, RowKinds, StoreTypeOK, WorkerTypeOK
  <2> QED BY <1>16, <2>1, <2>2 DEF SettlePosted
<1>17. CASE Fail(w)
  <2>1. WorkerTypeOK'
    BY <1>17, WorkerWritesTyped DEF Fail, Pcs, RunningPcs
  <2>2. StoreTypeOK'
    BY <1>17, StoreWritesTyped DEF Fail, RowKinds, StoreTypeOK, WorkerTypeOK
  <2> QED BY <1>17, <2>1, <2>2 DEF Fail
<1>18. CASE ReadPrevious(w)
  <2>1. WorkerTypeOK'
    BY <1>18 DEF ReadPrevious, WorkerTypeOK, Pcs, StoreTypeOK
  <2>2. StoreTypeOK'
    BY <1>18 DEF ReadPrevious, storeVars, StoreTypeOK
  <2> QED BY <1>18, <2>1, <2>2 DEF ReadPrevious
<1>19. CASE RecordFailed(w)
  <2>1. WorkerTypeOK'
    BY <1>19, WorkerWritesTyped DEF RecordFailed, Pcs
  <2>2. StoreTypeOK'
    BY <1>19, StoreWritesTyped DEF RecordFailed, RowKinds, StoreTypeOK, WorkerTypeOK
  <2> QED BY <1>19, <2>1, <2>2 DEF RecordFailed
<1>20. CASE RecordThrottled(w)
  <2>1. WorkerTypeOK'
    BY <1>20, WorkerWritesTyped DEF RecordThrottled, Pcs
  <2>2. StoreTypeOK'
    BY <1>20, StoreWritesTyped DEF RecordThrottled, RowKinds, StoreTypeOK, WorkerTypeOK
  <2> QED BY <1>20, <2>1, <2>2 DEF RecordThrottled
<1>21. CASE Crash(w)
  <2>1. WorkerTypeOK'
    BY <1>21, WorkerWritesTyped DEF Crash, Pcs
  <2>2. StoreTypeOK'
    BY <1>21, StoreConstants DEF Crash, Holds, StoreTypeOK, RowKinds, WorkerTypeOK
  <2> QED BY <1>21, <2>1, <2>2 DEF Crash, GiveUp
<1> QED BY <1>1, <1>2, <1>3, <1>4, <1>5, <1>6, <1>7, <1>8, <1>9, <1>10, <1>11,
     <1>12, <1>13, <1>14, <1>15, <1>16, <1>17, <1>18, <1>19, <1>20, <1>21,
     <1>22, <1>23, <1>24, <1>25 DEF Step

(***************************************************************************)
(* The claim protocol is preserved by every step of a worker.              *)
(***************************************************************************)

LEMMA StepKeepsProtocol ==
  ASSUME IInv, NEW w \in Workers, Step(w)
  PROVE  Protocol'
<1> USE StoreConstants, ReviewConstants
    DEF IInv, Protocol, TypeOK, StoreTypeOK, WorkerTypeOK, RetryRemembersRow,
        ClaimIsReleased, HeldIsFresh, LostClaimLeftRow, DiscoveryHoldsNoRow,
        ReadRowStays, OwingIsUnderWay, PublishedIsOwed, PublishedIsRecorded,
        ApprovedRevisionIsPosted, OrphanGuards, RowKinds, Pcs, RunningPcs,
        ClaimPcs, AllKinds, DryKinds, RetryKinds, DirectKinds, RetryableRows,
        Holds, Goto, Return, Finish, RecordProcessed, ReleaseClaim, NoClaim,
        storeVars, workerVars, history
<1>1. ASSUME NEW k \in Kinds, NEW r \in Revs, Start(w, k, r) PROVE Protocol'
  BY <1>1 DEF Start, AdmitsRow
<1>2. ASSUME NEW k \in Kinds, NEW r \in Revs, DeferForCooldown(w, k, r)
      PROVE Protocol'
  BY <1>2 DEF DeferForCooldown
<1>3. CASE AcquireAfterCheck(w)
  BY <1>3 DEF AcquireAfterCheck
<1>4. CASE SkipForCapacity(w)
  BY <1>4 DEF SkipForCapacity
<1>22. CASE ReadRetryRow(w)
  BY <1>22 DEF ReadRetryRow
<1>5. CASE RestoreRetryRow(w)
  <2> USE <1>5 DEF RestoreRetryRow
  <2>1. RetryRemembersRow'
    OBVIOUS
  <2>2. ClaimIsReleased'
    OBVIOUS
  <2>3. HeldIsFresh'
    OBVIOUS
  <2>4. LostClaimLeftRow'
    OBVIOUS
  <2>5. DiscoveryHoldsNoRow'
    OBVIOUS
  <2>6. ReadRowStays'
    OBVIOUS
  <2>7. OwingIsUnderWay'
    OBVIOUS
  <2>8. PublishedIsOwed'
    OBVIOUS
  <2>9. PublishedIsRecorded'
    OBVIOUS
  <2>10. ApprovedRevisionIsPosted'
    OBVIOUS
  <2> QED BY <2>1, <2>2, <2>3, <2>4, <2>5, <2>6, <2>7, <2>8, <2>9, <2>10
<1>23. CASE FindMovedHead(w)
  <2> USE <1>23 DEF FindMovedHead
  <2>1. RetryRemembersRow'
    OBVIOUS
  <2>2. ClaimIsReleased'
    OBVIOUS
  <2>3. HeldIsFresh'
    OBVIOUS
  <2>4. LostClaimLeftRow'
    OBVIOUS
  <2>5. DiscoveryHoldsNoRow'
    OBVIOUS
  <2>6. ReadRowStays'
    OBVIOUS
  <2>7. OwingIsUnderWay'
    OBVIOUS
  <2>8. PublishedIsOwed'
    OBVIOUS
  <2>9. PublishedIsRecorded'
    OBVIOUS
  <2>10. ApprovedRevisionIsPosted'
    OBVIOUS
  <2> QED BY <2>1, <2>2, <2>3, <2>4, <2>5, <2>6, <2>7, <2>8, <2>9, <2>10
<1>6. CASE SkipMovedHead(w)
  <2> USE <1>6 DEF SkipMovedHead
  <2>1. RetryRemembersRow'
    OBVIOUS
  <2>2. ClaimIsReleased'
    OBVIOUS
  <2>3. HeldIsFresh'
    OBVIOUS
  <2>4. LostClaimLeftRow'
    OBVIOUS
  <2>5. DiscoveryHoldsNoRow'
    OBVIOUS
  <2>6. ReadRowStays'
    OBVIOUS
  <2>7. OwingIsUnderWay'
    OBVIOUS
  <2>8. PublishedIsOwed'
    OBVIOUS
  <2>9. PublishedIsRecorded'
    OBVIOUS
  <2>10. ApprovedRevisionIsPosted'
    OBVIOUS
  <2> QED BY <2>1, <2>2, <2>3, <2>4, <2>5, <2>6, <2>7, <2>8, <2>9, <2>10
<1>7. CASE SkipBaseMergeOnly(w)
  BY <1>7 DEF SkipBaseMergeOnly, RecordBaseMergeOnlySkip, BaseMergeSkipAllowed
<1>8. CASE CaptureDryRun(w)
  <2> USE <1>8 DEF CaptureDryRun, TryRecordDryRun, DryRunAllowed
  <2>1. RetryRemembersRow'
    OBVIOUS
  <2>2. ClaimIsReleased'
    OBVIOUS
  <2>3. HeldIsFresh'
    OBVIOUS
  <2>4. LostClaimLeftRow'
    OBVIOUS
  <2>5. DiscoveryHoldsNoRow'
    OBVIOUS
  <2>6. ReadRowStays'
    OBVIOUS
  <2>7. OwingIsUnderWay'
    OBVIOUS
  <2>8. PublishedIsOwed'
    OBVIOUS
  <2>9. PublishedIsRecorded'
    OBVIOUS
  <2>10. ApprovedRevisionIsPosted'
    OBVIOUS
  <2> QED BY <2>1, <2>2, <2>3, <2>4, <2>5, <2>6, <2>7, <2>8, <2>9, <2>10
<1>9. CASE ClaimHead(w)
  BY <1>9 DEF ClaimHead, ClaimAcquired, ClaimAllowed, Supersedes
<1>10. CASE LoseClaim(w)
  BY <1>10 DEF LoseClaim, ClaimBlocked
<1>11. CASE CreateReview(w)
  <2> USE <1>11 DEF CreateReview, Publish
  <2>1. RetryRemembersRow'
    OBVIOUS
  <2>2. ClaimIsReleased'
    OBVIOUS
  <2>3. HeldIsFresh'
    OBVIOUS
  <2>4. LostClaimLeftRow'
    OBVIOUS
  <2>5. DiscoveryHoldsNoRow'
    OBVIOUS
  <2>6. ReadRowStays'
    OBVIOUS
  <2>7. OwingIsUnderWay'
    OBVIOUS
  <2>8. PublishedIsOwed'
    OBVIOUS
  <2>9. PublishedIsRecorded'
    OBVIOUS
  <2>10. ApprovedRevisionIsPosted'
    OBVIOUS
  <2> QED BY <2>1, <2>2, <2>3, <2>4, <2>5, <2>6, <2>7, <2>8, <2>9, <2>10
<1>12. CASE CreateReviewReplyLost(w)
  BY <1>12 DEF CreateReviewReplyLost, Publish
<1>13. CASE RecordPosted(w)
  BY <1>13 DEF RecordPosted
<1>14. CASE PersistFails(w)
  BY <1>14 DEF PersistFails
<1>15. CASE RecoverReceipt(w)
  <2> USE <1>15 DEF RecoverReceipt, GiveUp
  <2>1. RetryRemembersRow'
    OBVIOUS
  <2>2. ClaimIsReleased'
    OBVIOUS
  <2>3. HeldIsFresh'
    OBVIOUS
  <2>4. LostClaimLeftRow'
    OBVIOUS
  <2>5. DiscoveryHoldsNoRow'
    OBVIOUS
  <2>6. ReadRowStays'
    OBVIOUS
  <2>7. OwingIsUnderWay'
    OBVIOUS
  <2>8. PublishedIsOwed'
    OBVIOUS
  <2>9. PublishedIsRecorded'
    OBVIOUS
  <2>10. ApprovedRevisionIsPosted'
    OBVIOUS
  <2> QED BY <2>1, <2>2, <2>3, <2>4, <2>5, <2>6, <2>7, <2>8, <2>9, <2>10
<1>24. CASE EndPosted(w)
  BY <1>24 DEF EndPosted
<1>25. CASE ReadPosted(w)
  BY <1>25 DEF ReadPosted
<1>16. CASE SettlePosted(w)
  <2> USE <1>16 DEF SettlePosted
  <2>1. RetryRemembersRow'
    OBVIOUS
  <2>2. ClaimIsReleased'
    OBVIOUS
  <2>3. HeldIsFresh'
    OBVIOUS
  <2>4. LostClaimLeftRow'
    OBVIOUS
  <2>5. DiscoveryHoldsNoRow'
    OBVIOUS
  <2>6. ReadRowStays'
    OBVIOUS
  <2>7. OwingIsUnderWay'
    OBVIOUS
  <2>8. PublishedIsOwed'
    OBVIOUS
  <2>9. PublishedIsRecorded'
    OBVIOUS
  <2>10. ApprovedRevisionIsPosted'
    OBVIOUS
  <2> QED BY <2>1, <2>2, <2>3, <2>4, <2>5, <2>6, <2>7, <2>8, <2>9, <2>10
<1>17. CASE Fail(w)
  BY <1>17 DEF Fail
<1>18. CASE ReadPrevious(w)
  BY <1>18 DEF ReadPrevious
<1>19. CASE RecordFailed(w)
  <2> USE <1>19 DEF RecordFailed, PreservesDryRun
  <2>1. RetryRemembersRow'
    OBVIOUS
  <2>2. ClaimIsReleased'
    OBVIOUS
  <2>3. HeldIsFresh'
    OBVIOUS
  <2>4. LostClaimLeftRow'
    OBVIOUS
  <2>5. DiscoveryHoldsNoRow'
    OBVIOUS
  <2>6. ReadRowStays'
    OBVIOUS
  <2>7. OwingIsUnderWay'
    OBVIOUS
  <2>8. PublishedIsOwed'
    OBVIOUS
  <2>9. PublishedIsRecorded'
    OBVIOUS
  <2>10. ApprovedRevisionIsPosted'
    OBVIOUS
  <2> QED BY <2>1, <2>2, <2>3, <2>4, <2>5, <2>6, <2>7, <2>8, <2>9, <2>10
<1>20. CASE RecordThrottled(w)
  <2> USE <1>20 DEF RecordThrottled, PreservesDryRun
  <2>1. RetryRemembersRow'
    OBVIOUS
  <2>2. ClaimIsReleased'
    OBVIOUS
  <2>3. HeldIsFresh'
    OBVIOUS
  <2>4. LostClaimLeftRow'
    OBVIOUS
  <2>5. DiscoveryHoldsNoRow'
    OBVIOUS
  <2>6. ReadRowStays'
    OBVIOUS
  <2>7. OwingIsUnderWay'
    OBVIOUS
  <2>8. PublishedIsOwed'
    OBVIOUS
  <2>9. PublishedIsRecorded'
    OBVIOUS
  <2>10. ApprovedRevisionIsPosted'
    OBVIOUS
  <2> QED BY <2>1, <2>2, <2>3, <2>4, <2>5, <2>6, <2>7, <2>8, <2>9, <2>10
<1>21. CASE Crash(w)
  <2> USE <1>21 DEF Crash, GiveUp
  <2>1. RetryRemembersRow'
    OBVIOUS
  <2>2. ClaimIsReleased'
    OBVIOUS
  <2>3. HeldIsFresh'
    OBVIOUS
  <2>4. LostClaimLeftRow'
    OBVIOUS
  <2>5. DiscoveryHoldsNoRow'
    OBVIOUS
  <2>6. ReadRowStays'
    OBVIOUS
  <2>7. OwingIsUnderWay'
    OBVIOUS
  <2>8. PublishedIsOwed'
    OBVIOUS
  <2>9. PublishedIsRecorded'
    OBVIOUS
  <2>10. ApprovedRevisionIsPosted'
    OBVIOUS
  <2> QED BY <2>1, <2>2, <2>3, <2>4, <2>5, <2>6, <2>7, <2>8, <2>9, <2>10
<1> QED BY <1>1, <1>2, <1>3, <1>4, <1>5, <1>6, <1>7, <1>8, <1>9, <1>10, <1>11,
     <1>12, <1>13, <1>14, <1>15, <1>16, <1>17, <1>18, <1>19, <1>20, <1>21,
     <1>22, <1>23, <1>24, <1>25 DEF Step

\* The environment's three actions.
LEMMA EnvironmentKeepsInv ==
  ASSUME IInv, ExpireClaim \/ ReadFailedForRetirement \/ RetireFailed
  PROVE  IInv'
<1> USE StoreConstants
    DEF IInv, Protocol, TypeOK, StoreTypeOK, WorkerTypeOK, RetryRemembersRow,
        ClaimIsReleased, HeldIsFresh, LostClaimLeftRow, DiscoveryHoldsNoRow,
        ReadRowStays, OwingIsUnderWay, PublishedIsOwed, PublishedIsRecorded,
        ApprovedRevisionIsPosted, OrphanGuards, RowKinds, RecordProcessed, NoClaim,
        Holds, storeVars, workerVars, history
<1>1. CASE ExpireClaim
  BY <1>1 DEF ExpireClaim, ClaimExpires
<1>2. CASE ReadFailedForRetirement
  BY <1>2 DEF ReadFailedForRetirement
<1>3. CASE RetireFailed
  BY <1>3 DEF RetireFailed
<1> QED BY <1>1, <1>2, <1>3

LEMMA StutterKeepsInv == IInv /\ UNCHANGED vars => IInv'
BY DEF IInv, Protocol, TypeOK, StoreTypeOK, WorkerTypeOK, RetryRemembersRow,
       ClaimIsReleased, HeldIsFresh, LostClaimLeftRow, DiscoveryHoldsNoRow,
       ReadRowStays, OwingIsUnderWay, PublishedIsOwed, PublishedIsRecorded,
       ApprovedRevisionIsPosted, OrphanGuards, Holds, vars, storeVars, workerVars, history

LEMMA Inductive == Spec => []IInv
<1>1. IInv /\ [Next]_vars => IInv'
  <2>1. ASSUME IInv, NEW w \in Workers, Step(w) PROVE IInv'
    BY <2>1, StepTyped, StepKeepsProtocol DEF IInv
  <2> QED BY <2>1, EnvironmentKeepsInv, StutterKeepsInv DEF Next
<1> QED BY InitEstablishes, <1>1, PTL DEF Spec

(***************************************************************************)
(* The theorems: what the runs of MCHeadReview check on a small instance   *)
(* holds for any number of workers and any mix of invocation kinds.        *)
(***************************************************************************)

\* Every variable of the head's store and of its workers stays in its type.
THEOREM TypeCorrect == Spec => []TypeOK
<1>1. IInv => TypeOK
  BY DEF IInv
<1> QED BY <1>1, Inductive, PTL

\* A discovery review that owns its claim publishes the head's first review.
THEOREM DiscoveryReviewIsFirst == Spec => []DiscoveryPostsFirst
BY InvImpliesPostsFirst, Inductive, PTL

\* A head with a public review and no row has a live process on its way to the
\* record or a dead poster's claim around it, or nothing was left to record it.
THEOREM PublicationIsDurable == Spec => []PublishedIsRecorded
<1>1. IInv => PublishedIsRecorded
  BY DEF IInv, Protocol
<1> QED BY <1>1, Inductive, PTL

\* No live worker leaks its claim.
THEOREM ClaimsAreReleased == Spec => []ClaimIsReleased
<1>1. IInv => ClaimIsReleased
  BY DEF IInv, Protocol
<1> QED BY <1>1, Inductive, PTL

\* An approved transition posts with an approval of its own revision.
THEOREM ApprovedRevision == Spec => []ApprovedRevisionIsPosted
<1>1. IInv => ApprovedRevisionIsPosted
  BY DEF IInv, Protocol
<1> QED BY <1>1, Inductive, PTL

(***************************************************************************)
(* Approvals are conserved: each dry run recorded is a row not yet         *)
(* consumed, or held by one poster, or spent by one public review.         *)
(***************************************************************************)
Approving == {w \in Workers : pc[w] = "claimed" /\ kind[w] = "approved"}

Unconsumed == IF row = "dry_run" THEN 1 ELSE 0

ApprovalsAccounted == spent + Cardinality(Approving) + Unconsumed <= granted

LEMMA ApprovingFinite ==
  IsFiniteSet(Approving) /\ Cardinality(Approving) \in Nat
BY StoreConstants, FS_Subset, FS_CardinalityType DEF Approving

\* A step that makes neither an approving poster nor a dry-run row.
LEMMA NoNewApproval ==
  ASSUME TypeOK, ApprovalsAccounted,
         Approving' \subseteq Approving,
         row' = "dry_run" => row = "dry_run",
         UNCHANGED <<granted, spent>>
  PROVE  ApprovalsAccounted'
<1>1. Cardinality(Approving') \in Nat /\ Cardinality(Approving') <= Cardinality(Approving)
  BY ApprovingFinite, FS_Subset, FS_CardinalityType
<1> DEFINE A == Cardinality(Approving)
           B == Cardinality(Approving')
<1>2. A \in Nat /\ B \in Nat /\ B <= A
  BY <1>1, ApprovingFinite
<1>3. spent + A + Unconsumed <= granted
  BY DEF ApprovalsAccounted
<1> HIDE DEF A, B
<1>4. spent' + B + Unconsumed' <= granted'
  BY <1>2, <1>3 DEF Unconsumed, TypeOK
<1> QED BY <1>4 DEF ApprovalsAccounted, B

LEMMA InitAccounts == Init => ApprovalsAccounted
<1> SUFFICES ASSUME Init PROVE ApprovalsAccounted
  OBVIOUS
<1>1. Approving = {}
  BY DEF Approving, Init
<1>2. Cardinality(Approving) = 0
  BY <1>1, FS_EmptySet
<1> QED BY <1>2 DEF ApprovalsAccounted, Unconsumed, Init, StoreInit

\* The claim transaction moves one approval from the row to the poster.
LEMMA ClaimHeadAccounts ==
  ASSUME IInv, ApprovalsAccounted, NEW w \in Workers, ClaimHead(w)
  PROVE  ApprovalsAccounted'
<1> USE DEF IInv, TypeOK, StoreTypeOK, WorkerTypeOK, ClaimHead, ClaimAcquired, Goto, history
<1>1. CASE kind[w] = "approved"
  <2>1. row = "dry_run" /\ row' = "consumed"
    BY <1>1 DEF ClaimAllowed, Supersedes
  <2>2. Approving' = Approving \cup {w} /\ w \notin Approving
    BY <1>1 DEF Approving
  <2>3. Cardinality(Approving') = Cardinality(Approving) + 1
    BY <2>2, ApprovingFinite, FS_AddElement
  <2> QED BY <2>1, <2>3, ApprovingFinite DEF ApprovalsAccounted, Unconsumed
<1>2. CASE kind[w] # "approved"
  <2>1. Approving' \subseteq Approving
    BY <1>2 DEF Approving
  <2> QED BY <1>2, <2>1, NoNewApproval
<1> QED BY <1>1, <1>2

\* The POST of an approved transition moves it from the poster to the review.
LEMMA PublishAccounts ==
  ASSUME IInv, ApprovalsAccounted, NEW w \in Workers,
         CreateReview(w) \/ CreateReviewReplyLost(w)
  PROVE  ApprovalsAccounted'
<1> USE DEF IInv, TypeOK, StoreTypeOK, WorkerTypeOK, CreateReview,
            CreateReviewReplyLost, Publish, Goto, ReleaseClaim, NoClaim, storeVars
<1>1. row' = row /\ granted' = granted
  OBVIOUS
<1>2. CASE kind[w] = "approved"
  <2>1. Approving' = Approving \ {w} /\ w \in Approving
    BY <1>2 DEF Approving
  <2>2. Cardinality(Approving') = Cardinality(Approving) - 1
    BY <2>1, ApprovingFinite, FS_RemoveElement
  <2>3. spent' = spent + 1
    BY <1>2
  <2> QED BY <1>1, <2>2, <2>3, ApprovingFinite DEF ApprovalsAccounted, Unconsumed
<1>3. CASE kind[w] # "approved"
  <2>1. Approving' \subseteq Approving
    BY <1>3 DEF Approving
  <2> QED BY <1>1, <1>3, <2>1, NoNewApproval
<1> QED BY <1>2, <1>3

\* Only a recorded dry run makes an approval.
LEMMA CaptureDryRunAccounts ==
  ASSUME IInv, ApprovalsAccounted, NEW w \in Workers, CaptureDryRun(w)
  PROVE  ApprovalsAccounted'
<1> USE DEF IInv, TypeOK, StoreTypeOK, WorkerTypeOK, CaptureDryRun, TryRecordDryRun
<1>1. Approving' \subseteq Approving
  BY DEF Approving, Finish, Goto, Return
<1>2. CASE DryRunAllowed(kind[w] = "refresh")
  <2>1. Cardinality(Approving') \in Nat /\ Cardinality(Approving') <= Cardinality(Approving)
    BY <1>1, ApprovingFinite, FS_Subset, FS_CardinalityType
  <2>2. granted' = granted + 1 /\ spent' = spent
    BY <1>2
  <2> QED BY <2>1, <2>2, ApprovingFinite DEF ApprovalsAccounted, Unconsumed
<1>3. CASE ~DryRunAllowed(kind[w] = "refresh")
  BY <1>1, <1>3, NoNewApproval
<1> QED BY <1>2, <1>3

\* No other step makes an approval or an approving poster.
LEMMA OtherStepsAccount ==
  ASSUME IInv, ApprovalsAccounted, NEW w \in Workers, Step(w),
         ~ClaimHead(w), ~CreateReview(w), ~CreateReviewReplyLost(w),
         ~CaptureDryRun(w)
  PROVE  ApprovalsAccounted'
<1> SUFFICES /\ Approving' \subseteq Approving
             /\ row' = "dry_run" => row = "dry_run"
             /\ UNCHANGED <<granted, spent>>
  BY NoNewApproval DEF IInv
<1> USE DEF IInv, TypeOK, StoreTypeOK, WorkerTypeOK, Approving, Goto, Return,
            Finish, RecordProcessed, ReleaseClaim, NoClaim, storeVars,
            workerVars, history
<1>1. ASSUME NEW k \in Kinds, NEW r \in Revs,
             Start(w, k, r) \/ DeferForCooldown(w, k, r)
      PROVE  /\ Approving' \subseteq Approving
             /\ row' = "dry_run" => row = "dry_run"
             /\ UNCHANGED <<granted, spent>>
  BY <1>1 DEF Start, DeferForCooldown
<1>2. CASE AcquireAfterCheck(w) \/ SkipForCapacity(w)
  BY <1>2 DEF AcquireAfterCheck, SkipForCapacity
<1>9. CASE ReadRetryRow(w) \/ FindMovedHead(w) \/ EndPosted(w) \/ ReadPosted(w)
  BY <1>9 DEF ReadRetryRow, FindMovedHead, EndPosted, ReadPosted
<1>3. CASE RestoreRetryRow(w)
  <2>1. seen[w] \in RetryableRows
    BY <1>3 DEF RestoreRetryRow, Protocol, RetryRemembersRow
  <2> QED BY <1>3, <2>1 DEF RestoreRetryRow, RetryableRows
<1>4. CASE SkipMovedHead(w) \/ SkipBaseMergeOnly(w)
  BY <1>4 DEF SkipMovedHead, SkipBaseMergeOnly, RecordBaseMergeOnlySkip
<1>5. CASE LoseClaim(w)
  BY <1>5 DEF LoseClaim, ClaimBlocked
<1>6. CASE RecordPosted(w) \/ PersistFails(w) \/ RecoverReceipt(w) \/ SettlePosted(w)
  BY <1>6 DEF RecordPosted, PersistFails, RecoverReceipt, SettlePosted
<1>7. CASE Fail(w) \/ ReadPrevious(w) \/ RecordFailed(w) \/ RecordThrottled(w)
  BY <1>7 DEF Fail, ReadPrevious, RecordFailed, RecordThrottled
<1>8. CASE Crash(w)
  BY <1>8 DEF Crash
<1> QED BY <1>1, <1>2, <1>3, <1>4, <1>5, <1>6, <1>7, <1>8, <1>9 DEF Step

\* The environment's steps and stuttering only ever lose approvals.
LEMMA EnvironmentAccounts ==
  ASSUME IInv, ApprovalsAccounted,
         ExpireClaim \/ ReadFailedForRetirement \/ RetireFailed \/ UNCHANGED vars
  PROVE  ApprovalsAccounted'
<1> SUFFICES /\ Approving' \subseteq Approving
             /\ row' = "dry_run" => row = "dry_run"
             /\ UNCHANGED <<granted, spent>>
  BY NoNewApproval DEF IInv
<1> QED BY DEF Approving, ExpireClaim, ClaimExpires, ReadFailedForRetirement,
               RetireFailed, RecordProcessed, vars, storeVars, workerVars, history

\* One approved dry run is spent by at most one public review, whatever
\* crashes, lost replies, expired claims and retries happen.
THEOREM ApprovalIsSpentOnce == Spec => []ApprovalSpentOnce
<1>1. IInv /\ ApprovalsAccounted /\ [Next]_vars => ApprovalsAccounted'
  <2>1. ASSUME IInv, ApprovalsAccounted, NEW w \in Workers, Step(w)
        PROVE  ApprovalsAccounted'
    BY <2>1, ClaimHeadAccounts, PublishAccounts, CaptureDryRunAccounts, OtherStepsAccount
  <2> QED BY <2>1, EnvironmentAccounts DEF Next
<1>2. IInv /\ ApprovalsAccounted => ApprovalSpentOnce
  BY ApprovingFinite DEF IInv, TypeOK, ApprovalsAccounted, ApprovalSpentOnce, Unconsumed
<1> QED BY Inductive, InitAccounts, <1>1, <1>2, PTL DEF Spec
(***************************************************************************)
(* One review of a head.  Invocations that never supersede a processed row *)
(* keep what AtMostOneReviewPerHead promises: the discovery reviews of the *)
(* daemon among themselves, the explicit reviews of an operator among      *)
(* themselves, and dry runs with either.  Both together do not: another    *)
(* head's cooldown makes a deferral of a claimed head, a base_merge_only   *)
(* skip replaces it, and an explicit review supersedes the skip.           *)
(***************************************************************************)
DiscoveryOnly == Kinds \subseteq DryKinds \cup {"daemon"}
ExplicitOnly == Kinds \subseteq DryKinds \cup {"manual"}

KindsOccur == \A w \in Workers : pc[w] # "idle" => kind[w] \in Kinds

\* Only a discovery review makes the row that an explicit one supersedes.
NothingToSupersede == DiscoveryOnly \/ row # "base_merge"

\* One worker is about to POST, or one review is public.
OneInFlight ==
  ~tainted =>
    /\ posts <= 1
    /\ \A w \in Workers : pc[w] = "claimed" => posts = 0
    /\ \A v, w \in Workers : pc[v] = "claimed" /\ pc[w] = "claimed" => v = w

FirstReviews == KindsOccur /\ NothingToSupersede /\ OneInFlight

\* A claim that supersedes nothing finds no other poster and no review.
LEMMA ClaimFindsNothing ==
  ASSUME IInv, FirstReviews, DiscoveryOnly \/ ExplicitOnly, ~tainted,
         NEW w \in Workers, ClaimHead(w)
  PROVE  posts = 0 /\ \A v \in Workers : pc[v] # "claimed"
<1>1. kind[w] \in Kinds /\ kind[w] \notin DryKinds
  BY DEF ClaimHead, FirstReviews, KindsOccur
<1>2. /\ kind[w] \in {"daemon", "manual"}
      /\ kind[w] = "manual" => ~DiscoveryOnly
  BY <1>1 DEF DiscoveryOnly, ExplicitOnly, DryKinds
<1>3. ~fresh /\ (row = "none" \/ Supersedes(kind[w], wrev[w]))
  BY DEF ClaimHead, ClaimAcquired, ClaimAllowed
<1>4. row = "none"
  BY <1>2, <1>3 DEF Supersedes, FirstReviews, NothingToSupersede
<1>5. ASSUME NEW v \in Workers, pc[v] \in {"claimed", "posted"} PROVE FALSE
  <2>1. claim # v
    BY <1>3 DEF IInv, Protocol, HeldIsFresh
  <2> QED BY <1>4, <1>5, <2>1 DEF IInv, Protocol, LostClaimLeftRow, Holds
<1>6. owing = {}
  BY <1>5 DEF IInv, Protocol, OwingIsUnderWay, TypeOK
<1>7. posts = 0
  BY <1>4, <1>6 DEF IInv, Protocol, PublishedIsOwed, TypeOK
<1> QED BY <1>5, <1>7

\* A step of a worker that neither claims nor publishes.
LEMMA OneInFlightStays ==
  ASSUME OneInFlight, UNCHANGED posts, tainted => tainted',
         \A v \in Workers : pc'[v] = "claimed" => pc[v] = "claimed"
  PROVE  OneInFlight'
BY DEF OneInFlight

\* The POST takes its worker out of the claim.
LEMMA PublishingKeepsOne ==
  ASSUME TypeOK, FirstReviews, NEW w \in Workers,
         CreateReview(w) \/ CreateReviewReplyLost(w)
  PROVE  OneInFlight'
<1>1. /\ pc[w] = "claimed" /\ posts' = posts + 1 /\ (tainted => tainted')
      /\ \E p \in {"posted", "recorded", "failing"} : pc' = [pc EXCEPT ![w] = p]
  BY DEF CreateReview, CreateReviewReplyLost, Publish, Goto
<1>2. \A v \in Workers : pc'[v] = "claimed" => pc[v] = "claimed" /\ v # w
  BY <1>1 DEF TypeOK, WorkerTypeOK
<1> QED BY <1>1, <1>2 DEF FirstReviews, OneInFlight

\* A step of a worker begins an invocation of a kind that occurs, or goes on.
LEMMA KindsKept ==
  ASSUME TypeOK, KindsOccur, NEW w \in Workers, Step(w)
  PROVE  KindsOccur'
<1>1. CASE \E k \in Kinds, r \in Revs : Start(w, k, r)
  BY <1>1 DEF Start, KindsOccur, TypeOK, WorkerTypeOK
<1>2. CASE Return(w)
  BY <1>2 DEF Return, KindsOccur, TypeOK, WorkerTypeOK
<1>3. CASE pc[w] # "idle" /\ UNCHANGED kind /\ \A v \in Workers \ {w} : pc'[v] = pc[v]
  BY <1>3 DEF KindsOccur
<1>4. CASE UNCHANGED workerVars
  BY <1>4 DEF KindsOccur, workerVars
<1>5. ASSUME NEW p \in Pcs, pc[w] # "idle", Goto(w, p)
      PROVE  pc[w] # "idle" /\ UNCHANGED kind /\ \A v \in Workers \ {w} : pc'[v] = pc[v]
  BY <1>5 DEF Goto, TypeOK, WorkerTypeOK
<1>6. ASSUME pc[w] # "idle", Finish(w) PROVE KindsOccur'
  BY <1>2, <1>3, <1>5, <1>6 DEF Finish, Pcs
<1>7. ASSUME \/ AcquireAfterCheck(w) \/ SkipForCapacity(w) \/ ReadRetryRow(w)
             \/ RestoreRetryRow(w) \/ FindMovedHead(w) \/ SkipMovedHead(w) \/ SkipBaseMergeOnly(w) \/ CaptureDryRun(w)
             \/ ClaimHead(w) \/ LoseClaim(w)
      PROVE  KindsOccur'
  BY <1>2, <1>3, <1>5, <1>6, <1>7
     DEF AcquireAfterCheck, SkipForCapacity, ReadRetryRow, RestoreRetryRow, FindMovedHead,
         SkipMovedHead, SkipBaseMergeOnly, CaptureDryRun, ClaimHead, LoseClaim, Pcs, RunningPcs
<1>8. ASSUME CreateReview(w) \/ CreateReviewReplyLost(w) \/ RecordPosted(w) \/ PersistFails(w)
      PROVE  KindsOccur'
  BY <1>3, <1>5, <1>8
     DEF CreateReview, CreateReviewReplyLost, Publish, RecordPosted, PersistFails, Pcs, RunningPcs
<1>9. ASSUME \/ RecoverReceipt(w) \/ EndPosted(w) \/ SettlePosted(w) \/ RecordFailed(w)
             \/ RecordThrottled(w) \/ Crash(w)
      PROVE  KindsOccur'
  BY <1>2, <1>6, <1>9
     DEF RecoverReceipt, EndPosted, SettlePosted, RecordFailed, RecordThrottled, Crash
<1>13. ASSUME ReadPosted(w) PROVE KindsOccur'
  BY <1>3, <1>5, <1>13 DEF ReadPosted, Pcs, RunningPcs
<1>10. ASSUME Fail(w) PROVE KindsOccur'
  BY <1>3, <1>5, <1>10 DEF Fail, Pcs
<1>11. ASSUME ReadPrevious(w) PROVE KindsOccur'
  BY <1>3, <1>11 DEF ReadPrevious, TypeOK, WorkerTypeOK
<1>12. ASSUME NEW k \in Kinds, NEW r \in Revs, DeferForCooldown(w, k, r) PROVE KindsOccur'
  BY <1>4, <1>12 DEF DeferForCooldown
<1> QED BY <1>1, <1>7, <1>8, <1>9, <1>10, <1>11, <1>12, <1>13 DEF Step

\* Without a daemon and without retries no row says base_merge_only.
LEMMA NothingToSupersedeKept ==
  ASSUME IInv, FirstReviews, DiscoveryOnly \/ ExplicitOnly, NEW w \in Workers, Step(w)
  PROVE  NothingToSupersede'
<1> SUFFICES ASSUME ~DiscoveryOnly, row # "base_merge" PROVE row' # "base_merge"
  BY DEF FirstReviews, NothingToSupersede, DiscoveryOnly
<1>1. pc[w] # "idle" => kind[w] \in DryKinds \cup {"manual"}
  BY DEF FirstReviews, KindsOccur, ExplicitOnly
<1>2. ~SkipBaseMergeOnly(w)
  BY <1>1 DEF SkipBaseMergeOnly, DryKinds, RetryKinds
<1>3. ~RestoreRetryRow(w)
  BY <1>1 DEF RestoreRetryRow, IInv, Protocol, RetryRemembersRow, DryKinds, RetryKinds
<1>4. row' \in {row, "none", "dry_run", "posted", "failed", "cooldown", "consumed",
                "post_error", "skipped"}
  BY <1>2, <1>3
     DEF Step, Start, DeferForCooldown, AcquireAfterCheck, SkipForCapacity, ReadRetryRow,
         FindMovedHead, SkipMovedHead, EndPosted, ReadPosted, CaptureDryRun, TryRecordDryRun, ClaimHead, ClaimAcquired, LoseClaim, ClaimBlocked,
         CreateReview, CreateReviewReplyLost, RecordPosted, PersistFails, RecoverReceipt,
         SettlePosted, Fail, ReadPrevious, RecordFailed, RecordThrottled, Crash,
         RecordProcessed, ReleaseClaim, storeVars
<1> QED BY <1>4

\* Every step of a worker leaves one review in flight or public.
LEMMA OneInFlightKept ==
  ASSUME IInv, FirstReviews, DiscoveryOnly \/ ExplicitOnly, NEW w \in Workers, Step(w)
  PROVE  OneInFlight'
<1> USE DEF FirstReviews
<1>1. TypeOK /\ WorkerTypeOK
  BY DEF IInv, TypeOK
<1>2. CASE ClaimHead(w)
  <2>1. UNCHANGED <<posts, tainted>> /\ pc' = [pc EXCEPT ![w] = "claimed"]
    BY <1>2 DEF ClaimHead, Goto, history
  <2>2. ~tainted => posts = 0 /\ (\A v \in Workers : pc[v] # "claimed")
    BY <1>2, ClaimFindsNothing
  <2> QED BY <1>1, <2>1, <2>2 DEF OneInFlight, WorkerTypeOK
<1>3. CASE CreateReview(w) \/ CreateReviewReplyLost(w)
  BY <1>1, <1>3, PublishingKeepsOne
<1>4. ASSUME NEW p \in Pcs \ {"claimed"}, Goto(w, p) \/ Return(w) \/ Finish(w)
      PROVE  \A v \in Workers : pc'[v] = "claimed" => pc[v] = "claimed"
  BY <1>1, <1>4 DEF Goto, Return, Finish, WorkerTypeOK
<1>5. "working" \in Pcs \ {"claimed"} /\ "recorded" \in Pcs \ {"claimed"}
      /\ "failing" \in Pcs \ {"claimed"} /\ "throttled" \in Pcs \ {"claimed"}
      /\ "recovering" \in Pcs \ {"claimed"} /\ "rewriting" \in Pcs \ {"claimed"}
      /\ "stale" \in Pcs \ {"claimed"} /\ "skipping" \in Pcs \ {"claimed"}
      /\ "unsettled" \in Pcs \ {"claimed"}
  BY DEF Pcs, RunningPcs
<1>6. CASE \E k \in Kinds, r \in Revs : Start(w, k, r) \/ DeferForCooldown(w, k, r)
  <2>1. /\ UNCHANGED <<posts, tainted>>
        /\ \A v \in Workers : pc'[v] = "claimed" => pc[v] = "claimed"
    BY <1>1, <1>6 DEF Start, DeferForCooldown, history, workerVars, WorkerTypeOK
  <2> QED BY <2>1, OneInFlightStays
<1>7. CASE \/ AcquireAfterCheck(w) \/ SkipForCapacity(w) \/ ReadRetryRow(w) \/ RestoreRetryRow(w)
           \/ FindMovedHead(w) \/ SkipMovedHead(w) \/ SkipBaseMergeOnly(w) \/ CaptureDryRun(w)
           \/ LoseClaim(w)
  <2>1. UNCHANGED <<posts, tainted>>
    BY <1>7 DEF AcquireAfterCheck, SkipForCapacity, ReadRetryRow, RestoreRetryRow, FindMovedHead,
                SkipMovedHead, SkipBaseMergeOnly, CaptureDryRun, LoseClaim, history
  <2>2. \/ \E p \in {"working", "rewriting", "stale", "skipping"} : Goto(w, p)
        \/ Finish(w) \/ Return(w)
    BY <1>7 DEF AcquireAfterCheck, SkipForCapacity, ReadRetryRow, RestoreRetryRow, FindMovedHead,
                SkipMovedHead, SkipBaseMergeOnly, CaptureDryRun, LoseClaim
  <2> QED BY <1>4, <1>5, <2>1, <2>2, OneInFlightStays
<1>8. CASE \/ RecordPosted(w) \/ PersistFails(w) \/ RecoverReceipt(w) \/ EndPosted(w)
           \/ ReadPosted(w) \/ SettlePosted(w) \/ Fail(w) \/ RecordFailed(w) \/ RecordThrottled(w)
  <2>1. UNCHANGED posts /\ (tainted => tainted')
    BY <1>8 DEF RecordPosted, PersistFails, RecoverReceipt, EndPosted, ReadPosted, SettlePosted,
                Fail, RecordFailed, RecordThrottled, history
  <2>2. \/ \E p \in {"recorded", "unsettled", "failing", "throttled", "recovering"} : Goto(w, p)
        \/ Finish(w) \/ Return(w)
    BY <1>8 DEF RecordPosted, PersistFails, RecoverReceipt, EndPosted, ReadPosted, SettlePosted,
                Fail, RecordFailed, RecordThrottled
  <2> QED BY <1>4, <1>5, <2>1, <2>2, OneInFlightStays
<1>9. CASE ReadPrevious(w)
  <2>1. /\ UNCHANGED <<posts, tainted>>
        /\ \A v \in Workers : pc'[v] = "claimed" => pc[v] = "claimed"
    BY <1>1, <1>9 DEF ReadPrevious, history, WorkerTypeOK
  <2> QED BY <2>1, OneInFlightStays
<1>10. CASE Crash(w)
  <2>1. UNCHANGED posts /\ Return(w) /\ tainted' = (tainted \/ pc[w] = "posted")
    BY <1>10 DEF Crash
  <2>2. tainted => tainted'
    BY <2>1
  <2> QED BY <1>4, <1>5, <2>1, <2>2, OneInFlightStays
<1> QED BY <1>2, <1>3, <1>6, <1>7, <1>8, <1>9, <1>10 DEF Step

\* The environment, and stuttering.
LEMMA EnvironmentKeepsFirstReviews ==
  ASSUME FirstReviews,
         ExpireClaim \/ ReadFailedForRetirement \/ RetireFailed \/ UNCHANGED vars
  PROVE  FirstReviews'
<1>1. /\ UNCHANGED <<workerVars, posts>> /\ (tainted => tainted')
      /\ row' \in {row, "skipped"}
  <2>1. CASE ExpireClaim
    <3>1. /\ UNCHANGED <<workerVars, posts, row>>
          /\ tainted' = (tainted \/ claim \in Workers)
      BY <2>1 DEF ExpireClaim, ClaimExpires
    <3> QED BY <3>1
  <2>2. CASE ReadFailedForRetirement \/ RetireFailed \/ UNCHANGED vars
    BY <2>2 DEF ReadFailedForRetirement, RetireFailed, RecordProcessed, history, storeVars, vars
  <2> QED BY <2>1, <2>2
<1>2. KindsOccur' /\ NothingToSupersede'
  BY <1>1 DEF FirstReviews, KindsOccur, NothingToSupersede, workerVars
<1>3. OneInFlight'
  BY <1>1, OneInFlightStays DEF FirstReviews, workerVars
<1> QED BY <1>2, <1>3 DEF FirstReviews

\* Reviews that supersede nothing are one per head, for any number of them
\* and whatever dry runs, failures, cooldowns, crashes and retirements there are.
THEOREM OneReviewPerHead ==
  ASSUME DiscoveryOnly \/ ExplicitOnly
  PROVE  Spec => []AtMostOneReviewPerHead
<1>1. Init => FirstReviews
  BY DEF Init, StoreInit, FirstReviews, KindsOccur, NothingToSupersede, OneInFlight
<1>2. IInv /\ FirstReviews /\ [Next]_vars => FirstReviews'
  <2>1. ASSUME IInv, FirstReviews, NEW w \in Workers, Step(w) PROVE FirstReviews'
    BY <2>1, KindsKept, NothingToSupersedeKept, OneInFlightKept DEF FirstReviews, IInv
  <2> QED BY <2>1, EnvironmentKeepsFirstReviews DEF Next
<1>3. FirstReviews => AtMostOneReviewPerHead
  BY DEF FirstReviews, OneInFlight, AtMostOneReviewPerHead
<1> QED BY Inductive, <1>1, <1>2, <1>3, PTL DEF Spec
==============================================================================
