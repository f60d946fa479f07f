----------------------- MODULE AuthorizationLedgerProofs -----------------------
(***************************************************************************)
(* AuthorizationLedger's safety, and that it implements the one-shot       *)
(* promise of OneShotAuthorization, for every number of workers and of     *)
(* requests.                                                               *)
(***************************************************************************)
EXTENDS AuthorizationLedger, TLAPS

(***************************************************************************)
(* Type correctness.                                                       *)
(***************************************************************************)
Authorities == {"command", "requeue", "daemon"}

LEMMA StoreWritesTyped ==
  ASSUME StoreTypeOK, NEW w \in Workers
  PROVE  /\ \A k \in RowKinds : RecordProcessed(k, NoRev) => StoreTypeOK'
         /\ ReleaseClaim(w) => StoreTypeOK'
         /\ NoClaim /\ UNCHANGED <<row, rev>> => StoreTypeOK'
         /\ \A a \in Authorities :
              ClaimAcquired(w, a, NoRev) \/ ClaimBlocked(a, NoRev) => StoreTypeOK'
         /\ UNCHANGED storeVars => StoreTypeOK'
<1> USE StoreConstants DEF StoreTypeOK, NoClaim, storeVars
<1>1. ASSUME NEW k \in RowKinds, RecordProcessed(k, NoRev) PROVE StoreTypeOK'
  BY <1>1 DEF RecordProcessed
<1>2. ASSUME ReleaseClaim(w) PROVE StoreTypeOK'
  BY <1>2 DEF ReleaseClaim
<1>3. ASSUME NEW a \in Authorities,
             ClaimAcquired(w, a, NoRev) \/ ClaimBlocked(a, NoRev)
      PROVE  StoreTypeOK'
  BY <1>3 DEF ClaimAcquired, ClaimBlocked, Authorities
<1>4. NoClaim /\ UNCHANGED <<row, rev>> => StoreTypeOK'
  OBVIOUS
<1>5. UNCHANGED storeVars => StoreTypeOK'
  OBVIOUS
<1> QED BY <1>1, <1>2, <1>3, <1>4, <1>5

LocalTypeOK ==
  /\ job \in [Requests -> JobStates]
  /\ pc \in [Workers -> Pcs]
  /\ run \in [Workers -> Runs]

LedgerTypeOK ==
  /\ consumer \in Requests \cup {NoRequest}
  /\ outcome \in {"open", "posted", "no_op"}
  /\ incident \in BOOLEAN

\* What becomes of a job, whatever the row and the ledger say.
LEMMA JobEnds ==
  AfterSkip \in JobStates \ {"refused"} /\ AfterRefusal \in JobStates
BY DEF AfterSkip, AfterRefusal, JobStates

\* The worker goes on with nothing but its job, and a row to write back.
Forgets(w, p) ==
  /\ Goto(w, p) /\ UNCHANGED job
  /\ \/ run' = [run EXCEPT ![w] = [NoRun EXCEPT !.cmd = run[w].cmd]]
     \/ \E e \in Events \cup {"none"} :
          run' = [run EXCEPT ![w] = [NoRun EXCEPT !.cmd = run[w].cmd, !.back = e]]

\* The ways in which a step writes a worker's local state.
LEMMA LocalWritesTyped ==
  ASSUME LocalTypeOK, NEW w \in Workers, NEW p \in Pcs, NEW s \in JobStates
  PROVE  /\ Goto(w, p) /\ UNCHANGED <<run, job>> => LocalTypeOK'
         /\ Leave(w, s) => LocalTypeOK'
         /\ Throw(w) => LocalTypeOK'
         /\ Forgets(w, p) => LocalTypeOK'
         /\ UNCHANGED local => LocalTypeOK'
<1> USE DEF LocalTypeOK, Goto, local
<1>1. /\ NoRun \in Runs /\ [NoRun EXCEPT !.cmd = run[w].cmd] \in Runs
      /\ \A e \in Events \cup {"none"} :
           [NoRun EXCEPT !.cmd = run[w].cmd, !.back = e] \in Runs
  BY DEF NoRun, Runs
<1>2. "idle" \in Pcs /\ "failing" \in Pcs
  BY DEF Pcs
<1>3. Goto(w, p) /\ UNCHANGED <<run, job>> => LocalTypeOK'
  OBVIOUS
<1>4. Leave(w, s) => LocalTypeOK'
  BY <1>1, <1>2 DEF Leave
<1>5. Throw(w) => LocalTypeOK'
  BY <1>1, <1>2 DEF Throw
<1>6. Forgets(w, p) => LocalTypeOK'
  BY <1>1 DEF Forgets
<1> QED BY <1>3, <1>4, <1>5, <1>6

\* What a worker runs stays well formed when one field of it changes.
LEMMA RunFields ==
  ASSUME NEW r \in Runs
  PROVE  /\ \A b \in BOOLEAN :
              (b => r.cmd \in Requests) => [r EXCEPT !.exact = b] \in Runs
         /\ \A k \in {"no", "posted", "verified"} : [r EXCEPT !.keep = k] \in Runs
         /\ \A e \in Events : [r EXCEPT !.event = e] \in Runs
         /\ [r EXCEPT !.used = TRUE] \in Runs
         /\ [r EXCEPT !.retry = FALSE] \in Runs
BY DEF Runs

\* A step that changes only a worker's flags and event.
LEMMA RunWritesTyped ==
  ASSUME LocalTypeOK, NEW w \in Workers
  PROVE  /\ \A b \in BOOLEAN :
              (b => ForRequest(w)) => [run EXCEPT ![w].exact = b] \in [Workers -> Runs]
         /\ \A k \in {"no", "posted", "verified"} :
              [run EXCEPT ![w].keep = k] \in [Workers -> Runs]
         /\ [run EXCEPT ![w].retry = FALSE] \in [Workers -> Runs]
         /\ \A e \in Events :
              /\ [run EXCEPT ![w].exact = FALSE, ![w].event = e] \in [Workers -> Runs]
              /\ [run EXCEPT ![w].exact = FALSE, ![w].used = TRUE, ![w].event = e]
                   \in [Workers -> Runs]
<1>1. run \in [Workers -> Runs]
  BY DEF LocalTypeOK
<1>2. ASSUME NEW f \in [Workers -> Runs], NEW r \in Runs
      PROVE  [f EXCEPT ![w] = r] \in [Workers -> Runs]
  OBVIOUS
<1>3. ASSUME NEW b \in BOOLEAN, b => ForRequest(w)
      PROVE  [run EXCEPT ![w].exact = b] \in [Workers -> Runs]
  BY <1>1, <1>2, <1>3, RunFields DEF ForRequest
<1>4. ASSUME NEW k \in {"no", "posted", "verified"}
      PROVE  [run EXCEPT ![w].keep = k] \in [Workers -> Runs]
  BY <1>1, <1>2, RunFields
<1>5. ASSUME NEW f \in [Workers -> Runs], NEW e \in Events
      PROVE  [f EXCEPT ![w].event = e] \in [Workers -> Runs]
  BY <1>2, RunFields
<1>6. ASSUME NEW f \in [Workers -> Runs]
      PROVE  [f EXCEPT ![w].used = TRUE] \in [Workers -> Runs]
  BY <1>2, RunFields
<1>7. [run EXCEPT ![w].exact = FALSE] \in [Workers -> Runs]
  BY <1>3
<1>8. ASSUME NEW e \in Events
      PROVE  [run EXCEPT ![w].exact = FALSE, ![w].event = e] \in [Workers -> Runs]
  <2>1. [run EXCEPT ![w].exact = FALSE, ![w].event = e]
          = [[run EXCEPT ![w].exact = FALSE] EXCEPT ![w].event = e]
    OBVIOUS
  <2> QED BY <1>5, <1>7, <2>1
<1>9. ASSUME NEW e \in Events
      PROVE  [run EXCEPT ![w].exact = FALSE, ![w].used = TRUE, ![w].event = e]
               \in [Workers -> Runs]
  <2>1. [run EXCEPT ![w].exact = FALSE, ![w].used = TRUE, ![w].event = e]
          = [[[run EXCEPT ![w].exact = FALSE] EXCEPT ![w].used = TRUE] EXCEPT ![w].event = e]
    OBVIOUS
  <2> QED BY <1>5, <1>6, <1>7, <2>1
<1>10. [run EXCEPT ![w].retry = FALSE] \in [Workers -> Runs]
  BY <1>1, <1>2, RunFields
<1> QED BY <1>3, <1>4, <1>8, <1>9, <1>10

HistoryTypeOK ==
  /\ event \in Events \cup {"none"}
  /\ unsure \in BOOLEAN
  /\ answer \in Events \cup {"none"}
  /\ changes \in Nat
  /\ lost \in BOOLEAN

LEMMA TypeParts ==
  /\ TypeOK <=> StoreTypeOK /\ LedgerTypeOK /\ LocalTypeOK /\ HistoryTypeOK
  /\ TypeOK' <=> StoreTypeOK' /\ LedgerTypeOK' /\ LocalTypeOK' /\ HistoryTypeOK'
BY DEF TypeOK, LedgerTypeOK, LocalTypeOK, HistoryTypeOK

\* Recording a row keeps the store and the history typed.
LEMMA RecordTyped ==
  ASSUME StoreTypeOK, HistoryTypeOK, NEW w \in Workers, NEW k \in RowKinds,
         NEW e \in Events \cup {"none"}, UNCHANGED public,
         Record(w, k, e) \/ Upsert(w, k, e, TRUE)
  PROVE  StoreTypeOK' /\ HistoryTypeOK'
<1>1. StoreTypeOK'
  BY StoreWritesTyped DEF Record, Upsert
<1>2. HistoryTypeOK'
  BY DEF Record, Upsert, HistoryTypeOK, public
<1> QED BY <1>1, <1>2

LEMMA StartsTyped ==
  ASSUME TypeOK, NEW w \in Workers,
         \/ \E c \in Requests : StartRequest(w, c)
         \/ \E k \in Ordinary : StartOrdinary(w, k)
  PROVE  TypeOK'
<1>1. PICK k \in Requests \cup Ordinary, q \in BOOLEAN, p \in {"resolving", "working"} :
        /\ Begin(w, k, q) /\ Goto(w, p)
        /\ job' = job \/ \E c \in Requests : job' = [job EXCEPT ![c] = "queued"]
  <2>1. ASSUME NEW c \in Requests, StartRequest(w, c)
        PROVE  \/ Begin(w, c, row \in RetryableRows)
               \/ Begin(w, c, TRUE)
    BY <2>1 DEF StartRequest
  <2>2. (row \in RetryableRows) \in BOOLEAN
    OBVIOUS
  <2>3. CASE \E c \in Requests : StartRequest(w, c)
    <3>1. PICK c \in Requests : StartRequest(w, c)
      BY <2>3
    <3>2. PICK q \in BOOLEAN : Begin(w, c, q)
      BY <2>1, <2>2, <3>1
    <3>3. Goto(w, "resolving") /\ job' = [job EXCEPT ![c] = "queued"]
      BY <3>1 DEF StartRequest
    <3> QED BY <3>2, <3>3
  <2>4. CASE \E k \in Ordinary : StartOrdinary(w, k)
    <3>1. PICK k \in Ordinary : StartOrdinary(w, k)
      BY <2>4
    <3>2. Begin(w, k, row \in RetryableRows) /\ Goto(w, "working") /\ job' = job
      BY <3>1 DEF StartOrdinary
    <3> QED BY <2>2, <3>2
  <2> QED BY <2>3, <2>4
<1>2. PICK b \in BOOLEAN :
        /\ b => k \in Requests
        /\ run' = [run EXCEPT ![w] = [NoRun EXCEPT !.cmd = k, !.retry = q, !.exact = b]]
  BY <1>1 DEF Begin
<1>3. [NoRun EXCEPT !.cmd = k, !.retry = q, !.exact = b] \in Runs
  BY <1>2 DEF NoRun, Runs
<1>4. LocalTypeOK'
  BY <1>1, <1>2, <1>3, TypeParts DEF LocalTypeOK, Goto, Pcs, JobStates
<1>5. StoreTypeOK' /\ LedgerTypeOK' /\ HistoryTypeOK'
  BY <1>1, TypeParts
     DEF Begin, StoreTypeOK, LedgerTypeOK, HistoryTypeOK, storeVars, ledger, public
<1> QED BY <1>4, <1>5, TypeParts

LEMMA ReviewStepsTyped ==
  ASSUME TypeOK, NEW w \in Workers,
         \/ Admit(w) \/ RefuseEarly(w) \/ ReportIncident(w) \/ SkipMovedHead(w)
         \/ DeferForCooldown(w) \/ ClaimHead(w) \/ LoseClaim(w)
         \/ LookUpAgain(w) \/ RefuseUnderClaim(w)
  PROVE  TypeOK'
<1> USE TypeParts DEF Stay, ledger, public
<1>1. {"working", "idle", "reporting", "claimed", "checked"} \subseteq Pcs
      /\ {"ended", "refused", "queued", "deferred"} \subseteq JobStates
      /\ {"skipped", "cooldown"} \subseteq RowKinds
  BY DEF Pcs, OwningPcs, JobStates, RowKinds
<1>2. CASE Admit(w)
  BY <1>1, <1>2, JobEnds, StoreWritesTyped, LocalWritesTyped
     DEF Admit, LedgerTypeOK, HistoryTypeOK
<1>3. CASE RefuseEarly(w) \/ RefuseUnderClaim(w)
  BY <1>1, <1>3, JobEnds, StoreWritesTyped, LocalWritesTyped
     DEF RefuseEarly, RefuseUnderClaim, Refuse, LedgerTypeOK, HistoryTypeOK
<1>4. CASE ReportIncident(w)
  BY <1>1, <1>4, JobEnds, StoreWritesTyped, LocalWritesTyped
     DEF ReportIncident, RecordIncident, LedgerTypeOK, HistoryTypeOK
<1>5. CASE SkipMovedHead(w)
  <2>1. LedgerTypeOK' /\ LocalTypeOK'
    BY <1>1, <1>5, LocalWritesTyped DEF SkipMovedHead, LedgerTypeOK
  <2>2. StoreTypeOK' /\ HistoryTypeOK'
    BY <1>1, <1>5, StoreWritesTyped, RecordTyped DEF SkipMovedHead, HistoryTypeOK
  <2> QED BY <2>1, <2>2
<1>6. CASE DeferForCooldown(w)
  <2>1. LedgerTypeOK' /\ LocalTypeOK'
    BY <1>1, <1>6, LocalWritesTyped DEF DeferForCooldown, LedgerTypeOK
  <2>2. StoreTypeOK' /\ HistoryTypeOK'
    BY <1>1, <1>6, RecordTyped DEF DeferForCooldown
  <2> QED BY <2>1, <2>2
<1>7. CASE ClaimHead(w)
  <2>1. Authority(w) \in Authorities
    BY DEF Authority, Authorities
  <2>2. LocalTypeOK'
    BY <1>1, <1>7, RunWritesTyped DEF ClaimHead, Goto, LocalTypeOK
  <2> QED BY <1>7, <2>1, <2>2, StoreWritesTyped
          DEF ClaimHead, LedgerTypeOK, HistoryTypeOK
<1>8. CASE LoseClaim(w)
  <2>1. Authority(w) \in Authorities
    BY DEF Authority, Authorities
  <2> QED BY <1>1, <1>8, <2>1, JobEnds, StoreWritesTyped, LocalWritesTyped
          DEF LoseClaim, LedgerTypeOK, HistoryTypeOK
<1>9. CASE LookUpAgain(w)
  <2>1. PICK b \in BOOLEAN :
          (b => ForRequest(w)) /\ run' = [run EXCEPT ![w].exact = b]
    BY <1>9 DEF LookUpAgain, LookUp
  <2>2. run' \in [Workers -> Runs]
    BY <2>1, RunWritesTyped
  <2>3. LocalTypeOK'
    BY <1>1, <1>9, <2>2 DEF LookUpAgain, Goto, LocalTypeOK
  <2>4. StoreTypeOK' /\ LedgerTypeOK' /\ HistoryTypeOK'
    BY <1>9, StoreWritesTyped
       DEF LookUpAgain, LedgerTypeOK, HistoryTypeOK
  <2> QED BY <2>3, <2>4
<1> QED BY <1>2, <1>3, <1>4, <1>5, <1>6, <1>7, <1>8, <1>9

LEMMA PublicationStepsTyped ==
  ASSUME TypeOK, NEW w \in Workers,
         \/ \E e \in Events : Decide(w, e)
         \/ ResolveNoop(w) \/ Proceed(w) \/ Send(w)
         \/ CreateReview(w) \/ CreateReviewReplyLost(w)
         \/ RecordAuthorized(w) \/ RecordAdvisory(w) \/ SettlePosted(w)
  PROVE  TypeOK'
<1> USE TypeParts DEF Stay, ledger, public
<1>1. {"idle", "decided", "posting", "sent", "receipt", "settling"} \subseteq Pcs
      /\ "ended" \in JobStates /\ "posted" \in RowKinds
  BY DEF Pcs, OwningPcs, JobStates, RowKinds
<1>2. LocalTypeOK /\ StoreTypeOK /\ HistoryTypeOK /\ LedgerTypeOK
  OBVIOUS
<1>3. ASSUME NEW e \in Events, Decide(w, e) PROVE TypeOK'
  <2>1. CASE UNCHANGED consumer /\ run' = [run EXCEPT ![w].exact = FALSE, ![w].event = "COMMENT"]
    <3>1. run' \in [Workers -> Runs]
      <4>1. "COMMENT" \in Events
        BY DEF Events
      <4> QED BY <1>2, <2>1, <4>1, RunWritesTyped
    <3> QED BY <1>1, <1>2, <1>3, <2>1, <3>1, StoreWritesTyped
            DEF Decide, Goto, LocalTypeOK, LedgerTypeOK, HistoryTypeOK
  <2>2. CASE /\ consumer' = run[w].cmd
             /\ run' = [run EXCEPT ![w].exact = FALSE, ![w].used = TRUE, ![w].event = e]
             /\ run[w].cmd \in Requests
    <3>1. run' \in [Workers -> Runs]
      BY <1>2, <2>2, RunWritesTyped
    <3> QED BY <1>1, <1>2, <1>3, <2>2, <3>1, StoreWritesTyped
            DEF Decide, Goto, LocalTypeOK, LedgerTypeOK, HistoryTypeOK
  <2>3. run[w].exact => run[w].cmd \in Requests
    BY <1>2 DEF LocalTypeOK, Runs
  <2> QED BY <1>3, <2>1, <2>2, <2>3 DEF Decide
<1>4. CASE ResolveNoop(w)
  <2>1. LedgerTypeOK'
    BY <1>4, <1>2 DEF ResolveNoop, LedgerTypeOK
  <2>2. LocalTypeOK'
    BY <1>4, <1>1, <1>2, LocalWritesTyped DEF ResolveNoop
  <2>3. StoreTypeOK' /\ HistoryTypeOK'
    BY <1>4, <1>2, StoreWritesTyped DEF ResolveNoop, Throw, HistoryTypeOK
  <2> QED BY <2>1, <2>2, <2>3
<1>5. CASE Proceed(w)
  BY <1>1, <1>2, <1>5, StoreWritesTyped, LocalWritesTyped
     DEF Proceed, LedgerTypeOK, HistoryTypeOK
<1>6. CASE Send(w)
  <2>1. run' \in [Workers -> Runs]
    BY <1>2, <1>6, RunWritesTyped DEF Send
  <2> QED BY <1>1, <1>2, <1>6, <2>1, StoreWritesTyped
          DEF Send, Goto, LocalTypeOK, LedgerTypeOK, HistoryTypeOK
<1>7. CASE CreateReview(w) \/ CreateReviewReplyLost(w)
  <2>1. run[w].event \in Events \cup {"none"}
    BY <1>2 DEF LocalTypeOK, Runs
  <2>2. HistoryTypeOK'
    BY <1>2, <1>7, <2>1
       DEF CreateReview, CreateReviewReplyLost, Publish, Throw, HistoryTypeOK
  <2>3. LedgerTypeOK' /\ LocalTypeOK' /\ StoreTypeOK'
    BY <1>1, <1>2, <1>7, StoreWritesTyped, LocalWritesTyped
       DEF CreateReview, CreateReviewReplyLost, LedgerTypeOK, Throw
  <2> QED BY <2>2, <2>3
<1>8. CASE RecordAuthorized(w) \/ RecordAdvisory(w)
  <2>1. run[w].event \in Events \cup {"none"}
    BY <1>2 DEF LocalTypeOK, Runs
  <2>2. StoreTypeOK' /\ HistoryTypeOK'
    BY <1>1, <1>2, <1>8, <2>1, StoreWritesTyped, RecordTyped
       DEF RecordAuthorized, RecordAdvisory, HistoryTypeOK
  <2>3. LedgerTypeOK' /\ LocalTypeOK'
    BY <1>1, <1>2, <1>8, LocalWritesTyped
       DEF RecordAuthorized, RecordAdvisory, LedgerTypeOK
  <2> QED BY <2>2, <2>3
<1>9. CASE SettlePosted(w)
  <2>1. StoreTypeOK' /\ HistoryTypeOK'
    <3>1. run[w].back \in Events \cup {"none"}
      BY <1>2 DEF LocalTypeOK, Runs
    <3> QED BY <1>1, <1>2, <1>9, <3>1, RecordTyped DEF SettlePosted
  <2>2. LedgerTypeOK' /\ LocalTypeOK'
    BY <1>1, <1>2, <1>9, LocalWritesTyped DEF SettlePosted, LedgerTypeOK
  <2> QED BY <2>1, <2>2
<1> QED BY <1>3, <1>4, <1>5, <1>6, <1>7, <1>8, <1>9

\* The head is read, and the worker ends or goes on to write what it saw.
HeadReads(w) == FindMovedHead(w) \/ EndPosted(w) \/ ReadPosted(w)

LEMMA HeadReadSteps ==
  ASSUME HistoryTypeOK, NEW w \in Workers, HeadReads(w)
  PROVE  /\ ReleaseClaim(w) \/ UNCHANGED storeVars
         /\ UNCHANGED <<ledger, public>> /\ Stay
         /\ Leave(w, "ended") \/ \E p \in {"skipping", "unsettled"} : Forgets(w, p)
BY DEF HeadReads, FindMovedHead, EndPosted, ReadPosted, Forgets, HistoryTypeOK

LEMMA HeadReadsTyped ==
  ASSUME TypeOK, NEW w \in Workers, HeadReads(w)
  PROVE  TypeOK'
<1>1. {"skipping", "unsettled", "idle"} \subseteq Pcs /\ "ended" \in JobStates
  BY DEF Pcs, JobStates
<1>2. LocalTypeOK'
  BY <1>1, HeadReadSteps, LocalWritesTyped, TypeParts
<1>3. StoreTypeOK'
  BY HeadReadSteps, StoreWritesTyped, TypeParts
<1>4. LedgerTypeOK' /\ HistoryTypeOK'
  BY HeadReadSteps, TypeParts DEF Stay, ledger, public, LedgerTypeOK, HistoryTypeOK
<1> QED BY <1>2, <1>3, <1>4, TypeParts

LEMMA FailureStepsTyped ==
  ASSUME TypeOK, NEW w \in Workers,
         Fail(w) \/ ReadPrevious(w) \/ RecordFailed(w) \/ Crash(w)
  PROVE  TypeOK'
<1> USE TypeParts DEF Stay, ledger, public
<1>1. {"idle", "writing"} \subseteq Pcs /\ "ended" \in JobStates /\ "failed" \in RowKinds
  BY DEF Pcs, JobStates, RowKinds
<1>2. LocalTypeOK /\ StoreTypeOK /\ HistoryTypeOK /\ LedgerTypeOK
  OBVIOUS
<1>3. CASE Fail(w)
  <2>1. LocalTypeOK'
    BY <1>1, <1>2, <1>3, LocalWritesTyped DEF Fail
  <2>2. StoreTypeOK' /\ LedgerTypeOK' /\ HistoryTypeOK'
    BY <1>2, <1>3, StoreWritesTyped DEF Fail, Throw, LedgerTypeOK, HistoryTypeOK
  <2> QED BY <2>1, <2>2
<1>4. CASE ReadPrevious(w)
  BY <1>1, <1>2, <1>4, StoreWritesTyped, LocalWritesTyped
     DEF ReadPrevious, LedgerTypeOK, HistoryTypeOK
<1>5. CASE RecordFailed(w)
  <2>1. StoreTypeOK' /\ HistoryTypeOK'
    BY <1>1, <1>2, <1>5, RecordTyped DEF RecordFailed
  <2>2. LedgerTypeOK' /\ LocalTypeOK'
    BY <1>1, <1>2, <1>5, LocalWritesTyped DEF RecordFailed, LedgerTypeOK
  <2> QED BY <2>1, <2>2
<1>6. CASE Crash(w)
  <2>1. StoreTypeOK'
    BY <1>2, <1>6, StoreConstants DEF Crash, StoreTypeOK
  <2>2. NoRun \in Runs
    BY DEF NoRun, Runs
  <2> QED BY <1>1, <1>2, <1>6, <2>1, <2>2
          DEF Crash, Goto, LocalTypeOK, LedgerTypeOK, HistoryTypeOK
<1> QED BY <1>3, <1>4, <1>5, <1>6

\* Every variable stays in its type.
THEOREM TypeCorrect == Spec => []TypeOK
<1>1. Init => TypeOK
  <2> SUFFICES ASSUME Init PROVE TypeOK
    OBVIOUS
  <2>1. NoRun \in Runs
    BY DEF NoRun, Runs
  <2>2. LocalTypeOK
    BY <2>1 DEF Init, LocalTypeOK, JobStates, Pcs
  <2>3. StoreTypeOK
    BY DEF Init, StoreTypeOK, RowKinds
  <2>4. LedgerTypeOK /\ HistoryTypeOK
    BY DEF Init, LedgerTypeOK, HistoryTypeOK, Events
  <2> QED BY <2>2, <2>3, <2>4, TypeParts
<1>2. TypeOK /\ [Next]_vars => TypeOK'
  <2> SUFFICES ASSUME TypeOK, [Next]_vars PROVE TypeOK'
    OBVIOUS
  <2>1. ASSUME NEW w \in Workers, Step(w) PROVE TypeOK'
    BY <2>1, StartsTyped, ReviewStepsTyped, HeadReadsTyped, PublicationStepsTyped,
       FailureStepsTyped
       DEF Step, HeadReads
  <2>2. ASSUME NEW c \in Requests, Enqueue(c) PROVE TypeOK'
    BY <2>2 DEF Enqueue, TypeOK, StoreTypeOK, storeVars, ledger,
                public, JobStates
  <2>3. CASE ExpireClaim
    BY <2>3 DEF ExpireClaim, ClaimExpires, TypeOK, StoreTypeOK, ledger, public
  <2>4. CASE UNCHANGED vars
    BY <2>4 DEF vars, TypeOK, StoreTypeOK, storeVars, ledger, public
  <2> QED BY <2>1, <2>2, <2>3, <2>4 DEF Next
<1> QED BY <1>1, <1>2, PTL DEF Spec

-----------------------------------------------------------------------------
(***************************************************************************)
(* OneShot.  TypeOK alone does not say who may still publish under the     *)
(* authorization: ConsumerInv adds that at most one worker holds it, that  *)
(* this worker runs the comment in the ledger, and how far it has come.    *)
(***************************************************************************)
HolderPcs == {"decided", "posting", "sent", "receipt", "settling"}

HolderOK(w) ==
  /\ run[w].used =>
       /\ pc[w] \in HolderPcs
       /\ run[w].cmd = consumer /\ consumer \in Requests
       /\ run[w].event \in Events
       /\ pc[w] \in {"decided", "posting", "sent"} => answer = "none" /\ outcome = "open"
       /\ pc[w] = "receipt" => answer # "none" /\ outcome = "open"
  /\ run[w].event = "REQUEST_CHANGES" => run[w].used

ConsumerInv ==
  /\ consumer = NoRequest => answer = "none" /\ outcome = "open"
  /\ \A w \in Workers : HolderOK(w)
  /\ \A v, w \in Workers : run[v].used /\ run[w].used => v = w

\* What a step of w leaves alone, and a step after which w holds nothing.
OthersKept(w) == \A v \in Workers \ {w} : pc'[v] = pc[v] /\ run'[v] = run[v]
HoldsNothing(w) ==
  /\ OthersKept(w)
  /\ ~run'[w].used /\ run'[w].event # "REQUEST_CHANGES"
PromiseKept == UNCHANGED <<consumer, answer, outcome, changes>>

LEMMA LettingGo ==
  ASSUME LocalTypeOK, NEW w \in Workers, NEW s \in JobStates,
         Leave(w, s) \/ Throw(w) \/ \E p \in {"skipping", "unsettled"} : Forgets(w, p)
  PROVE  HoldsNothing(w)
<1> USE DEF LocalTypeOK, Goto, HoldsNothing, OthersKept, NoRun
<1>1. CASE Leave(w, s) \/ Throw(w)
  BY <1>1 DEF Leave, Throw
<1>2. CASE \E p \in {"skipping", "unsettled"} : Forgets(w, p)
  <2>1. PICK e : run' = [run EXCEPT ![w] = [NoRun EXCEPT !.cmd = run[w].cmd, !.back = e]]
                 \/ run' = [run EXCEPT ![w] = [NoRun EXCEPT !.cmd = run[w].cmd]]
    BY <1>2 DEF Forgets
  <2>2. \A v \in Workers \ {w} : pc'[v] = pc[v]
    BY <1>2 DEF Forgets
  <2>3. \A v \in Workers \ {w} : run'[v] = run[v]
    BY <2>1
  <2>4. run'[w] \in {[NoRun EXCEPT !.cmd = run[w].cmd, !.back = e],
                     [NoRun EXCEPT !.cmd = run[w].cmd]}
    BY <2>1
  <2> QED BY <2>2, <2>3, <2>4
<1> QED BY <1>1, <1>2

LEMMA NotYetHolding ==
  ASSUME LocalTypeOK, ConsumerInv, NEW w \in Workers, NEW p \in Pcs,
         pc[w] \notin HolderPcs \/ ~run[w].used, Goto(w, p), UNCHANGED run
  PROVE  HoldsNothing(w)
BY DEF LocalTypeOK, ConsumerInv, HolderOK, Goto, HoldsNothing, OthersKept

LEMMA HoldsNothingKeeps ==
  ASSUME LocalTypeOK, ConsumerInv, NEW w \in Workers, HoldsNothing(w), PromiseKept
  PROVE  ConsumerInv'
BY DEF ConsumerInv, HolderOK, HoldsNothing, OthersKept, PromiseKept

LEMMA QuietReviewSteps ==
  ASSUME LocalTypeOK, ConsumerInv, NEW w \in Workers,
         \/ Admit(w) \/ RefuseEarly(w) \/ ReportIncident(w) \/ SkipMovedHead(w)
         \/ DeferForCooldown(w) \/ ClaimHead(w) \/ LoseClaim(w)
         \/ LookUpAgain(w) \/ RefuseUnderClaim(w)
  PROVE  ConsumerInv' /\ PromiseKept
<1> SUFFICES HoldsNothing(w) /\ PromiseKept
  BY HoldsNothingKeeps
<1>1. {"working", "idle", "reporting", "claimed", "checked"} \subseteq Pcs
      /\ {"ended", "refused", "queued", "deferred"} \subseteq JobStates
  BY DEF Pcs, OwningPcs, JobStates
<1>2. CASE Admit(w)
  BY <1>1, <1>2, JobEnds, LettingGo, NotYetHolding
     DEF Admit, HolderPcs, ledger, public, PromiseKept
<1>3. CASE RefuseEarly(w) \/ RefuseUnderClaim(w)
  BY <1>1, <1>3, JobEnds, LettingGo, NotYetHolding
     DEF RefuseEarly, RefuseUnderClaim, Refuse, HolderPcs, ledger, public, PromiseKept
<1>4. CASE ReportIncident(w)
  BY <1>1, <1>4, JobEnds, LettingGo DEF ReportIncident, RecordIncident, public, PromiseKept
<1>5. CASE SkipMovedHead(w) \/ DeferForCooldown(w) \/ LoseClaim(w)
  BY <1>1, <1>5, JobEnds, LettingGo
     DEF SkipMovedHead, DeferForCooldown, LoseClaim, ledger, public, PromiseKept
<1>6. CASE ClaimHead(w)
  <2>1. ~run[w].used /\ run[w].event # "REQUEST_CHANGES"
    BY <1>6 DEF ClaimHead, ConsumerInv, HolderOK, HolderPcs
  <2>2. HoldsNothing(w)
    BY <1>6, <2>1 DEF LocalTypeOK, Runs, ClaimHead, Goto, HoldsNothing, OthersKept
  <2> QED BY <1>6, <2>2 DEF ClaimHead, ledger, public, PromiseKept
<1>7. CASE LookUpAgain(w)
  <2>1. PICK b \in BOOLEAN : run' = [run EXCEPT ![w].exact = b]
    BY <1>7 DEF LookUpAgain, LookUp
  <2>2. ~run[w].used /\ run[w].event # "REQUEST_CHANGES"
    BY <1>7 DEF LookUpAgain, ConsumerInv, HolderOK, HolderPcs
  <2>3. HoldsNothing(w)
    BY <1>7, <2>1, <2>2
       DEF LocalTypeOK, Runs, LookUpAgain, Goto, HoldsNothing, OthersKept
  <2> QED BY <1>7, <2>3 DEF LookUpAgain, ledger, public, PromiseKept
<1> QED BY <1>2, <1>3, <1>4, <1>5, <1>6, <1>7

LEMMA QuietLocalSteps ==
  ASSUME LocalTypeOK, ConsumerInv, NEW w \in Workers,
         \/ \E c \in Requests : StartRequest(w, c)
         \/ \E k \in Ordinary : StartOrdinary(w, k)
         \/ HistoryTypeOK /\ HeadReads(w)
         \/ RecordAdvisory(w) \/ SettlePosted(w)
         \/ Fail(w) \/ ReadPrevious(w) \/ RecordFailed(w) \/ Crash(w)
  PROVE  ConsumerInv' /\ PromiseKept
<1> SUFFICES HoldsNothing(w) /\ PromiseKept
  BY HoldsNothingKeeps
<1>1. {"settling", "writing"} \subseteq Pcs /\ "ended" \in JobStates
  BY DEF Pcs, JobStates
<1>2. ASSUME NEW k, NEW q, NEW p, Begin(w, k, q), Goto(w, p)
      PROVE  HoldsNothing(w) /\ PromiseKept
  <2>1. PICK b \in BOOLEAN :
          run' = [run EXCEPT ![w] = [NoRun EXCEPT !.cmd = k, !.retry = q, !.exact = b]]
    BY <1>2 DEF Begin
  <2>2. HoldsNothing(w)
    BY <1>2, <2>1 DEF LocalTypeOK, Goto, NoRun, HoldsNothing, OthersKept
  <2> QED BY <1>2, <2>2 DEF Begin, ledger, public, PromiseKept
<1>3. CASE (\E c \in Requests : StartRequest(w, c)) \/ \E k \in Ordinary : StartOrdinary(w, k)
  BY <1>2, <1>3 DEF StartRequest, StartOrdinary
<1>4. CASE RecordAdvisory(w)
  BY <1>1, <1>4, NotYetHolding DEF RecordAdvisory, ledger, public, PromiseKept
<1>5. CASE SettlePosted(w) \/ RecordFailed(w)
  BY <1>1, <1>5, LettingGo DEF SettlePosted, RecordFailed, ledger, public, PromiseKept
<1>6. CASE Fail(w)
  BY <1>1, <1>6, LettingGo DEF Fail, ledger, public, PromiseKept
<1>7. CASE ReadPrevious(w)
  BY <1>1, <1>7, LettingGo, NotYetHolding
     DEF ReadPrevious, HolderPcs, ledger, public, PromiseKept
<1>8. CASE Crash(w)
  <2>1. HoldsNothing(w)
    BY <1>8 DEF Crash, LocalTypeOK, Goto, NoRun, HoldsNothing, OthersKept
  <2> QED BY <1>8, <2>1 DEF Crash, ledger, public, PromiseKept
<1>9. CASE HistoryTypeOK /\ HeadReads(w)
  BY <1>1, <1>9, HeadReadSteps, LettingGo DEF ledger, public, PromiseKept
<1> QED BY <1>3, <1>4, <1>5, <1>6, <1>7, <1>8, <1>9

\* The holder moves on towards its POST.
LEMMA HolderMovesOn ==
  ASSUME LocalTypeOK, ConsumerInv, NEW w \in Workers, Proceed(w) \/ Send(w)
  PROVE  ConsumerInv' /\ PromiseKept
<1>1. OthersKept(w) /\ PromiseKept
  BY DEF Proceed, Send, Goto, LocalTypeOK, OthersKept, ledger, public, PromiseKept
<1>2. /\ pc[w] \in {"decided", "posting"} /\ pc'[w] \in {"posting", "sent"}
      /\ run'[w].used = run[w].used /\ run'[w].event = run[w].event
      /\ run'[w].cmd = run[w].cmd
  BY DEF Proceed, Send, Goto, LocalTypeOK, Runs
<1>3. HolderOK(w)'
  BY <1>1, <1>2 DEF ConsumerInv, HolderOK, PromiseKept, HolderPcs
<1> QED BY <1>1, <1>2, <1>3 DEF ConsumerInv, HolderOK, OthersKept, PromiseKept

LEMMA DecideSpends ==
  ASSUME LocalTypeOK, ConsumerInv, NEW w \in Workers, NEW e \in Events, Decide(w, e)
  PROVE  ConsumerInv' /\ (Promise!Spend \/ PromiseKept)
<1>1. ~run[w].used /\ run[w].event # "REQUEST_CHANGES"
  BY DEF Decide, ConsumerInv, HolderOK, HolderPcs
<1>2. OthersKept(w)
  BY DEF Decide, Goto, LocalTypeOK, OthersKept
<1>3. CASE /\ run[w].exact /\ consumer = NoRequest /\ consumer' = run[w].cmd
           /\ run' = [run EXCEPT ![w].exact = FALSE, ![w].used = TRUE, ![w].event = e]
  <2>1. /\ run'[w].used /\ run'[w].event = e /\ run'[w].cmd = consumer'
        /\ pc'[w] = "decided"
    BY <1>3 DEF Decide, Goto, LocalTypeOK, Runs
  <2>2. consumer' \in Requests /\ consumer' # NoRequest
    BY <1>3, RequestConstants DEF LocalTypeOK, Runs
  <2>3. answer = "none" /\ outcome = "open" /\ UNCHANGED <<answer, outcome, changes>>
    BY <1>3 DEF ConsumerInv, Decide, public
  <2>4. \A v \in Workers \ {w} : ~run[v].used
    BY <1>3, RequestConstants DEF ConsumerInv, HolderOK
  <2>5. HolderOK(w)'
    BY <2>1, <2>2, <2>3 DEF HolderOK, HolderPcs
  <2>6. \A v \in Workers \ {w} : HolderOK(v)' /\ ~run'[v].used
    BY <1>2, <2>4 DEF ConsumerInv, HolderOK, OthersKept
  <2>7. ConsumerInv'
    BY <2>2, <2>5, <2>6 DEF ConsumerInv
  <2> QED BY <1>3, <2>2, <2>3, <2>7 DEF Promise!Spend
<1>4. CASE UNCHANGED consumer /\ run' = [run EXCEPT ![w].exact = FALSE, ![w].event = "COMMENT"]
  <2>1. HoldsNothing(w)
    BY <1>1, <1>2, <1>4 DEF LocalTypeOK, Runs, HoldsNothing
  <2>2. PromiseKept
    BY <1>4 DEF Decide, public, PromiseKept
  <2> QED BY <2>1, <2>2, HoldsNothingKeeps
<1> QED BY <1>3, <1>4 DEF Decide, MayConsume

LEMMA NoopResolves ==
  ASSUME LocalTypeOK, ConsumerInv, NEW w \in Workers, ResolveNoop(w)
  PROVE  ConsumerInv' /\ (Promise!Resolve \/ PromiseKept)
<1>1. HoldsNothing(w)
  BY LettingGo DEF ResolveNoop, JobStates
<1>2. CASE Throw(w) /\ UNCHANGED ledger
  BY <1>1, <1>2, HoldsNothingKeeps DEF ResolveNoop, ledger, public, PromiseKept
<1>3. CASE outcome' = "no_op" /\ UNCHANGED consumer
  <2>1. /\ consumer \in Requests /\ consumer # NoRequest
        /\ answer = "none" /\ outcome = "open"
        /\ \A v \in Workers \ {w} : ~run[v].used
    BY RequestConstants DEF ConsumerInv, HolderOK, ResolveNoop, AlreadyPosted
  <2>2. UNCHANGED <<consumer, answer, changes>>
    BY <1>3 DEF ResolveNoop, public
  <2>3. ConsumerInv'
    BY <1>1, <1>3, <2>1, <2>2 DEF ConsumerInv, HolderOK, HoldsNothing, OthersKept
  <2> QED BY <1>3, <2>1, <2>2, <2>3 DEF Promise!Resolve
<1> QED BY <1>2, <1>3 DEF ResolveNoop

LEMMA PublishAnswers ==
  ASSUME LocalTypeOK, ConsumerInv, answer \in Events \cup {"none"}, NEW w \in Workers,
         CreateReview(w) \/ CreateReviewReplyLost(w)
  PROVE  ConsumerInv' /\ (Promise!Answer \/ PromiseKept)
<1>1. /\ OthersKept(w) /\ UNCHANGED <<consumer, outcome>> /\ Publish(w)
      /\ \/ HoldsNothing(w)
         \/ run'[w] = run[w] /\ pc'[w] = "receipt"
  <2>1. CASE CreateReview(w)
    BY <2>1 DEF CreateReview, Goto, LocalTypeOK, OthersKept, ledger
  <2>2. CASE CreateReviewReplyLost(w)
    <3>1. HoldsNothing(w)
      BY <2>2, LettingGo DEF CreateReviewReplyLost, JobStates
    <3> QED BY <2>2, <3>1 DEF CreateReviewReplyLost, HoldsNothing, ledger
  <2> QED BY <2>1, <2>2
<1>2. CASE ~run[w].used
  <2>1. HoldsNothing(w) /\ PromiseKept
    BY <1>1, <1>2 DEF Publish, ConsumerInv, HolderOK, HoldsNothing, PromiseKept
  <2> QED BY <2>1, HoldsNothingKeeps
<1>3. CASE run[w].used
  <2>1. /\ consumer \in Requests /\ consumer # NoRequest
        /\ answer = "none" /\ outcome = "open"
        /\ run[w].event \in Events /\ answer' = run[w].event
        /\ changes' = IF answer' = "REQUEST_CHANGES" THEN changes + 1 ELSE changes
        /\ \A v \in Workers \ {w} : ~run[v].used
    BY <1>1, <1>3, RequestConstants DEF Publish, ConsumerInv, HolderOK
  <2>2. answer' # "none"
    BY <2>1 DEF Events
  <2>3. HolderOK(w)'
    BY <1>1, <1>3, <2>1, <2>2 DEF ConsumerInv, HolderOK, HoldsNothing, HolderPcs
  <2>4. \A v \in Workers \ {w} : HolderOK(v)' /\ ~run'[v].used
    BY <1>1, <2>1 DEF ConsumerInv, HolderOK, OthersKept
  <2>5. ConsumerInv'
    BY <1>1, <2>1, <2>3, <2>4 DEF ConsumerInv
  <2> QED BY <1>1, <2>1, <2>5 DEF Promise!Answer, Promise!Events, Events
<1> QED BY <1>2, <1>3

LEMMA ReceiptResolves ==
  ASSUME LocalTypeOK, ConsumerInv, NEW w \in Workers, RecordAuthorized(w)
  PROVE  ConsumerInv' /\ Promise!Resolve
<1>1. /\ OthersKept(w) /\ run'[w] = run[w] /\ pc'[w] = "settling"
      /\ UNCHANGED <<consumer, answer, changes>> /\ outcome' = "posted"
  BY DEF RecordAuthorized, Goto, LocalTypeOK, OthersKept, public
<1>2. /\ consumer \in Requests /\ consumer # NoRequest
      /\ answer # "none" /\ outcome = "open"
      /\ \A v \in Workers \ {w} : ~run[v].used
  BY RequestConstants DEF RecordAuthorized, ConsumerInv, HolderOK
<1>3. HolderOK(w)'
  BY <1>1 DEF ConsumerInv, HolderOK, HolderPcs
<1>4. \A v \in Workers \ {w} : HolderOK(v)' /\ ~run'[v].used
  BY <1>1, <1>2 DEF ConsumerInv, HolderOK, OthersKept
<1>5. ConsumerInv'
  BY <1>1, <1>2, <1>3, <1>4 DEF ConsumerInv
<1> QED BY <1>1, <1>2, <1>5 DEF Promise!Resolve

(***************************************************************************)
(* The authorization is spent once, answered once and resolved once, by    *)
(* one command, whatever the workers do: AuthorizationLedger implements    *)
(* OneShotAuthorization.                                                   *)
(***************************************************************************)
THEOREM OneShotHolds == Spec => OneShot
<1>1. Init => ConsumerInv /\ Promise!PromiseInit
  BY RequestConstants
     DEF Init, ConsumerInv, HolderOK, NoRun, Promise!PromiseInit
<1>2. TypeOK /\ ConsumerInv /\ [Next]_vars
        => ConsumerInv' /\ [Promise!PromiseNext]_(Promise!PromiseVars)
  <2> SUFFICES ASSUME TypeOK, ConsumerInv, [Next]_vars
               PROVE  ConsumerInv' /\ (Promise!PromiseNext \/ PromiseKept)
    BY DEF PromiseKept, Promise!PromiseVars
  <2>1. LocalTypeOK /\ HistoryTypeOK /\ answer \in Events \cup {"none"}
    BY TypeParts DEF HistoryTypeOK
  <2>2. ASSUME NEW w \in Workers, Step(w)
        PROVE  ConsumerInv' /\ (Promise!PromiseNext \/ PromiseKept)
    BY <2>1, <2>2, QuietReviewSteps, QuietLocalSteps, HolderMovesOn, DecideSpends,
       NoopResolves, PublishAnswers, ReceiptResolves
       DEF Step, HeadReads, Promise!PromiseNext
  <2>3. ASSUME UNCHANGED <<consumer, outcome, pc, run, public>>
        PROVE  ConsumerInv' /\ PromiseKept
    BY <2>3 DEF ConsumerInv, HolderOK, public, PromiseKept
  <2>4. CASE (\E c \in Requests : Enqueue(c)) \/ ExpireClaim \/ UNCHANGED vars
    BY <2>3, <2>4 DEF Enqueue, ExpireClaim, vars, ledger, public
  <2> QED BY <2>2, <2>4 DEF Next
<1> QED BY <1>1, <1>2, TypeCorrect, PTL DEF Spec, OneShot, Promise!PromiseSpec

-----------------------------------------------------------------------------
(***************************************************************************)
(* The resolution, the incident and the refusals.  Only these three kinds  *)
(* of step touch them.                                                     *)
(***************************************************************************)
LedgerKept ==
  /\ UNCHANGED <<outcome, incident>>
  /\ \A c \in Requests : job'[c] = "refused" => job[c] = "refused" \/ outcome # "open"
IncidentAnswered == outcome' = outcome /\ incident' = (outcome = "open")
ResolvedNow == outcome' # "open" /\ incident' = FALSE

LEMMA LeaveRefuses ==
  ASSUME LocalTypeOK, NEW w \in Workers, NEW s \in JobStates, Leave(w, s), s # "refused"
  PROVE  \A c \in Requests : job'[c] = "refused" => job[c] = "refused"
BY DEF Leave

LEMMA LedgerSteps ==
  ASSUME LocalTypeOK, HistoryTypeOK, [Next]_vars
  PROVE  LedgerKept \/ IncidentAnswered \/ ResolvedNow
<1> USE DEF ledger
<1>1. {"ended", "queued", "deferred"} \subseteq JobStates
  BY DEF JobStates
<1>2. ASSUME NEW w \in Workers,
             \/ \E c \in Requests : StartRequest(w, c)
             \/ \E k \in Ordinary : StartOrdinary(w, k)
             \/ Admit(w) \/ SkipMovedHead(w) \/ DeferForCooldown(w) \/ ClaimHead(w)
             \/ LoseClaim(w) \/ LookUpAgain(w)
      PROVE  LedgerKept
  BY <1>1, <1>2, JobEnds, LeaveRefuses
     DEF StartRequest, StartOrdinary, Begin, Admit, SkipMovedHead, DeferForCooldown,
         ClaimHead, LoseClaim, LookUpAgain, LedgerKept, LocalTypeOK
<1>3. ASSUME NEW w \in Workers, RefuseEarly(w) \/ RefuseUnderClaim(w)
      PROVE  LedgerKept
  BY <1>3 DEF RefuseEarly, RefuseUnderClaim, Refuse, Leave, LedgerKept
<1>4. ASSUME NEW w \in Workers, ReportIncident(w) PROVE IncidentAnswered
  BY <1>4 DEF ReportIncident, RecordIncident, IncidentAnswered
<1>5. ASSUME NEW w \in Workers,
             \/ \E e \in Events : Decide(w, e)
             \/ Proceed(w) \/ Send(w) \/ CreateReview(w) \/ CreateReviewReplyLost(w)
             \/ RecordAdvisory(w) \/ SettlePosted(w)
             \/ Fail(w) \/ ReadPrevious(w) \/ RecordFailed(w) \/ Crash(w)
      PROVE  LedgerKept
  BY <1>1, <1>5, LeaveRefuses
     DEF Decide, Proceed, Send, CreateReview, CreateReviewReplyLost, RecordAdvisory,
         SettlePosted, Fail, Throw, ReadPrevious, RecordFailed, Crash, LedgerKept
<1>6. ASSUME NEW w \in Workers, ResolveNoop(w) \/ RecordAuthorized(w)
      PROVE  LedgerKept \/ ResolvedNow
  BY <1>6 DEF ResolveNoop, Throw, RecordAuthorized, LedgerKept, ResolvedNow
<1>7. ASSUME NEW c \in Requests, Enqueue(c)
      PROVE  LedgerKept
  BY <1>7 DEF Enqueue, LedgerKept, LocalTypeOK
<1>8. CASE ExpireClaim \/ UNCHANGED vars
  BY <1>8 DEF ExpireClaim, vars, LedgerKept
<1>9. ASSUME NEW w \in Workers, HeadReads(w) PROVE LedgerKept
  BY <1>1, <1>9, HeadReadSteps, LeaveRefuses DEF Forgets, LedgerKept
<1> QED BY <1>2, <1>3, <1>4, <1>5, <1>6, <1>7, <1>8, <1>9 DEF Next, Step, HeadReads

\* A resolution leaves no incident behind and none is recorded after it.
THEOREM SettledHasNoIncidentHolds == Spec => []SettledHasNoIncident
<1>1. Init => SettledHasNoIncident
  BY DEF Init, SettledHasNoIncident
<1>2. TypeOK /\ SettledHasNoIncident /\ [Next]_vars => SettledHasNoIncident'
  <2> SUFFICES ASSUME TypeOK, SettledHasNoIncident, [Next]_vars
               PROVE  SettledHasNoIncident'
    OBVIOUS
  <2>1. LedgerKept \/ IncidentAnswered \/ ResolvedNow
    BY LedgerSteps, TypeParts
  <2>2. CASE LedgerKept
    BY <2>2 DEF SettledHasNoIncident, LedgerKept
  <2>3. CASE IncidentAnswered
    BY <2>3 DEF SettledHasNoIncident, IncidentAnswered
  <2>4. CASE ResolvedNow
    BY <2>4 DEF SettledHasNoIncident, ResolvedNow
  <2> QED BY <2>1, <2>2, <2>3, <2>4
<1> QED BY <1>1, <1>2, TypeCorrect, PTL DEF Spec

\* No request is refused without a resolution or an incident to show for it.
THEOREM RefusalIsExplainedHolds == Spec => []RefusalIsExplained
<1>1. Init => RefusalIsExplained
  BY DEF Init, RefusalIsExplained
<1>2. TypeOK /\ RefusalIsExplained /\ [Next]_vars => RefusalIsExplained'
  BY LedgerSteps, TypeParts
     DEF RefusalIsExplained, LedgerKept, IncidentAnswered, ResolvedNow
<1> QED BY <1>1, <1>2, TypeCorrect, PTL DEF Spec

-----------------------------------------------------------------------------
(***************************************************************************)
(* The claim.  Unless it was taken from a live holder, whoever relies on   *)
(* it has it, so between two looks at the head nobody else can spend the   *)
(* authorization or rewrite the row.                                       *)
(***************************************************************************)
ClaimInv == ~lost => \A w \in Workers : pc[w] \in OwningPcs => claim = w /\ fresh

\* No step takes the live claim of another worker without leaving its mark.
ClaimsKept(w) ==
  /\ lost => lost'
  /\ \A v \in Workers \ {w} : claim = v /\ fresh /\ ~lost' => claim' = v /\ fresh'

LEMMA StoreKeepsClaims ==
  ASSUME StoreTypeOK, lost \in BOOLEAN, NEW w \in Workers
  PROVE  /\ \A k \in RowKinds : \A e \in Events \cup {"none"} :
              Record(w, k, e) \/ Upsert(w, k, e, TRUE) => ClaimsKept(w)
         /\ NoClaim /\ lost' = (lost \/ claim \in Workers \ {w}) => ClaimsKept(w)
         /\ ReleaseClaim(w) /\ UNCHANGED lost => ClaimsKept(w)
         /\ \A a \in Authorities :
              (ClaimAcquired(w, a, NoRev) \/ ClaimBlocked(a, NoRev)) /\ UNCHANGED lost
                => ClaimsKept(w)
         /\ UNCHANGED storeVars /\ UNCHANGED lost => ClaimsKept(w)
<1> USE DEF ClaimsKept, StoreTypeOK
<1>1. ASSUME NoClaim, lost' = (lost \/ claim \in Workers \ {w}) PROVE ClaimsKept(w)
  BY <1>1
<1>2. ASSUME NEW k \in RowKinds, NEW e \in Events \cup {"none"},
             Record(w, k, e) \/ Upsert(w, k, e, TRUE)
      PROVE  ClaimsKept(w)
  BY <1>1, <1>2 DEF Record, Upsert, RecordProcessed
<1>3. ASSUME ReleaseClaim(w), UNCHANGED lost PROVE ClaimsKept(w)
  BY <1>3 DEF ReleaseClaim
<1>4. ASSUME NEW a \in Authorities, UNCHANGED lost,
             ClaimAcquired(w, a, NoRev) \/ ClaimBlocked(a, NoRev)
      PROVE  ClaimsKept(w)
  BY <1>4 DEF ClaimAcquired, ClaimAllowed, ClaimBlocked
<1>5. ASSUME UNCHANGED storeVars, UNCHANGED lost PROVE ClaimsKept(w)
  BY <1>5 DEF storeVars
<1> QED BY <1>1, <1>2, <1>3, <1>4, <1>5

\* After its step, a worker that relies on its claim has just got it or kept it.
ClaimHeld(w) ==
  pc'[w] \in OwningPcs =>
    \/ claim' = w /\ fresh'
    \/ pc[w] \in OwningPcs /\ UNCHANGED <<claim, fresh>>

LEMMA LeavingClaims ==
  ASSUME LocalTypeOK, NEW w \in Workers, NEW s \in JobStates,
         Leave(w, s) \/ Throw(w) \/ \E p \in {"skipping", "unsettled"} : Forgets(w, p)
  PROVE  OthersKept(w) /\ ClaimHeld(w)
BY DEF LocalTypeOK, Leave, Throw, Forgets, Goto, OthersKept, ClaimHeld, OwningPcs

LEMMA GoingOnClaims ==
  ASSUME LocalTypeOK, NEW w \in Workers, NEW p, Goto(w, p),
         UNCHANGED storeVars \/ p \notin OwningPcs,
         pc[w] \in OwningPcs \/ p \notin OwningPcs
  PROVE  ClaimHeld(w)
BY DEF LocalTypeOK, Goto, ClaimHeld, storeVars

LEMMA ClaimSteps ==
  ASSUME TypeOK, NEW w \in Workers, Step(w)
  PROVE  OthersKept(w) /\ ClaimsKept(w) /\ ClaimHeld(w)
<1> USE DEF Stay
<1>1. LocalTypeOK /\ StoreTypeOK /\ lost \in BOOLEAN /\ event \in Events \cup {"none"}
  BY DEF TypeOK, LocalTypeOK
<1>2. {"ended", "queued", "deferred", "refused"} \subseteq JobStates
      /\ {"skipped", "cooldown", "failed", "posted"} \subseteq RowKinds
  BY DEF JobStates, RowKinds
<1>3. ASSUME \/ \E c \in Requests : StartRequest(w, c)
             \/ \E k \in Ordinary : StartOrdinary(w, k)
      PROVE  OthersKept(w) /\ ClaimsKept(w) /\ ClaimHeld(w)
  <2>1. UNCHANGED storeVars /\ UNCHANGED lost /\ OthersKept(w) /\ pc'[w] \notin OwningPcs
    BY <1>1, <1>3
       DEF StartRequest, StartOrdinary, Begin, Goto, LocalTypeOK, OthersKept, OwningPcs
  <2> QED BY <1>1, <2>1, StoreKeepsClaims DEF ClaimHeld
<1>4. CASE \/ Admit(w) \/ RefuseEarly(w) \/ RefuseUnderClaim(w) \/ ReportIncident(w)
           \/ ReadPrevious(w)
  <2>1. OthersKept(w) /\ ClaimHeld(w)
    BY <1>1, <1>2, <1>4, JobEnds, LeavingClaims
       DEF Admit, RefuseEarly, RefuseUnderClaim, Refuse, ReportIncident, ReadPrevious,
           Goto, LocalTypeOK, OthersKept, ClaimHeld, OwningPcs
  <2>2. ClaimsKept(w)
    BY <1>1, <1>4, StoreKeepsClaims
       DEF Admit, RefuseEarly, RefuseUnderClaim, Refuse, ReportIncident, ReadPrevious
  <2> QED BY <2>1, <2>2
<1>5. CASE \/ SkipMovedHead(w) \/ DeferForCooldown(w) \/ LoseClaim(w) \/ SettlePosted(w)
           \/ Fail(w) \/ RecordFailed(w)
  <2>1. OthersKept(w) /\ ClaimHeld(w)
    BY <1>1, <1>2, <1>5, JobEnds, LeavingClaims
       DEF SkipMovedHead, DeferForCooldown, LoseClaim, SettlePosted, Fail, RecordFailed
  <2>2. Authority(w) \in Authorities
    BY DEF Authority, Authorities
  <2>3. ClaimsKept(w)
    <3>1. run[w].back \in Events \cup {"none"}
      BY <1>1 DEF LocalTypeOK, Runs
    <3> QED BY <1>1, <1>2, <1>5, <2>2, <3>1, StoreKeepsClaims
            DEF SkipMovedHead, DeferForCooldown, LoseClaim, SettlePosted, Fail,
                RecordFailed, Throw
  <2> QED BY <2>1, <2>3
<1>6. CASE ClaimHead(w)
  <2>1. OthersKept(w) /\ ClaimHeld(w)
    BY <1>1, <1>6 DEF ClaimHead, ClaimAcquired, Goto, LocalTypeOK, OthersKept, ClaimHeld
  <2>2. Authority(w) \in Authorities
    BY DEF Authority, Authorities
  <2> QED BY <1>1, <1>6, <2>1, <2>2, StoreKeepsClaims DEF ClaimHead
<1>7. CASE \/ LookUpAgain(w) \/ (\E e \in Events : Decide(w, e))
           \/ Proceed(w) \/ Send(w) \/ CreateReview(w)
  <2>1. /\ UNCHANGED storeVars /\ UNCHANGED lost /\ pc[w] \in OwningPcs
        /\ OthersKept(w)
    BY <1>1, <1>7
       DEF LookUpAgain, LookUp, Decide, Proceed, Send, CreateReview, Publish, Goto,
           LocalTypeOK, OthersKept, OwningPcs
  <2> QED BY <1>1, <2>1, StoreKeepsClaims DEF ClaimHeld, storeVars
<1>8. CASE CreateReviewReplyLost(w)
  BY <1>1, <1>2, <1>8, LeavingClaims, StoreKeepsClaims
     DEF CreateReviewReplyLost, Throw
<1>9. CASE ResolveNoop(w)
  BY <1>1, <1>2, <1>9, LeavingClaims, StoreKeepsClaims DEF ResolveNoop, Throw
<1>10. CASE RecordAuthorized(w) \/ RecordAdvisory(w)
  <2>1. OthersKept(w) /\ ClaimHeld(w)
    BY <1>1, <1>10
       DEF RecordAuthorized, RecordAdvisory, Goto, LocalTypeOK, OthersKept, ClaimHeld,
           OwningPcs
  <2>2. run[w].event \in Events \cup {"none"}
    BY <1>1 DEF LocalTypeOK, Runs
  <2> QED BY <1>1, <1>2, <1>10, <2>1, <2>2, StoreKeepsClaims
          DEF RecordAuthorized, RecordAdvisory
<1>11. CASE Crash(w)
  BY <1>1, <1>11, StoreConstants
     DEF Crash, Goto, LocalTypeOK, OthersKept, ClaimsKept, ClaimHeld, OwningPcs
<1>12. CASE HeadReads(w)
  <2>1. HistoryTypeOK
    BY TypeParts
  <2> QED BY <1>1, <1>2, <1>12, <2>1, HeadReadSteps, LeavingClaims, StoreKeepsClaims
<1> QED BY <1>3, <1>4, <1>5, <1>6, <1>7, <1>8, <1>9, <1>10, <1>11, <1>12
        DEF Step, HeadReads

LEMMA ClaimInvHolds == Spec => []ClaimInv
<1>1. Init => ClaimInv
  BY DEF Init, ClaimInv, OwningPcs
<1>2. TypeOK /\ ClaimInv /\ [Next]_vars => ClaimInv'
  <2> SUFFICES ASSUME TypeOK, ClaimInv, [Next]_vars PROVE ClaimInv'
    OBVIOUS
  <2>1. ASSUME NEW w \in Workers, Step(w) PROVE ClaimInv'
    BY <2>1, ClaimSteps DEF ClaimInv, OthersKept, ClaimsKept, ClaimHeld
  <2>2. CASE (\E c \in Requests : Enqueue(c)) \/ UNCHANGED vars
    BY <2>2 DEF Enqueue, vars, storeVars, ClaimInv
  <2>3. CASE ExpireClaim
    BY <2>3, StoreConstants DEF ExpireClaim, ClaimExpires, ClaimInv
  <2> QED BY <2>1, <2>2, <2>3 DEF Next
<1> QED BY <1>1, <1>2, TypeCorrect, PTL DEF Spec

(***************************************************************************)
(* ConsumedCommandNeverAdvises is not inductive: AdviseInv also covers a   *)
(* request between its second look at the ledger and its decision.         *)
(***************************************************************************)
Advising(w) ==
  /\ ForRequest(w)
  /\ \/ pc[w] = "checked"
     \/ pc[w] \in {"decided", "posting", "sent"} /\ ~run[w].used

AdviseInv == ~lost => \A w \in Workers : Advising(w) => consumer = NoRequest

LEMMA AdvisingSteps ==
  ASSUME TypeOK, NEW w \in Workers, Step(w)
  PROVE  /\ \/ UNCHANGED consumer
            \/ pc[w] = "checked" /\ run'[w].used /\ pc'[w] = "decided"
         /\ Advising(w)' => UNCHANGED consumer /\ (Advising(w) \/ consumer = NoRequest)
<1> USE DEF ledger
<1>1. LocalTypeOK
  BY DEF TypeOK, LocalTypeOK
<1>2. {"ended", "queued", "deferred", "refused"} \subseteq JobStates
  BY DEF JobStates
<1>3. ASSUME NEW s \in JobStates,
             Leave(w, s) \/ Throw(w) \/ \E p \in {"skipping", "unsettled"} : Forgets(w, p)
      PROVE  ~Advising(w)'
  BY <1>1, <1>3 DEF LocalTypeOK, Leave, Throw, Forgets, Goto, Advising
<1>4. CASE \/ \E c \in Requests : StartRequest(w, c)
           \/ \E k \in Ordinary : StartOrdinary(w, k)
  BY <1>1, <1>4
     DEF StartRequest, StartOrdinary, Begin, Goto, LocalTypeOK, Advising
<1>5. CASE \/ Admit(w) \/ RefuseEarly(w) \/ RefuseUnderClaim(w) \/ ReportIncident(w)
           \/ SkipMovedHead(w) \/ DeferForCooldown(w) \/ ClaimHead(w) \/ LoseClaim(w)
  <2>1. UNCHANGED consumer
    BY <1>5 DEF Admit, RefuseEarly, RefuseUnderClaim, Refuse, ReportIncident,
                RecordIncident, SkipMovedHead, DeferForCooldown, ClaimHead, LoseClaim
  <2>2. ~Advising(w)'
    BY <1>1, <1>2, <1>3, <1>5, JobEnds
       DEF Admit, RefuseEarly, RefuseUnderClaim, Refuse, ReportIncident, SkipMovedHead,
           DeferForCooldown, ClaimHead, LoseClaim, Goto, LocalTypeOK, Advising
  <2> QED BY <2>1, <2>2
<1>6. CASE LookUpAgain(w)
  <2>1. run'[w].cmd = run[w].cmd /\ UNCHANGED consumer
    BY <1>1, <1>6 DEF LookUpAgain, LookUp, LocalTypeOK, Runs
  <2> QED BY <1>6, <2>1 DEF LookUpAgain, Advising, ForRequest
<1>7. ASSUME NEW e \in Events, Decide(w, e)
      PROVE  /\ UNCHANGED consumer \/ run'[w].used
             /\ pc[w] = "checked" /\ pc'[w] = "decided"
             /\ run'[w].cmd = run[w].cmd
  BY <1>1, <1>7 DEF Decide, Goto, LocalTypeOK, Runs
<1>8. CASE \E e \in Events : Decide(w, e)
  BY <1>7, <1>8 DEF Advising, ForRequest
<1>9. CASE Proceed(w) \/ Send(w) \/ CreateReview(w)
  <2>1. /\ run'[w].cmd = run[w].cmd /\ run'[w].used = run[w].used /\ UNCHANGED consumer
        /\ pc[w] \in {"decided", "posting", "sent"}
        /\ pc'[w] \in {"posting", "sent", "receipt"}
    BY <1>1, <1>9 DEF Proceed, Send, CreateReview, Publish, Goto, LocalTypeOK, Runs
  <2> QED BY <2>1 DEF Advising, ForRequest
<1>10. CASE \/ ResolveNoop(w) \/ CreateReviewReplyLost(w) \/ SettlePosted(w)
            \/ Fail(w) \/ RecordFailed(w)
  <2>1. ~Advising(w)'
    BY <1>2, <1>3, <1>10
       DEF ResolveNoop, CreateReviewReplyLost, SettlePosted, Fail, RecordFailed
  <2>2. UNCHANGED consumer
    BY <1>10 DEF ResolveNoop, CreateReviewReplyLost, SettlePosted, Fail, RecordFailed
  <2> QED BY <2>1, <2>2
<1>11. CASE RecordAuthorized(w) \/ RecordAdvisory(w) \/ ReadPrevious(w) \/ Crash(w)
  <2>1. pc'[w] \in {"settling", "idle", "writing"} /\ UNCHANGED consumer
    BY <1>1, <1>11
       DEF RecordAuthorized, RecordAdvisory, ReadPrevious, Crash, Leave, Goto, LocalTypeOK
  <2> QED BY <2>1 DEF Advising
<1>12. CASE HeadReads(w)
  <2>1. HistoryTypeOK
    BY TypeParts
  <2> QED BY <1>2, <1>3, <1>12, <2>1, HeadReadSteps
<1> QED BY <1>4, <1>5, <1>6, <1>8, <1>9, <1>10, <1>11, <1>12 DEF Step, HeadReads

\* A consumed request does not fall through as an ordinary advisory review.
THEOREM ConsumedCommandNeverAdvisesHolds == Spec => []ConsumedCommandNeverAdvises
<1>1. Init => AdviseInv
  BY DEF Init, AdviseInv
<1>2. TypeOK /\ ClaimInv /\ AdviseInv /\ [Next]_vars => AdviseInv'
  <2> SUFFICES ASSUME TypeOK, ClaimInv, AdviseInv, [Next]_vars, ~lost',
                      NEW v \in Workers, Advising(v)'
               PROVE  consumer' = NoRequest
    BY DEF AdviseInv
  <2>1. ASSUME NEW w \in Workers, Step(w) PROVE consumer' = NoRequest
    <3>1. ~lost
      BY <2>1, ClaimSteps DEF ClaimsKept
    <3>2. CASE v = w
      BY <2>1, <3>1, <3>2, AdvisingSteps DEF AdviseInv
    <3>3. CASE v # w
      <4>1. Advising(v)
        BY <2>1, <3>3, ClaimSteps DEF OthersKept, Advising, ForRequest
      <4>2. pc[v] \in OwningPcs
        BY <4>1 DEF Advising, OwningPcs
      <4>3. pc[w] # "checked"
        BY <3>1, <3>3, <4>2 DEF ClaimInv, OwningPcs
      <4> QED BY <2>1, <3>1, <4>1, <4>3, AdvisingSteps DEF AdviseInv
    <3> QED BY <3>2, <3>3
  <2>2. CASE (\E c \in Requests : Enqueue(c)) \/ ExpireClaim \/ UNCHANGED vars
    <3>1. UNCHANGED <<ledger, pc, run>> /\ (lost => lost')
      BY <2>2, TypeParts DEF Enqueue, ExpireClaim, vars, HistoryTypeOK
    <3> QED BY <3>1 DEF AdviseInv, Advising, ForRequest, ledger
  <2> QED BY <2>1, <2>2 DEF Next
<1>3. AdviseInv => ConsumedCommandNeverAdvises
  BY DEF AdviseInv, Advising, ConsumedCommandNeverAdvises
<1> QED BY <1>1, <1>2, <1>3, TypeCorrect, ClaimInvHolds, PTL DEF Spec

-----------------------------------------------------------------------------
(***************************************************************************)
(* The processed row.  The poster's decision to keep a posted              *)
(* REQUEST_CHANGES is made before its POST: KeepInv says that it still     *)
(* holds at the receipt, because nobody else wrote the row in between.     *)
(***************************************************************************)
MustKeep(w) ==
  /\ pc[w] \in {"sent", "receipt"}
  /\ row = "posted" /\ event = "REQUEST_CHANGES" /\ run[w].event = "COMMENT"

KeepInv == ~lost => \A w \in Workers : MustKeep(w) => run[w].keep # "no"

\* A row is written by a worker with the claim, or the claim's loss is marked.
LEMMA RowWrites ==
  ASSUME StoreTypeOK, NEW w \in Workers, NEW v \in Workers \ {w},
         claim = v, fresh, lost \in BOOLEAN, ~lost'
  PROVE  /\ \A k \in RowKinds : \A e \in Events \cup {"none"} :
              ~Record(w, k, e) /\ ~Upsert(w, k, e, TRUE)
         /\ \A a \in Authorities :
              ClaimAcquired(w, a, NoRev) \/ ClaimBlocked(a, NoRev) => UNCHANGED row
         /\ ReleaseClaim(w) => UNCHANGED row
BY DEF Record, Upsert, ClaimAcquired, ClaimAllowed, ClaimBlocked, ReleaseClaim

LEMMA OthersRow ==
  ASSUME TypeOK, NEW w \in Workers, Step(w), NEW v \in Workers \ {w},
         claim = v, fresh, ~lost'
  PROVE  UNCHANGED <<row, event>>
<1> USE DEF Stay
<1>0. run[w].back \in Events \cup {"none"} /\ HistoryTypeOK
  BY TypeParts DEF LocalTypeOK, Runs
<1>1. LocalTypeOK /\ StoreTypeOK /\ lost \in BOOLEAN /\ event \in Events \cup {"none"}
      /\ run[w].event \in Events \cup {"none"}
  BY DEF TypeOK, LocalTypeOK, Runs
<1>2. {"skipped", "cooldown", "failed", "posted"} \subseteq RowKinds
      /\ "none" \in Events \cup {"none"} /\ Authority(w) \in Authorities
  BY DEF RowKinds, Authority, Authorities
<1>3. CASE \/ SkipMovedHead(w) \/ DeferForCooldown(w) \/ RecordFailed(w)
           \/ SettlePosted(w) \/ RecordAdvisory(w) \/ RecordAuthorized(w)
  BY <1>0, <1>1, <1>2, <1>3, RowWrites
     DEF SkipMovedHead, DeferForCooldown, RecordFailed, SettlePosted, RecordAdvisory,
         RecordAuthorized, storeVars
<1>4. CASE \/ Admit(w) \/ RefuseEarly(w) \/ RefuseUnderClaim(w) \/ ReportIncident(w)
           \/ ReadPrevious(w)
  BY <1>1, <1>4, RowWrites
     DEF Admit, RefuseEarly, RefuseUnderClaim, Refuse, ReportIncident, ReadPrevious,
         storeVars
<1>5. CASE ClaimHead(w) \/ LoseClaim(w)
  BY <1>1, <1>2, <1>5, RowWrites DEF ClaimHead, LoseClaim
<1>6. CASE Fail(w) \/ CreateReviewReplyLost(w) \/ ResolveNoop(w)
  BY <1>1, <1>6, RowWrites DEF Fail, CreateReviewReplyLost, ResolveNoop, Throw
<1>7. CASE \/ \E c \in Requests : StartRequest(w, c)
           \/ \E k \in Ordinary : StartOrdinary(w, k)
           \/ LookUpAgain(w) \/ (\E e \in Events : Decide(w, e))
           \/ Proceed(w) \/ Send(w) \/ CreateReview(w) \/ Crash(w)
  BY <1>7 DEF StartRequest, StartOrdinary, Begin, LookUpAgain, Decide, Proceed, Send,
              CreateReview, Crash, storeVars
<1>8. CASE HeadReads(w)
  BY <1>0, <1>1, <1>8, HeadReadSteps, RowWrites DEF storeVars
<1> QED BY <1>3, <1>4, <1>5, <1>6, <1>7, <1>8 DEF Step, HeadReads

\* How a worker comes to be between its last look at the row and its receipt.
LEMMA OwnKeep ==
  ASSUME TypeOK, NEW w \in Workers, Step(w), pc'[w] \in {"sent", "receipt"}
  PROVE  /\ UNCHANGED <<row, event>>
         /\ \/ MustKeep(w)' => run'[w].keep # "no"
            \/ pc[w] = "sent" /\ run'[w] = run[w]
<1>1. LocalTypeOK
  BY DEF TypeOK, LocalTypeOK
<1>2. CASE Send(w)
  BY <1>1, <1>2 DEF Send, Stay, MustKeep, LocalTypeOK, Runs, storeVars
<1>3. CASE CreateReview(w)
  BY <1>1, <1>3 DEF CreateReview, Publish, Stay, storeVars
<1>4. ASSUME NEW s, Leave(w, s) \/ Throw(w) PROVE FALSE
  BY <1>1, <1>4 DEF Leave, Throw, Goto, LocalTypeOK
<1>5. ASSUME NEW p \in Pcs \ {"sent", "receipt"}, Goto(w, p) PROVE FALSE
  BY <1>1, <1>5 DEF Goto, LocalTypeOK
<1>6. {"resolving", "working", "claimed", "checked", "decided", "posting", "settling",
       "reporting", "writing", "idle", "skipping", "unsettled"} \subseteq Pcs \ {"sent", "receipt"}
  BY DEF Pcs, OwningPcs
<1>7. CASE \/ \E c \in Requests : StartRequest(w, c)
           \/ \E k \in Ordinary : StartOrdinary(w, k)
           \/ Admit(w) \/ RefuseEarly(w) \/ ReportIncident(w) \/ SkipMovedHead(w)
           \/ DeferForCooldown(w) \/ ClaimHead(w) \/ LoseClaim(w)
           \/ LookUpAgain(w) \/ RefuseUnderClaim(w)
  BY <1>4, <1>5, <1>6, <1>7
     DEF StartRequest, StartOrdinary, Admit, RefuseEarly, RefuseUnderClaim, Refuse,
         ReportIncident, SkipMovedHead, DeferForCooldown, ClaimHead, LoseClaim,
         LookUpAgain
<1>8. CASE \/ \E e \in Events : Decide(w, e)
           \/ ResolveNoop(w) \/ Proceed(w) \/ CreateReviewReplyLost(w)
           \/ RecordAuthorized(w) \/ RecordAdvisory(w) \/ SettlePosted(w)
           \/ Fail(w) \/ ReadPrevious(w) \/ RecordFailed(w) \/ Crash(w)
  BY <1>4, <1>5, <1>6, <1>8
     DEF Decide, ResolveNoop, Proceed, CreateReviewReplyLost, RecordAuthorized,
         RecordAdvisory, SettlePosted, Fail, ReadPrevious, RecordFailed, Crash
<1>9. CASE HeadReads(w)
  <2>1. HistoryTypeOK
    BY TypeParts
  <2> QED BY <1>4, <1>5, <1>6, <1>9, <2>1, HeadReadSteps DEF Forgets
<1> QED BY <1>2, <1>3, <1>7, <1>8, <1>9 DEF Step, HeadReads

\* The only steps that turn a posted REQUEST_CHANGES row into a COMMENT one.
LEMMA DowngradeStep ==
  ASSUME TypeOK, NEW w \in Workers, Step(w),
         event = "REQUEST_CHANGES", row = "posted", ~unsure, row' = "posted",
         event' = "COMMENT"
  PROVE  \/ MustKeep(w) /\ run[w].keep = "no"
         \/ SettlesStale
<1> USE DEF Stay, Record, Upsert, RecordProcessed, MustKeep
<1>1. CASE RecordAuthorized(w) \/ RecordAdvisory(w)
  BY <1>1 DEF RecordAuthorized, RecordAdvisory
<1>2. CASE \/ \E c \in Requests : StartRequest(w, c)
           \/ \E k \in Ordinary : StartOrdinary(w, k)
           \/ Admit(w) \/ RefuseEarly(w) \/ ReportIncident(w) \/ SkipMovedHead(w)
           \/ DeferForCooldown(w) \/ ClaimHead(w) \/ LoseClaim(w)
           \/ LookUpAgain(w) \/ RefuseUnderClaim(w)
  BY <1>2
     DEF StartRequest, StartOrdinary, Begin, Admit, RefuseEarly, RefuseUnderClaim,
         Refuse, ReportIncident, SkipMovedHead, DeferForCooldown, ClaimHead, LoseClaim,
         LookUpAgain
<1>3. CASE \/ \E e \in Events : Decide(w, e)
           \/ ResolveNoop(w) \/ Proceed(w) \/ Send(w)
           \/ CreateReview(w) \/ CreateReviewReplyLost(w)
           \/ Fail(w) \/ ReadPrevious(w) \/ RecordFailed(w) \/ Crash(w)
  BY <1>3
     DEF Decide, ResolveNoop, Proceed, Send, CreateReview, CreateReviewReplyLost,
         Fail, Throw, ReadPrevious, RecordFailed, Crash
<1>4. CASE HeadReads(w)
  BY <1>4, HeadReadSteps, TypeParts DEF ReleaseClaim, storeVars
<1>5. CASE SettlePosted(w)
  <2>1. pc'[w] = "idle"
    BY <1>5, TypeParts DEF SettlePosted, Leave, Goto, LocalTypeOK
  <2> QED BY <1>5, <2>1 DEF SettlePosted, SettlesStale
<1> QED BY <1>1, <1>2, <1>3, <1>4, <1>5 DEF Step, HeadReads

(***************************************************************************)
(* A review that requested changes is not recorded over by one that        *)
(* comments, unless a claim was taken from a live holder or a settlement   *)
(* writes back a COMMENT row that it read before.                          *)
(***************************************************************************)
THEOREM BlockingIsNotDowngradedHolds == Spec => BlockingIsNotDowngraded
<1>1. Init => KeepInv
  BY DEF Init, KeepInv, MustKeep
<1>2. TypeOK /\ ClaimInv /\ KeepInv /\ [Next]_vars => KeepInv'
  <2> SUFFICES ASSUME TypeOK, ClaimInv, KeepInv, [Next]_vars, ~lost',
                      NEW v \in Workers, MustKeep(v)'
               PROVE  run'[v].keep # "no"
    BY DEF KeepInv
  <2>1. ASSUME NEW w \in Workers, Step(w) PROVE run'[v].keep # "no"
    <3>1. ~lost
      BY <2>1, ClaimSteps DEF ClaimsKept
    <3>2. CASE v = w
      BY <2>1, <3>1, <3>2, OwnKeep DEF KeepInv, MustKeep
    <3>3. CASE v # w
      <4>1. pc'[v] = pc[v] /\ run'[v] = run[v]
        BY <2>1, <3>3, ClaimSteps DEF OthersKept
      <4>2. claim = v /\ fresh
        BY <3>1, <4>1 DEF ClaimInv, MustKeep, OwningPcs
      <4>3. UNCHANGED <<row, event>>
        BY <2>1, <3>3, <4>2, OthersRow
      <4> QED BY <3>1, <4>1, <4>3 DEF KeepInv, MustKeep
    <3> QED BY <3>2, <3>3
  <2>2. CASE (\E c \in Requests : Enqueue(c)) \/ ExpireClaim \/ UNCHANGED vars
    <3>1. UNCHANGED <<row, event, pc, run>> /\ (lost => lost')
      BY <2>2, TypeParts
         DEF Enqueue, ExpireClaim, ClaimExpires, vars, storeVars,
             HistoryTypeOK
    <3> QED BY <3>1 DEF KeepInv, MustKeep
  <2> QED BY <2>1, <2>2 DEF Next
<1>3. TypeOK /\ KeepInv /\ [Next]_vars
        => [(~lost /\ row = "posted" /\ event = "REQUEST_CHANGES" /\ ~unsure
              /\ row' = "posted" /\ event' = "COMMENT") => SettlesStale]_vars
  <2> SUFFICES ASSUME TypeOK, KeepInv, Next, ~lost, row = "posted", ~unsure,
                      event = "REQUEST_CHANGES", row' = "posted", event' = "COMMENT"
               PROVE  SettlesStale
    OBVIOUS
  <2>1. ASSUME NEW w \in Workers, Step(w) PROVE SettlesStale
    BY <2>1, DowngradeStep DEF KeepInv
  <2>2. ASSUME (\E c \in Requests : Enqueue(c)) \/ ExpireClaim
        PROVE  FALSE
    BY <2>2 DEF Enqueue, ExpireClaim
  <2> QED BY <2>1, <2>2 DEF Next
<1> QED BY <1>1, <1>2, <1>3, TypeCorrect, ClaimInvHolds, PTL
        DEF Spec, BlockingIsNotDowngraded
==============================================================================
