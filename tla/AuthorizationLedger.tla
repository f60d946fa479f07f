-------------------------- MODULE AuthorizationLedger --------------------------
(***************************************************************************)
(* The owner's authorization to request changes on ONE pull-request head   *)
(* (reviewEventPolicy trusted_command_only): its row in                    *)
(* review_event_authorization_consumptions, the jobs of the owner's        *)
(* request-changes comments, and the review invocations (reviewPull) with  *)
(* which the scheduler runs them beside ordinary reviews, over the rows of *)
(* HeadStore.  (A direct run, runOnce, takes no request; HeadReview has    *)
(* its recovery of a receipt that could not be written.)                   *)
(*                                                                         *)
(* A step of a worker is what it does between two awaits, or one           *)
(* transaction where another process can commit in between.  A job whose   *)
(* lease expired runs again, also while its first runner is still alive.   *)
(* The readiness row is not part of this module; whether it matches is a   *)
(* choice where recordAuthorizedReviewNoop asks for it.                     *)
(***************************************************************************)
EXTENDS HeadStore

CONSTANTS
  Requests,  \* the owner's request-changes comments on the head
  NoRequest

\* Invocations for no request: an automatic job, and a review command.
Ordinary == {"daemon", "review"}

ASSUME RequestConstants ==
  /\ NoRequest \notin Requests \cup Ordinary
  /\ Requests \cap Ordinary = {}

VARIABLES
  event,     \* the event column of the processed row
  unsure,    \* a posted row says that the head moved, or was not seen, after it
  consumer,  \* the comment in the consumption row, if there is a row
  outcome,   \* its outcome columns: "open", "posted" or "no_op"
  incident,  \* whether its incident columns are set
  job,       \* the review job of each request
  pc,        \* where the worker is
  run,       \* what its invocation knows
  answer,    \* event of the public review posted by the consumer (external)
  changes,   \* public reviews that request changes (external)
  lost       \* a claim was taken from a live holder (history)

ledger == <<consumer, outcome, incident>>
public == <<answer, changes>>
local == <<job, pc, run>>
vars == <<storeVars, event, unsure, ledger, job, pc, run, public, lost>>

Events == {"COMMENT", "REQUEST_CHANGES"}

(***************************************************************************)
(*   cmd    the request it runs, or which kind of ordinary review          *)
(*   retry  retry_failed_head policy: a failed or deferred row is redone   *)
(*   exact  the last look at the comment found an eligible authorization   *)
(*   used   it consumed the authorization                                  *)
(*   event  the event it selected                                          *)
(*   keep   whether its COMMENT must keep a REQUEST_CHANGES that it found  *)
(*          posted, and whether that one was sure ("verified")             *)
(*   back   the event of the posted row that it is about to write back     *)
(***************************************************************************)
Runs == {r \in [cmd : Requests \cup Ordinary \cup {NoRequest}, retry : BOOLEAN,
                 exact : BOOLEAN, used : BOOLEAN, event : Events \cup {"none"},
                 keep : {"no", "posted", "verified"}, back : Events \cup {"none"}] :
           r.exact => r.cmd \in Requests}

NoRun == [cmd |-> NoRequest, retry |-> FALSE, exact |-> FALSE, used |-> FALSE,
          event |-> "none", keep |-> "no", back |-> "none"]

\* From the claim until the row is recorded, the worker relies on its claim.
OwningPcs == {"claimed", "checked", "decided", "posting", "sent", "receipt"}
Pcs == OwningPcs \cup {"idle", "resolving", "reporting", "working", "skipping",
                       "settling", "unsettled", "failing", "writing"}
\* A queued job waits or is leased: a lease may expire under a live runner.
JobStates == {"unseen", "ignored", "queued", "deferred", "refused", "ended"}

TypeOK ==
  /\ StoreTypeOK
  /\ event \in Events \cup {"none"}
  /\ unsure \in BOOLEAN
  /\ consumer \in Requests \cup {NoRequest}
  /\ outcome \in {"open", "posted", "no_op"}
  /\ incident \in BOOLEAN
  /\ job \in [Requests -> JobStates]
  /\ pc \in [Workers -> Pcs]
  /\ run \in [Workers -> Runs]
  /\ answer \in Events \cup {"none"}
  /\ changes \in Nat
  /\ lost \in BOOLEAN

\* The head may have been blocked before, under reviewEventPolicy automatic:
\* changes counts what is posted from here on.
Init ==
  /\ row \in {"none", "posted"} /\ rev = NoRev
  /\ event = IF row = "posted" THEN "REQUEST_CHANGES" ELSE "none"
  /\ unsure \in BOOLEAN /\ (unsure => row = "posted")
  /\ claim = Nobody /\ fresh = FALSE
  /\ consumer = NoRequest /\ outcome = "open" /\ incident = FALSE
  /\ job = [c \in Requests |-> "unseen"]
  /\ pc = [w \in Workers |-> "idle"]
  /\ run = [w \in Workers |-> NoRun]
  /\ answer = "none" /\ changes = 0
  /\ lost = FALSE

ForRequest(w) == run[w].cmd \in Requests
Goto(w, p) == pc' = [pc EXCEPT ![w] = p]
Stay == UNCHANGED <<event, unsure, lost>>

\* The invocation ends; the scheduler settles the job of its request.
Leave(w, s) ==
  /\ Goto(w, "idle")
  /\ run' = [run EXCEPT ![w] = NoRun]
  /\ job' = [c \in Requests |-> IF c = run[w].cmd THEN s ELSE job[c]]

\* reviewPull throws; its finally block releases the worker's own claim.
Throw(w) ==
  /\ ReleaseClaim(w)
  /\ Goto(w, "failing")
  /\ run' = [run EXCEPT ![w] = [NoRun EXCEPT !.cmd = run[w].cmd]]
  /\ UNCHANGED <<event, unsure, job, lost>>

\* recordProcessed; u: with the uncertainty of a posted review as its error.
Upsert(w, k, e, u) ==
  /\ RecordProcessed(k, NoRev)
  /\ event' = e /\ unsure' = u
  /\ lost' = (lost \/ claim \in Workers \ {w})

Record(w, k, e) == Upsert(w, k, e, FALSE)

-----------------------------------------------------------------------------
(***************************************************************************)
(* Scheduling: a request is enqueued unless the ledger is already settled  *)
(* (latestPendingRequestChanges), and its job is leased and run.           *)
(***************************************************************************)
Enqueue(c) ==
  /\ job[c] = "unseen"
  /\ job' = [job EXCEPT ![c] =
                IF outcome = "open" THEN "queued" ELSE "ignored"]
  /\ UNCHANGED <<storeVars, event, unsure, ledger, pc, run, public, lost>>

Begin(w, k, retry) ==
  /\ pc[w] = "idle"
  /\ \E b \in BOOLEAN :
       /\ b => k \in Requests
       /\ run' = [run EXCEPT ![w] = [NoRun EXCEPT !.cmd = k, !.retry = retry, !.exact = b]]
  /\ UNCHANGED <<storeVars, event, unsure, ledger, public, lost>>

\* The job is leased, also while a run whose lease expired goes on.  Its row or
\* last error may make it a retry (processedHeadPolicyForQueueJob).  Then the
\* comment is looked up, before the ledger is read.
StartRequest(w, c) ==
  /\ job[c] \in {"queued", "deferred"}
  /\ job' = [job EXCEPT ![c] = "queued"]
  /\ \/ Begin(w, c, row \in RetryableRows)
     \/ job[c] = "deferred" /\ Begin(w, c, TRUE)
  /\ Goto(w, "resolving")

StartOrdinary(w, k) ==
  /\ k = "daemon" => row \in {"none"} \cup RetryableRows
  /\ Begin(w, k, row \in RetryableRows)
  /\ Goto(w, "working")
  /\ UNCHANGED job

\* What becomes of the job of a head found processed, or claimed by another.
AfterSkip ==
  IF row = "cooldown" THEN "deferred" ELSE IF row = "none" THEN "queued" ELSE "ended"

Redoes(w) == IF run[w].retry THEN row \in RetryableRows ELSE run[w].exact \/ row = "none"

(***************************************************************************)
(* The first look at the ledger, before the review runs: a request whose   *)
(* head has a consumption row is refused, with or without an incident.     *)
(***************************************************************************)
Admit(w) ==
  /\ pc[w] = "resolving"
  /\ consumer = NoRequest
  /\ IF Redoes(w)
       THEN Goto(w, "working") /\ UNCHANGED <<run, job>>
       ELSE Leave(w, AfterSkip)
  /\ UNCHANGED <<storeVars, ledger, public>> /\ Stay

\* A settled request whose row is a deferral is deferred with it.
AfterRefusal == IF outcome # "open" /\ row = "cooldown" THEN "deferred" ELSE "refused"

\* hasDurableAuthorizedReviewOutcome.
Refuse(w) ==
  /\ consumer # NoRequest
  /\ IF outcome # "open"
       THEN Leave(w, AfterRefusal) /\ ReleaseClaim(w)
       ELSE Goto(w, "reporting") /\ UNCHANGED <<run, job, storeVars>>
  /\ UNCHANGED <<ledger, public>> /\ Stay

RefuseEarly(w) == pc[w] = "resolving" /\ Refuse(w)

\* Mutant: the update lacks "posted_at is null and terminal_at is null".
RecordIncidentAnyway ==
  /\ consumer # NoRequest
  /\ incident' = TRUE
  /\ UNCHANGED <<consumer, outcome>>

\* recordReviewEventAuthorizationIncident: false, and nothing written, when
\* the ledger was settled after it was read.
RecordIncident ==
  /\ consumer # NoRequest
  /\ incident' = (outcome = "open")
  /\ UNCHANGED <<consumer, outcome>>

\* Mutant: the request is refused without a word.
ReportNothing(w) ==
  /\ pc[w] = "reporting"
  /\ Leave(w, "refused") /\ ReleaseClaim(w)
  /\ UNCHANGED <<ledger, public>> /\ Stay

ReportIncident(w) ==
  /\ pc[w] = "reporting"
  /\ RecordIncident
  /\ Leave(w, AfterRefusal) /\ ReleaseClaim(w)
  /\ UNCHANGED public /\ Stay

-----------------------------------------------------------------------------
(***************************************************************************)
(* The review and the claim, as in HeadReview.                             *)
(***************************************************************************)
FindMovedHead(w) ==
  /\ \/ pc[w] \in {"working", "claimed", "checked", "decided", "posting"}
     \/ pc[w] = "resolving" /\ run[w].exact
  /\ IF row = "posted"
       THEN ReleaseClaim(w) /\ Leave(w, "ended")
       ELSE Goto(w, "skipping") /\ UNCHANGED <<storeVars, job>>
            /\ run' = [run EXCEPT ![w] = [NoRun EXCEPT !.cmd = run[w].cmd]]
  /\ UNCHANGED <<ledger, public>> /\ Stay

SkipMovedHead(w) ==
  /\ pc[w] = "skipping"
  /\ Record(w, "skipped", "none")
  /\ Leave(w, "ended")
  /\ UNCHANGED <<ledger, public>>

\* A cooldown of the repository defers the job, unless it is a retry, and so
\* does an error that reads as a throttle, wherever it was thrown.
DeferForCooldown(w) ==
  /\ \/ pc[w] = "working" /\ ~run[w].retry
     \/ pc[w] = "failing"
  /\ Record(w, "cooldown", "none")
  /\ Leave(w, "deferred")
  /\ UNCHANGED <<ledger, public>>

\* Which processed rows it may supersede.
Authority(w) ==
  IF run[w].exact \/ run[w].cmd = "review" THEN "command"
  ELSE IF run[w].retry THEN "requeue" ELSE "daemon"

ClaimHead(w) ==
  /\ pc[w] = "working"
  /\ ClaimAcquired(w, Authority(w), NoRev)
  /\ Goto(w, "claimed")
  /\ run' = [run EXCEPT ![w].retry = FALSE]
  /\ UNCHANGED <<ledger, job, public>> /\ Stay

LoseClaim(w) ==
  /\ pc[w] = "working"
  /\ ClaimBlocked(Authority(w), NoRev)
  /\ Leave(w, AfterSkip)
  /\ UNCHANGED <<ledger, public>> /\ Stay

-----------------------------------------------------------------------------
(***************************************************************************)
(* Under the claim: the comment and the ledger are looked up again, the    *)
(* live head once more, and only then is the authorization consumed.       *)
(***************************************************************************)
LookUp(w) ==
  \E b \in BOOLEAN : (b => ForRequest(w)) /\ run' = [run EXCEPT ![w].exact = b]

\* Mutant: the ledger is not looked at again.
LookUpAgainOnly(w) ==
  /\ pc[w] = "claimed"
  /\ LookUp(w)
  /\ Goto(w, "checked")
  /\ UNCHANGED <<storeVars, ledger, job, public>> /\ Stay

LookUpAgain(w) ==
  /\ pc[w] = "claimed"
  /\ ForRequest(w) => consumer = NoRequest
  /\ LookUp(w)
  /\ Goto(w, "checked")
  /\ UNCHANGED <<storeVars, ledger, job, public>> /\ Stay

RefuseUnderClaim(w) == pc[w] = "claimed" /\ ForRequest(w) /\ Refuse(w)

\* Mutant: a request may consume again what it consumed before it crashed.
MayConsumeAgain(w) == consumer \in {NoRequest, run[w].cmd}

\* tryConsumeReviewEventAuthorization: insert ... on conflict do nothing.
MayConsume(w) == consumer = NoRequest

(***************************************************************************)
(* decideAndConsumeReviewEvent, for a candidate event e of the review.  An *)
(* eligible authorization is consumed whatever the candidate; without one, *)
(* or when the ledger has another, or cannot be written, the review        *)
(* becomes a COMMENT (decideReviewEventPolicy).                            *)
(***************************************************************************)
Decide(w, e) ==
  /\ pc[w] = "checked"
  /\ \/ /\ run[w].exact /\ MayConsume(w)
        /\ consumer' = run[w].cmd
        /\ run' = [run EXCEPT ![w].exact = FALSE, ![w].used = TRUE, ![w].event = e]
     \/ /\ run' = [run EXCEPT ![w].exact = FALSE, ![w].event = "COMMENT"]
        /\ UNCHANGED consumer
  /\ Goto(w, "decided")
  /\ UNCHANGED <<storeVars, outcome, incident, job, public>> /\ Stay

\* The advisory review that the consumer would post is already there.
AlreadyPosted(w) ==
  run[w].used /\ run[w].event = "COMMENT" /\ row = "posted" /\ event = "COMMENT"

(***************************************************************************)
(* recordAuthorizedReviewNoop: it settles the ledger and retires the claim *)
(* in one transaction, or throws when the readiness row does not match.    *)
(* (That it finds the ledger settled, and returns false, cannot happen:    *)
(* ConsumerInv of AuthorizationLedgerProofs.)                              *)
(***************************************************************************)
ResolveNoop(w) ==
  /\ pc[w] = "decided" /\ AlreadyPosted(w)
  /\ \/ /\ outcome = "open" /\ consumer = run[w].cmd
        /\ outcome' = "no_op" /\ incident' = FALSE /\ UNCHANGED consumer
        /\ NoClaim /\ UNCHANGED <<row, rev, event, unsure>>
        /\ lost' = (lost \/ claim \in Workers \ {w})
        /\ Leave(w, "ended")
     \/ Throw(w) /\ UNCHANGED ledger
  /\ UNCHANGED public

\* Walkthrough and enrichment comments go out, with live-head checks between.
Proceed(w) ==
  /\ pc[w] = "decided" /\ ~AlreadyPosted(w)
  /\ Goto(w, "posting")
  /\ UNCHANGED <<storeVars, ledger, run, job, public>> /\ Stay

-----------------------------------------------------------------------------
(***************************************************************************)
(* Publication and its receipt.                                            *)
(***************************************************************************)
\* Mutant: what was posted before is not looked at.
SendOnly(w) ==
  /\ pc[w] = "posting"
  /\ Goto(w, "sent")
  /\ UNCHANGED <<storeVars, ledger, run, job, public>> /\ Stay

\* The row is read, and the POST goes out.
Send(w) ==
  /\ pc[w] = "posting"
  /\ run' = [run EXCEPT ![w].keep =
       IF row = "posted" /\ event = "REQUEST_CHANGES" /\ run[w].event = "COMMENT"
       THEN IF unsure THEN "posted" ELSE "verified"
       ELSE "no"]
  /\ Goto(w, "sent")
  /\ UNCHANGED <<storeVars, ledger, job, public>> /\ Stay

Publish(w) ==
  /\ pc[w] = "sent"
  /\ answer' = IF run[w].used THEN run[w].event ELSE answer
  /\ changes' = IF run[w].event = "REQUEST_CHANGES" THEN changes + 1 ELSE changes

CreateReview(w) ==
  /\ Publish(w)
  /\ Goto(w, "receipt")
  /\ UNCHANGED <<storeVars, ledger, run, job>> /\ Stay

\* The review is published but the answer is lost.
CreateReviewReplyLost(w) ==
  /\ Publish(w)
  /\ Throw(w)
  /\ UNCHANGED ledger

(***************************************************************************)
(* recordAuthorizedReviewPosted: the receipt clears a no-op or an incident,*)
(* and the row is written unless it holds a sure REQUEST_CHANGES to keep.  *)
(***************************************************************************)
RecordAuthorized(w) ==
  /\ pc[w] = "receipt" /\ run[w].used
  /\ consumer = run[w].cmd
  /\ outcome' = "posted" /\ incident' = FALSE /\ UNCHANGED consumer
  /\ IF run[w].keep # "no" /\ row = "posted" /\ event = "REQUEST_CHANGES" /\ ~unsure
       THEN NoClaim /\ UNCHANGED <<row, rev, event, unsure>>
            /\ lost' = (lost \/ claim \in Workers \ {w})
       ELSE Record(w, "posted", run[w].event)
  /\ Goto(w, "settling")
  /\ UNCHANGED <<run, job, public>>

RecordAdvisory(w) ==
  /\ pc[w] = "receipt" /\ ~run[w].used
  /\ IF run[w].keep # "no" THEN UNCHANGED storeVars /\ Stay
                          ELSE Record(w, "posted", run[w].event)
  /\ Goto(w, "settling")
  /\ UNCHANGED <<ledger, run, job, public>>

\* The head is read again.  Unless it is uncertain, that is all.
EndPosted(w) ==
  /\ pc[w] = "settling"
  /\ ReleaseClaim(w)
  /\ Leave(w, "ended")
  /\ UNCHANGED <<ledger, public>> /\ Stay

\* Otherwise a posted row is read, and written back by a second transaction.
ReadPosted(w) ==
  /\ pc[w] = "settling"
  /\ row = "posted" /\ run[w].keep # "verified"
  /\ Goto(w, "unsettled")
  /\ run' = [run EXCEPT ![w] = [NoRun EXCEPT !.cmd = run[w].cmd, !.back = event]]
  /\ UNCHANGED <<storeVars, ledger, job, public>> /\ Stay

SettlePosted(w) ==
  /\ pc[w] = "unsettled"
  /\ Upsert(w, "posted", run[w].back, TRUE)
  /\ Leave(w, "ended")
  /\ UNCHANGED <<ledger, public>>

-----------------------------------------------------------------------------
(***************************************************************************)
(* Failure, crash and expiry.  The scheduler's catch reads the row and     *)
(* keeps a posted one; it does not recover a receipt.                      *)
(***************************************************************************)
Fail(w) ==
  /\ pc[w] \in OwningPcs \cup {"resolving", "working", "reporting"}
  /\ Throw(w)
  /\ UNCHANGED <<ledger, public>>

ReadPrevious(w) ==
  /\ pc[w] = "failing"
  /\ IF row = "posted" THEN Leave(w, "ended")
                       ELSE Goto(w, "writing") /\ UNCHANGED <<run, job>>
  /\ UNCHANGED <<storeVars, ledger, public>> /\ Stay

RecordFailed(w) ==
  /\ pc[w] = "writing"
  /\ Record(w, "failed", "none")
  /\ Leave(w, "ended")
  /\ UNCHANGED <<ledger, public>>

Crash(w) ==
  /\ pc[w] # "idle"
  /\ claim' = IF claim = w THEN Orphan ELSE claim
  /\ Goto(w, "idle")
  /\ run' = [run EXCEPT ![w] = NoRun]
  /\ UNCHANGED <<row, rev, fresh, ledger, job, public>> /\ Stay

ExpireClaim ==
  /\ ClaimExpires
  /\ lost' = (lost \/ claim \in Workers)
  /\ UNCHANGED <<event, unsure, ledger, job, pc, run, public>>

Step(w) ==
  \/ \E c \in Requests : StartRequest(w, c)
  \/ \E k \in Ordinary : StartOrdinary(w, k)
  \/ Admit(w) \/ RefuseEarly(w) \/ ReportIncident(w)
  \/ FindMovedHead(w) \/ SkipMovedHead(w) \/ DeferForCooldown(w)
  \/ ClaimHead(w) \/ LoseClaim(w)
  \/ LookUpAgain(w) \/ RefuseUnderClaim(w)
  \/ \E e \in Events : Decide(w, e)
  \/ ResolveNoop(w) \/ Proceed(w) \/ Send(w)
  \/ CreateReview(w) \/ CreateReviewReplyLost(w)
  \/ RecordAuthorized(w) \/ RecordAdvisory(w)
  \/ EndPosted(w) \/ ReadPosted(w) \/ SettlePosted(w)
  \/ Fail(w) \/ ReadPrevious(w) \/ RecordFailed(w) \/ Crash(w)

Next ==
  \/ \E c \in Requests : Enqueue(c)
  \/ \E w \in Workers : Step(w)
  \/ ExpireClaim

Spec == Init /\ [][Next]_vars

-----------------------------------------------------------------------------
(***************************************************************************)
(* Properties.                                                             *)
(***************************************************************************)

(***************************************************************************)
(* The authorization is spent, answered and resolved as the documents      *)
(* promise: at most one public review ever requests changes, its poster    *)
(* consumed the authorization first, and nobody else can, however runs of  *)
(* its comment are repeated, crash, overtake each other or lose their      *)
(* claim.                                                                  *)
(***************************************************************************)
Promise == INSTANCE OneShotAuthorization
OneShot == Promise!PromiseSpec

(***************************************************************************)
(* Unless a claim was taken from a live holder, a run of a request never   *)
(* falls through as an ordinary advisory review once the authorization has *)
(* been consumed (worker.ts: "so a consumed crash-recovery command cannot  *)
(* fall through as an ordinary advisory review").                          *)
(***************************************************************************)
ConsumedCommandNeverAdvises ==
  \A w \in Workers :
    (pc[w] \in {"posting", "sent"} /\ ForRequest(w) /\ ~run[w].used /\ ~lost)
      => consumer = NoRequest

\* A request is never refused silently: the head shows the resolution that
\* was the reason, or an incident that says the authorization is spent.
RefusalIsExplained ==
  (\E c \in Requests : job[c] = "refused") => outcome # "open" \/ incident

\* A resolution leaves no incident behind, and none is recorded after it,
\* although refusals decide on an earlier look at the ledger.
SettledHasNoIncident == outcome # "open" => ~incident

(***************************************************************************)
(* The record of a review that requested changes, posted and sure, is not  *)
(* replaced by that of one that comments, although the decision to keep it *)
(* is made before the POST, with two exceptions.  A claim was taken from a *)
(* live holder; or the step is a settlement that read a COMMENT row before *)
(* the REQUEST_CHANGES was recorded and writes back what it read, which    *)
(* needs no claim and takes none from anybody.  (The answer of the         *)
(* authorization does replace a record that is not sure.)                  *)
(***************************************************************************)
SettlesStale ==
  \E w \in Workers : pc[w] = "unsettled" /\ run[w].back = "COMMENT" /\ pc'[w] = "idle"

BlockingIsNotDowngraded ==
  [][(~lost /\ row = "posted" /\ event = "REQUEST_CHANGES" /\ ~unsure
        /\ row' = "posted" /\ event' = "COMMENT") => SettlesStale]_vars

(***************************************************************************)
(* What docs/maintainer-commands.md and docs/neondiff-config.md state: a   *)
(* second command on the head is analysed and its findings are posted as a *)
(* COMMENT.  Nobody but the command that consumed the authorization is     *)
(* refused because it is consumed.                                         *)
(***************************************************************************)
SecondCommandStillPosts ==
  \A c \in Requests : job[c] = "refused" => consumer = c
==============================================================================
