------------------------- MODULE OneShotAuthorization -------------------------
(***************************************************************************)
(* What docs/maintainer-commands.md promises of the owner's authorization  *)
(* to request changes on one pull-request head, whatever processes review  *)
(* the head and however they fail: it is spent by one command, that spends *)
(* it before anything is published; it is answered by at most one public   *)
(* review; a review requests changes only as that answer; it is resolved   *)
(* once and for good, by the receipt of its answer or, unanswered, by a    *)
(* no-op.  It is never given back.                                         *)
(***************************************************************************)
EXTENDS Naturals

CONSTANTS
  Requests,  \* the owner's request-changes comments on the head
  NoRequest

VARIABLES
  consumer,  \* the comment that spent the authorization
  answer,    \* event of the public review that answers it (external)
  outcome,   \* "open", or how it was resolved
  changes    \* public reviews of the head that request changes (external)

Events == {"COMMENT", "REQUEST_CHANGES"}

PromiseInit ==
  /\ consumer = NoRequest
  /\ answer = "none"
  /\ outcome = "open"
  /\ changes = 0

Spend ==
  /\ consumer = NoRequest
  /\ consumer' \in Requests
  /\ UNCHANGED <<answer, outcome, changes>>

Answer ==
  /\ consumer # NoRequest
  /\ answer = "none" /\ outcome = "open"
  /\ answer' \in Events
  /\ changes' = IF answer' = "REQUEST_CHANGES" THEN changes + 1 ELSE changes
  /\ UNCHANGED <<consumer, outcome>>

Resolve ==
  /\ consumer # NoRequest
  /\ outcome = "open"
  /\ outcome' = IF answer = "none" THEN "no_op" ELSE "posted"
  /\ UNCHANGED <<consumer, answer, changes>>

PromiseVars == <<consumer, answer, outcome, changes>>
PromiseNext == Spend \/ Answer \/ Resolve
PromiseSpec == PromiseInit /\ [][PromiseNext]_PromiseVars
==============================================================================
