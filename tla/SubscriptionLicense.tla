------------------------- MODULE SubscriptionLicense -------------------------
(***************************************************************************)
(* The licenses that the license service sells by subscription: its tables *)
(* (services/license-api/src/store.ts), the webhook through which the      *)
(* payment provider tells it what became of a subscription                 *)
(* (stripe-checkout.ts), and the provider itself (external), which writes  *)
(* an event for every change and delivers it in any order, as often as it  *)
(* likes, until the service has acknowledged it.                           *)
(*                                                                         *)
(* A delivery is handled by a worker, a request of the service's event     *)
(* loop.  A step of a worker is what it does between two awaits; a         *)
(* transaction of the store is synchronous.  The state of a subscription   *)
(* is read from the provider when an invoice event or a checkout event is  *)
(* handled, and is part of the event when the event is the subscription's. *)
(***************************************************************************)
EXTENDS Naturals, FiniteSets

CONSTANTS
  Subs, NoSub,  \* subscriptions, each with its checkout session
  Workers,      \* deliveries handled at the same time
  MaxEvents,    \* bound on the events the provider writes
  MaxTime,      \* bound on the clock
  MaxFailures,  \* bound on the requests that fail on the way
  Trial,        \* trialDays
  Period,       \* what one invoice pays for
  MaxPeriod,    \* maximumPeriodDays
  Ttl           \* redemptionTtlMs

ASSUME SubscriptionConstants ==
  /\ NoSub \notin Subs
  /\ {MaxEvents, MaxTime, MaxFailures} \subseteq Nat
  /\ {Trial, Period, MaxPeriod, Ttl} \subseteq Nat \ {0}

VARIABLES
  now,       \* the clock of the provider and of the service
  billing,   \* of each subscription: what the provider holds of it (external)
  events,    \* the events the provider has written (external)
  acked,     \* the events that were acknowledged
  license,   \* of each subscription: its row in licenses, and its binding
  checkout,  \* of each subscription: its row in stripe_checkout_fulfillments
  ledger,    \* license_subscription_lifecycle_events
  job,       \* what each worker knows of the delivery it handles
  failures,  \* requests that failed on the way
  refused    \* events refused although a delivery had found them applied (history)

provider == <<billing, events, acked>>
store == <<license, checkout, ledger>>
service == <<job, failures, refused>>
vars == <<now, provider, store, service>>

EventIds == 1..MaxEvents
Times == 0..(MaxTime + Trial + Period)
\* "active" stands for trialing too, "canceled" for unpaid and
\* incomplete_expired, "past_due" for incomplete and paused.
Statuses == {"active", "past_due", "canceled"}
\* "paid" stands for invoice.paid and invoice.payment_succeeded; "unpaid" is
\* invoice.payment_failed; the last two are customer.subscription events.
Kinds == {"checkout", "paid", "unpaid", "updated", "deleted"}
Commands == {"renew_paid", "reconcile", "cancel_at_period_end", "payment_attention", "revoke"}

NoEvent == [kind |-> "none", sub |-> NoSub, created |-> 0, status |-> "active",
            cancel |-> FALSE, end |-> 0]
EventRecords ==
  [kind : Kinds \cup {"none"}, sub : Subs \cup {NoSub}, created : Times,
   status : Statuses, cancel : BOOLEAN, end : Times]

\* What the canonical hash of a lifecycle request is computed from, of all
\* that two deliveries of an event can differ in.
Contents == [command : Commands, status : Statuses, cancel : BOOLEAN]
NoContent == [command |-> "none", status |-> "active", cancel |-> FALSE]

NoLicense == [status |-> "none", expires |-> 0, watermark |-> 0]
NoCheckout == [event |-> 0, until |-> 0, redeemed |-> FALSE]
Idle == [event |-> 0, at |-> "idle", content |-> NoContent, start |-> 0, again |-> FALSE]

Written == {e \in EventIds : events[e].kind # "none"}
Issued(s) == license[s].status # "none"
\* The event is recorded in the table of its kind.
Applied(e) ==
  \/ ledger[e].command # "none"
  \/ \E s \in Subs : checkout[s].event = e

TypeOK ==
  /\ now \in 0..MaxTime
  /\ billing \in [Subs -> [status : Statuses \cup {"none"}, cancel : BOOLEAN, end : Times]]
  /\ events \in [EventIds -> EventRecords]
  /\ acked \subseteq Written
  /\ license \in [Subs -> [status : {"none", "active", "revoked"}, expires : Times,
                           watermark : Times]]
  /\ checkout \in [Subs -> [event : EventIds \cup {0}, until : 0..(MaxTime + Ttl),
                            redeemed : BOOLEAN]]
  /\ ledger \in [EventIds -> Contents \cup {NoContent}]
  /\ job \in [Workers -> [event : EventIds \cup {0}, at : {"idle", "verify", "commit", "apply"},
                          content : Contents \cup {NoContent}, start : 0..MaxTime,
                          again : BOOLEAN]]
  /\ failures \in 0..MaxFailures
  /\ refused \subseteq EventIds
  /\ \A s \in Subs : Issued(s) <=> checkout[s].event # 0
  /\ \A w \in Workers : job[w].at = "idle" \/ job[w].event \in Written

Init ==
  /\ now = 0
  /\ billing = [s \in Subs |-> [status |-> "none", cancel |-> FALSE, end |-> 0]]
  /\ events = [e \in EventIds |-> NoEvent]
  /\ acked = {}
  /\ license = [s \in Subs |-> NoLicense]
  /\ checkout = [s \in Subs |-> NoCheckout]
  /\ ledger = [e \in EventIds |-> NoContent]
  /\ job = [w \in Workers |-> Idle]
  /\ failures = 0
  /\ refused = {}

-----------------------------------------------------------------------------
(* The provider.                                                            *)

\* It writes an event with the subscription as it is after the change.
Emit(kind, s, after) ==
  /\ billing' = [billing EXCEPT ![s] = after]
  /\ \E e \in EventIds \ Written :
       /\ \A f \in EventIds \ Written : e <= f
       /\ events' = [events EXCEPT ![e] =
                       [kind |-> kind, sub |-> s, created |-> now, status |-> after.status,
                        cancel |-> after.cancel, end |-> after.end]]
  /\ UNCHANGED <<now, acked, store, service>>

Subscribe(s) ==
  /\ billing[s].status = "none"
  /\ Emit("checkout", s, [status |-> "active", cancel |-> FALSE, end |-> now + Trial])

\* An invoice for the next period is paid, at the end of the current one.
Pay(s) ==
  /\ billing[s].status \in {"active", "past_due"}
  /\ ~ billing[s].cancel
  /\ billing[s].end <= now
  /\ Emit("paid", s, [status |-> "active", cancel |-> FALSE, end |-> billing[s].end + Period])

\* A payment fails; the subscription becomes past due at once or later.
MissPayment(s) ==
  /\ billing[s].status = "active"
  /\ billing[s].end <= now
  /\ \E status \in {"active", "past_due"} :
       Emit("unpaid", s, [billing[s] EXCEPT !.status = status])

FallPastDue(s) ==
  /\ billing[s].status = "active"
  /\ billing[s].end <= now
  /\ Emit("updated", s, [billing[s] EXCEPT !.status = "past_due"])

ScheduleCancellation(s) ==
  /\ billing[s].status = "active"
  /\ Emit("updated", s, [billing[s] EXCEPT !.cancel = ~ @])

EndSubscription(s) ==
  /\ billing[s].status \in {"active", "past_due"}
  /\ \E kind \in {"updated", "deleted"} :
       Emit(kind, s, [billing[s] EXCEPT !.status = "canceled"])

Tick ==
  /\ now < MaxTime
  /\ now' = now + 1
  /\ UNCHANGED <<provider, store, service>>

-----------------------------------------------------------------------------
(* The webhook.                                                             *)

\* It answers 2xx.  The provider may not see it: it delivers an acknowledged
\* event again as well.
Acknowledge(w) ==
  /\ acked' = acked \cup {job[w].event}
  /\ job' = [job EXCEPT ![w] = Idle]
  /\ UNCHANGED <<failures, refused>>

\* It answers 4xx or 5xx and has written nothing.
Refuse(w) ==
  /\ job' = [job EXCEPT ![w] = Idle]
  /\ refused' = IF job[w].again THEN refused \cup {job[w].event} ELSE refused
  /\ UNCHANGED <<acked, store, failures>>

\* The event of a checkout that is fulfilled is acknowledged from the row; any
\* other event has the account read first.
Deliver(w, e) ==
  /\ job[w].at = "idle"
  /\ e \in Written
  /\ IF events[e].kind = "checkout" /\ checkout[events[e].sub].event = e
     THEN acked' = acked \cup {e} /\ UNCHANGED job
     ELSE /\ job' = [job EXCEPT ![w] = [Idle EXCEPT !.event = e, !.at = "verify", !.start = now,
                                                    !.again = Applied(e)]]
          /\ UNCHANGED acked
  /\ UNCHANGED <<now, billing, events, store, failures, refused>>

\* A read of the provider fails, the database stays busy, the process dies.
FailOnTheWay(w) ==
  /\ job[w].at # "idle"
  /\ failures < MaxFailures
  /\ failures' = failures + 1
  /\ job' = [job EXCEPT ![w] = Idle]
  /\ UNCHANGED <<now, provider, store, refused>>

VerifyCheckout(w) ==
  LET e == job[w].event IN
  /\ job[w].at = "verify"
  /\ events[e].kind = "checkout"
  /\ IF billing[events[e].sub].status = "active"
     THEN /\ job' = [job EXCEPT ![w].at = "commit"]
          /\ UNCHANGED <<acked, store, failures, refused>>
     ELSE Refuse(w)
  /\ UNCHANGED <<now, billing, events>>

Usable(s) == license[s].status = "active" /\ license[s].expires > now

\* Bug: the fulfillment row is inserted by a later transaction.
CommitCheckoutLicenseFirst(w) ==
  LET e == job[w].event
      s == events[e].sub IN
  /\ job[w].at = "commit"
  /\ license' = [license EXCEPT ![s].status = "active", ![s].expires = now + Trial]
  /\ Acknowledge(w)
  /\ UNCHANGED <<now, billing, events, checkout, ledger>>

\* fulfillStripeCheckout: a checkout is issued once; of a repetition only a
\* usable license is acknowledged.
CommitCheckout(w) ==
  LET e == job[w].event
      s == events[e].sub IN
  /\ job[w].at = "commit"
  /\ \/ /\ ~ Issued(s)
        /\ job[w].start + Ttl > now
        /\ license' = [license EXCEPT ![s].status = "active", ![s].expires = now + Trial]
        /\ checkout' = [checkout EXCEPT ![s].event = e, ![s].until = job[w].start + Ttl]
        /\ Acknowledge(w)
        /\ UNCHANGED ledger
     \/ Issued(s) /\ Usable(s) /\ job[w].start + Ttl > now /\ Acknowledge(w) /\ UNCHANGED store
     \/ Issued(s) /\ ~ Usable(s) /\ Refuse(w)
     \/ job[w].start + Ttl <= now /\ Refuse(w)
  /\ UNCHANGED <<now, billing, events>>

\* normalizeStripeLifecycleEvent: the command for an event of this kind, given
\* the subscription it is about; "none" if there is no such command.
Command(kind, status, cancel) ==
  CASE kind = "paid"    -> IF status = "active" THEN "renew_paid" ELSE "none"
    [] kind = "unpaid"  -> IF status # "canceled" THEN "payment_attention" ELSE "none"
    [] kind = "deleted" -> "revoke"
    [] kind = "updated" ->
         IF status = "canceled" THEN "revoke"
         ELSE IF status = "past_due" THEN "payment_attention"
         ELSE IF cancel THEN "cancel_at_period_end" ELSE "reconcile"

\* A paid invoice is renewed without cancellation, whatever was read.
Content(kind, status, cancel) ==
  [command |-> Command(kind, status, cancel), status |-> status,
   cancel |-> cancel /\ kind \notin {"paid", "deleted"} /\ status # "canceled"]

VerifyInvoiceOrForget(w) ==
  LET e == job[w].event
      s == events[e].sub
      content == Content(events[e].kind, billing[s].status, billing[s].cancel) IN
  /\ job[w].at = "verify"
  /\ events[e].kind \in {"paid", "unpaid"}
  /\ IF Issued(s) /\ content.command # "none"
     THEN /\ job' = [job EXCEPT ![w].at = "apply", ![w].content = content]
          /\ UNCHANGED <<acked, store, failures, refused>>
     ELSE Acknowledge(w) /\ UNCHANGED store
  /\ UNCHANGED <<now, billing, events>>

\* The binding is looked up; without one the provider has to come again.
VerifyInvoice(w) ==
  LET e == job[w].event
      s == events[e].sub
      content == Content(events[e].kind, billing[s].status, billing[s].cancel) IN
  /\ job[w].at = "verify"
  /\ events[e].kind \in {"paid", "unpaid"}
  /\ IF Issued(s) /\ content.command # "none"
     THEN /\ job' = [job EXCEPT ![w].at = "apply", ![w].content = content]
          /\ UNCHANGED <<acked, store, failures, refused>>
     ELSE Refuse(w)
  /\ UNCHANGED <<now, billing, events>>

Later(a, b) == IF a > b THEN a ELSE b

\* Bug: the last note to arrive sets the watermark.
NotedByLastWriter(s, e) == [license[s] EXCEPT !.watermark = events[e].created]

\* The row that the command leaves, and whether it is refused.
Renewed(s, e) == [license[s] EXCEPT !.expires = Later(@, events[e].end)]
Noted(s, e) == [license[s] EXCEPT !.watermark = Later(@, events[e].created)]
Revoked(s, e) == [license[s] EXCEPT !.status = "revoked", !.expires = events[e].created]

\* Bug: the terminal state is not looked at.
AcceptableThoughRevoked(e, content) ==
  /\ content.command = "renew_paid" => events[e].end \in (now + 1)..(now + MaxPeriod)
  /\ content.command = "cancel_at_period_end" => events[e].end > now

Acceptable(e, content) ==
  /\ license[events[e].sub].status = "active"
  /\ content.command = "renew_paid" => events[e].end \in (now + 1)..(now + MaxPeriod)
  /\ content.command = "cancel_at_period_end" => events[e].end > now

\* Bug: the license is checked before the event is looked up.
ApplyContentCheckedFirst(w, e, content) ==
  LET s == events[e].sub IN
  \/ ~ Acceptable(e, content) /\ Refuse(w)
  \/ /\ Acceptable(e, content)
     /\ IF ledger[e].command # "none"
        THEN Acknowledge(w) /\ UNCHANGED store
        ELSE /\ license' = [license EXCEPT ![s] =
                              CASE content.command = "renew_paid" -> Renewed(s, e)
                                [] content.command = "revoke" -> Revoked(s, e)
                                [] OTHER -> Noted(s, e)]
             /\ ledger' = [ledger EXCEPT ![e] = content]
             /\ Acknowledge(w)
             /\ UNCHANGED checkout

\* applyCheckoutSubscriptionLifecycle.
ApplyContent(w, e, content) ==
  LET s == events[e].sub IN
  \/ /\ ledger[e].command # "none"
     /\ \/ ledger[e] = content /\ Acknowledge(w) /\ UNCHANGED store
        \/ ledger[e] # content /\ Refuse(w)
  \/ /\ ledger[e].command = "none"
     /\ ~ Acceptable(e, content)
     /\ Refuse(w)
  \/ /\ ledger[e].command = "none"
     /\ Acceptable(e, content)
     /\ license' = [license EXCEPT ![s] =
                      CASE content.command = "renew_paid" -> Renewed(s, e)
                        [] content.command = "revoke" -> Revoked(s, e)
                        [] OTHER -> Noted(s, e)]
     /\ ledger' = [ledger EXCEPT ![e] = content]
     /\ Acknowledge(w)
     /\ UNCHANGED checkout

ApplyInvoice(w) ==
  /\ job[w].at = "apply"
  /\ ApplyContent(w, job[w].event, job[w].content)
  /\ UNCHANGED <<now, billing, events>>

\* Bug: an event without a binding is acknowledged.
ApplySubscriptionOrForget(w) ==
  LET e == job[w].event IN
  /\ job[w].at = "verify"
  /\ events[e].kind \in {"updated", "deleted"}
  /\ IF Issued(events[e].sub)
     THEN ApplyContent(w, e, Content(events[e].kind, events[e].status, events[e].cancel))
     ELSE Acknowledge(w) /\ UNCHANGED store
  /\ UNCHANGED <<now, billing, events>>

\* An event of the subscription carries all that is needed: from the lookup of
\* the binding to the end of the transaction there is no await.
ApplySubscription(w) ==
  LET e == job[w].event IN
  /\ job[w].at = "verify"
  /\ events[e].kind \in {"updated", "deleted"}
  /\ IF Issued(events[e].sub)
     THEN ApplyContent(w, e, Content(events[e].kind, events[e].status, events[e].cancel))
     ELSE Refuse(w)
  /\ UNCHANGED <<now, billing, events>>

-----------------------------------------------------------------------------
(* The buyer and the administrator.                                         *)

Redeem(s) ==
  /\ checkout[s].event # 0
  /\ checkout[s].until > now
  /\ Usable(s)
  /\ checkout' = [checkout EXCEPT ![s].redeemed = TRUE]
  /\ UNCHANGED <<now, provider, license, ledger, service>>

RevokeByAdmin(s) ==
  /\ Issued(s)
  /\ license' = [license EXCEPT ![s].status = "revoked"]
  /\ UNCHANGED <<now, provider, checkout, ledger, service>>

Provider(s) ==
  \/ Subscribe(s) \/ Pay(s) \/ MissPayment(s) \/ FallPastDue(s)
  \/ ScheduleCancellation(s) \/ EndSubscription(s)

Handle(w) ==
  \/ VerifyCheckout(w) \/ CommitCheckout(w)
  \/ VerifyInvoice(w) \/ ApplyInvoice(w) \/ ApplySubscription(w)

Next ==
  \/ \E s \in Subs : Provider(s) \/ Redeem(s) \/ RevokeByAdmin(s)
  \/ \E w \in Workers : Handle(w) \/ FailOnTheWay(w) \/ \E e \in EventIds : Deliver(w, e)
  \/ Tick

Spec == Init /\ [][Next]_vars

\* The event loop comes back to every request, and the provider delivers an
\* event again and again until it has seen it acknowledged.
Fairness ==
  /\ \A w \in Workers : WF_vars(Handle(w))
  /\ \A e \in EventIds : SF_vars(e \notin acked /\ \E w \in Workers : Deliver(w, e))

FairSpec == Spec /\ Fairness

-----------------------------------------------------------------------------
(* Properties.                                                              *)

AppliedTo(s, command) == {e \in EventIds : events[e].sub = s /\ ledger[e].command = command}

\* In whatever order the events of a subscription were applied, the license is
\* what its ledger says: no paid period that was applied is lost as long as no
\* event ended the subscription; one that did is the last word, and the only
\* one; and the watermark has seen every event that only leaves a note.
\* (applyCheckoutSubscriptionLifecycle: monotone renewal, terminal revocation.)
LedgerExplainsLicense ==
  \A s \in Subs : Issued(s) =>
    /\ \/ /\ AppliedTo(s, "revoke") = {}
          /\ \A e \in AppliedTo(s, "renew_paid") : events[e].end <= license[s].expires
       \/ \E e \in AppliedTo(s, "revoke") :
            /\ AppliedTo(s, "revoke") = {e}
            /\ license[s].status = "revoked"
            /\ license[s].expires = events[e].created
    /\ \A command \in {"reconcile", "cancel_at_period_end", "payment_attention"} :
         \A e \in AppliedTo(s, command) : events[e].created <= license[s].watermark

\* The tables keep the promise of Entitlement: issued once, extended only,
\* handed out only while active, and beyond change once revoked - whichever
\* deliveries are in progress when that happens, and however often and in
\* whichever order they come.
Promised == INSTANCE Entitlement WITH
  status <- [s \in Subs |-> license[s].status],
  expires <- [s \in Subs |-> license[s].expires],
  redeemed <- [s \in Subs |-> checkout[s].redeemed]

KeepsPromise == Promised!EntitlementSpec

\* A second delivery of a subscription event that was applied, or of a checkout
\* event that was fulfilled, is never refused, whatever has become of the
\* license and of the clock in between.
SubscriptionRedeliveryIsAnswered == \A e \in refused : events[e].kind \in {"paid", "unpaid"}

\* Once the provider has ended a subscription, its license is revoked, however
\* late the checkout that issues it comes.
EndedIsRevoked ==
  \A s \in Subs :
    billing[s].status = "canceled" /\ Issued(s) ~> license[s].status = "revoked"

\* A paid invoice reaches the license while the subscription stays active and
\* the period lasts, unless the license was revoked.
PaidIsLicensed ==
  \A e \in EventIds : \A s \in Subs :
    events[e].kind = "paid" /\ events[e].sub = s
      ~> \/ license[s].expires >= events[e].end
         \/ license[s].status = "revoked"
         \/ billing[s].status # "active"
         \/ now >= events[e].end

==============================================================================
