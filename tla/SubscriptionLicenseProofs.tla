---------------------- MODULE SubscriptionLicenseProofs ----------------------
(***************************************************************************)
(* SubscriptionLicense's safety, and that it implements the promise of     *)
(* Entitlement, for every number of subscriptions, events and deliveries.  *)
(***************************************************************************)
EXTENDS SubscriptionLicense, TLAPS

\* TypeOK without the two facts that relate variables.
Typed ==
  /\ now \in 0..MaxTime
  /\ billing \in [Subs -> [status : Statuses \cup {"none"}, cancel : BOOLEAN, end : Times]]
  /\ events \in [EventIds -> EventRecords]
  /\ license \in [Subs -> [status : {"none", "active", "revoked"}, expires : Times,
                           watermark : Times]]
  /\ checkout \in [Subs -> [event : EventIds \cup {0}, until : 0..(MaxTime + Ttl),
                            redeemed : BOOLEAN]]
  /\ ledger \in [EventIds -> Contents \cup {NoContent}]
  /\ job \in [Workers -> [event : EventIds \cup {0}, at : {"idle", "verify", "commit", "apply"},
                          content : Contents \cup {NoContent}, start : 0..MaxTime,
                          again : BOOLEAN]]
  /\ failures \in 0..MaxFailures

\* What the history of the events adds.
Named ==
  /\ \A e \in Written :
       /\ events[e].sub \in Subs /\ events[e].kind \in Kinds
       /\ billing[events[e].sub].status \in Statuses
  /\ acked \subseteq Written
  /\ refused \subseteq Written
  /\ \A w \in Workers : job[w].at # "idle" => job[w].event \in Written

\* A delivery is at the place that its event's kind takes it to.  One that found
\* its event applied is not of a checkout, and what it found is still there.
JobsMatch ==
  \A w \in Workers : job[w].at # "idle" =>
    LET e == job[w].event IN
    /\ job[w].at = "commit" => events[e].kind = "checkout"
    /\ job[w].at = "apply" =>
         /\ events[e].kind \in {"paid", "unpaid"}
         /\ job[w].content.command \in Commands
         /\ Issued(events[e].sub)
    /\ job[w].again => ledger[e].command # "none"

\* A checkout is fulfilled by its event, and then its license exists.
CheckoutsMatch ==
  \A s \in Subs :
    /\ Issued(s) <=> checkout[s].event # 0
    /\ checkout[s].event # 0 =>
         /\ checkout[s].event \in Written
         /\ events[checkout[s].event].kind = "checkout"
         /\ events[checkout[s].event].sub = s

\* An applied event is of a license that was issued, and one of the subscription
\* is recorded with what it carries.
LedgerMatches ==
  \A e \in EventIds : ledger[e].command # "none" =>
    /\ e \in Written
    /\ events[e].kind # "checkout"
    /\ Issued(events[e].sub)
    /\ events[e].kind \in {"updated", "deleted"} =>
         ledger[e] = Content(events[e].kind, events[e].status, events[e].cancel)

LicenseInv ==
  /\ Typed
  /\ Named
  /\ JobsMatch
  /\ CheckoutsMatch
  /\ LedgerMatches
  /\ LedgerExplainsLicense
  /\ SubscriptionRedeliveryIsAnswered

-----------------------------------------------------------------------------
(* What the operators return.                                              *)

LEMMA CommandTyped ==
  ASSUME NEW kind \in Kinds \ {"checkout"}, NEW status \in Statuses, NEW cancel \in BOOLEAN
  PROVE  /\ Command(kind, status, cancel) \in Commands \cup {"none"}
         /\ kind \in {"updated", "deleted"} => Command(kind, status, cancel) \in Commands
         /\ kind = "paid" => Command(kind, status, cancel) \in {"renew_paid", "none"}
         /\ Content(kind, status, cancel).command = Command(kind, status, cancel)
         /\ Command(kind, status, cancel) \in Commands
              => Content(kind, status, cancel) \in Contents
<1>1. kind \in {"paid", "unpaid", "updated", "deleted"}
  BY DEF Kinds
<1>2. /\ Command(kind, status, cancel) \in Commands \cup {"none"}
      /\ kind \in {"updated", "deleted"} => Command(kind, status, cancel) \in Commands
      /\ kind = "paid" => Command(kind, status, cancel) \in {"renew_paid", "none"}
  BY <1>1 DEF Command, Commands, Statuses
<1>3. Content(kind, status, cancel).command = Command(kind, status, cancel)
  BY DEF Content
<1>4. (cancel /\ kind \notin {"paid", "deleted"} /\ status # "canceled") \in BOOLEAN
  OBVIOUS
<1>5. ASSUME Command(kind, status, cancel) \in Commands
      PROVE  Content(kind, status, cancel) \in Contents
  BY <1>4, <1>5 DEF Content, Contents
<1> QED BY <1>2, <1>3, <1>5

LEMMA TimesAreNumbers ==
  /\ Times \subseteq Nat /\ 0 \in Times
  /\ \A t \in 0..MaxTime : t \in Times /\ t + Trial \in Times /\ t + Period \in Times
                           /\ t + Ttl \in 0..(MaxTime + Ttl)
  /\ \A a, b \in Times : Later(a, b) \in Times /\ Later(a, b) >= a /\ Later(a, b) >= b
BY SubscriptionConstants DEF Times, Later

LEMMA IdleTyped ==
  /\ Idle \in [event : EventIds \cup {0}, at : {"idle", "verify", "commit", "apply"},
               content : Contents \cup {NoContent}, start : 0..MaxTime, again : BOOLEAN]
  /\ Idle.at = "idle"
BY SubscriptionConstants DEF Idle

-----------------------------------------------------------------------------
(* What the provider does is a new event at most.                          *)

\* The events that were written stay, and the service has not moved.
Grown ==
  /\ \A e \in Written : e \in Written' /\ events'[e] = events[e]
  /\ UNCHANGED <<acked, store, service>>

LEMMA GrownKeeps ==
  ASSUME LicenseInv, Grown, Typed', Named'
  PROVE  LicenseInv'
<1> USE DEF LicenseInv, Grown, store, service
<1>1. JobsMatch'
  BY DEF JobsMatch, Issued, Named
<1>2. CheckoutsMatch'
  BY DEF CheckoutsMatch, Issued
<1>3. LedgerMatches'
  <2>1. /\ LedgerMatches
        /\ \A e \in Written : e \in Written' /\ events'[e] = events[e]
        /\ UNCHANGED <<license, ledger>>
    OBVIOUS
  <2> HIDE DEF LicenseInv, Grown, store, service
  <2> QED BY <2>1 DEF LedgerMatches, Issued
<1>4. ASSUME NEW e \in EventIds, ledger[e].command # "none" PROVE events'[e] = events[e]
  BY <1>4 DEF LedgerMatches
<1>5. \A c \in Commands : c # "none"
  BY DEF Commands
<1>6. UNCHANGED ledger
  OBVIOUS
<1> HIDE DEF LicenseInv, Grown, store, service
<1>7. \A s \in Subs, c \in Commands : \A e \in AppliedTo(s, c) : events'[e] = events[e]
  BY <1>4, <1>5 DEF AppliedTo
<1>8. ASSUME NEW s \in Subs, NEW c \in Commands PROVE AppliedTo(s, c)' = AppliedTo(s, c)
  BY <1>4, <1>5, <1>6 DEF AppliedTo
<1> USE DEF LicenseInv, Grown, store, service
<1>9. LedgerExplainsLicense'
  BY <1>7, <1>8 DEF LedgerExplainsLicense, Commands, Issued
<1>10. SubscriptionRedeliveryIsAnswered'
  BY DEF SubscriptionRedeliveryIsAnswered, Named
<1> QED BY <1>1, <1>2, <1>3, <1>9, <1>10

LEMMA EmitKeeps ==
  ASSUME LicenseInv, NEW s \in Subs, NEW kind \in Kinds,
         NEW after \in [status : Statuses, cancel : BOOLEAN, end : Times],
         Emit(kind, s, after)
  PROVE  LicenseInv'
<1> USE DEF LicenseInv
<1>1. PICK e \in EventIds \ Written :
        events' = [events EXCEPT ![e] =
                     [kind |-> kind, sub |-> s, created |-> now, status |-> after.status,
                      cancel |-> after.cancel, end |-> after.end]]
  BY DEF Emit
<1>2. UNCHANGED <<now, acked, store, service>>
  BY DEF Emit
<1>3. [kind |-> kind, sub |-> s, created |-> now, status |-> after.status,
       cancel |-> after.cancel, end |-> after.end] \in EventRecords
  BY TimesAreNumbers DEF EventRecords, Typed
<1>4. billing' = [billing EXCEPT ![s] = after]
  BY DEF Emit
<1>5. Typed'
  <2>1. events' \in [EventIds -> EventRecords]
    BY <1>1, <1>3 DEF Typed
  <2>2. billing' \in [Subs -> [status : Statuses \cup {"none"}, cancel : BOOLEAN, end : Times]]
    BY <1>4 DEF Typed
  <2> QED BY <1>2, <2>1, <2>2 DEF Typed, store, service
<1>6. Written' = Written \cup {e}
  BY <1>1 DEF Written, Typed, Kinds
<1>7. Grown
  BY <1>1, <1>2, <1>6 DEF Grown, Typed, Written
<1>8. Named'
  <2>1. \A f \in Written' :
          /\ events'[f].sub \in Subs /\ events'[f].kind \in Kinds
          /\ billing'[events'[f].sub].status \in Statuses
    <3>1. events'[e].sub = s /\ events'[e].kind = kind
      BY <1>1 DEF Typed
    <3>2. billing'[s].status \in Statuses /\ \A t \in Subs \ {s} : billing'[t] = billing[t]
      BY <1>4 DEF Typed
    <3> QED BY <1>6, <1>7, <3>1, <3>2 DEF Named, Grown
  <2> QED BY <1>6, <1>7, <2>1 DEF Named, Grown, service
<1> QED BY <1>5, <1>7, <1>8, GrownKeeps

LEMMA ProviderKeeps ==
  ASSUME LicenseInv, NEW s \in Subs, Provider(s)
  PROVE  LicenseInv'
<1> DEFINE States == [status : Statuses, cancel : BOOLEAN, end : Times]
<1> USE DEF LicenseInv, Statuses, Kinds
<1>1. billing[s].status \in Statuses \cup {"none"} /\ billing[s].cancel \in BOOLEAN
      /\ billing[s].end \in Times /\ now \in 0..MaxTime
      /\ billing[s] = [status |-> billing[s].status, cancel |-> billing[s].cancel,
                       end |-> billing[s].end]
  BY DEF Typed
<1>2. ASSUME Subscribe(s) PROVE LicenseInv'
  <2>1. [status |-> "active", cancel |-> FALSE, end |-> now + Trial] \in States
    BY <1>1, TimesAreNumbers
  <2> QED BY <1>2, <2>1, EmitKeeps DEF Subscribe
<1>3. ASSUME Pay(s) PROVE LicenseInv'
  <2>1. billing[s].end \in 0..MaxTime
    BY <1>1, <1>3, SubscriptionConstants DEF Pay, Times
  <2>2. [status |-> "active", cancel |-> FALSE, end |-> billing[s].end + Period] \in States
    BY <2>1, TimesAreNumbers
  <2> QED BY <1>3, <2>2, EmitKeeps DEF Pay
<1>4. ASSUME NEW status \in Statuses PROVE [billing[s] EXCEPT !.status = status] \in States
  BY <1>1, <1>4
<1>5. ASSUME MissPayment(s) \/ FallPastDue(s) \/ EndSubscription(s) PROVE LicenseInv'
  <2>1. PICK kind \in Kinds, status \in Statuses :
          Emit(kind, s, [billing[s] EXCEPT !.status = status])
    BY <1>5 DEF MissPayment, FallPastDue, EndSubscription
  <2> QED BY <1>4, <2>1, EmitKeeps
<1>6. ASSUME ScheduleCancellation(s) PROVE LicenseInv'
  <2>1. [billing[s] EXCEPT !.cancel = ~ @] \in States
    BY <1>1, <1>6 DEF ScheduleCancellation
  <2> QED BY <1>6, <2>1, EmitKeeps DEF ScheduleCancellation
<1> QED BY <1>2, <1>3, <1>5, <1>6 DEF Provider

LEMMA TickKeeps == LicenseInv /\ Tick => LicenseInv'
<1> SUFFICES ASSUME LicenseInv, Tick PROVE LicenseInv'
  OBVIOUS
<1>1. Grown /\ Typed'
  BY SubscriptionConstants DEF Tick, Grown, LicenseInv, Typed, provider, store, service, Written
<1>2. Named'
  BY DEF Tick, LicenseInv, Named, provider, store, service, Written
<1> QED BY <1>1, <1>2, GrownKeeps

-----------------------------------------------------------------------------
(* A delivery that writes nothing to the store.                            *)

LEMMA QuietKeeps ==
  ASSUME LicenseInv, UNCHANGED <<now, billing, events, store>>,
         Typed', Named', JobsMatch', SubscriptionRedeliveryIsAnswered'
  PROVE  LicenseInv'
<1> USE DEF LicenseInv, store
<1>1. CheckoutsMatch'
  BY DEF CheckoutsMatch, Issued, Written
<1>2. LedgerMatches'
  BY DEF LedgerMatches, Issued, Content, Command, Written
<1>3. LedgerExplainsLicense'
  BY DEF LedgerExplainsLicense, Issued, AppliedTo
<1> QED BY <1>1, <1>2, <1>3

LEMMA AcknowledgeKeeps ==
  ASSUME LicenseInv, NEW w \in Workers, job[w].at # "idle", Acknowledge(w),
         UNCHANGED <<now, billing, events, store>>
  PROVE  LicenseInv'
<1> USE DEF LicenseInv, store, Acknowledge
<1>1. Typed'
  BY IdleTyped DEF Typed
<1>2. Named'
  BY IdleTyped DEF Named, Written, Typed
<1>3. JobsMatch'
  BY IdleTyped DEF JobsMatch, Issued, Typed
<1>4. SubscriptionRedeliveryIsAnswered'
  BY DEF SubscriptionRedeliveryIsAnswered
<1> QED BY <1>1, <1>2, <1>3, <1>4, QuietKeeps

LEMMA RefuseKeeps ==
  ASSUME LicenseInv, NEW w \in Workers, job[w].at # "idle", Refuse(w),
         UNCHANGED <<now, billing, events>>,
         job[w].again => events[job[w].event].kind \in {"paid", "unpaid"}
  PROVE  LicenseInv'
<1> USE DEF LicenseInv, store, Refuse
<1>1. Typed'
  BY IdleTyped DEF Typed
<1>2. Named'
  BY IdleTyped DEF Named, Written, Typed
<1>3. JobsMatch'
  BY IdleTyped DEF JobsMatch, Issued, Typed
<1>4. SubscriptionRedeliveryIsAnswered'
  BY DEF SubscriptionRedeliveryIsAnswered, Named
<1> QED BY <1>1, <1>2, <1>3, <1>4, QuietKeeps

LEMMA DeliverKeeps ==
  ASSUME LicenseInv, NEW w \in Workers, NEW e \in EventIds, Deliver(w, e)
  PROVE  LicenseInv'
<1> USE DEF LicenseInv, store
<1>1. CASE events[e].kind = "checkout" /\ checkout[events[e].sub].event = e
  <2>1. acked' = acked \cup {e} /\ UNCHANGED <<now, billing, events, store, job, failures, refused>>
    BY <1>1 DEF Deliver
  <2>2. Typed' /\ JobsMatch' /\ SubscriptionRedeliveryIsAnswered'
    BY <2>1 DEF Typed, JobsMatch, SubscriptionRedeliveryIsAnswered, Issued
  <2>3. Named'
    BY <2>1 DEF Named, Written, Deliver
  <2> QED BY <2>1, <2>2, <2>3, QuietKeeps
<1>2. CASE ~ (events[e].kind = "checkout" /\ checkout[events[e].sub].event = e)
  <2> DEFINE started == [Idle EXCEPT !.event = e, !.at = "verify", !.start = now,
                                     !.again = Applied(e)]
  <2>1. job' = [job EXCEPT ![w] = started]
        /\ UNCHANGED <<now, billing, events, store, acked, failures, refused>>
    BY <1>2 DEF Deliver
  <2>2. /\ started.event = e /\ started.at = "verify"
        /\ started.again = Applied(e) /\ Applied(e) \in BOOLEAN
        /\ started \in [event : EventIds \cup {0}, at : {"idle", "verify", "commit", "apply"},
               content : Contents \cup {NoContent}, start : 0..MaxTime, again : BOOLEAN]
    BY SubscriptionConstants DEF Typed, Idle, Applied
  <2>3. Typed'
    BY <2>1, <2>2 DEF Typed
  <2>4. Named'
    BY <2>1, <2>2 DEF Named, Written, Typed, Deliver
  <2>5. Applied(e) => ledger[e].command # "none"
    BY <1>2, SubscriptionConstants DEF Applied, CheckoutsMatch, EventIds
  <2>6. JobsMatch'
    BY <2>1, <2>2, <2>5 DEF JobsMatch, Typed, Issued
  <2>7. SubscriptionRedeliveryIsAnswered'
    BY <2>1 DEF SubscriptionRedeliveryIsAnswered
  <2> QED BY <2>1, <2>3, <2>4, <2>6, <2>7, QuietKeeps
<1> QED BY <1>1, <1>2

LEMMA FailOnTheWayKeeps ==
  ASSUME LicenseInv, NEW w \in Workers, FailOnTheWay(w)
  PROVE  LicenseInv'
<1> USE DEF LicenseInv, store, provider, FailOnTheWay
<1>1. Typed'
  BY IdleTyped, SubscriptionConstants DEF Typed
<1>2. Named'
  BY IdleTyped DEF Named, Written, Typed
<1>3. JobsMatch'
  BY IdleTyped DEF JobsMatch, Issued, Typed
<1>4. SubscriptionRedeliveryIsAnswered'
  BY DEF SubscriptionRedeliveryIsAnswered
<1> QED BY <1>1, <1>2, <1>3, <1>4, QuietKeeps

-----------------------------------------------------------------------------
(* A delivery that writes to the store.                                    *)

LEMMA VerifyCheckoutKeeps ==
  ASSUME LicenseInv, NEW w \in Workers, VerifyCheckout(w)
  PROVE  LicenseInv'
<1> USE DEF LicenseInv
<1>1. /\ job[w].at = "verify" /\ events[job[w].event].kind = "checkout"
      /\ UNCHANGED <<now, billing, events>>
  BY DEF VerifyCheckout
<1>2. ~ job[w].again
  BY <1>1 DEF JobsMatch, LedgerMatches, Named, Written
<1>3. CASE job' = [job EXCEPT ![w].at = "commit"] /\ UNCHANGED <<acked, store, failures, refused>>
  <2>1. Typed'
    BY <1>1, <1>3 DEF Typed, store
  <2>2. Named' /\ JobsMatch' /\ SubscriptionRedeliveryIsAnswered'
    BY <1>1, <1>3
       DEF Named, Written, JobsMatch, SubscriptionRedeliveryIsAnswered, Typed, Issued, store
  <2> QED BY <1>1, <1>3, <2>1, <2>2, QuietKeeps
<1>4. CASE Refuse(w)
  BY <1>1, <1>2, <1>4, RefuseKeeps
<1> QED BY <1>3, <1>4 DEF VerifyCheckout

\* The two rows that issuing a license writes.
IssuedRow(s) == [license[s] EXCEPT !.status = "active", !.expires = now + Trial]
FulfilledRow(w, s, e) == [checkout[s] EXCEPT !.event = e, !.until = job[w].start + Ttl]

LEMMA RowsIssued ==
  ASSUME Typed, NEW w \in Workers, NEW s \in Subs, NEW e \in EventIds
  PROVE  /\ IssuedRow(s) \in [status : {"none", "active", "revoked"}, expires : Times,
                              watermark : Times]
         /\ IssuedRow(s).status = "active" /\ IssuedRow(s).watermark = license[s].watermark
         /\ FulfilledRow(w, s, e) \in [event : EventIds \cup {0}, until : 0..(MaxTime + Ttl),
                                       redeemed : BOOLEAN]
         /\ FulfilledRow(w, s, e).event = e
         /\ FulfilledRow(w, s, e).redeemed = checkout[s].redeemed
<1>1. /\ license[s] \in [status : {"none", "active", "revoked"}, expires : Times,
                         watermark : Times]
      /\ checkout[s] \in [event : EventIds \cup {0}, until : 0..(MaxTime + Ttl),
                          redeemed : BOOLEAN]
  BY DEF Typed
<1>2. now + Trial \in Times /\ job[w].start + Ttl \in 0..(MaxTime + Ttl)
  BY TimesAreNumbers DEF Typed
<1>3. /\ IssuedRow(s) \in [status : {"none", "active", "revoked"}, expires : Times,
                           watermark : Times]
      /\ IssuedRow(s).status = "active" /\ IssuedRow(s).watermark = license[s].watermark
  BY <1>1, <1>2 DEF IssuedRow
<1>4. /\ FulfilledRow(w, s, e) \in [event : EventIds \cup {0}, until : 0..(MaxTime + Ttl),
                                    redeemed : BOOLEAN]
      /\ FulfilledRow(w, s, e).event = e
      /\ FulfilledRow(w, s, e).redeemed = checkout[s].redeemed
  BY <1>1, <1>2 DEF FulfilledRow
<1> QED BY <1>3, <1>4

LEMMA IssueWrites ==
  ASSUME Typed, NEW w \in Workers, NEW s \in Subs, NEW e \in EventIds,
         license' = [license EXCEPT ![s] = IssuedRow(s)],
         checkout' = [checkout EXCEPT ![s] = FulfilledRow(w, s, e)]
  PROVE  /\ license' \in [Subs -> [status : {"none", "active", "revoked"}, expires : Times,
                                   watermark : Times]]
         /\ license'[s].status = "active" /\ license'[s].watermark = license[s].watermark
         /\ \A t \in Subs \ {s} : license'[t] = license[t]
         /\ checkout' \in [Subs -> [event : EventIds \cup {0}, until : 0..(MaxTime + Ttl),
                                    redeemed : BOOLEAN]]
         /\ checkout'[s].event = e
         /\ \A t \in Subs \ {s} : checkout'[t] = checkout[t]
         /\ \A t \in Subs : checkout'[t].redeemed = checkout[t].redeemed
<1>1. /\ license' \in [Subs -> [status : {"none", "active", "revoked"}, expires : Times,
                                watermark : Times]]
      /\ license'[s] = IssuedRow(s) /\ \A t \in Subs \ {s} : license'[t] = license[t]
  BY RowsIssued DEF Typed
<1>2. /\ checkout' \in [Subs -> [event : EventIds \cup {0}, until : 0..(MaxTime + Ttl),
                                 redeemed : BOOLEAN]]
      /\ checkout'[s] = FulfilledRow(w, s, e) /\ \A t \in Subs \ {s} : checkout'[t] = checkout[t]
  BY RowsIssued DEF Typed
<1> QED BY <1>1, <1>2, RowsIssued

LEMMA CommitCheckoutKeeps ==
  ASSUME LicenseInv, NEW w \in Workers, CommitCheckout(w)
  PROVE  LicenseInv'
<1> DEFINE e == job[w].event
           s == events[e].sub
<1> USE DEF LicenseInv
<1>1. /\ job[w].at = "commit" /\ events[e].kind = "checkout" /\ e \in Written /\ s \in Subs
      /\ UNCHANGED <<now, billing, events>> /\ e \in EventIds
  BY DEF CommitCheckout, JobsMatch, Named, Written
<1>2. ~ job[w].again
  BY <1>1 DEF JobsMatch, LedgerMatches, Written
<1>3. CASE Refuse(w)
  BY <1>1, <1>2, <1>3, RefuseKeeps
<1>4. CASE Acknowledge(w) /\ UNCHANGED store
  BY <1>1, <1>4, AcknowledgeKeeps
<1>5. CASE /\ ~ Issued(s)
           /\ license' = [license EXCEPT ![s] = IssuedRow(s)]
           /\ checkout' = [checkout EXCEPT ![s] = FulfilledRow(w, s, e)]
           /\ Acknowledge(w)
           /\ UNCHANGED ledger
  <2>1. /\ acked' = acked \cup {e} /\ job' = [job EXCEPT ![w] = Idle]
        /\ UNCHANGED <<failures, refused>>
    BY <1>5 DEF Acknowledge
  <2>2. /\ license' \in [Subs -> [status : {"none", "active", "revoked"}, expires : Times,
                                  watermark : Times]]
        /\ license'[s].status = "active" /\ license'[s].watermark = license[s].watermark
        /\ \A t \in Subs \ {s} : license'[t] = license[t]
    BY <1>1, <1>5, IssueWrites
  <2>3. /\ checkout' \in [Subs -> [event : EventIds \cup {0}, until : 0..(MaxTime + Ttl),
                                   redeemed : BOOLEAN]]
        /\ checkout'[s].event = e
        /\ \A t \in Subs \ {s} : checkout'[t] = checkout[t]
    <3> HIDE DEF s, e
    <3>1. checkout' = [checkout EXCEPT ![s] = FulfilledRow(w, s, e)]
      BY <1>5
    <3>2. Typed /\ e \in EventIds /\ s \in Subs
      BY <1>1
    <3>3. /\ FulfilledRow(w, s, e) \in [event : EventIds \cup {0}, until : 0..(MaxTime + Ttl),
                                        redeemed : BOOLEAN]
          /\ FulfilledRow(w, s, e).event = e
      BY <3>2, RowsIssued
    <3> QED BY <3>1, <3>2, <3>3 DEF Typed
  <2>4. Typed'
    BY <1>1, <1>5, <2>1, <2>2, <2>3, IdleTyped DEF Typed
  <2>5. Named'
    BY <1>1, <2>1, IdleTyped DEF Named, Written, Typed
  <2>6. \A t \in Subs : Issued(t) => Issued(t)'
    BY <2>2 DEF Issued
  <2>7. JobsMatch'
    <3>1. /\ JobsMatch /\ UNCHANGED <<events, ledger>>
          /\ \A v \in Workers : job[v].at # "idle" => events[job[v].event].sub \in Subs
      BY <1>1, <1>5 DEF Named
    <3>2. \A v \in Workers : job'[v] = IF v = w THEN Idle ELSE job[v]
      BY <2>1 DEF Typed
    <3> HIDE DEF LicenseInv, s, e
    <3> QED BY <2>6, <3>1, <3>2, IdleTyped DEF JobsMatch
  <2>8. CheckoutsMatch'
    <3>1. e # 0 /\ e \in Written'
      BY <1>1, SubscriptionConstants DEF Written, EventIds
    <3>2. /\ CheckoutsMatch /\ Written' = Written /\ UNCHANGED events
          /\ license'[s].status = "active" /\ checkout'[s].event = e
          /\ \A t \in Subs \ {s} : license'[t] = license[t] /\ checkout'[t] = checkout[t]
          /\ events[e].kind = "checkout" /\ events[e].sub = s
      BY <1>1, <2>2, <2>3 DEF Written
    <3> HIDE DEF LicenseInv, s, e
    <3> QED BY <1>1, <3>1, <3>2 DEF CheckoutsMatch, Issued
  <2>9. LedgerMatches'
    <3>1. /\ LedgerMatches /\ UNCHANGED <<events, ledger>>
          /\ \A f \in Written : f \in Written' /\ events[f].sub \in Subs
      BY <1>1, <1>5 DEF Named, Written
    <3> HIDE DEF LicenseInv, s, e
    <3> QED BY <2>6, <3>1 DEF LedgerMatches
  <2>10. LedgerExplainsLicense'
    <3>1. \A c \in Commands : AppliedTo(s, c) = {}
      <4>1. \A f \in EventIds : events[f].sub = s => ledger[f].command = "none"
        BY <1>5 DEF LedgerMatches
      <4>2. \A c \in Commands : c # "none"
        BY DEF Commands
      <4> HIDE DEF LicenseInv, s
      <4> QED BY <4>1, <4>2 DEF AppliedTo
    <3>2. \A t \in Subs, c \in Commands : AppliedTo(t, c)' = AppliedTo(t, c)
      BY <1>1, <1>5 DEF AppliedTo
    <3>3. s \in Subs /\ UNCHANGED events /\ LedgerExplainsLicense
          /\ \A t \in Subs \ {s} : license'[t] = license[t]
      BY <1>1, <2>2
    <3> HIDE DEF LicenseInv, s, e
    <3>4. \A t \in Subs, c \in Commands : t = s => AppliedTo(t, c)' = {}
      BY <3>1, <3>2
    <3> QED BY <3>2, <3>3, <3>4 DEF LedgerExplainsLicense, Issued, Commands
  <2>11. SubscriptionRedeliveryIsAnswered'
    BY <1>1, <2>1 DEF SubscriptionRedeliveryIsAnswered
  <2> QED BY <2>4, <2>5, <2>7, <2>8, <2>9, <2>10, <2>11
<1> QED BY <1>1, <1>3, <1>4, <1>5 DEF CommitCheckout, store, IssuedRow, FulfilledRow

\* The row that an applied command leaves.
Left(s, e, command) ==
  CASE command = "renew_paid" -> Renewed(s, e)
    [] command = "revoke" -> Revoked(s, e)
    [] OTHER -> Noted(s, e)

LEMMA LeftRow ==
  ASSUME Typed, NEW s \in Subs, NEW e \in EventIds, NEW command \in Commands,
         license[s].status = "active"
  PROVE  /\ Left(s, e, command) \in [status : {"none", "active", "revoked"},
                                     expires : Times, watermark : Times]
         /\ command = "revoke" =>
              /\ Left(s, e, command).status = "revoked"
              /\ Left(s, e, command).expires = events[e].created
         /\ command # "revoke" =>
              /\ Left(s, e, command).status = "active"
              /\ Left(s, e, command).expires >= license[s].expires
         /\ command = "renew_paid" => Left(s, e, command).expires >= events[e].end
         /\ Left(s, e, command).watermark >= license[s].watermark
         /\ command \notin {"renew_paid", "revoke"} =>
              Left(s, e, command).watermark >= events[e].created
<1>1. /\ license[s] \in [status : {"none", "active", "revoked"}, expires : Times, watermark : Times]
      /\ events[e].end \in Times /\ events[e].created \in Times
  BY DEF Typed, EventRecords
<1>2. license[s].expires \in Nat /\ license[s].watermark \in Nat
  BY <1>1, TimesAreNumbers
<1>3. CASE command = "renew_paid"
  <2>1. Left(s, e, command) = [license[s] EXCEPT !.expires = Later(license[s].expires, events[e].end)]
    BY <1>3 DEF Left, Renewed
  <2> QED BY <1>1, <1>2, <1>3, <2>1, TimesAreNumbers
<1>4. CASE command = "revoke"
  <2> DEFINE row == [license[s] EXCEPT !.status = "revoked"]
  <2>1. Left(s, e, command) = [row EXCEPT !.expires = events[e].created]
    BY <1>4 DEF Left, Revoked
  <2>2. /\ row \in [status : {"none", "active", "revoked"}, expires : Times, watermark : Times]
        /\ row.status = "revoked" /\ row.watermark = license[s].watermark
    BY <1>1
  <2> HIDE DEF row
  <2> QED BY <1>1, <1>2, <1>4, <2>1, <2>2
<1>5. CASE command \notin {"renew_paid", "revoke"}
  <2>1. Left(s, e, command)
          = [license[s] EXCEPT !.watermark = Later(license[s].watermark, events[e].created)]
    BY <1>5 DEF Left, Noted
  <2> QED BY <1>1, <1>2, <1>5, <2>1, TimesAreNumbers
<1> QED BY <1>3, <1>4, <1>5

\* The ledger and the license move together.
LEMMA WrittenExplains ==
  ASSUME Typed, LedgerExplainsLicense, NEW e \in EventIds, NEW content \in Contents,
         events[e].sub \in Subs, ledger[e].command = "none",
         license[events[e].sub].status = "active",
         license' = [license EXCEPT ![events[e].sub] = Left(events[e].sub, e, content.command)],
         ledger' = [ledger EXCEPT ![e] = content],
         UNCHANGED events
  PROVE  LedgerExplainsLicense'
<1> DEFINE s == events[e].sub
<1>1. content.command \in Commands
  BY DEF Contents
<1>2. ASSUME NEW t \in Subs, NEW c \in Commands
      PROVE  /\ t # s \/ c # content.command => AppliedTo(t, c)' = AppliedTo(t, c)
             /\ AppliedTo(s, content.command)' = AppliedTo(s, content.command) \cup {e}
  BY <1>1, <1>2 DEF AppliedTo, Typed, Commands
<1>3. license'[s] = Left(s, e, content.command) /\ \A t \in Subs \ {s} : license'[t] = license[t]
  BY DEF Typed
<1>4. AppliedTo(s, "revoke") = {}
  BY DEF LedgerExplainsLicense, Issued
<1>5. /\ \A f \in AppliedTo(s, "renew_paid") : events[f].end <= license[s].expires
      /\ \A c \in {"reconcile", "cancel_at_period_end", "payment_attention"} :
           \A f \in AppliedTo(s, c) : events[f].created <= license[s].watermark
  BY <1>4 DEF LedgerExplainsLicense, Issued
<1>6. /\ license[s].expires \in Nat /\ license[s].watermark \in Nat
      /\ Left(s, e, content.command).expires \in Nat
      /\ Left(s, e, content.command).watermark \in Nat
      /\ \A f \in EventIds : events[f].end \in Nat /\ events[f].created \in Nat
  <2>1. license[s].expires \in Nat /\ license[s].watermark \in Nat
    BY TimesAreNumbers DEF Typed
  <2>2. /\ Left(s, e, content.command).expires \in Nat
        /\ Left(s, e, content.command).watermark \in Nat
    BY <1>1, LeftRow, TimesAreNumbers
  <2>3. ASSUME NEW f \in EventIds PROVE events[f].end \in Times /\ events[f].created \in Times
    <3>1. events[f] \in EventRecords
      BY DEF Typed
    <3> QED BY <3>1 DEF EventRecords
  <2> HIDE DEF s
  <2> QED BY <2>1, <2>2, <2>3, TimesAreNumbers
<1>7. SUFFICES ASSUME NEW t \in Subs, Issued(t)'
      PROVE  /\ \/ /\ AppliedTo(t, "revoke")' = {}
                   /\ \A f \in AppliedTo(t, "renew_paid")' : events[f].end <= license'[t].expires
                \/ \E f \in AppliedTo(t, "revoke")' :
                     /\ AppliedTo(t, "revoke")' = {f}
                     /\ license'[t].status = "revoked"
                     /\ license'[t].expires = events[f].created
             /\ \A c \in {"reconcile", "cancel_at_period_end", "payment_attention"} :
                  \A f \in AppliedTo(t, c)' : events[f].created <= license'[t].watermark
  BY DEF LedgerExplainsLicense
<1>8. CASE t # s
  BY <1>2, <1>3, <1>7, <1>8 DEF LedgerExplainsLicense, Issued, Commands
<1>9. CASE t = s
  <2>1. \A c \in {"reconcile", "cancel_at_period_end", "payment_attention"} :
          \A f \in AppliedTo(s, c)' : events[f].created <= license'[s].watermark
    <3> SUFFICES ASSUME NEW c \in {"reconcile", "cancel_at_period_end", "payment_attention"},
                        NEW f \in AppliedTo(s, c)'
                 PROVE  events[f].created <= license'[s].watermark
      OBVIOUS
    <3>1. f \in AppliedTo(s, c) \/ (f = e /\ content.command = c)
      BY <1>2 DEF Commands
    <3>2. f \in EventIds
      BY DEF AppliedTo
    <3>3. license'[s].watermark >= license[s].watermark
      BY <1>1, <1>3, LeftRow
    <3>4. f = e /\ content.command = c => license'[s].watermark >= events[e].created
      BY <1>1, <1>3, LeftRow
    <3> HIDE DEF s
    <3> QED BY <1>3, <1>5, <1>6, <3>1, <3>2, <3>3, <3>4
  <2>2. CASE content.command = "revoke"
    <3>1. AppliedTo(s, "revoke")' = {e}
      BY <1>2, <1>4, <2>2 DEF Commands
    <3>2. license'[s].status = "revoked" /\ license'[s].expires = events[e].created
      BY <1>1, <1>3, <2>2, LeftRow
    <3> QED BY <1>9, <2>1, <3>1, <3>2
  <2>3. CASE content.command # "revoke"
    <3>1. AppliedTo(s, "revoke")' = {}
      BY <1>2, <1>4, <2>3 DEF Commands
    <3>2. \A f \in AppliedTo(s, "renew_paid")' : events[f].end <= license'[s].expires
      <4> SUFFICES ASSUME NEW f \in AppliedTo(s, "renew_paid")'
                   PROVE  events[f].end <= license'[s].expires
        OBVIOUS
      <4>1. f \in AppliedTo(s, "renew_paid") \/ (f = e /\ content.command = "renew_paid")
        BY <1>2 DEF Commands
      <4>2. f \in EventIds
        BY DEF AppliedTo
      <4>3. license'[s].expires >= license[s].expires
        BY <1>1, <1>3, <2>3, LeftRow
      <4>4. content.command = "renew_paid" => license'[s].expires >= events[e].end
        BY <1>1, <1>3, LeftRow
      <4> HIDE DEF s
      <4> QED BY <1>3, <1>5, <1>6, <4>1, <4>2, <4>3, <4>4
    <3> QED BY <1>9, <2>1, <3>1, <3>2
  <2> QED BY <2>2, <2>3
<1> QED BY <1>8, <1>9

LEMMA ApplyContentKeeps ==
  ASSUME LicenseInv, NEW w \in Workers, job[w].at # "idle", NEW content \in Contents,
         Issued(events[job[w].event].sub),
         events[job[w].event].kind # "checkout",
         events[job[w].event].kind \in {"updated", "deleted"} =>
           content = Content(events[job[w].event].kind, events[job[w].event].status,
                             events[job[w].event].cancel),
         ApplyContent(w, job[w].event, content), UNCHANGED <<now, billing, events>>
  PROVE  LicenseInv'
<1> DEFINE e == job[w].event
           s == events[e].sub
<1> USE DEF LicenseInv
<1>1. e \in Written /\ e \in EventIds /\ s \in Subs /\ events[e].kind \in Kinds
  BY DEF Named, Written
<1>2. CASE Acknowledge(w) /\ UNCHANGED store
  BY <1>2, AcknowledgeKeeps
<1>3. CASE ledger[e].command # "none" /\ ledger[e] # content /\ Refuse(w)
  <2>1. events[e].kind \in {"paid", "unpaid"}
    BY <1>1, <1>3 DEF LedgerMatches, Kinds
  <2> QED BY <1>3, <2>1, RefuseKeeps
<1>4. CASE ledger[e].command = "none" /\ Refuse(w)
  BY <1>4, RefuseKeeps DEF JobsMatch
<1>5. CASE /\ ledger[e].command = "none"
           /\ Acceptable(e, content)
           /\ license' = [license EXCEPT ![s] = Left(s, e, content.command)]
           /\ ledger' = [ledger EXCEPT ![e] = content]
           /\ Acknowledge(w)
           /\ UNCHANGED checkout
  <2>1. /\ acked' = acked \cup {e} /\ job' = [job EXCEPT ![w] = Idle]
        /\ UNCHANGED <<failures, refused>>
    BY <1>5 DEF Acknowledge
  <2>2. license[s].status = "active" /\ content.command \in Commands
    BY <1>5 DEF Acceptable, Contents
  <2>3. /\ Left(s, e, content.command) \in [status : {"none", "active", "revoked"},
                                            expires : Times, watermark : Times]
        /\ Left(s, e, content.command).status # "none"
    BY <1>1, <2>2, LeftRow
  <2>4. Typed'
    <3>1. license' \in [Subs -> [status : {"none", "active", "revoked"}, expires : Times,
                                 watermark : Times]]
      BY <1>5, <2>3 DEF Typed
    <3>2. ledger' \in [EventIds -> Contents \cup {NoContent}]
      BY <1>5 DEF Typed
    <3> QED BY <1>5, <2>1, <3>1, <3>2, IdleTyped DEF Typed
  <2>5. Named'
    BY <1>1, <2>1, IdleTyped DEF Named, Written, Typed
  <2>6. \A t \in Subs : Issued(t)' <=> Issued(t)
    BY <1>5, <2>2, <2>3 DEF Issued, Typed
  <2>7. /\ ledger'[e] = content /\ content.command # "none"
        /\ \A f \in EventIds \ {e} : ledger'[f] = ledger[f]
    BY <1>1, <1>5, <2>2 DEF Typed, Commands
  <2>8. JobsMatch'
    BY <1>1, <2>1, <2>6, <2>7, IdleTyped DEF JobsMatch, Typed, Named, Written
  <2>9. CheckoutsMatch'
    BY <1>5, <2>6 DEF CheckoutsMatch, Written
  <2>10. LedgerMatches'
    <3> SUFFICES ASSUME NEW f \in EventIds, ledger'[f].command # "none"
                 PROVE  /\ f \in Written
                        /\ events[f].kind # "checkout"
                        /\ Issued(events[f].sub)'
                        /\ events[f].kind \in {"updated", "deleted"} =>
                             ledger'[f] = Content(events[f].kind, events[f].status,
                                                  events[f].cancel)
      BY DEF LedgerMatches, Content, Command, Written
    <3>1. CASE f = e
      BY <1>1, <2>6, <2>7, <3>1
    <3>2. CASE f # e
      BY <2>6, <2>7, <3>2 DEF LedgerMatches, Named
    <3> QED BY <3>1, <3>2
  <2>11. LedgerExplainsLicense'
    BY <1>1, <1>5, <2>2, WrittenExplains
  <2>12. SubscriptionRedeliveryIsAnswered'
    BY <2>1 DEF SubscriptionRedeliveryIsAnswered
  <2> QED BY <2>4, <2>5, <2>8, <2>9, <2>10, <2>11, <2>12
<1> QED BY <1>2, <1>3, <1>4, <1>5 DEF ApplyContent, Left

LEMMA InvoiceKeeps ==
  ASSUME LicenseInv, NEW w \in Workers, VerifyInvoice(w) \/ ApplyInvoice(w)
  PROVE  LicenseInv'
<1> DEFINE e == job[w].event
           s == events[e].sub
           read == Content(events[e].kind, billing[s].status, billing[s].cancel)
<1> USE DEF LicenseInv
<1>1. /\ job[w].at # "idle" /\ e \in Written /\ s \in Subs
      /\ UNCHANGED <<now, billing, events>>
      /\ events[e].kind \in {"paid", "unpaid"}
  BY DEF VerifyInvoice, ApplyInvoice, Named, JobsMatch
<1>2. CASE VerifyInvoice(w)
  <2>1. CASE Refuse(w)
    BY <1>1, <2>1, RefuseKeeps
  <2>2. CASE /\ Issued(s) /\ read.command # "none"
             /\ job' = [job EXCEPT ![w].at = "apply", ![w].content = read]
             /\ UNCHANGED <<acked, store, failures, refused>>
    <3>1. billing[s].status \in Statuses /\ billing[s].cancel \in BOOLEAN
      BY <1>1 DEF Typed, Named
    <3>2. read \in Contents /\ read.command \in Commands
      <4>1. events[e].kind \in Kinds \ {"checkout"}
        BY <1>1 DEF Kinds
      <4>2. /\ read.command = Command(events[e].kind, billing[s].status, billing[s].cancel)
            /\ read.command \in Commands \cup {"none"}
            /\ read.command \in Commands => read \in Contents
        <5> HIDE DEF LicenseInv, e, s
        <5> QED BY <3>1, <4>1, CommandTyped
      <4>3. read.command # "none"
        BY <2>2
      <4> HIDE DEF LicenseInv, read
      <4> QED BY <4>2, <4>3
    <3> DEFINE started == [job[w] EXCEPT !.at = "apply", !.content = read]
    <3>3. job' = [job EXCEPT ![w] = started]
      BY <2>2 DEF Typed
    <3>4. /\ started.at = "apply" /\ started.event = e /\ started.content = read
          /\ started.again = job[w].again
          /\ started \in [event : EventIds \cup {0}, at : {"idle", "verify", "commit", "apply"},
                          content : Contents \cup {NoContent}, start : 0..MaxTime,
                          again : BOOLEAN]
      <4>1. job[w] \in [event : EventIds \cup {0}, at : {"idle", "verify", "commit", "apply"},
                        content : Contents \cup {NoContent}, start : 0..MaxTime, again : BOOLEAN]
        BY DEF Typed
      <4> HIDE DEF LicenseInv, read
      <4> QED BY <3>2, <4>1
    <3> HIDE DEF started, read
    <3>5. Typed'
      <4>1. job' \in [Workers -> [event : EventIds \cup {0},
                                  at : {"idle", "verify", "commit", "apply"},
                                  content : Contents \cup {NoContent}, start : 0..MaxTime,
                                  again : BOOLEAN]]
        <5>1. job \in [Workers -> [event : EventIds \cup {0},
                                  at : {"idle", "verify", "commit", "apply"},
                                  content : Contents \cup {NoContent}, start : 0..MaxTime,
                                  again : BOOLEAN]]
          BY DEF Typed
        <5> HIDE DEF LicenseInv
        <5> QED BY <3>3, <3>4, <5>1
      <4> QED BY <1>1, <2>2, <4>1 DEF Typed, store
    <3>6. Named'
      <4>1. /\ Named /\ UNCHANGED <<events, billing, acked, refused>>
            /\ Written' = Written
        BY <1>1, <2>2 DEF Written
      <4>2. \A v \in Workers : job'[v].at # "idle" => job'[v].event \in Written
        BY <1>1, <3>3, <3>4 DEF Typed, Named
      <4> HIDE DEF LicenseInv
      <4> QED BY <4>1, <4>2 DEF Named
    <3>7. JobsMatch'
      <4>1. /\ JobsMatch /\ Issued(s)
            /\ UNCHANGED <<events, license, ledger>>
        BY <1>1, <2>2 DEF store
      <4>2. \A v \in Workers : job'[v] = IF v = w THEN started ELSE job[v]
        BY <3>3 DEF Typed
      <4> HIDE DEF LicenseInv
      <4> QED BY <1>1, <3>2, <3>4, <4>1, <4>2 DEF JobsMatch, Issued
    <3>8. SubscriptionRedeliveryIsAnswered'
      BY <1>1, <2>2 DEF SubscriptionRedeliveryIsAnswered
    <3> QED BY <1>1, <2>2, <3>5, <3>6, <3>7, <3>8, QuietKeeps
  <2> QED BY <1>2, <2>1, <2>2 DEF VerifyInvoice
<1>3. CASE ApplyInvoice(w)
  <2>1. /\ job[w].at = "apply" /\ ApplyContent(w, e, job[w].content)
        /\ job[w].content.command \in Commands /\ Issued(s)
    BY <1>3 DEF ApplyInvoice, JobsMatch
  <2>2. job[w].content \in Contents
    BY <2>1 DEF Typed, NoContent, Commands
  <2> QED BY <1>1, <2>1, <2>2, ApplyContentKeeps
<1> QED BY <1>2, <1>3

LEMMA ApplySubscriptionKeeps ==
  ASSUME LicenseInv, NEW w \in Workers, ApplySubscription(w)
  PROVE  LicenseInv'
<1> DEFINE e == job[w].event
           carried == Content(events[e].kind, events[e].status, events[e].cancel)
<1> USE DEF LicenseInv
<1>1. /\ job[w].at = "verify" /\ e \in Written /\ events[e].sub \in Subs
      /\ UNCHANGED <<now, billing, events>>
      /\ events[e].kind \in {"updated", "deleted"}
  BY DEF ApplySubscription, Named
<1>2. CASE Issued(events[e].sub)
  <2>1. events[e].status \in Statuses /\ events[e].cancel \in BOOLEAN
    BY <1>1 DEF Typed, EventRecords, Written
  <2>2. carried \in Contents
    BY <1>1, <2>1, CommandTyped DEF Kinds
  <2>3. ApplyContent(w, e, carried)
    BY <1>2 DEF ApplySubscription
  <2> QED BY <1>1, <1>2, <2>2, <2>3, ApplyContentKeeps
<1>3. CASE ~ Issued(events[e].sub)
  <2>1. ~ job[w].again
    BY <1>1, <1>3 DEF JobsMatch, LedgerMatches, Written
  <2>2. Refuse(w)
    BY <1>3 DEF ApplySubscription
  <2> QED BY <1>1, <2>1, <2>2, RefuseKeeps
<1> QED BY <1>2, <1>3

-----------------------------------------------------------------------------
(* The buyer and the administrator.                                        *)

LEMMA RedeemWrites ==
  ASSUME LicenseInv, NEW s \in Subs,
         checkout' = [checkout EXCEPT ![s].redeemed = TRUE]
  PROVE  /\ checkout' \in [Subs -> [event : EventIds \cup {0}, until : 0..(MaxTime + Ttl),
                                    redeemed : BOOLEAN]]
         /\ checkout'[s].redeemed = TRUE
         /\ \A t \in Subs \ {s} : checkout'[t] = checkout[t]
         /\ \A t \in Subs : checkout'[t].event = checkout[t].event
<1> DEFINE Deadlines == 0..(MaxTime + Ttl)
           Events == EventIds \cup {0}
           Rows == [event : Events, until : Deadlines, redeemed : BOOLEAN]
           handed == [checkout[s] EXCEPT !.redeemed = TRUE]
<1>1. checkout \in [Subs -> Rows]
  BY DEF LicenseInv, Typed
<1> HIDE DEF Events, Deadlines
<1>2. checkout[s] \in Rows
  BY <1>1
<1>3. handed \in Rows /\ handed.redeemed = TRUE /\ handed.event = checkout[s].event
  BY <1>2
<1> HIDE DEF handed
<1>4. checkout' = [checkout EXCEPT ![s] = handed]
  BY DEF handed
<1>5. checkout' \in [Subs -> Rows]
  <2> HIDE DEF Rows
  <2> QED BY <1>1, <1>3, <1>4
<1>6. checkout'[s] = handed /\ \A t \in Subs \ {s} : checkout'[t] = checkout[t]
  <2> HIDE DEF Rows
  <2> QED BY <1>1, <1>4
<1> QED BY <1>3, <1>5, <1>6 DEF Events, Deadlines

LEMMA RedeemKeeps ==
  ASSUME LicenseInv, NEW s \in Subs, Redeem(s)
  PROVE  LicenseInv'
<1> USE DEF LicenseInv
<1>1. /\ checkout' = [checkout EXCEPT ![s].redeemed = TRUE]
      /\ UNCHANGED <<now, billing, events, acked, license, ledger, job, failures, refused>>
  BY DEF Redeem, provider, service
<1>2. /\ checkout' \in [Subs -> [event : EventIds \cup {0}, until : 0..(MaxTime + Ttl),
                                 redeemed : BOOLEAN]]
      /\ \A t \in Subs : checkout'[t].event = checkout[t].event
  BY <1>1, RedeemWrites
<1>3. Typed'
  BY <1>1, <1>2 DEF Typed
<1>4. Named' /\ JobsMatch' /\ SubscriptionRedeliveryIsAnswered'
  BY <1>1 DEF Named, Written, JobsMatch, Issued, SubscriptionRedeliveryIsAnswered
<1>5. CheckoutsMatch'
  BY <1>1, <1>2 DEF CheckoutsMatch, Issued, Written
<1>6. LedgerMatches'
  BY <1>1 DEF LedgerMatches, Issued, Content, Command, Written
<1>7. LedgerExplainsLicense'
  BY <1>1 DEF LedgerExplainsLicense, Issued, AppliedTo
<1> QED BY <1>3, <1>4, <1>5, <1>6, <1>7

LEMMA RevokeByAdminKeeps ==
  ASSUME LicenseInv, NEW s \in Subs, RevokeByAdmin(s)
  PROVE  LicenseInv'
<1> USE DEF LicenseInv
<1>1. /\ license' = [license EXCEPT ![s].status = "revoked"] /\ Issued(s)
      /\ UNCHANGED <<now, billing, events, acked, checkout, ledger, job, failures, refused>>
  BY DEF RevokeByAdmin, provider, service
<1>2. /\ license' \in [Subs -> [status : {"none", "active", "revoked"}, expires : Times,
                                watermark : Times]]
      /\ \A t \in Subs : /\ license'[t].expires = license[t].expires
                         /\ license'[t].watermark = license[t].watermark
                         /\ license'[t].status = license[t].status
                              \/ license'[t].status = "revoked"
                         /\ Issued(t)' <=> Issued(t)
  <2>1. license \in [Subs -> [status : {"none", "active", "revoked"}, expires : Times,
                              watermark : Times]]
    BY DEF Typed
  <2>2. [license[s] EXCEPT !.status = "revoked"]
          = [status |-> "revoked", expires |-> license[s].expires,
             watermark |-> license[s].watermark]
    BY <2>1
  <2>3. license' = [license EXCEPT ![s] = [status |-> "revoked", expires |-> license[s].expires,
                                           watermark |-> license[s].watermark]]
    BY <1>1, <2>2
  <2>4. license[s].status # "none"
    BY <1>1 DEF Issued
  <2> QED BY <2>1, <2>3, <2>4 DEF Issued
<1>3. Typed'
  BY <1>1, <1>2 DEF Typed
<1>4. Named' /\ SubscriptionRedeliveryIsAnswered'
  BY <1>1 DEF Named, Written, SubscriptionRedeliveryIsAnswered
<1>5. JobsMatch'
  BY <1>1, <1>2 DEF JobsMatch, Named
<1>6. CheckoutsMatch'
  BY <1>1, <1>2 DEF CheckoutsMatch, Written
<1>7. LedgerMatches'
  BY <1>1, <1>2 DEF LedgerMatches, Content, Command, Written, Named
<1>8. LedgerExplainsLicense'
  BY <1>1, <1>2 DEF LedgerExplainsLicense, AppliedTo
<1> QED BY <1>3, <1>4, <1>5, <1>6, <1>7, <1>8

-----------------------------------------------------------------------------
(* The theorems.                                                           *)

LEMMA InitialLicense == Init => LicenseInv
<1> SUFFICES ASSUME Init PROVE LicenseInv
  OBVIOUS
<1> USE DEF Init
<1>1. Typed
  <2>1. NoEvent \in EventRecords
    BY TimesAreNumbers DEF NoEvent, EventRecords, Statuses
  <2>2. /\ NoLicense \in [status : {"none", "active", "revoked"}, expires : Times, watermark : Times]
        /\ NoCheckout \in [event : EventIds \cup {0}, until : 0..(MaxTime + Ttl),
                           redeemed : BOOLEAN]
    BY TimesAreNumbers, SubscriptionConstants DEF NoLicense, NoCheckout
  <2> QED BY <2>1, <2>2, IdleTyped, TimesAreNumbers, SubscriptionConstants DEF Typed
<1>2. Named
  BY IdleTyped DEF Named, Written, NoEvent
<1>3. JobsMatch
  BY IdleTyped DEF JobsMatch
<1>4. CheckoutsMatch /\ LedgerMatches
  BY DEF CheckoutsMatch, LedgerMatches, Issued, NoLicense, NoCheckout, NoContent
<1>5. LedgerExplainsLicense
  BY DEF LedgerExplainsLicense, Issued, NoLicense
<1>6. SubscriptionRedeliveryIsAnswered
  BY DEF SubscriptionRedeliveryIsAnswered
<1> QED BY <1>1, <1>2, <1>3, <1>4, <1>5, <1>6 DEF LicenseInv

LEMMA LicenseInvHolds == Spec => []LicenseInv
<1>1. LicenseInv /\ [Next]_vars => LicenseInv'
  <2> SUFFICES ASSUME LicenseInv, [Next]_vars PROVE LicenseInv'
    OBVIOUS
  <2>1. ASSUME NEW s \in Subs, Provider(s) \/ Redeem(s) \/ RevokeByAdmin(s) PROVE LicenseInv'
    BY <2>1, ProviderKeeps, RedeemKeeps, RevokeByAdminKeeps
  <2>2. ASSUME NEW w \in Workers, Handle(w) PROVE LicenseInv'
    BY <2>2, VerifyCheckoutKeeps, CommitCheckoutKeeps, InvoiceKeeps, ApplySubscriptionKeeps
       DEF Handle
  <2>3. ASSUME NEW w \in Workers, FailOnTheWay(w) \/ \E e \in EventIds : Deliver(w, e)
        PROVE  LicenseInv'
    BY <2>3, FailOnTheWayKeeps, DeliverKeeps
  <2>4. CASE UNCHANGED vars
    <3>1. UNCHANGED <<now, billing, events, store, acked, job, failures, refused>>
      BY <2>4 DEF vars, provider, service
    <3>2. Typed' /\ Named' /\ JobsMatch' /\ SubscriptionRedeliveryIsAnswered'
      BY <3>1 DEF LicenseInv, Typed, Named, Written, JobsMatch, Issued, store,
                  SubscriptionRedeliveryIsAnswered
    <3> QED BY <3>1, <3>2, QuietKeeps
  <2> QED BY <2>1, <2>2, <2>3, <2>4, TickKeeps DEF Next
<1> QED BY <1>1, InitialLicense, PTL DEF Spec

\* Every variable has its type; a license exists just when its checkout is fulfilled.
THEOREM TypeCorrect == Spec => []TypeOK
<1>1. LicenseInv => TypeOK
  BY DEF LicenseInv, TypeOK, Typed, Named, CheckoutsMatch, Written
<1> QED BY <1>1, LicenseInvHolds, PTL

\* The license is what its ledger says, in whatever order the webhook applied the events.
THEOREM LedgerExplainsLicenseHolds == Spec => []LedgerExplainsLicense
<1> QED BY LicenseInvHolds, PTL DEF LicenseInv

\* The webhook refuses no second delivery of an applied subscription or checkout event.
THEOREM SubscriptionRedeliveryIsAnsweredHolds == Spec => []SubscriptionRedeliveryIsAnswered
<1> QED BY LicenseInvHolds, PTL DEF LicenseInv

-----------------------------------------------------------------------------
(* The promise is kept.                                                    *)

\* Nothing that the promise speaks of changes.
PromiseUntouched == UNCHANGED Promised!entitlement

LEMMA UntouchedSteps ==
  ASSUME UNCHANGED license, \A t \in Subs : checkout'[t].redeemed = checkout[t].redeemed
  PROVE  PromiseUntouched
BY DEF PromiseUntouched, Promised!entitlement

\* What a step that writes one license is to the promise.
LEMMA RowSteps ==
  ASSUME Typed, Typed', NEW s \in Subs,
         \A t \in Subs \ {s} : license'[t] = license[t],
         \A t \in Subs : checkout'[t].redeemed = checkout[t].redeemed
  PROVE  /\ license[s].status = "none" /\ license'[s].status = "active" => Promised!Issue(s)
         /\ license[s].status = "active" /\ license'[s].status = "revoked" => Promised!Revoke(s)
         /\ license[s].status = "active" /\ license'[s].status = "active"
              /\ license'[s].expires > license[s].expires => Promised!Extend(s)
         /\ license'[s].status = license[s].status /\ license'[s].expires = license[s].expires
              => PromiseUntouched
<1> DEFINE statuses == [t \in Subs |-> license[t].status]
           expiries == [t \in Subs |-> license[t].expires]
           handed == [t \in Subs |-> checkout[t].redeemed]
<1>1. handed' = handed
  OBVIOUS
<1>2. statuses' = [statuses EXCEPT ![s] = license'[s].status]
  OBVIOUS
<1>3. expiries' = [expiries EXCEPT ![s] = expiries'[s]] /\ expiries'[s] = license'[s].expires
  OBVIOUS
<1>4. license'[s].expires \in Nat /\ license[s].expires \in Nat
  BY TimesAreNumbers DEF Typed
<1>5. ASSUME license[s].status = "none", license'[s].status = "active" PROVE Promised!Issue(s)
  BY <1>1, <1>2, <1>3, <1>4, <1>5 DEF Promised!Issue, Promised!SetExpiry
<1>6. ASSUME license[s].status = "active", license'[s].status = "revoked" PROVE Promised!Revoke(s)
  BY <1>1, <1>2, <1>3, <1>4, <1>6 DEF Promised!Revoke, Promised!SetExpiry
<1>7. ASSUME license[s].status = "active", license'[s].status = "active",
             license'[s].expires > license[s].expires
      PROVE  Promised!Extend(s)
  <2>1. license'[s].expires \in Nat \ 0..license[s].expires
    BY <1>4, <1>7
  <2>2. statuses' = statuses
    BY <1>2, <1>7
  <2> QED BY <1>1, <1>3, <1>7, <2>1, <2>2 DEF Promised!Extend, Promised!SetExpiry
<1>8. ASSUME license'[s].status = license[s].status, license'[s].expires = license[s].expires
      PROVE  PromiseUntouched
  BY <1>1, <1>2, <1>3, <1>8 DEF PromiseUntouched, Promised!entitlement
<1> QED BY <1>5, <1>6, <1>7, <1>8

\* A step that writes one license and lowers nothing but by a revocation.
LEMMA WriteSteps ==
  ASSUME Typed, Typed', NEW s \in Subs,
         \A t \in Subs \ {s} : license'[t] = license[t],
         \A t \in Subs : checkout'[t].redeemed = checkout[t].redeemed,
         \/ license[s].status = "none" /\ license'[s].status = "active"
         \/ license[s].status = "active" /\ license'[s].status = "revoked"
         \/ /\ license[s].status = "active" /\ license'[s].status = "active"
            /\ license'[s].expires >= license[s].expires
  PROVE  Promised!EntitlementNext \/ PromiseUntouched
<1>1. license'[s].expires \in Nat /\ license[s].expires \in Nat
  BY TimesAreNumbers DEF Typed
<1>2. Promised!Issue(s) \/ Promised!Revoke(s) \/ Promised!Extend(s) \/ PromiseUntouched
  BY <1>1, RowSteps
<1> QED BY <1>2 DEF Promised!EntitlementNext

LEMMA ApplyContentSteps ==
  ASSUME LicenseInv, Typed', NEW w \in Workers, job[w].at # "idle", NEW content \in Contents,
         ApplyContent(w, job[w].event, content)
  PROVE  Promised!EntitlementNext \/ PromiseUntouched
<1> DEFINE e == job[w].event
           s == events[e].sub
<1>1. e \in EventIds /\ s \in Subs /\ content.command \in Commands
  BY DEF LicenseInv, Named, Written, Contents
<1>2. CASE UNCHANGED store
  BY <1>2, UntouchedSteps DEF store
<1>3. CASE /\ Acceptable(e, content)
           /\ license' = [license EXCEPT ![s] = Left(s, e, content.command)]
           /\ UNCHANGED checkout
  <2>1. license[s].status = "active"
    BY <1>3 DEF Acceptable
  <2>2. license'[s] = Left(s, e, content.command) /\ \A t \in Subs \ {s} : license'[t] = license[t]
    BY <1>1, <1>3 DEF LicenseInv, Typed
  <2>3. \/ license'[s].status = "revoked"
        \/ license'[s].status = "active" /\ license'[s].expires >= license[s].expires
    BY <1>1, <2>1, <2>2, LeftRow DEF LicenseInv
  <2> QED BY <1>1, <1>3, <2>1, <2>2, <2>3, WriteSteps DEF LicenseInv
<1> QED BY <1>2, <1>3 DEF ApplyContent, Left, Refuse

LEMMA CommitCheckoutSteps ==
  ASSUME LicenseInv, Typed', NEW w \in Workers, CommitCheckout(w)
  PROVE  Promised!EntitlementNext \/ PromiseUntouched
<1> DEFINE e == job[w].event
           s == events[e].sub
<1>1. s \in Subs /\ e \in EventIds
  BY DEF LicenseInv, Named, CommitCheckout, Written
<1>2. CASE UNCHANGED store
  BY <1>2, UntouchedSteps DEF store
<1>3. CASE /\ ~ Issued(s)
           /\ license' = [license EXCEPT ![s] = IssuedRow(s)]
           /\ checkout' = [checkout EXCEPT ![s] = FulfilledRow(w, s, e)]
  <2> HIDE DEF s, e
  <2>1. /\ license[s].status = "none" /\ license'[s].status = "active"
        /\ \A t \in Subs \ {s} : license'[t] = license[t]
    BY <1>1, <1>3, IssueWrites DEF LicenseInv, Issued
  <2>2. \A t \in Subs : checkout'[t].redeemed = checkout[t].redeemed
    BY <1>1, <1>3, IssueWrites DEF LicenseInv
  <2> QED BY <1>1, <2>1, <2>2, WriteSteps DEF LicenseInv
<1> QED BY <1>2, <1>3 DEF CommitCheckout, Refuse, IssuedRow, FulfilledRow

LEMMA RedeemSteps ==
  ASSUME LicenseInv, NEW s \in Subs, Redeem(s)
  PROVE  Promised!EntitlementNext
<1> DEFINE handed == [t \in Subs |-> checkout[t].redeemed]
<1>1. UNCHANGED license /\ license[s].status = "active"
  BY DEF Redeem, Usable
<1>2. handed' = [handed EXCEPT ![s] = TRUE]
  <2>1. checkout' = [checkout EXCEPT ![s].redeemed = TRUE]
    BY DEF Redeem
  <2>2. /\ checkout'[s].redeemed = TRUE
        /\ \A t \in Subs \ {s} : checkout'[t] = checkout[t]
    BY <2>1, RedeemWrites
  <2> QED BY <2>2
<1>3. Promised!HandOut(s)
  BY <1>1, <1>2 DEF Promised!HandOut
<1> QED BY <1>3 DEF Promised!EntitlementNext

LEMMA RevokeByAdminSteps ==
  ASSUME LicenseInv, Typed', NEW s \in Subs, RevokeByAdmin(s)
  PROVE  Promised!EntitlementNext \/ PromiseUntouched
<1>1. /\ license'[s].status = "revoked" /\ license'[s].expires = license[s].expires
      /\ license[s].status \in {"active", "revoked"}
      /\ \A t \in Subs \ {s} : license'[t] = license[t]
      /\ UNCHANGED checkout
  BY DEF RevokeByAdmin, LicenseInv, Typed, Issued
<1>2. Promised!Revoke(s) \/ PromiseUntouched
  BY <1>1, RowSteps DEF LicenseInv
<1> QED BY <1>2 DEF Promised!EntitlementNext

\* Steps of deliveries that do not apply, commit or write.
LEMMA OtherSteps ==
  ASSUME \/ \E s \in Subs : Provider(s)
         \/ \E w \in Workers :
              \/ VerifyCheckout(w) \/ VerifyInvoice(w) \/ FailOnTheWay(w)
              \/ \E e \in EventIds : Deliver(w, e)
         \/ Tick
         \/ UNCHANGED vars
  PROVE  PromiseUntouched
<1>1. UNCHANGED store
  BY DEF Provider, Subscribe, Pay, MissPayment, FallPastDue, ScheduleCancellation,
         EndSubscription, Emit, VerifyCheckout, VerifyInvoice, Refuse, FailOnTheWay, Deliver,
         Tick, vars
<1> QED BY <1>1, UntouchedSteps DEF store

\* The webhook, the redemption and the administrator keep the promise of Entitlement.
THEOREM PromiseIsKept == Spec => KeepsPromise
<1>1. Init => Promised!EntitlementInit
  BY DEF Init, Promised!EntitlementInit, NoLicense, NoCheckout
<1>2. LicenseInv /\ LicenseInv' /\ [Next]_vars
        => [Promised!EntitlementNext]_(Promised!entitlement)
  <2> SUFFICES ASSUME LicenseInv, Typed', [Next]_vars
               PROVE  Promised!EntitlementNext \/ PromiseUntouched
    BY DEF LicenseInv, PromiseUntouched, Promised!entitlement
  <2>1. ASSUME NEW w \in Workers, ApplyInvoice(w)
        PROVE  Promised!EntitlementNext \/ PromiseUntouched
    <3>1. /\ job[w].at = "apply" /\ job[w].content.command \in Commands
          /\ ApplyContent(w, job[w].event, job[w].content)
      BY <2>1 DEF ApplyInvoice, LicenseInv, JobsMatch
    <3>2. job[w].content \in Contents \cup {NoContent}
      BY DEF LicenseInv, Typed
    <3>3. job[w].content \in Contents
      BY <3>1, <3>2 DEF NoContent, Commands
    <3> QED BY <3>1, <3>3, ApplyContentSteps
  <2>2. ASSUME NEW w \in Workers, ApplySubscription(w)
        PROVE  Promised!EntitlementNext \/ PromiseUntouched
    <3> DEFINE e == job[w].event
               carried == Content(events[e].kind, events[e].status, events[e].cancel)
    <3>1. CASE Issued(events[e].sub)
      <4>1. /\ events[e].kind \in {"updated", "deleted"} /\ job[w].at # "idle"
            /\ e \in EventIds
        BY <2>2 DEF ApplySubscription, LicenseInv, Named, Written
      <4>2. events[e] \in EventRecords
        BY <4>1 DEF LicenseInv, Typed
      <4>3. events[e].status \in Statuses /\ events[e].cancel \in BOOLEAN
        BY <4>2 DEF EventRecords
      <4>4. carried \in Contents
        BY <4>1, <4>3, CommandTyped DEF Kinds
      <4> QED BY <2>2, <3>1, <4>1, <4>4, ApplyContentSteps DEF ApplySubscription
    <3>2. CASE ~ Issued(events[e].sub)
      BY <2>2, <3>2, UntouchedSteps DEF ApplySubscription, Refuse, store
    <3> QED BY <3>1, <3>2
  <2>3. ASSUME NEW w \in Workers, CommitCheckout(w)
        PROVE  Promised!EntitlementNext \/ PromiseUntouched
    BY <2>3, CommitCheckoutSteps
  <2>4. ASSUME NEW s \in Subs, Redeem(s) \/ RevokeByAdmin(s)
        PROVE  Promised!EntitlementNext \/ PromiseUntouched
    BY <2>4, RedeemSteps, RevokeByAdminSteps
  <2> QED BY <2>1, <2>2, <2>3, <2>4, OtherSteps DEF Next, Handle
<1> QED BY <1>1, <1>2, LicenseInvHolds, PTL DEF Spec, KeepsPromise, Promised!EntitlementSpec
==============================================================================
