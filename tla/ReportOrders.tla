---------------------------- MODULE ReportOrders ----------------------------
(***************************************************************************)
(* Paid report orders: checkout, payment webhooks, fulfilment and refunds, *)
(* as they run against the PostgreSQL stores.                              *)
(*                                                                         *)
(* A request is a sequence of independently committed statements, so other *)
(* requests run between any two of them.  Inside one API process the       *)
(* webhook route is an `async def` that never awaits after reading the     *)
(* body: the process's event loop handles one webhook at a time, and is    *)
(* itself the handler.  The order routes are plain `def` and run on the    *)
(* process's thread pool.  Each mark_* call of the order store selects the *)
(* row, tests its status and then updates it, with no lock in between: a   *)
(* guard may look at a status that another session has replaced.           *)
(***************************************************************************)
EXTENDS Naturals, FiniteSets

CONSTANTS
    Orders,         \* report orders
    Processes,      \* API processes; each one's event loop handles webhooks
    Threads,        \* thread-pool slots that run the order routes
    ProcessOf,      \* the process a handler lives in
    Notifications,  \* what the payment provider may send
    ReportIds,      \* identities of generated reports (bounds their number)
    MockPay,        \* whether /mock-pay is enabled (local, development, test)
    MaxFaults,      \* bound on requests that die before they finish
    None

Handlers == Processes \cup Threads

Statuses == {"absent", "unpaid", "paid", "fulfilled", "canceled", "failed", "refunded"}
Actions  == {"paid", "failed", "refunded", "ignored"}
Outcomes == {"processed", "ignored", "rejected"}
PCs      == {"idle", "checkout", "created", "verify", "load", "apply", "refresh",
             "generate", "reload", "attach", "record"}

\* A verified webhook: the provider's event id, the order it names (None when
\* it names none the store knows), the lifecycle action its type and status
\* stand for, whether the amount and currency it states, if any, are the
\* order's, and whose checkout reference it carries.
NotificationType ==
    [event: STRING, order: Orders \cup {None}, action: Actions,
     priced: BOOLEAN, ref: {"none", "own", "foreign"}]

ASSUME ConstantsAssumption ==
    /\ IsFiniteSet(Processes) /\ Processes \cap Threads = {}
    /\ ProcessOf \in [Handlers -> Processes]
    /\ \A p \in Processes : ProcessOf[p] = p
    /\ Notifications \subseteq NotificationType
    /\ \A m, n \in Notifications : m.event = n.event => m = n
    /\ \A n \in Notifications : n.event # None
    /\ None \notin Orders /\ None \notin ReportIds /\ None \notin Notifications
    /\ None \notin Outcomes
    /\ MockPay \in BOOLEAN
    /\ MaxFaults \in Nat

Events == {n.event : n \in Notifications}

VARIABLES
    status,         \* report_orders.status ("absent": no such row)
    reportOf,       \* report_orders.generated_report_id
    checkoutKnown,  \* a checkout_created event with a reference is stored
    reports,        \* generated_reports: the paid_order_id and cause of a row
    webhookEvents,  \* payment_webhook_events: the outcome recorded per event id
    req,            \* the request each handler is working on
    available,      \* orders whose listing, draft or area still exists
    session,        \* provider: orders it has a checkout session for
    sent,           \* provider: notifications it has sent at least once
    acked,          \* provider: notifications answered with 2xx
    mockPaid,       \* orders somebody called /mock-pay for
    faults          \* requests that died so far

storeVars == <<status, reportOf, checkoutKnown, reports, webhookEvents>>
providerVars == <<session, sent, acked>>
vars == <<status, reportOf, checkoutKnown, reports, webhookEvents, req,
          available, session, sent, acked, mockPaid, faults>>

Request == [pc: PCs, order: Orders \cup {None}, note: Notifications \cup {None},
            row: Statuses, report: ReportIds \cup {None}, outcome: Outcomes]

Idle == [pc |-> "idle", order |-> None, note |-> None, row |-> "absent",
         report |-> None, outcome |-> "processed"]

NoRow == [order |-> None, event |-> None]

TypeOK ==
    /\ status \in [Orders -> Statuses]
    /\ reportOf \in [Orders -> ReportIds \cup {None}]
    /\ checkoutKnown \in [Orders -> BOOLEAN]
    /\ reports \in [ReportIds -> [order: Orders \cup {None}, event: Events \cup {None}]]
    /\ webhookEvents \in [Events -> Outcomes \cup {None}]
    /\ req \in [Handlers -> Request]
    /\ available \subseteq Orders
    /\ session \subseteq Orders
    /\ sent \subseteq Notifications
    /\ acked \subseteq Notifications
    /\ mockPaid \subseteq Orders
    /\ faults \in 0..MaxFaults

Init ==
    /\ status = [o \in Orders |-> "absent"]
    /\ reportOf = [o \in Orders |-> None]
    /\ checkoutKnown = [o \in Orders |-> FALSE]
    /\ reports = [r \in ReportIds |-> NoRow]
    /\ webhookEvents = [e \in Events |-> None]
    /\ req = [h \in Handlers |-> Idle]
    /\ available = Orders
    /\ session = {}
    /\ sent = {}
    /\ acked = {}
    /\ mockPaid = {}
    /\ faults = 0

-----------------------------------------------------------------------------
(* The store's status writes.  `cached` is the status in the row that the   *)
(* call selected just before.  Assigning the value the row already has is no *)
(* change to the ORM, which leaves the column out of the UPDATE.             *)

\* Mutant of PaidBlocked: a fulfilled order can be marked paid again.
MutantPaidBlocked == {"canceled", "failed", "refunded"}

PaidBlocked     == {"fulfilled", "canceled", "failed", "refunded"}
FailedBlocked   == {"fulfilled", "canceled", "refunded"}
RefundedBlocked == {"canceled"}

Mark(o, cached, new, blocked) ==
    status' = IF cached \in blocked \/ cached = new
              THEN status ELSE [status EXCEPT ![o] = new]

MarkPaid(o, cached)     == Mark(o, cached, "paid", PaidBlocked)
MarkFailed(o, cached)   == Mark(o, cached, "failed", FailedBlocked)
MarkRefunded(o, cached) == Mark(o, cached, "refunded", RefundedBlocked)

\* Mutant of MarkFulfilled: the report id is not stored.
MutantMarkFulfilled(o, cached, r) ==
    /\ Mark(o, cached, "fulfilled", {})
    /\ UNCHANGED reportOf

\* Unconditional: no status is looked at.
MarkFulfilled(o, cached, r) ==
    /\ Mark(o, cached, "fulfilled", {})
    /\ reportOf' = [reportOf EXCEPT ![o] = r]

\* Mutant of RecordWebhookEvent: the handled event is forgotten.
MutantRecordWebhookEvent(e, outcome) == UNCHANGED webhookEvents

\* Insert unless the unique (provider, event id) row is there already.
RecordWebhookEvent(e, outcome) ==
    webhookEvents' = IF webhookEvents[e] = None
                     THEN [webhookEvents EXCEPT ![e] = outcome]
                     ELSE webhookEvents

Finish(h) == req' = [req EXCEPT ![h] = Idle]

-----------------------------------------------------------------------------
(* POST /report-orders, on a thread.                                        *)

CreateOrder(t, o) ==
    /\ req[t].pc = "idle"
    /\ status[o] = "absent"
    /\ o \in available
    /\ status' = [status EXCEPT ![o] = "unpaid"]
    /\ req' = [req EXCEPT ![t] = [Idle EXCEPT !.pc = "checkout", !.order = o]]
    /\ UNCHANGED <<reportOf, checkoutKnown, reports, webhookEvents, available,
                   providerVars, mockPaid, faults>>

\* The provider opens a checkout session.  An error answer ends the request
\* with 503 and an unpaid order that has no session.
OpenCheckout(t) ==
    LET o == req[t].order IN
    /\ req[t].pc = "checkout"
    /\ \/ /\ session' = session \cup {o}
          /\ req' = [req EXCEPT ![t].pc = "created"]
       \/ /\ UNCHANGED session
          /\ Finish(t)
    /\ UNCHANGED <<storeVars, available, sent, acked, mockPaid, faults>>

\* set_checkout_url and the checkout_created event.  A PayU answer need not
\* carry an order id: then no reference is stored.
RecordCheckout(t) ==
    /\ req[t].pc = "created"
    /\ \E known \in BOOLEAN :
          checkoutKnown' = [checkoutKnown EXCEPT ![req[t].order] = known]
    /\ Finish(t)
    /\ UNCHANGED <<status, reportOf, reports, webhookEvents, available,
                   providerVars, mockPaid, faults>>

-----------------------------------------------------------------------------
(* POST /payment-webhooks/{provider}, on the event loop of process p.       *)

\* The provider sends, or sends again; a recorded event is answered at once.
ReceiveWebhook(p, n) ==
    /\ req[p].pc = "idle"
    /\ n.order # None => n.order \in session
    /\ sent' = sent \cup {n}
    /\ IF webhookEvents[n.event] # None
       THEN /\ acked' = acked \cup {n}
            /\ UNCHANGED req
       ELSE /\ req' = [req EXCEPT ![p] =
                  IF n.order = None
                  THEN [Idle EXCEPT !.pc = "record", !.note = n, !.outcome = "ignored"]
                  ELSE [Idle EXCEPT !.pc = "verify", !.note = n, !.order = n.order]]
            /\ UNCHANGED acked
    /\ UNCHANGED <<storeVars, available, session, mockPaid, faults>>

\* Mutant of Rejected: amount and currency are not compared.
MutantRejected(n) == n.ref = "foreign" /\ checkoutKnown[n.order]

\* _payment_webhook_rejection_reason
Rejected(n) == \/ ~n.priced
               \/ n.ref = "foreign" /\ checkoutKnown[n.order]

VerifyNotification(p) ==
    LET n == req[p].note IN
    /\ req[p].pc = "verify"
    /\ req' = [req EXCEPT ![p] =
          IF Rejected(n)
          THEN [@ EXCEPT !.pc = "record", !.outcome = "rejected"]
          ELSE IF n.action = "ignored"
          THEN [@ EXCEPT !.pc = "record", !.outcome = "ignored"]
          ELSE [@ EXCEPT !.pc = "load"]]
    /\ UNCHANGED <<storeVars, available, providerVars, mockPaid, faults>>

\* The SELECT at the start of mark_paid, mark_failed and mark_refunded ...
LoadOrder(h) ==
    /\ req[h].pc = "load"
    /\ req' = [req EXCEPT ![h].pc = "apply", ![h].row = status[req[h].order]]
    /\ UNCHANGED <<storeVars, available, providerVars, mockPaid, faults>>

\* Mutant of ApplyPaid: every order mark_paid refuses counts as dealt with.
MutantApplyPaid(p) ==
    LET cached == req[p].row IN
    /\ req[p].pc = "apply" /\ req[p].note # None /\ req[p].note.action = "paid"
    /\ MarkPaid(req[p].order, cached)
    /\ req' = [req EXCEPT ![p].pc = IF cached \notin PaidBlocked THEN "refresh" ELSE "record"]
    /\ UNCHANGED <<reportOf, checkoutKnown, reports, webhookEvents, available,
                   providerVars, mockPaid, faults>>

\* ... and their UPDATE.  A refused mark_paid hands the row it selected to the
\* webhook, which then generates a report unless that row is fulfilled.
ApplyPaid(p) ==
    LET cached == req[p].row IN
    /\ req[p].pc = "apply" /\ req[p].note # None /\ req[p].note.action = "paid"
    /\ MarkPaid(req[p].order, cached)
    /\ req' = [req EXCEPT ![p].pc = IF cached \notin PaidBlocked THEN "refresh"
                                   ELSE IF cached = "fulfilled" THEN "record"
                                   ELSE "generate"]
    /\ UNCHANGED <<reportOf, checkoutKnown, reports, webhookEvents, available,
                   providerVars, mockPaid, faults>>

\* mark_paid reads the row back after its commit and returns that.
RefreshPaid(p) ==
    LET row == status[req[p].order] IN
    /\ req[p].pc = "refresh"
    /\ req' = [req EXCEPT ![p].row = row,
                          ![p].pc = IF row = "fulfilled" THEN "record" ELSE "generate"]
    /\ UNCHANGED <<storeVars, available, providerVars, mockPaid, faults>>

ApplyFailed(p) ==
    /\ req[p].pc = "apply" /\ req[p].note # None /\ req[p].note.action = "failed"
    /\ MarkFailed(req[p].order, req[p].row)
    /\ req' = [req EXCEPT ![p].pc = "record"]
    /\ UNCHANGED <<reportOf, checkoutKnown, reports, webhookEvents, available,
                   providerVars, mockPaid, faults>>

\* Mutant of ApplyRefunded: the refund takes the report reference away.
MutantApplyRefunded(p) ==
    LET o == req[p].order IN
    /\ req[p].pc = "apply" /\ req[p].note # None /\ req[p].note.action = "refunded"
    /\ MarkRefunded(o, req[p].row)
    /\ reportOf' = [reportOf EXCEPT ![o] = IF status[o] = "fulfilled" THEN None ELSE @]
    /\ req' = [req EXCEPT ![p].pc = "record"]
    /\ UNCHANGED <<checkoutKnown, reports, webhookEvents, available,
                   providerVars, mockPaid, faults>>

ApplyRefunded(p) ==
    /\ req[p].pc = "apply" /\ req[p].note # None /\ req[p].note.action = "refunded"
    /\ MarkRefunded(req[p].order, req[p].row)
    /\ req' = [req EXCEPT ![p].pc = "record"]
    /\ UNCHANGED <<reportOf, checkoutKnown, reports, webhookEvents, available,
                   providerVars, mockPaid, faults>>

\* Mutant of Acknowledge: the lifecycle action is stored for the outcome.
MutantAcknowledge(p) ==
    /\ req[p].pc = "record"
    /\ RecordWebhookEvent(req[p].note.event, req[p].note.action)
    /\ acked' = acked \cup {req[p].note}
    /\ Finish(p)
    /\ UNCHANGED <<status, reportOf, checkoutKnown, reports, available, session,
                   sent, mockPaid, faults>>

Acknowledge(p) ==
    /\ req[p].pc = "record"
    /\ RecordWebhookEvent(req[p].note.event, req[p].outcome)
    /\ acked' = acked \cup {req[p].note}
    /\ Finish(p)
    /\ UNCHANGED <<status, reportOf, checkoutKnown, reports, available, session,
                   sent, mockPaid, faults>>

-----------------------------------------------------------------------------
(* Report generation and fulfilment, shared by the webhook and /fulfill.    *)

\* POST /report-orders/{order_id}/fulfill: only a paid order goes on; a
\* fulfilled one is returned as it is and any other is answered with 402.
StartFulfil(t, o) ==
    /\ req[t].pc = "idle"
    /\ status[o] = "paid"
    /\ req' = [req EXCEPT ![t] = [Idle EXCEPT !.pc = "generate", !.order = o]]
    /\ UNCHANGED <<storeVars, available, providerVars, mockPaid, faults>>

CauseOf(h) == IF req[h].note = None THEN None ELSE req[h].note.event

FreshIds == {r \in ReportIds : reports[r] = NoRow}

\* The report row, with a new uuid, is committed by the report store's own session.
GenerateReport(h) ==
    /\ req[h].pc = "generate"
    /\ req[h].order \in available
    /\ FreshIds # {}
    /\ LET r == CHOOSE id \in FreshIds : TRUE IN
          /\ reports' = [reports EXCEPT ![r] = [order |-> req[h].order,
                                                event |-> CauseOf(h)]]
          /\ req' = [req EXCEPT ![h].pc = "reload", ![h].report = r]
    /\ UNCHANGED <<status, reportOf, checkoutKnown, webhookEvents, available,
                   providerVars, mockPaid, faults>>

\* The listing, draft or area is gone: 404, and nothing is recorded.
SubjectGone(h) ==
    /\ req[h].pc = "generate"
    /\ req[h].order \notin available
    /\ Finish(h)
    /\ UNCHANGED <<storeVars, available, providerVars, mockPaid, faults>>

\* mark_fulfilled: its SELECT, then its UPDATE.
ReloadOrder(h) ==
    /\ req[h].pc = "reload"
    /\ req' = [req EXCEPT ![h].pc = "attach", ![h].row = status[req[h].order]]
    /\ UNCHANGED <<storeVars, available, providerVars, mockPaid, faults>>

AttachReport(h) ==
    /\ req[h].pc = "attach"
    /\ MarkFulfilled(req[h].order, req[h].row, req[h].report)
    /\ req' = [req EXCEPT ![h] = IF h \in Processes THEN [@ EXCEPT !.pc = "record"]
                                                    ELSE Idle]
    /\ UNCHANGED <<checkoutKnown, reports, webhookEvents, available,
                   providerVars, mockPaid, faults>>

\* POST /report-orders/{order_id}/mock-pay: mark_paid, on a thread.
StartMockPay(t, o) ==
    /\ MockPay
    /\ req[t].pc = "idle"
    /\ status[o] # "absent"
    /\ req' = [req EXCEPT ![t] = [Idle EXCEPT !.pc = "load", !.order = o]]
    /\ mockPaid' = mockPaid \cup {o}
    /\ UNCHANGED <<storeVars, available, providerVars, faults>>

ApplyMockPay(t) ==
    /\ req[t].pc = "apply" /\ req[t].note = None
    /\ MarkPaid(req[t].order, req[t].row)
    /\ Finish(t)
    /\ UNCHANGED <<reportOf, checkoutKnown, reports, webhookEvents,
                   available, providerVars, mockPaid, faults>>

-----------------------------------------------------------------------------
(* The environment.                                                         *)

\* The owner deletes the draft, or the listing leaves the repository.
RemoveSubject(o) ==
    /\ o \in available
    /\ available' = available \ {o}
    /\ UNCHANGED <<storeVars, req, providerVars, mockPaid, faults>>

\* A store, provider or insight call raises: the request answers 5xx.
RequestFails(h) ==
    /\ req[h].pc # "idle"
    /\ faults < MaxFaults
    /\ faults' = faults + 1
    /\ Finish(h)
    /\ UNCHANGED <<storeVars, available, providerVars, mockPaid>>

\* A process restarts and loses every request it was working on.
ProcessCrashes(p) ==
    /\ faults < MaxFaults
    /\ \E h \in Handlers : ProcessOf[h] = p /\ req[h].pc # "idle"
    /\ faults' = faults + 1
    /\ req' = [h \in Handlers |-> IF ProcessOf[h] = p THEN Idle ELSE req[h]]
    /\ UNCHANGED <<storeVars, available, providerVars, mockPaid>>

WebhookStep(p) ==
    \/ VerifyNotification(p)
    \/ LoadOrder(p)
    \/ ApplyPaid(p)
    \/ RefreshPaid(p)
    \/ ApplyFailed(p)
    \/ ApplyRefunded(p)
    \/ Acknowledge(p)

ThreadStep(t) ==
    \/ OpenCheckout(t)
    \/ RecordCheckout(t)
    \/ LoadOrder(t)
    \/ ApplyMockPay(t)

ReportStep(h) ==
    \/ GenerateReport(h)
    \/ SubjectGone(h)
    \/ ReloadOrder(h)
    \/ AttachReport(h)

Next ==
    \/ \E p \in Processes : WebhookStep(p) \/ ProcessCrashes(p)
    \/ \E p \in Processes, n \in Notifications : ReceiveWebhook(p, n)
    \/ \E t \in Threads : ThreadStep(t)
    \/ \E t \in Threads, o \in Orders :
          CreateOrder(t, o) \/ StartFulfil(t, o) \/ StartMockPay(t, o)
    \/ \E h \in Handlers : ReportStep(h) \/ RequestFails(h)
    \/ \E o \in Orders : RemoveSubject(o)

Spec == Init /\ [][Next]_vars

\* A running handler makes progress, and the provider repeats a notification
\* until some process answers it with 2xx.
Fairness ==
    /\ \A p \in Processes : WF_vars(WebhookStep(p))
    /\ \A t \in Threads : WF_vars(ThreadStep(t))
    /\ \A h \in Handlers : WF_vars(ReportStep(h))
    /\ \A n \in Notifications :
          SF_vars(n \in sent \ acked /\ \E p \in Processes : ReceiveWebhook(p, n))

FairSpec == Spec /\ Fairness

-----------------------------------------------------------------------------
(* Properties.                                                              *)

\* The provider has told us of a payment of the right amount and currency, or
\* somebody has paid with /mock-pay.
Settled(o) ==
    \/ \E n \in sent : n.order = o /\ n.action = "paid" /\ n.priced
    \/ o \in mockPaid

\* Nobody gets a report, or a paid order, without a payment that matches the
\* order: whatever mixture of failed, refunded, mispriced, duplicated and
\* concurrent webhooks arrives (receive_payment_webhook, fulfill_report_order).
NoReportWithoutPayment ==
    \A o \in Orders :
        status[o] \in {"paid", "fulfilled"} \/ reportOf[o] # None
            => Settled(o)

\* generated_report_id always names a stored report generated for that very
\* order, and a fulfilled order always has one, although the report and the
\* order are committed by different sessions and a request may die between.
ReportReferenceValid ==
    \A o \in Orders :
        /\ reportOf[o] # None => reports[reportOf[o]].order = o
        /\ status[o] = "fulfilled" => reportOf[o] # None

\* A paid event is recorded only after its order got its report: the record
\* makes every redelivery a no-op, so a crash may leave a report unrecorded
\* but must never leave a recorded payment without a report.
RecordedPaymentDelivered ==
    \A n \in Notifications :
        webhookEvents[n.event] = "processed" /\ n.action = "paid"
            => reportOf[n.order] # None

\* The order is closed once a payment event of it is recorded as processed.
Closed(o) == \E n \in Notifications :
    n.order = o /\ n.action = "paid" /\ webhookEvents[n.event] = "processed"

Delivery == INSTANCE PaidDelivery WITH
    settled   <- {o \in Orders : Settled(o)},
    delivered <- {o \in Orders : reportOf[o] # None},
    closed    <- {o \in Orders : Closed(o)}

\* The requests, stores and webhooks implement the paid-delivery promise: a
\* report only after a matching payment, never withdrawn, and a payment event
\* recorded (which makes its redelivery a no-op) only after the report.
ImplementsPaidDelivery == Delivery!Spec

\* However often, and to whichever processes, the provider delivers one payment event,
\* its webhooks store at most one report per process, plus one for every request that
\* died: an event loop handles one webhook at a time, and the event is recorded after
\* the report.  The bound is per event.  A payment may get more: another paid event of
\* it, or a /fulfill beside the webhook, stores a report of its own without any fault.
ReportsOf(e) == {r \in ReportIds : reports[r].event = e}
RepeatsBoundedByFaults ==
    \A e \in Events : Cardinality(ReportsOf(e)) <= Cardinality(Processes) + faults

\* A fulfilled order is never taken back to paid or unpaid by a late or
\* duplicate paid event, although mark_paid tests a status it read earlier.
\* /mock-pay, a second writer of "paid", breaks this, so it is for production.
FulfilledNeverReopens ==
    [][\A o \in Orders : status[o] = "fulfilled" => status'[o] \notin {"unpaid", "paid"}]_vars

\* The provider repeats an unanswered notification, so a matching payment of
\* an order whose subject stays available is followed by its report even if
\* requests die along the way.
PaymentEventuallyDelivered ==
    \A n \in {m \in Notifications : m.order # None} :
        (n \in sent /\ n.action = "paid" /\ n.priced /\ n.ref # "foreign")
            ~> (reportOf[n.order] # None \/ n.order \notin available)

-----------------------------------------------------------------------------
(* What the documentation says and the code does not keep.                  *)

\* "Refund events move the order to `refunded` and keep the generated report
\* reference for auditability" (docs/WartoMetr_Phase_8_Implementation.md:27): no
\* webhook that comes after the refund replaces the report of a refunded order.
RefundKeepsReference ==
    [][\A p \in Processes :
          AttachReport(p) /\ status[req[p].order] = "refunded"
                          /\ reportOf[req[p].order] # None
              => UNCHANGED reportOf]_vars
=============================================================================
