-------------------------- MODULE ReportOrdersProofs --------------------------
(* Proofs about ReportOrders, for every set of orders, handlers,             *)
(* notifications and report ids.                                             *)
EXTENDS ReportOrders, FiniteSetTheorems, TLAPS

\* A request that is past its first lookup and not merely recording names a
\* stored order, so the status it selects is a status; and what a process's
\* event loop works on is a webhook.
Formed(h, q) ==
    /\ q.pc \notin {"idle", "record"} => q.order \in Orders
    /\ h \in Processes /\ q.pc # "idle" => q.note # None

WellFormed == \A h \in Handlers : Formed(h, req[h])

TypeInv == TypeOK /\ WellFormed

\* A handler moving on to a well-formed request keeps all requests well formed.
LEMMA RequestUpdate ==
    ASSUME req \in [Handlers -> Request], WellFormed,
           NEW h \in Handlers, NEW q \in Request, Formed(h, q),
           req' = [req EXCEPT ![h] = q]
    PROVE  req' \in [Handlers -> Request] /\ WellFormed'
BY DEF WellFormed, Formed

\* A handler between two requests is a well-formed one.
LEMMA IdleIsRequest == Idle \in Request /\ \A h : Formed(h, Idle)
BY DEF Idle, Request, PCs, Statuses, Outcomes, Formed

\* What TypeInv says of one request.
LEMMA RequestFacts ==
    ASSUME TypeInv, NEW h \in Handlers
    PROVE  /\ req[h] \in Request
           /\ req[h].pc \in PCs
           /\ req[h].order \in Orders \cup {None}
           /\ req[h].note \in Notifications \cup {None}
           /\ req[h].row \in Statuses
           /\ req[h].report \in ReportIds \cup {None}
           /\ req[h].outcome \in Outcomes
           /\ req[h].pc \notin {"idle", "record"} => req[h].order \in Orders
           /\ h \in Processes /\ req[h].pc # "idle" => req[h].note # None
BY DEF TypeInv, TypeOK, Request, WellFormed, Formed

\* A guarded status write leaves statuses behind.
LEMMA MarkType ==
    ASSUME status \in [Orders -> Statuses], NEW o, NEW cached, NEW new \in Statuses,
           NEW blocked, Mark(o, cached, new, blocked)
    PROVE  status' \in [Orders -> Statuses]
BY DEF Mark

\* Every step keeps the types; one case per action.
LEMMA TypeStep == TypeInv /\ [Next]_vars => TypeInv'
<1>0. SUFFICES ASSUME TypeInv, [Next]_vars PROVE TypeInv'
  OBVIOUS
<1> USE DEF storeVars, providerVars
<1>a. Processes \subseteq Handlers /\ Threads \subseteq Handlers
  BY DEF Handlers
<1>b. TypeOK /\ WellFormed /\ req \in [Handlers -> Request]
  BY <1>0 DEF TypeInv, TypeOK
<1>1. ASSUME NEW p \in Processes, VerifyNotification(p) PROVE TypeInv'
  <2> DEFINE q == IF Rejected(req[p].note)
                  THEN [req[p] EXCEPT !.pc = "record", !.outcome = "rejected"]
                  ELSE IF req[p].note.action = "ignored"
                  THEN [req[p] EXCEPT !.pc = "record", !.outcome = "ignored"]
                  ELSE [req[p] EXCEPT !.pc = "load"]
  <2>0. req[p] \in Request /\ req[p].order \in Orders /\ (p \in Processes => req[p].note # None)
    BY <1>1, <1>0, <1>a, <1>b, RequestFacts DEF VerifyNotification, TypeOK
  <2>1. q \in Request /\ Formed(p, q)
    BY <2>0 DEF Request, PCs, Outcomes, Statuses, Formed
  <2>2. req' = [req EXCEPT ![p] = q]
    BY <1>1 DEF VerifyNotification
  <2> HIDE DEF q
  <2>3. req' \in [Handlers -> Request] /\ WellFormed'
    BY <1>a, <1>b, <2>0, <2>1, <2>2, RequestUpdate
  <2> QED
    BY <1>1, <1>b, <2>3 DEF VerifyNotification, TypeInv, TypeOK
<1>2. ASSUME NEW h \in Handlers, LoadOrder(h) PROVE TypeInv'
  <2> DEFINE q == [req[h] EXCEPT !.pc = "apply", !.row = status[req[h].order]]
  <2>0. req[h] \in Request /\ req[h].order \in Orders /\ (h \in Processes => req[h].note # None) /\ status[req[h].order] \in Statuses
    BY <1>2, <1>0, <1>a, <1>b, RequestFacts DEF LoadOrder, TypeOK
  <2>1. q \in Request /\ Formed(h, q)
    BY <2>0 DEF Request, PCs, Outcomes, Statuses, Formed
  <2>2. req' = [req EXCEPT ![h] = q]
    BY <1>2 DEF LoadOrder
  <2> HIDE DEF q
  <2>3. req' \in [Handlers -> Request] /\ WellFormed'
    BY <1>a, <1>b, <2>0, <2>1, <2>2, RequestUpdate
  <2> QED
    BY <1>2, <1>b, <2>3 DEF LoadOrder, TypeInv, TypeOK
<1>3. ASSUME NEW p \in Processes, ApplyPaid(p) PROVE TypeInv'
  <2> DEFINE q == [req[p] EXCEPT !.pc =
                    IF req[p].row \notin PaidBlocked THEN "refresh"
                    ELSE IF req[p].row = "fulfilled" THEN "record" ELSE "generate"]
  <2>0. req[p] \in Request /\ req[p].order \in Orders /\ (p \in Processes => req[p].note # None)
    BY <1>3, <1>0, <1>a, <1>b, RequestFacts DEF ApplyPaid, TypeOK
  <2>1. q \in Request /\ Formed(p, q)
    BY <2>0 DEF Request, PCs, Outcomes, Statuses, Formed
  <2>2. req' = [req EXCEPT ![p] = q]
    BY <1>3 DEF ApplyPaid
  <2> HIDE DEF q
  <2>3. req' \in [Handlers -> Request] /\ WellFormed'
    BY <1>a, <1>b, <2>0, <2>1, <2>2, RequestUpdate
  <2>4. status' \in [Orders -> Statuses]
    BY <1>3, <1>0, <1>a, <1>b, <2>3, MarkType DEF ApplyPaid, MarkPaid, Statuses, TypeOK
  <2> QED
    BY <1>3, <1>b, <2>3, <2>4 DEF ApplyPaid, TypeInv, TypeOK
<1>4. ASSUME NEW p \in Processes, RefreshPaid(p) PROVE TypeInv'
  <2> DEFINE q == [req[p] EXCEPT !.row = status[req[p].order],
                    !.pc = IF status[req[p].order] = "fulfilled" THEN "record"
                           ELSE "generate"]
  <2>0. req[p] \in Request /\ req[p].order \in Orders /\ (p \in Processes => req[p].note # None) /\ status[req[p].order] \in Statuses
    BY <1>4, <1>0, <1>a, <1>b, RequestFacts DEF RefreshPaid, TypeOK
  <2>1. q \in Request /\ Formed(p, q)
    BY <2>0 DEF Request, PCs, Outcomes, Statuses, Formed
  <2>2. req' = [req EXCEPT ![p] = q]
    BY <1>4 DEF RefreshPaid
  <2> HIDE DEF q
  <2>3. req' \in [Handlers -> Request] /\ WellFormed'
    BY <1>a, <1>b, <2>0, <2>1, <2>2, RequestUpdate
  <2> QED
    BY <1>4, <1>b, <2>3 DEF RefreshPaid, TypeInv, TypeOK
<1>5. ASSUME NEW p \in Processes, ApplyFailed(p) PROVE TypeInv'
  <2> DEFINE q == [req[p] EXCEPT !.pc = "record"]
  <2>0. req[p] \in Request /\ req[p].order \in Orders /\ (p \in Processes => req[p].note # None)
    BY <1>5, <1>0, <1>a, <1>b, RequestFacts DEF ApplyFailed, TypeOK
  <2>1. q \in Request /\ Formed(p, q)
    BY <2>0 DEF Request, PCs, Outcomes, Statuses, Formed
  <2>2. req' = [req EXCEPT ![p] = q]
    BY <1>5 DEF ApplyFailed
  <2> HIDE DEF q
  <2>3. req' \in [Handlers -> Request] /\ WellFormed'
    BY <1>a, <1>b, <2>0, <2>1, <2>2, RequestUpdate
  <2>4. status' \in [Orders -> Statuses]
    BY <1>5, <1>0, <1>a, <1>b, <2>3, MarkType DEF ApplyFailed, MarkFailed, Statuses, TypeOK
  <2> QED
    BY <1>5, <1>b, <2>3, <2>4 DEF ApplyFailed, TypeInv, TypeOK
<1>6. ASSUME NEW p \in Processes, ApplyRefunded(p) PROVE TypeInv'
  <2> DEFINE q == [req[p] EXCEPT !.pc = "record"]
  <2>0. req[p] \in Request /\ req[p].order \in Orders /\ (p \in Processes => req[p].note # None)
    BY <1>6, <1>0, <1>a, <1>b, RequestFacts DEF ApplyRefunded, TypeOK
  <2>1. q \in Request /\ Formed(p, q)
    BY <2>0 DEF Request, PCs, Outcomes, Statuses, Formed
  <2>2. req' = [req EXCEPT ![p] = q]
    BY <1>6 DEF ApplyRefunded
  <2> HIDE DEF q
  <2>3. req' \in [Handlers -> Request] /\ WellFormed'
    BY <1>a, <1>b, <2>0, <2>1, <2>2, RequestUpdate
  <2>4. status' \in [Orders -> Statuses]
    BY <1>6, <1>0, <1>a, <1>b, <2>3, MarkType DEF ApplyRefunded, MarkRefunded, Statuses, TypeOK
  <2> QED
    BY <1>6, <1>b, <2>3, <2>4 DEF ApplyRefunded, TypeInv, TypeOK
<1>7. ASSUME NEW p \in Processes, Acknowledge(p) PROVE TypeInv'
  <2>3. req' \in [Handlers -> Request] /\ WellFormed'
    BY <1>7, <1>a, <1>b, RequestUpdate, IdleIsRequest DEF Acknowledge, Finish
  <2>4. webhookEvents' \in [Events -> Outcomes \cup {None}]
    BY <1>7, <1>0, <1>a, <1>b, <2>3, RequestFacts DEF Acknowledge, RecordWebhookEvent, TypeOK
  <2>5. acked' \subseteq Notifications
    BY <1>7, <1>0, <1>a, <1>b, <2>3, RequestFacts DEF Acknowledge, RecordWebhookEvent, TypeOK
  <2> QED
    BY <1>7, <1>b, <2>3, <2>4, <2>5 DEF Acknowledge, TypeInv, TypeOK
<1>8. ASSUME NEW p \in Processes, ProcessCrashes(p) PROVE TypeInv'
  <2>3. req' \in [Handlers -> Request] /\ WellFormed'
    BY <1>8, <1>b, IdleIsRequest DEF ProcessCrashes, WellFormed
  <2> QED
    BY <1>8, <1>b, <2>3, ConstantsAssumption DEF ProcessCrashes, TypeInv, TypeOK
<1>9. ASSUME NEW p \in Processes, NEW n \in Notifications, ReceiveWebhook(p, n) PROVE TypeInv'
  <2> DEFINE q == IF n.order = None
        THEN [Idle EXCEPT !.pc = "record", !.note = n, !.outcome = "ignored"]
        ELSE [Idle EXCEPT !.pc = "verify", !.note = n, !.order = n.order]
  <2>1. q \in Request /\ Formed(p, q)
    BY ConstantsAssumption DEF Idle, Request, PCs, Statuses, Outcomes, NotificationType, Formed
  <2> HIDE DEF q
  <2>2. UNCHANGED req \/ req' = [req EXCEPT ![p] = q]
    BY <1>9 DEF ReceiveWebhook, q
  <2>3. req' \in [Handlers -> Request] /\ WellFormed'
    BY <1>a, <1>b, <2>1, <2>2, RequestUpdate DEF WellFormed
  <2> QED
    BY <1>9, <1>b, <2>3 DEF ReceiveWebhook, TypeInv, TypeOK
<1>10. ASSUME NEW t \in Threads, OpenCheckout(t) PROVE TypeInv'
  <2>1. /\ req[t] \in Request /\ req[t].order \in Orders
        /\ [req[t] EXCEPT !.pc = "created"] \in Request
        /\ Formed(t, [req[t] EXCEPT !.pc = "created"])
    <3>1. req[t] \in Request /\ req[t].order \in Orders /\ t \notin Processes
      BY <1>10, <1>0, <1>a, RequestFacts, ConstantsAssumption DEF OpenCheckout
    <3> QED
      BY <3>1 DEF PCs, Request, Formed
  <2>2. \/ req' = [req EXCEPT ![t] = [req[t] EXCEPT !.pc = "created"]]
        \/ req' = [req EXCEPT ![t] = Idle]
    BY <1>10 DEF OpenCheckout, Finish
  <2>3. req' \in [Handlers -> Request] /\ WellFormed'
    BY <1>a, <1>b, <2>1, <2>2, RequestUpdate, IdleIsRequest DEF Request
  <2>4. session' \subseteq Orders
    BY <1>10, <1>b, <2>1 DEF OpenCheckout, TypeOK
  <2> QED
    BY <1>10, <1>b, <2>3, <2>4 DEF OpenCheckout, TypeInv, TypeOK
<1>11. ASSUME NEW t \in Threads, RecordCheckout(t) PROVE TypeInv'
  <2>3. req' \in [Handlers -> Request] /\ WellFormed'
    BY <1>11, <1>a, <1>b, RequestUpdate, IdleIsRequest DEF RecordCheckout, Finish
  <2> QED
    BY <1>11, <1>b, <2>3 DEF RecordCheckout, TypeInv, TypeOK
<1>12. ASSUME NEW t \in Threads, ApplyMockPay(t) PROVE TypeInv'
  <2>3. req' \in [Handlers -> Request] /\ WellFormed'
    BY <1>12, <1>a, <1>b, RequestUpdate, IdleIsRequest DEF ApplyMockPay, Finish
  <2>4. status' \in [Orders -> Statuses]
    BY <1>12, <1>0, <1>a, <1>b, <2>3, MarkType DEF ApplyMockPay, MarkPaid, Statuses, TypeOK
  <2> QED
    BY <1>12, <1>b, <2>3, <2>4 DEF ApplyMockPay, TypeInv, TypeOK
<1>13. ASSUME NEW t \in Threads, NEW o \in Orders, CreateOrder(t, o) PROVE TypeInv'
  <2> DEFINE q == [Idle EXCEPT !.pc = "checkout", !.order = o]
  <2>1. q \in Request /\ Formed(t, q)
    BY ConstantsAssumption DEF Idle, Request, PCs, Statuses, Outcomes, Formed
  <2> HIDE DEF q
  <2>2. req' = [req EXCEPT ![t] = q]
    BY <1>13 DEF CreateOrder, q
  <2>3. req' \in [Handlers -> Request] /\ WellFormed'
    BY <1>a, <1>b, <2>1, <2>2, RequestUpdate
  <2> QED
    BY <1>13, <1>b, <2>3 DEF CreateOrder, Statuses, TypeInv, TypeOK
<1>14. ASSUME NEW t \in Threads, NEW o \in Orders, StartFulfil(t, o) PROVE TypeInv'
  <2> DEFINE q == [Idle EXCEPT !.pc = "generate", !.order = o]
  <2>1. q \in Request /\ Formed(t, q)
    BY ConstantsAssumption DEF Idle, Request, PCs, Statuses, Outcomes, Formed
  <2> HIDE DEF q
  <2>2. req' = [req EXCEPT ![t] = q]
    BY <1>14 DEF StartFulfil, q
  <2>3. req' \in [Handlers -> Request] /\ WellFormed'
    BY <1>a, <1>b, <2>1, <2>2, RequestUpdate
  <2> QED
    BY <1>14, <1>b, <2>3 DEF StartFulfil, TypeInv, TypeOK
<1>15. ASSUME NEW t \in Threads, NEW o \in Orders, StartMockPay(t, o) PROVE TypeInv'
  <2> DEFINE q == [Idle EXCEPT !.pc = "load", !.order = o]
  <2>1. q \in Request /\ Formed(t, q)
    BY ConstantsAssumption DEF Idle, Request, PCs, Statuses, Outcomes, Formed
  <2> HIDE DEF q
  <2>2. req' = [req EXCEPT ![t] = q]
    BY <1>15 DEF StartMockPay, q
  <2>3. req' \in [Handlers -> Request] /\ WellFormed'
    BY <1>a, <1>b, <2>1, <2>2, RequestUpdate
  <2> QED
    BY <1>15, <1>b, <2>3 DEF StartMockPay, TypeInv, TypeOK
<1>16. ASSUME NEW h \in Handlers, GenerateReport(h) PROVE TypeInv'
  <2>0. PICK r \in ReportIds :
           /\ reports' = [reports EXCEPT ![r] = [order |-> req[h].order, event |-> CauseOf(h)]]
           /\ req' = [req EXCEPT ![h].pc = "reload", ![h].report = r]
    BY <1>16 DEF GenerateReport, FreshIds
  <2> DEFINE q == [req[h] EXCEPT !.pc = "reload", !.report = r]
  <2>1. req[h].order \in Orders /\ CauseOf(h) \in Events \cup {None}
    BY <1>16, <1>0, RequestFacts DEF GenerateReport, CauseOf, Events
  <2>2. q \in Request /\ Formed(h, q)
    BY <1>16, <1>0, <2>1, RequestFacts DEF GenerateReport, PCs, Statuses, Outcomes, Request, Formed
  <2> HIDE DEF q
  <2>3. req' \in [Handlers -> Request] /\ WellFormed'
    <3>1. req' = [req EXCEPT ![h] = q]
      BY <2>0 DEF q
    <3> QED
      BY <1>b, <2>1, <2>2, <3>1, RequestUpdate
  <2>4. reports' \in [ReportIds -> [order: Orders \cup {None}, event: Events \cup {None}]]
    BY <1>b, <2>0, <2>1 DEF TypeOK
  <2> QED
    BY <1>16, <1>b, <2>3, <2>4 DEF GenerateReport, TypeInv, TypeOK
<1>17. ASSUME NEW h \in Handlers, SubjectGone(h) PROVE TypeInv'
  <2>3. req' \in [Handlers -> Request] /\ WellFormed'
    BY <1>17, <1>a, <1>b, RequestUpdate, IdleIsRequest DEF SubjectGone, Finish
  <2> QED
    BY <1>17, <1>b, <2>3 DEF SubjectGone, TypeInv, TypeOK
<1>18. ASSUME NEW h \in Handlers, ReloadOrder(h) PROVE TypeInv'
  <2> DEFINE q == [req[h] EXCEPT !.pc = "attach", !.row = status[req[h].order]]
  <2>0. req[h] \in Request /\ req[h].order \in Orders /\ (h \in Processes => req[h].note # None) /\ status[req[h].order] \in Statuses
    BY <1>18, <1>0, <1>a, <1>b, RequestFacts DEF ReloadOrder, TypeOK
  <2>1. q \in Request /\ Formed(h, q)
    BY <2>0 DEF Request, PCs, Outcomes, Statuses, Formed
  <2>2. req' = [req EXCEPT ![h] = q]
    BY <1>18 DEF ReloadOrder
  <2> HIDE DEF q
  <2>3. req' \in [Handlers -> Request] /\ WellFormed'
    BY <1>a, <1>b, <2>0, <2>1, <2>2, RequestUpdate
  <2> QED
    BY <1>18, <1>b, <2>3 DEF ReloadOrder, TypeInv, TypeOK
<1>19. ASSUME NEW h \in Handlers, AttachReport(h) PROVE TypeInv'
  <2>1. /\ [req[h] EXCEPT !.pc = "record"] \in Request
        /\ Formed(h, [req[h] EXCEPT !.pc = "record"])
    <3>1. req[h] \in Request /\ (h \in Processes => req[h].note # None)
      BY <1>19, <1>0, RequestFacts DEF AttachReport
    <3> QED
      BY <3>1 DEF PCs, Request, Formed
  <2>2. \/ req' = [req EXCEPT ![h] = [req[h] EXCEPT !.pc = "record"]]
        \/ req' = [req EXCEPT ![h] = Idle]
    BY <1>19 DEF AttachReport
  <2>3. req' \in [Handlers -> Request] /\ WellFormed'
    BY <1>b, <2>1, <2>2, RequestUpdate, IdleIsRequest DEF Request
  <2>4. status' \in [Orders -> Statuses]
    BY <1>19, <1>b, MarkType DEF AttachReport, MarkFulfilled, Statuses, TypeOK
  <2>5. reportOf' \in [Orders -> ReportIds \cup {None}]
    BY <1>19, <1>0, <1>b, RequestFacts DEF AttachReport, MarkFulfilled, TypeOK
  <2> QED
    BY <1>19, <1>b, <2>3, <2>4, <2>5 DEF AttachReport, TypeInv, TypeOK
<1>20. ASSUME NEW h \in Handlers, RequestFails(h) PROVE TypeInv'
  <2>3. req' \in [Handlers -> Request] /\ WellFormed'
    BY <1>20, <1>b, RequestUpdate, IdleIsRequest DEF RequestFails, Finish
  <2>4. faults' \in 0..MaxFaults
    BY <1>20, <1>b, ConstantsAssumption DEF RequestFails, TypeOK
  <2> QED
    BY <1>20, <1>b, <2>3, <2>4 DEF RequestFails, TypeInv, TypeOK
<1>21. ASSUME NEW o \in Orders, RemoveSubject(o) PROVE TypeInv'
  <2> QED
    BY <1>21, <1>b DEF RemoveSubject, TypeInv, TypeOK, WellFormed
<1>22. CASE UNCHANGED vars
  BY <1>22, <1>b DEF vars, TypeInv, TypeOK, WellFormed
<1> QED
  BY <1>0, <1>a, <1>1, <1>2, <1>3, <1>4, <1>5, <1>6, <1>7, <1>8, <1>9, <1>10,
     <1>11, <1>12, <1>13, <1>14, <1>15, <1>16, <1>17, <1>18, <1>19, <1>20,
     <1>21, <1>22
  DEF Next, WebhookStep, ThreadStep, ReportStep

\* Report rows, order rows and requests keep their types (the columns of
\* report_orders, generated_reports and payment_webhook_events).
THEOREM TypeInvariant == Spec => []TypeInv
<1>1. Init => TypeInv
  BY ConstantsAssumption, IdleIsRequest DEF Init, TypeInv, TypeOK, WellFormed, NoRow, Statuses
<1> QED
  BY <1>1, TypeStep, PTL DEF Spec

\* The type invariant of the module, for every instance.
THEOREM TypeCorrect == Spec => []TypeOK
<1>1. TypeInv => TypeOK
  BY DEF TypeInv
<1> QED
  BY <1>1, TypeInvariant, PTL

-----------------------------------------------------------------------------
(* The safety invariant.                                                     *)

\* What justifies a handler being where it is in its request.
Justified(h, q) ==
    /\ q.note # None => h \in Processes /\ q.note \in sent /\ q.order = q.note.order
    /\ q.pc \in {"load", "apply"} =>
          IF q.note = None THEN q.order \in mockPaid ELSE q.note.priced
    /\ q.pc \in {"refresh", "generate", "reload", "attach"} => Settled(q.order)
    /\ q.pc \in {"reload", "attach"} =>
          q.report \in ReportIds /\ reports[q.report].order = q.order
    /\ q.pc = "apply" /\ q.row = "fulfilled" => reportOf[q.order] # None
    /\ q.pc = "record" /\ q.outcome = "processed" /\ q.note.action = "paid"
          => q.order \in Orders /\ reportOf[q.order] # None

RequestInv == \A h \in Handlers : Justified(h, req[h])

OrderInv == NoReportWithoutPayment /\ ReportReferenceValid

RecordInv ==
    \A n \in Notifications :
        webhookEvents[n.event] = "processed" /\ n.action = "paid"
            => n.order \in Orders /\ reportOf[n.order] # None

IInv == TypeInv /\ RequestInv /\ OrderInv /\ RecordInv

\* Payments, attached reports and the orders of stored reports are never lost.
Grows ==
    /\ sent \subseteq sent'
    /\ mockPaid \subseteq mockPaid'
    /\ \A o \in Orders : reportOf[o] # None => reportOf'[o] # None
    /\ \A r \in ReportIds : reports[r].order # None => reports'[r] = reports[r]

\* No step takes back a notification, a mock payment, a record, a reference or a
\* report row.
LEMMA StepGrows ==
    ASSUME IInv, [Next]_vars
    PROVE  Grows
<1> USE DEF Grows, storeVars, providerVars
<1>0. IInv /\ TypeInv /\ TypeOK
  BY DEF IInv, TypeInv
<1>1. ASSUME NEW h \in Handlers, GenerateReport(h) PROVE Grows
  BY <1>0, <1>1 DEF GenerateReport, FreshIds, NoRow, TypeOK
<1>2. ASSUME NEW h \in Handlers, AttachReport(h) PROVE Grows
  <2>1. req[h].report # None
    BY <1>0, <1>2, ConstantsAssumption DEF AttachReport, IInv, RequestInv, Justified
  <2> QED
    BY <1>0, <1>2, <2>1 DEF AttachReport, MarkFulfilled, TypeOK
<1>3. ASSUME NEW p \in Processes, WebhookStep(p) \/ ProcessCrashes(p) PROVE Grows
  BY <1>3 DEF WebhookStep, ProcessCrashes, VerifyNotification, LoadOrder, ApplyPaid,
     RefreshPaid, ApplyFailed, ApplyRefunded, Acknowledge
<1>4. ASSUME NEW p \in Processes, NEW n \in Notifications, ReceiveWebhook(p, n) PROVE Grows
  BY <1>4 DEF ReceiveWebhook
<1>5. ASSUME NEW t \in Threads, ThreadStep(t) PROVE Grows
  BY <1>5 DEF ThreadStep, OpenCheckout, RecordCheckout, LoadOrder, ApplyMockPay
<1>6. ASSUME NEW t \in Threads, NEW o \in Orders,
             CreateOrder(t, o) \/ StartFulfil(t, o) \/ StartMockPay(t, o)
      PROVE  Grows
  BY <1>6 DEF CreateOrder, StartFulfil, StartMockPay
<1>7. ASSUME NEW h \in Handlers, SubjectGone(h) \/ ReloadOrder(h) \/ RequestFails(h)
      PROVE  Grows
  BY <1>7 DEF SubjectGone, ReloadOrder, RequestFails
<1>8. ASSUME NEW o \in Orders, RemoveSubject(o) PROVE Grows
  BY <1>8 DEF RemoveSubject
<1>9. CASE UNCHANGED vars
  BY <1>9 DEF vars
<1> QED
  BY <1>1, <1>2, <1>3, <1>4, <1>5, <1>6, <1>7, <1>8, <1>9 DEF Next, ReportStep

\* A payment once made stays made.
LEMMA SettledStable == Grows => \A o : Settled(o) => Settled(o)'
BY DEF Grows, Settled

\* A justified request stays justified while other handlers run.
LEMMA JustifiedStable ==
    ASSUME TypeOK, Grows, NEW h \in Handlers, NEW q \in Request, Justified(h, q),
           q.pc \notin {"idle", "record"} => q.order \in Orders
    PROVE  Justified(h, q)'
<1>1. q.order \in Orders \cup {None} /\ None \notin Orders
  BY ConstantsAssumption DEF Request
<1> QED
  BY <1>1, SettledStable DEF Justified, Grows

\* One handler moves on to a justified request, the others stay where they are.
LEMMA MoveOn ==
    ASSUME IInv, Grows, NEW h \in Handlers,
           \A g \in Handlers \ {h} : req'[g] = req[g],
           Justified(h, req[h])'
    PROVE  RequestInv'
<1> SUFFICES ASSUME NEW g \in Handlers, g # h PROVE Justified(g, req[g])'
  BY DEF RequestInv
<1>1. TypeInv /\ TypeOK /\ req'[g] = req[g] /\ req[g] \in Request
  BY DEF IInv, TypeInv, TypeOK
<1>2. Justified(g, req[g])
  BY DEF IInv, RequestInv
<1>3. req[g].pc \notin {"idle", "record"} => req[g].order \in Orders
  BY <1>1, RequestFacts
<1> QED
  BY <1>1, <1>2, <1>3, JustifiedStable DEF Justified

\* An idle handler needs no justification.
LEMMA IdleJustified == \A h : Justified(h, Idle)
BY DEF Justified, Idle

\* The store is untouched but for new report rows and notifications.
LEMMA KeepOrders ==
    ASSUME IInv, Grows, UNCHANGED <<status, reportOf>>
    PROVE  OrderInv'
BY SettledStable, ConstantsAssumption
DEF IInv, OrderInv, NoReportWithoutPayment, ReportReferenceValid, Grows, TypeInv, TypeOK

\* No event is recorded, so the records still stand on delivered reports.
LEMMA KeepRecords ==
    ASSUME IInv, Grows, UNCHANGED webhookEvents
    PROVE  RecordInv'
BY DEF IInv, RecordInv, Grows

\* A guarded write other than to "fulfilled": "paid" needs a payment.
LEMMA MarkOrders ==
    ASSUME IInv, Grows, UNCHANGED reportOf, NEW o \in Orders, NEW cached, NEW new \in Statuses,
           NEW blocked, Mark(o, cached, new, blocked),
           new # "fulfilled", new = "paid" => Settled(o)
    PROVE  OrderInv'
<1>1. \A x \in Orders : status'[x] = status[x] \/ (x = o /\ status'[x] = new)
  BY DEF Mark, IInv, TypeInv, TypeOK
<1> QED
  BY <1>1, SettledStable, ConstantsAssumption
  DEF IInv, OrderInv, NoReportWithoutPayment, ReportReferenceValid, Grows, TypeInv, TypeOK

\* What the invariant says of the request a handler is working on.
LEMMA Here ==
    ASSUME IInv, NEW h \in Handlers
    PROVE  /\ req \in [Handlers -> Request]
           /\ Justified(h, req[h])
           /\ req[h].pc \notin {"idle", "record"} => req[h].order \in Orders
           /\ h \in Processes /\ req[h].pc # "idle" => req[h].note \in Notifications
           /\ req[h].note \in Notifications \cup {None}
           /\ req[h].report \in ReportIds \cup {None}
BY RequestFacts DEF IInv, RequestInv, TypeInv, TypeOK

\* Every step keeps the safety invariant; one case per action.
LEMMA SafetyStep ==
    ASSUME IInv, [Next]_vars
    PROVE  IInv'
<1>0. Grows /\ TypeInv'
  BY StepGrows, TypeStep DEF IInv
<1> USE DEF storeVars, providerVars
<1>a. Processes \subseteq Handlers /\ Threads \subseteq Handlers
  BY DEF Handlers
<1>k. ASSUME NEW h \in Handlers, \A g \in Handlers \ {h} : req'[g] = req[g],
             Justified(h, req[h])', OrderInv', RecordInv'
      PROVE  IInv'
  BY <1>0, <1>k, MoveOn DEF IInv
<1>1. ASSUME NEW p \in Processes, VerifyNotification(p) PROVE IInv'
  <2>1. Justified(p, req[p])'
    <3>1. /\ req'[p].pc = "load" => ~Rejected(req[p].note)
          /\ req'[p].pc = "record" => req'[p].outcome # "processed"
          /\ req'[p].pc \in {"load", "record"}
          /\ req'[p].note = req[p].note /\ req'[p].order = req[p].order
      BY <1>a, <1>1, Here DEF VerifyNotification, Request
    <3> QED
      BY <1>a, <1>1, <3>1, Here, ConstantsAssumption DEF VerifyNotification, Rejected, Justified
  <2> QED
    BY <1>0, <1>a, <1>k, <1>1, <2>1, Here, KeepOrders, KeepRecords DEF VerifyNotification
<1>2. ASSUME NEW h \in Handlers, LoadOrder(h) PROVE IInv'
  <2>1. Justified(h, req[h])'
    BY <1>2, Here DEF LoadOrder, Justified, IInv, OrderInv, ReportReferenceValid, TypeInv, TypeOK
  <2> QED
    BY <1>0, <1>k, <1>2, <2>1, Here, KeepOrders, KeepRecords DEF LoadOrder
<1>3. ASSUME NEW p \in Processes, ApplyPaid(p) PROVE IInv'
  <2>1. Settled(req[p].order) /\ req[p].order \in Orders
    BY <1>a, <1>3, Here DEF ApplyPaid, Justified, Settled
  <2>2. Justified(p, req[p])'
    BY <1>0, <1>a, <1>3, <2>1, Here, SettledStable DEF ApplyPaid, Justified
  <2>3. OrderInv'
    BY <1>0, <1>3, <2>1, MarkOrders DEF ApplyPaid, MarkPaid, Statuses
  <2> QED
    BY <1>0, <1>a, <1>k, <1>3, <2>2, <2>3, Here, KeepRecords DEF ApplyPaid
<1>4. ASSUME NEW p \in Processes, RefreshPaid(p) PROVE IInv'
  <2>1. Justified(p, req[p])'
    BY <1>0, <1>a, <1>4, Here, SettledStable
    DEF RefreshPaid, Justified, IInv, OrderInv, ReportReferenceValid
  <2> QED
    BY <1>0, <1>a, <1>k, <1>4, <2>1, Here, KeepOrders, KeepRecords DEF RefreshPaid
<1>5. ASSUME NEW p \in Processes, ApplyFailed(p) PROVE IInv'
  <2>1. Justified(p, req[p])'
    BY <1>a, <1>5, Here DEF ApplyFailed, Justified
  <2>2. req[p].order \in Orders
    BY <1>a, <1>5, Here DEF ApplyFailed
  <2>3. OrderInv'
    BY <1>0, <1>5, <2>2, MarkOrders DEF ApplyFailed, MarkFailed, Statuses
  <2> QED
    BY <1>0, <1>a, <1>k, <1>5, <2>1, <2>3, Here, KeepRecords DEF ApplyFailed
<1>6. ASSUME NEW p \in Processes, ApplyRefunded(p) PROVE IInv'
  <2>1. Justified(p, req[p])'
    BY <1>a, <1>6, Here DEF ApplyRefunded, Justified
  <2>2. req[p].order \in Orders
    BY <1>a, <1>6, Here DEF ApplyRefunded
  <2>3. OrderInv'
    BY <1>0, <1>6, <2>2, MarkOrders DEF ApplyRefunded, MarkRefunded, Statuses
  <2> QED
    BY <1>0, <1>a, <1>k, <1>6, <2>1, <2>3, Here, KeepRecords DEF ApplyRefunded
<1>7. ASSUME NEW p \in Processes, Acknowledge(p) PROVE IInv'
  <2>1. Justified(p, req[p])'
    BY <1>a, <1>7, Here, IdleJustified DEF Acknowledge, Finish, Justified, Idle
  <2>2. RecordInv'
    <3> SUFFICES ASSUME NEW n \in Notifications, n.action = "paid",
                        webhookEvents'[n.event] = "processed"
                 PROVE  n.order \in Orders /\ reportOf'[n.order] # None
      BY DEF RecordInv
    <3>1. CASE webhookEvents[n.event] = "processed"
      BY <1>0, <1>7, <3>1 DEF Acknowledge, IInv, RecordInv
    <3>2. CASE webhookEvents[n.event] # "processed"
      <4>1. n.event = req[p].note.event /\ req[p].outcome = "processed"
        BY <1>7, <3>2 DEF Acknowledge, RecordWebhookEvent, Events, IInv, TypeInv, TypeOK
      <4>2. n = req[p].note /\ req[p].note # None
        BY <1>a, <1>7, <4>1, Here, ConstantsAssumption DEF Acknowledge
      <4> QED
        BY <1>a, <1>7, <4>1, <4>2, Here DEF Acknowledge, Justified
    <3> QED
      BY <3>1, <3>2
  <2> QED
    BY <1>0, <1>a, <1>k, <1>7, <2>1, <2>2, Here, KeepOrders DEF Acknowledge, Finish
<1>8. ASSUME NEW p \in Processes, ProcessCrashes(p) PROVE IInv'
  <2> SUFFICES ASSUME NEW h \in Handlers PROVE Justified(h, req[h])'
    BY <1>0, <1>8, KeepOrders, KeepRecords DEF ProcessCrashes, IInv, RequestInv
  <2>1. req'[h] = Idle \/ req'[h] = req[h]
    BY <1>8 DEF ProcessCrashes
  <2> QED
    BY <1>8, <2>1, Here, IdleJustified DEF ProcessCrashes, Justified, Settled, Idle
<1>9. ASSUME NEW p \in Processes, NEW n \in Notifications, ReceiveWebhook(p, n) PROVE IInv'
  <2>1. Justified(p, req[p])'
    <3>1. n \in sent' /\ n # None
      BY <1>9, ConstantsAssumption DEF ReceiveWebhook
    <3>2. CASE req' = req
      BY <1>0, <1>a, <1>9, <3>2, Here DEF ReceiveWebhook, Justified
    <3>3. CASE req' # req
      <4>1. /\ req'[p].note = n /\ req'[p].order = n.order
            /\ \/ req'[p].pc = "verify"
               \/ req'[p].pc = "record" /\ req'[p].outcome = "ignored"
        <5> DEFINE q == IF n.order = None
                THEN [Idle EXCEPT !.pc = "record", !.note = n, !.outcome = "ignored"]
                ELSE [Idle EXCEPT !.pc = "verify", !.note = n, !.order = n.order]
        <5>1. req' = [req EXCEPT ![p] = q]
          BY <1>9, <3>3 DEF ReceiveWebhook
        <5>2. /\ q.note = n /\ q.order = n.order
              /\ q.pc = "verify" \/ (q.pc = "record" /\ q.outcome = "ignored")
          BY DEF Idle
        <5> HIDE DEF q
        <5> QED
          BY <1>a, <5>1, <5>2, Here
      <4> QED
        BY <3>1, <4>1 DEF Justified
    <3> QED
      BY <3>2, <3>3
  <2>2. \A g \in Handlers \ {p} : req'[g] = req[g]
    BY <1>9, Here DEF ReceiveWebhook
  <2>3. UNCHANGED <<status, reportOf, webhookEvents>>
    BY <1>9 DEF ReceiveWebhook
  <2>4. OrderInv' /\ RecordInv'
    BY <1>0, <2>3, KeepOrders, KeepRecords
  <2> QED
    BY <1>a, <1>k, <2>1, <2>2, <2>4 DEF Justified
<1>10. ASSUME NEW t \in Threads, OpenCheckout(t) PROVE IInv'
  <2>1. Justified(t, req[t])'
    <3>1. CASE req' = [req EXCEPT ![t].pc = "created"]
      <4>1. /\ req'[t].pc = "created" /\ req'[t].note = req[t].note
            /\ req'[t].order = req[t].order
        BY <1>a, <3>1, Here DEF Request
      <4> QED
        BY <1>a, <1>10, <4>1, Here DEF OpenCheckout, Justified
    <3>2. CASE req' = [req EXCEPT ![t] = Idle]
      BY <1>a, <3>2, Here DEF Justified, Idle
    <3> QED
      BY <1>10, <3>1, <3>2 DEF OpenCheckout, Finish
  <2> QED
    BY <1>0, <1>a, <1>k, <1>10, <2>1, Here, KeepOrders, KeepRecords DEF OpenCheckout, Finish
<1>11. ASSUME NEW t \in Threads, RecordCheckout(t) PROVE IInv'
  <2>1. Justified(t, req[t])'
    BY <1>a, <1>11, Here DEF RecordCheckout, Finish, Justified, Idle
  <2> QED
    BY <1>0, <1>a, <1>k, <1>11, <2>1, Here, KeepOrders, KeepRecords DEF RecordCheckout, Finish
<1>12. ASSUME NEW t \in Threads, ApplyMockPay(t) PROVE IInv'
  <2>1. Justified(t, req[t])'
    BY <1>a, <1>12, Here DEF ApplyMockPay, Finish, Justified, Idle
  <2>2. req[t].order \in Orders /\ Settled(req[t].order)
    BY <1>a, <1>12, Here DEF ApplyMockPay, Justified, Settled
  <2>3. OrderInv'
    BY <1>0, <1>12, <2>2, MarkOrders DEF ApplyMockPay, MarkPaid, Statuses
  <2> QED
    BY <1>0, <1>a, <1>k, <1>12, <2>1, <2>3, Here, KeepRecords DEF ApplyMockPay, Finish
<1>13. ASSUME NEW t \in Threads, NEW o \in Orders, CreateOrder(t, o) PROVE IInv'
  <2>1. Justified(t, req[t])'
    BY <1>a, <1>13, Here DEF CreateOrder, Justified, Idle
  <2>2. Mark(o, "absent", "unpaid", {}) /\ UNCHANGED reportOf
    BY <1>13 DEF CreateOrder, Mark
  <2>3. OrderInv'
    BY <1>0, <2>2, MarkOrders DEF Statuses
  <2> QED
    BY <1>0, <1>a, <1>k, <1>13, <2>1, <2>3, Here, KeepRecords DEF CreateOrder
<1>14. ASSUME NEW t \in Threads, NEW o \in Orders, StartFulfil(t, o) PROVE IInv'
  <2>1. Settled(o)
    BY <1>14 DEF StartFulfil, IInv, OrderInv, NoReportWithoutPayment
  <2>2. Justified(t, req[t])'
    BY <1>0, <1>a, <1>14, <2>1, Here, SettledStable DEF StartFulfil, Justified, Idle
  <2> QED
    BY <1>0, <1>a, <1>k, <1>14, <2>2, Here, KeepOrders, KeepRecords DEF StartFulfil
<1>15. ASSUME NEW t \in Threads, NEW o \in Orders, StartMockPay(t, o) PROVE IInv'
  <2>1. Justified(t, req[t])'
    BY <1>a, <1>15, Here DEF StartMockPay, Justified, Idle
  <2> QED
    BY <1>0, <1>a, <1>k, <1>15, <2>1, Here, KeepOrders, KeepRecords DEF StartMockPay
<1>16. ASSUME NEW h \in Handlers, GenerateReport(h) PROVE IInv'
  <2>1. PICK r \in ReportIds :
           /\ reports' = [reports EXCEPT ![r] = [order |-> req[h].order, event |-> CauseOf(h)]]
           /\ req' = [req EXCEPT ![h].pc = "reload", ![h].report = r]
    BY <1>16 DEF GenerateReport, FreshIds
  <2>2. reports'[r].order = req[h].order
    BY <2>1 DEF IInv, TypeInv, TypeOK
  <2>3. Settled(req[h].order)'
    BY <1>0, <1>16, Here, SettledStable DEF GenerateReport, Justified
  <2>4. Justified(h, req[h])'
    <3>0. UNCHANGED <<sent, mockPaid, reportOf>>
      BY <1>16 DEF GenerateReport
    <3>1. /\ req'[h].pc = "reload" /\ req'[h].report = r
          /\ req'[h].note = req[h].note /\ req'[h].order = req[h].order
      BY <2>1, Here DEF Request
    <3> QED
      BY <2>1, <2>2, <2>3, <3>0, <3>1, Here DEF Justified
  <2> QED
    BY <1>0, <1>k, <1>16, <2>1, <2>4, Here, KeepOrders, KeepRecords DEF GenerateReport
<1>17. ASSUME NEW h \in Handlers, SubjectGone(h) PROVE IInv'
  <2>1. Justified(h, req[h])'
    BY <1>17, Here DEF SubjectGone, Finish, Justified, Idle
  <2> QED
    BY <1>0, <1>k, <1>17, <2>1, Here, KeepOrders, KeepRecords DEF SubjectGone, Finish
<1>18. ASSUME NEW h \in Handlers, ReloadOrder(h) PROVE IInv'
  <2>1. Justified(h, req[h])'
    BY <1>0, <1>18, Here, SettledStable DEF ReloadOrder, Justified
  <2> QED
    BY <1>0, <1>k, <1>18, <2>1, Here, KeepOrders, KeepRecords DEF ReloadOrder
<1>19. ASSUME NEW h \in Handlers, AttachReport(h) PROVE IInv'
  <2>1. /\ req[h].order \in Orders /\ Settled(req[h].order)
        /\ req[h].report \in ReportIds /\ reports[req[h].report].order = req[h].order
    BY <1>19, Here DEF AttachReport, Justified
  <2>2. /\ reportOf' = [reportOf EXCEPT ![req[h].order] = req[h].report]
        /\ \A x \in Orders : status'[x] = status[x] \/ x = req[h].order
        /\ UNCHANGED <<reports, sent, mockPaid>>
    BY <1>19 DEF AttachReport, MarkFulfilled, Mark, IInv, TypeInv, TypeOK
  <2>3. reportOf \in [Orders -> ReportIds \cup {None}] /\ None \notin ReportIds
    BY ConstantsAssumption DEF IInv, TypeInv, TypeOK
  <2>4. OrderInv'
    BY <2>1, <2>2, <2>3 DEF IInv, OrderInv, NoReportWithoutPayment, ReportReferenceValid, Settled
  <2>5. Justified(h, req[h])'
    BY <1>19, <2>1, <2>2, <2>3, Here DEF AttachReport, Justified, Idle
  <2> QED
    BY <1>0, <1>k, <1>19, <2>4, <2>5, Here, KeepRecords DEF AttachReport
<1>20. ASSUME NEW h \in Handlers, RequestFails(h) PROVE IInv'
  <2>1. Justified(h, req[h])'
    BY <1>20, Here DEF RequestFails, Finish, Justified, Idle
  <2> QED
    BY <1>0, <1>k, <1>20, <2>1, Here, KeepOrders, KeepRecords DEF RequestFails, Finish
<1>21. ASSUME NEW o \in Orders, RemoveSubject(o) PROVE IInv'
  <2>1. RequestInv'
    BY <1>21 DEF RemoveSubject, IInv, RequestInv, Justified, Settled
  <2> QED
    BY <1>0, <1>21, <2>1, KeepOrders, KeepRecords DEF RemoveSubject, IInv
<1>22. CASE UNCHANGED vars
  BY <1>0, <1>22, KeepOrders, KeepRecords DEF vars, IInv, RequestInv, Justified, Settled
<1> QED
  BY <1>a, <1>1, <1>2, <1>3, <1>4, <1>5, <1>6, <1>7, <1>8, <1>9, <1>10, <1>11, <1>12,
     <1>13, <1>14, <1>15, <1>16, <1>17, <1>18, <1>19, <1>20, <1>21, <1>22
  DEF Next, WebhookStep, ThreadStep, ReportStep

\* The empty stores satisfy it.
LEMMA SafetyInit == Init => IInv
<1> SUFFICES ASSUME Init PROVE IInv
  OBVIOUS
<1>1. TypeInv
  BY ConstantsAssumption, IdleIsRequest DEF Init, TypeInv, TypeOK, WellFormed, NoRow, Statuses
<1>2. RequestInv
  BY IdleJustified DEF Init, RequestInv
<1>3. OrderInv
  BY DEF Init, OrderInv, NoReportWithoutPayment, ReportReferenceValid
<1>4. RecordInv
  BY ConstantsAssumption DEF Init, RecordInv, Events, Outcomes
<1> QED
  BY <1>1, <1>2, <1>3, <1>4 DEF IInv

\* The safety invariant holds throughout: every request is justified by what the
\* provider has sent and the stores hold, and so are orders and event records.
THEOREM Safety == Spec => []IInv
BY SafetyInit, SafetyStep, PTL DEF Spec

\* No report and no paid order without a matching payment, for any number of
\* processes, threads, orders and notifications (receive_payment_webhook).
THEOREM ReportsArePaidFor == Spec => []NoReportWithoutPayment
<1>1. IInv => NoReportWithoutPayment
  BY DEF IInv, OrderInv
<1> QED
  BY <1>1, Safety, PTL

\* An order's generated_report_id names a stored report of that order, and a
\* fulfilled order has one (mark_fulfilled).
THEOREM ReferencesAreValid == Spec => []ReportReferenceValid
<1>1. IInv => ReportReferenceValid
  BY DEF IInv, OrderInv
<1> QED
  BY <1>1, Safety, PTL

\* A payment event is recorded as processed only when its order has a report, so
\* answering its redelivery with "duplicate" loses no report.
THEOREM RecordedMeansDelivered == Spec => []RecordedPaymentDelivered
<1>1. IInv => RecordedPaymentDelivered
  BY DEF IInv, RecordInv, RecordedPaymentDelivered
<1> QED
  BY <1>1, Safety, PTL

-----------------------------------------------------------------------------
(* The refinement of PaidDelivery.                                           *)

\* Every step of the requests, the stores and the provider settles, delivers or
\* closes at most one order, in that order, and undoes nothing.
LEMMA DeliveryStep ==
    ASSUME IInv, [Next]_vars
    PROVE  [Delivery!Next]_(Delivery!vars)
<1> USE DEF storeVars, providerVars
<1>a. Processes \subseteq Handlers /\ Threads \subseteq Handlers
  BY DEF Handlers
<1>b. TypeOK /\ None \notin ReportIds
  BY ConstantsAssumption DEF IInv, TypeInv
<1>1. ASSUME UNCHANGED <<reportOf, webhookEvents, sent, mockPaid>>
      PROVE  UNCHANGED Delivery!vars
  BY <1>1 DEF Delivery!vars, Settled, Closed
<1>2. ASSUME NEW p \in Processes, NEW n \in Notifications, ReceiveWebhook(p, n)
      PROVE  [Delivery!Next]_(Delivery!vars)
  <2>1. /\ sent' = sent \cup {n}
        /\ UNCHANGED <<reportOf, webhookEvents, mockPaid>>
    BY <1>2 DEF ReceiveWebhook
  <2>2. \A o \in Orders : Closed(o)' <=> Closed(o)
    BY <2>1 DEF Closed
  <2>3. \A o \in Orders : Settled(o)' <=>
            Settled(o) \/ (n.order = o /\ n.action = "paid" /\ n.priced)
    BY <2>1 DEF Settled
  <2>4. CASE \A o \in Orders : Settled(o)' <=> Settled(o)
    BY <2>1, <2>2, <2>4 DEF Delivery!vars
  <2>5. CASE ~ \A o \in Orders : Settled(o)' <=> Settled(o)
    <3>1. n.order \in Orders /\ ~Settled(n.order)
      BY <2>3, <2>5
    <3>2. \A o \in Orders : Settled(o)' <=> (Settled(o) \/ o = n.order)
      BY <2>3, <2>5
    <3>3. Delivery!Settle(n.order)
      BY <2>1, <2>2, <3>1, <3>2 DEF Delivery!Settle
    <3> QED
      BY <3>1, <3>3 DEF Delivery!Next
  <2> QED
    BY <2>4, <2>5
<1>3. ASSUME NEW t \in Threads, NEW x \in Orders, StartMockPay(t, x)
      PROVE  [Delivery!Next]_(Delivery!vars)
  <2>1. /\ mockPaid' = mockPaid \cup {x}
        /\ UNCHANGED <<reportOf, webhookEvents, sent>>
    BY <1>3 DEF StartMockPay
  <2>2. \A o \in Orders : Closed(o)' <=> Closed(o)
    BY <2>1 DEF Closed
  <2>3. \A o \in Orders : Settled(o)' <=> Settled(o) \/ o = x
    BY <2>1 DEF Settled
  <2>4. CASE Settled(x)
    BY <2>1, <2>2, <2>3, <2>4 DEF Delivery!vars
  <2>5. CASE ~Settled(x)
    <3>1. Delivery!Settle(x)
      BY <2>1, <2>2, <2>3, <2>5 DEF Delivery!Settle
    <3> QED
      BY <3>1 DEF Delivery!Next
  <2> QED
    BY <2>4, <2>5
<1>4. ASSUME NEW h \in Handlers, AttachReport(h)
      PROVE  [Delivery!Next]_(Delivery!vars)
  <2>0. PICK x \in Orders : x = req[h].order
    BY <1>4, Here DEF AttachReport
  <2>1. Settled(x) /\ req[h].report \in ReportIds
    BY <1>4, <2>0, Here DEF AttachReport, Justified
  <2>2. /\ reportOf' = [reportOf EXCEPT ![x] = req[h].report]
        /\ UNCHANGED <<webhookEvents, sent, mockPaid>>
    BY <1>4, <2>0 DEF AttachReport, MarkFulfilled
  <2>3. \A o \in Orders : (Closed(o)' <=> Closed(o)) /\ (Settled(o)' <=> Settled(o))
    BY <2>2 DEF Closed, Settled
  <2>4. \A o \in Orders : reportOf'[o] # None <=> reportOf[o] # None \/ o = x
    BY <1>b, <2>1, <2>2 DEF TypeOK
  <2>5. CASE reportOf[x] # None
    BY <2>3, <2>4, <2>5 DEF Delivery!vars
  <2>6. CASE reportOf[x] = None
    <3>1. Delivery!Deliver(x)
      BY <2>1, <2>3, <2>4, <2>6 DEF Delivery!Deliver
    <3> QED
      BY <3>1 DEF Delivery!Next
  <2> QED
    BY <2>5, <2>6
<1>5. ASSUME NEW p \in Processes, Acknowledge(p)
      PROVE  [Delivery!Next]_(Delivery!vars)
  <2>0. PICK n \in Notifications : n = req[p].note
    BY <1>a, <1>5, Here DEF Acknowledge
  <2>1. UNCHANGED <<reportOf, sent, mockPaid>>
    BY <1>5 DEF Acknowledge
  <2>2. \A m \in Notifications : webhookEvents'[m.event] =
            IF m = n /\ webhookEvents[m.event] = None
            THEN req[p].outcome ELSE webhookEvents[m.event]
    BY <1>b, <1>5, <2>0, ConstantsAssumption
    DEF Acknowledge, RecordWebhookEvent, TypeOK, Events
  <2>3. \A o \in Orders : (reportOf'[o] # None <=> reportOf[o] # None)
                          /\ (Settled(o)' <=> Settled(o))
    BY <2>1 DEF Settled
  <2>4. \A o \in Orders : Closed(o) => Closed(o)'
    BY <2>2, ConstantsAssumption DEF Closed, Outcomes
  <2>5. ASSUME NEW o \in Orders, Closed(o)', ~Closed(o)
        PROVE  o = n.order /\ reportOf[o] # None
    <3>1. PICK m \in Notifications :
             m.order = o /\ m.action = "paid" /\ webhookEvents'[m.event] = "processed"
      BY <2>5 DEF Closed
    <3>2. m = n /\ req[p].outcome = "processed"
      BY <2>2, <2>5, <3>1 DEF Closed
    <3> QED
      BY <1>a, <1>5, <2>0, <3>1, <3>2, Here, ConstantsAssumption DEF Acknowledge, Justified
  <2>6. CASE \A o \in Orders : Closed(o)' <=> Closed(o)
    BY <2>3, <2>6 DEF Delivery!vars
  <2>7. CASE ~ \A o \in Orders : Closed(o)' <=> Closed(o)
    <3>1. PICK x \in Orders : ~Closed(x) /\ Closed(x)' /\ x = n.order /\ reportOf[x] # None
      BY <2>4, <2>5, <2>7
    <3>2. \A o \in Orders : Closed(o)' <=> (Closed(o) \/ o = x)
      BY <2>4, <2>5, <3>1
    <3>3. Delivery!Close(x)
      BY <2>1, <2>3, <3>1, <3>2 DEF Delivery!Close
    <3> QED
      BY <3>3 DEF Delivery!Next
  <2> QED
    BY <2>6, <2>7
<1>6. ASSUME NEW p \in Processes,
             \/ VerifyNotification(p) \/ ApplyPaid(p) \/ RefreshPaid(p)
             \/ ApplyFailed(p) \/ ApplyRefunded(p) \/ ProcessCrashes(p)
      PROVE  UNCHANGED <<reportOf, webhookEvents, sent, mockPaid>>
  BY <1>6 DEF VerifyNotification, ApplyPaid, RefreshPaid, ApplyFailed, ApplyRefunded,
     ProcessCrashes
<1>7. ASSUME NEW h \in Handlers,
             \/ LoadOrder(h) \/ GenerateReport(h) \/ SubjectGone(h)
             \/ ReloadOrder(h) \/ RequestFails(h)
      PROVE  UNCHANGED <<reportOf, webhookEvents, sent, mockPaid>>
  BY <1>7 DEF LoadOrder, GenerateReport, SubjectGone, ReloadOrder, RequestFails
<1>8. ASSUME NEW t \in Threads, OpenCheckout(t) \/ RecordCheckout(t) \/ ApplyMockPay(t)
      PROVE  UNCHANGED <<reportOf, webhookEvents, sent, mockPaid>>
  BY <1>8 DEF OpenCheckout, RecordCheckout, ApplyMockPay
<1>9. ASSUME NEW t \in Threads, NEW o \in Orders, CreateOrder(t, o) \/ StartFulfil(t, o)
      PROVE  UNCHANGED <<reportOf, webhookEvents, sent, mockPaid>>
  BY <1>9 DEF CreateOrder, StartFulfil
<1>10. ASSUME NEW o \in Orders, RemoveSubject(o)
       PROVE  UNCHANGED <<reportOf, webhookEvents, sent, mockPaid>>
  BY <1>10 DEF RemoveSubject
<1>11. CASE UNCHANGED vars
  BY <1>1, <1>11 DEF vars
<1> QED
  BY <1>a, <1>1, <1>2, <1>3, <1>4, <1>5, <1>6, <1>7, <1>8, <1>9, <1>10, <1>11
  DEF Next, WebhookStep, ThreadStep, ReportStep

\* The paid-report service keeps the promise of PaidDelivery: settle, then
\* deliver, then close, and nothing is taken back.
THEOREM Refinement == Spec => ImplementsPaidDelivery
<1>1. Init => Delivery!Init
  BY ConstantsAssumption DEF Init, Delivery!Init, Settled, Closed, Events, Outcomes
<1>2. IInv /\ [Next]_vars => [Delivery!Next]_(Delivery!vars)
  BY DeliveryStep
<1> QED
  BY <1>1, <1>2, Safety, PTL DEF Spec, Delivery!Spec, ImplementsPaidDelivery

-----------------------------------------------------------------------------
(* In production, with one process: a fulfilled order is never reopened.     *)

\* No step takes an order back to "absent" or, once it left it, to "unpaid".
Forward ==
    \A o \in Orders : /\ status[o] # "absent" => status'[o] # "absent"
                      /\ status[o] \notin {"absent", "unpaid"}
                            => status'[o] \notin {"absent", "unpaid"}

\* Only the event loop marks orders paid, and while it holds a row it read as
\* unpaid, no thread can be fulfilling that order.
SoleWriter ==
    /\ \A o \in session : status[o] # "absent"
    /\ \A h \in Handlers :
          req[h].pc # "idle" /\ req[h].order \in Orders => status[req[h].order] # "absent"
    /\ \A t \in Threads :
          /\ req[t].pc \notin {"load", "apply"}
          /\ req[t].pc \in {"generate", "reload", "attach"}
                => status[req[t].order] \notin {"absent", "unpaid"}
    /\ \A p \in Processes :
          req[p].pc = "apply" =>
              /\ req[p].row # "absent"
              /\ req[p].row = "unpaid" => status[req[p].order] = "unpaid"

\* Every status write of the order store goes forward.
LEMMA WritesForward ==
    ASSUME TypeInv, [Next]_vars
    PROVE  Forward
<1> USE DEF Forward, storeVars, providerVars
<1>a. status \in [Orders -> Statuses] /\ Processes \subseteq Handlers /\ Threads \subseteq Handlers
  BY DEF TypeInv, TypeOK, Handlers
<1>1. ASSUME NEW o, NEW cached, NEW new \in {"paid", "failed", "refunded", "fulfilled"},
             NEW blocked, Mark(o, cached, new, blocked)
      PROVE  Forward
  BY <1>a, <1>1 DEF Mark
<1>2. ASSUME NEW t \in Threads, NEW o \in Orders, CreateOrder(t, o) PROVE Forward
  BY <1>a, <1>2 DEF CreateOrder
<1>3. ASSUME NEW p \in Processes, ApplyPaid(p) \/ ApplyFailed(p) \/ ApplyRefunded(p)
      PROVE  Forward
  BY <1>1, <1>3
  DEF ApplyPaid, ApplyFailed, ApplyRefunded, MarkPaid, MarkFailed, MarkRefunded
<1>4. ASSUME NEW t \in Threads, ApplyMockPay(t) PROVE Forward
  BY <1>1, <1>4 DEF ApplyMockPay, MarkPaid
<1>5. ASSUME NEW h \in Handlers, AttachReport(h) PROVE Forward
  BY <1>1, <1>5 DEF AttachReport, MarkFulfilled
<1>6. ASSUME UNCHANGED status PROVE Forward
  BY <1>6
<1> QED
  BY <1>a, <1>2, <1>3, <1>4, <1>5, <1>6
  DEF Next, WebhookStep, ThreadStep, ReportStep, vars, VerifyNotification, LoadOrder,
      RefreshPaid, Acknowledge, ProcessCrashes, ReceiveWebhook, OpenCheckout,
      RecordCheckout, StartFulfil, StartMockPay, GenerateReport, SubjectGone,
      ReloadOrder, RequestFails, RemoveSubject

\* With one process and no /mock-pay every step keeps SoleWriter.
LEMMA SoleWriterStep ==
    ASSUME IInv, SoleWriter, [Next]_vars, NEW p0, Processes = {p0}, MockPay = FALSE
    PROVE  SoleWriter'
<1>0. Forward
  BY WritesForward DEF IInv
<1> USE DEF storeVars, providerVars
<1>a. /\ Processes \subseteq Handlers /\ Threads \subseteq Handlers
      /\ Processes \cap Threads = {} /\ Handlers = Processes \cup Threads
  BY ConstantsAssumption DEF Handlers
<1>b. status \in [Orders -> Statuses] /\ req \in [Handlers -> Request]
  BY DEF IInv, TypeInv, TypeOK
\* A handler moves on or ends its request; its order stays and nothing is written.
<1>k. ASSUME NEW h \in Handlers, UNCHANGED <<status, session>>,
             \A g \in Handlers \ {h} : req'[g] = req[g],
             \/ req'[h].pc = "idle"
             \/ /\ req'[h].order = req[h].order /\ req[h].pc # "idle"
                /\ req'[h].pc # "apply"
                /\ h \in Threads => req'[h].pc # "load"
                /\ h \in Threads /\ req'[h].pc \in {"generate", "reload", "attach"}
                      => req[h].pc \in {"generate", "reload", "attach"}
      PROVE  SoleWriter'
  BY <1>0, <1>a, <1>k DEF SoleWriter, Forward
<1>1. ASSUME NEW p \in Processes, VerifyNotification(p) PROVE SoleWriter'
  <2>1. req'[p].order = req[p].order /\ req'[p].pc \in {"record", "load"}
    BY <1>a, <1>b, <1>1 DEF VerifyNotification, Request
  <2> QED
    BY <1>a, <1>b, <1>k, <1>1, <2>1 DEF VerifyNotification
<1>2. ASSUME NEW h \in Handlers, LoadOrder(h) PROVE SoleWriter'
  <2>1. /\ req'[h].order = req[h].order /\ req'[h].pc = "apply"
        /\ req'[h].row = status[req[h].order]
    BY <1>b, <1>2 DEF LoadOrder, Request
  <2>2. h \in Processes /\ req[h].order \in Orders
    BY <1>a, <1>2, Here DEF LoadOrder, SoleWriter
  <2> QED
    BY <1>a, <1>b, <1>2, <2>1, <2>2 DEF LoadOrder, SoleWriter
<1>3. ASSUME NEW p \in Processes,
             UNCHANGED session, \A g \in Handlers \ {p} : req'[g] = req[g],
             req[p].pc # "idle", req'[p].pc # "apply", req'[p].order = req[p].order
      PROVE  SoleWriter'
  <2>1. \A h \in Handlers : req'[h].pc # "idle" => req[h].pc # "idle" /\ req'[h].order = req[h].order
    BY <1>3
  <2>2. \A q \in Processes : req'[q].pc # "apply"
    BY <1>3
  <2>3. \A t \in Threads : req'[t] = req[t]
    BY <1>a, <1>3
  <2>4. \A h \in Handlers : req'[h].pc # "idle" /\ req'[h].order \in Orders
            => status'[req'[h].order] # "absent"
    BY <1>0, <2>1 DEF Forward, SoleWriter
  <2>5. \A o \in session' : status'[o] # "absent"
    BY <1>0, <1>3 DEF Forward, SoleWriter, IInv, TypeInv, TypeOK
  <2>6. \A t \in Threads :
          /\ req'[t].pc \notin {"load", "apply"}
          /\ req'[t].pc \in {"generate", "reload", "attach"}
                => status'[req'[t].order] \notin {"absent", "unpaid"}
    BY <1>0, <1>a, <2>3, Here DEF Forward, SoleWriter
  <2> QED
    BY <2>2, <2>4, <2>5, <2>6 DEF SoleWriter
<1>4. ASSUME NEW p \in Processes, ApplyPaid(p) PROVE SoleWriter'
  <2>1. req'[p].order = req[p].order /\ req'[p].pc \in {"refresh", "record", "generate"}
    BY <1>a, <1>b, <1>4 DEF ApplyPaid, Request
  <2> QED
    BY <1>a, <1>b, <1>3, <1>4, <2>1 DEF ApplyPaid
<1>5. ASSUME NEW p \in Processes, RefreshPaid(p) PROVE SoleWriter'
  <2>1. req'[p].order = req[p].order /\ req'[p].pc \in {"record", "generate"}
    BY <1>a, <1>b, <1>5 DEF RefreshPaid, Request
  <2> QED
    BY <1>a, <1>b, <1>3, <1>5, <2>1 DEF RefreshPaid
<1>6. ASSUME NEW p \in Processes, ApplyFailed(p) \/ ApplyRefunded(p) PROVE SoleWriter'
  <2>1. req'[p].order = req[p].order /\ req'[p].pc = "record"
    BY <1>a, <1>b, <1>6 DEF ApplyFailed, ApplyRefunded, Request
  <2> QED
    BY <1>a, <1>b, <1>3, <1>6, <2>1 DEF ApplyFailed, ApplyRefunded
<1>7. ASSUME NEW h \in Handlers,
             Acknowledge(h) \/ SubjectGone(h) \/ RequestFails(h) \/ RecordCheckout(h)
      PROVE  SoleWriter'
  <2>1. req'[h].pc = "idle" /\ UNCHANGED <<status, session>>
    BY <1>b, <1>7 DEF Acknowledge, SubjectGone, RequestFails, RecordCheckout, Finish, Idle
  <2> QED
    BY <1>b, <1>k, <1>7, <2>1
    DEF Acknowledge, SubjectGone, RequestFails, RecordCheckout, Finish
<1>8. ASSUME NEW p \in Processes, ProcessCrashes(p) PROVE SoleWriter'
  <2>1. /\ UNCHANGED <<status, session>>
        /\ \A h \in Handlers : req'[h].pc = "idle" \/ req'[h] = req[h]
    BY <1>8 DEF ProcessCrashes, Idle
  <2> QED
    BY <1>a, <2>1 DEF SoleWriter
<1>9. ASSUME NEW p \in Processes, NEW n \in Notifications, ReceiveWebhook(p, n)
      PROVE  SoleWriter'
  <2>1. UNCHANGED <<status, session>> /\ \A g \in Handlers \ {p} : req'[g] = req[g]
    BY <1>b, <1>9 DEF ReceiveWebhook
  <2>2. CASE req' = req
    BY <2>1, <2>2 DEF SoleWriter
  <2>3. CASE req' # req
    <3>1. /\ req'[p].pc \in {"verify", "record"}
          /\ req'[p].order \in Orders => status[req'[p].order] # "absent"
      <4> DEFINE q == IF n.order = None
                THEN [Idle EXCEPT !.pc = "record", !.note = n, !.outcome = "ignored"]
                ELSE [Idle EXCEPT !.pc = "verify", !.note = n, !.order = n.order]
      <4>1. req' = [req EXCEPT ![p] = q]
        BY <1>9, <2>3 DEF ReceiveWebhook
      <4>2. q.pc \in {"verify", "record"} /\ q.order = n.order
        BY DEF Idle
      <4> HIDE DEF q
      <4> QED
        BY <1>a, <1>b, <1>9, <4>1, <4>2, ConstantsAssumption DEF ReceiveWebhook, SoleWriter
    <3> QED
      BY <1>a, <2>1, <3>1 DEF SoleWriter
  <2> QED
    BY <2>2, <2>3
<1>10. ASSUME NEW t \in Threads, OpenCheckout(t) PROVE SoleWriter'
  <2>1. /\ req'[t].pc = "idle" \/ (req'[t].pc = "created" /\ req'[t].order = req[t].order)
        /\ \A g \in Handlers \ {t} : req'[g] = req[g]
    BY <1>a, <1>b, <1>10 DEF OpenCheckout, Finish, Idle, Request
  <2>2. \A o \in session' : status[o] # "absent"
    BY <1>a, <1>10, Here DEF OpenCheckout, SoleWriter
  <2> QED
    BY <1>a, <1>10, <2>1, <2>2 DEF OpenCheckout, SoleWriter
<1>11. ASSUME NEW t \in Threads, NEW o \in Orders, CreateOrder(t, o) PROVE SoleWriter'
  <2>1. /\ req'[t].pc = "checkout" /\ req'[t].order = o
        /\ \A g \in Handlers \ {t} : req'[g] = req[g]
        /\ status' = [status EXCEPT ![o] = "unpaid"] /\ status[o] = "absent"
        /\ UNCHANGED session
    BY <1>a, <1>b, <1>11 DEF CreateOrder, Idle
  <2>2. \A h \in Handlers : req'[h].pc # "idle" /\ req'[h].order \in Orders
            => status'[req'[h].order] # "absent"
    BY <1>b, <2>1 DEF SoleWriter
  <2>3. \A u \in Threads :
          /\ req'[u].pc \notin {"load", "apply"}
          /\ req'[u].pc \in {"generate", "reload", "attach"}
                => status'[req'[u].order] \notin {"absent", "unpaid"}
    BY <1>0, <1>a, <2>1, Here DEF SoleWriter, Forward
  <2>4. \A p \in Processes : req'[p].pc = "apply" =>
              /\ req'[p].row # "absent"
              /\ req'[p].row = "unpaid" => status'[req'[p].order] = "unpaid"
    BY <1>a, <1>b, <2>1, Here DEF SoleWriter
  <2>5. \A x \in session' : status'[x] # "absent"
    BY <1>b, <2>1 DEF SoleWriter, IInv, TypeInv, TypeOK
  <2> QED
    BY <2>2, <2>3, <2>4, <2>5 DEF SoleWriter
<1>12. ASSUME NEW t \in Threads, NEW o \in Orders, StartFulfil(t, o) PROVE SoleWriter'
  <2>1. /\ req'[t].pc = "generate" /\ req'[t].order = o /\ status[o] = "paid"
        /\ \A g \in Handlers \ {t} : req'[g] = req[g]
        /\ UNCHANGED <<status, session>>
    BY <1>a, <1>b, <1>12 DEF StartFulfil, Idle
  <2> QED
    BY <1>a, <2>1 DEF SoleWriter
<1>13. ASSUME NEW h \in Handlers, GenerateReport(h) PROVE SoleWriter'
  <2>1. /\ req'[h].order = req[h].order /\ req'[h].pc = "reload" /\ req[h].pc = "generate"
        /\ \A g \in Handlers \ {h} : req'[g] = req[g]
        /\ UNCHANGED <<status, session>>
    BY <1>b, <1>13 DEF GenerateReport, Request
  <2> QED
    BY <1>k, <2>1
<1>14. ASSUME NEW h \in Handlers, ReloadOrder(h) PROVE SoleWriter'
  <2>1. /\ req'[h].order = req[h].order /\ req'[h].pc = "attach" /\ req[h].pc = "reload"
        /\ \A g \in Handlers \ {h} : req'[g] = req[g]
        /\ UNCHANGED <<status, session>>
    BY <1>b, <1>14 DEF ReloadOrder, Request
  <2> QED
    BY <1>k, <2>1
<1>15. ASSUME NEW p \in Processes, AttachReport(p) PROVE SoleWriter'
  <2>1. req'[p].order = req[p].order /\ req'[p].pc = "record"
    BY <1>a, <1>b, <1>15 DEF AttachReport, Request
  <2> QED
    BY <1>a, <1>b, <1>3, <1>15, <2>1 DEF AttachReport
<1>16. ASSUME NEW t \in Threads, AttachReport(t) PROVE SoleWriter'
  <2>1. /\ req'[t].pc = "idle" /\ \A g \in Handlers \ {t} : req'[g] = req[g]
        /\ \A o \in Orders : o # req[t].order => status'[o] = status[o]
        /\ UNCHANGED session
    BY <1>a, <1>b, <1>16 DEF AttachReport, MarkFulfilled, Mark, Idle
  <2>2. status[req[t].order] # "unpaid" /\ req[t].order \in Orders
    BY <1>a, <1>16, Here DEF AttachReport, SoleWriter
  <2>3. \A p \in Processes : req'[p].pc = "apply" =>
              /\ req'[p].row # "absent"
              /\ req'[p].row = "unpaid" => status'[req'[p].order] = "unpaid"
    BY <1>a, <2>1, <2>2, Here DEF SoleWriter
  <2>4. \A h \in Handlers : req'[h].pc # "idle" /\ req'[h].order \in Orders
            => status'[req'[h].order] # "absent"
    BY <1>0, <2>1 DEF SoleWriter, Forward
  <2>5. \A u \in Threads :
          /\ req'[u].pc \notin {"load", "apply"}
          /\ req'[u].pc \in {"generate", "reload", "attach"}
                => status'[req'[u].order] \notin {"absent", "unpaid"}
    BY <1>0, <1>a, <2>1, Here DEF SoleWriter, Forward
  <2>6. \A x \in session' : status'[x] # "absent"
    BY <1>0, <2>1 DEF SoleWriter, Forward, IInv, TypeInv, TypeOK
  <2> QED
    BY <2>3, <2>4, <2>5, <2>6 DEF SoleWriter
<1>17. ASSUME NEW o \in Orders, RemoveSubject(o) PROVE SoleWriter'
  BY <1>17 DEF RemoveSubject, SoleWriter
<1>18. CASE UNCHANGED vars
  BY <1>18 DEF vars, SoleWriter
<1>19. ASSUME NEW t \in Threads PROVE ~ApplyMockPay(t)
  BY <1>a DEF ApplyMockPay, SoleWriter
<1>20. ASSUME NEW t \in Threads, NEW o \in Orders PROVE ~StartMockPay(t, o)
  BY DEF StartMockPay
<1> QED
  BY <1>a, <1>1, <1>2, <1>4, <1>5, <1>6, <1>7, <1>8, <1>9, <1>10, <1>11, <1>12, <1>13,
     <1>14, <1>15, <1>16, <1>17, <1>18, <1>19, <1>20
  DEF Next, WebhookStep, ThreadStep, ReportStep

\* With a single process and /mock-pay disabled, as in production, no late,
\* duplicate or racing paid event takes a fulfilled order back to paid.
THEOREM NeverReopens ==
    ASSUME NEW p0, Processes = {p0}, MockPay = FALSE
    PROVE  Spec => FulfilledNeverReopens
<1>1. Init => SoleWriter
  BY ConstantsAssumption DEF Init, SoleWriter, Idle, Handlers
<1>2. IInv /\ SoleWriter /\ [Next]_vars => SoleWriter'
  BY SoleWriterStep
<1>3. IInv /\ SoleWriter /\ [Next]_vars =>
        [\A o \in Orders : status[o] = "fulfilled" => status'[o] \notin {"unpaid", "paid"}]_vars
  <2> SUFFICES ASSUME IInv, SoleWriter, [Next]_vars, NEW o \in Orders,
                      status[o] = "fulfilled", status'[o] \in {"unpaid", "paid"}
               PROVE  FALSE
    OBVIOUS
  <2>0. status'[o] = "paid"
    BY WritesForward DEF IInv, Forward
  <2>1. ASSUME NEW p \in Processes, ApplyPaid(p) PROVE FALSE
    <3>1. Mark(req[p].order, req[p].row, "paid", PaidBlocked) /\ req[p].pc = "apply"
      BY <2>1 DEF ApplyPaid, MarkPaid
    <3>2. req[p].order = o /\ req[p].row \notin PaidBlocked \cup {"paid"}
      BY <2>0, <3>1 DEF Mark, IInv, TypeInv, TypeOK
    <3>3. req[p].row \in Statuses
      BY RequestFacts DEF IInv, Handlers
    <3> QED
      BY <3>1, <3>2, <3>3 DEF SoleWriter, Statuses, PaidBlocked
  <2>2. \A t \in Threads : ~ApplyMockPay(t)
    BY DEF ApplyMockPay, SoleWriter
  <2>3. ~ \E p \in Processes : ApplyFailed(p) \/ ApplyRefunded(p)
    BY <2>0 DEF ApplyFailed, ApplyRefunded, MarkFailed, MarkRefunded, Mark, IInv, TypeInv, TypeOK
  <2>4. ~ \E h \in Handlers : AttachReport(h)
    BY <2>0 DEF AttachReport, MarkFulfilled, Mark, IInv, TypeInv, TypeOK
  <2>5. ~ \E t \in Threads, x \in Orders : CreateOrder(t, x)
    BY <2>0 DEF CreateOrder, IInv, TypeInv, TypeOK
  <2>6. status' # status
    BY <2>0
  <2> QED
    BY <2>1, <2>2, <2>3, <2>4, <2>5, <2>6
    DEF Next, WebhookStep, ThreadStep, ReportStep, vars, VerifyNotification, LoadOrder,
        RefreshPaid, Acknowledge, ProcessCrashes, ReceiveWebhook, OpenCheckout,
        RecordCheckout, StartFulfil, StartMockPay, GenerateReport, SubjectGone,
        ReloadOrder, RequestFails, RemoveSubject, storeVars, providerVars
<1> QED
  BY <1>1, <1>2, <1>3, Safety, PTL DEF Spec, FulfilledNeverReopens

-----------------------------------------------------------------------------
(* The reports an event generates.                                           *)

\* A process may still generate a report for event e: it is handling it and has not done
\* so, or the event is not recorded and may be delivered to it.
MayYet(p, e) ==
    IF req[p].pc # "idle" /\ req[p].note.event = e
    THEN req[p].pc \in {"verify", "load", "apply", "refresh", "generate"}
    ELSE webhookEvents[e] = None

\* The processes that have had their report for event e, each paid for by one: what the
\* bound needs to be inductive.  A death gives a process its chance back, and is counted.
Spent(e) == {p \in Processes : ~MayYet(p, e)}

Counted(e) ==
    /\ IsFiniteSet(ReportsOf(e))
    /\ Cardinality(ReportsOf(e)) <= faults + Cardinality(Spent(e))

CountInv == \A e \in Events : Counted(e)

\* The processes that have had their report are finitely many.
LEMMA SpentFinite ==
    ASSUME NEW e
    PROVE  /\ IsFiniteSet(Spent(e)) /\ Cardinality(Spent(e)) \in Nat
           /\ Cardinality(Spent(e)) <= Cardinality(Processes) /\ Cardinality(Processes) \in Nat
<1>1. Spent(e) \in SUBSET Processes /\ IsFiniteSet(Processes)
  BY ConstantsAssumption DEF Spent
<1> QED
  BY <1>1, FS_Subset, FS_CardinalityType

\* No process gets its chance back, and no report is added.
LEMMA CountKept ==
    ASSUME NEW e, TypeOK, Counted(e), ReportsOf(e)' = ReportsOf(e), faults' = faults,
           \A p \in Processes : MayYet(p, e)' => MayYet(p, e)
    PROVE  Counted(e)'
<1>1. Spent(e) \in SUBSET (Spent(e)')
  BY DEF Spent
<1>2. /\ IsFiniteSet(Spent(e)') /\ Cardinality(Spent(e)') \in Nat
      /\ Cardinality(Spent(e)) \in Nat
  <2>1. Spent(e)' \in SUBSET Processes /\ IsFiniteSet(Processes)
    BY ConstantsAssumption DEF Spent
  <2> QED
    BY <2>1, FS_Subset, FS_CardinalityType, SpentFinite
<1>3. Cardinality(Spent(e)) <= Cardinality(Spent(e)')
  BY <1>1, <1>2, FS_Subset
<1>4. Cardinality(ReportsOf(e)) \in Nat /\ faults \in Nat
  BY FS_CardinalityType, ConstantsAssumption DEF Counted, TypeOK
<1> QED
  BY <1>1, <1>2, <1>3, <1>4 DEF Counted

\* One process gets its chance back, and a request has died.
LEMMA CountFaults ==
    ASSUME NEW e, TypeOK, Counted(e), UNCHANGED reports, faults' = faults + 1,
           NEW d, \A p \in Processes : p # d /\ MayYet(p, e)' => MayYet(p, e)
    PROVE  Counted(e)'
<1>1. Spent(e) \ {d} \in SUBSET (Spent(e)') /\ ReportsOf(e)' = ReportsOf(e)
  BY DEF Spent, ReportsOf
<1>2. /\ IsFiniteSet(Spent(e)') /\ Cardinality(Spent(e)') \in Nat
      /\ IsFiniteSet(Spent(e)) /\ Cardinality(Spent(e)) \in Nat
  <2>1. Spent(e)' \in SUBSET Processes /\ IsFiniteSet(Processes)
    BY ConstantsAssumption DEF Spent
  <2> QED
    BY <2>1, FS_Subset, FS_CardinalityType, SpentFinite
<1>3. Cardinality(Spent(e) \ {d}) <= Cardinality(Spent(e)')
  BY <1>1, <1>2, FS_Subset
<1>4. Cardinality(Spent(e) \ {d}) >= Cardinality(Spent(e)) - 1
  <2>1. Cardinality(Spent(e) \ {d})
          = IF d \in Spent(e) THEN Cardinality(Spent(e)) - 1 ELSE Cardinality(Spent(e))
    BY <1>2, FS_RemoveElement
  <2> QED
    BY <1>2, <2>1
<1>5. Cardinality(ReportsOf(e)) \in Nat /\ faults \in Nat
  BY FS_CardinalityType, ConstantsAssumption DEF Counted, TypeOK
<1>6. Cardinality(Spent(e) \ {d}) \in Nat
  BY <1>2, FS_RemoveElement, FS_CardinalityType
<1> QED
  BY <1>1, <1>2, <1>3, <1>4, <1>5, <1>6 DEF Counted

\* A report is added, and the process that generated it has had its chance.
LEMMA CountReport ==
    ASSUME NEW e, TypeOK, Counted(e), faults' = faults, NEW p \in Processes,
           NEW r, ReportsOf(e)' = ReportsOf(e) \cup {r},
           p \notin Spent(e), Spent(e)' = Spent(e) \cup {p}
    PROVE  Counted(e)'
<1>1. /\ IsFiniteSet(Spent(e)) /\ Cardinality(Spent(e)) \in Nat
      /\ Cardinality(Spent(e)') = Cardinality(Spent(e)) + 1
  BY SpentFinite, FS_AddElement
<1>2. Cardinality(ReportsOf(e)) \in Nat /\ IsFiniteSet(ReportsOf(e)) /\ faults \in Nat
  BY FS_CardinalityType, ConstantsAssumption DEF Counted, TypeOK
<1>3. /\ IsFiniteSet(ReportsOf(e)')
      /\ Cardinality(ReportsOf(e)')
           = IF r \in ReportsOf(e) THEN Cardinality(ReportsOf(e)) ELSE Cardinality(ReportsOf(e)) + 1
  BY <1>2, FS_AddElement
<1> QED
  BY <1>1, <1>2, <1>3 DEF Counted

\* Every step keeps the count of event e.
LEMMA CountStep ==
    ASSUME IInv, CountInv, [Next]_vars, NEW e \in Events
    PROVE  Counted(e)'
<1> USE DEF storeVars, providerVars
<1>a. Processes \subseteq Handlers /\ Threads \subseteq Handlers /\ Processes \cap Threads = {}
  BY ConstantsAssumption DEF Handlers
<1>b. TypeInv /\ TypeOK /\ RequestInv /\ Counted(e)
  BY DEF IInv, TypeInv, CountInv
<1>c. /\ req \in [Handlers -> Request] /\ webhookEvents \in [Events -> Outcomes \cup {None}]
      /\ faults \in Nat
  BY <1>b, ConstantsAssumption DEF TypeOK
\* A process that moves on within its webhook.
<1>m. ASSUME NEW p \in Processes, UNCHANGED <<reports, webhookEvents, faults>>,
             \A g \in Handlers \ {p} : req'[g] = req[g],
             req[p].pc # "idle" /\ req'[p].pc # "idle", req'[p].note = req[p].note,
             \/ req[p].pc \in {"verify", "load", "apply", "refresh", "generate"}
             \/ req'[p].pc \notin {"verify", "load", "apply", "refresh", "generate"}
      PROVE  Counted(e)'
  <2>1. \A q \in Processes : MayYet(q, e)' => MayYet(q, e)
    BY <1>a, <1>m DEF MayYet
  <2> QED
    BY <1>b, <1>m, <2>1, CountKept DEF ReportsOf
\* A thread's step.
<1>t. ASSUME NEW t \in Threads, UNCHANGED <<reports, webhookEvents, faults>>,
             \A g \in Handlers \ {t} : req'[g] = req[g]
      PROVE  Counted(e)'
  <2>1. \A q \in Processes : MayYet(q, e)' => MayYet(q, e)
    BY <1>a, <1>t DEF MayYet
  <2> QED
    BY <1>b, <1>t, <2>1, CountKept DEF ReportsOf
<1>1. ASSUME NEW p \in Processes,
             \/ VerifyNotification(p) \/ LoadOrder(p) \/ ApplyPaid(p) \/ RefreshPaid(p)
             \/ ApplyFailed(p) \/ ApplyRefunded(p) \/ ReloadOrder(p) \/ AttachReport(p)
      PROVE  Counted(e)'
  <2>1. /\ UNCHANGED <<reports, webhookEvents, faults>>
        /\ \A g \in Handlers \ {p} : req'[g] = req[g]
    BY <1>a, <1>c, <1>1 DEF VerifyNotification, LoadOrder, ApplyPaid, RefreshPaid, ApplyFailed,
       ApplyRefunded, ReloadOrder, AttachReport
  <2>2. /\ req[p].pc # "idle" /\ req'[p].pc # "idle" /\ req'[p].note = req[p].note
        /\ \/ req[p].pc \in {"verify", "load", "apply", "refresh", "generate"}
           \/ req'[p].pc \notin {"verify", "load", "apply", "refresh", "generate"}
    <3>1. req[p] \in Request /\ p \in Handlers
      BY <1>a, <1>c
    <3>2. CASE VerifyNotification(p)
      BY <1>c, <3>1, <3>2 DEF VerifyNotification, Request
    <3>3. CASE LoadOrder(p)
      BY <1>c, <3>1, <3>3 DEF LoadOrder, Request
    <3>4. CASE ApplyPaid(p)
      BY <1>c, <3>1, <3>4 DEF ApplyPaid, Request
    <3>5. CASE RefreshPaid(p)
      BY <1>c, <3>1, <3>5 DEF RefreshPaid, Request
    <3>6. CASE ApplyFailed(p) \/ ApplyRefunded(p)
      BY <1>c, <3>1, <3>6 DEF ApplyFailed, ApplyRefunded, Request
    <3>7. CASE ReloadOrder(p)
      BY <1>c, <3>1, <3>7 DEF ReloadOrder, Request
    <3>8. CASE AttachReport(p)
      BY <1>c, <3>1, <3>8 DEF AttachReport, Request
    <3> QED
      BY <1>1, <3>2, <3>3, <3>4, <3>5, <3>6, <3>7, <3>8
  <2> QED
    BY <1>m, <2>1, <2>2
<1>2. ASSUME NEW p \in Processes, Acknowledge(p) PROVE Counted(e)'
  <2>1. /\ UNCHANGED <<reports, faults>> /\ req'[p].pc = "idle" /\ req[p].pc # "idle"
        /\ \A g \in Handlers \ {p} : req'[g] = req[g]
    BY <1>a, <1>c, <1>2 DEF Acknowledge, Finish, Idle
  <2>2. req[p].note.event \in Events /\ req[p].outcome # None
    BY <1>a, <1>b, <2>1, RequestFacts, ConstantsAssumption DEF Events
  <2>3. /\ webhookEvents'[req[p].note.event] # None
        /\ webhookEvents'[e] = None => webhookEvents[e] = None
    BY <1>c, <1>2, <2>2 DEF Acknowledge, RecordWebhookEvent
  <2>4. \A q \in Processes : MayYet(q, e)' => MayYet(q, e)
    BY <1>a, <2>1, <2>3 DEF MayYet
  <2> QED
    BY <1>b, <2>1, <2>4, CountKept DEF ReportsOf
<1>3. ASSUME NEW p \in Processes, NEW n \in Notifications, ReceiveWebhook(p, n)
      PROVE  Counted(e)'
  <2>1. UNCHANGED <<reports, webhookEvents, faults>> /\ req[p].pc = "idle"
    BY <1>3 DEF ReceiveWebhook
  <2>2. CASE UNCHANGED req
    BY <1>b, <2>1, <2>2, CountKept DEF MayYet, ReportsOf
  <2>3. CASE req' # req
    <3>1. /\ webhookEvents[n.event] = None
          /\ \A g \in Handlers \ {p} : req'[g] = req[g]
      BY <1>c, <1>3, <2>3 DEF ReceiveWebhook
    <3>2. req'[p].note = n /\ req'[p].pc # "idle"
      <4> DEFINE q == IF n.order = None
                THEN [Idle EXCEPT !.pc = "record", !.note = n, !.outcome = "ignored"]
                ELSE [Idle EXCEPT !.pc = "verify", !.note = n, !.order = n.order]
      <4>1. req' = [req EXCEPT ![p] = q]
        BY <1>3, <2>3 DEF ReceiveWebhook
      <4>2. q.note = n /\ q.pc # "idle"
        BY DEF Idle
      <4> HIDE DEF q
      <4> QED
        BY <1>a, <1>c, <4>1, <4>2
    <3>3. \A q \in Processes : MayYet(q, e)' => MayYet(q, e)
      BY <1>a, <2>1, <3>1, <3>2 DEF MayYet
    <3> QED
      BY <1>b, <2>1, <3>3, CountKept DEF ReportsOf
  <2> QED
    BY <2>2, <2>3
<1>4. ASSUME NEW h \in Handlers, SubjectGone(h) PROVE Counted(e)'
  <2>1. /\ UNCHANGED <<reports, webhookEvents, faults>> /\ req'[h].pc = "idle"
        /\ req[h].pc = "generate" /\ \A g \in Handlers \ {h} : req'[g] = req[g]
    BY <1>c, <1>4 DEF SubjectGone, Finish, Idle
  <2>2. \A q \in Processes : MayYet(q, e)' => MayYet(q, e)
    BY <1>a, <2>1 DEF MayYet
  <2> QED
    BY <1>b, <2>1, <2>2, CountKept DEF ReportsOf
<1>5. ASSUME NEW h \in Handlers, GenerateReport(h) PROVE Counted(e)'
  <2>1. PICK r \in ReportIds :
           /\ reports[r] = NoRow
           /\ reports' = [reports EXCEPT ![r] = [order |-> req[h].order, event |-> CauseOf(h)]]
           /\ req' = [req EXCEPT ![h].pc = "reload", ![h].report = r]
    BY <1>5 DEF GenerateReport, FreshIds
  <2>2. /\ UNCHANGED <<webhookEvents, faults>> /\ req[h].pc = "generate"
        /\ \A g \in Handlers \ {h} : req'[g] = req[g]
        /\ req'[h].pc = "reload" /\ req'[h].note = req[h].note
    <3>1. req[h] \in Request
      BY <1>c
    <3> QED
      BY <1>c, <1>5, <2>1, <3>1 DEF GenerateReport, Request
  <2>3. e # None /\ reports[r].event # e
    BY <2>1, ConstantsAssumption DEF Events, NoRow
  <2>4. \A x \in ReportIds : reports'[x].event = IF x = r THEN CauseOf(h) ELSE reports[x].event
    BY <1>b, <2>1 DEF TypeOK
  <2>5. CASE CauseOf(h) # e
    <3>1. ReportsOf(e)' = ReportsOf(e)
      BY <2>3, <2>4, <2>5 DEF ReportsOf
    <3>2. \A q \in Processes : MayYet(q, e)' => MayYet(q, e)
      BY <1>a, <2>2 DEF MayYet
    <3> QED
      BY <1>b, <2>2, <3>1, <3>2, CountKept
  <2>6. CASE CauseOf(h) = e
    <3>1. req[h].note # None /\ req[h].note.event = e
      BY <2>3, <2>6 DEF CauseOf
    <3>2. h \in Processes
      BY <1>b, <3>1 DEF RequestInv, Justified
    <3>3. ReportsOf(e)' = ReportsOf(e) \cup {r}
      BY <2>3, <2>4, <2>6 DEF ReportsOf
    <3>4. MayYet(h, e) /\ ~MayYet(h, e)' /\ \A q \in Processes \ {h} : MayYet(q, e)' = MayYet(q, e)
      BY <1>a, <2>2, <3>1 DEF MayYet
    <3>5. h \notin Spent(e) /\ Spent(e)' = Spent(e) \cup {h}
      BY <3>2, <3>4 DEF Spent
    <3> QED
      BY <1>b, <2>2, <3>2, <3>3, <3>5, CountReport
  <2> QED
    BY <2>5, <2>6
<1>6. ASSUME NEW h \in Handlers, RequestFails(h) PROVE Counted(e)'
  <2>1. /\ UNCHANGED <<reports, webhookEvents>> /\ faults' = faults + 1
        /\ \A g \in Handlers \ {h} : req'[g] = req[g]
    BY <1>c, <1>6 DEF RequestFails, Finish
  <2>2. \A q \in Processes : q # h /\ MayYet(q, e)' => MayYet(q, e)
    BY <1>a, <2>1 DEF MayYet
  <2> QED
    BY <1>b, <2>1, <2>2, CountFaults
<1>7. ASSUME NEW p \in Processes, ProcessCrashes(p) PROVE Counted(e)'
  <2>1. /\ UNCHANGED <<reports, webhookEvents>> /\ faults' = faults + 1
        /\ \A q \in Processes \ {p} : req'[q] = req[q]
    BY <1>a, <1>7, ConstantsAssumption DEF ProcessCrashes
  <2>2. \A q \in Processes : q # p /\ MayYet(q, e)' => MayYet(q, e)
    BY <2>1 DEF MayYet
  <2> QED
    BY <1>b, <2>1, <2>2, CountFaults
<1>8. ASSUME NEW t \in Threads,
             ThreadStep(t) \/ ReloadOrder(t) \/ AttachReport(t)
      PROVE  Counted(e)'
  BY <1>a, <1>c, <1>t, <1>8 DEF ThreadStep, OpenCheckout, RecordCheckout, LoadOrder,
     ApplyMockPay, ReloadOrder, AttachReport, Finish
<1>9. ASSUME NEW t \in Threads, NEW o \in Orders,
             CreateOrder(t, o) \/ StartFulfil(t, o) \/ StartMockPay(t, o)
      PROVE  Counted(e)'
  BY <1>a, <1>c, <1>t, <1>9 DEF CreateOrder, StartFulfil, StartMockPay
<1>10. ASSUME UNCHANGED <<reports, webhookEvents, faults, req>> PROVE Counted(e)'
  BY <1>b, <1>10, CountKept DEF MayYet, ReportsOf
<1> QED
  BY <1>a, <1>1, <1>2, <1>3, <1>4, <1>5, <1>6, <1>7, <1>8, <1>9, <1>10
  DEF Next, WebhookStep, ReportStep, RemoveSubject, vars, Handlers

\* Without reports there is nothing to count.
LEMMA CountInit == Init => CountInv
<1> SUFFICES ASSUME Init, NEW e \in Events PROVE Counted(e)
  BY DEF CountInv
<1>1. ReportsOf(e) = {}
  BY ConstantsAssumption DEF Init, ReportsOf, NoRow, Events
<1> QED
  BY <1>1, FS_EmptySet, SpentFinite DEF Init, Counted

\* However often the provider repeats a payment event, to whichever processes, it
\* generates no more reports than there are processes and requests that died.
THEOREM RepeatsAreBounded == Spec => []RepeatsBoundedByFaults
<1>1. IInv /\ CountInv /\ [Next]_vars => CountInv'
  BY CountStep DEF CountInv, Events
<1>2. IInv /\ CountInv => RepeatsBoundedByFaults
  <2> SUFFICES ASSUME IInv, CountInv, NEW e \in Events
               PROVE  Cardinality(ReportsOf(e)) <= Cardinality(Processes) + faults
    BY DEF RepeatsBoundedByFaults
  <2>1. Counted(e) /\ faults \in Nat
    BY ConstantsAssumption DEF CountInv, IInv, TypeInv, TypeOK
  <2> QED
    BY <2>1, SpentFinite, FS_CardinalityType DEF Counted
<1> QED
  BY <1>1, <1>2, CountInit, Safety, PTL DEF Spec
=============================================================================
