---------------------------- MODULE ReportCredits ----------------------------
(***************************************************************************)
(* The report allowance of one account: the subscription's reports first,  *)
(* then the credits of the report bundles it bought.                       *)
(*                                                                         *)
(* A credit is not a counter.  The bundle order's product says how many it *)
(* grants, and every generated report names the bundle that paid for it in *)
(* its metadata; the balance is counted again from the stored rows by each *)
(* request.  The request reads the reports, the orders, the reports again, *)
(* and at last stores its own report, each in a statement of its own and   *)
(* nothing locked, while other requests of the account do the same.        *)
(***************************************************************************)
EXTENDS Naturals, FiniteSets

CONSTANTS
    Threads,    \* thread-pool slots that work for this account
    Bundles,    \* bundle orders of the account
    Credits,    \* credits each bundle grants
    CreatedAt,  \* when each bundle was ordered
    PlanLimit,  \* account.limits.monthly_reports
    ReportIds,  \* identities of generated reports (bounds their number)
    MaxMonth,   \* bound on the months that pass
    None

Months == 1..MaxMonth

ASSUME ConstantsAssumption ==
    /\ IsFiniteSet(Threads) /\ Threads # {}
    /\ IsFiniteSet(ReportIds)
    /\ Credits \in [Bundles -> Nat \ {0}]
    /\ CreatedAt \in [Bundles -> Nat]
    /\ PlanLimit \in Nat \ {0}
    /\ MaxMonth \in Nat \ {0}
    /\ None \notin Bundles

VARIABLES
    bundle,   \* report_orders.status of each bundle
    reports,  \* generated_reports of the account: what each row's metadata says
    req,      \* the request each slot is working on
    month     \* the calendar month

vars == <<bundle, reports, req, month>>

BundleStatuses == {"unpaid", "fulfilled", "refunded"}
Kinds          == {"none", "plan", "credit", "receipt"}

\* A report charged to the plan, to a credit of bundle `source`, or to nothing:
\* the receipt stored when bundle `source` was fulfilled.
Row   == [kind: Kinds, source: Bundles \cup {None}, month: 0..MaxMonth]
NoRow == [kind |-> "none", source |-> None, month |-> 0]

\* `bundles` is the list of fulfilled bundles the request has read.
Request == [pc: {"idle", "orders", "credits", "save"},
            bundles: SUBSET Bundles, source: Bundles \cup {None}]
Idle    == [pc |-> "idle", bundles |-> {}, source |-> None]

TypeOK ==
    /\ bundle \in [Bundles -> BundleStatuses]
    /\ reports \in [ReportIds -> Row]
    /\ req \in [Threads -> Request]
    /\ month \in Months

Init ==
    /\ bundle = [b \in Bundles |-> "unpaid"]
    /\ reports = [r \in ReportIds |-> NoRow]
    /\ req = [t \in Threads |-> Idle]
    /\ month = 1

-----------------------------------------------------------------------------
FreshIds == {r \in ReportIds : reports[r].kind = "none"}

\* Mutant of Store: the report is dated into the next period.
MutantStore(kind, source) ==
    /\ FreshIds # {}
    /\ reports' = [reports EXCEPT ![CHOOSE r \in FreshIds : TRUE] =
                      [kind |-> kind, source |-> source, month |-> month + 1]]

\* Stored under a new uuid.
Store(kind, source) ==
    /\ FreshIds # {}
    /\ reports' = [reports EXCEPT ![CHOOSE r \in FreshIds : TRUE] =
                      [kind |-> kind, source |-> source, month |-> month]]

\* _counts_against_subscription_limit: no receipt, paid or credit report, but
\* every other report the account ever generated.
PlanReports == {r \in ReportIds : reports[r].kind = "plan"}

SpentOn(b) == {r \in ReportIds : reports[r].kind = "credit" /\ reports[r].source = b}

\* Mutant of HasCredit: off by one, the last credit can be spent twice.
MutantHasCredit(b) == Cardinality(SpentOn(b)) <= Credits[b]

HasCredit(b) == Cardinality(SpentOn(b)) < Credits[b]

\* _available_credits_by_order lists the newest bundle first.
Newest(bs) == {b \in bs : \A c \in bs : CreatedAt[c] <= CreatedAt[b]}

-----------------------------------------------------------------------------
(* POST /reports/object/generate and .../drafts/{draft_id}/report.          *)

\* Mutant of CountPlan: off by one, a report more than the plan has.
MutantCountPlan(t) ==
    /\ req[t].pc = "idle"
    /\ req' = [req EXCEPT ![t].pc =
                  IF Cardinality(PlanReports) <= PlanLimit THEN "save" ELSE "orders"]
    /\ UNCHANGED <<bundle, reports, month>>

\* Mutant of CountPlan: an account that has bought a bundle uses that first.
MutantCreditsFirst(t) ==
    /\ req[t].pc = "idle"
    /\ req' = [req EXCEPT ![t].pc =
                  IF \E b \in Bundles : bundle[b] = "fulfilled" THEN "orders" ELSE "save"]
    /\ UNCHANGED <<bundle, reports, month>>

\* The reports charged to the plan are counted, among the ten thousand the read returns
\* (routes.py:6155; a window larger than any account here); below the limit the request
\* goes straight to its report.
CountPlan(t) ==
    /\ req[t].pc = "idle"
    /\ req' = [req EXCEPT ![t].pc =
                  IF Cardinality(PlanReports) < PlanLimit THEN "save" ELSE "orders"]
    /\ UNCHANGED <<bundle, reports, month>>

\* Mutant of ReadOrders: a bundle counts before it is paid for.
MutantReadOrders(t) ==
    LET listed == {b \in Bundles : bundle[b] # "refunded"} IN
    /\ req[t].pc = "orders"
    /\ req' = [req EXCEPT ![t] = IF listed = {} THEN Idle
                                 ELSE [@ EXCEPT !.pc = "credits", !.bundles = listed]]
    /\ UNCHANGED <<bundle, reports, month>>

\* list_orders, in a window of ten thousand as the reports below (routes.py:6198, 6206);
\* without a fulfilled bundle the request is refused with 403.
ReadOrders(t) ==
    LET fulfilled == {b \in Bundles : bundle[b] = "fulfilled"} IN
    /\ req[t].pc = "orders"
    /\ req' = [req EXCEPT ![t] = IF fulfilled = {} THEN Idle
                                 ELSE [@ EXCEPT !.pc = "credits", !.bundles = fulfilled]]
    /\ UNCHANGED <<bundle, reports, month>>

\* The reports again: the newest bundle with a credit left is charged.
ReadCredits(t) ==
    LET usable == {b \in req[t].bundles : HasCredit(b)} IN
    /\ req[t].pc = "credits"
    /\ \/ \E b \in Newest(usable) :
             req' = [req EXCEPT ![t] = [@ EXCEPT !.pc = "save", !.bundles = {}, !.source = b]]
       \/ /\ usable = {}
          /\ req' = [req EXCEPT ![t] = Idle]
    /\ UNCHANGED <<bundle, reports, month>>

SaveReport(t) ==
    /\ req[t].pc = "save"
    /\ Store(IF req[t].source = None THEN "plan" ELSE "credit", req[t].source)
    /\ req' = [req EXCEPT ![t] = Idle]
    /\ UNCHANGED <<bundle, month>>

\* The report cannot be rendered or stored, or the process dies.
RequestFails(t) ==
    /\ req[t].pc # "idle"
    /\ req' = [req EXCEPT ![t] = Idle]
    /\ UNCHANGED <<bundle, reports, month>>

-----------------------------------------------------------------------------
(* What the order and webhook routes do to a bundle meanwhile (the module   *)
(* ReportOrders has the steps): it is fulfilled, also once more after a     *)
(* refund that raced a fulfilment, and it is refunded.                      *)

FulfilBundle(b) ==
    /\ bundle[b] # "fulfilled"
    /\ Store("receipt", b)
    /\ bundle' = [bundle EXCEPT ![b] = "fulfilled"]
    /\ UNCHANGED <<req, month>>

RefundBundle(b) ==
    /\ bundle[b] # "refunded"
    /\ bundle' = [bundle EXCEPT ![b] = "refunded"]
    /\ UNCHANGED <<reports, req, month>>

NextMonth ==
    /\ month < MaxMonth
    /\ month' = month + 1
    /\ UNCHANGED <<bundle, reports, req>>

Next ==
    \/ \E t \in Threads :
          \/ CountPlan(t)
          \/ ReadOrders(t)
          \/ ReadCredits(t)
          \/ SaveReport(t)
          \/ RequestFails(t)
    \/ \E b \in Bundles : FulfilBundle(b) \/ RefundBundle(b)
    \/ NextMonth

Spec == Init /\ [][Next]_vars

-----------------------------------------------------------------------------
(* Properties.                                                              *)

\* Concurrent requests can take the same last credit, because the row that
\* spends it is stored after the balance was read; but a bundle is overspent by
\* fewer reports than there are slots, however long the account lives and
\* however its bundles are refunded and fulfilled.  One slot overspends nothing.
OverspendBounded ==
    \A b \in Bundles : Cardinality(SpentOn(b)) + 1 <= Credits[b] + Cardinality(Threads)

\* The same for the reports that come with the plan.
PlanOverrunBounded ==
    Cardinality(PlanReports) + 1 <= PlanLimit + Cardinality(Threads)

\* Bought credits are touched only once the plan's reports are used up: no
\* interleaving charges a credit while the plan still had a report to give.
PlanBeforeCredits ==
    (\E b \in Bundles : SpentOn(b) # {}) => Cardinality(PlanReports) >= PlanLimit

\* A credit is spent only on a bundle that was bought and fulfilled, even when
\* the order is refunded between the request's reads.
CreditsWereBought ==
    \A b \in Bundles : SpentOn(b) # {} =>
        \E r \in ReportIds : reports[r].kind = "receipt" /\ reports[r].source = b

-----------------------------------------------------------------------------
(* What the documentation says and the code does not keep.                  *)

\* Credits are spent when the "monthly report limit" is used up
\* (README.md:1192), so a request turns to them only in a month whose reports
\* have been generated.
AllowanceIsMonthly ==
    [][\A t \in Threads : req[t].pc = "idle" /\ req'[t].pc = "orders"
          => Cardinality({r \in PlanReports : reports[r].month = month}) >= PlanLimit]_vars
=============================================================================
