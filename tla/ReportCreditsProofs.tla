------------------------- MODULE ReportCreditsProofs -------------------------
(* Proofs about ReportCredits, for every number of slots, bundles, credits    *)
(* and reports.                                                              *)
EXTENDS ReportCredits, FiniteSetTheorems, TLAPS

\* A request that is about to store a report charged to s (None: the plan).
Charges(q, s) == q.pc = "save" /\ q.source = s
InFlight(s)   == {t \in Threads : Charges(req[t], s)}

\* The bundle has been fulfilled at some time: its receipt is stored.
Receipted(b) == \E r \in ReportIds : reports[r].kind = "receipt" /\ reports[r].source = b

Exhausted == Cardinality(PlanReports) >= PlanLimit

\* Where a request stands, given what is stored.
Sound(q) ==
    /\ q.pc # "save" => q.source = None
    /\ q.pc \in {"orders", "credits"} \/ q.source # None => Exhausted
    /\ \A b \in q.bundles : Receipted(b)
    /\ q.source # None => Receipted(q.source)

Requests == \A t \in Threads : Sound(req[t])

\* Reports stored and reports about to be stored, together: a request takes the
\* decision when fewer than the limit are stored, and at most one per slot is
\* under way.  The stored ones alone do not make an inductive invariant.
Charged ==
    /\ Cardinality(PlanReports) + Cardinality(InFlight(None)) + 1
          <= PlanLimit + Cardinality(Threads)
    /\ \A b \in Bundles :
          Cardinality(SpentOn(b)) + Cardinality(InFlight(b)) + 1
              <= Credits[b] + Cardinality(Threads)

Bought == \A b \in Bundles : bundle[b] = "fulfilled" \/ SpentOn(b) # {} => Receipted(b)

IInv == TypeOK /\ Requests /\ Charged /\ Bought /\ PlanBeforeCredits

-----------------------------------------------------------------------------
\* The sets that are counted are finite and their sizes numbers.
LEMMA Counts ==
    /\ Cardinality(Threads) \in Nat \ {0}
    /\ IsFiniteSet(PlanReports) /\ Cardinality(PlanReports) \in Nat
    /\ \A b : IsFiniteSet(SpentOn(b)) /\ Cardinality(SpentOn(b)) \in Nat
    /\ \A s : /\ IsFiniteSet(InFlight(s)) /\ Cardinality(InFlight(s)) \in Nat
              /\ Cardinality(InFlight(s)) <= Cardinality(Threads)
<1>1. IsFiniteSet(PlanReports) /\ \A b : IsFiniteSet(SpentOn(b))
  <2>1. PlanReports \subseteq ReportIds /\ \A b : SpentOn(b) \subseteq ReportIds
    BY DEF PlanReports, SpentOn
  <2> QED
    BY <2>1, FS_Subset, ConstantsAssumption
<1>2. \A s : IsFiniteSet(InFlight(s)) /\ Cardinality(InFlight(s)) <= Cardinality(Threads)
  <2>1. \A s : InFlight(s) \subseteq Threads
    BY DEF InFlight
  <2> QED
    BY <2>1, FS_Subset, ConstantsAssumption
<1>3. Cardinality(Threads) \in Nat \ {0}
  BY FS_CardinalityType, FS_EmptySet, ConstantsAssumption
<1> QED
  BY <1>1, <1>2, <1>3, FS_CardinalityType

\* Storing a report adds one to the count it is charged to, changes no other,
\* and takes no receipt away.
LEMMA StoreCounts ==
    ASSUME TypeOK, NEW kind \in Kinds \ {"none"}, NEW source \in Bundles \cup {None},
           Store(kind, source)
    PROVE  /\ reports' \in [ReportIds -> Row]
           /\ Cardinality(PlanReports') = Cardinality(PlanReports) + IF kind = "plan" THEN 1 ELSE 0
           /\ \A b \in Bundles :
                 /\ Cardinality(SpentOn(b)') = Cardinality(SpentOn(b))
                       + IF kind = "credit" /\ source = b THEN 1 ELSE 0
                 /\ SpentOn(b)' # {} => SpentOn(b) # {} \/ (kind = "credit" /\ source = b)
           /\ \A b \in Bundles : Receipted(b) => Receipted(b)'
           /\ kind = "receipt" => Receipted(source)'
<1>1. PICK r \in FreshIds :
         reports' = [reports EXCEPT ![r] = [kind |-> kind, source |-> source, month |-> month]]
  BY DEF Store
<1>2. /\ r \in ReportIds /\ reports[r].kind = "none"
      /\ reports'[r] = [kind |-> kind, source |-> source, month |-> month]
      /\ \A x \in ReportIds : x # r => reports'[x] = reports[x]
  BY <1>1 DEF FreshIds, TypeOK
<1>3. reports' \in [ReportIds -> Row]
  BY <1>1, <1>2, ConstantsAssumption DEF TypeOK, Row, Months
<1>4. r \notin PlanReports /\ PlanReports' = PlanReports \cup (IF kind = "plan" THEN {r} ELSE {})
  BY <1>2 DEF PlanReports
<1>5. Cardinality(PlanReports') = Cardinality(PlanReports) + IF kind = "plan" THEN 1 ELSE 0
  <2>1. CASE kind = "plan"
    BY <1>4, <2>1, Counts, FS_AddElement
  <2>2. CASE kind # "plan"
    BY <1>4, <2>2, Counts
  <2> QED
    BY <2>1, <2>2
<1>6. ASSUME NEW b \in Bundles
      PROVE  /\ Cardinality(SpentOn(b)') = Cardinality(SpentOn(b))
                   + IF kind = "credit" /\ source = b THEN 1 ELSE 0
             /\ SpentOn(b)' # {} => SpentOn(b) # {} \/ (kind = "credit" /\ source = b)
  <2>0. r \notin SpentOn(b)
    BY <1>2 DEF SpentOn
  <2>1. CASE kind = "credit" /\ source = b
    <3>1. SpentOn(b)' = SpentOn(b) \cup {r}
      BY <1>2, <2>1 DEF SpentOn
    <3> QED
      BY <2>0, <2>1, <3>1, Counts, FS_AddElement
  <2>2. CASE ~(kind = "credit" /\ source = b)
    <3>1. SpentOn(b)' = SpentOn(b)
      BY <1>2, <2>2 DEF SpentOn
    <3> QED
      BY <2>2, <3>1, Counts
  <2> QED
    BY <2>1, <2>2
<1>7. \A b \in Bundles : Receipted(b) => Receipted(b)'
  BY <1>2 DEF Receipted
<1>8. kind = "receipt" => Receipted(source)'
  BY <1>2 DEF Receipted
<1> QED
  BY <1>3, <1>5, <1>6, <1>7, <1>8

\* A slot moving on to request q leaves the others' charges under way.
LEMMA FlightCounts ==
    ASSUME req \in [Threads -> Request], NEW t \in Threads, NEW q,
           req' = [req EXCEPT ![t] = q], NEW s
    PROVE  /\ Cardinality(InFlight(s)') \in Nat
           /\ Cardinality(InFlight(s)') <= Cardinality(Threads)
           /\ ~Charges(q, s) => Cardinality(InFlight(s)') <= Cardinality(InFlight(s))
           /\ ~Charges(q, s) /\ Charges(req[t], s)
                 => Cardinality(InFlight(s)') = Cardinality(InFlight(s)) - 1
<1>1. InFlight(s)' = IF Charges(q, s) THEN InFlight(s) \cup {t} ELSE InFlight(s) \ {t}
  BY DEF InFlight, Charges
<1>2. t \in InFlight(s) <=> Charges(req[t], s)
  BY DEF InFlight
<1>3. InFlight(s)' \subseteq Threads
  BY <1>1 DEF InFlight
<1>4. /\ Cardinality(InFlight(s)') \in Nat
      /\ Cardinality(InFlight(s)') <= Cardinality(Threads)
  BY <1>3, FS_Subset, FS_CardinalityType, ConstantsAssumption
<1>5. ASSUME ~Charges(q, s)
      PROVE  Cardinality(InFlight(s)')
                = IF Charges(req[t], s) THEN Cardinality(InFlight(s)) - 1 ELSE Cardinality(InFlight(s))
  BY <1>1, <1>2, <1>5, Counts, FS_RemoveElement
<1> QED
  BY <1>4, <1>5, Counts

\* A slot moves on without storing anything: what it is about to store must be
\* within the limit it was counted against.
LEMMA MoveOn ==
    ASSUME IInv, NEW t \in Threads, NEW q \in Request,
           req' = [req EXCEPT ![t] = q], UNCHANGED <<bundle, reports, month>>,
           Sound(q),
           Charges(q, None) => Cardinality(PlanReports) < PlanLimit,
           \A b \in Bundles : Charges(q, b) => HasCredit(b)
    PROVE  IInv'
<1>1. PlanReports' = PlanReports /\ \A b : SpentOn(b)' = SpentOn(b) /\ (Receipted(b)' <=> Receipted(b))
  BY DEF PlanReports, SpentOn, Receipted
<1>2. TypeOK'
  BY DEF IInv, TypeOK
<1>3. \A p : Sound(p)' <=> Sound(p)
  BY <1>1 DEF Sound, Exhausted
<1>4. Requests'
  BY <1>3 DEF IInv, TypeOK, Requests
<1>5. Charged'
  <2>0. ASSUME NEW s
        PROVE  /\ Cardinality(InFlight(s)') \in Nat
               /\ Cardinality(InFlight(s)') <= Cardinality(Threads)
               /\ ~Charges(q, s) => Cardinality(InFlight(s)') <= Cardinality(InFlight(s))
    BY FlightCounts DEF IInv, TypeOK
  <2>1. Cardinality(PlanReports') + Cardinality(InFlight(None)') + 1 <= PlanLimit + Cardinality(Threads)
    <3>1. CASE Charges(q, None)
      BY <1>1, <2>0, <3>1, Counts, ConstantsAssumption
    <3>2. CASE ~Charges(q, None)
      BY <1>1, <2>0, <3>2, Counts, ConstantsAssumption DEF IInv, Charged
    <3> QED
      BY <3>1, <3>2
  <2>2. ASSUME NEW b \in Bundles
        PROVE  Cardinality(SpentOn(b)') + Cardinality(InFlight(b)') + 1
                  <= Credits[b] + Cardinality(Threads)
    <3>1. CASE Charges(q, b)
      BY <1>1, <2>0, <3>1, Counts, ConstantsAssumption DEF HasCredit
    <3>2. CASE ~Charges(q, b)
      BY <1>1, <2>0, <3>2, Counts, ConstantsAssumption DEF IInv, Charged
    <3> QED
      BY <3>1, <3>2
  <2> QED
    BY <2>1, <2>2 DEF Charged
<1>6. Bought' /\ PlanBeforeCredits'
  BY <1>1 DEF IInv, Bought, PlanBeforeCredits
<1> QED
  BY <1>2, <1>4, <1>5, <1>6 DEF IInv

\* Every step keeps the invariant; one case per action.
LEMMA InvariantStep == IInv /\ [Next]_vars => IInv'
<1> SUFFICES ASSUME IInv, [Next]_vars PROVE IInv'
  OBVIOUS
<1>a. TypeOK /\ req \in [Threads -> Request] /\ Requests
  BY DEF IInv, TypeOK
<1>b. Idle \in Request /\ Sound(Idle) /\ \A s : ~Charges(Idle, s)
  BY DEF Idle, Request, Sound, Charges
<1>1. ASSUME NEW t \in Threads, CountPlan(t) PROVE IInv'
  <2> DEFINE q == [req[t] EXCEPT !.pc =
                      IF Cardinality(PlanReports) < PlanLimit THEN "save" ELSE "orders"]
  <2>1. req[t] \in Request /\ req[t].source = None /\ Sound(req[t])
    BY <1>a, <1>1 DEF CountPlan, Requests, Sound
  <2>2. q \in Request /\ q.source = None /\ q.bundles = req[t].bundles
        /\ q.pc = IF Cardinality(PlanReports) < PlanLimit THEN "save" ELSE "orders"
    BY <2>1 DEF Request
  <2>3. req' = [req EXCEPT ![t] = q] /\ UNCHANGED <<bundle, reports, month>>
    BY <1>1 DEF CountPlan
  <2> HIDE DEF q
  <2>4. Sound(q)
    BY <2>1, <2>2, Counts, ConstantsAssumption DEF Sound, Exhausted
  <2>5. /\ Charges(q, None) => Cardinality(PlanReports) < PlanLimit
        /\ \A b \in Bundles : ~Charges(q, b)
    BY <2>2, ConstantsAssumption DEF Charges
  <2> QED
    BY <2>2, <2>3, <2>4, <2>5, MoveOn
<1>2. ASSUME NEW t \in Threads, ReadOrders(t) PROVE IInv'
  <2> DEFINE fulfilled == {b \in Bundles : bundle[b] = "fulfilled"}
             q == IF fulfilled = {} THEN Idle
                  ELSE [req[t] EXCEPT !.pc = "credits", !.bundles = fulfilled]
  <2>1. req[t] \in Request /\ req[t].source = None /\ Exhausted
    BY <1>a, <1>2 DEF ReadOrders, Requests, Sound
  <2>2. \A b \in fulfilled : Receipted(b)
    BY DEF IInv, Bought
  <2>3. q \in Request /\ Sound(q) /\ \A s : ~Charges(q, s)
    BY <1>b, <2>1, <2>2 DEF Request, Sound, Charges
  <2>4. req' = [req EXCEPT ![t] = q] /\ UNCHANGED <<bundle, reports, month>>
    BY <1>2 DEF ReadOrders
  <2> HIDE DEF q
  <2> QED
    BY <2>3, <2>4, MoveOn
<1>3. ASSUME NEW t \in Threads, ReadCredits(t) PROVE IInv'
  <2>0. UNCHANGED <<bundle, reports, month>> /\ req[t].pc = "credits"
    BY <1>3 DEF ReadCredits
  <2>1. CASE req' = [req EXCEPT ![t] = Idle]
    BY <1>b, <2>0, <2>1, MoveOn
  <2>2. ASSUME NEW b \in req[t].bundles, HasCredit(b),
               req' = [req EXCEPT ![t] = [req[t] EXCEPT !.pc = "save", !.bundles = {}, !.source = b]]
        PROVE  IInv'
    <3> DEFINE q == [req[t] EXCEPT !.pc = "save", !.bundles = {}, !.source = b]
    <3>1. req[t] \in Request /\ Exhausted /\ Receipted(b) /\ b \in Bundles
      BY <1>a, <2>0, <2>2 DEF Requests, Sound, Request
    <3>2. q \in Request /\ q.pc = "save" /\ q.source = b /\ q.bundles = {}
      BY <3>1 DEF Request
    <3>3. req' = [req EXCEPT ![t] = q]
      BY <2>2
    <3> HIDE DEF q
    <3>4. Sound(q) /\ \A s : Charges(q, s) => s = b
      BY <3>1, <3>2 DEF Sound, Charges
    <3> QED
      BY <2>0, <2>2, <3>1, <3>2, <3>3, <3>4, MoveOn, ConstantsAssumption
  <2> QED
    BY <1>3, <2>1, <2>2 DEF ReadCredits, Newest
<1>4. ASSUME NEW t \in Threads, SaveReport(t) PROVE IInv'
  <2> DEFINE s    == req[t].source
             kind == IF s = None THEN "plan" ELSE "credit"
  <2>1. /\ req[t].pc = "save" /\ Store(kind, s) /\ UNCHANGED <<bundle, month>>
        /\ req' = [req EXCEPT ![t] = Idle]
    BY <1>4 DEF SaveReport
  <2>2. s \in Bundles \cup {None} /\ kind \in Kinds \ {"none"} /\ Sound(req[t])
        /\ \A x : Charges(req[t], x) <=> x = s
    BY <1>a, <2>1 DEF Request, Kinds, Requests, Charges
  <2>3. /\ reports' \in [ReportIds -> Row]
        /\ Cardinality(PlanReports') = Cardinality(PlanReports) + IF s = None THEN 1 ELSE 0
        /\ \A b \in Bundles :
              /\ Cardinality(SpentOn(b)') = Cardinality(SpentOn(b)) + IF s = b THEN 1 ELSE 0
              /\ SpentOn(b)' # {} => SpentOn(b) # {} \/ s = b
        /\ \A b \in Bundles : Receipted(b) => Receipted(b)'
    BY <1>a, <2>1, <2>2, StoreCounts, ConstantsAssumption
  <2> HIDE DEF s, kind
  <2>4. TypeOK'
    BY <1>a, <1>b, <2>1, <2>3 DEF TypeOK
  <2>5. Exhausted => Exhausted'
    BY <2>3, Counts, ConstantsAssumption DEF Exhausted
  <2>6. Requests'
    <3>1. ASSUME NEW u \in Threads, u # t PROVE Sound(req[u])'
      BY <1>a, <2>1, <2>3, <2>5, <3>1 DEF Requests, Sound, Request
    <3>2. Sound(req[t])'
      BY <1>a, <2>1 DEF Sound, Idle
    <3> QED
      BY <3>1, <3>2 DEF Requests
  <2>7. Charged'
    <3>1. ASSUME NEW x
          PROVE  /\ Cardinality(InFlight(x)') \in Nat
                 /\ Cardinality(InFlight(x)') <= Cardinality(InFlight(x))
                 /\ x = s => Cardinality(InFlight(x)') = Cardinality(InFlight(x)) - 1
      BY <1>a, <1>b, <2>1, <2>2, FlightCounts
    <3>2. Cardinality(PlanReports') + Cardinality(InFlight(None)') + 1
             <= PlanLimit + Cardinality(Threads)
      BY <2>3, <3>1, Counts, ConstantsAssumption DEF IInv, Charged
    <3>3. ASSUME NEW b \in Bundles
          PROVE  Cardinality(SpentOn(b)') + Cardinality(InFlight(b)') + 1
                    <= Credits[b] + Cardinality(Threads)
      BY <2>3, <3>1, Counts, ConstantsAssumption DEF IInv, Charged
    <3> QED
      BY <3>2, <3>3 DEF Charged
  <2>8. Bought'
    BY <2>1, <2>2, <2>3, ConstantsAssumption DEF IInv, Bought, Sound, s
  <2>9. PlanBeforeCredits'
    <3>1. s \in Bundles => Exhausted
      BY <2>2, ConstantsAssumption DEF Sound, s
    <3> QED
      BY <2>3, <2>5, <3>1 DEF IInv, PlanBeforeCredits, Exhausted
  <2> QED
    BY <2>4, <2>6, <2>7, <2>8, <2>9 DEF IInv
<1>5. ASSUME NEW t \in Threads, RequestFails(t) PROVE IInv'
  BY <1>b, <1>5, MoveOn DEF RequestFails
<1>6. ASSUME NEW b \in Bundles, FulfilBundle(b) PROVE IInv'
  <2>1. Store("receipt", b) /\ bundle' = [bundle EXCEPT ![b] = "fulfilled"] /\ UNCHANGED <<req, month>>
    BY <1>6 DEF FulfilBundle
  <2>2. /\ reports' \in [ReportIds -> Row]
        /\ Cardinality(PlanReports') = Cardinality(PlanReports)
        /\ \A c \in Bundles :
              /\ Cardinality(SpentOn(c)') = Cardinality(SpentOn(c))
              /\ SpentOn(c)' # {} => SpentOn(c) # {}
        /\ \A c \in Bundles : Receipted(c) => Receipted(c)'
        /\ Receipted(b)'
    BY <1>a, <2>1, StoreCounts, Counts DEF Kinds
  <2>3. TypeOK'
    BY <1>a, <2>1, <2>2 DEF TypeOK, BundleStatuses
  <2>4. Requests'
    BY <1>a, <2>1, <2>2 DEF Requests, Sound, Exhausted, Request
  <2>5. \A x : InFlight(x)' = InFlight(x)
    BY <2>1 DEF InFlight
  <2>6. Charged'
    BY <2>2, <2>5 DEF IInv, Charged
  <2>7. Bought'
    BY <1>a, <2>1, <2>2 DEF IInv, Bought, TypeOK
  <2>8. PlanBeforeCredits'
    BY <2>2 DEF IInv, PlanBeforeCredits
  <2> QED
    BY <2>3, <2>4, <2>6, <2>7, <2>8 DEF IInv
<1>7. ASSUME UNCHANGED <<reports, req>>, bundle' \in [Bundles -> BundleStatuses],
             month' \in Months,
             \A b \in Bundles : bundle'[b] = "fulfilled" => bundle[b] = "fulfilled"
      PROVE  IInv'
  <2>1. /\ PlanReports' = PlanReports
        /\ \A b : SpentOn(b)' = SpentOn(b) /\ (Receipted(b)' <=> Receipted(b))
        /\ \A s : InFlight(s)' = InFlight(s)
    BY <1>7 DEF PlanReports, SpentOn, Receipted, InFlight
  <2> QED
    BY <1>7, <2>1
    DEF IInv, TypeOK, Requests, Sound, Exhausted, Charged, Bought, PlanBeforeCredits
<1>8. ASSUME NEW b \in Bundles, RefundBundle(b) PROVE IInv'
  BY <1>a, <1>7, <1>8 DEF RefundBundle, TypeOK, BundleStatuses
<1>9. CASE NextMonth
  BY <1>a, <1>7, <1>9, ConstantsAssumption DEF NextMonth, TypeOK, Months
<1>10. CASE UNCHANGED vars
  BY <1>a, <1>7, <1>10 DEF vars, TypeOK
<1> QED
  BY <1>1, <1>2, <1>3, <1>4, <1>5, <1>6, <1>8, <1>9, <1>10 DEF Next

\* The account without bundles and reports satisfies it.
LEMMA InvariantInit == Init => IInv
<1> SUFFICES ASSUME Init PROVE IInv
  OBVIOUS
<1>1. TypeOK
  BY ConstantsAssumption
  DEF Init, TypeOK, Months, BundleStatuses, Row, Kinds, NoRow, Request, Idle
<1>2. PlanReports = {} /\ \A s : SpentOn(s) = {} /\ InFlight(s) = {}
  BY DEF Init, PlanReports, SpentOn, InFlight, Charges, NoRow, Idle
<1>3. Requests
  BY DEF Init, Requests, Sound, Idle
<1>4. Charged
  <2>1. 0 + 0 + 1 <= PlanLimit + Cardinality(Threads)
        /\ \A b \in Bundles : 0 + 0 + 1 <= Credits[b] + Cardinality(Threads)
    BY Counts, ConstantsAssumption
  <2> QED
    BY <1>2, <2>1, FS_EmptySet DEF Charged
<1>5. Bought /\ PlanBeforeCredits
  BY <1>2 DEF Init, Bought, PlanBeforeCredits
<1> QED
  BY <1>1, <1>3, <1>4, <1>5 DEF IInv

\* The strengthened invariant holds in every reachable state.
THEOREM CreditsInvariant == Spec => []IInv
  BY InvariantInit, InvariantStep, PTL DEF Spec

\* However many requests of an account race, a bundle is overspent by fewer
\* reports than there are slots (_available_report_credit_source_order_id).
THEOREM BundlesBarelyOverspent == Spec => []OverspendBounded
<1>1. IInv => OverspendBounded
  BY Counts, ConstantsAssumption DEF IInv, Charged, OverspendBounded
<1> QED
  BY <1>1, CreditsInvariant, PTL

\* The same for the reports of the plan (_ensure_report_limit).
THEOREM PlanBarelyOverrun == Spec => []PlanOverrunBounded
<1>1. IInv => PlanOverrunBounded
  BY Counts, ConstantsAssumption DEF IInv, Charged, PlanOverrunBounded
<1> QED
  BY <1>1, CreditsInvariant, PTL

\* No credit is spent while the plan still has reports to give.
THEOREM PlanFirst == Spec => []PlanBeforeCredits
<1>1. IInv => PlanBeforeCredits
  BY DEF IInv
<1> QED
  BY <1>1, CreditsInvariant, PTL

\* Credits are spent only on bundles that were fulfilled.
THEOREM OnlyBoughtCredits == Spec => []CreditsWereBought
<1>1. IInv => CreditsWereBought
  BY DEF IInv, Bought, Receipted, CreditsWereBought
<1> QED
  BY <1>1, CreditsInvariant, PTL

\* Bundles, reports and requests keep their types, for every instance.
THEOREM TypeCorrect == Spec => []TypeOK
<1>1. IInv => TypeOK
  BY DEF IInv
<1> QED
  BY <1>1, CreditsInvariant, PTL
=============================================================================
