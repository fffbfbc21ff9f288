-------------------------- MODULE ComparePageProofs --------------------------
(* Proofs about ComparePage, for any listings, purposes and loads in flight.  *)
EXTENDS ComparePage, FiniteSetTheorems, TLAPS

\* The comparison awaited is always the one asked for last.
AwaitsCurrent == compareCalls \subseteq {Question(selected, purpose)}

\* Nothing outlives the page.
Forgotten == ~mounted => ~available /\ selected = {} /\ loads = {} /\ compareCalls = {}

\* Loads in flight can be told apart.
LoadsFinite == IsFiniteSet(loads)

IInv == TypeOK /\ LoadsFinite /\ AwaitsCurrent /\ Forgotten /\ LinkKeepsSelection

-----------------------------------------------------------------------------
(* Selections. *)

LEMMA NoneFacts == None \notin Questions
BY CompareAssumption DEF Questions, Selections

LEMMA SelectionFacts ==
    ASSUME NEW s \in Selections
    PROVE  /\ IsFiniteSet(s) /\ Cardinality(s) \in Nat
           /\ s \subseteq Listings /\ Cardinality(s) <= MAX_COMPARE_ITEMS
BY CompareAssumption, FS_Subset, FS_CardinalityType DEF Selections

LEMMA NoSelection == {} \in Selections /\ Cardinality({}) = 0
BY FS_EmptySet, CompareAssumption DEF Selections, MAX_COMPARE_ITEMS

\* A part of a selection is one, and so is a selection with another listing that fits in.
LEMMA SelectionParts ==
    ASSUME NEW s \in Selections, NEW r \in SUBSET s
    PROVE  r \in Selections
<1>1. IsFiniteSet(s) /\ Cardinality(s) \in Nat /\ s \subseteq Listings
      /\ Cardinality(s) <= MAX_COMPARE_ITEMS
  BY SelectionFacts
<1>2. Cardinality(r) <= Cardinality(s) /\ Cardinality(r) \in Nat
  BY <1>1, FS_Subset, FS_CardinalityType
<1> QED
  BY <1>1, <1>2, CompareAssumption DEF Selections, MAX_COMPARE_ITEMS

LEMMA SelectionGrows ==
    ASSUME NEW s \in Selections, NEW l \in Listings \ s, Cardinality(s) < MAX_COMPARE_ITEMS
    PROVE  s \cup {l} \in Selections
<1>1. IsFiniteSet(s) /\ Cardinality(s) \in Nat /\ s \subseteq Listings
  BY SelectionFacts
<1>2. Cardinality(s \cup {l}) = Cardinality(s) + 1
  BY <1>1, FS_AddElement
<1> QED
  BY <1>1, <1>2, CompareAssumption DEF Selections, MAX_COMPARE_ITEMS

\* The ids of a link are cut to a selection.
LEMMA InitialIds ==
    ASSUME NEW s \in SUBSET Listings, NEW i \in initialIds(s)
    PROVE  i \in Selections
BY CompareAssumption DEF initialIds, Selections, MAX_COMPARE_ITEMS

\* What a selection asks for.
LEMMA QuestionType ==
    ASSUME NEW s \in Selections, NEW p \in Purposes
    PROVE  /\ Cardinality(s) < 2 => Question(s, p) = None
           /\ ~(Cardinality(s) < 2) => /\ Question(s, p) \in Questions
                                       /\ Question(s, p) = [ids |-> s, purpose |-> p]
                                       /\ Question(s, p) # None
<1>1. Cardinality(s) \in Nat
  BY SelectionFacts
<1> QED
  BY <1>1, NoneFacts DEF Question, Questions

\* The effect awaits the comparison of what is selected then.
LEMMA LoadCompareFacts ==
    ASSUME NEW s \in Selections, NEW p \in Purposes, TypeOK, loadCompare(s, p)
    PROVE  /\ compareCalls' = {Question(s, p)} \ {None}
           /\ compareCalls' \subseteq Questions
           /\ comparison' \in Questions \cup {None} /\ comparison' \in {comparison, None}
           /\ Question(s, p) = None => comparison' = None
           /\ error' \in BOOLEAN
<1>1. CASE Cardinality(s) < 2
  BY <1>1, QuestionType DEF loadCompare, TypeOK
<1>2. CASE ~(Cardinality(s) < 2)
  BY <1>2, QuestionType DEF loadCompare, TypeOK
<1> QED
  BY <1>1, <1>2

\* The selection and the purpose the comparison's effect runs with: every handler that runs
\* it, whatever it was called with.
LEMMA EffectKeepsComparison ==
    ASSUME TypeOK, NEW s \in Selections, NEW p \in Purposes, loadCompare(s, p),
           selected' = s, purpose' = p
    PROVE  AwaitsCurrent' /\ compareCalls' \subseteq Questions
           /\ comparison' \in Questions \cup {None} /\ error' \in BOOLEAN
BY LoadCompareFacts DEF AwaitsCurrent

-----------------------------------------------------------------------------
(* The initial loads. *)

\* There is a number left for another load.
LEMMA NumberLeft ==
    ASSUME TypeOK, LoadsFinite, Cardinality(loads) < MaxInitialLoads
    PROVE  \E n \in 1..MaxInitialLoads : \A l \in loads : l.n # n
<1> SUFFICES ASSUME \A n \in 1..MaxInitialLoads : \E l \in loads : l.n = n PROVE FALSE
  OBVIOUS
<1> DEFINE f == [l \in loads |-> l.n]
<1>1. f \in Surjection(loads, 1..MaxInitialLoads)
  BY DEF TypeOK, InitialLoads, Surjection
<1>2. Cardinality(1..MaxInitialLoads) <= Cardinality(loads)
  BY <1>1, FS_Surjection DEF LoadsFinite
<1>3. Cardinality(1..MaxInitialLoads) = MaxInitialLoads
  BY FS_Interval, CompareAssumption
<1>4. Cardinality(loads) \in Nat
  BY FS_CardinalityType DEF LoadsFinite
<1> QED
  BY <1>2, <1>3, <1>4, CompareAssumption

LEMMA LoadInitialFacts ==
    ASSUME TypeOK, LoadsFinite, NEW i \in Selections, loadInitial(i)
    PROVE  loads' \subseteq InitialLoads /\ LoadsFinite'
<1> DEFINE m == CHOOSE n \in 1..MaxInitialLoads : \A l \in loads : l.n # n
<1>1. m \in 1..MaxInitialLoads
  BY NumberLeft DEF loadInitial
<1>2. loads' = loads \cup {[n |-> m, ids |-> i, hasPurpose |-> link'.purpose # None]}
  BY DEF loadInitial
<1> HIDE DEF m
<1>3. [n |-> m, ids |-> i, hasPurpose |-> link'.purpose # None] \in InitialLoads
  BY <1>1 DEF InitialLoads
<1>4. LoadsFinite'
  BY <1>2, FS_AddElement DEF LoadsFinite
<1> QED
  BY <1>2, <1>3, <1>4 DEF TypeOK
-----------------------------------------------------------------------------
(* Every step keeps the invariant. *)

LEMMA InitInvariant == Init => IInv
<1> SUFFICES ASSUME Init PROVE IInv
  OBVIOUS
<1>1. {} \in Selections /\ IsFiniteSet({})
  BY NoSelection, FS_EmptySet
<1>2. TypeOK
  BY <1>1, CompareAssumption DEF Init, TypeOK, Links, NoAnswers
<1> QED
  BY <1>1, <1>2 DEF Init, IInv, LoadsFinite, AwaitsCurrent, Forgotten, LinkKeepsSelection

LEMMA OpenOrLeave ==
    ASSUME IInv, NEW ln \in Links, Mount(ln) \/ Unmount
    PROVE  IInv'
<1>1. CASE Mount(ln)
  <2>1. PICK i \in initialIds(ln.ids) : loadInitial(i)
    BY <1>1 DEF Mount
  <2>2. i \in Selections
    BY InitialIds DEF Links
  <2>3. loads' \subseteq InitialLoads /\ LoadsFinite'
    BY <2>1, <2>2, LoadInitialFacts DEF IInv
  <2>4. unsynced' \in BOOLEAN
    BY <1>1 DEF Mount, IInv, TypeOK
  <2>5. purpose' \in Purposes /\ link' \in Links
    BY <1>1 DEF Mount, IInv, TypeOK, Links
  <2>6. TypeOK'
    BY <1>1, <2>3, <2>4, <2>5 DEF Mount, IInv, TypeOK, followVars
  <2>7. AwaitsCurrent' /\ Forgotten' /\ LinkKeepsSelection'
    BY <1>1 DEF Mount, IInv, AwaitsCurrent, Forgotten, LinkKeepsSelection
  <2> QED
    BY <2>3, <2>6, <2>7 DEF IInv
<1>2. CASE Unmount
  <2>1. {} \in Selections /\ IsFiniteSet({})
    BY NoSelection, FS_EmptySet
  <2>2. TypeOK'
    BY <1>2, <2>1, CompareAssumption DEF Unmount, TypeOK, Links, NoAnswers
  <2> QED
    BY <1>2, <2>1, <2>2
       DEF Unmount, IInv, LoadsFinite, AwaitsCurrent, Forgotten, LinkKeepsSelection
<1> QED
  BY <1>1, <1>2

LEMMA LocaleChanges ==
    ASSUME IInv, ChangeLocale
    PROVE  IInv'
<1>1. PICK i \in initialIds(link.ids) : loadInitial(i)
  BY DEF ChangeLocale
<1>2. i \in Selections
  BY InitialIds DEF IInv, TypeOK, Links
<1>3. loads' \subseteq InitialLoads /\ LoadsFinite'
  BY <1>1, <1>2, LoadInitialFacts DEF IInv
<1>4. purpose' \in Purposes
  BY DEF ChangeLocale, IInv, TypeOK, Links
<1>5. compareCalls' \subseteq Questions /\ compareCalls' \subseteq {Question(selected, purpose')}
  BY <1>4, QuestionType DEF ChangeLocale, IInv, TypeOK
<1>6. comparison' \in Questions \cup {None}
  BY DEF ChangeLocale, IInv, TypeOK
<1>7. TypeOK'
  BY <1>3, <1>4, <1>5, <1>6 DEF ChangeLocale, IInv, TypeOK, followVars
<1>8. AwaitsCurrent' /\ Forgotten'
  BY <1>5 DEF ChangeLocale, AwaitsCurrent, Forgotten
<1>9. LinkKeepsSelection'
  BY DEF ChangeLocale, IInv, LinkKeepsSelection
<1> QED
  BY <1>3, <1>7, <1>8, <1>9 DEF IInv

LEMMA InitialAnswers ==
    ASSUME IInv, NEW l \in loads, InitialLoaded(l) \/ InitialFails(l)
    PROVE  IInv'
<1>1. loads' \subseteq InitialLoads /\ LoadsFinite'
  BY FS_RemoveElement DEF InitialLoaded, InitialFails, IInv, TypeOK, LoadsFinite
<1>2. mounted
  BY DEF IInv, Forgotten
<1>3. CASE InitialLoaded(l)
  <2>1. l.ids \in Selections
    BY DEF IInv, TypeOK, InitialLoads
  <2>2. purpose' \in Purposes
    BY <1>3 DEF InitialLoaded, IInv, TypeOK
  <2>3. loadCompare(l.ids, purpose') /\ selected' = l.ids
    BY <1>3 DEF InitialLoaded
  <2>4. AwaitsCurrent' /\ compareCalls' \subseteq Questions
        /\ comparison' \in Questions \cup {None} /\ error' \in BOOLEAN
    BY <2>1, <2>2, <2>3, EffectKeepsComparison DEF IInv
  <2>5. unsynced' \in BOOLEAN /\ (~unsynced' => link.ids = selected' /\ link.purpose \in {None, purpose'})
    BY <1>3 DEF InitialLoaded
  <2>6. TypeOK'
    BY <1>1, <1>3, <2>1, <2>2, <2>3, <2>4, <2>5 DEF InitialLoaded, IInv, TypeOK, followVars
  <2>7. Forgotten' /\ LinkKeepsSelection'
    BY <1>2, <1>3, <2>5 DEF InitialLoaded, Forgotten, LinkKeepsSelection
  <2> QED
    BY <1>1, <2>4, <2>6, <2>7 DEF IInv
<1>4. CASE InitialFails(l)
  <2>1. TypeOK'
    BY <1>1, <1>4 DEF InitialFails, IInv, TypeOK, followVars
  <2>2. AwaitsCurrent' /\ Forgotten' /\ LinkKeepsSelection'
    BY <1>2, <1>4 DEF InitialFails, IInv, AwaitsCurrent, Forgotten, LinkKeepsSelection
  <2> QED
    BY <1>1, <2>1, <2>2 DEF IInv
<1> QED
  BY <1>3, <1>4

\* What the user does to the selection and the purpose.
LEMMA UserChanges ==
    ASSUME IInv, NEW s \in Selections, NEW p \in Purposes, loadCompare(s, p),
           selected' = s, purpose' = p,
           mounted, UNCHANGED <<mounted, available, loads, followVars>>,
           link' \in Links,
           \/ syncCompareUrl(s, p) /\ unsynced' = FALSE
           \/ UNCHANGED <<link, selected, purpose, unsynced>>
    PROVE  IInv'
<1>1. AwaitsCurrent' /\ compareCalls' \subseteq Questions
      /\ comparison' \in Questions \cup {None} /\ error' \in BOOLEAN
  BY EffectKeepsComparison DEF IInv
<1>2. TypeOK'
  BY <1>1 DEF IInv, TypeOK, followVars
<1>3. LoadsFinite' /\ Forgotten'
  BY DEF IInv, LoadsFinite, Forgotten
<1>4. LinkKeepsSelection'
  BY DEF IInv, LinkKeepsSelection, syncCompareUrl
<1> QED
  BY <1>1, <1>2, <1>3, <1>4 DEF IInv

LEMMA TogglesKeep ==
    ASSUME IInv, NEW l \in Listings, toggleListing(l)
    PROVE  IInv'
<1>1. selected \in Selections /\ purpose \in Purposes /\ link \in Links
  BY DEF IInv, TypeOK
<1>2. selected' \in Selections
  BY <1>1, SelectionParts, SelectionGrows DEF toggleListing
<1>3. loadCompare(selected', purpose) /\ purpose' = purpose /\ mounted
      /\ syncCompareUrl(selected', purpose) /\ unsynced' = FALSE
      /\ UNCHANGED <<mounted, available, loads, followVars>>
  BY DEF toggleListing
<1>4. link' \in Links
  BY <1>1, <1>2, <1>3 DEF syncCompareUrl, Links, Selections
<1> QED
  BY <1>1, <1>2, <1>3, <1>4, UserChanges

LEMMA ComparisonAnswers ==
    ASSUME IInv, NEW q \in compareCalls, Compared(q) \/ CompareFails(q)
    PROVE  IInv' /\ q = Question(selected, purpose) /\ q.ids = selected
           /\ q = [ids |-> selected, purpose |-> purpose] /\ compareCalls = {q}
<1>1. q \in Questions /\ selected \in Selections /\ purpose \in Purposes
  BY DEF IInv, TypeOK
<1>2. q = Question(selected, purpose) /\ compareCalls = {q}
  BY DEF IInv, AwaitsCurrent
<1>3. q = [ids |-> selected, purpose |-> purpose]
  BY <1>1, <1>2, QuestionType, NoneFacts
<1>4. mounted
  BY DEF IInv, Forgotten
<1>5. NoAnswers \in [FollowUps -> Selections \cup {None}]
  BY DEF NoAnswers
<1>6. CASE CompareFails(q)
  <2>1. TypeOK'
    BY <1>5, <1>6 DEF CompareFails, IInv, TypeOK
  <2>2. LoadsFinite' /\ AwaitsCurrent' /\ Forgotten' /\ LinkKeepsSelection'
    BY <1>2, <1>4, <1>6
       DEF CompareFails, IInv, LoadsFinite, AwaitsCurrent, Forgotten, LinkKeepsSelection
  <2> QED
    BY <1>2, <1>3, <2>1, <2>2 DEF IInv
<1>7. CASE Compared(q) /\ q.ids \cap Gone = {}
  <2>1. comparison' = q /\ compareCalls' = {} /\ answers' = NoAnswers
        /\ UNCHANGED <<link, selected, error, mounted, available, purpose, loads, asking, unsynced>>
    BY <1>2, <1>7 DEF Compared
  <2>2. TypeOK'
    BY <1>1, <1>5, <2>1 DEF IInv, TypeOK
  <2>3. LoadsFinite' /\ AwaitsCurrent' /\ Forgotten' /\ LinkKeepsSelection'
    BY <1>4, <2>1
       DEF IInv, LoadsFinite, AwaitsCurrent, Forgotten, LinkKeepsSelection
  <2> QED
    BY <1>2, <1>3, <2>2, <2>3 DEF IInv
<1>8. CASE Compared(q) /\ q.ids \cap Gone # {}
  <2> DEFINE s == selected \ Gone
  <2>1. /\ comparison' = q /\ answers' = NoAnswers /\ selected' = s /\ error' = FALSE
        /\ link' = [ids |-> s, purpose |-> purpose]
        /\ compareCalls' = {[ids |-> s, purpose |-> purpose]}
        /\ Cardinality(s) >= 2 /\ unsynced' = FALSE
        /\ UNCHANGED <<mounted, available, purpose, loads, asking>>
    BY <1>3, <1>8 DEF Compared, syncCompareUrl
  <2>2. s \in Selections
    BY <1>1, SelectionParts
  <2>3. Question(s, purpose) = [ids |-> s, purpose |-> purpose] /\ Question(s, purpose) \in Questions
    <3>1. Cardinality(s) \in Nat
      BY <2>2, SelectionFacts
    <3>2. ~(Cardinality(s) < 2)
      BY <2>1, <3>1
    <3> QED
      BY <1>1, <2>2, <3>2, QuestionType
  <2>4. link' \in Links
    BY <1>1, <2>1, <2>2 DEF Links, Selections
  <2>5. TypeOK'
    BY <1>1, <1>5, <2>1, <2>2, <2>3, <2>4 DEF IInv, TypeOK
  <2>6. LoadsFinite' /\ AwaitsCurrent' /\ Forgotten' /\ LinkKeepsSelection'
    BY <1>4, <2>1, <2>3
       DEF IInv, LoadsFinite, AwaitsCurrent, Forgotten, LinkKeepsSelection
  <2> QED
    BY <1>2, <1>3, <2>5, <2>6 DEF IInv
<1> QED
  BY <1>6, <1>7, <1>8

LEMMA FollowUpSteps ==
    ASSUME IInv, NEW op \in FollowUps, askFollowUp(op) \/ FollowUpAnswered(op)
    PROVE  IInv'
<1>1. answers' \in [FollowUps -> Selections \cup {None}]
  BY DEF askFollowUp, FollowUpAnswered, IInv, TypeOK
<1>2. asking' \in [FollowUps -> Selections \cup {None}]
  BY DEF askFollowUp, FollowUpAnswered, IInv, TypeOK
<1>3. UNCHANGED <<mounted, link, available, selected, purpose, loads, comparison,
                  compareCalls, error, unsynced>>
  BY DEF askFollowUp, FollowUpAnswered
<1>4. TypeOK'
  BY <1>1, <1>2, <1>3 DEF IInv, TypeOK
<1> QED
  BY <1>3, <1>4 DEF IInv, LoadsFinite, AwaitsCurrent, Forgotten, LinkKeepsSelection
LEMMA NextInvariant == IInv /\ [Next]_vars => IInv'
<1> SUFFICES ASSUME IInv, [Next]_vars PROVE IInv'
  OBVIOUS
<1>1. CASE \E ln \in Links : Mount(ln)
  BY <1>1, OpenOrLeave
<1>2. CASE Unmount
  <2>1. link \in Links
    BY DEF IInv, TypeOK
  <2> QED
    BY <1>2, <2>1, OpenOrLeave
<1>3. CASE ChangeLocale
  BY <1>3, LocaleChanges
<1>4. CASE \E l \in loads : InitialLoaded(l) \/ InitialFails(l)
  BY <1>4, InitialAnswers
<1>5. CASE \E l \in Listings : toggleListing(l)
  BY <1>5, TogglesKeep
<1>6. CASE \E p \in Purposes : choosePurpose(p)
  <2>1. PICK p \in Purposes : choosePurpose(p)
    BY <1>6
  <2>2. selected \in Selections /\ link \in Links
    BY DEF IInv, TypeOK
  <2>3. loadCompare(selected, p) /\ purpose' = p /\ selected' = selected /\ mounted
        /\ syncCompareUrl(selected, p) /\ unsynced' = FALSE
        /\ UNCHANGED <<mounted, available, loads, followVars>>
    BY <2>1 DEF choosePurpose
  <2>4. link' \in Links
    BY <2>2, <2>3 DEF syncCompareUrl, Links, Selections
  <2> QED
    BY <2>2, <2>3, <2>4, UserChanges
<1>7. CASE refresh
  <2>1. selected \in Selections /\ link \in Links /\ purpose \in Purposes
    BY DEF IInv, TypeOK
  <2> QED
    BY <1>7, <2>1, UserChanges DEF refresh
<1>8. CASE \E q \in compareCalls : Compared(q) \/ CompareFails(q)
  BY <1>8, ComparisonAnswers
<1>9. CASE \E op \in FollowUps : askFollowUp(op) \/ FollowUpAnswered(op)
  BY <1>9, FollowUpSteps
<1>10. CASE UNCHANGED vars
  BY <1>10 DEF vars, followVars, IInv, TypeOK, LoadsFinite, AwaitsCurrent, Forgotten,
               LinkKeepsSelection
<1> QED
  BY <1>1, <1>2, <1>3, <1>4, <1>5, <1>6, <1>7, <1>8, <1>9, <1>10 DEF Next

(* Whatever is loaded, toggled and answered in which order, the conditions   *)
(* above hold.                                                               *)
THEOREM Invariance == Spec => []IInv
<1> QED
  BY InitInvariant, NextInvariant, PTL DEF Spec

(* The variables keep their types: a selection never exceeds what may be     *)
(* compared, and every question compares at least two listings.              *)
THEOREM TypeCorrect == Spec => []TypeOK
<1>1. IInv => TypeOK
  BY DEF IInv
<1> QED
  BY <1>1, Invariance, PTL

(* Once the listings are on offer, the page's link names the selection and   *)
(* the purpose, except after an initial load that answered late.             *)
THEOREM LinkInStep == Spec => []LinkKeepsSelection
<1>1. IInv => LinkKeepsSelection
  BY DEF IInv
<1> QED
  BY <1>1, Invariance, PTL

-----------------------------------------------------------------------------
(* The comparison's effect implements LatestAnswer.                          *)

LEMMA EffectAsks ==
    ASSUME IInv, NEW s \in Selections, NEW p \in Purposes, loadCompare(s, p),
           selected' = s, purpose' = p
    PROVE  ComparisonPanel!Next
<1>1. CASE Question(s, p) = None
  <2>1. compareCalls' = {} /\ comparison' = None
    BY <1>1, LoadCompareFacts DEF IInv
  <2>2. ComparisonPanel!Forget
    BY <1>1, <2>1 DEF ComparisonPanel!Forget
  <2> QED
    BY <2>2 DEF ComparisonPanel!Next
<1>2. CASE Question(s, p) # None
  <2>1. compareCalls' = {Question(s, p)} /\ comparison' \in {comparison, None}
        /\ Question(s, p) \in Questions
    BY <1>2, LoadCompareFacts DEF IInv
  <2>2. ComparisonPanel!Ask(Question(s, p))
    BY <2>1 DEF ComparisonPanel!Ask
  <2> QED
    BY <2>1, <2>2 DEF ComparisonPanel!Next
<1> QED
  BY <1>1, <1>2

LEMMA AnswersRefine ==
    ASSUME IInv, NEW q \in compareCalls, Compared(q) \/ CompareFails(q)
    PROVE  ComparisonPanel!Next
<1>1. q = Question(selected, purpose) /\ compareCalls = {q} /\ q # None
      /\ q = [ids |-> selected, purpose |-> purpose]
  BY ComparisonAnswers, NoneFacts DEF IInv, TypeOK
<1>2. CASE CompareFails(q)
  <2>1. compareCalls' = {} /\ comparison' = None /\ selected' = selected /\ purpose' = purpose
    BY <1>1, <1>2 DEF CompareFails
  <2>2. ComparisonPanel!Fail
    BY <1>1, <2>1 DEF ComparisonPanel!Fail
  <2> QED
    BY <2>2 DEF ComparisonPanel!Next
<1>3. CASE Compared(q) /\ q.ids \cap Gone = {}
  <2>1. compareCalls' = {} /\ comparison' = q /\ selected' = selected /\ purpose' = purpose
    BY <1>1, <1>3 DEF Compared
  <2>2. ComparisonPanel!Answer
    BY <1>1, <2>1 DEF ComparisonPanel!Answer
  <2> QED
    BY <2>2 DEF ComparisonPanel!Next
<1>4. CASE Compared(q) /\ q.ids \cap Gone # {}
  <2>1. comparison' = q /\ purpose' = purpose /\ selected' = selected \ Gone
        /\ compareCalls' = {[ids |-> selected', purpose |-> purpose']}
    BY <1>1, <1>4 DEF Compared
  <2>2. IInv'
    BY <1>4, ComparisonAnswers
  <2>3. compareCalls' = {Question(selected, purpose)'}
    BY <2>1, <2>2 DEF IInv, AwaitsCurrent
  <2>4. Question(selected, purpose)' \in Questions
    BY <2>2, <2>3 DEF IInv, TypeOK
  <2>5. ComparisonPanel!Ask(Question(selected, purpose)')
    BY <1>1, <2>1, <2>3 DEF ComparisonPanel!Ask
  <2> QED
    BY <2>4, <2>5 DEF ComparisonPanel!Next
<1> QED
  BY <1>2, <1>3, <1>4

\* A change of language asks again what is selected, with the purpose of the link.
LEMMA LocaleAsks ==
    ASSUME IInv, ChangeLocale
    PROVE  ComparisonPanel!Next
<1>1. selected \in Selections /\ selected' = selected /\ purpose' \in Purposes
  BY DEF ChangeLocale, IInv, TypeOK, Links
<1>2. CASE Cardinality(selected) < 2
  <2>1. Question(selected, purpose)' = None
    BY <1>1, <1>2, QuestionType
  <2>2. compareCalls' = {} /\ comparison' = None
    BY <1>1, <1>2, <2>1 DEF ChangeLocale
  <2>3. ComparisonPanel!Forget
    BY <2>1, <2>2 DEF ComparisonPanel!Forget
  <2> QED
    BY <2>3 DEF ComparisonPanel!Next
<1>3. CASE ~(Cardinality(selected) < 2)
  <2>1. Question(selected, purpose)' \in Questions \ {None}
    BY <1>1, <1>3, QuestionType
  <2>2. compareCalls' = {Question(selected, purpose)'} /\ comparison' = comparison
    BY <1>1, <1>3, <2>1 DEF ChangeLocale
  <2>3. ComparisonPanel!Ask(Question(selected, purpose)')
    BY <2>2 DEF ComparisonPanel!Ask
  <2> QED
    BY <2>1, <2>3 DEF ComparisonPanel!Next
<1> QED
  BY <1>2, <1>3

\* Before the page is opened nothing is selected, whatever the purpose.
LEMMA OthersStutter ==
    ASSUME IInv,
           \/ \E ln \in Links : Mount(ln)
           \/ \E l \in loads : InitialFails(l)
           \/ \E op \in FollowUps : askFollowUp(op) \/ FollowUpAnswered(op)
           \/ UNCHANGED vars
    PROVE  UNCHANGED ComparisonPanel!vars
<1>1. CASE \E ln \in Links : Mount(ln)
  <2>1. selected = {} /\ selected' = {} /\ UNCHANGED <<comparison, compareCalls>>
    BY <1>1 DEF Mount, IInv, Forgotten
  <2>2. Question(selected, purpose) = None /\ Question(selected, purpose)' = None
    BY <2>1, NoSelection DEF Question
  <2> QED
    BY <2>1, <2>2 DEF ComparisonPanel!vars
<1>2. CASE ~\E ln \in Links : Mount(ln)
  <2>1. UNCHANGED <<selected, purpose, comparison, compareCalls>>
    BY <1>2 DEF InitialFails, askFollowUp, FollowUpAnswered, vars
  <2> QED
    BY <2>1 DEF ComparisonPanel!vars
<1> QED
  BY <1>1, <1>2

LEMMA InitRefines == Init => ComparisonPanel!Init
<1>1. Init => Question(selected, purpose) = None
  BY NoSelection DEF Init, Question
<1> QED
  BY <1>1 DEF Init, ComparisonPanel!Init

LEMMA StepRefines == IInv /\ [Next]_vars => [ComparisonPanel!Next]_(ComparisonPanel!vars)
<1> SUFFICES ASSUME IInv, [Next]_vars
             PROVE  ComparisonPanel!Next \/ UNCHANGED ComparisonPanel!vars
  OBVIOUS
<1>1. selected \in Selections /\ purpose \in Purposes
  BY DEF IInv, TypeOK
<1>2. CASE \/ \E ln \in Links : Mount(ln)
           \/ \E l \in loads : InitialFails(l)
           \/ \E op \in FollowUps : askFollowUp(op) \/ FollowUpAnswered(op)
           \/ UNCHANGED vars
  BY <1>2, OthersStutter
<1>3. CASE Unmount
  <2>1. selected' = {} /\ comparison' = None /\ compareCalls' = {}
    BY <1>3 DEF Unmount
  <2>2. Question(selected, purpose)' = None
    BY <2>1, NoSelection DEF Question
  <2>3. ComparisonPanel!Forget
    BY <2>1, <2>2 DEF ComparisonPanel!Forget
  <2> QED
    BY <2>3 DEF ComparisonPanel!Next
<1>4. CASE ChangeLocale
  BY <1>4, LocaleAsks
<1>5. CASE \E l \in loads : InitialLoaded(l)
  <2>1. PICK l \in loads : InitialLoaded(l)
    BY <1>5
  <2>2. l.ids \in Selections
    BY DEF IInv, TypeOK, InitialLoads
  <2>3. purpose' \in Purposes /\ selected' = l.ids /\ loadCompare(l.ids, purpose')
    BY <1>1, <2>1 DEF InitialLoaded
  <2> QED
    BY <2>2, <2>3, EffectAsks
<1>6. CASE \E l \in Listings : toggleListing(l)
  <2>1. PICK l \in Listings : toggleListing(l)
    BY <1>6
  <2>2. selected' \in Selections
    BY <1>1, <2>1, SelectionParts, SelectionGrows DEF toggleListing
  <2>3. loadCompare(selected', purpose) /\ purpose' = purpose
    BY <2>1 DEF toggleListing
  <2> QED
    BY <1>1, <2>2, <2>3, EffectAsks
<1>7. CASE \E p \in Purposes : choosePurpose(p)
  <2>1. PICK p \in Purposes : choosePurpose(p)
    BY <1>7
  <2>2. loadCompare(selected, p) /\ purpose' = p /\ selected' = selected
    BY <2>1 DEF choosePurpose
  <2> QED
    BY <1>1, <2>2, EffectAsks
<1>8. CASE refresh
  <2>1. loadCompare(selected, purpose) /\ purpose' = purpose /\ selected' = selected
    BY <1>8 DEF refresh
  <2> QED
    BY <1>1, <2>1, EffectAsks
<1>9. CASE \E q \in compareCalls : Compared(q) \/ CompareFails(q)
  BY <1>9, AnswersRefine
<1> QED
  BY <1>2, <1>3, <1>4, <1>5, <1>6, <1>7, <1>8, <1>9 DEF Next

(* Once no answer is awaited and none failed, the comparison shown is the    *)
(* one of the selection and the purpose shown, for any number of listings    *)
(* and any order of answers.                                                 *)
THEOREM ComparisonLatest == Spec => ComparisonIsLatest
<1> QED
  BY InitRefines, StepRefines, Invariance, PTL
     DEF Spec, ComparisonIsLatest, ComparisonPanel!Spec

(* Only the late answer to a question about another selection mixes the      *)
(* verdict or the shortlist of one with the comparison of another.           *)
THEOREM MixedByLateAnswers == Spec => OnlyLateAnswersMix
<1>1. IInv /\ [Next]_vars =>
        [AnswersOfComparison /\ ~AnswersOfComparison' =>
            \E op \in FollowUps : /\ asking[op] # asking'[op]
                                  /\ asking[op] # comparison.ids]_vars
  <2> SUFFICES ASSUME IInv, [Next]_vars, AnswersOfComparison, ~AnswersOfComparison'
               PROVE  \E op \in FollowUps : /\ asking[op] # asking'[op]
                                            /\ asking[op] # comparison.ids
    OBVIOUS
  <2>1. CASE \E op \in FollowUps : FollowUpAnswered(op)
    <3>1. PICK op \in FollowUps : FollowUpAnswered(op)
      BY <2>1
    <3>2. asking'[op] = None /\ asking[op] # None /\ comparison' = comparison
      BY <3>1 DEF FollowUpAnswered, IInv, TypeOK
    <3>3. answers' \in {[answers EXCEPT ![op] = a] : a \in {asking[op], None}}
          /\ answers \in [FollowUps -> Selections \cup {None}]
      BY <3>1 DEF FollowUpAnswered, IInv, TypeOK
    <3> QED
      BY <3>2, <3>3 DEF AnswersOfComparison
  <2>2. CASE ~\E op \in FollowUps : FollowUpAnswered(op)
    <3>1. \/ comparison' = None
          \/ answers' = NoAnswers
          \/ comparison' = comparison /\ answers' = answers
      BY <2>2 DEF Next, Mount, ChangeLocale, Unmount, InitialLoaded, InitialFails,
                  toggleListing, choosePurpose, refresh, Compared, CompareFails, askFollowUp,
                  loadCompare, followVars, vars
    <3> QED
      BY <3>1 DEF AnswersOfComparison, NoAnswers
  <2> QED
    BY <2>1, <2>2
<1> QED
  BY <1>1, Invariance, PTL DEF Spec, OnlyLateAnswersMix
=============================================================================
