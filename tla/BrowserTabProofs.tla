-------------------------- MODULE BrowserTabProofs --------------------------
(* Proofs about BrowserTab, for all values of the parameters: what is proved *)
(* of the search and the comparison page by themselves holds in the tab; the *)
(* proofs about the other pages are here, a section for each - the deletion  *)
(* requests, the editors, the tracked searches, the saved apartments, the    *)
(* console - and every page's step is a step of the tab.                     *)
(*                                                                           *)
(* Each section has the page's inductive invariant, one lemma for each group *)
(* of its actions, and the promise the page makes.                           *)
EXTENDS BrowserTab, TLAPS

\* SearchPageProofs is also about the map beside the list, which the tab leaves out.
SearchPr == INSTANCE SearchPageProofs WITH
    mounted <- at = "search", isLoading <- searchLoading, error <- searchError,
    loads <- searchLoads, raced <- searchRaced,
    visibleLayers <- {}, mapPhase <- "off", sources <- None, markers <- None,
    skipped <- FALSE

ComparePr == INSTANCE ComparePageProofs WITH
    mounted <- at = "compare", selected <- compared, loads <- compareLoads,
    error <- compareError

-----------------------------------------------------------------------------
(* The pages proved by themselves. *)

\* Each page counts with its own copy of FiniteSets.
LEMMA Counting ==
    ASSUME NEW S
    PROVE  /\ Search!Cardinality(S) = Cardinality(S)
           /\ SearchPr!Cardinality(S) = Cardinality(S)
           /\ Compare!Cardinality(S) = Cardinality(S)
           /\ ComparePr!Cardinality(S) = Cardinality(S)
BY DEF Cardinality, Search!Cardinality, SearchPr!Cardinality, Compare!Cardinality,
       ComparePr!Cardinality

\* The search page of the tab is the one its proofs are about.
LEMMA SearchSame ==
    /\ Search!Init <=> SearchPr!Init
    /\ Search!Next <=> SearchPr!Next
    /\ Search!TypeOK <=> SearchPr!TypeOK
    /\ Search!vars = SearchPr!vars
<1>1. Search!Pages = SearchPr!Pages
  BY DEF Search!Pages, SearchPr!Pages
<1>2. Search!Questions = SearchPr!Questions
  BY <1>1 DEF Search!Questions, SearchPr!Questions
<1>3. Search!Current = SearchPr!Current
  BY DEF Search!Current, SearchPr!Current
<1>4. Search!NoLoads = SearchPr!NoLoads
  BY <1>2 DEF Search!NoLoads, SearchPr!NoLoads
<1>5. \A ls, q : Search!Started(ls, q) = SearchPr!Started(ls, q)
  BY DEF Search!Started, SearchPr!Started
<1>6. \A ls, q : Search!Finished(ls, q) = SearchPr!Finished(ls, q)
  BY DEF Search!Finished, SearchPr!Finished
<1>7. \A ls : Search!InFlight(ls) = SearchPr!InFlight(ls)
  BY <1>2 DEF Search!InFlight, SearchPr!InFlight
<1>8. Search!Empty <=> SearchPr!Empty
  BY DEF Search!Empty, SearchPr!Empty
<1>9. Search!ListShown <=> SearchPr!ListShown
  BY <1>8 DEF Search!ListShown, SearchPr!ListShown
<1>10. \A ls, q : Search!load(ls, q) <=> SearchPr!load(ls, q)
  BY <1>5, <1>7 DEF Search!load, SearchPr!load
<1>11. \A f : Search!loadMap(f) <=> SearchPr!loadMap(f)
  BY DEF Search!loadMap, SearchPr!loadMap
<1>12. \A f, p, switched : Search!Mount(f, p, switched) <=> SearchPr!Mount(f, p, switched)
  BY <1>4, <1>5 DEF Search!Mount, SearchPr!Mount
<1>13. Search!Unmount <=> SearchPr!Unmount
  BY <1>4 DEF Search!Unmount, SearchPr!Unmount
<1>14. \A f : Search!updateFilters(f) <=> SearchPr!updateFilters(f)
  BY <1>10, <1>11 DEF Search!updateFilters, SearchPr!updateFilters
<1>15. Search!resetFilters <=> SearchPr!resetFilters
  BY <1>10, <1>11
     DEF Search!resetFilters, SearchPr!resetFilters, Search!mapVars, SearchPr!mapVars
<1>16. \A p : Search!TurnPage(p) <=> SearchPr!TurnPage(p)
  BY <1>9, <1>10 DEF Search!TurnPage, SearchPr!TurnPage, Search!mapVars, SearchPr!mapVars
<1>17. Search!ChangeLocale <=> SearchPr!ChangeLocale
  BY <1>3, <1>10, <1>11 DEF Search!ChangeLocale, SearchPr!ChangeLocale
<1>18. \A l : Search!toggleCompare(l) <=> SearchPr!toggleCompare(l)
  BY <1>8, <1>9, Counting DEF Search!toggleCompare, SearchPr!toggleCompare,
     Search!listVars, SearchPr!listVars, Search!mapVars, SearchPr!mapVars
<1>19. \A q : Search!Loaded(q) <=> SearchPr!Loaded(q)
  BY <1>6, <1>7, <1>10 DEF Search!Loaded, SearchPr!Loaded, Search!mapVars, SearchPr!mapVars
<1>20. \A q : Search!LoadFails(q) <=> SearchPr!LoadFails(q)
  BY <1>6, <1>7 DEF Search!LoadFails, SearchPr!LoadFails, Search!mapVars, SearchPr!mapVars
<1>21. \A f : Search!MapLoaded(f) <=> SearchPr!MapLoaded(f)
  BY DEF Search!MapLoaded, SearchPr!MapLoaded, Search!listVars, SearchPr!listVars
<1>22. \A f : Search!MapFails(f) <=> SearchPr!MapFails(f)
  BY DEF Search!MapFails, SearchPr!MapFails, Search!listVars, SearchPr!listVars
<1>23. Search!Init <=> SearchPr!Init
  BY <1>4 DEF Search!Init, SearchPr!Init
<1>24. Search!Next <=> SearchPr!Next
  BY <1>1, <1>2, <1>12, <1>13, <1>14, <1>15, <1>16, <1>17, <1>18, <1>19, <1>20, <1>21,
     <1>22
     DEF Search!Next, SearchPr!Next, Search!NewFeatures, SearchPr!NewFeatures,
         Search!SameFeatures, SearchPr!SameFeatures
<1>25. Search!TypeOK <=> SearchPr!TypeOK
  BY <1>1, <1>2, Counting DEF Search!TypeOK, SearchPr!TypeOK
<1>26. Search!vars = SearchPr!vars
  BY DEF Search!vars, SearchPr!vars, Search!listVars, SearchPr!listVars, Search!mapVars,
     SearchPr!mapVars
<1> QED
  BY <1>23, <1>24, <1>25, <1>26

\* So is the comparison page.
LEMMA CompareSame ==
    /\ Compare!Init <=> ComparePr!Init
    /\ Compare!Next <=> ComparePr!Next
    /\ Compare!TypeOK <=> ComparePr!TypeOK
    /\ Compare!vars = ComparePr!vars
<1>1. Compare!MAX_COMPARE_ITEMS = ComparePr!MAX_COMPARE_ITEMS
  BY DEF Compare!MAX_COMPARE_ITEMS, ComparePr!MAX_COMPARE_ITEMS
<1>2. Compare!Selections = ComparePr!Selections
  BY <1>1, Counting DEF Compare!Selections, ComparePr!Selections
<1>3. Compare!Questions = ComparePr!Questions
  BY <1>2, Counting DEF Compare!Questions, ComparePr!Questions
<1>4. Compare!Links = ComparePr!Links
  BY DEF Compare!Links, ComparePr!Links
<1>5. Compare!InitialLoads = ComparePr!InitialLoads
  BY <1>2 DEF Compare!InitialLoads, ComparePr!InitialLoads
<1>6. \A ids : Compare!initialIds(ids) = ComparePr!initialIds(ids)
  BY <1>1, <1>2, Counting DEF Compare!initialIds, ComparePr!initialIds
<1>7. \A s, p : Compare!Question(s, p) = ComparePr!Question(s, p)
  BY Counting DEF Compare!Question, ComparePr!Question
<1>8. Compare!NoAnswers = ComparePr!NoAnswers
  BY DEF Compare!NoAnswers, ComparePr!NoAnswers
<1>9. \A s, p : Compare!loadCompare(s, p) <=> ComparePr!loadCompare(s, p)
  BY Counting DEF Compare!loadCompare, ComparePr!loadCompare
<1>10. \A s, p : Compare!syncCompareUrl(s, p) <=> ComparePr!syncCompareUrl(s, p)
  BY DEF Compare!syncCompareUrl, ComparePr!syncCompareUrl
<1>11. \A ids : Compare!loadInitial(ids) <=> ComparePr!loadInitial(ids)
  BY Counting DEF Compare!loadInitial, ComparePr!loadInitial
<1>12. \A ln : Compare!Mount(ln) <=> ComparePr!Mount(ln)
  BY <1>2, <1>6, <1>11 DEF Compare!Mount, ComparePr!Mount, Compare!followVars,
     ComparePr!followVars
<1>13. Compare!ChangeLocale <=> ComparePr!ChangeLocale
  BY <1>6, <1>7, <1>11, Counting DEF Compare!ChangeLocale, ComparePr!ChangeLocale,
     Compare!followVars, ComparePr!followVars
<1>14. Compare!Unmount <=> ComparePr!Unmount
  BY <1>8 DEF Compare!Unmount, ComparePr!Unmount
<1>15. \A l : Compare!InitialLoaded(l) <=> ComparePr!InitialLoaded(l)
  BY <1>9 DEF Compare!InitialLoaded, ComparePr!InitialLoaded, Compare!followVars,
     ComparePr!followVars
<1>16. \A l : Compare!InitialFails(l) <=> ComparePr!InitialFails(l)
  BY DEF Compare!InitialFails, ComparePr!InitialFails, Compare!followVars, ComparePr!followVars
<1>17. \A l : Compare!toggleListing(l) <=> ComparePr!toggleListing(l)
  BY <1>1, <1>9, <1>10, Counting DEF Compare!toggleListing, ComparePr!toggleListing,
     Compare!followVars, ComparePr!followVars
<1>18. \A p : Compare!choosePurpose(p) <=> ComparePr!choosePurpose(p)
  BY <1>9, <1>10 DEF Compare!choosePurpose, ComparePr!choosePurpose, Compare!followVars,
     ComparePr!followVars
<1>19. Compare!refresh <=> ComparePr!refresh
  BY <1>9, Counting DEF Compare!refresh, ComparePr!refresh, Compare!followVars,
     ComparePr!followVars
<1>20. \A q : Compare!Compared(q) <=> ComparePr!Compared(q)
  BY <1>8, <1>10, Counting DEF Compare!Compared, ComparePr!Compared
<1>21. \A q : Compare!CompareFails(q) <=> ComparePr!CompareFails(q)
  BY <1>8 DEF Compare!CompareFails, ComparePr!CompareFails
<1>22. \A op : Compare!askFollowUp(op) <=> ComparePr!askFollowUp(op)
  BY Counting DEF Compare!askFollowUp, ComparePr!askFollowUp
<1>23. \A op : Compare!FollowUpAnswered(op) <=> ComparePr!FollowUpAnswered(op)
  BY DEF Compare!FollowUpAnswered, ComparePr!FollowUpAnswered
<1>24. Compare!Init <=> ComparePr!Init
  BY <1>8 DEF Compare!Init, ComparePr!Init
<1>25. Compare!Next <=> ComparePr!Next
  BY <1>4, <1>12, <1>13, <1>14, <1>15, <1>16, <1>17, <1>18, <1>19, <1>20, <1>21, <1>22,
     <1>23 DEF Compare!Next, ComparePr!Next
<1>26. Compare!TypeOK <=> ComparePr!TypeOK
  BY <1>2, <1>3, <1>4, <1>5 DEF Compare!TypeOK, ComparePr!TypeOK
<1>27. Compare!vars = ComparePr!vars
  BY DEF Compare!vars, ComparePr!vars, Compare!followVars, ComparePr!followVars
<1> QED
  BY <1>24, <1>25, <1>26, <1>27

-----------------------------------------------------------------------------
(* Every step of the tab is a step of each page, or leaves it alone. *)

LEMMA SearchStep == [Next]_vars => [Search!Next]_(Search!vars)
<1> USE DEF Search!vars, Search!listVars, Search!mapVars, searchVars
<1>1. CASE Open
  <2>1. CASE /\ at' = "search"
             /\ \E f \in Filters, p \in 1..MaxPage, switched \in BOOLEAN :
                   Search!Mount(f, p, switched)
    BY <2>1 DEF Search!Next, Search!SameFeatures, Search!Pages
  <2>2. CASE at' # "search" /\ at # "search" /\ UNCHANGED searchVars
    BY <2>2
  <2> QED
    BY <1>1, <2>1, <2>2 DEF Open, SavedOnly, AlertsOnly, ConsoleOnly, EditorOnly, DeletionOnly
<1>2. CASE OpenCompare
  BY <1>2 DEF OpenCompare, CompareOnly
<1>3. CASE PickedToCompare \/ (Leave /\ at = "search")
  BY <1>3 DEF PickedToCompare, Leave, Search!Next, Search!SameFeatures
<1>4. CASE Leave /\ at # "search"
  BY <1>4 DEF Leave, CompareOnly, SavedOnly, AlertsOnly, ConsoleOnly, EditorOnly, DeletionOnly
<1>5. CASE Stay
  BY <1>5 DEF Stay, CompareOnly, SavedOnly, AlertsOnly, ConsoleOnly, EditorOnly, DeletionOnly
<1>6. CASE UNCHANGED vars
  BY <1>6 DEF vars
<1> QED
  BY <1>1, <1>2, <1>3, <1>4, <1>5, <1>6 DEF Next

\* The search page hands over listings, and no purpose.
LEMMA CompareStep == Search!TypeOK /\ [Next]_vars => [Compare!Next]_(Compare!vars)
<1> SUFFICES ASSUME Search!TypeOK, [Next]_vars PROVE [Compare!Next]_(Compare!vars)
  OBVIOUS
<1> USE DEF Compare!vars, Compare!followVars, compareVars
<1>1. CASE Open
  <2>1. at # "compare" /\ at' # "compare" /\ UNCHANGED compareVars
    BY <1>1 DEF Open, SearchOnly, SavedOnly, AlertsOnly, ConsoleOnly, EditorOnly, DeletionOnly
  <2> QED
    BY <2>1
<1>2. CASE OpenCompare
  BY <1>2 DEF OpenCompare, Compare!Next
<1>3. CASE PickedToCompare
  <2>1. [ids |-> compareIds, purpose |-> None] \in Compare!Links
    BY DEF Search!TypeOK, Compare!Links
  <2> QED
    BY <1>3, <2>1 DEF PickedToCompare, Compare!Next
<1>4. CASE Leave /\ at = "compare"
  BY <1>4 DEF Leave, Compare!Next
<1>5. CASE Leave /\ at # "compare"
  BY <1>5 DEF Leave, SearchOnly, SavedOnly, AlertsOnly, ConsoleOnly, EditorOnly, DeletionOnly
<1>6. CASE Stay
  BY <1>6 DEF Stay, SearchOnly, SavedOnly, AlertsOnly, ConsoleOnly, EditorOnly, DeletionOnly
<1>7. CASE UNCHANGED vars
  BY <1>7 DEF vars
<1> QED
  BY <1>1, <1>2, <1>3, <1>4, <1>5, <1>6, <1>7 DEF Next

LEMMA DeletionStep == [Next]_vars => [Deletion!Next]_(Deletion!vars)
<1> USE DEF Deletion!vars, Deletion!serverVars, deletionVars
<1>1. CASE Open
  <2>1. CASE at' = "deletion" /\ Deletion!Mount
    BY <2>1 DEF Deletion!Next
  <2>2. CASE at # "deletion" /\ at' # "deletion" /\ UNCHANGED deletionVars
    BY <2>2
  <2> QED
    BY <1>1, <2>1, <2>2 DEF Open, SearchOnly, SavedOnly, AlertsOnly, ConsoleOnly, EditorOnly
<1>2. CASE OpenCompare
  BY <1>2 DEF OpenCompare, CompareOnly
<1>3. CASE PickedToCompare
  BY <1>3 DEF PickedToCompare
<1>4. CASE Leave /\ at = "deletion"
  BY <1>4 DEF Leave, Deletion!Next
<1>5. CASE Leave /\ at # "deletion"
  BY <1>5 DEF Leave, SearchOnly, CompareOnly, SavedOnly, AlertsOnly, ConsoleOnly, EditorOnly
<1>6. CASE Stay
  BY <1>6 DEF Stay, SearchOnly, CompareOnly, SavedOnly, AlertsOnly, ConsoleOnly, EditorOnly
<1>7. CASE UNCHANGED vars
  BY <1>7 DEF vars
<1> QED
  BY <1>1, <1>2, <1>3, <1>4, <1>5, <1>6, <1>7 DEF Next

-----------------------------------------------------------------------------
(* The search and the comparison page. *)

\* What the proofs about them assume, in their own copy of FiniteSets.
LEMMA Finite == SearchPr!IsFiniteSet(Listings) /\ ComparePr!IsFiniteSet(Listings)
BY SearchAssumption DEF IsFiniteSet, SearchPr!IsFiniteSet, ComparePr!IsFiniteSet

(* The tab implements the search page, so that what is proved of it holds.   *)
THEOREM TabSearches == Spec => SearchPr!Spec
<1>1. Init => SearchPr!Init
  BY SearchSame DEF Init
<1>2. [Next]_vars => [SearchPr!Next]_(SearchPr!vars)
  BY SearchStep, SearchSame
     DEF Search!vars, SearchPr!vars, Search!listVars, SearchPr!listVars, Search!mapVars,
         SearchPr!mapVars
<1> QED
  BY <1>1, <1>2, PTL DEF Spec, SearchPr!Spec

(* The variables of the search page keep their types in the tab.             *)
THEOREM SearchTypes == Spec => []Search!TypeOK
<1>1. SearchPr!Spec => []SearchPr!TypeOK
  BY Finite, SearchAssumption, CompareAssumption, SavedAssumption, ConsoleAssumption,
     EditorAssumption, DeletionAssumption, CheckAssumption, SearchPr!TypeCorrect
<1>2. SearchPr!TypeOK => Search!TypeOK
  BY SearchSame
<1> QED
  BY <1>1, <1>2, TabSearches, PTL

(* The list of the tab's search page is the one of its filters and page,     *)
(* unless one load was started beside another.                               *)
THEOREM ListCurrent == Spec => []ListIsCurrent
<1>1. SearchPr!Spec => []SearchPr!ListIsCurrent
  BY Finite, SearchAssumption, CompareAssumption, SavedAssumption, ConsoleAssumption,
     EditorAssumption, DeletionAssumption, CheckAssumption, SearchPr!ListCurrent
<1>2. SearchPr!ListIsCurrent => ListIsCurrent
  <2>1. \A ls : Search!InFlight(ls) = SearchPr!InFlight(ls)
    BY DEF Search!InFlight, SearchPr!InFlight, Search!Questions, SearchPr!Questions,
           Search!Pages, SearchPr!Pages
  <2> QED
    BY <2>1 DEF ListIsCurrent, Search!ListIsCurrent, SearchPr!ListIsCurrent, Search!Current,
                SearchPr!Current
<1> QED
  BY <1>1, <1>2, TabSearches, PTL

(* The map of the tab's search page implements LatestAnswer.                 *)
THEOREM MapLatest == Spec => MapShowsLatest
<1>1. SearchPr!Spec => SearchPr!MapShowsLatest
  BY Finite, SearchAssumption, CompareAssumption, SavedAssumption, ConsoleAssumption,
     EditorAssumption, DeletionAssumption, CheckAssumption, SearchPr!MapLatest
<1>2. SearchPr!MapPanel!Init => Search!MapPanel!Init
  BY DEF SearchPr!MapPanel!Init, Search!MapPanel!Init
<1>3. [SearchPr!MapPanel!Next]_(SearchPr!MapPanel!vars)
        => [Search!MapPanel!Next]_(Search!MapPanel!vars)
  BY DEF SearchPr!MapPanel!Next, Search!MapPanel!Next, SearchPr!MapPanel!vars,
         Search!MapPanel!vars, SearchPr!MapPanel!Ask, Search!MapPanel!Ask, SearchPr!MapPanel!Answer,
         Search!MapPanel!Answer, SearchPr!MapPanel!Fail, Search!MapPanel!Fail,
         SearchPr!MapPanel!Forget, Search!MapPanel!Forget
<1> QED
  BY <1>1, <1>2, <1>3, TabSearches, PTL
     DEF MapShowsLatest, Search!MapShowsLatest, SearchPr!MapShowsLatest, Search!MapPanel!Spec,
         SearchPr!MapPanel!Spec

(* The tab implements the comparison page.                                   *)
THEOREM TabCompares == Spec => ComparePr!Spec
<1>1. Init => ComparePr!Init
  BY CompareSame DEF Init
<1>2. Search!TypeOK /\ [Next]_vars => [ComparePr!Next]_(ComparePr!vars)
  BY CompareStep, CompareSame
     DEF Compare!vars, ComparePr!vars, Compare!followVars, ComparePr!followVars
<1> QED
  BY <1>1, <1>2, SearchTypes, PTL DEF Spec, ComparePr!Spec

(* The variables of the comparison page keep their types in the tab.         *)
THEOREM CompareTypes == Spec => []Compare!TypeOK
<1>1. ComparePr!Spec => []ComparePr!TypeOK
  BY Finite, SearchAssumption, CompareAssumption, SavedAssumption, ConsoleAssumption,
     EditorAssumption, DeletionAssumption, CheckAssumption, ComparePr!TypeCorrect
<1>2. ComparePr!TypeOK => Compare!TypeOK
  BY CompareSame
<1> QED
  BY <1>1, <1>2, TabCompares, PTL

(* The link of the tab's comparison page names what is selected, except      *)
(* after an initial load that answered late.                                 *)
THEOREM LinkInStep == Spec => []LinkKeepsSelection
<1>1. ComparePr!Spec => []ComparePr!LinkKeepsSelection
  BY Finite, SearchAssumption, CompareAssumption, SavedAssumption, ConsoleAssumption,
     EditorAssumption, DeletionAssumption, CheckAssumption, ComparePr!LinkInStep
<1>2. ComparePr!LinkKeepsSelection => LinkKeepsSelection
  BY DEF LinkKeepsSelection, Compare!LinkKeepsSelection, ComparePr!LinkKeepsSelection
<1> QED
  BY <1>1, <1>2, TabCompares, PTL

(* The comparison of the tab's comparison page implements LatestAnswer.      *)
THEOREM ComparisonLatest == Spec => ComparisonIsLatest
<1>1. ComparePr!Spec => ComparePr!ComparisonIsLatest
  BY Finite, SearchAssumption, CompareAssumption, SavedAssumption, ConsoleAssumption,
     EditorAssumption, DeletionAssumption, CheckAssumption, ComparePr!ComparisonLatest
<1>2. /\ Compare!Questions = ComparePr!Questions
      /\ \A s, p : Compare!Question(s, p) = ComparePr!Question(s, p)
  BY Counting DEF Compare!Questions, ComparePr!Questions, Compare!Question, ComparePr!Question,
                  Compare!Selections, ComparePr!Selections, Compare!MAX_COMPARE_ITEMS,
                  ComparePr!MAX_COMPARE_ITEMS
<1>3. ComparePr!ComparisonPanel!Init => Compare!ComparisonPanel!Init
  BY <1>2 DEF ComparePr!ComparisonPanel!Init, Compare!ComparisonPanel!Init
<1>4. [ComparePr!ComparisonPanel!Next]_(ComparePr!ComparisonPanel!vars)
        => [Compare!ComparisonPanel!Next]_(Compare!ComparisonPanel!vars)
  BY <1>2
     DEF ComparePr!ComparisonPanel!Next, Compare!ComparisonPanel!Next,
         ComparePr!ComparisonPanel!vars, Compare!ComparisonPanel!vars,
         ComparePr!ComparisonPanel!Ask, Compare!ComparisonPanel!Ask,
         ComparePr!ComparisonPanel!Answer, Compare!ComparisonPanel!Answer,
         ComparePr!ComparisonPanel!Fail, Compare!ComparisonPanel!Fail,
         ComparePr!ComparisonPanel!Forget, Compare!ComparisonPanel!Forget
<1> QED
  BY <1>1, <1>3, <1>4, TabCompares, PTL
     DEF ComparisonIsLatest, Compare!ComparisonIsLatest, ComparePr!ComparisonIsLatest,
         Compare!ComparisonPanel!Spec, ComparePr!ComparisonPanel!Spec

(* Only an answer that comes after the selection has changed is about        *)
(* another selection than the one compared.                                  *)
THEOREM MixedByLateAnswers == Spec => OnlyLateAnswersMix
<1> DEFINE Late == \E op \in FollowUps : /\ asking[op] # asking'[op]
                                         /\ asking[op] # comparison.ids
<1>1. ComparePr!Spec => ComparePr!OnlyLateAnswersMix
  BY Finite, SearchAssumption, CompareAssumption, SavedAssumption, ConsoleAssumption,
     EditorAssumption, DeletionAssumption, CheckAssumption, ComparePr!MixedByLateAnswers
<1>2. [ComparePr!AnswersOfComparison /\ ~ComparePr!AnswersOfComparison' => Late]_(ComparePr!vars)
        => [Compare!AnswersOfComparison /\ ~Compare!AnswersOfComparison' => Late]_(Compare!vars)
  BY DEF Compare!AnswersOfComparison, ComparePr!AnswersOfComparison,
         Compare!vars, ComparePr!vars, Compare!followVars, ComparePr!followVars
<1> QED
  BY <1>1, <1>2, TabCompares, PTL
     DEF OnlyLateAnswersMix, Compare!OnlyLateAnswersMix, ComparePr!OnlyLateAnswersMix

-----------------------------------------------------------------------------
(* The deletion requests, for any number of handlers, loads and crashes. *)

\* Nothing outlives the visit.
RequestForgotten == at # "deletion" => row = None /\ ~gone

\* What a handler has done is in its state: only one that is to process the request deletes,
\* and one that is about to answer has written its audit entry.
Truthful(h) ==
    /\ handlers[h].pc # "idle" => row # None
    /\ handlers[h].pc \in {"find", "delete"} => handlers[h].status = "processed"
    /\ handlers[h].deleted => /\ handlers[h].pc \in {"mark", "audit", "answer"}
                              /\ handlers[h].status = "processed"
                              /\ ~draft
    /\ handlers[h].pc = "answer" =>
          [status |-> handlers[h].status, deleted |-> handlers[h].deleted] \in audit
HandlersTruthful == \A h \in Handlers : Truthful(h)

\* Unless raced: one handler at a time is past the test, and what it read still holds.
OneResolves ==
    ~requestRaced /\ crashes = 0 =>
        /\ \A g, h \in Handlers : Deletion!PastTest(g) /\ Deletion!PastTest(h) => g = h
        /\ \A h \in Handlers : Deletion!PastTest(h) => Deletion!Status = "open"
        /\ gone => \/ Deletion!Status = "processed"
                   \/ \E h \in Handlers : handlers[h].pc = "mark" /\ handlers[h].deleted
        /\ row # None /\ row.deleted => row.status = "processed" /\ ~draft

DeletionInv == Deletion!TypeOK /\ RequestForgotten /\ HandlersTruthful
      /\ Deletion!DeletionsAudited /\ OneResolves

-----------------------------------------------------------------------------
(* Types. *)

LEMMA NoneFacts == None \notin Deletion!Statuses \cup Deletion!Results
BY DeletionAssumption DEF Deletion!Statuses, Deletion!Resolutions, Deletion!Results

HandlerSteps(h) == \/ Deletion!GetRequest(h) \/ Deletion!FindDraft(h) \/ Deletion!DeleteDraft(h)
                   \/ Deletion!MarkProcessed(h) \/ Deletion!WriteAudit(h) \/ Deletion!Answered(h)
                   \/ Deletion!Crash(h)

LEMMA LoadTypes ==
    ASSUME NEW ls \in [DeletionLoads -> Deletion!LoadStates], NEW l \in DeletionLoads,
           NEW s \in Deletion!Statuses \cup {None}
    PROVE  /\ [ls EXCEPT ![l] = Deletion!NotLoading] \in [DeletionLoads -> Deletion!LoadStates]
           /\ [ls EXCEPT ![l] = [stage |-> "asked",
                 status |-> None]] \in [DeletionLoads -> Deletion!LoadStates]
           /\ [ls EXCEPT ![l] = [stage |-> "read",
                 status |-> s]] \in [DeletionLoads -> Deletion!LoadStates]
BY DEF Deletion!LoadStates, Deletion!NotLoading

LEMMA StatusType == Deletion!TypeOK => Deletion!Status \in Deletion!Statuses \cup {None}
BY DEF Deletion!TypeOK, Deletion!Status, Deletion!Results

LEMMA PageLoads ==
    ASSUME Deletion!TypeOK,
           \/ Deletion!load
           \/ UNCHANGED requestLoads
           \/ \E l \in DeletionLoads :
                   Deletion!Read(l) \/ Deletion!Loaded(l) \/ Deletion!LoadFails(l)
    PROVE  requestLoads' \in [DeletionLoads -> Deletion!LoadStates]
<1>1. CASE Deletion!load
  <2>1. PICK l \in DeletionLoads :
          requestLoads' = [requestLoads EXCEPT ![l] = [stage |-> "asked", status |-> None]]
    BY <1>1 DEF Deletion!load
  <2> QED
    BY <2>1, LoadTypes DEF Deletion!TypeOK
<1>2. CASE UNCHANGED requestLoads
  BY <1>2 DEF Deletion!TypeOK
<1>3. CASE \E l \in DeletionLoads :
        Deletion!Read(l) \/ Deletion!Loaded(l) \/ Deletion!LoadFails(l)
  <2>1. PICK l \in DeletionLoads : Deletion!Read(l) \/ Deletion!Loaded(l) \/ Deletion!LoadFails(l)
    BY <1>3
  <2>2. CASE Deletion!Read(l)
    <3>1. requestLoads' = [requestLoads EXCEPT ![l] = [stage |-> "read",
          status |-> Deletion!Status]]
      BY <2>2 DEF Deletion!Read
    <3> QED
      BY <3>1, LoadTypes, StatusType DEF Deletion!TypeOK
  <2>3. CASE Deletion!Loaded(l) \/ Deletion!LoadFails(l)
    <3>1. requestLoads' = [requestLoads EXCEPT ![l] = Deletion!NotLoading]
      BY <2>3 DEF Deletion!Loaded, Deletion!LoadFails
    <3>2. None \in Deletion!Statuses \cup {None}
      OBVIOUS
    <3> QED
      BY <3>1, <3>2, LoadTypes DEF Deletion!TypeOK
  <2> QED
    BY <2>1, <2>2, <2>3
<1> QED
  BY <1>1, <1>2, <1>3

LEMMA HandlerTypes ==
    ASSUME NEW s \in Deletion!HandlerStates,
           NEW pc \in {"idle", "get", "find", "delete", "mark", "audit", "answer"}
    PROVE  /\ [s EXCEPT !.pc = pc] \in Deletion!HandlerStates
           /\ [s EXCEPT !.pc = pc, !.deleted = TRUE] \in Deletion!HandlerStates
           /\ s.status \in Deletion!Resolutions /\ s.deleted \in BOOLEAN
           /\ [status |-> s.status, deleted |-> s.deleted] \in Deletion!Results
BY DEF Deletion!HandlerStates, Deletion!Results, Deletion!Statuses

LEMMA IdleType == Deletion!Idle \in Deletion!HandlerStates
BY DEF Deletion!Idle, Deletion!HandlerStates, Deletion!Resolutions

LEMMA GotoType ==
    ASSUME Deletion!TypeOK, NEW h \in Handlers,
           NEW pc \in {"idle", "get", "find", "delete", "mark", "audit", "answer"},
                  Deletion!Goto(h, pc)
    PROVE  /\ handlers' \in [Handlers -> Deletion!HandlerStates]
           /\ handlers'[h] = [handlers[h] EXCEPT !.pc = pc]
           /\ \A g \in Handlers \ {h} : handlers'[g] = handlers[g]
<1>1. handlers' = [handlers EXCEPT ![h] = [handlers[h] EXCEPT !.pc = pc]]
  BY DEF Deletion!Goto
<1>2. [handlers[h] EXCEPT !.pc = pc] \in Deletion!HandlerStates
  BY HandlerTypes DEF Deletion!TypeOK
<1> QED
  BY <1>1, <1>2 DEF Deletion!TypeOK

-----------------------------------------------------------------------------
(* The handler. *)

\* A step of one handler leaves what the others have done true.
LEMMA OthersTruthful ==
    ASSUME HandlersTruthful, NEW h \in Handlers, Truthful(h)',
           \A g \in Handlers \ {h} : handlers'[g] = handlers[g],
           row # None => row' # None, draft' => draft, audit \subseteq audit'
    PROVE  HandlersTruthful'
<1> SUFFICES ASSUME NEW g \in Handlers PROVE Truthful(g)'
  BY DEF HandlersTruthful
<1>1. CASE g = h
  BY <1>1
<1>2. CASE g # h
  <2>1. Truthful(g) /\ handlers'[g] = handlers[g]
    BY <1>2 DEF HandlersTruthful
  <2> QED
    BY <2>1 DEF Truthful
<1> QED
  BY <1>1, <1>2

LEMMA CrashKeeps ==
    ASSUME DeletionInv, NEW h \in Handlers, Deletion!Crash(h)
    PROVE  DeletionInv'
<1>1. /\ crashes' \in 0..MaxCrashes
      /\ IF handlers[h].deleted THEN crashes' # 0 /\ crashes' > 0 ELSE UNCHANGED crashes
  BY DeletionAssumption DEF Deletion!Crash, DeletionInv, Deletion!TypeOK
<1>2. handlers' = [handlers EXCEPT ![h] = Deletion!Idle]
      /\ (at = "deletion")' = (at = "deletion")
      /\ UNCHANGED <<draft, row, audit, gone, requestRaced, requestListed, requestLoads>>
  BY DEF Deletion!Crash
<1>3. Deletion!TypeOK'
  BY <1>1, <1>2, IdleType DEF DeletionInv, Deletion!TypeOK
<1>4. HandlersTruthful'
  BY <1>2 DEF DeletionInv, Deletion!TypeOK, HandlersTruthful, Truthful, Deletion!Idle
<1>5. ASSUME NEW g \in Handlers, handlers'[g] # Deletion!Idle
      PROVE  g # h /\ handlers'[g] = handlers[g]
  BY <1>2, <1>5 DEF DeletionInv, Deletion!TypeOK
<1>6. \A g \in Handlers : Deletion!PastTest(g)' => Deletion!PastTest(g)
  BY <1>5 DEF Deletion!PastTest, Deletion!Idle
<1>7. ASSUME ~handlers[h].deleted, NEW g \in Handlers, handlers[g].deleted
      PROVE  handlers'[g] = handlers[g]
  BY <1>2, <1>7 DEF DeletionInv, Deletion!TypeOK
<1>8. Deletion!DeletionsAudited'
  BY <1>1, <1>2, <1>7 DEF DeletionInv, Deletion!DeletionsAudited
<1>9. OneResolves'
  <2> SUFFICES ASSUME ~requestRaced', crashes' = 0 PROVE OneResolves'
    BY DEF OneResolves
  <2>1. ~handlers[h].deleted /\ ~requestRaced /\ crashes = 0
    BY <1>1, <1>2
  <2> QED
    BY <1>2, <1>6, <1>7, <2>1 DEF DeletionInv, OneResolves, Deletion!Status
<1> QED
  BY <1>2, <1>3, <1>4, <1>8, <1>9 DEF DeletionInv, RequestForgotten

LEMMA GetKeeps ==
    ASSUME DeletionInv, NEW h \in Handlers, Deletion!GetRequest(h)
    PROVE  DeletionInv'
<1>1. /\ (at = "deletion")' = (at = "deletion")
      /\ UNCHANGED <<draft, row, audit, crashes, gone, requestListed, requestLoads>>
  BY DEF Deletion!GetRequest
<1>2. row # None /\ row \in Deletion!Results /\ handlers[h].pc = "get"
      /\ handlers[h] \in Deletion!HandlerStates
      /\ ~handlers[h].deleted /\ Deletion!Status = row.status /\ Deletion!Status' = row.status
  BY <1>1 DEF Deletion!GetRequest, DeletionInv, Deletion!TypeOK, HandlersTruthful, Truthful,
         Deletion!Status, Deletion!HandlerStates
<1>3. CASE row.status # "open"
  <2>1. handlers' = [handlers EXCEPT ![h] = Deletion!Idle] /\ UNCHANGED requestRaced
    BY <1>3 DEF Deletion!GetRequest
  <2>2. Deletion!TypeOK'
    BY <1>1, <2>1, IdleType DEF DeletionInv, Deletion!TypeOK
  <2>3. HandlersTruthful'
    BY <1>1, <2>1 DEF DeletionInv, Deletion!TypeOK, HandlersTruthful, Truthful, Deletion!Idle
  <2>4. Deletion!DeletionsAudited'
    BY <1>1, <1>2, <2>1 DEF DeletionInv, Deletion!TypeOK, Deletion!DeletionsAudited, Deletion!Idle
  <2>5. OneResolves'
    BY <1>1, <1>2, <2>1 DEF DeletionInv, Deletion!TypeOK, OneResolves, Deletion!PastTest,
           Deletion!Idle
  <2> QED
    BY <1>1, <2>2, <2>3, <2>4, <2>5 DEF DeletionInv, RequestForgotten
<1>4. CASE row.status = "open"
  <2> DEFINE pc == IF handlers[h].status = "processed" /\ handlers[h].execute
                   THEN "find" ELSE "mark"
  <2>1. Deletion!Goto(h,
        pc) /\ requestRaced' = (requestRaced \/ \E g \in Handlers \ {h} : Deletion!PastTest(g))
    BY <1>4 DEF Deletion!GetRequest
  <2>2. pc \in {"find", "mark"} /\ (pc = "find" => handlers[h].status = "processed")
    OBVIOUS
  <2> HIDE DEF pc
  <2>3. /\ handlers' \in [Handlers -> Deletion!HandlerStates]
        /\ handlers'[h] = [handlers[h] EXCEPT !.pc = pc]
        /\ \A g \in Handlers \ {h} : handlers'[g] = handlers[g]
    BY <2>1, <2>2, GotoType DEF DeletionInv
  <2>4. /\ handlers'[h].pc = pc /\ handlers'[h].status = handlers[h].status
        /\ handlers'[h].deleted = FALSE
    BY <1>2, <2>3 DEF Deletion!HandlerStates
  <2>5. requestRaced' \in BOOLEAN
    BY <2>1
  <2>6. Deletion!TypeOK'
    BY <1>1, <2>3, <2>5 DEF DeletionInv, Deletion!TypeOK
  <2>7. HandlersTruthful'
    <3>1. Truthful(h)'
      BY <1>1, <1>2, <2>2, <2>4 DEF Truthful
    <3> QED
      BY <1>1, <2>3, <3>1, OthersTruthful DEF DeletionInv
  <2>8. Deletion!DeletionsAudited'
    <3>1. \A g \in Handlers : handlers[g].deleted => g # h /\ handlers'[g].deleted
      BY <1>2, <2>3
    <3> QED
      BY <1>1, <3>1 DEF DeletionInv, Deletion!DeletionsAudited
  <2>9. OneResolves'
    <3> SUFFICES ASSUME ~requestRaced', crashes' = 0 PROVE OneResolves'
      BY DEF OneResolves
    <3>1. ~requestRaced /\ crashes = 0 /\ \A g \in Handlers \ {h} : ~Deletion!PastTest(g)
      BY <1>1, <2>1
    <3>2. ~Deletion!PastTest(h)
      BY <1>2 DEF Deletion!PastTest
    <3>3. ~gone
      BY <1>2, <1>4, <3>1, <3>2 DEF DeletionInv, OneResolves, Deletion!PastTest
    <3>4. \A g \in Handlers : Deletion!PastTest(g)' => g = h
      BY <2>3, <3>1 DEF Deletion!PastTest
    <3> QED
      BY <1>1, <1>2, <1>4, <3>1, <3>3, <3>4 DEF DeletionInv, OneResolves
  <2> QED
    BY <1>1, <2>6, <2>7, <2>8, <2>9 DEF DeletionInv, RequestForgotten
<1> QED
  BY <1>3, <1>4

LEMMA FindKeeps ==
    ASSUME DeletionInv, NEW h \in Handlers, Deletion!FindDraft(h)
    PROVE  DeletionInv'
<1> DEFINE pc == IF draft THEN "delete" ELSE "mark"
<1>1. Deletion!Goto(h, pc) /\ handlers[h].pc = "find"
      /\ (at = "deletion")' = (at = "deletion")
      /\ UNCHANGED <<draft, row, audit, crashes, gone, requestRaced, requestListed, requestLoads>>
  BY DEF Deletion!FindDraft
<1>2. pc \in {"delete", "mark"}
  OBVIOUS
<1> HIDE DEF pc
<1>3. /\ handlers' \in [Handlers -> Deletion!HandlerStates]
      /\ handlers'[h] = [handlers[h] EXCEPT !.pc = pc]
      /\ \A g \in Handlers \ {h} : handlers'[g] = handlers[g]
  BY <1>1, <1>2, GotoType DEF DeletionInv
<1>4. Truthful(h) /\ handlers[h] \in Deletion!HandlerStates
  BY DEF DeletionInv, HandlersTruthful, Deletion!TypeOK
<1>5. /\ handlers'[h].pc = pc /\ handlers'[h].status = handlers[h].status
      /\ handlers'[h].deleted = FALSE /\ handlers[h].deleted = FALSE
  BY <1>1, <1>3, <1>4 DEF Deletion!HandlerStates, Truthful
<1>6. Deletion!TypeOK'
  BY <1>1, <1>3 DEF DeletionInv, Deletion!TypeOK
<1>7. HandlersTruthful'
  <2>1. Truthful(h)'
    BY <1>1, <1>2, <1>4, <1>5 DEF Truthful
  <2> QED
    BY <1>1, <1>3, <2>1, OthersTruthful DEF DeletionInv
<1>8. Deletion!DeletionsAudited'
  <2>1. \A g \in Handlers : handlers[g].deleted => handlers'[g].deleted
    BY <1>3, <1>5
  <2> QED
    BY <1>1, <2>1 DEF DeletionInv, Deletion!DeletionsAudited
<1>9. OneResolves'
  <2>1. \A g \in Handlers : Deletion!PastTest(g)' => Deletion!PastTest(g)
    BY <1>1, <1>2, <1>3, <1>5 DEF Deletion!PastTest
  <2>2. \A g \in Handlers : handlers[g].deleted => handlers'[g] = handlers[g]
    BY <1>3, <1>5
  <2>3. Deletion!Status' = Deletion!Status
    BY <1>1 DEF Deletion!Status
  <2> QED
    BY <1>1, <2>1, <2>2, <2>3 DEF DeletionInv, OneResolves
<1> QED
  BY <1>1, <1>6, <1>7, <1>8, <1>9 DEF DeletionInv, RequestForgotten

LEMMA DeleteKeeps ==
    ASSUME DeletionInv, NEW h \in Handlers, Deletion!DeleteDraft(h)
    PROVE  DeletionInv'
<1>1. /\ handlers[h].pc = "delete" /\ gone' = (gone \/ draft) /\ draft' = FALSE
      /\ handlers' = [handlers EXCEPT ![h] = [handlers[h] EXCEPT !.pc = "mark", !.deleted = TRUE]]
      /\ (at = "deletion")' = (at = "deletion")
      /\ UNCHANGED <<row, audit, crashes, requestRaced, requestListed, requestLoads>>
  BY DEF Deletion!DeleteDraft
<1>2. Truthful(h) /\ handlers[h] \in Deletion!HandlerStates
  BY DEF DeletionInv, HandlersTruthful, Deletion!TypeOK
<1>3. [handlers[h] EXCEPT !.pc = "mark", !.deleted = TRUE] \in Deletion!HandlerStates
  BY <1>2, HandlerTypes
<1>4. /\ handlers' \in [Handlers -> Deletion!HandlerStates]
      /\ handlers'[h] = [handlers[h] EXCEPT !.pc = "mark", !.deleted = TRUE]
      /\ \A g \in Handlers \ {h} : handlers'[g] = handlers[g]
  BY <1>1, <1>3 DEF DeletionInv, Deletion!TypeOK
<1>5. handlers'[h].pc = "mark" /\ handlers'[h].status = "processed" /\ handlers'[h].deleted
      /\ row # None
  BY <1>1, <1>2, <1>4 DEF Deletion!HandlerStates, Truthful
<1>6. gone' \in BOOLEAN /\ draft' \in BOOLEAN
  BY <1>1
<1>7. Deletion!TypeOK'
  BY <1>1, <1>4, <1>6 DEF DeletionInv, Deletion!TypeOK
<1>8. HandlersTruthful'
  <2>1. Truthful(h)'
    BY <1>1, <1>5 DEF Truthful
  <2> QED
    BY <1>1, <1>4, <2>1, OthersTruthful DEF DeletionInv
<1>9. Deletion!DeletionsAudited'
  BY <1>5 DEF Deletion!DeletionsAudited
<1>10. OneResolves'
  <2>1. \A g \in Handlers : Deletion!PastTest(g)' => Deletion!PastTest(g)
    BY <1>1, <1>4 DEF Deletion!PastTest
  <2>2. Deletion!Status' = Deletion!Status
    BY <1>1 DEF Deletion!Status
  <2> QED
    BY <1>1, <1>5, <2>1, <2>2 DEF DeletionInv, OneResolves
<1>11. RequestForgotten'
  BY <1>1, <1>5 DEF DeletionInv, RequestForgotten
<1> QED
  BY <1>7, <1>8, <1>9, <1>10, <1>11 DEF DeletionInv

LEMMA MarkKeeps ==
    ASSUME DeletionInv, NEW h \in Handlers, Deletion!MarkProcessed(h)
    PROVE  DeletionInv'
<1>1. /\ handlers[h].pc = "mark" /\ Deletion!Goto(h, "audit")
      /\ row' = [status |-> handlers[h].status, deleted |-> handlers[h].deleted]
      /\ (at = "deletion")' = (at = "deletion")
      /\ UNCHANGED <<draft, audit, crashes, gone, requestRaced, requestListed, requestLoads>>
  BY DEF Deletion!MarkProcessed
<1>2. Truthful(h) /\ handlers[h] \in Deletion!HandlerStates
  BY DEF DeletionInv, HandlersTruthful, Deletion!TypeOK
<1>3. /\ handlers' \in [Handlers -> Deletion!HandlerStates]
      /\ handlers'[h] = [handlers[h] EXCEPT !.pc = "audit"]
      /\ \A g \in Handlers \ {h} : handlers'[g] = handlers[g]
  BY <1>1, GotoType DEF DeletionInv
<1>4. /\ handlers'[h].pc = "audit" /\ handlers'[h].status = handlers[h].status
      /\ handlers'[h].deleted = handlers[h].deleted
  BY <1>2, <1>3 DEF Deletion!HandlerStates
<1>5. row' \in Deletion!Results /\ row' # None /\ row'.status = handlers[h].status
      /\ row'.deleted = handlers[h].deleted /\ row # None
  <2>1. row' \in Deletion!Results /\ row # None
    BY <1>1, <1>2, HandlerTypes DEF Truthful
  <2>2. None \notin Deletion!Results
    BY NoneFacts
  <2> QED
    BY <1>1, <2>1, <2>2
<1>6. Deletion!TypeOK'
  BY <1>1, <1>3, <1>5 DEF DeletionInv, Deletion!TypeOK
<1>7. HandlersTruthful'
  <2>1. Truthful(h)'
    BY <1>1, <1>2, <1>4, <1>5 DEF Truthful
  <2> QED
    BY <1>1, <1>3, <1>5, <2>1, OthersTruthful DEF DeletionInv
<1>8. Deletion!DeletionsAudited'
  <2>1. \A g \in Handlers : handlers[g].deleted => handlers'[g].deleted
    BY <1>3, <1>4
  <2> QED
    BY <1>1, <2>1 DEF DeletionInv, Deletion!DeletionsAudited
<1>9. OneResolves'
  <2> SUFFICES ASSUME ~requestRaced', crashes' = 0 PROVE OneResolves'
    BY DEF OneResolves
  <2>1. ~requestRaced /\ crashes = 0
    BY <1>1
  <2>2. \A g \in Handlers : Deletion!PastTest(g) => g = h
    BY <1>1, <2>1 DEF DeletionInv, OneResolves, Deletion!PastTest
  <2>3. \A g \in Handlers : ~Deletion!PastTest(g)'
    BY <1>3, <1>4, <2>2 DEF Deletion!PastTest
  <2>4. Deletion!Status' = handlers[h].status
    BY <1>5 DEF Deletion!Status
  <2>5. gone => handlers[h].deleted
    BY <1>1, <2>1, <2>2 DEF DeletionInv, OneResolves, Deletion!PastTest
  <2>6. handlers[h].deleted => handlers[h].status = "processed" /\ ~draft
    BY <1>2 DEF Truthful
  <2> QED
    BY <1>1, <1>5, <2>3, <2>4, <2>5, <2>6 DEF OneResolves
<1>10. RequestForgotten'
  BY <1>1, <1>5 DEF DeletionInv, RequestForgotten
<1> QED
  BY <1>6, <1>7, <1>8, <1>9, <1>10 DEF DeletionInv

LEMMA AuditKeeps ==
    ASSUME DeletionInv, NEW h \in Handlers, Deletion!WriteAudit(h)
    PROVE  DeletionInv'
<1> DEFINE entry == [status |-> handlers[h].status, deleted |-> handlers[h].deleted]
<1>1. /\ handlers[h].pc = "audit" /\ Deletion!Goto(h, "answer") /\ audit' = audit \cup {entry}
      /\ (at = "deletion")' = (at = "deletion")
      /\ UNCHANGED <<draft, row, crashes, gone, requestRaced, requestListed, requestLoads>>
  BY DEF Deletion!WriteAudit
<1>2. Truthful(h) /\ handlers[h] \in Deletion!HandlerStates
  BY DEF DeletionInv, HandlersTruthful, Deletion!TypeOK
<1>3. /\ handlers' \in [Handlers -> Deletion!HandlerStates]
      /\ handlers'[h] = [handlers[h] EXCEPT !.pc = "answer"]
      /\ \A g \in Handlers \ {h} : handlers'[g] = handlers[g]
  BY <1>1, GotoType DEF DeletionInv
<1>4. /\ handlers'[h].pc = "answer" /\ handlers'[h].status = handlers[h].status
      /\ handlers'[h].deleted = handlers[h].deleted
  BY <1>2, <1>3 DEF Deletion!HandlerStates
<1>5. entry \in Deletion!Results
  BY <1>2, HandlerTypes
<1>6. Deletion!TypeOK'
  BY <1>1, <1>3, <1>5 DEF DeletionInv, Deletion!TypeOK
<1>7. HandlersTruthful'
  <2>1. Truthful(h)'
    BY <1>1, <1>2, <1>4 DEF Truthful
  <2> QED
    BY <1>1, <1>3, <2>1, OthersTruthful DEF DeletionInv
<1>8. Deletion!DeletionsAudited'
  <2>1. \A g \in Handlers : handlers[g].deleted => handlers'[g].deleted
    BY <1>3, <1>4
  <2> QED
    BY <1>1, <2>1 DEF DeletionInv, Deletion!DeletionsAudited
<1>9. OneResolves'
  <2>1. \A g \in Handlers : Deletion!PastTest(g)' => Deletion!PastTest(g)
    BY <1>3, <1>4 DEF Deletion!PastTest
  <2>2. \A g \in Handlers : handlers[g].pc = "mark" => handlers'[g] = handlers[g]
    BY <1>1, <1>3
  <2>3. Deletion!Status' = Deletion!Status
    BY <1>1 DEF Deletion!Status
  <2> QED
    BY <1>1, <2>1, <2>2, <2>3 DEF DeletionInv, OneResolves
<1> QED
  BY <1>1, <1>6, <1>7, <1>8, <1>9 DEF DeletionInv, RequestForgotten

LEMMA AnswerKeeps ==
    ASSUME DeletionInv, NEW h \in Handlers, Deletion!Answered(h)
    PROVE  DeletionInv'
<1>1. /\ handlers[h].pc = "answer" /\ handlers' = [handlers EXCEPT ![h] = Deletion!Idle]
      /\ (at = "deletion")' = (at = "deletion")
      /\ UNCHANGED <<draft, row, audit, crashes, gone, requestRaced, requestListed>>
      /\ Deletion!load \/ UNCHANGED requestLoads
  BY DEF Deletion!Answered
<1>2. Truthful(h) /\ handlers[h] \in Deletion!HandlerStates
  BY DEF DeletionInv, HandlersTruthful, Deletion!TypeOK
<1>3. handlers'[h] = Deletion!Idle /\ \A g \in Handlers \ {h} : handlers'[g] = handlers[g]
  BY <1>1 DEF DeletionInv, Deletion!TypeOK
<1>4. Deletion!TypeOK'
  BY <1>1, IdleType, PageLoads DEF DeletionInv, Deletion!TypeOK
<1>5. HandlersTruthful'
  <2>1. Truthful(h)'
    BY <1>3 DEF Truthful, Deletion!Idle
  <2> QED
    BY <1>1, <1>3, <2>1, OthersTruthful DEF DeletionInv
<1>6. Deletion!DeletionsAudited'
  <2>1. CASE handlers[h].deleted
    <3>1. [status |-> "processed", deleted |-> handlers[h].deleted] \in audit
      BY <1>1, <1>2, <2>1 DEF Truthful
    <3>2. [status |-> "processed", deleted |-> handlers[h].deleted] \in audit'
      BY <1>1, <3>1
    <3> QED
      BY <2>1, <3>2 DEF Deletion!DeletionsAudited
  <2>2. CASE ~handlers[h].deleted
    <3>1. \A g \in Handlers : handlers[g].deleted => handlers'[g].deleted
      BY <1>3, <2>2
    <3> QED
      BY <1>1, <3>1 DEF DeletionInv, Deletion!DeletionsAudited
  <2> QED
    BY <2>1, <2>2
<1>7. OneResolves'
  <2>1. \A g \in Handlers : Deletion!PastTest(g)' => Deletion!PastTest(g)
    BY <1>3 DEF Deletion!PastTest, Deletion!Idle
  <2>2. \A g \in Handlers : handlers[g].pc = "mark" => handlers'[g] = handlers[g]
    BY <1>1, <1>3
  <2>3. Deletion!Status' = Deletion!Status
    BY <1>1 DEF Deletion!Status
  <2> QED
    BY <1>1, <2>1, <2>2, <2>3 DEF DeletionInv, OneResolves
<1> QED
  BY <1>1, <1>4, <1>5, <1>6, <1>7 DEF DeletionInv, RequestForgotten

-----------------------------------------------------------------------------
(* The page, and the owner of the draft. *)

LEMMA StartKeeps ==
    ASSUME DeletionInv, NEW h \in Handlers, NEW by \in {"page", "other"},
           NEW status \in Deletion!Resolutions,
           NEW execute \in BOOLEAN, Deletion!processDataDeletionRequest(h, by, status, execute)
    PROVE  DeletionInv'
<1> DEFINE s == [pc |-> "get", by |-> by, status |-> status, execute |-> execute,
                 deleted |-> FALSE]
<1>1. /\ row # None /\ handlers[h] = Deletion!Idle /\ handlers' = [handlers EXCEPT ![h] = s]
      /\ (at = "deletion")' = (at = "deletion")
      /\ UNCHANGED <<draft, row, audit, crashes, gone, requestRaced, requestListed, requestLoads>>
  BY DEF Deletion!processDataDeletionRequest
<1>2. s \in Deletion!HandlerStates /\ s.pc = "get" /\ ~s.deleted
  BY DEF Deletion!HandlerStates
<1> HIDE DEF s
<1>3. /\ handlers' \in [Handlers -> Deletion!HandlerStates] /\ handlers'[h] = s
      /\ \A g \in Handlers \ {h} : handlers'[g] = handlers[g]
  BY <1>1, <1>2 DEF DeletionInv, Deletion!TypeOK
<1>4. Deletion!TypeOK'
  BY <1>1, <1>3 DEF DeletionInv, Deletion!TypeOK
<1>5. HandlersTruthful'
  <2>1. Truthful(h)'
    BY <1>1, <1>2, <1>3 DEF Truthful
  <2> QED
    BY <1>1, <1>3, <2>1, OthersTruthful DEF DeletionInv
<1>6. Deletion!DeletionsAudited'
  <2>1. \A g \in Handlers : handlers[g].deleted => handlers'[g].deleted
    BY <1>1, <1>3 DEF Deletion!Idle
  <2> QED
    BY <1>1, <2>1 DEF DeletionInv, Deletion!DeletionsAudited
<1>7. OneResolves'
  <2>1. \A g \in Handlers : Deletion!PastTest(g)' => Deletion!PastTest(g)
    BY <1>2, <1>3 DEF Deletion!PastTest
  <2>2. \A g \in Handlers : handlers[g].pc = "mark" => handlers'[g] = handlers[g]
    BY <1>1, <1>3 DEF Deletion!Idle
  <2>3. Deletion!Status' = Deletion!Status
    BY <1>1 DEF Deletion!Status
  <2> QED
    BY <1>1, <2>1, <2>2, <2>3 DEF DeletionInv, OneResolves
<1> QED
  BY <1>1, <1>4, <1>5, <1>6, <1>7 DEF DeletionInv, RequestForgotten

\* Nobody works on a request that does not exist.
LEMMA NoRequest ==
    ASSUME DeletionInv, row = None, NEW h \in Handlers
    PROVE  handlers[h].pc = "idle" /\ ~handlers[h].deleted
BY DEF DeletionInv, HandlersTruthful, Truthful

LEMMA OpenedKeeps ==
    ASSUME DeletionInv, Deletion!Mount \/ Deletion!createDataDeletionRequest
    PROVE  DeletionInv'
<1>1. row = None
  BY DEF Deletion!Mount, Deletion!createDataDeletionRequest, DeletionInv, RequestForgotten
<1>2. \A h \in Handlers : handlers[h].pc = "idle" /\ ~handlers[h].deleted
  BY <1>1, NoRequest
<1>3. requestLoads' \in [DeletionLoads -> Deletion!LoadStates]
  BY PageLoads DEF Deletion!Mount, Deletion!createDataDeletionRequest, DeletionInv
<1>4. /\ UNCHANGED <<audit, handlers, crashes, gone, requestRaced, requestListed>>
      /\ at' = "deletion" /\ draft' \in BOOLEAN
      /\ row' \in {None, [status |-> "open", deleted |-> FALSE]}
  BY <1>1 DEF Deletion!Mount, Deletion!createDataDeletionRequest, DeletionInv, Deletion!TypeOK
<1>5. row' \in {None} \cup Deletion!Results /\ (row' # None => row'.status = "open"
      /\ ~row'.deleted)
  <2>1. [status |-> "open", deleted |-> FALSE] \in Deletion!Results
    BY DEF Deletion!Results, Deletion!Statuses
  <2>2. CASE row' = None
    BY <2>2
  <2>3. CASE row' = [status |-> "open", deleted |-> FALSE]
    <3>1. row'.status = "open" /\ row'.deleted = FALSE
      BY <2>3
    <3> QED
      BY <2>1, <2>3, <3>1
  <2> QED
    BY <1>4, <2>2, <2>3
<1>6. Deletion!TypeOK'
  BY <1>3, <1>4, <1>5 DEF DeletionInv, Deletion!TypeOK
<1>7. HandlersTruthful' /\ RequestForgotten' /\ Deletion!DeletionsAudited'
  BY <1>2, <1>4 DEF HandlersTruthful, Truthful, RequestForgotten, Deletion!DeletionsAudited,
         DeletionInv
<1>8. OneResolves'
  <2>1. ~requestRaced /\ crashes = 0 => ~gone
    BY <1>1, <1>2, NoneFacts DEF DeletionInv, OneResolves, Deletion!Status, Deletion!Statuses,
           Deletion!Resolutions
  <2>2. \A h \in Handlers : ~Deletion!PastTest(h)'
    BY <1>2, <1>4 DEF Deletion!PastTest
  <2> QED
    BY <1>4, <1>5, <2>1, <2>2 DEF OneResolves
<1> QED
  BY <1>6, <1>7, <1>8 DEF DeletionInv

LEMMA DeletionInit == Deletion!Init => DeletionInv
<1> SUFFICES ASSUME Deletion!Init PROVE DeletionInv
  OBVIOUS
<1>1. handlers \in [Handlers -> Deletion!HandlerStates]
  BY IdleType DEF Deletion!Init
<1>2. requestLoads \in [DeletionLoads -> Deletion!LoadStates] /\ 0 \in 0..MaxCrashes
  BY DeletionAssumption DEF Deletion!Init, Deletion!LoadStates, Deletion!NotLoading
<1>3. Deletion!TypeOK
  BY <1>1, <1>2 DEF Deletion!Init, Deletion!TypeOK
<1>4. HandlersTruthful
  BY DEF Deletion!Init, HandlersTruthful, Truthful, Deletion!Idle
<1> QED
  BY <1>3, <1>4 DEF Deletion!Init, DeletionInv, RequestForgotten, Deletion!DeletionsAudited,
         OneResolves, Deletion!PastTest, Deletion!Idle

LEMMA LeftKeeps ==
    ASSUME DeletionInv, Deletion!Unmount
    PROVE  DeletionInv'
<1>1. handlers' \in [Handlers -> Deletion!HandlerStates]
  BY IdleType DEF Deletion!Unmount
<1>2. requestLoads' \in [DeletionLoads -> Deletion!LoadStates] /\ 0 \in 0..MaxCrashes
  BY DeletionAssumption DEF Deletion!Unmount, Deletion!LoadStates, Deletion!NotLoading
<1>3. Deletion!TypeOK'
  BY <1>1, <1>2 DEF Deletion!Unmount, Deletion!TypeOK
<1>4. HandlersTruthful'
  BY DEF Deletion!Unmount, HandlersTruthful, Truthful, Deletion!Idle
<1> QED
  BY <1>3, <1>4 DEF Deletion!Unmount, DeletionInv, RequestForgotten, Deletion!DeletionsAudited,
         OneResolves, Deletion!PastTest, Deletion!Idle

\* What only the page's lists see, and the owner's deletion.
LEMMA OthersKeep ==
    ASSUME DeletionInv,
           \/ Deletion!Reload \/ Deletion!deleteDraft
           \/ \E l \in DeletionLoads :
                 Deletion!Read(l) \/ Deletion!Loaded(l) \/ Deletion!LoadFails(l)
    PROVE  DeletionInv'
<1>1. /\ /\ (at = "deletion")' = (at = "deletion")
      /\ UNCHANGED <<row, audit, handlers, crashes, gone, requestRaced>>
      /\ draft' \in {draft, FALSE}
  BY DEF Deletion!Reload, Deletion!Read, Deletion!Loaded, Deletion!LoadFails,
         Deletion!deleteDraft, Deletion!serverVars
<1>2. requestLoads' \in [DeletionLoads -> Deletion!LoadStates]
  BY PageLoads DEF Deletion!Reload, Deletion!deleteDraft, DeletionInv
<1>3. requestListed' \in Deletion!Statuses \cup {None}
  BY DEF Deletion!Reload, Deletion!Read, Deletion!Loaded, Deletion!LoadFails,
         Deletion!deleteDraft, DeletionInv, Deletion!TypeOK, Deletion!LoadStates
<1>4. Deletion!TypeOK'
  BY <1>1, <1>2, <1>3 DEF DeletionInv, Deletion!TypeOK
<1>5. HandlersTruthful'
  BY <1>1 DEF DeletionInv, HandlersTruthful, Truthful
<1>6. OneResolves'
  BY <1>1 DEF DeletionInv, OneResolves, Deletion!PastTest, Deletion!Status
<1> QED
  BY <1>1, <1>4, <1>5, <1>6 DEF DeletionInv, RequestForgotten, Deletion!DeletionsAudited

LEMMA DeletionNext == DeletionInv /\ [Deletion!Next]_(Deletion!vars) => DeletionInv'
<1> SUFFICES ASSUME DeletionInv, [Deletion!Next]_(Deletion!vars) PROVE DeletionInv'
  OBVIOUS
<1>1. CASE Deletion!Mount \/ Deletion!createDataDeletionRequest
  BY <1>1, OpenedKeeps
<1>2. CASE Deletion!Unmount
  BY <1>2, LeftKeeps
<1>3. CASE Deletion!Reload \/ (\E l \in DeletionLoads :
        Deletion!Read(l) \/ Deletion!Loaded(l) \/ Deletion!LoadFails(l)) \/ Deletion!deleteDraft
  BY <1>3, OthersKeep
<1>4. CASE \E h \in Handlers, by \in {"page", "other"}, status \in Deletion!Resolutions,
              execute \in BOOLEAN : Deletion!processDataDeletionRequest(h, by, status, execute)
  BY <1>4, StartKeeps
<1>5. CASE \E h \in Handlers : HandlerSteps(h)
  <2>1. PICK h \in Handlers : HandlerSteps(h)
    BY <1>5
  <2> QED
    BY <2>1, GetKeeps, FindKeeps, DeleteKeeps, MarkKeeps, AuditKeeps, AnswerKeeps, CrashKeeps
       DEF HandlerSteps
<1>6. CASE UNCHANGED Deletion!vars
  <2>1. /\ (at = "deletion")' = (at = "deletion")
        /\ UNCHANGED <<draft, row, audit, handlers, crashes, gone, requestRaced, requestListed,
                       requestLoads>>
    BY <1>6 DEF Deletion!vars, Deletion!serverVars
  <2>2. Deletion!TypeOK'
    BY <2>1 DEF DeletionInv, Deletion!TypeOK
  <2>3. HandlersTruthful'
    BY <2>1 DEF DeletionInv, HandlersTruthful, Truthful
  <2>4. OneResolves'
    BY <2>1 DEF DeletionInv, OneResolves, Deletion!PastTest, Deletion!Status
  <2> QED
    BY <2>1, <2>2, <2>3, <2>4 DEF DeletionInv, RequestForgotten, Deletion!DeletionsAudited
<1> QED
  BY <1>1, <1>2, <1>3, <1>4, <1>5, <1>6 DEF Deletion!Next, HandlerSteps

(* Whatever the admins, the loads and the crashes do, the conditions above   *)
(* hold.                                                                     *)
THEOREM DeletionInvariance == Spec => []DeletionInv
<1>1. Init => DeletionInv
  BY DeletionInit DEF Init
<1>2. DeletionInv /\ [Next]_vars => DeletionInv'
  BY DeletionStep, DeletionNext
<1> QED
  BY <1>1, <1>2, PTL DEF Spec

(* A draft an admin deleted is in the audit trail, or will be, unless a      *)
(* handler died after its deletion: for any number of admins at once.        *)
THEOREM Audited == Spec => []DeletionsAudited
<1>1. DeletionInv => DeletionsAudited
  BY DEF DeletionInv, DeletionsAudited
<1> QED
  BY <1>1, DeletionInvariance, PTL

(* A request that ends as rejected has not had its draft deleted, and one    *)
(* recorded as having deleted it has, unless two handlers found it open or   *)
(* one died after its deletion.                                              *)
THEOREM Rejected == Spec => []RejectedKeepsDraft
<1>1. DeletionInv => RejectedKeepsDraft
  <2> SUFFICES ASSUME DeletionInv, ~requestRaced, crashes = 0
               PROVE  /\ Deletion!Status = "rejected" => ~gone
                      /\ row # None /\ row.deleted => row.status = "processed" /\ ~draft
    BY DEF RejectedKeepsDraft, Deletion!RejectedKeepsDraft
  <2>1. \A h \in Handlers : handlers[h].pc = "mark" => Deletion!Status = "open"
    BY DEF DeletionInv, OneResolves, Deletion!PastTest
  <2> QED
    BY <2>1 DEF DeletionInv, OneResolves
<1> QED
  BY <1>1, DeletionInvariance, PTL
-----------------------------------------------------------------------------
(* The admin page's editors, for any number of loads and saves. *)

LEMMA EditorStep == [Next]_vars => [Editor!Next]_(Editor!vars)
<1> USE DEF Editor!vars, Editor!pageVars, editorVars
<1>1. CASE Open
  <2>1. CASE at' = "editor" /\ \E ids \in SUBSET Entries : Editor!Mount(ids)
    BY <2>1 DEF Editor!Next
  <2>2. CASE at # "editor" /\ at' # "editor" /\ UNCHANGED editorVars
    BY <2>2
  <2> QED
    BY <1>1, <2>1, <2>2 DEF Open, SearchOnly, SavedOnly, AlertsOnly, ConsoleOnly, DeletionOnly
<1>2. CASE OpenCompare
  BY <1>2 DEF OpenCompare, CompareOnly
<1>3. CASE PickedToCompare
  BY <1>3 DEF PickedToCompare
<1>4. CASE Leave /\ at = "editor"
  BY <1>4 DEF Leave, Editor!Next
<1>5. CASE Leave /\ at # "editor"
  BY <1>5 DEF Leave, SearchOnly, CompareOnly, SavedOnly, AlertsOnly, ConsoleOnly, DeletionOnly
<1>6. CASE Stay
  BY <1>6 DEF Stay, SearchOnly, CompareOnly, SavedOnly, AlertsOnly, ConsoleOnly, DeletionOnly
<1>7. CASE UNCHANGED vars
  BY <1>7 DEF vars
<1> QED
  BY <1>1, <1>2, <1>3, <1>4, <1>5, <1>6, <1>7 DEF Next

\* A table that shows every entry's own data.
InPlace(table) == \A e \in Entries : table[e] \in {None, e}

\* Unless the editor was used during a save: no table, here, on the server or on its way,
\* has an entry in another's place, and the only save is of what is selected.
EntriesOwn ==
    ~hasty => /\ form = selectedEntry
              /\ InPlace(entryStore) /\ InPlace(entriesListed)
              /\ \A l \in EditorLoads : InPlace(entryLoads[l].table)
              /\ \A c, d \in saves : c = d
              /\ \A c \in saves :
                    c.op = "update" => c.id = selectedEntry /\ c.data = selectedEntry

EditorInv == Editor!TypeOK /\ EntriesOwn

\* What is known of a save.
LEMMA SaveFacts ==
    ASSUME Editor!TypeOK, NEW c \in saves
    PROVE  /\ c \in Editor!Calls /\ c.op \in {"create", "update", "delete"}
           /\ c.id \in {None} \cup Entries /\ c.data \in {None} \cup Entries
BY DEF Editor!TypeOK, Editor!Calls

\* A load only ever holds a table the server had, or none.
LEMMA LoadAsked ==
    ASSUME Editor!TypeOK, Editor!load
    PROVE  /\ entryLoads' \in [EditorLoads -> Editor!LoadStates] /\ adminError' = FALSE
           /\ \A l \in EditorLoads : \/ entryLoads'[l].table = entryLoads[l].table
                                     \/ entryLoads'[l].table = Editor!NoTable
<1>1. PICK l \in EditorLoads :
        entryLoads' = [entryLoads EXCEPT ![l] = Editor!Asked] /\ adminError' = FALSE
  BY DEF Editor!load
<1>2. Editor!Asked \in Editor!LoadStates /\ Editor!Asked.table = Editor!NoTable
  BY DEF Editor!Asked, Editor!LoadStates, Editor!NoTable, Editor!Tables
<1> QED
  BY <1>1, <1>2 DEF Editor!TypeOK

LEMMA NoTableInPlace == InPlace(Editor!NoTable) /\ Editor!NoTable \in Editor!Tables
BY DEF InPlace, Editor!NoTable, Editor!Tables

LEMMA LoadKeepsPlaces ==
    ASSUME Editor!TypeOK, Editor!load, \A l \in EditorLoads : InPlace(entryLoads[l].table)
    PROVE  \A l \in EditorLoads : InPlace(entryLoads'[l].table)
BY LoadAsked, NoTableInPlace DEF InPlace

\* The page is opened, and its lists are loaded or fail to.
LEMMA EditorLoadsKeep ==
    ASSUME EditorInv,
           \/ \E ids \in SUBSET Entries : Editor!Mount(ids)
           \/ Editor!Reload
           \/ \E l \in EditorLoads : Editor!Read(l) \/ Editor!Loaded(l) \/ Editor!LoadFails(l)
    PROVE  EditorInv'
<1>0. Editor!TypeOK /\ EntriesOwn
  BY DEF EditorInv
<1>1. ASSUME NEW ids \in SUBSET Entries, Editor!Mount(ids) PROVE EditorInv'
  <2>1. Editor!TypeOK'
    BY <1>0, <1>1, LoadAsked DEF Editor!Mount, Editor!TypeOK, Editor!Tables
  <2>2. ~hasty => InPlace(entryStore')
    BY <1>1 DEF Editor!Mount, InPlace
  <2>3. EntriesOwn'
    BY <1>0, <1>1, <2>2, LoadKeepsPlaces DEF EntriesOwn, Editor!Mount, InPlace
  <2> QED
    BY <2>1, <2>3 DEF EditorInv
<1>2. CASE Editor!Reload
  <2>1. Editor!TypeOK'
    BY <1>0, <1>2, LoadAsked DEF Editor!Reload, Editor!TypeOK
  <2>2. EntriesOwn'
    BY <1>0, <1>2, LoadKeepsPlaces DEF EntriesOwn, Editor!Reload, InPlace
  <2> QED
    BY <2>1, <2>2 DEF EditorInv
<1>3. ASSUME NEW l \in EditorLoads, Editor!Read(l) PROVE EditorInv'
  <2> DEFINE s == [stage |-> "read", table |-> entryStore]
  <2>1. s \in Editor!LoadStates /\ s.table = entryStore
    BY <1>0 DEF Editor!LoadStates, Editor!TypeOK
  <2>2. entryLoads' = [entryLoads EXCEPT ![l] = s]
    BY <1>3 DEF Editor!Read
  <2> HIDE DEF s
  <2>3. Editor!TypeOK'
    BY <1>0, <1>3, <2>1, <2>2 DEF Editor!Read, Editor!pageVars, Editor!TypeOK
  <2>4. \A k \in EditorLoads : entryLoads'[k].table \in {entryLoads[k].table, entryStore}
    BY <1>0, <2>1, <2>2 DEF Editor!TypeOK
  <2>5. EntriesOwn'
    BY <1>0, <1>3, <2>4 DEF EntriesOwn, Editor!Read, Editor!pageVars, InPlace
  <2> QED
    BY <2>3, <2>5 DEF EditorInv
<1>4. ASSUME NEW l \in EditorLoads, Editor!Loaded(l) \/ Editor!LoadFails(l) PROVE EditorInv'
  <2>1. /\ entryLoads' = [entryLoads EXCEPT ![l] = Editor!Idle]
        /\ entriesListed' \in {entriesListed, entryLoads[l].table} /\ adminError' \in BOOLEAN
        /\ (at = "editor")' = (at = "editor")
        /\ UNCHANGED <<entryStore, selectedEntry, form, saves, hasty>>
    BY <1>0, <1>4 DEF Editor!Loaded, Editor!LoadFails, Editor!TypeOK
  <2>2. Editor!Idle \in Editor!LoadStates /\ Editor!Idle.table = Editor!NoTable
    BY NoTableInPlace DEF Editor!Idle, Editor!LoadStates
  <2>3. entryLoads[l].table \in Editor!Tables
    BY <1>0 DEF Editor!TypeOK, Editor!LoadStates
  <2>4. Editor!TypeOK'
    BY <1>0, <2>1, <2>2, <2>3 DEF Editor!TypeOK
  <2>5. \A k \in EditorLoads : entryLoads'[k].table \in {entryLoads[k].table, Editor!NoTable}
    BY <1>0, <2>1, <2>2 DEF Editor!TypeOK
  <2>6. EntriesOwn'
    BY <1>0, <2>1, <2>5, NoTableInPlace DEF EntriesOwn, InPlace
  <2> QED
    BY <2>4, <2>6 DEF EditorInv
<1> QED
  BY <1>1, <1>2, <1>3, <1>4

\* What the admin does: a save is of what is selected, for that is what the form holds.
LEMMA EditorUsesKeep ==
    ASSUME EditorInv,
           \/ \E e \in Entries : Editor!selectRow(e)
           \/ Editor!reset \/ Editor!create \/ Editor!update \/ Editor!delete
    PROVE  EditorInv'
<1>0. Editor!TypeOK /\ EntriesOwn
  BY DEF EditorInv
<1>1. hasty' = (hasty \/ saves # {})
  BY DEF Editor!selectRow, Editor!reset, Editor!create, Editor!update, Editor!delete, Editor!Use
<1>2. CASE (\E e \in Entries : Editor!selectRow(e)) \/ Editor!reset
  <2>1. /\ UNCHANGED <<entryStore, entriesListed, adminError, entryLoads, saves>>
        /\ (at = "editor")' = (at = "editor")
        /\ \/ selectedEntry' = None /\ form' = None
           \/ \E e \in Entries : /\ entriesListed[e] # None
                                 /\ selectedEntry' = e /\ form' = entriesListed[e]
    BY <1>2 DEF Editor!selectRow, Editor!reset, Editor!Ids
  <2>2. Editor!TypeOK'
    BY <1>0, <1>1, <2>1 DEF Editor!TypeOK, Editor!Tables
  <2>3. ~hasty' => form' = selectedEntry' /\ saves = {}
    BY <1>0, <1>1, <2>1 DEF EntriesOwn, InPlace
  <2>4. EntriesOwn'
    BY <1>0, <1>1, <2>1, <2>3 DEF EntriesOwn, InPlace
  <2> QED
    BY <2>2, <2>4 DEF EditorInv
<1>3. CASE Editor!create \/ Editor!update \/ Editor!delete
  <2>1. PICK op \in {"create", "update", "delete"}, id \in {None} \cup Entries,
             data \in {None} \cup Entries :
          /\ saves' = saves \cup {[op |-> op, id |-> id, data |-> data, done |-> FALSE]}
          /\ op = "update" => id = selectedEntry /\ data = form
    BY <1>0, <1>3 DEF Editor!create, Editor!update, Editor!delete, Editor!Save, Editor!TypeOK
  <2> DEFINE c == [op |-> op, id |-> id, data |-> data, done |-> FALSE]
  <2>2. c \in Editor!Calls /\ (c.op = "update" => c.id = selectedEntry /\ c.data = form)
    BY <2>1 DEF Editor!Calls
  <2>3. saves' = saves \cup {c}
    BY <2>1
  <2> HIDE DEF c
  <2>4. /\ UNCHANGED <<entryStore, entriesListed, selectedEntry, form, adminError, entryLoads>>
        /\ (at = "editor")' = (at = "editor")
    BY <1>3 DEF Editor!create, Editor!update, Editor!delete, Editor!pageVars
  <2>5. Editor!TypeOK'
    BY <1>0, <1>1, <2>2, <2>3, <2>4 DEF Editor!TypeOK
  <2>6. EntriesOwn'
    BY <1>0, <1>1, <2>2, <2>3, <2>4 DEF EntriesOwn, InPlace
  <2> QED
    BY <2>5, <2>6 DEF EditorInv
<1> QED
  BY <1>2, <1>3

\* The server, which writes under the entry's id the data that was sent.
LEMMA EditorServedKeeps ==
    ASSUME EditorInv, NEW c \in saves, Editor!Served(c)
    PROVE  EditorInv'
<1>0. Editor!TypeOK /\ EntriesOwn
  BY DEF EditorInv
<1>1. PICK e \in Entries :
        /\ c.op # "create" => c.id = e
        /\ entryStore' = [entryStore EXCEPT ![e] = CASE c.op = "create" -> e
                                                    [] c.op = "update" -> c.data
                                                    [] c.op = "delete" -> None]
        /\ saves' = (saves \ {c}) \cup {[c EXCEPT !.id = e, !.done = TRUE]}
  BY DEF Editor!Served, Editor!Fresh, Editor!Ids
<1>2. /\ UNCHANGED <<entriesListed, selectedEntry, form, adminError, entryLoads, hasty>>
      /\ (at = "editor")' = (at = "editor")
  BY DEF Editor!Served, Editor!pageVars
<1> DEFINE d == [c EXCEPT !.id = e, !.done = TRUE]
<1>3. d \in Editor!Calls /\ d.op = c.op /\ d.id = e /\ d.data = c.data
  BY SaveFacts, <1>0 DEF Editor!Calls
<1>4. saves' = (saves \ {c}) \cup {d}
  BY <1>1
<1> HIDE DEF d
<1>5. PICK v : /\ entryStore' = [entryStore EXCEPT ![e] = v]
               /\ v \in {None, e} \/ (c.op = "update" /\ v = c.data)
  BY <1>0, <1>1, SaveFacts
<1>6. Editor!TypeOK'
  BY <1>0, <1>2, <1>3, <1>4, <1>5, SaveFacts DEF Editor!TypeOK, Editor!Tables
<1>7. EntriesOwn'
  <2> SUFFICES ASSUME ~hasty PROVE EntriesOwn'
    BY <1>2 DEF EntriesOwn
  <2>1. v \in {None, e}
    BY <1>0, <1>1, <1>5 DEF EntriesOwn
  <2>2. InPlace(entryStore')
    BY <1>0, <1>5, <2>1 DEF InPlace, EntriesOwn, Editor!TypeOK, Editor!Tables
  <2>3. saves' = {d}
    BY <1>0, <1>4 DEF EntriesOwn
  <2>4. d.op = "update" => d.id = selectedEntry /\ d.data = selectedEntry
    BY <1>0, <1>1, <1>3 DEF EntriesOwn
  <2> QED
    BY <1>0, <1>2, <2>2, <2>3, <2>4 DEF EntriesOwn, InPlace
<1> QED
  BY <1>6, <1>7 DEF EditorInv

\* The answers, which say what the form holds.
LEMMA EditorAnswersKeep ==
    ASSUME EditorInv, NEW c \in saves,
           Editor!Created(c) \/ Editor!Updated(c) \/ Editor!Deleted(c) \/ Editor!SaveFails(c)
    PROVE  EditorInv'
<1>0. Editor!TypeOK /\ EntriesOwn
  BY DEF EditorInv
<1>1. /\ saves' = saves \ {c} /\ (at = "editor")' = (at = "editor")
      /\ UNCHANGED <<entryStore, entriesListed, hasty>>
      /\ Editor!load \/ UNCHANGED <<entryLoads, adminError>>
  BY DEF Editor!Created, Editor!Updated, Editor!Deleted, Editor!SaveFails, Editor!Finished,
         Editor!pageVars
<1>2. /\ entryLoads' \in [EditorLoads -> Editor!LoadStates] /\ adminError' \in BOOLEAN
      /\ (\A l \in EditorLoads : InPlace(entryLoads[l].table))
            => \A l \in EditorLoads : InPlace(entryLoads'[l].table)
  BY <1>0, <1>1, LoadAsked, LoadKeepsPlaces DEF Editor!TypeOK
<1>3. /\ selectedEntry' \in {None} \cup Entries /\ form' \in {None} \cup Entries
      /\ ~hasty => form' = selectedEntry'
  BY <1>0, SaveFacts DEF Editor!Created, Editor!Updated, Editor!Deleted, Editor!SaveFails,
         Editor!pageVars, Editor!TypeOK, EntriesOwn
<1>4. ~hasty => saves' = {}
  BY <1>0, <1>1 DEF EntriesOwn
<1>5. Editor!TypeOK'
  BY <1>0, <1>1, <1>2, <1>3 DEF Editor!TypeOK
<1>6. EntriesOwn'
  BY <1>0, <1>1, <1>2, <1>3, <1>4 DEF EntriesOwn, InPlace
<1> QED
  BY <1>5, <1>6 DEF EditorInv

\* A page that is not open holds nothing.
LEMMA EditorForgets ==
    /\ Editor!Init => EditorInv
    /\ Editor!Unmount => EditorInv'
<1>1. [l \in EditorLoads |-> Editor!Idle] \in [EditorLoads -> Editor!LoadStates]
      /\ Editor!Idle.table = Editor!NoTable
  BY NoTableInPlace DEF Editor!Idle, Editor!LoadStates
<1>2. Editor!Init => EditorInv
  BY <1>1, NoTableInPlace DEF Editor!Init, EditorInv, Editor!TypeOK, EntriesOwn
<1>3. Editor!Unmount => EditorInv'
  BY <1>1, NoTableInPlace DEF Editor!Unmount, EditorInv, Editor!TypeOK, EntriesOwn, InPlace
<1> QED
  BY <1>2, <1>3

LEMMA EditorNext == EditorInv /\ [Editor!Next]_(Editor!vars) => EditorInv'
<1> SUFFICES ASSUME EditorInv, [Editor!Next]_(Editor!vars) PROVE EditorInv'
  OBVIOUS
<1>1. CASE UNCHANGED Editor!vars
  <2>1. /\ UNCHANGED <<entryStore, entriesListed, selectedEntry, form, adminError, entryLoads,
                       saves, hasty>>
        /\ (at = "editor")' = (at = "editor")
    BY <1>1 DEF Editor!vars, Editor!pageVars
  <2> QED
    BY <2>1 DEF EditorInv, Editor!TypeOK, EntriesOwn, InPlace
<1>2. CASE Editor!Next
  BY <1>2, EditorLoadsKeep, EditorUsesKeep, EditorServedKeeps, EditorAnswersKeep, EditorForgets
     DEF Editor!Next
<1> QED
  BY <1>1, <1>2

(* Tables that come late or in the wrong order do no harm: the conditions    *)
(* above hold for any number of loads, saves and entries.                    *)
THEOREM EditorInvariance == Spec => []EditorInv
<1>1. Init => EditorInv
  BY EditorForgets DEF Init
<1>2. EditorInv /\ [Next]_vars => EditorInv'
  BY EditorStep, EditorNext
<1> QED
  BY <1>1, <1>2, PTL DEF Spec

(* No source and no investment is overwritten with the data of another one,  *)
(* and between two saves the form holds the selected one's, unless the       *)
(* editor was used during a save.                                            *)
THEOREM EntriesKept == Spec => []EntriesKeepTheirData
<1>1. EditorInv => EntriesKeepTheirData
  BY DEF EditorInv, EntriesOwn, InPlace, EntriesKeepTheirData, Editor!EntriesKeepTheirData,
         Editor!Ids
<1> QED
  BY <1>1, EditorInvariance, PTL

-----------------------------------------------------------------------------
(* The page of tracked searches, for any number of alerts and requests.      *)

LEMMA AlertsStep == [Next]_vars => [Tracked!Next]_(Tracked!vars)
<1> USE DEF Tracked!vars, Tracked!stateVars, alertsVars
<1>1. CASE Open
  <2>1. CASE at' = "alerts" /\ \E s \in Tracked!Lists : Tracked!Mount(s)
    BY <2>1 DEF Tracked!Next
  <2>2. CASE at # "alerts" /\ at' # "alerts" /\ UNCHANGED alertsVars
    BY <2>2
  <2> QED
    BY <1>1, <2>1, <2>2 DEF Open, SearchOnly, SavedOnly, ConsoleOnly, EditorOnly, DeletionOnly
<1>2. CASE OpenCompare
  BY <1>2 DEF OpenCompare, CompareOnly
<1>3. CASE PickedToCompare
  BY <1>3 DEF PickedToCompare
<1>4. CASE Leave /\ at = "alerts"
  BY <1>4 DEF Leave, Tracked!Next
<1>5. CASE Leave /\ at # "alerts"
  BY <1>5 DEF Leave, SearchOnly, CompareOnly, SavedOnly, ConsoleOnly, EditorOnly, DeletionOnly
<1>6. CASE Stay
  BY <1>6 DEF Stay, SearchOnly, CompareOnly, SavedOnly, ConsoleOnly, EditorOnly, DeletionOnly
<1>7. CASE UNCHANGED vars
  BY <1>7 DEF vars
<1> QED
  BY <1>1, <1>2, <1>3, <1>4, <1>5, <1>6, <1>7 DEF Next

\* The only request about an alert, and an alert the server has changed unknown to the page.
OnlyOne(c) == \A d \in alertCalls : d.id = c.id => d = c
Changed(a) == \E c \in alertCalls : c.id = a /\ c.done /\ c.op # "preview"

\* The page differs from the server only in the alerts some answer on its way is about,
\* and the only such answer says what the server holds.
EditsInStep ==
    /\ twice = {} /\ preview \in {None} \cup Tracked!Ids(alerts)
    /\ \A c \in alertCalls : c.op = "create" <=> alerts[c.id] = None
    /\ \A a \in Alerts : ~Changed(a) => alerts[a] = alertStore[a]
    /\ \A c \in alertCalls :
          c.done /\ c.op # "preview" /\ OnlyOne(c) => alertStore[c.id] = c.to

\* A load that has been alone since the server answered it has what the server holds.
\* While there is any load in flight, nothing else is known.
AlertsInStep ==
    at = "alerts" /\ ~outdated =>
        /\ \A c \in alertCalls : c.op = "load" /\ c.done /\ alertCalls = {c} => c.list = alertStore
        /\ (\A c \in alertCalls : c.op # "load") => EditsInStep

AlertsInv ==
    /\ Tracked!TypeOK /\ Tracked!SavingOwned /\ AlertsInStep
    /\ at # "alerts" => alertCalls = {}

\* What is known of a request.
LEMMA AlertCallFacts ==
    ASSUME Tracked!TypeOK, NEW c \in alertCalls
    PROVE  /\ c \in Tracked!Calls /\ c.done \in BOOLEAN
           /\ c.op \in {"load", "create", "update", "delete", "preview"}
           /\ c.op = "load" => c.id = None /\ (c.done => c.list \in Tracked!Lists)
           /\ c.op # "load" => c.id \in Alerts
           /\ c.op \in {"create", "update"} => c.to \in Settings
           /\ c.op = "delete" => c.to = None
BY DEF Tracked!TypeOK, Tracked!Calls

\* Asking changes nothing but the requests and the controls they disable.
LEMMA AlertSent ==
    ASSUME AlertsInv, at = "alerts", at' = "alerts",
           NEW op \in {"create", "update", "delete", "preview"},
           NEW a \in Alerts, NEW s \in {None} \cup Settings,
           op \in {"create", "update"} => s \in Settings,
           op \in {"delete", "preview"} => s = None,
           op = "create" <=> alerts[a] = None,
           Tracked!Send(Tracked!Request(op, a, s)),
           \/ op \in {"create", "preview"} /\ savingAlertId' = savingAlertId
           \/ op \in {"update", "delete"} /\ savingAlertId' = a,
           UNCHANGED <<alertStore, alerts, twice, preview, alertsLoading, alertsAuth, outdated>>
    PROVE  AlertsInv'
<1>0. Tracked!TypeOK /\ Tracked!SavingOwned /\ AlertsInStep /\ None \notin Alerts
  BY SavedAssumption DEF AlertsInv
<1> DEFINE c == Tracked!Request(op, a, s)
<1>1. /\ c \in Tracked!Calls /\ c.op = op /\ c.id = a /\ c.done = FALSE
      /\ alertCalls' = alertCalls \cup {c} /\ c \notin alertCalls /\ alertsError' = FALSE
  BY DEF Tracked!Send, Tracked!Request, Tracked!Calls
<1> HIDE DEF c
<1>2. Tracked!TypeOK'
  BY <1>0, <1>1 DEF Tracked!TypeOK
<1>3. Tracked!SavingOwned'
  BY <1>0, <1>1 DEF Tracked!SavingOwned
<1>4. ASSUME ~outdated PROVE AlertsInStep'
  <2>1. ASSUME NEW d \in alertCalls', d.op = "load", d.done, alertCalls' = {d} PROVE FALSE
    BY <1>1, <2>1
  <2>2. ASSUME \A d \in alertCalls' : d.op # "load" PROVE EditsInStep'
    <3>1. EditsInStep
      BY <1>0, <1>1, <1>4, <2>2 DEF AlertsInStep
    <3>2. \A x \in Alerts : Changed(x) => Changed(x)'
      BY <1>1 DEF Changed
    <3>3. \A d \in alertCalls : OnlyOne(d)' => OnlyOne(d)
      BY <1>1 DEF OnlyOne
    <3> QED
      BY <1>1, <3>1, <3>2, <3>3 DEF EditsInStep, Tracked!Ids
  <2> QED
    BY <2>1, <2>2 DEF AlertsInStep
<1> QED
  BY <1>2, <1>3, <1>4 DEF AlertsInv, AlertsInStep

\* Loading, at first or again: from then on only that load counts.
LEMMA AlertLoadSent ==
    ASSUME AlertsInv, at' = "alerts", Tracked!load,
           at = "alerts" => alertStore' = alertStore, alertStore' \in Tracked!Lists,
           UNCHANGED <<alerts, twice, preview, savingAlertId>>
    PROVE  AlertsInv'
<1>0. Tracked!TypeOK /\ Tracked!SavingOwned /\ AlertsInStep
  BY DEF AlertsInv
<1> DEFINE c == Tracked!Request("load", None, None)
<1>1. /\ c \in Tracked!Calls /\ c.op = "load" /\ c.done = FALSE
      /\ alertCalls' = alertCalls \cup {c} /\ c \notin alertCalls /\ alertsError' = FALSE
      /\ alertsLoading' = TRUE /\ alertsAuth' = FALSE
      /\ outdated' = (outdated /\ alertCalls # {})
  BY DEF Tracked!load, Tracked!Send, Tracked!Request, Tracked!Calls
<1> HIDE DEF c
<1>2. Tracked!TypeOK'
  BY <1>0, <1>1 DEF Tracked!TypeOK
<1>3. Tracked!SavingOwned'
  BY <1>0, <1>1 DEF Tracked!SavingOwned
<1>4. ASSUME NEW d \in alertCalls', d.op = "load", d.done, alertCalls' = {d} PROVE FALSE
  BY <1>1, <1>4
<1>5. AlertsInStep'
  BY <1>1, <1>4 DEF AlertsInStep
<1> QED
  BY <1>2, <1>3, <1>5 DEF AlertsInv

\* The server does what is asked.
LEMMA AlertServed ==
    ASSUME AlertsInv, NEW c \in alertCalls, Tracked!Served(c)
    PROVE  AlertsInv'
<1>0. Tracked!TypeOK /\ Tracked!SavingOwned /\ AlertsInStep
  BY DEF AlertsInv
<1> DEFINE d == [c EXCEPT !.done = TRUE,
                          !.list = IF c.op = "load" THEN alertStore ELSE Tracked!NoList]
<1>1. /\ d \in Tracked!Calls /\ d.op = c.op /\ d.id = c.id /\ d.to = c.to /\ d.done = TRUE
      /\ c.op = "load" => d.list = alertStore
  BY <1>0, AlertCallFacts DEF Tracked!Calls, Tracked!TypeOK
<1>2. alertCalls' = (alertCalls \ {c}) \cup {d} /\ c.done = FALSE
  BY <1>0, AlertCallFacts DEF Tracked!Served
<1> HIDE DEF d
<1>3. /\ UNCHANGED <<alerts, twice, preview, alertsLoading, alertsError, alertsAuth,
                     savingAlertId, outdated>>
      /\ (at = "alerts")' = (at = "alerts")
      /\ c.op \in {"load", "preview"} => alertStore' = alertStore
      /\ c.op \notin {"load", "preview"} => alertStore' = [alertStore EXCEPT ![c.id] = c.to]
  BY <1>0, AlertCallFacts DEF Tracked!Served, Tracked!stateVars
<1>4. /\ alertStore' \in Tracked!Lists
      /\ \A a \in Alerts : a # c.id => alertStore'[a] = alertStore[a]
      /\ c.op \notin {"load", "preview"} => alertStore'[c.id] = c.to
  BY <1>0, <1>3, AlertCallFacts DEF Tracked!TypeOK, Tracked!Lists
<1>5. Tracked!TypeOK'
  BY <1>0, <1>1, <1>2, <1>3, <1>4 DEF Tracked!TypeOK
<1>6. Tracked!SavingOwned'
  BY <1>0, <1>1, <1>2, <1>3 DEF Tracked!SavingOwned
<1>7. ASSUME at = "alerts", ~outdated PROVE AlertsInStep'
  <2>1. ASSUME NEW x \in alertCalls', x.op = "load", x.done, alertCalls' = {x}
        PROVE  x.list = alertStore'
    BY <1>1, <1>2, <1>3, <2>1
  <2>2. ASSUME \A x \in alertCalls' : x.op # "load" PROVE EditsInStep'
    <3>1. c.op # "load" /\ EditsInStep
      BY <1>0, <1>1, <1>2, <1>7, <2>2 DEF AlertsInStep
    <3>2. ASSUME NEW a \in Alerts, ~Changed(a)' PROVE alerts[a] = alertStore'[a]
      <4>1. ~Changed(a) /\ (a = c.id => c.op = "preview")
        BY <1>1, <1>2, <3>2 DEF Changed
      <4> QED
        BY <1>3, <1>4, <3>1, <4>1 DEF EditsInStep
    <3>3. ASSUME NEW x \in alertCalls', x.done, x.op # "preview", OnlyOne(x)'
          PROVE  alertStore'[x.id] = x.to
      <4>1. CASE x.id = c.id
        BY <1>1, <1>2, <1>4, <3>1, <3>3, <4>1 DEF OnlyOne
      <4>2. CASE x.id # c.id
        <5>1. x \in alertCalls /\ OnlyOne(x) /\ x.id \in Alerts
          BY <1>0, <1>1, <1>2, <2>2, <3>3, <4>2, AlertCallFacts DEF OnlyOne
        <5> QED
          BY <1>4, <3>1, <3>3, <4>2, <5>1 DEF EditsInStep
      <4> QED
        BY <4>1, <4>2
    <3> QED
      BY <1>1, <1>2, <1>3, <3>1, <3>2, <3>3 DEF EditsInStep, Tracked!Ids
  <2> QED
    BY <1>3, <1>7, <2>1, <2>2 DEF AlertsInStep
<1>8. at # "alerts" => alertCalls' = {}
  BY DEF AlertsInv
<1> QED
  BY <1>3, <1>5, <1>6, <1>7, <1>8 DEF AlertsInv, AlertsInStep

\* The answer to a load, which is in step only if it was alone.
LEMMA AlertsLoaded ==
    ASSUME AlertsInv, NEW c \in alertCalls, Tracked!Loaded(c)
    PROVE  AlertsInv'
<1>0. Tracked!TypeOK /\ Tracked!SavingOwned /\ AlertsInStep /\ at = "alerts" /\ None \notin Alerts
  BY SavedAssumption DEF AlertsInv
<1>1. /\ c.op = "load" /\ c.done /\ c.id = None /\ c.list \in Tracked!Lists
      /\ alerts' = c.list /\ twice' = {} /\ alertCalls' = alertCalls \ {c}
      /\ alertsLoading' = FALSE /\ alertsAuth' \in {alertsAuth, TRUE}
      /\ UNCHANGED <<alertStore, preview, alertsError, savingAlertId>>
      /\ (at = "alerts")' = (at = "alerts") /\ outdated' \in BOOLEAN
  BY <1>0, AlertCallFacts DEF Tracked!Loaded, Tracked!TypeOK
<1>2. ASSUME ~outdated'
      PROVE  /\ alertCalls' = {} /\ alerts' = alertStore'
             /\ preview' \in {None} \cup Tracked!Ids(alerts)'
  <2>1. /\ ~outdated /\ ~Tracked!Conflicts(c)
        /\ preview \in {None} \cup Tracked!Ids(c.list)
    BY <1>2 DEF Tracked!Loaded
  <2>2. alertCalls = {c}
    BY <1>1, <2>1 DEF Tracked!Conflicts, Tracked!Conflict
  <2> QED
    BY <1>0, <1>1, <2>1, <2>2 DEF AlertsInStep, Tracked!Ids
<1>3. Tracked!TypeOK'
  BY <1>0, <1>1 DEF Tracked!TypeOK
<1>4. Tracked!SavingOwned'
  BY <1>0, <1>1 DEF Tracked!SavingOwned
<1>5. ASSUME ~outdated' PROVE AlertsInStep'
  BY <1>1, <1>2, <1>5 DEF AlertsInStep, EditsInStep
<1> QED
  BY <1>0, <1>1, <1>3, <1>4, <1>5 DEF AlertsInv, AlertsInStep

\* Before any other answer that is not taken out of step.
LEMMA AlertAlone ==
    ASSUME AlertsInv, at = "alerts", ~outdated, NEW c \in alertCalls, c.op # "load",
           ~Tracked!Conflicts(c), alertCalls' = alertCalls \ {c}
    PROVE  /\ EditsInStep /\ OnlyOne(c)
           /\ \A d \in alertCalls' : /\ d \in alertCalls /\ d.op # "load" /\ d.id # c.id
                                     /\ OnlyOne(d)' => OnlyOne(d)
           /\ \A a \in Alerts : Changed(a) => Changed(a)' \/ a = c.id
           /\ ~c.done \/ c.op = "preview" => \A a \in Alerts : Changed(a) => Changed(a)'
<1>1. \A d \in alertCalls : d # c => d.op # "load" /\ d.id # c.id
  BY DEF Tracked!Conflicts, Tracked!Conflict
<1>2. EditsInStep
  BY <1>1 DEF AlertsInv, AlertsInStep
<1> QED
  BY <1>1, <1>2 DEF OnlyOne, Changed

\* Any other answer, which edits the alert it is about if the page holds it.
LEMMA AlertAnswered ==
    ASSUME AlertsInv, NEW c \in alertCalls,
           \/ Tracked!Created(c) \/ Tracked!Previewed(c) \/ Tracked!Updated(c)
           \/ Tracked!Deleted(c)
    PROVE  AlertsInv'
<1>0. Tracked!TypeOK /\ Tracked!SavingOwned /\ AlertsInStep /\ at = "alerts" /\ None \notin Alerts
      /\ None \notin Settings
  BY SavedAssumption DEF AlertsInv
<1>1. /\ c.done /\ c.op # "load" /\ c.id \in Alerts /\ alertCalls' = alertCalls \ {c}
      /\ c.op \in {"create", "update", "delete", "preview"}
      /\ c.op \in {"create", "update"} => c.to \in Settings
      /\ c.op = "delete" => c.to = None
      /\ UNCHANGED <<alertStore, alertsLoading, alertsError, alertsAuth>>
      /\ (at = "alerts")' = (at = "alerts")
      /\ outdated' = (outdated \/ Tracked!Conflicts(c))
      /\ savingAlertId' \in {None, savingAlertId}
      /\ c.op \in {"update", "delete"} => savingAlertId' = None
  BY <1>0, AlertCallFacts DEF Tracked!Created, Tracked!Previewed, Tracked!Updated, Tracked!Deleted,
     Tracked!stateVars
<1>2. /\ c.op = "preview" => alerts' = alerts /\ preview' = c.id
      /\ c.op = "create" => alerts' = [alerts EXCEPT ![c.id] = c.to] /\ preview' = preview
      /\ c.op = "delete" => alerts' = [alerts EXCEPT ![c.id] = None]
                            /\ preview' = IF preview = c.id THEN None ELSE preview
      /\ c.op = "update" => /\ preview' = preview
                            /\ alerts' = IF alerts[c.id] # None
                                         THEN [alerts EXCEPT ![c.id] = c.to] ELSE alerts
      /\ twice' \subseteq Alerts
      /\ alerts[c.id] = None \/ c.op # "create" => twice' \subseteq twice
  BY <1>0, <1>1 DEF Tracked!Created, Tracked!Previewed, Tracked!Updated, Tracked!Deleted,
     Tracked!Ids, Tracked!TypeOK, Tracked!stateVars
<1>3. Tracked!TypeOK'
  <2>1. alerts' \in Tracked!Lists
    BY <1>0, <1>1, <1>2 DEF Tracked!TypeOK, Tracked!Lists
  <2>2. preview' \in {None} \cup Alerts /\ savingAlertId' \in {None} \cup Alerts
    BY <1>0, <1>1, <1>2 DEF Tracked!TypeOK
  <2>3. outdated' \in BOOLEAN
    BY <1>1 DEF Tracked!Conflicts
  <2> QED
    BY <1>0, <1>1, <1>2, <2>1, <2>2, <2>3 DEF Tracked!TypeOK
<1>4. Tracked!SavingOwned'
  BY <1>0, <1>1 DEF Tracked!SavingOwned
<1>5. ASSUME ~outdated' PROVE EditsInStep'
  <2>1. /\ EditsInStep /\ OnlyOne(c)
        /\ \A d \in alertCalls' : /\ d \in alertCalls /\ d.op # "load" /\ d.id # c.id
                                  /\ OnlyOne(d)' => OnlyOne(d)
        /\ \A a \in Alerts : Changed(a) => Changed(a)' \/ a = c.id
        /\ c.op = "preview" => \A a \in Alerts : Changed(a) => Changed(a)'
    BY <1>0, <1>1, <1>5, AlertAlone
  <2>2. /\ c.op = "create" <=> alerts[c.id] = None
        /\ c.op # "preview" => c.to = alertStore[c.id]
    BY <1>1, <2>1 DEF EditsInStep
  <2>3. \A a \in Alerts : a # c.id => alerts'[a] = alerts[a]
    BY <1>0, <1>1, <1>2 DEF Tracked!TypeOK, Tracked!Lists
  <2>4. c.op # "preview" => alerts'[c.id] = alertStore[c.id]
    BY <1>0, <1>1, <1>2, <2>2 DEF Tracked!TypeOK, Tracked!Lists
  <2>5. twice' = {} /\ preview' \in {None} \cup Tracked!Ids(alerts)'
    BY <1>0, <1>1, <1>2, <2>1, <2>2, <2>3, <2>4 DEF EditsInStep, Tracked!Ids
  <2>6. \A d \in alertCalls' : d.op = "create" <=> alerts'[d.id] = None
    BY <1>0, <2>1, <2>3, AlertCallFacts DEF EditsInStep
  <2>7. ASSUME NEW a \in Alerts, ~Changed(a)' PROVE alerts'[a] = alertStore'[a]
    <3>1. CASE a = c.id /\ c.op # "preview"
      BY <1>1, <2>4, <3>1
    <3>2. CASE ~(a = c.id /\ c.op # "preview")
      BY <1>1, <1>2, <2>1, <2>3, <2>7, <3>2 DEF EditsInStep
    <3> QED
      BY <3>1, <3>2
  <2>8. ASSUME NEW d \in alertCalls', d.done, d.op # "preview", OnlyOne(d)'
        PROVE  alertStore'[d.id] = d.to
    BY <1>1, <2>1, <2>8 DEF EditsInStep
  <2> QED
    BY <2>5, <2>6, <2>7, <2>8 DEF EditsInStep
<1>6. ~outdated' => \A d \in alertCalls' : d.op # "load"
  BY <1>0, <1>1, AlertAlone
<1> QED
  BY <1>0, <1>1, <1>3, <1>4, <1>5, <1>6 DEF AlertsInv, AlertsInStep

\* A failure, after which the page holds what it held.
LEMMA AlertFails ==
    ASSUME AlertsInv, NEW c \in alertCalls, Tracked!CallFails(c)
    PROVE  AlertsInv'
<1>0. Tracked!TypeOK /\ Tracked!SavingOwned /\ AlertsInStep /\ at = "alerts" /\ None \notin Alerts
  BY SavedAssumption DEF AlertsInv
<1>1. /\ alertCalls' = alertCalls \ {c}
      /\ UNCHANGED <<alertStore, alerts, twice, preview>>
      /\ (at = "alerts")' = (at = "alerts")
      /\ alertsLoading' \in BOOLEAN /\ alertsError' \in BOOLEAN /\ alertsAuth' \in BOOLEAN
      /\ outdated' = (outdated \/ c.done \/ c.op = "load" \/ Tracked!Conflicts(c))
      /\ savingAlertId' = IF c.op \in {"update", "delete"} THEN None ELSE savingAlertId
  BY <1>0 DEF Tracked!CallFails, Tracked!TypeOK
<1>2. Tracked!TypeOK'
  BY <1>0, <1>1, AlertCallFacts DEF Tracked!TypeOK, Tracked!Conflicts
<1>3. Tracked!SavingOwned'
  BY <1>0, <1>1, AlertCallFacts DEF Tracked!SavingOwned
<1>4. ASSUME ~outdated' PROVE EditsInStep' /\ \A d \in alertCalls' : d.op # "load"
  <2>1. /\ EditsInStep
        /\ \A d \in alertCalls' : /\ d \in alertCalls /\ d.op # "load"
                                  /\ OnlyOne(d)' => OnlyOne(d)
        /\ \A a \in Alerts : Changed(a) => Changed(a)'
    BY <1>0, <1>1, <1>4, AlertAlone, AlertCallFacts
  <2> QED
    BY <1>1, <2>1 DEF EditsInStep, Tracked!Ids
<1> QED
  BY <1>0, <1>1, <1>2, <1>3, <1>4 DEF AlertsInv, AlertsInStep

\* A page that is not open holds nothing.
LEMMA AlertsForget ==
    /\ Tracked!Init => AlertsInv
    /\ Tracked!Unmount => AlertsInv'
BY DEF Tracked!Init, Tracked!Unmount, Tracked!NoAlerts, Tracked!Lists, AlertsInv, AlertsInStep,
       Tracked!TypeOK, Tracked!SavingOwned

LEMMA AlertsNext == AlertsInv /\ [Tracked!Next]_(Tracked!vars) => AlertsInv'
<1> SUFFICES ASSUME AlertsInv, [Tracked!Next]_(Tracked!vars) PROVE AlertsInv'
  OBVIOUS
<1>0. Tracked!TypeOK /\ AlertsInStep
  BY DEF AlertsInv
<1>1. CASE UNCHANGED Tracked!vars
  <2>1. /\ UNCHANGED <<alertStore, alerts, twice, preview, alertsLoading, alertsError, alertsAuth,
                       savingAlertId, alertCalls, outdated>>
        /\ (at = "alerts")' = (at = "alerts")
    BY <1>1 DEF Tracked!vars, Tracked!stateVars
  <2> QED
    BY <2>1 DEF AlertsInv, AlertsInStep, EditsInStep, OnlyOne, Changed, Tracked!Ids,
                Tracked!TypeOK, Tracked!SavingOwned
<1>2. ASSUME NEW s \in Tracked!Lists, Tracked!Mount(s) PROVE AlertsInv'
  BY <1>2, AlertLoadSent DEF Tracked!Mount
<1>3. CASE Tracked!Reload
  BY <1>0, <1>3, AlertLoadSent DEF Tracked!Reload, Tracked!TypeOK
<1>4. CASE Tracked!Unmount
  BY <1>4, AlertsForget
<1>5. ASSUME NEW a \in Alerts, NEW s \in Settings, Tracked!createAlert(a, s) PROVE AlertsInv'
  BY <1>0, <1>5, AlertSent DEF Tracked!createAlert, Tracked!Visible, Tracked!Ids
<1>6. ASSUME NEW a \in Alerts, NEW s \in Settings, Tracked!updateAlertPreferences(a, s)
      PROVE  AlertsInv'
  BY <1>0, <1>6, AlertSent
     DEF Tracked!updateAlertPreferences, Tracked!Listed, Tracked!Visible, Tracked!Ids
<1>7. ASSUME NEW a \in Alerts, Tracked!loadPreview(a) \/ Tracked!deleteAlert(a) PROVE AlertsInv'
  BY <1>0, <1>7, AlertSent
     DEF Tracked!loadPreview, Tracked!deleteAlert, Tracked!Listed, Tracked!Visible, Tracked!Ids
<1>8. ASSUME NEW c \in alertCalls,
             \/ Tracked!Served(c) \/ Tracked!CallFails(c) \/ Tracked!Loaded(c) \/ Tracked!Created(c)
             \/ Tracked!Previewed(c) \/ Tracked!Updated(c) \/ Tracked!Deleted(c)
      PROVE  AlertsInv'
  BY <1>8, AlertServed, AlertFails, AlertsLoaded, AlertAnswered
<1> QED
  BY <1>1, <1>2, <1>3, <1>4, <1>5, <1>6, <1>7, <1>8 DEF Tracked!Next

(* However many requests are in flight, what the page holds differs from     *)
(* what the server holds only where an answer is on its way, as above.       *)
THEOREM AlertsInvariance == Spec => []AlertsInv
<1>1. Init => AlertsInv
  BY AlertsForget DEF Init
<1>2. AlertsInv /\ [Next]_vars => AlertsInv'
  BY AlertsStep, AlertsNext
<1> QED
  BY <1>1, <1>2, PTL DEF Spec

-----------------------------------------------------------------------------
(* The page of saved apartments, for any number of apartments and requests.  *)

LEMMA SavedStep == [Next]_vars => [Saved!Next]_(Saved!vars)
<1> USE DEF Saved!vars, Saved!stateVars, Saved!heldVars, savedVars
<1>1. CASE Open
  <2>1. CASE at' = "saved" /\ \E s \in Saved!Stores : Saved!Mount(s)
    BY <2>1 DEF Saved!Next
  <2>2. CASE at # "saved" /\ at' # "saved" /\ UNCHANGED savedVars
    BY <2>2
  <2> QED
    BY <1>1, <2>1, <2>2 DEF Open, SearchOnly, AlertsOnly, ConsoleOnly, EditorOnly, DeletionOnly
<1>2. CASE OpenCompare
  BY <1>2 DEF OpenCompare, CompareOnly
<1>3. CASE PickedToCompare
  BY <1>3 DEF PickedToCompare
<1>4. CASE Leave /\ at = "saved"
  BY <1>4 DEF Leave, Saved!Next
<1>5. CASE Leave /\ at # "saved"
  BY <1>5 DEF Leave, SearchOnly, CompareOnly, AlertsOnly, ConsoleOnly, EditorOnly, DeletionOnly
<1>6. CASE Stay
  BY <1>6 DEF Stay, SearchOnly, CompareOnly, AlertsOnly, ConsoleOnly, EditorOnly, DeletionOnly
<1>7. CASE UNCHANGED vars
  BY <1>7 DEF vars
<1> QED
  BY <1>1, <1>2, <1>3, <1>4, <1>5, <1>6, <1>7 DEF Next

\* What will be shown when the load is over: what it has read, or, without a load, what is
\* shown; None before the load has read it.
SeenDrafts    == IF loading = None THEN drafts
                 ELSE IF loading.stage = "previews" THEN drafts ELSE loading.read["drafts"]
SeenFavorites == IF loading = None THEN favorites
                 ELSE IF loading.stage = "previews" THEN favorites
                 ELSE loading.read["favorites"]
SeenAlerts    == IF loading = None THEN watched ELSE loading.read["alerts"]

\* The requests that explain a card of a deleted draft, a card of a deleted favourite, and
\* an alert that is not shown.
DraftGoing(a)    == \E c \in savedCalls : /\ c.id = a /\ c.op = "checked"
                                          /\ c.at = "favorites" \/ c.done
FavoriteGoing(a) == \E c \in savedCalls : c.id = a /\ c.at = "favorites" /\ c.done
AlertComing(a)   == \E c \in savedCalls : c.id = a /\ c.op = "track" /\ c.done

DraftsInStep    == SeenDrafts # None =>
                      \A a \in SeenDrafts : a \in savedStore["drafts"] \/ DraftGoing(a)
FavoritesInStep == SeenFavorites # None =>
                      \A a \in SeenFavorites : a \in savedStore["favorites"] \/ FavoriteGoing(a)
AlertsReadInStep == SeenAlerts # None /\ (loading = None => ~partial) =>
                      \A a \in savedStore["alerts"] \ SeenAlerts : AlertComing(a)

SavedInStep == ~savedAuth /\ ~savedError /\ ~overtaken =>
                  DraftsInStep /\ FavoritesInStep /\ AlertsReadInStep

\* What the code of the page takes for granted of a load and of a removal.
LoadSound ==
    /\ savedLoading <=> loading # None
    /\ loading # None => (loading.stage = "previews" => loading.read["alerts"] # None)
    /\ \A c \in savedCalls : c.at = "favorites" => c.favorite

SavedInv == Saved!TypeOK /\ LoadSound /\ SavedInStep

\* What is known of a load, and of a request.
LEMMA SavedFacts ==
    ASSUME Saved!TypeOK
    PROVE  /\ None \notin SUBSET Apartments
           /\ \A list \in {"drafts", "favorites", "alerts"} : savedStore[list] \subseteq Apartments
           /\ loading # None =>
                 /\ loading \in Saved!Loads /\ loading.stage \in {"lists", "previews"}
                 /\ loading = [stage |-> loading.stage, read |-> loading.read]
                 /\ loading.read \in [Saved!Lists -> {None} \cup SUBSET Apartments]
                 /\ \A list \in {"drafts", "favorites", "alerts"} :
                       loading.read[list] \in {None} \cup SUBSET Apartments
           /\ \A c \in savedCalls :
                 /\ c \in Saved!Calls /\ c.id \in Apartments
                 /\ c.op \in {"checked", "favorite", "track"}
                 /\ c.at \in {"drafts", "favorites", "alerts"}
                 /\ c.favorite \in BOOLEAN /\ c.done \in BOOLEAN
                 /\ c.op = "track" <=> c.at = "alerts"
                 /\ c.op = "track" => ~c.favorite
                 /\ c.at = "drafts" => c.op = "checked"
<1>1. None \notin SUBSET Apartments
  BY SavedAssumption
<1>2. \A list \in {"drafts", "favorites", "alerts"} : savedStore[list] \subseteq Apartments
  BY DEF Saved!TypeOK, Saved!Stores, Saved!Lists
<1>3. loading # None => loading \in Saved!Loads
  BY DEF Saved!TypeOK
<1>4. loading # None =>
         /\ loading.stage \in {"lists", "previews"}
         /\ loading = [stage |-> loading.stage, read |-> loading.read]
         /\ loading.read \in [Saved!Lists -> {None} \cup SUBSET Apartments]
  BY <1>3 DEF Saved!Loads
<1>5. loading # None => \A list \in {"drafts", "favorites", "alerts"} :
                           loading.read[list] \in {None} \cup SUBSET Apartments
  BY <1>4 DEF Saved!Lists
<1>6. \A c \in savedCalls : c \in Saved!Calls
  BY DEF Saved!TypeOK
<1>7. \A c \in Saved!Calls :
         /\ c.id \in Apartments /\ c.op \in {"checked", "favorite", "track"}
         /\ c.at \in {"drafts", "favorites", "alerts"}
         /\ c.favorite \in BOOLEAN /\ c.done \in BOOLEAN
         /\ c.op = "track" <=> c.at = "alerts"
         /\ c.op = "track" => ~c.favorite
         /\ c.at = "drafts" => c.op = "checked"
  BY DEF Saved!Calls
<1> QED
  BY <1>1, <1>2, <1>3, <1>4, <1>5, <1>6, <1>7

\* Loading: whatever is shown is forgotten.
LEMMA SavedLoadSent ==
    ASSUME SavedInv, Saved!load, savedStore' \in Saved!Stores,
           UNCHANGED <<drafts, favorites, watched, savedCalls, partial>>
    PROVE  SavedInv'
<1>0. Saved!TypeOK /\ LoadSound
  BY DEF SavedInv
<1>1. /\ loading' = [stage |-> "lists", read |-> Saved!Unread]
      /\ savedLoading' = TRUE /\ savedError' = FALSE /\ savedAuth' = FALSE /\ overtaken' = FALSE
  BY DEF Saved!load
<1>2. Saved!Unread \in [Saved!Lists -> {None} \cup SUBSET Apartments]
      /\ \A list \in {"drafts", "favorites", "alerts"} : Saved!Unread[list] = None
  BY DEF Saved!Unread, Saved!Lists
<1>3. loading' \in Saved!Loads /\ loading'.stage = "lists" /\ loading'.read = Saved!Unread
  BY <1>1, <1>2 DEF Saved!Loads
<1>4. loading' # None
  BY <1>1, <1>2, SavedAssumption DEF Saved!Lists
<1>5. Saved!TypeOK'
  BY <1>0, <1>1, <1>3 DEF Saved!TypeOK
<1> QED
  BY <1>0, <1>1, <1>2, <1>3, <1>4, <1>5
     DEF SavedInv, LoadSound, SavedInStep, DraftsInStep, FavoritesInStep, AlertsReadInStep,
         SeenDrafts, SeenFavorites, SeenAlerts

\* The server answers the three requests of a load, in any order.
LEMMA SavedRead ==
    ASSUME SavedInv, NEW list \in Saved!Lists, Saved!Read(list)
    PROVE  SavedInv'
<1>0. Saved!TypeOK /\ LoadSound /\ SavedInStep
  BY DEF SavedInv
<1> DEFINE l == [loading EXCEPT !.read[list] = savedStore[list]]
<1>1. /\ loading # None /\ loading.stage = "lists" /\ loading \in Saved!Loads
      /\ loading.read \in [Saved!Lists -> {None} \cup SUBSET Apartments]
      /\ savedStore[list] \subseteq Apartments /\ savedStore[list] # None
  BY <1>0, SavedFacts DEF Saved!Read, Saved!Lists
<1>2. /\ l \in Saved!Loads /\ l.stage = "lists" /\ l = [stage |-> l.stage, read |-> l.read]
      /\ l.read = [loading.read EXCEPT ![list] = savedStore[list]]
  BY <1>1 DEF Saved!Loads
<1>3. /\ loading' = l
      /\ UNCHANGED <<savedStore, drafts, favorites, watched, savedLoading, savedError, savedAuth,
                     savedCalls, overtaken, partial>>
      /\ (at = "saved")' = (at = "saved")
  BY DEF Saved!Read, Saved!heldVars, Saved!stateVars
<1> HIDE DEF l
<1>4. l # None
  BY <1>1, <1>2, SavedAssumption DEF Saved!Lists
<1>5. Saved!TypeOK'
  BY <1>0, <1>2, <1>3 DEF Saved!TypeOK
<1>6. \A k \in Saved!Lists : l.read[k] = IF k = list THEN savedStore[k] ELSE loading.read[k]
  BY <1>1, <1>2
<1>7. /\ SeenDrafts' \in {SeenDrafts, savedStore["drafts"]}
      /\ SeenFavorites' \in {SeenFavorites, savedStore["favorites"]}
      /\ SeenAlerts' \in {SeenAlerts, savedStore["alerts"]}
  BY <1>1, <1>2, <1>3, <1>4, <1>6 DEF SeenDrafts, SeenFavorites, SeenAlerts, Saved!Lists
<1>8. SavedInStep'
  BY <1>0, <1>1, <1>3, <1>4, <1>7
     DEF SavedInStep, DraftsInStep, FavoritesInStep, AlertsReadInStep, DraftGoing, FavoriteGoing,
         AlertComing
<1> QED
  BY <1>0, <1>1, <1>2, <1>3, <1>4, <1>5, <1>8 DEF SavedInv, LoadSound

\* The load is over, or shows what it has so far.
LEMMA SavedLoaded ==
    ASSUME SavedInv,
           \/ Saved!ListsLoaded \/ Saved!PreviewsLoaded \/ Saved!AlertsUnavailable
           \/ Saved!LoadFails
    PROVE  SavedInv'
<1>0. Saved!TypeOK /\ LoadSound /\ SavedInStep
  BY DEF SavedInv
<1>1. /\ UNCHANGED <<savedStore, savedCalls, overtaken>>
      /\ (at = "saved")' = (at = "saved")
  BY DEF Saved!ListsLoaded, Saved!PreviewsLoaded, Saved!AlertsUnavailable, Saved!LoadFails,
         Saved!heldVars, Saved!stateVars
<1>2. CASE Saved!ListsLoaded
  <2> DEFINE l == [stage |-> "previews",
                   read |-> [Saved!Unread EXCEPT !["alerts"] = loading.read["alerts"]]]
  <2>1. /\ loading # None /\ loading.stage = "lists"
        /\ \A list \in {"drafts", "favorites", "alerts"} :
              loading.read[list] \in SUBSET Apartments /\ loading.read[list] # None
    BY <1>0, <1>2, SavedFacts DEF Saved!ListsLoaded, Saved!AllRead, Saved!Lists
  <2>2. /\ l.read \in [Saved!Lists -> {None} \cup SUBSET Apartments]
        /\ l \in Saved!Loads /\ l.stage = "previews"
        /\ l.read["alerts"] = loading.read["alerts"]
    BY <2>1 DEF Saved!Loads, Saved!Lists, Saved!Unread
  <2>3. l # None
    BY <2>2, SavedAssumption DEF Saved!Lists
  <2>4. /\ loading' = l /\ drafts' = loading.read["drafts"]
        /\ favorites' = loading.read["favorites"]
        /\ UNCHANGED <<watched, savedLoading, savedError, savedAuth, partial>>
    BY <1>2 DEF Saved!ListsLoaded, Saved!ShowLists, Saved!stateVars
  <2> HIDE DEF l
  <2>5. Saved!TypeOK'
    BY <1>0, <1>1, <2>1, <2>2, <2>4 DEF Saved!TypeOK
  <2>6. LoadSound'
    BY <1>0, <1>1, <2>1, <2>2, <2>3, <2>4 DEF LoadSound
  <2>7. /\ SeenDrafts' = SeenDrafts /\ SeenFavorites' = SeenFavorites
        /\ SeenAlerts' = SeenAlerts
    BY <2>1, <2>2, <2>3, <2>4 DEF SeenDrafts, SeenFavorites, SeenAlerts
  <2>8. SavedInStep'
    BY <1>0, <1>1, <2>1, <2>3, <2>4, <2>7
       DEF SavedInStep, DraftsInStep, FavoritesInStep, AlertsReadInStep, DraftGoing,
           FavoriteGoing, AlertComing
  <2> QED
    BY <2>5, <2>6, <2>8 DEF SavedInv
<1>3. CASE Saved!PreviewsLoaded
  <2>1. /\ loading # None /\ loading.stage = "previews"
        /\ loading.read["alerts"] \subseteq Apartments /\ loading.read["alerts"] # None
    BY <1>0, <1>3, SavedFacts DEF Saved!PreviewsLoaded, LoadSound
  <2>2. /\ watched' = loading.read["alerts"] /\ loading' = None /\ savedLoading' = FALSE
        /\ partial' = FALSE
        /\ UNCHANGED <<drafts, favorites, savedError, savedAuth>>
    BY <1>3 DEF Saved!PreviewsLoaded
  <2>3. Saved!TypeOK' /\ LoadSound'
    BY <1>0, <1>1, <2>1, <2>2 DEF Saved!TypeOK, LoadSound
  <2>4. /\ SeenDrafts' = SeenDrafts /\ SeenFavorites' = SeenFavorites
        /\ SeenAlerts' = SeenAlerts
    BY <2>1, <2>2 DEF SeenDrafts, SeenFavorites, SeenAlerts
  <2>5. SavedInStep'
    BY <1>0, <1>1, <2>1, <2>2, <2>4
       DEF SavedInStep, DraftsInStep, FavoritesInStep, AlertsReadInStep, DraftGoing,
           FavoriteGoing, AlertComing
  <2> QED
    BY <2>3, <2>5 DEF SavedInv
<1>4. CASE Saved!AlertsUnavailable
  <2>1. /\ loading # None /\ loading.stage = "lists"
        /\ \A list \in {"drafts", "favorites", "alerts"} :
              loading.read[list] \in SUBSET Apartments /\ loading.read[list] # None
    BY <1>0, <1>4, SavedFacts DEF Saved!AlertsUnavailable, Saved!AllRead, Saved!Lists
  <2>2. /\ drafts' = loading.read["drafts"] /\ favorites' = loading.read["favorites"]
        /\ watched' \in {{}, watched} /\ savedAuth' \in {TRUE, savedAuth}
        /\ loading' = None /\ savedLoading' = FALSE /\ partial' = TRUE
        /\ savedError' = savedError
    BY <1>4 DEF Saved!AlertsUnavailable, Saved!ShowLists
  <2>3. Saved!TypeOK' /\ LoadSound'
    BY <1>0, <1>1, <2>1, <2>2 DEF Saved!TypeOK, LoadSound
  <2>4. SeenDrafts' = SeenDrafts /\ SeenFavorites' = SeenFavorites
    BY <2>1, <2>2 DEF SeenDrafts, SeenFavorites
  <2>5. /\ DraftsInStep => DraftsInStep'
        /\ FavoritesInStep => FavoritesInStep'
        /\ AlertsReadInStep'
    BY <1>1, <2>2, <2>4
       DEF DraftsInStep, FavoritesInStep, AlertsReadInStep, DraftGoing, FavoriteGoing
  <2>6. CASE savedAuth' = TRUE
    BY <2>3, <2>6 DEF SavedInStep, SavedInv
  <2>7. CASE savedAuth' = savedAuth
    BY <1>0, <1>1, <2>2, <2>3, <2>5, <2>7 DEF SavedInStep, SavedInv
  <2> QED
    BY <2>2, <2>6, <2>7
<1>5. CASE Saved!LoadFails
  BY <1>0, <1>1, <1>5
     DEF Saved!LoadFails, Saved!heldVars, SavedInv, Saved!TypeOK, LoadSound, SavedInStep
<1> QED
  BY <1>2, <1>3, <1>4, <1>5

\* Asking for a removal or for tracking, which is possible only when no load is in flight.
LEMMA SavedSent ==
    ASSUME SavedInv, NEW a \in Apartments, Saved!remove(a) \/ Saved!track(a)
    PROVE  SavedInv'
<1>0. Saved!TypeOK /\ LoadSound /\ SavedInStep
  BY DEF SavedInv
<1>1. PICK c \in Saved!Calls :
         Saved!Send(c) /\ ~c.done /\ (c.at = "favorites" => c.favorite)
  <2> DEFINE checked  == [op |-> "checked", id |-> a, favorite |-> a \in favorites,
                          at |-> "drafts", done |-> FALSE]
             favorite == [op |-> "favorite", id |-> a, favorite |-> TRUE,
                          at |-> "favorites", done |-> FALSE]
             tracking == [op |-> "track", id |-> a, favorite |-> FALSE,
                          at |-> "alerts", done |-> FALSE]
  <2>1. Saved!Send(checked) \/ Saved!Send(favorite) \/ Saved!Send(tracking)
    BY DEF Saved!remove, Saved!track
  <2>2. {checked, favorite, tracking} \subseteq Saved!Calls
    BY DEF Saved!Calls
  <2> QED
    BY <2>1, <2>2
<1>2. /\ savedCalls' = savedCalls \cup {c} /\ savedError' = FALSE /\ ~savedError
      /\ UNCHANGED <<savedStore, drafts, favorites, watched, savedLoading, savedAuth, loading,
                     overtaken, partial>>
      /\ (at = "saved")' = (at = "saved")
  BY <1>1 DEF Saved!Send, Saved!remove, Saved!track, Saved!Shown, Saved!heldVars
<1>3. Saved!TypeOK' /\ LoadSound'
  BY <1>0, <1>1, <1>2 DEF Saved!TypeOK, LoadSound
<1>4. \A x : /\ DraftGoing(x) => DraftGoing(x)'
             /\ FavoriteGoing(x) => FavoriteGoing(x)'
             /\ AlertComing(x) => AlertComing(x)'
  BY <1>2 DEF DraftGoing, FavoriteGoing, AlertComing
<1>5. SavedInStep'
  BY <1>0, <1>2, <1>4
     DEF SavedInStep, DraftsInStep, FavoritesInStep, AlertsReadInStep, SeenDrafts, SeenFavorites,
         SeenAlerts
<1> QED
  BY <1>3, <1>5 DEF SavedInv

\* The server does what is asked: it is on its way to the page from then on.
LEMMA SavedServed ==
    ASSUME SavedInv, NEW c \in savedCalls, Saved!Served(c) \/ Saved!FavoriteNext(c)
    PROVE  SavedInv'
<1>0. Saved!TypeOK /\ LoadSound /\ SavedInStep
  BY DEF SavedInv
<1>1. /\ UNCHANGED <<drafts, favorites, watched, savedLoading, savedError, savedAuth, loading,
                     overtaken, partial>>
      /\ (at = "saved")' = (at = "saved")
  BY DEF Saved!Served, Saved!FavoriteNext, Saved!heldVars, Saved!stateVars
<1>2. UNCHANGED <<SeenDrafts, SeenFavorites, SeenAlerts>>
  BY <1>1 DEF SeenDrafts, SeenFavorites, SeenAlerts
<1>3. CASE Saved!Served(c)
  <2> DEFINE d == [c EXCEPT !.done = TRUE]
  <2>1. /\ d \in Saved!Calls /\ d.op = c.op /\ d.id = c.id /\ d.at = c.at
        /\ d.favorite = c.favorite /\ d.done = TRUE
    BY <1>0, SavedFacts DEF Saved!Calls
  <2>2. /\ ~c.done /\ savedCalls' = (savedCalls \ {c}) \cup {d}
        /\ c.op = "track" => savedStore' = [savedStore EXCEPT ![c.at] = @ \cup {c.id}]
        /\ c.op # "track" => savedStore' = [savedStore EXCEPT ![c.at] = @ \ {c.id}]
    BY <1>3 DEF Saved!Served
  <2> HIDE DEF d
  <2>3. savedStore \in [Saved!Lists -> SUBSET Apartments] /\ c.at \in Saved!Lists
    BY <1>0, SavedFacts DEF Saved!TypeOK, Saved!Stores, Saved!Lists
  <2>4. savedStore' \in Saved!Stores
    BY <1>0, <2>2, <2>3, SavedFacts DEF Saved!Stores
  <2>5. /\ \A a \in savedStore["drafts"] :
              a \in savedStore'["drafts"] \/ (a = c.id /\ c.at = "drafts")
        /\ \A a \in savedStore["favorites"] :
              a \in savedStore'["favorites"] \/ (a = c.id /\ c.at = "favorites")
        /\ \A a \in savedStore'["alerts"] :
              a \in savedStore["alerts"] \/ (a = c.id /\ c.op = "track")
    BY <1>0, <2>2, <2>3, SavedFacts DEF Saved!Lists
  <2>6. Saved!TypeOK' /\ LoadSound'
    BY <1>0, <1>1, <2>1, <2>2, <2>4 DEF Saved!TypeOK, LoadSound
  <2>7. \A x : /\ DraftGoing(x) => DraftGoing(x)'
               /\ FavoriteGoing(x) => FavoriteGoing(x)'
               /\ AlertComing(x) => AlertComing(x)'
    BY <2>1, <2>2 DEF DraftGoing, FavoriteGoing, AlertComing
  <2>8. /\ c.at = "drafts" => DraftGoing(c.id)'
        /\ c.at = "favorites" => FavoriteGoing(c.id)'
        /\ c.op = "track" => AlertComing(c.id)'
    BY <1>0, <2>1, <2>2, SavedFacts DEF DraftGoing, FavoriteGoing, AlertComing
  <2>9. SavedInStep'
    <3> SUFFICES ASSUME ~savedAuth, ~savedError, ~overtaken
                 PROVE  DraftsInStep' /\ FavoritesInStep' /\ AlertsReadInStep'
      BY <1>1 DEF SavedInStep
    <3>1. DraftsInStep'
      BY <1>0, <1>2, <2>5, <2>7, <2>8 DEF SavedInStep, DraftsInStep
    <3>2. FavoritesInStep'
      BY <1>0, <1>2, <2>5, <2>7, <2>8 DEF SavedInStep, FavoritesInStep
    <3>3. AlertsReadInStep'
      BY <1>0, <1>1, <1>2, <2>5, <2>7, <2>8 DEF SavedInStep, AlertsReadInStep
    <3> QED
      BY <3>1, <3>2, <3>3
  <2> QED
    BY <2>6, <2>9 DEF SavedInv
<1>4. CASE Saved!FavoriteNext(c)
  <2> DEFINE d == [c EXCEPT !.at = "favorites", !.done = FALSE]
  <2>1. /\ d \in Saved!Calls /\ d.op = "checked" /\ d.id = c.id /\ d.at = "favorites"
        /\ d.favorite
    BY <1>0, <1>4, SavedFacts DEF Saved!Calls, Saved!FavoriteNext
  <2>2. /\ c.op = "checked" /\ c.at = "drafts" /\ savedCalls' = (savedCalls \ {c}) \cup {d}
        /\ savedStore' = savedStore
    BY <1>4 DEF Saved!FavoriteNext
  <2> HIDE DEF d
  <2>3. Saved!TypeOK' /\ LoadSound'
    BY <1>0, <1>1, <2>1, <2>2 DEF Saved!TypeOK, LoadSound
  <2>4. \A x : /\ DraftGoing(x) => DraftGoing(x)'
               /\ FavoriteGoing(x) => FavoriteGoing(x)'
               /\ AlertComing(x) => AlertComing(x)'
    BY <2>1, <2>2 DEF DraftGoing, FavoriteGoing, AlertComing
  <2>5. SavedInStep'
    BY <1>0, <1>1, <1>2, <2>2, <2>4
       DEF SavedInStep, DraftsInStep, FavoritesInStep, AlertsReadInStep
  <2> QED
    BY <2>3, <2>5 DEF SavedInv
<1> QED
  BY <1>3, <1>4

\* The answer: the page forgets the card, or knows of the alert, as the server did before.
LEMMA SavedAnswered ==
    ASSUME SavedInv, NEW c \in savedCalls,
           Saved!Removed(c) \/ Saved!Tracked(c) \/ Saved!CallFails(c)
    PROVE  SavedInv'
<1>0. Saved!TypeOK /\ LoadSound /\ SavedInStep
  BY DEF SavedInv
<1>1. /\ savedCalls' = savedCalls \ {c} /\ (at = "saved")' = (at = "saved")
      /\ UNCHANGED <<savedStore, savedLoading, loading, partial>>
  BY DEF Saved!Removed, Saved!Tracked, Saved!CallFails, Saved!Finished, Saved!heldVars,
         Saved!stateVars
<1>2. LoadSound'
  BY <1>0, <1>1 DEF LoadSound
<1>3. CASE Saved!CallFails(c)
  BY <1>0, <1>1, <1>2, <1>3
     DEF Saved!CallFails, Saved!heldVars, SavedInv, Saved!TypeOK, SavedInStep
<1>4. CASE Saved!Removed(c) \/ Saved!Tracked(c)
  <2>1. /\ overtaken' = (overtaken \/ loading # None)
        /\ UNCHANGED <<savedError, savedAuth>>
    BY <1>4 DEF Saved!Removed, Saved!Tracked, Saved!Finished, Saved!stateVars
  <2>2. /\ drafts' = IF c.op = "checked" THEN drafts \ {c.id} ELSE drafts
        /\ favorites' = IF c.favorite THEN favorites \ {c.id} ELSE favorites
        /\ watched' = IF c.op = "track" THEN watched \cup {c.id} ELSE watched
    BY <1>0, <1>4, SavedFacts DEF Saved!Removed, Saved!Tracked
  <2>3. c.id \in Apartments
    BY <1>0, SavedFacts
  <2>4. Saved!TypeOK'
    BY <1>0, <1>1, <2>1, <2>2, <2>3 DEF Saved!TypeOK
  <2>5. ASSUME ~savedAuth, ~savedError, ~overtaken, loading = None
        PROVE  DraftsInStep' /\ FavoritesInStep' /\ AlertsReadInStep'
    <3>1. /\ SeenDrafts = drafts /\ SeenDrafts' = drafts'
          /\ SeenFavorites = favorites /\ SeenFavorites' = favorites'
          /\ SeenAlerts = watched /\ SeenAlerts' = watched'
          /\ drafts # None /\ favorites # None /\ watched # None
      BY <1>0, <1>1, <2>5, SavedFacts
         DEF SeenDrafts, SeenFavorites, SeenAlerts, Saved!TypeOK
    <3>2. \A x : /\ DraftGoing(x) => DraftGoing(x)' \/ (x = c.id /\ c.op = "checked")
                 /\ FavoriteGoing(x) => FavoriteGoing(x)' \/ (x = c.id /\ c.favorite)
                 /\ AlertComing(x) => AlertComing(x)' \/ (x = c.id /\ c.op = "track")
      BY <1>0, <1>1 DEF DraftGoing, FavoriteGoing, AlertComing, LoadSound
    <3>3. DraftsInStep'
      BY <1>0, <1>1, <2>2, <2>5, <3>1, <3>2 DEF SavedInStep, DraftsInStep
    <3>4. FavoritesInStep'
      BY <1>0, <1>1, <2>2, <2>5, <3>1, <3>2 DEF SavedInStep, FavoritesInStep
    <3>5. AlertsReadInStep'
      BY <1>0, <1>1, <2>2, <2>5, <3>1, <3>2 DEF SavedInStep, AlertsReadInStep
    <3> QED
      BY <3>3, <3>4, <3>5
  <2>6. SavedInStep'
    BY <1>1, <2>1, <2>5 DEF SavedInStep
  <2> QED
    BY <1>2, <2>4, <2>6 DEF SavedInv
<1> QED
  BY <1>3, <1>4

\* A page that is not open holds nothing.
LEMMA SavedForgets ==
    /\ Saved!Init => SavedInv
    /\ Saved!Unmount => SavedInv'
<1>1. /\ Saved!NothingStored \in Saved!Stores
      /\ Saved!NothingStored["alerts"] = {}
  BY DEF Saved!NothingStored, Saved!Stores, Saved!Lists
<1>2. Saved!Init => SavedInv
  BY <1>1 DEF Saved!Init, SavedInv, Saved!TypeOK, LoadSound, SavedInStep, DraftsInStep,
     FavoritesInStep, AlertsReadInStep, SeenDrafts, SeenFavorites, SeenAlerts
<1>3. Saved!Unmount => SavedInv'
  BY <1>1 DEF Saved!Unmount, SavedInv, Saved!TypeOK, LoadSound, SavedInStep, DraftsInStep,
     FavoritesInStep, AlertsReadInStep, SeenDrafts, SeenFavorites, SeenAlerts
<1> QED
  BY <1>2, <1>3

LEMMA SavedNext == SavedInv /\ [Saved!Next]_(Saved!vars) => SavedInv'
<1> SUFFICES ASSUME SavedInv, [Saved!Next]_(Saved!vars) PROVE SavedInv'
  OBVIOUS
<1>1. CASE UNCHANGED Saved!vars
  <2>1. /\ UNCHANGED <<savedStore, drafts, favorites, watched, savedLoading, savedError,
                       savedAuth, loading, savedCalls, overtaken, partial>>
        /\ (at = "saved")' = (at = "saved")
    BY <1>1 DEF Saved!vars, Saved!stateVars, Saved!heldVars
  <2>2. Saved!TypeOK' /\ LoadSound'
    BY <2>1 DEF SavedInv, Saved!TypeOK, LoadSound
  <2>3. SavedInStep'
    BY <2>1 DEF SavedInv, SavedInStep, DraftsInStep, FavoritesInStep, AlertsReadInStep,
       SeenDrafts, SeenFavorites, SeenAlerts, DraftGoing, FavoriteGoing, AlertComing
  <2> QED
    BY <2>2, <2>3 DEF SavedInv
<1>2. ASSUME NEW s \in Saved!Stores, Saved!Mount(s) PROVE SavedInv'
  BY <1>2, SavedLoadSent DEF Saved!Mount, Saved!heldVars
<1>3. CASE Saved!Reload
  BY <1>3, SavedLoadSent DEF Saved!Reload, Saved!heldVars, SavedInv, Saved!TypeOK
<1>4. CASE Saved!Next /\ ~(\E s \in Saved!Stores : Saved!Mount(s)) /\ ~Saved!Reload
  BY <1>4, SavedForgets, SavedRead, SavedLoaded, SavedSent, SavedServed, SavedAnswered
     DEF Saved!Next
<1> QED
  BY <1>1, <1>2, <1>3, <1>4

(* Loads and removals are not ordered: still, a card of what is deleted is   *)
(* explained by a removal on its way to the page, and so is a missing alert. *)
THEOREM SavedInvariance == Spec => []SavedInv
<1>1. Init => SavedInv
  BY SavedForgets DEF Init
<1>2. SavedInv /\ [Next]_vars => SavedInv'
  BY SavedStep, SavedNext
<1> QED
  BY <1>1, <1>2, PTL DEF Spec

(* What the pages of saved apartments and of tracked searches show is what   *)
(* the server holds, or is about to be, however many requests are in flight. *)
THEOREM ShownStored == Spec => []ShownIsStored
<1>1. SavedInv => Saved!ShownIsStored
  <2> SUFFICES ASSUME SavedInv PROVE Saved!NoGhosts /\ Saved!TrackingShown
    BY DEF Saved!ShownIsStored
  <2>1. ASSUME Saved!Shown, ~overtaken
        PROVE  /\ \A a \in drafts : a \in savedStore["drafts"] \/ DraftGoing(a)
               /\ \A a \in favorites : a \in savedStore["favorites"] \/ FavoriteGoing(a)
               /\ ~partial => \A a \in savedStore["alerts"] \ watched : AlertComing(a)
    <3>1. loading = None /\ drafts # None /\ favorites # None /\ watched # None
      BY <2>1, SavedFacts DEF SavedInv, LoadSound, Saved!Shown, Saved!TypeOK
    <3> QED
      BY <2>1, <3>1
         DEF SavedInv, SavedInStep, DraftsInStep, FavoritesInStep, AlertsReadInStep, SeenDrafts,
             SeenFavorites, SeenAlerts, Saved!Shown
  <2>2. \A a : DraftGoing(a) \/ FavoriteGoing(a)
                  => \E c \in savedCalls : c.id = a /\ c.op # "track"
    BY SavedFacts DEF DraftGoing, FavoriteGoing, SavedInv
  <2>3. Saved!NoGhosts
    BY <2>1, <2>2 DEF Saved!NoGhosts
  <2>4. Saved!TrackingShown
    BY <2>1 DEF Saved!TrackingShown, AlertComing
  <2> QED
    BY <2>3, <2>4
<1>2. AlertsInv => Tracked!ListIsStored
  BY DEF AlertsInv, AlertsInStep, EditsInStep, Changed, Tracked!ListIsStored, Tracked!TypeOK,
         Tracked!Lists
<1> QED
  BY <1>1, <1>2, SavedInvariance, AlertsInvariance, PTL DEF ShownIsStored

-----------------------------------------------------------------------------
(* The agency console, for any number of agencies, clients and handlers.     *)

LEMMA ConsoleStep == [Next]_vars => [Console!Next]_(Console!vars)
<1> USE DEF Console!vars, Console!workspaceVars, Console!crmVars, consoleVars
<1>1. CASE Open
  <2>1. CASE at' = "account" /\ Console!loadAgencyWorkspace
    BY <2>1 DEF Console!Next
  <2>2. CASE at # "account" /\ at' # "account" /\ UNCHANGED consoleVars
    BY <2>2
  <2> QED
    BY <1>1, <2>1, <2>2 DEF Open, SearchOnly, SavedOnly, AlertsOnly, EditorOnly, DeletionOnly
<1>2. CASE OpenCompare
  BY <1>2 DEF OpenCompare, CompareOnly
<1>3. CASE PickedToCompare
  BY <1>3 DEF PickedToCompare
<1>4. CASE Leave /\ at = "account"
  BY <1>4 DEF Leave, Console!Next
<1>5. CASE Leave /\ at # "account"
  BY <1>5 DEF Leave, SearchOnly, CompareOnly, SavedOnly, AlertsOnly, EditorOnly, DeletionOnly
<1>6. CASE Stay
  BY <1>6 DEF Stay, SearchOnly, CompareOnly, SavedOnly, AlertsOnly, EditorOnly, DeletionOnly
<1>7. CASE UNCHANGED vars
  BY <1>7 DEF vars
<1> QED
  BY <1>1, <1>2, <1>3, <1>4, <1>5, <1>6, <1>7 DEF Next

\* The workspace: unless raced, one handler at a time, and one that changes a membership
\* does so in the selected agency.
WorkspaceTypes ==
    /\ agencies \subseteq Agencies /\ selectedAgency \in Agencies \cup {None}
    /\ agencyBusy \in BOOLEAN /\ workspaceRaced \in BOOLEAN
    /\ workspaceThreads \subseteq Console!WorkspaceThreads

OneWorkspace ==
    ~workspaceRaced =>
        /\ \A t, u \in workspaceThreads : t = u
        /\ \A t \in workspaceThreads : t.op = "member" => t.agency = selectedAgency

WorkspaceInv == /\ WorkspaceTypes /\ OneWorkspace
                /\ agencyBusy => workspaceThreads # {}

\* The clients: what is listed and selected is of the selected agency.
Consistent ==
    /\ clientsOf = selectedAgency
    /\ selectedClient # None => AgencyOf[selectedClient] = selectedAgency
    /\ sharePreview \in {None, selectedClient}

\* What a handler that is alone finds, and so what holds while it waits.  The buttons are
\* enabled, and what is listed seen, during a write and a preview only.
AtStage(t) ==
    /\ t.agency = selectedAgency
    /\ t.stage = "write"   => t.op = "write" /\ Consistent
    /\ t.stage = "list"    => t.op \in {"load", "write"} /\ crmBusy /\ sharePreview = None
    /\ t.stage = "detail"  => /\ crmBusy /\ sharePreview = None /\ clientsOf = selectedAgency
                              /\ AgencyOf[t.client] = selectedAgency
                              /\ t.op = "select" => Consistent /\ ~t.preview
    /\ t.stage = "preview" => Consistent /\ t.client = selectedClient

CrmTypes ==
    /\ clientsOf \in Agencies \cup {None}
    /\ selectedClient \in Clients \cup {None} /\ sharePreview \in Clients \cup {None}
    /\ crmBusy \in BOOLEAN /\ crmStale \in BOOLEAN
    /\ crmThreads \subseteq Console!CrmThreads

CrmInStep ==
    ~crmStale => /\ \A t, u \in crmThreads : t = u
                 /\ \A t \in crmThreads : AtStage(t)
                 /\ crmThreads = {} => Consistent

CrmInv == /\ CrmTypes /\ CrmInStep
          /\ crmBusy => crmThreads # {}

ConsoleInv == WorkspaceInv /\ CrmInv

\* What is known of a handler.
LEMMA WorkspaceThreadFacts ==
    ASSUME NEW t \in Console!WorkspaceThreads
    PROVE  /\ t.op \in {"load", "select", "member", "create"}
           /\ t.agency \in Agencies \cup {None}
           /\ t.stage \in {"write", "list", "get", "refresh"}
           /\ \A a \in Agencies, s \in {"get", "list"} :
                 /\ [t EXCEPT !.agency = a, !.stage = s] \in Console!WorkspaceThreads
                 /\ [t EXCEPT !.agency = a, !.stage = s].op = t.op
           /\ [t EXCEPT !.stage = "refresh"] \in Console!WorkspaceThreads
           /\ [t EXCEPT !.stage = "refresh"].op = t.op
           /\ [t EXCEPT !.stage = "refresh"].agency = t.agency
BY DEF Console!WorkspaceThreads

LEMMA CrmThreadFacts ==
    ASSUME NEW t \in Console!CrmThreads
    PROVE  /\ t.op \in {"load", "select", "write", "preview"}
           /\ t.agency \in Agencies /\ t.client \in Clients \cup {None}
           /\ t.stage \in {"write", "list", "detail", "preview"} /\ t.preview \in BOOLEAN
BY DEF Console!CrmThreads

\* A handler of the clients is started: only one that starts alone matters.
LEMMA CrmStarted ==
    ASSUME CrmInv, NEW t \in Console!CrmThreads, Console!StartCrm(t),
           crmThreads = {} /\ (crmStale => t.stage = "list") => AtStage(t)',
           clientsOf' = clientsOf, selectedClient' = selectedClient,
           sharePreview' \in {None, sharePreview}
    PROVE  CrmInv'
<1>1. /\ crmThreads' = crmThreads \cup {t} /\ crmBusy' = TRUE
      /\ crmStale' = ((crmStale /\ t.stage # "list") \/ crmThreads # {})
  BY DEF Console!StartCrm
<1>2. CrmTypes'
  BY <1>1 DEF CrmInv, CrmTypes
<1>3. ~crmStale' => crmThreads' = {t} /\ AtStage(t)'
  BY <1>1
<1>4. CrmInStep'
  BY <1>3 DEF CrmInStep
<1> QED
  BY <1>1, <1>2, <1>4 DEF CrmInv

\* Loading the clients of the agency that is, or becomes, the selected one.
LEMMA ClientsAsked ==
    ASSUME CrmInv, NEW t \in Console!CrmThreads, Console!StartCrm(t),
           t.op = "load", t.stage = "list", t.agency = selectedAgency', sharePreview' = None,
           clientsOf' = clientsOf, selectedClient' = selectedClient
    PROVE  CrmInv'
<1>1. AtStage(t)'
  BY DEF AtStage, Console!StartCrm
<1> QED
  BY <1>1, CrmStarted

LEMMA AgencySelected ==
    ASSUME CrmInv, NEW a \in Agencies \cup {None}, Console!SelectedBecomes(a)
    PROVE  CrmInv' /\ selectedAgency' = a
<1>0. selectedAgency' = a
  BY DEF Console!SelectedBecomes
<1>1. CASE a = selectedAgency
  <2>1. UNCHANGED <<selectedAgency, clientsOf, selectedClient, sharePreview, crmBusy, crmThreads,
                    crmStale>>
    BY <1>1 DEF Console!SelectedBecomes, Console!crmVars
  <2> QED
    BY <1>0, <2>1 DEF CrmInv, CrmTypes, CrmInStep, AtStage, Consistent
<1>2. CASE a # selectedAgency /\ a = None
  <2>1. /\ selectedAgency' = None /\ clientsOf' = None /\ selectedClient' = None
        /\ sharePreview' = None /\ crmStale' = (crmThreads # {})
        /\ crmBusy' = crmBusy /\ crmThreads' = crmThreads
    BY <1>2 DEF Console!SelectedBecomes
  <2>2. CrmTypes'
    BY <2>1 DEF CrmInv, CrmTypes
  <2>3. CrmInStep'
    BY <2>1 DEF CrmInStep, Consistent
  <2> QED
    BY <1>0, <2>1, <2>2, <2>3 DEF CrmInv
<1>3. CASE a # selectedAgency /\ a # None
  <2> DEFINE t == [op |-> "load", agency |-> a, client |-> None, stage |-> "list",
                   preview |-> FALSE]
  <2>1. Console!StartCrm(t) /\ sharePreview' = None
        /\ clientsOf' = clientsOf /\ selectedClient' = selectedClient
    BY <1>3 DEF Console!SelectedBecomes, Console!LoadClients
  <2>2. t \in Console!CrmThreads /\ t.op = "load" /\ t.stage = "list" /\ t.agency = a
    BY <1>3 DEF Console!CrmThreads
  <2> HIDE DEF t
  <2> QED
    BY <1>0, <2>1, <2>2, ClientsAsked
<1> QED
  BY <1>1, <1>2, <1>3

\* What the user starts in the workspace.
LEMMA WorkspaceUses ==
    ASSUME ConsoleInv,
           \/ Console!loadAgencyWorkspace \/ Console!createAgency \/ Console!changeMember
           \/ \E a \in Agencies : Console!selectAgency(a)
    PROVE  ConsoleInv'
<1>1. PICK t \in Console!WorkspaceThreads :
         Console!StartWorkspace(t) /\ (t.op = "member" => t.agency = selectedAgency)
  <2> DEFINE T(op, a, stage) == [op |-> op, agency |-> a, stage |-> stage]
  <2>1. \E op \in {"load", "select", "member", "create"}, a \in Agencies \cup {None},
           stage \in {"write", "list", "get", "refresh"} :
             Console!StartWorkspace(T(op, a, stage)) /\ (op = "member" => a = selectedAgency)
    BY DEF Console!loadAgencyWorkspace, Console!createAgency, Console!changeMember,
           Console!selectAgency, ConsoleInv, WorkspaceInv, WorkspaceTypes
  <2>2. ASSUME NEW op \in {"load", "select", "member", "create"},
               NEW a \in Agencies \cup {None},
               NEW stage \in {"write", "list", "get", "refresh"}
        PROVE  /\ T(op, a, stage) \in Console!WorkspaceThreads
               /\ T(op, a, stage).op = op /\ T(op, a, stage).agency = a
    BY DEF Console!WorkspaceThreads
  <2> HIDE DEF T
  <2> QED
    BY <2>1, <2>2
<1>2. UNCHANGED <<selectedAgency, agencies, clientsOf, selectedClient, sharePreview, crmBusy,
                  crmThreads, crmStale>>
  BY DEF Console!loadAgencyWorkspace, Console!createAgency, Console!changeMember,
         Console!selectAgency, Console!crmVars
<1>3. /\ workspaceThreads' = workspaceThreads \cup {t} /\ agencyBusy' = TRUE
      /\ workspaceRaced' = (workspaceThreads # {})
  BY <1>1 DEF Console!StartWorkspace
<1>4. WorkspaceInv'
  BY <1>1, <1>2, <1>3 DEF ConsoleInv, WorkspaceInv, WorkspaceTypes, OneWorkspace
<1>5. CrmInv'
  BY <1>2 DEF ConsoleInv, CrmInv, CrmTypes, CrmInStep, AtStage, Consistent
<1> QED
  BY <1>4, <1>5 DEF ConsoleInv

\* The requests of a handler of the workspace are answered: it goes on as another one, or
\* ends, and may have selected an agency.
WorkspaceAnswer(t) ==
    \/ Console!AgencyLoaded(t) \/ Console!MemberChanged(t) \/ Console!WorkspaceFails(t)
    \/ \E list \in SUBSET Agencies :
          Console!AgenciesListed(t, list) \/ Console!AgencyRefreshed(t, list)
    \/ \E a \in Agencies : Console!AgencyCreated(t, a)

LEMMA WorkspaceAnswers ==
    ASSUME ConsoleInv, NEW t \in workspaceThreads, WorkspaceAnswer(t)
    PROVE  /\ \/ UNCHANGED <<selectedAgency, clientsOf, selectedClient, sharePreview, crmBusy,
                             crmThreads, crmStale>>
              \/ \E a \in Agencies \cup {None} :
                    /\ Console!SelectedBecomes(a)
                    /\ t.op = "member" => a = t.agency
           /\ \/ workspaceThreads' = workspaceThreads \ {t} /\ agencyBusy' = FALSE
              \/ \E u \in Console!WorkspaceThreads :
                    /\ workspaceThreads' = (workspaceThreads \ {t}) \cup {u}
                    /\ agencyBusy' = agencyBusy
                    /\ u.op = "member" => /\ t.op = "member" /\ u.agency = t.agency
                                          /\ selectedAgency' = selectedAgency
           /\ agencies' \subseteq Agencies /\ workspaceRaced' = workspaceRaced
<1>0. t \in Console!WorkspaceThreads /\ agencies \subseteq Agencies
  BY DEF ConsoleInv, WorkspaceInv, WorkspaceTypes
<1> USE WorkspaceThreadFacts
<1>1. CASE Console!AgencyLoaded(t)
  BY <1>0, <1>1 DEF Console!AgencyLoaded, Console!EndWorkspace
<1>2. CASE Console!MemberChanged(t)
  BY <1>0, <1>2 DEF Console!MemberChanged, Console!NextRequest, Console!crmVars
<1>3. CASE Console!WorkspaceFails(t)
  BY <1>0, <1>3 DEF Console!WorkspaceFails, Console!EndWorkspace, Console!crmVars
<1>4. ASSUME NEW list \in SUBSET Agencies, Console!AgenciesListed(t, list)
      PROVE  /\ \/ UNCHANGED <<selectedAgency, clientsOf, selectedClient, sharePreview, crmBusy,
                               crmThreads, crmStale>>
                \/ Console!SelectedBecomes(None) /\ t.op = "load"
             /\ \/ workspaceThreads' = workspaceThreads \ {t} /\ agencyBusy' = FALSE
                \/ \E u \in Console!WorkspaceThreads :
                      /\ workspaceThreads' = (workspaceThreads \ {t}) \cup {u}
                      /\ agencyBusy' = agencyBusy /\ u.op # "member"
             /\ agencies' \subseteq Agencies /\ workspaceRaced' = workspaceRaced
  <2>1. /\ agencies' = list /\ workspaceRaced' = workspaceRaced
        /\ \/ /\ t.op = "create" /\ Console!EndWorkspace(t)
              /\ UNCHANGED <<selectedAgency, Console!crmVars>>
           \/ /\ t.op = "load" /\ Console!EndWorkspace(t)
              /\ Console!SelectedBecomes(None)
           \/ /\ t.op = "load"
              /\ \E a \in Agencies :
                    Console!NextRequest(t, [t EXCEPT !.agency = a, !.stage = "get"])
              /\ UNCHANGED <<selectedAgency, agencyBusy, Console!crmVars>>
    BY <1>4 DEF Console!AgenciesListed
  <2> QED
    BY <1>0, <2>1 DEF Console!EndWorkspace, Console!NextRequest, Console!crmVars
<1>5. ASSUME NEW list \in SUBSET Agencies, Console!AgencyRefreshed(t, list)
      PROVE  /\ Console!SelectedBecomes(t.agency)
             /\ workspaceThreads' = workspaceThreads \ {t} /\ agencyBusy' = FALSE
             /\ agencies' \subseteq Agencies /\ workspaceRaced' = workspaceRaced
  BY <1>5 DEF Console!AgencyRefreshed, Console!EndWorkspace
<1>6. ASSUME NEW a \in Agencies, Console!AgencyCreated(t, a)
      PROVE  /\ Console!SelectedBecomes(a) /\ t.op = "create"
             /\ \E u \in Console!WorkspaceThreads :
                      /\ workspaceThreads' = (workspaceThreads \ {t}) \cup {u}
                      /\ agencyBusy' = agencyBusy /\ u.op # "member"
             /\ agencies' \subseteq Agencies /\ workspaceRaced' = workspaceRaced
  BY <1>0, <1>6 DEF Console!AgencyCreated, Console!NextRequest
<1> QED
  BY <1>0, <1>1, <1>2, <1>3, <1>4, <1>5, <1>6 DEF WorkspaceAnswer

LEMMA WorkspaceAnswersKeep ==
    ASSUME ConsoleInv, NEW t \in workspaceThreads, WorkspaceAnswer(t)
    PROVE  ConsoleInv'
<1>0. CrmInv /\ WorkspaceInv
  BY DEF ConsoleInv
<1>1. CrmInv' /\ selectedAgency' \in Agencies \cup {None}
  <2>1. CASE UNCHANGED <<selectedAgency, clientsOf, selectedClient, sharePreview, crmBusy,
                         crmThreads, crmStale>>
    BY <1>0, <2>1 DEF CrmInv, CrmTypes, CrmInStep, AtStage, Consistent, WorkspaceInv, WorkspaceTypes
  <2>2. ASSUME NEW a \in Agencies \cup {None}, Console!SelectedBecomes(a)
        PROVE  CrmInv' /\ selectedAgency' \in Agencies \cup {None}
    BY <1>0, <2>2, AgencySelected
  <2> QED
    BY <2>1, <2>2, WorkspaceAnswers
<1>2. /\ \/ workspaceThreads' = workspaceThreads \ {t} /\ agencyBusy' = FALSE
         \/ \E u \in Console!WorkspaceThreads :
               /\ workspaceThreads' = (workspaceThreads \ {t}) \cup {u}
               /\ agencyBusy' = agencyBusy
               /\ u.op = "member" => /\ t.op = "member" /\ u.agency = t.agency
                                     /\ selectedAgency' = selectedAgency
      /\ agencies' \subseteq Agencies /\ workspaceRaced' = workspaceRaced
  BY WorkspaceAnswers
<1>3. WorkspaceTypes' /\ (agencyBusy' => workspaceThreads' # {})
  BY <1>0, <1>1, <1>2 DEF WorkspaceInv, WorkspaceTypes
<1>4. OneWorkspace'
  BY <1>0, <1>2 DEF WorkspaceInv, OneWorkspace
<1> QED
  BY <1>1, <1>3, <1>4 DEF ConsoleInv, WorkspaceInv

\* What the user starts among the clients, and the effect that a change of language runs.
CrmUse ==
    \/ Console!refreshCrm \/ Console!ChangeLocale \/ Console!previewCrmShare
    \/ \E c \in Clients : Console!selectCrmClient(c) \/ Console!createCrmClient(c)
    \/ \E shared \in BOOLEAN : Console!changeCrmClient(shared)

LEMMA CrmUses ==
    ASSUME ConsoleInv, CrmUse
    PROVE  /\ CrmInv'
           /\ UNCHANGED <<agencies, selectedAgency, agencyBusy, workspaceThreads,
                          workspaceRaced>>
<1>0. CrmInv /\ None \notin Agencies \cup Clients
  BY ConsoleAssumption DEF ConsoleInv
<1>1. UNCHANGED <<agencies, selectedAgency, agencyBusy, workspaceThreads, workspaceRaced, clientsOf,
                  selectedClient>>
  BY DEF CrmUse, Console!refreshCrm, Console!ChangeLocale, Console!LoadClients,
         Console!previewCrmShare, Console!selectCrmClient, Console!createCrmClient,
         Console!changeCrmClient,
         Console!workspaceVars
<1>2. selectedAgency \in Agencies
  BY DEF CrmUse, Console!refreshCrm, Console!ChangeLocale, Console!previewCrmShare,
         Console!selectCrmClient, Console!createCrmClient, Console!changeCrmClient,
         Console!CrmReady, ConsoleInv, WorkspaceInv, WorkspaceTypes
<1>3. selectedClient \in Clients \cup {None} /\ sharePreview \in Clients \cup {None}
  BY <1>0 DEF CrmInv, CrmTypes
<1>4. \E op \in {"load", "select", "write", "preview"}, c \in Clients \cup {None},
         stage \in {"write", "list", "detail", "preview"}, ends \in BOOLEAN :
           /\ Console!StartCrm([op |-> op, agency |-> selectedAgency, client |-> c,
                                stage |-> stage, preview |-> ends])
           /\ sharePreview' \in {None, sharePreview}
           /\ \/ stage = "list" /\ op = "load" /\ sharePreview' = None
              \/ stage = "write" /\ op = "write"
              \/ stage = "preview" /\ op = "preview" /\ c = selectedClient
              \/ /\ stage = "detail" /\ op = "select" /\ sharePreview' = None /\ ~ends
                 /\ c \in Clients /\ AgencyOf[c] = clientsOf
  <2>1. CASE Console!refreshCrm
    BY <1>3, <2>1 DEF Console!refreshCrm
  <2>2. CASE Console!ChangeLocale
    BY <2>2 DEF Console!ChangeLocale, Console!LoadClients
  <2>3. CASE Console!previewCrmShare
    BY <1>3, <2>3 DEF Console!previewCrmShare
  <2>4. ASSUME NEW c \in Clients, Console!selectCrmClient(c) PROVE <1>4!:
    BY <2>4 DEF Console!selectCrmClient, Console!ClientsOf
  <2>5. ASSUME NEW c \in Clients, Console!createCrmClient(c) PROVE <1>4!:
    BY <2>5 DEF Console!createCrmClient
  <2>6. ASSUME NEW shared \in BOOLEAN, Console!changeCrmClient(shared) PROVE <1>4!:
    BY <1>3, <2>6 DEF Console!changeCrmClient
  <2> QED
    BY <2>1, <2>2, <2>3, <2>4, <2>5, <2>6 DEF CrmUse
<1>5. PICK t \in Console!CrmThreads :
         /\ Console!StartCrm(t) /\ t.agency = selectedAgency
         /\ sharePreview' \in {None, sharePreview}
         /\ \/ t.stage = "list" /\ t.op = "load" /\ sharePreview' = None
            \/ t.stage = "write" /\ t.op = "write"
            \/ t.stage = "preview" /\ t.op = "preview" /\ t.client = selectedClient
            \/ /\ t.stage = "detail" /\ t.op = "select" /\ sharePreview' = None /\ ~t.preview
               /\ AgencyOf[t.client] = clientsOf
  <2> DEFINE T(op, c, stage, ends) ==
               [op |-> op, agency |-> selectedAgency, client |-> c, stage |-> stage,
                preview |-> ends]
  <2>1. ASSUME NEW op \in {"load", "select", "write", "preview"}, NEW c \in Clients \cup {None},
               NEW stage \in {"write", "list", "detail", "preview"}, NEW ends \in BOOLEAN
        PROVE  /\ T(op, c, stage, ends) \in Console!CrmThreads
               /\ T(op, c, stage, ends).op = op /\ T(op, c, stage, ends).client = c
               /\ T(op, c, stage, ends).agency = selectedAgency
               /\ T(op, c, stage, ends).stage = stage
               /\ T(op, c, stage, ends).preview = ends
    BY <1>2 DEF Console!CrmThreads
  <2>2. PICK op \in {"load", "select", "write", "preview"}, c \in Clients \cup {None},
             stage \in {"write", "list", "detail", "preview"}, ends \in BOOLEAN :
           /\ Console!StartCrm(T(op, c, stage, ends))
           /\ sharePreview' \in {None, sharePreview}
           /\ \/ stage = "list" /\ op = "load" /\ sharePreview' = None
              \/ stage = "write" /\ op = "write"
              \/ stage = "preview" /\ op = "preview" /\ c = selectedClient
              \/ /\ stage = "detail" /\ op = "select" /\ sharePreview' = None /\ ~ends
                 /\ c \in Clients /\ AgencyOf[c] = clientsOf
    BY <1>4
  <2> HIDE DEF T
  <2> QED
    BY <2>1, <2>2
<1>6. ASSUME crmThreads = {}, crmStale => t.stage = "list" PROVE AtStage(t)'
  <2>1. crmBusy' = TRUE
    BY <1>5 DEF Console!StartCrm
  <2>2. CASE t.stage = "list"
    BY <1>1, <1>5, <2>1, <2>2 DEF AtStage
  <2>3. CASE t.stage # "list"
    <3>1. Consistent
      BY <1>0, <1>6, <2>3 DEF CrmInv, CrmInStep
    <3>2. Consistent'
      BY <1>1, <1>5, <3>1 DEF Consistent
    <3> QED
      BY <1>1, <1>5, <2>1, <2>3, <3>1, <3>2 DEF AtStage, Consistent
  <2> QED
    BY <2>2, <2>3
<1>7. CrmInv'
  BY <1>0, <1>1, <1>5, <1>6, CrmStarted
<1> QED
  BY <1>1, <1>7

\* The requests of a handler of the clients are answered, or fail.
CrmAnswer(t) ==
    \/ Console!Written(t) \/ Console!ClientsListed(t) \/ Console!ClientLoaded(t)
    \/ Console!SharePreviewed(t) \/ Console!LoadFails(t) \/ Console!CrmFails(t)

LEMMA CrmAnswers ==
    ASSUME ConsoleInv, NEW t \in crmThreads, CrmAnswer(t)
    PROVE  /\ CrmInv'
           /\ UNCHANGED <<agencies, selectedAgency, agencyBusy, workspaceThreads,
                          workspaceRaced>>
<1>0. /\ CrmInv /\ t \in Console!CrmThreads
      /\ ~crmStale => AtStage(t) /\ crmThreads = {t}
  BY DEF ConsoleInv, CrmInv, CrmTypes, CrmInStep
<1>1. UNCHANGED <<agencies, selectedAgency, agencyBusy, workspaceThreads, workspaceRaced>>
  BY DEF CrmAnswer, Console!Written, Console!ClientsListed, Console!ClientLoaded,
         Console!SharePreviewed, Console!LoadFails, Console!CrmFails, Console!workspaceVars
<1> USE CrmThreadFacts
<1>2. CASE Console!Written(t)
  <2> DEFINE u == [t EXCEPT !.stage = "list"]
  <2>1. u \in Console!CrmThreads /\ u.stage = "list" /\ u.op = t.op /\ u.agency = t.agency
    BY <1>0 DEF Console!CrmThreads
  <2>2. /\ t.stage = "write" /\ crmThreads' = (crmThreads \ {t}) \cup {u}
        /\ crmBusy' = TRUE /\ sharePreview' = None
        /\ crmStale' = (crmStale \/ crmThreads # {t})
        /\ UNCHANGED <<clientsOf, selectedClient>>
    BY <1>2 DEF Console!Written
  <2> HIDE DEF u
  <2>3. CrmTypes' /\ (crmBusy' => crmThreads' # {})
    BY <1>0, <2>1, <2>2 DEF CrmInv, CrmTypes
  <2>4. ASSUME ~crmStale' PROVE crmThreads' = {u} /\ AtStage(u)'
    BY <1>0, <1>1, <2>1, <2>2, <2>4 DEF AtStage
  <2>5. CrmInStep'
    BY <2>4 DEF CrmInStep
  <2> QED
    BY <1>1, <2>3, <2>5 DEF CrmInv
<1>3. CASE Console!ClientsListed(t)
  <2>1. /\ t.stage = "list" /\ clientsOf' = t.agency
        /\ UNCHANGED <<sharePreview, crmStale>>
    BY <1>3 DEF Console!ClientsListed
  <2>2. CASE /\ selectedClient' = None
             /\ crmThreads' = crmThreads \ {t} /\ crmBusy' = FALSE
    <3>1. CrmTypes' /\ (crmBusy' => crmThreads' # {})
      BY <1>0, <2>1, <2>2 DEF CrmInv, CrmTypes
    <3>2. CrmInStep'
      BY <1>0, <1>1, <2>1, <2>2 DEF CrmInStep, AtStage, Consistent
    <3> QED
      BY <1>1, <3>1, <3>2 DEF CrmInv
  <2>3. ASSUME NEW c \in Clients, AgencyOf[c] = t.agency,
               crmThreads' = (crmThreads \ {t})
                                \cup {[t EXCEPT !.client = c, !.stage = "detail"]},
               UNCHANGED <<selectedClient, crmBusy>>
        PROVE  CrmInv'
    <3> DEFINE u == [t EXCEPT !.client = c, !.stage = "detail"]
    <3>1. /\ u \in Console!CrmThreads /\ u.stage = "detail" /\ u.op = t.op
          /\ u.agency = t.agency /\ u.client = c
      BY <1>0 DEF Console!CrmThreads
    <3>2. crmThreads' = (crmThreads \ {t}) \cup {u}
      BY <2>3
    <3> HIDE DEF u
    <3>3. CrmTypes' /\ (crmBusy' => crmThreads' # {})
      BY <1>0, <2>1, <2>3, <3>1, <3>2 DEF CrmInv, CrmTypes
    <3>4. ASSUME ~crmStale' PROVE crmThreads' = {u} /\ AtStage(u)'
      BY <1>0, <1>1, <2>1, <2>3, <3>1, <3>2, <3>4 DEF AtStage
    <3>5. CrmInStep'
      BY <3>4 DEF CrmInStep
    <3> QED
      BY <3>3, <3>5 DEF CrmInv
  <2> QED
    BY <1>1, <1>3, <2>2, <2>3 DEF Console!ClientsListed, Console!ClientsOf
<1>4. CASE Console!AfterDetail(t) /\ t.stage \in {"list", "detail"}
           /\ UNCHANGED <<clientsOf, sharePreview>>
           /\ crmStale' \in BOOLEAN /\ (crmStale => crmStale')
           /\ \/ selectedClient' = t.client /\ t.stage = "detail"
              \/ selectedClient' = selectedClient /\ (t.op # "select" => crmStale')
  <2> DEFINE u == [t EXCEPT !.stage = "preview"]
  <2>1. /\ u \in Console!CrmThreads /\ u.stage = "preview" /\ u.agency = t.agency
        /\ u.client = t.client
    BY <1>0 DEF Console!CrmThreads
  <2>2. /\ crmThreads' = (crmThreads \ {t}) \cup (IF t.preview THEN {u} ELSE {})
        /\ crmBusy' = FALSE
    BY <1>4 DEF Console!AfterDetail
  <2> HIDE DEF u
  <2>3. CrmTypes'
    BY <1>0, <1>4, <2>1, <2>2 DEF CrmInv, CrmTypes
  <2>4. ASSUME ~crmStale'
        PROVE  /\ Consistent' /\ crmThreads' = (IF t.preview THEN {u} ELSE {})
               /\ t.preview => AtStage(u)'
    <3>1. ~crmStale /\ AtStage(t) /\ crmThreads = {t} /\ t.stage = "detail"
      <4>1. ~crmStale /\ (t.stage = "detail" \/ t.op = "select")
        BY <1>4, <2>4
      <4> QED
        BY <1>0, <1>4, <4>1 DEF AtStage
    <3>2. Consistent' /\ (t.preview => selectedClient' = t.client)
      <4>1. CASE selectedClient' = t.client
        BY <1>1, <1>4, <3>1, <4>1 DEF AtStage, Consistent
      <4>2. CASE selectedClient' = selectedClient /\ t.op = "select"
        <5>1. Consistent /\ ~t.preview
          BY <3>1, <4>2 DEF AtStage
        <5> QED
          BY <1>1, <1>4, <4>2, <5>1 DEF Consistent
      <4> QED
        BY <1>4, <2>4, <4>1, <4>2
    <3> QED
      BY <1>1, <2>1, <2>2, <3>1, <3>2 DEF AtStage
  <2>5. CrmInStep'
    BY <2>4 DEF CrmInStep
  <2> QED
    BY <1>1, <2>2, <2>3, <2>5 DEF CrmInv
<1>5. CASE Console!ClientLoaded(t) \/ Console!LoadFails(t)
  BY <1>0, <1>4, <1>5 DEF Console!ClientLoaded, Console!LoadFails, CrmInv, CrmTypes
<1>6. CASE Console!SharePreviewed(t) \/ Console!CrmFails(t)
  <2>1. /\ t.stage \in {"write", "preview"}
        /\ crmThreads' = crmThreads \ {t} /\ crmBusy' = FALSE
        /\ UNCHANGED <<clientsOf, selectedClient, crmStale>>
        /\ \/ sharePreview' = sharePreview
           \/ sharePreview' = t.client /\ t.stage = "preview"
    BY <1>6 DEF Console!SharePreviewed, Console!CrmFails
  <2>2. CrmTypes'
    BY <1>0, <2>1 DEF CrmInv, CrmTypes
  <2>3. ASSUME ~crmStale' PROVE crmThreads' = {} /\ Consistent'
    BY <1>0, <1>1, <2>1, <2>3 DEF AtStage, Consistent
  <2>4. CrmInStep'
    BY <2>3 DEF CrmInStep
  <2> QED
    BY <1>1, <2>1, <2>2, <2>4 DEF CrmInv
<1> QED
  BY <1>2, <1>3, <1>5, <1>6 DEF CrmAnswer

\* Tools that are not open hold nothing.
LEMMA ConsoleForgets ==
    /\ Console!Init => ConsoleInv
    /\ Console!Unmount => ConsoleInv'
BY DEF Console!Init, Console!Unmount, ConsoleInv, WorkspaceInv, WorkspaceTypes, OneWorkspace,
       CrmInv, CrmTypes, CrmInStep, Consistent

LEMMA ConsoleSteps ==
    Console!Next =>
        \/ Console!Unmount \/ CrmUse
        \/ Console!loadAgencyWorkspace \/ Console!createAgency \/ Console!changeMember
        \/ \E a \in Agencies : Console!selectAgency(a)
        \/ \E t \in workspaceThreads : WorkspaceAnswer(t)
        \/ \E t \in crmThreads : CrmAnswer(t)
BY DEF Console!Next, CrmUse, WorkspaceAnswer, CrmAnswer

LEMMA ConsoleNext == ConsoleInv /\ [Console!Next]_(Console!vars) => ConsoleInv'
<1> SUFFICES ASSUME ConsoleInv, [Console!Next]_(Console!vars) PROVE ConsoleInv'
  OBVIOUS
<1>1. CASE UNCHANGED Console!vars
  <2>1. UNCHANGED <<selectedAgency, agencies, agencyBusy, workspaceThreads, workspaceRaced,
                    clientsOf, selectedClient, sharePreview, crmBusy, crmThreads, crmStale>>
    BY <1>1 DEF Console!vars, Console!workspaceVars, Console!crmVars
  <2> QED
    BY <2>1 DEF ConsoleInv, WorkspaceInv, WorkspaceTypes, OneWorkspace, CrmInv, CrmTypes,
                CrmInStep, AtStage, Consistent
<1>2. ASSUME CrmInv',
             UNCHANGED <<agencies, selectedAgency, agencyBusy, workspaceThreads, workspaceRaced>>
      PROVE  ConsoleInv'
  BY <1>2 DEF ConsoleInv, WorkspaceInv, WorkspaceTypes, OneWorkspace
<1>3. CASE CrmUse \/ \E t \in crmThreads : CrmAnswer(t)
  BY <1>2, <1>3, CrmUses, CrmAnswers
<1> QED
  BY <1>1, <1>3, ConsoleSteps, ConsoleForgets, WorkspaceUses, WorkspaceAnswersKeep

(* However many handlers are in progress, the conditions above hold.         *)
THEOREM ConsoleInvariance == Spec => []ConsoleInv
<1>1. Init => ConsoleInv
  BY ConsoleForgets DEF Init
<1>2. ConsoleInv /\ [Next]_vars => ConsoleInv'
  BY ConsoleStep, ConsoleNext
<1> QED
  BY <1>1, <1>2, PTL DEF Spec

(* Once no handler of the clients is in progress, those listed, the one      *)
(* selected and the preview are of the agency selected.                      *)
THEOREM CrmInAgency == Spec => []CrmOfSelected
<1>1. ConsoleInv => CrmOfSelected
  BY CrmThreadFacts
     DEF ConsoleInv, CrmInv, CrmTypes, CrmInStep, AtStage, Consistent, CrmOfSelected,
         Console!CrmOfSelected
<1> QED
  BY <1>1, ConsoleInvariance, PTL

(* A change of a membership does not move the user to another agency.        *)
THEOREM MembersKept == Spec => MemberKeepsSelection
<1> DEFINE A == \A t \in workspaceThreads \ workspaceThreads' :
                   t.op = "member" /\ (at = "account")' /\ ~workspaceRaced
                      => UNCHANGED selectedAgency
<1>1. ConsoleInv /\ [Next]_vars => [A]_(Console!vars)
  <2> SUFFICES ASSUME ConsoleInv, Console!Next, (at = "account")', ~workspaceRaced,
                      NEW t \in workspaceThreads, t \notin workspaceThreads', t.op = "member"
               PROVE  UNCHANGED selectedAgency
    BY ConsoleStep
  <2>1. t.agency = selectedAgency
    BY DEF ConsoleInv, WorkspaceInv, OneWorkspace
  <2>2. ASSUME NEW u \in workspaceThreads, WorkspaceAnswer(u) PROVE UNCHANGED selectedAgency
    <3>1. u = t
      BY DEF ConsoleInv, WorkspaceInv, OneWorkspace
    <3>2. CASE UNCHANGED <<selectedAgency, clientsOf, selectedClient, sharePreview, crmBusy,
                           crmThreads, crmStale>>
      BY <3>2
    <3>3. ASSUME NEW a \in Agencies \cup {None}, Console!SelectedBecomes(a), a = t.agency
          PROVE  UNCHANGED selectedAgency
      BY <2>1, <3>3 DEF Console!SelectedBecomes
    <3> QED
      BY <2>2, <3>1, <3>2, <3>3, WorkspaceAnswers
  <2>3. ASSUME \/ Console!loadAgencyWorkspace \/ Console!createAgency \/ Console!changeMember
               \/ \E a \in Agencies : Console!selectAgency(a)
        PROVE  UNCHANGED selectedAgency
    BY <2>3 DEF Console!loadAgencyWorkspace, Console!createAgency, Console!changeMember,
                Console!selectAgency
  <2>4. CASE Console!Unmount
    BY <2>4 DEF Console!Unmount
  <2> QED
    BY <2>2, <2>3, <2>4, ConsoleSteps, CrmUses, CrmAnswers
<1>2. MemberKeepsSelection <=> [][A]_(Console!vars)
  BY DEF MemberKeepsSelection, Console!MemberKeepsSelection
<1> HIDE DEF A
<1> QED
  BY <1>1, <1>2, ConsoleInvariance, PTL DEF Spec

-----------------------------------------------------------------------------
(* The tab. *)

(* The variables of every page keep their types.                             *)
THEOREM Types == Spec => []TypeOK
<1> DEFINE PageOK == at \in Pages \cup {"none"}
<1>1. Spec => []PageOK
  <2>1. Init => PageOK
    BY DEF Init
  <2>2. PageOK /\ [Next]_vars => PageOK'
    BY DEF Next, Open, OpenCompare, PickedToCompare, Leave, Stay, vars, Pages
  <2> QED
    BY <2>1, <2>2, PTL DEF Spec
<1>2. ConsoleInv => Console!TypeOK
  BY DEF ConsoleInv, WorkspaceInv, WorkspaceTypes, CrmInv, CrmTypes, Console!TypeOK
<1>3. /\ PageOK /\ Search!TypeOK /\ Compare!TypeOK /\ SavedInv /\ AlertsInv /\ ConsoleInv
      /\ EditorInv /\ DeletionInv
      => TypeOK
  BY <1>2 DEF TypeOK, SavedInv, AlertsInv, EditorInv, DeletionInv
<1> HIDE DEF PageOK
<1> QED
  BY <1>1, <1>3, SearchTypes, CompareTypes, SavedInvariance, AlertsInvariance, ConsoleInvariance,
     EditorInvariance, DeletionInvariance, PTL

(* A control that waits for a request does not outlive it, in the console    *)
(* nor on the page of tracked searches.                                      *)
THEOREM Released == Spec => []ControlsReleased
<1>1. ConsoleInv /\ AlertsInv => ControlsReleased
  BY DEF ConsoleInv, WorkspaceInv, CrmInv, AlertsInv, ControlsReleased, Console!BusyOwned
<1> QED
  BY <1>1, ConsoleInvariance, AlertsInvariance, PTL
=============================================================================
