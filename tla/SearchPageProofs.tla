-------------------------- MODULE SearchPageProofs ---------------------------
(* Proofs about ListingSearch, for any filters, pages and loads in flight,    *)
(* and, at the end, about the map SearchPage puts beside it.                  *)
EXTENDS SearchPage, FiniteSetTheorems, TLAPS

\* Nothing outlives the page.
Forgotten ==
    ~mounted => loads = NoLoads /\ mapCalls = {} /\ mapData = None /\ mapError = FALSE

\* A load that was started alone is the only one, of what the page shows.
AloneIsCurrent ==
    mounted /\ ~raced =>
        /\ loads = IF isLoading THEN Started(NoLoads, Current) ELSE NoLoads
        /\ ~isLoading /\ ~error => analyses = Current

\* The map awaited is always the one of the filters.
MapAwaitsCurrent ==
    mapCalls # {} => mapCalls = {filters} /\ mapError = FALSE /\ mounted

IInv == TypeOK /\ Forgotten /\ AloneIsCurrent /\ MapAwaitsCurrent

-----------------------------------------------------------------------------
(* Counting loads. *)

LEMMA NoLoadsType == NoLoads \in [Questions -> Nat] /\ 0 \in 0..MaxPage
<1>1. NoLoads \in [Questions -> Nat]
  BY DEF NoLoads
<1> QED
  BY <1>1, SearchAssumption

LEMMA CountTypes ==
    ASSUME NEW ls \in [Questions -> Nat], NEW q \in Questions
    PROVE  /\ NoLoads \in [Questions -> Nat]
           /\ Started(ls, q) \in [Questions -> Nat]
           /\ q \in InFlight(ls) => Finished(ls, q) \in [Questions -> Nat]
<1>1. NoLoads \in [Questions -> Nat]
  BY DEF NoLoads
<1>2. Started(ls, q) \in [Questions -> Nat]
  BY DEF Started
<1>3. q \in InFlight(ls) => Finished(ls, q) \in [Questions -> Nat]
  BY DEF Finished, InFlight
<1> QED
  BY <1>1, <1>2, <1>3

LEMMA NothingInFlight ==
    ASSUME NEW ls \in [Questions -> Nat]
    PROVE  InFlight(ls) = {} <=> ls = NoLoads
<1>1. ASSUME InFlight(ls) = {} PROVE ls = NoLoads
  <2>1. \A q \in Questions : ls[q] = 0
    BY <1>1 DEF InFlight
  <2> QED
    BY <2>1 DEF NoLoads
<1>2. InFlight(NoLoads) = {}
  BY DEF InFlight, NoLoads
<1> QED
  BY <1>1, <1>2

LEMMA OneInFlight ==
    ASSUME NEW q \in Questions
    PROVE  InFlight(Started(NoLoads, q)) = {q} /\ Finished(Started(NoLoads, q), q) = NoLoads
<1>1. InFlight(Started(NoLoads, q)) = {q}
  BY DEF InFlight, Started, NoLoads
<1>2. Finished(Started(NoLoads, q), q) = NoLoads
  BY DEF Finished, Started, NoLoads
<1> QED
  BY <1>1, <1>2

LEMMA PageTypes == 1 \in Pages /\ \A f \in Filters, p \in Pages : <<f, p>> \in Questions
BY SearchAssumption DEF Pages, Questions

\* What a load that is started leaves: alone, it is of what the page will show.
LEMMA LoadFacts ==
    ASSUME NEW ls \in [Questions -> Nat], NEW f \in Filters, NEW p \in Pages,
           load(ls, <<f, p>>), filters' = f, page' = p
    PROVE  /\ loads' \in [Questions -> Nat] /\ isLoading' \in BOOLEAN /\ error' \in BOOLEAN
           /\ raced' \in BOOLEAN
           /\ AloneIsCurrent'
<1>1. <<f, p>> \in Questions
  BY PageTypes
<1>2. loads' \in [Questions -> Nat]
  BY <1>1, CountTypes DEF load
<1>3. ASSUME ~raced' PROVE loads' = Started(NoLoads, <<f, p>>)
  BY <1>3, NothingInFlight DEF load
<1> QED
  BY <1>2, <1>3 DEF load, AloneIsCurrent, Current

-----------------------------------------------------------------------------
(* Every step keeps the invariant. *)

ListTypes == /\ analyses \in Questions \cup {None}
             /\ totalPages \in 0..MaxPage
             /\ isLoading \in BOOLEAN /\ error \in BOOLEAN /\ raced \in BOOLEAN
             /\ loads \in [Questions -> Nat]
MapTypes  == /\ mapCalls \subseteq Filters
             /\ mapData \in Filters \cup {None}
             /\ mapError \in BOOLEAN
PageParts == mounted \in BOOLEAN /\ filters \in Filters /\ page \in Pages
Picked    == compareIds \subseteq Listings /\ Cardinality(compareIds) <= MaxPicked

LEMMA TypeParts ==
    /\ TypeOK <=> PageParts /\ ListTypes /\ MapTypes /\ Picked
    /\ TypeOK' <=> PageParts' /\ ListTypes' /\ MapTypes' /\ Picked'
BY DEF TypeOK, PageParts, ListTypes, MapTypes, Picked

LEMMA NothingPicked ==
    ASSUME compareIds' = {} PROVE Picked'
BY FS_EmptySet, SearchAssumption DEF Picked

LEMMA InitInvariant == Init => IInv
<1> SUFFICES ASSUME Init PROVE IInv
  OBVIOUS
<1>1. PageParts
  BY PageTypes, SearchAssumption DEF Init, PageParts
<1>2. ListTypes
  BY NoLoadsType DEF Init, ListTypes
<1>3. MapTypes
  BY DEF Init, MapTypes
<1>4. Picked
  BY FS_EmptySet, SearchAssumption DEF Init, Picked
<1> QED
  BY <1>1, <1>2, <1>3, <1>4, TypeParts DEF Init, IInv, Forgotten, AloneIsCurrent, MapAwaitsCurrent

LEMMA OpenedKeeps ==
    ASSUME IInv, NEW f \in Filters, NEW p \in Pages, NEW switched \in BOOLEAN,
           Mount(f, p, switched)
    PROVE  IInv'
<1> DEFINE again == f = DefaultFilters /\ (p # 1 \/ switched)
           q     == <<f, IF f = DefaultFilters THEN 1 ELSE p>>
<1>1. PageParts /\ ListTypes /\ MapTypes /\ Picked
  BY TypeParts DEF IInv
<1>2. q \in Questions /\ <<f, p>> \in Questions
  BY PageTypes
<1>3. NoLoads \in [Questions -> Nat] /\ Started(NoLoads, q) \in [Questions -> Nat]
  BY <1>2, NoLoadsType, CountTypes
<1>4. Started(Started(NoLoads, q), <<f, p>>) \in [Questions -> Nat]
  BY <1>2, <1>3, CountTypes
<1>5. loads' \in [Questions -> Nat] /\ raced' \in BOOLEAN
      /\ (~raced' => loads' = Started(NoLoads, <<f, p>>))
  BY <1>3, <1>4 DEF Mount
<1>6. PageParts' /\ ListTypes' /\ MapTypes' /\ Picked'
  BY <1>1, <1>5 DEF Mount, PageParts, ListTypes, MapTypes, Picked
<1>7. AloneIsCurrent'
  BY <1>5 DEF Mount, AloneIsCurrent, Current
<1>8. Forgotten' /\ MapAwaitsCurrent'
  BY DEF Mount, IInv, Forgotten, MapAwaitsCurrent
<1> QED
  BY <1>6, <1>7, <1>8, TypeParts DEF IInv

LEMMA LeftKeeps ==
    ASSUME IInv, Unmount
    PROVE  IInv'
<1>1. PageParts'
  BY PageTypes, SearchAssumption DEF Unmount, PageParts
<1>2. ListTypes'
  BY NoLoadsType DEF Unmount, ListTypes
<1>3. MapTypes' /\ Picked'
  BY NothingPicked DEF Unmount, MapTypes
<1> QED
  BY <1>1, <1>2, <1>3, TypeParts DEF Unmount, IInv, Forgotten, AloneIsCurrent, MapAwaitsCurrent

\* A change of the filters, the page or the language: the list is loaded, and the map or
\* nothing of it changes.
LEMMA ChangeKeeps ==
    ASSUME IInv, NEW f \in Filters, NEW p \in Pages, mounted, mounted' = TRUE,
           filters' = f, page' = p, load(loads, <<f, p>>),
           UNCHANGED <<analyses, totalPages>>, Picked',
           loadMap(f) \/ (UNCHANGED mapVars /\ f = filters)
    PROVE  IInv'
<1>1. PageParts /\ ListTypes /\ MapTypes
  BY TypeParts DEF IInv
<1>2. /\ loads' \in [Questions -> Nat] /\ isLoading' \in BOOLEAN /\ error' \in BOOLEAN
      /\ raced' \in BOOLEAN /\ AloneIsCurrent'
  BY <1>1, LoadFacts DEF ListTypes
<1>3. PageParts' /\ ListTypes'
  BY <1>1, <1>2 DEF PageParts, ListTypes
<1>4. MapTypes' /\ MapAwaitsCurrent'
  BY <1>1 DEF loadMap, mapVars, MapTypes, IInv, MapAwaitsCurrent
<1> QED
  BY <1>2, <1>3, <1>4, TypeParts DEF IInv, Forgotten

LEMMA UserKeeps ==
    ASSUME IInv, \/ \E f \in Filters : updateFilters(f)
                 \/ resetFilters
                 \/ \E p \in Pages : TurnPage(p)
                 \/ ChangeLocale
    PROVE  IInv'
<1>1. PageParts /\ Picked
  BY TypeParts DEF IInv
<1>2. CASE \E f \in Filters : updateFilters(f)
  <2>1. PICK f \in Filters : updateFilters(f)
    BY <1>2
  <2>2. Picked'
    BY <1>1, <2>1 DEF updateFilters, Picked
  <2> QED
    BY <2>1, <2>2, PageTypes, ChangeKeeps DEF updateFilters
<1>3. CASE resetFilters
  <2>1. Picked'
    BY <1>3, NothingPicked DEF resetFilters
  <2>2. CASE load(loads, <<DefaultFilters, 1>>)
    <3>1. loadMap(DefaultFilters) \/ (UNCHANGED mapVars /\ DefaultFilters = filters)
      BY <1>3 DEF resetFilters
    <3> QED
      BY <1>3, <2>1, <2>2, <3>1, PageTypes, SearchAssumption, ChangeKeeps DEF resetFilters
  <2>3. CASE UNCHANGED <<filters, page, mapVars, isLoading, error, loads, raced>>
    <3>1. UNCHANGED <<mounted, filters, page, mapCalls, mapData, mapError, isLoading, error,
                      loads, raced, analyses, totalPages>>
      BY <1>3, <2>3 DEF resetFilters, mapVars
    <3>2. PageParts' /\ ListTypes' /\ MapTypes'
      BY <3>1, TypeParts DEF IInv, PageParts, ListTypes, MapTypes
    <3> QED
      BY <2>1, <3>1, <3>2, TypeParts
         DEF IInv, Forgotten, AloneIsCurrent, MapAwaitsCurrent, Current
  <2> QED
    BY <1>3, <2>2, <2>3 DEF resetFilters
<1>4. CASE \E p \in Pages : TurnPage(p)
  <2>1. PICK p \in Pages : TurnPage(p)
    BY <1>4
  <2>2. Picked'
    BY <1>1, <2>1 DEF TurnPage, Picked
  <2>3. mounted /\ mounted' = TRUE
    BY <2>1 DEF TurnPage, ListShown
  <2>4. filters \in Filters
    BY <1>1 DEF PageParts
  <2> QED
    BY <2>1, <2>2, <2>3, <2>4, ChangeKeeps DEF TurnPage
<1>5. CASE ChangeLocale
  <2>1. Picked'
    BY <1>1, <1>5 DEF ChangeLocale, Picked
  <2>2. filters \in Filters /\ page \in Pages
    BY <1>1 DEF PageParts
  <2> QED
    BY <1>5, <2>1, <2>2, ChangeKeeps DEF ChangeLocale, Current
<1> QED
  BY <1>2, <1>3, <1>4, <1>5

LEMMA PickKeeps ==
    ASSUME IInv, NEW l \in Listings, toggleCompare(l)
    PROVE  IInv'
<1>1. PageParts /\ ListTypes /\ MapTypes /\ Picked
  BY TypeParts DEF IInv
<1>2. IsFiniteSet(compareIds) /\ Cardinality(compareIds) \in Nat
  BY <1>1, FS_Subset, FS_CardinalityType, SearchAssumption DEF Picked
<1>3. Picked'
  <2>1. CASE compareIds' = compareIds \ {l}
    <3>1. Cardinality(compareIds \ {l}) \in {Cardinality(compareIds), Cardinality(compareIds) - 1}
      BY <1>2, FS_RemoveElement
    <3> QED
      BY <1>1, <1>2, <2>1, <3>1, SearchAssumption DEF Picked
  <2>2. CASE l \notin compareIds /\ Cardinality(compareIds) < MaxPicked
             /\ compareIds' = compareIds \cup {l}
    <3>1. Cardinality(compareIds \cup {l}) = Cardinality(compareIds) + 1
      BY <1>2, <2>2, FS_AddElement
    <3> QED
      BY <1>1, <1>2, <2>2, <3>1, SearchAssumption DEF Picked
  <2> QED
    BY <2>1, <2>2 DEF toggleCompare
<1>4. UNCHANGED <<mounted, filters, page, analyses, totalPages, isLoading, error, loads, raced,
                  mapCalls, mapData, mapError>>
  BY DEF toggleCompare, listVars, mapVars
<1>5. PageParts' /\ ListTypes' /\ MapTypes'
  BY <1>1, <1>4 DEF PageParts, ListTypes, MapTypes
<1> QED
  BY <1>3, <1>4, <1>5, TypeParts
     DEF IInv, Forgotten, AloneIsCurrent, MapAwaitsCurrent, Current

LEMMA ListAnswersKeep ==
    ASSUME IInv, NEW q \in Questions, Loaded(q) \/ LoadFails(q)
    PROVE  IInv'
<1>1. PageParts /\ ListTypes /\ MapTypes /\ Picked
  BY TypeParts DEF IInv
<1>2. q \in InFlight(loads)
  BY DEF Loaded, LoadFails
<1>3. Finished(loads, q) \in [Questions -> Nat]
  BY <1>1, <1>2, CountTypes DEF ListTypes
<1>4. mounted
  BY <1>1, <1>2, NothingInFlight DEF IInv, Forgotten, ListTypes
<1>5. ASSUME ~raced
      PROVE  q = Current /\ Finished(loads, q) = NoLoads
  <2>1. Current \in Questions
    BY <1>1, PageTypes DEF PageParts, Current
  <2>2. loads = Started(NoLoads, Current)
    BY <1>1, <1>2, <1>4, <1>5, NothingInFlight DEF IInv, AloneIsCurrent, ListTypes
  <2> QED
    BY <1>2, <2>1, <2>2, OneInFlight
<1>6. q[1] \in Filters /\ q[2] \in Pages /\ q = <<q[1], q[2]>>
  BY DEF Questions
<1>7. UNCHANGED <<mounted, filters, mapCalls, mapData, mapError, compareIds>>
  BY DEF Loaded, LoadFails, mapVars
<1>8. MapTypes' /\ Picked' /\ Forgotten' /\ MapAwaitsCurrent'
  BY <1>1, <1>4, <1>7 DEF MapTypes, Picked, Forgotten, MapAwaitsCurrent, IInv
<1>9. CASE LoadFails(q)
  <2>1. PageParts' /\ ListTypes'
    BY <1>1, <1>3, <1>9 DEF LoadFails, PageParts, ListTypes
  <2>2. AloneIsCurrent'
    BY <1>5, <1>9 DEF LoadFails, AloneIsCurrent
  <2> QED
    BY <1>8, <2>1, <2>2, TypeParts DEF IInv
<1>10. CASE Loaded(q) /\ q[2] = page
  <2>1. PageParts' /\ ListTypes'
    BY <1>1, <1>3, <1>6, <1>10, SearchAssumption DEF Loaded, PageParts, ListTypes
  <2>2. AloneIsCurrent'
    BY <1>5, <1>10 DEF Loaded, AloneIsCurrent, Current
  <2> QED
    BY <1>8, <2>1, <2>2, TypeParts DEF IInv
<1>11. CASE Loaded(q) /\ q[2] # page
  <2>1. load(Finished(loads, q), <<filters, q[2]>>) /\ filters' = filters /\ page' = q[2]
        /\ analyses' = q /\ totalPages' = TotalPages[q[1]]
    BY <1>11 DEF Loaded
  <2>2. /\ loads' \in [Questions -> Nat] /\ isLoading' \in BOOLEAN /\ error' \in BOOLEAN
        /\ raced' \in BOOLEAN /\ AloneIsCurrent'
    BY <1>1, <1>3, <1>6, <2>1, LoadFacts DEF PageParts
  <2>3. PageParts' /\ ListTypes'
    BY <1>1, <1>6, <1>7, <2>1, <2>2, SearchAssumption DEF PageParts, ListTypes
  <2> QED
    BY <1>8, <2>2, <2>3, TypeParts DEF IInv
<1> QED
  BY <1>9, <1>10, <1>11

LEMMA MapAnswersKeep ==
    ASSUME IInv, NEW f \in Filters, MapLoaded(f) \/ MapFails(f)
    PROVE  IInv' /\ mapCalls = {f} /\ f = filters /\ mapError = FALSE /\ mapCalls' = {} /\ mounted
<1>1. PageParts /\ ListTypes /\ MapTypes /\ Picked
  BY TypeParts DEF IInv
<1>2. mapCalls = {f} /\ f = filters /\ mapError = FALSE /\ mapCalls' = {} /\ mounted
  BY DEF MapLoaded, MapFails, IInv, MapAwaitsCurrent
<1>3. UNCHANGED <<mounted, filters, page, analyses, totalPages, isLoading, error, loads, raced,
                  compareIds>>
  BY DEF MapLoaded, MapFails, listVars
<1>4. MapTypes'
  BY <1>1, <1>2 DEF MapLoaded, MapFails, MapTypes
<1>5. PageParts' /\ ListTypes' /\ Picked'
  BY <1>1, <1>3 DEF PageParts, ListTypes, Picked
<1> QED
  BY <1>2, <1>3, <1>4, <1>5, TypeParts
     DEF IInv, Forgotten, AloneIsCurrent, MapAwaitsCurrent, Current

LEMMA NextInvariant == IInv /\ [Next]_vars => IInv'
<1> SUFFICES ASSUME IInv, [Next]_vars PROVE IInv'
  OBVIOUS
<1>1. CASE \E f \in Filters, p \in Pages, switched \in BOOLEAN : Mount(f, p, switched)
  BY <1>1, OpenedKeeps
<1>2. CASE Unmount
  BY <1>2, LeftKeeps
<1>3. CASE \/ \E f \in Filters : updateFilters(f)
           \/ resetFilters
           \/ \E p \in Pages : TurnPage(p)
           \/ ChangeLocale
  BY <1>3, UserKeeps
<1>4. CASE \E l \in Listings : toggleCompare(l)
  BY <1>4, PickKeeps
<1>5. CASE \E q \in Questions : Loaded(q) \/ LoadFails(q)
  BY <1>5, ListAnswersKeep
<1>6. CASE \E f \in Filters : MapLoaded(f) \/ MapFails(f)
  BY <1>6, MapAnswersKeep
<1>7. CASE UNCHANGED vars
  <2>1. UNCHANGED <<mounted, filters, page, analyses, totalPages, isLoading, error, loads,
                    raced, mapCalls, mapData, mapError, compareIds>>
    BY <1>7 DEF vars, listVars, mapVars
  <2> QED
    BY <2>1 DEF IInv, TypeOK, Forgotten, AloneIsCurrent, MapAwaitsCurrent, Current
<1> QED
  BY <1>1, <1>2, <1>3, <1>4, <1>5, <1>6, <1>7
     DEF Next, NewFeatures, SameFeatures

(* Whatever the filters, the pages and the order of the answers, the         *)
(* conditions above hold.                                                    *)
THEOREM Invariance == Spec => []IInv
<1> QED
  BY InitInvariant, NextInvariant, PTL DEF Spec

(* The variables keep their types: the page is one of the pages, no load     *)
(* count goes below zero, no more is picked than may be compared.            *)
THEOREM TypeCorrect == Spec => []TypeOK
<1>1. IInv => TypeOK
  BY DEF IInv
<1> QED
  BY <1>1, Invariance, PTL

(* As long as no load was started beside another one, the list shown once    *)
(* nothing is awaited is the one of the filters and the page shown.          *)
THEOREM ListCurrent == Spec => []ListIsCurrent
<1>1. IInv => ListIsCurrent
  <2> SUFFICES ASSUME IInv, mounted, ~raced
               PROVE  /\ InFlight(loads) = IF isLoading THEN {Current} ELSE {}
                      /\ ~isLoading /\ ~error => analyses = Current
    BY DEF ListIsCurrent
  <2>1. Current \in Questions /\ loads \in [Questions -> Nat]
    BY PageTypes DEF IInv, TypeOK, Current
  <2>2. CASE isLoading
    BY <2>1, <2>2, OneInFlight DEF IInv, AloneIsCurrent
  <2>3. CASE ~isLoading
    BY <2>1, <2>3, NothingInFlight DEF IInv, AloneIsCurrent
  <2> QED
    BY <2>2, <2>3
<1> QED
  BY <1>1, Invariance, PTL

-----------------------------------------------------------------------------
(* The map's effect implements LatestAnswer. *)

LEMMA InitRefines == Init => MapPanel!Init
BY DEF Init, MapPanel!Init

LEMMA MapAsks ==
    ASSUME NEW f \in Filters, mounted' = TRUE, filters' = f,
           mapCalls' = {f}, mapError' = FALSE, mapData' = mapData
    PROVE  MapPanel!Next
<1>1. MapPanel!Ask(f)
  BY DEF MapPanel!Ask
<1> QED
  BY <1>1 DEF MapPanel!Next

LEMMA StepRefines == IInv /\ [Next]_vars => [MapPanel!Next]_(MapPanel!vars)
<1> SUFFICES ASSUME IInv, [Next]_vars
             PROVE  MapPanel!Next \/ UNCHANGED MapPanel!vars
  OBVIOUS
<1>1. CASE \E f \in Filters, p \in Pages, switched \in BOOLEAN : Mount(f, p, switched)
  <2>1. PICK f \in Filters : mounted' = TRUE /\ filters' = f /\ mapCalls' = {f}
                             /\ mapError' = FALSE /\ mapData' = mapData
    BY <1>1 DEF Mount, IInv, Forgotten
  <2> QED
    BY <2>1, MapAsks
<1>2. CASE Unmount
  BY <1>2 DEF Unmount, MapPanel!Next, MapPanel!Forget
<1>3. CASE \E f \in Filters : updateFilters(f)
  <2>1. PICK f \in Filters : updateFilters(f)
    BY <1>3
  <2> QED
    BY <2>1, MapAsks DEF updateFilters, loadMap
<1>4. CASE resetFilters
  <2>1. CASE loadMap(DefaultFilters)
    BY <1>4, <2>1, SearchAssumption, MapAsks DEF resetFilters, loadMap
  <2>2. CASE UNCHANGED <<filters, mapVars>>
    BY <1>4, <2>2 DEF resetFilters, mapVars, MapPanel!vars
  <2> QED
    BY <1>4, <2>1, <2>2 DEF resetFilters
<1>5. CASE ChangeLocale
  <2>1. filters \in Filters
    BY DEF IInv, TypeOK
  <2> QED
    BY <1>5, <2>1, MapAsks DEF ChangeLocale, loadMap
<1>6. CASE \E f \in Filters : MapLoaded(f)
  <2>1. PICK f \in Filters : MapLoaded(f)
    BY <1>6
  <2>2. mapCalls = {f} /\ f = filters /\ mapError = FALSE /\ mapCalls' = {} /\ mounted
    BY <2>1, MapAnswersKeep
  <2>3. mapData' = f /\ UNCHANGED <<mounted, filters, mapError>>
    BY <2>1 DEF MapLoaded
  <2>4. MapPanel!Answer
    BY <2>2, <2>3 DEF MapPanel!Answer
  <2> QED
    BY <2>4 DEF MapPanel!Next
<1>7. CASE \E f \in Filters : MapFails(f)
  <2>1. PICK f \in Filters : MapFails(f)
    BY <1>7
  <2>2. mapCalls = {f} /\ f = filters /\ mapCalls' = {}
    BY <2>1, MapAnswersKeep
  <2>3. mapError' = TRUE /\ UNCHANGED <<mounted, filters, mapData>>
    BY <2>1 DEF MapFails
  <2>4. MapPanel!Fail
    BY <2>2, <2>3 DEF MapPanel!Fail
  <2> QED
    BY <2>4 DEF MapPanel!Next
<1>8. CASE \/ \E p \in Pages : TurnPage(p)
           \/ \E l \in Listings : toggleCompare(l)
           \/ \E q \in Questions : Loaded(q) \/ LoadFails(q)
           \/ UNCHANGED vars
  <2>1. UNCHANGED <<mounted, filters, mapCalls, mapData, mapError>>
    BY <1>8 DEF TurnPage, toggleCompare, Loaded, LoadFails, mapVars, vars
  <2> QED
    BY <2>1 DEF MapPanel!vars
<1> QED
  BY <1>1, <1>2, <1>3, <1>4, <1>5, <1>6, <1>7, <1>8
     DEF Next, NewFeatures, SameFeatures

(* The map never stays behind the filters: once nothing is awaited and       *)
(* nothing failed it is the one of the filters shown, for any filters and    *)
(* any order of answers.                                                     *)
THEOREM MapLatest == Spec => MapShowsLatest
<1> QED
  BY InitRefines, StepRefines, Invariance, PTL DEF Spec, MapShowsLatest, MapPanel!Spec

-----------------------------------------------------------------------------
(* The map beside the list. *)

\* What is shown of the map's answers is the one for the filters, once none is awaited.
MapAnswered == mounted /\ mapCalls = {} /\ ~mapError => mapData = filters

\* Nothing is drawn before there is a map.
MapBlank == mapPhase \in {"off", "importing"} => sources = None /\ markers = None

\* The map is there with the list, and draws the features it was given last.
MapKept == /\ Map!TypeOK
           /\ ListShown <=> mapPhase # "off"
           /\ MapBlank
           /\ Map!DrawnIsCurrent

PageInv == IInv /\ MapAnswered /\ MapKept

LEMMA SearchSteps == [PageNext]_pageVars => [Next]_vars
BY DEF PageNext, pageVars, Next

(* The search page with its map is the search page: what is proved of the    *)
(* page alone holds with the map.                                            *)
THEOREM PageSearches == PageSpec => Spec
<1> QED
  BY SearchSteps, PTL DEF PageSpec, PageInit, Spec

LEMMA DefaultsAreLayers == Map!DEFAULT_VISIBLE_LAYERS \in SUBSET Map!LayerKeys
BY DEF Map!LayerKeys

\* An attempt to draw draws what it is given, or is recorded as given up.
LEMMA SyncDraws ==
    ASSUME MapKept, ListShown' <=> mapPhase' # "off",
           NEW c \in Filters \cup {None}, NEW V \in SUBSET Map!LayerKeys,
           Map!syncMapData(c, V), mapData' = c, visibleLayers' = V,
           mapPhase' \in {"created", "loaded"}
    PROVE  MapKept'
<1>1. Map!Drawn(c, V) \in [of: Filters \cup {None}, layers: SUBSET Map!LayerKeys]
  BY DEF Map!Drawn
<1>2. Map!TypeOK'
  BY <1>1 DEF Map!syncMapData, MapKept, Map!TypeOK
<1>3. Map!DrawnIsCurrent' /\ MapBlank'
  BY DEF Map!syncMapData, Map!DrawnIsCurrent, Map!Drawn, Map!Current, MapBlank
<1> QED
  BY <1>2, <1>3 DEF MapKept

\* An effect, of a map that is there or still being imported.
LEMMA EffectDraws ==
    ASSUME MapKept, ListShown' <=> mapPhase' # "off",
           NEW c \in Filters \cup {None}, NEW V \in SUBSET Map!LayerKeys,
           Map!Effect(c, V), mapData' = c, visibleLayers' = V, mapPhase' = mapPhase,
           mapPhase # "off"
    PROVE  MapKept'
<1>1. CASE mapPhase \in {"created", "loaded"}
  BY <1>1, SyncDraws DEF Map!Effect
<1>2. CASE mapPhase = "importing"
  BY <1>2 DEF Map!Effect, MapKept, MapBlank, Map!TypeOK, Map!DrawnIsCurrent
<1> QED
  BY <1>1, <1>2 DEF MapKept, Map!TypeOK

\* The map follows the page around it.
LEMMA FollowKeeps ==
    ASSUME MapKept, NEW again \in BOOLEAN, Map!Follow(ListShown', again),
           mapData' \in Filters \cup {None}, again \/ ~ListShown' \/ mapData' = mapData
    PROVE  MapKept'
<1>1. CASE ListShown' /\ Map!Appear
  BY <1>1, DefaultsAreLayers
     DEF Map!Appear, MapKept, MapBlank, Map!TypeOK, Map!DrawnIsCurrent
<1>2. CASE ~ListShown' /\ Map!Disappear
  BY <1>2 DEF Map!Disappear, MapKept, MapBlank, Map!TypeOK, Map!DrawnIsCurrent
<1>3. CASE ListShown' /\ Map!Rerender
  <2>1. visibleLayers \in SUBSET Map!LayerKeys
    BY DEF MapKept, Map!TypeOK
  <2> QED
    BY <1>3, <2>1, EffectDraws DEF Map!Rerender
<1>4. CASE /\ ListShown' = (mapPhase # "off") /\ (ListShown' => ~again)
           /\ UNCHANGED Map!ownVars
  BY <1>4 DEF Map!ownVars, MapKept, MapBlank, Map!TypeOK, Map!DrawnIsCurrent, Map!Current,
              Map!Drawn
<1> QED
  BY <1>1, <1>2, <1>3, <1>4 DEF Map!Follow

\* The map is used while the search stays.
LEMMA OwnKeeps ==
    ASSUME MapKept, Map!Own, UNCHANGED vars
    PROVE  MapKept'
<1>1. mapData' = mapData /\ ListShown' = ListShown /\ mapData \in Filters \cup {None}
  BY DEF vars, listVars, mapVars, ListShown, Empty, MapKept, Map!TypeOK
<1>2. visibleLayers \in SUBSET Map!LayerKeys
  BY DEF MapKept, Map!TypeOK
<1>3. ASSUME NEW k \in Toggles, Map!updateVisibleLayer(k)
      PROVE  MapKept'
  <2>1. visibleLayers' \in SUBSET Map!LayerKeys
    BY <1>2, <1>3 DEF Map!updateVisibleLayer
  <2>2. mapPhase # "off" /\ mapPhase' = mapPhase /\ Map!Effect(mapData, visibleLayers')
    BY <1>3 DEF Map!updateVisibleLayer
  <2> QED
    BY <1>1, <2>1, <2>2, EffectDraws DEF MapKept
<1>4. CASE Map!initializeMap
  BY <1>1, <1>4
     DEF Map!initializeMap, MapKept, MapBlank, Map!TypeOK, Map!DrawnIsCurrent
<1>5. CASE Map!LoadEvent
  <2>1. Map!syncMapData(mapData, visibleLayers) /\ visibleLayers' = visibleLayers
        /\ mapPhase = "created" /\ mapPhase' = "loaded"
    BY <1>5 DEF Map!LoadEvent
  <2> QED
    BY <1>1, <1>2, <2>1, SyncDraws DEF MapKept
<1>6. CASE Map!syncVisibleMarkers
  <2>1. Map!Current \in [of: Filters \cup {None}, layers: SUBSET Map!LayerKeys]
    BY <1>1, <1>2 DEF Map!Current, Map!Drawn
  <2>2. Map!Current' = Map!Current
    BY <1>1, <1>6 DEF Map!syncVisibleMarkers, Map!Current, Map!Drawn
  <2> QED
    BY <1>1, <1>6, <2>1, <2>2
       DEF Map!syncVisibleMarkers, MapKept, MapBlank, Map!TypeOK, Map!DrawnIsCurrent
<1> QED
  BY <1>3, <1>4, <1>5, <1>6 DEF Map!Own

LEMMA AnsweredKept == IInv /\ MapAnswered /\ [Next]_vars => MapAnswered'
<1> SUFFICES ASSUME IInv, MapAnswered, [Next]_vars PROVE MapAnswered'
  OBVIOUS
<1>1. CASE \/ \E f \in Filters, p \in Pages, switched \in BOOLEAN : Mount(f, p, switched)
           \/ Unmount
           \/ \E f \in Filters : updateFilters(f)
           \/ ChangeLocale
  BY <1>1 DEF Mount, Unmount, updateFilters, ChangeLocale, loadMap, MapAnswered
<1>4. CASE resetFilters
  <2>1. CASE loadMap(DefaultFilters)
    BY <2>1 DEF loadMap, MapAnswered
  <2>2. CASE filters = DefaultFilters /\ UNCHANGED mapVars
    BY <1>4, <2>2 DEF resetFilters, mapVars, MapAnswered
  <2> QED
    BY <1>4, <2>1, <2>2 DEF resetFilters
<1>2. CASE \E f \in Filters : MapLoaded(f) \/ MapFails(f)
  <2>1. PICK f \in Filters : MapLoaded(f) \/ MapFails(f)
    BY <1>2
  <2>2. f = filters
    BY <2>1, MapAnswersKeep
  <2> QED
    BY <2>1, <2>2 DEF MapLoaded, MapFails, MapAnswered
<1>3. CASE \/ \E p \in Pages : TurnPage(p)
           \/ \E l \in Listings : toggleCompare(l)
           \/ \E q \in Questions : Loaded(q) \/ LoadFails(q)
           \/ UNCHANGED vars
  <2>1. UNCHANGED <<mounted, filters, mapCalls, mapData, mapError>>
    BY <1>3 DEF TurnPage, toggleCompare, Loaded, LoadFails, mapVars, vars
  <2> QED
    BY <2>1 DEF MapAnswered
<1> QED
  BY <1>1, <1>2, <1>3, <1>4 DEF Next, NewFeatures, SameFeatures

\* The map is told whenever its features change, or is not there.
LEMMA SameFeaturesSame == SameFeatures => mapData' = mapData \/ ~ListShown'
<1>1. ASSUME Unmount PROVE ~ListShown'
  BY <1>1 DEF Unmount, ListShown
<1> QED
  BY <1>1 DEF SameFeatures, Mount, updateFilters, MapFails, resetFilters, TurnPage,
              toggleCompare, Loaded, LoadFails, loadMap, mapVars

LEMMA PageInvInit == PageInit => PageInv
<1> SUFFICES ASSUME PageInit PROVE PageInv
  OBVIOUS
<1>1. IInv /\ mounted = FALSE
  BY InitInvariant DEF PageInit, Init
<1>2. MapAnswered /\ ~ListShown
  BY <1>1 DEF MapAnswered, ListShown
<1>3. MapKept
  BY <1>2 DEF PageInit, Map!Init, MapKept, MapBlank, Map!TypeOK, Map!DrawnIsCurrent
<1> QED
  BY <1>1, <1>2, <1>3 DEF PageInv

LEMMA PageInvNext == PageInv /\ [PageNext]_pageVars => PageInv'
<1> SUFFICES ASSUME PageInv, [PageNext]_pageVars PROVE PageInv'
  OBVIOUS
<1>1. IInv' /\ MapAnswered'
  BY SearchSteps, NextInvariant, AnsweredKept DEF PageInv
<1>2. mapData' \in Filters \cup {None}
  BY <1>1 DEF IInv, TypeOK
<1>3. CASE NewFeatures /\ Map!Follow(ListShown', TRUE)
  BY <1>1, <1>2, <1>3, FollowKeeps DEF PageInv
<1>4. CASE SameFeatures /\ Map!Follow(ListShown', FALSE)
  BY <1>1, <1>2, <1>4, SameFeaturesSame, FollowKeeps DEF PageInv
<1>5. CASE Map!Own /\ UNCHANGED vars
  BY <1>1, <1>5, OwnKeeps DEF PageInv
<1>6. CASE UNCHANGED pageVars
  BY <1>1, <1>6
     DEF PageInv, pageVars, vars, listVars, mapVars, Map!ownVars, ListShown, Empty, MapKept,
         MapBlank, Map!TypeOK, Map!DrawnIsCurrent, Map!Current, Map!Drawn
<1> QED
  BY <1>3, <1>4, <1>5, <1>6 DEF PageNext

LEMMA PageInvariance == PageSpec => []PageInv
<1> QED
  BY PageInvInit, PageInvNext, PTL DEF PageSpec

(* The variables of the page and its map keep their types, and the map is    *)
(* there exactly while the list is.                                          *)
THEOREM PageTypeCorrect == PageSpec => []PageTypeOK
<1>1. PageInv => PageTypeOK
  BY DEF PageInv, IInv, MapKept, PageTypeOK
<1> QED
  BY <1>1, PageInvariance, PTL

(* The page keeps what the map expects: no new features without the effect   *)
(* that draws them, and nothing of it left behind when it goes.              *)
THEOREM PageKeepsMap == PageSpec => Map!Spec
<1>1. PageInit => Map!Init
  BY DEF PageInit
<1>2. PageInv /\ PageInv' /\ [PageNext]_pageVars => [Map!Next]_(Map!vars)
  <2> SUFFICES ASSUME PageInv, PageInv', [PageNext]_pageVars PROVE [Map!Next]_(Map!vars)
    OBVIOUS
  <2>1. mapData' \in Filters \cup {None} /\ ListShown' \in BOOLEAN
    BY DEF PageInv, IInv, TypeOK, ListShown
  <2>2. CASE NewFeatures /\ Map!Follow(ListShown', TRUE)
    BY <2>1, <2>2 DEF Map!Next
  <2>3. CASE SameFeatures /\ Map!Follow(ListShown', FALSE)
    BY <2>1, <2>3, SameFeaturesSame DEF Map!Next
  <2>4. CASE Map!Own /\ UNCHANGED vars
    BY <2>4 DEF Map!Next
  <2>5. CASE UNCHANGED pageVars
    BY <2>5 DEF pageVars, vars, mapVars, Map!vars
  <2> QED
    BY <2>2, <2>3, <2>4, <2>5 DEF PageNext
<1> QED
  BY <1>1, <1>2, PageInvariance, PTL DEF PageSpec, Map!Spec

(* Whatever is done before the map is made and while it loads, a map that    *)
(* has loaded draws the filters' features and the switches' layers, unless   *)
(* the style was found not loaded by the last attempt.                       *)
THEOREM MapDraws == PageSpec => []MapDrawsFilters
<1>1. PageInv => MapDrawsFilters
  <2> SUFFICES ASSUME PageInv, mapPhase = "loaded", mapCalls = {}, ~mapError, ~skipped
               PROVE  /\ sources = [of |-> filters, layers |-> visibleLayers]
                      /\ markers = sources
    BY DEF MapDrawsFilters
  <2>1. mounted
    BY DEF PageInv, MapKept, ListShown
  <2>2. mapData = filters
    BY <2>1 DEF PageInv, MapAnswered
  <2> QED
    BY <2>2 DEF PageInv, MapKept, Map!DrawnIsCurrent, Map!Current, Map!Drawn
<1> QED
  BY <1>1, PageInvariance, PTL

\* What the map draws as points only, it is given as points.
LEMMA Geometries ==
    ASSUME NEW f \in Map!Features
    PROVE  /\ f.type \in {"listing", "planned_investment"} => f.geometry = "Point"
           /\ f.type \in DOMAIN Map!Infrastructure \cup {"amenity"} =>
                 f.geometry = "Point" \/ f.type = "transport_route"
BY DEF Map!Features, Map!Feature, Map!Administrative, Map!Planning, Map!FutureTransport,
       Map!Risk, Map!Infrastructure, Map!Amenities

LEMMA RouteSwitch ==
    /\ "transport_route" \in DOMAIN Map!Infrastructure
    /\ Map!Infrastructure["transport_route"] = "transportRoutes"
BY DEF Map!Infrastructure

(* Whatever the switches, the map is moved to what it draws and nothing      *)
(* else: two renderings of the visible features agree.                       *)
THEOREM FramesWhatItDraws == PageSpec => []FramedIsDrawn
<1>1. FramedIsDrawn
  <2> SUFFICES ASSUME NEW f \in Map!Features
               PROVE  Map!isFeatureVisible(f, visibleLayers)
                        <=> \/ Map!InSources(f, visibleLayers)
                            \/ Map!isMarkerFeatureVisible(f, visibleLayers)
    BY DEF FramedIsDrawn, Map!FramedIsDrawn
  <2>1. Map!isInfrastructureFeatureVisible(f, visibleLayers)
          => /\ f.type \in DOMAIN Map!Infrastructure \cup {"amenity"}
             /\ f.type = "transport_route" =>
                   {"infrastructure", "transportRoutes"} \subseteq visibleLayers
    BY RouteSwitch DEF Map!isInfrastructureFeatureVisible, Map!Shown
  <2>2. (f.type = "transport_route"
           /\ {"infrastructure", "transportRoutes"} \subseteq visibleLayers)
          => Map!isInfrastructureFeatureVisible(f, visibleLayers)
    BY RouteSwitch DEF Map!isInfrastructureFeatureVisible, Map!Shown
  <2>3. Map!isFeatureVisible(f, visibleLayers)
          => Map!InSources(f, visibleLayers) \/ Map!isMarkerFeatureVisible(f, visibleLayers)
    BY <2>1, Geometries
       DEF Map!isFeatureVisible, Map!InSources, Map!isMarkerFeatureVisible
  <2>4. Map!InSources(f, visibleLayers) \/ Map!isMarkerFeatureVisible(f, visibleLayers)
          => Map!isFeatureVisible(f, visibleLayers)
    BY <2>2 DEF Map!isFeatureVisible, Map!InSources, Map!isMarkerFeatureVisible
  <2> QED
    BY <2>3, <2>4
<1> QED
  BY <1>1, PTL
=============================================================================
