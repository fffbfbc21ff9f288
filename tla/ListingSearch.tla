--------------------------- MODULE ListingSearch ----------------------------
(* The apartment search page: filters, pages, the list and the map.          *)
(*                                                                           *)
(* The list is loaded by an effect that runs whenever the filters, the page  *)
(* or the language change, and every answer writes the page it is about back *)
(* into the state: an answer about another page than the current one makes   *)
(* the effect run again.  Nothing orders the loads: their answers are taken  *)
(* as they arrive.  The map's effect, in contrast, cancels the load before.  *)
EXTENDS PageParameters

VARIABLES
    mounted,       \* the page is on screen
    filters, page,
    analyses,      \* the question whose answer the list shows
    totalPages,    \* of that answer
    isLoading, error,
    loads,         \* how many loads of each question are in flight
    mapCalls,      \* the filters whose map is awaited, cancelled loads aside
    mapData,       \* the filters whose map is shown
    mapError,
    compareIds,    \* the listings picked for a comparison
    raced          \* history: the last load was started beside another one

listVars == <<analyses, totalPages, isLoading, error, loads, raced>>
mapVars  == <<mapCalls, mapData, mapError>>
vars == <<mounted, filters, page, listVars, mapVars, compareIds>>

Pages     == 1..MaxPage
Questions == Filters \X Pages      \* what buildSearchQuery asks for
Current   == <<filters, page>>

NoLoads     == [q \in Questions |-> 0]
Started(ls, q)  == [ls EXCEPT ![q] = @ + 1]
Finished(ls, q) == [ls EXCEPT ![q] = @ - 1]
InFlight(ls)    == {q \in Questions : ls[q] > 0}

\* A page past the last one is answered with an empty list.
Empty == analyses = None \/ analyses[2] > TotalPages[analyses[1]]

\* Without an error the list, or that it is empty, is shown with the page buttons.
ListShown == mounted /\ ~error /\ ~(Empty /\ isLoading)

Init ==
    /\ mounted = FALSE
    /\ filters = DefaultFilters /\ page = 1
    /\ analyses = None /\ totalPages = 0
    /\ isLoading = FALSE /\ error = FALSE
    /\ loads = NoLoads /\ raced = FALSE
    /\ mapCalls = {} /\ mapData = None /\ mapError = FALSE
    /\ compareIds = {}

-----------------------------------------------------------------------------
(* The two effects. *)

\* load(page), while the loads in ls are in flight.
load(ls, q) ==
    /\ ls[q] < MaxLoads
    /\ loads' = Started(ls, q)
    /\ isLoading' = TRUE /\ error' = FALSE
    /\ raced' = (InFlight(ls) # {})

\* Mutant of loadMap: the load before is not cancelled.
MutantLoadMap(f) ==
    /\ mapCalls' = mapCalls \cup {f}
    /\ mapError' = FALSE
    /\ UNCHANGED mapData

\* The cleanup cancels the load before; the map shown stays until the answer.
loadMap(f) ==
    /\ mapCalls' = {f}
    /\ mapError' = FALSE
    /\ UNCHANGED mapData

-----------------------------------------------------------------------------
(* The page is opened, with the filters and the page of its address, and left. *)

\* The first effect loads page 1 unless the address has filters, and the page of the
\* address, or a language other than the default, then makes it run again.
Mount(f, p, switched) ==
    /\ ~mounted
    /\ mounted' = TRUE
    /\ filters' = f /\ page' = p
    /\ isLoading' = TRUE
    /\ LET again == f = DefaultFilters /\ (p # 1 \/ switched)
           first == Started(NoLoads, <<f, IF f = DefaultFilters THEN 1 ELSE p>>)
       IN /\ loads' = IF again THEN Started(first, <<f, p>>) ELSE first
          /\ raced' = again
    /\ mapCalls' = {f}
    /\ UNCHANGED <<analyses, totalPages, error, mapData, mapError, compareIds>>

Unmount ==
    /\ mounted
    /\ mounted' = FALSE
    /\ filters' = DefaultFilters /\ page' = 1
    /\ analyses' = None /\ totalPages' = 0
    /\ isLoading' = FALSE /\ error' = FALSE
    /\ loads' = NoLoads /\ raced' = FALSE
    /\ mapCalls' = {} /\ mapData' = None /\ mapError' = FALSE
    /\ compareIds' = {}

-----------------------------------------------------------------------------
(* What the user does: every change runs the effects of what it changes. *)

\* Mutant of updateFilters: the page number stays.
MutantUpdateFilters(f) ==
    /\ mounted
    /\ filters' = f
    /\ load(loads, <<f, 1>>)
    /\ loadMap(f)
    /\ UNCHANGED <<mounted, page, analyses, totalPages, compareIds>>

updateFilters(f) ==
    /\ mounted
    /\ filters' = f /\ page' = 1
    /\ load(loads, <<f, 1>>)
    /\ loadMap(f)
    /\ UNCHANGED <<mounted, analyses, totalPages, compareIds>>

\* Setting the state it already has runs no effect, which filters that were edited and then
\* chosen back to their defaults are not.
resetFilters ==
    /\ mounted
    /\ filters' = DefaultFilters /\ page' = 1
    /\ \/ load(loads, <<DefaultFilters, 1>>) /\ loadMap(DefaultFilters)
       \/ /\ filters = DefaultFilters /\ UNCHANGED mapVars
          /\ IF page = 1 THEN UNCHANGED <<isLoading, error, loads, raced>>
             ELSE load(loads, <<DefaultFilters, 1>>)
    /\ compareIds' = {}
    /\ UNCHANGED <<mounted, analyses, totalPages>>

\* The buttons stay enabled while a load is in flight.
TurnPage(p) ==
    /\ ListShown
    /\ \/ p = page - 1 /\ page > 1
       \/ p = page + 1 /\ page < totalPages
    /\ page' = p
    /\ load(loads, <<filters, p>>)
    /\ UNCHANGED <<mounted, filters, analyses, totalPages, mapVars, compareIds>>

ChangeLocale ==
    /\ mounted
    /\ load(loads, Current)
    /\ loadMap(filters)
    /\ UNCHANGED <<mounted, filters, page, analyses, totalPages, compareIds>>

\* Mutant of toggleCompare: off by one, one listing too many.
MutantToggleCompare(l) ==
    /\ ListShown /\ ~Empty
    /\ l \notin compareIds /\ Cardinality(compareIds) <= MaxPicked
    /\ compareIds' = compareIds \cup {l}
    /\ UNCHANGED <<mounted, filters, page, listVars, mapVars>>

toggleCompare(l) ==
    /\ ListShown /\ ~Empty
    /\ \/ l \in compareIds /\ compareIds' = compareIds \ {l}
       \/ /\ l \notin compareIds /\ Cardinality(compareIds) < MaxPicked
          /\ compareIds' = compareIds \cup {l}
    /\ UNCHANGED <<mounted, filters, page, listVars, mapVars>>

-----------------------------------------------------------------------------
(* The answers. *)

\* setPage(search.page): if that changes the page, the effect loads once more.
Loaded(q) ==
    /\ q \in InFlight(loads)
    /\ analyses' = q
    /\ totalPages' = TotalPages[q[1]]
    /\ page' = q[2]
    /\ IF q[2] = page
       THEN /\ loads' = Finished(loads, q)
            /\ isLoading' = FALSE
            /\ UNCHANGED <<error, raced>>
       ELSE load(Finished(loads, q), <<filters, q[2]>>)
    /\ UNCHANGED <<mounted, filters, mapVars, compareIds>>

LoadFails(q) ==
    /\ q \in InFlight(loads)
    /\ loads' = Finished(loads, q)
    /\ isLoading' = FALSE /\ error' = TRUE
    /\ UNCHANGED <<mounted, filters, page, analyses, totalPages, raced, mapVars,
                   compareIds>>

MapLoaded(f) ==
    /\ f \in mapCalls
    /\ mapCalls' = mapCalls \ {f}
    /\ mapData' = f
    /\ UNCHANGED <<mounted, filters, page, listVars, mapError, compareIds>>

MapFails(f) ==
    /\ f \in mapCalls
    /\ mapCalls' = mapCalls \ {f}
    /\ mapError' = TRUE
    /\ UNCHANGED <<mounted, filters, page, listVars, mapData, compareIds>>

\* What gives the map's panel new features or another language, and what does not.
NewFeatures ==
    \/ ChangeLocale
    \/ \E f \in Filters : MapLoaded(f)

SameFeatures ==
    \/ \E f \in Filters, p \in Pages, switched \in BOOLEAN : Mount(f, p, switched)
    \/ Unmount
    \/ \E f \in Filters : updateFilters(f) \/ MapFails(f)
    \/ resetFilters
    \/ \E p \in Pages : TurnPage(p)
    \/ \E l \in Listings : toggleCompare(l)
    \/ \E q \in Questions : Loaded(q) \/ LoadFails(q)

Next == NewFeatures \/ SameFeatures

Spec == Init /\ [][Next]_vars

-----------------------------------------------------------------------------
(* Types of the variables. *)
TypeOK ==
    /\ mounted \in BOOLEAN
    /\ filters \in Filters /\ page \in Pages
    /\ analyses \in Questions \cup {None}
    /\ totalPages \in 0..MaxPage
    /\ isLoading \in BOOLEAN /\ error \in BOOLEAN /\ raced \in BOOLEAN
    /\ loads \in [Questions -> Nat]
    /\ mapCalls \subseteq Filters
    /\ mapData \in Filters \cup {None}
    /\ mapError \in BOOLEAN
    /\ compareIds \subseteq Listings /\ Cardinality(compareIds) <= MaxPicked

(* As long as no load was started beside another one, the page asks only for *)
(* what its filters and page say, waits for exactly that answer, and then    *)
(* shows it.  (Two loads at a time, which a second click on a page button is *)
(* enough for, may leave another list than the filters', or chase each other *)
(* from page to page without end.)                                           *)
ListIsCurrent ==
    mounted /\ ~raced =>
        /\ InFlight(loads) = IF isLoading THEN {Current} ELSE {}
        /\ ~isLoading /\ ~error => analyses = Current

(* The map, whose effect cancels the load before, keeps the promise without  *)
(* that proviso: see LatestAnswer.                                           *)
MapPanel ==
    INSTANCE LatestAnswer WITH
        Questions  <- Filters,
        NoQuestion <- None,
        question   <- IF mounted THEN filters ELSE None,
        waiting    <- mapCalls # {},
        shown      <- mapData,
        failed     <- mapError
MapShowsLatest == MapPanel!Spec
=============================================================================
