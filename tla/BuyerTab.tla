------------------------------ MODULE BuyerTab -------------------------------
(* A tab that is opened for the search or for an apartment check, and may go *)
(* on from the search, with its map, to the check.                           *)
(*                                                                           *)
(* These are the two largest pages; BrowserTab has the others.  The way back *)
(* from a check leads to a search that starts anew, and from there the check *)
(* page comes back as CheckListing!Refresh has it, so that it is left out.   *)
EXTENDS CheckListing

VARIABLES
    at,    \* the page shown
    \* SearchPage
    filters, page, analyses, totalPages, searchLoading, searchError, loads,
    mapCalls, mapData, mapError, compareIds, raced,
    visibleLayers, mapPhase, sources, markers, skipped

Search == INSTANCE SearchPage WITH
    mounted <- at = "search", isLoading <- searchLoading, error <- searchError

searchVars == <<filters, page, analyses, totalPages, searchLoading, searchError, loads,
                mapCalls, mapData, mapError, compareIds, raced,
                visibleLayers, mapPhase, sources, markers, skipped>>
tabVars    == <<at, vars, searchVars>>

TabInit == at = "none" /\ Init /\ Search!PageInit

\* The check page, with or without a draft in its address.
OpenCheck ==
    /\ at = "none" /\ at' = "check"
    /\ UNCHANGED <<vars, searchVars>>

\* The search page is opened, used, and left for the check page or another one.  Its
\* links to the check name no draft.
SearchStep ==
    /\ at # "check" /\ ~draftInUrl
    /\ at' \in {"none", "search", "check"}
    /\ at = "none" => at' = "search"
    /\ UNCHANGED vars
    /\ Search!PageNext

CheckStep ==
    /\ at = "check"
    /\ UNCHANGED <<at, searchVars>>
    /\ Next

TabNext == OpenCheck \/ SearchStep \/ CheckStep

TabSpec == TabInit /\ [][TabNext]_tabVars

-----------------------------------------------------------------------------
(* Types of the variables, that there is a map exactly where it belongs, and *)
(* that a page not shown is as it is before it is opened.                    *)
TabTypeOK ==
    /\ at \in {"none", "search", "check"}
    /\ IF at = "search" THEN Search!PageTypeOK ELSE Search!PageInit
    /\ IF at = "check" THEN TypeOK ELSE Init

(* The map draws the features of the filters with the layers that are        *)
(* switched on: see SearchPage.                                              *)
MapDrawsFilters == Search!MapDrawsFilters

(* The map is moved to what it draws: see PropertyMap.                       *)
FramedIsDrawn == at = "search" => Search!FramedIsDrawn
=============================================================================
