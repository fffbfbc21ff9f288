------------------------------ MODULE SearchPage -----------------------------
(* The search page with the map beside its list.                             *)
(*                                                                           *)
(* The map is there while the list is: an error, or a first load, takes it   *)
(* from the screen with the layers that were chosen.  It is given the        *)
(* features the search has loaded last, and draws them when it can.          *)
EXTENDS ListingSearch

VARIABLES visibleLayers, mapPhase, sources, markers, skipped    \* PropertyMap

Map == INSTANCE PropertyMap WITH collection <- mapData, map <- mapPhase

pageVars == <<vars, Map!ownVars>>

PageInit == Init /\ Map!Init

\* The map follows the search, and is used beside it.
PageNext ==
    \/ NewFeatures /\ Map!Follow(ListShown', TRUE)
    \/ SameFeatures /\ Map!Follow(ListShown', FALSE)
    \/ Map!Own /\ UNCHANGED vars

PageSpec == PageInit /\ [][PageNext]_pageVars

-----------------------------------------------------------------------------
(* Types of the variables, and that there is a map exactly where it belongs. *)
PageTypeOK ==
    /\ TypeOK /\ Map!TypeOK
    /\ ListShown <=> mapPhase # "off"

(* Once the filters' map has been answered for, and unless the style was     *)
(* found not loaded by the last attempt, the map that has loaded draws the   *)
(* features of the filters with the layers that are switched on, however     *)
(* often they were changed before it was made, while it was loading, or      *)
(* while the list was away.  (The style often is not loaded, and then a      *)
(* filter or a switch shows only with the next one.)                         *)
MapDrawsFilters ==
    mapPhase = "loaded" /\ mapCalls = {} /\ ~mapError /\ ~skipped =>
        /\ sources = [of |-> filters, layers |-> visibleLayers]
        /\ markers = sources

(* The map is moved to what it draws: see PropertyMap.                       *)
FramedIsDrawn == Map!FramedIsDrawn
=============================================================================
