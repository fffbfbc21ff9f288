----------------------------- MODULE PropertyMap -----------------------------
(* The map beside the list on the search page.                               *)
(*                                                                           *)
(* MapLibre is imported and created after the component has appeared, and is *)
(* filled by four effects and two events: a new collection, language or      *)
(* choice of layers, the end of loading, and a zoom.  What the events need   *)
(* is kept in refs, since they run with the state of the first render.  The  *)
(* effects give up when the style is not loaded at that moment, which a      *)
(* source that is being updated or tiles on their way are enough for, and    *)
(* nothing repeats them.                                                     *)
EXTENDS PageParameters

VARIABLES
    collection,    \* its features: the filters they were loaded for
    visibleLayers, \* the switches that are on, of the component on screen
    map,           \* how far the MapLibre map is: off without the component
    sources,       \* what the map's sources were last filled with
    markers,       \* what its markers were last made from
    skipped        \* history: the last effect, or end of loading, found the style not loaded

ownVars == <<visibleLayers, map, sources, markers, skipped>>
vars == <<collection, ownVars>>

-----------------------------------------------------------------------------
(* The features, and the switches that show them. *)

\* The second switch of a feature's type, beside the one of its group.
Administrative  == [district_boundary |-> "districts", municipality_boundary |-> "municipalities",
                    voivodeship_boundary |-> "voivodeshipBoundary"]
Planning        == [mpzp_plan_zone |-> "mpzpZones", studium_policy_zone |-> "studiumZones"]
FutureTransport == [future_tram_line |-> "futureTramLines",
                    future_bus_route |-> "futureBusRoutes",
                    future_road_corridor |-> "futureRoadCorridors"]
Risk            == [major_road_noise_zone |-> "majorRoadNoise",
                    industrial_risk_zone |-> "industrialRisk",
                    rail_noise_review_zone |-> "railAirportRisk",
                    airport_noise_review_zone |-> "railAirportRisk",
                    flood_risk_review_zone |-> "floodPollutionRisk",
                    pollution_review_zone |-> "floodPollutionRisk"]
Infrastructure  == [transport_route |-> "transportRoutes", transport_stop |-> "transportStops",
                    school |-> "schools", kindergarten |-> "kindergartens",
                    industrial_zone |-> "industrialZones"]
\* An amenity has a third one, of its kind.
Amenities       == [park |-> "amenityParks", healthcare |-> "amenityHealthcare",
                    retail |-> "amenityRetail", jobs |-> "amenityJobsEducation",
                    other |-> "amenityPublicServices"]

Switches(own) == {own[t] : t \in DOMAIN own}

DEFAULT_VISIBLE_LAYERS ==
    {"listings", "planned", "infrastructure", "amenities"}
        \cup {"districts", "municipalities"}
        \cup Switches(Planning) \cup Switches(FutureTransport) \cup Switches(Risk)
        \cup Switches(Infrastructure) \cup Switches(Amenities)
LayerKeys ==
    DEFAULT_VISIBLE_LAYERS
        \cup {"priceHeatmap", "administrative", "voivodeshipBoundary", "planning",
              "futureTransport", "riskLayers"}

\* What the server sends: types and geometries.
Feature(types, geometries, kinds) == [type: types, geometry: geometries, kind: kinds]
Features ==
    Feature({"listing", "planned_investment"}, {"Point"}, {None})
        \cup Feature(DOMAIN Administrative \cup DOMAIN Planning, {"Polygon"}, {None})
        \cup Feature(DOMAIN FutureTransport \cup {"transport_route"}, {"LineString"}, {None})
        \cup Feature(DOMAIN Risk, {"Polygon"}, {None})
        \cup Feature({"industrial_risk_zone"}, {"Point"}, {None})
        \cup Feature(DOMAIN Infrastructure \ {"transport_route"}, {"Point"}, {None})
        \cup Feature({"amenity"}, {"Point"}, DOMAIN Amenities)

\* The features of a group that its switches show.
Shown(f, group, own, V) == group \in V /\ f.type \in DOMAIN own /\ own[f.type] \in V

isAdministrativeFeatureVisible(f, V)  == Shown(f, "administrative", Administrative, V)
isPlanningFeatureVisible(f, V)        == Shown(f, "planning", Planning, V)
isFutureTransportFeatureVisible(f, V) == Shown(f, "futureTransport", FutureTransport, V)
isRiskFeatureVisible(f, V)            == Shown(f, "riskLayers", Risk, V)
isAmenityFeatureVisible(f, V)         == "amenities" \in V /\ Amenities[f.kind] \in V
isInfrastructureFeatureVisible(f, V)  ==
    \/ Shown(f, "infrastructure", Infrastructure, V)
    \/ "infrastructure" \in V /\ f.type = "amenity" /\ isAmenityFeatureVisible(f, V)

\* What the map is moved to, and what the radius panel counts.
isFeatureVisible(f, V) ==
    \/ f.type = "listing" /\ V \cap {"listings", "priceHeatmap"} # {}
    \/ f.type = "planned_investment" /\ "planned" \in V
    \/ isAdministrativeFeatureVisible(f, V)
    \/ isPlanningFeatureVisible(f, V)
    \/ isFutureTransportFeatureVisible(f, V)
    \/ isRiskFeatureVisible(f, V)
    \/ isInfrastructureFeatureVisible(f, V)

isMarkerFeatureVisible(f, V) ==
    /\ f.geometry = "Point"
    /\ \/ f.type = "listing" /\ "listings" \in V
       \/ f.type = "planned_investment" /\ "planned" \in V
       \/ isInfrastructureFeatureVisible(f, V)

\* Mutant of InSources: a route stays when the infrastructure is switched off.
MutantInSources(f, V) ==
    \/ f.type = "listing" /\ V \cap {"listings", "priceHeatmap"} # {} /\ f.geometry = "Point"
    \/ f.type = "planned_investment" /\ "planned" \in V /\ f.geometry = "Point"
    \/ isAdministrativeFeatureVisible(f, V) \/ isPlanningFeatureVisible(f, V)
    \/ isFutureTransportFeatureVisible(f, V) \/ isRiskFeatureVisible(f, V)
    \/ f.type = "transport_route" /\ "transportRoutes" \in V

\* What the layers draw of the sources, as these are filled: circles and the heatmap draw
\* points, the others, which have a line and a label, anything.
InSources(f, V) ==
    \/ f.type = "listing" /\ V \cap {"listings", "priceHeatmap"} # {} /\ f.geometry = "Point"
    \/ f.type = "planned_investment" /\ "planned" \in V /\ f.geometry = "Point"
    \/ isAdministrativeFeatureVisible(f, V) \/ isPlanningFeatureVisible(f, V)
    \/ isFutureTransportFeatureVisible(f, V) \/ isRiskFeatureVisible(f, V)
    \/ f.type = "transport_route" /\ {"infrastructure", "transportRoutes"} \subseteq V

-----------------------------------------------------------------------------
(* The map. *)

Drawn(c, V) == [of |-> c, layers |-> V]
Current     == Drawn(collection, visibleLayers)

Init ==
    /\ collection = None
    /\ visibleLayers = {}
    /\ map = "off" /\ sources = None /\ markers = None
    /\ skipped = FALSE

\* The style may be found loaded or not, once there is a map.
syncMapData(c, V) ==
    \/ /\ sources' = Drawn(c, V) /\ markers' = Drawn(c, V)
       /\ skipped' = FALSE
    \/ /\ skipped' = TRUE
       /\ UNCHANGED <<sources, markers>>

\* An effect, with what its refs hold after it.
Effect(c, V) ==
    IF map \in {"created", "loaded"} THEN syncMapData(c, V)
                                     ELSE UNCHANGED <<sources, markers, skipped>>

\* The first render starts the import; leaving removes the map, or stops it from being made.
Appear ==
    /\ map = "off" /\ map' = "importing"
    /\ visibleLayers' = DEFAULT_VISIBLE_LAYERS
    /\ UNCHANGED <<sources, markers, skipped>>

\* Mutant of Disappear: the import is not told, and makes a map for nobody.
MutantDisappear ==
    /\ map # "off"
    /\ visibleLayers' = {}
    /\ map' = IF map = "importing" THEN map ELSE "off"
    /\ sources' = None /\ markers' = None
    /\ skipped' = FALSE

Disappear ==
    /\ map # "off"
    /\ visibleLayers' = {}
    /\ map' = "off" /\ sources' = None /\ markers' = None
    /\ skipped' = FALSE

\* A new collection, be it of the same filters, or another language.
Rerender ==
    /\ map # "off"
    /\ Effect(collection', visibleLayers)
    /\ UNCHANGED <<visibleLayers, map>>

\* What becomes of the map when the page around it changes: the component is shown after
\* the change or not, and `again` with new features or in another language.
Follow(shown, again) ==
    \/ shown /\ Appear
    \/ ~shown /\ Disappear
    \/ shown /\ again /\ Rerender
    \/ shown = (map # "off") /\ (shown => ~again) /\ UNCHANGED ownVars

\* A switch of a group is disabled while the group's, or the amenities', is off.
Enabled(k) ==
    /\ k \in Switches(Administrative) => "administrative" \in visibleLayers
    /\ k \in Switches(Planning) => "planning" \in visibleLayers
    /\ k \in Switches(FutureTransport) => "futureTransport" \in visibleLayers
    /\ k \in Switches(Risk) => "riskLayers" \in visibleLayers
    /\ k \in Switches(Infrastructure) \cup Switches(Amenities) \cup {"amenities"} =>
          "infrastructure" \in visibleLayers
    /\ k \in Switches(Amenities) => "amenities" \in visibleLayers

updateVisibleLayer(k) ==
    /\ map # "off" /\ k \in LayerKeys /\ Enabled(k)
    /\ visibleLayers' = IF k \in visibleLayers THEN visibleLayers \ {k}
                                            ELSE visibleLayers \cup {k}
    /\ Effect(collection, visibleLayers')
    /\ UNCHANGED <<collection, map>>

\* The import answers while the component is there: see Disappear.
initializeMap ==
    /\ map = "importing"
    /\ map' = "created"
    /\ UNCHANGED <<collection, visibleLayers, sources, markers, skipped>>

\* Mutant of LoadEvent: the layers of the first render are drawn.
MutantLoadEvent ==
    /\ map = "created"
    /\ map' = "loaded"
    /\ syncMapData(collection, DEFAULT_VISIBLE_LAYERS)
    /\ UNCHANGED <<collection, visibleLayers>>

\* The event "load": the refs are read, and the style may be busy with the new sources.
LoadEvent ==
    /\ map = "created"
    /\ map' = "loaded"
    /\ syncMapData(collection, visibleLayers)
    /\ UNCHANGED <<collection, visibleLayers>>

\* The event "zoomend" makes the markers anew, whatever the style is doing.
syncVisibleMarkers ==
    /\ map \in {"created", "loaded"}
    /\ markers' = Current
    /\ UNCHANGED <<collection, visibleLayers, map, sources, skipped>>

Own ==
    \/ \E k \in Toggles : updateVisibleLayer(k)
    \/ initializeMap \/ LoadEvent \/ syncVisibleMarkers

Next ==
    \/ Own
    \/ /\ collection' \in Filters \cup {None}
       /\ \E shown, again \in BOOLEAN :
             Follow(shown, again) /\ (again \/ ~shown \/ UNCHANGED collection)

Spec == Init /\ [][Next]_vars

-----------------------------------------------------------------------------
(* Types of the variables. *)
TypeOK ==
    /\ skipped \in BOOLEAN
    /\ collection \in Filters \cup {None}
    /\ visibleLayers \subseteq LayerKeys
    /\ map \in {"off", "importing", "created", "loaded"}
    /\ sources \in {None} \cup [of: Filters \cup {None}, layers: SUBSET LayerKeys]
    /\ markers \in {None} \cup [of: Filters \cup {None}, layers: SUBSET LayerKeys]

(* Nothing that changes before the map has been made and loaded is lost: the *)
(* sources are filled with the current features and switches, and so are the *)
(* markers, unless the style was found not loaded by the last attempt.  (It  *)
(* often is, and then a filter or switch shows only with the next one.)      *)
DrawnIsCurrent ==
    ~skipped =>
        /\ map = "loaded" \/ sources # None => sources = Current
        /\ map = "loaded" \/ markers # None => markers = Current

(* The map is moved to what it draws, and the radius panel counts that: no   *)
(* feature is framed and counted that neither a source nor a marker shows,   *)
(* and none is shown that is not, whatever the switches.                     *)
FramedIsDrawn ==
    \A f \in Features :
        isFeatureVisible(f, visibleLayers)
            <=> InSources(f, visibleLayers) \/ isMarkerFeatureVisible(f, visibleLayers)
=============================================================================
