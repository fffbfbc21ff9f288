--------------------------- MODULE SavedApartments --------------------------
(* The page of saved apartments: checked drafts, favourites, and which of    *)
(* them are tracked.                                                         *)
(*                                                                           *)
(* A load reads three lists, then previews the alerts of the third; a newer  *)
(* load makes the answers of the older one ignored (loadRequestRef).         *)
(* Removing an apartment takes one request or two, tracking it takes one,    *)
(* and neither is ordered with the loads: each is answered after the server  *)
(* has done it, and the page then edits the lists it holds.                  *)
EXTENDS PageParameters

VARIABLES
    mounted,       \* the page is on screen
    stored,        \* what the server holds: drafts, favorites and alerts
    drafts, favorites, watched,       \* what the page holds
    isLoading, error, authRequired,
    loading,       \* what the current load has read, when there is one
    calls,         \* removals and trackings in flight
    overtaken,     \* history: a call was answered during the current or last load
    partial        \* history: the last load did not get the alerts

heldVars  == <<drafts, favorites, watched>>
stateVars == <<isLoading, error, authRequired>>
vars == <<mounted, stored, heldVars, stateVars, loading, calls, overtaken, partial>>

Lists  == {"drafts", "favorites", "alerts"}
Stores == [Lists -> SUBSET Apartments]
Unread == [list \in Lists |-> None]
Loads  == [stage: {"lists", "previews"}, read: [Lists -> {None} \cup SUBSET Apartments]]

\* `at` is the list the request in flight changes, `done` says that the server has done so.
Calls ==
    [op: {"checked"}, id: Apartments, favorite: BOOLEAN, at: {"drafts", "favorites"},
     done: BOOLEAN]
        \cup [op: {"favorite"}, id: Apartments, favorite: {TRUE}, at: {"favorites"},
              done: BOOLEAN]
        \cup [op: {"track"}, id: Apartments, favorite: {FALSE}, at: {"alerts"}, done: BOOLEAN]

NothingStored == [list \in Lists |-> {}]

\* The cards are shown, and their buttons with them.
Shown == mounted /\ ~authRequired /\ ~error /\ ~isLoading

Init ==
    /\ mounted = FALSE
    /\ stored = NothingStored
    /\ drafts = {} /\ favorites = {} /\ watched = {}
    /\ isLoading = FALSE /\ error = FALSE /\ authRequired = FALSE
    /\ loading = None /\ calls = {}
    /\ overtaken = FALSE /\ partial = FALSE

-----------------------------------------------------------------------------
(* Loading. *)

\* requestId = ++loadRequestRef.current: the load before will be ignored.
load ==
    /\ loading' = [stage |-> "lists", read |-> Unread]
    /\ isLoading' = TRUE
    /\ error' = FALSE /\ authRequired' = FALSE
    /\ overtaken' = FALSE

Mount(s) ==
    /\ ~mounted
    /\ mounted' = TRUE
    /\ stored' = s
    /\ load
    /\ UNCHANGED <<heldVars, calls, partial>>

\* The refresh button, signing in, or another language.
Reload ==
    /\ mounted
    /\ load
    /\ UNCHANGED <<mounted, stored, heldVars, calls, partial>>

Unmount ==
    /\ mounted
    /\ mounted' = FALSE
    /\ stored' = NothingStored
    /\ drafts' = {} /\ favorites' = {} /\ watched' = {}
    /\ isLoading' = FALSE /\ error' = FALSE /\ authRequired' = FALSE
    /\ loading' = None /\ calls' = {}
    /\ overtaken' = FALSE /\ partial' = FALSE

\* The three requests are answered by the server one by one.
Read(list) ==
    /\ loading # None /\ loading.stage = "lists"
    /\ loading.read[list] = None
    /\ loading' = [loading EXCEPT !.read[list] = stored[list]]
    /\ UNCHANGED <<mounted, stored, heldVars, stateVars, calls, overtaken, partial>>

ShowLists ==
    /\ drafts' = loading.read["drafts"]
    /\ favorites' = loading.read["favorites"]

AllRead == /\ loading # None /\ loading.stage = "lists"
           /\ \A list \in Lists : loading.read[list] # None

\* The drafts and favourites are shown first; the page stays in its loading state until
\* every preview has come or failed.
ListsLoaded ==
    /\ AllRead
    /\ ShowLists
    /\ loading' = [stage |-> "previews", read |-> [Unread EXCEPT !["alerts"] = loading.read["alerts"]]]
    /\ UNCHANGED <<mounted, stored, watched, stateVars, calls, overtaken, partial>>

PreviewsLoaded ==
    /\ loading # None /\ loading.stage = "previews"
    /\ watched' = loading.read["alerts"]
    /\ isLoading' = FALSE /\ loading' = None
    /\ partial' = FALSE
    /\ UNCHANGED <<mounted, stored, drafts, favorites, error, authRequired, calls, overtaken>>

\* Without the alerts nothing counts as tracked.
AlertsUnavailable ==
    /\ AllRead
    /\ ShowLists
    /\ \/ watched' = {} /\ UNCHANGED authRequired
       \/ authRequired' = TRUE /\ UNCHANGED watched
    /\ isLoading' = FALSE /\ loading' = None
    /\ partial' = TRUE
    /\ UNCHANGED <<mounted, stored, error, calls, overtaken>>

LoadFails ==
    /\ loading # None /\ loading.stage = "lists"
    /\ \/ error' = TRUE /\ UNCHANGED authRequired
       \/ authRequired' = TRUE /\ UNCHANGED error
    /\ isLoading' = FALSE /\ loading' = None
    /\ UNCHANGED <<mounted, stored, heldVars, calls, overtaken, partial>>

-----------------------------------------------------------------------------
(* Removing and tracking. *)

Send(c) ==
    /\ Cardinality(calls) < MaxCalls
    /\ c \notin calls
    /\ calls' = calls \cup {c}
    /\ error' = FALSE
    /\ UNCHANGED <<mounted, stored, heldVars, isLoading, authRequired, loading, overtaken,
                   partial>>

\* A checked apartment's draft is deleted first, its favourite after that.
remove(a) ==
    /\ Shown
    /\ \/ /\ a \in drafts
          /\ Send([op |-> "checked", id |-> a, favorite |-> a \in favorites, at |-> "drafts",
                   done |-> FALSE])
       \/ /\ a \in favorites \ drafts
          /\ Send([op |-> "favorite", id |-> a, favorite |-> TRUE, at |-> "favorites",
                   done |-> FALSE])

track(a) ==
    /\ Shown
    /\ a \in drafts \cup favorites
    /\ Send([op |-> "track", id |-> a, favorite |-> FALSE, at |-> "alerts", done |-> FALSE])

\* The server does what the request asks for, unless what is to be deleted is gone: see
\* CallFails.
Served(c) ==
    /\ ~c.done
    /\ c.op = "track" \/ c.id \in stored[c.at]
    /\ stored' = [stored EXCEPT ![c.at] = IF c.op = "track" THEN @ \cup {c.id} ELSE @ \ {c.id}]
    /\ calls' = (calls \ {c}) \cup {[c EXCEPT !.done = TRUE]}
    /\ UNCHANGED <<mounted, heldVars, stateVars, loading, overtaken, partial>>

\* await api.deleteFavorite, after the draft's deletion.
FavoriteNext(c) ==
    /\ c.done
    /\ c.op = "checked" /\ c.at = "drafts" /\ c.favorite
    /\ calls' = (calls \ {c}) \cup {[c EXCEPT !.at = "favorites", !.done = FALSE]}
    /\ UNCHANGED <<mounted, stored, heldVars, stateVars, loading, overtaken, partial>>

Finished(c) ==
    /\ calls' = calls \ {c}
    /\ overtaken' = (overtaken \/ loading # None)
    /\ UNCHANGED <<mounted, stored, stateVars, loading, partial>>

\* Mutant of Removed: the favourite of a checked apartment is left.
MutantRemoved(c) ==
    /\ c.done /\ c.op # "track"
    /\ c.op = "checked" /\ c.favorite => c.at = "favorites"
    /\ drafts' = IF c.op = "checked" THEN drafts \ {c.id} ELSE drafts
    /\ favorites' = IF c.op = "favorite" THEN favorites \ {c.id} ELSE favorites
    /\ UNCHANGED watched
    /\ Finished(c)

Removed(c) ==
    /\ c.done /\ c.op # "track"
    /\ c.op = "checked" /\ c.favorite => c.at = "favorites"
    /\ drafts' = IF c.op = "checked" THEN drafts \ {c.id} ELSE drafts
    /\ favorites' = IF c.favorite THEN favorites \ {c.id} ELSE favorites
    /\ UNCHANGED watched
    /\ Finished(c)

Tracked(c) ==
    /\ c.done /\ c.op = "track"
    /\ watched' = watched \cup {c.id}
    /\ UNCHANGED <<drafts, favorites>>
    /\ Finished(c)

\* Refused, lost on the way, or done but not answered.
CallFails(c) ==
    /\ calls' = calls \ {c}
    /\ \/ error' = TRUE /\ UNCHANGED authRequired
       \/ c.op = "track" /\ authRequired' = TRUE /\ UNCHANGED error
    /\ UNCHANGED <<mounted, stored, heldVars, isLoading, loading, overtaken, partial>>

Next ==
    \/ \E s \in Stores : Mount(s)
    \/ Reload
    \/ Unmount
    \/ \E list \in Lists : Read(list)
    \/ ListsLoaded
    \/ PreviewsLoaded
    \/ AlertsUnavailable
    \/ LoadFails
    \/ \E a \in Apartments : remove(a) \/ track(a)
    \/ \E c \in calls :
          Served(c) \/ FavoriteNext(c) \/ Removed(c) \/ Tracked(c) \/ CallFails(c)

Spec == Init /\ [][Next]_vars

-----------------------------------------------------------------------------
(* Types of the variables. *)
TypeOK ==
    /\ mounted \in BOOLEAN
    /\ stored \in Stores
    /\ drafts \subseteq Apartments /\ favorites \subseteq Apartments
    /\ watched \subseteq Apartments
    /\ isLoading \in BOOLEAN /\ error \in BOOLEAN /\ authRequired \in BOOLEAN
    /\ loading \in {None} \cup Loads
    /\ calls \subseteq Calls
    /\ overtaken \in BOOLEAN /\ partial \in BOOLEAN

(* A card stands for something the server still holds, or is being removed:  *)
(* a removal that fails half-way leaves no card of a deleted draft in sight. *)
(* (Unless the removal was answered during a load, which may have read the   *)
(* lists before it.)                                                         *)
NoGhosts ==
    Shown /\ ~overtaken =>
        \A a \in Apartments :
            \/ /\ a \in drafts => a \in stored["drafts"]
               /\ a \in favorites => a \in stored["favorites"]
            \/ \E c \in calls : c.id = a /\ c.op # "track"

(* An apartment shown as not tracked is not tracked, or is just being: what  *)
(* the page says is not older than its last load.                            *)
TrackingShown ==
    Shown /\ ~overtaken /\ ~partial =>
        \A a \in stored["alerts"] \ watched : \E c \in calls : c.id = a /\ c.op = "track"

(* What the page shows is what the server holds.                             *)
ShownIsStored == NoGhosts /\ TrackingShown
=============================================================================
