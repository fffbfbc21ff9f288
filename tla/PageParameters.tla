--------------------------- MODULE PageParameters ---------------------------
(* The parameters of the page modules.  They are declared together, and the  *)
(* assumptions on them stated, because BrowserTab and BuyerTab put the pages *)
(* side by side: each page reads its own section, and some share a bound.    *)
EXTENDS Naturals, FiniteSets

CONSTANTS
    None,          \* no value
    Listings       \* listings that may be picked and compared

CONSTANTS          \* ListingSearch
    Filters,       \* sets of search filters
    DefaultFilters,
    MaxPage,       \* the highest page number
    TotalPages,    \* how many pages of listings match some filters
    MaxPicked,     \* how many listings may be picked for a comparison (4 in the code)
    MaxLoads       \* bound: loads of one question in flight

ASSUME SearchAssumption ==
    /\ None \notin Filters
    /\ DefaultFilters \in Filters
    /\ MaxPage \in Nat \ {0}
    /\ TotalPages \in [Filters -> 0..MaxPage]
    /\ IsFiniteSet(Listings)
    /\ MaxPicked \in Nat /\ MaxLoads \in Nat

CONSTANTS            \* ComparePage
    Gone,            \* the listings that are no longer available
    Purposes,        \* what the apartment is bought for
    MaxCompare,      \* MAX_COMPARE_ITEMS
    FollowUps,       \* what may be asked about a comparison: a verdict, a shortlist
    MaxInitialLoads  \* bound: initial loads in flight

ASSUME CompareAssumption ==
    /\ None \notin Purposes
    /\ \A s \in SUBSET Listings, p \in Purposes : None # [ids |-> s, purpose |-> p]
    /\ IsFiniteSet(Listings) /\ Gone \subseteq Listings
    /\ "self" \in Purposes
    /\ MaxCompare \in Nat \ {0, 1} /\ MaxInitialLoads \in Nat

CONSTANTS          \* CheckListing
    Details,       \* what may be entered for an apartment's required fields
    Drafts,        \* ids of drafts the server creates for analyses
    PageDraft,     \* the draft named in the page's address, when there is one
    PageDetails,   \* what was entered for that draft
    PageIntent     \* the purpose it was analysed for

ASSUME CheckAssumption ==
    /\ None \notin Details \cup Drafts \cup {PageDraft}
    /\ PageDraft \notin Drafts
    /\ PageDetails \in Details
    /\ PageIntent \in {"unsure", "stated"}

CONSTANT Toggles   \* PropertyMap.  Bound: the switches of layers that are used

CONSTANTS          \* SavedApartments and AlertsPage
    Apartments,    \* each with a draft, a favourite, or both
    Alerts,        \* ids of alerts
    Settings,      \* what may be set for an alert: frequency, channel, target, paused
    MaxCalls       \* bound: requests in flight of these and the check page, loads of the
                   \* saved apartments and of the draft to check aside

ASSUME SavedAssumption ==
    /\ \A s \in SUBSET Apartments : s # None
    /\ None \notin [stage : {"lists", "previews"},
                    read : [{"drafts", "favorites", "alerts"} -> {None} \cup SUBSET Apartments]]
    /\ None \notin Alerts \cup Settings
    /\ MaxCalls \in Nat

CONSTANTS          \* AgencyConsole
    Agencies, Clients,
    AgencyOf,      \* the agency a client belongs to
    MaxThreads     \* bound: handlers in progress of each half, and when one of the workspace starts

ASSUME ConsoleAssumption ==
    /\ None \notin Agencies \cup Clients
    /\ AgencyOf \in [Clients -> Agencies]
    /\ MaxThreads \in Nat

CONSTANTS          \* AdminEditor
    Entries,       \* sources, or investments: ids
    EditorLoads,   \* loads that may be in flight at once
    MaxSaves       \* bound: saves in flight

ASSUME EditorAssumption ==
    /\ None \notin Entries
    /\ MaxSaves \in Nat

CONSTANTS          \* DataDeletion
    Handlers,      \* requests the server works on at once
    DeletionLoads, \* loads of the page that may be in flight at once
    MaxCrashes     \* bound: handlers that die after they have deleted

ASSUME DeletionAssumption ==
    /\ None \notin {"open", "processed", "rejected"}
    /\ \A s \in {"open", "processed", "rejected"}, d \in BOOLEAN :
          None # [status |-> s, deleted |-> d]
    /\ MaxCrashes \in Nat
=============================================================================
