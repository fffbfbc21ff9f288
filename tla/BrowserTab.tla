----------------------------- MODULE BrowserTab -----------------------------
(* One tab of the frontend: a page is opened, used and left for another.     *)
(*                                                                           *)
(* The pages share nothing but what a link carries: leaving a page forgets   *)
(* its state, and the search hands the listings picked for a comparison over *)
(* in the link to the comparison page.  Of the admin page, whose sections    *)
(* share only the load that refreshes them all, one section is shown at a    *)
(* time.  BuyerTab has the check page, and the map of the search.            *)
EXTENDS PageParameters

VARIABLES
    at,     \* the page shown
    \* ListingSearch
    filters, page, analyses, totalPages, searchLoading, searchError, searchLoads,
    mapCalls, mapData, mapError, compareIds, searchRaced,
    \* ComparePage
    link, available, compared, purpose, compareLoads, comparison, compareCalls, answers,
    asking, compareError, unsynced,
    \* SavedApartments
    savedStore, drafts, favorites, watched, savedLoading, savedError, savedAuth, loading,
    savedCalls, overtaken, partial,
    \* AlertsPage
    alertStore, alerts, twice, preview, alertsLoading, alertsError, alertsAuth,
    savingAlertId, alertCalls, outdated,
    \* AgencyConsole
    agencies, selectedAgency, agencyBusy, workspaceThreads, clientsOf, selectedClient,
    sharePreview, crmBusy, crmThreads, workspaceRaced, crmStale,
    \* AdminEditor
    entryStore, entriesListed, selectedEntry, form, adminError, entryLoads, saves, hasty,
    \* DataDeletion
    draft, row, audit, handlers, crashes, requestListed, requestLoads, gone, requestRaced

searchVars   == <<filters, page, analyses, totalPages, searchLoading, searchError, searchLoads,
                  mapCalls, mapData, mapError, compareIds, searchRaced>>
compareVars  == <<link, available, compared, purpose, compareLoads, comparison, compareCalls,
                  answers, asking, compareError, unsynced>>
savedVars    == <<savedStore, drafts, favorites, watched, savedLoading, savedError, savedAuth,
                  loading, savedCalls, overtaken, partial>>
alertsVars   == <<alertStore, alerts, twice, preview, alertsLoading, alertsError, alertsAuth,
                  savingAlertId, alertCalls, outdated>>
consoleVars  == <<agencies, selectedAgency, agencyBusy, workspaceThreads, clientsOf,
                  selectedClient, sharePreview, crmBusy, crmThreads, workspaceRaced, crmStale>>
editorVars   == <<entryStore, entriesListed, selectedEntry, form, adminError, entryLoads, saves,
                  hasty>>
deletionVars == <<draft, row, audit, handlers, crashes, requestListed, requestLoads, gone,
                  requestRaced>>
vars == <<at, searchVars, compareVars, savedVars, alertsVars, consoleVars, editorVars,
          deletionVars>>

Search == INSTANCE ListingSearch WITH
    mounted <- at = "search", isLoading <- searchLoading, error <- searchError,
    loads <- searchLoads, raced <- searchRaced

Compare == INSTANCE ComparePage WITH
    mounted <- at = "compare", selected <- compared, loads <- compareLoads,
    error <- compareError

Saved == INSTANCE SavedApartments WITH
    mounted <- at = "saved", stored <- savedStore, isLoading <- savedLoading,
    error <- savedError, authRequired <- savedAuth, calls <- savedCalls

Tracked == INSTANCE AlertsPage WITH
    mounted <- at = "alerts", stored <- alertStore, isLoading <- alertsLoading,
    error <- alertsError, authRequired <- alertsAuth, calls <- alertCalls

Console == INSTANCE AgencyConsole WITH mounted <- at = "account"

Editor == INSTANCE AdminEditor WITH
    mounted <- at = "editor", stored <- entryStore, listed <- entriesListed,
    selected <- selectedEntry, error <- adminError, loads <- entryLoads, calls <- saves

Deletion == INSTANCE DataDeletion WITH
    mounted <- at = "deletion", listed <- requestListed, loads <- requestLoads,
    raced <- requestRaced

Pages == {"search", "compare", "saved", "alerts", "account", "editor", "deletion"}

Init ==
    /\ at = "none"
    /\ Search!Init /\ Compare!Init /\ Saved!Init /\ Tracked!Init
    /\ Console!Init /\ Editor!Init /\ Deletion!Init

-----------------------------------------------------------------------------
(* A step of one page leaves the others alone. *)

SearchOnly   == UNCHANGED <<compareVars, savedVars, alertsVars, consoleVars, editorVars, deletionVars>>
CompareOnly  == UNCHANGED <<searchVars, savedVars, alertsVars, consoleVars, editorVars, deletionVars>>
SavedOnly    == UNCHANGED <<searchVars, compareVars, alertsVars, consoleVars, editorVars, deletionVars>>
AlertsOnly   == UNCHANGED <<searchVars, compareVars, savedVars, consoleVars, editorVars, deletionVars>>
ConsoleOnly  == UNCHANGED <<searchVars, compareVars, savedVars, alertsVars, editorVars, deletionVars>>
EditorOnly   == UNCHANGED <<searchVars, compareVars, savedVars, alertsVars, consoleVars, deletionVars>>
DeletionOnly == UNCHANGED <<searchVars, compareVars, savedVars, alertsVars, consoleVars, editorVars>>

Open ==
    /\ at = "none"
    /\ \/ /\ at' = "search"
          /\ \E f \in Filters, p \in 1..MaxPage, switched \in BOOLEAN : Search!Mount(f, p, switched)
          /\ SearchOnly
       \/ at' = "saved" /\ (\E s \in Saved!Stores : Saved!Mount(s)) /\ SavedOnly
       \/ at' = "alerts" /\ (\E s \in Tracked!Lists : Tracked!Mount(s)) /\ AlertsOnly
       \/ at' = "account" /\ Console!loadAgencyWorkspace /\ ConsoleOnly
       \/ at' = "editor" /\ (\E ids \in SUBSET Entries : Editor!Mount(ids)) /\ EditorOnly
       \/ at' = "deletion" /\ Deletion!Mount /\ DeletionOnly

\* The comparison page, opened by a link.
OpenCompare ==
    /\ at = "none"
    /\ at' = "compare"
    /\ \E ln \in Compare!Links : Compare!Mount(ln)
    /\ CompareOnly

\* compareHref: the listings picked on the search page, at least two, name no purpose.
PickedToCompare ==
    /\ at = "search" /\ Cardinality(compareIds) >= 2
    /\ at' = "compare"
    /\ Search!Unmount
    /\ Compare!Mount([ids |-> compareIds, purpose |-> None])
    /\ UNCHANGED <<savedVars, alertsVars, consoleVars, editorVars, deletionVars>>

Leave ==
    /\ at' = "none"
    /\ \/ at = "search"   /\ Search!Unmount   /\ SearchOnly
       \/ at = "compare"  /\ Compare!Unmount  /\ CompareOnly
       \/ at = "saved"    /\ Saved!Unmount    /\ SavedOnly
       \/ at = "alerts"   /\ Tracked!Unmount  /\ AlertsOnly
       \/ at = "account"  /\ Console!Unmount  /\ ConsoleOnly
       \/ at = "editor"   /\ Editor!Unmount   /\ EditorOnly
       \/ at = "deletion" /\ Deletion!Unmount /\ DeletionOnly

Stay ==
    /\ UNCHANGED at
    /\ \/ at = "search"   /\ Search!Next   /\ SearchOnly
       \/ at = "compare"  /\ Compare!Next  /\ CompareOnly
       \/ at = "saved"    /\ Saved!Next    /\ SavedOnly
       \/ at = "alerts"   /\ Tracked!Next  /\ AlertsOnly
       \/ at = "account"  /\ Console!Next  /\ ConsoleOnly
       \/ at = "editor"   /\ Editor!Next   /\ EditorOnly
       \/ at = "deletion" /\ Deletion!Next /\ DeletionOnly

Next == Open \/ OpenCompare \/ PickedToCompare \/ Leave \/ Stay

Spec == Init /\ [][Next]_vars

-----------------------------------------------------------------------------
(* Types of the variables. *)
TypeOK ==
    /\ at \in Pages \cup {"none"}
    /\ Search!TypeOK /\ Compare!TypeOK /\ Saved!TypeOK /\ Tracked!TypeOK
    /\ Console!TypeOK /\ Editor!TypeOK /\ Deletion!TypeOK

(* What each page promises holds in the tab as well; the pages state it.     *)
(* The list is the filters' and the page's: see ListingSearch.               *)
ListIsCurrent == Search!ListIsCurrent
(* The map is the filters': see ListingSearch.                               *)
MapShowsLatest == Search!MapShowsLatest
(* The link names what is compared: see ComparePage.                         *)
LinkKeepsSelection == Compare!LinkKeepsSelection
(* The comparison is the selection's: see ComparePage.                       *)
ComparisonIsLatest == Compare!ComparisonIsLatest
(* What is shown about a comparison is about it, or late: see ComparePage.   *)
OnlyLateAnswersMix == Compare!OnlyLateAnswersMix
(* Cards, tracking and alerts are what the server holds: see SavedApartments *)
(* and AlertsPage.                                                           *)
ShownIsStored == Saved!ShownIsStored /\ Tracked!ListIsStored
(* No control stays disabled by nothing: see AgencyConsole and AlertsPage.   *)
ControlsReleased == Console!BusyOwned /\ Tracked!SavingOwned
(* The clients shown are the agency's: see AgencyConsole.                    *)
CrmOfSelected == Console!CrmOfSelected
(* Membership changes leave the selection alone: see AgencyConsole.          *)
MemberKeepsSelection == Console!MemberKeepsSelection
(* No entry gets another's data: see AdminEditor.                            *)
EntriesKeepTheirData == Editor!EntriesKeepTheirData
(* Deletions are in the audit trail: see DataDeletion.                       *)
DeletionsAudited == Deletion!DeletionsAudited
(* Rejected requests keep the draft: see DataDeletion.                       *)
RejectedKeepsDraft == Deletion!RejectedKeepsDraft
=============================================================================
