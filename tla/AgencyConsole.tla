---------------------------- MODULE AgencyConsole ---------------------------
(* The professional tools of the account page: the agencies of the user, the *)
(* one selected, and the clients (CRM) of that one.                          *)
(*                                                                           *)
(* Every handler is a thread of requests made one after another, with the    *)
(* agency and the client it was started with.  Two flags disable buttons:    *)
(* agencyBusy those of the workspace, crmBusy those of the clients; each is  *)
(* set when a thread starts and cleared when any thread of its half ends.    *)
(* An effect loads the clients whenever another agency becomes the selected  *)
(* one or the language changes, whatever is in flight.                       *)
EXTENDS PageParameters

VARIABLES
    mounted,           \* the tools are open
    agencies,          \* the agencies listed
    selectedAgency,
    agencyBusy,
    workspaceThreads,  \* handlers of the workspace in progress
    clientsOf,         \* the agency whose clients are listed
    selectedClient,
    sharePreview,      \* the client whose shortlist is previewed
    crmBusy,
    crmThreads,        \* handlers of the clients in progress
    workspaceRaced,    \* history: a handler of the workspace was started beside another
    crmStale           \* history: what is listed may not be the selected agency's

workspaceVars == <<agencies, agencyBusy, workspaceThreads, workspaceRaced>>
crmVars       == <<clientsOf, selectedClient, sharePreview, crmBusy, crmThreads, crmStale>>
vars == <<mounted, selectedAgency, workspaceVars, crmVars>>

ClientsOf(a) == {c \in Clients : AgencyOf[c] = a}

\* What a handler of the workspace is waiting for.
WorkspaceThreads ==
    [op: {"load", "select", "member", "create"}, agency: Agencies \cup {None},
     stage: {"write", "list", "get", "refresh"}]

\* What a handler of the clients is waiting for; `preview` if it ends with a preview.
CrmThreads ==
    [op: {"load", "select", "write", "preview"}, agency: Agencies,
     client: Clients \cup {None}, stage: {"write", "list", "detail", "preview"},
     preview: BOOLEAN]

Init ==
    /\ mounted = FALSE
    /\ agencies = {} /\ selectedAgency = None
    /\ agencyBusy = FALSE /\ workspaceThreads = {} /\ workspaceRaced = FALSE
    /\ clientsOf = None /\ selectedClient = None /\ sharePreview = None
    /\ crmBusy = FALSE /\ crmThreads = {} /\ crmStale = FALSE

-----------------------------------------------------------------------------
(* Threads. *)

StartWorkspace(t) ==
    /\ Cardinality(workspaceThreads) + Cardinality(crmThreads) < MaxThreads
    /\ t \notin workspaceThreads
    /\ workspaceThreads' = workspaceThreads \cup {t}
    /\ agencyBusy' = TRUE
    /\ workspaceRaced' = (workspaceThreads # {})

\* The next request of thread t, or the end of it: the finally block.
NextRequest(t, u) == workspaceThreads' = (workspaceThreads \ {t}) \cup {u}
EndWorkspace(t) ==
    /\ workspaceThreads' = workspaceThreads \ {t}
    /\ agencyBusy' = FALSE

StartCrm(t) ==
    /\ Cardinality(crmThreads) < MaxThreads
    /\ t \notin crmThreads
    /\ crmThreads' = crmThreads \cup {t}
    /\ crmBusy' = TRUE
    /\ crmStale' = ((crmStale /\ t.stage # "list") \/ crmThreads # {})

\* Mutant of LoadClients: the preview of a shortlist stays.
MutantLoadClients(a) ==
    /\ StartCrm([op |-> "load", agency |-> a, client |-> None, stage |-> "list",
                 preview |-> FALSE])
    /\ UNCHANGED sharePreview

\* loadCrmForAgency, without the client to prefer: the one of thread t is not read again.
LoadClients(a) ==
    /\ StartCrm([op |-> "load", agency |-> a, client |-> None, stage |-> "list",
                 preview |-> FALSE])
    /\ sharePreview' = None

\* The effect on selectedAgencyId.
SelectedBecomes(a) ==
    /\ selectedAgency' = a
    /\ IF a = selectedAgency
       THEN UNCHANGED crmVars
       ELSE IF a = None
       THEN /\ clientsOf' = None /\ selectedClient' = None /\ sharePreview' = None
            /\ crmStale' = (crmThreads # {})
            /\ UNCHANGED <<crmBusy, crmThreads>>
       ELSE /\ LoadClients(a)
            /\ UNCHANGED <<clientsOf, selectedClient>>

-----------------------------------------------------------------------------
(* The workspace. *)

\* Opening the tools; the toolbar's refresh button, which no flag disables.
loadAgencyWorkspace ==
    /\ StartWorkspace([op |-> "load", agency |-> selectedAgency, stage |-> "list"])
    /\ mounted' = TRUE
    /\ UNCHANGED <<selectedAgency, agencies, crmVars>>

Unmount ==
    /\ mounted
    /\ mounted' = FALSE
    /\ agencies' = {} /\ selectedAgency' = None
    /\ agencyBusy' = FALSE /\ workspaceThreads' = {} /\ workspaceRaced' = FALSE
    /\ clientsOf' = None /\ selectedClient' = None /\ sharePreview' = None
    /\ crmBusy' = FALSE /\ crmThreads' = {} /\ crmStale' = FALSE

selectAgency(a) ==
    /\ a \in agencies /\ ~agencyBusy
    /\ StartWorkspace([op |-> "select", agency |-> a, stage |-> "get"])
    /\ UNCHANGED <<mounted, selectedAgency, agencies, crmVars>>

createAgency ==
    /\ mounted /\ ~agencyBusy
    /\ StartWorkspace([op |-> "create", agency |-> None, stage |-> "write"])
    /\ UNCHANGED <<mounted, selectedAgency, agencies, crmVars>>

\* addMember, updateMemberRole, updateMemberStatus and removeMember.
changeMember ==
    /\ selectedAgency # None /\ ~agencyBusy
    /\ StartWorkspace([op |-> "member", agency |-> selectedAgency, stage |-> "write"])
    /\ UNCHANGED <<mounted, selectedAgency, agencies, crmVars>>

\* listAgencies: which agencies the user belongs to is the server's to say.
AgenciesListed(t, list) ==
    /\ t.stage = "list"
    /\ agencies' = list
    /\ \/ /\ t.op = "create"
          /\ EndWorkspace(t)
          /\ UNCHANGED <<selectedAgency, crmVars>>
       \/ /\ t.op = "load" /\ list = {}
          /\ EndWorkspace(t)
          /\ SelectedBecomes(None)
       \/ /\ t.op = "load"
          /\ \E a \in IF t.agency \in list THEN {t.agency} ELSE list :
                NextRequest(t, [t EXCEPT !.agency = a, !.stage = "get"])
          /\ UNCHANGED <<selectedAgency, agencyBusy, crmVars>>
    /\ UNCHANGED <<mounted, workspaceRaced>>

AgencyLoaded(t) ==
    /\ t.stage = "get"
    /\ SelectedBecomes(t.agency)
    /\ EndWorkspace(t)
    /\ UNCHANGED <<mounted, agencies, workspaceRaced>>

AgencyCreated(t, a) ==
    /\ t.stage = "write" /\ t.op = "create"
    /\ a \notin agencies
    /\ SelectedBecomes(a)
    /\ NextRequest(t, [t EXCEPT !.agency = a, !.stage = "list"])
    /\ UNCHANGED <<mounted, agencies, agencyBusy, workspaceRaced>>

MemberChanged(t) ==
    /\ t.stage = "write" /\ t.op = "member"
    /\ NextRequest(t, [t EXCEPT !.stage = "refresh"])
    /\ UNCHANGED <<mounted, agencies, selectedAgency, agencyBusy, workspaceRaced, crmVars>>

\* Mutant of AgencyRefreshed: the first agency of the list is selected.
MutantAgencyRefreshed(t, list) ==
    /\ t.stage = "refresh"
    /\ agencies' = list
    /\ \E a \in list : SelectedBecomes(a)
    /\ EndWorkspace(t)
    /\ UNCHANGED <<mounted, workspaceRaced>>

\* refreshAgency: the agency the handler was started with becomes the selected one.
AgencyRefreshed(t, list) ==
    /\ t.stage = "refresh"
    /\ agencies' = list
    /\ SelectedBecomes(t.agency)
    /\ EndWorkspace(t)
    /\ UNCHANGED <<mounted, workspaceRaced>>

WorkspaceFails(t) ==
    /\ EndWorkspace(t)
    /\ UNCHANGED <<mounted, agencies, selectedAgency, workspaceRaced, crmVars>>

-----------------------------------------------------------------------------
(* The clients. *)

CrmReady == selectedAgency # None /\ ~crmBusy

\* The refresh button; a change of language runs the effect whatever is in flight.
refreshCrm ==
    /\ CrmReady
    /\ StartCrm([op |-> "load", agency |-> selectedAgency, client |-> selectedClient,
                 stage |-> "list", preview |-> FALSE])
    /\ sharePreview' = None
    /\ UNCHANGED <<mounted, selectedAgency, workspaceVars, clientsOf, selectedClient>>

ChangeLocale ==
    /\ selectedAgency # None
    /\ LoadClients(selectedAgency)
    /\ UNCHANGED <<mounted, selectedAgency, workspaceVars, clientsOf, selectedClient>>

selectCrmClient(c) ==
    /\ CrmReady
    /\ c \in ClientsOf(clientsOf)
    /\ StartCrm([op |-> "select", agency |-> selectedAgency, client |-> c,
                 stage |-> "detail", preview |-> FALSE])
    /\ sharePreview' = None
    /\ UNCHANGED <<mounted, selectedAgency, workspaceVars, clientsOf, selectedClient>>

\* updateCrmClientStatus and createCrmNote; createCrmShortlist and toggleCrmShortlistShare
\* drop the preview, and end with one if the shortlist is shared.
changeCrmClient(shared) ==
    /\ CrmReady /\ selectedClient # None
    /\ StartCrm([op |-> "write", agency |-> selectedAgency, client |-> selectedClient,
                 stage |-> "write", preview |-> shared])
    /\ sharePreview' \in IF shared THEN {None} ELSE {None, sharePreview}
    /\ UNCHANGED <<mounted, selectedAgency, workspaceVars, clientsOf, selectedClient>>

createCrmClient(c) ==
    /\ CrmReady
    /\ c \in ClientsOf(selectedAgency)
    /\ StartCrm([op |-> "write", agency |-> selectedAgency, client |-> c,
                 stage |-> "write", preview |-> FALSE])
    /\ UNCHANGED <<mounted, selectedAgency, workspaceVars, clientsOf, selectedClient,
                   sharePreview>>

previewCrmShare ==
    /\ CrmReady /\ selectedClient # None
    /\ StartCrm([op |-> "preview", agency |-> selectedAgency, client |-> selectedClient,
                 stage |-> "preview", preview |-> FALSE])
    /\ UNCHANGED <<mounted, selectedAgency, workspaceVars, clientsOf, selectedClient,
                   sharePreview>>

\* The server knows a client by its agency only.
Known(t) == AgencyOf[t.client] = t.agency

Written(t) ==
    /\ t.stage = "write" /\ Known(t)
    /\ crmThreads' = (crmThreads \ {t}) \cup {[t EXCEPT !.stage = "list"]}
    /\ crmBusy' = TRUE /\ sharePreview' = None
    /\ crmStale' = (crmStale \/ crmThreads # {t})
    /\ UNCHANGED <<mounted, selectedAgency, workspaceVars, clientsOf, selectedClient>>

\* The clients of the agency: the one preferred is selected, or the first one.  The page
\* asks for the fifty updated last (page.tsx:452); the agencies here have fewer.
ClientsListed(t) ==
    /\ t.stage = "list"
    /\ clientsOf' = t.agency
    /\ LET list == ClientsOf(t.agency)
       IN \/ /\ list # {}
             /\ \E c \in IF t.client \in list THEN {t.client} ELSE list :
                   crmThreads' = (crmThreads \ {t})
                                    \cup {[t EXCEPT !.client = c, !.stage = "detail"]}
             /\ UNCHANGED <<selectedClient, crmBusy>>
          \/ /\ list = {}
             /\ selectedClient' = None
             /\ crmThreads' = crmThreads \ {t} /\ crmBusy' = FALSE
    /\ UNCHANGED <<mounted, selectedAgency, workspaceVars, sharePreview, crmStale>>

\* The rest of thread t once its client is loaded, or could not be: the preview, if it is
\* to end with one.  The flag is cleared already.
AfterDetail(t) ==
    /\ crmThreads' = (crmThreads \ {t})
                        \cup (IF t.preview THEN {[t EXCEPT !.stage = "preview"]} ELSE {})
    /\ crmBusy' = FALSE

ClientLoaded(t) ==
    /\ t.stage = "detail" /\ Known(t)
    /\ selectedClient' = t.client
    /\ AfterDetail(t)
    /\ UNCHANGED <<mounted, selectedAgency, workspaceVars, clientsOf, sharePreview, crmStale>>

SharePreviewed(t) ==
    /\ t.stage = "preview" /\ Known(t)
    /\ sharePreview' = t.client
    /\ crmThreads' = crmThreads \ {t} /\ crmBusy' = FALSE
    /\ UNCHANGED <<mounted, selectedAgency, workspaceVars, clientsOf, selectedClient, crmStale>>

\* loadCrmForAgency reports its own failure and lets the handler that called it go on.
LoadFails(t) ==
    /\ t.stage \in {"list", "detail"}
    /\ AfterDetail(t)
    /\ crmStale' = (crmStale \/ t.op # "select")
    /\ UNCHANGED <<mounted, selectedAgency, workspaceVars, clientsOf, selectedClient,
                   sharePreview>>

CrmFails(t) ==
    /\ t.stage \in {"write", "preview"}
    /\ crmThreads' = crmThreads \ {t} /\ crmBusy' = FALSE
    /\ UNCHANGED <<mounted, selectedAgency, workspaceVars, clientsOf, selectedClient,
                   sharePreview, crmStale>>

Next ==
    \/ loadAgencyWorkspace
    \/ Unmount
    \/ \E a \in Agencies : selectAgency(a)
    \/ createAgency
    \/ changeMember
    \/ \E t \in workspaceThreads :
          \/ AgencyLoaded(t) \/ MemberChanged(t) \/ WorkspaceFails(t)
          \/ \E list \in SUBSET Agencies : AgenciesListed(t, list) \/ AgencyRefreshed(t, list)
          \/ \E a \in Agencies : AgencyCreated(t, a)
    \/ refreshCrm
    \/ ChangeLocale
    \/ \E c \in Clients : selectCrmClient(c) \/ createCrmClient(c)
    \/ \E shared \in BOOLEAN : changeCrmClient(shared)
    \/ previewCrmShare
    \/ \E t \in crmThreads :
          \/ Written(t) \/ ClientsListed(t) \/ ClientLoaded(t) \/ SharePreviewed(t)
          \/ LoadFails(t) \/ CrmFails(t)

Spec == Init /\ [][Next]_vars

-----------------------------------------------------------------------------
(* Types of the variables. *)
TypeOK ==
    /\ mounted \in BOOLEAN
    /\ agencies \subseteq Agencies /\ selectedAgency \in Agencies \cup {None}
    /\ agencyBusy \in BOOLEAN /\ workspaceRaced \in BOOLEAN
    /\ workspaceThreads \subseteq WorkspaceThreads
    /\ clientsOf \in Agencies \cup {None}
    /\ selectedClient \in Clients \cup {None}
    /\ sharePreview \in Clients \cup {None}
    /\ crmBusy \in BOOLEAN /\ crmStale \in BOOLEAN
    /\ crmThreads \subseteq CrmThreads

(* No button stays disabled for good: each flag is set only while a handler  *)
(* of its half is in progress.                                               *)
BusyOwned ==
    /\ agencyBusy => workspaceThreads # {}
    /\ crmBusy => crmThreads # {}

(* Whenever the buttons of the clients are enabled, the clients listed, the  *)
(* one selected and the preview belong to the agency whose name stands above *)
(* them, so that a note or a shortlist is never sent to another agency than  *)
(* its client's - unless two handlers overlapped (the effect starts one      *)
(* whatever is in flight) or a load failed, which leaves the former agency's *)
(* clients listed.                                                           *)
CrmOfSelected ==
    ~crmBusy /\ ~crmStale =>
        /\ clientsOf = selectedAgency
        /\ selectedClient # None => AgencyOf[selectedClient] = selectedAgency
        /\ sharePreview \in {None, selectedClient}

(* A change of a membership never moves the user to another agency, unless   *)
(* the refresh button was used during it.                                    *)
MemberKeepsSelection ==
    [][\A t \in workspaceThreads \ workspaceThreads' :
          t.op = "member" /\ mounted' /\ ~workspaceRaced => UNCHANGED selectedAgency]_vars
=============================================================================
