------------------------------ MODULE AlertsPage ----------------------------
(* The page of tracked searches: the user's alerts, their settings, and the  *)
(* preview of one of them.                                                   *)
(*                                                                           *)
(* Every request is sent when its control is used, and its answer edits what *)
(* the page holds.  The only guard is savingAlertId, which names one alert   *)
(* at a time: its controls are disabled, those of the others are not, and    *)
(* the first answer clears it.  A load in flight guards nothing, and nothing *)
(* tells an older load from a newer one.                                     *)
EXTENDS PageParameters

VARIABLES
    mounted,       \* the page is on screen
    stored,        \* the alerts the server holds, and their settings
    alerts,        \* the alerts the page holds, and their settings
    twice,         \* the alerts the page lists twice
    preview,       \* the alert whose preview is shown
    isLoading, error, authRequired,
    savingAlertId,
    calls,         \* requests in flight
    outdated       \* history: what is shown may differ from what is stored

stateVars == <<isLoading, error, authRequired>>
vars == <<mounted, stored, alerts, twice, preview, stateVars, savingAlertId, calls, outdated>>

Lists    == [Alerts -> {None} \cup Settings]
NoAlerts == [a \in Alerts |-> None]
Ids(list) == {a \in Alerts : list[a] # None}

\* A request, and what the server answered once it has `done` it.
NoList == [a \in {} |-> None]
Calls ==
    [op: {"load"}, id: {None}, to: {None}, done: {FALSE}, list: {NoList}]
        \cup [op: {"load"}, id: {None}, to: {None}, done: {TRUE}, list: Lists]
        \cup [op: {"create", "update"}, id: Alerts, to: Settings, done: BOOLEAN, list: {NoList}]
        \cup [op: {"delete", "preview"}, id: Alerts, to: {None}, done: BOOLEAN, list: {NoList}]

Request(op, a, s) == [op |-> op, id |-> a, to |-> s, done |-> FALSE, list |-> NoList]

\* Two requests whose answers may not be taken in any order.
Conflict(c, d) == "load" \in {c.op, d.op} \/ c.id = d.id

Visible == mounted /\ ~authRequired
\* The alerts are listed even while they are being loaded again.
Listed(a) == Visible /\ ~error /\ a \in Ids(alerts)

Init ==
    /\ mounted = FALSE
    /\ stored = NoAlerts /\ alerts = NoAlerts /\ twice = {}
    /\ preview = None
    /\ isLoading = FALSE /\ error = FALSE /\ authRequired = FALSE
    /\ savingAlertId = None
    /\ calls = {}
    /\ outdated = FALSE

-----------------------------------------------------------------------------
(* Sending. *)

Send(c) ==
    /\ Cardinality(calls) < MaxCalls
    /\ c \notin calls
    /\ calls' = calls \cup {c}
    /\ error' = FALSE

load ==
    /\ Send(Request("load", None, None))
    /\ isLoading' = TRUE /\ authRequired' = FALSE
    /\ outdated' = (outdated /\ calls # {})

Mount(s) ==
    /\ ~mounted
    /\ mounted' = TRUE
    /\ stored' = s
    /\ load
    /\ UNCHANGED <<alerts, twice, preview, savingAlertId>>

\* The refresh button, signing in, or another language.
Reload ==
    /\ mounted
    /\ load
    /\ UNCHANGED <<mounted, stored, alerts, twice, preview, savingAlertId>>

Unmount ==
    /\ mounted
    /\ mounted' = FALSE
    /\ stored' = NoAlerts /\ alerts' = NoAlerts /\ twice' = {}
    /\ preview' = None
    /\ isLoading' = FALSE /\ error' = FALSE /\ authRequired' = FALSE
    /\ savingAlertId' = None
    /\ calls' = {}
    /\ outdated' = FALSE

\* The form's button is never disabled.
createAlert(a, s) ==
    /\ Visible
    /\ a \notin Ids(stored) \cup Ids(alerts) \cup {c.id : c \in calls} \cup {preview}
    /\ Send(Request("create", a, s))
    /\ UNCHANGED <<mounted, stored, alerts, twice, preview, isLoading, authRequired,
                   savingAlertId, outdated>>

loadPreview(a) ==
    /\ Listed(a) /\ savingAlertId # a
    /\ Send(Request("preview", a, None))
    /\ UNCHANGED <<mounted, stored, alerts, twice, preview, isLoading, authRequired,
                   savingAlertId, outdated>>

updateAlertPreferences(a, s) ==
    /\ Listed(a) /\ savingAlertId # a
    /\ Send(Request("update", a, s))
    /\ savingAlertId' = a
    /\ UNCHANGED <<mounted, stored, alerts, twice, preview, isLoading, authRequired, outdated>>

deleteAlert(a) ==
    /\ Listed(a) /\ savingAlertId # a
    /\ Send(Request("delete", a, None))
    /\ savingAlertId' = a
    /\ UNCHANGED <<mounted, stored, alerts, twice, preview, isLoading, authRequired, outdated>>

-----------------------------------------------------------------------------
(* The server. *)

\* A request about an alert that is gone is refused, and so is the deletion of one that has
\* delivery jobs: see CallFails.
Served(c) ==
    /\ ~c.done
    /\ c.op \in {"update", "delete", "preview"} => c.id \in Ids(stored)
    /\ stored' = CASE c.op \in {"create", "update"} -> [stored EXCEPT ![c.id] = c.to]
                   [] c.op = "delete"               -> [stored EXCEPT ![c.id] = None]
                   [] OTHER                         -> stored
    /\ calls' = (calls \ {c})
                   \cup {[c EXCEPT !.done = TRUE,
                                   !.list = IF c.op = "load" THEN stored ELSE NoList]}
    /\ UNCHANGED <<mounted, alerts, twice, preview, stateVars, savingAlertId, outdated>>

-----------------------------------------------------------------------------
(* The answers. *)

Conflicts(c) == \E d \in calls \ {c} : Conflict(c, d)

\* A load is answered with the alerts and their delivery jobs: when the session has ended
\* before the jobs are read, the alerts are taken all the same.
Loaded(c) ==
    /\ c.op = "load" /\ c.done
    /\ alerts' = c.list /\ twice' = {}
    /\ isLoading' = FALSE
    /\ calls' = calls \ {c}
    /\ outdated' = \/ outdated \/ Conflicts(c)
                   \/ preview \notin {None} \cup Ids(c.list)
    /\ authRequired' \in {authRequired, TRUE}
    /\ UNCHANGED <<mounted, stored, preview, error, savingAlertId>>

\* The alert answered is put in front of the ones held.
Created(c) ==
    /\ c.op = "create" /\ c.done
    /\ alerts' = [alerts EXCEPT ![c.id] = c.to]
    /\ twice' = IF c.id \in Ids(alerts) THEN twice \cup {c.id} ELSE twice
    /\ calls' = calls \ {c}
    /\ outdated' = (outdated \/ Conflicts(c))
    /\ UNCHANGED <<mounted, stored, preview, stateVars, savingAlertId>>

Previewed(c) ==
    /\ c.op = "preview" /\ c.done
    /\ preview' = c.id
    /\ calls' = calls \ {c}
    /\ outdated' = (outdated \/ Conflicts(c))
    /\ UNCHANGED <<mounted, stored, alerts, twice, stateVars, savingAlertId>>

\* The finally block clears savingAlertId, whichever alert it names.
Updated(c) ==
    /\ c.op = "update" /\ c.done
    /\ alerts' = IF c.id \in Ids(alerts) THEN [alerts EXCEPT ![c.id] = c.to] ELSE alerts
    /\ savingAlertId' = None
    /\ calls' = calls \ {c}
    /\ outdated' = (outdated \/ Conflicts(c))
    /\ UNCHANGED <<mounted, stored, twice, preview, stateVars>>

Deleted(c) ==
    /\ c.op = "delete" /\ c.done
    /\ alerts' = [alerts EXCEPT ![c.id] = None]
    /\ twice' = twice \ {c.id}
    /\ preview' = IF preview = c.id THEN None ELSE preview
    /\ savingAlertId' = None
    /\ calls' = calls \ {c}
    /\ outdated' = (outdated \/ Conflicts(c))
    /\ UNCHANGED <<mounted, stored, stateVars>>

\* Mutant of CallFails: only an answer enables the controls again.
MutantCallFails(c) ==
    /\ calls' = calls \ {c}
    /\ error' = TRUE
    /\ isLoading' = IF c.op = "load" THEN FALSE ELSE isLoading
    /\ outdated' = (outdated \/ c.done \/ c.op = "load" \/ Conflicts(c))
    /\ UNCHANGED <<mounted, stored, alerts, twice, preview, authRequired, savingAlertId>>

\* Refused, lost on the way, or done but not answered.
CallFails(c) ==
    /\ calls' = calls \ {c}
    /\ \/ error' = TRUE /\ UNCHANGED authRequired
       \/ authRequired' = TRUE /\ error' = IF c.op = "load" THEN error ELSE FALSE
    /\ isLoading' = IF c.op = "load" THEN FALSE ELSE isLoading
    /\ savingAlertId' = IF c.op \in {"update", "delete"} THEN None ELSE savingAlertId
    /\ outdated' = (outdated \/ c.done \/ c.op = "load" \/ Conflicts(c))
    /\ UNCHANGED <<mounted, stored, alerts, twice, preview>>

Next ==
    \/ \E s \in Lists : Mount(s)
    \/ Reload
    \/ Unmount
    \/ \E a \in Alerts, s \in Settings : createAlert(a, s) \/ updateAlertPreferences(a, s)
    \/ \E a \in Alerts : loadPreview(a) \/ deleteAlert(a)
    \/ \E c \in calls :
          \/ Served(c) \/ CallFails(c)
          \/ Loaded(c) \/ Created(c) \/ Previewed(c) \/ Updated(c) \/ Deleted(c)

Spec == Init /\ [][Next]_vars

-----------------------------------------------------------------------------
(* Types of the variables. *)
TypeOK ==
    /\ mounted \in BOOLEAN
    /\ stored \in Lists /\ alerts \in Lists
    /\ twice \subseteq Alerts
    /\ preview \in {None} \cup Alerts
    /\ isLoading \in BOOLEAN /\ error \in BOOLEAN /\ authRequired \in BOOLEAN
    /\ savingAlertId \in {None} \cup Alerts
    /\ calls \subseteq Calls
    /\ outdated \in BOOLEAN

(* Once every request is answered, the page lists exactly the alerts the     *)
(* server holds, with their settings, each once, and previews one of them -  *)
(* provided no two requests about one alert, and nothing beside a load, were *)
(* in flight together, and no answer was lost.                               *)
ListIsStored ==
    mounted /\ calls = {} /\ ~outdated =>
        /\ alerts = stored
        /\ twice = {}
        /\ preview \in {None} \cup Ids(alerts)

(* The controls of an alert are never left disabled by nothing.              *)
SavingOwned ==
    savingAlertId # None =>
        \E c \in calls : c.id = savingAlertId /\ c.op \in {"update", "delete"}
=============================================================================
