---------------------------- MODULE DataDeletion ----------------------------
(* One request to delete a user's draft: the section of the admin page that  *)
(* creates and resolves it, and the server's handlers.                       *)
(*                                                                           *)
(* The handler tests that the request is open, deletes the draft, marks the  *)
(* request and writes the audit entry, each committed on its own and nothing *)
(* locked in between; it does not look at the status again.  The page's      *)
(* buttons stay enabled until the lists have been loaded again, and another  *)
(* admin's page may be older still.                                          *)
EXTENDS PageParameters

VARIABLES
    mounted,      \* the admin page is on screen
    draft,        \* the draft is stored
    row,          \* the request: its status, and the result recorded
    audit,        \* what the audit entries say of it
    handlers,     \* the state of each handler
    crashes,      \* handlers that died after they had deleted the draft
    listed,       \* the status the page shows
    loads,        \* what each load in flight has read
    gone,         \* history: a handler deleted the draft
    raced         \* history: two handlers found the request open

serverVars == <<draft, row, audit, handlers, crashes, gone, raced>>
vars == <<mounted, serverVars, listed, loads>>

Resolutions == {"processed", "rejected"}
Statuses    == Resolutions \cup {"open"}

\* result_payload.target_deleted, false as well when it is absent.
Results == [status: Statuses, deleted: BOOLEAN]

Idle     == [pc |-> "idle", by |-> "page", status |-> "rejected", execute |-> FALSE,
             deleted |-> FALSE]
HandlerStates ==
    [pc: {"idle", "get", "find", "delete", "mark", "audit", "answer"}, by: {"page", "other"},
     status: Resolutions, execute: BOOLEAN, deleted: BOOLEAN]

NotLoading == [stage |-> "idle", status |-> None]
LoadStates == [stage: {"idle", "asked", "read"}, status: Statuses \cup {None}]

Status == IF row = None THEN None ELSE row.status

Init ==
    /\ mounted = FALSE
    /\ draft = FALSE /\ row = None /\ audit = {}
    /\ handlers = [h \in Handlers |-> Idle] /\ crashes = 0
    /\ listed = None /\ loads = [l \in DeletionLoads |-> NotLoading]
    /\ gone = FALSE /\ raced = FALSE

-----------------------------------------------------------------------------
(* The page. *)

load == \E l \in DeletionLoads :
            /\ loads[l] = NotLoading
            /\ loads' = [loads EXCEPT ![l] = [stage |-> "asked", status |-> None]]

Mount ==
    /\ ~mounted
    /\ mounted' = TRUE
    /\ draft' = TRUE
    /\ load
    /\ UNCHANGED <<row, audit, handlers, crashes, gone, raced, listed>>

\* Another visit is about another request.
Unmount ==
    /\ mounted
    /\ mounted' = FALSE
    /\ draft' = FALSE /\ row' = None /\ audit' = {}
    /\ handlers' = [h \in Handlers |-> Idle] /\ crashes' = 0
    /\ listed' = None /\ loads' = [l \in DeletionLoads |-> NotLoading]
    /\ gone' = FALSE /\ raced' = FALSE

Reload ==
    /\ mounted
    /\ load
    /\ UNCHANGED <<mounted, serverVars, listed>>

Read(l) ==
    /\ loads[l].stage = "asked"
    /\ loads' = [loads EXCEPT ![l] = [stage |-> "read", status |-> Status]]
    /\ UNCHANGED <<mounted, serverVars, listed>>

Loaded(l) ==
    /\ loads[l].stage = "read"
    /\ listed' = loads[l].status
    /\ loads' = [loads EXCEPT ![l] = NotLoading]
    /\ UNCHANGED <<mounted, serverVars>>

\* The error hides the section until the next load; that its buttons are gone meanwhile
\* is left out.
LoadFails(l) ==
    /\ loads[l] # NotLoading
    /\ loads' = [loads EXCEPT ![l] = NotLoading]
    /\ UNCHANGED <<mounted, serverVars, listed>>

\* The request is stored before the draft's owner or an admin does anything else to it.
createDataDeletionRequest ==
    /\ mounted /\ row = None
    /\ row' = [status |-> "open", deleted |-> FALSE]
    /\ load
    /\ UNCHANGED <<mounted, draft, audit, handlers, crashes, gone, raced, listed>>

\* A button of this page, enabled by what it lists, or of another admin's.
processDataDeletionRequest(h, by, status, execute) ==
    /\ mounted
    /\ row # None
    /\ by = "page" => listed = "open"
    /\ handlers[h] = Idle
    /\ handlers' = [handlers EXCEPT ![h] = [pc |-> "get", by |-> by, status |-> status,
                                            execute |-> execute, deleted |-> FALSE]]
    /\ UNCHANGED <<mounted, draft, row, audit, crashes, gone, raced, listed, loads>>

\* The owner deletes the draft: the same store, no audit entry.
deleteDraft ==
    /\ draft
    /\ draft' = FALSE
    /\ UNCHANGED <<mounted, row, audit, handlers, crashes, listed, loads, gone, raced>>

-----------------------------------------------------------------------------
(* The handler. *)

Goto(h, pc) == handlers' = [handlers EXCEPT ![h].pc = pc]

\* A handler found the request open and has not marked it yet.
PastTest(h) == handlers[h].pc \in {"find", "delete", "mark"}

\* Mutant of GetRequest: a resolved request is resolved again.
MutantGetRequest(h) ==
    /\ handlers[h].pc = "get"
    /\ Goto(h, IF handlers[h].status = "processed" /\ handlers[h].execute
               THEN "find" ELSE "mark")
    /\ raced' = (raced \/ \E g \in Handlers \ {h} : PastTest(g))
    /\ UNCHANGED <<mounted, draft, row, audit, crashes, gone, listed, loads>>

GetRequest(h) ==
    /\ handlers[h].pc = "get"
    /\ IF row.status # "open"
       THEN /\ handlers' = [handlers EXCEPT ![h] = Idle]       \* 409
            /\ UNCHANGED raced
       ELSE /\ Goto(h, IF handlers[h].status = "processed" /\ handlers[h].execute
                       THEN "find" ELSE "mark")
            /\ raced' = (raced \/ \E g \in Handlers \ {h} : PastTest(g))
    /\ UNCHANGED <<mounted, draft, row, audit, crashes, gone, listed, loads>>

\* delete_draft: the row is looked up, then deleted, in one transaction of its own.
FindDraft(h) ==
    /\ handlers[h].pc = "find"
    /\ Goto(h, IF draft THEN "delete" ELSE "mark")
    /\ UNCHANGED <<mounted, draft, row, audit, crashes, gone, raced, listed, loads>>

DeleteDraft(h) ==
    /\ handlers[h].pc = "delete"
    /\ gone' = (gone \/ draft)
    /\ draft' = FALSE
    /\ handlers' = [handlers EXCEPT ![h].pc = "mark", ![h].deleted = TRUE]
    /\ UNCHANGED <<mounted, row, audit, crashes, raced, listed, loads>>

\* Mutant of MarkProcessed: the handler answers without the audit entry.
MutantMarkProcessed(h) ==
    /\ handlers[h].pc = "mark"
    /\ row' = [status |-> handlers[h].status, deleted |-> handlers[h].deleted]
    /\ Goto(h, "answer")
    /\ UNCHANGED <<mounted, draft, audit, crashes, gone, raced, listed, loads>>

MarkProcessed(h) ==
    /\ handlers[h].pc = "mark"
    /\ row' = [status |-> handlers[h].status, deleted |-> handlers[h].deleted]
    /\ Goto(h, "audit")
    /\ UNCHANGED <<mounted, draft, audit, crashes, gone, raced, listed, loads>>

WriteAudit(h) ==
    /\ handlers[h].pc = "audit"
    /\ audit' = audit \cup {[status |-> handlers[h].status, deleted |-> handlers[h].deleted]}
    /\ Goto(h, "answer")
    /\ UNCHANGED <<mounted, draft, row, crashes, gone, raced, listed, loads>>

\* The page loads its lists after an answer to a request of its own.
Answered(h) ==
    /\ handlers[h].pc = "answer"
    /\ handlers' = [handlers EXCEPT ![h] = Idle]
    /\ IF handlers[h].by = "page" THEN load ELSE UNCHANGED loads
    /\ UNCHANGED <<mounted, draft, row, audit, crashes, gone, raced, listed>>

\* Only a death that follows a deletion is counted, and bounded.
Crash(h) ==
    /\ handlers[h] # Idle
    /\ IF handlers[h].deleted
       THEN crashes < MaxCrashes /\ crashes' = crashes + 1
       ELSE UNCHANGED crashes
    /\ handlers' = [handlers EXCEPT ![h] = Idle]
    /\ UNCHANGED <<mounted, draft, row, audit, gone, raced, listed, loads>>

Next ==
    \/ Mount
    \/ Unmount
    \/ Reload
    \/ \E l \in DeletionLoads : Read(l) \/ Loaded(l) \/ LoadFails(l)
    \/ createDataDeletionRequest
    \/ \E h \in Handlers, by \in {"page", "other"}, status \in Resolutions,
          execute \in BOOLEAN : processDataDeletionRequest(h, by, status, execute)
    \/ deleteDraft
    \/ \E h \in Handlers :
          \/ GetRequest(h) \/ FindDraft(h) \/ DeleteDraft(h)
          \/ MarkProcessed(h) \/ WriteAudit(h) \/ Answered(h)
          \/ Crash(h)

Spec == Init /\ [][Next]_vars

-----------------------------------------------------------------------------
(* Types of the variables. *)
TypeOK ==
    /\ mounted \in BOOLEAN /\ draft \in BOOLEAN
    /\ row \in {None} \cup Results
    /\ audit \subseteq Results
    /\ handlers \in [Handlers -> HandlerStates]
    /\ crashes \in 0..MaxCrashes
    /\ listed \in Statuses \cup {None}
    /\ loads \in [DeletionLoads -> LoadStates]
    /\ gone \in BOOLEAN /\ raced \in BOOLEAN

(* A draft an admin deleted is in the audit trail, or will be: whatever the  *)
(* admins do at once, only a handler that dies after its deletion leaves     *)
(* none.                                                                     *)
DeletionsAudited ==
    gone => \/ \E a \in audit : a.status = "processed" /\ a.deleted
            \/ \E h \in Handlers : handlers[h].deleted
            \/ crashes > 0

(* A request that ends as rejected has not had its draft deleted, and one    *)
(* recorded as having deleted it has - unless two admins resolved it at once *)
(* or a handler died between the deletion and the mark.                      *)
RejectedKeepsDraft ==
    ~raced /\ crashes = 0 =>
        /\ Status = "rejected" => ~gone
        /\ row # None /\ row.deleted => row.status = "processed" /\ ~draft
=============================================================================
