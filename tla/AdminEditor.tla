----------------------------- MODULE AdminEditor ----------------------------
(* The editors of the admin page: the registry of sources and the planned    *)
(* investments, each a table, a selected row and one form.                   *)
(*                                                                           *)
(* The form is sent under the id that is selected when the button is used,   *)
(* and the answer is written into the form whatever is selected by then; no  *)
(* button is disabled during a request.  Every save is followed by a load of *)
(* all the page's lists, and loads are not ordered.                          *)
EXTENDS PageParameters

VARIABLES
    mounted,    \* the page is on screen
    stored,     \* whose data the server holds under an id
    listed,     \* the same, as the table shows it
    selected,
    form,       \* the entry whose data the form holds, None if a new one's
    error,      \* the lists could not be loaded, and an error hides the editors
    loads,      \* what each load in flight has read
    calls,      \* saves in flight
    hasty       \* history: the editor was used during a save

pageVars == <<mounted, listed, selected, form, error>>
vars == <<pageVars, stored, loads, calls, hasty>>

Tables  == [Entries -> {None} \cup Entries]
NoTable == [e \in Entries |-> None]
Ids(table) == {e \in Entries : table[e] # None}

\* A load in flight has not read its lists yet, or has.
Idle  == [stage |-> "idle", table |-> NoTable]
Asked == [stage |-> "asked", table |-> NoTable]
LoadStates == [stage: {"idle", "asked", "read"}, table: Tables]

\* `id` is what the request names, and for a creation what the server answers with.
Calls == [op: {"create", "update", "delete"}, id: {None} \cup Entries,
          data: {None} \cup Entries, done: BOOLEAN]

Init ==
    /\ mounted = FALSE
    /\ stored = NoTable /\ listed = NoTable
    /\ selected = None /\ form = None
    /\ error = FALSE
    /\ loads = [l \in EditorLoads |-> Idle]
    /\ calls = {}
    /\ hasty = FALSE

-----------------------------------------------------------------------------
(* Loading the lists. *)

load == \E l \in EditorLoads : /\ loads[l] = Idle
                         /\ loads' = [loads EXCEPT ![l] = Asked]
                         /\ error' = FALSE

\* The server's entries are in order when the page is opened.
Mount(ids) ==
    /\ ~mounted
    /\ mounted' = TRUE
    /\ stored' = [e \in Entries |-> IF e \in ids THEN e ELSE None]
    /\ load
    /\ UNCHANGED <<listed, selected, form, calls, hasty>>

\* The refresh button, and every other control of the page that loads the lists.
Reload ==
    /\ mounted
    /\ load
    /\ UNCHANGED <<mounted, stored, listed, selected, form, calls, hasty>>

Unmount ==
    /\ mounted
    /\ mounted' = FALSE
    /\ stored' = NoTable /\ listed' = NoTable
    /\ selected' = None /\ form' = None
    /\ error' = FALSE
    /\ loads' = [l \in EditorLoads |-> Idle]
    /\ calls' = {}
    /\ hasty' = FALSE

Read(l) ==
    /\ loads[l] = Asked
    /\ loads' = [loads EXCEPT ![l] = [stage |-> "read", table |-> stored]]
    /\ UNCHANGED <<pageVars, stored, calls, hasty>>

Loaded(l) ==
    /\ loads[l].stage = "read"
    /\ listed' = loads[l].table
    /\ loads' = [loads EXCEPT ![l] = Idle]
    /\ UNCHANGED <<mounted, stored, selected, form, error, calls, hasty>>

LoadFails(l) ==
    /\ loads[l] # Idle
    /\ loads' = [loads EXCEPT ![l] = Idle]
    /\ error' = TRUE
    /\ UNCHANGED <<mounted, stored, listed, selected, form, calls, hasty>>

-----------------------------------------------------------------------------
(* What the admin does.  Typing changes the values of the form, not whose    *)
(* they are.                                                                 *)

Use == /\ mounted /\ ~error
       /\ hasty' = (hasty \/ calls # {})

Save(c) ==
    /\ Cardinality(calls) < MaxSaves
    /\ c \notin calls
    /\ calls' = calls \cup {c}

selectRow(e) ==
    /\ Use
    /\ e \in Ids(listed)
    /\ selected' = e /\ form' = listed[e]
    /\ UNCHANGED <<mounted, stored, listed, error, loads, calls>>

reset ==
    /\ Use
    /\ selected' = None /\ form' = None
    /\ UNCHANGED <<mounted, stored, listed, error, loads, calls>>

create ==
    /\ Use
    /\ Save([op |-> "create", id |-> None, data |-> form, done |-> FALSE])
    /\ UNCHANGED <<pageVars, stored, loads>>

update ==
    /\ Use /\ selected # None
    /\ Save([op |-> "update", id |-> selected, data |-> form, done |-> FALSE])
    /\ UNCHANGED <<pageVars, stored, loads>>

delete ==
    /\ Use /\ selected # None
    /\ Save([op |-> "delete", id |-> selected, data |-> None, done |-> FALSE])
    /\ UNCHANGED <<pageVars, stored, loads>>

-----------------------------------------------------------------------------
(* The server.  An id that is gone is refused; a new one was never used.     *)

Fresh == {e \in Entries : /\ e \notin Ids(stored) \cup Ids(listed) \cup {selected, form}
                          /\ \A l \in EditorLoads : e \notin Ids(loads[l].table)
                          /\ \A c \in calls : e \notin {c.id, c.data}}

\* A new entry describes what the form holds, if need be a copy.
Served(c) ==
    /\ ~c.done
    /\ \E e \in IF c.op = "create" THEN Fresh ELSE Ids(stored) \cap {c.id} :
          /\ stored' = [stored EXCEPT ![e] = CASE c.op = "create" -> e
                                               [] c.op = "update" -> c.data
                                               [] c.op = "delete" -> None]
          /\ calls' = (calls \ {c}) \cup {[c EXCEPT !.id = e, !.done = TRUE]}
    /\ UNCHANGED <<pageVars, loads, hasty>>

-----------------------------------------------------------------------------
(* The answers. *)

Finished(c) == /\ calls' = calls \ {c}
               /\ load
               /\ UNCHANGED <<mounted, stored, listed, hasty>>

\* Mutant of Created: the new entry is not selected.
MutantCreated(c) ==
    /\ c.op = "create" /\ c.done
    /\ form' = c.id
    /\ UNCHANGED selected
    /\ Finished(c)

Created(c) ==
    /\ c.op = "create" /\ c.done
    /\ selected' = c.id /\ form' = c.id
    /\ Finished(c)

\* setForm(formFrom(updated)): the selection is left alone.
Updated(c) ==
    /\ c.op = "update" /\ c.done
    /\ form' = c.data
    /\ UNCHANGED selected
    /\ Finished(c)

Deleted(c) ==
    /\ c.op = "delete" /\ c.done
    /\ selected' = None /\ form' = None
    /\ Finished(c)

\* Refused, lost on the way, or done but not answered: nothing is caught, nothing reloaded.
SaveFails(c) ==
    /\ calls' = calls \ {c}
    /\ UNCHANGED <<pageVars, stored, loads, hasty>>

Next ==
    \/ \E ids \in SUBSET Entries : Mount(ids)
    \/ Reload
    \/ Unmount
    \/ \E l \in EditorLoads : Read(l) \/ Loaded(l) \/ LoadFails(l)
    \/ \E e \in Entries : selectRow(e)
    \/ reset
    \/ create
    \/ update
    \/ delete
    \/ \E c \in calls :
          Served(c) \/ Created(c) \/ Updated(c) \/ Deleted(c) \/ SaveFails(c)

Spec == Init /\ [][Next]_vars

-----------------------------------------------------------------------------
(* Types of the variables. *)
TypeOK ==
    /\ mounted \in BOOLEAN /\ error \in BOOLEAN /\ hasty \in BOOLEAN
    /\ stored \in Tables /\ listed \in Tables
    /\ selected \in {None} \cup Entries /\ form \in {None} \cup Entries
    /\ loads \in [EditorLoads -> LoadStates]
    /\ calls \subseteq Calls

(* No source and no investment is ever overwritten with the data of another  *)
(* one, and between two saves the form holds the selected one's data - if    *)
(* the admin touches nothing during a save.  Tables that come late or in the *)
(* wrong order do no such harm.                                              *)
EntriesKeepTheirData ==
    ~hasty => /\ \A e \in Ids(stored) : stored[e] = e
              /\ calls = {} => form = selected
=============================================================================
