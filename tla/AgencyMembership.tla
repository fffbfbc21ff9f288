--------------------------- MODULE AgencyMembership ---------------------------
(***************************************************************************)
(* The members of one agency workspace, over the PostgreSQL agency store.  *)
(*                                                                         *)
(* The three routes that change members share a shape: test the caller's   *)
(* role, read the membership, count the active owners when the change      *)
(* would cost one, then read the row again and write it.  Every read and   *)
(* every write is a statement of its own, and no row is locked.            *)
(***************************************************************************)
EXTENDS Naturals, FiniteSets

CONSTANTS
    Users,    \* people who are or may become members
    Founder,  \* the one who created the agency
    Threads,  \* API thread-pool slots
    Bodies,   \* the pairs of role and status request bodies carry
    MaxId     \* bound on the memberships ever inserted

Roles        == {"owner", "admin", "agent"}
States       == {"active", "invited", "disabled"}
AdminRoles   == {"owner", "admin"}
AccountRoles == {"none", "buyer", "realtor", "agency_admin"}

ASSUME ConstantsAssumption ==
    /\ IsFiniteSet(Users) /\ Founder \in Users
    /\ Bodies \subseteq (Roles \cup {"keep"}) \X (States \cup {"keep"})
    /\ MaxId \in Nat \ {0}

VARIABLES
    member,   \* agency_memberships: the row of each user
    account,  \* users.role of each user
    lastId,   \* membership ids given out
    req       \* what each slot is doing

vars == <<member, account, lastId, req>>

\* A row of agency_memberships; id 0 stands for "no row".
Ids   == 0..MaxId
Row   == [id: Ids, role: Roles, status: States]
NoRow == [id |-> 0, role |-> "agent", status |-> "disabled"]

\* A request: `caller` is who get_agency is still to be asked for (otherwise
\* it is the target), `id` the membership the URL names, `role` and `status` the
\* body ("keep" where a PATCH leaves a field out), `existing` the membership
\* the route read, `owners` the active owners it counted (0 when it did not),
\* and `loaded` the row the store read before it writes.
Request == [pc: {"idle", "agency", "existing", "count", "account", "load", "write"},
            op: {"add", "update", "remove"}, caller: Users, target: Users, id: Ids,
            role: Roles \cup {"keep"}, status: States \cup {"keep"},
            existing: Row, owners: Nat, loaded: Row]
Idle    == [pc |-> "idle", op |-> "add", caller |-> Founder, target |-> Founder,
            id |-> 0, role |-> "keep", status |-> "keep",
            existing |-> NoRow, owners |-> 0, loaded |-> NoRow]

\* The body of a request: POST fills in defaults, PATCH may leave a field out,
\* DELETE has none.
Body(op, role, status) ==
    CASE op = "add"    -> role # "keep" /\ status # "keep"
      [] op = "update" -> role # "keep" \/ status # "keep"
      [] op = "remove" -> role = "keep" /\ status = "keep"

\* The variables keep their types, and a POST knows role and status.
TypeOK ==
    /\ member \in [Users -> Row]
    /\ account \in [Users -> AccountRoles]
    /\ lastId \in Ids
    /\ req \in [Threads -> Request]
    /\ \A t \in Threads : req[t].pc # "idle" =>
                              Body(req[t].op, req[t].role, req[t].status)

\* create_agency: the founder is the owner.
Init ==
    /\ member = [u \in Users |-> IF u = Founder
                                 THEN [id |-> 1, role |-> "owner", status |-> "active"]
                                 ELSE NoRow]
    /\ account = [u \in Users |-> IF u = Founder THEN "buyer" ELSE "none"]
    /\ lastId = 1
    /\ req = [t \in Threads |-> Idle]

-----------------------------------------------------------------------------
(* The routes                                                              *)

IsMember(u)      == member[u].id # 0
IsOwner(row)     == row.role = "owner" /\ row.status = "active"
ActiveOwners     == {u \in Users : IsMember(u) /\ IsOwner(member[u])}
Finish(t)        == req' = [req EXCEPT ![t] = Idle]
GoTo(t, pc)      == req' = [req EXCEPT ![t].pc = pc]

\* _ensure_agency_admin
IsAdmin(u) == IsMember(u) /\ member[u].status = "active" /\ member[u].role \in AdminRoles

\* The request as it reaches its first read.
Arrival(c, u, op, body) ==
    [Idle EXCEPT !.pc = IF op = "add" THEN "existing" ELSE "agency",
                 !.op = op, !.target = u,
                 !.caller = IF op = "add" THEN u ELSE c,
                 !.id = IF op = "add" THEN 0 ELSE member[u].id,
                 !.role = body[1], !.status = body[2]]

Start(t) ==
    /\ req[t].pc = "idle"
    /\ \E c, u \in Users, op \in {"add", "update", "remove"}, body \in Bodies :
           /\ IsAdmin(c)
           /\ Body(op, body[1], body[2])
           /\ op # "add" => IsMember(u)
           /\ req' = [req EXCEPT ![t] = Arrival(c, u, op, body)]
    /\ UNCHANGED <<member, account, lastId>>

\* The membership query of get_agency: any caller who is not disabled.
SeeAgency(t) ==
    /\ req[t].pc = "agency"
    /\ LET row == member[req[t].caller] IN
       IF row.id # 0 /\ row.status # "disabled"
       THEN req' = [req EXCEPT ![t].pc = "existing", ![t].caller = req[t].target]
       ELSE Finish(t)
    /\ UNCHANGED <<member, account, lastId>>

\* _would_remove_last_owner and, for DELETE, the test of the route itself:
\* whether the owners must be counted.
TargetRole(row, role)     == IF role = "keep" THEN row.role ELSE role
TargetStatus(row, status) == IF status = "keep" THEN row.status ELSE status

\* Mutant of CostsOwner: only the role is looked at.
MutantCostsOwner(row, op, role, status) ==
    IF op = "remove" THEN row.role = "owner"
    ELSE IsOwner(row) /\ TargetRole(row, role) # "owner"

CostsOwner(row, op, role, status) ==
    IF op = "remove" THEN row.role = "owner"
    ELSE /\ IsOwner(row)
         /\ ~(TargetRole(row, role) = "owner" /\ TargetStatus(row, status) = "active")

\* What follows the guard.
AfterGuard(op) == IF op = "add" THEN "account" ELSE "load"

\* get_membership for POST; the members of get_agency for PATCH and DELETE.
ReadExisting(t) ==
    /\ req[t].pc = "existing"
    /\ LET r == req[t]  row == member[r.target] IN
       IF r.op # "add" /\ row.id # r.id THEN Finish(t)
       ELSE req' = [req EXCEPT ![t].existing = row,
                      ![t].pc = IF row.id # 0 /\ CostsOwner(row, r.op, r.role, r.status)
                                THEN "count" ELSE AfterGuard(r.op)]
    /\ UNCHANGED <<member, account, lastId>>

\* count_active_owners
CountOwners(t) ==
    /\ req[t].pc = "count"
    /\ IF Cardinality(ActiveOwners) <= 1 THEN Finish(t)
       ELSE req' = [req EXCEPT ![t].owners = Cardinality(ActiveOwners),
                               ![t].pc = AfterGuard(req[t].op)]
    /\ UNCHANGED <<member, account, lastId>>

\* Mutant of CreateAccount: the account takes the membership's role as it is.
MutantCreateAccount(t) ==
    /\ req[t].pc = "account"
    /\ account' = [account EXCEPT ![req[t].target] = req[t].role]
    /\ GoTo(t, "load")
    /\ UNCHANGED <<member, lastId>>

\* get_or_create_user with _user_role_for_agency_member: the account takes the
\* role of the membership that is about to be written.
CreateAccount(t) ==
    /\ req[t].pc = "account"
    /\ account' = [account EXCEPT ![req[t].target] =
                      IF req[t].role \in AdminRoles THEN "agency_admin" ELSE "realtor"]
    /\ GoTo(t, "load")
    /\ UNCHANGED <<member, lastId>>

-----------------------------------------------------------------------------
(* The store                                                               *)

\* The SELECT of add_member by user, of update_member and remove_member by id.
LoadRow(t) ==
    /\ req[t].pc = "load"
    /\ LET row == member[req[t].target] IN
       IF req[t].op # "add" /\ row.id # req[t].id THEN Finish(t)
       ELSE req' = [req EXCEPT ![t].pc = "write", ![t].loaded = row]
    /\ UNCHANGED <<member, account, lastId>>

\* The UPDATE names the columns whose value the body changes, no others.
Changed(old, new, now) == IF new \in {"keep", old} THEN now ELSE new

Written(r, row) ==
    [row EXCEPT !.role   = Changed(r.loaded.role, r.role, @),
                !.status = Changed(r.loaded.status, r.status, @)]

\* The UPDATE of add_member and update_member; without its row it raises.
UpdateRow(t) ==
    LET r == req[t]  row == member[r.target] IN
    /\ r.pc = "write" /\ r.op # "remove" /\ r.loaded.id # 0
    /\ member' = IF row.id = r.loaded.id
                 THEN [member EXCEPT ![r.target] = Written(r, row)] ELSE member
    /\ Finish(t)
    /\ UNCHANGED <<account, lastId>>

\* The INSERT of add_member; it raises when another one was first.
InsertRow(t) ==
    LET r == req[t] IN
    /\ r.pc = "write" /\ r.op = "add" /\ r.loaded.id = 0
    /\ IF IsMember(r.target) THEN UNCHANGED <<member, lastId>>
       ELSE /\ lastId < MaxId
            /\ lastId' = lastId + 1
            /\ member' = [member EXCEPT ![r.target] =
                             [id |-> lastId + 1, role |-> r.role, status |-> r.status]]
    /\ Finish(t)
    /\ UNCHANGED account

\* The DELETE of remove_member.
DeleteRow(t) ==
    LET r == req[t] IN
    /\ r.pc = "write" /\ r.op = "remove"
    /\ member' = IF member[r.target].id = r.id
                 THEN [member EXCEPT ![r.target] = NoRow] ELSE member
    /\ Finish(t)
    /\ UNCHANGED <<account, lastId>>

\* An exception or the end of the process; whatever was committed stays.
RequestFails(t) ==
    /\ req[t].pc # "idle"
    /\ Finish(t)
    /\ UNCHANGED <<member, account, lastId>>

Next == \E t \in Threads :
    \/ Start(t) \/ SeeAgency(t) \/ ReadExisting(t) \/ CountOwners(t) \/ CreateAccount(t)
    \/ LoadRow(t) \/ UpdateRow(t) \/ InsertRow(t) \/ DeleteRow(t) \/ RequestFails(t)

Spec == Init /\ [][Next]_vars

-----------------------------------------------------------------------------
(* Properties                                                              *)

\* What the route read of the membership and of the number of owners still
\* holds.
UpToDate(t) ==
    /\ member[req[t].target] = req[t].existing
    /\ req[t].owners # 0 => req[t].owners = Cardinality(ActiveOwners)

\* A request takes the last active owner away only on a stale view: since the
\* route read the membership or counted the owners, another request has
\* changed them.  The guard itself misses no case.
LastOwnerLostOnlyToRace ==
    [][ActiveOwners # {} /\ ActiveOwners' = {} =>
           \E t \in Threads : req[t].pc = "write" /\ ~UpToDate(t)]_vars

\* "Agency must keep at least one active owner" (api/routes.py:3477).
LastOwnerKept == ActiveOwners # {}
=============================================================================
