------------------------ MODULE AgencyMembershipProofs ------------------------
(***************************************************************************)
(* Proofs about AgencyMembership: types, the guard of the last owner under *)
(* any interleaving, and the rule it is meant to keep when requests come   *)
(* one at a time.                                                          *)
(***************************************************************************)
EXTENDS AgencyMembership, FiniteSetTheorems, TLAPS

\* Past the guard: the request is going to write.
Guarded == {"account", "load", "write"}

\* A request past the guard that costs the agency an active owner has counted
\* two of them; one that has not reached the guard has counted none.
GuardInv ==
    \A t \in Threads :
        LET r == req[t] IN
        /\ r.pc \in {"idle", "agency", "existing", "count"} => r.owners = 0
        /\ /\ r.pc \in Guarded
           /\ r.existing.id # 0
           /\ CostsOwner(r.existing, r.op, r.role, r.status)
           => r.owners \in Nat /\ r.owners > 1

IInv == TypeOK /\ GuardInv

\* What TypeOK says of one request and of the row it is about.
LEMMA FieldTypes ==
    ASSUME TypeOK, NEW t \in Threads
    PROVE  /\ req[t] \in Request
           /\ req[t].target \in Users
           /\ member[req[t].target] \in Row
           /\ req[t].loaded \in Row /\ req[t].existing \in Row
BY DEF TypeOK, Request

\* The constants of the module are of their types.
LEMMA ConstantTypes ==
    /\ NoRow \in Row /\ Idle \in Request
    /\ 0 \in Ids /\ 1 \in Ids
BY ConstantsAssumption DEF NoRow, Row, Idle, Request, Ids, Roles, States

\* count_active_owners returns a number.
LEMMA CountIsNat == Cardinality(ActiveOwners) \in Nat
<1>1. IsFiniteSet(ActiveOwners)
  BY ConstantsAssumption, FS_Subset DEF ActiveOwners
<1> QED  BY <1>1, FS_CardinalityType

\* An UPDATE leaves a row.
LEMMA WrittenType ==
    ASSUME NEW r \in Request, NEW row \in Row
    PROVE  Written(r, row) \in Row
BY DEF Written, Changed, Row, Request

\* A new agency satisfies the invariant.
LEMMA InitInv == Init => IInv
<1> SUFFICES ASSUME Init PROVE IInv
  OBVIOUS
<1>1. TypeOK
  BY ConstantTypes, ConstantsAssumption
  DEF Init, TypeOK, Row, Roles, States, AccountRoles, Idle
<1>2. GuardInv
  BY DEF Init, GuardInv, Idle, Guarded
<1> QED  BY <1>1, <1>2 DEF IInv

-----------------------------------------------------------------------------
(* Every step keeps the types.                                             *)

\* A slot that finishes keeps the types of all requests.
LEMMA FinishKeeps ==
    ASSUME IInv, NEW t \in Threads, Finish(t)
    PROVE  /\ req' \in [Threads -> Request]
           /\ \A x \in Threads : req'[x].pc # "idle" =>
                                     Body(req'[x].op, req'[x].role, req'[x].status)
<1>1. req' = [req EXCEPT ![t] = Idle]
  BY DEF Finish
<1>2. req \in [Threads -> Request] /\ Idle \in Request /\ Idle.pc = "idle"
  BY ConstantTypes DEF IInv, TypeOK, Idle
<1>3. \A x \in Threads : req'[x] = IF x = t THEN Idle ELSE req[x]
  BY <1>1, <1>2
<1> QED  BY <1>1, <1>2, <1>3 DEF IInv, TypeOK

\* A step of slot t to a request of the same body.
LEMMA MoveKeeps ==
    ASSUME IInv, NEW t \in Threads, NEW r \in Request,
           req[t].pc # "idle",
           r.op = req[t].op, r.role = req[t].role, r.status = req[t].status,
           req' = [req EXCEPT ![t] = r]
    PROVE  /\ req' \in [Threads -> Request]
           /\ \A x \in Threads : req'[x].pc # "idle" =>
                                     Body(req'[x].op, req'[x].role, req'[x].status)
<1>1. \A x \in Threads : req'[x] = IF x = t THEN r ELSE req[x]
  BY DEF IInv, TypeOK
<1> QED  BY <1>1 DEF IInv, TypeOK

\* Every step keeps the types; one case per action.
LEMMA TypeStep == IInv /\ [Next]_vars => TypeOK'
<1> SUFFICES ASSUME IInv, [Next]_vars PROVE TypeOK'
  OBVIOUS
<1> USE DEF IInv
<1>1. ASSUME NEW t \in Threads, Start(t) PROVE TypeOK'
  <2>1. PICK c \in Users, u \in Users, op \in {"add", "update", "remove"}, body \in Bodies :
             /\ Body(op, body[1], body[2])
             /\ req' = [req EXCEPT ![t] = Arrival(c, u, op, body)]
    BY <1>1 DEF Start
  <2> DEFINE r == Arrival(c, u, op, body)
  <2>2. /\ body[1] \in Roles \cup {"keep"} /\ body[2] \in States \cup {"keep"}
        /\ member[u].id \in Ids /\ 0 \in Ids
    BY ConstantsAssumption, ConstantTypes DEF TypeOK, Row
  <2>3. r \in Request /\ r.op = op /\ r.role = body[1] /\ r.status = body[2]
    BY <2>2, ConstantTypes DEF Arrival, Idle, Request
  <2> HIDE DEF r
  <2>4. \A x \in Threads : req'[x] = IF x = t THEN r ELSE req[x]
    BY <2>1 DEF r, TypeOK
  <2>5. req' \in [Threads -> Request]
    BY <2>1, <2>3 DEF r, TypeOK
  <2> QED  BY <1>1, <2>1, <2>3, <2>4, <2>5 DEF Start, TypeOK
<1>2. ASSUME NEW t \in Threads, SeeAgency(t) PROVE TypeOK'
  <2>1. CASE Finish(t)
    BY <1>2, <2>1, FinishKeeps DEF SeeAgency, TypeOK
  <2>2. CASE req' = [req EXCEPT ![t].pc = "existing", ![t].caller = req[t].target]
    <3> DEFINE r == [req[t] EXCEPT !.pc = "existing", !.caller = req[t].target]
    <3>1. r \in Request /\ r.op = req[t].op /\ r.role = req[t].role /\ r.status = req[t].status
      BY FieldTypes DEF Request
    <3>2. req' = [req EXCEPT ![t] = r]
      BY <2>2 DEF TypeOK
    <3> QED  BY <1>2, <3>1, <3>2, MoveKeeps DEF SeeAgency, TypeOK
  <2> QED  BY <1>2, <2>1, <2>2 DEF SeeAgency
<1>3. ASSUME NEW t \in Threads, ReadExisting(t) PROVE TypeOK'
  <2>1. CASE Finish(t)
    BY <1>3, <2>1, FinishKeeps DEF ReadExisting, TypeOK
  <2>2. CASE \E pc \in {"count", "account", "load"} :
                req' = [req EXCEPT ![t].existing = member[req[t].target], ![t].pc = pc]
    <3>1. PICK pc \in {"count", "account", "load"} :
              req' = [req EXCEPT ![t].existing = member[req[t].target], ![t].pc = pc]
      BY <2>2
    <3> DEFINE r == [req[t] EXCEPT !.existing = member[req[t].target], !.pc = pc]
    <3>2. r \in Request /\ r.op = req[t].op /\ r.role = req[t].role /\ r.status = req[t].status
      BY FieldTypes DEF Request
    <3>3. req' = [req EXCEPT ![t] = r]
      BY <3>1 DEF TypeOK
    <3> QED  BY <1>3, <3>2, <3>3, MoveKeeps DEF ReadExisting, TypeOK
  <2> QED  BY <1>3, <2>1, <2>2 DEF ReadExisting, AfterGuard
<1>4. ASSUME NEW t \in Threads, CountOwners(t) PROVE TypeOK'
  <2>1. CASE Finish(t)
    BY <1>4, <2>1, FinishKeeps DEF CountOwners, TypeOK
  <2>2. CASE \E pc \in {"account", "load"} :
                req' = [req EXCEPT ![t].owners = Cardinality(ActiveOwners), ![t].pc = pc]
    <3>1. PICK pc \in {"account", "load"} :
              req' = [req EXCEPT ![t].owners = Cardinality(ActiveOwners), ![t].pc = pc]
      BY <2>2
    <3> DEFINE r == [req[t] EXCEPT !.owners = Cardinality(ActiveOwners), !.pc = pc]
    <3>2. r \in Request /\ r.op = req[t].op /\ r.role = req[t].role /\ r.status = req[t].status
      BY FieldTypes, CountIsNat DEF Request
    <3>3. req' = [req EXCEPT ![t] = r]
      BY <3>1 DEF TypeOK
    <3> QED  BY <1>4, <3>2, <3>3, MoveKeeps DEF CountOwners, TypeOK
  <2> QED  BY <1>4, <2>1, <2>2 DEF CountOwners, AfterGuard
<1>5. ASSUME NEW t \in Threads, CreateAccount(t) PROVE TypeOK'
  <2> DEFINE r == [req[t] EXCEPT !.pc = "load"]
  <2>1. r \in Request /\ r.op = req[t].op /\ r.role = req[t].role /\ r.status = req[t].status
    BY FieldTypes DEF Request
  <2>2. req' = [req EXCEPT ![t] = r]
    BY <1>5 DEF CreateAccount, GoTo, TypeOK
  <2>3. account' \in [Users -> AccountRoles]
    BY <1>5 DEF CreateAccount, TypeOK, AccountRoles
  <2> QED  BY <1>5, <2>1, <2>2, <2>3, MoveKeeps DEF CreateAccount, TypeOK
<1>6. ASSUME NEW t \in Threads, LoadRow(t) PROVE TypeOK'
  <2>1. CASE Finish(t)
    BY <1>6, <2>1, FinishKeeps DEF LoadRow, TypeOK
  <2>2. CASE req' = [req EXCEPT ![t].pc = "write", ![t].loaded = member[req[t].target]]
    <3> DEFINE r == [req[t] EXCEPT !.pc = "write", !.loaded = member[req[t].target]]
    <3>1. r \in Request /\ r.op = req[t].op /\ r.role = req[t].role /\ r.status = req[t].status
      BY FieldTypes DEF Request
    <3>2. req' = [req EXCEPT ![t] = r]
      BY <2>2 DEF TypeOK
    <3> QED  BY <1>6, <3>1, <3>2, MoveKeeps DEF LoadRow, TypeOK
  <2> QED  BY <1>6, <2>1, <2>2 DEF LoadRow
<1>7. ASSUME NEW t \in Threads, UpdateRow(t) PROVE TypeOK'
  <2>1. member' \in [Users -> Row]
    BY <1>7, FieldTypes, WrittenType DEF UpdateRow, TypeOK
  <2> QED  BY <1>7, <2>1, FinishKeeps DEF UpdateRow, TypeOK
<1>8. ASSUME NEW t \in Threads, InsertRow(t) PROVE TypeOK'
  <2>1. member' \in [Users -> Row] /\ lastId' \in Ids
    <3>1. CASE UNCHANGED <<member, lastId>>
      BY <3>1 DEF TypeOK
    <3>2. CASE ~UNCHANGED <<member, lastId>>
      <4>1. lastId + 1 \in Ids
        BY <1>8, <3>2, ConstantsAssumption DEF InsertRow, TypeOK, Ids
      <4>2. req[t].role \in Roles /\ req[t].status \in States
        BY <1>8, FieldTypes DEF InsertRow, TypeOK, Body, Request
      <4> QED  BY <1>8, <3>2, <4>1, <4>2, FieldTypes DEF InsertRow, TypeOK, Row
    <3> QED  BY <3>1, <3>2
  <2> QED  BY <1>8, <2>1, FinishKeeps DEF InsertRow, TypeOK
<1>9. ASSUME NEW t \in Threads, DeleteRow(t) PROVE TypeOK'
  BY <1>9, FinishKeeps, FieldTypes, ConstantTypes DEF DeleteRow, TypeOK
<1>10. ASSUME NEW t \in Threads, RequestFails(t) PROVE TypeOK'
  BY <1>10, FinishKeeps DEF RequestFails, TypeOK
<1>11. CASE UNCHANGED vars
  BY <1>11 DEF vars, TypeOK
<1> QED
  BY <1>1, <1>2, <1>3, <1>4, <1>5, <1>6, <1>7, <1>8, <1>9, <1>10, <1>11 DEF Next

-----------------------------------------------------------------------------
(* Every step keeps the guard.                                             *)

GuardOf(r) ==
    /\ r.pc \in {"idle", "agency", "existing", "count"} => r.owners = 0
    /\ /\ r.pc \in Guarded
       /\ r.existing.id # 0
       /\ CostsOwner(r.existing, r.op, r.role, r.status)
       => r.owners \in Nat /\ r.owners > 1

\* A slot's request is changed by its own steps only.
LEMMA OwnSlot ==
    ASSUME [Next]_vars, req \in [Threads -> Request],
           NEW x \in Threads, req'[x] # req[x]
    PROVE  \/ Finish(x) \/ Start(x) \/ SeeAgency(x) \/ ReadExisting(x) \/ CountOwners(x)
           \/ CreateAccount(x) \/ LoadRow(x)
<1>1. req' # req
  OBVIOUS
<1>2. PICK t \in Threads :
          \/ Start(t) \/ SeeAgency(t) \/ ReadExisting(t) \/ CountOwners(t) \/ CreateAccount(t)
          \/ LoadRow(t) \/ UpdateRow(t) \/ InsertRow(t) \/ DeleteRow(t) \/ RequestFails(t)
  BY <1>1 DEF Next, vars
<1>3. CASE Start(t)
  <2>1. PICK r : req' = [req EXCEPT ![t] = r]
    BY <1>3 DEF Start
  <2>2. x = t
    BY <2>1
  <2> QED  BY <1>3, <2>2
<1>4. CASE SeeAgency(t)
  BY <1>4 DEF SeeAgency, Finish
<1>5. CASE ReadExisting(t)
  BY <1>5 DEF ReadExisting, Finish
<1>6. CASE CountOwners(t)
  BY <1>6 DEF CountOwners, Finish
<1>7. CASE CreateAccount(t)
  BY <1>7 DEF CreateAccount, GoTo
<1>8. CASE LoadRow(t)
  BY <1>8 DEF LoadRow, Finish
<1>9. CASE UpdateRow(t) \/ InsertRow(t) \/ DeleteRow(t) \/ RequestFails(t)
  BY <1>9 DEF UpdateRow, InsertRow, DeleteRow, RequestFails, Finish
<1> QED
  BY <1>2, <1>3, <1>4, <1>5, <1>6, <1>7, <1>8, <1>9

\* Every step keeps the guard; one case per action that moves a request.
LEMMA GuardStep == IInv /\ [Next]_vars => GuardInv'
<1> SUFFICES ASSUME IInv, [Next]_vars PROVE GuardInv'
  OBVIOUS
<1>0. SUFFICES ASSUME NEW x \in Threads, req'[x] # req[x] PROVE GuardOf(req'[x])
  <2>1. \A x \in Threads : GuardOf(req[x])
    BY DEF IInv, GuardInv, GuardOf
  <2>2. \A x \in Threads : GuardOf(req'[x])
    BY <1>0, <2>1
  <2> QED  BY <2>2 DEF GuardInv, GuardOf
<1> DEFINE r == req[x]
<1>1. r \in Request /\ GuardOf(r) /\ req \in [Threads -> Request]
  BY FieldTypes DEF IInv, TypeOK, GuardInv, GuardOf
<1>2. CASE Finish(x)
  BY <1>1, <1>2 DEF Finish, Idle, GuardOf, Guarded
<1>3. CASE Start(x)
  <2>1. PICK c \in Users, u \in Users, op \in {"add", "update", "remove"}, body \in Bodies :
             req' = [req EXCEPT ![x] = Arrival(c, u, op, body)]
    BY <1>3 DEF Start
  <2> QED  BY <1>1, <2>1 DEF Arrival, Idle, GuardOf, Guarded
<1>4. CASE SeeAgency(x) /\ ~Finish(x)
  <2>1. req'[x] = [r EXCEPT !.pc = "existing", !.caller = r.target] /\ r.pc = "agency"
    BY <1>1, <1>4 DEF SeeAgency
  <2> QED  BY <1>1, <2>1 DEF GuardOf, Guarded, Request
<1>5. CASE ReadExisting(x) /\ ~Finish(x)
  <2> DEFINE row == member[r.target]
             pc  == IF row.id # 0 /\ CostsOwner(row, r.op, r.role, r.status)
                    THEN "count" ELSE AfterGuard(r.op)
  <2>1. req'[x] = [r EXCEPT !.existing = row, !.pc = pc] /\ r.pc = "existing"
    BY <1>1, <1>5 DEF ReadExisting
  <2>2. /\ req'[x].existing = row /\ req'[x].pc = pc /\ req'[x].owners = 0
        /\ req'[x].op = r.op /\ req'[x].role = r.role /\ req'[x].status = r.status
    BY <1>1, <2>1 DEF GuardOf, Request
  <2> QED  BY <2>2 DEF GuardOf, Guarded
<1>6. CASE CountOwners(x) /\ ~Finish(x)
  <2>1. /\ req'[x] = [r EXCEPT !.owners = Cardinality(ActiveOwners), !.pc = AfterGuard(r.op)]
        /\ ~(Cardinality(ActiveOwners) <= 1)
    BY <1>1, <1>6 DEF CountOwners
  <2>2. req'[x].owners \in Nat /\ req'[x].owners > 1 /\ req'[x].pc \in {"account", "load"}
    BY <1>1, <2>1, CountIsNat DEF Request, AfterGuard
  <2> QED  BY <2>2 DEF GuardOf, Guarded
<1>7. CASE CreateAccount(x) \/ (LoadRow(x) /\ ~Finish(x))
  <2>1. /\ req'[x].pc \in Guarded /\ r.pc \in Guarded
        /\ req'[x].owners = r.owners /\ req'[x].existing = r.existing
        /\ req'[x].op = r.op /\ req'[x].role = r.role /\ req'[x].status = r.status
    <3>1. CASE CreateAccount(x)
      BY <1>1, <3>1 DEF CreateAccount, GoTo, Guarded, Request
    <3>2. CASE LoadRow(x) /\ ~Finish(x)
      BY <1>1, <3>2 DEF LoadRow, Guarded, Request
    <3> QED  BY <1>7, <3>1, <3>2
  <2> QED  BY <1>1, <2>1 DEF GuardOf, Guarded
<1>8. \/ Finish(x) \/ Start(x) \/ SeeAgency(x) \/ ReadExisting(x) \/ CountOwners(x)
      \/ CreateAccount(x) \/ LoadRow(x)
  BY <1>0, <1>1, OwnSlot
<1> QED
  BY <1>2, <1>3, <1>4, <1>5, <1>6, <1>7, <1>8

\* The variables keep their types, for every set of users, slots and bodies.
THEOREM TypeCorrect == Spec => []TypeOK
<1>1. IInv /\ [Next]_vars => IInv'
  BY TypeStep, GuardStep DEF IInv
<1>2. IInv => TypeOK
  BY DEF IInv
<1> QED  BY InitInv, <1>1, <1>2, PTL DEF Spec

\* The strengthened invariant holds in every reachable state.
THEOREM Invariance == Spec => []IInv
<1>1. IInv /\ [Next]_vars => IInv'
  BY TypeStep, GuardStep DEF IInv
<1> QED  BY InitInv, <1>1, PTL DEF Spec

-----------------------------------------------------------------------------
(* The last owner                                                          *)

\* Who is an owner changes with the row of the user a request writes, and
\* only in a write.
LEMMA OneRow ==
    ASSUME IInv, [Next]_vars, member' # member
    PROVE  \E t \in Threads :
              /\ UpdateRow(t) \/ InsertRow(t) \/ DeleteRow(t)
              /\ req[t].pc = "write"
              /\ \A u \in Users : u # req[t].target => member'[u] = member[u]
<1>1. PICK t \in Threads : UpdateRow(t) \/ InsertRow(t) \/ DeleteRow(t)
  BY DEF Next, vars, Start, SeeAgency, ReadExisting, CountOwners, CreateAccount, LoadRow,
     RequestFails
<1>2. member \in [Users -> Row] /\ req[t].target \in Users
  BY FieldTypes DEF IInv, TypeOK
<1> QED  BY <1>1, <1>2 DEF UpdateRow, InsertRow, DeleteRow

\* A request with an up-to-date view that ends the ownership of its target has
\* counted another owner.
LEMMA GuardWorks ==
    ASSUME IInv, NEW t \in Threads, UpdateRow(t) \/ InsertRow(t) \/ DeleteRow(t),
           UpToDate(t),
           req[t].target \in ActiveOwners, req[t].target \notin ActiveOwners'
    PROVE  Cardinality(ActiveOwners) > 1
<1> DEFINE r == req[t]  u == r.target  row == member[u]
<1>1. /\ r \in Request /\ u \in Users /\ row \in Row /\ r.loaded \in Row
      /\ member \in [Users -> Row]
  BY FieldTypes DEF IInv, TypeOK
<1>2. row.id # 0 /\ row.role = "owner" /\ row.status = "active" /\ r.existing = row
  BY DEF ActiveOwners, IsMember, IsOwner, UpToDate
<1>3. r.pc = "write"
  BY DEF UpdateRow, InsertRow, DeleteRow
<1>4. CostsOwner(r.existing, r.op, r.role, r.status)
  <2>1. CASE DeleteRow(t)
    BY <1>2, <2>1 DEF DeleteRow, CostsOwner
  <2>2. CASE InsertRow(t)
    <3>1. member' = member
      BY <1>2, <2>2 DEF InsertRow, IsMember
    <3> QED  BY <3>1 DEF ActiveOwners, IsMember
  <2>3. CASE UpdateRow(t)
    <3>1. member' = [member EXCEPT ![u] = Written(r, row)] \/ member' = member
      BY <2>3 DEF UpdateRow
    <3>2. member' # member
      BY DEF ActiveOwners, IsMember
    <3>3. member'[u] = Written(r, row)
      BY <1>1, <3>1, <3>2
    <3>4. /\ Written(r, row).id = row.id
          /\ Written(r, row).role = Changed(r.loaded.role, r.role, row.role)
          /\ Written(r, row).status = Changed(r.loaded.status, r.status, row.status)
      BY <1>1 DEF Written, Row
    <3>5. ~(Written(r, row).role = "owner" /\ Written(r, row).status = "active")
      BY <1>1, <1>2, <3>3, <3>4 DEF ActiveOwners, IsMember, IsOwner
    <3>6. r.role \notin {"keep", "owner"} \/ r.status \notin {"keep", "active"}
      BY <1>2, <3>4, <3>5 DEF Changed
    <3>7. r.op # "remove"
      BY <2>3 DEF UpdateRow
    <3> QED  BY <1>2, <3>6, <3>7 DEF CostsOwner, IsOwner, TargetRole, TargetStatus
  <2> QED  BY <2>1, <2>2, <2>3
<1>5. r.owners \in Nat /\ r.owners > 1
  BY <1>2, <1>3, <1>4 DEF IInv, GuardInv, Guarded
<1> QED  BY <1>5, CountIsNat DEF UpToDate

\* A step that leaves no active owner is a write on a stale view.
LEMMA LastOwnerStep ==
    ASSUME IInv, [Next]_vars, ActiveOwners # {}, ActiveOwners' = {}
    PROVE  \E t \in Threads : req[t].pc = "write" /\ ~UpToDate(t)
<1>1. member' # member
  BY DEF ActiveOwners, IsMember
<1>2. PICK t \in Threads :
          /\ UpdateRow(t) \/ InsertRow(t) \/ DeleteRow(t)
          /\ req[t].pc = "write"
          /\ \A u \in Users : u # req[t].target => member'[u] = member[u]
  BY <1>1, OneRow
<1>3. ActiveOwners = {req[t].target}
  BY <1>2 DEF ActiveOwners, IsMember
<1>4. Cardinality(ActiveOwners) = 1
  BY <1>3, FS_Singleton
<1>5. ~UpToDate(t)
  BY <1>2, <1>3, <1>4, GuardWorks
<1> QED  BY <1>2, <1>5

\* No request whose view is up to date takes the last owner away, whatever
\* interleaves: the guard itself misses no case.
THEOREM LastOwnerLostOnlyToRaces == Spec => LastOwnerLostOnlyToRace
<1>1. IInv /\ [Next]_vars =>
         [ActiveOwners # {} /\ ActiveOwners' = {} =>
            \E t \in Threads : req[t].pc = "write" /\ ~UpToDate(t)]_vars
  BY LastOwnerStep
<1> QED  BY <1>1, Invariance, PTL DEF Spec, LastOwnerLostOnlyToRace

-----------------------------------------------------------------------------
(* One slot: requests come one at a time.                                  *)

\* What the one request has read is still so.
FreshInv ==
    \A t \in Threads :
        /\ req[t].pc \in {"count"} \cup Guarded => UpToDate(t)
        /\ req[t].pc \in {"idle", "agency", "existing", "count"} => req[t].owners = 0

\* With one slot nothing changes what the request has read.
LEMMA FreshStep ==
    ASSUME NEW t0, Threads = {t0}, IInv, FreshInv, [Next]_vars
    PROVE  FreshInv'
<1> DEFINE r == req[t0]  r1 == req'[t0]
<1>1. /\ t0 \in Threads /\ r \in Request /\ req \in [Threads -> Request]
      /\ GuardInv'
  BY FieldTypes, GuardStep DEF IInv, TypeOK
<1>2. SUFFICES ASSUME r1.pc \in {"count"} \cup Guarded PROVE UpToDate(t0)'
  BY <1>1, <1>2 DEF FreshInv, GuardInv
<1>3. ~Finish(t0)
  BY <1>1, <1>2 DEF Finish, Idle, Guarded
<1>4. CASE UNCHANGED vars
  BY <1>1, <1>2, <1>4 DEF vars, FreshInv, UpToDate, ActiveOwners, IsMember
<1>5. CASE Start(t0)
  <2>1. \E c, u, op, body : r1 = Arrival(c, u, op, body)
    BY <1>1, <1>5 DEF Start
  <2>2. r1.pc \in {"existing", "agency"}
    BY <2>1 DEF Arrival, Idle
  <2> QED  BY <1>2, <2>2 DEF Guarded
<1>6. CASE SeeAgency(t0)
  <2>1. r1 = [r EXCEPT !.pc = "existing", !.caller = r.target]
    BY <1>1, <1>3, <1>6 DEF SeeAgency
  <2>2. r1.pc = "existing"
    BY <1>1, <2>1 DEF Request
  <2> QED  BY <1>2, <2>2 DEF Guarded
<1>7. CASE ReadExisting(t0)
  <2>1. \E pc : r1 = [r EXCEPT !.existing = member[r.target], !.pc = pc]
    BY <1>1, <1>3, <1>7 DEF ReadExisting
  <2>2. /\ r1.existing = member[r.target] /\ r1.target = r.target /\ r1.owners = 0
        /\ member' = member
    BY <1>1, <1>7, <2>1 DEF ReadExisting, Request, FreshInv
  <2> QED  BY <2>2 DEF UpToDate
<1>8. CASE CountOwners(t0)
  <2>1. \E pc : r1 = [r EXCEPT !.owners = Cardinality(ActiveOwners), !.pc = pc]
    BY <1>1, <1>3, <1>8 DEF CountOwners
  <2>2. /\ r1.existing = r.existing /\ r1.target = r.target
        /\ r1.owners = Cardinality(ActiveOwners) /\ r.pc = "count" /\ member' = member
    BY <1>1, <1>8, <2>1 DEF CountOwners, Request
  <2>3. ActiveOwners' = ActiveOwners
    BY <2>2 DEF ActiveOwners, IsMember
  <2> QED  BY <1>1, <2>2, <2>3 DEF UpToDate, FreshInv
<1>9. CASE CreateAccount(t0) \/ LoadRow(t0)
  <2>1. /\ r1.existing = r.existing /\ r1.target = r.target /\ r1.owners = r.owners
        /\ r.pc \in Guarded /\ member' = member
    <3>1. CASE CreateAccount(t0)
      BY <1>1, <3>1 DEF CreateAccount, GoTo, Request, Guarded
    <3>2. CASE LoadRow(t0)
      BY <1>1, <1>3, <3>2 DEF LoadRow, Request, Guarded
    <3> QED  BY <1>9, <3>1, <3>2
  <2>2. ActiveOwners' = ActiveOwners
    BY <2>1 DEF ActiveOwners, IsMember
  <2> QED  BY <1>1, <2>1, <2>2 DEF UpToDate, FreshInv
<1>10. ~(UpdateRow(t0) \/ InsertRow(t0) \/ DeleteRow(t0) \/ RequestFails(t0))
  BY <1>3 DEF UpdateRow, InsertRow, DeleteRow, RequestFails
<1> QED
  BY <1>4, <1>5, <1>6, <1>7, <1>8, <1>9, <1>10 DEF Next

\* "Agency must keep at least one active owner" (api/routes.py:3477) holds as
\* long as requests do not overlap.
THEOREM LastOwnerKeptByOneSlot ==
    ASSUME NEW t0, Threads = {t0}
    PROVE  Spec => []LastOwnerKept
<1>1. Init => FreshInv /\ LastOwnerKept
  BY ConstantsAssumption
  DEF Init, FreshInv, LastOwnerKept, ActiveOwners, IsMember, IsOwner, Idle, Guarded
<1>2. IInv /\ FreshInv /\ LastOwnerKept /\ [Next]_vars => FreshInv' /\ LastOwnerKept'
  BY FreshStep, LastOwnerStep DEF LastOwnerKept, FreshInv, Guarded
<1> QED  BY <1>1, <1>2, Invariance, PTL DEF Spec
=============================================================================
