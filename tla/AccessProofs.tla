---------------------------- MODULE AccessProofs ----------------------------
(***************************************************************************)
(* Proofs about Access, for any users, tenants, staff and grants.          *)
(*                                                                         *)
(* The inductive invariant is TypeOK, NoSelfMadeAdmin and what the guards  *)
(* and the field check have established about a request under way          *)
(* (Entitled); for TenantBoundary it is that every copy of a row's tenant  *)
(* is one the user was in (PastKnown).  A demotion that has reached every  *)
(* copy of the role (Powerless) stays, unless an administrator undoes it.  *)
(***************************************************************************)
EXTENDS Access, TLAPS

\* A request that gives roles holds the administrator's role in its payload.
Entitled ==
  \A r \in Requests :
    pc[r] \in {"reading", "writing"} =>
      /\ req[r].route = "create" => IsAdmin(req[r].claims)
      /\ req[r].route = "update" /\ req[r].data.roles # {} => IsAdmin(req[r].claims)

\* Steps that concern tokens, the replica and registrations.
UserStep(u) ==
  Register(u) \/ Login(u) \/ Refresh(u) \/ Expire(u) \/ Replicate(u) \/ Purge(u)

\* Steps of a request that write no row.
QuietStep(r) == GetById(r) \/ List(r) \/ ReadTarget(r) \/ RefuseTarget(r) \/ Fail(r)

WriteStep(r) == Create(r) \/ Update(r) \/ SoftDelete(r) \/ Restore(r) \/ SetLock(r)

BeginStep(r) ==
  \E u, v \in Users, route \in Routes :
    \E data \in Bodies(route) : Begin(r, u, route, v, data)

\* The steps, by kind.
LEMMA StepKinds ==
  Next => \/ \E u \in Users : UserStep(u)
          \/ \E r \in Requests : BeginStep(r) \/ QuietStep(r) \/ WriteStep(r)
BY DEF Next, Step, UserStep, BeginStep, QuietStep, WriteStep

\* None is neither a row, nor a payload, nor a request.
LEMMA NoneFacts == None \notin Row /\ None \notin Claims /\ None \notin Request
BY NoneAssumption

\* Only the administrator's role holds the unscoped permissions.
LEMMA PermissionFacts ==
  ASSUME NEW roles \in SUBSET Roles
  PROVE  /\ "write:any" \in Permissions(roles) => "admin" \in roles
         /\ "create" \in Permissions(roles) => "admin" \in roles
<1>1. \A role \in Roles :
        "write:any" \in Bundle(role) \/ "create" \in Bundle(role) => role = "admin"
  BY DEF Roles, Bundle
<1>2. QED
  BY <1>1 DEF Permissions

\* The bodies are bodies.
LEMMA BodyFacts == \A route \in Routes : Bodies(route) \subseteq Data
<1>1. Grants \subseteq SUBSET Roles
  BY AccessAssumption
<1>2. Edits \subseteq Data
  BY DEF Edits, Data
<1>3. Blank \in Data
  BY DEF Blank, Data
<1>4. {[roles |-> g, tenant |-> t, active |-> {}] :
         g \in Grants, t \in {{}} \cup {{x} : x \in Tenants}} \subseteq Data
  BY DEF Data
<1>5. QED
  BY <1>2, <1>3, <1>4 DEF Bodies, Routes

\* What the writes have in common: one row is stored, and it is a row whose
\* administrators were so before or are appointed by one.
Stored(r, row) ==
  LET v == req[r].target IN
  /\ pc[r] = "writing"
  /\ row \in Row
  /\ IsAdmin(row) => IsAdmin(rows[v]) \/ IsAdmin(req[r].claims)
  /\ Store(r, row)
  /\ purging' \in {purging, purging \cup {v}}

\* Every write is such a step.
LEMMA WritesStore ==
  ASSUME TypeOK, Entitled, NEW r \in Requests, WriteStep(r)
  PROVE  \E row \in Row : Stored(r, row)
<1> DEFINE q == req[r]
           v == req[r].target
<1>1. pc[r] = "writing"
  BY DEF WriteStep, Create, Update, SoftDelete, Restore, SetLock
<1>2. q \in Request /\ v \in Users
  BY <1>1 DEF TypeOK, Request
<1>3. rows[v] \in Row \cup {None}
  BY <1>2 DEF TypeOK
<1>4. q.data \in Data /\ q.data.roles \in SUBSET Roles /\ q.data.tenant \subseteq Tenants
  BY <1>2, AccessAssumption DEF Request, Data
<1>5. CASE Create(r)
  <2>1. PICK t \in Places :
          Store(r, [roles |-> q.data.roles, tenant |-> t, flags |-> {"active"}])
    BY <1>5 DEF Create
  <2>2. [roles |-> q.data.roles, tenant |-> t, flags |-> {"active"}] \in Row
    BY <1>4 DEF Row
  <2>3. IsAdmin(q.claims)
    BY <1>5, <1>1 DEF Create, Entitled
  <2>4. purging' = purging
    BY <1>5 DEF Create
  <2>5. QED
    BY <2>1, <2>2, <2>3, <2>4, <1>1 DEF Stored
<1>6. CASE Update(r)
  <2>1. rows[v] # None
    BY <1>6 DEF Update
  <2>2. rows[v] \in Row
    BY <2>1, <1>3
  <2> DEFINE new(t) == [roles  |-> IF q.data.roles = {} THEN rows[v].roles ELSE q.data.roles,
                        tenant |-> t,
                        flags  |-> NewFlags(rows[v].flags, q.data, seen[r])]
  <2>3. PICK t \in Places : Store(r, new(t))
    BY <1>6 DEF Update
  <2>4. NewFlags(rows[v].flags, q.data, seen[r]) \in SUBSET {"active", "deleted"}
    BY <2>2 DEF NewFlags, Row
  <2>5. new(t) \in Row
    BY <2>2, <2>4, <1>4 DEF Row
  <2>6. IsAdmin(new(t)) => IsAdmin(rows[v]) \/ IsAdmin(q.claims)
    <3>1. CASE q.data.roles = {}
      BY <3>1, <2>1 DEF IsAdmin
    <3>2. CASE q.data.roles # {}
      BY <3>2, <1>6, <1>1 DEF Entitled, Update
    <3>3. QED
      BY <3>1, <3>2
  <2>7. purging' \in {purging, purging \cup {v}}
    BY <1>6 DEF Update, Emit
  <2>8. QED
    BY <2>3, <2>5, <2>6, <2>7, <1>1 DEF Stored
<1>7. CASE SoftDelete(r) \/ Restore(r) \/ SetLock(r)
  <2>1. rows[v] # None
    BY <1>7 DEF SoftDelete, Restore, SetLock
  <2>2. rows[v] \in Row
    BY <2>1, <1>3
  <2>3. /\ [rows[v] EXCEPT !.flags = {"deleted"}] \in Row
        /\ [rows[v] EXCEPT !.flags = {"active"}] \in Row
        /\ [rows[v] EXCEPT !.flags = {"deleted"}].roles = rows[v].roles
        /\ [rows[v] EXCEPT !.flags = {"active"}].roles = rows[v].roles
    BY <2>2 DEF Row
  <2>4. purging' \in {purging, purging \cup {v}}
    BY <1>7 DEF SoftDelete, Restore, SetLock, Emit
  <2>5. PICK row \in Row : Store(r, row) /\ row.roles = rows[v].roles
    BY <1>7, <2>2, <2>3 DEF SoftDelete, Restore, SetLock
  <2>6. IsAdmin(row) => IsAdmin(rows[v])
    BY <2>1, <2>5 DEF IsAdmin
  <2>7. QED
    BY <2>4, <2>5, <2>6, <1>1 DEF Stored
<1>8. QED
  BY <1>5, <1>6, <1>7 DEF WriteStep

-----------------------------------------------------------------------------
(* Types                                                                   *)

\* A payload is a row without its flags.
LEMMA PayloadFacts ==
  ASSUME NEW row \in Row
  PROVE  /\ Payload(row) \in Claims
         /\ Payload(row).roles = row.roles /\ Payload(row).tenant = row.tenant
         /\ row # None /\ Payload(row) # None
BY NoneFacts DEF Row, Claims, Payload

\* The row of a new account.
LEMMA NewcomerFacts ==
  LET row == [roles |-> {"user"}, tenant |-> NoTenant, flags |-> {"active"}] IN
  row \in Row /\ ~ IsAdmin(row)
BY DEF Row, Roles, Places, IsAdmin

\* UserStep keeps the types.
LEMMA UserTypes ==
  ASSUME TypeOK, NEW u \in Users, UserStep(u)
  PROVE  TypeOK'
<1>1. CASE Register(u)
  <2> DEFINE row == [roles |-> {"user"}, tenant |-> NoTenant, flags |-> {"active"}]
  <2>1. row \in Row /\ Payload(row) \in Claims
    BY NewcomerFacts, PayloadFacts
  <2>2. NoTenant \in Places
    BY DEF Places
  <2> HIDE DEF row
  <2>3. /\ rows' = [rows EXCEPT ![u] = row]
        /\ token' = [token EXCEPT ![u] = Payload(row)]
        /\ past' = [past EXCEPT ![u] = @ \cup {NoTenant}]
        /\ UNCHANGED <<replica, expired, purging, pc, req, seen, trusted, reached>>
    BY <1>1 DEF Register, requests, row
  <2>4. QED
    BY <2>1, <2>2, <2>3 DEF TypeOK
<1>2. CASE Login(u) \/ Refresh(u)
  <2>1. /\ Usable(replica[u])
        /\ token' = [token EXCEPT ![u] = Payload(replica[u])]
        /\ expired' = expired \ {u}
        /\ UNCHANGED <<rows, replica, purging, pc, req, seen, trusted, past, reached>>
    BY <1>2 DEF Login, Refresh, requests, history
  <2>2. Payload(replica[u]) \in Claims
    BY <2>1, PayloadFacts DEF Usable, Visible, TypeOK
  <2>3. QED
    BY <2>1, <2>2 DEF TypeOK
<1>3. CASE Expire(u) \/ Replicate(u) \/ Purge(u)
  BY <1>3 DEF Expire, Replicate, Purge, requests, history, TypeOK
<1>4. QED
  BY <1>1, <1>2, <1>3 DEF UserStep

\* Begin keeps the types, and checks who gives roles.
LEMMA BeginTypes ==
  ASSUME TypeOK, Entitled, NEW r \in Requests, BeginStep(r)
  PROVE  TypeOK' /\ Entitled'
<1>0. PICK u \in Users, v \in Users, route \in Routes :
        \E data \in Bodies(route) : Begin(r, u, route, v, data)
  BY DEF BeginStep
<1>1. PICK data \in Bodies(route) : Begin(r, u, route, v, data)
  BY <1>0
<1> DEFINE q == [actor |-> u, claims |-> token[u], route |-> route,
                 target |-> v, data |-> data]
<1>2. token[u] \in Claims
  BY <1>1 DEF Begin, Authenticated, TypeOK
<1>3. q \in Request
  BY <1>2, BodyFacts DEF Request
<1>4. /\ pc[r] = "idle"
      /\ req' = [req EXCEPT ![r] = q]
      /\ pc' = [pc EXCEPT ![r] = IF ReadsFirst(token[u], route) THEN "reading" ELSE "writing"]
      /\ UNCHANGED <<rows, replica, token, expired, purging, seen, trusted, past, reached>>
  BY <1>1 DEF Begin, history
<1>5. q # None
  BY <1>3, NoneFacts
<1>6. route = "update" => ReadsFirst(token[u], route)
  BY DEF ReadsFirst
<1>7. q.route = route /\ q.claims = token[u] /\ q.data = data
  OBVIOUS
<1>8. /\ route = "create" => IsAdmin(token[u])
      /\ route = "update" /\ data.roles # {} => IsAdmin(token[u])
  <2>1. token[u].roles \in SUBSET Roles
    BY <1>2 DEF Claims
  <2>2. CASE route = "create"
    <3>1. "create" \in Permissions(token[u].roles)
      BY <1>1, <2>2 DEF Begin, Permitted, Required
    <3>2. QED
      BY <3>1, <2>1, <2>2, <1>2, NoneFacts, PermissionFacts DEF IsAdmin
  <2>3. CASE route = "update" /\ data.roles # {}
    <3>1. Unscoped(token[u], route)
      BY <1>1, <2>3 DEF Begin, FieldsAllowed
    <3>2. "write:any" \in Permissions(token[u].roles)
      BY <3>1, <2>3 DEF Unscoped
    <3>3. QED
      BY <3>2, <2>1, <2>3, <1>2, NoneFacts, PermissionFacts DEF IsAdmin
  <2>4. QED
    BY <2>2, <2>3
<1> HIDE DEF q
<1>9. TypeOK'
  BY <1>3, <1>4, <1>5, <1>6, <1>7 DEF TypeOK
<1>10. Entitled'
  <2>1. /\ q.route = "create" => IsAdmin(q.claims)
        /\ q.route = "update" /\ q.data.roles # {} => IsAdmin(q.claims)
    BY <1>7, <1>8
  <2>2. /\ req'[r] = q
        /\ \A s \in Requests \ {r} : req'[s] = req[s] /\ pc'[s] = pc[s]
    BY <1>4 DEF TypeOK
  <2>3. QED
    BY <2>1, <2>2 DEF Entitled, IsAdmin
<1>11. QED
  BY <1>9, <1>10

\* QuietStep keeps both; so do writes and the steps of users.
LEMMA QuietTypes ==
  ASSUME TypeOK, Entitled, NEW r \in Requests, QuietStep(r)
  PROVE  TypeOK' /\ Entitled'
<1>1. UNCHANGED <<rows, replica, token, expired, purging, trusted, past>>
  BY DEF QuietStep, GetById, List, ReadTarget, RefuseTarget, Fail, history
<1>2. pc[r] \in {"reading", "writing"}
  BY DEF QuietStep, GetById, List, ReadTarget, RefuseTarget, Fail
<1>3. req[r] \in Request
  BY <1>2 DEF TypeOK
<1>4. reached' \subseteq Users \X Users
  <2>1. \A targets \in SUBSET Users : Reach(r, targets) => reached' \subseteq Users \X Users
    BY <1>3 DEF Reach, TypeOK, Request
  <2>2. {req[r].target} \in SUBSET Users
    BY <1>3 DEF Request
  <2>3. reached' = reached \/ \E targets \in SUBSET Users : Reach(r, targets)
    <3>1. CASE List(r)
      BY <3>1 DEF List
    <3>2. CASE ~ List(r)
      BY <3>2, <2>2 DEF QuietStep, GetById, ReadTarget, RefuseTarget, Fail, history
    <3>3. QED
      BY <3>1, <3>2
  <2>4. QED
    BY <2>1, <2>3 DEF TypeOK
<1>5. CASE ReadTarget(r)
  <2>1. /\ seen' = [seen EXCEPT ![r] = replica[req[r].target]]
        /\ pc' = [pc EXCEPT ![r] = "writing"]
        /\ pc[r] = "reading"
        /\ req' = req
        /\ replica[req[r].target] # None
    BY <1>5 DEF ReadTarget, InScope, Visible
  <2>2. replica[req[r].target] \in Row
    BY <2>1, <1>3 DEF TypeOK, Request
  <2>3. TypeOK'
    BY <2>1, <2>2, <1>1, <1>4 DEF TypeOK
  <2>4. Entitled'
    BY <2>1 DEF Entitled, TypeOK, IsAdmin
  <2>5. QED
    BY <2>3, <2>4
<1>6. CASE Finish(r)
  <2>1. TypeOK'
    BY <1>6, <1>1, <1>4 DEF Finish, TypeOK
  <2>2. Entitled'
    BY <1>6 DEF Finish, Entitled, TypeOK, IsAdmin
  <2>3. QED
    BY <2>1, <2>2
<1>7. QED
  BY <1>5, <1>6 DEF QuietStep, GetById, List, RefuseTarget, Fail

LEMMA WriteTypes ==
  ASSUME TypeOK, Entitled, NEW r \in Requests, WriteStep(r)
  PROVE  TypeOK' /\ Entitled'
<1>1. PICK row \in Row : Stored(r, row)
  BY WritesStore
<1> DEFINE v == req[r].target
<1>2. v \in Users
  BY <1>1 DEF Stored, TypeOK, Request
<1>3. row.tenant \in Places
  BY DEF Row
<1> HIDE DEF v
<1>4. /\ rows' = [rows EXCEPT ![v] = row]
      /\ past' = [past EXCEPT ![v] = @ \cup {row.tenant}]
      /\ trusted' \subseteq trusted \cup {v}
      /\ purging' \subseteq purging \cup {v}
      /\ Finish(r)
      /\ UNCHANGED <<replica, token, expired, reached>>
  BY <1>1 DEF Stored, Store, v
<1>5. TypeOK'
  BY <1>2, <1>3, <1>4 DEF Finish, TypeOK
<1>6. Entitled'
  BY <1>4 DEF Finish, Entitled, TypeOK, IsAdmin
<1>7. QED
  BY <1>5, <1>6

\* The types and what the guards established hold throughout.
LEMMA Typed == Spec => [](TypeOK /\ Entitled)
<1>1. Init => TypeOK /\ Entitled
  <2> SUFFICES ASSUME Init PROVE TypeOK /\ Entitled
    OBVIOUS
  <2>1. Staff \in [Users -> Row \cup {None}]
    BY AccessAssumption
  <2>2. QED
    BY <2>1 DEF Init, TypeOK, Entitled
<1>2. TypeOK /\ Entitled /\ [Next]_vars => TypeOK' /\ Entitled'
  <2> SUFFICES ASSUME TypeOK, Entitled, [Next]_vars
               PROVE  TypeOK' /\ Entitled'
    OBVIOUS
  <2>1. ASSUME NEW u \in Users, UserStep(u) PROVE TypeOK' /\ Entitled'
    <3>1. UNCHANGED <<pc, req>>
      BY <2>1 DEF UserStep, Register, Login, Refresh, Expire, Replicate, Purge, requests
    <3>2. Entitled'
      BY <3>1 DEF Entitled, IsAdmin
    <3>3. QED
      BY <2>1, <3>2, UserTypes
  <2>2. ASSUME NEW r \in Requests, BeginStep(r) \/ QuietStep(r) \/ WriteStep(r)
        PROVE  TypeOK' /\ Entitled'
    BY <2>2, BeginTypes, QuietTypes, WriteTypes
  <2>3. CASE UNCHANGED vars
    BY <2>3 DEF vars, TypeOK, Entitled, IsAdmin
  <2>4. QED
    BY <2>1, <2>2, <2>3, StepKinds
<1>3. QED
  BY <1>1, <1>2, PTL DEF Spec

\* Every variable of Access keeps its type: a request past its first await is
\* one, and an update that is about to write has read its target.
THEOREM TypeCorrect == Spec => []TypeOK
BY Typed, PTL
-----------------------------------------------------------------------------
(* Administrators                                                          *)

\* Every step keeps NoSelfMadeAdmin.
LEMMA AppointmentStep ==
  ASSUME TypeOK, Entitled, NoSelfMadeAdmin, [Next]_vars
  PROVE  NoSelfMadeAdmin'
<1>1. ASSUME NEW u \in Users, UserStep(u)
      PROVE  NoSelfMadeAdmin'
  <2>1. trusted' = trusted /\ req' = req
    BY <1>1 DEF UserStep, Register, Login, Refresh, Expire, Replicate, Purge,
                requests, history
  <2>2. \A w \in Users : IsAdmin(rows'[w]) => w \in trusted
    <3>1. CASE Register(u)
      <4>1. ~ IsAdmin([roles |-> {"user"}, tenant |-> NoTenant, flags |-> {"active"}])
        BY NewcomerFacts
      <4>2. QED
        BY <3>1, <4>1 DEF Register, NoSelfMadeAdmin, TypeOK
    <3>2. CASE rows' = rows
      BY <3>2 DEF NoSelfMadeAdmin
    <3>3. QED
      BY <1>1, <3>1, <3>2 DEF UserStep, Login, Refresh, Expire, Replicate, Purge
  <2>3. \A w \in Users : IsAdmin(replica'[w]) => w \in trusted
    BY <1>1 DEF UserStep, Register, Login, Refresh, Expire, Replicate, Purge,
                NoSelfMadeAdmin, TypeOK
  <2>4. \A w \in Users : IsAdmin(token'[w]) => w \in trusted
    <3>1. CASE Register(u)
      <4>1. ~ IsAdmin(Payload([roles |-> {"user"}, tenant |-> NoTenant, flags |-> {"active"}]))
        BY DEF IsAdmin, Payload
      <4>2. QED
        BY <3>1, <4>1 DEF Register, NoSelfMadeAdmin, TypeOK
    <3>2. CASE Login(u) \/ Refresh(u)
      <4>1. /\ Usable(replica[u])
            /\ token' = [token EXCEPT ![u] = Payload(replica[u])]
        BY <3>2 DEF Login, Refresh
      <4>2. IsAdmin(Payload(replica[u])) => IsAdmin(replica[u])
        BY <4>1, PayloadFacts DEF IsAdmin, Usable, Visible, TypeOK
      <4>3. QED
        BY <4>1, <4>2 DEF NoSelfMadeAdmin, TypeOK
    <3>3. CASE Purge(u)
      BY <3>3 DEF Purge, NoSelfMadeAdmin, TypeOK, IsAdmin
    <3>4. CASE token' = token
      BY <3>4 DEF NoSelfMadeAdmin
    <3>5. QED
      BY <1>1, <3>1, <3>2, <3>3, <3>4 DEF UserStep, Expire, Replicate
  <2>5. QED
    BY <2>1, <2>2, <2>3, <2>4 DEF NoSelfMadeAdmin, IsAdmin
<1>2. ASSUME NEW r \in Requests, BeginStep(r)
      PROVE  NoSelfMadeAdmin'
  <2>1. PICK u \in Users, v \in Users, route \in Routes :
          \E data \in Bodies(route) : Begin(r, u, route, v, data)
    BY <1>2 DEF BeginStep
  <2>2. PICK data \in Bodies(route) : Begin(r, u, route, v, data)
    BY <2>1
  <2>3. /\ UNCHANGED <<rows, replica, token, trusted>>
        /\ req' = [req EXCEPT ![r] = [actor |-> u, claims |-> token[u], route |-> route,
                                      target |-> v, data |-> data]]
    BY <2>2 DEF Begin, history
  <2>4. /\ req'[r].actor = u /\ req'[r].claims = token[u]
        /\ \A s \in Requests \ {r} : req'[s] = req[s]
    BY <2>3 DEF TypeOK
  <2>5. QED
    BY <2>3, <2>4 DEF NoSelfMadeAdmin, IsAdmin
<1>3. ASSUME NEW r \in Requests, QuietStep(r)
      PROVE  NoSelfMadeAdmin'
  <2>1. UNCHANGED <<rows, replica, token, trusted>>
    BY <1>3 DEF QuietStep, GetById, List, ReadTarget, RefuseTarget, Fail, history
  <2>2. req' = req \/ req' = [req EXCEPT ![r] = None]
    BY <1>3 DEF QuietStep, GetById, List, ReadTarget, RefuseTarget, Fail, Finish
  <2>3. QED
    BY <2>1, <2>2 DEF NoSelfMadeAdmin, TypeOK, IsAdmin
<1>4. ASSUME NEW r \in Requests, WriteStep(r)
      PROVE  NoSelfMadeAdmin'
  <2>1. PICK row \in Row : Stored(r, row)
    BY <1>4, WritesStore
  <2> DEFINE v == req[r].target
  <2>2. v \in Users /\ req[r] # None
    BY <2>1 DEF Stored, TypeOK, Request
  <2>3. /\ rows' = [rows EXCEPT ![v] = row]
        /\ trusted' = trusted \cup {w \in {v} : IsAdmin(row) /\ req[r].actor \in trusted}
        /\ req' = [req EXCEPT ![r] = None]
        /\ UNCHANGED <<replica, token>>
        /\ IsAdmin(row) => IsAdmin(rows[v]) \/ IsAdmin(req[r].claims)
    BY <2>1 DEF Stored, Store, Finish
  <2>4. IsAdmin(row) => v \in trusted'
    BY <2>2, <2>3 DEF NoSelfMadeAdmin
  <2>5. \A w \in Users : IsAdmin(rows'[w]) => w \in trusted'
    BY <2>2, <2>3, <2>4 DEF NoSelfMadeAdmin, TypeOK
  <2>6. \A w \in Users : IsAdmin(replica'[w]) \/ IsAdmin(token'[w]) => w \in trusted'
    BY <2>3 DEF NoSelfMadeAdmin
  <2>7. \A s \in Requests :
          req'[s] # None /\ IsAdmin(req'[s].claims) => req'[s].actor \in trusted'
    BY <2>3 DEF NoSelfMadeAdmin, TypeOK
  <2>8. QED
    BY <2>5, <2>6, <2>7 DEF NoSelfMadeAdmin, IsAdmin
<1>5. CASE UNCHANGED vars
  BY <1>5 DEF vars, NoSelfMadeAdmin, IsAdmin
<1>6. QED
  BY <1>1, <1>2, <1>3, <1>4, <1>5, StepKinds

\* Whoever is an administrator anywhere was appointed along a chain of
\* administrators that begins with the first ones.
THEOREM Appointed == Spec => []NoSelfMadeAdmin
<1>1. Init => NoSelfMadeAdmin
  BY DEF Init, NoSelfMadeAdmin, IsAdmin
<1>2. TypeOK /\ Entitled /\ NoSelfMadeAdmin /\ [Next]_vars => NoSelfMadeAdmin'
  BY AppointmentStep
<1>3. QED
  BY <1>1, <1>2, Typed, PTL DEF Spec

-----------------------------------------------------------------------------
(* Tenants                                                                 *)

\* Every copy of a user's tenant is one he was in.
PastKnown ==
  /\ \A u \in Users :
       /\ rows[u] # None => rows[u].tenant \in past[u]
       /\ replica[u] # None => replica[u].tenant \in past[u]
       /\ token[u] # None => token[u].tenant \in past[u]
  /\ \A r \in Requests :
       pc[r] \in {"reading", "writing"} => req[r].claims.tenant \in past[req[r].actor]

Tenancy == PastKnown /\ TenantBoundary

\* Pairs stay explained, as nobody's past is forgotten.
LEMMA BoundaryKept ==
  ASSUME TypeOK, TenantBoundary, reached' = reached,
         \A u \in Users : past[u] \subseteq past'[u]
  PROVE  TenantBoundary'
<1> SUFFICES ASSUME NEW pair \in reached, pair[1] # pair[2]
             PROVE  past'[pair[1]] \cap past'[pair[2]] # {}
  BY DEF TenantBoundary
<1>1. pair[1] \in Users /\ pair[2] \in Users
  BY DEF TypeOK
<1>2. past[pair[1]] \cap past[pair[2]] # {}
  BY DEF TenantBoundary
<1>3. QED
  BY <1>1, <1>2

\* The steps of users and the writes keep Tenancy.
LEMMA UserTenancy ==
  ASSUME TypeOK, Tenancy, NEW u \in Users, UserStep(u)
  PROVE  Tenancy'
<1>1. reached' = reached /\ pc' = pc /\ req' = req
  BY DEF UserStep, Register, Login, Refresh, Expire, Replicate, Purge, requests, history
<1>2. \A w \in Users : past[w] \subseteq past'[w]
  BY DEF UserStep, Register, Login, Refresh, Expire, Replicate, Purge, history, TypeOK
<1>3. TenantBoundary'
  BY <1>1, <1>2, BoundaryKept DEF Tenancy
<1>4. \A r \in Requests :
        pc[r] \in {"reading", "writing"} => req[r].claims.tenant \in past'[req[r].actor]
  BY <1>2 DEF Tenancy, PastKnown, TypeOK, Request
<1>5. CASE Register(u)
  <2> DEFINE row == [roles |-> {"user"}, tenant |-> NoTenant, flags |-> {"active"}]
  <2>1. row.tenant = NoTenant /\ Payload(row).tenant = NoTenant
    BY DEF Payload
  <2> HIDE DEF row
  <2>2. /\ rows' = [rows EXCEPT ![u] = row]
        /\ token' = [token EXCEPT ![u] = Payload(row)]
        /\ past' = [past EXCEPT ![u] = @ \cup {NoTenant}]
        /\ replica' = replica
    BY <1>5 DEF Register, row
  <2>3. QED
    BY <1>1, <1>2, <1>3, <1>4, <2>1, <2>2 DEF Tenancy, PastKnown, TypeOK
<1>6. CASE Login(u) \/ Refresh(u)
  <2>1. /\ Usable(replica[u])
        /\ token' = [token EXCEPT ![u] = Payload(replica[u])]
        /\ UNCHANGED <<rows, replica, past>>
    BY <1>6 DEF Login, Refresh, history
  <2>2. Payload(replica[u]).tenant \in past[u]
    BY <2>1 DEF Usable, Visible, Payload, Tenancy, PastKnown
  <2>3. QED
    BY <1>1, <1>3, <1>4, <2>1, <2>2 DEF Tenancy, PastKnown, TypeOK
<1>7. CASE Expire(u) \/ Replicate(u) \/ Purge(u)
  BY <1>1, <1>3, <1>4, <1>7 DEF Expire, Replicate, Purge, history, Tenancy, PastKnown, TypeOK
<1>8. QED
  BY <1>5, <1>6, <1>7 DEF UserStep

LEMMA WriteTenancy ==
  ASSUME TypeOK, Entitled, Tenancy, NEW r \in Requests, WriteStep(r)
  PROVE  Tenancy'
<1>1. PICK row \in Row : Stored(r, row)
  BY WritesStore
<1> DEFINE v == req[r].target
<1>2. v \in Users
  BY <1>1 DEF Stored, TypeOK, Request
<1> HIDE DEF v
<1>3. /\ rows' = [rows EXCEPT ![v] = row]
      /\ past' = [past EXCEPT ![v] = @ \cup {row.tenant}]
      /\ pc' = [pc EXCEPT ![r] = "done"]
      /\ req' = [req EXCEPT ![r] = None]
      /\ UNCHANGED <<replica, token, reached>>
  BY <1>1 DEF Stored, Store, Finish, v
<1>4. \A w \in Users : past[w] \subseteq past'[w]
  BY <1>3 DEF TypeOK
<1>5. TenantBoundary'
  BY <1>3, <1>4, BoundaryKept DEF Tenancy
<1>6. \A s \in Requests :
        pc'[s] \in {"reading", "writing"} => req'[s].claims.tenant \in past'[req'[s].actor]
  <2> SUFFICES ASSUME NEW s \in Requests, pc'[s] \in {"reading", "writing"}
               PROVE  req'[s].claims.tenant \in past'[req'[s].actor]
    OBVIOUS
  <2>1. s # r /\ pc[s] = pc'[s] /\ req'[s] = req[s]
    BY <1>3 DEF TypeOK
  <2>2. req[s].actor \in Users /\ req[s].claims.tenant \in past[req[s].actor]
    BY <2>1 DEF TypeOK, Request, Tenancy, PastKnown
  <2>3. QED
    BY <2>1, <2>2, <1>4
<1>7. \A u \in Users :
        /\ rows'[u] # None => rows'[u].tenant \in past'[u]
        /\ replica'[u] # None => replica'[u].tenant \in past'[u]
        /\ token'[u] # None => token'[u].tenant \in past'[u]
  BY <1>2, <1>3, <1>4 DEF Tenancy, PastKnown, TypeOK
<1>8. QED
  BY <1>5, <1>6, <1>7 DEF Tenancy, PastKnown

\* A request begins with a tenant its caller was in, and reaches only users
\* that were in it.
LEMMA RequestTenancy ==
  ASSUME TypeOK, Tenancy, NEW r \in Requests, BeginStep(r) \/ QuietStep(r)
  PROVE  Tenancy'
<1>1. UNCHANGED <<rows, replica, token, past>>
  BY DEF BeginStep, QuietStep, Begin, GetById, List, ReadTarget, RefuseTarget, Fail, history
<1>2. CASE BeginStep(r)
  <2>1. PICK u \in Users, v \in Users, route \in Routes :
          \E data \in Bodies(route) : Begin(r, u, route, v, data)
    BY <1>2 DEF BeginStep
  <2>2. PICK data \in Bodies(route) : Begin(r, u, route, v, data)
    BY <2>1
  <2>3. /\ token[u] # None /\ reached' = reached
        /\ req' = [req EXCEPT ![r] = [actor |-> u, claims |-> token[u], route |-> route,
                                      target |-> v, data |-> data]]
        /\ \A s \in Requests \ {r} : pc'[s] = pc[s]
    BY <2>2 DEF Begin, Authenticated, history, TypeOK
  <2>4. token[u].tenant \in past[u]
    BY <2>3 DEF Tenancy, PastKnown
  <2>5. /\ req'[r].actor = u /\ req'[r].claims = token[u]
        /\ \A s \in Requests \ {r} : req'[s] = req[s]
    BY <2>3 DEF TypeOK
  <2>6. TenantBoundary'
    BY <1>1, <2>3, BoundaryKept DEF Tenancy
  <2>7. \A s \in Requests :
          pc'[s] \in {"reading", "writing"} => req'[s].claims.tenant \in past[req'[s].actor]
    BY <2>3, <2>4, <2>5 DEF Tenancy, PastKnown
  <2>8. QED
    BY <1>1, <2>6, <2>7 DEF Tenancy, PastKnown
<1>3. CASE QuietStep(r)
  <2> DEFINE q == req[r]
  <2>1. pc[r] \in {"reading", "writing"}
    BY <1>3 DEF QuietStep, GetById, List, ReadTarget, RefuseTarget, Fail
  <2>2. q \in Request /\ q.actor \in Users /\ q.target \in Users
    BY <2>1 DEF TypeOK, Request
  <2>3. q.claims.tenant \in past[q.actor]
    BY <2>1 DEF Tenancy, PastKnown
  <2>4. \A v \in Users :
          Visible(replica[v]) /\ replica[v].tenant = q.claims.tenant
            => past[q.actor] \cap past[v] # {}
    BY <2>3 DEF Visible, Tenancy, PastKnown
  <2>5. \A pair \in reached' :
          \/ pair \in reached
          \/ /\ pair[1] = q.actor /\ pair[2] \in Users
             /\ pair[1] = pair[2] \/ past[pair[1]] \cap past[pair[2]] # {}
    <3>1. CASE GetById(r) \/ ReadTarget(r)
      <4>1. InScope(r) /\ Reach(r, {q.target})
        BY <3>1 DEF GetById, ReadTarget
      <4>2. CASE Unscoped(q.claims, q.route)
        BY <4>1, <4>2 DEF Reach
      <4>3. CASE ~ Unscoped(q.claims, q.route)
        <5>1. q.actor = q.target \/ past[q.actor] \cap past[q.target] # {}
          BY <4>1, <4>3, <2>2, <2>4 DEF InScope
        <5>2. reached' \subseteq reached \cup {<<q.actor, q.target>>}
          BY <4>1, <4>3 DEF Reach
        <5>3. QED
          BY <5>1, <5>2, <2>2
      <4>4. QED
        BY <4>2, <4>3
    <3>2. CASE List(r)
      <4> DEFINE found == {v \in Users : Visible(replica[v]) /\ replica[v].tenant = q.claims.tenant}
      <4>1. Reach(r, found)
        BY <3>2 DEF List
      <4>2. reached' \subseteq reached \cup {<<q.actor, v>> : v \in found}
        BY <4>1 DEF Reach
      <4>3. \A v \in found : v \in Users /\ past[q.actor] \cap past[v] # {}
        BY <2>4
      <4>4. QED
        BY <4>2, <4>3
    <3>3. CASE RefuseTarget(r) \/ Fail(r)
      BY <3>3 DEF RefuseTarget, Fail, history
    <3>4. QED
      BY <1>3, <3>1, <3>2, <3>3 DEF QuietStep
  <2>6. TenantBoundary'
    BY <2>5, <1>1 DEF Tenancy, TenantBoundary
  <2>7. \A s \in Requests :
          pc'[s] \in {"reading", "writing"} =>
            pc[s] \in {"reading", "writing"} /\ req'[s] = req[s]
    BY <1>3 DEF QuietStep, GetById, List, ReadTarget, RefuseTarget, Fail, Finish, TypeOK
  <2>8. QED
    BY <1>1, <2>6, <2>7 DEF Tenancy, PastKnown
<1>4. QED
  BY <1>2, <1>3

\* A caller scoped to a tenant reaches only users of tenants he was in.
THEOREM Bounded == Spec => []TenantBoundary
<1>1. Init => Tenancy
  <2> SUFFICES ASSUME Init PROVE Tenancy
    OBVIOUS
  <2>1. \A u \in Users : Staff[u] # None => Staff[u].tenant \in Places
    BY AccessAssumption DEF Row
  <2>2. QED
    BY <2>1 DEF Init, Tenancy, PastKnown, TenantBoundary
<1>2. TypeOK /\ Entitled /\ Tenancy /\ [Next]_vars => Tenancy'
  <2> SUFFICES ASSUME TypeOK, Entitled, Tenancy, [Next]_vars PROVE Tenancy'
    OBVIOUS
  <2>1. CASE UNCHANGED vars
    BY <2>1 DEF vars, Tenancy, PastKnown, TenantBoundary
  <2>2. QED
    BY <2>1, StepKinds, UserTenancy, RequestTenancy, WriteTenancy
<1>3. Tenancy => TenantBoundary
  BY DEF Tenancy
<1>4. QED
  BY <1>1, <1>2, <1>3, Typed, PTL DEF Spec

-----------------------------------------------------------------------------
(* Demotions                                                               *)

\* Nothing that could act as an administrator is left of u: no row of either
\* database, no token that still passes, no request under way.
Powerless(u) ==
  /\ ~ IsAdmin(rows[u]) /\ ~ IsAdmin(replica[u])
  /\ IsAdmin(token[u]) => u \in expired
  /\ \A r \in Requests :
       req[r] # None /\ req[r].actor = u => ~ IsAdmin(req[r].claims)

\* A request of an administrator other than u makes u one.
Appoints(r, u) ==
  /\ Create(r) \/ Update(r)
  /\ req[r].target = u /\ "admin" \in req[r].data.roles
  /\ req[r].actor # u /\ IsAdmin(req[r].claims)

\* Once a demotion has reached the replica, the tokens and the requests under
\* way, no stale copy brings the role back: not a refresh or a login, not the
\* late update of another field, not a restore.
DemotionHolds ==
  [][\A u \in Users :
       Powerless(u) => Powerless(u)' \/ \E r \in Requests : Appoints(r, u)]_vars

\* A user becomes an administrator by a request of one that says so.
LEMMA WriteAppoints ==
  ASSUME TypeOK, Entitled, NEW r \in Requests, WriteStep(r),
         ~ IsAdmin(rows[req[r].target]), IsAdmin(rows'[req[r].target])
  PROVE  /\ Create(r) \/ Update(r)
         /\ "admin" \in req[r].data.roles
         /\ IsAdmin(req[r].claims)
<1> DEFINE q == req[r]
           v == req[r].target
<1>1. pc[r] = "writing"
  BY DEF WriteStep, Create, Update, SoftDelete, Restore, SetLock
<1>2. v \in Users /\ rows[v] \in Row \cup {None}
  BY <1>1 DEF TypeOK, Request
<1>3. CASE Create(r)
  <2>1. PICK row : Store(r, row) /\ row.roles = q.data.roles
    BY <1>3 DEF Create
  <2>2. rows'[v] = row
    BY <2>1, <1>2 DEF Store, TypeOK
  <2>3. "admin" \in q.data.roles
    BY <2>1, <2>2 DEF IsAdmin
  <2>4. QED
    BY <1>1, <1>3, <2>3 DEF Entitled, Create
<1>4. CASE Update(r)
  <2>1. rows[v] # None /\ q.route = "update"
    BY <1>4 DEF Update
  <2>2. PICK row : /\ Store(r, row)
                   /\ row.roles = IF q.data.roles = {} THEN rows[v].roles ELSE q.data.roles
    BY <1>4 DEF Update
  <2>3. rows'[v] = row
    BY <2>2, <1>2 DEF Store, TypeOK
  <2>4. q.data.roles # {} /\ "admin" \in q.data.roles
    BY <2>1, <2>2, <2>3 DEF IsAdmin
  <2>5. QED
    BY <1>1, <1>4, <2>1, <2>4 DEF Entitled
<1>5. CASE SoftDelete(r) \/ Restore(r) \/ SetLock(r)
  <2>1. rows[v] # None
    BY <1>5 DEF SoftDelete, Restore, SetLock
  <2>2. rows[v] \in Row
    BY <1>2, <2>1
  <2>3. /\ [rows[v] EXCEPT !.flags = {"deleted"}].roles = rows[v].roles
        /\ [rows[v] EXCEPT !.flags = {"active"}].roles = rows[v].roles
    BY <2>2 DEF Row
  <2>4. PICK row : Store(r, row) /\ row.roles = rows[v].roles
    BY <1>5, <2>3 DEF SoftDelete, Restore, SetLock
  <2>5. rows'[v] = row
    BY <2>4, <1>2 DEF Store, TypeOK
  <2>6. FALSE
    BY <2>1, <2>4, <2>5 DEF IsAdmin
  <2>7. QED
    BY <2>6
<1>6. QED
  BY <1>3, <1>4, <1>5 DEF WriteStep

\* The steps of users give nobody a role that no row has.
LEMMA UserDemotion ==
  ASSUME TypeOK, NEW w \in Users, UserStep(w), NEW u \in Users, Powerless(u)
  PROVE  Powerless(u)'
<1>1. req' = req
  BY DEF UserStep, Register, Login, Refresh, Expire, Replicate, Purge, requests
<1>2. CASE w # u
  <2>1. rows'[u] = rows[u] /\ replica'[u] = replica[u] /\ token'[u] = token[u]
    BY <1>2 DEF UserStep, Register, Login, Refresh, Expire, Replicate, Purge, TypeOK
  <2>2. u \in expired => u \in expired'
    BY <1>2 DEF UserStep, Register, Login, Refresh, Expire, Replicate, Purge
  <2>3. QED
    BY <1>1, <2>1, <2>2 DEF Powerless, IsAdmin
<1>3. CASE w = u /\ Register(u)
  <2> DEFINE row == [roles |-> {"user"}, tenant |-> NoTenant, flags |-> {"active"}]
  <2>1. ~ IsAdmin(row) /\ ~ IsAdmin(Payload(row))
    BY DEF IsAdmin, Payload
  <2> HIDE DEF row
  <2>2. rows'[u] = row /\ token'[u] = Payload(row) /\ replica' = replica
    BY <1>3 DEF Register, TypeOK, row
  <2>3. QED
    BY <1>1, <2>1, <2>2 DEF Powerless, IsAdmin
<1>4. CASE w = u /\ (Login(u) \/ Refresh(u))
  <2>1. /\ Usable(replica[u]) /\ token'[u] = Payload(replica[u])
        /\ UNCHANGED <<rows, replica>>
    BY <1>4 DEF Login, Refresh, TypeOK
  <2>2. ~ IsAdmin(token'[u])
    BY <2>1, PayloadFacts DEF Powerless, IsAdmin, Usable, Visible, Payload
  <2>3. QED
    BY <1>1, <2>1, <2>2 DEF Powerless, IsAdmin
<1>5. CASE w = u /\ (Expire(u) \/ Replicate(u) \/ Purge(u))
  BY <1>1, <1>5 DEF Expire, Replicate, Purge, history, requests, Powerless, IsAdmin, TypeOK
<1>6. QED
  BY <1>2, <1>3, <1>4, <1>5 DEF UserStep

\* A request begins with a token that passes.
LEMMA RequestDemotion ==
  ASSUME TypeOK, NEW r \in Requests, BeginStep(r) \/ QuietStep(r),
         NEW u \in Users, Powerless(u)
  PROVE  Powerless(u)'
<1>1. UNCHANGED <<rows, replica, token, expired>>
  BY DEF BeginStep, QuietStep, Begin, GetById, List, ReadTarget, RefuseTarget, Fail, history
<1>2. CASE BeginStep(r)
  <2>1. PICK a \in Users, v \in Users, route \in Routes :
          \E data \in Bodies(route) : Begin(r, a, route, v, data)
    BY <1>2 DEF BeginStep
  <2>2. PICK data \in Bodies(route) : Begin(r, a, route, v, data)
    BY <2>1
  <2>3. /\ a \notin expired
        /\ req' = [req EXCEPT ![r] = [actor |-> a, claims |-> token[a], route |-> route,
                                      target |-> v, data |-> data]]
    BY <2>2 DEF Begin, Authenticated
  <2>4. /\ req'[r].actor = a /\ req'[r].claims = token[a]
        /\ \A s \in Requests \ {r} : req'[s] = req[s]
    BY <2>3 DEF TypeOK
  <2>5. QED
    BY <1>1, <2>3, <2>4 DEF Powerless, IsAdmin
<1>3. CASE QuietStep(r)
  <2>1. req' = req \/ req' = [req EXCEPT ![r] = None]
    BY <1>3 DEF QuietStep, GetById, List, ReadTarget, RefuseTarget, Fail, Finish
  <2>2. QED
    BY <1>1, <2>1 DEF Powerless, IsAdmin, TypeOK
<1>4. QED
  BY <1>2, <1>3

\* A write leaves u powerless or is an appointment.
LEMMA WriteDemotion ==
  ASSUME TypeOK, Entitled, NEW r \in Requests, WriteStep(r),
         NEW u \in Users, Powerless(u)
  PROVE  Powerless(u)' \/ Appoints(r, u)
<1>1. PICK row \in Row : Stored(r, row)
  BY WritesStore
<1> DEFINE v == req[r].target
<1>2. v \in Users /\ req[r] # None
  BY <1>1 DEF Stored, TypeOK, Request
<1>3. /\ rows' = [rows EXCEPT ![v] = row]
      /\ req' = [req EXCEPT ![r] = None]
      /\ UNCHANGED <<replica, token, expired>>
  BY <1>1 DEF Stored, Store, Finish
<1>4. CASE ~ IsAdmin(rows'[u])
  BY <1>3, <1>4 DEF Powerless, IsAdmin, TypeOK
<1>5. CASE IsAdmin(rows'[u])
  <2>1. ~ IsAdmin(rows[u])
    BY DEF Powerless
  <2>2. u = v
    BY <1>2, <1>3, <1>5, <2>1 DEF TypeOK
  <2>3. /\ Create(r) \/ Update(r)
        /\ "admin" \in req[r].data.roles
        /\ IsAdmin(req[r].claims)
    BY <1>5, <2>1, <2>2, WriteAppoints
  <2>4. req[r].actor # u
    BY <1>2, <2>3 DEF Powerless
  <2>5. QED
    BY <2>2, <2>3, <2>4 DEF Appoints
<1>6. QED
  BY <1>4, <1>5

\* Whoever lost the administrator's role everywhere gets it back from another
\* administrator only.
THEOREM DemotionFinal == Spec => DemotionHolds
<1>1. TypeOK /\ Entitled /\ [Next]_vars =>
        [\A u \in Users :
           Powerless(u) => Powerless(u)' \/ \E r \in Requests : Appoints(r, u)]_vars
  BY StepKinds, UserDemotion, RequestDemotion, WriteDemotion
<1>2. QED
  BY <1>1, Typed, PTL DEF Spec, DemotionHolds
=============================================================================
