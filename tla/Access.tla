------------------------------- MODULE Access -------------------------------
(***************************************************************************)
(* Who may do what to whom: the rows of the users as administrators edit   *)
(* them, the read replica every check looks at, and the access tokens      *)
(* whose payload carries the roles and the tenant of an earlier row.       *)
(*                                                                         *)
(* A request is one call of UserController.  It passes the guards with the *)
(* payload of its token (req.user), reads its target from the replica and  *)
(* writes to the primary, with an await before each.  Names, e-mail        *)
(* verification and locks are left out: Accounts has the locks.  A user    *)
(* has one session; Sessions has the rest.                                 *)
(***************************************************************************)
EXTENDS FiniteSets

CONSTANTS
  Users,     \* Ids of users.
  Tenants,   \* Ids of tenants.
  NoTenant,  \* tenantId null.
  None,      \* No row, and no token.
  Staff,     \* The rows at the start.
  Grants,    \* Sets of roles administrators give.
  Requests   \* Requests to UserController; each is made once.

Roles     == {"user", "tenant-admin", "admin"}
Places    == Tenants \cup {NoTenant}
Row       == [roles : SUBSET Roles, tenant : Places, flags : SUBSET {"active", "deleted"}]
Claims    == [roles : SUBSET Roles, tenant : Places]

ASSUME AccessAssumption ==
  /\ Staff \in [Users -> Row \cup {None}]
  /\ Grants \subseteq SUBSET Roles

\* The permissions of UserController, of which flattenRoles takes the union.
Bundle(role) ==
  CASE role = "user"         -> {"read:self", "write:self"}
    [] role = "tenant-admin" -> {"read:self", "write:self", "read:tenant", "write:tenant",
                                 "list:tenant", "lock:tenant"}
    [] role = "admin"        -> {"read:self", "write:self", "read:any", "write:any", "create",
                                 "delete", "restore", "list:any", "lock:any"}

Permissions(roles) == UNION {Bundle(role) : role \in roles}

Routes == {"getById", "list", "create", "update", "softDelete", "restore", "lock", "unlock"}

\* The permissions a route asks one of.
Required(route) ==
  CASE route = "getById"          -> {"read:self", "read:tenant", "read:any"}
    [] route = "list"             -> {"list:tenant", "list:any"}
    [] route = "create"           -> {"create"}
    [] route = "update"           -> {"write:tenant", "write:any"}
    [] route = "softDelete"       -> {"delete"}
    [] route = "restore"          -> {"restore"}
    [] route \in {"lock", "unlock"} -> {"lock:tenant", "lock:any"}

\* PermissionsGuard: a self permission counts for the caller's own record only.
Permitted(claims, route, u, v) ==
  \E perm \in Required(route) \cap Permissions(claims.roles) : perm = "read:self" => u = v

\* The permission that lifts the tenant filter of a route.
Unscoped(claims, route) ==
  LET held == Permissions(claims.roles) IN
  \/ route = "getById" /\ "read:any" \in held
  \/ route = "list" /\ "list:any" \in held
  \/ route = "update" /\ "write:any" \in held
  \/ route \in {"lock", "unlock"} /\ "lock:any" \in held
  \/ route \in {"create", "softDelete", "restore"}

\* The fields of AdminUpdateUserDto and AdminCreateUserDto; {} leaves one as
\* it is.
Data == [roles : Grants \cup {{}}, tenant : SUBSET Tenants, active : SUBSET {"on", "off"}]

\* One field of the three: an update of several does what updates of each do.
Edits ==
  {[roles |-> roles, tenant |-> {}, active |-> {}] : roles \in Grants}
  \cup {[roles |-> {}, tenant |-> {t}, active |-> {}] : t \in Tenants}
  \cup {[roles |-> {}, tenant |-> {}, active |-> {a}] : a \in {"on", "off"}}

Blank == [roles |-> {}, tenant |-> {}, active |-> {}]

VARIABLES
  rows,     \* The users in the primary.
  replica,  \* The users as PRISMA_READ sees them.
  token,    \* Payload of the last access token of a user's session, or None.
  expired,  \* Users whose access token is past its exp.
  purging,  \* Users whose sessions a listener is about to revoke.
  pc,       \* The await a request is suspended at.
  req,      \* A request: caller, payload, route, target, body.
  seen,     \* Row of the target that an update read.
  trusted,  \* History: first administrators, and whom a trusted one appointed.
  past,     \* History: every tenant a user was in.
  reached   \* History: <<u, v>> when u read or wrote the row of another user v
            \* in the scope of a tenant.

vars == <<rows, replica, token, expired, purging, pc, req, seen, trusted, past, reached>>

Request == [actor : Users, claims : Claims, route : Routes, target : Users, data : Data]

ASSUME NoneAssumption == None \notin Row \cup Claims \cup Request

TypeOK ==
  /\ rows \in [Users -> Row \cup {None}]
  /\ replica \in [Users -> Row \cup {None}]
  /\ token \in [Users -> Claims \cup {None}]
  /\ expired \subseteq Users
  /\ purging \subseteq Users
  /\ pc \in [Requests -> {"idle", "reading", "writing", "done"}]
  /\ req \in [Requests -> Request \cup {None}]
  /\ seen \in [Requests -> Row \cup {None}]
  /\ \A r \in Requests : pc[r] \in {"reading", "writing"} => req[r] # None
  /\ \A r \in Requests :
       pc[r] = "writing" /\ req[r].route = "update" => seen[r] # None
  /\ trusted \subseteq Users
  /\ past \in [Users -> SUBSET Places]
  /\ reached \subseteq Users \X Users

IsAdmin(holder) == holder # None /\ "admin" \in holder.roles

Init ==
  /\ rows = Staff
  /\ replica = Staff
  /\ token = [u \in Users |-> None]
  /\ expired = {}
  /\ purging = {}
  /\ pc = [r \in Requests |-> "idle"]
  /\ req = [r \in Requests |-> None]
  /\ seen = [r \in Requests |-> None]
  /\ trusted = {u \in Users : IsAdmin(Staff[u])}
  /\ past = [u \in Users |-> {t \in Places : Staff[u] # None /\ Staff[u].tenant = t}]
  /\ reached = {}

Visible(row) == row # None /\ "deleted" \notin row.flags
Usable(row)  == Visible(row) /\ "active" \in row.flags
Payload(row) == [roles |-> row.roles, tenant |-> row.tenant]

requests == <<pc, req, seen>>
history  == <<trusted, past, reached>>

-----------------------------------------------------------------------------
(* Tokens and the replica                                                  *)

\* A new account is a plain user without a tenant, and is signed in.
Register(u) ==
  LET row == [roles |-> {"user"}, tenant |-> NoTenant, flags |-> {"active"}] IN
  /\ rows[u] = None
  /\ rows' = [rows EXCEPT ![u] = row]
  /\ token' = [token EXCEPT ![u] = Payload(row)]
  /\ past' = [past EXCEPT ![u] = @ \cup {NoTenant}]
  /\ UNCHANGED <<replica, expired, purging, requests, trusted, reached>>

Login(u) ==
  /\ token[u] = None
  /\ Usable(replica[u])
  /\ token' = [token EXCEPT ![u] = Payload(replica[u])]
  /\ expired' = expired \ {u}
  /\ UNCHANGED <<rows, replica, purging, requests, history>>

\* Mutant of Refresh: the payload of the old token is signed again.
RefreshSameClaims(u) ==
  /\ token[u] # None
  /\ Usable(replica[u])
  /\ expired' = expired \ {u}
  /\ UNCHANGED <<rows, replica, token, purging, requests, history>>

Refresh(u) ==
  /\ token[u] # None
  /\ Usable(replica[u])
  /\ token' = [token EXCEPT ![u] = Payload(replica[u])]
  /\ expired' = expired \ {u}
  /\ UNCHANGED <<rows, replica, purging, requests, history>>

Expire(u) ==
  /\ token[u] # None
  /\ u \notin expired
  /\ expired' = expired \cup {u}
  /\ UNCHANGED <<rows, replica, token, purging, requests, history>>

Replicate(u) ==
  /\ replica[u] # rows[u]
  /\ replica' = [replica EXCEPT ![u] = rows[u]]
  /\ UNCHANGED <<rows, token, expired, purging, requests, history>>

\* The listener revokes all sessions of the user.
Purge(u) ==
  /\ u \in purging
  /\ purging' = purging \ {u}
  /\ token' = [token EXCEPT ![u] = None]
  /\ expired' = expired \ {u}
  /\ UNCHANGED <<rows, replica, requests, history>>

-----------------------------------------------------------------------------
(* UserController                                                          *)

\* JwtStrategy.validate: the row of the replica, and a session that exists.
Authenticated(u) == token[u] # None /\ u \notin expired /\ Usable(replica[u])

\* Mutant of FieldsAllowed: nothing is forbidden.
AnyField(claims, route, data) == TRUE

\* Roles and tenants are changed with USER_WRITE_ANY only.
FieldsAllowed(claims, route, data) ==
  route = "update" /\ ~ Unscoped(claims, route) => data.roles = {} /\ data.tenant = {}

Bodies(route) ==
  CASE route = "update" -> Edits
    [] route = "create" -> {[roles |-> g, tenant |-> t, active |-> {}] :
                              g \in Grants, t \in {{}} \cup {{x} : x \in Tenants}}
    [] OTHER            -> {Blank}

\* Does the handler look at the target before it writes?
ReadsFirst(claims, route) ==
  route \in {"getById", "list", "update"} \/ ~ Unscoped(claims, route)

Begin(r, u, route, v, data) ==
  /\ pc[r] = "idle"
  /\ Authenticated(u)
  /\ Permitted(token[u], route, u, v)
  /\ FieldsAllowed(token[u], route, data)
  /\ req' = [req EXCEPT ![r] = [actor |-> u, claims |-> token[u], route |-> route,
                                target |-> v, data |-> data]]
  /\ pc' = [pc EXCEPT ![r] = IF ReadsFirst(token[u], route) THEN "reading" ELSE "writing"]
  /\ UNCHANGED <<rows, replica, token, expired, purging, seen, history>>

\* Mutant of InScope: the tenant is not compared.
InScopeAnywhere(r) == Visible(replica[req[r].target])

\* The target exists and, for a scoped caller, is in the tenant of the token.
InScope(r) ==
  LET q == req[r] IN
  /\ Visible(replica[q.target])
  /\ \/ Unscoped(q.claims, q.route)
     \/ replica[q.target].tenant = q.claims.tenant
     \/ q.route = "getById" /\ q.actor = q.target

\* The request is answered.
Finish(r) ==
  /\ pc' = [pc EXCEPT ![r] = "done"]
  /\ req' = [req EXCEPT ![r] = None]
  /\ seen' = [seen EXCEPT ![r] = None]

\* Rows of others that a caller reaches because of a tenant.
Reach(r, targets) ==
  LET q == req[r] IN
  reached' = IF Unscoped(q.claims, q.route) THEN reached
             ELSE reached \cup {<<q.actor, v>> : v \in targets \ {q.actor}}

\* GET :id with enforceReadScope.
GetById(r) ==
  /\ pc[r] = "reading" /\ req[r].route = "getById"
  /\ InScope(r)
  /\ Reach(r, {req[r].target})
  /\ Finish(r)
  /\ UNCHANGED <<rows, replica, token, expired, purging, trusted, past>>

\* buildListWhere: all rows, or those of the caller's tenant.
List(r) ==
  /\ pc[r] = "reading" /\ req[r].route = "list"
  /\ Reach(r, {v \in Users : /\ Visible(replica[v])
                             /\ replica[v].tenant = req[r].claims.tenant})
  /\ Finish(r)
  /\ UNCHANGED <<rows, replica, token, expired, purging, trusted, past>>

\* Mutant of ReadTarget: the row is not kept for the comparisons.
ReadTargetForgets(r) ==
  /\ pc[r] = "reading" /\ req[r].route \in {"update", "lock", "unlock"}
  /\ InScope(r)
  /\ Reach(r, {req[r].target})
  /\ pc' = [pc EXCEPT ![r] = "writing"]
  /\ UNCHANGED <<rows, replica, token, expired, purging, req, seen, trusted, past>>

\* adminUpdate, lock and unlock find their target.
ReadTarget(r) ==
  /\ pc[r] = "reading" /\ req[r].route \in {"update", "lock", "unlock"}
  /\ InScope(r)
  /\ seen' = [seen EXCEPT ![r] = replica[req[r].target]]
  /\ Reach(r, {req[r].target})
  /\ pc' = [pc EXCEPT ![r] = "writing"]
  /\ UNCHANGED <<rows, replica, token, expired, purging, req, trusted, past>>

\* USER_NOT_FOUND.
RefuseTarget(r) ==
  /\ pc[r] = "reading" /\ req[r].route # "list"
  /\ ~ InScope(r)
  /\ Finish(r)
  /\ UNCHANGED <<rows, replica, token, expired, purging, history>>

\* The row of the target is written by id; who is appointed is trusted if the
\* caller is.
Store(r, row) ==
  LET v == req[r].target IN
  /\ rows' = [rows EXCEPT ![v] = row]
  /\ past' = [past EXCEPT ![v] = @ \cup {row.tenant}]
  /\ trusted' = trusted \cup {w \in {v} : IsAdmin(row) /\ req[r].actor \in trusted}
  /\ Finish(r)
  /\ UNCHANGED <<replica, token, expired, reached>>

\* The event is emitted, unless the process dies first.
Emit(v) == purging' \in {purging, purging \cup {v}}

\* The e-mail's index refuses a second row.
Create(r) ==
  LET q == req[r] IN
  /\ pc[r] = "writing" /\ q.route = "create"
  /\ rows[q.target] = None
  /\ \E t \in Places :
       /\ IF q.data.tenant = {} THEN t = NoTenant ELSE t \in q.data.tenant
       /\ Store(r, [roles |-> q.data.roles, tenant |-> t, flags |-> {"active"}])
  /\ UNCHANGED purging

\* isActive is written if it differs from the row that was read.
NewFlags(old, data, read) ==
  CASE data.active = {"on"} /\ "active" \notin read.flags -> old \cup {"active"}
    [] data.active = {"off"} /\ "active" \in read.flags   -> old \ {"active"}
    [] OTHER                                              -> old

Update(r) ==
  LET q    == req[r]
      row  == rows[q.target]
  IN
  /\ pc[r] = "writing" /\ q.route = "update"
  /\ row # None
  /\ \E t \in Places :
       /\ IF q.data.tenant = {} THEN t = row.tenant ELSE t \in q.data.tenant
       /\ Store(r, [roles  |-> IF q.data.roles = {} THEN row.roles ELSE q.data.roles,
                    tenant |-> t,
                    flags  |-> NewFlags(row.flags, q.data, seen[r])])
  /\ IF q.data.active = {"off"} /\ "active" \in seen[r].flags
       THEN Emit(q.target)
       ELSE UNCHANGED purging

SoftDelete(r) ==
  LET row == rows[req[r].target] IN
  /\ pc[r] = "writing" /\ req[r].route = "softDelete"
  /\ row # None
  /\ Store(r, [row EXCEPT !.flags = {"deleted"}])
  /\ Emit(req[r].target)

Restore(r) ==
  LET row == rows[req[r].target] IN
  /\ pc[r] = "writing" /\ req[r].route = "restore"
  /\ row # None
  /\ Store(r, [row EXCEPT !.flags = {"active"}])
  /\ UNCHANGED purging

\* lock and unlock, of which the lock ends the sessions.
SetLock(r) ==
  LET row == rows[req[r].target] IN
  /\ pc[r] = "writing" /\ req[r].route \in {"lock", "unlock"}
  /\ row # None
  /\ Store(r, row)
  /\ IF req[r].route = "lock" THEN Emit(req[r].target) ELSE UNCHANGED purging

\* A row that does not exist or exists already, an error of a database or the
\* end of the process.
Fail(r) ==
  /\ pc[r] \in {"reading", "writing"}
  /\ Finish(r)
  /\ UNCHANGED <<rows, replica, token, expired, purging, history>>

Step(r) ==
  \/ GetById(r) \/ List(r) \/ ReadTarget(r) \/ RefuseTarget(r)
  \/ Create(r) \/ Update(r) \/ SoftDelete(r) \/ Restore(r) \/ SetLock(r)
  \/ Fail(r)

Next ==
  \/ \E u \in Users :
       Register(u) \/ Login(u) \/ Refresh(u) \/ Expire(u) \/ Replicate(u) \/ Purge(u)
  \/ \E r \in Requests, u, v \in Users, route \in Routes :
       \E data \in Bodies(route) : Begin(r, u, route, v, data)
  \/ \E r \in Requests : Step(r)

Spec == Init /\ [][Next]_vars

\* Access tokens reach their exp, the replica catches up, and requests end.
LiveSpec ==
  /\ Spec
  /\ \A u \in Users : WF_vars(Expire(u)) /\ WF_vars(Replicate(u))
  /\ \A r \in Requests : WF_vars(Step(r))

-----------------------------------------------------------------------------
(* Properties                                                              *)

\* Nobody makes himself an administrator: whoever is one, in the primary, the
\* replica, a token or a request under way, was one at the start or was
\* appointed along a chain of administrators that begins there, although
\* roles in tokens outlive those in the rows.
NoSelfMadeAdmin ==
  /\ \A u \in Users :
       IsAdmin(rows[u]) \/ IsAdmin(replica[u]) \/ IsAdmin(token[u]) => u \in trusted
  /\ \A r \in Requests : req[r] # None /\ IsAdmin(req[r].claims) => req[r].actor \in trusted

\* Tenants are kept apart: a caller scoped to a tenant reads and writes only
\* his own row and rows of users that were in a tenant he was in himself,
\* however stale his token and the replica are.
TenantBoundary ==
  \A pair \in reached : pair[1] = pair[2] \/ past[pair[1]] \cap past[pair[2]] # {}

\* A role that is taken away for good is gone from tokens and requests some
\* day, though the change neither revokes tokens nor waits for the replica.
RolesPropagate ==
  \A u \in Users :
    <>[](~ IsAdmin(rows[u])) =>
      <>[](/\ ~ (IsAdmin(token[u]) /\ u \notin expired)
           /\ \A r \in Requests :
                pc[r] \in {"reading", "writing"} /\ req[r].actor = u => ~ IsAdmin(req[r].claims))
=============================================================================
