------------------------------ MODULE Sessions ------------------------------
(***************************************************************************)
(* Login sessions of one user: the refresh-token families that             *)
(* session.service.ts keeps in Postgres, the session keys it keeps in      *)
(* Redis, and the requests that read and write both without a transaction. *)
(*                                                                         *)
(* Every query of the service is by userId or by the hash of a random      *)
(* token, so users are independent and one is enough.  A request is a slot *)
(* of Requests; its pc says which await it is suspended at, and a step is  *)
(* the code between two awaits.  A step of another request may fall        *)
(* between any two of them, in this process or in another PM2 instance.    *)
(*                                                                         *)
(* PRISMA_READ is taken to see the last commit, as in the primary region,  *)
(* where DATABASE_READ_URL is the write database (.env.example:27).  A     *)
(* replica region, which nothing keeps from serving these routes, would    *)
(* look a refresh token up in a row that lags.                             *)
(***************************************************************************)
EXTENDS Naturals

CONSTANTS
  Sessions,   \* Session ids, which are also the ids of the token families.
  Requests,   \* Slots for requests in flight.
  MaxTokens,  \* Bound on the refresh tokens generated for one session.
  Refreshed,  \* Sessions that last until they are refreshed and expire: all,
              \* but for small instances.
  NoSession   \* The session of a slot that works on none.

ASSUME SessionsAssumption ==
  /\ NoSession \notin Sessions
  /\ MaxTokens \in Nat \ {0}
  /\ Refreshed \subseteq Sessions

VARIABLES
  user,       \* Account: "active", "inactive" (isActive = false) or "deleted".
  family,     \* Row of refresh_token_families: "absent", "active", "revoked"
              \* or "pruned" (deleted by the maintenance job).
  current,    \* currentTokenHash of the row; token n of a session is number n.
  expired,    \* Sessions whose expiresAt is past.
  minted,     \* Tokens generated for a session so far.
  keys,       \* Sessions with a key as:{region}:sessions:{user}:{session}.
  delivered,  \* Refresh tokens that reached the client, per session.
  pc,         \* The await a request is suspended at.
  on,         \* The session a login or a refresh works on.
  newTok,     \* The refresh token a request generated and will return.
  scope,      \* Sessions a revocation revokes in Postgres.
  todo,       \* Redis keys a revocation has still to delete.
  spent,      \* History: tokens that were current and have been replaced.
  quiet,      \* History: sessions of the scope that existed when the
              \* revocation began and that no login or refresh touched since.
  closed      \* History: sessions of a revocation that completed quietly.

store    == <<user, family, current, expired, keys>>
slots    == <<pc, on, newTok, scope, todo>>
history  == <<spent, quiet, closed>>
vars     == <<user, family, current, expired, minted, keys, delivered,
              pc, on, newTok, scope, todo, spent, quiet, closed>>

Users    == {"active", "inactive", "deleted"}
Families == {"absent", "active", "revoked", "pruned"}
Tokens   == 0..MaxTokens   \* 0: no token.

\* A login past its database write, or a refresh past its lookup.
Writing  == {"created", "rotate", "rotated", "rewrite", "reread", "respond"}
Revoking == {"scan", "del", "pg"}
PCs      == {"idle", "login", "missed"} \cup Writing \cup Revoking

InFlight(s) == \E r \in Requests : pc[r] \in Writing /\ on[r] = s

\* JwtStrategy.validate: the account is usable and the session key exists.
\* Its checks of the lock and of passwordChangedAt only narrow this further.
AccessAllowed(s) == user = "active" /\ s \in keys

\* A client that can pass the JWT guard on some session.
Authenticated(s) == AccessAllowed(s) /\ delivered[s] # {}

TypeOK ==
  /\ user \in Users
  /\ family \in [Sessions -> Families]
  /\ current \in [Sessions -> Tokens]
  /\ expired \subseteq Sessions
  /\ minted \in [Sessions -> Tokens]
  /\ keys \subseteq Sessions
  /\ delivered \in [Sessions -> SUBSET Tokens]
  /\ pc \in [Requests -> PCs]
  /\ on \in [Requests -> Sessions \cup {NoSession}]
  /\ \A r \in Requests : pc[r] \in Writing \cup {"missed"} => on[r] \in Sessions
  /\ newTok \in [Requests -> Tokens]
  /\ scope \in [Requests -> SUBSET Sessions]
  /\ todo \in [Requests -> SUBSET Sessions]
  /\ spent \in [Sessions -> SUBSET Tokens]
  /\ quiet \in [Requests -> SUBSET Sessions]
  /\ closed \subseteq Sessions

Init ==
  /\ user = "active"
  /\ family = [s \in Sessions |-> "absent"]
  /\ current = [s \in Sessions |-> 0]
  /\ minted = [s \in Sessions |-> 0]
  /\ expired = {}
  /\ keys = {}
  /\ delivered = [s \in Sessions |-> {}]
  /\ pc = [r \in Requests |-> "idle"]
  /\ on = [r \in Requests |-> NoSession]
  /\ newTok = [r \in Requests |-> 0]
  /\ scope = [r \in Requests |-> {}]
  /\ todo = [r \in Requests |-> {}]
  /\ spent = [s \in Sessions |-> {}]
  /\ quiet = [r \in Requests |-> {}]
  /\ closed = {}

GoTo(r, from, to) == pc[r] = from /\ pc' = [pc EXCEPT ![r] = to]

\* The request returns or throws: its slot is free again.
Release(r) ==
  /\ pc' = [pc EXCEPT ![r] = "idle"]
  /\ on' = [on EXCEPT ![r] = NoSession]
  /\ newTok' = [newTok EXCEPT ![r] = 0]
  /\ scope' = [scope EXCEPT ![r] = {}]
  /\ todo' = [todo EXCEPT ![r] = {}]

-----------------------------------------------------------------------------
(* Login: auth.service.ts login and issueTokens, session.service.ts create *)

\* Mutant of Login: the key is set before there is a session at all.
LoginSkipsInsert(r) ==
  /\ user = "active"
  /\ GoTo(r, "idle", "created")
  /\ UNCHANGED <<store, minted, delivered, on, newTok, scope, todo, history>>

\* The account was read, found usable, and the credentials accepted.
Login(r) ==
  /\ user = "active"
  /\ GoTo(r, "idle", "login")
  /\ UNCHANGED <<store, minted, delivered, on, newTok, scope, todo, history>>

\* Mutant of CreateFamily: the key is written before the row.
CreateKeyFirst(r, s) ==
  /\ family[s] = "absent"
  /\ GoTo(r, "login", "created")
  /\ keys' = keys \cup {s}
  /\ on' = [on EXCEPT ![r] = s]
  /\ UNCHANGED <<user, family, current, expired, minted, delivered,
                 newTok, scope, todo, history>>

\* The family row is inserted with the hash of a fresh token.
CreateFamily(r, s) ==
  /\ family[s] = "absent"
  /\ GoTo(r, "login", "created")
  /\ family' = [family EXCEPT ![s] = "active"]
  /\ current' = [current EXCEPT ![s] = 1]
  /\ minted' = [minted EXCEPT ![s] = 1]
  /\ on' = [on EXCEPT ![r] = s]
  /\ newTok' = [newTok EXCEPT ![r] = 1]
  /\ UNCHANGED <<user, expired, keys, delivered, scope, todo, history>>

\* The session key is set in Redis.
SetSessionKey(r) ==
  /\ GoTo(r, "created", "respond")
  /\ keys' = keys \cup {on[r]}
  /\ UNCHANGED <<user, family, current, expired, minted, delivered,
                 on, newTok, scope, todo, history>>

\* The access token is signed and both tokens are returned.
LoginReply(r) ==
  /\ pc[r] = "respond"
  /\ delivered' = [delivered EXCEPT ![on[r]] = @ \cup {newTok[r]}]
  /\ Release(r)
  /\ UNCHANGED <<store, minted, spent, quiet, closed>>

-----------------------------------------------------------------------------
(* Refresh: session.service.ts refresh, auth.service.ts refresh            *)

\* Mutant of LookupFamily: isRevoked is not checked.
LookupIgnoresRevoked(r, s, t) ==
  /\ t \in delivered[s]
  /\ current[s] = t
  /\ family[s] \in {"active", "revoked"}
  /\ s \notin expired
  /\ s \in Refreshed /\ minted[s] < MaxTokens
  /\ GoTo(r, "idle", "rotate")
  /\ minted' = [minted EXCEPT ![s] = @ + 1]
  /\ on' = [on EXCEPT ![r] = s]
  /\ newTok' = [newTok EXCEPT ![r] = minted[s] + 1]
  /\ quiet' = [q \in Requests |-> quiet[q] \ {s}]
  /\ UNCHANGED <<store, delivered, scope, todo, spent, closed>>

\* Mutant of LookupFamily: the presented token is kept, not replaced.
LookupKeepsToken(r, s, t) ==
  /\ t \in delivered[s]
  /\ current[s] = t
  /\ family[s] = "active"
  /\ s \notin expired
  /\ GoTo(r, "idle", "rotate")
  /\ on' = [on EXCEPT ![r] = s]
  /\ newTok' = [newTok EXCEPT ![r] = t]
  /\ quiet' = [q \in Requests |-> quiet[q] \ {s}]
  /\ UNCHANGED <<store, minted, delivered, scope, todo, spent, closed>>

\* The row with the token's hash is found, not revoked, not expired, and
\* the next token is generated.
LookupFamily(r, s, t) ==
  /\ t \in delivered[s]
  /\ current[s] = t
  /\ family[s] = "active"
  /\ s \notin expired
  /\ s \in Refreshed /\ minted[s] < MaxTokens
  /\ GoTo(r, "idle", "rotate")
  /\ minted' = [minted EXCEPT ![s] = @ + 1]
  /\ on' = [on EXCEPT ![r] = s]
  /\ newTok' = [newTok EXCEPT ![r] = minted[s] + 1]
  /\ quiet' = [q \in Requests |-> quiet[q] \ {s}]
  /\ UNCHANGED <<store, delivered, scope, todo, spent, closed>>

\* No row carries the token's hash: the token was replaced earlier (or its
\* row is gone), and findFamilyByReuse is about to look again.
LookupMiss(r, s, t) ==
  /\ s \in Refreshed
  /\ t \in delivered[s]
  /\ current[s] # t \/ family[s] = "pruned"
  /\ GoTo(r, "idle", "missed")
  /\ on' = [on EXCEPT ![r] = s]
  /\ newTok' = [newTok EXCEPT ![r] = t]
  /\ UNCHANGED <<store, minted, delivered, scope, todo, history>>

\* findFamilyByReuse searches revoked rows for the same current hash, finds
\* none, and refresh throws TOKEN_INVALID.
ReuseNotFound(r) ==
  /\ pc[r] = "missed"
  /\ ~ (current[on[r]] = newTok[r] /\ family[on[r]] = "revoked")
  /\ Release(r)
  /\ UNCHANGED <<store, minted, delivered, history>>

\* Mutant of Rotate: the new hash is only written to Redis.
RotateKeepsRow(r) ==
  /\ GoTo(r, "rotate", "rotated")
  /\ family[on[r]] \in {"active", "revoked"}
  /\ UNCHANGED <<store, minted, delivered, on, newTok, scope, todo, history>>

\* The row is updated by id, whatever became of it since the lookup.
Rotate(r) ==
  LET s == on[r] IN
  /\ GoTo(r, "rotate", "rotated")
  /\ family[s] \in {"active", "revoked"}
  /\ spent' = [spent EXCEPT ![s] = @ \cup {current[s]}]
  /\ current' = [current EXCEPT ![s] = newTok[r]]
  /\ UNCHANGED <<user, family, expired, minted, keys, delivered,
                 on, newTok, scope, todo, quiet, closed>>

\* The row was pruned meanwhile: the update throws.
RotateGone(r) ==
  /\ pc[r] = "rotate"
  /\ family[on[r]] = "pruned"
  /\ Release(r)
  /\ UNCHANGED <<store, minted, delivered, history>>

\* The session metadata is read from Redis; it is rewritten only if found.
ReadSessionKey(r) ==
  /\ GoTo(r, "rotated", IF on[r] \in keys THEN "rewrite" ELSE "reread")
  /\ UNCHANGED <<store, minted, delivered, on, newTok, scope, todo, history>>

\* The metadata is set again, whether or not the key still exists.
WriteSessionKey(r) ==
  /\ GoTo(r, "rewrite", "reread")
  /\ keys' = keys \cup {on[r]}
  /\ UNCHANGED <<user, family, current, expired, minted, delivered,
                 on, newTok, scope, todo, history>>

\* findByIdOrFail throws if the account is deleted; otherwise an access
\* token is signed and both tokens are returned.
RefreshReply(r) ==
  /\ pc[r] = "reread"
  /\ delivered' = IF user = "deleted" THEN delivered
                  ELSE [delivered EXCEPT ![on[r]] = @ \cup {newTok[r]}]
  /\ Release(r)
  /\ UNCHANGED <<store, minted, history>>

-----------------------------------------------------------------------------
(* Revocation: session.service.ts revoke, revokeAll, revokeAllExcept       *)

\* A revocation of sc begins; S are the keys it will delete.
BeginRevoke(r, sc, S) ==
  /\ pc[r] \in {"idle", "scan"}
  /\ pc' = [pc EXCEPT ![r] = "del"]
  /\ scope' = [scope EXCEPT ![r] = sc]
  /\ todo' = [todo EXCEPT ![r] = S]
  /\ quiet' = [quiet EXCEPT ![r] =
                 {s \in sc : family[s] # "absent" /\ ~ InFlight(s)}]
  /\ UNCHANGED <<store, minted, delivered, on, newTok, spent, closed>>

\* POST /auth/logout and DELETE /auth/sessions/:id.
Revoke(r, s) ==
  /\ pc[r] = "idle"
  /\ \E c \in Sessions : Authenticated(c)
  /\ BeginRevoke(r, {s}, {s})

\* POST /auth/logout-all and, without a session, POST /auth/reset-password.
RevokeAll(r) ==
  /\ pc[r] = "idle"
  /\ BeginRevoke(r, Sessions, keys)

\* POST /auth/change-password keeps the caller's session.
RevokeAllExcept(r, keep) ==
  /\ pc[r] = "idle"
  /\ Authenticated(keep)
  /\ BeginRevoke(r, Sessions \ {keep}, keys \ {keep})

\* UserEventsListener.revokeAndLog, after the event reached it.
ListenerRevokeAll(r) ==
  /\ pc[r] = "scan"
  /\ BeginRevoke(r, Sessions, keys)

DeleteKey(r, s) ==
  /\ pc[r] = "del"
  /\ s \in todo[r]
  /\ keys' = keys \ {s}
  /\ todo' = [todo EXCEPT ![r] = @ \ {s}]
  /\ UNCHANGED <<user, family, current, expired, minted, delivered,
                 pc, on, newTok, scope, history>>

KeysDeleted(r) ==
  /\ todo[r] = {}
  /\ GoTo(r, "del", "pg")
  /\ UNCHANGED <<store, minted, delivered, on, newTok, scope, todo, history>>

\* Mutant of RevokeFamilies: only the keys are deleted.
RevokeKeysOnly(r) ==
  /\ pc[r] = "pg"
  /\ closed' = closed \cup quiet[r]
  /\ quiet' = [quiet EXCEPT ![r] = {}]
  /\ Release(r)
  /\ UNCHANGED <<store, minted, delivered, spent>>

\* updateMany marks the active rows of the scope revoked; the call returns.
RevokeFamilies(r) ==
  /\ pc[r] = "pg"
  /\ family' = [s \in Sessions |->
                  IF s \in scope[r] /\ family[s] = "active" THEN "revoked"
                  ELSE family[s]]
  /\ closed' = closed \cup quiet[r]
  /\ quiet' = [quiet EXCEPT ![r] = {}]
  /\ Release(r)
  /\ UNCHANGED <<user, current, expired, minted, keys, delivered, spent>>

-----------------------------------------------------------------------------
(* The account: user.service.ts adminUpdate, softDelete, lock, restore     *)

\* isActive = false is committed and user.deactivated emitted: the listener
\* starts in a slot of its own, which nothing awaits.
Deactivate(r) ==
  /\ user = "active"
  /\ GoTo(r, "idle", "scan")
  /\ user' = "inactive"
  /\ UNCHANGED <<family, current, expired, minted, keys, delivered,
                 on, newTok, scope, todo, history>>

SoftDelete(r) ==
  /\ user # "deleted"
  /\ GoTo(r, "idle", "scan")
  /\ user' = "deleted"
  /\ UNCHANGED <<family, current, expired, minted, keys, delivered,
                 on, newTok, scope, todo, history>>

\* user.locked, from an admin or from the fifth failed login, has the same
\* listener; the columns it sets are left out (see AccessAllowed).
LockAccount(r) ==
  /\ GoTo(r, "idle", "scan")
  /\ UNCHANGED <<store, minted, delivered, on, newTok, scope, todo, history>>

\* adminUpdate with isActive = true on an inactive account, or restore.
Reactivate ==
  /\ user # "active"
  /\ user' = "active"
  /\ UNCHANGED <<family, current, expired, minted, keys, delivered,
                 slots, history>>

-----------------------------------------------------------------------------
(* Time, maintenance and failures                                          *)

\* expiresAt passes; refreshing a session never moves it.
Expire(s) ==
  /\ family[s] \in {"active", "revoked"}
  /\ s \in Refreshed \ expired
  /\ expired' = expired \cup {s}
  /\ UNCHANGED <<user, family, current, minted, keys, delivered,
                 slots, history>>

\* The key's TTL, set with the row and again by each refresh, runs out.
KeyExpires(s) ==
  /\ s \in expired
  /\ s \in keys
  /\ keys' = keys \ {s}
  /\ UNCHANGED <<user, family, current, expired, minted, delivered,
                 slots, history>>

\* prune-expired-refresh-families deletes every expired row.
PruneFamilies ==
  /\ \E s \in expired : family[s] # "pruned"
  /\ family' = [s \in Sessions |-> IF s \in expired THEN "pruned" ELSE family[s]]
  /\ UNCHANGED <<user, current, expired, minted, keys, delivered,
                 slots, history>>

\* A query, a Redis call or the process fails at an await: what was written
\* stays, the rest is never done.
Fail(r) ==
  /\ pc[r] # "idle"
  /\ Release(r)
  /\ quiet' = [quiet EXCEPT ![r] = {}]
  /\ UNCHANGED <<store, minted, delivered, spent, closed>>

LoginStep(r) ==
  \/ Login(r)
  \/ \E s \in Sessions : CreateFamily(r, s)
  \/ SetSessionKey(r)
  \/ LoginReply(r)

RefreshStep(r) ==
  \/ \E s \in Sessions : \E t \in delivered[s] : LookupFamily(r, s, t)
  \/ \E s \in Sessions : \E t \in delivered[s] : LookupMiss(r, s, t)
  \/ ReuseNotFound(r)
  \/ Rotate(r)
  \/ RotateGone(r)
  \/ ReadSessionKey(r)
  \/ WriteSessionKey(r)
  \/ RefreshReply(r)

RevokeStep(r) ==
  \/ \E s \in Sessions : Revoke(r, s)
  \/ RevokeAll(r)
  \/ \E s \in Sessions : RevokeAllExcept(r, s)
  \/ ListenerRevokeAll(r)
  \/ \E s \in Sessions : DeleteKey(r, s)
  \/ KeysDeleted(r)
  \/ RevokeFamilies(r)

Next ==
  \/ \E r \in Requests : \/ LoginStep(r)
                         \/ RefreshStep(r)
                         \/ RevokeStep(r)
                         \/ Deactivate(r)
                         \/ SoftDelete(r)
                         \/ LockAccount(r)
                         \/ Fail(r)
  \/ Reactivate
  \/ \E s \in Sessions : Expire(s) \/ KeyExpires(s)
  \/ PruneFamilies

Spec == Init /\ [][Next]_vars

-----------------------------------------------------------------------------
(* Properties                                                              *)

\* A session key exists only for a session whose family row was written:
\* create inserts the row first, so a crash between its two writes, or a
\* refresh that rewrites the metadata late, never leaves a session that no
\* revocation by row could reach.
KeyHasFamily == \A s \in keys : family[s] # "absent"

\* A refresh token that reached a client was stored as the current hash of
\* its family at some time: no crash, lost update or concurrent refresh hands
\* out a token the database never knew.
StoredBeforeDelivered ==
  \A s \in Sessions : delivered[s] \subseteq spent[s] \cup {current[s]}

\* A token that was replaced is never accepted again: although the update
\* of refresh is by id alone and two refreshes may write in either order, no
\* order brings an old hash back.
NoTokenRevival == \A s \in Sessions : current[s] \notin spent[s]

\* Logout, logout-all, password change and deactivation are final: once a
\* revocation completed, a session that no login or refresh touched while it
\* ran has no key, no active row, and nobody in flight who would write one.
LogoutIsFinal ==
  \A s \in closed : /\ s \notin keys
                    /\ family[s] # "active"
                    /\ ~ InFlight(s)

\* And nothing is ever issued for such a session again: no step rotates its
\* token, delivers one, or lets its access tokens pass the JWT guard.
NothingAfterLogout ==
  [][\A s \in closed : /\ current'[s] = current[s]
                       /\ delivered'[s] = delivered[s]
                       /\ ~ AccessAllowed(s)']_vars

Contract == INSTANCE SessionContract WITH
  Tokens <- 1..MaxTokens, NoToken <- 0,
  head <- current, used <- spent, handed <- delivered, ended <- closed

\* Seen from the client, concurrent logins, refreshes and revocations over two
\* stores are steps of one session that advances from token to token and ends.
KeepsContract == Contract!Spec

\* The claim of plan.md 15.7 and of the header of session.service.ts that a
\* replayed refresh token revokes its family.
ReplayRevokesFamily ==
  [][\A r \in Requests : ReuseNotFound(r) => family'[on[r]] # "active"]_vars
=============================================================================
