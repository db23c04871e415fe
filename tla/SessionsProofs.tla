--------------------------- MODULE SessionsProofs ---------------------------
(***************************************************************************)
(* Proofs about Sessions for every set of sessions, of requests and every  *)
(* bound on tokens.  TypeOK is inductive by itself; the other invariants   *)
(* are not, and IInv adds what the requests in flight are allowed to hold. *)
(***************************************************************************)
EXTENDS Sessions, TLAPS

\* What a request past its database write holds: a row, and a stored token.
Stored == {"created", "rotated", "rewrite", "reread", "respond"}

\* A session in use has a row; one without a row has no token.
RowInv ==
  /\ KeyHasFamily
  /\ \A r \in Requests : pc[r] \in Writing => family[on[r]] # "absent"
  /\ \A s \in Sessions : s \in expired => family[s] # "absent"
  /\ \A s \in Sessions : family[s] = "absent" =>
       minted[s] = 0 /\ current[s] = 0 /\ spent[s] = {} /\ delivered[s] = {}

\* A generated token that is not stored yet is new to its family, and no two
\* requests hold the same one.
TokenInv ==
  /\ \A s \in Sessions : \A t \in spent[s] \cup {current[s]} : t <= minted[s]
  /\ \A s \in Sessions : 0 \notin spent[s]
  /\ \A s \in Sessions : family[s] # "absent" => current[s] # 0
  /\ NoTokenRevival
  /\ StoredBeforeDelivered
  /\ \A r \in Requests : pc[r] = "rotate" =>
       /\ newTok[r] \in 1..minted[on[r]]
       /\ newTok[r] # current[on[r]]
       /\ newTok[r] \notin spent[on[r]]
  /\ \A r, q \in Requests :
       pc[r] = "rotate" /\ pc[q] = "rotate" /\ on[r] = on[q]
         /\ newTok[r] = newTok[q] => r = q
  /\ \A r \in Requests : pc[r] \in Stored =>
       newTok[r] \in spent[on[r]] \cup {current[on[r]]}

\* A session that stayed quiet during a revocation has its key on the list
\* until the key is deleted, and nobody in flight to set it again.
QuietInv ==
  \A r \in Requests : \A s \in quiet[r] :
    /\ pc[r] \in {"del", "pg"}
    /\ s \in scope[r]
    /\ family[s] # "absent"
    /\ \A q \in Requests : pc[q] \in Writing => on[q] # s
    /\ s \in keys => pc[r] = "del" /\ s \in todo[r]

\* LogoutIsFinal, and a closed session's row was revoked or pruned.
ClosedInv ==
  \A s \in closed :
    /\ s \notin keys
    /\ family[s] \in {"revoked", "pruned"}
    /\ \A q \in Requests : pc[q] \in Writing => on[q] # s

IInv == TypeOK /\ RowInv /\ TokenInv /\ QuietInv /\ ClosedInv

\* The type invariant holds initially.
LEMMA InitType == Init => TypeOK
  BY SessionsAssumption DEF Init, TypeOK, Users, Families, Tokens, PCs, Writing, Revoking

\* Every step keeps the type invariant.
LEMMA NextType == TypeOK /\ [Next]_vars => TypeOK'
<1> SUFFICES ASSUME TypeOK, [Next]_vars PROVE TypeOK'
  OBVIOUS
<1> USE SessionsAssumption DEF TypeOK, Users, Families, Tokens, PCs, Writing,
        Revoking, store, slots, history, GoTo, Release
<1>1. ASSUME NEW r \in Requests, LoginStep(r) PROVE TypeOK'
  <2>1. CASE Login(r)
    BY <2>1 DEF Login
  <2>2. ASSUME NEW s \in Sessions, CreateFamily(r, s) PROVE TypeOK'
    BY <2>2 DEF CreateFamily
  <2>3. CASE SetSessionKey(r)
    BY <2>3 DEF SetSessionKey
  <2>4. CASE LoginReply(r)
    BY <2>4 DEF LoginReply
  <2>5. QED
    BY <1>1, <2>1, <2>2, <2>3, <2>4 DEF LoginStep
<1>2. ASSUME NEW r \in Requests, RefreshStep(r) PROVE TypeOK'
  <2>1. ASSUME NEW s \in Sessions, NEW t \in delivered[s], LookupFamily(r, s, t)
        PROVE TypeOK'
    BY <2>1 DEF LookupFamily
  <2>2. ASSUME NEW s \in Sessions, NEW t \in delivered[s], LookupMiss(r, s, t)
        PROVE TypeOK'
    BY <2>2 DEF LookupMiss
  <2>3. CASE ReuseNotFound(r)
    BY <2>3 DEF ReuseNotFound
  <2>4. CASE Rotate(r)
    BY <2>4 DEF Rotate
  <2>5. CASE RotateGone(r)
    BY <2>5 DEF RotateGone
  <2>6. CASE ReadSessionKey(r)
    BY <2>6 DEF ReadSessionKey
  <2>7. CASE WriteSessionKey(r)
    BY <2>7 DEF WriteSessionKey
  <2>8. CASE RefreshReply(r)
    BY <2>8 DEF RefreshReply
  <2>9. QED
    BY <1>2, <2>1, <2>2, <2>3, <2>4, <2>5, <2>6, <2>7, <2>8 DEF RefreshStep
<1>3. ASSUME NEW r \in Requests, RevokeStep(r) PROVE TypeOK'
  <2>1. ASSUME NEW s \in Sessions, Revoke(r, s) PROVE TypeOK'
    BY <2>1 DEF Revoke, BeginRevoke
  <2>2. CASE RevokeAll(r)
    BY <2>2 DEF RevokeAll, BeginRevoke
  <2>3. ASSUME NEW s \in Sessions, RevokeAllExcept(r, s) PROVE TypeOK'
    BY <2>3 DEF RevokeAllExcept, BeginRevoke
  <2>4. CASE ListenerRevokeAll(r)
    BY <2>4 DEF ListenerRevokeAll, BeginRevoke
  <2>5. ASSUME NEW s \in Sessions, DeleteKey(r, s) PROVE TypeOK'
    BY <2>5 DEF DeleteKey
  <2>6. CASE KeysDeleted(r)
    BY <2>6 DEF KeysDeleted
  <2>7. CASE RevokeFamilies(r)
    BY <2>7 DEF RevokeFamilies
  <2>8. QED
    BY <1>3, <2>1, <2>2, <2>3, <2>4, <2>5, <2>6, <2>7 DEF RevokeStep
<1>4. ASSUME NEW r \in Requests, Deactivate(r) \/ SoftDelete(r) \/ LockAccount(r) PROVE TypeOK'
  BY <1>4 DEF Deactivate, SoftDelete, LockAccount
<1>5. ASSUME NEW r \in Requests, Fail(r) PROVE TypeOK'
  BY <1>5 DEF Fail
<1>6. CASE Reactivate
  BY <1>6 DEF Reactivate
<1>7. ASSUME NEW s \in Sessions, Expire(s) \/ KeyExpires(s) PROVE TypeOK'
  BY <1>7 DEF Expire, KeyExpires
<1>8. CASE PruneFamilies
  BY <1>8 DEF PruneFamilies
<1>9. CASE UNCHANGED vars
  BY <1>9 DEF vars
<1>10. QED
  BY <1>1, <1>2, <1>3, <1>4, <1>5, <1>6, <1>7, <1>8, <1>9 DEF Next

\* Type correctness: whatever interleaving of logins, refreshes, revocations
\* and failures, each variable keeps its type, and a family's current token
\* is one that was generated for it.
THEOREM TypeCorrect == Spec => []TypeOK
  BY InitType, NextType, PTL DEF Spec

\* Every step keeps the rows consistent with what refers to them.
LEMMA NextRow ==
  ASSUME IInv, TypeOK', [Next]_vars PROVE RowInv'
<1> USE SessionsAssumption DEF IInv, TypeOK, Users, Families, Tokens, PCs, Writing,
        Revoking, store, slots, history, GoTo, Release, RowInv, KeyHasFamily
<1>1. ASSUME NEW r \in Requests, LoginStep(r) PROVE RowInv'
  <2>1. CASE Login(r)
    BY <2>1 DEF Login
  <2>2. ASSUME NEW s \in Sessions, CreateFamily(r, s)
        PROVE RowInv'
    BY <2>2 DEF CreateFamily
  <2>3. CASE SetSessionKey(r)
    BY <2>3 DEF SetSessionKey
  <2>4. CASE LoginReply(r)
    BY <2>4 DEF LoginReply
  <2>5. QED
    BY <1>1, <2>1, <2>2, <2>3, <2>4 DEF LoginStep
<1>2. ASSUME NEW r \in Requests, RefreshStep(r) PROVE RowInv'
  <2>1. ASSUME NEW s \in Sessions, NEW t \in delivered[s], LookupFamily(r, s, t)
        PROVE RowInv'
    BY <2>1 DEF LookupFamily
  <2>2. ASSUME NEW s \in Sessions, NEW t \in delivered[s], LookupMiss(r, s, t)
        PROVE RowInv'
    BY <2>2 DEF LookupMiss
  <2>3. CASE ReuseNotFound(r)
    BY <2>3 DEF ReuseNotFound
  <2>4. CASE Rotate(r)
    BY <2>4 DEF Rotate
  <2>5. CASE RotateGone(r)
    BY <2>5 DEF RotateGone
  <2>6. CASE ReadSessionKey(r)
    BY <2>6 DEF ReadSessionKey
  <2>7. CASE WriteSessionKey(r)
    BY <2>7 DEF WriteSessionKey
  <2>8. CASE RefreshReply(r)
    BY <2>8 DEF RefreshReply
  <2>9. QED
    BY <1>2, <2>1, <2>2, <2>3, <2>4, <2>5, <2>6, <2>7, <2>8 DEF RefreshStep
<1>3. ASSUME NEW r \in Requests, RevokeStep(r) PROVE RowInv'
  <2>1. ASSUME NEW s \in Sessions, Revoke(r, s)
        PROVE RowInv'
    BY <2>1 DEF Revoke, BeginRevoke
  <2>2. CASE RevokeAll(r)
    BY <2>2 DEF RevokeAll, BeginRevoke
  <2>3. ASSUME NEW s \in Sessions, RevokeAllExcept(r, s)
        PROVE RowInv'
    BY <2>3 DEF RevokeAllExcept, BeginRevoke
  <2>4. CASE ListenerRevokeAll(r)
    BY <2>4 DEF ListenerRevokeAll, BeginRevoke
  <2>5. ASSUME NEW s \in Sessions, DeleteKey(r, s)
        PROVE RowInv'
    BY <2>5 DEF DeleteKey
  <2>6. CASE KeysDeleted(r)
    BY <2>6 DEF KeysDeleted
  <2>7. CASE RevokeFamilies(r)
    BY <2>7 DEF RevokeFamilies
  <2>8. QED
    BY <1>3, <2>1, <2>2, <2>3, <2>4, <2>5, <2>6, <2>7 DEF RevokeStep
<1>4. ASSUME NEW r \in Requests, Deactivate(r) \/ SoftDelete(r) \/ LockAccount(r) PROVE RowInv'
  BY <1>4 DEF Deactivate, SoftDelete, LockAccount
<1>5. ASSUME NEW r \in Requests, Fail(r) PROVE RowInv'
  BY <1>5 DEF Fail
<1>6. CASE Reactivate
  BY <1>6 DEF Reactivate
<1>7. ASSUME NEW s \in Sessions, Expire(s) \/ KeyExpires(s) PROVE RowInv'
  BY <1>7 DEF Expire, KeyExpires
<1>8. CASE PruneFamilies
  BY <1>8 DEF PruneFamilies
<1>9. CASE UNCHANGED vars
  BY <1>9 DEF vars
<1>10. QED
  BY <1>1, <1>2, <1>3, <1>4, <1>5, <1>6, <1>7, <1>8, <1>9 DEF Next

\* Every step keeps the tokens in flight fresh and distinct.
LEMMA NextToken ==
  ASSUME IInv, TypeOK', [Next]_vars PROVE TokenInv'
<1> USE SessionsAssumption DEF IInv, TypeOK, Users, Families, Tokens, PCs, Writing,
        Revoking, store, slots, history, GoTo, Release, RowInv, KeyHasFamily, TokenInv, NoTokenRevival, StoredBeforeDelivered, Stored
<1>1. ASSUME NEW r \in Requests, LoginStep(r) PROVE TokenInv'
  <2>1. CASE Login(r)
    BY <2>1 DEF Login
  <2>2. ASSUME NEW s \in Sessions, CreateFamily(r, s)
        PROVE TokenInv'
    BY <2>2 DEF CreateFamily
  <2>3. CASE SetSessionKey(r)
    BY <2>3 DEF SetSessionKey
  <2>4. CASE LoginReply(r)
    BY <2>4 DEF LoginReply
  <2>5. QED
    BY <1>1, <2>1, <2>2, <2>3, <2>4 DEF LoginStep
<1>2. ASSUME NEW r \in Requests, RefreshStep(r) PROVE TokenInv'
  <2>1. ASSUME NEW s \in Sessions, NEW t \in delivered[s], LookupFamily(r, s, t)
        PROVE TokenInv'
    BY <2>1 DEF LookupFamily
  <2>2. ASSUME NEW s \in Sessions, NEW t \in delivered[s], LookupMiss(r, s, t)
        PROVE TokenInv'
    BY <2>2 DEF LookupMiss
  <2>3. CASE ReuseNotFound(r)
    BY <2>3 DEF ReuseNotFound
  <2>4. CASE Rotate(r)
    BY <2>4 DEF Rotate
  <2>5. CASE RotateGone(r)
    BY <2>5 DEF RotateGone
  <2>6. CASE ReadSessionKey(r)
    BY <2>6 DEF ReadSessionKey
  <2>7. CASE WriteSessionKey(r)
    BY <2>7 DEF WriteSessionKey
  <2>8. CASE RefreshReply(r)
    BY <2>8 DEF RefreshReply
  <2>9. QED
    BY <1>2, <2>1, <2>2, <2>3, <2>4, <2>5, <2>6, <2>7, <2>8 DEF RefreshStep
<1>3. ASSUME NEW r \in Requests, RevokeStep(r) PROVE TokenInv'
  <2>1. ASSUME NEW s \in Sessions, Revoke(r, s)
        PROVE TokenInv'
    BY <2>1 DEF Revoke, BeginRevoke
  <2>2. CASE RevokeAll(r)
    BY <2>2 DEF RevokeAll, BeginRevoke
  <2>3. ASSUME NEW s \in Sessions, RevokeAllExcept(r, s)
        PROVE TokenInv'
    BY <2>3 DEF RevokeAllExcept, BeginRevoke
  <2>4. CASE ListenerRevokeAll(r)
    BY <2>4 DEF ListenerRevokeAll, BeginRevoke
  <2>5. ASSUME NEW s \in Sessions, DeleteKey(r, s)
        PROVE TokenInv'
    BY <2>5 DEF DeleteKey
  <2>6. CASE KeysDeleted(r)
    BY <2>6 DEF KeysDeleted
  <2>7. CASE RevokeFamilies(r)
    BY <2>7 DEF RevokeFamilies
  <2>8. QED
    BY <1>3, <2>1, <2>2, <2>3, <2>4, <2>5, <2>6, <2>7 DEF RevokeStep
<1>4. ASSUME NEW r \in Requests, Deactivate(r) \/ SoftDelete(r) \/ LockAccount(r) PROVE TokenInv'
  <2>1. CASE Deactivate(r)
    BY <2>1 DEF Deactivate
  <2>2. CASE SoftDelete(r)
    BY <2>2 DEF SoftDelete
  <2>3. CASE LockAccount(r)
    BY <2>3 DEF LockAccount
  <2>4. QED
    BY <1>4, <2>1, <2>2, <2>3
<1>5. ASSUME NEW r \in Requests, Fail(r) PROVE TokenInv'
  BY <1>5 DEF Fail
<1>6. CASE Reactivate
  BY <1>6 DEF Reactivate
<1>7. ASSUME NEW s \in Sessions, Expire(s) \/ KeyExpires(s) PROVE TokenInv'
  BY <1>7 DEF Expire, KeyExpires
<1>8. CASE PruneFamilies
  BY <1>8 DEF PruneFamilies
<1>9. CASE UNCHANGED vars
  BY <1>9 DEF vars
<1>10. QED
  BY <1>1, <1>2, <1>3, <1>4, <1>5, <1>6, <1>7, <1>8, <1>9 DEF Next

\* Every step keeps a quiet session within reach of its revocation.
LEMMA NextQuiet ==
  ASSUME IInv, TypeOK', [Next]_vars PROVE QuietInv'
<1> USE SessionsAssumption DEF IInv, TypeOK, Users, Families, Tokens, PCs, Writing,
        Revoking, store, slots, history, GoTo, Release, RowInv, KeyHasFamily, QuietInv, InFlight
<1>1. ASSUME NEW r \in Requests, LoginStep(r) PROVE QuietInv'
  <2>1. CASE Login(r)
    BY <2>1 DEF Login
  <2>2. ASSUME NEW s \in Sessions, CreateFamily(r, s)
        PROVE QuietInv'
    BY <2>2 DEF CreateFamily
  <2>3. CASE SetSessionKey(r)
    BY <2>3 DEF SetSessionKey
  <2>4. CASE LoginReply(r)
    BY <2>4 DEF LoginReply
  <2>5. QED
    BY <1>1, <2>1, <2>2, <2>3, <2>4 DEF LoginStep
<1>2. ASSUME NEW r \in Requests, RefreshStep(r) PROVE QuietInv'
  <2>1. ASSUME NEW s \in Sessions, NEW t \in delivered[s], LookupFamily(r, s, t)
        PROVE QuietInv'
    BY <2>1 DEF LookupFamily
  <2>2. ASSUME NEW s \in Sessions, NEW t \in delivered[s], LookupMiss(r, s, t)
        PROVE QuietInv'
    BY <2>2 DEF LookupMiss
  <2>3. CASE ReuseNotFound(r)
    BY <2>3 DEF ReuseNotFound
  <2>4. CASE Rotate(r)
    BY <2>4 DEF Rotate
  <2>5. CASE RotateGone(r)
    BY <2>5 DEF RotateGone
  <2>6. CASE ReadSessionKey(r)
    BY <2>6 DEF ReadSessionKey
  <2>7. CASE WriteSessionKey(r)
    BY <2>7 DEF WriteSessionKey
  <2>8. CASE RefreshReply(r)
    BY <2>8 DEF RefreshReply
  <2>9. QED
    BY <1>2, <2>1, <2>2, <2>3, <2>4, <2>5, <2>6, <2>7, <2>8 DEF RefreshStep
<1>3. ASSUME NEW r \in Requests, RevokeStep(r) PROVE QuietInv'
  <2>1. ASSUME NEW s \in Sessions, Revoke(r, s)
        PROVE QuietInv'
    BY <2>1 DEF Revoke, BeginRevoke
  <2>2. CASE RevokeAll(r)
    BY <2>2 DEF RevokeAll, BeginRevoke
  <2>3. ASSUME NEW s \in Sessions, RevokeAllExcept(r, s)
        PROVE QuietInv'
    BY <2>3 DEF RevokeAllExcept, BeginRevoke
  <2>4. CASE ListenerRevokeAll(r)
    BY <2>4 DEF ListenerRevokeAll, BeginRevoke
  <2>5. ASSUME NEW s \in Sessions, DeleteKey(r, s)
        PROVE QuietInv'
    BY <2>5 DEF DeleteKey
  <2>6. CASE KeysDeleted(r)
    BY <2>6 DEF KeysDeleted
  <2>7. CASE RevokeFamilies(r)
    BY <2>7 DEF RevokeFamilies
  <2>8. QED
    BY <1>3, <2>1, <2>2, <2>3, <2>4, <2>5, <2>6, <2>7 DEF RevokeStep
<1>4. ASSUME NEW r \in Requests, Deactivate(r) \/ SoftDelete(r) \/ LockAccount(r) PROVE QuietInv'
  BY <1>4 DEF Deactivate, SoftDelete, LockAccount
<1>5. ASSUME NEW r \in Requests, Fail(r) PROVE QuietInv'
  BY <1>5 DEF Fail
<1>6. CASE Reactivate
  BY <1>6 DEF Reactivate
<1>7. ASSUME NEW s \in Sessions, Expire(s) \/ KeyExpires(s) PROVE QuietInv'
  BY <1>7 DEF Expire, KeyExpires
<1>8. CASE PruneFamilies
  BY <1>8 DEF PruneFamilies
<1>9. CASE UNCHANGED vars
  BY <1>9 DEF vars
<1>10. QED
  BY <1>1, <1>2, <1>3, <1>4, <1>5, <1>6, <1>7, <1>8, <1>9 DEF Next

\* Every step keeps a closed session closed.
LEMMA NextClosed ==
  ASSUME IInv, TypeOK', [Next]_vars PROVE ClosedInv'
<1> USE SessionsAssumption DEF IInv, TypeOK, Users, Families, Tokens, PCs, Writing,
        Revoking, store, slots, history, GoTo, Release, RowInv, KeyHasFamily, QuietInv, ClosedInv, InFlight
<1>1. ASSUME NEW r \in Requests, LoginStep(r) PROVE ClosedInv'
  <2>1. CASE Login(r)
    BY <2>1 DEF Login
  <2>2. ASSUME NEW s \in Sessions, CreateFamily(r, s)
        PROVE ClosedInv'
    BY <2>2 DEF CreateFamily
  <2>3. CASE SetSessionKey(r)
    BY <2>3 DEF SetSessionKey
  <2>4. CASE LoginReply(r)
    BY <2>4 DEF LoginReply
  <2>5. QED
    BY <1>1, <2>1, <2>2, <2>3, <2>4 DEF LoginStep
<1>2. ASSUME NEW r \in Requests, RefreshStep(r) PROVE ClosedInv'
  <2>1. ASSUME NEW s \in Sessions, NEW t \in delivered[s], LookupFamily(r, s, t)
        PROVE ClosedInv'
    BY <2>1 DEF LookupFamily
  <2>2. ASSUME NEW s \in Sessions, NEW t \in delivered[s], LookupMiss(r, s, t)
        PROVE ClosedInv'
    BY <2>2 DEF LookupMiss
  <2>3. CASE ReuseNotFound(r)
    BY <2>3 DEF ReuseNotFound
  <2>4. CASE Rotate(r)
    BY <2>4 DEF Rotate
  <2>5. CASE RotateGone(r)
    BY <2>5 DEF RotateGone
  <2>6. CASE ReadSessionKey(r)
    BY <2>6 DEF ReadSessionKey
  <2>7. CASE WriteSessionKey(r)
    BY <2>7 DEF WriteSessionKey
  <2>8. CASE RefreshReply(r)
    BY <2>8 DEF RefreshReply
  <2>9. QED
    BY <1>2, <2>1, <2>2, <2>3, <2>4, <2>5, <2>6, <2>7, <2>8 DEF RefreshStep
<1>3. ASSUME NEW r \in Requests, RevokeStep(r) PROVE ClosedInv'
  <2>1. ASSUME NEW s \in Sessions, Revoke(r, s)
        PROVE ClosedInv'
    BY <2>1 DEF Revoke, BeginRevoke
  <2>2. CASE RevokeAll(r)
    BY <2>2 DEF RevokeAll, BeginRevoke
  <2>3. ASSUME NEW s \in Sessions, RevokeAllExcept(r, s)
        PROVE ClosedInv'
    BY <2>3 DEF RevokeAllExcept, BeginRevoke
  <2>4. CASE ListenerRevokeAll(r)
    BY <2>4 DEF ListenerRevokeAll, BeginRevoke
  <2>5. ASSUME NEW s \in Sessions, DeleteKey(r, s)
        PROVE ClosedInv'
    BY <2>5 DEF DeleteKey
  <2>6. CASE KeysDeleted(r)
    BY <2>6 DEF KeysDeleted
  <2>7. CASE RevokeFamilies(r)
    BY <2>7 DEF RevokeFamilies
  <2>8. QED
    BY <1>3, <2>1, <2>2, <2>3, <2>4, <2>5, <2>6, <2>7 DEF RevokeStep
<1>4. ASSUME NEW r \in Requests, Deactivate(r) \/ SoftDelete(r) \/ LockAccount(r) PROVE ClosedInv'
  BY <1>4 DEF Deactivate, SoftDelete, LockAccount
<1>5. ASSUME NEW r \in Requests, Fail(r) PROVE ClosedInv'
  BY <1>5 DEF Fail
<1>6. CASE Reactivate
  BY <1>6 DEF Reactivate
<1>7. ASSUME NEW s \in Sessions, Expire(s) \/ KeyExpires(s) PROVE ClosedInv'
  BY <1>7 DEF Expire, KeyExpires
<1>8. CASE PruneFamilies
  BY <1>8 DEF PruneFamilies
<1>9. CASE UNCHANGED vars
  BY <1>9 DEF vars
<1>10. QED
  BY <1>1, <1>2, <1>3, <1>4, <1>5, <1>6, <1>7, <1>8, <1>9 DEF Next

\* The inductive invariant holds initially.
LEMMA InitIInv == Init => IInv
<1> SUFFICES ASSUME Init PROVE IInv
  OBVIOUS
<1>1. TypeOK
  BY InitType
<1>2. RowInv /\ QuietInv /\ ClosedInv
  BY DEF Init, RowInv, KeyHasFamily, QuietInv, ClosedInv, Writing
<1>3. TokenInv
  BY DEF Init, TokenInv, NoTokenRevival, StoredBeforeDelivered, Stored
<1>4. QED
  BY <1>1, <1>2, <1>3 DEF IInv

\* The inductive invariant is inductive.
LEMMA NextIInv == IInv /\ [Next]_vars => IInv'
  BY NextType, NextRow, NextToken, NextQuiet, NextClosed DEF IInv

\* It holds in every reachable state.
LEMMA Invariance == Spec => []IInv
  BY InitIInv, NextIInv, PTL DEF Spec

\* A session key never exists without a family row that a revocation finds.
THEOREM KeyHasFamilyHolds == Spec => []KeyHasFamily
<1>1. IInv => KeyHasFamily
  BY DEF IInv, RowInv
<1>2. QED
  BY <1>1, Invariance, PTL

\* Every refresh token a client holds was at some time the stored one.
THEOREM StoredFirst == Spec => []StoredBeforeDelivered
<1>1. IInv => StoredBeforeDelivered
  BY DEF IInv, TokenInv
<1>2. QED
  BY <1>1, Invariance, PTL

\* No order of concurrent refreshes makes a replaced token current again.
THEOREM NoRevival == Spec => []NoTokenRevival
<1>1. IInv => NoTokenRevival
  BY DEF IInv, TokenInv
<1>2. QED
  BY <1>1, Invariance, PTL

\* A revocation that ran undisturbed leaves the session closed for good.
THEOREM LogoutFinal == Spec => []LogoutIsFinal
<1>1. IInv => LogoutIsFinal
  BY DEF IInv, TypeOK, ClosedInv, LogoutIsFinal, InFlight
<1>2. QED
  BY <1>1, Invariance, PTL

\* A step that changes what a session's clients hold or could use, or its
\* token, is one of the login or the refresh of that session.
LEMMA NextClosedFrozen ==
  ASSUME IInv, [Next]_vars, NEW s \in closed
  PROVE  s \in closed' /\ current'[s] = current[s] /\ delivered'[s] = delivered[s]
<1> DEFINE Frozen == /\ s \in closed'
                     /\ current'[s] = current[s]
                     /\ delivered'[s] = delivered[s]
<1> USE DEF IInv, TypeOK, store, slots, history
<1>1. s \in Sessions /\ family[s] # "absent"
  BY DEF ClosedInv
<1>2. \A q \in Requests : pc[q] \in Writing => on[q] # s
  BY DEF ClosedInv
<1>3. ASSUME NEW r \in Requests, LoginStep(r) PROVE Frozen
  <2>1. CASE LoginReply(r)
    BY <1>1, <1>2, <2>1 DEF LoginReply, Writing
  <2>2. ASSUME NEW c \in Sessions, CreateFamily(r, c) PROVE Frozen
    BY <1>1, <2>2 DEF CreateFamily
  <2>3. CASE Login(r) \/ SetSessionKey(r)
    BY <2>3 DEF Login, SetSessionKey
  <2>4. QED
    BY <1>3, <2>1, <2>2, <2>3 DEF LoginStep
<1>4. ASSUME NEW r \in Requests, RefreshStep(r) PROVE Frozen
  <2>1. CASE Rotate(r)
    BY <1>1, <1>2, <2>1 DEF Rotate, GoTo, Writing
  <2>2. CASE RefreshReply(r)
    BY <1>1, <1>2, <2>2 DEF RefreshReply, Writing
  <2>3. CASE \/ \E c \in Sessions : \E t \in delivered[c] : LookupFamily(r, c, t)
             \/ \E c \in Sessions : \E t \in delivered[c] : LookupMiss(r, c, t)
             \/ ReuseNotFound(r)
             \/ RotateGone(r)
             \/ ReadSessionKey(r)
             \/ WriteSessionKey(r)
    BY <2>3 DEF LookupFamily, LookupMiss, ReuseNotFound, RotateGone,
                ReadSessionKey, WriteSessionKey
  <2>4. QED
    BY <1>4, <2>1, <2>2, <2>3 DEF RefreshStep
<1>5. ASSUME NEW r \in Requests, RevokeStep(r) PROVE Frozen
  BY <1>5 DEF RevokeStep, Revoke, RevokeAll, RevokeAllExcept, ListenerRevokeAll,
              BeginRevoke, DeleteKey, KeysDeleted, RevokeFamilies
<1>6. CASE \/ \E r \in Requests : Deactivate(r) \/ SoftDelete(r) \/ LockAccount(r) \/ Fail(r)
           \/ Reactivate
           \/ \E c \in Sessions : Expire(c) \/ KeyExpires(c)
           \/ PruneFamilies
  BY <1>6 DEF Deactivate, SoftDelete, LockAccount, Fail, Reactivate, Expire, KeyExpires, PruneFamilies
<1>7. CASE UNCHANGED vars
  BY <1>7 DEF vars
<1>8. QED
  BY <1>3, <1>4, <1>5, <1>6, <1>7 DEF Next

\* Nothing is issued for a session after such a revocation, and none of its
\* access tokens passes the guard again.
THEOREM NothingIssuedAfterLogout == Spec => NothingAfterLogout
<1>1. IInv /\ [Next]_vars =>
        [\A s \in closed : /\ current'[s] = current[s]
                           /\ delivered'[s] = delivered[s]
                           /\ ~ AccessAllowed(s)']_vars
  <2> SUFFICES ASSUME IInv, [Next]_vars, NEW s \in closed
               PROVE  /\ current'[s] = current[s]
                      /\ delivered'[s] = delivered[s]
                      /\ ~ AccessAllowed(s)'
    OBVIOUS
  <2>1. IInv'
    BY NextIInv
  <2>2. s \in closed' /\ current'[s] = current[s] /\ delivered'[s] = delivered[s]
    BY NextClosedFrozen
  <2>3. s \notin keys'
    BY <2>1, <2>2 DEF IInv, ClosedInv
  <2>4. QED
    BY <2>2, <2>3 DEF AccessAllowed
<1>2. QED
  BY <1>1, Invariance, PTL DEF Spec, NothingAfterLogout

\* Every step is a step of the contract, or changes nothing it sees.
LEMMA NextContract ==
  ASSUME IInv, [Next]_vars PROVE [Contract!Next]_(Contract!vars)
<1> DEFINE Step == [Contract!Next]_(Contract!vars)
<1> USE DEF IInv, TypeOK, store, slots, history, Contract!vars
<1>1. ASSUME NEW r \in Requests, LoginStep(r) PROVE Step
  <2>1. CASE LoginReply(r)
    <3>1. pc[r] \in Writing /\ pc[r] \in Stored
      BY <2>1 DEF LoginReply, Writing, Stored
    <3>2. on[r] \in Sessions /\ on[r] \notin closed
      BY <3>1 DEF ClosedInv
    <3>3. newTok[r] \in spent[on[r]] \cup {current[on[r]]} /\ newTok[r] \in 1..MaxTokens
      BY <3>1, <3>2 DEF TokenInv, RowInv, Tokens
    <3>4. Contract!HandOut(on[r], newTok[r])
      BY <2>1, <3>2, <3>3 DEF LoginReply, Contract!HandOut
    <3>5. QED
      BY <3>2, <3>3, <3>4 DEF Contract!Next
  <2>2. ASSUME NEW s \in Sessions, CreateFamily(r, s) PROVE Step
    <3>1. s \notin closed /\ current[s] = 0
      BY <2>2 DEF CreateFamily, ClosedInv, RowInv
    <3>2. Contract!Open(s, 1)
      BY <2>2, <3>1 DEF CreateFamily, Contract!Open
    <3>3. QED
      BY <3>2, SessionsAssumption DEF Contract!Next
  <2>3. CASE Login(r) \/ SetSessionKey(r)
    BY <2>3 DEF Login, SetSessionKey
  <2>4. QED
    BY <1>1, <2>1, <2>2, <2>3 DEF LoginStep
<1>2. ASSUME NEW r \in Requests, RefreshStep(r) PROVE Step
  <2>1. CASE Rotate(r)
    <3>1. pc[r] = "rotate" /\ pc[r] \in Writing
      BY <2>1 DEF Rotate, GoTo, Writing
    <3>2. on[r] \in Sessions /\ on[r] \notin closed /\ current[on[r]] # 0
      BY <3>1 DEF ClosedInv, RowInv, TokenInv
    <3>3. newTok[r] \in 1..MaxTokens /\ newTok[r] \notin spent[on[r]] \cup {current[on[r]]}
      BY <3>1, <3>2 DEF TokenInv, Tokens
    <3>4. Contract!Advance(on[r], newTok[r])
      BY <2>1, <3>2, <3>3 DEF Rotate, Contract!Advance
    <3>5. QED
      BY <3>2, <3>3, <3>4 DEF Contract!Next
  <2>2. CASE RefreshReply(r) /\ user # "deleted"
    <3>1. pc[r] \in Writing /\ pc[r] \in Stored
      BY <2>2 DEF RefreshReply, Writing, Stored
    <3>2. on[r] \in Sessions /\ on[r] \notin closed
      BY <3>1 DEF ClosedInv
    <3>3. newTok[r] \in spent[on[r]] \cup {current[on[r]]} /\ newTok[r] \in 1..MaxTokens
      BY <3>1, <3>2 DEF TokenInv, RowInv, Tokens
    <3>4. Contract!HandOut(on[r], newTok[r])
      BY <2>2, <3>2, <3>3 DEF RefreshReply, Contract!HandOut
    <3>5. QED
      BY <3>2, <3>3, <3>4 DEF Contract!Next
  <2>3. CASE RefreshReply(r) /\ user = "deleted"
    BY <2>3 DEF RefreshReply
  <2>4. CASE \/ \E c \in Sessions : \E t \in delivered[c] : LookupFamily(r, c, t)
             \/ \E c \in Sessions : \E t \in delivered[c] : LookupMiss(r, c, t)
             \/ ReuseNotFound(r)
             \/ RotateGone(r)
             \/ ReadSessionKey(r)
             \/ WriteSessionKey(r)
    BY <2>4 DEF LookupFamily, LookupMiss, ReuseNotFound, RotateGone,
                ReadSessionKey, WriteSessionKey
  <2>5. QED
    BY <1>2, <2>1, <2>2, <2>3, <2>4 DEF RefreshStep
<1>3. ASSUME NEW r \in Requests, RevokeStep(r) PROVE Step
  <2>1. CASE RevokeFamilies(r)
    <3>1. \A s \in quiet[r] : current[s] # 0
      BY DEF QuietInv, TokenInv
    <3>2. Contract!End(quiet[r])
      BY <2>1, <3>1 DEF RevokeFamilies, Contract!End
    <3>3. QED
      BY <3>2 DEF Contract!Next
  <2>2. CASE \/ \E s \in Sessions : Revoke(r, s)
             \/ RevokeAll(r)
             \/ \E s \in Sessions : RevokeAllExcept(r, s)
             \/ ListenerRevokeAll(r)
             \/ \E s \in Sessions : DeleteKey(r, s)
             \/ KeysDeleted(r)
    BY <2>2 DEF Revoke, RevokeAll, RevokeAllExcept, ListenerRevokeAll,
                BeginRevoke, DeleteKey, KeysDeleted
  <2>3. QED
    BY <1>3, <2>1, <2>2 DEF RevokeStep
<1>4. CASE \/ \E r \in Requests : Deactivate(r) \/ SoftDelete(r) \/ LockAccount(r) \/ Fail(r)
           \/ Reactivate
           \/ \E c \in Sessions : Expire(c) \/ KeyExpires(c)
           \/ PruneFamilies
  BY <1>4 DEF Deactivate, SoftDelete, LockAccount, Fail, Reactivate, Expire, KeyExpires, PruneFamilies
<1>5. CASE UNCHANGED vars
  BY <1>5 DEF vars
<1>6. QED
  BY <1>1, <1>2, <1>3, <1>4, <1>5 DEF Next

\* The session service implements the contract of a session.
THEOREM Implements == Spec => KeepsContract
<1>1. Init => Contract!Init
  BY DEF Init, Contract!Init
<1>2. QED
  BY <1>1, NextContract, Invariance, PTL DEF Spec, KeepsContract, Contract!Spec
=============================================================================
