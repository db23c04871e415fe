--------------------------- MODULE AccountsProofs ---------------------------
(***************************************************************************)
(* Proofs about Accounts for any number of requests, links and passwords.  *)
(***************************************************************************)
EXTENDS Accounts, FiniteSetTheorems, TLAPS

\* A request follows a link exactly while it resets a password.
LinkOfReset ==
  \A r \in Requests : IF pc[r] \in ResetPCs THEN link[r] \in Links ELSE link[r] = NoLink

\* The passwords that are retired are older than the current one.
RetiredOlder == retired <= password

IInv ==
  TypeOK /\ LinkOfReset /\ RetiredOlder
    /\ GuessesBounded /\ RetiredShutOut /\ LinkUsedOnce

\* The steps that touch neither a slot nor the history.
Outside ==
  \/ \E kind \in {"timed", "forever"} : AdminLock(kind)
  \/ AdminUnlock
  \/ LockLapses
  \/ PurgeSessions
  \/ \E p \in Passwords : EndSessions(p)
  \/ \E l \in Links : ForgotPassword(l) \/ LinkExpires(l)

\* The steps of a request.
Inside(r) ==
  \/ Register(r)
  \/ CreateUser(r)
  \/ ReadAccount(r)
  \/ WrongPassword(r)
  \/ CountFailure(r)
  \/ LockOut(r)
  \/ RightPassword(r)
  \/ MfaMissing(r)
  \/ RecordSuccess(r)
  \/ OpenSession(r)
  \/ ResetPassword(r)
  \/ RevokeSessions(r)
  \/ DropLink(r)
  \/ StoreChange(r)
  \/ RevokeOthers(r)
  \/ Fail(r)
  \/ \E l \in Links : FollowLink(r, l)
  \/ \E p \in Passwords : ChangePassword(r, p)

\* Every step is of one of both kinds.
LEMMA StepKinds == Next => Outside \/ \E r \in Requests : Inside(r)
BY DEF Next, Outside, Inside

\* All the values pc takes are among those of its type.
LEMMA PCFacts ==
  /\ LoginPCs = {"checking", "failing", "recording", "issuing"}
  /\ ResetPCs = {"resetting", "revoking", "dropping"}
  /\ LoginPCs \cup ResetPCs \cup {"idle", "registering", "locking", "changing", "keeping"} = PCs
BY DEF LoginPCs, ResetPCs, PCs, Checking

-----------------------------------------------------------------------------
(* Types                                                                   *)

\* The bounds of Accounts are naturals, and no link is NoLink.
LEMMA BoundFacts ==
  /\ MaxFailed \in Nat /\ MaxPasswords \in Nat /\ MaxMissed \in Nat
  /\ Threshold \in Nat \ {0} /\ NoLink \notin Links
BY AccountsAssumption

\* A step outside of the requests keeps the types.
LEMMA OutsideTypes ==
  ASSUME TypeOK, Outside
  PROVE  TypeOK'
<1> USE DEF TypeOK, Passwords, Locks, row, slots, history
<1>1. ASSUME NEW kind \in {"timed", "forever"}, AdminLock(kind)
      PROVE  TypeOK'
  BY <1>1 DEF AdminLock
<1>2. CASE AdminUnlock
  BY <1>2, BoundFacts DEF AdminUnlock
<1>3. CASE LockLapses
  BY <1>3 DEF LockLapses
<1>4. CASE PurgeSessions
  BY <1>4 DEF PurgeSessions
<1>5. ASSUME NEW p \in Passwords, EndSessions(p)
      PROVE  TypeOK'
  BY <1>5 DEF EndSessions
<1>6. ASSUME NEW l \in Links, ForgotPassword(l)
      PROVE  TypeOK'
  BY <1>6 DEF ForgotPassword
<1>7. ASSUME NEW l \in Links, LinkExpires(l)
      PROVE  TypeOK'
  BY <1>7 DEF LinkExpires
<1>8. QED
  BY <1>1, <1>2, <1>3, <1>4, <1>5, <1>6, <1>7 DEF Outside

\* The end of a request keeps the types of the slots.
LEMMA EndTypes ==
  ASSUME TypeOK, NEW r \in Requests, End(r)
  PROVE  /\ pc' \in [Requests -> PCs]
         /\ saw' \in [Requests -> Passwords]
         /\ link' \in [Requests -> Links \cup {NoLink}]
BY BoundFacts DEF TypeOK, End, PCs, Passwords

\* A step of a request keeps the types.
LEMMA InsideTypes ==
  ASSUME TypeOK, LinkOfReset, NEW r \in Requests, Inside(r)
  PROVE  TypeOK'
<1> USE DEF TypeOK, Passwords, row, history
<1>1. CASE Register(r)
  BY <1>1 DEF Register, GoTo, PCs
<1>2. CASE CreateUser(r)
  BY <1>2, BoundFacts DEF CreateUser, GoTo, PCs, LoginPCs
<1>3. CASE ReadAccount(r)
  BY <1>3 DEF ReadAccount, GoTo, PCs, LoginPCs, Checking
<1>4. CASE WrongPassword(r)
  BY <1>4 DEF WrongPassword, GoTo, PCs, LoginPCs, Checking
<1>5. CASE CountFailure(r)
  <2>1. failed' \in 0..MaxFailed
    BY <1>5, BoundFacts DEF CountFailure
  <2>2. /\ pc' \in [Requests -> PCs]
        /\ saw' \in [Requests -> Passwords]
        /\ link' \in [Requests -> Links \cup {NoLink}]
    BY <1>5, EndTypes DEF CountFailure, GoTo, PCs
  <2>3. QED
    BY <1>5, <2>1, <2>2 DEF CountFailure
<1>6. CASE LockOut(r)
  BY <1>6, EndTypes DEF LockOut, Locks
<1>7. CASE RightPassword(r)
  BY <1>7 DEF RightPassword, GoTo, PCs, LoginPCs, Checking
<1>8. CASE MfaMissing(r)
  BY <1>8, EndTypes DEF MfaMissing
<1>9. CASE RecordSuccess(r)
  BY <1>9, BoundFacts DEF RecordSuccess, GoTo, PCs, LoginPCs, Locks
<1>10. CASE OpenSession(r)
  BY <1>10, EndTypes DEF OpenSession
<1>11. CASE ResetPassword(r)
  BY <1>11, BoundFacts DEF ResetPassword, GoTo, PCs, ResetPCs
<1>12. CASE RevokeSessions(r)
  BY <1>12 DEF RevokeSessions, GoTo, PCs, ResetPCs
<1>13. CASE DropLink(r)
  <2>1. link[r] \in Links
    BY <1>13, PCFacts DEF DropLink, LinkOfReset
  <2>2. QED
    BY <1>13, <2>1, EndTypes DEF DropLink
<1>14. CASE StoreChange(r)
  BY <1>14, BoundFacts DEF StoreChange, GoTo, PCs
<1>15. CASE RevokeOthers(r)
  BY <1>15, EndTypes DEF RevokeOthers
<1>16. CASE Fail(r)
  BY <1>16, EndTypes, BoundFacts DEF Fail
<1>17. ASSUME NEW l \in Links, FollowLink(r, l)
       PROVE  TypeOK'
  BY <1>17 DEF FollowLink, GoTo, PCs, ResetPCs
<1>18. ASSUME NEW p \in Passwords, ChangePassword(r, p)
       PROVE  TypeOK'
  BY <1>18 DEF ChangePassword, GoTo, PCs
<1>19. QED
  BY <1>1, <1>2, <1>3, <1>4, <1>5, <1>6, <1>7, <1>8, <1>9, <1>10, <1>11,
     <1>12, <1>13, <1>14, <1>15, <1>16, <1>17, <1>18 DEF Inside

-----------------------------------------------------------------------------
(* Links                                                                   *)

\* A step outside of the requests sets no spent link free.
LEMMA OutsideLinks ==
  ASSUME TypeOK, LinkOfReset, LinkUsedOnce, Outside
  PROVE  LinkOfReset' /\ LinkUsedOnce'
<1>1. /\ UNCHANGED <<slots, history>>
      /\ \A l \in Links : links[l] = "gone" => links'[l] = "gone"
  BY DEF Outside, AdminLock, AdminUnlock, LockLapses, PurgeSessions, EndSessions,
         ForgotPassword, LinkExpires, TypeOK, history
<1>2. spent \subseteq Links
  BY DEF TypeOK
<1>3. QED
  BY <1>1, <1>2 DEF LinkOfReset, LinkUsedOnce, slots, history

\* A request that stays in its phase, or ends, keeps LinkOfReset.
LEMMA LinkKept ==
  ASSUME TypeOK, LinkOfReset, NEW r \in Requests, NEW to \in PCs,
         pc' = [pc EXCEPT ![r] = to],
         link' = link,
         to \in ResetPCs <=> pc[r] \in ResetPCs
  PROVE  LinkOfReset'
BY DEF TypeOK, LinkOfReset

\* The end of a request drops its link.
LEMMA LinkEnds ==
  ASSUME TypeOK, LinkOfReset, NEW r \in Requests, End(r)
  PROVE  /\ LinkOfReset'
         /\ \A q \in Requests : link'[q] = IF q = r THEN NoLink ELSE link[q]
BY PCFacts DEF TypeOK, LinkOfReset, End

\* A step of a request follows a link only while it resets a password.
LEMMA InsideLinkOfReset ==
  ASSUME TypeOK, LinkOfReset, NEW r \in Requests, Inside(r)
  PROVE  LinkOfReset'
<1>1. CASE End(r)
  BY <1>1, LinkEnds
<1>2. CASE Register(r) \/ CreateUser(r) \/ ReadAccount(r) \/ WrongPassword(r)
             \/ RightPassword(r) \/ RecordSuccess(r) \/ StoreChange(r)
  <2>1. link' = link /\ pc[r] \notin ResetPCs
    BY <1>2, PCFacts DEF Register, CreateUser, ReadAccount, WrongPassword, RightPassword,
                RecordSuccess, StoreChange, GoTo
  <2>2. PICK to \in PCs \ ResetPCs : pc' = [pc EXCEPT ![r] = to]
    BY <1>2, PCFacts DEF Register, CreateUser, ReadAccount, WrongPassword, RightPassword,
                RecordSuccess, StoreChange, GoTo
  <2>3. QED
    BY <2>1, <2>2, LinkKept
<1>3. CASE ResetPassword(r) \/ RevokeSessions(r)
  <2>1. link' = link /\ pc[r] \in ResetPCs
    BY <1>3, PCFacts DEF ResetPassword, RevokeSessions, GoTo
  <2>2. PICK to \in ResetPCs : pc' = [pc EXCEPT ![r] = to]
    BY <1>3, PCFacts DEF ResetPassword, RevokeSessions, GoTo
  <2>3. QED
    BY <2>1, <2>2, LinkKept, PCFacts
<1>4. ASSUME NEW p \in Passwords, ChangePassword(r, p)
      PROVE  LinkOfReset'
  BY <1>4, LinkKept, PCFacts DEF ChangePassword, GoTo
<1>5. ASSUME NEW l \in Links, FollowLink(r, l)
      PROVE  LinkOfReset'
  BY <1>5, PCFacts DEF FollowLink, GoTo, TypeOK, LinkOfReset
<1>6. CASE CountFailure(r)
  <2>1. CASE GoTo(r, "failing", "locking") /\ UNCHANGED <<saw, link>>
    BY <2>1, LinkKept, PCFacts DEF GoTo
  <2>2. QED
    BY <1>6, <2>1, <1>1 DEF CountFailure
<1>7. QED
  BY <1>1, <1>2, <1>3, <1>4, <1>5, <1>6
     DEF Inside, LockOut, MfaMissing, OpenSession, DropLink, RevokeOthers, Fail

\* A step of a request never takes up a spent link.
LEMMA InsideLinkUsedOnce ==
  ASSUME TypeOK, LinkOfReset, LinkUsedOnce, NEW r \in Requests, Inside(r)
  PROVE  LinkUsedOnce'
<1>1. spent \subseteq Links
  BY DEF TypeOK
<1>2. CASE DropLink(r)
  <2>1. link[r] \in Links
    BY <1>2, PCFacts DEF DropLink, LinkOfReset
  <2>2. \A q \in Requests : link'[q] = IF q = r THEN NoLink ELSE link[q]
    BY <1>2, LinkEnds DEF DropLink
  <2>3. \A l \in Links : links'[l] = IF l = link[r] THEN "gone" ELSE links[l]
    BY <1>2 DEF DropLink, TypeOK
  <2>4. \/ spent' = spent /\ \E q \in Requests \ {r} : link[q] = link[r]
        \/ spent' = spent \cup {link[r]} /\ \A q \in Requests \ {r} : link[q] # link[r]
    BY <1>2 DEF DropLink
  <2>5. QED
    BY <1>1, <2>1, <2>2, <2>3, <2>4, BoundFacts DEF LinkUsedOnce
<1>3. ASSUME NEW l \in Links, FollowLink(r, l)
      PROVE  LinkUsedOnce'
  BY <1>3 DEF FollowLink, TypeOK, LinkUsedOnce, history
<1>4. CASE End(r) /\ UNCHANGED <<links, spent>>
  BY <1>1, <1>4, LinkEnds, BoundFacts DEF LinkUsedOnce
<1>5. CASE UNCHANGED <<links, link, spent>>
  BY <1>5 DEF LinkUsedOnce
<1>6. CASE CountFailure(r)
  BY <1>4, <1>5, <1>6 DEF CountFailure, history
<1>7. ASSUME NEW p \in Passwords, ChangePassword(r, p)
      PROVE  LinkUsedOnce'
  BY <1>5, <1>7 DEF ChangePassword, history
<1>8. QED
  BY <1>2, <1>3, <1>4, <1>5, <1>6, <1>7
     DEF Inside, Register, CreateUser, ReadAccount, WrongPassword, LockOut, RightPassword,
         MfaMissing, RecordSuccess, OpenSession, ResetPassword, RevokeSessions, StoreChange,
         RevokeOthers, Fail, history

-----------------------------------------------------------------------------
(* Guesses                                                                 *)

\* The requests that are about to lock the account are finitely many.
LEMMA LockingFinite == IsFiniteSet(Locking) /\ Cardinality(Locking) \in Nat
<1>1. IsFiniteSet(Requests)
  BY AccountsAssumption
<1>2. Locking \subseteq Requests
  BY DEF Locking
<1>3. QED
  BY <1>1, <1>2, FS_Subset, FS_CardinalityType

\* A request that neither starts nor stops being about to lock.
LEMMA LockingKept ==
  ASSUME TypeOK, NEW r \in Requests, NEW to \in PCs,
         pc' = [pc EXCEPT ![r] = to],
         pc[r] # "locking", to # "locking"
  PROVE  Locking' = Locking
BY DEF Locking, TypeOK

\* A step outside of the requests keeps the bound on guesses.
LEMMA OutsideGuesses ==
  ASSUME TypeOK, GuessesBounded, Outside
  PROVE  GuessesBounded'
<1>1. Locking' = Locking /\ missed' = missed
  BY DEF Outside, AdminLock, AdminUnlock, LockLapses, PurgeSessions, EndSessions,
         ForgotPassword, LinkExpires, Locking, slots, history
<1>2. CASE failed' = 0
  BY <1>1, <1>2, LockingFinite, BoundFacts DEF GuessesBounded, TypeOK
<1>3. CASE lock' # "open"
  BY <1>3 DEF GuessesBounded
<1>4. CASE UNCHANGED <<lock, failed>>
  BY <1>1, <1>4 DEF GuessesBounded
<1>5. QED
  BY <1>2, <1>3, <1>4
     DEF Outside, AdminLock, AdminUnlock, LockLapses, PurgeSessions, EndSessions,
         ForgotPassword, LinkExpires, row

\* A step of a request keeps the bound on guesses: the one that exceeds the
\* threshold is about to lock, and the one that does not lock is missed.
LEMMA InsideGuesses ==
  ASSUME TypeOK, GuessesBounded, NEW r \in Requests, Inside(r)
  PROVE  GuessesBounded'
<1>0. /\ Cardinality(Locking) \in Nat /\ IsFiniteSet(Locking)
      /\ failed \in Nat /\ missed \in Nat /\ Threshold \in Nat \ {0}
  BY LockingFinite, BoundFacts DEF TypeOK
<1>1. CASE CountFailure(r)
  <2>1. failed' = failed + 1 /\ lock' = lock /\ missed' = missed /\ pc[r] = "failing"
    BY <1>1 DEF CountFailure, history
  <2>2. CASE failed' < Threshold /\ End(r)
    <3>1. Locking' = Locking
      BY <2>1, <2>2, LockingKept DEF End, PCs
    <3>2. QED
      BY <1>0, <2>1, <2>2, <3>1 DEF GuessesBounded
  <2>3. CASE failed' >= Threshold /\ GoTo(r, "failing", "locking")
    <3>1. Locking' = Locking \cup {r} /\ r \notin Locking
      BY <2>1, <2>3 DEF Locking, GoTo, TypeOK
    <3>2. Cardinality(Locking') = Cardinality(Locking) + 1
      BY <1>0, <3>1, FS_AddElement
    <3>3. QED
      BY <1>0, <2>1, <3>2 DEF GuessesBounded
  <2>4. QED
    BY <1>1, <2>2, <2>3 DEF CountFailure
<1>2. CASE LockOut(r)
  BY <1>2 DEF LockOut, GuessesBounded
<1>3. CASE RecordSuccess(r)
  <2>1. Locking' = Locking
    BY <1>3, LockingKept, PCFacts DEF RecordSuccess, GoTo
  <2>2. QED
    BY <1>0, <1>3, <2>1 DEF RecordSuccess, GuessesBounded, history
<1>4. CASE Fail(r) /\ pc[r] = "locking"
  <2>1. Locking' = Locking \ {r} /\ r \in Locking
    BY <1>4 DEF Fail, End, Locking, TypeOK
  <2>2. Cardinality(Locking') = Cardinality(Locking) - 1
    BY <1>0, <2>1, FS_RemoveElement
  <2>3. QED
    BY <1>0, <1>4, <2>2 DEF Fail, GuessesBounded, row
<1>5. ASSUME NEW to \in PCs, to # "locking", pc[r] # "locking",
             pc' = [pc EXCEPT ![r] = to], UNCHANGED <<lock, failed, missed>>
      PROVE  GuessesBounded'
  BY <1>5, LockingKept DEF GuessesBounded
<1>6. CASE Register(r) \/ CreateUser(r) \/ ReadAccount(r) \/ WrongPassword(r)
             \/ RightPassword(r) \/ ResetPassword(r) \/ RevokeSessions(r) \/ StoreChange(r)
  BY <1>5, <1>6, PCFacts
     DEF Register, CreateUser, ReadAccount, WrongPassword, RightPassword, ResetPassword,
         RevokeSessions, StoreChange, GoTo, row, history
<1>7. CASE MfaMissing(r) \/ OpenSession(r) \/ DropLink(r) \/ RevokeOthers(r)
  BY <1>5, <1>7, PCFacts
     DEF MfaMissing, OpenSession, DropLink, RevokeOthers, End, row, history
<1>8. CASE Fail(r)
  <2>1. CASE pc[r] # "locking"
    BY <1>5, <1>8, <2>1, PCFacts DEF Fail, End, row
  <2>2. QED
    BY <1>4, <1>8, <2>1
<1>9. ASSUME NEW l \in Links, FollowLink(r, l)
      PROVE  GuessesBounded'
  BY <1>5, <1>9, PCFacts DEF FollowLink, GoTo, row, history
<1>10. ASSUME NEW p \in Passwords, ChangePassword(r, p)
       PROVE  GuessesBounded'
  BY <1>5, <1>10, PCFacts DEF ChangePassword, GoTo, row, history
<1>11. QED
  BY <1>1, <1>2, <1>3, <1>6, <1>7, <1>8, <1>9, <1>10 DEF Inside

-----------------------------------------------------------------------------
(* Retired passwords                                                       *)

\* A step outside of the requests opens no session.
LEMMA OutsideRetired ==
  ASSUME TypeOK, RetiredOlder, RetiredShutOut, Outside
  PROVE  RetiredOlder' /\ RetiredShutOut'
<1>1. /\ UNCHANGED <<password, slots, retired>>
      /\ sessions' \subseteq sessions
  BY DEF Outside, AdminLock, AdminUnlock, LockLapses, PurgeSessions, EndSessions,
         ForgotPassword, LinkExpires, history, row
<1>2. QED
  BY <1>1 DEF RetiredOlder, RetiredShutOut, slots

\* A step opens no session with a retired password if it retires none, and
\* whoever logs in knows the current password or went on as before.
LEMMA NothingRetired ==
  ASSUME TypeOK, RetiredOlder, RetiredShutOut, NEW r \in Requests,
         retired' = retired,
         password' = password \/ password' = password + 1,
         \A p \in sessions' :
           p \in sessions \/ p = password' \/ (pc[r] \in LoginPCs /\ p = saw[r]),
         \A q \in Requests \ {r} : pc'[q] = pc[q] /\ saw'[q] = saw[q],
         \/ pc'[r] \notin LoginPCs
         \/ saw'[r] = password'
         \/ pc[r] \in LoginPCs /\ saw'[r] = saw[r]
  PROVE  RetiredOlder' /\ RetiredShutOut'
<1>1. /\ password \in Nat /\ retired \in Nat /\ retired' <= password'
      /\ password' >= retired'
  BY BoundFacts DEF TypeOK, Passwords, RetiredOlder
<1>2. \A p \in sessions' : p >= retired'
  BY <1>1 DEF RetiredShutOut
<1>3. ASSUME NEW q \in Requests, pc'[q] \in LoginPCs
      PROVE  saw'[q] >= retired'
  BY <1>1, <1>3 DEF RetiredShutOut
<1>4. QED
  BY <1>1, <1>2, <1>3 DEF RetiredOlder, RetiredShutOut

\* A step of a request opens no session with a retired password.
LEMMA InsideRetired ==
  ASSUME TypeOK, RetiredOlder, RetiredShutOut, NEW r \in Requests, Inside(r)
  PROVE  RetiredOlder' /\ RetiredShutOut'
<1>0. /\ password \in Nat /\ retired \in Nat
      /\ \A q \in Requests : saw[q] \in Nat
  BY BoundFacts DEF TypeOK, Passwords
\* The slots of a step that moves r to the point "to".
<1>1. ASSUME NEW to, pc' = [pc EXCEPT ![r] = to]
      PROVE  /\ pc'[r] = to
             /\ \A q \in Requests \ {r} : pc'[q] = pc[q]
  BY <1>1 DEF TypeOK
<1>2. CASE Register(r) \/ WrongPassword(r) \/ RightPassword(r) \/ RecordSuccess(r)
             \/ ResetPassword(r)
  <2>1. /\ retired' = retired /\ sessions' = sessions /\ saw' = saw
        /\ password' = password \/ password' = password + 1
    BY <1>2 DEF Register, WrongPassword, RightPassword, RecordSuccess, ResetPassword, row, history
  <2>2. /\ \A q \in Requests \ {r} : pc'[q] = pc[q]
        /\ pc'[r] \in LoginPCs => pc[r] \in LoginPCs
    BY <1>1, <1>2, PCFacts
       DEF Register, WrongPassword, RightPassword, RecordSuccess, ResetPassword, GoTo
  <2>3. QED
    BY <2>1, <2>2, NothingRetired
<1>3. CASE CreateUser(r) \/ ReadAccount(r)
  <2>1. /\ retired' = retired /\ sessions' = sessions
        /\ password' = password \/ password' = password + 1
    BY <1>3 DEF CreateUser, ReadAccount, row, history
  <2>2. /\ \A q \in Requests \ {r} : pc'[q] = pc[q] /\ saw'[q] = saw[q]
        /\ saw'[r] = password'
    BY <1>3 DEF CreateUser, ReadAccount, GoTo, TypeOK, row
  <2>3. QED
    BY <2>1, <2>2, NothingRetired
<1>4. CASE /\ End(r) /\ password' = password /\ retired' = retired
           /\ \/ sessions' \subseteq sessions
              \/ pc[r] = "issuing" /\ sessions' = sessions \cup {saw[r]}
  <2>1. /\ pc'[r] = "idle"
        /\ \A q \in Requests \ {r} : pc'[q] = pc[q] /\ saw'[q] = saw[q]
    BY <1>4 DEF End, TypeOK
  <2>2. \A p \in sessions' : p \in sessions \/ (pc[r] \in LoginPCs /\ p = saw[r])
    BY <1>4, PCFacts
  <2>3. pc'[r] \notin LoginPCs
    BY <2>1, PCFacts
  <2>4. QED
    BY <1>4, <2>1, <2>2, <2>3, NothingRetired
<1>5. CASE CountFailure(r)
  <2>1. UNCHANGED <<password, sessions, retired>>
    BY <1>5 DEF CountFailure, history
  <2>2. CASE GoTo(r, "failing", "locking") /\ saw' = saw
    <3>1. /\ pc'[r] \notin LoginPCs
          /\ \A q \in Requests \ {r} : pc'[q] = pc[q] /\ saw'[q] = saw[q]
      BY <1>1, <2>2, PCFacts DEF GoTo
    <3>2. QED
      BY <2>1, <3>1, NothingRetired
  <2>3. QED
    BY <1>4, <1>5, <2>1, <2>2 DEF CountFailure
<1>6. CASE LockOut(r) \/ MfaMissing(r) \/ OpenSession(r) \/ DropLink(r)
             \/ RevokeOthers(r) \/ Fail(r)
  BY <1>4, <1>6
     DEF LockOut, MfaMissing, OpenSession, DropLink, RevokeOthers, Fail, row, history
<1>7. CASE RevokeSessions(r)
  <2>1. /\ sessions' = {} /\ password' = password /\ saw' = saw
        /\ \A q \in Requests : pc'[q] \in LoginPCs => pc[q] \in LoginPCs
    BY <1>7, PCFacts DEF RevokeSessions, GoTo, TypeOK, row
  <2>2. CASE NoStaleLogin /\ retired' = password
    BY <1>0, <2>1, <2>2 DEF NoStaleLogin, RetiredOlder, RetiredShutOut
  <2>3. CASE retired' = retired
    BY <1>0, <2>1, <2>3 DEF RetiredOlder, RetiredShutOut
  <2>4. QED
    BY <1>7, <2>2, <2>3 DEF RevokeSessions
<1>8. CASE StoreChange(r)
  <2>1. /\ retired' = retired /\ password' = password + 1
        /\ \A p \in sessions' : p \in sessions \/ p = password'
    BY <1>8 DEF StoreChange, history
  <2>2. /\ pc'[r] = "keeping"
        /\ \A q \in Requests \ {r} : pc'[q] = pc[q] /\ saw'[q] = saw[q]
    BY <1>8 DEF StoreChange, GoTo, TypeOK
  <2>3. pc'[r] \notin LoginPCs
    BY <2>2, PCFacts
  <2>4. QED
    BY <2>1, <2>2, <2>3, NothingRetired
<1>9. ASSUME NEW l \in Links, FollowLink(r, l)
      PROVE  RetiredOlder' /\ RetiredShutOut'
  <2>1. /\ pc'[r] \notin LoginPCs
        /\ \A q \in Requests \ {r} : pc'[q] = pc[q] /\ saw'[q] = saw[q]
    BY <1>1, <1>9, PCFacts DEF FollowLink, GoTo
  <2>2. QED
    BY <1>9, <2>1, NothingRetired DEF FollowLink, row, history
<1>10. ASSUME NEW p \in Passwords, ChangePassword(r, p)
       PROVE  RetiredOlder' /\ RetiredShutOut'
  <2>1. /\ pc'[r] = "changing"
        /\ \A q \in Requests \ {r} : pc'[q] = pc[q] /\ saw'[q] = saw[q]
    BY <1>10 DEF ChangePassword, GoTo, TypeOK
  <2>2. QED
    BY <1>10, <2>1, NothingRetired, PCFacts DEF ChangePassword, row, history
<1>11. QED
  BY <1>2, <1>3, <1>5, <1>6, <1>7, <1>8, <1>9, <1>10 DEF Inside

-----------------------------------------------------------------------------
(* The theorems                                                            *)

\* The invariant holds in every reachable state.
LEMMA Invariant == Spec => []IInv
<1>1. Init => IInv
  <2> SUFFICES ASSUME Init PROVE IInv
    OBVIOUS
  <2>1. TypeOK
    <3>1. purge \in BOOLEAN
      BY DEF Init
    <3>2. /\ pc \in [Requests -> PCs]
          /\ saw \in [Requests -> Passwords]
          /\ link \in [Requests -> Links \cup {NoLink}]
          /\ links \in [Links -> {"unsent", "live", "gone"}]
      BY BoundFacts DEF Init, PCs, Passwords
    <3>3. /\ password \in Passwords /\ retired \in Passwords
          /\ failed \in 0..MaxFailed /\ missed \in 0..MaxMissed
          /\ sessions \subseteq Passwords /\ spent \subseteq Links
          /\ lock \in Locks
      BY BoundFacts DEF Init, Passwords, Locks
    <3>4. QED
      BY <3>1, <3>2, <3>3 DEF TypeOK
  <2>2. LinkOfReset
    BY PCFacts DEF Init, LinkOfReset
  <2>3. GuessesBounded
    BY BoundFacts, LockingFinite DEF Init, GuessesBounded
  <2>4. RetiredOlder /\ RetiredShutOut /\ LinkUsedOnce
    BY PCFacts DEF Init, RetiredOlder, RetiredShutOut, LinkUsedOnce
  <2>5. QED
    BY <2>1, <2>2, <2>3, <2>4 DEF IInv
<1>2. IInv /\ [Next]_vars => IInv'
  <2> SUFFICES ASSUME IInv, [Next]_vars PROVE IInv'
    OBVIOUS
  <2> USE DEF IInv
  <2>1. CASE Outside
    BY <2>1, OutsideTypes, OutsideLinks, OutsideGuesses, OutsideRetired
  <2>2. ASSUME NEW r \in Requests, Inside(r)
        PROVE  IInv'
    BY <2>2, InsideTypes, InsideLinkOfReset, InsideLinkUsedOnce, InsideGuesses, InsideRetired
  <2>3. CASE UNCHANGED vars
    <3>1. Locking' = Locking
      BY <2>3 DEF vars, Locking
    <3>2. GuessesBounded'
      BY <2>3, <3>1 DEF vars, GuessesBounded
    <3>3. QED
      BY <2>3, <3>2 DEF vars, TypeOK, LinkOfReset, RetiredOlder, RetiredShutOut, LinkUsedOnce
  <2>4. QED
    BY <2>1, <2>2, <2>3, StepKinds
<1>3. QED
  BY <1>1, <1>2, PTL DEF Spec

\* Every variable of Accounts keeps its type.
THEOREM TypeCorrect == Spec => []TypeOK
BY Invariant, PTL DEF IInv

\* However many requests guess at once, an account that is not locked has seen
\* fewer wrong passwords than the threshold, the locks under way and the lost.
THEOREM Bounded == Spec => []GuessesBounded
BY Invariant, PTL DEF IInv

\* A reset that no login overlapped shuts out who only knew an older password.
THEOREM ShutOut == Spec => []RetiredShutOut
BY Invariant, PTL DEF IInv

\* The link of a reset that no other overlapped is not followed again.
THEOREM UsedOnce == Spec => []LinkUsedOnce
BY Invariant, PTL DEF IInv

\* A timed lock that no login overlaps ends by the clock or an admin only.
THEOREM LockHolds == Spec => TimedLockHolds
<1>1. TypeOK /\ [Next]_vars =>
        [Barred => Barred' \/ LockLapses \/ AdminUnlock \/ AdminLock("forever")]_vars
  <2> SUFFICES ASSUME TypeOK, Barred, Next, ~ LockLapses, ~ AdminUnlock, ~ AdminLock("forever")
               PROVE  Barred'
    OBVIOUS
  <2> USE DEF Barred
  <2>1. CASE Outside
    BY <2>1 DEF Outside, AdminLock, PurgeSessions, EndSessions, ForgotPassword, LinkExpires,
                row, slots
  <2>2. ASSUME NEW r \in Requests, Inside(r)
        PROVE  Barred'
    <3>0. Checking = {"checking", "failing", "recording"}
      BY DEF Checking
    <3>1. ASSUME NEW to \in PCs \ Checking, pc' = [pc EXCEPT ![r] = to], lock' = "timed"
          PROVE  Barred'
      BY <3>1 DEF TypeOK
    <3>2. CASE End(r) /\ lock' = "timed"
      BY <3>0, <3>1, <3>2, PCFacts DEF End
    <3>3. CASE Register(r) \/ CreateUser(r) \/ ResetPassword(r) \/ RevokeSessions(r) \/ StoreChange(r)
      BY <3>0, <3>1, <3>3, PCFacts
         DEF Register, CreateUser, ResetPassword, RevokeSessions, StoreChange, GoTo, row
    <3>4. CASE LockOut(r) \/ OpenSession(r) \/ DropLink(r) \/ RevokeOthers(r) \/ Fail(r)
      BY <3>2, <3>4 DEF LockOut, OpenSession, DropLink, RevokeOthers, Fail, row
    <3>5. CASE WrongPassword(r) \/ RightPassword(r) \/ CountFailure(r) \/ MfaMissing(r)
                 \/ RecordSuccess(r) \/ ReadAccount(r)
      BY <3>0, <3>5
         DEF WrongPassword, RightPassword, CountFailure, MfaMissing, RecordSuccess,
             ReadAccount, GoTo
    <3>6. ASSUME NEW l \in Links, FollowLink(r, l)
          PROVE  Barred'
      BY <3>0, <3>1, <3>6, PCFacts DEF FollowLink, GoTo, row
    <3>7. ASSUME NEW p \in Passwords, ChangePassword(r, p)
          PROVE  Barred'
      BY <3>7 DEF ChangePassword
    <3>8. QED
      BY <2>2, <3>3, <3>4, <3>5, <3>6, <3>7 DEF Inside
  <2>3. QED
    BY <2>1, <2>2, StepKinds
<1>2. QED
  BY <1>1, TypeCorrect, PTL DEF Spec, TimedLockHolds
=============================================================================
