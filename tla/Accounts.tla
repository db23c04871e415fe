------------------------------ MODULE Accounts ------------------------------
(***************************************************************************)
(* The account row of one user: failed logins and locks, the password and  *)
(* its resets and changes, and which sessions were opened with which       *)
(* password.  All queries are by user id or by the unique email, so one    *)
(* user is enough.                                                         *)
(*                                                                         *)
(* A request is a slot of Requests, a step is the code between two awaits; *)
(* the row is read in one step and decided on or written in later ones.    *)
(* A password is the number of its version, and a session is known by the  *)
(* password its owner had to know: Sessions models what a revocation of    *)
(* sessions does in detail, here it is one step.  Whether the account is   *)
(* active or deleted is modelled there too.  Of MFA only its outcome in a  *)
(* login is left: a code is right, or the login ends.  Reads see the last  *)
(* commit, as in the primary region.                                       *)
(***************************************************************************)
EXTENDS Naturals, FiniteSets

CONSTANTS
  Requests,      \* Slots for requests in flight.
  Links,         \* Password reset links that may be mailed.
  NoLink,        \* The link of a slot that follows none.
  Threshold,     \* FAILED_LOGIN_LOCK_THRESHOLD.
  MaxFailed,     \* Bound on failedLoginAttempts.
  MaxPasswords,  \* Bound on the passwords the account ever has.
  MaxMissed      \* Bound on the locks that are never written.

ASSUME AccountsAssumption ==
  /\ IsFiniteSet(Requests)
  /\ NoLink \notin Links
  /\ Threshold \in Nat \ {0}
  /\ MaxFailed \in Nat /\ MaxPasswords \in Nat /\ MaxMissed \in Nat

VARIABLES
  password,  \* Version of passwordHash; 0: there is no row yet.
  lock,      \* isLocked and lockedUntil, see Locks.
  failed,    \* failedLoginAttempts.
  sessions,  \* Passwords that open sessions were opened with.
  purge,     \* The listener of user.locked has still to revoke the sessions.
  links,     \* A reset link is "unsent", "live" (in Redis) or "gone".
  pc,        \* The await a request is suspended at.
  saw,       \* Password a login checks against, or session of a change; or 0.
  link,      \* Link a reset follows.
  missed,    \* History: locks that were due and never written.
  retired,   \* History: oldest password that may still have a session.
  spent      \* History: links of resets that no other reset overlapped.

row     == <<password, lock, failed>>
slots   == <<pc, saw, link>>
history == <<missed, retired, spent>>
vars    == <<password, lock, failed, sessions, purge, links, pc, saw, link,
             missed, retired, spent>>

\* Not locked; locked until a time to come, or one that is past; or locked
\* without a lockedUntil.
Locks == {"open", "timed", "lapsed", "forever"}

Passwords == 0..MaxPasswords

\* A login that has read the row and may still write it.
Checking == {"checking", "failing", "recording"}
LoginPCs == Checking \cup {"issuing"}
ResetPCs == {"resetting", "revoking", "dropping"}
PCs      == {"idle", "registering", "locking", "changing", "keeping"}
              \cup LoginPCs \cup ResetPCs

TypeOK ==
  /\ password \in Passwords
  /\ lock \in Locks
  /\ failed \in 0..MaxFailed
  /\ sessions \subseteq Passwords
  /\ purge \in BOOLEAN
  /\ links \in [Links -> {"unsent", "live", "gone"}]
  /\ pc \in [Requests -> PCs]
  /\ saw \in [Requests -> Passwords]
  /\ link \in [Requests -> Links \cup {NoLink}]
  /\ missed \in 0..MaxMissed
  /\ retired \in Passwords
  /\ spent \subseteq Links

Init ==
  /\ password = 0
  /\ lock = "open"
  /\ failed = 0
  /\ sessions = {}
  /\ purge = FALSE
  /\ links = [l \in Links |-> "unsent"]
  /\ pc = [r \in Requests |-> "idle"]
  /\ saw = [r \in Requests |-> 0]
  /\ link = [r \in Requests |-> NoLink]
  /\ missed = 0
  /\ retired = 0
  /\ spent = {}

GoTo(r, from, to) == pc[r] = from /\ pc' = [pc EXCEPT ![r] = to]

\* The request returns or throws.
End(r) ==
  /\ pc' = [pc EXCEPT ![r] = "idle"]
  /\ saw' = [saw EXCEPT ![r] = 0]
  /\ link' = [link EXCEPT ![r] = NoLink]

-----------------------------------------------------------------------------
(* register, login and issueTokens                                         *)

\* The password is acceptable, and existsByEmail finds no row.
Register(r) ==
  /\ password = 0
  /\ GoTo(r, "idle", "registering")
  /\ UNCHANGED <<row, sessions, purge, links, saw, link, history>>

\* The insert, which the unique index on the email refuses a second time.
CreateUser(r) ==
  /\ password = 0 /\ MaxPasswords > 0
  /\ GoTo(r, "registering", "issuing")
  /\ password' = 1
  /\ saw' = [saw EXCEPT ![r] = 1]
  /\ UNCHANGED <<lock, failed, sessions, purge, links, link, history>>

\* Mutant of ReadAccount: the lock is not looked at.
ReadAccountUnlocked(r) ==
  /\ password # 0
  /\ GoTo(r, "idle", "checking")
  /\ saw' = [saw EXCEPT ![r] = password]
  /\ UNCHANGED <<row, sessions, purge, links, link, history>>

\* findByEmailWithSecrets and assertAccountUsable.
ReadAccount(r) ==
  /\ password # 0
  /\ lock # "timed"
  /\ GoTo(r, "idle", "checking")
  /\ saw' = [saw EXCEPT ![r] = password]
  /\ UNCHANGED <<row, sessions, purge, links, link, history>>

WrongPassword(r) ==
  /\ GoTo(r, "checking", "failing")
  /\ UNCHANGED <<row, sessions, purge, links, saw, link, history>>

\* Mutant of CountFailure: one more failure than the threshold.
CountFailureLate(r) ==
  /\ pc[r] = "failing"
  /\ failed < MaxFailed
  /\ failed' = failed + 1
  /\ \/ failed' > Threshold /\ GoTo(r, "failing", "locking") /\ UNCHANGED <<saw, link>>
     \/ failed' <= Threshold /\ End(r)
  /\ UNCHANGED <<password, lock, sessions, purge, links, history>>

\* incrementFailedLoginAttempts, whose result handleLoginFailure decides on.
CountFailure(r) ==
  /\ pc[r] = "failing"
  /\ failed < MaxFailed
  /\ failed' = failed + 1
  /\ \/ failed' >= Threshold /\ GoTo(r, "failing", "locking") /\ UNCHANGED <<saw, link>>
     \/ failed' < Threshold /\ End(r)
  /\ UNCHANGED <<password, lock, sessions, purge, links, history>>

\* lock with an end, which also emits user.locked.
LockOut(r) ==
  /\ pc[r] = "locking"
  /\ End(r)
  /\ lock' = "timed"
  /\ purge' = TRUE
  /\ UNCHANGED <<password, failed, sessions, links, history>>

\* The password is right, and so is the MFA code if one is needed.
RightPassword(r) ==
  /\ GoTo(r, "checking", "recording")
  /\ UNCHANGED <<row, sessions, purge, links, saw, link, history>>

\* The password is right, the answer a challenge or MFA_INVALID.
MfaMissing(r) ==
  /\ pc[r] = "checking"
  /\ End(r)
  /\ UNCHANGED <<row, sessions, purge, links, history>>

\* Mutant of RecordSuccess: a success forgives one failure.
RecordSuccessForgives(r) ==
  /\ GoTo(r, "recording", "issuing")
  /\ lock' = "open"
  /\ failed' = failed - 1
  /\ UNCHANGED <<password, sessions, purge, links, saw, link, history>>

\* recordLoginSuccess, whatever happened to the row since it was read.
RecordSuccess(r) ==
  /\ GoTo(r, "recording", "issuing")
  /\ lock' = "open"
  /\ failed' = 0
  /\ UNCHANGED <<password, sessions, purge, links, saw, link, history>>

OpenSession(r) ==
  /\ pc[r] = "issuing"
  /\ End(r)
  /\ sessions' = sessions \cup {saw[r]}
  /\ UNCHANGED <<row, purge, links, history>>

-----------------------------------------------------------------------------
(* Locks of admins, and the clock                                          *)

\* Lock with durationMinutes or without, which is lockedUntil = null.
AdminLock(kind) ==
  /\ password # 0
  /\ lock' = kind
  /\ purge' = TRUE
  /\ UNCHANGED <<password, failed, sessions, links, slots, history>>

AdminUnlock ==
  /\ password # 0
  /\ lock' = "open"
  /\ failed' = 0
  /\ UNCHANGED <<password, sessions, purge, links, slots, history>>

LockLapses ==
  /\ lock = "timed"
  /\ lock' = "lapsed"
  /\ UNCHANGED <<password, failed, sessions, purge, links, slots, history>>

\* The listener of user.locked.
PurgeSessions ==
  /\ purge
  /\ purge' = FALSE
  /\ sessions' = {}
  /\ UNCHANGED <<row, links, slots, history>>

\* A logout or an expiry ends the sessions opened with p.
EndSessions(p) ==
  /\ p \in sessions
  /\ sessions' = sessions \ {p}
  /\ UNCHANGED <<row, purge, links, slots, history>>

-----------------------------------------------------------------------------
(* forgotPassword and resetPassword                                        *)

ForgotPassword(l) ==
  /\ password # 0
  /\ links[l] = "unsent"
  /\ links' = [links EXCEPT ![l] = "live"]
  /\ UNCHANGED <<row, sessions, purge, slots, history>>

LinkExpires(l) ==
  /\ links[l] = "live"
  /\ links' = [links EXCEPT ![l] = "gone"]
  /\ UNCHANGED <<row, sessions, purge, slots, history>>

\* The get of the token; the new password is checked and hashed after it.
FollowLink(r, l) ==
  /\ links[l] = "live"
  /\ GoTo(r, "idle", "resetting")
  /\ link' = [link EXCEPT ![r] = l]
  /\ UNCHANGED <<row, sessions, purge, links, saw, history>>

\* updatePassword.
ResetPassword(r) ==
  /\ password < MaxPasswords
  /\ GoTo(r, "resetting", "revoking")
  /\ password' = password + 1
  /\ UNCHANGED <<lock, failed, sessions, purge, links, saw, link, history>>

\* No login is under way that checked an older password than the current.
NoStaleLogin == \A q \in Requests : pc[q] \in LoginPCs => saw[q] = password

\* Mutant of RevokeSessions: sessions of the newest password are kept.
RevokeOlderSessions(r) ==
  /\ GoTo(r, "revoking", "dropping")
  /\ sessions' = sessions \ {p \in Passwords : p + 1 < password}
  /\ retired' = IF NoStaleLogin THEN password ELSE retired
  /\ UNCHANGED <<row, purge, links, saw, link, missed, spent>>

\* revokeAll; history: older passwords are retired if no login overlaps.
RevokeSessions(r) ==
  /\ GoTo(r, "revoking", "dropping")
  /\ sessions' = {}
  /\ retired' = IF NoStaleLogin THEN password ELSE retired
  /\ UNCHANGED <<row, purge, links, saw, link, missed, spent>>

\* Mutant of DropLink: the token stays in Redis until it expires.
KeepLink(r) ==
  /\ pc[r] = "dropping"
  /\ End(r)
  /\ spent' = IF \E q \in Requests \ {r} : link[q] = link[r]
                THEN spent ELSE spent \cup {link[r]}
  /\ UNCHANGED <<row, sessions, purge, links, missed, retired>>

\* The del of the token.
DropLink(r) ==
  /\ pc[r] = "dropping"
  /\ End(r)
  /\ links' = [links EXCEPT ![link[r]] = "gone"]
  /\ spent' = IF \E q \in Requests \ {r} : link[q] = link[r]
                THEN spent ELSE spent \cup {link[r]}
  /\ UNCHANGED <<row, sessions, purge, missed, retired>>

-----------------------------------------------------------------------------
(* changePassword                                                          *)

\* JwtStrategy.validate lets a session pass, and the current password given
\* is right.
ChangePassword(r, p) ==
  /\ p \in sessions
  /\ lock # "timed"
  /\ GoTo(r, "idle", "changing")
  /\ saw' = [saw EXCEPT ![r] = p]
  /\ UNCHANGED <<row, sessions, purge, links, link, history>>

\* updatePassword: whoever holds this session, if it is still there, knows
\* the new password from now on.
StoreChange(r) ==
  /\ password < MaxPasswords
  /\ GoTo(r, "changing", "keeping")
  /\ password' = password + 1
  /\ sessions' = IF saw[r] \in sessions THEN sessions \cup {password'} ELSE sessions
  /\ saw' = [saw EXCEPT ![r] = password']
  /\ UNCHANGED <<lock, failed, purge, links, link, history>>

\* revokeAllExcept the session of the request.
RevokeOthers(r) ==
  /\ pc[r] = "keeping"
  /\ End(r)
  /\ sessions' = sessions \cap {saw[r]}
  /\ UNCHANGED <<row, purge, links, history>>

-----------------------------------------------------------------------------
(* A query or the process fails, or a check refuses the request            *)

Fail(r) ==
  /\ pc[r] # "idle"
  /\ pc[r] = "locking" => missed < MaxMissed
  /\ End(r)
  /\ missed' = IF pc[r] = "locking" THEN missed + 1 ELSE missed
  /\ UNCHANGED <<row, sessions, purge, links, retired, spent>>

Next ==
  \/ \E r \in Requests :
       \/ Register(r)
       \/ CreateUser(r)
       \/ ReadAccount(r)
       \/ WrongPassword(r)
       \/ CountFailure(r)
       \/ LockOut(r)
       \/ RightPassword(r)
       \/ MfaMissing(r)
       \/ RecordSuccess(r)
       \/ OpenSession(r)
       \/ ResetPassword(r)
       \/ RevokeSessions(r)
       \/ DropLink(r)
       \/ StoreChange(r)
       \/ RevokeOthers(r)
       \/ Fail(r)
  \/ \E r \in Requests, l \in Links : FollowLink(r, l)
  \/ \E r \in Requests, p \in Passwords : ChangePassword(r, p)
  \/ \E kind \in {"timed", "forever"} : AdminLock(kind)
  \/ AdminUnlock
  \/ LockLapses
  \/ PurgeSessions
  \/ \E p \in Passwords : EndSessions(p)
  \/ \E l \in Links : ForgotPassword(l) \/ LinkExpires(l)

Spec == Init /\ [][Next]_vars

-----------------------------------------------------------------------------
(* Properties                                                              *)

Locking == {r \in Requests : pc[r] = "locking"}

\* Guessing in parallel does not help: an account that is not locked has seen
\* fewer wrong passwords than the threshold, but for those whose lock is about
\* to be written or was lost with its request.
GuessesBounded ==
  lock = "open" => failed < Threshold + Cardinality(Locking) + missed

\* Locked until a time to come, and no login that read the row before.
Barred == lock = "timed" /\ \A r \in Requests : pc[r] \notin Checking

\* A timed lock that no login overlaps holds, through the logins that are
\* tried, resets and changes of the password: only the clock or an admin
\* ends it.
TimedLockHolds ==
  [][Barred => Barred' \/ LockLapses \/ AdminUnlock \/ AdminLock("forever")]_vars

\* Once a reset has revoked the sessions, and no login overlapped it, nobody
\* who only knew an older password has a session or is about to get one,
\* whatever resets and changes overlap or fail.
RetiredShutOut ==
  /\ \A p \in sessions : p >= retired
  /\ \A r \in Requests : pc[r] \in LoginPCs => saw[r] >= retired

\* A link whose reset was completed while no other reset followed it is never
\* followed again.
LinkUsedOnce ==
  \A l \in spent : links[l] = "gone" /\ \A r \in Requests : link[r] # l

\* What LockUserDto promises of a lock without durationMinutes, that it is
\* indefinite until an admin unlocks the account: no login gets past the check
\* of the account while it lasts.
IndefiniteLockHolds ==
  [][\A r \in Requests :
       lock = "forever" /\ pc[r] = "idle" => pc'[r] \notin Checking]_vars
=============================================================================
