------------------------------ MODULE Postings ------------------------------
(***************************************************************************)
(* One job posting of careers and one applicant to it: the statuses the    *)
(* admins and the maintenance job move the posting through, the code that  *)
(* proves the applicant's address, its way through the mail queue, and the *)
(* submission up to the row of the application, where module Applications  *)
(* takes over.                                                             *)
(*                                                                         *)
(* Every check of the posting's status reads the replica, which lags; the  *)
(* update that follows is by id.  A request is a slot of Requests, and a   *)
(* step is an await and the code up to the next one.                       *)
(*                                                                         *)
(* The codes of the applicant are numbered in the order Redis stores them, *)
(* and mail c is the one that carries code c.                              *)
(***************************************************************************)
EXTENDS MailQueue

CONSTANTS
  Requests,  \* Slots for requests in flight.
  MaxTime    \* Bound on the clock.

ASSUME PostingsAssumption ==
  /\ MaxTime \in Nat
  /\ Mails \subseteq Nat \ {0}

VARIABLES
  posting,   \* Its row on the primary.
  replica,   \* Its row on the replica.
  now,       \* The clock.
  code,      \* The key careerVerifyCode of Redis, 0 if there is none.
  issued,    \* Codes generated so far.
  applied,   \* The applicant has an application for the posting.
  pc,        \* The await a request is suspended at.
  move,      \* The transition a request of an admin decided on, or "none".
  held       \* The code a submission presents, 0 for none.

postingVars == <<posting, replica, now>>
codeVars    == <<code, issued>>
slotVars    == <<pc, move, held>>
vars == <<postingVars, codeVars, applied, slotVars, mailVars>>

Statuses == {"DRAFT", "PUBLISHED", "CLOSED", "ARCHIVED"}
Moves    == {"publish", "close", "archive"}
PCs      == {"idle", "moving", "comparing", "deleting", "storing"}
Codes    == Mails

\* closesAt; null is MaxTime, which never passes.
Times    == 0..MaxTime
Rows     == [status : Statuses, closesAt : Times]

\* The status a move requires, and the one it sets.
From == [publish |-> "DRAFT",     close |-> "PUBLISHED", archive |-> "CLOSED"]
To   == [publish |-> "PUBLISHED", close |-> "CLOSED",    archive |-> "ARCHIVED"]

TypeOK ==
  /\ MailTypeOK
  /\ posting \in Rows
  /\ replica \in Rows
  /\ now \in Times
  /\ code \in Codes \cup {0}
  /\ issued \in Codes \cup {0}
  /\ applied \in BOOLEAN
  /\ pc \in [Requests -> PCs]
  /\ move \in [Requests -> Moves \cup {"none"}]
  /\ held \in [Requests -> Codes \cup {0}]

\* create: the posting is a draft, and the replica has it.
Init ==
  /\ MailInit
  /\ posting \in [status : {"DRAFT"}, closesAt : Times]
  /\ replica = posting
  /\ now = 0
  /\ code = 0
  /\ issued = 0
  /\ applied = FALSE
  /\ pc = [r \in Requests |-> "idle"]
  /\ move = [r \in Requests |-> "none"]
  /\ held = [r \in Requests |-> 0]

GoTo(r, from, to) == pc[r] = from /\ pc' = [pc EXCEPT ![r] = to]

\* The request ends, and what it read is gone.
End(r) ==
  /\ pc' = [pc EXCEPT ![r] = "idle"]
  /\ move' = [move EXCEPT ![r] = "none"]
  /\ held' = [held EXCEPT ![r] = 0]

-----------------------------------------------------------------------------
(* The posting                                                             *)

\* publish, close and archive read the posting and check its status.
Decide(r, m) ==
  /\ replica.status = From[m]
  /\ GoTo(r, "idle", "moving")
  /\ move' = [move EXCEPT ![r] = m]
  /\ UNCHANGED <<postingVars, codeVars, applied, held, mailVars>>

\* The update, by id alone.
WriteMove(r) ==
  /\ pc[r] = "moving"
  /\ posting' = [posting EXCEPT !.status = To[move[r]]]
  /\ End(r)
  /\ UNCHANGED <<replica, now, codeVars, applied, mailVars>>

\* update, which looks at no status.
UpdatePosting(t) ==
  /\ posting' = [posting EXCEPT !.closesAt = t]
  /\ UNCHANGED <<replica, now, codeVars, applied, slotVars, mailVars>>

Overdue(p) == p.closesAt < now

\* closeExpiredPostings, run by maintenance: one updateMany.
CloseExpired ==
  /\ posting.status = "PUBLISHED"
  /\ Overdue(posting)
  /\ posting' = [posting EXCEPT !.status = "CLOSED"]
  /\ UNCHANGED <<replica, now, codeVars, applied, slotVars, mailVars>>

Replicate ==
  /\ replica # posting
  /\ replica' = posting
  /\ UNCHANGED <<posting, now, codeVars, applied, slotVars, mailVars>>

Tick ==
  /\ now < MaxTime
  /\ now' = now + 1
  /\ UNCHANGED <<posting, replica, codeVars, applied, slotVars, mailVars>>

-----------------------------------------------------------------------------
(* The code                                                                *)

\* verifyEmail asks only whether there is such a posting, replaces the code
\* the key holds and queues its mail, unless it fails in between.  One step:
\* mails are sent in any order whatever the order they were queued in.
VerifyEmail ==
  /\ issued + 1 \in Codes
  /\ issued' = issued + 1
  /\ code' = issued + 1
  /\ Enqueue(issued + 1) \/ UNCHANGED mailVars
  /\ UNCHANGED <<postingVars, applied, slotVars>>

CodeExpires ==
  /\ code # 0
  /\ code' = 0
  /\ UNCHANGED <<postingVars, issued, applied, slotVars, mailVars>>

\* The worker's attempts at one mail.
Work(c) ==
  /\ Attempt(c)
  /\ UNCHANGED <<postingVars, codeVars, applied, slotVars>>

-----------------------------------------------------------------------------
(* submit                                                                  *)

\* POSTING_NOT_PUBLISHED and POSTING_CLOSED otherwise.
Open(p) == p.status = "PUBLISHED" /\ ~ Overdue(p)

\* Mutant of Submit: a code is enough.
SubmitAnyway(r, c) ==
  /\ c \in inbox
  /\ GoTo(r, "idle", "comparing")
  /\ held' = [held EXCEPT ![r] = c]
  /\ UNCHANGED <<postingVars, codeVars, applied, move, mailVars>>

\* The applicant enters one of the codes received, and the posting is open.
Submit(r, c) ==
  /\ c \in inbox
  /\ Open(replica)
  /\ GoTo(r, "idle", "comparing")
  /\ held' = [held EXCEPT ![r] = c]
  /\ UNCHANGED <<postingVars, codeVars, applied, move, mailVars>>

\* verifyCode: the key is read and compared.
Compare(r) ==
  /\ code = held[r]
  /\ GoTo(r, "comparing", "deleting")
  /\ UNCHANGED <<postingVars, codeVars, applied, move, held, mailVars>>

\* VERIFY_CODE_INVALID.
RefuseCode(r) ==
  /\ pc[r] = "comparing"
  /\ code # held[r]
  /\ End(r)
  /\ UNCHANGED <<postingVars, codeVars, applied, mailVars>>

\* Mutant of DeleteCode: the key is left to expire.
DeleteLater(r) ==
  /\ GoTo(r, "deleting", "storing")
  /\ UNCHANGED <<postingVars, code, issued, applied, move, held, mailVars>>

\* The key is deleted, whatever code it holds by now.
DeleteCode(r) ==
  /\ GoTo(r, "deleting", "storing")
  /\ code' = 0
  /\ UNCHANGED <<postingVars, issued, applied, move, held, mailVars>>

\* The transaction that creates the application.
StoreApplication(r) ==
  /\ pc[r] = "storing"
  /\ ~ applied
  /\ applied' = TRUE
  /\ End(r)
  /\ UNCHANGED <<postingVars, codeVars, mailVars>>

\* A query, Redis or the process fails, or there is an application already.
Fail(r) ==
  /\ pc[r] # "idle"
  /\ End(r)
  /\ UNCHANGED <<postingVars, codeVars, applied, mailVars>>

Next ==
  \/ \E r \in Requests, m \in Moves : Decide(r, m)
  \/ \E r \in Requests, c \in Codes : Submit(r, c)
  \/ \E r \in Requests :
       \/ WriteMove(r)
       \/ Compare(r)
       \/ RefuseCode(r)
       \/ DeleteCode(r)
       \/ StoreApplication(r)
       \/ Fail(r)
  \/ \E t \in Times : UpdatePosting(t)
  \/ CloseExpired
  \/ Replicate
  \/ Tick
  \/ VerifyEmail
  \/ CodeExpires
  \/ \E c \in Codes : Work(c)

Spec == Init /\ [][Next]_vars

\* The mail workers take a job as long as there is any.
Fairness == WF_vars(\E c \in Codes : Work(c))

FairSpec == Spec /\ Fairness

-----------------------------------------------------------------------------
(* Properties                                                              *)

\* Closed or archived, as every reader sees it, with no request under way
\* that read anything else.
Shut ==
  /\ {posting.status, replica.status} \subseteq {"CLOSED", "ARCHIVED"}
  /\ \A r \in Requests : pc[r] \notin {"comparing", "deleting", "storing"}
  /\ \A r \in Requests : move[r] # "none" => move[r] = "archive"

\* Whatever admins, maintenance, the clock and the applicant do next, a
\* posting that is shut stays shut and takes no application any more.
ShutForGood == [][Shut => Shut' /\ applied' = applied]_vars

\* Once a code has let a submission through and is deleted, it is not in Redis
\* again: only a submission that compared before that passes with it too, in
\* whatever order codes are asked for, mailed late or twice, and entered.
SpentIsGone == \A r \in Requests : pc[r] = "storing" => code # held[r]

\* Whatever throws, stalls and loses answers, no mail is attempted for ever:
\* the queue is empty again some day.
MailSettles ==
  (\E c \in Codes : job[c] = "queued") ~> (\A c \in Codes : job[c] # "queued")
=============================================================================
