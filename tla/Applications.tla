---------------------------- MODULE Applications ----------------------------
(***************************************************************************)
(* One job application of careers: its submission, the status pipeline the *)
(* admins move it through, its withdrawal, and the rows of                 *)
(* application_status_history.  Every query is by application id or by the *)
(* unique (email, posting), so applications are independent and one is     *)
(* enough; bulkChangeStatus is a slot that changes one after another.      *)
(*                                                                         *)
(* A request is a slot of Requests, and a step is the code between two     *)
(* awaits: a status is read in one and written in another, in a            *)
(* transaction that does not look at it again.                             *)
(*                                                                         *)
(* Status DRAFT is no state here: nothing creates such an application.     *)
(* The posting and the verification code are checked before Submit.        *)
(***************************************************************************)
EXTENDS Naturals, FiniteSets

CONSTANTS
  Requests,   \* Slots for requests in flight.
  MaxHistory  \* Bound on the distinct transitions on record.

ASSUME ApplicationsAssumption == MaxHistory \in Nat \ {0}

VARIABLES
  app,      \* Status of the row of applications, or "none".
  history,  \* Transitions <<from, to>> on record.  A set: the pipeline has no
            \* cycle, and nothing orders rows with the same createdAt.
  linked,   \* The applicant has a magic link that is not expired.
  pc,       \* The await a request is suspended at.
  seen,     \* The status a request read, or "none".
  target    \* The status an admin asked for, or "none".

vars == <<app, history, linked, pc, seen, target>>

Pipeline == {"SUBMITTED", "UNDER_REVIEW", "SHORTLISTED",
             "INTERVIEW_SCHEDULED", "INTERVIEWED", "OFFER_EXTENDED"}
Terminal == {"HIRED", "REJECTED", "WITHDRAWN"}
Statuses == Pipeline \cup Terminal

\* The status that follows in the pipeline.
NextStage ==
  [s \in Pipeline |->
     CASE s = "SUBMITTED"           -> "UNDER_REVIEW"
       [] s = "UNDER_REVIEW"        -> "SHORTLISTED"
       [] s = "SHORTLISTED"         -> "INTERVIEW_SCHEDULED"
       [] s = "INTERVIEW_SCHEDULED" -> "INTERVIEWED"
       [] s = "INTERVIEWED"         -> "OFFER_EXTENDED"
       [] s = "OFFER_EXTENDED"      -> "HIRED"]

\* Mutant of Allowed: any later stage will do.
AllowedSkipping(s) == IF s \in Pipeline THEN Statuses \ {s, "SUBMITTED"} ELSE {}

\* ALLOWED_TRANSITIONS, where a terminal status has none.
Allowed(s) == IF s \in Pipeline THEN {NextStage[s], "REJECTED", "WITHDRAWN"} ELSE {}

\* ALLOWED_STATUSES of ChangeStatusDto.
Requested == Pipeline \cup {"HIRED", "REJECTED"}

PCs == {"idle", "submitting", "inserting", "linking",
        "reading", "changing", "announcing", "withdrawing", "leaving"}

TypeOK ==
  /\ app \in Statuses \cup {"none"}
  /\ history \subseteq (Pipeline \cup {"DRAFT"}) \X Statuses
  /\ linked \in BOOLEAN
  /\ pc \in [Requests -> PCs]
  /\ seen \in [Requests -> Statuses \cup {"none"}]
  /\ target \in [Requests -> Requested \cup {"none"}]

Init ==
  /\ app = "none"
  /\ history = {}
  /\ linked = FALSE
  /\ pc = [r \in Requests |-> "idle"]
  /\ seen = [r \in Requests |-> "none"]
  /\ target = [r \in Requests |-> "none"]

GoTo(r, from, to) == pc[r] = from /\ pc' = [pc EXCEPT ![r] = to]

\* The request ends, and what it read is gone.
End(r) ==
  /\ pc' = [pc EXCEPT ![r] = "idle"]
  /\ seen' = [seen EXCEPT ![r] = "none"]
  /\ target' = [target EXCEPT ![r] = "none"]

\* Both statements of the transaction that moves the application.
Record(from, to) ==
  /\ Cardinality(history \cup {<<from, to>>}) <= MaxHistory
  /\ app' = to
  /\ history' = history \cup {<<from, to>>}

-----------------------------------------------------------------------------
(* submit                                                                  *)

\* The posting is open and the verification code was right.
Submit(r) ==
  /\ GoTo(r, "idle", "submitting")
  /\ UNCHANGED <<app, history, linked, seen, target>>

\* findUnique by (email, posting): APPLICATION_DUPLICATE if there is one.
FindExisting(r) ==
  /\ app = "none"
  /\ GoTo(r, "submitting", "inserting")
  /\ UNCHANGED <<app, history, linked, seen, target>>

RefuseDuplicate(r) ==
  /\ pc[r] = "submitting"
  /\ app # "none"
  /\ End(r)
  /\ UNCHANGED <<app, history, linked>>

\* The insert, which the unique index refuses a second time (see Fail).
Insert(r) ==
  /\ app = "none"
  /\ GoTo(r, "inserting", "linking")
  /\ Record("DRAFT", "SUBMITTED")
  /\ UNCHANGED <<linked, seen, target>>

\* The magic link is stored, and the listener of the event mails it.
MailLink(r) ==
  /\ pc[r] = "linking"
  /\ End(r)
  /\ linked' = TRUE
  /\ UNCHANGED <<app, history>>

-----------------------------------------------------------------------------
(* changeStatus, and each round of bulkChangeStatus                        *)

ChangeStatus(r, to) ==
  /\ app # "none"
  /\ GoTo(r, "idle", "reading")
  /\ target' = [target EXCEPT ![r] = to]
  /\ UNCHANGED <<app, history, linked, seen>>

\* Mutant of CheckTransition: any status follows one that is not terminal.
CheckTerminalOnly(r) ==
  /\ app \notin Terminal
  /\ GoTo(r, "reading", "changing")
  /\ seen' = [seen EXCEPT ![r] = app]
  /\ UNCHANGED <<app, history, linked, target>>

\* findById, and both checks on what it returns.
CheckTransition(r) ==
  /\ target[r] \in Allowed(app)
  /\ GoTo(r, "reading", "changing")
  /\ seen' = [seen EXCEPT ![r] = app]
  /\ UNCHANGED <<app, history, linked, target>>

RefuseTransition(r) ==
  /\ pc[r] = "reading"
  /\ target[r] \notin Allowed(app)
  /\ End(r)
  /\ UNCHANGED <<app, history, linked>>

\* Mutant of WriteStatus: the history claims the status before the update.
WriteStatusFromCurrent(r) ==
  /\ GoTo(r, "changing", "announcing")
  /\ Record(app, target[r])
  /\ UNCHANGED <<linked, seen, target>>

\* The transaction: fromStatus is the status the request read.
WriteStatus(r) ==
  /\ GoTo(r, "changing", "announcing")
  /\ Record(seen[r], target[r])
  /\ UNCHANGED <<linked, seen, target>>

\* The listener stores a new magic link, which a rejection does not mail.
Announce(r) ==
  /\ pc[r] = "announcing"
  /\ End(r)
  /\ linked' = (linked \/ target[r] # "REJECTED")
  /\ UNCHANGED <<app, history>>

-----------------------------------------------------------------------------
(* withdraw                                                                *)

\* ApplicantTokenGuard.
Withdraw(r) ==
  /\ linked
  /\ GoTo(r, "idle", "withdrawing")
  /\ UNCHANGED <<app, history, linked, seen, target>>

\* Mutant of CheckWithdrawal: only a withdrawn application is refused.
CheckWithdrawnOnly(r) ==
  /\ app # "WITHDRAWN"
  /\ GoTo(r, "withdrawing", "leaving")
  /\ seen' = [seen EXCEPT ![r] = app]
  /\ UNCHANGED <<app, history, linked, target>>

CheckWithdrawal(r) ==
  /\ app \notin Terminal
  /\ GoTo(r, "withdrawing", "leaving")
  /\ seen' = [seen EXCEPT ![r] = app]
  /\ UNCHANGED <<app, history, linked, target>>

RefuseWithdrawal(r) ==
  /\ pc[r] = "withdrawing"
  /\ app \in Terminal
  /\ End(r)
  /\ UNCHANGED <<app, history, linked>>

WriteWithdrawal(r) ==
  /\ pc[r] = "leaving"
  /\ Record(seen[r], "WITHDRAWN")
  /\ End(r)
  /\ UNCHANGED linked

-----------------------------------------------------------------------------
(* Failures, and magic links outside of submit                             *)

\* A query or the process fails, or the unique index refuses an insert.
Fail(r) ==
  /\ pc[r] # "idle"
  /\ End(r)
  /\ UNCHANGED <<app, history, linked>>

RequestAccess ==
  /\ app # "none"
  /\ linked' = TRUE
  /\ UNCHANGED <<app, history, pc, seen, target>>

LinkExpires ==
  /\ linked
  /\ linked' = FALSE
  /\ UNCHANGED <<app, history, pc, seen, target>>

Next ==
  \/ \E r \in Requests :
       \/ Submit(r)
       \/ FindExisting(r)
       \/ RefuseDuplicate(r)
       \/ Insert(r)
       \/ MailLink(r)
       \/ CheckTransition(r)
       \/ RefuseTransition(r)
       \/ WriteStatus(r)
       \/ Announce(r)
       \/ Withdraw(r)
       \/ CheckWithdrawal(r)
       \/ RefuseWithdrawal(r)
       \/ WriteWithdrawal(r)
       \/ Fail(r)
  \/ \E r \in Requests, to \in Requested : ChangeStatus(r, to)
  \/ RequestAccess
  \/ LinkExpires

Spec == Init /\ [][Next]_vars

-----------------------------------------------------------------------------
(* Properties                                                              *)

\* However stale the status a change was decided on, its row is a transition
\* the pipeline allows, from the submission or a status on record.
HistoryGrounded ==
  \A e \in history :
    \/ e = <<"DRAFT", "SUBMITTED">>
    \/ e[2] \in Allowed(e[1]) /\ \E f \in history : f[2] = e[1]

\* No interleaving of admins skips a stage: whoever is hired has every stage
\* of the pipeline on record.
HiredPassedEveryStage ==
  app = "HIRED" => \A s \in Pipeline : \E e \in history : e[2] = s

\* Requests that decided on a status they read and are about to write.
Deciding == {r \in Requests : pc[r] \in {"changing", "leaving"}}

\* A terminal status that nobody decided on before is final, through any
\* further submissions, changes and withdrawals.
Final == app \in Terminal /\ Deciding = {}

FinalUnlessOverlapped ==
  [][Final => Final' /\ app' = app /\ history' = history]_vars

\* An applicant is submitted once per posting: a later submission, even one
\* that looked before the first was stored, never sets the status back.
SubmittedOnce ==
  [][app # "none" /\ app' # app => app' # "SUBMITTED"]_vars
=============================================================================
