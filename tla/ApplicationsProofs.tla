------------------------- MODULE ApplicationsProofs -------------------------
(***************************************************************************)
(* Proofs about Applications for any number of requests.  A status that a  *)
(* request read stays on record, however stale it becomes, and its target  *)
(* stays allowed from it: that is all a write relies on.                   *)
(***************************************************************************)
EXTENDS Applications, TLAPS

OnRecord(s) == \E f \in history : f[2] = s

\* The application's status is on record, and nothing precedes it.
StatusOnRecord == IF app = "none" THEN history = {} ELSE OnRecord(app)

\* What a request is about to write leads from a status on record.
DecisionsGrounded ==
  \A r \in Requests :
    /\ pc[r] = "changing" =>
         /\ target[r] \in Requested
         /\ seen[r] \in Pipeline
         /\ target[r] \in Allowed(seen[r])
         /\ OnRecord(seen[r])
    /\ pc[r] = "leaving" => seen[r] \in Pipeline /\ OnRecord(seen[r])

\* A magic link, and a request past the submission, are of an application.
ApplicationExists ==
  app = "none" =>
    /\ ~ linked
    /\ \A r \in Requests : pc[r] \in {"idle", "submitting", "inserting"}

IInv ==
  TypeOK /\ StatusOnRecord /\ DecisionsGrounded /\ ApplicationExists /\ HistoryGrounded

\* No status is the absence of one.
LEMMA NotNone == "none" \notin Statuses
BY DEF Statuses, Pipeline, Terminal

\* No transition leads to SUBMITTED, and all lead out of the pipeline.
LEMMA AllowedFacts ==
  /\ \A s \in Statuses : Allowed(s) \subseteq Statuses \ {"SUBMITTED"}
  /\ \A s \in Pipeline : "WITHDRAWN" \in Allowed(s)
  /\ \A s \in Statuses : Allowed(s) # {} => s \in Pipeline
BY DEF Allowed, NextStage, Statuses, Pipeline, Terminal

\* A step of the pipeline leads from the stage before.
LEMMA StageBefore ==
  ASSUME NEW s \in Statuses \cup {"DRAFT"}
  PROVE  /\ "HIRED" \in Allowed(s) => s = "OFFER_EXTENDED"
         /\ "OFFER_EXTENDED" \in Allowed(s) => s = "INTERVIEWED"
         /\ "INTERVIEWED" \in Allowed(s) => s = "INTERVIEW_SCHEDULED"
         /\ "INTERVIEW_SCHEDULED" \in Allowed(s) => s = "SHORTLISTED"
         /\ "SHORTLISTED" \in Allowed(s) => s = "UNDER_REVIEW"
         /\ "UNDER_REVIEW" \in Allowed(s) => s = "SUBMITTED"
BY DEF Allowed, NextStage, Statuses, Pipeline, Terminal

\* A row recorded from a status on record keeps all of the invariant that is
\* about the record.
LEMMA RecordGrounded ==
  ASSUME IInv, NEW from \in Pipeline \cup {"DRAFT"}, NEW to \in Statuses,
         Record(from, to),
         \/ from = "DRAFT" /\ to = "SUBMITTED"
         \/ to \in Allowed(from) /\ OnRecord(from)
  PROVE  /\ app' \in Statuses
         /\ history' \subseteq (Pipeline \cup {"DRAFT"}) \X Statuses
         /\ StatusOnRecord'
         /\ HistoryGrounded'
         /\ \A s : OnRecord(s) => OnRecord(s)'
<1> DEFINE e == <<from, to>>
<1>1. app' = to /\ history' = history \cup {e}
  BY DEF Record
<1>2. \A s : OnRecord(s) => OnRecord(s)'
  BY <1>1 DEF OnRecord
<1>3. to # "none"
  BY DEF Statuses, Pipeline, Terminal
<1>4. OnRecord(app)'
  <2>1. e \in history' /\ e[2] = app'
    BY <1>1
  <2>2. QED
    BY <2>1 DEF OnRecord
<1>5. StatusOnRecord'
  BY <1>1, <1>3, <1>4 DEF StatusOnRecord
<1>6. HistoryGrounded'
  <2> SUFFICES ASSUME NEW g \in history',
                      g # <<"DRAFT", "SUBMITTED">>
               PROVE  g[2] \in Allowed(g[1]) /\ OnRecord(g[1])'
    BY DEF HistoryGrounded, OnRecord
  <2>1. CASE g \in history
    BY <2>1, <1>2 DEF IInv, HistoryGrounded, OnRecord
  <2>2. CASE g = e
    BY <2>2, <1>2
  <2>3. QED
    BY <2>1, <2>2, <1>1
<1>7. history' \subseteq (Pipeline \cup {"DRAFT"}) \X Statuses
  BY <1>1 DEF IInv, TypeOK
<1>8. QED
  BY <1>1, <1>2, <1>5, <1>6, <1>7

\* A step that leaves the record alone keeps what is said about it.
LEMMA RecordKept ==
  ASSUME IInv, app' = app, history' = history
  PROVE  /\ StatusOnRecord' /\ HistoryGrounded'
         /\ \A s : OnRecord(s) => OnRecord(s)'
BY DEF IInv, StatusOnRecord, HistoryGrounded, OnRecord

\* A request that moves without deciding anything keeps the decisions of the
\* others.
LEMMA OthersDecisions ==
  ASSUME IInv, NEW r \in Requests,
         \A s : OnRecord(s) => OnRecord(s)',
         \A q \in Requests \ {r} :
           pc'[q] = pc[q] /\ seen'[q] = seen[q] /\ target'[q] = target[q],
         pc'[r] \notin {"changing", "leaving"}
  PROVE  DecisionsGrounded'
BY DEF IInv, DecisionsGrounded

\* The end of a request.
LEMMA Ends ==
  ASSUME IInv, NEW r \in Requests, End(r)
  PROVE  /\ pc' \in [Requests -> PCs]
         /\ seen' \in [Requests -> Statuses \cup {"none"}]
         /\ target' \in [Requests -> Requested \cup {"none"}]
         /\ \A q \in Requests \ {r} :
              pc'[q] = pc[q] /\ seen'[q] = seen[q] /\ target'[q] = target[q]
         /\ pc'[r] = "idle"
BY DEF IInv, TypeOK, End, PCs

\* The inductive invariant holds initially.
LEMMA InitIInv == Init => IInv
BY DEF Init, IInv, TypeOK, PCs, StatusOnRecord, DecisionsGrounded, ApplicationExists,
       HistoryGrounded

\* The inductive invariant is preserved by every action.
LEMMA NextIInv == IInv /\ [Next]_vars => IInv'
<1> SUFFICES ASSUME IInv, [Next]_vars PROVE IInv'
  OBVIOUS
<1> USE DEF GoTo
<1>1. ASSUME NEW r \in Requests,
             \/ Submit(r) \/ FindExisting(r) \/ Withdraw(r)
             \/ \E to \in Requested : ChangeStatus(r, to)
      PROVE  IInv'
  <2>1. /\ app' = app /\ history' = history /\ linked' = linked /\ seen' = seen
        /\ \E to \in Requested \cup {target[r]} : target' = [target EXCEPT ![r] = to]
        /\ \E p \in {"submitting", "inserting", "withdrawing", "reading"} :
             pc' = [pc EXCEPT ![r] = p]
    BY <1>1 DEF Submit, FindExisting, Withdraw, ChangeStatus, IInv, TypeOK
  <2>2. TypeOK'
    BY <2>1 DEF IInv, TypeOK, PCs
  <2>3. DecisionsGrounded'
    <3>1. pc'[r] \notin {"changing", "leaving"}
      BY <2>1 DEF IInv, TypeOK
    <3>2. \A q \in Requests \ {r} :
            pc'[q] = pc[q] /\ seen'[q] = seen[q] /\ target'[q] = target[q]
      BY <2>1 DEF IInv, TypeOK
    <3>3. QED
      BY <3>1, <3>2, <2>1, RecordKept, OthersDecisions
  <2>4. ApplicationExists'
    BY <1>1 DEF IInv, TypeOK, ApplicationExists, Submit, FindExisting, Withdraw,
                ChangeStatus
  <2>5. QED
    BY <2>1, <2>2, <2>3, <2>4, RecordKept DEF IInv
<1>2. ASSUME NEW r \in Requests,
             \/ RefuseDuplicate(r) \/ MailLink(r) \/ RefuseTransition(r)
             \/ Announce(r) \/ RefuseWithdrawal(r) \/ Fail(r)
      PROVE  IInv'
  <2>1. End(r) /\ app' = app /\ history' = history /\ linked' \in BOOLEAN
    BY <1>2 DEF RefuseDuplicate, MailLink, RefuseTransition, Announce,
                RefuseWithdrawal, Fail, IInv, TypeOK
  <2>2. TypeOK'
    BY <2>1, Ends DEF IInv, TypeOK
  <2>3. DecisionsGrounded'
    BY <2>1, Ends, RecordKept, OthersDecisions
  <2>4. ApplicationExists'
    <3>1. app = "none" => linked' = linked
      BY <1>2 DEF RefuseDuplicate, MailLink, RefuseTransition, Announce,
                  RefuseWithdrawal, Fail, IInv, ApplicationExists
    <3>2. QED
      BY <2>1, <3>1, Ends DEF IInv, ApplicationExists
  <2>5. QED
    BY <2>1, <2>2, <2>3, <2>4, RecordKept DEF IInv
<1>3. ASSUME NEW r \in Requests, Insert(r) PROVE IInv'
  <2>1. /\ Record("DRAFT", "SUBMITTED") /\ pc' = [pc EXCEPT ![r] = "linking"]
        /\ linked' = linked /\ seen' = seen /\ target' = target
    BY <1>3 DEF Insert
  <2>2. "SUBMITTED" \in Statuses
    BY DEF Statuses, Pipeline
  <2>3. /\ app' \in Statuses
        /\ history' \subseteq (Pipeline \cup {"DRAFT"}) \X Statuses
        /\ StatusOnRecord' /\ HistoryGrounded'
        /\ \A s : OnRecord(s) => OnRecord(s)'
    BY <2>1, <2>2, RecordGrounded
  <2>4. TypeOK'
    BY <2>1, <2>3 DEF IInv, TypeOK, PCs
  <2>5. DecisionsGrounded'
    BY <2>1, <2>3, OthersDecisions DEF IInv, TypeOK
  <2>6. QED
    BY <2>3, <2>4, <2>5, NotNone DEF IInv, ApplicationExists
<1>4. ASSUME NEW r \in Requests, CheckTransition(r) \/ CheckWithdrawal(r)
      PROVE  IInv'
  <2>1. /\ app' = app /\ history' = history /\ linked' = linked /\ target' = target
        /\ seen' = [seen EXCEPT ![r] = app]
        /\ \/ pc' = [pc EXCEPT ![r] = "changing"] /\ target[r] \in Allowed(app)
           \/ pc' = [pc EXCEPT ![r] = "leaving"] /\ app \notin Terminal
    BY <1>4 DEF CheckTransition, CheckWithdrawal
  <2>2. TypeOK'
    BY <2>1 DEF IInv, TypeOK, PCs
  <2>3. app \in Pipeline /\ OnRecord(app)
    <3>1. app # "none"
      BY <1>4 DEF CheckTransition, CheckWithdrawal, IInv, ApplicationExists
    <3>2. QED
      BY <3>1, <2>1, AllowedFacts DEF IInv, TypeOK, StatusOnRecord, Statuses
  <2>4. DecisionsGrounded'
    <3>1. ASSUME NEW q \in Requests \ {r}
          PROVE  pc'[q] = pc[q] /\ seen'[q] = seen[q] /\ target'[q] = target[q]
      BY <2>1 DEF IInv, TypeOK
    <3>2. seen'[r] = app /\ target'[r] = target[r] /\ OnRecord(app)'
      BY <2>1, <2>3, RecordKept DEF IInv, TypeOK
    <3>3. pc'[r] = "changing" => target[r] \in Requested /\ target[r] \in Allowed(app)
      <4>1. pc'[r] = "changing" => target[r] \in Allowed(app)
        BY <2>1 DEF IInv, TypeOK
      <4>2. "none" \notin Allowed(app)
        BY <2>3 DEF Allowed, NextStage, Pipeline
      <4>3. QED
        BY <4>1, <4>2 DEF IInv, TypeOK
    <3>4. \A s : OnRecord(s) => OnRecord(s)'
      BY <2>1, RecordKept
    <3>5. QED
      BY <2>3, <3>1, <3>2, <3>3, <3>4 DEF IInv, DecisionsGrounded
  <2>5. ApplicationExists'
    BY <2>1, <2>3, NotNone DEF ApplicationExists, Statuses
  <2>6. QED
    BY <2>1, <2>2, <2>4, <2>5, RecordKept DEF IInv
<1>5. ASSUME NEW r \in Requests, WriteStatus(r) PROVE IInv'
  <2>1. /\ pc[r] = "changing" /\ Record(seen[r], target[r])
        /\ pc' = [pc EXCEPT ![r] = "announcing"]
        /\ linked' = linked /\ seen' = seen /\ target' = target
    BY <1>5 DEF WriteStatus
  <2>2. /\ seen[r] \in Pipeline /\ target[r] \in Statuses
        /\ target[r] \in Allowed(seen[r]) /\ OnRecord(seen[r])
    BY <2>1 DEF IInv, DecisionsGrounded, Requested, Statuses, Terminal
  <2>3. /\ app' \in Statuses
        /\ history' \subseteq (Pipeline \cup {"DRAFT"}) \X Statuses
        /\ StatusOnRecord' /\ HistoryGrounded'
        /\ \A s : OnRecord(s) => OnRecord(s)'
    BY <2>1, <2>2, RecordGrounded
  <2>4. TypeOK'
    BY <2>1, <2>3 DEF IInv, TypeOK, PCs
  <2>5. DecisionsGrounded'
    BY <2>1, <2>3, OthersDecisions DEF IInv, TypeOK
  <2>6. QED
    BY <2>3, <2>4, <2>5, NotNone DEF IInv, ApplicationExists
<1>6. ASSUME NEW r \in Requests, WriteWithdrawal(r) PROVE IInv'
  <2>1. pc[r] = "leaving" /\ Record(seen[r], "WITHDRAWN") /\ End(r) /\ linked' = linked
    BY <1>6 DEF WriteWithdrawal
  <2>2. seen[r] \in Pipeline /\ OnRecord(seen[r])
    BY <2>1 DEF IInv, DecisionsGrounded
  <2>3. "WITHDRAWN" \in Statuses /\ "WITHDRAWN" \in Allowed(seen[r])
    BY <2>2, AllowedFacts DEF Statuses, Terminal
  <2>4. /\ app' \in Statuses
        /\ history' \subseteq (Pipeline \cup {"DRAFT"}) \X Statuses
        /\ StatusOnRecord' /\ HistoryGrounded'
        /\ \A s : OnRecord(s) => OnRecord(s)'
    BY <2>1, <2>2, <2>3, RecordGrounded
  <2>5. TypeOK'
    BY <2>1, <2>4, Ends DEF IInv, TypeOK
  <2>6. DecisionsGrounded'
    BY <2>1, <2>4, Ends, OthersDecisions
  <2>7. QED
    BY <2>4, <2>5, <2>6, NotNone DEF IInv, ApplicationExists
<1>7. CASE RequestAccess \/ LinkExpires \/ UNCHANGED vars
  <2>1. /\ linked' \in BOOLEAN
        /\ UNCHANGED <<app, history, pc, seen, target>>
    BY <1>7 DEF RequestAccess, LinkExpires, vars, IInv, TypeOK
  <2>2. QED
    <3>1. app = "none" => ~ linked'
      BY <1>7 DEF RequestAccess, LinkExpires, vars, IInv, ApplicationExists
    <3>2. QED
      BY <2>1, <3>1 DEF IInv, TypeOK, StatusOnRecord, DecisionsGrounded,
                        ApplicationExists, HistoryGrounded, OnRecord
<1>8. QED
  BY <1>1, <1>2, <1>3, <1>4, <1>5, <1>6, <1>7 DEF Next

\* The inductive invariant is an invariant.
LEMMA Inductive == Spec => []IInv
<1>1. QED
  BY InitIInv, NextIInv, PTL DEF Spec

\* Every variable keeps its type: no row leads out of a terminal status.
THEOREM TypeCorrect == Spec => []TypeOK
<1>1. IInv => TypeOK
  BY DEF IInv
<1>2. QED
  BY <1>1, Inductive, PTL

\* However stale the status a change was decided on, its row is an allowed
\* transition from the submission or a status on record.
THEOREM Grounded == Spec => []HistoryGrounded
<1>1. IInv => HistoryGrounded
  BY DEF IInv
<1>2. QED
  BY <1>1, Inductive, PTL

\* A stage on record was led to by a row from a status on record, and by the
\* table that status is the stage before.
LEMMA BackOneStage ==
  ASSUME IInv, NEW s \in Statuses, s # "SUBMITTED", OnRecord(s)
  PROVE  \E p \in Pipeline : s \in Allowed(p) /\ OnRecord(p)
<1>1. PICK e \in history : e[2] = s
  BY DEF OnRecord
<1>2. e \in (Pipeline \cup {"DRAFT"}) \X Statuses
  BY DEF IInv, TypeOK
<1>3. e[2] \in Allowed(e[1]) /\ OnRecord(e[1])
  BY <1>1 DEF IInv, HistoryGrounded, OnRecord
<1>4. e[1] \in Pipeline
  BY <1>1, <1>2, <1>3 DEF Allowed
<1>5. QED
  BY <1>1, <1>3, <1>4

\* Whoever is hired has every stage of the pipeline on record.
THEOREM HiredPassed == Spec => []HiredPassedEveryStage
<1>1. ASSUME IInv, app = "HIRED" PROVE \A s \in Pipeline : OnRecord(s)
  <2> USE IInv, StageBefore, BackOneStage
  <2> HIDE DEF IInv
  <2>1. OnRecord("HIRED")
    BY <1>1 DEF IInv, StatusOnRecord
  <2> DEFINE In(s) == s \in Statuses /\ s # "SUBMITTED"
  <2>2. /\ In("HIRED") /\ In("OFFER_EXTENDED") /\ In("INTERVIEWED")
        /\ In("INTERVIEW_SCHEDULED") /\ In("SHORTLISTED") /\ In("UNDER_REVIEW")
        /\ Pipeline \subseteq Statuses
    BY DEF Statuses, Pipeline, Terminal
  <2>3. OnRecord("OFFER_EXTENDED")
    BY <1>1, <2>1, <2>2
  <2>4. OnRecord("INTERVIEWED")
    BY <1>1, <2>3, <2>2
  <2>5. OnRecord("INTERVIEW_SCHEDULED")
    BY <1>1, <2>4, <2>2
  <2>6. OnRecord("SHORTLISTED")
    BY <1>1, <2>5, <2>2
  <2>7. OnRecord("UNDER_REVIEW")
    BY <1>1, <2>6, <2>2
  <2>8. OnRecord("SUBMITTED")
    BY <1>1, <2>7, <2>2
  <2>9. QED
    BY <2>3, <2>4, <2>5, <2>6, <2>7, <2>8 DEF Pipeline
<1>2. IInv => HiredPassedEveryStage
  BY <1>1 DEF HiredPassedEveryStage, OnRecord
<1>3. QED
  BY <1>2, Inductive, PTL

\* A terminal status that nobody decided on before is final.
THEOREM FinalHolds == Spec => FinalUnlessOverlapped
<1>1. ASSUME IInv, Final, [Next]_vars
      PROVE  Final' /\ app' = app /\ history' = history
  <2> USE <1>1 DEF GoTo
  <2>1. /\ app \in Terminal /\ app # "none" /\ Allowed(app) = {}
        /\ \A r \in Requests : pc[r] \notin {"changing", "leaving"}
    BY DEF Final, Deciding, Terminal, Allowed, Pipeline
  <2>2. ASSUME NEW r \in Requests, NEW p \in PCs \ {"changing", "leaving"},
               app' = app, history' = history, pc' = [pc EXCEPT ![r] = p]
        PROVE  Final' /\ app' = app /\ history' = history
    BY <2>1, <2>2 DEF Final, Deciding, IInv, TypeOK
  <2>3. ASSUME app' = app, history' = history, pc' = pc
        PROVE  Final' /\ app' = app /\ history' = history
    BY <2>1, <2>3 DEF Final, Deciding
  <2>4. ASSUME NEW r \in Requests,
               \/ Submit(r) \/ FindExisting(r) \/ Withdraw(r)
               \/ \E to \in Requested : ChangeStatus(r, to)
        PROVE  Final' /\ app' = app /\ history' = history
    BY <2>1, <2>2, <2>4 DEF Submit, FindExisting, Withdraw, ChangeStatus, PCs
  <2>5. ASSUME NEW r \in Requests,
               \/ RefuseDuplicate(r) \/ MailLink(r) \/ RefuseTransition(r)
               \/ Announce(r) \/ RefuseWithdrawal(r) \/ Fail(r)
        PROVE  Final' /\ app' = app /\ history' = history
    BY <2>2, <2>5 DEF RefuseDuplicate, MailLink, RefuseTransition, Announce,
                      RefuseWithdrawal, Fail, End, PCs
  <2>6. ASSUME NEW r \in Requests PROVE
          ~ Insert(r) /\ ~ CheckTransition(r) /\ ~ CheckWithdrawal(r)
          /\ ~ WriteStatus(r) /\ ~ WriteWithdrawal(r)
    BY <2>1, <2>6 DEF Insert, CheckTransition, CheckWithdrawal, WriteStatus,
                      WriteWithdrawal
  <2>7. CASE RequestAccess \/ LinkExpires \/ UNCHANGED vars
    BY <2>3, <2>7 DEF RequestAccess, LinkExpires, vars
  <2>8. QED
    BY <2>4, <2>5, <2>6, <2>7 DEF Next
<1>2. IInv /\ [Next]_vars => [Final => Final' /\ app' = app /\ history' = history]_vars
  BY <1>1
<1>3. QED
  BY <1>2, Inductive, PTL DEF Spec, FinalUnlessOverlapped

\* A later submission never sets the status back to SUBMITTED.
THEOREM Once == Spec => SubmittedOnce
<1>1. ASSUME IInv, Next, app # "none", app' # app PROVE app' # "SUBMITTED"
  <2>1. PICK r \in Requests : WriteStatus(r) \/ WriteWithdrawal(r)
    BY <1>1 DEF Next, Submit, FindExisting, RefuseDuplicate, Insert, MailLink,
                ChangeStatus, CheckTransition, RefuseTransition, Announce, Withdraw,
                CheckWithdrawal, RefuseWithdrawal, Fail, RequestAccess, LinkExpires
  <2>2. CASE WriteStatus(r)
    <3>1. pc[r] = "changing" /\ app' = target[r]
      BY <2>2 DEF WriteStatus, GoTo, Record
    <3>2. seen[r] \in Statuses /\ target[r] \in Allowed(seen[r])
      BY <1>1, <3>1 DEF IInv, DecisionsGrounded, Statuses
    <3>3. QED
      BY <3>1, <3>2, AllowedFacts
  <2>3. CASE WriteWithdrawal(r)
    BY <2>3 DEF WriteWithdrawal, Record
  <2>4. QED
    BY <2>1, <2>2, <2>3
<1>2. IInv /\ [Next]_vars
        => [app # "none" /\ app' # app => app' # "SUBMITTED"]_vars
  BY <1>1
<1>3. QED
  BY <1>2, Inductive, PTL DEF Spec, SubmittedOnce
=============================================================================
