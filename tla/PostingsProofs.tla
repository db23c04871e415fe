--------------------------- MODULE PostingsProofs ---------------------------
(***************************************************************************)
(* Proofs about Postings for any number of requests, codes, attempts and   *)
(* moments.  That a spent code never returns rests on the numbering: every *)
(* code received or presented was issued, and the key only takes the next. *)
(* The attempts of a mail are bounded since each uses up a failure or a    *)
(* stall of which the job is allowed so many.                              *)
(***************************************************************************)
EXTENDS Postings, TLAPS

\* A job that is queued, or not yet, can stall once more.
StallsLeft == \A m \in Mails : job[m] \in {"none", "queued"} => stalls[m] <= MaxStalled

\* Only codes that were issued are mailed or presented.
IssuedOnly ==
  /\ \A m \in Mails : job[m] # "none" => m <= issued
  /\ \A m \in inbox : m <= issued
  /\ \A r \in Requests : held[r] <= issued

\* What a request holds says what it is.
SlotsInUse ==
  \A r \in Requests :
    /\ pc[r] = "moving" <=> move[r] # "none"
    /\ pc[r] \in {"comparing", "deleting", "storing"} <=> held[r] # 0

IInv == TypeOK /\ StallsLeft /\ IssuedOnly /\ SlotsInUse /\ SpentIsGone

\* An attempt at a mail that was issued keeps the part of the mail queue.
LEMMA AttemptKeeps ==
  ASSUME IInv, NEW m \in Mails, Attempt(m), issued' = issued
  PROVE  /\ MailTypeOK'
         /\ StallsLeft'
         /\ \A c \in Mails : job'[c] # "none" => c <= issued'
         /\ \A c \in inbox' : c <= issued'
<1> USE MailAssumption DEF IInv, TypeOK, MailTypeOK, StallsLeft, IssuedOnly, PerhapsTaken
<1>1. CASE Send(m)
  BY <1>1 DEF Send
<1>2. CASE Retry(m)
  BY <1>2 DEF Retry
<1>3. CASE GiveUp(m)
  BY <1>3 DEF GiveUp
<1>4. CASE Stall(m)
  <2>1. CASE stalls[m] = MaxStalled
    BY <1>4, <2>1 DEF Stall
  <2>2. CASE stalls[m] # MaxStalled
    BY <1>4, <2>2 DEF Stall
  <2>3. QED
    BY <2>1, <2>2
<1>5. QED
  BY <1>1, <1>2, <1>3, <1>4 DEF Attempt

\* A step that leaves the mail queue alone.
LEMMA MailKept ==
  ASSUME IInv, UNCHANGED mailVars, issued' = issued
  PROVE  /\ MailTypeOK'
         /\ StallsLeft'
         /\ \A c \in Mails : job'[c] # "none" => c <= issued'
         /\ \A c \in inbox' : c <= issued'
BY DEF IInv, TypeOK, MailTypeOK, StallsLeft, IssuedOnly, mailVars

\* The types of the variables outside of the mail queue, but for applied.
OwnTypes ==
  /\ posting \in Rows
  /\ replica \in Rows
  /\ now \in Times
  /\ code \in Codes \cup {0}
  /\ issued \in Codes \cup {0}
  /\ pc \in [Requests -> PCs]
  /\ move \in [Requests -> Moves \cup {"none"}]
  /\ held \in [Requests -> Codes \cup {0}]

\* What the invariant says beyond the mail queue and applied.
Own ==
  /\ OwnTypes
  /\ \A r \in Requests : held[r] <= issued
  /\ SlotsInUse
  /\ SpentIsGone

LEMMA Assembled ==
  ASSUME MailTypeOK', StallsLeft',
         \A c \in Mails : job'[c] # "none" => c <= issued',
         \A c \in inbox' : c <= issued',
         Own', applied' \in BOOLEAN
  PROVE  IInv'
<1>1. TypeOK'
  BY Zenon DEF TypeOK, Own, OwnTypes
<1>2. IssuedOnly'
  BY DEF IssuedOnly, Own
<1>3. QED
  BY <1>1, <1>2, Zenon DEF IInv, Own

LEMMA IInvOwn == IInv => Own
BY DEF IInv, TypeOK, IssuedOnly, Own, OwnTypes

\* The end of a request.
LEMMA EndKeeps ==
  ASSUME IInv, NEW r \in Requests, End(r), UNCHANGED <<replica, now, codeVars>>,
         posting' \in Rows
  PROVE  Own'
BY PostingsAssumption
   DEF IInv, TypeOK, IssuedOnly, SlotsInUse, SpentIsGone, Own, OwnTypes, End, codeVars, PCs, Codes

\* A step of no request that leaves the codes alone.
LEMMA OutsideKeeps ==
  ASSUME IInv, UNCHANGED <<codeVars, slotVars>>,
         posting' \in Rows, replica' \in Rows, now' \in Times
  PROVE  Own'
BY DEF IInv, TypeOK, IssuedOnly, SlotsInUse, SpentIsGone, Own, OwnTypes, codeVars, slotVars

\* The update of a request's move.
LEMMA MoveWritten ==
  ASSUME IInv, NEW r \in Requests, pc[r] = "moving",
         posting' = [posting EXCEPT !.status = To[move[r]]]
  PROVE  posting' \in Rows
<1>1. move[r] \in Moves
  BY DEF IInv, TypeOK, SlotsInUse
<1>2. To[move[r]] \in Statuses
  BY <1>1 DEF To, Moves, Statuses
<1>3. QED
  BY <1>2 DEF IInv, TypeOK, Rows

\* The inductive invariant holds initially.
LEMMA InitIInv == Init => IInv
<1> SUFFICES ASSUME Init PROVE IInv
  OBVIOUS
<1>1. MailTypeOK /\ StallsLeft
  BY MailAssumption DEF Init, MailInit, MailTypeOK, StallsLeft
<1>2. applied \in BOOLEAN
  BY Zenon DEF Init
<1>3. OwnTypes
  BY PostingsAssumption DEF Init, OwnTypes, Rows, Statuses, Times, PCs
<1>4. IssuedOnly /\ SlotsInUse /\ SpentIsGone
  BY DEF Init, MailInit, IssuedOnly, SlotsInUse, SpentIsGone
<1>5. QED
  BY <1>1, <1>2, <1>3, <1>4, Zenon DEF IInv, TypeOK, OwnTypes

\* The inductive invariant is preserved by every action.
LEMMA NextIInv == IInv /\ [Next]_vars => IInv'
<1> SUFFICES ASSUME IInv, [Next]_vars PROVE IInv'
  OBVIOUS
<1> USE DEF postingVars, slotVars
<1>1. ASSUME NEW r \in Requests, NEW m \in Moves, Decide(r, m)
      PROVE  IInv'
  <2>1. issued' = issued /\ UNCHANGED mailVars /\ applied' = applied
    BY <1>1, Zenon DEF Decide, codeVars
  <2>2. Own'
    BY <1>1, PostingsAssumption
       DEF Decide, GoTo, IInv, TypeOK, IssuedOnly, SlotsInUse, SpentIsGone, Own, OwnTypes,
           codeVars, PCs, Moves, Codes
  <2>3. applied' \in BOOLEAN
    BY <2>1, Zenon DEF IInv, TypeOK
  <2>4. QED
    BY <2>1, <2>2, <2>3, MailKept, Assembled
<1>2. ASSUME NEW r \in Requests, WriteMove(r)
      PROVE  IInv'
  <2>1. issued' = issued /\ UNCHANGED mailVars /\ applied' = applied
    BY <1>2, Zenon DEF WriteMove, codeVars
  <2>2. posting' \in Rows
    BY <1>2, MoveWritten DEF WriteMove
  <2>3. Own'
    BY <1>2, <2>2, EndKeeps DEF WriteMove
  <2>4. applied' \in BOOLEAN
    BY <2>1, Zenon DEF IInv, TypeOK
  <2>5. QED
    BY <2>1, <2>3, <2>4, MailKept, Assembled
<1>3. ASSUME NEW t \in Times, UpdatePosting(t)
      PROVE  IInv'
  <2>1. issued' = issued /\ UNCHANGED mailVars /\ applied' = applied
    BY <1>3, Zenon DEF UpdatePosting, codeVars
  <2>2. posting' \in Rows /\ replica' \in Rows /\ now' \in Times
    BY <1>3 DEF UpdatePosting, IInv, TypeOK, Rows
  <2>3. Own'
    BY <1>3, <2>2, OutsideKeeps DEF UpdatePosting
  <2>4. applied' \in BOOLEAN
    BY <2>1, Zenon DEF IInv, TypeOK
  <2>5. QED
    BY <2>1, <2>3, <2>4, MailKept, Assembled
<1>4. ASSUME CloseExpired \/ Replicate \/ Tick
      PROVE  IInv'
  <2>1. /\ issued' = issued /\ UNCHANGED mailVars /\ applied' = applied
        /\ UNCHANGED <<codeVars, slotVars>>
    BY <1>4, Zenon DEF CloseExpired, Replicate, Tick, codeVars
  <2>2. posting' \in Rows /\ replica' \in Rows /\ now' \in Times
    BY <1>4, PostingsAssumption
       DEF CloseExpired, Replicate, Tick, IInv, TypeOK, Rows, Statuses, Times
  <2>3. Own'
    BY <2>1, <2>2, OutsideKeeps
  <2>4. applied' \in BOOLEAN
    BY <2>1, Zenon DEF IInv, TypeOK
  <2>5. QED
    BY <2>1, <2>3, <2>4, MailKept, Assembled
<1>5. CASE VerifyEmail
  <2> DEFINE c == issued + 1
  <2>1. c \in Codes /\ issued' = c /\ code' = c /\ issued \in Nat
    BY <1>5, PostingsAssumption DEF VerifyEmail, IInv, TypeOK, Codes
  <2>2. /\ MailTypeOK'
        /\ StallsLeft'
        /\ \A m \in Mails : job'[m] # "none" => m <= issued'
        /\ \A m \in inbox' : m <= issued'
    <3>1. CASE Enqueue(c)
      BY <3>1, <2>1, PostingsAssumption, MailAssumption
         DEF Enqueue, IInv, TypeOK, MailTypeOK, StallsLeft, IssuedOnly, Codes
    <3>2. CASE UNCHANGED mailVars
      BY <3>2, <2>1, PostingsAssumption
         DEF mailVars, IInv, TypeOK, MailTypeOK, StallsLeft, IssuedOnly, Codes
    <3>3. QED
      BY <1>5, <3>1, <3>2 DEF VerifyEmail
  <2>3. Own'
    <3>1. UNCHANGED <<posting, replica, now, pc, move, held>>
      BY <1>5, Zenon DEF VerifyEmail
    <3>2. ASSUME NEW r \in Requests
          PROVE  held[r] \in Nat /\ held[r] < issued + 1
      <4>1. held[r] <= issued
        BY DEF IInv, IssuedOnly
      <4>2. held[r] \in Codes \cup {0}
        BY DEF IInv, TypeOK
      <4>3. Codes \cup {0} \subseteq Nat
        BY PostingsAssumption DEF Codes
      <4>4. held[r] \in Nat
        BY <4>2, <4>3
      <4>5. issued \in Nat
        BY <2>1
      <4>6. QED
        BY <4>1, <4>4, <4>5
    <3>3. ASSUME NEW r \in Requests
          PROVE  held'[r] <= issued' /\ held'[r] # code'
      <4>1. issued' = issued + 1 /\ code' = issued + 1 /\ held' = held
        BY <2>1, <3>1
      <4>2. held[r] \in Nat /\ held[r] < issued + 1 /\ issued \in Nat
        BY <2>1, <3>2
      <4>3. QED
        BY <4>1, <4>2
    <3>4. OwnTypes'
      BY <2>1, <3>1 DEF IInv, TypeOK, OwnTypes
    <3>5. SlotsInUse' /\ SpentIsGone'
      BY <3>1, <3>3 DEF IInv, SlotsInUse, SpentIsGone
    <3>6. QED
      BY <3>3, <3>4, <3>5 DEF Own
  <2>4. applied' \in BOOLEAN
    BY <1>5, Zenon DEF VerifyEmail, IInv, TypeOK
  <2>5. QED
    BY <2>2, <2>3, <2>4, Assembled
<1>6. CASE CodeExpires
  <2>1. issued' = issued /\ UNCHANGED mailVars /\ applied' = applied
    BY <1>6, Zenon DEF CodeExpires
  <2>2. Own'
    BY <1>6, PostingsAssumption
       DEF CodeExpires, IInv, TypeOK, IssuedOnly, SlotsInUse, SpentIsGone, Own, OwnTypes, Codes
  <2>3. applied' \in BOOLEAN
    BY <2>1, Zenon DEF IInv, TypeOK
  <2>4. QED
    BY <2>1, <2>2, <2>3, MailKept, Assembled
<1>7. ASSUME NEW c \in Codes, Work(c)
      PROVE  IInv'
  <2>1. /\ Attempt(c) /\ c \in Mails
        /\ issued' = issued /\ applied' = applied
        /\ UNCHANGED <<postingVars, codeVars, slotVars>>
    BY <1>7, Zenon DEF Work, codeVars, Codes
  <2>2. Own'
    BY <2>1, OutsideKeeps DEF IInv, TypeOK
  <2>3. applied' \in BOOLEAN
    BY <2>1, Zenon DEF IInv, TypeOK
  <2>4. QED
    BY <2>1, <2>2, <2>3, AttemptKeeps, Assembled
<1>8. ASSUME NEW r \in Requests, NEW c \in Codes, Submit(r, c)
      PROVE  IInv'
  <2>1. issued' = issued /\ UNCHANGED mailVars /\ applied' = applied
    BY <1>8, Zenon DEF Submit, codeVars
  <2>2. Own'
    BY <1>8, PostingsAssumption
       DEF Submit, GoTo, IInv, TypeOK, MailTypeOK, IssuedOnly, SlotsInUse, SpentIsGone, Own,
           OwnTypes, codeVars, PCs, Codes
  <2>3. applied' \in BOOLEAN
    BY <2>1, Zenon DEF IInv, TypeOK
  <2>4. QED
    BY <2>1, <2>2, <2>3, MailKept, Assembled
<1>9. ASSUME NEW r \in Requests, Compare(r) \/ DeleteCode(r)
      PROVE  IInv'
  <2>1. issued' = issued /\ UNCHANGED mailVars /\ applied' = applied
    BY <1>9, Zenon DEF Compare, DeleteCode, codeVars
  <2>2. Own'
    <3>1. CASE Compare(r)
      BY <3>1, PostingsAssumption
         DEF Compare, GoTo, IInv, TypeOK, IssuedOnly, SlotsInUse, SpentIsGone, Own, OwnTypes,
             codeVars, PCs, Codes
    <3>2. CASE DeleteCode(r)
      BY <3>2, PostingsAssumption
         DEF DeleteCode, GoTo, IInv, TypeOK, IssuedOnly, SlotsInUse, SpentIsGone, Own, OwnTypes,
             PCs, Codes
    <3>3. QED
      BY <1>9, <3>1, <3>2
  <2>3. applied' \in BOOLEAN
    BY <2>1, Zenon DEF IInv, TypeOK
  <2>4. QED
    BY <2>1, <2>2, <2>3, MailKept, Assembled
<1>10. ASSUME NEW r \in Requests, RefuseCode(r) \/ StoreApplication(r) \/ Fail(r)
       PROVE  IInv'
  <2>1. /\ issued' = issued /\ UNCHANGED mailVars /\ End(r)
        /\ UNCHANGED <<posting, replica, now, codeVars>>
    BY <1>10, Zenon DEF RefuseCode, StoreApplication, Fail, codeVars
  <2>2. Own'
    BY <2>1, EndKeeps DEF IInv, TypeOK
  <2>3. applied' \in BOOLEAN
    BY <1>10, Zenon DEF RefuseCode, StoreApplication, Fail, IInv, TypeOK
  <2>4. QED
    BY <2>1, <2>2, <2>3, MailKept, Assembled
<1>11. CASE UNCHANGED vars
  <2>1. issued' = issued /\ UNCHANGED mailVars /\ applied' = applied
    BY <1>11, Zenon DEF vars, codeVars
  <2>2. Own'
    BY <1>11, OutsideKeeps DEF vars, IInv, TypeOK
  <2>3. applied' \in BOOLEAN
    BY <2>1, Zenon DEF IInv, TypeOK
  <2>4. QED
    BY <2>1, <2>2, <2>3, MailKept, Assembled
<1>12. QED
  BY <1>1, <1>2, <1>3, <1>4, <1>5, <1>6, <1>7, <1>8, <1>9, <1>10, <1>11, Zenon DEF Next

\* The inductive invariant holds throughout.
LEMMA Invariance == Spec => []IInv
BY InitIInv, NextIInv, PTL DEF Spec

\* Every variable keeps its type: no mail is attempted more often than its
\* job allows.
THEOREM TypeCorrect == Spec => []TypeOK
<1>1. IInv => TypeOK
  BY DEF IInv
<1>2. QED
  BY <1>1, Invariance, PTL

\* A code that let a submission through is not in Redis again.
THEOREM SpentGone == Spec => []SpentIsGone
<1>1. IInv => SpentIsGone
  BY DEF IInv
<1>2. QED
  BY <1>1, Invariance, PTL

\* A step of a request that reads or moves a shut posting.
LEMMA MovesKeepShut ==
  ASSUME IInv, Shut, NEW r \in Requests,
         (\E m \in Moves : Decide(r, m)) \/ WriteMove(r)
  PROVE  Shut'
<1>1. ASSUME NEW m \in Moves, Decide(r, m)
      PROVE  Shut'
  <2>1. m = "archive"
    BY <1>1 DEF Decide, From, Moves, Shut
  <2>2. QED
    BY <1>1, <2>1 DEF Decide, GoTo, Shut, IInv, TypeOK, postingVars
<1>2. CASE WriteMove(r)
  <2>1. move[r] = "archive"
    BY <1>2 DEF WriteMove, IInv, SlotsInUse, Shut
  <2>2. posting' = [posting EXCEPT !.status = "ARCHIVED"]
    BY <1>2, <2>1 DEF WriteMove, To
  <2>3. posting'.status = "ARCHIVED"
    BY <2>2 DEF IInv, TypeOK, Rows
  <2>4. QED
    BY <1>2, <2>3 DEF WriteMove, End, Shut, IInv, TypeOK
<1>3. QED
  BY <1>1, <1>2

\* No step opens a shut posting or stores an application for it.
LEMMA StepKeepsShut == IInv /\ Shut /\ [Next]_vars => Shut' /\ UNCHANGED applied
<1> SUFFICES ASSUME IInv, Shut, [Next]_vars
             PROVE  Shut' /\ UNCHANGED applied
  OBVIOUS
<1> USE DEF postingVars, slotVars
<1>1. CASE \E r \in Requests : (\E m \in Moves : Decide(r, m)) \/ WriteMove(r)
  <2>1. Shut'
    BY <1>1, MovesKeepShut
  <2>2. UNCHANGED applied
    BY <1>1, Zenon DEF Decide, WriteMove
  <2>3. QED
    BY <2>1, <2>2
<1>2. CASE \E t \in Times : UpdatePosting(t)
  <2>1. posting'.status = posting.status
    BY <1>2 DEF UpdatePosting, IInv, TypeOK, Rows
  <2>2. Shut'
    BY <1>2, <2>1 DEF UpdatePosting, Shut
  <2>3. UNCHANGED applied
    BY <1>2, Zenon DEF UpdatePosting
  <2>4. QED
    BY <2>2, <2>3
<1>3. CASE Replicate
  <2>1. Shut'
    BY <1>3 DEF Replicate, Shut
  <2>2. UNCHANGED applied
    BY <1>3, Zenon DEF Replicate
  <2>3. QED
    BY <2>1, <2>2
<1>4. CASE CloseExpired
  BY <1>4 DEF CloseExpired, Shut
<1>5. CASE Tick \/ VerifyEmail \/ CodeExpires \/ (\E c \in Codes : Work(c)) \/ UNCHANGED vars
  <2>1. UNCHANGED <<posting, replica, pc, move>> /\ UNCHANGED applied
    BY <1>5, Zenon DEF Tick, VerifyEmail, CodeExpires, Work, vars
  <2>2. Shut'
    BY <2>1 DEF Shut
  <2>3. QED
    BY <2>1, <2>2
<1>6. CASE \E r \in Requests, c \in Codes : Submit(r, c)
  BY <1>6 DEF Submit, Open, Shut
<1>7. ASSUME NEW r \in Requests,
             Compare(r) \/ RefuseCode(r) \/ DeleteCode(r) \/ StoreApplication(r)
      PROVE  FALSE
  BY <1>7 DEF Compare, RefuseCode, DeleteCode, StoreApplication, GoTo, Shut
<1>8. ASSUME NEW r \in Requests, Fail(r)
      PROVE  Shut' /\ UNCHANGED applied
  <2>1. UNCHANGED <<posting, replica>> /\ UNCHANGED applied /\ End(r)
    BY <1>8, Zenon DEF Fail
  <2>2. Shut'
    BY <2>1 DEF End, Shut, IInv, TypeOK
  <2>3. QED
    BY <2>1, <2>2
<1>9. QED
  BY <1>1, <1>2, <1>3, <1>4, <1>5, <1>6, <1>7, <1>8, Zenon DEF Next

\* A shut posting stays shut and takes no application any more.
THEOREM ShutHolds == Spec => ShutForGood
<1>1. IInv /\ [Next]_vars => [Shut => Shut' /\ applied' = applied]_vars
  BY StepKeepsShut
<1>2. QED
  BY <1>1, Invariance, PTL DEF Spec, ShutForGood

-----------------------------------------------------------------------------
(* Mails                                                                   *)

\* A mail that may still be attempted has an attempt left.
AttemptLeft == \A m \in Mails : job[m] \in {"none", "queued"} => tries[m] < MaxAttempts

\* The job of m is over, and what its attempts have used up.
Settled(m) == job[m] \in {"completed", "failed"}
Spent(m)   == tries[m] + stalls[m]

\* A mail is attempted MaxAttempts + MaxStalled times at most: an attempt ends
\* its job or uses up one of the failures or stalls it is allowed, nothing
\* gives one back, and a job that is over stays as it is.
MailsBounded ==
  [][\A m \in Mails :
       /\ Spent(m)' >= Spent(m)
       /\ Settled(m) => job'[m] = job[m]
       /\ Attempt(m) => \/ Settled(m)'
                        \/ /\ Spent(m)' = Spent(m) + 1
                           /\ Spent(m)' < MaxAttempts + MaxStalled]_vars

\* Only a worker, and verifyEmail for the next code, touch the mail queue.
LEMMA MailSteps ==
  Next => \/ UNCHANGED mailVars
          \/ Enqueue(issued + 1) /\ issued + 1 \in Codes
          \/ \E m \in Mails : Attempt(m)
BY Zenon DEF Next, Decide, WriteMove, UpdatePosting, CloseExpired, Replicate, Tick,
   VerifyEmail, CodeExpires, Work, Submit, Compare, RefuseCode, DeleteCode,
   StoreApplication, Fail, Codes

\* An attempt at m uses up its budget and leaves the other mails alone.
LEMMA AttemptSpends ==
  ASSUME MailTypeOK, StallsLeft, AttemptLeft, NEW m \in Mails, Attempt(m)
  PROVE  /\ \A n \in Mails \ {m} :
              job'[n] = job[n] /\ tries'[n] = tries[n] /\ stalls'[n] = stalls[n]
         /\ Spent(m)' >= Spent(m)
         /\ job[m] = "queued" /\ job'[m] \in {"queued", "completed", "failed"}
         /\ job'[m] = "queued" => /\ tries'[m] < MaxAttempts
                                  /\ Spent(m)' = Spent(m) + 1
                                  /\ Spent(m)' < MaxAttempts + MaxStalled
<1> USE MailAssumption DEF MailTypeOK, StallsLeft, AttemptLeft, Spent
<1>1. CASE Send(m)
  BY <1>1 DEF Send
<1>2. CASE Retry(m)
  BY <1>2 DEF Retry
<1>3. CASE GiveUp(m)
  BY <1>3 DEF GiveUp
<1>4. CASE Stall(m)
  <2>1. CASE stalls[m] = MaxStalled
    BY <1>4, <2>1 DEF Stall
  <2>2. CASE stalls[m] # MaxStalled
    BY <1>4, <2>2 DEF Stall
  <2>3. QED
    BY <2>1, <2>2
<1>5. QED
  BY <1>1, <1>2, <1>3, <1>4 DEF Attempt

\* What a step may do to the mails, and that an attempt is left to those that
\* are queued.
LEMMA MailStep ==
  ASSUME MailTypeOK, StallsLeft, AttemptLeft, Next
  PROVE  /\ AttemptLeft'
         /\ \A m \in Mails :
              /\ Spent(m)' >= Spent(m)
              /\ Settled(m) => job'[m] = job[m]
              /\ Attempt(m) => \/ Settled(m)'
                               \/ /\ Spent(m)' = Spent(m) + 1
                                  /\ Spent(m)' < MaxAttempts + MaxStalled
<1>a. \A m \in Mails : Spent(m) \in Nat
  BY MailAssumption DEF MailTypeOK, Spent
<1>b. \A m \in Mails : Attempt(m) => job[m] = "queued"
  BY DEF Attempt, Send, Retry, GiveUp, Stall
<1>1. CASE UNCHANGED mailVars
  <2>1. UNCHANGED <<job, tries, stalls>>
    BY <1>1 DEF mailVars
  <2>2. \A m \in Mails : Attempt(m) => FALSE
    <3> SUFFICES ASSUME NEW m \in Mails, Attempt(m) PROVE FALSE
      OBVIOUS
    <3>1. tries'[m] # tries[m] \/ stalls'[m] # stalls[m] \/ job'[m] # job[m]
      BY <1>b, MailAssumption DEF Attempt, Send, Retry, GiveUp, Stall, MailTypeOK
    <3>2. QED
      BY <2>1, <3>1
  <2>3. QED
    BY <2>1, <2>2, <1>a DEF AttemptLeft, Spent, Settled
<1>2. CASE Enqueue(issued + 1) /\ issued + 1 \in Codes
  <2> DEFINE c == issued + 1
  <2>1. /\ c \in Mails /\ job[c] = "none" /\ job' = [job EXCEPT ![c] = "queued"]
        /\ UNCHANGED <<tries, stalls>>
    BY <1>2 DEF Enqueue, Codes
  <2> HIDE DEF c
  <2>2. \A m \in Mails : Attempt(m) => FALSE
    <3> SUFFICES ASSUME NEW m \in Mails, Attempt(m) PROVE FALSE
      OBVIOUS
    <3>1. job[m] = "queued" /\ m # c
      BY <2>1, <1>b
    <3>2. tries'[m] # tries[m] \/ stalls'[m] # stalls[m] \/ job'[m] # job[m]
      BY <3>1, MailAssumption DEF Attempt, Send, Retry, GiveUp, Stall, MailTypeOK
    <3>3. QED
      BY <2>1, <3>1, <3>2 DEF MailTypeOK
  <2>3. QED
    BY <2>1, <2>2, <1>a DEF AttemptLeft, Spent, Settled, MailTypeOK
<1>3. ASSUME NEW m \in Mails, Attempt(m)
      PROVE  /\ AttemptLeft'
             /\ \A n \in Mails :
                  /\ Spent(n)' >= Spent(n)
                  /\ Settled(n) => job'[n] = job[n]
                  /\ Attempt(n) => \/ Settled(n)'
                                   \/ /\ Spent(n)' = Spent(n) + 1
                                      /\ Spent(n)' < MaxAttempts + MaxStalled
  <2>1. AttemptLeft'
    BY <1>3, AttemptSpends DEF AttemptLeft
  <2>2. ASSUME NEW n \in Mails
        PROVE  Spent(n)' >= Spent(n) /\ (Settled(n) => job'[n] = job[n])
    <3>1. CASE n = m
      BY <1>3, <3>1, AttemptSpends DEF Settled
    <3>2. CASE n # m
      <4>1. job'[n] = job[n] /\ Spent(n)' = Spent(n)
        BY <1>3, <3>2, AttemptSpends DEF Spent
      <4>2. QED
        BY <4>1, <1>a
    <3>3. QED
      BY <3>1, <3>2
  <2>3. ASSUME NEW n \in Mails, Attempt(n)
        PROVE  \/ Settled(n)'
               \/ /\ Spent(n)' = Spent(n) + 1
                  /\ Spent(n)' < MaxAttempts + MaxStalled
    BY <2>3, AttemptSpends DEF Settled
  <2>4. QED
    BY <2>1, <2>2, <2>3
<1>4. QED
  BY <1>1, <1>2, <1>3, MailSteps

\* Every mail is given a bounded number of attempts, whatever throws, stalls or
\* loses its answer: that its job is over some day needs no more than a worker.
THEOREM MailsUseUp == Spec => MailsBounded
<1>1. Init => AttemptLeft
  BY MailAssumption DEF Init, MailInit, AttemptLeft
<1>2. IInv => MailTypeOK /\ StallsLeft
  BY DEF IInv, TypeOK
<1>3. MailTypeOK /\ StallsLeft /\ AttemptLeft /\ [Next]_vars => AttemptLeft'
  <2>1. AttemptLeft /\ UNCHANGED vars => AttemptLeft'
    BY DEF AttemptLeft, vars, mailVars
  <2>2. QED
    BY <2>1, MailStep
<1>4. MailTypeOK /\ StallsLeft /\ AttemptLeft /\ [Next]_vars =>
        [\A m \in Mails :
           /\ Spent(m)' >= Spent(m)
           /\ Settled(m) => job'[m] = job[m]
           /\ Attempt(m) => \/ Settled(m)'
                            \/ /\ Spent(m)' = Spent(m) + 1
                               /\ Spent(m)' < MaxAttempts + MaxStalled]_vars
  BY MailStep
<1>5. QED
  BY <1>1, <1>2, <1>3, <1>4, Invariance, PTL DEF Spec, MailsBounded

-----------------------------------------------------------------------------
(* Received codes                                                          *)

\* The code a submission presents was received by mail.
HeldReceived == \A r \in Requests : held[r] # 0 => held[r] \in inbox

\* Whoever gets an application into the table read the mail of a code, and the
\* code is spent by then: no address is vouched for by a code that was only
\* issued, was lost with its mail, or may be entered once more.
StoredByReceiver ==
  [][applied' # applied =>
       \E r \in Requests : /\ pc[r] = "storing"
                           /\ held[r] \in inbox /\ code # held[r]]_vars

\* Received mails stay, and a request holds what it was given.
LEMMA HeldKept ==
  ASSUME IInv, HeldReceived, [Next]_vars
  PROVE  HeldReceived'
<1> USE DEF slotVars
<1>a. held \in [Requests -> Codes \cup {0}]
  BY DEF IInv, TypeOK
<1>1. inbox \subseteq inbox'
  <2>1. CASE Next
    BY <2>1, MailSteps DEF mailVars, Enqueue, Attempt, Send, Retry, GiveUp, Stall, PerhapsTaken
  <2>2. CASE UNCHANGED vars
    BY <2>2 DEF vars, mailVars
  <2>3. QED
    BY <2>1, <2>2
<1>2. ASSUME NEW r \in Requests, held'[r] # 0
      PROVE  held'[r] \in inbox'
  <2>1. CASE held'[r] = held[r]
    BY <1>1, <1>2, <2>1 DEF HeldReceived
  <2>2. CASE \E s \in Requests, c \in Codes : Submit(s, c)
    <3>1. PICK s \in Requests, c \in inbox : held' = [held EXCEPT ![s] = c]
      BY <2>2 DEF Submit
    <3>2. held'[r] = c \/ held'[r] = held[r]
      BY <3>1, <1>a
    <3>3. QED
      BY <3>1, <3>2, <1>1, <2>1
  <2>3. CASE \E s \in Requests : End(s)
    BY <2>3, <1>a, <1>2, <2>1 DEF End
  <2>4. CASE held' = held
    BY <2>4, <2>1
  <2>5. \/ \E s \in Requests, c \in Codes : Submit(s, c)
        \/ \E s \in Requests : End(s)
        \/ held' = held
    BY Zenon DEF Next, Decide, WriteMove, UpdatePosting, CloseExpired, Replicate, Tick,
       VerifyEmail, CodeExpires, Work, Compare, RefuseCode, DeleteCode,
       StoreApplication, Fail, vars
  <2>6. QED
    BY <2>2, <2>3, <2>4, <2>5
<1>3. QED
  BY <1>2 DEF HeldReceived

\* An application is stored for a code that was mailed, received and spent.
THEOREM ReceiverStores == Spec => StoredByReceiver
<1>1. Init => HeldReceived
  BY DEF Init, HeldReceived
<1>2. IInv /\ HeldReceived /\ [Next]_vars => HeldReceived'
  BY HeldKept
<1>3. ASSUME IInv, HeldReceived, NEW r \in Requests, StoreApplication(r)
      PROVE  pc[r] = "storing" /\ held[r] \in inbox /\ code # held[r]
  <2>1. pc[r] = "storing"
    BY <1>3, Zenon DEF StoreApplication
  <2>2. held[r] # 0 /\ code # held[r]
    BY <1>3, <2>1 DEF IInv, SlotsInUse, SpentIsGone
  <2>3. QED
    BY <1>3, <2>1, <2>2 DEF HeldReceived
<1>4. [Next]_vars => applied' = applied \/ \E r \in Requests : StoreApplication(r)
  BY Zenon DEF Next, Decide, WriteMove, UpdatePosting, CloseExpired, Replicate, Tick,
     VerifyEmail, CodeExpires, Work, Submit, Compare, RefuseCode, DeleteCode, Fail, vars
<1>5. IInv /\ HeldReceived /\ [Next]_vars =>
        [applied' # applied =>
           \E r \in Requests : /\ pc[r] = "storing"
                               /\ held[r] \in inbox /\ code # held[r]]_vars
  BY <1>3, <1>4, Zenon
<1>6. QED
  BY <1>1, <1>2, <1>5, Invariance, PTL DEF Spec, StoredByReceiver
=============================================================================
