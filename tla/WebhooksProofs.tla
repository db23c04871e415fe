--------------------------- MODULE WebhooksProofs ---------------------------
(***************************************************************************)
(* Proofs about Webhooks for every number of events and workers, every     *)
(* threshold and every retry limit.                                        *)
(***************************************************************************)
EXTENDS Webhooks, FiniteSetTheorems, TLAPS

\* The parts of a job.
LEMMA JobParts == \A j \in Jobs : j.event \in Events /\ j.attempt \in Attempts
  BY DEF Jobs

\* Queueing a job keeps the queue a bag of jobs.
LEMMA EnqueueType ==
  ASSUME TypeOK, NEW e \in Events, NEW n, Enqueue(e, n)
  PROVE  waiting' \in [Jobs -> Nat] /\ queued' \subseteq Events
<1>1. \A j \in Jobs : waiting[j] \in Nat /\ waiting[j] + 1 \in Nat
  BY DEF TypeOK
<1>2. waiting' \in [Jobs -> Nat]
  BY <1>1 DEF Enqueue, TypeOK
<1>3. QED
  BY <1>2 DEF Enqueue, TypeOK

\* The failure count stays within the threshold that stands for all above it.
LEMMA FailureCount ==
  ASSUME TypeOK PROVE 0 \in 0..Threshold /\ OneMoreFailure \in 0..Threshold
  BY WebhooksAssumption DEF TypeOK, OneMoreFailure

\* The type invariant holds initially.
LEMMA InitType == Init => TypeOK
<1> SUFFICES ASSUME Init PROVE TypeOK
  OBVIOUS
<1>1. failures \in 0..Threshold /\ extra \in [Events -> 0..MaxExtra] /\ waiting \in [Jobs -> Nat]
  BY WebhooksAssumption DEF Init
<1>2. QED
  BY <1>1 DEF Init, TypeOK, PCs, Posting, Statuses

\* Every step keeps the type invariant.
LEMMA NextType == TypeOK /\ [Next]_vars => TypeOK'
<1> SUFFICES ASSUME TypeOK, [Next]_vars PROVE TypeOK'
  OBVIOUS
<1> USE WebhooksAssumption, JobParts DEF TypeOK, PCs, Posting, Statuses,
        endpoint, workers, history, GoTo, Release
<1>1. ASSUME NEW e \in Events, CreateEvent(e) \/ CreateTestEvent(e) \/ EnqueueEvent(e)
      PROVE  TypeOK'
  BY <1>1 DEF CreateEvent, CreateTestEvent, EnqueueEvent, Enqueue
<1>2. ASSUME NEW e \in Events, NEW n \in Attempts, RetryDelivery(e, n) PROVE TypeOK'
  <2>1. waiting' \in [Jobs -> Nat] /\ queued' \subseteq Events
    BY <1>2, EnqueueType DEF RetryDelivery
  <2>2. extra' \in [Events -> 0..MaxExtra]
    <3>1. extra[e] + 1 \in 0..MaxExtra
      BY <1>2 DEF RetryDelivery
    <3>2. QED
      BY <1>2, <3>1 DEF RetryDelivery
  <2>3. QED
    BY <1>2, <2>1, <2>2 DEF RetryDelivery
<1>3. ASSUME NEW w \in Workers, NEW j \in Jobs, Load(w, j) PROVE TypeOK'
  BY <1>3 DEF Load
<1>4. ASSUME NEW j \in Jobs, LoadGone(j) PROVE TypeOK'
  BY <1>4 DEF LoadGone
<1>5. ASSUME NEW w \in Workers, WorkerStep(w) PROVE TypeOK'
  <2>1. CASE SkipOpen(w)
    BY <2>1 DEF SkipOpen, Settle
  <2>2. CASE Post(w)
    BY <2>2 DEF Post, Settle
  <2>3. CASE RecordAccepted(w)
    BY <2>3 DEF RecordAccepted, Settle
  <2>4. CASE RecordRefused(w)
    BY <2>4 DEF RecordRefused, Settle
  <2>5. CASE RecordSuccess(w)
    BY <2>5, FailureCount DEF RecordSuccess
  <2>6. CASE RecordFailure(w)
    BY <2>6, FailureCount DEF RecordFailure, AfterFailure
  <2>7. CASE Trip(w)
    BY <2>7 DEF Trip, AfterFailure
  <2>8. CASE RecordHalfOpenFailure(w)
    BY <2>8, FailureCount DEF RecordHalfOpenFailure, AfterFailure
  <2>9. CASE ScheduleRetry(w)
    <3>1. job[w].event \in Events
      BY <2>9 DEF ScheduleRetry
    <3>2. waiting' \in [Jobs -> Nat] /\ queued' \subseteq Events
      BY <2>9, <3>1, EnqueueType DEF ScheduleRetry
    <3>3. QED
      BY <2>9, <3>2 DEF ScheduleRetry
  <2>10. CASE Complete(w)
    BY <2>10 DEF Complete
  <2>11. CASE CatchError(w)
    BY <2>11 DEF CatchError
  <2>12. CASE FailJob(w)
    BY <2>12 DEF FailJob
  <2>13. QED
    BY <1>5, <2>1, <2>2, <2>3, <2>4, <2>5, <2>6, <2>7, <2>8, <2>9, <2>10, <2>11, <2>12 DEF WorkerStep
<1>6. ASSUME NEW w \in Workers, Crash(w) PROVE TypeOK'
  BY <1>6 DEF Crash
<1>7. ASSUME NEW st \in {"ACTIVE", "PAUSED", "DISABLED"}, UpdateEndpoint(st)
      PROVE  TypeOK'
  BY <1>7 DEF UpdateEndpoint
<1>8. CASE DeleteEndpoint
  BY <1>8 DEF DeleteEndpoint
<1>9. CASE Cool
  BY <1>9 DEF Cool
<1>10. CASE ProbeOpenCircuits
  BY <1>10 DEF ProbeOpenCircuits
<1>11. CASE UNCHANGED vars
  BY <1>11 DEF vars
<1>12. QED
  BY <1>1, <1>2, <1>3, <1>4, <1>5, <1>6, <1>7, <1>8, <1>9, <1>10, <1>11 DEF Next

\* Type correctness: every row, job and worker keeps its type, and the count
\* of extra jobs of an event its bound.
THEOREM TypeCorrect == Spec => []TypeOK
  BY InitType, NextType, PTL DEF Spec

\* The two breaker invariants are inductive together with the types.
BreakerInv == DisableIsFinal /\ HalfOpenTakesTraffic

\* No step disturbs them: only a worker past its check could move a barred
\* endpoint, and only the probe makes a circuit half open.
LEMMA NextBreaker == ASSUME TypeOK, BreakerInv, [Next]_vars PROVE BreakerInv'
<1> USE DEF TypeOK, BreakerInv, DisableIsFinal, HalfOpenTakesTraffic, Posting,
        endpoint, workers, history, GoTo, Release
<1>1. ASSUME NEW e \in Events, CreateEvent(e) \/ CreateTestEvent(e) \/ EnqueueEvent(e)
      PROVE  BreakerInv'
  BY <1>1 DEF CreateEvent, CreateTestEvent, EnqueueEvent, Enqueue
<1>2. ASSUME NEW e \in Events, NEW n \in Attempts, RetryDelivery(e, n) PROVE BreakerInv'
  BY <1>2 DEF RetryDelivery, Enqueue
<1>3. ASSUME NEW w \in Workers, NEW j \in Jobs, Load(w, j) PROVE BreakerInv'
  BY <1>3 DEF Load
<1>4. ASSUME NEW j \in Jobs, LoadGone(j) PROVE BreakerInv'
  BY <1>4 DEF LoadGone
<1>5. ASSUME NEW w \in Workers, WorkerStep(w) PROVE BreakerInv'
  <2>1. CASE SkipOpen(w)
    BY <2>1 DEF SkipOpen, Settle
  <2>2. CASE Post(w)
    BY <2>2 DEF Post, Settle
  <2>3. CASE RecordAccepted(w)
    BY <2>3 DEF RecordAccepted, Settle
  <2>4. CASE RecordRefused(w)
    BY <2>4 DEF RecordRefused, Settle
  <2>5. CASE RecordSuccess(w)
    BY <2>5 DEF RecordSuccess
  <2>6. CASE RecordFailure(w)
    BY <2>6 DEF RecordFailure, AfterFailure, OneMoreFailure
  <2>7. CASE Trip(w)
    BY <2>7 DEF Trip, AfterFailure
  <2>8. CASE RecordHalfOpenFailure(w)
    BY <2>8 DEF RecordHalfOpenFailure, AfterFailure, OneMoreFailure
  <2>9. CASE ScheduleRetry(w)
    BY <2>9 DEF ScheduleRetry, Enqueue
  <2>10. CASE Complete(w)
    BY <2>10 DEF Complete
  <2>11. CASE CatchError(w)
    BY <2>11 DEF CatchError
  <2>12. CASE FailJob(w)
    BY <2>12 DEF FailJob
  <2>13. QED
    BY <1>5, <2>1, <2>2, <2>3, <2>4, <2>5, <2>6, <2>7, <2>8, <2>9, <2>10, <2>11, <2>12 DEF WorkerStep
<1>6. ASSUME NEW w \in Workers, Crash(w) PROVE BreakerInv'
  BY <1>6 DEF Crash
<1>7. ASSUME NEW st \in {"ACTIVE", "PAUSED", "DISABLED"}, UpdateEndpoint(st)
      PROVE  BreakerInv'
  BY <1>7 DEF UpdateEndpoint
<1>8. CASE DeleteEndpoint
  BY <1>8 DEF DeleteEndpoint
<1>9. CASE Cool
  BY <1>9 DEF Cool
<1>10. CASE ProbeOpenCircuits
  BY <1>10 DEF ProbeOpenCircuits
<1>11. CASE UNCHANGED vars
  BY <1>11 DEF vars
<1>12. QED
  BY <1>1, <1>2, <1>3, <1>4, <1>5, <1>6, <1>7, <1>8, <1>9, <1>10, <1>11 DEF Next

\* They hold in every reachable state.
LEMMA BreakerInvariance == Spec => []BreakerInv
<1>1. Init => BreakerInv
  BY DEF Init, BreakerInv, DisableIsFinal, HalfOpenTakesTraffic
<1>2. QED
  BY <1>1, NextBreaker, TypeCorrect, PTL DEF Spec

\* An endpoint disabled while no post was under way stays disabled, and
\* nothing is posted to it, until an admin changes it.
THEOREM DisableFinal == Spec => []DisableIsFinal
<1>1. BreakerInv => DisableIsFinal
  BY DEF BreakerInv
<1>2. QED
  BY <1>1, BreakerInvariance, PTL

\* The breaker never leaves a half-open endpoint paused.
THEOREM HalfOpenOpen == Spec => []HalfOpenTakesTraffic
<1>1. BreakerInv => HalfOpenTakesTraffic
  BY DEF BreakerInv
<1>2. QED
  BY <1>1, BreakerInvariance, PTL

\* Attempts are bounded, in the queue, in the workers and in the rows that a
\* manual retry starts from.
BoundInv ==
  /\ AttemptsBounded
  /\ \A e \in Events : \A n \in Attempts : \A st \in Statuses :
       <<e, n, st>> \in results => n <= MaxRetries + extra[e]
  /\ \A w \in Workers : pc[w] = "retry" => job[w].attempt < MaxRetries

\* Only the job that was added is new in the queue.
LEMMA EnqueueNew ==
  ASSUME TypeOK, NEW e, NEW n, Enqueue(e, n), NEW j \in Jobs, waiting'[j] > 0
  PROVE  waiting[j] > 0 \/ (j.event = e /\ j.attempt = n)
<1>1. CASE j = [event |-> e, attempt |-> n]
  BY <1>1
<1>2. CASE j # [event |-> e, attempt |-> n]
  BY <1>2 DEF Enqueue, TypeOK
<1>3. QED
  BY <1>1, <1>2

\* The parts of the bound that a growing extra[e] cannot break.
LEMMA BoundGrows ==
  ASSUME TypeOK, BoundInv, NEW e \in Events, extra[e] < MaxExtra,
         extra' = [extra EXCEPT ![e] = @ + 1]
  PROVE  /\ extra' \in [Events -> Nat]
         /\ extra'[e] = extra[e] + 1
         /\ \A d \in Events : \A n \in Int :
              n <= MaxRetries + extra[d] => n <= MaxRetries + extra'[d]
<1>1. \A d \in Events : extra[d] \in Nat
  BY WebhooksAssumption DEF TypeOK
<1>2. \A d \in Events : extra'[d] = IF d = e THEN extra[d] + 1 ELSE extra[d]
  BY DEF TypeOK
<1>3. extra' \in [Events -> Nat]
  BY <1>1 DEF TypeOK
<1>4. QED
  BY <1>1, <1>2, <1>3, WebhooksAssumption

\* A manual retry pays for the attempt it adds.
LEMMA RetryBound ==
  ASSUME TypeOK, BoundInv, NEW e \in Events, NEW n \in Attempts, RetryDelivery(e, n)
  PROVE  BoundInv'
<1>1. n \in Int /\ \A j \in Jobs : j.event \in Events /\ j.attempt \in Int
  BY JobParts DEF Attempts
<1>2. /\ extra'[e] = extra[e] + 1
      /\ \A d \in Events : \A m \in Int :
           m <= MaxRetries + extra[d] => m <= MaxRetries + extra'[d]
  BY BoundGrows DEF RetryDelivery
<1>3. n <= MaxRetries + extra[e]
  <2>1. CASE <<e, n, "FAILED">> \in results
    BY <2>1 DEF BoundInv, Statuses
  <2>2. ASSUME NEW w \in Workers, pc[w] # "idle", job[w] = [event |-> e, attempt |-> n]
        PROVE  n <= MaxRetries + extra[e]
    BY <2>2 DEF BoundInv, AttemptsBounded
  <2>3. QED
    BY <2>1, <2>2 DEF RetryDelivery, HasRow
<1>4. ASSUME NEW j \in Jobs, waiting'[j] > 0 PROVE j.attempt <= MaxRetries + extra'[j.event]
  <2>1. waiting[j] > 0 \/ (j.event = e /\ j.attempt = n + 1)
    BY <1>4, EnqueueNew DEF RetryDelivery
  <2>2. extra[e] \in Int /\ MaxRetries \in Int
    BY WebhooksAssumption DEF TypeOK
  <2>3. CASE waiting[j] > 0
    BY <1>1, <1>2, <2>3 DEF BoundInv, AttemptsBounded
  <2>4. CASE j.event = e /\ j.attempt = n + 1
    BY <1>1, <1>2, <1>3, <2>2, <2>4
  <2>5. QED
    BY <2>1, <2>3, <2>4
<1>5. UNCHANGED <<results, pc, job>>
  BY DEF RetryDelivery, workers
<1>6. ASSUME NEW w \in Workers, pc[w] # "idle"
      PROVE  job[w].attempt <= MaxRetries + extra'[job[w].event]
  BY <1>1, <1>2, <1>6 DEF TypeOK, BoundInv, AttemptsBounded
<1>7. ASSUME NEW d \in Events, NEW m \in Attempts, NEW st \in Statuses, <<d, m, st>> \in results
      PROVE  m <= MaxRetries + extra'[d]
  BY <1>2, <1>7 DEF BoundInv, Attempts
<1>8. QED
  BY <1>4, <1>5, <1>6, <1>7 DEF BoundInv, AttemptsBounded

\* An automatic retry stays within maxRetries.
LEMMA ScheduleBound ==
  ASSUME TypeOK, BoundInv, NEW w \in Workers, ScheduleRetry(w)
  PROVE  BoundInv'
<1>1. \A j \in Jobs : j.event \in Events /\ j.attempt \in Int
  BY JobParts DEF Attempts
<1>2. job[w] \in Jobs /\ job[w].attempt < MaxRetries
  BY DEF ScheduleRetry, GoTo, TypeOK, BoundInv
<1>3. UNCHANGED <<results, job, extra>> /\ pc' = [pc EXCEPT ![w] = "done"] /\ pc[w] = "retry"
  BY DEF ScheduleRetry, GoTo, workers
<1>4. ASSUME NEW j \in Jobs, waiting'[j] > 0 PROVE j.attempt <= MaxRetries + extra[j.event]
  <2>1. waiting' = [waiting EXCEPT
          ![[event |-> job[w].event, attempt |-> job[w].attempt + 1]] = @ + 1]
    BY DEF ScheduleRetry, Enqueue
  <2>2. CASE waiting[j] > 0
    BY <2>2 DEF BoundInv, AttemptsBounded
  <2>3. CASE j = [event |-> job[w].event, attempt |-> job[w].attempt + 1]
    <3>1. j.attempt = job[w].attempt + 1 /\ extra[j.event] \in Nat
      BY <2>3, <1>1 DEF TypeOK
    <3>2. QED
      BY <1>1, <1>2, <3>1, WebhooksAssumption
  <2>4. QED
    BY <1>4, <2>1, <2>2, <2>3 DEF TypeOK
<1>5. QED
  BY <1>3, <1>4 DEF BoundInv, AttemptsBounded, TypeOK

\* A rerun repeats an attempt, which the bound allows already.
LEMMA CrashBound ==
  ASSUME TypeOK, BoundInv, NEW w \in Workers, Crash(w)
  PROVE  BoundInv'
<1>1. \A j \in Jobs : j.event \in Events /\ j.attempt \in Attempts /\ j.attempt \in Int
  BY JobParts DEF Attempts
<1>2. /\ job[w] \in Jobs
      /\ job[w].attempt <= MaxRetries + extra[job[w].event]
      /\ extra[job[w].event] < MaxExtra
      /\ extra' = [extra EXCEPT ![job[w].event] = @ + 1]
      /\ waiting' = [waiting EXCEPT ![job[w]] = @ + 1]
  BY DEF Crash, TypeOK, BoundInv, AttemptsBounded
<1>3. \A d \in Events : \A m \in Int :
        m <= MaxRetries + extra[d] => m <= MaxRetries + extra'[d]
  BY <1>1, <1>2, BoundGrows
<1>4. ASSUME NEW j \in Jobs, waiting'[j] > 0 PROVE j.attempt <= MaxRetries + extra'[j.event]
  <2>1. waiting[j] > 0 \/ j = job[w]
    BY <1>2, <1>4 DEF TypeOK
  <2>2. QED
    BY <1>1, <1>2, <1>3, <2>1 DEF BoundInv, AttemptsBounded
<1>5. ASSUME NEW v \in Workers, pc'[v] # "idle"
      PROVE  job'[v].attempt <= MaxRetries + extra'[job'[v].event]
  <2>1. v # w /\ pc[v] # "idle" /\ job'[v] = job[v] /\ job[v] \in Jobs
    BY <1>5 DEF Crash, Release, TypeOK
  <2>2. QED
    BY <1>1, <1>3, <2>1 DEF BoundInv, AttemptsBounded
<1>6. ASSUME NEW d \in Events, NEW m \in Attempts, NEW st \in Statuses, <<d, m, st>> \in results'
      PROVE  m <= MaxRetries + extra'[d]
  <2>1. <<d, m, st>> \in results \/ (d = job[w].event /\ m = job[w].attempt)
    BY <1>6 DEF Crash, Release
  <2>2. m <= MaxRetries + extra[d]
    BY <1>2, <2>1 DEF BoundInv
  <2>3. QED
    BY <1>3, <2>2 DEF Attempts
<1>7. ASSUME NEW v \in Workers, pc'[v] = "retry" PROVE job'[v].attempt < MaxRetries
  BY <1>7 DEF Crash, Release, TypeOK, BoundInv
<1>8. QED
  BY <1>4, <1>5, <1>6, <1>7 DEF BoundInv, AttemptsBounded

\* The first attempt is within every bound.
LEMMA FirstBound ==
  ASSUME TypeOK, BoundInv, NEW e \in Events, EnqueueEvent(e)
  PROVE  BoundInv'
<1>1. \A j \in Jobs : waiting'[j] > 0 => waiting[j] > 0 \/ (j.event = e /\ j.attempt = 1)
  BY EnqueueNew DEF EnqueueEvent
<1>2. 1 <= MaxRetries + extra[e]
  BY WebhooksAssumption DEF TypeOK
<1>3. UNCHANGED <<results, pc, job, extra>>
  BY DEF EnqueueEvent, workers
<1>4. QED
  BY <1>1, <1>2, <1>3 DEF BoundInv, AttemptsBounded

\* Every step keeps the bound.
LEMMA NextBound == ASSUME TypeOK, BoundInv, [Next]_vars PROVE BoundInv'
<1> USE WebhooksAssumption, JobParts DEF TypeOK, BoundInv, AttemptsBounded, Posting, Statuses,
        endpoint, workers, history, GoTo, Release
<1>1. ASSUME NEW e \in Events, CreateEvent(e) \/ CreateTestEvent(e) \/ EnqueueEvent(e)
      PROVE  BoundInv'
  <2>1. CASE CreateEvent(e) \/ CreateTestEvent(e)
    BY <2>1 DEF CreateEvent, CreateTestEvent
  <2>2. CASE EnqueueEvent(e)
    BY <2>2, FirstBound
  <2>3. QED
    BY <1>1, <2>1, <2>2
<1>2. ASSUME NEW e \in Events, NEW n \in Attempts, RetryDelivery(e, n) PROVE BoundInv'
  BY <1>2, RetryBound
<1>3. ASSUME NEW w \in Workers, NEW j \in Jobs, Load(w, j) PROVE BoundInv'
  BY <1>3 DEF Load
<1>4. ASSUME NEW j \in Jobs, LoadGone(j) PROVE BoundInv'
  BY <1>4 DEF LoadGone
<1>5. ASSUME NEW w \in Workers, WorkerStep(w) PROVE BoundInv'
  <2>1. CASE SkipOpen(w)
    BY <2>1 DEF SkipOpen, Settle
  <2>2. CASE Post(w)
    BY <2>2 DEF Post, Settle
  <2>3. CASE RecordAccepted(w)
    BY <2>3 DEF RecordAccepted, Settle
  <2>4. CASE RecordRefused(w)
    BY <2>4 DEF RecordRefused, Settle
  <2>5. CASE RecordSuccess(w)
    BY <2>5 DEF RecordSuccess
  <2>6. CASE RecordFailure(w)
    BY <2>6 DEF RecordFailure, AfterFailure, OneMoreFailure
  <2>7. CASE Trip(w)
    BY <2>7 DEF Trip, AfterFailure
  <2>8. CASE RecordHalfOpenFailure(w)
    BY <2>8 DEF RecordHalfOpenFailure, AfterFailure, OneMoreFailure
  <2>9. CASE ScheduleRetry(w)
    BY <2>9, ScheduleBound
  <2>10. CASE Complete(w)
    BY <2>10 DEF Complete
  <2>11. CASE CatchError(w)
    BY <2>11 DEF CatchError
  <2>12. CASE FailJob(w)
    BY <2>12 DEF FailJob
  <2>13. QED
    BY <1>5, <2>1, <2>2, <2>3, <2>4, <2>5, <2>6, <2>7, <2>8, <2>9, <2>10, <2>11, <2>12 DEF WorkerStep
<1>6. ASSUME NEW w \in Workers, Crash(w) PROVE BoundInv'
  BY <1>6, CrashBound
<1>7. ASSUME NEW st \in {"ACTIVE", "PAUSED", "DISABLED"}, UpdateEndpoint(st)
      PROVE  BoundInv'
  BY <1>7 DEF UpdateEndpoint
<1>8. CASE DeleteEndpoint
  BY <1>8 DEF DeleteEndpoint
<1>9. CASE Cool
  BY <1>9 DEF Cool
<1>10. CASE ProbeOpenCircuits
  BY <1>10 DEF ProbeOpenCircuits
<1>11. CASE UNCHANGED vars
  BY <1>11 DEF vars
<1>12. QED
  BY <1>1, <1>2, <1>3, <1>4, <1>5, <1>6, <1>7, <1>8, <1>9, <1>10, <1>11 DEF Next

\* The bound holds in every reachable state.
LEMMA BoundInvariance == Spec => []BoundInv
<1>1. Init => BoundInv
  BY DEF Init, BoundInv, AttemptsBounded
<1>2. QED
  BY <1>1, NextBound, TypeCorrect, PTL DEF Spec

\* Every attempt beyond maxRetries is owed to a manual retry or a rerun.
THEOREM AttemptsStayBounded == Spec => []AttemptsBounded
<1>1. BoundInv => AttemptsBounded
  BY DEF BoundInv
<1>2. QED
  BY <1>1, BoundInvariance, PTL

-----------------------------------------------------------------------------
(* The jobs of an event                                                    *)

\* Copies, of any queue.
CopiesOf(q, e) == UNION {{n} \X (1..q[[event |-> e, attempt |-> n]]) : n \in Attempts}

\* A set that loses elements, gains at most one, or loses one that it had.
LEMMA Fewer ==
  ASSUME NEW A, IsFiniteSet(A), NEW B, B \subseteq A
  PROVE  IsFiniteSet(B) /\ Cardinality(B) <= Cardinality(A)
  BY FS_Subset

LEMMA OneMore ==
  ASSUME NEW A, IsFiniteSet(A), NEW x, NEW B, B \subseteq A \cup {x}
  PROVE  IsFiniteSet(B) /\ Cardinality(B) <= Cardinality(A) + 1
<1>1. /\ IsFiniteSet(A \cup {x})
      /\ Cardinality(A \cup {x}) = IF x \in A THEN Cardinality(A) ELSE Cardinality(A) + 1
  BY FS_AddElement
<1>2. IsFiniteSet(B) /\ Cardinality(B) <= Cardinality(A \cup {x})
  BY <1>1, FS_Subset
<1>3. Cardinality(A) \in Nat /\ Cardinality(B) \in Nat /\ Cardinality(A \cup {x}) \in Nat
  BY <1>1, <1>2, FS_CardinalityType
<1>4. QED
  BY <1>1, <1>2, <1>3

LEMMA OneLess ==
  ASSUME NEW A, IsFiniteSet(A), NEW x \in A, NEW B, B \subseteq A \ {x}
  PROVE  IsFiniteSet(B) /\ Cardinality(B) + 1 <= Cardinality(A)
<1>1. IsFiniteSet(A \ {x}) /\ Cardinality(A \ {x}) = Cardinality(A) - 1
  BY FS_RemoveElement
<1>2. IsFiniteSet(B) /\ Cardinality(B) <= Cardinality(A \ {x})
  BY <1>1, FS_Subset
<1>3. Cardinality(A) \in Nat /\ Cardinality(B) \in Nat /\ Cardinality(A \ {x}) \in Nat
  BY <1>1, <1>2, FS_CardinalityType
<1>4. QED
  BY <1>1, <1>2, <1>3

\* A job that is added is one more of its event and none of another.
LEMMA CopiesAdded ==
  ASSUME NEW q \in [Jobs -> Nat], NEW d, NEW m, NEW e \in Events
  PROVE  LET j == [event |-> d, attempt |-> m]
             r == [q EXCEPT ![j] = @ + 1]
         IN  /\ CopiesOf(r, e) \subseteq CopiesOf(q, e) \cup {<<m, q[j] + 1>>}
             /\ e # d => CopiesOf(r, e) \subseteq CopiesOf(q, e)
<1> DEFINE j == [event |-> d, attempt |-> m]
           r == [q EXCEPT ![j] = @ + 1]
           k(n) == [event |-> e, attempt |-> n]
<1>1. \A n \in Attempts : k(n) \in Jobs
  BY DEF Jobs
<1>2. \A n \in Attempts : r[k(n)] = IF e = d /\ n = m THEN q[j] + 1 ELSE q[k(n)]
  BY <1>1
<1>3. ASSUME NEW n \in Attempts, NEW c \in {n} \X (1..r[k(n)])
      PROVE  /\ c \in CopiesOf(q, e) \cup {<<m, q[j] + 1>>}
             /\ e # d => c \in CopiesOf(q, e)
  <2>1. PICK i \in 1..r[k(n)] : c = <<n, i>>
    BY <1>3
  <2>2. q[k(n)] \in Nat
    BY <1>1
  <2>3. CASE i \in 1..q[k(n)]
    BY <2>1, <2>3 DEF CopiesOf
  <2>4. CASE i \notin 1..q[k(n)]
    <3>1. e = d /\ n = m /\ i = q[j] + 1
      BY <1>2, <2>1, <2>2, <2>4
    <3>2. QED
      BY <2>1, <3>1
  <2>5. QED
    BY <2>3, <2>4
<1>4. QED
  BY <1>3 DEF CopiesOf

\* A job that is taken was one of its event.
LEMMA CopiesTaken ==
  ASSUME NEW q \in [Jobs -> Nat], NEW j \in Jobs, q[j] > 0, NEW e \in Events
  PROVE  LET r == [q EXCEPT ![j] = @ - 1]
         IN  /\ CopiesOf(r, e) \subseteq CopiesOf(q, e)
             /\ e = j.event => /\ <<j.attempt, q[j]>> \in CopiesOf(q, e)
                               /\ CopiesOf(r, e) \subseteq CopiesOf(q, e) \ {<<j.attempt, q[j]>>}
<1> DEFINE r == [q EXCEPT ![j] = @ - 1]
           k(n) == [event |-> e, attempt |-> n]
<1>1. \A n \in Attempts : k(n) \in Jobs
  BY DEF Jobs
<1>2. /\ j.attempt \in Attempts
      /\ e = j.event => k(j.attempt) = j
      /\ \A n \in Attempts : k(n) = j => n = j.attempt /\ e = j.event
  BY DEF Jobs
<1>3. \A n \in Attempts : /\ q[k(n)] \in Nat
                          /\ r[k(n)] = IF k(n) = j THEN q[j] - 1 ELSE q[k(n)]
  BY <1>1
<1>4. ASSUME NEW n \in Attempts, NEW c \in {n} \X (1..r[k(n)])
      PROVE  c \in CopiesOf(q, e) /\ (e = j.event => c # <<j.attempt, q[j]>>)
  <2>1. PICK i \in 1..r[k(n)] : c = <<n, i>>
    BY <1>4
  <2>2. i \in 1..q[k(n)]
    BY <1>3, <2>1
  <2>3. c \in CopiesOf(q, e)
    BY <2>1, <2>2 DEF CopiesOf
  <2>4. e = j.event /\ n = j.attempt => i # q[j]
    BY <1>2, <1>3, <2>1
  <2>5. QED
    BY <2>1, <2>3, <2>4
<1>5. ASSUME e = j.event PROVE <<j.attempt, q[j]>> \in CopiesOf(q, e)
  <2>1. q[j] \in 1..q[k(j.attempt)]
    BY <1>2, <1>5
  <2>2. QED
    BY <1>2, <2>1 DEF CopiesOf
<1>6. QED
  BY <1>4, <1>5 DEF CopiesOf

\* Every event has one job, apart from the extra ones, and one that was never
\* queued has none.
CountInv ==
  /\ \A e \in Events : IsFiniteSet(Copies(e))
  /\ NoAmplification
  /\ \A e \in Events \ queued : Copies(e) = {} /\ Running(e) = {}
  /\ \A w \in Workers : pc[w] # "idle" => job[w].event \in queued

\* What the counts of an event are numbers of.
LEMMA CountTypes ==
  ASSUME TypeOK, CountInv, NEW e \in Events
  PROVE  /\ IsFiniteSet(Copies(e)) /\ Cardinality(Copies(e)) \in Nat
         /\ IsFiniteSet(Running(e)) /\ Cardinality(Running(e)) \in Nat
         /\ extra[e] \in Nat
<1>1. IsFiniteSet(Running(e))
  BY WebhooksAssumption, FS_Subset DEF Running
<1>2. QED
  BY <1>1, WebhooksAssumption, FS_CardinalityType DEF CountInv, TypeOK

\* What a step does to the jobs of one event: it loses some, moves one from
\* the queue to a worker or from a worker to the queue, or adds one that an
\* extra one pays for or that is the first.
CountStep(e) ==
  \/ Copies(e)' \subseteq Copies(e) /\ Running(e)' \subseteq Running(e) /\ extra'[e] = extra[e]
  \/ \E x \in Copies(e) : \E w :
       /\ Copies(e)' \subseteq Copies(e) \ {x}
       /\ Running(e)' \subseteq Running(e) \cup {w}
       /\ extra'[e] = extra[e]
  \/ \E w \in Running(e) : \E x :
       /\ Copies(e)' \subseteq Copies(e) \cup {x}
       /\ Running(e)' \subseteq Running(e) \ {w}
       /\ extra'[e] = extra[e]
  \/ \E x :
       /\ Copies(e)' \subseteq Copies(e) \cup {x}
       /\ Running(e)' \subseteq Running(e)
       /\ extra'[e] = extra[e] + 1 \/ (e \notin queued /\ extra'[e] = extra[e])
       /\ e \in queued'

\* None of these makes more of them than the extra ones pay for.
LEMMA CountEvent ==
  ASSUME TypeOK, CountInv, NEW e \in Events, CountStep(e)
  PROVE  /\ IsFiniteSet(Copies(e)')
         /\ Cardinality(Copies(e)') + Cardinality(Running(e)') <= 1 + extra'[e]
         /\ e \notin queued /\ e \notin queued' => Copies(e)' = {} /\ Running(e)' = {}
<1> DEFINE C == Copies(e)'
           R == Running(e)'
           n == extra'[e]
<1> USE CountTypes
<1>1. Cardinality(Copies(e)) + Cardinality(Running(e)) <= 1 + extra[e]
  BY DEF CountInv, NoAmplification
<1>2. e \notin queued => Copies(e) = {} /\ Running(e) = {}
  BY DEF CountInv
<1>3. CASE C \subseteq Copies(e) /\ R \subseteq Running(e) /\ n = extra[e]
  <2>1. IsFiniteSet(C) /\ Cardinality(C) <= Cardinality(Copies(e))
    BY <1>3, Fewer
  <2>2. IsFiniteSet(R) /\ Cardinality(R) <= Cardinality(Running(e))
    BY <1>3, Fewer
  <2>3. Cardinality(C) \in Nat /\ Cardinality(R) \in Nat
    BY <2>1, <2>2, FS_CardinalityType
  <2>4. Cardinality(C) + Cardinality(R) <= 1 + n
    BY <1>1, <1>3, <2>1, <2>2, <2>3
  <2>5. QED
    BY <1>2, <1>3, <2>1, <2>4
<1>4. ASSUME NEW x \in Copies(e), NEW w, C \subseteq Copies(e) \ {x},
             R \subseteq Running(e) \cup {w}, n = extra[e]
      PROVE  /\ IsFiniteSet(C) /\ Cardinality(C) + Cardinality(R) <= 1 + n
             /\ e \in queued
  <2>1. IsFiniteSet(C) /\ Cardinality(C) + 1 <= Cardinality(Copies(e))
    BY <1>4, OneLess
  <2>2. IsFiniteSet(R) /\ Cardinality(R) <= Cardinality(Running(e)) + 1
    BY <1>4, OneMore
  <2>3. Cardinality(C) \in Nat /\ Cardinality(R) \in Nat
    BY <2>1, <2>2, FS_CardinalityType
  <2>4. Cardinality(C) + Cardinality(R) <= 1 + n
    BY <1>1, <1>4, <2>1, <2>2, <2>3
  <2>5. QED
    BY <1>2, <2>1, <2>4
<1>5. ASSUME NEW x, NEW w \in Running(e), C \subseteq Copies(e) \cup {x},
             R \subseteq Running(e) \ {w}, n = extra[e]
      PROVE  /\ IsFiniteSet(C) /\ Cardinality(C) + Cardinality(R) <= 1 + n
             /\ e \in queued
  <2>1. IsFiniteSet(R) /\ Cardinality(R) + 1 <= Cardinality(Running(e))
    BY <1>5, OneLess
  <2>2. IsFiniteSet(C) /\ Cardinality(C) <= Cardinality(Copies(e)) + 1
    BY <1>5, OneMore
  <2>3. Cardinality(C) \in Nat /\ Cardinality(R) \in Nat
    BY <2>1, <2>2, FS_CardinalityType
  <2>4. Cardinality(C) + Cardinality(R) <= 1 + n
    BY <1>1, <1>5, <2>1, <2>2, <2>3
  <2>5. QED
    BY <1>2, <2>2, <2>4
<1>6. ASSUME NEW x, C \subseteq Copies(e) \cup {x}, R \subseteq Running(e),
             n = extra[e] + 1 \/ (e \notin queued /\ n = extra[e])
      PROVE  IsFiniteSet(C) /\ Cardinality(C) + Cardinality(R) <= 1 + n
  <2>1. IsFiniteSet(C) /\ Cardinality(C) <= Cardinality(Copies(e)) + 1
    BY <1>6, OneMore
  <2>2. IsFiniteSet(R) /\ Cardinality(R) <= Cardinality(Running(e))
    BY <1>6, Fewer
  <2>3. e \notin queued => Cardinality(Copies(e)) = 0 /\ Cardinality(Running(e)) = 0
    BY <1>2, FS_EmptySet
  <2>4. Cardinality(C) \in Nat /\ Cardinality(R) \in Nat
    BY <2>1, <2>2, FS_CardinalityType
  <2>5. Cardinality(C) + Cardinality(R) <= 1 + n
    BY <1>1, <1>6, <2>1, <2>2, <2>3, <2>4
  <2>6. QED
    BY <2>1, <2>5
<1>7. QED
  BY <1>3, <1>4, <1>5, <1>6 DEF CountStep

\* So a step that treats every event in one of these ways keeps the count.
LEMMA CountKept ==
  ASSUME TypeOK, CountInv, \A e \in Events : CountStep(e), queued \subseteq queued',
         \A w \in Workers : pc'[w] # "idle" =>
            (pc[w] # "idle" /\ job'[w] = job[w]) \/ job'[w].event \in queued'
  PROVE  CountInv'
<1>1. \A e \in Events : /\ IsFiniteSet(Copies(e)')
                        /\ Cardinality(Copies(e)') + Cardinality(Running(e)') <= 1 + extra'[e]
                        /\ e \notin queued' => Copies(e)' = {} /\ Running(e)' = {}
  BY CountEvent
<1>2. \A w \in Workers : pc'[w] # "idle" => job'[w].event \in queued'
  BY DEF CountInv
<1>3. QED
  BY <1>1, <1>2 DEF CountInv, NoAmplification

\* Steps that leave the queue alone, and give no worker a job.
LEMMA CountSame ==
  ASSUME TypeOK, CountInv, UNCHANGED <<waiting, extra, queued>>,
         \A w \in Workers : pc'[w] \notin {"idle", "done"} =>
            pc[w] \notin {"idle", "done"} /\ job'[w] = job[w],
         \A w \in Workers : pc'[w] # "idle" => pc[w] # "idle" /\ job'[w] = job[w]
  PROVE  CountInv'
<1>1. \A e \in Events : Copies(e)' = Copies(e) /\ Running(e)' \subseteq Running(e)
  BY DEF Copies, Running
<1>2. \A e \in Events : CountStep(e)
  BY <1>1 DEF CountStep
<1>3. QED
  BY <1>2, CountKept

\* A job is added, and no worker begins one: the first of its event, or one
\* that an extra one pays for.
LEMMA CountAdds ==
  ASSUME TypeOK, CountInv, NEW d \in Events, NEW m,
         waiting' = [waiting EXCEPT ![[event |-> d, attempt |-> m]] = @ + 1],
         queued' = queued \cup {d},
         \A w \in Workers : pc'[w] # "idle" => pc'[w] = pc[w] /\ job'[w] = job[w],
         \/ d \notin queued /\ extra' = extra
         \/ extra' = [extra EXCEPT ![d] = @ + 1]
  PROVE  CountInv'
<1>1. \A e \in Events : Running(e)' \subseteq Running(e)
  BY DEF Running
<1>2. ASSUME NEW e \in Events PROVE CountStep(e)
  <2>1. /\ Copies(e) = CopiesOf(waiting, e)
        /\ Copies(e)' = CopiesOf(waiting', e)
    BY DEF Copies, CopiesOf
  <2>2. PICK x : /\ CopiesOf(waiting', e) \subseteq CopiesOf(waiting, e) \cup {x}
                 /\ e # d => CopiesOf(waiting', e) \subseteq CopiesOf(waiting, e)
    BY CopiesAdded DEF TypeOK
  <2>3. extra'[e] = IF e = d /\ extra' # extra THEN extra[e] + 1 ELSE extra[e]
    BY DEF TypeOK
  <2>4. CASE e = d
    BY <1>1, <2>1, <2>2, <2>3, <2>4 DEF CountStep, TypeOK
  <2>5. CASE e # d
    BY <1>1, <2>1, <2>2, <2>3, <2>5 DEF CountStep
  <2>6. QED
    BY <2>4, <2>5
<1>3. QED
  BY <1>2, CountKept

\* An event with a job in the queue was queued.
LEMMA WaitingQueued ==
  ASSUME TypeOK, CountInv, NEW j \in Jobs, waiting[j] > 0
  PROVE  j.event \in queued
<1>1. j.event \in Events
  BY JobParts
<1>2. <<j.attempt, waiting[j]>> \in CopiesOf(waiting, j.event)
  BY <1>1, CopiesTaken DEF TypeOK
<1>3. QED
  BY <1>1, <1>2 DEF CountInv, Copies, CopiesOf

\* A job that is taken moves to the worker, if any.
LEMMA CountTakes ==
  ASSUME TypeOK, CountInv, NEW j \in Jobs, waiting[j] > 0,
         waiting' = [waiting EXCEPT ![j] = @ - 1], UNCHANGED <<extra, queued>>,
         NEW w,
         \A v \in Workers \ {w} : pc'[v] = pc[v] /\ job'[v] = job[v],
         \/ pc'[w] = pc[w] /\ job'[w] = job[w]
         \/ job'[w] = j
  PROVE  CountInv'
<1>1. \A e \in Events : /\ Running(e)' \subseteq Running(e) \cup {w}
                        /\ e # j.event => Running(e)' \subseteq Running(e)
  BY DEF Running
<1>2. ASSUME NEW e \in Events PROVE CountStep(e)
  <2>1. /\ Copies(e) = CopiesOf(waiting, e)
        /\ Copies(e)' = CopiesOf(waiting', e)
    BY DEF Copies, CopiesOf
  <2>2. /\ CopiesOf(waiting', e) \subseteq CopiesOf(waiting, e)
        /\ e = j.event =>
             /\ <<j.attempt, waiting[j]>> \in CopiesOf(waiting, e)
             /\ CopiesOf(waiting', e)
                  \subseteq CopiesOf(waiting, e) \ {<<j.attempt, waiting[j]>>}
    BY CopiesTaken DEF TypeOK
  <2>3. extra'[e] = extra[e]
    OBVIOUS
  <2>4. CASE e = j.event
    <3>1. /\ <<j.attempt, waiting[j]>> \in Copies(e)
          /\ Copies(e)' \subseteq Copies(e) \ {<<j.attempt, waiting[j]>>}
      BY <2>1, <2>2, <2>4
    <3>2. Running(e)' \subseteq Running(e) \cup {w}
      BY <1>1
    <3>3. QED
      BY <2>3, <3>1, <3>2 DEF CountStep
  <2>5. CASE e # j.event
    BY <1>1, <2>1, <2>2, <2>3, <2>5 DEF CountStep
  <2>6. QED
    BY <2>4, <2>5
<1>3. j.event \in queued
  BY WaitingQueued
<1>4. QED
  BY <1>2, <1>3, CountKept

\* An automatic retry moves the job from the worker to the queue.
LEMMA CountRetries ==
  ASSUME TypeOK, CountInv, NEW w \in Workers, ScheduleRetry(w)
  PROVE  CountInv'
<1> DEFINE d == job[w].event
           m == job[w].attempt + 1
<1>1. /\ pc[w] = "retry" /\ pc' = [pc EXCEPT ![w] = "done"] /\ job' = job
      /\ waiting' = [waiting EXCEPT ![[event |-> d, attempt |-> m]] = @ + 1]
      /\ queued' = queued \cup {d} /\ extra' = extra
  BY DEF ScheduleRetry, GoTo, Enqueue
<1>2. d \in Events /\ w \in Running(d)
  BY <1>1, JobParts DEF TypeOK, Running
<1>3. \A e \in Events : /\ Running(e)' \subseteq Running(e)
                        /\ e = d => Running(e)' \subseteq Running(e) \ {w}
  BY <1>1 DEF Running, TypeOK
<1> HIDE DEF d, m
<1>4. ASSUME NEW e \in Events PROVE CountStep(e)
  <2>1. /\ Copies(e) = CopiesOf(waiting, e)
        /\ Copies(e)' = CopiesOf(waiting', e)
    BY DEF Copies, CopiesOf
  <2>2. PICK x : /\ CopiesOf(waiting', e) \subseteq CopiesOf(waiting, e) \cup {x}
                 /\ e # d => CopiesOf(waiting', e) \subseteq CopiesOf(waiting, e)
    <3>1. waiting' = [waiting EXCEPT ![[event |-> d, attempt |-> m]] = @ + 1]
      BY <1>1
    <3>2. waiting \in [Jobs -> Nat]
      BY DEF TypeOK
    <3>3. QED
      BY <3>1, <3>2, CopiesAdded
  <2>3. CASE e = d
    <3>1. w \in Running(e) /\ extra'[e] = extra[e]
      BY <1>1, <1>2, <2>3
    <3>2. /\ Copies(e)' \subseteq Copies(e) \cup {x}
          /\ Running(e)' \subseteq Running(e) \ {w}
      BY <1>3, <2>1, <2>2, <2>3
    <3>3. QED
      BY <3>1, <3>2 DEF CountStep
  <2>4. CASE e # d
    <3>1. Copies(e)' \subseteq Copies(e) /\ Running(e)' \subseteq Running(e)
      BY <1>3, <2>1, <2>2, <2>4
    <3>2. extra'[e] = extra[e]
      BY <1>1
    <3>3. QED
      BY <3>1, <3>2 DEF CountStep
  <2>5. QED
    BY <2>3, <2>4
<1>5. \A v \in Workers : pc'[v] # "idle" => pc[v] # "idle" /\ job'[v] = job[v]
  BY <1>1 DEF TypeOK
<1>6. QED
  BY <1>1, <1>4, <1>5, CountKept

\* Every step keeps the count.
LEMMA NextCount == ASSUME TypeOK, CountInv, [Next]_vars PROVE CountInv'
<1> USE DEF GoTo, Release, workers, history
<1>1. ASSUME NEW e \in Events, CreateEvent(e) \/ CreateTestEvent(e) PROVE CountInv'
  BY <1>1, CountSame DEF CreateEvent, CreateTestEvent
<1>2. ASSUME NEW e \in Events, EnqueueEvent(e) PROVE CountInv'
  BY <1>2, CountAdds DEF EnqueueEvent, Enqueue
<1>3. ASSUME NEW e \in Events, NEW n \in Attempts, RetryDelivery(e, n) PROVE CountInv'
  BY <1>3, CountAdds DEF RetryDelivery, Enqueue
<1>4. ASSUME NEW w \in Workers, NEW j \in Jobs, Load(w, j) PROVE CountInv'
  <2>1. /\ waiting[j] > 0 /\ waiting' = [waiting EXCEPT ![j] = @ - 1]
        /\ UNCHANGED <<extra, queued>>
        /\ job' = [job EXCEPT ![w] = j]
        /\ \A v \in Workers \ {w} : pc'[v] = pc[v] /\ job'[v] = job[v]
    BY <1>4 DEF Load, TypeOK
  <2>2. job'[w] = j
    BY <2>1 DEF TypeOK
  <2>3. QED
    BY <2>1, <2>2, CountTakes
<1>5. ASSUME NEW j \in Jobs, LoadGone(j) PROVE CountInv'
  BY <1>5, CountTakes DEF LoadGone
<1>6. ASSUME NEW w \in Workers, WorkerStep(w) PROVE CountInv'
  <2>1. CASE SkipOpen(w)
    BY <2>1, CountSame DEF SkipOpen, TypeOK
  <2>2. CASE Post(w)
    BY <2>2, CountSame DEF Post, TypeOK
  <2>3. CASE RecordAccepted(w)
    BY <2>3, CountSame DEF RecordAccepted, TypeOK
  <2>4. CASE RecordRefused(w)
    BY <2>4, CountSame DEF RecordRefused, TypeOK
  <2>5. CASE RecordSuccess(w)
    BY <2>5, CountSame DEF RecordSuccess, TypeOK
  <2>6. CASE RecordFailure(w)
    BY <2>6, CountSame DEF RecordFailure, TypeOK
  <2>7. CASE Trip(w)
    BY <2>7, CountSame DEF Trip, TypeOK
  <2>8. CASE RecordHalfOpenFailure(w)
    BY <2>8, CountSame DEF RecordHalfOpenFailure, TypeOK
  <2>9. CASE ScheduleRetry(w)
    BY <2>9, CountRetries
  <2>10. CASE Complete(w)
    BY <2>10, CountSame DEF Complete, TypeOK
  <2>11. CASE CatchError(w)
    BY <2>11, CountSame DEF CatchError, Posting, TypeOK
  <2>12. CASE FailJob(w)
    BY <2>12, CountSame DEF FailJob, TypeOK
  <2>13. QED
    BY <1>6, <2>1, <2>2, <2>3, <2>4, <2>5, <2>6, <2>7, <2>8, <2>9, <2>10, <2>11, <2>12 DEF WorkerStep
<1>7. ASSUME NEW w \in Workers, Crash(w) PROVE CountInv'
  <2>1. job[w] = [event |-> job[w].event, attempt |-> job[w].attempt] /\ job[w].event \in Events
    BY <1>7 DEF Crash, TypeOK, Jobs
  <2>2. queued' = queued \cup {job[w].event}
    BY <1>7 DEF Crash, CountInv
  <2>3. \A v \in Workers : pc'[v] # "idle" => pc'[v] = pc[v] /\ job'[v] = job[v]
    BY <1>7 DEF Crash, TypeOK
  <2>4. /\ waiting' = [waiting EXCEPT ![job[w]] = @ + 1]
        /\ extra' = [extra EXCEPT ![job[w].event] = @ + 1]
    BY <1>7 DEF Crash
  <2>5. QED
    BY <2>1, <2>2, <2>3, <2>4, CountAdds
<1>8. ASSUME NEW st \in {"ACTIVE", "PAUSED", "DISABLED"}, UpdateEndpoint(st)
      PROVE  CountInv'
  BY <1>8, CountSame DEF UpdateEndpoint
<1>9. CASE DeleteEndpoint
  BY <1>9, CountSame DEF DeleteEndpoint
<1>10. CASE Cool
  BY <1>10, CountSame DEF Cool
<1>11. CASE ProbeOpenCircuits
  BY <1>11, CountSame DEF ProbeOpenCircuits
<1>12. CASE UNCHANGED vars
  BY <1>12, CountSame DEF vars
<1>13. QED
  BY <1>1, <1>2, <1>3, <1>4, <1>5, <1>6, <1>7, <1>8, <1>9, <1>10, <1>11, <1>12 DEF Next

\* The count holds in every reachable state.
LEMMA CountInvariance == Spec => []CountInv
<1>1. Init => CountInv
  <2> SUFFICES ASSUME Init PROVE CountInv
    OBVIOUS
  <2>1. \A e \in Events : Running(e) = {}
    BY DEF Init, Running
  <2>2. \A e \in Events : Copies(e) = {}
    <3>1. \A e \in Events, n \in Attempts : waiting[[event |-> e, attempt |-> n]] = 0
      BY DEF Init, Jobs
    <3>2. 1..0 = {}
      OBVIOUS
    <3>3. QED
      BY <3>1, <3>2 DEF Copies
  <2>3. \A e \in Events : extra[e] = 0 /\ queued = {}
    BY DEF Init
  <2>4. QED
    BY <2>1, <2>2, <2>3, FS_EmptySet DEF CountInv, NoAmplification, Init
<1>2. QED
  BY <1>1, NextCount, TypeCorrect, PTL DEF Spec

\* However often workers crash, admins retry and jobs overlap, an event has no
\* more jobs, in the queue and in the workers, than the first and the extra ones.
THEOREM OneJobAtATime == Spec => []NoAmplification
<1>1. CountInv => NoAmplification
  BY DEF CountInv
<1>2. QED
  BY <1>1, CountInvariance, PTL

-----------------------------------------------------------------------------
(* No event is forgotten                                                   *)

\* What NoEventForgotten says of one event.
Kept(e) == HasJob(e) \/ Ended(e) \/ e \in dropped \/ status = "DELETED"

\* A worker that is about to end its job without another has the row that
\* justifies it, unless the endpoint is deleted and its rows with it.
RowsFit ==
  status # "DELETED" => \A w \in Workers :
    /\ pc[w] = "success" => row[w] = "SUCCESS"
    /\ pc[w] \in {"failing", "trip"} => row[w] = "FAILED"

\* A step keeps an event if it takes none of its jobs, rows or workers away.
LEMMA KeptUntouched ==
  ASSUME TypeOK, NEW e \in Events, Kept(e),
         results \subseteq results', dropped \subseteq dropped',
         status = "DELETED" => status' = "DELETED",
         \A n \in Attempts : waiting[[event |-> e, attempt |-> n]] > 0
                          => waiting'[[event |-> e, attempt |-> n]] > 0,
         \A w \in Workers : pc[w] # "idle" /\ job[w].event = e
                          => pc'[w] = pc[w] /\ job'[w] = job[w] /\ row'[w] = row[w]
  PROVE  Kept(e)'
<1>1. HasJob(e) => HasJob(e)'
  BY DEF HasJob, Running
<1>2. ASSUME NEW n \in Attempts, NEW st, HasRow(e, n, st) PROVE HasRow(e, n, st)'
  BY <1>2 DEF HasRow
<1>3. Ended(e) => Ended(e)'
  BY <1>2 DEF Ended
<1>4. QED
  BY <1>1, <1>3 DEF Kept

\* So a step of a worker has only its own event to care for.
LEMMA KeptByWorker ==
  ASSUME TypeOK, NoEventForgotten, NEW w \in Workers, pc[w] # "idle",
         \A v \in Workers \ {w} : pc'[v] = pc[v] /\ job'[v] = job[v] /\ row'[v] = row[v],
         results \subseteq results', dropped \subseteq dropped',
         status = "DELETED" => status' = "DELETED",
         \A j \in Jobs : waiting[j] > 0 => waiting'[j] > 0,
         NEW d \in Events, d = job[w].event,
         queued' \subseteq queued \cup {d},
         d \in queued => Kept(d)', d \notin queued => d \notin queued' \/ Kept(d)'
  PROVE  NoEventForgotten'
<1>1. ASSUME NEW e \in queued, e # d PROVE Kept(e)'
  <2>1. Kept(e) /\ e \in Events
    BY <1>1 DEF NoEventForgotten, Kept, TypeOK
  <2>2. \A n \in Attempts : [event |-> e, attempt |-> n] \in Jobs
    BY <2>1 DEF Jobs
  <2>3. QED
    BY <1>1, <2>1, <2>2, KeptUntouched
<1>2. \A e \in queued' : Kept(e)'
  BY <1>1
<1>3. QED
  BY <1>2 DEF NoEventForgotten, Kept

\* A worker with more to do on its event keeps it, and so does a last row.
LEMMA KeptRunning ==
  ASSUME NEW w \in Workers, NEW d, pc'[w] \notin {"idle", "done"}, job'[w].event = d
  PROVE  Kept(d)'
  BY DEF Kept, HasJob, Running

LEMMA KeptEnded ==
  ASSUME NEW w \in Workers, NEW d, NEW n \in Attempts, pc'[w] # "idle",
         job'[w] = [event |-> d, attempt |-> n],
         row'[w] \in {"SUCCESS", "CIRCUIT_OPEN"} \/ (row'[w] = "FAILED" /\ n >= MaxRetries)
  PROVE  Kept(d)'
<1>1. HasRow(d, n, row[w])'
  BY DEF HasRow
<1>2. Ended(d)'
  BY <1>1 DEF Ended
<1>3. QED
  BY <1>2 DEF Kept

\* A job in the queue keeps its event.
LEMMA KeptWaiting ==
  ASSUME NEW j \in Jobs, waiting'[j] > 0, NEW d, d = j.event
  PROVE  Kept(d)'
<1>1. j.attempt \in Attempts /\ j = [event |-> d, attempt |-> j.attempt]
  BY DEF Jobs
<1>2. QED
  BY <1>1 DEF Kept, HasJob

\* The rows fit the places of the workers after every step.
LEMMA NextRows == ASSUME TypeOK, RowsFit, [Next]_vars PROVE RowsFit'
<1> USE DEF TypeOK, RowsFit, Posting, endpoint, workers, history, GoTo, Release, Settle
<1>1. ASSUME NEW e \in Events, CreateEvent(e) \/ CreateTestEvent(e) \/ EnqueueEvent(e)
      PROVE  RowsFit'
  BY <1>1 DEF CreateEvent, CreateTestEvent, EnqueueEvent
<1>2. ASSUME NEW e \in Events, NEW n \in Attempts, RetryDelivery(e, n) PROVE RowsFit'
  BY <1>2 DEF RetryDelivery
<1>3. ASSUME NEW w \in Workers, NEW j \in Jobs, Load(w, j) PROVE RowsFit'
  BY <1>3 DEF Load
<1>4. ASSUME NEW j \in Jobs, LoadGone(j) PROVE RowsFit'
  BY <1>4 DEF LoadGone
<1>5. ASSUME NEW w \in Workers, WorkerStep(w) PROVE RowsFit'
  <2>1. CASE SkipOpen(w)
    BY <2>1 DEF SkipOpen
  <2>2. CASE Post(w)
    BY <2>2 DEF Post
  <2>3. CASE RecordAccepted(w)
    BY <2>3 DEF RecordAccepted
  <2>4. CASE RecordRefused(w)
    BY <2>4 DEF RecordRefused
  <2>5. CASE RecordSuccess(w)
    BY <2>5 DEF RecordSuccess
  <2>6. CASE RecordFailure(w)
    BY <2>6 DEF RecordFailure, AfterFailure
  <2>7. CASE Trip(w)
    BY <2>7 DEF Trip, AfterFailure
  <2>8. CASE RecordHalfOpenFailure(w)
    BY <2>8 DEF RecordHalfOpenFailure, AfterFailure
  <2>9. CASE ScheduleRetry(w)
    BY <2>9 DEF ScheduleRetry
  <2>10. CASE Complete(w)
    BY <2>10 DEF Complete
  <2>11. CASE CatchError(w)
    BY <2>11 DEF CatchError
  <2>12. CASE FailJob(w)
    BY <2>12 DEF FailJob
  <2>13. QED
    BY <1>5, <2>1, <2>2, <2>3, <2>4, <2>5, <2>6, <2>7, <2>8, <2>9, <2>10, <2>11, <2>12 DEF WorkerStep
<1>6. ASSUME NEW w \in Workers, Crash(w) PROVE RowsFit'
  BY <1>6 DEF Crash
<1>7. ASSUME NEW st \in {"ACTIVE", "PAUSED", "DISABLED"}, UpdateEndpoint(st)
      PROVE  RowsFit'
  BY <1>7 DEF UpdateEndpoint
<1>8. CASE DeleteEndpoint
  BY <1>8 DEF DeleteEndpoint
<1>9. CASE Cool
  BY <1>9 DEF Cool
<1>10. CASE ProbeOpenCircuits
  BY <1>10 DEF ProbeOpenCircuits
<1>11. CASE UNCHANGED vars
  BY <1>11 DEF vars
<1>12. QED
  BY <1>1, <1>2, <1>3, <1>4, <1>5, <1>6, <1>7, <1>8, <1>9, <1>10, <1>11 DEF Next

\* A step of a worker that holds a job keeps every event: its own has another
\* job, or the row that ends it, or is dropped.
LEMMA WorkerKeeps ==
  ASSUME TypeOK, BoundInv, RowsFit, NoEventForgotten,
         NEW w \in Workers, WorkerStep(w)
  PROVE  NoEventForgotten'
<1> USE DEF GoTo, history, endpoint
<1>1. pc[w] # "idle"
  BY DEF WorkerStep, SkipOpen, Post, RecordAccepted, RecordRefused, RecordSuccess, RecordFailure,
         Trip, RecordHalfOpenFailure, ScheduleRetry, Complete, CatchError, FailJob, Posting
<1>2. PICK d \in Events, n \in Attempts : /\ job[w] = [event |-> d, attempt |-> n]
                                         /\ job[w].event = d /\ job[w].attempt = n /\ n \in Int
  BY <1>1 DEF TypeOK, Jobs, Attempts
<1>3. \A v \in Workers \ {w} : pc'[v] = pc[v] /\ job'[v] = job[v] /\ row'[v] = row[v]
  BY DEF WorkerStep, SkipOpen, Post, RecordAccepted, RecordRefused, RecordSuccess, RecordFailure,
         Trip, RecordHalfOpenFailure, ScheduleRetry, Complete, CatchError, FailJob,
         Settle, Release, TypeOK
<1>4. results \subseteq results' /\ dropped \subseteq dropped' /\ queued' \subseteq queued \cup {d}
  BY <1>2 DEF WorkerStep, SkipOpen, Post, RecordAccepted, RecordRefused, RecordSuccess, RecordFailure,
         Trip, RecordHalfOpenFailure, ScheduleRetry, Complete, CatchError, FailJob,
         Release, Enqueue
<1>5. status = "DELETED" => status' = "DELETED"
  BY DEF WorkerStep, SkipOpen, Post, RecordAccepted, RecordRefused, RecordSuccess, RecordFailure,
         Trip, RecordHalfOpenFailure, ScheduleRetry, Complete, CatchError, FailJob
<1>6. \A j \in Jobs : waiting[j] > 0 => waiting'[j] > 0
  <2>1. waiting' = waiting \/ ScheduleRetry(w)
    BY DEF WorkerStep, SkipOpen, Post, RecordAccepted, RecordRefused, RecordSuccess, RecordFailure,
           Trip, RecordHalfOpenFailure, Complete, CatchError, FailJob
  <2>2. CASE ScheduleRetry(w)
    BY <2>2 DEF ScheduleRetry, Enqueue, TypeOK
  <2>3. QED
    BY <2>1, <2>2
<1>7. (d \in queued => Kept(d)') /\ (d \notin queued => d \notin queued' \/ Kept(d)')
  <2>1. CASE pc'[w] \notin {"idle", "done"} /\ job' = job
    BY <1>2, <2>1, KeptRunning
  <2>2. CASE SkipOpen(w)
    <3>1. pc'[w] = "done" /\ job'[w] = job[w] /\ row'[w] = "CIRCUIT_OPEN"
      BY <2>2 DEF SkipOpen, Settle, TypeOK
    <3>2. QED
      BY <1>2, <3>1, KeptEnded
  <2>3. CASE RecordSuccess(w)
    <3>1. pc'[w] = "done" /\ job'[w] = job[w] /\ row'[w] = "SUCCESS"
      BY <2>3 DEF RecordSuccess, RowsFit, TypeOK
    <3>2. QED
      BY <1>2, <3>1, KeptEnded
  <2>4. CASE (RecordFailure(w) \/ Trip(w) \/ RecordHalfOpenFailure(w)) /\ pc'[w] \in {"idle", "done"}
    <3>1. job'[w] = job[w] /\ row'[w] = "FAILED"
      BY <2>4 DEF RecordFailure, Trip, RecordHalfOpenFailure, RowsFit
    <3>2. pc'[w] = "trip" \/ pc'[w] = AfterFailure(w)
      BY <2>4 DEF RecordFailure, Trip, RecordHalfOpenFailure, TypeOK
    <3>3. pc'[w] = "done" /\ ~ (n < MaxRetries)
      BY <1>2, <2>4, <3>2 DEF AfterFailure
    <3>4. n >= MaxRetries
      BY <1>2, <3>3, WebhooksAssumption
    <3>5. QED
      BY <1>2, <3>1, <3>3, <3>4, KeptEnded
  <2>5. CASE ScheduleRetry(w)
    <3> DEFINE j == [event |-> d, attempt |-> n + 1]
    <3>1. n < MaxRetries
      BY <1>2, <2>5 DEF ScheduleRetry, BoundInv
    <3>2. n + 1 \in Attempts
      BY <1>2, <3>1, WebhooksAssumption DEF Attempts
    <3>3. j \in Jobs
      BY <1>2, <3>2 DEF Jobs
    <3>4. waiting'[j] > 0
      BY <1>2, <2>5, <3>3 DEF ScheduleRetry, Enqueue, TypeOK
    <3>5. QED
      BY <3>3, <3>4, KeptWaiting
  <2>6. CASE Complete(w)
    <3>1. queued' = queued
      BY <2>6 DEF Complete
    <3>2. ASSUME d \in queued PROVE Kept(d)'
      <4>1. HasJob(d) \/ Ended(d) \/ d \in dropped \/ status = "DELETED"
        BY <3>2 DEF NoEventForgotten
      <4>2. /\ pc[w] = "done" /\ pc' = [pc EXCEPT ![w] = "idle"]
            /\ job' = [job EXCEPT ![w] = NoJob] /\ row' = [row EXCEPT ![w] = "NONE"]
            /\ results' = results \cup {<<d, n, st>> : st \in {row[w]} \ {"NONE"}}
            /\ waiting' = waiting /\ dropped' = dropped /\ status' = status
        BY <1>2, <2>6 DEF Complete, Release
      <4>3. ASSUME HasJob(d) PROVE Kept(d)'
        <5>1. ASSUME NEW v \in Running(d) PROVE Kept(d)'
          <6>1. v # w /\ v \in Workers /\ pc[v] \notin {"idle", "done"} /\ job[v].event = d
            BY <4>2, <5>1 DEF Running
          <6>2. pc'[v] = pc[v] /\ job'[v] = job[v]
            BY <1>3, <6>1
          <6>3. QED
            BY <6>1, <6>2, KeptRunning
        <5>2. ASSUME NEW m \in Attempts, waiting[[event |-> d, attempt |-> m]] > 0
              PROVE  Kept(d)'
          BY <1>2, <4>2, <5>2, KeptWaiting DEF Jobs
        <5>3. QED
          BY <4>3, <5>1, <5>2 DEF HasJob
      <4>4. ASSUME NEW m \in Attempts, NEW st \in Statuses, HasRow(d, m, st)
            PROVE  HasRow(d, m, st)'
        <5>1. CASE <<d, m, st>> \in results
          BY <4>2, <5>1 DEF HasRow
        <5>2. ASSUME NEW v \in Workers, pc[v] # "idle",
                     job[v] = [event |-> d, attempt |-> m], row[v] = st
              PROVE  HasRow(d, m, st)'
          <6>1. CASE v = w
            <7>1. m = n /\ st # "NONE"
              BY <1>2, <5>2, <6>1 DEF Statuses
            <7>2. QED
              BY <4>2, <5>2, <6>1, <7>1 DEF HasRow
          <6>2. CASE v # w
            BY <1>3, <5>2, <6>2 DEF HasRow
          <6>3. QED
            BY <6>1, <6>2
        <5>3. QED
          BY <4>4, <5>1, <5>2 DEF HasRow
      <4>5. ASSUME Ended(d) PROVE Kept(d)'
        BY <4>4, <4>5 DEF Ended, Kept, Statuses
      <4>6. QED
        BY <4>1, <4>2, <4>3, <4>5 DEF Kept
    <3>3. QED
      BY <3>1, <3>2
  <2>7. CASE FailJob(w)
    BY <1>2, <2>7 DEF FailJob, Kept
  <2>8. QED
    BY <2>1, <2>2, <2>3, <2>4, <2>5, <2>6, <2>7
       DEF WorkerStep, Post, RecordAccepted, RecordRefused, RecordFailure, Trip,
           RecordHalfOpenFailure, CatchError, TypeOK
<1>8. QED
  BY <1>1, <1>2, <1>3, <1>4, <1>5, <1>6, <1>7, KeptByWorker

\* A job that is added takes nothing away, and its event has one now.
LEMMA KeptByAdding ==
  ASSUME TypeOK, NoEventForgotten, NEW j \in Jobs,
         waiting' = [waiting EXCEPT ![j] = @ + 1], queued' = queued \cup {j.event},
         UNCHANGED <<results, dropped, status, pc, job, row>>
  PROVE  NoEventForgotten'
<1>1. PICK d : d = j.event
  OBVIOUS
<1>2. \A i \in Jobs : waiting[i] > 0 => waiting'[i] > 0
  BY DEF TypeOK
<1>3. waiting'[j] > 0
  BY DEF TypeOK
<1>4. Kept(d)'
  BY <1>1, <1>3, KeptWaiting
<1>5. ASSUME NEW e \in queued PROVE Kept(e)'
  <2>1. Kept(e) /\ e \in Events
    BY DEF NoEventForgotten, Kept, TypeOK
  <2>2. \A n \in Attempts : [event |-> e, attempt |-> n] \in Jobs
    BY <2>1 DEF Jobs
  <2>3. QED
    BY <1>2, <2>1, <2>2, KeptUntouched
<1>6. \A e \in queued' : Kept(e)'
  BY <1>1, <1>4, <1>5
<1>7. QED
  BY <1>6 DEF NoEventForgotten, Kept

\* A step that leaves jobs and rows alone keeps every event.
LEMMA KeptBySame ==
  ASSUME TypeOK, NoEventForgotten, UNCHANGED <<waiting, queued, results, dropped, pc, job, row>>,
         status = "DELETED" => status' = "DELETED"
  PROVE  NoEventForgotten'
<1>1. ASSUME NEW e \in queued PROVE Kept(e)'
  <2>1. Kept(e) /\ e \in Events
    BY DEF NoEventForgotten, Kept, TypeOK
  <2>2. QED
    BY <2>1, KeptUntouched
<1>2. QED
  BY <1>1 DEF NoEventForgotten, Kept

\* A job that is taken is run or dropped, and the other events have theirs.
LEMMA KeptByTaking ==
  ASSUME TypeOK, NoEventForgotten, NEW j \in Jobs, NEW w,
         waiting' = [waiting EXCEPT ![j] = @ - 1], UNCHANGED <<queued, results, status, row>>,
         dropped \subseteq dropped',
         \A v \in Workers : pc[v] # "idle" => pc'[v] = pc[v] /\ job'[v] = job[v],
         \/ j.event \in dropped'
         \/ w \in Workers /\ pc'[w] \notin {"idle", "done"} /\ job'[w] = j
  PROVE  NoEventForgotten'
<1>1. PICK d : d = j.event
  OBVIOUS
<1>2. Kept(d)'
  BY <1>1, KeptRunning DEF Kept
<1>3. ASSUME NEW e \in queued, e # d PROVE Kept(e)'
  <2>1. Kept(e) /\ e \in Events
    BY DEF NoEventForgotten, Kept, TypeOK
  <2>2. \A n \in Attempts : /\ [event |-> e, attempt |-> n] \in Jobs
                            /\ [event |-> e, attempt |-> n] # j
    BY <1>1, <1>3, <2>1 DEF Jobs
  <2>3. \A n \in Attempts : waiting'[[event |-> e, attempt |-> n]]
                            = waiting[[event |-> e, attempt |-> n]]
    BY <2>2 DEF TypeOK
  <2>4. QED
    BY <2>1, <2>3, KeptUntouched
<1>4. \A e \in queued' : Kept(e)'
  BY <1>2, <1>3
<1>5. QED
  BY <1>4 DEF NoEventForgotten, Kept

\* Every step keeps every event.
LEMMA NextKept ==
  ASSUME TypeOK, BoundInv, RowsFit, NoEventForgotten, [Next]_vars
  PROVE  NoEventForgotten'
<1> USE DEF endpoint, workers, history
<1>1. ASSUME NEW e \in Events, CreateEvent(e) \/ CreateTestEvent(e) PROVE NoEventForgotten'
  BY <1>1, KeptBySame DEF CreateEvent, CreateTestEvent
<1>2. ASSUME NEW e \in Events, EnqueueEvent(e) PROVE NoEventForgotten'
  <2>1. [event |-> e, attempt |-> 1] \in Jobs
    BY WebhooksAssumption DEF Jobs, Attempts
  <2>2. QED
    BY <1>2, <2>1, KeptByAdding DEF EnqueueEvent, Enqueue
<1>3. ASSUME NEW e \in Events, NEW n \in Attempts, RetryDelivery(e, n) PROVE NoEventForgotten'
  <2>1. n <= MaxRetries + extra[e]
    <3>1. CASE <<e, n, "FAILED">> \in results
      BY <3>1 DEF BoundInv, Statuses
    <3>2. ASSUME NEW w \in Workers, pc[w] # "idle", job[w] = [event |-> e, attempt |-> n]
          PROVE  n <= MaxRetries + extra[e]
      BY <3>2 DEF BoundInv, AttemptsBounded
    <3>3. QED
      BY <1>3, <3>1, <3>2 DEF RetryDelivery, HasRow
  <2>2. extra[e] < MaxExtra /\ extra[e] \in Nat /\ n \in Nat \ {0}
    BY <1>3 DEF RetryDelivery, TypeOK, Attempts
  <2>3. n + 1 \in Attempts
    BY <2>1, <2>2, WebhooksAssumption DEF Attempts
  <2>4. [event |-> e, attempt |-> n + 1] \in Jobs
    BY <2>3 DEF Jobs
  <2>5. QED
    BY <1>3, <2>4, KeptByAdding DEF RetryDelivery, Enqueue
<1>4. ASSUME NEW w \in Workers, NEW j \in Jobs, Load(w, j) PROVE NoEventForgotten'
  <2>1. /\ waiting' = [waiting EXCEPT ![j] = @ - 1]
        /\ UNCHANGED <<queued, results, status, row>>
        /\ dropped \subseteq dropped'
    BY <1>4 DEF Load
  <2>2. \A v \in Workers : pc[v] # "idle" => pc'[v] = pc[v] /\ job'[v] = job[v]
    BY <1>4 DEF Load, TypeOK
  <2>3. j.event \in dropped' \/ (pc'[w] \notin {"idle", "done"} /\ job'[w] = j)
    BY <1>4 DEF Load, TypeOK
  <2>4. QED
    BY <2>1, <2>2, <2>3, KeptByTaking
<1>5. ASSUME NEW j \in Jobs, LoadGone(j) PROVE NoEventForgotten'
  BY <1>5, KeptByTaking DEF LoadGone
<1>6. ASSUME NEW w \in Workers, WorkerStep(w) PROVE NoEventForgotten'
  BY <1>6, WorkerKeeps
<1>7. ASSUME NEW w \in Workers, Crash(w) PROVE NoEventForgotten'
  <2>1. PICK d \in Events : d = job[w].event /\ job[w] \in Jobs
    BY <1>7, JobParts DEF Crash, TypeOK
  <2>2. /\ waiting' = [waiting EXCEPT ![job[w]] = @ + 1] /\ pc[w] # "idle"
        /\ UNCHANGED <<queued, dropped, status>> /\ results \subseteq results'
        /\ \A v \in Workers \ {w} : pc'[v] = pc[v] /\ job'[v] = job[v] /\ row'[v] = row[v]
    BY <1>7 DEF Crash, Release, TypeOK
  <2>3. waiting'[job[w]] > 0 /\ \A j \in Jobs : waiting[j] > 0 => waiting'[j] > 0
    BY <2>1, <2>2 DEF TypeOK
  <2>4. PICK j \in Jobs : j = job[w]
    BY <2>1
  <2>5. Kept(d)'
    BY <2>1, <2>3, <2>4, KeptWaiting
  <2>6. QED
    BY <2>1, <2>2, <2>3, <2>5, KeptByWorker
<1>8. ASSUME NEW st \in {"ACTIVE", "PAUSED", "DISABLED"}, UpdateEndpoint(st)
      PROVE  NoEventForgotten'
  BY <1>8, KeptBySame DEF UpdateEndpoint
<1>9. CASE DeleteEndpoint
  BY <1>9 DEF DeleteEndpoint, NoEventForgotten
<1>10. CASE Cool
  BY <1>10, KeptBySame DEF Cool
<1>11. CASE ProbeOpenCircuits
  BY <1>11, KeptBySame DEF ProbeOpenCircuits
<1>12. CASE UNCHANGED vars
  BY <1>12, KeptBySame DEF vars
<1>13. QED
  BY <1>1, <1>2, <1>3, <1>4, <1>5, <1>6, <1>7, <1>8, <1>9, <1>10, <1>11, <1>12 DEF Next

\* An event that was queued once has a job, or ended for a reason on record:
\* a success, an open circuit, the last attempt, a disabled or a deleted
\* endpoint or an exception.  Crashes, manual retries and administrators
\* included, none is lost.
THEOREM NothingForgotten == Spec => []NoEventForgotten
<1>1. Init => RowsFit /\ NoEventForgotten
  BY DEF Init, RowsFit, NoEventForgotten
<1>2. QED
  BY <1>1, NextRows, NextKept, TypeCorrect, BoundInvariance, PTL DEF Spec

-----------------------------------------------------------------------------
(* Deliveries that stay PENDING                                            *)

\* The row of a worker is PENDING between its post and the answer's record.
PendingPosted ==
  \A w \in Workers : row[w] = "PENDING" => pc[w] \in {"accepted", "refused"}

\* A delivery that nobody works on and that is PENDING was left by a worker
\* that died, or that failed its job with an exception: nothing else may leave
\* a delivery without its outcome.
PendingExplained ==
  \A r \in results : r[3] = "PENDING" => r[1] \in dropped \/ extra[r[1]] > 0

\* What a worker leaves behind is explained if it was not PENDING, or its event
\* is dropped or counted.
LEMMA LeftExplained ==
  ASSUME TypeOK, PendingPosted, PendingExplained, NEW w \in Workers, pc[w] # "idle", Release(w),
         dropped \subseteq dropped',
         \A e \in Events : extra[e] > 0 => extra'[e] > 0,
         row[w] = "PENDING" => job[w].event \in dropped' \/ extra'[job[w].event] > 0
  PROVE  PendingPosted' /\ PendingExplained'
<1>1. PendingPosted'
  BY DEF Release, TypeOK, PendingPosted
<1>2. ASSUME NEW r \in results', r[3] = "PENDING"
      PROVE  r[1] \in dropped' \/ extra'[r[1]] > 0
  <2>1. CASE r \in results
    BY <1>2, <2>1 DEF PendingExplained, TypeOK
  <2>2. CASE r = <<job[w].event, job[w].attempt, row[w]>>
    BY <1>2, <2>2
  <2>3. QED
    BY <1>2, <2>1, <2>2 DEF Release
<1>3. QED
  BY <1>1, <1>2 DEF PendingExplained

LEMMA NextExplained ==
  ASSUME TypeOK, PendingPosted, PendingExplained, [Next]_vars
  PROVE  PendingPosted' /\ PendingExplained'
<1> USE DEF endpoint, workers, history, GoTo, Settle
<1>1. ASSUME NEW e \in Events, CreateEvent(e) \/ CreateTestEvent(e) \/ EnqueueEvent(e)
      PROVE  PendingPosted' /\ PendingExplained'
  BY <1>1 DEF CreateEvent, CreateTestEvent, EnqueueEvent, PendingPosted, PendingExplained
<1>2. ASSUME NEW e \in Events, NEW n \in Attempts, RetryDelivery(e, n)
      PROVE  PendingPosted' /\ PendingExplained'
  <2>1. PendingPosted'
    BY <1>2 DEF RetryDelivery, PendingPosted
  <2>2. \A d \in Events : extra[d] > 0 => extra'[d] > 0
    BY <1>2, WebhooksAssumption DEF RetryDelivery, TypeOK
  <2>3. results' = results /\ dropped' = dropped /\ \A r \in results : r[1] \in Events
    BY <1>2 DEF RetryDelivery, TypeOK
  <2>4. QED
    BY <2>1, <2>2, <2>3 DEF PendingExplained
<1>3. ASSUME NEW w \in Workers, NEW j \in Jobs, Load(w, j)
      PROVE  PendingPosted' /\ PendingExplained'
  BY <1>3 DEF Load, PendingPosted, PendingExplained, TypeOK
<1>4. ASSUME NEW j \in Jobs, LoadGone(j) PROVE PendingPosted' /\ PendingExplained'
  BY <1>4 DEF LoadGone, PendingPosted, PendingExplained
<1>5. ASSUME NEW w \in Workers, WorkerStep(w) PROVE PendingPosted' /\ PendingExplained'
  <2>1. CASE Complete(w)
    <3>1. row[w] # "PENDING" /\ pc[w] # "idle"
      BY <2>1 DEF Complete, PendingPosted
    <3>2. QED
      BY <2>1, <3>1, LeftExplained DEF Complete
  <2>2. CASE FailJob(w)
    <3>1. pc[w] # "idle" /\ job[w].event \in dropped' /\ dropped \subseteq dropped'
      BY <2>2 DEF FailJob, Posting
    <3>2. QED
      BY <2>2, <3>1, LeftExplained DEF FailJob
  <2>3. CASE ~ (Complete(w) \/ FailJob(w))
    <3>1. UNCHANGED <<results, dropped, extra>>
      BY <1>5, <2>3 DEF WorkerStep, SkipOpen, Post, RecordAccepted, RecordRefused, RecordSuccess,
         RecordFailure, Trip, RecordHalfOpenFailure, ScheduleRetry, CatchError
    <3>2. PendingPosted'
      BY <1>5, <2>3 DEF PendingPosted, TypeOK, WorkerStep, SkipOpen, Post, RecordAccepted,
         RecordRefused, RecordSuccess, RecordFailure, Trip, RecordHalfOpenFailure,
         ScheduleRetry, CatchError, Posting
    <3>3. QED
      BY <3>1, <3>2 DEF PendingExplained
  <2>4. QED
    BY <2>1, <2>2, <2>3
<1>6. ASSUME NEW w \in Workers, Crash(w) PROVE PendingPosted' /\ PendingExplained'
  <2>1. job[w].event \in Events
    BY <1>6, JobParts DEF Crash, TypeOK
  <2>2. extra'[job[w].event] > 0 /\ \A d \in Events : extra[d] > 0 => extra'[d] > 0
    BY <1>6, <2>1, WebhooksAssumption DEF Crash, TypeOK
  <2>3. QED
    BY <1>6, <2>2, LeftExplained DEF Crash
<1>7. ASSUME NEW st \in {"ACTIVE", "PAUSED", "DISABLED"}, UpdateEndpoint(st)
      PROVE  PendingPosted' /\ PendingExplained'
  BY <1>7 DEF UpdateEndpoint, PendingPosted, PendingExplained
<1>8. CASE DeleteEndpoint
  BY <1>8 DEF DeleteEndpoint, PendingPosted, PendingExplained
<1>9. CASE Cool
  BY <1>9 DEF Cool, PendingPosted, PendingExplained
<1>10. CASE ProbeOpenCircuits
  BY <1>10 DEF ProbeOpenCircuits, PendingPosted, PendingExplained
<1>11. CASE UNCHANGED vars
  BY <1>11 DEF vars, PendingPosted, PendingExplained
<1>12. QED
  BY <1>1, <1>2, <1>3, <1>4, <1>5, <1>6, <1>7, <1>8, <1>9, <1>10, <1>11 DEF Next

\* A delivery row stays PENDING only when a worker died or failed its job
\* between the insert of deliver and the update that records the outcome.
THEOREM PendingIsExplained == Spec => []PendingExplained
<1>1. Init => PendingPosted /\ PendingExplained
  BY DEF Init, PendingPosted, PendingExplained
<1>2. QED
  BY <1>1, NextExplained, TypeCorrect, PTL DEF Spec
=============================================================================
