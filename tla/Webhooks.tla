------------------------------ MODULE Webhooks ------------------------------
(***************************************************************************)
(* Delivery of webhook events to one endpoint: the rows in Postgres, the   *)
(* BullMQ queue of delivery jobs, the workers that post them, and the      *)
(* circuit breaker whose state is two columns of the endpoint's row.       *)
(*                                                                         *)
(* Endpoints share nothing but the workers, so one is enough.  A worker is *)
(* a slot of the processor's concurrency, in any instance; its pc says at  *)
(* which await it is suspended.  BullMQ is external: a job is handed to    *)
(* one worker, a delayed job becomes due some time, and the job of a       *)
(* worker that died (stalled) is handed out again.                         *)
(***************************************************************************)
EXTENDS Integers, FiniteSets

CONSTANTS
  Events,      \* Ids of webhook_events rows.
  Workers,     \* Concurrent executions of WebhookProcessor.process.
  Threshold,   \* circuitBreakerThreshold.
  MaxRetries,  \* maxRetries: the last attempt that schedules no other.
  MaxExtra,    \* Bound, per event, on manual retries and stalled reruns.
  NoJob        \* The job of an idle worker.

ASSUME WebhooksAssumption ==
  /\ Threshold \in Nat \ {0}
  /\ MaxRetries \in Nat \ {0}
  /\ MaxExtra \in Nat
  /\ IsFiniteSet(Workers)

VARIABLES
  status,      \* Endpoint: "ACTIVE", "PAUSED", "DISABLED" or "DELETED".
  circuit,     \* circuitState.
  failures,    \* failureCount; Threshold stands for it and all above it.
  cooled,      \* circuitOpenedAt is older than circuitBreakerResetMs.
  created,     \* Events with a row.
  results,     \* webhook_deliveries: <<event, attempt, status>> of the rows
               \* that no worker updates any more.
  waiting,     \* How often each job is in the queue.
  pc,          \* The await a worker is suspended at.
  job,         \* The job a worker runs.
  seen,        \* circuitState in the endpoint row the worker loaded.
  row,         \* Status of the delivery row the worker inserted.
  caught,      \* The worker is in the catch block of deliver.
  extra,       \* History: manual retries and stalled reruns of an event.
  dropped,     \* History: events with a job that found the endpoint disabled
               \* or failed with an exception.
  queued,      \* History: events that had a job.
  barred,      \* History: an admin disabled the endpoint while no worker was
               \* past its check, and no admin changed it since.
  byBreaker    \* History: the endpoint is PAUSED and the breaker did it.

endpoint == <<status, circuit, failures, cooled>>
workers  == <<pc, job, seen, row, caught>>
history  == <<extra, dropped, queued, barred, byBreaker>>
vars     == <<status, circuit, failures, cooled, created, results, waiting,
              pc, job, seen, row, caught, extra, dropped, queued, barred, byBreaker>>

Attempts == 1..(MaxRetries + MaxExtra)
Jobs     == [event : Events, attempt : Attempts]
Statuses == {"PENDING", "SUCCESS", "FAILED", "CIRCUIT_OPEN"}

\* Past the checks on the endpoint, with breaker updates still to come.
Posting  == {"post", "accepted", "success", "refused", "failing", "trip"}
PCs      == {"idle", "skip", "retry", "done"} \cup Posting

\* Jobs of event e in the queue: those of an attempt are numbered from 1.
Copies(e) == UNION {{n} \X (1..waiting[[event |-> e, attempt |-> n]]) : n \in Attempts}

\* A delivery row of event e with attempt n and status st.
HasRow(e, n, st) ==
  \/ <<e, n, st>> \in results
  \/ \E w \in Workers : /\ pc[w] # "idle"
                        /\ job[w] = [event |-> e, attempt |-> n]
                        /\ row[w] = st

TypeOK ==
  /\ status \in {"ACTIVE", "PAUSED", "DISABLED", "DELETED"}
  /\ circuit \in {"CLOSED", "OPEN", "HALF_OPEN"}
  /\ failures \in 0..Threshold
  /\ cooled \in BOOLEAN
  /\ created \subseteq Events
  /\ results \subseteq Events \X Attempts \X Statuses
  /\ waiting \in [Jobs -> Nat]
  /\ pc \in [Workers -> PCs]
  /\ job \in [Workers -> Jobs \cup {NoJob}]
  /\ \A w \in Workers : pc[w] # "idle" => job[w] \in Jobs
  /\ seen \in [Workers -> {"CLOSED", "OPEN", "HALF_OPEN"}]
  /\ row \in [Workers -> Statuses \cup {"NONE"}]
  /\ caught \in [Workers -> BOOLEAN]
  /\ extra \in [Events -> 0..MaxExtra]
  /\ dropped \subseteq Events
  /\ queued \subseteq Events
  /\ barred \in BOOLEAN
  /\ byBreaker \in BOOLEAN

Init ==
  /\ status = "ACTIVE"
  /\ circuit = "CLOSED"
  /\ failures = 0
  /\ cooled = FALSE
  /\ created = {}
  /\ results = {}
  /\ waiting = [j \in Jobs |-> 0]
  /\ pc = [w \in Workers |-> "idle"]
  /\ job = [w \in Workers |-> NoJob]
  /\ seen = [w \in Workers |-> "CLOSED"]
  /\ row = [w \in Workers |-> "NONE"]
  /\ caught = [w \in Workers |-> FALSE]
  /\ extra = [e \in Events |-> 0]
  /\ dropped = {}
  /\ queued = {}
  /\ barred = FALSE
  /\ byBreaker = FALSE

GoTo(w, from, to) == pc[w] = from /\ pc' = [pc EXCEPT ![w] = to]

\* The worker has no job any more; its delivery row stays as it is.
Release(w) ==
  /\ results' = results \cup
       {<<job[w].event, job[w].attempt, st>> : st \in {row[w]} \ {"NONE"}}
  /\ row' = [row EXCEPT ![w] = "NONE"]
  /\ pc' = [pc EXCEPT ![w] = "idle"]
  /\ job' = [job EXCEPT ![w] = NoJob]
  /\ seen' = [seen EXCEPT ![w] = "CLOSED"]
  /\ caught' = [caught EXCEPT ![w] = FALSE]

Enqueue(e, n) ==
  /\ waiting' = [waiting EXCEPT ![[event |-> e, attempt |-> n]] = @ + 1]
  /\ queued' = queued \cup {e}

-----------------------------------------------------------------------------
(* Producers: webhook-events.listener.ts fanOut, webhook.controller.ts     *)

\* fanOut selects an active endpoint whose circuit is not open and inserts
\* the event.  The insert reads nothing, so it is one step with the select.
CreateEvent(e) ==
  /\ e \notin created
  /\ status = "ACTIVE"
  /\ circuit # "OPEN"
  /\ created' = created \cup {e}
  /\ UNCHANGED <<endpoint, results, waiting, workers, history>>

\* testEndpoint inserts one for any endpoint that is not disabled.
CreateTestEvent(e) ==
  /\ e \notin created
  /\ status \in {"ACTIVE", "PAUSED"}
  /\ created' = created \cup {e}
  /\ UNCHANGED <<endpoint, results, waiting, workers, history>>

\* Mutant of EnqueueEvent: the job may be added again.
EnqueueEventAgain(e) ==
  /\ e \in created
  /\ Enqueue(e, 1)
  /\ UNCHANGED <<endpoint, created, results, workers,
                 extra, dropped, barred, byBreaker>>

\* Both then add the first job; a crash before it leaves the event without.
EnqueueEvent(e) ==
  /\ e \in created \ queued
  /\ Enqueue(e, 1)
  /\ UNCHANGED <<endpoint, created, results, workers,
                 extra, dropped, barred, byBreaker>>

\* retryDelivery: any FAILED delivery, whatever became of the event since.
RetryDelivery(e, n) ==
  /\ status # "DELETED"
  /\ HasRow(e, n, "FAILED")
  /\ extra[e] < MaxExtra
  /\ Enqueue(e, n + 1)
  /\ extra' = [extra EXCEPT ![e] = @ + 1]
  /\ UNCHANGED <<endpoint, created, results, workers, dropped, barred, byBreaker>>

-----------------------------------------------------------------------------
(* The worker: webhook.processor.ts process, webhook-delivery.service.ts   *)
(* deliver, webhook-circuit-breaker.service.ts                             *)

\* A job is taken and the endpoint and the event are read.
Load(w, j) ==
  /\ pc[w] = "idle"
  /\ waiting[j] > 0
  /\ status # "DELETED"
  /\ waiting' = [waiting EXCEPT ![j] = @ - 1]
  /\ job' = [job EXCEPT ![w] = j]
  /\ seen' = [seen EXCEPT ![w] = circuit]
  /\ pc' = [pc EXCEPT ![w] = CASE status = "DISABLED" -> "done"
                               [] status # "DISABLED" /\ circuit = "OPEN" -> "skip"
                               [] OTHER -> "post"]
  /\ dropped' = IF status = "DISABLED" THEN dropped \cup {j.event} ELSE dropped
  /\ UNCHANGED <<endpoint, created, results, row, caught,
                 extra, queued, barred, byBreaker>>

\* The endpoint is gone: findEndpointById throws and the job fails.
LoadGone(j) ==
  /\ waiting[j] > 0
  /\ status = "DELETED"
  /\ waiting' = [waiting EXCEPT ![j] = @ - 1]
  /\ dropped' = dropped \cup {j.event}
  /\ UNCHANGED <<endpoint, created, results, workers, extra, queued, barred, byBreaker>>

Settle(w, st) == row' = [row EXCEPT ![w] = st]

\* The circuit was open: the delivery is recorded and the job is over.
SkipOpen(w) ==
  /\ status # "DELETED"
  /\ GoTo(w, "skip", "done")
  /\ Settle(w, "CIRCUIT_OPEN")
  /\ UNCHANGED <<endpoint, created, results, waiting, job, seen, caught, history>>

\* The delivery row is inserted and the request sent.  It is answered with a
\* 2xx, or another status, or times out: fetch throws and deliver catches.
Post(w) ==
  /\ status # "DELETED"
  /\ \/ GoTo(w, "post", "accepted") /\ UNCHANGED caught
     \/ GoTo(w, "post", "refused") /\ UNCHANGED caught
     \/ GoTo(w, "post", "refused") /\ caught' = [caught EXCEPT ![w] = TRUE]
  /\ Settle(w, "PENDING")
  /\ UNCHANGED <<endpoint, created, results, waiting, job, seen, history>>

RecordAccepted(w) ==
  /\ status # "DELETED"
  /\ GoTo(w, "accepted", "success")
  /\ Settle(w, "SUCCESS")
  /\ UNCHANGED <<endpoint, created, results, waiting, job, seen, caught, history>>

RecordRefused(w) ==
  /\ status # "DELETED"
  /\ GoTo(w, "refused", "failing")
  /\ Settle(w, "FAILED")
  /\ UNCHANGED <<endpoint, created, results, waiting, job, seen, caught, history>>

\* Mutant of RecordSuccess: the count is decremented, not reset.
RecordSuccessDecrements(w) ==
  /\ status # "DELETED"
  /\ GoTo(w, "success", "done")
  /\ failures' = failures - 1
  /\ circuit' = "CLOSED"
  /\ cooled' = FALSE
  /\ UNCHANGED <<status, created, results, waiting, job, seen, row, caught, history>>

\* recordSuccess closes the circuit and leaves status alone.
RecordSuccess(w) ==
  /\ status # "DELETED"
  /\ GoTo(w, "success", "done")
  /\ failures' = 0
  /\ circuit' = "CLOSED"
  /\ cooled' = FALSE
  /\ UNCHANGED <<status, created, results, waiting, job, seen, row, caught, history>>

\* Mutants of AfterFailure: off by one at the last attempt, in both ways.
AfterFailureOneMore(w) == IF job[w].attempt <= MaxRetries THEN "retry" ELSE "done"
AfterFailureOneLess(w) == IF job[w].attempt < MaxRetries - 1 THEN "retry" ELSE "done"

\* Where process goes after a failed delivery.
AfterFailure(w) == IF job[w].attempt < MaxRetries THEN "retry" ELSE "done"

OneMoreFailure == IF failures < Threshold THEN failures + 1 ELSE failures

\* recordFailure, unless the worker loaded a half-open circuit: the count is
\* incremented, and at the threshold a second update follows.
RecordFailure(w) ==
  /\ status # "DELETED"
  /\ seen[w] # "HALF_OPEN"
  /\ failures' = OneMoreFailure
  /\ GoTo(w, "failing", IF failures' >= Threshold /\ circuit # "OPEN"
                        THEN "trip" ELSE AfterFailure(w))
  /\ UNCHANGED <<status, circuit, cooled, created, results, waiting,
                 job, seen, row, caught, history>>

\* The second update opens the circuit and pauses the endpoint.
Trip(w) ==
  /\ status # "DELETED"
  /\ GoTo(w, "trip", AfterFailure(w))
  /\ circuit' = "OPEN"
  /\ cooled' = FALSE
  /\ status' = "PAUSED"
  /\ byBreaker' = TRUE
  /\ UNCHANGED <<failures, created, results, waiting, job, seen, row, caught,
                 extra, dropped, queued, barred>>

\* recordHalfOpenFailure, by the state the worker loaded.
RecordHalfOpenFailure(w) ==
  /\ status # "DELETED"
  /\ seen[w] = "HALF_OPEN"
  /\ GoTo(w, "failing", AfterFailure(w))
  /\ failures' = OneMoreFailure
  /\ circuit' = "OPEN"
  /\ cooled' = FALSE
  /\ UNCHANGED <<status, created, results, waiting, job, seen, row, caught, history>>

\* Mutant of ScheduleRetry: the attempt is not counted.
ScheduleSameAttempt(w) ==
  /\ GoTo(w, "retry", "done")
  /\ Enqueue(job[w].event, job[w].attempt)
  /\ UNCHANGED <<endpoint, created, results, job, seen, row, caught,
                 extra, dropped, barred, byBreaker>>

\* process adds the next attempt's job.
ScheduleRetry(w) ==
  /\ GoTo(w, "retry", "done")
  /\ Enqueue(job[w].event, job[w].attempt + 1)
  /\ UNCHANGED <<endpoint, created, results, job, seen, row, caught,
                 extra, dropped, barred, byBreaker>>

\* process returns and BullMQ completes the job.
Complete(w) ==
  /\ pc[w] = "done"
  /\ Release(w)
  /\ UNCHANGED <<endpoint, created, waiting, history>>

\* A query inside deliver's try throws, or finds the endpoint's rows gone:
\* the catch block records a failed delivery, even if the post was accepted.
CatchError(w) ==
  /\ pc[w] \in Posting \ {"post"}
  /\ ~ caught[w]
  /\ pc' = [pc EXCEPT ![w] = "refused"]
  /\ caught' = [caught EXCEPT ![w] = TRUE]
  /\ UNCHANGED <<endpoint, created, results, waiting, job, seen, row, history>>

\* A query outside the try throws: process rethrows and, with attempts: 1,
\* the job fails for good.
FailJob(w) ==
  /\ \/ pc[w] \in {"skip", "post", "retry"}
     \/ pc[w] \in Posting /\ caught[w]
  /\ dropped' = dropped \cup {job[w].event}
  /\ Release(w)
  /\ UNCHANGED <<endpoint, created, waiting, extra, queued, barred, byBreaker>>

\* The process dies: BullMQ finds the job stalled and queues it again.
Crash(w) ==
  LET e == job[w].event IN
  /\ pc[w] # "idle"
  /\ extra[e] < MaxExtra
  /\ extra' = [extra EXCEPT ![e] = @ + 1]
  /\ waiting' = [waiting EXCEPT ![job[w]] = @ + 1]
  /\ Release(w)
  /\ UNCHANGED <<endpoint, created, dropped, queued, barred, byBreaker>>

-----------------------------------------------------------------------------
(* The endpoint: updateEndpoint, deleteEndpoint, probeOpenCircuits         *)

\* PATCH /webhooks/:id sets any status and touches no circuit column.
UpdateEndpoint(st) ==
  /\ status \notin {"DELETED", st}
  /\ status' = st
  /\ barred' = (st = "DISABLED" /\ \A w \in Workers : pc[w] \notin Posting)
  /\ byBreaker' = FALSE
  /\ UNCHANGED <<circuit, failures, cooled, created, results, waiting, workers,
                 extra, dropped, queued>>

\* The rows of its events and deliveries go with it.
DeleteEndpoint ==
  /\ status # "DELETED"
  /\ status' = "DELETED"
  /\ results' = {}
  /\ row' = [w \in Workers |-> "NONE"]
  /\ barred' = FALSE
  /\ byBreaker' = FALSE
  /\ UNCHANGED <<circuit, failures, cooled, created, waiting,
                 pc, job, seen, caught,
                 extra, dropped, queued>>

\* circuitBreakerResetMs passes since the circuit was opened.
Cool ==
  /\ circuit = "OPEN"
  /\ ~ cooled
  /\ cooled' = TRUE
  /\ UNCHANGED <<status, circuit, failures, created, results, waiting, workers, history>>

\* Mutants of ProbeOpenCircuits: status is not in its where clause; it is not
\* in its data; or only active endpoints are probed.
ProbeAnyStatus ==
  /\ circuit = "OPEN"
  /\ cooled
  /\ status # "DELETED"
  /\ circuit' = "HALF_OPEN"
  /\ status' = "ACTIVE"
  /\ byBreaker' = FALSE
  /\ UNCHANGED <<failures, cooled, created, results, waiting, workers,
                 extra, dropped, queued, barred>>

ProbeKeepsPaused ==
  /\ circuit = "OPEN"
  /\ cooled
  /\ status \in {"ACTIVE", "PAUSED"}
  /\ circuit' = "HALF_OPEN"
  /\ UNCHANGED <<status, failures, cooled, created, results, waiting, workers, history>>

ProbeActiveOnly ==
  /\ circuit = "OPEN"
  /\ cooled
  /\ status = "ACTIVE"
  /\ circuit' = "HALF_OPEN"
  /\ UNCHANGED <<status, failures, cooled, created, results, waiting, workers, history>>

\* The repeatable maintenance job probe-webhook-circuits.
ProbeOpenCircuits ==
  /\ circuit = "OPEN"
  /\ cooled
  /\ status \in {"ACTIVE", "PAUSED"}
  /\ circuit' = "HALF_OPEN"
  /\ status' = "ACTIVE"
  /\ byBreaker' = FALSE
  /\ UNCHANGED <<failures, cooled, created, results, waiting, workers,
                 extra, dropped, queued, barred>>

-----------------------------------------------------------------------------
WorkerStep(w) ==
  \/ SkipOpen(w)
  \/ Post(w)
  \/ RecordAccepted(w)
  \/ RecordRefused(w)
  \/ RecordSuccess(w)
  \/ RecordFailure(w)
  \/ Trip(w)
  \/ RecordHalfOpenFailure(w)
  \/ ScheduleRetry(w)
  \/ Complete(w)
  \/ CatchError(w)
  \/ FailJob(w)

Next ==
  \/ \E e \in Events : CreateEvent(e) \/ CreateTestEvent(e) \/ EnqueueEvent(e)
  \/ \E e \in Events, n \in Attempts : RetryDelivery(e, n)
  \/ \E w \in Workers, j \in Jobs : Load(w, j)
  \/ \E j \in Jobs : LoadGone(j)
  \/ \E w \in Workers : WorkerStep(w) \/ Crash(w)
  \/ \E st \in {"ACTIVE", "PAUSED", "DISABLED"} : UpdateEndpoint(st)
  \/ DeleteEndpoint
  \/ Cool
  \/ ProbeOpenCircuits

Spec == Init /\ [][Next]_vars

\* An execution that has begun ends: every await has a timeout or fails.  A
\* job in the queue is taken when it is due, time passes, and the repeatable
\* probe runs every five minutes.
Fairness ==
  /\ \A w \in Workers : WF_vars(WorkerStep(w))
  /\ \A j \in Jobs : WF_vars(LoadGone(j) \/ \E w \in Workers : Load(w, j))
  /\ WF_vars(Cool)
  /\ WF_vars(ProbeOpenCircuits)

FairSpec == Spec /\ Fairness

-----------------------------------------------------------------------------
(* Properties                                                              *)

\* Workers on a job of e that may still add another.
Running(e) == {w \in Workers : pc[w] \notin {"idle", "done"} /\ job[w].event = e}

HasJob(e)  == Running(e) # {} \/ \E n \in Attempts : waiting[[event |-> e, attempt |-> n]] > 0

\* A delivery row of e after which no other is attempted.
Ended(e) ==
  \E n \in Attempts : \/ HasRow(e, n, "SUCCESS")
                      \/ HasRow(e, n, "CIRCUIT_OPEN")
                      \/ HasRow(e, n, "FAILED") /\ n >= MaxRetries

\* An event has one job at a time: every other one is owed to a manual retry
\* or to a job that BullMQ handed out again.
NoAmplification ==
  \A e \in Events : Cardinality(Copies(e)) + Cardinality(Running(e)) <= 1 + extra[e]

\* And so is every attempt beyond maxRetries.
AttemptsBounded ==
  /\ \A j \in Jobs : waiting[j] > 0 => j.attempt <= MaxRetries + extra[j.event]
  /\ \A w \in Workers :
       pc[w] # "idle" => job[w].attempt <= MaxRetries + extra[job[w].event]

\* No event is forgotten once it was queued: while the endpoint exists it has
\* a job, or ended in a success, an open circuit or its last attempt, or a job
\* of it found the endpoint disabled or failed with an exception.
NoEventForgotten ==
  \A e \in queued : HasJob(e) \/ Ended(e) \/ e \in dropped \/ status = "DELETED"

\* Disabling the endpoint with no post under way is final: until an admin
\* changes it no breaker update or probe brings it back, and nothing is posted.
DisableIsFinal ==
  barred => status = "DISABLED" /\ \A w \in Workers : pc[w] \notin Posting

\* A half-open endpoint takes traffic, or an admin stopped it: the breaker
\* never leaves it paused, when no event could ever close the circuit again.
HalfOpenTakesTraffic == circuit = "HALF_OPEN" => ~ byBreaker

\* An open circuit is probed: it does not stay open unless the endpoint is
\* disabled or deleted, though stale half-open failures open it again.
OpenIsProbed ==
  circuit = "OPEN" ~> (circuit # "OPEN" \/ status \in {"DISABLED", "DELETED"})

\* Retrying ends: every queued event has no job left some day.
JobsSettle == \A e \in Events : e \in queued ~> ~ HasJob(e)

\* The claim of the breaker's header that it probes for recovery: an endpoint
\* the breaker paused does not stay paused until an admin notices.
PauseRecovers == byBreaker ~> ~ byBreaker
=============================================================================
