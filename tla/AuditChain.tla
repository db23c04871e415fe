----------------------------- MODULE AuditChain -----------------------------
(***************************************************************************)
(* The hash-chained audit log: audit.service.ts log, called by every       *)
(* request of every process of the write region.                           *)
(*                                                                         *)
(* Rows are numbered in the order they are committed, and the hash of row  *)
(* i is i: only who points at whom matters.  The transaction takes one     *)
(* advisory lock, reads the row with the greatest createdAt, stamps its    *)
(* own with the clock of its host, in milliseconds, and inserts it.        *)
(* Nothing makes two stamps differ, or a clock run forward only.           *)
(***************************************************************************)
EXTENDS Integers

CONSTANTS
  Writers,     \* Calls of log in progress.
  Hosts,       \* Machines, each with a clock of its own.
  HostOf,      \* The machine a writer runs on.
  MaxRows,     \* Bound on the rows ever written.
  MaxTime,     \* Bound on the clocks.
  NoWriter     \* The holder of the free lock.

ASSUME AuditAssumption ==
  /\ HostOf \in [Writers -> Hosts]
  /\ MaxRows \in Nat
  /\ MaxTime \in Nat
  /\ NoWriter \notin Writers

VARIABLES
  clock,       \* The time on each host, in the unit of createdAt.
  count,       \* Committed rows.
  previous,    \* previousHash of each row: an earlier row, or 0 for the genesis.
  createdAt,   \* createdAt of each row.
  lock,        \* Holder of the advisory lock.
  pc,          \* The await a writer is suspended at.
  last,        \* The row a writer read as the last one.
  stamp,       \* The createdAt a writer took.
  fault        \* History: a row was committed whose createdAt is not later
               \* than that of every row before it.

rows == <<count, previous, createdAt>>
vars == <<clock, count, previous, createdAt, lock, pc, last, stamp, fault>>

Rows == 1..count
PCs  == {"idle", "waiting", "locked", "read", "stamped"}

TypeOK ==
  /\ clock \in [Hosts -> 0..MaxTime]
  /\ count \in 0..MaxRows
  /\ previous \in [1..MaxRows -> 0..MaxRows]
  /\ createdAt \in [1..MaxRows -> 0..MaxTime]
  /\ lock \in Writers \cup {NoWriter}
  /\ pc \in [Writers -> PCs]
  /\ last \in [Writers -> 0..MaxRows]
  /\ stamp \in [Writers -> 0..MaxTime]
  /\ fault \in BOOLEAN

Init ==
  /\ clock = [h \in Hosts |-> 0]
  /\ count = 0
  /\ previous = [i \in 1..MaxRows |-> 0]
  /\ createdAt = [i \in 1..MaxRows |-> 0]
  /\ lock = NoWriter
  /\ pc = [w \in Writers |-> "idle"]
  /\ last = [w \in Writers |-> 0]
  /\ stamp = [w \in Writers |-> 0]
  /\ fault = FALSE

GoTo(w, from, to) == pc[w] = from /\ pc' = [pc EXCEPT ![w] = to]

\* log opens its transaction and asks for the lock.
Begin(w) ==
  /\ count < MaxRows
  /\ GoTo(w, "idle", "waiting")
  /\ UNCHANGED <<clock, rows, lock, last, stamp, fault>>

\* Mutant of Lock: nobody waits for anybody.
LockNotExclusive(w) ==
  /\ count < MaxRows
  /\ GoTo(w, "waiting", "locked")
  /\ lock' = w
  /\ UNCHANGED <<clock, rows, last, stamp, fault>>

\* pg_advisory_xact_lock returns.
Lock(w) ==
  /\ lock = NoWriter
  /\ count < MaxRows
  /\ GoTo(w, "waiting", "locked")
  /\ lock' = w
  /\ UNCHANGED <<clock, rows, last, stamp, fault>>

\* findFirst orders by createdAt alone: of several latest rows, any.
Latest == {i \in Rows : \A j \in Rows : createdAt[j] <= createdAt[i]}

ReadLast(w) ==
  /\ GoTo(w, "locked", "read")
  /\ \E i \in IF count = 0 THEN {0} ELSE Latest : last' = [last EXCEPT ![w] = i]
  /\ UNCHANGED <<clock, rows, lock, stamp, fault>>

\* createdAt = new Date(), and the hash over it.
Stamp(w) ==
  /\ GoTo(w, "read", "stamped")
  /\ stamp' = [stamp EXCEPT ![w] = clock[HostOf[w]]]
  /\ UNCHANGED <<clock, rows, lock, last, fault>>

\* Mutant of Finish: the lock outlives its transaction.
FinishKeepsLock(w) ==
  /\ pc' = [pc EXCEPT ![w] = "idle"]
  /\ last' = [last EXCEPT ![w] = 0]
  /\ stamp' = [stamp EXCEPT ![w] = 0]
  /\ UNCHANGED lock

\* What a writer read and stamped is gone, and so is its lock.
Finish(w) ==
  /\ pc' = [pc EXCEPT ![w] = "idle"]
  /\ last' = [last EXCEPT ![w] = 0]
  /\ stamp' = [stamp EXCEPT ![w] = 0]
  /\ lock' = IF lock = w THEN NoWriter ELSE lock

\* The row is inserted; the commit makes it visible and releases the lock.
Commit(w) ==
  /\ pc[w] = "stamped"
  /\ count' = count + 1
  /\ previous' = [previous EXCEPT ![count + 1] = last[w]]
  /\ createdAt' = [createdAt EXCEPT ![count + 1] = stamp[w]]
  /\ fault' = (fault \/ \E i \in Rows : createdAt[i] >= stamp[w])
  /\ Finish(w)
  /\ UNCHANGED clock

\* A query fails, the transaction times out or the process dies: it is
\* rolled back, and its caller logs the error and goes on.
Rollback(w) ==
  /\ pc[w] # "idle"
  /\ Finish(w)
  /\ UNCHANGED <<clock, rows, fault>>

\* The clock of a host moves on, or is set back.
Tick(h) ==
  /\ clock[h] < MaxTime
  /\ clock' = [clock EXCEPT ![h] = @ + 1]
  /\ UNCHANGED <<rows, lock, pc, last, stamp, fault>>

SetBack(h) ==
  /\ clock[h] > 0
  /\ clock' = [clock EXCEPT ![h] = @ - 1]
  /\ UNCHANGED <<rows, lock, pc, last, stamp, fault>>

Holding(w) == ReadLast(w) \/ Stamp(w) \/ Commit(w)

Next ==
  \/ \E w \in Writers : Begin(w) \/ Lock(w) \/ Holding(w) \/ Rollback(w)
  \/ \E h \in Hosts : Tick(h) \/ SetBack(h)

Spec == Init /\ [][Next]_vars

\* Postgres grants the lock in the order it was asked for, and the
\* transaction of a holder ends, at the latest by its timeout.
Fairness == \A w \in Writers : SF_vars(Lock(w)) /\ WF_vars(Holding(w))

FairSpec == Spec /\ Fairness

-----------------------------------------------------------------------------
(* Properties                                                              *)

\* As long as createdAt grew with every row, the log is one chain, each row
\* pointing at the one committed just before it, however many processes
\* write: the lock spans the read and the commit.
LinearUnlessClock == ~ fault => \A i \in Rows : previous[i] = i - 1

\* Whatever the clocks do, a row points at a row that was committed before
\* it, or at the genesis: no rolled back or later row is ever pointed at.
PointsBack == \A i \in Rows : previous[i] < i

\* A call of log that waits for the lock gets it, as long as the bound on
\* rows lets any call go on.
LockIsGranted ==
  \A w \in Writers : pc[w] = "waiting" ~> (pc[w] # "waiting" \/ count = MaxRows)

\* The transactions are serial, whatever the clocks do: the log is the one
\* that AuditLog appends to in one step, although a transaction reads the last
\* row, stamps its own and inserts it one after the other, may be rolled back
\* in between, and runs beside those of all other processes.
Log == INSTANCE AuditLog WITH
  Times <- 0..MaxTime,
  log <- [i \in Rows |-> [previous |-> previous[i], createdAt |-> createdAt[i]]]

Serialized == Log!Spec
=============================================================================
