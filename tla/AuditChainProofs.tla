-------------------------- MODULE AuditChainProofs --------------------------
(***************************************************************************)
(* Proofs about AuditChain for every set of writers and hosts and every    *)
(* bound on rows and clocks.  The chain is linear because the lock is held *)
(* from the read to the commit: what a holder read is still the last row.  *)
(***************************************************************************)
EXTENDS AuditChain, SequenceTheorems, TLAPS

InLock == {"locked", "read", "stamped"}

\* Whoever is between the lock and the commit holds the lock, and there is
\* room for its row.
LockInv ==
  \A w \in Writers : pc[w] \in InLock => lock = w /\ count < MaxRows

\* Rows, and the row a holder read, point at what was committed.
BackInv ==
  /\ PointsBack
  /\ \A w \in Writers : last[w] <= count

\* Without a clock fault createdAt grows from row to row, the chain is
\* linear, and a holder read the last row.
OrderInv ==
  ~ fault => /\ \A i, j \in Rows : i < j => createdAt[i] < createdAt[j]
             /\ \A i \in Rows : previous[i] = i - 1
             /\ \A w \in Writers : pc[w] \in {"read", "stamped"} => last[w] = count

IInv == TypeOK /\ LockInv /\ BackInv /\ OrderInv

\* The inductive invariant holds initially.
LEMMA InitIInv == Init => IInv
<1> SUFFICES ASSUME Init PROVE IInv
  OBVIOUS
<1>1. 0 \in 0..MaxRows /\ 0 \in 0..MaxTime
  BY AuditAssumption
<1>2. TypeOK
  BY <1>1 DEF Init, TypeOK, PCs
<1>3. LockInv
  BY DEF Init, LockInv, InLock
<1>4. BackInv /\ OrderInv
  BY DEF Init, BackInv, PointsBack, OrderInv, Rows
<1>5. QED
  BY <1>2, <1>3, <1>4 DEF IInv

\* Without a clock fault the only latest row is the last one.
LEMMA LatestIsLast ==
  ASSUME IInv, ~ fault, count # 0 PROVE Latest = {count}
<1>1. count \in Rows /\ \A i \in Rows : i # count => i < count /\ createdAt[i] < createdAt[count]
  BY AuditAssumption DEF IInv, TypeOK, OrderInv, Rows
<1>2. \A i \in Rows : createdAt[i] \in Int
  BY AuditAssumption DEF IInv, TypeOK, Rows
<1>3. QED
  BY <1>1, <1>2 DEF Latest

\* What ReadLast reads is a committed row or the genesis.
LEMMA ReadIsBack ==
  ASSUME IInv, NEW w \in Writers, ReadLast(w)
  PROVE  /\ last' \in [Writers -> 0..MaxRows]
         /\ last'[w] <= count
         /\ ~ fault => last'[w] = count
<1>1. PICK i \in IF count = 0 THEN {0} ELSE Latest : last' = [last EXCEPT ![w] = i]
  BY DEF ReadLast
<1>2. count \in 0..MaxRows /\ i \in 0..count
  BY <1>1 DEF Latest, Rows, IInv, TypeOK
<1>3. ~ fault => i = count
  BY <1>1, LatestIsLast
<1>4. i \in 0..MaxRows
  BY <1>2, AuditAssumption
<1>5. QED
  BY <1>1, <1>2, <1>3, <1>4 DEF IInv, TypeOK

\* A commit extends the chain.
LEMMA CommitExtends == ASSUME IInv, NEW w \in Writers, Commit(w) PROVE IInv'
<1> USE AuditAssumption DEF IInv, TypeOK, Rows
<1>1. lock = w /\ count < MaxRows /\ pc[w] = "stamped"
  BY DEF Commit, LockInv, InLock
<1>2. count' = count + 1 /\ count' \in 1..MaxRows /\ lock' = NoWriter /\ last[w] <= count
  BY <1>1 DEF Commit, Finish, BackInv
<1>3. TypeOK'
  <2>1. count' \in 0..MaxRows /\ lock' \in Writers \cup {NoWriter} /\ UNCHANGED clock
    BY <1>2 DEF Commit
  <2>2. previous' \in [1..MaxRows -> 0..MaxRows] /\ createdAt' \in [1..MaxRows -> 0..MaxTime]
    BY DEF Commit
  <2>3. last' \in [Writers -> 0..MaxRows] /\ stamp' \in [Writers -> 0..MaxTime]
    BY DEF Commit, Finish
  <2>4. pc' \in [Writers -> PCs] /\ fault' \in BOOLEAN
    BY DEF Commit, Finish, PCs
  <2>5. QED
    BY <2>1, <2>2, <2>3, <2>4
<1>4. LockInv'
  BY <1>1 DEF Commit, Finish, LockInv, InLock
<1>5. previous' = [previous EXCEPT ![count + 1] = last[w]]
      /\ createdAt' = [createdAt EXCEPT ![count + 1] = stamp[w]]
      /\ \A i \in 1..count : previous'[i] = previous[i] /\ createdAt'[i] = createdAt[i]
      /\ previous'[count + 1] = last[w] /\ createdAt'[count + 1] = stamp[w]
  BY <1>1, <1>2 DEF Commit
<1>6. BackInv'
  <2>1. \A i \in 1..count' : previous'[i] < i
    BY <1>2, <1>5 DEF BackInv, PointsBack
  <2>2. \A v \in Writers : last'[v] <= count'
    BY <1>2 DEF Commit, Finish, BackInv
  <2>3. QED
    BY <2>1, <2>2 DEF BackInv, PointsBack
<1>7. ASSUME ~ fault'
      PROVE  /\ \A i, j \in 1..count' : i < j => createdAt'[i] < createdAt'[j]
             /\ \A i \in 1..count' : previous'[i] = i - 1
             /\ \A v \in Writers : pc'[v] \in {"read", "stamped"} => last'[v] = count'
  <2>1. ~ fault /\ \A i \in 1..count : createdAt[i] < stamp[w]
    <3>1. ~ fault /\ ~ \E i \in 1..count : createdAt[i] >= stamp[w]
      BY <1>7 DEF Commit
    <3>2. stamp[w] \in Int /\ \A i \in 1..count : createdAt[i] \in Int
      BY <1>1
    <3>3. QED
      BY <3>1, <3>2
  <2>2. last[w] = count
    BY <1>1, <2>1 DEF OrderInv
  <2>3. \A i, j \in 1..count' : i < j => createdAt'[i] < createdAt'[j]
    <3>1. SUFFICES ASSUME NEW i \in 1..count', NEW j \in 1..count', i < j
                   PROVE  createdAt'[i] < createdAt'[j]
      OBVIOUS
    <3>2. i \in 1..count /\ (j \in 1..count \/ j = count + 1)
      BY <1>2, <3>1
    <3>3. CASE j \in 1..count
      BY <1>5, <2>1, <3>1, <3>2, <3>3 DEF OrderInv
    <3>4. CASE j = count + 1
      BY <1>5, <2>1, <3>2, <3>4
    <3>5. QED
      BY <3>2, <3>3, <3>4
  <2>4. \A i \in 1..count' : previous'[i] = i - 1
    <3>1. SUFFICES ASSUME NEW i \in 1..count' PROVE previous'[i] = i - 1
      OBVIOUS
    <3>2. CASE i \in 1..count
      BY <1>5, <2>1, <3>2 DEF OrderInv
    <3>3. CASE i = count + 1
      <4>1. previous'[i] = count /\ count \in Int
        BY <1>2, <1>5, <2>2, <3>3
      <4>2. QED
        BY <3>3, <4>1
    <3>4. QED
      BY <1>2, <3>2, <3>3
  <2>5. \A v \in Writers : pc'[v] \notin {"read", "stamped"}
    BY <1>1 DEF Commit, Finish, LockInv, InLock
  <2>6. QED
    BY <2>3, <2>4, <2>5
<1>8. QED
  BY <1>3, <1>4, <1>6, <1>7 DEF OrderInv

\* The inductive invariant is inductive.
LEMMA NextIInv == IInv /\ [Next]_vars => IInv'
<1> SUFFICES ASSUME IInv, [Next]_vars PROVE IInv'
  OBVIOUS
<1> USE AuditAssumption DEF IInv, TypeOK, PCs, LockInv, InLock, BackInv, PointsBack,
        OrderInv, Rows, rows
<1>1. ASSUME NEW w \in Writers, Begin(w) PROVE IInv'
  BY <1>1 DEF Begin, GoTo
<1>2. ASSUME NEW w \in Writers, Lock(w) PROVE IInv'
  BY <1>2 DEF Lock, GoTo
<1>3. ASSUME NEW w \in Writers, ReadLast(w) PROVE IInv'
  BY <1>3, ReadIsBack DEF ReadLast, GoTo
<1>4. ASSUME NEW w \in Writers, Stamp(w) PROVE IInv'
  BY <1>4 DEF Stamp, GoTo
<1>5. ASSUME NEW w \in Writers, Commit(w) PROVE IInv'
  BY <1>5, CommitExtends
<1>6. ASSUME NEW w \in Writers, Rollback(w) PROVE IInv'
  <2>1. TypeOK'
    <3>1. 0 \in 0..MaxRows /\ 0 \in 0..MaxTime
      OBVIOUS
    <3>2. last' \in [Writers -> 0..MaxRows] /\ stamp' \in [Writers -> 0..MaxTime]
      BY <1>6, <3>1 DEF Rollback, Finish
    <3>3. pc' \in [Writers -> PCs] /\ lock' \in Writers \cup {NoWriter}
      BY <1>6 DEF Rollback, Finish
    <3>4. QED
      BY <1>6, <3>2, <3>3 DEF Rollback
  <2>2. LockInv' /\ BackInv'
    BY <1>6 DEF Rollback, Finish
  <2>3. UNCHANGED fault /\ \A v \in Writers :
          pc'[v] \in {"read", "stamped"} => pc[v] = pc'[v] /\ last'[v] = last[v]
    BY <1>6 DEF Rollback, Finish
  <2>4. OrderInv'
    BY <1>6, <2>3 DEF Rollback
  <2>5. QED
    BY <2>1, <2>2, <2>4
<1>7. ASSUME NEW h \in Hosts, Tick(h) \/ SetBack(h) PROVE IInv'
  <2>1. clock' \in [Hosts -> 0..MaxTime]
    <3>1. clock[h] \in 0..MaxTime
      OBVIOUS
    <3>2. CASE Tick(h)
      <4>1. clock[h] + 1 \in 0..MaxTime
        BY <3>1, <3>2 DEF Tick
      <4>2. QED
        BY <3>2, <4>1 DEF Tick
    <3>3. CASE SetBack(h)
      <4>1. clock[h] - 1 \in 0..MaxTime
        BY <3>1, <3>3 DEF SetBack
      <4>2. QED
        BY <3>3, <4>1 DEF SetBack
    <3>4. QED
      BY <1>7, <3>2, <3>3
  <2>2. UNCHANGED <<rows, lock, pc, last, stamp, fault>>
    BY <1>7 DEF Tick, SetBack
  <2>3. QED
    BY <2>1, <2>2
<1>8. CASE UNCHANGED vars
  BY <1>8 DEF vars
<1>9. QED
  BY <1>1, <1>2, <1>3, <1>4, <1>5, <1>6, <1>7, <1>8 DEF Next, Holding

\* It holds in every reachable state.
LEMMA Invariance == Spec => []IInv
  BY InitIInv, NextIInv, PTL DEF Spec

\* Type correctness.
THEOREM TypeCorrect == Spec => []TypeOK
<1>1. IInv => TypeOK
  BY DEF IInv
<1>2. QED
  BY <1>1, Invariance, PTL

\* One chain as long as createdAt grew with every row.
THEOREM LinearChain == Spec => []LinearUnlessClock
<1>1. IInv => LinearUnlessClock
  BY DEF IInv, OrderInv, LinearUnlessClock
<1>2. QED
  BY <1>1, Invariance, PTL

\* Every row leads back to the genesis, whatever the clocks do.
THEOREM BackToGenesis == Spec => []PointsBack
<1>1. IInv => PointsBack
  BY DEF IInv, BackInv
<1>2. QED
  BY <1>1, Invariance, PTL

-----------------------------------------------------------------------------
(* Transactions are serial                                                 *)

\* What a new row may point at.
Tails == IF count = 0 THEN {0} ELSE Latest

\* What a holder read is still a row to point at, whatever the clocks did.
TailInv == \A w \in Writers : pc[w] \in {"read", "stamped"} => last[w] \in Tails

\* The rows as AuditLog sees them.
Entry   == [previous : 0..MaxRows, createdAt : 0..MaxTime]
Entries == [i \in Rows |-> [previous |-> previous[i], createdAt |-> createdAt[i]]]

\* They are a sequence of count entries.
LEMMA EntriesFacts ==
  ASSUME TypeOK
  PROVE  /\ Entries \in Seq(Entry) /\ Len(Entries) = count
         /\ DOMAIN Entries = Rows
         /\ \A i \in Rows : Entries[i].createdAt = createdAt[i]
<1>1. count \in Nat /\ \A i \in Rows : i \in 1..MaxRows
  BY AuditAssumption DEF TypeOK, Rows
<1>2. \A i \in Rows : [previous |-> previous[i], createdAt |-> createdAt[i]] \in Entry
  BY <1>1 DEF TypeOK, Entry
<1>3. Entries \in [1..count -> Entry]
  BY <1>2 DEF Entries, Rows
<1>4. Entries \in Seq(Entry) /\ Len(Entries) = count
  BY <1>1, <1>3
<1>5. QED
  BY <1>4 DEF Entries, Rows

LEMMA EntriesSeq == TypeOK => Entries \in Seq(Entry) /\ Len(Entries) = count
BY EntriesFacts

\* AuditLog and AuditChain agree on what a new row may point at.
LEMMA TailsAgree ==
  ASSUME TypeOK
  PROVE  Tails = IF Entries = <<>> THEN {0} ELSE Log!Latest
<1>1. Entries = <<>> <=> count = 0
  BY EntriesFacts
<1>2. Log!Latest = Latest
  BY EntriesFacts DEF Log!Latest, Latest, Entries
<1>3. QED
  BY <1>1, <1>2 DEF Tails

\* What a holder read stays one of the latest rows until it commits.
LEMMA TailKept ==
  ASSUME IInv, TailInv, [Next]_vars
  PROVE  TailInv'
<1> USE DEF rows
<1>a. pc \in [Writers -> PCs] /\ last \in [Writers -> 0..MaxRows]
  BY DEF IInv, TypeOK
<1>1. ASSUME NEW w \in Writers, Begin(w) \/ Lock(w) PROVE TailInv'
  BY <1>1, <1>a DEF Begin, Lock, GoTo, TailInv, Tails, Latest, Rows
<1>2. ASSUME NEW w \in Writers, ReadLast(w) PROVE TailInv'
  <2>1. PICK i \in Tails : last' = [last EXCEPT ![w] = i]
    BY <1>2 DEF ReadLast, Tails
  <2>2. Tails' = Tails
    BY <1>2 DEF ReadLast, Tails, Latest, Rows
  <2>3. \A v \in Writers \ {w} : pc'[v] = pc[v]
    BY <1>2, <1>a DEF ReadLast, GoTo
  <2>4. QED
    BY <2>1, <2>2, <2>3, <1>a DEF TailInv
<1>3. ASSUME NEW w \in Writers, Stamp(w) PROVE TailInv'
  BY <1>3, <1>a DEF Stamp, GoTo, TailInv, Tails, Latest, Rows
<1>4. ASSUME NEW w \in Writers, Commit(w) PROVE TailInv'
  <2>1. \A v \in Writers : pc'[v] \notin {"read", "stamped"}
    BY <1>4, <1>a DEF Commit, Finish, IInv, LockInv, InLock
  <2>2. QED
    BY <2>1 DEF TailInv
<1>5. ASSUME NEW w \in Writers, Rollback(w) PROVE TailInv'
  <2>1. Tails' = Tails
    BY <1>5 DEF Rollback, Tails, Latest, Rows
  <2>2. \A v \in Writers : pc'[v] \in {"read", "stamped"} => pc'[v] = pc[v] /\ last'[v] = last[v]
    BY <1>5, <1>a DEF Rollback, Finish
  <2>3. QED
    BY <2>1, <2>2 DEF TailInv
<1>6. ASSUME (\E h \in Hosts : Tick(h) \/ SetBack(h)) \/ UNCHANGED vars PROVE TailInv'
  BY <1>6 DEF Tick, SetBack, vars, TailInv, Tails, Latest, Rows
<1>7. QED
  BY <1>1, <1>2, <1>3, <1>4, <1>5, <1>6 DEF Next, Holding

\* A commit appends an entry to the log.
LEMMA CommitAdds ==
  ASSUME IInv, TailInv, NEW w \in Writers, Commit(w)
  PROVE  Log!Next
<1>a. PICK t \in 0..MaxTime : t = stamp[w]
  BY DEF IInv, TypeOK
<1> DEFINE e == [previous |-> last[w], createdAt |-> t]
<1>1. /\ pc[w] = "stamped" /\ count' = count + 1
      /\ previous' = [previous EXCEPT ![count + 1] = last[w]]
      /\ createdAt' = [createdAt EXCEPT ![count + 1] = t]
  BY <1>a DEF Commit
<1>2. count < MaxRows /\ TypeOK /\ TypeOK'
  BY <1>1, CommitExtends DEF IInv, LockInv, InLock
<1>3. e \in Entry
  BY <1>2 DEF TypeOK, Entry
<1>4. count \in Nat /\ \A i \in 1..count : i \in 1..MaxRows /\ i # count + 1
  BY <1>2, AuditAssumption DEF TypeOK
<1>5. Entries' \in Seq(Entry) /\ Len(Entries') = count + 1
  <2>1. (Entries \in Seq(Entry) /\ Len(Entries) = count)'
    BY <1>2, EntriesSeq, PTL
  <2>2. QED
    BY <1>1, <2>1 DEF Entry
<1>6. /\ Append(Entries, e) \in Seq(Entry) /\ Len(Append(Entries, e)) = count + 1
      /\ \A i \in 1..count : Append(Entries, e)[i] = Entries[i]
      /\ Append(Entries, e)[count + 1] = e
  BY <1>2, <1>3, EntriesFacts, AppendProperties
<1>7. Entries' = [i \in 1..(count + 1) |-> [previous |-> previous'[i], createdAt |-> createdAt'[i]]]
  BY <1>1 DEF Entries, Rows
<1>8. \A i \in 1..count : Entries'[i] = Entries[i]
  BY <1>1, <1>2, <1>4, <1>7 DEF TypeOK, Entries, Rows
<1>9. Entries'[count + 1] = e
  <2>1. count + 1 \in 1..MaxRows /\ count + 1 \in 1..(count + 1)
    BY <1>2, <1>4, AuditAssumption
  <2>2. previous'[count + 1] = last[w] /\ createdAt'[count + 1] = t
    BY <1>1, <1>2, <2>1 DEF TypeOK
  <2>3. QED
    BY <1>7, <2>1, <2>2
<1>10. Entries' = Append(Entries, e)
  <2>1. \A i \in 1..(count + 1) : Entries'[i] = Append(Entries, e)[i]
    <3>1. \A i \in 1..(count + 1) : i \in 1..count \/ i = count + 1
      BY <1>4
    <3>2. QED
      BY <3>1, <1>6, <1>8, <1>9
  <2>2. QED
    BY <1>5, <1>6, <2>1, SeqEqual
<1>11. last[w] \in IF Entries = <<>> THEN {0} ELSE Log!Latest
  BY <1>1, <1>2, TailsAgree DEF TailInv
<1>12. Log!Add(t)
  BY <1>10, <1>11 DEF Log!Add, Entries
<1>13. QED
  BY <1>12 DEF Log!Next

\* Every step appends to the log or leaves it as it is.
LEMMA NextAdds ==
  ASSUME IInv, TailInv, [Next]_vars
  PROVE  Log!Next \/ UNCHANGED Entries
<1>1. ASSUME NEW w \in Writers, Commit(w) PROVE Log!Next
  BY <1>1, CommitAdds
<1>2. CASE UNCHANGED rows
  BY <1>2 DEF rows, Entries, Rows
<1>3. QED
  BY <1>1, <1>2 DEF Next, Holding, Begin, Lock, ReadLast, Stamp, Rollback, Tick, SetBack, vars, rows

\* The log is written as if every transaction were one step: an entry points at
\* one that was a latest when it was committed, also where clocks differ or are
\* set back, and no entry is ever changed or removed.
THEOREM Serial == Spec => Serialized
<1>1. Init => Entries = <<>> /\ TailInv
  BY DEF Init, Entries, Rows, TailInv
<1>2. IInv /\ TailInv /\ [Next]_vars => TailInv' /\ (Log!Next \/ UNCHANGED Entries)
  BY TailKept, NextAdds
<1>3. Entries = [i \in Rows |-> [previous |-> previous[i], createdAt |-> createdAt[i]]]
  BY DEF Entries
<1>4. Init => Log!Init
  BY <1>1, <1>3 DEF Log!Init
<1>5. IInv /\ TailInv /\ [Next]_vars =>
        Log!Next \/ UNCHANGED [i \in Rows |-> [previous |-> previous[i], createdAt |-> createdAt[i]]]
  BY <1>2 DEF Entries
<1>6. QED
  BY <1>1, <1>2, <1>4, <1>5, Invariance, PTL DEF Spec, Serialized, Log!Spec
=============================================================================
