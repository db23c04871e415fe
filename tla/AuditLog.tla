------------------------------ MODULE AuditLog ------------------------------
(***************************************************************************)
(* What the audit log is to whoever reads it, with no processes, no        *)
(* transactions and no lock: entries are appended one at a time, never     *)
(* changed or removed, and each points at an entry that has the greatest   *)
(* createdAt when it is appended.  The clock may show anything.            *)
(***************************************************************************)
EXTENDS Naturals, Sequences

CONSTANT Times  \* What a clock may show.

VARIABLE log    \* The entries, in the order they were appended.

Init == log = <<>>

Latest ==
  {i \in DOMAIN log : \A j \in DOMAIN log : log[j].createdAt <= log[i].createdAt}

\* An entry with the time t; the first one points at the genesis.
Add(t) ==
  \E i \in IF log = <<>> THEN {0} ELSE Latest :
    log' = Append(log, [previous |-> i, createdAt |-> t])

Next == \E t \in Times : Add(t)

Spec == Init /\ [][Next]_log
=============================================================================
