---------------------------- MODULE MCAuditChain ----------------------------
(***************************************************************************)
(* Instances of AuditChain for TLC: every other writer on its own host.    *)
(***************************************************************************)
EXTENDS AuditChain

CONSTANTS w1, w2, w3, h1, h2

MCWriters == {w1, w2, w3}
MCHosts   == {h1, h2}
MCHostOf  == [w \in MCWriters |-> IF w = w3 THEN h2 ELSE h1]
=============================================================================
