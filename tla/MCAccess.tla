------------------------------ MODULE MCAccess ------------------------------
(***************************************************************************)
(* Instances of Access for TLC.                                            *)
(***************************************************************************)
EXTENDS Access

CONSTANTS root, boss, user, acme

\* An administrator, an administrator of a tenant, and a name that is free.
MCStaff ==
  [u \in Users |->
    CASE u = root -> [roles |-> {"admin"}, tenant |-> NoTenant, flags |-> {"active"}]
      [] u = boss -> [roles |-> {"tenant-admin"}, tenant |-> acme, flags |-> {"active"}]
      [] OTHER    -> None]

MCGrants == {{"user"}, {"admin"}}
=============================================================================
