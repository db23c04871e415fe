----------------------------- MODULE MCWebhooks -----------------------------
(***************************************************************************)
(* Instances of Webhooks for TLC.  Workers are interchangeable, and so are *)
(* events.  The symmetry is for runs without a temporal property.          *)
(***************************************************************************)
EXTENDS Webhooks, TLC

Symmetry == Permutations(Workers) \cup Permutations(Events)
=============================================================================
