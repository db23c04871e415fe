----------------------------- MODULE MCPostings -----------------------------
(* Two requests, two codes and a clock that moves once. *)
EXTENDS Postings

CONSTANTS r1, r2

MCRequests == {r1, r2}
MCMails    == 1..2
=============================================================================
