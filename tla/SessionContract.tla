--------------------------- MODULE SessionContract ---------------------------
(***************************************************************************)
(* What a login session promises its user, with no requests, no Redis and  *)
(* no interleaving: a session has one head token at a time, a token that   *)
(* was replaced never returns, only a token that was once head is handed   *)
(* out, and an ended session neither moves on nor hands out anything.      *)
(***************************************************************************)
CONSTANTS
  Sessions,
  Tokens,     \* The refresh tokens a session may have.
  NoToken     \* The head of a session that was never opened.

VARIABLES
  head,       \* The token that the session's next refresh must present.
  used,       \* The tokens that were head before.
  handed,     \* The tokens its client was given.
  ended       \* Sessions ended for good.

vars == <<head, used, handed, ended>>

Init ==
  /\ head = [s \in Sessions |-> NoToken]
  /\ used = [s \in Sessions |-> {}]
  /\ handed = [s \in Sessions |-> {}]
  /\ ended = {}

\* The session gets its first token.
Open(s, t) ==
  /\ head[s] = NoToken
  /\ s \notin ended
  /\ head' = [head EXCEPT ![s] = t]
  /\ UNCHANGED <<used, handed, ended>>

\* A fresh token replaces the head.
Advance(s, t) ==
  /\ head[s] # NoToken
  /\ s \notin ended
  /\ t \notin used[s] \cup {head[s]}
  /\ used' = [used EXCEPT ![s] = @ \cup {head[s]}]
  /\ head' = [head EXCEPT ![s] = t]
  /\ UNCHANGED <<handed, ended>>

\* A token that was once head is handed to the client.
HandOut(s, t) ==
  /\ s \notin ended
  /\ t \in used[s] \cup {head[s]}
  /\ handed' = [handed EXCEPT ![s] = @ \cup {t}]
  /\ UNCHANGED <<head, used, ended>>

\* Opened sessions are ended.
End(S) ==
  /\ \A s \in S : head[s] # NoToken
  /\ ended' = ended \cup S
  /\ UNCHANGED <<head, used, handed>>

Next ==
  \/ \E s \in Sessions, t \in Tokens : Open(s, t) \/ Advance(s, t) \/ HandOut(s, t)
  \/ \E S \in SUBSET Sessions : End(S)

Spec == Init /\ [][Next]_vars
=============================================================================
