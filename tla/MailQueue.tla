----------------------------- MODULE MailQueue -----------------------------
(***************************************************************************)
(* The mail queue: MailService adds a job per mail, and the mail processor *)
(* renders it and hands it to the SMTP server.  BullMQ repeats an attempt  *)
(* that threw, MaxAttempts in all, and hands out again the job of a worker *)
(* that died, MaxStalled times.  Neither knows whether the server had      *)
(* taken the mail when the answer was lost.                                *)
(*                                                                         *)
(* An attempt is one step: nothing else looks at its job.  The payload     *)
(* matters to nobody here: one that does not validate fails every time.    *)
(***************************************************************************)
EXTENDS Naturals

CONSTANTS
  Mails,        \* Mails the program may send.
  MaxAttempts,  \* attempts of DEFAULT_JOB_OPTIONS, 3 in the code.
  MaxStalled    \* Stalls after which BullMQ gives a job up, 1 by default.

ASSUME MailAssumption ==
  /\ MaxAttempts \in Nat \ {0}
  /\ MaxStalled \in Nat

VARIABLES
  job,     \* The state of a mail's job.
  tries,   \* attemptsMade: attempts that threw.
  stalls,  \* Attempts that ended with their worker.
  inbox    \* Mails the recipient has received, once or several times.

mailVars == <<job, tries, stalls, inbox>>

MailTypeOK ==
  /\ job \in [Mails -> {"none", "queued", "completed", "failed"}]
  /\ tries \in [Mails -> 0..MaxAttempts]
  /\ stalls \in [Mails -> 0..MaxStalled + 1]
  /\ inbox \subseteq Mails

MailInit ==
  /\ job = [m \in Mails |-> "none"]
  /\ tries = [m \in Mails |-> 0]
  /\ stalls = [m \in Mails |-> 0]
  /\ inbox = {}

Enqueue(m) ==
  /\ job[m] = "none"
  /\ job' = [job EXCEPT ![m] = "queued"]
  /\ UNCHANGED <<tries, stalls, inbox>>

\* The SMTP server may or may not have taken the mail before the attempt broke.
PerhapsTaken(m) == inbox' \in {inbox, inbox \cup {m}}

\* sendMail resolves.
Send(m) ==
  /\ job[m] = "queued"
  /\ inbox' = inbox \cup {m}
  /\ job' = [job EXCEPT ![m] = "completed"]
  /\ UNCHANGED <<tries, stalls>>

\* Mutant of Retry: the first attempt is not counted as one.
RetryOneMore(m) ==
  /\ job[m] = "queued"
  /\ tries[m] <= MaxAttempts
  /\ tries' = [tries EXCEPT ![m] = @ + 1]
  /\ PerhapsTaken(m)
  /\ UNCHANGED <<job, stalls>>

\* The attempt throws and another follows after the backoff.
Retry(m) ==
  /\ job[m] = "queued"
  /\ tries[m] + 1 < MaxAttempts
  /\ tries' = [tries EXCEPT ![m] = @ + 1]
  /\ PerhapsTaken(m)
  /\ UNCHANGED <<job, stalls>>

\* Mutant of GiveUp: the job is queued anew.
GiveUpNever(m) ==
  /\ job[m] = "queued"
  /\ tries[m] + 1 = MaxAttempts
  /\ tries' = [tries EXCEPT ![m] = 0]
  /\ PerhapsTaken(m)
  /\ UNCHANGED <<job, stalls>>

\* The last attempt throws.
GiveUp(m) ==
  /\ job[m] = "queued"
  /\ tries[m] + 1 = MaxAttempts
  /\ tries' = [tries EXCEPT ![m] = @ + 1]
  /\ job' = [job EXCEPT ![m] = "failed"]
  /\ PerhapsTaken(m)
  /\ UNCHANGED stalls

\* The worker dies, and the stalled check finds the job without a lock.
Stall(m) ==
  /\ job[m] = "queued"
  /\ stalls' = [stalls EXCEPT ![m] = @ + 1]
  /\ job' = [job EXCEPT ![m] = IF stalls[m] = MaxStalled THEN "failed" ELSE @]
  /\ PerhapsTaken(m)
  /\ UNCHANGED tries

Attempt(m) == Send(m) \/ Retry(m) \/ GiveUp(m) \/ Stall(m)
=============================================================================
