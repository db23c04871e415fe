-------------------------- MODULE SdkClientProofs ---------------------------
(***************************************************************************)
(* Proofs about SdkClient, for any number of tabs, calls, sessions, tokens *)
(* and retries, in a browser and in a native client.                       *)
(***************************************************************************)
EXTENDS SdkClient, TLAPS

\* What the slot of a call holds at each of its stages.
SlotsInv ==
  \A c \in Calls :
    /\ pc[c] # "idle" => home[c] \in Tabs
    /\ pc[c] = "waiting" => attempt[c] < MaxRetries
    /\ pc[c] \in Sharing => token[c] \in Tokens

\* The steps of a call.
OfCall(c) ==
  (\E t \in Tabs : Send(c, t)) \/ LoseRequest(c) \/ Proceed(c)

\* The steps of the application, the clock and other devices.
Outside ==
  \/ \E t \in Tabs, s \in Sessions : SignIn(t, s)
  \/ \E t \in Tabs : LogOut(t)
  \/ \E s \in Sessions : Revoke(s) \/ Lapse(s)
  \/ CookieExpires

\* Every step is of one of both kinds.
LEMMA StepKinds == Next => Outside \/ \E c \in Calls : OfCall(c)
BY DEF Next, Outside, OfCall

\* No token is None, and a tab is not None either.
LEMMA NoneFacts == None \notin Tokens /\ None \notin Tabs
BY NoneAssumption

\* The bounds are naturals.
LEMMA BoundFacts == MaxRetries \in Nat /\ MaxSessions \in Nat /\ MaxNumber \in Nat
BY SdkAssumption

\* A token is a record of a session and a number.
LEMMA TokenFacts ==
  ASSUME NEW k \in Tokens
  PROVE  /\ k.session \in Sessions /\ k.number \in 1..MaxNumber
         /\ k = [session |-> k.session, number |-> k.number]
BY DEF Tokens

-----------------------------------------------------------------------------
(* Types                                                                   *)

\* The steps outside of the calls keep the types.
LEMMA OutsideTypes ==
  ASSUME TypeOK, Outside
  PROVE  TypeOK'
<1> USE BoundFacts DEF TypeOK, slots
<1>1. ASSUME NEW t \in Tabs, NEW s \in Sessions, SignIn(t, s)
      PROVE  TypeOK'
  BY <1>1 DEF SignIn, Tokens
<1>2. ASSUME NEW t \in Tabs, LogOut(t)
      PROVE  TypeOK'
  BY <1>2 DEF LogOut
<1>3. ASSUME NEW s \in Sessions, Revoke(s)
      PROVE  TypeOK'
  BY <1>3 DEF Revoke
<1>4. ASSUME NEW s \in Sessions, Lapse(s)
      PROVE  TypeOK'
  BY <1>4 DEF Lapse
<1>5. CASE CookieExpires
  BY <1>5 DEF CookieExpires, server
<1>6. QED
  BY <1>1, <1>2, <1>3, <1>4, <1>5 DEF Outside

\* Every value pc takes is among those of its type.
LEMMA PCFacts ==
  PCs = {"idle", "sent", "handled", "denied", "waiting", "presenting",
         "rotating", "rotated", "storing", "reading", "refused"}
BY DEF PCs, Busy, Sharing

\* A step of a call keeps the types.
LEMMA CallTypes ==
  ASSUME TypeOK, SlotsInv, NEW c \in Calls, OfCall(c)
  PROVE  TypeOK'
<1> USE PCFacts DEF TypeOK, GoTo, server
<1>1. ASSUME NEW t \in Tabs, Send(c, t)
      PROVE  TypeOK'
  BY <1>1 DEF Send, Transmit
<1>2. CASE Run(c)
  BY <1>2 DEF Run
<1>3. CASE LoseRequest(c) \/ Answer(c) \/ Exhaust(c) \/ FailDenied(c)
  BY <1>3, BoundFacts DEF LoseRequest, Answer, Exhaust, FailDenied, End
<1>4. CASE Stumble(c)
  BY <1>4 DEF Stumble
<1>5. CASE Resend(c)
  <2>1. home[c] \in Tabs /\ attempt[c] < MaxRetries
    BY <1>5 DEF Resend, Transmit, SlotsInv
  <2>2. attempt[c] + 1 \in 0..MaxRetries
    BY <2>1, BoundFacts
  <2>3. QED
    BY <1>5, <2>1, <2>2 DEF Resend, Transmit
<1>6. CASE Deny(c) \/ DenyByHandler(c) \/ PresentNothing(c) \/ LookUp(c) \/ Reject(c)
  BY <1>6 DEF Deny, DenyByHandler, PresentNothing, LookUp, Reject
<1>7. CASE BeginRefresh(c)
  BY <1>7 DEF BeginRefresh
<1>8. CASE Present(c)
  <2>1. jar \in Tokens /\ jar.session \in Sessions
    BY <1>8, TokenFacts DEF Present
  <2>2. QED
    BY <1>8, <2>1 DEF Present
<1>9. CASE Rotate(c)
  <2> DEFINE s == token[c].session
  <2>1. s \in Sessions
    BY <1>9, TokenFacts DEF Rotate, SlotsInv, Sharing
  <2>2. current[s] + 1 \in 1..MaxNumber
    BY <1>9, <2>1, BoundFacts DEF Rotate
  <2>3. [session |-> s, number |-> current[s] + 1] \in Tokens
    BY <2>1, <2>2 DEF Tokens
  <2> DEFINE n == current[s] + 1
             k == [session |-> s, number |-> n]
  <2>4. /\ current' = [current EXCEPT ![s] = n]
        /\ token' = [token EXCEPT ![c] = k]
        /\ pc' = [pc EXCEPT ![c] = "rotated"]
        /\ UNCHANGED <<alive, lapsed, access, jar, refreshing, home, attempt, runs, excused>>
    BY <1>9 DEF Rotate
  <2>5. n \in 0..MaxNumber /\ k \in Tokens
    BY <2>2, <2>3, BoundFacts
  <2> HIDE DEF n, k, s
  <2>6. QED
    BY <2>4, <2>5
<1>10. CASE LoseRefresh(c)
  <2>1. token[c].session \in Sessions
    BY <1>10, TokenFacts DEF LoseRefresh, SlotsInv, Sharing
  <2>2. QED
    BY <1>10, <2>1 DEF LoseRefresh
<1>11. CASE Receive(c)
  <2>1. home[c] \in Tabs
    BY <1>11 DEF Receive, SlotsInv
  <2>2. QED
    BY <1>11, <2>1 DEF Receive
<1>12. CASE Store(c)
  <2>1. home[c] \in Tabs
    BY <1>12 DEF Store, Transmit, SlotsInv
  <2>2. QED
    BY <1>12, <2>1 DEF Store, Transmit
<1>13. CASE SignOut(c)
  <2>1. home[c] \in Tabs
    BY <1>13 DEF SignOut, End, SlotsInv
  <2>2. /\ refreshing' \in [Tabs -> BOOLEAN]
        /\ access' \in [Tabs -> Tokens \cup {None}]
        /\ jar' \in Tokens \cup {None}
    BY <1>13, <2>1 DEF SignOut
  <2>3. QED
    BY <1>13, <2>2, BoundFacts DEF SignOut, End
<1> HIDE DEF TypeOK, GoTo
<1>14. QED
  BY <1>1, <1>2, <1>3, <1>4, <1>5, <1>6, <1>7, <1>8, <1>9, <1>10, <1>11,
     <1>12, <1>13 DEF OfCall, Proceed

\* A step outside of the calls keeps what their slots hold.
LEMMA OutsideSlots ==
  ASSUME SlotsInv, Outside
  PROVE  SlotsInv'
BY DEF SlotsInv, Outside, SignIn, LogOut, Revoke, Lapse, CookieExpires, slots, Sharing

\* A step of a call keeps what the slots hold.
LEMMA CallSlots ==
  ASSUME TypeOK, SlotsInv, NEW c \in Calls, OfCall(c)
  PROVE  SlotsInv'
<1> USE PCFacts DEF TypeOK, SlotsInv, GoTo, Sharing
<1>1. ASSUME NEW t \in Tabs, Send(c, t)
      PROVE  SlotsInv'
  BY <1>1 DEF Send, Transmit
<1>2. CASE Run(c) \/ Deny(c) \/ DenyByHandler(c) \/ Stumble(c)
  BY <1>2 DEF Run, Deny, DenyByHandler, Stumble
<1>3. CASE LoseRequest(c) \/ Answer(c) \/ Exhaust(c) \/ FailDenied(c)
  BY <1>3 DEF LoseRequest, Answer, Exhaust, FailDenied, End
<1>4. CASE Resend(c)
  BY <1>4 DEF Resend, Transmit
<1>5. CASE PresentNothing(c) \/ LookUp(c) \/ Reject(c) \/ BeginRefresh(c)
  BY <1>5 DEF PresentNothing, LookUp, Reject, BeginRefresh
<1>6. CASE Present(c)
  BY <1>6 DEF Present
<1>7. CASE Rotate(c)
  <2> DEFINE s == token[c].session
  <2>1. s \in Sessions
    BY <1>7, TokenFacts DEF Rotate
  <2>2. current[s] + 1 \in 1..MaxNumber
    BY <1>7, <2>1, BoundFacts DEF Rotate
  <2>3. [session |-> s, number |-> current[s] + 1] \in Tokens
    BY <2>1, <2>2 DEF Tokens
  <2>4. QED
    BY <1>7, <2>3 DEF Rotate
<1>8. CASE LoseRefresh(c) \/ Receive(c)
  BY <1>8 DEF LoseRefresh, Receive
<1>9. CASE Store(c)
  BY <1>9 DEF Store, Transmit
<1>10. CASE SignOut(c)
  BY <1>10 DEF SignOut, End
<1>11. QED
  BY <1>1, <1>2, <1>3, <1>4, <1>5, <1>6, <1>7, <1>8, <1>9, <1>10
     DEF OfCall, Proceed

\* Both hold of every reachable state.
LEMMA Typed == Spec => [](TypeOK /\ SlotsInv)
<1>1. Init => TypeOK /\ SlotsInv
  BY PCFacts, BoundFacts, NoneFacts DEF Init, TypeOK, SlotsInv, Sharing
<1>2. TypeOK /\ SlotsInv /\ [Next]_vars => (TypeOK /\ SlotsInv)'
  <2>1. TypeOK /\ SlotsInv /\ Outside => (TypeOK /\ SlotsInv)'
    BY OutsideTypes, OutsideSlots
  <2>2. ASSUME TypeOK, SlotsInv, NEW c \in Calls, OfCall(c)
        PROVE  (TypeOK /\ SlotsInv)'
    BY <2>2, CallTypes, CallSlots
  <2>3. TypeOK /\ SlotsInv /\ UNCHANGED vars => (TypeOK /\ SlotsInv)'
    BY DEF TypeOK, SlotsInv, vars, Sharing
  <2>4. QED
    BY <2>1, <2>2, <2>3, StepKinds
<1>3. QED
  BY <1>1, <1>2, PTL DEF Spec

\* Every variable keeps its type: a call is retried maxRetries times at most.
THEOREM TypeCorrect == Spec => []TypeOK
BY Typed, PTL

-----------------------------------------------------------------------------
(* One refresh per tab                                                     *)

\* A step that leaves the flags alone and moves one call, which refreshes
\* after it exactly if it did before, keeps one refresh per tab.
LEMMA FlagsKept ==
  ASSUME OneRefreshPerTab, NEW c \in Calls,
         UNCHANGED refreshing,
         \A d \in Calls \ {c} : pc'[d] = pc[d] /\ home'[d] = home[d],
         pc'[c] \in Busy <=> pc[c] \in Busy,
         pc[c] \in Busy => home'[c] = home[c]
  PROVE  OneRefreshPerTab'
<1>1. \A d \in Calls : /\ pc'[d] \in Busy <=> pc[d] \in Busy
                       /\ pc[d] \in Busy => home'[d] = home[d]
  OBVIOUS
<1>2. QED
  BY <1>1 DEF OneRefreshPerTab

\* A step of a call keeps one refresh per tab.
LEMMA CallFlags ==
  ASSUME TypeOK, SlotsInv, OneRefreshPerTab, NEW c \in Calls, OfCall(c)
  PROVE  OneRefreshPerTab'
<1>a. /\ pc \in [Calls -> PCs] /\ refreshing \in [Tabs -> BOOLEAN]
      /\ home \in [Calls -> Tabs \cup {None}]
  BY DEF TypeOK
<1>b. pc[c] # "idle" => home[c] \in Tabs
  BY DEF SlotsInv
<1>c. {"idle", "sent", "handled", "denied", "waiting"} \cap Busy = {}
  BY DEF Busy, Sharing
<1>1. CASE \/ \E t \in Tabs : Send(c, t)
           \/ Run(c) \/ LoseRequest(c) \/ Answer(c) \/ Stumble(c) \/ Exhaust(c)
           \/ Resend(c) \/ Deny(c) \/ DenyByHandler(c) \/ FailDenied(c)
  <2>1. /\ UNCHANGED refreshing
        /\ \A d \in Calls \ {c} : pc'[d] = pc[d] /\ home'[d] = home[d]
        /\ pc[c] \notin Busy /\ pc'[c] \notin Busy
    BY <1>1, <1>a, <1>c DEF Send, Run, LoseRequest, Answer, Stumble, Exhaust,
       Resend, Deny, DenyByHandler, FailDenied, Transmit, End, GoTo
  <2>2. QED
    BY <2>1, FlagsKept
<1>2. CASE \/ Present(c) \/ PresentNothing(c) \/ LookUp(c) \/ Reject(c)
           \/ Rotate(c) \/ LoseRefresh(c) \/ Receive(c)
  <2>1. /\ UNCHANGED <<refreshing, home>>
        /\ \A d \in Calls \ {c} : pc'[d] = pc[d]
        /\ pc[c] \in Busy /\ pc'[c] \in Busy
    BY <1>2, <1>a DEF Present, PresentNothing, LookUp, Reject, Rotate,
       LoseRefresh, Receive, GoTo, Busy, Sharing
  <2>2. QED
    BY <2>1, FlagsKept
<1>3. CASE BeginRefresh(c)
  <2>1. /\ UNCHANGED home
        /\ pc[c] = "denied" /\ ~refreshing[home[c]]
        /\ refreshing' = [refreshing EXCEPT ![home[c]] = TRUE]
        /\ pc' = [pc EXCEPT ![c] = "reading"]
    BY <1>3 DEF BeginRefresh, GoTo
  <2>2. "reading" \in Busy
    BY DEF Busy
  <2>3. \A d \in Calls : pc[d] \in Busy => home[d] # home[c]
    BY <2>1, <1>b DEF OneRefreshPerTab
  <2>4. \A d \in Calls : pc'[d] \in Busy <=> d = c \/ pc[d] \in Busy
    BY <2>1, <2>2, <1>a
  <2>5. \A t \in Tabs : refreshing'[t] <=> t = home[c] \/ refreshing[t]
    BY <2>1, <1>a, <1>b
  <2>6. QED
    BY <2>1, <2>3, <2>4, <2>5 DEF OneRefreshPerTab
<1>4. CASE Store(c) \/ SignOut(c)
  <2>1. /\ pc[c] \in Busy /\ home[c] \in Tabs
        /\ refreshing' = [refreshing EXCEPT ![home[c]] = FALSE]
        /\ pc'[c] \notin Busy
        /\ \A d \in Calls \ {c} : pc'[d] = pc[d] /\ home'[d] = home[d]
    BY <1>4, <1>a, <1>b, <1>c
       DEF Store, SignOut, Transmit, End, GoTo, Busy, Sharing
  <2>2. \A d \in Calls : pc'[d] \in Busy <=> d # c /\ pc[d] \in Busy
    BY <2>1
  <2>3. \A t \in Tabs : refreshing'[t] <=> t # home[c] /\ refreshing[t]
    BY <2>1, <1>a
  <2>4. \A d \in Calls : d # c /\ pc[d] \in Busy => home[d] # home[c]
    BY <2>1 DEF OneRefreshPerTab
  <2>5. QED
    BY <2>1, <2>2, <2>3, <2>4 DEF OneRefreshPerTab
<1>5. QED
  BY <1>1, <1>2, <1>3, <1>4 DEF OfCall, Proceed

\* isRefreshing of a tab is set exactly while one of its calls refreshes.
THEOREM OneRefresh == Spec => []OneRefreshPerTab
<1>1. Init => OneRefreshPerTab
  BY DEF Init, OneRefreshPerTab, Busy, Sharing
<1>2. TypeOK /\ SlotsInv /\ OneRefreshPerTab /\ [Next]_vars => OneRefreshPerTab'
  <2>1. OneRefreshPerTab /\ Outside => OneRefreshPerTab'
    BY DEF Outside, OneRefreshPerTab, SignIn, LogOut, Revoke, Lapse,
       CookieExpires, slots, Busy, Sharing
  <2>2. OneRefreshPerTab /\ UNCHANGED vars => OneRefreshPerTab'
    BY DEF OneRefreshPerTab, vars, Busy, Sharing
  <2>3. QED
    BY <2>1, <2>2, CallFlags, StepKinds
<1>3. QED
  BY <1>1, <1>2, Typed, PTL DEF Spec

-----------------------------------------------------------------------------
(* Runs of the handler                                                     *)

\* Before the handler is run for an attempt, the runs are those of the
\* attempts before.
RunsInv ==
  \A c \in Calls \ Wrong :
    /\ runs[c] <= attempt[c] + 1
    /\ pc[c] \notin {"handled", "waiting"} => runs[c] <= attempt[c]

\* A step of a call keeps the count of the runs.
LEMMA CallRuns ==
  ASSUME TypeOK, SlotsInv, RunsInv, NEW c \in Calls, OfCall(c)
  PROVE  RunsInv'
<1>a. /\ pc \in [Calls -> PCs] /\ attempt \in [Calls -> 0..MaxRetries]
      /\ runs \in [Calls -> Nat] /\ MaxRetries \in Nat
  BY BoundFacts DEF TypeOK
<1> USE <1>a DEF RunsInv, GoTo
<1>1. CASE \E t \in Tabs : Send(c, t)
  BY <1>1 DEF Send, Transmit
<1>2. CASE Run(c)
  BY <1>2 DEF Run
<1>3. CASE LoseRequest(c) \/ Answer(c) \/ Exhaust(c) \/ FailDenied(c) \/ SignOut(c)
  BY <1>3 DEF LoseRequest, Answer, Exhaust, FailDenied, SignOut, End
<1>4. CASE Resend(c)
  BY <1>4 DEF Resend, Transmit
<1>5. CASE Stumble(c) \/ Deny(c) \/ DenyByHandler(c) \/ BeginRefresh(c)
  BY <1>5 DEF Stumble, Deny, DenyByHandler, BeginRefresh
<1>6. CASE \/ Present(c) \/ PresentNothing(c) \/ LookUp(c) \/ Reject(c)
           \/ Rotate(c) \/ LoseRefresh(c) \/ Receive(c)
  BY <1>6 DEF Present, PresentNothing, LookUp, Reject, Rotate, LoseRefresh, Receive
<1>7. CASE Store(c)
  BY <1>7 DEF Store, Transmit
<1> HIDE DEF RunsInv
<1>8. QED
  BY <1>1, <1>2, <1>3, <1>4, <1>5, <1>6, <1>7 DEF OfCall, Proceed

\* However often a request is sent again after a refresh, its handler is run
\* once per attempt at most.
THEOREM RunsCounted == Spec => []RunsPerAttempt
<1>1. Init => RunsInv
  BY DEF Init, RunsInv
<1>2. TypeOK /\ SlotsInv /\ RunsInv /\ [Next]_vars => RunsInv'
  <2>1. RunsInv /\ Outside => RunsInv'
    BY DEF Outside, RunsInv, SignIn, LogOut, Revoke, Lapse, CookieExpires, slots
  <2>2. RunsInv /\ UNCHANGED vars => RunsInv'
    BY DEF RunsInv, vars
  <2>3. QED
    BY <2>1, <2>2, CallRuns, StepKinds
<1>3. RunsInv => RunsPerAttempt
  BY DEF RunsInv, RunsPerAttempt
<1>4. QED
  BY <1>1, <1>2, <1>3, Typed, PTL DEF Spec

-----------------------------------------------------------------------------
(* Fresh tokens                                                            *)

\* Answers that will still write the jar.
Pending == IF Web THEN {"rotated"} ELSE {"rotated", "storing"}

\* A session that is not excused has one refresh under way at most, whose
\* token is the current one; and so is the jar's, if no answer is to come.
Fresh ==
  /\ \A c \in Calls :
       pc[c] \in Sharing /\ token[c].session \notin excused
         => token[c].number = current[token[c].session]
  /\ \A c, d \in Calls :
       /\ pc[c] \in Sharing /\ pc[d] \in Sharing
       /\ token[c].session = token[d].session /\ token[c].session \notin excused
       => c = d
  /\ jar # None /\ jar.session \notin excused
       => \/ jar.number = current[jar.session]
          \/ \E c \in Calls : pc[c] \in Pending /\ token[c].session = jar.session

\* An answer that is still to be stored is of a refresh under way.
LEMMA PendingFacts == Pending \subseteq Sharing /\ "rotated" \in Pending
BY DEF Pending, Sharing

\* Refreshes that end without an answer, and steps that leave them alone.
LEMMA FreshKept ==
  ASSUME Fresh, UNCHANGED current, excused \subseteq excused',
         jar' \in {jar, None},
         \A d \in Calls : pc'[d] \in Sharing => pc[d] \in Sharing /\ token'[d] = token[d],
         \A d \in Calls : pc[d] \in Pending =>
           \/ pc'[d] \in Pending /\ token'[d] = token[d]
           \/ token[d].session \in excused'
  PROVE  Fresh'
<1>1. \A c \in Calls :
        pc'[c] \in Sharing /\ token'[c].session \notin excused'
          => token'[c].number = current'[token'[c].session]
  BY DEF Fresh
<1>2. \A c, d \in Calls :
       /\ pc'[c] \in Sharing /\ pc'[d] \in Sharing
       /\ token'[c].session = token'[d].session /\ token'[c].session \notin excused'
       => c = d
  BY DEF Fresh
<1>3. ASSUME jar' # None, jar'.session \notin excused'
      PROVE  \/ jar'.number = current'[jar'.session]
             \/ \E c \in Calls : pc'[c] \in Pending /\ token'[c].session = jar'.session
  BY <1>3 DEF Fresh
<1>4. QED
  BY <1>1, <1>2, <1>3 DEF Fresh, Pending, Sharing

\* A step of a call keeps the tokens fresh.
LEMMA CallFresh ==
  ASSUME TypeOK, SlotsInv, OneRefreshPerTab, Fresh, NEW c \in Calls, OfCall(c)
  PROVE  Fresh'
<1>a. pc \in [Calls -> PCs] /\ token \in [Calls -> Tokens \cup {None}]
  BY DEF TypeOK
<1>b. {"idle", "sent", "handled", "denied", "waiting", "reading", "refused"} \cap Sharing = {}
  BY DEF Sharing
<1>1. CASE \/ \E t \in Tabs : Send(c, t)
           \/ Run(c) \/ LoseRequest(c) \/ Answer(c) \/ Stumble(c) \/ Exhaust(c)
           \/ Resend(c) \/ Deny(c) \/ DenyByHandler(c) \/ FailDenied(c)
           \/ BeginRefresh(c) \/ PresentNothing(c) \/ SignOut(c)
  <2>1. /\ UNCHANGED <<current, excused>> /\ jar' \in {jar, None}
        /\ \A d \in Calls \ {c} : pc'[d] = pc[d] /\ token'[d] = token[d]
        /\ pc[c] \notin Sharing /\ pc'[c] \notin Sharing
    BY <1>1, <1>a, <1>b DEF Send, Run, LoseRequest, Answer, Stumble, Exhaust,
       Resend, Deny, DenyByHandler, FailDenied, BeginRefresh, PresentNothing,
       SignOut, Transmit, End, GoTo, server
  <2>2. QED
    BY <2>1, FreshKept, PendingFacts
<1>2. CASE LookUp(c) \/ Reject(c)
  <2>1. /\ UNCHANGED <<current, excused, jar, token>>
        /\ \A d \in Calls \ {c} : pc'[d] = pc[d]
        /\ pc[c] = "presenting"
    BY <1>2, <1>a DEF LookUp, Reject, GoTo, server
  <2>2. "presenting" \in Sharing /\ "presenting" \notin Pending
    BY DEF Sharing, Pending
  <2>3. QED
    BY <2>1, <2>2, FreshKept
<1>3. CASE LoseRefresh(c)
  <2>1. /\ UNCHANGED <<current, jar, token>> /\ excused \subseteq excused'
        /\ \A d \in Calls \ {c} : pc'[d] = pc[d]
        /\ pc[c] \in {"presenting", "rotating", "rotated"}
        /\ pc'[c] = "refused"
        /\ pc[c] = "rotated" => token[c].session \in excused'
    BY <1>3, <1>a DEF LoseRefresh, server
  <2>2. "presenting" \notin Pending /\ "rotating" \notin Pending
    BY DEF Pending
  <2>3. QED
    BY <2>1, <2>2, <1>b, FreshKept
<1>4. CASE Present(c)
  <2>1. /\ UNCHANGED <<current, jar>>
        /\ excused' = excused \cup ({jar.session} \cap SharedWith(c))
        /\ pc[c] = "reading" /\ jar # None
        /\ pc' = [pc EXCEPT ![c] = "presenting"]
        /\ token' = [token EXCEPT ![c] = jar]
    BY <1>4 DEF Present, GoTo, server
  <2>2. \A d \in Calls : pc[d] \in Sharing => d # c /\ home[d] # home[c]
    BY <2>1, <1>b DEF OneRefreshPerTab, Busy
  <2>3. \A d \in Calls :
          pc[d] \in Sharing /\ token[d].session = jar.session => jar.session \in excused'
    <3> SUFFICES ASSUME NEW d \in Calls, pc[d] \in Sharing, token[d].session = jar.session
                 PROVE  jar.session \in excused'
      OBVIOUS
    <3>1. d \in {e \in Calls : home[e] # home[c] /\ pc[e] \in Sharing}
      BY <2>2
    <3>2. token[d].session \in SharedWith(c)
      BY <3>1 DEF SharedWith
    <3>3. QED
      BY <2>1, <3>2
  <2>4. \A d \in Calls : pc'[d] \in Sharing => d = c \/ (pc[d] \in Sharing /\ token'[d] = token[d])
    BY <2>1, <1>a
  <2>5. token'[c] = jar
    BY <2>1, <1>a
  <2>6. jar.session \notin excused' => jar.number = current[jar.session]
    BY <2>1, <2>3, PendingFacts DEF Fresh
  <2>7. \A d \in Calls :
        pc'[d] \in Sharing /\ token'[d].session \notin excused'
          => token'[d].number = current'[token'[d].session]
    BY <2>1, <2>4, <2>5, <2>6 DEF Fresh
  <2>8. \A d, e \in Calls :
       /\ pc'[d] \in Sharing /\ pc'[e] \in Sharing
       /\ token'[d].session = token'[e].session /\ token'[d].session \notin excused'
       => d = e
    BY <2>1, <2>3, <2>4, <2>5 DEF Fresh
  <2>9. QED
    BY <2>1, <2>6, <2>7, <2>8 DEF Fresh, Sharing
<1>5. CASE Rotate(c)
  <2> DEFINE s == token[c].session
             k == [session |-> s, number |-> current[s] + 1]
  <2>1. /\ UNCHANGED <<jar, excused>>
        /\ pc[c] \in Sharing
        /\ pc' = [pc EXCEPT ![c] = "rotated"]
        /\ current' = [current EXCEPT ![s] = current[s] + 1]
        /\ token' = [token EXCEPT ![c] = k]
    BY <1>5 DEF Rotate, GoTo, Sharing
  <2>2. s \in Sessions
    BY <2>1, TokenFacts DEF SlotsInv
  <2>3. /\ token'[c] = k /\ k.session = s /\ k.number = current'[s]
        /\ \A d \in Calls \ {c} : pc'[d] = pc[d] /\ token'[d] = token[d]
        /\ pc'[c] = "rotated"
    BY <2>1, <2>2, <1>a DEF TypeOK
  <2>4. \A d \in Calls \ {c} :
          pc[d] \in Sharing /\ token[d].session = s => s \in excused
    BY <2>1 DEF Fresh
  <2>5. \A r \in Sessions : r # s => current'[r] = current[r]
    BY <2>1, <2>2 DEF TypeOK
  <2>6. \A d \in Calls : pc[d] \in Sharing => token[d].session \in Sessions
    BY TokenFacts DEF SlotsInv
  <2>7. jar # None => jar.session \in Sessions
    BY TokenFacts DEF TypeOK
  <2>8. \A d \in Calls :
        pc'[d] \in Sharing /\ token'[d].session \notin excused'
          => token'[d].number = current'[token'[d].session]
    <3> HIDE DEF k, s
    <3>. QED  BY <2>1, <2>3, <2>4, <2>5, <2>6 DEF Fresh
  <2>9. \A d, e \in Calls :
       /\ pc'[d] \in Sharing /\ pc'[e] \in Sharing
       /\ token'[d].session = token'[e].session /\ token'[d].session \notin excused'
       => d = e
    <3> HIDE DEF k, s
    <3>. QED  BY <2>1, <2>3, <2>4 DEF Fresh
  <2>10. jar # None /\ jar.session \notin excused
           => \/ jar.number = current'[jar.session]
              \/ \E d \in Calls : pc'[d] \in Pending /\ token'[d].session = jar.session
    <3>1. CASE jar.session = s
      BY <3>1, <2>3, PendingFacts
    <3>2. CASE jar.session # s
      <4>1. \A d \in Calls : pc[d] \in Pending /\ token[d].session = jar.session => d # c
        BY <3>2
      <4> HIDE DEF k, s
      <4>. QED  BY <3>2, <4>1, <2>3, <2>5, <2>7 DEF Fresh
    <3>3. QED
      BY <3>1, <3>2
  <2>11. QED
    BY <2>1, <2>8, <2>9, <2>10 DEF Fresh, Sharing, Pending
<1>6. CASE Receive(c)
  <2>1. /\ UNCHANGED <<current, excused, token>>
        /\ pc[c] = "rotated"
        /\ \A d \in Calls \ {c} : pc'[d] = pc[d]
        /\ pc'[c] = "storing"
        /\ jar' = IF Web THEN token[c] ELSE jar
    BY <1>6, <1>a DEF Receive, GoTo, server
  <2>2. \A d \in Calls : pc'[d] \in Sharing <=> pc[d] \in Sharing
    BY <2>1 DEF Sharing
  <2>3. CASE Web
    <3>1. jar' = token[c] /\ pc[c] \in Sharing
      BY <2>1, <2>3 DEF Sharing
    <3>2. QED
      BY <2>1, <2>2, <3>1 DEF Fresh, Sharing, Pending
  <2>4. CASE ~Web
    <3>1. jar' = jar
      BY <2>1, <2>4
    <3>2. \A d \in Calls : pc'[d] \in Pending <=> pc[d] \in Pending
      BY <2>1, <2>4 DEF Pending
    <3>3. QED
      BY <2>1, <2>2, <3>1, <3>2 DEF Fresh, Sharing, Pending
  <2>5. QED
    BY <2>3, <2>4
<1>7. CASE Store(c)
  <2>1. /\ UNCHANGED <<current, excused>>
        /\ pc[c] = "storing"
        /\ \A d \in Calls \ {c} : pc'[d] = pc[d] /\ token'[d] = token[d]
        /\ pc'[c] = "sent"
        /\ jar' = IF Web THEN jar ELSE token[c]
    BY <1>7, <1>a DEF Store, Transmit, GoTo, server
  <2>2. pc[c] \in Sharing /\ pc'[c] \notin Sharing
    BY <2>1 DEF Sharing
  <2>3. CASE Web
    <3>1. jar' = jar /\ pc[c] \notin Pending
      BY <2>1, <2>3 DEF Pending
    <3>2. QED
      BY <2>1, <2>2, <3>1, FreshKept
  <2>4. CASE ~Web
    <3>1. jar' = token[c]
      BY <2>1, <2>4
    <3>2. QED
      BY <2>1, <2>2, <3>1 DEF Fresh, Sharing, Pending
  <2>5. QED
    BY <2>3, <2>4
<1>8. QED
  BY <1>1, <1>2, <1>3, <1>4, <1>5, <1>6, <1>7 DEF OfCall, Proceed

\* A step outside of the calls keeps the tokens fresh.
LEMMA OutsideFresh ==
  ASSUME TypeOK, SlotsInv, Fresh, Outside
  PROVE  Fresh'
<1>1. ASSUME NEW t \in Tabs, NEW s \in Sessions, SignIn(t, s)
      PROVE  Fresh'
  <2>1. /\ UNCHANGED <<pc, token, excused>>
        /\ current[s] = 0 /\ current' = [current EXCEPT ![s] = 1]
        /\ jar' = [session |-> s, number |-> 1]
    BY <1>1 DEF SignIn, slots
  <2>2. current'[s] = 1 /\ \A r \in Sessions : r # s => current'[r] = current[r]
    BY <2>1 DEF TypeOK
  <2>3. \A c \in Calls : pc[c] \in Sharing =>
          token[c].session \in Sessions /\ token[c].number \in 1..MaxNumber
    BY TokenFacts DEF SlotsInv
  <2>4. \A c \in Calls :
          pc[c] \in Sharing /\ token[c].session \notin excused => token[c].session # s
    BY <2>1, <2>3, BoundFacts DEF Fresh
  <2>5. jar'.number = current'[jar'.session]
    BY <2>1, <2>2
  <2>6. \A c \in Calls :
          pc[c] \in Sharing /\ token[c].session \notin excused
            => token[c].number = current'[token[c].session]
    BY <2>2, <2>3, <2>4 DEF Fresh
  <2>7. QED
    BY <2>1, <2>5, <2>6 DEF Fresh, Sharing
<1>2. CASE \/ \E t \in Tabs : LogOut(t)
           \/ \E s \in Sessions : Revoke(s) \/ Lapse(s)
           \/ CookieExpires
  <2>1. UNCHANGED <<current, pc, token, excused>> /\ jar' \in {jar, None}
    BY <1>2 DEF LogOut, Revoke, Lapse, CookieExpires, slots, server
  <2>2. QED
    BY <2>1, FreshKept
<1>3. QED
  BY <1>1, <1>2 DEF Outside

\* A refresh presents the current token of its session, unless an answer was
\* lost or two tabs refreshed at the same time.
THEOREM CurrentPresented == Spec => []PresentsCurrent
<1>1. Init => Fresh
  BY DEF Init, Fresh, Sharing
<1>2. TypeOK /\ SlotsInv /\ OneRefreshPerTab /\ Fresh /\ [Next]_vars => Fresh'
  <2>1. Fresh /\ UNCHANGED vars => Fresh'
    BY DEF Fresh, vars, Sharing, Pending
  <2>2. QED
    BY <2>1, CallFresh, OutsideFresh, StepKinds
<1>3. Fresh => PresentsCurrent
  BY DEF Fresh, PresentsCurrent, Sharing
<1>4. QED
  BY <1>1, <1>2, <1>3, Typed, OneRefresh, PTL DEF Spec

-----------------------------------------------------------------------------
(* The contract of a session                                               *)

VARIABLE given  \* History: the tokens that refreshes delivered, per session.

\* A refresh that has looked its token up, and will advance the session or
\* deliver the token it advanced to.
Working == {"rotating", "rotated", "storing"}

\* Numbers of the tokens of s that a step delivers: Receive is such a step.
\* The first token comes with the login itself.
Delivered(s) ==
  {token[c].number : c \in {d \in Calls : /\ pc[d] = "rotated" /\ pc'[d] = "storing"
                                          /\ token[d].session = s}}

\* SdkClient with a history that no step reads.
HistoryNext ==
  Next /\ given' = [s \in Sessions |-> given[s] \cup Delivered(s)]

HistorySpec ==
  /\ Init /\ given = [s \in Sessions |-> {}]
  /\ [][HistoryNext]_<<vars, given>>

\* Opened and revoked, with no refresh left that looked it up before.
Ended ==
  {s \in Sessions : /\ current[s] > 0 /\ s \notin alive
                    /\ \A c \in Calls : pc[c] \in Working => token[c].session # s}

Contract == INSTANCE SessionContract WITH
  Tokens <- 1..MaxNumber, NoToken <- 0,
  head <- current, used <- [s \in Sessions |-> {n \in 1..MaxNumber : n < current[s]}],
  handed <- given, ended <- Ended

-----------------------------------------------------------------------------
(* Refreshes keep the contract                                             *)

\* What SessionContract says of a session holds of the sessions of SdkClient.
KeepsContract == Contract!Spec

\* A refresh that looked its token up holds one that its session has had.
HeldInv ==
  \A c \in Calls :
    pc[c] \in Working =>
      /\ current[token[c].session] > 0
      /\ pc[c] # "rotating" => token[c].number <= current[token[c].session]

\* The history is a function of the sessions.
GivenType == given \in [Sessions -> SUBSET Nat]

\* A step that starts no refresh and takes no token number back.
LEMMA HeldKept ==
  ASSUME TypeOK, SlotsInv, HeldInv,
         current' \in [Sessions -> Nat], \A s \in Sessions : current[s] <= current'[s],
         \A d \in Calls : pc'[d] \in Working =>
           /\ pc[d] \in Working /\ token'[d] = token[d]
           /\ pc[d] # "rotating" \/ pc'[d] = "rotating"
  PROVE  HeldInv'
<1>1. SUFFICES ASSUME NEW d \in Calls, pc'[d] \in Working
               PROVE  /\ current'[token'[d].session] > 0
                      /\ pc'[d] # "rotating" => token'[d].number <= current'[token'[d].session]
  BY DEF HeldInv, Working
<1> DEFINE s == token[d].session
           n == token[d].number
<1>2. pc[d] \in Working /\ token'[d] = token[d] /\ (pc[d] # "rotating" \/ pc'[d] = "rotating")
  BY <1>1
<1>3. s \in Sessions /\ n \in Nat
  BY <1>2, TokenFacts, BoundFacts DEF SlotsInv, Working, Sharing
<1>4. current[s] > 0 /\ (pc[d] # "rotating" => n <= current[s])
  BY <1>2 DEF HeldInv
<1>5. current[s] \in Nat /\ current'[s] \in Nat /\ current[s] <= current'[s]
  BY <1>3, BoundFacts DEF TypeOK
<1> HIDE DEF s, n
<1>6. current'[s] > 0 /\ (pc'[d] # "rotating" => n <= current'[s])
  BY <1>2, <1>3, <1>4, <1>5
<1>7. QED
  BY <1>2, <1>6 DEF s, n

\* The numbers of the sessions are naturals.
LEMMA CurrentNat == TypeOK => current \in [Sessions -> Nat]
BY BoundFacts DEF TypeOK

\* Every step keeps what the refreshes hold.
LEMMA NextHeld ==
  ASSUME TypeOK, SlotsInv, HeldInv, Next
  PROVE  HeldInv'
<1>a. pc \in [Calls -> PCs] /\ token \in [Calls -> Tokens \cup {None}]
  BY DEF TypeOK
<1>b. current \in [Sessions -> Nat]
  BY CurrentNat
<1>1. CASE Outside
  <2>1. /\ UNCHANGED <<pc, token>>
        /\ \/ UNCHANGED current
           \/ \E s \in Sessions : current[s] = 0 /\ current' = [current EXCEPT ![s] = 1]
    BY <1>1 DEF Outside, SignIn, LogOut, Revoke, Lapse, CookieExpires, slots, server
  <2>2. current' \in [Sessions -> Nat] /\ \A s \in Sessions : current[s] <= current'[s]
    BY <2>1, <1>b
  <2>3. QED
    BY <2>1, <2>2, HeldKept
<1>2. ASSUME NEW c \in Calls, OfCall(c)
      PROVE  HeldInv'
  <2>1. CASE LookUp(c)
    <3>1. /\ pc[c] = "presenting" /\ pc' = [pc EXCEPT ![c] = "rotating"]
          /\ token[c].number = current[token[c].session]
          /\ UNCHANGED <<current, token>>
      BY <2>1 DEF LookUp, GoTo, server
    <3>2. token[c].number > 0
      BY <3>1, TokenFacts, BoundFacts DEF SlotsInv, Sharing
    <3>3. QED
      BY <3>1, <3>2, <1>a DEF HeldInv, Working
  <2>2. CASE Rotate(c)
    <3> DEFINE s == token[c].session
               k == [session |-> s, number |-> current[s] + 1]
    <3>1. /\ pc[c] = "rotating" /\ pc' = [pc EXCEPT ![c] = "rotated"]
          /\ current' = [current EXCEPT ![s] = current[s] + 1]
          /\ token' = [token EXCEPT ![c] = k]
      BY <2>2 DEF Rotate, GoTo
    <3>2. s \in Sessions
      BY <3>1, TokenFacts DEF SlotsInv, Sharing
    <3>3. current'[s] = current[s] + 1 /\ token'[c] = k /\ pc'[c] = "rotated"
      BY <3>1, <3>2, <1>a, <1>b DEF TypeOK
    <3>4. current' \in [Sessions -> Nat] /\ \A r \in Sessions : current[r] <= current'[r]
      BY <3>1, <3>2, <1>b
    <3>5. current[s] \in Nat /\ k.session = s /\ k.number = current[s] + 1
      BY <3>2, <1>b
    <3>6. ASSUME NEW d \in Calls, pc'[d] \in Working
          PROVE  /\ current'[token'[d].session] > 0
                 /\ pc'[d] # "rotating" => token'[d].number <= current'[token'[d].session]
      <4>1. CASE d = c
        <5> HIDE DEF s, k
        <5>. QED  BY <4>1, <3>3, <3>5
      <4>2. CASE d # c
        <5>1. pc'[d] = pc[d] /\ token'[d] = token[d] /\ pc[d] \in Working
          BY <4>2, <3>1, <1>a, <3>6
        <5>2. token[d].session \in Sessions /\ token[d].number \in Nat
          BY <5>1, TokenFacts, BoundFacts DEF SlotsInv, Working, Sharing
        <5>3. /\ current[token[d].session] > 0
              /\ pc[d] # "rotating" => token[d].number <= current[token[d].session]
          BY <5>1 DEF HeldInv
        <5>4. /\ current[token[d].session] \in Nat /\ current'[token[d].session] \in Nat
              /\ current[token[d].session] <= current'[token[d].session]
          BY <5>2, <3>4, <1>b
        <5>5. QED
          BY <5>1, <5>2, <5>3, <5>4
      <4>3. QED
        BY <4>1, <4>2
    <3>7. QED
      BY <3>6 DEF HeldInv, Working
  <2>3. CASE Receive(c) \/ LoseRefresh(c)
    <3>1. UNCHANGED <<current, token>>
      BY <2>3 DEF Receive, LoseRefresh, server
    <3>2. \A d \in Calls : pc'[d] \in Working =>
            /\ pc[d] \in Working
            /\ pc[d] # "rotating" \/ pc'[d] = "rotating"
      BY <2>3, <1>a DEF Receive, LoseRefresh, GoTo, Working
    <3>3. QED
      BY <3>1, <3>2, <1>b, HeldKept
  <2>4. CASE \/ \E t \in Tabs : Send(c, t)
             \/ Run(c) \/ LoseRequest(c) \/ Answer(c) \/ Stumble(c) \/ Exhaust(c)
             \/ Resend(c) \/ Deny(c) \/ DenyByHandler(c) \/ FailDenied(c)
             \/ BeginRefresh(c) \/ Present(c) \/ PresentNothing(c) \/ Reject(c)
             \/ Store(c) \/ SignOut(c)
    <3>1. /\ UNCHANGED current
          /\ \A d \in Calls \ {c} : pc'[d] = pc[d] /\ token'[d] = token[d]
          /\ pc'[c] \notin Working
      BY <2>4, <1>a DEF Send, Run, LoseRequest, Answer, Stumble, Exhaust, Resend,
         Deny, DenyByHandler, FailDenied, BeginRefresh, Present, PresentNothing,
         Reject, Store, SignOut, Transmit, End, GoTo, server, Working
    <3>2. QED
      BY <3>1, <1>b, HeldKept
  <2>5. QED
    BY <1>2, <2>1, <2>2, <2>3, <2>4 DEF OfCall, Proceed
<1>3. QED
  BY <1>1, <1>2, StepKinds

\* A step that moves no session on and delivers nothing may end some.
LEMMA MayEnd ==
  ASSUME UNCHANGED current, UNCHANGED given, Ended \subseteq Ended'
  PROVE  Contract!Next
<1> DEFINE gone == Ended' \ Ended
<1>1. gone \in SUBSET Sessions /\ \A s \in gone : current[s] # 0
  BY DEF Ended
<1>2. Ended' = Ended \cup gone
  OBVIOUS
<1> HIDE DEF gone
<1>3. Contract!End(gone)
  BY <1>1, <1>2 DEF Contract!End
<1>4. QED
  BY <1>1, <1>3 DEF Contract!Next

\* An ended session stays ended if refreshes start for live sessions only.
LEMMA EndedKept ==
  ASSUME UNCHANGED current, alive' \subseteq alive,
         \A d \in Calls : pc'[d] \in Working =>
           \/ pc[d] \in Working /\ token'[d] = token[d]
           \/ token'[d].session \in alive
  PROVE  Ended \subseteq Ended'
BY DEF Ended, Working

\* A step that is no Receive delivers nothing.
LEMMA NothingDelivered ==
  ASSUME GivenType, given' = [s \in Sessions |-> given[s] \cup Delivered(s)],
         \A d \in Calls : ~(pc[d] = "rotated" /\ pc'[d] = "storing")
  PROVE  UNCHANGED given
<1>1. \A s \in Sessions : Delivered(s) = {}
  BY DEF Delivered
<1>2. QED
  BY <1>1 DEF GivenType

\* A login opens a session.
LEMMA SignInOpens ==
  ASSUME TypeOK, UNCHANGED given, NEW t \in Tabs, NEW s \in Sessions, SignIn(t, s)
  PROVE  Contract!Next
<1>1. /\ current[s] = 0 /\ current' = [current EXCEPT ![s] = 1]
      /\ alive' = alive \cup {s}
      /\ UNCHANGED <<pc, token>> /\ 1 \in 1..MaxNumber
  BY BoundFacts DEF SignIn, slots
<1>2. current'[s] = 1 /\ \A r \in Sessions : r # s => current'[r] = current[r]
  BY <1>1 DEF TypeOK
<1>3. s \notin Ended
  BY <1>1 DEF Ended
<1>4. Ended' = Ended
  BY <1>1, <1>2, <1>3 DEF Ended, Working
<1>5. \A r \in Sessions :
        {n \in 1..MaxNumber : n < current'[r]} = {n \in 1..MaxNumber : n < current[r]}
  BY <1>1, <1>2
<1>6. Contract!Open(s, 1)
  BY <1>1, <1>3, <1>4, <1>5 DEF Contract!Open
<1>7. QED
  BY <1>1, <1>6 DEF Contract!Next

\* The next number advances a session that has not ended.
LEMMA Advances ==
  ASSUME TypeOK, UNCHANGED given, Ended' = Ended,
         NEW CONSTANT s \in Sessions, NEW CONSTANT n \in 1..MaxNumber,
         current[s] > 0, n = current[s] + 1, s \notin Ended,
         current' = [current EXCEPT ![s] = n]
  PROVE  Contract!Next
<1>1. current \in [Sessions -> Nat] /\ current[s] \in 1..MaxNumber
  BY CurrentNat, BoundFacts
<1>2. current'[s] = n /\ \A r \in Sessions : r # s => current'[r] = current[r]
  BY <1>1
<1>3. {m \in 1..MaxNumber : m < n} = {m \in 1..MaxNumber : m < current[s]} \cup {current[s]}
  BY <1>1
<1>4. \A r \in Sessions :
        {m \in 1..MaxNumber : m < current'[r]}
          = IF r = s THEN {m \in 1..MaxNumber : m < current[r]} \cup {current[r]}
                     ELSE {m \in 1..MaxNumber : m < current[r]}
  BY <1>2, <1>3
<1>5. [r \in Sessions |-> {m \in 1..MaxNumber : m < current'[r]}]
        = [[r \in Sessions |-> {m \in 1..MaxNumber : m < current[r]}]
             EXCEPT ![s] = @ \cup {current[s]}]
  BY <1>4
<1>6. n \notin {m \in 1..MaxNumber : m < current[s]} \cup {current[s]} /\ current[s] # 0
  BY <1>1
<1>7. Contract!Advance(s, n)
  BY <1>5, <1>6 DEF Contract!Advance
<1>8. QED
  BY <1>7 DEF Contract!Next

\* An update of the server's row advances its session.
LEMMA RotateAdvances ==
  ASSUME TypeOK, SlotsInv, HeldInv, UNCHANGED given, NEW c \in Calls, Rotate(c)
  PROVE  Contract!Next
<1>1. PICK s \in Sessions : s = token[c].session
  BY TokenFacts DEF Rotate, GoTo, SlotsInv, Sharing
<1>2. PICK n \in 1..MaxNumber : n = current[s] + 1
  BY <1>1, CurrentNat, BoundFacts DEF Rotate
<1>3. /\ pc[c] = "rotating" /\ pc' = [pc EXCEPT ![c] = "rotated"]
      /\ current' = [current EXCEPT ![s] = n]
      /\ token' = [token EXCEPT ![c] = [session |-> s, number |-> n]]
      /\ UNCHANGED alive
  BY <1>1, <1>2 DEF Rotate, GoTo
<1>4. current[s] > 0 /\ current \in [Sessions -> Nat]
  BY <1>1, <1>3, CurrentNat DEF HeldInv, Working
<1>5. \A d \in Calls : /\ pc'[d] \in Working <=> pc[d] \in Working
                       /\ token'[d].session = token[d].session
  BY <1>1, <1>3 DEF TypeOK, Working
<1>6. s \notin Ended
  BY <1>1, <1>3 DEF Ended, Working
<1>7. \A r \in Sessions : current'[r] > 0 <=> current[r] > 0
  BY <1>2, <1>3, <1>4
<1>8. Ended' = Ended
  BY <1>3, <1>5, <1>7 DEF Ended, Working
<1>9. QED
  BY <1>2, <1>3, <1>4, <1>6, <1>8, Advances

\* An answer that arrives hands its token out.
LEMMA ReceiveHandsOut ==
  ASSUME TypeOK, SlotsInv, HeldInv, GivenType, NEW c \in Calls, Receive(c),
         given' = [s \in Sessions |-> given[s] \cup Delivered(s)]
  PROVE  Contract!Next
<1> DEFINE s == token[c].session
           n == token[c].number
<1>1. /\ pc[c] = "rotated" /\ pc' = [pc EXCEPT ![c] = "storing"]
      /\ UNCHANGED <<current, alive, token>>
  BY DEF Receive, GoTo, server
<1>2. s \in Sessions /\ n \in 1..MaxNumber
  BY <1>1, TokenFacts DEF SlotsInv, Sharing
<1>3. n <= current[s] /\ current[s] \in Nat
  BY <1>1, <1>2, CurrentNat DEF HeldInv, Working
<1>4. \A d \in Calls : pc[d] = "rotated" /\ pc'[d] = "storing" <=> d = c
  BY <1>1 DEF TypeOK
<1>5. Delivered(s) = {n} /\ \A r \in Sessions : r # s => Delivered(r) = {}
  BY <1>4 DEF Delivered
<1>6. \A d \in Calls : pc'[d] \in Working <=> pc[d] \in Working
  BY <1>1 DEF TypeOK, Working
<1>7. s \notin Ended
  BY <1>1 DEF Ended, Working
<1>8. Ended' = Ended
  BY <1>1, <1>6 DEF Ended, Working
<1> HIDE DEF s, n
<1>9. given' = [given EXCEPT ![s] = @ \cup {n}]
  BY <1>2, <1>5 DEF GivenType
<1>10. n \in {m \in 1..MaxNumber : m < current[s]} \cup {current[s]}
  BY <1>2, <1>3
<1>11. Contract!HandOut(s, n)
  BY <1>1, <1>2, <1>7, <1>8, <1>9, <1>10 DEF Contract!HandOut
<1>12. QED
  BY <1>2, <1>11 DEF Contract!Next

\* Every step of the client and its server is a step of the contract, or none.
LEMMA NextKeepsContract ==
  ASSUME TypeOK, SlotsInv, HeldInv, GivenType, [HistoryNext]_<<vars, given>>
  PROVE  [Contract!Next]_(Contract!vars)
<1>1. CASE UNCHANGED <<vars, given>>
  BY <1>1 DEF vars, Contract!vars, Ended, Working
<1> SUFFICES ASSUME HistoryNext
             PROVE  Contract!Next
  BY <1>1
<1>a. Next /\ given' = [s \in Sessions |-> given[s] \cup Delivered(s)]
  BY DEF HistoryNext
<1>b. pc \in [Calls -> PCs] /\ token \in [Calls -> Tokens \cup {None}]
  BY DEF TypeOK
<1>2. ASSUME NEW t \in Tabs, NEW s \in Sessions, SignIn(t, s)
      PROVE  Contract!Next
  <2>1. UNCHANGED pc
    BY <1>2 DEF SignIn, slots
  <2>2. UNCHANGED given
    BY <2>1, <1>a, NothingDelivered
  <2>3. QED
    BY <1>2, <2>2, SignInOpens
<1>3. CASE \/ \E t \in Tabs : LogOut(t)
           \/ \E s \in Sessions : Revoke(s) \/ Lapse(s)
           \/ CookieExpires
  <2>1. UNCHANGED <<current, pc, token>> /\ alive' \subseteq alive
    BY <1>3 DEF LogOut, Revoke, Lapse, CookieExpires, slots, server
  <2>2. UNCHANGED given
    BY <2>1, <1>a, NothingDelivered
  <2>3. QED
    BY <2>1, <2>2, EndedKept, MayEnd
<1>4. ASSUME NEW c \in Calls, OfCall(c)
      PROVE  Contract!Next
  <2>1. CASE Rotate(c)
    <3>1. \A d \in Calls : ~(pc[d] = "rotated" /\ pc'[d] = "storing")
      BY <2>1, <1>b DEF Rotate, GoTo
    <3>2. UNCHANGED given
      BY <3>1, <1>a, NothingDelivered
    <3>3. QED
      BY <2>1, <3>2, RotateAdvances
  <2>2. CASE Receive(c)
    BY <2>2, <1>a, ReceiveHandsOut
  <2>3. CASE LookUp(c)
    <3>1. /\ UNCHANGED <<current, alive, token>>
          /\ token[c].session \in alive
          /\ pc' = [pc EXCEPT ![c] = "rotating"]
      BY <2>3 DEF LookUp, GoTo, server
    <3>2. UNCHANGED given
      BY <3>1, <1>a, <1>b, NothingDelivered
    <3>3. \A d \in Calls : pc'[d] \in Working =>
            \/ pc[d] \in Working /\ token'[d] = token[d]
            \/ token'[d].session \in alive
      BY <3>1, <1>b
    <3>4. QED
      BY <3>1, <3>2, <3>3, EndedKept, MayEnd
  <2>4. CASE \/ \E t \in Tabs : Send(c, t)
             \/ Run(c) \/ LoseRequest(c) \/ Answer(c) \/ Stumble(c) \/ Exhaust(c)
             \/ Resend(c) \/ Deny(c) \/ DenyByHandler(c) \/ FailDenied(c)
             \/ BeginRefresh(c) \/ Present(c) \/ PresentNothing(c) \/ Reject(c)
             \/ LoseRefresh(c) \/ Store(c) \/ SignOut(c)
    <3>1. /\ UNCHANGED <<current, alive>>
          /\ \A d \in Calls \ {c} : pc'[d] = pc[d] /\ token'[d] = token[d]
          /\ pc'[c] \notin Working
      BY <2>4, <1>b DEF Send, Run, LoseRequest, Answer, Stumble, Exhaust, Resend,
         Deny, DenyByHandler, FailDenied, BeginRefresh, Present, PresentNothing,
         Reject, LoseRefresh, Store, SignOut, Transmit, End, GoTo, server, Working
    <3>2. pc'[c] # "storing"
      BY <3>1 DEF Working
    <3>3. UNCHANGED given
      BY <3>1, <3>2, <1>a, NothingDelivered
    <3>4. QED
      BY <3>1, <3>3, EndedKept, MayEnd
  <2>5. QED
    BY <1>4, <2>1, <2>2, <2>3, <2>4 DEF OfCall, Proceed
<1>5. QED
  BY <1>a, <1>2, <1>3, <1>4, StepKinds DEF Outside

\* The delivered numbers are those of tokens.
LEMMA NextGiven ==
  ASSUME SlotsInv, GivenType, HistoryNext
  PROVE  GivenType'
<1>1. \A s \in Sessions : Delivered(s) \subseteq Nat
  BY TokenFacts, BoundFacts DEF Delivered, SlotsInv, Sharing
<1>2. QED
  BY <1>1 DEF GivenType, HistoryNext

\* With several tabs, lost answers and revocations from elsewhere, the refreshes
\* of SdkClient implement the contract of a session that Sessions implements
\* too: a session has one head, a number that was replaced never returns, a
\* refresh delivers only a number its session has had, and once a session is
\* revoked and the refreshes that looked it up before are over, it neither
\* moves on nor delivers anything.
THEOREM ClientKeepsContract == HistorySpec => KeepsContract
<1>1. Init /\ given = [s \in Sessions |-> {}] => Contract!Init
  <2>1. SUFFICES ASSUME Init, given = [s \in Sessions |-> {}]
                 PROVE  Contract!Init
    OBVIOUS
  <2>2. current = [s \in Sessions |-> 0]
    BY <2>1 DEF Init
  <2>3. \A s \in Sessions : {n \in 1..MaxNumber : n < current[s]} = {}
    BY <2>2
  <2>4. Ended = {}
    BY <2>2 DEF Ended
  <2>5. QED
    BY <2>1, <2>2, <2>3, <2>4 DEF Contract!Init
<1>2. Init /\ given = [s \in Sessions |-> {}] => HeldInv /\ GivenType
  BY DEF Init, HeldInv, GivenType, Working
<1>3. TypeOK /\ SlotsInv /\ HeldInv /\ GivenType /\ [HistoryNext]_<<vars, given>>
        => (HeldInv /\ GivenType)'
  <2>1. HeldInv /\ GivenType /\ UNCHANGED <<vars, given>> => (HeldInv /\ GivenType)'
    BY DEF HeldInv, GivenType, vars, Working
  <2>2. QED
    BY <2>1, NextHeld, NextGiven DEF HistoryNext
<1>4. [HistoryNext]_<<vars, given>> => [Next]_vars
  BY DEF HistoryNext
<1>5. HistorySpec => Spec
  BY <1>4, PTL DEF HistorySpec, Spec
<1>6. QED
  BY <1>1, <1>2, <1>3, <1>5, Typed, NextKeepsContract, PTL
     DEF HistorySpec, KeepsContract, Contract!Spec
=============================================================================
