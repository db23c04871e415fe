----------------------------- MODULE SdkClient ------------------------------
(***************************************************************************)
(* The HTTP client and the token manager of the React SDK, against the     *)
(* refresh endpoint of the API and an unreliable network.                  *)
(*                                                                         *)
(* A tab is an AllServicesClient with a TokenManager: it keeps its access  *)
(* token in memory.  The refresh token is in the jar all tabs share: the   *)
(* cookie of a browser (Web) or the storage of a native client.  A call is *)
(* one request() in flight.  A token is the session it belongs to and its  *)
(* number in it; an access token and the refresh token it is issued with   *)
(* have the same number.                                                   *)
(*                                                                         *)
(* Sessions models the server's side of a refresh in detail: here it looks *)
(* the token up in one step and replaces it in a later one.  All writes go *)
(* to the primary, and retryOnPrimary is left out: it waits for            *)
(* SERVICE_READ_ONLY, which only a guard that is not registered sends.     *)
(* requestBlob and uploadWithProgress neither refresh nor retry.           *)
(***************************************************************************)
EXTENDS Naturals, FiniteSets

CONSTANTS
  Tabs,        \* Clients that share a cookie or a storage.
  Calls,       \* Slots for calls.
  Wrong,       \* Calls whose handler may answer 401, as to a wrong password.
  Web,         \* The jar is the cookie of a browser.
  None,        \* No token, and no tab.
  MaxRetries,  \* RetryConfig.maxRetries.
  MaxSessions, \* Bound on the logins.
  MaxNumber    \* Bound on the tokens of a session.

ASSUME SdkAssumption ==
  /\ Wrong \subseteq Calls
  /\ Web \in BOOLEAN
  /\ MaxRetries \in Nat /\ MaxSessions \in Nat /\ MaxNumber \in Nat

Sessions == 1..MaxSessions
Tokens   == [session : Sessions, number : 1..MaxNumber]

ASSUME NoneAssumption == None \notin Tokens \cup Tabs

VARIABLES
  current,     \* Number of the refresh token a session accepts; 0: not opened.
  alive,       \* Sessions that are not revoked.
  lapsed,      \* Number up to which the access tokens of a session expired.
  access,      \* Access token of a tab.
  jar,         \* The refresh token.
  refreshing,  \* isRefreshing of a tab.
  pc,          \* What a call waits for.
  home,        \* Tab of a call.
  token,       \* Token a call sent, presented or received.
  attempt,     \* Retries of a call so far.
  runs,        \* History: times the handler of a call was run, but for Wrong.
  excused      \* History: sessions that lost an answer or that two tabs
               \* refreshed at the same time.

server == <<current, alive, lapsed>>
slots  == <<pc, home, token, attempt, runs>>
vars   == <<current, alive, lapsed, access, jar, refreshing, pc, home, token,
            attempt, runs, excused>>

\* A refresh that has read its token, and one its tab has still to finish.
Sharing == {"presenting", "rotating", "rotated", "storing"}
Busy    == Sharing \cup {"reading", "refused"}
PCs     == {"idle", "sent", "handled", "denied", "waiting"} \cup Busy

TypeOK ==
  /\ current \in [Sessions -> 0..MaxNumber]
  /\ alive \subseteq Sessions
  /\ lapsed \in [Sessions -> 0..MaxNumber]
  /\ access \in [Tabs -> Tokens \cup {None}]
  /\ jar \in Tokens \cup {None}
  /\ refreshing \in [Tabs -> BOOLEAN]
  /\ pc \in [Calls -> PCs]
  /\ home \in [Calls -> Tabs \cup {None}]
  /\ token \in [Calls -> Tokens \cup {None}]
  /\ attempt \in [Calls -> 0..MaxRetries]
  /\ runs \in [Calls -> Nat]
  /\ excused \subseteq Sessions

Init ==
  /\ current = [s \in Sessions |-> 0]
  /\ alive = {}
  /\ lapsed = [s \in Sessions |-> 0]
  /\ access = [t \in Tabs |-> None]
  /\ jar = None
  /\ refreshing = [t \in Tabs |-> FALSE]
  /\ pc = [c \in Calls |-> "idle"]
  /\ home = [c \in Calls |-> None]
  /\ token = [c \in Calls |-> None]
  /\ attempt = [c \in Calls |-> 0]
  /\ runs = [c \in Calls |-> 0]
  /\ excused = {}

GoTo(c, from, to) == pc[c] = from /\ pc' = [pc EXCEPT ![c] = to]

\* The promise of the call is settled.
End(c, from) ==
  /\ GoTo(c, from, "idle")
  /\ home' = [home EXCEPT ![c] = None]
  /\ token' = [token EXCEPT ![c] = None]
  /\ attempt' = [attempt EXCEPT ![c] = 0]
  /\ runs' = [runs EXCEPT ![c] = 0]

\* JwtStrategy.validate lets the request pass.
Valid(k) == k # None /\ k.session \in alive /\ k.number > lapsed[k.session]

-----------------------------------------------------------------------------
(* executeRequest and withRetry                                            *)

\* The headers are built and the request is sent.
Transmit(c, t, from) ==
  /\ GoTo(c, from, "sent")
  /\ token' = [token EXCEPT ![c] = access[t]]

Send(c, t) ==
  /\ Transmit(c, t, "idle")
  /\ home' = [home EXCEPT ![c] = t]
  /\ UNCHANGED <<server, access, jar, refreshing, attempt, runs, excused>>

\* The guard lets the request pass, and the handler is run.
Run(c) ==
  /\ GoTo(c, "sent", "handled")
  /\ Valid(token[c])
  /\ runs' = IF c \in Wrong THEN runs ELSE [runs EXCEPT ![c] = @ + 1]
  /\ UNCHANGED <<server, access, jar, refreshing, home, token, attempt, excused>>

\* A network error, a timeout of the client, or an error that a proxy sent:
\* nothing is known of the handler, and the call is not retried.
LoseRequest(c) ==
  /\ End(c, "sent")
  /\ UNCHANGED <<server, access, jar, refreshing, excused>>

\* The handler's answer, other than 401 or a retryable status, or its loss.
Answer(c) ==
  /\ End(c, "handled")
  /\ UNCHANGED <<server, access, jar, refreshing, excused>>

\* Mutant of Stumble: one retry more than maxRetries.
StumbleOneMore(c) ==
  /\ attempt[c] <= MaxRetries
  /\ GoTo(c, "sent", "waiting") \/ GoTo(c, "handled", "waiting")
  /\ UNCHANGED <<server, access, jar, refreshing, home, token, attempt, runs, excused>>

\* A retryable status: 429 or 503 before the handler is run, or 408 of the
\* TimeoutInterceptor and 5xx after it was.
Stumble(c) ==
  /\ attempt[c] < MaxRetries
  /\ GoTo(c, "sent", "waiting") \/ GoTo(c, "handled", "waiting")
  /\ UNCHANGED <<server, access, jar, refreshing, home, token, attempt, runs, excused>>

\* The same at the last attempt.
Exhaust(c) ==
  /\ attempt[c] = MaxRetries
  /\ End(c, "sent") \/ End(c, "handled")
  /\ UNCHANGED <<server, access, jar, refreshing, excused>>

\* Mutant of Resend: the attempt is not counted.
ResendUncounted(c) ==
  /\ Transmit(c, home[c], "waiting")
  /\ UNCHANGED <<server, access, jar, refreshing, home, attempt, runs, excused>>

\* The delay of withRetry has passed.
Resend(c) ==
  /\ Transmit(c, home[c], "waiting")
  /\ attempt' = [attempt EXCEPT ![c] = @ + 1]
  /\ UNCHANGED <<server, access, jar, refreshing, home, runs, excused>>

\* Mutant of Deny: the guard is asked after the handler was run.
DenyAfterRun(c) ==
  /\ GoTo(c, "sent", "denied")
  /\ ~Valid(token[c])
  /\ runs' = [runs EXCEPT ![c] = @ + 1]
  /\ UNCHANGED <<server, access, jar, refreshing, home, token, attempt, excused>>

\* 401 of the guard.
Deny(c) ==
  /\ GoTo(c, "sent", "denied")
  /\ ~Valid(token[c])
  /\ UNCHANGED <<server, access, jar, refreshing, home, token, attempt, runs, excused>>

\* 401 of the handler.
DenyByHandler(c) ==
  /\ c \in Wrong
  /\ GoTo(c, "handled", "denied")
  /\ UNCHANGED <<server, access, jar, refreshing, home, token, attempt, runs, excused>>

\* Another call of the tab is refreshing: the 401 is thrown.
FailDenied(c) ==
  /\ End(c, "denied")
  /\ refreshing[home[c]]
  /\ UNCHANGED <<server, access, jar, refreshing, excused>>

-----------------------------------------------------------------------------
(* handleUnauthorized, refreshRequest and the server's refresh             *)

\* Mutant of BeginRefresh: a second call may refresh at the same time.
BeginRefreshUnmarked(c) ==
  /\ GoTo(c, "denied", "reading")
  /\ ~refreshing[home[c]]
  /\ UNCHANGED <<server, access, jar, refreshing, home, token, attempt, runs, excused>>

BeginRefresh(c) ==
  /\ GoTo(c, "denied", "reading")
  /\ ~refreshing[home[c]]
  /\ refreshing' = [refreshing EXCEPT ![home[c]] = TRUE]
  /\ UNCHANGED <<server, access, jar, home, token, attempt, runs, excused>>

\* Sessions that a refresh of another tab is changing.
SharedWith(c) ==
  {token[d].session : d \in {d \in Calls : home[d] # home[c] /\ pc[d] \in Sharing}}

\* The token is read from the storage, or the cookie goes with the request.
Present(c) ==
  /\ jar # None
  /\ GoTo(c, "reading", "presenting")
  /\ token' = [token EXCEPT ![c] = jar]
  /\ excused' = excused \cup ({jar.session} \cap SharedWith(c))
  /\ UNCHANGED <<server, access, jar, refreshing, home, attempt, runs>>

\* Without a token the answer is 400.
PresentNothing(c) ==
  /\ jar = None
  /\ GoTo(c, "reading", "refused")
  /\ UNCHANGED <<server, access, jar, refreshing, home, token, attempt, runs, excused>>

\* The lookup finds the token, and the session is not revoked.
LookUp(c) ==
  /\ GoTo(c, "presenting", "rotating")
  /\ token[c].session \in alive
  /\ token[c].number = current[token[c].session]
  /\ UNCHANGED <<server, access, jar, refreshing, home, token, attempt, runs, excused>>

Reject(c) ==
  /\ GoTo(c, "presenting", "refused")
  /\ \/ token[c].session \notin alive
     \/ token[c].number # current[token[c].session]
  /\ UNCHANGED <<server, access, jar, refreshing, home, token, attempt, runs, excused>>

\* The update by id, whatever was written since the lookup.
Rotate(c) ==
  LET s == token[c].session IN
  /\ GoTo(c, "rotating", "rotated")
  /\ current[s] < MaxNumber
  /\ current' = [current EXCEPT ![s] = @ + 1]
  /\ token' = [token EXCEPT ![c] = [session |-> s, number |-> current[s] + 1]]
  /\ UNCHANGED <<alive, lapsed, access, jar, refreshing, home, attempt, runs, excused>>

\* A network error, which a refresh has no timeout to end before, or any
\* error status.
LoseRefresh(c) ==
  /\ pc[c] \in {"presenting", "rotating", "rotated"}
  /\ pc' = [pc EXCEPT ![c] = "refused"]
  /\ excused' = excused \cup {s \in {token[c].session} : pc[c] = "rotated"}
  /\ UNCHANGED <<server, access, jar, refreshing, home, token, attempt, runs>>

\* The answer arrives, and with it the cookie.
Receive(c) ==
  /\ GoTo(c, "rotated", "storing")
  /\ access' = [access EXCEPT ![home[c]] = token[c]]
  /\ jar' = IF Web THEN token[c] ELSE jar
  /\ UNCHANGED <<server, refreshing, home, token, attempt, runs, excused>>

\* setRefreshToken of the storage is done, and the request is sent again.
Store(c) ==
  /\ Transmit(c, home[c], "storing")
  /\ jar' = IF Web THEN jar ELSE token[c]
  /\ refreshing' = [refreshing EXCEPT ![home[c]] = FALSE]
  /\ UNCHANGED <<server, access, home, attempt, runs, excused>>

\* Mutant of SignOut: isRefreshing is left set.
SignOutUnfinished(c) ==
  /\ End(c, "refused")
  /\ access' = [access EXCEPT ![home[c]] = None]
  /\ jar' = IF Web THEN jar ELSE None
  /\ UNCHANGED <<server, refreshing, excused>>

\* clearAll and onAuthError; a cookie cannot be cleared from here.
SignOut(c) ==
  /\ End(c, "refused")
  /\ refreshing' = [refreshing EXCEPT ![home[c]] = FALSE]
  /\ access' = [access EXCEPT ![home[c]] = None]
  /\ jar' = IF Web THEN jar ELSE None
  /\ UNCHANGED <<server, excused>>

-----------------------------------------------------------------------------
(* The application, the clock and other devices                            *)

\* A login, setAuth, and storeRefreshToken of a native application.
SignIn(t, s) ==
  /\ current[s] = 0
  /\ MaxNumber > 0
  /\ current' = [current EXCEPT ![s] = 1]
  /\ alive' = alive \cup {s}
  /\ jar' = [session |-> s, number |-> 1]
  /\ access' = [access EXCEPT ![t] = jar']
  /\ UNCHANGED <<lapsed, refreshing, slots, excused>>

\* A logout and clearAuth.
LogOut(t) ==
  /\ Valid(access[t])
  /\ alive' = alive \ {access[t].session}
  /\ access' = [access EXCEPT ![t] = None]
  /\ jar' = IF Web THEN None ELSE jar
  /\ UNCHANGED <<current, lapsed, refreshing, slots, excused>>

\* The session is revoked from elsewhere.
Revoke(s) ==
  /\ s \in alive
  /\ alive' = alive \ {s}
  /\ UNCHANGED <<current, lapsed, access, jar, refreshing, slots, excused>>

\* JWT_ACCESS_TTL is over for the oldest access token.
Lapse(s) ==
  /\ lapsed[s] < current[s]
  /\ lapsed' = [lapsed EXCEPT ![s] = @ + 1]
  /\ UNCHANGED <<current, alive, access, jar, refreshing, slots, excused>>

\* The cookie's maxAge is that of the access token it came with.
CookieExpires ==
  /\ Web /\ jar # None
  /\ jar.number <= lapsed[jar.session]
  /\ jar' = None
  /\ UNCHANGED <<server, access, refreshing, slots, excused>>

\* What a call does once it is sent.
Proceed(c) ==
  \/ Run(c) \/ Answer(c) \/ Stumble(c) \/ Exhaust(c) \/ Resend(c)
  \/ Deny(c) \/ DenyByHandler(c)
  \/ FailDenied(c) \/ BeginRefresh(c) \/ Present(c) \/ PresentNothing(c)
  \/ LookUp(c) \/ Reject(c) \/ Rotate(c) \/ LoseRefresh(c)
  \/ Receive(c) \/ Store(c) \/ SignOut(c)

Next ==
  \/ \E c \in Calls, t \in Tabs : Send(c, t)
  \/ \E c \in Calls : LoseRequest(c) \/ Proceed(c)
  \/ \E t \in Tabs, s \in Sessions : SignIn(t, s)
  \/ \E t \in Tabs : LogOut(t)
  \/ \E s \in Sessions : Revoke(s) \/ Lapse(s)
  \/ CookieExpires

Spec == Init /\ [][Next]_vars

\* A request or a refresh that is sent is answered or fails, and the event
\* loop runs what follows.
LiveSpec == Spec /\ \A c \in Calls : WF_vars(Proceed(c))

-----------------------------------------------------------------------------
(* Properties                                                              *)

\* However many calls of a tab find their token expired together, refreshes
\* never present a token that was replaced, unless an answer was lost or two
\* tabs refreshed at the same time.
PresentsCurrent ==
  \A c \in Calls :
    pc[c] = "presenting" /\ token[c].session \notin excused
      => token[c].number = current[token[c].session]

\* isRefreshing is set while one call of the tab refreshes, and only then: a
\* flag left behind would end all refreshes of the tab.
OneRefreshPerTab ==
  /\ \A t \in Tabs :
       refreshing[t] <=> \E c \in Calls : pc[c] \in Busy /\ home[c] = t
  /\ \A c, d \in Calls :
       pc[c] \in Busy /\ pc[d] \in Busy /\ home[c] = home[d] => c = d

\* The handler of a call runs at most once per attempt of withRetry, although
\* refreshes send the request again without counting: only the guard answers
\* 401.
RunsPerAttempt == \A c \in Calls \ Wrong : runs[c] <= attempt[c] + 1

\* Every call returns or throws in the end, if only the guard answers 401.
CallsSettle ==
  \A c \in Calls \ Wrong : [](pc[c] # "idle" => <>(pc[c] = "idle"))

\* What the plan promises of a browser: refreshes work from the cookie, so
\* there is one as long as the session of a tab lasts.
RefreshWorksFromCookie ==
  \A t \in Tabs :
    access[t] # None /\ access[t].session \in alive => jar # None
=============================================================================
