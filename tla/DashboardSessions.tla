------------------------- MODULE DashboardSessions -------------------------
(***************************************************************************)
(* The dashboard's session (packages/dashboard/src/api.ts, auth.tsx) on top *)
(* of the accounts of SessionService.                                       *)
(*                                                                         *)
(* The tabs of one browser share its cookie; each tab keeps its own access  *)
(* token, user and refreshPromise.  An access token is only valid or not:   *)
(* requireAuth looks at its signature and expiry and at no row.             *)
(***************************************************************************)
EXTENDS SessionService

CONSTANTS
  Browsers, Tabs, BrowserOf,   \* BrowserOf \in [Tabs -> Browsers]
  Calls, TabOf,                \* the API calls of the pages, [Calls -> Tabs]
  Starts,                      \* tabs that have signed in, a sequence each
  MaxOps,                      \* bound: what users do, and access expiries
  MaxExpired                   \* bound: refresh tokens that expire

\* A tab's own exchange is its slot; a refresh that a call starts is the call's.
ASSUME DashboardAssumption ==
  /\ Exchanges = Tabs \cup Calls /\ Tabs \cap Calls = {} /\ MaxOps \in Nat
  /\ Starts \subseteq Seq(Tabs) /\ \A s \in Starts : Len(s) <= MaxTokens
  /\ BrowserOf \in [Tabs -> Browsers] /\ TabOf \in [Calls -> Tabs]

VARIABLES
  cookie,     \* the refresh cookie of each browser
  tab,        \* accessToken, user, whether refreshPromise is set, and the phase
  call,       \* the stage of each call, and whether it is the retry
  ops,        \* counts for MaxOps
  disturbed   \* for checking: browsers whose cookie may have been revoked
              \* without their doing

clientVars == <<cookie, tab, call, ops, disturbed>>
vars == <<serverVars, clientVars>>

Phases == {"closed", "loading", "me", "ready"}
NoTab == [phase |-> "closed", access |-> FALSE, user |-> FALSE,
          refreshing |-> FALSE]
NoCall == [stage |-> "idle", retried |-> FALSE]

TabAt(s) == IF s \in Tabs THEN s ELSE TabOf[s]
BrowserAt(s) == BrowserOf[TabAt(s)]

Init ==
  \E signed \in Starts :
    LET in(t) == \E i \in DOMAIN signed : signed[i] = t IN
    /\ Started(Len(signed))
    /\ cookie = [b \in Browsers |->
         IF \E i \in DOMAIN signed : BrowserOf[signed[i]] = b
         THEN CHOOSE i \in DOMAIN signed : BrowserOf[signed[i]] = b
         ELSE NoToken]
    /\ tab = [t \in Tabs |->
         IF in(t) THEN [phase |-> "ready", access |-> TRUE, user |-> TRUE,
                        refreshing |-> FALSE]
                  ELSE NoTab]
    /\ call = [c \in Calls |-> NoCall]
    /\ ops = 0
    /\ disturbed = {}

\* Two exchanges of one browser at once, other than two refreshes of one tab,
\* which refreshPromise is there to prevent.
Overlaps(s, kind) ==
  \E q \in Exchanges \ {s} :
    /\ exch[q].stage # "idle"
    /\ BrowserAt(q) = BrowserAt(s)
    /\ TabAt(q) # TabAt(s) \/ kind # "refresh" \/ exch[q].kind # "refresh"

\* fetch with credentials: the browser adds its cookie.
Begin(s, kind, given, wanted) ==
  /\ Receive(s, kind, cookie[BrowserAt(s)], given, wanted)
  /\ disturbed' = IF Overlaps(s, kind) THEN disturbed \cup {BrowserAt(s)}
                                       ELSE disturbed
  /\ UNCHANGED cookie

Count == ops < MaxOps /\ ops' = ops + 1

Operate(t) == Count /\ exch[t].stage = "idle"

\* The page is loaded: its memory is empty and restoreSession refreshes.
Open(t) ==
  /\ Operate(t)
  /\ tab[t].phase \in {"closed", "ready"} /\ ~ tab[t].refreshing
  /\ \A c \in Calls : TabOf[c] = t => call[c].stage = "idle"
  /\ tab' = [tab EXCEPT ![t] =
               [NoTab EXCEPT !.phase = "loading", !.refreshing = TRUE]]
  /\ Begin(t, "refresh", NoPassword, NoPassword)
  /\ UNCHANGED call

\* restoreSession asks for the user, without a retry.
Me(t) ==
  /\ tab[t].phase = "me"
  /\ \E found \in BOOLEAN :
       /\ found => tab[t].access
       /\ tab' = [tab EXCEPT ![t] = [@ EXCEPT !.phase = "ready",
                                              !.user = found]]
  /\ UNCHANGED <<serverVars, cookie, call, ops, disturbed>>

\* LoginPage is shown while there is no user.
SignIn(t) ==
  /\ Operate(t)
  /\ tab[t].phase = "ready" /\ ~ tab[t].user
  /\ \E kind \in {"login", "register"}, given \in Passwords :
       /\ kind = "register" => given = FirstPassword
       /\ Begin(t, kind, given, given)
  /\ UNCHANGED <<tab, call>>

\* With an expired access token the change is refused and not retried: api.ts
\* retries nothing under /api/auth/.
SubmitPassword(t) ==
  /\ Operate(t)
  /\ tab[t].phase = "ready" /\ tab[t].user /\ tab[t].access
  /\ \E given \in Passwords, wanted \in Passwords :
       given # wanted /\ Begin(t, "password", given, wanted)
  /\ UNCHANGED <<tab, call>>

SignOut(t) ==
  /\ Operate(t)
  /\ tab[t].phase = "ready" /\ tab[t].user
  /\ Begin(t, "logout", NoPassword, NoPassword)
  /\ UNCHANGED <<tab, call>>

\* A page of a signed-in tab calls the API.  A call with a valid token ends and
\* changes nothing of the session: the calls that are followed have none.
Send(c) ==
  LET t == TabOf[c] IN
  /\ call[c].stage = "idle"
  /\ tab[t].phase = "ready" /\ tab[t].user /\ ~ tab[t].access
  /\ call' = [call EXCEPT ![c].stage = "sent"]
  /\ UNCHANGED <<serverVars, cookie, tab, ops, disturbed>>

\* The call ends with an answer or an error: all but a first 401.
AnswerCall(c) ==
  /\ call[c].stage = "sent"
  /\ call' = [call EXCEPT ![c] = NoCall]
  /\ UNCHANGED <<serverVars, cookie, tab, ops, disturbed>>

\* Mutant of MayRefresh: parallel 401s each rotate.
AlwaysRefresh(t) == TRUE

MayRefresh(t) == ~ tab[t].refreshing

\* A first 401: the call waits for the refresh of its tab, which it starts when
\* none is under way.
Unauthorized(c) ==
  LET t == TabOf[c] IN
  /\ call[c].stage = "sent" /\ ~ call[c].retried
  /\ call' = [call EXCEPT ![c].stage = "waiting"]
  /\ \/ /\ MayRefresh(t)
        /\ tab' = [tab EXCEPT ![t].refreshing = TRUE]
        /\ Begin(c, "refresh", NoPassword, NoPassword)
     \/ /\ ~ MayRefresh(t)
        /\ UNCHANGED <<serverVars, cookie, tab, disturbed>>
  /\ UNCHANGED ops

\* Mutant of Resumed: what the refresh answered is ignored, and the flag that
\* allows one retry is not passed on.
RetriedAgain(c, granted) ==
  [stage |-> "sent", retried |-> FALSE]

\* A waiting call is sent once more with the new token, or throws its 401.
Resumed(c, granted) ==
  IF granted THEN [stage |-> "sent", retried |-> TRUE]
             ELSE NoCall

\* Mutant of AfterRefresh: a refused restore does not end the loading.
LoadsForever(old, granted) ==
  [old EXCEPT !.access = granted,
              !.refreshing = FALSE,
              !.phase = IF old.phase = "loading" /\ granted THEN "me" ELSE @]

AfterRefresh(old, granted) ==
  [old EXCEPT !.access = granted,
              !.refreshing = FALSE,
              !.phase = IF old.phase # "loading" THEN old.phase
                        ELSE IF granted THEN "me" ELSE "ready"]

\* The answer reaches the browser, which sets or clears its cookie, or is lost,
\* which the code takes as a failure.  logout ends the session either way.
Deliver(s) ==
  LET t == TabAt(s)
      b == BrowserAt(s)
      kind == exch[s].kind IN
  /\ \E answer \in {exch[s].answer, "refused"} :
       LET granted == answer = "granted" IN
       /\ cookie' = [cookie EXCEPT ![b] =
            CASE answer = "granted" -> exch[s].cookie
              [] answer = "cleared" -> NoToken
              [] OTHER -> @]
       /\ disturbed' = IF answer = exch[s].answer THEN disturbed
                       ELSE disturbed \cup {b}
       /\ tab' = [tab EXCEPT ![t] =
            CASE kind = "refresh" -> AfterRefresh(@, granted)
              [] kind = "logout" -> [@ EXCEPT !.access = FALSE, !.user = FALSE]
              [] granted /\ kind \in WithPassword ->
                   [@ EXCEPT !.access = TRUE, !.user = TRUE]
              [] OTHER -> @]
       /\ call' = [c \in Calls |->
            IF kind = "refresh" /\ TabOf[c] = t /\ call[c].stage = "waiting"
            THEN Resumed(c, granted) ELSE call[c]]
  /\ Close(s)
  /\ UNCHANGED ops

\* A step of the server.  A committed sweep revokes the cookies of the others.
Serve(s) ==
  /\ Handle(s) \/ Fail(s)
  /\ disturbed' = IF exch[s].stage = "swept"
                  THEN disturbed \cup (Browsers \ {BrowserAt(s)})
                  ELSE disturbed
  /\ UNCHANGED <<cookie, tab, call, ops>>

ExpireAccess(t) ==
  /\ tab[t].access
  /\ Count
  /\ tab' = [tab EXCEPT ![t].access = FALSE]
  /\ UNCHANGED <<serverVars, cookie, call, disturbed>>

\* All have the same lifetime and expire in the order of their issue.
ExpireRow(i) ==
  /\ i <= MaxExpired /\ \A j \in 1 .. i - 1 : tokens[j].expired
  /\ ExpireToken(i)
  /\ UNCHANGED clientVars

Next ==
  \/ \E t \in Tabs : \/ Open(t) \/ Me(t) \/ SignIn(t) \/ SubmitPassword(t)
                     \/ SignOut(t) \/ ExpireAccess(t)
  \/ \E c \in Calls : Send(c) \/ AnswerCall(c) \/ Unauthorized(c)
  \/ \E s \in Exchanges : Deliver(s) \/ Serve(s)
  \/ \E i \in Issued : ExpireRow(i)

\* A request that reached the server is answered or fails, and every fetch
\* resolves or rejects.  Users need do nothing.
Fairness ==
  /\ \A s \in Exchanges : WF_vars(Serve(s)) /\ WF_vars(Deliver(s))
  /\ \A t \in Tabs : WF_vars(Me(t))
  /\ \A c \in Calls : WF_vars(AnswerCall(c) \/ Unauthorized(c))

Spec == Init /\ [][Next]_vars
FairSpec == Spec /\ Fairness

-----------------------------------------------------------------------------
TypeOK ==
  /\ ServerTypeOK
  /\ cookie \in [Browsers -> TokenIds \cup {NoToken}]
  /\ tab \in [Tabs -> [phase : Phases, access : BOOLEAN, user : BOOLEAN,
                       refreshing : BOOLEAN]]
  /\ \A t \in Tabs : tab[t].phase = "loading" => tab[t].refreshing
  /\ call \in [Calls -> [stage : {"idle", "sent", "waiting"},
                         retried : BOOLEAN]]
  /\ ops \in 0 .. MaxOps
  /\ disturbed \subseteq Browsers

\* A browser presents a token that was revoked, and so has every session of the
\* user ended, only if an answer to it was lost, two of its tabs or a refresh
\* and a form overlapped, or another device had the tokens revoked: parallel
\* 401s of one tab never do it (comment api.ts:232).
ReuseNeedsCause ==
  \A s \in Exchanges :
    At(s, "refresh", "reused") => BrowserAt(s) \in disturbed

\* Every API call ends: it waits for one refresh and is retried once
\* (api.ts:253-261).
CallsEnd ==
  \A c \in Calls : call[c].stage # "idle" ~> call[c].stage = "idle"

\* What a comment says of a password change, "so the current session keeps
\* working" (auth.tsx:71): the token that a browser got for it, and has as its
\* cookie, is not revoked as the reuse of another one.
ChangerKeepsSession ==
  \A b \in Browsers :
    cookie[b] \in Issued =>
      ~ (tokens[cookie[b]].by = "password" /\ tokens[cookie[b]].end = "reuse")
=============================================================================
