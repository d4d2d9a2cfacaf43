----------------------- MODULE DashboardSessionsProofs -----------------------
(***************************************************************************)
(* For any number of browsers, tabs, calls and tokens: dashboards use the   *)
(* accounts only as SessionService describes, so what is proved of it holds *)
(* of both together; and the token a browser presents has been revoked only *)
(* for one of the causes of ReuseNeedsCause.                                *)
(*                                                                         *)
(* The last one rests on three things: refreshPromise lets a tab have one   *)
(* refresh under way (Promised), no two browsers ever hold one token        *)
(* (Apart), and a browser that nothing has disturbed has one exchange at a  *)
(* time and a cookie that is usable, or about to be replaced (Steady).      *)
(***************************************************************************)
EXTENDS DashboardSessions, SessionServiceProofs

Active(s) == exch[s].stage # "idle"
Asking(s) == Active(s) /\ exch[s].stage # "replied"
Of(b) == {s \in Exchanges : Active(s) /\ BrowserAt(s) = b}

\* refreshPromise: at most one refresh of a tab is under way.
Promised ==
  /\ \A s \in Exchanges :
       Active(s) /\ exch[s].kind = "refresh" => tab[TabAt(s)].refreshing
  /\ \A s, q \in Exchanges :
       /\ Active(s) /\ exch[s].kind = "refresh"
       /\ Active(q) /\ exch[q].kind = "refresh"
       /\ TabAt(s) = TabAt(q)
       => s = q

\* A token that the browser has as its cookie, or an exchange of it carries.
Has(b, i) == cookie[b] = i \/ \E s \in Of(b) : exch[s].cookie = i

Known ==
  /\ \A b \in Browsers : cookie[b] \in Issued \cup {NoToken}
  /\ \A s \in Exchanges :
       Active(s) => exch[s].cookie \in Issued \cup {NoToken}

Apart ==
  \A b, d \in Browsers, i \in Issued : Has(b, i) /\ Has(d, i) => b = d

\* The cookie is about to be replaced.
Replacing(b) ==
  \E s \in Of(b) : /\ exch[s].stage = "replied"
                   /\ exch[s].answer \in {"granted", "cleared"}

Steady(b) ==
  /\ \A s, q \in Of(b) : s = q
  /\ \A s \in Of(b) : Asking(s) => exch[s].cookie = cookie[b]
  /\ \A s \in Of(b) :
       ~ At(s, "refresh", "reused") /\ ~ At(s, "refresh", "swept")
  /\ cookie[b] \in Issued /\ ~ Replacing(b) => Unrevoked(cookie[b])
  /\ \A s \in Of(b) :
       exch[s].stage = "replied" /\ exch[s].answer = "granted"
         => exch[s].cookie \in Issued /\ Unrevoked(exch[s].cookie)

Undisturbed == \A b \in Browsers \ disturbed : Steady(b)

DInv == IInv /\ TypeOK /\ Promised /\ Known /\ Apart /\ Undisturbed

-----------------------------------------------------------------------------
(* What one step of the server does to the exchange and to the tokens.     *)

Moved(s) ==
  /\ exch'[s].stage \in {"verified", "reused", "swept"}
  /\ exch'[s].cookie = exch[s].cookie
  /\ tokens' = tokens
  /\ At(s, "refresh", "reused")' =>
       exch[s].cookie \in Issued /\ ~ Unrevoked(exch[s].cookie)
  /\ At(s, "refresh", "swept")' => At(s, "refresh", "reused")

Granted(s) ==
  /\ exch'[s].stage = "replied" /\ exch'[s].answer = "granted"
  /\ exch'[s].cookie = NextId /\ NextId \notin Issued
  /\ Issued' = Issued \cup {NextId} /\ tokens'[NextId].end = "none"

Declined(s) ==
  /\ exch'[s].stage = "replied" /\ exch'[s].cookie = NoToken
  /\ Issued' = Issued
  /\ \/ exch'[s].answer = "cleared"
     \/ /\ exch'[s].answer = "refused"
        /\ tokens' = tokens \/ At(s, "refresh", "swept")

\* Only a sweep revokes tokens that the exchange does not carry.
Spares(s) ==
  exch[s].stage # "swept" =>
    \A i \in Issued :
      i # exch[s].cookie /\ Unrevoked(i) => tokens'[i].end = "none"

Served(s) ==
  /\ Asking(s) /\ exch'[s].kind = exch[s].kind
  /\ \A q \in Exchanges : q # s => exch'[q] = exch[q]
  /\ Moved(s) \/ Granted(s) \/ Declined(s)
  /\ Spares(s)

LEMMA RefuseServes ==
  ASSUME IInv, NEW s \in Exchanges, Refuse(s), Asking(s) PROVE Served(s)
<1>1. /\ exch'[s].stage = "replied" /\ exch'[s].kind = exch[s].kind
      /\ exch'[s].answer = "refused" /\ exch'[s].cookie = NoToken
      /\ \A q \in Exchanges : q # s => exch'[q] = exch[q]
  BY ReplyKeeps DEF Refuse, IInv
<1>2. tokens' = tokens
  BY DEF Refuse
<1> QED
  BY <1>1, <1>2 DEF Served, Declined, Spares, Issued, Unrevoked

LEMMA GotoServes ==
  ASSUME IInv, NEW s \in Exchanges, NEW stage \in {"verified", "reused"},
         Goto(s, stage), Asking(s), tokens' = tokens,
         stage = "reused" =>
           exch[s].cookie \in Issued /\ ~ Unrevoked(exch[s].cookie)
  PROVE  Served(s)
<1>1. /\ exch'[s].stage = stage /\ exch'[s].kind = exch[s].kind
      /\ exch'[s].cookie = exch[s].cookie
      /\ \A q \in Exchanges : q # s => exch'[q] = exch[q]
  BY GotoKeeps DEF IInv, Stages
<1> QED
  BY <1>1 DEF Served, Moved, Spares, Unrevoked, At

LEMMA IssueServes ==
  ASSUME IInv, NEW s \in Exchanges, NEW rows, Shrunk(rows),
         NEW root \in TokenIds, NEW born \in Nat, Issue(s, rows, root, born),
         Asking(s),
         exch[s].stage # "swept" =>
           \A i \in Issued : i # exch[s].cookie /\ Unrevoked(i) =>
             rows[i].end = "none"
  PROVE  Served(s)
<1>1. /\ NextId \notin Issued /\ Issued' = Issued \cup {NextId}
      /\ \A i \in Issued : tokens'[i] = rows[i]
      /\ tokens'[NextId].end = "none"
  BY IssueRows DEF IInv
<1>2. /\ exch'[s].stage = "replied" /\ exch'[s].kind = exch[s].kind
      /\ exch'[s].answer = "granted" /\ exch'[s].cookie = NextId
      /\ \A q \in Exchanges : q # s => exch'[q] = exch[q]
  BY IssueExchange DEF IInv
<1> QED
  BY <1>1, <1>2 DEF Served, Granted, Spares

LEMMA NextToken ==
  ASSUME IInv, Len(tokens) < MaxTokens PROVE NextId \in TokenIds
BY SessionAssumption DEF NextId, TokenIds, IInv, ServerTypeOK

LEMMA SignInServes ==
  ASSUME IInv, NEW s \in Exchanges, Issue(s, tokens, NextId, BornNow),
         Asking(s)
  PROVE  Served(s)
<1>1. BornNow \in Nat /\ Shrunk(tokens) /\ NextId \in TokenIds
  BY BornNowType, SameShrunk, NextToken DEF IInv, Issue
<1> QED
  BY <1>1, IssueServes DEF Unrevoked

LEMMA ServeEffect ==
  ASSUME IInv, NEW s \in Exchanges, Handle(s) \/ Fail(s) PROVE Served(s)
<1> USE DEF Asking, Active
<1>1. CASE Register(s) \/ Login(s)
  BY <1>1, RefuseServes, SignInServes DEF Register, Login, At
<1>2. CASE Verify(s) \/ VerifyChange(s)
  BY <1>2, RefuseServes, GotoServes DEF Verify, VerifyChange, At
<1>3. CASE Sweep(s)
  <2>1. /\ exch'[s].stage = "swept" /\ exch'[s].kind = exch[s].kind
        /\ \A q \in Exchanges : q # s => exch'[q] = exch[q]
    BY <1>3, SweepKeeps DEF IInv
  <2>2. exch'[s].cookie = exch[s].cookie
    BY <1>3 DEF Sweep, IInv, ServerTypeOK, Exchange
  <2> QED
    BY <1>3, <2>1, <2>2 DEF Served, Moved, Spares, Sweep, At, Unrevoked
<1>4. CASE ChangePassword(s)
  <2> DEFINE rows == Ended(exch[s].swept, "passwordChanged")
  <2>1. Shrunk(rows)
    BY EndedShrunk DEF Ends, IInv
  <2>2. Issue(s, rows, NextId, changes + 1) /\ changes + 1 \in Nat
        /\ Asking(s) /\ exch[s].stage = "swept"
    BY <1>4 DEF ChangePassword, IInv, ServerTypeOK, At
  <2>3. NextId \in TokenIds
    BY <2>2, NextToken DEF Issue
  <2> HIDE DEF rows
  <2> QED
    BY <2>1, <2>2, <2>3, IssueServes
<1>5. CASE FindToken(s)
  <2>1. Asking(s)
    BY <1>5 DEF FindToken, At
  <2>2. CASE Refuse(s)
    BY <2>1, <2>2, RefuseServes
  <2>3. CASE Goto(s, "verified") /\ tokens' = tokens
    BY <2>1, <2>3, GotoServes
  <2>4. CASE /\ Goto(s, "reused") /\ tokens' = tokens
             /\ exch[s].cookie \in Issued /\ ~ Unrevoked(exch[s].cookie)
    BY <2>1, <2>4, GotoServes
  <2> QED
    BY <1>5, <2>2, <2>3, <2>4 DEF FindToken
<1>6. CASE Rotate(s)
  <2>1. PICK i \in Issued : i = exch[s].cookie
    BY <1>6 DEF Rotate, IInv, Presented
  <2> DEFINE root == tokens[i].root
             rows == Replaced(s)
  <2>2. Shrunk(rows) /\ root \in TokenIds /\ BornNow \in Nat
    BY <2>1, ReplacedShrunk, RowType, BornNowType DEF IInv
  <2>3. \A j \in Issued : j # i => rows[j] = tokens[j]
    BY <2>1 DEF Replaced, IInv, ServerTypeOK, Issued
  <2>4. Issue(s, rows, root, BornNow) /\ Asking(s)
    BY <1>6, <2>1 DEF Rotate, At
  <2> HIDE DEF rows, root
  <2> QED
    BY <2>1, <2>2, <2>3, <2>4, IssueServes DEF Unrevoked
<1>7. CASE RevokeAll(s) \/ Logout(s)
  <2>1. /\ exch'[s].stage = "replied" /\ exch'[s].kind = exch[s].kind
        /\ exch'[s].cookie = NoToken
        /\ exch'[s].answer = IF RevokeAll(s) THEN "refused" ELSE "cleared"
        /\ \A q \in Exchanges : q # s => exch'[q] = exch[q]
    BY <1>7, ReplyKeeps DEF RevokeAll, Logout, IInv
  <2>2. Issued' = Issued
    BY <1>7, EndedShrunk DEF RevokeAll, Logout, Issued, Shrunk, IInv, Ends
  <2>3. Spares(s)
    BY <1>7 DEF RevokeAll, Logout, Spares, Ended, At, Unrevoked
  <2> QED
    BY <1>7, <2>1, <2>2, <2>3 DEF Served, Declined, RevokeAll, Logout, At
<1>8. CASE Fail(s)
  BY <1>8, RefuseServes DEF Fail
<1> QED
  BY <1>1, <1>2, <1>3, <1>4, <1>5, <1>6, <1>7, <1>8 DEF Handle

-----------------------------------------------------------------------------
(* The exchanges of the browsers.                                          *)

LEMMA Places ==
  ASSUME NEW s \in Exchanges
  PROVE  TabAt(s) \in Tabs /\ BrowserAt(s) \in Browsers
BY DashboardAssumption DEF TabAt, BrowserAt

\* A fetch that overlaps no other of its browser finds nothing under way.
LEMMA BeginKeeps ==
  ASSUME DInv, NEW s \in Exchanges, NEW kind \in Kinds,
         NEW given \in Passwords \cup {NoPassword},
         NEW wanted \in Passwords \cup {NoPassword},
         Begin(s, kind, given, wanted),
         kind = "refresh" => /\ ~ tab[TabAt(s)].refreshing
                             /\ tab'[TabAt(s)].refreshing,
         \A t \in Tabs : tab[t].refreshing => tab'[t].refreshing
  PROVE  /\ IInv' /\ Promised' /\ Known' /\ Apart' /\ Undisturbed'
         /\ disturbed' \subseteq Browsers
<1> USE DEF DInv
<1> DEFINE b == BrowserAt(s)
           e == [stage |-> "sent", kind |-> kind, cookie |-> cookie[b],
                 given |-> given, wanted |-> wanted, swept |-> {},
                 answer |-> "none"]
<1>1. cookie[b] \in TokenIds \cup {NoToken} /\ b \in Browsers
  BY Places DEF TypeOK
<1>2. Receive(s, kind, cookie[b], given, wanted) /\ cookie' = cookie
  BY DEF Begin
<1>3. ServerNext
  BY <1>1, <1>2 DEF ServerNext
<1>4. IInv'
  BY <1>3, NextInv
<1>5. /\ ~ Active(s) /\ exch'[s] = e
      /\ \A q \in Exchanges : q # s => exch'[q] = exch[q]
      /\ tokens' = tokens
  BY <1>2 DEF Receive, Active, IInv, ServerTypeOK
<1>6. /\ e.stage = "sent" /\ e.kind = kind /\ e.cookie = cookie[b]
  OBVIOUS
<1>7. disturbed \subseteq disturbed' /\ disturbed' \subseteq Browsers
      /\ (Overlaps(s, kind) => b \in disturbed')
  BY <1>1 DEF Begin, TypeOK
<1> HIDE DEF e, b
<1>8. /\ Active(s)' /\ \A q \in Exchanges : q # s => (Active(q)' = Active(q))
      /\ Issued' = Issued /\ \A i \in Issued : Unrevoked(i)' = Unrevoked(i)
  BY <1>5, <1>6 DEF Active, Issued, Unrevoked
<1>9. Promised'
  <2>1. \A q \in Exchanges : TabAt(q) \in Tabs
    BY Places
  <2>2. kind = "refresh" =>
          \A q \in Exchanges : Active(q) /\ exch[q].kind = "refresh" =>
            TabAt(q) # TabAt(s)
    BY DEF Promised
  <2>3. \A q \in Exchanges :
          Active(q)' /\ exch'[q].kind = "refresh" =>
            \/ q = s /\ kind = "refresh"
            \/ q # s /\ Active(q) /\ exch[q].kind = "refresh"
    BY <1>5, <1>6, <1>8
  <2> QED
    BY <2>1, <2>2, <2>3 DEF Promised
<1>10. Known'
  BY <1>1, <1>2, <1>5, <1>6, <1>8 DEF Known
<1>11. \A d \in Browsers : \A i : Has(d, i)' => Has(d, i)
  <2> SUFFICES ASSUME NEW d \in Browsers, NEW i, Has(d, i)',
                      cookie'[d] # i
               PROVE  Has(d, i)
    BY <1>2 DEF Has
  <2>1. PICK q \in Exchanges :
          Active(q)' /\ BrowserAt(q) = d /\ exch'[q].cookie = i
    BY DEF Has, Of
  <2>2. CASE q = s
    BY <1>2, <1>5, <1>6, <2>1, <2>2 DEF b
  <2>3. CASE q # s
    BY <1>5, <1>8, <2>1, <2>3 DEF Has, Of
  <2> QED
    BY <2>2, <2>3
<1>12. Apart'
  BY <1>8, <1>11 DEF Apart
<1>13. ASSUME NEW d \in Browsers \ disturbed' PROVE Steady(d)'
  <2>1. Steady(d)
    BY <1>7 DEF Undisturbed
  <2>2. CASE d # b
    <3>1. Of(d)' = Of(d) /\ \A q \in Of(d) : q # s
      BY <1>5, <1>8, <2>2 DEF Of, b
    <3> QED
      BY <1>2, <1>5, <1>8, <2>1, <3>1 DEF Steady, Replacing, Asking, At, Of
  <2>3. CASE d = b
    <3>1. Of(d) = {}
      <4> SUFFICES ASSUME NEW q \in Of(d) PROVE FALSE
        OBVIOUS
      <4>1. q \in Exchanges \ {s} /\ Active(q) /\ BrowserAt(q) = BrowserAt(s)
        BY <1>5, <2>3 DEF Of, b
      <4>2. ~ Overlaps(s, kind)
        BY <1>7, <2>3
      <4>3. TabAt(q) = TabAt(s) /\ kind = "refresh" /\ exch[q].kind = "refresh"
        BY <4>1, <4>2 DEF Overlaps, Active
      <4> QED
        BY <4>1, <4>3 DEF Promised
    <3>2. Of(d)' = {s}
      BY <1>5, <1>8, <2>3, <3>1 DEF Of, b
    <3>3. cookie[d] \in Issued => Unrevoked(cookie[d])
      BY <2>1, <3>1 DEF Steady, Replacing
    <3>4. exch'[s].stage = "sent" /\ exch'[s].cookie = cookie[d]
      BY <1>5, <1>6, <2>3
    <3> QED
      BY <1>2, <1>5, <1>8, <3>2, <3>3, <3>4
         DEF Steady, Replacing, Asking, At, Unrevoked
  <2> QED
    BY <2>2, <2>3
<1> QED
  BY <1>4, <1>7, <1>9, <1>10, <1>12, <1>13 DEF Undisturbed

\* What an answer does to the tab: a refresh ends, anything else leaves
\* refreshPromise as it was.
AnsweredTab(s, granted) ==
  CASE exch[s].kind = "refresh" -> AfterRefresh(tab[TabAt(s)], granted)
    [] exch[s].kind = "logout" ->
         [tab[TabAt(s)] EXCEPT !.access = FALSE, !.user = FALSE]
    [] granted /\ exch[s].kind \in WithPassword ->
         [tab[TabAt(s)] EXCEPT !.access = TRUE, !.user = TRUE]
    [] OTHER -> tab[TabAt(s)]

TabState ==
  [phase : Phases, access : BOOLEAN, user : BOOLEAN, refreshing : BOOLEAN]

LEMMA AfterRefreshType ==
  ASSUME NEW old \in TabState, NEW granted \in BOOLEAN
  PROVE  /\ AfterRefresh(old, granted) \in TabState
         /\ AfterRefresh(old, granted).phase # "loading"
         /\ ~ AfterRefresh(old, granted).refreshing
BY DEF AfterRefresh, TabState, Phases

LEMMA AnsweredTabType ==
  ASSUME TypeOK, NEW s \in Exchanges, NEW granted \in BOOLEAN
  PROVE  /\ AnsweredTab(s, granted) \in TabState
         /\ AnsweredTab(s, granted).phase = "loading" =>
              AnsweredTab(s, granted).refreshing
         /\ exch[s].kind # "refresh" =>
              AnsweredTab(s, granted).refreshing = tab[TabAt(s)].refreshing
<1>1. tab[TabAt(s)] \in TabState
      /\ (tab[TabAt(s)].phase = "loading" => tab[TabAt(s)].refreshing)
  BY Places DEF TypeOK, TabState
<1>2. CASE exch[s].kind = "refresh"
  <2>1. AnsweredTab(s, granted) = AfterRefresh(tab[TabAt(s)], granted)
    BY <1>2 DEF AnsweredTab, WithPassword
  <2> QED
    BY <1>1, <1>2, <2>1, AfterRefreshType
<1>3. CASE exch[s].kind # "refresh"
  BY <1>1, <1>3 DEF AnsweredTab, TabState
<1> QED
  BY <1>2, <1>3

LEMMA DeliverTypes ==
  ASSUME DInv, NEW s \in Exchanges, Deliver(s)
  PROVE  /\ IInv' /\ TypeOK'
         /\ \A t \in Tabs : t # TabAt(s) => tab'[t] = tab[t]
         /\ exch[s].kind # "refresh" =>
              tab'[TabAt(s)].refreshing = tab[TabAt(s)].refreshing
<1> USE DEF DInv
<1>1. PICK answer \in {exch[s].answer, "refused"} :
        /\ cookie' = [cookie EXCEPT ![BrowserAt(s)] =
             CASE answer = "granted" -> exch[s].cookie
               [] answer = "cleared" -> NoToken
               [] OTHER -> @]
        /\ disturbed' = IF answer = exch[s].answer THEN disturbed
                        ELSE disturbed \cup {BrowserAt(s)}
        /\ tab' = [tab EXCEPT ![TabAt(s)] = AnsweredTab(s, answer = "granted")]
        /\ call' = [c \in Calls |->
             IF /\ exch[s].kind = "refresh" /\ TabOf[c] = TabAt(s)
                /\ call[c].stage = "waiting"
             THEN Resumed(c, answer = "granted") ELSE call[c]]
  BY DEF Deliver, AnsweredTab
<1>2. Close(s) /\ UNCHANGED ops
  BY DEF Deliver
<1>3. IInv'
  <2>1. ServerNext
    BY <1>2 DEF ServerNext
  <2> QED
    BY <2>1, NextInv
<1>4. exch[s].cookie \in TokenIds \cup {NoToken}
  BY DEF IInv, ServerTypeOK, Exchange
<1>5. /\ TabAt(s) \in Tabs /\ BrowserAt(s) \in Browsers
      /\ tab \in [Tabs -> TabState]
  BY Places DEF TypeOK, TabState
<1>6. cookie' \in [Browsers -> TokenIds \cup {NoToken}]
      /\ disturbed' \subseteq Browsers
  BY <1>1, <1>4, <1>5 DEF TypeOK
<1>7. /\ tab' \in [Tabs -> TabState]
      /\ \A t \in Tabs : tab'[t].phase = "loading" => tab'[t].refreshing
      /\ \A t \in Tabs : t # TabAt(s) => tab'[t] = tab[t]
      /\ exch[s].kind # "refresh" =>
           tab'[TabAt(s)].refreshing = tab[TabAt(s)].refreshing
  <2>1. PICK new \in TabState : new = AnsweredTab(s, answer = "granted")
    BY AnsweredTabType
  <2>2. /\ new.phase = "loading" => new.refreshing
        /\ exch[s].kind # "refresh" =>
             new.refreshing = tab[TabAt(s)].refreshing
    BY <2>1, AnsweredTabType
  <2>3. tab' = [tab EXCEPT ![TabAt(s)] = new]
    BY <1>1, <2>1
  <2> QED
    BY <1>5, <2>2, <2>3 DEF TypeOK
<1>8. call' \in [Calls -> [stage : {"idle", "sent", "waiting"},
                           retried : BOOLEAN]]
  BY <1>1 DEF TypeOK, Resumed, NoCall
<1>9. TypeOK'
  BY <1>2, <1>3, <1>6, <1>7, <1>8 DEF TypeOK, TabState, IInv
<1> QED
  BY <1>3, <1>7, <1>9

LEMMA NoTokenIsNone == ASSUME IInv PROVE NoToken \notin Issued
BY RowType, SessionAssumption DEF IInv, TokenIds

\* An answer that is delivered ends its exchange and leaves the browser with a
\* usable cookie; one that is lost disturbs the browser.
LEMMA DeliverKeeps ==
  ASSUME DInv, NEW s \in Exchanges, Deliver(s)
  PROVE  DInv'
<1> USE DEF DInv
<1> DEFINE b == BrowserAt(s)
<1>1. PICK answer \in {exch[s].answer, "refused"} :
        /\ cookie' = [cookie EXCEPT ![b] =
             CASE answer = "granted" -> exch[s].cookie
               [] answer = "cleared" -> NoToken
               [] OTHER -> @]
        /\ disturbed' = IF answer = exch[s].answer THEN disturbed
                        ELSE disturbed \cup {b}
  BY DEF Deliver
<1>2. /\ IInv' /\ TypeOK'
      /\ \A t \in Tabs : t # TabAt(s) => tab'[t] = tab[t]
      /\ exch[s].kind # "refresh" =>
           tab'[TabAt(s)].refreshing = tab[TabAt(s)].refreshing
  BY DeliverTypes
<1>3. /\ exch[s].stage = "replied" /\ Active(s) /\ ~ Active(s)'
      /\ \A q \in Exchanges : q # s => exch'[q] = exch[q]
      /\ \A q \in Exchanges : Active(q)' => q # s /\ Active(q)
      /\ tokens' = tokens /\ Issued' = Issued
  BY DEF Deliver, Close, Active, NoExchange, IInv, ServerTypeOK, Issued
<1>4. b \in Browsers /\ \A q \in Exchanges : TabAt(q) \in Tabs
  BY Places
<1>5. /\ \A d \in Browsers : d # b => cookie'[d] = cookie[d]
      /\ cookie'[b] = CASE answer = "granted" -> exch[s].cookie
                         [] answer = "cleared" -> NoToken
                         [] OTHER -> cookie[b]
  BY <1>1, <1>4 DEF TypeOK
<1> HIDE DEF b
<1>6. Promised'
  BY <1>2, <1>3, <1>4 DEF Promised
<1>7. Known'
  BY <1>3, <1>5 DEF Known
<1>8. \A d \in Browsers, i \in Issued : Has(d, i)' => Has(d, i)
  <2> SUFFICES ASSUME NEW d \in Browsers, NEW i \in Issued, Has(d, i)'
               PROVE  Has(d, i)
    OBVIOUS
  <2>1. CASE cookie'[d] = i
    <3>1. CASE d = b /\ answer = "granted"
      BY <1>3, <1>5, <2>1, <3>1 DEF Has, Of, b
    <3>2. CASE d # b \/ answer # "granted"
      BY <1>5, <2>1, <3>2, NoTokenIsNone DEF Has
    <3> QED
      BY <3>1, <3>2
  <2>2. CASE cookie'[d] # i
    BY <1>3, <2>2 DEF Has, Of
  <2> QED
    BY <2>1, <2>2
<1>9. Apart'
  BY <1>3, <1>8 DEF Apart
<1>10. ASSUME NEW d \in Browsers \ disturbed' PROVE Steady(d)'
  <2>1. Steady(d)
    BY <1>1, <1>10 DEF Undisturbed
  <2>2. CASE d # b
    <3>1. Of(d)' = Of(d) /\ \A q \in Of(d) : exch'[q] = exch[q]
      BY <1>3, <2>2 DEF Of, b, Active
    <3> QED
      BY <1>3, <1>5, <2>1, <2>2, <3>1
         DEF Steady, Replacing, Asking, At, Of, Active, Unrevoked
  <2>3. CASE d = b
    <3>1. answer = exch[s].answer
      BY <1>1, <1>10, <2>3
    <3>2. s \in Of(d)
      BY <1>3, <2>3 DEF Of, b
    <3>3. Of(d)' = {}
      BY <1>3, <2>1, <3>2 DEF Of, Steady
    <3>4. cookie'[d] \in Issued => tokens[cookie'[d]].end = "none"
      <4>1. CASE answer = "granted"
        BY <1>3, <1>5, <2>1, <2>3, <3>1, <3>2, <4>1 DEF Steady, Unrevoked
      <4>2. CASE answer = "cleared"
        BY <1>5, <2>3, <4>2, NoTokenIsNone
      <4>3. CASE answer \notin {"granted", "cleared"}
        <5>1. ~ Replacing(d)
          BY <2>1, <3>1, <3>2, <4>3 DEF Steady, Replacing
        <5> QED
          BY <1>5, <2>1, <2>3, <4>3, <5>1 DEF Steady, Unrevoked
      <4> QED
        BY <4>1, <4>2, <4>3
    <3> QED
      BY <1>3, <3>3, <3>4 DEF Steady, Unrevoked
  <2> QED
    BY <2>2, <2>3
<1> QED
  BY <1>2, <1>6, <1>7, <1>9, <1>10 DEF Undisturbed

\* A step of the server disturbs no other browser than those whose tokens it
\* sweeps.
LEMMA ServeKeeps ==
  ASSUME DInv, NEW s \in Exchanges, Serve(s) PROVE DInv'
<1> USE DEF DInv
<1> DEFINE b == BrowserAt(s)
<1>1. Served(s) /\ UNCHANGED <<cookie, tab, call, ops>>
  BY ServeEffect DEF Serve
<1>2. IInv'
  <2>1. ServerNext
    BY DEF Serve, ServerNext
  <2> QED
    BY <2>1, NextInv
<1>3. /\ Asking(s) /\ Active(s) /\ Active(s)'
      /\ exch'[s].kind = exch[s].kind
      /\ \A q \in Exchanges : q # s => exch'[q] = exch[q]
      /\ \A q \in Exchanges : Active(q)' = Active(q)
  BY <1>1 DEF Served, Moved, Granted, Declined, Asking, Active
<1>4. b \in Browsers
  BY Places
<1>5. disturbed \subseteq disturbed' /\ disturbed' \subseteq Browsers
      /\ (exch[s].stage = "swept" => Browsers \ {b} \subseteq disturbed')
  BY DEF Serve, TypeOK
<1> HIDE DEF b
<1>6. TypeOK'
  BY <1>1, <1>2, <1>5 DEF TypeOK, IInv
<1>7. Promised'
  BY <1>1, <1>3 DEF Promised
<1>8. Issued \subseteq Issued'
      /\ exch'[s].cookie \in {exch[s].cookie, NoToken, NextId}
      /\ (exch'[s].cookie = NextId =>
            exch[s].cookie = NextId \/ NextId \notin Issued)
      /\ (exch'[s].cookie \in Issued' \cup {NoToken}
            \/ exch'[s].cookie = exch[s].cookie)
  <2>1. CASE Moved(s)
    BY <2>1 DEF Moved, Issued
  <2>2. CASE Granted(s)
    BY <2>2 DEF Granted
  <2>3. CASE Declined(s)
    <3>1. NextId \notin Issued
      BY DEF NextId, Issued, IInv, ServerTypeOK
    <3> QED
      BY <2>3, <3>1 DEF Declined
  <2> QED
    BY <1>1, <2>1, <2>2, <2>3 DEF Served
<1>9. Known'
  BY <1>1, <1>3, <1>8 DEF Known
<1>10. \A d \in Browsers, i \in Issued : Has(d, i)' => Has(d, i)
  <2> SUFFICES ASSUME NEW d \in Browsers, NEW i \in Issued, Has(d, i)',
                      cookie'[d] # i
               PROVE  Has(d, i)
    BY <1>1 DEF Has
  <2>1. PICK q \in Exchanges :
          Active(q)' /\ BrowserAt(q) = d /\ exch'[q].cookie = i
    BY DEF Has, Of
  <2>2. exch[q].cookie = i
    BY <1>3, <1>8, <2>1, NoTokenIsNone
  <2> QED
    BY <1>3, <2>1, <2>2 DEF Has, Of
<1>11. \A d \in Browsers, i \in Issued' \ Issued : Has(d, i)' => d = b
  <2> SUFFICES ASSUME NEW d \in Browsers, NEW i \in Issued' \ Issued,
                      Has(d, i)', d # b
               PROVE  FALSE
    OBVIOUS
  <2>1. i \notin Issued \cup {NoToken}
    BY <1>2, NoTokenIsNone, RowType, SessionAssumption
       DEF IInv, ServerTypeOK, Issued, TokenIds
  <2> QED
    BY <1>1, <1>3, <2>1 DEF Has, Of, Known, b
<1>12. Apart'
  BY <1>8, <1>10, <1>11 DEF Apart
<1>13. ASSUME NEW d \in Browsers \ disturbed', d # b PROVE Steady(d)'
  <2>1. Steady(d) /\ exch[s].stage # "swept"
    BY <1>5, <1>13 DEF Undisturbed
  <2>2. Of(d)' = Of(d) /\ \A q \in Of(d) : exch'[q] = exch[q] /\ q # s
    BY <1>3, <1>13 DEF Of, b
  <2>3. \A i \in Issued : Has(d, i) /\ Unrevoked(i) => tokens'[i].end = "none"
    <3> SUFFICES ASSUME NEW i \in Issued, Has(d, i), Unrevoked(i)
                 PROVE  tokens'[i].end = "none"
      OBVIOUS
    <3>1. CASE exch[s].cookie = i
      BY <1>3, <1>4, <1>13, <3>1 DEF Apart, Has, Of, b
    <3>2. CASE exch[s].cookie # i
      BY <1>1, <2>1, <3>2 DEF Served, Spares
    <3> QED
      BY <3>1, <3>2
  <2>4. cookie[d] \in Issued \cup {NoToken} /\ NoToken \notin Issued'
    BY <1>2, NoTokenIsNone, RowType, SessionAssumption
       DEF Known, IInv, ServerTypeOK, Issued, TokenIds
  <2>5. Replacing(d)' = Replacing(d)
    BY <2>2 DEF Replacing
  <2>6. cookie'[d] \in Issued' /\ ~ Replacing(d)' =>
          tokens'[cookie'[d]].end = "none"
    BY <1>1, <2>1, <2>3, <2>4, <2>5 DEF Steady, Has
  <2>7. \A q \in Of(d) :
          exch[q].stage = "replied" /\ exch[q].answer = "granted" =>
            /\ exch[q].cookie \in Issued'
            /\ tokens'[exch[q].cookie].end = "none"
    BY <1>8, <2>1, <2>3 DEF Steady, Has
  <2> QED
    BY <1>1, <2>1, <2>2, <2>6, <2>7 DEF Steady, Asking, Active, At, Unrevoked
<1>14. ASSUME b \notin disturbed' PROVE Steady(b)'
  <2>1. Steady(b)
    BY <1>4, <1>5, <1>14 DEF Undisturbed
  <2>2. Of(b)' = {s} /\ Of(b) = {s}
    BY <1>3, <2>1 DEF Of, Steady, b
  <2>3. /\ exch[s].cookie = cookie[b] /\ ~ Replacing(b)
        /\ ~ At(s, "refresh", "reused") /\ ~ At(s, "refresh", "swept")
        /\ cookie[b] \in Issued => Unrevoked(cookie[b])
    BY <1>3, <2>1, <2>2 DEF Steady, Replacing, Asking
  <2>4. CASE Moved(s)
    BY <1>1, <2>2, <2>3, <2>4
       DEF Steady, Replacing, Moved, Asking, Active, Unrevoked, Issued
  <2>5. CASE Granted(s)
    <3>1. Replacing(b)'
      BY <2>2, <2>5 DEF Replacing, Granted
    <3> QED
      BY <2>2, <2>5, <3>1 DEF Steady, Granted, Asking, At, Unrevoked
  <2>6. CASE Declined(s) /\ exch'[s].answer = "cleared"
    <3>1. Replacing(b)'
      BY <2>2, <2>6 DEF Replacing, Declined
    <3> QED
      BY <2>2, <2>6, <3>1 DEF Steady, Declined, Asking, At
  <2>7. CASE Declined(s) /\ exch'[s].answer = "refused" /\ tokens' = tokens
    BY <1>1, <2>2, <2>3, <2>7
       DEF Steady, Declined, Asking, At, Unrevoked, Issued
  <2> QED
    BY <1>1, <2>3, <2>4, <2>5, <2>6, <2>7 DEF Served, Declined
<1> QED
  BY <1>2, <1>6, <1>7, <1>9, <1>12, <1>13, <1>14 DEF Undisturbed

-----------------------------------------------------------------------------
(* The tabs and their calls.                                               *)

CallState == [stage : {"idle", "sent", "waiting"}, retried : BOOLEAN]

\* A step of a page that starts no exchange.
LEMMA QuietKeeps ==
  ASSUME DInv, UNCHANGED <<serverVars, cookie, disturbed>>, TypeOK',
         \A t \in Tabs : tab[t].refreshing => tab'[t].refreshing
  PROVE  DInv'
<1> USE DEF DInv
<1>1. IInv' /\ Issued' = Issued /\ exch' = exch /\ tokens' = tokens
  BY NextInv DEF serverVars, Issued
<1>2. Promised'
  BY <1>1, Places DEF Promised, Active
<1>3. Known' /\ Apart'
  BY <1>1 DEF Known, Apart, Has, Of, Active
<1>4. Undisturbed'
  BY <1>1 DEF Undisturbed, Steady, Replacing, Of, Active, Asking, At, Unrevoked
<1> QED
  BY <1>1, <1>2, <1>3, <1>4

\* A change of one tab keeps the types.
LEMMA TabType ==
  ASSUME TypeOK, NEW t \in Tabs, NEW new \in TabState,
         tab' = [tab EXCEPT ![t] = new],
         new.phase = "loading" => new.refreshing
  PROVE  /\ tab' \in [Tabs -> TabState] /\ tab'[t] = new
         /\ \A u \in Tabs : u # t => tab'[u] = tab[u]
         /\ \A u \in Tabs : tab'[u].phase = "loading" => tab'[u].refreshing
BY DEF TypeOK, TabState

LEMMA OpsType == ASSUME TypeOK, Count PROVE ops' \in 0 .. MaxOps
BY DashboardAssumption DEF TypeOK, Count

LEMMA OpenKeeps ==
  ASSUME DInv, NEW t \in Tabs, Open(t) PROVE DInv'
<1> USE DEF DInv
<1> DEFINE new == [NoTab EXCEPT !.phase = "loading", !.refreshing = TRUE]
<1>1. new \in TabState /\ new.refreshing
  BY DEF NoTab, TabState, Phases
<1>2. /\ tab' = [tab EXCEPT ![t] = new] /\ ~ tab[t].refreshing
      /\ Begin(t, "refresh", NoPassword, NoPassword) /\ Count
      /\ call' = call
  BY DEF Open, Operate
<1>3. t \in Exchanges /\ TabAt(t) = t
  BY DashboardAssumption DEF TabAt
<1> HIDE DEF new
<1>4. /\ tab' \in [Tabs -> TabState] /\ tab'[t] = new
      /\ \A u \in Tabs : u # t => tab'[u] = tab[u]
      /\ \A u \in Tabs : tab'[u].phase = "loading" => tab'[u].refreshing
  BY <1>1, <1>2, TabType
<1>5. /\ IInv' /\ Promised' /\ Known' /\ Apart' /\ Undisturbed'
      /\ disturbed' \subseteq Browsers
  BY <1>1, <1>2, <1>3, <1>4, BeginKeeps DEF Kinds
<1>6. TypeOK'
  BY <1>2, <1>4, <1>5, OpsType DEF TypeOK, TabState, IInv, Begin
<1> QED
  BY <1>5, <1>6

\* The forms: no refresh, and nothing of the tab changes yet.
LEMMA FormKeeps ==
  ASSUME DInv, NEW t \in Tabs, NEW kind \in Kinds \ {"refresh"},
         NEW given \in Passwords \cup {NoPassword},
         NEW wanted \in Passwords \cup {NoPassword},
         Begin(t, kind, given, wanted), Count, UNCHANGED <<tab, call>>
  PROVE  DInv'
<1> USE DEF DInv
<1>1. t \in Exchanges
  BY DashboardAssumption
<1>2. /\ IInv' /\ Promised' /\ Known' /\ Apart' /\ Undisturbed'
      /\ disturbed' \subseteq Browsers
  BY <1>1, BeginKeeps
<1>3. TypeOK'
  BY <1>2, OpsType DEF TypeOK, IInv, Begin
<1> QED
  BY <1>2, <1>3

LEMMA UnauthorizedKeeps ==
  ASSUME DInv, NEW c \in Calls, Unauthorized(c) PROVE DInv'
<1> USE DEF DInv
<1>1. /\ c \in Exchanges /\ TabAt(c) = TabOf[c] /\ TabOf[c] \in Tabs
      /\ ops' = ops
  BY DashboardAssumption DEF TabAt, Unauthorized
<1>2. call' \in [Calls -> CallState]
  BY DEF Unauthorized, TypeOK, CallState
<1>3. CASE UNCHANGED <<serverVars, cookie, tab, disturbed>>
  <2>1. TypeOK'
    BY <1>1, <1>2, <1>3, NextInv DEF TypeOK, CallState, IInv
  <2> QED
    BY <1>3, <2>1, QuietKeeps
<1>4. CASE /\ ~ tab[TabOf[c]].refreshing
           /\ tab' = [tab EXCEPT ![TabOf[c]].refreshing = TRUE]
           /\ Begin(c, "refresh", NoPassword, NoPassword)
  <2> DEFINE new == [tab[TabOf[c]] EXCEPT !.refreshing = TRUE]
  <2>1. new \in TabState /\ new.refreshing
    BY <1>1 DEF TypeOK, TabState
  <2>2. tab' = [tab EXCEPT ![TabOf[c]] = new]
    BY <1>4
  <2> HIDE DEF new
  <2>3. /\ tab' \in [Tabs -> TabState] /\ tab'[TabOf[c]] = new
        /\ \A u \in Tabs : u # TabOf[c] => tab'[u] = tab[u]
        /\ \A u \in Tabs : tab'[u].phase = "loading" => tab'[u].refreshing
    BY <1>1, <2>1, <2>2, TabType
  <2>4. /\ IInv' /\ Promised' /\ Known' /\ Apart' /\ Undisturbed'
        /\ disturbed' \subseteq Browsers
    BY <1>1, <1>4, <2>1, <2>3, BeginKeeps DEF Kinds
  <2>5. TypeOK'
    BY <1>1, <1>2, <1>4, <2>3, <2>4
       DEF TypeOK, TabState, CallState, IInv, Begin
  <2> QED
    BY <2>4, <2>5
<1> QED
  BY <1>3, <1>4 DEF Unauthorized, MayRefresh

LEMMA PageKeeps ==
  ASSUME DInv,
         \/ \E t \in Tabs : Me(t) \/ ExpireAccess(t)
         \/ \E c \in Calls : Send(c) \/ AnswerCall(c)
  PROVE  DInv'
<1> USE DEF DInv
<1>0. IInv' /\ UNCHANGED <<serverVars, cookie, disturbed>>
  BY NextInv DEF Me, ExpireAccess, Send, AnswerCall
<1>1. ASSUME NEW t \in Tabs, Me(t) PROVE DInv'
  <2>1. PICK found \in BOOLEAN :
          tab' = [tab EXCEPT ![t] =
                    [tab[t] EXCEPT !.phase = "ready", !.user = found]]
    BY <1>1 DEF Me
  <2> DEFINE new == [tab[t] EXCEPT !.phase = "ready", !.user = found]
  <2>2. new \in TabState /\ new.phase = "ready"
        /\ new.refreshing = tab[t].refreshing
    <3>1. tab[t] \in TabState
      BY DEF TypeOK, TabState
    <3>2. CASE found = TRUE
      BY <3>1, <3>2 DEF TabState, Phases
    <3>3. CASE found = FALSE
      BY <3>1, <3>3 DEF TabState, Phases
    <3> QED
      BY <3>2, <3>3
  <2>3. tab' = [tab EXCEPT ![t] = new]
    BY <2>1
  <2> HIDE DEF new
  <2>4. /\ tab' \in [Tabs -> TabState] /\ tab'[t] = new
        /\ \A u \in Tabs : u # t => tab'[u] = tab[u]
        /\ \A u \in Tabs : tab'[u].phase = "loading" => tab'[u].refreshing
    BY <2>2, <2>3, TabType
  <2>5. TypeOK'
    BY <1>0, <1>1, <2>4 DEF TypeOK, TabState, IInv, Me
  <2> QED
    BY <1>0, <2>2, <2>4, <2>5, QuietKeeps
<1>2. ASSUME NEW t \in Tabs, ExpireAccess(t) PROVE DInv'
  <2> DEFINE new == [tab[t] EXCEPT !.access = FALSE]
  <2>1. new \in TabState /\ new.refreshing = tab[t].refreshing
        /\ new.phase = tab[t].phase
    <3>1. tab[t] \in TabState
      BY DEF TypeOK, TabState
    <3> QED
      BY <3>1 DEF TabState
  <2>2. tab' = [tab EXCEPT ![t] = new] /\ Count /\ call' = call
    BY <1>2 DEF ExpireAccess
  <2> HIDE DEF new
  <2>3. /\ tab' \in [Tabs -> TabState] /\ tab'[t] = new
        /\ \A u \in Tabs : u # t => tab'[u] = tab[u]
        /\ \A u \in Tabs : tab'[u].phase = "loading" => tab'[u].refreshing
    BY <2>1, <2>2, TabType DEF TypeOK
  <2>4. TypeOK'
    BY <1>0, <2>2, <2>3, OpsType DEF TypeOK, TabState, IInv
  <2> QED
    BY <1>0, <2>1, <2>3, <2>4, QuietKeeps
<1>3. ASSUME NEW c \in Calls, Send(c) \/ AnswerCall(c) PROVE DInv'
  <2>1. call' \in [Calls -> CallState] /\ UNCHANGED <<tab, ops>>
    <3>1. CASE Send(c)
      BY <3>1 DEF Send, TypeOK, CallState
    <3>2. CASE AnswerCall(c)
      BY <3>2 DEF AnswerCall, TypeOK, CallState, NoCall
    <3> QED
      BY <1>3, <3>1, <3>2
  <2>2. TypeOK'
    BY <1>0, <2>1 DEF TypeOK, CallState, IInv
  <2> QED
    BY <1>0, <2>1, <2>2, QuietKeeps
<1> QED
  BY <1>1, <1>2, <1>3

LEMMA ExpireKeeps ==
  ASSUME DInv, NEW i \in Issued, ExpireRow(i) PROVE DInv'
<1> USE DEF DInv
<1>1. ExpireToken(i) /\ UNCHANGED clientVars /\ exch' = exch
  BY DEF ExpireRow, ExpireToken
<1>2. IInv'
  <2>1. ServerNext
    BY <1>1 DEF ServerNext
  <2> QED
    BY <2>1, NextInv
<1>3. Issued' = Issued
      /\ \A j \in Issued : Unrevoked(j) => tokens'[j].end = "none"
  BY <1>1 DEF ExpireToken, IInv, ServerTypeOK, Issued, Unrevoked, Token
<1>4. TypeOK' /\ Promised'
  BY <1>1, <1>2 DEF clientVars, TypeOK, IInv, Promised, Active
<1>5. Known' /\ Apart'
  BY <1>1, <1>3 DEF clientVars, Known, Apart, Has, Of, Active
<1>6. Undisturbed'
  BY <1>1, <1>3
     DEF clientVars, Undisturbed, Steady, Replacing, Of, Active, Asking, At,
         Unrevoked
<1> QED
  BY <1>2, <1>4, <1>5, <1>6

-----------------------------------------------------------------------------
(* The system of dashboards and accounts.                                  *)

LEMMA DashboardNext == DInv /\ [Next]_vars => DInv'
<1> SUFFICES ASSUME DInv, [Next]_vars PROVE DInv'
  OBVIOUS
<1>1. CASE UNCHANGED vars
  <2>1. TypeOK'
    BY <1>1, NextInv DEF vars, clientVars, TypeOK, DInv, IInv
  <2> QED
    BY <1>1, <2>1, QuietKeeps DEF vars, clientVars
<1>2. ASSUME NEW t \in Tabs, SignIn(t) PROVE DInv'
  <2>1. Count /\ UNCHANGED <<tab, call>>
    BY <1>2 DEF SignIn, Operate
  <2>2. PICK kind \in {"login", "register"}, given \in Passwords :
          Begin(t, kind, given, given)
    BY <1>2 DEF SignIn
  <2> QED
    BY <2>1, <2>2, FormKeeps DEF Kinds
<1>3. ASSUME NEW t \in Tabs, SubmitPassword(t) PROVE DInv'
  <2>1. Count /\ UNCHANGED <<tab, call>>
    BY <1>3 DEF SubmitPassword, Operate
  <2>2. PICK given \in Passwords, wanted \in Passwords :
          Begin(t, "password", given, wanted)
    BY <1>3 DEF SubmitPassword
  <2> QED
    BY <2>1, <2>2, FormKeeps DEF Kinds
<1>4. ASSUME NEW t \in Tabs, SignOut(t) PROVE DInv'
  BY <1>4, FormKeeps DEF SignOut, Operate, Kinds
<1> QED
  BY <1>1, <1>2, <1>3, <1>4, OpenKeeps, PageKeeps, UnauthorizedKeeps,
     DeliverKeeps, ServeKeeps, ExpireKeeps DEF Next

LEMMA DashboardInit == Init => DInv
<1> SUFFICES ASSUME Init PROVE DInv
  OBVIOUS
<1>1. PICK signed \in Starts :
        /\ Started(Len(signed))
        /\ cookie = [b \in Browsers |->
             IF \E i \in DOMAIN signed : BrowserOf[signed[i]] = b
             THEN CHOOSE i \in DOMAIN signed : BrowserOf[signed[i]] = b
             ELSE NoToken]
        /\ tab = [t \in Tabs |->
             IF \E i \in DOMAIN signed : signed[i] = t
             THEN [phase |-> "ready", access |-> TRUE, user |-> TRUE,
                   refreshing |-> FALSE]
             ELSE NoTab]
        /\ call = [c \in Calls |-> NoCall] /\ ops = 0 /\ disturbed = {}
  BY DEF Init
<1>2. /\ Len(signed) \in 0 .. MaxTokens /\ DOMAIN signed = 1 .. Len(signed)
  BY SessionAssumption, DashboardAssumption
<1>3. IInv
  BY <1>1, <1>2, StartInv
<1>4. Issued = DOMAIN signed /\ \A i \in Issued : Unrevoked(i)
  <2>1. /\ DOMAIN tokens = 1 .. Len(signed) /\ Len(tokens) \in Nat
        /\ \A i \in 1 .. Len(signed) : tokens[i].end = "none"
    BY <1>1, <1>3 DEF Started, IInv, ServerTypeOK
  <2>2. DOMAIN tokens = Issued
    BY <1>3 DEF IInv, ServerTypeOK, Issued
  <2> QED
    BY <1>2, <2>1, <2>2 DEF Unrevoked
<1>5. \A s \in Exchanges : ~ Active(s)
  BY <1>1 DEF Started, Active, NoExchange
<1>6. \A b \in Browsers :
        \/ cookie[b] = NoToken
        \/ cookie[b] \in Issued /\ BrowserOf[signed[cookie[b]]] = b
  BY <1>1, <1>4
<1>7. /\ cookie \in [Browsers -> TokenIds \cup {NoToken}]
      /\ NoToken \notin Issued
  BY <1>1, <1>3, <1>6, NoTokenIsNone, RowType DEF IInv
<1>8. TypeOK
  <2>1. tab \in [Tabs -> TabState]
        /\ \A t \in Tabs : tab[t].phase # "loading"
    BY <1>1 DEF TabState, NoTab, Phases
  <2>2. call \in [Calls -> CallState]
    BY <1>1 DEF CallState, NoCall
  <2> QED
    BY <1>1, <1>3, <1>7, <2>1, <2>2, DashboardAssumption
       DEF TypeOK, TabState, CallState, IInv
<1>9. Promised /\ Known
  BY <1>5, <1>6 DEF Promised, Known
<1>10. Apart
  BY <1>5, <1>6, <1>7 DEF Apart, Has, Of
<1>11. Undisturbed
  BY <1>4, <1>5 DEF Undisturbed, Steady, Of
<1> QED
  BY <1>3, <1>8, <1>9, <1>10, <1>11 DEF DInv

THEOREM DashboardInvariant == Spec => []DInv
BY DashboardInit, DashboardNext, PTL DEF Spec

\* Every step of a dashboard is one of SessionService, or does not touch the
\* accounts.
LEMMA StepRefines == DInv /\ [Next]_vars => [ServerNext]_serverVars
<1> SUFFICES ASSUME DInv, [Next]_vars PROVE [ServerNext]_serverVars
  OBVIOUS
<1>1. ASSUME NEW s \in Exchanges, NEW kind \in Kinds,
             NEW given \in Passwords \cup {NoPassword},
             NEW wanted \in Passwords \cup {NoPassword},
             Begin(s, kind, given, wanted)
      PROVE  ServerNext
  <2>1. cookie[BrowserAt(s)] \in TokenIds \cup {NoToken}
    BY Places DEF DInv, TypeOK
  <2> QED
    BY <1>1, <2>1 DEF Begin, ServerNext
<1>2. ASSUME NEW t \in Tabs,
             Open(t) \/ SignIn(t) \/ SubmitPassword(t) \/ SignOut(t)
      PROVE  ServerNext
  <2>1. t \in Exchanges
    BY DashboardAssumption
  <2> QED
    BY <1>1, <1>2, <2>1 DEF Open, SignIn, SubmitPassword, SignOut, Kinds
<1>3. ASSUME NEW c \in Calls, Unauthorized(c)
      PROVE  ServerNext \/ UNCHANGED serverVars
  <2>1. c \in Exchanges
    BY DashboardAssumption
  <2> QED
    BY <1>1, <1>3, <2>1 DEF Unauthorized, Kinds
<1>4. ASSUME NEW s \in Exchanges, Deliver(s) \/ Serve(s) PROVE ServerNext
  BY <1>4 DEF Deliver, Serve, ServerNext
<1>5. ASSUME NEW i \in Issued, ExpireRow(i) PROVE ServerNext
  BY <1>5 DEF ExpireRow, ServerNext
<1>6. CASE \/ \E t \in Tabs : Me(t) \/ ExpireAccess(t)
           \/ \E c \in Calls : Send(c) \/ AnswerCall(c)
           \/ UNCHANGED vars
  BY <1>6 DEF Me, ExpireAccess, Send, AnswerCall, vars
<1> QED
  BY <1>2, <1>3, <1>4, <1>5, <1>6 DEF Next

\* Browsers, tabs and calls together use the account only as SessionService
\* lets any client use it: what holds of the service alone holds of both.
THEOREM DashboardsAreClients == Spec => ServerSpec
<1>1. Init => ServerInit
  <2> SUFFICES ASSUME Init PROVE ServerInit
    OBVIOUS
  <2>1. PICK signed \in Starts : Started(Len(signed))
    BY DEF Init
  <2>2. Len(signed) \in 0 .. MaxTokens
    BY SessionAssumption, DashboardAssumption
  <2> QED
    BY <2>1, <2>2 DEF ServerInit
<1> QED
  BY <1>1, StepRefines, DashboardInvariant, PTL DEF Spec, ServerSpec

\* Dashboards of any number do not find a token usable that is older than the
\* last password change, nor two of one session that did not fork.
THEOREM AccountsStaySound == Spec => [](LiveSinceLastChange /\ OneLiveToken)
BY DashboardsAreClients, ChangeEndsSessions, RotationReplaces, PTL

\* Types, of the dashboards and of the server.
THEOREM DashboardTypes == Spec => []TypeOK
<1>1. DInv => TypeOK
  BY DEF DInv
<1> QED
  BY <1>1, DashboardInvariant, PTL

\* The token a browser presents is found revoked only after an answer to it
\* was lost, exchanges of it overlapped, or another browser swept the tokens:
\* for any number of parallel 401s refreshPromise keeps a tab from doing it
\* to itself (api.ts:225-243).
THEOREM ReuseIsCaused == Spec => []ReuseNeedsCause
<1>1. DInv => ReuseNeedsCause
  <2> SUFFICES ASSUME DInv, NEW s \in Exchanges, At(s, "refresh", "reused"),
                      BrowserAt(s) \notin disturbed
               PROVE  FALSE
    BY DEF ReuseNeedsCause
  <2>1. Steady(BrowserAt(s))
    BY Places DEF DInv, Undisturbed
  <2>2. s \in Of(BrowserAt(s))
    BY DEF Of, Active, At
  <2> QED
    BY <2>1, <2>2 DEF Steady
<1> QED
  BY <1>1, DashboardInvariant, PTL

=============================================================================
