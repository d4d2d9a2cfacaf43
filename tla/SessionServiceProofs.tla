------------------------ MODULE SessionServiceProofs ------------------------
(***************************************************************************)
(* For any number of exchanges, passwords and tokens: types, that no token  *)
(* older than the last password change is usable, and that a session has    *)
(* one usable token unless its token was rotated twice at once.             *)
(*                                                                         *)
(* LiveSinceLastChange needs to know what a change that is under way will   *)
(* leave usable (SweepComplete) and that there is one at a time (OneSweep). *)
(* OneLiveToken needs that a rotation in progress holds the only usable     *)
(* token of its session (HoldsTheOnly), and that two rotations of a session *)
(* have been noted (ForkNoted).                                             *)
(***************************************************************************)
EXTENDS SessionService, TLAPS

\* Rotations present a token that was issued, and sessions begin with one.
Presented ==
  \A r \in Exchanges : At(r, "refresh", "verified") => exch[r].cookie \in Issued

Rooted == \A i \in Issued : tokens[i].root \in Issued

SweepComplete ==
  \A r \in Exchanges : At(r, "password", "swept") =>
    \A i \in Issued :
      Unrevoked(i) /\ i \notin exch[r].swept => tokens[i].born >= changes + 1

OneSweep ==
  \A r, q \in Exchanges :
    At(r, "password", "swept") /\ At(q, "password", "swept") => r = q

RootAt(r) == tokens[exch[r].cookie].root

HoldsTheOnly ==
  \A r \in Exchanges :
    At(r, "refresh", "verified") /\ RootAt(r) \notin forked =>
    \A i \in Issued :
      Unrevoked(i) /\ tokens[i].root = RootAt(r) => i = exch[r].cookie

ForkNoted ==
  \A r, q \in Exchanges :
    /\ At(r, "refresh", "verified") /\ At(q, "refresh", "verified")
    /\ r # q /\ RootAt(r) = RootAt(q)
    => RootAt(r) \in forked

ChangeInv == LiveSinceLastChange /\ SweepComplete /\ OneSweep
SessionInv == OneLiveToken /\ HoldsTheOnly /\ ForkNoted

IInv == ServerTypeOK /\ Presented /\ Rooted /\ ChangeInv /\ SessionInv

-----------------------------------------------------------------------------
(* Rows and exchanges.                                                     *)

\* Rows that are what the table holds, some of them revoked or expired.
Shrunk(rows) ==
  /\ rows \in Seq(Token) /\ Len(rows) = Len(tokens)
  /\ \A i \in Issued : /\ rows[i].root = tokens[i].root
                       /\ rows[i].born = tokens[i].born
                       /\ rows[i].end = "none" => Unrevoked(i)

\* No exchange has come to hold a token, or begun to revoke for a change.
Settles ==
  \A s \in Exchanges :
    \/ exch'[s] = exch[s]
    \/ ~ At(s, "refresh", "verified")' /\ ~ At(s, "password", "swept")'

LEMMA RowType ==
  ASSUME ServerTypeOK, NEW i \in Issued
  PROVE  /\ tokens[i] \in Token /\ i \in TokenIds /\ tokens[i].born \in Nat
         /\ tokens[i].root \in TokenIds
<1>1. tokens \in Seq(Token) /\ Len(tokens) \in Nat /\ Len(tokens) <= MaxTokens
  BY DEF ServerTypeOK
<1>2. i \in TokenIds
  BY <1>1, SessionAssumption DEF Issued, TokenIds
<1>3. tokens[i] \in Token
  BY <1>1 DEF Issued
<1> QED
  BY <1>2, <1>3 DEF Token

LEMMA SameShrunk == ASSUME ServerTypeOK PROVE Shrunk(tokens)
BY DEF ServerTypeOK, Shrunk, Unrevoked

\* A row that only changes how it ended is a row.
LEMMA EndRow ==
  ASSUME ServerTypeOK, NEW i \in Issued, NEW how \in Ends
  PROVE  LET row == [tokens[i] EXCEPT !.end = how] IN
         /\ row \in Token /\ row.end = how
         /\ row.root = tokens[i].root /\ row.born = tokens[i].born
BY RowType DEF Token

LEMMA EndedShrunk ==
  ASSUME ServerTypeOK, NEW which, NEW how \in Ends \ {"none"}
  PROVE  Shrunk(Ended(which, how))
<1> DEFINE rows == Ended(which, how)
<1>1. /\ DOMAIN rows = Issued
      /\ \A i \in Issued :
           rows[i] = IF i \in which /\ Unrevoked(i)
                     THEN [tokens[i] EXCEPT !.end = how] ELSE tokens[i]
  BY DEF Ended
<1>2. \A i \in Issued : rows[i] \in Token
  BY <1>1, EndRow, RowType
<1>3. Len(tokens) \in Nat
  BY DEF ServerTypeOK
<1>4. rows \in Seq(Token) /\ Len(rows) = Len(tokens)
  BY <1>2, <1>3 DEF Ended, Issued
<1>5. ASSUME NEW i \in Issued
      PROVE  /\ rows[i].root = tokens[i].root
             /\ rows[i].born = tokens[i].born
             /\ rows[i].end = "none" => Unrevoked(i)
  <2>1. CASE i \in which /\ Unrevoked(i)
    <3> DEFINE row == [tokens[i] EXCEPT !.end = how]
    <3>1. row.end = how /\ row.root = tokens[i].root
          /\ row.born = tokens[i].born
      BY EndRow
    <3>2. rows[i] = row
      BY <1>1, <2>1
    <3> HIDE DEF row, rows
    <3> QED
      BY <3>1, <3>2
  <2>2. CASE ~ (i \in which /\ Unrevoked(i))
    BY <1>1, <2>2 DEF Unrevoked
  <2> QED
    BY <2>1, <2>2
<1> QED
  BY <1>4, <1>5 DEF Shrunk

LEMMA ReplacedShrunk ==
  ASSUME ServerTypeOK, NEW r \in Exchanges, exch[r].cookie \in Issued
  PROVE  Shrunk(Replaced(r)) /\ Replaced(r)[exch[r].cookie].end # "none"
<1> DEFINE i == exch[r].cookie
           row == [tokens[i] EXCEPT !.end = "rotated"]
<1>1. Replaced(r) = [tokens EXCEPT ![i] = row]
  BY DEF Replaced
<1>2. row \in Token /\ row.end = "rotated" /\ row.root = tokens[i].root
      /\ row.born = tokens[i].born
  BY EndRow DEF Ends
<1> HIDE DEF row
<1> QED
  BY <1>1, <1>2 DEF Shrunk, ServerTypeOK, Issued, Unrevoked

LEMMA ExpireShrunk ==
  ASSUME ServerTypeOK, NEW i \in Issued, ExpireToken(i)
  PROVE  Shrunk(tokens')
<1> DEFINE row == [tokens[i] EXCEPT !.expired = TRUE]
<1>1. tokens' = [tokens EXCEPT ![i] = row]
  BY DEF ExpireToken
<1>2. row \in Token /\ row.end = tokens[i].end /\ row.root = tokens[i].root
      /\ row.born = tokens[i].born
  BY RowType DEF Token
<1> HIDE DEF row
<1> QED
  BY <1>1, <1>2 DEF Shrunk, ServerTypeOK, Issued, Unrevoked

\* An answer ends what the exchange held.
LEMMA ReplyKeeps ==
  ASSUME ServerTypeOK, NEW r \in Exchanges,
         NEW answer \in {"granted", "cleared", "refused"},
         NEW token \in TokenIds \cup {NoToken}, Reply(r, answer, token)
  PROVE  /\ exch' \in [Exchanges -> Exchange] /\ Settles
         /\ exch'[r].stage = "replied" /\ exch'[r].kind = exch[r].kind
         /\ exch'[r].answer = answer /\ exch'[r].cookie = token
         /\ \A s \in Exchanges : s # r => exch'[s] = exch[s]
<1> DEFINE e == [NoExchange EXCEPT !.stage = "replied", !.kind = exch[r].kind,
                                   !.answer = answer, !.cookie = token]
<1>1. exch' = [exch EXCEPT ![r] = e]
  BY DEF Reply
<1>2. exch[r] \in Exchange
  BY DEF ServerTypeOK
<1>3. e \in Exchange /\ e.stage = "replied" /\ e.kind = exch[r].kind
      /\ e.answer = answer /\ e.cookie = token
  BY <1>2 DEF NoExchange, Exchange, Stages
<1> HIDE DEF e
<1>4. exch' \in [Exchanges -> Exchange] /\ exch'[r] = e
      /\ \A s \in Exchanges : s # r => exch'[s] = exch[s]
  BY <1>1, <1>3 DEF ServerTypeOK
<1> QED
  BY <1>3, <1>4 DEF Settles, At

LEMMA GotoKeeps ==
  ASSUME ServerTypeOK, NEW r \in Exchanges, NEW stage \in Stages,
         Goto(r, stage)
  PROVE  /\ exch' \in [Exchanges -> Exchange]
         /\ exch'[r].stage = stage /\ exch'[r].kind = exch[r].kind
         /\ exch'[r].cookie = exch[r].cookie
         /\ \A s \in Exchanges : s # r => exch'[s] = exch[s]
<1> DEFINE e == [exch[r] EXCEPT !.stage = stage]
<1>1. exch' = [exch EXCEPT ![r] = e]
  BY DEF Goto
<1>2. exch[r] \in Exchange
  BY DEF ServerTypeOK
<1>3. e \in Exchange /\ e.stage = stage /\ e.kind = exch[r].kind
      /\ e.cookie = exch[r].cookie
  BY <1>2 DEF Exchange
<1> HIDE DEF e
<1> QED
  BY <1>1, <1>3 DEF ServerTypeOK

LEMMA SweepKeeps ==
  ASSUME ServerTypeOK, NEW r \in Exchanges, Sweep(r)
  PROVE  /\ exch' \in [Exchanges -> Exchange]
         /\ exch'[r].stage = "swept" /\ exch'[r].kind = exch[r].kind
         /\ exch'[r].swept = Found(r)
         /\ \A s \in Exchanges : s # r => exch'[s] = exch[s]
<1> DEFINE e == [exch[r] EXCEPT !.stage = "swept", !.swept = Found(r)]
<1>1. exch' = [exch EXCEPT ![r] = e]
  BY DEF Sweep
<1>2. exch[r] \in Exchange
  BY DEF ServerTypeOK
<1>3. Found(r) \subseteq TokenIds
  BY RowType DEF Found
<1>4. e \in Exchange /\ e.stage = "swept" /\ e.kind = exch[r].kind
      /\ e.swept = Found(r)
  BY <1>2, <1>3 DEF Exchange, Stages
<1> HIDE DEF e
<1> QED
  BY <1>1, <1>4 DEF ServerTypeOK

LEMMA CloseKeeps ==
  ASSUME ServerTypeOK, NEW r \in Exchanges, Close(r)
  PROVE  exch' \in [Exchanges -> Exchange] /\ Settles
<1>1. NoExchange \in Exchange /\ NoExchange.stage = "idle"
  BY DEF NoExchange, Exchange, Stages, Kinds
<1>2. exch' = [exch EXCEPT ![r] = NoExchange]
  BY DEF Close
<1> QED
  BY <1>1, <1>2 DEF ServerTypeOK, Settles, At

LEMMA ReceiveKeeps ==
  ASSUME ServerTypeOK, NEW r \in Exchanges, NEW kind \in Kinds,
         NEW token \in TokenIds \cup {NoToken},
         NEW given \in Passwords \cup {NoPassword},
         NEW wanted \in Passwords \cup {NoPassword},
         Receive(r, kind, token, given, wanted)
  PROVE  exch' \in [Exchanges -> Exchange] /\ Settles
<1> DEFINE e == [stage |-> "sent", kind |-> kind, cookie |-> token,
                 given |-> given, wanted |-> wanted, swept |-> {},
                 answer |-> "none"]
<1>1. e \in Exchange /\ e.stage = "sent"
  BY DEF Exchange, Stages
<1>2. exch' = [exch EXCEPT ![r] = e]
  BY DEF Receive
<1> HIDE DEF e
<1> QED
  BY <1>1, <1>2 DEF ServerTypeOK, Settles, At

\* Rows that a request only revokes or expires keep the invariant, when no
\* exchange comes to hold a token.
Counters == UNCHANGED <<changes, forked>>

LEMMA ShrinkKeeps ==
  ASSUME IInv, Shrunk(tokens'), Settles, Counters
  PROVE  Presented' /\ Rooted' /\ ChangeInv' /\ SessionInv'
<1> USE DEF IInv, Counters
<1>1. Issued' = Issued
  BY DEF Shrunk, Issued
<1>2. \A i \in Issued : /\ tokens'[i].root = tokens[i].root
                        /\ tokens'[i].born = tokens[i].born
                        /\ Unrevoked(i)' => Unrevoked(i)
  BY DEF Shrunk, Unrevoked
<1>3. \A s \in Exchanges :
        At(s, "refresh", "verified")' \/ At(s, "password", "swept")'
          => exch'[s] = exch[s]
  BY DEF Settles
<1>4. \A s \in Exchanges :
        /\ At(s, "refresh", "verified")' =>
             /\ At(s, "refresh", "verified") /\ exch[s].cookie \in Issued
             /\ exch'[s].cookie = exch[s].cookie /\ RootAt(s)' = RootAt(s)
        /\ At(s, "password", "swept")' =>
             At(s, "password", "swept") /\ exch'[s].swept = exch[s].swept
  BY <1>2, <1>3 DEF At, Presented, RootAt
<1>5. Presented' /\ Rooted'
  BY <1>1, <1>2, <1>4 DEF Presented, Rooted
<1>6. LiveSinceLastChange'
  BY <1>1, <1>2 DEF ChangeInv, LiveSinceLastChange
<1>7. SweepComplete'
  BY <1>1, <1>2, <1>4 DEF ChangeInv, SweepComplete
<1>8. OneSweep'
  BY <1>4 DEF ChangeInv, OneSweep
<1>9. OneLiveToken'
  BY <1>1, <1>2 DEF SessionInv, OneLiveToken
<1>10. HoldsTheOnly'
  BY <1>1, <1>2, <1>4 DEF SessionInv, HoldsTheOnly
<1>11. ForkNoted'
  BY <1>4 DEF SessionInv, ForkNoted
<1> QED
  BY <1>5, <1>6, <1>7, <1>8, <1>9, <1>10, <1>11 DEF ChangeInv, SessionInv

-----------------------------------------------------------------------------
(* A token is issued.                                                      *)

\* The table after a token has been issued: what was there, shrunk, and one
\* more row.
LEMMA IssueRows ==
  ASSUME ServerTypeOK, NEW r \in Exchanges, NEW rows, Shrunk(rows),
         NEW root \in TokenIds, NEW born \in Nat, Issue(r, rows, root, born)
  PROVE  /\ tokens' \in Seq(Token) /\ Len(tokens') = NextId
         /\ Len(tokens') <= MaxTokens /\ NextId \in TokenIds
         /\ NextId \notin Issued /\ Issued' = Issued \cup {NextId}
         /\ \A i \in Issued : /\ tokens'[i] = rows[i]
                              /\ tokens'[i].root = tokens[i].root
                              /\ tokens'[i].born = tokens[i].born
                              /\ Unrevoked(i)' => Unrevoked(i)
         /\ tokens'[NextId].root = root /\ tokens'[NextId].born = born
         /\ tokens'[NextId].end = "none"
<1> DEFINE new == NewToken(r, root, born)
<1>1. exch[r].kind \in Kinds
  BY DEF ServerTypeOK, Exchange
<1>2. new \in Token /\ new.root = root /\ new.born = born
      /\ new.end = "none"
  BY <1>1 DEF NewToken, Token, Ends
<1>3. tokens' = Append(rows, new) /\ Len(tokens) < MaxTokens
  BY DEF Issue
<1>4. rows \in Seq(Token) /\ Len(rows) = Len(tokens) /\ Len(tokens) \in Nat
  BY DEF Shrunk, ServerTypeOK
<1> HIDE DEF new
<1>5. /\ tokens' \in Seq(Token) /\ Len(tokens') = NextId
      /\ tokens'[NextId] = new
      /\ \A i \in Issued : tokens'[i] = rows[i]
  BY <1>2, <1>3, <1>4 DEF NextId, Issued
<1>6. /\ Len(tokens') <= MaxTokens /\ NextId \in TokenIds
      /\ NextId \notin Issued /\ Issued' = Issued \cup {NextId}
  BY <1>3, <1>4, <1>5, SessionAssumption DEF NextId, Issued, TokenIds
<1>7. \A i \in Issued : /\ tokens'[i].root = tokens[i].root
                        /\ tokens'[i].born = tokens[i].born
                        /\ Unrevoked(i)' => Unrevoked(i)
  BY <1>5 DEF Shrunk, Unrevoked
<1> QED
  BY <1>2, <1>5, <1>6, <1>7

LEMMA IssueExchange ==
  ASSUME ServerTypeOK, NEW r \in Exchanges, NEW rows, Shrunk(rows),
         NEW root \in TokenIds, NEW born \in Nat, Issue(r, rows, root, born)
  PROVE  /\ exch' \in [Exchanges -> Exchange] /\ exch'[r].stage = "replied"
         /\ exch'[r].kind = exch[r].kind /\ exch'[r].answer = "granted"
         /\ exch'[r].cookie = NextId
         /\ \A s \in Exchanges : s # r => exch'[s] = exch[s]
<1>1. Reply(r, "granted", NextId)
  BY DEF Issue, NextId
<1> QED
  BY <1>1, IssueRows, ReplyKeeps

\* The birth of a token issued outside a password change counts the change
\* that is revoking now.
LEMMA BornNowType ==
  ASSUME ServerTypeOK
  PROVE  /\ BornNow \in Nat /\ BornNow >= changes
         /\ \A q \in Exchanges :
              At(q, "password", "swept") => BornNow = changes + 1
BY DEF ServerTypeOK, BornNow, Sweeping

\* A token that is issued while the changes do not count on.
LEMMA IssueBetweenChanges ==
  ASSUME IInv, NEW r \in Exchanges, NEW rows, Shrunk(rows),
         NEW root \in TokenIds, Issue(r, rows, root, BornNow),
         UNCHANGED changes
  PROVE  ChangeInv'
<1> USE DEF IInv, ChangeInv
<1>1. BornNow \in Nat /\ BornNow >= changes
  BY BornNowType
<1>2. /\ Issued' = Issued \cup {NextId} /\ tokens'[NextId].born = BornNow
      /\ \A i \in Issued : /\ tokens'[i].born = tokens[i].born
                           /\ Unrevoked(i)' => Unrevoked(i)
  BY <1>1, IssueRows
<1>3. \A s \in Exchanges : At(s, "password", "swept")' =>
        exch'[s] = exch[s] /\ At(s, "password", "swept")
  BY <1>1, IssueExchange DEF At
<1>4. LiveSinceLastChange'
  BY <1>1, <1>2 DEF LiveSinceLastChange
<1>5. SweepComplete'
  <2> SUFFICES ASSUME NEW s \in Exchanges, At(s, "password", "swept")',
                      NEW i \in Issued', Unrevoked(i)', i \notin exch'[s].swept
               PROVE  tokens'[i].born >= changes' + 1
    BY DEF SweepComplete
  <2>1. BornNow = changes + 1
    BY <1>3, BornNowType
  <2>2. BornNow >= changes + 1
    BY <2>1, <1>1
  <2> QED
    BY <1>2, <1>3, <2>2 DEF SweepComplete
<1>6. OneSweep'
  BY <1>3 DEF OneSweep
<1> QED
  BY <1>4, <1>5, <1>6

\* The change that commits has left nothing usable that is older.
LEMMA ChangeKeeps ==
  ASSUME IInv, NEW r \in Exchanges, ChangePassword(r) PROVE ChangeInv'
<1> USE DEF IInv, ChangeInv
<1> DEFINE rows == Ended(exch[r].swept, "passwordChanged")
<1>1. Shrunk(rows)
  BY EndedShrunk DEF Ends
<1>2. changes \in Nat /\ changes' = changes + 1
  BY DEF ChangePassword, ServerTypeOK
<1>3. NextId \in TokenIds
  BY SessionAssumption
     DEF ChangePassword, Issue, NextId, TokenIds, ServerTypeOK
<1>4. Issue(r, rows, NextId, changes + 1) /\ changes + 1 \in Nat
  BY <1>2 DEF ChangePassword
<1>5. \A i \in Issued : rows[i].end = "none" =>
        Unrevoked(i) /\ i \notin exch[r].swept
  BY DEF Ended, Unrevoked
<1> HIDE DEF rows
<1>6. /\ Issued' = Issued \cup {NextId}
      /\ tokens'[NextId].born = changes + 1
      /\ \A i \in Issued : /\ tokens'[i].born = tokens[i].born
                           /\ tokens'[i] = rows[i]
  BY <1>1, <1>3, <1>4, IssueRows
<1>7. \A i \in Issued : Unrevoked(i)' => tokens[i].born >= changes + 1
  BY <1>5, <1>6 DEF SweepComplete, ChangePassword, Unrevoked
<1>8. \A s \in Exchanges : ~ At(s, "password", "swept")'
  <2>1. exch'[r].stage = "replied"
        /\ \A s \in Exchanges : s # r => exch'[s] = exch[s]
    BY <1>1, <1>3, <1>4, IssueExchange
  <2> QED
    BY <2>1 DEF OneSweep, At, ChangePassword
<1> QED
  BY <1>2, <1>6, <1>7, <1>8 DEF LiveSinceLastChange, SweepComplete, OneSweep

\* A sign-in or a password change begins a session of its own.
LEMMA FreshSession ==
  ASSUME IInv, NEW r \in Exchanges, NEW rows, Shrunk(rows),
         NEW born \in Nat, NextId \in TokenIds, Issue(r, rows, NextId, born),
         UNCHANGED forked
  PROVE  Presented' /\ Rooted' /\ SessionInv'
<1> USE DEF IInv, SessionInv
<1>1. /\ NextId \notin Issued /\ Issued' = Issued \cup {NextId}
      /\ \A i \in Issued : /\ tokens'[i].root = tokens[i].root
                           /\ tokens[i].root \in Issued
                           /\ Unrevoked(i)' => Unrevoked(i)
      /\ tokens'[NextId].root = NextId
  BY IssueRows DEF Rooted
<1>2. \A s \in Exchanges : At(s, "refresh", "verified")' =>
        /\ At(s, "refresh", "verified") /\ exch[s].cookie \in Issued
        /\ exch'[s].cookie = exch[s].cookie /\ RootAt(s)' = RootAt(s)
  BY <1>1, IssueExchange DEF At, Presented, RootAt
<1>3. Presented' /\ Rooted'
  BY <1>1, <1>2 DEF Presented, Rooted
<1>4. OneLiveToken'
  BY <1>1 DEF OneLiveToken
<1>5. HoldsTheOnly'
  BY <1>1, <1>2 DEF HoldsTheOnly, RootAt
<1>6. ForkNoted'
  BY <1>2 DEF ForkNoted
<1> QED
  BY <1>3, <1>4, <1>5, <1>6

\* A rotation puts its successor in the place of the token it holds.
LEMMA RotateKeeps ==
  ASSUME IInv, NEW r \in Exchanges, Rotate(r)
  PROVE  Presented' /\ Rooted' /\ SessionInv' /\ ChangeInv'
<1> USE DEF IInv, SessionInv
<1> DEFINE rows == Replaced(r)
<1>0. At(r, "refresh", "verified") /\ exch[r].cookie \in Issued
  BY DEF Rotate, Presented
<1>1. PICK i \in Issued : i = exch[r].cookie
  BY <1>0
<1>2. Shrunk(rows) /\ rows[i].end # "none"
  BY <1>1, ReplacedShrunk
<1>3. Issue(r, rows, RootAt(r), BornNow) /\ UNCHANGED <<changes, forked>>
  BY DEF Rotate, RootAt
<1>4. RootAt(r) \in TokenIds /\ RootAt(r) \in Issued /\ BornNow \in Nat
  BY <1>1, RowType, BornNowType DEF RootAt, Rooted
<1>5. ChangeInv'
  BY <1>2, <1>3, <1>4, IssueBetweenChanges
<1> HIDE DEF rows
<1>6. /\ NextId \notin Issued /\ Issued' = Issued \cup {NextId}
      /\ \A j \in Issued : /\ tokens'[j].root = tokens[j].root
                           /\ tokens'[j] = rows[j]
                           /\ Unrevoked(j)' => Unrevoked(j)
      /\ tokens'[NextId].root = RootAt(r)
  BY <1>2, <1>3, <1>4, IssueRows
<1>7. ~ Unrevoked(i)'
  BY <1>1, <1>2, <1>6 DEF Unrevoked
<1>8. /\ ~ At(r, "refresh", "verified")'
      /\ \A s \in Exchanges : At(s, "refresh", "verified")' =>
           /\ s # r
           /\ At(s, "refresh", "verified") /\ exch[s].cookie \in Issued
           /\ exch'[s].cookie = exch[s].cookie /\ RootAt(s)' = RootAt(s)
  <2>1. /\ exch'[r].stage = "replied"
        /\ \A s \in Exchanges : s # r => exch'[s] = exch[s]
    BY <1>2, <1>3, <1>4, IssueExchange
  <2>2. ~ At(r, "refresh", "verified")'
    BY <2>1 DEF At
  <2>3. ASSUME NEW s \in Exchanges, At(s, "refresh", "verified")'
        PROVE  /\ s # r
               /\ At(s, "refresh", "verified") /\ exch[s].cookie \in Issued
               /\ exch'[s] = exch[s]
    BY <2>1, <2>2, <2>3 DEF At, Presented
  <2> QED
    BY <1>6, <2>2, <2>3 DEF RootAt
<1>9. Presented' /\ Rooted'
  BY <1>4, <1>6, <1>8 DEF Presented, Rooted
<1>10. RootAt(r) \in forked
       \/ \A j \in Issued : tokens[j].root = RootAt(r) => ~ Unrevoked(j)'
  <2> SUFFICES ASSUME RootAt(r) \notin forked, NEW j \in Issued,
                      tokens[j].root = RootAt(r), Unrevoked(j)'
               PROVE  FALSE
    OBVIOUS
  <2>1. j = i
    BY <1>0, <1>1, <1>6 DEF HoldsTheOnly
  <2> QED
    BY <1>7, <2>1
<1>11. OneLiveToken'
  BY <1>3, <1>6, <1>10 DEF OneLiveToken
<1>12. \A s \in Exchanges :
         At(s, "refresh", "verified")' /\ RootAt(s)' = RootAt(r) =>
           RootAt(r) \in forked
  BY <1>0, <1>8 DEF ForkNoted
<1>13. HoldsTheOnly'
  BY <1>3, <1>6, <1>8, <1>12 DEF HoldsTheOnly
<1>14. ForkNoted'
  BY <1>3, <1>8 DEF ForkNoted
<1> QED
  BY <1>5, <1>9, <1>11, <1>13, <1>14

-----------------------------------------------------------------------------
(* The whole server.                                                       *)

Rows == UNCHANGED <<password, tokens, changes>>

\* A rotation comes to hold a token: the only usable one of its session, or
\* the fork is noted.
LEMMA HoldKeeps ==
  ASSUME IInv, NEW r \in Exchanges, At(r, "refresh", "sent"),
         NEW i \in Issued, exch[r].cookie = i, Unrevoked(i),
         Goto(r, "verified"), Rows,
         forked' = IF Rotating(i) = {} THEN forked
                   ELSE forked \cup {tokens[i].root}
  PROVE  IInv'
<1> USE DEF IInv, SessionInv, ChangeInv, Rows
<1>1. /\ exch' \in [Exchanges -> Exchange]
      /\ exch'[r].stage = "verified" /\ exch'[r].kind = "refresh"
      /\ exch'[r].cookie = i
      /\ \A s \in Exchanges : s # r => exch'[s] = exch[s]
  BY GotoKeeps DEF Stages, At
<1>2. forked \subseteq forked' /\ forked' \subseteq TokenIds
  BY RowType DEF ServerTypeOK
<1>3. ServerTypeOK'
  BY <1>1, <1>2 DEF ServerTypeOK
<1>4. Issued' = Issued /\ \A j \in Issued : Unrevoked(j)' = Unrevoked(j)
  BY DEF Issued, Unrevoked
<1>5. Presented' /\ Rooted'
  BY <1>1, <1>4 DEF Presented, Rooted, At
<1>6. LiveSinceLastChange' /\ OneLiveToken'
  BY <1>2, <1>4 DEF LiveSinceLastChange, OneLiveToken
<1>7. \A s \in Exchanges : At(s, "password", "swept")' =>
        At(s, "password", "swept") /\ exch'[s] = exch[s]
  BY <1>1 DEF At
<1>8. SweepComplete' /\ OneSweep'
  BY <1>4, <1>7 DEF SweepComplete, OneSweep
<1>9. \A s \in Exchanges : At(s, "refresh", "verified")' =>
        s = r \/ (At(s, "refresh", "verified") /\ exch'[s] = exch[s])
  BY <1>1 DEF At
<1>10. RootAt(r)' = tokens[i].root
  BY <1>1 DEF RootAt
<1>11. HoldsTheOnly'
  <2> SUFFICES ASSUME NEW s \in Exchanges, At(s, "refresh", "verified")',
                      RootAt(s)' \notin forked', NEW j \in Issued,
                      Unrevoked(j), tokens[j].root = RootAt(s)'
               PROVE  j = exch'[s].cookie
    BY <1>4 DEF HoldsTheOnly
  <2>1. CASE s = r
    BY <1>1, <1>2, <1>10, <2>1 DEF OneLiveToken
  <2>2. CASE s # r
    BY <1>2, <1>9, <2>2 DEF HoldsTheOnly, RootAt
  <2> QED
    BY <2>1, <2>2
\* Another rotation of the session holds the same token, or the two were
\* not the only usable ones.
<1>12. ASSUME NEW q \in Exchanges, q # r, At(q, "refresh", "verified"),
              RootAt(q) = tokens[i].root
       PROVE  tokens[i].root \in forked'
  <2>1. CASE exch[q].cookie = i
    BY <1>12, <2>1 DEF Rotating
  <2>2. CASE exch[q].cookie # i
    BY <1>2, <1>12, <2>2 DEF HoldsTheOnly
  <2> QED
    BY <2>1, <2>2
<1>13. ForkNoted'
  <2> SUFFICES ASSUME NEW s \in Exchanges, NEW q \in Exchanges, s # q,
                      At(s, "refresh", "verified")',
                      At(q, "refresh", "verified")', RootAt(s)' = RootAt(q)'
               PROVE  RootAt(s)' \in forked'
    BY DEF ForkNoted
  <2>1. CASE s = r
    <3>1. q # r /\ At(q, "refresh", "verified") /\ RootAt(q)' = RootAt(q)
      BY <1>9, <2>1 DEF RootAt
    <3> QED
      BY <1>10, <1>12, <2>1, <3>1
  <2>2. CASE q = r
    <3>1. s # r /\ At(s, "refresh", "verified") /\ RootAt(s)' = RootAt(s)
      BY <1>9, <2>2 DEF RootAt
    <3> QED
      BY <1>10, <1>12, <2>2, <3>1
  <2>3. CASE s # r /\ q # r
    BY <1>2, <1>9, <2>3 DEF ForkNoted, RootAt
  <2> QED
    BY <2>1, <2>2, <2>3
<1> QED
  BY <1>3, <1>5, <1>6, <1>8, <1>11, <1>13

\* A statement that finds what there is to revoke has found all of it.
LEMMA SweepStep ==
  ASSUME IInv, NEW r \in Exchanges, Sweep(r) PROVE IInv'
<1> USE DEF IInv, SessionInv, ChangeInv
<1>1. /\ exch' \in [Exchanges -> Exchange]
      /\ exch'[r].stage = "swept" /\ exch'[r].kind = exch[r].kind
      /\ exch'[r].swept = Found(r)
      /\ \A s \in Exchanges : s # r => exch'[s] = exch[s]
  BY SweepKeeps
<1>2. UNCHANGED <<password, tokens, changes, forked>>
  BY DEF Sweep
<1>3. CASE Settles
  BY <1>1, <1>2, <1>3, ShrinkKeeps, SameShrunk DEF ServerTypeOK, Counters
<1>4. CASE At(r, "password", "verified") /\ Sweeping = {}
  <2>1. Issued' = Issued /\ \A i \in Issued : Unrevoked(i)' = Unrevoked(i)
    BY <1>2 DEF Issued, Unrevoked
  <2>2. \A s \in Exchanges : At(s, "refresh", "verified")' =>
          At(s, "refresh", "verified") /\ exch'[s] = exch[s]
    BY <1>1 DEF At
  <2>3. \A s \in Exchanges : At(s, "password", "swept")' => s = r
    BY <1>1, <1>4 DEF At, Sweeping
  <2>4. ServerTypeOK'
    BY <1>1, <1>2 DEF ServerTypeOK
  <2>5. Presented' /\ Rooted'
    BY <1>2, <2>1, <2>2 DEF Presented, Rooted
  <2>6. LiveSinceLastChange' /\ OneLiveToken'
    BY <1>2, <2>1 DEF LiveSinceLastChange, OneLiveToken
  <2>7. SweepComplete'
    BY <1>1, <2>1, <2>3 DEF SweepComplete, Found
  <2>8. OneSweep'
    BY <2>3 DEF OneSweep
  <2>9. HoldsTheOnly' /\ ForkNoted'
    BY <1>2, <2>1, <2>2 DEF HoldsTheOnly, ForkNoted, RootAt
  <2> QED
    BY <2>4, <2>5, <2>6, <2>7, <2>8, <2>9
<1>5. CASE At(r, "refresh", "reused")
  <2>1. Settles
    BY <1>1, <1>5 DEF Settles, At
  <2> QED
    BY <1>3, <2>1
<1> QED
  BY <1>4, <1>5 DEF Sweep

\* A step that only revokes or expires rows, and lets no exchange hold one.
LEMMA QuietStep ==
  ASSUME IInv, exch' \in [Exchanges -> Exchange], Settles, Shrunk(tokens'),
         UNCHANGED <<password, changes, forked>>
  PROVE  IInv'
<1>1. ServerTypeOK'
  BY DEF IInv, ServerTypeOK, Shrunk
<1> QED
  BY <1>1, ShrinkKeeps DEF IInv, Counters

LEMMA RefuseStep ==
  ASSUME IInv, NEW r \in Exchanges, Refuse(r) PROVE IInv'
<1>1. exch' \in [Exchanges -> Exchange] /\ Settles
  BY ReplyKeeps DEF Refuse, IInv
<1>2. UNCHANGED <<password, tokens, changes, forked>>
  BY DEF Refuse
<1> QED
  BY <1>1, <1>2, QuietStep, SameShrunk DEF IInv, Shrunk, Unrevoked

LEMMA GotoStep ==
  ASSUME IInv, NEW r \in Exchanges, NEW stage \in {"verified", "reused"},
         Goto(r, stage), exch[r].kind # "refresh" \/ stage = "reused",
         UNCHANGED <<password, tokens, changes, forked>>
  PROVE  IInv'
<1>1. /\ exch' \in [Exchanges -> Exchange]
      /\ exch'[r].stage = stage /\ exch'[r].kind = exch[r].kind
      /\ \A s \in Exchanges : s # r => exch'[s] = exch[s]
  BY GotoKeeps DEF IInv, Stages
<1>2. Settles
  BY <1>1 DEF Settles, At
<1> QED
  BY <1>1, <1>2, QuietStep, SameShrunk DEF IInv, Shrunk, Unrevoked

\* A sign-in issues the first token of a session.
LEMMA SignInStep ==
  ASSUME IInv, NEW r \in Exchanges, Issue(r, tokens, NextId, BornNow),
         password' \in Passwords \cup {NoPassword},
         UNCHANGED <<changes, forked>>
  PROVE  IInv'
<1> USE DEF IInv
<1>1. BornNow \in Nat /\ Shrunk(tokens)
  BY BornNowType, SameShrunk
<1>2. NextId \in TokenIds
  BY SessionAssumption DEF Issue, NextId, TokenIds, ServerTypeOK
<1>3. ServerTypeOK'
  <2>1. tokens' \in Seq(Token) /\ Len(tokens') <= MaxTokens
    BY <1>1, <1>2, IssueRows
  <2>2. exch' \in [Exchanges -> Exchange]
    BY <1>1, <1>2, IssueExchange
  <2> QED
    BY <2>1, <2>2 DEF ServerTypeOK
<1>4. ChangeInv'
  BY <1>1, <1>2, IssueBetweenChanges
<1>5. Presented' /\ Rooted' /\ SessionInv'
  BY <1>1, <1>2, FreshSession
<1> QED
  BY <1>3, <1>4, <1>5

LEMMA ChangeStep ==
  ASSUME IInv, NEW r \in Exchanges, ChangePassword(r) PROVE IInv'
<1> DEFINE rows == Ended(exch[r].swept, "passwordChanged")
<1> USE DEF IInv
<1>1. Shrunk(rows)
  BY EndedShrunk DEF Ends
<1>2. changes + 1 \in Nat /\ Issue(r, rows, NextId, changes + 1)
      /\ UNCHANGED forked
  BY DEF ChangePassword, ServerTypeOK
<1>3. NextId \in TokenIds
  BY <1>2, SessionAssumption DEF Issue, NextId, TokenIds, ServerTypeOK
<1> HIDE DEF rows
<1>4. ServerTypeOK'
  <2>1. tokens' \in Seq(Token) /\ Len(tokens') <= MaxTokens
    BY <1>1, <1>2, <1>3, IssueRows
  <2>2. exch' \in [Exchanges -> Exchange]
    BY <1>1, <1>2, <1>3, IssueExchange
  <2>3. password' \in Passwords \cup {NoPassword} /\ changes' \in Nat
        /\ forked' \subseteq TokenIds
    BY DEF ChangePassword, ServerTypeOK, Exchange
  <2> QED
    BY <2>1, <2>2, <2>3 DEF ServerTypeOK
<1>5. Presented' /\ Rooted' /\ SessionInv'
  BY <1>1, <1>2, <1>3, FreshSession
<1> QED
  BY <1>4, <1>5, ChangeKeeps

LEMMA RotateStep ==
  ASSUME IInv, NEW r \in Exchanges, Rotate(r) PROVE IInv'
<1> DEFINE root == tokens[exch[r].cookie].root
<1> USE DEF IInv
<1>1. exch[r].cookie \in Issued
  BY DEF Rotate, Presented
<1>2. Shrunk(Replaced(r)) /\ root \in TokenIds /\ BornNow \in Nat
  BY <1>1, ReplacedShrunk, RowType, BornNowType
<1>3. Issue(r, Replaced(r), root, BornNow)
      /\ UNCHANGED <<password, changes, forked>>
  BY DEF Rotate
<1> HIDE DEF root
<1>4. ServerTypeOK'
  <2>1. tokens' \in Seq(Token) /\ Len(tokens') <= MaxTokens
    BY <1>2, <1>3, IssueRows
  <2>2. exch' \in [Exchanges -> Exchange]
    BY <1>2, <1>3, IssueExchange
  <2> QED
    BY <1>3, <2>1, <2>2 DEF ServerTypeOK
<1> QED
  BY <1>4, RotateKeeps

\* The tokens of an account are revoked one way or another.
LEMMA RevokeStep ==
  ASSUME IInv, NEW r \in Exchanges, RevokeAll(r) \/ Logout(r) PROVE IInv'
<1> USE DEF IInv
<1>1. Shrunk(tokens') /\ UNCHANGED <<password, changes, forked>>
  BY EndedShrunk DEF RevokeAll, Logout, Ends
<1>2. Reply(r, "refused", NoToken) \/ Reply(r, "cleared", NoToken)
  BY DEF RevokeAll, Logout
<1>3. exch' \in [Exchanges -> Exchange] /\ Settles
  BY <1>2, ReplyKeeps
<1> QED
  BY <1>1, <1>3, QuietStep

LEMMA FindStep ==
  ASSUME IInv, NEW r \in Exchanges, FindToken(r) PROVE IInv'
<1>1. CASE Refuse(r)
  BY <1>1, RefuseStep
<1>2. CASE Goto(r, "reused") /\ UNCHANGED <<password, tokens, changes, forked>>
  BY <1>2, GotoStep
<1>3. CASE /\ exch[r].cookie \in Issued /\ Live(exch[r].cookie)
           /\ Goto(r, "verified")
           /\ forked' = IF Rotating(exch[r].cookie) = {} THEN forked
                        ELSE forked \cup {tokens[exch[r].cookie].root}
           /\ UNCHANGED <<password, tokens, changes>>
  <2>1. PICK i \in Issued : i = exch[r].cookie
    BY <1>3
  <2>2. At(r, "refresh", "sent") /\ Unrevoked(i)
    BY <1>3, <2>1 DEF FindToken, Live
  <2> QED
    BY <1>3, <2>1, <2>2, HoldKeeps DEF Rows
<1> QED
  BY <1>1, <1>2, <1>3 DEF FindToken

LEMMA HandleStep ==
  ASSUME IInv, NEW r \in Exchanges, Handle(r) PROVE IInv'
<1>1. CASE Register(r)
  <2>1. exch[r].given \in Passwords \cup {NoPassword}
    BY DEF IInv, ServerTypeOK, Exchange
  <2> QED
    BY <1>1, <2>1, RefuseStep, SignInStep DEF Register
<1>2. CASE Verify(r)
  BY <1>2, RefuseStep, GotoStep DEF Verify, At
<1>3. CASE Login(r)
  BY <1>3, SignInStep DEF Login, IInv, ServerTypeOK
<1>4. CASE VerifyChange(r)
  BY <1>4, RefuseStep, GotoStep DEF VerifyChange, At
<1> QED
  BY <1>1, <1>2, <1>3, <1>4, SweepStep, ChangeStep, FindStep, RotateStep,
     RevokeStep DEF Handle

LEMMA NextInv == IInv /\ [ServerNext]_serverVars => IInv'
<1> SUFFICES ASSUME IInv, [ServerNext]_serverVars PROVE IInv'
  OBVIOUS
<1>1. CASE UNCHANGED serverVars
  <2>1. Settles /\ Shrunk(tokens') /\ exch' \in [Exchanges -> Exchange]
    BY <1>1, SameShrunk
       DEF serverVars, Settles, IInv, Shrunk, Unrevoked, ServerTypeOK
  <2> QED
    BY <1>1, <2>1, QuietStep DEF serverVars
<1>2. ASSUME NEW r \in Exchanges, Fail(r) PROVE IInv'
  BY <1>2, RefuseStep DEF Fail
<1>3. ASSUME NEW r \in Exchanges, Close(r) PROVE IInv'
  BY <1>3, CloseKeeps, QuietStep, SameShrunk
     DEF Close, IInv, Shrunk, Unrevoked
<1>4. ASSUME NEW r \in Exchanges, NEW kind \in Kinds,
             NEW cookie \in TokenIds \cup {NoToken},
             NEW given \in Passwords \cup {NoPassword},
             NEW wanted \in Passwords \cup {NoPassword},
             Receive(r, kind, cookie, given, wanted)
      PROVE  IInv'
  <2>1. exch' \in [Exchanges -> Exchange] /\ Settles
    BY <1>4, ReceiveKeeps DEF IInv
  <2>2. UNCHANGED <<password, tokens, changes, forked>>
    BY <1>4 DEF Receive
  <2> QED
    BY <2>1, <2>2, QuietStep, SameShrunk DEF IInv, Shrunk, Unrevoked
<1>5. ASSUME NEW i \in Issued, ExpireToken(i) PROVE IInv'
  <2>1. Shrunk(tokens') /\ UNCHANGED <<password, changes, exch, forked>>
    BY <1>5, ExpireShrunk DEF ExpireToken, IInv
  <2>2. Settles /\ exch' \in [Exchanges -> Exchange]
    BY <2>1 DEF Settles, IInv, ServerTypeOK
  <2> QED
    BY <2>1, <2>2, QuietStep
<1> QED
  BY <1>1, <1>2, <1>3, <1>4, <1>5, HandleStep DEF ServerNext

LEMMA StartInv ==
  ASSUME NEW n \in 0 .. MaxTokens, Started(n) PROVE IInv
<1> DEFINE row(i) == [end |-> "none", expired |-> FALSE, root |-> i,
                      by |-> IF i = 1 THEN "register" ELSE "login",
                      born |-> 0]
<1>1. n \in Nat /\ n <= MaxTokens
  BY SessionAssumption
<1>2. \A i \in 1 .. n : row(i) \in Token /\ row(i).root = i /\ row(i).born = 0
  BY <1>1, SessionAssumption DEF Token, Ends, TokenIds, Kinds
<1>3. tokens = [i \in 1 .. n |-> row(i)]
  BY DEF Started
<1> HIDE DEF row
<1>4. tokens \in Seq(Token) /\ Len(tokens) = n /\ Issued = 1 .. n
  BY <1>1, <1>2, <1>3 DEF Issued
<1>5. \A i \in Issued : tokens[i].root = i /\ tokens[i].born = 0
  BY <1>2, <1>3, <1>4
<1>6. NoExchange \in Exchange /\ NoExchange.stage = "idle"
  BY DEF NoExchange, Exchange, Stages, Kinds
<1>7. exch = [r \in Exchanges |-> NoExchange] /\ changes = 0 /\ forked = {}
  BY DEF Started
<1>8. \A r \in Exchanges : /\ ~ At(r, "refresh", "verified")
                           /\ ~ At(r, "password", "swept")
  BY <1>6, <1>7 DEF At
<1>9. ServerTypeOK
  BY <1>1, <1>4, <1>6, <1>7, SessionAssumption DEF ServerTypeOK, Started
<1>10. Presented /\ Rooted
  BY <1>5, <1>8 DEF Presented, Rooted
<1>11. ChangeInv
  BY <1>5, <1>7, <1>8
     DEF ChangeInv, LiveSinceLastChange, SweepComplete, OneSweep
<1>12. SessionInv
  BY <1>5, <1>8 DEF SessionInv, OneLiveToken, HoldsTheOnly, ForkNoted
<1> QED
  BY <1>9, <1>10, <1>11, <1>12 DEF IInv

THEOREM InductiveInvariant == ServerSpec => []IInv
<1>1. ServerInit => IInv
  BY StartInv DEF ServerInit
<1> QED
  BY <1>1, NextInv, PTL DEF ServerSpec

\* The account, its tokens and the exchanges keep their types.
THEOREM ServerTypes == ServerSpec => []ServerTypeOK
BY InductiveInvariant, PTL DEF IInv

\* Whatever logins, rotations and further changes overlap a password change
\* (auth/service.ts:185-223), no token that was committed before it began to
\* revoke is usable once it is done.
THEOREM ChangeEndsSessions == ServerSpec => []LiveSinceLastChange
<1>1. IInv => LiveSinceLastChange
  BY DEF IInv, ChangeInv
<1> QED
  BY <1>1, InductiveInvariant, PTL

\* Rotation leaves a session with one usable token, for any interleaving of
\* exchanges but two rotations of one token that both found it unrevoked
\* (auth/service.ts:224-257).
THEOREM RotationReplaces == ServerSpec => []OneLiveToken
<1>1. IInv => OneLiveToken
  BY DEF IInv, SessionInv
<1> QED
  BY <1>1, InductiveInvariant, PTL

=============================================================================
