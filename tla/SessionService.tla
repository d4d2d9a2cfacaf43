--------------------------- MODULE SessionService ---------------------------
(***************************************************************************)
(* One account and its refresh tokens (modules/auth/service.ts and          *)
(* routes.ts): register, login, change password, rotate, log out.           *)
(*                                                                         *)
(* A request is one exchange with the server, a statement at a time.        *)
(* Statements that end a transaction and read nothing that decides are one  *)
(* step with its commit: what waits for their row locks commits after.      *)
(***************************************************************************)
EXTENDS Naturals, Sequences

CONSTANTS
  Exchanges,    \* exchanges that can be in progress at a time
  Passwords,
  FirstPassword,  \* the one the account is registered with
  NoPassword,   \* the account is not registered
  NoToken,      \* no cookie
  MaxTokens     \* bound: refresh tokens issued

ASSUME SessionAssumption ==
  /\ FirstPassword \in Passwords /\ NoPassword \notin Passwords
  /\ MaxTokens \in Nat /\ NoToken \notin 1 .. MaxTokens

TokenIds == 1 .. MaxTokens

Kinds == {"register", "login", "password", "refresh", "logout"}

\* How a RefreshToken row was revoked, if it was; the code keeps revokedAt and
\* no reason.
Ends == {"none", "rotated", "loggedOut", "passwordChanged", "reuse"}

\* A row.  For checking: the token its session began with, the kind of request
\* that issued it, and the number of password changes that had begun to revoke
\* when it was committed.
Token ==
  [end : Ends, expired : BOOLEAN, root : TokenIds, by : Kinds, born : Nat]

WithPassword == {"register", "login", "password"}
Stages == {"idle", "sent", "verified", "reused", "swept", "replied"}

\* One exchange: what it carried, what its updateMany found, what it answered
\* (cookie is then the token that was set).
Exchange ==
  [stage : Stages, kind : Kinds, cookie : TokenIds \cup {NoToken},
   given : Passwords \cup {NoPassword}, wanted : Passwords \cup {NoPassword},
   swept : SUBSET TokenIds, answer : {"none", "granted", "cleared", "refused"}]

NoExchange ==
  [stage |-> "idle", kind |-> "refresh", cookie |-> NoToken,
   given |-> NoPassword, wanted |-> NoPassword, swept |-> {},
   answer |-> "none"]

VARIABLES
  password,   \* User.passwordHash, or NoPassword
  tokens,     \* RefreshToken rows in the order of their commits
  changes,    \* password changes committed
  exch,       \* the exchange of each request
  forked      \* for checking: roots with two rotations of one token at once

serverVars == <<password, tokens, changes, exch, forked>>

Issued == 1 .. Len(tokens)
Unrevoked(i) == tokens[i].end = "none"
Live(i) == Unrevoked(i) /\ ~ tokens[i].expired
At(r, kind, stage) == exch[r].stage = stage /\ exch[r].kind = kind

\* n sign-ins before any of this: the first one registered the account.
Started(n) ==
  /\ password = IF n = 0 THEN NoPassword ELSE FirstPassword
  /\ tokens = [i \in 1 .. n |->
       [end |-> "none", expired |-> FALSE, root |-> i,
        by |-> IF i = 1 THEN "register" ELSE "login", born |-> 0]]
  /\ changes = 0
  /\ exch = [r \in Exchanges |-> NoExchange]
  /\ forked = {}

ServerInit == \E n \in 0 .. MaxTokens : Started(n)

\* A request reaches its route: the cookie it carries, the password it names
\* and, to change it, the new one.  Routes that need an access token have it.
Receive(r, kind, cookie, given, wanted) ==
  /\ exch[r].stage = "idle"
  /\ kind \in WithPassword => given \in Passwords /\ wanted \in Passwords
  /\ exch' = [exch EXCEPT ![r] =
       [stage |-> "sent", kind |-> kind, cookie |-> cookie,
        given |-> given, wanted |-> wanted, swept |-> {},
        answer |-> "none"]]
  /\ UNCHANGED <<password, tokens, changes, forked>>

Goto(r, stage) == exch' = [exch EXCEPT ![r].stage = stage]

\* The answer and the token it sets as the cookie; what only the server needed
\* is forgotten.
Reply(r, answer, cookie) ==
  exch' = [exch EXCEPT ![r] =
    [NoExchange EXCEPT !.stage = "replied", !.kind = exch[r].kind,
                       !.answer = answer, !.cookie = cookie]]

Refuse(r) ==
  /\ Reply(r, "refused", NoToken)
  /\ UNCHANGED <<password, tokens, changes, forked>>

\* A password change has begun to revoke and is not committed: the update of
\* the User row before it lets only one of them in.
Sweeping == {q \in Exchanges : At(q, "password", "swept")}

NewToken(r, root, born) ==
  [end |-> "none", expired |-> FALSE, root |-> root, by |-> exch[r].kind,
   born |-> born]

BornNow == IF Sweeping = {} THEN changes ELSE changes + 1

\* updateMany where revokedAt is null, on the rows a statement has found.
Ended(which, how) ==
  [i \in Issued |->
     IF i \in which /\ Unrevoked(i) THEN [tokens[i] EXCEPT !.end = how]
                                    ELSE tokens[i]]

\* issueTokenPair: one more row, sent as the cookie.
Issue(r, rows, root, born) ==
  /\ Len(tokens) < MaxTokens
  /\ tokens' = Append(rows, NewToken(r, root, born))
  /\ Reply(r, "granted", Len(tokens) + 1)

NextId == Len(tokens) + 1

\* registerUser: the account and its first token in one transaction; the email
\* is unique.
Register(r) ==
  /\ At(r, "register", "sent")
  /\ \/ /\ password = NoPassword
        /\ password' = exch[r].given
        /\ Issue(r, tokens, NextId, BornNow)
        /\ UNCHANGED <<changes, forked>>
     \/ password # NoPassword /\ Refuse(r)

\* loginUser: the password is verified against a row read outside any
\* transaction.
Verify(r) ==
  /\ At(r, "login", "sent")
  /\ \/ /\ password = exch[r].given
        /\ Goto(r, "verified")
        /\ UNCHANGED <<password, tokens, changes, forked>>
     \/ password # exch[r].given /\ Refuse(r)

Login(r) ==
  /\ At(r, "login", "verified")
  /\ Issue(r, tokens, NextId, BornNow)
  /\ UNCHANGED <<password, changes, forked>>

\* changePassword: the checks, on a row read outside the transaction.
VerifyChange(r) ==
  LET allowed == password = exch[r].given /\ exch[r].wanted # password IN
  /\ At(r, "password", "sent")
  /\ \/ /\ allowed
        /\ Goto(r, "verified")
        /\ UNCHANGED <<password, tokens, changes, forked>>
     \/ ~ allowed /\ Refuse(r)

\* Mutant of Found: only the session of the caller is revoked.
FoundOwn(r) == {i \in Issued : Unrevoked(i) /\ i = exch[r].cookie}

\* What an updateMany finds to revoke when it starts: a row that is committed
\* while it waits for a lock is not in it.
Found(r) == {i \in Issued : Unrevoked(i)}

\* The transaction of changePassword updates the hash and starts to revoke; a
\* refresh token that was presented revoked makes rotateRefreshToken do it.
Sweep(r) ==
  /\ \/ At(r, "password", "verified") /\ Sweeping = {}
     \/ At(r, "refresh", "reused")
  /\ exch' =
       [exch EXCEPT ![r] = [@ EXCEPT !.stage = "swept", !.swept = Found(r)]]
  /\ UNCHANGED <<password, tokens, changes, forked>>

\* changePassword commits: new hash, what it found revoked, a fresh pair.
ChangePassword(r) ==
  /\ At(r, "password", "swept")
  /\ password' = exch[r].wanted
  /\ changes' = changes + 1
  /\ Issue(r, Ended(exch[r].swept, "passwordChanged"), NextId, changes + 1)
  /\ UNCHANGED forked

Rotating(i) ==
  {q \in Exchanges : At(q, "refresh", "verified") /\ exch[q].cookie = i}

\* rotateRefreshToken reads the row of the cookie: revoked is looked at first.
FindToken(r) ==
  LET i == exch[r].cookie IN
  /\ At(r, "refresh", "sent")
  /\ \/ /\ i \in Issued
        /\ Live(i)
        /\ Goto(r, "verified")
        /\ forked' = IF Rotating(i) = {} THEN forked
                     ELSE forked \cup {tokens[i].root}
        /\ UNCHANGED <<password, tokens, changes>>
     \/ /\ i \in Issued
        /\ ~ Unrevoked(i)
        /\ Goto(r, "reused")
        /\ UNCHANGED <<password, tokens, changes, forked>>
     \/ /\ i \in Issued => Unrevoked(i) /\ tokens[i].expired
        /\ Refuse(r)

\* Mutant of Replaced: the old token stays usable.
NotReplaced(r) == tokens

\* The update of the old row is by id: it does not look at revokedAt again.
Replaced(r) == [tokens EXCEPT ![exch[r].cookie].end = "rotated"]

\* The successor is created, the old token revoked, and all is committed.
Rotate(r) ==
  /\ At(r, "refresh", "verified")
  /\ Issue(r, Replaced(r), tokens[exch[r].cookie].root, BornNow)
  /\ UNCHANGED <<password, changes, forked>>

\* Every token of the account that was found unrevoked is revoked: 401.
RevokeAll(r) ==
  /\ At(r, "refresh", "swept")
  /\ tokens' = Ended(exch[r].swept, "reuse")
  /\ Reply(r, "refused", NoToken)
  /\ UNCHANGED <<password, changes, forked>>

\* revokeRefreshToken: the token of the cookie, if any and if not yet revoked.
Logout(r) ==
  /\ At(r, "logout", "sent")
  /\ tokens' = Ended({exch[r].cookie}, "loggedOut")
  /\ Reply(r, "cleared", NoToken)
  /\ UNCHANGED <<password, changes, forked>>

\* The exchange fails and its transaction, if any, is rolled back: refused by
\* the rate limit or requireAuth, an error, or lost on its way.
Fail(r) ==
  /\ exch[r].stage \in {"sent", "verified", "reused", "swept"}
  /\ Refuse(r)

\* The client has the answer, or gave up waiting for it.
Close(r) ==
  /\ exch[r].stage = "replied"
  /\ exch' = [exch EXCEPT ![r] = NoExchange]
  /\ UNCHANGED <<password, tokens, changes, forked>>

ExpireToken(i) ==
  /\ ~ tokens[i].expired
  /\ tokens' = [tokens EXCEPT ![i].expired = TRUE]
  /\ UNCHANGED <<password, changes, exch, forked>>

Handle(r) ==
  \/ Register(r) \/ Verify(r) \/ Login(r) \/ VerifyChange(r)
  \/ Sweep(r)
  \/ ChangePassword(r) \/ FindToken(r) \/ Rotate(r) \/ RevokeAll(r) \/ Logout(r)

ServerNext ==
  \/ \E r \in Exchanges :
       \/ Handle(r) \/ Fail(r) \/ Close(r)
       \/ \E kind \in Kinds, cookie \in TokenIds \cup {NoToken},
             given, wanted \in Passwords \cup {NoPassword} :
            Receive(r, kind, cookie, given, wanted)
  \/ \E i \in Issued : ExpireToken(i)

ServerSpec == ServerInit /\ [][ServerNext]_serverVars

-----------------------------------------------------------------------------
ServerTypeOK ==
  /\ password \in Passwords \cup {NoPassword}
  /\ tokens \in Seq(Token) /\ Len(tokens) <= MaxTokens
  /\ changes \in Nat
  /\ exch \in [Exchanges -> Exchange]
  /\ forked \subseteq TokenIds

\* No token that was committed before the last password change began to revoke
\* is usable: a login or a rotation that commits while it revokes does slip
\* through (auth/service.ts:183-189).
LiveSinceLastChange ==
  \A i \in Issued : Unrevoked(i) => tokens[i].born >= changes

\* A session has one usable token at most, unless two rotations of one token
\* both found it unrevoked (auth/service.ts:224, 253).
OneLiveToken ==
  \A i, j \in Issued :
    (Unrevoked(i) /\ Unrevoked(j) /\ tokens[i].root = tokens[j].root)
      => i = j \/ tokens[i].root \in forked

\* "revoke every existing session (so other devices are logged out) ... all
\* atomically" (auth/service.ts:183-184): when a password change commits, of
\* the sessions that were there before it revoked none has a usable token.
OtherDevicesLoggedOut ==
  [][changes' # changes =>
       \A i \in Issued :
         tokens[tokens[i].root].born <= changes => tokens'[i].end # "none"
    ]_serverVars
=============================================================================
