------------------------- MODULE AuthServiceProofs -------------------------
(***************************************************************************)
(* Theorems about AuthService, for any set of threads, accounts, logins,   *)
(* wikis and grants and any set of failing calls.                          *)
(***************************************************************************)
EXTENDS AuthService, TLAPS

StorePCs == {"select", "update", "insert", "issue"}

\* What a thread holds at each place of its handler.
ThreadHolds(t) ==
    /\ pc[t] = "userinfo" => token[t] \in Grants
    /\ pc[t] \in StorePCs =>
          /\ token[t] \in Grants
          /\ who[t] \in Identity
          /\ GrantOwner[token[t]] = who[t].account
    /\ pc[t] \in CreatePCs => who[t] \in Identity /\ wiki[t] \in Wikis
    /\ pc[t] \in {"existing", "create"} =>
          /\ token[t] \in Grants
          /\ Stored(GrantOwner[token[t]])

ThreadsHold == \A t \in Threads : ThreadHolds(t)

\* The inductive invariant behind the theorems that need nothing of the
\* environment: accounts may be renamed and every call may fail.
Inv == TypeOK /\ ThreadsHold /\ RowsHoldOwnToken /\ ReposOnlyOfStored

-----------------------------------------------------------------------------
(* The rows *)

LEMMA RowFields ==
    ASSUME user \in Seq(Row), NEW i \in DOMAIN user
    PROVE  /\ user[i].username \in Logins
           /\ user[i].github_id \in Accounts
           /\ user[i].access_token \in Grants
<1>1. user[i] \in Row
    OBVIOUS
<1> QED
    BY <1>1 DEF Row

\* The UPDATE keeps every row's account and user name; the rows of the account
\* get the new token.
LEMMA UpdatedRows ==
    ASSUME user \in Seq(Row), NEW a \in Accounts, NEW g \in Grants
    PROVE  /\ Updated(a, g) \in Seq(Row)
           /\ DOMAIN Updated(a, g) = DOMAIN user
           /\ \A i \in DOMAIN user :
                 /\ Updated(a, g)[i].username = user[i].username
                 /\ Updated(a, g)[i].github_id = user[i].github_id
                 /\ Updated(a, g)[i].access_token =
                       IF user[i].github_id = a THEN g ELSE user[i].access_token
<1>1. \A i \in 1..Len(user) : user[i] \in Row
    OBVIOUS
<1>2. \A i \in 1..Len(user) : [user[i] EXCEPT !.access_token = g] \in Row
    BY <1>1 DEF Row
<1>3. Updated(a, g) \in [1..Len(user) -> Row]
    BY <1>1, <1>2 DEF Updated
<1>4. Updated(a, g) \in Seq(Row)
    BY <1>3
<1> QED
    BY <1>1, <1>3, <1>4 DEF Updated, HasGithubId, Row

\* The INSERT keeps the rows there are and adds at most one, at the end.
LEMMA InsertedRows ==
    ASSUME user \in Seq(Row), NEW info \in Identity, NEW g \in Grants
    PROVE  LET rows == Inserted(info, g) IN
           /\ rows \in Seq(Row)
           /\ Stored(info.account) \/ Len(user) + 1 \in DOMAIN rows
           /\ \A i \in DOMAIN user : i \in DOMAIN rows /\ rows[i] = user[i]
           /\ \A i \in DOMAIN rows \ DOMAIN user :
                 /\ i = Len(user) + 1
                 /\ rows[i] = [username |-> info.user_name,
                               github_id |-> info.account,
                               access_token |-> g]
<1> DEFINE row == [username |-> info.user_name, github_id |-> info.account, access_token |-> g]
<1>1. row \in Row
    BY DEF Row, Identity
<1>2. Append(user, row) \in Seq(Row) /\ Len(Append(user, row)) = Len(user) + 1
    BY <1>1
<1>3. \A i \in 1..Len(user) : Append(user, row)[i] = user[i]
    BY <1>1
<1>4. Append(user, row)[Len(user) + 1] = row
    BY <1>1
<1> QED
    BY <1>2, <1>3, <1>4 DEF Inserted, NewRow

\* What no step does to the table: lose a row, or give it to another account.
RowsKept ==
    \A i \in DOMAIN user :
        /\ i \in DOMAIN user'
        /\ user'[i].github_id = user[i].github_id
        /\ user'[i].username = user[i].username

LEMMA WriteKeepsRows ==
    ASSUME TypeOK, ThreadsHold, NEW t \in Threads, UpdateUser(t) \/ InsertUser(t)
    PROVE  user' \in Seq(Row) /\ RowsKept
<1>1. token[t] \in Grants /\ who[t] \in Identity
    BY DEF ThreadsHold, ThreadHolds, StorePCs, UpdateUser, InsertUser
<1>2. who[t].account \in Accounts /\ user \in Seq(Row)
    BY <1>1 DEF Identity, TypeOK
<1>3. CASE user' = user
    BY <1>2, <1>3 DEF RowsKept
<1>4. CASE user' = Updated(who[t].account, token[t])
    BY <1>1, <1>2, <1>4, UpdatedRows DEF RowsKept
<1>5. CASE user' = Inserted(who[t], token[t])
    BY <1>1, <1>2, <1>5, InsertedRows DEF RowsKept
<1> QED
    BY <1>3, <1>4, <1>5 DEF UpdateUser, InsertUser, Write

\* The helpers that end a step leave pc and reply well-typed.
LEMMA ControlTypes ==
    ASSUME TypeOK, NEW t \in Threads
    PROVE  /\ \A label \in PCs : Goto(t, label) =>
                 pc' \in [Threads -> PCs] /\ reply' \in [Threads -> Replies]
           /\ \A r \in Replies : Answer(t, r) =>
                 pc' \in [Threads -> PCs] /\ reply' \in [Threads -> Replies]
           /\ ReturnSilently(t) =>
                 pc' \in [Threads -> PCs] /\ reply' \in [Threads -> Replies]
BY DEF TypeOK, Goto, Answer, ReturnSilently, PCs

\* TypeOK, one action at a time.
LEMMA TypeStep ==
    ASSUME TypeOK, ThreadsHold, [Next]_vars
    PROVE  TypeOK' /\ RowsKept
<1> USE ConstantsAssumption DEF TypeOK
<1>1. CASE UNCHANGED vars
    BY <1>1 DEF vars, RowsKept
<1>2. ASSUME NEW t \in Threads, HandleAuthorize(t)
      PROVE  TypeOK' /\ RowsKept
    <2>1. token' \in [Threads -> Grants \cup {Null}]
        BY <1>2 DEF HandleAuthorize
    <2>2. Answer(t, "bad_request") \/ Goto(t, "exchange")
        BY <1>2 DEF HandleAuthorize
    <2> QED
        BY <1>2, <2>1, <2>2, ControlTypes
           DEF HandleAuthorize, github, PCs, AuthorizePCs, Replies, RowsKept
<1>3. ASSUME NEW t \in Threads, GetAccessToken(t)
      PROVE  TypeOK' /\ RowsKept
    BY <1>3, ControlTypes DEF GetAccessToken, locals, PCs, AuthorizePCs, Replies, RowsKept
<1>4. ASSUME NEW t \in Threads, GetUserInfo(t)
      PROVE  TypeOK' /\ RowsKept
    <2>1. token[t] \in Grants
        BY <1>4 DEF GetUserInfo, ThreadsHold, ThreadHolds
    <2>2. UserOf(token[t]) \in Identity
        BY <2>1 DEF UserOf, Identity
    <2> QED
        BY <1>4, <2>2, ControlTypes DEF GetUserInfo, github, PCs, AuthorizePCs, Replies, RowsKept
<1>5. ASSUME NEW t \in Threads, SelectUser(t)
      PROVE  TypeOK' /\ RowsKept
    BY <1>5 DEF SelectUser, SelectBranch, Answer, Goto, github, locals, PCs, AuthorizePCs,
                Replies, RowsKept
<1>6. ASSUME NEW t \in Threads, UpdateUser(t) \/ InsertUser(t)
      PROVE  TypeOK' /\ RowsKept
    <2>1. user' \in Seq(Row) /\ RowsKept
        BY <1>6, WriteKeepsRows
    <2> QED
        BY <1>6, <2>1, ControlTypes
           DEF UpdateUser, InsertUser, Write, Deinit, github, locals, PCs, AuthorizePCs, Replies
<1>7. ASSUME NEW t \in Threads, IssueToken(t)
      PROVE  TypeOK' /\ RowsKept
    <2>1. who[t] \in Identity
        BY <1>7 DEF IssueToken, ThreadsHold, ThreadHolds, StorePCs
    <2> QED
        BY <1>7, <2>1 DEF IssueToken, Sign, Answer, github, locals, PCs, Replies, RowsKept
<1>8. ASSUME NEW t \in Threads, HandleCreateRepo(t)
      PROVE  TypeOK' /\ RowsKept
    <2>1. Goto(t, "lookup") \/ \E r \in {"bad_request", "unauthorized"} : Answer(t, r)
        BY <1>8 DEF HandleCreateRepo
    <2>2. pc' \in [Threads -> PCs] /\ reply' \in [Threads -> Replies]
        BY <2>1, ControlTypes DEF PCs, CreatePCs, Replies
    <2>3. who' \in [Threads -> Identity \cup {Null}] /\ wiki' \in [Threads -> Wikis \cup {Null}]
        BY <1>8 DEF HandleCreateRepo, VerifiedTokens
    <2> QED
        BY <1>8, <2>2, <2>3 DEF HandleCreateRepo, github, RowsKept
<1>9. ASSUME NEW t \in Threads, LookupUser(t)
      PROVE  TypeOK' /\ RowsKept
    <2>1. \A i \in DOMAIN user : user[i].access_token \in Grants
        BY RowFields
    <2>2. token' \in [Threads -> Grants \cup {Null}]
        <3>1. CASE UNCHANGED token
            BY <3>1
        <3>2. ASSUME NEW i \in DOMAIN user, token' = [token EXCEPT ![t] = user[i].access_token]
              PROVE  token' \in [Threads -> Grants \cup {Null}]
            BY <2>1, <3>2
        <3> QED
            BY <1>9, <3>1, <3>2 DEF LookupUser, LookupFound, LookupMissing, LookupError
    <2>3. open' \subseteq Threads
        BY <1>9 DEF LookupUser, LookupFound, LookupMissing, LookupError
    <2>4. Goto(t, "existing") \/ Answer(t, "no_record") \/ Answer(t, "server_error")
        BY <1>9 DEF LookupUser, LookupFound, LookupMissing, LookupError
    <2> QED
        BY <1>9, <2>2, <2>3, <2>4, ControlTypes
           DEF LookupUser, github, PCs, CreatePCs, Replies, RowsKept
<1>10. ASSUME NEW t \in Threads, GetExistingRepo(t)
       PROVE  TypeOK' /\ RowsKept
    <2>1. data' \in [Threads -> (Accounts \X Wikis) \cup {Null}]
        BY <1>10 DEF GetExistingRepo, Visible
    <2>2. Goto(t, "url") \/ Goto(t, "create") \/ Answer(t, "message")
        BY <1>10 DEF GetExistingRepo
    <2>3. pc' \in [Threads -> PCs] /\ reply' \in [Threads -> Replies]
        BY <2>2, ControlTypes DEF PCs, CreatePCs, Replies
    <2> QED
        BY <1>10, <2>1, <2>3 DEF GetExistingRepo, github, RowsKept
<1>11. ASSUME NEW t \in Threads, CreateNewRepo(t)
       PROVE  TypeOK' /\ RowsKept
    <2>1. token[t] \in Grants /\ wiki[t] \in Wikis
        BY <1>11 DEF CreateNewRepo, ThreadsHold, ThreadHolds, CreatePCs
    <2>2. Target(t) \in Accounts \X Wikis
        BY <2>1 DEF Target
    <2> QED
        BY <1>11, <2>2, ControlTypes
           DEF CreateNewRepo, Created, github, PCs, CreatePCs, Replies, RowsKept
<1>12. ASSUME NEW t \in Threads, SendUrl(t)
       PROVE  TypeOK' /\ RowsKept
    BY <1>12, ControlTypes DEF SendUrl, github, locals, Replies, RowsKept
<1>13. ASSUME NEW a \in Accounts, Rename(a)
       PROVE  TypeOK' /\ RowsKept
    BY <1>13 DEF Rename, locals, RowsKept
<1>14. CASE ExpireToken
    BY <1>14 DEF ExpireToken, github, locals, RowsKept
<1>15. CASE Crash
    BY <1>15 DEF Crash, github, locals, PCs, RowsKept
<1> QED
    BY <1>1, <1>2, <1>3, <1>4, <1>5, <1>6, <1>7, <1>8, <1>9, <1>10, <1>11, <1>12, <1>13, <1>14,
       <1>15
       DEF Next, Authorize, CreateRepo

-----------------------------------------------------------------------------
(* The threads *)

ThreadStep(t) == HandleAuthorize(t) \/ Authorize(t) \/ HandleCreateRepo(t) \/ CreateRepo(t)

LocalsKept(u) ==
    /\ pc'[u] = pc[u]
    /\ token'[u] = token[u]
    /\ who'[u] = who[u]
    /\ wiki'[u] = wiki[u]
    /\ data'[u] = data[u]
    /\ reply'[u] = reply[u]

\* A handler works on its own stack: a step of one thread leaves the others be.
LEMMA OthersKept ==
    ASSUME TypeOK, NEW t \in Threads, ThreadStep(t), NEW u \in Threads \ {t}
    PROVE  LocalsKept(u)
<1> USE DEF TypeOK, LocalsKept, Answer, Goto, ReturnSilently, github, locals
<1>1. CASE HandleAuthorize(t)
    BY <1>1 DEF HandleAuthorize
<1>2. CASE GetAccessToken(t)
    BY <1>2 DEF GetAccessToken
<1>3. CASE GetUserInfo(t)
    BY <1>3 DEF GetUserInfo
<1>4. CASE SelectUser(t)
    BY <1>4 DEF SelectUser, SelectBranch
<1>5. CASE UpdateUser(t) \/ InsertUser(t)
    BY <1>5 DEF UpdateUser, InsertUser, Write
<1>6. CASE IssueToken(t)
    BY <1>6 DEF IssueToken
<1>7. CASE HandleCreateRepo(t)
    BY <1>7 DEF HandleCreateRepo
<1>8. CASE LookupUser(t)
    BY <1>8 DEF LookupUser, LookupFound, LookupMissing, LookupError
<1>9. CASE GetExistingRepo(t)
    BY <1>9 DEF GetExistingRepo
<1>10. CASE CreateNewRepo(t)
    BY <1>10 DEF CreateNewRepo, Created
<1>11. CASE SendUrl(t)
    BY <1>11 DEF SendUrl
<1> QED
    BY <1>1, <1>2, <1>3, <1>4, <1>5, <1>6, <1>7, <1>8, <1>9, <1>10, <1>11
       DEF ThreadStep, Authorize, CreateRepo

LEMMA StoredKept ==
    ASSUME RowsKept, NEW a, Stored(a)
    PROVE  Stored(a)'
BY DEF RowsKept, Stored, HasGithubId

\* What a waiting thread holds is not disturbed.
LEMMA HoldsKept ==
    ASSUME ThreadsHold, RowsKept, NEW u \in Threads, LocalsKept(u)
    PROVE  ThreadHolds(u)'
BY StoredKept DEF ThreadsHold, ThreadHolds, LocalsKept

\* What a thread holds after a step of its own.
LEMMA OwnHolds ==
    ASSUME TypeOK, ThreadsHold, RowsHoldOwnToken, RowsKept, NEW t \in Threads, ThreadStep(t)
    PROVE  ThreadHolds(t)'
<1> USE DEF TypeOK, Answer, Goto, ReturnSilently, github, locals, StorePCs, CreatePCs
<1>0. ThreadHolds(t)
    BY DEF ThreadsHold
<1>1. CASE HandleAuthorize(t)
    <2>1. pc'[t] \in {"done", "exchange"}
        BY <1>1 DEF HandleAuthorize
    <2> QED
        BY <2>1 DEF ThreadHolds
<1>2. CASE GetAccessToken(t)
    <2>1. \/ pc'[t] = "done"
          \/ pc'[t] = "userinfo" /\ token'[t] \in Grants
        BY <1>2 DEF GetAccessToken
    <2> QED
        BY <2>1 DEF ThreadHolds
<1>3. CASE GetUserInfo(t)
    <2>1. \/ pc'[t] = "done"
          \/ pc'[t] = "select" /\ who'[t] = UserOf(token[t]) /\ token'[t] = token[t]
        BY <1>3 DEF GetUserInfo
    <2>2. token[t] \in Grants
        BY <1>0, <1>3 DEF ThreadHolds, GetUserInfo
    <2>3. UserOf(token[t]) \in Identity /\ UserOf(token[t]).account = GrantOwner[token[t]]
        BY <2>2, ConstantsAssumption DEF UserOf, Identity
    <2> QED
        BY <2>1, <2>2, <2>3 DEF ThreadHolds
<1>4. CASE SelectUser(t)
    <2>1. /\ pc[t] = "select"
          /\ pc'[t] \in {"done", "update", "insert"}
          /\ token'[t] = token[t]
          /\ who'[t] = who[t]
        BY <1>4 DEF SelectUser, SelectBranch
    <2> QED
        BY <1>0, <2>1 DEF ThreadHolds
<1>5. CASE UpdateUser(t) \/ InsertUser(t)
    <2>1. /\ pc[t] \in {"update", "insert"}
          /\ pc'[t] \in {"done", "issue"}
          /\ token'[t] = token[t]
          /\ who'[t] = who[t]
        BY <1>5 DEF UpdateUser, InsertUser, Write
    <2> QED
        BY <1>0, <2>1 DEF ThreadHolds
<1>6. CASE IssueToken(t)
    <2>1. pc'[t] = "done"
        BY <1>6 DEF IssueToken
    <2> QED
        BY <2>1 DEF ThreadHolds
<1>7. CASE HandleCreateRepo(t)
    <2>1. \/ pc'[t] = "done"
          \/ pc'[t] = "lookup" /\ who'[t] \in Identity /\ wiki'[t] \in Wikis
        BY <1>7 DEF HandleCreateRepo, VerifiedTokens
    <2> QED
        BY <2>1 DEF ThreadHolds
<1>8. CASE LookupUser(t)
    <2>1. CASE LookupFound(t)
        <3>1. PICK i \in DOMAIN user : token' = [token EXCEPT ![t] = user[i].access_token]
            BY <2>1 DEF LookupFound
        <3>2. /\ pc[t] = "lookup"
              /\ pc'[t] = "existing"
              /\ token'[t] = user[i].access_token
              /\ who'[t] = who[t]
              /\ wiki'[t] = wiki[t]
            BY <1>8, <2>1, <3>1 DEF LookupUser, LookupFound
        <3>3. user[i].access_token \in Grants
            BY RowFields
        <3>4. Stored(GrantOwner[token'[t]])
            BY <3>2 DEF RowsHoldOwnToken, Stored, HasGithubId
        <3> QED
            BY <1>0, <3>2, <3>3, <3>4, StoredKept DEF ThreadHolds
    <2>2. CASE LookupMissing(t) \/ LookupError(t)
        <3>1. pc'[t] = "done"
            BY <2>2 DEF LookupMissing, LookupError
        <3> QED
            BY <3>1 DEF ThreadHolds
    <2> QED
        BY <1>8, <2>1, <2>2 DEF LookupUser
<1>9. CASE GetExistingRepo(t)
    <2>1. /\ pc[t] = "existing"
          /\ pc'[t] \in {"done", "create", "url"}
          /\ token'[t] = token[t]
          /\ who'[t] = who[t]
          /\ wiki'[t] = wiki[t]
        BY <1>9 DEF GetExistingRepo
    <2> QED
        BY <1>0, <2>1, StoredKept DEF ThreadHolds
<1>10. CASE CreateNewRepo(t)
    <2>1. /\ pc[t] = "create"
          /\ pc'[t] \in {"done", "url"}
          /\ who'[t] = who[t]
          /\ wiki'[t] = wiki[t]
        BY <1>10 DEF CreateNewRepo, Created
    <2> QED
        BY <1>0, <2>1 DEF ThreadHolds
<1>11. CASE SendUrl(t)
    <2>1. pc'[t] = "done"
        BY <1>11 DEF SendUrl
    <2> QED
        BY <2>1 DEF ThreadHolds
<1> QED
    BY <1>1, <1>2, <1>3, <1>4, <1>5, <1>6, <1>7, <1>8, <1>9, <1>10, <1>11
       DEF ThreadStep, Authorize, CreateRepo

LEMMA ThreadsHoldStep ==
    ASSUME TypeOK, ThreadsHold, RowsHoldOwnToken, RowsKept, [Next]_vars
    PROVE  ThreadsHold'
<1>1. ASSUME NEW t \in Threads, ThreadStep(t)
      PROVE  ThreadsHold'
    <2> SUFFICES ASSUME NEW u \in Threads
                 PROVE  ThreadHolds(u)'
        BY DEF ThreadsHold
    <2>1. CASE u = t
        BY <1>1, <2>1, OwnHolds
    <2>2. CASE u # t
        BY <1>1, <2>2, OthersKept, HoldsKept
    <2> QED
        BY <2>1, <2>2
<1>2. CASE Crash
    <2>1. \A u \in Threads : pc'[u] \in {"idle", "done", "dead"}
        BY <1>2 DEF Crash, TypeOK
    <2> QED
        BY <2>1 DEF ThreadsHold, ThreadHolds, StorePCs, CreatePCs
<1>3. CASE UNCHANGED <<pc, token, who, wiki, data, reply>>
    <2> SUFFICES ASSUME NEW u \in Threads
                 PROVE  ThreadHolds(u)'
        BY DEF ThreadsHold
    <2> QED
        BY <1>3, HoldsKept DEF LocalsKept
<1> QED
    BY <1>1, <1>2, <1>3 DEF Next, ThreadStep, Rename, ExpireToken, vars, locals

\* The writes of insert_or_edit_user_access_token put a token only where it belongs.
LEMMA OwnTokenStep ==
    ASSUME TypeOK, ThreadsHold, RowsHoldOwnToken, [Next]_vars
    PROVE  RowsHoldOwnToken'
<1>1. CASE UNCHANGED user
    BY <1>1 DEF RowsHoldOwnToken
<1>2. ASSUME NEW t \in Threads, UpdateUser(t) \/ InsertUser(t), user' # user
      PROVE  RowsHoldOwnToken'
    <2> DEFINE a == who[t].account
               g == token[t]
    <2>1. /\ g \in Grants
          /\ who[t] \in Identity
          /\ GrantOwner[g] = a
        BY <1>2 DEF ThreadsHold, ThreadHolds, StorePCs, UpdateUser, InsertUser
    <2>2. a \in Accounts /\ user \in Seq(Row)
        BY <2>1 DEF Identity, TypeOK
    <2>3. CASE user' = Updated(a, g)
        BY <2>1, <2>2, <2>3, UpdatedRows DEF RowsHoldOwnToken
    <2>4. CASE user' = Inserted(who[t], g)
        <3>1. ASSUME NEW i \in DOMAIN user', i \in DOMAIN user
              PROVE  GrantOwner[user'[i].access_token] = user'[i].github_id
            BY <2>1, <2>2, <2>4, <3>1, InsertedRows DEF RowsHoldOwnToken
        <3>2. ASSUME NEW i \in DOMAIN user', i \notin DOMAIN user
              PROVE  GrantOwner[user'[i].access_token] = user'[i].github_id
            <4>1. user'[i] = [username |-> who[t].user_name, github_id |-> a, access_token |-> g]
                BY <2>1, <2>2, <2>4, <3>2, InsertedRows
            <4> QED
                BY <2>1, <4>1
        <3> QED
            BY <3>1, <3>2 DEF RowsHoldOwnToken
    <2> QED
        BY <1>2, <2>3, <2>4 DEF UpdateUser, InsertUser, Write
<1> QED
    BY <1>1, <1>2
       DEF Next, Authorize, CreateRepo, HandleAuthorize, GetAccessToken, GetUserInfo, SelectUser,
           IssueToken, HandleCreateRepo, LookupUser, GetExistingRepo, CreateNewRepo,
           SendUrl, Rename, ExpireToken, Crash, vars

LEMMA StoredReposStep ==
    ASSUME TypeOK, ThreadsHold, RowsKept, ReposOnlyOfStored, [Next]_vars
    PROVE  ReposOnlyOfStored'
<1>1. CASE UNCHANGED repos
    BY <1>1, StoredKept DEF ReposOnlyOfStored
<1>2. ASSUME NEW t \in Threads, CreateNewRepo(t), repos' = repos \cup {Target(t)}
      PROVE  ReposOnlyOfStored'
    <2>1. Stored(GrantOwner[token[t]])
        BY <1>2 DEF CreateNewRepo, ThreadsHold, ThreadHolds
    <2>2. Target(t)[1] = GrantOwner[token[t]]
        BY DEF Target
    <2> QED
        BY <1>2, <2>1, <2>2, StoredKept DEF ReposOnlyOfStored
<1> QED
    BY <1>1, <1>2
       DEF Next, Authorize, CreateRepo, HandleAuthorize, GetAccessToken, GetUserInfo, SelectUser,
           UpdateUser, InsertUser, Write, IssueToken, HandleCreateRepo, LookupUser,
           GetExistingRepo, CreateNewRepo, SendUrl, Rename, ExpireToken, Crash, vars, github

-----------------------------------------------------------------------------
(* The connections *)

\* A connection is open while its handler is between the SELECT and the end of
\* the write, and after the early returns that forget it.
OpenHolds ==
    \A t \in open :
        \/ pc[t] \in {"update", "insert"}
        \/ pc[t] = "done" /\ reply[t] \in {"server_error", "no_record"}

LEMMA OpenStep ==
    ASSUME TypeOK, OpenHolds, [Next]_vars
    PROVE  OpenHolds'
<1> USE DEF TypeOK, OpenHolds, Answer, Goto, ReturnSilently, github, locals
<1>1. ASSUME NEW t \in Threads, ThreadStep(t)
      PROVE  OpenHolds'
    <2>1. \A u \in Threads \ {t} : pc'[u] = pc[u] /\ reply'[u] = reply[u]
        BY <1>1, OthersKept DEF LocalsKept
    <2>2. open' \subseteq open \cup {t}
        BY <1>1 DEF ThreadStep, Authorize, CreateRepo, HandleAuthorize, GetAccessToken,
                    GetUserInfo, SelectUser, UpdateUser, InsertUser, Write, Deinit, IssueToken,
                    HandleCreateRepo, LookupUser, LookupFound, LookupMissing, LookupError,
                    GetExistingRepo, CreateNewRepo, SendUrl
    <2>3. t \in open' => \/ pc'[t] \in {"update", "insert"}
                         \/ pc'[t] = "done" /\ reply'[t] \in {"server_error", "no_record"}
        <3>1. CASE HandleAuthorize(t) \/ GetAccessToken(t) \/ GetUserInfo(t)
            BY <3>1 DEF HandleAuthorize, GetAccessToken, GetUserInfo
        <3>2. CASE SelectUser(t)
            BY <3>2 DEF SelectUser, SelectBranch
        <3>3. CASE UpdateUser(t) \/ InsertUser(t)
            BY <3>3 DEF UpdateUser, InsertUser, Write, Deinit
        <3>4. CASE IssueToken(t) \/ HandleCreateRepo(t)
            BY <3>4 DEF IssueToken, HandleCreateRepo
        <3>5. CASE LookupUser(t)
            BY <3>5 DEF LookupUser, LookupFound, LookupMissing, LookupError
        <3>6. CASE GetExistingRepo(t) \/ CreateNewRepo(t) \/ SendUrl(t)
            BY <3>6 DEF GetExistingRepo, CreateNewRepo, Created, SendUrl
        <3> QED
            BY <1>1, <3>1, <3>2, <3>3, <3>4, <3>5, <3>6 DEF ThreadStep, Authorize, CreateRepo
    <2> QED
        BY <2>1, <2>2, <2>3
<1>2. CASE Crash
    BY <1>2 DEF Crash
<1>3. CASE UNCHANGED <<pc, open, reply>>
    BY <1>3
<1> QED
    BY <1>1, <1>2, <1>3 DEF Next, ThreadStep, Rename, ExpireToken, vars

-----------------------------------------------------------------------------
(* The theorems *)

LEMMA InvInit == Init => Inv
<1> SUFFICES ASSUME Init
             PROVE  Inv
    OBVIOUS
<1>1. TypeOK
    BY ConstantsAssumption DEF Init, TypeOK, PCs, Replies
<1>2. ThreadsHold
    BY DEF Init, ThreadsHold, ThreadHolds, StorePCs, CreatePCs
<1>3. RowsHoldOwnToken /\ ReposOnlyOfStored
    BY DEF Init, RowsHoldOwnToken, ReposOnlyOfStored
<1> QED
    BY <1>1, <1>2, <1>3 DEF Inv

LEMMA InvNext == Inv /\ [Next]_vars => Inv'
BY TypeStep, ThreadsHoldStep, OwnTokenStep, StoredReposStep DEF Inv

\* Whatever the interleaving, the failures, the crashes and the renames, Inv holds.
THEOREM Invariance == Spec => []Inv
BY InvInit, InvNext, PTL DEF Spec

\* The state stays well-typed: every jump of the handlers is to one of their
\* steps, every row and every JWT is complete.
THEOREM TypeCorrect == Spec => []TypeOK
BY Invariance, PTL DEF Inv

\* A row of the table never holds a token of another account than its own.
THEOREM RowsHoldOwnTokenAlways == Spec => []RowsHoldOwnToken
BY Invariance, PTL DEF Inv

\* A repository is only ever made in an account with a row in the table.
THEOREM ReposOnlyOfStoredAlways == Spec => []ReposOnlyOfStored
BY Invariance, PTL DEF Inv

\* A finished handler keeps a connection only after an answer of status 500.
THEOREM LeakOnlyOnServerErrorAlways == Spec => []LeakOnlyOnServerError
<1>1. Init => OpenHolds
    BY DEF Init, OpenHolds
<1>2. TypeOK /\ OpenHolds /\ [Next]_vars => OpenHolds'
    BY OpenStep
<1>3. OpenHolds => LeakOnlyOnServerError
    BY DEF OpenHolds, LeakOnlyOnServerError
<1> QED
    BY <1>1, <1>2, <1>3, TypeCorrect, PTL DEF Spec

-----------------------------------------------------------------------------
(***************************************************************************)
(* What follows holds as long as no login is ever that of two accounts, or *)
(* the database carries out the writes it accepts: the JWT names its       *)
(* holder by login and handle_create_repo finds the row by that name, so a *)
(* name has to stand for one account, whichever of its names it is. With   *)
(* both, the service implements AuthPromise.                               *)
(***************************************************************************)

(* Names that stand for accounts *)

\* Every name in the service is one its account has had.
NamesOwned ==
    /\ \A a \in Accounts : login[a] \in Names[a]
    /\ \A i \in DOMAIN user : user[i].username \in Names[user[i].github_id]
    /\ \A jwt \in jwts : jwt.user_name \in Names[jwt.account]
    /\ \A t \in Threads :
          pc[t] \in StorePCs \cup CreatePCs => who[t].user_name \in Names[who[t].account]

\* No login that one account may have is one another may have.
NoNameReused == \A a, b \in Accounts : Names[a] \cap Names[b] # {} => a = b

\* Only a finished handler has answered.
AnsweredIsDone == \A t \in Threads : reply[t] # "none" => pc[t] = "done"

\* A thread that has, or sent, an ssh_url has that of the repository it was asked for.
UrlIsHoldersRepo ==
    \A t \in Threads :
        pc[t] = "url" \/ reply[t] = "ssh_url" =>
            /\ data[t] = <<who[t].account, wiki[t]>>
            /\ data[t] \in repos

LoginInv == NamesOwned /\ AnsweredIsDone /\ ActsForHolder /\ UrlIsHoldersRepo

LEMMA LoginInvInit == Init => LoginInv
BY ConstantsAssumption
   DEF Init, LoginInv, NamesOwned, AnsweredIsDone, ActsForHolder, UrlIsHoldersRepo,
       StorePCs, CreatePCs

LEMMA OneAccountPerLogin ==
    ASSUME NoNameReused, NEW a \in Accounts, NEW b \in Accounts,
           NEW name \in Names[a], name \in Names[b]
    PROVE  a = b
BY DEF NoNameReused

-----------------------------------------------------------------------------
(* The names *)

LEMMA RowNamesStep ==
    ASSUME Inv, NamesOwned, [Next]_vars
    PROVE  \A i \in DOMAIN user' : user'[i].username \in Names[user'[i].github_id]
<1>1. CASE UNCHANGED user
    BY <1>1 DEF NamesOwned
<1>2. ASSUME NEW t \in Threads, UpdateUser(t) \/ InsertUser(t), user' # user
      PROVE  \A i \in DOMAIN user' : user'[i].username \in Names[user'[i].github_id]
    <2>1. /\ token[t] \in Grants
          /\ who[t] \in Identity
          /\ who[t].user_name \in Names[who[t].account]
        BY <1>2 DEF Inv, ThreadsHold, ThreadHolds, NamesOwned, StorePCs, UpdateUser, InsertUser
    <2>2. who[t].account \in Accounts /\ user \in Seq(Row)
        BY <2>1 DEF Identity, Inv, TypeOK
    <2>3. CASE user' = Updated(who[t].account, token[t])
        BY <2>1, <2>2, <2>3, UpdatedRows DEF NamesOwned
    <2>4. CASE user' = Inserted(who[t], token[t])
        <3> SUFFICES ASSUME NEW i \in DOMAIN user'
                     PROVE  user'[i].username \in Names[user'[i].github_id]
            OBVIOUS
        <3>1. CASE i \in DOMAIN user
            BY <2>1, <2>2, <2>4, <3>1, InsertedRows DEF NamesOwned
        <3>2. CASE i \notin DOMAIN user
            <4>1. user'[i] = [username |-> who[t].user_name,
                              github_id |-> who[t].account,
                              access_token |-> token[t]]
                BY <2>1, <2>2, <2>4, <3>2, InsertedRows
            <4> QED
                BY <2>1, <4>1
        <3> QED
            BY <3>1, <3>2
    <2> QED
        BY <1>2, <2>3, <2>4 DEF UpdateUser, InsertUser, Write
<1> QED
    BY <1>1, <1>2
       DEF Next, Authorize, CreateRepo, HandleAuthorize, GetAccessToken, GetUserInfo, SelectUser,
           IssueToken, HandleCreateRepo, LookupUser, GetExistingRepo, CreateNewRepo,
           SendUrl, Rename, ExpireToken, Crash, vars

\* The name a thread holds after a step of its own.
LEMMA OwnNameStep ==
    ASSUME Inv, NamesOwned, NEW t \in Threads, ThreadStep(t),
           pc'[t] \in StorePCs \cup CreatePCs
    PROVE  who'[t].user_name \in Names[who'[t].account]
<1> USE DEF Inv, TypeOK, Answer, Goto, ReturnSilently, StorePCs, CreatePCs
<1>1. CASE GetUserInfo(t)
    <2>1. who'[t] = UserOf(token[t]) /\ GrantOwner[token[t]] \in Accounts
        BY <1>1, ConstantsAssumption DEF GetUserInfo, ThreadsHold, ThreadHolds
    <2> QED
        BY <2>1 DEF UserOf, NamesOwned
<1>2. CASE HandleCreateRepo(t)
    <2>1. who'[t] \in jwts
        BY <1>2 DEF HandleCreateRepo, VerifiedTokens
    <2> QED
        BY <2>1 DEF NamesOwned
<1>3. CASE HandleAuthorize(t) \/ GetAccessToken(t)
    BY <1>3 DEF HandleAuthorize, GetAccessToken
<1>4. CASE SelectUser(t) \/ UpdateUser(t) \/ InsertUser(t) \/ IssueToken(t)
    <2>1. pc[t] \in StorePCs /\ UNCHANGED who
        BY <1>4 DEF SelectUser, UpdateUser, InsertUser, Write, IssueToken, locals
    <2> QED
        BY <2>1 DEF NamesOwned
<1>5. CASE LookupUser(t) \/ GetExistingRepo(t) \/ CreateNewRepo(t) \/ SendUrl(t)
    <2>1. pc[t] \in CreatePCs /\ UNCHANGED who
        BY <1>5 DEF LookupUser, GetExistingRepo, CreateNewRepo, SendUrl, locals
    <2> QED
        BY <2>1 DEF NamesOwned
<1> QED
    BY <1>1, <1>2, <1>3, <1>4, <1>5 DEF ThreadStep, Authorize, CreateRepo

LEMMA NamesStep ==
    ASSUME Inv, NamesOwned, [Next]_vars
    PROVE  NamesOwned'
<1>1. \A a \in Accounts : login'[a] \in Names[a]
    <2>1. ASSUME NEW a \in Accounts, Rename(a)
          PROVE  \A b \in Accounts : login'[b] \in Names[b]
        BY <2>1 DEF Rename, NamesOwned, Inv, TypeOK
    <2>2. CASE UNCHANGED login
        BY <2>2 DEF NamesOwned
    <2> QED
        BY <2>1, <2>2
           DEF Next, Authorize, CreateRepo, HandleAuthorize, GetAccessToken, GetUserInfo,
               SelectUser, UpdateUser, InsertUser, Write, IssueToken, HandleCreateRepo, LookupUser,
               GetExistingRepo, CreateNewRepo, SendUrl, ExpireToken, Crash, vars, github
<1>2. \A jwt \in jwts' : jwt.user_name \in Names[jwt.account]
    <2>1. ASSUME NEW t \in Threads, IssueToken(t)
          PROVE  \A jwt \in jwts' : jwt.user_name \in Names[jwt.account]
        BY <2>1 DEF IssueToken, Sign, NamesOwned, StorePCs
    <2>2. CASE jwts' \subseteq jwts
        BY <2>2 DEF NamesOwned
    <2> QED
        BY <2>1, <2>2
           DEF Next, Authorize, CreateRepo, HandleAuthorize, GetAccessToken, GetUserInfo,
               SelectUser, UpdateUser, InsertUser, Write, HandleCreateRepo, LookupUser,
               GetExistingRepo, CreateNewRepo, SendUrl, Rename, ExpireToken, Crash, vars
<1>3. ASSUME NEW t \in Threads, pc'[t] \in StorePCs \cup CreatePCs
      PROVE  who'[t].user_name \in Names[who'[t].account]
    <2>1. CASE ThreadStep(t)
        BY <1>3, <2>1, OwnNameStep
    <2>2. CASE \E u \in Threads \ {t} : ThreadStep(u)
        BY <1>3, <2>2, OthersKept DEF Inv, LocalsKept, NamesOwned
    <2>3. CASE Crash
        BY <1>3, <2>3 DEF Crash, Inv, TypeOK, StorePCs, CreatePCs
    <2>4. CASE UNCHANGED <<pc, who>>
        BY <1>3, <2>4 DEF NamesOwned
    <2> QED
        BY <2>1, <2>2, <2>3, <2>4 DEF Next, ThreadStep, Rename, ExpireToken, locals, vars
<1> QED
    BY <1>1, <1>2, <1>3, RowNamesStep DEF NamesOwned

-----------------------------------------------------------------------------
(* The answers *)

LEMMA AnsweredStep ==
    ASSUME TypeOK, AnsweredIsDone, [Next]_vars
    PROVE  AnsweredIsDone'
<1> SUFFICES ASSUME NEW u \in Threads, reply'[u] # "none"
             PROVE  pc'[u] = "done"
    BY DEF AnsweredIsDone
<1> USE DEF TypeOK, AnsweredIsDone
<1>1. CASE ThreadStep(u)
    <2>1. pc[u] # "done" /\ reply[u] = "none"
        BY <1>1 DEF ThreadStep, Authorize, CreateRepo, HandleAuthorize, GetAccessToken,
                    GetUserInfo, SelectUser, UpdateUser, InsertUser, IssueToken,
                    HandleCreateRepo, LookupUser, GetExistingRepo, CreateNewRepo, SendUrl
    <2> USE DEF Answer, Goto, ReturnSilently
    <2>2. CASE HandleAuthorize(u) \/ GetAccessToken(u) \/ GetUserInfo(u) \/ SelectUser(u)
        BY <2>1, <2>2 DEF HandleAuthorize, GetAccessToken, GetUserInfo, SelectUser, SelectBranch
    <2>3. CASE UpdateUser(u) \/ InsertUser(u) \/ IssueToken(u) \/ HandleCreateRepo(u)
        BY <2>1, <2>3 DEF UpdateUser, InsertUser, Write, IssueToken, HandleCreateRepo
    <2>4. CASE LookupUser(u) \/ GetExistingRepo(u) \/ CreateNewRepo(u) \/ SendUrl(u)
        BY <2>1, <2>4 DEF LookupUser, LookupFound, LookupMissing, LookupError, GetExistingRepo,
                          CreateNewRepo, Created, SendUrl
    <2> QED
        BY <1>1, <2>2, <2>3, <2>4 DEF ThreadStep, Authorize, CreateRepo
<1>2. CASE \E t \in Threads \ {u} : ThreadStep(t)
    BY <1>2, OthersKept DEF LocalsKept
<1>3. CASE Crash
    BY <1>3 DEF Crash
<1>4. CASE UNCHANGED <<pc, reply>>
    BY <1>4
<1> QED
    BY <1>1, <1>2, <1>3, <1>4 DEF Next, ThreadStep, Rename, ExpireToken, vars

LEMMA ActsForHolderStep ==
    ASSUME NoNameReused, Inv, LoginInv, [Next]_vars
    PROVE  ActsForHolder'
<1> SUFFICES ASSUME NEW u \in Threads, pc'[u] \in {"existing", "create"}
             PROVE  GrantOwner[token'[u]] = who'[u].account
    BY DEF ActsForHolder
<1> USE DEF Inv, TypeOK, Answer, Goto, ReturnSilently
<1>1. CASE LookupUser(u)
    <2>1. LookupFound(u)
        BY <1>1 DEF LookupUser, LookupMissing, LookupError
    <2>2. PICK i \in DOMAIN user : /\ user[i].username = who[u].user_name
                                   /\ token' = [token EXCEPT ![u] = user[i].access_token]
        BY <2>1 DEF LookupFound, HasUsername
    <2>3. /\ pc[u] = "lookup"
          /\ who' = who
        BY <1>1 DEF LookupUser
    <2>4. who[u].user_name \in Names[who[u].account]
        BY <2>3 DEF LoginInv, NamesOwned, CreatePCs
    <2>5. user[i].username \in Names[user[i].github_id]
        BY DEF LoginInv, NamesOwned
    <2>6. who[u].account \in Accounts
        BY <2>3 DEF ThreadsHold, ThreadHolds, CreatePCs, Identity
    <2>7. user[i].github_id = who[u].account
        BY <2>2, <2>4, <2>5, <2>6, RowFields, OneAccountPerLogin
    <2>8. GrantOwner[user[i].access_token] = user[i].github_id
        BY DEF RowsHoldOwnToken
    <2> QED
        BY <2>2, <2>3, <2>7, <2>8
<1>2. CASE GetExistingRepo(u)
    <2>1. pc[u] = "existing" /\ token' = token /\ who' = who
        BY <1>2 DEF GetExistingRepo
    <2> QED
        BY <2>1 DEF LoginInv, ActsForHolder
<1>3. CASE \/ HandleAuthorize(u) \/ Authorize(u) \/ HandleCreateRepo(u)
           \/ CreateNewRepo(u) \/ SendUrl(u)
    BY <1>3 DEF HandleAuthorize, Authorize, GetAccessToken, GetUserInfo, SelectUser, SelectBranch,
                UpdateUser, InsertUser, Write, IssueToken, HandleCreateRepo, CreateNewRepo,
                Created, SendUrl
<1>4. CASE \E t \in Threads \ {u} : ThreadStep(t)
    BY <1>4, OthersKept DEF LocalsKept, LoginInv, ActsForHolder
<1>5. CASE Crash
    BY <1>5 DEF Crash
<1>6. CASE UNCHANGED <<pc, token, who>>
    BY <1>6 DEF LoginInv, ActsForHolder
<1> QED
    BY <1>1, <1>2, <1>3, <1>4, <1>5, <1>6
       DEF Next, ThreadStep, CreateRepo, Rename, ExpireToken, locals, vars

LEMMA ReposKept ==
    ASSUME [Next]_vars
    PROVE  repos \subseteq repos'
BY DEF Next, Authorize, CreateRepo, HandleAuthorize, GetAccessToken, GetUserInfo, SelectUser,
       UpdateUser, InsertUser, Write, IssueToken, HandleCreateRepo, LookupUser, GetExistingRepo,
       CreateNewRepo, SendUrl, Rename, ExpireToken, Crash, vars, github

\* What the two steps that get an ssh_url from GitHub get.
LEMMA UrlGot ==
    ASSUME NoNameReused, Inv, LoginInv, NEW u \in Threads,
           GetExistingRepo(u) \/ CreateNewRepo(u), pc'[u] = "url"
    PROVE  /\ data'[u] = <<who[u].account, wiki[u]>>
           /\ data'[u] \in repos'
           /\ UNCHANGED <<who, wiki>>
<1> USE DEF Inv, TypeOK, Answer, Goto, ReturnSilently
<1>1. CASE GetExistingRepo(u)
    <2>1. pc[u] = "existing" /\ repos' = repos /\ UNCHANGED <<who, wiki>>
        BY <1>1 DEF GetExistingRepo, github
    <2>2. PICK repo \in Visible(u) : data'[u] = repo
        BY <1>1 DEF GetExistingRepo
    <2>3. who[u] \in Identity /\ who[u].account \in Accounts /\ wiki[u] \in Wikis
        BY <2>1 DEF ThreadsHold, ThreadHolds, CreatePCs, Identity
    <2>4. /\ repo \in repos
          /\ repo \in Accounts \X Wikis
          /\ login[repo[1]] = who[u].user_name
          /\ repo[2] = wiki[u]
        BY <2>2 DEF Visible
    <2>5. login[repo[1]] \in Names[repo[1]] /\ who[u].user_name \in Names[who[u].account]
        BY <2>1, <2>4 DEF LoginInv, NamesOwned, CreatePCs
    <2>6. repo[1] = who[u].account
        BY <2>3, <2>4, <2>5, OneAccountPerLogin
    <2> QED
        BY <2>1, <2>2, <2>4, <2>6
<1>2. CASE CreateNewRepo(u)
    <2>1. GrantOwner[token[u]] = who[u].account
        BY <1>2 DEF CreateNewRepo, LoginInv, ActsForHolder
    <2>2. data'[u] = Target(u) /\ Target(u) \in repos' /\ UNCHANGED <<who, wiki>>
        BY <1>2 DEF CreateNewRepo, Created
    <2> QED
        BY <2>1, <2>2 DEF Target
<1> QED
    BY <1>1, <1>2

LEMMA UrlStep ==
    ASSUME NoNameReused, Inv, LoginInv, [Next]_vars
    PROVE  UrlIsHoldersRepo'
<1> SUFFICES ASSUME NEW u \in Threads, pc'[u] = "url" \/ reply'[u] = "ssh_url"
             PROVE  data'[u] = <<who'[u].account, wiki'[u]>> /\ data'[u] \in repos'
    BY DEF UrlIsHoldersRepo
<1> USE DEF Inv, TypeOK, Answer, Goto, ReturnSilently
<1>1. CASE ThreadStep(u)
    <2>1. pc[u] # "done" /\ reply[u] = "none"
        BY <1>1 DEF ThreadStep, Authorize, CreateRepo, HandleAuthorize, GetAccessToken,
                    GetUserInfo, SelectUser, UpdateUser, InsertUser, IssueToken,
                    HandleCreateRepo, LookupUser, GetExistingRepo, CreateNewRepo, SendUrl,
                    LoginInv, AnsweredIsDone
    <2>2. CASE GetExistingRepo(u) \/ CreateNewRepo(u)
        <3>1. pc'[u] = "url"
            BY <2>1, <2>2 DEF GetExistingRepo, CreateNewRepo, Created
        <3> QED
            BY <2>2, <3>1, UrlGot
    <2>3. CASE SendUrl(u)
        BY <2>3, ReposKept DEF SendUrl, locals, LoginInv, UrlIsHoldersRepo
    <2>4. CASE HandleAuthorize(u) \/ Authorize(u)
        BY <2>1, <2>4 DEF HandleAuthorize, Authorize, GetAccessToken, GetUserInfo, SelectUser,
                    SelectBranch, UpdateUser, InsertUser, Write, IssueToken
    <2>5. CASE HandleCreateRepo(u) \/ LookupUser(u)
        BY <2>1, <2>5 DEF HandleCreateRepo, LookupUser, LookupFound, LookupMissing, LookupError
    <2> QED
        BY <1>1, <2>2, <2>3, <2>4, <2>5 DEF ThreadStep, CreateRepo
<1>2. CASE LocalsKept(u)
    BY <1>2, ReposKept DEF LocalsKept, LoginInv, UrlIsHoldersRepo
<1>3. CASE \E t \in Threads \ {u} : ThreadStep(t)
    BY <1>2, <1>3, OthersKept
<1>4. CASE UNCHANGED <<pc, who, wiki, data, reply>>
    BY <1>4, ReposKept DEF LoginInv, UrlIsHoldersRepo
<1>5. CASE Crash
    BY <1>5, ReposKept DEF Crash, locals, LoginInv, UrlIsHoldersRepo
<1> QED
    BY <1>1, <1>3, <1>4, <1>5 DEF Next, ThreadStep, Rename, ExpireToken, locals, vars

LEMMA LoginInvNext ==
    ASSUME NoNameReused, Inv, LoginInv, [Next]_vars
    PROVE  LoginInv'
BY NamesStep, AnsweredStep, ActsForHolderStep, UrlStep DEF LoginInv, Inv

\* The step that tells a client it has no record looked at every row.
LEMMA NoRecordStep ==
    ASSUME Inv, NamesOwned, [Next]_vars, NEW u \in Threads,
           reply'[u] = "no_record", reply[u] = "none"
    PROVE  ~ Stored(who[u].account) \/ Renamed(who[u].account)
<1> USE DEF Inv, TypeOK, Answer, Goto, ReturnSilently
<1>1. CASE LookupUser(u)
    <2>1. \A i \in DOMAIN user : user[i].username # who[u].user_name
        BY <1>1 DEF LookupUser, LookupFound, LookupMissing, LookupError, HasUsername
    <2>2. who[u].user_name \in Names[who[u].account]
        BY <1>1 DEF LookupUser, NamesOwned, CreatePCs
    <2>3. ASSUME NEW i \in DOMAIN user, user[i].github_id = who[u].account
          PROVE  Renamed(who[u].account)
        BY <2>1, <2>2, <2>3 DEF NamesOwned, Renamed
    <2> QED
        BY <2>3 DEF Stored, HasGithubId
<1>2. CASE HandleAuthorize(u) \/ Authorize(u)
    BY <1>2 DEF HandleAuthorize, Authorize, GetAccessToken, GetUserInfo, SelectUser,
                SelectBranch, UpdateUser, InsertUser, Write, IssueToken
<1>3. CASE HandleCreateRepo(u) \/ GetExistingRepo(u) \/ CreateNewRepo(u) \/ SendUrl(u)
    BY <1>3 DEF HandleCreateRepo, GetExistingRepo, CreateNewRepo, Created, SendUrl
<1>4. CASE \E t \in Threads \ {u} : ThreadStep(t)
    BY <1>4, OthersKept DEF LocalsKept
<1>5. CASE UNCHANGED reply
    BY <1>5
<1> QED
    BY <1>1, <1>2, <1>3, <1>4, <1>5
       DEF Next, ThreadStep, CreateRepo, Rename, ExpireToken, Crash, vars

-----------------------------------------------------------------------------
(* The races *)

\* When no call to GitHub fails, some thread has the url of every repository made,
\* a thread that has one sends it or dies, and a thread that ends without an answer
\* asked for a repository there is.
RaceInv ==
    /\ \A repo \in repos : \E u \in Threads : data[u] = repo
    /\ \A u \in Threads :
          data[u] # Null => pc[u] \in {"url", "dead"} \/ reply[u] = "ssh_url"
    /\ \A t \in Threads :
          pc[t] = "done" /\ reply[t] = "none" => <<who[t].account, wiki[t]>> \in repos

\* A thread keeps the url it has.
LEMMA UrlKept ==
    ASSUME Inv, LoginInv, RaceInv, [Next]_vars, NEW u \in Threads, data[u] # Null
    PROVE  /\ data'[u] = data[u]
           /\ pc'[u] \in {"url", "dead"} \/ reply'[u] = "ssh_url"
<1> USE DEF Inv, TypeOK
<1>1. pc[u] \in {"url", "dead"} \/ (pc[u] = "done" /\ reply[u] = "ssh_url")
    BY DEF RaceInv, LoginInv, AnsweredIsDone
<1>2. CASE ThreadStep(u)
    <2>1. SendUrl(u)
        BY <1>1, <1>2
           DEF ThreadStep, Authorize, CreateRepo, HandleAuthorize, GetAccessToken,
                GetUserInfo, SelectUser, UpdateUser, InsertUser, IssueToken,
                HandleCreateRepo, LookupUser, GetExistingRepo, CreateNewRepo
    <2> QED
        BY <2>1 DEF SendUrl, Answer, locals
<1>3. CASE \E t \in Threads \ {u} : ThreadStep(t)
    BY <1>1, <1>3, OthersKept DEF LocalsKept
<1>4. CASE UNCHANGED <<pc, data, reply>>
    BY <1>1, <1>4
<1>5. CASE Crash
    BY <1>1, <1>5 DEF Crash, locals
<1> QED
    BY <1>2, <1>3, <1>4, <1>5 DEF Next, ThreadStep, Rename, ExpireToken, locals, vars

\* A new repository's url goes to the thread that made it.
LEMMA MadeIsToldStep ==
    ASSUME "curl" \notin Failures, "github" \notin Failures, Inv, LoginInv, RaceInv, [Next]_vars,
           NEW repo \in repos'
    PROVE  \E u \in Threads : data'[u] = repo
<1>1. CASE repo \in repos
    <2>1. PICK u \in Threads : data[u] = repo
        BY <1>1 DEF RaceInv
    <2>2. data[u] # Null
        BY <1>1, <2>1, ConstantsAssumption DEF Inv, TypeOK
    <2> QED
        BY <2>1, <2>2, UrlKept
<1>2. ASSUME NEW t \in Threads, CreateNewRepo(t), repo \notin repos
      PROVE  data'[t] = repo
    <2>1. repo = Target(t) /\ Created(t)
        BY <1>2 DEF CreateNewRepo
    <2> QED
        BY <2>1 DEF Created, Fails, Inv, TypeOK
<1> QED
    BY <1>1, <1>2
       DEF Next, Authorize, CreateRepo, HandleAuthorize, GetAccessToken, GetUserInfo, SelectUser,
           UpdateUser, InsertUser, Write, IssueToken, HandleCreateRepo, LookupUser,
           GetExistingRepo, SendUrl, Rename, ExpireToken, Crash, vars, github

\* Only the two calls to GitHub get an url.
LEMMA UrlHeldStep ==
    ASSUME Inv, LoginInv, RaceInv, [Next]_vars, NEW u \in Threads, data'[u] # Null
    PROVE  pc'[u] \in {"url", "dead"} \/ reply'[u] = "ssh_url"
<1>1. CASE data[u] # Null
    BY <1>1, UrlKept
<1> USE DEF Inv, TypeOK
<1>2. CASE data[u] = Null /\ ThreadStep(u)
    <2>1. GetExistingRepo(u) \/ CreateNewRepo(u)
        BY <1>2
           DEF ThreadStep, Authorize, CreateRepo, HandleAuthorize, GetAccessToken,
               GetUserInfo, SelectUser, UpdateUser, InsertUser, Write, IssueToken,
               HandleCreateRepo, LookupUser, SendUrl, locals
    <2> QED
        BY <1>2, <2>1 DEF GetExistingRepo, CreateNewRepo, Created, Goto
<1>3. CASE data[u] = Null /\ \E t \in Threads \ {u} : ThreadStep(t)
    BY <1>3, OthersKept DEF LocalsKept
<1>4. CASE data[u] = Null /\ UNCHANGED data
    BY <1>4
<1> QED
    BY <1>1, <1>2, <1>3, <1>4 DEF Next, ThreadStep, Rename, ExpireToken, Crash, locals, vars

LEMMA RacedStep ==
    ASSUME "curl" \notin Failures, "github" \notin Failures, Inv, LoginInv, RaceInv, [Next]_vars,
           NEW t \in Threads, pc'[t] = "done", reply'[t] = "none"
    PROVE  <<who'[t].account, wiki'[t]>> \in repos'
<1>1. CASE pc[t] = "done" /\ reply[t] = "none" /\ UNCHANGED <<who[t], wiki[t]>>
    BY <1>1, ReposKept DEF RaceInv
<1> USE DEF Inv, TypeOK, Answer, Goto, ReturnSilently, Fails
<1>2. CASE ThreadStep(t)
    <2>1. CreateNewRepo(t)
        <3>1. CASE HandleAuthorize(t) \/ Authorize(t)
            BY <1>2, <3>1
               DEF HandleAuthorize, Authorize, GetAccessToken, GetUserInfo, SelectUser,
                   SelectBranch, UpdateUser, InsertUser, Write, IssueToken
        <3>2. CASE HandleCreateRepo(t) \/ LookupUser(t) \/ GetExistingRepo(t) \/ SendUrl(t)
            BY <1>2, <3>2 DEF HandleCreateRepo, LookupUser, LookupFound, LookupMissing,
                              LookupError, GetExistingRepo, SendUrl
        <3> QED
            BY <1>2, <3>1, <3>2 DEF ThreadStep, CreateRepo
    <2>2. GrantOwner[token[t]] = who[t].account
        BY <2>1 DEF CreateNewRepo, LoginInv, ActsForHolder
    <2>3. Target(t) \in repos' /\ UNCHANGED <<who, wiki>>
        BY <2>1 DEF CreateNewRepo, Created
    <2> QED
        BY <2>2, <2>3 DEF Target
<1>3. CASE LocalsKept(t)
    BY <1>1, <1>3 DEF LocalsKept
<1>4. CASE \E u \in Threads \ {t} : ThreadStep(u)
    BY <1>3, <1>4, OthersKept
<1>5. CASE UNCHANGED <<pc, who, wiki, reply>>
    BY <1>1, <1>5
<1>6. CASE Crash
    BY <1>1, <1>6 DEF Crash, locals
<1> QED
    BY <1>2, <1>4, <1>5, <1>6 DEF Next, ThreadStep, Rename, ExpireToken, Crash, locals, vars

LEMMA RaceInvNext ==
    ASSUME "curl" \notin Failures, "github" \notin Failures, Inv, LoginInv, RaceInv, [Next]_vars
    PROVE  RaceInv'
BY MadeIsToldStep, UrlHeldStep, RacedStep DEF RaceInv

\* The thread with the url is not the one that got no answer.
LEMMA RaceInvSilent ==
    ASSUME TypeOK, AnsweredIsDone, RaceInv
    PROVE  SilentMeansMadeByAnother
<1> SUFFICES ASSUME NEW t \in Threads, pc[t] = "done", reply[t] = "none"
             PROVE  /\ <<who[t].account, wiki[t]>> \in repos
                    /\ \E u \in Threads \ {t} :
                          /\ pc[u] \in {"url", "done", "dead"}
                          /\ data[u] = <<who[t].account, wiki[t]>>
    BY DEF SilentMeansMadeByAnother
<1>1. <<who[t].account, wiki[t]>> \in repos
    BY DEF RaceInv
<1>2. PICK u \in Threads : data[u] = <<who[t].account, wiki[t]>>
    BY <1>1 DEF RaceInv
<1>3. data[u] # Null
    BY <1>1, <1>2, ConstantsAssumption DEF TypeOK
<1>4. pc[u] \in {"url", "dead"} \/ reply[u] = "ssh_url"
    BY <1>3 DEF RaceInv
<1> QED
    BY <1>1, <1>2, <1>4 DEF AnsweredIsDone

-----------------------------------------------------------------------------
(* The theorems *)

\* While no login is ever that of two accounts, names stand for accounts in every
\* behaviour, renamed or not.
THEOREM LoginInvariance ==
    ASSUME NoNameReused
    PROVE  Spec => []LoginInv
<1>1. Inv /\ LoginInv /\ [Next]_vars => LoginInv'
    BY LoginInvNext
<1> QED
    BY <1>1, LoginInvInit, Invariance, PTL DEF Spec

\* handle_create_repo talks to GitHub with a token of the account its JWT was
\* issued to, as long as no account takes a login that is ever another's.
THEOREM ActsForHolderAlways ==
    ASSUME NoNameReused
    PROVE  Spec => []ActsForHolder
BY LoginInvariance, PTL DEF LoginInv

\* The ssh_url a client is sent is that of the repository it asked for.
THEOREM SshUrlIsHoldersRepoAlways ==
    ASSUME NoNameReused
    PROVE  Spec => []SshUrlIsHoldersRepo
<1>1. LoginInv => SshUrlIsHoldersRepo
    BY DEF LoginInv, UrlIsHoldersRepo, SshUrlIsHoldersRepo
<1> QED
    BY <1>1, LoginInvariance, PTL

\* "No record found for user" is true of the account the JWT was issued to, unless
\* that account may have been renamed; whatever else is renamed, fails or is lost.
THEOREM NoRecordMeansNewOrRenamedAlways == Spec => NoRecordMeansNewOrRenamed
<1>1. Init => NamesOwned
    BY LoginInvInit DEF LoginInv
<1>2. Inv /\ NamesOwned /\ [Next]_vars => NamesOwned'
    BY NamesStep
<1>3. Inv /\ NamesOwned /\ [Next]_vars =>
        [\A t \in Threads :
            reply'[t] = "no_record" /\ reply[t] = "none" =>
                ~ Stored(who[t].account) \/ Renamed(who[t].account)]_vars
    BY NoRecordStep
<1> QED
    BY <1>1, <1>2, <1>3, Invariance, PTL DEF Spec, NoRecordMeansNewOrRenamed

\* When no call to GitHub fails, a request that got no answer asked for a repository
\* that another request made.
THEOREM SilentMeansMadeByAnotherAlways ==
    ASSUME NoNameReused, "curl" \notin Failures, "github" \notin Failures
    PROVE  Spec => []SilentMeansMadeByAnother
<1>1. Init => RaceInv
    BY DEF Init, RaceInv
<1>2. Inv /\ LoginInv /\ RaceInv /\ [Next]_vars => RaceInv'
    BY RaceInvNext
<1>3. Inv /\ LoginInv /\ RaceInv => SilentMeansMadeByAnother
    BY RaceInvSilent DEF Inv, LoginInv
<1> QED
    BY <1>1, <1>2, <1>3, Invariance, LoginInvariance, PTL DEF Spec

-----------------------------------------------------------------------------
(* The promise *)

\* A handler past the SELECT that found a row, or past the write, has a row, and so
\* has the account whose JWT went out in the page; handle_authorize wants no wiki.
AuthorizeWantsNone ==
    \A t \in Threads : pc[t] \in {"idle"} \cup AuthorizePCs => wiki[t] = Null

StoredInv ==
    /\ \A t \in Threads :
          pc[t] \in {"update", "issue"} \/ reply[t] = "html" => Stored(who[t].account)
    /\ AnsweredIsDone
    /\ TokenHoldersStored
    /\ AuthorizeWantsNone

LEMMA WantsNoneStep ==
    ASSUME TypeOK, AuthorizeWantsNone, [Next]_vars
    PROVE  AuthorizeWantsNone'
<1> SUFFICES ASSUME NEW u \in Threads, pc'[u] \in {"idle"} \cup AuthorizePCs
             PROVE  wiki'[u] = Null
    BY DEF AuthorizeWantsNone
<1> USE DEF TypeOK, Answer, Goto, ReturnSilently, AuthorizePCs, AuthorizeWantsNone
<1>1. CASE HandleAuthorize(u) \/ Authorize(u)
    BY <1>1 DEF HandleAuthorize, Authorize, GetAccessToken, GetUserInfo, SelectUser, SelectBranch,
                UpdateUser, InsertUser, Write, IssueToken, locals
<1>2. CASE HandleCreateRepo(u) \/ CreateRepo(u)
    BY <1>2 DEF HandleCreateRepo, CreateRepo, LookupUser, LookupFound, LookupMissing, LookupError,
                GetExistingRepo, CreateNewRepo, Created, SendUrl
<1>3. CASE \E t \in Threads \ {u} : ThreadStep(t)
    BY <1>3, OthersKept DEF LocalsKept
<1>4. CASE Crash
    BY <1>4 DEF Crash, locals
<1>5. CASE UNCHANGED <<pc, wiki>>
    BY <1>5
<1> QED
    BY <1>1, <1>2, <1>3, <1>4, <1>5 DEF Next, ThreadStep, Rename, ExpireToken, locals, vars

LEMMA OwnStoredStep ==
    ASSUME "execute" \notin Failures, Inv, StoredInv, RowsKept,
           NEW t \in Threads, ThreadStep(t),
           pc'[t] \in {"update", "issue"} \/ reply'[t] = "html"
    PROVE  Stored(who[t].account)' /\ who'[t] = who[t]
<1>0. pc[t] # "done" => reply[t] = "none"
    BY DEF StoredInv, AnsweredIsDone
<1> USE DEF Inv, TypeOK, Answer, Goto, ReturnSilently
<1>1. CASE SelectUser(t)
    BY <1>0, <1>1, StoredKept DEF SelectUser, SelectBranch, locals
<1>2. CASE UpdateUser(t)
    BY <1>0, <1>2, StoredKept DEF UpdateUser, Write, StoredInv, locals
<1>3. CASE InsertUser(t)
    <2>1. who' = who /\ user' = Inserted(who[t], token[t])
        BY <1>3 DEF InsertUser, Write, Fails, locals
    <2>2. token[t] \in Grants /\ who[t] \in Identity /\ who[t].account \in Accounts
        BY <1>3 DEF InsertUser, ThreadsHold, ThreadHolds, StorePCs, Identity
    <2>3. CASE Stored(who[t].account)
        BY <2>1, <2>3, StoredKept
    <2>4. CASE ~ Stored(who[t].account)
        <3>1. Len(user) + 1 \in DOMAIN user' /\ Len(user) + 1 \notin DOMAIN user
            BY <2>1, <2>2, <2>4, InsertedRows
        <3>2. user'[Len(user) + 1].github_id = who[t].account
            BY <2>1, <2>2, <3>1, InsertedRows
        <3> QED
            BY <2>1, <3>1, <3>2 DEF Stored, HasGithubId
    <2> QED
        BY <2>1, <2>3, <2>4
<1>4. CASE HandleAuthorize(t) \/ GetAccessToken(t) \/ GetUserInfo(t)
    BY <1>0, <1>4 DEF HandleAuthorize, GetAccessToken, GetUserInfo
<1>5. CASE IssueToken(t)
    BY <1>0, <1>5, StoredKept DEF IssueToken, StoredInv, locals
<1>6. CASE HandleCreateRepo(t) \/ CreateRepo(t)
    BY <1>0, <1>6 DEF HandleCreateRepo, CreateRepo, LookupUser, LookupFound, LookupMissing, LookupError,
                GetExistingRepo, CreateNewRepo, Created, SendUrl
<1> QED
    BY <1>1, <1>2, <1>3, <1>4, <1>5, <1>6 DEF ThreadStep, Authorize

LEMMA StoredStep ==
    ASSUME "execute" \notin Failures, Inv, StoredInv, [Next]_vars
    PROVE  StoredInv'
<1>1. RowsKept
    BY TypeStep DEF Inv
<1>2. ASSUME NEW u \in Threads, pc'[u] \in {"update", "issue"} \/ reply'[u] = "html"
      PROVE  Stored(who[u].account)'
    <2>1. CASE ThreadStep(u)
        BY <1>1, <1>2, <2>1, OwnStoredStep
    <2>2. CASE LocalsKept(u)
        BY <1>1, <1>2, <2>2, StoredKept DEF LocalsKept, StoredInv
    <2>3. CASE \E t \in Threads \ {u} : ThreadStep(t)
        BY <2>2, <2>3, OthersKept DEF Inv
    <2>4. CASE Crash
        BY <1>1, <1>2, <2>4, StoredKept DEF Crash, Inv, TypeOK, StoredInv, locals
    <2>5. CASE UNCHANGED <<pc, who, reply>>
        BY <1>1, <1>2, <2>5, StoredKept DEF StoredInv
    <2> QED
        BY <2>1, <2>3, <2>4, <2>5 DEF Next, ThreadStep, Rename, ExpireToken, locals, vars
<1>3. TokenHoldersStored'
    <2>1. ASSUME NEW t \in Threads, IssueToken(t)
          PROVE  TokenHoldersStored'
        BY <1>1, <2>1, StoredKept DEF IssueToken, Sign, StoredInv, TokenHoldersStored
    <2>2. CASE jwts' \subseteq jwts
        BY <1>1, <2>2, StoredKept DEF StoredInv, TokenHoldersStored
    <2> QED
        BY <2>1, <2>2
           DEF Next, Authorize, CreateRepo, HandleAuthorize, GetAccessToken, GetUserInfo,
               SelectUser, UpdateUser, InsertUser, Write, HandleCreateRepo, LookupUser,
               GetExistingRepo, CreateNewRepo, SendUrl, Rename, ExpireToken, Crash, vars
<1>4. AnsweredIsDone'
    BY AnsweredStep DEF Inv, StoredInv
<1>5. AuthorizeWantsNone'
    BY WantsNoneStep DEF Inv, StoredInv
<1> QED
    BY <1>2, <1>3, <1>4, <1>5 DEF StoredInv

\* While no write is lost, a handler that goes on from a row, or from writing one, has it.
THEOREM StoredInvariance ==
    ASSUME "execute" \notin Failures
    PROVE  Spec => []StoredInv
<1>1. Init => StoredInv
    BY DEF Init, StoredInv, AnsweredIsDone, TokenHoldersStored, AuthorizeWantsNone
<1>2. Inv /\ StoredInv /\ [Next]_vars => StoredInv'
    BY StoredStep
<1> QED
    BY <1>1, <1>2, Invariance, PTL DEF Spec

\* Every JWT in circulation is for an account with a row, as long as the
\* database carries out the writes it accepts.
THEOREM TokenHoldersStoredAlways ==
    ASSUME "execute" \notin Failures
    PROVE  Spec => []TokenHoldersStored
BY StoredInvariance, PTL DEF StoredInv

-----------------------------------------------------------------------------
(* The refinement *)

StoredAccounts == {user[i].github_id : i \in DOMAIN user}
Wanted == [t \in Threads |-> Asked(t)]
Told == [t \in Threads |-> Outcome(t)]

LEMMA StoredIsAccount ==
    ASSUME NEW a
    PROVE  a \in StoredAccounts <=> Stored(a)
BY DEF StoredAccounts, Stored, HasGithubId

\* A step of one thread changes at most what that thread was told.
LEMMA ToldStep ==
    ASSUME TypeOK, AnsweredIsDone, NEW t \in Threads, ThreadStep(t)
    PROVE  /\ Told[t] = <<"none">>
           /\ Told' = [Told EXCEPT ![t] = Outcome(t)']
<1>1. reply[t] = "none"
    BY DEF ThreadStep, Authorize, CreateRepo, HandleAuthorize, GetAccessToken,
           GetUserInfo, SelectUser, UpdateUser, InsertUser, IssueToken,
           HandleCreateRepo, LookupUser, GetExistingRepo, CreateNewRepo, SendUrl,
           AnsweredIsDone
<1>2. \A u \in Threads \ {t} : Outcome(u)' = Outcome(u)
    BY OthersKept DEF LocalsKept, Outcome
<1>3. Outcome(t) = <<"none">>
    BY <1>1 DEF Outcome
<1> QED
    BY <1>2, <1>3 DEF Told

\* ... and what it wants, if it reads its request.
LEMMA WantedStep ==
    ASSUME TypeOK, NEW t \in Threads, ThreadStep(t)
    PROVE  Wanted' = [Wanted EXCEPT ![t] = Asked(t)']
<1>1. \A u \in Threads \ {t} : Asked(u)' = Asked(u)
    BY OthersKept DEF LocalsKept, Asked
<1> QED
    BY <1>1 DEF Wanted

LEMMA WantedKept ==
    ASSUME TypeOK, AuthorizeWantsNone, NEW t \in Threads,
           HandleAuthorize(t) \/ Authorize(t) \/ CreateRepo(t)
    PROVE  UNCHANGED Wanted
<1> USE DEF TypeOK
<1>1. Wanted' = [Wanted EXCEPT ![t] = Asked(t)']
    BY WantedStep DEF ThreadStep
<1>2. CASE GetUserInfo(t)
    <2>1. wiki[t] = Null /\ wiki' = wiki
        BY <1>2 DEF GetUserInfo, AuthorizeWantsNone, AuthorizePCs
    <2> QED
        BY <1>1, <2>1 DEF Asked, Wanted
<1>3. CASE UNCHANGED <<who, wiki>>
    BY <1>1, <1>3 DEF Asked, Wanted
<1> QED
    BY <1>2, <1>3
       DEF Authorize, CreateRepo, HandleAuthorize, GetAccessToken, SelectUser, UpdateUser,
           InsertUser, Write, IssueToken, LookupUser, GetExistingRepo, CreateNewRepo, SendUrl,
           locals

\* The table's accounts and the repositories after each kind of step.
LEMMA AccountsKept ==
    ASSUME UNCHANGED user
    PROVE  UNCHANGED StoredAccounts
BY DEF StoredAccounts

LEMMA AccountsStep ==
    ASSUME Inv, NEW t \in Threads, UpdateUser(t) \/ InsertUser(t)
    PROVE  \/ UNCHANGED StoredAccounts
           \/ StoredAccounts' = StoredAccounts \cup {who[t].account}
<1>1. token[t] \in Grants /\ who[t] \in Identity /\ who[t].account \in Accounts
    BY DEF Inv, ThreadsHold, ThreadHolds, StorePCs, UpdateUser, InsertUser, Identity
<1>2. user \in Seq(Row)
    BY DEF Inv, TypeOK
<1>3. CASE user' = user
    BY <1>3, AccountsKept
<1>4. CASE user' = Updated(who[t].account, token[t])
    BY <1>1, <1>2, <1>4, UpdatedRows DEF StoredAccounts
<1>5. CASE user' = Inserted(who[t], token[t])
    <2>1. \A i \in DOMAIN user : i \in DOMAIN user' /\ user'[i] = user[i]
        BY <1>1, <1>2, <1>5, InsertedRows
    <2>2. \A i \in DOMAIN user' \ DOMAIN user : user'[i].github_id = who[t].account
        BY <1>1, <1>2, <1>5, InsertedRows
    <2>3. StoredAccounts \subseteq StoredAccounts'
        BY <2>1 DEF StoredAccounts
    <2>4. StoredAccounts' \subseteq StoredAccounts \cup {who[t].account}
        BY <2>1, <2>2 DEF StoredAccounts
    <2> QED
        BY <2>3, <2>4
<1> QED
    BY <1>3, <1>4, <1>5 DEF UpdateUser, InsertUser, Write

LEMMA PromiseInit == Init => Promise!Init
BY DEF Init, Promise!Init, Outcome, Asked

\* The database calls: an account is stored, or a request is refused.
LEMMA WritePromise ==
    ASSUME Inv, NEW t \in Threads, UpdateUser(t) \/ InsertUser(t), UNCHANGED Wanted,
           Told' = [Told EXCEPT ![t] = Outcome(t)'], Told[t] = <<"none">>
    PROVE  Promise!Next \/ UNCHANGED Promise!vars
<1> USE DEF Inv, TypeOK
<1>1. UNCHANGED repos
    BY DEF UpdateUser, InsertUser, Write, github
<1>2. who[t].account \in Accounts
    BY DEF ThreadsHold, ThreadHolds, StorePCs, UpdateUser, InsertUser, Identity
<1>3. CASE UNCHANGED reply
    <2>1. UNCHANGED Told
        BY <1>3 DEF Told, Outcome, UpdateUser, InsertUser, Write, locals
    <2> QED
        BY <1>1, <1>2, <2>1, AccountsStep
           DEF Promise!Next, Promise!Store, Promise!vars, StoredAccounts, Told, Wanted
<1>4. CASE Answer(t, "server_error") /\ UNCHANGED user
    <2>1. Outcome(t)' = <<"refused">>
        BY <1>4 DEF Answer, Outcome
    <2> QED
        BY <1>1, <1>4, <2>1, AccountsKept
           DEF Promise!Next, Promise!Refuse, Promise!Tell, StoredAccounts, Told, Wanted
<1> QED
    BY <1>3, <1>4 DEF UpdateUser, InsertUser, Write, Goto

\* A step that touches neither the table nor the repositories, and does not tell
\* its client of a JWT or an ssh_url, is a refusal or nothing at all.
LEMMA QuietPromise ==
    ASSUME NEW t \in Threads, UNCHANGED <<user, repos>>, UNCHANGED Wanted,
           Told' = [Told EXCEPT ![t] = Outcome(t)'], Told[t] = <<"none">>,
           reply'[t] \notin {"html", "ssh_url"}
    PROVE  Promise!Next \/ UNCHANGED Promise!vars
<1>1. UNCHANGED StoredAccounts
    BY AccountsKept
<1>2. CASE Outcome(t)' = <<"none">>
    BY <1>1, <1>2 DEF Promise!vars, StoredAccounts, Told, Wanted
<1>3. CASE Outcome(t)' = <<"refused">>
    BY <1>1, <1>3 DEF Promise!Next, Promise!Refuse, Promise!Tell, StoredAccounts, Told, Wanted
<1> QED
    BY <1>2, <1>3 DEF Outcome

\* A request is read: it is refused, or it asks for a repository.
LEMMA AskPromise ==
    ASSUME Inv, AuthorizeWantsNone, NEW t \in Threads, HandleCreateRepo(t),
           Told' = [Told EXCEPT ![t] = Outcome(t)'], Told[t] = <<"none">>
    PROVE  Promise!Next \/ UNCHANGED Promise!vars
<1> USE DEF Inv, TypeOK
<1>1. UNCHANGED <<user, repos>> /\ UNCHANGED StoredAccounts /\ wiki[t] = Null
    BY AccountsKept DEF HandleCreateRepo, AuthorizeWantsNone, github
<1>2. Wanted' = [Wanted EXCEPT ![t] = Asked(t)']
    BY WantedStep DEF ThreadStep
<1>3. CASE \E r \in {"bad_request", "unauthorized"} :
               Answer(t, r) /\ UNCHANGED <<who, wiki>>
    <2>1. UNCHANGED Wanted
        BY <1>3 DEF Wanted, Asked
    <2>2. reply'[t] \notin {"html", "ssh_url"}
        BY <1>3 DEF Answer
    <2> QED
        BY <1>1, <2>1, <2>2, QuietPromise
<1>4. ASSUME NEW jwt \in VerifiedTokens, NEW name \in Wikis,
             who' = [who EXCEPT ![t] = jwt], wiki' = [wiki EXCEPT ![t] = name],
             Goto(t, "lookup")
      PROVE  Promise!Next
    <2>1. jwt.account \in Accounts
        BY DEF VerifiedTokens, Identity
    <2>2. Asked(t) = <<>> /\ Asked(t)' = <<jwt.account, name>>
        BY <1>1, <1>4, ConstantsAssumption DEF Asked
    <2>3. Outcome(t)' = Outcome(t)
        <3>1. Outcome(t) = <<"none">>
            BY DEF Told
        <3>2. reply[t] = "none"
            BY <3>1 DEF Outcome
        <3> QED
            BY <1>4, <3>2 DEF Goto, Outcome
    <2>4. UNCHANGED Told
        BY <2>3 DEF Told
    <2>5. Promise!Ask(t, jwt.account, name)
        BY <1>1, <1>2, <2>2, <2>4 DEF Promise!Ask, StoredAccounts, Told, Wanted
    <2> QED
        BY <2>1, <2>5 DEF Promise!Next
<1> QED
    BY <1>3, <1>4 DEF HandleCreateRepo

LEMMA GrantPromise ==
    ASSUME Inv, StoredInv, NEW t \in Threads, IssueToken(t), UNCHANGED Wanted,
           Told' = [Told EXCEPT ![t] = Outcome(t)'], Told[t] = <<"none">>
    PROVE  Promise!Next \/ UNCHANGED Promise!vars
<1>1. UNCHANGED <<user, repos>> /\ UNCHANGED StoredAccounts /\ who' = who
    BY AccountsKept DEF IssueToken, github, locals
<1>2. CASE reply'[t] \notin {"html", "ssh_url"}
    BY <1>1, <1>2, QuietPromise
<1>3. CASE reply'[t] \in {"html", "ssh_url"}
    <2>1. reply'[t] = "html"
        BY <1>3 DEF IssueToken, Answer, Inv, TypeOK
    <2>2. Outcome(t)' = <<"granted", who[t].account>>
        BY <1>1, <2>1 DEF Outcome
    <2>3. who[t].account \in StoredAccounts
        BY StoredIsAccount DEF IssueToken, StoredInv
    <2>4. who[t].account \in Accounts
        BY DEF IssueToken, Inv, ThreadsHold, ThreadHolds, StorePCs, Identity
    <2> QED
        BY <1>1, <2>2, <2>3, <2>4
           DEF Promise!Next, Promise!Grant, Promise!Tell, StoredAccounts, Told, Wanted
<1> QED
    BY <1>2, <1>3

\* What is sent is the url of the repository the request asked for.
LEMMA ProvidePromise ==
    ASSUME Inv, LoginInv, NEW t \in Threads, SendUrl(t), UNCHANGED Wanted,
           Told' = [Told EXCEPT ![t] = Outcome(t)'], Told[t] = <<"none">>
    PROVE  Promise!Next \/ UNCHANGED Promise!vars
<1>1. UNCHANGED <<user, repos, data>> /\ UNCHANGED StoredAccounts /\ wiki[t] # Null
    BY AccountsKept, ConstantsAssumption
       DEF SendUrl, github, locals, Inv, ThreadsHold, ThreadHolds, CreatePCs
<1>2. data[t] = Asked(t) /\ Asked(t) \in repos
    BY <1>1 DEF SendUrl, LoginInv, UrlIsHoldersRepo, Asked
<1>3. Outcome(t)' = <<"url", Asked(t)>>
    BY <1>1, <1>2 DEF SendUrl, Answer, Outcome, Inv, TypeOK
<1>4. Promise!Provide(t)
    BY <1>1, <1>2, <1>3 DEF Promise!Provide, Promise!Tell, StoredAccounts, Told, Wanted
<1> QED
    BY <1>4 DEF Promise!Next

\* GitHub's effect is one of the promise's steps whatever the handler hears of it.
LEMMA CreatePromise ==
    ASSUME Inv, LoginInv, NEW t \in Threads, CreateNewRepo(t), UNCHANGED Wanted,
           Told' = [Told EXCEPT ![t] = Outcome(t)'], Told[t] = <<"none">>
    PROVE  Promise!Next \/ UNCHANGED Promise!vars
<1>1. /\ UNCHANGED <<user, reply>>
      /\ UNCHANGED StoredAccounts
      /\ wiki[t] \in Wikis
      /\ token[t] \in Grants
      /\ Stored(GrantOwner[token[t]])
      /\ GrantOwner[token[t]] = who[t].account
    BY AccountsKept
       DEF CreateNewRepo, Created, Goto, ReturnSilently, github, Inv, ThreadsHold, ThreadHolds,
           CreatePCs, LoginInv, ActsForHolder
<1>2. who[t].account \in Accounts /\ who[t].account \in StoredAccounts
    BY <1>1, ConstantsAssumption, StoredIsAccount
<1>3. reply[t] = "none"
    BY DEF CreateNewRepo, LoginInv, AnsweredIsDone
<1>4. Outcome(t)' = Outcome(t)
    BY <1>1, <1>3 DEF Outcome
<1>5. UNCHANGED Told
    BY <1>4 DEF Told
<1>6. CASE UNCHANGED repos
    BY <1>1, <1>5, <1>6 DEF Promise!vars, StoredAccounts, Told, Wanted
<1>7. CASE repos' = repos \cup {<<who[t].account, wiki[t]>>}
    <2>1. Asked(t) = <<who[t].account, wiki[t]>>
        BY <1>1, ConstantsAssumption DEF Asked
    <2>2. Promise!Create(t, who[t].account, wiki[t])
        BY <1>1, <1>2, <1>5, <1>7, <2>1
           DEF Promise!Create, StoredAccounts, Told, Wanted
    <2> QED
        BY <1>1, <1>2, <2>2 DEF Promise!Next
<1> QED
    BY <1>1, <1>6, <1>7 DEF CreateNewRepo, Target

LEMMA PromiseStep ==
    ASSUME Inv, LoginInv, StoredInv, [Next]_vars
    PROVE  Promise!Next \/ UNCHANGED Promise!vars
<1>1. ASSUME NEW t \in Threads, ThreadStep(t)
      PROVE  Promise!Next \/ UNCHANGED Promise!vars
    <2>1. Told[t] = <<"none">> /\ Told' = [Told EXCEPT ![t] = Outcome(t)']
        BY <1>1, ToldStep DEF Inv, LoginInv
    <2>2. CASE HandleCreateRepo(t)
        BY <2>1, <2>2, AskPromise DEF StoredInv
    <2>3. CASE HandleAuthorize(t) \/ Authorize(t) \/ CreateRepo(t)
        <3>1. UNCHANGED Wanted
            BY <2>3, WantedKept DEF Inv, StoredInv
        <3>2. CASE UpdateUser(t) \/ InsertUser(t)
            BY <2>1, <3>1, <3>2, WritePromise
        <3>3. CASE IssueToken(t)
            BY <2>1, <3>1, <3>3, GrantPromise
        <3>4. CASE SendUrl(t)
            BY <2>1, <3>1, <3>4, ProvidePromise
        <3>5. CASE CreateNewRepo(t)
            BY <2>1, <3>1, <3>5, CreatePromise
        <3> DEFINE Quiet == UNCHANGED <<user, repos>> /\ reply'[t] \notin {"html", "ssh_url"}
        <3> USE DEF Answer, Goto, github, locals, Inv, TypeOK, LoginInv, AnsweredIsDone
        <3>6. CASE HandleAuthorize(t) \/ GetAccessToken(t) \/ GetUserInfo(t) \/ SelectUser(t)
            <4>1. Quiet
                BY <3>6 DEF HandleAuthorize, GetAccessToken, GetUserInfo, SelectUser, SelectBranch
            <4> QED
                BY <2>1, <3>1, <4>1, QuietPromise
        <3>7. CASE LookupUser(t) \/ GetExistingRepo(t)
            <4>1. Quiet
                BY <3>7 DEF LookupUser, LookupFound, LookupMissing, LookupError, GetExistingRepo
            <4> QED
                BY <2>1, <3>1, <4>1, QuietPromise
        <3> QED
            BY <2>3, <3>2, <3>3, <3>4, <3>5, <3>6, <3>7 DEF Authorize, CreateRepo
    <2> QED
        BY <1>1, <2>2, <2>3 DEF ThreadStep
<1>2. CASE UNCHANGED <<user, repos, who, wiki, data, reply>>
    <2>1. UNCHANGED StoredAccounts
        BY <1>2, AccountsKept
    <2>2. UNCHANGED Told /\ UNCHANGED Wanted
        BY <1>2 DEF Told, Outcome, Wanted, Asked
    <2> QED
        BY <1>2, <2>1, <2>2 DEF Promise!vars, StoredAccounts, Told, Wanted
<1> QED
    BY <1>1, <1>2 DEF Next, ThreadStep, Rename, ExpireToken, Crash, github, locals, vars

\* The service keeps its promise.
THEOREM Refinement ==
    ASSUME NoNameReused, "execute" \notin Failures
    PROVE  Spec => KeepsPromise
<1>1. Inv /\ LoginInv /\ StoredInv /\ [Next]_vars => [Promise!Next]_Promise!vars
    BY PromiseStep
<1> QED
    BY <1>1, PromiseInit, Invariance, LoginInvariance, StoredInvariance, PTL
       DEF Spec, KeepsPromise, Promise!Spec

=============================================================================
