----------------------------- MODULE AuthService -----------------------------
(***************************************************************************)
(* The two request handlers of Wikigen-Auth, handle_authorize and          *)
(* handle_create_repo (route_handlers.c), with every helper they call      *)
(* (handler_helpers.c, token_util.c), run by one thread per request and    *)
(* interleaved at every call that leaves the process: GitHub and the       *)
(* remote libSQL table "user".                                             *)
(*                                                                         *)
(* An OAuth grant stands for one consent of one GitHub account: the code   *)
(* GitHub hands to the browser, and the access token that code is redeemed *)
(* for, are both named by the grant.                                       *)
(***************************************************************************)
EXTENDS Naturals, Sequences

CONSTANTS
    Threads,         \* detached threads, one for each accepted request
    Accounts,        \* GitHub accounts, by their numeric id
    Logins,          \* GitHub login names
    Wikis,           \* repository names a client asks for
    Grants,          \* OAuth grants: one code and one access token each
    GrantOwner,      \* the account that consented to each grant
    InitLogin,       \* the one it starts with
    Names,           \* the logins its owner may ever give each account
    UniqueGithubId,  \* TRUE if the table has a UNIQUE index on github_id
    Failures,        \* the calls that may fail
    Null             \* the content of a variable nobody assigned yet

FailureKinds ==
    { "curl",       \* curl_easy_perform reports an error (the call may have happened)
      "github",     \* GitHub answers something the handler cannot use
      "forbidden",  \* GitHub answers 403 or 404 for a repository that exists
      "connect",    \* libsql_database_connect returns an error
      "statement",  \* a statement cannot be prepared or queried
      "row",        \* libsql_rows_next returns an error
      "execute",    \* a write is not carried out
      "local",      \* a libjwt object or code.html is not to be had
      "crash" }     \* the process dies, with every thread in it

Identity == [account : Accounts, user_name : Logins]

ASSUME ConstantsAssumption ==
    /\ GrantOwner \in [Grants -> Accounts]
    /\ Names \in [Accounts -> SUBSET Logins]
    /\ InitLogin \in [Accounts -> Logins]
    /\ \A a \in Accounts : InitLogin[a] \in Names[a]
    /\ \A a, b \in Accounts : InitLogin[a] = InitLogin[b] => a = b
    /\ UniqueGithubId \in BOOLEAN
    /\ Failures \subseteq FailureKinds
    /\ Null \notin Grants
    /\ Null \notin Wikis
    /\ Null \notin Identity
    /\ Null \notin Accounts \X Wikis

VARIABLES
    login,     \* GitHub: the current login of every account
    redeemed,  \* GitHub: the grants whose code was exchanged for its token
    repos,     \* GitHub: the <<account, name>> pairs of the repositories made here
    user,      \* libSQL: the rows of table "user", oldest first
    jwts,      \* the signed, unexpired JWTs (account is a history field)
    pc,        \* where each thread is in its handler
    token,     \* the GitHub access token a thread holds
    who,       \* UserInfo in handle_authorize, Payload in handle_create_repo
    wiki,      \* the "wikiName" of a create-repo request
    data,      \* the repository whose ssh_url GitHub gave a thread
    open,      \* the threads that own a libSQL connection
    reply      \* what a thread sent to its client

github == <<login, redeemed, repos>>
locals == <<token, who, wiki, data>>
vars == <<login, redeemed, repos, user, jwts, pc, token, who, wiki, data, open, reply>>

Row == [username : Logins, github_id : Accounts, access_token : Grants]

AuthorizePCs == {"exchange", "userinfo", "select", "update", "insert", "issue"}
CreatePCs == {"lookup", "existing", "create", "url"}
PCs == {"idle", "done", "dead"} \cup AuthorizePCs \cup CreatePCs

\* The replies, by the text that tells them apart; "none" is no reply (yet).
Replies == {"none", "bad_request", "unauthorized", "server_error", "no_record",
            "message", "html", "ssh_url"}

TypeOK ==
    /\ login \in [Accounts -> Logins]
    /\ redeemed \subseteq Grants
    /\ repos \subseteq Accounts \X Wikis
    /\ user \in Seq(Row)
    /\ jwts \subseteq Identity
    /\ pc \in [Threads -> PCs]
    /\ token \in [Threads -> Grants \cup {Null}]
    /\ who \in [Threads -> Identity \cup {Null}]
    /\ wiki \in [Threads -> Wikis \cup {Null}]
    /\ data \in [Threads -> (Accounts \X Wikis) \cup {Null}]
    /\ open \subseteq Threads
    /\ reply \in [Threads -> Replies]

Init ==
    /\ login = InitLogin
    /\ redeemed = {}
    /\ repos = {}
    /\ user = <<>>
    /\ jwts = {}
    /\ pc = [t \in Threads |-> "idle"]
    /\ token = [t \in Threads |-> Null]
    /\ who = [t \in Threads |-> Null]
    /\ wiki = [t \in Threads |-> Null]
    /\ data = [t \in Threads |-> Null]
    /\ open = {}
    /\ reply = [t \in Threads |-> "none"]

-----------------------------------------------------------------------------
(* Helpers *)

Fails(kind) == kind \in Failures

Goto(t, label) ==
    /\ pc' = [pc EXCEPT ![t] = label]
    /\ UNCHANGED reply

\* send_response (or the send of a hand-written response), then return.
AnswerForgotten(t, r) ==
    /\ pc' = [pc EXCEPT ![t] = "done"]
    /\ UNCHANGED reply
Answer(t, r) ==
    /\ pc' = [pc EXCEPT ![t] = "done"]
    /\ reply' = [reply EXCEPT ![t] = r]

\* The handler returns and the client is sent nothing.
ReturnSilently(t) ==
    /\ pc' = [pc EXCEPT ![t] = "done"]
    /\ UNCHANGED reply

\* libsql_connection_deinit.
DeinitForgotten(t) == UNCHANGED open
Deinit(t) == open' = open \ {t}

\* GET /user with a token: the numeric id and the current login of its owner.
UserOfFirst(g) ==
    LET a == CHOOSE a \in Accounts : TRUE IN [account |-> a, user_name |-> login[a]]
UserOf(g) == [account |-> GrantOwner[g], user_name |-> login[GrantOwner[g]]]

\* The WHERE clauses: "github_id = ?" and "username = ?".
AnyRow(row, key) == TRUE
HasGithubId(row, a) == row.github_id = a
NameDiffers(row, name) == row.username # name
HasUsername(row, name) == row.username = name

Stored(a) == \E i \in DOMAIN user : HasGithubId(user[i], a)

\* UPDATE User SET access_token = g WHERE github_id = a
Updated(a, g) ==
    [i \in 1..Len(user) |-> IF HasGithubId(user[i], a)
                            THEN [user[i] EXCEPT !.access_token = g]
                            ELSE user[i]]

NewRow(info, g) ==
    [username |-> info.user_name, github_id |-> info.account, access_token |-> g]

\* INSERT INTO User (username, github_id, access_token) VALUES (...); a UNIQUE
\* index, if the database has one, refuses a second row of an account.
Inserted(info, g) ==
    IF UniqueGithubId /\ Stored(info.account) THEN user ELSE Append(user, NewRow(info, g))

-----------------------------------------------------------------------------
(* handle_authorize *)

\* A request without a code is refused, unless the uninitialised buffer code[]
\* happens to hold a non-empty string: then that string is exchanged, as any
\* code GitHub never issued is (Null).
HandleAuthorize(t) ==
    /\ pc[t] = "idle"
    /\ \/ Answer(t, "bad_request") /\ UNCHANGED token
       \/ \E code \in Grants \cup {Null} :
             /\ token' = [token EXCEPT ![t] = code]
             /\ Goto(t, "exchange")
    /\ UNCHANGED <<github, user, jwts, who, wiki, data, open>>

\* get_acces_token. GitHub redeems a code once; the answer may be lost.
GetAccessToken(t) ==
    /\ pc[t] = "exchange"
    /\ \/ /\ token[t] \in Grants \ redeemed
          /\ redeemed' = redeemed \cup {token[t]}
          /\ \/ Goto(t, "userinfo")
             \/ Fails("curl") /\ Answer(t, "server_error")
       \/ /\ token[t] \notin Grants \ redeemed \/ Fails("curl") \/ Fails("github")
          /\ Answer(t, "server_error")
          /\ UNCHANGED redeemed
    /\ UNCHANGED <<login, repos, user, jwts, locals, open>>

\* get_user_info.
GetUserInfo(t) ==
    /\ pc[t] = "userinfo"
    /\ \/ /\ who' = [who EXCEPT ![t] = UserOf(token[t])]
          /\ Goto(t, "select")
       \/ /\ Fails("curl") \/ Fails("github")
          /\ Answer(t, "server_error")
          /\ UNCHANGED who
    /\ UNCHANGED <<github, user, jwts, token, wiki, data, open>>

\* insert_or_edit_user_access_token, up to the first row of the SELECT. A row
\* that cannot be read counts as no row.
SelectInverted(t) ==
    \/ ~ Stored(who[t].account) /\ Goto(t, "update")
    \/ (Stored(who[t].account) \/ Fails("row")) /\ Goto(t, "insert")
SelectBranch(t) ==
    \/ Stored(who[t].account) /\ Goto(t, "update")
    \/ (~ Stored(who[t].account) \/ Fails("row")) /\ Goto(t, "insert")

SelectUser(t) ==
    /\ pc[t] = "select"
    /\ \/ Fails("connect") /\ Answer(t, "server_error") /\ UNCHANGED open
       \/ /\ open' = open \cup {t}
          /\ \/ Fails("statement") /\ Answer(t, "server_error")
             \/ SelectBranch(t)
    /\ UNCHANGED <<github, user, jwts, locals>>

\* The rest of insert_or_edit_user_access_token: the result of
\* libsql_statement_execute is not looked at.
Write(t, rows) ==
    /\ \/ /\ Fails("statement")
          /\ Answer(t, "server_error")
          /\ UNCHANGED <<user, open>>
       \/ /\ user' = rows \/ (Fails("execute") /\ UNCHANGED user)
          /\ Deinit(t)
          /\ Goto(t, "issue")
    /\ UNCHANGED <<github, jwts, locals>>

UpdateUser(t) ==
    /\ pc[t] = "update"
    /\ Write(t, Updated(who[t].account, token[t]))

InsertUser(t) ==
    /\ pc[t] = "insert"
    /\ Write(t, Inserted(who[t], token[t]))

\* create_jwt, load_html_with_token and the 200 page that carries the JWT.
SignNothing(t) == jwts' = jwts \cup {Null}
Sign(t) == jwts' = jwts \cup {who[t]}

IssueToken(t) ==
    /\ pc[t] = "issue"
    /\ \/ Fails("local") /\ Answer(t, "server_error") /\ UNCHANGED jwts
       \/ /\ Sign(t)
          /\ \/ Answer(t, "html")
             \/ Fails("local") /\ Answer(t, "server_error")
    /\ UNCHANGED <<github, user, locals, open>>

-----------------------------------------------------------------------------
(* handle_create_repo *)

\* verify_jwt accepts what create_jwt signed and has not expired.
VerifiedTokens == jwts

HandleCreateRepo(t) ==
    /\ pc[t] = "idle"
    /\ \/ /\ \E r \in {"bad_request", "unauthorized"} : Answer(t, r)
          /\ UNCHANGED <<who, wiki>>
       \/ \E jwt \in VerifiedTokens, name \in Wikis :
             /\ who' = [who EXCEPT ![t] = jwt]
             /\ wiki' = [wiki EXCEPT ![t] = name]
             /\ Goto(t, "lookup")
    /\ UNCHANGED <<github, user, jwts, token, data, open>>

\* get_user_name_and_token_from_db, by its outcomes: LIMIT 1 without ORDER BY
\* may return any matching row, and only the success path closes the connection.
LookupFound(t) ==
    /\ \E i \in DOMAIN user :
          /\ HasUsername(user[i], who[t].user_name)
          /\ token' = [token EXCEPT ![t] = user[i].access_token]
    /\ Goto(t, "existing")
    /\ UNCHANGED open

LookupMissing(t) ==
    /\ \A i \in DOMAIN user : ~ HasUsername(user[i], who[t].user_name)
    /\ Answer(t, "no_record")
    /\ open' = open \cup {t}
    /\ UNCHANGED token

LookupError(t) ==
    /\ \/ Fails("connect") /\ UNCHANGED open
       \/ (Fails("statement") \/ Fails("row")) /\ open' = open \cup {t}
    /\ Answer(t, "server_error")
    /\ UNCHANGED token

LookupUser(t) ==
    /\ pc[t] = "lookup"
    /\ LookupFound(t) \/ LookupMissing(t) \/ LookupError(t)
    /\ UNCHANGED <<github, user, jwts, who, wiki, data>>

\* get_existing_repo: GET /repos/<user_name>/<wiki_name>.
Visible(t) ==
    {repo \in repos : login[repo[1]] = who[t].user_name /\ repo[2] = wiki[t]}

GetExistingRepo(t) ==
    /\ pc[t] = "existing"
    /\ \/ \E repo \in Visible(t) :
             /\ data' = [data EXCEPT ![t] = repo]
             /\ Goto(t, "url")
       \/ /\ Visible(t) = {} \/ Fails("forbidden")
          /\ Goto(t, "create")
          /\ UNCHANGED data
       \/ /\ Fails("curl") \/ Fails("github")
          /\ Answer(t, "message")
          /\ UNCHANGED data
    /\ UNCHANGED <<github, user, jwts, token, who, wiki, open>>

\* create_new_repo: POST /user/repos acts in the account that owns the token,
\* and GitHub may have made the repository whatever comes back. Every failure
\* ends the handler without a reply.
Target(t) == <<GrantOwner[token[t]], wiki[t]>>

CreatedUnnoticed(t) == ReturnSilently(t) /\ UNCHANGED data
Created(t) ==
    \/ data' = [data EXCEPT ![t] = Target(t)] /\ Goto(t, "url")
    \/ (Fails("curl") \/ Fails("github")) /\ ReturnSilently(t) /\ UNCHANGED data

CreateNewRepo(t) ==
    /\ pc[t] = "create"
    /\ \/ /\ Target(t) \notin repos
          /\ repos' = repos \cup {Target(t)}
          /\ Created(t)
       \/ /\ Target(t) \in repos \/ Fails("curl") \/ Fails("github")
          /\ ReturnSilently(t)
          /\ UNCHANGED <<repos, data>>
    /\ UNCHANGED <<login, redeemed, user, jwts, token, who, wiki, open>>

\* The response with the ssh_url, of a repository found or created, is sent only
\* when the call to GitHub is over.
SendUrl(t) ==
    /\ pc[t] = "url"
    /\ Answer(t, "ssh_url")
    /\ UNCHANGED <<github, user, jwts, locals, open>>

-----------------------------------------------------------------------------
(* The environment *)

\* An account takes a login nobody has; its old login becomes free.
Rename(a) ==
    /\ \E name \in Names[a] :
          /\ \A b \in Accounts : login[b] # name
          /\ login' = [login EXCEPT ![a] = name]
    /\ UNCHANGED <<redeemed, repos, user, jwts, pc, locals, open, reply>>

\* Eight hours after create_jwt.
ExpireToken ==
    /\ \E jwt \in jwts : jwts' = jwts \ {jwt}
    /\ UNCHANGED <<github, user, pc, locals, open, reply>>

\* The process dies with its threads; what GitHub, the database and the
\* clients hold survives, and a new process takes the requests still to come.
Crash ==
    /\ Fails("crash")
    /\ pc' = [t \in Threads |-> IF pc[t] \in {"idle", "done"} THEN pc[t] ELSE "dead"]
    /\ open' = {}
    /\ UNCHANGED <<github, user, jwts, locals, reply>>

-----------------------------------------------------------------------------

Authorize(t) ==
    \/ GetAccessToken(t) \/ GetUserInfo(t) \/ SelectUser(t)
    \/ UpdateUser(t) \/ InsertUser(t) \/ IssueToken(t)

CreateRepo(t) ==
    LookupUser(t) \/ GetExistingRepo(t) \/ CreateNewRepo(t) \/ SendUrl(t)

Next ==
    \/ \E t \in Threads :
          HandleAuthorize(t) \/ Authorize(t) \/ HandleCreateRepo(t) \/ CreateRepo(t)
    \/ \E a \in Accounts : Rename(a)
    \/ ExpireToken
    \/ Crash

Spec == Init /\ [][Next]_vars

-----------------------------------------------------------------------------
(* Properties *)

\* Whatever authorizations overlap, fail or crash, a row never holds a GitHub
\* token that belongs to another account than the row's github_id: the INSERT
\* and the UPDATE of insert_or_edit_user_access_token write the token that the
\* id was asked with.
RowsHoldOwnToken ==
    \A i \in DOMAIN user : GrantOwner[user[i].access_token] = user[i].github_id

\* A repository is only ever made in an account that authorized and was stored:
\* handle_create_repo has no other source of tokens than the table.
ReposOnlyOfStored == \A repo \in repos : Stored(repo[1])

\* While handle_create_repo talks to GitHub, the access token it read from the
\* database by user name is a token of the account its JWT was issued to.
ActsForHolder ==
    \A t \in Threads :
        pc[t] \in {"existing", "create"} => GrantOwner[token[t]] = who[t].account

\* A client that is sent an ssh_url is sent that of a repository which exists,
\* in the account its JWT was issued to, under the name it asked for.
SshUrlIsHoldersRepo ==
    \A t \in Threads :
        reply[t] = "ssh_url" =>
            /\ data[t] = <<who[t].account, wiki[t]>>
            /\ data[t] \in repos

\* create_jwt comes after insert_or_edit_user_access_token: every JWT in
\* circulation is for an account that has a row.
TokenHoldersStored == \A jwt \in jwts : Stored(jwt.account)

\* "No record found for user" is told only to the holder of a JWT whose account
\* has no row at that moment (an earlier write was not carried out), or has been
\* renamed: the row keeps the name it was inserted with, and a JWT has the one
\* the account had at its login, so the row of a renamed account is not found.
Renamed(a) == Names[a] # {InitLogin[a]}

NoRecordMeansNewOrRenamed ==
    [][\A t \in Threads :
          reply'[t] = "no_record" /\ reply[t] = "none" =>
              ~ Stored(who[t].account) \/ Renamed(who[t].account)]_vars

\* When no call to GitHub fails, a request ends without any reply only if the
\* repository it wanted exists and was made by another request: between its GET
\* and its POST, or before, where GitHub answers the GET 403 or does not know the
\* account by the name in the JWT any more. That other request has the ssh_url:
\* it may have sent it, may still have to, or may have died with it.
SilentMeansMadeByAnother ==
    \A t \in Threads :
        pc[t] = "done" /\ reply[t] = "none" =>
            /\ <<who[t].account, wiki[t]>> \in repos
            /\ \E u \in Threads \ {t} :
                  /\ pc[u] \in {"url", "done", "dead"}
                  /\ data[u] = <<who[t].account, wiki[t]>>

\* A finished handler still owns its database connection only if it answered
\* with status 500; the early returns of the two database helpers do not close it.
LeakOnlyOnServerError ==
    \A t \in open :
        pc[t] = "done" => reply[t] \in {"server_error", "no_record"}

\* The promise the service keeps: its stored accounts are those of the rows, what
\* a request asks for is in its JWT and its body, and what it was told is read off
\* its reply and the url in it.
Asked(t) == IF wiki[t] = Null THEN <<>> ELSE <<who[t].account, wiki[t]>>

Outcome(t) ==
    CASE reply[t] = "none" -> <<"none">>
      [] reply[t] = "html" -> <<"granted", who[t].account>>
      [] reply[t] = "ssh_url" -> <<"url", data[t]>>
      [] OTHER -> <<"refused">>

Promise ==
    INSTANCE AuthPromise WITH
        stored <- {user[i].github_id : i \in DOMAIN user},
        asked <- [t \in Threads |-> Asked(t)],
        outcome <- [t \in Threads |-> Outcome(t)]

KeepsPromise == Promise!Spec
=============================================================================
