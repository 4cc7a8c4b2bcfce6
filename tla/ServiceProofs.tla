---------------------------- MODULE ServiceProofs ----------------------------
(***************************************************************************)
(* Theorems about Service, for any clients, requests, limits and failures: *)
(* what is proved of Server and of AuthService put together with the steps *)
(* in which the two meet.                                                  *)
(***************************************************************************)
EXTENDS Service, TLAPS

LP == INSTANCE ServerProofs
HP == INSTANCE AuthServiceProofs WITH
          Threads <- Clients, pc <- at, open <- database, reply <- outcome

-----------------------------------------------------------------------------
(* The modules of the theorems extend the modules Service is made of. *)

LEMMA Assumptions == LP!RouterAssumption /\ LP!ServerAssumption /\ HP!ConstantsAssumption
BY ServiceAssumption
   DEF Listener!RouterAssumption, Listener!ServerAssumption, Listener!Request,
       Listener!Segments, Listener!Nodes, Listener!handler, Listener!IsFiniteSet,
       LP!Request, LP!Segments, LP!Nodes, LP!handler, LP!IsFiniteSet, LP!RouterAssumption, LP!ServerAssumption,
       Handlers!ConstantsAssumption, Handlers!Identity, Handlers!FailureKinds,
       HP!ConstantsAssumption, HP!Identity, HP!FailureKinds

LEMMA SameServer ==
    /\ Listener!Init <=> LP!Init
    /\ Listener!Next <=> LP!Next
    /\ Listener!vars = LP!vars /\ Listener!vars' = LP!vars'
    /\ Listener!Main <=> LP!Main
    /\ Listener!Restart <=> LP!Restart
    /\ \A c \in Clients :
          /\ Listener!Client(c) <=> LP!Client(c)
          /\ Listener!UpToHandler(c) <=> LP!UpToHandler(c)
          /\ Listener!OverrunBody(c) <=> LP!OverrunBody(c)
          /\ Listener!HandlerDies(c) <=> LP!HandlerDies(c)
          /\ Listener!HandlerAnswers(c) <=> LP!HandlerAnswers(c)
          /\ Listener!HandlerReturns(c) <=> LP!HandlerReturns(c)
BY DEF LP!Cardinality, Listener!Cardinality, LP!IsFiniteSet, Listener!IsFiniteSet,
       Listener!Nodes, LP!Nodes, Listener!Segments, LP!Segments, Listener!children, LP!children,
       Listener!handler, LP!handler, Listener!FirstOf, LP!FirstOf,
       Listener!find_route, LP!find_route, Listener!Walk,
       LP!Walk, Listener!RouteRequest, LP!RouteRequest, Listener!Request, LP!Request,
       Listener!process, LP!process, Listener!thread, LP!thread, Listener!client, LP!client,
       Listener!socket, LP!socket, Listener!vars, LP!vars, Listener!Threads, LP!Threads,
       Listener!PCs, LP!PCs, Listener!Replies, LP!Replies, Listener!Init, LP!Init,
       Listener!Total, LP!Total, Listener!Running, LP!Running, Listener!Goto, LP!Goto,
       Listener!Die, LP!Die, Listener!ContinueOnError, LP!ContinueOnError, Listener!Accept,
       LP!Accept, Listener!AcceptFails, LP!AcceptFails, Listener!OutOfMemory,
       LP!OutOfMemory, Listener!Restart, LP!Restart, Listener!Connect, LP!Connect,
       Listener!Served, LP!Served, Listener!SendPiece, LP!SendPiece, Listener!Close,
       LP!Close, Listener!Reset, LP!Reset, Listener!Finished, LP!Finished, Listener!Broken,
       LP!Broken, Listener!Waiting, LP!Waiting, Listener!Room, LP!Room, Listener!Send,
       LP!Send, Listener!Whole, LP!Whole, Listener!Receive, LP!Receive,
       Listener!ReceiveNothing, LP!ReceiveNothing, Listener!ReceiveFails, LP!ReceiveFails,
       Listener!Refuse, LP!Refuse, Listener!Meanings, LP!Meanings, Listener!AfterParse,
       LP!AfterParse, Listener!AfterBadRequest, LP!AfterBadRequest, Listener!Parse,
       LP!Parse, Listener!Drain, LP!Drain, Listener!Preflight, LP!Preflight, Listener!Route,
       LP!Route, Listener!HandlerAnswers, LP!HandlerAnswers, Listener!HandlerReturns,
       LP!HandlerReturns, Listener!UpToHandler, LP!UpToHandler,
       Listener!HandleClientRequest, LP!HandleClientRequest, Listener!Main, LP!Main,
       Listener!Client, LP!Client, Listener!Next, LP!Next, Listener!OverrunBody,
       LP!OverrunBody, Listener!HandlerDies, LP!HandlerDies

LEMMA SameHandlers ==
    /\ Handlers!Init <=> HP!Init
    /\ Handlers!Next <=> HP!Next
    /\ Handlers!vars = HP!vars /\ Handlers!vars' = HP!vars'
    /\ Handlers!Crash <=> HP!Crash
    /\ Handlers!ExpireToken <=> HP!ExpireToken
    /\ \A a \in Accounts : Handlers!Rename(a) <=> HP!Rename(a)
    /\ \A c \in Clients :
          /\ Handlers!Outcome(c) = HP!Outcome(c) /\ Handlers!Outcome(c)' = HP!Outcome(c)'
          /\ Handlers!Asked(c) = HP!Asked(c) /\ Handlers!Asked(c)' = HP!Asked(c)'
          /\ \/ Handlers!HandleAuthorize(c) \/ Handlers!Authorize(c)
             \/ Handlers!HandleCreateRepo(c) \/ Handlers!CreateRepo(c)
             <=> HP!ThreadStep(c)
BY DEF Handlers!github, HP!github, Handlers!locals, HP!locals, Handlers!vars, HP!vars,
       Handlers!Init, HP!Init, Handlers!Fails, HP!Fails, Handlers!Goto, HP!Goto,
       Handlers!Answer, HP!Answer, Handlers!ReturnSilently, HP!ReturnSilently,
       Handlers!Deinit, HP!Deinit, Handlers!UserOf, HP!UserOf, Handlers!HasGithubId,
       HP!HasGithubId, Handlers!HasUsername, HP!HasUsername, Handlers!Stored, HP!Stored,
       Handlers!Updated, HP!Updated, Handlers!NewRow, HP!NewRow, Handlers!Inserted,
       HP!Inserted, Handlers!HandleAuthorize, HP!HandleAuthorize, Handlers!GetAccessToken,
       HP!GetAccessToken, Handlers!GetUserInfo, HP!GetUserInfo, Handlers!SelectBranch,
       HP!SelectBranch, Handlers!SelectUser, HP!SelectUser, Handlers!Write, HP!Write,
       Handlers!UpdateUser, HP!UpdateUser, Handlers!InsertUser, HP!InsertUser,
       Handlers!Sign, HP!Sign, Handlers!IssueToken, HP!IssueToken, Handlers!VerifiedTokens,
       HP!VerifiedTokens, Handlers!HandleCreateRepo, HP!HandleCreateRepo,
       Handlers!LookupFound, HP!LookupFound, Handlers!LookupMissing, HP!LookupMissing,
       Handlers!LookupError, HP!LookupError, Handlers!LookupUser, HP!LookupUser,
       Handlers!Visible, HP!Visible,
       Handlers!GetExistingRepo, HP!GetExistingRepo, Handlers!Target, HP!Target,
       Handlers!Created, HP!Created, Handlers!CreateNewRepo, HP!CreateNewRepo,
       Handlers!SendUrl, HP!SendUrl, Handlers!Asked, HP!Asked,
       Handlers!Rename, HP!Rename, Handlers!ExpireToken, HP!ExpireToken, Handlers!Crash,
       HP!Crash, Handlers!Authorize, HP!Authorize, Handlers!CreateRepo, HP!CreateRepo,
       Handlers!Next, HP!Next, Handlers!Outcome, HP!Outcome,
       HP!ThreadStep

-----------------------------------------------------------------------------
(* Both modules are implemented *)

\* Every step is one of the server's, or none.
LEMMA ListenerStep ==
    ASSUME [Next]_vars
    PROVE  [Listener!Next]_(Listener!vars)
BY DEF Next, Serve, Environment, Communicate, Thread, ReachHandler, CallHandler, RunHandler,
       LeaveHandler, DieInHandler, vars, listening, Listener!vars, Listener!process, Listener!thread,
       Listener!client, Listener!socket, Listener!Next, Listener!HandleClientRequest

\* Every step is one of the handlers', or none.
LEMMA HandlersStep ==
    ASSUME [Next]_vars
    PROVE  [Handlers!Next]_(Handlers!vars)
BY DEF Next, Serve, Environment, Communicate, Thread, ReachHandler, CallHandler, RunHandler,
       LeaveHandler, DieInHandler, HandlersSurvive, vars, handling, Handlers!vars, Handlers!Next

\* The invariants of the two, for the theorems below.
LEMMA ImplementsProved == Spec => LP!Spec /\ HP!Spec
<1>1. Init => LP!Init /\ HP!Init
    BY SameServer, SameHandlers DEF Init
<1>2. [Next]_vars => [LP!Next]_(LP!vars) /\ [HP!Next]_(HP!vars)
    BY ListenerStep, HandlersStep, SameServer, SameHandlers
<1> QED
    BY <1>1, <1>2, PTL DEF Spec, LP!Spec, HP!Spec

-----------------------------------------------------------------------------
(* What a client has received *)

\* The steps of Service, by who takes them.
LEMMA Steps ==
    ASSUME [Next]_vars
    PROVE  \/ /\ \/ LP!Main \/ LP!Restart
                 \/ \E c \in Clients :
                       \/ LP!Client(c) \/ LP!UpToHandler(c)
                       \/ LP!OverrunBody(c) \/ LP!HandlerDies(c)
              /\ UNCHANGED handling \/ HP!Crash
           \/ \E c \in Clients :
                 /\ at[c] = "done"
                 /\ LP!HandlerAnswers(c)
                 /\ (UNCHANGED handling /\ (up => up')) \/ (HP!Crash /\ up # up')
           \/ \E c \in Clients :
                 /\ at[c] = "done" /\ outcome[c] = "none"
                 /\ LP!HandlerReturns(c)
                 /\ UNCHANGED handling
           \/ \E c \in Clients :
                 /\ pc[c] = "handle"
                 /\ HP!ThreadStep(c)
                 /\ UNCHANGED listening
           \/ /\ HP!ExpireToken \/ \E a \in Accounts : HP!Rename(a)
              /\ UNCHANGED listening
           \/ UNCHANGED vars
<1>1. CASE Serve \/ Environment
    BY <1>1, SameServer, SameHandlers DEF Serve, Environment, HandlersSurvive
<1>2. ASSUME NEW c \in Clients, Communicate(c) \/ ReachHandler(c) \/ DieInHandler(c)
      PROVE  /\ \/ LP!Client(c) \/ LP!UpToHandler(c)
                \/ LP!OverrunBody(c) \/ LP!HandlerDies(c)
             /\ UNCHANGED handling \/ HP!Crash
    BY <1>2, SameServer, SameHandlers
       DEF Communicate, ReachHandler, DieInHandler, HandlersSurvive
<1>3. ASSUME NEW c \in Clients, CallHandler(c) \/ RunHandler(c)
      PROVE  pc[c] = "handle" /\ HP!ThreadStep(c) /\ UNCHANGED listening
    BY <1>3, SameHandlers DEF CallHandler, RunHandler
<1>4. ASSUME NEW c \in Clients, LeaveHandler(c)
      PROVE  /\ at[c] = "done"
             /\ \/ /\ LP!HandlerAnswers(c)
                   /\ (UNCHANGED handling /\ (up => up')) \/ (HP!Crash /\ up # up')
                \/ /\ outcome[c] = "none" /\ LP!HandlerReturns(c) /\ UNCHANGED handling
    <2>1. Listener!HandlerReturns(c) => up' = up
        BY DEF Listener!HandlerReturns, Listener!process
    <2> QED
        BY <1>4, <2>1, SameServer, SameHandlers DEF LeaveHandler, HandlersSurvive
<1> QED
    BY <1>1, <1>2, <1>3, <1>4 DEF Next, Thread

\* A handler that has returned, and what it decided on, stay as they are.
LEMMA OutcomeKept ==
    ASSUME HP!TypeOK, [Next]_vars, NEW c \in Clients, pc[c] # "handle" \/ at[c] = "done"
    PROVE  /\ at[c] = "done" => at'[c] = "done"
           /\ outcome'[c] = outcome[c] /\ who'[c] = who[c]
           /\ wiki'[c] = wiki[c] /\ data'[c] = data[c]
<1>1. ASSUME NEW d \in Clients, pc[d] = "handle", HP!ThreadStep(d)
      PROVE  HP!LocalsKept(c)
    <2>1. at[d] # "done"
        BY <1>1 DEF HP!ThreadStep, HP!HandleAuthorize, HP!Authorize, HP!GetAccessToken,
                    HP!GetUserInfo, HP!SelectUser, HP!UpdateUser, HP!InsertUser,
                    HP!IssueToken, HP!HandleCreateRepo, HP!CreateRepo, HP!LookupUser,
                    HP!GetExistingRepo, HP!CreateNewRepo, HP!SendUrl
    <2> QED
        BY <1>1, <2>1, HP!OthersKept, Assumptions DEF HP!ConstantsAssumption
<1>2. CASE HP!Crash
    BY <1>2 DEF HP!Crash, HP!locals, HP!TypeOK
<1>3. CASE UNCHANGED handling
    BY <1>3 DEF handling
<1>4. CASE HP!ExpireToken \/ \E a \in Accounts : HP!Rename(a)
    BY <1>4 DEF HP!ExpireToken, HP!Rename, HP!locals
<1> QED
    BY <1>1, <1>2, <1>3, <1>4, Steps DEF HP!LocalsKept, vars

\* A client left without an answer on an open connection is one whose handler
\* decided on none.
HeldInv ==
    \A c \in Clients :
        pc[c] = "done" /\ peer[c] = "connected" /\ replies[c] = <<>> =>
            at[c] = "done" /\ outcome[c] = "none"

LEMMA HeldStep ==
    ASSUME LP!ServerInv, HP!TypeOK, HeldInv, [Next]_vars
    PROVE  HeldInv'
<1> SUFFICES ASSUME NEW c \in Clients,
                    pc'[c] = "done", peer'[c] = "connected", replies'[c] = <<>>
             PROVE  at'[c] = "done" /\ outcome'[c] = "none"
    BY DEF HeldInv
<1>1. CASE pc[c] = "done"
    <2>1. peer'[c] = peer[c] /\ replies'[c] = replies[c]
        BY <1>1, LP!DoneStays, ListenerStep, SameServer, Assumptions
           DEF LP!RouterAssumption, LP!ServerAssumption
    <2>2. at[c] = "done" /\ outcome[c] = "none"
        BY <1>1, <2>1 DEF HeldInv
    <2> QED
        BY <2>2, OutcomeKept
<1>2. CASE pc[c] # "done"
    <2>1. ~ \/ LP!Main \/ LP!Restart
            \/ \E d \in Clients :
                  \/ LP!Client(d) \/ LP!UpToHandler(d) \/ LP!HandlerAnswers(d)
                  \/ LP!OverrunBody(d) \/ LP!HandlerDies(d)
        BY <1>2, LP!DoneIsAnswered, Assumptions
           DEF LP!RouterAssumption, LP!ServerAssumption
    <2>2. PICK d \in Clients :
              at[d] = "done" /\ outcome[d] = "none" /\ LP!HandlerReturns(d) /\ UNCHANGED handling
        BY <1>2, <2>1, Steps DEF vars, listening
    <2>3. d = c
        BY <1>2, <2>2 DEF LP!HandlerReturns, LP!Goto, LP!ServerInv, LP!TypeOK
    <2> QED
        BY <2>2, <2>3 DEF handling
<1> QED
    BY <1>1, <1>2

\* Only finished threads have sent what a handler has to say.
Handled(c) == \E i \in DOMAIN replies[c] : replies[c][i] = "handled"

ToldInv == \A c \in Clients : Handled(c) => pc[c] = "done" /\ at[c] = "done"

LEMMA OneMoreReply ==
    ASSUME NEW s \in Seq(LP!Replies), NEW r
    PROVE  (\E i \in DOMAIN Append(s, r) : Append(s, r)[i] = "handled") <=>
           (\E i \in DOMAIN s : s[i] = "handled") \/ r = "handled"
<1>1. /\ DOMAIN Append(s, r) = 1..(Len(s) + 1) /\ DOMAIN s = 1..Len(s) /\ Len(s) \in Nat
      /\ \A i \in 1..Len(s) : Append(s, r)[i] = s[i]
      /\ Append(s, r)[Len(s) + 1] = r
    OBVIOUS
<1> QED
    BY <1>1

\* A client hears of its handler when the handler answers, and at no other time.
LEMMA HandledStep ==
    ASSUME LP!ServerInv, [Next]_vars, NEW c \in Clients, Handled(c)' # Handled(c)
    PROVE  /\ at[c] = "done" /\ pc[c] = "handle" /\ pc'[c] = "done"
           /\ UNCHANGED handling
           /\ \A d \in Clients \ {c} : Handled(d)' = Handled(d)
           /\ Handled(c)'
<1>1. /\ replies \in [Clients -> Seq(LP!Replies)]
      /\ pc \in [Clients -> LP!PCs]
      /\ LP!TypeOK
    BY DEF LP!ServerInv, LP!TypeOK
<1>2. replies'[c] # replies[c]
    BY DEF Handled
<1>3. ~ \/ LP!Main \/ LP!Restart
        \/ \E d \in Clients :
              LP!Client(d) \/ LP!UpToHandler(d) \/ LP!OverrunBody(d) \/ LP!HandlerDies(d)
    <2> SUFFICES ASSUME \/ LP!Main \/ LP!Restart
                        \/ \E d \in Clients :
                              \/ LP!Client(d) \/ LP!UpToHandler(d)
                              \/ LP!OverrunBody(d) \/ LP!HandlerDies(d)
                 PROVE  Handled(c)' = Handled(c)
        OBVIOUS
    <2>1. PICK r \in LP!Replies \ {"handled"} : replies'[c] = Append(replies[c], r)
        BY <1>1, <1>2, LP!RepliesStep, Assumptions DEF LP!RouterAssumption, LP!ServerAssumption
    <2>2. replies[c] \in Seq(LP!Replies) /\ r # "handled"
        BY <1>1, <2>1
    <2>3. (\E i \in DOMAIN replies'[c] : replies'[c][i] = "handled") <=>
          (\E i \in DOMAIN replies[c] : replies[c][i] = "handled")
        BY <2>1, <2>2, OneMoreReply
    <2> QED
        BY <2>3 DEF Handled
<1>4. PICK d \in Clients : /\ at[d] = "done"
                           /\ LP!HandlerAnswers(d)
                           /\ (UNCHANGED handling /\ (up => up')) \/ (HP!Crash /\ up # up')
    BY <1>2, <1>3, Steps DEF vars, listening, LP!HandlerReturns, LP!socket
<1>5. /\ d = c
      /\ replies' = [replies EXCEPT ![c] = Append(@, "handled")]
      /\ pc[c] = "handle" /\ pc'[c] = "done"
      /\ up' = up
    BY <1>1, <1>2, <1>4 DEF LP!HandlerAnswers, LP!Send, LP!Goto, LP!process
<1>6. Handled(c)'
    BY <1>1, <1>5, OneMoreReply DEF Handled
<1> QED
    BY <1>1, <1>4, <1>5, <1>6 DEF Handled

LEMMA ToldStep ==
    ASSUME LP!ServerInv, HP!TypeOK, ToldInv, [Next]_vars
    PROVE  ToldInv'
<1> SUFFICES ASSUME NEW c \in Clients, Handled(c)'
             PROVE  pc'[c] = "done" /\ at'[c] = "done"
    BY DEF ToldInv
<1>1. CASE Handled(c)
    BY <1>1, LP!DoneStays, ListenerStep, SameServer, OutcomeKept, Assumptions
       DEF ToldInv, LP!RouterAssumption, LP!ServerAssumption
<1>2. CASE ~Handled(c)
    BY <1>2, HandledStep DEF handling
<1> QED
    BY <1>1, <1>2

\* ... and until then it has received nothing that AuthPromise counts.
LEMMA ReceivedStep ==
    ASSUME LP!ServerInv, HP!TypeOK, ToldInv, [Next]_vars
    PROVE  \/ \A c \in Clients : Received(c)' = Received(c)
           \/ \E c \in Clients :
                 /\ at[c] = "done"
                 /\ UNCHANGED handling
                 /\ Received(c) = <<"none">> /\ Received(c)' = HP!Outcome(c)
                 /\ \A d \in Clients \ {c} : Received(d)' = Received(d)
<1>1. ASSUME NEW d \in Clients, Handled(d)' = Handled(d)
      PROVE  Received(d)' = Received(d)
    <2>1. CASE Handled(d)
        <3>1. outcome'[d] = outcome[d] /\ who'[d] = who[d] /\ data'[d] = data[d]
            BY <2>1, OutcomeKept DEF ToldInv
        <3>2. HP!Outcome(d)' = HP!Outcome(d)
            BY <3>1 DEF HP!Outcome
        <3> QED
            BY <1>1, <2>1, <3>2, SameHandlers DEF Received, Handled
    <2>2. CASE ~Handled(d)
        BY <1>1, <2>2 DEF Received, Handled
    <2> QED
        BY <2>1, <2>2
<1>2. ASSUME NEW c \in Clients, Handled(c)' # Handled(c)
      PROVE  /\ at[c] = "done"
             /\ UNCHANGED handling
             /\ Received(c) = <<"none">> /\ Received(c)' = HP!Outcome(c)
             /\ \A d \in Clients \ {c} : Received(d)' = Received(d)
    <2>1. /\ at[c] = "done" /\ UNCHANGED handling
          /\ \A d \in Clients \ {c} : Handled(d)' = Handled(d)
          /\ Handled(c)' /\ ~Handled(c)
        BY <1>2, HandledStep DEF ToldInv
    <2>2. Received(c)' = HP!Outcome(c)'
        BY <2>1, SameHandlers DEF Received, Handled
    <2>3. HP!Outcome(c)' = HP!Outcome(c)
        BY <2>1 DEF HP!Outcome, handling
    <2>4. Received(c) = <<"none">>
        BY <2>1 DEF Received, Handled
    <2> QED
        BY <1>1, <2>1, <2>2, <2>3, <2>4
<1> QED
    BY <1>1, <1>2

AllReceived == [c \in Clients |-> Received(c)]
AllAsked == [c \in Clients |-> Handlers!Asked(c)]

LEMMA AskedIsWanted == AllAsked = HP!Wanted /\ AllAsked' = HP!Wanted'
BY SameHandlers DEF AllAsked, HP!Wanted

LEMMA AccountStored ==
    ASSUME NEW a
    PROVE  a \in HP!StoredAccounts <=> HP!Stored(a)
BY DEF HP!StoredAccounts, HP!Stored, HP!HasGithubId

LEMMA AccountsKept ==
    ASSUME UNCHANGED user
    PROVE  UNCHANGED HP!StoredAccounts
BY DEF HP!StoredAccounts

\* What the response says when it is sent is true then.
LEMMA AnswerPromise ==
    ASSUME HP!Inv, HP!LoginInv, HP!StoredInv, NEW c \in Clients,
           UNCHANGED handling,
           Received(c) = <<"none">>, Received(c)' = HP!Outcome(c),
           \A d \in Clients \ {c} : Received(d)' = Received(d)
    PROVE  Promise!Next \/ UNCHANGED Promise!vars
<1>1. AllReceived' = [AllReceived EXCEPT ![c] = HP!Outcome(c)] /\ AllReceived[c] = <<"none">>
    BY DEF AllReceived
<1>2. UNCHANGED <<user, repos>> /\ UNCHANGED HP!StoredAccounts /\ UNCHANGED AllAsked
    <2>1. UNCHANGED <<user, repos, who, wiki>>
        BY DEF handling
    <2> QED
        BY <2>1, AskedIsWanted, AccountsKept DEF HP!Wanted, HP!Asked
<1>3. CASE outcome[c] = "none"
    BY <1>1, <1>2, <1>3
       DEF HP!Outcome, Promise!vars, HP!StoredAccounts, AllReceived, AllAsked
<1>4. CASE outcome[c] = "html"
    <2>1. HP!Stored(who[c].account) /\ HP!Outcome(c) = <<"granted", who[c].account>>
        BY <1>4 DEF HP!StoredInv, HP!Outcome
    <2>2. PICK i \in DOMAIN user : user[i].github_id = who[c].account
        BY <2>1 DEF HP!Stored, HP!HasGithubId
    <2>3. user \in Seq(HP!Row)
        BY DEF HP!Inv, HP!TypeOK
    <2>4. user[i] \in HP!Row
        BY <2>2, <2>3
    <2>5. who[c].account \in Accounts
        BY <2>2, <2>4 DEF HP!Row
    <2>6. who[c].account \in HP!StoredAccounts
        BY <2>1, AccountStored
    <2> QED
        BY <1>1, <1>2, <2>1, <2>5, <2>6
           DEF Promise!Next, Promise!Grant, Promise!Tell, HP!StoredAccounts, AllReceived, AllAsked
<1>5. CASE outcome[c] = "ssh_url"
    <2>1. data[c] = <<who[c].account, wiki[c]>> /\ data[c] \in repos
        BY <1>5 DEF HP!LoginInv, HP!UrlIsHoldersRepo
    <2>2. wiki[c] \in Wikis
        BY <2>1 DEF HP!Inv, HP!TypeOK
    <2>3. wiki[c] # Null
        BY <2>2, Assumptions DEF HP!ConstantsAssumption
    <2>4. AllAsked[c] = data[c]
        BY <2>1, <2>3, AskedIsWanted DEF HP!Wanted, HP!Asked
    <2>5. HP!Outcome(c) = <<"url", AllAsked[c]>>
        BY <1>5, <2>4 DEF HP!Outcome
    <2>6. Promise!Provide(c)
        BY <1>1, <1>2, <2>1, <2>4, <2>5
           DEF Promise!Provide, Promise!Tell, HP!StoredAccounts, AllReceived, AllAsked
    <2> QED
        BY <2>6 DEF Promise!Next
<1>6. CASE outcome[c] \notin {"none", "html", "ssh_url"}
    <2>1. HP!Outcome(c) = <<"refused">>
        BY <1>6 DEF HP!Outcome
    <2> QED
        BY <1>1, <1>2, <2>1
           DEF Promise!Next, Promise!Refuse, Promise!Tell, HP!StoredAccounts, AllReceived, AllAsked
<1> QED
    BY <1>3, <1>4, <1>5, <1>6

\* A handler asks, stores accounts and makes repositories before its client is told.
LEMMA HandlerPromise ==
    ASSUME HP!Inv, HP!LoginInv, HP!StoredInv, NEW c \in Clients, HP!ThreadStep(c),
           Received(c) = <<"none">>,
           \A d \in Clients : Received(d)' = Received(d)
    PROVE  Promise!Next \/ UNCHANGED Promise!vars
<1>1. UNCHANGED AllReceived /\ AllReceived[c] = <<"none">>
    BY DEF AllReceived
<1>2. CASE HP!HandleCreateRepo(c)
    <2>1. UNCHANGED <<user, repos>> /\ UNCHANGED HP!StoredAccounts /\ wiki[c] = Null
        BY <1>2, AccountsKept
           DEF HP!HandleCreateRepo, HP!StoredInv, HP!AuthorizeWantsNone, HP!github
    <2>2. AllAsked' = [AllAsked EXCEPT ![c] = HP!Asked(c)']
        <3>1. HP!TypeOK
            BY DEF HP!Inv
        <3>2. HP!Wanted' = [HP!Wanted EXCEPT ![c] = HP!Asked(c)']
            BY <3>1, HP!WantedStep, Assumptions DEF HP!ConstantsAssumption
        <3> QED
            BY <3>2, AskedIsWanted
    <2>3. CASE UNCHANGED <<who, wiki>>
        <3>1. UNCHANGED AllAsked
            BY <2>3, AskedIsWanted DEF HP!Wanted, HP!Asked
        <3> QED
            BY <1>1, <2>1, <3>1 DEF Promise!vars, HP!StoredAccounts, AllReceived, AllAsked
    <2>4. ASSUME NEW jwt \in jwts, NEW name \in Wikis,
                 who' = [who EXCEPT ![c] = jwt], wiki' = [wiki EXCEPT ![c] = name]
          PROVE  Promise!Next
        <3>1. jwt.account \in Accounts
            BY DEF HP!Inv, HP!TypeOK, HP!Identity
        <3>2. AllAsked[c] = <<>> /\ HP!Asked(c)' = <<jwt.account, name>>
            BY <2>1, <2>4, AskedIsWanted, Assumptions
               DEF HP!Wanted, HP!Asked, HP!Inv, HP!TypeOK, HP!ConstantsAssumption
        <3>3. Promise!Ask(c, jwt.account, name)
            BY <1>1, <2>1, <2>2, <3>2
               DEF Promise!Ask, HP!StoredAccounts, AllReceived, AllAsked
        <3> QED
            BY <3>1, <3>3 DEF Promise!Next
    <2> QED
        BY <1>2, <2>3, <2>4 DEF HP!HandleCreateRepo, HP!VerifiedTokens
<1>3. CASE HP!HandleAuthorize(c) \/ HP!Authorize(c) \/ HP!CreateRepo(c)
    <2>1. UNCHANGED AllAsked
        <3>1. HP!TypeOK /\ HP!AuthorizeWantsNone
            BY DEF HP!Inv, HP!StoredInv
        <3> QED
            BY <1>3, <3>1, HP!WantedKept, AskedIsWanted, Assumptions
               DEF HP!ConstantsAssumption
    <2>2. CASE HP!UpdateUser(c) \/ HP!InsertUser(c)
        <3>1. UNCHANGED repos
            BY <2>2 DEF HP!UpdateUser, HP!InsertUser, HP!Write, HP!github
        <3>2. who[c].account \in Accounts
            BY <2>2 DEF HP!UpdateUser, HP!InsertUser, HP!Inv, HP!ThreadsHold, HP!ThreadHolds,
                        HP!StorePCs, HP!Identity
        <3>3. \/ UNCHANGED HP!StoredAccounts
              \/ HP!StoredAccounts' = HP!StoredAccounts \cup {who[c].account}
            BY <2>2, HP!AccountsStep, Assumptions DEF HP!ConstantsAssumption
        <3> QED
            BY <1>1, <2>1, <3>1, <3>2, <3>3
               DEF Promise!Next, Promise!Store, Promise!vars, HP!StoredAccounts,
                   AllReceived, AllAsked
    <2>3. CASE HP!CreateNewRepo(c)
        <3>1. /\ UNCHANGED user
              /\ UNCHANGED HP!StoredAccounts
              /\ wiki[c] \in Wikis
              /\ HP!Stored(who[c].account)
              /\ who[c].account = GrantOwner[token[c]] /\ token[c] \in Grants
            BY <2>3, AccountsKept
               DEF HP!CreateNewRepo, HP!Inv, HP!ThreadsHold, HP!ThreadHolds, HP!CreatePCs,
                   HP!LoginInv, HP!ActsForHolder
        <3>2. \/ UNCHANGED repos
              \/ repos' = repos \cup {<<who[c].account, wiki[c]>>}
            BY <2>3, <3>1 DEF HP!CreateNewRepo, HP!Target
        <3>3. who[c].account \in Accounts /\ who[c].account \in HP!StoredAccounts
            BY <3>1, Assumptions, AccountStored DEF HP!ConstantsAssumption
        <3>4. AllAsked[c] = <<who[c].account, wiki[c]>>
            BY <3>1, AskedIsWanted, Assumptions DEF HP!Wanted, HP!Asked, HP!ConstantsAssumption
        <3>5. CASE UNCHANGED repos
            BY <1>1, <2>1, <3>1, <3>5
               DEF Promise!vars, HP!StoredAccounts, AllReceived, AllAsked
        <3>6. CASE repos' = repos \cup {<<who[c].account, wiki[c]>>}
            <4>1. Promise!Create(c, who[c].account, wiki[c])
                BY <1>1, <2>1, <3>1, <3>3, <3>4, <3>6
                   DEF Promise!Create, HP!StoredAccounts, AllReceived, AllAsked
            <4> QED
                BY <3>1, <3>3, <4>1 DEF Promise!Next
        <3> QED
            BY <3>2, <3>5, <3>6
    <2>4. CASE UNCHANGED <<user, repos>>
        BY <1>1, <2>1, <2>4 DEF Promise!vars, AllReceived, AllAsked
    <2> QED
        BY <1>3, <2>2, <2>3, <2>4
           DEF HP!Authorize, HP!CreateRepo, HP!HandleAuthorize, HP!GetAccessToken,
               HP!GetUserInfo, HP!SelectUser, HP!IssueToken, HP!LookupUser,
               HP!GetExistingRepo, HP!SendUrl, HP!github
<1> QED
    BY <1>2, <1>3 DEF HP!ThreadStep

LEMMA ClientsPromiseStep ==
    ASSUME LP!ServerInv, HP!Inv, HP!LoginInv, HP!StoredInv, ToldInv, [Next]_vars
    PROVE  Promise!Next \/ UNCHANGED Promise!vars
<1>1. HP!TypeOK
    BY DEF HP!Inv
<1>2. CASE \E c \in Clients :
              /\ UNCHANGED handling
              /\ Received(c) = <<"none">> /\ Received(c)' = HP!Outcome(c)
              /\ \A d \in Clients \ {c} : Received(d)' = Received(d)
    BY <1>2, AnswerPromise
<1>3. CASE \A c \in Clients : Received(c)' = Received(c)
    <2>1. CASE UNCHANGED <<user, repos, who, wiki>>
        <3>1. UNCHANGED AllAsked /\ UNCHANGED AllReceived
            BY <1>3, <2>1, AskedIsWanted DEF HP!Wanted, HP!Asked, AllReceived
        <3> QED
            BY <2>1, <3>1 DEF Promise!vars, AllReceived, AllAsked
    <2>2. ASSUME NEW c \in Clients, pc[c] = "handle", HP!ThreadStep(c)
          PROVE  Promise!Next \/ UNCHANGED Promise!vars
        <3>1. Received(c) = <<"none">>
            BY <2>2 DEF ToldInv, Received, Handled
        <3> QED
            BY <1>3, <2>2, <3>1, HandlerPromise
    <2> QED
        BY <2>1, <2>2, Steps
           DEF handling, vars, HP!Crash, HP!ExpireToken, HP!Rename, HP!github, HP!locals
<1> QED
    BY <1>1, <1>2, <1>3, ReceivedStep

-----------------------------------------------------------------------------
(* The theorems about what clients receive *)

\* Whoever brings the process down, a client that holds its connection until its thread
\* ends was answered, unless another request was given the url of the repository it wanted.
THEOREM HeldMeansAnsweredAlways ==
    ASSUME HP!NoNameReused, "curl" \notin Failures, "github" \notin Failures
    PROVE  Spec => []HeldMeansAnswered
<1>1. Init => HeldInv
    BY DEF Init, Listener!Init, HeldInv
<1>2. LP!ServerInv /\ HP!TypeOK /\ HeldInv /\ [Next]_vars => HeldInv'
    BY HeldStep
<1>3. LP!Spec => []LP!ServerInv
    BY LP!ServerInvariance, Assumptions DEF LP!RouterAssumption, LP!ServerAssumption
<1>4. HP!Spec => []HP!TypeOK
    BY HP!TypeCorrect, Assumptions DEF HP!ConstantsAssumption
<1>5. HP!Spec => []HP!SilentMeansMadeByAnother
    BY HP!SilentMeansMadeByAnotherAlways, Assumptions DEF HP!ConstantsAssumption
<1>6. HeldInv /\ HP!SilentMeansMadeByAnother => HeldMeansAnswered
    BY DEF HeldInv, HP!SilentMeansMadeByAnother, HeldMeansAnswered
<1> QED
    BY <1>1, <1>2, <1>3, <1>4, <1>5, <1>6, ImplementsProved, PTL DEF Spec

\* AuthPromise is kept towards the clients: of what they have received, not only of what
\* the handlers have decided on, with requests cut off and the process dying anywhere.
THEOREM ClientsKeepPromiseAlways ==
    ASSUME HP!NoNameReused, "execute" \notin Failures
    PROVE  Spec => ClientsKeepPromise
<1>1. Init => ToldInv /\ Promise!Init
    BY DEF Init, Listener!Init, Handlers!Init, ToldInv, Handled, Received, Promise!Init,
           Handlers!Asked
<1>2. LP!ServerInv /\ HP!Inv /\ ToldInv /\ [Next]_vars => ToldInv'
    BY ToldStep DEF HP!Inv
<1>3. LP!ServerInv /\ HP!Inv /\ HP!LoginInv /\ HP!StoredInv /\ ToldInv /\ [Next]_vars
         => [Promise!Next]_(Promise!vars)
    BY ClientsPromiseStep
<1>4. LP!Spec => []LP!ServerInv
    BY LP!ServerInvariance, Assumptions DEF LP!RouterAssumption, LP!ServerAssumption
<1>5. HP!Spec => []HP!Inv
    BY HP!Invariance, Assumptions DEF HP!ConstantsAssumption
<1>6. HP!Spec => []HP!LoginInv
    BY HP!LoginInvariance, Assumptions DEF HP!ConstantsAssumption
<1>7. HP!Spec => []HP!StoredInv
    BY HP!StoredInvariance, Assumptions DEF HP!ConstantsAssumption
<1> QED
    BY <1>1, <1>2, <1>3, <1>4, <1>5, <1>6, <1>7, ImplementsProved, PTL
       DEF Spec, ClientsKeepPromise, Promise!Spec

=============================================================================
