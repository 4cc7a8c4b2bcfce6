-------------------------------- MODULE Service --------------------------------
(***************************************************************************)
(* Wikigen-Auth as it runs: the server with its threads and sockets        *)
(* (Server), and in each thread that route_request takes to a handler that *)
(* handler, call by call (AuthService). The two meet where the handler is  *)
(* called, where it sends its response, and where the process dies: of a   *)
(* response to a client that is gone, of a request the server does not     *)
(* survive, or of one handler. Every other handler ends wherever it is,    *)
(* and what GitHub and the database hold by then is all that survives.     *)
(***************************************************************************)
EXTENDS Naturals, Sequences, FiniteSets

CONSTANTS
    Clients, Requests, Backlog, BufferSize, Impatient,  \* see Server
    MaxFds, MaxThreads, MaxHeap, HandlersMayDie, OtherSegments, None,
    Accounts, Logins, Wikis, Grants, GrantOwner,        \* see AuthService
    InitLogin, Names, UniqueGithubId, Failures, Null

VARIABLES
    up, heap, queue, open, pc, got, meaning,            \* see Server
    request, sent, peer, error, replies,
    login, redeemed, repos, user, jwts,                 \* see AuthService
    token, who, wiki, data,
    at,         \* where the thread of a client is in its handler
    database,   \* the threads that own a libSQL connection
    outcome     \* what a handler has to tell its client

listening == <<up, heap, queue, open, pc, got, meaning,
               request, sent, peer, error, replies>>
handling == <<login, redeemed, repos, user, jwts, token, who, wiki, data,
              at, database, outcome>>
vars == <<listening, handling>>

Listener == INSTANCE Server
Handlers == INSTANCE AuthService WITH
                Threads <- Clients, pc <- at, open <- database, reply <- outcome

ASSUME ServiceAssumption ==
    /\ Listener!RouterAssumption /\ Listener!ServerAssumption
    /\ Handlers!ConstantsAssumption
    /\ "crash" \in Failures

Init == Listener!Init /\ Handlers!Init

\* A step of the server leaves the handlers alone, unless it is its last.
HandlersSurvive ==
    \/ (up => up') /\ UNCHANGED handling
    \/ up /\ ~up' /\ Handlers!Crash

Serve ==
    /\ Listener!Main \/ Listener!Restart
    /\ HandlersSurvive

Communicate(c) ==
    /\ Listener!Client(c)
    /\ UNCHANGED handling

ReachHandler(c) ==
    /\ Listener!UpToHandler(c) \/ Listener!OverrunBody(c)
    /\ HandlersSurvive

\* current_node->handler(client_fd, request) in route_request.
Called(c) == Listener!RouteRequest(meaning[c].path)

CallHandler(c) ==
    /\ pc[c] = "handle"
    /\ \/ Called(c) = "handle_authorize" /\ Handlers!HandleAuthorize(c)
       \/ Called(c) = "handle_create_repo" /\ Handlers!HandleCreateRepo(c)
    /\ UNCHANGED listening

RunHandler(c) ==
    /\ pc[c] = "handle"
    /\ Handlers!Authorize(c) \/ Handlers!CreateRepo(c)
    /\ UNCHANGED listening

\* The send of the response, which may be the end of the process; or none.
LeaveHandler(c) ==
    /\ at[c] = "done"
    /\ \/ outcome[c] # "none" /\ Listener!HandlerAnswers(c)
       \/ outcome[c] = "none" /\ Listener!HandlerReturns(c)
    /\ HandlersSurvive

\* A handler that dies of what it reads or is answered, or of the message of a
\* failure, which is logged as a format before it is sent.
DieInHandler(c) ==
    /\ at[c] # "done" \/ outcome[c] = "server_error"
    /\ Listener!HandlerDies(c)
    /\ HandlersSurvive

Thread(c) ==
    \/ ReachHandler(c) \/ CallHandler(c) \/ RunHandler(c) \/ LeaveHandler(c)
    \/ DieInHandler(c)

Environment ==
    /\ Handlers!ExpireToken \/ \E a \in Accounts : Handlers!Rename(a)
    /\ UNCHANGED listening

Next ==
    \/ Serve \/ Environment
    \/ \E c \in Clients : Communicate(c) \/ Thread(c)

Spec == Init /\ [][Next]_vars

-----------------------------------------------------------------------------
(* Properties *)

\* A client that holds its connection until its thread ends was sent a response,
\* whatever its handler met with and whoever else brought the process down and
\* made it restart, unless another request was given the url of the repository it
\* wanted: one that may have sent it, may still have to, or may have died with it.
HeldMeansAnswered ==
    \A c \in Clients :
        pc[c] = "done" /\ peer[c] = "connected" /\ replies[c] = <<>> =>
            \E d \in Clients \ {c} :
                /\ at[d] \in {"url", "done", "dead"}
                /\ data[d] = <<who[c].account, wiki[c]>>

\* AuthPromise holds of what reaches the clients: the responses that were sent
\* before the process died or the client left, not what a handler had decided on.
Received(c) ==
    IF \E i \in DOMAIN replies[c] : replies[c][i] = "handled"
    THEN Handlers!Outcome(c) ELSE <<"none">>

Promise ==
    INSTANCE AuthPromise WITH
        Threads <- Clients,
        stored <- {user[i].github_id : i \in DOMAIN user},
        asked <- [c \in Clients |-> Handlers!Asked(c)],
        outcome <- [c \in Clients |-> Received(c)]

ClientsKeepPromise == Promise!Spec
=============================================================================
