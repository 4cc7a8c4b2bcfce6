-------------------------------- MODULE Server --------------------------------
(***************************************************************************)
(* The server of Wikigen-Auth (wikigen_auth.c): main accepts connections   *)
(* and starts a detached thread for each, which receives a request, parses *)
(* it, routes it and sends what comes of it. The clients and the TCP       *)
(* sockets between them and the threads are part of the model: a client    *)
(* may send in any pieces, stop sending, close, or reset the connection.   *)
(*                                                                         *)
(* A request is so many pieces of head and so many of body; RequestParser  *)
(* and AuthService have what is done with them. The locals that            *)
(* handle_client_request reads uninitialised are zero: glibc hands a new   *)
(* thread zeroed stack pages, also where it reuses a stack.                *)
(***************************************************************************)
EXTENDS Router, FiniteSets

CONSTANTS
    Clients,        \* one connection each
    Requests,       \* the requests they may send
    Backlog,        \* of listen, 3 in the code
    BufferSize,     \* pieces the receive buffer holds
    Impatient,      \* the clients that may close or reset their connection
    MaxFds,         \* connections the process may have open
    MaxThreads,     \* threads it may have running
    MaxHeap,        \* blocks for client_fd its memory has room for
    HandlersMayDie  \* a handler may meet what its code does not expect

\* Whether get_method knows the method and the headers have colons, whether the
\* head holds a '%', the path, the pieces of the head, the pieces of the body as
\* Content-Length has them, and whether that number is written with more than 15
\* characters.
Request ==
    [valid : BOOLEAN, percent : BOOLEAN, options : BOOLEAN, path : Seq(Segments),
     head : Nat \ {0}, body : Nat, padded : BOOLEAN]

ASSUME ServerAssumption ==
    /\ IsFiniteSet(Clients)
    /\ Requests \subseteq Request
    /\ Impatient \subseteq Clients
    /\ Backlog \in Nat /\ BufferSize \in Nat \ {0}
    /\ MaxFds \in Nat /\ MaxThreads \in Nat /\ MaxHeap \in Nat
    /\ HandlersMayDie \in BOOLEAN
    /\ None \notin Request

VARIABLES
    up,         \* the process is in its accept loop
    heap,       \* blocks allocated for client_fd and never freed
    queue,      \* connections established and not accepted
    open,       \* connections the process has a descriptor of
    pc,         \* where the thread of a connection is, "none" without one
    got,        \* pieces received into its buffer
    meaning,    \* what parse_request made of it
    request,    \* what the client sends, None before it connects
    sent,       \* pieces it sent
    peer,       \* what the client did to the connection
    error,      \* TRUE if ECONNRESET waits on the socket to be reported
    replies     \* what the client received

process == <<up, heap, queue, open>>
thread == <<pc, got, meaning>>
client == <<request, sent>>
socket == <<peer, error, replies>>
vars == <<process, thread, client, socket>>

Threads == {"recv", "recv_body", "refuse", "parse", "drain", "preflight", "route", "handle"}
PCs == {"none", "dead", "done"} \cup Threads
Replies == {"no bytes", "bad request", "preflight", "not found", "handled"}

Init ==
    /\ up = TRUE
    /\ heap = 0
    /\ queue = <<>>
    /\ open = {}
    /\ pc = [c \in Clients |-> "none"]
    /\ got = [c \in Clients |-> 0]
    /\ meaning = [c \in Clients |-> None]
    /\ request = [c \in Clients |-> None]
    /\ sent = [c \in Clients |-> 0]
    /\ peer = [c \in Clients |-> "out"]
    /\ error = [c \in Clients |-> FALSE]
    /\ replies = [c \in Clients |-> <<>>]

Total(c) == request[c].head + request[c].body
Running == {c \in Clients : pc[c] \in Threads}

Goto(c, label) == pc' = [pc EXCEPT ![c] = label]

-----------------------------------------------------------------------------
(* The process *)

\* Every thread and every connection goes with it, those still queued too.
Die ==
    /\ up' = FALSE
    /\ heap' = 0
    /\ queue' = <<>>
    /\ open' = {}
    /\ pc' = [c \in Clients |->
                IF request[c] = None \/ pc[c] = "done" THEN pc[c] ELSE "dead"]

\* malloc, then accept, then pthread_create; where the last fails the loop goes
\* on, and nobody will serve or close the connection.
ExitOnError(c) == up' = FALSE /\ pc' = [d \in Clients |-> "dead"]
ContinueOnError(c) == UNCHANGED <<up, pc>>

Accept ==
    /\ up
    /\ queue # <<>>
    /\ heap < MaxHeap
    /\ Cardinality(open) < MaxFds
    /\ LET c == Head(queue) IN
       /\ heap' = heap + 1
       /\ queue' = Tail(queue)
       /\ open' = open \cup {c}
       /\ IF Cardinality(Running) < MaxThreads
          THEN Goto(c, "recv") /\ UNCHANGED up
          ELSE ContinueOnError(c)
    /\ UNCHANGED <<got, meaning, client, socket>>

\* EMFILE, which accept reports at once: the loop spins, a block at a time.
AcceptFails ==
    /\ up
    /\ heap < MaxHeap
    /\ Cardinality(open) >= MaxFds
    /\ heap' = heap + 1
    /\ UNCHANGED <<up, queue, open, thread, client, socket>>

\* malloc returned NULL, and what accept returns is stored there.
OutOfMemory ==
    /\ up
    /\ heap = MaxHeap
    /\ queue # <<>> \/ Cardinality(open) >= MaxFds
    /\ Die
    /\ UNCHANGED <<got, meaning, client, socket>>

Restart ==
    /\ ~up
    /\ up' = TRUE
    /\ UNCHANGED <<heap, queue, open, thread, client, socket>>

-----------------------------------------------------------------------------
(* Clients and sockets *)

Connect(c) ==
    /\ up
    /\ request[c] = None
    /\ Len(queue) <= Backlog
    /\ \E r \in Requests : request' = [request EXCEPT ![c] = r]
    /\ queue' = Append(queue, c)
    /\ peer' = [peer EXCEPT ![c] = "connected"]
    /\ UNCHANGED <<up, heap, open, thread, sent, error, replies>>

Served(c) == request[c] # None /\ pc[c] \notin {"dead", "done"}

SendPiece(c) ==
    /\ Served(c)
    /\ peer[c] = "connected"
    /\ sent[c] < Total(c)
    /\ sent' = [sent EXCEPT ![c] = @ + 1]
    /\ UNCHANGED <<process, thread, request, socket>>

\* shutdown: the client still reads. close: it does not.
Close(c) ==
    /\ Served(c) /\ c \in Impatient
    /\ \/ peer[c] = "connected" /\ peer' = [peer EXCEPT ![c] = "half"]
       \/ peer[c] \in {"connected", "half"} /\ peer' = [peer EXCEPT ![c] = "closed"]
    /\ UNCHANGED <<process, thread, client, error, replies>>

\* Behind a FIN a reset leaves EPIPE, not ECONNRESET.
Reset(c) ==
    /\ Served(c) /\ c \in Impatient
    /\ peer[c] \in {"connected", "half", "closed"}
    /\ peer' = [peer EXCEPT ![c] = IF @ = "connected" THEN "reset" ELSE "gone"]
    /\ error' = [error EXCEPT ![c] = peer[c] = "connected"]
    /\ UNCHANGED <<process, thread, client, replies>>

Finished(c) == peer[c] \in {"half", "closed", "gone"}
Broken(c) == peer[c] \in {"reset", "gone"}
Waiting(c) == sent[c] - got[c]
RoomOfAll(c) == BufferSize
Room(c) == BufferSize - got[c]

\* send() by the thread of c, whose result nobody looks at. On a broken socket
\* it reports the pending error or else raises SIGPIPE, which nobody handles:
\* the process dies, unless libcurl ignores the signal at that time.
Send(c, reply, label) ==
    \/ /\ ~Broken(c)
       /\ replies' = IF peer[c] = "closed" THEN replies
                     ELSE [replies EXCEPT ![c] = Append(@, reply)]
       /\ Goto(c, label)
       /\ UNCHANGED <<process, error>>
    \/ /\ Broken(c)
       /\ error' = [error EXCEPT ![c] = FALSE]
       /\ Goto(c, label)
       /\ UNCHANGED <<process, replies>>
    \/ /\ Broken(c) /\ ~error[c]
       /\ Die
       /\ UNCHANGED <<error, replies>>

-----------------------------------------------------------------------------
(* handle_client_request *)

\* Content-Length counts what comes behind the head.
WholeAtHead(c, n) == TRUE
WholeWithOneMore(c, n) == n > Total(c)
Whole(c, n) == n >= Total(c)

\* recv returns bytes.
Receive(c) ==
    /\ pc[c] \in {"recv", "recv_body"}
    /\ \E n \in 1..Waiting(c) :
          /\ n <= Room(c)
          /\ got' = [got EXCEPT ![c] = @ + n]
          /\ Goto(c, IF got[c] + n < request[c].head THEN "recv"
                     ELSE IF Whole(c, got[c] + n) THEN "parse"
                     ELSE "recv_body")
    /\ UNCHANGED <<process, meaning, client, socket>>

\* recv returns 0: behind a FIN, or asked for 0 bytes when the buffer is full.
ReceiveNothing(c) ==
    /\ pc[c] \in {"recv", "recv_body"}
    /\ \/ Waiting(c) = 0 /\ Finished(c)
       \/ Waiting(c) > 0 /\ Room(c) = 0
    /\ Goto(c, "parse")
    /\ UNCHANGED <<process, got, meaning, client, socket>>

\* recv returns -1.
ReceiveFails(c) ==
    /\ pc[c] \in {"recv", "recv_body"}
    /\ Waiting(c) = 0 /\ error[c]
    /\ error' = [error EXCEPT ![c] = FALSE]
    /\ Goto(c, "refuse")
    /\ UNCHANGED <<process, got, meaning, client, peer, replies>>

Refuse(c) ==
    /\ pc[c] = "refuse"
    /\ Send(c, "no bytes", "done")
    /\ UNCHANGED <<got, meaning, client, peer>>

\* An empty buffer holds no method; a head cut short may hold anything less.
Meanings(c) ==
    LET r == request[c] IN
    IF got[c] >= r.head THEN {r}
    ELSE IF got[c] = 0 THEN {[r EXCEPT !.valid = FALSE, !.percent = FALSE]}
    ELSE [valid : {FALSE, r.valid}, percent : {FALSE, r.percent}, options : {r.options},
          path : {<<>>, r.path} \cup {<<s>> : s \in OtherSegments},
          head : {r.head}, body : {r.body}, padded : {FALSE, r.padded}]

AfterParse(m) ==
    IF m.padded THEN "drain" ELSE IF m.options THEN "preflight" ELSE "route"

RoutedAnyway == "route"
AfterBadRequest == "done"

\* A refusal quotes the request, and is logged before it is sent: as a format,
\* whose conversions find no arguments.
Parse(c) ==
    /\ pc[c] = "parse"
    /\ \E m \in Meanings(c) :
          /\ meaning' = [meaning EXCEPT ![c] = m]
          /\ \/ m.valid /\ Goto(c, AfterParse(m)) /\ UNCHANGED <<process, socket>>
             \/ ~m.valid /\ Send(c, "bad request", AfterBadRequest) /\ UNCHANGED peer
             \/ ~m.valid /\ m.percent /\ Die /\ UNCHANGED socket
    /\ UNCHANGED <<got, client>>

\* A Content-Length that strncpy did not pad: recv until the client ends.
Drain(c) ==
    /\ pc[c] = "drain"
    /\ Finished(c) \/ Broken(c)
    /\ error' = [error EXCEPT ![c] = FALSE]
    /\ Goto(c, IF meaning[c].options THEN "preflight" ELSE "route")
    /\ UNCHANGED <<process, got, meaning, client, peer, replies>>

\* The array for the body is on the stack, as large as the client says, and each
\* recv is followed by a write behind its end.
OverrunBody(c) ==
    /\ pc[c] = "drain"
    /\ Die
    /\ UNCHANGED <<got, meaning, client, socket>>

\* OPTIONS is answered here, and routed like any other.
Preflight(c) ==
    /\ pc[c] = "preflight"
    /\ Send(c, "preflight", "route")
    /\ UNCHANGED <<got, meaning, client, peer>>

Route(c) ==
    /\ pc[c] = "route"
    /\ IF RouteRequest(meaning[c].path) = None
       THEN Send(c, "not found", "done") /\ UNCHANGED peer
       ELSE Goto(c, "handle") /\ UNCHANGED <<process, socket>>
    /\ UNCHANGED <<got, meaning, client>>

\* The handlers are AuthService; handle_create_repo may send nothing.
HandlerAnswers(c) ==
    /\ pc[c] = "handle"
    /\ Send(c, "handled", "done")
    /\ UNCHANGED <<got, meaning, client, peer>>

HandlerReturns(c) ==
    /\ pc[c] = "handle"
    /\ RouteRequest(meaning[c].path) = "handle_create_repo"
    /\ Goto(c, "done")
    /\ UNCHANGED <<process, got, meaning, client, socket>>

\* strlen or strcmp of NULL, or a message of GitHub's used as a format.
HandlerDies(c) ==
    /\ HandlersMayDie
    /\ pc[c] = "handle"
    /\ Die
    /\ UNCHANGED <<got, meaning, client, socket>>

UpToHandler(c) ==
    \/ Receive(c) \/ ReceiveNothing(c) \/ ReceiveFails(c) \/ Refuse(c)
    \/ Parse(c) \/ Drain(c) \/ Preflight(c) \/ Route(c)

HandleClientRequest(c) == UpToHandler(c) \/ HandlerAnswers(c) \/ HandlerReturns(c)

Main == Accept \/ AcceptFails \/ OutOfMemory

Client(c) == Connect(c) \/ SendPiece(c) \/ Close(c) \/ Reset(c)

Next ==
    \/ Main \/ Restart
    \/ \E c \in Clients :
          Client(c) \/ HandleClientRequest(c) \/ OverrunBody(c) \/ HandlerDies(c)

Spec == Init /\ [][Next]_vars

\* main and the threads run on, but main need not go on to ask for connections it
\* has no descriptor for, no handler need return (libcurl is given no timeout), and
\* no client is forced to do anything.
FairSpec ==
    /\ Spec
    /\ WF_vars(Accept \/ OutOfMemory)
    /\ \A c \in Clients : WF_vars(UpToHandler(c))

-----------------------------------------------------------------------------
(* Properties *)

TypeOK ==
    /\ up \in BOOLEAN
    /\ heap \in 0..MaxHeap
    /\ queue \in Seq(Clients)
    /\ open \subseteq Clients
    /\ pc \in [Clients -> PCs]
    /\ got \in [Clients -> 0..BufferSize]
    /\ meaning \in [Clients -> Request \cup {None}]
    /\ request \in [Clients -> Requests \cup {None}]
    /\ sent \in [Clients -> Nat]
    /\ peer \in [Clients -> {"out", "connected", "half", "closed", "reset", "gone"}]
    /\ error \in [Clients -> BOOLEAN]
    /\ replies \in [Clients -> Seq(Replies)]

\* However the pieces of a request arrive, nothing is answered and nobody is
\* called for it before all of it was received, unless the client ended it or
\* the buffer is full.
ActsOnWholeRequests ==
    \A c \in Clients :
        pc[c] \in {"preflight", "route", "handle", "done"} \/ replies[c] # <<>> =>
            got[c] >= Total(c) \/ got[c] = BufferSize \/ peer[c] \notin {"out", "connected"}

\* A request is answered once, but for OPTIONS, whose first answer is the one
\* for the preflight; a request refused is not routed.
AnswersInOrder ==
    \A c \in Clients :
        \/ Len(replies[c]) \in {0, 1}
        \/ Len(replies[c]) = 2 /\ replies[c][1] = "preflight" /\ request[c].options

\* A request gets to a handler exactly if its path is the name of one route,
\* perhaps several times over: the walk of route_request never leaves the route
\* it is in for another, nothing else is routed, and "No route found" is true.
IsNamed(p) == p # <<>> /\ \A i \in DOMAIN p : p[i] = p[1] /\ p[i] \in Nodes

NamedIsRouted ==
    \A c \in Clients :
        /\ pc[c] = "handle" =>
              IsNamed(meaning[c].path)
              /\ RouteRequest(meaning[c].path) = handler[meaning[c].path[1]]
        /\ \A i \in DOMAIN replies[c] :
              /\ replies[c][i] = "handled" => IsNamed(meaning[c].path)
              /\ replies[c][i] = "not found" => ~IsNamed(meaning[c].path)

\* The process dies only in a thread whose client broke its connection, or sent a
\* request whose refusal, body or handler the code does not survive; or for want of
\* memory, when as many connections as it has room or descriptors for were accepted,
\* for it gives none of them back: not for want of threads, and not of clients that
\* never send, or end, or send what it can read.
Unsurvived(m) ==
    \/ ~m.valid /\ m.percent
    \/ m.valid /\ m.padded
    \/ m.valid /\ HandlersMayDie /\ RouteRequest(m.path) # None

DiesForCause ==
    [][up /\ ~up' =>
          \/ \E c \in Running :
                Broken(c) \/ (meaning'[c] # None /\ Unsurvived(meaning'[c]))
          \/ heap = MaxHeap /\ (Cardinality(open) = MaxHeap \/ Cardinality(open) >= MaxFds)]_vars

\* A whole request is received, parsed and routed, to its handler or to the answer
\* that there is none, whatever the other clients do short of bringing the process
\* down, and short of a handler no client that ends its connection, at whatever point
\* and with whatever request, keeps its thread: unless there was no thread for it, or
\* no descriptor, and then nobody will ever serve it.
Complete(c) == request[c] # None /\ sent[c] = Total(c) /\ ~request[c].padded
Dropped(c) == pc[c] = "none" /\ (c \in open \/ Cardinality(open) >= MaxFds)

EveryRequestHandled ==
    \A c \in Clients :
        Complete(c) \/ Finished(c) \/ Broken(c) ~>
            pc[c] \in {"handle", "done", "dead"} \/ Dropped(c)

\* "No bytes received": the answer meant for an error on one connection.
ErrorStaysOnConnection == up
=============================================================================
