----------------------------- MODULE ServerProofs -----------------------------
(***************************************************************************)
(* Theorems about Server, for any clients, requests and limits.            *)
(***************************************************************************)
EXTENDS Server, SequenceTheorems, FiniteSetTheorems, WellFoundedInduction, TLAPS

\* What ends the receive loop: the whole request, a full buffer, or the client.
Received(c) ==
    got[c] >= Total(c) \/ got[c] = BufferSize \/ peer[c] \notin {"out", "connected"}

BeforeAnswer == {"none", "recv", "recv_body", "refuse", "parse", "drain", "preflight"}
BehindReceive == PCs \ {"none", "dead", "recv", "recv_body"}

PreflightOnly(c) ==
    Len(replies[c]) = 1 /\ replies[c][1] = "preflight" /\ request[c].options

ClientInv(c) ==
    /\ request[c] = None => pc[c] = "none" /\ peer[c] = "out"
    /\ pc[c] \in BehindReceive \/ replies[c] # <<>> => Received(c)
    /\ error[c] => peer[c] = "reset"
    /\ pc[c] \in BeforeAnswer => replies[c] = <<>>
    /\ pc[c] \in {"route", "handle"} => replies[c] = <<>> \/ PreflightOnly(c)
    /\ pc[c] = "preflight" => request[c].options
    /\ pc[c] = "drain" => meaning[c] \in Request /\ (meaning[c].options => request[c].options)
    /\ pc[c] \in {"done", "dead"} =>
          \/ Len(replies[c]) \in {0, 1}
          \/ Len(replies[c]) = 2 /\ replies[c][1] = "preflight" /\ request[c].options

\* A client is queued once, and before it has a thread.
QueueInv ==
    /\ \A i \in DOMAIN queue : request[queue[i]] # None /\ pc[queue[i]] = "none"
    /\ \A i, j \in DOMAIN queue : queue[i] = queue[j] => i = j

ServerInv ==
    /\ TypeOK
    /\ QueueInv
    /\ \A c \in Clients : ClientInv(c)

-----------------------------------------------------------------------------

LEMMA ServerInvInit == Init => ServerInv
<1> SUFFICES ASSUME Init
             PROVE  ServerInv
    OBVIOUS
<1>1. TypeOK
    BY ServerAssumption DEF Init, TypeOK, PCs, Threads
<1>2. QueueInv
    BY DEF Init, QueueInv
<1>3. ASSUME NEW c \in Clients
      PROVE  ClientInv(c)
    BY DEF Init, ClientInv, BehindReceive, BeforeAnswer
<1> QED
    BY <1>1, <1>2, <1>3 DEF ServerInv

LEMMA EmptyLength == Len(<<>>) = 0
BY EmptySeq

LEMMA ReplyLengths ==
    ASSUME NEW s \in Seq(Replies), NEW reply \in Replies
    PROVE  /\ Len(s) \in Nat
           /\ s = <<>> <=> Len(s) = 0
           /\ Append(s, reply) \in Seq(Replies)
           /\ Append(s, reply) # <<>>
           /\ Len(Append(s, reply)) = Len(s) + 1
           /\ Len(s) = 0 => Append(s, reply)[1] = reply
           /\ Len(s) = 1 => Append(s, reply)[1] = s[1]
<1>1. Len(s) \in Nat /\ (s = <<>> <=> Len(s) = 0)
    BY EmptySeq
<1>2. /\ Append(s, reply) \in Seq(Replies)
      /\ Append(s, reply) # <<>>
      /\ Len(Append(s, reply)) = Len(s) + 1
      /\ \A i \in 1..Len(s) : Append(s, reply)[i] = s[i]
      /\ Append(s, reply)[Len(s) + 1] = reply
    BY AppendProperties
<1> QED
    BY <1>1, <1>2

\* One more answer, or none that arrives.
LEMMA OneMore ==
    ASSUME NEW s \in Seq(Replies), NEW reply \in Replies, NEW t,
           t = s \/ t = Append(s, reply)
    PROVE  /\ s = <<>> => t = <<>> \/ (Len(t) = 1 /\ t[1] = reply)
           /\ Len(s) = 1 => Len(t) = 1 \/ (Len(t) = 2 /\ t[1] = s[1])
<1>1. s = <<>> => Len(s) = 0
    BY EmptyLength
<1>2. CASE t = s
    BY <1>1, <1>2
<1>3. CASE t = Append(s, reply)
    BY <1>1, <1>3, ReplyLengths
<1> QED
    BY <1>1, <1>2, <1>3

LEMMA OneAnswer ==
    ASSUME NEW c, replies[c] = <<>> \/ PreflightOnly(c)
    PROVE  Len(replies[c]) \in {0, 1}
<1>1. replies[c] = <<>> \/ Len(replies[c]) = 1
    BY DEF PreflightOnly
<1> QED
    BY <1>1, EmptyLength

LEMMA AnsweredOnce ==
    ASSUME NEW c, replies[c] \in Seq(Replies), NEW reply \in Replies,
           replies'[c] = replies[c] \/ replies'[c] = Append(replies[c], reply),
           replies[c] = <<>> \/ PreflightOnly(c),
           request' = request
    PROVE  /\ \/ Len(replies'[c]) \in {0, 1}
              \/ Len(replies'[c]) = 2 /\ replies'[c][1] = "preflight" /\ request'[c].options
           /\ replies[c] = <<>> /\ reply = "preflight" /\ request[c].options =>
                 replies'[c] = <<>> \/ PreflightOnly(c)'
<1>1. CASE replies[c] = <<>>
    <2>1. replies'[c] = <<>> \/ (Len(replies'[c]) = 1 /\ replies'[c][1] = reply)
        BY <1>1, OneMore
    <2> QED
        BY <2>1, EmptyLength DEF PreflightOnly
<1>2. CASE PreflightOnly(c)
    <2>1. /\ Len(replies[c]) = 1 /\ replies[c][1] = "preflight"
          /\ request'[c].options
        BY <1>2 DEF PreflightOnly
    <2>2. \/ Len(replies'[c]) = 1
          \/ Len(replies'[c]) = 2 /\ replies'[c][1] = replies[c][1]
        BY <2>1, OneMore
    <2>3. replies[c] # <<>>
        BY <2>1, EmptyLength
    <2> QED
        BY <2>1, <2>2, <2>3
<1> QED
    BY <1>1, <1>2

\* What all clients have been sent, at any point.
LEMMA AnswersSoFar ==
    ASSUME TypeOK, NEW c \in Clients, ClientInv(c)
    PROVE  \/ Len(replies[c]) \in {0, 1}
           \/ Len(replies[c]) = 2 /\ replies[c][1] = "preflight" /\ request[c].options
<1>1. replies[c] \in Seq(Replies) /\ pc[c] \in PCs
    BY DEF TypeOK
<1>2. replies[c] = <<>> => Len(replies[c]) = 0
    BY <1>1, EmptyLength
<1>3. CASE pc[c] \in BeforeAnswer \/ pc[c] \in {"route", "handle"}
    <2>1. replies[c] = <<>> \/ Len(replies[c]) = 1
        BY <1>3 DEF ClientInv, PreflightOnly
    <2> QED
        BY <1>2, <2>1
<1>4. CASE pc[c] \in {"done", "dead"}
    BY <1>4 DEF ClientInv
<1> QED
    BY <1>1, <1>3, <1>4 DEF PCs, Threads, BeforeAnswer

LEMMA MeaningsTyped ==
    ASSUME TypeOK, NEW c \in Clients, request[c] # None, NEW m \in Meanings(c)
    PROVE  m \in Request /\ m.options = request[c].options
<1> DEFINE r == request[c]
<1>1. r \in Request
    BY ServerAssumption DEF TypeOK
<1>2. ASSUME NEW s \in OtherSegments
      PROVE  <<s>> \in Seq(Segments)
    <2>1. s \in Segments
        BY DEF Segments
    <2> QED
        BY <2>1
<1>3. <<>> \in Seq(Segments)
    OBVIOUS
<1>4. CASE m = r
    BY <1>1, <1>4
<1>5. CASE m = [r EXCEPT !.valid = FALSE, !.percent = FALSE]
    BY <1>1, <1>5 DEF Request
<1>7. CASE got[c] >= r.head
    BY <1>4, <1>7 DEF Meanings
<1>8. CASE ~(got[c] >= r.head) /\ got[c] = 0
    BY <1>5, <1>8 DEF Meanings
<1>9. CASE ~(got[c] >= r.head) /\ got[c] # 0
    <2> DEFINE paths == {<<>>, r.path} \cup {<<s>> : s \in OtherSegments}
    <2>1. m \in [valid : {FALSE, r.valid}, percent : {FALSE, r.percent},
                  options : {r.options}, path : paths,
                  head : {r.head}, body : {r.body}, padded : {FALSE, r.padded}]
        BY <1>9 DEF Meanings
    <2>2. paths \subseteq Seq(Segments)
        BY <1>1, <1>2, <1>3 DEF Request
    <2> HIDE DEF paths
    <2> QED
        BY <1>1, <2>1, <2>2 DEF Request
<1> QED
    BY <1>7, <1>8, <1>9

\* A client whose part of the state stays keeps its part of the invariant.
LEMMA OthersKeep ==
    ASSUME NEW c, ClientInv(c),
           pc'[c] = pc[c], got'[c] = got[c], request'[c] = request[c],
           meaning'[c] = meaning[c], peer'[c] = peer[c], error'[c] = error[c],
           replies'[c] = replies[c]
    PROVE  ClientInv(c)'
BY DEF ClientInv, Received, Total, PreflightOnly

LEMMA DieKeeps ==
    ASSUME ServerInv, Die, UNCHANGED <<got, client, socket>>,
           meaning' \in [Clients -> Request \cup {None}],
           \A c \in Clients : meaning'[c] = meaning[c] \/ pc[c] = "parse"
    PROVE  ServerInv'
<1> USE ServerAssumption DEF ServerInv, TypeOK, client, socket
<1>1. TypeOK'
    <2>1. pc' \in [Clients -> PCs]
        BY DEF Die, PCs
    <2>2. queue' = <<>> /\ up' = FALSE /\ heap' = 0 /\ open' = {}
        BY DEF Die
    <2>3. 0 \in 0..MaxHeap
        BY ServerAssumption
    <2>4. /\ heap' \in 0..MaxHeap /\ queue' \in Seq(Clients) /\ open' \subseteq Clients
        BY <2>2, <2>3
    <2>5. up' \in BOOLEAN
        BY <2>2
    <2>6. UNCHANGED <<got, request, sent, peer, error, replies>>
        OBVIOUS
    <2> QED
        BY <2>1, <2>4, <2>5, <2>6
<1>2. QueueInv'
    BY DEF Die, QueueInv
<1>3. ASSUME NEW c \in Clients
      PROVE  ClientInv(c)'
    <2>1. CASE request[c] = None \/ pc[c] = "done"
        <3>1. pc'[c] = pc[c]
            BY <2>1 DEF Die
        <3>2. meaning'[c] = meaning[c]
            BY <2>1 DEF ClientInv
        <3> QED
            BY <3>1, <3>2, OthersKeep
    <2>2. CASE ~(request[c] = None \/ pc[c] = "done")
        <3>1. pc'[c] = "dead"
            BY <2>2 DEF Die
        <3>2. \/ Len(replies[c]) \in {0, 1}
              \/ Len(replies[c]) = 2 /\ replies[c][1] = "preflight" /\ request[c].options
            BY AnswersSoFar
        <3>3. replies[c] # <<>> => Received(c)'
            BY DEF ClientInv, Received, Total
        <3> QED
            BY <2>2, <3>1, <3>2, <3>3 DEF ClientInv, BehindReceive, BeforeAnswer
    <2> QED
        BY <2>1, <2>2
<1> QED
    BY <1>1, <1>2, <1>3

\* The queue is kept by a step of a client that is not queued.
LEMMA QueueKept ==
    ASSUME ServerInv, NEW c \in Clients, pc[c] # "none", UNCHANGED <<queue, request>>,
           \A d \in Clients \ {c} : pc'[d] = pc[d]
    PROVE  QueueInv'
<1>1. \A i \in DOMAIN queue : queue[i] \in Clients /\ queue[i] # c
    BY DEF ServerInv, TypeOK, QueueInv
<1> QED
    BY <1>1 DEF ServerInv, QueueInv

\* send() by a thread that received its request.
LEMMA SendKeeps ==
    ASSUME ServerInv, NEW c \in Clients, NEW reply \in Replies, NEW label \in {"done", "route"},
           Send(c, reply, label), UNCHANGED <<got, client, peer>>,
           meaning' \in [Clients -> Request \cup {None}],
           \A d \in Clients \ {c} : meaning'[d] = meaning[d],
           pc[c] \in BehindReceive, request[c] # None,
           replies[c] = <<>> \/ (PreflightOnly(c) /\ label = "done"),
           label = "route" => reply = "preflight" /\ request[c].options
    PROVE  ServerInv'
<1> USE ServerAssumption DEF ServerInv, TypeOK, client
<1>1. CASE Broken(c) /\ ~error[c] /\ Die /\ UNCHANGED <<error, replies>>
    <2>1. ASSUME NEW d \in Clients, d # c
          PROVE  ClientInv(d)'
        <3>1. \/ pc'[d] = "dead" /\ request[d] # None
              \/ pc'[d] = pc[d]
            BY <1>1 DEF Die
        <3>2. CASE pc'[d] = pc[d]
            BY <1>1, <2>1, <3>2, OthersKeep
        <3>3. CASE pc'[d] = "dead" /\ request[d] # None
            <4>1. \/ Len(replies[d]) \in {0, 1}
                  \/ Len(replies[d]) = 2 /\ replies[d][1] = "preflight" /\ request[d].options
                BY AnswersSoFar
            <4>2. replies[d] # <<>> => Received(d)'
                BY <1>1 DEF ClientInv, Received, Total
            <4> QED
                BY <1>1, <3>3, <4>1, <4>2 DEF ClientInv, BehindReceive, BeforeAnswer
        <3> QED
            BY <3>1, <3>2, <3>3
    <2>2. ClientInv(c)'
        <3>1. pc'[c] \in {"dead", "done"}
            BY <1>1 DEF Die
        <3>2. Received(c)'
            BY DEF ClientInv, Received, Total
        <3>3. Len(replies[c]) \in {0, 1}
            BY OneAnswer
        <3> QED
            BY <1>1, <3>1, <3>2, <3>3 DEF ClientInv, BeforeAnswer
    <2>3. TypeOK'
        <3>1. pc' \in [Clients -> PCs]
            BY <1>1 DEF Die, PCs
        <3>2. queue' = <<>> /\ up' = FALSE /\ heap' = 0 /\ open' = {}
            BY <1>1 DEF Die
        <3>3. 0 \in 0..MaxHeap
            BY ServerAssumption
        <3>4. /\ heap' \in 0..MaxHeap /\ queue' \in Seq(Clients) /\ open' \subseteq Clients
            BY <3>2, <3>3
        <3>5. up' \in BOOLEAN
            BY <3>2
        <3>6. UNCHANGED <<got, request, sent, peer, error, replies>>
            BY <1>1
        <3> QED
            BY <3>1, <3>4, <3>5, <3>6
    <2>4. QueueInv'
        BY <1>1 DEF Die, QueueInv
    <2> QED
        BY <2>1, <2>2, <2>3, <2>4
<1>2. CASE /\ Goto(c, label)
           /\ UNCHANGED process
           /\ error' \in [Clients -> BOOLEAN]
           /\ error'[c] => error[c]
           /\ \A d \in Clients \ {c} : error'[d] = error[d]
           /\ replies' = replies \/ replies' = [replies EXCEPT ![c] = Append(@, reply)]
    <2>1. TypeOK'
        <3>1. pc' \in [Clients -> PCs]
            BY <1>2 DEF Goto, PCs, Threads
        <3>2. replies' \in [Clients -> Seq(Replies)]
            <4>1. Append(replies[c], reply) \in Seq(Replies)
                BY ReplyLengths
            <4> QED
                BY <1>2, <4>1
        <3> QED
            BY <1>2, <3>1, <3>2 DEF process
    <2>2. \A d \in Clients \ {c} : pc'[d] = pc[d] /\ replies'[d] = replies[d]
        BY <1>2 DEF Goto
    <2>3. QueueInv'
        BY <1>2, <2>2, QueueKept DEF process, BehindReceive
    <2>4. ASSUME NEW d \in Clients, d # c
          PROVE  ClientInv(d)'
        BY <1>2, <2>2, <2>4, OthersKeep
    <2>5. ClientInv(c)'
        <3>1. pc'[c] = label
            BY <1>2 DEF Goto
        <3>2. Received(c)'
            BY DEF ClientInv, Received, Total
        <3>3. replies'[c] = replies[c] \/ replies'[c] = Append(replies[c], reply)
            BY <1>2
        <3>4. replies[c] \in Seq(Replies) /\ request' = request
            OBVIOUS
        <3>5. /\ \/ Len(replies'[c]) \in {0, 1}
                 \/ Len(replies'[c]) = 2 /\ replies'[c][1] = "preflight" /\ request'[c].options
              /\ replies[c] = <<>> /\ reply = "preflight" /\ request[c].options =>
                    replies'[c] = <<>> \/ PreflightOnly(c)'
            BY <3>3, <3>4, AnsweredOnce
        <3>6. CASE label = "route"
            <4>1. replies'[c] = <<>> \/ PreflightOnly(c)'
                BY <3>5, <3>6
            <4> QED
                BY <1>2, <3>1, <3>2, <3>6, <4>1 DEF ClientInv, BeforeAnswer
        <3>7. CASE label = "done"
            BY <1>2, <3>1, <3>2, <3>5, <3>7 DEF ClientInv, BeforeAnswer
        <3> QED
            BY <3>6, <3>7
    <2> QED
        BY <2>1, <2>3, <2>4, <2>5
<1> QED
    BY <1>1, <1>2 DEF Send

-----------------------------------------------------------------------------
(* main *)

LEMMA AcceptKeeps ==
    ASSUME ServerInv, Accept
    PROVE  ServerInv'
<1> USE ServerAssumption DEF ServerInv, TypeOK, client, socket
<1> DEFINE h == Head(queue)
<1>1. /\ queue # <<>> /\ Len(queue) \in Nat \ {0}
      /\ h = queue[1] /\ h \in Clients /\ 1 \in DOMAIN queue
      /\ queue' = Tail(queue)
    BY EmptySeq DEF Accept
<1>2. /\ queue' \in Seq(Clients)
      /\ \A i \in DOMAIN queue' : i + 1 \in DOMAIN queue /\ queue'[i] = queue[i + 1]
    BY <1>1
<1>3. request[h] # None /\ pc[h] = "none"
    BY <1>1 DEF QueueInv
<1>4. /\ UNCHANGED <<got, meaning, request, sent, peer, error, replies>>
      /\ \A d \in Clients \ {h} : pc'[d] = pc[d]
      /\ pc' \in [Clients -> PCs]
      /\ pc'[h] \in {"none", "recv"}
    BY <1>1, <1>3 DEF Accept, Goto, ContinueOnError, PCs, Threads
<1>5. up' \in BOOLEAN
    BY DEF Accept, ContinueOnError
<1>6. heap' \in 0..MaxHeap /\ open' \subseteq Clients
    BY <1>1 DEF Accept
<1>7. TypeOK'
    BY <1>2, <1>4, <1>5, <1>6
<1>8. QueueInv'
    <2>1. ASSUME NEW i \in DOMAIN queue'
          PROVE  request'[queue'[i]] # None /\ pc'[queue'[i]] = "none"
        <3>1. i + 1 \in DOMAIN queue /\ i + 1 # 1 /\ queue'[i] = queue[i + 1]
            BY <1>2
        <3>2. queue[i + 1] # h /\ queue[i + 1] \in Clients
            BY <1>1, <3>1 DEF QueueInv
        <3> QED
            BY <1>4, <3>1, <3>2 DEF QueueInv
    <2>2. ASSUME NEW i \in DOMAIN queue', NEW j \in DOMAIN queue', queue'[i] = queue'[j]
          PROVE  i = j
        BY <1>2, <2>2 DEF QueueInv
    <2> QED
        BY <2>1, <2>2 DEF QueueInv
<1>9. ASSUME NEW c \in Clients
      PROVE  ClientInv(c)'
    <2>1. CASE c # h
        BY <1>4, <2>1, OthersKeep
    <2>2. CASE c = h
        <3>1. replies[h] = <<>>
            BY <1>1, <1>3 DEF ClientInv, BeforeAnswer
        <3>2. replies'[h] = <<>> /\ request'[h] # None /\ (error'[h] => peer'[h] = "reset")
            BY <1>1, <1>3, <1>4, <3>1 DEF ClientInv
        <3> QED
            BY <1>4, <2>2, <3>2 DEF ClientInv, BehindReceive
    <2> QED
        BY <2>1, <2>2
<1> QED
    BY <1>7, <1>8, <1>9

LEMMA MainKeeps ==
    ASSUME ServerInv, Main \/ Restart
    PROVE  ServerInv'
<1>1. CASE Accept
    BY <1>1, AcceptKeeps
<1>2. CASE AcceptFails \/ Restart
    <2>1. UNCHANGED <<queue, open, pc, got, meaning, request, sent, peer, error, replies>>
        BY <1>2 DEF AcceptFails, Restart, thread, client, socket
    <2>2. up' \in BOOLEAN
        BY <1>2 DEF AcceptFails, Restart, ServerInv, TypeOK
    <2>3. heap' \in 0..MaxHeap
        BY <1>2, ServerAssumption DEF AcceptFails, Restart, ServerInv, TypeOK
    <2>4. TypeOK'
        BY <2>1, <2>2, <2>3 DEF ServerInv, TypeOK
    <2>5. QueueInv'
        BY <2>1 DEF ServerInv, QueueInv
    <2>6. \A c \in Clients : ClientInv(c)'
        BY <2>1, OthersKeep DEF ServerInv
    <2> QED
        BY <2>4, <2>5, <2>6 DEF ServerInv
<1>3. CASE OutOfMemory
    BY <1>3, DieKeeps DEF OutOfMemory, ServerInv, TypeOK
<1> QED
    BY <1>1, <1>2, <1>3 DEF Main

-----------------------------------------------------------------------------
(* Clients *)

LEMMA ConnectKeeps ==
    ASSUME ServerInv, NEW c \in Clients, Connect(c)
    PROVE  ServerInv'
<1> USE ServerAssumption DEF ServerInv, TypeOK
<1>1. /\ request[c] = None /\ request'[c] # None
      /\ request' \in [Clients -> Requests \cup {None}]
      /\ peer' \in [Clients -> {"out", "connected", "half", "closed", "reset", "gone"}]
      /\ \A d \in Clients \ {c} : request'[d] = request[d] /\ peer'[d] = peer[d]
      /\ UNCHANGED <<up, heap, open, pc, got, meaning, sent, error, replies>>
    BY DEF Connect, thread
<1>2. pc[c] = "none" /\ peer[c] = "out" /\ replies[c] = <<>> /\ ~error[c]
    BY <1>1 DEF ClientInv, BeforeAnswer
<1>3. /\ queue' \in Seq(Clients)
      /\ Len(queue) \in Nat
      /\ DOMAIN queue' = 1..Len(queue) + 1 /\ DOMAIN queue = 1..Len(queue)
      /\ \A i \in DOMAIN queue : queue'[i] = queue[i]
      /\ queue'[Len(queue) + 1] = c
    <2>1. queue' = Append(queue, c) /\ queue \in Seq(Clients)
        BY DEF Connect
    <2>2. /\ queue' \in Seq(Clients)
          /\ Len(queue') = Len(queue) + 1
          /\ \A i \in 1..Len(queue) : queue'[i] = queue[i]
          /\ queue'[Len(queue) + 1] = c
        BY <2>1, AppendProperties
    <2>3. Len(queue) \in Nat /\ DOMAIN queue = 1..Len(queue) /\ DOMAIN queue' = 1..Len(queue')
        BY <2>1, <2>2, LenProperties
    <2> QED
        BY <2>2, <2>3
<1>4. \A i \in DOMAIN queue : queue[i] \in Clients /\ queue[i] # c
    BY <1>1 DEF QueueInv
<1>5. TypeOK'
    BY <1>1, <1>3
<1>6. QueueInv'
    <2>1. ASSUME NEW i \in DOMAIN queue'
          PROVE  request'[queue'[i]] # None /\ pc'[queue'[i]] = "none"
        <3>1. CASE i = Len(queue) + 1
            BY <1>1, <1>2, <1>3, <3>1
        <3>2. CASE i # Len(queue) + 1
            <4>1. i \in DOMAIN queue
                BY <1>3, <3>2
            <4> QED
                BY <1>1, <1>3, <1>4, <4>1 DEF QueueInv
        <3> QED
            BY <3>1, <3>2
    <2>2. ASSUME NEW i \in DOMAIN queue', NEW j \in DOMAIN queue', queue'[i] = queue'[j]
          PROVE  i = j
        <3>1. i \in DOMAIN queue \/ i = Len(queue) + 1
            BY <1>3
        <3>2. j \in DOMAIN queue \/ j = Len(queue) + 1
            BY <1>3
        <3> QED
            BY <1>3, <1>4, <2>2, <3>1, <3>2 DEF QueueInv
    <2> QED
        BY <2>1, <2>2 DEF QueueInv
<1>7. ASSUME NEW d \in Clients
      PROVE  ClientInv(d)'
    <2>1. CASE d # c
        BY <1>1, <2>1, OthersKeep
    <2>2. CASE d = c
        BY <1>1, <1>2, <2>2 DEF ClientInv, BehindReceive
    <2> QED
        BY <2>1, <2>2
<1> QED
    BY <1>5, <1>6, <1>7

LEMMA ClientKeeps ==
    ASSUME ServerInv, NEW c \in Clients, SendPiece(c) \/ Close(c) \/ Reset(c)
    PROVE  ServerInv'
<1> USE DEF ServerInv, TypeOK
<1>1. /\ UNCHANGED <<up, heap, queue, open, pc, got, meaning, request, replies>>
      /\ request[c] # None
    BY DEF SendPiece, Close, Reset, Served, process, thread, client, socket
<1>2. sent' \in [Clients -> Nat]
    <2>1. CASE sent' = [sent EXCEPT ![c] = @ + 1]
        BY <2>1
    <2>2. CASE sent' = sent
        BY <2>2
    <2> QED
        BY <2>1, <2>2 DEF SendPiece, Close, Reset, client
<1>3. /\ peer' \in [Clients -> {"out", "connected", "half", "closed", "reset", "gone"}]
      /\ \A d \in Clients \ {c} : peer'[d] = peer[d]
      /\ peer'[c] = peer[c] \/ peer'[c] \in {"half", "closed", "reset", "gone"}
    BY DEF SendPiece, Close, Reset, socket
<1>4. /\ \A d \in Clients \ {c} : error'[d] = error[d]
      /\ error' \in [Clients -> BOOLEAN]
    <2>1. CASE Reset(c)
        <3>1. (peer[c] = "connected") \in BOOLEAN
            OBVIOUS
        <3> QED
            BY <2>1, <3>1 DEF Reset
    <2>2. CASE error' = error
        BY <2>2
    <2> QED
        BY <2>1, <2>2 DEF SendPiece, Close, socket
<1>5. error'[c] => peer'[c] = "reset"
    <2>1. CASE Reset(c)
        BY <2>1 DEF Reset
    <2>2. CASE SendPiece(c) \/ Close(c)
        <3>1. error[c] => peer[c] = "reset"
            BY DEF ClientInv
        <3>2. error' = error
            BY <2>2 DEF SendPiece, Close, socket
        <3>3. peer[c] = "reset" => peer' = peer
            BY <2>2 DEF SendPiece, Close, socket
        <3> QED
            BY <3>1, <3>2, <3>3
    <2> QED
        BY <2>1, <2>2
<1>6. TypeOK'
    BY <1>1, <1>2, <1>3, <1>4
<1>7. QueueInv'
    BY <1>1 DEF QueueInv
<1>8. ASSUME NEW d \in Clients
      PROVE  ClientInv(d)'
    <2>1. CASE d # c
        BY <1>1, <1>3, <1>4, <2>1, OthersKeep
    <2>2. CASE d = c
        <3>1. Received(c) => Received(c)'
            BY <1>1, <1>3 DEF Received, Total
        <3>2. ClientInv(c)
            OBVIOUS
        <3> QED
            BY <1>1, <1>5, <2>2, <3>1, <3>2 DEF ClientInv, PreflightOnly
    <2> QED
        BY <2>1, <2>2
<1> QED
    BY <1>6, <1>7, <1>8

-----------------------------------------------------------------------------
(* handle_client_request *)

LEMMA ReceiveKeeps ==
    ASSUME ServerInv, NEW c \in Clients, Receive(c)
    PROVE  ServerInv'
<1> USE ServerAssumption DEF ServerInv, TypeOK
<1>1. PICK n \in 1..Waiting(c) :
         /\ n <= Room(c)
         /\ got' = [got EXCEPT ![c] = @ + n]
         /\ Goto(c, IF got[c] + n < request[c].head THEN "recv"
                    ELSE IF Whole(c, got[c] + n) THEN "parse" ELSE "recv_body")
    BY DEF Receive
<1>2. /\ UNCHANGED <<up, heap, queue, open, meaning, request, sent, peer, error, replies>>
      /\ pc[c] \in {"recv", "recv_body"}
    BY DEF Receive, process, client, socket
<1>3. got[c] \in Nat /\ sent[c] \in Nat /\ n \in Nat
    BY DEF Waiting
<1>4. got[c] + n \in 0..BufferSize
    BY <1>1, <1>3 DEF Room
<1>5. /\ got' \in [Clients -> 0..BufferSize]
      /\ got'[c] = got[c] + n
      /\ \A d \in Clients \ {c} : got'[d] = got[d] /\ pc'[d] = pc[d]
      /\ pc'[c] \in {"recv", "recv_body", "parse"}
      /\ pc'[c] = "parse" => Whole(c, got[c] + n)
      /\ pc' \in [Clients -> PCs]
    BY <1>1, <1>4 DEF Goto, PCs, Threads
<1>6. TypeOK'
    BY <1>2, <1>5
<1>7. QueueInv'
    BY <1>2, <1>5, QueueKept
<1>8. ASSUME NEW d \in Clients
      PROVE  ClientInv(d)'
    <2>1. CASE d # c
        BY <1>2, <1>5, <2>1, OthersKeep
    <2>2. CASE d = c
        <3>1. ClientInv(c)
            OBVIOUS
        <3>2. replies'[c] = <<>> /\ request'[c] # None /\ (error'[c] => peer'[c] = "reset")
            BY <1>2, <3>1 DEF ClientInv, BeforeAnswer
        <3>3. pc'[c] = "parse" => Received(c)'
            BY <1>2, <1>5 DEF Whole, Received, Total
        <3> QED
            BY <1>5, <2>2, <3>2, <3>3 DEF ClientInv, BehindReceive
    <2> QED
        BY <2>1, <2>2
<1> QED
    BY <1>6, <1>7, <1>8

\* A step that moves the thread of c on, and may take the error off its socket.
LEMMA MoveKeeps ==
    ASSUME ServerInv, NEW c \in Clients, NEW label \in Threads \cup {"done"}, Goto(c, label),
           UNCHANGED <<up, heap, queue, open, got, request, sent, peer, replies>>,
           meaning' \in [Clients -> Request \cup {None}],
           error' = error \/ error' = [error EXCEPT ![c] = FALSE],
           \A d \in Clients \ {c} : meaning'[d] = meaning[d],
           pc[c] \in Threads,
           label \in BehindReceive /\ Received(c),
           label \in {"refuse", "parse", "drain", "preflight"} => replies[c] = <<>>,
           label \in {"route", "handle", "done"} => replies[c] = <<>> \/ PreflightOnly(c),
           label = "preflight" => request[c].options,
           label = "drain" => meaning'[c] \in Request /\ (meaning'[c].options => request[c].options)
    PROVE  ServerInv'
<1> USE DEF ServerInv, TypeOK
<1>1. /\ \A d \in Clients \ {c} : pc'[d] = pc[d]
      /\ pc'[c] = label
      /\ pc' \in [Clients -> PCs]
    BY DEF Goto, PCs
<1>2. /\ \A d \in Clients \ {c} : error'[d] = error[d]
      /\ error' \in [Clients -> BOOLEAN]
      /\ error'[c] => error[c]
    <2>1. CASE error' = error
        BY <2>1
    <2>2. CASE error' = [error EXCEPT ![c] = FALSE]
        BY <2>2
    <2> QED
        BY <2>1, <2>2
<1>3. TypeOK'
    BY <1>1, <1>2
<1>4. QueueInv'
    BY <1>1, QueueKept DEF Threads
<1>5. ASSUME NEW d \in Clients, d # c
      PROVE  ClientInv(d)'
    BY <1>1, <1>2, <1>5, OthersKeep
<1>6. ClientInv(c)'
    <2>1. ClientInv(c) /\ request[c] # None
        BY DEF ClientInv, Threads
    <2>2. Received(c)'
        BY DEF Received, Total
    <2>3. error'[c] => peer'[c] = "reset"
        BY <1>2, <2>1 DEF ClientInv
    <2>4. label = "done" => Len(replies[c]) \in {0, 1}
        BY OneAnswer
    <2> QED
        BY <1>1, <2>1, <2>2, <2>3, <2>4 DEF ClientInv, BeforeAnswer, BehindReceive, PreflightOnly
<1> QED
    BY <1>3, <1>4, <1>5, <1>6

LEMMA ThreadKeeps ==
    ASSUME ServerInv, NEW c \in Clients, HandleClientRequest(c)
    PROVE  ServerInv'
<1> USE DEF Replies, Threads, BehindReceive, PCs, BeforeAnswer
<1>1. ClientInv(c) /\ TypeOK
    BY DEF ServerInv
<1>2. ASSUME pc[c] \in Threads
      PROVE  /\ request[c] # None /\ request[c] \in Request
             /\ pc[c] \in BehindReceive => Received(c)
             /\ pc[c] \in BeforeAnswer => replies[c] = <<>>
             /\ pc[c] \in {"route", "handle"} => replies[c] = <<>> \/ PreflightOnly(c)
    BY <1>1, <1>2, ServerAssumption DEF ClientInv, TypeOK
<1>3. CASE Receive(c)
    BY <1>3, ReceiveKeeps
<1>4. CASE ReceiveNothing(c)
    <2>1. Received(c)
        <3>1. CASE Finished(c)
            BY <3>1 DEF Finished, Received
        <3>2. CASE Room(c) = 0
            <4>1. got[c] \in 0..BufferSize /\ BufferSize \in Nat
                BY <1>1, ServerAssumption DEF TypeOK
            <4>2. BufferSize - got[c] = 0
                BY <3>2 DEF Room
            <4>3. got[c] = BufferSize
                BY <4>1, <4>2
            <4> QED
                BY <4>3 DEF Received
        <3> QED
            BY <1>4, <3>1, <3>2 DEF ReceiveNothing
    <2>2. /\ pc[c] \in Threads /\ replies[c] = <<>> /\ Goto(c, "parse")
          /\ UNCHANGED <<up, heap, queue, open, got, meaning, request, sent, peer, error, replies>>
        BY <1>2, <1>4 DEF ReceiveNothing, process, client, socket
    <2>3. meaning' \in [Clients -> Request \cup {None}]
        BY <1>1, <2>2 DEF TypeOK
    <2> QED
        BY <2>1, <2>2, <2>3, MoveKeeps
<1>5. CASE ReceiveFails(c)
    <2>1. peer[c] = "reset"
        BY <1>1, <1>5 DEF ReceiveFails, ClientInv
    <2>2. Received(c)
        BY <2>1 DEF Received
    <2>3. /\ pc[c] \in Threads /\ replies[c] = <<>> /\ Goto(c, "refuse")
          /\ UNCHANGED <<up, heap, queue, open, got, meaning, request, sent, peer, replies>>
          /\ error' = [error EXCEPT ![c] = FALSE]
        BY <1>2, <1>5 DEF ReceiveFails, process, client, socket
    <2>4. meaning' \in [Clients -> Request \cup {None}]
        BY <1>1, <2>3 DEF TypeOK
    <2> QED
        BY <2>2, <2>3, <2>4, MoveKeeps
<1>6. CASE Refuse(c)
    <2>1. /\ Send(c, "no bytes", "done") /\ UNCHANGED <<got, client, peer>>
          /\ pc[c] \in BehindReceive /\ replies[c] = <<>> /\ request[c] # None
          /\ UNCHANGED meaning
        BY <1>2, <1>6 DEF Refuse
    <2>2. meaning' \in [Clients -> Request \cup {None}]
        BY <1>1, <2>1 DEF TypeOK
    <2> QED
        BY <2>1, <2>2, SendKeeps
<1>7. CASE Parse(c)
    <2>1. PICK m \in Meanings(c) :
             /\ meaning' = [meaning EXCEPT ![c] = m]
             /\ \/ m.valid /\ Goto(c, AfterParse(m)) /\ UNCHANGED <<process, socket>>
                \/ ~m.valid /\ Send(c, "bad request", AfterBadRequest) /\ UNCHANGED peer
                \/ ~m.valid /\ m.percent /\ Die /\ UNCHANGED socket
        BY <1>7 DEF Parse
    <2>2. /\ pc[c] = "parse" /\ replies[c] = <<>> /\ Received(c) /\ request[c] # None
          /\ UNCHANGED <<got, client>>
        BY <1>2, <1>7 DEF Parse
    <2>3. m \in Request /\ m.options = request[c].options
        BY <1>1, <2>2, MeaningsTyped
    <2>4. /\ meaning' \in [Clients -> Request \cup {None}]
          /\ meaning'[c] = m
          /\ \A d \in Clients \ {c} : meaning'[d] = meaning[d]
        BY <1>1, <2>1, <2>3 DEF TypeOK
    <2>5. CASE m.valid
        <3>1. AfterParse(m) \in {"drain", "preflight", "route"}
            BY DEF AfterParse
        <3>2. AfterParse(m) = "preflight" => request[c].options
            BY <2>3 DEF AfterParse
        <3>3. /\ Goto(c, AfterParse(m))
              /\ UNCHANGED <<up, heap, queue, open, got, request, sent, peer, error, replies>>
            BY <2>1, <2>2, <2>5 DEF process, client, socket
        <3> QED
            BY <2>2, <2>3, <2>4, <3>1, <3>2, <3>3, MoveKeeps
    <2>6. CASE Send(c, "bad request", AfterBadRequest) /\ UNCHANGED peer
        <3>1. Send(c, "bad request", "done") /\ UNCHANGED <<got, client, peer>>
            BY <2>1, <2>2, <2>6 DEF AfterBadRequest
        <3> QED
            BY <2>2, <2>4, <3>1, SendKeeps
    <2>7. CASE Die /\ UNCHANGED socket
        BY <2>2, <2>4, <2>7, DieKeeps
    <2> QED
        BY <2>1, <2>5, <2>6, <2>7
<1>8. CASE Drain(c)
    <2>1. /\ pc[c] = "drain" /\ replies[c] = <<>> /\ Received(c)
          /\ UNCHANGED <<up, heap, queue, open, got, meaning, request, sent, peer, replies>>
          /\ error' = [error EXCEPT ![c] = FALSE]
          /\ Goto(c, IF meaning[c].options THEN "preflight" ELSE "route")
        BY <1>2, <1>8 DEF Drain, process, client
    <2>2. meaning[c].options => request[c].options
        BY <1>1, <2>1 DEF ClientInv
    <2>3. meaning' \in [Clients -> Request \cup {None}]
        BY <1>1, <2>1 DEF TypeOK
    <2>4. CASE meaning[c].options
        BY <2>1, <2>2, <2>3, <2>4, MoveKeeps
    <2>5. CASE ~meaning[c].options
        BY <2>1, <2>3, <2>5, MoveKeeps
    <2> QED
        BY <2>4, <2>5
<1>9. CASE Preflight(c)
    <2>1. /\ Send(c, "preflight", "route") /\ UNCHANGED <<got, client, peer, meaning>>
          /\ pc[c] = "preflight" /\ replies[c] = <<>> /\ request[c] # None
        BY <1>2, <1>9 DEF Preflight
    <2>2. request[c].options
        BY <1>1, <2>1 DEF ClientInv
    <2>3. meaning' \in [Clients -> Request \cup {None}]
        BY <1>1, <2>1 DEF TypeOK
    <2> QED
        BY <2>1, <2>2, <2>3, SendKeeps
<1>10. CASE Route(c)
    <2>1. /\ UNCHANGED <<got, meaning, client>>
          /\ pc[c] = "route" /\ Received(c) /\ request[c] # None
          /\ replies[c] = <<>> \/ PreflightOnly(c)
        BY <1>2, <1>10 DEF Route
    <2>2. meaning' \in [Clients -> Request \cup {None}]
        BY <1>1, <2>1 DEF TypeOK
    <2>3. CASE Send(c, "not found", "done") /\ UNCHANGED peer
        BY <2>1, <2>2, <2>3, SendKeeps
    <2>4. CASE Goto(c, "handle") /\ UNCHANGED <<process, socket>>
        <3>1. UNCHANGED <<up, heap, queue, open, got, request, sent, peer, error, replies>>
            BY <2>1, <2>4 DEF process, client, socket
        <3> QED
            BY <2>1, <2>2, <2>4, <3>1, MoveKeeps
    <2> QED
        BY <1>10, <2>3, <2>4 DEF Route
<1>11. CASE HandlerAnswers(c) \/ HandlerReturns(c)
    <2>1. /\ UNCHANGED <<got, meaning, client, peer>>
          /\ pc[c] = "handle" /\ Received(c) /\ request[c] # None
          /\ replies[c] = <<>> \/ PreflightOnly(c)
        BY <1>2, <1>11 DEF HandlerAnswers, HandlerReturns, socket
    <2>2. meaning' \in [Clients -> Request \cup {None}]
        BY <1>1, <2>1 DEF TypeOK
    <2>3. CASE Send(c, "handled", "done")
        BY <2>1, <2>2, <2>3, SendKeeps
    <2>4. CASE HandlerReturns(c)
        <3>1. /\ UNCHANGED <<up, heap, queue, open, got, request, sent, peer, error, replies>>
              /\ Goto(c, "done")
            BY <2>4 DEF HandlerReturns, process, client, socket
        <3> QED
            BY <2>1, <2>2, <3>1, MoveKeeps
    <2> QED
        BY <1>11, <2>3, <2>4 DEF HandlerAnswers
<1> QED
    BY <1>3, <1>4, <1>5, <1>6, <1>7, <1>8, <1>9, <1>10, <1>11 DEF HandleClientRequest, UpToHandler

LEMMA ServerInvNext == ServerInv /\ [Next]_vars => ServerInv'
<1> SUFFICES ASSUME ServerInv, [Next]_vars
             PROVE  ServerInv'
    OBVIOUS
<1>1. CASE Main \/ Restart
    BY <1>1, MainKeeps
<1>2. ASSUME NEW c \in Clients, Connect(c)
      PROVE  ServerInv'
    BY <1>2, ConnectKeeps
<1>3. ASSUME NEW c \in Clients, SendPiece(c) \/ Close(c) \/ Reset(c)
      PROVE  ServerInv'
    BY <1>3, ClientKeeps
<1>4. ASSUME NEW c \in Clients, HandleClientRequest(c)
      PROVE  ServerInv'
    BY <1>4, ThreadKeeps
<1>6. ASSUME NEW c \in Clients, OverrunBody(c) \/ HandlerDies(c)
      PROVE  ServerInv'
    BY <1>6, DieKeeps DEF OverrunBody, HandlerDies, ServerInv, TypeOK
<1>5. CASE UNCHANGED vars
    <2>1. UNCHANGED <<up, heap, queue, open, pc, got, meaning, request, sent, peer, error, replies>>
        BY <1>5 DEF vars, process, thread, client, socket
    <2>2. TypeOK' /\ QueueInv'
        BY <2>1 DEF ServerInv, TypeOK, QueueInv
    <2>3. \A c \in Clients : ClientInv(c)'
        BY <2>1, OthersKeep DEF ServerInv
    <2> QED
        BY <2>2, <2>3 DEF ServerInv
<1> QED
    BY <1>1, <1>2, <1>3, <1>4, <1>5, <1>6 DEF Next, Client

-----------------------------------------------------------------------------
(* What was made of a request *)

MeaningInv(c) ==
    /\ pc[c] \in {"none", "recv", "recv_body", "refuse", "parse"} => meaning[c] = None
    /\ pc[c] \in {"drain", "preflight", "route", "handle"} =>
          meaning[c] # None /\ meaning[c].valid
    /\ pc[c] = "drain" => meaning[c].padded
    /\ pc[c] = "handle" => RouteRequest(meaning[c].path) # None

\* A request is given its meaning once.
MeaningStays(c) == meaning[c] # None => meaning'[c] = meaning[c]

LEMMA MeaningDead ==
    ASSUME NEW c \in Clients, MeaningInv(c), meaning'[c] = meaning[c],
           pc'[c] = pc[c] \/ pc'[c] \in {"dead", "done"}
    PROVE  MeaningInv(c)' /\ MeaningStays(c)
BY DEF MeaningInv, MeaningStays

LEMMA MeaningStep ==
    ASSUME ServerInv, \A c \in Clients : MeaningInv(c), [Next]_vars
    PROVE  \A c \in Clients : MeaningInv(c)' /\ MeaningStays(c)
<1> USE DEF ServerInv, TypeOK, process, thread, client, socket
<1>1. ASSUME UNCHANGED meaning,
             \A d \in Clients : pc'[d] = pc[d] \/ pc'[d] \in {"dead", "done"}
      PROVE  \A c \in Clients : MeaningInv(c)' /\ MeaningStays(c)
    BY <1>1, MeaningDead
<1>2. CASE Accept
    <2>1. Head(queue) = queue[1] /\ 1 \in DOMAIN queue /\ Head(queue) \in Clients
        BY <1>2, EmptySeq DEF Accept
    <2>2. pc[Head(queue)] = "none"
        BY <2>1 DEF QueueInv
    <2>3. /\ UNCHANGED meaning
          /\ \A d \in Clients : pc'[d] = pc[d] \/ (d = Head(queue) /\ pc'[d] = "recv")
        BY <1>2, <2>1 DEF Accept, Goto, ContinueOnError
    <2> QED
        BY <2>2, <2>3 DEF MeaningInv, MeaningStays
<1>3. CASE AcceptFails \/ OutOfMemory \/ Restart
    BY <1>1, <1>3 DEF AcceptFails, OutOfMemory, Restart, Die
<1>4. ASSUME NEW e \in Clients, Client(e)
      PROVE  UNCHANGED <<meaning, pc>>
    BY <1>4 DEF Client, Connect, SendPiece, Close, Reset
<1>5. ASSUME NEW e \in Clients, OverrunBody(e) \/ HandlerDies(e) \/ HandlerReturns(e)
      PROVE  \A c \in Clients : MeaningInv(c)' /\ MeaningStays(c)
    BY <1>1, <1>5 DEF OverrunBody, HandlerDies, HandlerReturns, Die, Goto
<1>6. ASSUME NEW e \in Clients, Receive(e) \/ ReceiveNothing(e) \/ ReceiveFails(e)
      PROVE  \A c \in Clients : MeaningInv(c)' /\ MeaningStays(c)
    <2>1. /\ UNCHANGED meaning /\ pc[e] \in {"recv", "recv_body"}
          /\ \A d \in Clients \ {e} : pc'[d] = pc[d]
          /\ pc'[e] \in {"recv", "recv_body", "parse", "refuse"}
        BY <1>6 DEF Receive, ReceiveNothing, ReceiveFails, Goto
    <2> QED
        BY <2>1 DEF MeaningInv, MeaningStays
<1>7. ASSUME NEW e \in Clients, NEW rep, Send(e, rep, "done"), UNCHANGED meaning
      PROVE  \A c \in Clients : MeaningInv(c)' /\ MeaningStays(c)
    BY <1>1, <1>7 DEF Send, Goto, Die
<1>8. ASSUME NEW e \in Clients, Refuse(e) \/ HandlerAnswers(e)
      PROVE  \A c \in Clients : MeaningInv(c)' /\ MeaningStays(c)
    BY <1>7, <1>8 DEF Refuse, HandlerAnswers
<1>9. ASSUME NEW e \in Clients, Parse(e)
      PROVE  \A c \in Clients : MeaningInv(c)' /\ MeaningStays(c)
    <2>1. PICK m \in Meanings(e) :
             /\ meaning' = [meaning EXCEPT ![e] = m]
             /\ \/ m.valid /\ Goto(e, AfterParse(m)) /\ UNCHANGED <<process, socket>>
                \/ ~m.valid /\ Send(e, "bad request", AfterBadRequest) /\ UNCHANGED peer
                \/ ~m.valid /\ m.percent /\ Die /\ UNCHANGED socket
        BY <1>9 DEF Parse
    <2>2. pc[e] = "parse" /\ meaning[e] = None /\ request[e] # None
        BY <1>9 DEF Parse, MeaningInv, ClientInv
    <2>3. meaning'[e] = m /\ \A d \in Clients \ {e} : meaning'[d] = meaning[d]
        BY <2>1, <2>2, MeaningsTyped
    <2>4. m # None
        <3>1. m \in Request
            BY <2>2, MeaningsTyped
        <3> QED
            BY <3>1, ServerAssumption
    <2>5. \A d \in Clients \ {e} : pc'[d] = pc[d] \/ pc'[d] = "dead"
        BY <2>1 DEF Goto, Send, Die
    <2>6. \/ m.valid /\ pc'[e] = AfterParse(m)
          \/ pc'[e] \in {"done", "dead"}
        BY <2>1, <2>2 DEF Goto, Send, Die, AfterBadRequest
    <2>7. MeaningInv(e)' /\ MeaningStays(e)
        BY <2>2, <2>3, <2>4, <2>6 DEF MeaningInv, MeaningStays, AfterParse
    <2> QED
        BY <2>3, <2>5, <2>7, MeaningDead
<1>10. ASSUME NEW e \in Clients, Drain(e)
       PROVE  \A c \in Clients : MeaningInv(c)' /\ MeaningStays(c)
    <2>1. /\ UNCHANGED meaning /\ pc[e] = "drain"
          /\ \A d \in Clients \ {e} : pc'[d] = pc[d]
          /\ pc'[e] \in {"preflight", "route"}
        BY <1>10 DEF Drain, Goto
    <2> QED
        BY <2>1 DEF MeaningInv, MeaningStays
<1>11. ASSUME NEW e \in Clients, Preflight(e)
       PROVE  \A c \in Clients : MeaningInv(c)' /\ MeaningStays(c)
    <2>1. /\ UNCHANGED meaning /\ pc[e] = "preflight"
          /\ \A d \in Clients \ {e} : pc'[d] = pc[d] \/ pc'[d] = "dead"
          /\ pc'[e] \in {"route", "done", "dead"} \/ pc'[e] = pc[e]
        BY <1>11 DEF Preflight, Send, Goto, Die
    <2> QED
        BY <2>1 DEF MeaningInv, MeaningStays
<1>12. ASSUME NEW e \in Clients, Route(e)
       PROVE  \A c \in Clients : MeaningInv(c)' /\ MeaningStays(c)
    <2>1. CASE RouteRequest(meaning[e].path) = None
        BY <1>7, <1>12, <2>1 DEF Route
    <2>2. CASE RouteRequest(meaning[e].path) # None
        <3>1. /\ UNCHANGED meaning /\ pc[e] = "route"
              /\ \A d \in Clients \ {e} : pc'[d] = pc[d]
              /\ pc'[e] = "handle"
            BY <1>12, <2>2 DEF Route, Goto
        <3> QED
            BY <2>2, <3>1 DEF MeaningInv, MeaningStays
    <2> QED
        BY <2>1, <2>2
<1>13. CASE UNCHANGED vars
    BY <1>1, <1>13 DEF vars
<1> QED
    BY <1>1, <1>2, <1>3, <1>4, <1>5, <1>6, <1>8, <1>9, <1>10, <1>11, <1>12, <1>13
       DEF Next, Main, HandleClientRequest, UpToHandler

-----------------------------------------------------------------------------
(* Descriptors and memory *)

\* A block of memory goes with each descriptor, until there is none left and accept
\* fails; and neither is ever given back but by the end of the process.
CountInv ==
    /\ \A i \in DOMAIN queue : queue[i] \notin open
    /\ \A c \in open : request[c] # None
    /\ heap = Cardinality(open) \/ Cardinality(open) >= MaxFds

LEMMA Counts ==
    ASSUME ServerInv
    PROVE  IsFiniteSet(open) /\ Cardinality(open) \in Nat
BY ServerAssumption, FS_Subset, FS_CardinalityType DEF ServerInv, TypeOK

LEMMA CountInvStep ==
    ASSUME ServerInv, CountInv, [Next]_vars
    PROVE  CountInv'
<1> USE DEF process, client
<1>1. CASE Accept
    <2> DEFINE h == Head(queue)
    <2>1. /\ queue' = Tail(queue) /\ open' = open \cup {h} /\ heap' = heap + 1
          /\ Cardinality(open) < MaxFds /\ queue # <<>>
        BY <1>1 DEF Accept
    <2>2. /\ h = queue[1] /\ 1 \in DOMAIN queue
          /\ \A i \in DOMAIN queue' : i + 1 \in DOMAIN queue /\ queue'[i] = queue[i + 1]
        <3>1. queue \in Seq(Clients) /\ queue # <<>> /\ Len(queue) \in Nat \ {0}
            BY <2>1, EmptySeq DEF ServerInv, TypeOK
        <3> QED
            BY <2>1, <3>1
    <2>3. Cardinality(open') = Cardinality(open) + 1
        BY <2>1, <2>2, Counts, FS_AddElement DEF CountInv
    <2>4. heap' = Cardinality(open')
        <3>1. heap = Cardinality(open)
            BY <2>1, Counts, ServerAssumption DEF CountInv
        <3> QED
            BY <2>1, <2>3, <3>1
    <2>5. request[h] # None /\ UNCHANGED request
        BY <1>1, <2>2 DEF Accept, ServerInv, QueueInv
    <2>6. ASSUME NEW i \in DOMAIN queue'
          PROVE  queue'[i] \notin open'
        <3>1. i + 1 \in DOMAIN queue /\ queue'[i] = queue[i + 1]
            BY <2>2
        <3>2. i + 1 # 1
            BY <2>1 DEF ServerInv, TypeOK
        <3>3. queue[i + 1] # h
            BY <2>2, <3>1, <3>2 DEF ServerInv, QueueInv
        <3> QED
            BY <2>1, <3>1, <3>3 DEF CountInv
    <2> QED
        BY <2>1, <2>4, <2>5, <2>6 DEF CountInv
<1>2. CASE AcceptFails
    BY <1>2 DEF AcceptFails, CountInv
<1>3. CASE Die /\ UNCHANGED request
    BY <1>3, FS_EmptySet DEF Die, CountInv
<1>4. CASE UNCHANGED <<heap, queue, open, request>>
    BY <1>4 DEF CountInv
<1>5. ASSUME NEW c \in Clients, Connect(c)
      PROVE  CountInv'
    <2>1. UNCHANGED <<heap, open>> /\ queue' = Append(queue, c) /\ request[c] = None
        BY <1>5 DEF Connect
    <2>2. c \notin open
        BY <2>1 DEF CountInv
    <2>3. \A i \in DOMAIN queue' : queue'[i] \notin open'
        BY <2>1, <2>2, SMTT(20) DEF CountInv, ServerInv, TypeOK
    <2> QED
        <3>1. \A d \in open : request'[d] # None
            BY <1>5, <2>2 DEF Connect, CountInv, ServerInv, TypeOK
        <3> QED
            BY <2>1, <2>3, <3>1 DEF CountInv
<1>6. ASSUME NEW c \in Clients, SendPiece(c) \/ Close(c) \/ Reset(c)
      PROVE  UNCHANGED <<heap, queue, open, request>>
    BY <1>6 DEF SendPiece, Close, Reset
<1>7. ASSUME NEW c \in Clients, HandleClientRequest(c) \/ OverrunBody(c) \/ HandlerDies(c)
      PROVE  UNCHANGED request /\ (UNCHANGED <<heap, queue, open>> \/ Die)
    BY <1>7 DEF HandleClientRequest, UpToHandler, Receive, ReceiveNothing, ReceiveFails,
       Refuse, Parse, Drain, Preflight, Route, HandlerAnswers, HandlerReturns,
       OverrunBody, HandlerDies, Send
<1> QED
    BY <1>1, <1>2, <1>3, <1>4, <1>5, <1>6, <1>7
       DEF Next, Main, Client, OutOfMemory, Restart, vars

\* The reasons a thread may have to end the process.
LEMMA ThreadCause ==
    ASSUME ServerInv, NEW c \in Clients, MeaningInv(c), up, ~up',
           HandleClientRequest(c) \/ OverrunBody(c) \/ HandlerDies(c)
    PROVE  /\ c \in Running
           /\ Broken(c) \/ (meaning'[c] # None /\ Unsurvived(meaning'[c]))
<1> USE DEF process, Running, Threads
<1>1. CASE Parse(c)
    <2>1. PICK m \in Meanings(c) :
             /\ meaning' = [meaning EXCEPT ![c] = m]
             /\ \/ m.valid /\ Goto(c, AfterParse(m)) /\ UNCHANGED <<process, socket>>
                \/ ~m.valid /\ Send(c, "bad request", AfterBadRequest) /\ UNCHANGED peer
                \/ ~m.valid /\ m.percent /\ Die /\ UNCHANGED socket
        BY <1>1 DEF Parse
    <2>2. pc[c] = "parse" /\ request[c] # None
        BY <1>1 DEF Parse, ServerInv, ClientInv
    <2>3. m \in Request /\ m # None /\ meaning'[c] = m
        BY <2>1, <2>2, MeaningsTyped, ServerAssumption DEF ServerInv, TypeOK
    <2>4. Broken(c) \/ (~m.valid /\ m.percent)
        BY <2>1 DEF Send
    <2> QED
        BY <2>2, <2>3, <2>4 DEF Unsurvived
<1>2. CASE Receive(c) \/ ReceiveNothing(c) \/ ReceiveFails(c) \/ Drain(c) \/ HandlerReturns(c)
    BY <1>2 DEF Receive, ReceiveNothing, ReceiveFails, Drain, HandlerReturns
<1>3. CASE Refuse(c) \/ Preflight(c) \/ Route(c) \/ HandlerAnswers(c)
    BY <1>3 DEF Refuse, Preflight, Route, HandlerAnswers, Send
<1>4. CASE OverrunBody(c)
    <2>1. UNCHANGED meaning /\ pc[c] = "drain"
        BY <1>4 DEF OverrunBody
    <2> QED
        BY <2>1 DEF Unsurvived, MeaningInv
<1>5. CASE HandlerDies(c)
    <2>1. UNCHANGED meaning /\ pc[c] = "handle" /\ HandlersMayDie
        BY <1>5 DEF HandlerDies
    <2> QED
        BY <2>1 DEF Unsurvived, MeaningInv
<1> QED
    BY <1>1, <1>2, <1>3, <1>4, <1>5 DEF HandleClientRequest, UpToHandler

CauseOfDeath ==
    up /\ ~up' =>
        \/ \E c \in Running : Broken(c) \/ (meaning'[c] # None /\ Unsurvived(meaning'[c]))
        \/ heap = MaxHeap /\ (Cardinality(open) = MaxHeap \/ Cardinality(open) >= MaxFds)

LEMMA DiesStep ==
    ASSUME ServerInv, CountInv, \A c \in Clients : MeaningInv(c), [Next]_vars
    PROVE  CauseOfDeath
<1> SUFFICES ASSUME up, ~up'
             PROVE  CauseOfDeath
    BY DEF CauseOfDeath
<1>1. CASE OutOfMemory
    BY <1>1 DEF OutOfMemory, CountInv, CauseOfDeath
<1>2. CASE Accept \/ AcceptFails \/ Restart \/ UNCHANGED vars
    BY <1>2 DEF Accept, ContinueOnError, AcceptFails, Restart, vars, process
<1>3. ASSUME NEW c \in Clients, Client(c)
      PROVE  FALSE
    BY <1>3 DEF Client, Connect, SendPiece, Close, Reset, process
<1>4. ASSUME NEW c \in Clients, HandleClientRequest(c) \/ OverrunBody(c) \/ HandlerDies(c)
      PROVE  CauseOfDeath
    BY <1>4, ThreadCause DEF CauseOfDeath
<1> QED
    BY <1>1, <1>2, <1>3, <1>4 DEF Next, Main


-----------------------------------------------------------------------------
(* Paths *)

\* What find_route finds below n, in a tree of a root and its leaves.
Found(n, s) == IF n = s THEN n ELSE IF n = "" /\ s \in Nodes THEN s ELSE None

LEMMA Tree ==
    /\ DOMAIN children[""] = {1, 2}
    /\ children[""][1] = "create-repo" /\ children[""][2] = "authorize"
    /\ \A n \in Nodes \ {""} : DOMAIN children[n] = {}
<1>1. children[""] = <<"create-repo", "authorize">>
    <2>1. "" \in Nodes
        BY DEF Nodes
    <2> QED
        BY <2>1 DEF children
<1>2. \A n \in Nodes \ {""} : children[n] = <<>>
    BY DEF children
<1>3. DOMAIN <<"create-repo", "authorize">> = {1, 2} /\ DOMAIN <<>> = {}
    OBVIOUS
<1>4. DOMAIN children[""] = {1, 2}
    BY <1>1, <1>3, Zenon
<1>5. children[""][1] = "create-repo" /\ children[""][2] = "authorize"
    <2>1. /\ <<"create-repo", "authorize">>[1] = "create-repo"
          /\ <<"create-repo", "authorize">>[2] = "authorize"
        OBVIOUS
    <2> QED
        BY <1>1, <2>1, Zenon
<1>6. \A n \in Nodes \ {""} : DOMAIN children[n] = {}
    BY <1>2, <1>3, Zenon
<1> QED
    BY <1>4, <1>5, <1>6

LEMMA FirstOfNone ==
    ASSUME NEW below, DOMAIN below = {}
    PROVE  FirstOf(below) = None
  BY DEF FirstOf

LEMMA FirstOfTwo ==
  ASSUME NEW below, DOMAIN below = {1, 2}
  PROVE  FirstOf(below) = IF below[1] # None THEN below[1] ELSE below[2]
<1> DEFINE found == {i \in DOMAIN below : below[i] # None}
           least == CHOOSE i \in found : \A j \in found : i <= j
<1>1. FirstOf(below) = IF found = {} THEN None ELSE below[least]
  BY DEF FirstOf
<1>2. CASE below[1] # None
  <2>1. 1 \in found /\ \A j \in found : 1 <= j
    BY <1>2
  <2>2. least \in found /\ \A j \in found : least <= j
    BY <2>1
  <2>3. least = 1
    BY <2>1, <2>2
  <2> QED BY <2>1, <2>3, <1>1, <1>2
<1>3. CASE below[1] = None /\ below[2] # None
  <2>1. found = {2} BY <1>3
  <2>2. least = 2 BY <2>1
  <2> QED BY <2>1, <2>2, <1>1, <1>3
<1>4. CASE below[1] = None /\ below[2] = None
  <2>1. found = {} BY <1>4
  <2> QED BY <2>1, <1>1, <1>4
<1> QED BY <1>2, <1>3, <1>4

LEMMA FindRoute ==
    ASSUME NEW s \in Segments
    PROVE  \A n \in Nodes : find_route(n, s) = Found(n, s)
<1> DEFINE Branch(g, n) ==
              IF n = s THEN n ELSE FirstOf([i \in DOMAIN children[n] |-> g[children[n][i]]])
           P(g) == g = [n \in Nodes |-> Branch(g, n)]
           f == [n \in Nodes |-> Found(n, s)]
<1>1. s # "" /\ (s \in Nodes => s \in {"create-repo", "authorize"}) /\ None \notin Nodes
    BY RouterAssumption DEF Segments, Nodes
<1>2. ASSUME NEW g, \A n \in Nodes \ {""} : g[n] = IF n = s THEN n ELSE None
      PROVE  Branch(g, "") = Found("", s)
    <2> DEFINE below == [i \in DOMAIN children[""] |-> g[children[""][i]]]
    <2>1. DOMAIN below = {1, 2} /\ below[1] = g["create-repo"] /\ below[2] = g["authorize"]
        BY Tree
    <2>2. Branch(g, "") = IF g["create-repo"] # None THEN g["create-repo"] ELSE g["authorize"]
        BY <1>1, <2>1, FirstOfTwo
    <2>3. /\ g["create-repo"] = IF "create-repo" = s THEN "create-repo" ELSE None
          /\ g["authorize"] = IF "authorize" = s THEN "authorize" ELSE None
        BY <1>2 DEF Nodes
    <2> HIDE DEF Branch
    <2> QED
        BY <1>1, <2>2, <2>3 DEF Found, Nodes
<1>3. ASSUME NEW g, NEW n \in Nodes \ {""}
      PROVE  Branch(g, n) = IF n = s THEN n ELSE None
    <2>1. DOMAIN children[n] = {}
        BY Tree
    <2> DEFINE below == [i \in DOMAIN children[n] |-> g[children[n][i]]]
    <2>2. DOMAIN below = {}
        BY <2>1
    <2>3. FirstOf(below) = None
        BY <2>2, FirstOfNone
    <2> QED
        BY <2>3, Zenon
<1>4. P(f)
    <2>1. \A n \in Nodes \ {""} : f[n] = IF n = s THEN n ELSE None
        BY DEF Found
    <2>2. Branch(f, "") = Found("", s)
        BY <1>2, <2>1
    <2>3. \A n \in Nodes \ {""} : Branch(f, n) = Found(n, s)
        BY <1>3, <2>1 DEF Found
    <2> HIDE DEF Branch
    <2>4. \A n \in Nodes : Branch(f, n) = Found(n, s)
        BY <2>2, <2>3
    <2> QED
        BY <2>4
<1>5. P(CHOOSE g : P(g))
    <2> HIDE DEF P
    <2> QED
        BY <1>4, Zenon
<1>6. \A n : find_route(n, s) = (CHOOSE g : P(g))[n]
    BY DEF find_route
<1>7. PICK g : P(g) /\ \A n : find_route(n, s) = g[n]
    <2> HIDE DEF P
    <2> QED
        BY <1>5, <1>6, Zenon
<1> HIDE DEF Branch
<1>8. \A n \in Nodes : g[n] = Branch(g, n)
    BY <1>7
<1>9. \A n \in Nodes \ {""} : g[n] = IF n = s THEN n ELSE None
    BY <1>3, <1>8
<1>10. g[""] = Found("", s)
    BY <1>2, <1>8, <1>9 DEF Nodes
<1> QED
    BY <1>7, <1>9, <1>10 DEF Found

LEMMA Least ==
    ASSUME NEW S \in SUBSET Nat, S # {}
    PROVE  \E m \in S : \A k \in S : m <= k
<1> DEFINE R == OpToRel(<, Nat)
<1>1. IsWellFoundedOn(R, Nat)
    BY NatLessThanWellFounded
<1>2. \A x, y \in Nat : y < x => <<y, x>> \in R
    BY DEF OpToRel
<1> HIDE DEF R
<1>3. PICK m \in S : \A k \in S : <<k, m>> \notin R
    BY <1>1, WFMin
<1>4. \A k \in S : ~(k < m) /\ k \in Nat /\ m \in Nat
    BY <1>2, <1>3
<1> QED
    BY <1>4

\* Where the walk along p stands after i of its segments.
Stands(p, i) ==
    IF i = 0 THEN "" ELSE IF \A j \in 1..i : p[j] = p[1] /\ p[j] \in Nodes THEN p[1] ELSE None

LEMMA StandsNext ==
    ASSUME NEW p \in Seq(Segments), NEW i \in 1..Len(p)
    PROVE  /\ Stands(p, i - 1) \in Nodes \cup {None}
           /\ Stands(p, i) = IF Stands(p, i - 1) = None THEN None
                             ELSE find_route(Stands(p, i - 1), p[i])
<1>1. p[i] \in Segments /\ p[1] \in Segments /\ i - 1 \in Nat /\ Len(p) \in Nat
    OBVIOUS
<1>2. None \notin Nodes /\ p[i] # "" /\ "" \in Nodes
    BY <1>1, RouterAssumption DEF Segments, Nodes
<1>3. CASE i = 1
    <2>1. Stands(p, 0) = ""
        BY DEF Stands
    <2>2. find_route("", p[1]) = IF p[1] \in Nodes THEN p[1] ELSE None
        BY <1>1, <1>2, <1>3, FindRoute DEF Found
    <2>3. Stands(p, 1) = IF p[1] \in Nodes THEN p[1] ELSE None
        BY DEF Stands
    <2>4. Stands(p, i - 1) = "" /\ p[i] = p[1] /\ Stands(p, i) = Stands(p, 1)
        <3>1. i - 1 = 0
            BY <1>3
        <3> QED
            BY <1>3, <2>1, <3>1, Zenon
    <2> HIDE DEF Stands
    <2> QED
        BY <1>2, <2>2, <2>3, <2>4
<1>4. CASE i # 1
    <2> DEFINE All(k) == \A j \in 1..k : p[j] = p[1] /\ p[j] \in Nodes
    <2>1. i - 1 # 0 /\ i # 0 /\ 1 \in 1..(i - 1)
        BY <1>1, <1>4
    <2>2. Stands(p, i - 1) = IF All(i - 1) THEN p[1] ELSE None
        BY <2>1 DEF Stands
    <2>3. Stands(p, i) = IF All(i) THEN p[1] ELSE None
        BY <2>1 DEF Stands
    <2>4. All(i) <=> All(i - 1) /\ p[i] = p[1] /\ p[i] \in Nodes
        BY <1>1
    <2>5. All(i - 1) => p[1] \in Nodes \ {""}
        BY <1>1, <2>1, RouterAssumption DEF Segments, Nodes
    <2>6. All(i - 1) => find_route(p[1], p[i]) = IF p[1] = p[i] THEN p[1] ELSE None
        BY <1>1, <2>5, FindRoute DEF Found
    <2> HIDE DEF All
    <2> QED
        BY <1>2, <2>2, <2>3, <2>4, <2>5, <2>6
<1> QED
    BY <1>3, <1>4

LEMMA WalkStands ==
    ASSUME NEW p \in Seq(Segments)
    PROVE  \A i \in 0..Len(p) : Walk(p)[i] = Stands(p, i)
<1> DEFINE Branch(g, i) ==
              IF i = 0 THEN "" ELSE IF g[i - 1] = None THEN None ELSE find_route(g[i - 1], p[i])
           P(g) == g = [i \in 0..Len(p) |-> Branch(g, i)]
           f == [i \in 0..Len(p) |-> Stands(p, i)]
<1>1. P(f)
    <2>1. ASSUME NEW i \in 0..Len(p)
          PROVE  Branch(f, i) = Stands(p, i)
        <3>1. CASE i = 0
            BY <3>1 DEF Stands
        <3>2. CASE i # 0
            <4>1. i \in 1..Len(p) /\ i - 1 \in 0..Len(p)
                BY <3>2
            <4>2. f[i - 1] = Stands(p, i - 1)
                BY <4>1
            <4> HIDE DEF f
            <4> QED
                BY <3>2, <4>1, <4>2, StandsNext
        <3> QED
            BY <3>1, <3>2
    <2> HIDE DEF Branch
    <2> QED
        BY <2>1
<1>2. Walk(p) = CHOOSE g : P(g)
    BY DEF Walk
<1>3. P(Walk(p))
    <2> HIDE DEF P
    <2> QED
        BY <1>1, <1>2, Zenon
<1> DEFINE w == Walk(p)
<1> HIDE DEF Branch
<1>4. \A i \in 0..Len(p) : w[i] = Branch(w, i)
    BY <1>3
<1> HIDE DEF w
<1>5. ASSUME NEW i \in 1..Len(p), w[i - 1] = Stands(p, i - 1)
      PROVE  w[i] = Stands(p, i)
    <2>1. w[i] = Branch(w, i)
        BY <1>4
    <2>2. i # 0
        OBVIOUS
    <2> QED
        BY <1>5, <2>1, <2>2, StandsNext DEF Branch
<1>6. w[0] = Stands(p, 0)
    <2>1. w[0] = Branch(w, 0)
        BY <1>4
    <2> QED
        BY <2>1 DEF Branch, Stands
<1> SUFFICES ASSUME NEW b \in 0..Len(p), w[b] # Stands(p, b)
             PROVE  FALSE
    BY DEF w
<1> DEFINE S == {i \in 0..Len(p) : w[i] # Stands(p, i)}
<1>7. S \in SUBSET Nat /\ S # {}
    OBVIOUS
<1>8. PICK m \in S : \A k \in S : m <= k
    <2> HIDE DEF S
    <2> QED
        BY <1>7, Least
<1>9. m \in 1..Len(p)
    BY <1>6, <1>8
<1>10. m - 1 \notin S /\ m - 1 \in 0..Len(p)
    BY <1>8, <1>9
<1> QED
    BY <1>5, <1>8, <1>9, <1>10

\* A path without segments, or with an unknown one, or with two different ones, is not
\* routed; any other goes to the handler of its name.
LEMMA RoutesNames ==
    ASSUME NEW p \in Seq(Segments)
    PROVE  /\ IsNamed(p) => RouteRequest(p) = handler[p[1]]
           /\ RouteRequest(p) = None <=> ~IsNamed(p)
<1>1. Len(p) \in Nat /\ DOMAIN p = 1..Len(p) /\ (p = <<>> <=> Len(p) = 0)
    BY EmptySeq
<1>2. CASE p = <<>>
    BY <1>2 DEF RouteRequest, IsNamed
<1>3. CASE p # <<>>
    <2>1. Walk(p)[Len(p)] = Stands(p, Len(p)) /\ Len(p) # 0 /\ 1 \in 1..Len(p)
        BY <1>1, <1>3, WalkStands
    <2>2. Stands(p, Len(p)) = IF IsNamed(p) THEN p[1] ELSE None
        BY <1>1, <1>3, <2>1 DEF Stands, IsNamed
    <2>3. IsNamed(p) => p[1] \in Nodes /\ p[1] # None /\ handler[p[1]] # None
        <3>1. IsNamed(p) => p[1] \in Nodes
            BY <1>1, <2>1 DEF IsNamed
        <3>2. \A n \in Nodes : handler[n] # None
            BY RouterAssumption
        <3> QED
            BY <3>1, <3>2, RouterAssumption
    <2>4. RouteRequest(p) = IF Walk(p)[Len(p)] = None THEN None ELSE handler[Walk(p)[Len(p)]]
        BY <1>3 DEF RouteRequest
    <2> QED
        BY <2>1, <2>2, <2>3, <2>4
<1> QED
    BY <1>2, <1>3

Parsed == {"drain", "preflight", "route", "handle"}

ReplyTrue(c, r) ==
    /\ r = "handled" => IsNamed(meaning[c].path)
    /\ r = "not found" => ~IsNamed(meaning[c].path)

\* What was parsed stays what it is until the thread ends, and what is answered about
\* its path is true of it.
NamesOf(c) ==
    /\ pc[c] \in Parsed => meaning[c] \in Request
    /\ pc[c] = "handle" => IsNamed(meaning[c].path)
    /\ \A i \in DOMAIN replies[c] : ReplyTrue(c, replies[c][i])

LEMMA NamesKept ==
    ASSUME NEW c, NamesOf(c), meaning'[c] = meaning[c], replies'[c] = replies[c],
           pc'[c] = pc[c] \/ pc'[c] \notin Parsed
    PROVE  NamesOf(c)'
BY DEF NamesOf, ReplyTrue, Parsed

LEMMA NamesSent ==
    ASSUME ServerInv, NEW c \in Clients, NamesOf(c), NEW r \in Replies, NEW label,
           Send(c, r, label), pc[c] \in Threads, meaning' = meaning, ReplyTrue(c, r),
           label \notin Parsed \/ (label = "route" /\ meaning[c] \in Request)
    PROVE  /\ NamesOf(c)'
           /\ \A d \in Clients \ {c} :
                 replies'[d] = replies[d] /\ pc'[d] \in {pc[d], "dead"}
<1> USE DEF ServerInv, TypeOK
<1>1. replies[c] \in Seq(Replies) /\ request[c] # None
    BY DEF ClientInv, Threads
<1>2. replies'[c] = replies[c] \/ replies'[c] = Append(replies[c], r)
    BY DEF Send
<1>3. pc'[c] = label \/ pc'[c] = "dead"
    BY <1>1 DEF Send, Goto, Die, Threads
<1>4. ASSUME NEW i \in DOMAIN replies'[c]
      PROVE  ReplyTrue(c, replies'[c][i])
    <2>1. CASE replies'[c] = replies[c]
        BY <2>1 DEF NamesOf
    <2>2. CASE replies'[c] = Append(replies[c], r)
        <3>1. \/ i \in DOMAIN replies[c] /\ replies'[c][i] = replies[c][i]
              \/ replies'[c][i] = r
            BY <1>1, <2>2
        <3> QED
            BY <3>1 DEF NamesOf
    <2> QED
        BY <1>2, <2>1, <2>2
<1>5. NamesOf(c)'
    <2>1. (\A i \in DOMAIN replies[c] : ReplyTrue(c, replies[c][i]))'
        <3> SUFFICES ASSUME NEW i \in DOMAIN replies'[c]
                     PROVE  ReplyTrue(c, replies[c][i])'
            OBVIOUS
        <3> QED
            BY <1>4 DEF ReplyTrue
    <2> QED
        BY <1>3, <2>1 DEF NamesOf, Parsed
<1>6. \A d \in Clients \ {c} : replies'[d] = replies[d] /\ pc'[d] \in {pc[d], "dead"}
    BY DEF Send, Goto, Die
<1> QED
    BY <1>5, <1>6

LEMMA NamesStep ==
    ASSUME ServerInv, \A c \in Clients : NamesOf(c), [Next]_vars
    PROVE  \A c \in Clients : NamesOf(c)'
<1> USE DEF ServerInv, TypeOK, process, thread, client, socket
<1>1. ASSUME UNCHANGED <<meaning, replies>>,
             \A c \in Clients : pc'[c] = pc[c] \/ pc'[c] \notin Parsed
      PROVE  \A c \in Clients : NamesOf(c)'
    BY <1>1, NamesKept
<1>2. ASSUME NEW c \in Clients, NEW r \in Replies, NEW label, Send(c, r, label),
             pc[c] \in Threads, meaning' = meaning, ReplyTrue(c, r),
             label \notin Parsed \/ (label = "route" /\ meaning[c] \in Request)
      PROVE  \A d \in Clients : NamesOf(d)'
    <2>1. /\ NamesOf(c)'
          /\ \A d \in Clients \ {c} :
                replies'[d] = replies[d] /\ pc'[d] \in {pc[d], "dead"}
        BY <1>2, NamesSent
    <2> QED
        BY <1>2, <2>1, NamesKept DEF Parsed
<1>3. CASE Main \/ Restart
    <2>1. UNCHANGED <<meaning, replies>>
        BY <1>3 DEF Main, Restart, Accept, AcceptFails, OutOfMemory
    <2>2. \A c \in Clients : pc'[c] = pc[c] \/ pc'[c] \notin Parsed
        BY <1>3 DEF Main, Restart, Accept, AcceptFails, OutOfMemory, Goto, ContinueOnError,
                    Die, Parsed
    <2> QED
        BY <1>1, <2>1, <2>2
<1>4. ASSUME NEW c \in Clients, Client(c)
      PROVE  \A d \in Clients : NamesOf(d)'
    <2>1. UNCHANGED <<meaning, replies, pc>>
        BY <1>4 DEF Client, Connect, SendPiece, Close, Reset
    <2> QED
        BY <1>1, <2>1
<1>5. ASSUME NEW c \in Clients, Receive(c) \/ ReceiveNothing(c) \/ ReceiveFails(c) \/ HandlerReturns(c)
      PROVE  \A d \in Clients : NamesOf(d)'
    <2>1. UNCHANGED <<meaning, replies>>
        BY <1>5 DEF Receive, ReceiveNothing, ReceiveFails, HandlerReturns
    <2>2. \A d \in Clients : pc'[d] = pc[d] \/ pc'[d] \notin Parsed
        BY <1>5 DEF Receive, ReceiveNothing, ReceiveFails, HandlerReturns, Goto, Parsed
    <2> QED
        BY <1>1, <2>1, <2>2
<1>6. ASSUME NEW c \in Clients, Refuse(c)
      PROVE  \A d \in Clients : NamesOf(d)'
    <2>1. ReplyTrue(c, "no bytes")
        BY DEF ReplyTrue
    <2>2. /\ Send(c, "no bytes", "done") /\ pc[c] \in Threads /\ meaning' = meaning
          /\ "no bytes" \in Replies /\ "done" \notin Parsed
        BY <1>6 DEF Refuse, Replies, Threads, Parsed
    <2> QED
        BY <1>2, <2>1, <2>2, Zenon
<1>7. ASSUME NEW c \in Clients, Parse(c)
      PROVE  \A d \in Clients : NamesOf(d)'
    <2>1. PICK m \in Meanings(c) :
             /\ meaning' = [meaning EXCEPT ![c] = m]
             /\ \/ m.valid /\ Goto(c, AfterParse(m)) /\ UNCHANGED <<process, socket>>
                \/ ~m.valid /\ Send(c, "bad request", AfterBadRequest) /\ UNCHANGED peer
                \/ ~m.valid /\ m.percent /\ Die /\ UNCHANGED socket
        BY <1>7 DEF Parse
    <2>2. replies[c] = <<>> /\ request[c] # None /\ pc[c] = "parse"
        BY <1>7 DEF Parse, ClientInv, BeforeAnswer
    <2>3. m \in Request /\ meaning'[c] = m
        BY <2>1, <2>2, MeaningsTyped
    <2>4. \A d \in Clients \ {c} : meaning'[d] = meaning[d]
        BY <2>1
    <2>5. CASE m.valid
        <3>1. \A d \in Clients \ {c} : pc'[d] = pc[d] /\ replies'[d] = replies[d]
            BY <2>1, <2>5 DEF Goto
        <3>2. pc'[c] # "handle" /\ replies'[c] = <<>>
            BY <2>1, <2>2, <2>5 DEF Goto, AfterParse
        <3>3. DOMAIN replies'[c] = {}
            BY <3>2
        <3>4. NamesOf(c)'
            BY <2>3, <3>2, <3>3 DEF NamesOf
        <3> QED
            BY <2>4, <3>1, <3>4, NamesKept
    <2>7. CASE Die /\ UNCHANGED socket
        <3>1. /\ \A d \in Clients : replies'[d] = replies[d] /\ pc'[d] \in {pc[d], "dead"}
              /\ pc'[c] = "dead"
            BY <2>2, <2>7 DEF Die
        <3>2. DOMAIN replies'[c] = {}
            BY <2>2, <3>1
        <3>3. NamesOf(c)'
            BY <3>1, <3>2 DEF NamesOf, Parsed
        <3> QED
            BY <2>4, <3>1, <3>3, NamesKept DEF Parsed
    <2>6. CASE Send(c, "bad request", AfterBadRequest)
        <3>1. Send(c, "bad request", "done")
            BY <2>6 DEF AfterBadRequest
        <3>2. \A d \in Clients \ {c} : replies'[d] = replies[d] /\ pc'[d] \in {pc[d], "dead"}
            BY <3>1 DEF Send, Goto, Die
        <3>3. pc'[c] \in {"done", "dead"}
            BY <2>2, <3>1 DEF Send, Goto, Die
        <3>4. replies'[c] = <<>> \/ replies'[c] = Append(<<>>, "bad request")
            BY <2>2, <3>1 DEF Send
        <3>5. \A i \in DOMAIN replies'[c] : replies'[c][i] = "bad request"
            <4>1. DOMAIN Append(<<>>, "bad request") = {1} /\ DOMAIN <<>> = {}
                OBVIOUS
            <4>2. Append(<<>>, "bad request")[1] = "bad request"
                OBVIOUS
            <4> QED
                BY <3>4, <4>1, <4>2, Zenon
        <3>6. NamesOf(c)'
            BY <3>3, <3>5 DEF NamesOf, ReplyTrue, Parsed
        <3> QED
            BY <2>4, <3>2, <3>6, NamesKept DEF Parsed
    <2> QED
        BY <2>1, <2>5, <2>6, <2>7
<1>8. ASSUME NEW c \in Clients, Drain(c)
      PROVE  \A d \in Clients : NamesOf(d)'
    <2>1. /\ UNCHANGED <<meaning, replies>> /\ pc[c] = "drain"
          /\ \A d \in Clients \ {c} : pc'[d] = pc[d]
          /\ pc'[c] \in {"preflight", "route"}
        BY <1>8 DEF Drain, Goto
    <2>2. NamesOf(c)'
        BY <2>1 DEF NamesOf, ReplyTrue, Parsed
    <2> QED
        BY <2>1, <2>2, NamesKept
<1>9. ASSUME NEW c \in Clients, Preflight(c)
      PROVE  \A d \in Clients : NamesOf(d)'
    <2>1. meaning[c] \in Request
        BY <1>9 DEF Preflight, NamesOf, Parsed
    <2> QED
        BY <1>2, <1>9, <2>1 DEF Preflight, ReplyTrue, Replies, Threads
<1>10. ASSUME NEW c \in Clients, Route(c)
       PROVE  \A d \in Clients : NamesOf(d)'
    <2>1. pc[c] = "route" /\ meaning' = meaning /\ meaning[c] \in Request
        BY <1>10 DEF Route, NamesOf, Parsed
    <2>2. meaning[c].path \in Seq(Segments)
        BY <2>1 DEF Request
    <2>3. CASE RouteRequest(meaning[c].path) = None
        <3>1. ~IsNamed(meaning[c].path)
            BY <2>2, <2>3, RoutesNames
        <3>2. Send(c, "not found", "done")
            BY <1>10, <2>3 DEF Route
        <3> QED
            BY <1>2, <2>1, <3>1, <3>2 DEF ReplyTrue, Replies, Threads, Parsed
    <2>4. CASE RouteRequest(meaning[c].path) # None
        <3>1. IsNamed(meaning[c].path)
            BY <2>2, <2>4, RoutesNames
        <3>2. /\ UNCHANGED replies /\ pc'[c] = "handle"
              /\ \A d \in Clients \ {c} : pc'[d] = pc[d]
            BY <1>10, <2>4 DEF Route, Goto
        <3>3. NamesOf(c)'
            BY <2>1, <3>1, <3>2 DEF NamesOf, ReplyTrue
        <3> QED
            BY <2>1, <3>2, <3>3, NamesKept
    <2> QED
        BY <2>3, <2>4
<1>11. ASSUME NEW c \in Clients, HandlerAnswers(c)
       PROVE  \A d \in Clients : NamesOf(d)'
    <2>1. IsNamed(meaning[c].path)
        BY <1>11 DEF HandlerAnswers, NamesOf
    <2> QED
        <3>1. ReplyTrue(c, "handled")
            BY <2>1 DEF ReplyTrue
        <3>2. /\ Send(c, "handled", "done") /\ pc[c] \in Threads /\ meaning' = meaning
              /\ "handled" \in Replies /\ "done" \notin Parsed
            BY <1>11 DEF HandlerAnswers, Replies, Threads, Parsed
        <3> QED
            BY <1>2, <3>1, <3>2, Zenon
<1>13. ASSUME NEW c \in Clients, OverrunBody(c) \/ HandlerDies(c)
       PROVE  \A d \in Clients : NamesOf(d)'
    BY <1>1, <1>13 DEF OverrunBody, HandlerDies, Die, Parsed
<1>12. CASE UNCHANGED vars
    BY <1>1, <1>12 DEF vars
<1> QED
    BY <1>13, <1>3, <1>4, <1>5, <1>6, <1>7, <1>8, <1>9, <1>10, <1>11, <1>12
       DEF Next, HandleClientRequest, UpToHandler

-----------------------------------------------------------------------------
(* What is final: Service builds on these. *)

\* A client whose thread is done gets no more, and its connection is closed.
LEMMA DoneStays ==
    ASSUME ServerInv, [Next]_vars, NEW c \in Clients, pc[c] = "done"
    PROVE  pc'[c] = "done" /\ peer'[c] = peer[c] /\ replies'[c] = replies[c]
<1> USE DEF ServerInv, TypeOK, client, socket, thread, process
<1>1. CASE Accept
    <2>1. Head(queue) = queue[1] /\ 1 \in DOMAIN queue
        BY <1>1, EmptySeq DEF Accept
    <2>2. Head(queue) # c /\ pc'[c] = pc[c]
        BY <1>1, <2>1 DEF Accept, QueueInv, Goto, ContinueOnError
    <2> QED
        BY <1>1, <2>2 DEF Accept
<1>2. CASE AcceptFails \/ OutOfMemory \/ Restart
    BY <1>2 DEF AcceptFails, OutOfMemory, Restart, Die
<1>3. ASSUME NEW d \in Clients, Client(d)
      PROVE  pc'[c] = "done" /\ peer'[c] = peer[c] /\ replies'[c] = replies[c]
    <2>1. d # c
        BY <1>3 DEF Client, Connect, SendPiece, Close, Reset, Served, ClientInv
    <2> QED
        BY <1>3, <2>1 DEF Client, Connect, SendPiece, Close, Reset
<1>4. ASSUME NEW d \in Clients, HandleClientRequest(d)
      PROVE  pc'[c] = "done" /\ peer'[c] = peer[c] /\ replies'[c] = replies[c]
    <2>1. d # c
        BY <1>4 DEF HandleClientRequest, UpToHandler, Receive, ReceiveNothing, ReceiveFails,
           Refuse, Parse, Drain, Preflight, Route, HandlerAnswers, HandlerReturns
    <2> QED
        BY <1>4, <2>1, ZenonT(40) DEF HandleClientRequest, UpToHandler, Receive, ReceiveNothing,
           ReceiveFails, Refuse, Parse, Drain, Preflight, Route, HandlerAnswers,
           HandlerReturns, Send, Goto, Die
<1>5. ASSUME NEW d \in Clients, OverrunBody(d) \/ HandlerDies(d)
      PROVE  pc'[c] = "done" /\ peer'[c] = peer[c] /\ replies'[c] = replies[c]
    BY <1>5 DEF OverrunBody, HandlerDies, Die
<1>6. CASE UNCHANGED vars
    BY <1>6 DEF vars
<1> QED
    BY <1>1, <1>2, <1>3, <1>4, <1>5, <1>6 DEF Next, Main

\* Only a handler answers with what a handler has to say.
LEMMA RepliesStep ==
    ASSUME TypeOK,
           \/ Main \/ Restart
           \/ \E d \in Clients : Client(d) \/ UpToHandler(d) \/ OverrunBody(d) \/ HandlerDies(d),
           NEW c \in Clients
    PROVE  \/ replies'[c] = replies[c]
           \/ \E r \in Replies \ {"handled"} : replies'[c] = Append(replies[c], r)
<1> USE DEF TypeOK, client, socket, thread, process
<1>1. CASE Main \/ Restart \/ \E d \in Clients : Client(d)
    BY <1>1 DEF Main, Restart, Accept, AcceptFails, OutOfMemory, Client, Connect, SendPiece,
                Close, Reset
<1>2. ASSUME NEW d \in Clients,
             \/ Receive(d) \/ ReceiveNothing(d) \/ ReceiveFails(d) \/ Drain(d)
             \/ OverrunBody(d) \/ HandlerDies(d)
      PROVE  replies'[c] = replies[c]
    BY <1>2 DEF Receive, ReceiveNothing, ReceiveFails, Drain, OverrunBody, HandlerDies
<1>3. ASSUME NEW d \in Clients, Refuse(d) \/ Parse(d) \/ Preflight(d) \/ Route(d)
      PROVE  \/ replies' = replies
             \/ \E r \in Replies \ {"handled"} :
                   replies' = [replies EXCEPT ![d] = Append(@, r)]
    BY <1>3 DEF Refuse, Parse, Preflight, Route, Send, Replies, AfterBadRequest
<1> QED
    BY <1>1, <1>2, <1>3 DEF UpToHandler

\* Short of a handler that returns silently, a thread is done with a client that holds
\* its connection only when it has sent it something.
LEMMA DoneIsAnswered ==
    ASSUME ServerInv, NEW c \in Clients, pc[c] # "done", pc'[c] = "done",
           peer'[c] = "connected",
           \/ Main \/ Restart
           \/ \E d \in Clients :
                 \/ Client(d) \/ UpToHandler(d) \/ HandlerAnswers(d)
                 \/ OverrunBody(d) \/ HandlerDies(d)
    PROVE  replies'[c] # <<>>
<1> USE DEF ServerInv, TypeOK, client, socket, thread, process
<1>1. CASE Main \/ Restart \/ \E d \in Clients : Client(d)
    BY <1>1 DEF Main, Restart, Accept, AcceptFails, OutOfMemory, Client, Connect, SendPiece,
                Close, Reset, Goto, ContinueOnError, Die
<1>2. ASSUME NEW d \in Clients, OverrunBody(d) \/ HandlerDies(d)
      PROVE  FALSE
    BY <1>2 DEF OverrunBody, HandlerDies, Die
<1>3. ASSUME NEW d \in Clients, NEW r \in Replies, NEW label, Send(d, r, label), UNCHANGED peer
      PROVE  replies'[c] # <<>>
    <2>1. d = c /\ ~Broken(c)
        BY <1>3 DEF Send, Goto, Die, Broken
    <2>2. replies'[c] = Append(replies[c], r)
        BY <1>3, <2>1 DEF Send, Broken
    <2>3. Append(replies[c], r) # <<>>
        BY <1>3, ReplyLengths
    <2> QED
        BY <2>2, <2>3
<1>4. ASSUME NEW d \in Clients, UpToHandler(d) \/ HandlerAnswers(d)
      PROVE  replies'[c] # <<>>
    <2>1. CASE Receive(d) \/ ReceiveNothing(d) \/ ReceiveFails(d) \/ Drain(d)
        BY <2>1 DEF Receive, ReceiveNothing, ReceiveFails, Drain, Goto
    <2>2. CASE Refuse(d) \/ Preflight(d) \/ HandlerAnswers(d)
        BY <1>3, <2>2 DEF Refuse, Preflight, HandlerAnswers, Replies
    <2>3. CASE Parse(d)
        <3>1. PICK m \in Meanings(d) :
                  \/ Goto(d, AfterParse(m)) /\ UNCHANGED socket
                  \/ Send(d, "bad request", AfterBadRequest) /\ UNCHANGED peer
                  \/ Die
            BY <2>3 DEF Parse
        <3>2. CASE Goto(d, AfterParse(m)) /\ UNCHANGED socket
            BY <3>2 DEF AfterParse, Goto
        <3>3. CASE Send(d, "bad request", AfterBadRequest) /\ UNCHANGED peer
            BY <1>3, <3>3 DEF Replies
        <3>4. CASE Die
            BY <3>4 DEF Die
        <3> QED
            BY <3>1, <3>2, <3>3, <3>4
    <2>4. CASE Route(d)
        BY <1>3, <2>4 DEF Route, Goto, Replies
    <2> QED
        BY <1>4, <2>1, <2>2, <2>3, <2>4 DEF UpToHandler
<1> QED
    BY <1>1, <1>2, <1>4

-----------------------------------------------------------------------------
(* Theorems *)

\* The inductive invariant of the server holds in every behaviour.
THEOREM ServerInvariance == Spec => []ServerInv
<1>1. Init => ServerInv
    BY ServerInvInit
<1>2. ServerInv /\ [Next]_vars => ServerInv'
    BY ServerInvNext
<1> QED
    BY <1>1, <1>2, PTL DEF Spec

\* The server stays within its types; above all it never receives more than its
\* buffer holds, in however many pieces and whatever Content-Length says.
THEOREM ServerTypeCorrect == Spec => []TypeOK
<1>1. ServerInv => TypeOK
    BY DEF ServerInv
<1> QED
    BY <1>1, ServerInvariance, PTL

\* No thread routes or answers a request it has received a part of, unless the
\* client ended it there or the buffer is full.
THEOREM ActsOnWholeRequestsAlways == Spec => []ActsOnWholeRequests
<1>1. ServerInv => ActsOnWholeRequests
    BY DEF ServerInv, ActsOnWholeRequests, ClientInv, Received, BehindReceive, PCs, Threads
<1> QED
    BY <1>1, ServerInvariance, PTL

\* A client gets one answer, or the preflight's and one more.
THEOREM AnswersInOrderAlways == Spec => []AnswersInOrder
<1>1. ServerInv => AnswersInOrder
    BY AnswersSoFar DEF ServerInv, AnswersInOrder
<1> QED
    BY <1>1, ServerInvariance, PTL

\* The process dies only in a thread whose client broke its connection or sent what the
\* code does not survive refusing, reading or handling, or at its limits, once as many
\* connections were accepted: no number of threads brings it down, and no client that
\* never sends, or ends, or sends what the code can read.
THEOREM DiesForCauseAlways == Spec => DiesForCause
<1> DEFINE Inv == CountInv /\ \A c \in Clients : MeaningInv(c)
<1>1. Init => Inv
    BY FS_EmptySet DEF Init, CountInv, MeaningInv
<1>2. ServerInv /\ Inv /\ [Next]_vars => Inv'
    <2>1. ASSUME ServerInv, Inv, [Next]_vars
          PROVE  CountInv' /\ \A c \in Clients : MeaningInv(c)'
        BY <2>1, CountInvStep, MeaningStep
    <2> QED
        BY <2>1
<1>3. ServerInv /\ Inv /\ [Next]_vars => [CauseOfDeath]_vars
    BY DiesStep
<1>4. [CauseOfDeath]_vars <=>
          [up /\ ~up' =>
             \/ \E c \in Running : Broken(c) \/ (meaning'[c] # None /\ Unsurvived(meaning'[c]))
             \/ heap = MaxHeap /\ (Cardinality(open) = MaxHeap \/ Cardinality(open) >= MaxFds)]_vars
    BY DEF CauseOfDeath
<1> HIDE DEF Inv, CauseOfDeath
<1> QED
    BY <1>1, <1>2, <1>3, <1>4, ServerInvariance, PTL DEF Spec, DiesForCause

\* Whatever segments a path has, its request gets to a handler exactly if they are all
\* one route's name, and to that route's; and nobody is told "No route found" whose
\* path is such, or gets an answer from a handler whose path is not.
THEOREM NamedIsRoutedAlways == Spec => []NamedIsRouted
<1>1. Init => \A c \in Clients : NamesOf(c)
    BY DEF Init, NamesOf, Parsed
<1>2. /\ ServerInv /\ (\A c \in Clients : NamesOf(c)) /\ [Next]_vars
      => (\A c \in Clients : NamesOf(c))'
    BY NamesStep
<1>3. Spec => [](\A c \in Clients : NamesOf(c))
    BY <1>1, <1>2, ServerInvariance, PTL DEF Spec
<1>4. (\A c \in Clients : NamesOf(c)) => NamedIsRouted
    <2> SUFFICES ASSUME NEW c \in Clients, NamesOf(c)
                 PROVE  /\ pc[c] = "handle" =>
                              IsNamed(meaning[c].path)
                              /\ RouteRequest(meaning[c].path) = handler[meaning[c].path[1]]
                        /\ \A i \in DOMAIN replies[c] : ReplyTrue(c, replies[c][i])
        BY DEF NamedIsRouted, ReplyTrue
    <2>1. pc[c] = "handle" => meaning[c].path \in Seq(Segments) /\ IsNamed(meaning[c].path)
        BY DEF NamesOf, Parsed, Request
    <2> QED
        BY <2>1, RoutesNames DEF NamesOf
<1> QED
    BY <1>3, <1>4, PTL
=============================================================================
