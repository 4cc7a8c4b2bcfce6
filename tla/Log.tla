--------------------------------- MODULE Log ---------------------------------
(***************************************************************************)
(* The logger of Wikigen-Auth (log.c): every thread of the server calls    *)
(* log_write, which puts a record into a line-buffered file and, for the   *)
(* levels ERROR and DEBUG, onto the unbuffered stderr, with three stdio    *)
(* calls each, under one mutex. The process may die between any two.       *)
(*                                                                         *)
(* Of what a call logs, only its level matters and whether the buffer is   *)
(* emptied in the middle of it: the message contains a newline, or it is   *)
(* longer than the buffer, as a request of the server's may be. Time       *)
(* stamps are left out.                                                    *)
(***************************************************************************)
EXTENDS Naturals, Sequences

CONSTANTS
    Threads,    \* the threads of the server, over all its restarts
    MaxCalls,   \* a bound on the calls of log_write a thread makes
    Levels,     \* the levels they log at
    Crashes,    \* TRUE if the process may die
    None        \* the owner of a free mutex

ASSUME LogAssumption ==
    /\ MaxCalls \in Nat
    /\ Levels \subseteq {"DEBUG", "INFO", "ERROR"}
    /\ Crashes \in BOOLEAN
    /\ None \notin Threads

Parts == {"head", "body", "end"}
Call == [by : Threads, number : 1..MaxCalls, level : Levels, spills : BOOLEAN]
Chunk == [call : Call, part : Parts]

VARIABLES
    g_log_file,   \* TRUE if log_init opened the file
    file,         \* the chunks put into the file, those still in its buffer last
    flushed,      \* how many of them left the buffer
    console,      \* the chunks written to stderr
    g_log_mutex,  \* the thread that owns the mutex, or None
    pc,           \* where each thread is in log_write
    calls,        \* how many calls each thread has made
    call          \* the last of them

vars == <<g_log_file, file, flushed, console, g_log_mutex, pc, calls, call>>
streams == <<file, flushed, console>>
args == <<calls, call>>

FilePCs == {"file_head", "file_body", "file_end"}
ErrPCs == {"err_head", "err_body", "err_end"}
LockedPCs == FilePCs \cup ErrPCs \cup {"unlock"}
PCs == {"idle", "lock", "dead"} \cup LockedPCs

TypeOK ==
    /\ g_log_file \in BOOLEAN
    /\ file \in Seq(Chunk)
    /\ flushed \in 0..Len(file)
    /\ console \in Seq(Chunk)
    /\ g_log_mutex \in Threads \cup {None}
    /\ pc \in [Threads -> PCs]
    /\ calls \in [Threads -> 0..MaxCalls]
    /\ call \in [Threads -> Call \cup {None}]

\* main calls log_init first and goes on whatever it returns.
Init ==
    /\ g_log_file \in BOOLEAN
    /\ file = <<>>
    /\ flushed = 0
    /\ console = <<>>
    /\ g_log_mutex = None
    /\ pc = [t \in Threads |-> "idle"]
    /\ calls = [t \in Threads |-> 0]
    /\ call = [t \in Threads |-> None]

-----------------------------------------------------------------------------

Goto(t, label) == pc' = [pc EXCEPT ![t] = label]

\* level == LOG_LEVEL_ERROR || level == LOG_LEVEL_DEBUG
IsLoud(c) == c.level \in {"ERROR", "DEBUG"}

\* pthread_mutex_lock and pthread_mutex_unlock.
AcquireUnchecked(t) == g_log_mutex' = t
Acquire(t) == g_log_mutex = None /\ g_log_mutex' = t
ReleaseForgotten(t) == UNCHANGED g_log_mutex
Release(t) == g_log_mutex' = None

\* _IOLBF: a newline empties the buffer, and so does a message that fills it, in
\* the middle of a line if need be; what stays of the message in the buffer counts
\* with the end of its record.
FlushesWhenFull(c, part) == part = "body" /\ c.spills
Flushes(c, part) == part = "end" \/ (part = "body" /\ c.spills)

PutFile(t, part) ==
    /\ file' = Append(file, [call |-> call[t], part |-> part])
    /\ flushed' = IF Flushes(call[t], part) THEN Len(file) + 1 ELSE flushed
    /\ UNCHANGED <<console, g_log_file, g_log_mutex, args>>

PutErr(t, part) ==
    /\ console' = Append(console, [call |-> call[t], part |-> part])
    /\ UNCHANGED <<file, flushed, g_log_file, g_log_mutex, args>>

LogWrite(t) ==
    /\ pc[t] = "idle"
    /\ calls[t] < MaxCalls
    /\ calls' = [calls EXCEPT ![t] = @ + 1]
    /\ \E l \in Levels, m \in BOOLEAN :
          call' = [call EXCEPT ![t] = [by |-> t, number |-> calls[t] + 1,
                                       level |-> l, spills |-> m]]
    /\ Goto(t, "lock")
    /\ UNCHANGED <<g_log_file, streams, g_log_mutex>>

AfterFileReturns(t) == "return"
AfterFile(t) == IF IsLoud(call[t]) THEN "err_head" ELSE "unlock"

Lock(t) ==
    /\ pc[t] = "lock"
    /\ Acquire(t)
    /\ Goto(t, IF g_log_file THEN "file_head" ELSE AfterFile(t))
    /\ UNCHANGED <<g_log_file, streams, args>>

FileHead(t) == pc[t] = "file_head" /\ PutFile(t, "head") /\ Goto(t, "file_body")
FileBody(t) == pc[t] = "file_body" /\ PutFile(t, "body") /\ Goto(t, "file_end")
FileEnd(t) == pc[t] = "file_end" /\ PutFile(t, "end") /\ Goto(t, AfterFile(t))

ErrHead(t) == pc[t] = "err_head" /\ PutErr(t, "head") /\ Goto(t, "err_body")
ErrBody(t) == pc[t] = "err_body" /\ PutErr(t, "body") /\ Goto(t, "err_end")
ErrEnd(t) == pc[t] = "err_end" /\ PutErr(t, "end") /\ Goto(t, "unlock")

Unlock(t) ==
    /\ pc[t] = "unlock"
    /\ Release(t)
    /\ Goto(t, "idle")
    /\ UNCHANGED <<g_log_file, streams, args>>

\* The process dies: the buffer of the file is lost. A new one calls log_init,
\* which appends to the same file; its threads have made no call yet.
Crash ==
    /\ Crashes
    /\ file' = SubSeq(file, 1, flushed)
    /\ g_log_file' \in BOOLEAN
    /\ g_log_mutex' = None
    /\ pc' = [t \in Threads |-> IF calls[t] = 0 THEN pc[t] ELSE "dead"]
    /\ UNCHANGED <<flushed, console, args>>

Step(t) ==
    \/ Lock(t)
    \/ FileHead(t) \/ FileBody(t) \/ FileEnd(t)
    \/ ErrHead(t) \/ ErrBody(t) \/ ErrEnd(t)
    \/ Unlock(t)

Next == (\E t \in Threads : LogWrite(t) \/ Step(t)) \/ Crash

Spec == Init /\ [][Next]_vars

\* Threads run on, and a free mutex is handed to somebody who waits for it.
FairSpec == Spec /\ \A t \in Threads : WF_vars(Step(t))

-----------------------------------------------------------------------------
(* Properties *)

Unmixed(s) ==
    \A i, j, k \in DOMAIN s :
        i < j /\ j < k /\ s[i].call = s[k].call => s[j].call = s[i].call

\* The pieces of two records never mix, neither in the file nor on stderr, over
\* every interleaving of the three stdio calls a record is written with.
RecordsUnmixed == Unmixed(file) /\ Unmixed(console)

\* What a crash takes from the file is of the call that has the mutex: the record
\* of a call that returned is not in the buffer any more.
LossOnlyUnderWay ==
    \A i \in DOMAIN file :
        i > flushed => g_log_mutex # None /\ file[i].call = call[g_log_mutex]

\* A thread that called log_write gets out of it, or its process dies.
EveryCallReturns == \A t \in Threads : pc[t] = "lock" ~> pc[t] \in {"idle", "dead"}

\* A stream up to the first of these places.
Before(s, places) ==
    IF places = {} THEN s
    ELSE SubSeq(s, 1, (CHOOSE i \in places : \A j \in places : i <= j) - 1)

\* log_write is one step: what the owner of the mutex has put so far, and what
\* is behind it, does not count until it lets go.
PlacesOf(s, c) == {i \in DOMAIN s : s[i].call = c}
Settled(s) ==
    Before(s, IF g_log_mutex = None THEN {} ELSE PlacesOf(s, call[g_log_mutex]))

Atomic ==
    INSTANCE AtomicLog WITH
        Calls <- Call,
        Loud <- {c \in Call : IsLoud(c)},
        CrashTears <- Crashes,
        file <- Settled(file),
        console <- Settled(console)

WritesAtomically == Atomic!Spec
=============================================================================
