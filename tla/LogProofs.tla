------------------------------ MODULE LogProofs ------------------------------
(***************************************************************************)
(* Theorems about Log, for any set of threads and any number of calls.     *)
(***************************************************************************)
EXTENDS Log, SequenceTheorems, TLAPS

\* The mutex excludes: its owner is the one thread behind pthread_mutex_lock.
Exclusion == \A t \in Threads : pc[t] \in LockedPCs <=> g_log_mutex = t

\* A thread inside log_write has an identity for its call that no other has.
CallsOwn ==
    \A t \in Threads :
        /\ pc[t] \notin {"idle", "dead"} =>
              call[t] \in Call /\ call[t].by = t /\ call[t].number = calls[t]
        /\ calls[t] = 0 => pc[t] = "idle"

\* A stream holds no chunk of a call that has yet to write its first.
Fresh(s, before) ==
    \A i \in DOMAIN s :
        /\ s[i].call.number <= calls[s[i].call.by]
        /\ pc[s[i].call.by] \in before => s[i].call.number < calls[s[i].call.by]

\* The end of a stream belongs to the call that is writing to it.
EndsWith(s, c) == s # <<>> /\ s[Len(s)].call = c
Absent(s, c) == \A i \in DOMAIN s : s[i].call # c

Ends ==
    \A t \in Threads :
        /\ pc[t] \in {"file_body", "file_end"} => EndsWith(file, call[t])
        /\ pc[t] \in {"err_body", "err_end"} => EndsWith(console, call[t])
        /\ pc[t] \in ErrPCs => EndsWith(file, call[t]) \/ Absent(file, call[t])

BeforeFile == {"lock", "file_head"}
BeforeErr == {"lock", "err_head"} \cup FilePCs

LogInv ==
    /\ TypeOK
    /\ Exclusion
    /\ CallsOwn
    /\ Fresh(file, BeforeFile)
    /\ Fresh(console, BeforeErr)
    /\ Ends
    /\ RecordsUnmixed

-----------------------------------------------------------------------------
(* Streams *)

LEMMA AppendUnmixed ==
    ASSUME NEW s \in Seq(Chunk), NEW c \in Chunk, Unmixed(s),
           EndsWith(s, c.call) \/ Absent(s, c.call)
    PROVE  Unmixed(Append(s, c))
<1> DEFINE r == Append(s, c)
<1>1. /\ Len(r) = Len(s) + 1
      /\ Len(s) \in Nat
      /\ DOMAIN r = 1..Len(s) + 1
      /\ \A i \in 1..Len(s) : r[i] = s[i]
      /\ r[Len(s) + 1] = c
    OBVIOUS
<1> SUFFICES ASSUME NEW i \in DOMAIN r, NEW j \in DOMAIN r, NEW k \in DOMAIN r,
                    i < j, j < k, r[i].call = r[k].call
             PROVE  r[j].call = r[i].call
    BY DEF Unmixed
<1>2. i \in 1..Len(s) /\ j \in 1..Len(s)
    BY <1>1
<1>3. CASE k \in 1..Len(s)
    BY <1>1, <1>2, <1>3 DEF Unmixed
<1>4. CASE k = Len(s) + 1
    <2>1. s[i].call = c.call
        BY <1>1, <1>2, <1>4
    <2>2. s[Len(s)].call = c.call
        BY <1>2, <2>1 DEF EndsWith, Absent
    <2>3. CASE j = Len(s)
        BY <1>1, <1>2, <2>1, <2>2, <2>3
    <2>4. CASE j < Len(s)
        BY <1>1, <1>2, <2>1, <2>2, <2>4 DEF Unmixed
    <2> QED
        BY <1>1, <1>2, <2>3, <2>4
<1> QED
    BY <1>1, <1>3, <1>4

LEMMA AppendEnds ==
    ASSUME NEW s \in Seq(Chunk), NEW c \in Chunk
    PROVE  EndsWith(Append(s, c), c.call)
BY DEF EndsWith

LEMMA PrefixUnmixed ==
    ASSUME NEW s \in Seq(Chunk), NEW n \in 0..Len(s), Unmixed(s)
    PROVE  /\ SubSeq(s, 1, n) \in Seq(Chunk)
           /\ Len(SubSeq(s, 1, n)) = n
           /\ \A i \in 1..n : i \in DOMAIN s /\ SubSeq(s, 1, n)[i] = s[i]
           /\ Unmixed(SubSeq(s, 1, n))
<1> DEFINE r == SubSeq(s, 1, n)
<1>1. /\ r \in Seq(Chunk)
      /\ Len(r) = n
      /\ \A i \in 1..n : i \in DOMAIN s /\ r[i] = s[i]
    OBVIOUS
<1>2. DOMAIN r = 1..n
    BY <1>1
<1> HIDE DEF r
<1>3. Unmixed(r)
    BY <1>1, <1>2 DEF Unmixed
<1> QED
    BY <1>1, <1>3 DEF r

LEMMA ChunkFields ==
    ASSUME NEW s \in Seq(Chunk), NEW i \in DOMAIN s
    PROVE  /\ s[i] \in Chunk
           /\ s[i].call \in Call
           /\ s[i].call.by \in Threads
           /\ s[i].call.number \in Nat
<1>1. s[i] \in Chunk
    OBVIOUS
<1> QED
    BY <1>1, LogAssumption DEF Chunk, Call

-----------------------------------------------------------------------------
(* The steps *)

LEMMA LogInvInit == Init => LogInv
<1> SUFFICES ASSUME Init
             PROVE  LogInv
    OBVIOUS
<1>1. TypeOK
    BY LogAssumption DEF Init, TypeOK, PCs
<1>2. Exclusion /\ CallsOwn /\ Ends
    BY LogAssumption DEF Init, Exclusion, CallsOwn, Ends, LockedPCs, FilePCs, ErrPCs
<1>3. Fresh(file, BeforeFile) /\ Fresh(console, BeforeErr) /\ RecordsUnmixed
    BY DEF Init, Fresh, RecordsUnmixed, Unmixed
<1> QED
    BY <1>1, <1>2, <1>3 DEF LogInv

LEMMA LogTypeStep ==
    ASSUME LogInv, [Next]_vars
    PROVE  TypeOK'
<1> USE LogAssumption DEF LogInv, TypeOK, PCs, LockedPCs, FilePCs, ErrPCs
<1>1. ASSUME NEW t \in Threads, LogWrite(t)
      PROVE  TypeOK'
    <2>1. PICK l \in Levels, m \in BOOLEAN :
             call' = [call EXCEPT ![t] = [by |-> t, number |-> calls[t] + 1,
                                          level |-> l, spills |-> m]]
        BY <1>1 DEF LogWrite
    <2>2. calls[t] + 1 \in 1..MaxCalls
        BY <1>1 DEF LogWrite
    <2>3. call' \in [Threads -> Call \cup {None}]
        BY <2>1, <2>2 DEF Call
    <2>4. calls' \in [Threads -> 0..MaxCalls]
        BY <1>1, <2>2 DEF LogWrite
    <2> QED
        BY <1>1, <2>3, <2>4 DEF LogWrite, Goto, streams
<1>2. ASSUME NEW t \in Threads, Lock(t) \/ Unlock(t)
      PROVE  TypeOK'
    BY <1>2 DEF Lock, Unlock, Acquire, Release, AfterFile, Goto, streams, args
<1>3. ASSUME NEW t \in Threads, FileHead(t) \/ FileBody(t) \/ FileEnd(t)
      PROVE  TypeOK'
    <2>1. call[t] \in Call
        BY <1>3 DEF FileHead, FileBody, FileEnd, CallsOwn
    <2>2. PICK part \in Parts : PutFile(t, part)
        BY <1>3 DEF FileHead, FileBody, FileEnd, Parts
    <2> DEFINE c == [call |-> call[t], part |-> part]
    <2>3. c \in Chunk
        BY <2>1 DEF Chunk
    <2>4. file' \in Seq(Chunk) /\ Len(file') = Len(file) + 1
        BY <2>2, <2>3 DEF PutFile
    <2>5. flushed' \in 0..Len(file')
        BY <2>2, <2>4 DEF PutFile
    <2>6. pc' \in [Threads -> PCs]
        BY <1>3 DEF FileHead, FileBody, FileEnd, AfterFile, Goto
    <2> QED
        BY <2>2, <2>4, <2>5, <2>6 DEF PutFile, args
<1>4. ASSUME NEW t \in Threads, ErrHead(t) \/ ErrBody(t) \/ ErrEnd(t)
      PROVE  TypeOK'
    <2>1. call[t] \in Call
        BY <1>4 DEF ErrHead, ErrBody, ErrEnd, CallsOwn
    <2>2. PICK part \in Parts : PutErr(t, part)
        BY <1>4 DEF ErrHead, ErrBody, ErrEnd, Parts
    <2>3. [call |-> call[t], part |-> part] \in Chunk
        BY <2>1 DEF Chunk
    <2>4. console' \in Seq(Chunk)
        BY <2>2, <2>3 DEF PutErr
    <2>5. pc' \in [Threads -> PCs]
        BY <1>4 DEF ErrHead, ErrBody, ErrEnd, Goto
    <2> QED
        BY <2>2, <2>4, <2>5 DEF PutErr, args
<1>5. CASE Crash
    <2>1. file' \in Seq(Chunk) /\ Len(file') = flushed
        BY <1>5, PrefixUnmixed DEF Crash, RecordsUnmixed
    <2>2. flushed' \in 0..Len(file')
        BY <1>5, <2>1 DEF Crash
    <2>3. pc' \in [Threads -> PCs]
        BY <1>5 DEF Crash
    <2> QED
        BY <1>5, <2>1, <2>2, <2>3 DEF Crash, args
<1>6. CASE UNCHANGED vars
    BY <1>6 DEF vars
<1> QED
    BY <1>1, <1>2, <1>3, <1>4, <1>5, <1>6 DEF Next, Step

LEMMA ExclusionStep ==
    ASSUME LogInv, [Next]_vars
    PROVE  Exclusion' /\ CallsOwn'
<1> USE LogAssumption
    DEF LogInv, TypeOK, Exclusion, CallsOwn, PCs, LockedPCs, FilePCs, ErrPCs, Goto, streams, args
<1>1. ASSUME NEW t \in Threads, LogWrite(t)
      PROVE  Exclusion' /\ CallsOwn'
    <2>1. PICK l \in Levels, m \in BOOLEAN :
             call' = [call EXCEPT ![t] = [by |-> t, number |-> calls[t] + 1,
                                          level |-> l, spills |-> m]]
        BY <1>1 DEF LogWrite
    <2>2. calls[t] + 1 \in 1..MaxCalls /\ calls[t] + 1 # 0
        BY <1>1 DEF LogWrite
    <2>3. call'[t] \in Call /\ call'[t].by = t /\ call'[t].number = calls'[t]
        BY <1>1, <2>1, <2>2 DEF LogWrite, Call
    <2> QED
        BY <1>1, <2>1, <2>2, <2>3 DEF LogWrite
<1>2. ASSUME NEW t \in Threads, Lock(t)
      PROVE  Exclusion' /\ CallsOwn'
    BY <1>2 DEF Lock, Acquire, AfterFile
<1>3. ASSUME NEW t \in Threads, FileHead(t) \/ FileBody(t) \/ FileEnd(t)
      PROVE  Exclusion' /\ CallsOwn'
    <2>1. pc[t] \in LockedPCs /\ \E label \in LockedPCs : pc' = [pc EXCEPT ![t] = label]
        BY <1>3 DEF FileHead, FileBody, FileEnd, AfterFile
    <2>2. UNCHANGED <<g_log_mutex, calls, call>>
        BY <1>3 DEF FileHead, FileBody, FileEnd, PutFile
    <2> QED
        BY <2>1, <2>2
<1>4. ASSUME NEW t \in Threads, ErrHead(t) \/ ErrBody(t) \/ ErrEnd(t)
      PROVE  Exclusion' /\ CallsOwn'
    <2>1. pc[t] \in LockedPCs /\ \E label \in LockedPCs : pc' = [pc EXCEPT ![t] = label]
        BY <1>4 DEF ErrHead, ErrBody, ErrEnd
    <2>2. UNCHANGED <<g_log_mutex, calls, call>>
        BY <1>4 DEF ErrHead, ErrBody, ErrEnd, PutErr
    <2> QED
        BY <2>1, <2>2
<1>5. ASSUME NEW t \in Threads, Unlock(t)
      PROVE  Exclusion' /\ CallsOwn'
    BY <1>5 DEF Unlock, Release
<1>6. CASE Crash
    BY <1>6 DEF Crash
<1>7. CASE UNCHANGED vars
    BY <1>7 DEF vars
<1> QED
    BY <1>1, <1>2, <1>3, <1>4, <1>5, <1>6, <1>7 DEF Next, Step

\* A chunk put by the owner of the mutex, seen from the invariant.
LEMMA PutHolds ==
    ASSUME LogInv, NEW s \in Seq(Chunk), NEW t \in Threads, NEW part \in Parts,
           call[t] \in Call, Unmixed(s),
           EndsWith(s, call[t]) \/ Absent(s, call[t])
    PROVE  LET r == Append(s, [call |-> call[t], part |-> part]) IN
           /\ Unmixed(r)
           /\ EndsWith(r, call[t])
           /\ DOMAIN r = 1..Len(s) + 1
           /\ \A i \in DOMAIN s : r[i] = s[i]
           /\ r[Len(s) + 1].call = call[t]
<1> DEFINE c == [call |-> call[t], part |-> part]
<1>1. c \in Chunk /\ c.call = call[t]
    BY DEF Chunk
<1> HIDE DEF c
<1>2. Unmixed(Append(s, c)) /\ EndsWith(Append(s, c), call[t])
    BY <1>1, AppendUnmixed, AppendEnds
<1>3. /\ DOMAIN Append(s, c) = 1..Len(s) + 1
      /\ \A i \in 1..Len(s) : Append(s, c)[i] = s[i]
      /\ Append(s, c)[Len(s) + 1] = c
    BY <1>1
<1> QED
    BY <1>1, <1>2, <1>3 DEF c

\* Before its first chunk a call is absent; after it, it is at the end.
LEMMA OwnerMayPut ==
    ASSUME LogInv, NEW t \in Threads
    PROVE  /\ pc[t] \in FilePCs => EndsWith(file, call[t]) \/ Absent(file, call[t])
           /\ pc[t] \in ErrPCs => EndsWith(console, call[t]) \/ Absent(console, call[t])
<1>0. ASSUME NEW s, NEW before, Fresh(s, before), pc[t] \in before, pc[t] \notin {"idle", "dead"},
             calls[t] \in Nat
      PROVE  Absent(s, call[t])
    <2>1. call[t].by = t /\ call[t].number = calls[t]
        BY <1>0 DEF LogInv, CallsOwn
    <2> SUFFICES ASSUME NEW i \in DOMAIN s, s[i].call = call[t]
                 PROVE  FALSE
        BY DEF Absent
    <2>2. s[i].call.by = t /\ s[i].call.number = calls[t]
        BY <2>1
    <2>3. calls[t] < calls[t]
        BY <1>0, <2>2 DEF Fresh
    <2> QED
        BY <1>0, <2>3
<1>1. calls[t] \in Nat
    BY DEF LogInv, TypeOK
<1>2. ASSUME pc[t] = "file_head"
      PROVE  Absent(file, call[t])
    BY <1>0, <1>1, <1>2 DEF LogInv, BeforeFile
<1>3. ASSUME pc[t] = "err_head"
      PROVE  Absent(console, call[t])
    BY <1>0, <1>1, <1>3 DEF LogInv, BeforeErr
<1> QED
    BY <1>2, <1>3 DEF LogInv, Ends, FilePCs, ErrPCs

\* The streams after a step that puts nothing.
LEMMA QuietStreams ==
    ASSUME LogInv, TypeOK', UNCHANGED <<file, console>>,
           NEW t \in Threads, LogWrite(t) \/ Lock(t) \/ Unlock(t)
    PROVE  /\ Fresh(file, BeforeFile)'
           /\ Fresh(console, BeforeErr)'
           /\ Ends'
           /\ RecordsUnmixed'
<1> USE DEF LogInv, TypeOK
<1>1. RecordsUnmixed'
    BY DEF RecordsUnmixed, Unmixed
<1>2. /\ \A u \in Threads \ {t} : pc'[u] = pc[u] /\ calls'[u] = calls[u] /\ call'[u] = call[u]
      /\ \/ pc'[t] = "lock" /\ calls'[t] = calls[t] + 1
         \/ pc[t] = "lock" /\ calls'[t] = calls[t] /\ call'[t] = call[t]
         \/ pc'[t] = "idle" /\ calls'[t] = calls[t]
      /\ pc'[t] \notin {"file_body", "file_end", "err_body", "err_end"}
    BY DEF LogWrite, Lock, Unlock, Goto, AfterFile, args
<1>3. ASSUME NEW s \in Seq(Chunk), NEW before, before \in {BeforeFile, BeforeErr},
             Fresh(s, before), UNCHANGED s
      PROVE  Fresh(s, before)'
    <2> SUFFICES ASSUME NEW i \in DOMAIN s
                 PROVE  /\ s[i].call.number <= calls'[s[i].call.by]
                        /\ pc'[s[i].call.by] \in before =>
                              s[i].call.number < calls'[s[i].call.by]
        BY <1>3 DEF Fresh
    <2>1. s[i].call.by \in Threads /\ s[i].call.number \in Nat
        BY <1>3, ChunkFields
    <2>2. /\ s[i].call.number <= calls[s[i].call.by]
          /\ pc[s[i].call.by] \in before => s[i].call.number < calls[s[i].call.by]
        BY <1>3 DEF Fresh
    <2>3. CASE s[i].call.by # t
        BY <1>2, <2>1, <2>2, <2>3
    <2>4. CASE s[i].call.by = t
        <3>1. calls[t] \in Nat /\ calls'[t] \in Nat
            OBVIOUS
        <3> HIDE DEF LogInv, TypeOK
        <3>2. CASE pc'[t] = "lock" /\ calls'[t] = calls[t] + 1
            BY <2>1, <2>2, <2>4, <3>1, <3>2
        <3>3. CASE pc[t] = "lock" /\ calls'[t] = calls[t]
            <4>1. pc[t] \in before
                BY <1>3, <3>3 DEF BeforeFile, BeforeErr
            <4> QED
                BY <2>1, <2>2, <2>4, <3>3, <4>1
        <3>4. CASE pc'[t] = "idle" /\ calls'[t] = calls[t]
            <4>1. pc'[t] \notin before
                BY <1>3, <3>4 DEF BeforeFile, BeforeErr, FilePCs
            <4> QED
                BY <2>1, <2>2, <2>4, <3>4, <4>1
        <3> QED
            BY <1>2, <3>2, <3>3, <3>4
    <2> QED
        BY <2>3, <2>4
<1>4. Fresh(file, BeforeFile)' /\ Fresh(console, BeforeErr)'
    BY <1>3
<1>5. ASSUME NEW u \in Threads, pc'[u] \in ErrPCs
      PROVE  EndsWith(file, call[u])' \/ Absent(file, call[u])'
    <2>1. CASE u # t
        BY <1>2, <1>5, <2>1 DEF Ends, EndsWith, Absent
    <2>2. CASE u = t
        <3>1. Lock(t) /\ call'[t] = call[t]
            BY <1>5, <2>2 DEF LogWrite, Lock, Unlock, Goto, AfterFile, args, ErrPCs
        <3>2. Absent(file, call[t])
            <4>1. call[t].by = t /\ call[t].number = calls[t]
                BY <3>1 DEF Lock, CallsOwn
            <4>2. pc[t] \in BeforeFile
                BY <3>1 DEF Lock, BeforeFile
            <4>3. \A i \in DOMAIN file : file[i].call.by = t => file[i].call.number < calls[t]
                BY <4>2 DEF Fresh
            <4>4. \A i \in DOMAIN file : file[i].call.number \in Nat
                BY ChunkFields
            <4> QED
                BY <4>1, <4>3, <4>4 DEF Absent
        <3> QED
            BY <2>2, <3>1, <3>2 DEF Absent
    <2> QED
        BY <2>1, <2>2
<1>6. Ends'
    BY <1>2, <1>5 DEF Ends, EndsWith
<1> QED
    BY <1>1, <1>4, <1>6

\* A chunk put into the file.
LEMMA FileStep ==
    ASSUME LogInv, TypeOK', NEW t \in Threads, FileHead(t) \/ FileBody(t) \/ FileEnd(t)
    PROVE  /\ Fresh(file, BeforeFile)'
           /\ Fresh(console, BeforeErr)'
           /\ Ends'
           /\ RecordsUnmixed'
<1> USE DEF LogInv, TypeOK
<1>1. /\ pc[t] \in FilePCs
      /\ pc'[t] \in {"file_body", "file_end", "err_head", "unlock"}
      /\ pc[t] # "file_end" => pc'[t] \in {"file_body", "file_end"}
      /\ \A u \in Threads \ {t} : pc'[u] = pc[u]
      /\ calls' = calls /\ call' = call /\ console' = console
    BY DEF FileHead, FileBody, FileEnd, PutFile, AfterFile, Goto, FilePCs, args
<1>2. PICK part \in Parts : file' = Append(file, [call |-> call[t], part |-> part])
    BY DEF FileHead, FileBody, FileEnd, PutFile, Parts
<1>3. /\ call[t] \in Call
      /\ call[t].by = t
      /\ call[t].number = calls[t]
    BY <1>1 DEF CallsOwn, FilePCs
<1>4. EndsWith(file, call[t]) \/ Absent(file, call[t])
    BY <1>1, OwnerMayPut
<1>5. /\ Unmixed(file')
      /\ EndsWith(file', call[t])
      /\ DOMAIN file' = 1..Len(file) + 1
      /\ \A i \in DOMAIN file : file'[i] = file[i]
      /\ file'[Len(file) + 1].call = call[t]
    BY <1>2, <1>3, <1>4, PutHolds, SMTT(20) DEF RecordsUnmixed
<1>6. RecordsUnmixed'
    BY <1>1, <1>5 DEF RecordsUnmixed, Unmixed
<1>7. \A u \in Threads \ {t} : pc[u] \notin LockedPCs
    BY <1>1 DEF Exclusion, LockedPCs
<1>8. Ends'
    BY <1>1, <1>5, <1>7 DEF Ends, EndsWith, LockedPCs, FilePCs, ErrPCs
<1>9. Fresh(file, BeforeFile)'
    <2> SUFFICES ASSUME NEW i \in DOMAIN file'
                 PROVE  /\ file'[i].call.number <= calls[file'[i].call.by]
                        /\ pc'[file'[i].call.by] \in BeforeFile =>
                              file'[i].call.number < calls[file'[i].call.by]
        BY <1>1 DEF Fresh
    <2>1. CASE i \in DOMAIN file
        BY <1>1, <1>5, <2>1, ChunkFields, SMTT(20) DEF Fresh, BeforeFile
    <2>2. CASE i \notin DOMAIN file
        <3>1. i = Len(file) + 1
            BY <1>5, <2>2
        <3> QED
            BY <1>1, <1>3, <1>5, <3>1 DEF BeforeFile
    <2> QED
        BY <2>1, <2>2
<1>10. Fresh(console, BeforeErr)'
    <2> SUFFICES ASSUME NEW i \in DOMAIN console
                 PROVE  /\ console[i].call.number <= calls[console[i].call.by]
                        /\ pc'[console[i].call.by] \in BeforeErr =>
                              console[i].call.number < calls[console[i].call.by]
        BY <1>1 DEF Fresh
    <2> QED
        BY <1>1, ChunkFields DEF Fresh, BeforeErr, FilePCs
<1> QED
    BY <1>6, <1>8, <1>9, <1>10

\* A chunk put onto stderr.
LEMMA ErrStep ==
    ASSUME LogInv, TypeOK', NEW t \in Threads, ErrHead(t) \/ ErrBody(t) \/ ErrEnd(t)
    PROVE  /\ Fresh(file, BeforeFile)'
           /\ Fresh(console, BeforeErr)'
           /\ Ends'
           /\ RecordsUnmixed'
<1> USE DEF LogInv, TypeOK
<1>1. /\ pc[t] \in ErrPCs
      /\ pc'[t] \in {"err_body", "err_end", "unlock"}
      /\ \A u \in Threads \ {t} : pc'[u] = pc[u]
      /\ calls' = calls /\ call' = call /\ file' = file
    BY DEF ErrHead, ErrBody, ErrEnd, PutErr, Goto, ErrPCs, args
<1>2. PICK part \in Parts : console' = Append(console, [call |-> call[t], part |-> part])
    BY DEF ErrHead, ErrBody, ErrEnd, PutErr, Parts
<1>3. /\ call[t] \in Call
      /\ call[t].by = t
      /\ call[t].number = calls[t]
    BY <1>1 DEF CallsOwn, ErrPCs
<1>4. EndsWith(console, call[t]) \/ Absent(console, call[t])
    BY <1>1, OwnerMayPut
<1>5. /\ Unmixed(console')
      /\ EndsWith(console', call[t])
      /\ DOMAIN console' = 1..Len(console) + 1
      /\ \A i \in DOMAIN console : console'[i] = console[i]
      /\ console'[Len(console) + 1].call = call[t]
    BY <1>2, <1>3, <1>4, PutHolds DEF RecordsUnmixed
<1>6. RecordsUnmixed'
    BY <1>1, <1>5 DEF RecordsUnmixed, Unmixed
<1>7. \A u \in Threads \ {t} : pc[u] \notin LockedPCs
    BY <1>1 DEF Exclusion, LockedPCs
<1>8. Ends'
    BY <1>1, <1>5, <1>7 DEF Ends, EndsWith, Absent, LockedPCs, FilePCs, ErrPCs
<1>9. Fresh(file, BeforeFile)'
    <2> SUFFICES ASSUME NEW i \in DOMAIN file
                 PROVE  /\ file[i].call.number <= calls[file[i].call.by]
                        /\ pc'[file[i].call.by] \in BeforeFile =>
                              file[i].call.number < calls[file[i].call.by]
        BY <1>1 DEF Fresh
    <2> QED
        BY <1>1, ChunkFields DEF Fresh, BeforeFile
<1>10. Fresh(console, BeforeErr)'
    <2> SUFFICES ASSUME NEW i \in DOMAIN console'
                 PROVE  /\ console'[i].call.number <= calls[console'[i].call.by]
                        /\ pc'[console'[i].call.by] \in BeforeErr =>
                              console'[i].call.number < calls[console'[i].call.by]
        BY <1>1 DEF Fresh
    <2>1. CASE i \in DOMAIN console
        BY <1>1, <1>5, <2>1, ChunkFields, SMTT(20) DEF Fresh, BeforeErr, FilePCs
    <2>2. CASE i \notin DOMAIN console
        <3>1. i = Len(console) + 1
            BY <1>5, <2>2
        <3> QED
            BY <1>1, <1>3, <1>5, <3>1 DEF BeforeErr, FilePCs
    <2> QED
        BY <2>1, <2>2
<1> QED
    BY <1>6, <1>8, <1>9, <1>10

\* The process dies; who had called log_write does not come back.
LEMMA CrashStreams ==
    ASSUME LogInv, TypeOK', Crash
    PROVE  /\ Fresh(file, BeforeFile)'
           /\ Fresh(console, BeforeErr)'
           /\ Ends'
           /\ RecordsUnmixed'
<1> USE DEF LogInv, TypeOK
<1>1. /\ calls' = calls /\ call' = call /\ console' = console
      /\ \A t \in Threads : pc'[t] \in {"idle", "dead"}
    BY DEF Crash, CallsOwn, args
<1>2. /\ \A i \in DOMAIN file' : i \in DOMAIN file /\ file'[i] = file[i]
      /\ Unmixed(file')
    <2>1. file' = SubSeq(file, 1, flushed)
        BY DEF Crash
    <2>2. /\ Len(file') = flushed
          /\ \A i \in 1..flushed : i \in DOMAIN file /\ file'[i] = file[i]
          /\ Unmixed(file')
        BY <2>1, PrefixUnmixed DEF RecordsUnmixed
    <2>3. DOMAIN file' = 1..flushed
        BY <2>2
    <2> QED
        BY <2>2, <2>3
<1>3. RecordsUnmixed'
    BY <1>1, <1>2 DEF RecordsUnmixed, Unmixed
<1>4. Ends'
    BY <1>1 DEF Ends, ErrPCs
<1>5. Fresh(file, BeforeFile)'
    <2> SUFFICES ASSUME NEW i \in DOMAIN file'
                 PROVE  /\ file'[i].call.number <= calls[file'[i].call.by]
                        /\ pc'[file'[i].call.by] \notin BeforeFile
        BY <1>1 DEF Fresh
    <2> QED
        BY <1>1, <1>2, ChunkFields DEF Fresh, BeforeFile
<1>6. Fresh(console, BeforeErr)'
    <2> SUFFICES ASSUME NEW i \in DOMAIN console
                 PROVE  /\ console[i].call.number <= calls[console[i].call.by]
                        /\ pc'[console[i].call.by] \notin BeforeErr
        BY <1>1 DEF Fresh
    <2> QED
        BY <1>1, ChunkFields DEF Fresh, BeforeErr, FilePCs
<1> QED
    BY <1>3, <1>4, <1>5, <1>6

LEMMA LogInvNext == LogInv /\ [Next]_vars => LogInv'
<1> SUFFICES ASSUME LogInv, [Next]_vars
             PROVE  LogInv'
    OBVIOUS
<1> DEFINE Streams == /\ Fresh(file, BeforeFile)
                      /\ Fresh(console, BeforeErr)
                      /\ Ends
                      /\ RecordsUnmixed
<1>1. TypeOK'
    BY LogTypeStep
<1>2. Exclusion' /\ CallsOwn'
    BY ExclusionStep
<1>3. ASSUME NEW t \in Threads, LogWrite(t) \/ Lock(t) \/ Unlock(t)
      PROVE  Streams'
    <2>1. UNCHANGED <<file, console>>
        BY <1>3 DEF LogWrite, Lock, Unlock, streams
    <2> QED
        BY <1>1, <1>3, <2>1, QuietStreams
<1>4. ASSUME NEW t \in Threads, FileHead(t) \/ FileBody(t) \/ FileEnd(t)
      PROVE  Streams'
    BY <1>1, <1>4, FileStep
<1>5. ASSUME NEW t \in Threads, ErrHead(t) \/ ErrBody(t) \/ ErrEnd(t)
      PROVE  Streams'
    BY <1>1, <1>5, ErrStep
<1>6. ASSUME Crash
      PROVE  Streams'
    BY <1>1, <1>6, CrashStreams
<1>7. ASSUME UNCHANGED vars
      PROVE  Streams'
    BY <1>7 DEF vars, LogInv, Fresh, Ends, EndsWith, Absent, RecordsUnmixed, Unmixed
<1>8. Streams'
    BY <1>3, <1>4, <1>5, <1>6, <1>7 DEF Next, Step
<1> QED
    BY <1>1, <1>2, <1>8 DEF LogInv

-----------------------------------------------------------------------------
(* Theorems *)

\* The inductive invariant of the logger holds in every behaviour.
THEOREM LogInvariance == Spec => []LogInv
<1>1. Init => LogInv
    BY LogInvInit
<1>2. LogInv /\ [Next]_vars => LogInv'
    BY LogInvNext
<1> QED
    BY <1>1, <1>2, PTL DEF Spec

\* The logger stays within its types, however many threads call it.
THEOREM LogTypeCorrect == Spec => []TypeOK
<1>1. LogInv => TypeOK
    BY DEF LogInv
<1> QED
    BY <1>1, LogInvariance, PTL

\* One mutex around both groups of stdio calls keeps the records apart on both
\* streams, for any number of threads, calls and crashes.
THEOREM RecordsUnmixedAlways == Spec => []RecordsUnmixed
<1>1. LogInv => RecordsUnmixed
    BY DEF LogInv
<1> QED
    BY <1>1, LogInvariance, PTL

-----------------------------------------------------------------------------
(* log_write is one step *)

\* A stream ends with the first k pieces of the record of a call, and has no
\* other piece of it.
Begun(s, c, k) ==
    /\ k \in 0..3 /\ k <= Len(s)
    /\ \A i \in 1..(Len(s) - k) : s[i].call # c
    /\ \A n \in 1..k : s[(Len(s) - k) + n] = Atomic!Record(c)[n]

LEMMA RecordPieces ==
    ASSUME NEW c \in Call
    PROVE  /\ Atomic!Record(c) \in Seq(Chunk) /\ Len(Atomic!Record(c)) = 3
           /\ \A n \in 1..3 : Atomic!Record(c)[n] \in Chunk /\ Atomic!Record(c)[n].call = c
           /\ Atomic!Record(c)[1] = [call |-> c, part |-> "head"]
           /\ Atomic!Record(c)[2] = [call |-> c, part |-> "body"]
           /\ Atomic!Record(c)[3] = [call |-> c, part |-> "end"]
<1>1. /\ [call |-> c, part |-> "head"] \in Chunk
      /\ [call |-> c, part |-> "body"] \in Chunk
      /\ [call |-> c, part |-> "end"] \in Chunk
    BY DEF Chunk, Parts
<1>2. Atomic!Record(c) \in Seq(Chunk) /\ Len(Atomic!Record(c)) = 3
    BY <1>1 DEF Atomic!Record
<1>3. /\ Atomic!Record(c)[1] = [call |-> c, part |-> "head"]
      /\ Atomic!Record(c)[2] = [call |-> c, part |-> "body"]
      /\ Atomic!Record(c)[3] = [call |-> c, part |-> "end"]
    BY DEF Atomic!Record
<1>4. \A n \in 1..3 : n = 1 \/ n = 2 \/ n = 3
    OBVIOUS
<1> QED
    BY <1>1, <1>2, <1>3, <1>4

\* What a stream is without its pieces of a call and all behind them.
Without(s, c) == Before(s, PlacesOf(s, c))

LEMMA WithoutBegun ==
    ASSUME NEW s \in Seq(Chunk), NEW c \in Call, NEW k, Begun(s, c, k)
    PROVE  Without(s, c) = SubSeq(s, 1, Len(s) - k)
<1> DEFINE own == {i \in DOMAIN s : s[i].call = c}
           m == (Len(s) - k) + 1
<1>0. k \in 0..3 /\ k <= Len(s) /\ Len(s) \in Nat /\ DOMAIN s = 1..Len(s)
    BY DEF Begun
<1>1. \A i \in own : i >= m /\ i \in Nat
    BY <1>0 DEF Begun
<1>2. CASE k = 0
    <2>1. own = {}
        BY <1>0, <1>1, <1>2
    <2>2. SubSeq(s, 1, Len(s) - k) = s
        <3>1. Len(s) - k = Len(s)
            BY <1>0, <1>2
        <3>2. SubSeq(s, 1, Len(s)) \in Seq(Chunk) /\ Len(SubSeq(s, 1, Len(s))) = Len(s)
              /\ \A i \in 1..Len(s) : SubSeq(s, 1, Len(s))[i] = s[i]
            OBVIOUS
        <3> QED
            BY <3>1, <3>2, SeqEqual
    <2> QED
        BY <2>1, <2>2 DEF Without, Before, PlacesOf
<1>3. CASE k # 0
    <2>1. m \in own
        <3>1. 1 \in 1..k /\ m \in 1..Len(s)
            BY <1>0, <1>3
        <3>2. s[m] = Atomic!Record(c)[1]
            BY <3>1 DEF Begun
        <3>3. s[m].call = c
            <4>1. s[m] = [call |-> c, part |-> "head"]
                BY <3>2 DEF Atomic!Record
            <4> QED
                BY <4>1
        <3> QED
            BY <1>0, <3>1, <3>3
    <2>2. m \in Nat
        BY <1>0
    <2> HIDE DEF own, m
    <2>3. \A i \in own : (\A j \in own : i <= j) <=> i = m
        BY <1>1, <2>1, <2>2
    <2>4. (CHOOSE i \in own : \A j \in own : i <= j) = m
        BY <2>1, <2>3
    <2>5. m - 1 = Len(s) - k
        BY <1>0 DEF m
    <2> QED
        BY <2>1, <2>4, <2>5 DEF Without, Before, PlacesOf, own
<1> QED
    BY <1>2, <1>3

\* The next piece of the record leaves what is in front of it.
LEMMA BegunPut ==
    ASSUME NEW s \in Seq(Chunk), NEW c \in Call, NEW k \in 0..2, Begun(s, c, k),
           NEW x, x = Atomic!Record(c)[k + 1]
    PROVE  /\ Begun(Append(s, x), c, k + 1) /\ Append(s, x) \in Seq(Chunk)
           /\ SubSeq(Append(s, x), 1, Len(Append(s, x)) - (k + 1)) = SubSeq(s, 1, Len(s) - k)
<1> DEFINE r == Append(s, x)
<1>0. k + 1 \in 1..3 /\ k <= Len(s) /\ Len(s) \in Nat /\ x \in Chunk
    <2>1. k + 1 \in 1..3 /\ k <= Len(s) /\ Len(s) \in Nat
        BY DEF Begun
    <2>2. Atomic!Record(c)[k + 1] \in Chunk
        BY <2>1, RecordPieces
    <2> QED
        BY <2>1, <2>2
<1>1. /\ r \in Seq(Chunk) /\ Len(r) = Len(s) + 1 /\ r[Len(s) + 1] = x
      /\ \A i \in 1..Len(s) : r[i] = s[i]
    BY <1>0
<1> HIDE DEF r
<1>2. Len(r) - (k + 1) = Len(s) - k /\ Len(s) - k \in 0..Len(s)
    BY <1>0, <1>1
<1>3. Begun(r, c, k + 1)
    <2>1. \A i \in 1..(Len(r) - (k + 1)) : r[i].call # c
        <3>1. \A i \in 1..(Len(s) - k) : i \in 1..Len(s) /\ s[i].call # c
            BY <1>0 DEF Begun
        <3> QED
            BY <1>1, <1>2, <3>1
    <2>2. ASSUME NEW n \in 1..(k + 1)
          PROVE  r[(Len(s) - k) + n] = Atomic!Record(c)[n]
        <3>1. CASE n = k + 1
            <4>1. (Len(s) - k) + n = Len(s) + 1
                BY <1>0, <3>1
            <4> QED
                BY <1>1, <3>1, <4>1
        <3>2. CASE n # k + 1
            <4>1. n \in 1..k /\ (Len(s) - k) + n \in 1..Len(s)
                BY <1>0, <3>2
            <4> QED
                BY <1>1, <4>1 DEF Begun
        <3> QED
            BY <3>1, <3>2
    <2>3. k + 1 \in 0..3 /\ k + 1 <= Len(r)
        BY <1>0, <1>1
    <2> QED
        BY <1>2, <2>1, <2>2, <2>3 DEF Begun
<1>4. SubSeq(r, 1, Len(s) - k) = SubSeq(s, 1, Len(s) - k)
    <2> DEFINE q == Len(s) - k
    <2>1. q \in Nat /\ q <= Len(s) /\ q <= Len(r)
        BY <1>0, <1>1
    <2> HIDE DEF q
    <2>2. /\ SubSeq(r, 1, q) \in Seq(Chunk) /\ Len(SubSeq(r, 1, q)) = q
          /\ \A i \in 1..q : SubSeq(r, 1, q)[i] = r[i]
        BY <1>1, <2>1
    <2>3. /\ SubSeq(s, 1, q) \in Seq(Chunk) /\ Len(SubSeq(s, 1, q)) = q
          /\ \A i \in 1..q : SubSeq(s, 1, q)[i] = s[i] /\ i \in 1..Len(s)
        BY <2>1
    <2>4. SubSeq(r, 1, q) = SubSeq(s, 1, q)
        BY <1>1, <2>2, <2>3, SeqEqual
    <2> QED
        BY <2>4 DEF q
<1> QED
    BY <1>1, <1>2, <1>3, <1>4 DEF r

LEMMA Prefix ==
    ASSUME NEW s \in Seq(Chunk), NEW n \in 0..Len(s)
    PROVE  /\ SubSeq(s, 1, n) \in Seq(Chunk) /\ Len(SubSeq(s, 1, n)) = n
           /\ \A i \in 1..n : SubSeq(s, 1, n)[i] = s[i]
OBVIOUS

\* A stream up to f is what is in front of the record and the record's beginning.
LEMMA BegunCut ==
    ASSUME NEW s \in Seq(Chunk), NEW c \in Call, NEW k, Begun(s, c, k),
           NEW f \in (Len(s) - k)..Len(s)
    PROVE  /\ f - (Len(s) - k) \in 0..3
           /\ SubSeq(s, 1, f) =
                 SubSeq(s, 1, Len(s) - k) \o SubSeq(Atomic!Record(c), 1, f - (Len(s) - k))
<1> DEFINE q == Len(s) - k
           n == f - q
           R == Atomic!Record(c)
<1>0. k \in 0..3 /\ k <= Len(s) /\ Len(s) \in Nat
    BY DEF Begun
<1>1. /\ q \in Nat /\ q <= Len(s) /\ n \in 0..3 /\ n <= k /\ f = q + n /\ f \in Nat
      /\ f <= Len(s)
    BY <1>0
<1>2. R \in Seq(Chunk) /\ Len(R) = 3
    BY RecordPieces
<1>3. \A i \in 1..k : s[q + i] = R[i]
    BY DEF Begun
<1> HIDE DEF q, n, R
<1>4. /\ SubSeq(s, 1, f) \in Seq(Chunk) /\ Len(SubSeq(s, 1, f)) = f
      /\ \A i \in 1..f : SubSeq(s, 1, f)[i] = s[i]
    BY <1>1
<1>5. /\ SubSeq(s, 1, q) \in Seq(Chunk) /\ Len(SubSeq(s, 1, q)) = q
      /\ \A i \in 1..q : SubSeq(s, 1, q)[i] = s[i]
    BY <1>1
<1>6. /\ SubSeq(R, 1, n) \in Seq(Chunk) /\ Len(SubSeq(R, 1, n)) = n
      /\ \A i \in 1..n : SubSeq(R, 1, n)[i] = R[i]
    <2>1. n \in 0..Len(R)
        BY <1>1, <1>2
    <2> QED
        BY <1>2, <2>1, Prefix
<1> DEFINE a == SubSeq(s, 1, f)
           u == SubSeq(s, 1, q)
           v == SubSeq(R, 1, n)
<1>7. /\ u \o v \in Seq(Chunk) /\ Len(u \o v) = q + n
      /\ \A i \in 1..q : (u \o v)[i] = u[i]
      /\ \A i \in 1..n : (u \o v)[q + i] = v[i]
    <2> HIDE DEF u, v
    <2>1. u \in Seq(Chunk) /\ v \in Seq(Chunk) /\ Len(u) = q /\ Len(v) = n
        BY <1>5, <1>6 DEF u, v
    <2>2. /\ u \o v \in Seq(Chunk) /\ Len(u \o v) = Len(u) + Len(v)
          /\ \A i \in 1..(Len(u) + Len(v)) :
                (u \o v)[i] = IF i <= Len(u) THEN u[i] ELSE v[i - Len(u)]
        BY <2>1, SMTT(20)
    <2>3. \A i \in 1..q : (u \o v)[i] = u[i]
        BY <1>1, <2>1, <2>2
    <2>4. ASSUME NEW i \in 1..n
          PROVE  (u \o v)[q + i] = v[i]
        <3>1. q + i \in 1..(q + n) /\ ~(q + i <= q) /\ (q + i) - q = i
            BY <1>1
        <3> QED
            BY <2>1, <2>2, <3>1
    <2> QED
        BY <2>1, <2>2, <2>3, <2>4
<1>8. ASSUME NEW i \in 1..f
      PROVE  a[i] = (u \o v)[i]
    <2>1. CASE i \in 1..q
        BY <1>4, <1>5, <1>7, <2>1
    <2>2. CASE i \notin 1..q
        <3>1. i - q \in 1..n /\ i - q \in 1..k /\ q + (i - q) = i
            BY <1>0, <1>1, <2>2
        <3>2. (u \o v)[i] = v[i - q]
            BY <1>7, <3>1
        <3>3. v[i - q] = R[i - q]
            BY <1>6, <3>1
        <3>4. s[i] = R[i - q]
            BY <1>3, <3>1
        <3> QED
            BY <1>4, <3>2, <3>3, <3>4
    <2> QED
        BY <2>1, <2>2
<1>9. a = u \o v
    BY <1>1, <1>4, <1>7, <1>8, SeqEqual
<1> QED
    BY <1>1, <1>9 DEF q, n, R

\* How many pieces the thread that holds the mutex has put, by its place.
FilePut(label) ==
    IF label = "file_head" THEN {0} ELSE IF label = "file_body" THEN {1}
    ELSE IF label = "file_end" THEN {2} ELSE {0, 3}
ErrPut(label, c) ==
    IF label = "err_body" THEN 1 ELSE IF label = "err_end" THEN 2
    ELSE IF label = "unlock" /\ IsLoud(c) THEN 3 ELSE 0

Putting(t) ==
    /\ \E k \in FilePut(pc[t]) : Begun(file, call[t], k) /\ flushed >= Len(file) - k
    /\ Begun(console, call[t], ErrPut(pc[t], call[t]))
    /\ pc[t] \notin {"file_body", "file_end"} => flushed = Len(file)
    /\ pc[t] \in ErrPCs => IsLoud(call[t])

\* The record of the owner of the mutex is the one unfinished, and only of its
\* chunks may be some in the buffer of the file.
AtomInv ==
    /\ \A t \in Threads : pc[t] \in LockedPCs => Putting(t)
    /\ g_log_mutex = None => flushed = Len(file)

Settling == Settled(file)' = Settled(file) /\ Settled(console)' = Settled(console)

LEMMA SettledOwned ==
    ASSUME g_log_mutex \in Threads
    PROVE  /\ Settled(file) = Without(file, call[g_log_mutex])
           /\ Settled(console) = Without(console, call[g_log_mutex])
<1>1. g_log_mutex # None
    BY LogAssumption
<1> QED
    BY <1>1 DEF Settled, Without

LEMMA SettledFree ==
    ASSUME g_log_mutex = None
    PROVE  Settled(file) = file /\ Settled(console) = console
BY DEF Settled, Before

\* Types the steps below need.
LEMMA OwnerTyped ==
    ASSUME LogInv, NEW t \in Threads, pc[t] \in LockedPCs
    PROVE  /\ g_log_mutex = t /\ call[t] \in Call
           /\ \A u \in Threads : u # t => pc[u] \notin LockedPCs
BY DEF LogInv, Exclusion, CallsOwn, LockedPCs, FilePCs, ErrPCs

LEMMA StreamsTyped ==
    ASSUME LogInv
    PROVE  /\ file \in Seq(Chunk) /\ console \in Seq(Chunk)
           /\ Len(file) \in Nat /\ Len(console) \in Nat /\ flushed \in 0..Len(file)
           /\ g_log_mutex \in Threads \cup {None} /\ pc \in [Threads -> PCs]
           /\ calls \in [Threads -> 0..MaxCalls] /\ call \in [Threads -> Call \cup {None}]
<1>1. /\ file \in Seq(Chunk) /\ console \in Seq(Chunk) /\ flushed \in 0..Len(file)
      /\ g_log_mutex \in Threads \cup {None} /\ pc \in [Threads -> PCs]
      /\ calls \in [Threads -> 0..MaxCalls] /\ call \in [Threads -> Call \cup {None}]
    BY DEF LogInv, TypeOK
<1>2. Len(file) \in Nat /\ Len(console) \in Nat
    BY <1>1
<1> QED
    BY <1>1, <1>2

LEMMA AtomInit == Init => AtomInv /\ Atomic!Init
<1> SUFFICES ASSUME Init
             PROVE  AtomInv /\ Atomic!Init
    OBVIOUS
<1>1. \A t \in Threads : pc[t] \notin LockedPCs
    BY DEF Init, LockedPCs, FilePCs, ErrPCs
<1>2. flushed = Len(file) /\ file = <<>> /\ console = <<>> /\ g_log_mutex = None
    BY EmptySeq DEF Init
<1> QED
    BY <1>1, <1>2, SettledFree DEF AtomInv, Atomic!Init

LEMMA LogWriteSettles ==
    ASSUME LogInv, AtomInv, NEW t \in Threads, LogWrite(t)
    PROVE  AtomInv' /\ Settling
<1>1. /\ UNCHANGED <<file, flushed, console, g_log_mutex>>
      /\ pc[t] = "idle" /\ pc' = [pc EXCEPT ![t] = "lock"]
      /\ \E c : call' = [call EXCEPT ![t] = c]
    BY DEF LogWrite, Goto, streams
<1>2. pc \in [Threads -> PCs] /\ call \in [Threads -> Call \cup {None}] /\ g_log_mutex \in Threads \cup {None}
    BY StreamsTyped
<1>3. \A u \in Threads : u # t => pc'[u] = pc[u] /\ call'[u] = call[u]
    BY <1>1, <1>2
<1>4. pc[t] \notin LockedPCs /\ pc'[t] \notin LockedPCs /\ g_log_mutex # t
    <2>1. pc'[t] = "lock"
        BY <1>1, <1>2
    <2> QED
        BY <1>1, <2>1 DEF LogInv, Exclusion, LockedPCs, FilePCs, ErrPCs
<1>5. AtomInv'
    BY <1>1, <1>3, <1>4 DEF AtomInv, Putting
<1>6. CASE g_log_mutex = None
    <2>1. Settled(file)' = Settled(file) /\ Settled(console)' = Settled(console)
        BY <1>1, <1>6, Zenon DEF Settled
    <2> QED
        BY <1>5, <2>1 DEF Settling
<1>7. CASE g_log_mutex \in Threads
    <2>1. call'[g_log_mutex] = call[g_log_mutex]
        BY <1>3, <1>4, <1>7
    <2>2. Settled(file)' = Settled(file) /\ Settled(console)' = Settled(console)
        BY <1>1, <2>1, Zenon DEF Settled
    <2> QED
        BY <1>5, <2>2 DEF Settling
<1> QED
    BY <1>2, <1>5, <1>6, <1>7

\* A call that has yet to put its first piece has none in the streams.
LEMMA NotBegun ==
    ASSUME LogInv, NEW t \in Threads, pc[t] = "lock"
    PROVE  Begun(file, call[t], 0) /\ Begun(console, call[t], 0) /\ call[t] \in Call
<1>1. /\ call[t] \in Call /\ call[t].by = t /\ call[t].number = calls[t]
      /\ calls[t] \in Nat
    BY DEF LogInv, CallsOwn, TypeOK
<1>2. ASSUME NEW s \in Seq(Chunk), NEW before, Fresh(s, before), "lock" \in before
      PROVE  Begun(s, call[t], 0)
    <2>1. \A i \in DOMAIN s : s[i].call # call[t]
        <3> SUFFICES ASSUME NEW i \in DOMAIN s, s[i].call = call[t]
                     PROVE  FALSE
            OBVIOUS
        <3>1. s[i].call.by = t /\ s[i].call.number = calls[t]
            BY <1>1
        <3>2. calls[t] < calls[t]
            BY <1>2, <3>1 DEF Fresh
        <3> QED
            BY <1>1, <3>2
    <2>2. Len(s) \in Nat /\ DOMAIN s = 1..Len(s) /\ Len(s) - 0 = Len(s)
        OBVIOUS
    <2> QED
        BY <2>1, <2>2 DEF Begun
<1>3. /\ file \in Seq(Chunk) /\ Fresh(file, BeforeFile) /\ "lock" \in BeforeFile
      /\ console \in Seq(Chunk) /\ Fresh(console, BeforeErr) /\ "lock" \in BeforeErr
    BY DEF LogInv, TypeOK, BeforeFile, BeforeErr
<1> QED
    BY <1>1, <1>2, <1>3

LEMMA WithoutNone ==
    ASSUME NEW s \in Seq(Chunk), NEW c \in Call, Begun(s, c, 0)
    PROVE  Without(s, c) = s
<1>1. \A i \in DOMAIN s : s[i].call # c
    <2>1. Len(s) - 0 = Len(s) /\ DOMAIN s = 1..Len(s)
        OBVIOUS
    <2> QED
        BY <2>1 DEF Begun
<1> QED
    BY <1>1 DEF Without, Before, PlacesOf

LEMMA LockSettles ==
    ASSUME LogInv, LogInv', AtomInv, NEW t \in Threads, Lock(t)
    PROVE  AtomInv' /\ Settling
<1>1. /\ UNCHANGED <<file, flushed, console, call>>
      /\ pc[t] = "lock" /\ g_log_mutex = None /\ g_log_mutex' = t
      /\ pc' = [pc EXCEPT ![t] = IF g_log_file THEN "file_head" ELSE AfterFile(t)]
    BY DEF Lock, Acquire, Goto, streams, args
<1>2. Begun(file, call[t], 0) /\ Begun(console, call[t], 0) /\ call[t] \in Call
    BY <1>1, NotBegun
<1>3. flushed = Len(file) /\ Len(file) \in Nat /\ file \in Seq(Chunk) /\ console \in Seq(Chunk)
    BY <1>1, StreamsTyped DEF AtomInv
<1>4. pc'[t] \in {"file_head", "err_head", "unlock"}
      /\ (pc'[t] = "err_head" => IsLoud(call[t])) /\ (pc'[t] = "unlock" => ~IsLoud(call[t]))
    BY <1>1, StreamsTyped DEF AfterFile
<1>5. 0 \in FilePut(pc'[t]) /\ ErrPut(pc'[t], call[t]) = 0
    BY <1>4 DEF FilePut, ErrPut
<1>6. \A u \in Threads : u # t => pc'[u] \notin LockedPCs
    <2>1. pc'[t] \in LockedPCs
        BY <1>4 DEF LockedPCs, FilePCs, ErrPCs
    <2> QED
        BY <2>1, <1>1 DEF LogInv, Exclusion
<1>7. Putting(t)'
    <2>1. flushed' >= Len(file') - 0
        BY <1>1, <1>3
    <2>2. pc'[t] \in ErrPCs => pc'[t] = "err_head"
        BY <1>4 DEF ErrPCs
    <2> QED
        BY <1>1, <1>2, <1>3, <1>4, <1>5, <2>1, <2>2 DEF Putting
<1>8. t # None
    BY LogAssumption
<1>9. AtomInv'
    BY <1>1, <1>6, <1>7, <1>8 DEF AtomInv
<1>10. Settled(file)' = Without(file, call[t]) /\ Settled(console)' = Without(console, call[t])
    BY <1>1, <1>8 DEF Settled, Without
<1> QED
    BY <1>1, <1>2, <1>3, <1>9, <1>10, SettledFree, WithoutNone DEF Settling

\* A piece put by the owner of the mutex is behind what has settled.
LEMMA FileSettles ==
    ASSUME LogInv, LogInv', AtomInv, NEW t \in Threads,
           FileHead(t) \/ FileBody(t) \/ FileEnd(t)
    PROVE  AtomInv' /\ Settling
<1> DEFINE c == call[t]
           k == IF pc[t] = "file_head" THEN 0 ELSE IF pc[t] = "file_body" THEN 1 ELSE 2
           x == Atomic!Record(c)[k + 1]
<1>1. /\ pc[t] \in LockedPCs /\ pc[t] \in FilePCs
      /\ UNCHANGED <<console, g_log_mutex, call>>
    BY DEF FileHead, FileBody, FileEnd, PutFile, args, LockedPCs, FilePCs
<1>2. /\ g_log_mutex = t /\ c \in Call
      /\ \A u \in Threads : u # t => pc[u] \notin LockedPCs
    BY <1>1, OwnerTyped
<1>3. Putting(t)
    BY <1>1 DEF AtomInv
<1>4. k \in 0..2 /\ FilePut(pc[t]) = {k} /\ ErrPut(pc[t], c) = 0
    BY <1>1 DEF FilePut, ErrPut, FilePCs
<1>5. Begun(file, c, k) /\ flushed >= Len(file) - k /\ Begun(console, c, 0)
    BY <1>3, <1>4 DEF Putting
<1>6. /\ file \in Seq(Chunk) /\ console \in Seq(Chunk) /\ Len(file) \in Nat
      /\ flushed \in 0..Len(file) /\ pc \in [Threads -> PCs]
    BY StreamsTyped
<1>7. /\ file' = Append(file, x)
      /\ flushed' = flushed \/ flushed' = Len(file) + 1
      /\ k = 2 => flushed' = Len(file) + 1
      /\ pc' = [pc EXCEPT ![t] = IF k = 0 THEN "file_body" ELSE IF k = 1 THEN "file_end"
                                 ELSE AfterFile(t)]
    <2>1. CASE FileHead(t)
        <3>1. pc[t] = "file_head" /\ k = 0 /\ k + 1 = 1
            BY <2>1 DEF FileHead
        <3>2. x = [call |-> c, part |-> "head"]
            BY <1>2, <3>1, RecordPieces
        <3> QED
            BY <2>1, <3>1, <3>2 DEF FileHead, PutFile, Goto
    <2>2. CASE FileBody(t)
        <3>1. pc[t] = "file_body" /\ k = 1 /\ k + 1 = 2
            BY <2>2 DEF FileBody
        <3>2. x = [call |-> c, part |-> "body"]
            BY <1>2, <3>1, RecordPieces, ZenonT(40)
        <3> QED
            BY <2>2, <3>1, <3>2 DEF FileBody, PutFile, Goto
    <2>3. CASE FileEnd(t)
        <3>1. pc[t] = "file_end" /\ k = 2 /\ k + 1 = 3
            BY <2>3 DEF FileEnd
        <3>2. x = [call |-> c, part |-> "end"]
            <4>1. x = Atomic!Record(c)[3]
                BY <3>1
            <4> HIDE DEF x, k
            <4> QED
                BY <1>2, <4>1, RecordPieces
        <3> QED
            BY <2>3, <3>1, <3>2 DEF FileEnd, PutFile, Goto, Flushes
    <2> QED
        BY <2>1, <2>2, <2>3
<1> HIDE DEF k, x, c
<1>8. /\ Begun(file', c, k + 1) /\ file' \in Seq(Chunk)
      /\ SubSeq(file', 1, Len(file') - (k + 1)) = SubSeq(file, 1, Len(file) - k)
    BY <1>2, <1>4, <1>5, <1>6, <1>7, BegunPut DEF x
<1>9. Len(file') = Len(file) + 1
    BY <1>6, <1>7
<1>10. /\ flushed' >= Len(file') - (k + 1)
       /\ k = 2 => flushed' = Len(file')
    BY <1>4, <1>5, <1>6, <1>7, <1>9
<1>11. /\ pc'[t] \in {"file_body", "file_end", "err_head", "unlock"}
       /\ k = 0 => pc'[t] = "file_body"
       /\ k = 1 => pc'[t] = "file_end"
       /\ k = 2 => pc'[t] = AfterFile(t)
       /\ \A u \in Threads : u # t => pc'[u] = pc[u]
    BY <1>4, <1>6, <1>7 DEF AfterFile
<1>12. /\ k + 1 \in FilePut(pc'[t]) /\ ErrPut(pc'[t], c) = 0
       /\ pc'[t] \in ErrPCs => IsLoud(c)
       /\ pc'[t] \notin {"file_body", "file_end"} => k = 2
    <2>1. k = 0 \/ k = 1 \/ k = 2
        BY <1>4
    <2>2. CASE k = 0
        BY <1>11, <2>2 DEF FilePut, ErrPut, ErrPCs
    <2>3. CASE k = 1
        BY <1>11, <2>3 DEF FilePut, ErrPut, ErrPCs
    <2>4. CASE k = 2
        BY <1>11, <2>4 DEF FilePut, ErrPut, ErrPCs, AfterFile, c
    <2> QED
        BY <2>1, <2>2, <2>3, <2>4
<1>13. Putting(t)'
    <2>1. call'[t] = c
        BY <1>1 DEF c
    <2>2. \E n \in FilePut(pc'[t]) : Begun(file', c, n) /\ flushed' >= Len(file') - n
        BY <1>8, <1>10, <1>12
    <2> QED
        BY <1>1, <1>5, <1>10, <1>12, <2>1, <2>2 DEF Putting
<1>14. t # None
    BY LogAssumption
<1>15. AtomInv'
    BY <1>1, <1>2, <1>11, <1>13, <1>14 DEF AtomInv
<1>16. Settled(file) = Without(file, c) /\ Settled(file)' = Without(file', c)
    BY <1>1, <1>2, <1>14 DEF Settled, Without, c
<1>17. Settled(console)' = Settled(console)
    BY <1>1, Zenon DEF Settled
<1>18. Without(file, c) = Without(file', c)
    BY <1>2, <1>5, <1>6, <1>8, WithoutBegun
<1> QED
    BY <1>15, <1>16, <1>17, <1>18 DEF Settling

LEMMA ErrSettles ==
    ASSUME LogInv, LogInv', AtomInv, NEW t \in Threads,
           ErrHead(t) \/ ErrBody(t) \/ ErrEnd(t)
    PROVE  AtomInv' /\ Settling
<1> DEFINE c == call[t]
           k == IF pc[t] = "err_head" THEN 0 ELSE IF pc[t] = "err_body" THEN 1 ELSE 2
           x == Atomic!Record(c)[k + 1]
<1>1. /\ pc[t] \in LockedPCs /\ pc[t] \in ErrPCs
      /\ UNCHANGED <<file, flushed, g_log_mutex, call>>
    BY DEF ErrHead, ErrBody, ErrEnd, PutErr, args, LockedPCs, ErrPCs
<1>2. /\ g_log_mutex = t /\ c \in Call
      /\ \A u \in Threads : u # t => pc[u] \notin LockedPCs
    BY <1>1, OwnerTyped
<1>3. Putting(t)
    BY <1>1 DEF AtomInv
<1>4. k \in 0..2 /\ FilePut(pc[t]) = {0, 3} /\ ErrPut(pc[t], c) = k
    BY <1>1 DEF FilePut, ErrPut, ErrPCs
<1>5. /\ Begun(console, c, k) /\ IsLoud(c) /\ flushed = Len(file)
      /\ \E n \in {0, 3} : Begun(file, c, n) /\ flushed >= Len(file) - n
    BY <1>1, <1>3, <1>4 DEF Putting, ErrPCs
<1>6. console \in Seq(Chunk) /\ pc \in [Threads -> PCs]
    BY StreamsTyped
<1>7. /\ console' = Append(console, x)
      /\ pc' = [pc EXCEPT ![t] = IF k = 0 THEN "err_body" ELSE IF k = 1 THEN "err_end"
                                 ELSE "unlock"]
    <2>1. CASE ErrHead(t)
        <3>1. pc[t] = "err_head" /\ k = 0 /\ k + 1 = 1
            BY <2>1 DEF ErrHead
        <3>2. x = [call |-> c, part |-> "head"]
            BY <1>2, <3>1, RecordPieces
        <3> QED
            BY <2>1, <3>1, <3>2 DEF ErrHead, PutErr, Goto
    <2>2. CASE ErrBody(t)
        <3>1. pc[t] = "err_body" /\ k = 1 /\ k + 1 = 2
            BY <2>2 DEF ErrBody
        <3>2. x = [call |-> c, part |-> "body"]
            BY <1>2, <3>1, RecordPieces, ZenonT(40)
        <3> QED
            BY <2>2, <3>1, <3>2 DEF ErrBody, PutErr, Goto
    <2>3. CASE ErrEnd(t)
        <3>1. pc[t] = "err_end" /\ k = 2 /\ k + 1 = 3
            BY <2>3 DEF ErrEnd
        <3>2. x = [call |-> c, part |-> "end"]
            <4>1. x = Atomic!Record(c)[3]
                BY <3>1
            <4> HIDE DEF x, k
            <4> QED
                BY <1>2, <4>1, RecordPieces
        <3> QED
            BY <2>3, <3>1, <3>2 DEF ErrEnd, PutErr, Goto
    <2> QED
        BY <2>1, <2>2, <2>3
<1> HIDE DEF k, x, c
<1>8. /\ Begun(console', c, k + 1) /\ console' \in Seq(Chunk)
      /\ SubSeq(console', 1, Len(console') - (k + 1)) = SubSeq(console, 1, Len(console) - k)
    BY <1>2, <1>4, <1>5, <1>6, <1>7, BegunPut DEF x
<1>9. /\ pc'[t] = IF k = 0 THEN "err_body" ELSE IF k = 1 THEN "err_end" ELSE "unlock"
      /\ \A u \in Threads : u # t => pc'[u] = pc[u]
    BY <1>6, <1>7
<1>10. /\ FilePut(pc'[t]) = {0, 3} /\ ErrPut(pc'[t], c) = k + 1
       /\ pc'[t] \notin {"file_body", "file_end"}
    <2>1. k = 0 \/ k = 1 \/ k = 2
        BY <1>4
    <2> QED
        BY <1>5, <1>9, <2>1 DEF FilePut, ErrPut
<1>11. Putting(t)'
    <2>1. call'[t] = c
        BY <1>1 DEF c
    <2> QED
        BY <1>1, <1>5, <1>8, <1>10, <2>1 DEF Putting
<1>12. t # None
    BY LogAssumption
<1>13. AtomInv'
    BY <1>1, <1>2, <1>9, <1>11, <1>12 DEF AtomInv
<1>14. Settled(console) = Without(console, c) /\ Settled(console)' = Without(console', c)
    BY <1>1, <1>2, <1>12 DEF Settled, Without, c
<1>15. Settled(file)' = Settled(file)
    BY <1>1, Zenon DEF Settled
<1>16. Without(console, c) = Without(console', c)
    BY <1>2, <1>5, <1>6, <1>8, WithoutBegun
<1> QED
    BY <1>13, <1>14, <1>15, <1>16 DEF Settling

\* A stream with a whole record, or none of it.
LEMMA BegunWhole ==
    ASSUME NEW s \in Seq(Chunk), NEW c \in Call, NEW k \in {0, 3}, Begun(s, c, k)
    PROVE  s = Without(s, c) \o (IF k = 0 THEN <<>> ELSE Atomic!Record(c))
<1> DEFINE R == Atomic!Record(c)
<1>1. R \in Seq(Chunk) /\ Len(R) = 3
    BY RecordPieces
<1>2. Len(s) \in Nat /\ k <= Len(s) /\ Len(s) - (Len(s) - k) = k /\ Len(s) \in (Len(s) - k)..Len(s)
    BY DEF Begun
<1>3. SubSeq(s, 1, Len(s)) = SubSeq(s, 1, Len(s) - k) \o SubSeq(R, 1, k)
    <2>1. SubSeq(s, 1, Len(s)) =
             SubSeq(s, 1, Len(s) - k) \o SubSeq(R, 1, Len(s) - (Len(s) - k))
        BY <1>2, BegunCut, Zenon
    <2> HIDE DEF R
    <2> QED
        BY <1>2, <2>1
<1>4. SubSeq(s, 1, Len(s)) = s
    <2>1. /\ SubSeq(s, 1, Len(s)) \in Seq(Chunk) /\ Len(SubSeq(s, 1, Len(s))) = Len(s)
          /\ \A i \in 1..Len(s) : SubSeq(s, 1, Len(s))[i] = s[i]
        BY <1>2, Prefix
    <2> QED
        BY <2>1, SeqEqual
<1>5. SubSeq(R, 1, k) = IF k = 0 THEN <<>> ELSE R
    <2> HIDE DEF R
    <2>1. CASE k = 0
        <3>1. 0 \in 0..Len(R)
            BY <1>1
        <3>2. SubSeq(R, 1, 0) \in Seq(Chunk) /\ Len(SubSeq(R, 1, 0)) = 0
            BY <1>1, <3>1, Prefix
        <3> QED
            BY <2>1, <3>2, EmptySeq
    <2>2. CASE k = 3
        <3>1. 3 \in 0..Len(R)
            BY <1>1
        <3>2. /\ SubSeq(R, 1, 3) \in Seq(Chunk) /\ Len(SubSeq(R, 1, 3)) = 3
              /\ \A i \in 1..3 : SubSeq(R, 1, 3)[i] = R[i]
            BY <1>1, <3>1, Prefix
        <3>3. SubSeq(R, 1, 3) = R
            BY <1>1, <3>2, SeqEqual
        <3> QED
            BY <2>2, <3>3
    <2> QED
        BY <2>1, <2>2
<1> QED
    BY <1>3, <1>4, <1>5, WithoutBegun

LEMMA UnlockWrites ==
    ASSUME LogInv, LogInv', AtomInv, NEW t \in Threads, Unlock(t)
    PROVE  AtomInv' /\ Atomic!Next
<1> DEFINE c == call[t]
<1>1. /\ UNCHANGED <<file, flushed, console>> /\ g_log_mutex' = None
      /\ pc[t] = "unlock" /\ pc[t] \in LockedPCs
    BY DEF Unlock, Release, streams, LockedPCs
<1>2. g_log_mutex = t /\ c \in Call /\ t # None
    BY <1>1, OwnerTyped, LogAssumption
<1>3. Putting(t)
    BY <1>1 DEF AtomInv
<1>4. PICK k \in {0, 3} : Begun(file, c, k)
    BY <1>1, <1>3 DEF Putting, FilePut
<1>5. Begun(console, c, IF IsLoud(c) THEN 3 ELSE 0) /\ flushed = Len(file)
    BY <1>1, <1>3 DEF Putting, ErrPut
<1>6. file \in Seq(Chunk) /\ console \in Seq(Chunk)
    BY StreamsTyped
<1>7. AtomInv'
    <2>1. \A u \in Threads : pc'[u] \notin LockedPCs
        BY <1>1, LogAssumption DEF LogInv, Exclusion
    <2> QED
        BY <1>1, <1>5, <2>1 DEF AtomInv
<1>8. /\ Settled(file) = Without(file, c) /\ Settled(console) = Without(console, c)
      /\ Settled(file)' = file /\ Settled(console)' = console
    <2>1. Settled(file) = Without(file, c) /\ Settled(console) = Without(console, c)
        BY <1>2, Zenon DEF Settled, Without
    <2>2. Settled(file)' = file /\ Settled(console)' = console
        BY <1>1 DEF Settled, Before
    <2> QED
        BY <2>1, <2>2
<1>9. file = Without(file, c) \o (IF k = 0 THEN <<>> ELSE Atomic!Record(c))
    BY <1>2, <1>4, <1>6, BegunWhole
<1>10. console = Without(console, c) \o (IF IsLoud(c) THEN Atomic!Record(c) ELSE <<>>)
    <2>1. CASE IsLoud(c)
        <3>1. Begun(console, c, 3)
            BY <1>5, <2>1
        <3>2. console = Without(console, c) \o (IF 3 = 0 THEN <<>> ELSE Atomic!Record(c))
            <4> HIDE DEF c
            <4> QED
                BY <1>2, <1>6, <3>1, BegunWhole
        <3> QED
            BY <2>1, <3>2
    <2>2. CASE ~IsLoud(c)
        BY <1>2, <1>5, <1>6, <2>2, BegunWhole
    <2> QED
        BY <2>1, <2>2
<1>11. Atomic!Write(c)
    <2>1. (IF k = 0 THEN <<>> ELSE Atomic!Record(c)) \in Atomic!FilePieces(c)
        BY DEF Atomic!FilePieces
    <2>2. Atomic!ConsolePiece(c) = IF IsLoud(c) THEN Atomic!Record(c) ELSE <<>>
        BY <1>2 DEF Atomic!ConsolePiece
    <2>3. \E piece \in Atomic!FilePieces(c) : Settled(file)' = Settled(file) \o piece
        BY <1>8, <1>9, <2>1
    <2>4. Settled(console)' = Settled(console) \o Atomic!ConsolePiece(c)
        BY <1>8, <1>10, <2>2
    <2> QED
        BY <2>3, <2>4 DEF Atomic!Write
<1> QED
    BY <1>2, <1>7, <1>11 DEF Atomic!Next

LEMMA CrashTears ==
    ASSUME LogInv, LogInv', AtomInv, Crash
    PROVE  AtomInv' /\ (Settling \/ Atomic!Next)
<1>1. /\ file' = SubSeq(file, 1, flushed) /\ console' = console /\ flushed' = flushed
      /\ g_log_mutex' = None /\ Crashes
    BY DEF Crash
<1>2. /\ file \in Seq(Chunk) /\ console \in Seq(Chunk) /\ Len(file) \in Nat
      /\ flushed \in 0..Len(file) /\ g_log_mutex \in Threads \cup {None}
    BY StreamsTyped
<1>3. AtomInv'
    <2>1. \A u \in Threads : pc'[u] \notin LockedPCs
        BY <1>1, LogAssumption DEF LogInv, Exclusion
    <2>2. Len(file') = flushed'
        BY <1>1, <1>2, Prefix
    <2> QED
        BY <2>1, <2>2 DEF AtomInv
<1>4. Settled(file)' = file' /\ Settled(console)' = console
    BY <1>1 DEF Settled, Before
<1>5. CASE g_log_mutex = None
    <2>1. flushed = Len(file)
        BY <1>5 DEF AtomInv
    <2>2. file' = file
        <3>1. /\ file' \in Seq(Chunk) /\ Len(file') = Len(file)
              /\ \A i \in 1..Len(file) : file'[i] = file[i]
            BY <1>1, <1>2, <2>1, Prefix
        <3> QED
            BY <1>2, <3>1, SeqEqual
    <2> QED
        BY <1>3, <1>4, <1>5, <2>2, SettledFree DEF Settling
<1>6. CASE g_log_mutex \in Threads
    <2> DEFINE t == g_log_mutex
               c == call[t]
               ke == ErrPut(pc[t], c)
               R == Atomic!Record(c)
    <2>1. pc[t] \in LockedPCs
        BY <1>6 DEF LogInv, Exclusion
    <2>2. c \in Call /\ Putting(t)
        BY <1>6, <2>1, OwnerTyped DEF AtomInv
    <2>3. Settled(file) = Without(file, c) /\ Settled(console) = Without(console, c)
        BY <1>6, SettledOwned
    <2>4. PICK k \in FilePut(pc[t]) : Begun(file, c, k) /\ flushed >= Len(file) - k
        BY <2>2 DEF Putting
    <2>5. k \in 0..3 /\ flushed \in (Len(file) - k)..Len(file)
        BY <1>2, <2>4 DEF Begun
    <2>6. /\ flushed - (Len(file) - k) \in 0..3
          /\ file' = Without(file, c) \o SubSeq(R, 1, flushed - (Len(file) - k))
        <3>1. /\ flushed - (Len(file) - k) \in 0..3
              /\ SubSeq(file, 1, flushed) =
                    SubSeq(file, 1, Len(file) - k) \o SubSeq(R, 1, flushed - (Len(file) - k))
            BY <1>2, <2>2, <2>4, <2>5, BegunCut, Zenon
        <3>2. Without(file, c) = SubSeq(file, 1, Len(file) - k)
            BY <1>2, <2>2, <2>4, WithoutBegun, Zenon
        <3> QED
            BY <1>1, <3>1, <3>2, Zenon
    <2>7. Begun(console, c, ke)
        BY <2>2 DEF Putting
    <2>8. ke \in 0..3
        BY <2>7 DEF Begun
    <2>9. CASE ke = 0
        <3>1. Settled(console)' = Settled(console)
            BY <1>2, <1>4, <2>2, <2>3, <2>7, <2>9, WithoutNone
        <3>2. \E piece \in Atomic!Cuts(c) : Settled(file)' = Settled(file) \o piece
            BY <1>4, <2>3, <2>6 DEF Atomic!Cuts
        <3>3. Atomic!Tear(c)
            BY <1>1, <3>1, <3>2 DEF Atomic!Tear
        <3> QED
            BY <1>3, <2>2, <3>3 DEF Atomic!Next
    <2>10. CASE ke # 0
        <3>1. pc[t] \in {"err_body", "err_end", "unlock"} /\ IsLoud(c)
            BY <2>2, <2>10 DEF ErrPut, Putting, ErrPCs
        <3>2. flushed = Len(file) /\ k \in {0, 3}
            BY <2>2, <2>4, <3>1 DEF Putting, FilePut
        <3>3. file' = Without(file, c) \o (IF k = 0 THEN <<>> ELSE R)
            <4>1. file = Without(file, c) \o (IF k = 0 THEN <<>> ELSE R)
                BY <1>2, <2>2, <2>4, <3>2, BegunWhole
            <4>2. /\ file' \in Seq(Chunk) /\ Len(file') = Len(file)
                  /\ \A i \in 1..Len(file) : file'[i] = file[i]
                BY <1>1, <1>2, <3>2, Prefix
            <4>3. file' = file
                BY <1>2, <4>2, SeqEqual
            <4> QED
                BY <4>1, <4>3
        <3>4. \E piece \in Atomic!FilePieces(c) : Settled(file)' = Settled(file) \o piece
            BY <1>4, <2>3, <3>3 DEF Atomic!FilePieces
        <3>5. console = Without(console, c) \o SubSeq(R, 1, ke)
            <4>1. /\ Len(console) \in Nat /\ ke <= Len(console)
                  /\ Len(console) \in (Len(console) - ke)..Len(console)
                  /\ Len(console) - (Len(console) - ke) = ke
                BY <1>2, <2>7, <2>8 DEF Begun
            <4>2. SubSeq(console, 1, Len(console)) =
                     SubSeq(console, 1, Len(console) - ke) \o SubSeq(R, 1, ke)
                <5> HIDE DEF ke
                <5> QED
                    <6>1. SubSeq(console, 1, Len(console)) =
                             SubSeq(console, 1, Len(console) - ke)
                             \o SubSeq(R, 1, Len(console) - (Len(console) - ke))
                        BY <1>2, <2>2, <2>7, <4>1, BegunCut, Zenon
                    <6> HIDE DEF R, c
                    <6> QED
                        BY <4>1, <6>1, Zenon
            <4>3. SubSeq(console, 1, Len(console)) = console
                <5>1. /\ SubSeq(console, 1, Len(console)) \in Seq(Chunk)
                      /\ Len(SubSeq(console, 1, Len(console))) = Len(console)
                      /\ \A i \in 1..Len(console) :
                            SubSeq(console, 1, Len(console))[i] = console[i]
                    BY <1>2, <4>1, Prefix
                <5> QED
                    BY <1>2, <5>1, SeqEqual
            <4> QED
                BY <1>2, <2>2, <2>7, <4>2, <4>3, WithoutBegun
        <3>6. \E cut \in Atomic!Cuts(c) : Settled(console)' = Settled(console) \o cut
            BY <1>4, <2>3, <2>8, <3>5 DEF Atomic!Cuts
        <3>7. c \in {d \in Call : IsLoud(d)}
            BY <2>2, <3>1
        <3>8. Atomic!Tear(c)
            BY <1>1, <3>4, <3>6, <3>7 DEF Atomic!Tear
        <3> QED
            BY <1>3, <2>2, <3>8 DEF Atomic!Next
    <2> QED
        BY <2>9, <2>10
<1> QED
    BY <1>2, <1>5, <1>6

LEMMA AtomStep ==
    LogInv /\ LogInv' /\ AtomInv /\ [Next]_vars => AtomInv' /\ [Atomic!Next]_Atomic!vars
<1> SUFFICES ASSUME LogInv, LogInv', AtomInv, [Next]_vars
             PROVE  AtomInv' /\ (Settling \/ Atomic!Next)
    BY DEF Settling, Atomic!vars
<1>1. ASSUME NEW t \in Threads, LogWrite(t) \/ Step(t)
      PROVE  AtomInv' /\ (Settling \/ Atomic!Next)
    BY <1>1, LogWriteSettles, LockSettles, FileSettles, ErrSettles, UnlockWrites DEF Step
<1>2. CASE UNCHANGED vars
    <2>1. AtomInv'
        BY <1>2 DEF vars, AtomInv, Putting
    <2>2. Settling
        BY <1>2, Zenon DEF vars, streams, args, Settling, Settled
    <2> QED
        BY <2>1, <2>2
<1> QED
    BY <1>1, <1>2, CrashTears DEF Next

\* Whoever sees a stream only up to the record of the thread that holds the mutex
\* sees log_write put whole records in one step, to both streams, and a process
\* that dies leave the beginning of at most one.
THEOREM WritesAtomicallyAlways == Spec => WritesAtomically
<1>1. Init => AtomInv /\ Atomic!Init
    BY AtomInit
<1>2. LogInv /\ LogInv' /\ AtomInv /\ [Next]_vars => AtomInv' /\ [Atomic!Next]_Atomic!vars
    BY AtomStep
<1> QED
    BY <1>1, <1>2, LogInvariance, PTL DEF Spec, WritesAtomically, Atomic!Spec

\* What a dying process takes with it is the end of at most one record, that of the
\* thread inside the mutex.
THEOREM LossOnlyUnderWayAlways == Spec => []LossOnlyUnderWay
<1>1. Init => AtomInv
    BY AtomInit
<1>2. LogInv /\ LogInv' /\ AtomInv /\ [Next]_vars => AtomInv'
    BY AtomStep
<1>3. LogInv /\ AtomInv => LossOnlyUnderWay
    <2> SUFFICES ASSUME LogInv, AtomInv, NEW i \in DOMAIN file, i > flushed
                 PROVE  g_log_mutex # None /\ file[i].call = call[g_log_mutex]
        BY DEF LossOnlyUnderWay
    <2>1. /\ Len(file) \in Nat /\ i \in 1..Len(file) /\ flushed \in Nat
          /\ g_log_mutex \in Threads \cup {None}
        BY DEF LogInv, TypeOK
    <2>2. g_log_mutex # None /\ g_log_mutex \in Threads
        BY <2>1 DEF AtomInv
    <2> DEFINE t == g_log_mutex
    <2>3. Putting(t)
        BY <2>2 DEF AtomInv, LogInv, Exclusion
    <2>4. PICK k \in FilePut(pc[t]) : Begun(file, call[t], k) /\ flushed >= Len(file) - k
        BY <2>3 DEF Putting
    <2>5. PICK n \in 1..k : i = (Len(file) - k) + n
        <3>1. k \in 0..3 /\ i - (Len(file) - k) \in 1..k /\ i = (Len(file) - k) + (i - (Len(file) - k))
            BY <2>1, <2>4 DEF Begun
        <3> QED
            BY <3>1
    <2>6. file[i] = Atomic!Record(call[t])[n] /\ n \in 1..3
        BY <2>4, <2>5 DEF Begun
    <2>7. call[t] \in Call
        BY <2>2, OwnerTyped DEF LogInv, Exclusion
    <2>8. file[i].call = call[t]
        <3>1. \A m \in 1..3 : Atomic!Record(call[t])[m].call = call[t]
            BY <2>7, RecordPieces, Zenon
        <3> QED
            BY <2>6, <3>1, Zenon
    <2> QED
        BY <2>2, <2>8
<1> QED
    BY <1>1, <1>2, <1>3, LogInvariance, PTL DEF Spec

=============================================================================
