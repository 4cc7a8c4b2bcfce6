----------------------------- MODULE BuffersProofs -----------------------------
(***************************************************************************)
(* Theorems about Buffers, for texts, lines, blocks and pieces of any size. *)
(***************************************************************************)
EXTENDS Buffers, TLAPS

\* A block that holds a text, its NUL behind it, and nothing else.
Holds(b, s) ==
    /\ DOMAIN b = 0..Len(s)
    /\ \A i \in 1..Len(s) : b[i - 1] = s[i]
    /\ b[Len(s)] = NUL

NoNul(s) == \A i \in DOMAIN s : s[i] # NUL

\* What was given to the call; only a page has a placeholder.
GivenInv ==
    /\ NoNul(source) /\ NoNul(token)
    /\ hole \in {-1} \cup 0..(Len(source) - Placeholder)
    /\ procedure # "html" => hole = -1

\* Each function has its own places.
PlaceInv ==
    /\ procedure = "curl" => pc \in {"malloc", "curl_easy_init", "headers", "perform",
                                     "error", "done"}
    /\ procedure = "jwks" => pc \in {"fopen", "jwks", "lines", "done"}
    /\ procedure = "html" => pc \in {"fopen", "html", "fill", "done"}
    /\ procedure = "env" => pc \in {"fopen", "env", "done"}
    /\ pc = "done" <=> result # "none"
    /\ pc = "fill" => hole >= 0

\* What the block holds at each place.
Read == SubSeq(source, 1, taken)

BlockInv ==
    /\ DOMAIN block \subseteq 0..(capacity - 1)
    /\ pc \in {"malloc", "fopen", "jwks", "html", "env"} => DOMAIN block = {} /\ taken = 0
    /\ pc \in {"curl_easy_init", "headers"} => Holds(block, <<>>)
    /\ pc \in {"perform", "lines"} => Holds(block, Read)
    /\ pc = "lines" => capacity >= LineSize
    /\ pc = "fill" => Holds(block, source)
    /\ result = "text" => Holds(block, Whole)

\* What a call holds at each place, if no call failed that loses it.
Owned == failed \cap LosingCalls = {}

HeldInv ==
    Owned =>
        /\ pc \in {"malloc", "fopen"} => live = {}
        /\ pc = "curl_easy_init" => live = {"text"}
        /\ pc \in {"headers", "perform", "error"} =>
              "text" \in live /\ live \subseteq {"text", "curl", "headers"}
        /\ pc \in {"jwks", "html", "env"} => live = {"file"}
        /\ pc = "lines" => live = {"file", "text"}
        /\ pc = "fill" => live = {"file_buf"}
        /\ result = "text" => live = {"text"}
        /\ result \in {"NULL", "dead"} => live = {}

BuffersInv ==
    /\ TypeOK
    /\ GivenInv
    /\ PlaceInv
    /\ BlockInv
    /\ PageSentWhole
    /\ HeldInv

-----------------------------------------------------------------------------
(* Texts and blocks *)

LEMMA Concatenation ==
    ASSUME NEW s \in Seq(Int), NEW t \in Seq(Int)
    PROVE  /\ s \o t \in Seq(Int)
           /\ Len(s \o t) = Len(s) + Len(t)
           /\ \A i \in 1..Len(s) : (s \o t)[i] = s[i]
           /\ \A i \in 1..Len(t) : (s \o t)[Len(s) + i] = t[i]
OBVIOUS

LEMMA SameText ==
    ASSUME NEW s \in Seq(Int), NEW t \in Seq(Int), Len(s) = Len(t),
           \A i \in 1..Len(s) : s[i] = t[i]
    PROVE  s = t
OBVIOUS

\* What strcat, memcpy at the size, or a second malloc leaves in a block.
LEMMA WrittenHolds ==
    ASSUME NEW s \in Seq(Int), NEW t \in Seq(Int),
           Holds(block, s) \/ (s = <<>> /\ DOMAIN block = {})
    PROVE  Holds(Written(t, Len(s)), s \o t)
<1> DEFINE b == Written(t, Len(s))
           cells == Len(s)..(Len(s) + Len(t))
<1>1. Len(s) \in Nat /\ Len(t) \in Nat
    OBVIOUS
<1>2. /\ Len(s \o t) = Len(s) + Len(t)
      /\ \A i \in 1..Len(s) : (s \o t)[i] = s[i]
      /\ \A i \in 1..Len(t) : (s \o t)[Len(s) + i] = t[i]
    OBVIOUS
<1>3. /\ \A i \in 1..Len(t) : Append(t, NUL)[i] = t[i]
      /\ Append(t, NUL)[Len(t) + 1] = NUL
    BY DEF NUL
<1>4. DOMAIN b = DOMAIN block \cup cells
    BY DEF Written
<1>5. DOMAIN b = 0..(Len(s) + Len(t))
    BY <1>1, <1>4 DEF Holds
<1>6. \A i \in cells : b[i] = Append(t, NUL)[i - Len(s) + 1]
    BY DEF Written
<1>7. \A i \in DOMAIN block \ cells : b[i] = block[i]
    BY DEF Written
<1>8. ASSUME NEW i \in 1..(Len(s) + Len(t))
      PROVE  b[i - 1] = (s \o t)[i]
    <2>1. CASE i <= Len(s)
        <3>1. s # <<>>
            BY <1>1, <2>1
        <3>2. i \in 1..Len(s) /\ i - 1 \in 0..Len(s) /\ i - 1 \notin cells
            BY <1>1, <2>1
        <3>3. i - 1 \in DOMAIN block /\ block[i - 1] = s[i]
            BY <3>1, <3>2 DEF Holds
        <3> QED
            BY <1>2, <1>7, <3>2, <3>3
    <2>2. CASE i > Len(s)
        <3> DEFINE j == i - Len(s)
        <3>1. j \in 1..Len(t) /\ i = Len(s) + j /\ i - 1 \in cells /\ (i - 1) - Len(s) + 1 = j
            BY <1>1, <2>2
        <3>2. b[i - 1] = Append(t, NUL)[j]
            BY <1>6, <3>1
        <3>3. (s \o t)[i] = t[j]
            BY <1>2, <3>1
        <3> QED
            BY <1>3, <3>1, <3>2, <3>3
    <2> QED
        BY <1>1, <2>1, <2>2
<1>9. b[Len(s) + Len(t)] = NUL
    <2>1. Len(s) + Len(t) \in cells /\ (Len(s) + Len(t)) - Len(s) + 1 = Len(t) + 1
        BY <1>1
    <2> QED
        BY <1>3, <1>6, <2>1
<1> HIDE DEF b
<1>10. Holds(b, s \o t)
    BY <1>2, <1>5, <1>8, <1>9 DEF Holds
<1> QED
    BY <1>10 DEF b

\* strlen and the text itself.
LEMMA TextOfBlock ==
    ASSUME NEW s \in Seq(Int), Holds(block, s), NoNul(s)
    PROVE  Length = Len(s) /\ Text = s
<1> DEFINE IsEnd(n) == block[n] = NUL /\ \A i \in 0..(n - 1) : block[i] # NUL
<1>1. Len(s) \in DOMAIN block /\ Len(s) \in Nat /\ DOMAIN block \subseteq Int
    BY DEF Holds
<1>2. \A i \in 0..(Len(s) - 1) : block[i] # NUL
    <2> SUFFICES ASSUME NEW i \in 0..(Len(s) - 1)
                 PROVE  block[i] # NUL
        OBVIOUS
    <2>1. i + 1 \in 1..Len(s) /\ (i + 1) - 1 = i /\ i + 1 \in DOMAIN s
        BY <1>1
    <2>2. block[(i + 1) - 1] = s[i + 1]
        BY <2>1 DEF Holds
    <2> QED
        BY <2>1, <2>2 DEF NoNul
<1>3. IsEnd(Len(s))
    BY <1>2 DEF Holds
<1>4. ASSUME NEW n \in DOMAIN block, IsEnd(n)
      PROVE  n = Len(s)
    <2>1. n \in 0..Len(s)
        BY DEF Holds
    <2>2. n \notin 0..(Len(s) - 1)
        BY <1>2, <1>4
    <2> QED
        BY <1>1, <2>1, <2>2
<1>5. Length = CHOOSE n \in DOMAIN block : IsEnd(n)
    BY DEF Length
<1> HIDE DEF IsEnd
<1>6. Length = Len(s)
    BY <1>1, <1>3, <1>4, <1>5
<1>7. Text = [i \in 1..Len(s) |-> s[i]]
    BY <1>6 DEF Text, Holds
<1>8. s = [i \in 1..Len(s) |-> s[i]]
    OBVIOUS
<1> QED
    BY <1>6, <1>7, <1>8

\* A piece read, put behind what was read before it.
LEMMA ReadOn ==
    ASSUME NEW s \in Seq(Nat), NEW m \in 0..Len(s), NEW k \in 0..(Len(s) - m)
    PROVE  /\ SubSeq(s, 1, m) \in Seq(Int) /\ Len(SubSeq(s, 1, m)) = m
           /\ SubSeq(s, m + 1, m + k) \in Seq(Int) /\ Len(SubSeq(s, m + 1, m + k)) = k
           /\ SubSeq(s, 1, m) \o SubSeq(s, m + 1, m + k) = SubSeq(s, 1, m + k)
<1> DEFINE a == SubSeq(s, 1, m)
           p == SubSeq(s, m + 1, m + k)
           r == SubSeq(s, 1, m + k)
<1>1. m \in Nat /\ k \in Nat /\ Len(s) \in Nat
    OBVIOUS
<1>2. a \in Seq(Int) /\ Len(a) = m /\ \A i \in 1..m : a[i] = s[i]
    BY <1>1
<1>3. p \in Seq(Int) /\ Len(p) = k /\ \A i \in 1..k : p[i] = s[m + i]
    BY <1>1
<1>4. r \in Seq(Int) /\ Len(r) = m + k /\ \A i \in 1..(m + k) : r[i] = s[i]
    BY <1>1
<1> HIDE DEF a, p, r
<1>5. a \o p \in Seq(Int) /\ Len(a \o p) = m + k
    <2>1. a \in Seq(Int) /\ p \in Seq(Int) /\ Len(a) = m /\ Len(p) = k
        BY <1>2, <1>3
    <2> QED
        BY <2>1, Concatenation
<1>6. ASSUME NEW i \in 1..(m + k)
      PROVE  (a \o p)[i] = s[i]
    <2> a \in Seq(Int) /\ p \in Seq(Int) /\ Len(a) = m /\ Len(p) = k /\ m \in Nat /\ k \in Nat
        BY <1>1, <1>2, <1>3
    <2> USE Concatenation
    <2>1. CASE i <= m
        <3>1. i \in 1..m
            BY <2>1
        <3> QED
            BY <1>2, <3>1
    <2>2. CASE i > m
        <3>1. PICK j \in 1..k : i = m + j
            <4>1. i - m \in 1..k /\ i = m + (i - m)
                BY <1>1, <2>2
            <4> QED
                BY <4>1
        <3>2. (a \o p)[m + j] = p[j]
            OBVIOUS
        <3> QED
            BY <1>3, <3>1, <3>2
    <2> QED
        BY <1>1, <2>1, <2>2, SMTT(20)
<1>7. a \o p = r
    <2>1. Len(a \o p) = Len(r) /\ \A i \in 1..Len(a \o p) : (a \o p)[i] = r[i]
        BY <1>4, <1>5, <1>6
    <2> QED
        BY <1>4, <1>5, <2>1, SameText
<1> QED
    BY <1>2, <1>3, <1>7 DEF a, p, r

LEMMA PartOfText ==
    ASSUME NEW s \in Seq(Int), NoNul(s),
           NEW m \in Int, NEW n \in Int, 1 <= m, m <= n + 1, n <= Len(s)
    PROVE  /\ SubSeq(s, m, n) \in Seq(Int) /\ Len(SubSeq(s, m, n)) = n - m + 1
           /\ NoNul(SubSeq(s, m, n))
<1> DEFINE part == SubSeq(s, m, n)
<1>1. part \in Seq(Int) /\ Len(part) = n - m + 1
    OBVIOUS
<1>2. ASSUME NEW i \in 1..(n - m + 1)
      PROVE  part[i] # NUL
    <2>1. part[i] = s[m + i - 1]
        OBVIOUS
    <2>2. m + i - 1 \in DOMAIN s
        OBVIOUS
    <2> QED
        BY <2>1, <2>2 DEF NoNul
<1> QED
    BY <1>1, <1>2, SMTT(20) DEF NoNul

LEMMA NoNulTogether ==
    ASSUME NEW s \in Seq(Int), NEW t \in Seq(Int), NoNul(s), NoNul(t)
    PROVE  s \o t \in Seq(Int) /\ Len(s \o t) = Len(s) + Len(t) /\ NoNul(s \o t)
<1>1. s \o t \in Seq(Int) /\ Len(s \o t) = Len(s) + Len(t)
    BY Concatenation
<1>2. ASSUME NEW i \in 1..(Len(s) + Len(t))
      PROVE  (s \o t)[i] # NUL
    <2>1. CASE i <= Len(s)
        <3>1. i \in DOMAIN s /\ (s \o t)[i] = s[i]
            BY <2>1
        <3> QED
            BY <3>1 DEF NoNul
    <2>2. CASE i > Len(s)
        <3>1. PICK j \in 1..Len(t) : i = Len(s) + j
            <4>1. i - Len(s) \in 1..Len(t) /\ i = Len(s) + (i - Len(s))
                BY <2>2
            <4> QED
                BY <4>1
        <3>2. j \in DOMAIN t /\ (s \o t)[i] = t[j]
            BY <3>1, Concatenation
        <3> QED
            BY <3>2 DEF NoNul
    <2> QED
        BY <2>1, <2>2
<1> QED
    BY <1>1, <1>2 DEF NoNul

LEMMA Shorter ==
    ASSUME NEW a \in Nat, NEW c \in Nat, c > a
    PROVE  0..a \subseteq 0..(c - 1)
OBVIOUS

LEMMA WithoutEnd ==
    ASSUME NEW s \in Seq(Int)
    PROVE  SubSeq(Append(s, NUL), 1, Len(s)) = s
BY DEF NUL

-----------------------------------------------------------------------------
(* Where a call is, what it was given and what it holds *)

ControlInv == TypeOK /\ GivenInv /\ PlaceInv

LEMMA Places ==
    ASSUME TypeOK, PlaceInv
    PROVE  /\ pc \in {"malloc", "curl_easy_init", "headers", "perform", "error"} =>
                 procedure = "curl"
           /\ pc \in {"jwks", "lines"} => procedure = "jwks"
           /\ pc \in {"html", "fill"} => procedure = "html"
           /\ pc = "env" => procedure = "env"
           /\ pc = "fopen" => procedure \in {"jwks", "html", "env"}
BY DEF TypeOK, PlaceInv, Procedures

LEMMA GivenStays ==
    ASSUME GivenInv, UNCHANGED given
    PROVE  GivenInv'
BY DEF GivenInv, NoNul, given

LEMMA ControlStep ==
    ASSUME ControlInv, [Next]_vars
    PROVE  ControlInv'
<1> USE BuffersAssumption DEF ControlInv
<1>1. GivenInv'
    BY GivenStays DEF Next, vars, given, FirstMalloc, CurlInit, AppendHeader, Perform,
       WriteCallback, TransferFails, CurlError, TransferEnds, OpenFile, AllocateKeys,
       ReadLine, EndOfKeys, MeasureNoKeys, ReadPage, FillPage, SendPage, ReadEnv
<1>2. PlaceInv'
    <2> USE DEF TypeOK, PlaceInv, Procedures, given, Goto, Return
    <2>1. CASE FirstMalloc
        BY <2>1 DEF FirstMalloc
    <2>2. CASE CurlInit
        BY <2>2 DEF CurlInit
    <2>3. CASE AppendHeader
        BY <2>3 DEF AppendHeader
    <2>4. CASE Perform
        BY <2>4 DEF Perform
    <2>5. CASE WriteCallback
        BY <2>5 DEF WriteCallback
    <2>6. CASE TransferFails
        BY <2>6 DEF TransferFails
    <2>7. CASE CurlError
        BY <2>7 DEF CurlError
    <2>8. CASE TransferEnds
        BY <2>8 DEF TransferEnds
    <2>9. CASE OpenFile
        BY <2>9 DEF OpenFile
    <2>10. CASE AllocateKeys
        BY <2>10 DEF AllocateKeys
    <2>11. CASE ReadLine
        BY <2>11 DEF ReadLine
    <2>12. CASE EndOfKeys
        BY <2>12 DEF EndOfKeys
    <2>13. CASE MeasureNoKeys
        BY <2>13 DEF MeasureNoKeys
    <2>14. CASE ReadPage
        BY <2>14 DEF ReadPage
    <2>15. CASE FillPage
        BY <2>15 DEF FillPage
    <2>16. CASE SendPage
        BY <2>16 DEF SendPage
    <2>17. CASE ReadEnv
        BY <2>17 DEF ReadEnv
    <2>18. CASE UNCHANGED vars
        BY <2>18 DEF vars
    <2> QED
        BY <2>1, <2>2, <2>3, <2>4, <2>5, <2>6, <2>7, <2>8, <2>9, <2>10, <2>11,
           <2>12, <2>13, <2>14, <2>15, <2>16, <2>17, <2>18 DEF Next
<1>3. capacity' \in Nat
    <2> USE DEF TypeOK, memory
    <2>1. CASE FirstMalloc
        BY <2>1 DEF FirstMalloc, Written
    <2>2. CASE WriteCallback
        BY <2>2, SMTT(20) DEF WriteCallback, Rest, Written
    <2>3. CASE AllocateKeys
        BY <2>3 DEF AllocateKeys, Written
    <2>4. CASE ReadLine
        <3>1. capacity' \in {capacity, 2 * capacity}
            BY <2>4 DEF ReadLine
        <3> QED
            BY <3>1
    <2>5. CASE ReadPage
        BY <2>5 DEF ReadPage, Written
    <2>6. CASE FillPage
        BY <2>6 DEF FillPage, PlaceInv, GivenInv
    <2>7. CASE ReadEnv
        BY <2>7, SMTT(20) DEF ReadEnv, Written
    <2> QED
        BY <2>1, <2>2, <2>3, <2>4, <2>5, <2>6, <2>7 DEF Next, vars, CurlInit, AppendHeader,
           Perform, TransferFails, CurlError, TransferEnds, OpenFile, EndOfKeys, MeasureNoKeys,
           SendPage
<1>4. live' \subseteq Resources
    BY DEF TypeOK, Resources, Freed, Next, vars, FirstMalloc, CurlInit, AppendHeader, Perform,
       WriteCallback, TransferFails, CurlError, TransferEnds, OpenFile, AllocateKeys,
       ReadLine, EndOfKeys, MeasureNoKeys, ReadPage, FillPage, SendPage, ReadEnv
<1>5. taken' \in Nat /\ (pc' # "headers" => taken' <= Len(source))
    <2> USE DEF TypeOK, PlaceInv, Goto, Return
    <2>1. CASE WriteCallback
        BY <2>1 DEF WriteCallback, Rest, Taken
    <2>2. CASE ReadLine
        BY <2>2 DEF ReadLine, Rest
    <2>3. CASE AppendHeader
        <3>1. pc' = "headers" /\ taken' = taken + 1
            BY <2>3 DEF AppendHeader
        <3> QED
            BY <3>1
    <2>4. CASE Perform
        BY <2>4 DEF Perform
    <2> QED
        BY <2>1, <2>2, <2>3, <2>4 DEF Next, vars, FirstMalloc, CurlInit, TransferFails,
           CurlError, TransferEnds, OpenFile, AllocateKeys, EndOfKeys, MeasureNoKeys,
           ReadPage, FillPage, SendPage, ReadEnv
<1>6. UNCHANGED given
    BY DEF Next, vars, FirstMalloc, CurlInit, AppendHeader, Perform,
       WriteCallback, TransferFails, CurlError, TransferEnds, OpenFile, AllocateKeys,
       ReadLine, EndOfKeys, MeasureNoKeys, ReadPage, FillPage, SendPage, ReadEnv
<1>7. /\ pc' \in {"malloc", "curl_easy_init", "headers", "perform", "error", "fopen",
                  "jwks", "lines", "html", "fill", "env", "done"}
      /\ result' \in {"none", "text", "NULL", "dead"}
    BY DEF TypeOK, PlaceInv, Procedures, Goto, Return, Next, vars, FirstMalloc, CurlInit,
       AppendHeader, Perform, WriteCallback, TransferFails, CurlError, TransferEnds, OpenFile,
       AllocateKeys, ReadLine, EndOfKeys, MeasureNoKeys, ReadPage, FillPage, SendPage, ReadEnv
<1>8. TypeOK'
    BY <1>3, <1>4, <1>5, <1>6, <1>7 DEF TypeOK, given
<1> QED
    BY <1>1, <1>2, <1>8

\* What a call holds follows it from place to place: a call that fails where it loses
\* what it held leaves Owned false for the rest of the behaviour.
LEMMA HeldStep ==
    ASSUME ControlInv, HeldInv, [Next]_vars
    PROVE  HeldInv'
<1> USE DEF ControlInv, HeldInv, Owned, PlaceInv, Goto, Return, Fail, LosingCalls
<1>1. procedure' = procedure
    BY DEF given, Next, vars, FirstMalloc, CurlInit, AppendHeader, Perform,
       WriteCallback, TransferFails, CurlError, TransferEnds, OpenFile, AllocateKeys,
       ReadLine, EndOfKeys, MeasureNoKeys, ReadPage, FillPage, SendPage, ReadEnv
<1>2. ASSUME Owned'
      PROVE  Owned
    BY <1>1, <1>2 DEF Next, vars, FirstMalloc, CurlInit, AppendHeader, Perform,
       WriteCallback, TransferFails, CurlError, TransferEnds, OpenFile, AllocateKeys,
       ReadLine, EndOfKeys, MeasureNoKeys, ReadPage, FillPage, SendPage, ReadEnv
<1>3. CASE FirstMalloc
    BY <1>1, <1>3 DEF FirstMalloc
<1>4. CASE CurlInit
    BY <1>1, <1>4 DEF CurlInit
<1>5. CASE AppendHeader
    BY <1>1, <1>5 DEF AppendHeader
<1>6. CASE Perform
    BY <1>1, <1>6 DEF Perform
<1>7. CASE WriteCallback
    BY <1>1, <1>7 DEF WriteCallback
<1>8. CASE TransferFails
    BY <1>1, <1>8 DEF TransferFails
<1>9. CASE CurlError
    BY <1>1, <1>9 DEF CurlError, Freed
<1>10. CASE TransferEnds
    BY <1>1, <1>10 DEF TransferEnds
<1>11. CASE OpenFile
    BY <1>1, <1>11 DEF OpenFile, TypeOK, Procedures
<1>12. CASE AllocateKeys
    BY <1>1, <1>12 DEF AllocateKeys, TypeOK, Procedures
<1>13. CASE ReadLine
    BY <1>1, <1>13 DEF ReadLine, TypeOK, Procedures
<1>14. CASE EndOfKeys
    BY <1>1, <1>14 DEF EndOfKeys
<1>15. CASE MeasureNoKeys
    BY <1>1, <1>15 DEF MeasureNoKeys
<1>16. CASE ReadPage
    BY <1>1, <1>16 DEF ReadPage
<1>17. CASE FillPage
    BY <1>1, <1>17 DEF FillPage
<1>18. CASE SendPage
    BY <1>1, <1>18 DEF SendPage
<1>19. CASE ReadEnv
    BY <1>1, <1>19 DEF ReadEnv
<1>20. CASE UNCHANGED vars
    BY <1>1, <1>20 DEF vars
<1> QED
    BY <1>3, <1>4, <1>5, <1>6, <1>7, <1>8, <1>9, <1>10, <1>11, <1>12, <1>13, <1>14,
       <1>15, <1>16, <1>17, <1>18, <1>19, <1>20 DEF Next

-----------------------------------------------------------------------------
(* What the block holds *)

\* The page around the JWT.
LEMMA PageFilled ==
    ASSUME ControlInv, hole >= 0
    PROVE  /\ FilledPage \in Seq(Int) /\ NoNul(FilledPage)
           /\ Len(FilledPage) = Len(source) - Placeholder + Len(token)
<1> USE BuffersAssumption
<1> DEFINE front == SubSeq(source, 1, hole)
           back == SubSeq(source, hole + Placeholder + 1, Len(source))
           start == front \o token
<1>1. /\ source \in Seq(Nat) /\ source \in Seq(Int) /\ token \in Seq(Int) /\ hole \in Nat
      /\ Placeholder \in Nat /\ hole + Placeholder <= Len(source)
    BY DEF ControlInv, TypeOK, GivenInv
<1>2. front \in Seq(Int) /\ Len(front) = hole /\ NoNul(front)
    <2>1. NoNul(source) /\ hole <= Len(source) /\ hole \in Int /\ 1 <= hole + 1
        BY <1>1 DEF ControlInv, GivenInv
    <2>2. front \in Seq(Int) /\ Len(front) = hole - 1 + 1 /\ NoNul(front)
        BY <1>1, <2>1, PartOfText
    <2> QED
        BY <2>1, <2>2
<1>3. /\ back \in Seq(Int) /\ Len(back) = Len(source) - (hole + Placeholder)
      /\ NoNul(back)
    <2> DEFINE m == hole + Placeholder + 1
               n == Len(source)
    <2>1. NoNul(source) /\ m \in Int /\ n \in Int /\ 1 <= m /\ m <= n + 1 /\ n <= Len(source)
        BY <1>1 DEF ControlInv, GivenInv
    <2>2. n - m + 1 = Len(source) - (hole + Placeholder)
        BY <1>1
    <2> HIDE DEF m, n
    <2>3. /\ SubSeq(source, m, n) \in Seq(Int) /\ Len(SubSeq(source, m, n)) = n - m + 1
          /\ NoNul(SubSeq(source, m, n))
        BY <1>1, <2>1, PartOfText
    <2> QED
        BY <2>2, <2>3 DEF m, n
<1>4. NoNul(token)
    BY DEF ControlInv, GivenInv
<1> HIDE DEF front, back
<1>5. start \in Seq(Int) /\ Len(start) = hole + Len(token) /\ NoNul(start)
    BY <1>1, <1>2, <1>4, NoNulTogether
<1> HIDE DEF start
<1>6. start \o back \in Seq(Int) /\ Len(start \o back) = Len(start) + Len(back) /\ NoNul(start \o back)
    BY <1>3, <1>4, <1>5, NoNulTogether
<1>7. FilledPage = start \o back
    BY DEF FilledPage, start, front, back
<1>8. Len(start) + Len(back) = Len(source) - Placeholder + Len(token)
    BY <1>1, <1>3, <1>5
<1> QED
    BY <1>6, <1>7, <1>8

LEMMA WholeText ==
    ASSUME ControlInv
    PROVE  Whole \in Seq(Int) /\ NoNul(Whole)
<1>1. CASE hole = -1
    BY <1>1 DEF Whole, ControlInv, TypeOK, GivenInv
<1>2. CASE hole # -1
    <2>1. hole >= 0
        BY <1>2 DEF ControlInv, TypeOK
    <2> QED
        BY <1>2, <2>1, PageFilled DEF Whole
<1> QED
    BY <1>1, <1>2

\* A block that holds a text ends with the NUL behind it.
LEMMA HeldWithin ==
    ASSUME NEW b, NEW s \in Seq(Int), Holds(b, s)
    PROVE  DOMAIN b \subseteq 0..Len(s) /\ Len(s) \in Nat
BY DEF Holds

\* What a callback or a line puts behind the text read so far.
LEMMA PieceWritten ==
    ASSUME source \in Seq(Nat), taken \in Nat, NEW k \in 0..(Len(source) - taken),
           Holds(block, Read)
    PROVE  /\ Holds(Written(Piece(k), taken), SubSeq(source, 1, taken + k))
           /\ Len(SubSeq(source, 1, taken + k)) = taken + k
<1> DEFINE piece == SubSeq(source, taken + 1, taken + k)
           read == SubSeq(source, 1, taken)
<1>1. taken \in 0..Len(source)
    OBVIOUS
<1>2. /\ read \in Seq(Int) /\ Len(read) = taken /\ piece \in Seq(Int)
      /\ read \o piece = SubSeq(source, 1, taken + k)
    BY <1>1, ReadOn, SMTT(20)
<1>3. Holds(block, read)
    BY DEF Read
<1>4. Len(SubSeq(source, 1, taken + k)) = taken + k
    OBVIOUS
<1> HIDE DEF piece, read
<1>5. Holds(Written(piece, Len(read)), read \o piece)
    BY <1>2, <1>3, WrittenHolds
<1> QED
    BY <1>2, <1>4, <1>5 DEF Piece, piece

LEMMA SourceWritten ==
    ASSUME source \in Seq(Int), DOMAIN block = {}
    PROVE  Holds(Written(source, 0), source)
<1>1. <<>> \in Seq(Int) /\ Len(<<>>) = 0 /\ <<>> \o source = source
    OBVIOUS
<1>2. Holds(Written(source, Len(<<>>)), <<>> \o source)
    BY <1>1, WrittenHolds
<1> QED
    BY <1>1, <1>2

LEMMA AllRead ==
    ASSUME ControlInv, procedure # "html", Rest = <<>>
    PROVE  pc # "headers" => Read = Whole
<1> SUFFICES ASSUME pc # "headers"
             PROVE  Read = Whole
    OBVIOUS
<1>1. source \in Seq(Nat) /\ taken \in Nat /\ taken <= Len(source) /\ Len(source) \in Nat
    BY DEF ControlInv, TypeOK
<1>2. Len(Rest) = Len(source) - taken
    BY <1>1 DEF Rest
<1>3. taken = Len(source)
    BY <1>1, <1>2
<1>4. Read = source
    BY <1>1, <1>3 DEF Read
<1>5. hole = -1
    BY DEF ControlInv, GivenInv
<1> QED
    BY <1>4, <1>5 DEF Whole

\* The places differ in what the block holds there; the steps that write it put the
\* next text behind the one before.
LEMMA BlockStep ==
    ASSUME ControlInv, BlockInv, [Next]_vars
    PROVE  BlockInv'
<1> USE DEF PlaceInv, BlockInv, Goto, Return
<1>1. UNCHANGED given /\ ControlInv' /\ Whole' = Whole
    <2>1. UNCHANGED given
        BY DEF Next, vars, FirstMalloc, CurlInit, AppendHeader, Perform,
           WriteCallback, TransferFails, CurlError, TransferEnds, OpenFile, AllocateKeys,
           ReadLine, EndOfKeys, MeasureNoKeys, ReadPage, FillPage, SendPage, ReadEnv
    <2> QED
        BY <2>1, ControlStep DEF given, Whole, FilledPage
<1>2. /\ procedure' = procedure /\ source' = source /\ token' = token /\ hole' = hole
      /\ PlaceInv /\ PlaceInv'
    BY <1>1 DEF given, ControlInv
<1>3. /\ source \in Seq(Nat) /\ source \in Seq(Int) /\ Len(source) \in Nat /\ taken \in Nat
      /\ procedure \in Procedures /\ capacity \in Nat /\ <<>> \in Seq(Int) /\ Len(<<>>) = 0
    BY DEF ControlInv, TypeOK
<1>4. CASE FirstMalloc
    <2>1. CASE UNCHANGED memory /\ pc' = "done" /\ result' = "NULL"
        BY <1>2, <1>4, <2>1 DEF memory
    <2>2. CASE block' = Written(<<>>, 0) /\ capacity' = 1 /\ pc' = "curl_easy_init"
        <3>1. <<>> \o <<>> = <<>> /\ DOMAIN block = {}
            BY <1>4 DEF FirstMalloc
        <3>2. Holds(block', <<>>)
            BY <1>3, <2>2, <3>1, WrittenHolds
        <3>3. DOMAIN block' \subseteq 0..(capacity' - 1)
            BY <1>3, <2>2, <3>2 DEF Holds
        <3> QED
            BY <1>2, <2>2, <3>2, <3>3 DEF ControlInv
    <2> QED
        BY <1>4, <2>1, <2>2 DEF FirstMalloc, memory
<1>5. CASE CurlInit
    BY <1>2, <1>5 DEF CurlInit, memory
<1>6. CASE AppendHeader
    BY <1>2, <1>6 DEF AppendHeader, memory
<1>7. CASE Perform
    <2>1. Read' = <<>> /\ pc' = "perform" /\ UNCHANGED <<block, capacity, result>>
        BY <1>2, <1>3, <1>7 DEF Perform, Read, memory
    <2>2. Holds(block', Read')
        BY <1>7, <2>1 DEF Perform
    <2> QED
        BY <1>2, <1>7, <2>1, <2>2 DEF Perform
<1>8. CASE WriteCallback
    <2>1. CASE UNCHANGED memory /\ UNCHANGED taken /\ pc' \in {"perform", "error"}
        BY <1>2, <1>8, <2>1 DEF WriteCallback, memory, Read
    <2>2. CASE ~(UNCHANGED memory /\ UNCHANGED taken)
        <3>1. PICK k \in 0..(Len(source) - taken) :
                 /\ capacity' = taken + k + 1
                 /\ block' = Written(Piece(k), taken)
                 /\ taken' = taken + k
                 /\ pc' = "perform" /\ UNCHANGED result
            BY <1>3, <1>8, <2>2 DEF WriteCallback, Rest, AtEnd, Taken, ControlInv, TypeOK
        <3>2. Holds(block', Read')
            BY <1>2, <1>3, <1>8, <3>1, PieceWritten DEF WriteCallback, Read
        <3>3. Len(Read') = taken + k
            BY <1>3, <3>1, <1>2, ReadOn DEF Read
        <3> QED
            BY <1>2, <1>3, <1>8, <3>1, <3>2, <3>3 DEF Holds
    <2> QED
        BY <1>8, <2>1, <2>2 DEF WriteCallback
<1>9. CASE TransferFails
    BY <1>2, <1>9 DEF TransferFails, memory
<1>10. CASE CurlError
    BY <1>2, <1>10 DEF CurlError, memory
<1>11. CASE TransferEnds
    <2>1. procedure = "curl" /\ Read = Whole
        BY <1>3, <1>11, AllRead DEF TransferEnds, ControlInv, PlaceInv, Procedures
    <2> QED
        BY <1>1, <1>2, <1>11, <2>1 DEF TransferEnds, memory
<1>12. CASE OpenFile
    <2>1. pc' \in {"jwks", "html", "env", "done"} /\ UNCHANGED <<taken, block, capacity>>
        BY <1>2, <1>3, <1>12 DEF OpenFile, memory, Procedures
    <2> QED
        BY <1>2, <1>12, <2>1 DEF OpenFile
<1>13. CASE AllocateKeys
    <2>1. CASE UNCHANGED memory /\ pc' = "done" /\ result' = "dead"
        BY <1>2, <1>13, <2>1 DEF AllocateKeys, memory
    <2>2. CASE /\ block' = Written(<<>>, 0) /\ capacity' = StartSize
               /\ pc' = "lines" /\ UNCHANGED <<taken, result>>
        <3>1. DOMAIN block = {} /\ taken = 0
            BY <1>13 DEF AllocateKeys
        <3>2. Holds(block', <<>>)
            <4>1. <<>> \o <<>> = <<>>
                OBVIOUS
            <4> QED
                BY <1>3, <2>2, <3>1, <4>1, WrittenHolds
        <3>3. Read' = <<>>
            BY <1>2, <1>3, <2>2, <3>1 DEF Read
        <3>4. DOMAIN block' \subseteq 0..(capacity' - 1)
            BY <1>3, <2>2, <3>2, BuffersAssumption DEF Holds
        <3> QED
            BY <1>2, <1>13, <2>2, <3>2, <3>3, <3>4, BuffersAssumption DEF AllocateKeys
    <2> QED
        BY <1>13, <2>1, <2>2 DEF AllocateKeys, memory
<1>14. CASE EndOfKeys
    <2>1. procedure = "jwks" /\ Read = Whole
        BY <1>3, <1>14, AllRead DEF EndOfKeys, ControlInv, PlaceInv, Procedures
    <2> QED
        BY <1>1, <1>2, <1>14, <2>1 DEF EndOfKeys, memory
<1>15. CASE MeasureNoKeys
    BY <1>2, <1>15 DEF MeasureNoKeys, memory
<1>16. CASE ReadLine
    <2>1. CASE UNCHANGED memory /\ pc' = "done" /\ result' = "NULL"
        BY <1>2, <1>16, <2>1 DEF memory
    <2>2. CASE \E k \in 1..(LineSize - 1) :
                  /\ k <= Len(Rest)
                  /\ capacity' = IF TooSmall(k) THEN 2 * capacity ELSE capacity
                  /\ block' = Written(Piece(k), Length)
                  /\ taken' = taken + k
                  /\ pc' = pc /\ result' = result
        <3>1. PICK k \in 1..(LineSize - 1) :
                  /\ k <= Len(Rest)
                  /\ capacity' = IF TooSmall(k) THEN 2 * capacity ELSE capacity
                  /\ block' = Written(Piece(k), Length)
                  /\ taken' = taken + k
                  /\ pc' = pc /\ result' = result
            BY <2>2
        <3>2. k \in 0..(Len(source) - taken) /\ taken <= Len(source) /\ k \in Nat
              /\ pc = "lines" /\ Holds(block, Read)
            BY <1>3, <1>16, <3>1, BuffersAssumption DEF ReadLine, Rest, ControlInv, TypeOK
        <3>3. Length = taken
            <4>1. Read \in Seq(Int) /\ Len(Read) = taken /\ NoNul(Read)
                <5>1. NoNul(source) /\ 1 <= taken + 1 /\ taken \in Int /\ 1 \in Int
                    BY <1>3 DEF ControlInv, GivenInv
                <5>2. Read \in Seq(Int) /\ Len(Read) = taken - 1 + 1 /\ NoNul(Read)
                    BY <1>3, <3>2, <5>1, PartOfText DEF Read
                <5> QED
                    BY <1>3, <5>2
            <4> QED
                BY <3>2, <4>1, TextOfBlock
        <3>4. Holds(block', Read') /\ Len(Read') = taken + k
            BY <1>2, <1>3, <3>1, <3>2, <3>3, PieceWritten DEF Read
        <3>5. capacity' >= LineSize /\ capacity' >= taken + k + 1
            <4>1. capacity >= LineSize /\ taken \in 0..(capacity - 1) /\ LineSize \in Nat
                BY <1>3, <3>2, BuffersAssumption DEF Holds, Read
            <4>2. CASE taken + k + 1 > capacity
                <5>1. capacity' = 2 * capacity
                    BY <3>1, <3>3, <4>2 DEF TooSmall
                <5> QED
                    BY <1>3, <3>2, <4>1, <5>1
            <4>3. CASE ~(taken + k + 1 > capacity)
                <5>1. capacity' = capacity
                    BY <3>1, <3>3, <4>3 DEF TooSmall
                <5> QED
                    BY <1>3, <3>2, <4>1, <4>3, <5>1
            <4> QED
                BY <4>2, <4>3
        <3>6. DOMAIN block' \subseteq 0..(capacity' - 1)
            <4>1. DOMAIN block' = 0..(taken + k) /\ capacity' \in Nat
                BY <1>1, <3>4 DEF Holds, ControlInv, TypeOK
            <4>2. taken + k \in Nat /\ capacity' > taken + k
                BY <1>3, <3>2, <3>5, <4>1
            <4> QED
                BY <4>1, <4>2, Shorter
        <3> QED
            BY <1>2, <3>1, <3>2, <3>4, <3>5, <3>6 DEF ControlInv
    <2> QED
        BY <1>16, <2>1, <2>2 DEF ReadLine, memory
<1>17. CASE ReadPage
    <2>1. CASE UNCHANGED memory /\ pc' = "done" /\ result' = "NULL"
        BY <1>2, <1>17, <2>1 DEF memory
    <2>2. CASE /\ block' = Written(source, 0) /\ capacity' = Len(source) + 1
               /\ IF hole = -1 THEN pc' = "done" /\ result' = "text"
                  ELSE pc' = "fill" /\ result' = result
        <3>1. Holds(block', source)
            BY <1>3, <1>17, <2>2, SourceWritten DEF ReadPage
        <3>2. DOMAIN block' \subseteq 0..(capacity' - 1)
            BY <1>3, <2>2, <3>1 DEF Holds
        <3>3. hole = -1 => Whole' = source
            BY <1>1 DEF Whole
        <3>4. pc' = "fill" => result' # "text"
            BY <1>2, <2>2
        <3> QED
            BY <1>2, <2>2, <3>1, <3>2, <3>3, <3>4
    <2> QED
        BY <1>17, <2>1, <2>2 DEF ReadPage, memory
<1>18. CASE SendPage
    BY <1>1, <1>2, <1>18 DEF SendPage, memory, Read
<1>19. CASE FillPage
    <2>1. CASE UNCHANGED memory /\ pc' = "done" /\ result' = "NULL"
        BY <1>2, <1>19, <2>1 DEF memory
    <2>2. CASE /\ capacity' = Len(source) - Placeholder + Len(token) + 1
               /\ block' = [i \in 0..Len(FilledPage) |-> Append(FilledPage, NUL)[i + 1]]
               /\ pc' = "done" /\ result' = "text"
        <3>1. hole >= 0
            BY <1>2, <1>19 DEF FillPage
        <3>2. /\ FilledPage \in Seq(Int)
              /\ Len(FilledPage) = Len(source) - Placeholder + Len(token)
            BY <3>1, PageFilled
        <3>3. Holds(block', FilledPage)
            BY <2>2, <3>2 DEF Holds, NUL
        <3>4. DOMAIN block' \subseteq 0..(capacity' - 1)
            BY <2>2, <3>2, <3>3 DEF Holds
        <3>5. Whole' = FilledPage
            BY <1>1, <3>1 DEF Whole
        <3> QED
            BY <1>2, <2>2, <3>3, <3>4, <3>5
    <2> QED
        BY <1>19, <2>1, <2>2 DEF FillPage, memory
<1>20. CASE ReadEnv
    <2>1. CASE UNCHANGED memory /\ pc' = "done" /\ result' = "NULL"
        BY <1>2, <1>20, <2>1 DEF memory
    <2>2. CASE /\ block' = Written(source, 0) /\ capacity' = Len(source) + 1
               /\ pc' = "done" /\ result' = "text"
        <3>1. Holds(block', source)
            BY <1>3, <1>20, <2>2, SourceWritten DEF ReadEnv
        <3>2. DOMAIN block' \subseteq 0..(capacity' - 1)
            BY <1>3, <2>2, <3>1 DEF Holds
        <3>3. Whole' = source
            BY <1>1, <1>2, <1>3, <1>20 DEF ReadEnv, Whole, ControlInv, GivenInv, Procedures
        <3> QED
            BY <1>2, <2>2, <3>1, <3>2, <3>3
    <2> QED
        BY <1>20, <2>1, <2>2 DEF ReadEnv, memory
<1>21. CASE UNCHANGED vars
    BY <1>1, <1>2, <1>21 DEF vars, memory, Read
<1> QED
    BY <1>4, <1>5, <1>6, <1>7, <1>8, <1>9, <1>10, <1>11, <1>12, <1>13, <1>14, <1>15,
       <1>16, <1>17, <1>18, <1>19, <1>20, <1>21 DEF Next

\* snprintf puts all of a response that fits into its buffer, and send sends what it put.
LEMMA PageStep ==
    ASSUME ControlInv, BlockInv, PageSentWhole, [Next]_vars
    PROVE  PageSentWhole'
<1>1. Whole' = Whole
    BY DEF Whole, FilledPage, given, Next, vars, FirstMalloc, CurlInit, AppendHeader, Perform,
       WriteCallback, TransferFails, CurlError, TransferEnds, OpenFile, AllocateKeys,
       ReadLine, EndOfKeys, MeasureNoKeys, ReadPage, FillPage, SendPage, ReadEnv
<1>2. CASE UNCHANGED sent
    BY <1>1, <1>2 DEF PageSentWhole
<1>3. CASE SendPage
    <2> DEFINE page == ResponseHead \o Whole
               response == IF Len(page) < ResponseSize THEN Append(page, NUL)
                           ELSE Append(SubSeq(page, 1, ResponseSize - 1), NUL)
    <2>1. Whole \in Seq(Int) /\ NoNul(Whole) /\ Holds(block, Whole)
        BY <1>3, WholeText DEF SendPage, BlockInv
    <2>2. Text = Whole
        BY <2>1, TextOfBlock
    <2>3. ResponseHead \in Seq(Int)
        BY BuffersAssumption DEF ResponseHead, Cells
    <2>4. page \in Seq(Int) /\ Len(page) \in Nat
        BY <2>1, <2>3, Concatenation
    <2>5. sent' = IF TooLarge(Len(page)) THEN Fallback ELSE SubSeq(response, 1, Len(page))
        BY <1>3, <2>2 DEF SendPage
    <2>6. CASE TooLarge(Len(page))
        BY <2>5, <2>6 DEF PageSentWhole
    <2>7. CASE ~TooLarge(Len(page))
        <3>1. response = Append(page, NUL)
            BY <2>4, <2>7, BuffersAssumption DEF TooLarge
        <3> HIDE DEF page
        <3>2. SubSeq(Append(page, NUL), 1, Len(page)) = page
            BY <2>4, WithoutEnd
        <3>3. sent' = page
            BY <2>5, <2>7, <3>1, <3>2
        <3> QED
            BY <1>1, <3>3 DEF PageSentWhole, page, ResponseHead
    <2> QED
        BY <2>6, <2>7
<1> QED
    BY <1>2, <1>3 DEF Next, vars, FirstMalloc, CurlInit, AppendHeader, Perform,
       WriteCallback, TransferFails, CurlError, TransferEnds, OpenFile, AllocateKeys,
       ReadLine, EndOfKeys, MeasureNoKeys, ReadPage, FillPage, ReadEnv

-----------------------------------------------------------------------------
(* Theorems *)

\* Before a call reads anything, nothing is written, held or sent.
LEMMA BuffersInvInit ==
    ASSUME Init
    PROVE  BuffersInv
<1> USE BuffersAssumption DEF Init
<1>1. /\ source \in Seq(Nat) /\ NoNul(source)
    BY DEF Cells, NoNul, NUL
<1>2. /\ token \in Seq(Int) /\ NoNul(token)
    BY DEF Cells, NoNul, NUL
<1>3. hole \in -1..Len(source) /\ hole \in {-1} \cup 0..(Len(source) - Placeholder)
    BY <1>1
<1>4. TypeOK
    BY <1>1, <1>2, <1>3 DEF TypeOK, Procedures
<1>5. GivenInv /\ PlaceInv
    BY <1>1, <1>2, <1>3 DEF GivenInv, PlaceInv, Procedures
<1>6. BlockInv
    BY DEF BlockInv, Empty
<1>7. PageSentWhole /\ HeldInv
    BY DEF PageSentWhole, HeldInv
<1> QED
    BY <1>4, <1>5, <1>6, <1>7 DEF BuffersInv

LEMMA BuffersInvStep ==
    ASSUME BuffersInv, [Next]_vars
    PROVE  BuffersInv'
BY ControlStep, HeldStep, BlockStep, PageStep DEF BuffersInv, ControlInv

\* A block has the cells its size says and a text in them that ends within it, and every
\* block, handle and file that is held is one that the function called still has to free.
THEOREM BuffersInvariance == Spec => []BuffersInv
BY BuffersInvInit, BuffersInvStep, PTL DEF Spec

\* No cell is written behind the end of its block, whatever is read and in whatever
\* pieces: write_callback, get_jwks and load_html_with_token allocate enough.
THEOREM WithinAllocationAlways == Spec => []WithinAllocation
<1>1. BuffersInv => WithinAllocation
    BY DEF BuffersInv, BlockInv, WithinAllocation, TypeOK
<1> QED
    BY <1>1, BuffersInvariance, PTL

\* What perform_curl_request, get_jwks, load_html_with_token and get_env_value return is
\* all of what there was to be read, and the page sent is all of the page.
THEOREM TextIsWholeAlways == Spec => []TextIsWhole
<1>1. BuffersInv => TextIsWhole
    BY WholeText, TextOfBlock DEF BuffersInv, ControlInv, BlockInv, TextIsWhole
<1> QED
    BY <1>1, BuffersInvariance, PTL

\* A call that ends, early or not, holds the text it returns and nothing else, but where
\* a call failed that loses what was held.
THEOREM NothingLostAlways == Spec => []NothingLost
<1>1. BuffersInv => NothingLost
    BY DEF BuffersInv, TypeOK, HeldInv, Owned, NothingLost
<1> QED
    BY <1>1, BuffersInvariance, PTL
=============================================================================
