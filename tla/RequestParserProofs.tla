-------------------------- MODULE RequestParserProofs --------------------------
(***************************************************************************)
(* Theorems about RequestParser, for any requests and numbers of slots.    *)
(***************************************************************************)
EXTENDS RequestParser, Integers, SequenceTheorems, FiniteSetTheorems,
        WellFoundedInduction, TLAPS

-----------------------------------------------------------------------------
(* Least places *)

LEMMA Least ==
    ASSUME NEW S \in SUBSET Nat, S # {}
    PROVE  \E m \in S : \A k \in S : m <= k
<1> DEFINE R == OpToRel(<, Nat)
<1>1. IsWellFoundedOn(R, Nat)
    BY NatLessThanWellFounded
<1>2. \A x, y \in Nat : y < x => <<y, x>> \in R
    BY DEF OpToRel
<1> HIDE DEF R
<1>3. PICK m \in S : \A k \in S : <<k, m>> \notin R
    BY <1>1, WFMin
<1>4. \A k \in S : ~(k < m) /\ k \in Nat /\ m \in Nat
    BY <1>2, <1>3
<1> QED
    BY <1>4

LEMMA LineEndAtType ==
    ASSUME NEW s \in Seq(Symbols)
    PROVE  LineEndAt(s) \in 0..Len(s)
<1> DEFINE I == {j \in 1..Len(s) : s[j] \in LineEnds}
<1>1. CASE I = {}
    BY <1>1 DEF LineEndAt, SelectInSeq
<1>2. CASE I # {}
    <2>1. I \in SUBSET Nat /\ \A i \in I : i \in 0..Len(s)
        OBVIOUS
    <2>2. PICK m \in I : \A k \in I : m <= k
        <3> HIDE DEF I
        <3> QED
            BY <1>2, <2>1, Least
    <2>3. Min(I) \in I
        <3> HIDE DEF I
        <3> QED
            BY <2>2 DEF Min
    <2> QED
        BY <1>2, <2>1, <2>3 DEF LineEndAt, SelectInSeq
<1> QED
    BY <1>1, <1>2

LEMMA RestType ==
    ASSUME NEW s \in Seq(Symbols)
    PROVE  RestOf(s) \in Seq(Symbols) \cup {NULL}
<1>1. LineEndAt(s) + 1 \in Nat /\ LineEndAt(s) + 1 >= 1 /\ Len(s) \in Nat
    BY LineEndAtType
<1>2. SubSeq(s, LineEndAt(s) + 1, Len(s)) \in Seq(Symbols)
    BY <1>1
<1> QED
    BY <1>2 DEF RestOf

\* The first empty line, symbol by symbol.
LEMMA HeadEndIsFirst ==
    ASSUME NEW b \in Seq(Symbols), BlankAt(b) # {}
    PROVE  LET e == HeadEnd(b) IN
           /\ e \in 1..(Len(b) - 3)
           /\ b[e] = CR /\ b[e + 1] = LF /\ b[e + 2] = CR /\ b[e + 3] = LF
           /\ \A i \in BlankAt(b) : e <= i
<1> DEFINE e == HeadEnd(b)
<1>1. BlankAt(b) \in SUBSET Nat
    BY DEF BlankAt
<1>2. e \in BlankAt(b) /\ \A i \in BlankAt(b) : e <= i
    BY <1>1, Least DEF HeadEnd
<1>3. e \in 1..(Len(b) - 3) /\ SubSeq(b, e, e + 3) = <<CR, LF, CR, LF>>
    BY <1>2 DEF BlankAt, BlankLine
<1>4. /\ SubSeq(b, e, e + 3)[1] = b[e] /\ SubSeq(b, e, e + 3)[2] = b[e + 1]
      /\ SubSeq(b, e, e + 3)[3] = b[e + 2] /\ SubSeq(b, e, e + 3)[4] = b[e + 3]
    <2> HIDE DEF e
    <2> QED
        BY <1>3
<1>5. \A s : s = <<CR, LF, CR, LF>> => s[1] = CR /\ s[2] = LF /\ s[3] = CR /\ s[4] = LF
    OBVIOUS
<1> QED
    BY <1>2, <1>3, <1>4, <1>5

LEMMA BlankIs ==
    ASSUME NEW b \in Seq(Symbols), NEW i \in 1..(Len(b) - 3),
           b[i] = CR, b[i + 1] = LF, b[i + 2] = CR, b[i + 3] = LF
    PROVE  i \in BlankAt(b)
<1>1. /\ SubSeq(b, i, i + 3) \in Seq(Symbols) /\ Len(SubSeq(b, i, i + 3)) = 4
      /\ SubSeq(b, i, i + 3)[1] = b[i] /\ SubSeq(b, i, i + 3)[2] = b[i + 1]
      /\ SubSeq(b, i, i + 3)[3] = b[i + 2] /\ SubSeq(b, i, i + 3)[4] = b[i + 3]
    OBVIOUS
<1>2. BlankLine \in Seq(Symbols) /\ Len(BlankLine) = 4
    BY DEF BlankLine, Symbols, LineEnds
<1>3. \A j \in 1..4 : SubSeq(b, i, i + 3)[j] = BlankLine[j]
    BY <1>1 DEF BlankLine
<1>4. SubSeq(b, i, i + 3) = BlankLine
    BY <1>1, <1>2, <1>3, SeqEqual
<1> QED
    BY <1>4 DEF BlankAt

-----------------------------------------------------------------------------
(* strsep *)

LEMMA LineEndIsFirst ==
    ASSUME NEW s \in Seq(Symbols), NEW i \in 1..Len(s), s[i] \in LineEnds,
           \A j \in 1..(i - 1) : s[j] \notin LineEnds
    PROVE  LineEndAt(s) = i
<1> DEFINE I == {j \in 1..Len(s) : s[j] \in LineEnds}
<1>1. i \in I /\ \A j \in I : i <= j
    OBVIOUS
<1>2. \A k \in I : (\A j \in I : k <= j) => k = i
    BY <1>1
<1>3. Min(I) = i
    BY <1>1, <1>2 DEF Min
<1> QED
    BY <1>1, <1>3 DEF LineEndAt, SelectInSeq

LEMMA NoLineEnd ==
    ASSUME NEW s \in Seq(Symbols), \A j \in 1..Len(s) : s[j] \notin LineEnds
    PROVE  LineEndAt(s) = 0
BY DEF LineEndAt, SelectInSeq

\* What is left of a buffer behind its place p, and that it is as it was received.
Behind(b, p) == SubSeq(b, p + 1, Len(b))

Received(b) ==
    /\ b \in Seq(Symbols)
    /\ \A i \in DOMAIN b : b[i] \in Texts => i > 1 /\ b[i - 1] \in LineEnds

LEMMA SubSeqBehind ==
    ASSUME NEW S, NEW s \in Seq(S), NEW k \in 0..Len(s)
    PROVE  /\ SubSeq(s, k + 1, Len(s)) \in Seq(S)
           /\ Len(SubSeq(s, k + 1, Len(s))) = Len(s) - k
           /\ \A i \in 1..(Len(s) - k) : SubSeq(s, k + 1, Len(s))[i] = s[k + i]
<1>1. Len(s) \in Nat /\ \A i \in 1..Len(s) : s[i] \in S
    OBVIOUS
<1> DEFINE n == Len(s)
           l == SubSeq(s, k + 1, n)
<1>2. n \in Nat /\ k \in 0..n /\ k + 1 \in 1..(n + 1)
    BY <1>1
<1>3. l \in Seq(S) /\ Len(l) = IF k + 1 <= n THEN n - (k + 1) + 1 ELSE 0
    BY <1>1, <1>2, SubSeqProperties
<1>4. \A i \in 1..(n - (k + 1) + 1) : l[i] = s[(k + 1) + i - 1]
    BY <1>1, <1>2, SubSeqProperties
<1> HIDE DEF n, l
<1>5. n - (k + 1) + 1 = n - k /\ (~(k + 1 <= n) => n - k = 0)
    BY <1>2
<1>6. Len(l) = n - k
    BY <1>3, <1>5
<1>7. \A i \in 1..(n - k) : (k + 1) + i - 1 = k + i
    BY <1>2
<1> QED
    BY <1>3, <1>4, <1>5, <1>6, <1>7 DEF n, l

LEMMA BehindSeq ==
    ASSUME NEW b \in Seq(Symbols), NEW p \in 0..Len(b)
    PROVE  /\ Behind(b, p) \in Seq(Symbols)
           /\ Len(Behind(b, p)) = Len(b) - p
           /\ \A i \in 1..(Len(b) - p) : Behind(b, p)[i] = b[p + i]
           /\ \A q \in 1..Len(Behind(b, p)) :
                 SubSeq(Behind(b, p), q + 1, Len(Behind(b, p))) = Behind(b, p + q)
<1>1. /\ Behind(b, p) \in Seq(Symbols)
      /\ Len(Behind(b, p)) = Len(b) - p
      /\ \A i \in 1..(Len(b) - p) : Behind(b, p)[i] = b[p + i]
    BY SubSeqBehind DEF Behind
<1>2. ASSUME NEW q \in 1..Len(Behind(b, p))
      PROVE  SubSeq(Behind(b, p), q + 1, Len(Behind(b, p))) = Behind(b, p + q)
    <2>0. Len(b) \in Nat
        OBVIOUS
    <2>1. p + q \in 0..Len(b) /\ p \in Nat /\ q \in Nat /\ Len(b) \in Nat
        BY <1>1, <2>0
    <2> DEFINE t == Behind(b, p)
               l == SubSeq(t, q + 1, Len(t))
    <2>2. /\ l \in Seq(Symbols) /\ Len(l) = Len(b) - (p + q)
          /\ \A i \in 1..(Len(b) - (p + q)) : l[i] = Behind(b, p)[q + i]
        <3>1. t \in Seq(Symbols) /\ Len(t) = Len(b) - p /\ q \in 0..Len(t)
            BY <1>1, <2>1
        <3> HIDE DEF t
        <3>2. /\ l \in Seq(Symbols) /\ Len(l) = Len(t) - q
              /\ \A i \in 1..(Len(t) - q) : l[i] = t[q + i]
            BY <3>1, SubSeqBehind
        <3>3. Len(t) - q = Len(b) - (p + q)
            BY <2>1, <3>1
        <3> QED
            BY <3>2, <3>3 DEF t
    <2>4. \A i \in 1..(Len(b) - (p + q)) :
              q + i \in 1..(Len(b) - p) /\ Behind(b, p)[q + i] = b[p + (q + i)]
        <3>1. \A i \in 1..(Len(b) - (p + q)) : q + i \in 1..(Len(b) - p)
            BY <2>1
        <3> QED
            BY <1>1, <3>1
    <2>3. /\ Behind(b, p + q) \in Seq(Symbols) /\ Len(Behind(b, p + q)) = Len(b) - (p + q)
          /\ \A i \in 1..(Len(b) - (p + q)) : Behind(b, p + q)[i] = b[p + q + i]
        BY <2>1, SubSeqBehind DEF Behind
    <2>5. Len(l) = Len(Behind(b, p + q)) /\ \A i \in 1..Len(l) : l[i] = Behind(b, p + q)[i]
        <3>1. \A i \in 1..(Len(b) - (p + q)) : p + (q + i) = p + q + i
            BY <2>1
        <3> QED
            BY <2>2, <2>3, <2>4, <3>1
    <2> HIDE DEF l
    <2> QED
        BY <2>2, <2>3, <2>5, SeqEqual DEF l
<1> QED
    BY <1>1, <1>2

\* strsep behind a line end: an empty token up to the next line end, or else a text.
LEMMA EmptyToken ==
    ASSUME NEW b, Received(b), NEW p \in 0..(Len(b) - 1), b[p + 1] \in LineEnds
    PROVE  TokenOf(Behind(b, p)) = "" /\ RestOf(Behind(b, p)) = Behind(b, p + 1)
<1> DEFINE s == Behind(b, p)
<1>1. /\ b \in Seq(Symbols) /\ p \in 0..Len(b)
      /\ s \in Seq(Symbols) /\ Len(s) >= 1 /\ s[1] \in LineEnds
    BY BehindSeq DEF Received
<1>2. LineEndAt(s) = 1
    BY <1>1, LineEndIsFirst
<1>3. RestOf(s) = Behind(b, p + 1)
    BY <1>1, <1>2, BehindSeq DEF RestOf
<1>4. SubSeq(s, 1, 0) = <<>>
    BY <1>1
<1> QED
    BY <1>2, <1>3, <1>4 DEF TokenOf

LEMMA LastToken ==
    TokenOf(<<>>) = "" /\ RestOf(<<>>) = NULL
<1>1. LineEndAt(<<>>) = 0
    <2>1. <<>> \in Seq(Symbols) /\ Len(<<>>) = 0
        BY EmptySeq
    <2>2. \A j \in 1..0 : <<>>[j] \notin LineEnds
        OBVIOUS
    <2> QED
        BY <2>1, <2>2, NoLineEnd
<1> QED
    BY <1>1 DEF TokenOf, RestOf

LEMMA TextToken ==
    ASSUME NEW b, Received(b), NEW p \in 1..(Len(b) - 1), b[p + 1] \in Texts
    PROVE  /\ TokenOf(Behind(b, p)) = b[p + 1]
           /\ IF p + 1 = Len(b) THEN RestOf(Behind(b, p)) = NULL
              ELSE b[p + 2] \in LineEnds /\ RestOf(Behind(b, p)) = Behind(b, p + 2)
<1> DEFINE s == Behind(b, p)
<1>0. b \in Seq(Symbols) /\ p \in 0..Len(b) /\ p \in Nat /\ Len(b) \in Nat
    BY DEF Received
<1>1. /\ s \in Seq(Symbols) /\ Len(s) = Len(b) - p
      /\ \A i \in 1..Len(s) : s[i] = b[p + i]
      /\ s[1] = b[p + 1]
    <2>1. /\ s \in Seq(Symbols) /\ Len(s) = Len(b) - p
          /\ \A i \in 1..(Len(b) - p) : s[i] = b[p + i]
        BY <1>0, BehindSeq
    <2>2. 1 \in 1..(Len(b) - p)
        BY <1>0
    <2> QED
        BY <2>1, <2>2
<1>2. b[p + 1] \notin LineEnds
    BY ParserAssumption DEF LineEnds, CR, LF
<1>3. CASE p + 1 = Len(b)
    <2>1. LineEndAt(s) = 0
        <3>1. \A i \in 1..Len(s) : i = 1
            BY <1>0, <1>1, <1>3
        <3> QED
            BY <1>1, <1>2, <3>1, NoLineEnd
    <2>2. s # <<>> /\ Head(s) = b[p + 1]
        BY <1>0, <1>1, <1>3, EmptySeq
    <2> QED
        BY <1>3, <2>1, <2>2 DEF TokenOf, RestOf
<1>4. CASE p + 1 # Len(b)
    <2>1. b[p + 2] \in LineEnds
        <3>1. p + 2 \in DOMAIN b
            BY <1>0, <1>4
        <3>2. (p + 2) - 1 = p + 1
            BY <1>0
        <3>3. b[p + 2] \notin Texts
            BY <1>2, <3>1, <3>2 DEF Received
        <3> QED
            BY <1>0, <3>1, <3>3 DEF Symbols
    <2>2. LineEndAt(s) = 2
        <3>1. 2 \in 1..Len(s) /\ s[2] \in LineEnds /\ s[1] \notin LineEnds
            BY <1>0, <1>1, <1>2, <1>4, <2>1
        <3>2. \A j \in 1..(2 - 1) : j = 1
            OBVIOUS
        <3> QED
            BY <1>1, <3>1, <3>2, LineEndIsFirst
    <2>3. RestOf(s) = Behind(b, p + 2)
        <3>1. 2 \in 1..Len(s)
            BY <1>0, <1>1, <1>4
        <3> QED
            BY <1>0, <2>2, <3>1, BehindSeq DEF RestOf
    <2>4. SubSeq(s, 1, 1) # <<>> /\ Head(SubSeq(s, 1, 1)) = b[p + 1]
        <3>1. Len(SubSeq(s, 1, 1)) = 1 /\ SubSeq(s, 1, 1)[1] = s[1]
            BY <1>0, <1>1, <1>4
        <3> QED
            BY <1>1, <3>1, EmptySeq
    <2> QED
        BY <1>4, <2>1, <2>2, <2>3, <2>4 DEF TokenOf
<1> QED
    BY <1>3, <1>4

-----------------------------------------------------------------------------
(* Slots *)

SlotsInv ==
    /\ SlotsSuffice
    /\ pc \in {"method", "params", "first_line"} =>
          buffer = request.rest /\ headers = <<>> /\ empty_header_count = 0
    /\ pc = "headers" => empty_header_count \in 0..1

LEMMA RequestTyped ==
    ASSUME request \in Request
    PROVE  /\ request.path \in Seq({"", "segment"})
           /\ request.query \in Seq({"pair", "flag"})
           /\ request.rest \in Seq(Symbols) /\ Received(request.rest)
BY DEF Request, Received

LEMMA SlotsInit == Init => SlotsInv
<1> SUFFICES ASSUME Init
             PROVE  SlotsInv
    OBVIOUS
<1>1. request \in Request
    BY ParserAssumption DEF Init
<1>2. /\ request.path \in Seq({"", "segment"}) /\ request.query \in Seq({"pair", "flag"})
      /\ request.rest \in Seq(Symbols)
    BY <1>1, RequestTyped
<1>3. TypeOK
    <2>1. headers \in Seq(Texts \cup {RequestLine}) /\ param_count \in Nat /\ segment_count \in Nat
          /\ empty_header_count \in 0..2 /\ body \in Seq(Symbols) \cup {NULL}
        BY EmptySeq DEF Init
    <2> QED
        BY <1>1, <1>2, <2>1 DEF Init, TypeOK
<1>4. Len(headers) = 0 /\ MaxParams \in Nat /\ MaxHeaders \in Nat /\ Slots \in Nat \ {0}
    BY EmptySeq, ParserAssumption DEF Init
<1> QED
    BY <1>3, <1>4 DEF Init, SlotsInv, SlotsSuffice

LEMMA HeaderSlots ==
    ASSUME SlotsInv, ReadHeader
    PROVE  SlotsInv'
<1> DEFINE token == TokenOf(buffer)
<1>1. /\ buffer \in Seq(Symbols) /\ buffer' = RestOf(buffer)
      /\ headers \in Seq(Texts \cup {RequestLine}) /\ Len(headers) <= MaxHeaders /\ MaxHeaders \in Nat
    BY ParserAssumption DEF SlotsInv, SlotsSuffice, TypeOK, ReadHeader
<1>2. buffer' \in Seq(Symbols) \cup {NULL}
    BY <1>1, RestType
<1>3. /\ pc' \in {"headers", "body", "done"}
      /\ error' \in {"OK", "INVALID_HTTP_METHOD", "INVALID_PAYLOAD", "INVALID_HEADER"}
      /\ empty_header_count' \in 0..2 /\ (pc' = "headers" => empty_header_count' \in 0..1)
    <2>0. pc = "headers" /\ empty_header_count \in 0..1
        BY DEF ReadHeader, SlotsInv
    <2>1. pc = "headers" /\ (empty_header_count = 0 \/ empty_header_count = 1)
        BY <2>0
    <2>2. /\ pc' \in {"headers", "body", "done"} /\ error' \in {error, "INVALID_HEADER"}
          /\ \/ empty_header_count' = empty_header_count
             \/ empty_header_count' = 0
             \/ /\ empty_header_count' = empty_header_count + 1
                /\ pc' = IF empty_header_count + 1 > 1 THEN "body" ELSE "headers"
        BY <2>1 DEF ReadHeader, EndsHeaders, CountAtHeader, Return
    <2>3. error \in {"OK", "INVALID_HTTP_METHOD", "INVALID_PAYLOAD", "INVALID_HEADER"}
        BY DEF SlotsInv, SlotsSuffice, TypeOK
    <2> QED
        BY <2>1, <2>2, <2>3
<1>4. \/ headers' = headers
      \/ /\ Len(headers) < MaxHeaders /\ token \in Texts \cup {RequestLine}
         /\ headers' = Append(headers, token)
    BY ParserAssumption DEF ReadHeader
<1>5. headers' \in Seq(Texts \cup {RequestLine}) /\ Len(headers') <= MaxHeaders
    <2> HIDE DEF token
    <2> QED
        BY <1>1, <1>4
<1> QED
    BY <1>2, <1>3, <1>5 DEF ReadHeader, SlotsInv, SlotsSuffice, TypeOK

LEMMA SlotsStep == SlotsInv /\ [Next]_vars => SlotsInv'
<1> SUFFICES ASSUME SlotsInv, [Next]_vars
             PROVE  SlotsInv'
    OBVIOUS
<1>1. /\ query \in Seq({"pair", "flag"}) /\ path \in Seq({"", "segment"})
      /\ request \in Request /\ buffer \in Seq(Symbols) \cup {NULL}
      /\ param_count \in Nat /\ param_count <= MaxParams /\ MaxParams \in Nat
      /\ segment_count \in Nat /\ segment_count < Slots /\ Slots \in Nat \ {0}
    BY ParserAssumption DEF SlotsInv, SlotsSuffice, TypeOK
<1>2. CASE ReadRequestLine
    BY <1>2 DEF ReadRequestLine, Return, SlotsInv, SlotsSuffice, TypeOK
<1>3. CASE ReadParam
    <2>1. query' \in Seq({"pair", "flag"})
        BY <1>1, <1>3, HeadTailProperties DEF ReadParam
    <2>2. param_count' \in Nat /\ param_count' <= MaxParams /\ pc' \in {"params", "first_line"}
        <3>1. pc' \in {"params", "first_line"}
              /\ \/ param_count' = param_count
                 \/ /\ param_count < MaxParams
                    /\ param_count' = param_count + (IF Head(query) = "pair" THEN 1 ELSE 0)
            BY <1>3 DEF ReadParam
        <3>2. param_count \in Nat /\ param_count <= MaxParams /\ MaxParams \in Nat
            BY <1>1
        <3> HIDE <1>3
        <3> QED
            BY <3>1, <3>2
    <2> QED
        BY <1>3, <2>1, <2>2 DEF ReadParam, SlotsInv, SlotsSuffice, TypeOK
<1>4. CASE ReadFirstLine
    <2>1. request.rest \in Seq(Symbols) /\ buffer = request.rest
        BY <1>1, <1>4, RequestTyped DEF ReadFirstLine, SlotsInv
    <2>2. RestOf(buffer) \in Seq(Symbols) \cup {NULL}
        BY <2>1, RestType
    <2>3. pc' \in {"headers", "done"} /\ error' \in {error, "INVALID_HEADER"}
        BY <1>4 DEF ReadFirstLine, Return
    <2>4. empty_header_count = 0 /\ 0 \in 0..1
        BY <1>4 DEF ReadFirstLine, SlotsInv
    <2>5. headers' \in Seq(Texts \cup {RequestLine}) /\ Len(headers') <= MaxHeaders
        <3>1. headers = <<>> /\ (headers' = headers \/ headers' = Append(headers, RequestLine))
            BY <1>4 DEF ReadFirstLine, SlotsInv
        <3>2. RequestLine \in Texts \cup {RequestLine}
            OBVIOUS
        <3>3. MaxHeaders \in Nat \ {0}
            BY ParserAssumption
        <3>4. \A T : \A l \in T : /\ <<>> \in Seq(T) /\ Len(<<>>) <= 1
                                   /\ Append(<<>>, l) \in Seq(T) /\ Len(Append(<<>>, l)) <= 1
            OBVIOUS
        <3>5. headers' \in Seq(Texts \cup {RequestLine}) /\ Len(headers') <= 1
              /\ Len(headers') \in Nat
            <4>1. headers' \in Seq(Texts \cup {RequestLine}) /\ Len(headers') <= 1
                BY <3>1, <3>2, <3>4, Zenon
            <4> QED
                BY <4>1
        <3> QED
            BY <3>3, <3>5
    <2> QED
        BY <1>4, <2>2, <2>3, <2>4, <2>5 DEF ReadFirstLine, SlotsInv, SlotsSuffice, TypeOK
<1>5. CASE ReadHeader
    BY <1>5, HeaderSlots
<1>6. CASE NoMoreTokens
    BY <1>6 DEF NoMoreTokens, SlotsInv, SlotsSuffice, TypeOK
<1>7. CASE ReadBody
    <2>1. buffer # NULL => BodyIn(buffer) \in Seq(Symbols)
        BY <1>1, HeadTailProperties DEF BodyIn
    <2> QED
        BY <1>7, <2>1 DEF ReadBody, SlotsInv, SlotsSuffice, TypeOK
<1>8. CASE ReadSegment
    <2>1. path' \in Seq({"", "segment"})
        BY <1>1, <1>8, HeadTailProperties DEF ReadSegment
    <2>2. segment_count' \in Nat /\ segment_count' < Slots
        <3>1. segment_count' = segment_count
              \/ (segment_count' = segment_count + 1 /\ ~TooMany(segment_count))
            BY <1>8 DEF ReadSegment
        <3>2. segment_count \in Nat /\ segment_count < Slots /\ Slots \in Nat
            BY <1>1
        <3> QED
            BY <3>1, <3>2 DEF TooMany
    <2>3. pc' \in {"segments", "done"} /\ error' \in {error, "INVALID_PAYLOAD"}
        BY <1>8 DEF ReadSegment, Return
    <2> QED
        BY <1>8, <2>1, <2>2, <2>3 DEF ReadSegment, SlotsInv, SlotsSuffice, TypeOK
<1>9. CASE Finish
    BY <1>9 DEF Finish, Return, SlotsInv, SlotsSuffice, TypeOK
<1>10. CASE UNCHANGED vars
    BY <1>10 DEF vars, SlotsInv, SlotsSuffice, TypeOK
<1> QED
    BY <1>2, <1>3, <1>4, <1>5, <1>6, <1>7, <1>8, <1>9, <1>10 DEF Next

\* However many parameters, headers and segments a request has, parse_request
\* writes each to a slot of its arrays.
THEOREM SlotsSufficeAlways == Spec => []SlotsSuffice
<1>1. SlotsInv => SlotsSuffice
    BY DEF SlotsInv
<1> QED
    BY <1>1, SlotsInit, SlotsStep, PTL DEF Spec

-----------------------------------------------------------------------------
(* Places of the header loop *)

Stored(b) == {i \in LinesOf(b) : b[i] \notin WithVersion}
UpTo(S, p) == {j \in S : j <= p}

\* The loop stands behind the line end at p, with c empty tokens in a row and n
\* headers stored: it has not passed the empty line, and nothing was lost or taken twice.
Placed(b, p, c, n) ==
    /\ p \in 1..Len(b) /\ b[p] \in LineEnds
    /\ BlankAt(b) # {} => p <= HeadEnd(b) + 1 /\ (p = HeadEnd(b) + 1 => c = 1)
    /\ n = Cardinality(UpTo(Stored(b), p))
    /\ Ordinary(b) => c = IF b[p] = CR THEN 0 ELSE 1

LEMMA StoredFinite ==
    ASSUME NEW b \in Seq(Symbols)
    PROVE  /\ Stored(b) \subseteq LinesOf(b) /\ LinesOf(b) \in SUBSET Nat
           /\ IsFiniteSet(LinesOf(b)) /\ IsFiniteSet(Stored(b))
<1>1. HeadLength(b) \in Nat
    <2>1. CASE BlankAt(b) = {}
        BY <2>1 DEF HeadLength
    <2>2. CASE BlankAt(b) # {}
        BY <2>2, HeadEndIsFirst DEF HeadLength
    <2> QED
        BY <2>1, <2>2
<1>2. IsFiniteSet(1..HeadLength(b)) /\ LinesOf(b) \subseteq 1..HeadLength(b)
    BY <1>1, FS_Interval DEF LinesOf
<1>3. Stored(b) \subseteq LinesOf(b)
    BY DEF Stored
<1> QED
    BY <1>1, <1>2, <1>3, FS_Subset

LEMMA UpToStep ==
    ASSUME NEW S \in SUBSET Nat, IsFiniteSet(S), NEW p \in Nat
    PROVE  /\ Cardinality(UpTo(S, p)) \in Nat
           /\ Cardinality(UpTo(S, p)) <= Cardinality(S)
           /\ p + 1 \in S => Cardinality(UpTo(S, p + 1)) = Cardinality(UpTo(S, p)) + 1
           /\ p + 1 \notin S => Cardinality(UpTo(S, p + 1)) = Cardinality(UpTo(S, p))
<1>1. UpTo(S, p) \subseteq S
    BY DEF UpTo
<1>2. IsFiniteSet(UpTo(S, p)) /\ Cardinality(UpTo(S, p)) <= Cardinality(S)
    BY <1>1, FS_Subset
<1>3. Cardinality(UpTo(S, p)) \in Nat
    BY <1>2, FS_CardinalityType
<1>0. /\ \A j \in S : j <= p + 1 <=> j <= p \/ j = p + 1
      /\ ~(p + 1 <= p)
    OBVIOUS
<1>4. ASSUME p + 1 \in S
      PROVE  Cardinality(UpTo(S, p + 1)) = Cardinality(UpTo(S, p)) + 1
    <2>1. UpTo(S, p + 1) = UpTo(S, p) \cup {p + 1} /\ p + 1 \notin UpTo(S, p)
        BY <1>0, <1>4, Zenon DEF UpTo
    <2> QED
        BY <1>2, <2>1, FS_AddElement
<1>5. ASSUME p + 1 \notin S
      PROVE  UpTo(S, p + 1) = UpTo(S, p)
    BY <1>0, <1>5, Zenon DEF UpTo
<1> QED
    BY <1>2, <1>3, <1>4, <1>5

\* A text behind a place of the loop is a line of the head, and the empty line
\* starts behind it.
LEMMA TextIsLine ==
    ASSUME NEW b, Received(b), NEW c, NEW n, NEW p \in 1..(Len(b) - 1),
           Placed(b, p, c, n), b[p + 1] \in Texts
    PROVE  /\ p + 1 \in LinesOf(b)
           /\ BlankAt(b) # {} => p + 2 <= HeadEnd(b)
<1>0. b \in Seq(Symbols) /\ p \in Nat /\ Len(b) \in Nat
    BY DEF Received
<1>1. b[p + 1] # CR /\ b[p + 1] # LF
    BY ParserAssumption DEF CR, LF
<1>2. CASE BlankAt(b) = {}
    BY <1>0, <1>2 DEF LinesOf, HeadLength
<1>3. CASE BlankAt(b) # {}
    <2> DEFINE e == HeadEnd(b)
    <2>1. e \in 1..(Len(b) - 3) /\ b[e] = CR /\ b[e + 1] = LF /\ b[e + 2] = CR
        BY <1>0, <1>3, HeadEndIsFirst
    <2>2. p <= e + 1
        BY <1>3 DEF Placed
    <2> HIDE DEF e
    <2>3. p + 1 # e /\ p + 1 # e + 1 /\ p + 1 # e + 2
        BY <1>1, <2>1
    <2>4. p + 2 <= e
        BY <1>0, <2>1, <2>2, <2>3
    <2> QED
        BY <1>0, <1>3, <2>1, <2>4 DEF LinesOf, HeadLength, e
<1> QED
    BY <1>2, <1>3

\* A place that holds no text is no line.
LEMMA EndIsNoLine ==
    ASSUME NEW b, NEW i, b[i] \in LineEnds
    PROVE  i \notin Stored(b)
BY ParserAssumption DEF Stored, LinesOf, LineEnds, CR, LF

\* In an ordinary request a line end up to the empty line has its partner.
LEMMA EndsPaired ==
    ASSUME NEW b, Received(b), Ordinary(b), NEW i \in 1..(HeadEnd(b) + 3)
    PROVE  /\ b[i] = CR => b[i + 1] = LF
           /\ b[i] = LF => i > 1 /\ b[i - 1] = CR
BY DEF Ordinary, WellFormed, EndsInCRLF

LEMMA PlacedFirst ==
    ASSUME NEW b, Received(b), b # <<>>
    PROVE  Placed(b, 1, 0, 0) /\ RestOf(b) = Behind(b, 1)
<1>0. b \in Seq(Symbols) /\ Len(b) \in Nat /\ Len(b) >= 1
    BY EmptySeq DEF Received
<1>1. b[1] \in LineEnds
    <2>1. 1 \in DOMAIN b /\ ~(1 > 1)
        BY <1>0
    <2>2. b[1] \notin Texts
        BY <2>1 DEF Received
    <2> QED
        BY <1>0, <2>1, <2>2 DEF Symbols
<1>2. LineEndAt(b) = 1
    BY <1>0, <1>1, LineEndIsFirst
<1>3. RestOf(b) = Behind(b, 1)
    BY <1>2 DEF RestOf, Behind
<1>4. BlankAt(b) # {} => HeadEnd(b) >= 1
    BY <1>0, HeadEndIsFirst
<1>5. UpTo(Stored(b), 1) = {}
    BY <1>0, <1>1, EndIsNoLine, StoredFinite DEF UpTo, Stored, LinesOf
<1>6. Ordinary(b) => b[1] = CR
    <2> SUFFICES ASSUME Ordinary(b)
                 PROVE  b[1] = CR
        OBVIOUS
    <2>1. HeadEnd(b) \in 1..(Len(b) - 3)
        BY <1>0, HeadEndIsFirst DEF Ordinary, WellFormed
    <2>2. 1 \in 1..(HeadEnd(b) + 3)
        BY <2>1
    <2> QED
        BY <1>1, <2>2, EndsPaired DEF LineEnds
<1>7. BlankAt(b) # {} => HeadEnd(b) \in Nat
    BY <1>0, HeadEndIsFirst
<1>8. 1 \in 1..Len(b)
    BY <1>0
<1>10. 0 = Cardinality(UpTo(Stored(b), 1))
    BY <1>5, FS_EmptySet, Zenon
<1>9. BlankAt(b) # {} => 1 <= HeadEnd(b) + 1 /\ 1 # HeadEnd(b) + 1
    BY <1>4, <1>7
<1> QED
    BY <1>1, <1>3, <1>6, <1>8, <1>9, <1>10, Zenon DEF Placed

\* The first empty token in a row.
LEMMA PlacedEmpty ==
    ASSUME NEW b, Received(b), NEW n, NEW p \in 1..(Len(b) - 1),
           Placed(b, p, 0, n), b[p + 1] \in LineEnds
    PROVE  Placed(b, p + 1, 1, n)
<1>0. b \in Seq(Symbols) /\ p \in Nat /\ p >= 1 /\ Len(b) \in Nat /\ p + 1 \in 1..Len(b)
    BY DEF Received
<1>1. n = Cardinality(UpTo(Stored(b), p + 1))
    <2>1. p + 1 \notin Stored(b)
        BY EndIsNoLine
    <2>2. Stored(b) \in SUBSET Nat /\ IsFiniteSet(Stored(b))
        BY <1>0, StoredFinite
    <2>3. Cardinality(UpTo(Stored(b), p + 1)) = Cardinality(UpTo(Stored(b), p))
        BY <1>0, <2>1, <2>2, UpToStep
    <2> QED
        BY <2>3 DEF Placed
<1>2. ASSUME BlankAt(b) # {}
      PROVE  p <= HeadEnd(b) /\ HeadEnd(b) \in Nat
    <2>1. HeadEnd(b) \in Nat
        BY <1>0, <1>2, HeadEndIsFirst
    <2>2. p <= HeadEnd(b) + 1 /\ p # HeadEnd(b) + 1
        BY <1>2 DEF Placed
    <2> QED
        BY <1>0, <2>1, <2>2
<1>3. BlankAt(b) # {} => p + 1 <= HeadEnd(b) + 1
    BY <1>0, <1>2
<1>4. Ordinary(b) => b[p + 1] # CR
    <2> SUFFICES ASSUME Ordinary(b)
                 PROVE  b[p + 1] # CR
        OBVIOUS
    <2>1. p \in 1..(HeadEnd(b) + 3)
        BY <1>0, <1>2 DEF Ordinary, WellFormed
    <2>2. b[p] = CR
        BY DEF Placed, Ordinary, WellFormed
    <2> QED
        BY <2>1, <2>2, EndsPaired DEF CR, LF
<1> QED
    BY <1>0, <1>1, <1>3, <1>4 DEF Placed

\* A text, behind which the loop stands at the next line end.
LEMMA PlacedText ==
    ASSUME NEW b, Received(b), NEW c, NEW n \in Nat, NEW p \in 1..(Len(b) - 2),
           Placed(b, p, c, n), b[p + 1] \in Texts, b[p + 2] \in LineEnds
    PROVE  /\ b[p + 1] \notin WithVersion => Placed(b, p + 2, 0, n + 1)
           /\ b[p + 1] \in WithVersion => Placed(b, p + 2, c, n)
<1>0. /\ b \in Seq(Symbols) /\ p \in Nat /\ p >= 1 /\ Len(b) \in Nat /\ p + 2 \in 1..Len(b)
      /\ p \in 1..(Len(b) - 1) /\ p + 1 \in Nat /\ (p + 1) + 1 = p + 2
    BY DEF Received
<1>1. p + 1 \in LinesOf(b) /\ (BlankAt(b) # {} => p + 2 <= HeadEnd(b))
    BY <1>0, TextIsLine
<1>2. BlankAt(b) # {} => p + 2 <= HeadEnd(b) + 1 /\ p + 2 # HeadEnd(b) + 1 /\ p + 2 \in 1..(HeadEnd(b) + 3)
    <2>1. BlankAt(b) # {} => HeadEnd(b) \in Nat
        BY <1>0, HeadEndIsFirst
    <2> QED
        BY <1>0, <1>1, <2>1
<1>3. Cardinality(UpTo(Stored(b), p + 2)) =
         IF b[p + 1] \in WithVersion THEN n ELSE n + 1
    <2>1. p + 2 \notin Stored(b)
        BY EndIsNoLine
    <2>2. Stored(b) \in SUBSET Nat /\ IsFiniteSet(Stored(b))
        BY <1>0, StoredFinite
    <2>3. Cardinality(UpTo(Stored(b), p + 2)) = Cardinality(UpTo(Stored(b), p + 1))
        BY <1>0, <2>1, <2>2, UpToStep
    <2>4. Cardinality(UpTo(Stored(b), p + 1)) =
             IF p + 1 \in Stored(b) THEN Cardinality(UpTo(Stored(b), p)) + 1
             ELSE Cardinality(UpTo(Stored(b), p))
        BY <1>0, <2>2, UpToStep
    <2>5. p + 1 \in Stored(b) <=> b[p + 1] \notin WithVersion
        BY <1>1 DEF Stored
    <2>6. n = Cardinality(UpTo(Stored(b), p))
        BY DEF Placed
    <2> QED
        BY <2>3, <2>4, <2>5, <2>6
<1>4. Ordinary(b) => b[p + 2] = CR /\ b[p + 1] \notin WithVersion
    <2> SUFFICES ASSUME Ordinary(b)
                 PROVE  b[p + 2] = CR /\ b[p + 1] \notin WithVersion
        OBVIOUS
    <2>1. p + 2 \in 1..(HeadEnd(b) + 3)
        BY <1>2 DEF Ordinary, WellFormed
    <2>2. b[p + 2] = LF => b[(p + 2) - 1] = CR
        BY <2>1, EndsPaired
    <2>3. (p + 2) - 1 = p + 1
        BY <1>0
    <2>4. b[p + 1] # CR
        BY ParserAssumption DEF CR
    <2> QED
        BY <1>1, <2>2, <2>3, <2>4 DEF Ordinary, WellFormed, LineEnds
<1> QED
    BY <1>0, <1>2, <1>3, <1>4, Zenon DEF Placed

\* In an ordinary request two empty tokens in a row are its empty line.
LEMMA BreakAtHeadEnd ==
    ASSUME NEW b, Received(b), Ordinary(b), NEW n, NEW p \in 1..(Len(b) - 1),
           Placed(b, p, 1, n), b[p + 1] \in LineEnds
    PROVE  p = HeadEnd(b) + 1 /\ n = Cardinality(Stored(b))
<1> DEFINE e == HeadEnd(b)
<1>0. /\ b \in Seq(Symbols) /\ p \in Nat /\ p >= 1 /\ p <= Len(b) - 1 /\ Len(b) \in Nat
      /\ BlankAt(b) # {}
    BY DEF Received, Ordinary, WellFormed
<1>1. /\ e \in 1..(Len(b) - 3) /\ p <= e + 1
      /\ \A i \in BlankAt(b) : e <= i
    BY <1>0, HeadEndIsFirst DEF Placed
<1>2. e \in Nat /\ p \in 1..(e + 3) /\ p + 1 \in 1..(e + 3) /\ p + 2 <= Len(b)
    BY <1>0, <1>1
<1>3. b[p] = LF
    BY DEF Placed, LineEnds
<1>4. p > 1 /\ b[p - 1] = CR
    BY <1>2, <1>3, EndsPaired
<1>5. b[p + 1] = CR
    <2>1. b[p + 1] = LF => b[(p + 1) - 1] = CR
        BY <1>2, EndsPaired
    <2>2. (p + 1) - 1 = p
        BY <1>0
    <2> QED
        BY <1>3, <2>1, <2>2 DEF LineEnds, CR, LF
<1>6. b[p + 2] = LF
    <2>1. b[(p + 1) + 1] = LF
        BY <1>2, <1>5, EndsPaired
    <2>2. (p + 1) + 1 = p + 2
        BY <1>0
    <2> QED
        BY <2>1, <2>2
<1>7. p - 1 \in BlankAt(b)
    <2>1. /\ p - 1 \in 1..(Len(b) - 3) /\ (p - 1) + 1 = p /\ (p - 1) + 2 = p + 1
          /\ (p - 1) + 3 = p + 2
        BY <1>0, <1>1, <1>2, <1>4
    <2> QED
        BY <1>0, <1>3, <1>4, <1>5, <1>6, <2>1, BlankIs
<1>8. p = e + 1
    BY <1>0, <1>1, <1>2, <1>7
<1>9. UpTo(Stored(b), p) = Stored(b)
    <2>1. \A j \in Stored(b) : j \in 1..e
        BY <1>0 DEF Stored, LinesOf, HeadLength
    <2>2. \A j \in 1..e : j <= p
        BY <1>2, <1>8
    <2> QED
        BY <2>1, <2>2 DEF UpTo
<1> QED
    BY <1>8, <1>9 DEF Placed

-----------------------------------------------------------------------------
(* The invariant of the parser *)

\* The request line is a header, the first, where it does not hold "HTTP/1.1".
Base == IF request.http11 THEN 0 ELSE 1
OrdinaryRequest == request.http11 /\ Ordinary(request.rest)

\* Where the header loop stands in the request.
Standing(p) ==
    /\ buffer = Behind(request.rest, p)
    /\ Placed(request.rest, p, empty_header_count, Len(headers) - Base)

AtHeaders ==
    pc = "headers" =>
        /\ buffer = NULL \/ \E p \in 1..Len(request.rest) : Standing(p)
        /\ OrdinaryRequest => buffer # NULL

AllStored == Len(headers) = Cardinality(Stored(request.rest))

AtBody ==
    pc = "body" /\ OrdinaryRequest =>
        buffer = Behind(request.rest, HeadEnd(request.rest) + 2) /\ AllStored

AfterBody ==
    (pc = "segments" \/ Parsed) /\ OrdinaryRequest =>
        body = BodySent(request.rest) /\ AllStored

ParserInv == SlotsInv /\ HeadersFromHead /\ AtHeaders /\ AtBody /\ AfterBody

LEMMA ParserTyped ==
    ASSUME ParserInv
    PROVE  /\ Received(request.rest) /\ request.rest \in Seq(Symbols)
           /\ Len(request.rest) \in Nat
           /\ headers \in Seq(Texts \cup {RequestLine}) /\ Len(headers) \in Nat
           /\ buffer \in Seq(Symbols) \cup {NULL}
           /\ NULL \notin Seq(Symbols)
<1>1. request \in Request /\ headers \in Seq(Texts \cup {RequestLine}) /\ buffer \in Seq(Symbols) \cup {NULL}
    BY DEF ParserInv, SlotsInv, SlotsSuffice, TypeOK
<1>2. Received(request.rest) /\ request.rest \in Seq(Symbols)
    BY <1>1, RequestTyped
<1>3. Len(request.rest) \in Nat /\ Len(headers) \in Nat
    BY <1>1, <1>2
<1>4. NULL \notin Seq(Symbols)
    BY ParserAssumption
<1> QED
    BY <1>1, <1>2, <1>3, <1>4, Zenon

\* A stored line stays stored, and the next is the next of the head.
LEMMA HeadersNext ==
    ASSUME HeadersFromHead, headers \in Seq(Texts \cup {RequestLine}), UNCHANGED request,
           NEW token \in Texts \cup {RequestLine}, headers' = Append(headers, token),
           NEW i, i \in HeaderLines, token = LineAt(i),
           Cardinality(UpTo(HeaderLines, i)) = Len(headers) + 1
    PROVE  HeadersFromHead'
<1>1. /\ Len(headers) \in Nat /\ DOMAIN headers = 1..Len(headers)
      /\ DOMAIN headers' = 1..(Len(headers) + 1)
      /\ \A n \in 1..Len(headers) : headers'[n] = headers[n]
      /\ headers'[Len(headers) + 1] = token
    OBVIOUS
<1>2. HeaderLines' = HeaderLines /\ \A j : LineAt(j)' = LineAt(j)
    BY DEF HeaderLines, LineAt
<1>3. SUFFICES ASSUME NEW n \in DOMAIN headers'
               PROVE  \E j \in HeaderLines : headers'[n] = LineAt(j)
                         /\ Cardinality(UpTo(HeaderLines, j)) = n
    BY <1>2 DEF HeadersFromHead, TakenFrom, UpTo
<1>4. CASE n \in DOMAIN headers
    BY <1>1, <1>4 DEF HeadersFromHead, TakenFrom, UpTo
<1>5. CASE n = Len(headers) + 1
    BY <1>1, <1>5
<1>6. n \in 1..(Len(headers) + 1) /\ Len(headers) \in Nat
    BY <1>1, <1>3
<1>7. n \in 1..Len(headers) \/ n = Len(headers) + 1
    BY <1>6
<1> QED
    BY <1>1, <1>4, <1>5, <1>7, Zenon

\* The header lines up to a place are those behind the request line and, where it
\* is one, the request line.
LEMMA BaseLines ==
    ASSUME NEW p \in Nat, request.rest \in Seq(Symbols)
    PROVE  Cardinality(UpTo(HeaderLines, p)) =
              Cardinality(UpTo(Stored(request.rest), p)) + Base
<1> DEFINE S == UpTo(Stored(request.rest), p)
<1>1. Stored(request.rest) \in SUBSET Nat /\ IsFiniteSet(Stored(request.rest))
    BY StoredFinite
<1>2. S \subseteq Stored(request.rest) /\ 0 \notin S
    BY DEF UpTo, Stored, LinesOf
<1>3. IsFiniteSet(S) /\ Cardinality(S) \in Nat
    BY <1>1, <1>2, FS_Subset, FS_CardinalityType
<1>4. CASE request.http11
    <2>1. UpTo(HeaderLines, p) = S /\ Base = 0
        BY <1>4 DEF UpTo, HeaderLines, Stored, Base
    <2>2. Cardinality(UpTo(HeaderLines, p)) = Cardinality(S) /\ Cardinality(S) \in Nat
        BY <1>3, <2>1, Zenon
    <2> HIDE DEF S
    <2> QED
        BY <2>1, <2>2 DEF S
<1>5. CASE ~request.http11
    <2>1. UpTo(HeaderLines, p) = S \cup {0} /\ Base = 1
        BY <1>5 DEF UpTo, HeaderLines, Stored, Base
    <2> HIDE DEF S
    <2>2. Cardinality(S \cup {0}) = Cardinality(S) + 1
        BY <1>2, <1>3, FS_AddElement
    <2> QED
        BY <2>1, <2>2 DEF S
<1> QED
    BY <1>4, <1>5

LEMMA ParserInit == Init => ParserInv
<1> SUFFICES ASSUME Init
             PROVE  ParserInv
    OBVIOUS
<1>1. SlotsInv
    BY SlotsInit
<1>2. pc = "method" /\ DOMAIN headers = {}
    BY EmptySeq DEF Init
<1>3. HeadersFromHead
    BY <1>2 DEF HeadersFromHead, TakenFrom
<1> QED
    BY <1>1, <1>2, <1>3 DEF ParserInv, AtHeaders, AtBody, AfterBody, Parsed

\* Steps that leave the header loop's state as it is.
LEMMA ElsewhereKeeps ==
    ASSUME ParserInv, UNCHANGED <<request, buffer, empty_header_count, headers>>
    PROVE  /\ HeadersFromHead'
           /\ AllStored <=> AllStored'
BY SMTT(20) DEF ParserInv, HeadersFromHead, TakenFrom, HeaderLines, LineAt, AllStored

LEMMA FirstLineParsed ==
    ASSUME ParserInv, ReadFirstLine
    PROVE  HeadersFromHead' /\ AtHeaders' /\ AtBody' /\ AfterBody'
<1> DEFINE b == request.rest
<1>1. /\ Received(b) /\ b \in Seq(Symbols) /\ buffer = b /\ buffer' = RestOf(b)
      /\ headers = <<>> /\ empty_header_count = 0 /\ Len(headers) = 0
      /\ UNCHANGED <<request, empty_header_count>>
    BY ParserTyped, EmptySeq DEF ParserInv, SlotsInv, ReadFirstLine
<1>2. \/ pc' = "headers" /\ headers' = headers /\ request.http11
      \/ pc' = "headers" /\ headers' = Append(headers, RequestLine) /\ ~request.http11
      \/ pc' = "done" /\ error' = "INVALID_HEADER" /\ headers' = headers
    BY DEF ReadFirstLine, Return
<1>3. HeadersFromHead' /\ (pc' = "headers" => Len(headers') = Base)
    <2>1. CASE headers' = headers
        <3>1. HeadersFromHead'
            BY <1>1, <2>1 DEF ParserInv, HeadersFromHead, TakenFrom, HeaderLines, LineAt
        <3>2. pc' = "headers" => request.http11
            <4>1. ASSUME headers' = Append(headers, RequestLine)
                  PROVE  FALSE
                <5>1. headers = <<>> /\ headers' = <<>> /\ headers' = Append(<<>>, RequestLine)
                    BY <1>1, <2>1, <4>1
                <5>2. \A l : Append(<<>>, l) # <<>>
                    OBVIOUS
                <5> QED
                    BY <5>1, <5>2, Zenon
            <4> QED
                BY <1>2, <4>1
        <3> QED
            BY <1>1, <2>1, <3>1, <3>2 DEF Base
    <2>2. CASE headers' = Append(headers, RequestLine) /\ ~request.http11
        <3>1. Len(headers') = 1 /\ Base = 1
            <4>1. headers' = Append(<<>>, RequestLine)
                BY <1>1, <2>2
            <4>2. \A l : Len(Append(<<>>, l)) = 1
                OBVIOUS
            <4> QED
                BY <2>2, <4>1, <4>2, Zenon DEF Base
        <3>3. 0 \in HeaderLines /\ RequestLine = LineAt(0)
            BY <2>2 DEF HeaderLines, LineAt
        <3>4. Cardinality(UpTo(HeaderLines, 0)) = Len(headers) + 1
            <4>1. UpTo(Stored(b), 0) = {}
                BY DEF UpTo, Stored, LinesOf
            <4>2. Cardinality(UpTo(HeaderLines, 0)) = Cardinality(UpTo(Stored(b), 0)) + Base
                BY <1>1, BaseLines
            <4> QED
                BY <1>1, <3>1, <4>1, <4>2, FS_EmptySet
        <3>5. HeadersFromHead'
            <4>1. /\ UNCHANGED request /\ RequestLine \in Texts \cup {RequestLine}
                  /\ headers \in Seq(Texts \cup {RequestLine}) /\ HeadersFromHead
                BY <1>1, ParserTyped DEF ParserInv
            <4> QED
                BY <2>2, <3>3, <3>4, <4>1, HeadersNext
        <3> QED
            BY <3>1, <3>5
    <2> QED
        BY <1>2, <2>1, <2>2
<1>4. CASE b = <<>>
    <2>1. buffer' = NULL
        BY <1>1, <1>4, LastToken
    <2>2. BlankAt(b) = {}
        BY <1>4, EmptySeq DEF BlankAt
    <2>3. AtHeaders'
        BY <1>1, <2>1, <2>2 DEF AtHeaders, OrdinaryRequest, Ordinary, WellFormed
    <2> QED
        BY <1>2, <1>3, <2>3 DEF AtBody, AfterBody, Parsed
<1>5. CASE b # <<>>
    <2>1. Placed(b, 1, 0, 0) /\ buffer' = Behind(b, 1)
        BY <1>1, <1>5, PlacedFirst
    <2>2. 1 \in 1..Len(b)
        BY <2>1 DEF Placed
    <2>3. pc' = "headers" => Standing(1)'
        <3>1. pc' = "headers" => Len(headers') - Base = 0
            BY <1>3 DEF Base
        <3> QED
            BY <1>1, <2>1, <3>1 DEF Standing, Base
    <2>4. Behind(b, 1) \in Seq(Symbols)
        BY <1>1, <2>2, BehindSeq DEF Received
    <2>5. buffer' # NULL
        BY <2>1, <2>4, ParserAssumption
    <2>6. AtHeaders'
        BY <1>1, <2>2, <2>3, <2>5 DEF AtHeaders
    <2> QED
        BY <1>2, <1>3, <2>6 DEF AtBody, AfterBody, Parsed
<1> QED
    BY <1>4, <1>5

LEMMA BodyParsed ==
    ASSUME ParserInv, ReadBody
    PROVE  AfterBody'
<1> SUFFICES ASSUME OrdinaryRequest
             PROVE  body' = BodySent(request.rest) /\ AllStored'
    BY DEF ReadBody, AfterBody, OrdinaryRequest
<1> DEFINE b == request.rest
           e == HeadEnd(b)
           s == Behind(b, e + 2)
<1>1. buffer = s /\ AllStored
    BY DEF ParserInv, AtBody, ReadBody
<1>2. /\ b \in Seq(Symbols) /\ e \in 1..(Len(b) - 3) /\ b[e + 3] = LF /\ Len(b) \in Nat
    BY ParserTyped, HeadEndIsFirst DEF OrdinaryRequest, Ordinary, WellFormed
<1>3. e + 2 \in 0..Len(b) /\ e \in Nat /\ 1 \in 1..(Len(b) - (e + 2)) /\ (e + 2) + 1 = e + 3
      /\ (e + 2) + 1 \in 1..Len(b) /\ (e + 3) + 1 = e + 4
    BY <1>2
<1>4. s \in Seq(Symbols) /\ Len(s) = Len(b) - (e + 2) /\ s[1] = b[e + 3]
    BY <1>2, <1>3, BehindSeq
<1>5. s # <<>> /\ Head(s) = LF /\ Tail(s) = SubSeq(s, 2, Len(s)) /\ s # NULL
    <2>1. Len(s) >= 1
        BY <1>2, <1>3, <1>4
    <2>2. s # NULL
        BY <1>4, ParserAssumption
    <2> HIDE DEF s
    <2> QED
        BY <1>2, <1>4, <2>1, <2>2, EmptySeq
<1>6. SubSeq(s, 1 + 1, Len(s)) = Behind(b, (e + 2) + 1)
    <2>1. 1 \in 1..Len(s)
        BY <1>3, <1>4
    <2> QED
        BY <1>2, <1>3, <2>1, BehindSeq
<1>7. body' = BodySent(b)
    <2>1. body' = Tail(s)
        BY <1>1, <1>5 DEF ReadBody, BodyIn
    <2>2. 1 + 1 = 2
        OBVIOUS
    <2> QED
        BY <1>3, <1>5, <1>6, <2>1, <2>2 DEF BodySent, Behind
<1> QED
    BY <1>1, <1>7 DEF ReadBody, AllStored

LEMMA HeadersKept ==
    ASSUME ParserInv, UNCHANGED <<request, headers>>
    PROVE  HeadersFromHead'
<1>1. HeaderLines' = HeaderLines /\ \A i : LineAt(i)' = LineAt(i)
    BY DEF HeaderLines, LineAt
<1>2. TakenFrom(HeaderLines)
    BY DEF ParserInv, HeadersFromHead
<1> QED
    BY <1>1, <1>2 DEF HeadersFromHead, TakenFrom

\* One token of the header loop, behind the place p.
LEMMA HeaderParsed ==
    ASSUME ParserInv, ReadHeader
    PROVE  HeadersFromHead' /\ AtHeaders' /\ AtBody' /\ AfterBody'
<1> DEFINE b == request.rest
           c == empty_header_count
           n == Len(headers) - Base
           token == TokenOf(buffer)
<1>1. /\ Received(b) /\ b \in Seq(Symbols) /\ Len(b) \in Nat
      /\ headers \in Seq(Texts \cup {RequestLine}) /\ Len(headers) \in Nat /\ NULL \notin Seq(Symbols)
      /\ UNCHANGED request /\ buffer' = RestOf(buffer)
    BY ParserTyped DEF ReadHeader
<1>2. PICK p \in 1..Len(b) : buffer = Behind(b, p) /\ Placed(b, p, c, n)
    BY DEF ReadHeader, ParserInv, AtHeaders, Standing
<1>15. MaxHeaders \in Nat
    BY ParserAssumption
<1>16. Len(headers) \in Nat
    BY <1>1
<1>18. n \in Nat /\ Base \in Nat /\ Len(headers) = n + Base
       /\ (OrdinaryRequest => n = Len(headers))
    <2>1. n = Cardinality(UpTo(Stored(b), p)) /\ Stored(b) \in SUBSET Nat
          /\ IsFiniteSet(Stored(b)) /\ p \in Nat
        BY <1>1, <1>2, StoredFinite DEF Placed
    <2>2. n \in Nat
        BY <2>1, UpToStep
    <2> QED
        BY <1>16, <2>2 DEF Base, OrdinaryRequest
<1>17. "" \notin WithVersion
    BY ParserAssumption
<1>3. pc' # "segments" /\ (pc' = "done" => error' = "INVALID_HEADER")
    BY DEF ReadHeader, Return
<1>4. AfterBody'
    BY <1>3 DEF AfterBody, Parsed
<1>5. c = 0 \/ c = 1
    <2>1. c \in 0..1
        BY DEF ReadHeader, ParserInv, SlotsInv
    <2> QED
        BY <2>1
<1>6. p \in Nat /\ p >= 1 /\ p <= Len(b)
    BY <1>1
<1>7. OrdinaryRequest => Len(headers) < MaxHeaders
    <2> SUFFICES ASSUME OrdinaryRequest
                 PROVE  Len(headers) < MaxHeaders
        OBVIOUS
    <2>1. /\ Stored(b) \in SUBSET Nat /\ IsFiniteSet(Stored(b)) /\ IsFiniteSet(LinesOf(b))
          /\ Stored(b) \subseteq LinesOf(b)
        BY <1>1, StoredFinite
    <2>2. n <= Cardinality(Stored(b))
        BY <1>2, <1>6, <2>1, UpToStep DEF Placed
    <2>3. Cardinality(Stored(b)) <= Cardinality(LinesOf(b)) /\ Cardinality(Stored(b)) \in Nat
          /\ Cardinality(LinesOf(b)) \in Nat
        BY <2>1, FS_Subset, FS_CardinalityType
    <2>4. Cardinality(LinesOf(b)) < MaxHeaders /\ MaxHeaders \in Nat
        BY ParserAssumption DEF OrdinaryRequest, Ordinary, WellFormed
    <2> QED
        BY <1>18, <2>2, <2>3, <2>4
<1>8. OrdinaryRequest => BlankAt(b) # {} /\ HeadEnd(b) \in 1..(Len(b) - 3) /\ p <= HeadEnd(b) + 1
    BY <1>1, <1>2, HeadEndIsFirst DEF OrdinaryRequest, Ordinary, WellFormed, Placed
<1>9. ASSUME Len(headers) >= MaxHeaders
      PROVE  HeadersFromHead' /\ AtHeaders' /\ AtBody'
    <2>2. Len(headers) >= MaxHeaders /\ ~(Len(headers) < MaxHeaders)
        BY <1>9, <1>15, <1>16
    <2>1. ~OrdinaryRequest
        BY <1>7, <2>2
    <2>3. pc' = "body" /\ headers' = headers
        BY <2>2 DEF ReadHeader
    <2>4. request' = request
        BY <1>1
    <2> QED
        BY <2>1, <2>3, <2>4, HeadersKept DEF AtHeaders, AtBody, OrdinaryRequest
<1>10. ASSUME Len(headers) < MaxHeaders, p = Len(b)
       PROVE  HeadersFromHead' /\ AtHeaders' /\ AtBody'
    <2>1. ~OrdinaryRequest
        BY <1>1, <1>8, <1>10
    <2>2. Behind(b, p) = <<>>
        BY <1>1, <1>10, BehindSeq, EmptySeq
    <2>3. buffer' = NULL /\ token = ""
        BY <1>1, <1>2, <2>2, LastToken
    <2>4. headers' = headers
        BY <1>17, <2>3 DEF ReadHeader
    <2>5. request' = request
        BY <1>1
    <2> QED
        BY <2>1, <2>3, <2>4, <2>5, HeadersKept DEF AtHeaders, AtBody, OrdinaryRequest
<1>11. ASSUME Len(headers) < MaxHeaders, p # Len(b), b[p + 1] \in LineEnds
       PROVE  HeadersFromHead' /\ AtHeaders' /\ AtBody'
    <2>1. p \in 1..(Len(b) - 1) /\ p \in 0..(Len(b) - 1) /\ p + 1 \in 1..Len(b)
        BY <1>1, <1>6, <1>11
    <2>2. token = "" /\ buffer' = Behind(b, p + 1)
        BY <1>1, <1>2, <1>11, <2>1, EmptyToken
    <2>3. buffer' # NULL
        <3>1. Behind(b, p + 1) \in Seq(Symbols)
            BY <1>1, <2>1, BehindSeq
        <3> QED
            BY <1>1, <2>2, <3>1
    <2>4. /\ headers' = headers /\ c' = c + 1
          /\ pc' = IF c + 1 > 1 THEN "body" ELSE "headers"
        <3>0. ~(Len(headers) >= MaxHeaders)
            BY <1>11, <1>15, <1>16
        <3>1. ~(Len(headers) >= MaxHeaders) /\ pc = "headers" /\ token \notin WithVersion
            BY <1>17, <2>2, <3>0, Zenon DEF ReadHeader
        <3>2. headers' = headers /\ c' = c + 1 /\ pc' = IF EndsHeaders(c) THEN "body" ELSE pc
            BY <2>2, <3>1, Zenon DEF ReadHeader
        <3> QED
            BY <3>1, <3>2 DEF EndsHeaders
    <2>5. HeadersFromHead'
        BY <1>1, <2>4, HeadersKept
    <2>6. CASE c = 0
        <3>1. c' = 1 /\ pc' = "headers"
            BY <2>4, <2>6
        <3>2. Placed(b, p + 1, 1, n)
            BY <1>1, <1>2, <1>11, <2>1, <2>6, PlacedEmpty
        <3>3. Standing(p + 1)'
            <4>1. c' = 1 /\ Len(headers') - Base' = n
                BY <1>1, <2>4, <3>1 DEF Base
            <4> QED
                BY <1>1, <2>2, <3>2, <4>1 DEF Standing
        <3> QED
            BY <1>1, <2>1, <2>3, <2>5, <3>1, <3>3 DEF AtHeaders, AtBody
    <2>7. CASE c = 1
        <3>1. pc' = "body"
            BY <2>4, <2>7
        <3>2. ASSUME OrdinaryRequest
              PROVE  p = HeadEnd(b) + 1 /\ Len(headers) = Cardinality(Stored(b))
            BY <1>1, <1>2, <1>11, <1>18, <2>1, <2>7, <3>2, BreakAtHeadEnd DEF OrdinaryRequest
        <3>3. OrdinaryRequest => p + 1 = HeadEnd(b) + 2
            BY <1>8, <3>2
        <3> QED
            BY <1>1, <2>2, <2>4, <2>5, <3>1, <3>2, <3>3 DEF AtHeaders, AtBody, AllStored, OrdinaryRequest
    <2> QED
        BY <1>5, <2>6, <2>7
<1>12. ASSUME Len(headers) < MaxHeaders, p # Len(b), b[p + 1] \in Texts
       PROVE  HeadersFromHead' /\ AtHeaders' /\ AtBody'
    <2>1. p \in 1..(Len(b) - 1) /\ p + 1 \in Nat
        BY <1>1, <1>6, <1>12
    <2>2. /\ token = b[p + 1]
          /\ IF p + 1 = Len(b) THEN buffer' = NULL
             ELSE b[p + 2] \in LineEnds /\ buffer' = Behind(b, p + 2)
        BY <1>1, <1>2, <1>12, <2>1, TextToken
    <2>3. token # "" /\ token \in Texts
        BY <1>12, <2>2, ParserAssumption
    <2>4. \/ token \in WithVersion /\ UNCHANGED <<pc, headers, empty_header_count>>
          \/ /\ token \notin WithVersion /\ c' = 0
             /\ \/ headers' = Append(headers, token) /\ UNCHANGED pc
                \/ headers' = headers /\ pc' = "done"
        <3>1. ~(Len(headers) >= MaxHeaders)
            BY <1>12, <1>15, <1>16
        <3>2. \/ token \in WithVersion /\ UNCHANGED <<pc, error, empty_header_count, headers>>
              \/ /\ token \notin WithVersion \cup {""} /\ c' = CountAtHeader(c)
                 /\ IF token \in WithColon
                    THEN headers' = Append(headers, token) /\ UNCHANGED <<pc, error>>
                    ELSE Return("INVALID_HEADER") /\ UNCHANGED headers
            BY <2>3, <3>1, Zenon DEF ReadHeader
        <3> QED
            BY <3>2 DEF CountAtHeader, Return
    <2>5. p + 1 \in LinesOf(b) /\ (BlankAt(b) # {} => p + 2 <= HeadEnd(b))
        BY <1>1, <1>2, <1>12, <2>1, TextIsLine
    <2>6. HeadersFromHead'
        <3>1. CASE headers' = headers
            BY <1>1, <3>1, HeadersKept
        <3>2. CASE headers' = Append(headers, token) /\ token \notin WithVersion
            <4>1. p + 1 \in Stored(b) /\ token = b[p + 1]
                BY <2>2, <2>5, <3>2 DEF Stored
            <4>2. Stored(b) \in SUBSET Nat /\ IsFiniteSet(Stored(b)) /\ p \in Nat
                BY <1>1, <1>6, StoredFinite
            <4>3. Cardinality(UpTo(Stored(b), p + 1)) = n + 1
                BY <1>2, <4>1, <4>2, UpToStep DEF Placed
            <4>4. p + 1 \in HeaderLines /\ token = LineAt(p + 1)
                BY <2>1, <4>1 DEF HeaderLines, Stored, LineAt
            <4>5. Cardinality(UpTo(HeaderLines, p + 1)) = Len(headers) + 1
                <5>1. Cardinality(UpTo(HeaderLines, p + 1)) = (n + 1) + Base
                    BY <1>1, <2>1, <4>3, BaseLines
                <5>2. (n + 1) + Base = (n + Base) + 1
                    <6> HIDE DEF n
                    <6> QED
                        BY <1>18
                <5> QED
                    BY <1>18, <5>1, <5>2
            <4>6. HeadersFromHead /\ token \in Texts \cup {RequestLine}
                BY <2>3 DEF ParserInv
            <4> QED
                BY <1>1, <3>2, <4>4, <4>5, <4>6, HeadersNext
        <3> QED
            BY <2>4, <3>1, <3>2
    <2>7. pc = "headers" /\ pc' # "body"
        BY <2>4 DEF ReadHeader
    <2>8. AtHeaders'
        <3>1. CASE p + 1 = Len(b)
            <4>1. ~OrdinaryRequest
                BY <1>1, <1>8, <2>5, <3>1
            <4> QED
                BY <1>1, <2>2, <3>1, <4>1 DEF AtHeaders, OrdinaryRequest
        <3>2. CASE p + 1 # Len(b)
            <4>1. p \in 1..(Len(b) - 2) /\ p + 2 \in 1..Len(b)
                BY <1>1, <1>6, <2>1, <3>2
            <4>2. b[p + 2] \in LineEnds /\ buffer' = Behind(b, p + 2)
                BY <2>2, <3>2
            <4>3. buffer' # NULL
                <5>1. Behind(b, p + 2) \in Seq(Symbols)
                    BY <1>1, <4>1, BehindSeq
                <5> QED
                    BY <1>1, <4>2, <5>1
            <4>4. /\ token \notin WithVersion => Placed(b, p + 2, 0, n + 1)
                  /\ token \in WithVersion => Placed(b, p + 2, c, n)
                <5>1. b[p + 1] \in Texts /\ b[p + 2] \in LineEnds /\ token = b[p + 1]
                    BY <1>12, <2>2, <4>2
                <5>2. Placed(b, p, c, n) /\ n \in Nat /\ Received(b)
                    BY <1>1, <1>2, <1>18
                <5> HIDE DEF n, token
                <5> QED
                    BY <4>1, <5>1, <5>2, PlacedText
            <4>5. ASSUME pc' = "headers"
                  PROVE  Placed(b, p + 2, c', Len(headers') - Base)
                <5>1. ASSUME headers' = Append(headers, token)
                      PROVE  Len(headers') - Base = n + 1
                    <6>1. headers \in Seq(Texts \cup {RequestLine}) /\ token \in Texts
                        BY <1>1, <2>3
                    <6>2. Len(headers') = Len(headers) + 1
                        <7> HIDE DEF token
                        <7> QED
                            BY <5>1, <6>1
                    <6>3. ((n + Base) + 1) - Base = n + 1
                        <7> HIDE DEF n
                        <7> QED
                            BY <1>18
                    <6>4. Len(headers) = n + Base
                        BY <1>18
                    <6>5. (Len(headers) + 1) - Base = n + 1
                        BY <6>3, <6>4
                    <6> HIDE DEF n
                    <6> QED
                        BY <6>2, <6>5
                <5> QED
                    BY <2>4, <4>4, <4>5, <5>1
            <4>7. Base' = Base
                BY <1>1 DEF Base
            <4>6. pc' = "headers" => Standing(p + 2)'
                BY <1>1, <4>2, <4>5, <4>7 DEF Standing
            <4> QED
                BY <1>1, <4>1, <4>3, <4>6 DEF AtHeaders
        <3> QED
            BY <3>1, <3>2
    <2> QED
        BY <2>6, <2>7, <2>8 DEF AtBody
<1>13. p # Len(b) => b[p + 1] \in LineEnds \/ b[p + 1] \in Texts
    <2> SUFFICES ASSUME p # Len(b)
                 PROVE  b[p + 1] \in Symbols
        BY DEF Symbols
    <2>1. p + 1 \in 1..Len(b)
        BY <1>1, <1>6
    <2> QED
        BY <1>1, <2>1
<1>14. Len(headers) < MaxHeaders \/ Len(headers) >= MaxHeaders
    BY <1>15, <1>16
<1> QED
    BY <1>4, <1>9, <1>10, <1>11, <1>12, <1>13, <1>14

LEMMA ParserStep == ParserInv /\ [Next]_vars => ParserInv'
<1> SUFFICES ASSUME ParserInv, [Next]_vars
             PROVE  ParserInv'
    OBVIOUS
<1>1. SlotsInv'
    BY SlotsStep DEF ParserInv
<1>2. CASE ReadRequestLine
    <2>1. /\ UNCHANGED <<request, buffer, empty_header_count, headers>>
          /\ pc' = "params" \/ (pc' = "done" /\ error' # "OK")
        BY <1>2 DEF ReadRequestLine, Return
    <2> QED
        BY <1>1, <2>1, HeadersKept DEF ParserInv, AtHeaders, AtBody, AfterBody, OrdinaryRequest, Parsed
<1>3. CASE ReadParam
    <2>1. UNCHANGED <<request, headers>> /\ pc' \in {"params", "first_line"}
        BY <1>3 DEF ReadParam
    <2> QED
        BY <1>1, <2>1, HeadersKept DEF ParserInv, AtHeaders, AtBody, AfterBody, OrdinaryRequest, Parsed
<1>4. CASE ReadFirstLine
    BY <1>1, <1>4, FirstLineParsed DEF ParserInv
<1>5. CASE ReadHeader
    BY <1>1, <1>5, HeaderParsed DEF ParserInv
<1>6. CASE NoMoreTokens
    <2>1. /\ UNCHANGED <<request, headers>> /\ pc = "headers" /\ buffer = NULL
          /\ pc' = "body"
        BY <1>6 DEF NoMoreTokens
    <2>2. ~OrdinaryRequest
        BY <2>1 DEF ParserInv, AtHeaders
    <2> QED
        BY <1>1, <2>1, <2>2, HeadersKept DEF ParserInv, AtHeaders, AtBody, AfterBody, OrdinaryRequest, Parsed
<1>7. CASE ReadBody
    <2>1. UNCHANGED <<request, headers>> /\ pc' = "segments"
        BY <1>7 DEF ReadBody
    <2> QED
        BY <1>1, <1>7, <2>1, BodyParsed, HeadersKept DEF ParserInv, AtHeaders, AtBody, OrdinaryRequest
<1>8. CASE ReadSegment \/ Finish
    <2>1. /\ UNCHANGED <<request, buffer, empty_header_count, headers, body>>
          /\ pc = "segments" /\ pc' \in {"segments", "done"}
        BY <1>8 DEF ReadSegment, Finish, Return
    <2>2. HeadersFromHead' /\ (AllStored <=> AllStored')
        BY <2>1, ElsewhereKeeps
    <2> QED
        BY <1>1, <2>1, <2>2 DEF ParserInv, AtHeaders, AtBody, AfterBody, OrdinaryRequest
<1>9. CASE UNCHANGED vars
    <2>1. UNCHANGED <<request, pc, error, buffer, empty_header_count, headers, body>>
        BY <1>9 DEF vars
    <2>2. HeadersFromHead' /\ (AllStored <=> AllStored')
        BY <2>1, ElsewhereKeeps
    <2>3. \A p : Standing(p) <=> Standing(p)'
        BY <2>1 DEF Standing, Base
    <2> QED
        BY <1>1, <2>1, <2>2, <2>3 DEF ParserInv, AtHeaders, AtBody, AfterBody, OrdinaryRequest, Parsed
<1> QED
    BY <1>2, <1>3, <1>4, <1>5, <1>6, <1>7, <1>8, <1>9 DEF Next

\* The place of the header loop, its counts and what it stored agree in every
\* state of parse_request.
THEOREM ParserInvariance == Spec => []ParserInv
BY ParserInit, ParserStep, PTL DEF Spec

\* Whatever arrives, whole or cut short, the stored headers are the header lines
\* of the request in their order, without those that hold "HTTP/1.1" and behind
\* the request line if that does not hold it.
THEOREM HeadersFromHeadAlways == Spec => []HeadersFromHead
<1>1. ParserInv => HeadersFromHead
    BY DEF ParserInv
<1> QED
    BY <1>1, ParserInvariance, PTL

\* A whole request with fewer headers than slots is parsed into exactly its
\* headers and its body.
THEOREM OrdinaryParsedWholeAlways == Spec => []OrdinaryParsedWhole
<1>1. ParserInv => OrdinaryParsedWhole
    <2> SUFFICES ASSUME ParserInv, Parsed, request.http11, Ordinary(request.rest)
                 PROVE  /\ TakenFrom(LinesOf(request.rest))
                        /\ Len(headers) = Cardinality(LinesOf(request.rest))
                        /\ body = BodySent(request.rest)
        BY DEF OrdinaryParsedWhole
    <2>1. Stored(request.rest) = LinesOf(request.rest)
        BY DEF Stored, Ordinary, WellFormed
    <2>2. TakenFrom(Stored(request.rest))
        <3>1. HeaderLines = Stored(request.rest)
            BY DEF HeaderLines, Stored
        <3> QED
            BY <3>1 DEF ParserInv, HeadersFromHead
    <2> QED
        BY <2>1, <2>2 DEF ParserInv, AfterBody, AllStored, OrdinaryRequest
<1> QED
    BY <1>1, ParserInvariance, PTL

=============================================================================
