----------------------------- MODULE CjsonProofs -----------------------------
(***************************************************************************)
(* Theorems about Cjson, for any texts and nesting limit, whichever        *)
(* allocations are refused.                                                *)
(***************************************************************************)
EXTENDS Cjson, SequenceTheorems, FiniteSetTheorems, WellFoundedInduction, TLAPS

Types == {"none"} \cup Scalars \cup {"[", "{"}

CellsUpTo(k) ==
    [type : Types, next : 0..k, prev : 0..k, child : 0..k, string : 0..k, valuestring : 0..k]
FramesUpTo(k) == [item : 1..k, opened : {"[", "{"}, head : 0..k, current : 0..k]

TextInv == text \in Seq(Tokens) /\ offset \in 1..Len(text) + 1

HeapInv ==
    /\ heap \in Seq(CellsUpTo(Len(heap)))
    /\ root \in 0..Len(heap)
    /\ live \subseteq 1..Len(heap)

StackInv == stack \in Seq(FramesUpTo(Len(heap))) /\ Len(stack) <= NestingLimit

\* Nothing is freed before something fails; and of the calls under way only the one
\* that has just begun has no item yet.
PlaceInv ==
    /\ pc \in {"start", "value", "name", "opened", "behind", "failed", "done", "deleted"}
    /\ refused \in BOOLEAN
    /\ pc = "start" => heap = <<>> /\ stack = <<>>
    /\ pc \in {"value", "name", "opened", "behind"} => root # NULL
    /\ pc \in {"value", "name", "opened", "behind"} \/ (pc = "done" /\ root # NULL) =>
          live = 1..Len(heap)
    /\ pc \in {"value", "name", "behind"} => \A i \in 1..Len(stack) : stack[i].current # NULL
    /\ pc = "opened" => stack # <<>> /\ \A i \in 1..Len(stack) - 1 : stack[i].current # NULL

ParserInv == TextInv /\ HeapInv /\ StackInv /\ PlaceInv

-----------------------------------------------------------------------------
(* The heap and the stack *)

LEMMA CellsGrow ==
    ASSUME NEW k \in Nat
    PROVE  /\ CellsUpTo(k) \subseteq CellsUpTo(k + 1)
           /\ FramesUpTo(k) \subseteq FramesUpTo(k + 1)
<1>1. 0..k \subseteq 0..(k + 1) /\ 1..k \subseteq 1..(k + 1)
    OBVIOUS
<1> QED
    BY <1>1 DEF CellsUpTo, FramesUpTo

LEMMA SeqGrows ==
    ASSUME NEW S, NEW T, S \subseteq T, NEW s \in Seq(S)
    PROVE  s \in Seq(T)
OBVIOUS

LEMMA FrontOf ==
    ASSUME NEW S, NEW s \in Seq(S), s # <<>>
    PROVE  /\ Front(s) \in Seq(S)
           /\ Len(Front(s)) = Len(s) - 1
           /\ \A i \in 1..Len(s) - 1 : Front(s)[i] = s[i]
<1>1. Len(s) \in Nat \ {0} /\ \A i \in 1..Len(s) : s[i] \in S
    BY EmptySeq
<1>2. PICK n \in Nat : n = Len(s) - 1
    BY <1>1
<1>3. Front(s) = SubSeq(s, 1, n)
    BY <1>2 DEF Front
<1>4. \A i \in 1..n : s[i] \in S
    BY <1>1, <1>2
<1>5. Len(SubSeq(s, 1, n)) = n
    BY <1>4
<1>6. SubSeq(s, 1, n) \in Seq(S)
    BY <1>4
<1>7. \A i \in 1..n : SubSeq(s, 1, n)[i] = s[i]
    BY <1>4
<1> QED
    BY <1>2, <1>3, <1>5, <1>6, <1>7

LEMMA OneMorePlace ==
    ASSUME NEW n \in Nat
    PROVE  (1..n) \cup {n + 1} = 1..(n + 1)
OBVIOUS

\* A heap with a new cell.
LEMMA Appended ==
    ASSUME NEW h, NEW k \in Nat, Len(h) = k, h \in Seq(CellsUpTo(k + 1)),
           NEW c \in CellsUpTo(k + 1)
    PROVE  Append(h, c) \in Seq(CellsUpTo(k + 1)) /\ Len(Append(h, c)) = k + 1
OBVIOUS

LEMMA NewCell ==
    ASSUME NEW k \in Nat
    PROVE  Cell \in CellsUpTo(k) /\ \A p \in 0..k : [Cell EXCEPT !.prev = p] \in CellsUpTo(k)
<1>1. 0 \in 0..k /\ "none" \in Types
    BY DEF Types
<1>2. Cell \in CellsUpTo(k)
    BY <1>1 DEF Cell, CellsUpTo, NULL
<1>3. ASSUME NEW p \in 0..k
      PROVE  [Cell EXCEPT !.prev = p] \in CellsUpTo(k)
    BY <1>2 DEF CellsUpTo
<1> QED
    BY <1>2, <1>3

LEMMA CellChanges ==
    ASSUME NEW k \in Nat, NEW c \in CellsUpTo(k)
    PROVE  /\ \A t \in Types : [c EXCEPT !.type = t] \in CellsUpTo(k)
           /\ \A p \in 0..k : /\ [c EXCEPT !.next = p] \in CellsUpTo(k)
                             /\ [c EXCEPT !.prev = p] \in CellsUpTo(k)
                             /\ WithText(c, p) \in CellsUpTo(k)
                             /\ Named(WithText(c, p)) \in CellsUpTo(k)
           /\ \A t \in Types, p \in 0..k :
                 [c EXCEPT !.type = t, !.child = p] \in CellsUpTo(k)
<1>1. 0 \in 0..k /\ "string" \in Types
    BY DEF Types, Scalars, Numerals
<1>2. \A t \in Types : [c EXCEPT !.type = t] \in CellsUpTo(k)
    BY DEF CellsUpTo
<1>3. \A p \in 0..k : [c EXCEPT !.next = p] \in CellsUpTo(k)
    BY DEF CellsUpTo
<1>4. \A p \in 0..k : [c EXCEPT !.prev = p] \in CellsUpTo(k)
    BY DEF CellsUpTo
<1>5. ASSUME NEW p \in 0..k
      PROVE  WithText(c, p) \in CellsUpTo(k)
    BY <1>1 DEF CellsUpTo, WithText
<1>6. ASSUME NEW d \in CellsUpTo(k)
      PROVE  Named(d) \in CellsUpTo(k)
    BY <1>1 DEF CellsUpTo, Named, NULL
<1>7. \A t \in Types, p \in 0..k : [c EXCEPT !.type = t, !.child = p] \in CellsUpTo(k)
    BY DEF CellsUpTo
<1> QED
    BY <1>2, <1>3, <1>4, <1>5, <1>6, <1>7

LEMMA Places ==
    ASSUME HeapInv, StackInv
    PROVE  /\ Len(heap) \in Nat /\ DOMAIN heap = 1..Len(heap)
           /\ Len(stack) \in Nat
           /\ stack # <<>> => /\ Len(stack) \in 1..Len(stack)
                              /\ Top = stack[Len(stack)]
                              /\ Top \in FramesUpTo(Len(heap))
                              /\ Front(stack) \in Seq(FramesUpTo(Len(heap)))
                              /\ Len(Front(stack)) = Len(stack) - 1
                              /\ \A i \in 1..Len(stack) - 1 : Front(stack)[i] = stack[i]
<1>1. Len(heap) \in Nat /\ DOMAIN heap = 1..Len(heap) /\ Len(stack) \in Nat
    BY DEF HeapInv, StackInv
<1>2. ASSUME stack # <<>>
      PROVE  /\ Len(stack) \in 1..Len(stack)
             /\ Top = stack[Len(stack)]
             /\ Top \in FramesUpTo(Len(heap))
             /\ Front(stack) \in Seq(FramesUpTo(Len(heap)))
             /\ Len(Front(stack)) = Len(stack) - 1
             /\ \A i \in 1..Len(stack) - 1 : Front(stack)[i] = stack[i]
    <2> DEFINE F == FramesUpTo(Len(heap))
    <2>1. stack \in Seq(F)
        BY DEF StackInv
    <2> HIDE DEF F
    <2>2. Len(stack) \in 1..Len(stack)
        BY <1>2, <2>1, EmptySeq
    <2>3. Top = stack[Len(stack)]
        BY DEF Top, Last
    <2>5. /\ Front(stack) \in Seq(F)
          /\ Len(Front(stack)) = Len(stack) - 1
          /\ \A i \in 1..Len(stack) - 1 : Front(stack)[i] = stack[i]
        BY <1>2, <2>1, FrontOf
    <2> QED
        BY <2>1, <2>2, <2>3, <2>5 DEF F
<1> QED
    BY <1>1, <1>2

\* The item parse_value fills is an item of the heap.
LEMMA ItemAllocated ==
    ASSUME HeapInv, StackInv, PlaceInv, pc \in {"value", "name"}
    PROVE  Item \in 1..Len(heap)
<1>1. CASE stack = <<>>
    BY <1>1 DEF Item, HeapInv, PlaceInv, NULL
<1>2. CASE stack # <<>>
    <2>1. Top \in FramesUpTo(Len(heap)) /\ Top.current # NULL /\ Len(heap) \in Nat
        BY <1>2, Places DEF PlaceInv
    <2>2. Top.current \in 0..Len(heap)
        BY <2>1 DEF FramesUpTo
    <2> QED
        BY <1>2, <2>1, <2>2 DEF Item, NULL
<1> QED
    BY <1>1, <1>2

-----------------------------------------------------------------------------
(* cJSON_Parse *)

LEMMA ParserInvInit == Init => ParserInv
<1> SUFFICES ASSUME Init
             PROVE  ParserInv
    OBVIOUS
<1>1. Len(<<>>) = 0
    BY EmptySeq
<1>2. text \in Seq(Tokens) /\ NestingLimit \in Nat
    BY CjsonAssumption DEF Init
<1>3. TextInv
    BY <1>2 DEF TextInv, Init
<1>4. HeapInv
    BY <1>1 DEF HeapInv, Init, NULL
<1>5. StackInv
    BY <1>1, <1>2 DEF StackInv, Init
<1>6. PlaceInv
    BY DEF PlaceInv, Init
<1> QED
    BY <1>3, <1>4, <1>5, <1>6 DEF ParserInv

\* Where there is a token there is a next place.
LEMMA TokensAhead ==
    ASSUME TextInv
    PROVE  /\ \A t \in Tokens : Token = t => offset + 1 \in 1..Len(text) + 1
           /\ Token \in Tokens /\ TokenAt(offset + 1) = ":" => offset + 2 \in 1..Len(text) + 1
           /\ Token \in Tokens \cup {"end"} /\ "end" \notin Tokens
<1>1. "end" \notin Tokens
    BY DEF Tokens, Scalars, Numerals, Literals
<1>2. DOMAIN text = 1..Len(text) /\ Len(text) \in Nat /\ \A i \in DOMAIN text : text[i] \in Tokens
    BY DEF TextInv
<1>3. \A i : TokenAt(i) # "end" => i \in 1..Len(text)
    BY <1>2 DEF TokenAt
<1>4. \A t \in Tokens : Token = t => offset + 1 \in 1..Len(text) + 1
    BY <1>1, <1>2, <1>3 DEF Token
<1>5. TokenAt(offset + 1) = ":" => offset + 2 \in 1..Len(text) + 1
    <2>1. TokenAt(offset + 1) = ":" => offset + 1 \in 1..Len(text)
        BY <1>3
    <2> QED
        BY <1>2, <2>1 DEF TextInv
<1>6. Token \in Tokens \cup {"end"}
    BY <1>2 DEF Token, TokenAt
<1> QED
    BY <1>1, <1>4, <1>5, <1>6

\* A call that fails, or ends, leaves the items as they are.
LEMMA StopKeeps ==
    ASSUME ParserInv, UNCHANGED <<text, offset, heap, live, stack>>, refused' \in BOOLEAN,
           \/ pc' = "failed" /\ root' = root
           \/ pc' = "done" /\ root' = root /\ (root # NULL => live = 1..Len(heap))
    PROVE  ParserInv'
<1>1. TextInv' /\ StackInv'
    BY DEF ParserInv, TextInv, StackInv
<1>2. HeapInv'
    BY DEF ParserInv, HeapInv
<1>3. PlaceInv'
    BY DEF ParserInv, PlaceInv
<1> QED
    BY <1>1, <1>2, <1>3 DEF ParserInv

LEMMA StartKeeps ==
    ASSUME ParserInv, Start
    PROVE  ParserInv'
<1>1. CASE heap' = <<Cell>> /\ root' = New /\ pc' = "value" /\ Allocated
           /\ UNCHANGED <<text, offset, stack>>
    <2>1. heap = <<>> /\ stack = <<>> /\ Len(<<>>) = 0 /\ refused \in BOOLEAN /\ live \subseteq 1..Len(heap)
        BY EmptySeq DEF Start, ParserInv, PlaceInv, HeapInv
    <2>2. New = 1 /\ live' = {1} /\ refused' = refused
        <3>1. live = {}
            BY <2>1
        <3> QED
            BY <1>1, <2>1, <3>1 DEF New, Allocated
    <2>3. heap' \in Seq(CellsUpTo(1)) /\ Len(heap') = 1
        <3>1. Cell \in CellsUpTo(1)
            BY NewCell
        <3> QED
            BY <1>1, <3>1
    <2>4. TextInv'
        BY <1>1 DEF ParserInv, TextInv
    <2>5. HeapInv'
        BY <1>1, <2>2, <2>3 DEF HeapInv
    <2>6. StackInv'
        BY <1>1, <2>1, <2>3, CjsonAssumption DEF StackInv
    <2>7. PlaceInv'
        BY <1>1, <2>1, <2>2, <2>3 DEF PlaceInv, NULL
    <2> QED
        BY <2>4, <2>5, <2>6, <2>7 DEF ParserInv
<1>2. CASE Refused /\ pc' = "done" /\ UNCHANGED root
    <2>1. root = NULL
        BY EmptySeq DEF Start, ParserInv, PlaceInv, HeapInv, NULL
    <2> QED
        BY <1>2, <2>1, StopKeeps DEF Refused
<1> QED
    BY <1>1, <1>2 DEF Start

\* An item is filled, and with it a text allocated, or not.
LEMMA FillKeeps ==
    ASSUME ParserInv, pc \in {"value", "name"}, NEW k \in {Len(heap), Len(heap) + 1},
           Len(heap') = k, heap' \in Seq(CellsUpTo(k)),
           live' = IF k = Len(heap) THEN live ELSE live \cup {k},
           offset' \in 1..Len(text) + 1, pc' \in {"value", "behind", "failed"},
           UNCHANGED <<text, root, stack, refused>>
    PROVE  ParserInv'
<1>1. Len(heap) \in Nat /\ live = 1..Len(heap) /\ root # NULL /\ refused \in BOOLEAN
    BY Places DEF ParserInv, PlaceInv
<1>2. live' = 1..k
    <2>1. CASE k = Len(heap)
        BY <1>1, <2>1
    <2>2. CASE k = Len(heap) + 1 /\ k # Len(heap)
        <3>1. live' = live \cup {k}
            BY <2>2
        <3>2. (1..Len(heap)) \cup {Len(heap) + 1} = 1..(Len(heap) + 1)
            BY <1>1, OneMorePlace
        <3> QED
            BY <1>1, <2>2, <3>1, <3>2, Zenon
    <2> QED
        BY <1>1, <2>1, <2>2
<1>3. TextInv'
    BY DEF ParserInv, TextInv
<1>4. HeapInv'
    BY <1>1, <1>2 DEF ParserInv, HeapInv
<1>5. StackInv'
    <2>1. stack \in Seq(FramesUpTo(k))
        BY <1>1, CellsGrow, SeqGrows DEF ParserInv, StackInv
    <2> QED
        BY <2>1 DEF ParserInv, StackInv
<1>6. PlaceInv'
    BY <1>1, <1>2 DEF ParserInv, PlaceInv
<1> QED
    BY <1>3, <1>4, <1>5, <1>6 DEF ParserInv

LEMMA ScalarKeeps ==
    ASSUME ParserInv, ParseLiteral \/ ParseNumber
    PROVE  ParserInv'
<1>1. CASE /\ heap' = [heap EXCEPT ![Item].type = Token]
           /\ offset' = offset + 1
           /\ pc' = "behind"
           /\ UNCHANGED <<text, live, root, stack, refused>>
    <2>1. pc = "value" /\ Token \in Scalars /\ Token \in Tokens /\ Token \in Types
        BY DEF ParseLiteral, ParseNumber, Scalars, Numerals, Tokens, Types
    <2>2. offset + 1 \in 1..Len(text) + 1
        BY <2>1, TokensAhead DEF ParserInv
    <2>3. Item \in 1..Len(heap) /\ Len(heap) \in Nat
        BY <2>1, ItemAllocated, Places DEF ParserInv
    <2>4. heap \in Seq(CellsUpTo(Len(heap)))
        BY DEF ParserInv, HeapInv
    <2>5. [heap[Item] EXCEPT !.type = Token] \in CellsUpTo(Len(heap))
        <3>1. heap[Item] \in CellsUpTo(Len(heap))
            BY <2>3, <2>4
        <3> QED
            BY <2>1, <2>3, <3>1, CellChanges
    <2>6. heap' = [heap EXCEPT ![Item] = [heap[Item] EXCEPT !.type = Token]]
        BY <1>1
    <2>7. heap' \in Seq(CellsUpTo(Len(heap))) /\ Len(heap') = Len(heap)
        BY <2>3, <2>4, <2>5, <2>6
    <2> QED
        BY <1>1, <2>1, <2>2, <2>7, FillKeeps
<1>2. CASE Refused /\ pc' = "failed" /\ UNCHANGED root
    BY <1>2, StopKeeps DEF Refused
<1> QED
    BY <1>1, <1>2 DEF ParseLiteral, ParseNumber

\* A cell that points to a new one, and the new one behind it.
LEMMA TextAllocated ==
    ASSUME ParserInv, pc \in {"value", "name"}, NEW c \in CellsUpTo(New),
           heap' = Append([heap EXCEPT ![Item] = c], Cell)
    PROVE  Len(heap') = New /\ heap' \in Seq(CellsUpTo(New))
<1>1. Item \in 1..Len(heap) /\ Len(heap) \in Nat
    BY ItemAllocated, Places DEF ParserInv
<1>2. heap \in Seq(CellsUpTo(New))
    BY <1>1, CellsGrow, SeqGrows DEF ParserInv, HeapInv, New
<1>3. Cell \in CellsUpTo(New) /\ New = Len(heap) + 1
    BY <1>1, NewCell DEF New
<1> DEFINE h == [heap EXCEPT ![Item] = c]
<1>4. h \in Seq(CellsUpTo(New)) /\ Len(h) = Len(heap)
    BY <1>1, <1>2
<1> HIDE DEF h
<1>5. heap' = Append(h, Cell)
    BY DEF h
<1>6. h \in Seq(CellsUpTo(Len(heap) + 1)) /\ Cell \in CellsUpTo(Len(heap) + 1)
    BY <1>3, <1>4, Zenon
<1>7. /\ Append(h, Cell) \in Seq(CellsUpTo(Len(heap) + 1))
      /\ Len(Append(h, Cell)) = Len(heap) + 1
    BY <1>1, <1>4, <1>6, Appended
<1> QED
    BY <1>3, <1>5, <1>7, Zenon

LEMMA StringKeeps ==
    ASSUME ParserInv, ParseString \/ ParseName
    PROVE  ParserInv'
<1>1. pc \in {"value", "name"} /\ Token = "string" /\ "string" \in Tokens /\ "string" \in Types
    BY DEF ParseString, ParseName, Tokens, Types, Scalars, Numerals
<1>2. Item \in 1..Len(heap) /\ Len(heap) \in Nat /\ New = Len(heap) + 1
    BY <1>1, ItemAllocated, Places DEF ParserInv, New
<1>3. heap[Item] \in CellsUpTo(New)
    BY <1>2, CellsGrow DEF ParserInv, HeapInv
<1>4. /\ WithText(heap[Item], New) \in CellsUpTo(New)
      /\ Named(WithText(heap[Item], New)) \in CellsUpTo(New)
    <2>1. New \in 0..New /\ New \in Nat
        BY <1>2
    <2> QED
        BY <1>3, <2>1, CellChanges
<1>5. /\ offset + 1 \in 1..Len(text) + 1
      /\ TokenAt(offset + 1) = ":" => offset + 2 \in 1..Len(text) + 1
    BY <1>1, TokensAhead DEF ParserInv
<1>6. CASE Refused /\ pc' = "failed" /\ UNCHANGED root
    BY <1>6, StopKeeps DEF Refused
<1>7. ASSUME NEW c \in CellsUpTo(New), heap' = Append([heap EXCEPT ![Item] = c], Cell),
             Allocated, UNCHANGED <<text, root, stack>>, offset' \in 1..Len(text) + 1,
             pc' \in {"value", "behind", "failed"}
      PROVE  ParserInv'
    <2>1. Len(heap') = New /\ heap' \in Seq(CellsUpTo(New))
        BY <1>1, <1>7, TextAllocated
    <2>2. New # Len(heap) /\ New \in {Len(heap), Len(heap) + 1} /\ live' = live \cup {New}
          /\ UNCHANGED refused
        BY <1>2, <1>7 DEF Allocated
    <2> QED
        BY <1>1, <1>7, <2>1, <2>2, FillKeeps
<1>8. CASE ParseString /\ ~(Refused /\ pc' = "failed" /\ UNCHANGED root)
    BY <1>4, <1>5, <1>7, <1>8 DEF ParseString
<1>9. CASE ParseName /\ ~(Refused /\ pc' = "failed" /\ UNCHANGED root)
    <2>1. heap' = Append([heap EXCEPT ![Item] = Named(WithText(heap[Item], New))], Cell)
        BY <1>9 DEF ParseName
    <2>2. /\ Allocated /\ UNCHANGED <<text, root, stack>>
          /\ offset' \in 1..Len(text) + 1 /\ pc' \in {"value", "behind", "failed"}
        BY <1>5, <1>9 DEF ParseName
    <2> QED
        BY <1>4, <1>7, <2>1, <2>2
<1> QED
    BY <1>6, <1>8, <1>9

LEMMA OpenKeeps ==
    ASSUME ParserInv, OpenList
    PROVE  ParserInv'
<1>1. /\ pc = "value" /\ Token \in {"[", "{"} /\ Len(stack) < NestingLimit
      /\ stack' = Append(stack, [item |-> Item, opened |-> Token, head |-> NULL, current |-> NULL])
      /\ offset' = offset + 1 /\ pc' = "opened"
      /\ UNCHANGED <<text, heap, live, root, refused>>
    <2>1. DOMAIN Closer = {"[", "{"} /\ Len(stack) \in Nat /\ NestingLimit \in Nat
        BY Places, CjsonAssumption DEF Closer, ParserInv
    <2> QED
        <3>1. Len(stack) < NestingLimit
            <4>1. ~TooDeep
                BY DEF OpenList
            <4>2. Len(stack) \in Nat
                BY <2>1
            <4>3. NestingLimit \in Nat
                BY CjsonAssumption
            <4> QED
                BY <4>1, <4>2, <4>3 DEF TooDeep
        <3>2. Token \in {"[", "{"}
            BY <2>1 DEF OpenList
        <3> QED
            BY <3>1, <3>2 DEF OpenList
<1>2. TextInv'
    <2>1. Token \in Tokens
        BY <1>1 DEF Tokens
    <2>2. offset' \in 1..Len(text) + 1
        BY <1>1, <2>1, TokensAhead DEF ParserInv
    <2> QED
        BY <1>1, <2>2 DEF ParserInv, TextInv
<1>3. HeapInv'
    BY <1>1 DEF ParserInv, HeapInv
<1> DEFINE f == [item |-> Item, opened |-> Token, head |-> NULL, current |-> NULL]
           F == FramesUpTo(Len(heap))
<1>4. f \in F
    <2>1. Item \in 1..Len(heap) /\ 0 \in 0..Len(heap)
        <3>1. Len(heap) \in Nat
            BY Places DEF ParserInv
        <3>2. Item \in 1..Len(heap)
            BY <1>1, ItemAllocated DEF ParserInv
        <3> QED
            BY <3>1, <3>2
    <2> QED
        BY <1>1, <2>1 DEF FramesUpTo, NULL
<1>5. stack \in Seq(F) /\ Len(stack) \in Nat /\ NestingLimit \in Nat
    BY CjsonAssumption DEF ParserInv, StackInv
<1> HIDE DEF F, f
<1>6. stack' = Append(stack, f)
    BY <1>1 DEF f
<1>7. /\ stack' \in Seq(F) /\ Len(stack') = Len(stack) + 1
      /\ \A i \in 1..Len(stack) : stack'[i] = stack[i]
    BY <1>4, <1>5, <1>6, AppendProperties
<1>8. StackInv'
    <2>1. Len(stack') <= NestingLimit
        <3>1. Len(stack) < NestingLimit
            BY <1>1
        <3> QED
            BY <1>5, <1>7, <3>1
    <2> QED
        BY <1>1, <1>7, <2>1 DEF StackInv, F
<1>9. PlaceInv'
    <2>1. \A i \in 1..Len(stack) : stack[i].current # NULL
        BY <1>1 DEF ParserInv, PlaceInv
    <2>2. stack' # <<>>
        BY <1>5, <1>7, EmptySeq
    <2>3. \A i \in 1..Len(stack') - 1 : stack'[i].current # NULL
        BY <1>5, <1>7, <2>1
    <2> QED
        BY <1>1, <2>2, <2>3 DEF ParserInv, PlaceInv
<1> QED
    BY <1>2, <1>3, <1>8, <1>9 DEF ParserInv

LEMMA AttachedTyped ==
    ASSUME HeapInv, NEW current \in 0..Len(heap)
    PROVE  Attached(current) \in Seq(CellsUpTo(New)) /\ Len(Attached(current)) = New
<1>1. Len(heap) \in Nat /\ New = Len(heap) + 1 /\ heap \in Seq(CellsUpTo(Len(heap)))
    BY DEF HeapInv, New
<1>2. heap \in Seq(CellsUpTo(New))
    BY <1>1, CellsGrow, SeqGrows
<1>3. New \in Nat /\ New \in 0..New /\ current \in 0..New
    BY <1>1
<1>4. Cell \in CellsUpTo(New) /\ [Cell EXCEPT !.prev = current] \in CellsUpTo(New)
    BY <1>3, NewCell
<1>5. CASE current = NULL
    BY <1>1, <1>2, <1>4, <1>5, Appended DEF Attached
<1>6. CASE current # NULL
    <2> DEFINE h == [heap EXCEPT ![current].next = New]
               c == [heap[current] EXCEPT !.next = New]
    <2>1. current \in 1..Len(heap)
        BY <1>1, <1>6 DEF NULL
    <2>2. heap[current] \in CellsUpTo(New)
        BY <1>2, <2>1
    <2>3. c \in CellsUpTo(New)
        BY <1>3, <2>2, CellChanges
    <2> HIDE DEF c
    <2>4. [heap EXCEPT ![current] = c] \in Seq(CellsUpTo(New))
          /\ Len([heap EXCEPT ![current] = c]) = Len(heap)
        BY <1>2, <2>1, <2>3
    <2>5. h = [heap EXCEPT ![current] = c]
        BY DEF c
    <2> HIDE DEF h
    <2>6. h \in Seq(CellsUpTo(New)) /\ Len(h) = Len(heap)
        BY <2>4, <2>5, Zenon
    <2>7. Attached(current) = Append(h, [Cell EXCEPT !.prev = current])
        BY <1>6 DEF Attached, h
    <2> HIDE DEF New
    <2> QED
        BY <1>1, <1>4, <2>6, <2>7, Appended
<1> QED
    BY <1>5, <1>6

LEMMA AddKeeps ==
    ASSUME ParserInv, AddItem
    PROVE  ParserInv'
<1>1. stack # <<>> /\ pc \in {"opened", "behind"} /\ (pc = "behind" => Token = ",")
    BY DEF AddItem, ItemFollows
<1>2. CASE Refused /\ pc' = "failed" /\ UNCHANGED root
    BY <1>2, StopKeeps DEF Refused
<1>3. CASE ~(Refused /\ pc' = "failed" /\ UNCHANGED root)
    <2> DEFINE L == Len(stack)
    <2>1. /\ heap' = Attached(Top.current)
          /\ stack' = [stack EXCEPT ![L].current = New, ![L].head = IF @ = NULL THEN New ELSE @]
          /\ offset' = IF pc = "opened" THEN offset ELSE offset + 1
          /\ pc' \in {"name", "value"}
          /\ live' = live \cup {New}
          /\ UNCHANGED <<text, root, refused>>
        BY <1>3 DEF AddItem, Allocated
    <2>2. /\ Len(heap) \in Nat /\ L \in 1..L /\ L \in Nat /\ Top = stack[L]
          /\ Top \in FramesUpTo(Len(heap)) /\ New = Len(heap) + 1
        BY <1>1, Places DEF ParserInv, New
    <2>3. Top.current \in 0..Len(heap)
        BY <2>2 DEF FramesUpTo
    <2>4. heap' \in Seq(CellsUpTo(New)) /\ Len(heap') = New
        BY <2>1, <2>3, AttachedTyped DEF ParserInv
    <2>5. live' = 1..New /\ live = 1..Len(heap) /\ root # NULL /\ root \in 0..Len(heap)
        <3>1. live = 1..Len(heap) /\ root # NULL /\ root \in 0..Len(heap)
            BY <1>1 DEF ParserInv, PlaceInv, HeapInv
        <3>2. (1..Len(heap)) \cup {Len(heap) + 1} = 1..(Len(heap) + 1)
            BY <2>2, OneMorePlace
        <3>3. live' = 1..New
            BY <2>1, <2>2, <3>1, <3>2, Zenon
        <3> QED
            BY <3>1, <3>3
    <2>6. TextInv'
        <3>1. offset' \in 1..Len(text) + 1
            <4>1. CASE pc = "opened"
                BY <2>1, <4>1 DEF ParserInv, TextInv
            <4>2. CASE pc # "opened"
                <5>1. "," \in Tokens
                    BY DEF Tokens
                <5> QED
                    BY <1>1, <2>1, <4>2, <5>1, TokensAhead DEF ParserInv
            <4> QED
                BY <4>1, <4>2
        <3> QED
            BY <2>1, <3>1 DEF ParserInv, TextInv
    <2>7. HeapInv'
        <3>1. root \in 0..New
            BY <2>2, <2>5
        <3> QED
            BY <2>1, <2>4, <2>5, <3>1 DEF HeapInv
    <2> DEFINE f == [Top EXCEPT !.current = New, !.head = IF @ = NULL THEN New ELSE @]
    <2>8. f \in FramesUpTo(New) /\ f.current = New
        <3>1. Top \in FramesUpTo(New) /\ New \in 0..New
            BY <2>2, CellsGrow
        <3> QED
            BY <3>1 DEF FramesUpTo
    <2>9. stack' = [stack EXCEPT ![L] = f]
        BY <2>1, <2>2
    <2> HIDE DEF f
    <2>10. stack \in Seq(FramesUpTo(New))
        BY <2>2, CellsGrow, SeqGrows DEF ParserInv, StackInv
    <2>11. /\ stack' \in Seq(FramesUpTo(New)) /\ Len(stack') = L
           /\ stack'[L] = f /\ \A i \in 1..L - 1 : stack'[i] = stack[i]
        BY <2>2, <2>8, <2>9, <2>10
    <2>12. StackInv'
        BY <2>4, <2>11 DEF ParserInv, StackInv
    <2>13. PlaceInv'
        <3>1. \A i \in 1..L - 1 : stack[i].current # NULL
            <4>1. \A i \in 1..L - 1 : i \in 1..L
                BY <2>2
            <4> QED
                BY <1>1, <4>1 DEF ParserInv, PlaceInv
        <3>2. stack'[L].current # NULL
            BY <2>2, <2>8, <2>11 DEF NULL
        <3>3. \A i \in 1..L : stack'[i].current # NULL
            BY <2>2, <2>11, <3>1, <3>2
        <3> QED
            BY <2>1, <2>4, <2>5, <2>11, <3>3 DEF ParserInv, PlaceInv
    <2> QED
        BY <2>6, <2>7, <2>12, <2>13 DEF ParserInv
<1> QED
    BY <1>2, <1>3

LEMMA CloseKeeps ==
    ASSUME ParserInv, CloseList
    PROVE  ParserInv'
<1> DEFINE L == Len(stack)
           k == Len(heap)
<1>1. /\ stack # <<>> /\ pc \in {"opened", "behind"}
      /\ heap' = Finished(Top) /\ stack' = Front(stack) /\ offset' = offset + 1
      /\ pc' = "behind" /\ Token = Closer[Top.opened]
      /\ UNCHANGED <<text, live, root, refused>>
    BY DEF CloseList
<1>2. /\ k \in Nat /\ DOMAIN heap = 1..k /\ L \in Nat \ {0} /\ Top \in FramesUpTo(k)
      /\ stack' \in Seq(FramesUpTo(k)) /\ Len(stack') = L - 1
      /\ \A i \in 1..L - 1 : stack'[i] = stack[i]
    BY <1>1, Places DEF ParserInv
<1>3. TextInv'
    <2>1. Top.opened \in {"[", "{"} /\ Token \in Tokens
        BY <1>1, <1>2 DEF FramesUpTo, Closer, Tokens
    <2>2. offset' \in 1..Len(text) + 1
        BY <1>1, <2>1, TokensAhead DEF ParserInv
    <2> QED
        BY <1>1, <2>2 DEF ParserInv, TextInv
<1>4. heap' \in Seq(CellsUpTo(k)) /\ Len(heap') = k
    <2>1. ASSUME NEW n \in 1..k
          PROVE  heap'[n] \in CellsUpTo(k)
        <3>1. heap[n] \in CellsUpTo(k)
            BY <1>2 DEF ParserInv, HeapInv
        <3>2. Top.opened \in Types /\ Top.head \in 0..k /\ Top.current \in 0..k
            BY <1>2 DEF FramesUpTo, Types
        <3>3. /\ [heap[n] EXCEPT !.prev = Top.current] \in CellsUpTo(k)
              /\ [heap[n] EXCEPT !.type = Top.opened, !.child = Top.head] \in CellsUpTo(k)
            BY <1>2, <3>1, <3>2, CellChanges
        <3> QED
            BY <1>1, <1>2, <3>1, <3>3 DEF Finished
    <2>2. DOMAIN heap' = 1..k /\ heap' = [n \in 1..k |-> heap'[n]]
        BY <1>1, <1>2 DEF Finished
    <2> HIDE DEF k
    <2> QED
        BY <1>2, <2>1, <2>2
<1>5. HeapInv'
    BY <1>1, <1>4 DEF ParserInv, HeapInv
<1>6. StackInv'
    <2>1. L <= NestingLimit /\ NestingLimit \in Nat
        BY CjsonAssumption DEF ParserInv, StackInv
    <2>2. Len(stack') <= NestingLimit
        BY <1>2, <2>1
    <2> QED
        BY <1>2, <1>4, <2>2 DEF StackInv
<1>7. PlaceInv'
    <2>1. \A i \in 1..L - 1 : stack[i].current # NULL
        <3>1. \A i \in 1..L - 1 : i \in 1..L
            BY <1>2
        <3> QED
            BY <1>1, <3>1 DEF ParserInv, PlaceInv
    <2>2. \A i \in 1..Len(stack') : stack'[i].current # NULL
        BY <1>2, <2>1
    <2> QED
        BY <1>1, <1>4, <2>2 DEF ParserInv, PlaceInv
<1> QED
    BY <1>3, <1>5, <1>6, <1>7 DEF ParserInv

\* What is freed is freed once parsing failed, or by the caller.
LEMMA FreeKeeps ==
    ASSUME ParserInv, Unwind \/ Delete
    PROVE  ParserInv'
<1>1. CASE Unwind /\ stack # <<>>
    <2>1. /\ pc = "failed" /\ pc' = pc /\ stack' = Front(stack) /\ live' \subseteq live
          /\ UNCHANGED <<text, offset, heap, root, refused>>
        BY <1>1 DEF Unwind
    <2>2. /\ stack' \in Seq(FramesUpTo(Len(heap))) /\ Len(stack') = Len(stack) - 1
          /\ Len(stack) \in Nat
        BY <1>1, <2>1, Places DEF ParserInv
    <2>3. Len(stack') <= NestingLimit
        BY <2>2, CjsonAssumption DEF ParserInv, StackInv
    <2>4. TextInv' /\ HeapInv'
        BY <2>1 DEF ParserInv, TextInv, HeapInv
    <2>5. StackInv'
        BY <2>1, <2>2, <2>3 DEF StackInv
    <2>6. PlaceInv'
        BY <2>1 DEF ParserInv, PlaceInv
    <2> QED
        BY <2>4, <2>5, <2>6 DEF ParserInv
<1>2. CASE (Unwind /\ stack = <<>>) \/ Delete
    <2>1. /\ pc' \in {"done", "deleted"} /\ root' = NULL /\ live' \subseteq live
          /\ UNCHANGED <<text, offset, heap, stack, refused>>
        BY <1>2 DEF Unwind, Delete
    <2>2. TextInv' /\ StackInv'
        BY <2>1 DEF ParserInv, TextInv, StackInv
    <2>3. HeapInv'
        <3>1. Len(heap) \in Nat
            BY DEF ParserInv, HeapInv
        <3>2. root' \in 0..Len(heap)
            BY <2>1, <3>1 DEF NULL
        <3> QED
            BY <2>1, <3>2 DEF ParserInv, HeapInv
    <2>4. PlaceInv'
        BY <2>1 DEF ParserInv, PlaceInv
    <2> QED
        BY <2>2, <2>3, <2>4 DEF ParserInv
<1> QED
    BY <1>1, <1>2

LEMMA ParserInvNext ==
    ASSUME ParserInv, Next \/ UNCHANGED vars
    PROVE  ParserInv'
<1>1. CASE Accept \/ Reject
    <2>1. /\ UNCHANGED <<text, offset, heap, live, stack, root, refused>>
          /\ pc' = "failed" \/ (pc' = "done" /\ pc = "behind")
        BY <1>1 DEF Accept, Reject
    <2> QED
        BY <2>1, StopKeeps DEF ParserInv, PlaceInv
<1>2. CASE UNCHANGED vars
    BY <1>2 DEF vars, ParserInv, TextInv, HeapInv, StackInv, PlaceInv
<1> QED
    BY <1>1, <1>2, StartKeeps, ScalarKeeps, StringKeeps, OpenKeeps, AddKeeps, CloseKeeps,
       FreeKeeps DEF Next


-----------------------------------------------------------------------------
(* Induction *)

LEMMA Least ==
    ASSUME NEW S \in SUBSET Nat, S # {}
    PROVE  \E m \in S : \A k \in S : m <= k
<1> DEFINE R == OpToRel(<, Nat)
<1>1. IsWellFoundedOn(R, Nat)
    BY NatLessThanWellFounded
<1>2. \A x, y \in Nat : y < x => <<y, x>> \in R
    BY DEF OpToRel
<1> HIDE DEF R
<1>3. PICK m \in S : \A k \in S : <<k, m>> \notin R
    BY <1>1, WFMin
<1>4. \A k \in S : ~(k < m) /\ k \in Nat /\ m \in Nat
    BY <1>2, <1>3
<1> QED
    BY <1>4

\* Induction over the members of a set.
LEMMA AllNumbers ==
    ASSUME NEW T, 0 \in T, \A n \in Nat : n \in T => n + 1 \in T
    PROVE  \A n \in Nat : n \in T
<1> SUFFICES ASSUME NEW b \in Nat, b \notin T
             PROVE  FALSE
    OBVIOUS
<1> DEFINE U == Nat \ T
<1>1. U \in SUBSET Nat /\ U # {}
    OBVIOUS
<1>2. PICK m \in U : \A k \in U : m <= k
    <2> HIDE DEF U
    <2> QED
        BY <1>1, Least
<1>3. m # 0 /\ m \in Nat
    BY <1>2
<1>4. m - 1 \in Nat /\ m - 1 \in T
    BY <1>2, <1>3
<1> QED
    BY <1>3, <1>4


-----------------------------------------------------------------------------
(* Ownership: the invariant *)

\* Nothing of the heap h points to n; and what the cells of S point to is in S.
Unpointed(h, n) == \A m \in 1..Len(h), p \in Pointers : h[m][p] # n
Down(h, S) == \A m \in S, p \in Pointers : h[m][p] # NULL => h[m][p] \in S

\* The cells that can be reached from n.
Tree(h, n) ==
    IF n = NULL THEN {}
    ELSE {m \in 1..Len(h) : \A S \in SUBSET (1..Len(h)) : (n \in S /\ Down(h, S)) => m \in S}

\* A cell points to newer ones, and no two pointers to the same.
PointsForward(h) ==
    \A m \in 1..Len(h), p \in Pointers :
        h[m][p] \in 0..Len(h) /\ (h[m][p] # NULL => m < h[m][p])
PointedOnce(h) ==
    \A m, n \in 1..Len(h), p, q \in Pointers :
        (h[m][p] # NULL /\ h[m][p] = h[n][q]) => (m = n /\ p = q)
Forest(h) == PointsForward(h) /\ PointedOnce(h)

\* No cell points to what the variables point to, and these to different cells.
TopsInv(h, r, s) ==
    /\ r # NULL => Unpointed(h, r)
    /\ \A i \in 1..Len(s) : s[i].head # NULL =>
          /\ Unpointed(h, s[i].head)
          /\ s[i].head # r
          /\ \A j \in 1..Len(s) : s[j].head = s[i].head => i = j

\* Everything is pointed to.
Covered(h, r, s) ==
    \A n \in 1..Len(h) : n = r \/ (\E i \in 1..Len(s) : s[i].head = n) \/ ~Unpointed(h, n)

\* The items of the lists under way are further from the root the later their list was
\* opened; none of them has been given a list yet, and nothing follows the last item of
\* any.
FramesInv(h, s) ==
    \A i \in 1..Len(s) :
        /\ s[i].head = NULL <=> s[i].current = NULL
        /\ s[i].head # NULL => s[i].item < s[i].head /\ s[i].head <= s[i].current
        /\ h[s[i].item].child = NULL
        /\ s[i].current # NULL => h[s[i].current].next = NULL
        /\ \A j \in 1..Len(s) : i < j => s[i].current # NULL /\ s[i].current <= s[j].item

\* What is read next is for an item that has nothing yet.
ItemInv ==
    pc \in {"value", "name"} =>
        /\ heap[Item].child = NULL /\ heap[Item].valuestring = NULL
        /\ pc = "name" => heap[Item].string = NULL

Reading == {"value", "name", "opened", "behind"}

OwnInv ==
    /\ Forest(heap)
    /\ TopsInv(heap, root, stack)
    /\ pc \in Reading => Covered(heap, root, stack)
    /\ FramesInv(heap, stack)
    /\ ItemInv
    /\ live = Tree(heap, root) \cup UNION {Tree(heap, stack[i].head) : i \in 1..Len(stack)}

-----------------------------------------------------------------------------
(* What can be reached *)

LEMMA TreeIsDown ==
    ASSUME NEW h, Len(h) \in Nat, PointsForward(h), NEW n \in 0..Len(h)
    PROVE  /\ Tree(h, n) \subseteq 1..Len(h)
           /\ Down(h, Tree(h, n))
           /\ n # NULL => n \in Tree(h, n)
           /\ \A S \in SUBSET (1..Len(h)) : (n \in S /\ Down(h, S)) => Tree(h, n) \subseteq S
<1>1. CASE n = NULL
    <2>1. Tree(h, n) = {} /\ \A S \in SUBSET (1..Len(h)) : n \notin S
        BY <1>1 DEF Tree, NULL
    <2> QED
        BY <1>1, <2>1 DEF Down
<1>2. CASE n # NULL
    <2>1. Tree(h, n) = {m \in 1..Len(h) :
                            \A S \in SUBSET (1..Len(h)) : (n \in S /\ Down(h, S)) => m \in S}
        BY <1>2 DEF Tree
    <2>2. \A S \in SUBSET (1..Len(h)) : (n \in S /\ Down(h, S)) => Tree(h, n) \subseteq S
        BY <2>1
    <2>3. n \in Tree(h, n)
        BY <1>2, <2>1 DEF NULL
    <2>4. ASSUME NEW m \in Tree(h, n), NEW p \in Pointers, h[m][p] # NULL
          PROVE  h[m][p] \in Tree(h, n)
        <3>1. h[m][p] \in 1..Len(h)
            BY <2>1, <2>4 DEF PointsForward, NULL
        <3>2. ASSUME NEW S \in SUBSET (1..Len(h)), n \in S, Down(h, S)
              PROVE  h[m][p] \in S
            <4>1. m \in S
                BY <2>2, <2>4, <3>2
            <4> QED
                BY <2>4, <3>2, <4>1 DEF Down
        <3> QED
            BY <2>1, <3>1, <3>2, Zenon
    <2>5. Down(h, Tree(h, n))
        BY <2>4 DEF Down
    <2> QED
        BY <2>1, <2>2, <2>3, <2>5
<1> QED
    BY <1>1, <1>2

\* What is in the tree of n is n, or something of the tree points to it.
LEMMA TreePointed ==
    ASSUME NEW h, Len(h) \in Nat, PointsForward(h), NEW n \in 1..Len(h), NEW x \in Tree(h, n),
           x # n
    PROVE  \E m \in Tree(h, n), p \in Pointers : h[m][p] = x
<1> DEFINE T == Tree(h, n)
           S == {y \in T : y = n \/ \E m \in T, p \in Pointers : h[m][p] = y}
<1>1. /\ T \subseteq 1..Len(h) /\ Down(h, T) /\ n \in T
      /\ \A U \in SUBSET (1..Len(h)) : (n \in U /\ Down(h, U)) => T \subseteq U
    <2>1. n \in 0..Len(h) /\ n # NULL
        BY DEF NULL
    <2> QED
        BY <2>1, TreeIsDown
<1> HIDE DEF T
<1>2. S \in SUBSET (1..Len(h)) /\ n \in S
    BY <1>1
<1>3. Down(h, S)
    BY <1>1 DEF Down
<1>4. T \subseteq S
    BY <1>1, <1>2, <1>3
<1> QED
    BY <1>4 DEF T

\* What nothing points to has a tree of its own.
LEMMA TreesApart ==
    ASSUME NEW h, Len(h) \in Nat, Forest(h), NEW a \in 0..Len(h), NEW b \in 0..Len(h),
           a # b, a # NULL => Unpointed(h, a), b # NULL => Unpointed(h, b)
    PROVE  Tree(h, a) \cap Tree(h, b) = {}
<1>1. CASE a = NULL \/ b = NULL
    BY <1>1 DEF Tree
<1>2. CASE a # NULL /\ b # NULL
    <2> DEFINE A == Tree(h, a)
               B == Tree(h, b)
    <2>1. a \in 1..Len(h) /\ b \in 1..Len(h) /\ PointsForward(h) /\ PointedOnce(h)
        BY <1>2 DEF NULL, Forest
    <2>2. /\ A \subseteq 1..Len(h) /\ Down(h, A) /\ a \in A
          /\ \A U \in SUBSET (1..Len(h)) : (a \in U /\ Down(h, U)) => A \subseteq U
        BY <1>2, <2>1, TreeIsDown
    <2>3. /\ B \subseteq 1..Len(h) /\ Down(h, B) /\ b \in B
          /\ \A x \in B : x # b => \E m \in B, p \in Pointers : h[m][p] = x
        BY <1>2, <2>1, TreeIsDown, TreePointed
    <2> HIDE DEF A, B
    <2>4. a \notin B
        <3>1. SUFFICES ASSUME a \in B
                       PROVE  FALSE
            OBVIOUS
        <3>2. PICK m \in B, p \in Pointers : h[m][p] = a
            BY <2>3, <3>1
        <3> QED
            BY <1>2, <2>3, <3>2 DEF Unpointed
    <2> DEFINE S == A \ B
    <2>5. Down(h, S)
        <3> SUFFICES ASSUME NEW m \in S, NEW p \in Pointers, h[m][p] # NULL
                     PROVE  h[m][p] \in S
            BY DEF Down
        <3>1. h[m][p] \in A
            BY <2>2 DEF Down
        <3>2. ASSUME h[m][p] \in B
              PROVE  FALSE
            <4>1. h[m][p] # b
                BY <1>2, <2>2 DEF Unpointed
            <4>2. PICK n \in B, q \in Pointers : h[n][q] = h[m][p]
                BY <2>3, <3>2, <4>1
            <4>3. n = m
                BY <2>1, <2>2, <2>3, <4>2 DEF PointedOnce
            <4> QED
                BY <4>3
        <3> QED
            BY <3>1, <3>2
    <2>6. A \subseteq S
        BY <2>2, <2>4, <2>5
    <2> QED
        BY <2>6 DEF A, B
<1> QED
    BY <1>1, <1>2

\* If everything is pointed to, everything is in the tree of one of the variables.
LEMMA TreesCover ==
    ASSUME NEW h, Len(h) \in Nat, PointsForward(h), NEW r \in 0..Len(h), NEW s,
           \A i \in 1..Len(s) : s[i].head \in 0..Len(h), Covered(h, r, s)
    PROVE  1..Len(h) = Tree(h, r) \cup UNION {Tree(h, s[i].head) : i \in 1..Len(s)}
<1> DEFINE V == {Tree(h, s[i].head) : i \in 1..Len(s)}
           U == Tree(h, r) \cup UNION V
<1>1. /\ Tree(h, r) \subseteq 1..Len(h) /\ Down(h, Tree(h, r))
      /\ r # NULL => r \in Tree(h, r)
    BY TreeIsDown
<1>2. \A i \in 1..Len(s) :
          /\ Tree(h, s[i].head) \subseteq 1..Len(h)
          /\ Down(h, Tree(h, s[i].head))
          /\ s[i].head # NULL => s[i].head \in Tree(h, s[i].head)
    BY TreeIsDown
<1>3. ASSUME NEW X \in V
      PROVE  X \subseteq 1..Len(h) /\ Down(h, X)
    <2>1. PICK i \in 1..Len(s) : X = Tree(h, s[i].head)
        OBVIOUS
    <2> QED
        BY <1>2, <2>1, Zenon
<1>4. ASSUME NEW i \in 1..Len(s), s[i].head # NULL
      PROVE  s[i].head \in UNION V
    <2>1. Tree(h, s[i].head) \in V
        OBVIOUS
    <2>2. s[i].head \in Tree(h, s[i].head)
        BY <1>2, <1>4
    <2> HIDE DEF V
    <2> QED
        BY <2>1, <2>2, Zenon
<1> HIDE DEF V
<1>5. U \subseteq 1..Len(h) /\ Down(h, U)
    BY <1>1, <1>3 DEF Down
<1>6. /\ r # NULL => r \in U
      /\ \A i \in 1..Len(s) : s[i].head # NULL => s[i].head \in U
    BY <1>1, <1>4
<1> HIDE DEF U
<1>7. ASSUME NEW x \in (1..Len(h)) \ U
      PROVE  FALSE
    <2> DEFINE D == (1..Len(h)) \ U
    <2>1. D \in SUBSET Nat /\ D # {}
        BY <1>6
    <2> HIDE DEF D
    <2>2. PICK n \in D : \A k \in D : n <= k
        BY <2>1, Least
    <2>3. n \in 1..Len(h) /\ n \notin U /\ n # NULL
        BY <2>2 DEF D, NULL
    <2>4. PICK m \in 1..Len(h), p \in Pointers : h[m][p] = n
        BY <1>6, <2>3 DEF Covered, Unpointed
    <2>5. m < n /\ m \in Nat /\ n \in Nat
        BY <2>3, <2>4 DEF PointsForward
    <2>6. m \notin D
        BY <2>2, <2>5
    <2>7. m \in U
        BY <2>6 DEF D
    <2>8. n \in U
        BY <1>5, <2>3, <2>4, <2>7 DEF Down
    <2> QED
        BY <2>3, <2>8
<1> QED
    BY <1>5, <1>7 DEF U, V

\* The tree of n is n and the trees of what it points to.
LEMMA TreeUnfolds ==
    ASSUME NEW h, Len(h) \in Nat, PointsForward(h), NEW n \in 1..Len(h)
    PROVE  /\ n \in Tree(h, n)
           /\ \A p \in Pointers : h[n][p] # NULL => Tree(h, h[n][p]) \subseteq Tree(h, n)
           /\ \A x \in Tree(h, n) :
                 x # n => \E p \in Pointers : h[n][p] # NULL /\ x \in Tree(h, h[n][p])
<1> DEFINE T == Tree(h, n)
<1>1. /\ T \subseteq 1..Len(h) /\ Down(h, T) /\ n \in T
      /\ \A U \in SUBSET (1..Len(h)) : (n \in U /\ Down(h, U)) => T \subseteq U
    <2>1. n \in 0..Len(h) /\ n # NULL
        BY DEF NULL
    <2> QED
        BY <2>1, TreeIsDown
<1>2. ASSUME NEW p \in Pointers, h[n][p] # NULL
      PROVE  /\ h[n][p] \in Tree(h, h[n][p]) /\ Down(h, Tree(h, h[n][p]))
             /\ Tree(h, h[n][p]) \subseteq T
    <2>1. h[n][p] \in 0..Len(h)
        BY DEF PointsForward
    <2>2. h[n][p] \in T
        BY <1>1, <1>2 DEF Down
    <2> HIDE DEF T
    <2> QED
        BY <1>1, <1>2, <2>1, <2>2, TreeIsDown
<1>3. ASSUME NEW x \in T, x # n
      PROVE  \E p \in Pointers : h[n][p] # NULL /\ x \in Tree(h, h[n][p])
    <2> DEFINE S == {y \in T : y = n \/ \E p \in Pointers : h[n][p] # NULL /\ y \in Tree(h, h[n][p])}
    <2> HIDE DEF T
    <2>1. S \in SUBSET (1..Len(h)) /\ n \in S
        BY <1>1
    <2>2. ASSUME NEW m \in S, NEW q \in Pointers, h[m][q] # NULL
          PROVE  h[m][q] \in S
        <3>1. h[m][q] \in T
            BY <1>1, <2>2 DEF Down
        <3>2. CASE m = n
            BY <1>2, <2>2, <3>1, <3>2
        <3>3. CASE m # n
            <4>1. PICK p \in Pointers : h[n][p] # NULL /\ m \in Tree(h, h[n][p])
                BY <2>2, <3>3
            <4>2. Down(h, Tree(h, h[n][p]))
                BY <1>2, <4>1
            <4>3. h[m][q] \in Tree(h, h[n][p])
                BY <2>2, <4>1, <4>2, Zenon DEF Down
            <4> QED
                BY <3>1, <4>1, <4>3
        <3> QED
            BY <3>2, <3>3
    <2>3. T \subseteq S
        BY <1>1, <2>1, <2>2 DEF Down
    <2> QED
        BY <1>3, <2>3
<1> QED
    BY <1>1, <1>2, <1>3

\* f takes each cell to what cJSON_Delete frees below it.
Frees(f) ==
    f = [n \in DOMAIN heap |->
            {n} \cup UNION {f[heap[n][p]] : p \in {q \in Pointers : heap[n][q] # NULL}}]

\* What cJSON_Delete frees is the tree.
LEMMA BelowIsTree ==
    ASSUME Len(heap) \in Nat, DOMAIN heap = 1..Len(heap), PointsForward(heap),
           NEW x \in 0..Len(heap)
    PROVE  Below(x) = Tree(heap, x)
<1> DEFINE F == [n \in DOMAIN heap |-> Tree(heap, n)]
           Links(n) == {q \in Pointers : heap[n][q] # NULL}
<1>1. ASSUME NEW n \in 1..Len(heap), NEW p \in Links(n)
      PROVE  p \in Pointers /\ heap[n][p] \in 1..Len(heap) /\ n < heap[n][p]
    BY DEF PointsForward, NULL
<1>2. ASSUME NEW n \in 1..Len(heap)
      PROVE  Tree(heap, n) = {n} \cup UNION {F[heap[n][p]] : p \in Links(n)}
    <2> DEFINE U == UNION {F[heap[n][p]] : p \in Links(n)}
    <2>1. \A p \in Links(n) : F[heap[n][p]] = Tree(heap, heap[n][p])
        BY <1>1
    <2>2. /\ n \in Tree(heap, n)
          /\ \A p \in Pointers : heap[n][p] # NULL => Tree(heap, heap[n][p]) \subseteq Tree(heap, n)
          /\ \A y \in Tree(heap, n) :
                y # n => \E p \in Pointers : heap[n][p] # NULL /\ y \in Tree(heap, heap[n][p])
        BY TreeUnfolds
    <2>3. ASSUME NEW y \in U
          PROVE  y \in Tree(heap, n)
        <3>1. PICK p \in Links(n) : y \in F[heap[n][p]]
            OBVIOUS
        <3>2. y \in Tree(heap, heap[n][p])
            BY <2>1, <3>1
        <3> QED
            BY <2>2, <3>2
    <2>4. ASSUME NEW y \in Tree(heap, n), y # n
          PROVE  y \in U
        <3>1. PICK p \in Links(n) : y \in Tree(heap, heap[n][p])
            BY <2>2, <2>4
        <3>2. y \in F[heap[n][p]]
            BY <2>1, <3>1
        <3> QED
            BY <3>2
    <2> HIDE DEF U
    <2>5. Tree(heap, n) = {n} \cup U
        BY <2>2, <2>3, <2>4
    <2> QED
        BY <2>5 DEF U
<1>3. Frees(F)
    BY <1>2 DEF Frees
<1>4. Frees(CHOOSE f : Frees(f))
    <2> HIDE DEF F
    <2> QED
        BY <1>3, Zenon
<1>5. Below(x) = IF x = NULL THEN {} ELSE (CHOOSE f : Frees(f))[x]
    BY DEF Below, Frees
<1>6. PICK f : Frees(f) /\ Below(x) = IF x = NULL THEN {} ELSE f[x]
    <2> HIDE DEF F
    <2> QED
        BY <1>4, <1>5, Zenon
<1>7. \A n \in 1..Len(heap) : f[n] = {n} \cup UNION {f[heap[n][p]] : p \in Links(n)}
    BY <1>6 DEF Frees
<1> HIDE DEF F, Links
<1> DEFINE D == {k \in Nat : k < Len(heap) /\ f[Len(heap) - k] # Tree(heap, Len(heap) - k)}
<1>8. D = {}
    <2>1. SUFFICES ASSUME D # {}
                   PROVE  FALSE
        OBVIOUS
    <2>2. D \in SUBSET Nat
        OBVIOUS
    <2> HIDE DEF D
    <2>3. PICK k \in D : \A j \in D : k <= j
        BY <2>1, <2>2, Least
    <2> DEFINE n == Len(heap) - k
    <2>4. k \in Nat /\ n \in 1..Len(heap) /\ f[n] # Tree(heap, n)
        BY <2>3 DEF D
    <2>5. ASSUME NEW m \in 1..Len(heap), n < m
          PROVE  f[m] = Tree(heap, m)
        <3> DEFINE j == Len(heap) - m
        <3>1. j \in Nat /\ j < k /\ j < Len(heap) /\ m = Len(heap) - j
            BY <2>4, <2>5
        <3>2. j \notin D
            BY <2>3, <2>4, <3>1
        <3> QED
            BY <3>1, <3>2 DEF D
    <2>6. \A p \in Links(n) : f[heap[n][p]] = F[heap[n][p]]
        BY <1>1, <2>4, <2>5 DEF F
    <2>7. {f[heap[n][p]] : p \in Links(n)} = {F[heap[n][p]] : p \in Links(n)}
        BY <2>6, Zenon
    <2> HIDE DEF n
    <2>8. f[n] = Tree(heap, n)
        BY <1>2, <1>7, <2>4, <2>7
    <2> QED
        BY <2>4, <2>8
<1>9. ASSUME NEW n \in 1..Len(heap)
      PROVE  f[n] = Tree(heap, n)
    <2> DEFINE k == Len(heap) - n
    <2>1. k \in Nat /\ k < Len(heap) /\ n = Len(heap) - k
        OBVIOUS
    <2>2. k \notin D
        BY <1>8
    <2> QED
        BY <2>1, <2>2
<1>10. CASE x = NULL
    BY <1>6, <1>10 DEF Tree
<1>11. CASE x # NULL
    <2>1. x \in 1..Len(heap)
        BY <1>11 DEF NULL
    <2> QED
        BY <1>6, <1>9, <1>11, <2>1
<1> QED
    BY <1>10, <1>11

LEMMA SameSize ==
    ASSUME NEW S, IsFiniteSet(S), NEW f, \A a, b \in S : f[a] = f[b] => a = b
    PROVE  IsFiniteSet({f[x] : x \in S}) /\ Cardinality({f[x] : x \in S}) = Cardinality(S)
<1> DEFINE T == {f[x] : x \in S}
           g == [x \in S |-> f[x]]
<1>1. g \in [S -> T] /\ \A x \in S : g[x] = f[x]
    OBVIOUS
<1>2. \A t \in T : \E x \in S : g[x] = t
    OBVIOUS
<1> HIDE DEF T, g
<1>3. g \in Surjection(S, T)
    BY <1>1, <1>2 DEF Surjection
<1>4. g \in Injection(S, T)
    <2>1. \A a, b \in S : g[a] = g[b] => a = b
        BY <1>1
    <2> QED
        BY <1>1, <2>1 DEF Injection, IsInjective
<1>5. IsFiniteSet(T) /\ Cardinality(T) = Cardinality(S)
    BY <1>3, <1>4, FS_Surjection
<1> QED
    BY <1>5 DEF T

LEMMA UnionSize ==
    ASSUME NEW A, NEW B, NEW C, IsFiniteSet(A), IsFiniteSet(B), IsFiniteSet(C),
           A \cap B = {}, A \cap C = {}, B \cap C = {}
    PROVE  Cardinality(A) + Cardinality(B) + Cardinality(C) = Cardinality(A \cup B \cup C)
<1>1. Cardinality({}) = 0
    BY FS_EmptySet
<1>a. Cardinality(A \cap B) = 0
    BY <1>1, Zenon
<1>2. /\ IsFiniteSet(A \cup B)
      /\ Cardinality(A \cup B) = Cardinality(A) + Cardinality(B) - Cardinality(A \cap B)
    BY FS_Union
<1>3. Cardinality((A \cup B) \cap C) = 0
    <2>1. (A \cup B) \cap C = {}
        OBVIOUS
    <2> QED
        BY <1>1, <2>1, Zenon
<1>4. Cardinality((A \cup B) \cup C)
          = Cardinality(A \cup B) + Cardinality(C) - Cardinality((A \cup B) \cap C)
    BY <1>2, FS_Union
<1>5. /\ Cardinality(A) \in Nat /\ Cardinality(B) \in Nat /\ Cardinality(C) \in Nat
      /\ Cardinality(A \cup B) \in Nat
    BY <1>2, FS_CardinalityType
<1>6. Cardinality(A \cup B) = Cardinality(A) + Cardinality(B)
    BY <1>2, <1>5, <1>a
<1>7. Cardinality((A \cup B) \cup C) = Cardinality(A \cup B) + Cardinality(C)
    BY <1>3, <1>4, <1>5
<1> QED
    BY <1>6, <1>7

LEMMA OwnedOnce ==
    ASSUME ParserInv, OwnInv
    PROVE  MemoryOwned
<1> DEFINE k == Len(heap)
           h == heap
           FromHeap == {l \in live \X Pointers : h[l[1]][l[2]] # NULL}
           FromStack == {i \in DOMAIN stack : Heads[i] # NULL}
           A == {h[l[1]][l[2]] : l \in FromHeap}
           B == {Heads[i] : i \in FromStack}
           C == {root} \ {NULL}
<1>1. /\ k \in Nat /\ DOMAIN heap = 1..k /\ Len(stack) \in Nat /\ root \in 0..k
      /\ DOMAIN stack = 1..Len(stack) /\ live \subseteq 1..k
    BY Places DEF ParserInv, StackInv, HeapInv
<1>2. \A i \in 1..Len(stack) : Heads[i] = stack[i].head /\ stack[i].head \in 0..k
    <2>1. \A i \in 1..Len(stack) : stack[i] \in FramesUpTo(k)
        BY DEF ParserInv, StackInv
    <2> QED
        BY <1>1, <2>1 DEF Heads, FramesUpTo
<1>3. PointsForward(h) /\ PointedOnce(h) /\ Forest(h)
    BY DEF OwnInv, Forest
<1>4. live = Below(root) \cup UNION {Below(Heads[i]) : i \in DOMAIN stack}
    <2>1. Below(root) = Tree(heap, root)
        BY <1>1, <1>3, BelowIsTree
    <2>2. \A i \in 1..Len(stack) : Below(Heads[i]) = Tree(heap, stack[i].head)
        BY <1>1, <1>2, <1>3, BelowIsTree
    <2>3. {Below(Heads[i]) : i \in DOMAIN stack} = {Tree(heap, stack[i].head) : i \in 1..Len(stack)}
        BY <1>1, <2>2, Zenon
    <2> QED
        BY <2>1, <2>3 DEF OwnInv
<1>5. /\ Down(h, live)
      /\ root # NULL => root \in live
      /\ \A i \in 1..Len(stack) : Heads[i] # NULL => Heads[i] \in live
      /\ \A x \in live : \/ x = root
                         \/ \E i \in 1..Len(stack) : x = Heads[i]
                         \/ \E m \in live, p \in Pointers : h[m][p] = x
    <2> DEFINE V == {Tree(h, stack[i].head) : i \in 1..Len(stack)}
    <2>1. live = Tree(h, root) \cup UNION V
        BY DEF OwnInv
    <2>2. ASSUME NEW r \in 0..k
          PROVE  /\ Down(h, Tree(h, r))
                 /\ r # NULL => r \in Tree(h, r)
                 /\ \A x \in Tree(h, r) : x = r \/ \E m \in Tree(h, r), p \in Pointers : h[m][p] = x
        <3>1. CASE r = NULL
            BY <3>1 DEF Tree, Down
        <3>2. CASE r # NULL
            <4>1. r \in 1..k
                BY <3>2 DEF NULL
            <4> HIDE DEF k, h
            <4> QED
                BY <1>1, <1>3, <3>2, <4>1, TreeIsDown, TreePointed DEF k, h
        <3> QED
            BY <3>1, <3>2
    <2>3. ASSUME NEW X \in V
          PROVE  \E i \in 1..Len(stack) : stack[i].head \in 0..k /\ X = Tree(h, stack[i].head)
                                           /\ Heads[i] = stack[i].head
        BY <1>2
    <2>4. \A i \in 1..Len(stack) : Tree(h, stack[i].head) \in V
        OBVIOUS
    <2> HIDE DEF V, k, h
    <2>5. \A X \in V : /\ Down(h, X)
                       /\ \A x \in X : \/ \E i \in 1..Len(stack) : x = Heads[i]
                                       \/ \E m \in X, p \in Pointers : h[m][p] = x
        BY <2>2, <2>3
    <2>6. Down(h, live)
        BY <1>1, <2>1, <2>2, <2>5 DEF Down
    <2>7. root # NULL => root \in live
        BY <1>1, <2>1, <2>2
    <2>8. \A i \in 1..Len(stack) : Heads[i] # NULL => Heads[i] \in live
        BY <1>2, <2>1, <2>2, <2>4
    <2>9. ASSUME NEW x \in live, x # root, \A i \in 1..Len(stack) : x # Heads[i]
          PROVE  \E m \in live, p \in Pointers : h[m][p] = x
        <3>1. CASE x \in Tree(h, root)
            <4>1. PICK m \in Tree(h, root), p \in Pointers : h[m][p] = x
                BY <1>1, <2>2, <2>9, <3>1
            <4> QED
                BY <2>1, <4>1
        <3>2. CASE x \in UNION V
            <4>1. PICK X \in V : x \in X
                BY <3>2
            <4>2. PICK m \in X, p \in Pointers : h[m][p] = x
                BY <2>5, <2>9, <4>1
            <4> QED
                BY <2>1, <4>2
        <3> QED
            BY <2>1, <3>1, <3>2
    <2> QED
        BY <2>6, <2>7, <2>8, <2>9
<1>6. \A l \in FromHeap : /\ l[1] \in live /\ l[2] \in Pointers /\ l = <<l[1], l[2]>>
                          /\ h[l[1]][l[2]] # NULL
    OBVIOUS
<1>7. \A m \in live, p \in Pointers : h[m][p] # NULL =>
          <<m, p>> \in FromHeap /\ <<m, p>>[1] = m /\ <<m, p>>[2] = p
    OBVIOUS
<1>8. A \cup B \cup C = live
    <2>1. A \subseteq live
        <3> HIDE DEF FromHeap, h
        <3> QED
            BY <1>5, <1>6 DEF Down
    <2>2. B \subseteq live /\ C \subseteq live
        BY <1>1, <1>5
    <2>3. ASSUME NEW x \in live
          PROVE  x \in A \cup B \cup C
        <3>1. x # NULL
            BY <1>1 DEF NULL
        <3>2. CASE x = root
            BY <3>1, <3>2
        <3>3. CASE \E i \in 1..Len(stack) : x = Heads[i]
            BY <1>1, <3>1, <3>3
        <3>4. CASE \E m \in live, p \in Pointers : h[m][p] = x
            <4>1. PICK m \in live, p \in Pointers : h[m][p] = x
                BY <3>4
            <4> HIDE DEF FromHeap, h, B, C
            <4>2. <<m, p>> \in FromHeap /\ h[<<m, p>>[1]][<<m, p>>[2]] = x
                BY <1>7, <3>1, <4>1
            <4> QED
                BY <4>2
        <3> QED
            BY <1>5, <3>2, <3>3, <3>4
    <2> QED
        BY <2>1, <2>2, <2>3
<1>9. A \cap B = {} /\ A \cap C = {} /\ B \cap C = {}
    <2>1. ASSUME NEW l \in FromHeap
          PROVE  /\ h[l[1]][l[2]] # root
                 /\ \A i \in 1..Len(stack) : Heads[i] # NULL => h[l[1]][l[2]] # Heads[i]
        <3>1. l[1] \in 1..k /\ l[2] \in Pointers /\ h[l[1]][l[2]] # NULL
            BY <1>1, <1>6
        <3> HIDE DEF FromHeap
        <3> QED
            BY <1>2, <3>1 DEF OwnInv, TopsInv, Unpointed
    <2>2. \A i \in 1..Len(stack) : Heads[i] # NULL => Heads[i] # root
        BY <1>2 DEF OwnInv, TopsInv
    <2> HIDE DEF FromHeap, h
    <2> QED
        BY <1>1, <2>1, <2>2
<1>10. IsFiniteSet(A) /\ Cardinality(A) = Cardinality(FromHeap)
    <2>1. IsFiniteSet(1..k)
        BY <1>1, FS_Interval
    <2>2. IsFiniteSet(live)
        BY <1>1, <2>1, FS_Subset
    <2>3. IsFiniteSet(Pointers)
        <3>1. IsFiniteSet({})
            BY FS_EmptySet
        <3>2. Pointers = ((({} \cup {"next"}) \cup {"child"}) \cup {"string"}) \cup {"valuestring"}
            BY DEF Pointers
        <3> HIDE DEF Pointers
        <3> QED
            BY <3>1, <3>2, FS_AddElement
    <2>4. IsFiniteSet(live \X Pointers)
        BY <2>2, <2>3, FS_Product
    <2>5. IsFiniteSet(FromHeap)
        <3>1. FromHeap \in SUBSET (live \X Pointers)
            OBVIOUS
        <3> HIDE DEF FromHeap
        <3> QED
            BY <2>4, <3>1, FS_Subset
    <2> DEFINE f == [l \in FromHeap |-> h[l[1]][l[2]]]
    <2>6. \A a, b \in FromHeap : f[a] = f[b] => a = b
        <3> SUFFICES ASSUME NEW a \in FromHeap, NEW b \in FromHeap, f[a] = f[b]
                     PROVE  a = b
            OBVIOUS
        <3>1. f[a] = h[a[1]][a[2]] /\ f[b] = h[b[1]][b[2]]
            OBVIOUS
        <3>2. /\ a[1] \in 1..k /\ a[2] \in Pointers /\ a = <<a[1], a[2]>> /\ h[a[1]][a[2]] # NULL
              /\ b[1] \in 1..k /\ b[2] \in Pointers /\ b = <<b[1], b[2]>>
            BY <1>1, <1>6
        <3>a. \A m, n \in 1..k, p, q \in Pointers :
                  (h[m][p] # NULL /\ h[m][p] = h[n][q]) => (m = n /\ p = q)
            BY <1>3 DEF PointedOnce
        <3> HIDE DEF FromHeap, f, h, k
        <3>b. h[a[1]][a[2]] = h[b[1]][b[2]]
            BY <3>1
        <3>3. a[1] = b[1] /\ a[2] = b[2]
            <4> DEFINE m == a[1]
                       n == b[1]
                       p == a[2]
                       q == b[2]
            <4>1. /\ m \in 1..k /\ n \in 1..k /\ p \in Pointers /\ q \in Pointers
                  /\ h[m][p] # NULL /\ h[m][p] = h[n][q]
                BY <3>2, <3>b
            <4> HIDE DEF m, n, p, q
            <4>2. m = n /\ p = q
                BY <3>a, <4>1
            <4> QED
                BY <4>2 DEF m, n, p, q
        <3> QED
            BY <3>2, <3>3, Zenon
    <2>7. {f[l] : l \in FromHeap} = A
        OBVIOUS
    <2> HIDE DEF f, FromHeap, A
    <2> QED
        BY <2>5, <2>6, <2>7, SameSize
<1>11. IsFiniteSet(B) /\ Cardinality(B) = Cardinality(FromStack)
    <2>1. IsFiniteSet(1..Len(stack))
        BY <1>1, FS_Interval
    <2>2. IsFiniteSet(FromStack)
        <3>1. FromStack \in SUBSET (1..Len(stack))
            BY <1>1
        <3> HIDE DEF FromStack
        <3> QED
            BY <2>1, <3>1, FS_Subset
    <2>3. \A i, j \in FromStack : Heads[i] = Heads[j] => i = j
        BY <1>1, <1>2 DEF OwnInv, TopsInv
    <2> HIDE DEF FromStack
    <2> QED
        BY <2>2, <2>3, SameSize
<1>12. IsFiniteSet(C)
    BY FS_Singleton, FS_Difference
<1> HIDE DEF A, B, C, FromHeap, FromStack
<1>13. Cardinality(A) + Cardinality(B) + Cardinality(C) = Cardinality(A \cup B \cup C)
    BY <1>9, <1>10, <1>11, <1>12, UnionSize
<1>14. Cardinality(FromHeap) + Cardinality(FromStack) + Cardinality(C)
           = Cardinality(A \cup B \cup C)
    BY <1>10, <1>11, <1>13, Zenon
<1> QED
    BY <1>4, <1>8, <1>14 DEF MemoryOwned, A, B, C, FromHeap, FromStack

-----------------------------------------------------------------------------
(* How the heap changes *)

\* The pointers of g are those of h.
SamePointers(h, g) ==
    /\ Len(g) = Len(h)
    /\ \A m \in 1..Len(h), p \in Pointers : g[m][p] = h[m][p]

\* g has a cell more, to which the pointer b of the cell a has been set, if a is a cell.
OneMore(h, g, a, b) ==
    /\ Len(g) = Len(h) + 1
    /\ \A m \in 1..Len(h), p \in Pointers :
          g[m][p] = IF m = a /\ p = b THEN Len(h) + 1 ELSE h[m][p]
    /\ \A p \in Pointers : g[Len(h) + 1][p] = NULL

\* In g the cell c, which nothing pointed to, is the child of a.
Adopted(h, g, a, c) ==
    /\ Len(g) = Len(h)
    /\ \A m \in 1..Len(h), p \in Pointers :
          g[m][p] = IF m = a /\ p = "child" THEN c ELSE h[m][p]

LEMMA SamePointersKeep ==
    ASSUME NEW h, NEW g, SamePointers(h, g), Forest(h), NEW r, NEW s
    PROVE  /\ Forest(g)
           /\ TopsInv(h, r, s) => TopsInv(g, r, s)
           /\ Covered(h, r, s) => Covered(g, r, s)
           /\ (FramesInv(h, s) /\ \A i \in 1..Len(s) : /\ s[i].item \in 1..Len(h)
                                                      /\ s[i].current \in 0..Len(h))
                  => FramesInv(g, s)
<1>1. \A n : Unpointed(g, n) <=> Unpointed(h, n)
    BY DEF SamePointers, Unpointed
<1>2. Forest(g)
    BY DEF SamePointers, Forest, PointsForward, PointedOnce
<1>3. TopsInv(h, r, s) => TopsInv(g, r, s)
    BY <1>1, Zenon DEF TopsInv
<1>4. Covered(h, r, s) => Covered(g, r, s)
    BY <1>1 DEF Covered, SamePointers
<1>5. ASSUME FramesInv(h, s),
             \A i \in 1..Len(s) : s[i].item \in 1..Len(h) /\ s[i].current \in 0..Len(h)
      PROVE  FramesInv(g, s)
    <2>1. \A m \in 1..Len(h) : g[m].child = h[m].child /\ g[m].next = h[m].next
        BY DEF SamePointers, Pointers
    <2>2. \A i \in 1..Len(s) : s[i].current # NULL => s[i].current \in 1..Len(h)
        BY <1>5 DEF NULL
    <2> QED
        BY <1>5, <2>1, <2>2 DEF FramesInv
<1> QED
    BY <1>2, <1>3, <1>4, <1>5

LEMMA OneMoreKeeps ==
    ASSUME NEW h, NEW g, Len(h) \in Nat, NEW a, NEW b \in Pointers, OneMore(h, g, a, b),
           Forest(h), a = NULL \/ (a \in 1..Len(h) /\ h[a][b] = NULL)
    PROVE  /\ Forest(g)
           /\ \A n \in 1..Len(h) : Unpointed(g, n) <=> Unpointed(h, n)
           /\ Unpointed(g, Len(h) + 1) <=> a = NULL
<1> DEFINE k == Len(h)
<1>1. /\ k \in Nat /\ Len(g) = k + 1
      /\ \A m \in 1..k, p \in Pointers : g[m][p] = IF m = a /\ p = b THEN k + 1 ELSE h[m][p]
      /\ \A p \in Pointers : g[k + 1][p] = NULL
      /\ \A m \in 1..k, p \in Pointers : h[m][p] \in 0..k /\ (h[m][p] # NULL => m < h[m][p])
    BY DEF OneMore, Forest, PointsForward
<1>a. \A m, n \in 1..k, p, q \in Pointers :
          (h[m][p] # NULL /\ h[m][p] = h[n][q]) => (m = n /\ p = q)
    BY DEF Forest, PointedOnce
<1>2. \A m \in 1..Len(g) : m \in 1..k \/ m = k + 1
    BY <1>1
<1>3. a = NULL \/ (a \in 1..k /\ h[a][b] = NULL)
    OBVIOUS
<1> HIDE DEF k
<1>4. PointsForward(g)
    <2>1. ASSUME NEW m \in 1..k, NEW p \in Pointers
          PROVE  g[m][p] \in 0..(k + 1) /\ (g[m][p] # NULL => m < g[m][p])
        BY <1>1
    <2>2. g[k + 1] = g[k + 1] /\ \A p \in Pointers : g[k + 1][p] \in 0..(k + 1)
        BY <1>1 DEF NULL
    <2> QED
        BY <1>1, <1>2, <2>1, <2>2 DEF PointsForward
<1>5. PointedOnce(g)
    <2> SUFFICES ASSUME NEW m \in 1..k, NEW n \in 1..k, NEW p \in Pointers, NEW q \in Pointers,
                        g[m][p] # NULL, g[m][p] = g[n][q]
                 PROVE  m = n /\ p = q
        BY <1>1, <1>2 DEF PointedOnce
    <2>1. CASE m = a /\ p = b
        BY <1>1, <2>1
    <2>2. CASE ~(m = a /\ p = b)
        <3>1. g[m][p] = h[m][p] /\ h[m][p] # k + 1
            BY <1>1, <2>2
        <3>2. g[n][q] = h[n][q]
            BY <1>1, <3>1
        <3>3. h[m][p] # NULL /\ h[m][p] = h[n][q]
            BY <3>1, <3>2
        <3> QED
            BY <1>a, <3>3
    <2> QED
        BY <2>1, <2>2
<1>6. ASSUME NEW n \in 1..k
      PROVE  Unpointed(g, n) <=> Unpointed(h, n)
    <2>1. n # NULL /\ n # k + 1
        BY <1>1 DEF NULL
    <2>2. ASSUME NEW m \in 1..k, NEW p \in Pointers
          PROVE  g[m][p] # n <=> h[m][p] # n
        <3>1. CASE m = a /\ p = b
            <4>1. g[m][p] = k + 1
                BY <1>1, <3>1
            <4>2. h[m][p] = NULL
                BY <1>3, <3>1 DEF NULL
            <4> QED
                BY <2>1, <4>1, <4>2
        <3>2. CASE ~(m = a /\ p = b)
            BY <1>1, <3>2
        <3> QED
            BY <3>1, <3>2
    <2>3. \A p \in Pointers : g[k + 1][p] # n
        BY <1>1, <2>1
    <2>4. k + 1 \in 1..Len(g) /\ 1..k \subseteq 1..Len(g) /\ k = Len(h)
        BY <1>1 DEF k
    <2> QED
        BY <1>2, <2>2, <2>3, <2>4, Zenon DEF Unpointed
<1>7. Unpointed(g, k + 1) <=> a = NULL
    <2>1. k + 1 # NULL
        BY <1>1 DEF NULL
    <2>2. CASE a = NULL
        <3>1. \A m \in 1..k, p \in Pointers : g[m][p] # k + 1
            BY <1>1, <2>2 DEF NULL
        <3> QED
            BY <1>1, <1>2, <2>1, <2>2, <3>1 DEF Unpointed
    <2>3. CASE a # NULL
        <3>1. a \in 1..Len(g) /\ g[a][b] = k + 1
            BY <1>1, <1>3, <2>3
        <3> QED
            BY <2>3, <3>1 DEF Unpointed
    <2> QED
        BY <2>2, <2>3
<1> QED
    BY <1>4, <1>5, <1>6, <1>7 DEF Forest, k

LEMMA AdoptedKeeps ==
    ASSUME NEW h, NEW g, Len(h) \in Nat, NEW a \in 1..Len(h), NEW c \in 0..Len(h),
           Adopted(h, g, a, c), Forest(h), h[a]["child"] = NULL,
           c # NULL => (Unpointed(h, c) /\ a < c)
    PROVE  /\ Forest(g)
           /\ \A n \in 1..Len(h) : n # c => (Unpointed(g, n) <=> Unpointed(h, n))
           /\ c # NULL => ~Unpointed(g, c)
<1> DEFINE k == Len(h)
<1>1. /\ k \in Nat /\ Len(g) = k /\ "child" \in Pointers
      /\ \A m \in 1..k, p \in Pointers : g[m][p] = IF m = a /\ p = "child" THEN c ELSE h[m][p]
      /\ \A m \in 1..k, p \in Pointers : h[m][p] \in 0..k /\ (h[m][p] # NULL => m < h[m][p])
      /\ c # NULL => (\A m \in 1..k, p \in Pointers : h[m][p] # c) /\ a < c
    BY DEF Adopted, Forest, PointsForward, Unpointed, Pointers
<1>a. \A m, n \in 1..k, p, q \in Pointers :
          (h[m][p] # NULL /\ h[m][p] = h[n][q]) => (m = n /\ p = q)
    BY DEF Forest, PointedOnce
<1> HIDE DEF k
<1>2. PointsForward(g)
    <2>1. ASSUME NEW m \in 1..k, NEW p \in Pointers
          PROVE  g[m][p] \in 0..k /\ (g[m][p] # NULL => m < g[m][p])
        BY <1>1 DEF k
    <2> QED
        BY <1>1, <2>1 DEF PointsForward
<1>3. PointedOnce(g)
    <2> SUFFICES ASSUME NEW m \in 1..k, NEW n \in 1..k, NEW p \in Pointers, NEW q \in Pointers,
                        g[m][p] # NULL, g[m][p] = g[n][q]
                 PROVE  m = n /\ p = q
        BY <1>1 DEF PointedOnce
    <2>1. CASE m = a /\ p = "child"
        BY <1>1, <2>1
    <2>2. CASE ~(m = a /\ p = "child")
        <3>1. g[m][p] = h[m][p]
            BY <1>1, <2>2
        <3>2. ASSUME n = a /\ q = "child"
              PROVE  FALSE
            <4>1. g[n][q] = c /\ c # NULL /\ h[m][p] = c
                BY <1>1, <3>1, <3>2
            <4> QED
                BY <1>1, <4>1
        <3>3. h[m][p] # NULL /\ h[m][p] = h[n][q]
            BY <1>1, <3>1, <3>2
        <3> QED
            BY <1>a, <3>3
    <2> QED
        BY <2>1, <2>2
<1>4. ASSUME NEW n \in 1..k, n # c
      PROVE  Unpointed(g, n) <=> Unpointed(h, n)
    <2>1. n # NULL
        BY DEF NULL
    <2>2. \A m \in 1..k, p \in Pointers : g[m][p] = n <=> h[m][p] = n
        BY <1>1, <1>4, <2>1
    <2> QED
        BY <1>1, <2>2 DEF Unpointed, k
<1>5. c # NULL => ~Unpointed(g, c)
    <2>1. a \in 1..Len(g) /\ g[a]["child"] = c
        BY <1>1 DEF k
    <2> QED
        BY <1>1, <2>1 DEF Unpointed
<1> QED
    BY <1>2, <1>3, <1>4, <1>5 DEF Forest, k

LEMMA TextPointers ==
    ASSUME NEW k, NEW c \in CellsUpTo(k), NEW x
    PROVE  /\ \A p \in Pointers : WithText(c, x)[p] = IF p = "valuestring" THEN x ELSE c[p]
           /\ c["valuestring"] = NULL =>
                 \A p \in Pointers :
                     Named(WithText(c, x))[p] = IF p = "string" THEN x ELSE c[p]
<1>1. \A p \in Pointers : WithText(c, x)[p] = IF p = "valuestring" THEN x ELSE c[p]
    BY DEF CellsUpTo, WithText, Pointers
<1>2. c["valuestring"] = NULL =>
          \A p \in Pointers : Named(WithText(c, x))[p] = IF p = "string" THEN x ELSE c[p]
    BY DEF CellsUpTo, WithText, Named, Pointers
<1> QED
    BY <1>1, <1>2

\* The cells after an item was filled, or given a text.
LEMMA FilledCells ==
    ASSUME ParserInv, pc \in {"value", "name"}, NEW c
    PROVE  /\ heap' = [heap EXCEPT ![Item] = c] =>
                 /\ Len(heap') = Len(heap) /\ heap'[Item] = c
                 /\ \A n \in 1..Len(heap) : n # Item => heap'[n] = heap[n]
           /\ heap' = Append([heap EXCEPT ![Item] = c], Cell) =>
                 /\ Len(heap') = Len(heap) + 1 /\ heap'[Item] = c /\ heap'[Len(heap) + 1] = Cell
                 /\ \A n \in 1..Len(heap) : n # Item => heap'[n] = heap[n]
<1>1. Item \in 1..Len(heap) /\ Len(heap) \in Nat /\ DOMAIN heap = 1..Len(heap)
    BY ItemAllocated, Places DEF ParserInv
<1> DEFINE h == [heap EXCEPT ![Item] = c]
           S == {heap[n] : n \in 1..Len(heap)} \cup {c, Cell}
<1>2. heap \in Seq(S) /\ c \in S /\ Cell \in S
    <2>1. heap \in Seq(CellsUpTo(Len(heap))) /\ \A n \in 1..Len(heap) : heap[n] \in S
        BY DEF ParserInv, HeapInv
    <2> HIDE DEF S
    <2>2. heap \in Seq(S)
        BY <2>1
    <2> QED
        BY <2>2 DEF S
<1> HIDE DEF S
<1>3. /\ h \in Seq(S) /\ Len(h) = Len(heap) /\ h[Item] = c
      /\ \A n \in 1..Len(heap) : n # Item => h[n] = heap[n]
    BY <1>1, <1>2
<1> HIDE DEF h
<1>4. /\ Len(Append(h, Cell)) = Len(heap) + 1
      /\ Append(h, Cell)[Len(heap) + 1] = Cell
      /\ \A n \in 1..Len(heap) : Append(h, Cell)[n] = h[n]
    BY <1>1, <1>2, <1>3, AppendProperties
<1>5. heap' = h => /\ Len(heap') = Len(heap) /\ heap'[Item] = c
                   /\ \A n \in 1..Len(heap) : n # Item => heap'[n] = heap[n]
    BY <1>3
<1>6. heap' = Append(h, Cell) =>
          /\ Len(heap') = Len(heap) + 1 /\ heap'[Item] = c /\ heap'[Len(heap) + 1] = Cell
          /\ \A n \in 1..Len(heap) : n # Item => heap'[n] = heap[n]
    BY <1>1, <1>3, <1>4
<1> QED
    BY <1>5, <1>6 DEF h

\* The cells with a new item behind the item c.
LEMMA AttachedCells ==
    ASSUME HeapInv, NEW c \in 0..Len(heap)
    PROVE  /\ Len(Attached(c)) = Len(heap) + 1
           /\ Attached(c)[Len(heap) + 1] = [Cell EXCEPT !.prev = c]
           /\ c # NULL => Attached(c)[c] = [heap[c] EXCEPT !.next = Len(heap) + 1]
           /\ \A n \in 1..Len(heap) : n # c => Attached(c)[n] = heap[n]
<1>1. Len(heap) \in Nat /\ New = Len(heap) + 1 /\ DOMAIN heap = 1..Len(heap)
      /\ heap \in Seq(CellsUpTo(Len(heap)))
    BY DEF HeapInv, New
<1> DEFINE d == [heap[c] EXCEPT !.next = Len(heap) + 1]
           e == [Cell EXCEPT !.prev = c]
           S == {heap[n] : n \in 1..Len(heap)} \cup {d, e}
<1>2. heap \in Seq(S) /\ d \in S /\ e \in S
    <2>1. \A n \in 1..Len(heap) : heap[n] \in S
        OBVIOUS
    <2>2. d \in S /\ e \in S
        OBVIOUS
    <2> HIDE DEF S, d, e
    <2> QED
        BY <1>1, <2>1, <2>2
<1>3. CASE c = NULL
    <2>1. e = Cell
        BY <1>3 DEF Cell, NULL
    <2>2. Attached(c) = Append(heap, e)
        BY <1>3, <2>1 DEF Attached
    <2> HIDE DEF S, d, e
    <2>3. /\ Len(Attached(c)) = Len(heap) + 1
          /\ Attached(c)[Len(heap) + 1] = e
          /\ \A n \in 1..Len(heap) : Attached(c)[n] = heap[n]
        BY <1>1, <1>2, <2>2, AppendProperties
    <2> QED
        BY <1>3, <2>3 DEF e
<1>4. CASE c # NULL
    <2> DEFINE h == [heap EXCEPT ![c] = d]
    <2>1. c \in 1..Len(heap)
        BY <1>4 DEF NULL
    <2>2. Attached(c) = Append(h, e)
        BY <1>1, <1>4 DEF Attached
    <2> HIDE DEF S, d, e
    <2>3. /\ h \in Seq(S) /\ Len(h) = Len(heap) /\ h[c] = d
          /\ \A n \in 1..Len(heap) : n # c => h[n] = heap[n]
        BY <1>1, <1>2, <2>1
    <2> HIDE DEF h
    <2>4. /\ Len(Attached(c)) = Len(heap) + 1
          /\ Attached(c)[Len(heap) + 1] = e
          /\ \A n \in 1..Len(heap) : Attached(c)[n] = h[n]
        BY <1>1, <1>2, <2>2, <2>3, AppendProperties
    <2> QED
        BY <1>1, <2>1, <2>3, <2>4 DEF d, e
<1> QED
    BY <1>3, <1>4

\* The cells with a list closed.
LEMMA FinishedCells ==
    ASSUME HeapInv, NEW f, f.item \in 1..Len(heap), f.head \in 0..Len(heap), f.item # f.head
    PROVE  /\ Len(Finished(f)) = Len(heap)
           /\ f.head # NULL => Finished(f)[f.head] = [heap[f.head] EXCEPT !.prev = f.current]
           /\ Finished(f)[f.item] = [heap[f.item] EXCEPT !.type = f.opened, !.child = f.head]
           /\ \A n \in 1..Len(heap) : (n # f.head /\ n # f.item) => Finished(f)[n] = heap[n]
<1>1. Len(heap) \in Nat /\ DOMAIN heap = 1..Len(heap)
    BY DEF HeapInv
<1>2. \A n \in 1..Len(heap) :
          Finished(f)[n] =
              IF n = f.head THEN [heap[n] EXCEPT !.prev = f.current]
              ELSE IF n = f.item THEN [heap[n] EXCEPT !.type = f.opened, !.child = f.head]
              ELSE heap[n]
    BY <1>1, Zenon DEF Finished
<1>3. f.head # NULL => f.head \in 1..Len(heap)
    BY DEF NULL
<1>4. Len(Finished(f)) = Len(heap)
    <2>1. Finished(f) = [n \in 1..Len(heap) |-> Finished(f)[n]]
        BY <1>1, Zenon DEF Finished
    <2> QED
        BY <1>1, <2>1
<1> QED
    BY <1>2, <1>3, <1>4

-----------------------------------------------------------------------------
(* Ownership: the steps *)

LEMMA FrameTypes ==
    ASSUME NEW s, NEW k, s \in Seq(FramesUpTo(k))
    PROVE  \A i \in 1..Len(s) :
               /\ s[i] \in FramesUpTo(k)
               /\ s[i].item \in 1..k /\ s[i].opened \in {"[", "{"}
               /\ s[i].head \in 0..k /\ s[i].current \in 0..k
<1> SUFFICES ASSUME NEW i \in 1..Len(s)
             PROVE  /\ s[i] \in FramesUpTo(k)
                    /\ s[i].item \in 1..k /\ s[i].opened \in {"[", "{"}
                    /\ s[i].head \in 0..k /\ s[i].current \in 0..k
    OBVIOUS
<1>1. s[i] \in FramesUpTo(k)
    BY ElementOfSeq
<1> QED
    BY <1>1 DEF FramesUpTo

\* What is left to show of a step after which text is read.
LEMMA ReadingOwns ==
    ASSUME ParserInv', Forest(heap)', TopsInv(heap, root, stack)', pc' \in Reading,
           Covered(heap, root, stack)', FramesInv(heap, stack)', ItemInv'
    PROVE  OwnInv'
<1>1. /\ Len(heap') \in Nat /\ root' \in 0..Len(heap') /\ PointsForward(heap')
      /\ live' = 1..Len(heap')
    BY DEF ParserInv, HeapInv, PlaceInv, Forest, Reading
<1>2. \A i \in 1..Len(stack') : stack'[i].head \in 0..Len(heap')
    BY FrameTypes DEF ParserInv, StackInv
<1>3. Covered(heap', root', stack')
    OBVIOUS
<1>4. live' = Tree(heap', root')
                \cup UNION {Tree(heap', stack'[i].head) : i \in 1..Len(stack')}
    BY <1>1, <1>2, <1>3, TreesCover
<1> QED
    BY <1>4 DEF OwnInv

LEMMA OwnInit == Init => OwnInv
<1> SUFFICES ASSUME Init
             PROVE  OwnInv
    OBVIOUS
<1>1. Len(<<>>) = 0 /\ heap = <<>> /\ stack = <<>> /\ live = {} /\ root = NULL /\ pc = "start"
    BY EmptySeq DEF Init
<1>2. 1..Len(heap) = {} /\ 1..Len(stack) = {}
    BY <1>1
<1>3. Forest(heap) /\ TopsInv(heap, root, stack) /\ FramesInv(heap, stack)
    BY <1>1, <1>2 DEF Forest, PointsForward, PointedOnce, TopsInv, FramesInv
<1>4. Tree(heap, root) = {} /\ UNION {Tree(heap, stack[i].head) : i \in 1..Len(stack)} = {}
    BY <1>1, <1>2 DEF Tree
<1>5. pc \notin Reading /\ ItemInv
    BY <1>1 DEF Reading, ItemInv
<1> QED
    BY <1>1, <1>3, <1>4, <1>5 DEF OwnInv

\* A call that fails or ends leaves all as it is.
LEMMA StopOwns ==
    ASSUME OwnInv, UNCHANGED <<heap, live, root, stack>>, pc' \notin Reading
    PROVE  OwnInv'
<1>1. ItemInv'
    BY DEF ItemInv, Reading
<1> QED
    BY <1>1 DEF OwnInv

LEMMA StartOwns ==
    ASSUME ParserInv, ParserInv', OwnInv, Start
    PROVE  OwnInv'
<1>1. CASE Refused /\ pc' = "done" /\ UNCHANGED root
    BY <1>1, StopOwns DEF Refused, Reading
<1>2. CASE heap' = <<Cell>> /\ root' = New /\ pc' = "value" /\ Allocated
           /\ UNCHANGED <<text, offset, stack>>
    <2>1. heap = <<>> /\ stack = <<>> /\ Len(<<>>) = 0
        BY EmptySeq DEF Start, ParserInv, PlaceInv
    <2>2. root' = 1 /\ Len(heap') = 1 /\ heap'[1] = Cell /\ stack' = <<>>
        BY <1>2, <2>1 DEF New
    <2>3. 1..Len(heap') = {1} /\ 1..Len(stack') = {} /\ 1..Len(heap) = {}
        BY <2>1, <2>2
    <2>4. \A p \in Pointers : heap'[1][p] = NULL
        BY <2>2 DEF Cell, Pointers
    <2>5. Forest(heap') /\ Unpointed(heap', 1) /\ root' # NULL
        BY <2>2, <2>3, <2>4 DEF Forest, PointsForward, PointedOnce, Unpointed, NULL
    <2>6. /\ TopsInv(heap', root', stack') /\ FramesInv(heap', stack')
          /\ Covered(heap', root', stack')
        BY <2>2, <2>3, <2>5 DEF TopsInv, FramesInv, Covered
    <2>7. ItemInv'
        <3>1. Item' = 1
            BY <2>2 DEF Item
        <3> QED
            BY <1>2, <2>2, <3>1 DEF ItemInv, Cell
    <2> QED
        BY <1>2, <2>5, <2>6, <2>7, ReadingOwns DEF Reading
<1> QED
    BY <1>1, <1>2 DEF Start

LEMMA ScalarOwns ==
    ASSUME ParserInv, ParserInv', OwnInv, ParseLiteral \/ ParseNumber
    PROVE  OwnInv'
<1>1. CASE Refused /\ pc' = "failed" /\ UNCHANGED root
    BY <1>1, StopOwns DEF Refused, Reading
<1>2. CASE /\ heap' = [heap EXCEPT ![Item].type = Token]
           /\ offset' = offset + 1
           /\ pc' = "behind"
           /\ UNCHANGED <<text, live, root, stack, refused>>
    <2>1. pc = "value" /\ Item \in 1..Len(heap) /\ Len(heap) \in Nat
          /\ heap \in Seq(CellsUpTo(Len(heap)))
        BY ItemAllocated, Places DEF ParseLiteral, ParseNumber, ParserInv, HeapInv
    <2> DEFINE c == [heap[Item] EXCEPT !.type = Token]
    <2>2. heap' = [heap EXCEPT ![Item] = c]
        BY <1>2
    <2>3. \A p \in Pointers : c[p] = heap[Item][p]
        <3>1. heap[Item] \in CellsUpTo(Len(heap))
            BY <2>1
        <3> QED
            BY <3>1 DEF CellsUpTo, Pointers
    <2> HIDE DEF c
    <2>4. /\ Len(heap') = Len(heap) /\ heap'[Item] = c
          /\ \A n \in 1..Len(heap) : n # Item => heap'[n] = heap[n]
        BY <2>1, <2>2, FilledCells
    <2>5. SamePointers(heap, heap')
        BY <2>3, <2>4 DEF SamePointers
    <2>6. /\ Forest(heap) /\ TopsInv(heap, root, stack) /\ Covered(heap, root, stack)
          /\ FramesInv(heap, stack)
        BY <2>1 DEF OwnInv, Reading
    <2>7. /\ Forest(heap') /\ TopsInv(heap', root, stack) /\ Covered(heap', root, stack)
          /\ FramesInv(heap', stack)
        BY <2>5, <2>6, SamePointersKeep, FrameTypes DEF ParserInv, StackInv
    <2>8. ItemInv'
        BY <1>2 DEF ItemInv
    <2> QED
        BY <1>2, <2>7, <2>8, ReadingOwns DEF Reading
<1> QED
    BY <1>1, <1>2 DEF ParseLiteral, ParseNumber

\* What is to be seen of the item that is filled.
LEMMA ItemKnown ==
    ASSUME ParserInv, OwnInv, pc \in {"value", "name"}
    PROVE  /\ Item \in 1..Len(heap) /\ heap[Item] \in CellsUpTo(Len(heap))
           /\ heap[Item]["child"] = NULL /\ heap[Item]["valuestring"] = NULL
           /\ pc = "name" => heap[Item]["string"] = NULL
           /\ Covered(heap, root, stack)
<1>1. Item \in 1..Len(heap)
    BY ItemAllocated DEF ParserInv
<1>2. heap[Item] \in CellsUpTo(Len(heap))
    BY <1>1 DEF ParserInv, HeapInv
<1> QED
    BY <1>1, <1>2 DEF OwnInv, ItemInv, Reading

LEMMA StringOwns ==
    ASSUME ParserInv, ParserInv', OwnInv, ParseString \/ ParseName
    PROVE  OwnInv'
<1> DEFINE k == Len(heap)
<1>1. /\ pc \in {"value", "name"} /\ k \in Nat /\ New = k + 1
      /\ Len(stack) \in Nat
    BY Places DEF ParseString, ParseName, ParserInv, New
<1>2. /\ Item \in 1..k /\ heap[Item] \in CellsUpTo(k)
      /\ heap[Item]["child"] = NULL /\ heap[Item]["valuestring"] = NULL
      /\ pc = "name" => heap[Item]["string"] = NULL
      /\ Covered(heap, root, stack)
    BY <1>1, ItemKnown
<1>3. CASE Refused /\ pc' = "failed" /\ UNCHANGED root
    BY <1>3, StopOwns DEF Refused, Reading
<1>4. ASSUME NEW c, NEW b \in {"valuestring", "string"}, heap[Item][b] = NULL,
             heap' = Append([heap EXCEPT ![Item] = c], Cell),
             \A p \in Pointers : c[p] = IF p = b THEN k + 1 ELSE heap[Item][p],
             UNCHANGED <<root, stack>>, pc' = "value" => b = "string",
             pc' \in {"value", "behind", "failed"}, live' = live \cup {k + 1}
      PROVE  OwnInv'
    <2>1. /\ Len(heap') = k + 1 /\ heap'[Item] = c /\ heap'[k + 1] = Cell
          /\ \A n \in 1..k : n # Item => heap'[n] = heap[n]
        BY <1>1, <1>4, FilledCells
    <2>2. \A p \in Pointers : Cell[p] = NULL
        BY DEF Pointers, Cell
    <2>3. OneMore(heap, heap', Item, b) /\ b \in Pointers
        BY <1>4, <2>1, <2>2 DEF OneMore, Pointers
    <2>4. Forest(heap) /\ TopsInv(heap, root, stack) /\ FramesInv(heap, stack)
        BY DEF OwnInv
    <2>5. /\ Forest(heap')
          /\ \A n \in 1..k : Unpointed(heap', n) <=> Unpointed(heap, n)
          /\ ~Unpointed(heap', k + 1)
        <3>1. /\ Item # NULL /\ Item \in 1..Len(heap) /\ heap[Item][b] = NULL
              /\ Len(heap) \in Nat
            BY <1>1, <1>2, <1>4 DEF NULL
        <3>2. /\ Forest(heap')
              /\ \A n \in 1..Len(heap) : Unpointed(heap', n) <=> Unpointed(heap, n)
              /\ Unpointed(heap', Len(heap) + 1) <=> Item = NULL
            BY <2>3, <2>4, <3>1, OneMoreKeeps
        <3> QED
            BY <3>1, <3>2
    <2>6. \A i \in 1..Len(stack) :
              /\ stack[i].item \in 1..k /\ stack[i].head \in 0..k
              /\ stack[i].current \in 0..k
        BY FrameTypes DEF ParserInv, StackInv
    <2>7. TopsInv(heap', root, stack)
        <3>1. root \in 0..k
            BY DEF ParserInv, HeapInv
        <3>2. root # NULL => root \in 1..k
            BY <3>1 DEF NULL
        <3>3. \A i \in 1..Len(stack) : stack[i].head # NULL => stack[i].head \in 1..k
            BY <2>6 DEF NULL
        <3> QED
            BY <2>4, <2>5, <3>2, <3>3, Zenon DEF TopsInv
    <2>8. Covered(heap', root, stack)
        <3>1. \A n \in 1..Len(heap') : n \in 1..k \/ n = k + 1
            BY <1>1, <2>1
        <3> HIDE DEF k
        <3> QED
            BY <1>2, <2>5, <3>1 DEF Covered, k
    <2>9. FramesInv(heap', stack)
        <3>1. \A n \in 1..k : heap'[n].child = heap[n].child /\ heap'[n].next = heap[n].next
            <4>1. "child" \in Pointers /\ "next" \in Pointers /\ b # "child" /\ b # "next"
                BY DEF Pointers
            <4>2. \A n \in 1..k : /\ heap'[n]["child"] = heap[n]["child"]
                                  /\ heap'[n]["next"] = heap[n]["next"]
                BY <1>4, <2>1, <4>1
            <4> QED
                BY <4>2
        <3>2. \A i \in 1..Len(stack) : stack[i].current # NULL => stack[i].current \in 1..k
            BY <2>6 DEF NULL
        <3> QED
            BY <2>4, <2>6, <3>1, <3>2 DEF FramesInv
    <2>10. ItemInv'
        <3>1. Item' = Item
            BY <1>4 DEF Item, Top
        <3>2. pc' = "value" => heap'[Item]["child"] = NULL /\ heap'[Item]["valuestring"] = NULL
            <4>1. "child" \in Pointers /\ "valuestring" \in Pointers
                BY DEF Pointers
            <4> QED
                BY <1>2, <1>4, <2>1, <4>1
        <3> QED
            BY <1>4, <3>1, <3>2 DEF ItemInv
    <2>11. CASE pc' \in Reading
        BY <1>4, <2>5, <2>7, <2>8, <2>9, <2>10, <2>11, ReadingOwns
    <2>12. CASE pc' \notin Reading
        <3>1. live' = 1..(k + 1)
            <4>1. live = 1..k
                BY <1>1 DEF ParserInv, PlaceInv
            <4> QED
                BY <1>1, <1>4, <4>1, OneMorePlace
        <3>2. root \in 0..(k + 1) /\ \A i \in 1..Len(stack) : stack[i].head \in 0..(k + 1)
            BY <1>1, <2>6 DEF ParserInv, HeapInv
        <3>3. 1..(k + 1) = Tree(heap', root)
                  \cup UNION {Tree(heap', stack[i].head) : i \in 1..Len(stack)}
            <4>1. PointsForward(heap') /\ Len(heap') \in Nat
                BY <1>1, <2>1, <2>5 DEF Forest
            <4> QED
                BY <2>1, <2>8, <3>2, <4>1, TreesCover
        <3>4. /\ stack' = stack /\ root' = root
              /\ live' = Tree(heap', root')
                             \cup UNION {Tree(heap', stack'[i].head) : i \in 1..Len(stack')}
            BY <1>4, <3>1, <3>3, ZenonT(40)
        <3> QED
            BY <2>5, <2>7, <2>9, <2>10, <2>12, <3>4 DEF OwnInv
    <2> QED
        BY <2>11, <2>12
<1>5. CASE ParseString /\ ~(Refused /\ pc' = "failed" /\ UNCHANGED root)
    <2> DEFINE c == WithText(heap[Item], New)
    <2>1. /\ heap' = Append([heap EXCEPT ![Item] = c], Cell)
          /\ UNCHANGED <<root, stack>> /\ pc' = "behind" /\ live' = live \cup {k + 1}
        BY <1>1, <1>5 DEF ParseString, Allocated
    <2>2. \A p \in Pointers : c[p] = IF p = "valuestring" THEN New ELSE heap[Item][p]
        BY <1>1, <1>2, TextPointers
    <2> HIDE DEF c
    <2> QED
        BY <1>1, <1>2, <1>4, <2>1, <2>2
<1>6. CASE ParseName /\ ~(Refused /\ pc' = "failed" /\ UNCHANGED root)
    <2> DEFINE c == Named(WithText(heap[Item], New))
    <2>1. /\ heap' = Append([heap EXCEPT ![Item] = c], Cell)
          /\ UNCHANGED <<root, stack>> /\ pc' \in {"value", "failed"}
          /\ live' = live \cup {k + 1} /\ pc = "name"
        BY <1>1, <1>6 DEF ParseName, Allocated
    <2>2. \A p \in Pointers : c[p] = IF p = "string" THEN New ELSE heap[Item][p]
        BY <1>1, <1>2, TextPointers
    <2> HIDE DEF c
    <2> QED
        BY <1>1, <1>2, <1>4, <2>1, <2>2
<1> QED
    BY <1>3, <1>5, <1>6

\* The item to be filled is the last one of the innermost list, so no other list has
\* anything behind it.
LEMMA ItemBehindFrames ==
    ASSUME ParserInv, OwnInv, pc \in {"value", "name"}
    PROVE  /\ \A i \in 1..Len(stack) :
                 /\ stack[i].current # NULL /\ stack[i].current <= Item
                 /\ stack[i].item < Item
           /\ \A i \in 1..Len(stack) : i < Len(stack) => stack[i].current < Item
<1>1. CASE stack = <<>>
    BY <1>1, EmptySeq
<1>2. CASE stack # <<>>
    <2> DEFINE L == Len(stack)
    <2>1. /\ L \in 1..L /\ L \in Nat /\ Item = stack[L].current
          /\ \A i \in 1..L : stack[i].current # NULL
        BY <1>2, Places DEF ParserInv, PlaceInv, Item
    <2>2. \A i \in 1..L : /\ stack[i].item \in Nat /\ stack[i].head \in Nat
                          /\ stack[i].current \in Nat
        <3>1. Len(heap) \in Nat
            BY DEF ParserInv, HeapInv
        <3>2. \A i \in 1..L : /\ stack[i].item \in 1..Len(heap) /\ stack[i].head \in 0..Len(heap)
                              /\ stack[i].current \in 0..Len(heap)
            BY FrameTypes DEF ParserInv, StackInv
        <3> QED
            BY <3>1, <3>2
    <2>3. \A i \in 1..L : stack[i].item < stack[i].head /\ stack[i].head <= stack[i].current
        BY <2>1 DEF OwnInv, FramesInv
    <2>4. \A i \in 1..L : i < L => stack[i].current <= stack[L].item
        BY <2>1 DEF OwnInv, FramesInv
    <2>5. ASSUME NEW i \in 1..L
          PROVE  /\ stack[i].current <= Item /\ stack[i].item < Item
                 /\ i < L => stack[i].current < Item
        <3>1. CASE i = L
            BY <2>1, <2>2, <2>3, <3>1
        <3>2. CASE i < L
            BY <2>1, <2>2, <2>3, <2>4, <3>2, SMTT(20)
        <3> QED
            BY <2>1, <3>1, <3>2
    <2> QED
        BY <2>1, <2>5
<1> QED
    BY <1>1, <1>2

LEMMA OpenOwns ==
    ASSUME ParserInv, ParserInv', OwnInv, OpenList
    PROVE  OwnInv'
<1> DEFINE L == Len(stack)
           f == [item |-> Item, opened |-> Token, head |-> NULL, current |-> NULL]
<1>1. /\ pc = "value" /\ pc' = "opened" /\ stack' = Append(stack, f)
      /\ UNCHANGED <<heap, live, root>>
    BY DEF OpenList
<1>2. /\ L \in Nat /\ Len(stack') = L + 1 /\ stack'[L + 1] = f
      /\ \A i \in 1..L : stack'[i] = stack[i]
    <2>1. stack \in Seq(FramesUpTo(Len(heap)) \cup {f})
        <3> HIDE DEF f
        <3> QED
            BY SeqGrows DEF ParserInv, StackInv
    <2> HIDE DEF f
    <2> QED
        BY <1>1, <2>1, AppendProperties
<1>3. /\ heap[Item]["child"] = NULL /\ Item \in 1..Len(heap) /\ Covered(heap, root, stack)
    BY <1>1, ItemKnown
<1>4. \A i \in 1..L : stack[i].current # NULL /\ stack[i].current <= Item
    BY <1>1, ItemBehindFrames
<1>5. f.head = NULL /\ f.current = NULL /\ f.item = Item
    OBVIOUS
<1> HIDE DEF f
<1>6. \A i \in 1..Len(stack') : i \in 1..L \/ i = L + 1
    BY <1>2
<1>7. TopsInv(heap, root, stack')
    <2>1. TopsInv(heap, root, stack)
        BY DEF OwnInv
    <2> QED
        BY <1>2, <1>5, <1>6, <2>1 DEF TopsInv
<1>8. Covered(heap, root, stack')
    <2>1. \A i \in 1..L : i \in 1..Len(stack')
        BY <1>2
    <2> QED
        BY <1>2, <1>3, <2>1 DEF Covered
<1>9. FramesInv(heap, stack')
    <2>1. FramesInv(heap, stack)
        BY DEF OwnInv
    <2>2. ASSUME NEW i \in 1..L
          PROVE  /\ stack'[i].head = NULL <=> stack'[i].current = NULL
                 /\ stack'[i].head # NULL =>
                        stack'[i].item < stack'[i].head /\ stack'[i].head <= stack'[i].current
                 /\ heap[stack'[i].item].child = NULL
                 /\ stack'[i].current # NULL => heap[stack'[i].current].next = NULL
        BY <1>2, <2>1 DEF FramesInv
    <2>3. ASSUME NEW i \in 1..L, NEW j \in 1..Len(stack'), i < j
          PROVE  stack'[i].current # NULL /\ stack'[i].current <= stack'[j].item
        BY <1>2, <1>4, <1>5, <1>6, <2>1, <2>3 DEF FramesInv
    <2>4. ~\E j \in 1..Len(stack') : L + 1 < j
        BY <1>2
    <2> QED
        BY <1>2, <1>3, <1>5, <1>6, <2>2, <2>3, <2>4 DEF FramesInv
<1>10. Forest(heap) /\ ItemInv'
    BY <1>1 DEF OwnInv, ItemInv
<1> QED
    BY <1>1, <1>7, <1>8, <1>9, <1>10, ReadingOwns DEF Reading

LEMMA AddOwns ==
    ASSUME ParserInv, ParserInv', OwnInv, AddItem
    PROVE  OwnInv'
<1> DEFINE k == Len(heap)
           L == Len(stack)
           c == Top.current
<1>1. CASE Refused /\ pc' = "failed" /\ UNCHANGED root
    BY <1>1, StopOwns DEF Refused, Reading
<1>2. CASE ~(Refused /\ pc' = "failed" /\ UNCHANGED root)
    <2>1. /\ heap' = Attached(c) /\ stack # <<>> /\ pc \in {"opened", "behind"}
          /\ stack' = [stack EXCEPT ![L].current = New, ![L].head = IF @ = NULL THEN New ELSE @]
          /\ pc' \in {"name", "value"} /\ UNCHANGED root
        BY <1>2 DEF AddItem, ItemFollows
    <2>2. /\ k \in Nat /\ L \in 1..L /\ L \in Nat /\ Top = stack[L] /\ New = k + 1
        BY <2>1, Places DEF ParserInv, New
    <2>3. \A i \in 1..L : /\ stack[i] \in FramesUpTo(k)
                          /\ stack[i].item \in 1..k /\ stack[i].head \in 0..k
                          /\ stack[i].current \in 0..k
        BY FrameTypes DEF ParserInv, StackInv
    <2> DEFINE f == [Top EXCEPT !.current = New, !.head = IF @ = NULL THEN New ELSE @]
    <2>4. /\ f.item = stack[L].item /\ f.current = k + 1
          /\ f.head = IF stack[L].head = NULL THEN k + 1 ELSE stack[L].head
        BY <2>2, <2>3 DEF FramesUpTo
    <2>5. stack' = [stack EXCEPT ![L] = f]
        BY <2>1, <2>2
    <2> HIDE DEF f
    <2>6. Len(stack') = L /\ stack'[L] = f /\ \A i \in 1..L : i # L => stack'[i] = stack[i]
        BY <2>2, <2>5 DEF ParserInv, StackInv
    <2>7. /\ Forest(heap) /\ TopsInv(heap, root, stack) /\ FramesInv(heap, stack)
          /\ Covered(heap, root, stack)
        BY <2>1 DEF OwnInv, Reading
    <2>8. /\ c \in 0..k /\ c = stack[L].current /\ (c = NULL <=> stack[L].head = NULL)
          /\ c # NULL => (c \in 1..k /\ heap[c].next = NULL)
        BY <2>2, <2>3, <2>7 DEF FramesInv, NULL
    <2> HIDE DEF c
    <2>9. /\ Len(heap') = k + 1 /\ heap'[k + 1] = [Cell EXCEPT !.prev = c]
          /\ c # NULL => heap'[c] = [heap[c] EXCEPT !.next = k + 1]
          /\ \A n \in 1..k : n # c => heap'[n] = heap[n]
        BY <2>1, <2>8, AttachedCells DEF ParserInv
    <2>10. OneMore(heap, heap', c, "next") /\ "next" \in Pointers
        <3>1. ASSUME c # NULL
              PROVE  \A p \in Pointers : heap'[c][p] = IF p = "next" THEN k + 1 ELSE heap[c][p]
            <4>1. heap[c] \in CellsUpTo(k)
                BY <2>8, <3>1 DEF ParserInv, HeapInv
            <4> QED
                BY <2>9, <3>1, <4>1 DEF CellsUpTo, Pointers
        <3>2. \A p \in Pointers : heap'[k + 1][p] = NULL
            BY <2>9 DEF Cell, Pointers
        <3>3. NULL \notin 1..k
            BY DEF NULL
        <3> QED
            BY <2>9, <3>1, <3>2, <3>3 DEF OneMore, Pointers
    <2>11. /\ Forest(heap')
           /\ \A n \in 1..k : Unpointed(heap', n) <=> Unpointed(heap, n)
           /\ Unpointed(heap', k + 1) <=> c = NULL
        <3>1. c = NULL \/ (c \in 1..Len(heap) /\ heap[c]["next"] = NULL)
            BY <2>8
        <3> QED
            BY <2>2, <2>7, <2>10, <3>1, OneMoreKeeps
    <2>12. root # NULL /\ root \in 1..k
        <3>1. root # NULL /\ root \in 0..k
            BY <2>1 DEF ParserInv, HeapInv, PlaceInv
        <3> QED
            BY <3>1 DEF NULL
    <2>13. TopsInv(heap', root, stack')
        <3>1. /\ Unpointed(heap, root)
              /\ \A i \in 1..L : stack[i].head # NULL =>
                    /\ Unpointed(heap, stack[i].head) /\ stack[i].head # root
                    /\ \A j \in 1..L : stack[j].head = stack[i].head => i = j
            BY <2>7, <2>12 DEF TopsInv
        <3>2. \A i \in 1..L : stack[i].head # NULL => stack[i].head \in 1..k
            BY <2>3 DEF NULL
        <3>3. \A i \in 1..L : i # L => stack'[i].head = stack[i].head
            BY <2>6
        <3>4. stack'[L].head = IF stack[L].head = NULL THEN k + 1 ELSE stack[L].head
            BY <2>4, <2>6
        <3>5. k + 1 # NULL /\ k + 1 \notin 1..k /\ k + 1 # root
            BY <2>2, <2>12 DEF NULL
        <3>6. \A i \in 1..L : stack'[i].head # NULL =>
                  Unpointed(heap', stack'[i].head) /\ stack'[i].head # root
            BY <2>8, <2>11, <3>1, <3>2, <3>3, <3>4, <3>5
        <3>7. \A i, j \in 1..L : (stack'[i].head # NULL /\ stack'[j].head = stack'[i].head) => i = j
            BY <3>1, <3>2, <3>3, <3>4, <3>5
        <3>8. Unpointed(heap', root)
            BY <2>11, <2>12, <3>1
        <3> QED
            BY <2>6, <3>6, <3>7, <3>8 DEF TopsInv
    <2>14. Covered(heap', root, stack')
        <3>1. ASSUME NEW n \in 1..(k + 1)
              PROVE  n = root \/ (\E i \in 1..L : stack'[i].head = n) \/ ~Unpointed(heap', n)
            <4>1. CASE n = k + 1
                <5>1. c = NULL => stack'[L].head = k + 1
                    BY <2>4, <2>6, <2>8
                <5> QED
                    BY <2>2, <2>11, <4>1, <5>1
            <4>2. CASE n \in 1..k /\ \E i \in 1..L : stack[i].head = n
                <5>1. PICK i \in 1..L : stack[i].head = n
                    BY <4>2
                <5>2. stack'[i].head = n
                    BY <2>4, <2>6, <4>2, <5>1 DEF NULL
                <5> QED
                    BY <5>2
            <4>3. CASE n \in 1..k /\ ~\E i \in 1..L : stack[i].head = n
                BY <2>7, <2>11, <4>3 DEF Covered
            <4> QED
                BY <2>2, <4>1, <4>2, <4>3
        <3> QED
            BY <2>6, <2>9, <3>1 DEF Covered
    <2>15. FramesInv(heap', stack')
        <3>1. ASSUME NEW i \in 1..L
              PROVE  /\ stack'[i].item = stack[i].item
                     /\ heap'[stack'[i].item].child = NULL
            <4>1. stack'[i].item = stack[i].item
                BY <2>4, <2>6
            <4>2. heap[stack[i].item]["child"] = NULL /\ stack[i].item \in 1..k
                BY <2>3, <2>7 DEF FramesInv
            <4>3. heap'[stack[i].item]["child"] = heap[stack[i].item]["child"]
                BY <2>10, <4>2 DEF OneMore, Pointers
            <4> QED
                BY <4>1, <4>2, <4>3
        <3>2. /\ stack'[L].head # NULL /\ stack'[L].current = k + 1
              /\ stack'[L].item < stack'[L].head /\ stack'[L].head <= stack'[L].current
              /\ heap'[stack'[L].current].next = NULL
            <4>1. stack[L].head # NULL => stack[L].item < stack[L].head
                BY <2>2, <2>7 DEF FramesInv
            <4>2. heap'[k + 1]["next"] = NULL
                BY <2>10 DEF OneMore
            <4> QED
                BY <2>2, <2>3, <2>4, <2>6, <4>1, <4>2 DEF NULL
        <3>3. ASSUME NEW i \in 1..L, i # L
              PROVE  /\ stack[i].current # NULL
                     /\ stack[i].current < c \/ c = NULL
                     /\ stack[i].head # NULL
                     /\ heap'[stack[i].current].next = NULL
            <4>1. i < L
                BY <2>2, <3>3
            <4>2. stack[i].current # NULL /\ stack[i].current <= stack[L].item
                BY <2>2, <2>7, <4>1 DEF FramesInv
            <4>3. c # NULL => stack[L].item < stack[L].head /\ stack[L].head <= c
                BY <2>2, <2>7, <2>8 DEF FramesInv
            <4>4. stack[i].current \in 1..k
                BY <2>3, <4>2 DEF NULL
            <4>5. c # NULL => stack[i].current < c
                BY <2>2, <2>3, <2>8, <4>2, <4>3
            <4>6. heap'[stack[i].current] = heap[stack[i].current]
                BY <2>8, <2>9, <4>4, <4>5 DEF NULL
            <4>7. heap[stack[i].current].next = NULL
                BY <2>7, <4>2 DEF FramesInv
            <4> QED
                BY <2>7, <4>2, <4>5, <4>6, <4>7 DEF FramesInv
        <3>4. ASSUME NEW i \in 1..L, NEW j \in 1..L, i < j
              PROVE  stack'[i].current # NULL /\ stack'[i].current <= stack'[j].item
            <4>1. i # L /\ stack'[i] = stack[i]
                BY <2>2, <2>6, <3>4
            <4> QED
                BY <2>7, <3>1, <3>4, <4>1 DEF FramesInv
        <3>5. ASSUME NEW i \in 1..L
              PROVE  /\ stack'[i].head = NULL <=> stack'[i].current = NULL
                     /\ stack'[i].head # NULL =>
                            stack'[i].item < stack'[i].head /\ stack'[i].head <= stack'[i].current
                     /\ stack'[i].current # NULL => heap'[stack'[i].current].next = NULL
            <4>1. CASE i = L
                BY <2>2, <3>2, <4>1 DEF NULL
            <4>2. CASE i # L
                BY <2>6, <2>7, <3>3, <4>2 DEF FramesInv
            <4> QED
                BY <4>1, <4>2
        <3> QED
            BY <2>6, <3>1, <3>4, <3>5 DEF FramesInv
    <2>16. ItemInv'
        <3>1. stack' # <<>> /\ Last(stack') = stack'[L]
            BY <2>2, <2>6, EmptySeq DEF Last
        <3>2. Item' = k + 1
            BY <2>4, <2>6, <3>1 DEF Item, Top
        <3>3. \A p \in Pointers : heap'[k + 1][p] = NULL
            BY <2>10 DEF OneMore
        <3> QED
            BY <3>2, <3>3 DEF ItemInv, Pointers
    <2> QED
        BY <2>1, <2>11, <2>13, <2>14, <2>15, <2>16, ReadingOwns DEF Reading
<1> QED
    BY <1>1, <1>2

\* A list that is closed is taken over by the item it was opened for.
LEMMA CloseOwns ==
    ASSUME ParserInv, ParserInv', OwnInv, CloseList
    PROVE  OwnInv'
<1> DEFINE k == Len(heap)
           L == Len(stack)
<1>1. /\ heap' = Finished(Top) /\ stack # <<>> /\ pc \in {"opened", "behind"}
      /\ stack' = Front(stack) /\ pc' = "behind" /\ UNCHANGED root
    BY DEF CloseList
<1>2. /\ k \in Nat /\ L \in 1..L /\ L \in Nat /\ Top = stack[L] /\ Len(stack') = L - 1
      /\ \A i \in 1..L - 1 : stack'[i] = stack[i] /\ i \in 1..L /\ i < L
    BY <1>1, Places DEF ParserInv
<1>3. \A i \in 1..L : /\ stack[i].item \in 1..k /\ stack[i].head \in 0..k
                      /\ stack[i].current \in 0..k
    BY FrameTypes DEF ParserInv, StackInv
<1>4. /\ Forest(heap) /\ TopsInv(heap, root, stack) /\ FramesInv(heap, stack)
      /\ Covered(heap, root, stack)
    BY <1>1 DEF OwnInv, Reading
<1> DEFINE a == stack[L].item
           c == stack[L].head
<1>5. /\ a \in 1..k /\ c \in 0..k /\ heap[a].child = NULL
      /\ c # NULL => a < c /\ Unpointed(heap, c) /\ c # root
    BY <1>2, <1>3, <1>4 DEF FramesInv, TopsInv
<1>6. a # c
    BY <1>5 DEF NULL
<1>7. /\ Len(heap') = k
      /\ c # NULL => heap'[c] = [heap[c] EXCEPT !.prev = stack[L].current]
      /\ heap'[a] = [heap[a] EXCEPT !.type = stack[L].opened, !.child = c]
      /\ \A n \in 1..k : (n # c /\ n # a) => heap'[n] = heap[n]
    <2>1. /\ HeapInv /\ Top.item \in 1..Len(heap) /\ Top.head \in 0..Len(heap)
          /\ Top.item # Top.head
        BY <1>2, <1>5, <1>6 DEF ParserInv
    <2>2. /\ Len(Finished(Top)) = Len(heap)
          /\ Top.head # NULL => Finished(Top)[Top.head] = [heap[Top.head] EXCEPT !.prev = Top.current]
          /\ Finished(Top)[Top.item] = [heap[Top.item] EXCEPT !.type = Top.opened, !.child = Top.head]
          /\ \A n \in 1..Len(heap) : (n # Top.head /\ n # Top.item) => Finished(Top)[n] = heap[n]
        BY <2>1, FinishedCells, Zenon
    <2>3. Top.head = c /\ Top.item = a
        BY <1>2
    <2> QED
        BY <1>1, <1>2, <2>2, <2>3, Zenon
<1>8. Adopted(heap, heap', a, c)
    <2>1. \A n \in 1..k : heap[n] \in CellsUpTo(k)
        BY DEF ParserInv, HeapInv
    <2>2. \A p \in Pointers : heap'[a][p] = IF p = "child" THEN c ELSE heap[a][p]
        <3>1. heap[a] \in CellsUpTo(k)
            BY <1>5, <2>1
        <3> QED
            BY <1>7, <3>1 DEF CellsUpTo, Pointers
    <2>3. c # NULL => \A p \in Pointers : heap'[c][p] = heap[c][p]
        <3>1. c # NULL => heap[c] \in CellsUpTo(k)
            BY <1>5, <2>1 DEF NULL
        <3> QED
            BY <1>7, <3>1 DEF CellsUpTo, Pointers
    <2>4. ASSUME NEW m \in 1..k, NEW p \in Pointers
          PROVE  heap'[m][p] = IF m = a /\ p = "child" THEN c ELSE heap[m][p]
        <3>1. CASE m = a
            BY <2>2, <3>1
        <3>2. CASE m # a /\ m = c
            <4>1. c # NULL
                BY <3>2 DEF NULL
            <4> QED
                BY <2>3, <3>2, <4>1
        <3>3. CASE m # a /\ m # c
            BY <1>7, <3>3
        <3> QED
            BY <3>1, <3>2, <3>3
    <2> QED
        BY <1>7, <2>4 DEF Adopted
<1> HIDE DEF a, c
<1>9. /\ Forest(heap')
      /\ \A n \in 1..k : n # c => (Unpointed(heap', n) <=> Unpointed(heap, n))
      /\ c # NULL => ~Unpointed(heap', c)
    <2>1. /\ Len(heap) \in Nat /\ a \in 1..Len(heap) /\ c \in 0..Len(heap)
          /\ heap[a]["child"] = NULL
          /\ c # NULL => (Unpointed(heap, c) /\ a < c)
        BY <1>2, <1>5
    <2> QED
        BY <1>4, <1>8, <2>1, AdoptedKeeps
<1>10. root # NULL /\ root \in 1..k
    <2>1. root # NULL /\ root \in 0..k
        BY <1>1 DEF ParserInv, HeapInv, PlaceInv
    <2> QED
        BY <2>1 DEF NULL
<1>11. \A i \in 1..Len(stack') : i \in 1..L - 1
    BY <1>2
<1>12. TopsInv(heap', root, stack')
    <2>1. ASSUME NEW i \in 1..L - 1, stack[i].head # NULL
          PROVE  /\ Unpointed(heap', stack[i].head) /\ stack[i].head # root
                 /\ \A j \in 1..L - 1 : stack[j].head = stack[i].head => i = j
        <3>1. i \in 1..L /\ i # L /\ \A j \in 1..L - 1 : j \in 1..L
            BY <1>2
        <3>2. /\ Unpointed(heap, stack[i].head) /\ stack[i].head # root
              /\ \A j \in 1..L : stack[j].head = stack[i].head => i = j
            BY <1>4, <2>1, <3>1 DEF TopsInv
        <3>3. stack[i].head # c /\ stack[i].head \in 1..k
            BY <1>2, <1>3, <2>1, <3>1, <3>2 DEF NULL, c
        <3> QED
            BY <1>9, <3>1, <3>2, <3>3
    <2>2. root # c /\ Unpointed(heap, root)
        BY <1>4, <1>5, <1>10 DEF TopsInv
    <2>3. Unpointed(heap', root)
        BY <1>9, <1>10, <2>2
    <2> QED
        BY <1>2, <1>11, <2>1, <2>3 DEF TopsInv
<1>13. Covered(heap', root, stack')
    <2>1. ASSUME NEW n \in 1..k
          PROVE  n = root \/ (\E i \in 1..L - 1 : stack'[i].head = n) \/ ~Unpointed(heap', n)
        <3>1. CASE n = c
            BY <1>9, <3>1 DEF NULL
        <3>2. CASE n # c
            <4>1. n = root \/ (\E i \in 1..L : stack[i].head = n) \/ ~Unpointed(heap, n)
                BY <1>4 DEF Covered
            <4>2. ASSUME NEW i \in 1..L, stack[i].head = n
                  PROVE  i \in 1..L - 1
                <5>1. i # L
                    BY <3>2, <4>2 DEF c
                <5> QED
                    BY <1>2, <5>1
            <4> QED
                BY <1>2, <1>9, <3>2, <4>1, <4>2
        <3> QED
            BY <3>1, <3>2
    <2> QED
        BY <1>2, <1>7, <2>1 DEF Covered
<1>14. FramesInv(heap', stack')
    <2>1. ASSUME NEW i \in 1..L - 1
          PROVE  /\ stack[i].head = NULL <=> stack[i].current = NULL
                 /\ stack[i].head # NULL =>
                        stack[i].item < stack[i].head /\ stack[i].head <= stack[i].current
                 /\ heap'[stack[i].item].child = NULL
                 /\ stack[i].current # NULL => heap'[stack[i].current].next = NULL
                 /\ \A j \in 1..L - 1 : i < j =>
                        stack[i].current # NULL /\ stack[i].current <= stack[j].item
        <3>1. i \in 1..L /\ i < L /\ \A j \in 1..L - 1 : j \in 1..L
            BY <1>2
        <3>2. /\ stack[i].head = NULL <=> stack[i].current = NULL
              /\ stack[i].head # NULL =>
                     stack[i].item < stack[i].head /\ stack[i].head <= stack[i].current
              /\ heap[stack[i].item].child = NULL
              /\ stack[i].current # NULL => heap[stack[i].current].next = NULL
              /\ stack[i].current # NULL /\ stack[i].current <= a
              /\ \A j \in 1..L - 1 : i < j =>
                        stack[i].current # NULL /\ stack[i].current <= stack[j].item
            BY <1>2, <1>4, <3>1 DEF FramesInv, a
        <3>3. stack[i].item \in 1..k /\ stack[i].head \in 0..k /\ stack[i].current \in 0..k
            BY <1>3, <3>1
        <3>4. stack[i].current \in 1..k /\ stack[i].item < stack[i].current
            BY <1>2, <3>2, <3>3 DEF NULL
        <3>5. stack[i].item # a
            BY <1>5, <3>2, <3>3, <3>4
        <3>6. heap'[stack[i].item]["child"] = heap[stack[i].item]["child"]
            BY <1>8, <3>3, <3>5 DEF Adopted, Pointers
        <3>7. heap'[stack[i].current]["next"] = heap[stack[i].current]["next"]
            BY <1>8, <3>4 DEF Adopted, Pointers
        <3> QED
            BY <3>2, <3>6, <3>7
    <2> QED
        BY <1>2, <1>11, <2>1 DEF FramesInv
<1>15. ItemInv'
    BY <1>1 DEF ItemInv
<1> QED
    BY <1>1, <1>9, <1>12, <1>13, <1>14, <1>15, ReadingOwns DEF Reading

\* What is freed is the whole tree of one variable, and nothing of another's.
LEMMA FreeOwns ==
    ASSUME ParserInv, ParserInv', OwnInv, Unwind \/ Delete
    PROVE  OwnInv'
<1> DEFINE k == Len(heap)
           L == Len(stack)
           V(n) == Tree(heap, stack[n].head)
<1>1. /\ k \in Nat /\ DOMAIN heap = 1..k /\ root \in 0..k
      /\ \A i \in 1..L : stack[i].head \in 0..k
    <2>1. \A i \in 1..Len(stack) : stack[i].head \in 0..Len(heap)
        BY FrameTypes DEF ParserInv, StackInv
    <2> QED
        BY <2>1 DEF ParserInv, HeapInv
<1>2. /\ Forest(heap) /\ TopsInv(heap, root, stack) /\ FramesInv(heap, stack)
      /\ PointsForward(heap)
    BY DEF OwnInv, Forest
<1>3. live = Tree(heap, root) \cup UNION {V(i) : i \in 1..L}
    BY Zenon DEF OwnInv
<1>4. \A x \in 0..k : Below(x) = Tree(heap, x)
    BY <1>1, <1>2, BelowIsTree
<1>5. ItemInv' /\ heap' = heap /\ pc' \notin Reading
    BY DEF Unwind, Delete, ItemInv, Reading
<1>6. \A i \in 1..L : V(i) \cap Tree(heap, root) = {}
    <2> SUFFICES ASSUME NEW i \in 1..L, stack[i].head # NULL
                 PROVE  V(i) \cap Tree(heap, root) = {}
        BY DEF Tree
    <2>1. /\ stack[i].head # root /\ Unpointed(heap, stack[i].head)
          /\ root # NULL => Unpointed(heap, root)
        BY <1>2 DEF TopsInv
    <2> QED
        BY <1>1, <1>2, <2>1, TreesApart
<1>7. CASE Unwind /\ stack # <<>>
    <2>1. /\ live' = live \ Below(Top.head) /\ stack' = Front(stack) /\ root' = root
        BY <1>7 DEF Unwind, FreedBy
    <2>2. /\ L \in 1..L /\ L \in Nat /\ Top = stack[L] /\ Len(stack') = L - 1
          /\ \A i \in 1..L - 1 : stack'[i] = stack[i] /\ i \in 1..L /\ i < L
        BY <1>7, <2>1, Places DEF ParserInv
    <2>3. \A i \in 1..L - 1 : V(i) \cap V(L) = {}
        <3> SUFFICES ASSUME NEW i \in 1..L - 1, stack[i].head # NULL, stack[L].head # NULL
                     PROVE  V(i) \cap V(L) = {}
            BY DEF Tree
        <3>1. i \in 1..L /\ i # L
            BY <2>2
        <3>2. /\ Unpointed(heap, stack[i].head) /\ Unpointed(heap, stack[L].head)
              /\ stack[i].head # stack[L].head
            BY <1>2, <2>2, <3>1 DEF TopsInv
        <3> QED
            BY <1>1, <1>2, <2>2, <3>1, <3>2, TreesApart
    <2>4. live' = Tree(heap, root) \cup UNION {V(i) : i \in 1..L - 1}
        <3>1. live' = live \ V(L)
            BY <1>1, <1>4, <2>1, <2>2
        <3>2. \A i \in 1..L : i \in 1..L - 1 \/ i = L
            BY <2>2
        <3>3. \A i \in 1..L - 1 : i \in 1..L
            BY <2>2
        <3> HIDE DEF V
        <3> QED
            BY <1>3, <1>6, <2>2, <2>3, <3>1, <3>2, <3>3, Zenon
    <2>5. {V(i) : i \in 1..L - 1} = {Tree(heap, stack'[i].head) : i \in 1..Len(stack')}
        BY <2>2, Zenon
    <2>6. live' = Tree(heap', root') \cup UNION {Tree(heap', stack'[i].head) : i \in 1..Len(stack')}
        BY <1>5, <2>1, <2>4, <2>5, Zenon
    <2>7. \A i \in 1..Len(stack') : i \in 1..L /\ stack'[i] = stack[i]
        BY <2>2
    <2>8. TopsInv(heap', root', stack')
        BY <1>2, <1>5, <2>1, <2>7 DEF TopsInv
    <2>9. FramesInv(heap', stack')
        BY <1>2, <1>5, <2>7 DEF FramesInv
    <2> QED
        BY <1>2, <1>5, <2>6, <2>8, <2>9 DEF OwnInv
<1>8. CASE (Unwind /\ stack = <<>>) \/ Delete
    <2>1. live' = live \ Below(root) /\ root' = NULL /\ stack' = stack
        BY <1>8 DEF Unwind, Delete
    <2>2. live' = UNION {V(i) : i \in 1..L}
        <3>1. live' = live \ Tree(heap, root)
            BY <1>1, <1>4, <2>1
        <3> HIDE DEF V
        <3> QED
            BY <1>3, <1>6, <3>1, Zenon
    <2>3. Tree(heap, root') = {}
        BY <2>1 DEF Tree
    <2>4. live' = Tree(heap', root') \cup UNION {Tree(heap', stack'[i].head) : i \in 1..Len(stack')}
        BY <1>5, <2>1, <2>2, <2>3, Zenon
    <2>5. TopsInv(heap', root', stack') /\ FramesInv(heap', stack')
        BY <1>2, <1>5, <2>1 DEF TopsInv
    <2> QED
        BY <1>2, <1>5, <2>4, <2>5 DEF OwnInv
<1> QED
    BY <1>7, <1>8

LEMMA OwnInvNext ==
    ASSUME ParserInv, ParserInv', OwnInv, Next \/ UNCHANGED vars
    PROVE  OwnInv'
<1>1. CASE Accept \/ Reject
    BY <1>1, StopOwns DEF Accept, Reject, Reading
<1>2. CASE UNCHANGED vars
    <2>1. /\ heap' = heap /\ stack' = stack /\ root' = root /\ live' = live /\ pc' = pc
        BY <1>2 DEF vars
    <2>2. Item' = Item
        BY <2>1 DEF Item, Top
    <2>3. ItemInv'
        BY <2>1, <2>2 DEF OwnInv, ItemInv
    <2>4. /\ Forest(heap') /\ TopsInv(heap', root', stack') /\ FramesInv(heap', stack')
          /\ pc' \in Reading => Covered(heap', root', stack')
        BY <2>1 DEF OwnInv
    <2>5. live' = Tree(heap', root') \cup UNION {Tree(heap', stack'[i].head) : i \in 1..Len(stack')}
        BY <2>1, Zenon DEF OwnInv
    <2> QED
        BY <2>3, <2>4, <2>5 DEF OwnInv
<1> QED
    BY <1>1, <1>2, StartOwns, ScalarOwns, StringOwns, OpenOwns, AddOwns, CloseOwns, FreeOwns
    DEF Next

\* Every cell parse_value and the functions it calls have allocated is owned once:
\* whatever is refused or malformed, nothing leaks and nothing is freed twice.
THEOREM MemoryOwnedAlways == Spec => []MemoryOwned
<1>1. Init => ParserInv /\ OwnInv
    BY ParserInvInit, OwnInit
<1>2. ParserInv /\ OwnInv /\ [Next]_vars => (ParserInv /\ OwnInv)'
    BY ParserInvNext, OwnInvNext
<1>3. ParserInv /\ OwnInv => MemoryOwned
    BY OwnedOnce
<1> QED
    BY <1>1, <1>2, <1>3, PTL DEF Spec

-----------------------------------------------------------------------------
(* What each step does to the cells *)

Comma == ","
Colon == ":"
Brace == "{"
Lists == {"[", "{"}

LEMMA FillSteps ==
    ASSUME ParserInv, ParseLiteral \/ ParseNumber \/ ParseString, pc' # "failed"
    PROVE  /\ Token \in Scalars /\ pc = "value" /\ pc' = "behind" /\ Item \in 1..Len(heap)
           /\ offset' = offset + 1 /\ UNCHANGED <<text, root, stack>>
           /\ Len(heap') = Len(heap) \/ (Len(heap') = Len(heap) + 1 /\ heap'[Len(heap) + 1] = Cell)
           /\ \A n \in 1..Len(heap) :
                 /\ heap'[n].next = heap[n].next /\ heap'[n].prev = heap[n].prev
                 /\ heap'[n].child = heap[n].child /\ heap'[n].string = heap[n].string
                 /\ heap'[n].type = IF n = Item THEN Token ELSE heap[n].type
<1>1. Item \in 1..Len(heap) /\ pc = "value" /\ heap[Item] \in CellsUpTo(Len(heap))
    <2>1. pc = "value"
        BY DEF ParseLiteral, ParseNumber, ParseString
    <2>2. Item \in 1..Len(heap)
        BY <2>1, ItemAllocated DEF ParserInv
    <2> QED
        BY <2>1, <2>2 DEF ParserInv, HeapInv
<1>2. CASE heap' = [heap EXCEPT ![Item].type = Token]
    <2> DEFINE c == [heap[Item] EXCEPT !.type = Token]
    <2>1. heap' = [heap EXCEPT ![Item] = c]
        BY <1>2
    <2>2. /\ c.next = heap[Item].next /\ c.prev = heap[Item].prev /\ c.child = heap[Item].child
          /\ c.string = heap[Item].string /\ c.type = Token
        BY <1>1 DEF CellsUpTo
    <2> HIDE DEF c
    <2>3. /\ Len(heap') = Len(heap) /\ heap'[Item] = c
          /\ \A n \in 1..Len(heap) : n # Item => heap'[n] = heap[n]
        BY <1>1, <2>1, FilledCells
    <2>4. \A n \in 1..Len(heap) :
              /\ heap'[n].next = heap[n].next /\ heap'[n].prev = heap[n].prev
              /\ heap'[n].child = heap[n].child /\ heap'[n].string = heap[n].string
              /\ heap'[n].type = IF n = Item THEN Token ELSE heap[n].type
        BY <2>2, <2>3
    <2>5. /\ offset' = offset + 1 /\ UNCHANGED <<text, root, stack>> /\ pc' = "behind"
          /\ Token \in Scalars
        BY <1>2 DEF ParseLiteral, ParseNumber, ParseString, Scalars, Numerals, Literals, Refused
    <2> QED
        BY <1>1, <2>3, <2>4, <2>5
<1>3. CASE ParseString
    <2> DEFINE c == WithText(heap[Item], New)
    <2>1. heap' = Append([heap EXCEPT ![Item] = c], Cell) /\ Token = "string"
          /\ offset' = offset + 1 /\ UNCHANGED <<text, root, stack>> /\ pc' = "behind"
        BY <1>3 DEF ParseString
    <2>2. /\ c.next = heap[Item].next /\ c.prev = heap[Item].prev /\ c.child = heap[Item].child
          /\ c.string = heap[Item].string /\ c.type = Token
        BY <1>1, <2>1 DEF CellsUpTo, WithText
    <2> HIDE DEF c
    <2>3. /\ Len(heap') = Len(heap) + 1 /\ heap'[Item] = c /\ heap'[Len(heap) + 1] = Cell
          /\ \A n \in 1..Len(heap) : n # Item => heap'[n] = heap[n]
        BY <1>1, <2>1, FilledCells
    <2>4. \A n \in 1..Len(heap) :
              /\ heap'[n].next = heap[n].next /\ heap'[n].prev = heap[n].prev
              /\ heap'[n].child = heap[n].child /\ heap'[n].string = heap[n].string
              /\ heap'[n].type = IF n = Item THEN Token ELSE heap[n].type
        BY <2>2, <2>3
    <2> QED
        BY <1>1, <2>1, <2>3, <2>4 DEF Scalars
<1> QED
    BY <1>2, <1>3 DEF ParseLiteral, ParseNumber

LEMMA NameSteps ==
    ASSUME ParserInv, ParseName, ~(Refused /\ pc' = "failed" /\ UNCHANGED root)
    PROVE  /\ pc = "name" /\ Token = "string" /\ Item \in 1..Len(heap)
           /\ UNCHANGED <<text, root, stack>>
           /\ \/ pc' = "value" /\ TokenAt(offset + 1) = Colon /\ offset' = offset + 2
              \/ pc' = "failed"
           /\ Len(heap') = Len(heap) + 1 /\ heap'[Len(heap) + 1] = Cell
           /\ \A n \in 1..Len(heap) :
                 /\ heap'[n].next = heap[n].next /\ heap'[n].prev = heap[n].prev
                 /\ heap'[n].child = heap[n].child
                 /\ n # Item => heap'[n].type = heap[n].type
                 /\ heap'[n].string = IF n = Item THEN Len(heap) + 1 ELSE heap[n].string
<1>1. Item \in 1..Len(heap) /\ pc = "name" /\ heap[Item] \in CellsUpTo(Len(heap))
    <2>1. pc = "name"
        BY DEF ParseName
    <2>2. Item \in 1..Len(heap)
        BY <2>1, ItemAllocated DEF ParserInv
    <2> QED
        BY <2>1, <2>2 DEF ParserInv, HeapInv
<1> DEFINE c == Named(WithText(heap[Item], New))
<1>2. /\ heap' = Append([heap EXCEPT ![Item] = c], Cell) /\ Token = "string"
      /\ UNCHANGED <<text, root, stack>>
      /\ \/ pc' = "value" /\ TokenAt(offset + 1) = Colon /\ offset' = offset + 2
         \/ pc' = "failed"
    BY DEF ParseName, Colon
<1>3. /\ c.next = heap[Item].next /\ c.prev = heap[Item].prev /\ c.child = heap[Item].child
      /\ c.string = Len(heap) + 1
    BY <1>1 DEF CellsUpTo, WithText, Named, New
<1> HIDE DEF c
<1>4. /\ Len(heap') = Len(heap) + 1 /\ heap'[Item] = c /\ heap'[Len(heap) + 1] = Cell
      /\ \A n \in 1..Len(heap) : n # Item => heap'[n] = heap[n]
    BY <1>1, <1>2, FilledCells
<1>5. \A n \in 1..Len(heap) :
          /\ heap'[n].next = heap[n].next /\ heap'[n].prev = heap[n].prev
          /\ heap'[n].child = heap[n].child
          /\ n # Item => heap'[n].type = heap[n].type
          /\ heap'[n].string = IF n = Item THEN Len(heap) + 1 ELSE heap[n].string
    BY <1>3, <1>4
<1> QED
    BY <1>1, <1>2, <1>4, <1>5

LEMMA OpenSteps ==
    ASSUME ParserInv, OpenList
    PROVE  /\ Item \in 1..Len(heap) /\ pc = "value" /\ pc' = "opened" /\ offset' = offset + 1
           /\ Token \in Lists /\ UNCHANGED <<text, root, heap>>
           /\ Len(stack') = Len(stack) + 1
           /\ \A i \in 1..Len(stack) : stack'[i] = stack[i]
           /\ stack'[Len(stack) + 1] =
                  [item |-> Item, opened |-> Token, head |-> NULL, current |-> NULL]
<1> DEFINE f == [item |-> Item, opened |-> Token, head |-> NULL, current |-> NULL]
<1>1. stack' = Append(stack, f)
    BY DEF OpenList
<1>a. Token \in Lists
    BY DEF OpenList, Closer, Lists
<1>2. /\ Len(stack') = Len(stack) + 1 /\ stack'[Len(stack) + 1] = f
      /\ \A i \in 1..Len(stack) : stack'[i] = stack[i]
    <2>1. stack \in Seq(FramesUpTo(Len(heap)) \cup {f})
        <3> HIDE DEF f
        <3> QED
            BY SeqGrows DEF ParserInv, StackInv
    <2> HIDE DEF f
    <2> QED
        BY <1>1, <2>1, AppendProperties
<1>3. Item \in 1..Len(heap)
    BY ItemAllocated DEF ParserInv, OpenList
<1> QED
    BY <1>a, <1>2, <1>3 DEF OpenList

LEMMA AddSteps ==
    ASSUME ParserInv, OwnInv, AddItem, ~(Refused /\ pc' = "failed" /\ UNCHANGED root)
    PROVE  LET k == Len(heap)
               L == Len(stack)
               c == stack[L].current
           IN  /\ pc = "opened" \/ (pc = "behind" /\ Token = Comma)
               /\ offset' = IF pc = "opened" THEN offset ELSE offset + 1
               /\ pc' = IF stack[L].opened = Brace THEN "name" ELSE "value"
               /\ UNCHANGED <<text, root>> /\ L \in 1..L /\ stack' # <<>>
               /\ Len(stack') = L /\ \A i \in 1..L : i # L => stack'[i] = stack[i]
               /\ stack'[L].item = stack[L].item /\ stack'[L].opened = stack[L].opened
               /\ stack'[L].current = k + 1
               /\ stack'[L].head = IF stack[L].head = NULL THEN k + 1 ELSE stack[L].head
               /\ Item' = k + 1
               /\ Len(heap') = k + 1
               /\ heap'[k + 1].next = NULL /\ heap'[k + 1].child = NULL
               /\ heap'[k + 1].string = NULL /\ heap'[k + 1].prev = c
               /\ \A n \in 1..k :
                     /\ heap'[n].next = IF n = c THEN k + 1 ELSE heap[n].next
                     /\ heap'[n].prev = heap[n].prev /\ heap'[n].child = heap[n].child
                     /\ heap'[n].string = heap[n].string /\ heap'[n].type = heap[n].type
<1> DEFINE k == Len(heap)
           L == Len(stack)
           c == stack[L].current
<1>1. /\ heap' = Attached(Top.current) /\ stack # <<>> /\ ItemFollows
      /\ stack' = [stack EXCEPT ![L].current = New, ![L].head = IF @ = NULL THEN New ELSE @]
      /\ offset' = IF pc = "opened" THEN offset ELSE offset + 1
      /\ pc' = IF Top.opened = Brace THEN "name" ELSE "value"
      /\ UNCHANGED <<text, root>>
    BY DEF AddItem, Brace
<1>2. /\ k \in Nat /\ L \in 1..L /\ L \in Nat /\ Top = stack[L] /\ New = k + 1
    BY <1>1, Places DEF ParserInv, New
<1>3. pc = "opened" \/ (pc = "behind" /\ Token = Comma)
    BY <1>1 DEF ItemFollows, Comma
<1>4. stack[L] \in FramesUpTo(k) /\ c \in 0..k
    BY <1>2, FrameTypes DEF ParserInv, StackInv
<1> DEFINE f == [stack[L] EXCEPT !.current = New, !.head = IF @ = NULL THEN New ELSE @]
<1>5. /\ f.item = stack[L].item /\ f.current = k + 1 /\ f.opened = stack[L].opened
      /\ f.head = IF stack[L].head = NULL THEN k + 1 ELSE stack[L].head
    BY <1>2, <1>4 DEF FramesUpTo
<1>6. stack' = [stack EXCEPT ![L] = f]
    BY <1>1, <1>2
<1> HIDE DEF f
<1>7. Len(stack') = L /\ stack'[L] = f /\ \A i \in 1..L : i # L => stack'[i] = stack[i]
    BY <1>2, <1>6 DEF ParserInv, StackInv
<1>8. stack' # <<>> /\ Item' = k + 1
    <2>1. stack' # <<>> /\ Last(stack') = stack'[L]
        BY <1>2, <1>7, EmptySeq DEF Last
    <2> QED
        BY <1>5, <1>7, <2>1 DEF Item, Top
<1>9. /\ Len(heap') = k + 1 /\ heap'[k + 1] = [Cell EXCEPT !.prev = c]
      /\ c # NULL => heap'[c] = [heap[c] EXCEPT !.next = k + 1]
      /\ \A n \in 1..k : n # c => heap'[n] = heap[n]
    <2> HIDE DEF c
    <2>1. Top.current = c
        BY <1>2 DEF c
    <2> QED
        BY <1>1, <1>4, <2>1, AttachedCells DEF ParserInv
<1>10. \A n \in 1..k : heap[n] \in CellsUpTo(k)
    BY DEF ParserInv, HeapInv
<1> HIDE DEF c
<1>11. ASSUME NEW n \in 1..k
       PROVE  /\ heap'[n].next = IF n = c THEN k + 1 ELSE heap[n].next
              /\ heap'[n].prev = heap[n].prev /\ heap'[n].child = heap[n].child
              /\ heap'[n].string = heap[n].string /\ heap'[n].type = heap[n].type
    <2>1. CASE n = c
        <3>1. c # NULL /\ heap[c] \in CellsUpTo(k)
            BY <1>10, <2>1 DEF NULL
        <3> QED
            BY <1>9, <2>1, <3>1 DEF CellsUpTo
    <2>2. CASE n # c
        BY <1>9, <2>2
    <2> QED
        BY <2>1, <2>2
<1>12. /\ heap'[k + 1].next = NULL /\ heap'[k + 1].child = NULL
       /\ heap'[k + 1].string = NULL /\ heap'[k + 1].prev = c
    BY <1>9 DEF Cell
<1> QED
    BY <1>1, <1>2, <1>3, <1>5, <1>7, <1>8, <1>9, <1>11, <1>12 DEF c

LEMMA CloseSteps ==
    ASSUME ParserInv, OwnInv, CloseList
    PROVE  LET k == Len(heap)
               L == Len(stack)
               f == stack[L]
           IN  /\ pc \in {"opened", "behind"} /\ pc' = "behind" /\ offset' = offset + 1
               /\ UNCHANGED <<text, root>> /\ L \in 1..L /\ Token = Closer[f.opened]
               /\ Len(stack') = L - 1
               /\ \A i \in 1..L - 1 : i \in 1..L /\ i < L /\ stack'[i] = stack[i]
               /\ f.item # f.head
               /\ Len(heap') = k
               /\ \A n \in 1..k :
                     /\ heap'[n].next = heap[n].next /\ heap'[n].string = heap[n].string
                     /\ heap'[n].prev = IF n = f.head THEN f.current ELSE heap[n].prev
                     /\ heap'[n].child = IF n = f.item THEN f.head ELSE heap[n].child
                     /\ heap'[n].type = IF n = f.item THEN f.opened ELSE heap[n].type
<1> DEFINE k == Len(heap)
           L == Len(stack)
           f == stack[L]
<1>1. /\ heap' = Finished(Top) /\ stack # <<>> /\ pc \in {"opened", "behind"}
      /\ stack' = Front(stack) /\ pc' = "behind" /\ UNCHANGED <<text, root>>
      /\ offset' = offset + 1 /\ Token = Closer[Top.opened]
    BY DEF CloseList
<1>2. /\ k \in Nat /\ L \in 1..L /\ L \in Nat /\ Top = f /\ Len(stack') = L - 1
      /\ \A i \in 1..L - 1 : stack'[i] = stack[i] /\ i \in 1..L /\ i < L
    BY <1>1, Places DEF ParserInv
<1>3. f.item \in 1..k /\ f.head \in 0..k
    BY <1>2, FrameTypes DEF ParserInv, StackInv
<1>4. f.item # f.head
    BY <1>2, <1>3 DEF OwnInv, FramesInv, NULL
<1>5. /\ Len(heap') = k
      /\ f.head # NULL => heap'[f.head] = [heap[f.head] EXCEPT !.prev = f.current]
      /\ heap'[f.item] = [heap[f.item] EXCEPT !.type = f.opened, !.child = f.head]
      /\ \A n \in 1..k : (n # f.head /\ n # f.item) => heap'[n] = heap[n]
    <2> HIDE DEF f
    <2>1. heap' = Finished(f)
        BY <1>1, <1>2
    <2>2. /\ Len(Finished(f)) = Len(heap)
          /\ f.head # NULL => Finished(f)[f.head] = [heap[f.head] EXCEPT !.prev = f.current]
          /\ Finished(f)[f.item] = [heap[f.item] EXCEPT !.type = f.opened, !.child = f.head]
          /\ \A n \in 1..Len(heap) : (n # f.head /\ n # f.item) => Finished(f)[n] = heap[n]
        BY <1>3, <1>4, FinishedCells, Zenon DEF ParserInv
    <2> QED
        BY <2>1, <2>2, Zenon
<1>6. ASSUME NEW n \in 1..k
      PROVE  /\ heap'[n].next = heap[n].next /\ heap'[n].string = heap[n].string
             /\ heap'[n].prev = IF n = f.head THEN f.current ELSE heap[n].prev
             /\ heap'[n].child = IF n = f.item THEN f.head ELSE heap[n].child
             /\ heap'[n].type = IF n = f.item THEN f.opened ELSE heap[n].type
    <2> HIDE DEF f
    <2>1. heap[n] \in CellsUpTo(k)
        BY DEF ParserInv, HeapInv
    <2>2. CASE n = f.item
        BY <1>4, <1>5, <2>1, <2>2 DEF CellsUpTo
    <2>3. CASE n # f.item /\ n = f.head
        <3>1. f.head # NULL
            BY <2>3 DEF NULL
        <3> QED
            BY <1>5, <2>1, <2>3, <3>1 DEF CellsUpTo
    <2>4. CASE n # f.item /\ n # f.head
        BY <1>5, <2>4
    <2> QED
        BY <2>2, <2>3, <2>4
<1> QED
    BY <1>1, <1>2, <1>4, <1>5, <1>6

-----------------------------------------------------------------------------
(* The links of the lists *)

\* u takes each item to the one in whose list it is, and the root and the texts to 0:
\* the links lead along a list, back to where they come from, and only one item of each
\* list is the last.
Linked(u) ==
    /\ \A n \in 1..Len(heap) : u[n] < n
    /\ \A n \in 1..Len(heap) : heap[n].next # NULL =>
          u[n] # 0 /\ u[heap[n].next] = u[n] /\ heap[heap[n].next].prev = n
    /\ \A n \in 1..Len(heap) : heap[n].child # NULL =>
          /\ u[heap[n].child] = n /\ heap[heap[n].child].prev \in 1..Len(heap)
          /\ u[heap[heap[n].child].prev] = n /\ heap[heap[heap[n].child].prev].next = NULL
    /\ \A m, n \in 1..Len(heap) :
          (u[m] = u[n] /\ u[n] # 0 /\ heap[m].next = NULL /\ heap[n].next = NULL) => m = n

\* The items of a list that is read are in the list of its item.
Gathered(u) ==
    \A i \in 1..Len(stack) :
        stack[i].head # NULL =>
            u[stack[i].head] = stack[i].item /\ u[stack[i].current] = stack[i].item

\* An item with others in its list points to one of them, or is being read.
Held(u) ==
    \A n \in 1..Len(heap) :
        u[n] # 0 => \/ heap[u[n]].child # NULL
                    \/ \E i \in 1..Len(stack) : stack[i].item = u[n] /\ stack[i].head # NULL

LinksInv(u) ==
    /\ \A n \in Nat : u[n] \in Nat
    /\ Linked(u)
    /\ Gathered(u)
    /\ pc \in Reading => Held(u) /\ root \in 1..Len(heap) /\ u[root] = 0

\* How the frames and their items are known.
LEMMA FrameOrder ==
    ASSUME ParserInv, OwnInv
    PROVE  /\ Len(heap) \in Nat /\ Len(stack) \in Nat
           /\ \A i \in 1..Len(stack) :
                 /\ stack[i].item \in 1..Len(heap)
                 /\ stack[i].head \in 0..Len(heap) /\ stack[i].current \in 0..Len(heap)
                 /\ stack[i].head = NULL <=> stack[i].current = NULL
                 /\ stack[i].head # NULL => stack[i].item < stack[i].head
                 /\ stack[i].head # NULL => stack[i].head <= stack[i].current
                 /\ stack[i].current # NULL => heap[stack[i].current].next = NULL
                 /\ heap[stack[i].item].child = NULL
           /\ \A i, j \in 1..Len(stack) : i < j =>
                 /\ stack[i].current # NULL /\ stack[i].head # NULL
                 /\ stack[i].current <= stack[j].item /\ stack[i].item < stack[j].item
           /\ \A i, j \in 1..Len(stack) : stack[i].item = stack[j].item => i = j
<1>1. Len(heap) \in Nat /\ Len(stack) \in Nat
    BY DEF ParserInv, HeapInv, StackInv
<1>2. \A i \in 1..Len(stack) :
          /\ stack[i].item \in 1..Len(heap)
          /\ stack[i].head \in 0..Len(heap) /\ stack[i].current \in 0..Len(heap)
    BY FrameTypes DEF ParserInv, StackInv
<1>3. \A i \in 1..Len(stack) :
          /\ stack[i].head = NULL <=> stack[i].current = NULL
          /\ stack[i].head # NULL => stack[i].item < stack[i].head
          /\ stack[i].head # NULL => stack[i].head <= stack[i].current
          /\ stack[i].current # NULL => heap[stack[i].current].next = NULL
          /\ heap[stack[i].item].child = NULL
    BY DEF OwnInv, FramesInv
<1>4. ASSUME NEW i \in 1..Len(stack), NEW j \in 1..Len(stack), i < j
      PROVE  /\ stack[i].current # NULL /\ stack[i].head # NULL
             /\ stack[i].current <= stack[j].item /\ stack[i].item < stack[j].item
    <2>1. stack[i].current # NULL /\ stack[i].current <= stack[j].item
        BY <1>4 DEF OwnInv, FramesInv
    <2>2. stack[i].head # NULL
        BY <1>3, <2>1
    <2>3. stack[i].item < stack[i].head /\ stack[i].head <= stack[i].current
        BY <1>3, <2>2
    <2> QED
        BY <1>1, <1>2, <2>1, <2>2, <2>3
<1>5. \A i, j \in 1..Len(stack) : stack[i].item = stack[j].item => i = j
    <2> SUFFICES ASSUME NEW i \in 1..Len(stack), NEW j \in 1..Len(stack),
                        stack[i].item = stack[j].item, i < j
                 PROVE  FALSE
        BY <1>1
    <2> QED
        BY <1>2, <1>4
<1> QED
    BY <1>1, <1>2, <1>3, <1>4, <1>5

\* The links of h are those of g, which may have a text more.
SameLinks(h, g) ==
    /\ Len(g) = Len(h) \/ (Len(g) = Len(h) + 1 /\ g[Len(h) + 1] = Cell)
    /\ \A n \in 1..Len(h) :
          g[n].next = h[n].next /\ g[n].prev = h[n].prev /\ g[n].child = h[n].child

\* v is u with the value x for the cell allocated next.
Prolongs(v, u, x) == v[Len(heap) + 1] = x /\ \A n \in 1..Len(heap) : v[n] = u[n]

\* The links as they are after a step that leaves them.
LEMMA LinksKept ==
    ASSUME ParserInv, OwnInv, NEW u, LinksInv(u), NEW v, Prolongs(v, u, 0),
           SameLinks(heap, heap')
    PROVE  /\ Linked(v)'
           /\ UNCHANGED <<stack, root>> => Gathered(v)'
           /\ (UNCHANGED <<stack, root>> /\ pc \in Reading) =>
                 Held(v)' /\ root' \in 1..Len(heap') /\ v[root'] = 0
<1> DEFINE k == Len(heap)
<1>1. k \in Nat
    BY DEF ParserInv, HeapInv
<1>2. v[k + 1] = 0 /\ \A n \in 1..k : v[n] = u[n]
    BY DEF Prolongs
<1>3. \A n \in 1..k : u[n] \in Nat
    BY <1>1 DEF LinksInv
<1>4. \A n \in 1..k : heap[n].next \in 0..k /\ heap[n].child \in 0..k /\ heap[n].prev \in 0..k
    <2>1. \A n \in 1..k : heap[n] \in CellsUpTo(k)
        BY ElementOfSeq DEF ParserInv, HeapInv
    <2> QED
        BY <2>1 DEF CellsUpTo
<1>5. \A n \in 1..k : /\ heap[n].next # NULL => heap[n].next \in 1..k
                      /\ heap[n].child # NULL => heap[n].child \in 1..k
    BY <1>4 DEF NULL
<1>6. /\ Len(heap') = k \/ Len(heap') = k + 1
      /\ Len(heap') = k + 1 => heap'[k + 1].next = NULL /\ heap'[k + 1].child = NULL
    BY <1>1 DEF SameLinks, Cell
<1>a. \A n \in 1..k : /\ heap'[n].next = heap[n].next /\ heap'[n].prev = heap[n].prev
                      /\ heap'[n].child = heap[n].child
    BY DEF SameLinks
<1>l. Linked(u)
    BY DEF LinksInv
<1>7. /\ \A n \in 1..Len(heap') : n \in 1..k \/ (n = k + 1 /\ Len(heap') = k + 1)
      /\ 1..k \subseteq 1..Len(heap')
    BY <1>1, <1>6
<1>8. Linked(v)'
    <2>1. \A n \in 1..Len(heap') : v[n] < n
        BY <1>1, <1>2, <1>3, <1>6, <1>7, <1>l DEF Linked
    <2>2. ASSUME NEW n \in 1..Len(heap'), heap'[n].next # NULL
          PROVE  v[n] # 0 /\ v[heap'[n].next] = v[n] /\ heap'[heap'[n].next].prev = n
        <3>1. n \in 1..k
            BY <1>6, <1>7, <2>2
        <3>2. heap'[n].next = heap[n].next /\ heap[n].next \in 1..k
            BY <1>5, <1>a, <2>2, <3>1
        <3> QED
            BY <1>2, <1>a, <1>l, <2>2, <3>1, <3>2 DEF Linked
    <2>3. ASSUME NEW n \in 1..Len(heap'), heap'[n].child # NULL
          PROVE  /\ v[heap'[n].child] = n /\ heap'[heap'[n].child].prev \in 1..Len(heap')
                 /\ v[heap'[heap'[n].child].prev] = n
                 /\ heap'[heap'[heap'[n].child].prev].next = NULL
        <3>1. n \in 1..k
            BY <1>6, <1>7, <2>3
        <3>2. /\ heap'[n].child = heap[n].child /\ heap[n].child \in 1..k
            BY <1>5, <1>a, <2>3, <3>1
        <3>3. /\ u[heap[n].child] = n /\ heap[heap[n].child].prev \in 1..k
              /\ u[heap[heap[n].child].prev] = n /\ heap[heap[heap[n].child].prev].next = NULL
            BY <1>l, <2>3, <3>1, <3>2 DEF Linked
        <3> QED
            BY <1>2, <1>7, <1>a, <3>2, <3>3
    <2>4. ASSUME NEW m \in 1..Len(heap'), NEW n \in 1..Len(heap'), v[m] = v[n], v[n] # 0,
                 heap'[m].next = NULL, heap'[n].next = NULL
          PROVE  m = n
        <3>1. m \in 1..k /\ n \in 1..k
            BY <1>2, <1>6, <1>7, <2>4
        <3> QED
            BY <1>2, <1>a, <1>l, <2>4, <3>1 DEF Linked
    <2> QED
        BY <2>1, <2>2, <2>3, <2>4 DEF Linked
<1>9. ASSUME UNCHANGED <<stack, root>>
      PROVE  Gathered(v)'
    <2>1. \A i \in 1..Len(stack) : stack[i].head # NULL =>
              stack[i].head \in 1..k /\ stack[i].current \in 1..k
        BY FrameOrder DEF NULL
    <2> QED
        BY <1>2, <1>9, <2>1 DEF LinksInv, Gathered
<1>10. ASSUME UNCHANGED <<stack, root>>, pc \in Reading
       PROVE  Held(v)' /\ root' \in 1..Len(heap') /\ v[root'] = 0
    <2>1. Held(u) /\ root \in 1..k /\ u[root] = 0
        BY <1>10 DEF LinksInv
    <2>2. ASSUME NEW n \in 1..k, v[n] # 0
          PROVE  \/ heap'[v[n]].child # NULL
                 \/ \E i \in 1..Len(stack) : stack[i].item = v[n] /\ stack[i].head # NULL
        <3>1. v[n] = u[n] /\ u[n] \in 1..k
            <4>1. u[n] < n
                BY DEF LinksInv, Linked
            <4> QED
                BY <1>1, <1>2, <1>3, <2>2, <4>1
        <3> QED
            BY <1>a, <2>1, <2>2, <3>1 DEF Held
    <2>3. Held(v)'
        BY <1>2, <1>6, <1>7, <1>10, <2>2 DEF Held
    <2> QED
        BY <1>2, <1>7, <1>10, <2>1, <2>3
<1> QED
    BY <1>8, <1>9, <1>10

LEMMA AddLinks ==
    ASSUME ParserInv, OwnInv, NEW u, LinksInv(u), AddItem,
           ~(Refused /\ pc' = "failed" /\ UNCHANGED root),
           NEW v, \A n \in Nat : v[n] \in Nat, Prolongs(v, u, stack[Len(stack)].item)
    PROVE  LinksInv(v)'
<1> DEFINE k == Len(heap)
           L == Len(stack)
           c == stack[L].current
           a == stack[L].item
<1>1. /\ pc \in Reading /\ L \in 1..L /\ root' = root
      /\ Len(stack') = L /\ \A i \in 1..L : i # L => stack'[i] = stack[i]
      /\ stack'[L].item = a /\ stack'[L].current = k + 1
      /\ stack'[L].head = IF stack[L].head = NULL THEN k + 1 ELSE stack[L].head
      /\ Len(heap') = k + 1
      /\ heap'[k + 1].next = NULL /\ heap'[k + 1].child = NULL /\ heap'[k + 1].prev = c
    BY AddSteps DEF Reading
<1>2. \A n \in 1..k : /\ heap'[n].next = IF n = c THEN k + 1 ELSE heap[n].next
                      /\ heap'[n].prev = heap[n].prev /\ heap'[n].child = heap[n].child
    BY AddSteps
<1>3. /\ k \in Nat /\ L \in Nat /\ a \in 1..k /\ c \in 0..k
      /\ stack[L].head \in 0..k
      /\ stack[L].head = NULL <=> c = NULL
      /\ c # NULL => heap[c].next = NULL
      /\ heap[a].child = NULL
    BY <1>1, FrameOrder
<1>4. /\ Linked(u) /\ Held(u) /\ Gathered(u) /\ root \in 1..k /\ u[root] = 0
      /\ \A n \in Nat : u[n] \in Nat
    BY <1>1 DEF LinksInv
<1>5. v[k + 1] = a /\ \A n \in 1..k : v[n] = u[n]
    BY DEF Prolongs
<1>6. \A n \in 1..k : u[n] \in Nat
    BY <1>3, <1>4
<1>7. /\ \A n \in 1..Len(heap') : n \in 1..k \/ n = k + 1
      /\ 1..k \subseteq 1..Len(heap') /\ k + 1 \in 1..Len(heap')
    BY <1>1, <1>3
<1>8. c # NULL => c \in 1..k /\ u[c] = a
    <2>1. c # NULL => stack[L].head # NULL
        BY <1>3
    <2> QED
        BY <1>1, <1>3, <1>4, <2>1 DEF Gathered, NULL
<1>9. c = NULL => \A n \in 1..k : u[n] # a
    <2> SUFFICES ASSUME c = NULL, NEW n \in 1..k, u[n] = a
                 PROVE  FALSE
        OBVIOUS
    <2>1. a # 0 /\ stack[L].head = NULL
        BY <1>3
    <2>2. PICK i \in 1..L : stack[i].item = a /\ stack[i].head # NULL
        BY <1>3, <1>4, <2>1 DEF Held
    <2>3. i = L
        BY <1>1, <2>2, FrameOrder
    <2> QED
        BY <2>1, <2>2, <2>3
<1>a. \A n \in 1..k : /\ heap[n].next # NULL => heap[n].next \in 1..k
                      /\ heap[n].child # NULL => heap[n].child \in 1..k
    <2>1. \A n \in 1..k : heap[n] \in CellsUpTo(k)
        BY ElementOfSeq DEF ParserInv, HeapInv
    <2> QED
        BY <2>1 DEF CellsUpTo, NULL
<1> HIDE DEF c, a, L, k
<1>10. Linked(v)'
    <2>1. \A n \in 1..Len(heap') : v[n] < n
        BY <1>3, <1>4, <1>5, <1>7, SMTT(20) DEF Linked, k
    <2>2. ASSUME NEW n \in 1..Len(heap'), heap'[n].next # NULL
          PROVE  v[n] # 0 /\ v[heap'[n].next] = v[n] /\ heap'[heap'[n].next].prev = n
        <3>1. n \in 1..k
            BY <1>1, <1>7, <2>2
        <3>2. CASE n = c
            <4>1. c # NULL /\ heap'[n].next = k + 1
                BY <1>2, <3>1, <3>2 DEF NULL
            <4> QED
                BY <1>1, <1>3, <1>5, <1>8, <3>2, <4>1
        <3>3. CASE n # c
            <4>1. heap'[n].next = heap[n].next /\ heap[n].next \in 1..k
                BY <1>2, <1>a, <2>2, <3>1, <3>3
            <4>2. /\ u[n] # 0 /\ u[heap[n].next] = u[n] /\ heap[heap[n].next].prev = n
                BY <1>4, <2>2, <3>1, <4>1 DEF Linked, k
            <4> QED
                BY <1>2, <1>5, <3>1, <4>1, <4>2
        <3> QED
            BY <3>2, <3>3
    <2>3. ASSUME NEW n \in 1..Len(heap'), heap'[n].child # NULL
          PROVE  /\ v[heap'[n].child] = n /\ heap'[heap'[n].child].prev \in 1..Len(heap')
                 /\ v[heap'[heap'[n].child].prev] = n
                 /\ heap'[heap'[heap'[n].child].prev].next = NULL
        <3>1. n \in 1..k
            BY <1>1, <1>7, <2>3
        <3>2. heap'[n].child = heap[n].child /\ heap[n].child \in 1..k
            BY <1>2, <1>a, <2>3, <3>1
        <3>3. /\ u[heap[n].child] = n /\ heap[heap[n].child].prev \in 1..k
              /\ u[heap[heap[n].child].prev] = n /\ heap[heap[heap[n].child].prev].next = NULL
            BY <1>4, <2>3, <3>1, <3>2 DEF Linked, k
        <3>4. heap[heap[n].child].prev # c
            BY <1>2, <1>3, <1>8, <2>3, <3>1, <3>2, <3>3 DEF NULL
        <3> QED
            BY <1>2, <1>5, <1>7, <3>2, <3>3, <3>4
    <2>4. ASSUME NEW m \in 1..Len(heap'), NEW n \in 1..Len(heap'), v[m] = v[n], v[n] # 0,
                 heap'[m].next = NULL, heap'[n].next = NULL
          PROVE  m = n
        <3>1. ASSUME NEW x \in 1..k, heap'[x].next = NULL
              PROVE  x # c /\ u[x] # a /\ heap[x].next = NULL
            <4>1. x # c /\ heap[x].next = NULL
                BY <1>2, <1>3, <3>1 DEF NULL
            <4>2. u[x] # a
                <5>1. CASE c = NULL
                    BY <1>9, <5>1
                <5>2. CASE c # NULL
                    <6>1. a # 0
                        BY <1>3
                    <6> QED
                        BY <1>3, <1>4, <1>8, <4>1, <5>2, <6>1, SMTT(20) DEF Linked, k
                <5> QED
                    BY <5>1, <5>2
            <4> QED
                BY <4>1, <4>2
        <3>2. CASE m \in 1..k /\ n \in 1..k
            BY <1>4, <1>5, <2>4, <3>1, <3>2 DEF Linked, k
        <3>3. CASE m = k + 1 \/ n = k + 1
            BY <1>5, <1>7, <2>4, <3>1, <3>3
        <3> QED
            BY <1>7, <3>2, <3>3
    <2> QED
        BY <2>1, <2>2, <2>3, <2>4 DEF Linked
<1>11. Gathered(v)'
    <2>1. \A i \in 1..L : stack[i].head # NULL =>
              stack[i].head \in 1..k /\ stack[i].current \in 1..k
        BY FrameOrder DEF NULL, L, k
    <2>2. ASSUME NEW i \in 1..L, stack'[i].head # NULL
          PROVE  v[stack'[i].head] = stack'[i].item /\ v[stack'[i].current] = stack'[i].item
        <3>1. CASE i = L
            BY <1>1, <1>4, <1>5, <2>1, <3>1 DEF Gathered, a, L
        <3>2. CASE i # L
            <4>1. stack'[i] = stack[i] /\ stack[i].head # NULL
                BY <1>1, <2>2, <3>2
            <4>2. /\ v[stack[i].head] = u[stack[i].head]
                  /\ v[stack[i].current] = u[stack[i].current]
                BY <1>5, <2>1, <4>1
            <4>3. u[stack[i].head] = stack[i].item /\ u[stack[i].current] = stack[i].item
                BY <1>4, <4>1 DEF Gathered, L
            <4> QED
                BY <4>1, <4>2, <4>3
        <3> QED
            BY <3>1, <3>2
    <2> QED
        BY <1>1, <2>2 DEF Gathered
<1>12. Held(v)'
    <2>1. ASSUME NEW n \in 1..k, v[n] # 0
          PROVE  \/ heap'[v[n]].child # NULL
                 \/ \E i \in 1..L : stack'[i].item = v[n] /\ stack'[i].head # NULL
        <3>1. v[n] = u[n] /\ u[n] \in 1..k
            <4>1. u[n] < n
                BY <1>4 DEF Linked, k
            <4> QED
                BY <1>3, <1>5, <1>6, <2>1, <4>1
        <3>2. CASE heap[u[n]].child # NULL
            BY <1>2, <3>1, <3>2
        <3>3. CASE heap[u[n]].child = NULL
            <4>1. PICK i \in 1..L : stack[i].item = u[n] /\ stack[i].head # NULL
                BY <1>4, <2>1, <3>1, <3>3 DEF Held, L, k
            <4>2. stack'[i].item = u[n] /\ stack'[i].head # NULL
                BY <1>1, <4>1 DEF a
            <4> QED
                BY <3>1, <4>2
        <3> QED
            BY <3>2, <3>3
    <2>2. stack'[L].item = v[k + 1] /\ stack'[L].head # NULL /\ L \in 1..L
        BY <1>1, <1>3, <1>5 DEF NULL
    <2> QED
        BY <1>1, <1>7, <2>1, <2>2 DEF Held
<1>13. root' \in 1..Len(heap') /\ v[root'] = 0
    BY <1>1, <1>4, <1>5, <1>7
<1> QED
    BY <1>10, <1>11, <1>12, <1>13 DEF LinksInv

LEMMA CloseLinks ==
    ASSUME ParserInv, OwnInv, NEW u, LinksInv(u), CloseList
    PROVE  LinksInv(u)'
<1> DEFINE k == Len(heap)
           L == Len(stack)
           a == stack[L].item
           c == stack[L].head
           e == stack[L].current
<1>1. /\ pc \in Reading /\ L \in 1..L /\ root' = root
      /\ Len(stack') = L - 1
      /\ \A i \in 1..L - 1 : i \in 1..L /\ i < L /\ stack'[i] = stack[i]
      /\ Len(heap') = k
    BY CloseSteps DEF Reading
<1>2. \A n \in 1..k : /\ heap'[n].next = heap[n].next
                      /\ heap'[n].prev = IF n = c THEN e ELSE heap[n].prev
                      /\ heap'[n].child = IF n = a THEN c ELSE heap[n].child
    BY CloseSteps
<1>3. /\ k \in Nat /\ L \in Nat /\ a \in 1..k /\ c \in 0..k /\ e \in 0..k
      /\ c = NULL <=> e = NULL
      /\ e # NULL => heap[e].next = NULL
      /\ heap[a].child = NULL
    BY <1>1, FrameOrder
<1>4. /\ Linked(u) /\ Held(u) /\ Gathered(u) /\ root \in 1..k /\ u[root] = 0
    BY <1>1 DEF LinksInv
<1>5. c # NULL => /\ c \in 1..k /\ e \in 1..k /\ u[c] = a /\ u[e] = a
                  /\ Unpointed(heap, c)
    BY <1>1, <1>3, <1>4 DEF Gathered, OwnInv, TopsInv, NULL
<1>6. c # NULL => \A n \in 1..k : heap[n].next # c /\ heap[n].child # c
    <2>1. c # NULL => \A n \in 1..k : heap[n]["next"] # c /\ heap[n]["child"] # c
        BY <1>5 DEF Unpointed, Pointers
    <2> QED
        BY <2>1
<1>a. \A n \in 1..k : /\ heap[n].next # NULL => heap[n].next \in 1..k
                      /\ heap[n].child # NULL => heap[n].child \in 1..k
    <2>1. \A n \in 1..k : heap[n] \in CellsUpTo(k)
        BY ElementOfSeq DEF ParserInv, HeapInv
    <2> QED
        BY <2>1 DEF CellsUpTo, NULL
<1> HIDE DEF a, c, e, L, k
<1>7. Linked(u)'
    <2>1. \A n \in 1..Len(heap') : u[n] < n
        BY <1>1, <1>4 DEF Linked, k
    <2>2. ASSUME NEW n \in 1..k, heap'[n].next # NULL
          PROVE  u[n] # 0 /\ u[heap'[n].next] = u[n] /\ heap'[heap'[n].next].prev = n
        <3>1. /\ heap'[n].next = heap[n].next /\ heap[n].next \in 1..k
              /\ heap[n].next # c
            BY <1>2, <1>6, <1>a, <2>2 DEF NULL
        <3>2. u[n] # 0 /\ u[heap[n].next] = u[n] /\ heap[heap[n].next].prev = n
            BY <1>4, <2>2, <3>1 DEF Linked, k
        <3> QED
            BY <1>2, <3>1, <3>2
    <2>3. ASSUME NEW n \in 1..k, heap'[n].child # NULL
          PROVE  /\ u[heap'[n].child] = n /\ heap'[heap'[n].child].prev \in 1..k
                 /\ u[heap'[heap'[n].child].prev] = n
                 /\ heap'[heap'[heap'[n].child].prev].next = NULL
        <3>1. CASE n = a
            <4>1. heap'[n].child = c /\ c # NULL
                BY <1>2, <2>3, <3>1
            <4>2. heap'[c].prev = e /\ e \in 1..k /\ heap'[e].next = NULL
                BY <1>2, <1>3, <1>5, <4>1
            <4> QED
                BY <1>5, <3>1, <4>1, <4>2
        <3>2. CASE n # a
            <4>1. heap'[n].child = heap[n].child /\ heap[n].child \in 1..k /\ heap[n].child # c
                BY <1>2, <1>6, <1>a, <2>3, <3>2 DEF NULL
            <4>2. /\ u[heap[n].child] = n /\ heap[heap[n].child].prev \in 1..k
                  /\ u[heap[heap[n].child].prev] = n
                  /\ heap[heap[heap[n].child].prev].next = NULL
                BY <1>4, <2>3, <4>1 DEF Linked, k
            <4> QED
                BY <1>2, <4>1, <4>2
        <3> QED
            BY <3>1, <3>2
    <2>4. ASSUME NEW m \in 1..k, NEW n \in 1..k, u[m] = u[n], u[n] # 0,
                 heap'[m].next = NULL, heap'[n].next = NULL
          PROVE  m = n
        BY <1>2, <1>4, <2>4 DEF Linked, k
    <2> QED
        BY <1>1, <2>1, <2>2, <2>3, <2>4 DEF Linked
<1>8. Gathered(u)'
    BY <1>1, <1>4 DEF Gathered, L
<1>9. Held(u)'
    <2>1. ASSUME NEW n \in 1..k, u[n] # 0
          PROVE  \/ heap'[u[n]].child # NULL
                 \/ \E i \in 1..Len(stack') : stack'[i].item = u[n] /\ stack'[i].head # NULL
        <3>1. u[n] \in 1..k
            <4>1. u[n] < n /\ u[n] \in Nat
                BY <1>3, <1>4 DEF Linked, LinksInv, k
            <4> QED
                BY <1>3, <2>1, <4>1
        <3>2. CASE heap[u[n]].child # NULL
            BY <1>2, <1>3, <3>1, <3>2
        <3>3. CASE heap[u[n]].child = NULL
            <4>1. PICK i \in 1..L : stack[i].item = u[n] /\ stack[i].head # NULL
                BY <1>4, <2>1, <3>3 DEF Held, L, k
            <4>2. CASE i = L
                BY <1>2, <3>1, <4>1, <4>2 DEF a, c
            <4>3. CASE i # L
                <5>1. i \in 1..Len(stack')
                    BY <1>1, <1>3, <4>3
                <5>2. stack'[i] = stack[i]
                    BY <1>1, <5>1
                <5> QED
                    BY <4>1, <5>1, <5>2
            <4> QED
                BY <4>2, <4>3
        <3> QED
            BY <3>2, <3>3
    <2> QED
        BY <1>1, <2>1 DEF Held
<1>10. root' \in 1..Len(heap') /\ u[root'] = 0
    BY <1>1, <1>4
<1> QED
    BY <1>7, <1>8, <1>9, <1>10 DEF LinksInv

\* Where nothing is read on, with what is left of the frames.
LEMMA LeftLinks ==
    ASSUME NEW u, LinksInv(u), heap' = heap, pc' \notin Reading,
           1..Len(stack') \subseteq 1..Len(stack), \A i \in 1..Len(stack') : stack'[i] = stack[i]
    PROVE  LinksInv(u)'
<1>1. Linked(u)'
    BY DEF LinksInv, Linked
<1>2. Gathered(u)'
    BY DEF LinksInv, Gathered
<1> QED
    BY <1>1, <1>2 DEF LinksInv

LEMMA StopLinks ==
    ASSUME ParserInv, NEW u, LinksInv(u), Reject \/ Accept \/ Unwind \/ Delete
               \/ (Refused /\ pc' = "failed") \/ (Refused /\ pc' = "done")
    PROVE  LinksInv(u)'
<1>1. heap' = heap /\ pc' \notin Reading
    BY DEF Reject, Accept, Unwind, Delete, Refused, Reading
<1>2. 1..Len(stack') \subseteq 1..Len(stack) /\ \A i \in 1..Len(stack') : stack'[i] = stack[i]
    <2>1. CASE stack' = stack
        BY <2>1
    <2>2. CASE stack # <<>> /\ stack' = Front(stack)
        BY <2>2, Places DEF ParserInv
    <2> QED
        BY <2>1, <2>2 DEF Reject, Accept, Unwind, Delete, Refused
<1> QED
    BY <1>1, <1>2, LeftLinks

LEMMA StartLinks ==
    ASSUME ParserInv, heap' = <<Cell>>, root' = New, Start, stack' = stack,
           NEW v, \A n \in Nat : v[n] \in Nat, v[1] = 0
    PROVE  LinksInv(v)'
<1>1. Len(<<>>) = 0 /\ heap = <<>> /\ stack = <<>>
    BY EmptySeq DEF Start, ParserInv, PlaceInv
<1>2. /\ root' = 1 /\ Len(heap') = 1 /\ stack' = <<>>
      /\ heap'[1].next = NULL /\ heap'[1].child = NULL
    BY <1>1 DEF New, Cell
<1>3. 1..Len(heap') = {1} /\ 1..Len(stack') = {}
    BY <1>1, <1>2
<1>4. Linked(v)' /\ Gathered(v)' /\ Held(v)'
    BY <1>2, <1>3 DEF Linked, Gathered, Held
<1> QED
    BY <1>2, <1>3, <1>4 DEF LinksInv

LEMMA SameListsLinks ==
    ASSUME ParserInv, OwnInv, NEW u, LinksInv(u), SameLinks(heap, heap'), pc \in Reading,
           UNCHANGED <<stack, root>>,
           NEW v, \A n \in Nat : v[n] \in Nat, Prolongs(v, u, 0)
    PROVE  LinksInv(v)'
<1>1. /\ Linked(v)' /\ Gathered(v)' /\ Held(v)'
      /\ root' \in 1..Len(heap') /\ v[root'] = 0
    BY LinksKept
<1> QED
    BY <1>1 DEF LinksInv

LEMMA OpenLinks ==
    ASSUME ParserInv, OwnInv, NEW u, LinksInv(u), OpenList
    PROVE  LinksInv(u)'
<1> DEFINE L == Len(stack)
<1>1. /\ heap' = heap /\ root' = root /\ pc \in Reading /\ Len(stack') = L + 1
      /\ \A i \in 1..L : stack'[i] = stack[i]
      /\ stack'[L + 1].head = NULL
    <2>1. stack'[L + 1] = [item |-> Item, opened |-> Token, head |-> NULL, current |-> NULL]
        BY OpenSteps
    <2>2. stack'[L + 1].head = NULL
        BY <2>1
    <2> QED
        BY <2>2, OpenSteps DEF Reading
<1>2. L \in Nat /\ \A i \in 1..L + 1 : i \in 1..L \/ i = L + 1
    BY FrameOrder
<1> HIDE DEF L
<1>3. Linked(u)'
    BY <1>1 DEF LinksInv, Linked
<1>4. Gathered(u)'
    BY <1>1, <1>2 DEF LinksInv, Gathered, L
<1>5. Held(u)'
    <2>1. \A i \in 1..L : i \in 1..Len(stack')
        BY <1>1, <1>2
    <2> QED
        BY <1>1, <2>1 DEF LinksInv, Held, L
<1> QED
    BY <1>1, <1>3, <1>4, <1>5 DEF LinksInv

\* From the newest cell down.
LEMMA Downwards ==
    ASSUME NEW k \in Nat, NEW T, \A n \in 1..k : (\A m \in 1..k : n < m => m \in T) => n \in T
    PROVE  \A n \in 1..k : n \in T
<1> DEFINE D == {d \in Nat : d < k /\ k - d \notin T}
<1>1. D = {}
    <2>1. SUFFICES ASSUME D # {}
                   PROVE  FALSE
        OBVIOUS
    <2>2. D \in SUBSET Nat
        OBVIOUS
    <2> HIDE DEF D
    <2>3. PICK d \in D : \A j \in D : d <= j
        BY <2>1, <2>2, Least
    <2>4. d \in Nat /\ k - d \in 1..k /\ k - d \notin T
        BY <2>3 DEF D
    <2>5. ASSUME NEW m \in 1..k, k - d < m
          PROVE  m \in T
        <3>1. k - m \in Nat /\ k - m < d /\ k - m < k /\ m = k - (k - m)
            BY <2>4, <2>5
        <3>2. k - m \notin D
            BY <2>3, <2>4, <3>1
        <3> QED
            BY <3>1, <3>2 DEF D
    <2> QED
        BY <2>4, <2>5
<1>2. ASSUME NEW n \in 1..k
      PROVE  n \in T
    <2>1. k - n \in Nat /\ k - n < k /\ n = k - (k - n)
        OBVIOUS
    <2>2. k - n \notin D
        BY <1>1
    <2> QED
        BY <2>1, <2>2
<1> QED
    BY <1>2

\* f takes each cell to the last one behind it.
Lasts(f) == f = [n \in DOMAIN heap |-> IF heap[n].next = NULL THEN n ELSE f[heap[n].next]]

LEMMA LastOfList ==
    ASSUME ParserInv, OwnInv, NEW u, LinksInv(u), NEW x \in 1..Len(heap), NEW y \in 1..Len(heap),
           u[x] = u[y], u[x] # 0, heap[y].next = NULL
    PROVE  LastOf(x) = y
<1> DEFINE k == Len(heap)
           P(n) == {q \in 1..k : u[q] = u[n] /\ heap[q].next = NULL}
           E(n) == CHOOSE q : q \in P(n)
           F == [n \in DOMAIN heap |-> IF heap[n].next = NULL THEN n ELSE E(n)]
<1>1. k \in Nat /\ DOMAIN heap = 1..k
    BY DEF ParserInv, HeapInv
<1>2. \A n \in 1..k : heap[n].next # NULL =>
          /\ heap[n].next \in 1..k /\ n < heap[n].next /\ u[n] # 0 /\ u[heap[n].next] = u[n]
    <2>1. \A n \in 1..k : heap[n]["next"] \in 0..k /\ (heap[n]["next"] # NULL => n < heap[n]["next"])
        BY DEF OwnInv, Forest, PointsForward, Pointers
    <2> QED
        BY <2>1 DEF LinksInv, Linked, NULL
<1>3. \A m, n \in 1..k :
          (u[m] = u[n] /\ u[n] # 0 /\ heap[m].next = NULL /\ heap[n].next = NULL) => m = n
    BY DEF LinksInv, Linked
<1>4. Lasts(F)
    <2>1. ASSUME NEW n \in 1..k, heap[n].next # NULL
          PROVE  E(n) = F[heap[n].next]
        <3> DEFINE m == heap[n].next
        <3>1. m \in 1..k /\ u[n] # 0 /\ u[m] = u[n] /\ P(m) = P(n)
            BY <1>2, <2>1
        <3>2. CASE m # NULL /\ heap[m].next = NULL
            <4>1. P(n) = {m}
                BY <1>3, <3>1, <3>2
            <4>2. F[m] = m
                BY <1>1, <3>1, <3>2
            <4> QED
                BY <4>1, <4>2
        <3>3. CASE heap[m].next # NULL
            <4>1. F[m] = E(m)
                BY <1>1, <3>1, <3>3
            <4> QED
                BY <3>1, <4>1
        <3> QED
            BY <2>1, <3>2, <3>3
    <2>2. \A n \in DOMAIN heap :
              (IF heap[n].next = NULL THEN n ELSE E(n)) = IF heap[n].next = NULL THEN n ELSE F[heap[n].next]
        <3> HIDE DEF F, E
        <3> QED
            BY <1>1, <2>1
    <2>3. F = [n \in DOMAIN heap |-> IF heap[n].next = NULL THEN n ELSE E(n)]
        OBVIOUS
    <2> HIDE DEF F, E
    <2> QED
        BY <2>2, <2>3, Zenon DEF Lasts
<1>5. Lasts(CHOOSE f : Lasts(f))
    <2> HIDE DEF F
    <2> QED
        BY <1>4, Zenon
<1>6. LastOf(x) = (CHOOSE f : Lasts(f))[x]
    BY DEF LastOf, Lasts
<1>7. PICK f : Lasts(f) /\ LastOf(x) = f[x]
    <2> HIDE DEF F
    <2> QED
        BY <1>5, <1>6, Zenon
<1>8. \A n \in 1..k : f[n] = IF heap[n].next = NULL THEN n ELSE f[heap[n].next]
    BY <1>1, <1>7 DEF Lasts
<1> HIDE DEF F, E, P
<1> DEFINE T == {n \in 1..k : u[n] = u[y] => f[n] = y}
<1>9. ASSUME NEW n \in 1..k, \A m \in 1..k : n < m => m \in T
      PROVE  n \in T
    <2> SUFFICES ASSUME u[n] = u[y]
                 PROVE  f[n] = y
        OBVIOUS
    <2>1. CASE heap[n].next = NULL
        BY <1>3, <1>8, <2>1
    <2>2. CASE heap[n].next # NULL
        <3>1. heap[n].next \in T /\ u[heap[n].next] = u[y]
            BY <1>2, <1>9, <2>2
        <3> QED
            BY <1>8, <2>2, <3>1
    <2> QED
        BY <2>1, <2>2
<1>10. \A n \in 1..k : n \in T
    <2> HIDE DEF T
    <2> QED
        BY <1>1, <1>9, Downwards
<1> QED
    BY <1>7, <1>10

LEMMA LinksBack ==
    ASSUME ParserInv, OwnInv, NEW u, LinksInv(u)
    PROVE  BackLinks
<1>1. \A n \in live : n \in 1..Len(heap)
    BY DEF ParserInv, HeapInv
<1>2. ASSUME NEW n \in 1..Len(heap), heap[n].child # NULL
      PROVE  heap[heap[n].child].prev = LastOf(heap[n].child)
    <2> DEFINE c == heap[n].child
               y == heap[c].prev
    <2>1. /\ u[c] = n /\ y \in 1..Len(heap) /\ u[y] = n /\ heap[y].next = NULL /\ n # 0
        BY <1>2 DEF LinksInv, Linked
    <2>2. c \in 1..Len(heap)
        <3>1. heap[n]["child"] \in 0..Len(heap)
            BY DEF OwnInv, Forest, PointsForward, Pointers
        <3> QED
            BY <1>2, <3>1 DEF NULL
    <2> HIDE DEF c, y
    <2>3. LastOf(c) = y
        BY <2>1, <2>2, LastOfList
    <2> QED
        BY <2>3 DEF y, c
<1> QED
    BY <1>1, <1>2 DEF BackLinks, LinksInv, Linked

-----------------------------------------------------------------------------
(* The items and the text they are read from *)

\* Of the text, a[n] is where what is said of the item n starts, b[n] where it ends, or 0
\* while it is being read; g[n] is how many lists n is in.
Begins(a, n) == a[n] + (IF heap[n].string = NULL THEN 0 ELSE 2)

ScalarRead(a, b, n) ==
    heap[n].type \in Scalars /\ heap[n].child = NULL /\ b[n] = Begins(a, n) + 1

\* What is in the list of n is read, one place after the other.
ListRead(u, a, b, g, n) ==
    /\ heap[n].type \in Lists /\ g[n] < NestingLimit
    /\ Begins(a, n) + 1 < b[n] /\ text[b[n] - 1] = Closer[heap[n].type]
    /\ heap[n].child = NULL => b[n] = Begins(a, n) + 2
    /\ heap[n].child # NULL => a[heap[n].child] = Begins(a, n) + 1
    /\ \A m \in 1..Len(heap) : u[m] = n =>
          /\ b[m] # 0 /\ b[m] < b[n] /\ g[m] = g[n] + 1
          /\ heap[m].next = NULL => b[m] = b[n] - 1
          /\ heap[m].string # NULL <=> heap[n].type = Brace

ItemRead(u, a, b, g, n) ==
    /\ 1 <= a[n] /\ Begins(a, n) < b[n] /\ b[n] <= offset
    /\ text[Begins(a, n)] = heap[n].type
    /\ heap[n].next # NULL => text[b[n]] = Comma /\ a[heap[n].next] = b[n] + 1
    /\ ScalarRead(a, b, n) \/ ListRead(u, a, b, g, n)

ItemsRead(u, a, b, g) == \A n \in 1..Len(heap) : b[n] # 0 => ItemRead(u, a, b, g, n)

RootRead(u, a, g) ==
    /\ root \in 1..Len(heap) /\ u[root] = 0 /\ a[root] = 1 /\ g[root] = 0
    /\ heap[root].next = NULL /\ heap[root].string = NULL

NamesRead(a) ==
    \A n \in 1..Len(heap) :
        heap[n].string # NULL => 1 <= a[n] /\ text[a[n]] = "string" /\ text[a[n] + 1] = Colon

TextsHeld(u) ==
    \A n \in 1..Len(heap) : (u[n] = 0 /\ n # root) =>
        /\ heap[n].type = "none" /\ heap[n].next = NULL /\ heap[n].child = NULL
        /\ heap[n].string = NULL

UnderItems(u) == \A n \in 1..Len(heap) : u[n] # 0 => u[n] = root \/ u[u[n]] # 0

\* What is not read yet is the last of its list.
Unread(u, b) ==
    \A n \in 1..Len(heap) : (b[n] = 0 /\ u[n] # 0) => \E i \in 1..Len(stack) : stack[i].current = n

FrameRead(a, b, g, i) ==
    LET n == stack[i].item
    IN  /\ IF i = 1 THEN n = root ELSE n = stack[i - 1].current
        /\ b[n] = 0 /\ 1 <= a[n] /\ Begins(a, n) < offset /\ text[Begins(a, n)] = stack[i].opened
        /\ g[n] = i - 1
        /\ stack[i].head # NULL => a[stack[i].head] = Begins(a, n) + 1

\* What is in a list that is read, the name of its last item excepted while it is due.
MembersRead(u, g, i) ==
    \A m \in 1..Len(heap) : u[m] = stack[i].item =>
        /\ g[m] = i
        /\ \/ heap[m].string # NULL <=> stack[i].opened = Brace
           \/ pc = "name" /\ m = Item

FramesRead(u, a, b, g) ==
    \A i \in 1..Len(stack) : FrameRead(a, b, g, i) /\ MembersRead(u, g, i)

HereRead(u, a, b) ==
    /\ pc \in {"value", "name"} => b[Item] = 0 /\ 1 <= a[Item]
    /\ pc = "value" => offset = Begins(a, Item)
    /\ pc = "name" => stack # <<>> /\ stack[Len(stack)].opened = Brace /\ offset = a[Item]
    /\ pc = "opened" => /\ stack[Len(stack)].head = NULL
                        /\ offset = Begins(a, stack[Len(stack)].item) + 1
    /\ pc = "behind" => b[Item] = offset
    /\ pc = "done" => b[root] = offset /\ stack = <<>> /\ Held(u)

Reads(u, a, b, g) ==
    /\ RootRead(u, a, g)
    /\ NamesRead(a)
    /\ TextsHeld(u)
    /\ UnderItems(u)
    /\ Unread(u, b)
    /\ ItemsRead(u, a, b, g)
    /\ FramesRead(u, a, b, g)
    /\ HereRead(u, a, b)

Numbers(f) == \A n \in Nat : f[n] \in Nat

ReadInv ==
    /\ pc = "start" => offset = 1
    /\ \E u, a, b, g :
          /\ LinksInv(u) /\ Numbers(a) /\ Numbers(b) /\ Numbers(g)
          /\ pc \in Reading \/ (pc = "done" /\ root # NULL) => Reads(u, a, b, g)

\* What the ghosts and the pointers of the items are.
Typed(u, a, b, g) ==
    /\ Len(heap) \in Nat /\ Len(stack) \in Nat
    /\ Len(text) \in Nat /\ offset \in 1..Len(text) + 1
    /\ \A n \in 1..Len(heap) :
          /\ u[n] \in Nat /\ u[n] < n /\ a[n] \in Nat /\ b[n] \in Nat /\ g[n] \in Nat
          /\ Begins(a, n) \in Nat
          /\ heap[n].next # NULL => heap[n].next \in 1..Len(heap) /\ n < heap[n].next
          /\ heap[n].next # NULL => u[n] # 0 /\ u[heap[n].next] = u[n]
          /\ heap[n].child # NULL => heap[n].child \in 1..Len(heap) /\ u[heap[n].child] = n

LEMMA ReadTypes ==
    ASSUME ParserInv, OwnInv, NEW u, NEW a, NEW b, NEW g,
           LinksInv(u), Numbers(a), Numbers(b), Numbers(g)
    PROVE  Typed(u, a, b, g)
<1> DEFINE k == Len(heap)
<1>1. k \in Nat /\ Len(stack) \in Nat /\ Len(text) \in Nat /\ offset \in 1..Len(text) + 1
    BY DEF ParserInv, HeapInv, StackInv, TextInv
<1>2. \A n \in 1..k : u[n] \in Nat /\ a[n] \in Nat /\ b[n] \in Nat /\ g[n] \in Nat
    BY <1>1 DEF LinksInv, Numbers
<1>3. \A n \in 1..k : Begins(a, n) \in Nat
    BY <1>2 DEF Begins
<1>4. \A n \in 1..k : u[n] < n /\ (heap[n].next # NULL => u[n] # 0 /\ u[heap[n].next] = u[n])
                      /\ (heap[n].child # NULL => u[heap[n].child] = n)
    BY DEF LinksInv, Linked
<1>5. \A n \in 1..k :
          /\ heap[n].next # NULL => heap[n].next \in 1..k /\ n < heap[n].next
          /\ heap[n].child # NULL => heap[n].child \in 1..k
    <2>1. \A n \in 1..k : /\ heap[n]["next"] \in 0..k /\ (heap[n]["next"] # NULL => n < heap[n]["next"])
                          /\ heap[n]["child"] \in 0..k
        BY DEF OwnInv, Forest, PointsForward, Pointers
    <2> QED
        BY <2>1 DEF NULL
<1> QED
    BY <1>1, <1>2, <1>3, <1>4, <1>5 DEF Typed

LEMMA TokenHere ==
    ASSUME TextInv
    PROVE  \A i \in Nat : TokenAt(i) # "end" => i \in 1..Len(text) /\ text[i] = TokenAt(i)
BY DEF TextInv, TokenAt

LEMMA TokenOf ==
    ASSUME TextInv, Token \in Scalars \cup Lists \cup {Comma} \/ (\E t \in Lists : Token = Closer[t])
    PROVE  offset \in 1..Len(text) /\ text[offset] = Token /\ offset \in Nat
<1>1. Token # "end"
    BY DEF Scalars, Numerals, Literals, Lists, Comma, Closer
<1> QED
    BY <1>1, TokenHere DEF TextInv, Token

\* What a step does to the items but n0, which is being read, and to the ghosts.
Keeps(u, a, b, g, v, c, d, e, n0) ==
    /\ \A m \in 1..Len(heap) : v[m] = u[m] /\ c[m] = a[m] /\ e[m] = g[m]
    /\ \A m \in 1..Len(heap) : m # n0 =>
          /\ d[m] = b[m] /\ heap'[m].type = heap[m].type
          /\ heap'[m].string = heap[m].string /\ heap'[m].child = heap[m].child
    /\ b[n0] = 0
    /\ \A m \in 1..Len(heap) :
          \/ heap'[m].next = heap[m].next
          \/ /\ heap[m].next = NULL /\ b[u[m]] = 0 /\ text[b[m]] = Comma
             /\ heap'[m].next = Len(heap) + 1 /\ c[Len(heap) + 1] = b[m] + 1
    /\ \/ Len(heap') = Len(heap)
       \/ Len(heap') = Len(heap) + 1 /\ (v[Len(heap) + 1] = 0 \/ b[v[Len(heap) + 1]] = 0)
    /\ text' = text /\ offset' \in Nat /\ offset <= offset'

\* What is read stays so.
LEMMA ItemStays ==
    ASSUME ParserInv, OwnInv, NEW u, NEW a, NEW b, NEW g,
           LinksInv(u), Numbers(a), Numbers(b), Numbers(g), ItemsRead(u, a, b, g),
           NEW v, NEW c, NEW d, NEW e, NEW n0, Keeps(u, a, b, g, v, c, d, e, n0),
           NEW n \in 1..Len(heap), b[n] # 0
    PROVE  ItemRead(v, c, d, e, n)'
<1> DEFINE k == Len(heap)
<1>0. /\ k \in Nat
      /\ \A m \in 1..k :
            /\ u[m] \in Nat /\ u[m] < m /\ a[m] \in Nat /\ b[m] \in Nat /\ g[m] \in Nat
            /\ Begins(a, m) \in Nat
            /\ heap[m].next # NULL => heap[m].next \in 1..k /\ m < heap[m].next
            /\ heap[m].next # NULL => u[m] # 0 /\ u[heap[m].next] = u[m]
            /\ heap[m].child # NULL => heap[m].child \in 1..k /\ u[heap[m].child] = m
    <2>1. Typed(u, a, b, g)
        BY ReadTypes
    <2> QED
        BY <2>1 DEF Typed
<1>o. offset \in Nat
    BY DEF ParserInv, TextInv
<1>1. /\ k \in Nat /\ offset \in Nat
      /\ \A m \in 1..k :
            /\ u[m] \in Nat /\ a[m] \in Nat /\ b[m] \in Nat /\ g[m] \in Nat /\ Begins(a, m) \in Nat
            /\ heap[m].next # NULL => heap[m].next \in 1..k
            /\ heap[m].child # NULL => heap[m].child \in 1..k
    BY <1>0, <1>o
<1>2. /\ n # n0 /\ d[n] = b[n] /\ c[n] = a[n] /\ e[n] = g[n]
      /\ heap'[n].type = heap[n].type /\ heap'[n].string = heap[n].string
      /\ heap'[n].child = heap[n].child
    BY DEF Keeps
<1>3. Begins(c, n)' = Begins(a, n)
    BY <1>2 DEF Begins
<1>4. /\ 1 <= a[n] /\ Begins(a, n) < b[n] /\ b[n] <= offset
      /\ text[Begins(a, n)] = heap[n].type
      /\ heap[n].next # NULL => text[b[n]] = Comma /\ a[heap[n].next] = b[n] + 1
      /\ ScalarRead(a, b, n) \/ ListRead(u, a, b, g, n)
    BY DEF ItemsRead, ItemRead
<1>5. b[n] <= offset' /\ text' = text
    BY <1>1, <1>4 DEF Keeps
<1>6. heap'[n].next # NULL => text[d[n]] = Comma /\ c[heap'[n].next] = d[n] + 1
    BY <1>1, <1>2, <1>4 DEF Keeps
<1>7. ScalarRead(c, d, n)' \/ ListRead(v, c, d, e, n)'
    <2>1. CASE ScalarRead(a, b, n)
        BY <1>2, <1>3, <2>1 DEF ScalarRead
    <2>2. CASE ListRead(u, a, b, g, n)
        <3>1. /\ heap[n].type \in Lists /\ g[n] < NestingLimit
              /\ Begins(a, n) + 1 < b[n] /\ text[b[n] - 1] = Closer[heap[n].type]
              /\ heap[n].child = NULL => b[n] = Begins(a, n) + 2
              /\ heap[n].child # NULL => a[heap[n].child] = Begins(a, n) + 1
            BY <2>2 DEF ListRead
        <3>2. heap'[n].child # NULL => c[heap'[n].child] = Begins(a, n) + 1
            BY <1>1, <1>2, <3>1 DEF Keeps
        <3>3. ASSUME NEW m \in 1..Len(heap'), v[m] = n
              PROVE  /\ d[m] # 0 /\ d[m] < b[n] /\ e[m] = g[n] + 1
                     /\ heap'[m].next = NULL => d[m] = b[n] - 1
                     /\ heap'[m].string # NULL <=> heap[n].type = Brace
            <4>1. m \in 1..k /\ u[m] = n
                <5>1. Len(heap') = k \/ (Len(heap') = k + 1 /\ (v[k + 1] = 0 \/ b[v[k + 1]] = 0))
                    BY DEF Keeps
                <5>2. m \in 1..k \/ (m = k + 1 /\ (v[m] = 0 \/ b[v[m]] = 0))
                    <6>1. k \in Nat
                        BY <1>0
                    <6> HIDE DEF k
                    <6>2. m \in 1..k \/ (m = k + 1 /\ Len(heap') # k)
                        BY <5>1, <6>1
                    <6> QED
                        BY <5>1, <6>2
                <5>3. \A x \in 1..k : v[x] = u[x]
                    BY DEF Keeps
                <5>4. n # 0
                    BY <1>1
                <5> QED
                    BY <3>3, <5>2, <5>3, <5>4
            <4>2. /\ b[m] # 0 /\ b[m] < b[n] /\ g[m] = g[n] + 1
                  /\ heap[m].next = NULL => b[m] = b[n] - 1
                  /\ heap[m].string # NULL <=> heap[n].type = Brace
                BY <2>2, <4>1 DEF ListRead
            <4>3. /\ d[m] = b[m] /\ e[m] = g[m] /\ heap'[m].string = heap[m].string
                  /\ heap'[m].next = heap[m].next
                BY <4>1, <4>2 DEF Keeps
            <4> QED
                BY <4>2, <4>3
        <3> QED
            BY <1>2, <1>3, <1>5, <3>1, <3>2, <3>3 DEF ListRead
    <2> QED
        BY <1>4, <2>1, <2>2
<1> QED
    BY <1>2, <1>3, <1>4, <1>5, <1>6, <1>7 DEF ItemRead

LEMMA ItemPlace ==
    ASSUME ParserInv, OwnInv, NEW u, NEW a, NEW b, NEW g, LinksInv(u), Reads(u, a, b, g),
           pc \in {"value", "name", "behind"}
    PROVE  /\ Item \in 1..Len(heap) /\ heap[Item].next = NULL
           /\ Item # root => u[Item] # 0
           /\ pc # "behind" => heap[Item].child = NULL
           /\ stack = <<>> => Item = root
           /\ stack # <<>> => /\ Len(stack) \in 1..Len(stack)
                              /\ Item = stack[Len(stack)].current
                              /\ u[Item] = stack[Len(stack)].item
           /\ g[Item] = Len(stack)
           /\ \A i \in 1..Len(stack) : stack[i].item # Item
<1>1. Len(heap) \in Nat /\ Len(stack) \in Nat
    BY FrameOrder
<1>2. pc # "behind" => heap[Item].child = NULL
    BY DEF OwnInv, ItemInv
<1>3. CASE stack = <<>>
    <2>1. Item = root /\ Len(stack) = 0
        BY <1>3, EmptySeq DEF Item
    <2>2. root \in 1..Len(heap) /\ heap[root].next = NULL /\ g[root] = 0
        BY DEF Reads, RootRead
    <2>3. 1..Len(stack) = {}
        BY <2>1
    <2> QED
        BY <1>2, <1>3, <2>1, <2>2, <2>3
<1>4. CASE stack # <<>>
    <2> DEFINE L == Len(stack)
    <2>1. L \in 1..L /\ Item = stack[L].current
        BY <1>4, Places DEF ParserInv, Item
    <2>2. stack[L].current # NULL
        BY <2>1 DEF ParserInv, PlaceInv
    <2>3. /\ stack[L].current \in 1..Len(heap) /\ heap[stack[L].current].next = NULL
          /\ stack[L].head # NULL /\ stack[L].item < stack[L].current
        <3>1. /\ stack[L].item \in 1..Len(heap) /\ stack[L].head \in 0..Len(heap)
              /\ stack[L].current \in 0..Len(heap)
              /\ stack[L].head = NULL <=> stack[L].current = NULL
              /\ stack[L].head # NULL => stack[L].item < stack[L].head
              /\ stack[L].head # NULL => stack[L].head <= stack[L].current
              /\ stack[L].current # NULL => heap[stack[L].current].next = NULL
            BY <2>1, FrameOrder
        <3> QED
            BY <1>1, <2>2, <3>1 DEF NULL
    <2>4. u[Item] = stack[L].item
        BY <2>1, <2>3 DEF LinksInv, Gathered
    <2>5. \A i \in 1..L : stack[i].item \in 1..Len(heap) /\ (i # L => stack[i].item < stack[L].item)
        <3>1. \A i \in 1..L : i # L => i < L
            BY <1>1
        <3> QED
            BY <2>1, <3>1, FrameOrder
    <2>6. \A i \in 1..L : stack[i].item # Item
        BY <1>1, <2>1, <2>3, <2>5
    <2>7. MembersRead(u, g, L)
        BY <2>1 DEF Reads, FramesRead
    <2>8. g[Item] = L
        BY <2>1, <2>3, <2>4, <2>7 DEF MembersRead
    <2>9. u[Item] # 0
        BY <2>1, <2>4, <2>5
    <2> QED
        BY <1>2, <1>4, <2>1, <2>3, <2>4, <2>6, <2>8, <2>9
<1> QED
    BY <1>3, <1>4

\* What is said of a list that is read on stays so.
LEMMA FrameStays ==
    ASSUME ParserInv, OwnInv, NEW u, NEW a, NEW b, NEW g,
           LinksInv(u), Numbers(a), Numbers(b), Numbers(g), Reads(u, a, b, g),
           NEW c, NEW d, NEW e, NEW i \in 1..Len(stack),
           \A m \in 1..Len(heap) : c[m] = a[m] /\ e[m] = g[m],
           text' = text, root' = root, offset' \in Nat, offset <= offset',
           d[stack[i].item] = 0,
           heap'[stack[i].item].string = heap[stack[i].item].string,
           stack'[i].item = stack[i].item, stack'[i].opened = stack[i].opened,
           i = 1 \/ stack'[i - 1].current = stack[i - 1].current,
           \/ stack'[i].head = stack[i].head
           \/ c[stack'[i].head] = Begins(a, stack[i].item) + 1
    PROVE  FrameRead(c, d, e, i)'
<1>n. PICK n : n = stack[i].item
    OBVIOUS
<1>1. /\ IF i = 1 THEN n = root ELSE n = stack[i - 1].current
      /\ b[n] = 0 /\ 1 <= a[n] /\ Begins(a, n) < offset /\ text[Begins(a, n)] = stack[i].opened
      /\ g[n] = i - 1
      /\ stack[i].head # NULL => a[stack[i].head] = Begins(a, n) + 1
    BY <1>n DEF Reads, FramesRead, FrameRead
<1>2. n \in 1..Len(heap) /\ stack[i].head \in 0..Len(heap)
    BY <1>n, FrameOrder
<1>3. stack[i].head # NULL => stack[i].head \in 1..Len(heap)
    BY <1>2 DEF NULL
<1>4. Begins(a, n) \in Nat /\ offset \in Nat
    <2>1. Typed(u, a, b, g)
        BY ReadTypes
    <2> QED
        BY <1>2, <2>1 DEF Typed
<1>5. /\ stack'[i].item = n /\ heap'[n].string = heap[n].string /\ d[n] = 0
      /\ c[n] = a[n] /\ e[n] = g[n]
    BY <1>2, <1>n
<1>6. Begins(c, n)' = Begins(a, n)
    BY <1>5 DEF Begins
<1>7. IF i = 1 THEN n = root' ELSE n = stack'[i - 1].current
    BY <1>1
<1>8. Begins(a, n) < offset'
    BY <1>1, <1>4
<1>9. stack'[i].head # NULL => c[stack'[i].head] = Begins(a, n) + 1
    BY <1>1, <1>3, <1>n
<1> QED
    BY <1>1, <1>5, <1>6, <1>7, <1>8, <1>9 DEF FrameRead

LEMMA FillReads ==
    ASSUME ParserInv, OwnInv, NEW u, NEW a, NEW b, NEW g,
           LinksInv(u), Numbers(a), Numbers(b), Numbers(g), Reads(u, a, b, g),
           ParseLiteral \/ ParseNumber \/ ParseString, pc' # "failed",
           NEW v, Prolongs(v, u, 0), NEW d, d[Len(heap) + 1] = 0,
           \A n \in 1..Len(heap) : d[n] = IF n = Item THEN offset + 1 ELSE b[n]
    PROVE  Reads(v, a, d, g)'
<1> DEFINE k == Len(heap)
<1>i. PICK x : x = Item
    OBVIOUS
<1>1. /\ Token \in Scalars /\ pc = "value" /\ pc' = "behind" /\ x \in 1..k
      /\ offset' = offset + 1 /\ UNCHANGED <<text, root, stack>>
      /\ Len(heap') = k \/ (Len(heap') = k + 1 /\ heap'[k + 1] = Cell)
    BY <1>i, FillSteps
<1>2. \A n \in 1..k :
          /\ heap'[n].next = heap[n].next /\ heap'[n].child = heap[n].child
          /\ heap'[n].string = heap[n].string
          /\ heap'[n].type = IF n = x THEN Token ELSE heap[n].type
    BY <1>i, FillSteps
<1>3. /\ k \in Nat /\ offset \in Nat
      /\ \A n \in 1..k : u[n] \in Nat /\ u[n] < n
    <2>1. offset \in Nat
        BY DEF ParserInv, TextInv
    <2>2. k \in Nat /\ \A n \in 1..k : u[n] \in Nat /\ u[n] < n
        <3>1. Typed(u, a, b, g)
            BY ReadTypes
        <3> QED
            BY <3>1 DEF Typed
    <2> QED
        BY <2>1, <2>2
<1>4. /\ heap[x].next = NULL /\ heap[x].child = NULL
      /\ \A i \in 1..Len(stack) : stack[i].item # x
      /\ x # root => u[x] # 0
    BY <1>1, <1>i, ItemPlace
<1>5. v[k + 1] = 0 /\ \A n \in 1..k : v[n] = u[n]
    BY DEF Prolongs
<1>6. /\ d[k + 1] = 0 /\ d[x] = offset + 1
      /\ \A n \in 1..k : n # x => d[n] = b[n]
    BY <1>1, <1>i
<1>7. b[x] = 0 /\ 1 <= a[x] /\ offset = Begins(a, x)
    BY <1>1, <1>i DEF Reads, HereRead
<1>8. /\ k + 1 \in 1..Len(heap') => /\ heap'[k + 1].type = "none" /\ heap'[k + 1].next = NULL
                                    /\ heap'[k + 1].child = NULL /\ heap'[k + 1].string = NULL
      /\ \A n \in 1..Len(heap') : n \in 1..k \/ n = k + 1
      /\ \A n \in 1..k : n \in 1..Len(heap')
    BY <1>1, <1>3 DEF Cell
<1>9. Item' = x
    BY <1>1, <1>i DEF Item, Top
<1>10. Keeps(u, a, b, g, v, a, d, g, x)
    BY <1>1, <1>2, <1>3, <1>5, <1>6, <1>7 DEF Keeps
<1>11. offset \in 1..Len(text) /\ text[offset] = Token
    BY <1>1, TokenOf DEF ParserInv
<1> HIDE DEF k
<1>12. RootRead(v, a, g)'
    BY <1>1, <1>2, <1>5, <1>8 DEF Reads, RootRead, k
<1>13. NamesRead(a)'
    BY <1>1, <1>2, <1>8 DEF Reads, NamesRead, k
<1>14. TextsHeld(v)'
    <2>1. ASSUME NEW n \in 1..k, v[n] = 0, n # root
          PROVE  /\ heap'[n].type = "none" /\ heap'[n].next = NULL /\ heap'[n].child = NULL
                 /\ heap'[n].string = NULL
        <3>1. n # x
            BY <1>4, <1>5, <2>1
        <3> QED
            BY <1>2, <1>5, <2>1, <3>1 DEF Reads, TextsHeld, k
    <2> QED
        BY <1>1, <1>8, <2>1 DEF TextsHeld
<1>15. UnderItems(v)'
    <2>1. ASSUME NEW n \in 1..k, v[n] # 0
          PROVE  v[n] = root \/ v[v[n]] # 0
        <3>1. u[n] \in 1..k
            BY <1>3, <1>5, <2>1
        <3>2. u[n] = root \/ u[u[n]] # 0
            BY <1>5, <2>1 DEF Reads, UnderItems, k
        <3> QED
            BY <1>5, <3>1, <3>2
    <2> QED
        BY <1>1, <1>5, <1>8, <2>1 DEF UnderItems
<1>16. Unread(v, d)'
    <2>1. ASSUME NEW n \in 1..k, d[n] = 0, v[n] # 0
          PROVE  \E i \in 1..Len(stack) : stack[i].current = n
        <3>1. b[n] = 0
            BY <1>3, <1>6, <2>1
        <3> QED
            BY <1>5, <2>1, <3>1 DEF Reads, Unread, k
    <2> QED
        BY <1>1, <1>5, <1>8, <2>1 DEF Unread
<1>17. ItemsRead(v, a, d, g)'
    <2>1. ASSUME NEW n \in 1..k, d[n] # 0, n # x
          PROVE  ItemRead(v, a, d, g, n)'
        <3>1. b[n] # 0
            BY <1>6, <2>1
        <3> QED
            BY <1>10, <3>1, ItemStays DEF Reads, k
    <2>2. ItemRead(v, a, d, g, x)'
        <3>1. Begins(a, x)' = offset
            BY <1>1, <1>2, <1>7 DEF Begins
        <3>2. heap'[x].type = Token /\ heap'[x].next = NULL /\ heap'[x].child = NULL
            BY <1>1, <1>2, <1>4
        <3>3. ScalarRead(a, d, x)'
            BY <1>1, <1>6, <3>1, <3>2 DEF ScalarRead
        <3> QED
            BY <1>1, <1>3, <1>6, <1>7, <1>11, <3>1, <3>2, <3>3 DEF ItemRead
    <2> QED
        BY <1>6, <1>8, <2>1, <2>2 DEF ItemsRead
<1>18. FramesRead(v, a, d, g)'
    <2>1. ASSUME NEW i \in 1..Len(stack)
          PROVE  FrameRead(a, d, g, i)' /\ MembersRead(v, g, i)'
        <3>1. stack[i].item \in 1..k /\ stack[i].item # x
            BY <1>4, FrameOrder DEF k
        <3>2. b[stack[i].item] = 0
            BY DEF Reads, FramesRead, FrameRead
        <3>3. d[stack[i].item] = 0 /\ heap'[stack[i].item].string = heap[stack[i].item].string
            BY <1>2, <1>6, <3>1, <3>2
        <3>4. FrameRead(a, d, g, i)'
            BY <1>1, <1>3, <3>3, FrameStays
        <3>5. MembersRead(u, g, i)
            BY DEF Reads, FramesRead
        <3>6. MembersRead(v, g, i)'
            <4>1. \A m \in 1..Len(heap') : v[m] = stack[i].item => m \in 1..k /\ u[m] = stack[i].item
                BY <1>5, <1>8, <3>1
            <4> QED
                BY <1>1, <1>2, <3>5, <4>1 DEF MembersRead, k
        <3> QED
            BY <3>4, <3>6
    <2> QED
        BY <1>1, <2>1 DEF FramesRead
<1>19. HereRead(v, a, d)'
    BY <1>1, <1>6, <1>9 DEF HereRead
<1> QED
    BY <1>12, <1>13, <1>14, <1>15, <1>16, <1>17, <1>18, <1>19 DEF Reads

LEMMA NameReads ==
    ASSUME ParserInv, OwnInv, NEW u, NEW a, NEW b, NEW g,
           LinksInv(u), Numbers(a), Numbers(b), Numbers(g), Reads(u, a, b, g),
           ParseName, pc' # "failed",
           NEW v, Prolongs(v, u, 0), NEW d, d[Len(heap) + 1] = 0,
           \A n \in 1..Len(heap) : d[n] = b[n]
    PROVE  Reads(v, a, d, g)'
<1> DEFINE k == Len(heap)
           L == Len(stack)
<1>i. PICK x : x = Item
    OBVIOUS
<1>1. /\ Token = "string" /\ pc = "name" /\ pc' = "value" /\ x \in 1..k
      /\ offset' = offset + 2 /\ UNCHANGED <<text, root, stack>>
      /\ TokenAt(offset + 1) = Colon
      /\ Len(heap') = k + 1 /\ heap'[k + 1] = Cell
    BY <1>i, NameSteps
<1>2. \A n \in 1..k :
          /\ heap'[n].next = heap[n].next /\ heap'[n].child = heap[n].child
          /\ n # x => heap'[n].type = heap[n].type
          /\ heap'[n].string = IF n = x THEN k + 1 ELSE heap[n].string
    BY <1>i, NameSteps
<1>3. /\ k \in Nat /\ offset \in Nat
      /\ \A n \in 1..k : u[n] \in Nat /\ u[n] < n
    <2>1. offset \in Nat
        BY DEF ParserInv, TextInv
    <2>2. k \in Nat /\ \A n \in 1..k : u[n] \in Nat /\ u[n] < n
        <3>1. Typed(u, a, b, g)
            BY ReadTypes
        <3> QED
            BY <3>1 DEF Typed
    <2> QED
        BY <2>1, <2>2
<1>4. /\ heap[x].next = NULL /\ heap[x].child = NULL
      /\ \A i \in 1..L : stack[i].item # x
      /\ x # root => u[x] # 0
      /\ stack # <<>> => L \in 1..L /\ x = stack[L].current /\ u[x] = stack[L].item
    BY <1>1, <1>i, ItemPlace
<1>5. v[k + 1] = 0 /\ \A n \in 1..k : v[n] = u[n]
    BY DEF Prolongs
<1>6. d[k + 1] = 0 /\ \A n \in 1..k : d[n] = b[n]
    OBVIOUS
<1>7. /\ b[x] = 0 /\ 1 <= a[x] /\ offset = a[x]
      /\ L \in 1..L /\ stack[L].opened = Brace
    BY <1>1, <1>4, <1>i DEF Reads, HereRead
<1>8. /\ heap'[k + 1].type = "none" /\ heap'[k + 1].next = NULL
      /\ heap'[k + 1].child = NULL /\ heap'[k + 1].string = NULL
      /\ \A n \in 1..Len(heap') : n \in 1..k \/ n = k + 1
      /\ \A n \in 1..k : n \in 1..Len(heap')
      /\ k + 1 # NULL
    BY <1>1, <1>3 DEF Cell, NULL
<1>9. Item' = x
    BY <1>1, <1>i DEF Item, Top
<1>10. Keeps(u, a, b, g, v, a, d, g, x)
    BY <1>1, <1>2, <1>3, <1>5, <1>6, <1>7, SMTT(20) DEF Keeps
<1>11. text[offset] = "string" /\ text[offset + 1] = Colon
    <2>1. Token # "end" /\ TokenAt(offset + 1) # "end"
        BY <1>1 DEF Colon
    <2> QED
        BY <1>1, <1>3, <2>1, TokenHere DEF ParserInv, Token
<1>r. x # root
    BY <1>3, <1>4, <1>7, FrameOrder DEF Reads, RootRead
<1> HIDE DEF k, L
<1>12. RootRead(v, a, g)'
    BY <1>1, <1>2, <1>5, <1>8, <1>r DEF Reads, RootRead, k
<1>13. NamesRead(a)'
    BY <1>1, <1>2, <1>7, <1>8, <1>11 DEF Reads, NamesRead, k
<1>14. TextsHeld(v)'
    <2>1. ASSUME NEW n \in 1..k, v[n] = 0, n # root
          PROVE  /\ heap'[n].type = "none" /\ heap'[n].next = NULL /\ heap'[n].child = NULL
                 /\ heap'[n].string = NULL
        <3>1. n # x
            BY <1>4, <1>5, <2>1
        <3> QED
            BY <1>2, <1>5, <2>1, <3>1 DEF Reads, TextsHeld, k
    <2> QED
        BY <1>1, <1>8, <2>1 DEF TextsHeld
<1>15. UnderItems(v)'
    <2>1. ASSUME NEW n \in 1..k, v[n] # 0
          PROVE  v[n] = root \/ v[v[n]] # 0
        <3>1. u[n] \in 1..k
            BY <1>3, <1>5, <2>1
        <3>2. u[n] = root \/ u[u[n]] # 0
            BY <1>5, <2>1 DEF Reads, UnderItems, k
        <3> QED
            BY <1>5, <3>1, <3>2
    <2> QED
        BY <1>1, <1>5, <1>8, <2>1 DEF UnderItems
<1>16. Unread(v, d)'
    BY <1>1, <1>5, <1>6, <1>8 DEF Reads, Unread, k
<1>17. ItemsRead(v, a, d, g)'
    <2>1. ASSUME NEW n \in 1..k, d[n] # 0
          PROVE  ItemRead(v, a, d, g, n)'
        <3>1. b[n] # 0
            BY <1>6, <2>1
        <3> QED
            BY <1>10, <3>1, ItemStays DEF Reads, k
    <2> QED
        BY <1>6, <1>8, <2>1 DEF ItemsRead
<1>18. FramesRead(v, a, d, g)'
    <2>1. ASSUME NEW i \in 1..L
          PROVE  FrameRead(a, d, g, i)' /\ MembersRead(v, g, i)'
        <3>1. stack[i].item \in 1..k /\ stack[i].item # x
            BY <1>4, FrameOrder DEF k, L
        <3>2. b[stack[i].item] = 0
            BY DEF Reads, FramesRead, FrameRead, L
        <3>3. d[stack[i].item] = 0 /\ heap'[stack[i].item].string = heap[stack[i].item].string
            BY <1>2, <1>6, <3>1, <3>2
        <3>4. FrameRead(a, d, g, i)'
            <4>1. i \in 1..Len(stack) /\ offset' \in Nat /\ offset <= offset'
                BY <1>1, <1>3 DEF L
            <4> QED
                BY <1>1, <3>3, <4>1, FrameStays
        <3>5. MembersRead(u, g, i)
            BY DEF Reads, FramesRead, L
        <3>6. MembersRead(v, g, i)'
            <4>1. \A m \in 1..Len(heap') : v[m] = stack[i].item => m \in 1..k /\ u[m] = stack[i].item
                BY <1>5, <1>8, <3>1
            <4>2. ASSUME NEW m \in 1..k, u[m] = stack[i].item
                  PROVE  g[m] = i /\ (heap'[m].string # NULL <=> stack[i].opened = Brace)
                <5>1. CASE m = x
                    <6>1. i = L
                        BY <1>4, <1>7, <4>2, <5>1, FrameOrder, EmptySeq DEF L
                    <6>2. g[m] = i
                        BY <3>5, <4>2 DEF MembersRead, k
                    <6> QED
                        BY <1>2, <1>7, <1>8, <5>1, <6>1, <6>2
                <5>2. CASE m # x
                    BY <1>2, <1>i, <3>5, <4>2, <5>2 DEF MembersRead, k
                <5> QED
                    BY <5>1, <5>2
            <4> QED
                BY <1>1, <4>1, <4>2 DEF MembersRead
        <3> QED
            BY <3>4, <3>6
    <2> QED
        BY <1>1, <2>1 DEF FramesRead, L
<1>19. HereRead(v, a, d)'
    <2>1. Begins(a, x)' = a[x] + 2
        BY <1>1, <1>2, <1>8 DEF Begins
    <2> QED
        BY <1>1, <1>6, <1>7, <1>9, <2>1 DEF HereRead
<1> QED
    BY <1>12, <1>13, <1>14, <1>15, <1>16, <1>17, <1>18, <1>19 DEF Reads

LEMMA OpenReads ==
    ASSUME ParserInv, OwnInv, NEW u, NEW a, NEW b, NEW g,
           LinksInv(u), Numbers(a), Numbers(b), Numbers(g), Reads(u, a, b, g), OpenList
    PROVE  Reads(u, a, b, g)'
<1> DEFINE k == Len(heap)
           L == Len(stack)
<1>i. PICK x : x = Item
    OBVIOUS
<1>1. /\ x \in 1..k /\ pc = "value" /\ pc' = "opened" /\ offset' = offset + 1
      /\ Token \in Lists /\ UNCHANGED <<text, root, heap>>
      /\ Len(stack') = L + 1 /\ \A i \in 1..L : stack'[i] = stack[i]
    BY <1>i, OpenSteps
<1>2. /\ stack'[L + 1].item = x /\ stack'[L + 1].opened = Token
      /\ stack'[L + 1].head = NULL /\ stack'[L + 1].current = NULL
    <2>1. stack'[L + 1] = [item |-> x, opened |-> Token, head |-> NULL, current |-> NULL]
        BY <1>i, OpenSteps
    <2> QED
        BY <2>1
<1>3. k \in Nat /\ L \in Nat /\ offset \in Nat
    <2>1. Typed(u, a, b, g)
        BY ReadTypes
    <2> QED
        BY <2>1 DEF Typed
<1>4. /\ heap[x].child = NULL /\ g[x] = L
      /\ \A i \in 1..L : stack[i].item # x
      /\ stack = <<>> => x = root
      /\ stack # <<>> => L \in 1..L /\ x = stack[L].current
    BY <1>1, <1>i, ItemPlace
<1>5. b[x] = 0 /\ 1 <= a[x] /\ offset = Begins(a, x)
    BY <1>1, <1>i DEF Reads, HereRead
<1>6. text[offset] = Token
    BY <1>1, TokenOf DEF ParserInv
<1>7. Keeps(u, a, b, g, u, a, b, g, x)
    BY <1>1, <1>3, <1>5 DEF Keeps
<1>8. L + 1 \in 1..Len(stack') /\ \A i \in 1..L + 1 : i \in 1..L \/ i = L + 1
    BY <1>1, <1>3
<1>9. IF L + 1 = 1 THEN x = root ELSE x = stack'[L].current
    <2>1. CASE stack = <<>>
        <3>1. L = 0
            BY <2>1, EmptySeq
        <3> QED
            BY <1>4, <2>1, <3>1
    <2>2. CASE stack # <<>>
        BY <1>1, <1>3, <1>4, <2>2
    <2> QED
        BY <2>1, <2>2
<1> HIDE DEF k, L
<1>10. RootRead(u, a, g)' /\ NamesRead(a)' /\ TextsHeld(u)' /\ UnderItems(u)'
    BY <1>1 DEF Reads, RootRead, NamesRead, TextsHeld, UnderItems
<1>11. Unread(u, b)'
    <2>1. \A i \in 1..L : i \in 1..Len(stack')
        BY <1>1, <1>3
    <2> QED
        BY <1>1, <2>1 DEF Reads, Unread, L
<1>12. ItemsRead(u, a, b, g)'
    <2>1. ASSUME NEW n \in 1..k, b[n] # 0
          PROVE  ItemRead(u, a, b, g, n)'
        BY <1>7, <2>1, ItemStays DEF Reads, k
    <2> QED
        BY <1>1, <2>1 DEF ItemsRead, k
<1>13. ASSUME NEW i \in 1..L
       PROVE  FrameRead(a, b, g, i)' /\ MembersRead(u, g, i)'
    <2>1. b[stack[i].item] = 0
        BY DEF Reads, FramesRead, FrameRead, L
    <2>2. i = 1 \/ i - 1 \in 1..L
        BY <1>3
    <2>3. stack'[i] = stack[i] /\ (i = 1 \/ stack'[i - 1].current = stack[i - 1].current)
        BY <1>1, <2>2
    <2>4. FrameRead(a, b, g, i)'
        BY <1>1, <1>3, <2>1, <2>3, FrameStays DEF L
    <2>5. MembersRead(u, g, i)
        BY DEF Reads, FramesRead, L
    <2> QED
        BY <1>1, <2>3, <2>4, <2>5 DEF MembersRead
<1>14. ASSUME NEW i, i = L + 1
       PROVE  FrameRead(a, b, g, i)' /\ MembersRead(u, g, i)'
    <2>1. Begins(a, x)' = offset
        BY <1>1, <1>5 DEF Begins
    <2>2. FrameRead(a, b, g, i)'
        <3>1. i - 1 = L /\ offset < offset'
            BY <1>1, <1>3, <1>14
        <3> QED
            BY <1>1, <1>2, <1>4, <1>5, <1>6, <1>9, <1>14, <2>1, <3>1 DEF FrameRead
    <2>3. \A m \in 1..k : u[m] # x
        <3> SUFFICES ASSUME NEW m \in 1..k, u[m] = x
                     PROVE  FALSE
            OBVIOUS
        <3>1. u[m] # 0
            BY <1>1, <1>3
        <3>2. Held(u)
            BY <1>1 DEF LinksInv, Reading
        <3> QED
            BY <1>4, <3>1, <3>2 DEF Held, k, L
    <2>4. MembersRead(u, g, i)'
        BY <1>1, <1>2, <1>14, <2>3 DEF MembersRead, k
    <2> QED
        BY <2>2, <2>4
<1>15. FramesRead(u, a, b, g)'
    BY <1>1, <1>8, <1>13, <1>14 DEF FramesRead
<1>16. HereRead(u, a, b)'
    <2>1. Begins(a, x)' = offset
        BY <1>1, <1>5 DEF Begins
    <2> QED
        BY <1>1, <1>2, <2>1 DEF HereRead
<1> QED
    BY <1>10, <1>11, <1>12, <1>15, <1>16 DEF Reads

LEMMA AddReads ==
    ASSUME ParserInv, OwnInv, NEW u, NEW a, NEW b, NEW g,
           LinksInv(u), Numbers(a), Numbers(b), Numbers(g), Reads(u, a, b, g),
           AddItem, pc' # "failed",
           NEW v, Prolongs(v, u, stack[Len(stack)].item),
           NEW c, Prolongs(c, a, offset'), NEW d, Prolongs(d, b, 0),
           NEW e, Prolongs(e, g, Len(stack))
    PROVE  Reads(v, c, d, e)'
<1> DEFINE k == Len(heap)
           L == Len(stack)
<1>f. PICK x, y, h : x = stack[L].item /\ y = stack[L].current /\ h = stack[L].head
    OBVIOUS
<1>1. /\ pc = "opened" \/ (pc = "behind" /\ Token = Comma)
      /\ offset' = IF pc = "opened" THEN offset ELSE offset + 1
      /\ pc' = IF stack[L].opened = Brace THEN "name" ELSE "value"
      /\ UNCHANGED <<text, root>> /\ L \in 1..L /\ stack' # <<>>
      /\ Len(stack') = L /\ \A i \in 1..L : i # L => stack'[i] = stack[i]
      /\ stack'[L].item = x /\ stack'[L].opened = stack[L].opened
      /\ stack'[L].current = k + 1
      /\ stack'[L].head = IF h = NULL THEN k + 1 ELSE h
      /\ Item' = k + 1
      /\ Len(heap') = k + 1
      /\ heap'[k + 1].next = NULL /\ heap'[k + 1].child = NULL /\ heap'[k + 1].string = NULL
    BY <1>f, AddSteps
<1>2. \A n \in 1..k :
          /\ heap'[n].next = IF n = y THEN k + 1 ELSE heap[n].next
          /\ heap'[n].child = heap[n].child
          /\ heap'[n].string = heap[n].string /\ heap'[n].type = heap[n].type
    BY <1>f, AddSteps
<1>3. /\ k \in Nat /\ L \in Nat /\ offset \in Nat
      /\ \A n \in 1..k : u[n] \in Nat /\ u[n] < n
    <2>1. offset \in Nat
        BY DEF ParserInv, TextInv
    <2>2. k \in Nat /\ L \in Nat /\ \A n \in 1..k : u[n] \in Nat /\ u[n] < n
        <3>1. Typed(u, a, b, g)
            BY ReadTypes
        <3> QED
            BY <3>1 DEF Typed
    <2> QED
        BY <2>1, <2>2
<1>4. /\ x \in 1..k /\ y \in 0..k /\ h \in 0..k
      /\ h = NULL <=> y = NULL
      /\ y # NULL => heap[y].next = NULL
    BY <1>1, <1>f, FrameOrder
<1>5. /\ v[k + 1] = x /\ c[k + 1] = offset' /\ d[k + 1] = 0 /\ e[k + 1] = L
      /\ \A n \in 1..k : v[n] = u[n] /\ c[n] = a[n] /\ d[n] = b[n] /\ e[n] = g[n]
    BY <1>f DEF Prolongs
<1>6. FrameRead(a, b, g, L) /\ MembersRead(u, g, L)
    BY <1>1 DEF Reads, FramesRead
<1>7. /\ IF L = 1 THEN x = root ELSE x = stack[L - 1].current
      /\ b[x] = 0 /\ 1 <= a[x] /\ Begins(a, x) < offset /\ text[Begins(a, x)] = stack[L].opened
      /\ g[x] = L - 1 /\ (h # NULL => a[h] = Begins(a, x) + 1)
    BY <1>6, <1>f DEF FrameRead
<1>8. /\ \A n \in 1..Len(heap') : n \in 1..k \/ n = k + 1
      /\ \A n \in 1..k : n \in 1..Len(heap')
      /\ k + 1 # NULL
    BY <1>1, <1>3 DEF NULL
<1>9. y # NULL => y \in 1..k /\ u[y] = x /\ y # root
    <2> SUFFICES ASSUME y # NULL
                 PROVE  y \in 1..k /\ u[y] = x /\ y # root
        OBVIOUS
    <2>1. y \in 1..k
        BY <1>4 DEF NULL
    <2>2. u[y] = x
        BY <1>1, <1>4, <1>f DEF LinksInv, Gathered
    <2>3. u[root] = 0
        BY DEF Reads, RootRead
    <2> QED
        BY <1>4, <2>1, <2>2, <2>3
<1>10. y # NULL => /\ b[y] = offset /\ text[offset] = Comma /\ offset' = offset + 1
    <2> SUFFICES ASSUME y # NULL
                 PROVE  b[y] = offset /\ text[offset] = Comma /\ offset' = offset + 1
        OBVIOUS
    <2>1. pc # "opened"
        BY <1>4, <1>f DEF Reads, HereRead
    <2>2. pc = "behind" /\ Token = Comma
        BY <1>1, <2>1
    <2>3. Item = y
        BY <1>1, <1>f, <2>2, ItemPlace, EmptySeq
    <2>4. b[y] = offset
        BY <2>2, <2>3 DEF Reads, HereRead
    <2>5. text[offset] = Comma
        BY <2>2, TokenOf DEF ParserInv
    <2> QED
        BY <1>1, <2>1, <2>4, <2>5
<1>11. y = NULL => pc = "opened" /\ offset' = Begins(a, x) + 1
    <2>1. y = NULL => pc = "opened"
        BY <1>1, <1>f DEF ParserInv, PlaceInv
    <2> QED
        BY <1>1, <1>f, <2>1 DEF Reads, HereRead
<1>12. Keeps(u, a, b, g, v, c, d, e, x)
    <2>1. offset' \in Nat /\ offset <= offset'
        BY <1>1, <1>3
    <2>2. ASSUME NEW m \in 1..k
          PROVE  \/ heap'[m].next = heap[m].next
                 \/ /\ heap[m].next = NULL /\ b[u[m]] = 0 /\ text[b[m]] = Comma
                    /\ heap'[m].next = k + 1 /\ c[k + 1] = b[m] + 1
        <3>1. CASE m = y
            <4>1. y # NULL
                BY <3>1 DEF NULL
            <4> QED
                BY <1>2, <1>4, <1>5, <1>7, <1>9, <1>10, <3>1, <4>1
        <3>2. CASE m # y
            BY <1>2, <3>2
        <3> QED
            BY <3>1, <3>2
    <2> QED
        BY <1>1, <1>2, <1>5, <1>7, <2>1, <2>2 DEF Keeps
<1> HIDE DEF k, L
<1>13. RootRead(v, c, e)'
    <2>1. root # y
        BY <1>4, <1>9 DEF Reads, RootRead, k, NULL
    <2> QED
        BY <1>1, <1>2, <1>5, <1>8, <2>1 DEF Reads, RootRead, k
<1>14. NamesRead(c)'
    BY <1>1, <1>2, <1>5, <1>8 DEF Reads, NamesRead, k
<1>15. TextsHeld(v)'
    <2>1. ASSUME NEW n \in 1..k, v[n] = 0, n # root
          PROVE  /\ heap'[n].type = "none" /\ heap'[n].next = NULL /\ heap'[n].child = NULL
                 /\ heap'[n].string = NULL
        <3>1. n # y
            BY <1>4, <1>5, <1>9, <2>1 DEF NULL
        <3> QED
            BY <1>2, <1>5, <2>1, <3>1 DEF Reads, TextsHeld, k
    <2>2. v[k + 1] # 0
        BY <1>4, <1>5
    <2> QED
        BY <1>1, <1>8, <2>1, <2>2 DEF TextsHeld
<1>16. UnderItems(v)'
    <2>1. ASSUME NEW n \in 1..k, v[n] # 0
          PROVE  v[n] = root \/ v[v[n]] # 0
        <3>1. u[n] \in 1..k
            BY <1>3, <1>5, <2>1
        <3>2. u[n] = root \/ u[u[n]] # 0
            BY <1>5, <2>1 DEF Reads, UnderItems, k
        <3> QED
            BY <1>5, <3>1, <3>2
    <2>2. x = root \/ u[x] # 0
        <3>1. CASE L = 1
            BY <1>7, <3>1
        <3>2. CASE L # 1
            <4>1. /\ L - 1 \in 1..L /\ L - 1 < L
                BY <1>1, <1>3, <3>2
            <4>2. /\ stack[L - 1].head # NULL /\ stack[L - 1].item \in 1..k
                BY <1>1, <4>1, FrameOrder DEF L, k
            <4>3. u[x] = stack[L - 1].item
                BY <1>7, <3>2, <4>1, <4>2 DEF LinksInv, Gathered, L
            <4> QED
                BY <1>3, <4>2, <4>3
        <3> QED
            BY <3>1, <3>2
    <2> QED
        BY <1>1, <1>4, <1>5, <1>8, <2>1, <2>2 DEF UnderItems
<1>17. Unread(v, d)'
    <2>1. ASSUME NEW n \in 1..k, d[n] = 0, v[n] # 0
          PROVE  \E i \in 1..L : stack'[i].current = n
        <3>1. PICK i \in 1..L : stack[i].current = n
            BY <1>5, <2>1 DEF Reads, Unread, k, L
        <3>2. i # L
            <4> SUFFICES ASSUME i = L
                         PROVE  FALSE
                OBVIOUS
            <4>1. n = y /\ y # NULL
                BY <1>f, <3>1 DEF NULL, L
            <4>2. b[n] = offset
                BY <1>10, <4>1
            <4>3. offset # 0
                BY DEF ParserInv, TextInv
            <4> QED
                BY <1>5, <2>1, <4>2, <4>3
        <3> QED
            BY <1>1, <3>1, <3>2
    <2> QED
        BY <1>1, <1>8, <2>1 DEF Unread
<1>18. ItemsRead(v, c, d, e)'
    <2>1. ASSUME NEW n \in 1..k, d[n] # 0
          PROVE  ItemRead(v, c, d, e, n)'
        <3>1. b[n] # 0
            BY <1>5, <2>1
        <3> QED
            BY <1>12, <3>1, ItemStays DEF Reads, k
    <2> QED
        BY <1>5, <1>8, <2>1 DEF ItemsRead
<1>19. ASSUME NEW i \in 1..L
       PROVE  FrameRead(c, d, e, i)' /\ MembersRead(v, e, i)'
    <2>1. stack[i].item \in 1..k
        BY FrameOrder DEF k, L
    <2>2. b[stack[i].item] = 0
        BY DEF Reads, FramesRead, FrameRead, L
    <2>3. i = 1 \/ (i - 1 \in 1..L /\ i - 1 # L)
        BY <1>3
    <2>4. /\ stack'[i].item = stack[i].item /\ stack'[i].opened = stack[i].opened
          /\ (i = 1 \/ stack'[i - 1].current = stack[i - 1].current)
        BY <1>1, <1>f, <2>3 DEF L
    <2>5. \/ stack'[i].head = stack[i].head
          \/ c[stack'[i].head] = Begins(a, stack[i].item) + 1
        <3>1. CASE i # L
            BY <1>1, <3>1
        <3>2. CASE i = L /\ h # NULL
            BY <1>1, <1>f, <3>2 DEF L
        <3>3. CASE i = L /\ h = NULL
            BY <1>1, <1>4, <1>5, <1>11, <1>f, <3>3 DEF L
        <3> QED
            BY <3>1, <3>2, <3>3
    <2>6. offset' \in Nat /\ offset <= offset'
        BY <1>1, <1>3
    <2>7. FrameRead(c, d, e, i)'
        BY <1>1, <1>2, <1>5, <2>1, <2>2, <2>4, <2>5, <2>6, FrameStays, SMTT(20) DEF L, k
    <2>8. MembersRead(u, g, i)
        BY DEF Reads, FramesRead, L
    <2>9. MembersRead(v, e, i)'
        <3>1. ASSUME NEW m \in 1..k, u[m] = stack[i].item
              PROVE  e[m] = i /\ (heap'[m].string # NULL <=> stack[i].opened = Brace)
            BY <1>1, <1>2, <1>5, <2>8, <3>1 DEF MembersRead, k
        <3>2. ASSUME v[k + 1] = stack[i].item
              PROVE  /\ e[k + 1] = i
                     /\ \/ heap'[k + 1].string # NULL <=> stack[i].opened = Brace
                        \/ pc' = "name" /\ k + 1 = Item'
            <4>1. i = L
                BY <1>1, <1>5, <1>f, <3>2, FrameOrder DEF L
            <4> QED
                BY <1>1, <1>5, <4>1
        <3> QED
            BY <1>5, <1>8, <2>4, <3>1, <3>2 DEF MembersRead
    <2> QED
        BY <2>7, <2>9
<1>20. FramesRead(v, c, d, e)'
    BY <1>1, <1>19 DEF FramesRead
<1>21. HereRead(v, c, d)'
    <2>1. PICK z : z = k + 1
        OBVIOUS
    <2>2. /\ Item' = z /\ heap'[z].string = NULL /\ c[z] = offset' /\ d[z] = 0
          /\ stack' # <<>> /\ stack'[Len(stack')].opened = stack[L].opened
          /\ pc' = IF stack[L].opened = Brace THEN "name" ELSE "value"
        BY <1>1, <1>5, <2>1
    <2>3. Begins(c, z)' = offset'
        <3>1. c[z] + 0 = offset'
            BY <1>1, <1>3, <2>2
        <3> QED
            BY <2>2, <3>1 DEF Begins
    <2>4. 1 <= offset'
        BY <1>1, <1>3 DEF ParserInv, TextInv
    <2> QED
        BY <2>2, <2>3, <2>4 DEF HereRead
<1> QED
    BY <1>13, <1>14, <1>15, <1>16, <1>17, <1>18, <1>20, <1>21 DEF Reads

LEMMA CloseReads ==
    ASSUME ParserInv, OwnInv, NEW u, NEW a, NEW b, NEW g,
           LinksInv(u), Numbers(a), Numbers(b), Numbers(g), Reads(u, a, b, g), CloseList,
           NEW d, \A n \in 1..Len(heap) :
                      d[n] = IF n = stack[Len(stack)].item THEN offset + 1 ELSE b[n]
    PROVE  Reads(u, a, d, g)'
<1> DEFINE k == Len(heap)
           L == Len(stack)
<1>f. PICK x, y, h : x = stack[L].item /\ y = stack[L].current /\ h = stack[L].head
    OBVIOUS
<1>1. /\ pc \in {"opened", "behind"} /\ pc' = "behind" /\ offset' = offset + 1
      /\ UNCHANGED <<text, root>> /\ L \in 1..L /\ Token = Closer[stack[L].opened]
      /\ Len(stack') = L - 1 /\ x # h /\ Len(heap') = k
      /\ \A i \in 1..L - 1 : i \in 1..L /\ i < L /\ stack'[i] = stack[i]
    BY <1>f, CloseSteps
<1>2. \A n \in 1..k :
          /\ heap'[n].next = heap[n].next /\ heap'[n].string = heap[n].string
          /\ heap'[n].child = IF n = x THEN h ELSE heap[n].child
          /\ heap'[n].type = IF n = x THEN stack[L].opened ELSE heap[n].type
    BY <1>f, CloseSteps
<1>3. /\ k \in Nat /\ L \in Nat /\ offset \in Nat
      /\ \A n \in 1..k : u[n] \in Nat /\ u[n] < n /\ b[n] \in Nat
    <2>1. offset \in Nat
        BY DEF ParserInv, TextInv
    <2>2. k \in Nat /\ L \in Nat /\ \A n \in 1..k : u[n] \in Nat /\ u[n] < n /\ b[n] \in Nat
        <3>1. Typed(u, a, b, g)
            BY ReadTypes
        <3> QED
            BY <3>1 DEF Typed
    <2> QED
        BY <2>1, <2>2
<1>4. /\ x \in 1..k /\ y \in 0..k /\ h \in 0..k
      /\ h = NULL <=> y = NULL
      /\ y # NULL => heap[y].next = NULL
      /\ \A i \in 1..L : stack[i].item = x => i = L
    BY <1>1, <1>f, FrameOrder
<1>5. d[x] = offset + 1 /\ \A n \in 1..k : n # x => d[n] = b[n]
    BY <1>4, <1>f
<1>6. FrameRead(a, b, g, L) /\ MembersRead(u, g, L)
    BY <1>1 DEF Reads, FramesRead
<1>7. /\ IF L = 1 THEN x = root ELSE x = stack[L - 1].current
      /\ b[x] = 0 /\ 1 <= a[x] /\ Begins(a, x) < offset /\ text[Begins(a, x)] = stack[L].opened
      /\ g[x] = L - 1 /\ (h # NULL => a[h] = Begins(a, x) + 1)
    BY <1>6, <1>f DEF FrameRead
<1>8. y # NULL => y \in 1..k /\ u[y] = x /\ b[y] = offset
    <2> SUFFICES ASSUME y # NULL
                 PROVE  y \in 1..k /\ u[y] = x /\ b[y] = offset
        OBVIOUS
    <2>1. y \in 1..k
        BY <1>4 DEF NULL
    <2>2. u[y] = x
        BY <1>1, <1>4, <1>f DEF LinksInv, Gathered
    <2>3. pc = "behind"
        BY <1>1, <1>4, <1>f DEF Reads, HereRead
    <2>4. Item = y
        BY <1>1, <1>f, <2>3, ItemPlace, EmptySeq
    <2> QED
        BY <2>1, <2>2, <2>3, <2>4 DEF Reads, HereRead
<1>9. y = NULL => offset = Begins(a, x) + 1
    <2>1. y = NULL => pc = "opened"
        BY <1>1, <1>f DEF ParserInv, PlaceInv
    <2> QED
        BY <1>f, <2>1 DEF Reads, HereRead
<1>10. \A m \in 1..k : u[m] = x => b[m] # 0 /\ (heap[m].next = NULL => m = y)
    <2> SUFFICES ASSUME NEW m \in 1..k, u[m] = x
                 PROVE  b[m] # 0 /\ (heap[m].next = NULL => m = y)
        OBVIOUS
    <2>1. x # 0
        BY <1>4
    <2>2. y # NULL
        <3>1. Held(u)
            BY <1>1 DEF LinksInv, Reading
        <3>2. heap[x].child = NULL
            BY <1>1, <1>f, FrameOrder
        <3>3. PICK i \in 1..L : stack[i].item = x /\ stack[i].head # NULL
            BY <2>1, <3>1, <3>2 DEF Held
        <3> QED
            BY <1>4, <1>f, <3>3
    <2>3. b[m] # 0
        <3> SUFFICES ASSUME b[m] = 0
                     PROVE  FALSE
            OBVIOUS
        <3>1. PICK i \in 1..L : stack[i].current = m
            BY <2>1 DEF Reads, Unread
        <3>2. stack[i].current # NULL
            BY <3>1 DEF NULL
        <3>3. stack[i].head # NULL
            BY <3>2, FrameOrder
        <3>4. stack[i].item = x
            BY <3>1, <3>3 DEF LinksInv, Gathered
        <3>5. m = y
            BY <1>4, <1>f, <3>1, <3>4
        <3>6. offset # 0
            BY DEF ParserInv, TextInv
        <3> QED
            BY <1>8, <2>2, <3>5, <3>6
    <2>4. heap[m].next = NULL => m = y
        BY <1>4, <1>8, <2>1, <2>2 DEF LinksInv, Linked
    <2> QED
        BY <2>3, <2>4
<1>11. Keeps(u, a, b, g, u, a, d, g, x)
    BY <1>1, <1>2, <1>3, <1>5, <1>7 DEF Keeps
<1>12. stack[L].opened \in Lists /\ L <= NestingLimit
    <2>1. stack[L] \in FramesUpTo(k)
        BY <1>1, FrameTypes DEF ParserInv, StackInv
    <2> QED
        BY <2>1 DEF FramesUpTo, Lists, ParserInv, StackInv
<1>13. text[offset] = Closer[stack[L].opened] /\ offset \in 1..Len(text)
    BY <1>1, <1>12, TokenOf DEF ParserInv
<1>14. heap[x].next = NULL
    <2>1. CASE L = 1
        BY <1>7, <2>1 DEF Reads, RootRead
    <2>2. CASE L # 1
        <3>1. L - 1 \in 1..L /\ L - 1 < L
            BY <1>1, <1>3, <2>2
        <3> QED
            BY <1>1, <1>7, <2>2, <3>1, FrameOrder
    <2> QED
        BY <2>1, <2>2
<1> HIDE DEF k, L
<1>15. RootRead(u, a, g)' /\ NamesRead(a)' /\ UnderItems(u)'
    BY <1>1, <1>2 DEF Reads, RootRead, NamesRead, UnderItems, k
<1>16. TextsHeld(u)'
    <2>1. x = root \/ u[x] # 0
        <3>1. CASE L = 1
            BY <1>7, <3>1
        <3>2. CASE L # 1
            <4>1. L - 1 \in 1..L /\ L - 1 < L
                BY <1>1, <1>3, <3>2
            <4>2. /\ stack[L - 1].head # NULL /\ stack[L - 1].item \in 1..k
                BY <1>1, <4>1, FrameOrder DEF L, k
            <4>3. u[x] = stack[L - 1].item
                BY <1>7, <3>2, <4>1, <4>2 DEF LinksInv, Gathered, L
            <4> QED
                BY <1>3, <4>2, <4>3
        <3> QED
            BY <3>1, <3>2
    <2>2. ASSUME NEW n \in 1..k, u[n] = 0, n # root
          PROVE  /\ heap'[n].type = "none" /\ heap'[n].next = NULL /\ heap'[n].child = NULL
                 /\ heap'[n].string = NULL
        <3>1. n # x
            BY <2>1, <2>2
        <3> QED
            BY <1>2, <2>2, <3>1 DEF Reads, TextsHeld, k
    <2> QED
        BY <1>1, <2>2 DEF TextsHeld
<1>17. Unread(u, d)'
    <2>1. ASSUME NEW n \in 1..k, d[n] = 0, u[n] # 0
          PROVE  \E i \in 1..L - 1 : stack'[i].current = n
        <3>0. n # x /\ b[n] = 0
            <4>1. offset + 1 # 0
                BY <1>3
            <4> QED
                BY <1>5, <2>1, <4>1
        <3>1. PICK i \in 1..L : stack[i].current = n
            BY <2>1, <3>0 DEF Reads, Unread, k, L
        <3>2. i # L
            <4> SUFFICES ASSUME i = L
                         PROVE  FALSE
                OBVIOUS
            <4>1. n = y /\ y # NULL
                BY <1>f, <3>1 DEF NULL, L
            <4>2. b[n] = offset
                BY <1>8, <4>1
            <4>3. offset # 0
                BY DEF ParserInv, TextInv
            <4> QED
                BY <3>0, <4>2, <4>3
        <3>3. i \in 1..L - 1
            BY <1>3, <3>2
        <3> QED
            BY <1>1, <3>1, <3>3
    <2> QED
        BY <1>1, <2>1 DEF Unread
<1>18. ItemsRead(u, a, d, g)'
    <2>1. ASSUME NEW n \in 1..k, d[n] # 0, n # x
          PROVE  ItemRead(u, a, d, g, n)'
        <3>1. b[n] # 0
            BY <1>5, <2>1
        <3> QED
            BY <1>11, <3>1, ItemStays DEF Reads, k
    <2>2. ItemRead(u, a, d, g, x)'
        <3>1. Begins(a, x)' = Begins(a, x)
            BY <1>2, <1>4 DEF Begins
        <3>2. /\ heap'[x].type = stack[L].opened /\ heap'[x].next = NULL
              /\ heap'[x].child = h
            BY <1>2, <1>4, <1>14
        <3>n. Begins(a, x) \in Nat
            <4>1. Typed(u, a, b, g)
                BY ReadTypes
            <4> QED
                BY <1>4, <4>1 DEF k, Typed
        <3>3. ASSUME NEW m \in 1..k, u[m] = x
              PROVE  /\ d[m] # 0 /\ d[m] < d[x] /\ g[m] = g[x] + 1
                     /\ heap'[m].next = NULL => d[m] = d[x] - 1
                     /\ heap'[m].string # NULL <=> stack[L].opened = Brace
            <4>1. m # x
                BY <1>3, <3>3
            <4>2. d[m] = b[m] /\ b[m] # 0 /\ (heap[m].next = NULL => b[m] = offset)
                <5>1. m = y => y # NULL
                    BY DEF NULL
                <5> QED
                    BY <1>5, <1>8, <1>10, <3>3, <4>1, <5>1
            <4>3. b[m] <= offset
                BY <4>2 DEF Reads, ItemsRead, ItemRead, k
            <4>4. g[m] = L /\ (heap[m].string # NULL <=> stack[L].opened = Brace)
                BY <1>1, <1>6, <1>f, <3>3 DEF MembersRead, k
            <4> QED
                BY <1>2, <1>3, <1>5, <1>7, <4>2, <4>3, <4>4
        <3>4. ListRead(u, a, d, g, x)'
            <4>1. g[x] < NestingLimit
                BY <1>3, <1>7, <1>12, CjsonAssumption
            <4>2. d[x] - 1 = offset /\ Begins(a, x) + 1 < d[x]
                BY <1>3, <1>5, <1>7, <3>n
            <4>3. h = NULL => d[x] = Begins(a, x) + 2
                BY <1>3, <1>4, <1>5, <1>9, <3>n
            <4> QED
                BY <1>1, <1>7, <1>12, <1>13, <3>1, <3>2, <3>3, <4>1, <4>2, <4>3 DEF ListRead
        <3>5. Begins(a, x) < d[x] /\ d[x] <= offset'
            BY <1>1, <1>3, <1>5, <1>7, <3>n
        <3> QED
            BY <1>1, <1>7, <3>1, <3>2, <3>4, <3>5 DEF ItemRead
    <2> QED
        BY <1>1, <2>1, <2>2 DEF ItemsRead
<1>19. ASSUME NEW i \in 1..L - 1
       PROVE  FrameRead(a, d, g, i)' /\ MembersRead(u, g, i)'
    <2>0. i \in 1..L /\ i # L
        BY <1>1, <1>3
    <2>1. stack[i].item \in 1..k /\ stack[i].item # x
        BY <1>4, <2>0, FrameOrder DEF k, L
    <2>2. b[stack[i].item] = 0
        BY <2>0 DEF Reads, FramesRead, FrameRead, L
    <2>3. i = 1 \/ i - 1 \in 1..L - 1
        BY <1>3, <2>0
    <2>4. stack'[i] = stack[i] /\ (i = 1 \/ stack'[i - 1].current = stack[i - 1].current)
        BY <1>1, <2>3
    <2>5. d[stack[i].item] = 0 /\ heap'[stack[i].item].string = heap[stack[i].item].string
        BY <1>2, <1>5, <2>1, <2>2
    <2>6. offset' \in Nat /\ offset <= offset'
        BY <1>1, <1>3
    <2>7. FrameRead(a, d, g, i)'
        BY <1>1, <2>0, <2>4, <2>5, <2>6, FrameStays DEF L
    <2>8. MembersRead(u, g, i)
        BY <2>0 DEF Reads, FramesRead, L
    <2> QED
        BY <1>1, <1>2, <2>4, <2>7, <2>8 DEF MembersRead, k
<1>20. FramesRead(u, a, d, g)'
    BY <1>1, <1>19 DEF FramesRead
<1>21. HereRead(u, a, d)'
    <2>1. Item' = x
        <3>1. CASE L = 1
            <4>1. stack' = <<>>
                BY <1>1, <3>1, EmptySeq, ParserInvNext DEF ParserInv, StackInv, Next
            <4> QED
                BY <1>1, <1>7, <3>1, <4>1 DEF Item
        <3>2. CASE L # 1
            <4>1. L - 1 \in 1..L - 1 /\ L - 1 # 0
                BY <1>1, <1>3, <3>2
            <4>2. stack'[Len(stack')].current = x /\ stack' # <<>>
                <5>1. Len(stack') # 0
                    BY <1>1, <4>1
                <5> QED
                    BY <1>1, <1>7, <3>2, <4>1, <5>1, EmptySeq
            <4> QED
                BY <4>2 DEF Item, Top, Last
        <3> QED
            BY <3>1, <3>2
    <2> QED
        BY <1>1, <1>5, <2>1 DEF HereRead
<1> QED
    BY <1>15, <1>16, <1>17, <1>18, <1>20, <1>21 DEF Reads

LEMMA StartReads ==
    ASSUME ParserInv, heap' = <<Cell>>, root' = New, Start, UNCHANGED <<text, offset, stack>>,
           offset = 1, pc' = "value", NEW v, v[1] = 0, NEW c, c[1] = 1, NEW d, d[1] = 0, NEW e, e[1] = 0
    PROVE  Reads(v, c, d, e)'
<1>1. Len(<<>>) = 0 /\ heap = <<>> /\ stack = <<>>
    BY EmptySeq DEF Start, ParserInv, PlaceInv
<1>2. /\ root' = 1 /\ Len(heap') = 1 /\ stack' = <<>> /\ Item' = 1
      /\ heap'[1].next = NULL /\ heap'[1].child = NULL /\ heap'[1].string = NULL
    BY <1>1 DEF New, Cell, Item
<1>3. 1..Len(heap') = {1} /\ 1..Len(stack') = {}
    BY <1>1, <1>2
<1>4. RootRead(v, c, e)' /\ NamesRead(c)' /\ TextsHeld(v)' /\ UnderItems(v)' /\ Unread(v, d)'
    BY <1>2, <1>3 DEF RootRead, NamesRead, TextsHeld, UnderItems, Unread
<1>5. ItemsRead(v, c, d, e)' /\ FramesRead(v, c, d, e)'
    BY <1>2, <1>3 DEF ItemsRead, FramesRead
<1>6. HereRead(v, c, d)'
    <2>1. Begins(c, 1)' = 1
        BY <1>2 DEF Begins
    <2> QED
        BY <1>1, <1>2, <2>1 DEF HereRead
<1> QED
    BY <1>4, <1>5, <1>6 DEF Reads

LEMMA AcceptReads ==
    ASSUME ParserInv, OwnInv, NEW u, NEW a, NEW b, NEW g, LinksInv(u), Reads(u, a, b, g), Accept
    PROVE  Reads(u, a, b, g)'
<1>1. /\ pc = "behind" /\ stack = <<>> /\ pc' = "done"
      /\ UNCHANGED <<text, offset, heap, root, stack>>
    BY DEF Accept
<1>2. /\ RootRead(u, a, g)' /\ NamesRead(a)' /\ TextsHeld(u)' /\ UnderItems(u)' /\ Unread(u, b)'
    BY <1>1 DEF Reads, RootRead, NamesRead, TextsHeld, UnderItems, Unread
<1>3. ItemsRead(u, a, b, g)'
    BY <1>1 DEF Reads, ItemsRead, ItemRead, ScalarRead, ListRead, Begins
<1>4. 1..Len(stack) = {}
    BY <1>1, EmptySeq
<1>5. FramesRead(u, a, b, g)'
    BY <1>1, <1>4 DEF FramesRead
<1>6. HereRead(u, a, b)'
    <2>1. Held(u)'
        BY <1>1 DEF LinksInv, Reading, Held
    <2> QED
        BY <1>1, <2>1 DEF Reads, HereRead, Item
<1> QED
    BY <1>2, <1>3, <1>5, <1>6 DEF Reads

LEMMA Extended ==
    ASSUME NEW f, Numbers(f), Len(heap) \in Nat, NEW x \in Nat
    PROVE  \E v : Numbers(v) /\ Prolongs(v, f, x)
<1> DEFINE v == [n \in Nat |-> IF n = Len(heap) + 1 THEN x ELSE f[n]]
<1>1. v[Len(heap) + 1] = x
    OBVIOUS
<1>2. \A n \in 1..Len(heap) : v[n] = f[n]
    OBVIOUS
<1>3. Numbers(v)
    BY DEF Numbers
<1> HIDE DEF v
<1> QED
    BY <1>1, <1>2, <1>3 DEF Prolongs

\* d is b with the place y for the item x that ends here.
Ends(d, b, x, y) ==
    d[Len(heap) + 1] = 0 /\ \A n \in 1..Len(heap) : d[n] = IF n = x THEN y ELSE b[n]

LEMMA Ended ==
    ASSUME NEW b, Numbers(b), Len(heap) \in Nat, NEW x \in 1..Len(heap), NEW y \in Nat
    PROVE  \E d : Numbers(d) /\ Ends(d, b, x, y)
<1> DEFINE d == [n \in Nat |-> IF n = x THEN y ELSE IF n = Len(heap) + 1 THEN 0 ELSE b[n]]
<1>1. d[Len(heap) + 1] = 0
    OBVIOUS
<1>2. \A n \in 1..Len(heap) : d[n] = IF n = x THEN y ELSE b[n]
    OBVIOUS
<1>3. Numbers(d)
    BY DEF Numbers
<1> HIDE DEF d
<1> QED
    BY <1>1, <1>2, <1>3 DEF Ends

LEMMA ReadInvInit == Init => ReadInv
<1> SUFFICES ASSUME Init
             PROVE  ReadInv
    OBVIOUS
<1> DEFINE z == [n \in Nat |-> 0]
<1>1. Numbers(z)
    BY DEF Numbers
<1> HIDE DEF z
<1>2. Len(heap) = 0 /\ Len(stack) = 0 /\ 1..Len(heap) = {} /\ 1..Len(stack) = {}
    BY EmptySeq DEF Init
<1>3. pc \notin Reading /\ pc # "done" /\ offset = 1
    BY DEF Init, Reading
<1>4. Linked(z) /\ Gathered(z)
    BY <1>2 DEF Linked, Gathered
<1>5. LinksInv(z)
    BY <1>1, <1>3, <1>4 DEF LinksInv, Numbers
<1> QED
    BY <1>1, <1>3, <1>5 DEF ReadInv

LEMMA ReadInvNext ==
    ASSUME ParserInv, OwnInv, ReadInv, Next \/ UNCHANGED vars
    PROVE  ReadInv'
<1>1. PICK u, a, b, g :
          /\ LinksInv(u) /\ Numbers(a) /\ Numbers(b) /\ Numbers(g)
          /\ pc \in Reading \/ (pc = "done" /\ root # NULL) => Reads(u, a, b, g)
    BY DEF ReadInv
<1>2. Len(heap) \in Nat /\ Len(stack) \in Nat /\ offset \in Nat /\ Numbers(u)
    BY <1>1 DEF ParserInv, HeapInv, StackInv, TextInv, LinksInv, Numbers
<1>3. ASSUME pc' # "start", NEW v, NEW c, NEW d, NEW e, LinksInv(v)', Numbers(c), Numbers(d),
             Numbers(e), pc' \in Reading \/ (pc' = "done" /\ root' # NULL) => Reads(v, c, d, e)'
      PROVE  ReadInv'
    BY <1>3 DEF ReadInv
<1>4. CASE Start
    <2>1. CASE heap' = <<Cell>>
        <3>1. /\ root' = New /\ UNCHANGED <<text, offset, stack>> /\ pc' = "value" /\ offset = 1
            BY <1>4, <2>1 DEF Start, Refused, ParserInv, PlaceInv, ReadInv
        <3> DEFINE z == [n \in Nat |-> 0]
                   w == [n \in Nat |-> IF n = 1 THEN 1 ELSE 0]
        <3>2. Numbers(z) /\ Numbers(w) /\ z[1] = 0 /\ w[1] = 1
            BY DEF Numbers
        <3> HIDE DEF z, w
        <3>3. PICK v, c : Numbers(v) /\ Numbers(c) /\ v[1] = 0 /\ c[1] = 1
            BY <3>2
        <3>4. LinksInv(v)'
            BY <1>4, <2>1, <3>1, <3>3, StartLinks DEF Numbers
        <3>5. Reads(v, c, v, v)'
            BY <1>4, <2>1, <3>1, <3>3, StartReads
        <3> QED
            BY <1>3, <3>1, <3>3, <3>4, <3>5
    <2>2. CASE Refused /\ pc' = "done" /\ UNCHANGED root
        <3>1. root' = NULL
            BY <1>4, <2>2 DEF Start, ParserInv, PlaceInv, HeapInv, NULL
        <3> QED
            BY <1>1, <1>3, <2>2, <3>1, StopLinks DEF Reading
    <2> QED
        BY <1>4, <2>1, <2>2 DEF Start
<1>5. CASE (ParseLiteral \/ ParseNumber \/ ParseString) /\ pc' # "failed"
    <2>1. Item \in 1..Len(heap) /\ pc = "value" /\ pc' = "behind" /\ UNCHANGED <<stack, root>>
        BY <1>5, FillSteps
    <2>2. SameLinks(heap, heap')
        BY <1>5, FillSteps DEF SameLinks
    <2>3. PICK v : Numbers(v) /\ Prolongs(v, u, 0)
        BY <1>2, Extended
    <2>4. PICK d : Numbers(d) /\ Ends(d, b, Item, offset + 1)
        BY <1>1, <1>2, <2>1, Ended
    <2>5. LinksInv(v)'
        BY <1>1, <2>1, <2>2, <2>3, SameListsLinks DEF Numbers, Reading
    <2>6. Reads(v, a, d, g)'
        BY <1>1, <1>5, <2>1, <2>3, <2>4, FillReads DEF Ends, Reading
    <2> QED
        BY <1>1, <1>3, <2>1, <2>4, <2>5, <2>6
<1>6. CASE ParseName /\ ~(Refused /\ pc' = "failed" /\ UNCHANGED root)
    <2>1. /\ pc = "name" /\ UNCHANGED <<stack, root>> /\ (pc' = "value" \/ pc' = "failed")
        BY <1>6, NameSteps
    <2>2. SameLinks(heap, heap')
        BY <1>6, NameSteps DEF SameLinks
    <2>3. PICK v, d : Numbers(v) /\ Prolongs(v, u, 0) /\ Numbers(d) /\ Prolongs(d, b, 0)
        BY <1>1, <1>2, Extended
    <2>4. LinksInv(v)'
        BY <1>1, <2>1, <2>2, <2>3, SameListsLinks DEF Numbers, Reading
    <2>5. pc' # "failed" => Reads(v, a, d, g)'
        BY <1>1, <1>6, <2>1, <2>3, NameReads DEF Reading, Prolongs
    <2> QED
        BY <1>1, <1>3, <2>1, <2>3, <2>4, <2>5 DEF Reading
<1>7. CASE OpenList
    <2>1. pc = "value" /\ pc' = "opened"
        BY <1>7 DEF OpenList
    <2> QED
        BY <1>1, <1>3, <1>7, <2>1, OpenLinks, OpenReads DEF Reading
<1>8. CASE AddItem /\ ~(Refused /\ pc' = "failed" /\ UNCHANGED root)
    <2>1. /\ pc \in Reading /\ pc' \in {"name", "value"} /\ Len(stack) \in 1..Len(stack)
          /\ offset' \in Nat
        BY <1>2, <1>8, AddSteps DEF Reading
    <2>2. stack[Len(stack)].item \in Nat
        BY <2>1, FrameOrder
    <2>3. PICK v, c, d, e :
              /\ Numbers(v) /\ Prolongs(v, u, stack[Len(stack)].item)
              /\ Numbers(c) /\ Prolongs(c, a, offset')
              /\ Numbers(d) /\ Prolongs(d, b, 0)
              /\ Numbers(e) /\ Prolongs(e, g, Len(stack))
        <3>1. \E v : Numbers(v) /\ Prolongs(v, u, stack[Len(stack)].item)
            BY <1>2, <2>2, Extended
        <3>2. \E c : Numbers(c) /\ Prolongs(c, a, offset')
            BY <1>1, <1>2, <2>1, Extended
        <3>3. \E d : Numbers(d) /\ Prolongs(d, b, 0)
            BY <1>1, <1>2, Extended
        <3>4. \E e : Numbers(e) /\ Prolongs(e, g, Len(stack))
            BY <1>1, <1>2, Extended
        <3> QED
            BY <3>1, <3>2, <3>3, <3>4
    <2>4. LinksInv(v)'
        BY <1>1, <1>8, <2>3, AddLinks DEF Numbers
    <2>5. Reads(v, c, d, e)'
        BY <1>1, <1>8, <2>1, <2>3, AddReads
    <2> QED
        BY <1>3, <2>1, <2>3, <2>4, <2>5
<1>9. CASE CloseList
    <2>1. pc \in Reading /\ pc' = "behind" /\ Len(stack) \in 1..Len(stack)
        BY <1>9, CloseSteps DEF Reading
    <2>2. stack[Len(stack)].item \in 1..Len(heap)
        BY <2>1, FrameOrder
    <2>3. PICK d : Numbers(d) /\ Ends(d, b, stack[Len(stack)].item, offset + 1)
        BY <1>1, <1>2, <2>2, Ended
    <2>4. LinksInv(u)'
        BY <1>1, <1>9, CloseLinks
    <2>5. Reads(u, a, d, g)'
        BY <1>1, <1>9, <2>1, <2>3, CloseReads DEF Ends
    <2> QED
        BY <1>1, <1>3, <2>1, <2>3, <2>4, <2>5
<1>10. CASE Accept
    <2>1. pc = "behind" /\ pc' = "done"
        BY <1>10 DEF Accept
    <2> QED
        BY <1>1, <1>3, <1>10, <2>1, StopLinks, AcceptReads DEF Reading
<1>11. CASE Reject \/ Unwind \/ Delete \/ (Refused /\ pc' = "failed" /\ UNCHANGED root)
    <2>1. pc' # "start" /\ pc' \notin Reading /\ ~(pc' = "done" /\ root' # NULL)
        <3>1. CASE pc' = "failed"
            BY <3>1 DEF Reading
        <3>2. CASE Unwind
            BY <3>2 DEF Unwind, Reading
        <3>3. CASE Delete
            BY <3>3 DEF Delete, Reading
        <3> QED
            BY <1>11, <3>1, <3>2, <3>3 DEF Reject
    <2> QED
        BY <1>1, <1>3, <1>11, <2>1, StopLinks
<1>12. CASE UNCHANGED vars
    <2>1. LinksInv(u)' /\ (Reads(u, a, b, g) => Reads(u, a, b, g)')
        <3>0. Item' = Item
            BY <1>12 DEF vars, Item, Top
        <3>1. /\ heap' = heap /\ stack' = stack /\ root' = root /\ pc' = pc /\ text' = text
              /\ offset' = offset
            BY <1>12 DEF vars
        <3>2. LinksInv(u)'
            BY <1>1, <3>1 DEF LinksInv, Linked, Gathered, Held
        <3>3. ASSUME Reads(u, a, b, g)
              PROVE  /\ RootRead(u, a, g)' /\ NamesRead(a)' /\ TextsHeld(u)' /\ UnderItems(u)'
                     /\ Unread(u, b)'
            BY <3>1, <3>3 DEF Reads, RootRead, NamesRead, TextsHeld, UnderItems, Unread
        <3>4. ASSUME Reads(u, a, b, g)
              PROVE  ItemsRead(u, a, b, g)'
            BY <3>1, <3>4 DEF Reads, ItemsRead, ItemRead, ScalarRead, ListRead, Begins
        <3>5. ASSUME Reads(u, a, b, g)
              PROVE  FramesRead(u, a, b, g)'
            BY <3>0, <3>1, <3>5 DEF Reads, FramesRead, FrameRead, MembersRead, Begins
        <3>6. ASSUME Reads(u, a, b, g)
              PROVE  HereRead(u, a, b)'
            BY <3>0, <3>1, <3>6 DEF Reads, HereRead, Held, Begins
        <3> QED
            BY <3>2, <3>3, <3>4, <3>5, <3>6 DEF Reads
    <2>2. (pc = "start" => offset = 1) /\ pc' = pc /\ root' = root /\ offset' = offset
        BY <1>12 DEF vars, ReadInv
    <2> QED
        BY <1>1, <2>1, <2>2 DEF ReadInv
<1>13. Next => \/ Start \/ ((ParseLiteral \/ ParseNumber \/ ParseString) /\ pc' # "failed")
               \/ (ParseName /\ ~(Refused /\ pc' = "failed" /\ UNCHANGED root))
               \/ OpenList \/ (AddItem /\ ~(Refused /\ pc' = "failed" /\ UNCHANGED root))
               \/ CloseList \/ Accept \/ Reject \/ Unwind \/ Delete
               \/ (Refused /\ pc' = "failed" /\ UNCHANGED root)
    <2>1. (ParseLiteral \/ ParseNumber \/ ParseString) =>
              pc' # "failed" \/ (Refused /\ pc' = "failed" /\ UNCHANGED root)
        BY DEF ParseLiteral, ParseNumber, ParseString
    <2> QED
        BY <2>1, Zenon DEF Next
<1> QED
    BY <1>4, <1>5, <1>6, <1>7, <1>8, <1>9, <1>10, <1>11, <1>12, <1>13

\* The links back agree with the links forward, and the first item of every list points
\* back to its last.
THEOREM BackLinksAlways == Spec => []BackLinks
<1>1. Init => ParserInv /\ OwnInv /\ ReadInv
    BY ParserInvInit, OwnInit, ReadInvInit
<1>2. ParserInv /\ OwnInv /\ ReadInv /\ [Next]_vars => (ParserInv /\ OwnInv /\ ReadInv)'
    BY ParserInvNext, OwnInvNext, ReadInvNext
<1>3. ParserInv /\ OwnInv /\ ReadInv => BackLinks
    BY LinksBack DEF ReadInv
<1> QED
    BY <1>1, <1>2, <1>3, PTL DEF Spec

LEMMA TwoTokens ==
    ASSUME NEW x, NEW y
    PROVE  <<x>> \o <<y>> = <<x, y>>
<1>1. <<x>> \in Seq({x, y}) /\ <<y>> \in Seq({x, y}) /\ <<x, y>> \in Seq({x, y})
    OBVIOUS
<1>2. /\ <<x>> \o <<y>> \in Seq({x, y}) /\ Len(<<x>> \o <<y>>) = 2
      /\ (<<x>> \o <<y>>)[1] = x /\ (<<x>> \o <<y>>)[2] = y
    BY <1>1, ConcatProperties
<1>3. Len(<<x, y>>) = 2 /\ <<x, y>>[1] = x /\ <<x, y>>[2] = y
    OBVIOUS
<1>4. PICK s, t : s = <<x>> \o <<y>> /\ t = <<x, y>>
    OBVIOUS
<1>5. Len(s) = Len(t) /\ \A i \in 1..Len(s) : s[i] = t[i]
    <2>1. Len(s) = 2 /\ Len(t) = 2 /\ s[1] = t[1] /\ s[2] = t[2]
        BY <1>2, <1>3, <1>4
    <2> QED
        BY <2>1
<1>6. s = t
    BY <1>1, <1>2, <1>4, <1>5, SeqEqual
<1> QED
    BY <1>4, <1>6

-----------------------------------------------------------------------------
(* The items written out *)

LEMMA OneToken ==
    ASSUME NEW S, NEW s \in Seq(S), NEW i \in 1..Len(s)
    PROVE  SubSeq(s, i, i) = <<s[i]>>
<1>1. SubSeq(s, i, i) = <<s[i]>> \o SubSeq(s, i + 1, i)
    BY SubSeqRecursiveFirst
<1>2. SubSeq(s, i + 1, i) = <<>>
    BY SubSeqEmpty
<1>3. s[i] \in S /\ <<s[i]>> \in Seq(S)
    BY ElementOfSeq
<1> QED
    BY <1>1, <1>2, <1>3, ConcatEmptySeq

LEMMA PiecesJoined ==
    ASSUME NEW S, NEW s \in Seq(S), NEW p \in Nat, NEW q \in Nat, NEW b \in Nat, NEW e \in Nat,
           1 <= p, p <= q, q < b, b <= e, e <= Len(s) + 1
    PROVE  SubSeq(s, p, e - 1) =
               SubSeq(s, p, q - 1) \o <<s[q]>> \o SubSeq(s, q + 1, b - 1) \o SubSeq(s, b, e - 1)
<1>0. Len(s) \in Nat
    OBVIOUS
<1>1. SubSeq(s, p, q - 1) \o SubSeq(s, q, q) = SubSeq(s, p, q)
    <2>1. q - 1 \in p - 1..q /\ p \in 1..Len(s) + 1 /\ q \in Nat /\ q \in p - 1..Len(s)
        BY <1>0
    <2> QED
        BY <2>1, ConcatAdjacentSubSeq
<1>2. SubSeq(s, q, q) = <<s[q]>>
    BY <1>0, OneToken
<1>3. SubSeq(s, p, q) \o SubSeq(s, q + 1, b - 1) = SubSeq(s, p, b - 1)
    BY <1>0, ConcatAdjacentSubSeq
<1>4. SubSeq(s, p, b - 1) \o SubSeq(s, b, e - 1) = SubSeq(s, p, e - 1)
    BY <1>0, ConcatAdjacentSubSeq
<1> QED
    BY <1>1, <1>2, <1>3, <1>4

\* Where the list of the item n ends, or what is read ends if n is the root.
Stop(u, b, n) == IF u[n] = 0 THEN b[n] ELSE b[u[n]] - 1

LEMMA AllRead ==
    ASSUME ParserInv, OwnInv, NEW u, NEW a, NEW b, NEW g,
           LinksInv(u), Numbers(a), Numbers(b), Numbers(g), Reads(u, a, b, g), pc = "done",
           NEW n \in 1..Len(heap), u[n] # 0 \/ n = root
    PROVE  /\ b[n] # 0 /\ ItemRead(u, a, b, g, n)
           /\ u[n] # 0 => /\ u[n] \in 1..Len(heap) /\ (u[u[n]] # 0 \/ u[n] = root)
                          /\ b[u[n]] # 0 /\ ListRead(u, a, b, g, u[n])
<1> DEFINE k == Len(heap)
<1>1. k \in Nat /\ \A m \in 1..k : u[m] \in Nat /\ u[m] < m
    <2>1. Typed(u, a, b, g)
        BY ReadTypes
    <2> QED
        BY <2>1 DEF Typed
<1>2. b[root] = offset /\ stack = <<>> /\ Held(u) /\ offset # 0 /\ root \in 1..k
    BY DEF Reads, RootRead, HereRead, ParserInv, TextInv
<1>3. 1..Len(stack) = {}
    BY <1>2, EmptySeq
<1>4. \A m \in 1..k : u[m] # 0 \/ m = root => b[m] # 0
    BY <1>2, <1>3 DEF Reads, Unread
<1>5. ASSUME u[n] # 0
      PROVE  /\ u[n] \in 1..k /\ (u[u[n]] # 0 \/ u[n] = root)
             /\ b[u[n]] # 0 /\ ListRead(u, a, b, g, u[n])
    <2>1. u[n] \in 1..k
        BY <1>1, <1>5
    <2>2. u[u[n]] # 0 \/ u[n] = root
        BY <1>5 DEF Reads, UnderItems
    <2>3. heap[u[n]].child # NULL
        BY <1>3, <1>5, <1>2 DEF Held
    <2>4. b[u[n]] # 0 /\ ItemRead(u, a, b, g, u[n])
        BY <1>4, <2>1, <2>2 DEF Reads, ItemsRead
    <2>5. ListRead(u, a, b, g, u[n])
        BY <2>3, <2>4 DEF ItemRead, ScalarRead
    <2> QED
        BY <2>1, <2>2, <2>4, <2>5
<1> QED
    BY <1>4, <1>5 DEF Reads, ItemsRead

LEMMA ItemStops ==
    ASSUME ParserInv, OwnInv, NEW u, NEW a, NEW b, NEW g,
           LinksInv(u), Numbers(a), Numbers(b), Numbers(g), Reads(u, a, b, g), pc = "done",
           NEW n \in 1..Len(heap), u[n] # 0 \/ n = root
    PROVE  /\ Stop(u, b, n) \in Nat /\ b[n] <= Stop(u, b, n) /\ Stop(u, b, n) <= Len(text) + 1
           /\ heap[n].next = NULL => Stop(u, b, n) = b[n]
           /\ heap[n].next # NULL => /\ heap[n].next \in 1..Len(heap) /\ u[heap[n].next] # 0
                                     /\ Stop(u, b, heap[n].next) = Stop(u, b, n)
                                     /\ b[n] < Stop(u, b, n)
           /\ heap[n].child # NULL => /\ heap[n].child \in 1..Len(heap) /\ u[heap[n].child] # 0
                                      /\ Stop(u, b, heap[n].child) = b[n] - 1
<1> DEFINE k == Len(heap)
<1>1. /\ k \in Nat
      /\ \A m \in 1..k :
            /\ u[m] \in Nat /\ u[m] < m /\ a[m] \in Nat /\ b[m] \in Nat /\ g[m] \in Nat
            /\ Begins(a, m) \in Nat
            /\ heap[m].next # NULL => heap[m].next \in 1..k /\ m < heap[m].next
            /\ heap[m].next # NULL => u[m] # 0 /\ u[heap[m].next] = u[m]
            /\ heap[m].child # NULL => heap[m].child \in 1..k /\ u[heap[m].child] = m
    <2>1. Typed(u, a, b, g)
        BY ReadTypes
    <2> QED
        BY <2>1 DEF Typed
<1>2. Len(text) \in Nat /\ offset \in 1..Len(text) + 1
    <2>1. Typed(u, a, b, g)
        BY ReadTypes
    <2> QED
        BY <2>1 DEF Typed
<1>3. b[n] # 0 /\ b[n] <= offset
    BY AllRead DEF ItemRead
<1>6. ASSUME heap[n].child # NULL
      PROVE  /\ heap[n].child \in 1..k /\ u[heap[n].child] # 0
             /\ Stop(u, b, heap[n].child) = b[n] - 1
    <2>1. PICK m : m = heap[n].child
        OBVIOUS
    <2>2. m \in 1..k /\ u[m] = n /\ n # 0
        BY <1>1, <1>6, <2>1
    <2> QED
        BY <2>1, <2>2 DEF Stop
<1>4. CASE u[n] = 0
    <2>1. heap[n].next = NULL /\ Stop(u, b, n) = b[n]
        BY <1>1, <1>4 DEF Stop
    <2> QED
        BY <1>1, <1>2, <1>3, <1>6, <2>1 DEF Stop
<1>5. CASE u[n] # 0
    <2>1. /\ u[n] \in 1..k /\ (u[u[n]] # 0 \/ u[n] = root)
          /\ b[u[n]] # 0 /\ ListRead(u, a, b, g, u[n])
        BY <1>5, AllRead
    <2>2. b[u[n]] <= offset
        BY <2>1, AllRead DEF ItemRead
    <2>3. b[n] < b[u[n]] /\ (heap[n].next = NULL => b[n] = b[u[n]] - 1)
        BY <2>1 DEF ListRead
    <2>4. Stop(u, b, n) = b[u[n]] - 1
        BY <1>5 DEF Stop
    <2>5. Stop(u, b, n) \in Nat /\ b[n] <= Stop(u, b, n) /\ Stop(u, b, n) <= Len(text) + 1
        <3>1. b[n] \in Nat /\ b[u[n]] \in Nat
            BY <1>1, <2>1
        <3> QED
            BY <1>2, <2>2, <2>3, <2>4, <3>1
    <2>6. ASSUME heap[n].next # NULL
          PROVE  /\ heap[n].next \in 1..k /\ u[heap[n].next] # 0
                 /\ Stop(u, b, heap[n].next) = Stop(u, b, n) /\ b[n] < Stop(u, b, n)
        <3>1. PICK m : m = heap[n].next
            OBVIOUS
        <3>2. m \in 1..k /\ u[m] = u[n] /\ a[m] = b[n] + 1
            <4>1. m \in 1..k /\ u[m] = u[n]
                BY <1>1, <2>6, <3>1
            <4>2. a[m] = b[n] + 1
                BY <2>6, <3>1, AllRead DEF ItemRead
            <4> QED
                BY <4>1, <4>2
        <3>3. a[m] <= Begins(a, m) /\ Begins(a, m) < b[m] /\ b[m] < b[u[n]]
            <4>1. b[m] < b[u[n]]
                BY <2>1, <3>2 DEF ListRead
            <4>2. Begins(a, m) < b[m]
                BY <1>5, <3>2, AllRead DEF ItemRead
            <4>3. a[m] <= Begins(a, m)
                BY <1>1, <3>2 DEF Begins
            <4> QED
                BY <4>1, <4>2, <4>3
        <3>4. Stop(u, b, m) = Stop(u, b, n)
            <4>1. Stop(u, b, m) = b[u[m]] - 1
                BY <1>5, <3>2 DEF Stop
            <4> QED
                BY <2>4, <3>2, <4>1
        <3>5. b[n] < b[u[n]] - 1
            BY <1>1, <2>1, <3>2, <3>3, SMTT(20)
        <3> QED
            BY <1>5, <2>4, <3>1, <3>2, <3>4, <3>5
    <2> QED
        <3>1. heap[n].next = NULL => Stop(u, b, n) = b[n]
            BY <2>3, <2>4
        <3>2. heap[n].child # NULL => /\ heap[n].child \in 1..k /\ u[heap[n].child] # 0
                                      /\ Stop(u, b, heap[n].child) = b[n] - 1
            BY <1>6
        <3> QED
            BY <2>5, <2>6, <3>1, <3>2
<1> QED
    BY <1>4, <1>5

Span(u, a, b, n) == SubSeq(text, a[n], Stop(u, b, n) - 1)

\* An item written out, given what is below it and behind it.
Piece(n, below, behind) ==
    (IF heap[n].string = NULL THEN <<>> ELSE <<"string", Colon>>)
    \o <<heap[n].type>>
    \o (IF heap[n].type \in Lists THEN below \o <<Closer[heap[n].type]>> ELSE <<>>)
    \o (IF heap[n].next = NULL THEN <<>> ELSE <<Comma>> \o behind)

LEMMA ItemWritten ==
    ASSUME ParserInv, OwnInv, NEW u, NEW a, NEW b, NEW g,
           LinksInv(u), Numbers(a), Numbers(b), Numbers(g), Reads(u, a, b, g), pc = "done",
           NEW n \in 1..Len(heap), u[n] # 0 \/ n = root
    PROVE  Span(u, a, b, n) =
               Piece(n, IF heap[n].child = NULL THEN <<>> ELSE Span(u, a, b, heap[n].child),
                     Span(u, a, b, heap[n].next))
<1> DEFINE N == Len(text)
           S == Tokens
<1>p. PICK p, q, m, e : p = a[n] /\ q = Begins(a, n) /\ m = b[n] /\ e = Stop(u, b, n)
    OBVIOUS
<1>1. N \in Nat /\ text \in Seq(S) /\ offset <= N + 1
    BY DEF ParserInv, TextInv
<1>2. p \in Nat /\ q \in Nat /\ m \in Nat /\ e \in Nat
    <2>1. Typed(u, a, b, g)
        BY ReadTypes
    <2> QED
        BY <1>p, ItemStops, <2>1 DEF Typed
<1>3. /\ m <= e /\ e <= N + 1
      /\ heap[n].next = NULL => e = m
      /\ heap[n].next # NULL => /\ heap[n].next \in 1..Len(heap)
                                /\ Stop(u, b, heap[n].next) = e /\ m < e
      /\ heap[n].child # NULL => Stop(u, b, heap[n].child) = m - 1
    BY <1>p, ItemStops
<1>4. /\ 1 <= p /\ q < m /\ text[q] = heap[n].type
      /\ heap[n].next # NULL => text[m] = Comma /\ a[heap[n].next] = m + 1
      /\ ScalarRead(a, b, n) \/ ListRead(u, a, b, g, n)
    BY <1>p, AllRead DEF ItemRead
<1>5. p <= q /\ (heap[n].string = NULL => q = p) /\ (heap[n].string # NULL => q = p + 2)
    BY <1>2, <1>p DEF Begins
<1> HIDE DEF N, S
<1>6. SubSeq(text, p, e - 1) =
          SubSeq(text, p, q - 1) \o <<text[q]>> \o SubSeq(text, q + 1, m - 1) \o SubSeq(text, m, e - 1)
    <2>1. 1 <= p /\ p <= q /\ q < m /\ m <= e /\ e <= Len(text) + 1
        BY <1>3, <1>4, <1>5 DEF N
    <2> QED
        BY <1>1, <1>2, <2>1, PiecesJoined, SMTT(20)
<1>7. SubSeq(text, p, q - 1) = IF heap[n].string = NULL THEN <<>> ELSE <<"string", Colon>>
    <2>1. CASE heap[n].string = NULL
        BY <1>2, <1>5, <2>1, SubSeqEmpty
    <2>2. CASE heap[n].string # NULL
        <3>1. text[p] = "string" /\ text[p + 1] = Colon
            BY <1>p, <2>2 DEF Reads, NamesRead
        <3>2. q - 1 = p + 1 /\ p \in 1..N /\ p + 1 \in 1..N /\ p + 1 \in p..N
            BY <1>1, <1>2, <1>3, <1>4, <1>5, <2>2
        <3>3. SubSeq(text, p, p + 1) = <<text[p]>> \o SubSeq(text, p + 1, p + 1)
            BY <1>1, <3>2, SubSeqRecursiveFirst DEF N
        <3>4. SubSeq(text, p + 1, p + 1) = <<text[p + 1]>>
            BY <1>1, <3>2, OneToken DEF N
        <3>5. <<"string">> \o <<Colon>> = <<"string", Colon>>
            BY TwoTokens
        <3> QED
            BY <2>2, <3>1, <3>2, <3>3, <3>4, <3>5
    <2> QED
        BY <2>1, <2>2
<1>8. SubSeq(text, q + 1, m - 1) =
          IF heap[n].type \in Lists
          THEN (IF heap[n].child = NULL THEN <<>> ELSE Span(u, a, b, heap[n].child))
               \o <<Closer[heap[n].type]>>
          ELSE <<>>
    <2>1. CASE ScalarRead(a, b, n)
        <3>1. heap[n].type \notin Lists /\ m = q + 1
            BY <1>p, <2>1 DEF ScalarRead, Scalars, Numerals, Literals, Lists
        <3> QED
            BY <1>2, <3>1, SubSeqEmpty
    <2>2. CASE ListRead(u, a, b, g, n)
        <3>1. /\ heap[n].type \in Lists /\ q + 1 < m /\ text[m - 1] = Closer[heap[n].type]
              /\ heap[n].child = NULL => m = q + 2
              /\ heap[n].child # NULL => a[heap[n].child] = q + 1
            BY <1>p, <2>2 DEF ListRead
        <3>2. m - 1 \in 1..N /\ q + 1 \in 1..N /\ m - 1 \in q + 1..N
            BY <1>1, <1>2, <1>3, <1>4, <1>5, <3>1
        <3>3. SubSeq(text, q + 1, m - 1) = SubSeq(text, q + 1, m - 1 - 1) \o <<text[m - 1]>>
            BY <1>1, <3>2, SubSeqRecursiveSecond DEF N
        <3>4. SubSeq(text, q + 1, m - 1 - 1) =
                  IF heap[n].child = NULL THEN <<>> ELSE Span(u, a, b, heap[n].child)
            <4>1. CASE heap[n].child = NULL
                BY <1>2, <3>1, <4>1, SubSeqEmpty
            <4>2. CASE heap[n].child # NULL
                BY <1>3, <3>1, <4>2 DEF Span
            <4> QED
                BY <4>1, <4>2
        <3> QED
            BY <3>1, <3>3, <3>4
    <2> QED
        BY <1>4, <2>1, <2>2
<1>9. SubSeq(text, m, e - 1) =
          IF heap[n].next = NULL THEN <<>> ELSE <<Comma>> \o Span(u, a, b, heap[n].next)
    <2>1. CASE heap[n].next = NULL
        BY <1>2, <1>3, <2>1, SubSeqEmpty
    <2>2. CASE heap[n].next # NULL
        <3>1. m \in 1..N /\ e - 1 \in m..N
            BY <1>1, <1>2, <1>3, <1>4, <1>5, <2>2
        <3>2. SubSeq(text, m, e - 1) = <<text[m]>> \o SubSeq(text, m + 1, e - 1)
            BY <1>1, <3>1, SubSeqRecursiveFirst DEF N
        <3> QED
            BY <1>3, <1>4, <2>2, <3>2 DEF Span
    <2> QED
        BY <2>1, <2>2
<1>10. Span(u, a, b, n) = SubSeq(text, p, e - 1)
    BY <1>p DEF Span
<1> QED
    BY <1>4, <1>6, <1>7, <1>8, <1>9, <1>10 DEF Piece

\* f takes each cell to the text of it and of what is behind it.
Writes(f) ==
    f = [n \in DOMAIN heap |->
            Piece(n, IF heap[n].child = NULL THEN <<>> ELSE f[heap[n].child], f[heap[n].next])]

LEMMA WrittenBySome ==
    ASSUME NEW x, NEW F, Writes(F)
    PROVE  \E f : Writes(f) /\ Written(x) = f[x]
<1> DEFINE W(f) ==
        f = [n \in DOMAIN heap |->
                LET c == heap[n]
                    below == IF c.child = NULL THEN <<>> ELSE f[c.child]
                IN  (IF c.string = NULL THEN <<>> ELSE <<"string", ":">>)
                    \o <<c.type>>
                    \o (IF c.type \in DOMAIN Closer THEN below \o <<Closer[c.type]>> ELSE <<>>)
                    \o (IF c.next = NULL THEN <<>> ELSE <<",">> \o f[c.next])]
<1>1. Lists = DOMAIN Closer
    BY DEF Lists, Closer
<1>2. \A f : Writes(f) <=> W(f)
    BY <1>1, ZenonT(40) DEF Writes, Piece, Colon, Comma
<1>3. Written(x) = (CHOOSE f : W(f))[x]
    BY DEF Written
<1>4. W(CHOOSE f : W(f))
    <2>1. W(F)
        BY <1>2
    <2> HIDE DEF W
    <2> QED
        BY <2>1, Zenon
<1> HIDE DEF W
<1> QED
    BY <1>2, <1>3, <1>4, Zenon

LEMMA TreeWritten ==
    ASSUME ParserInv, OwnInv, NEW u, NEW a, NEW b, NEW g,
           LinksInv(u), Numbers(a), Numbers(b), Numbers(g), Reads(u, a, b, g), pc = "done"
    PROVE  Written(root) = SubSeq(text, 1, offset - 1)
<1> DEFINE k == Len(heap)
           F == [n \in DOMAIN heap |-> IF b[n] = 0 THEN <<"none">> ELSE Span(u, a, b, n)]
<1>1. k \in Nat /\ DOMAIN heap = 1..k
    BY DEF ParserInv, HeapInv
<1>2. \A n \in 1..k :
          /\ u[n] \in Nat
          /\ heap[n].next # NULL => heap[n].next \in 1..k /\ n < heap[n].next /\ u[heap[n].next] # 0
          /\ heap[n].child # NULL => /\ heap[n].child \in 1..k /\ n < heap[n].child
                                     /\ u[heap[n].child] # 0
    <2>1. \A n \in 1..k :
              /\ u[n] \in Nat /\ u[n] < n
              /\ heap[n].next # NULL => heap[n].next \in 1..k /\ n < heap[n].next
              /\ heap[n].next # NULL => u[n] # 0 /\ u[heap[n].next] = u[n]
              /\ heap[n].child # NULL => heap[n].child \in 1..k /\ u[heap[n].child] = n
        <3>1. Typed(u, a, b, g)
            BY ReadTypes
        <3> QED
            BY <3>1 DEF Typed
    <2> QED
        BY <2>1
<1>3. ASSUME NEW n \in 1..k, u[n] # 0 \/ n = root
      PROVE  /\ b[n] # 0
             /\ Span(u, a, b, n) =
                    Piece(n, IF heap[n].child = NULL THEN <<>> ELSE Span(u, a, b, heap[n].child),
                          Span(u, a, b, heap[n].next))
    BY <1>3, AllRead, ItemWritten
<1>4. ASSUME NEW n \in 1..k, b[n] = 0, NEW x, NEW y
      PROVE  <<"none">> = Piece(n, x, y)
    <2>1. /\ heap[n].type = "none" /\ heap[n].next = NULL /\ heap[n].string = NULL
        BY <1>3, <1>4 DEF Reads, TextsHeld
    <2>2. "none" \notin Lists
        BY DEF Lists
    <2>3. Piece(n, x, y) = <<>> \o <<"none">> \o <<>> \o <<>>
        BY <2>1, <2>2 DEF Piece
    <2>4. <<"none">> \in Seq({"none"})
        OBVIOUS
    <2>5. <<>> \o <<"none">> = <<"none">> /\ <<"none">> \o <<>> = <<"none">>
        BY <2>4, ConcatEmptySeq
    <2> QED
        BY <2>3, <2>5
<1>5. ASSUME NEW n \in 1..k
      PROVE  (IF b[n] = 0 THEN <<"none">> ELSE Span(u, a, b, n)) =
                 Piece(n, IF heap[n].child = NULL THEN <<>> ELSE F[heap[n].child], F[heap[n].next])
    <2>1. CASE b[n] = 0
        BY <1>4, <2>1
    <2>2. CASE b[n] # 0
        <3>1. u[n] # 0 \/ n = root
            <4> SUFFICES ASSUME u[n] = 0, n # root
                         PROVE  FALSE
                OBVIOUS
            <4>1. heap[n].type = "none"
                BY DEF Reads, TextsHeld
            <4>2. ItemRead(u, a, b, g, n)
                BY <2>2 DEF Reads, ItemsRead
            <4> QED
                BY <4>1, <4>2 DEF ItemRead, ScalarRead, ListRead, Scalars, Numerals, Literals, Lists
        <3>2. heap[n].next # NULL => F[heap[n].next] = Span(u, a, b, heap[n].next)
            BY <1>1, <1>2, <1>3
        <3>3. heap[n].child # NULL => F[heap[n].child] = Span(u, a, b, heap[n].child)
            BY <1>1, <1>2, <1>3
        <3> HIDE DEF F
        <3>4. Span(u, a, b, n) =
                  Piece(n, IF heap[n].child = NULL THEN <<>> ELSE Span(u, a, b, heap[n].child),
                        Span(u, a, b, heap[n].next))
            BY <1>3, <3>1
        <3> QED
            BY <2>2, <3>2, <3>3, <3>4 DEF Piece
    <2> QED
        BY <2>1, <2>2
<1>6. Writes(F)
    <2>1. F = [n \in DOMAIN heap |-> IF b[n] = 0 THEN <<"none">> ELSE Span(u, a, b, n)]
        OBVIOUS
    <2> HIDE DEF F
    <2> QED
        BY <1>1, <1>5, <2>1, Zenon DEF Writes
<1>7. PICK f : Writes(f) /\ Written(root) = f[root]
    <2> HIDE DEF F
    <2> QED
        BY <1>6, WrittenBySome
<1>8. \A n \in 1..k : f[n] = Piece(n, IF heap[n].child = NULL THEN <<>> ELSE f[heap[n].child],
                                   f[heap[n].next])
    BY <1>1, <1>7 DEF Writes
<1> HIDE DEF F
<1> DEFINE T == {n \in 1..k : (u[n] # 0 \/ n = root) => f[n] = Span(u, a, b, n)}
<1>9. ASSUME NEW n \in 1..k, \A m \in 1..k : n < m => m \in T
      PROVE  n \in T
    <2> SUFFICES ASSUME u[n] # 0 \/ n = root
                 PROVE  f[n] = Span(u, a, b, n)
        OBVIOUS
    <2>1. heap[n].next # NULL => f[heap[n].next] = Span(u, a, b, heap[n].next)
        BY <1>2, <1>9
    <2>2. heap[n].child # NULL => f[heap[n].child] = Span(u, a, b, heap[n].child)
        BY <1>2, <1>9
    <2>3. Span(u, a, b, n) =
              Piece(n, IF heap[n].child = NULL THEN <<>> ELSE Span(u, a, b, heap[n].child),
                    Span(u, a, b, heap[n].next))
        BY <1>3
    <2> QED
        BY <1>8, <2>1, <2>2, <2>3 DEF Piece
<1>10. \A n \in 1..k : n \in T
    <2> HIDE DEF T
    <2> QED
        BY <1>1, <1>9, Downwards
<1>11. root \in 1..k /\ u[root] = 0 /\ a[root] = 1 /\ b[root] = offset
    BY DEF Reads, RootRead, HereRead
<1>12. Span(u, a, b, root) = SubSeq(text, 1, offset - 1)
    BY <1>11 DEF Span, Stop
<1> QED
    BY <1>7, <1>10, <1>11, <1>12

\* What cJSON_Parse returns, written out, is the text it has read.
THEOREM TreeIsTextAlways == Spec => []TreeIsText
<1>1. Init => ParserInv /\ OwnInv /\ ReadInv
    BY ParserInvInit, OwnInit, ReadInvInit
<1>2. ParserInv /\ OwnInv /\ ReadInv /\ [Next]_vars => (ParserInv /\ OwnInv /\ ReadInv)'
    BY ParserInvNext, OwnInvNext, ReadInvNext
<1>3. ParserInv /\ OwnInv /\ ReadInv => TreeIsText
    BY TreeWritten DEF ReadInv, TreeIsText
<1> QED
    BY <1>1, <1>2, <1>3, PTL DEF Spec

-----------------------------------------------------------------------------
(* The grammar *)

Spans(f, d) ==
    {x \in (DOMAIN text) \X (DOMAIN text) :
        \/ x[1] = x[2] /\ text[x[1]] \in Scalars
        \/ d > 0 /\ IsList(f[d - 1], x[1], x[2])}

Solved(f) == f = [d \in 0..NestingLimit |-> Spans(f, d)]

LEMMA ValuesSolved == \A d \in 0..NestingLimit : Values[d] = Spans(Values, d)
<1> DEFINE T == {m \in Nat : \E f : \A d \in 0..m : f[d] = Spans(f, d)}
<1>0. NestingLimit \in Nat
    BY CjsonAssumption
<1>1. 0 \in T
    <2> DEFINE f == [d \in Nat |-> Spans(<<>>, 0)]
    <2>1. \A d \in 0..0 : d = 0
        OBVIOUS
    <2>2. Spans(f, 0) = Spans(<<>>, 0)
        BY DEF Spans
    <2>3. f[0] = Spans(f, 0)
        BY <2>2
    <2> HIDE DEF f
    <2> QED
        BY <2>1, <2>3
<1>2. ASSUME NEW m \in T
      PROVE  m + 1 \in T
    <2>1. PICK f : \A d \in 0..m : f[d] = Spans(f, d)
        OBVIOUS
    <2>2. PICK s : s = Spans(f, m + 1)
        OBVIOUS
    <2> DEFINE h == [d \in Nat |-> IF d = m + 1 THEN s ELSE f[d]]
    <2>3. h[m + 1] = s /\ \A d \in 0..m : h[d] = f[d]
        OBVIOUS
    <2> HIDE DEF h
    <2>4. ASSUME NEW d \in 0..m + 1
          PROVE  Spans(h, d) = Spans(f, d)
        <3>1. d > 0 => d - 1 \in 0..m
            OBVIOUS
        <3>2. d > 0 => h[d - 1] = f[d - 1]
            BY <2>3, <3>1
        <3> QED
            BY <3>2 DEF Spans
    <2>5. ASSUME NEW d \in 0..m + 1
          PROVE  h[d] = Spans(h, d)
        <3>1. d \in 0..m \/ d = m + 1
            OBVIOUS
        <3> QED
            BY <2>1, <2>2, <2>3, <2>4, <3>1
    <2> QED
        BY <2>5
<1> HIDE DEF T
<1>3. \A m \in Nat : m \in T
    BY <1>1, <1>2, AllNumbers
<1>4. PICK f : \A d \in 0..NestingLimit : f[d] = Spans(f, d)
    BY <1>0, <1>3 DEF T
<1> DEFINE F == [d \in 0..NestingLimit |-> f[d]]
<1>5. ASSUME NEW d \in 0..NestingLimit
      PROVE  f[d] = Spans(F, d)
    <2>1. d > 0 => d - 1 \in 0..NestingLimit
        BY <1>0
    <2>2. d > 0 => F[d - 1] = f[d - 1]
        BY <2>1
    <2> HIDE DEF F
    <2>3. Spans(F, d) = Spans(f, d)
        BY <2>2 DEF Spans
    <2> QED
        BY <1>4, <2>3
<1>6. Solved(F)
    <2>1. F = [d \in 0..NestingLimit |-> f[d]]
        OBVIOUS
    <2> HIDE DEF F
    <2> QED
        BY <1>5, <2>1, Zenon DEF Solved
<1>7. Solved(CHOOSE v : Solved(v))
    <2> HIDE DEF F
    <2> QED
        BY <1>6, Zenon
<1>8. Values = CHOOSE v : Solved(v)
    BY Zenon DEF Values, Solved, Spans
<1>9. Solved(Values)
    BY <1>7, <1>8, Zenon
<1> QED
    BY <1>9, Zenon DEF Solved

LEMMA ValueIs ==
    ASSUME NEW d \in 0..NestingLimit, NEW i, NEW j
    PROVE  <<i, j>> \in Values[d] <=>
               /\ i \in DOMAIN text /\ j \in DOMAIN text
               /\ (i = j /\ text[i] \in Scalars) \/ (d > 0 /\ IsList(Values[d - 1], i, j))
<1>1. Values[d] = Spans(Values, d)
    BY ValuesSolved
<1>2. <<i, j>>[1] = i /\ <<i, j>>[2] = j
    OBVIOUS
<1>3. <<i, j>> \in (DOMAIN text) \X (DOMAIN text) <=> i \in DOMAIN text /\ j \in DOMAIN text
    OBVIOUS
<1> QED
    BY <1>1, <1>2, <1>3, Zenon DEF Spans

LEMMA ListIs ==
    ASSUME NEW values, NEW i, NEW j
    PROVE  IsList(values, i, j) <=>
               /\ i < j /\ text[i] \in Lists /\ text[j] = Closer[text[i]]
               /\ \/ j = i + 1
                  \/ \E C \in SUBSET {m \in i + 1..j - 1 : text[m] = Comma} :
                        \A x \in C \cup {i} : \E y \in C \cup {j} :
                            x < y /\ IsElement(text[i], values, x + 1, y - 1)
<1>1. Lists = DOMAIN Closer
    BY DEF Lists, Closer
<1> QED
    BY <1>1, Zenon DEF IsList, Comma

LEMMA ElementIs ==
    ASSUME NEW opened \in Lists, NEW values, NEW x, NEW y
    PROVE  IsElement(opened, values, x, y) <=>
               IF opened = Brace
               THEN x + 2 <= y /\ text[x] = "string" /\ text[x + 1] = Colon
                    /\ <<x + 2, y>> \in values
               ELSE <<x, y>> \in values
BY DEF Lists, Brace, Colon, IsElement

LEMMA ItemIsValue ==
    ASSUME ParserInv, OwnInv, NEW u, NEW a, NEW b, NEW g,
           LinksInv(u), Numbers(a), Numbers(b), Numbers(g), Reads(u, a, b, g), pc = "done",
           NEW n \in 1..Len(heap), u[n] # 0 \/ n = root,
           \A m \in 1..Len(heap) : u[m] = n =>
               g[m] <= NestingLimit /\ <<Begins(a, m), b[m] - 1>> \in Values[NestingLimit - g[m]]
    PROVE  g[n] <= NestingLimit /\ <<Begins(a, n), b[n] - 1>> \in Values[NestingLimit - g[n]]
<1> DEFINE N == Len(text)
           k == Len(heap)
<1>0. NestingLimit \in Nat
    BY CjsonAssumption
<1>p. PICK i, j, h : i = Begins(a, n) /\ j = b[n] - 1 /\ h = g[n]
    OBVIOUS
<1>1. N \in Nat /\ DOMAIN text = 1..N /\ offset \in 1..N + 1
    BY DEF ParserInv, TextInv
<1>2. /\ k \in Nat
      /\ \A m \in 1..k :
            /\ u[m] \in Nat /\ u[m] < m /\ a[m] \in Nat /\ b[m] \in Nat /\ g[m] \in Nat
            /\ Begins(a, m) \in Nat
            /\ heap[m].next # NULL => heap[m].next \in 1..k /\ m < heap[m].next
            /\ heap[m].next # NULL => u[m] # 0 /\ u[heap[m].next] = u[m]
            /\ heap[m].child # NULL => heap[m].child \in 1..k /\ u[heap[m].child] = m
    <2>1. Typed(u, a, b, g)
        BY ReadTypes
    <2> QED
        BY <2>1 DEF Typed
<1>3. /\ 1 <= a[n] /\ Begins(a, n) < b[n] /\ b[n] <= offset
      /\ text[i] = heap[n].type
      /\ ScalarRead(a, b, n) \/ ListRead(u, a, b, g, n)
    BY <1>p, AllRead DEF ItemRead
<1>4. a[n] <= i /\ i \in Nat /\ j \in Nat /\ h \in Nat
    <2>1. a[n] <= Begins(a, n)
        BY <1>2 DEF Begins
    <2> QED
        BY <1>2, <1>3, <1>p, <2>1
<1>5. i \in 1..N /\ j \in 1..N /\ i <= j
    BY <1>1, <1>2, <1>3, <1>4, <1>p, SMTT(20)
<1>6. h <= NestingLimit
    <2>1. CASE u[n] = 0
        BY <1>0, <1>p, <2>1 DEF Reads, RootRead
    <2>2. CASE u[n] # 0
        <3>1. u[n] \in 1..k /\ ListRead(u, a, b, g, u[n])
            BY <2>2, AllRead
        <3>2. g[u[n]] < NestingLimit /\ g[n] = g[u[n]] + 1
            BY <3>1 DEF ListRead
        <3> QED
            BY <1>0, <1>2, <1>p, <3>1, <3>2
    <2> QED
        BY <2>1, <2>2
<1>7. CASE ScalarRead(a, b, n)
    <2>1. heap[n].type \in Scalars /\ j = i
        BY <1>2, <1>4, <1>7, <1>p DEF ScalarRead
    <2>2. NestingLimit - h \in 0..NestingLimit
        BY <1>0, <1>4, <1>6
    <2>3. <<i, j>> \in Values[NestingLimit - h]
        BY <1>1, <1>3, <1>5, <2>1, <2>2, ValueIs
    <2> QED
        BY <1>6, <1>p, <2>3
<1>8. CASE ListRead(u, a, b, g, n)
    <2>1. /\ heap[n].type \in Lists /\ h < NestingLimit
          /\ i + 1 < b[n] /\ text[j] = Closer[heap[n].type]
          /\ heap[n].child = NULL => b[n] = i + 2
          /\ heap[n].child # NULL => a[heap[n].child] = i + 1
        BY <1>8, <1>p DEF ListRead
    <2>2. i < j /\ (heap[n].child = NULL => j = i + 1)
        BY <1>2, <1>4, <1>p, <2>1
    <2>3. PICK d : d = NestingLimit - h /\ d \in 0..NestingLimit /\ d > 0
        BY <1>0, <1>4, <2>1
    <2> DEFINE C == {x \in i + 1..j - 1 : text[x] = Comma /\ \E m \in 1..k :
                         u[m] = n /\ heap[m].next # NULL /\ b[m] = x}
    <2>4. ASSUME NEW m \in 1..k, u[m] = n, NEW x \in Nat, i <= x, a[m] = x + 1
          PROVE  /\ b[m] \in C \cup {j} /\ x < b[m]
                 /\ IsElement(heap[n].type, Values[d - 1], x + 1, b[m] - 1)
        <3>1. /\ b[m] # 0 /\ b[m] < b[n] /\ g[m] = h + 1
              /\ heap[m].next = NULL => b[m] = j
              /\ heap[m].string # NULL <=> heap[n].type = Brace
            BY <1>8, <1>p, <2>4 DEF ListRead
        <3>2. n # 0
            BY <1>2
        <3>3. /\ Begins(a, m) < b[m] /\ (heap[m].next # NULL => text[b[m]] = Comma)
            BY <2>4, <3>2, AllRead DEF ItemRead
        <3>4. /\ heap[m].string # NULL => Begins(a, m) = x + 3
              /\ heap[m].string = NULL => Begins(a, m) = x + 1
            BY <2>4 DEF Begins
        <3>5. x + 1 < b[m] /\ b[m] <= j
            <4>1. b[m] \in Nat /\ b[n] \in Nat
                BY <1>2, <2>4
            <4>2. b[m] <= j
                BY <1>4, <1>p, <3>1, <4>1
            <4>3. PICK e : e = Begins(a, m)
                OBVIOUS
            <4>4. e = x + 3 \/ e = x + 1
                BY <3>4, <4>3
            <4>5. e < b[m]
                BY <3>3, <4>3
            <4> QED
                BY <2>4, <4>1, <4>2, <4>4, <4>5
        <3>6. b[m] \in C \cup {j}
            <4>1. CASE heap[m].next = NULL
                BY <3>1, <4>1
            <4>2. CASE heap[m].next # NULL /\ b[m] # j
                <5>1. b[m] \in i + 1..j - 1
                    BY <1>2, <1>4, <2>4, <3>5, <4>2, SMTT(20)
                <5> QED
                    BY <2>4, <3>3, <4>2, <5>1
            <4>3. CASE b[m] = j
                BY <4>3
            <4> QED
                BY <4>1, <4>2, <4>3
        <3>7. <<Begins(a, m), b[m] - 1>> \in Values[d - 1]
            <4>1. NestingLimit - g[m] = d - 1
                BY <1>0, <1>4, <2>3, <3>1
            <4> QED
                BY <2>4, <4>1
        <3>8. IsElement(heap[n].type, Values[d - 1], x + 1, b[m] - 1)
            <4>1. CASE heap[n].type = Brace
                <5>1. Begins(a, m) = x + 1 + 2 /\ text[x + 1] = "string" /\ text[x + 1 + 1] = Colon
                    <6>1. text[a[m]] = "string" /\ text[a[m] + 1] = Colon
                        BY <3>1, <4>1 DEF Reads, NamesRead
                    <6> QED
                        BY <2>4, <3>1, <3>4, <4>1, <6>1
                <5>2. x + 1 + 2 <= b[m] - 1
                    BY <1>2, <2>4, <3>3, <5>1
                <5> QED
                    BY <2>1, <3>7, <4>1, <5>1, <5>2, ElementIs
            <4>2. CASE heap[n].type # Brace
                BY <2>1, <3>1, <3>4, <3>7, <4>2, ElementIs
            <4> QED
                BY <4>1, <4>2
        <3>9. x < b[m]
            BY <1>2, <2>4, <3>5
        <3> QED
            BY <3>6, <3>8, <3>9
    <2>5. IsList(Values[d - 1], i, j)
        <3>1. CASE heap[n].child = NULL
            BY <1>3, <2>1, <2>2, <3>1, ListIs
        <3>2. CASE heap[n].child # NULL
            <4>1. ASSUME NEW x \in C \cup {i}
                  PROVE  \E y \in C \cup {j} :
                            x < y /\ IsElement(heap[n].type, Values[d - 1], x + 1, y - 1)
                <5>1. x \in Nat /\ i <= x
                    BY <1>4
                <5>2. CASE x = i
                    <6>1. heap[n].child \in 1..k /\ u[heap[n].child] = n /\ a[heap[n].child] = x + 1
                        BY <1>2, <2>1, <3>2, <5>2
                    <6> HIDE DEF C
                    <6> QED
                        BY <2>4, <5>1, <6>1
                <5>3. CASE x \in C
                    <6>1. PICK m \in 1..k : u[m] = n /\ heap[m].next # NULL /\ b[m] = x
                        BY <5>3
                    <6>2. n # 0
                        BY <1>2
                    <6>3. a[heap[m].next] = x + 1
                        BY <6>1, <6>2, AllRead DEF ItemRead
                    <6>4. heap[m].next \in 1..k /\ u[heap[m].next] = n
                        BY <1>2, <6>1
                    <6> HIDE DEF C
                    <6> QED
                        BY <2>4, <5>1, <6>3, <6>4
                <5> QED
                    BY <5>2, <5>3
            <4>2. C \in SUBSET {m \in i + 1..j - 1 : text[m] = Comma}
                OBVIOUS
            <4> HIDE DEF C
            <4> QED
                BY <1>3, <2>1, <2>2, <4>1, <4>2, ListIs
        <3> QED
            BY <3>1, <3>2
    <2>6. <<i, j>> \in Values[d]
        BY <1>1, <1>5, <2>3, <2>5, ValueIs
    <2> QED
        BY <1>6, <1>p, <2>3, <2>6
<1> QED
    BY <1>3, <1>7, <1>8

HasValue == \E j \in DOMAIN text : <<1, j>> \in Values[NestingLimit]

\* What cJSON_Parse returns is read from a value.
LEMMA RootIsValue ==
    ASSUME ParserInv, OwnInv, NEW u, NEW a, NEW b, NEW g,
           LinksInv(u), Numbers(a), Numbers(b), Numbers(g), Reads(u, a, b, g), pc = "done"
    PROVE  HasValue
<1> DEFINE k == Len(heap)
           IsRead(n) == g[n] <= NestingLimit
                        /\ <<Begins(a, n), b[n] - 1>> \in Values[NestingLimit - g[n]]
           T == {n \in 1..k : (u[n] # 0 \/ n = root) => IsRead(n)}
<1>1. k \in Nat /\ \A n \in 1..k : u[n] \in Nat /\ u[n] < n
    <2>1. Typed(u, a, b, g)
        BY ReadTypes
    <2> QED
        BY <2>1 DEF Typed
<1>2. ASSUME NEW n \in 1..k, \A m \in 1..k : n < m => m \in T
      PROVE  n \in T
    <2> SUFFICES ASSUME u[n] # 0 \/ n = root
                 PROVE  IsRead(n)
        OBVIOUS
    <2>1. \A m \in 1..k : u[m] = n => IsRead(m)
        <3> SUFFICES ASSUME NEW m \in 1..k, u[m] = n
                     PROVE  IsRead(m)
            OBVIOUS
        <3>1. n < m /\ u[m] # 0
            BY <1>1
        <3> HIDE DEF IsRead
        <3> QED
            BY <1>2, <3>1
    <2> QED
        BY <2>1, ItemIsValue
<1>3. \A n \in 1..k : n \in T
    <2> HIDE DEF T
    <2> QED
        BY <1>1, <1>2, Downwards
<1>4. root \in 1..k /\ a[root] = 1 /\ g[root] = 0 /\ b[root] = offset /\ Begins(a, root) = 1
    BY DEF Reads, RootRead, HereRead, Begins
<1>5. <<1, offset - 1>> \in Values[NestingLimit]
    <2>1. IsRead(root)
        <3> HIDE DEF IsRead
        <3> QED
            BY <1>3, <1>4
    <2>2. NestingLimit - 0 = NestingLimit
        BY CjsonAssumption
    <2> QED
        BY <1>4, <2>1, <2>2
<1>6. NestingLimit \in 0..NestingLimit
    BY CjsonAssumption
<1>7. offset - 1 \in DOMAIN text
    BY <1>5, <1>6, ValueIs
<1> QED
    BY <1>5, <1>7 DEF HasValue

-----------------------------------------------------------------------------
(* What is not refused is read *)

\* As long as something is read, nothing was refused.
RefusedInv ==
    pc \in Reading \cup {"start"} \/ (pc = "done" /\ root # NULL) => refused = FALSE

LEMMA RefusedInvInit == Init => RefusedInv
BY DEF Init, RefusedInv

LEMMA RefusedInvNext ==
    ASSUME ParserInv, RefusedInv, [Next]_vars
    PROVE  RefusedInv'
<1>1. CASE Start
    <2>1. CASE Allocated
        BY <1>1, <2>1 DEF Start, Allocated, RefusedInv
    <2>2. CASE ~Allocated
        <3>1. root = NULL
            BY <1>1, EmptySeq DEF Start, ParserInv, PlaceInv, HeapInv, NULL
        <3> QED
            BY <1>1, <2>2, <3>1 DEF Start, RefusedInv, Reading
    <2> QED
        BY <2>1, <2>2
<1>2. CASE ParseLiteral
    BY <1>2 DEF ParseLiteral, RefusedInv, Reading
<1>3. CASE ParseNumber
    BY <1>3 DEF ParseNumber, RefusedInv, Reading
<1>4. CASE ParseString
    BY <1>4 DEF ParseString, RefusedInv, Reading, Allocated
<1>5. CASE ParseName
    BY <1>5 DEF ParseName, RefusedInv, Reading, Allocated
<1>6. CASE OpenList
    BY <1>6 DEF OpenList, RefusedInv, Reading
<1>7. CASE AddItem
    <2>1. pc \in Reading
        BY <1>7 DEF AddItem, ItemFollows, Reading
    <2> QED
        BY <1>7, <2>1 DEF AddItem, RefusedInv, Reading, Allocated
<1>8. CASE CloseList
    BY <1>8 DEF CloseList, RefusedInv, Reading
<1>9. CASE Accept
    BY <1>9 DEF Accept, RefusedInv, Reading
<1>10. CASE Reject
    BY <1>10 DEF Reject, RefusedInv, Reading
<1>11. CASE Unwind
    BY <1>11 DEF Unwind, RefusedInv, Reading
<1>12. CASE Delete
    BY <1>12 DEF Delete, RefusedInv, Reading
<1>13. CASE UNCHANGED vars
    BY <1>13 DEF vars, RefusedInv
<1> QED
    BY <1>1, <1>2, <1>3, <1>4, <1>5, <1>6, <1>7, <1>8, <1>9, <1>10, <1>11, <1>12, <1>13 DEF Next

LEMMA TextKept ==
    ASSUME text' = text
    PROVE  Values' = Values
BY DEF Values, IsList, IsElement

\* Commas C lead on to the end e of a list.
Route(o, d, C, e) ==
    /\ e \in DOMAIN text /\ text[e] = Closer[o] /\ C \subseteq DOMAIN text
    /\ \A x \in C : text[x] = Comma /\ \E y \in C \cup {e} :
           x < y /\ IsElement(o, Values[d], x + 1, y - 1)

\* For each list that is read, commas that lead to an end; where it ends the list around it
\* goes on.
Routed(C, e) ==
    /\ \A i \in 1..Len(stack) : (i < Len(stack) \/ pc # "opened") =>
           Route(stack[i].opened, NestingLimit - i, C[i], e[i])
    /\ \A i \in 1..Len(stack) - 1 : e[i + 1] + 1 \in C[i] \cup {e[i]}

\* Where an item of the innermost list may end.
Stops(C, e) == IF stack = <<>> THEN Nat ELSE C[Len(stack)] \cup {e[Len(stack)]}

\* What is to be read leads there.
Leads(C, e) ==
    /\ pc = "value" =>
           \E t \in Stops(C, e) : <<offset, t - 1>> \in Values[NestingLimit - Len(stack)]
    /\ pc = "name" =>
           \E t \in Stops(C, e) :
               IsElement(Brace, Values[NestingLimit - Len(stack)], offset, t - 1)
    /\ pc = "behind" => offset \in Stops(C, e)
    /\ pc = "opened" =>
           /\ text[offset - 1] = stack[Len(stack)].opened /\ e[Len(stack)] \in DOMAIN text
           /\ IsList(Values[NestingLimit - Len(stack)], offset - 1, e[Len(stack)])

\* A text that begins with a value is read to the end of it, or refused.
TrackInv ==
    /\ pc \in Reading /\ HasValue => \E C, e : Routed(C, e) /\ Leads(C, e)
    /\ pc = "failed" \/ (pc = "done" /\ root = NULL) => refused \/ ~HasValue

LEMMA ValuesKept ==
    ASSUME text' = text
    PROVE  /\ HasValue' = HasValue
           /\ \A o, d, C, e : Route(o, d, C, e)' <=> Route(o, d, C, e)
           /\ \A o, d, i, j : IsElement(o, Values[d], i, j)' <=> IsElement(o, Values[d], i, j)
           /\ \A d, i, j : IsList(Values[d], i, j)' <=> IsList(Values[d], i, j)
           /\ \A d, i, j : (<<i, j>> \in Values[d])' <=> <<i, j>> \in Values[d]
<1>1. Values' = Values
    BY TextKept
<1>2. HasValue' = HasValue
    BY <1>1 DEF HasValue
<1>3. \A o, d, i, j : IsElement(o, Values[d], i, j)' <=> IsElement(o, Values[d], i, j)
    BY <1>1 DEF IsElement
<1>4. \A d, i, j : IsList(Values[d], i, j)' <=> IsList(Values[d], i, j)
    BY <1>1 DEF IsList, IsElement
<1>5. \A d, i, j : (<<i, j>> \in Values[d])' <=> <<i, j>> \in Values[d]
    BY <1>1
<1>6. \A o, d, C, e : Route(o, d, C, e)' <=> Route(o, d, C, e)
    BY <1>3 DEF Route
<1> QED
    BY <1>2, <1>3, <1>4, <1>5, <1>6

\* The token an element begins with.
LEMMA ElementBegins ==
    ASSUME TextInv, NEW d \in 0..NestingLimit, NEW o \in Lists, NEW x \in Nat, x # 0, NEW y,
           IsElement(o, Values[d], x, y)
    PROVE  x \in DOMAIN text /\ text[x] \in Scalars \cup Lists
<1>1. DOMAIN text = 1..Len(text) /\ Len(text) \in Nat
    BY DEF TextInv
<1>2. CASE o = Brace
    <2>1. text[x] = "string" /\ <<x + 2, y>> \in Values[d]
        BY <1>2, ElementIs
    <2>2. x + 2 \in DOMAIN text
        BY <2>1, ValueIs
    <2> QED
        BY <1>1, <2>1, <2>2 DEF Scalars
<1>3. CASE o # Brace
    <2>1. <<x, y>> \in Values[d]
        BY <1>3, ElementIs
    <2>2. /\ x \in DOMAIN text
          /\ (x = y /\ text[x] \in Scalars) \/ (d > 0 /\ IsList(Values[d - 1], x, y))
        BY <2>1, ValueIs
    <2> QED
        BY <2>2, ListIs
<1> QED
    BY <1>2, <1>3

\* The value that is to be read.
LEMMA ValueHere ==
    ASSUME ParserInv, NEW t, <<offset, t - 1>> \in Values[NestingLimit - Len(stack)]
    PROVE  /\ offset \in DOMAIN text /\ t - 1 \in DOMAIN text /\ Token = text[offset]
           /\ \/ Token \in Scalars /\ t - 1 = offset
              \/ /\ Token \in Lists /\ ~TooDeep
                 /\ IsList(Values[NestingLimit - (Len(stack) + 1)], offset, t - 1)
<1>1. Len(stack) \in Nat /\ Len(stack) <= NestingLimit /\ NestingLimit \in Nat
    BY CjsonAssumption DEF ParserInv, StackInv
<1>2. PICK d : d = NestingLimit - Len(stack) /\ d \in 0..NestingLimit
    BY <1>1
<1>3. /\ offset \in DOMAIN text /\ t - 1 \in DOMAIN text
      /\ \/ offset = t - 1 /\ text[offset] \in Scalars
         \/ d > 0 /\ IsList(Values[d - 1], offset, t - 1)
    BY <1>2, ValueIs
<1>4. Token = text[offset]
    BY <1>3 DEF Token, TokenAt
<1>5. CASE d > 0 /\ IsList(Values[d - 1], offset, t - 1)
    <2>1. text[offset] \in Lists
        BY <1>5, ListIs
    <2>2. ~TooDeep /\ d - 1 = NestingLimit - (Len(stack) + 1)
        BY <1>1, <1>2, <1>5 DEF TooDeep
    <2> QED
        BY <1>3, <1>4, <1>5, <2>1, <2>2
<1> QED
    BY <1>3, <1>4, <1>5

LEMMA RouteTypes ==
    ASSUME ParserInv
    PROVE  /\ Len(stack) \in Nat /\ Len(stack) <= NestingLimit /\ NestingLimit \in Nat
           /\ stack = <<>> <=> Len(stack) = 0
           /\ \A i \in 1..Len(stack) : stack[i].opened \in Lists
           /\ \A i \in 0..Len(stack) : NestingLimit - i \in 0..NestingLimit
           /\ Len(text) \in Nat /\ DOMAIN text = 1..Len(text) /\ offset \in 1..Len(text) + 1
<1>1. stack \in Seq(FramesUpTo(Len(heap))) /\ Len(stack) <= NestingLimit /\ NestingLimit \in Nat
    BY CjsonAssumption DEF ParserInv, StackInv
<1>2. Len(stack) \in Nat /\ (stack = <<>> <=> Len(stack) = 0)
    BY <1>1, EmptySeq
<1>3. \A i \in 1..Len(stack) : stack[i].opened \in Lists
    BY <1>1, FrameTypes, Zenon DEF Lists
<1>4. \A i \in 0..Len(stack) : NestingLimit - i \in 0..NestingLimit
    BY <1>1, <1>2
<1> QED
    BY <1>1, <1>2, <1>3, <1>4 DEF ParserInv, TextInv

LEMMA StopsAt ==
    ASSUME ParserInv, NEW C, NEW e, Routed(C, e), pc # "opened"
    PROVE  /\ Stops(C, e) \subseteq Nat
           /\ stack # <<>> =>
                 /\ Len(stack) \in 1..Len(stack)
                 /\ Stops(C, e) = C[Len(stack)] \cup {e[Len(stack)]}
                 /\ Route(stack[Len(stack)].opened, NestingLimit - Len(stack),
                          C[Len(stack)], e[Len(stack)])
<1>1. ASSUME stack # <<>>
      PROVE  /\ Len(stack) \in 1..Len(stack)
             /\ Stops(C, e) = C[Len(stack)] \cup {e[Len(stack)]}
             /\ Route(stack[Len(stack)].opened, NestingLimit - Len(stack),
                      C[Len(stack)], e[Len(stack)])
    <2>1. Len(stack) \in 1..Len(stack)
        BY <1>1, RouteTypes
    <2> QED
        BY <1>1, <2>1 DEF Stops, Routed
<1>2. CASE stack = <<>>
    BY <1>2 DEF Stops
<1>3. CASE stack # <<>>
    <2>1. C[Len(stack)] \subseteq DOMAIN text /\ e[Len(stack)] \in DOMAIN text
        BY <1>1, <1>3 DEF Route
    <2>2. DOMAIN text \subseteq Nat
        BY RouteTypes
    <2> QED
        BY <1>1, <1>3, <2>1, <2>2
<1> QED
    BY <1>1, <1>2, <1>3

\* While the same list is read the routes stay.
LEMMA RoutesStay ==
    ASSUME ParserInv, NEW C, NEW e, Routed(C, e), pc # "opened", UNCHANGED <<text, stack>>
    PROVE  Routed(C, e)' /\ Stops(C, e)' = Stops(C, e)
<1>1. \A o, d, c, x : Route(o, d, c, x)' <=> Route(o, d, c, x)
    BY ValuesKept
<1>2. Stops(C, e)' = Stops(C, e)
    BY DEF Stops
<1>3. \A i \in 1..Len(stack) : Route(stack[i].opened, NestingLimit - i, C[i], e[i])
    BY DEF Routed
<1>4. (\A i \in 1..Len(stack) : Route(stack[i].opened, NestingLimit - i, C[i], e[i]))'
    BY <1>1, <1>3
<1>5. \A i \in 1..Len(stack') - 1 : e[i + 1] + 1 \in C[i] \cup {e[i]}
    BY DEF Routed
<1> QED
    BY <1>2, <1>4, <1>5 DEF Routed

LEMMA FillTracks ==
    ASSUME ParserInv, ParseLiteral \/ ParseNumber \/ ParseString, pc' # "failed",
           NEW C, NEW e, Routed(C, e), Leads(C, e)
    PROVE  Routed(C, e)' /\ Leads(C, e)'
<1>1. /\ Token \in Scalars /\ pc = "value" /\ pc' = "behind" /\ offset' = offset + 1
      /\ UNCHANGED <<text, stack>>
    BY FillSteps
<1>2. PICK t \in Stops(C, e) : <<offset, t - 1>> \in Values[NestingLimit - Len(stack)]
    BY <1>1 DEF Leads
<1>3. t - 1 = offset
    <2>1. Token \notin Lists
        BY <1>1 DEF Scalars, Numerals, Literals, Lists
    <2> QED
        BY <1>2, <2>1, ValueHere
<1>4. t = offset'
    <2>1. t \in Nat
        BY <1>1, <1>2, StopsAt
    <2> QED
        BY <1>1, <1>3, <2>1
<1>5. Routed(C, e)' /\ Stops(C, e)' = Stops(C, e)
    BY <1>1, RoutesStay
<1> QED
    BY <1>1, <1>2, <1>4, <1>5 DEF Leads

LEMMA NameTracks ==
    ASSUME ParserInv, ParseName, ~(Refused /\ pc' = "failed" /\ UNCHANGED root),
           NEW C, NEW e, Routed(C, e), Leads(C, e)
    PROVE  pc' = "value" /\ Routed(C, e)' /\ Leads(C, e)'
<1>1. /\ pc = "name" /\ UNCHANGED <<text, stack>>
      /\ \/ pc' = "value" /\ TokenAt(offset + 1) = Colon /\ offset' = offset + 2
         \/ pc' = "failed"
    BY NameSteps
<1>2. PICK t \in Stops(C, e) :
          IsElement(Brace, Values[NestingLimit - Len(stack)], offset, t - 1)
    BY <1>1 DEF Leads
<1>3. /\ text[offset + 1] = Colon
      /\ <<offset + 2, t - 1>> \in Values[NestingLimit - Len(stack)]
    BY <1>2, ElementIs DEF Lists, Brace
<1>4. TokenAt(offset + 1) = Colon
    <2>1. NestingLimit - Len(stack) \in 0..NestingLimit
        BY RouteTypes
    <2>2. offset + 2 \in DOMAIN text
        BY <1>3, <2>1, ValueIs
    <2>3. offset + 1 \in DOMAIN text
        BY <2>2, RouteTypes
    <2> QED
        BY <1>3, <2>3 DEF TokenAt
<1>5. pc' = "value" /\ offset' = offset + 2
    BY <1>1, <1>4 DEF ParseName, Colon, Refused
<1>6. Routed(C, e)' /\ Stops(C, e)' = Stops(C, e)
    BY <1>1, RoutesStay
<1>7. (<<offset, t - 1>> \in Values[NestingLimit - Len(stack)])'
    <2>1. \A d, i, j : (<<i, j>> \in Values[d])' <=> <<i, j>> \in Values[d]
        BY <1>1, ValuesKept
    <2>2. PICK d, i : d = NestingLimit - Len(stack) /\ i = offset + 2
        OBVIOUS
    <2>3. (<<i, t - 1>> \in Values[d])'
        BY <1>3, <2>1, <2>2
    <2> QED
        BY <1>1, <1>5, <2>2, <2>3
<1> QED
    BY <1>2, <1>5, <1>6, <1>7 DEF Leads

LEMMA OpenTracks ==
    ASSUME ParserInv, OpenList, NEW C, NEW e, Routed(C, e), Leads(C, e)
    PROVE  \E z : Routed(C, z)' /\ Leads(C, z)'
<1> DEFINE L == Len(stack)
<1>1. /\ pc = "value" /\ pc' = "opened" /\ offset' = offset + 1 /\ Token \in Lists
      /\ text' = text /\ Len(stack') = L + 1
      /\ \A i \in 1..L : stack'[i] = stack[i]
      /\ stack'[L + 1].opened = Token
    BY OpenSteps
<1>2. L \in Nat /\ offset \in Nat
    BY RouteTypes
<1>3. PICK t \in Stops(C, e) : <<offset, t - 1>> \in Values[NestingLimit - L]
    BY <1>1 DEF Leads
<1>4. /\ t - 1 \in DOMAIN text /\ Token = text[offset]
      /\ IsList(Values[NestingLimit - (L + 1)], offset, t - 1)
    <2>1. Token \notin Scalars
        BY <1>1 DEF Scalars, Numerals, Literals, Lists
    <2> QED
        BY <1>3, <2>1, ValueHere
<1>5. t \in Nat /\ (L # 0 => t \in C[L] \cup {e[L]})
    <2>1. t \in Nat
        BY <1>1, <1>3, StopsAt
    <2>2. L # 0 => Stops(C, e) = C[L] \cup {e[L]}
        BY <1>1, StopsAt, RouteTypes
    <2> QED
        BY <1>3, <2>1, <2>2
<1>6. PICK z : z[L + 1] = t - 1 /\ \A i \in 1..L : z[i] = e[i]
    <2> DEFINE z == [i \in Nat |-> IF i = L + 1 THEN t - 1 ELSE e[i]]
    <2>1. z[L + 1] = t - 1 /\ \A i \in 1..L : z[i] = e[i]
        BY <1>2
    <2> QED
        BY <2>1
<1>7. Routed(C, z)'
    <2>1. \A o, d, c, x : Route(o, d, c, x)' <=> Route(o, d, c, x)
        BY <1>1, ValuesKept
    <2>2. \A i \in 1..L : Route(stack[i].opened, NestingLimit - i, C[i], e[i])
        BY <1>1 DEF Routed
    <2>3. ASSUME NEW i \in 1..Len(stack'), i < Len(stack')
          PROVE  Route(stack[i].opened, NestingLimit - i, C[i], z[i])'
        <3>1. i \in 1..L
            BY <1>1, <1>2, <2>3
        <3>2. Route(stack[i].opened, NestingLimit - i, C[i], z[i])
            BY <1>6, <2>2, <3>1
        <3> QED
            BY <1>1, <2>1, <3>1, <3>2
    <2>4. ASSUME NEW i \in 1..Len(stack') - 1
          PROVE  z[i + 1] + 1 \in C[i] \cup {z[i]}
        <3>1. i \in 1..L /\ L # 0
            BY <1>1, <1>2
        <3>2. CASE i = L
            BY <1>2, <1>5, <1>6, <3>1, <3>2
        <3>3. CASE i # L
            <4>1. i \in 1..L - 1 /\ i + 1 \in 1..L
                BY <1>2, <3>1, <3>3
            <4>2. e[i + 1] + 1 \in C[i] \cup {e[i]}
                BY <4>1 DEF Routed
            <4> QED
                BY <1>6, <3>1, <4>1, <4>2
        <3> QED
            BY <3>2, <3>3
    <2> QED
        BY <1>1, <2>3, <2>4 DEF Routed
<1>8. Leads(C, z)'
    <2>1. IsList(Values[NestingLimit - Len(stack)], offset - 1, z[Len(stack)])'
        <3>1. \A d, i, j : IsList(Values[d], i, j)' <=> IsList(Values[d], i, j)
            BY <1>1, ValuesKept
        <3>2. PICK d, i, j : d = NestingLimit - (L + 1) /\ i = offset /\ j = z[L + 1]
            OBVIOUS
        <3>3. IsList(Values[d], i, j)'
            BY <1>4, <1>6, <3>1, <3>2
        <3>4. offset' - 1 = i /\ Len(stack') = L + 1
            BY <1>1, <1>2, <3>2
        <3> QED
            BY <3>2, <3>3, <3>4
    <2>2. /\ text'[offset' - 1] = stack'[Len(stack')].opened
          /\ z[Len(stack')] \in DOMAIN text'
        <3>1. offset' - 1 = offset
            BY <1>1, <1>2
        <3> QED
            BY <1>1, <1>4, <1>6, <3>1
    <2> QED
        BY <1>1, <2>1, <2>2 DEF Leads
<1> QED
    BY <1>7, <1>8

LEMMA AddTracks ==
    ASSUME ParserInv, OwnInv, AddItem, ~(Refused /\ pc' = "failed" /\ UNCHANGED root),
           NEW C, NEW e, Routed(C, e), Leads(C, e)
    PROVE  \E z : Routed(z, e)' /\ Leads(z, e)'
<1> DEFINE L == Len(stack)
           o == stack[L].opened
           d == NestingLimit - L
<1>1. /\ pc = "opened" \/ (pc = "behind" /\ Token = Comma)
      /\ offset' = IF pc = "opened" THEN offset ELSE offset + 1
      /\ pc' = IF o = Brace THEN "name" ELSE "value"
      /\ text' = text /\ L \in 1..L /\ stack' # <<>>
      /\ Len(stack') = L /\ \A i \in 1..L : stack'[i].opened = stack[i].opened
    <2>1. /\ Len(stack') = L /\ \A i \in 1..L : i # L => stack'[i] = stack[i]
          /\ stack'[L].opened = stack[L].opened
        BY AddSteps
    <2>2. \A i \in 1..L : stack'[i].opened = stack[i].opened
        BY <2>1
    <2> QED
        BY <2>1, <2>2, AddSteps
<1>2. /\ L \in Nat /\ DOMAIN text = 1..Len(text) /\ Len(text) \in Nat
      /\ offset \in 1..Len(text) + 1 /\ o \in Lists /\ d \in 0..NestingLimit
    BY <1>1, RouteTypes
<1>3. ItemFollows
    BY DEF AddItem
<1>4. PICK c : /\ Route(o, d, c, e[L])
               /\ \E y \in c \cup {e[L]} : IsElement(o, Values[d], offset', y - 1)
               /\ pc # "opened" => c = C[L]
    <2>1. CASE pc = "opened"
        <3>1. /\ text[offset - 1] = o /\ e[L] \in DOMAIN text
              /\ IsList(Values[d], offset - 1, e[L]) /\ Token # Closer[o]
            <4>1. Token # Closer[Top.opened] /\ Top = stack[L]
                BY <1>1, <1>3, <2>1, RouteTypes DEF ItemFollows, Top, Last
            <4> QED
                BY <2>1, <4>1 DEF Leads
        <3>2. text[e[L]] = Closer[o] /\ e[L] # offset - 1 + 1
            <4>1. text[e[L]] = Closer[o]
                BY <3>1, ListIs
            <4>2. Token = text[offset] \/ offset \notin DOMAIN text
                BY DEF Token, TokenAt
            <4>3. e[L] # offset
                BY <3>1, <4>1, <4>2
            <4> QED
                BY <1>2, <4>1, <4>3
        <3>3. PICK c \in SUBSET {m \in offset - 1 + 1..e[L] - 1 : text[m] = Comma} :
                  \A x \in c \cup {offset - 1} : \E y \in c \cup {e[L]} :
                      x < y /\ IsElement(o, Values[d], x + 1, y - 1)
            BY <3>1, <3>2, ListIs
        <3>4. c \subseteq DOMAIN text /\ \A x \in c : text[x] = Comma
            BY <1>2, <3>1, <3>3, SMTT(20)
        <3>5. Route(o, d, c, e[L])
            BY <3>1, <3>2, <3>3, <3>4 DEF Route
        <3>6. PICK y \in c \cup {e[L]} : IsElement(o, Values[d], offset - 1 + 1, y - 1)
            BY <3>3
        <3>7. offset - 1 + 1 = offset'
            BY <1>1, <1>2, <2>1
        <3> QED
            BY <2>1, <3>5, <3>6, <3>7
    <2>2. CASE pc = "behind" /\ Token = Comma
        <3>1. /\ Route(o, d, C[L], e[L]) /\ offset \in C[L] \cup {e[L]}
            <4>1. stack # <<>>
                BY <1>1, RouteTypes
            <4> QED
                BY <2>2, <4>1, StopsAt DEF Leads
        <3>2. text[offset] = Comma
            BY <2>2, TokenOf DEF ParserInv
        <3>3. offset # e[L]
            <4>1. text[e[L]] = Closer[o]
                BY <3>1 DEF Route
            <4>2. Closer[o] # Comma
                BY <1>2 DEF Closer, Comma, Lists
            <4> QED
                BY <3>2, <4>1, <4>2
        <3>4. \E y \in C[L] \cup {e[L]} : IsElement(o, Values[d], offset + 1, y - 1)
            BY <3>1, <3>3 DEF Route
        <3> QED
            BY <1>1, <2>2, <3>1, <3>4
    <2> QED
        BY <1>1, <2>1, <2>2
<1> HIDE DEF o, d
<1>5. PICK z : z[L] = c /\ \A i \in 1..L : i # L => z[i] = C[i]
    <2> DEFINE z == [i \in Nat |-> IF i = L THEN c ELSE C[i]]
    <2>1. z[L] = c /\ \A i \in 1..L : i # L => z[i] = C[i]
        BY <1>2
    <2> QED
        BY <2>1
<1>6. \A p, q, r, x : Route(p, q, r, x)' <=> Route(p, q, r, x)
    BY <1>1, ValuesKept
<1>7. Routed(z, e)'
    <2>1. ASSUME NEW i \in 1..L
          PROVE  Route(stack[i].opened, NestingLimit - i, z[i], e[i])'
        <3>1. Route(stack[i].opened, NestingLimit - i, z[i], e[i])
            <4>1. CASE i = L
                BY <1>4, <1>5, <4>1 DEF o, d
            <4>2. CASE i # L
                BY <1>2, <1>5, <4>2 DEF Routed
            <4> QED
                BY <4>1, <4>2
        <3>2. PICK p : p = stack[i].opened
            OBVIOUS
        <3>3. Route(p, NestingLimit - i, z[i], e[i])'
            BY <1>6, <3>1, <3>2
        <3> QED
            BY <1>1, <3>2, <3>3
    <2>2. ASSUME NEW i \in 1..L - 1
          PROVE  e[i + 1] + 1 \in z[i] \cup {e[i]}
        <3>1. e[i + 1] + 1 \in C[i] \cup {e[i]}
            BY DEF Routed
        <3>2. z[i] = C[i]
            BY <1>2, <1>5
        <3> QED
            BY <3>1, <3>2
    <2> QED
        BY <1>1, <2>1, <2>2 DEF Routed
<1>8. Leads(z, e)'
    <2>1. Stops(z, e)' = c \cup {e[L]}
        BY <1>1, <1>5 DEF Stops
    <2>2. PICK y \in c \cup {e[L]} : IsElement(o, Values[d], offset', y - 1)
        BY <1>4
    <2>3. PICK x, p, q : x = offset' /\ p = o /\ q = d
        OBVIOUS
    <2>4. IsElement(p, Values[q], x, y - 1)
        BY <2>2, <2>3
    <2>5. CASE o = Brace
        <3>1. IsElement(Brace, Values[q], x, y - 1)'
            BY <1>1, <2>3, <2>4, <2>5, ValuesKept
        <3>2. IsElement(Brace, Values[NestingLimit - Len(stack)], offset, y - 1)'
            BY <1>1, <2>3, <3>1 DEF d
        <3> QED
            BY <1>1, <2>1, <2>5, <3>2 DEF Leads
    <2>6. CASE o # Brace
        <3>1. <<x, y - 1>> \in Values[q]
            BY <1>2, <2>3, <2>4, <2>6, ElementIs
        <3>2. (<<x, y - 1>> \in Values[q])'
            BY <1>1, <3>1, ValuesKept
        <3>3. (<<offset, y - 1>> \in Values[NestingLimit - Len(stack)])'
            BY <1>1, <2>3, <3>2 DEF d
        <3> QED
            BY <1>1, <2>1, <2>6, <3>3 DEF Leads
    <2> QED
        BY <2>5, <2>6
<1> QED
    BY <1>7, <1>8

\* Where the list that is read is closed is the end it was read to.
LEMMA ClosedAtEnd ==
    ASSUME ParserInv, stack # <<>>, pc \in {"opened", "behind"},
           Token = Closer[stack[Len(stack)].opened],
           NEW C, NEW e, Routed(C, e), Leads(C, e)
    PROVE  offset = e[Len(stack)]
<1> DEFINE L == Len(stack)
           o == stack[L].opened
           d == NestingLimit - L
<1>1. /\ L \in 1..L /\ L \in Nat /\ DOMAIN text = 1..Len(text) /\ Len(text) \in Nat
      /\ offset \in 1..Len(text) + 1 /\ o \in Lists /\ d \in 0..NestingLimit
    BY RouteTypes
<1>2. offset \in 1..Len(text) /\ text[offset] = Token
    BY <1>1, TokenOf DEF ParserInv
<1>3. CASE pc = "behind"
    <2>1. /\ offset \in C[L] \cup {e[L]} /\ Route(o, d, C[L], e[L])
        BY <1>3, StopsAt DEF Leads
    <2>2. Closer[o] # Comma
        BY <1>1 DEF Closer, Comma, Lists
    <2> QED
        BY <1>2, <2>1, <2>2 DEF Route
<1>4. CASE pc = "opened"
    <2>1. text[offset - 1] = o /\ e[L] \in DOMAIN text /\ IsList(Values[d], offset - 1, e[L])
        BY <1>4 DEF Leads
    <2>2. \/ e[L] = offset - 1 + 1
          \/ \E c \in SUBSET {m \in offset - 1 + 1..e[L] - 1 : text[m] = Comma} :
                \A x \in c \cup {offset - 1} : \E y \in c \cup {e[L]} :
                    x < y /\ IsElement(o, Values[d], x + 1, y - 1)
        BY <2>1, ListIs
    <2>3. ASSUME NEW y, IsElement(o, Values[d], offset - 1 + 1, y - 1)
          PROVE  FALSE
        <3>1. offset - 1 + 1 = offset /\ offset \in Nat /\ offset # 0
            BY <1>1
        <3>2. IsElement(o, Values[d], offset, y - 1)
            BY <2>3, <3>1
        <3> HIDE DEF o, d
        <3>3. text[offset] \in Scalars \cup Lists
            BY <1>1, <3>1, <3>2, ElementBegins DEF ParserInv
        <3>4. Closer[o] \notin Scalars \cup Lists
            BY <1>1 DEF Closer, Lists, Scalars, Numerals, Literals
        <3> QED
            BY <1>2, <3>3, <3>4 DEF o
    <2>4. e[L] = offset - 1 + 1
        <3> HIDE DEF o, d
        <3> QED
            BY <2>2, <2>3
    <2> QED
        BY <1>1, <2>4
<1> QED
    BY <1>3, <1>4

LEMMA CloseTracks ==
    ASSUME ParserInv, OwnInv, CloseList, NEW C, NEW e, Routed(C, e), Leads(C, e)
    PROVE  Routed(C, e)' /\ Leads(C, e)'
<1> DEFINE L == Len(stack)
<1>1. /\ pc \in {"opened", "behind"} /\ pc' = "behind" /\ offset' = offset + 1
      /\ text' = text /\ L \in 1..L /\ Token = Closer[stack[L].opened]
      /\ Len(stack') = L - 1 /\ \A i \in 1..L - 1 : i \in 1..L /\ i < L /\ stack'[i] = stack[i]
    BY CloseSteps
<1>2. L \in Nat /\ offset \in Nat /\ stack # <<>>
    BY <1>1, RouteTypes
<1>3. offset = e[L]
    BY <1>1, <1>2, ClosedAtEnd
<1>4. Routed(C, e)'
    <2>1. \A o, d, c, x : Route(o, d, c, x)' <=> Route(o, d, c, x)
        BY <1>1, ValuesKept
    <2>2. ASSUME NEW i \in 1..L - 1
          PROVE  Route(stack[i].opened, NestingLimit - i, C[i], e[i])'
        <3>1. Route(stack[i].opened, NestingLimit - i, C[i], e[i])
            BY <1>1 DEF Routed
        <3>2. PICK o : o = stack[i].opened
            OBVIOUS
        <3>3. Route(o, NestingLimit - i, C[i], e[i])'
            BY <2>1, <3>1, <3>2
        <3> QED
            BY <1>1, <3>2, <3>3
    <2>3. ASSUME NEW i \in 1..Len(stack') - 1
          PROVE  e[i + 1] + 1 \in C[i] \cup {e[i]}
        <3>1. i \in 1..L - 1
            BY <1>1, <1>2
        <3> QED
            BY <3>1 DEF Routed
    <2> QED
        BY <1>1, <2>2, <2>3 DEF Routed
<1>5. offset' \in Stops(C, e)'
    <2>1. CASE L = 1
        <3>1. stack' = <<>>
            <4>1. stack' = Front(stack) /\ Front(stack) \in Seq(FramesUpTo(Len(heap)))
                BY <1>2, Places DEF ParserInv, CloseList
            <4> QED
                BY <1>1, <2>1, <4>1, EmptySeq
        <3> QED
            BY <1>1, <1>2, <3>1 DEF Stops
    <2>2. CASE L # 1
        <3>1. L - 1 \in 1..L - 1 /\ stack' # <<>>
            <4>1. L - 1 \in 1..L - 1
                BY <1>1, <1>2, <2>2
            <4> QED
                BY <1>1, <4>1, EmptySeq
        <3>2. e[L - 1 + 1] + 1 \in C[L - 1] \cup {e[L - 1]}
            BY <3>1 DEF Routed
        <3>3. L - 1 + 1 = L
            BY <1>2
        <3> QED
            BY <1>1, <1>3, <3>1, <3>2, <3>3 DEF Stops
    <2> QED
        BY <2>1, <2>2
<1> QED
    BY <1>1, <1>4, <1>5 DEF Leads

\* Nothing on a route is unexpected.
LEMMA NothingUnexpected ==
    ASSUME ParserInv, Unexpected, NEW C, NEW e, Routed(C, e), Leads(C, e)
    PROVE  FALSE
<1> DEFINE L == Len(stack)
<1>1. Lists = DOMAIN Closer
    BY DEF Lists, Closer
<1>2. CASE pc = "value" /\ (Token \notin Scalars \cup Lists \/ (Token \in Lists /\ TooDeep))
    <2>1. PICK t \in Stops(C, e) : <<offset, t - 1>> \in Values[NestingLimit - L]
        BY <1>2 DEF Leads
    <2>2. Token \in Scalars \/ (Token \in Lists /\ ~TooDeep)
        BY <2>1, ValueHere
    <2>3. Token \in Lists => Token \notin Scalars
        BY DEF Scalars, Numerals, Literals, Lists
    <2> QED
        BY <1>2, <2>2, <2>3
<1>3. CASE pc = "name" /\ Token # "string"
    <2>1. PICK t \in Stops(C, e) : IsElement(Brace, Values[NestingLimit - L], offset, t - 1)
        BY <1>3 DEF Leads
    <2>2. text[offset] = "string"
        BY <2>1, ElementIs DEF Lists, Brace
    <2>a. Brace \in Lists
        BY DEF Lists, Brace
    <2>b. L \in 0..L
        BY RouteTypes
    <2>3. NestingLimit - L \in 0..NestingLimit /\ offset \in Nat /\ offset # 0 /\ Brace \in Lists
        BY <2>a, <2>b, RouteTypes
    <2>4. offset \in DOMAIN text
        BY <2>1, <2>3, ElementBegins DEF ParserInv
    <2> QED
        BY <1>3, <2>2, <2>4 DEF Token, TokenAt
<1>4. CASE pc = "behind" /\ stack # <<>> /\ Token # Comma /\ Token # Closer[stack[L].opened]
    <2>1. /\ offset \in C[L] \cup {e[L]}
          /\ Route(stack[L].opened, NestingLimit - L, C[L], e[L])
        BY <1>4, StopsAt DEF Leads
    <2>2. offset \in DOMAIN text /\ (text[offset] = Comma \/ text[offset] = Closer[stack[L].opened])
        BY <2>1 DEF Route
    <2> QED
        BY <1>4, <2>2 DEF Token, TokenAt
<1>5. stack # <<>> => Top = stack[L]
    BY DEF Top, Last
<1> QED
    BY <1>1, <1>2, <1>3, <1>4, <1>5, Zenon DEF Unexpected, Comma

LEMMA TrackInvInit == Init => TrackInv
BY DEF Init, TrackInv, Reading

\* A call that fails was refused something, or there is no value.
LEMMA RefusedTracks ==
    ASSUME refused' = TRUE, pc' \notin Reading
    PROVE  TrackInv'
BY DEF TrackInv

LEMMA StartTracks ==
    ASSUME ParserInv, ReadInv, Start
    PROVE  TrackInv'
<1>1. CASE ~Refused
    <2>1. /\ pc' = "value" /\ UNCHANGED <<text, offset, stack>> /\ stack = <<>> /\ offset = 1
          /\ root' # NULL
        BY <1>1 DEF Start, ParserInv, PlaceInv, ReadInv, New, NULL
    <2>2. Len(stack') = 0 /\ NestingLimit - 0 = NestingLimit
        BY <2>1, EmptySeq, CjsonAssumption
    <2>3. Stops(<<>>, <<>>)' = Nat
        BY <2>1 DEF Stops
    <2>4. Routed(<<>>, <<>>)'
        BY <2>1, <2>2 DEF Routed
    <2>5. ASSUME HasValue'
          PROVE  Leads(<<>>, <<>>)'
        <3>1. PICK j \in DOMAIN text : <<1, j>> \in Values[NestingLimit]
            BY <2>1, <2>5, ValuesKept DEF HasValue
        <3>2. j \in Nat
            BY DEF ParserInv, TextInv
        <3>3. PICK t : t = j + 1 /\ t \in Nat /\ t - 1 = j
            BY <3>2
        <3>4. (<<1, j>> \in Values[NestingLimit])'
            BY <2>1, <3>1, ValuesKept
        <3>5. (<<offset, t - 1>> \in Values[NestingLimit - Len(stack)])'
            BY <2>1, <2>2, <3>3, <3>4
        <3> QED
            BY <2>1, <2>3, <3>3, <3>5 DEF Leads
    <2> QED
        BY <2>1, <2>4, <2>5 DEF TrackInv
<1>2. CASE Refused
    <2>1. pc' = "done" \/ pc' = "value"
        BY DEF Start
    <2>2. CASE pc' = "done"
        BY <1>2, <2>2, RefusedTracks DEF Refused, Reading
    <2>3. CASE pc' = "value"
        <3>1. Allocated /\ refused \in BOOLEAN
            BY <2>3 DEF Start, ParserInv, PlaceInv
        <3>2. New \in live' /\ live' = live /\ heap = <<>> /\ live \subseteq 1..Len(heap)
            BY <1>2, <3>1 DEF Start, Allocated, Refused, ParserInv, PlaceInv, HeapInv
        <3>3. Len(heap) = 0
            BY <3>2, EmptySeq
        <3> QED
            BY <3>2, <3>3
    <2> QED
        BY <2>1, <2>2, <2>3
<1> QED
    BY <1>1, <1>2

\* Where a route is followed it goes on being followed.
LEMMA ReadingTracks ==
    ASSUME ParserInv, OwnInv, TrackInv, Next, pc \in Reading,
           ~(Refused /\ pc' = "failed" /\ UNCHANGED root)
    PROVE  TrackInv'
<1>1. text' = text /\ HasValue' = HasValue
    <2>1. text' = text
        BY DEF Next, Start, ParseLiteral, ParseNumber, ParseString, ParseName, OpenList, AddItem,
               CloseList, Accept, Reject, Unwind, Delete, Refused
    <2> QED
        BY <2>1, ValuesKept
<1>2. CASE ~HasValue
    <2>1. pc' \in Reading => ~HasValue'
        BY <1>1, <1>2
    <2> QED
        BY <1>1, <1>2 DEF TrackInv
<1>3. ASSUME HasValue
      PROVE  TrackInv'
    <2>1. PICK C, e : Routed(C, e) /\ Leads(C, e)
        BY <1>3 DEF TrackInv
    <2>2. CASE pc' \in Reading /\ \E c, z : Routed(c, z)' /\ Leads(c, z)'
        BY <2>2 DEF TrackInv, Reading
    <2>3. CASE ParseLiteral \/ ParseNumber \/ ParseString
        <3>1. pc' # "failed"
            BY <2>3 DEF ParseLiteral, ParseNumber, ParseString
        <3>2. Routed(C, e)' /\ Leads(C, e)'
            BY <2>1, <2>3, <3>1, FillTracks
        <3>3. pc' = "behind"
            BY <2>3, <3>1, FillSteps
        <3> QED
            BY <2>2, <3>2, <3>3 DEF Reading
    <2>4. CASE ParseName
        BY <2>1, <2>2, <2>4, NameTracks DEF Reading
    <2>5. CASE OpenList
        <3>1. pc' = "opened"
            BY <2>5 DEF OpenList
        <3> QED
            BY <2>1, <2>2, <2>5, <3>1, OpenTracks DEF Reading
    <2>6. CASE AddItem
        <3>1. pc' \in {"name", "value"}
            BY <2>6 DEF AddItem
        <3> QED
            BY <2>1, <2>2, <2>6, <3>1, AddTracks DEF Reading
    <2>7. CASE CloseList
        <3>1. pc' = "behind"
            BY <2>7 DEF CloseList
        <3> QED
            BY <2>1, <2>2, <2>7, <3>1, CloseTracks DEF Reading
    <2>8. CASE Accept
        <3>1. pc' = "done" /\ root' = root /\ root # NULL
            BY <2>8 DEF Accept, ParserInv, PlaceInv
        <3> QED
            BY <3>1 DEF TrackInv, Reading
    <2>9. CASE Reject
        BY <2>1, <2>9, NothingUnexpected DEF Reject
    <2>10. CASE Start \/ Unwind \/ Delete
        BY <2>10 DEF Start, Unwind, Delete, Reading
    <2> QED
        BY <2>3, <2>4, <2>5, <2>6, <2>7, <2>8, <2>9, <2>10 DEF Next
<1> QED
    BY <1>2, <1>3

LEMMA TrackInvNext ==
    ASSUME ParserInv, OwnInv, ReadInv, TrackInv, [Next]_vars
    PROVE  TrackInv'
<1>1. CASE UNCHANGED vars
    <2>1. HasValue' = HasValue /\ \A o, d, C, e : Route(o, d, C, e)' <=> Route(o, d, C, e)
        BY <1>1, ValuesKept DEF vars
    <2>2. Values' = Values
        BY <1>1, TextKept DEF vars
    <2>3. ASSUME NEW C, NEW e, Routed(C, e), Leads(C, e)
          PROVE  Routed(C, e)' /\ Leads(C, e)'
        <3>1. Routed(C, e)'
            BY <1>1, <2>1, <2>3 DEF Routed, vars
        <3>2. Stops(C, e)' = Stops(C, e)
            BY <1>1 DEF Stops, vars
        <3>3. Leads(C, e)'
            <4>1. /\ \A o, d, i, j : IsElement(o, Values[d], i, j)' <=> IsElement(o, Values[d], i, j)
                  /\ \A d, i, j : IsList(Values[d], i, j)' <=> IsList(Values[d], i, j)
                BY <1>1, ValuesKept DEF vars
            <4>2. /\ pc' = pc /\ offset' = offset /\ stack' = stack /\ text' = text
                BY <1>1 DEF vars
            <4>3. PICK d, i, z : /\ d = NestingLimit - Len(stack) /\ i = offset
                                 /\ z = e[Len(stack)]
                OBVIOUS
            <4>4. /\ pc = "value" => \E t \in Stops(C, e) : <<i, t - 1>> \in Values[d]
                  /\ pc = "name" => \E t \in Stops(C, e) : IsElement(Brace, Values[d], i, t - 1)
                  /\ pc = "opened" => IsList(Values[d], i - 1, z)
                BY <2>3, <4>3 DEF Leads
            <4>5. /\ pc = "name" => \E t \in Stops(C, e) : IsElement(Brace, Values[d], i, t - 1)'
                  /\ pc = "opened" => IsList(Values[d], i - 1, z)'
                BY <4>1, <4>4
            <4>6. /\ (pc = "name" => \E t \in Stops(C, e) :
                          IsElement(Brace, Values[NestingLimit - Len(stack)], offset, t - 1))'
                  /\ (pc = "opened" =>
                          IsList(Values[NestingLimit - Len(stack)], offset - 1, e[Len(stack)]))'
                BY <3>2, <4>2, <4>3, <4>5
            <4>7. (pc = "value" => \E t \in Stops(C, e) :
                      <<offset, t - 1>> \in Values[NestingLimit - Len(stack)])'
                BY <2>2, <3>2, <4>2, <4>3, <4>4
            <4> QED
                BY <2>3, <3>2, <4>2, <4>6, <4>7 DEF Leads
        <3> QED
            BY <3>1, <3>3
    <2> QED
        BY <1>1, <2>1, <2>3 DEF TrackInv, vars
<1>2. CASE Next
    <2>1. CASE Refused /\ pc' = "failed" /\ UNCHANGED root
        BY <2>1, RefusedTracks DEF Refused, Reading
    <2>2. CASE pc \in Reading /\ ~(Refused /\ pc' = "failed" /\ UNCHANGED root)
        BY <1>2, <2>2, ReadingTracks
    <2>3. CASE Start
        BY <2>3, StartTracks
    <2>4. CASE Unwind
        <3>1. /\ pc = "failed" /\ UNCHANGED <<text, refused>>
              /\ pc' = "failed" \/ pc' = "done"
            BY <2>4 DEF Unwind
        <3>2. HasValue' = HasValue
            BY <3>1, ValuesKept
        <3> QED
            BY <3>1, <3>2 DEF TrackInv, Reading
    <2>5. CASE Delete
        BY <2>5 DEF Delete, TrackInv, Reading
    <2>6. pc \in Reading \/ Start \/ Unwind \/ Delete
        BY <1>2 DEF Next, ParseLiteral, ParseNumber, ParseString, ParseName, OpenList, AddItem,
                    ItemFollows, CloseList, Accept, Reject, Unexpected, Reading
    <2> QED
        BY <2>1, <2>2, <2>3, <2>4, <2>5, <2>6
<1> QED
    BY <1>1, <1>2

\* cJSON_Parse succeeds on exactly the texts that begin with a JSON value nested no deeper
\* than the limit, unless an allocation was refused; what it returns, written out, is the
\* text it has read; and the links of its lists agree.
THEOREM ParsesJsonAlways == Spec => []ParsesJson
<1>1. Init => ParserInv /\ OwnInv /\ ReadInv /\ RefusedInv /\ TrackInv
    BY ParserInvInit, OwnInit, ReadInvInit, RefusedInvInit, TrackInvInit
<1>2. ParserInv /\ OwnInv /\ ReadInv /\ RefusedInv /\ TrackInv /\ [Next]_vars
      => (ParserInv /\ OwnInv /\ ReadInv /\ RefusedInv /\ TrackInv)'
    BY ParserInvNext, OwnInvNext, ReadInvNext, RefusedInvNext, TrackInvNext
<1>3. ParserInv /\ OwnInv /\ ReadInv /\ RefusedInv /\ TrackInv => AcceptsJson
    <2> SUFFICES ASSUME ParserInv, OwnInv, ReadInv, RefusedInv, TrackInv, pc = "done"
                 PROVE  root # NULL <=> ~refused /\ HasValue
        BY DEF AcceptsJson, HasValue
    <2>1. ASSUME root # NULL
          PROVE  ~refused /\ HasValue
        BY <2>1, RootIsValue DEF RefusedInv, ReadInv
    <2>2. root = NULL => refused \/ ~HasValue
        BY DEF TrackInv
    <2> QED
        BY <2>1, <2>2
<1>4. Spec => []AcceptsJson
    BY <1>1, <1>2, <1>3, PTL DEF Spec
<1>5. AcceptsJson /\ TreeIsText /\ BackLinks => ParsesJson
    BY DEF ParsesJson
<1> QED
    BY <1>4, <1>5, TreeIsTextAlways, BackLinksAlways, PTL
=============================================================================
