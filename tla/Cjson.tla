-------------------------------- MODULE Cjson --------------------------------
(***************************************************************************)
(* cJSON_Parse and cJSON_Delete (cJSON.c), with which Wikigen-Auth reads   *)
(* GitHub's answers and the bodies of its requests.                        *)
(*                                                                         *)
(* The text is a sequence of tokens with the white space between them left *)
(* out. The heap holds items and the texts they point to; any allocation   *)
(* may be refused. parse_array and parse_object call parse_value and are   *)
(* called by it: their local variables are a stack of frames.              *)
(***************************************************************************)
EXTENDS Naturals, Sequences, FiniteSets, SequencesExt

CONSTANTS
    Inputs,         \* the texts to parse
    NestingLimit,   \* CJSON_NESTING_LIMIT, 1000 in the code
    AllocFails      \* whether an allocation may be refused

\* "bad" is what no parser takes: an unknown word, a number strtod cannot read,
\* a string that is not closed or holds an unknown escape. "infinite" is a number too
\* large for strtod, which returns infinity; a cell's type says so of its value.
Literals == {"null", "false", "true"}
Numerals == {"number", "infinite"}
Scalars == Literals \cup Numerals \cup {"string"}
Tokens == Scalars \cup {"[", "]", "{", "}", ",", ":", "bad"}

ASSUME CjsonAssumption ==
    /\ \A text \in Inputs : text \in Seq(Tokens)
    /\ NestingLimit \in Nat
    /\ AllocFails \in BOOLEAN

VARIABLES
    text,       \* what is parsed
    offset,     \* buffer.offset, in tokens
    heap,       \* every cell allocated so far; a pointer is an index
    live,       \* those not freed yet
    root,       \* item of cJSON_ParseWithLengthOpts, at the end what it returns
    stack,      \* the frames of parse_array and parse_object
    pc,         \* what is parsed next, or "failed", "done", "deleted"
    refused     \* whether an allocation was refused

vars == <<text, offset, heap, live, root, stack, pc, refused>>

NULL == 0

\* An item, or a text, as cJSON_New_Item leaves it.
Cell == [type |-> "none", next |-> NULL, prev |-> NULL, child |-> NULL,
         string |-> NULL, valuestring |-> NULL]
Pointers == {"next", "child", "string", "valuestring"}

Init ==
    /\ text \in Inputs
    /\ offset = 1
    /\ heap = <<>>
    /\ live = {}
    /\ root = NULL
    /\ stack = <<>>
    /\ pc = "start"
    /\ refused = FALSE

-----------------------------------------------------------------------------

\* Behind the text is its NUL, which buffer_skip_whitespace steps back to.
TokenAt(i) == IF i \in DOMAIN text THEN text[i] ELSE "end"
Token == TokenAt(offset)
Closer == [t \in {"[", "{"} |-> IF t = "[" THEN "]" ELSE "}"]

Top == Last(stack)
Item == IF stack = <<>> THEN root ELSE Top.current

New == Len(heap) + 1
Allocated == live' = live \cup {New} /\ UNCHANGED refused
Refused == AllocFails /\ refused' = TRUE /\ UNCHANGED <<text, offset, heap, live, stack>>

\* What cJSON_Delete frees: the items of a list, their texts and their children.
Below(item) ==
    LET R[n \in DOMAIN heap] ==
            {n} \cup UNION {R[heap[n][p]] : p \in {q \in Pointers : heap[n][q] # NULL}}
    IN  IF item = NULL THEN {} ELSE R[item]

-----------------------------------------------------------------------------

Start ==
    /\ pc = "start"
    /\ \/ /\ heap' = <<Cell>>
          /\ root' = New
          /\ pc' = "value"
          /\ Allocated
          /\ UNCHANGED <<text, offset, stack>>
       \/ Refused /\ pc' = "done" /\ UNCHANGED root

ParseLiteral ==
    /\ pc = "value" /\ Token \in Literals
    /\ heap' = [heap EXCEPT ![Item].type = Token]
    /\ offset' = offset + 1
    /\ pc' = "behind"
    /\ UNCHANGED <<text, live, root, stack, refused>>

\* The copy of the number for strtod is freed before parse_number returns.
ParseNumber ==
    /\ pc = "value" /\ Token \in Numerals
    /\ \/ /\ heap' = [heap EXCEPT ![Item].type = Token]
          /\ offset' = offset + 1
          /\ pc' = "behind"
          /\ UNCHANGED <<text, live, root, stack, refused>>
       \/ Refused /\ pc' = "failed" /\ UNCHANGED root

WithText(item, output) == [item EXCEPT !.type = "string", !.valuestring = output]

ParseString ==
    /\ pc = "value" /\ Token = "string"
    /\ \/ /\ heap' = Append([heap EXCEPT ![Item] = WithText(@, New)], Cell)
          /\ offset' = offset + 1
          /\ pc' = "behind"
          /\ Allocated
          /\ UNCHANGED <<text, root, stack>>
       \/ Refused /\ pc' = "failed" /\ UNCHANGED root

\* The name of a member is read as a string and moved to its place.
Named(item) == [item EXCEPT !.string = item.valuestring, !.valuestring = NULL]

ParseName ==
    /\ pc = "name" /\ Token = "string"
    /\ \/ /\ heap' = Append([heap EXCEPT ![Item] = Named(WithText(@, New))], Cell)
          /\ Allocated
          /\ IF TokenAt(offset + 1) = ":"
             THEN pc' = "value" /\ offset' = offset + 2
             ELSE pc' = "failed" /\ offset' = offset + 1
          /\ UNCHANGED <<text, root, stack>>
       \/ Refused /\ pc' = "failed" /\ UNCHANGED root

-----------------------------------------------------------------------------

TooDeep == Len(stack) >= NestingLimit

OpenList ==
    /\ pc = "value" /\ Token \in DOMAIN Closer
    /\ ~TooDeep
    /\ stack' = Append(stack, [item |-> Item, opened |-> Token, head |-> NULL, current |-> NULL])
    /\ offset' = offset + 1
    /\ pc' = "opened"
    /\ UNCHANGED <<text, heap, live, root, refused>>

\* A mistake: an empty list is not looked for.
ItemAlways == pc = "opened" \/ (pc = "behind" /\ Token = ",")

\* Where another item is due: behind a comma, or behind the bracket if it is
\* not closed at once.
ItemFollows ==
    IF pc = "opened" THEN Token # Closer[Top.opened] ELSE pc = "behind" /\ Token = ","

\* The new item behind the others of its list.
Attached(current) ==
    IF current = NULL THEN Append(heap, Cell)
    ELSE Append([heap EXCEPT ![current].next = New], [Cell EXCEPT !.prev = current])

AddItem ==
    /\ stack # <<>> /\ ItemFollows
    /\ \/ /\ heap' = Attached(Top.current)
          /\ stack' = [stack EXCEPT ![Len(stack)].current = New,
                                    ![Len(stack)].head = IF @ = NULL THEN New ELSE @]
          /\ offset' = IF pc = "opened" THEN offset ELSE offset + 1
          /\ pc' = IF Top.opened = "{" THEN "name" ELSE "value"
          /\ Allocated
          /\ UNCHANGED <<text, root>>
       \/ Refused /\ pc' = "failed" /\ UNCHANGED root

\* The first item of a finished list points back to the last one.
Finished(frame) ==
    [n \in DOMAIN heap |->
        IF n = frame.head THEN [heap[n] EXCEPT !.prev = frame.current]
        ELSE IF n = frame.item
             THEN [heap[n] EXCEPT !.type = frame.opened, !.child = frame.head]
             ELSE heap[n]]

CloseList ==
    /\ stack # <<>> /\ pc \in {"opened", "behind"}
    /\ Token = Closer[Top.opened]
    /\ heap' = Finished(Top)
    /\ stack' = Front(stack)
    /\ offset' = offset + 1
    /\ pc' = "behind"
    /\ UNCHANGED <<text, live, root, refused>>

\* What follows the value is not looked at: cJSON_Parse does not ask for the
\* text to end there.
Accept ==
    /\ pc = "behind" /\ stack = <<>>
    /\ pc' = "done"
    /\ UNCHANGED <<text, offset, heap, live, root, stack, refused>>

Unexpected ==
    \/ pc = "value" /\ Token \notin Scalars \cup DOMAIN Closer
    \/ pc = "value" /\ Token \in DOMAIN Closer /\ TooDeep
    \/ pc = "name" /\ Token # "string"
    \/ pc = "behind" /\ stack # <<>> /\ Token \notin {",", Closer[Top.opened]}

Reject ==
    /\ Unexpected
    /\ pc' = "failed"
    /\ UNCHANGED <<text, offset, heap, live, root, stack, refused>>

\* A mistake: a call that fails frees the item it was at only.
FreedItem(frame) == {frame.current} \ {NULL}

\* Each call that fails deletes the list it has built, the first one its item.
FreedBy(frame) == Below(frame.head)

Unwind ==
    /\ pc = "failed"
    /\ IF stack # <<>>
       THEN /\ live' = live \ FreedBy(Top)
            /\ stack' = Front(stack)
            /\ UNCHANGED <<root, pc>>
       ELSE /\ live' = live \ Below(root)
            /\ root' = NULL
            /\ pc' = "done"
            /\ UNCHANGED stack
    /\ UNCHANGED <<text, offset, heap, refused>>

\* The caller frees what it got.
Delete ==
    /\ pc = "done" /\ root # NULL
    /\ live' = live \ Below(root)
    /\ root' = NULL
    /\ pc' = "deleted"
    /\ UNCHANGED <<text, offset, heap, stack, refused>>

Next ==
    \/ Start \/ ParseLiteral \/ ParseNumber \/ ParseString \/ ParseName
    \/ OpenList \/ AddItem \/ CloseList \/ Accept \/ Reject \/ Unwind \/ Delete

Spec == Init /\ [][Next]_vars

-----------------------------------------------------------------------------
(* Properties. *)

Frames == [item : DOMAIN heap, opened : DOMAIN Closer,
           head : DOMAIN heap \cup {NULL}, current : DOMAIN heap \cup {NULL}]

\* Every variable has its type, and parse_array and parse_object are never
\* nested more deeply than CJSON_NESTING_LIMIT allows.
TypeOK ==
    /\ text \in Seq(Tokens)
    /\ offset \in 1..Len(text) + 1
    /\ \A n \in DOMAIN heap :
          /\ DOMAIN heap[n] = DOMAIN Cell
          /\ heap[n].type \in {"none"} \cup Scalars \cup DOMAIN Closer
          /\ \A p \in Pointers \cup {"prev"} : heap[n][p] \in DOMAIN heap \cup {NULL}
    /\ live \subseteq DOMAIN heap
    /\ root \in DOMAIN heap \cup {NULL}
    /\ stack \in Seq(Frames) /\ Len(stack) =< NestingLimit
    /\ pc \in {"start", "value", "name", "opened", "behind", "failed", "done", "deleted"}
    /\ refused \in BOOLEAN

Heads == [i \in DOMAIN stack |-> stack[i].head]

\* Whatever is refused or malformed, each allocated cell is owned once: by the
\* root, by the list a call under way is building, or by one pointer of one
\* live item. So nothing leaks, when cJSON_Parse returns NULL nothing is left
\* of what it built, and cJSON_Delete frees nothing twice.
MemoryOwned ==
    LET fromHeap == {l \in live \X Pointers : heap[l[1]][l[2]] # NULL}
        fromStack == {i \in DOMAIN stack : Heads[i] # NULL}
        owned == {heap[l[1]][l[2]] : l \in fromHeap} \cup {Heads[i] : i \in fromStack}
                 \cup ({root} \ {NULL})
    IN  /\ live = Below(root) \cup UNION {Below(Heads[i]) : i \in DOMAIN stack}
        /\ owned = live
        /\ Cardinality(fromHeap) + Cardinality(fromStack)
               + Cardinality({root} \ {NULL}) = Cardinality(owned)

LastOf(item) ==
    LET R[n \in DOMAIN heap] == IF heap[n].next = NULL THEN n ELSE R[heap[n].next]
    IN  R[item]

\* The links back agree with the links forward, and the first item of every
\* list under an item points back to its last, where add_item_to_array looks
\* for it.
BackLinks ==
    \A n \in live :
        /\ heap[n].next # NULL => heap[heap[n].next].prev = n
        /\ heap[n].child # NULL => heap[heap[n].child].prev = LastOf(heap[n].child)

\* A list of items written out again.
Written(item) ==
    LET W[n \in DOMAIN heap] ==
            LET c == heap[n]
                below == IF c.child = NULL THEN <<>> ELSE W[c.child]
            IN  (IF c.string = NULL THEN <<>> ELSE <<"string", ":">>)
                \o <<c.type>>
                \o (IF c.type \in DOMAIN Closer THEN below \o <<Closer[c.type]>> ELSE <<>>)
                \o (IF c.next = NULL THEN <<>> ELSE <<",">> \o W[c.next])
    IN  W[item]

\* The items cJSON_Parse returns, written out, are the text it has read: no
\* element is lost, doubled, renamed or put under another item.
TreeIsText ==
    pc = "done" /\ root # NULL => Written(root) = SubSeq(text, 1, offset - 1)

\* The grammar of JSON, by the places of a text. From a to b is an element of a list,
\* or a member, given from where to where there are values.
IsElement(opened, values, a, b) ==
    IF opened = "[" THEN <<a, b>> \in values
    ELSE a + 2 =< b /\ text[a] = "string" /\ text[a + 1] = ":" /\ <<a + 2, b>> \in values

\* From i to j is a list: an element leads from its bracket, and from each of its commas,
\* to another of them or to its end.
IsList(values, i, j) ==
    /\ i < j /\ text[i] \in DOMAIN Closer /\ text[j] = Closer[text[i]]
    /\ \/ j = i + 1
       \/ \E C \in SUBSET {k \in i + 1..j - 1 : text[k] = ","} :
             \A a \in C \cup {i} : \E b \in C \cup {j} :
                 a < b /\ IsElement(text[i], values, a + 1, b - 1)

\* From where to where there are values of at most d lists in one another.
Values ==
    LET V[d \in 0..NestingLimit] ==
            {x \in (DOMAIN text) \X (DOMAIN text) :
                \/ x[1] = x[2] /\ text[x[1]] \in Scalars
                \/ d > 0 /\ IsList(V[d - 1], x[1], x[2])}
    IN  V

\* cJSON_Parse succeeds on exactly the texts that begin with a JSON value
\* nested no deeper than the limit, unless an allocation was refused.
AcceptsJson ==
    pc = "done" =>
        (root # NULL <=> ~refused /\ \E j \in DOMAIN text : <<1, j>> \in Values[NestingLimit])

\* So cJSON_Parse reads what is JSON, nothing else, and all of it, into lists whose
\* links agree.
ParsesJson == AcceptsJson /\ TreeIsText /\ BackLinks

=============================================================================
