------------------------------ MODULE CjsonPrint ------------------------------
(***************************************************************************)
(* cJSON_Parse and the printing of what it returned: cJSON_Print,          *)
(* cJSON_PrintUnformatted, cJSON_PrintBuffered and                         *)
(* cJSON_PrintPreallocated (cJSON.c). They walk the items and write token  *)
(* by token into a block that ensure grows, if it may; what was written    *)
(* last is counted by update_offset, which looks for its NUL.              *)
(*                                                                         *)
(* Sizes are in bytes, a token's being Width. A growth by malloc, memcpy   *)
(* and free is not told apart from realloc: the text ends at the offset    *)
(* whenever ensure is called, and memcpy takes it with its NUL.            *)
(***************************************************************************)
EXTENDS Cjson

CONSTANTS
    Reprinted,      \* the texts whose items are printed again
    Width,          \* of each token as it is printed, and of a white space
    DefaultSize,    \* default_buffer_size in print, 256 in the code
    Lengths,        \* what callers give as prebuffer or length
    IntMax          \* INT_MAX

ASSUME CjsonPrintAssumption ==
    /\ Reprinted \subseteq Inputs
    /\ Width \in [Tokens \cup {"white"} -> Nat \ {0}]
    /\ \A t \in {"[", "]", "{", "}", ",", ":", "white"} : Width[t] = 1
    /\ Width["infinite"] = Width["null"]
    /\ IntMax \in Nat /\ DefaultSize \in 0..IntMax /\ Lengths \subseteq 0..IntMax

VARIABLES
    caller,     \* which of them was called, and whether to format
    buffer,     \* printbuffer
    frames,     \* the frames of print_array and print_object
    item,       \* the item of print_value
    step        \* what is printed next, or "idle", "unwound", "printed", "failed"

printVars == <<caller, buffer, frames, item, step>>

\* The text up to the offset and behind it, whether a NUL follows, the block's length,
\* whether there is one, how many were allocated and not freed, and whether the last
\* call of ensure returned a place to write to.
NoBuffer == [out |-> <<>>, last |-> <<>>, nul |-> FALSE, length |-> 0, block |-> FALSE,
             held |-> 0, ok |-> TRUE, refused |-> FALSE]

PrintInit ==
    /\ Init
    /\ caller = [name |-> "none", format |-> FALSE]
    /\ buffer = NoBuffer
    /\ frames = <<>>
    /\ item = NULL
    /\ step = "idle"

-----------------------------------------------------------------------------
(* The block *)

Size(s) ==
    LET size[n \in 0..Len(s)] == IF n = 0 THEN 0 ELSE size[n - 1] + Width[s[n]]
    IN  size[Len(s)]
White(n) == [k \in 1..n |-> "white"]

\* A mistake to check the properties with: a sum that forgets what is there.
NeededAlone(b, n) == n + 1
Needed(b, n) == n + Size(b.out) + 1

NewSize(total) == IF total > IntMax \div 2 THEN IntMax ELSE 2 * total

\* A mistake: room for one byte more than asked is asked for.
FitsWithRoom(b, total) == total < b.length
Fits(b, total) == total <= b.length

\* realloc failed: the old block is freed.
GrowthForgotten(b) == [b EXCEPT !.ok = FALSE, !.refused = TRUE, !.length = 0, !.block = FALSE]
GrowthRefused(b) ==
    [b EXCEPT !.ok = FALSE, !.refused = TRUE, !.length = 0, !.block = FALSE, !.held = @ - 1]

\* What the buffer may be when ensure returns.
Ensured(b, n) ==
    LET total == Needed(b, n)
    IN  IF (b.length > 0 /\ Size(b.out) >= b.length) \/ n > IntMax
        THEN {[b EXCEPT !.ok = FALSE]}
        ELSE IF Fits(b, total) THEN {b}
        ELSE IF caller.name = "preallocated" \/ total > IntMax THEN {[b EXCEPT !.ok = FALSE]}
        ELSE {[b EXCEPT !.length = NewSize(total)]}
             \cup (IF AllocFails THEN {GrowthRefused(b)} ELSE {})

\* Written behind the offset, with a NUL; written, and the offset moved.
Behind(b, s) == [b EXCEPT !.last = s, !.nul = TRUE]
Counted(b, s, nul) == [b EXCEPT !.out = @ \o s, !.last = <<>>, !.nul = nul]

\* strlen finds what was written behind the offset. A mistake: it is not called.
OffsetForgotten(b) == b
UpdateOffset(b) == [b EXCEPT !.out = @ \o b.last, !.last = <<>>]

\* One call of ensure, and the buffer as written to if it succeeds.
Write(b, n, written, next) ==
    \E c \in Ensured(b, n) :
        /\ buffer' = IF c.ok THEN [written EXCEPT !.length = c.length] ELSE c
        /\ step' = IF c.ok THEN next ELSE "unwound"

-----------------------------------------------------------------------------
(* The calls *)

Call(name, format) ==
    /\ caller' = [name |-> name, format |-> format]
    /\ item' = root
    /\ UNCHANGED frames

\* A block of its own for print and cJSON_PrintBuffered.
Allocate(length) ==
    \/ /\ buffer' = [NoBuffer EXCEPT !.length = length, !.block = TRUE, !.held = 1]
       /\ step' = "value"
    \/ /\ AllocFails
       /\ buffer' = [NoBuffer EXCEPT !.length = length, !.refused = TRUE]
       /\ step' = "unwound"

MayPrint == step = "idle" /\ pc = "done" /\ root # NULL /\ text \in Reprinted

PrintWhole ==
    /\ MayPrint
    /\ \E format \in BOOLEAN : Call("print", format) /\ Allocate(DefaultSize)

PrintBuffered ==
    /\ MayPrint
    /\ \E format \in BOOLEAN, prebuffer \in Lengths :
          Call("buffered", format) /\ Allocate(prebuffer)

PrintPreallocated ==
    /\ MayPrint
    /\ \E format \in BOOLEAN, length \in Lengths :
          /\ Call("preallocated", format)
          /\ buffer' = [NoBuffer EXCEPT !.length = length, !.block = TRUE]
          /\ step' = "value"

-----------------------------------------------------------------------------
(* The items *)

Frame == Last(frames)
Depth == Len(frames)
Formatted(n) == IF caller.format THEN n ELSE 0

\* JSON has no infinity: print_number writes null for it.
PrintedAs(token) == IF token = "infinite" THEN "null" ELSE token

\* A literal, a number, which counts itself at once, or a string.
PrintScalar ==
    /\ step = "value" /\ heap[item].type \in Scalars
    /\ LET s == <<PrintedAs(heap[item].type)>> IN Write(buffer, Size(s) + 1, Behind(buffer, s), "behind")
    /\ UNCHANGED <<caller, frames, item>>

OpenPrinted ==
    /\ step = "value" /\ heap[item].type \in DOMAIN Closer
    /\ LET object == heap[item].type = "{"
           white == IF object THEN Formatted(1) ELSE 0
       IN  Write(buffer, IF object THEN white + 2 ELSE 1,
                 Counted(buffer, <<heap[item].type>> \o White(white), FALSE), "loop")
    /\ frames' = Append(frames, [list |-> item, current |-> heap[item].child])
    /\ UNCHANGED <<caller, item>>

PrintElement ==
    /\ step = "loop" /\ Frame.current # NULL /\ heap[Frame.list].type = "["
    /\ item' = Frame.current
    /\ step' = "value"
    /\ UNCHANGED <<caller, buffer, frames>>

PrintTabs ==
    /\ step = "loop" /\ Frame.current # NULL /\ heap[Frame.list].type = "{"
    /\ IF caller.format
       THEN Write(buffer, Depth, Counted(buffer, White(Depth), FALSE), "key")
       ELSE step' = "key" /\ UNCHANGED buffer
    /\ UNCHANGED <<caller, frames, item>>

PrintKey ==
    /\ step = "key"
    /\ Write(buffer, Width["string"] + 1,
             UpdateOffset(Behind(buffer, <<"string">>)), "colon")
    /\ UNCHANGED <<caller, frames, item>>

PrintColon ==
    /\ step = "colon"
    /\ Write(buffer, 1 + Formatted(1),
             Counted(buffer, <<":">> \o White(Formatted(1)), FALSE), "value")
    /\ item' = Frame.current
    /\ UNCHANGED <<caller, frames>>

\* Behind an element or a member: counted, then the comma, which only an object asks
\* room for if there is none.
PrintComma ==
    /\ step = "behind" /\ frames # <<>>
    /\ LET b == UpdateOffset(buffer)
           next == heap[Frame.current].next
           comma == IF next = NULL THEN <<>> ELSE <<",">>
           s == IF next = NULL /\ heap[Frame.list].type = "[" THEN <<>>
                ELSE comma \o White(Formatted(1))
       IN  /\ IF next = NULL /\ heap[Frame.list].type = "["
              THEN buffer' = b /\ step' = "loop"
              ELSE Write(b, Len(s) + 1, Counted(b, s, TRUE), "loop")
           /\ frames' = Append(Front(frames), [Frame EXCEPT !.current = next])
    /\ UNCHANGED <<caller, item>>

ClosePrinted ==
    /\ step = "loop" /\ Frame.current = NULL
    /\ LET closer == Closer[heap[Frame.list].type]
           white == IF closer = "}" THEN Formatted(Depth - 1) ELSE 0
       IN  Write(buffer, white + 2, Behind(buffer, White(white) \o <<closer>>), "behind")
    /\ frames' = Front(frames)
    /\ UNCHANGED <<caller, item>>

-----------------------------------------------------------------------------
(* The end *)

\* print counts the last token and cuts the block to the text's size; the others
\* hand it over as it is.
Return ==
    /\ step = "behind" /\ frames = <<>>
    /\ IF caller.name # "print"
       THEN step' = "printed" /\ UNCHANGED buffer
       ELSE LET b == UpdateOffset(buffer) IN
            \/ buffer' = [b EXCEPT !.length = Size(b.out) + 1] /\ step' = "printed"
            \/ /\ AllocFails
               /\ buffer' = [b EXCEPT !.ok = FALSE, !.refused = TRUE]
               /\ step' = "unwound"
    /\ UNCHANGED <<caller, frames, item>>

\* Every call returns false; the first one frees the block if it allocated it and
\* ensure has not freed it.
Fail ==
    /\ step = "unwound"
    /\ buffer' = IF caller.name # "preallocated" /\ buffer.block
                 THEN [buffer EXCEPT !.block = FALSE, !.held = @ - 1] ELSE buffer
    /\ step' = "failed"
    /\ UNCHANGED <<caller, frames, item>>

Printing ==
    \/ PrintWhole \/ PrintBuffered \/ PrintPreallocated
    \/ PrintScalar \/ OpenPrinted \/ PrintElement \/ PrintTabs \/ PrintKey \/ PrintColon
    \/ PrintComma \/ ClosePrinted \/ Return \/ Fail

PrintNext ==
    \/ step = "idle" /\ Next /\ UNCHANGED printVars
    \/ Printing /\ UNCHANGED vars

PrintSpec == PrintInit /\ [][PrintNext]_<<vars, printVars>>

-----------------------------------------------------------------------------
(* Properties *)

\* Every variable has its type.
PrintTypeOK ==
    /\ TypeOK
    /\ caller \in [name : {"none", "print", "buffered", "preallocated"}, format : BOOLEAN]
    /\ DOMAIN buffer = DOMAIN NoBuffer
    /\ buffer.length \in 0..IntMax /\ buffer.held \in 0..1
    /\ \A i \in DOMAIN frames : frames[i].list \in live /\ frames[i].current \in live \cup {NULL}
    /\ item \in DOMAIN heap \cup {NULL}
    /\ step \in {"idle", "value", "loop", "key", "colon", "behind", "unwound", "printed", "failed"}

\* However long the items' texts and however the block grows, no block is larger than
\* INT_MAX, no byte is written outside it, and update_offset's strlen meets a NUL inside it.
WithinBlock ==
    /\ PrintTypeOK
    /\ buffer.block =>
          Size(buffer.out) + Size(buffer.last) + (IF buffer.nul THEN 1 ELSE 0) <= buffer.length
    /\ step = "behind" => buffer.block /\ buffer.nul

\* A text without its white space.
Tight(s) ==
    LET tight[n \in 0..Len(s)] ==
            IF n = 0 THEN <<>> ELSE tight[n - 1] \o (IF s[n] = "white" THEN <<>> ELSE <<s[n]>>)
    IN  tight[Len(s)]

\* The text, with null for what no number of JSON stands for.
Printed == [n \in DOMAIN text |-> IF text[n] = "infinite" THEN "null" ELSE text[n]]

\* What was parsed and is printed, with any of the functions, is the text that was read
\* but for white space and infinite numbers, which are null: no token is overwritten by
\* the next.
PrintsWhatWasRead ==
    step = "printed" =>
        /\ Tight(buffer.out \o buffer.last) = SubSeq(Printed, 1, offset - 1)
        /\ buffer.nul

\* Whatever allocation fails, the caller is given one block, or none is left: it is
\* freed once, by ensure or by the function called, and never if it is the caller's.
BlockFreedOnce ==
    step \in {"printed", "failed"} =>
        buffer.held = IF step = "printed" /\ caller.name # "preallocated" THEN 1 ELSE 0

\* How many lists are open behind the token at n, given how many are before it.
Deepened(depth, n) ==
    IF text[n] \in DOMAIN Closer THEN depth + 1
    ELSE IF text[n] \in {"]", "}"} /\ depth > 0 THEN depth - 1
    ELSE depth

\* In a formatted text each name and closing brace has tabs before it, the lines of an
\* object end, and a space follows a comma or colon.
TabsAt(n, depth) ==
    IF text[n] = "}" \/ (text[n] = "string" /\ TokenAt(n + 1) = ":") THEN depth ELSE 0
SpacesAt(n) ==
    IF text[n] \in {"{", ",", ":"} \/ (text[n] = "}" /\ TokenAt(n - 1) # "{") THEN 1 ELSE 0

\* What the tokens up to n take, printed, and how many lists are open behind them.
Reckon(before, format, n) ==
    LET depth == Deepened(before.depth, n)
        white == IF format THEN TabsAt(n, depth) + SpacesAt(n) ELSE 0
    IN  [size |-> (before.size + Width[text[n]]) + white, depth |-> depth]

Reckoned(format) ==
    LET R[n \in 0..Len(text)] ==
            IF n = 0 THEN [size |-> 0, depth |-> 0] ELSE Reckon(R[n - 1], format, n)
    IN  R

\* The size of the text that was read, printed.
PrintedSize == Reckoned(caller.format)[offset - 1].size

\* Printing fails only if an allocation was refused, if the text is too long for INT_MAX,
\* or if the caller's buffer has not even one byte more than the text and its NUL, where
\* cJSON.h advises five.
FailsForReason ==
    step = "failed" =>
        \/ buffer.refused
        \/ PrintedSize + 2 > IntMax
        \/ caller.name = "preallocated" /\ buffer.length < PrintedSize + 2
=============================================================================
