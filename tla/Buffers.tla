-------------------------------- MODULE Buffers --------------------------------
(***************************************************************************)
(* The texts Wikigen-Auth reads into memory it allocates on the way, and   *)
(* what it holds meanwhile:                                                *)
(*                                                                         *)
(*   perform_curl_request, write_callback   a response of GitHub           *)
(*   get_jwks, and strlen in its callers    the key file                   *)
(*   load_html_with_token, send_response    the page with the JWT          *)
(*   get_env_value                          a value of the file .env       *)
(*                                                                         *)
(* A behaviour is one call of one of them. Each cell of a text is told     *)
(* from every other, so that a cell lost, repeated or misplaced shows.     *)
(***************************************************************************)
EXTENDS Integers, Sequences

CONSTANTS
    MaxText,        \* cells of the longest text read
    LineSize,       \* of the buffer of fgets, 1024 in the code
    StartSize,      \* of the first block of get_jwks, 1024 in the code
    Placeholder,    \* cells of "${token}"
    MaxToken,       \* cells of the longest JWT
    HeadSize,       \* cells of the head of a response
    ResponseSize,   \* RESPONSE_BUFFER_SIZE
    MaxHeaders      \* rows of the headers a helper passes, 5 in the code

ASSUME BuffersAssumption ==
    /\ MaxText \in Nat /\ MaxToken \in Nat /\ HeadSize \in Nat
    /\ LineSize \in Nat /\ LineSize > 1
    /\ StartSize \in Nat /\ StartSize >= LineSize
    /\ Placeholder \in Nat \ {0}
    /\ ResponseSize \in Nat \ {0}
    /\ MaxHeaders \in Nat \ {0}

Procedures == {"curl", "jwks", "html", "env"}

VARIABLES
    procedure,  \* the one called
    source,     \* what is there to be read
    token,      \* the JWT for the page
    hole,       \* cells in front of the page's placeholder, -1 without one
    pc,         \* where the call is
    taken,      \* cells of the source read; headers appended before that
    block,      \* what was written to the text's block, cell by cell
    capacity,   \* bytes allocated for it
    live,       \* what the call holds
    failed,     \* the calls that failed
    result,     \* what it returned, "dead" if the process died of it
    sent        \* the response sent with it

given == <<procedure, source, token, hole>>
memory == <<block, capacity>>
vars == <<given, pc, taken, memory, live, failed, result, sent>>

NUL == 0
Cells(n, sign) == [i \in 1..n |-> sign * i]
Empty == [i \in {} |-> NUL]

Resources == {"text", "file", "file_buf", "curl", "headers", "lost headers"}

Init ==
    /\ procedure \in Procedures
    /\ \E n \in 0..MaxText : source = Cells(n, 1)
    /\ \E n \in 0..MaxToken : token = Cells(n, -1)
    /\ hole \in {-1} \cup 0..(Len(source) - Placeholder)
    /\ procedure # "html" => token = <<>> /\ hole = -1
    /\ pc = IF procedure = "curl" THEN "malloc" ELSE "fopen"
    /\ taken = 0
    /\ block = Empty
    /\ capacity = 0
    /\ live = {}
    /\ failed = {}
    /\ result = "none"
    /\ sent = <<>>

\* strcpy, strcat and memcpy: cells written from an offset on, and a NUL behind.
Written(cells, at) ==
    LET s == Append(cells, NUL) IN
    [i \in DOMAIN block \cup at..(at + Len(cells)) |->
        IF i \in at..(at + Len(cells)) THEN s[i - at + 1] ELSE block[i]]

\* strlen.
Length == CHOOSE n \in DOMAIN block :
              block[n] = NUL /\ \A i \in 0..(n - 1) : block[i] # NUL
Text == [i \in 1..Length |-> block[i - 1]]

Goto(label) == pc' = label /\ UNCHANGED result
Return(r) == pc' = "done" /\ result' = r
Fail(call) == failed' = failed \cup {call}
Rest == SubSeq(source, taken + 1, Len(source))
Piece(k) == SubSeq(source, taken + 1, taken + k)

-----------------------------------------------------------------------------
(* perform_curl_request *)

FirstMalloc ==
    /\ procedure = "curl" /\ pc = "malloc"
    /\ \/ Fail("malloc") /\ Return("NULL") /\ UNCHANGED <<memory, live>>
       \/ /\ block' = Written(<<>>, 0)
          /\ capacity' = 1
          /\ live' = {"text"}
          /\ Goto("curl_easy_init")
          /\ UNCHANGED failed
    /\ UNCHANGED <<given, taken, sent>>

CurlInit ==
    /\ pc = "curl_easy_init"
    /\ \/ Fail("curl_easy_init") /\ Return("NULL") /\ UNCHANGED live
       \/ live' = live \cup {"curl"} /\ Goto("headers") /\ UNCHANGED failed
    /\ UNCHANGED <<given, taken, memory, sent>>

\* A helper sets one row or three; the others hold what the stack held, so that any
\* number of rows may be taken. Where curl_slist_append fails, the list so far is lost.
AppendHeader ==
    /\ pc = "headers"
    /\ taken < MaxHeaders
    /\ taken' = taken + 1
    /\ \/ live' = live \cup {"headers"} /\ UNCHANGED failed
       \/ /\ live' = IF "headers" \in live
                     THEN (live \ {"headers"}) \cup {"lost headers"} ELSE live
          /\ Fail("curl_slist_append")
    /\ UNCHANGED <<given, pc, memory, result, sent>>

Perform ==
    /\ pc = "headers"
    /\ taken > 0
    /\ taken' = 0
    /\ Goto("perform")
    /\ UNCHANGED <<given, memory, live, failed, sent>>

\* write_callback. What it returns for no bytes is right even if realloc fails.
Taken(k) == taken + k
AtStart == 0
AtEnd == taken

WriteCallback ==
    /\ pc = "perform"
    /\ \E k \in 0..Len(Rest) :
          \/ /\ capacity' = taken + k + 1
             /\ block' = Written(Piece(k), AtEnd)
             /\ taken' = Taken(k)
             /\ UNCHANGED <<pc, result, failed>>
          \/ /\ Fail("realloc")
             /\ Goto(IF k = 0 THEN "perform" ELSE "error")
             /\ UNCHANGED <<memory, taken>>
    /\ UNCHANGED <<given, live, sent>>

TransferFails ==
    /\ pc = "perform"
    /\ Fail("curl_easy_perform")
    /\ Goto("error")
    /\ UNCHANGED <<given, taken, memory, live, sent>>

FreedButHeaders == {"text", "curl"}
Freed == {"text", "curl", "headers"}

CurlError ==
    /\ pc = "error"
    /\ live' = live \ Freed
    /\ Return("NULL")
    /\ UNCHANGED <<given, taken, memory, failed, sent>>

TransferEnds ==
    /\ pc = "perform"
    /\ Rest = <<>>
    /\ live' = live \ {"headers", "curl"}
    /\ Return("text")
    /\ UNCHANGED <<given, taken, memory, failed, sent>>

-----------------------------------------------------------------------------
(* The files *)

OpenFile ==
    /\ pc = "fopen"
    /\ \/ Fail("fopen") /\ Return("NULL") /\ UNCHANGED live
       \/ live' = {"file"} /\ Goto(procedure) /\ UNCHANGED failed
    /\ UNCHANGED <<given, taken, memory, sent>>

\* get_jwks does not look at what malloc returns before it writes there.
AllocateKeys ==
    /\ pc = "jwks"
    /\ \/ Fail("malloc") /\ Return("dead") /\ UNCHANGED <<memory, live>>
       \/ /\ block' = Written(<<>>, 0)
          /\ capacity' = StartSize
          /\ live' = live \cup {"text"}
          /\ Goto("lines")
          /\ UNCHANGED failed
    /\ UNCHANGED <<given, taken, sent>>

\* fgets ends at a newline or when the buffer is full.
NeverTooSmall(k) == FALSE
TooSmall(k) == Length + k + 1 > capacity

ReadLine ==
    /\ pc = "lines"
    /\ \E k \in 1..(LineSize - 1) :
          /\ k <= Len(Rest)
          /\ \/ /\ capacity' = IF TooSmall(k) THEN 2 * capacity ELSE capacity
                /\ block' = Written(Piece(k), Length)
                /\ taken' = taken + k
                /\ UNCHANGED <<pc, result, failed>>
             \/ /\ TooSmall(k)
                /\ Fail("realloc")
                /\ Return("NULL")
                /\ UNCHANGED <<memory, taken>>
    /\ UNCHANGED <<given, live, sent>>

EndOfKeys ==
    /\ pc = "lines"
    /\ Rest = <<>>
    /\ live' = live \ {"file"}
    /\ Return("text")
    /\ UNCHANGED <<given, taken, memory, failed, sent>>

\* strlen(jwt_secret) in create_jwt and verify_jwt.
MeasureNoKeys ==
    /\ procedure = "jwks" /\ result = "NULL"
    /\ result' = "dead"
    /\ UNCHANGED <<given, pc, taken, memory, live, failed, sent>>

\* load_html_with_token: the whole file, then the page around the token.
ReadPage ==
    /\ pc = "html"
    /\ \/ \E call \in {"malloc", "fread"} :
             Fail(call) /\ live' = {} /\ Return("NULL") /\ UNCHANGED memory
       \/ /\ block' = Written(source, 0)
          /\ capacity' = Len(source) + 1
          /\ IF hole = -1 THEN live' = {"text"} /\ Return("text")
             ELSE live' = {"file_buf"} /\ Goto("fill")
          /\ UNCHANGED failed
    /\ UNCHANGED <<given, taken, sent>>

FilledPage ==
    SubSeq(source, 1, hole) \o token
        \o SubSeq(source, hole + Placeholder + 1, Len(source))

FillPage ==
    /\ pc = "fill"
    /\ \/ Fail("malloc") /\ live' = {} /\ Return("NULL") /\ UNCHANGED memory
       \/ /\ capacity' = Len(source) - Placeholder + Len(token) + 1
          /\ block' = [i \in 0..Len(FilledPage) |-> Append(FilledPage, NUL)[i + 1]]
          /\ live' = {"text"}
          /\ Return("text")
          /\ UNCHANGED failed
    /\ UNCHANGED <<given, taken, sent>>

\* send_response: snprintf cuts what does not fit and puts a NUL behind it, and
\* returns what it would have written.
TooLarge(n) == n >= ResponseSize

ResponseHead == Cells(HeadSize, 1000)
Fallback == <<"Response too large.">>

SendPage ==
    /\ procedure = "html" /\ result = "text" /\ sent = <<>>
    /\ LET page == ResponseHead \o Text
           response == IF Len(page) < ResponseSize THEN Append(page, NUL)
                       ELSE Append(SubSeq(page, 1, ResponseSize - 1), NUL)
       IN  sent' = IF TooLarge(Len(page)) THEN Fallback
                   ELSE SubSeq(response, 1, Len(page))
    /\ UNCHANGED <<given, pc, taken, memory, live, failed, result>>

\* get_env_value: the lines up to the first with the key, if there is one.
ReadEnv ==
    /\ pc = "env"
    /\ \/ Return("NULL") /\ live' = {} /\ UNCHANGED <<memory, failed>>
       \/ Fail("malloc") /\ live' = {} /\ Return("NULL") /\ UNCHANGED memory
       \/ /\ capacity' = Len(source) + 1
          /\ block' = Written(source, 0)
          /\ live' = {"text"}
          /\ Return("text")
          /\ UNCHANGED failed
    /\ UNCHANGED <<given, taken, sent>>

-----------------------------------------------------------------------------

Next ==
    \/ FirstMalloc \/ CurlInit \/ AppendHeader \/ Perform
    \/ WriteCallback \/ TransferFails \/ CurlError \/ TransferEnds
    \/ OpenFile \/ AllocateKeys \/ ReadLine \/ EndOfKeys \/ MeasureNoKeys
    \/ ReadPage \/ FillPage \/ SendPage \/ ReadEnv

Spec == Init /\ [][Next]_vars

-----------------------------------------------------------------------------
(* Properties *)

TypeOK ==
    /\ procedure \in Procedures
    /\ source \in Seq(Nat) /\ token \in Seq(Int)
    /\ hole \in -1..Len(source)
    /\ pc \in {"malloc", "curl_easy_init", "headers", "perform", "error", "fopen",
               "jwks", "lines", "html", "fill", "env", "done"}
    /\ taken \in Nat /\ (pc # "headers" => taken <= Len(source))
    /\ capacity \in Nat
    /\ live \subseteq Resources
    /\ result \in {"none", "text", "NULL", "dead"}

\* Whatever is read, in whatever pieces, no cell is written behind the end of its
\* block: not by a response larger than the block so far, not by a line that makes
\* get_jwks double it, not by a JWT longer than its placeholder.
WithinAllocation == TypeOK /\ \A i \in DOMAIN block : i >= 0 /\ i < capacity

\* What there was to be read, with the JWT for its first placeholder if it is the page.
Whole == IF hole = -1 THEN source ELSE FilledPage

\* The client is sent all of the page or told that it is too large.
PageSentWhole == sent \in {<<>>, Fallback, ResponseHead \o Whole}

\* A text that is returned is all of what was there to be read, in order and once,
\* with a NUL behind it, and so is a page that is sent, also if it just fills the
\* buffer.
TextIsWhole == (result = "text" => Text = Whole) /\ PageSentWhole

\* The calls whose failure loses what was held.
LosingCalls ==
    {"curl_easy_init", "curl_slist_append"}
        \cup (IF procedure = "jwks" THEN {"malloc", "realloc"} ELSE {})

\* A call that ends holds the text it returns and nothing else, also if it ends
\* early; but where curl_easy_init or curl_slist_append fails, or the realloc of
\* get_jwks, what was held is lost.
NothingLost ==
    result # "none" /\ failed \cap LosingCalls = {} =>
        live = IF result = "text" THEN {"text"} ELSE {}
=============================================================================
