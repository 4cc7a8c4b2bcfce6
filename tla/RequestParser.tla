----------------------------- MODULE RequestParser -----------------------------
(***************************************************************************)
(* parse_request of Wikigen-Auth (request_parser.c), which reads the       *)
(* method, the path, the query parameters, the headers, the body and the   *)
(* path segments out of one received buffer.                               *)
(*                                                                         *)
(* A buffer is its request line and what follows it, a sequence of line    *)
(* ends and of texts between them. Of a text only what the parser tells    *)
(* apart matters: whether it holds a colon and whether it holds            *)
(* "HTTP/1.1". The lengths of the texts are left out.                      *)
(*                                                                         *)
(* Nobody sets header_count, nor param_count where the query is empty: the *)
(* Request is on the stack of the thread (wikigen_auth.c:135). They are 0  *)
(* here because they read 0 there: the receive buffer of that frame keeps  *)
(* them a megabyte below anything an earlier call has touched, on pages    *)
(* that a new stack has not been written to and that glibc gives back to   *)
(* the system when a thread ends. README.md says how this was measured.    *)
(***************************************************************************)
EXTENDS Naturals, FiniteSets, SequencesExt

CONSTANTS
    Texts,          \* the texts between line ends
    WithColon,      \* those with a ':'
    WithVersion,    \* those with "HTTP/1.1"
    MaxParams,      \* slots for query parameters, 32 in the code
    MaxHeaders,     \* slots for headers, 32
    Slots,          \* slots for path segments, 256
    Requests,       \* the requests that arrive
    NULL

CR == "CR"
LF == "LF"
LineEnds == {CR, LF}
Symbols == LineEnds \cup Texts
RequestLine == "request line"

\* Of the request line: whether get_method knows the method, whether it holds
\* "HTTP/1.1" and a ':', the path as split at '/', and what is taken for the query
\* string, split at '&': without a '?' that is the version and the first header's
\* name. A text goes as far as the next line end.
Request ==
    {r \in [method : BOOLEAN, http11 : BOOLEAN, colon : BOOLEAN,
            path : Seq({"", "segment"}), query : Seq({"pair", "flag"}),
            rest : Seq(Symbols)] :
        \A i \in DOMAIN r.rest :
            r.rest[i] \in Texts => i > 1 /\ r.rest[i - 1] \in LineEnds}

ASSUME ParserAssumption ==
    /\ WithColon \subseteq Texts /\ WithVersion \subseteq Texts
    /\ Texts \cap {CR, LF, "", RequestLine} = {}
    /\ MaxParams \in Nat /\ MaxHeaders \in Nat \ {0} /\ Slots \in Nat \ {0}
    /\ \A r \in Requests : r \in Request
    /\ NULL \notin Seq(Symbols)

VARIABLES
    request,            \* the buffer as it was received
    pc,                 \* where parse_request is, "done" when it returned
    error,              \* the code it returned
    query,              \* parameters not yet looked at
    param_count,
    buffer,             \* what strsep left of the buffer, or NULL
    empty_header_count,
    headers,            \* the header lines stored
    body,               \* the body stored, NULL if none was
    path,               \* parts of the path not yet looked at
    segment_count

vars == <<request, pc, error, query, param_count, buffer, empty_header_count,
          headers, body, path, segment_count>>

Init ==
    /\ request \in Requests
    /\ pc = "method"
    /\ error = "OK"
    /\ query = request.query
    /\ param_count = 0
    /\ buffer = request.rest
    /\ empty_header_count = 0
    /\ headers = <<>>
    /\ body = NULL
    /\ path = request.path
    /\ segment_count = 0

-----------------------------------------------------------------------------

Return(code) == pc' = "done" /\ error' = code

\* strsep at "\r\n": the text up to the next line end, "" if there is
\* none before it, and what is left behind that line end.
LineEndAt(b) == SelectInSeq(b, LAMBDA x : x \in LineEnds)
TokenOf(b) ==
    LET i == LineEndAt(b)
        front == IF i = 0 THEN b ELSE SubSeq(b, 1, i - 1)
    IN  IF front = <<>> THEN "" ELSE Head(front)
RestOf(b) ==
    IF LineEndAt(b) = 0 THEN NULL ELSE SubSeq(b, LineEndAt(b) + 1, Len(b))

\* An unknown method, or a path of length zero.
ReadRequestLine ==
    /\ pc = "method"
    /\ IF ~request.method THEN Return("INVALID_HTTP_METHOD")
       ELSE IF request.path = <<>> THEN Return("INVALID_PAYLOAD")
       ELSE pc' = "params" /\ UNCHANGED error
    /\ UNCHANGED <<request, query, param_count, buffer, empty_header_count,
                   headers, body, path, segment_count>>

\* A parameter without '=' is passed over and takes no slot.
ReadParam ==
    /\ pc = "params"
    /\ IF query # <<>> /\ param_count < MaxParams
       THEN /\ query' = Tail(query)
            /\ param_count' = param_count + (IF Head(query) = "pair" THEN 1 ELSE 0)
            /\ UNCHANGED pc
       ELSE pc' = "first_line" /\ UNCHANGED <<query, param_count>>
    /\ UNCHANGED <<request, error, buffer, empty_header_count, headers, body,
                   path, segment_count>>

\* The first token of the header loop is the request line itself: without
\* "HTTP/1.1" it is a header like any other, as in "GET http://a/ HTTP/1.0".
ReadFirstLine ==
    /\ pc = "first_line"
    /\ buffer' = RestOf(buffer)
    /\ \/ request.http11 /\ pc' = "headers" /\ UNCHANGED <<error, headers>>
       \/ /\ ~request.http11 /\ request.colon
          /\ headers' = Append(headers, RequestLine)
          /\ pc' = "headers"
          /\ UNCHANGED error
       \/ /\ ~request.http11 /\ ~request.colon
          /\ Return("INVALID_HEADER")
          /\ UNCHANGED headers
    /\ UNCHANGED <<request, query, param_count, empty_header_count, body, path,
                   segment_count>>

\* An empty token: the second in a row ends the headers.
BreakForgotten(n) == FALSE
EndsHeaders(n) == n + 1 > 1

\* What becomes of the count of empty tokens at a header.
CountKept(n) == n
CountAtHeader(n) == 0

\* strsep consumes a token before the loop looks at the number of headers.
ReadHeader ==
    /\ pc = "headers"
    /\ buffer # NULL
    /\ LET token == TokenOf(buffer) IN
       /\ buffer' = RestOf(buffer)
       /\ \/ /\ Len(headers) >= MaxHeaders
             /\ pc' = "body"
             /\ UNCHANGED <<error, empty_header_count, headers>>
          \/ /\ Len(headers) < MaxHeaders /\ token = ""
             /\ empty_header_count' = empty_header_count + 1
             /\ pc' = IF EndsHeaders(empty_header_count) THEN "body" ELSE pc
             /\ UNCHANGED <<error, headers>>
          \/ /\ Len(headers) < MaxHeaders /\ token \in WithVersion
             /\ UNCHANGED <<pc, error, empty_header_count, headers>>
          \/ /\ Len(headers) < MaxHeaders /\ token \notin WithVersion \cup {""}
             /\ empty_header_count' = CountAtHeader(empty_header_count)
             /\ IF token \in WithColon
                THEN headers' = Append(headers, token) /\ UNCHANGED <<pc, error>>
                ELSE Return("INVALID_HEADER") /\ UNCHANGED headers
    /\ UNCHANGED <<request, query, param_count, body, path, segment_count>>

NoMoreTokens ==
    /\ pc = "headers"
    /\ buffer = NULL
    /\ pc' = "body"
    /\ UNCHANGED <<request, error, query, param_count, buffer,
                   empty_header_count, headers, body, path, segment_count>>

\* The '\n' of the empty line is still in front of the body.
BodyIn(b) == IF b # <<>> /\ Head(b) = LF THEN Tail(b) ELSE b

ReadBody ==
    /\ pc = "body"
    /\ body' = IF buffer = NULL THEN body ELSE BodyIn(buffer)
    /\ pc' = "segments"
    /\ UNCHANGED <<request, error, query, param_count, buffer,
                   empty_header_count, headers, path, segment_count>>

TooManyLate(n) == n > Slots
TooMany(n) == n >= Slots - 1

ReadSegment ==
    /\ pc = "segments"
    /\ path # <<>>
    /\ path' = Tail(path)
    /\ IF Head(path) = "" THEN UNCHANGED <<pc, error, segment_count>>
       ELSE IF TooMany(segment_count)
            THEN Return("INVALID_PAYLOAD") /\ UNCHANGED segment_count
            ELSE segment_count' = segment_count + 1 /\ UNCHANGED <<pc, error>>
    /\ UNCHANGED <<request, query, param_count, buffer, empty_header_count,
                   headers, body>>

Finish ==
    /\ pc = "segments"
    /\ path = <<>>
    /\ Return("OK")
    /\ UNCHANGED <<request, query, param_count, buffer, empty_header_count,
                   headers, body, path, segment_count>>

Next ==
    \/ ReadRequestLine \/ ReadParam \/ ReadFirstLine
    \/ ReadHeader \/ NoMoreTokens \/ ReadBody
    \/ ReadSegment \/ Finish

Spec == Init /\ [][Next]_vars

-----------------------------------------------------------------------------
(* Properties *)

TypeOK ==
    /\ request \in Request
    /\ pc \in {"method", "params", "first_line", "headers", "body", "segments", "done"}
    /\ error \in {"OK", "INVALID_HTTP_METHOD", "INVALID_PAYLOAD", "INVALID_HEADER"}
    /\ query \in Seq({"pair", "flag"})
    /\ param_count \in Nat
    /\ buffer \in Seq(Symbols) \cup {NULL}
    /\ empty_header_count \in 0..2
    /\ headers \in Seq(Texts \cup {RequestLine})
    /\ body \in Seq(Symbols) \cup {NULL}
    /\ path \in Seq({"", "segment"})
    /\ segment_count \in Nat

\* What a request carries, read off the text: its head ends at the first empty
\* line, and the body is all that follows. A line is named by its place.
BlankLine == <<CR, LF, CR, LF>>
BlankAt(b) == {i \in 1..Len(b) - 3 : SubSeq(b, i, i + 3) = BlankLine}
HeadEnd(b) == CHOOSE i \in BlankAt(b) : \A j \in BlankAt(b) : i <= j
HeadLength(b) == IF BlankAt(b) = {} THEN Len(b) ELSE HeadEnd(b)
LinesOf(b) == {i \in 1..HeadLength(b) : b[i] \in Texts}
BodySent(b) == SubSeq(b, HeadEnd(b) + 4, Len(b))

\* Up to its empty line every line ends in CR LF.
EndsInCRLF(b) ==
    \A i \in 1..HeadEnd(b) + 3 :
        /\ b[i] = CR => b[i + 1] = LF
        /\ b[i] = LF => i > 1 /\ b[i - 1] = CR

\* The headers are the first of these lines, in their order; the request line is
\* at place 0.
LineAt(i) == IF i = 0 THEN RequestLine ELSE request.rest[i]
TakenFrom(lines) ==
    \A n \in DOMAIN headers :
        \E i \in lines :
            headers[n] = LineAt(i) /\ Cardinality({j \in lines : j <= i}) = n

Parsed == pc = "done" /\ error = "OK"

\* Whatever arrives, whole or cut short, what is stored as headers are header
\* lines of the request in their order, behind the request line if that does not
\* hold "HTTP/1.1": nothing of the body is taken for a header, and no header is
\* lost between two stored ones but for those that hold "HTTP/1.1".
HeaderLines ==
    {i \in LinesOf(request.rest) : request.rest[i] \notin WithVersion}
    \cup (IF request.http11 THEN {} ELSE {0})

HeadersFromHead == TakenFrom(HeaderLines)

\* A whole request with fewer headers than slots, none of which holds
\* "HTTP/1.1", is parsed into exactly its headers and its body.
WellFormed(b) ==
    BlankAt(b) # {} /\ EndsInCRLF(b) /\ Cardinality(LinesOf(b)) < MaxHeaders
Ordinary(b) == WellFormed(b) /\ \A i \in LinesOf(b) : b[i] \notin WithVersion

OrdinaryParsedWhole ==
    Parsed /\ request.http11 /\ Ordinary(request.rest) =>
        /\ TakenFrom(LinesOf(request.rest))
        /\ Len(headers) = Cardinality(LinesOf(request.rest))
        /\ body = BodySent(request.rest)

\* However many parameters, headers and segments arrive, each is put into a
\* slot that exists.
SlotsSuffice ==
    /\ TypeOK
    /\ param_count <= MaxParams
    /\ Len(headers) <= MaxHeaders
    /\ segment_count < Slots

\* "If we have more than one empty header, we've reached the body": what is
\* left of the buffer then is the body of the request.
BodyIsSent ==
    Parsed /\ request.http11 /\ WellFormed(request.rest) => body = BodySent(request.rest)
=============================================================================
