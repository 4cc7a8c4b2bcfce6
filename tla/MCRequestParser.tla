---------------------------- MODULE MCRequestParser ----------------------------
(***************************************************************************)
(* Requests small enough to enumerate: every list of up to three header    *)
(* lines with every body, whole or cut short anywhere, every few line ends *)
(* and texts in whatever order, and every short path and query.            *)
(***************************************************************************)
EXTENDS RequestParser

MCTexts == {"Host: a", "Accept: b", "Via: HTTP/1.1 c", "junk", "{d:", "e}"}
MCWithColon == {"Host: a", "Accept: b", "Via: HTTP/1.1 c", "{d:"}
MCWithVersion == {"Via: HTTP/1.1 c"}

Upto(S, n) == UNION {[1..k -> S] : k \in 0..n}

Line(text) == <<CR, LF, text>>
Wire(lines, content) ==
    FlattenSeq([i \in DOMAIN lines |-> Line(lines[i])]) \o <<CR, LF, CR, LF>> \o content
Contents == {<<>>, <<"{d:", LF, LF, "e}">>, <<"{d:", CR, LF, CR, LF, "e}">>}
Rests ==
    {Wire(l, c) : l \in Upto({"Host: a", "Accept: b", "Via: HTTP/1.1 c", "junk"}, 3),
                  c \in Contents}
Cut(b) == {SubSeq(b, 1, n) : n \in 0..Len(b)}
Ragged ==
    {b \in Upto(LineEnds \cup {"Host: a", "Via: HTTP/1.1 c"}, 6) :
        \A i \in DOMAIN b : b[i] \in Texts => i > 1 /\ b[i - 1] \in LineEnds}

Usual == Wire(<<"Host: a">>, <<"{d:">>)
MCRequests ==
    [method : {TRUE}, http11 : {TRUE}, colon : {FALSE}, path : {<<"", "segment">>},
     query : {<<"flag">>}, rest : UNION {Cut(b) : b \in Rests} \cup Ragged]
    \cup
    [method : {TRUE}, http11 : {FALSE}, colon : BOOLEAN, path : {<<"", "segment">>},
     query : {<<"flag">>}, rest : UNION {Cut(b) : b \in Rests}]
    \cup
    [method : BOOLEAN, http11 : {TRUE}, colon : {FALSE}, path : Upto({"", "segment"}, 4),
     query : Upto({"pair", "flag"}, 4), rest : {Usual}]
=============================================================================
