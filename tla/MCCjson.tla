------------------------------- MODULE MCCjson -------------------------------
(***************************************************************************)
(* Texts for cJSON_Parse: every short one, and documents of objects and    *)
(* arrays in one another, as they are, cut short anywhere, or with one     *)
(* token taken for another. Those of them that are printed again have      *)
(* sizes on either side of every growth of the block.                      *)
(***************************************************************************)
EXTENDS CjsonPrint

Short == UNION {[1..k -> Tokens \ {"false", "true", "infinite", "bad"}] : k \in 0..5}

User == <<"{", "string", ":", "number", ",", "string", ":", "string", "}">>
Errors == <<"{", "string", ":", "[", "string", ",", "null", "]", ",",
            "string", ":", "{", "string", ":", "true", "}", "}">>
Nested == <<"[", "[", "infinite", ",", "false", "]", ",", "{", "}", ",", "[", "]", "]", "number">>
Deep == <<"[", "{", "string", ":", "[", "number", "]", "}", "]">>
Documents == {User, Errors, Nested, Deep}

Cut(d) == {SubSeq(d, 1, n) : n \in DOMAIN d}
Mistaken(d) == {[d EXCEPT ![i] = t] : i \in DOMAIN d, t \in Tokens}

MCInputs == Short \cup UNION {Cut(d) \cup Mistaken(d) : d \in Documents}

MCReprinted ==
    UNION {[1..k -> {"[", "]", "{", "}", "string", "null"}] : k \in 1..4} \cup Documents
    \cup {Front(d) : d \in Documents}

MCWidth ==
    [t \in Tokens \cup {"white"} |->
        IF t \in Literals \cup {"infinite"} THEN 4 ELSE IF t = "string" THEN 3 ELSE 1]
=============================================================================
