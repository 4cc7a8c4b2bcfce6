-------------------------------- MODULE Router --------------------------------
(***************************************************************************)
(* The router of Wikigen-Auth (router.c): the tree init_routes builds and  *)
(* the walk route_request takes through it, one segment of the request's   *)
(* path at a time.                                                         *)
(***************************************************************************)
EXTENDS Naturals, Sequences

CONSTANTS
    OtherSegments,  \* path segments that name no route
    None            \* NULL

Nodes == {"", "create-repo", "authorize"}
Segments == (Nodes \ {""}) \cup OtherSegments

\* The tree, each node named by its segment.
children == [n \in Nodes |-> IF n = "" THEN <<"create-repo", "authorize">> ELSE <<>>]
handler == [n \in Nodes |-> CASE n = "" -> "handle_root"
                              [] n = "create-repo" -> "handle_create_repo"
                              [] n = "authorize" -> "handle_authorize"]

ASSUME RouterAssumption ==
    /\ OtherSegments \cap (Nodes \cup {None}) = {}
    /\ None \notin Nodes \cup {handler[n] : n \in Nodes}

\* The node itself, or else what the first child finds that finds anything.
FirstOf(below) ==
    LET found == {i \in DOMAIN below : below[i] # None}
    IN  IF found = {} THEN None ELSE below[CHOOSE i \in found : \A j \in found : i <= j]

find_route(node, segment) ==
    LET find[n \in Nodes] ==
            IF n = segment THEN n
            ELSE FirstOf([i \in DOMAIN children[n] |-> find[children[n][i]]])
    IN  find[node]

\* Where the walk along the segments stands after i of them.
WalkFromRoot(segments) ==
    [i \in 0..Len(segments) |->
        IF i = 0 THEN "" ELSE find_route("", segments[i])]
Walk(segments) ==
    LET node[i \in 0..Len(segments)] ==
            IF i = 0 THEN ""
            ELSE IF node[i - 1] = None THEN None
            ELSE find_route(node[i - 1], segments[i])
    IN  node

\* The handler called, or None for "No route found": a path without segments
\* never gets as far as a handler.
RouteRequest(segments) ==
    IF segments = <<>> \/ Walk(segments)[Len(segments)] = None THEN None
    ELSE handler[Walk(segments)[Len(segments)]]
=============================================================================
