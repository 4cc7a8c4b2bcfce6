------------------------------- MODULE MCServer -------------------------------
(***************************************************************************)
(* A few clients, with the requests a run asks about.                      *)
(***************************************************************************)
EXTENDS Server, TLC

Symmetry == Permutations(Clients)

Plain == [valid |-> TRUE, percent |-> FALSE, options |-> FALSE, path |-> <<"create-repo">>,
          head |-> 1, body |-> 1, padded |-> FALSE]
Preflighted == [Plain EXCEPT !.options = TRUE, !.body = 0,
                              !.path = <<"create-repo", "authorize">>]
Padded == [Preflighted EXCEPT !.padded = TRUE, !.percent = TRUE, !.head = 2, !.body = 1]

AllKinds == {Plain, Padded}
Ordinary == {Plain, Preflighted}
=============================================================================
