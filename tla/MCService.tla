------------------------------ MODULE MCService ------------------------------
(***************************************************************************)
(* Three clients of one account and two threads; c1 may break off.         *)
(***************************************************************************)
EXTENDS Service, TLC

CONSTANTS c1, alice, nameA, nameB, g1

Symmetry == Permutations(Clients \ {c1})

MCGrantOwner == g1 :> alice
MCInitLogin == alice :> nameA
AnyName == alice :> {nameA, nameB}

Create == [valid |-> TRUE, percent |-> FALSE, options |-> FALSE, path |-> <<"create-repo">>,
           head |-> 1, body |-> 0, padded |-> FALSE]
Authorize == [Create EXCEPT !.path = <<"authorize">>]
Padded == [Create EXCEPT !.path = <<>>, !.padded = TRUE]
MCRequests == {Create, Authorize, Padded}

SomeFailures == {"crash"}
=============================================================================
