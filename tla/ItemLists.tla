------------------------------- MODULE ItemLists -------------------------------
(***************************************************************************)
(* What cJSON's item lists promise, with the pointers left out: every item *)
(* has a sequence of items below it and is in at most one such sequence,   *)
(* and an operation changes one place of one sequence.                     *)
(***************************************************************************)
EXTENDS Naturals, SequencesExt

CONSTANTS
    Items,      \* the cells items may be allocated in
    Names,      \* the names of an object's items
    NULL

VARIABLES
    live,       \* the items allocated
    below,      \* the sequence below each item
    string      \* its name

vars == <<live, below, string>>

Loose(i) == i \in live /\ \A p \in live : i \notin Range(below[p])

\* An item with everything below it.
Tree(i) ==
    LET reach[n \in Nat] ==
            IF n = 0 THEN {i}
            ELSE LET r == reach[n - 1] IN r \cup UNION {Range(below[x]) : x \in r}
    IN  reach[Cardinality(live)]

Init ==
    /\ live = {}
    /\ below = [i \in Items |-> <<>>]
    /\ string = [i \in Items |-> NULL]

\* The fresh items hang below the sequences s, under the names n.
Make(fresh, s, n) ==
    /\ live' = live \cup fresh
    /\ below' = [i \in Items |-> IF i \in fresh THEN s[i] ELSE below[i]]
    /\ string' = [i \in Items |-> IF i \in fresh THEN n[i] ELSE string[i]]

MakeList(a, s) ==
    Make({a} \cup Range(s), [i \in Items |-> IF i = a THEN s ELSE <<>>],
         [i \in Items |-> NULL])

\* A copy of each of the originals, in the same order as they are.
Copy(originals, copy) ==
    LET original(y) == CHOOSE x \in originals : copy[x] = y
        copies == Range(copy)
        Listed(x) == IF Range(below[x]) \subseteq originals
                     THEN [k \in DOMAIN below[x] |-> copy[below[x][k]]] ELSE <<>>
    IN  /\ IsInjective(copy)
        /\ Make(copies, [y \in copies |-> Listed(original(y))],
                        [y \in copies |-> string[original(y)]])

Erased(dead, b, s) ==
    /\ live' = live \ dead
    /\ below' = [i \in Items |-> IF i \in dead THEN <<>> ELSE b[i]]
    /\ string' = [i \in Items |-> IF i \in dead THEN NULL ELSE s[i]]

\* Only an item in no sequence is renamed, whatever else becomes of it.
Named(i) == [string EXCEPT ![i] = string'[i]]

Rename(i) ==
    /\ UNCHANGED <<live, below>>
    /\ string' = Named(i) /\ Loose(i)

Insert(p, k, i) ==
    /\ UNCHANGED live
    /\ string' = Named(i) /\ Loose(i) /\ p \notin Tree(i)
    /\ below' = [below EXCEPT ![p] = InsertAt(@, k, i)]

InsertNew(p, i) ==
    /\ i \notin live /\ live' = live \cup {i}
    /\ string' = Named(i)
    /\ below' = [below EXCEPT ![p] = Append(@, i)]

Take(p, k) ==
    /\ UNCHANGED <<live, string>>
    /\ below' = [below EXCEPT ![p] = RemoveAt(@, k)]

Delete(p, k) == Erased(Tree(below[p][k]), [below EXCEPT ![p] = RemoveAt(@, k)], string)

Replace(p, k, i) ==
    /\ Erased(Tree(below[p][k]), [below EXCEPT ![p][k] = i], Named(i))
    /\ Loose(i) /\ p \notin Tree(i)

DeleteRoot(i) == Loose(i) /\ Erased(Tree(i), below, string)

Made ==
    \/ \E a \in Items \ live : \E s \in SetToAllKPermutations(Items \ (live \cup {a})) :
          MakeList(a, s)
    \/ \E i \in live : \E originals \in {{i}, Tree(i)} :
          \E copy \in [originals -> Items \ live] : Copy(originals, copy)
    \/ \E p \in live, i \in Items \ live : InsertNew(p, i)

Moved ==
    \/ \E i \in live : Rename(i)
    \/ \E p, i \in live : \E k \in 1..(Len(below[p]) + 1) : Insert(p, k, i)
    \/ \E p \in live : \E k \in DOMAIN below[p] : Take(p, k)

Erasure ==
    \/ \E i \in live : DeleteRoot(i)
    \/ \E p \in live : \E k \in DOMAIN below[p] :
          Delete(p, k) \/ \E i \in live : Replace(p, k, i)

Next ==
    \/ ~(live' \subseteq live) /\ Made
    \/ live' = live /\ Moved
    \/ ~(live \subseteq live') /\ Erasure

Spec == Init /\ [][Next]_vars
=============================================================================
