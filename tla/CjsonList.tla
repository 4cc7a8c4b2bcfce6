------------------------------- MODULE CjsonList -------------------------------
(***************************************************************************)
(* The lists of cJSON (cJSON.c), in which Wikigen-Auth looks up what       *)
(* GitHub and its clients sent: the items below an item are linked by next *)
(* and prev, the first one's prev being the last one, by which an item is  *)
(* appended; an item in no list has neither. The functions that build,     *)
(* search, edit, copy and compare lists are here, called in any order that *)
(* their documentation in cJSON.h allows; the parser is Cjson.             *)
(*                                                                         *)
(* Left out: values, references, and calls with an item that is already in *)
(* a list.                                                                 *)
(***************************************************************************)
EXTENDS Naturals, Sequences, FiniteSets, SequencesExt

CONSTANTS
    Items,      \* the cells items may be allocated in
    Kinds,      \* what they may be allocated as: array, object or leaf, for each cell
    Names,      \* the names of an object's items
    Folded,     \* what tolower makes of each
    NULL

ASSUME CjsonListAssumption ==
    /\ IsFiniteSet(Items)
    /\ Kinds \subseteq [Items -> {"array", "object", "leaf"}]
    /\ Folded \in [Names -> Names]
    /\ NULL \notin Items \cup Names

VARIABLE heap   \* the items allocated, and the fields of each

Pointers == Items \cup {NULL}

TypeOK ==
    heap \in [kind : Kinds, live : SUBSET Items, next : [Items -> Pointers], prev : [Items -> Pointers],
              child : [Items -> Pointers], string : [Items -> Names \cup {NULL}]]

AllNull == [i \in Items |-> NULL]

Init ==
    \E kind \in Kinds :
        heap = [kind |-> kind, live |-> {}, next |-> AllNull, prev |-> AllNull,
                child |-> AllNull, string |-> AllNull]

-----------------------------------------------------------------------------
(* Look-ups *)

\* The walk from child over next, as all that go over a list do.
List(h, p) ==
    LET from[n \in 0..Cardinality(Items), i \in Pointers] ==
            IF n = 0 \/ i = NULL THEN <<>> ELSE <<i>> \o from[n - 1, h.next[i]]
    IN  from[Cardinality(Items), h.child[p]]

GetArraySize(p) == Len(List(heap, p))

\* The first has index 0.
GetArrayItem(p, which) == IF which < GetArraySize(p) THEN List(heap, p)[which + 1] ELSE NULL

\* strcmp or case_insensitive_strcmp, which finds no name equal to NULL.
SameName(m, n, sensitive) ==
    m # NULL /\ n # NULL /\ IF sensitive THEN m = n ELSE Folded[m] = Folded[n]

\* Where the walk for a name ends; with regard to case, also at an unnamed item.
EndsWithin(i, name, sensitive) == i = NULL \/ SameName(name, heap.string[i], FALSE)
EndsAt(i, name, sensitive) ==
    \/ i = NULL
    \/ sensitive /\ heap.string[i] = NULL
    \/ SameName(name, heap.string[i], sensitive)

GetObjectItem(p, name, sensitive) ==
    LET from[n \in 0..Cardinality(Items), i \in Pointers] ==
            IF n = 0 \/ EndsAt(i, name, sensitive) THEN i ELSE from[n - 1, heap.next[i]]
        found == from[Cardinality(Items), heap.child[p]]
    IN  IF found = NULL \/ heap.string[found] = NULL THEN NULL ELSE found

\* What an object's items are compared with; the second loop catches what the first
\* object lacks.
PairsOnce(a, b, sensitive) ==
    {<<x, GetObjectItem(b, heap.string[x], sensitive)>> : x \in Range(List(heap, a))}
Pairs(a, b, sensitive) ==
    {<<x, GetObjectItem(b, heap.string[x], sensitive)>> : x \in Range(List(heap, a))}
    \cup {<<y, GetObjectItem(a, heap.string[y], sensitive)>> : y \in Range(List(heap, b))}

CompareItems(a, b, sensitive) ==
    LET equal[x \in Items, y \in Items] ==
            /\ heap.kind[x] = heap.kind[y]
            /\ \/ x = y \/ heap.kind[x] = "leaf"
               \/ /\ heap.kind[x] = "array"
                  /\ GetArraySize(x) = GetArraySize(y)
                  /\ \A k \in 1..GetArraySize(x) :
                        equal[GetArrayItem(x, k - 1), GetArrayItem(y, k - 1)]
               \/ /\ heap.kind[x] = "object"
                  /\ \A pair \in Pairs(x, y, sensitive) :
                        pair[2] # NULL /\ equal[pair[1], pair[2]]
    IN  equal[a, b]

-----------------------------------------------------------------------------
(* The links, assignment by assignment *)

\* cJSON_New_Item: the cell comes zeroed.
Allocated(h, i) == [h EXCEPT !.live = @ \cup {i}]

\* cJSON_Delete: the item, all that follow it and all below them. What freed cells
\* hold is not told apart.
Reached(h, i) ==
    LET reach[n \in 0..Cardinality(Items)] ==
            IF n = 0 THEN {i}
            ELSE LET r == reach[n - 1] IN
                 r \cup (UNION {{h.next[x], h.child[x]} : x \in r} \ {NULL})
    IN  reach[Cardinality(Items)]

Freed(h, i) ==
    LET dead == Reached(h, i)
        Cleared(f) == [x \in Items |-> IF x \in dead THEN NULL ELSE f[x]]
    IN  [h EXCEPT !.live = @ \ dead, !.next = Cleared(@), !.prev = Cleared(@),
                  !.child = Cleared(@), !.string = Cleared(@)]

Named(h, i, name) == [h EXCEPT !.string[i] = name]

\* add_item_to_array, with suffix_object.
Appended(h, p, i) ==
    IF h.child[p] = NULL
    THEN [h EXCEPT !.child[p] = i, !.prev[i] = i, !.next[i] = NULL]
    ELSE LET first == h.child[p] IN
         IF h.prev[first] = NULL THEN h
         ELSE [h EXCEPT !.next[h.prev[first]] = i, !.prev[i] = h.prev[first],
                        !.prev[first] = i]

\* cJSON_DetachItemViaPointer.
Detached(h, p, i) ==
    LET g == IF i = h.child[p] THEN [h EXCEPT !.child[p] = h.next[i]]
             ELSE [h EXCEPT !.next[h.prev[i]] = h.next[i]]
        f == IF h.next[i] # NULL THEN [g EXCEPT !.prev[h.next[i]] = h.prev[i]]
             ELSE IF i # h.child[p] THEN [g EXCEPT !.prev[h.child[p]] = h.prev[i]]
             ELSE g
    IN  [f EXCEPT !.prev[i] = NULL, !.next[i] = NULL]

\* The rest of cJSON_InsertItemInArray, in front of the item after.
InsertedUnlinked(h, p, after, i) ==
    [h EXCEPT !.next[i] = after, !.prev[i] = h.prev[after], !.prev[after] = i,
              !.child[p] = IF after = @ THEN i ELSE @]
InsertedBefore(h, p, after, i) ==
    LET g == [h EXCEPT !.next[i] = after, !.prev[i] = h.prev[after], !.prev[after] = i]
    IN  IF after = h.child[p] THEN [g EXCEPT !.child[p] = i]
        ELSE [g EXCEPT !.next[h.prev[after]] = i]

\* cJSON_ReplaceItemViaPointer: what cJSON_Delete then frees is only the old item.
Relinked(h, p, old, i) ==
    LET g == [h EXCEPT !.next[i] = h.next[old], !.prev[i] = h.prev[old]]
        f == IF g.next[i] = NULL THEN g ELSE [g EXCEPT !.prev[g.next[i]] = i]
    IN  IF f.child[p] = old
        THEN [f EXCEPT !.child[p] = i, !.prev[i] = IF f.prev[old] = old THEN i ELSE @]
        ELSE [f EXCEPT !.next[f.prev[i]] = i,
                       !.prev[f.child[p]] = IF f.next[i] = NULL THEN i ELSE @]

ReplacedStillLinked(h, p, old, i) == Freed(Relinked(h, p, old, i), old)
Replaced(h, p, old, i) ==
    Freed([Relinked(h, p, old, i) EXCEPT !.next[old] = NULL, !.prev[old] = NULL], old)

\* A list made at one go: next and prev as it grows, the first one's prev last.
Chained(h, p, s) ==
    LET Place(x) == CHOOSE k \in DOMAIN s : s[k] = x IN
    [h EXCEPT
        !.child[p] = IF s = <<>> THEN NULL ELSE s[1],
        !.next = [x \in Items |->
            IF x \notin Range(s) THEN @[x]
            ELSE IF Place(x) = Len(s) THEN NULL ELSE s[Place(x) + 1]],
        !.prev = [x \in Items |->
            IF x \notin Range(s) THEN @[x]
            ELSE IF Place(x) = 1 THEN s[Len(s)] ELSE s[Place(x) - 1]]]

-----------------------------------------------------------------------------
(* The calls. One that fails for want of memory, or for an argument that is NULL, *)
(* changes nothing, unless it says so.                                            *)

Free == Items \ heap.live
Containers == {p \in heap.live : heap.kind[p] # "leaf"}

\* What a caller may add to a list: an item it holds that is in none, and not one
\* that the list is below.
Held == {i \in heap.live : heap.prev[i] = NULL}
MayAdd(p, i) == i \in Held /\ p \notin Reached(heap, i)

Create(i) == i \in Free /\ heap' = Allocated(heap, i)

CreateIntArray(a, s) ==
    /\ heap.kind[a] = "array" /\ a \in Free
    /\ Range(s) \subseteq {i \in Free : heap.kind[i] = "leaf"}
    /\ heap' = Chained([heap EXCEPT !.live = @ \cup {a} \cup Range(s)], a, s)

AddItemToArray(p, i) == MayAdd(p, i) /\ heap' = Appended(heap, p, i)

AddItemToObject(p, name, i) ==
    heap.kind[p] = "object" /\ MayAdd(p, i) /\ heap' = Appended(Named(heap, i, name), p, i)

\* cJSON_AddNullToObject and its like, which delete the item again if they fail.
AddNewToObject(p, name, i) ==
    /\ heap.kind[p] = "object" /\ i \in Free
    /\ heap' = Appended(Named(Allocated(heap, i), i, name), p, i)

InsertItemInArray(p, which, i) ==
    /\ MayAdd(p, i)
    /\ LET after == GetArrayItem(p, which) IN
       heap' = IF after = NULL THEN Appended(heap, p, i)
               ELSE IF after # heap.child[p] /\ heap.prev[after] = NULL THEN heap
               ELSE InsertedBefore(heap, p, after, i)

DetachItem(p, i) ==
    /\ i # NULL /\ (i = heap.child[p] \/ heap.prev[i] # NULL)
    /\ heap' = Detached(heap, p, i)

DeleteItem(p, i) ==
    /\ i # NULL /\ (i = heap.child[p] \/ heap.prev[i] # NULL)
    /\ heap' = Freed(Detached(heap, p, i), i)

Delete(i) == i \in Held /\ heap' = Freed(heap, i)

ReplaceItemInArray(p, which, i) ==
    /\ MayAdd(p, i)
    /\ GetArrayItem(p, which) # NULL
    /\ heap' = Replaced(heap, p, GetArrayItem(p, which), i)

\* The replacement has its new name also if there is nothing to replace, and none
\* if there was no memory for it.
ReplaceItemInObject(p, name, sensitive, i) ==
    /\ heap.kind[p] = "object" /\ MayAdd(p, i)
    /\ \/ heap' = Named(heap, i, NULL)
       \/ LET old == GetObjectItem(p, name, sensitive) IN
          heap' = IF old = NULL THEN Named(heap, i, name)
                  ELSE Replaced(Named(heap, i, name), p, old, i)

\* Cells for the copies; lists are walked from their first items on.
Copied(copy) ==
    LET original(y) == CHOOSE x \in DOMAIN copy : copy[x] = y
        start == [heap EXCEPT
            !.live = @ \cup Range(copy),
            !.string = [y \in Items |->
                IF y \in Range(copy) THEN @[original(y)] ELSE @[y]]]
    IN  FoldSet(LAMBDA x, h :
                    Chained(h, copy[x], [k \in DOMAIN List(heap, x) |-> copy[List(heap, x)[k]]]),
                start, DOMAIN copy)

Below(i) == IF heap.child[i] = NULL THEN {} ELSE Reached(heap, heap.child[i])

Duplicate(i) ==
    \/ \E y \in Free : heap.kind[y] = heap.kind[i]
          /\ heap' = Named(Allocated(heap, y), y, heap.string[i])
    \/ \E copy \in [{i} \cup Below(i) -> Free] :
          /\ IsInjective(copy) /\ \A x \in DOMAIN copy : heap.kind[copy[x]] = heap.kind[x]
          /\ heap' = Copied(copy)

Edit(p) ==
    \/ \E i \in Items :
          \/ AddItemToArray(p, i)
          \/ \E name \in Names : AddItemToObject(p, name, i) \/ AddNewToObject(p, name, i)
          \/ \E name \in Names, sensitive \in BOOLEAN :
                ReplaceItemInObject(p, name, sensitive, i)
          \/ \E which \in 0..GetArraySize(p) :
                InsertItemInArray(p, which, i) \/ ReplaceItemInArray(p, which, i)
    \/ \E which \in 0..GetArraySize(p) :
          DetachItem(p, GetArrayItem(p, which)) \/ DeleteItem(p, GetArrayItem(p, which))
    \/ \E name \in Names, sensitive \in BOOLEAN :
          \/ DetachItem(p, GetObjectItem(p, name, sensitive))
          \/ DeleteItem(p, GetObjectItem(p, name, sensitive))

Next ==
    \/ \E i \in Items : Create(i) \/ Delete(i)
    \/ \E a \in Items, s \in SetToAllKPermutations(Free) : CreateIntArray(a, s)
    \/ \E p \in Containers : Edit(p)
    \/ \E i \in heap.live : Duplicate(i)

Spec == Init /\ [][Next]_heap

-----------------------------------------------------------------------------
(* Properties *)

\* prev undoes next, the walk over next ends, and the first item's prev is the last
\* one, by which add_item_to_array appends.
ListsLinked ==
    \A p \in heap.live :
        LET s == List(heap, p) IN
        s # <<>> =>
            /\ IsInjective(s)
            /\ heap.next[Last(s)] = NULL
            /\ heap.prev[s[1]] = Last(s)
            /\ \A k \in 2..Len(s) : heap.prev[s[k]] = s[k - 1]

\* An item points to no freed one, and is below exactly one other, or, with prev NULL,
\* below none.
NothingDangles ==
    \A i \in heap.live :
        /\ {heap.next[i], heap.prev[i], heap.child[i]} \subseteq heap.live \cup {NULL}
        /\ Cardinality({p \in heap.live : i \in Range(List(heap, p))})
              = IF heap.prev[i] = NULL THEN 0 ELSE 1

\* Whatever was added, inserted, replaced, taken out, copied or deleted, the links of
\* every list agree, and nothing is freed twice or while it is in a list.
LinksAgree == TypeOK /\ ListsLinked /\ NothingDangles

\* cJSON_GetObjectItem finds the first item of that name whatever was added after it,
\* and an item without a name hides what follows it only with regard to case.
LooksUpFirst ==
    \A p \in Containers, name \in Names, sensitive \in BOOLEAN :
        LET s == List(heap, p)
            same == {k \in DOMAIN s : SameName(name, heap.string[s[k]], sensitive)}
            hidden == {k \in same : sensitive /\ \E l \in 1..k : heap.string[s[l]] = NULL}
            found == GetObjectItem(p, name, sensitive)
        IN  IF same \subseteq hidden THEN found = NULL
            ELSE \E k \in same : found = s[k] /\ \A l \in same : k <= l

Key(i, sensitive) == IF sensitive THEN heap.string[i] ELSE Folded[heap.string[i]]

\* The values two items stand for are the same, in whatever order objects have them.
SameValue(a, b, sensitive) ==
    LET same[x \in Items, y \in Items] ==
            LET s == List(heap, x)
                t == List(heap, y)
            IN  /\ heap.kind[x] = heap.kind[y]
                /\ Len(s) = Len(t)
                /\ heap.kind[x] = "array" => \A k \in DOMAIN s : same[s[k], t[k]]
                /\ heap.kind[x] = "object" =>
                      \A k \in DOMAIN s : \E l \in DOMAIN t :
                          Key(s[k], sensitive) = Key(t[l], sensitive) /\ same[s[k], t[l]]
    IN  same[a, b]

\* Every item of an object has a name, and each its own.
OwnNames(i) ==
    \A p \in {i} \cup Below(i) : heap.kind[p] = "object" =>
        LET s == List(heap, p) IN
        /\ \A x \in Range(s) : heap.string[x] # NULL
        /\ \A x, y \in Range(s) : Key(x, FALSE) = Key(y, FALSE) => x = y

\* cJSON_Compare finds two items equal exactly if their values are, also if the items
\* of one object are among those of the other, or in another order.
ComparesValues ==
    \A a, b \in Containers, sensitive \in BOOLEAN :
        OwnNames(a) /\ OwnNames(b)
            => CompareItems(a, b, sensitive) = SameValue(a, b, sensitive)

Lists == INSTANCE ItemLists WITH
    live <- heap.live,
    below <- [i \in Items |-> IF i \in heap.live THEN List(heap, i) ELSE <<>>],
    string <- heap.string

\* Each call changes one place of one list, frees what is below it and nothing else, or
\* makes what is new: what ItemLists says with sequences, where cJSON.c has pointers.
ImplementsItemLists == Lists!Spec
=============================================================================
