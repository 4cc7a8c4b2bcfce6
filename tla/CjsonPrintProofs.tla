--------------------------- MODULE CjsonPrintProofs ---------------------------
(***************************************************************************)
(* Theorems about CjsonPrint, and with it about Cjson, for any texts,      *)
(* widths, sizes and nesting limit, whichever allocations are refused.     *)
(***************************************************************************)
EXTENDS CjsonPrint, CjsonProofs

-----------------------------------------------------------------------------
(* Sizes *)

Pieces == Tokens \cup {"white"}

\* f gives the size of the first i pieces of s.
Sums(f, s, n) == f = [i \in 0..n |-> IF i = 0 THEN 0 ELSE f[i - 1] + Width[s[i]]]

LEMMA SumsExist ==
    ASSUME NEW s
    PROVE  \A n \in Nat : \E f : Sums(f, s, n)
<1> DEFINE T == {n \in Nat : \E f : Sums(f, s, n)}
<1>1. 0 \in T
    <2>1. Sums([i \in 0..0 |-> 0], s, 0)
        BY DEF Sums
    <2> QED
        BY <2>1
<1>2. ASSUME NEW n \in Nat, n \in T
      PROVE  n + 1 \in T
    <2>1. PICK f : Sums(f, s, n)
        BY <1>2
    <2> DEFINE g == [i \in 0..(n + 1) |-> IF i = n + 1 THEN f[n] + Width[s[n + 1]] ELSE f[i]]
    <2>2. \A i \in 0..n : f[i] = IF i = 0 THEN 0 ELSE f[i - 1] + Width[s[i]]
        BY <2>1 DEF Sums
    <2>3. ASSUME NEW i \in 0..(n + 1)
          PROVE  g[i] = IF i = 0 THEN 0 ELSE g[i - 1] + Width[s[i]]
        <3>1. CASE i = n + 1
            <4>1. i # 0 /\ i - 1 = n /\ n \in 0..(n + 1) /\ n # n + 1
                BY <3>1
            <4>2. g[i] = f[n] + Width[s[n + 1]] /\ g[n] = f[n]
                BY <3>1, <4>1
            <4> HIDE DEF g
            <4> QED
                BY <3>1, <4>1, <4>2
        <3>2. CASE i = 0
            <4>1. i \in 0..n /\ i # n + 1
                BY <3>2
            <4>2. g[i] = f[i] /\ f[i] = 0
                BY <2>2, <3>2, <4>1
            <4> HIDE DEF g
            <4> QED
                BY <3>2, <4>2
        <3>3. CASE i # 0 /\ i # n + 1
            <4>1. i \in 0..n /\ i - 1 \in 0..(n + 1) /\ i - 1 # n + 1
                BY <3>3
            <4>2. g[i] = f[i] /\ g[i - 1] = f[i - 1] /\ f[i] = f[i - 1] + Width[s[i]]
                BY <2>2, <3>3, <4>1
            <4> HIDE DEF g
            <4> QED
                BY <3>3, <4>2
        <3> QED
            BY <3>1, <3>2, <3>3
    <2>4. g = [i \in 0..(n + 1) |-> g[i]]
        OBVIOUS
    <2> HIDE DEF g
    <2>5. Sums(g, s, n + 1)
        BY <2>3, <2>4 DEF Sums
    <2> QED
        BY <2>5
<1> HIDE DEF T
<1>3. \A n \in Nat : n \in T
    BY <1>1, <1>2, AllNumbers
<1> QED
    BY <1>3 DEF T

LEMMA SizeSums ==
    ASSUME NEW s, Len(s) \in Nat
    PROVE  \E f : /\ Size(s) = f[Len(s)] /\ f[0] = 0
                  /\ \A i \in 1..Len(s) : f[i] = f[i - 1] + Width[s[i]]
<1> DEFINE P(f) == f = [i \in 0..Len(s) |-> IF i = 0 THEN 0 ELSE f[i - 1] + Width[s[i]]]
<1>1. PICK h : P(h)
    BY SumsExist DEF Sums
<1>2. P(CHOOSE f : P(f))
    <2> HIDE DEF P
    <2> QED
        BY <1>1, Zenon
<1>3. Size(s) = (CHOOSE f : P(f))[Len(s)]
    BY DEF Size
<1>4. PICK f : P(f) /\ Size(s) = f[Len(s)]
    <2> HIDE DEF P
    <2> QED
        BY <1>2, <1>3, Zenon
<1>5. \A i \in 0..Len(s) : f[i] = IF i = 0 THEN 0 ELSE f[i - 1] + Width[s[i]]
    BY <1>4
<1>6. f[0] = 0 /\ \A i \in 1..Len(s) : f[i] = f[i - 1] + Width[s[i]]
    <2>1. \A i \in 1..Len(s) : i \in 0..Len(s) /\ i # 0
        OBVIOUS
    <2>2. 0 \in 0..Len(s)
        OBVIOUS
    <2> HIDE DEF P
    <2> QED
        BY <1>5, <2>1, <2>2
<1> QED
    BY <1>4, <1>6

\* f gives the size of the first i pieces of s, as SizeSums says there is one.
Running(s, f) == f[0] = 0 /\ \A i \in 1..Len(s) : f[i] = f[i - 1] + Width[s[i]]

LEMMA Widths ==
    /\ \A x \in Pieces : Width[x] \in Nat \ {0}
    /\ \A x \in {"[", "]", "{", "}", ",", ":", "white"} : x \in Pieces /\ Width[x] = 1
    /\ Scalars \subseteq Pieces
    /\ \A t \in Scalars : PrintedAs(t) \in Pieces /\ Width[PrintedAs(t)] = Width[t]
BY CjsonPrintAssumption DEF Pieces, Tokens, Scalars, Literals, PrintedAs

LEMMA RunningNat ==
    ASSUME NEW s \in Seq(Pieces), NEW f, Running(s, f)
    PROVE  \A n \in 0..Len(s) : f[n] \in Nat
<1> DEFINE T == {n \in Nat : n <= Len(s) => f[n] \in Nat}
<1>1. Len(s) \in Nat
    OBVIOUS
<1>2. 0 \in T
    BY <1>1 DEF Running
<1>3. ASSUME NEW n \in Nat, n \in T
      PROVE  n + 1 \in T
    <2>1. SUFFICES ASSUME n + 1 <= Len(s)
                   PROVE  f[n + 1] \in Nat
        OBVIOUS
    <2>2. n + 1 \in 1..Len(s) /\ (n + 1) - 1 = n /\ f[n] \in Nat
        BY <1>1, <1>3, <2>1
    <2>3. f[n + 1] = f[n] + Width[s[n + 1]]
        BY <2>2 DEF Running
    <2>4. s[n + 1] \in Pieces
        BY <2>2, ElementOfSeq
    <2>5. Width[s[n + 1]] \in Nat
        BY <2>4, Widths
    <2> QED
        BY <2>2, <2>3, <2>5
<1> HIDE DEF T
<1>4. \A n \in Nat : n \in T
    BY <1>2, <1>3, AllNumbers
<1> QED
    BY <1>1, <1>4 DEF T

LEMMA SizeNat ==
    ASSUME NEW s \in Seq(Pieces)
    PROVE  Size(s) \in Nat
<1>1. Len(s) \in Nat
    OBVIOUS
<1>2. PICK f : Size(s) = f[Len(s)] /\ Running(s, f)
    BY <1>1, SizeSums DEF Running
<1>3. Len(s) \in 0..Len(s)
    BY <1>1
<1> QED
    BY <1>2, <1>3, RunningNat

\* The size of a text and one behind it.
LEMMA SizeJoined ==
    ASSUME NEW s \in Seq(Pieces), NEW t \in Seq(Pieces)
    PROVE  s \o t \in Seq(Pieces) /\ Size(s \o t) = Size(s) + Size(t)
<1> DEFINE u == s \o t
<1>1. u \in Seq(Pieces)
    OBVIOUS
<1>2. Len(s) \in Nat /\ Len(t) \in Nat /\ Len(u) = Len(s) + Len(t)
    OBVIOUS
<1>3. /\ \A i \in 1..Len(s) : u[i] = s[i]
      /\ \A i \in 1..Len(t) : u[Len(s) + i] = t[i]
    OBVIOUS
<1> HIDE DEF u
<1>4. PICK f : Size(s) = f[Len(s)] /\ Running(s, f)
    BY <1>2, SizeSums DEF Running
<1>5. PICK g : Size(t) = g[Len(t)] /\ Running(t, g)
    BY <1>2, SizeSums DEF Running
<1>6. Len(u) \in Nat
    BY <1>2
<1>7. PICK h : Size(u) = h[Len(u)] /\ Running(u, h)
    BY <1>6, SizeSums DEF Running
<1>8. f[Len(s)] \in Nat /\ \A n \in 0..Len(t) : g[n] \in Nat
    BY <1>2, <1>4, <1>5, RunningNat
<1>9. h[Len(s)] = f[Len(s)]
    <2> DEFINE T == {n \in Nat : n <= Len(s) => h[n] = f[n]}
    <2>1. 0 \in T
        BY <1>4, <1>7 DEF Running
    <2>2. ASSUME NEW n \in Nat, n \in T
          PROVE  n + 1 \in T
        <3>1. SUFFICES ASSUME n + 1 <= Len(s)
                       PROVE  h[n + 1] = f[n + 1]
            OBVIOUS
        <3>2. /\ n + 1 \in 1..Len(s) /\ n + 1 \in 1..Len(u) /\ (n + 1) - 1 = n
              /\ h[n] = f[n]
            BY <1>2, <2>2, <3>1
        <3>3. h[n + 1] = h[n] + Width[u[n + 1]] /\ f[n + 1] = f[n] + Width[s[n + 1]]
            BY <1>4, <1>7, <3>2 DEF Running
        <3> QED
            BY <1>3, <3>2, <3>3
    <2> HIDE DEF T
    <2>3. \A n \in Nat : n \in T
        BY <2>1, <2>2, AllNumbers
    <2> QED
        BY <1>2, <2>3 DEF T
<1>10. h[Len(u)] = f[Len(s)] + g[Len(t)]
    <2> DEFINE T == {n \in Nat : n <= Len(t) => h[Len(s) + n] = f[Len(s)] + g[n]}
    <2>1. 0 \in T
        <3>1. Len(s) + 0 = Len(s) /\ g[0] = 0 /\ f[Len(s)] + 0 = f[Len(s)]
            BY <1>2, <1>5, <1>8 DEF Running
        <3> QED
            BY <1>9, <3>1
    <2>2. ASSUME NEW n \in Nat, n \in T
          PROVE  n + 1 \in T
        <3>1. SUFFICES ASSUME n + 1 <= Len(t)
                       PROVE  h[Len(s) + (n + 1)] = f[Len(s)] + g[n + 1]
            OBVIOUS
        <3>2. /\ n + 1 \in 1..Len(t) /\ n \in 0..Len(t) /\ (n + 1) - 1 = n
              /\ Len(s) + (n + 1) \in 1..Len(u)
              /\ (Len(s) + (n + 1)) - 1 = Len(s) + n
              /\ h[Len(s) + n] = f[Len(s)] + g[n]
            BY <1>2, <2>2, <3>1
        <3> DEFINE k == Len(s) + (n + 1)
                   w == Width[t[n + 1]]
        <3>3. h[k] = h[k - 1] + Width[u[k]]
            BY <1>7, <3>2 DEF Running
        <3>4. g[n + 1] = g[n] + w
            BY <1>5, <3>2 DEF Running
        <3>5. u[k] = t[n + 1]
            BY <1>3, <3>2
        <3>6. w \in Nat /\ g[n] \in Nat /\ f[Len(s)] \in Nat
            <4>1. t[n + 1] \in Pieces
                BY <3>2, ElementOfSeq
            <4> QED
                BY <1>8, <3>2, <4>1, Widths
        <3>7. h[k] = (f[Len(s)] + g[n]) + w
            BY <3>2, <3>3, <3>5
        <3> QED
            BY <3>4, <3>6, <3>7
    <2> HIDE DEF T
    <2>3. \A n \in Nat : n \in T
        BY <2>1, <2>2, AllNumbers
    <2> QED
        BY <1>2, <2>3 DEF T
<1> QED
    BY <1>1, <1>4, <1>5, <1>7, <1>10 DEF u

\* The size of pieces of one byte each.
LEMMA SizeOnes ==
    ASSUME NEW s \in Seq(Pieces), \A i \in 1..Len(s) : Width[s[i]] = 1
    PROVE  Size(s) = Len(s)
<1>1. Len(s) \in Nat
    OBVIOUS
<1>2. PICK f : Size(s) = f[Len(s)] /\ Running(s, f)
    BY <1>1, SizeSums DEF Running
<1> DEFINE T == {n \in Nat : n <= Len(s) => f[n] = n}
<1>3. 0 \in T
    BY <1>2 DEF Running
<1>4. ASSUME NEW n \in Nat, n \in T
      PROVE  n + 1 \in T
    <2>1. SUFFICES ASSUME n + 1 <= Len(s)
                   PROVE  f[n + 1] = n + 1
        OBVIOUS
    <2>2. n + 1 \in 1..Len(s) /\ (n + 1) - 1 = n /\ f[n] = n
        BY <1>1, <1>4, <2>1
    <2> QED
        BY <1>2, <2>2 DEF Running
<1> HIDE DEF T
<1>5. \A n \in Nat : n \in T
    BY <1>3, <1>4, AllNumbers
<1> QED
    BY <1>1, <1>2, <1>5 DEF T

LEMMA SizeOfOne ==
    ASSUME NEW x \in Pieces
    PROVE  <<x>> \in Seq(Pieces) /\ Size(<<x>>) = Width[x]
<1>1. <<x>> \in Seq(Pieces) /\ Len(<<x>>) = 1 /\ <<x>>[1] = x
    OBVIOUS
<1>2. PICK f : Size(<<x>>) = f[1] /\ Running(<<x>>, f)
    BY <1>1, SizeSums DEF Running
<1>3. f[0] = 0 /\ f[1] = f[1 - 1] + Width[<<x>>[1]] /\ 1 - 1 = 0
    BY <1>1, <1>2 DEF Running
<1>4. Width[x] \in Nat
    BY Widths
<1> QED
    BY <1>1, <1>2, <1>3, <1>4

LEMMA SizeOfNone == <<>> \in Seq(Pieces) /\ Size(<<>>) = 0
<1>1. <<>> \in Seq(Pieces) /\ Len(<<>>) = 0 /\ Len(<<>>) \in Nat
    OBVIOUS
<1>2. PICK f : Size(<<>>) = f[Len(<<>>)] /\ f[0] = 0
    BY <1>1, SizeSums
<1> QED
    BY <1>1, <1>2

LEMMA SizeOfWhite ==
    ASSUME NEW n \in Nat
    PROVE  /\ White(n) \in Seq(Pieces) /\ Len(White(n)) = n /\ Size(White(n)) = n
           /\ \A i \in 1..n : White(n)[i] = "white"
<1>1. "white" \in Pieces /\ Width["white"] = 1
    BY Widths
<1>2. White(n) \in Seq(Pieces) /\ Len(White(n)) = n
    BY <1>1 DEF White
<1>3. \A i \in 1..n : White(n)[i] = "white"
    BY DEF White
<1> QED
    BY <1>1, <1>2, <1>3, SizeOnes

\* A piece of one byte with white space behind it or before it.
LEMMA SizeWithWhite ==
    ASSUME NEW x \in Pieces, Width[x] = 1, NEW n \in Nat
    PROVE  /\ <<x>> \o White(n) \in Seq(Pieces) /\ Size(<<x>> \o White(n)) = n + 1
           /\ White(n) \o <<x>> \in Seq(Pieces) /\ Size(White(n) \o <<x>>) = n + 1
<1> DEFINE s == <<x>>
           t == White(n)
<1>1. s \in Seq(Pieces) /\ Size(s) = 1
    BY SizeOfOne
<1>2. t \in Seq(Pieces) /\ Size(t) = n
    BY SizeOfWhite
<1> HIDE DEF s, t
<1>3. /\ s \o t \in Seq(Pieces) /\ t \o s \in Seq(Pieces)
      /\ Size(s \o t) = Size(s) + Size(t) /\ Size(t \o s) = Size(t) + Size(s)
    BY <1>1, <1>2, SizeJoined
<1>4. Size(s \o t) = n + 1 /\ Size(t \o s) = n + 1
    BY <1>1, <1>2, <1>3
<1> QED
    BY <1>3, <1>4 DEF s, t

-----------------------------------------------------------------------------
(* The block *)

Nul(b) == IF b.nul THEN 1 ELSE 0

\* The bytes of the block that are written.
Used(b) == (Size(b.out) + Size(b.last)) + Nul(b)

BufferTypes ==
    [out : Seq(Pieces), last : Seq(Pieces), nul : BOOLEAN, length : 0..IntMax,
     block : BOOLEAN, held : 0..1, ok : BOOLEAN, refused : BOOLEAN]

\* What is written is in the block, and the block is held once or is the caller's.
BufferRight(b, name) ==
    /\ b \in BufferTypes
    /\ b.block => Used(b) <= b.length
    /\ b.held = IF name # "preallocated" /\ b.block THEN 1 ELSE 0

BufferInv ==
    /\ caller \in [name : {"none", "print", "buffered", "preallocated"}, format : BOOLEAN]
    /\ BufferRight(buffer, caller.name)
    /\ step \in {"value", "loop", "key", "colon", "behind", "printed"} => buffer.block
    /\ step = "behind" => buffer.nul
    /\ step = "failed" => (caller.name = "preallocated" \/ ~buffer.block)

LEMMA BufferSizes ==
    ASSUME NEW b \in BufferTypes
    PROVE  /\ b.out \in Seq(Pieces) /\ b.last \in Seq(Pieces) /\ b.length \in Nat
           /\ Size(b.out) \in Nat /\ Size(b.last) \in Nat
           /\ Nul(b) \in {0, 1} /\ Used(b) \in Nat
           /\ IntMax \in Nat /\ b.length <= IntMax
<1>1. b.out \in Seq(Pieces) /\ b.last \in Seq(Pieces) /\ b.length \in 0..IntMax
    BY DEF BufferTypes
<1>2. IntMax \in Nat
    BY CjsonPrintAssumption
<1>3. Size(b.out) \in Nat /\ Size(b.last) \in Nat
    BY <1>1, SizeNat
<1>4. Nul(b) \in {0, 1}
    BY DEF Nul
<1> DEFINE x == Size(b.out)
           y == Size(b.last)
           z == Nul(b)
<1>5. Used(b) = (x + y) + z
    BY DEF Used
<1>6. x \in Nat /\ y \in Nat /\ z \in {0, 1}
    BY <1>3, <1>4
<1> HIDE DEF x, y, z
<1>7. Used(b) \in Nat
    BY <1>5, <1>6
<1> QED
    BY <1>1, <1>2, <1>3, <1>4, <1>7

\* If ensure succeeds, the block has room for what was asked, at most grown for it;
\* if it fails, the block is as it was or freed.
LEMMA EnsuredRoom ==
    ASSUME NEW b, BufferRight(b, caller.name), b.block, NEW n \in Nat, NEW c \in Ensured(b, n)
    PROVE  \/ /\ c.ok /\ c = [b EXCEPT !.length = c.length]
              /\ c.length \in 0..IntMax
              /\ n + Size(b.out) + 1 <= c.length
           \/ ~c.ok /\ BufferRight(c, caller.name)
<1> DEFINE total == Needed(b, n)
<1>1. b \in BufferTypes
    BY DEF BufferRight
<1>2. IntMax \in Nat /\ Size(b.out) \in Nat /\ Size(b.last) \in Nat
    BY <1>1, BufferSizes
<1>3. total = n + Size(b.out) + 1 /\ total \in Nat
    BY <1>2 DEF Needed
<1>4. CASE c = [b EXCEPT !.ok = FALSE]
    <2>1. /\ c \in BufferTypes /\ ~c.ok
          /\ c.out = b.out /\ c.last = b.last /\ c.nul = b.nul /\ c.length = b.length
          /\ c.block = b.block /\ c.held = b.held
        BY <1>1, <1>4 DEF BufferTypes
    <2>2. Used(c) = Used(b)
        BY <2>1, Zenon DEF Used, Nul
    <2> QED
        BY <2>1, <2>2 DEF BufferRight
<1>5. CASE c = b /\ Fits(b, total)
    <2>1. c = [b EXCEPT !.length = c.length] /\ c.length \in 0..IntMax
        BY <1>1, <1>5 DEF BufferTypes
    <2> QED
        BY <1>3, <1>5, <2>1 DEF Fits, BufferRight
<1>6. CASE c = [b EXCEPT !.length = NewSize(total)] /\ ~Fits(b, total) /\ ~(total > IntMax)
    <2>1. c.length = NewSize(total) /\ c = [b EXCEPT !.length = c.length] /\ c.ok = b.ok
        BY <1>1, <1>6 DEF BufferTypes
    <2>2. NewSize(total) \in 0..IntMax /\ total <= NewSize(total)
        <3> HIDE DEF total
        <3>1. total \in Nat /\ IntMax \in Nat /\ total <= IntMax
            BY <1>2, <1>3, <1>6
        <3>2. CASE total > IntMax \div 2
            BY <3>1, <3>2 DEF NewSize
        <3>3. CASE ~(total > IntMax \div 2)
            BY <3>1, <3>3 DEF NewSize
        <3> QED
            BY <3>2, <3>3
    <2>3. CASE c.ok
        BY <1>3, <2>1, <2>2, <2>3
    <2>4. CASE ~c.ok
        <3>1. /\ c \in BufferTypes /\ c.out = b.out /\ c.last = b.last /\ c.nul = b.nul
              /\ c.block = b.block /\ c.held = b.held /\ c.length = NewSize(total)
            BY <1>1, <1>6, <2>2 DEF BufferTypes
        <3>2. Used(c) = Used(b) /\ b.length \in Nat /\ Used(b) \in Nat
            BY <1>1, <3>1, BufferSizes, Zenon DEF Used, Nul
        <3>3. b.length <= c.length
            BY <1>2, <1>3, <1>6, <2>2, <3>1, <3>2 DEF Fits
        <3>4. c.block => Used(c) <= c.length
            BY <2>2, <3>1, <3>2, <3>3 DEF BufferRight
        <3>5. c.held = IF caller.name # "preallocated" /\ c.block THEN 1 ELSE 0
            BY <3>1 DEF BufferRight
        <3> QED
            BY <2>4, <3>1, <3>4, <3>5 DEF BufferRight
    <2> QED
        BY <2>3, <2>4
<1>7. CASE c = GrowthRefused(b) /\ caller.name # "preallocated"
    <2>1. b.held = 1 /\ 0 \in 0..IntMax
        BY <1>2, <1>7 DEF BufferRight
    <2>2. /\ c = [b EXCEPT !.ok = FALSE, !.refused = TRUE, !.length = 0, !.block = FALSE,
                           !.held = b.held - 1]
          /\ b.held - 1 = 0
        BY <1>1, <1>7, <2>1 DEF GrowthRefused, BufferTypes
    <2>3. c = [b EXCEPT !.ok = FALSE, !.refused = TRUE, !.length = 0, !.block = FALSE, !.held = 0]
        BY <2>2
    <2>4. c \in BufferTypes /\ ~c.ok /\ ~c.block /\ c.held = 0
        <3>1. c = [out |-> b.out, last |-> b.last, nul |-> b.nul, length |-> 0,
                   block |-> FALSE, held |-> 0, ok |-> FALSE, refused |-> TRUE]
            BY <1>1, <2>3 DEF BufferTypes
        <3>2. b.out \in Seq(Pieces) /\ b.last \in Seq(Pieces) /\ b.nul \in BOOLEAN
            BY <1>1 DEF BufferTypes
        <3> QED
            BY <2>1, <3>1, <3>2 DEF BufferTypes
    <2> QED
        BY <2>4 DEF BufferRight
<1> QED
    BY <1>4, <1>5, <1>6, <1>7 DEF Ensured

\* One call of ensure, and what is written if it succeeds.
LEMMA WriteKeeps ==
    ASSUME NEW b, BufferRight(b, caller.name), b.block, NEW n \in Nat,
           NEW w \in BufferTypes, w.block, w.held = b.held, Used(w) <= n + Size(b.out) + 1,
           NEW next, Write(b, n, w, next), UNCHANGED caller
    PROVE  /\ BufferRight(buffer', caller'.name)
           /\ \/ step' = "unwound"
              \/ step' = next /\ buffer'.block /\ buffer'.nul = w.nul
<1>1. PICK c \in Ensured(b, n) :
          /\ buffer' = IF c.ok THEN [w EXCEPT !.length = c.length] ELSE c
          /\ step' = IF c.ok THEN next ELSE "unwound"
    BY DEF Write
<1>2. CASE ~c.ok
    BY <1>1, <1>2, EnsuredRoom
<1>3. CASE c.ok
    <2>1. c.length \in 0..IntMax /\ n + Size(b.out) + 1 <= c.length
        BY <1>3, EnsuredRoom
    <2>2. b \in BufferTypes /\ IntMax \in Nat /\ Size(b.out) \in Nat /\ Used(w) \in Nat
        BY BufferSizes DEF BufferRight
    <2>3. Used(w) <= c.length
        BY <2>1, <2>2
    <2>4. /\ buffer' \in BufferTypes /\ buffer'.out = w.out /\ buffer'.last = w.last
          /\ buffer'.nul = w.nul /\ buffer'.length = c.length
          /\ buffer'.block = w.block /\ buffer'.held = w.held
        BY <1>1, <1>3, <2>1 DEF BufferTypes
    <2>5. Used(buffer') = Used(w)
        BY <2>4, Zenon DEF Used, Nul
    <2>6. b.held = IF caller.name # "preallocated" /\ b.block THEN 1 ELSE 0
        BY DEF BufferRight
    <2> QED
        BY <1>1, <1>3, <2>3, <2>4, <2>5, <2>6 DEF BufferRight
<1> QED
    BY <1>2, <1>3

LEMMA BehindUsed ==
    ASSUME NEW b \in BufferTypes, NEW s \in Seq(Pieces)
    PROVE  /\ Behind(b, s) \in BufferTypes
           /\ Behind(b, s).block = b.block /\ Behind(b, s).held = b.held /\ Behind(b, s).nul
           /\ Behind(b, s).out = b.out /\ Behind(b, s).last = s
           /\ Used(Behind(b, s)) = Size(b.out) + Size(s) + 1
<1> DEFINE w == Behind(b, s)
<1>1. /\ w \in BufferTypes /\ w.block = b.block /\ w.held = b.held /\ w.nul = TRUE
      /\ w.out = b.out /\ w.last = s
    BY DEF BufferTypes, Behind
<1> HIDE DEF w
<1>2. Used(w) = Size(b.out) + Size(s) + 1
    BY <1>1 DEF Used, Nul
<1> QED
    BY <1>1, <1>2 DEF w

LEMMA CountedUsed ==
    ASSUME NEW b \in BufferTypes, NEW s \in Seq(Pieces), NEW nul \in BOOLEAN
    PROVE  /\ Counted(b, s, nul) \in BufferTypes
           /\ Counted(b, s, nul).block = b.block /\ Counted(b, s, nul).held = b.held
           /\ Counted(b, s, nul).nul = nul
           /\ Used(Counted(b, s, nul)) <= Size(b.out) + Size(s) + 1
<1> DEFINE w == Counted(b, s, nul)
<1>1. b.out \in Seq(Pieces) /\ Size(b.out) \in Nat /\ Size(s) \in Nat
    BY BufferSizes, SizeNat
<1>2. b.out \o s \in Seq(Pieces) /\ Size(b.out \o s) = Size(b.out) + Size(s)
    BY <1>1, SizeJoined
<1>3. <<>> \in Seq(Pieces) /\ Size(<<>>) = 0
    BY SizeOfNone
<1>4. /\ w \in BufferTypes /\ w.block = b.block /\ w.held = b.held /\ w.nul = nul
      /\ w.out = b.out \o s /\ w.last = <<>>
    BY <1>2, <1>3 DEF BufferTypes, Counted
<1> DEFINE x == Size(b.out)
           y == Size(s)
<1>5. x \in Nat /\ y \in Nat
    BY <1>1
<1>6. Used(w) = ((x + y) + 0) + Nul(w) /\ Nul(w) \in {0, 1}
    <2> HIDE DEF w
    <2>1. Size(w.out) = x + y /\ Size(w.last) = 0
        BY <1>2, <1>3, <1>4, Zenon
    <2>2. Nul(w) \in {0, 1}
        BY DEF Nul
    <2> HIDE DEF x, y
    <2> QED
        BY <2>1, <2>2, Zenon DEF Used
<1>7. Used(w) <= x + y + 1
    <2> HIDE DEF w, x, y
    <2> QED
        BY <1>5, <1>6
<1> QED
    BY <1>4, <1>7

\* update_offset moves nothing.
LEMMA UpdateUsed ==
    ASSUME NEW b \in BufferTypes
    PROVE  /\ UpdateOffset(b) \in BufferTypes
           /\ UpdateOffset(b).block = b.block /\ UpdateOffset(b).nul = b.nul
           /\ UpdateOffset(b).held = b.held /\ UpdateOffset(b).length = b.length
           /\ Used(UpdateOffset(b)) = Used(b)
           /\ Size(UpdateOffset(b).out) = Size(b.out) + Size(b.last)
<1> DEFINE w == UpdateOffset(b)
<1>1. b.out \in Seq(Pieces) /\ b.last \in Seq(Pieces)
    BY DEF BufferTypes
<1>2. b.out \o b.last \in Seq(Pieces) /\ Size(b.out \o b.last) = Size(b.out) + Size(b.last)
    BY <1>1, SizeJoined
<1>3. <<>> \in Seq(Pieces) /\ Size(<<>>) = 0
    BY SizeOfNone
<1>4. /\ w \in BufferTypes /\ w.block = b.block /\ w.held = b.held /\ w.nul = b.nul
      /\ w.length = b.length /\ w.out = b.out \o b.last /\ w.last = <<>>
    BY <1>2, <1>3 DEF BufferTypes, UpdateOffset
<1>5. Used(w) = Used(b)
    <2> DEFINE x == Size(b.out)
               y == Size(b.last)
    <2>1. x + y \in Nat
        BY BufferSizes
    <2> HIDE DEF w
    <2>2. Size(w.out) = x + y /\ Size(w.last) = 0 /\ Nul(w) = Nul(b)
        BY <1>2, <1>3, <1>4, Zenon DEF Nul
    <2>3. Used(w) = ((x + y) + 0) + Nul(b)
        BY <2>2, Zenon DEF Used
    <2>4. Used(b) = (x + y) + Nul(b)
        BY DEF Used
    <2> HIDE DEF x, y
    <2> QED
        BY <2>1, <2>3, <2>4
<1> QED
    BY <1>2, <1>4, <1>5

LEMMA UpdateKeeps ==
    ASSUME NEW b, NEW name, BufferRight(b, name)
    PROVE  BufferRight(UpdateOffset(b), name)
BY UpdateUsed DEF BufferRight

\* So a call that writes leaves the buffer right, and goes on or unwinds.
LEMMA Wrote ==
    ASSUME BufferInv, NEW b, BufferRight(b, caller.name), b.block, NEW n \in Nat,
           NEW w \in BufferTypes, w.block, w.held = b.held, Used(w) <= n + Size(b.out) + 1,
           NEW next, next \in {"value", "loop", "key", "colon"} \/ (next = "behind" /\ w.nul),
           Write(b, n, w, next), UNCHANGED caller
    PROVE  BufferInv' /\ step' \in {"unwound", next}
<1>1. /\ BufferRight(buffer', caller'.name)
      /\ \/ step' = "unwound"
         \/ step' = next /\ buffer'.block /\ buffer'.nul = w.nul
    BY WriteKeeps
<1>2. caller' \in [name : {"none", "print", "buffered", "preallocated"}, format : BOOLEAN]
    BY DEF BufferInv
<1>3. CASE step' = "unwound"
    BY <1>1, <1>2, <1>3 DEF BufferInv
<1>4. CASE step' = next /\ buffer'.block /\ buffer'.nul = w.nul
    BY <1>1, <1>2, <1>4 DEF BufferInv
<1> QED
    BY <1>1, <1>3, <1>4

-----------------------------------------------------------------------------
(* Printing *)

WalkFrames == [list : 1..Len(heap), current : 0..Len(heap)]

\* Only the frame on top may have come to the end of its list.
WalkInv ==
    /\ frames \in Seq(WalkFrames)
    /\ \A i \in 1..Len(frames) : heap[frames[i].list].type \in {"[", "{"}
    /\ item \in 0..Len(heap)
    /\ step = "value" => item # NULL
    /\ step \in {"value", "key", "colon", "behind"} =>
          \A i \in 1..Len(frames) : frames[i].current # NULL
    /\ step = "loop" => \A i \in 1..Len(frames) - 1 : frames[i].current # NULL
    /\ step \in {"loop", "key", "colon"} => frames # <<>>

StepInv ==
    /\ step \in {"idle", "value", "loop", "key", "colon", "behind", "unwound", "printed", "failed"}
    /\ step # "idle" => pc = "done" /\ root # NULL
    /\ step = "idle" => frames = <<>> /\ item = NULL

PrintInv == ParserInv /\ BufferInv /\ WalkInv /\ StepInv

LEMMA PrintInvInit == PrintInit => PrintInv
<1> SUFFICES ASSUME PrintInit
             PROVE  PrintInv
    OBVIOUS
<1>1. ParserInv
    BY ParserInvInit DEF PrintInit
<1>2. Len(heap) \in Nat /\ 0 \in 0..IntMax /\ 0 \in 0..1
    <2>1. Len(heap) \in Nat
        BY <1>1 DEF ParserInv, HeapInv
    <2>2. IntMax \in Nat
        BY CjsonPrintAssumption
    <2>3. 0 \in 0..1
        OBVIOUS
    <2> QED
        BY <2>1, <2>2, <2>3
<1>3. BufferInv
    <2>1. <<>> \in Seq(Pieces)
        OBVIOUS
    <2>2. buffer \in BufferTypes /\ ~buffer.block /\ buffer.held = 0
        BY <1>2, <2>1 DEF PrintInit, NoBuffer, BufferTypes
    <2>3. BufferRight(buffer, caller.name)
        BY <2>2 DEF BufferRight
    <2> QED
        BY <2>3 DEF BufferInv, PrintInit
<1>4. WalkInv
    <2>1. <<>> \in Seq(WalkFrames) /\ Len(<<>>) = 0
        OBVIOUS
    <2> QED
        BY <1>2, <2>1 DEF WalkInv, PrintInit, NULL
<1>5. StepInv
    BY DEF StepInv, PrintInit
<1> QED
    BY <1>1, <1>3, <1>4, <1>5 DEF PrintInv

\* The frames, and the one on top.
LEMMA WalkPlaces ==
    ASSUME PrintInv
    PROVE  /\ Len(heap) \in Nat /\ Len(frames) \in Nat
           /\ frames # <<>> => /\ Len(frames) \in 1..Len(frames)
                               /\ Frame = frames[Len(frames)]
                               /\ Frame.list \in 1..Len(heap)
                               /\ Frame.current \in 0..Len(heap)
                               /\ Frame = [list |-> Frame.list, current |-> Frame.current]
                               /\ heap[Frame.list].type \in {"[", "{"}
                               /\ Front(frames) \in Seq(WalkFrames)
                               /\ Len(Front(frames)) = Len(frames) - 1
                               /\ \A i \in 1..Len(frames) - 1 : Front(frames)[i] = frames[i]
<1>1. Len(heap) \in Nat
    BY DEF PrintInv, ParserInv, HeapInv
<1>2. frames \in Seq(WalkFrames)
    BY DEF PrintInv, WalkInv
<1>3. Len(frames) \in Nat
    BY <1>2
<1>4. ASSUME frames # <<>>
      PROVE  /\ Len(frames) \in 1..Len(frames)
             /\ Frame = frames[Len(frames)]
             /\ Frame \in WalkFrames
             /\ heap[Frame.list].type \in {"[", "{"}
             /\ Front(frames) \in Seq(WalkFrames)
             /\ Len(Front(frames)) = Len(frames) - 1
             /\ \A i \in 1..Len(frames) - 1 : Front(frames)[i] = frames[i]
    <2>1. Len(frames) \in 1..Len(frames)
        BY <1>2, <1>4, EmptySeq
    <2>2. Frame = frames[Len(frames)]
        BY DEF Frame, Last
    <2>3. frames[Len(frames)] \in WalkFrames
        BY <1>2, <2>1, ElementOfSeq
    <2>4. heap[Frame.list].type \in {"[", "{"}
        BY <2>1, <2>2 DEF PrintInv, WalkInv
    <2>5. /\ Front(frames) \in Seq(WalkFrames)
          /\ Len(Front(frames)) = Len(frames) - 1
          /\ \A i \in 1..Len(frames) - 1 : Front(frames)[i] = frames[i]
        BY <1>2, <1>4, FrontOf
    <2> QED
        BY <2>1, <2>2, <2>3, <2>4, <2>5
<1>5. ASSUME NEW f \in WalkFrames
      PROVE  /\ f.list \in 1..Len(heap) /\ f.current \in 0..Len(heap)
             /\ f = [list |-> f.list, current |-> f.current]
    BY DEF WalkFrames
<1> QED
    BY <1>1, <1>3, <1>4, <1>5

\* A step that only goes on: the parser has ended, and the frames are kept.
LEMMA StepsOn ==
    ASSUME PrintInv, UNCHANGED vars, step # "idle" \/ (pc = "done" /\ root # NULL),
           step' \in {"value", "loop", "key", "colon", "behind", "unwound", "printed", "failed"}
    PROVE  ParserInv' /\ StepInv'
<1>1. ParserInv'
    BY ParserInvNext DEF PrintInv
<1>2. StepInv'
    BY DEF PrintInv, StepInv, vars
<1> QED
    BY <1>1, <1>2

LEMMA CallKeeps ==
    ASSUME PrintInv, PrintWhole \/ PrintBuffered \/ PrintPreallocated, UNCHANGED vars
    PROVE  PrintInv'
<1>1. /\ step = "idle" /\ pc = "done" /\ root # NULL /\ frames = <<>>
      /\ UNCHANGED frames /\ item' = root
    BY DEF PrintWhole, PrintBuffered, PrintPreallocated, MayPrint, Call, PrintInv, StepInv
<1>2. /\ IntMax \in Nat /\ DefaultSize \in 0..IntMax /\ Lengths \subseteq 0..IntMax
    BY CjsonPrintAssumption
<1>3. <<>> \in Seq(Pieces) /\ Size(<<>>) = 0 /\ 0 \in 0..1 /\ 1 \in 0..1
    BY SizeOfNone
<1>4. /\ step' \in {"value", "unwound"}
      /\ step' = "value" => buffer'.block
      /\ caller' \in [name : {"print", "buffered", "preallocated"}, format : BOOLEAN]
      /\ buffer' \in BufferTypes
      /\ buffer'.out = <<>> /\ buffer'.last = <<>> /\ ~buffer'.nul
      /\ buffer'.held = IF caller'.name # "preallocated" /\ buffer'.block THEN 1 ELSE 0
    <2>1. ASSUME NEW name, name = "print" \/ name = "buffered", NEW length \in 0..IntMax,
                 NEW format \in BOOLEAN, Call(name, format), Allocate(length)
          PROVE  /\ step' \in {"value", "unwound"}
                 /\ step' = "value" => buffer'.block
                 /\ caller' \in [name : {"print", "buffered", "preallocated"}, format : BOOLEAN]
                 /\ buffer' \in BufferTypes
                 /\ buffer'.out = <<>> /\ buffer'.last = <<>> /\ ~buffer'.nul
                 /\ buffer'.held = IF caller'.name # "preallocated" /\ buffer'.block THEN 1 ELSE 0
        <3>1. /\ caller' \in [name : {"print", "buffered", "preallocated"}, format : BOOLEAN]
              /\ caller'.name # "preallocated"
            BY <2>1 DEF Call
        <3>2. /\ step' \in {"value", "unwound"}
              /\ step' = "value" => buffer'.block
              /\ buffer' \in BufferTypes
              /\ buffer'.out = <<>> /\ buffer'.last = <<>> /\ ~buffer'.nul
              /\ buffer'.held = IF buffer'.block THEN 1 ELSE 0
            BY <1>3, <2>1 DEF Allocate, NoBuffer, BufferTypes
        <3> QED
            BY <3>1, <3>2
    <2>2. CASE PrintWhole
        BY <1>2, <2>1, <2>2 DEF PrintWhole
    <2>3. CASE PrintBuffered
        <3>1. PICK format \in BOOLEAN, length \in Lengths :
                  Call("buffered", format) /\ Allocate(length)
            BY <2>3 DEF PrintBuffered
        <3> QED
            BY <1>2, <2>1, <3>1
    <2>4. CASE PrintPreallocated
        <3>1. PICK format \in BOOLEAN, length \in Lengths :
                  /\ Call("preallocated", format)
                  /\ buffer' = [NoBuffer EXCEPT !.length = length, !.block = TRUE]
                  /\ step' = "value"
            BY <2>4 DEF PrintPreallocated
        <3>2. length \in 0..IntMax /\ caller' = [name |-> "preallocated", format |-> format]
            BY <1>2, <3>1 DEF Call
        <3>3. /\ buffer' \in BufferTypes /\ buffer'.out = <<>> /\ buffer'.last = <<>>
              /\ ~buffer'.nul /\ buffer'.block /\ buffer'.held = 0
            BY <1>3, <3>1, <3>2 DEF NoBuffer, BufferTypes
        <3> QED
            BY <3>1, <3>2, <3>3
    <2> QED
        BY <2>2, <2>3, <2>4
<1>5. ParserInv' /\ StepInv'
    BY <1>1, <1>4, StepsOn
<1>6. BufferInv'
    <2>1. Used(buffer') = 0 /\ 0 <= buffer'.length
        <3>1. buffer'.length \in Nat
            BY <1>4, BufferSizes
        <3>2. Used(buffer') = (0 + 0) + 0
            BY <1>3, <1>4 DEF Used, Nul
        <3> QED
            BY <3>1, <3>2
    <2>2. BufferRight(buffer', caller'.name)
        BY <1>4, <2>1 DEF BufferRight
    <2> QED
        BY <1>4, <2>2 DEF BufferInv
<1>7. WalkInv'
    <2>1. root \in 0..Len(heap) /\ heap' = heap
        BY DEF PrintInv, ParserInv, HeapInv, vars
    <2>2. frames' \in Seq(WalkFrames') /\ Len(frames') = 0
        BY <1>1
    <2> QED
        BY <1>1, <1>4, <2>1, <2>2 DEF WalkInv
<1> QED
    BY <1>5, <1>6, <1>7 DEF PrintInv

\* What the printing actions start from.
LEMMA PrintingPlaces ==
    ASSUME PrintInv, step \in {"value", "loop", "key", "colon", "behind"}
    PROVE  /\ BufferInv /\ BufferRight(buffer, caller.name) /\ buffer.block
           /\ buffer \in BufferTypes /\ Size(buffer.out) \in Nat
           /\ \A n \in Nat : Formatted(n) \in Nat
BY BufferSizes DEF PrintInv, BufferInv, BufferRight, Formatted

\* Where neither the frames nor the item change.
LEMMA WalkStays ==
    ASSUME PrintInv, UNCHANGED <<vars, frames, item>>,
           \/ /\ step \in {"value", "key", "colon", "behind"}
              /\ step' \in {"unwound", "behind", "printed", "failed"}
           \/ /\ step \in {"key", "colon"} \/ (step = "loop" /\ Frame.current # NULL)
              /\ step' \in {"unwound", "key", "colon"}
           \/ step' \in {"unwound", "printed", "failed"}
    PROVE  WalkInv'
<1>1. UNCHANGED <<heap, frames, item>>
    BY DEF vars
<1>2. step = "loop" /\ Frame.current # NULL => \A i \in 1..Len(frames) : frames[i].current # NULL
    <2>1. SUFFICES ASSUME step = "loop", Frame.current # NULL, NEW i \in 1..Len(frames)
                   PROVE  frames[i].current # NULL
        OBVIOUS
    <2>2. frames # <<>> /\ \A j \in 1..Len(frames) - 1 : frames[j].current # NULL
        BY <2>1 DEF PrintInv, WalkInv
    <2>3. Frame = frames[Len(frames)] /\ Len(frames) \in Nat
        BY <2>2, WalkPlaces
    <2>4. i = Len(frames) \/ i \in 1..Len(frames) - 1
        BY <2>3
    <2> QED
        BY <2>1, <2>2, <2>3, <2>4
<1> QED
    BY <1>1, <1>2 DEF PrintInv, WalkInv, WalkFrames

LEMMA ScalarPrinted ==
    ASSUME PrintInv, PrintScalar, UNCHANGED vars
    PROVE  PrintInv'
<1> DEFINE s == <<PrintedAs(heap[item].type)>>
           w == Behind(buffer, s)
<1>1. /\ step = "value" /\ PrintedAs(heap[item].type) \in Pieces
      /\ Write(buffer, Size(s) + 1, w, "behind")
      /\ UNCHANGED <<caller, frames, item>>
    BY Widths DEF PrintScalar
<1>2. BufferInv /\ BufferRight(buffer, caller.name) /\ buffer.block /\ buffer \in BufferTypes
      /\ Size(buffer.out) \in Nat
    BY <1>1, PrintingPlaces
<1>3. s \in Seq(Pieces) /\ Size(s) \in Nat
    BY <1>1, SizeOfOne, SizeNat
<1>4. /\ w \in BufferTypes /\ w.block = buffer.block /\ w.held = buffer.held /\ w.nul
      /\ Used(w) = Size(buffer.out) + Size(s) + 1
    BY <1>2, <1>3, BehindUsed
<1> HIDE DEF s, w
<1>5. Size(s) + 1 \in Nat /\ Used(w) <= (Size(s) + 1) + Size(buffer.out) + 1
    BY <1>2, <1>3, <1>4
<1>6. BufferInv' /\ step' \in {"unwound", "behind"}
    BY <1>1, <1>2, <1>4, <1>5, Wrote
<1>7. ParserInv' /\ StepInv'
    BY <1>1, <1>6, StepsOn
<1>8. WalkInv'
    BY <1>1, <1>6, WalkStays
<1> QED
    BY <1>6, <1>7, <1>8 DEF PrintInv

\* A list is opened: its frame is on top, and may be at the end at once.
LEMMA OpenedPrinted ==
    ASSUME PrintInv, OpenPrinted, UNCHANGED vars
    PROVE  PrintInv'
<1> DEFINE object == heap[item].type = "{"
           white == IF object THEN Formatted(1) ELSE 0
           n == IF object THEN white + 2 ELSE 1
           s == <<heap[item].type>> \o White(white)
           w == Counted(buffer, s, FALSE)
           frame == [list |-> item, current |-> heap[item].child]
<1>1. /\ step = "value" /\ heap[item].type \in {"[", "{"}
      /\ Write(buffer, n, w, "loop")
      /\ frames' = Append(frames, frame)
      /\ UNCHANGED <<caller, item>>
    BY DEF OpenPrinted, Closer
<1>2. /\ BufferInv /\ BufferRight(buffer, caller.name) /\ buffer.block /\ buffer \in BufferTypes
      /\ Size(buffer.out) \in Nat /\ Formatted(1) \in Nat
    BY <1>1, PrintingPlaces
<1>3. heap[item].type \in Pieces /\ Width[heap[item].type] = 1
    BY <1>1, Widths
<1>4. white \in Nat /\ n \in Nat /\ n >= white + 1
    <2> DEFINE k == Formatted(1)
    <2>1. k \in Nat
        BY <1>2
    <2> HIDE DEF k
    <2>2. CASE object
        <3>1. white = k /\ n = white + 2
            BY <2>2 DEF k
        <3> HIDE DEF white, n
        <3> QED
            BY <2>1, <3>1
    <2>3. CASE ~object
        <3>1. white = 0 /\ n = 1
            BY <2>3
        <3> HIDE DEF white, n
        <3> QED
            BY <3>1
    <2> QED
        BY <2>2, <2>3
<1> HIDE DEF white, n
<1>5. s \in Seq(Pieces) /\ Size(s) = white + 1
    BY <1>3, <1>4, SizeWithWhite
<1> HIDE DEF s
<1>6. /\ w \in BufferTypes /\ w.block = buffer.block /\ w.held = buffer.held
      /\ Used(w) <= Size(buffer.out) + Size(s) + 1
    BY <1>2, <1>5, CountedUsed
<1> HIDE DEF w
<1>7. Used(w) <= n + Size(buffer.out) + 1
    <2>1. Used(w) \in Nat
        BY <1>6, BufferSizes
    <2> QED
        BY <1>2, <1>4, <1>5, <1>6, <2>1
<1>8. BufferInv' /\ step' \in {"unwound", "loop"}
    BY <1>1, <1>2, <1>4, <1>6, <1>7, Wrote
<1>9. ParserInv' /\ StepInv'
    BY <1>1, <1>8, StepsOn
<1>10. WalkInv'
    <2>1. /\ heap' = heap /\ heap \in Seq(CellsUpTo(Len(heap))) /\ Len(heap) \in Nat
        BY DEF vars, PrintInv, ParserInv, HeapInv
    <2>2. item \in 1..Len(heap)
        <3>1. item \in 0..Len(heap) /\ item # 0
            BY <1>1 DEF PrintInv, WalkInv, NULL
        <3> QED
            BY <2>1, <3>1
    <2>3. heap[item] \in CellsUpTo(Len(heap))
        BY <2>1, <2>2, ElementOfSeq
    <2>4. heap[item].child \in 0..Len(heap)
        BY <2>3 DEF CellsUpTo
    <2>5. frame \in WalkFrames
        BY <2>2, <2>4 DEF WalkFrames
    <2>6. frame.list = item
        OBVIOUS
    <2> HIDE DEF frame
    <2>7. frames \in Seq(WalkFrames) /\ Len(frames) \in Nat
        BY WalkPlaces DEF PrintInv, WalkInv
    <2>8. /\ frames' \in Seq(WalkFrames) /\ Len(frames') = Len(frames) + 1
          /\ \A i \in 1..Len(frames) : frames'[i] = frames[i]
          /\ frames'[Len(frames) + 1] = frame
          /\ frames' # <<>>
        <3>1. frames' = Append(frames, frame)
            BY <1>1 DEF frame
        <3> QED
            BY <2>5, <2>7, <3>1, AppendProperties
    <2>9. \A i \in 1..Len(frames') : i \in 1..Len(frames) \/ i = Len(frames) + 1
        BY <2>7, <2>8
    <2>10. \A i \in 1..Len(frames') : heap[frames'[i].list].type \in {"[", "{"}
        BY <1>1, <2>6, <2>8, <2>9 DEF PrintInv, WalkInv
    <2>11. \A i \in 1..Len(frames') - 1 : frames'[i].current # NULL
        <3>1. \A i \in 1..Len(frames') - 1 : i \in 1..Len(frames)
            BY <2>7, <2>8
        <3> QED
            BY <1>1, <2>8, <3>1 DEF PrintInv, WalkInv
    <2> QED
        BY <1>1, <1>8, <2>1, <2>8, <2>10, <2>11 DEF PrintInv, WalkInv, WalkFrames
<1> QED
    BY <1>8, <1>9, <1>10 DEF PrintInv

\* An item of a list is next; and the white space before a name.
LEMMA ElementPrinted ==
    ASSUME PrintInv, PrintElement, UNCHANGED vars
    PROVE  PrintInv'
<1>1. /\ step = "loop" /\ step' = "value" /\ item' = Frame.current /\ Frame.current # NULL
      /\ UNCHANGED <<caller, buffer, frames>>
    BY DEF PrintElement
<1>2. BufferInv'
    BY <1>1 DEF PrintInv, BufferInv
<1>3. ParserInv' /\ StepInv'
    BY <1>1, StepsOn
<1>4. WalkInv'
    <2>1. /\ frames # <<>> /\ \A i \in 1..Len(frames) - 1 : frames[i].current # NULL
        BY <1>1 DEF PrintInv, WalkInv
    <2>2. /\ Frame = frames[Len(frames)] /\ Len(frames) \in Nat /\ Frame.current \in 0..Len(heap)
        BY <2>1, WalkPlaces
    <2>3. \A i \in 1..Len(frames) : i = Len(frames) \/ i \in 1..Len(frames) - 1
        BY <2>2
    <2>4. \A i \in 1..Len(frames) : frames[i].current # NULL
        BY <1>1, <2>1, <2>2, <2>3
    <2>5. heap' = heap
        BY DEF vars
    <2> QED
        BY <1>1, <2>2, <2>4, <2>5 DEF PrintInv, WalkInv, WalkFrames
<1> QED
    BY <1>2, <1>3, <1>4 DEF PrintInv

LEMMA TabsPrinted ==
    ASSUME PrintInv, PrintTabs, UNCHANGED vars
    PROVE  PrintInv'
<1> DEFINE s == White(Depth)
           w == Counted(buffer, s, FALSE)
<1>1. /\ step = "loop" /\ Frame.current # NULL
      /\ UNCHANGED <<caller, frames, item>>
      /\ Write(buffer, Depth, w, "key") \/ (step' = "key" /\ UNCHANGED buffer)
    BY DEF PrintTabs
<1>2. /\ BufferInv /\ BufferRight(buffer, caller.name) /\ buffer.block /\ buffer \in BufferTypes
      /\ Size(buffer.out) \in Nat
    BY <1>1, PrintingPlaces
<1>3. Depth \in Nat
    BY WalkPlaces DEF Depth
<1>4. s \in Seq(Pieces) /\ Size(s) = Depth
    BY <1>3, SizeOfWhite
<1> HIDE DEF s
<1>5. /\ w \in BufferTypes /\ w.block = buffer.block /\ w.held = buffer.held
      /\ Used(w) <= Size(buffer.out) + Size(s) + 1
    BY <1>2, <1>4, CountedUsed
<1> HIDE DEF w
<1>6. Used(w) <= Depth + Size(buffer.out) + 1
    <2>1. Used(w) \in Nat
        BY <1>5, BufferSizes
    <2> QED
        BY <1>2, <1>3, <1>4, <1>5, <2>1
<1>7. BufferInv' /\ step' \in {"unwound", "key"}
    <2>1. CASE Write(buffer, Depth, w, "key")
        BY <1>1, <1>2, <1>3, <1>5, <1>6, <2>1, Wrote
    <2>2. CASE step' = "key" /\ UNCHANGED buffer
        BY <1>1, <1>2, <2>2 DEF BufferInv
    <2> QED
        BY <1>1, <2>1, <2>2
<1>8. ParserInv' /\ StepInv'
    BY <1>1, <1>7, StepsOn
<1>9. WalkInv'
    BY <1>1, <1>7, WalkStays
<1> QED
    BY <1>7, <1>8, <1>9 DEF PrintInv

LEMMA KeyPrinted ==
    ASSUME PrintInv, PrintKey, UNCHANGED vars
    PROVE  PrintInv'
<1> DEFINE s == <<"string">>
           u == Behind(buffer, s)
           w == UpdateOffset(u)
           n == Width["string"] + 1
<1>1. /\ step = "key" /\ Write(buffer, n, w, "colon")
      /\ UNCHANGED <<caller, frames, item>>
    BY DEF PrintKey
<1>2. /\ BufferInv /\ BufferRight(buffer, caller.name) /\ buffer.block /\ buffer \in BufferTypes
      /\ Size(buffer.out) \in Nat
    BY <1>1, PrintingPlaces
<1>3. "string" \in Pieces /\ Width["string"] \in Nat
    BY Widths DEF Scalars
<1>4. s \in Seq(Pieces) /\ Size(s) = Width["string"]
    BY <1>3, SizeOfOne
<1> HIDE DEF s
<1>5. /\ u \in BufferTypes /\ u.block = buffer.block /\ u.held = buffer.held
      /\ u.out = buffer.out /\ u.last = s
      /\ Used(u) = Size(buffer.out) + Size(s) + 1
    BY <1>2, <1>4, BehindUsed
<1> HIDE DEF u
<1>6. /\ w \in BufferTypes /\ w.block = buffer.block /\ w.held = buffer.held
      /\ Used(w) = Used(u)
    BY <1>5, UpdateUsed
<1> HIDE DEF w
<1>7. n \in Nat /\ Used(w) <= n + Size(buffer.out) + 1
    BY <1>2, <1>3, <1>4, <1>5, <1>6
<1> HIDE DEF n
<1>8. BufferInv' /\ step' \in {"unwound", "colon"}
    BY <1>1, <1>2, <1>6, <1>7, Wrote
<1>9. ParserInv' /\ StepInv'
    BY <1>1, <1>8, StepsOn
<1>10. WalkInv'
    BY <1>1, <1>8, WalkStays
<1> QED
    BY <1>8, <1>9, <1>10 DEF PrintInv

LEMMA ColonPrinted ==
    ASSUME PrintInv, PrintColon, UNCHANGED vars
    PROVE  PrintInv'
<1> DEFINE k == Formatted(1)
           s == <<":">> \o White(k)
           w == Counted(buffer, s, FALSE)
<1>1. /\ step = "colon" /\ Write(buffer, 1 + k, w, "value")
      /\ item' = Frame.current
      /\ UNCHANGED <<caller, frames>>
    BY DEF PrintColon
<1>2. /\ BufferInv /\ BufferRight(buffer, caller.name) /\ buffer.block /\ buffer \in BufferTypes
      /\ Size(buffer.out) \in Nat /\ k \in Nat
    BY <1>1, PrintingPlaces
<1> HIDE DEF k
<1>3. ":" \in Pieces /\ Width[":"] = 1
    BY Widths
<1>4. s \in Seq(Pieces) /\ Size(s) = k + 1
    BY <1>2, <1>3, SizeWithWhite
<1> HIDE DEF s
<1>5. /\ w \in BufferTypes /\ w.block = buffer.block /\ w.held = buffer.held
      /\ Used(w) <= Size(buffer.out) + Size(s) + 1
    BY <1>2, <1>4, CountedUsed
<1> HIDE DEF w
<1>6. 1 + k \in Nat /\ Used(w) <= (1 + k) + Size(buffer.out) + 1
    <2>1. Used(w) \in Nat
        BY <1>5, BufferSizes
    <2> QED
        BY <1>2, <1>4, <1>5, <2>1
<1>7. BufferInv' /\ step' \in {"unwound", "value"}
    BY <1>1, <1>2, <1>5, <1>6, Wrote
<1>8. ParserInv' /\ StepInv'
    BY <1>1, <1>7, StepsOn
<1>9. WalkInv'
    <2>1. frames # <<>> /\ \A i \in 1..Len(frames) : frames[i].current # NULL
        BY <1>1 DEF PrintInv, WalkInv
    <2>2. /\ Len(frames) \in 1..Len(frames) /\ Frame = frames[Len(frames)]
          /\ Frame.current \in 0..Len(heap)
        BY <2>1, WalkPlaces
    <2>3. item' \in 0..Len(heap) /\ item' # NULL /\ heap' = heap
        BY <1>1, <2>1, <2>2 DEF vars
    <2> QED
        BY <1>1, <1>7, <2>1, <2>3 DEF PrintInv, WalkInv, WalkFrames
<1> QED
    BY <1>7, <1>8, <1>9 DEF PrintInv

\* What is written behind an item: a comma, if another follows, and a newline.
LEMMA CommaSize ==
    ASSUME NEW x \in Pieces, Width[x] = 1, NEW k \in Nat,
           NEW s, s = <<>> \/ s = <<>> \o White(k) \/ s = <<x>> \o White(k)
    PROVE  s \in Seq(Pieces) /\ Len(s) \in Nat /\ Size(s) = Len(s)
<1>1. White(k) \in Seq(Pieces) /\ Len(White(k)) = k /\ Size(White(k)) = k
    BY SizeOfWhite
<1>2. CASE s = <<>>
    <2>1. Len(<<>>) = 0
        OBVIOUS
    <2> QED
        BY <1>2, <2>1, SizeOfNone
<1>3. CASE s = <<>> \o White(k)
    <2>1. <<>> \o White(k) = White(k)
        BY <1>1, ConcatEmptySeq
    <2> QED
        BY <1>1, <1>3, <2>1
<1>4. CASE s = <<x>> \o White(k)
    <2> DEFINE t == White(k)
               c == <<x>>
    <2>1. c \in Seq(Pieces) /\ Len(c) = 1 /\ s = c \o t /\ t \in Seq(Pieces) /\ Len(t) = k
        BY <1>1, <1>4
    <2>2. Size(s) = k + 1 /\ s \in Seq(Pieces)
        BY <1>4, SizeWithWhite
    <2> HIDE DEF c, t
    <2>3. Len(s) = 1 + k
        <3>1. Len(c \o t) = Len(c) + Len(t)
            BY <2>1, ConcatProperties
        <3> QED
            BY <2>1, <3>1, Zenon
    <2> QED
        BY <2>2, <2>3
<1> QED
    BY <1>2, <1>3, <1>4

LEMMA CommaPrinted ==
    ASSUME PrintInv, PrintComma, UNCHANGED vars
    PROVE  PrintInv'
<1> DEFINE b == UpdateOffset(buffer)
           next == heap[Frame.current].next
           k == Formatted(1)
           comma == IF next = NULL THEN <<>> ELSE <<",">>
           s == IF next = NULL /\ heap[Frame.list].type = "[" THEN <<>> ELSE comma \o White(k)
           w == Counted(b, s, TRUE)
           frame == [Frame EXCEPT !.current = next]
<1>1. /\ step = "behind" /\ frames # <<>>
      /\ (buffer' = b /\ step' = "loop") \/ Write(b, Len(s) + 1, w, "loop")
      /\ frames' = Append(Front(frames), frame)
      /\ UNCHANGED <<caller, item>>
    BY DEF PrintComma
<1>2. /\ BufferInv /\ BufferRight(buffer, caller.name) /\ buffer.block /\ buffer \in BufferTypes
      /\ k \in Nat
    BY <1>1, PrintingPlaces
<1>3. BufferRight(b, caller.name) /\ b.block /\ b \in BufferTypes
    BY <1>2, UpdateKeeps, UpdateUsed
<1>4. Size(b.out) \in Nat
    BY <1>3, BufferSizes
<1>5. s = <<>> \/ s = <<>> \o White(k) \/ s = <<",">> \o White(k)
    OBVIOUS
<1> HIDE DEF b, k, s
<1>6. s \in Seq(Pieces) /\ Len(s) \in Nat /\ Size(s) = Len(s)
    <2>1. "," \in Pieces /\ Width[","] = 1
        BY Widths
    <2> QED
        BY <1>2, <1>5, <2>1, CommaSize
<1>7. /\ w \in BufferTypes /\ w.block = b.block /\ w.held = b.held
      /\ Used(w) <= Size(b.out) + Size(s) + 1
    BY <1>3, <1>6, CountedUsed
<1> HIDE DEF w
<1>8. Len(s) + 1 \in Nat /\ Used(w) <= (Len(s) + 1) + Size(b.out) + 1
    <2>1. Used(w) \in Nat
        BY <1>7, BufferSizes
    <2> QED
        BY <1>4, <1>6, <1>7, <2>1
<1>9. BufferInv' /\ step' \in {"unwound", "loop"}
    <2>1. CASE Write(b, Len(s) + 1, w, "loop")
        BY <1>1, <1>2, <1>3, <1>7, <1>8, <2>1, Wrote
    <2>2. CASE buffer' = b /\ step' = "loop"
        BY <1>1, <1>2, <1>3, <2>2 DEF BufferInv
    <2> QED
        BY <1>1, <2>1, <2>2
<1>10. ParserInv' /\ StepInv'
    BY <1>1, <1>9, StepsOn
<1>11. WalkInv'
    <2>1. \A i \in 1..Len(frames) : frames[i].current # NULL
        BY <1>1 DEF PrintInv, WalkInv
    <2>2. /\ Len(heap) \in Nat /\ Len(frames) \in Nat /\ Len(frames) \in 1..Len(frames)
          /\ Frame = frames[Len(frames)]
          /\ Frame.list \in 1..Len(heap) /\ Frame.current \in 0..Len(heap)
          /\ Frame = [list |-> Frame.list, current |-> Frame.current]
          /\ Front(frames) \in Seq(WalkFrames)
          /\ Len(Front(frames)) = Len(frames) - 1
          /\ \A i \in 1..Len(frames) - 1 : Front(frames)[i] = frames[i]
        BY <1>1, WalkPlaces
    <2>3. Frame.current \in 1..Len(heap)
        <3>1. Frame.current # 0
            BY <2>1, <2>2 DEF NULL
        <3> QED
            BY <2>2, <3>1
    <2>4. next \in 0..Len(heap)
        <3>1. heap[Frame.current] \in CellsUpTo(Len(heap))
            BY <2>3, ElementOfSeq DEF PrintInv, ParserInv, HeapInv
        <3> QED
            BY <3>1 DEF CellsUpTo
    <2> HIDE DEF next
    <2>5. frame = [list |-> Frame.list, current |-> next]
        BY <2>2
    <2>6. frame \in WalkFrames /\ frame.list = Frame.list
        BY <2>2, <2>4, <2>5 DEF WalkFrames
    <2> HIDE DEF frame
    <2> DEFINE f == Front(frames)
    <2>7. f \in Seq(WalkFrames) /\ Len(f) = Len(frames) - 1 /\ frames' = Append(f, frame)
        BY <1>1, <2>2
    <2>8. \A i \in 1..Len(f) : f[i] = frames[i] /\ i \in 1..Len(frames)
        BY <2>2
    <2> HIDE DEF f
    <2>9. /\ frames' \in Seq(WalkFrames) /\ frames' # <<>> /\ Len(frames') = Len(f) + 1
          /\ \A i \in 1..Len(f) : frames'[i] = f[i]
          /\ frames'[Len(f) + 1] = frame
        BY <2>6, <2>7, AppendProperties
    <2>10. Len(f) \in Nat
        BY <2>7
    <2>11. \A i \in 1..Len(frames') : i \in 1..Len(f) \/ i = Len(f) + 1
        BY <2>9, <2>10
    <2>12. \A i \in 1..Len(frames') : heap[frames'[i].list].type \in {"[", "{"}
        <3>1. heap[Frame.list].type \in {"[", "{"}
            BY <1>1, WalkPlaces
        <3> QED
            BY <2>6, <2>8, <2>9, <2>11, <3>1 DEF PrintInv, WalkInv
    <2>13. \A i \in 1..Len(frames') - 1 : frames'[i].current # NULL
        <3>1. \A i \in 1..Len(frames') - 1 : i \in 1..Len(f)
            BY <2>9, <2>10
        <3> QED
            BY <2>1, <2>8, <2>9, <3>1
    <2>14. heap' = heap
        BY DEF vars
    <2> QED
        BY <1>1, <1>9, <2>9, <2>12, <2>13, <2>14 DEF PrintInv, WalkInv, WalkFrames
<1> QED
    BY <1>9, <1>10, <1>11 DEF PrintInv

LEMMA ClosedPrinted ==
    ASSUME PrintInv, ClosePrinted, UNCHANGED vars
    PROVE  PrintInv'
<1> DEFINE closer == Closer[heap[Frame.list].type]
           white == IF closer = "}" THEN Formatted(Depth - 1) ELSE 0
           s == White(white) \o <<closer>>
           w == Behind(buffer, s)
<1>1. /\ step = "loop" /\ Write(buffer, white + 2, w, "behind")
      /\ frames' = Front(frames)
      /\ UNCHANGED <<caller, item>>
    BY DEF ClosePrinted
<1>2. /\ BufferInv /\ BufferRight(buffer, caller.name) /\ buffer.block /\ buffer \in BufferTypes
      /\ Size(buffer.out) \in Nat /\ \A n \in Nat : Formatted(n) \in Nat
    BY <1>1, PrintingPlaces
<1>3. /\ frames # <<>> /\ \A i \in 1..Len(frames) - 1 : frames[i].current # NULL
    BY <1>1 DEF PrintInv, WalkInv
<1>4. /\ Len(frames) \in Nat /\ Len(frames) \in 1..Len(frames)
      /\ Front(frames) \in Seq(WalkFrames)
      /\ Len(Front(frames)) = Len(frames) - 1
      /\ \A i \in 1..Len(frames) - 1 : Front(frames)[i] = frames[i]
    BY <1>3, WalkPlaces
<1>5. closer \in {"]", "}"}
    <2>1. heap[Frame.list].type \in {"[", "{"}
        BY <1>3, WalkPlaces
    <2> QED
        BY <2>1 DEF Closer
<1> HIDE DEF closer
<1>6. closer \in Pieces /\ Width[closer] = 1
    BY <1>5, Widths
<1>7. white \in Nat
    <2>1. Depth - 1 \in Nat
        BY <1>4 DEF Depth
    <2> QED
        BY <1>2, <2>1
<1> HIDE DEF white
<1>8. s \in Seq(Pieces) /\ Size(s) = white + 1
    BY <1>6, <1>7, SizeWithWhite
<1> HIDE DEF s
<1>9. /\ w \in BufferTypes /\ w.block = buffer.block /\ w.held = buffer.held /\ w.nul
      /\ Used(w) = Size(buffer.out) + Size(s) + 1
    BY <1>2, <1>8, BehindUsed
<1> HIDE DEF w
<1>10. white + 2 \in Nat /\ Used(w) <= (white + 2) + Size(buffer.out) + 1
    BY <1>2, <1>7, <1>8, <1>9
<1>11. BufferInv' /\ step' \in {"unwound", "behind"}
    BY <1>1, <1>2, <1>9, <1>10, Wrote
<1>12. ParserInv' /\ StepInv'
    BY <1>1, <1>11, StepsOn
<1>13. WalkInv'
    <2>1. heap' = heap
        BY DEF vars
    <2>2. \A i \in 1..Len(frames') : i \in 1..Len(frames) - 1 /\ i \in 1..Len(frames)
        BY <1>1, <1>4
    <2> QED
        BY <1>1, <1>3, <1>4, <1>11, <2>1, <2>2 DEF PrintInv, WalkInv, WalkFrames
<1> QED
    BY <1>11, <1>12, <1>13 DEF PrintInv

LEMMA ReturnKeeps ==
    ASSUME PrintInv, Return, UNCHANGED vars
    PROVE  PrintInv'
<1> DEFINE b == UpdateOffset(buffer)
           c == [b EXCEPT !.length = Size(b.out) + 1]
           d == [b EXCEPT !.ok = FALSE, !.refused = TRUE]
<1>1. /\ step = "behind"
      /\ UNCHANGED <<caller, frames, item>>
      /\ \/ step' = "printed" /\ UNCHANGED buffer
         \/ step' = "printed" /\ buffer' = c
         \/ step' = "unwound" /\ buffer' = d
    BY DEF Return
<1>2. /\ BufferInv /\ BufferRight(buffer, caller.name) /\ buffer.block /\ buffer \in BufferTypes
    BY <1>1, PrintingPlaces
<1>3. buffer.nul /\ b.nul = buffer.nul
    BY <1>1, <1>2, UpdateUsed DEF BufferInv
<1>4. BufferRight(b, caller.name) /\ b.block /\ b \in BufferTypes
    BY <1>2, UpdateKeeps, UpdateUsed
<1>5. /\ b.length \in Nat /\ Size(b.out) \in Nat /\ Size(b.last) \in Nat
      /\ IntMax \in Nat /\ b.length <= IntMax
    BY <1>4, BufferSizes
<1>6. Used(b) <= b.length
    BY <1>4 DEF BufferRight
<1>7. b.last = <<>> /\ Size(b.last) = 0 /\ Used(b) = Size(b.out) + 1
    <2>1. b.last = <<>>
        BY <1>2 DEF UpdateOffset, BufferTypes
    <2>2. Size(b.last) = 0
        BY <2>1, SizeOfNone
    <2>3. Nul(b) = 1
        BY <1>3 DEF Nul
    <2>4. Used(b) = (Size(b.out) + 0) + 1
        BY <2>2, <2>3 DEF Used
    <2> QED
        BY <1>5, <2>1, <2>2, <2>4
<1> HIDE DEF b
<1>8. BufferRight(c, caller.name) /\ c.block
    <2>1. Size(b.out) + 1 \in 0..IntMax
        BY <1>5, <1>6, <1>7
    <2>2. /\ c \in BufferTypes /\ c.out = b.out /\ c.last = b.last /\ c.nul = b.nul
          /\ c.block = b.block /\ c.held = b.held /\ c.length = Size(b.out) + 1
        BY <1>4, <2>1 DEF BufferTypes
    <2> HIDE DEF c
    <2>3. Used(c) = Used(b)
        BY <2>2, Zenon DEF Used, Nul
    <2>4. Used(c) <= c.length
        BY <1>5, <1>7, <2>2, <2>3
    <2> QED
        BY <1>4, <2>2, <2>4 DEF BufferRight
<1>9. BufferRight(d, caller.name)
    <2>1. /\ d \in BufferTypes /\ d.out = b.out /\ d.last = b.last /\ d.nul = b.nul
          /\ d.block = b.block /\ d.held = b.held /\ d.length = b.length
        BY <1>4 DEF BufferTypes
    <2> HIDE DEF d
    <2>2. Used(d) = Used(b)
        BY <2>1, Zenon DEF Used, Nul
    <2> QED
        BY <1>4, <2>1, <2>2 DEF BufferRight
<1>10. BufferInv'
    BY <1>1, <1>2, <1>8, <1>9 DEF BufferInv
<1>11. ParserInv' /\ StepInv'
    BY <1>1, StepsOn
<1>12. WalkInv'
    BY <1>1, WalkStays
<1> QED
    BY <1>10, <1>11, <1>12 DEF PrintInv

LEMMA FailKeeps ==
    ASSUME PrintInv, Fail, UNCHANGED vars
    PROVE  PrintInv'
<1> DEFINE c == [buffer EXCEPT !.block = FALSE, !.held = @ - 1]
<1>1. /\ step = "unwound" /\ step' = "failed"
      /\ UNCHANGED <<caller, frames, item>>
      /\ buffer' = IF caller.name # "preallocated" /\ buffer.block THEN c ELSE buffer
    BY DEF Fail
<1>2. BufferInv /\ BufferRight(buffer, caller.name) /\ buffer \in BufferTypes
    BY DEF PrintInv, BufferInv, BufferRight
<1>3. ASSUME caller.name # "preallocated", buffer.block
      PROVE  BufferRight(c, caller.name) /\ ~c.block
    <2>1. buffer.held = 1 /\ 1 - 1 = 0 /\ 0 \in 0..1
        BY <1>2, <1>3 DEF BufferRight
    <2>2. c \in BufferTypes /\ ~c.block /\ c.held = 0
        BY <1>2, <2>1 DEF BufferTypes
    <2> QED
        BY <2>2 DEF BufferRight
<1>4. BufferInv'
    <2> HIDE DEF c
    <2>1. CASE caller.name # "preallocated" /\ buffer.block
        BY <1>1, <1>2, <1>3, <2>1 DEF BufferInv
    <2>2. CASE ~(caller.name # "preallocated" /\ buffer.block)
        BY <1>1, <1>2, <2>2 DEF BufferInv
    <2> QED
        BY <2>1, <2>2
<1>5. ParserInv' /\ StepInv'
    BY <1>1, StepsOn
<1>6. WalkInv'
    BY <1>1, WalkStays
<1> QED
    BY <1>4, <1>5, <1>6 DEF PrintInv

LEMMA PrintInvNext ==
    ASSUME PrintInv, PrintNext \/ UNCHANGED <<vars, printVars>>
    PROVE  PrintInv'
<1>1. CASE step = "idle" /\ Next /\ UNCHANGED printVars
    <2>1. /\ step' = "idle" /\ frames' = <<>> /\ item' = NULL
          /\ UNCHANGED <<caller, buffer, frames, item, step>>
        BY <1>1 DEF PrintInv, StepInv, printVars
    <2>2. ParserInv'
        BY <1>1, ParserInvNext DEF PrintInv
    <2>3. BufferInv' /\ StepInv'
        BY <2>1 DEF PrintInv, BufferInv, StepInv
    <2>4. WalkInv'
        <3>1. Len(heap') \in Nat
            BY <2>2 DEF ParserInv, HeapInv
        <3>2. frames' \in Seq(WalkFrames') /\ Len(frames') = 0 /\ 0 \in 0..Len(heap')
            BY <2>1, <3>1
        <3> QED
            BY <2>1, <3>2 DEF WalkInv, NULL
    <2> QED
        BY <2>2, <2>3, <2>4 DEF PrintInv
<1>2. CASE Printing /\ UNCHANGED vars
    BY <1>2, CallKeeps, ScalarPrinted, OpenedPrinted, ElementPrinted, TabsPrinted, KeyPrinted,
       ColonPrinted, CommaPrinted, ClosedPrinted, ReturnKeeps, FailKeeps DEF Printing
<1>3. CASE UNCHANGED <<vars, printVars>>
    <2>1. ParserInv'
        BY <1>3, ParserInvNext DEF PrintInv
    <2>2. BufferInv' /\ WalkInv' /\ StepInv'
        BY <1>3 DEF vars, printVars, PrintInv, BufferInv, WalkInv, WalkFrames, StepInv
    <2> QED
        BY <2>1, <2>2 DEF PrintInv
<1> QED
    BY <1>1, <1>2, <1>3 DEF PrintNext

\* What the buffer holds and where print_value is, and before that what cJSON_Parse
\* has built, stay as they are taken for, from one call to the next.
THEOREM PrintInvariance == PrintSpec => []PrintInv
BY PrintInvInit, PrintInvNext, PTL DEF PrintSpec

\* However the texts are sized and the block grows, no byte is written outside it, it is
\* never larger than INT_MAX, and what update_offset counts ends with a NUL in it; and
\* parse_value is never nested deeper than CJSON_NESTING_LIMIT.
THEOREM WithinBlockAlways == PrintSpec => []WithinBlock
<1>1. ASSUME PrintInv
      PROVE  WithinBlock
    <2>1. /\ Len(heap) \in Nat /\ DOMAIN heap = 1..Len(heap)
          /\ heap \in Seq(CellsUpTo(Len(heap))) /\ live \subseteq 1..Len(heap)
          /\ root \in 0..Len(heap)
        BY <1>1 DEF PrintInv, ParserInv, HeapInv
    <2>2. \A k \in Nat : 0..k = (1..k) \cup {0}
        OBVIOUS
    <2>3. TypeOK
        <3>1. ASSUME NEW n \in DOMAIN heap
              PROVE  /\ DOMAIN heap[n] = DOMAIN Cell
                     /\ heap[n].type \in {"none"} \cup Scalars \cup DOMAIN Closer
                     /\ \A p \in Pointers \cup {"prev"} : heap[n][p] \in DOMAIN heap \cup {NULL}
            <4>1. heap[n] \in CellsUpTo(Len(heap))
                BY <2>1, ElementOfSeq
            <4>2. heap[n].type \in {"none"} \cup Scalars \cup DOMAIN Closer
                BY <4>1 DEF CellsUpTo, Types, Closer
            <4>3. DOMAIN heap[n] = DOMAIN Cell
                BY <4>1 DEF CellsUpTo, Cell
            <4>4. \A p \in Pointers \cup {"prev"} : heap[n][p] \in 0..Len(heap)
                BY <4>1 DEF CellsUpTo, Pointers
            <4> QED
                BY <2>1, <2>2, <4>2, <4>3, <4>4 DEF NULL
        <3>2. stack \in Seq(Frames) /\ Len(stack) =< NestingLimit
            <4>1. FramesUpTo(Len(heap)) \subseteq Frames
                <5>1. DOMAIN Closer = {"[", "{"}
                    BY DEF Closer
                <5>2. 0..Len(heap) = DOMAIN heap \cup {NULL}
                    BY <2>1, <2>2 DEF NULL
                <5> QED
                    BY <2>1, <5>1, <5>2 DEF FramesUpTo, Frames
            <4> QED
                BY <1>1, <4>1, SeqGrows DEF PrintInv, ParserInv, StackInv
        <3>3. root \in DOMAIN heap \cup {NULL}
            BY <2>1, <2>2 DEF NULL
        <3> QED
            BY <1>1, <2>1, <3>1, <3>2, <3>3
               DEF TypeOK, PrintInv, ParserInv, TextInv, PlaceInv
    <2>4. ASSUME NEW i \in DOMAIN frames
          PROVE  frames[i].list \in live /\ frames[i].current \in live \cup {NULL}
        <3>1. frames \in Seq(WalkFrames)
            BY <1>1 DEF PrintInv, WalkInv
        <3>2. frames # <<>> /\ frames[i] \in WalkFrames
            BY <3>1
        <3>3. live = 1..Len(heap)
            BY <1>1, <3>2 DEF PrintInv, StepInv, ParserInv, PlaceInv
        <3> QED
            BY <2>1, <2>2, <3>2, <3>3 DEF WalkFrames, NULL
    <2>5. buffer \in BufferTypes /\ BufferRight(buffer, caller.name)
        BY <1>1 DEF PrintInv, BufferInv, BufferRight
    <2>6. PrintTypeOK
        <3>1. DOMAIN buffer = DOMAIN NoBuffer
            BY <2>5 DEF BufferTypes, NoBuffer
        <3>2. buffer.length \in 0..IntMax /\ buffer.held \in 0..1
            BY <2>5 DEF BufferTypes
        <3>3. item \in DOMAIN heap \cup {NULL}
            <4>1. item \in 0..Len(heap)
                BY <1>1 DEF PrintInv, WalkInv
            <4> QED
                BY <2>1, <2>2, <4>1 DEF NULL
        <3> QED
            BY <1>1, <2>3, <2>4, <3>1, <3>2, <3>3 DEF PrintTypeOK, PrintInv, BufferInv, StepInv
    <2>7. buffer.block =>
              Size(buffer.out) + Size(buffer.last) + (IF buffer.nul THEN 1 ELSE 0)
                  <= buffer.length
        BY <2>5 DEF BufferRight, Used, Nul
    <2>8. step = "behind" => buffer.block /\ buffer.nul
        BY <1>1 DEF PrintInv, BufferInv
    <2> QED
        BY <2>6, <2>7, <2>8 DEF WithinBlock
<1> QED
    BY <1>1, PrintInvariance, PTL

\* Whatever allocation is refused, and whichever function was called, a caller is left
\* with one block of the library's when it is given a text, and with none when it is not.
THEOREM BlockFreedOnceAlways == PrintSpec => []BlockFreedOnce
<1>1. ASSUME PrintInv
      PROVE  BlockFreedOnce
    <2>1. buffer.held = IF caller.name # "preallocated" /\ buffer.block THEN 1 ELSE 0
        BY <1>1 DEF PrintInv, BufferInv, BufferRight
    <2>2. /\ step = "printed" => buffer.block
          /\ step = "failed" => (caller.name = "preallocated" \/ ~buffer.block)
        BY <1>1 DEF PrintInv, BufferInv
    <2> QED
        BY <2>1, <2>2 DEF BlockFreedOnce
<1> QED
    BY <1>1, PrintInvariance, PTL

\* Printing leaves what was parsed alone: it is read, and owned, as it is without it.
THEOREM PrintingParses == PrintSpec => Spec
<1>1. PrintInit => Init
    BY DEF PrintInit
<1>2. [PrintNext]_<<vars, printVars>> => [Next]_vars
    BY DEF PrintNext, vars
<1> QED
    BY <1>1, <1>2, PTL DEF PrintSpec, Spec

-----------------------------------------------------------------------------
(* Texts without white space *)

Dark(x) == IF x = "white" THEN <<>> ELSE <<x>>

\* f gives the first i pieces of s without white space.
Tightens(f, s, n) == f = [i \in 0..n |-> IF i = 0 THEN <<>> ELSE f[i - 1] \o Dark(s[i])]

LEMMA TightExists ==
    ASSUME NEW s
    PROVE  \A n \in Nat : \E f : Tightens(f, s, n)
<1> DEFINE T == {n \in Nat : \E f : Tightens(f, s, n)}
<1>1. 0 \in T
    <2>1. Tightens([i \in 0..0 |-> <<>>], s, 0)
        BY DEF Tightens
    <2> QED
        BY <2>1
<1>2. ASSUME NEW n \in Nat, n \in T
      PROVE  n + 1 \in T
    <2>1. PICK f : Tightens(f, s, n)
        BY <1>2
    <2> DEFINE g == [i \in 0..(n + 1) |-> IF i = n + 1 THEN f[n] \o Dark(s[n + 1]) ELSE f[i]]
    <2>2. \A i \in 0..n : f[i] = IF i = 0 THEN <<>> ELSE f[i - 1] \o Dark(s[i])
        BY <2>1 DEF Tightens
    <2>3. ASSUME NEW i \in 0..(n + 1)
          PROVE  g[i] = IF i = 0 THEN <<>> ELSE g[i - 1] \o Dark(s[i])
        <3>1. CASE i = n + 1
            <4>1. i # 0 /\ i - 1 = n /\ n \in 0..(n + 1) /\ n # n + 1
                BY <3>1
            <4>2. g[i] = f[n] \o Dark(s[n + 1]) /\ g[n] = f[n]
                BY <3>1, <4>1
            <4> HIDE DEF g
            <4> QED
                BY <3>1, <4>1, <4>2
        <3>2. CASE i = 0
            <4>1. i \in 0..n /\ i # n + 1
                BY <3>2
            <4>2. g[i] = f[i] /\ f[i] = <<>>
                BY <2>2, <3>2, <4>1
            <4> HIDE DEF g
            <4> QED
                BY <3>2, <4>2
        <3>3. CASE i # 0 /\ i # n + 1
            <4>1. i \in 0..n /\ i - 1 \in 0..(n + 1) /\ i - 1 # n + 1
                BY <3>3
            <4>2. g[i] = f[i] /\ g[i - 1] = f[i - 1] /\ f[i] = f[i - 1] \o Dark(s[i])
                BY <2>2, <3>3, <4>1
            <4> HIDE DEF g
            <4> QED
                BY <3>3, <4>2
        <3> QED
            BY <3>1, <3>2, <3>3
    <2>4. g = [i \in 0..(n + 1) |-> g[i]]
        OBVIOUS
    <2> HIDE DEF g
    <2>5. Tightens(g, s, n + 1)
        BY <2>3, <2>4 DEF Tightens
    <2> QED
        BY <2>5
<1> HIDE DEF T
<1>3. \A n \in Nat : n \in T
    BY <1>1, <1>2, AllNumbers
<1> QED
    BY <1>3 DEF T

Darkens(s, f) == f[0] = <<>> /\ \A i \in 1..Len(s) : f[i] = f[i - 1] \o Dark(s[i])

LEMMA TightIs ==
    ASSUME NEW s, Len(s) \in Nat
    PROVE  \E f : Tight(s) = f[Len(s)] /\ Darkens(s, f)
<1> DEFINE P(f) == f = [i \in 0..Len(s) |->
                           IF i = 0 THEN <<>>
                           ELSE f[i - 1] \o (IF s[i] = "white" THEN <<>> ELSE <<s[i]>>)]
<1>1. PICK h : P(h)
    BY TightExists DEF Tightens, Dark
<1>2. P(CHOOSE f : P(f))
    <2> HIDE DEF P
    <2> QED
        BY <1>1, Zenon
<1>3. Tight(s) = (CHOOSE f : P(f))[Len(s)]
    BY DEF Tight
<1>4. PICK f : P(f) /\ Tight(s) = f[Len(s)]
    <2> HIDE DEF P
    <2> QED
        BY <1>2, <1>3, Zenon
<1>5. \A i \in 0..Len(s) : f[i] = IF i = 0 THEN <<>> ELSE f[i - 1] \o Dark(s[i])
    BY <1>4 DEF Dark
<1>6. Darkens(s, f)
    <2>1. \A i \in 1..Len(s) : i \in 0..Len(s) /\ i # 0
        OBVIOUS
    <2>2. 0 \in 0..Len(s)
        OBVIOUS
    <2> HIDE DEF P
    <2> QED
        BY <1>5, <2>1, <2>2 DEF Darkens
<1> QED
    BY <1>4, <1>6

LEMMA DarkTyped ==
    ASSUME NEW x \in Pieces
    PROVE  Dark(x) \in Seq(Pieces)
BY DEF Dark

LEMMA TightTyped ==
    ASSUME NEW s \in Seq(Pieces), NEW f, Darkens(s, f)
    PROVE  \A n \in 0..Len(s) : f[n] \in Seq(Pieces)
<1> DEFINE T == {n \in Nat : n <= Len(s) => f[n] \in Seq(Pieces)}
<1>1. Len(s) \in Nat /\ <<>> \in Seq(Pieces)
    OBVIOUS
<1>2. 0 \in T
    BY <1>1 DEF Darkens
<1>3. ASSUME NEW n \in Nat, n \in T
      PROVE  n + 1 \in T
    <2>1. SUFFICES ASSUME n + 1 <= Len(s)
                   PROVE  f[n + 1] \in Seq(Pieces)
        OBVIOUS
    <2>2. n + 1 \in 1..Len(s) /\ (n + 1) - 1 = n /\ f[n] \in Seq(Pieces)
        BY <1>1, <1>3, <2>1
    <2>3. f[n + 1] = f[n] \o Dark(s[n + 1])
        BY <2>2 DEF Darkens
    <2>4. Dark(s[n + 1]) \in Seq(Pieces)
        BY <2>2, ElementOfSeq, DarkTyped
    <2> QED
        BY <2>2, <2>3, <2>4, ConcatProperties
<1> HIDE DEF T
<1>4. \A n \in Nat : n \in T
    BY <1>2, <1>3, AllNumbers
<1> QED
    BY <1>1, <1>4 DEF T

LEMMA TextsJoined ==
    ASSUME NEW x \in Seq(Pieces), NEW y \in Seq(Pieces), NEW z \in Seq(Pieces)
    PROVE  (x \o y) \o z = x \o (y \o z)
OBVIOUS

\* White space can be left out of a text and of one behind it.
LEMMA TightJoined ==
    ASSUME NEW s \in Seq(Pieces), NEW t \in Seq(Pieces)
    PROVE  /\ s \o t \in Seq(Pieces) /\ Tight(s) \in Seq(Pieces) /\ Tight(t) \in Seq(Pieces)
           /\ Tight(s \o t) = Tight(s) \o Tight(t)
<1> DEFINE u == s \o t
<1>1. u \in Seq(Pieces)
    OBVIOUS
<1>2. Len(s) \in Nat /\ Len(t) \in Nat /\ Len(u) = Len(s) + Len(t)
    OBVIOUS
<1>3. /\ \A i \in 1..Len(s) : u[i] = s[i]
      /\ \A i \in 1..Len(t) : u[Len(s) + i] = t[i]
    OBVIOUS
<1> HIDE DEF u
<1>4. PICK f : Tight(s) = f[Len(s)] /\ Darkens(s, f)
    BY <1>2, TightIs
<1>5. PICK g : Tight(t) = g[Len(t)] /\ Darkens(t, g)
    BY <1>2, TightIs
<1>6. Len(u) \in Nat
    BY <1>2
<1>7. PICK h : Tight(u) = h[Len(u)] /\ Darkens(u, h)
    BY <1>6, TightIs
<1>8. f[Len(s)] \in Seq(Pieces) /\ \A n \in 0..Len(t) : g[n] \in Seq(Pieces)
    BY <1>2, <1>4, <1>5, TightTyped
<1>9. h[Len(s)] = f[Len(s)]
    <2> DEFINE T == {n \in Nat : n <= Len(s) => h[n] = f[n]}
    <2>1. 0 \in T
        BY <1>4, <1>7 DEF Darkens
    <2>2. ASSUME NEW n \in Nat, n \in T
          PROVE  n + 1 \in T
        <3>1. SUFFICES ASSUME n + 1 <= Len(s)
                       PROVE  h[n + 1] = f[n + 1]
            OBVIOUS
        <3>2. /\ n + 1 \in 1..Len(s) /\ n + 1 \in 1..Len(u) /\ (n + 1) - 1 = n
              /\ h[n] = f[n]
            BY <1>2, <2>2, <3>1
        <3>3. h[n + 1] = h[n] \o Dark(u[n + 1]) /\ f[n + 1] = f[n] \o Dark(s[n + 1])
            BY <1>4, <1>7, <3>2 DEF Darkens
        <3> QED
            BY <1>3, <3>2, <3>3
    <2> HIDE DEF T
    <2>3. \A n \in Nat : n \in T
        BY <2>1, <2>2, AllNumbers
    <2> QED
        BY <1>2, <2>3 DEF T
<1>10. h[Len(u)] = f[Len(s)] \o g[Len(t)]
    <2> DEFINE Goes(n) == h[Len(s) + n] = f[Len(s)] \o g[n]
               T == {n \in Nat : n <= Len(t) => Goes(n)}
    <2>1. Goes(0)
        <3>1. Len(s) + 0 = Len(s) /\ g[0] = <<>>
            BY <1>2, <1>5 DEF Darkens
        <3>2. f[Len(s)] \o <<>> = f[Len(s)]
            BY <1>8, ConcatEmptySeq
        <3> QED
            BY <1>9, <3>1, <3>2, Zenon
    <2>2. ASSUME NEW n \in Nat, n + 1 <= Len(t), Goes(n)
          PROVE  Goes(n + 1)
        <3> DEFINE k == Len(s) + (n + 1)
                   w == Dark(t[n + 1])
        <3>1. /\ n + 1 \in 1..Len(t) /\ n \in 0..Len(t) /\ (n + 1) - 1 = n
              /\ k \in 1..Len(u) /\ k - 1 = Len(s) + n
            <4> HIDE DEF Goes
            <4> QED
                BY <1>2, <2>2
        <3>2. h[k] = h[k - 1] \o Dark(u[k])
            BY <1>7, <3>1, Zenon DEF Darkens
        <3>3. g[n + 1] = g[n] \o w
            BY <1>5, <3>1, Zenon DEF Darkens
        <3>4. u[k] = t[n + 1]
            BY <1>3, <3>1
        <3>5. w \in Seq(Pieces) /\ g[n] \in Seq(Pieces) /\ f[Len(s)] \in Seq(Pieces)
            <4>1. t[n + 1] \in Pieces
                BY <3>1, ElementOfSeq
            <4> QED
                BY <1>8, <3>1, <4>1, DarkTyped
        <3>6. h[k] = (f[Len(s)] \o g[n]) \o w
            BY <2>2, <3>1, <3>2, <3>4, Zenon
        <3> HIDE DEF w
        <3>7. (f[Len(s)] \o g[n]) \o w = f[Len(s)] \o (g[n] \o w)
            BY <3>5, TextsJoined, ZenonT(40)
        <3> QED
            BY <3>3, <3>6, <3>7, Zenon
    <2> HIDE DEF Goes
    <2>3. 0 \in T
        BY <2>1
    <2>4. ASSUME NEW n \in Nat, n \in T
          PROVE  n + 1 \in T
        BY <1>2, <2>2, <2>4
    <2> HIDE DEF T
    <2>5. \A n \in Nat : n \in T
        BY <2>3, <2>4, AllNumbers
    <2>6. Goes(Len(t))
        BY <1>2, <2>5 DEF T
    <2> QED
        BY <1>2, <2>6, Zenon DEF Goes
<1>11. Tight(s) \in Seq(Pieces) /\ Tight(t) \in Seq(Pieces)
    <2>1. Len(t) \in 0..Len(t)
        BY <1>2
    <2> QED
        BY <1>4, <1>5, <1>8, <2>1
<1> QED
    BY <1>1, <1>4, <1>5, <1>7, <1>10, <1>11 DEF u

LEMMA TightOfNone == <<>> \in Seq(Pieces) /\ Tight(<<>>) = <<>>
<1>1. <<>> \in Seq(Pieces) /\ Len(<<>>) = 0
    OBVIOUS
<1>2. PICK f : Tight(<<>>) = f[0] /\ Darkens(<<>>, f)
    BY <1>1, TightIs
<1>3. f[0] = <<>>
    BY <1>2, Zenon DEF Darkens
<1> QED
    BY <1>1, <1>2, <1>3, Zenon

LEMMA TightOfOne ==
    ASSUME NEW x \in Pieces, x # "white"
    PROVE  <<x>> \in Seq(Pieces) /\ Tight(<<x>>) = <<x>>
<1>1. <<x>> \in Seq(Pieces) /\ Len(<<x>>) = 1 /\ <<x>>[1] = x
    OBVIOUS
<1>2. PICK f : Tight(<<x>>) = f[1] /\ Darkens(<<x>>, f)
    BY <1>1, TightIs
<1>3. 1 \in 1..1 /\ 1 - 1 = 0
    OBVIOUS
<1>4. f[0] = <<>> /\ f[1] = f[0] \o Dark(x)
    BY <1>1, <1>2, <1>3, Zenon DEF Darkens
<1>5. <<>> \o <<x>> = <<x>>
    BY <1>1, ConcatEmptySeq
<1> QED
    BY <1>1, <1>2, <1>4, <1>5, Zenon DEF Dark

LEMMA TightOfWhite ==
    ASSUME NEW n \in Nat
    PROVE  White(n) \in Seq(Pieces) /\ Tight(White(n)) = <<>>
<1> DEFINE s == White(n)
<1>1. s \in Seq(Pieces) /\ Len(s) = n /\ \A i \in 1..n : s[i] = "white"
    BY SizeOfWhite
<1> HIDE DEF s
<1>2. PICK f : Tight(s) = f[n] /\ Darkens(s, f)
    BY <1>1, TightIs
<1>3. <<>> \o <<>> = <<>>
    BY <1>1, ConcatEmptySeq
<1> DEFINE T == {k \in Nat : k <= n => f[k] = <<>>}
<1>4. 0 \in T
    BY <1>2 DEF Darkens
<1>5. ASSUME NEW k \in Nat, k \in T
      PROVE  k + 1 \in T
    <2>1. SUFFICES ASSUME k + 1 <= n
                   PROVE  f[k + 1] = <<>>
        OBVIOUS
    <2>2. k + 1 \in 1..n /\ (k + 1) - 1 = k /\ f[k] = <<>>
        BY <1>5, <2>1
    <2>3. f[k + 1] = f[(k + 1) - 1] \o Dark(s[k + 1]) /\ s[k + 1] = "white"
        BY <1>1, <1>2, <2>2 DEF Darkens
    <2> QED
        BY <1>3, <2>2, <2>3 DEF Dark
<1> HIDE DEF T
<1>6. \A k \in Nat : k \in T
    BY <1>4, <1>5, AllNumbers
<1> QED
    BY <1>1, <1>2, <1>6 DEF T, s

-----------------------------------------------------------------------------
(* What is printed and what was read *)

\* x is the text read up to the place p as it is printed, white space excepted.
Says(x, p) == x \in Seq(Pieces) /\ p \in 0..Len(text) /\ Tight(x) = SubSeq(Printed, 1, p)

LEMMA TokensArePieces ==
    ASSUME TextInv, NEW i \in 1..Len(text)
    PROVE  text[i] \in Pieces /\ text[i] # "white"
<1>1. text[i] \in Tokens
    BY ElementOfSeq DEF TextInv
<1>2. "white" \notin Tokens
    BY DEF Tokens, Scalars, Numerals, Literals
<1> QED
    BY <1>1, <1>2 DEF Pieces

LEMMA PrintedIs ==
    ASSUME TextInv
    PROVE  /\ Printed \in Seq(Tokens) /\ Len(Printed) = Len(text) /\ Len(text) \in Nat
           /\ \A i \in 1..Len(text) :
                 /\ Printed[i] = PrintedAs(text[i])
                 /\ text[i] # "infinite" => Printed[i] = text[i]
<1>1. text \in Seq(Tokens) /\ Len(text) \in Nat
    BY DEF TextInv
<1>2. /\ Printed = [i \in 1..Len(text) |-> PrintedAs(text[i])]
    BY <1>1 DEF Printed, PrintedAs
<1>3. \A i \in 1..Len(text) : text[i] \in Tokens /\ PrintedAs(text[i]) \in Tokens
    <2>1. \A i \in 1..Len(text) : text[i] \in Tokens
        BY <1>1, ElementOfSeq
    <2> QED
        BY <2>1 DEF PrintedAs, Tokens, Scalars, Literals
<1>4. Printed \in Seq(Tokens) /\ Len(Printed) = Len(text)
    BY <1>1, <1>2, <1>3
<1> QED
    BY <1>1, <1>2, <1>4 DEF PrintedAs

LEMMA PrintedArePieces ==
    ASSUME TextInv, NEW i \in 1..Len(text)
    PROVE  Printed[i] \in Pieces /\ Printed[i] # "white"
<1>1. text[i] \in Pieces /\ text[i] # "white" /\ Printed[i] = PrintedAs(text[i])
    BY TokensArePieces, PrintedIs
<1>2. "null" \in Pieces
    BY Widths DEF Scalars, Literals
<1> QED
    BY <1>1, <1>2 DEF PrintedAs

LEMMA SaysNothing ==
    ASSUME TextInv
    PROVE  Says(<<>>, 0) /\ Says(<<>> \o <<>>, 0)
<1>1. Len(text) \in Nat /\ Printed \in Seq(Tokens)
    BY PrintedIs
<1>2. 0 \in 0..Len(text)
    BY <1>1
<1>3. SubSeq(Printed, 1, 0) = <<>>
    BY <1>1, SubSeqEmpty
<1>4. <<>> \o <<>> = <<>>
    BY TightOfNone, ConcatEmptySeq
<1> QED
    BY <1>2, <1>3, <1>4, TightOfNone DEF Says

\* White space may follow, or the token that is behind p in the text.
LEMMA SaysMore ==
    ASSUME TextInv, NEW x, NEW p, Says(x, p), NEW y \in Seq(Pieces), NEW q,
           \/ Tight(y) = <<>> /\ q = p
           \/ q = p + 1 /\ q <= Len(text) /\ Tight(y) = <<Printed[q]>>
    PROVE  Says(x \o y, q)
<1>1. Len(text) \in Nat /\ Printed \in Seq(Tokens) /\ Len(Printed) = Len(text)
    BY PrintedIs
<1>2. /\ x \in Seq(Pieces) /\ p \in 0..Len(text) /\ Tight(x) = SubSeq(Printed, 1, p)
    BY DEF Says
<1>3. x \o y \in Seq(Pieces) /\ Tight(x \o y) = Tight(x) \o Tight(y) /\ Tight(x) \in Seq(Pieces)
    BY <1>2, TightJoined
<1>4. CASE Tight(y) = <<>> /\ q = p
    <2>1. Tight(x) \o <<>> = Tight(x)
        BY <1>3, ConcatEmptySeq
    <2> QED
        BY <1>2, <1>3, <1>4, <2>1 DEF Says
<1>5. CASE q = p + 1 /\ q <= Len(text) /\ Tight(y) = <<Printed[q]>>
    <2>1. /\ q \in 1..Len(text) /\ q \in 0..Len(text) /\ p = q - 1
          /\ q - 1 \in 0..Len(text) /\ 1 \in 1..Len(text) + 1 /\ (q - 1) + 1 = q
          /\ q \in q - 1..Len(text) /\ q - 1 \in 1 - 1..Len(text)
        BY <1>1, <1>2, <1>5
    <2>2. SubSeq(Printed, 1, q - 1) \o SubSeq(Printed, (q - 1) + 1, q) = SubSeq(Printed, 1, q)
        BY <1>1, <2>1, ConcatAdjacentSubSeq
    <2>3. SubSeq(Printed, q, q) = <<Printed[q]>>
        BY <1>1, <2>1, OneToken
    <2>4. Tight(x \o y) = SubSeq(Printed, 1, q)
        BY <1>2, <1>3, <1>5, <2>1, <2>2, <2>3, Zenon
    <2> QED
        BY <1>3, <2>1, <2>4 DEF Says
<1> QED
    BY <1>4, <1>5

\* A token, with white space before it or behind it.
LEMMA TightWithWhite ==
    ASSUME NEW x \in Pieces, x # "white", NEW n \in Nat
    PROVE  /\ <<x>> \o White(n) \in Seq(Pieces) /\ Tight(<<x>> \o White(n)) = <<x>>
           /\ White(n) \o <<x>> \in Seq(Pieces) /\ Tight(White(n) \o <<x>>) = <<x>>
<1> DEFINE s == <<x>>
           t == White(n)
<1>1. s \in Seq(Pieces) /\ Tight(s) = s
    BY TightOfOne
<1>2. t \in Seq(Pieces) /\ Tight(t) = <<>>
    BY TightOfWhite
<1> HIDE DEF s, t
<1>3. /\ s \o t \in Seq(Pieces) /\ t \o s \in Seq(Pieces)
      /\ Tight(s \o t) = s \o <<>> /\ Tight(t \o s) = <<>> \o s
    BY <1>1, <1>2, TightJoined
<1>4. s \o <<>> = s /\ <<>> \o s = s
    BY <1>1, ConcatEmptySeq
<1> QED
    BY <1>3, <1>4 DEF s, t

\* Of the items that were read, what printing meets: u, a and b as in Reads.
Shown(u, a, b, n) ==
    /\ a[n] \in 1..Len(text) /\ Begins(a, n) \in 1..Len(text)
    /\ b[n] \in 1..Len(text) + 1 /\ Begins(a, n) < b[n] /\ b[n] <= offset
    /\ text[Begins(a, n)] = heap[n].type /\ heap[n].type \in Scalars \cup Lists
    /\ heap[n].type \in Scalars => b[n] = Begins(a, n) + 1
    /\ heap[n].type \in Lists =>
          Begins(a, n) + 1 < b[n] /\ text[b[n] - 1] = Closer[heap[n].type]
    /\ heap[n].type \in Lists /\ heap[n].child = NULL => b[n] = Begins(a, n) + 2
    /\ heap[n].child # NULL =>
          /\ heap[n].child \in 1..Len(heap) /\ u[heap[n].child] = n
          /\ a[heap[n].child] = Begins(a, n) + 1
    /\ heap[n].next # NULL =>
          /\ heap[n].next \in 1..Len(heap) /\ u[heap[n].next] = u[n]
          /\ b[n] <= Len(text) /\ text[b[n]] = Comma /\ a[heap[n].next] = b[n] + 1
    /\ u[n] # 0 =>
          /\ heap[n].next = NULL => b[n] = b[u[n]] - 1
          /\ heap[n].string # NULL <=> heap[u[n]].type = Brace
    /\ heap[n].string # NULL =>
          text[a[n]] = "string" /\ a[n] + 1 <= Len(text) /\ text[a[n] + 1] = Colon

Scripted(u, a, b) ==
    /\ root \in 1..Len(heap) /\ a[root] = 1 /\ heap[root].string = NULL /\ b[root] = offset
    /\ \A n \in 1..Len(heap) : u[n] # 0 \/ n = root => Shown(u, a, b, n)

LEMMA ScriptIs ==
    ASSUME ParserInv, OwnInv, ReadInv, pc = "done", root # NULL
    PROVE  \E u, a, b : Scripted(u, a, b)
<1> DEFINE k == Len(heap)
<1>1. PICK u, a, b, g : LinksInv(u) /\ Numbers(a) /\ Numbers(b) /\ Numbers(g) /\ Reads(u, a, b, g)
    BY DEF ReadInv
<1>2. Typed(u, a, b, g)
    BY <1>1, ReadTypes
<1>3. /\ Len(heap) \in Nat /\ Len(text) \in Nat /\ offset \in 1..Len(text) + 1
      /\ \A n \in 1..k :
            /\ u[n] \in Nat /\ u[n] < n /\ a[n] \in Nat /\ b[n] \in Nat
            /\ Begins(a, n) \in Nat
            /\ heap[n].next # NULL => heap[n].next \in 1..k /\ u[n] # 0 /\ u[heap[n].next] = u[n]
            /\ heap[n].child # NULL => heap[n].child \in 1..k /\ u[heap[n].child] = n
    BY <1>2 DEF Typed
<1>4. ASSUME NEW n \in 1..k, u[n] # 0 \/ n = root
      PROVE  Shown(u, a, b, n)
    <2>1. /\ ItemRead(u, a, b, g, n)
          /\ u[n] # 0 => u[n] \in 1..k /\ ListRead(u, a, b, g, u[n])
        BY <1>1, <1>4, AllRead
    <2>2. /\ Stop(u, b, n) \in Nat /\ b[n] <= Stop(u, b, n) /\ Stop(u, b, n) <= Len(text) + 1
          /\ heap[n].next # NULL => b[n] < Stop(u, b, n)
        BY <1>1, <1>4, ItemStops
    <2>3. /\ 1 <= a[n] /\ Begins(a, n) < b[n] /\ b[n] <= offset
          /\ text[Begins(a, n)] = heap[n].type
          /\ heap[n].next # NULL => text[b[n]] = Comma /\ a[heap[n].next] = b[n] + 1
          /\ ScalarRead(a, b, n) \/ ListRead(u, a, b, g, n)
        BY <2>1 DEF ItemRead
    <2>4. /\ a[n] \in Nat /\ b[n] \in Nat /\ Begins(a, n) \in Nat /\ a[n] <= Begins(a, n)
          /\ heap[n].string # NULL => Begins(a, n) = a[n] + 2
        BY <1>3 DEF Begins
    <2>5. /\ a[n] \in 1..Len(text) /\ Begins(a, n) \in 1..Len(text) /\ b[n] \in 1..Len(text) + 1
          /\ heap[n].next # NULL => b[n] <= Len(text)
          /\ heap[n].string # NULL => a[n] + 1 <= Len(text)
        BY <1>3, <2>2, <2>3, <2>4, SMTT(20)
    <2>6. /\ heap[n].type \in Scalars \cup Lists
          /\ heap[n].type \in Scalars => b[n] = Begins(a, n) + 1
          /\ heap[n].type \in Lists =>
                Begins(a, n) + 1 < b[n] /\ text[b[n] - 1] = Closer[heap[n].type]
          /\ heap[n].type \in Lists /\ heap[n].child = NULL => b[n] = Begins(a, n) + 2
          /\ heap[n].child # NULL => a[heap[n].child] = Begins(a, n) + 1
        <3>1. \A t \in Scalars : t \notin Lists
            BY DEF Scalars, Numerals, Literals, Lists
        <3>2. CASE ScalarRead(a, b, n)
            BY <3>1, <3>2 DEF ScalarRead
        <3>3. CASE ListRead(u, a, b, g, n)
            BY <3>1, <3>3 DEF ListRead
        <3> QED
            BY <2>3, <3>2, <3>3
    <2>7. u[n] # 0 =>
              /\ heap[n].next = NULL => b[n] = b[u[n]] - 1
              /\ heap[n].string # NULL <=> heap[u[n]].type = Brace
        BY <2>1 DEF ListRead
    <2>8. heap[n].string # NULL => text[a[n]] = "string" /\ text[a[n] + 1] = Colon
        BY <1>1 DEF Reads, NamesRead
    <2> QED
        BY <1>3, <2>3, <2>5, <2>6, <2>7, <2>8 DEF Shown
<1>5. root \in 1..k /\ a[root] = 1 /\ heap[root].string = NULL /\ b[root] = offset
    BY <1>1 DEF Reads, RootRead, HereRead
<1> QED
    BY <1>4, <1>5 DEF Scripted

Walking == {"value", "loop", "key", "colon", "behind", "printed"}

\* The item that is printed.
Subject(fr) == IF fr = <<>> THEN root ELSE fr[Len(fr)].current

\* Each frame is that of the item at which the one below is.
Chain(u, fr) ==
    \A i \in 1..Len(fr) :
        /\ fr[i].list = IF i = 1 THEN root ELSE fr[i - 1].current
        /\ fr[i].current # NULL => u[fr[i].current] = fr[i].list

\* Where in the text it is said what is printed next, and where the item behind which
\* printing is ends.
Ahead(a, b, st, fr) ==
    LET list == fr[Len(fr)].list
        current == fr[Len(fr)].current
    IN  IF st = "value" THEN Begins(a, Subject(fr))
        ELSE IF st \in {"behind", "printed"} THEN b[Subject(fr)]
        ELSE IF current = NULL THEN b[list] - 1
        ELSE IF st = "colon" THEN a[current] + 1 ELSE a[current]

Follows(u, a, b, st, buf, fr, it) ==
    /\ Chain(u, fr)
    /\ Says(buf.out \o buf.last, Ahead(a, b, st, fr) - 1)
    /\ st \in {"value", "loop", "key", "colon"} => buf.last = <<>>
    /\ st = "value" => it = Subject(fr)
    /\ st \in {"key", "colon"} => heap[fr[Len(fr)].list].type = Brace
    /\ st = "printed" => fr = <<>> /\ buf.nul

LEMMA WriteSays ==
    ASSUME NEW b, NEW n, NEW w \in BufferTypes, NEW next, Write(b, n, w, next)
    PROVE  \/ step' = "unwound"
           \/ /\ step' = next /\ buffer'.out = w.out /\ buffer'.last = w.last
              /\ buffer'.nul = w.nul
<1>1. PICK c \in Ensured(b, n) :
          /\ buffer' = IF c.ok THEN [w EXCEPT !.length = c.length] ELSE c
          /\ step' = IF c.ok THEN next ELSE "unwound"
    BY DEF Write
<1>2. CASE c.ok
    <2>1. buffer' = [w EXCEPT !.length = c.length] /\ step' = next
        BY <1>1, <1>2
    <2>2. buffer'.out = w.out /\ buffer'.last = w.last /\ buffer'.nul = w.nul
        BY <2>1 DEF BufferTypes
    <2> QED
        BY <2>1, <2>2
<1>3. CASE ~c.ok
    BY <1>1, <1>3
<1> QED
    BY <1>2, <1>3

\* The items at which the frames are, and that of the top one's list.
LEMMA FramesShown ==
    ASSUME PrintInv, NEW u, NEW a, NEW b, Scripted(u, a, b), Chain(u, frames), frames # <<>>
    PROVE  /\ Frame = frames[Len(frames)]
           /\ Frame.list \in 1..Len(heap) /\ Shown(u, a, b, Frame.list)
           /\ heap[Frame.list].type \in Lists
           /\ Frame.current # NULL =>
                 /\ Frame.current \in 1..Len(heap) /\ u[Frame.current] = Frame.list
                 /\ u[Frame.current] # 0 /\ Shown(u, a, b, Frame.current)
<1>0. PICK k, n, l, c : k = Len(heap) /\ n = Len(frames) /\ l = Frame.list /\ c = Frame.current
    OBVIOUS
<1>1. /\ k \in Nat /\ n \in Nat /\ n \in 1..n /\ Frame = frames[n] /\ l \in 1..k /\ c \in 0..k
      /\ heap[l].type \in Lists
    BY <1>0, WalkPlaces DEF Lists
<1>2. \A i \in 1..n :
          /\ frames[i].list \in 1..k
          /\ frames[i].list = IF i = 1 THEN root ELSE frames[i - 1].current
          /\ frames[i].current # NULL => u[frames[i].current] = frames[i].list
    <2>1. frames \in Seq(WalkFrames)
        BY DEF PrintInv, WalkInv
    <2>2. \A i \in 1..n : frames[i].list \in 1..k
        <3>1. \A i \in 1..n : frames[i] \in WalkFrames
            BY <1>0, <2>1, ElementOfSeq
        <3> QED
            BY <1>0, <3>1, Zenon DEF WalkFrames
    <2> QED
        BY <1>0, <2>2, Zenon DEF Chain
<1>3. Shown(u, a, b, l)
    <2>1. CASE n = 1
        <3>1. l = root
            BY <1>0, <1>1, <1>2, <2>1
        <3> QED
            BY <1>0, <1>1, <3>1 DEF Scripted
    <2>2. CASE n # 1
        <3>1. n - 1 \in 1..n
            BY <1>1, <2>2
        <3>2. l = frames[n - 1].current
            BY <1>0, <1>1, <1>2, <2>2
        <3>3. l # NULL /\ l # 0
            BY <1>1 DEF NULL
        <3>4. u[l] \in 1..k
            BY <1>2, <3>1, <3>2, <3>3, Zenon
        <3>5. u[l] # 0
            BY <3>4
        <3> QED
            BY <1>0, <1>1, <3>5 DEF Scripted
    <2> QED
        BY <2>1, <2>2
<1>4. ASSUME c # NULL
      PROVE  c \in 1..k /\ u[c] = l /\ u[c] # 0 /\ Shown(u, a, b, c)
    <2>1. c \in 1..k
        BY <1>1, <1>4 DEF NULL
    <2>2. u[c] = l
        BY <1>0, <1>1, <1>2, <1>4
    <2>3. l # 0
        BY <1>1
    <2>4. u[c] # 0
        BY <2>2, <2>3
    <2> QED
        BY <1>0, <2>1, <2>2, <2>4 DEF Scripted
<1> QED
    BY <1>0, <1>1, <1>3, <1>4

\* The item that is printed has its place.
LEMMA SubjectShown ==
    ASSUME PrintInv, NEW u, NEW a, NEW b, Scripted(u, a, b), Chain(u, frames),
           step \in {"value", "behind"}
    PROVE  /\ Subject(frames) \in 1..Len(heap) /\ Shown(u, a, b, Subject(frames))
           /\ frames # <<>> => Subject(frames) = Frame.current
<1>1. CASE frames = <<>>
    BY <1>1 DEF Subject, Scripted
<1>2. CASE frames # <<>>
    <2>1. Len(frames) \in 1..Len(frames) /\ Frame = frames[Len(frames)]
        BY <1>2, WalkPlaces
    <2>2. Frame.current # NULL /\ Subject(frames) = Frame.current
        BY <1>2, <2>1 DEF PrintInv, WalkInv, Subject
    <2> QED
        BY <1>2, <2>2, FramesShown
<1> QED
    BY <1>1, <1>2

LEMMA CallSays ==
    ASSUME PrintInv, NEW u, NEW a, NEW b, Scripted(u, a, b),
           PrintWhole \/ PrintBuffered \/ PrintPreallocated
    PROVE  step' \in Walking => Follows(u, a, b, step', buffer', frames', item')
<1>1. /\ frames = <<>> /\ frames' = <<>> /\ item' = root
    BY DEF PrintWhole, PrintBuffered, PrintPreallocated, MayPrint, Call, PrintInv, StepInv
<1>2. /\ step' \in {"value", "unwound"} /\ buffer'.out = <<>> /\ buffer'.last = <<>>
    BY DEF PrintWhole, PrintBuffered, PrintPreallocated, Allocate, NoBuffer
<1>3. Begins(a, root) - 1 = 0
    BY DEF Scripted, Begins
<1>4. Says(buffer'.out \o buffer'.last, 0)
    BY <1>2, SaysNothing DEF PrintInv, ParserInv
<1>5. Chain(u, frames')
    <2>1. 1..Len(frames') = {}
        BY <1>1, EmptySeq
    <2> QED
        BY <2>1 DEF Chain
<1>6. ASSUME step' = "value"
      PROVE  Follows(u, a, b, step', buffer', frames', item')
    <2>1. Subject(frames') = root
        BY <1>1 DEF Subject
    <2>2. Ahead(a, b, step', frames') - 1 = 0
        BY <1>3, <1>6, <2>1 DEF Ahead
    <2> QED
        BY <1>1, <1>2, <1>4, <1>5, <1>6, <2>1, <2>2 DEF Follows
<1> QED
    BY <1>2, <1>6 DEF Walking

\* What the steps start from.
LEMMA FollowsNow ==
    ASSUME PrintInv, NEW u, NEW a, NEW b, Scripted(u, a, b),
           Follows(u, a, b, step, buffer, frames, item),
           step \in {"value", "loop", "key", "colon", "behind"}
    PROVE  /\ Chain(u, frames)
           /\ Says(buffer.out \o buffer.last, Ahead(a, b, step, frames) - 1)
           /\ step # "behind" => Says(buffer.out, Ahead(a, b, step, frames) - 1)
<1>1. /\ Chain(u, frames)
      /\ Says(buffer.out \o buffer.last, Ahead(a, b, step, frames) - 1)
      /\ step # "behind" => buffer.last = <<>>
    BY DEF Follows
<1>2. buffer.out \o <<>> = buffer.out
    <2>1. buffer.out \in Seq(Pieces)
        BY PrintingPlaces DEF BufferTypes
    <2> QED
        BY <2>1, ConcatEmptySeq
<1> QED
    BY <1>1, <1>2

\* A buffer in which something was written, and counted or not.
LEMMA BehindSays ==
    ASSUME TextInv, NEW b \in BufferTypes, NEW p, Says(b.out, p), NEW y \in Seq(Pieces), NEW q,
           \/ Tight(y) = <<>> /\ q = p
           \/ q = p + 1 /\ q <= Len(text) /\ Tight(y) = <<Printed[q]>>
    PROVE  Says(Behind(b, y).out \o Behind(b, y).last, q)
BY SaysMore DEF Behind, BufferTypes

LEMMA CountedSays ==
    ASSUME TextInv, NEW b \in BufferTypes, NEW p, Says(b.out, p), NEW y \in Seq(Pieces), NEW q,
           \/ Tight(y) = <<>> /\ q = p
           \/ q = p + 1 /\ q <= Len(text) /\ Tight(y) = <<Printed[q]>>,
           NEW nul
    PROVE  /\ Says(Counted(b, y, nul).out, q) /\ Counted(b, y, nul).last = <<>>
           /\ Says(Counted(b, y, nul).out \o Counted(b, y, nul).last, q)
<1> DEFINE w == Counted(b, y, nul)
<1>1. w.out = b.out \o y /\ w.last = <<>>
    BY DEF Counted, BufferTypes
<1> HIDE DEF w
<1>2. Says(w.out, q)
    BY <1>1, SaysMore
<1>3. w.out \o w.last = w.out
    BY <1>1, <1>2, ConcatEmptySeq DEF Says
<1> QED
    BY <1>1, <1>2, <1>3, Zenon DEF w

LEMMA UpdateSays ==
    ASSUME NEW b \in BufferTypes, NEW p, Says(b.out \o b.last, p)
    PROVE  /\ Says(UpdateOffset(b).out, p) /\ UpdateOffset(b).last = <<>>
           /\ Says(UpdateOffset(b).out \o UpdateOffset(b).last, p)
<1> DEFINE w == UpdateOffset(b)
<1>1. w.out = b.out \o b.last /\ w.last = <<>>
    BY DEF UpdateOffset, BufferTypes
<1> HIDE DEF w
<1>2. Says(w.out, p)
    BY <1>1, Zenon
<1>3. w.out \o w.last = w.out
    BY <1>1, <1>2, ConcatEmptySeq DEF Says
<1> QED
    BY <1>1, <1>2, <1>3, Zenon DEF w

LEMMA ScalarSays ==
    ASSUME PrintInv, NEW u, NEW a, NEW b, Scripted(u, a, b),
           Follows(u, a, b, step, buffer, frames, item), PrintScalar
    PROVE  step' \in Walking => Follows(u, a, b, step', buffer', frames', item')
<1> DEFINE s == <<PrintedAs(heap[item].type)>>
           w == Behind(buffer, s)
<1>1. /\ step = "value" /\ heap[item].type \in Scalars
      /\ Write(buffer, Size(s) + 1, w, "behind")
      /\ frames' = frames
    BY DEF PrintScalar
<1>2. /\ Chain(u, frames)
      /\ Says(buffer.out, Ahead(a, b, step, frames) - 1)
    BY <1>1, FollowsNow
<1>3. PICK n : n = item
    OBVIOUS
<1>4. n = Subject(frames) /\ n \in 1..Len(heap) /\ Shown(u, a, b, n)
    BY <1>1, <1>2, <1>3, SubjectShown DEF Follows
<1>5. PICK p, r : p = Begins(a, n) /\ r = p - 1
    OBVIOUS
<1>6. /\ p \in 1..Len(text) /\ text[p] = heap[n].type /\ b[n] = p + 1
    BY <1>1, <1>3, <1>4, <1>5 DEF Shown
<1>7. Says(buffer.out, r)
    BY <1>1, <1>2, <1>4, <1>5 DEF Ahead
<1>8. TextInv /\ Len(text) \in Nat /\ buffer \in BufferTypes
    BY <1>1, PrintingPlaces DEF PrintInv, ParserInv, TextInv
<1>9. s \in Seq(Pieces) /\ Tight(s) = <<Printed[p]>>
    <2>1. Printed[p] \in Pieces /\ Printed[p] # "white"
        BY <1>6, <1>8, PrintedArePieces
    <2>2. Printed[p] = PrintedAs(heap[item].type)
        BY <1>3, <1>6, <1>8, PrintedIs
    <2> QED
        BY <2>1, <2>2, TightOfOne
<1> HIDE DEF s
<1>10. p = r + 1 /\ p <= Len(text) /\ (p + 1) - 1 = p
    BY <1>5, <1>6, <1>8
<1>11. w \in BufferTypes /\ Says(w.out \o w.last, p)
    <2> HIDE DEF w
    <2>1. Says(Behind(buffer, s).out \o Behind(buffer, s).last, p)
        BY <1>7, <1>8, <1>9, <1>10, BehindSays
    <2> QED
        BY <1>8, <1>9, <2>1, BehindUsed DEF w
<1> HIDE DEF w
<1>12. \/ step' = "unwound"
       \/ step' = "behind" /\ buffer'.out = w.out /\ buffer'.last = w.last
    BY <1>1, <1>11, WriteSays
<1>13. ASSUME step' = "behind", buffer'.out = w.out, buffer'.last = w.last
       PROVE  Follows(u, a, b, step', buffer', frames', item')
    <2>1. Ahead(a, b, step', frames') - 1 = p
        BY <1>1, <1>4, <1>6, <1>10, <1>13 DEF Ahead
    <2> QED
        BY <1>1, <1>2, <1>11, <1>13, <2>1 DEF Follows
<1> QED
    BY <1>12, <1>13 DEF Walking

\* A frame put on top.
LEMMA ChainOn ==
    ASSUME PrintInv, NEW u, Chain(u, frames), NEW f,
           f.list = Subject(frames), f.current # NULL => u[f.current] = f.list,
           frames' = Append(frames, f)
    PROVE  Chain(u, frames') /\ frames' # <<>> /\ frames'[Len(frames')] = f
<1>1. frames \in Seq(WalkFrames)
    BY DEF PrintInv, WalkInv
<1>2. PICK n : n = Len(frames)
    OBVIOUS
<1>3. /\ n \in Nat /\ Len(frames') = n + 1 /\ frames' # <<>> /\ frames'[n + 1] = f
      /\ \A i \in 1..n : frames'[i] = frames[i]
    <2>1. frames \in Seq(WalkFrames \cup {f}) /\ f \in WalkFrames \cup {f}
        BY <1>1
    <2>2. Len(Append(frames, f)) = Len(frames) + 1
        BY <2>1, AppendProperties
    <2> QED
        BY <1>2, <2>1, <2>2, AppendProperties
<1>4. \A i \in 1..n : frames[i].list = IF i = 1 THEN root ELSE frames[i - 1].current
    BY <1>2 DEF Chain
<1>5. \A i \in 1..n : frames[i].current # NULL => u[frames[i].current] = frames[i].list
    BY <1>2 DEF Chain
<1>6. ASSUME NEW i \in 1..n + 1
      PROVE  /\ frames'[i].list = IF i = 1 THEN root ELSE frames'[i - 1].current
             /\ frames'[i].current # NULL => u[frames'[i].current] = frames'[i].list
    <2>1. CASE i \in 1..n
        <3>1. i # 1 => i - 1 \in 1..n
            BY <1>3, <2>1
        <3>2. frames'[i] = frames[i] /\ (i # 1 => frames'[i - 1] = frames[i - 1])
            BY <1>3, <2>1, <3>1
        <3> QED
            BY <1>4, <1>5, <2>1, <3>2, Zenon
    <2>2. CASE i = n + 1
        <3>1. frames'[i] = f
            BY <1>3, <2>2
        <3>2. f.list = IF i = 1 THEN root ELSE frames'[i - 1].current
            <4>1. CASE frames = <<>>
                <5>1. n = 0 /\ i = 1
                    BY <1>2, <2>2, <4>1
                <5> QED
                    BY <4>1, <5>1 DEF Subject
            <4>2. CASE frames # <<>>
                <5>1. n \in 1..n
                    BY <1>1, <1>2, <1>3, <4>2, EmptySeq
                <5>2. i # 1 /\ i - 1 = n
                    BY <1>3, <2>2, <5>1
                <5>3. frames'[n] = frames[n]
                    BY <1>3, <5>1
                <5>4. f.list = frames[n].current
                    BY <1>2, <4>2, Zenon DEF Subject
                <5> QED
                    BY <5>2, <5>3, <5>4, Zenon
            <4> QED
                BY <4>1, <4>2
        <3> QED
            BY <3>1, <3>2, Zenon
    <2> QED
        BY <1>3, <2>1, <2>2
<1>7. Chain(u, frames')
    BY <1>3, <1>6 DEF Chain
<1> QED
    BY <1>3, <1>7

LEMMA OpenSays ==
    ASSUME PrintInv, NEW u, NEW a, NEW b, Scripted(u, a, b),
           Follows(u, a, b, step, buffer, frames, item), OpenPrinted
    PROVE  step' \in Walking => Follows(u, a, b, step', buffer', frames', item')
<1> DEFINE object == heap[item].type = "{"
           white == IF object THEN Formatted(1) ELSE 0
           s == <<heap[item].type>> \o White(white)
           w == Counted(buffer, s, FALSE)
           frame == [list |-> item, current |-> heap[item].child]
<1>1. /\ step = "value" /\ heap[item].type \in Lists
      /\ \E k : Write(buffer, k, w, "loop")
      /\ frames' = Append(frames, frame)
    BY DEF OpenPrinted, Closer, Lists
<1>2. /\ Chain(u, frames)
      /\ Says(buffer.out, Ahead(a, b, step, frames) - 1)
    BY <1>1, FollowsNow
<1>3. PICK n, c : n = item /\ c = heap[item].child
    OBVIOUS
<1>4. n = Subject(frames) /\ n \in 1..Len(heap) /\ Shown(u, a, b, n)
    BY <1>1, <1>2, <1>3, SubjectShown DEF Follows
<1>5. PICK p, r : p = Begins(a, n) /\ r = p - 1
    OBVIOUS
<1>6. /\ p \in 1..Len(text) /\ text[p] = heap[n].type
      /\ c = NULL => b[n] = p + 2
      /\ c # NULL => a[c] = p + 1 /\ u[c] = n
    BY <1>1, <1>3, <1>4, <1>5 DEF Shown
<1>7. Says(buffer.out, r)
    BY <1>1, <1>2, <1>4, <1>5 DEF Ahead
<1>8. /\ TextInv /\ Len(text) \in Nat /\ buffer \in BufferTypes
    <2>1. TextInv /\ Len(text) \in Nat
        BY DEF PrintInv, ParserInv, TextInv
    <2>2. step = "value"
        BY <1>1
    <2> QED
        BY <2>1, <2>2, PrintingPlaces
<1>9. s \in Seq(Pieces) /\ Tight(s) = <<Printed[p]>>
    <2>1. text[p] \in Pieces /\ text[p] # "white"
        BY <1>6, <1>8, TokensArePieces
    <2>2. Formatted(1) \in Nat
        BY <1>1, PrintingPlaces
    <2>3. white \in Nat
        BY <2>2
    <2>4. Printed[p] = text[p]
        BY <1>1, <1>3, <1>6, <1>8, PrintedIs DEF Lists
    <2> HIDE DEF white
    <2> QED
        BY <1>3, <1>6, <2>1, <2>3, <2>4, TightWithWhite
<1> HIDE DEF s, object, white
<1>10. p = r + 1 /\ p <= Len(text) /\ (p + 1) - 1 = p /\ ((p + 2) - 1) - 1 = p
    BY <1>5, <1>6, <1>8
<1>11. w \in BufferTypes /\ Says(w.out \o w.last, p) /\ w.last = <<>>
    <2> HIDE DEF w
    <2>1. /\ Says(Counted(buffer, s, FALSE).out \o Counted(buffer, s, FALSE).last, p)
          /\ Counted(buffer, s, FALSE).last = <<>>
        BY <1>7, <1>8, <1>9, <1>10, CountedSays
    <2> QED
        BY <1>8, <1>9, <2>1, CountedUsed DEF w
<1> HIDE DEF w
<1>12. \/ step' = "unwound"
       \/ step' = "loop" /\ buffer'.out = w.out /\ buffer'.last = w.last
    BY <1>1, <1>11, WriteSays
<1>13. frame.list = n /\ frame.current = c
    BY <1>3
<1> HIDE DEF frame
<1>14. Chain(u, frames') /\ frames' # <<>> /\ frames'[Len(frames')] = frame
    BY <1>1, <1>2, <1>4, <1>6, <1>13, ChainOn
<1>15. ASSUME step' = "loop", buffer'.out = w.out, buffer'.last = w.last
       PROVE  Follows(u, a, b, step', buffer', frames', item')
    <2>1. Ahead(a, b, step', frames') - 1 = p
        BY <1>6, <1>10, <1>13, <1>14, <1>15 DEF Ahead
    <2> QED
        BY <1>11, <1>14, <1>15, <2>1 DEF Follows
<1> QED
    BY <1>12, <1>15 DEF Walking

\* The place of an item in a list, named if that is an object.
LEMMA ElementPlace ==
    ASSUME PrintInv, NEW u, NEW a, NEW b, Scripted(u, a, b), Chain(u, frames), frames # <<>>,
           Frame.current # NULL
    PROVE  /\ Frame.current \in 1..Len(heap) /\ Shown(u, a, b, Frame.current)
           /\ heap[Frame.list].type # Brace => Begins(a, Frame.current) = a[Frame.current]
           /\ heap[Frame.list].type = Brace =>
                 /\ Begins(a, Frame.current) = a[Frame.current] + 2
                 /\ text[a[Frame.current]] = "string"
                 /\ a[Frame.current] + 1 <= Len(text) /\ text[a[Frame.current] + 1] = Colon
<1>1. PICK l, c : l = Frame.list /\ c = Frame.current
    OBVIOUS
<1>2. c \in 1..Len(heap) /\ u[c] = l /\ u[c] # 0 /\ Shown(u, a, b, c)
    BY <1>1, FramesShown
<1>3. /\ heap[c].string # NULL <=> heap[l].type = Brace
      /\ a[c] \in 1..Len(text)
      /\ heap[c].string # NULL =>
            text[a[c]] = "string" /\ a[c] + 1 <= Len(text) /\ text[a[c] + 1] = Colon
    BY <1>2 DEF Shown
<1>4. /\ heap[c].string # NULL => Begins(a, c) = a[c] + 2
      /\ heap[c].string = NULL => Begins(a, c) = a[c] + 0
    BY DEF Begins
<1>5. a[c] + 0 = a[c]
    BY <1>3
<1> QED
    BY <1>1, <1>2, <1>3, <1>4, <1>5, Zenon

LEMMA ElementSays ==
    ASSUME PrintInv, NEW u, NEW a, NEW b, Scripted(u, a, b),
           Follows(u, a, b, step, buffer, frames, item), PrintElement
    PROVE  step' \in Walking => Follows(u, a, b, step', buffer', frames', item')
<1>1. /\ step = "loop" /\ step' = "value" /\ item' = Frame.current /\ Frame.current # NULL
      /\ heap[Frame.list].type # Brace /\ buffer' = buffer /\ frames' = frames
    BY DEF PrintElement, Brace
<1>2. Chain(u, frames)
    BY <1>1, FollowsNow
<1>3. frames # <<>>
    BY <1>1 DEF PrintInv, WalkInv
<1>4. Frame = frames[Len(frames)]
    BY <1>3, WalkPlaces
<1>5. Subject(frames) = Frame.current
    BY <1>3, <1>4 DEF Subject
<1>6. Begins(a, Frame.current) = a[Frame.current]
    BY <1>1, <1>2, <1>3, ElementPlace
<1>7. Ahead(a, b, step', frames') = Ahead(a, b, step, frames)
    BY <1>1, <1>4, <1>5, <1>6 DEF Ahead
<1>8. Follows(u, a, b, step', buffer', frames', item')
    BY <1>1, <1>2, <1>5, <1>7 DEF Follows
<1> QED
    BY <1>8 DEF Walking

LEMMA TabsSays ==
    ASSUME PrintInv, NEW u, NEW a, NEW b, Scripted(u, a, b),
           Follows(u, a, b, step, buffer, frames, item), PrintTabs
    PROVE  step' \in Walking => Follows(u, a, b, step', buffer', frames', item')
<1> DEFINE s == White(Depth)
           w == Counted(buffer, s, FALSE)
<1>1. /\ step = "loop" /\ Frame.current # NULL /\ heap[Frame.list].type = Brace
      /\ frames' = frames
      /\ Write(buffer, Depth, w, "key") \/ (step' = "key" /\ buffer' = buffer)
    BY DEF PrintTabs, Brace
<1>2. /\ Chain(u, frames)
      /\ Says(buffer.out, Ahead(a, b, step, frames) - 1)
    BY <1>1, FollowsNow
<1>3. frames # <<>>
    BY <1>1 DEF PrintInv, WalkInv
<1>4. Frame = frames[Len(frames)]
    BY <1>3, WalkPlaces
<1>5. TextInv /\ buffer \in BufferTypes /\ Depth \in Nat
    BY <1>1, PrintingPlaces, WalkPlaces DEF PrintInv, ParserInv, Depth
<1>6. s \in Seq(Pieces) /\ Tight(s) = <<>>
    BY <1>5, TightOfWhite
<1> HIDE DEF s
<1>7. PICK r : r = Ahead(a, b, step, frames) - 1
    OBVIOUS
<1>8. w \in BufferTypes /\ Says(w.out \o w.last, r) /\ w.last = <<>>
    <2> HIDE DEF w
    <2>1. Says(buffer.out, r)
        BY <1>1, <1>2, <1>7
    <2>2. /\ Says(Counted(buffer, s, FALSE).out \o Counted(buffer, s, FALSE).last, r)
          /\ Counted(buffer, s, FALSE).last = <<>>
        BY <1>5, <1>6, <2>1, CountedSays
    <2> QED
        BY <1>5, <1>6, <2>2, CountedUsed DEF w
<1> HIDE DEF w
<1>9. \/ step' = "unwound"
      \/ /\ step' = "key" /\ buffer'.last = <<>>
         /\ Says(buffer'.out \o buffer'.last, r)
    <2>1. CASE Write(buffer, Depth, w, "key")
        BY <1>8, <2>1, WriteSays
    <2>2. CASE step' = "key" /\ buffer' = buffer
        BY <1>1, <1>2, <1>7, <2>2 DEF Follows
    <2> QED
        BY <1>1, <2>1, <2>2
<1>10. ASSUME step' = "key", buffer'.last = <<>>, Says(buffer'.out \o buffer'.last, r)
       PROVE  Follows(u, a, b, step', buffer', frames', item')
    <2>1. Ahead(a, b, step', frames') - 1 = r
        BY <1>1, <1>4, <1>7, <1>10 DEF Ahead
    <2> QED
        BY <1>1, <1>2, <1>4, <1>10, <2>1 DEF Follows
<1> QED
    BY <1>9, <1>10 DEF Walking

LEMMA KeySays ==
    ASSUME PrintInv, NEW u, NEW a, NEW b, Scripted(u, a, b),
           Follows(u, a, b, step, buffer, frames, item), PrintKey
    PROVE  step' \in Walking => Follows(u, a, b, step', buffer', frames', item')
<1> DEFINE s == <<"string">>
           v == Behind(buffer, s)
           w == UpdateOffset(v)
<1>1. /\ step = "key" /\ frames' = frames
      /\ \E k : Write(buffer, k, w, "colon")
    BY DEF PrintKey
<1>2. /\ Chain(u, frames)
      /\ Says(buffer.out, Ahead(a, b, step, frames) - 1)
    BY <1>1, FollowsNow
<1>3. /\ frames # <<>> /\ Frame = frames[Len(frames)] /\ Frame.current # NULL
      /\ heap[Frame.list].type = Brace
    <2>1. frames # <<>> /\ \A i \in 1..Len(frames) : frames[i].current # NULL
        BY <1>1 DEF PrintInv, WalkInv
    <2>2. Frame = frames[Len(frames)] /\ Len(frames) \in 1..Len(frames)
        BY <2>1, WalkPlaces
    <2> QED
        BY <1>1, <1>2, <2>1, <2>2 DEF Follows
<1>4. PICK p, r : p = a[Frame.current] /\ r = p - 1
    OBVIOUS
<1>5. p \in 1..Len(text) /\ text[p] = "string"
    <2>1. Shown(u, a, b, Frame.current) /\ text[p] = "string"
        BY <1>2, <1>3, <1>4, ElementPlace
    <2> QED
        BY <1>4, <2>1 DEF Shown
<1>6. Says(buffer.out, r)
    BY <1>1, <1>2, <1>3, <1>4 DEF Ahead
<1>7. TextInv /\ Len(text) \in Nat /\ buffer \in BufferTypes
    <2>1. TextInv /\ Len(text) \in Nat
        BY DEF PrintInv, ParserInv, TextInv
    <2> QED
        BY <1>1, <2>1, PrintingPlaces
<1>8. s \in Seq(Pieces) /\ Tight(s) = <<Printed[p]>>
    <2>1. "string" \in Pieces /\ "string" # "white"
        BY Widths DEF Scalars
    <2>2. Printed[p] = "string"
        BY <1>5, <1>7, PrintedIs
    <2> QED
        BY <2>1, <2>2, TightOfOne
<1> HIDE DEF s
<1>9. p = r + 1 /\ p <= Len(text) /\ (p + 1) - 1 = p
    BY <1>4, <1>5, <1>7
<1>10. v \in BufferTypes /\ Says(v.out \o v.last, p)
    <2> HIDE DEF v
    <2>1. Says(Behind(buffer, s).out \o Behind(buffer, s).last, p)
        BY <1>6, <1>7, <1>8, <1>9, BehindSays
    <2> QED
        BY <1>7, <1>8, <2>1, BehindUsed DEF v
<1> HIDE DEF v
<1>11. w \in BufferTypes /\ Says(w.out \o w.last, p) /\ w.last = <<>>
    BY <1>10, UpdateUsed, UpdateSays
<1> HIDE DEF w
<1>12. \/ step' = "unwound"
       \/ step' = "colon" /\ buffer'.out = w.out /\ buffer'.last = w.last
    BY <1>1, <1>11, WriteSays
<1>13. ASSUME step' = "colon", buffer'.out = w.out, buffer'.last = w.last
       PROVE  Follows(u, a, b, step', buffer', frames', item')
    <2>1. Ahead(a, b, step', frames') - 1 = p
        BY <1>1, <1>3, <1>4, <1>9, <1>13 DEF Ahead
    <2> QED
        BY <1>1, <1>2, <1>3, <1>11, <1>13, <2>1 DEF Follows
<1> QED
    BY <1>12, <1>13 DEF Walking

LEMMA ColonSays ==
    ASSUME PrintInv, NEW u, NEW a, NEW b, Scripted(u, a, b),
           Follows(u, a, b, step, buffer, frames, item), PrintColon
    PROVE  step' \in Walking => Follows(u, a, b, step', buffer', frames', item')
<1> DEFINE k == Formatted(1)
           s == <<":">> \o White(k)
           w == Counted(buffer, s, FALSE)
<1>1. /\ step = "colon" /\ frames' = frames /\ item' = Frame.current
      /\ \E n : Write(buffer, n, w, "value")
    BY DEF PrintColon
<1>2. /\ Chain(u, frames)
      /\ Says(buffer.out, Ahead(a, b, step, frames) - 1)
    BY <1>1, FollowsNow
<1>3. /\ frames # <<>> /\ Frame = frames[Len(frames)] /\ Frame.current # NULL
      /\ heap[Frame.list].type = Brace
    <2>1. frames # <<>> /\ \A i \in 1..Len(frames) : frames[i].current # NULL
        BY <1>1 DEF PrintInv, WalkInv
    <2>2. Frame = frames[Len(frames)] /\ Len(frames) \in 1..Len(frames)
        BY <2>1, WalkPlaces
    <2> QED
        BY <1>1, <1>2, <2>1, <2>2 DEF Follows
<1>4. PICK p, r : p = a[Frame.current] + 1 /\ r = p - 1
    OBVIOUS
<1>5. p \in 1..Len(text) /\ text[p] = Colon /\ Begins(a, Frame.current) = p + 1
    <2>1. PICK c : c = Frame.current
        OBVIOUS
    <2>2. /\ Shown(u, a, b, c) /\ Begins(a, c) = a[c] + 2
          /\ a[c] + 1 <= Len(text) /\ text[a[c] + 1] = Colon
        BY <1>2, <1>3, <2>1, ElementPlace
    <2>3. a[c] \in 1..Len(text) /\ p = a[c] + 1
        BY <1>4, <2>1, <2>2 DEF Shown
    <2>4. Len(text) \in Nat
        BY DEF PrintInv, ParserInv, TextInv
    <2>5. text[p] = Colon
        BY <2>2, <2>3
    <2> QED
        BY <2>1, <2>2, <2>3, <2>4, <2>5
<1>6. Says(buffer.out, r)
    BY <1>1, <1>2, <1>3, <1>4 DEF Ahead
<1>7. /\ TextInv /\ Len(text) \in Nat /\ buffer \in BufferTypes /\ Formatted(1) \in Nat
    <2>1. TextInv /\ Len(text) \in Nat
        BY DEF PrintInv, ParserInv, TextInv
    <2>2. step = "colon"
        BY <1>1
    <2> QED
        BY <2>1, <2>2, PrintingPlaces
<1>8. s \in Seq(Pieces) /\ Tight(s) = <<Printed[p]>>
    <2>1. ":" \in Pieces /\ ":" # "white"
        BY Widths
    <2> HIDE DEF k
    <2>2. k \in Nat
        BY <1>7 DEF k
    <2>3. Printed[p] = ":"
        BY <1>5, <1>7, PrintedIs DEF Colon
    <2> QED
        BY <2>1, <2>2, <2>3, TightWithWhite
<1> HIDE DEF s, k
<1>9. p = r + 1 /\ p <= Len(text) /\ (p + 1) - 1 = p
    BY <1>4, <1>5, <1>7
<1>10. w \in BufferTypes /\ Says(w.out \o w.last, p) /\ w.last = <<>>
    <2> HIDE DEF w
    <2>1. /\ Says(Counted(buffer, s, FALSE).out \o Counted(buffer, s, FALSE).last, p)
          /\ Counted(buffer, s, FALSE).last = <<>>
        BY <1>6, <1>7, <1>8, <1>9, CountedSays
    <2> QED
        BY <1>7, <1>8, <2>1, CountedUsed DEF w
<1> HIDE DEF w
<1>11. \/ step' = "unwound"
       \/ step' = "value" /\ buffer'.out = w.out /\ buffer'.last = w.last
    BY <1>1, <1>10, WriteSays
<1>12. Subject(frames) = Frame.current
    BY <1>3 DEF Subject
<1>13. ASSUME step' = "value", buffer'.out = w.out, buffer'.last = w.last
       PROVE  Follows(u, a, b, step', buffer', frames', item')
    <2>1. Ahead(a, b, step', frames') - 1 = p
        BY <1>1, <1>5, <1>9, <1>12, <1>13 DEF Ahead
    <2> QED
        BY <1>1, <1>2, <1>10, <1>12, <1>13, <2>1 DEF Follows
<1> QED
    BY <1>11, <1>13 DEF Walking

\* The top frame taken off; and put back at the next item of its list.
LEMMA ChainOff ==
    ASSUME PrintInv, NEW u, Chain(u, frames), frames # <<>>
    PROVE  /\ Chain(u, Front(frames)) /\ Subject(Front(frames)) = Frame.list
           /\ \A f : (f.list = Frame.list /\ (f.current # NULL => u[f.current] = f.list)) =>
                 LET fs == Append(Front(frames), f)
                 IN  Chain(u, fs) /\ fs # <<>> /\ fs[Len(fs)] = f
<1>1. PICK n, g : n = Len(frames) /\ g = Front(frames)
    OBVIOUS
<1>2. /\ n \in Nat /\ n \in 1..n /\ Frame = frames[n]
      /\ g \in Seq(WalkFrames) /\ Len(g) = n - 1
      /\ \A i \in 1..n - 1 : g[i] = frames[i]
    BY <1>1, WalkPlaces
<1>3. \A i \in 1..n :
          /\ frames[i].list = IF i = 1 THEN root ELSE frames[i - 1].current
          /\ frames[i].current # NULL => u[frames[i].current] = frames[i].list
    BY <1>1 DEF Chain
<1>4. \A i \in 1..n - 1 : i \in 1..n /\ (i # 1 => i - 1 \in 1..n - 1)
    BY <1>2
<1>5. Chain(u, g)
    <2>1. ASSUME NEW i \in 1..n - 1
          PROVE  /\ g[i].list = IF i = 1 THEN root ELSE g[i - 1].current
                 /\ g[i].current # NULL => u[g[i].current] = g[i].list
        <3>1. g[i] = frames[i] /\ (i # 1 => g[i - 1] = frames[i - 1]) /\ i \in 1..n
            BY <1>2, <1>4
        <3> QED
            BY <1>3, <3>1, Zenon
    <2> QED
        BY <1>2, <2>1 DEF Chain
<1>6. Subject(g) = Frame.list
    <2>1. CASE n = 1
        <3>1. g = <<>>
            BY <1>2, <2>1, EmptySeq
        <3> QED
            BY <1>2, <1>3, <2>1, <3>1 DEF Subject
    <2>2. CASE n # 1
        <3>1. n - 1 \in 1..n - 1
            BY <1>2, <2>2
        <3>2. g # <<>>
            BY <1>2, <3>1, EmptySeq
        <3>3. g[n - 1] = frames[n - 1] /\ frames[n].list = frames[n - 1].current
            BY <1>2, <1>3, <2>2, <3>1
        <3> QED
            BY <1>2, <3>2, <3>3 DEF Subject
    <2> QED
        BY <2>1, <2>2
<1>7. ASSUME NEW f, f.list = Frame.list, f.current # NULL => u[f.current] = f.list,
             NEW fs, fs = Append(g, f)
      PROVE  Chain(u, fs) /\ fs # <<>> /\ fs[Len(fs)] = f
    <2>1. /\ Len(fs) = n /\ fs # <<>> /\ fs[n] = f /\ \A i \in 1..n - 1 : fs[i] = g[i]
        <3>1. g \in Seq(WalkFrames \cup {f}) /\ f \in WalkFrames \cup {f}
            BY <1>2
        <3>2. /\ Len(fs) = Len(g) + 1 /\ fs[Len(g) + 1] = f /\ fs # <<>>
              /\ \A i \in 1..Len(g) : fs[i] = g[i]
            BY <1>7, <3>1, AppendProperties
        <3>3. (n - 1) + 1 = n
            BY <1>2
        <3> QED
            BY <1>2, <3>2, <3>3
    <2>2. ASSUME NEW i \in 1..n
          PROVE  /\ fs[i].list = IF i = 1 THEN root ELSE fs[i - 1].current
                 /\ fs[i].current # NULL => u[fs[i].current] = fs[i].list
        <3>1. i # 1 => i - 1 \in 1..n - 1
            BY <1>2
        <3>2. i # 1 => fs[i - 1] = frames[i - 1]
            BY <1>2, <2>1, <3>1
        <3>3. CASE i = n
            BY <1>2, <1>3, <1>7, <2>1, <3>2, <3>3, Zenon
        <3>4. CASE i # n
            <4>1. i \in 1..n - 1
                BY <1>2, <3>4
            <4>2. fs[i] = frames[i]
                BY <1>2, <2>1, <4>1
            <4> QED
                BY <1>3, <3>2, <4>2, Zenon
        <3> QED
            BY <3>3, <3>4
    <2> QED
        BY <2>1, <2>2 DEF Chain
<1> QED
    BY <1>1, <1>5, <1>6, <1>7

LEMMA CommaSays ==
    ASSUME PrintInv, NEW u, NEW a, NEW b, Scripted(u, a, b),
           Follows(u, a, b, step, buffer, frames, item), PrintComma
    PROVE  step' \in Walking => Follows(u, a, b, step', buffer', frames', item')
<1> DEFINE v == UpdateOffset(buffer)
           next == heap[Frame.current].next
           k == Formatted(1)
           comma == IF next = NULL THEN <<>> ELSE <<",">>
           s == IF next = NULL /\ heap[Frame.list].type = "[" THEN <<>> ELSE comma \o White(k)
           w == Counted(v, s, TRUE)
           frame == [Frame EXCEPT !.current = next]
<1>1. /\ step = "behind" /\ frames # <<>>
      /\ \/ buffer' = v /\ step' = "loop" /\ next = NULL
         \/ \E n : Write(v, n, w, "loop")
      /\ frames' = Append(Front(frames), frame)
    BY DEF PrintComma
<1>2. /\ Chain(u, frames)
      /\ Says(buffer.out \o buffer.last, Ahead(a, b, step, frames) - 1)
    BY <1>1, FollowsNow
<1>3. PICK l, c, x : l = Frame.list /\ c = Frame.current /\ x = next
    OBVIOUS
<1>4. /\ Frame = [list |-> l, current |-> c] /\ Subject(frames) = c
      /\ c \in 1..Len(heap) /\ Shown(u, a, b, c) /\ u[c] = l /\ u[c] # 0
    <2>1. Frame = [list |-> l, current |-> c]
        BY <1>1, <1>3, WalkPlaces
    <2>2. Subject(frames) = c /\ c \in 1..Len(heap) /\ Shown(u, a, b, c)
        BY <1>1, <1>2, <1>3, SubjectShown
    <2>3. c # NULL
        <3>1. c \in 1..Len(heap)
            BY <2>2
        <3> QED
            BY <3>1 DEF NULL
    <2>4. u[c] = l /\ u[c] # 0
        BY <1>1, <1>2, <1>3, <2>3, FramesShown
    <2> QED
        BY <2>1, <2>2, <2>4
<1>5. frame.list = l /\ frame.current = x
    BY <1>3, <1>4
<1> HIDE DEF frame
<1>6. PICK p, r : p = b[c] /\ r = p - 1
    OBVIOUS
<1>7. /\ p \in 1..Len(text) + 1
      /\ x = NULL => p = b[l] - 1
      /\ x # NULL => p <= Len(text) /\ text[p] = Comma /\ a[x] = p + 1 /\ u[x] = l
    BY <1>3, <1>4, <1>6 DEF Shown
<1>8. /\ TextInv /\ Len(text) \in Nat /\ buffer \in BufferTypes /\ k \in Nat
    <2>1. TextInv /\ Len(text) \in Nat
        BY DEF PrintInv, ParserInv, TextInv
    <2>2. step = "behind"
        BY <1>1
    <2> QED
        BY <2>1, <2>2, PrintingPlaces
<1>9. Says(buffer.out \o buffer.last, r)
    BY <1>1, <1>2, <1>4, <1>6 DEF Ahead
<1>10. v \in BufferTypes /\ Says(v.out, r) /\ v.last = <<>> /\ Says(v.out \o v.last, r)
    BY <1>8, <1>9, UpdateUsed, UpdateSays
<1> HIDE DEF v
<1>11. PICK q : q = IF x = NULL THEN r ELSE p
    OBVIOUS
<1>12. /\ s \in Seq(Pieces)
       /\ \/ Tight(s) = <<>> /\ q = r
          \/ q = r + 1 /\ q <= Len(text) /\ Tight(s) = <<Printed[q]>>
    <2> HIDE DEF k
    <2>1. White(k) \in Seq(Pieces) /\ Tight(White(k)) = <<>>
        BY <1>8, TightOfWhite
    <2>2. <<>> \o White(k) = White(k)
        BY <2>1, ConcatEmptySeq
    <2>3. CASE x = NULL
        <3>1. s = <<>> \/ s = White(k)
            BY <1>3, <2>2, <2>3
        <3> QED
            BY <1>11, <2>1, <2>3, <3>1, TightOfNone
    <2>4. CASE x # NULL
        <3>1. s = <<",">> \o White(k)
            BY <1>3, <2>4
        <3>2. "," \in Pieces /\ "," # "white"
            BY Widths
        <3>3. s \in Seq(Pieces) /\ Tight(s) = <<Comma>>
            BY <1>8, <3>1, <3>2, TightWithWhite DEF Comma
        <3> HIDE DEF s, next
        <3>4. q = r + 1 /\ q <= Len(text) /\ Printed[q] = Comma
            <4>1. q = r + 1 /\ q \in 1..Len(text) /\ text[q] = Comma
                BY <1>6, <1>7, <1>8, <1>11, <2>4
            <4>2. text[q] # "infinite"
                BY <4>1 DEF Comma
            <4> QED
                BY <1>8, <4>1, <4>2, PrintedIs
        <3> QED
            BY <3>3, <3>4
    <2> QED
        BY <2>3, <2>4
<1> HIDE DEF s
<1>13. w \in BufferTypes /\ Says(w.out \o w.last, q) /\ w.last = <<>>
    <2> HIDE DEF w
    <2>1. /\ Says(Counted(v, s, TRUE).out \o Counted(v, s, TRUE).last, q)
          /\ Counted(v, s, TRUE).last = <<>>
        BY <1>8, <1>10, <1>12, CountedSays
    <2> QED
        BY <1>10, <1>12, <2>1, CountedUsed DEF w
<1> HIDE DEF w
<1>14. \/ step' = "unwound"
       \/ step' = "loop" /\ Says(buffer'.out \o buffer'.last, q) /\ buffer'.last = <<>>
    <2>1. CASE buffer' = v /\ step' = "loop" /\ next = NULL
        BY <1>3, <1>10, <1>11, <2>1
    <2>2. CASE \E n : Write(v, n, w, "loop")
        BY <1>13, <2>2, WriteSays
    <2> QED
        BY <1>1, <2>1, <2>2
<1>15. Chain(u, frames') /\ frames' # <<>> /\ frames'[Len(frames')] = frame
    BY <1>1, <1>2, <1>3, <1>5, <1>7, ChainOff
<1>16. ASSUME step' = "loop", Says(buffer'.out \o buffer'.last, q), buffer'.last = <<>>
       PROVE  Follows(u, a, b, step', buffer', frames', item')
    <2>1. Ahead(a, b, step', frames') - 1 = q
        <3>1. Ahead(a, b, step', frames') = IF x = NULL THEN b[l] - 1 ELSE a[x]
            BY <1>5, <1>15, <1>16 DEF Ahead
        <3>2. (p + 1) - 1 = p
            BY <1>7, <1>8
        <3> QED
            BY <1>6, <1>7, <1>11, <3>1, <3>2
    <2> QED
        BY <1>15, <1>16, <2>1 DEF Follows
<1> QED
    BY <1>14, <1>16 DEF Walking

LEMMA CloseSays ==
    ASSUME PrintInv, NEW u, NEW a, NEW b, Scripted(u, a, b),
           Follows(u, a, b, step, buffer, frames, item), ClosePrinted
    PROVE  step' \in Walking => Follows(u, a, b, step', buffer', frames', item')
<1> DEFINE closer == Closer[heap[Frame.list].type]
           white == IF closer = "}" THEN Formatted(Depth - 1) ELSE 0
           s == White(white) \o <<closer>>
           w == Behind(buffer, s)
<1>1. /\ step = "loop" /\ Frame.current = NULL /\ frames' = Front(frames)
      /\ \E n : Write(buffer, n, w, "behind")
    BY DEF ClosePrinted
<1>2. /\ Chain(u, frames)
      /\ Says(buffer.out, Ahead(a, b, step, frames) - 1)
    BY <1>1, FollowsNow
<1>3. frames # <<>>
    BY <1>1 DEF PrintInv, WalkInv
<1>4. PICK l, p, r : l = Frame.list /\ p = b[l] - 1 /\ r = p - 1
    OBVIOUS
<1>5. /\ Frame = frames[Len(frames)] /\ l \in 1..Len(heap) /\ Shown(u, a, b, l)
      /\ heap[l].type \in Lists
    BY <1>2, <1>3, <1>4, FramesShown
<1>6. TextInv /\ Len(text) \in Nat /\ buffer \in BufferTypes
    <2>1. TextInv /\ Len(text) \in Nat
        BY DEF PrintInv, ParserInv, TextInv
    <2>2. step = "loop"
        BY <1>1
    <2> QED
        BY <2>1, <2>2, PrintingPlaces
<1>7. p \in 1..Len(text) /\ text[p] = closer
    <2>1. /\ Begins(a, l) \in 1..Len(text) /\ Begins(a, l) + 1 < b[l] /\ b[l] \in 1..Len(text) + 1
          /\ text[b[l] - 1] = Closer[heap[l].type]
        BY <1>5 DEF Shown
    <2> HIDE DEF s, w, white
    <2>2. p \in 1..Len(text)
        BY <1>4, <1>6, <2>1
    <2> QED
        BY <1>4, <2>1, <2>2
<1>8. Says(buffer.out, r)
    BY <1>1, <1>2, <1>4, <1>5 DEF Ahead
<1>9. s \in Seq(Pieces) /\ Tight(s) = <<Printed[p]>>
    <2>1. text[p] \in Pieces /\ text[p] # "white"
        BY <1>6, <1>7, TokensArePieces
    <2>2. white \in Nat
        <3>1. Depth - 1 \in Nat
            <4>1. Len(frames) \in Nat /\ Len(frames) \in 1..Len(frames)
                BY <1>3, WalkPlaces
            <4>2. Depth = Len(frames)
                BY DEF Depth
            <4> HIDE DEF white, s, w
            <4> QED
                BY <4>1, <4>2
        <3>2. step = "loop"
            BY <1>1
        <3>3. \A n \in Nat : Formatted(n) \in Nat
            BY <3>2, PrintingPlaces
        <3> QED
            BY <3>1, <3>3
    <2>3. Printed[p] = text[p]
        <3>1. text[p] # "infinite"
            <4>1. PICK x : x = heap[l].type
                OBVIOUS
            <4>2. x \in Lists /\ text[p] = Closer[x]
                BY <1>4, <1>5, <1>7, <4>1
            <4>3. Closer[x] # "infinite"
                BY <4>2 DEF Lists, Closer
            <4> QED
                BY <4>2, <4>3
        <3> QED
            BY <1>6, <1>7, <3>1, PrintedIs
    <2> HIDE DEF white, closer
    <2> QED
        BY <1>7, <2>1, <2>2, <2>3, TightWithWhite
<1> HIDE DEF s, closer, white
<1>10. p = r + 1 /\ p <= Len(text) /\ r = p - 1
    BY <1>4, <1>6, <1>7
<1>11. w \in BufferTypes /\ Says(w.out \o w.last, p)
    <2> HIDE DEF w
    <2>1. Says(Behind(buffer, s).out \o Behind(buffer, s).last, p)
        BY <1>6, <1>8, <1>9, <1>10, BehindSays
    <2> QED
        BY <1>6, <1>9, <2>1, BehindUsed DEF w
<1> HIDE DEF w
<1>12. \/ step' = "unwound"
       \/ step' = "behind" /\ buffer'.out = w.out /\ buffer'.last = w.last
    BY <1>1, <1>11, WriteSays
<1>13. Chain(u, frames') /\ Subject(frames') = l
    BY <1>1, <1>2, <1>3, <1>4, ChainOff
<1>14. ASSUME step' = "behind", buffer'.out = w.out, buffer'.last = w.last
       PROVE  Follows(u, a, b, step', buffer', frames', item')
    <2>1. Ahead(a, b, step', frames') - 1 = p
        BY <1>4, <1>13, <1>14 DEF Ahead
    <2> QED
        BY <1>11, <1>13, <1>14, <2>1 DEF Follows
<1> QED
    BY <1>12, <1>14 DEF Walking

LEMMA ReturnSays ==
    ASSUME PrintInv, NEW u, NEW a, NEW b, Scripted(u, a, b),
           Follows(u, a, b, step, buffer, frames, item), Return
    PROVE  step' \in Walking => Follows(u, a, b, step', buffer', frames', item')
<1> DEFINE v == UpdateOffset(buffer)
<1>1. /\ step = "behind" /\ frames = <<>> /\ frames' = frames
      /\ \/ step' = "unwound"
         \/ step' = "printed" /\ buffer' = buffer
         \/ step' = "printed" /\ buffer' = [v EXCEPT !.length = Size(v.out) + 1]
    BY DEF Return
<1>2. /\ Chain(u, frames)
      /\ Says(buffer.out \o buffer.last, Ahead(a, b, step, frames) - 1)
    BY <1>1, FollowsNow
<1>3. PICK r : r = Ahead(a, b, step, frames) - 1
    OBVIOUS
<1>4. buffer \in BufferTypes /\ buffer.nul
    BY <1>1, PrintingPlaces DEF PrintInv, BufferInv
<1>5. v \in BufferTypes /\ Says(v.out \o v.last, r) /\ v.nul
    BY <1>2, <1>3, <1>4, UpdateUsed, UpdateSays
<1> HIDE DEF v
<1>6. step' = "unwound" \/ (step' = "printed" /\ Says(buffer'.out \o buffer'.last, r) /\ buffer'.nul)
    <2>1. CASE step' = "printed" /\ buffer' = [v EXCEPT !.length = Size(v.out) + 1]
        <3>1. buffer'.out = v.out /\ buffer'.last = v.last /\ buffer'.nul = v.nul
            BY <1>5, <2>1 DEF BufferTypes
        <3> QED
            BY <1>5, <2>1, <3>1
    <2> QED
        BY <1>1, <1>2, <1>3, <1>4, <2>1
<1>7. ASSUME step' = "printed", Says(buffer'.out \o buffer'.last, r), buffer'.nul
      PROVE  Follows(u, a, b, step', buffer', frames', item')
    <2>1. Ahead(a, b, step', frames') - 1 = r
        BY <1>1, <1>3, <1>7 DEF Ahead
    <2> QED
        BY <1>1, <1>2, <1>7, <2>1 DEF Follows
<1> QED
    BY <1>6, <1>7 DEF Walking

-----------------------------------------------------------------------------
(* What the tokens that were read take *)

\* f gives what the first i tokens of the text take, and how many lists are open there.
Reckons(f, format, n) ==
    f = [i \in 0..n |-> IF i = 0 THEN [size |-> 0, depth |-> 0] ELSE Reckon(f[i - 1], format, i)]

LEMMA ReckonedExists ==
    ASSUME NEW format
    PROVE  \A n \in Nat : \E f : Reckons(f, format, n)
<1> DEFINE T == {n \in Nat : \E f : Reckons(f, format, n)}
           start == [size |-> 0, depth |-> 0]
<1>1. 0 \in T
    <2>1. Reckons([i \in 0..0 |-> start], format, 0)
        BY DEF Reckons
    <2> QED
        BY <2>1
<1>2. ASSUME NEW n \in Nat, n \in T
      PROVE  n + 1 \in T
    <2>1. PICK f : Reckons(f, format, n)
        BY <1>2
    <2> DEFINE g == [i \in 0..(n + 1) |-> IF i = n + 1 THEN Reckon(f[n], format, n + 1) ELSE f[i]]
    <2>2. \A i \in 0..n : f[i] = IF i = 0 THEN start ELSE Reckon(f[i - 1], format, i)
        BY <2>1 DEF Reckons
    <2> HIDE DEF start
    <2>3. ASSUME NEW i \in 0..(n + 1)
          PROVE  g[i] = IF i = 0 THEN start ELSE Reckon(g[i - 1], format, i)
        <3>1. CASE i = n + 1
            <4>1. i # 0 /\ i - 1 = n /\ n \in 0..(n + 1) /\ n # n + 1
                BY <3>1
            <4>2. g[i] = Reckon(f[n], format, n + 1) /\ g[n] = f[n]
                BY <3>1, <4>1
            <4> HIDE DEF g
            <4> QED
                BY <3>1, <4>1, <4>2
        <3>2. CASE i = 0
            <4>1. i \in 0..n /\ i # n + 1
                BY <3>2
            <4>2. g[i] = f[i] /\ f[i] = start
                BY <2>2, <3>2, <4>1
            <4> HIDE DEF g
            <4> QED
                BY <3>2, <4>2
        <3>3. CASE i # 0 /\ i # n + 1
            <4>1. i \in 0..n /\ i - 1 \in 0..(n + 1) /\ i - 1 # n + 1
                BY <3>3
            <4>2. g[i] = f[i] /\ g[i - 1] = f[i - 1] /\ f[i] = Reckon(f[i - 1], format, i)
                BY <2>2, <3>3, <4>1
            <4> HIDE DEF g
            <4> QED
                BY <3>3, <4>2
        <3> QED
            BY <3>1, <3>2, <3>3
    <2>4. g = [i \in 0..(n + 1) |-> g[i]]
        OBVIOUS
    <2> HIDE DEF g
    <2>5. Reckons(g, format, n + 1)
        BY <2>3, <2>4 DEF Reckons, start
    <2> QED
        BY <2>5
<1> HIDE DEF T
<1>3. \A n \in Nat : n \in T
    BY <1>1, <1>2, AllNumbers
<1> QED
    BY <1>3 DEF T

LEMMA ReckonedIs ==
    ASSUME NEW format, Len(text) \in Nat
    PROVE  /\ Reckoned(format)[0] = [size |-> 0, depth |-> 0]
           /\ \A i \in 1..Len(text) :
                  Reckoned(format)[i] = Reckon(Reckoned(format)[i - 1], format, i)
<1> DEFINE P(f) == f = [i \in 0..Len(text) |->
                           IF i = 0 THEN [size |-> 0, depth |-> 0] ELSE Reckon(f[i - 1], format, i)]
           f == Reckoned(format)
<1>1. PICK h : P(h)
    BY ReckonedExists DEF Reckons
<1>2. P(CHOOSE x : P(x))
    <2> HIDE DEF P
    <2> QED
        BY <1>1, Zenon
<1>3. f = CHOOSE x : P(x)
    BY DEF Reckoned
<1>4. P(f)
    <2> HIDE DEF P, f
    <2> QED
        BY <1>2, <1>3, Zenon
<1> HIDE DEF f
<1>5. \A i \in 0..Len(text) :
          f[i] = IF i = 0 THEN [size |-> 0, depth |-> 0] ELSE Reckon(f[i - 1], format, i)
    BY <1>4
<1> HIDE DEF P
<1>6. \A i \in 1..Len(text) : i \in 0..Len(text) /\ i # 0
    OBVIOUS
<1>7. 0 \in 0..Len(text)
    OBVIOUS
<1>8. f[0] = [size |-> 0, depth |-> 0] /\ \A i \in 1..Len(text) : f[i] = Reckon(f[i - 1], format, i)
    BY <1>5, <1>6, <1>7
<1> QED
    BY <1>8 DEF f

\* What is in front of the token at n, as it is told apart by Reckon.
DepthAt(n) == Reckoned(caller.format)[n].depth
SizeAt(n) == Reckoned(caller.format)[n].size

\* The token at n, given the depth in front of it.
LEMMA TokenReckoned ==
    ASSUME TextInv, NEW n \in 1..Len(text)
    PROVE  /\ DepthAt(n) = Deepened(DepthAt(n - 1), n)
           /\ SizeAt(n) = (SizeAt(n - 1) + Width[text[n]])
                           + Formatted(TabsAt(n, DepthAt(n)) + SpacesAt(n))
<1> DEFINE R == Reckoned(caller.format)
<1>1. R[n] = Reckon(R[n - 1], caller.format, n)
    BY ReckonedIs DEF TextInv
<1> HIDE DEF R
<1>2. R[n].depth = Deepened(R[n - 1].depth, n)
    BY <1>1 DEF Reckon
<1>3. R[n].size = (R[n - 1].size + Width[text[n]])
                       + Formatted(TabsAt(n, R[n].depth) + SpacesAt(n))
    <2>1. R[n].size = (R[n - 1].size + Width[text[n]])
                       + (IF caller.format THEN TabsAt(n, R[n].depth) + SpacesAt(n) ELSE 0)
        BY <1>1, <1>2 DEF Reckon
    <2> QED
        BY <2>1, Zenon DEF Formatted
<1> QED
    BY <1>2, <1>3 DEF R, DepthAt, SizeAt

\* What Reckon makes of each kind of token.
LEMMA ListReckoned ==
    ASSUME NEW n, text[n] \in Lists, NEW d
    PROVE  /\ Deepened(d, n) = d + 1 /\ TabsAt(n, d + 1) = 0
           /\ SpacesAt(n) = IF text[n] = Brace THEN 1 ELSE 0
<1>1. DOMAIN Closer = Lists
    BY DEF Closer, Lists
<1>2. Deepened(d, n) = d + 1
    BY <1>1 DEF Deepened
<1>3. text[n] # "}" /\ text[n] # "string" /\ text[n] \notin {",", ":"}
    BY DEF Lists
<1>4. TabsAt(n, d + 1) = 0
    BY <1>3, Zenon DEF TabsAt
<1>5. SpacesAt(n) = IF text[n] = Brace THEN 1 ELSE 0
    <2>1. CASE text[n] = Brace
        BY <2>1, Zenon DEF SpacesAt, Brace
    <2>2. CASE text[n] # Brace
        BY <1>3, <2>2, Zenon DEF SpacesAt, Brace
    <2> QED
        BY <2>1, <2>2, Zenon
<1> QED
    BY <1>2, <1>4, <1>5

LEMMA MarkReckoned ==
    ASSUME NEW n, text[n] \in {Comma, Colon}, NEW d
    PROVE  Deepened(d, n) = d /\ TabsAt(n, d) = 0 /\ SpacesAt(n) = 1
<1>1. /\ text[n] \notin {"[", "{"} /\ text[n] \notin {"]", "}"}
      /\ text[n] # "string" /\ text[n] \in {"{", ",", ":"}
    BY DEF Comma, Colon
<1>2. text[n] \notin DOMAIN Closer
    BY <1>1 DEF Closer
<1> QED
    BY <1>1, <1>2, Zenon DEF Deepened, TabsAt, SpacesAt

LEMMA ScalarReckoned ==
    ASSUME NEW n, text[n] \in Scalars, NEW d
    PROVE  /\ Deepened(d, n) = d /\ SpacesAt(n) = 0
           /\ TokenAt(n + 1) # Colon => TabsAt(n, d) = 0
           /\ text[n] = "string" /\ TokenAt(n + 1) = Colon => TabsAt(n, d) = d
<1>1. /\ text[n] \notin {"[", "{"} /\ text[n] \notin {"]", "}"}
      /\ text[n] \notin {"{", ",", ":"}
    BY DEF Scalars, Numerals, Literals
<1>2. text[n] # "}"
    BY <1>1
<1>3. text[n] \notin DOMAIN Closer
    BY <1>1 DEF Closer
<1> QED
    BY <1>1, <1>2, <1>3, Zenon DEF Deepened, TabsAt, SpacesAt, Colon

LEMMA CloserReckoned ==
    ASSUME NEW n, NEW x \in Lists, text[n] = Closer[x], NEW d
    PROVE  /\ d > 0 => Deepened(d, n) = d - 1
           /\ TabsAt(n, d) = IF x = Brace THEN d ELSE 0
           /\ SpacesAt(n) = IF x = Brace /\ TokenAt(n - 1) # Brace THEN 1 ELSE 0
<1>1. \/ x = Brace /\ text[n] = "}"
      \/ x # Brace /\ text[n] = "]"
    BY DEF Lists, Closer, Brace
<1>2. /\ text[n] \notin {"[", "{"} /\ text[n] \in {"]", "}"}
      /\ text[n] # "string" /\ text[n] \notin {"{", ",", ":"}
    BY <1>1
<1>3. text[n] \notin DOMAIN Closer
    BY <1>2 DEF Closer
<1>4. d > 0 => Deepened(d, n) = d - 1
    BY <1>2, <1>3, Zenon DEF Deepened
<1>5. CASE x = Brace /\ text[n] = "}"
    BY <1>2, <1>4, <1>5, Zenon DEF TabsAt, SpacesAt, Brace
<1>6. CASE x # Brace /\ text[n] = "]"
    <2>1. text[n] # "}"
        BY <1>6
    <2> QED
        BY <1>2, <1>4, <1>6, <2>1, Zenon DEF TabsAt, SpacesAt
<1> QED
    BY <1>1, <1>5, <1>6

LEMMA ReckonedNat ==
    ASSUME TextInv
    PROVE  \A n \in 0..Len(text) : DepthAt(n) \in Nat /\ SizeAt(n) \in Nat
<1> DEFINE T == {n \in Nat : n <= Len(text) => DepthAt(n) \in Nat /\ SizeAt(n) \in Nat}
<1>1. Len(text) \in Nat
    BY DEF TextInv
<1>2. 0 \in T
    BY <1>1, ReckonedIs DEF DepthAt, SizeAt
<1>3. ASSUME NEW n \in Nat, n \in T
      PROVE  n + 1 \in T
    <2>1. SUFFICES ASSUME n + 1 <= Len(text)
                   PROVE  DepthAt(n + 1) \in Nat /\ SizeAt(n + 1) \in Nat
        OBVIOUS
    <2>2. PICK m : m = n + 1
        OBVIOUS
    <2>3. m \in 1..Len(text) /\ m - 1 = n /\ DepthAt(n) \in Nat /\ SizeAt(n) \in Nat
        BY <1>1, <1>3, <2>1, <2>2
    <2>4. /\ DepthAt(m) = Deepened(DepthAt(n), m)
          /\ SizeAt(m) = (SizeAt(n) + Width[text[m]])
                          + Formatted(TabsAt(m, DepthAt(m)) + SpacesAt(m))
        BY <2>3, TokenReckoned
    <2>5. DepthAt(m) \in Nat
        <3>1. PICK d : d = DepthAt(n)
            OBVIOUS
        <3>2. Deepened(d, m) \in {d, d + 1} \/ (d > 0 /\ Deepened(d, m) = d - 1)
            BY DEF Deepened
        <3>3. d \in Nat
            BY <2>3, <3>1
        <3> QED
            BY <2>4, <3>1, <3>2, <3>3
    <2>6. TabsAt(m, DepthAt(m)) \in Nat /\ SpacesAt(m) \in Nat
        BY <2>5 DEF TabsAt, SpacesAt
    <2>7. Width[text[m]] \in Nat
        BY <2>3, TokensArePieces, Widths
    <2>8. Formatted(TabsAt(m, DepthAt(m)) + SpacesAt(m)) \in Nat
        BY <2>6 DEF Formatted
    <2> QED
        BY <2>2, <2>3, <2>4, <2>5, <2>7, <2>8
<1> HIDE DEF T
<1>4. \A n \in Nat : n \in T
    BY <1>2, <1>3, AllNumbers
<1> QED
    BY <1>1, <1>4 DEF T

\* The size of a token that was read is in that of all of them.
LEMMA ReckonedGrows ==
    ASSUME TextInv, NEW m \in 0..Len(text)
    PROVE  \A n \in m..Len(text) : SizeAt(m) <= SizeAt(n)
<1> DEFINE T == {n \in Nat : m <= n /\ n <= Len(text) => SizeAt(m) <= SizeAt(n)}
<1>1. Len(text) \in Nat /\ m \in Nat /\ m <= Len(text)
    BY DEF TextInv
<1>2. \A n \in 0..Len(text) : DepthAt(n) \in Nat /\ SizeAt(n) \in Nat
    BY ReckonedNat
<1>3. 0 \in T
    <2>1. m <= 0 => m = 0
        BY <1>1
    <2>2. SizeAt(m) <= SizeAt(m)
        BY <1>2
    <2> QED
        BY <2>1, <2>2
<1>4. ASSUME NEW n \in Nat, n \in T
      PROVE  n + 1 \in T
    <2>1. SUFFICES ASSUME m <= n + 1, n + 1 <= Len(text)
                   PROVE  SizeAt(m) <= SizeAt(n + 1)
        OBVIOUS
    <2>2. PICK k : k = n + 1
        OBVIOUS
    <2>3. CASE m = k
        BY <1>2, <2>2, <2>3
    <2>4. CASE m # k
        <3>1. /\ k \in 1..Len(text) /\ k \in 0..Len(text) /\ n \in 0..Len(text) /\ k - 1 = n
              /\ m <= n /\ n <= Len(text)
            BY <1>1, <2>1, <2>2, <2>4
        <3>2. SizeAt(m) <= SizeAt(n)
            BY <1>4, <3>1
        <3>3. SizeAt(k) = (SizeAt(n) + Width[text[k]])
                           + Formatted(TabsAt(k, DepthAt(k)) + SpacesAt(k))
            BY <3>1, TokenReckoned
        <3>4. DepthAt(k) \in Nat /\ SizeAt(n) \in Nat /\ SizeAt(m) \in Nat
            BY <1>2, <3>1
        <3>5. TabsAt(k, DepthAt(k)) \in Nat /\ SpacesAt(k) \in Nat
            BY <3>4 DEF TabsAt, SpacesAt
        <3>6. Width[text[k]] \in Nat
            BY <3>1, TokensArePieces, Widths
        <3>7. Formatted(TabsAt(k, DepthAt(k)) + SpacesAt(k)) \in Nat
            BY <3>5 DEF Formatted
        <3> QED
            BY <2>2, <3>2, <3>3, <3>4, <3>6, <3>7
    <2> QED
        BY <2>3, <2>4
<1> HIDE DEF T
<1>5. \A n \in Nat : n \in T
    BY <1>3, <1>4, AllNumbers
<1>6. \A n \in m..Len(text) : n \in Nat /\ m <= n /\ n <= Len(text)
    BY <1>1
<1> QED
    BY <1>5, <1>6 DEF T

-----------------------------------------------------------------------------
(* Why printing fails *)

\* What is written beyond the tokens up to p: the tabs of a name, and the end of a line
\* before a closing brace.
Gap(p, st, fr) ==
    IF st = "key" THEN Formatted(Len(fr))
    ELSE IF /\ st = "loop" /\ fr[Len(fr)].current = NULL
            /\ heap[fr[Len(fr)].list].type = Brace /\ text[p] # Brace
         THEN Formatted(1) ELSE 0

\* What was printed takes what the tokens up to p do, within the block.
Measures(p, st, buf, fr) ==
    /\ p \in 0..Len(text) /\ DepthAt(p) = Len(fr)
    /\ Size(buf.out) + Size(buf.last) = SizeAt(p) + Gap(p, st, fr)
    /\ buf.ok /\ (buf.length > 0 => Size(buf.out) < buf.length)

\* The reasons of FailsForReason.
Excused(buf) ==
    \/ buf.refused
    \/ PrintedSize + 2 > IntMax
    \/ caller.name = "preallocated" /\ buf.length < PrintedSize + 2

LEMMA WhiteFormatted ==
    /\ Formatted(0) = 0
    /\ \A m, n \in Nat : /\ Formatted(n) \in Nat
                         /\ Formatted(m + n) = Formatted(m) + Formatted(n)
                         /\ Formatted(n) <= Formatted(m + n)
BY DEF Formatted

LEMMA BehindSizes ==
    ASSUME NEW b \in BufferTypes, NEW s \in Seq(Pieces)
    PROVE  /\ Behind(b, s) \in BufferTypes /\ Behind(b, s).ok = b.ok
           /\ Size(Behind(b, s).out) = Size(b.out) /\ Size(Behind(b, s).last) = Size(s)
<1>1. Behind(b, s).ok = b.ok
    BY DEF Behind, BufferTypes
<1> QED
    BY <1>1, BehindUsed

LEMMA CountedSizes ==
    ASSUME NEW b \in BufferTypes, NEW s \in Seq(Pieces), NEW nul \in BOOLEAN
    PROVE  /\ Counted(b, s, nul) \in BufferTypes /\ Counted(b, s, nul).ok = b.ok
           /\ Size(Counted(b, s, nul).out) = Size(b.out) + Size(s)
           /\ Size(Counted(b, s, nul).last) = 0
<1> DEFINE w == Counted(b, s, nul)
<1>1. w \in BufferTypes
    BY CountedUsed
<1>2. w.ok = b.ok /\ w.out = b.out \o s /\ w.last = <<>>
    BY DEF Counted, BufferTypes
<1>3. Size(b.out \o s) = Size(b.out) + Size(s) /\ Size(<<>>) = 0
    BY BufferSizes, SizeJoined, SizeOfNone
<1> HIDE DEF w
<1>4. Size(w.out) = Size(b.out) + Size(s) /\ Size(w.last) = 0
    BY <1>2, <1>3, Zenon
<1> QED
    BY <1>1, <1>2, <1>4 DEF w

LEMMA UpdateSizes ==
    ASSUME NEW b \in BufferTypes
    PROVE  /\ UpdateOffset(b) \in BufferTypes /\ UpdateOffset(b).ok = b.ok
           /\ UpdateOffset(b).length = b.length
           /\ Size(UpdateOffset(b).out) = Size(b.out) + Size(b.last)
           /\ Size(UpdateOffset(b).last) = 0
<1> DEFINE w == UpdateOffset(b)
<1>1. w.ok = b.ok /\ w.last = <<>>
    BY DEF UpdateOffset, BufferTypes
<1>2. Size(w.last) = 0
    <2> HIDE DEF w
    <2> QED
        BY <1>1, SizeOfNone, Zenon
<1> QED
    BY <1>1, <1>2, UpdateUsed

\* A call of ensure for no more than is printed up to z fails for a reason.
LEMMA EnsuredMeasures ==
    ASSUME TextInv, offset \in 1..Len(text) + 1,
           NEW b \in BufferTypes, b.ok, b.length > 0 => Size(b.out) < b.length,
           NEW n \in Nat, NEW z \in 0..Len(text), z < offset, n + Size(b.out) <= SizeAt(z) + 1,
           NEW c \in Ensured(b, n)
    PROVE  \/ ~c.ok /\ Excused(c)
           \/ c.ok /\ n + Size(b.out) < c.length
<1> DEFINE total == Needed(b, n)
<1>1. /\ Len(text) \in Nat /\ IntMax \in Nat /\ Size(b.out) \in Nat /\ b.length \in Nat
    BY BufferSizes DEF TextInv
<1>2. PrintedSize \in Nat /\ SizeAt(z) \in Nat /\ SizeAt(z) <= PrintedSize
    <2>1. offset - 1 \in 0..Len(text) /\ offset - 1 \in z..Len(text)
        BY <1>1
    <2>2. PrintedSize = SizeAt(offset - 1)
        BY DEF PrintedSize, SizeAt
    <2> QED
        BY <2>1, <2>2, ReckonedNat, ReckonedGrows
<1>3. total = n + Size(b.out) + 1 /\ total \in Nat
    BY <1>1 DEF Needed
<1> DEFINE x == Size(b.out)
           y == PrintedSize
           e == SizeAt(z)
<1>4. /\ x \in Nat /\ y \in Nat /\ e \in Nat /\ e <= y /\ n + x <= e + 1 /\ total = n + x + 1
      /\ b.length > 0 => x < b.length
    BY <1>1, <1>2, <1>3
<1> HIDE DEF x, y, e
<1>5. total <= y + 2 /\ n <= y + 1
    <2> HIDE DEF total
    <2> QED
        BY <1>4
<1>6. CASE c = [b EXCEPT !.ok = FALSE] /\ n > IntMax
    <2>1. y + 2 > IntMax
        BY <1>1, <1>4, <1>5, <1>6, SMTT(30)
    <2>2. ~c.ok
        BY <1>6 DEF BufferTypes
    <2> QED
        BY <2>1, <2>2 DEF Excused, y
<1>7. CASE c = b /\ Fits(b, total)
    <2>1. n + x < b.length
        BY <1>1, <1>4, <1>7 DEF Fits
    <2> QED
        BY <1>7, <2>1 DEF x
<1>8. CASE /\ c = [b EXCEPT !.ok = FALSE] /\ ~Fits(b, total)
           /\ caller.name = "preallocated" \/ total > IntMax
    <2>1. ~c.ok /\ c.length = b.length
        BY <1>8 DEF BufferTypes
    <2>2. b.length < y + 2
        <3> HIDE DEF total
        <3>1. total > b.length
            BY <1>1, <1>3, <1>8 DEF Fits
        <3> QED
            BY <1>1, <1>4, <1>5, <1>3, <3>1
    <2>3. total > IntMax => y + 2 > IntMax
        <3> HIDE DEF total
        <3> QED
            BY <1>1, <1>3, <1>4, <1>5
    <2> QED
        BY <1>8, <2>1, <2>2, <2>3 DEF Excused, y
<1>9. CASE c = [b EXCEPT !.length = NewSize(total)] /\ ~(total > IntMax)
    <2>1. c.ok /\ c.length = NewSize(total)
        BY <1>9 DEF BufferTypes
    <2>2. total <= NewSize(total)
        <3> HIDE DEF total
        <3>1. total \in Nat /\ total <= IntMax
            BY <1>1, <1>3, <1>9
        <3> QED
            BY <1>1, <3>1 DEF NewSize
    <2>3. NewSize(total) \in Nat
        <3> HIDE DEF total
        <3> QED
            BY <1>1, <1>3 DEF NewSize
    <2>4. n + x < c.length
        <3> HIDE DEF total
        <3> QED
            BY <1>4, <2>1, <2>2, <2>3
    <2> QED
        BY <2>1, <2>4 DEF x
<1>10. CASE c = GrowthRefused(b)
    <2>1. ~c.ok /\ c.refused
        BY <1>10 DEF GrowthRefused, BufferTypes
    <2> QED
        BY <2>1 DEF Excused
<1>11. ~(b.length > 0 /\ x >= b.length)
    BY <1>1, <1>4
<1> QED
    BY <1>6, <1>7, <1>8, <1>9, <1>10, <1>11 DEF Ensured, x

\* So does a call that writes; if it does not fail, what was printed takes what it should.
LEMMA WriteMeasures ==
    ASSUME TextInv, offset \in 1..Len(text) + 1,
           NEW b \in BufferTypes, b.ok, b.length > 0 => Size(b.out) < b.length,
           NEW n \in Nat, NEW z \in 0..Len(text), z < offset, n + Size(b.out) <= SizeAt(z) + 1,
           NEW w \in BufferTypes, w.ok, Size(w.out) <= Size(b.out) + n,
           NEW next, NEW q \in 0..Len(text), NEW fr, DepthAt(q) = Len(fr),
           Size(w.out) + Size(w.last) = SizeAt(q) + Gap(q, next, fr),
           Write(b, n, w, next)
    PROVE  \/ step' = "unwound" /\ Excused(buffer')
           \/ step' = next /\ Measures(q, next, buffer', fr)
<1>1. PICK c \in Ensured(b, n) :
          /\ buffer' = IF c.ok THEN [w EXCEPT !.length = c.length] ELSE c
          /\ step' = IF c.ok THEN next ELSE "unwound"
    BY DEF Write
<1>2. \/ ~c.ok /\ Excused(c)
      \/ c.ok /\ n + Size(b.out) < c.length
    BY EnsuredMeasures
<1>3. CASE ~c.ok /\ Excused(c)
    BY <1>1, <1>3
<1>4. CASE c.ok /\ n + Size(b.out) < c.length
    <2>1. buffer' = [w EXCEPT !.length = c.length] /\ step' = next
        BY <1>1, <1>4
    <2>2. buffer'.ok /\ buffer'.out = w.out /\ buffer'.last = w.last /\ buffer'.length = c.length
        BY <2>1 DEF BufferTypes
    <2>3. PICK x, y, m : x = Size(b.out) /\ y = Size(w.out) /\ m = c.length
        OBVIOUS
    <2>4. c.length \in Nat
        <3>1. b.length \in Nat /\ IntMax \in Nat /\ Size(b.out) \in Nat
            BY BufferSizes
        <3>2. Needed(b, n) \in Nat
            BY <3>1 DEF Needed
        <3>3. NewSize(Needed(b, n)) \in Nat
            BY <3>1, <3>2 DEF NewSize
        <3>4. \/ c = b \/ c = [b EXCEPT !.ok = FALSE] \/ c = [b EXCEPT !.length = NewSize(Needed(b, n))]
              \/ c = GrowthRefused(b)
            BY DEF Ensured
        <3>5. CASE c = GrowthRefused(b)
            <4>1. c.length = 0
                BY <3>5 DEF BufferTypes, GrowthRefused
            <4> QED
                BY <4>1
        <3>6. CASE c = [b EXCEPT !.length = NewSize(Needed(b, n))]
            <4>1. c.length = NewSize(Needed(b, n))
                BY <3>6 DEF BufferTypes
            <4> QED
                BY <3>3, <4>1
        <3>7. CASE c = b \/ c = [b EXCEPT !.ok = FALSE]
            <4>1. c.length = b.length
                BY <3>7 DEF BufferTypes
            <4> QED
                BY <3>1, <4>1
        <3> QED
            BY <3>4, <3>5, <3>6, <3>7
    <2>5. x \in Nat /\ y \in Nat
        BY <2>3, BufferSizes
    <2>6. y < m
        BY <1>4, <2>3, <2>4, <2>5
    <2> QED
        BY <2>1, <2>2, <2>3, <2>6 DEF Measures
<1> QED
    BY <1>2, <1>3, <1>4

\* The place where printing is has what was printed behind it.
Measured(a, b, st, buf, fr) == Measures(Ahead(a, b, st, fr) - 1, st, buf, fr)

\* What follows a step: the call unwinds for a reason, or printing goes on.
Onward(a, b) ==
    \/ step' = "unwound" /\ Excused(buffer')
    \/ step' \in Walking /\ Measured(a, b, step', buffer', frames')

LEMMA MeasuredNow ==
    ASSUME PrintInv, NEW u, NEW a, NEW b, Scripted(u, a, b),
           Follows(u, a, b, step, buffer, frames, item), Measured(a, b, step, buffer, frames),
           step \in {"value", "loop", "key", "colon", "behind"}
    PROVE  /\ TextInv /\ Len(text) \in Nat /\ offset \in 1..Len(text) + 1
           /\ Chain(u, frames) /\ Len(frames) \in Nat
           /\ buffer \in BufferTypes /\ Size(buffer.out) \in Nat /\ Size(buffer.last) \in Nat
           /\ step # "behind" => Size(buffer.last) = 0
           /\ \A n \in 0..Len(text) : DepthAt(n) \in Nat /\ SizeAt(n) \in Nat
           /\ Measures(Ahead(a, b, step, frames) - 1, step, buffer, frames)
           /\ buffer.ok /\ (buffer.length > 0 => Size(buffer.out) < buffer.length)
<1>1. TextInv /\ Len(text) \in Nat
    BY DEF PrintInv, ParserInv, TextInv
<1>2. offset \in 1..Len(text) + 1
    BY DEF Scripted, Shown
<1>3. buffer \in BufferTypes /\ Size(buffer.out) \in Nat /\ Size(buffer.last) \in Nat
    BY PrintingPlaces, BufferSizes
<1>4. step # "behind" => Size(buffer.last) = 0
    BY SizeOfNone DEF Follows
<1>5. Chain(u, frames) /\ Len(frames) \in Nat
    BY WalkPlaces DEF Follows
<1>6. \A n \in 0..Len(text) : DepthAt(n) \in Nat /\ SizeAt(n) \in Nat
    BY <1>1, ReckonedNat
<1>7. Measures(Ahead(a, b, step, frames) - 1, step, buffer, frames)
    BY DEF Measured
<1>8. buffer.ok /\ (buffer.length > 0 => Size(buffer.out) < buffer.length)
    BY <1>7 DEF Measures
<1> QED
    BY <1>1, <1>2, <1>3, <1>4, <1>5, <1>6, <1>7, <1>8

\* Only a name is followed by a colon.
LEMMA NoName ==
    ASSUME PrintInv, NEW u, NEW a, NEW b, Scripted(u, a, b), Chain(u, frames), frames # <<>>,
           step = "value", NEW n, n = Subject(frames)
    PROVE  TokenAt(b[n]) # Colon
<1>1. n = Frame.current /\ n \in 1..Len(heap) /\ Shown(u, a, b, n) /\ n # NULL
    <2>1. n = Frame.current /\ n \in 1..Len(heap) /\ Shown(u, a, b, n)
        BY SubjectShown
    <2> QED
        BY <2>1 DEF NULL
<1>2. PICK l : l = Frame.list
    OBVIOUS
<1>3. Shown(u, a, b, l) /\ heap[l].type \in Lists /\ u[n] = l /\ u[n] # 0
    BY <1>1, <1>2, FramesShown
<1>4. Len(text) \in Nat /\ Len(text) = Len(text) /\ DOMAIN text = 1..Len(text)
    BY DEF PrintInv, ParserInv, TextInv
<1>5. CASE heap[n].next = NULL
    <2>1. b[n] = b[l] - 1 /\ text[b[l] - 1] = Closer[heap[l].type]
        BY <1>1, <1>3, <1>5 DEF Shown
    <2>2. Closer[heap[l].type] # Colon /\ "end" # Colon
        BY <1>3 DEF Lists, Closer, Colon
    <2>3. text[b[n]] # Colon
        BY <2>1, <2>2, Zenon
    <2> QED
        BY <2>2, <2>3, Zenon DEF TokenAt
<1>6. CASE heap[n].next # NULL
    <2>1. text[b[n]] = Comma
        BY <1>1, <1>6 DEF Shown
    <2>2. Comma # Colon /\ "end" # Colon
        BY DEF Comma, Colon
    <2> QED
        BY <2>1, <2>2, Zenon DEF TokenAt
<1> QED
    BY <1>5, <1>6

LEMMA ScalarMeasures ==
    ASSUME PrintInv, NEW u, NEW a, NEW b, Scripted(u, a, b),
           Follows(u, a, b, step, buffer, frames, item), Measured(a, b, step, buffer, frames),
           PrintScalar
    PROVE  Onward(a, b)
<1> DEFINE s == <<PrintedAs(heap[item].type)>>
           w == Behind(buffer, s)
<1>1. /\ step = "value" /\ heap[item].type \in Scalars
      /\ Write(buffer, Size(s) + 1, w, "behind")
      /\ frames' = frames
    BY DEF PrintScalar
<1>2. /\ TextInv /\ Len(text) \in Nat /\ offset \in 1..Len(text) + 1
      /\ Chain(u, frames) /\ Len(frames) \in Nat
      /\ buffer \in BufferTypes /\ Size(buffer.out) \in Nat /\ Size(buffer.last) = 0
      /\ \A n \in 0..Len(text) : DepthAt(n) \in Nat /\ SizeAt(n) \in Nat
      /\ Measures(Ahead(a, b, step, frames) - 1, step, buffer, frames)
      /\ buffer.ok /\ (buffer.length > 0 => Size(buffer.out) < buffer.length)
    <2>1. step \in {"value", "loop", "key", "colon", "behind"} /\ step # "behind"
        BY <1>1
    <2> HIDE DEF w, s
    <2> QED
        BY <2>1, MeasuredNow
<1>3. PICK n : n = item
    OBVIOUS
<1>4. n = Subject(frames) /\ n \in 1..Len(heap) /\ Shown(u, a, b, n)
    BY <1>1, <1>2, <1>3, SubjectShown DEF Follows
<1>5. PICK p, r : p = Begins(a, n) /\ r = p - 1
    OBVIOUS
<1>6. /\ p \in 1..Len(text) /\ text[p] = heap[n].type /\ b[n] = p + 1 /\ b[n] <= offset
    BY <1>1, <1>3, <1>4, <1>5 DEF Shown
<1>7. Measures(r, step, buffer, frames)
    BY <1>1, <1>2, <1>4, <1>5 DEF Ahead
<1>8. text[p] \in Pieces /\ Width[text[p]] \in Nat
    BY <1>2, <1>6, TokensArePieces, Widths
<1>9. s \in Seq(Pieces) /\ Size(s) = Width[text[p]]
    <2>1. /\ PrintedAs(heap[item].type) \in Pieces
          /\ Width[PrintedAs(heap[item].type)] = Width[text[p]]
        BY <1>1, <1>3, <1>6, Widths
    <2> QED
        BY <2>1, SizeOfOne
<1>10. text[p] \in Scalars
    BY <1>1, <1>3, <1>6
<1> HIDE DEF s
<1>11. w \in BufferTypes /\ w.ok /\ Size(w.out) = Size(buffer.out) /\ Size(w.last) = Size(s)
    BY <1>2, <1>9, BehindSizes
<1> HIDE DEF w
<1>12. PICK d, k, e : d = Len(frames) /\ k = Size(s) /\ e = Size(buffer.out)
    OBVIOUS
<1>13. d \in Nat /\ k \in Nat /\ k = Width[text[p]] /\ e \in Nat
    BY <1>2, <1>8, <1>9, <1>12
<1>14. r \in 0..Len(text) /\ p - 1 = r /\ p \in 0..Len(text) /\ p < offset
    <2>1. PICK l : l = Len(text)
        OBVIOUS
    <2>2. l \in Nat /\ offset \in 1..l + 1 /\ p \in 1..l /\ r = p - 1
        BY <1>2, <1>5, <1>6, <2>1
    <2>3. p + 1 <= offset
        BY <1>6
    <2>4. r \in 0..l /\ p - 1 = r /\ p \in 0..l /\ p < offset
        BY <2>2, <2>3
    <2> QED
        BY <2>1, <2>4
<1>15. DepthAt(r) = d /\ e + 0 = SizeAt(r) + 0
    BY <1>1, <1>2, <1>7, <1>12 DEF Measures, Gap
<1>16. DepthAt(p) = d /\ SizeAt(p) = (SizeAt(r) + k) + Formatted(TabsAt(p, d) + SpacesAt(p))
    <2>1. /\ DepthAt(p) = Deepened(DepthAt(r), p)
          /\ SizeAt(p) = (SizeAt(r) + Width[text[p]])
                          + Formatted(TabsAt(p, DepthAt(p)) + SpacesAt(p))
        BY <1>2, <1>6, <1>14, TokenReckoned
    <2>2. Deepened(d, p) = d
        BY <1>10, ScalarReckoned
    <2>3. DepthAt(p) = d
        BY <1>15, <2>1, <2>2, Zenon
    <2> QED
        BY <1>13, <2>1, <2>3, Zenon
<1>17. TabsAt(p, d) = 0 /\ SpacesAt(p) = 0
    <2>1. SpacesAt(p) = 0 /\ (TokenAt(p + 1) # Colon => TabsAt(p, d) = 0)
        BY <1>10, ScalarReckoned
    <2>2. CASE frames = <<>>
        <3>1. d = 0
            BY <1>12, <2>2
        <3>2. TabsAt(p, d) = 0
            BY <3>1 DEF TabsAt
        <3> QED
            BY <2>1, <3>2
    <2>3. CASE frames # <<>>
        <3>1. TokenAt(b[n]) # Colon
            BY <1>1, <1>2, <1>4, <2>3, NoName
        <3> QED
            BY <1>6, <2>1, <3>1
    <2> QED
        BY <2>2, <2>3
<1>18. SizeAt(p) = e + k
    <2>1. Formatted(0) = 0
        BY WhiteFormatted
    <2>2. SizeAt(p) = (SizeAt(r) + k) + Formatted(0 + 0)
        BY <1>16, <1>17
    <2>3. SizeAt(r) \in Nat
        BY <1>2, <1>14
    <2> QED
        BY <1>13, <1>15, <2>1, <2>2, <2>3
<1>19. /\ k + 1 \in Nat /\ (k + 1) + Size(buffer.out) <= SizeAt(p) + 1
       /\ Size(w.out) <= Size(buffer.out) + (k + 1)
       /\ Size(w.out) + Size(w.last) = SizeAt(p) + Gap(p, "behind", frames)
    <2>1. Gap(p, "behind", frames) = 0
        BY DEF Gap
    <2> QED
        BY <1>11, <1>12, <1>13, <1>18, <2>1
<1>20. \/ step' = "unwound" /\ Excused(buffer')
       \/ step' = "behind" /\ Measures(p, "behind", buffer', frames)
    BY <1>1, <1>2, <1>11, <1>12, <1>14, <1>16, <1>19, WriteMeasures
<1>21. ASSUME step' = "behind"
       PROVE  Ahead(a, b, step', frames') - 1 = p
    <2>1. Ahead(a, b, step', frames') = b[n]
        BY <1>1, <1>4, <1>21 DEF Ahead
    <2> QED
        BY <1>2, <1>6, <2>1
<1> QED
    BY <1>1, <1>20, <1>21 DEF Onward, Measured, Walking

LEMMA OpenMeasures ==
    ASSUME PrintInv, NEW u, NEW a, NEW b, Scripted(u, a, b),
           Follows(u, a, b, step, buffer, frames, item), Measured(a, b, step, buffer, frames),
           OpenPrinted
    PROVE  Onward(a, b)
<1> DEFINE object == heap[item].type = "{"
           white == IF object THEN Formatted(1) ELSE 0
           asked == IF object THEN white + 2 ELSE 1
           s == <<heap[item].type>> \o White(white)
           w == Counted(buffer, s, FALSE)
           frame == [list |-> item, current |-> heap[item].child]
<1>1. /\ step = "value" /\ heap[item].type \in Lists
      /\ Write(buffer, asked, w, "loop")
      /\ frames' = Append(frames, frame)
    BY DEF OpenPrinted, Closer, Lists
<1>2. /\ TextInv /\ Len(text) \in Nat /\ offset \in 1..Len(text) + 1
      /\ Chain(u, frames) /\ Len(frames) \in Nat
      /\ buffer \in BufferTypes /\ Size(buffer.out) \in Nat /\ Size(buffer.last) = 0
      /\ \A n \in 0..Len(text) : DepthAt(n) \in Nat /\ SizeAt(n) \in Nat
      /\ Measures(Ahead(a, b, step, frames) - 1, step, buffer, frames)
      /\ buffer.ok /\ (buffer.length > 0 => Size(buffer.out) < buffer.length)
    <2>1. step \in {"value", "loop", "key", "colon", "behind"} /\ step # "behind"
        BY <1>1
    <2> HIDE DEF w, s, object, white, asked, frame
    <2> QED
        BY <2>1, MeasuredNow
<1>3. PICK n, c : n = item /\ c = heap[item].child
    OBVIOUS
<1>4. n = Subject(frames) /\ n \in 1..Len(heap) /\ Shown(u, a, b, n)
    BY <1>1, <1>2, <1>3, SubjectShown DEF Follows
<1>5. PICK p, r : p = Begins(a, n) /\ r = p - 1
    OBVIOUS
<1>6. /\ p \in 1..Len(text) /\ text[p] = heap[n].type /\ p + 1 < b[n] /\ b[n] <= offset
      /\ b[n] \in 1..Len(text) + 1
      /\ c = NULL => b[n] = p + 2
      /\ c # NULL => a[c] = p + 1 /\ u[c] = n
    BY <1>1, <1>3, <1>4, <1>5 DEF Shown
<1>7. Measures(r, step, buffer, frames)
    BY <1>1, <1>2, <1>4, <1>5 DEF Ahead
<1>8. Formatted(0) = 0 /\ Formatted(1) \in Nat
    BY WhiteFormatted
<1>9. PICK k : k = white
    OBVIOUS
<1>10. /\ text[p] \in Lists /\ k \in Nat
       /\ k = Formatted(IF text[p] = Brace THEN 1 ELSE 0)
       /\ asked = k + 2 \/ asked = k + 1
    <2>1. object <=> text[p] = Brace
        BY <1>3, <1>6, Zenon DEF Brace
    <2>2. text[p] \in Lists
        BY <1>1, <1>3, <1>6
    <2> HIDE DEF object, s, w
    <2>3. CASE object
        BY <1>8, <1>9, <2>1, <2>2, <2>3
    <2>4. CASE ~object
        <3>1. k = 0 /\ asked = 1 /\ 0 + 1 = 1
            BY <1>9, <2>4
        <3> QED
            BY <1>8, <2>1, <2>2, <2>4, <3>1
    <2> QED
        BY <2>3, <2>4
<1>11. s \in Seq(Pieces) /\ Size(s) = k + 1 /\ Width[text[p]] = 1
    <2>1. text[p] \in Pieces /\ Width[text[p]] = 1
        BY <1>10, Widths DEF Lists
    <2>2. s = <<text[p]>> \o White(k)
        BY <1>3, <1>6, <1>9
    <2> HIDE DEF s
    <2> QED
        BY <1>10, <2>1, <2>2, SizeWithWhite
<1> HIDE DEF s, object, white, asked
<1>12. /\ w \in BufferTypes /\ w.ok /\ Size(w.out) = Size(buffer.out) + Size(s)
       /\ Size(w.last) = 0
    BY <1>2, <1>11, CountedSizes
<1> HIDE DEF w
<1>13. frame.list = n /\ frame.current = c
    BY <1>3
<1> HIDE DEF frame
<1>14. Chain(u, frames') /\ frames' # <<>> /\ frames'[Len(frames')] = frame
    <2>1. frame.list = Subject(frames) /\ (frame.current # NULL => u[frame.current] = frame.list)
        BY <1>4, <1>6, <1>13
    <2> QED
        BY <1>1, <1>2, <2>1, ChainOn
<1>15. Len(frames') = Len(frames) + 1
    <2>1. frames \in Seq(WalkFrames)
        BY DEF PrintInv, WalkInv
    <2>2. frames \in Seq(WalkFrames \cup {frame}) /\ frame \in WalkFrames \cup {frame}
        BY <2>1
    <2> QED
        BY <1>1, <2>2, AppendProperties
<1>16. PICK d, e : d = Len(frames) /\ e = Size(buffer.out)
    OBVIOUS
<1>17. d \in Nat /\ e \in Nat
    BY <1>2, <1>16
<1>18. /\ r \in 0..Len(text) /\ p - 1 = r /\ p \in 0..Len(text) /\ p < offset
       /\ (p + 1) - 1 = p /\ ((p + 2) - 1) - 1 = p
    <2>1. PICK x, y : x = Len(text) /\ y = b[n]
        OBVIOUS
    <2>2. x \in Nat /\ p \in 1..x /\ y \in 1..x + 1 /\ p + 1 < y /\ y <= offset
        BY <1>2, <1>6, <2>1
    <2>3. offset \in 1..x + 1
        BY <1>2, <2>1
    <2> QED
        BY <1>5, <2>1, <2>2, <2>3
<1>19. DepthAt(r) = d /\ e + 0 = SizeAt(r) + 0
    BY <1>1, <1>2, <1>7, <1>16 DEF Measures, Gap
<1>20. DepthAt(p) = d + 1 /\ SizeAt(p) = (SizeAt(r) + 1) + k
    <2>1. /\ DepthAt(p) = Deepened(DepthAt(r), p)
          /\ SizeAt(p) = (SizeAt(r) + Width[text[p]])
                          + Formatted(TabsAt(p, DepthAt(p)) + SpacesAt(p))
        BY <1>2, <1>6, <1>18, TokenReckoned
    <2>2. /\ Deepened(d, p) = d + 1 /\ TabsAt(p, d + 1) = 0
          /\ SpacesAt(p) = IF text[p] = Brace THEN 1 ELSE 0
        BY <1>10, ListReckoned
    <2>3. DepthAt(p) = d + 1
        BY <1>19, <2>1, <2>2, Zenon
    <2>4. 0 + SpacesAt(p) = IF text[p] = Brace THEN 1 ELSE 0
        BY <2>2
    <2> QED
        BY <1>10, <1>11, <2>1, <2>2, <2>3, <2>4, Zenon
<1>21. Gap(p, "loop", frames') = 0
    <2>1. c = c /\ frames'[Len(frames')].list = n
        BY <1>13, <1>14
    <2>2. text[p] = heap[n].type
        BY <1>6
    <2> QED
        BY <2>1, <2>2, Zenon DEF Gap
<1>22. /\ asked \in Nat /\ asked + Size(buffer.out) <= SizeAt(p) + 1
       /\ Size(w.out) <= Size(buffer.out) + asked
       /\ Size(w.out) + Size(w.last) = SizeAt(p) + Gap(p, "loop", frames')
       /\ DepthAt(p) = Len(frames')
    <2>1. SizeAt(r) \in Nat
        BY <1>2, <1>18
    <2> QED
        BY <1>10, <1>11, <1>12, <1>15, <1>16, <1>17, <1>19, <1>20, <1>21, <2>1, SMTT(30)
<1>23. \/ step' = "unwound" /\ Excused(buffer')
       \/ step' = "loop" /\ Measures(p, "loop", buffer', frames')
    BY <1>1, <1>2, <1>12, <1>18, <1>22, WriteMeasures
<1>24. ASSUME step' = "loop"
       PROVE  Ahead(a, b, step', frames') - 1 = p
    BY <1>6, <1>13, <1>14, <1>18, <1>24 DEF Ahead
<1> QED
    BY <1>23, <1>24 DEF Onward, Measured, Walking

LEMMA ElementMeasures ==
    ASSUME PrintInv, NEW u, NEW a, NEW b, Scripted(u, a, b),
           Follows(u, a, b, step, buffer, frames, item), Measured(a, b, step, buffer, frames),
           PrintElement
    PROVE  Onward(a, b)
<1>1. /\ step = "loop" /\ step' = "value" /\ Frame.current # NULL
      /\ heap[Frame.list].type # Brace /\ buffer' = buffer /\ frames' = frames
    BY DEF PrintElement, Brace
<1>2. /\ Chain(u, frames)
      /\ Measures(Ahead(a, b, step, frames) - 1, step, buffer, frames)
    BY <1>1, MeasuredNow
<1>3. frames # <<>>
    BY <1>1 DEF PrintInv, WalkInv
<1>4. Frame = frames[Len(frames)]
    BY <1>3, WalkPlaces
<1>5. Subject(frames) = Frame.current
    BY <1>3, <1>4 DEF Subject
<1>6. Begins(a, Frame.current) = a[Frame.current]
    BY <1>1, <1>2, <1>3, ElementPlace
<1>7. Ahead(a, b, step', frames') = Ahead(a, b, step, frames)
    BY <1>1, <1>4, <1>5, <1>6 DEF Ahead
<1>8. PICK p : p = Ahead(a, b, step, frames) - 1
    OBVIOUS
<1>9. Gap(p, step, frames) = 0 /\ Gap(p, step', frames') = 0
    BY <1>1, <1>4 DEF Gap
<1>10. Measures(p, step', buffer', frames')
    BY <1>1, <1>2, <1>8, <1>9 DEF Measures
<1> QED
    BY <1>1, <1>7, <1>8, <1>10 DEF Onward, Measured, Walking

\* The name of a member, where printing is in front of it, and what it takes.
NameTakes(a, p, r) ==
    /\ p \in 1..Len(text) /\ r \in 0..Len(text) /\ p < offset /\ p + 1 < offset
    /\ p + 1 \in 1..Len(text) /\ text[p + 1] = Colon
    /\ Begins(a, Frame.current) = p + 2
    /\ DepthAt(p) = Len(frames)
    /\ SizeAt(p) = (SizeAt(r) + Width["string"]) + Formatted(Len(frames))
    /\ Width["string"] \in Nat

LEMMA NameBounds ==
    ASSUME NEW x \in Nat, NEW y \in 1..x + 1, NEW o \in 1..x + 1, NEW p \in 1..x,
           p + 2 < y, y <= o
    PROVE  p - 1 \in 0..x /\ p < o /\ p + 1 < o /\ p + 1 \in 1..x
OBVIOUS

LEMMA NameReckoned ==
    ASSUME PrintInv, NEW u, NEW a, NEW b, Scripted(u, a, b), Chain(u, frames), frames # <<>>,
           Frame.current # NULL, heap[Frame.list].type = Brace,
           NEW p, p = a[Frame.current], NEW r, r = p - 1, DepthAt(r) = Len(frames)
    PROVE  NameTakes(a, p, r)
<1>1. PICK c : c = Frame.current
    OBVIOUS
<1>2. /\ Shown(u, a, b, c) /\ Begins(a, c) = a[c] + 2
      /\ text[a[c]] = "string" /\ a[c] + 1 <= Len(text) /\ text[a[c] + 1] = Colon
    BY <1>1, ElementPlace
<1>3. /\ a[c] \in 1..Len(text) /\ Begins(a, c) < b[c] /\ b[c] <= offset /\ b[c] \in 1..Len(text) + 1
    BY <1>2 DEF Shown
<1>4. TextInv /\ Len(text) \in Nat /\ offset \in 1..Len(text) + 1 /\ Len(frames) \in Nat
    <2>1. TextInv /\ Len(text) \in Nat
        BY DEF PrintInv, ParserInv, TextInv
    <2> QED
        BY <2>1, WalkPlaces DEF Scripted, Shown
<1>5. /\ p \in 1..Len(text) /\ r \in 0..Len(text) /\ p - 1 = r /\ p < offset /\ p + 1 < offset
      /\ p + 1 \in 1..Len(text)
    <2>1. PICK x, y, z : x = Len(text) /\ y = b[c] /\ z = Begins(a, c)
        OBVIOUS
    <2>2. /\ x \in Nat /\ p \in 1..x /\ z = p + 2 /\ z < y /\ y <= offset /\ y \in 1..x + 1
          /\ p + 1 <= x
        BY <1>1, <1>2, <1>3, <1>4, <2>1
    <2>3. offset \in 1..x + 1
        BY <1>4, <2>1
    <2>4. p + 2 < y
        BY <2>2
    <2>5. p - 1 \in 0..x /\ p < offset /\ p + 1 < offset /\ p + 1 \in 1..x
        BY <2>2, <2>3, <2>4, NameBounds
    <2>6. p - 1 = r
        OBVIOUS
    <2> QED
        BY <2>1, <2>2, <2>5, <2>6
<1>6. text[p] = "string" /\ text[p + 1] = Colon /\ Begins(a, Frame.current) = p + 2
    BY <1>1, <1>2
<1>7. TokenAt(p + 1) = Colon
    <2>1. DOMAIN text = 1..Len(text)
        BY <1>4 DEF TextInv
    <2> QED
        BY <1>5, <1>6, <2>1 DEF TokenAt
<1>8. text[p] \in Scalars /\ Width["string"] \in Nat
    <2>1. text[p] \in Scalars
        BY <1>6 DEF Scalars
    <2>2. text[p] \in Pieces /\ Width[text[p]] \in Nat
        BY <1>4, <1>5, TokensArePieces, Widths
    <2> QED
        BY <1>6, <2>1, <2>2
<1>9. PICK d : d = Len(frames)
    OBVIOUS
<1>10. DepthAt(p) = d /\ SizeAt(p) = (SizeAt(r) + Width["string"]) + Formatted(d)
    <2>1. /\ DepthAt(p) = Deepened(DepthAt(r), p)
          /\ SizeAt(p) = (SizeAt(r) + Width[text[p]])
                          + Formatted(TabsAt(p, DepthAt(p)) + SpacesAt(p))
        BY <1>4, <1>5, TokenReckoned
    <2>2. Deepened(d, p) = d /\ TabsAt(p, d) = d /\ SpacesAt(p) = 0
        BY <1>6, <1>7, <1>8, ScalarReckoned
    <2>3. DepthAt(p) = d
        BY <1>9, <2>1, <2>2, Zenon
    <2>4. d + 0 = d
        BY <1>4, <1>9
    <2> QED
        BY <1>6, <2>1, <2>2, <2>3, <2>4, Zenon
<1> QED
    BY <1>5, <1>6, <1>8, <1>9, <1>10 DEF NameTakes

\* In an object printing is in front of a name, or of its colon.
LEMMA MemberNow ==
    ASSUME PrintInv, NEW u, NEW a, NEW b, Scripted(u, a, b),
           Follows(u, a, b, step, buffer, frames, item), Measured(a, b, step, buffer, frames),
           step \in {"key", "colon"}
    PROVE  /\ frames # <<>> /\ Frame = frames[Len(frames)] /\ Frame.current # NULL
           /\ heap[Frame.list].type = Brace
<1>1. frames # <<>> /\ \A i \in 1..Len(frames) : frames[i].current # NULL
    BY DEF PrintInv, WalkInv
<1>2. Frame = frames[Len(frames)] /\ Len(frames) \in 1..Len(frames)
    BY <1>1, WalkPlaces
<1> QED
    BY <1>1, <1>2 DEF Follows

LEMMA TabsMeasures ==
    ASSUME PrintInv, NEW u, NEW a, NEW b, Scripted(u, a, b),
           Follows(u, a, b, step, buffer, frames, item), Measured(a, b, step, buffer, frames),
           PrintTabs
    PROVE  Onward(a, b)
<1> DEFINE s == White(Depth)
           w == Counted(buffer, s, FALSE)
<1>1. /\ step = "loop" /\ Frame.current # NULL /\ heap[Frame.list].type = Brace
      /\ frames' = frames
      /\ IF caller.format THEN Write(buffer, Depth, w, "key")
         ELSE step' = "key" /\ buffer' = buffer
    BY DEF PrintTabs, Brace
<1>2. /\ TextInv /\ Len(text) \in Nat /\ offset \in 1..Len(text) + 1
      /\ Chain(u, frames) /\ Len(frames) \in Nat
      /\ buffer \in BufferTypes /\ Size(buffer.out) \in Nat /\ Size(buffer.last) = 0
      /\ \A n \in 0..Len(text) : DepthAt(n) \in Nat /\ SizeAt(n) \in Nat
      /\ Measures(Ahead(a, b, step, frames) - 1, step, buffer, frames)
      /\ buffer.ok /\ (buffer.length > 0 => Size(buffer.out) < buffer.length)
    <2>1. step \in {"value", "loop", "key", "colon", "behind"} /\ step # "behind"
        BY <1>1
    <2> HIDE DEF w, s
    <2> QED
        BY <2>1, MeasuredNow
<1>3. frames # <<>> /\ Frame = frames[Len(frames)]
    <2>1. frames # <<>>
        BY <1>1 DEF PrintInv, WalkInv
    <2> QED
        BY <2>1, WalkPlaces
<1>4. PICK p, r : p = a[Frame.current] /\ r = p - 1
    OBVIOUS
<1>5. Ahead(a, b, step, frames) - 1 = r
    BY <1>1, <1>3, <1>4 DEF Ahead
<1>6. Measures(r, step, buffer, frames) /\ Gap(r, step, frames) = 0
    BY <1>1, <1>2, <1>3, <1>5 DEF Gap
<1>7. PICK d, e, k : d = Len(frames) /\ e = Size(buffer.out) /\ k = Width["string"]
    OBVIOUS
<1>8. DepthAt(r) = d /\ e + 0 = SizeAt(r) + 0
    BY <1>2, <1>6, <1>7 DEF Measures
<1>9. /\ p \in 1..Len(text) /\ r \in 0..Len(text) /\ p < offset
      /\ SizeAt(p) = (SizeAt(r) + k) + Formatted(d) /\ k \in Nat
    <2>1. DepthAt(r) = Len(frames)
        BY <1>7, <1>8
    <2>2. /\ Chain(u, frames) /\ frames # <<>> /\ Frame.current # NULL
          /\ heap[Frame.list].type = Brace
        BY <1>1, <1>2, <1>3
    <2>3. NameTakes(a, p, r)
        BY <1>4, <2>1, <2>2, NameReckoned, Zenon
    <2> QED
        BY <1>7, <2>3 DEF NameTakes
<1>10. /\ p \in 0..Len(text) /\ SizeAt(r) \in Nat /\ d \in Nat /\ e \in Nat /\ Depth = d
       /\ Gap(r, "key", frames) = Formatted(d)
    BY <1>2, <1>7, <1>9 DEF Depth, Gap
<1>11. CASE caller.format
    <2>1. s \in Seq(Pieces) /\ Size(s) = d
        BY <1>10, SizeOfWhite
    <2> HIDE DEF s
    <2>2. w \in BufferTypes /\ w.ok /\ Size(w.out) = e + d /\ Size(w.last) = 0
        BY <1>2, <1>7, <2>1, CountedSizes
    <2> HIDE DEF w
    <2>3. Formatted(d) = d
        BY <1>11 DEF Formatted
    <2>4. /\ d + Size(buffer.out) <= SizeAt(p) + 1 /\ Size(w.out) <= Size(buffer.out) + d
          /\ Size(w.out) + Size(w.last) = SizeAt(r) + Gap(r, "key", frames)
        BY <1>7, <1>8, <1>9, <1>10, <2>2, <2>3, SMTT(30)
    <2>5. Write(buffer, d, w, "key")
        BY <1>1, <1>10, <1>11
    <2>6. DepthAt(r) = Len(frames)
        BY <1>7, <1>8
    <2> QED
        <3>1. \/ step' = "unwound" /\ Excused(buffer')
              \/ step' = "key" /\ Measures(r, "key", buffer', frames)
            BY <1>2, <1>9, <1>10, <2>2, <2>4, <2>5, <2>6, WriteMeasures
        <3>2. step' = "key" => Ahead(a, b, step', frames') - 1 = r
            BY <1>1, <1>3, <1>4 DEF Ahead
        <3> QED
            BY <1>1, <3>1, <3>2 DEF Onward, Measured, Walking
<1>12. CASE ~caller.format
    <2>1. step' = "key" /\ buffer' = buffer
        BY <1>1, <1>12
    <2>2. Formatted(d) = 0
        BY <1>12 DEF Formatted
    <2>3. Measures(r, step', buffer', frames')
        BY <1>1, <1>6, <1>10, <2>1, <2>2 DEF Measures
    <2>4. Ahead(a, b, step', frames') - 1 = r
        BY <1>1, <1>3, <1>4, <2>1 DEF Ahead
    <2> QED
        BY <2>1, <2>3, <2>4 DEF Onward, Measured, Walking
<1> QED
    BY <1>11, <1>12

LEMMA KeyMeasures ==
    ASSUME PrintInv, NEW u, NEW a, NEW b, Scripted(u, a, b),
           Follows(u, a, b, step, buffer, frames, item), Measured(a, b, step, buffer, frames),
           PrintKey
    PROVE  Onward(a, b)
<1> DEFINE s == <<"string">>
           v == Behind(buffer, s)
           w == UpdateOffset(v)
           asked == Width["string"] + 1
<1>1. /\ step = "key" /\ frames' = frames
      /\ Write(buffer, asked, w, "colon")
    BY DEF PrintKey
<1>2. /\ TextInv /\ Len(text) \in Nat /\ offset \in 1..Len(text) + 1
      /\ Chain(u, frames) /\ Len(frames) \in Nat
      /\ buffer \in BufferTypes /\ Size(buffer.out) \in Nat /\ Size(buffer.last) = 0
      /\ \A n \in 0..Len(text) : DepthAt(n) \in Nat /\ SizeAt(n) \in Nat
      /\ Measures(Ahead(a, b, step, frames) - 1, step, buffer, frames)
      /\ buffer.ok /\ (buffer.length > 0 => Size(buffer.out) < buffer.length)
    <2>1. step \in {"value", "loop", "key", "colon", "behind"} /\ step # "behind"
        BY <1>1
    <2> HIDE DEF w, v, s, asked
    <2> QED
        BY <2>1, MeasuredNow
<1>3. /\ frames # <<>> /\ Frame = frames[Len(frames)] /\ Frame.current # NULL
      /\ heap[Frame.list].type = Brace
    BY <1>1, MemberNow
<1>4. PICK p, r : p = a[Frame.current] /\ r = p - 1
    OBVIOUS
<1>5. Ahead(a, b, step, frames) - 1 = r
    BY <1>1, <1>3, <1>4 DEF Ahead
<1>6. PICK d, e, k : d = Len(frames) /\ e = Size(buffer.out) /\ k = Width["string"]
    OBVIOUS
<1>7. Measures(r, step, buffer, frames) /\ Gap(r, step, frames) = Formatted(d)
    BY <1>1, <1>2, <1>5, <1>6 DEF Gap
<1>8. DepthAt(r) = d /\ e + 0 = SizeAt(r) + Formatted(d)
    BY <1>2, <1>6, <1>7 DEF Measures
<1>9. /\ p \in 1..Len(text) /\ r \in 0..Len(text) /\ p < offset /\ DepthAt(p) = Len(frames)
      /\ SizeAt(p) = (SizeAt(r) + k) + Formatted(d) /\ k \in Nat
    <2>1. DepthAt(r) = Len(frames)
        BY <1>6, <1>8
    <2>2. /\ Chain(u, frames) /\ frames # <<>> /\ Frame.current # NULL
          /\ heap[Frame.list].type = Brace
        BY <1>1, <1>2, <1>3
    <2>3. NameTakes(a, p, r)
        BY <1>4, <2>1, <2>2, NameReckoned, Zenon
    <2> QED
        BY <1>6, <2>3 DEF NameTakes
<1>10. /\ p \in 0..Len(text) /\ SizeAt(r) \in Nat /\ d \in Nat /\ e \in Nat /\ Formatted(d) \in Nat
       /\ Gap(p, "colon", frames) = 0 /\ asked = k + 1 /\ asked \in Nat
    <2>1. Gap(p, "colon", frames) = 0
        BY DEF Gap
    <2> QED
        <3>1. d \in Nat /\ e \in Nat /\ Formatted(d) \in Nat
            BY <1>2, <1>6, WhiteFormatted
        <3>2. asked = k + 1 /\ asked \in Nat
            BY <1>6, <1>9
        <3>3. p \in 0..Len(text) /\ SizeAt(r) \in Nat
            BY <1>2, <1>9
        <3> QED
            BY <2>1, <3>1, <3>2, <3>3
<1>11. s \in Seq(Pieces) /\ Size(s) = k
    <2>1. "string" \in Pieces
        BY Widths DEF Scalars
    <2> QED
        BY <1>6, <2>1, SizeOfOne
<1> HIDE DEF s, asked
<1>12. v \in BufferTypes /\ v.ok /\ Size(v.out) = e /\ Size(v.last) = k
    BY <1>2, <1>6, <1>11, BehindSizes
<1> HIDE DEF v
<1>13. w \in BufferTypes /\ w.ok /\ Size(w.out) = e + k /\ Size(w.last) = 0
    BY <1>12, UpdateSizes
<1> HIDE DEF w
<1>14. /\ asked + Size(buffer.out) <= SizeAt(p) + 1 /\ Size(w.out) <= Size(buffer.out) + asked
       /\ Size(w.out) + Size(w.last) = SizeAt(p) + Gap(p, "colon", frames)
    <2>1. PICK f, x, y : f = Formatted(d) /\ x = SizeAt(r) /\ y = SizeAt(p)
        OBVIOUS
    <2>2. /\ f \in Nat /\ x \in Nat /\ e \in Nat /\ k \in Nat /\ e = x + f /\ y = (x + k) + f
        BY <1>8, <1>9, <1>10, <2>1
    <2>3. PICK i, o, l : i = asked /\ o = Size(w.out) /\ l = Size(w.last)
        OBVIOUS
    <2>4. i = k + 1 /\ o = e + k /\ l = 0
        BY <1>10, <1>13, <2>3
    <2>5. i + e <= y + 1 /\ o <= e + i /\ o + l = y + 0
        BY <2>2, <2>4
    <2>6. asked + Size(buffer.out) <= SizeAt(p) + 1
        BY <1>6, <2>1, <2>3, <2>5
    <2>7. Size(w.out) <= Size(buffer.out) + asked
        BY <1>6, <2>3, <2>5
    <2>8. Size(w.out) + Size(w.last) = SizeAt(p) + Gap(p, "colon", frames)
        BY <1>10, <2>1, <2>3, <2>5
    <2> QED
        BY <2>6, <2>7, <2>8
<1>15. \/ step' = "unwound" /\ Excused(buffer')
       \/ step' = "colon" /\ Measures(p, "colon", buffer', frames)
    BY <1>1, <1>2, <1>9, <1>10, <1>13, <1>14, WriteMeasures
<1>16. ASSUME step' = "colon"
       PROVE  Ahead(a, b, step', frames') - 1 = p
    <2>1. Ahead(a, b, step', frames') = p + 1
        BY <1>1, <1>3, <1>4, <1>16 DEF Ahead
    <2> QED
        BY <1>2, <1>9, <2>1
<1> QED
    BY <1>1, <1>15, <1>16 DEF Onward, Measured, Walking

\* A comma or a colon is printed with the space behind it.
LEMMA MarkMeasured ==
    ASSUME TextInv, NEW q \in 1..Len(text), text[q] \in {Comma, Colon}
    PROVE  /\ DepthAt(q) = DepthAt(q - 1)
           /\ SizeAt(q) = (SizeAt(q - 1) + 1) + Formatted(1)
<1>1. /\ DepthAt(q) = Deepened(DepthAt(q - 1), q)
      /\ SizeAt(q) = (SizeAt(q - 1) + Width[text[q]])
                      + Formatted(TabsAt(q, DepthAt(q)) + SpacesAt(q))
    BY TokenReckoned
<1>2. PICK d : d = DepthAt(q - 1)
    OBVIOUS
<1>3. Deepened(d, q) = d /\ TabsAt(q, d) = 0 /\ SpacesAt(q) = 1
    BY MarkReckoned
<1>4. Width[text[q]] = 1
    BY Widths DEF Comma, Colon
<1>5. DepthAt(q) = d /\ 0 + 1 = 1
    BY <1>1, <1>2, <1>3
<1> QED
    BY <1>1, <1>2, <1>3, <1>4, <1>5, Zenon

LEMMA ColonMeasures ==
    ASSUME PrintInv, NEW u, NEW a, NEW b, Scripted(u, a, b),
           Follows(u, a, b, step, buffer, frames, item), Measured(a, b, step, buffer, frames),
           PrintColon
    PROVE  Onward(a, b)
<1> DEFINE k == Formatted(1)
           s == <<":">> \o White(k)
           w == Counted(buffer, s, FALSE)
           asked == 1 + k
<1>1. /\ step = "colon" /\ frames' = frames
      /\ Write(buffer, asked, w, "value")
    BY DEF PrintColon
<1>2. /\ TextInv /\ Len(text) \in Nat /\ offset \in 1..Len(text) + 1
      /\ Chain(u, frames) /\ Len(frames) \in Nat
      /\ buffer \in BufferTypes /\ Size(buffer.out) \in Nat /\ Size(buffer.last) = 0
      /\ \A n \in 0..Len(text) : DepthAt(n) \in Nat /\ SizeAt(n) \in Nat
      /\ Measures(Ahead(a, b, step, frames) - 1, step, buffer, frames)
      /\ buffer.ok /\ (buffer.length > 0 => Size(buffer.out) < buffer.length)
    <2>1. step \in {"value", "loop", "key", "colon", "behind"} /\ step # "behind"
        BY <1>1
    <2> HIDE DEF w, s, k, asked
    <2> QED
        BY <2>1, MeasuredNow
<1>3. /\ frames # <<>> /\ Frame = frames[Len(frames)] /\ Frame.current # NULL
      /\ heap[Frame.list].type = Brace
    BY <1>1, MemberNow
<1>4. PICK p, q, r : p = a[Frame.current] /\ q = p + 1 /\ r = q - 1
    OBVIOUS
<1>5. Ahead(a, b, step, frames) - 1 = r
    BY <1>1, <1>3, <1>4 DEF Ahead
<1>6. PICK d, e : d = Len(frames) /\ e = Size(buffer.out)
    OBVIOUS
<1>7. Measures(r, step, buffer, frames) /\ Gap(r, step, frames) = 0
    BY <1>1, <1>2, <1>5 DEF Gap
<1>8. DepthAt(r) = d /\ e + 0 = SizeAt(r) + 0 /\ r \in 0..Len(text)
    BY <1>2, <1>6, <1>7 DEF Measures
<1>9. /\ q \in 1..Len(text) /\ q < offset /\ text[q] = Colon /\ Begins(a, Frame.current) = p + 2
      /\ p \in 1..Len(text)
    <2>1. PICK c : c = Frame.current
        OBVIOUS
    <2>2. /\ Shown(u, a, b, c) /\ Begins(a, c) = a[c] + 2
          /\ a[c] + 1 <= Len(text) /\ text[a[c] + 1] = Colon
        BY <1>2, <1>3, <2>1, ElementPlace
    <2>3. /\ a[c] \in 1..Len(text) /\ Begins(a, c) < b[c] /\ b[c] <= offset
          /\ b[c] \in 1..Len(text) + 1
        BY <2>2 DEF Shown
    <2>4. PICK x, y, z : x = Len(text) /\ y = b[c] /\ z = Begins(a, c)
        OBVIOUS
    <2>5. /\ x \in Nat /\ p \in 1..x /\ z = p + 2 /\ z < y /\ y <= offset /\ y \in 1..x + 1
          /\ p + 1 <= x
        BY <1>2, <1>4, <2>1, <2>2, <2>3, <2>4
    <2>6. p \in Nat /\ 1 <= p /\ y \in Nat /\ offset \in Nat
        BY <1>2, <2>4, <2>5
    <2>7. q \in 1..x /\ q < offset
        BY <1>4, <2>5, <2>6
    <2> QED
        BY <1>4, <2>1, <2>2, <2>4, <2>5, <2>7
<1>10. q - 1 = r /\ q \in 0..Len(text) /\ (p + 2) - 1 = q
    <2>1. PICK x : x = Len(text)
        OBVIOUS
    <2>2. x \in Nat /\ q \in 1..x /\ p \in 1..x
        BY <1>2, <1>9, <2>1
    <2> QED
        BY <1>4, <2>1, <2>2
<1>11. DepthAt(q) = d /\ SizeAt(q) = (SizeAt(r) + 1) + k
    BY <1>2, <1>8, <1>9, <1>10, MarkMeasured, Zenon
<1>12. SizeAt(r) \in Nat /\ k \in Nat /\ e \in Nat /\ Gap(q, "value", frames) = 0 /\ asked \in Nat
    <2>1. Gap(q, "value", frames) = 0
        BY DEF Gap
    <2>2. k \in Nat
        BY WhiteFormatted
    <2> HIDE DEF k
    <2> QED
        BY <1>2, <1>6, <1>8, <2>1, <2>2
<1>13. s \in Seq(Pieces) /\ Size(s) = k + 1
    <2>1. ":" \in Pieces /\ Width[":"] = 1
        BY Widths
    <2> HIDE DEF k
    <2> QED
        BY <1>12, <2>1, SizeWithWhite
<1> HIDE DEF s, k
<1>14. w \in BufferTypes /\ w.ok /\ Size(w.out) = e + (k + 1) /\ Size(w.last) = 0
    BY <1>2, <1>6, <1>13, CountedSizes
<1> HIDE DEF w
<1>15. /\ asked + Size(buffer.out) <= SizeAt(q) + 1 /\ Size(w.out) <= Size(buffer.out) + asked
       /\ Size(w.out) + Size(w.last) = SizeAt(q) + Gap(q, "value", frames)
    BY <1>6, <1>8, <1>11, <1>12, <1>14
<1> HIDE DEF asked
<1>16. DepthAt(q) = Len(frames)
    BY <1>6, <1>11
<1>17. \/ step' = "unwound" /\ Excused(buffer')
       \/ step' = "value" /\ Measures(q, "value", buffer', frames)
    BY <1>1, <1>2, <1>9, <1>10, <1>12, <1>14, <1>15, <1>16, WriteMeasures
<1>18. ASSUME step' = "value"
       PROVE  Ahead(a, b, step', frames') - 1 = q
    <2>1. Subject(frames) = Frame.current
        BY <1>3 DEF Subject
    <2>2. Ahead(a, b, step', frames') = p + 2
        BY <1>1, <1>9, <1>18, <2>1 DEF Ahead
    <2> QED
        BY <1>10, <2>2
<1> QED
    BY <1>1, <1>17, <1>18 DEF Onward, Measured, Walking

\* The closer of a list, and what it takes with the end of the line before it and its tabs.
ClosesAt(l, q, r) ==
    /\ q \in 1..Len(text) /\ r \in 1..Len(text) /\ q < offset
    /\ heap[l].type \in Lists /\ text[q] = Closer[heap[l].type]
    /\ DepthAt(q) = Len(frames) - 1
    /\ SizeAt(q) = (SizeAt(r) + 1)
           + (Formatted(IF heap[l].type = Brace THEN Len(frames) - 1 ELSE 0)
              + Formatted(IF heap[l].type = Brace /\ text[r] # Brace THEN 1 ELSE 0))

LEMMA CloserMeasured ==
    ASSUME PrintInv, NEW u, NEW a, NEW b, Scripted(u, a, b), Chain(u, frames), frames # <<>>,
           NEW l, l = Frame.list, NEW q, q = b[l] - 1, NEW r, r = q - 1,
           DepthAt(r) = Len(frames)
    PROVE  ClosesAt(l, q, r)
<1>1. Shown(u, a, b, l) /\ heap[l].type \in Lists
    BY FramesShown
<1>2. TextInv /\ Len(text) \in Nat /\ offset \in 1..Len(text) + 1
    <2>1. TextInv /\ Len(text) \in Nat
        BY DEF PrintInv, ParserInv, TextInv
    <2> QED
        BY <2>1 DEF Scripted, Shown
<1>3. /\ Begins(a, l) \in 1..Len(text) /\ Begins(a, l) + 1 < b[l] /\ b[l] \in 1..Len(text) + 1
      /\ b[l] <= offset /\ text[q] = Closer[heap[l].type]
    BY <1>1 DEF Shown
<1>4. q \in 1..Len(text) /\ r \in 1..Len(text) /\ q < offset /\ q - 1 = r
    <2>1. PICK x, y, z : x = Len(text) /\ y = b[l] /\ z = Begins(a, l)
        OBVIOUS
    <2>2. x \in Nat /\ z \in 1..x /\ z + 1 < y /\ y \in 1..x + 1 /\ y <= offset /\ q = y - 1
        BY <1>2, <1>3, <2>1
    <2>3. q \in 1..x /\ q - 1 \in 1..x
        BY <2>2
    <2>4. q < offset
        BY <1>2, <2>1, <2>2
    <2> QED
        BY <2>1, <2>3, <2>4
<1>5. PICK d : d = Len(frames)
    OBVIOUS
<1>6. d \in Nat /\ d > 0
    <2>1. Len(frames) \in Nat /\ Len(frames) \in 1..Len(frames)
        BY WalkPlaces
    <2> QED
        BY <1>5, <2>1
<1>7. /\ DepthAt(q) = Deepened(DepthAt(r), q)
      /\ SizeAt(q) = (SizeAt(r) + Width[text[q]])
                      + Formatted(TabsAt(q, DepthAt(q)) + SpacesAt(q))
    BY <1>2, <1>4, TokenReckoned
<1>8. DepthAt(q) = d - 1
    <2>1. d > 0 => Deepened(d, q) = d - 1
        BY <1>1, <1>3, CloserReckoned
    <2> QED
        BY <1>5, <1>6, <1>7, <2>1
<1>9. PICK t, v : /\ t = IF heap[l].type = Brace THEN d - 1 ELSE 0
                  /\ v = IF heap[l].type = Brace /\ text[r] # Brace THEN 1 ELSE 0
    OBVIOUS
<1>10. TabsAt(q, d - 1) = t /\ SpacesAt(q) = v
    <2>1. /\ TabsAt(q, d - 1) = IF heap[l].type = Brace THEN d - 1 ELSE 0
          /\ SpacesAt(q) = IF heap[l].type = Brace /\ TokenAt(q - 1) # Brace THEN 1 ELSE 0
        BY <1>1, <1>3, CloserReckoned
    <2>2. TokenAt(q - 1) = text[r]
        <3>1. DOMAIN text = 1..Len(text)
            BY <1>2 DEF TextInv
        <3> QED
            BY <1>4, <3>1 DEF TokenAt
    <2> QED
        BY <1>9, <2>1, <2>2, Zenon
<1>11. Formatted(t + v) = Formatted(t) + Formatted(v)
    <2>1. t \in Nat /\ v \in Nat
        BY <1>6, <1>9
    <2> QED
        BY <2>1, WhiteFormatted
<1>12. Width[text[q]] = 1
    BY <1>1, <1>3, Widths DEF Lists, Closer
<1>13. SizeAt(q) = (SizeAt(r) + 1) + (Formatted(t) + Formatted(v))
    BY <1>7, <1>8, <1>10, <1>11, <1>12, Zenon
<1> QED
    BY <1>1, <1>3, <1>4, <1>5, <1>8, <1>9, <1>13 DEF ClosesAt

LEMMA CloseMeasures ==
    ASSUME PrintInv, NEW u, NEW a, NEW b, Scripted(u, a, b),
           Follows(u, a, b, step, buffer, frames, item), Measured(a, b, step, buffer, frames),
           ClosePrinted
    PROVE  Onward(a, b)
<1> DEFINE closer == Closer[heap[Frame.list].type]
           white == IF closer = "}" THEN Formatted(Depth - 1) ELSE 0
           asked == white + 2
           s == White(white) \o <<closer>>
           w == Behind(buffer, s)
<1>1. /\ step = "loop" /\ Frame.current = NULL /\ frames' = Front(frames)
      /\ Write(buffer, asked, w, "behind")
    BY DEF ClosePrinted
<1>2. /\ TextInv /\ Len(text) \in Nat /\ offset \in 1..Len(text) + 1
      /\ Chain(u, frames) /\ Len(frames) \in Nat
      /\ buffer \in BufferTypes /\ Size(buffer.out) \in Nat /\ Size(buffer.last) = 0
      /\ \A n \in 0..Len(text) : DepthAt(n) \in Nat /\ SizeAt(n) \in Nat
      /\ Measures(Ahead(a, b, step, frames) - 1, step, buffer, frames)
      /\ buffer.ok /\ (buffer.length > 0 => Size(buffer.out) < buffer.length)
    <2>1. step \in {"value", "loop", "key", "colon", "behind"} /\ step # "behind"
        BY <1>1
    <2> HIDE DEF w, s, closer, white, asked
    <2> QED
        BY <2>1, MeasuredNow
<1>3. frames # <<>> /\ Frame = frames[Len(frames)]
    <2>1. frames # <<>>
        BY <1>1 DEF PrintInv, WalkInv
    <2> QED
        BY <2>1, WalkPlaces
<1>4. PICK l, q, r : l = Frame.list /\ q = b[l] - 1 /\ r = q - 1
    OBVIOUS
<1>5. Ahead(a, b, step, frames) - 1 = r
    BY <1>1, <1>3, <1>4 DEF Ahead
<1>6. PICK d, e, v : /\ d = Len(frames) /\ e = Size(buffer.out)
                     /\ v = Formatted(IF heap[l].type = Brace /\ text[r] # Brace THEN 1 ELSE 0)
    OBVIOUS
<1>7. Measures(r, step, buffer, frames)
    BY <1>2, <1>5
<1>8. Gap(r, step, frames) = v
    <2>1. Formatted(0) = 0
        BY WhiteFormatted
    <2>2. frames[Len(frames)].current = NULL /\ frames[Len(frames)].list = l /\ step # "key"
        BY <1>1, <1>3, <1>4
    <2>3. CASE heap[l].type = Brace /\ text[r] # Brace
        BY <1>1, <1>6, <2>2, <2>3 DEF Gap
    <2>4. CASE ~(heap[l].type = Brace /\ text[r] # Brace)
        BY <1>1, <1>6, <2>1, <2>2, <2>4 DEF Gap
    <2> QED
        BY <2>3, <2>4
<1>9. DepthAt(r) = d /\ e + 0 = SizeAt(r) + v
    BY <1>2, <1>6, <1>7, <1>8 DEF Measures
<1>10. PICK k : k = white
    OBVIOUS
<1>11. /\ q \in 1..Len(text) /\ r \in 1..Len(text) /\ q < offset
       /\ heap[l].type \in Lists /\ text[q] = Closer[heap[l].type]
       /\ DepthAt(q) = d - 1
       /\ SizeAt(q) = (SizeAt(r) + 1)
                + (Formatted(IF heap[l].type = Brace THEN d - 1 ELSE 0) + v)
    <2>1. DepthAt(r) = Len(frames)
        BY <1>6, <1>9
    <2>2. Chain(u, frames)
        BY <1>2
    <2>3. ClosesAt(l, q, r)
        BY <1>3, <1>4, <2>1, <2>2, CloserMeasured
    <2> QED
        BY <1>6, <2>3 DEF ClosesAt
<1>12. k = Formatted(IF heap[l].type = Brace THEN d - 1 ELSE 0)
    <2>1. closer = "}" <=> heap[l].type = Brace
        BY <1>4, <1>11 DEF Lists, Closer, Brace
    <2>2. Formatted(0) = 0 /\ Depth = d
        BY <1>6, WhiteFormatted DEF Depth
    <2> HIDE DEF closer
    <2> QED
        BY <1>10, <2>1, <2>2, Zenon
<1>13. d \in Nat /\ d - 1 \in Nat /\ e \in Nat /\ k \in Nat /\ v \in Nat /\ SizeAt(r) \in Nat
    <2>1. Len(frames) \in Nat /\ Len(frames) \in 1..Len(frames)
        BY <1>3, WalkPlaces
    <2>2. d \in Nat /\ d - 1 \in Nat
        BY <1>6, <2>1
    <2>3. \A x \in Nat : Formatted(x) \in Nat
        BY WhiteFormatted
    <2>4. k \in Nat
        BY <1>12, <2>2, <2>3
    <2>5. v \in Nat
        BY <1>6, <2>3
    <2>6. r \in 0..Len(text)
        BY <1>11
    <2> QED
        BY <1>2, <1>6, <2>2, <2>4, <2>5, <2>6
<1>14. s \in Seq(Pieces) /\ Size(s) = k + 1
    <2>1. closer \in Pieces /\ Width[closer] = 1
        BY <1>4, <1>11, Widths DEF Lists, Closer
    <2> HIDE DEF closer, white
    <2> QED
        BY <1>10, <1>13, <2>1, SizeWithWhite
<1>15. asked = k + 2
    BY <1>10
<1> HIDE DEF s, white, closer, asked
<1>16. w \in BufferTypes /\ w.ok /\ Size(w.out) = e /\ Size(w.last) = k + 1
    BY <1>2, <1>6, <1>14, BehindSizes
<1> HIDE DEF w
<1>17. Len(frames') = d - 1
    BY <1>1, <1>3, <1>6, WalkPlaces
<1>18. /\ asked \in Nat /\ asked + Size(buffer.out) <= SizeAt(q) + 1
       /\ Size(w.out) <= Size(buffer.out) + asked
       /\ Size(w.out) + Size(w.last) = SizeAt(q) + Gap(q, "behind", frames')
       /\ DepthAt(q) = Len(frames')
    <2>1. Gap(q, "behind", frames') = 0
        BY DEF Gap
    <2>2. PICK x, y : x = SizeAt(r) /\ y = SizeAt(q)
        OBVIOUS
    <2>3. x \in Nat /\ e = x + v /\ y = (x + 1) + (k + v)
        BY <1>9, <1>11, <1>12, <1>13, <2>2
    <2>4. asked \in Nat /\ asked + e <= y + 1 /\ e <= e + asked /\ e + (k + 1) = y + 0
        BY <1>13, <1>15, <2>3
    <2>5. DepthAt(q) = Len(frames')
        BY <1>11, <1>17
    <2> QED
        BY <1>6, <1>16, <2>1, <2>2, <2>4, <2>5
<1>19. q \in 0..Len(text)
    BY <1>11
<1>20. \/ step' = "unwound" /\ Excused(buffer')
       \/ step' = "behind" /\ Measures(q, "behind", buffer', frames')
    BY <1>1, <1>2, <1>11, <1>16, <1>18, <1>19, WriteMeasures, SMTT(30)
<1>21. ASSUME step' = "behind"
       PROVE  Ahead(a, b, step', frames') - 1 = q
    <2>1. Subject(frames') = l
        BY <1>1, <1>2, <1>3, <1>4, ChainOff
    <2> QED
        BY <1>4, <1>21, <2>1 DEF Ahead
<1> QED
    BY <1>20, <1>21 DEF Onward, Measured, Walking

\* The last token of an item opens no list that goes on.
LEMMA LastToken ==
    ASSUME NEW u, NEW a, NEW b, NEW n, Shown(u, a, b, n), Len(text) \in Nat
    PROVE  text[b[n] - 1] # Brace
<1>1. CASE heap[n].type \in Scalars
    <2>1. /\ b[n] = Begins(a, n) + 1 /\ text[Begins(a, n)] = heap[n].type
          /\ Begins(a, n) \in 1..Len(text)
        BY <1>1 DEF Shown
    <2>2. b[n] - 1 = Begins(a, n)
        BY <2>1
    <2>3. heap[n].type # Brace
        BY <1>1 DEF Scalars, Numerals, Literals, Brace
    <2> QED
        BY <2>1, <2>2, <2>3
<1>2. CASE heap[n].type \in Lists
    <2>1. text[b[n] - 1] = Closer[heap[n].type]
        BY <1>2 DEF Shown
    <2>2. Closer[heap[n].type] # Brace
        BY <1>2 DEF Lists, Closer, Brace
    <2> QED
        BY <2>1, <2>2
<1>3. heap[n].type \in Scalars \cup Lists
    BY DEF Shown
<1> QED
    BY <1>1, <1>2, <1>3

LEMMA CommaMeasures ==
    ASSUME PrintInv, NEW u, NEW a, NEW b, Scripted(u, a, b),
           Follows(u, a, b, step, buffer, frames, item), Measured(a, b, step, buffer, frames),
           PrintComma
    PROVE  Onward(a, b)
<1> DEFINE v == UpdateOffset(buffer)
           next == heap[Frame.current].next
           k == Formatted(1)
           comma == IF next = NULL THEN <<>> ELSE <<",">>
           bare == next = NULL /\ heap[Frame.list].type = "["
           s == IF bare THEN <<>> ELSE comma \o White(k)
           asked == Len(s) + 1
           w == Counted(v, s, TRUE)
           frame == [Frame EXCEPT !.current = next]
<1>1. /\ step = "behind" /\ frames # <<>>
      /\ IF bare THEN buffer' = v /\ step' = "loop" ELSE Write(v, asked, w, "loop")
      /\ frames' = Append(Front(frames), frame)
    BY DEF PrintComma
<1>2. /\ TextInv /\ Len(text) \in Nat /\ offset \in 1..Len(text) + 1
      /\ Chain(u, frames) /\ Len(frames) \in Nat
      /\ buffer \in BufferTypes /\ Size(buffer.out) \in Nat /\ Size(buffer.last) \in Nat
      /\ \A n \in 0..Len(text) : DepthAt(n) \in Nat /\ SizeAt(n) \in Nat
      /\ Measures(Ahead(a, b, step, frames) - 1, step, buffer, frames)
      /\ buffer.ok
    <2>1. step \in {"value", "loop", "key", "colon", "behind"}
        BY <1>1
    <2> HIDE DEF v, next, k, comma, bare, s, asked, w, frame
    <2> QED
        BY <2>1, MeasuredNow
<1>3. PICK l, c, x : l = Frame.list /\ c = Frame.current /\ x = next
    OBVIOUS
<1>4. /\ Frame = [list |-> l, current |-> c] /\ Subject(frames) = c
      /\ c \in 1..Len(heap) /\ Shown(u, a, b, c) /\ u[c] = l /\ u[c] # 0
    <2>1. Frame = [list |-> l, current |-> c]
        BY <1>1, <1>3, WalkPlaces
    <2>2. Subject(frames) = c /\ c \in 1..Len(heap) /\ Shown(u, a, b, c)
        BY <1>1, <1>2, <1>3, SubjectShown
    <2>3. c # NULL
        <3>1. c \in 1..Len(heap)
            BY <2>2
        <3> QED
            BY <3>1 DEF NULL
    <2>4. u[c] = l /\ u[c] # 0
        BY <1>1, <1>2, <1>3, <2>3, FramesShown
    <2> QED
        BY <2>1, <2>2, <2>4
<1>5. heap[l].type \in Lists
    BY <1>1, <1>2, <1>3, FramesShown
<1>6. frame.list = l /\ frame.current = x
    BY <1>3, <1>4
<1> HIDE DEF frame
<1>7. Chain(u, frames') /\ frames' # <<>> /\ frames'[Len(frames')] = frame
    <2>1. x # NULL => u[x] = l
        BY <1>3, <1>4 DEF Shown
    <2>2. frame.list = Frame.list /\ (frame.current # NULL => u[frame.current] = frame.list)
        BY <1>3, <1>6, <2>1
    <2>3. Chain(u, frames)
        BY <1>2
    <2> QED
        BY <1>1, <2>2, <2>3, ChainOff
<1>8. Len(frames') = Len(frames)
    <2>1. /\ Front(frames) \in Seq(WalkFrames) /\ Len(Front(frames)) = Len(frames) - 1
        BY <1>1, WalkPlaces
    <2>2. Front(frames) \in Seq(WalkFrames \cup {frame}) /\ frame \in WalkFrames \cup {frame}
        BY <2>1
    <2>3. Len(frames') = Len(Front(frames)) + 1
        BY <1>1, <2>2, AppendProperties, ZenonT(40)
    <2> QED
        BY <1>2, <2>1, <2>3
<1>9. PICK p, r : p = b[c] /\ r = p - 1
    OBVIOUS
<1>10. Ahead(a, b, step, frames) - 1 = r
    BY <1>1, <1>4, <1>9 DEF Ahead
<1>11. PICK d, e : d = Len(frames) /\ e = Size(buffer.out) + Size(buffer.last)
    OBVIOUS
<1>12. r \in 0..Len(text) /\ DepthAt(r) = d /\ e = SizeAt(r) + 0 /\ e \in Nat /\ SizeAt(r) \in Nat
    <2>1. Measures(r, step, buffer, frames) /\ Gap(r, step, frames) = 0
        BY <1>1, <1>2, <1>10 DEF Gap
    <2>2. r \in 0..Len(text) /\ DepthAt(r) = d /\ e = SizeAt(r) + 0
        BY <1>11, <2>1 DEF Measures
    <2> QED
        BY <1>2, <1>11, <2>2
<1>13. PICK h : h = k
    OBVIOUS
<1>14. h \in Nat /\ Formatted(0) = 0
    BY <1>13, WhiteFormatted
<1>15. s = <<>> \/ s = <<>> \o White(h) \/ s = <<",">> \o White(h)
    BY <1>13
<1>16. s \in Seq(Pieces) /\ Len(s) \in Nat /\ Size(s) = Len(s)
    <2>1. "," \in Pieces /\ Width[","] = 1
        BY Widths
    <2> HIDE DEF s
    <2> QED
        BY <1>14, <1>15, <2>1, CommaSize
<1>17. v \in BufferTypes /\ v.ok /\ v.length = buffer.length /\ Size(v.out) = e /\ Size(v.last) = 0
    BY <1>2, <1>11, UpdateSizes
<1>18. e < v.length
    <2>1. buffer.block /\ buffer.nul /\ Used(buffer) <= buffer.length
        BY <1>1, PrintingPlaces DEF PrintInv, BufferInv, BufferRight
    <2>2. Used(buffer) = e + 1
        BY <1>11, <2>1 DEF Used, Nul
    <2>3. buffer.length \in Nat
        BY <1>2, BufferSizes
    <2> HIDE DEF v, s
    <2> QED
        BY <1>12, <1>17, <2>1, <2>2, <2>3
<1> HIDE DEF v
<1>19. w \in BufferTypes /\ w.ok /\ Size(w.out) = e + Size(s) /\ Size(w.last) = 0
    <2> HIDE DEF s
    <2> QED
        BY <1>16, <1>17, CountedSizes
<1> HIDE DEF w
<1>20. CASE x # NULL
    <2>1. /\ p \in 1..Len(text) /\ text[p] = Comma /\ a[x] = p + 1 /\ p < offset
        <3>1. /\ p \in 1..Len(text) + 1 /\ p <= Len(text) /\ text[p] = Comma /\ a[x] = p + 1
              /\ x \in 1..Len(heap) /\ u[x] = l /\ u[x] # 0
            BY <1>3, <1>4, <1>9, <1>20 DEF Shown
        <3>2. Shown(u, a, b, x)
            BY <3>1 DEF Scripted
        <3>3. a[x] \in 1..Len(text) /\ Begins(a, x) < b[x] /\ b[x] <= offset /\ b[x] \in 1..Len(text) + 1
            BY <3>2 DEF Shown
        <3>4. a[x] <= Begins(a, x) /\ Begins(a, x) \in Nat
            <4>1. a[x] \in Nat
                BY <3>3
            <4> QED
                BY <4>1 DEF Begins
        <3>5. PICK i, j, m, n : i = a[x] /\ j = Begins(a, x) /\ m = b[x] /\ n = Len(text)
            OBVIOUS
        <3>6. n \in Nat /\ i \in 1..n /\ m \in 1..n + 1 /\ j \in Nat /\ i <= j /\ j < m /\ m <= offset
            BY <1>2, <3>3, <3>4, <3>5
        <3>7. p \in 1..n + 1 /\ p <= n /\ i = p + 1 /\ offset \in 1..n + 1
            BY <1>2, <3>1, <3>5
        <3>8. p \in 1..n /\ p < offset
            BY <3>6, <3>7
        <3> QED
            BY <3>1, <3>5, <3>8
    <2>2. p - 1 = r /\ p \in 0..Len(text) /\ (p + 1) - 1 = p
        <3>1. PICK n : n = Len(text)
            OBVIOUS
        <3>2. n \in Nat /\ p \in 1..n
            BY <1>2, <2>1, <3>1
        <3> QED
            BY <1>9, <3>1, <3>2
    <2>3. DepthAt(p) = d /\ SizeAt(p) = (SizeAt(r) + 1) + h
        <3>1. TextInv
            BY <1>2
        <3> QED
            BY <1>12, <1>13, <2>1, <2>2, <3>1, MarkMeasured, Zenon
    <2>4. Size(s) = h + 1 /\ asked = h + 2
        <3>1. s = <<",">> \o White(h)
            BY <1>3, <1>13, <1>20
        <3>2. "," \in Pieces /\ Width[","] = 1
            BY Widths
        <3> HIDE DEF s
        <3>3. Size(s) = h + 1
            BY <1>14, <3>1, <3>2, SizeWithWhite
        <3> QED
            BY <1>14, <1>16, <3>3
    <2>5. Gap(p, "loop", frames') = 0
        <3>1. frames'[Len(frames')].current # NULL
            BY <1>6, <1>7, <1>20
        <3> QED
            BY <3>1 DEF Gap
    <2>6. Write(v, asked, w, "loop")
        BY <1>1, <1>3, <1>20
    <2> HIDE DEF s, asked, next
    <2>7. /\ asked \in Nat /\ asked + Size(v.out) <= SizeAt(p) + 1
          /\ Size(w.out) <= Size(v.out) + asked
          /\ Size(w.out) + Size(w.last) = SizeAt(p) + Gap(p, "loop", frames')
        <3>1. PICK y, z : y = SizeAt(p) /\ z = SizeAt(r)
            OBVIOUS
        <3>2. z \in Nat /\ e = z /\ y = (z + 1) + h
            BY <1>12, <2>3, <3>1
        <3>3. /\ asked \in Nat /\ asked + e <= y + 1 /\ e + (h + 1) <= e + asked
              /\ (e + (h + 1)) + 0 = y + 0
            BY <1>12, <1>14, <2>4, <3>2
        <3> QED
            BY <1>17, <1>19, <2>4, <2>5, <3>1, <3>3
    <2>8. DepthAt(p) = Len(frames') /\ Size(v.out) < v.length
        BY <1>8, <1>11, <1>17, <1>18, <2>3
    <2>9. \/ step' = "unwound" /\ Excused(buffer')
          \/ step' = "loop" /\ Measures(p, "loop", buffer', frames')
        BY <1>2, <1>17, <1>19, <2>1, <2>2, <2>6, <2>7, <2>8, WriteMeasures
    <2>10. step' = "loop" => Ahead(a, b, step', frames') - 1 = p
        BY <1>6, <1>7, <1>20, <2>1, <2>2 DEF Ahead
    <2> QED
        BY <2>9, <2>10 DEF Onward, Measured, Walking
<1>21. CASE x = NULL
    <2>1. p = b[l] - 1
        BY <1>3, <1>4, <1>9, <1>21 DEF Shown
    <2>2. text[r] # Brace
        <3>1. text[b[c] - 1] # Brace
            BY <1>2, <1>4, LastToken
        <3> QED
            BY <1>9, <3>1
    <2>3. step' = "loop" => Ahead(a, b, step', frames') - 1 = r
        BY <1>6, <1>7, <1>9, <1>21, <2>1 DEF Ahead
    <2>4. frames'[Len(frames')].current = NULL /\ frames'[Len(frames')].list = l
        BY <1>6, <1>7, <1>21
    <2>5. CASE heap[l].type = "["
        <3>1. buffer' = v /\ step' = "loop"
            BY <1>1, <1>3, <1>21, <2>5
        <3>2. heap[l].type # Brace
            BY <2>5 DEF Brace
        <3>3. Gap(r, "loop", frames') = 0
            BY <2>4, <3>2 DEF Gap
        <3>4. DepthAt(r) = Len(frames') /\ Size(v.out) + Size(v.last) = SizeAt(r) + 0
            BY <1>8, <1>11, <1>12, <1>17
        <3>5. Measures(r, "loop", buffer', frames')
            BY <1>12, <1>17, <1>18, <3>1, <3>3, <3>4 DEF Measures
        <3> QED
            BY <2>3, <3>1, <3>5 DEF Onward, Measured, Walking
    <2>6. CASE heap[l].type # "["
        <3>1. heap[l].type = Brace
            BY <1>5, <2>6 DEF Lists, Brace
        <3>2. Gap(r, "loop", frames') = h
            BY <1>13, <2>2, <2>4, <3>1 DEF Gap
        <3>3. ClosesAt(l, p, r)
            <4>1. Chain(u, frames) /\ DepthAt(r) = Len(frames)
                BY <1>2, <1>11, <1>12
            <4> QED
                BY <1>1, <1>3, <1>9, <2>1, <4>1, CloserMeasured
        <3>4. /\ p \in 1..Len(text) /\ p \in 0..Len(text) /\ p < offset
              /\ SizeAt(p) = (SizeAt(r) + 1) + (Formatted(Len(frames) - 1) + h)
            BY <1>13, <2>2, <3>1, <3>3 DEF ClosesAt
        <3>5. Formatted(Len(frames) - 1) \in Nat
            <4>1. Len(frames) - 1 \in Nat
                <5>1. Len(frames) \in Nat /\ Len(frames) \in 1..Len(frames)
                    BY <1>1, WalkPlaces
                <5> QED
                    BY <5>1
            <4> QED
                BY <4>1, WhiteFormatted
        <3>6. Size(s) = h /\ asked = h + 1
            <4>1. s = <<>> \o White(h)
                BY <1>3, <1>13, <1>21, <2>6
            <4>2. White(h) \in Seq(Pieces) /\ Size(White(h)) = h
                BY <1>14, SizeOfWhite
            <4>3. <<>> \o White(h) = White(h)
                BY <4>2, ConcatEmptySeq
            <4> HIDE DEF s
            <4> QED
                BY <1>16, <4>1, <4>2, <4>3
        <3>7. Write(v, asked, w, "loop")
            BY <1>1, <1>3, <2>6
        <3> HIDE DEF s, asked, next
        <3>8. /\ asked \in Nat /\ asked + Size(v.out) <= SizeAt(p) + 1
              /\ Size(w.out) <= Size(v.out) + asked
              /\ Size(w.out) + Size(w.last) = SizeAt(r) + Gap(r, "loop", frames')
            <4>1. PICK y, z, t : y = SizeAt(p) /\ z = SizeAt(r) /\ t = Formatted(Len(frames) - 1)
                OBVIOUS
            <4>2. z \in Nat /\ e = z /\ t \in Nat /\ y = (z + 1) + (t + h)
                BY <1>12, <3>4, <3>5, <4>1
            <4>3. /\ asked \in Nat /\ asked + e <= y + 1 /\ e + h <= e + asked
                  /\ (e + h) + 0 = z + h
                BY <1>12, <1>14, <3>6, <4>2
            <4> QED
                BY <1>17, <1>19, <3>2, <3>6, <4>1, <4>3
        <3>9. DepthAt(r) = Len(frames') /\ Size(v.out) < v.length
            BY <1>8, <1>11, <1>12, <1>17, <1>18
        <3>10. \/ step' = "unwound" /\ Excused(buffer')
               \/ step' = "loop" /\ Measures(r, "loop", buffer', frames')
            BY <1>2, <1>12, <1>17, <1>19, <3>4, <3>7, <3>8, <3>9, WriteMeasures
        <3> QED
            BY <2>3, <3>10 DEF Onward, Measured, Walking
    <2> QED
        BY <2>5, <2>6
<1> QED
    BY <1>20, <1>21

-----------------------------------------------------------------------------
(* Every step of printing *)

\* While printing goes on, what was printed is the text up to where the walk is, and takes
\* what it should; where it does not go on, there is a reason.
FollowsInv ==
    /\ step \in Walking =>
          \E u, a, b : /\ Scripted(u, a, b) /\ Follows(u, a, b, step, buffer, frames, item)
                       /\ step = "printed" \/ Measured(a, b, step, buffer, frames)
    /\ step \in {"unwound", "failed"} => Excused(buffer)

LEMMA ScriptedStays ==
    ASSUME UNCHANGED vars, NEW u, NEW a, NEW b, Scripted(u, a, b)
    PROVE  Scripted(u, a, b)'
<1>1. /\ heap' = heap /\ text' = text /\ root' = root /\ offset' = offset
    BY DEF vars
<1> QED
    BY <1>1 DEF Scripted, Shown, Begins

LEMMA FollowsOn ==
    ASSUME UNCHANGED vars, UNCHANGED caller, NEW u, NEW a, NEW b, Scripted(u, a, b),
           step' \in Walking => Follows(u, a, b, step', buffer', frames', item'),
           step' = "printed" \/ Onward(a, b)
    PROVE  FollowsInv'
<1>1. /\ heap' = heap /\ text' = text /\ root' = root /\ offset' = offset /\ caller' = caller
    BY DEF vars
<1>2. Scripted(u, a, b)'
    BY ScriptedStays
<1>3. step' \in Walking => Follows(u, a, b, step, buffer, frames, item)'
    BY <1>1 DEF Follows, Chain, Says, Printed, Ahead, Begins, Subject
<1>4. /\ Measured(a, b, step', buffer', frames') => Measured(a, b, step, buffer, frames)'
      /\ Excused(buffer') => Excused(buffer)'
    <2>1. \A f : Reckoned(f)' = Reckoned(f)
        BY <1>1 DEF Reckoned, Reckon, Deepened, TabsAt, SpacesAt, TokenAt
    <2>2. \A n : DepthAt(n)' = DepthAt(n) /\ SizeAt(n)' = SizeAt(n)
        BY <1>1, <2>1 DEF DepthAt, SizeAt
    <2>3. PrintedSize' = PrintedSize
        BY <1>1, <2>1 DEF PrintedSize
    <2>4. Excused(buffer') => Excused(buffer)'
        BY <1>1, <2>3 DEF Excused
    <2>5. Ahead(a, b, step, frames)' = Ahead(a, b, step', frames')
        BY <1>1 DEF Ahead, Begins, Subject
    <2>6. \A p : Gap(p, step, frames)' = Gap(p, step', frames')
        BY <1>1 DEF Gap, Formatted
    <2> QED
        BY <1>1, <2>2, <2>4, <2>5, <2>6 DEF Measured, Measures
<1>5. CASE step' = "printed"
    BY <1>2, <1>3, <1>5 DEF FollowsInv, Walking
<1>6. CASE Onward(a, b)
    BY <1>2, <1>3, <1>4, <1>6 DEF FollowsInv, Onward, Walking
<1> QED
    BY <1>5, <1>6

\* A call starts with nothing printed.
LEMMA CallFollows ==
    ASSUME PrintInv, OwnInv, ReadInv, PrintWhole \/ PrintBuffered \/ PrintPreallocated,
           UNCHANGED vars
    PROVE  FollowsInv'
<1>1. /\ pc = "done" /\ root # NULL /\ frames' = <<>>
    BY DEF PrintWhole, PrintBuffered, PrintPreallocated, MayPrint, Call, PrintInv, StepInv
<1>2. \/ /\ step' = "value" /\ buffer'.out = <<>> /\ buffer'.last = <<>> /\ buffer'.ok
      \/ step' = "unwound" /\ buffer'.refused
    BY DEF PrintWhole, PrintBuffered, PrintPreallocated, Allocate, NoBuffer
<1>3. PICK u, a, b : Scripted(u, a, b)
    BY <1>1, ScriptIs DEF PrintInv
<1>4. step' \in Walking => Follows(u, a, b, step', buffer', frames', item')
    BY <1>3, CallSays
<1>5. /\ heap' = heap /\ text' = text /\ root' = root /\ offset' = offset
    BY DEF vars
<1>6. Scripted(u, a, b)'
    BY <1>3, ScriptedStays
<1>7. step' \in Walking => Follows(u, a, b, step, buffer, frames, item)'
    BY <1>4, <1>5 DEF Follows, Chain, Says, Printed, Ahead, Begins, Subject
<1>8. CASE step' = "unwound" /\ buffer'.refused
    BY <1>8 DEF FollowsInv, Walking, Excused
<1>9. CASE step' = "value" /\ buffer'.out = <<>> /\ buffer'.last = <<>> /\ buffer'.ok
    <2>1. Len(text) \in Nat
        BY DEF PrintInv, ParserInv, TextInv
    <2>2. DepthAt(0)' = 0 /\ SizeAt(0)' = 0
        <3>1. PICK f : f = caller'.format
            OBVIOUS
        <3>2. Reckoned(f)[0] = [size |-> 0, depth |-> 0]
            BY <2>1, ReckonedIs
        <3>3. Reckoned(f)' = Reckoned(f)
            BY <1>5 DEF Reckoned, Reckon, Deepened, TabsAt, SpacesAt, TokenAt
        <3>4. DepthAt(0)' = Reckoned(f)[0].depth /\ SizeAt(0)' = Reckoned(f)[0].size
            BY <3>1, <3>3 DEF DepthAt, SizeAt
        <3> QED
            BY <3>2, <3>4
    <2>3. (Ahead(a, b, step, frames) - 1)' = 0
        <3>1. Subject(frames)' = root
            BY <1>1, <1>5 DEF Subject
        <3>2. Begins(a, root)' = 1
            BY <1>3, <1>5 DEF Scripted, Begins
        <3>3. Ahead(a, b, step, frames)' = 1
            BY <1>5, <1>9, <3>1, <3>2 DEF Ahead
        <3> QED
            BY <3>3
    <2>4. Gap(0, step, frames)' = 0
        BY <1>9 DEF Gap
    <2>5. Size(buffer'.out) = 0 /\ Size(buffer'.last) = 0 /\ Len(frames') = 0
        BY <1>1, <1>9, SizeOfNone
    <2>6. Measures(0, step, buffer, frames)'
        <3>1. 0 \in 0..Len(text')
            BY <1>5, <2>1
        <3> QED
            BY <1>9, <2>2, <2>4, <2>5, <3>1 DEF Measures
    <2>7. Measured(a, b, step, buffer, frames)'
        BY <2>3, <2>6 DEF Measured
    <2> QED
        BY <1>6, <1>7, <1>9, <2>7 DEF FollowsInv, Walking
<1> QED
    BY <1>2, <1>8, <1>9

LEMMA ReturnMeasures ==
    ASSUME PrintInv, Return
    PROVE  step' = "printed" \/ (step' = "unwound" /\ buffer'.refused)
<1>1. UpdateOffset(buffer) \in BufferTypes
    BY UpdateUsed DEF PrintInv, BufferInv, BufferRight
<1>2. \A c \in BufferTypes : [c EXCEPT !.ok = FALSE, !.refused = TRUE].refused
    BY DEF BufferTypes
<1> QED
    BY <1>1, <1>2 DEF Return

\* A step of the walk keeps to the text and to what its tokens take.
LEMMA WalkFollows ==
    ASSUME PrintInv, FollowsInv, UNCHANGED vars,
           \/ PrintScalar \/ OpenPrinted \/ PrintElement \/ PrintTabs \/ PrintKey
           \/ PrintColon \/ PrintComma \/ ClosePrinted \/ Return
    PROVE  FollowsInv'
<1>1. step \in {"value", "loop", "key", "colon", "behind"} /\ UNCHANGED caller
    BY DEF PrintScalar, OpenPrinted, PrintElement, PrintTabs, PrintKey, PrintColon, PrintComma,
           ClosePrinted, Return
<1>2. PICK u, a, b : /\ Scripted(u, a, b) /\ Follows(u, a, b, step, buffer, frames, item)
                     /\ Measured(a, b, step, buffer, frames)
    BY <1>1 DEF FollowsInv, Walking
<1>3. step' \in Walking => Follows(u, a, b, step', buffer', frames', item')
    BY <1>2, ScalarSays, OpenSays, ElementSays, TabsSays, KeySays, ColonSays, CommaSays,
       CloseSays, ReturnSays
<1>4. step' = "printed" \/ Onward(a, b)
    <2>1. CASE Return
        BY <2>1, ReturnMeasures DEF Onward, Excused
    <2> QED
        BY <1>2, <2>1, ScalarMeasures, OpenMeasures, ElementMeasures, TabsMeasures, KeyMeasures,
           ColonMeasures, CommaMeasures, CloseMeasures
<1> QED
    BY <1>1, <1>2, <1>3, <1>4, FollowsOn

\* What freed the block or found it too short is still the reason when the call returns.
LEMMA ExcusedStays ==
    ASSUME PrintInv, Excused(buffer), UNCHANGED vars, UNCHANGED caller,
           Fail \/ UNCHANGED buffer
    PROVE  Excused(buffer)'
<1>1. buffer'.refused = buffer.refused /\ buffer'.length = buffer.length
    <2>1. \A c \in BufferTypes :
              LET d == [c EXCEPT !.block = FALSE, !.held = @ - 1]
              IN  d.refused = c.refused /\ d.length = c.length
        BY DEF BufferTypes
    <2> QED
        BY <2>1 DEF Fail, PrintInv, BufferInv, BufferRight
<1>2. text' = text /\ offset' = offset /\ caller' = caller
    BY DEF vars
<1>3. \A f : Reckoned(f)' = Reckoned(f)
    BY <1>2 DEF Reckoned, Reckon, Deepened, TabsAt, SpacesAt, TokenAt
<1>4. PrintedSize' = PrintedSize
    BY <1>2, <1>3 DEF PrintedSize
<1> QED
    BY <1>1, <1>2, <1>4 DEF Excused

PrintsInv == PrintInv /\ OwnInv /\ ReadInv /\ FollowsInv

LEMMA PrintsInvNext ==
    ASSUME PrintsInv, PrintNext \/ UNCHANGED <<vars, printVars>>
    PROVE  PrintsInv'
<1>1. PrintInv /\ OwnInv /\ ReadInv /\ FollowsInv
    BY DEF PrintsInv
<1>2. PrintInv'
    BY <1>1, PrintInvNext
<1>3. Next \/ UNCHANGED vars
    BY DEF PrintNext, vars
<1>4. OwnInv' /\ ReadInv'
    BY <1>1, <1>2, <1>3, OwnInvNext, ReadInvNext DEF PrintInv
<1>5. FollowsInv'
    <2>1. CASE step = "idle" /\ Next /\ UNCHANGED printVars
        BY <2>1 DEF FollowsInv, Walking, printVars
    <2>2. CASE Printing /\ UNCHANGED vars
        <3>1. CASE PrintWhole \/ PrintBuffered \/ PrintPreallocated
            BY <1>1, <2>2, <3>1, CallFollows
        <3>2. CASE Fail
            <4>1. step = "unwound" /\ step' = "failed" /\ UNCHANGED caller
                BY <3>2 DEF Fail
            <4> QED
                BY <1>1, <2>2, <3>2, <4>1, ExcusedStays DEF FollowsInv, Walking
        <3> QED
            BY <1>1, <2>2, <3>1, <3>2, WalkFollows DEF Printing
    <2>3. CASE UNCHANGED <<vars, printVars>>
        <3>1. UNCHANGED vars /\ UNCHANGED caller /\ UNCHANGED printVars
            BY <2>3 DEF printVars
        <3>2. CASE step \in {"unwound", "failed"}
            <4>1. Excused(buffer)'
                BY <1>1, <3>1, <3>2, ExcusedStays DEF FollowsInv, printVars
            <4> QED
                BY <3>1, <3>2, <4>1 DEF FollowsInv, Walking, printVars
        <3>3. CASE step \in Walking
            <4>1. PICK u, a, b : /\ Scripted(u, a, b)
                                 /\ Follows(u, a, b, step, buffer, frames, item)
                                 /\ step = "printed" \/ Measured(a, b, step, buffer, frames)
                BY <1>1, <3>3 DEF FollowsInv
            <4>2. Follows(u, a, b, step', buffer', frames', item')
                BY <3>1, <4>1 DEF printVars
            <4>3. step' = "printed" \/ Onward(a, b)
                BY <3>1, <3>3, <4>1 DEF printVars, Onward
            <4> QED
                BY <3>1, <4>1, <4>2, <4>3, FollowsOn
        <3>4. CASE step \notin Walking \cup {"unwound", "failed"}
            BY <3>1, <3>4 DEF FollowsInv, printVars
        <3> QED
            BY <3>2, <3>3, <3>4
    <2> QED
        BY <2>1, <2>2, <2>3 DEF PrintNext
<1> QED
    BY <1>2, <1>4, <1>5 DEF PrintsInv

LEMMA PrintsAlways == PrintSpec => []PrintsInv
<1>1. PrintInit => PrintsInv
    BY PrintInvInit, OwnInit, ReadInvInit DEF PrintInit, PrintsInv, FollowsInv, Walking
<1>2. PrintsInv /\ [PrintNext]_<<vars, printVars>> => PrintsInv'
    BY PrintsInvNext
<1> QED
    BY <1>1, <1>2, PTL DEF PrintSpec

\* However the block grows and the tokens are counted, at once or by the next call, what
\* printing returns is what was parsed, with white space between its tokens: none of them
\* is lost, doubled or overwritten.
THEOREM PrintsWhatWasReadAlways == PrintSpec => []PrintsWhatWasRead
<1>1. ASSUME PrintsInv
      PROVE  PrintsWhatWasRead
    <2>1. SUFFICES ASSUME step = "printed"
                   PROVE  /\ Tight(buffer.out \o buffer.last) = SubSeq(Printed, 1, offset - 1)
                          /\ buffer.nul
        BY DEF PrintsWhatWasRead
    <2>2. PICK u, a, b : Scripted(u, a, b) /\ Follows(u, a, b, step, buffer, frames, item)
        BY <1>1, <2>1 DEF PrintsInv, FollowsInv, Walking
    <2>3. /\ Says(buffer.out \o buffer.last, Ahead(a, b, step, frames) - 1)
          /\ frames = <<>> /\ buffer.nul
        BY <2>1, <2>2 DEF Follows
    <2>4. Ahead(a, b, step, frames) = offset
        BY <2>1, <2>2, <2>3 DEF Ahead, Subject, Scripted
    <2> QED
        BY <2>3, <2>4 DEF Says
<1> QED
    BY <1>1, PrintsAlways, PTL

\* No call to ensure is refused that need not be: each asks for less than the whole text
\* with its NUL takes and one byte more, so printing fails only if an allocation was
\* refused, the text is too long for INT_MAX, or the caller's buffer is too short for it.
THEOREM FailsForReasonAlways == PrintSpec => []FailsForReason
<1>1. PrintsInv => FailsForReason
    BY DEF PrintsInv, FollowsInv, FailsForReason, Excused
<1> QED
    BY <1>1, PrintsAlways, PTL
=============================================================================
