----------------------------- MODULE Chunks_proofs -----------------------------
(***************************************************************************)
(* Proofs about slices, chunks and chunk tables, for every number of       *)
(* dimensions, extent and number of ranks: each index belongs to the slice *)
(* of exactly one rank, and no rank gets more than one index more than     *)
(* another; the table chunksInJSON makes of the nested arrays has exactly  *)
(* the written cells, in disjoint chunks; merging keeps this and ends when *)
(* no two chunks are one; the slices of all ranks make one chunk.          *)
(***************************************************************************)
EXTENDS ChunkTables, WellFoundedInduction, TLAPS

-----------------------------------------------------------------------------
(* Arithmetic of integers that the provers do not find by themselves.      *)

LEMMA DivMod ==
  ASSUME NEW a \in Nat, NEW n \in Nat \ {0}
  PROVE  /\ a \div n \in Nat /\ (a % n) \in 0 .. n - 1
         /\ a = n * (a \div n) + (a % n)
OBVIOUS

LEMMA ProductNat == \A x, y \in Nat : x * y \in Nat
OBVIOUS

LEMMA Distribute == \A x, y, z \in Int : x * (y + z) = x * y + x * z
OBVIOUS

LEMMA Associate == \A x, y, z \in Int : (x * y) * z = x * (y * z)
OBVIOUS

LEMMA Commute == \A x, y \in Int : x * y = y * x
OBVIOUS

\* Products with a positive number keep the order.
LEMMA ProductMonotone ==
  ASSUME NEW n \in Nat \ {0}, NEW x \in Int, NEW y \in Int
  PROVE  (x <= y => n * x <= n * y) /\ (n * x < n * y => x < y) /\ (n * x <= n * y => x <= y)
OBVIOUS

-----------------------------------------------------------------------------
(* firstIndex is N * rank / parts, rounded up.                             *)

LEMMA RoundedUp ==
  ASSUME NEW N \in Nat, NEW parts \in Nat \ {0}, NEW rank \in Nat
  PROVE  /\ firstIndex(N, parts, rank) \in Nat
         /\ N * rank <= parts * firstIndex(N, parts, rank)
         /\ parts * firstIndex(N, parts, rank) < N * rank + parts
<1> DEFINE q == N \div parts
           m == N % parts
           a == m * rank
           p == a \div parts
           k == a % parts
           c == IF p * parts < a THEN p + 1 ELSE p
<1>1. q \in Nat /\ m \in Nat /\ N = parts * q + m
  <2>1. N \div parts \in Nat /\ N % parts \in 0 .. parts - 1
        /\ N = parts * (N \div parts) + (N % parts)
    BY ONLY N \in Nat, parts \in Nat \ {0}, DivMod
  <2> QED
    BY ONLY <2>1, parts \in Nat \ {0}
<1>2. a \in Nat
  BY <1>1, ProductNat
<1>3. p \in Nat /\ k \in 0 .. parts - 1 /\ a = parts * p + k
  BY <1>2, DivMod
<1>4. p * parts = parts * p /\ parts * p \in Nat
  BY <1>3, Commute, ProductNat
<1>5. c \in Nat /\ a <= parts * c /\ parts * c < a + parts
  <2>1. CASE k = 0
    <3>1. a = parts * p /\ c = p
      BY <1>2, <1>3, <1>4, <2>1
    <3> HIDE DEF a, p, k, c
    <3>2. c \in Nat /\ parts * c = a
      BY <1>3, <3>1
    <3> QED
      BY ONLY <1>2, <3>2, parts \in Nat \ {0}
  <2>2. CASE k # 0
    <3>1. c = p + 1
      BY <1>2, <1>3, <1>4, <2>2
    <3>2. parts * c = parts * p + parts
      <4>1. parts * (p + 1) = parts * p + parts * 1
        BY ONLY <1>3, parts \in Nat \ {0}, Distribute
      <4> QED
        BY <3>1, <4>1
    <3> HIDE DEF p, k, c
    <3>3. parts * p \in Nat /\ parts * c = parts * p + parts
      BY <1>4, <3>2
    <3>4. a <= parts * c /\ parts * c < a + parts
      BY ONLY <1>2, <1>3, <2>2, <3>3, parts \in Nat \ {0}
    <3> QED
      BY <1>3, <3>1, <3>4
  <2> QED
    BY <1>3, <2>1, <2>2
<1>6. firstIndex(N, parts, rank) = q * rank + c
  BY DEF firstIndex
<1>7. q * rank \in Nat /\ parts * (q * rank) = (parts * q) * rank
  BY <1>1, ProductNat, Associate
<1> HIDE DEF q, m, a, p, k, c
<1>8. parts * (q * rank + c) = (parts * q) * rank + parts * c
  BY <1>5, <1>7, Distribute
<1>9. N * rank = (parts * q) * rank + a
  <2>1. N * rank = rank * (parts * q + m)
    BY <1>1, Commute
  <2>2. rank * (parts * q + m) = rank * (parts * q) + rank * m
    BY <1>1, ProductNat, Distribute
  <2>3. rank * (parts * q) = (parts * q) * rank /\ rank * m = a
    BY <1>1, ProductNat, Commute DEF a
  <2> QED
    BY <2>1, <2>2, <2>3
<1>10. parts * c \in Nat /\ (parts * q) * rank \in Nat /\ N * rank \in Nat
  BY <1>1, <1>5, ProductNat
<1>11. q * rank + c \in Nat
  BY <1>5, <1>7
<1> QED
  BY <1>2, <1>5, <1>6, <1>8, <1>9, <1>10, <1>11

\* The first rank begins at 0, a rank behind the last one would begin at N.
LEMMA FirstAndLast ==
  ASSUME NEW N \in Nat, NEW parts \in Nat \ {0}
  PROVE  firstIndex(N, parts, 0) = 0 /\ firstIndex(N, parts, parts) = N
<1>1. firstIndex(N, parts, 0) \in Nat /\ parts * firstIndex(N, parts, 0) < N * 0 + parts
  BY RoundedUp
<1>2. firstIndex(N, parts, 0) = 0
  <2>1. parts * firstIndex(N, parts, 0) < parts * 1
    BY <1>1
  <2> QED
    BY <1>1, <2>1, ProductMonotone
<1> DEFINE f == firstIndex(N, parts, parts)
<1>3. f \in Nat /\ N * parts <= parts * f /\ parts * f < N * parts + parts
  BY RoundedUp
<1>4. N * parts = parts * N /\ parts * (N + 1) = parts * N + parts
  BY Commute, Distribute
<1> HIDE DEF f
<1>5. N <= f /\ f < N + 1
  BY <1>3, <1>4, ProductMonotone
<1> QED
  BY <1>2, <1>3, <1>5 DEF f

LEMMA FirstIndexMonotone ==
  ASSUME NEW N \in Nat, NEW parts \in Nat \ {0}, NEW r \in Nat
  PROVE  firstIndex(N, parts, r) <= firstIndex(N, parts, r + 1)
<1> DEFINE f == firstIndex(N, parts, r)
           g == firstIndex(N, parts, r + 1)
<1>0. r + 1 \in Nat
  OBVIOUS
<1>1. /\ f \in Nat /\ parts * f < N * r + parts
      /\ g \in Nat /\ N * (r + 1) <= parts * g
  BY <1>0, RoundedUp
<1>2. N * (r + 1) = N * r + N /\ N * r \in Nat
  BY Distribute, ProductNat
<1>3. parts * (g + 1) = parts * g + parts /\ parts * g \in Nat /\ parts * f \in Nat
  BY <1>1, Distribute, ProductNat
<1> HIDE DEF f, g
<1>4. parts * f < parts * (g + 1)
  BY <1>1, <1>2, <1>3
<1>5. f < g + 1
  BY <1>1, <1>4, ProductMonotone
<1> QED
  BY <1>1, <1>5 DEF f, g

\* The slice of every rank ends where the next one begins, also the last one.
LEMMA SlicesAreContiguous ==
  ASSUME NEW N \in Nat, NEW parts \in Nat \ {0}, NEW r \in 0 .. parts - 1
  PROVE  /\ sliceLength(N, parts, r) \in Nat
         /\ firstIndex(N, parts, r) + sliceLength(N, parts, r) = firstIndex(N, parts, r + 1)
<1>0. r \in Nat /\ r + 1 \in Nat
  OBVIOUS
<1>1. firstIndex(N, parts, r) \in Nat /\ firstIndex(N, parts, r + 1) \in Nat
  BY <1>0, RoundedUp
<1>2. firstIndex(N, parts, r) <= firstIndex(N, parts, r + 1)
  BY FirstIndexMonotone
<1>3. CASE r = parts - 1
  <2>1. firstIndex(N, parts, r + 1) = N
    BY <1>3, FirstAndLast
  <2> QED
    BY <1>1, <1>2, <1>3, <2>1 DEF sliceLength
<1>4. CASE r # parts - 1
  BY <1>1, <1>2, <1>4 DEF sliceLength
<1> QED
  BY <1>3, <1>4

Owns(N, parts, r, k) ==
  /\ firstIndex(N, parts, r) <= k
  /\ k < firstIndex(N, parts, r) + sliceLength(N, parts, r)

\* Where index k lies among the ranks, without rounding.
LEMMA OwnerBounds ==
  ASSUME NEW N \in Nat, NEW parts \in Nat \ {0}, NEW r \in 0 .. parts - 1, NEW k \in Nat
  PROVE  Owns(N, parts, r, k) <=> N * r <= parts * k /\ parts * k < N * (r + 1)
<1> DEFINE f == firstIndex(N, parts, r)
           g == firstIndex(N, parts, r + 1)
<1>0. r \in Nat /\ r + 1 \in Nat
  OBVIOUS
<1>1. /\ f \in Nat /\ N * r <= parts * f /\ parts * f < N * r + parts
      /\ g \in Nat /\ N * (r + 1) <= parts * g /\ parts * g < N * (r + 1) + parts
  BY <1>0, RoundedUp
<1>2. Owns(N, parts, r, k) <=> f <= k /\ k < g
  BY SlicesAreContiguous DEF Owns
<1>3. /\ N * r \in Nat /\ N * (r + 1) \in Nat
      /\ parts * f \in Nat /\ parts * g \in Nat /\ parts * k \in Nat
  BY <1>1, ProductNat
<1>4. parts * (k + 1) = parts * k + parts
  BY Distribute
<1> HIDE DEF f, g
<1>5. f <= k <=> N * r <= parts * k
  <2>1. f <= k => parts * f <= parts * k
    BY <1>1, ProductMonotone
  <2>2. parts * f < parts * (k + 1) => f < k + 1
    BY <1>1, ProductMonotone
  <2> QED
    BY <1>1, <1>3, <1>4, <2>1, <2>2
<1>6. k < g <=> parts * k < N * (r + 1)
  <2>1. parts * k < parts * g => k < g
    BY <1>1, ProductMonotone
  <2>2. k + 1 <= g => parts * (k + 1) <= parts * g
    BY <1>1, ProductMonotone
  <2> QED
    BY <1>1, <1>3, <1>4, <2>1, <2>2
<1> QED
  BY <1>2, <1>5, <1>6

\* Every index of the dimension belongs to the slice of exactly one rank
\* (OneDimensionalBlockSlicer::sliceBlock, slice1D).
THEOREM SlicesPartition ==
  ASSUME NEW N \in Nat, NEW parts \in Nat \ {0}, NEW k \in 0 .. N - 1
  PROVE  /\ \E r \in 0 .. parts - 1 : Owns(N, parts, r, k)
         /\ \A q, r \in 0 .. parts - 1 :
              Owns(N, parts, q, k) /\ Owns(N, parts, r, k) => q = r
<1> DEFINE s == (parts * k) \div N
           m == (parts * k) % N
<1>1. parts * k \in Nat /\ N \in Nat \ {0} /\ k \in Nat
  BY ProductNat
<1>2. s \in Nat /\ m \in 0 .. N - 1 /\ parts * k = N * s + m
  BY <1>1, DivMod
<1>3. N * (s + 1) = N * s + N /\ N * s \in Nat
  BY <1>2, Distribute, ProductNat
<1> HIDE DEF s, m
<1>4. N * s <= parts * k /\ parts * k < N * (s + 1)
  BY <1>1, <1>2, <1>3
<1>5. s < parts
  <2>1. parts * k < parts * N
    BY <1>1, ProductMonotone, Distribute, ProductNat
  <2>2. N * s < N * parts
    BY <1>1, <1>3, <1>4, <2>1, Commute, ProductNat
  <2> QED
    BY <1>1, <1>2, <2>2, ProductMonotone
<1>6. Owns(N, parts, s, k)
  BY <1>1, <1>2, <1>4, <1>5, OwnerBounds
<1>7. ASSUME NEW q \in 0 .. parts - 1, NEW r \in 0 .. parts - 1,
             Owns(N, parts, q, k), Owns(N, parts, r, k)
      PROVE  q = r
  <2>1. /\ N * q <= parts * k /\ parts * k < N * (r + 1)
        /\ N * r <= parts * k /\ parts * k < N * (q + 1)
    BY <1>1, <1>7, OwnerBounds
  <2>2. /\ N * q \in Nat /\ N * r \in Nat
        /\ N * (r + 1) \in Nat /\ N * (q + 1) \in Nat
    BY <1>1, ProductNat
  <2>3. q < r + 1 /\ r < q + 1
    BY <1>1, <2>1, <2>2, ProductMonotone
  <2> QED
    BY <2>3
<1> QED
  BY <1>2, <1>5, <1>6, <1>7

\* No rank gets more than one index more than another ("for more equal
\* balancing").
THEOREM SlicesAreBalanced ==
  ASSUME NEW N \in Nat, NEW parts \in Nat \ {0},
         NEW q \in 0 .. parts - 1, NEW r \in 0 .. parts - 1
  PROVE  sliceLength(N, parts, q) <= sliceLength(N, parts, r) + 1
<1> DEFINE d(x) == sliceLength(N, parts, x)
<1>1. ASSUME NEW x \in 0 .. parts - 1
      PROVE  /\ d(x) \in Nat
             /\ N < parts * d(x) + parts /\ parts * d(x) < N + parts
  <2> DEFINE f == firstIndex(N, parts, x)
             g == firstIndex(N, parts, x + 1)
             l == d(x)
  <2>0. x \in Nat /\ x + 1 \in Nat
    OBVIOUS
  <2>1. /\ f \in Nat /\ N * x <= parts * f /\ parts * f < N * x + parts
        /\ g \in Nat /\ N * (x + 1) <= parts * g /\ parts * g < N * (x + 1) + parts
    BY <2>0, RoundedUp
  <2>2. l \in Nat /\ g = f + l
    BY SlicesAreContiguous
  <2> HIDE DEF f, g, l
  <2>3. parts * g = parts * f + parts * l /\ N * (x + 1) = N * x + N
    BY <2>1, <2>2, Distribute
  <2>4. parts * f \in Nat /\ parts * l \in Nat /\ N * x \in Nat
    BY <2>1, <2>2, ProductNat
  <2>5. N < parts * l + parts /\ parts * l < N + parts
    BY <2>1, <2>3, <2>4
  <2> QED
    BY <2>2, <2>5 DEF l
<1>2. /\ d(q) \in Nat /\ d(r) \in Nat
      /\ parts * d(q) < N + parts /\ N < parts * d(r) + parts
  BY <1>1
<1> HIDE DEF d
<1>3. parts * (d(r) + 2) = parts * d(r) + parts * 2 /\ parts * 2 = parts + parts
  BY <1>2, Distribute
<1>4. parts * d(q) \in Nat /\ parts * d(r) \in Nat
  BY <1>2, ProductNat
<1>5. parts * d(q) < parts * (d(r) + 2)
  BY <1>2, <1>3, <1>4
<1>6. d(q) < d(r) + 2
  BY <1>2, <1>5, ProductMonotone
<1> QED
  BY <1>2, <1>6 DEF d

-----------------------------------------------------------------------------
(* Merging.                                                                *)

\* A chunk that mergeChunks puts in the place of two has their cells, and no
\* others; the two had none in common.
THEOREM MergingKeepsCells ==
  ASSUME NEW a \in Chunk, NEW b \in Chunk, NEW d \in Dim, mergeable(a, b, d)
  PROVE  /\ cells(merged(a, b, d)) = cells(a) \cup cells(b)
         /\ cells(a) \cap cells(b) = {}
<1> DEFINE l == lower(a, b, d)
           u == upper(a, b, d)
           x == merged(a, b, d)
<1>1. l \in Chunk /\ u \in Chunk /\ {l, u} = {a, b}
  BY DEF lower, upper
<1>2. u.offset[d] = l.offset[d] + l.extent[d]
  BY DEF mergeable
<1>3. \A e \in Dim \ {d} : l.offset[e] = u.offset[e] /\ l.extent[e] = u.extent[e]
  BY DEF mergeable, lower, upper
<1>4. x = [l EXCEPT !.extent[d] = l.extent[d] + u.extent[d]]
  BY DEF merged
<1> HIDE DEF l, u, x
<1>5. /\ l.offset \in [Dim -> Index] /\ l.extent \in [Dim -> 0 .. MaxExtent]
      /\ u.offset \in [Dim -> Index] /\ u.extent \in [Dim -> 0 .. MaxExtent]
  BY <1>1 DEF Chunk
<1>6. /\ x.offset = l.offset /\ x.extent[d] = l.extent[d] + u.extent[d]
      /\ \A e \in Dim \ {d} : x.extent[e] = l.extent[e]
  <2>1. x = [l EXCEPT !.extent = [l.extent EXCEPT ![d] = l.extent[d] + u.extent[d]]]
    BY <1>4
  <2>2. /\ x.offset = l.offset
        /\ x.extent = [l.extent EXCEPT ![d] = l.extent[d] + u.extent[d]]
    BY <1>1, <2>1 DEF Chunk
  <2> QED
    BY <1>5, <2>2
<1>7. ASSUME NEW p \in Cell
      PROVE  (p \in cells(x) <=> p \in cells(l) \/ p \in cells(u))
             /\ ~(p \in cells(l) /\ p \in cells(u))
  <2> DEFINE within(c, e) == c.offset[e] <= p[e] /\ p[e] < c.offset[e] + c.extent[e]
             others(c) == \A e \in Dim \ {d} : within(c, e)
  <2>1. /\ p \in cells(x) <=> within(x, d) /\ others(x)
        /\ p \in cells(l) <=> within(l, d) /\ others(l)
        /\ p \in cells(u) <=> within(u, d) /\ others(u)
    BY DEF cells
  <2>2. (others(x) <=> others(l)) /\ (others(u) <=> others(l))
    BY <1>3, <1>6
  <2>3. p[d] \in Nat /\ l.offset[d] \in Nat /\ l.extent[d] \in Nat /\ u.extent[d] \in Nat
    BY <1>5, RankAssumption DEF Cell, Index
  <2>4. (within(x, d) <=> within(l, d) \/ within(u, d)) /\ ~(within(l, d) /\ within(u, d))
    BY <1>2, <1>6, <2>3
  <2> HIDE DEF within, others
  <2> QED
    BY <2>1, <2>2, <2>4
<1>8. cells(x) = cells(l) \cup cells(u) /\ cells(l) \cap cells(u) = {}
  BY <1>7 DEF cells
<1> QED
  BY <1>1, <1>8 DEF x

-----------------------------------------------------------------------------
(* When no two chunks of a table can be merged.                            *)

LEMMA SmallestNumber ==
  ASSUME NEW S \in SUBSET Nat, S # {}
  PROVE  \E n \in S : \A m \in S : n <= m
<1>1. PICK n \in S : \A m \in S : <<m, n>> \notin OpToRel(<, Nat)
  BY WFMin, NatLessThanWellFounded, Zenon
<1>2. \A m \in S : ~(m < n)
  BY <1>1, Zenon DEF OpToRel
<1> QED
  BY <1>2

\* A chunk that is in the dataset and has cells.
Inside(c) ==
  /\ c \in Chunk
  /\ \A d \in Dim : 1 <= c.extent[d] /\ c.offset[d] + c.extent[d] <= MaxExtent

LEMMA InsideTypes ==
  ASSUME NEW c, Inside(c), NEW d \in Dim
  PROVE  /\ c.offset[d] \in Nat /\ c.extent[d] \in Nat /\ 1 <= c.extent[d]
         /\ c.offset[d] + c.extent[d] <= MaxExtent /\ MaxExtent \in Nat
BY RankAssumption DEF Inside, Chunk, Index

\* A cell of numbers between the borders is one.
LEMMA CellOf ==
  ASSUME NEW c, Inside(c), NEW p, p = [d \in Dim |-> p[d]],
         \A d \in Dim : p[d] \in Nat /\ c.offset[d] <= p[d] /\ p[d] < c.offset[d] + c.extent[d]
  PROVE  p \in cells(c)
<1>1. \A d \in Dim : p[d] \in Index
  BY InsideTypes DEF Index
<1>2. p \in Cell
  BY <1>1 DEF Cell
<1> QED
  BY <1>2 DEF cells

\* The first cell and the last one.
first(c) == c.offset
last(c) == [d \in Dim |-> c.offset[d] + c.extent[d] - 1]

LEMMA Corners ==
  ASSUME NEW c, Inside(c)
  PROVE  first(c) \in cells(c) /\ last(c) \in cells(c)
<1>1. first(c) \in cells(c)
  <2>1. first(c) = [d \in Dim |-> first(c)[d]]
    BY DEF first, Inside, Chunk
  <2>2. \A d \in Dim : /\ first(c)[d] \in Nat /\ c.offset[d] <= first(c)[d]
                       /\ first(c)[d] < c.offset[d] + c.extent[d]
    BY InsideTypes DEF first
  <2> QED
    BY <2>1, <2>2, CellOf
<1>2. last(c) \in cells(c)
  <2>1. last(c) = [d \in Dim |-> last(c)[d]]
    BY DEF last
  <2>2. \A d \in Dim : /\ last(c)[d] \in Nat /\ c.offset[d] <= last(c)[d]
                       /\ last(c)[d] < c.offset[d] + c.extent[d]
    BY InsideTypes DEF last
  <2> QED
    BY <2>1, <2>2, CellOf
<1> QED
  BY <1>1, <1>2

\* Two chunks without a common cell are apart in some dimension.
LEMMA Apart ==
  ASSUME NEW a, NEW b, Inside(a), Inside(b), cells(a) \cap cells(b) = {}
  PROVE  \E d \in Dim : \/ a.offset[d] + a.extent[d] <= b.offset[d]
                        \/ b.offset[d] + b.extent[d] <= a.offset[d]
<1> SUFFICES ASSUME \A d \in Dim : /\ ~(a.offset[d] + a.extent[d] <= b.offset[d])
                                   /\ ~(b.offset[d] + b.extent[d] <= a.offset[d])
             PROVE  FALSE
  OBVIOUS
<1> DEFINE p == [d \in Dim |-> IF a.offset[d] <= b.offset[d] THEN b.offset[d] ELSE a.offset[d]]
<1>1. p = [d \in Dim |-> p[d]]
  OBVIOUS
<1>2. \A d \in Dim : /\ p[d] \in Nat
                     /\ a.offset[d] <= p[d] /\ p[d] < a.offset[d] + a.extent[d]
                     /\ b.offset[d] <= p[d] /\ p[d] < b.offset[d] + b.extent[d]
  BY InsideTypes
<1> HIDE DEF p
<1>3. p \in cells(a) /\ p \in cells(b)
  BY <1>1, <1>2, CellOf
<1> QED
  BY <1>3

\* Of two chunks of which one lies behind the other, the cells between are in neither, and
\* neither are those beside the one and behind the other.
LEMMA BoxIsMergeable ==
  ASSUME NEW a, NEW b, Inside(a), Inside(b), NEW d \in Dim,
         a.offset[d] + a.extent[d] <= b.offset[d], IsBox(cells(a) \cup cells(b))
  PROVE  mergeable(a, b, d) /\ mergeable(b, a, d)
<1> DEFINE S == cells(a) \cup cells(b)
<1>0. first(a) \in S /\ last(a) \in S /\ first(b) \in S /\ last(b) \in S
  BY Corners
<1>1. ASSUME NEW p, p = [e \in Dim |-> p[e]],
             \A e \in Dim : /\ p[e] \in Nat /\ p[e] < MaxExtent
                            /\ \E x, y \in S : x[e] <= p[e] /\ p[e] <= y[e]
      PROVE  p \in S
  <2>1. p \in Cell
    <3>1. \A e \in Dim : p[e] \in Index
      BY <1>1, RankAssumption DEF Index
    <3> QED
      BY <1>1, <3>1 DEF Cell
  <2> QED
    BY <1>1, <2>1 DEF IsBox
<1>2. /\ \A p \in cells(a), e \in Dim : a.offset[e] <= p[e] /\ p[e] < a.offset[e] + a.extent[e]
      /\ \A p \in cells(b), e \in Dim : b.offset[e] <= p[e] /\ p[e] < b.offset[e] + b.extent[e]
  BY DEF cells
<1>3. \A e \in Dim : /\ a.offset[e] \in Nat /\ a.extent[e] \in Nat /\ 1 <= a.extent[e]
                     /\ b.offset[e] \in Nat /\ b.extent[e] \in Nat /\ 1 <= b.extent[e]
                     /\ a.offset[e] + a.extent[e] <= MaxExtent
                     /\ b.offset[e] + b.extent[e] <= MaxExtent /\ MaxExtent \in Nat
  BY InsideTypes
<1>4. /\ \A e \in Dim : first(a)[e] = a.offset[e] /\ first(b)[e] = b.offset[e]
      /\ \A e \in Dim : last(a)[e] = a.offset[e] + a.extent[e] - 1
      /\ \A e \in Dim : last(b)[e] = b.offset[e] + b.extent[e] - 1
  BY DEF first, last
<1> HIDE DEF S
<1>5. b.offset[d] = a.offset[d] + a.extent[d]
  <2> SUFFICES ASSUME a.offset[d] + a.extent[d] < b.offset[d]
               PROVE  FALSE
    BY <1>3
  <2> DEFINE p == [e \in Dim |-> IF e = d THEN a.offset[e] + a.extent[e] ELSE a.offset[e]]
  <2>1. p = [e \in Dim |-> p[e]]
    OBVIOUS
  <2>2. /\ p[d] = a.offset[d] + a.extent[d]
        /\ \A e \in Dim : e # d => p[e] = a.offset[e]
    OBVIOUS
  <2> HIDE DEF p
  <2>3. \A e \in Dim : p[e] \in Nat /\ p[e] < MaxExtent
    BY <1>3, <2>2
  <2>4. \A e \in Dim : \E x, y \in S : x[e] <= p[e] /\ p[e] <= y[e]
    <3> TAKE e \in Dim
    <3>1. CASE e = d
      <4>1. first(a)[e] <= p[e] /\ p[e] <= first(b)[e]
        BY <1>3, <1>4, <2>2, <3>1
      <4> QED
        BY <1>0, <4>1
    <3>2. CASE e # d
      <4>1. first(a)[e] <= p[e] /\ p[e] <= first(a)[e]
        BY <1>3, <1>4, <2>2, <3>2
      <4> QED
        BY <1>0, <4>1
    <3> QED
      BY <3>1, <3>2
  <2>5. p \in S
    BY <1>1, <2>1, <2>3, <2>4
  <2>6. ~(p[d] < a.offset[d] + a.extent[d]) /\ ~(b.offset[d] <= p[d])
    BY <1>3, <2>2
  <2> QED
    BY <1>2, <2>5, <2>6 DEF S
<1>6. ASSUME NEW e \in Dim, e # d
      PROVE  a.offset[e] = b.offset[e] /\ a.extent[e] = b.extent[e]
  \* A corner of one chunk, moved to the border of the other.
  <2>1. ASSUME NEW c \in {a, b}, NEW p \in S, NEW q \in S, p[d] = c.offset[d],
               q[e] < c.offset[e] \/ c.offset[e] + c.extent[e] <= q[e],
               \A f \in Dim : p[f] \in Nat /\ q[f] \in Nat /\ p[f] < MaxExtent /\ q[f] < MaxExtent
        PROVE  FALSE
    <3> DEFINE r == [f \in Dim |-> IF f = e THEN q[f] ELSE p[f]]
    <3>1. r = [f \in Dim |-> r[f]]
      OBVIOUS
    <3>2. r[e] = q[e] /\ \A f \in Dim : f # e => r[f] = p[f]
      OBVIOUS
    <3> HIDE DEF r
    <3>3. \A f \in Dim : r[f] \in Nat /\ r[f] < MaxExtent
      BY <2>1, <3>2
    <3>4. \A f \in Dim : \E x, y \in S : x[f] <= r[f] /\ r[f] <= y[f]
      <4> TAKE f \in Dim
      <4>1. CASE f = e
        <5>1. q[f] <= r[f] /\ r[f] <= q[f]
          BY <2>1, <3>2, <4>1
        <5> QED
          BY <5>1
      <4>2. CASE f # e
        <5>1. p[f] <= r[f] /\ r[f] <= p[f]
          BY <2>1, <3>2, <4>2
        <5> QED
          BY <5>1
      <4> QED
        BY <4>1, <4>2
    <3>5. r \in S
      BY <1>1, <3>1, <3>3, <3>4
    <3>6. r[d] = c.offset[d] /\ r[e] = q[e]
      BY <1>6, <2>1, <3>2
    <3>7. CASE c = a
      <4>1. r \notin cells(b)
        BY <1>2, <1>3, <1>5, <3>6, <3>7
      <4>2. r \notin cells(a)
        BY <1>2, <1>3, <2>1, <3>6, <3>7
      <4> QED
        BY <3>5, <4>1, <4>2 DEF S
    <3>8. CASE c = b
      <4>1. r \notin cells(a)
        BY <1>2, <1>3, <1>5, <3>6, <3>8
      <4>2. r \notin cells(b)
        BY <1>2, <1>3, <2>1, <3>6, <3>8
      <4> QED
        BY <3>5, <4>1, <4>2 DEF S
    <3> QED
      BY <2>1, <3>7, <3>8
  <2>2. /\ \A f \in Dim : first(a)[f] \in Nat /\ first(a)[f] < MaxExtent
        /\ \A f \in Dim : first(b)[f] \in Nat /\ first(b)[f] < MaxExtent
        /\ \A f \in Dim : last(a)[f] \in Nat /\ last(a)[f] < MaxExtent
        /\ \A f \in Dim : last(b)[f] \in Nat /\ last(b)[f] < MaxExtent
    BY <1>3, <1>4
  <2>3. first(a)[d] = a.offset[d] /\ first(b)[d] = b.offset[d]
    BY <1>4
  <2>4. ~(a.offset[e] < b.offset[e])
    <3>1. ~(first(a)[e] < b.offset[e])
      BY <1>0, <2>1, <2>2, <2>3
    <3> QED
      BY <1>4, <3>1
  <2>5. ~(b.offset[e] < a.offset[e])
    <3>1. ~(first(b)[e] < a.offset[e])
      BY <1>0, <2>1, <2>2, <2>3
    <3> QED
      BY <1>4, <3>1
  <2>6. ~(b.offset[e] + b.extent[e] <= last(a)[e])
    BY <1>0, <2>1, <2>2, <2>3
  <2>7. ~(a.offset[e] + a.extent[e] <= last(b)[e])
    BY <1>0, <2>1, <2>2, <2>3
  <2>8. /\ a.offset[e] \in Nat /\ a.extent[e] \in Nat
        /\ b.offset[e] \in Nat /\ b.extent[e] \in Nat
        /\ last(a)[e] = a.offset[e] + a.extent[e] - 1
        /\ last(b)[e] = b.offset[e] + b.extent[e] - 1
    BY <1>3, <1>4
  <2>9. a.offset[e] = b.offset[e]
    BY ONLY <2>4, <2>5, <2>8
  <2>10. ~(a.offset[e] + a.extent[e] < b.offset[e] + b.extent[e])
    BY ONLY <2>7, <2>8
  <2>11. ~(b.offset[e] + b.extent[e] < a.offset[e] + a.extent[e])
    BY ONLY <2>6, <2>8
  <2> QED
    BY ONLY <2>8, <2>9, <2>10, <2>11
<1>7. /\ a.offset[d] < b.offset[d] /\ ~(a.offset[d] > b.offset[d]) /\ b.offset[d] > a.offset[d]
  BY <1>3, <1>5
<1> QED
  BY <1>5, <1>6, <1>7 DEF mergeable, upper, lower

\* What a table is while it is merged.
ExactTable(t) ==
  /\ t \in Seq(Chunk)
  /\ \A k \in DOMAIN t : Inside(t[k])
  /\ \A j, k \in DOMAIN t : j # k => cells(t[j]) \cap cells(t[k]) = {}

LEMMA TableDomain ==
  ASSUME NEW t \in Seq(Chunk)
  PROVE  Len(t) \in Nat /\ DOMAIN t = 1 .. Len(t) /\ \A k \in DOMAIN t : t[k] \in Chunk
<1> DEFINE C == Chunk
<1>1. t \in Seq(C)
  OBVIOUS
<1> HIDE DEF C
<1>2. Len(t) \in Nat /\ DOMAIN t = 1 .. Len(t) /\ \A k \in DOMAIN t : t[k] \in C
  BY <1>1
<1> QED
  BY <1>2 DEF C

\* The loop of mergeChunks stops no sooner than it should.
LEMMA NoPairIsLeft ==
  ASSUME ExactTable(table), Pairs = {}, NEW j \in DOMAIN table, NEW k \in DOMAIN table, j # k
  PROVE  ~IsBox(cells(table[j]) \cup cells(table[k]))
<1>1. SUFFICES ASSUME NEW m \in DOMAIN table, NEW n \in DOMAIN table, m < n,
                      IsBox(cells(table[m]) \cup cells(table[n]))
               PROVE  FALSE
  <2>1. j \in Nat /\ k \in Nat /\ (j < k \/ k < j)
    BY TableDomain DEF ExactTable
  <2>2. cells(table[j]) \cup cells(table[k]) = cells(table[k]) \cup cells(table[j])
    OBVIOUS
  <2> QED
    BY <2>1, <2>2, Zenon
<1> DEFINE a == table[m]
           b == table[n]
<1>2. Inside(a) /\ Inside(b) /\ cells(a) \cap cells(b) = {}
  <2>1. m # n
    BY <1>1, TableDomain DEF ExactTable
  <2> QED
    BY <1>1, <2>1 DEF ExactTable
<1>3. IsBox(cells(a) \cup cells(b)) /\ IsBox(cells(b) \cup cells(a))
  <2>1. cells(a) \cup cells(b) = cells(b) \cup cells(a)
    OBVIOUS
  <2> QED
    BY <1>1, <2>1, Zenon
<1>4. \A d \in Dim : ~mergeable(a, b, d)
  <2>1. ASSUME NEW d \in Dim, mergeable(a, b, d)
        PROVE  <<m, n, d>> \in Pairs
    <3>1. m \in 1 .. Len(table) /\ n \in 1 .. Len(table)
      BY <1>1, TableDomain DEF ExactTable
    <3> QED
      BY <1>1, <2>1, <3>1 DEF Pairs
  <2> QED
    BY <2>1
<1> HIDE DEF a, b
<1>5. PICK d \in Dim : \/ a.offset[d] + a.extent[d] <= b.offset[d]
                       \/ b.offset[d] + b.extent[d] <= a.offset[d]
  BY <1>2, Apart
<1>6. CASE a.offset[d] + a.extent[d] <= b.offset[d]
  BY <1>2, <1>3, <1>4, <1>6, BoxIsMergeable
<1>7. CASE b.offset[d] + b.extent[d] <= a.offset[d]
  BY <1>2, <1>3, <1>4, <1>7, BoxIsMergeable
<1> QED
  BY <1>5, <1>6, <1>7

\* As long as there is a pair, there is a first one.
LEMMA FirstPairExists ==
  ASSUME table \in Seq(Chunk), Pairs # {}
  PROVE  FirstPair \in Pairs
<1>1. \A q \in Pairs : q = <<q[1], q[2], q[3]>> /\ q[1] \in Nat /\ q[2] \in Nat /\ q[3] \in Nat
  BY TableDomain DEF Pairs, Dim
<1> DEFINE A == {q[1] : q \in Pairs}
<1>2. PICK x \in A : \A y \in A : x <= y
  <2>1. A \in SUBSET Nat /\ A # {}
    BY <1>1
  <2> HIDE DEF A
  <2> QED
    BY <2>1, SmallestNumber
<1> DEFINE B == {q[2] : q \in {r \in Pairs : r[1] = x}}
<1>3. PICK y \in B : \A z \in B : y <= z
  <2>1. B \in SUBSET Nat /\ B # {}
    BY <1>1, <1>2
  <2> HIDE DEF A, B
  <2> QED
    BY <2>1, SmallestNumber
<1> DEFINE C == {q[3] : q \in {r \in Pairs : r[1] = x /\ r[2] = y}}
<1>4. PICK z \in C : \A w \in C : z <= w
  <2>1. C \in SUBSET Nat /\ C # {}
    BY <1>1, <1>3
  <2> HIDE DEF A, B, C
  <2> QED
    BY <2>1, SmallestNumber
<1>5. PICK q \in Pairs : q[1] = x /\ q[2] = y /\ q[3] = z
  BY <1>4
<1>6. ASSUME NEW r \in Pairs
      PROVE  Before(q, r)
  <2>1. r[1] \in A /\ (r[1] = x => r[2] \in B) /\ (r[1] = x /\ r[2] = y => r[3] \in C)
    BY Zenon
  <2>2. x <= r[1] /\ (r[1] = x => y <= r[2]) /\ (r[1] = x /\ r[2] = y => z <= r[3])
    BY <1>2, <1>3, <1>4, <2>1, Zenon
  <2>3. r[1] \in Nat /\ r[2] \in Nat /\ q[1] \in Nat /\ q[2] \in Nat
    BY <1>1
  <2> QED
    BY ONLY <1>5, <2>2, <2>3 DEF Before
<1>7. \E s \in Pairs : \A r \in Pairs : Before(s, r)
  BY <1>6
<1> QED
  BY <1>7, Zenon DEF FirstPair

LEMMA Concatenated ==
  ASSUME NEW C, NEW p \in Seq(C), NEW q \in Seq(C), NEW u, u = p \o q
  PROVE  /\ u \in Seq(C) /\ Len(u) = Len(p) + Len(q) /\ DOMAIN u = 1 .. Len(p) + Len(q)
         /\ Len(p) \in Nat /\ Len(q) \in Nat /\ DOMAIN p = 1 .. Len(p) /\ DOMAIN q = 1 .. Len(q)
         /\ \A n \in DOMAIN u : u[n] = IF n <= Len(p) THEN p[n] ELSE q[n - Len(p)]
OBVIOUS

LEMMA OneRemoved ==
  ASSUME NEW C, NEW t \in Seq(C), NEW k \in 1 .. Len(t), NEW u, u = RemoveAt(t, k)
  PROVE  /\ u \in Seq(C) /\ Len(u) = Len(t) - 1
         /\ \A n \in 1 .. Len(u) : u[n] = IF n < k THEN t[n] ELSE t[n + 1]
<1> DEFINE p == SubSeq(t, 1, k - 1)
           q == SubSeq(t, k + 1, Len(t))
<1>0. k \in Nat /\ 1 <= k /\ k <= Len(t) /\ Len(t) \in Nat
  OBVIOUS
<1>1. p \in Seq(C) /\ Len(p) = k - 1 /\ \A n \in 1 .. k - 1 : p[n] = t[n]
  BY <1>0
<1>2. q \in Seq(C) /\ Len(q) = Len(t) - k /\ \A n \in 1 .. Len(t) - k : q[n] = t[k + n]
  BY <1>0
<1>3. u = p \o q
  BY DEF RemoveAt
<1> HIDE DEF p, q
<1>4. /\ u \in Seq(C) /\ Len(u) = Len(p) + Len(q)
      /\ \A n \in 1 .. Len(u) : u[n] = IF n <= Len(p) THEN p[n] ELSE q[n - Len(p)]
  <2>1. p \in Seq(C) /\ q \in Seq(C)
    BY <1>1, <1>2
  <2>2. /\ u \in Seq(C) /\ Len(u) = Len(p) + Len(q) /\ DOMAIN u = 1 .. Len(p) + Len(q)
        /\ \A n \in DOMAIN u : u[n] = IF n <= Len(p) THEN p[n] ELSE q[n - Len(p)]
    BY ONLY <1>3, <2>1, Concatenated
  <2>3. DOMAIN u = 1 .. Len(u)
    BY <2>2
  <2> QED
    BY <2>2, <2>3
<1>5. ASSUME NEW n \in 1 .. Len(u)
      PROVE  u[n] = IF n < k THEN t[n] ELSE t[n + 1]
  <2>1. CASE n < k
    <3>1. n <= Len(p) /\ n \in 1 .. k - 1
      BY <1>0, <1>1, <1>4, <2>1
    <3> QED
      BY <1>1, <1>4, <2>1, <3>1
  <2>2. CASE ~(n < k)
    <3>1. ~(n <= Len(p)) /\ n - Len(p) \in 1 .. Len(t) - k /\ k + (n - Len(p)) = n + 1
      BY <1>0, <1>1, <1>2, <1>4, <2>2
    <3>2. u[n] = q[n - Len(p)]
      BY <1>4, <3>1
    <3>3. q[n - Len(p)] = t[k + (n - Len(p))]
      BY <1>2, <3>1
    <3> QED
      BY <2>2, <3>1, <3>2, <3>3
  <2> QED
    BY <2>1, <2>2
<1>6. Len(u) = Len(t) - 1
  BY <1>0, <1>1, <1>2, <1>4
<1> QED
  BY <1>4, <1>5, <1>6

\* The table without two of its entries: where those that are kept were.
placeBefore(n, j, k) == IF n < j THEN n ELSE IF n < k - 1 THEN n + 1 ELSE n + 2

LacksTwo(s, t, j, k) ==
  /\ s \in Seq(Chunk) /\ Len(s) = Len(t) - 2
  /\ \A n \in DOMAIN s : s[n] = t[placeBefore(n, j, k)]

LEMMA TwoRemoved ==
  ASSUME NEW t \in Seq(Chunk), NEW j \in 1 .. Len(t), NEW k \in 1 .. Len(t), j < k,
         NEW s, s = RemoveAt(RemoveAt(t, k), j)
  PROVE  LacksTwo(s, t, j, k)
<1> DEFINE C == Chunk
           u == RemoveAt(t, k)
<1>1. t \in Seq(C) /\ Len(t) \in Nat /\ j \in Nat /\ k \in Nat /\ 1 <= j /\ k <= Len(t)
  BY TableDomain
<1> HIDE DEF C
<1>2. /\ u \in Seq(C) /\ Len(u) = Len(t) - 1
      /\ \A n \in 1 .. Len(u) : u[n] = IF n < k THEN t[n] ELSE t[n + 1]
  <2>1. k \in 1 .. Len(t) /\ t \in Seq(C)
    BY <1>1
  <2> QED
    BY <2>1, OneRemoved
<1>3. s = RemoveAt(u, j)
  OBVIOUS
<1> HIDE DEF u
<1>4. j <= Len(u)
  BY <1>1, <1>2
<1>5. /\ s \in Seq(C) /\ Len(s) = Len(u) - 1
      /\ \A n \in 1 .. Len(s) : s[n] = IF n < j THEN u[n] ELSE u[n + 1]
  <2>1. j \in 1 .. Len(u)
    BY ONLY <1>1, <1>2, <1>4
  <2> QED
    BY <1>2, <1>3, <2>1, OneRemoved
<1>6. DOMAIN s = 1 .. Len(s) /\ Len(s) = Len(t) - 2
  BY <1>1, <1>2, <1>5
<1>7. ASSUME NEW n \in 1 .. Len(s)
      PROVE  s[n] = t[IF n < j THEN n ELSE IF n < k - 1 THEN n + 1 ELSE n + 2]
  <2>1. CASE n < j
    <3>1. s[n] = u[n] /\ n \in 1 .. Len(u) /\ n < k
      BY ONLY <1>1, <1>2, <1>5, <1>6, <1>7, <2>1, j < k
    <3> QED
      BY <1>2, <2>1, <3>1
  <2>2. CASE ~(n < j) /\ n < k - 1
    <3>1. s[n] = u[n + 1] /\ n + 1 \in 1 .. Len(u) /\ n + 1 < k
      BY ONLY <1>1, <1>2, <1>5, <1>6, <1>7, <2>2, j < k
    <3> QED
      BY <1>2, <2>2, <3>1
  <2>3. CASE ~(n < j) /\ ~(n < k - 1)
    <3>1. s[n] = u[n + 1] /\ n + 1 \in 1 .. Len(u) /\ ~(n + 1 < k) /\ n + 1 + 1 = n + 2
      BY ONLY <1>1, <1>2, <1>5, <1>6, <1>7, <2>3, j < k
    <3>2. u[n + 1] = t[n + 1 + 1]
      BY <1>2, <3>1
    <3> QED
      BY <2>3, <3>1, <3>2
  <2> QED
    BY <2>1, <2>2, <2>3
<1> QED
  BY <1>5, <1>6, <1>7 DEF C, placeBefore, LacksTwo

LEMMA MergedInside ==
  ASSUME NEW a, NEW b, Inside(a), Inside(b), NEW d \in Dim, mergeable(a, b, d),
         NEW x, x = merged(a, b, d)
  PROVE  Inside(x)
<1> DEFINE l == lower(a, b, d)
           u == upper(a, b, d)
           w == l.extent[d] + u.extent[d]
           v == [l.extent EXCEPT ![d] = w]
<1>1. Inside(l) /\ Inside(u)
  BY DEF lower, upper
<1>2. u.offset[d] = l.offset[d] + l.extent[d]
  BY DEF mergeable
<1>3. x = [l EXCEPT !.extent = v]
  BY DEF merged
<1> HIDE DEF l, u
<1>4. /\ w \in 0 .. MaxExtent /\ 1 <= w /\ l.offset[d] + w <= MaxExtent
      /\ l.extent \in [Dim -> 0 .. MaxExtent] /\ l \in Chunk
  <2>1. /\ l.offset[d] \in Nat /\ l.extent[d] \in Nat /\ 1 <= l.extent[d] /\ MaxExtent \in Nat
        /\ u.offset[d] \in Nat /\ u.extent[d] \in Nat /\ u.offset[d] + u.extent[d] <= MaxExtent
    BY <1>1, InsideTypes
  <2>2. l.extent \in [Dim -> 0 .. MaxExtent] /\ l \in Chunk
    BY <1>1 DEF Inside, Chunk
  <2> QED
    BY <1>2, <2>1, <2>2
<1> HIDE DEF w
<1>5. v \in [Dim -> 0 .. MaxExtent] /\ v[d] = w /\ \A e \in Dim : e # d => v[e] = l.extent[e]
  BY <1>4
<1> HIDE DEF v
<1>6. x \in Chunk /\ x.offset = l.offset /\ x.extent = v
  BY <1>3, <1>4, <1>5 DEF Chunk
<1>7. ASSUME NEW e \in Dim
      PROVE  1 <= x.extent[e] /\ x.offset[e] + x.extent[e] <= MaxExtent
  <2>1. CASE e = d
    BY <1>4, <1>5, <1>6, <2>1
  <2>2. CASE e # d
    BY <1>1, <1>5, <1>6, <2>2, InsideTypes
  <2> QED
    BY <2>1, <2>2
<1> QED
  BY <1>6, <1>7 DEF Inside

\* One turn of the loop of mergeChunks.
LEMMA MergingKeepsTable ==
  ASSUME ExactTable(table), mergeChunks
  PROVE  /\ ExactTable(table')
         /\ UNION {cells(table'[k]) : k \in DOMAIN table'} = UNION {cells(table[k]) : k \in DOMAIN table}
         /\ 2 <= Len(table)
<1> DEFINE t == table
           j == FirstPair[1]
           k == FirstPair[2]
           d == FirstPair[3]
           s == RemoveAt(RemoveAt(t, k), j)
           x == merged(t[j], t[k], d)
           h == [n \in DOMAIN s |-> placeBefore(n, j, k)]
<1>1. /\ t \in Seq(Chunk) /\ Len(t) \in Nat /\ DOMAIN t = 1 .. Len(t)
      /\ \A n \in DOMAIN t : Inside(t[n])
      /\ \A m, n \in DOMAIN t : m # n => cells(t[m]) \cap cells(t[n]) = {}
  BY TableDomain DEF ExactTable
<1>2. FirstPair \in Pairs
  BY <1>1, FirstPairExists DEF mergeChunks
<1>3. /\ j \in 1 .. Len(t) /\ k \in 1 .. Len(t) /\ d \in Dim /\ j < k
      /\ mergeable(t[j], t[k], d)
  BY <1>2 DEF Pairs
<1>4. /\ table' = Append(s, x)
      /\ s = RemoveAt(RemoveAt(t, k), j) /\ x = merged(t[j], t[k], d)
  BY DEF mergeChunks
<1> HIDE DEF t, j, k, d, s, x
<1>5. /\ s \in Seq(Chunk) /\ Len(s) = Len(t) - 2
      /\ \A n \in DOMAIN s : s[n] = t[placeBefore(n, j, k)]
  <2>1. LacksTwo(s, t, j, k)
    BY <1>1, <1>3, <1>4, TwoRemoved
  <2> QED
    BY <2>1, Zenon DEF LacksTwo
<1>6. DOMAIN s = 1 .. Len(s) /\ Len(s) \in Nat
  BY <1>5, TableDomain
<1>7. Inside(x) /\ x \in Chunk
  BY <1>1, <1>3, <1>4, MergedInside DEF Inside
<1>8. cells(x) = cells(t[j]) \cup cells(t[k])
  BY <1>1, <1>3, <1>4, MergingKeepsCells DEF Inside
<1>9. /\ \A n \in DOMAIN s : h[n] \in DOMAIN t /\ h[n] # j /\ h[n] # k /\ s[n] = t[h[n]]
      /\ \A m, n \in DOMAIN s : m # n => h[m] # h[n]
  <2>1. ASSUME NEW n \in DOMAIN s
        PROVE  h[n] \in 1 .. Len(t) /\ h[n] # j /\ h[n] # k
    BY ONLY <1>1, <1>3, <1>5, <1>6, <2>1 DEF placeBefore
  <2>2. ASSUME NEW m \in DOMAIN s, NEW n \in DOMAIN s, m # n
        PROVE  h[m] # h[n]
    BY ONLY <1>1, <1>3, <1>5, <1>6, <2>2 DEF placeBefore
  <2> QED
    BY <1>1, <1>5, <2>1, <2>2
<1>10. ASSUME NEW y \in DOMAIN t, y # j, y # k
       PROVE  \E n \in DOMAIN s : h[n] = y
  <2>1. y \in Nat /\ 1 <= y /\ y <= Len(t)
    BY <1>1
  <2>2. CASE y < j
    <3>1. y \in DOMAIN s /\ h[y] = y
      BY ONLY <1>1, <1>3, <1>5, <1>6, <2>1, <2>2 DEF placeBefore
    <3> QED
      BY <3>1
  <2>3. CASE j < y /\ y < k
    <3>1. y - 1 \in DOMAIN s /\ h[y - 1] = y
      BY ONLY <1>1, <1>3, <1>5, <1>6, <2>1, <2>3 DEF placeBefore
    <3> QED
      BY <3>1
  <2>4. CASE k < y
    <3>1. y - 2 \in DOMAIN s /\ h[y - 2] = y
      BY ONLY <1>1, <1>3, <1>5, <1>6, <2>1, <2>4 DEF placeBefore
    <3> QED
      BY <3>1
  <2> QED
    BY <1>3, <1>10, <2>1, <2>2, <2>3, <2>4
<1> HIDE DEF h
<1> DEFINE n0 == Len(s) + 1
<1>11. /\ table' \in Seq(Chunk) /\ n0 \in DOMAIN table' /\ table'[n0] = x
       /\ \A n \in DOMAIN s : n \in DOMAIN table' /\ table'[n] = s[n]
       /\ \A n \in DOMAIN table' : n \in DOMAIN s \/ n = n0
  <2> DEFINE C == Chunk
  <2>1. s \in Seq(C) /\ x \in C
    BY <1>5, <1>7
  <2> HIDE DEF C
  <2>2. /\ table' \in Seq(C) /\ n0 \in DOMAIN table' /\ table'[n0] = x
        /\ \A n \in DOMAIN s : n \in DOMAIN table' /\ table'[n] = s[n]
        /\ \A n \in DOMAIN table' : n \in DOMAIN s \/ n = n0
    BY <1>4, <1>6, <2>1
  <2> QED
    BY <2>2 DEF C
<1> HIDE DEF n0
<1>12. \A n \in DOMAIN table' : Inside(table'[n])
  BY <1>1, <1>7, <1>9, <1>11
<1>13. \A n \in DOMAIN s : cells(s[n]) \cap cells(x) = {}
  <2>1. ASSUME NEW n \in DOMAIN s
        PROVE  cells(s[n]) \cap cells(x) = {}
    <3>1. cells(t[h[n]]) \cap cells(t[j]) = {} /\ cells(t[h[n]]) \cap cells(t[k]) = {}
      BY <1>1, <1>3, <1>9
    <3> QED
      BY <1>8, <1>9, <3>1
  <2> QED
    BY <2>1
<1>14. \A m, n \in DOMAIN table' : m # n => cells(table'[m]) \cap cells(table'[n]) = {}
  <2>1. ASSUME NEW m \in DOMAIN table', NEW n \in DOMAIN table', m # n
        PROVE  cells(table'[m]) \cap cells(table'[n]) = {}
    <3>1. CASE m \in DOMAIN s /\ n \in DOMAIN s
      BY <1>1, <1>9, <1>11, <2>1, <3>1
    <3>2. CASE m \in DOMAIN s /\ n = n0
      BY <1>11, <1>13, <3>2
    <3>3. CASE m = n0 /\ n \in DOMAIN s
      BY <1>11, <1>13, <3>3
    <3> QED
      BY <1>11, <2>1, <3>1, <3>2, <3>3
  <2> QED
    BY <2>1
<1>15. ASSUME NEW c
       PROVE  (\E n \in DOMAIN table' : c \in cells(table'[n])) <=> (\E n \in DOMAIN t : c \in cells(t[n]))
  <2>1. ASSUME NEW n \in DOMAIN table', c \in cells(table'[n])
        PROVE  \E m \in DOMAIN t : c \in cells(t[m])
    <3>1. CASE n \in DOMAIN s
      BY <1>9, <1>11, <2>1, <3>1
    <3>2. CASE n = n0
      BY <1>1, <1>3, <1>8, <1>11, <2>1, <3>2
    <3> QED
      BY <1>11, <3>1, <3>2
  <2>2. ASSUME NEW m \in DOMAIN t, c \in cells(t[m])
        PROVE  \E n \in DOMAIN table' : c \in cells(table'[n])
    <3>1. CASE m = j \/ m = k
      BY <1>8, <1>11, <2>2, <3>1
    <3>2. CASE m # j /\ m # k
      BY <1>9, <1>10, <1>11, <2>2, <3>2
    <3> QED
      BY <3>1, <3>2
  <2> QED
    BY <2>1, <2>2
<1>16. UNION {cells(table'[n]) : n \in DOMAIN table'} = UNION {cells(t[n]) : n \in DOMAIN t}
  BY <1>15
<1>17. 2 <= Len(t)
  BY <1>1, <1>3
<1> QED
  BY <1>11, <1>12, <1>14, <1>16, <1>17 DEF ExactTable, t

-----------------------------------------------------------------------------
(* runs: the table of an array is that of its runs, one after the other.   *)

\* What the run that begins at index i adds to the table, if one begins there.
segment(n, slab, i) ==
  IF begins(n, slab, i) THEN addIndex(i, runLength(n, slab, i), slab[i]) ELSE <<>>

UpTo(n, slab, u, j) ==
  u = [i \in 0 .. j |-> IF i = 0 THEN <<>> ELSE u[i - 1] \o segment(n, slab, i - 1)]

LEMMA UpToExists ==
  ASSUME NEW n \in Nat, NEW slab
  PROVE  \E u : UpTo(n, slab, u, n)
<1> DEFINE P(j) == \E u : UpTo(n, slab, u, j)
           S == {j \in 0 .. n : ~P(j)}
<1>1. SUFFICES ASSUME S # {} PROVE FALSE
  <2>1. n \in 0 .. n
    OBVIOUS
  <2> QED
    BY <2>1
<1>2. PICK j \in S : \A i \in S : j <= i
  <2>1. S \in SUBSET Nat
    OBVIOUS
  <2> HIDE DEF S
  <2> QED
    BY <1>1, <2>1, SmallestNumber
<1>3. j \in Nat /\ ~P(j)
  OBVIOUS
<1>4. CASE j = 0
  <2> DEFINE u == [i \in 0 .. 0 |-> <<>>]
  <2>1. u = [i \in 0 .. 0 |-> IF i = 0 THEN <<>> ELSE u[i - 1] \o segment(n, slab, i - 1)]
    <3>1. \A i \in 0 .. 0 : i = 0
      OBVIOUS
    <3> QED
      BY <3>1
  <2>2. UpTo(n, slab, u, 0)
    BY ONLY <2>1 DEF UpTo
  <2> QED
    BY <1>3, <1>4, <2>2
<1>5. CASE j # 0
  <2>1. j - 1 \in Nat /\ j - 1 \in 0 .. n /\ ~(j <= j - 1)
    BY <1>3, <1>5
  <2>2. P(j - 1)
    BY <1>2, <2>1
  <2>3. PICK w : UpTo(n, slab, w, j - 1)
    BY <2>2
  <2>4. \A i \in 0 .. j - 1 : w[i] = IF i = 0 THEN <<>> ELSE w[i - 1] \o segment(n, slab, i - 1)
    BY <2>3, Zenon DEF UpTo
  <2> DEFINE u == [i \in 0 .. j |-> IF i < j THEN w[i] ELSE w[j - 1] \o segment(n, slab, j - 1)]
  <2>5. ASSUME NEW i \in 0 .. j
        PROVE  u[i] = IF i = 0 THEN <<>> ELSE u[i - 1] \o segment(n, slab, i - 1)
    <3>1. CASE i = 0
      BY <1>3, <1>5, <2>4, <3>1
    <3>2. CASE i # 0 /\ i < j
      <4>1. i - 1 \in 0 .. j /\ i - 1 < j /\ i \in 0 .. j - 1
        BY <1>3, <3>2
      <4>2. u[i - 1] = w[i - 1] /\ u[i] = w[i]
        BY <3>2, <4>1
      <4> QED
        BY <2>4, <3>2, <4>1, <4>2
    <3>3. CASE i = j
      <4>1. j - 1 \in 0 .. j /\ j - 1 < j /\ j \in 0 .. j /\ ~(j < j)
        BY <1>3, <1>5
      <4>2. u[j] = w[j - 1] \o segment(n, slab, j - 1) /\ u[j - 1] = w[j - 1]
        BY ONLY <4>1, Zenon
      <4> QED
        BY <1>5, <3>3, <4>2
    <3> QED
      BY <1>3, <3>1, <3>2, <3>3
  <2>6. u = [i \in 0 .. j |-> u[i]]
    OBVIOUS
  <2> HIDE DEF u
  <2>7. UpTo(n, slab, u, j)
    BY ONLY <2>5, <2>6 DEF UpTo
  <2> QED
    BY <1>3, <2>7
<1> QED
  BY <1>4, <1>5

LEMMA RunsUpTo ==
  ASSUME NEW n \in Nat, NEW slab
  PROVE  \E u : UpTo(n, slab, u, n) /\ runs(n, slab) = u[n]
<1>1. runs(n, slab) = (CHOOSE u : UpTo(n, slab, u, n))[n]
  <2>1. \A u : UpTo(n, slab, u, n)
          <=> u = [i \in 0 .. n |->
                     IF i = 0 THEN <<>>
                     ELSE u[i - 1] \o (IF begins(n, slab, i - 1)
                                       THEN addIndex(i - 1, runLength(n, slab, i - 1), slab[i - 1])
                                       ELSE <<>>)]
    BY DEF UpTo, segment
  <2> QED
    BY <2>1 DEF runs
<1>2. PICK v : UpTo(n, slab, v, n)
  BY UpToExists
<1>3. UpTo(n, slab, CHOOSE u : UpTo(n, slab, u, n), n)
  BY <1>2, Zenon
<1> QED
  BY <1>1, <1>3

Entry(n, slab, i, l) ==
  [offset |-> <<i>> \o slab[i][l].offset,
   extent |-> <<runLength(n, slab, i)>> \o slab[i][l].extent]

\* Entry k of the table v comes from entry g[k] of the slab f[k], one of the
\* first j; each entry of each of these slabs where a run begins comes once.
Comes(n, slab, j, v, f, g, k) ==
  /\ f[k] \in Nat /\ f[k] < j /\ begins(n, slab, f[k])
  /\ g[k] \in DOMAIN slab[f[k]] /\ v[k] = Entry(n, slab, f[k], g[k])
Once(v, f, g) ==
  \A k, l \in DOMAIN v : f[k] = f[l] /\ g[k] = g[l] => k = l
AllCome(n, slab, j, v, f, g) ==
  \A i \in Nat : i < j /\ begins(n, slab, i) =>
    \A l \in DOMAIN slab[i] : \E k \in DOMAIN v : f[k] = i /\ g[k] = l
Enumerates(n, slab, T, j, v, f, g) ==
  /\ v \in Seq(T)
  /\ \A k \in DOMAIN v : Comes(n, slab, j, v, f, g, k)
  /\ Once(v, f, g)
  /\ AllCome(n, slab, j, v, f, g)

\* The slabs are tables whose entries become members of T.
SlabsOf(n, slab, T) ==
  \A i \in 0 .. n - 1 :
    /\ Len(slab[i]) \in Nat /\ DOMAIN slab[i] = 1 .. Len(slab[i])
    /\ begins(n, slab, i) => \A l \in DOMAIN slab[i] : Entry(n, slab, i, l) \in T

LEMMA OneSegmentMore ==
  ASSUME NEW n \in Nat, NEW slab, NEW T, SlabsOf(n, slab, T),
         NEW i \in 0 .. n - 1, NEW v, NEW f, NEW g, Enumerates(n, slab, T, i, v, f, g),
         NEW w, w = v \o segment(n, slab, i)
  PROVE  \E d, e : Enumerates(n, slab, T, i + 1, w, d, e)
<1>0. /\ i \in Nat /\ i < n /\ i + 1 \in Nat
      /\ Len(slab[i]) \in Nat /\ DOMAIN slab[i] = 1 .. Len(slab[i])
      /\ begins(n, slab, i) => \A l \in DOMAIN slab[i] : Entry(n, slab, i, l) \in T
  <2>1. i \in Nat /\ i < n /\ i + 1 \in Nat
    OBVIOUS
  <2> QED
    BY <2>1, Zenon DEF SlabsOf
<1>1. /\ v \in Seq(T) /\ Once(v, f, g) /\ AllCome(n, slab, i, v, f, g)
      /\ \A k \in DOMAIN v : Comes(n, slab, i, v, f, g, k)
  BY Zenon DEF Enumerates
<1>2. CASE ~begins(n, slab, i)
  <2>1. w = v
    <3>1. w = v \o <<>>
      BY <1>2, Zenon DEF segment
    <3> QED
      BY <1>1, <3>1
  <2>2. \A k \in DOMAIN v : Comes(n, slab, i + 1, v, f, g, k)
    <3>1. ASSUME NEW k \in DOMAIN v
          PROVE  Comes(n, slab, i + 1, v, f, g, k)
      <4>1. Comes(n, slab, i, v, f, g, k)
        BY <1>1
      <4>2. f[k] \in Nat /\ f[k] < i
        BY <4>1, Zenon DEF Comes
      <4>3. f[k] < i + 1
        BY ONLY <1>0, <4>2
      <4> QED
        BY <4>1, <4>3, Zenon DEF Comes
    <3> QED
      BY <3>1
  <2>3. AllCome(n, slab, i + 1, v, f, g)
    <3>1. ASSUME NEW h \in Nat, h < i + 1, begins(n, slab, h), NEW l \in DOMAIN slab[h]
          PROVE  \E k \in DOMAIN v : f[k] = h /\ g[k] = l
      <4>1. h # i
        BY <1>2, <3>1, Zenon
      <4>2. h < i
        BY ONLY <1>0, <3>1, <4>1
      <4> QED
        BY <1>1, <3>1, <4>2, Zenon DEF AllCome
    <3> QED
      BY <3>1, Zenon DEF AllCome
  <2>4. Enumerates(n, slab, T, i + 1, w, f, g)
    BY <1>1, <2>1, <2>2, <2>3, Zenon DEF Enumerates
  <2> QED
    BY <2>4
<1>3. CASE begins(n, slab, i)
  <2> DEFINE m == Len(v)
             s == segment(n, slab, i)
             d == [k \in DOMAIN w |-> IF k <= m THEN f[k] ELSE i]
             e == [k \in DOMAIN w |-> IF k <= m THEN g[k] ELSE k - m]
  <2>1. /\ s \in Seq(T) /\ Len(s) = Len(slab[i])
        /\ \A l \in DOMAIN slab[i] : s[l] = Entry(n, slab, i, l)
    <3>1. s = [l \in 1 .. Len(slab[i]) |-> Entry(n, slab, i, l)]
      <4>1. s = addIndex(i, runLength(n, slab, i), slab[i])
        BY <1>3, Zenon DEF segment
      <4>2. addIndex(i, runLength(n, slab, i), slab[i]) = [l \in DOMAIN slab[i] |-> Entry(n, slab, i, l)]
        BY DEF addIndex, Entry
      <4> QED
        BY <1>0, <4>1, <4>2
    <3> HIDE DEF s
    <3>2. \A l \in 1 .. Len(slab[i]) : Entry(n, slab, i, l) \in T
      BY <1>0, <1>3
    <3>3. s \in Seq(T) /\ Len(s) = Len(slab[i])
      BY ONLY <1>0, <3>1, <3>2
    <3> QED
      BY <1>0, <3>1, <3>3
  <2>2. w = v \o s
    OBVIOUS
  <2> HIDE DEF s
  <2>3. /\ w \in Seq(T) /\ DOMAIN w = 1 .. m + Len(slab[i]) /\ m \in Nat /\ DOMAIN v = 1 .. m
        /\ \A k \in DOMAIN w : w[k] = IF k <= m THEN v[k] ELSE s[k - m]
    <3>1. v \in Seq(T) /\ s \in Seq(T)
      BY <1>1, <2>1
    <3>2. /\ w \in Seq(T) /\ DOMAIN w = 1 .. Len(v) + Len(s)
          /\ Len(v) \in Nat /\ DOMAIN v = 1 .. Len(v)
          /\ \A k \in DOMAIN w : w[k] = IF k <= Len(v) THEN v[k] ELSE s[k - Len(v)]
      BY ONLY <2>2, <3>1, Concatenated
    <3> QED
      BY <2>1, <3>2
  <2> HIDE DEF m
  <2>4. \A k \in DOMAIN w : k <= m => k \in DOMAIN v /\ w[k] = v[k] /\ d[k] = f[k] /\ e[k] = g[k]
    BY <2>3
  <2>5. \A k \in DOMAIN w : ~(k <= m) =>
          /\ k - m \in DOMAIN slab[i] /\ w[k] = s[k - m] /\ d[k] = i /\ e[k] = k - m
    BY <1>0, <2>3
  <2>6. \A k \in DOMAIN v : k \in DOMAIN w /\ k <= m
    BY <1>0, <2>3
  <2>7. \A l \in DOMAIN slab[i] : \E k \in DOMAIN w : ~(k <= m) /\ k - m = l
    <3>1. ASSUME NEW l \in DOMAIN slab[i]
          PROVE  \E k \in DOMAIN w : ~(k <= m) /\ k - m = l
      <4>1. l + m \in DOMAIN w /\ ~(l + m <= m) /\ (l + m) - m = l
        BY ONLY <1>0, <2>3, <3>1
      <4> QED
        BY <4>1
    <3> QED
      BY <3>1
  <2> HIDE DEF d, e
  <2>8. ASSUME NEW k \in DOMAIN w
        PROVE  Comes(n, slab, i + 1, w, d, e, k)
    <3>1. CASE k <= m
      <4>1. Comes(n, slab, i, v, f, g, k)
        BY <1>1, <2>4, <3>1
      <4>2. f[k] \in Nat /\ f[k] < i
        BY <4>1, Zenon DEF Comes
      <4>3. f[k] < i + 1
        BY ONLY <1>0, <4>2
      <4>4. w[k] = v[k] /\ d[k] = f[k] /\ e[k] = g[k]
        BY <2>4, <3>1
      <4> QED
        BY <4>1, <4>3, <4>4, Zenon DEF Comes
    <3>2. CASE ~(k <= m)
      <4>1. k - m \in DOMAIN slab[i] /\ w[k] = s[k - m] /\ d[k] = i /\ e[k] = k - m
        BY <2>5, <3>2
      <4>2. s[k - m] = Entry(n, slab, i, k - m)
        BY <2>1, <4>1
      <4>3. i < i + 1
        BY <1>0
      <4> QED
        BY <1>0, <1>3, <4>1, <4>2, <4>3, Zenon DEF Comes
    <3> QED
      BY <3>1, <3>2
  <2>9. Once(w, d, e)
    <3>1. ASSUME NEW k \in DOMAIN w, NEW l \in DOMAIN w, d[k] = d[l], e[k] = e[l]
          PROVE  k = l
      <4>0. \A h \in DOMAIN v : f[h] # i
        <5>1. ASSUME NEW h \in DOMAIN v
              PROVE  f[h] # i
          <6>1. f[h] \in Nat /\ f[h] < i
            BY <1>1, Zenon DEF Comes
          <6> QED
            BY ONLY <1>0, <6>1
        <5> QED
          BY <5>1
      <4>1. CASE k <= m /\ l <= m
        BY <1>1, <2>4, <3>1, <4>1, Zenon DEF Once
      <4>2. CASE k <= m /\ ~(l <= m)
        BY <2>4, <2>5, <3>1, <4>0, <4>2, Zenon
      <4>3. CASE ~(k <= m) /\ l <= m
        BY <2>4, <2>5, <3>1, <4>0, <4>3, Zenon
      <4>4. CASE ~(k <= m) /\ ~(l <= m)
        <5>1. k - m = l - m
          BY <2>5, <3>1, <4>4
        <5>2. k \in Nat /\ l \in Nat /\ m \in Nat
          BY <1>0, <2>3
        <5> QED
          BY ONLY <5>1, <5>2
      <4> QED
        BY <4>1, <4>2, <4>3, <4>4
    <3> QED
      BY <3>1, Zenon DEF Once
  <2>10. AllCome(n, slab, i + 1, w, d, e)
    <3>1. ASSUME NEW h \in Nat, h < i + 1, begins(n, slab, h), NEW l \in DOMAIN slab[h]
          PROVE  \E k \in DOMAIN w : d[k] = h /\ e[k] = l
      <4>1. CASE h = i
        <5>1. PICK k \in DOMAIN w : ~(k <= m) /\ k - m = l
          BY <2>7, <3>1, <4>1
        <5>2. d[k] = i /\ e[k] = k - m
          BY <2>5, <5>1
        <5> QED
          BY <4>1, <5>1, <5>2
      <4>2. CASE h # i
        <5>1. h < i
          BY ONLY <1>0, <3>1, <4>2
        <5>2. PICK k \in DOMAIN v : f[k] = h /\ g[k] = l
          BY <1>1, <3>1, <5>1, Zenon DEF AllCome
        <5> QED
          BY <2>4, <2>6, <5>2
      <4> QED
        BY <4>1, <4>2
    <3> QED
      BY <3>1, Zenon DEF AllCome
  <2>11. Enumerates(n, slab, T, i + 1, w, d, e)
    BY <2>3, <2>8, <2>9, <2>10, Zenon DEF Enumerates
  <2> QED
    BY <2>11
<1> QED
  BY <1>2, <1>3

LEMMA RunsEnumerate ==
  ASSUME NEW n \in Nat, NEW slab, NEW T, SlabsOf(n, slab, T)
  PROVE  \E f, g : Enumerates(n, slab, T, n, runs(n, slab), f, g)
<1>1. PICK u : UpTo(n, slab, u, n) /\ runs(n, slab) = u[n]
  BY RunsUpTo
<1>2. \A i \in 0 .. n : u[i] = IF i = 0 THEN <<>> ELSE u[i - 1] \o segment(n, slab, i - 1)
  BY <1>1, Zenon DEF UpTo
<1> DEFINE P(j) == \E f, g : Enumerates(n, slab, T, j, u[j], f, g)
           S == {j \in 0 .. n : ~P(j)}
<1>3. SUFFICES ASSUME S # {} PROVE FALSE
  <2>1. n \in 0 .. n
    OBVIOUS
  <2> QED
    BY <1>1, <2>1
<1>4. PICK j \in S : \A i \in S : j <= i
  <2>1. S \in SUBSET Nat
    OBVIOUS
  <2> HIDE DEF S
  <2> QED
    BY <1>3, <2>1, SmallestNumber
<1>5. j \in 0 .. n /\ j \in Nat /\ ~P(j)
  OBVIOUS
<1>6. CASE j = 0
  <2>1. u[j] = <<>>
    BY <1>2, <1>5, <1>6
  <2>2. \A i \in Nat : ~(i < j)
    BY <1>6
  <2>3. <<>> \in Seq(T) /\ DOMAIN << >> = {}
    OBVIOUS
  <2>4. Enumerates(n, slab, T, j, <<>>, <<>>, <<>>)
    BY ONLY <2>2, <2>3, Zenon DEF Enumerates, Once, AllCome
  <2> QED
    BY <1>5, <2>1, <2>4
<1>7. CASE j # 0
  <2> DEFINE i == j - 1
  <2>1. i \in 0 .. n - 1 /\ i \in 0 .. n /\ i + 1 = j /\ ~(j <= i)
    BY <1>5, <1>7
  <2>2. P(i)
    BY <1>4, <2>1
  <2>3. PICK f, g : Enumerates(n, slab, T, i, u[i], f, g)
    BY <2>2
  <2>4. u[j] = u[i] \o segment(n, slab, i)
    BY <1>2, <1>5, <1>7
  <2> HIDE DEF i
  <2>5. \E d, e : Enumerates(n, slab, T, i + 1, u[j], d, e)
    BY <2>1, <2>3, <2>4, OneSegmentMore
  <2> QED
    BY <1>5, <2>1, <2>5
<1> QED
  BY <1>6, <1>7

\* A run goes on as long as the slabs are equal.
LEMMA RunLength ==
  ASSUME NEW n \in Nat, NEW slab, NEW i \in 0 .. n - 1
  PROVE  /\ runLength(n, slab, i) \in Nat /\ 1 <= runLength(n, slab, i)
         /\ i + runLength(n, slab, i) <= n
         /\ \A j \in i .. i + runLength(n, slab, i) - 1 : slab[j] = slab[i]
         /\ i + runLength(n, slab, i) < n => slab[i + runLength(n, slab, i)] # slab[i]
<1> DEFINE Fits(k) == /\ \A j \in i .. i + k - 1 : slab[j] = slab[i]
                      /\ i + k < n => slab[i + k] # slab[i]
           S == {k \in Nat : 1 <= k /\ (i + k < n => slab[i + k] # slab[i])}
<1>0. n \in Nat /\ i \in Nat /\ i < n
  OBVIOUS
<1>1. PICK k \in S : \A h \in S : k <= h
  <2>1. S \in SUBSET Nat /\ n - i \in S
    BY <1>0
  <2> HIDE DEF S
  <2> QED
    BY <2>1, SmallestNumber
<1>2. k \in Nat /\ 1 <= k /\ (i + k < n => slab[i + k] # slab[i])
  OBVIOUS
<1>3. k <= n - i
  <2>1. n - i \in S
    BY <1>0
  <2> QED
    BY <1>1, <2>1
<1>4. ASSUME NEW j \in i .. i + k - 1
      PROVE  slab[j] = slab[i]
  <2>1. CASE j = i
    BY <2>1
  <2>2. CASE j # i
    <3>1. j - i \in Nat /\ 1 <= j - i /\ i + (j - i) = j /\ ~(k <= j - i)
      BY <1>0, <1>2, <2>2
    <3>2. j - i \notin S
      BY <1>1, <3>1
    <3>3. ~(i + (j - i) < n => slab[i + (j - i)] # slab[i])
      BY <3>1, <3>2
    <3> QED
      BY <3>1, <3>3
  <2> QED
    BY <2>1, <2>2
<1>5. k \in 1 .. n - i /\ Fits(k)
  BY <1>0, <1>2, <1>3, <1>4
<1>6. runLength(n, slab, i) = CHOOSE h \in 1 .. n - i : Fits(h)
  BY DEF runLength
<1> HIDE DEF Fits
<1>7. runLength(n, slab, i) \in 1 .. n - i /\ Fits(runLength(n, slab, i))
  BY <1>5, <1>6, Zenon
<1> DEFINE r == runLength(n, slab, i)
<1> HIDE DEF r
<1>8. r \in Nat /\ 1 <= r /\ i + r <= n
  <2>1. r \in 1 .. n - i
    BY <1>7 DEF r
  <2> QED
    BY ONLY <1>0, <2>1
<1> QED
  BY <1>7, <1>8, Zenon DEF r, Fits

\* Each slab that is there lies in a run.
LEMMA RunOf ==
  ASSUME NEW n \in Nat, NEW slab, NEW x \in 0 .. n - 1, slab[x] # Null
  PROVE  \E i \in 0 .. n - 1 :
           /\ begins(n, slab, i) /\ slab[i] = slab[x]
           /\ i <= x /\ x < i + runLength(n, slab, i)
<1> DEFINE S == {i \in Nat : i <= x /\ \A j \in i .. x : slab[j] = slab[x]}
<1>0. x \in Nat /\ x < n
  OBVIOUS
<1>1. PICK i \in S : \A h \in S : i <= h
  <2>1. S \in SUBSET Nat /\ x \in S
    BY <1>0
  <2> HIDE DEF S
  <2> QED
    BY <2>1, SmallestNumber
<1>2. i \in Nat /\ i <= x /\ \A j \in i .. x : slab[j] = slab[x]
  OBVIOUS
<1>3. slab[i] = slab[x]
  BY <1>0, <1>2
<1>4. ASSUME i > 0, slab[i - 1] = slab[i]
      PROVE  FALSE
  <2>1. i - 1 \in Nat /\ i - 1 <= x /\ ~(i <= i - 1)
    BY <1>0, <1>2, <1>4
  <2>2. ASSUME NEW j \in i - 1 .. x
        PROVE  slab[j] = slab[x]
    <3>1. j = i - 1 \/ j \in i .. x
      BY <1>0, <1>2, <2>1
    <3> QED
      BY <1>2, <1>3, <1>4, <3>1
  <2>3. i - 1 \in S
    BY <2>1, <2>2
  <2> QED
    BY <1>1, <2>1, <2>3
<1>5. begins(n, slab, i)
  <2>1. slab[i] # Null /\ (i > 0 => slab[i - 1] # slab[i])
    BY <1>3, <1>4
  <2> QED
    BY <2>1, Zenon DEF begins
<1> DEFINE r == runLength(n, slab, i)
<1>6. /\ r \in Nat /\ 1 <= r /\ i + r <= n /\ i \in 0 .. n - 1
      /\ i + r < n => slab[i + r] # slab[i]
  <2>1. i \in 0 .. n - 1
    BY <1>0, <1>2
  <2> QED
    BY <2>1, RunLength
<1> HIDE DEF r
<1>7. x < i + r
  <2> SUFFICES ASSUME ~(x < i + r) PROVE FALSE
    OBVIOUS
  <2>1. i + r < n /\ i + r \in i .. x
    BY ONLY <1>0, <1>2, <1>6, ~(x < i + r)
  <2>2. slab[i + r] = slab[x]
    BY <1>2, <2>1
  <2> QED
    BY <1>3, <1>6, <2>1, <2>2
<1> QED
  BY <1>2, <1>3, <1>5, <1>6, <1>7 DEF r

\* Two runs have no index in common.
LEMMA RunsApart ==
  ASSUME NEW n \in Nat, NEW slab, NEW i \in 0 .. n - 1, NEW j \in 0 .. n - 1,
         begins(n, slab, j), i < j
  PROVE  i + runLength(n, slab, i) <= j
<1> DEFINE r == runLength(n, slab, i)
<1>1. /\ r \in Nat /\ \A h \in i .. i + r - 1 : slab[h] = slab[i]
  BY RunLength
<1>2. j > 0 => slab[j - 1] # slab[j]
  BY Zenon DEF begins
<1> HIDE DEF r
<1>3. i \in Nat /\ j \in Nat
  OBVIOUS
<1> SUFFICES ASSUME ~(i + r <= j) PROVE FALSE
  BY DEF r
<1>4. j \in i .. i + r - 1 /\ j - 1 \in i .. i + r - 1 /\ j > 0
  BY ONLY <1>1, <1>3, i < j, ~(i + r <= j)
<1> QED
  BY <1>1, <1>2, <1>4

-----------------------------------------------------------------------------
(* chunksInJSON: the array at position p, which is m indices deep, has a   *)
(* table of what is written in it.                                         *)

\* Entry x of the table of an array m indices deep, in the dimensions left.
Fitting(m) ==
  {x \in [offset : [1 .. Rank - m -> Index], extent : [1 .. Rank - m -> 0 .. MaxExtent]] :
     \A e \in 1 .. Rank - m : 1 <= x.extent[e] /\ x.offset[e] + x.extent[e] <= extent[m + e]}
Covers(m, x, c) ==
  \A e \in Dim : m < e => x.offset[e - m] <= c[e] /\ c[e] < x.offset[e - m] + x.extent[e - m]
Leads(m, p, c) == \A e \in Dim : e <= m => c[e] = p[e]

Good(m, p, t) ==
  /\ t \in Seq(Fitting(m))
  /\ \A c \in Cell : Leads(m, p, c) => (c \in written <=> \E k \in DOMAIN t : Covers(m, t[k], c))
  /\ \A c \in Cell : \A j, k \in DOMAIN t : Covers(m, t[j], c) /\ Covers(m, t[k], c) => j = k

HasInFront(g, a, f, r, S) ==
  g \in [1 .. r + 1 -> S] /\ g[1] = a /\ \A e \in 1 .. r : g[e + 1] = f[e]

LEMMA Prefixed ==
  ASSUME NEW r \in Nat, NEW S, NEW f \in [1 .. r -> S], NEW a \in S, NEW g, g = <<a>> \o f
  PROVE  HasInFront(g, a, f, r, S)
<1>1. f \in Seq(S) /\ Len(f) = r
  OBVIOUS
<1>2. <<a>> \in Seq(S) /\ Len(<<a>>) = 1 /\ <<a>>[1] = a
  OBVIOUS
<1> DEFINE q == <<a>>
<1> HIDE DEF q
<1>3. q \in Seq(S) /\ f \in Seq(S) /\ g = q \o f
  BY <1>1, <1>2 DEF q
<1>4. /\ g \in Seq(S) /\ Len(g) = Len(q) + Len(f) /\ DOMAIN g = 1 .. Len(q) + Len(f)
      /\ \A n \in DOMAIN g : g[n] = IF n <= Len(q) THEN q[n] ELSE f[n - Len(q)]
  BY ONLY <1>3, Concatenated
<1>5. Len(q) = 1 /\ q[1] = a
  BY <1>2 DEF q
<1>6. Len(g) = r + 1 /\ DOMAIN g = 1 .. r + 1
  BY <1>1, <1>4, <1>5
<1>7. g \in [1 .. r + 1 -> S]
  BY ONLY <1>4, <1>6, r \in Nat
<1>8. g[1] = a
  BY <1>4, <1>5, <1>6
<1>9. ASSUME NEW e \in 1 .. r
      PROVE  g[e + 1] = f[e]
  <2>1. e + 1 \in DOMAIN g /\ ~(e + 1 <= 1) /\ (e + 1) - 1 = e
    BY <1>6
  <2> QED
    BY <1>4, <1>5, <2>1
<1> QED
  BY <1>7, <1>8, <1>9, Zenon DEF HasInFront

\* A dimension is put in front of an entry.
LEMMA EntryFits ==
  ASSUME extent \in [Dim -> 1 .. MaxExtent], NEW m \in 0 .. Rank - 1, NEW slab,
         NEW i \in 0 .. extent[m + 1] - 1, NEW l,
         slab[i][l] \in Fitting(m + 1)
  PROVE  /\ Entry(extent[m + 1], slab, i, l) \in Fitting(m)
         /\ \A c \in Cell : Covers(m, Entry(extent[m + 1], slab, i, l), c)
              <=> /\ i <= c[m + 1] /\ c[m + 1] < i + runLength(extent[m + 1], slab, i)
                  /\ Covers(m + 1, slab[i][l], c)
<1> DEFINE n == extent[m + 1]
           r == Rank - (m + 1)
           L == runLength(n, slab, i)
           y == slab[i][l]
           x == Entry(n, slab, i, l)
<1>1. /\ m \in Nat /\ m + 1 \in Dim /\ r \in Nat /\ Rank - m = r + 1 /\ Rank \in Nat
      /\ n \in Nat /\ n <= MaxExtent /\ MaxExtent \in Nat
  BY RankAssumption DEF Dim
<1>2. /\ y.offset \in [1 .. r -> Index] /\ y.extent \in [1 .. r -> 0 .. MaxExtent]
      /\ \A e \in 1 .. r : 1 <= y.extent[e] /\ y.offset[e] + y.extent[e] <= extent[(m + 1) + e]
  BY DEF Fitting
<1>3. x = [offset |-> <<i>> \o y.offset, extent |-> <<L>> \o y.extent]
  BY DEF Entry
<1>4. L \in Nat /\ 1 <= L /\ i + L <= n
  BY <1>1, RunLength
<1> HIDE DEF L, y, x, r, n
<1>5. i \in Index /\ L \in 0 .. MaxExtent /\ i \in Nat
  BY <1>1, <1>4 DEF Index, n
<1>6. /\ x.offset \in [1 .. r + 1 -> Index] /\ x.offset[1] = i
      /\ \A e \in 1 .. r : x.offset[e + 1] = y.offset[e]
  <2>1. x.offset = <<i>> \o y.offset
    BY <1>3
  <2>2. HasInFront(x.offset, i, y.offset, r, Index)
    BY ONLY <1>1, <1>2, <1>5, <2>1, Prefixed
  <2> QED
    BY <2>2, Zenon DEF HasInFront
<1>7. /\ x.extent \in [1 .. r + 1 -> 0 .. MaxExtent] /\ x.extent[1] = L
      /\ \A e \in 1 .. r : x.extent[e + 1] = y.extent[e]
  <2>1. x.extent = <<L>> \o y.extent
    BY <1>3
  <2>2. HasInFront(x.extent, L, y.extent, r, 0 .. MaxExtent)
    BY ONLY <1>1, <1>2, <1>5, <2>1, Prefixed
  <2> QED
    BY <2>2, Zenon DEF HasInFront
<1>8. ASSUME NEW e \in 1 .. r + 1
      PROVE  1 <= x.extent[e] /\ x.offset[e] + x.extent[e] <= extent[m + e]
  <2>1. CASE e = 1
    BY <1>4, <1>6, <1>7, <2>1 DEF n
  <2>2. CASE e # 1
    <3>1. e - 1 \in 1 .. r /\ (e - 1) + 1 = e /\ (m + 1) + (e - 1) = m + e
      BY <1>1, <2>2
    <3>2. x.extent[e] = y.extent[e - 1] /\ x.offset[e] = y.offset[e - 1]
      BY <1>6, <1>7, <3>1
    <3> QED
      BY <1>2, <3>1, <3>2
  <2> QED
    BY <2>1, <2>2
<1>9. x \in Fitting(m)
  <2>1. x \in [offset : [1 .. r + 1 -> Index], extent : [1 .. r + 1 -> 0 .. MaxExtent]]
    BY <1>3, <1>6, <1>7
  <2> QED
    BY <1>1, <1>8, <2>1 DEF Fitting
<1>10. ASSUME NEW c \in Cell
       PROVE  Covers(m, x, c) <=> i <= c[m + 1] /\ c[m + 1] < i + L /\ Covers(m + 1, y, c)
  <2> DEFINE Between(a, h, b) == a <= h /\ h < a + b
  <2>1. Covers(m, x, c) <=> \A e \in Dim : m < e => Between(x.offset[e - m], c[e], x.extent[e - m])
    BY DEF Covers
  <2>2. Covers(m + 1, y, c)
          <=> \A e \in Dim : m + 1 < e => Between(y.offset[e - (m + 1)], c[e], y.extent[e - (m + 1)])
    BY DEF Covers
  <2>3. (i <= c[m + 1] /\ c[m + 1] < i + L)
          <=> Between(x.offset[(m + 1) - m], c[m + 1], x.extent[(m + 1) - m])
    <3>1. (m + 1) - m = 1
      BY <1>1
    <3> QED
      BY <1>6, <1>7, <3>1
  <2>4. ASSUME NEW e \in Dim, m + 1 < e
        PROVE  /\ x.offset[e - m] = y.offset[e - (m + 1)]
               /\ x.extent[e - m] = y.extent[e - (m + 1)]
    <3>1. e - (m + 1) \in 1 .. r /\ e - m = (e - (m + 1)) + 1
      BY <1>1, <2>4 DEF Dim, r
    <3> QED
      BY <1>6, <1>7, <3>1
  <2>5. \A e \in Dim : m < e <=> e = m + 1 \/ m + 1 < e
    BY <1>1 DEF Dim
  <2> HIDE DEF Between
  <2>6. ASSUME Covers(m, x, c)
        PROVE  i <= c[m + 1] /\ c[m + 1] < i + L /\ Covers(m + 1, y, c)
    <3>1. Between(x.offset[(m + 1) - m], c[m + 1], x.extent[(m + 1) - m])
      BY <1>1, <2>1, <2>5, <2>6
    <3>2. \A e \in Dim : m + 1 < e => Between(y.offset[e - (m + 1)], c[e], y.extent[e - (m + 1)])
      <4>1. ASSUME NEW e \in Dim, m + 1 < e
            PROVE  Between(y.offset[e - (m + 1)], c[e], y.extent[e - (m + 1)])
        <5>1. Between(x.offset[e - m], c[e], x.extent[e - m])
          BY <2>1, <2>5, <2>6, <4>1
        <5> QED
          BY <2>4, <4>1, <5>1
      <4> QED
        BY <4>1
    <3> QED
      BY <2>2, <2>3, <3>1, <3>2
  <2>7. ASSUME i <= c[m + 1], c[m + 1] < i + L, Covers(m + 1, y, c)
        PROVE  Covers(m, x, c)
    <3>1. ASSUME NEW e \in Dim, m < e
          PROVE  Between(x.offset[e - m], c[e], x.extent[e - m])
      <4>1. CASE e = m + 1
        BY <2>3, <2>7, <4>1
      <4>2. CASE m + 1 < e
        <5>1. Between(y.offset[e - (m + 1)], c[e], y.extent[e - (m + 1)])
          BY <2>2, <2>7, <4>2
        <5> QED
          BY <2>4, <4>2, <5>1
      <4> QED
        BY <2>5, <3>1, <4>1, <4>2
    <3> QED
      BY <2>1, <3>1
  <2> QED
    BY <2>6, <2>7
<1> QED
  BY <1>9, <1>10 DEF L, y, x, n

LEMMA LeadsFurther ==
  ASSUME NEW m \in 0 .. Rank - 1, NEW p \in [1 .. m -> Index], NEW c \in Cell, Leads(m, p, c)
  PROVE  /\ Append(p, c[m + 1]) \in [1 .. m + 1 -> Index]
         /\ Leads(m + 1, Append(p, c[m + 1]), c)
<1>1. /\ m \in Nat /\ m + 1 \in Dim /\ c[m + 1] \in Index
      /\ p \in Seq(Index) /\ Len(p) = m
  BY RankAssumption DEF Dim, Cell
<1> DEFINE a == c[m + 1]
           q == Append(p, a)
<1>2. /\ q \in [1 .. m + 1 -> Index] /\ q[m + 1] = c[m + 1]
      /\ \A e \in 1 .. m : q[e] = p[e]
  <2>1. a \in Index
    BY <1>1
  <2> HIDE DEF a
  <2>2. q \in Seq(Index) /\ Len(q) = m + 1 /\ q[m + 1] = a
    BY <1>1, <2>1
  <2>3. \A e \in 1 .. m : q[e] = p[e]
    BY <1>1, <2>1
  <2> HIDE DEF q
  <2>4. q \in [1 .. m + 1 -> Index]
    BY ONLY <1>1, <2>2
  <2> QED
    BY <2>2, <2>3, <2>4 DEF a
<1> HIDE DEF q
<1>3. ASSUME NEW e \in Dim, e <= m + 1
      PROVE  c[e] = q[e]
  <2>1. CASE e = m + 1
    BY <1>2, <2>1
  <2>2. CASE e # m + 1
    <3>1. e <= m /\ e \in 1 .. m
      BY <1>1, <1>3, <2>2 DEF Dim
    <3> QED
      BY <1>2, <3>1 DEF Leads
  <2> QED
    BY <2>1, <2>2
<1> QED
  BY <1>2, <1>3 DEF q, Leads

\* The table of an array is good if those of its slabs are.
LEMMA RunsAreGood ==
  ASSUME extent \in [Dim -> 1 .. MaxExtent], written \subseteq cells(Whole),
         NEW m \in 0 .. Rank - 1, NEW p \in [1 .. m -> Index], NEW slab,
         \A i \in 0 .. extent[m + 1] - 1 : Good(m + 1, Append(p, i), slab[i])
  PROVE  Good(m, p, runs(extent[m + 1], slab))
<1> DEFINE n == extent[m + 1]
           v == runs(n, slab)
           L(i) == runLength(n, slab, i)
<1>1. /\ m \in Nat /\ m + 1 \in Dim /\ n \in Nat /\ n <= MaxExtent /\ MaxExtent \in Nat
  BY RankAssumption DEF Dim
<1>2. ASSUME NEW i \in 0 .. n - 1
      PROVE  /\ slab[i] \in Seq(Fitting(m + 1)) /\ Len(slab[i]) \in Nat
             /\ DOMAIN slab[i] = 1 .. Len(slab[i])
             /\ \A l \in DOMAIN slab[i] : slab[i][l] \in Fitting(m + 1)
  <2> DEFINE F == Fitting(m + 1)
  <2>1. slab[i] \in Seq(F)
    BY <1>2, Zenon DEF Good
  <2> HIDE DEF F
  <2>2. Len(slab[i]) \in Nat /\ DOMAIN slab[i] = 1 .. Len(slab[i])
        /\ \A l \in DOMAIN slab[i] : slab[i][l] \in F
    BY ONLY <2>1
  <2> QED
    BY <2>1, <2>2 DEF F
<1>3. ASSUME NEW i \in 0 .. n - 1, NEW l \in DOMAIN slab[i]
      PROVE  /\ Entry(n, slab, i, l) \in Fitting(m)
             /\ \A c \in Cell : Covers(m, Entry(n, slab, i, l), c)
                  <=> /\ i <= c[m + 1] /\ c[m + 1] < i + L(i)
                      /\ Covers(m + 1, slab[i][l], c)
  <2>1. slab[i][l] \in Fitting(m + 1)
    BY <1>2
  <2> QED
    BY <2>1, EntryFits
<1>4. SlabsOf(n, slab, Fitting(m))
  BY <1>2, <1>3, Zenon DEF SlabsOf
<1> HIDE DEF n, L, v
<1>5. PICK f, g : Enumerates(n, slab, Fitting(m), n, v, f, g)
  BY <1>1, <1>4, RunsEnumerate DEF v
<1>6. v \in Seq(Fitting(m)) /\ Once(v, f, g) /\ AllCome(n, slab, n, v, f, g)
  BY <1>5, Zenon DEF Enumerates
<1>7. ASSUME NEW k \in DOMAIN v
      PROVE  /\ f[k] \in 0 .. n - 1 /\ begins(n, slab, f[k])
             /\ g[k] \in DOMAIN slab[f[k]] /\ v[k] = Entry(n, slab, f[k], g[k])
  <2>1. /\ f[k] \in Nat /\ f[k] < n /\ begins(n, slab, f[k])
        /\ g[k] \in DOMAIN slab[f[k]] /\ v[k] = Entry(n, slab, f[k], g[k])
    BY <1>5, Zenon DEF Enumerates, Comes
  <2>2. f[k] \in 0 .. n - 1
    BY ONLY <1>1, <2>1
  <2> QED
    BY <2>1, <2>2
<1>8. ASSUME NEW k \in DOMAIN v, NEW c \in Cell
      PROVE  Covers(m, v[k], c)
               <=> /\ f[k] <= c[m + 1] /\ c[m + 1] < f[k] + L(f[k])
                   /\ Covers(m + 1, slab[f[k]][g[k]], c)
  BY <1>3, <1>7
<1>9. ASSUME NEW i \in 0 .. n - 1
      PROVE  /\ L(i) \in Nat /\ 1 <= L(i) /\ i + L(i) <= n
             /\ \A j \in i .. i + L(i) - 1 : slab[j] = slab[i]
  BY <1>1, RunLength DEF L
<1>10. ASSUME NEW c \in Cell, NEW j \in DOMAIN v, NEW k \in DOMAIN v,
              Covers(m, v[j], c), Covers(m, v[k], c)
       PROVE  j = k
  <2>1. c[m + 1] \in Nat
    BY <1>1 DEF Cell, Index
  <2>2. /\ f[j] <= c[m + 1] /\ c[m + 1] < f[j] + L(f[j]) /\ f[j] \in 0 .. n - 1 /\ L(f[j]) \in Nat
        /\ f[k] <= c[m + 1] /\ c[m + 1] < f[k] + L(f[k]) /\ f[k] \in 0 .. n - 1 /\ L(f[k]) \in Nat
    BY <1>7, <1>8, <1>9, <1>10
  <2>3. ASSUME f[j] < f[k]
        PROVE  FALSE
    <3>1. f[j] + L(f[j]) <= f[k]
      BY <1>1, <1>7, <2>2, <2>3, RunsApart DEF L
    <3> QED
      BY ONLY <1>1, <2>1, <2>2, <3>1
  <2>4. ASSUME f[k] < f[j]
        PROVE  FALSE
    <3>1. f[k] + L(f[k]) <= f[j]
      BY <1>1, <1>7, <2>2, <2>4, RunsApart DEF L
    <3> QED
      BY ONLY <1>1, <2>1, <2>2, <3>1
  <2>5. f[j] = f[k]
    BY ONLY <1>1, <2>2, <2>3, <2>4
  <2>6. /\ Covers(m + 1, slab[f[j]][g[j]], c) /\ Covers(m + 1, slab[f[j]][g[k]], c)
        /\ g[j] \in DOMAIN slab[f[j]] /\ g[k] \in DOMAIN slab[f[j]]
        /\ Good(m + 1, Append(p, f[j]), slab[f[j]])
    <3>1. f[j] \in 0 .. extent[m + 1] - 1
      BY <2>2 DEF n
    <3> QED
      BY <1>7, <1>8, <1>10, <2>5, <3>1
  <2>7. g[j] = g[k]
    BY <2>6, Zenon DEF Good
  <2> QED
    BY <1>6, <2>5, <2>7, Zenon DEF Once
<1>11. ASSUME NEW c \in Cell, Leads(m, p, c)
       PROVE  c \in written <=> \E k \in DOMAIN v : Covers(m, v[k], c)
  <2> DEFINE x == c[m + 1]
  <2>1. x \in Nat /\ x \in Index
    BY <1>1 DEF Cell, Index
  <2>2. ASSUME x < n
        PROVE  /\ x \in 0 .. n - 1
               /\ c \in written <=> \E l \in DOMAIN slab[x] : Covers(m + 1, slab[x][l], c)
    <3>1. x \in 0 .. n - 1
      BY ONLY <1>1, <2>1, <2>2
    <3>2. Good(m + 1, Append(p, x), slab[x])
      BY <3>1 DEF n
    <3>3. Leads(m + 1, Append(p, x), c)
      BY <1>11, LeadsFurther
    <3> QED
      BY <3>1, <3>2, <3>3, Zenon DEF Good
  <2> HIDE DEF x
  <2>3. ASSUME c \in written
        PROVE  \E k \in DOMAIN v : Covers(m, v[k], c)
    <3>1. x < n
      <4>1. c \in cells(Whole)
        BY <2>3
      <4>2. c[m + 1] < Whole.offset[m + 1] + Whole.extent[m + 1]
        BY <1>1, <4>1, Zenon DEF cells
      <4>3. Whole.offset[m + 1] = 0 /\ Whole.extent[m + 1] = n
        BY <1>1 DEF Whole, n
      <4> QED
        BY <1>1, <4>2, <4>3 DEF x
    <3>2. PICK l \in DOMAIN slab[x] : Covers(m + 1, slab[x][l], c)
      BY <2>2, <2>3, <3>1
    <3>3. slab[x] # Null
      <4>1. slab[x] = Null => DOMAIN slab[x] = {}
        BY DEF Null
      <4> QED
        BY <3>2, <4>1
    <3>4. PICK i \in 0 .. n - 1 :
            begins(n, slab, i) /\ slab[i] = slab[x] /\ i <= x /\ x < i + L(i)
      BY <1>1, <2>2, <3>1, <3>3, RunOf DEF L
    <3>5. i \in Nat /\ i < n
      BY <1>1
    <3>6. PICK k \in DOMAIN v : f[k] = i /\ g[k] = l
      <4>1. \A h \in DOMAIN slab[i] : \E k \in DOMAIN v : f[k] = i /\ g[k] = h
        BY <1>6, <3>4, <3>5, Zenon DEF AllCome
      <4>2. l \in DOMAIN slab[i]
        BY <3>4
      <4> QED
        BY <4>1, <4>2
    <3>7. Covers(m, v[k], c)
      BY <1>8, <3>2, <3>4, <3>6 DEF x
    <3> QED
      BY <3>7
  <2>4. ASSUME NEW k \in DOMAIN v, Covers(m, v[k], c)
        PROVE  c \in written
    <3> DEFINE i == f[k]
    <3>1. /\ i <= x /\ x < i + L(i) /\ Covers(m + 1, slab[i][g[k]], c)
          /\ g[k] \in DOMAIN slab[i] /\ i \in 0 .. n - 1
      BY <1>7, <1>8, <2>4 DEF x
    <3>2. /\ L(i) \in Nat /\ i + L(i) <= n
          /\ \A j \in i .. i + L(i) - 1 : slab[j] = slab[i]
      BY <1>9, <3>1
    <3> HIDE DEF i
    <3>3. x \in i .. i + L(i) - 1 /\ x < n
      BY ONLY <1>1, <2>1, <3>1, <3>2
    <3>4. slab[x] = slab[i]
      BY <3>2, <3>3
    <3> QED
      BY <2>2, <3>1, <3>3, <3>4
  <2> QED
    BY <2>3, <2>4
<1> QED
  BY <1>6, <1>10, <1>11 DEF Good, v, n

\* An array whose slabs have one and the same entry has one entry.
LEMMA RunsOfEqual ==
  ASSUME NEW n \in Nat \ {0}, NEW slab, NEW y, \A i \in 0 .. n - 1 : slab[i] = <<y>>
  PROVE  runs(n, slab) = <<[offset |-> <<0>> \o y.offset, extent |-> <<n>> \o y.extent]>>
<1> DEFINE x == Entry(n, slab, 0, 1)
           v == runs(n, slab)
<1>0. 0 \in 0 .. n - 1 /\ n \in Nat /\ slab[0] = <<y>> /\ <<y>>[1] = y /\ DOMAIN <<y>> = {1} /\ <<y>> # Null
  BY DEF Null
<1>1. runLength(n, slab, 0) = n
  <2> DEFINE i == 0
             r == runLength(n, slab, i)
  <2>1. r \in Nat /\ i + r <= n /\ (i + r < n => slab[i + r] # slab[i])
    <3>1. i \in 0 .. n - 1
      BY <1>0
    <3> HIDE DEF i
    <3> QED
      BY <1>0, <3>1, RunLength
  <2> HIDE DEF r
  <2>2. ASSUME r < n
        PROVE  FALSE
    <3>1. r \in 0 .. n - 1 /\ 0 + r = r
      BY <2>1, <2>2
    <3> QED
      BY <1>0, <2>1, <2>2, <3>1
  <2> QED
    BY <2>1, <2>2 DEF r
<1>2. x = [offset |-> <<0>> \o y.offset, extent |-> <<n>> \o y.extent]
  BY <1>0, <1>1 DEF Entry
<1> HIDE DEF x, v
<1>3. \A i \in 0 .. n - 1 : begins(n, slab, i) <=> i = 0
  <2>1. ASSUME NEW i \in 0 .. n - 1
        PROVE  begins(n, slab, i) <=> i = 0
    <3>1. CASE i = 0
      BY <1>0, <3>1 DEF begins
    <3>2. CASE i # 0
      <4>1. i > 0 /\ i - 1 \in 0 .. n - 1
        BY <3>2
      <4>2. slab[i] = slab[i - 1]
        BY <4>1
      <4> QED
        BY <3>2, <4>1, <4>2, Zenon DEF begins
    <3> QED
      BY <3>1, <3>2
  <2> QED
    BY <2>1
<1>4. SlabsOf(n, slab, {x})
  <2>1. ASSUME NEW i \in 0 .. n - 1
        PROVE  /\ Len(slab[i]) \in Nat /\ DOMAIN slab[i] = 1 .. Len(slab[i])
               /\ begins(n, slab, i) => \A l \in DOMAIN slab[i] : Entry(n, slab, i, l) \in {x}
    <3>1. slab[i] = <<y>>
      OBVIOUS
    <3>2. Len(<<y>>) = 1 /\ DOMAIN <<y>> = 1 .. 1
      OBVIOUS
    <3>3. \A l \in DOMAIN <<y>> : l = 1
      BY <1>0
    <3>4. begins(n, slab, i) => \A l \in DOMAIN slab[i] : Entry(n, slab, i, l) \in {x}
      BY <1>3, <3>1, <3>3 DEF x
    <3> QED
      BY <3>1, <3>2, <3>4
  <2> QED
    BY <2>1, Zenon DEF SlabsOf
<1>5. PICK f, g : Enumerates(n, slab, {x}, n, v, f, g)
  BY <1>0, <1>4, RunsEnumerate DEF v
<1>6. v \in Seq({x}) /\ Once(v, f, g) /\ AllCome(n, slab, n, v, f, g)
  BY <1>5, Zenon DEF Enumerates
<1>7. Len(v) \in Nat /\ DOMAIN v = 1 .. Len(v) /\ \A k \in DOMAIN v : v[k] = x
  BY ONLY <1>6
<1>8. ASSUME NEW k \in DOMAIN v
      PROVE  f[k] = 0 /\ g[k] = 1
  <2>1. f[k] \in Nat /\ f[k] < n /\ begins(n, slab, f[k]) /\ g[k] \in DOMAIN slab[f[k]]
    BY <1>5, Zenon DEF Enumerates, Comes
  <2>2. f[k] \in 0 .. n - 1
    BY <1>0, <2>1
  <2> QED
    BY <1>0, <1>3, <2>1, <2>2
<1>9. \A k, l \in DOMAIN v : k = l
  BY <1>6, <1>8, Zenon DEF Once
<1>10. DOMAIN v # {}
  <2>1. 0 \in Nat /\ 0 < n /\ begins(n, slab, 0) /\ 1 \in DOMAIN slab[0]
    BY <1>0, <1>3
  <2> QED
    BY <1>6, <2>1, Zenon DEF AllCome
<1>11. Len(v) = 1
  BY <1>7, <1>9, <1>10
<1>12. v = <<x>>
  BY ONLY <1>6, <1>7, <1>11
<1> QED
  BY <1>2, <1>12 DEF v

\* What chunksInJSON finds at a position when f holds what it finds below.
ChunksAt(f, p) ==
  IF Len(p) = Rank
  THEN IF p \in written THEN <<[offset |-> <<>>, extent |-> <<>>]>> ELSE Null
  ELSE runs(extent[Len(p) + 1], [i \in 0 .. extent[Len(p) + 1] - 1 |-> f[Append(p, i)]])

LEMMA PositionBelow ==
  ASSUME extent \in [Dim -> 1 .. MaxExtent], NEW p \in Positions
  PROVE  /\ Len(p) \in 0 .. Rank /\ p \in [1 .. Len(p) -> Index]
         /\ Len(p) # Rank => \A i \in 0 .. extent[Len(p) + 1] - 1 :
              Append(p, i) \in Positions /\ Len(Append(p, i)) = Len(p) + 1
<1>1. PICK m \in 0 .. Rank : p \in [1 .. m -> Index]
  BY DEF Positions
<1>2. p \in Seq(Index) /\ Len(p) = m /\ m \in Nat /\ Rank \in Nat /\ MaxExtent \in Nat
  BY <1>1, RankAssumption
<1>3. ASSUME m # Rank, NEW i \in 0 .. extent[m + 1] - 1
      PROVE  Append(p, i) \in Positions /\ Len(Append(p, i)) = m + 1
  <2>1. m + 1 \in Dim /\ m + 1 \in 0 .. Rank
    BY <1>1, <1>2, <1>3 DEF Dim
  <2>2. i \in Index
    BY <1>2, <2>1 DEF Index
  <2> DEFINE q == Append(p, i)
             X == Index
  <2>3. p \in Seq(X) /\ i \in X
    BY <1>2, <2>2
  <2> HIDE DEF X
  <2>4. q \in Seq(X) /\ Len(q) = m + 1
    BY <1>2, <2>3
  <2> HIDE DEF q
  <2>5. q \in [1 .. m + 1 -> X]
    BY ONLY <2>4, <1>2
  <2>6. q \in Positions
    BY <2>1, <2>5 DEF X, Positions
  <2> QED
    BY <2>4, <2>6 DEF q
<1> QED
  BY <1>1, <1>2, <1>3

\* Functions that agree below a position find the same there.
LEMMA ChunksAgree ==
  ASSUME NEW f, NEW g, NEW p,
         Len(p) # Rank =>
           \A i \in 0 .. extent[Len(p) + 1] - 1 : f[Append(p, i)] = g[Append(p, i)]
  PROVE  ChunksAt(f, p) = ChunksAt(g, p)
<1>1. CASE Len(p) = Rank
  BY <1>1 DEF ChunksAt
<1>2. CASE Len(p) # Rank
  <2> DEFINE n == extent[Len(p) + 1]
  <2>1. [i \in 0 .. n - 1 |-> f[Append(p, i)]] = [i \in 0 .. n - 1 |-> g[Append(p, i)]]
    BY <1>2
  <2>2. \A h : ChunksAt(h, p) = runs(n, [i \in 0 .. n - 1 |-> h[Append(p, i)]])
    BY <1>2 DEF ChunksAt
  <2> QED
    BY <2>1, <2>2
<1> QED
  BY <1>1, <1>2

\* The recursion of chunksInJSON has a value at every position.
LEMMA ChunksRecursion ==
  ASSUME extent \in [Dim -> 1 .. MaxExtent]
  PROVE  \E f : chunksInJSON = f[<<>>] /\ \A p \in Positions : f[p] = ChunksAt(f, p)
<1>0. Rank \in Nat
  BY RankAssumption
<1> DEFINE P(j) == \E f : \A p \in Positions : Len(p) + j >= Rank => f[p] = ChunksAt(f, p)
           S == {j \in 0 .. Rank : ~P(j)}
<1>1. ASSUME S # {}
      PROVE  FALSE
  <2>1. PICK j \in S : \A i \in S : j <= i
    <3>1. S \in SUBSET Nat
      BY <1>0
    <3> HIDE DEF S
    <3> QED
      BY <1>1, <3>1, SmallestNumber
  <2>2. j \in Nat /\ j <= Rank /\ ~P(j)
    BY <1>0
  <2>3. \E f : \A p \in Positions : Len(p) + j > Rank => f[p] = ChunksAt(f, p)
    <3>1. CASE j = 0
      <4>1. \A p \in Positions : ~(Len(p) + j > Rank)
        <5>1. ASSUME NEW p \in Positions
              PROVE  ~(Len(p) + j > Rank)
          <6>1. Len(p) \in 0 .. Rank
            BY PositionBelow
          <6> QED
            BY <1>0, <3>1, <6>1
        <5> QED
          BY <5>1
      <4> QED
        BY <4>1
    <3>2. CASE j # 0
      <4>1. j - 1 \in Nat /\ j - 1 \in 0 .. Rank /\ ~(j <= j - 1)
        BY <1>0, <2>2, <3>2
      <4>2. P(j - 1)
        BY <2>1, <4>1
      <4>3. \A p \in Positions : Len(p) + j > Rank => Len(p) + (j - 1) >= Rank
        <5>1. ASSUME NEW p \in Positions, Len(p) + j > Rank
              PROVE  Len(p) + (j - 1) >= Rank
          <6>1. Len(p) \in 0 .. Rank
            BY PositionBelow
          <6> QED
            BY ONLY <1>0, <2>2, <5>1, <6>1
        <5> QED
          BY <5>1
      <4> QED
        BY <4>2, <4>3
    <3> QED
      BY <3>1, <3>2
  <2>4. PICK f : \A p \in Positions : Len(p) + j > Rank => f[p] = ChunksAt(f, p)
    BY <2>3
  <2> DEFINE g == [p \in Positions |-> IF Len(p) + j > Rank THEN f[p] ELSE ChunksAt(f, p)]
  <2>5. ASSUME NEW p \in Positions, Len(p) + j >= Rank
        PROVE  g[p] = ChunksAt(g, p)
    <3>1. g[p] = ChunksAt(f, p)
      BY <2>4
    <3>2. ASSUME Len(p) # Rank, NEW i \in 0 .. extent[Len(p) + 1] - 1
          PROVE  f[Append(p, i)] = g[Append(p, i)]
      <4>1. Append(p, i) \in Positions /\ Len(Append(p, i)) = Len(p) + 1 /\ Len(p) \in 0 .. Rank
        BY <3>2, PositionBelow
      <4>2. Len(Append(p, i)) + j > Rank
        BY ONLY <1>0, <2>2, <2>5, <4>1
      <4> QED
        BY <4>1, <4>2
    <3> HIDE DEF g
    <3>3. ChunksAt(f, p) = ChunksAt(g, p)
      BY <3>2, ChunksAgree
    <3> QED
      BY <3>1, <3>3
  <2> HIDE DEF g
  <2>6. P(j)
    BY <2>5
  <2> QED
    BY <2>2, <2>6
<1>2. PICK h : \A p \in Positions : h[p] = ChunksAt(h, p)
  <2>1. Rank \in 0 .. Rank
    BY <1>0
  <2>2. P(Rank)
    BY <1>1, <2>1
  <2>3. PICK h : \A p \in Positions : Len(p) + Rank >= Rank => h[p] = ChunksAt(h, p)
    BY <2>2
  <2>4. ASSUME NEW p \in Positions
        PROVE  Len(p) + Rank >= Rank
    <3>1. Len(p) \in 0 .. Rank
      BY PositionBelow
    <3> QED
      BY <1>0, <3>1
  <2> QED
    BY <2>3, <2>4
<1> DEFINE Fix(f) == f = [p \in Positions |-> ChunksAt(f, p)]
           g == [p \in Positions |-> h[p]]
<1>3. Fix(g)
  <2>1. ASSUME NEW p \in Positions
        PROVE  g[p] = ChunksAt(g, p)
    <3>1. ASSUME Len(p) # Rank, NEW i \in 0 .. extent[Len(p) + 1] - 1
          PROVE  h[Append(p, i)] = g[Append(p, i)]
      <4>1. Append(p, i) \in Positions
        BY <3>1, PositionBelow
      <4> QED
        BY <4>1
    <3>2. g[p] = h[p]
      OBVIOUS
    <3> HIDE DEF g
    <3>3. ChunksAt(h, p) = ChunksAt(g, p)
      BY <3>1, ChunksAgree
    <3> QED
      BY <1>2, <3>2, <3>3
  <2>2. g = [p \in Positions |-> g[p]]
    OBVIOUS
  <2> HIDE DEF g
  <2>3. [p \in Positions |-> g[p]] = [p \in Positions |-> ChunksAt(g, p)]
    BY <2>1
  <2> QED
    BY <2>2, <2>3
<1>4. chunksInJSON = (CHOOSE f : Fix(f))[<<>>]
  BY DEF chunksInJSON, ChunksAt
<1> HIDE DEF Fix, g
<1>5. Fix(CHOOSE f : Fix(f))
  BY <1>3, Zenon
<1>6. PICK f : chunksInJSON = f[<<>>] /\ Fix(f)
  BY <1>4, <1>5
<1>7. \A p \in Positions : f[p] = ChunksAt(f, p)
  BY <1>6, Zenon DEF Fix
<1> QED
  BY <1>6, <1>7

LEMMA Extended ==
  ASSUME NEW m \in Nat, NEW S, NEW p \in [1 .. m -> S], NEW a \in S
  PROVE  Append(p, a) \in [1 .. m + 1 -> S]
<1> DEFINE q == Append(p, a)
<1>1. p \in Seq(S) /\ Len(p) = m
  OBVIOUS
<1>2. q \in Seq(S) /\ Len(q) = m + 1
  BY <1>1
<1> HIDE DEF q
<1>3. q \in [1 .. m + 1 -> S]
  BY ONLY <1>2, m \in Nat
<1> QED
  BY <1>3 DEF q

LEMMA SameFunction ==
  ASSUME NEW D, NEW f, NEW g, f = [e \in D |-> f[e]], g = [e \in D |-> g[e]],
         \A e \in D : f[e] = g[e]
  PROVE  f = g
OBVIOUS

\* One cell: it is there, or it is not.
LEMMA CellIsGood ==
  ASSUME extent \in [Dim -> 1 .. MaxExtent], written \subseteq Cell,
         NEW p \in [1 .. Rank -> Index], NEW f
  PROVE  Good(Rank, p, ChunksAt(f, p))
<1> DEFINE t == ChunksAt(f, p)
           x == [offset |-> <<>>, extent |-> <<>>]
<1>0. Rank \in Nat /\ Rank - Rank = 0 /\ 1 .. 0 = {} /\ p \in Seq(Index) /\ Len(p) = Rank
  BY RankAssumption
<1>1. t = IF p \in written THEN <<x>> ELSE <<>>
  BY <1>0 DEF ChunksAt, Null
<1>2. x \in Fitting(Rank)
  <2>1. \A T : <<>> \in [{} -> T]
    OBVIOUS
  <2>2. x \in [offset : [{} -> Index], extent : [{} -> 0 .. MaxExtent]]
    BY <2>1
  <2>3. 1 .. Rank - Rank = {}
    BY <1>0
  <2> HIDE DEF x
  <2> QED
    BY <2>2, <2>3 DEF Fitting
<1>3. \A c : Covers(Rank, x, c)
  <2>1. \A e \in Dim : ~(Rank < e)
    BY <1>0 DEF Dim
  <2> QED
    BY <2>1, Zenon DEF Covers
<1>4. ASSUME NEW c \in Cell, Leads(Rank, p, c)
      PROVE  c = p
  <2>1. c = [e \in Dim |-> c[e]] /\ p = [e \in Dim |-> p[e]]
    BY DEF Cell, Dim
  <2>2. \A e \in Dim : c[e] = p[e]
    BY <1>0, <1>4 DEF Leads, Dim
  <2> QED
    BY ONLY <2>1, <2>2, SameFunction
<1> DEFINE F == Fitting(Rank)
<1> HIDE DEF t, x, F
<1>5. t \in Seq(F) /\ (DOMAIN t = IF p \in written THEN {1} ELSE {}) /\ \A k \in DOMAIN t : t[k] = x
  <2>1. x \in F
    BY <1>2 DEF F
  <2> QED
    BY <1>1, <2>1
<1>6. ASSUME NEW c \in Cell, Leads(Rank, p, c)
      PROVE  c \in written <=> \E k \in DOMAIN t : Covers(Rank, t[k], c)
  BY <1>3, <1>4, <1>5, <1>6
<1>7. \A j, k \in DOMAIN t : j = k
  BY <1>5
<1> QED
  BY <1>5, <1>6, <1>7 DEF Good, F, t

LEMMA ArraysAreGood ==
  ASSUME extent \in [Dim -> 1 .. MaxExtent], written \subseteq cells(Whole),
         NEW f, \A p \in Positions : f[p] = ChunksAt(f, p)
  PROVE  \A m \in 0 .. Rank : \A p \in [1 .. m -> Index] : Good(m, p, f[p])
<1>0. Rank \in Nat
  BY RankAssumption
<1> DEFINE P(j) == \A p \in [1 .. Rank - j -> Index] : Good(Rank - j, p, f[p])
           S == {j \in 0 .. Rank : ~P(j)}
<1>1. \A m \in 0 .. Rank : \A p \in [1 .. m -> Index] :
        p \in Positions /\ Len(p) = m /\ f[p] = ChunksAt(f, p)
  BY DEF Positions
<1>2. ASSUME S # {}
      PROVE  FALSE
  <2>1. PICK j \in S : \A i \in S : j <= i
    <3>1. S \in SUBSET Nat
      BY <1>0
    <3> HIDE DEF S
    <3> QED
      BY <1>2, <3>1, SmallestNumber
  <2>2. j \in Nat /\ j <= Rank /\ ~P(j)
    BY <1>0
  <2>3. CASE j = 0
    <3>1. Rank - j = Rank /\ Rank \in 0 .. Rank
      BY <1>0, <2>3
    <3>2. written \subseteq Cell
      BY DEF cells
    <3>3. \A p \in [1 .. Rank -> Index] : Good(Rank, p, f[p])
      BY <1>1, <3>1, <3>2, CellIsGood
    <3>4. P(j)
      BY <3>1, <3>3
    <3> QED
      BY <2>2, <3>4
  <2>4. CASE j # 0
    <3> DEFINE m == Rank - j
    <3>1. /\ j - 1 \in 0 .. Rank /\ ~(j <= j - 1) /\ m \in 0 .. Rank - 1 /\ m \in 0 .. Rank
          /\ Rank - (j - 1) = m + 1 /\ m \in Nat /\ m + 1 \in Dim /\ m # Rank
      BY <1>0, <2>2, <2>4 DEF Dim
    <3>2. P(j - 1)
      BY <2>1, <3>1
    <3>3. \A q \in [1 .. m + 1 -> Index] : Good(m + 1, q, f[q])
      BY <3>1, <3>2
    <3> HIDE DEF m
    <3>4. ASSUME NEW p \in [1 .. m -> Index]
          PROVE  Good(m, p, f[p])
      <4> DEFINE n == extent[m + 1]
                 slab == [i \in 0 .. n - 1 |-> f[Append(p, i)]]
      <4>1. Len(p) = m /\ f[p] = ChunksAt(f, p)
        BY <1>1, <3>1
      <4>2. f[p] = runs(n, slab)
        BY <3>1, <4>1 DEF ChunksAt
      <4>3. ASSUME NEW i \in 0 .. n - 1
            PROVE  Good(m + 1, Append(p, i), slab[i])
        <5>1. i \in Index
          BY <3>1, RankAssumption DEF Index
        <5>2. Append(p, i) \in [1 .. m + 1 -> Index]
          BY <3>1, <5>1, Extended
        <5>3. slab[i] = f[Append(p, i)]
          OBVIOUS
        <5> HIDE DEF slab, n
        <5> QED
          BY <3>3, <5>2, <5>3
      <4> HIDE DEF slab
      <4>4. Good(m, p, runs(n, slab))
        BY <3>1, <4>3, RunsAreGood
      <4> QED
        BY <4>2, <4>4
    <3>5. P(j)
      BY <3>4 DEF m
    <3> QED
      BY <2>2, <3>5
  <2> QED
    BY <2>3, <2>4
<1>3. ASSUME NEW m \in 0 .. Rank
      PROVE  \A p \in [1 .. m -> Index] : Good(m, p, f[p])
  <2>1. Rank - m \in 0 .. Rank /\ Rank - (Rank - m) = m
    BY <1>0
  <2>2. P(Rank - m)
    BY <1>2, <2>1
  <2> QED
    BY <2>1, <2>2
<1> QED
  BY <1>3

\* Where every cell is written, an array is one chunk.
Box(m) == [offset |-> [e \in 1 .. Rank - m |-> 0],
           extent |-> [e \in 1 .. Rank - m |-> extent[m + e]]]

LEMMA BoxInFront ==
  ASSUME extent \in [Dim -> 1 .. MaxExtent], NEW m \in 0 .. Rank - 1
  PROVE  Box(m) = [offset |-> <<0>> \o Box(m + 1).offset,
                   extent |-> <<extent[m + 1]>> \o Box(m + 1).extent]
<1> DEFINE r == Rank - (m + 1)
           n == extent[m + 1]
           b == Box(m + 1)
           u == <<0>> \o b.offset
           v == <<n>> \o b.extent
<1>1. /\ m \in Nat /\ m + 1 \in Dim /\ r \in Nat /\ Rank - m = r + 1 /\ Rank \in Nat
      /\ n \in Nat /\ extent \in [Dim -> Nat]
  BY RankAssumption DEF Dim
<1>2. /\ b.offset = [e \in 1 .. r |-> 0] /\ b.extent = [e \in 1 .. r |-> extent[(m + 1) + e]]
  BY DEF Box
<1>3. \A e \in 1 .. r : (m + 1) + e \in Dim
  BY <1>1 DEF Dim, r
<1> HIDE DEF r, n, b
<1>4. /\ b.offset \in [1 .. r -> Nat] /\ b.extent \in [1 .. r -> Nat]
      /\ \A e \in 1 .. r : b.offset[e] = 0 /\ b.extent[e] = extent[(m + 1) + e]
  BY <1>1, <1>2, <1>3
<1>5. HasInFront(u, 0, b.offset, r, Nat) /\ HasInFront(v, n, b.extent, r, Nat)
  <2>1. 0 \in Nat
    OBVIOUS
  <2>2. HasInFront(u, 0, b.offset, r, Nat)
    BY ONLY <1>1, <1>4, <2>1, Prefixed
  <2>3. HasInFront(v, n, b.extent, r, Nat)
    BY ONLY <1>1, <1>4, Prefixed
  <2> QED
    BY <2>2, <2>3
<1> HIDE DEF u, v
<1>6. /\ u \in [1 .. r + 1 -> Nat] /\ u[1] = 0 /\ \A e \in 1 .. r : u[e + 1] = b.offset[e]
      /\ v \in [1 .. r + 1 -> Nat] /\ v[1] = n /\ \A e \in 1 .. r : v[e + 1] = b.extent[e]
  BY <1>5, Zenon DEF HasInFront
<1>7. ASSUME NEW e \in 1 .. r + 1
      PROVE  u[e] = 0 /\ v[e] = extent[m + e]
  <2>1. CASE e = 1
    BY <1>6, <2>1 DEF n
  <2>2. CASE e # 1
    <3>1. e - 1 \in 1 .. r /\ (e - 1) + 1 = e /\ (m + 1) + (e - 1) = m + e
      BY <1>1, <2>2
    <3> QED
      BY <1>4, <1>6, <3>1
  <2> QED
    BY <2>1, <2>2
<1>8. u = [e \in 1 .. r + 1 |-> 0] /\ v = [e \in 1 .. r + 1 |-> extent[m + e]]
  BY <1>6, <1>7
<1>9. Box(m) = [offset |-> u, extent |-> v]
  BY <1>1, <1>8 DEF Box
<1> QED
  BY <1>9 DEF u, v, n, b

LEMMA FullArrays ==
  ASSUME extent \in [Dim -> 1 .. MaxExtent], cells(Whole) \subseteq written,
         NEW f, \A p \in Positions : f[p] = ChunksAt(f, p)
  PROVE  \A m \in 0 .. Rank : \A p \in [1 .. m -> Index] :
           (\A e \in 1 .. m : p[e] < extent[e]) => f[p] = <<Box(m)>>
<1>0. Rank \in Nat
  BY RankAssumption
<1> DEFINE Within(p, m) == \A e \in 1 .. m : p[e] < extent[e]
           P(j) == \A p \in [1 .. Rank - j -> Index] :
                     Within(p, Rank - j) => f[p] = <<Box(Rank - j)>>
           S == {j \in 0 .. Rank : ~P(j)}
<1>1. \A m \in 0 .. Rank : \A p \in [1 .. m -> Index] :
        p \in Positions /\ Len(p) = m /\ f[p] = ChunksAt(f, p)
  BY DEF Positions
<1> HIDE DEF Within
<1>2. ASSUME S # {}
      PROVE  FALSE
  <2>1. PICK j \in S : \A i \in S : j <= i
    <3>1. S \in SUBSET Nat
      BY <1>0
    <3> HIDE DEF S
    <3> QED
      BY <1>2, <3>1, SmallestNumber
  <2>2. j \in Nat /\ j <= Rank /\ ~P(j)
    BY <1>0
  <2>3. CASE j = 0
    <3>1. Rank - j = Rank /\ Rank \in 0 .. Rank /\ Rank - Rank = 0 /\ 1 .. 0 = {}
      BY <1>0, <2>3
    <3>2. ASSUME NEW p \in [1 .. Rank -> Index], Within(p, Rank)
          PROVE  f[p] = <<Box(Rank)>>
      <4>1. f[p] = ChunksAt(f, p) /\ Len(p) = Rank
        BY <1>1, <3>1
      <4>2. p \in Cell
        BY DEF Cell, Dim
      <4>3. ASSUME NEW d \in Dim
            PROVE  Whole.offset[d] <= p[d] /\ p[d] < Whole.offset[d] + Whole.extent[d]
        <5>1. Whole.offset[d] = 0 /\ Whole.extent[d] = extent[d] /\ extent[d] \in Nat
          BY RankAssumption DEF Whole
        <5>2. p[d] \in Nat /\ p[d] < extent[d]
          BY <3>2, RankAssumption DEF Dim, Index, Within
        <5> QED
          BY <5>1, <5>2
      <4>4. p \in written
        BY <4>2, <4>3 DEF cells
      <4>5. Box(Rank) = [offset |-> <<>>, extent |-> <<>>]
        <5>1. 1 .. Rank - Rank = {}
          BY <3>1
        <5>2. Box(Rank) = [offset |-> [e \in {} |-> 0], extent |-> [e \in {} |-> extent[Rank + e]]]
          BY <5>1 DEF Box
        <5> QED
          BY <5>2
      <4> QED
        BY <4>1, <4>4, <4>5 DEF ChunksAt
    <3>3. P(j)
      BY <3>1, <3>2
    <3> QED
      BY <2>2, <3>3
  <2>4. CASE j # 0
    <3> DEFINE m == Rank - j
    <3>1. /\ j - 1 \in 0 .. Rank /\ ~(j <= j - 1) /\ m \in 0 .. Rank - 1 /\ m \in 0 .. Rank
          /\ Rank - (j - 1) = m + 1 /\ m \in Nat /\ m + 1 \in Dim /\ m # Rank
      BY <1>0, <2>2, <2>4 DEF Dim
    <3>2. P(j - 1)
      BY <2>1, <3>1
    <3>3. \A q \in [1 .. m + 1 -> Index] : Within(q, m + 1) => f[q] = <<Box(m + 1)>>
      BY <3>1, <3>2
    <3> HIDE DEF m
    <3>4. ASSUME NEW p \in [1 .. m -> Index], Within(p, m)
          PROVE  f[p] = <<Box(m)>>
      <4> DEFINE n == extent[m + 1]
                 slab == [i \in 0 .. n - 1 |-> f[Append(p, i)]]
                 y == Box(m + 1)
      <4>0. n \in Nat \ {0}
        BY <3>1, RankAssumption
      <4>1. Len(p) = m /\ f[p] = ChunksAt(f, p)
        BY <1>1, <3>1
      <4>2. f[p] = runs(n, slab)
        BY <3>1, <4>1 DEF ChunksAt
      <4>3. ASSUME NEW i \in 0 .. n - 1
            PROVE  slab[i] = <<y>>
        <5>1. i \in Index
          BY <3>1, RankAssumption DEF Index
        <5> DEFINE q == Append(p, i)
        <5>2. q \in [1 .. m + 1 -> Index]
          BY <3>1, <5>1, Extended
        <5>3. slab[i] = f[q]
          OBVIOUS
        <5>4. q[m + 1] = i /\ \A e \in 1 .. m : q[e] = p[e]
          <6>1. p \in Seq(Index) /\ Len(p) = m
            BY <3>1
          <6> QED
            BY <5>1, <6>1
        <5>5. i < n
          BY <4>0
        <5> HIDE DEF slab, q
        <5>6. ASSUME NEW e \in 1 .. m + 1
              PROVE  q[e] < extent[e]
          <6>1. CASE e = m + 1
            BY <5>4, <5>5, <6>1
          <6>2. CASE e # m + 1
            <7>1. e \in 1 .. m
              BY <3>1, <6>2
            <7> QED
              BY <3>4, <5>4, <7>1 DEF Within
          <6> QED
            BY <6>1, <6>2
        <5>7. Within(q, m + 1)
          BY <5>6 DEF Within
        <5> QED
          BY <3>3, <5>2, <5>3, <5>7
      <4> HIDE DEF slab, y, n
      <4>4. runs(n, slab) = <<[offset |-> <<0>> \o y.offset, extent |-> <<n>> \o y.extent]>>
        BY <4>0, <4>3, RunsOfEqual
      <4>5. Box(m) = [offset |-> <<0>> \o y.offset, extent |-> <<n>> \o y.extent]
        BY <3>1, BoxInFront DEF n, y
      <4> QED
        BY <4>2, <4>4, <4>5
    <3>5. P(j)
      BY <3>4 DEF m
    <3> QED
      BY <2>2, <3>5
  <2> QED
    BY <2>3, <2>4
<1>3. ASSUME NEW m \in 0 .. Rank
      PROVE  \A p \in [1 .. m -> Index] : Within(p, m) => f[p] = <<Box(m)>>
  <2>1. Rank - m \in 0 .. Rank /\ Rank - (Rank - m) = m
    BY <1>0
  <2>2. P(Rank - m)
    BY <1>2, <2>1
  <2> QED
    BY <2>1, <2>2
<1> QED
  BY <1>3 DEF Within

\* The table chunksInJSON returns has the written cells, each in one chunk, and
\* is the whole dataset if all of it is written.
Tells(t) ==
  /\ ExactTable(t)
  /\ written = UNION {cells(t[k]) : k \in DOMAIN t}
  /\ written = cells(Whole) => t = <<Whole>>

\* chunksInJSON, whatever cells of the dataset were written.
THEOREM FreshTableTells ==
  ASSUME extent \in [Dim -> 1 .. MaxExtent], written \subseteq cells(Whole)
  PROVE  Tells(chunksInJSON)
<1>1. PICK f : chunksInJSON = f[<<>>] /\ \A p \in Positions : f[p] = ChunksAt(f, p)
  BY ChunksRecursion
<1> DEFINE t == f[<<>>]
<1>2. Rank \in Nat /\ 0 \in 0 .. Rank /\ Rank - 0 = Rank /\ MaxExtent \in Nat
  BY RankAssumption
<1>3. <<>> \in [1 .. 0 -> Index]
  OBVIOUS
<1>4. Good(0, <<>>, t)
  BY <1>1, <1>2, <1>3, ArraysAreGood
<1>5. ASSUME written = cells(Whole)
      PROVE  t = <<Whole>>
  <2>1. t = <<Box(0)>>
    <3>1. \A e \in 1 .. 0 : <<>>[e] < extent[e]
      OBVIOUS
    <3>2. cells(Whole) \subseteq written
      BY <1>5
    <3> QED
      BY <1>1, <1>2, <1>3, <3>1, <3>2, FullArrays
  <2>2. Box(0) = Whole
    <3>1. [e \in 1 .. Rank |-> extent[0 + e]] = extent
      BY DEF Dim
    <3> QED
      BY <1>2, <3>1 DEF Box, Whole, Dim
  <2> QED
    BY <2>1, <2>2
<1> HIDE DEF t
<1>6. \A x \in Fitting(0) : x \in Chunk /\ Inside(x)
  <2>1. ASSUME NEW x \in Fitting(0)
        PROVE  x \in Chunk /\ Inside(x)
    <3>1. /\ x \in Chunk
          /\ \A e \in Dim : 1 <= x.extent[e] /\ x.offset[e] + x.extent[e] <= extent[0 + e]
      BY <1>2 DEF Fitting, Chunk, Dim
    <3>2. ASSUME NEW e \in Dim
          PROVE  1 <= x.extent[e] /\ x.offset[e] + x.extent[e] <= MaxExtent
      <4>1. extent[0 + e] = extent[e] /\ extent[e] \in 1 .. MaxExtent
        BY DEF Dim
      <4>2. x.extent[e] \in 0 .. MaxExtent /\ x.offset[e] \in 0 .. MaxExtent - 1
        BY <3>1 DEF Chunk, Index
      <4>3. 1 <= x.extent[e] /\ x.offset[e] + x.extent[e] <= extent[e]
        BY <3>1, <4>1
      <4> QED
        BY ONLY <1>2, <4>1, <4>2, <4>3
    <3> QED
      BY <3>1, <3>2 DEF Inside
  <2> QED
    BY <2>1
<1> DEFINE F == Fitting(0)
           C == Chunk
<1>7. t \in Seq(C) /\ DOMAIN t = 1 .. Len(t) /\ \A k \in DOMAIN t : t[k] \in F /\ Inside(t[k])
  <2>1. t \in Seq(F)
    BY <1>4, Zenon DEF Good
  <2>2. \A x \in F : x \in C /\ Inside(x)
    BY <1>6
  <2> HIDE DEF F, C
  <2>3. DOMAIN t = 1 .. Len(t) /\ Len(t) \in Nat /\ \A k \in DOMAIN t : t[k] \in F
    BY <2>1
  <2>4. t \in Seq(C)
    <3>1. \A k \in 1 .. Len(t) : t[k] \in C
      BY <2>2, <2>3
    <3>2. t = [k \in 1 .. Len(t) |-> t[k]]
      BY <2>1
    <3> QED
      BY ONLY <2>3, <3>1, <3>2
  <2> QED
    BY <2>2, <2>3, <2>4
<1> HIDE DEF F
<1>8. ASSUME NEW x, NEW c \in Cell
      PROVE  Covers(0, x, c) <=> c \in cells(x)
  <2>1. \A e \in Dim : 0 < e /\ e - 0 = e
    BY DEF Dim
  <2> QED
    BY <2>1 DEF Covers, cells
<1>9. ASSUME NEW c \in Cell
      PROVE  c \in written <=> \E k \in DOMAIN t : c \in cells(t[k])
  <2>1. Leads(0, <<>>, c)
    BY DEF Leads, Dim
  <2>2. c \in written <=> \E k \in DOMAIN t : Covers(0, t[k], c)
    BY <1>4, <2>1, Zenon DEF Good
  <2> QED
    BY <1>8, <2>2
<1>10. written = UNION {cells(t[k]) : k \in DOMAIN t}
  <2>1. written \subseteq Cell /\ \A k \in DOMAIN t : cells(t[k]) \subseteq Cell
    BY DEF cells
  <2> QED
    BY <1>9, <2>1
<1>11. ASSUME NEW j \in DOMAIN t, NEW k \in DOMAIN t, j # k
       PROVE  cells(t[j]) \cap cells(t[k]) = {}
  <2>1. ASSUME NEW c, c \in cells(t[j]), c \in cells(t[k])
        PROVE  FALSE
    <3>1. c \in Cell
      BY <2>1 DEF cells
    <3>2. Covers(0, t[j], c) /\ Covers(0, t[k], c)
      BY <1>8, <2>1, <3>1
    <3> QED
      BY <1>4, <1>11, <3>1, <3>2, Zenon DEF Good
  <2> QED
    BY <2>1
<1> QED
  BY <1>1, <1>5, <1>7, <1>10, <1>11, Zenon DEF t, C, Tells, ExactTable

-----------------------------------------------------------------------------
(* The table, from the stores to the answer.                               *)

\* A cell of the slice of a rank is a cell of the dataset that this rank owns.
LEMMA SliceCells ==
  ASSUME extent \in [Dim -> 1 .. MaxExtent], NEW e \in Dim, NEW n \in Nat, NEW r \in 0 .. n
  PROVE  \A p \in Cell : p \in cells(sliceBlock(extent, e, n, r))
           <=> r < n /\ p \in cells(Whole) /\ Owns(extent[e], n, r, p[e])
<1> SUFFICES ASSUME NEW p \in Cell
             PROVE  p \in cells(sliceBlock(extent, e, n, r))
                      <=> r < n /\ p \in cells(Whole) /\ Owns(extent[e], n, r, p[e])
  OBVIOUS
<1> DEFINE b == sliceBlock(extent, e, n, r)
           N == extent[e]
<1>0. /\ \A d \in Dim : p[d] \in Nat /\ extent[d] \in Nat
      /\ N \in Nat /\ r \in Nat
  BY RankAssumption DEF Cell, Index
<1>1. CASE r >= n
  <2>1. b.offset[e] = 0 /\ b.extent[e] = 0
    BY <1>1 DEF sliceBlock
  <2> HIDE DEF b
  <2>2. p \notin cells(b)
    <3>1. ~(p[e] < b.offset[e] + b.extent[e])
      BY <1>0, <2>1
    <3> QED
      BY <3>1 DEF cells
  <2> QED
    BY <1>0, <1>1, <2>2 DEF b
<1>2. CASE ~(r >= n)
  <2>0. n \in Nat \ {0} /\ r \in 0 .. n - 1 /\ r < n
    BY <1>0, <1>2
  <2> DEFINE F == firstIndex(N, n, r)
             L == sliceLength(N, n, r)
  <2>1. b = [offset |-> [d \in Dim |-> IF d = e THEN firstIndex(extent[d], n, r) ELSE 0],
             extent |-> [extent EXCEPT ![e] = L]]
    BY <1>2 DEF sliceBlock
  <2> HIDE DEF b, L
  <2>2. /\ b.offset[e] = F /\ b.extent[e] = L
        /\ \A d \in Dim \ {e} : b.offset[d] = 0 /\ b.extent[d] = extent[d]
    BY <2>1
  <2>3. Owns(N, n, r, p[e]) <=> F <= p[e] /\ p[e] < F + L
    BY DEF Owns, L
  <2>4. Owns(N, n, r, p[e]) => p[e] < N
    <3>1. ASSUME Owns(N, n, r, p[e])
          PROVE  p[e] < N
      <4>1. n * p[e] < N * (r + 1)
        BY <1>0, <2>0, <3>1, OwnerBounds
      <4>2. N * (r + 1) <= N * n
        <5>1. CASE N = 0
          BY <5>1, <2>0
        <5>2. CASE N # 0
          BY <1>0, <2>0, <5>2, ProductMonotone
        <5> QED
          BY <5>1, <5>2
      <4>3. N * n = n * N /\ n * p[e] \in Nat /\ N * (r + 1) \in Nat /\ n * N \in Nat
        BY <1>0, <2>0, Commute, ProductNat
      <4> HIDE DEF N
      <4>4. n * p[e] < n * N
        BY ONLY <4>1, <4>2, <4>3
      <4> QED
        BY <1>0, <2>0, <4>4, ProductMonotone
    <3> QED
      BY <3>1
  <2>5. p \in cells(b) <=> \A d \in Dim : b.offset[d] <= p[d] /\ p[d] < b.offset[d] + b.extent[d]
    BY DEF cells
  <2>6. p \in cells(Whole) <=> \A d \in Dim : p[d] < extent[d]
    <3>1. \A d \in Dim : Whole.offset[d] = 0 /\ Whole.extent[d] = extent[d]
      BY DEF Whole
    <3>2. \A d \in Dim : (Whole.offset[d] <= p[d] /\ p[d] < Whole.offset[d] + Whole.extent[d])
                           <=> p[d] < extent[d]
      BY <1>0, <3>1
    <3> QED
      BY <3>2 DEF cells
  <2>7. \A d \in Dim \ {e} : (b.offset[d] <= p[d] /\ p[d] < b.offset[d] + b.extent[d])
                               <=> p[d] < extent[d]
    BY <1>0, <2>2
  <2> QED
    BY <2>0, <2>2, <2>3, <2>4, <2>5, <2>6, <2>7 DEF b
<1> QED
  BY <1>0, <1>1, <1>2

\* What is written lies in the dataset; a table that is merged, or answered,
\* tells what is written; the cells of the slices that are stored are there.
TableInv ==
  /\ TypeOK
  /\ written \subseteq cells(Whole)
  /\ phase # "idle" => Tells(table)
  /\ phase = "answered" => Pairs = {}
  /\ size > 0 => \A r \in ranks : cells(sliceBlock(extent, dim, size, r)) \subseteq written

LEMMA TableInvInit ==
  ASSUME Init
  PROVE  TableInv
<1>1. extent \in [Dim -> 1 .. MaxExtent] /\ size \in Sizes /\ written = {} /\ ranks = {}
      /\ table = <<>> /\ phase = "idle"
  BY DEF Init
<1>2. dim \in Dim
  <2>1. 1 \in Dim
    BY RankAssumption DEF Dim
  <2>2. dim \in IF size = 0 THEN {1} ELSE Dim
    BY DEF Init
  <2> QED
    BY <1>1, <2>1, <2>2
<1>3. table \in Seq(Chunk)
  BY <1>1
<1>4. TypeOK
  BY <1>1, <1>2, <1>3 DEF TypeOK
<1> QED
  BY <1>1, <1>4 DEF TableInv

\* A store of cells of the dataset.
LEMMA StoreKeepsTableInv ==
  ASSUME TableInv, NEW c, Store(c), cells(c) \subseteq cells(Whole),
         ranks' \subseteq 0 .. size,
         size > 0 => \A r \in ranks' :
           r \in ranks \/ cells(sliceBlock(extent, dim, size, r)) \subseteq cells(c)
  PROVE  TableInv'
<1>1. /\ written' = written \cup cells(c) /\ table' = <<>> /\ phase' = "idle"
      /\ extent' = extent /\ size' = size /\ dim' = dim
  BY DEF Store
<1>2. TypeOK /\ written \subseteq cells(Whole)
      /\ (size > 0 => \A r \in ranks : cells(sliceBlock(extent, dim, size, r)) \subseteq written)
  BY DEF TableInv
<1>3. cells(c) \subseteq Cell
  BY DEF cells
<1>4. table' \in Seq(Chunk)
  BY <1>1
<1>5. TypeOK'
  BY <1>1, <1>2, <1>3, <1>4 DEF TypeOK
<1>6. (written \subseteq cells(Whole))'
  BY <1>1, <1>2 DEF Whole, cells
<1>7. (size > 0 => \A r \in ranks : cells(sliceBlock(extent, dim, size, r)) \subseteq written)'
  BY <1>1, <1>2 DEF cells
<1>8. phase' # "answered" /\ phase' = "idle"
  BY <1>1
<1> QED
  BY <1>5, <1>6, <1>7, <1>8, Zenon DEF TableInv

LEMMA TableInvNext ==
  ASSUME TableInv, [Next]_vars
  PROVE  TableInv'
<1>1. /\ TypeOK /\ written \subseteq cells(Whole)
      /\ phase # "idle" => Tells(table)
      /\ phase = "answered" => Pairs = {}
      /\ size > 0 => \A r \in ranks : cells(sliceBlock(extent, dim, size, r)) \subseteq written
  BY DEF TableInv
<1>2. /\ extent \in [Dim -> 1 .. MaxExtent] /\ size \in Nat /\ dim \in Dim
      /\ ranks \subseteq 0 .. size /\ written \subseteq Cell
  BY <1>1, SizesAssumption DEF TypeOK
<1>3. ASSUME NEW c \in Chunk, storeChunk(c)
      PROVE  TableInv'
  <2>1. Store(c) /\ ranks' = ranks /\ \A d \in Dim : c.offset[d] + c.extent[d] <= extent[d]
    BY <1>3 DEF storeChunk
  <2>2. cells(c) \subseteq cells(Whole)
    <3>1. ASSUME NEW p \in cells(c)
          PROVE  p \in cells(Whole)
      <4>1. p \in Cell /\ \A d \in Dim : p[d] < c.offset[d] + c.extent[d]
        BY DEF cells
      <4>2. ASSUME NEW d \in Dim
            PROVE  Whole.offset[d] <= p[d] /\ p[d] < Whole.offset[d] + Whole.extent[d]
        <5>1. Whole.offset[d] = 0 /\ Whole.extent[d] = extent[d]
          BY DEF Whole
        <5>2. p[d] \in Nat /\ c.offset[d] \in Nat /\ c.extent[d] \in Nat /\ extent[d] \in Nat
          BY <1>2, <4>1, RankAssumption DEF Cell, Chunk, Index
        <5>3. p[d] < c.offset[d] + c.extent[d] /\ c.offset[d] + c.extent[d] <= extent[d]
          BY <2>1, <4>1
        <5> QED
          BY ONLY <5>1, <5>2, <5>3
      <4> QED
        BY <4>1, <4>2 DEF cells
    <3> QED
      BY <3>1
  <2>3. ranks' \subseteq 0 .. size /\ \A r \in ranks' : r \in ranks
    BY <1>2, <2>1
  <2> QED
    BY <2>1, <2>2, <2>3, StoreKeepsTableInv
<1>4. ASSUME NEW r \in 0 .. size, storeSlice(r)
      PROVE  TableInv'
  <2> DEFINE c == sliceBlock(extent, dim, size, r)
  <2>1. Store(c) /\ ranks' = ranks \cup {r}
    BY <1>4 DEF storeSlice
  <2>2. cells(c) \subseteq cells(Whole)
    <3>1. cells(c) \subseteq Cell
      BY DEF cells
    <3>2. \A p \in Cell : p \in cells(c) => p \in cells(Whole)
      BY <1>2, SliceCells
    <3> QED
      BY <3>1, <3>2
  <2>3. ranks' \subseteq 0 .. size
    BY <1>2, <2>1
  <2>4. \A q \in ranks' : q \in ranks \/ cells(sliceBlock(extent, dim, size, q)) \subseteq cells(c)
    BY <2>1
  <2> HIDE DEF c
  <2> QED
    BY <2>1, <2>2, <2>3, <2>4, StoreKeepsTableInv
<1>5. CASE availableChunks
  <2>1. /\ table' = chunksInJSON /\ phase' = "merge"
        /\ extent' = extent /\ written' = written /\ size' = size /\ dim' = dim /\ ranks' = ranks
    BY <1>5 DEF availableChunks
  <2>2. Tells(chunksInJSON)
    BY <1>1, <1>2, FreshTableTells
  <2>3. table' \in Seq(Chunk)
    BY <2>1, <2>2 DEF Tells, ExactTable
  <2>4. Tells(table)'
    BY <2>1, <2>2 DEF Tells, ExactTable, Whole, cells, Inside
  <2>5. TypeOK'
    BY <1>1, <2>1, <2>3 DEF TypeOK
  <2>6. (written \subseteq cells(Whole))'
        /\ (size > 0 => \A r \in ranks : cells(sliceBlock(extent, dim, size, r)) \subseteq written)'
    BY <1>1, <2>1 DEF Whole, cells
  <2>7. phase' # "answered"
    BY <2>1
  <2> QED
    BY <2>4, <2>5, <2>6, <2>7, Zenon DEF TableInv
<1>6. CASE mergeChunks
  <2>1. /\ phase = "merge" /\ phase' = phase
        /\ extent' = extent /\ written' = written /\ size' = size /\ dim' = dim /\ ranks' = ranks
    BY <1>6 DEF mergeChunks
  <2>2. Tells(table)
    BY <1>1, <2>1
  <2>3. /\ ExactTable(table')
        /\ UNION {cells(table'[k]) : k \in DOMAIN table'} = UNION {cells(table[k]) : k \in DOMAIN table}
        /\ 2 <= Len(table)
    BY <1>6, <2>2, MergingKeepsTable DEF Tells
  <2>4. written # cells(Whole)
    <3>1. Len(<<Whole>>) = 1
      OBVIOUS
    <3>2. table # <<Whole>>
      BY <2>3, <3>1
    <3> QED
      BY <2>2, <3>2 DEF Tells
  <2>5. /\ written' = UNION {cells(table'[k]) : k \in DOMAIN table'}
        /\ ~(written' = cells(Whole)')
    <3>1. cells(Whole)' = cells(Whole)
      BY <2>1 DEF Whole, cells
    <3> QED
      BY <2>1, <2>2, <2>3, <2>4, <3>1 DEF Tells
  <2>6. ExactTable(table)'
    BY <2>3 DEF ExactTable, Inside, cells
  <2>7. Tells(table)'
    BY <2>5, <2>6 DEF Tells, cells
  <2>8. TypeOK'
    <3>1. table' \in Seq(Chunk)
      BY <2>3 DEF ExactTable
    <3> QED
      BY <1>1, <2>1, <3>1 DEF TypeOK
  <2>9. (written \subseteq cells(Whole))'
        /\ (size > 0 => \A r \in ranks : cells(sliceBlock(extent, dim, size, r)) \subseteq written)'
    BY <1>1, <2>1 DEF Whole, cells
  <2>10. phase' # "answered"
    BY <2>1
  <2> QED
    BY <2>7, <2>8, <2>9, <2>10, Zenon DEF TableInv
<1>7. CASE Return
  <2>1. /\ phase = "merge" /\ Pairs = {} /\ phase' = "answered"
        /\ extent' = extent /\ written' = written /\ size' = size /\ dim' = dim /\ ranks' = ranks
        /\ table' = table
    BY <1>7 DEF Return
  <2>2. Tells(table)'
    BY <1>1, <2>1 DEF Tells, ExactTable, Whole, cells, Inside
  <2>3. TypeOK'
    BY <1>1, <2>1 DEF TypeOK
  <2>4. (written \subseteq cells(Whole))'
        /\ (size > 0 => \A r \in ranks : cells(sliceBlock(extent, dim, size, r)) \subseteq written)'
    BY <1>1, <2>1 DEF Whole, cells
  <2>5. Pairs' = {}
    BY <2>1 DEF Pairs
  <2> QED
    BY <2>2, <2>3, <2>4, <2>5, Zenon DEF TableInv
<1>8. CASE UNCHANGED vars
  <2>1. /\ extent' = extent /\ written' = written /\ size' = size /\ dim' = dim /\ ranks' = ranks
        /\ table' = table /\ phase' = phase
    BY <1>8 DEF vars
  <2>2. (phase # "idle" => Tells(table))'
    BY <1>1, <2>1 DEF Tells, ExactTable, Whole, cells, Inside
  <2>3. TypeOK'
    BY <1>1, <2>1 DEF TypeOK
  <2>4. (written \subseteq cells(Whole))'
        /\ (size > 0 => \A r \in ranks : cells(sliceBlock(extent, dim, size, r)) \subseteq written)'
    BY <1>1, <2>1 DEF Whole, cells
  <2>5. (phase = "answered" => Pairs = {})'
    BY <1>1, <2>1 DEF Pairs
  <2> QED
    BY <2>2, <2>3, <2>4, <2>5, Zenon DEF TableInv
<1> QED
  BY <1>3, <1>4, <1>5, <1>6, <1>7, <1>8 DEF Next

\* Stores, a call of availableChunks and each turn of mergeChunks keep it.
THEOREM TableInvariant == Spec => []TableInv
BY TableInvInit, TableInvNext, PTL DEF Spec

\* The table that availableChunks works on is always one of chunks of the
\* dataset, of its dimensions.
THEOREM TablesAreTyped == Spec => []TypeOK
<1>1. TableInv => TypeOK
  BY DEF TableInv
<1> QED
  BY <1>1, TableInvariant, PTL

\* From chunksInJSON to the last turn of mergeChunks, the table has every cell
\* that was written in exactly one chunk, and no other cell.
THEOREM TablesAreExact == Spec => []TableIsExact
<1>1. TableInv => TableIsExact
  BY DEF TableInv, TableIsExact, Tells, ExactTable
<1> QED
  BY <1>1, TableInvariant, PTL

\* When mergeChunks finds no pair any more, no two chunks of the table are a
\* chunk together: its test is not too narrow.
THEOREM NothingIsLeftToMerge == Spec => []NothingToMerge
<1>1. TableInv => NothingToMerge
  <2> SUFFICES ASSUME TableInv, phase = "answered",
                      NEW j \in DOMAIN table, NEW k \in DOMAIN table, j # k
               PROVE  ~IsBox(cells(table[j]) \cup cells(table[k]))
    BY DEF NothingToMerge
  <2>1. ExactTable(table) /\ Pairs = {}
    BY DEF TableInv, Tells
  <2> QED
    BY <2>1, NoPairIsLeft
<1> QED
  BY <1>1, TableInvariant, PTL

\* The slices of all ranks, in whatever order they are stored, are balanced and
\* become one chunk, the whole dataset (sliceBlock, chunksInJSON, mergeChunks).
THEOREM SlicesMakeTheWhole == Spec => []SlicesTile
<1>1. TableInv => SlicesTile
  <2> SUFFICES ASSUME TableInv, size > 0
               PROVE  /\ \A q, r \in 0 .. size - 1 :
                           sliceLength(extent[dim], size, q) <= sliceLength(extent[dim], size, r) + 1
                      /\ 0 .. size - 1 \subseteq ranks /\ phase = "answered" => table = <<Whole>>
    BY DEF SlicesTile
  <2>1. /\ extent \in [Dim -> 1 .. MaxExtent] /\ dim \in Dim /\ size \in Nat \ {0}
        /\ written \subseteq cells(Whole)
        /\ phase # "idle" => Tells(table)
        /\ \A r \in ranks : cells(sliceBlock(extent, dim, size, r)) \subseteq written
    BY SizesAssumption DEF TableInv, TypeOK
  <2>2. extent[dim] \in Nat
    BY <2>1, RankAssumption
  <2>3. \A q, r \in 0 .. size - 1 :
          sliceLength(extent[dim], size, q) <= sliceLength(extent[dim], size, r) + 1
    BY <2>1, <2>2, SlicesAreBalanced
  <2>4. ASSUME 0 .. size - 1 \subseteq ranks, phase = "answered"
        PROVE  table = <<Whole>>
    <3>1. ASSUME NEW p \in cells(Whole)
          PROVE  p \in written
      <4>1. p \in Cell /\ Whole.offset[dim] <= p[dim] /\ p[dim] < Whole.offset[dim] + Whole.extent[dim]
        BY <2>1 DEF cells
      <4>2. Whole.offset[dim] = 0 /\ Whole.extent[dim] = extent[dim]
        BY <2>1 DEF Whole
      <4>3. p[dim] \in Nat
        BY <2>1, <4>1, RankAssumption DEF Cell, Index
      <4>4. p[dim] \in 0 .. extent[dim] - 1
        BY ONLY <2>2, <4>1, <4>2, <4>3
      <4>5. PICK r \in 0 .. size - 1 : Owns(extent[dim], size, r, p[dim])
        BY <2>1, <2>2, <4>4, SlicesPartition
      <4>6. r \in 0 .. size /\ r < size /\ r \in ranks
        BY <2>1, <2>4
      <4>7. p \in cells(sliceBlock(extent, dim, size, r))
        BY <2>1, <4>1, <4>5, <4>6, SliceCells
      <4> QED
        BY <2>1, <4>6, <4>7
    <3>2. written = cells(Whole)
      BY <2>1, <3>1
    <3> QED
      BY <2>1, <2>4, <3>2 DEF Tells
  <2> QED
    BY <2>3, <2>4
<1> QED
  BY <1>1, TableInvariant, PTL
=============================================================================
