-------------------------------- MODULE Chunks --------------------------------
(***************************************************************************)
(* Chunks of an n-dimensional dataset: how a dataset is cut into slices,   *)
(* one per rank, and when two chunks of a table are merged into one.       *)
(***************************************************************************)
EXTENDS Naturals

CONSTANTS
  Rank,      \* the number of dimensions
  MaxExtent  \* bound on the extent of a dataset in each of them

ASSUME RankAssumption == Rank \in Nat \ {0} /\ MaxExtent \in Nat \ {0}

Dim   == 1 .. Rank
Index == 0 .. MaxExtent - 1
Cell  == [Dim -> Index]
Chunk == [offset : [Dim -> Index], extent : [Dim -> 0 .. MaxExtent]]

cells(c) ==
  {p \in Cell : \A d \in Dim : c.offset[d] <= p[d] /\ p[d] < c.offset[d] + c.extent[d]}

-----------------------------------------------------------------------------
(* Slices of one dimension: OneDimensionalBlockSlicer, and slice1D of      *)
(* openpmd-pipe.                                                           *)

\* Mutant: without the remainder, which the last rank then gets.
firstIndexRoundedDown(N, size, rank) == (N \div size) * rank

\* The first index of a rank: N / size * rank, rounded up, computed so that
\* N * rank need not fit into an integer.
firstIndex(N, size, rank) ==
  LET padDivident == (N % size) * rank
      pad         == padDivident \div size
  IN (N \div size) * rank + (IF pad * size < padDivident THEN pad + 1 ELSE pad)

\* The last rank takes what is left; ranks beyond it get an empty slice.
sliceLength(N, size, rank) ==
  IF rank >= size - 1 THEN N - firstIndex(N, size, rank)
  ELSE firstIndex(N, size, rank + 1) - firstIndex(N, size, rank)

sliceBlock(extent, dim, size, rank) ==
  IF rank >= size
  THEN [offset |-> [d \in Dim |-> 0], extent |-> [d \in Dim |-> 0]]
  ELSE [offset |-> [d \in Dim |-> IF d = dim THEN firstIndex(extent[d], size, rank) ELSE 0],
        extent |-> [extent EXCEPT ![dim] = sliceLength(@, size, rank)]]

-----------------------------------------------------------------------------
(* Merging two chunks.                                                     *)

lower(a, b, d) == IF a.offset[d] > b.offset[d] THEN b ELSE a
upper(a, b, d) == IF a.offset[d] > b.offset[d] THEN a ELSE b

\* Mutants: the other dimensions are not compared; the chunks are not put in
\* order.
borders(a, b, d) ==
  upper(a, b, d).offset[d] = lower(a, b, d).offset[d] + lower(a, b, d).extent[d]
bordersInOrder(a, b, d) ==
  /\ b.offset[d] = a.offset[d] + a.extent[d]
  /\ \A e \in Dim \ {d} : a.offset[e] = b.offset[e] /\ a.extent[e] = b.extent[e]

\* One chunk continues the other in dimension d, all others are equal.
mergeable(a, b, d) ==
  /\ upper(a, b, d).offset[d] = lower(a, b, d).offset[d] + lower(a, b, d).extent[d]
  /\ \A e \in Dim \ {d} : a.offset[e] = b.offset[e] /\ a.extent[e] = b.extent[e]

merged(a, b, d) ==
  [lower(a, b, d) EXCEPT !.extent[d] = @ + upper(a, b, d).extent[d]]
=============================================================================
