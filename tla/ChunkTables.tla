----------------------------- MODULE ChunkTables -----------------------------
(***************************************************************************)
(* The table of the chunks a JSON dataset holds (availableChunks): which   *)
(* cells were written is found out from the nested arrays, and the chunks  *)
(* found are merged pair by pair.  The program stores arbitrary chunks, or *)
(* the slices of a number of ranks in any order.                           *)
(***************************************************************************)
EXTENDS Chunks, SequencesExt

CONSTANT Sizes  \* numbers of ranks; 0 for a program that stores any chunks

ASSUME SizesAssumption == Sizes \subseteq Nat

VARIABLES
  extent,   \* of the dataset
  written,  \* cells that are not null
  size,     \* the number of ranks whose slices are stored, or 0
  dim,      \* the dimension of the slices
  ranks,    \* whose slices have been stored
  table,    \* parameters.chunks
  phase     \* "merge" while the table is being merged, "answered" behind it

vars == <<extent, written, size, dim, ranks, table, phase>>

-----------------------------------------------------------------------------
(* chunksInJSON.  A nested array is named by the indices that lead to it;  *)
(* its table is that of runs of successive equal slabs, an index added.    *)

Positions == UNION {[1 .. k -> Index] : k \in 0 .. Rank}
Null == <<>>

\* Mutant: the extent is not extended.
addOffset(i, n, slabTable) ==
  [k \in DOMAIN slabTable |-> [slabTable[k] EXCEPT !.offset = <<i>> \o @]]

addIndex(i, n, slabTable) ==
  [k \in DOMAIN slabTable |-> [offset |-> <<i>> \o slabTable[k].offset,
                               extent |-> <<n>> \o slabTable[k].extent]]

\* A run begins with a slab that is there and is not that of the index before.
begins(n, slab, i) == slab[i] # Null /\ (i > 0 => slab[i - 1] # slab[i])

runLength(n, slab, i) ==
  CHOOSE k \in 1 .. n - i :
    /\ \A j \in i .. i + k - 1 : slab[j] = slab[i]
    /\ i + k < n => slab[i + k] # slab[i]

runs(n, slab) ==
  LET upTo[i \in 0 .. n] ==
        IF i = 0 THEN <<>>
        ELSE upTo[i - 1] \o (IF begins(n, slab, i - 1)
                             THEN addIndex(i - 1, runLength(n, slab, i - 1), slab[i - 1])
                             ELSE <<>>)
  IN upTo[n]

chunksInJSON ==
  LET chunks[p \in Positions] ==
        IF Len(p) = Rank
        THEN IF p \in written THEN <<[offset |-> <<>>, extent |-> <<>>]>> ELSE Null
        ELSE runs(extent[Len(p) + 1],
                  [i \in 0 .. extent[Len(p) + 1] - 1 |-> chunks[Append(p, i)]])
  IN chunks[<<>>]

-----------------------------------------------------------------------------
Whole == [offset |-> [d \in Dim |-> 0], extent |-> extent]

\* The slices may be made along any dimension: OneDimensionalBlockSlicer is told
\* which one, and what slice1D picks by itself is one of them.
Init ==
  /\ extent \in [Dim -> 1 .. MaxExtent]
  /\ size \in Sizes
  /\ dim \in IF size = 0 THEN {1} ELSE Dim
  /\ written = {} /\ ranks = {}
  /\ table = <<>> /\ phase = "idle"

Store(c) ==
  /\ phase # "merge"
  /\ written' = written \cup cells(c)
  /\ table' = <<>> /\ phase' = "idle"
  /\ UNCHANGED <<extent, size, dim>>

\* JSONIOHandlerImpl::writeDataset; the chunk is inside of the dataset.
storeChunk(c) ==
  /\ size = 0
  /\ \A d \in Dim : c.extent[d] > 0 /\ c.offset[d] + c.extent[d] <= extent[d]
  /\ Store(c)
  /\ UNCHANGED ranks

storeSlice(r) ==
  /\ size > 0 /\ r \notin ranks
  /\ Store(sliceBlock(extent, dim, size, r))
  /\ ranks' = ranks \cup {r}

availableChunks ==
  /\ phase # "merge"
  /\ table' = chunksInJSON
  /\ phase' = "merge"
  /\ UNCHANGED <<extent, written, size, dim, ranks>>

\* The pairs that mergeChunks may merge, and the first in the order of its
\* loops, each with the first dimension that fits.
Pairs == {q \in (1 .. Len(table)) \X (1 .. Len(table)) \X Dim :
            q[1] < q[2] /\ mergeable(table[q[1]], table[q[2]], q[3])}
Before(q, r) ==
  \/ q[1] < r[1]
  \/ q[1] = r[1] /\ q[2] < r[2]
  \/ q[1] = r[1] /\ q[2] = r[2] /\ q[3] <= r[3]
FirstPair == CHOOSE q \in Pairs : \A r \in Pairs : Before(q, r)

\* One turn of the loop: both are erased, the merged chunk comes last.
mergeChunks ==
  /\ phase = "merge" /\ Pairs # {}
  /\ LET q == FirstPair
     IN table' = Append(RemoveAt(RemoveAt(table, q[2]), q[1]),
                        merged(table[q[1]], table[q[2]], q[3]))
  /\ UNCHANGED <<extent, written, size, dim, ranks, phase>>

Return ==
  /\ phase = "merge" /\ Pairs = {}
  /\ phase' = "answered"
  /\ UNCHANGED <<extent, written, size, dim, ranks, table>>

Next ==
  \/ \E c \in Chunk : storeChunk(c)
  \/ \E r \in 0 .. size : storeSlice(r)
  \/ availableChunks
  \/ mergeChunks
  \/ Return

Spec == Init /\ [][Next]_vars

-----------------------------------------------------------------------------
(* Properties.                                                             *)

\* The table is a sequence of chunks of the dataset's dimensions.
TypeOK ==
  /\ extent \in [Dim -> 1 .. MaxExtent]
  /\ written \subseteq Cell
  /\ size \in Sizes /\ dim \in Dim /\ ranks \subseteq 0 .. size
  /\ table \in Seq(Chunk)
  /\ phase \in {"idle", "merge", "answered"}

\* At every moment of merging, the table has every written cell in exactly
\* one chunk, and no other cell (chunksInJSON, mergeChunks).
TableIsExact ==
  phase # "idle" =>
    /\ written = UNION {cells(table[k]) : k \in DOMAIN table}
    /\ \A j, k \in DOMAIN table : j # k => cells(table[j]) \cap cells(table[k]) = {}

\* No two chunks of the table that availableChunks returns are a chunk
\* together ("until no chunks are left that can be merged").
IsBox(S) ==
  \A p \in Cell :
    (\A d \in Dim : \E a, b \in S : a[d] <= p[d] /\ p[d] <= b[d]) => p \in S
NothingToMerge ==
  phase = "answered" =>
    \A j, k \in DOMAIN table : j # k => ~IsBox(cells(table[j]) \cup cells(table[k]))

\* The slices of all ranks have lengths that differ by one at most and, stored
\* in any order, leave one chunk, the whole dataset.
SlicesTile ==
  size > 0 =>
    /\ \A q, r \in 0 .. size - 1 :
         sliceLength(extent[dim], size, q) <= sliceLength(extent[dim], size, r) + 1
    /\ 0 .. size - 1 \subseteq ranks /\ phase = "answered" => table = <<Whole>>
=============================================================================
