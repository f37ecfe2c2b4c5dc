----------------------------- MODULE KVCompact -----------------------------
(***************************************************************************)
(* endurkv_compact_seq: the survivors of an eviction are moved, run by run *)
(* and layer by layer, into a dense prefix of the tensors they live in.    *)
(* The routine copies with no second buffer but a staging area of one      *)
(* chunk, so the order of the runs is what keeps the rows intact; the      *)
(* metadata follows once every row has moved.                              *)
(*                                                                         *)
(* A row stands for everything a layer stores for one cell (its K row, and *)
(* its V row or its column of each V dimension) and is named by the cell   *)
(* it was in at the start.                                                 *)
(***************************************************************************)
EXTENDS KVCells

CONSTANTS
    NLayers,        \* number of layers
    Chunk,          \* chunk_cells as passed by the caller
    DefaultChunk,   \* what a chunk_cells of 0 stands for (512)
    Seq0,           \* the sequence to compact
    InitCells       \* metadata the cache can hold when the call is made

ASSUME CompactAssumption ==
    /\ NLayers \in Nat \ {0}
    /\ Chunk \in Nat /\ DefaultChunk \in Nat \ {0}
    /\ Seq0 \in Seqs
    /\ InitCells \subseteq KVCellsType
    /\ \A c \in InitCells : IndexConsistent(c)

VARIABLES
    cells,      \* v_cells[strm]
    head,       \* v_heads[strm]
    data,       \* data[l][i]: the row of cell i in layer l
    pc,         \* "scan", "decide", "move", "meta" or "done"
    i,          \* next cell to scan
    src,        \* the survivors found so far
    first,      \* first_moved: the first survivor not yet where it belongs
    l, j,       \* layer being moved, survivor the next run starts at (from 0)
    ret,        \* the value returned
    before      \* the metadata when the call was made

vars == <<cells, head, data, pc, i, src, first, l, j, ret, before>>

Layer == 1 .. NLayers
n     == Len(src)

ChunkCells == IF Chunk = 0 THEN DefaultChunk ELSE Chunk

Init ==
    /\ cells \in InitCells /\ before = cells
    /\ head \in 0 .. NCells
    /\ data = [m \in Layer |-> [c \in Cell |-> c]]
    /\ pc = "scan" /\ i = 0 /\ src = <<>>
    /\ first = 0 /\ l = 1 /\ j = 0 /\ ret = 0

-----------------------------------------------------------------------------
Scan ==
    /\ pc = "scan" /\ i < NCells
    /\ src' = IF ~IsEmpty(cells, i) /\ Seq0 \in cells.cell[i].seq
              THEN Append(src, i) ELSE src
    /\ i' = i + 1
    /\ UNCHANGED <<cells, head, data, pc, first, l, j, ret, before>>

ScanEnd ==
    /\ pc = "scan" /\ i = NCells
    /\ pc' = "decide"
    /\ UNCHANGED <<cells, head, data, i, src, first, l, j, ret, before>>

(* Another sequence is live: nothing is touched. *)
Decline ==
    /\ pc = "decide" /\ n # Cardinality(cells.used)
    /\ pc' = "done"
    /\ UNCHANGED <<cells, head, data, i, src, first, l, j, ret, before>>

(* No survivor, or all of them in place: only the head is set. *)
InPlace ==
    /\ pc = "decide" /\ n = Cardinality(cells.used)
    /\ \A k \in 1 .. n : src[k] = k - 1
    /\ head' = n /\ ret' = n /\ pc' = "done"
    /\ UNCHANGED <<cells, data, i, src, first, l, j, before>>

StartMove ==
    /\ pc = "decide" /\ n = Cardinality(cells.used)
    /\ \E f \in 0 .. n - 1 :
         /\ \A k \in 1 .. f : src[k] = k - 1
         /\ src[f + 1] # f
         /\ first' = f /\ j' = f
    /\ pc' = "move"
    /\ UNCHANGED <<cells, head, data, i, src, l, ret, before>>

(* A slip: a run need not be contiguous at the source. *)
ContiguousOrNot(len) == j + len <= n /\ len <= ChunkCells

(* len survivors from j on are contiguous at the source, fit one chunk,    *)
(* and no longer run is and does.                                          *)
Contiguous(len) ==
    /\ j + len <= n /\ len <= ChunkCells
    /\ \A k \in 1 .. len : src[j + k] = src[j + 1] + (k - 1)

LongestRun(len) ==
    /\ len \in 1 .. n
    /\ Contiguous(len)
    /\ ~Contiguous(len + 1)

(* A slip: the loop forgets to advance. *)
MoveRunAgain ==
    /\ pc = "move" /\ j < n
    /\ \E len \in 1 .. n :
         /\ LongestRun(len)
         /\ data' = [data EXCEPT ![l] = [c \in Cell |->
                       IF c \in j .. j + len - 1 THEN @[src[j + 1] + (c - j)]
                                                 ELSE @[c]]]
    /\ UNCHANGED <<cells, head, pc, i, src, first, l, j, ret, before>>

(* One run of one layer, through the staging buffer. *)
MoveRun ==
    /\ pc = "move" /\ j < n
    /\ \E len \in 1 .. n :
         /\ LongestRun(len)
         /\ data' = [data EXCEPT ![l] = [c \in Cell |->
                       IF c \in j .. j + len - 1 THEN @[src[j + 1] + (c - j)]
                                                 ELSE @[c]]]
         /\ j' = j + len
    /\ UNCHANGED <<cells, head, pc, i, src, first, l, ret, before>>

(* A slip: the loop over the layers runs one layer short. *)
NextLayerShort ==
    /\ pc = "move" /\ j = n
    /\ IF l < NLayers - 1 THEN l' = l + 1 /\ j' = first /\ pc' = pc
                          ELSE pc' = "meta" /\ UNCHANGED <<l, j>>
    /\ UNCHANGED <<cells, head, data, i, src, first, ret, before>>

NextLayer ==
    /\ pc = "move" /\ j = n
    /\ IF l < NLayers THEN l' = l + 1 /\ j' = first /\ pc' = pc
                      ELSE pc' = "meta" /\ UNCHANGED <<l, j>>
    /\ UNCHANGED <<cells, head, data, i, src, first, ret, before>>

(* A slip: the count is not returned. *)
MetadataNoCount ==
    /\ pc = "meta"
    /\ cells' = Gather(cells, src)
    /\ head' = n /\ pc' = "done"
    /\ UNCHANGED <<data, i, src, first, l, j, ret, before>>

Metadata ==
    /\ pc = "meta"
    /\ cells' = Gather(cells, src)
    /\ head' = n /\ ret' = n /\ pc' = "done"
    /\ UNCHANGED <<data, i, src, first, l, j, before>>

Next == \/ Scan \/ ScanEnd
        \/ Decline \/ InPlace \/ StartMove
        \/ MoveRun \/ NextLayer \/ Metadata

Spec == Init /\ [][Next]_vars

-----------------------------------------------------------------------------
(* Where a survivor belongs: as many places up as survivors precede it. *)
Rank(c) == Cardinality({m \in Live(before) : m < c})

TypeOK ==
    /\ cells \in KVCellsType /\ before \in KVCellsType
    /\ head \in 0 .. NCells
    /\ data \in [Layer -> [Cell -> Cell]]
    /\ pc \in {"scan", "decide", "move", "meta", "done"}
    /\ i \in 0 .. NCells /\ src \in Seq(Cell) /\ first \in 0 .. n
    /\ l \in Layer /\ j \in 0 .. n /\ ret \in 0 .. NCells

(***************************************************************************)
(* "dst <= src and no unread survivor is overwritten": while a layer is    *)
(* being moved, the rows of the survivors still to move are intact, and    *)
(* the moved ones are in place.                                            *)
(***************************************************************************)
UnreadIntact ==
    pc = "move" =>
      /\ \A k \in j + 1 .. n : data[l][src[k]] = src[k]
      /\ \A k \in 1 .. j : data[l][k - 1] = src[k]

(***************************************************************************)
(* The call either declines, and changes nothing, or leaves every survivor *)
(* at its rank, its row in every layer and its metadata together, with the *)
(* cells after them empty and the head on the first of these.              *)
(***************************************************************************)
RowsFollowCells ==
    pc = "done" /\ ret > 0 =>
      \A c \in Live(before) : \A m \in Layer : data[m][Rank(c)] = c

CompactedCells ==
    pc = "done" /\ ret > 0 =>
      /\ ret = Cardinality(Live(before)) /\ head = ret
      /\ Live(cells) = 0 .. ret - 1
      /\ \A c \in Live(before) : cells.cell[Rank(c)] = before.cell[c]
      /\ IndexConsistent(cells)

DeclinedUntouched ==
    pc = "done" /\ ret = 0 =>
      /\ cells = before
      /\ \A m \in Layer : \A c \in Cell : data[m][c] = c

(* "Returns the number of survivors", or 0 and leaves the cache alone.     *)
MetadataExact == CompactedCells /\ DeclinedUntouched
=============================================================================
