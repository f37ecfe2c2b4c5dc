-------------------------- MODULE KVReclaim_proofs --------------------------
(***************************************************************************)
(* The compaction moves every row of every layer to its place, for any     *)
(* number of cells and layers, any chunk and any occupation of the cache.  *)
(*                                                                         *)
(* The argument: the survivors are listed in strictly ascending order, so  *)
(* the k-th of them (from 0) never lies below cell k.  A run that starts   *)
(* at survivor j writes cells j, j+1, ... and every survivor past the run  *)
(* lies beyond what was written.                                           *)
(***************************************************************************)
EXTENDS KVReclaim, KVIndex_proofs

(* The cells endurkv_compact_seq looks for, and those among the first m. *)
Mine     == {c \in Live(before) : Seq0 \in before.cell[c].seq}
Below(m) == {c \in Mine : c < m}

(* src lists the survivors among the first i cells in ascending order. *)
SrcInv ==
    /\ \A k \in 1 .. n : src[k] \in Mine /\ src[k] < i
    /\ \A k, m \in 1 .. n : k < m => src[k] < src[m]
    /\ n = Cardinality(Below(i))
    /\ \A k \in 1 .. n : Cardinality(Below(src[k])) = k - 1
    /\ \A k \in 1 .. n : src[k] >= k - 1
    /\ Mine \cap (0 .. i - 1) = {src[k] : k \in 1 .. n}

Placed(m) == \A k \in 1 .. n : data[m][k - 1] = src[k]

(* The layers before l are done, those after it untouched. *)
LayerInv ==
    /\ pc \in {"scan", "decide"} => \A m \in Layer : \A c \in Cell : data[m][c] = c
    /\ pc = "move" =>
         /\ first <= j
         /\ \A k \in 1 .. first : src[k] = k - 1
         /\ \A m \in Layer : m < l => Placed(m)
         /\ \A m \in Layer : m > l => \A c \in Cell : data[m][c] = c
    /\ pc = "meta" => \A m \in Layer : Placed(m)

(* Once the routine has decided to move, every live cell is a survivor. *)
ControlInv ==
    /\ pc # "done" => cells = before /\ ret = 0
    /\ pc # "scan" => i = NCells
    /\ pc \in {"scan", "decide"} => l = 1
    /\ pc \in {"move", "meta"} \/ ret > 0 => Live(before) = Mine
    /\ pc = "done" /\ ret > 0 => \A m \in Layer : Placed(m)

IInv == TypeOK /\ IndexConsistent(before)
        /\ SrcInv /\ LayerInv /\ UnreadIntact /\ ControlInv
-----------------------------------------------------------------------------
(* The survivors below a cell are finitely many. *)
LEMMA BelowFinite ==
  ASSUME NEW m
  PROVE  IsFiniteSet(Below(m)) /\ Cardinality(Below(m)) \in Nat
<1>1. Below(m) \in SUBSET Cell
  BY DEF Below, Mine, Live
<1> QED BY <1>1, CellFinite, FS_Subset, FS_CardinalityType

(* So are the live cells. *)
LEMMA LiveFinite ==
  IsFiniteSet(Live(before)) /\ Mine \in SUBSET Live(before)
  BY CellFinite, FS_Subset, LiveType DEF Mine

(* Cells are numbers below NCells. *)
LEMMA CellBounds ==
  /\ NCells \in Nat /\ NCells > 0
  /\ \A c : c \in Cell <=> c \in Nat /\ c < NCells
  /\ \A c \in Mine : c \in Cell
<1>1. NCells \in Nat /\ NCells > 0
  BY CellsAssumption
<1>2. \A c : c \in Cell <=> c \in Nat /\ c < NCells
  BY <1>1 DEF Cell
<1> QED BY <1>1, <1>2 DEF Mine, Live

(* The types of what compaction keeps besides the cells. *)
LEMMA LocalTypes ==
  ASSUME TypeOK
  PROVE  /\ i \in Nat /\ i <= NCells /\ src \in Seq(Cell)
         /\ n \in Nat /\ \A k \in 1 .. n : src[k] \in Cell /\ src[k] \in Nat
  BY CellBounds DEF TypeOK, n

(* The list is never longer than the part of the cache it was taken from. *)
LEMMA SrcLength ==
  ASSUME TypeOK, SrcInv
  PROVE  n \in Nat /\ n <= i /\ n <= NCells
<1>1. CASE n = 0
  BY <1>1, LocalTypes, CellBounds
<1>2. CASE n > 0
  <2>1. n \in 1 .. n
    BY <1>2, LocalTypes
  <2>2. src[n] >= n - 1 /\ src[n] < i
    BY <2>1 DEF SrcInv
  <2> QED BY <2>1, <2>2, LocalTypes, CellBounds
<1> QED BY <1>1, <1>2, LocalTypes

(* Compaction starts in the invariant. *)
LEMMA InitIInv ==
  ASSUME Init
  PROVE  IInv
<1>1. cells \in KVCellsType /\ before = cells /\ IndexConsistent(before)
  BY CompactAssumption DEF Init
<1>2. n = 0 /\ i = 0 /\ src \in Seq(Cell)
  BY DEF Init, n
<1>3. TypeOK
  <2>1. data \in [Layer -> [Cell -> Cell]]
    BY DEF Init
  <2> QED BY <1>1, <1>2, <2>1, CellsAssumption, CompactAssumption
          DEF Init, TypeOK, Layer
<1>4. SrcInv
  <2>1. Below(0) = {}
    BY DEF Below, Mine, Live, Cell
  <2> QED BY <1>2, <2>1, FS_EmptySet DEF SrcInv
<1>5. LayerInv /\ UnreadIntact /\ ControlInv
  BY <1>2 DEF Init, LayerInv, UnreadIntact, ControlInv
<1> QED BY <1>1, <1>3, <1>4, <1>5 DEF IInv

(* One more cell scanned: the only step that changes the list. *)
LEMMA ScanSrc ==
  ASSUME IInv, Scan
  PROVE  SrcInv' /\ src' \in Seq(Cell)
<1>1. /\ i \in Cell /\ i' = i + 1 /\ before' = before /\ cells = before
      /\ n \in Nat /\ n <= i /\ src \in Seq(Cell)
  <2>1. TypeOK /\ SrcInv /\ ControlInv /\ pc = "scan"
    BY DEF IInv, Scan
  <2>2. i < NCells /\ i' = i + 1 /\ before' = before
    BY DEF Scan
  <2> QED BY <2>1, <2>2, SrcLength, LocalTypes, CellBounds DEF ControlInv
<1>2. Mine' = Mine /\ \A m : (Below(m))' = Below(m)
  BY <1>1 DEF Mine, Below, Live, IsEmpty
<1>3. \A c \in Mine : c \in Cell
  BY DEF Mine, Live
<1>4. CASE i \in Mine
  <2>1. src' = Append(src, i)
    BY <1>1, <1>4 DEF Scan, Mine, Live
  <2>2. /\ n' = n + 1 /\ src' \in Seq(Cell) /\ src'[n + 1] = i
        /\ \A k \in 1 .. n : src'[k] = src[k]
    BY <1>1, <2>1 DEF n
  <2>3. Below(i + 1) = Below(i) \cup {i} /\ i \notin Below(i)
    <3>1. \A c \in Mine : c < i + 1 <=> c < i \/ c = i
      BY <1>1, <1>3, CellBounds
    <3>2. \A c \in Below(i) : c # i
      BY <1>1, <1>3, CellBounds DEF Below
    <3> QED BY <1>4, <3>1, <3>2 DEF Below
  <2>4. Cardinality(Below(i + 1)) = n + 1
    BY <2>3, BelowFinite, FS_AddElement DEF IInv, SrcInv
  <2>5. \A k \in 1 .. n' : src'[k] \in Mine' /\ src'[k] < i'
    <3> SUFFICES ASSUME NEW k \in 1 .. n + 1
                 PROVE  src'[k] \in Mine /\ src'[k] < i + 1
      BY <1>1, <1>2, <2>2
    <3>1. CASE k = n + 1
      BY <1>1, <1>4, <2>2, <3>1, CellBounds
    <3>2. CASE k \in 1 .. n
      BY <1>1, <2>2, <3>2, LocalTypes DEF IInv, SrcInv
    <3> QED BY <1>1, <3>1, <3>2
  <2>6. \A k, m \in 1 .. n' : k < m => src'[k] < src'[m]
    <3> SUFFICES ASSUME NEW k \in 1 .. n + 1, NEW m \in 1 .. n + 1, k < m
                 PROVE  src'[k] < src'[m]
      BY <2>2
    <3>1. k \in 1 .. n
      BY <1>1
    <3>2. CASE m = n + 1
      BY <2>2, <3>1, <3>2 DEF IInv, SrcInv
    <3>3. CASE m \in 1 .. n
      BY <2>2, <3>1, <3>3 DEF IInv, SrcInv
    <3> QED BY <1>1, <3>2, <3>3
  <2>7. \A k \in 1 .. n' : (Cardinality(Below(src[k])))' = k - 1
    <3> SUFFICES ASSUME NEW k \in 1 .. n + 1
                 PROVE  Cardinality(Below(src'[k])) = k - 1
      BY <1>2, <2>2
    <3>1. CASE k = n + 1
      BY <1>1, <2>2, <3>1 DEF IInv, SrcInv
    <3>2. CASE k \in 1 .. n
      BY <2>2, <3>2 DEF IInv, SrcInv
    <3> QED BY <1>1, <3>1, <3>2
  <2>8. \A k \in 1 .. n' : src'[k] >= k - 1
    <3> SUFFICES ASSUME NEW k \in 1 .. n + 1 PROVE src'[k] >= k - 1
      BY <2>2
    <3>1. CASE k = n + 1
      BY <1>1, <2>2, <3>1, CellBounds
    <3>2. CASE k \in 1 .. n
      BY <2>2, <3>2 DEF IInv, SrcInv
    <3> QED BY <1>1, <3>1, <3>2
  <2>9. Mine' \cap (0 .. i' - 1) = {src'[k] : k \in 1 .. n'}
    <3>1. {src'[k] : k \in 1 .. n'} = {src[k] : k \in 1 .. n} \cup {i}
      BY <1>1, <2>2
    <3>2. Mine' \cap (0 .. i' - 1) = (Mine \cap (0 .. i - 1)) \cup {i}
      BY <1>1, <1>2, <1>4 DEF Cell
    <3> QED BY <3>1, <3>2 DEF IInv, SrcInv
  <2> QED BY <1>1, <1>2, <2>2, <2>4, <2>5, <2>6, <2>7, <2>8, <2>9 DEF SrcInv
<1>5. CASE i \notin Mine
  <2>1. src' = src /\ n' = n
    BY <1>1, <1>5 DEF Scan, Mine, Live, n
  <2>2. Below(i + 1) = Below(i)
    <3>1. \A c \in Mine : c < i + 1 <=> c < i
      BY <1>1, <1>3, <1>5, CellBounds
    <3> QED BY <3>1 DEF Below
  <2>3. Mine' \cap (0 .. i' - 1) = Mine \cap (0 .. i - 1)
    BY <1>1, <1>2, <1>5 DEF Cell
  <2>4. \A k \in 1 .. n : src[k] \in Mine /\ src[k] < i + 1
    BY <1>1, <1>3 DEF IInv, SrcInv, Cell
  <2> QED BY <1>1, <1>2, <2>1, <2>2, <2>3, <2>4 DEF IInv, SrcInv
<1> QED BY <1>4, <1>5

(* Steps that leave the scan's result alone leave SrcInv alone. *)
LEMMA SrcStable ==
  ASSUME SrcInv, UNCHANGED <<i, src, before>>
  PROVE  SrcInv'
<1>1. n' = n /\ Mine' = Mine /\ \A m : (Below(m))' = Below(m)
  BY DEF n, Mine, Below, Live, IsEmpty
<1> QED BY <1>1 DEF SrcInv

(* When as many cells are used as are ours, every live cell is ours. *)
LEMMA AllMine ==
  ASSUME IInv, pc = "decide", n = Cardinality(cells.used)
  PROVE  Live(before) = Mine
<1>1. cells = before /\ cells.used = Live(before) /\ i = NCells
  BY DEF IInv, ControlInv, IndexConsistent
<1>2. Below(NCells) = Mine
  BY CellBounds DEF Below
<1>3. Cardinality(Mine) = Cardinality(Live(before))
  BY <1>1, <1>2 DEF IInv, SrcInv
<1> QED BY <1>3, LiveFinite, FS_Subset

(* Scanning a cell keeps the list of sources ascending and complete. *)
LEMMA ScanStep ==
  ASSUME IInv, Scan
  PROVE  IInv'
<1>1. SrcInv' /\ src' \in Seq(Cell)
  BY ScanSrc
<1>2. /\ i \in Nat /\ i < NCells /\ i' = i + 1 /\ pc = "scan"
      /\ UNCHANGED <<cells, head, data, pc, first, l, j, ret, before>>
  BY LocalTypes DEF IInv, Scan
<1>3. n' \in Nat /\ n <= n'
  <2>1. src \in Seq(Cell) /\ (src' = Append(src, i) \/ src' = src)
    BY <1>2, LocalTypes DEF IInv, Scan
  <2>2. i \in Cell
    BY <1>2, CellBounds
  <2> QED BY <2>1, <2>2 DEF n
<1>4. TypeOK'
  <2>1. i' \in 0 .. NCells
    BY <1>2, CellBounds
  <2>2. first' \in 0 .. n' /\ j' \in 0 .. n'
    BY <1>2, <1>3, LocalTypes DEF IInv, TypeOK
  <2> QED BY <1>1, <1>2, <2>1, <2>2 DEF IInv, TypeOK
<1>5. LayerInv' /\ UnreadIntact' /\ ControlInv'
  BY <1>2 DEF IInv, LayerInv, UnreadIntact, ControlInv
<1> QED BY <1>1, <1>2, <1>4, <1>5 DEF IInv

(* Deciding whether to move keeps the invariant. *)
LEMMA DecideStep ==
  ASSUME IInv, ScanEnd \/ Decline \/ InPlace \/ StartMove
  PROVE  IInv'
<1>0. /\ UNCHANGED <<cells, data, i, src, l, before>>
      /\ pc \in {"scan", "decide"} /\ n' = n /\ n \in Nat /\ n <= NCells
      /\ Mine' = Mine /\ (Live(before))' = Live(before)
      /\ \A m \in Layer : \A c \in Cell : data[m][c] = c
  <2>1. UNCHANGED <<cells, data, i, src, l, before>> /\ pc \in {"scan", "decide"}
    BY DEF ScanEnd, Decline, InPlace, StartMove
  <2> QED BY <2>1, SrcLength
          DEF IInv, LayerInv, n, Mine, Live, IsEmpty
<1>1. SrcInv'
  BY <1>0, SrcStable DEF IInv
<1>2. CASE ScanEnd
  <2>1. pc' = "decide" /\ i = NCells /\ UNCHANGED <<head, first, j, ret>>
    BY <1>2 DEF ScanEnd
  <2>2. TypeOK'
    BY <1>0, <2>1 DEF IInv, TypeOK
  <2>3. LayerInv' /\ UnreadIntact' /\ ControlInv'
    BY <1>0, <1>2, <2>1 DEF ScanEnd, IInv, LayerInv, UnreadIntact, ControlInv
  <2> QED BY <1>0, <1>1, <2>2, <2>3 DEF IInv
<1>3. CASE Decline
  <2>1. pc' = "done" /\ pc = "decide" /\ UNCHANGED <<head, first, j, ret>>
    BY <1>3 DEF Decline
  <2>2. TypeOK'
    BY <1>0, <2>1 DEF IInv, TypeOK
  <2>3. LayerInv' /\ UnreadIntact' /\ ControlInv'
    BY <1>0, <2>1, CellsAssumption DEF IInv, LayerInv, UnreadIntact, ControlInv
  <2> QED BY <1>0, <1>1, <2>2, <2>3 DEF IInv
<1>4. CASE InPlace
  <2>1. /\ pc' = "done" /\ pc = "decide" /\ head' = n /\ ret' = n
        /\ n = Cardinality(cells.used) /\ UNCHANGED <<first, j>>
        /\ \A k \in 1 .. n : src[k] = k - 1
    BY <1>4 DEF InPlace
  <2>2. TypeOK'
    <3>1. n \in 0 .. NCells
      BY <1>0, CellBounds
    <3> QED BY <1>0, <2>1, <3>1 DEF IInv, TypeOK
  <2>3. \A m \in Layer : \A k \in 1 .. n : data[m][k - 1] = src[k]
    BY <1>0, <2>1, LocalTypes DEF IInv
  <2>4. Live(before) = Mine
    BY <2>1, AllMine
  <2>5. LayerInv' /\ UnreadIntact' /\ ControlInv'
    BY <1>0, <2>1, <2>3, <2>4
    DEF IInv, LayerInv, UnreadIntact, ControlInv, Placed
  <2> QED BY <1>0, <1>1, <2>2, <2>5 DEF IInv
<1>5. CASE StartMove
  <2>1. PICK f \in 0 .. n - 1 :
          (\A k \in 1 .. f : src[k] = k - 1) /\ first' = f /\ j' = f
    BY <1>5 DEF StartMove
  <2>2. /\ pc' = "move" /\ pc = "decide" /\ UNCHANGED <<head, ret>>
        /\ n = Cardinality(cells.used)
    BY <1>5 DEF StartMove
  <2>3. TypeOK'
    <3>1. first' \in 0 .. n' /\ j' \in 0 .. n'
      BY <1>0, <2>1
    <3> QED BY <1>0, <2>2, <3>1 DEF IInv, TypeOK
  <2>4. Live(before) = Mine
    BY <2>2, AllMine
  <2>5. LayerInv'
    <3>1. l = 1
      BY <2>2 DEF IInv, ControlInv
    <3>2. \A m \in Layer : ~(m < l)
      BY <3>1, CompactAssumption DEF Layer
    <3>3. f <= f
      BY <1>0
    <3> QED BY <1>0, <2>1, <2>2, <3>2, <3>3 DEF LayerInv
  <2>6. UnreadIntact'
    <3>1. \A k \in f + 1 .. n : data[l][src[k]] = src[k]
      BY <1>0, <2>1, LocalTypes DEF IInv, TypeOK
    <3>2. \A k \in 1 .. f : data[l][k - 1] = src[k]
      BY <1>0, <2>1, LocalTypes DEF IInv, TypeOK
    <3> QED BY <1>0, <2>1, <2>2, <3>1, <3>2 DEF UnreadIntact
  <2>7. ControlInv'
    BY <1>0, <2>2, <2>4 DEF IInv, ControlInv
  <2> QED BY <1>0, <1>1, <2>3, <2>5, <2>6, <2>7 DEF IInv
<1> QED BY <1>2, <1>3, <1>4, <1>5

(***************************************************************************)
(* One run.  It overwrites cells j .. j + len - 1, all below the survivors *)
(* that follow it, with the rows of survivors j .. j + len - 1.            *)
(***************************************************************************)
LEMMA MoveRunStep ==
  ASSUME IInv, MoveRun
  PROVE  IInv'
<1>1. PICK len \in 1 .. n :
        /\ LongestRun(len)
        /\ data' = [data EXCEPT ![l] = [c \in Cell |->
                      IF c \in j .. j + len - 1 THEN @[src[j + 1] + (c - j)]
                                                ELSE @[c]]]
        /\ j' = j + len
  BY DEF MoveRun
<1>2. /\ pc = "move" /\ UNCHANGED <<cells, head, pc, i, src, first, l, ret, before>>
      /\ n' = n /\ n \in Nat /\ n <= NCells /\ l \in Layer /\ j \in 0 .. n
      /\ Mine' = Mine /\ (Live(before))' = Live(before)
  BY SrcLength DEF MoveRun, IInv, TypeOK, n, Mine, Live, IsEmpty
<1>3. j + len <= n /\ \A k \in 1 .. len : src[j + k] = src[j + 1] + (k - 1)
  BY <1>1 DEF LongestRun, Contiguous
<1>4. \A k \in j + 1 .. n : data[l][src[k]] = src[k] /\ src[k] \in Cell
  BY <1>2, LocalTypes DEF IInv, UnreadIntact
<1>5. data[l] \in [Cell -> Cell] /\ data \in [Layer -> [Cell -> Cell]]
  BY <1>2 DEF IInv, TypeOK
<1>6. data'[l] = [c \in Cell |->
                   IF c \in j .. j + len - 1 THEN data[l][src[j + 1] + (c - j)]
                                             ELSE data[l][c]]
  BY <1>1, <1>2, <1>5
<1>7. \A c \in j .. j + len - 1 : c \in Cell /\ data'[l][c] = src[c + 1]
  <2> SUFFICES ASSUME NEW c \in j .. j + len - 1
               PROVE  c \in Cell /\ data'[l][c] = src[c + 1]
    OBVIOUS
  <2>1. c \in Nat /\ c < n /\ c + 1 \in j + 1 .. n
    BY <1>2, <1>3
  <2>2. src[c + 1] = src[j + 1] + (c - j)
    <3>1. c - j + 1 \in 1 .. len /\ j + (c - j + 1) = c + 1
      BY <1>2, <2>1
    <3> QED BY <1>3, <3>1, <1>2, <2>1
  <2>3. c \in Cell
    BY <1>2, <2>1, CellBounds
  <2> QED BY <1>4, <1>6, <2>1, <2>2, <2>3
<1>8. \A m \in Layer : m # l => data'[m] = data[m]
  BY <1>1, <1>5
<1>9. TypeOK'
  <2>1. data'[l] \in [Cell -> Cell]
    <3> SUFFICES ASSUME NEW c \in Cell PROVE data'[l][c] \in Cell
      BY <1>6
    <3>1. CASE c \in j .. j + len - 1
      <4>1. c + 1 \in j + 1 .. n
        BY <1>2, <1>3, <3>1
      <4> QED BY <1>4, <1>7, <3>1, <4>1
    <3>2. CASE c \notin j .. j + len - 1
      BY <1>5, <1>6, <3>2
    <3> QED BY <3>1, <3>2
  <2>2. data' \in [Layer -> [Cell -> Cell]]
    BY <1>1, <1>2, <1>5, <1>6, <2>1
  <2>3. j' \in 0 .. n
    BY <1>1, <1>2, <1>3
  <2> QED BY <1>2, <2>2, <2>3 DEF IInv, TypeOK
<1>10. SrcInv'
  BY <1>2, SrcStable DEF IInv
<1>11. UnreadIntact'
  <2>1. \A k \in j' + 1 .. n : data'[l][src[k]] = src[k]
    <3> SUFFICES ASSUME NEW k \in j + len + 1 .. n
                 PROVE  data'[l][src[k]] = src[k]
      BY <1>1
    <3>1. k \in 1 .. n /\ k \in j + 1 .. n /\ k - 1 >= j + len
      BY <1>2
    <3>2. src[k] \in Nat /\ src[k] >= k - 1 /\ src[k] \in Cell
      BY <3>1, LocalTypes DEF IInv, SrcInv
    <3>3. src[k] \notin j .. j + len - 1
      BY <1>2, <3>1, <3>2
    <3> QED BY <1>4, <1>6, <3>1, <3>2, <3>3
  <2>2. \A k \in 1 .. j' : data'[l][k - 1] = src[k]
    <3> SUFFICES ASSUME NEW k \in 1 .. j + len
                 PROVE  data'[l][k - 1] = src[k]
      BY <1>1
    <3>1. CASE k <= j
      <4>1. data[l][k - 1] = src[k]
        BY <1>2, <3>1 DEF IInv, UnreadIntact
      <4>2. k - 1 \in Cell /\ k - 1 \notin j .. j + len - 1
        BY <1>2, <3>1, CellBounds
      <4> QED BY <1>6, <4>1, <4>2
    <3>2. CASE k > j
      <4>1. k - 1 \in j .. j + len - 1 /\ (k - 1) + 1 = k
        BY <1>2, <3>2
      <4> QED BY <1>7, <4>1
    <3> QED BY <1>2, <3>1, <3>2
  <2> QED BY <1>2, <2>1, <2>2 DEF UnreadIntact
<1>12. LayerInv'
  <2>1. first <= j'
    BY <1>1, <1>2 DEF IInv, LayerInv, TypeOK
  <2>2. \A m \in Layer : m < l => m # l /\ (Placed(m))' = Placed(m)
    BY <1>2, <1>8 DEF Placed, Layer
  <2>3. \A m \in Layer : m > l => m # l
    BY <1>2 DEF Layer
  <2> QED BY <1>2, <1>8, <2>1, <2>2, <2>3 DEF IInv, LayerInv
<1>13. ControlInv'
  BY <1>2 DEF IInv, ControlInv
<1> QED BY <1>2, <1>9, <1>10, <1>11, <1>12, <1>13 DEF IInv

(* Going to the next layer keeps the invariant. *)
LEMMA NextLayerStep ==
  ASSUME IInv, NextLayer
  PROVE  IInv'
<1>1. /\ pc = "move" /\ j = n /\ UNCHANGED <<cells, head, data, i, src, first, ret, before>>
      /\ n' = n /\ n \in Nat /\ n <= NCells /\ l \in Layer /\ first \in 0 .. n
      /\ Mine' = Mine /\ (Live(before))' = Live(before)
      /\ \A m : (Placed(m))' = Placed(m)
  BY SrcLength DEF NextLayer, IInv, TypeOK, n, Mine, Live, IsEmpty, Placed
<1>2. Placed(l) /\ \A m \in Layer : m < l => Placed(m)
  BY <1>1 DEF IInv, UnreadIntact, LayerInv, Placed
<1>3. SrcInv'
  BY <1>1, SrcStable DEF IInv
<1>4. CASE l < NLayers
  <2>1. l' = l + 1 /\ j' = first /\ pc' = "move"
    BY <1>1, <1>4 DEF NextLayer
  <2>2. l' \in Layer /\ l' > l
    BY <1>1, <1>4, <2>1, CompactAssumption DEF Layer
  <2>3. \A m \in Layer : (m < l' => m < l \/ m = l) /\ (m > l' => m > l)
    BY <1>1, <2>1 DEF Layer
  <2>4. TypeOK'
    BY <1>1, <2>1, <2>2 DEF IInv, TypeOK
  <2>5. UnreadIntact'
    <3>1. \A c \in Cell : data[l'][c] = c
      BY <1>1, <2>2 DEF IInv, LayerInv
    <3>2. \A k \in first + 1 .. n : data[l'][src[k]] = src[k]
      BY <1>1, <3>1, LocalTypes DEF IInv
    <3>3. \A k \in 1 .. first : data[l'][k - 1] = src[k]
      <4> SUFFICES ASSUME NEW k \in 1 .. first PROVE data[l'][k - 1] = src[k]
        OBVIOUS
      <4>1. src[k] = k - 1
        BY <1>1 DEF IInv, LayerInv
      <4>2. k \in 1 .. n
        BY <1>1
      <4>3. src[k] \in Cell
        BY <4>2, LocalTypes DEF IInv
      <4> QED BY <3>1, <4>1, <4>3
    <3> QED BY <1>1, <2>1, <3>2, <3>3 DEF UnreadIntact
  <2>6. LayerInv'
    <3>1. first <= first
      BY <1>1
    <3> QED BY <1>1, <1>2, <2>1, <2>3, <3>1 DEF IInv, LayerInv
  <2>7. ControlInv'
    BY <1>1, <2>1 DEF IInv, ControlInv
  <2> QED BY <1>1, <1>3, <2>4, <2>5, <2>6, <2>7 DEF IInv
<1>5. CASE ~(l < NLayers)
  <2>1. pc' = "meta" /\ UNCHANGED <<l, j>>
    BY <1>5 DEF NextLayer
  <2>2. \A m \in Layer : m < l \/ m = l
    BY <1>1, <1>5, CompactAssumption DEF Layer
  <2>3. TypeOK'
    BY <1>1, <2>1 DEF IInv, TypeOK
  <2>4. LayerInv' /\ UnreadIntact' /\ ControlInv'
    BY <1>1, <1>2, <2>1, <2>2 DEF IInv, LayerInv, UnreadIntact, ControlInv
  <2> QED BY <1>1, <1>3, <2>3, <2>4 DEF IInv
<1> QED BY <1>4, <1>5

(* Rewriting the metadata keeps the invariant. *)
LEMMA MetadataStep ==
  ASSUME IInv, Metadata
  PROVE  IInv'
<1>1. /\ pc = "meta" /\ pc' = "done" /\ cells' = Gather(cells, src)
      /\ head' = n /\ ret' = n /\ UNCHANGED <<data, i, src, first, l, j, before>>
      /\ n' = n /\ n \in Nat /\ n <= NCells
      /\ Mine' = Mine /\ (Live(before))' = Live(before)
      /\ \A m : (Placed(m))' = Placed(m)
  BY SrcLength DEF Metadata, IInv, n, Mine, Live, IsEmpty, Placed
<1>2. cells' \in KVCellsType
  BY <1>1, GatherType DEF IInv, TypeOK, n
<1>3. TypeOK'
  <2>1. n \in 0 .. NCells
    BY <1>1, CellBounds
  <2> QED BY <1>1, <1>2, <2>1 DEF IInv, TypeOK
<1>4. SrcInv'
  BY <1>1, SrcStable DEF IInv
<1>5. LayerInv' /\ UnreadIntact' /\ ControlInv'
  BY <1>1 DEF IInv, LayerInv, UnreadIntact, ControlInv
<1> QED BY <1>1, <1>3, <1>4, <1>5 DEF IInv

-----------------------------------------------------------------------------
(* Every step keeps the invariant. *)
LEMMA StepIInv ==
  ASSUME IInv, [Next]_vars
  PROVE  IInv'
<1>1. CASE Scan
  BY <1>1, ScanStep
<1>2. CASE ScanEnd \/ Decline \/ InPlace \/ StartMove
  BY <1>2, DecideStep
<1>3. CASE MoveRun
  BY <1>3, MoveRunStep
<1>4. CASE NextLayer
  BY <1>4, NextLayerStep
<1>5. CASE Metadata
  BY <1>5, MetadataStep
<1>6. CASE UNCHANGED vars
  <2>1. n' = n /\ Mine' = Mine /\ (Live(before))' = Live(before)
        /\ \A m : (Placed(m))' = Placed(m)
    BY <1>6 DEF vars, n, Mine, Live, IsEmpty, Placed
  <2>2. SrcInv'
    BY <1>6, SrcStable DEF IInv, vars
  <2> QED BY <1>6, <2>1, <2>2
          DEF IInv, vars, TypeOK, LayerInv, UnreadIntact, ControlInv
<1> QED BY <1>1, <1>2, <1>3, <1>4, <1>5, <1>6 DEF Next

(* The invariant implies that rows follow their cells. *)
LEMMA IInvImpliesRows ==
  ASSUME IInv
  PROVE  RowsFollowCells
<1> SUFFICES ASSUME pc = "done", ret > 0, NEW c \in Live(before), NEW m \in Layer
             PROVE  data[m][Rank(c)] = c
  BY DEF RowsFollowCells
<1>1. Live(before) = Mine /\ i = NCells /\ Placed(m)
  BY DEF IInv, ControlInv
<1>2. c \in Mine /\ c \in 0 .. i - 1
  BY <1>1, CellBounds
<1>3. PICK k \in 1 .. n : c = src[k]
  BY <1>2 DEF IInv, SrcInv
<1>4. Rank(c) = k - 1
  <2>1. Rank(c) = Cardinality(Below(src[k]))
    BY <1>1, <1>3 DEF Rank, Below
  <2> QED BY <2>1 DEF IInv, SrcInv
<1> QED BY <1>1, <1>3, <1>4 DEF Placed

(* The invariant holds in every reachable state of compaction. *)
THEOREM InductiveInvariant == Spec => []IInv
<1>1. Init => IInv
  BY InitIInv
<1>2. IInv /\ [Next]_vars => IInv'
  BY StepIInv
<1> QED BY <1>1, <1>2, PTL DEF Spec

(* Type correctness of the compaction routine. *)
THEOREM TypeCorrect == Spec => []TypeOK
<1>1. IInv => TypeOK
  BY DEF IInv
<1> QED BY <1>1, InductiveInvariant, PTL

(***************************************************************************)
(* "dst <= src and no unread survivor is overwritten": endurkv_compact_seq *)
(* never writes over a row it has yet to read.                             *)
(***************************************************************************)
THEOREM UnreadNeverOverwritten == Spec => []UnreadIntact
<1>1. IInv => UnreadIntact
  BY DEF IInv
<1> QED BY <1>1, InductiveInvariant, PTL

(* A compaction that succeeds leaves each survivor's row at its rank.      *)
THEOREM RowsPreserved == Spec => []RowsFollowCells
<1>1. IInv => RowsFollowCells
  BY IInvImpliesRows
<1> QED BY <1>1, InductiveInvariant, PTL

-----------------------------------------------------------------------------
(***************************************************************************)
(* The metadata.  Moving starts with a survivor to move, so that 0 is only *)
(* returned when nothing was done; the rest says in terms of the list what *)
(* the properties say in terms of ranks.                                   *)
(***************************************************************************)
MetaInv ==
    /\ pc \in {"move", "meta"} => n > 0
    /\ pc = "done" /\ ret = 0 =>
         cells = before /\ \A m \in Layer : \A c \in Cell : data[m][c] = c
    /\ pc = "done" /\ ret > 0 =>
         /\ ret = n /\ head = n
         /\ Well(cells) /\ Live(cells) = 0 .. n - 1
         /\ \A k \in 1 .. n : cells.cell[k - 1] = before.cell[src[k]]

NoShift(c) == \A k \in Cell : c.cell[k].shift = 0

(* When every live cell is a survivor the list has them all. *)
LEMMA SrcIsLive ==
  ASSUME IInv, i = NCells, Live(before) = Mine
  PROVE  /\ Live(before) = {src[k] : k \in 1 .. n}
         /\ n = Cardinality(Live(before))
<1>1. Mine \cap (0 .. i - 1) = {src[k] : k \in 1 .. n} /\ n = Cardinality(Below(i))
  BY DEF IInv, SrcInv
<1>2. Mine \cap (0 .. i - 1) = Mine /\ Below(i) = Mine
  BY CellBounds DEF Below
<1> QED BY <1>1, <1>2

(* Every step keeps MetaInv, and the metadata it started with. *)
LEMMA MetaStep ==
  ASSUME IInv, MetaInv, NoShift(before), [Next]_vars
  PROVE  MetaInv' /\ NoShift(before)'
<1>0. n \in Nat /\ n <= NCells /\ TypeOK
  BY SrcLength DEF IInv
<1>1. before' = before /\ NoShift(before)'
  BY DEF Next, vars, Scan, ScanEnd, Decline, InPlace, StartMove, MoveRun, NextLayer,
         Metadata, NoShift
<1>2. CASE Scan \/ ScanEnd
  BY <1>2 DEF Scan, ScanEnd, MetaInv
<1>3. CASE Decline
  BY <1>3 DEF Decline, MetaInv, IInv, ControlInv, LayerInv
<1>4. CASE InPlace
  <2>1. /\ pc' = "done" /\ pc = "decide" /\ head' = n /\ ret' = n /\ n' = n
        /\ n = Cardinality(cells.used) /\ UNCHANGED <<cells, data, src, before>>
        /\ \A k \in 1 .. n : src[k] = k - 1
    BY <1>4 DEF InPlace, n
  <2>2. /\ cells = before /\ i = NCells /\ Live(before) = Mine
        /\ \A m \in Layer : \A c \in Cell : data[m][c] = c
    BY <2>1, AllMine DEF IInv, ControlInv, LayerInv
  <2>3. Live(cells) = {src[k] : k \in 1 .. n}
    BY <2>2, SrcIsLive
  <2>4. Live(cells) = 0 .. n - 1
    <3>1. \A x \in 0 .. n - 1 : x + 1 \in 1 .. n /\ src[x + 1] = x
      BY <1>0, <2>1
    <3>2. \A k \in 1 .. n : src[k] \in 0 .. n - 1
      BY <1>0, <2>1
    <3> QED BY <2>3, <3>1, <3>2
  <2>5. Well(cells)
    BY <2>2 DEF IInv, TypeOK, Well
  <2>6. (Live(cells))' = Live(cells) /\ (Well(cells))' = Well(cells)
    BY <2>1 DEF Live, IsEmpty, Well, IndexConsistent
  <2> QED BY <1>1, <2>1, <2>2, <2>4, <2>5, <2>6 DEF MetaInv
<1>5. CASE StartMove
  <2>1. 0 .. n - 1 # {} /\ pc' = "move" /\ n' = n
    BY <1>5 DEF StartMove, n
  <2>2. n > 0
    BY <1>0, <2>1
  <2>3. MetaInv'
    BY <2>1, <2>2 DEF MetaInv
  <2> QED BY <1>1, <2>3
<1>6. CASE MoveRun \/ NextLayer
  BY <1>6 DEF MoveRun, NextLayer, MetaInv, n
<1>7. CASE Metadata
  <2>1. /\ pc = "meta" /\ pc' = "done" /\ cells' = Gather(cells, src)
        /\ head' = n /\ ret' = n /\ n' = n /\ src' = src
    BY <1>7 DEF Metadata, n
  <2>2. n > 0 /\ cells = before /\ i = NCells /\ Live(before) = Mine
    BY <2>1 DEF MetaInv, IInv, ControlInv
  <2>3. Well(cells) /\ src \in Seq(Cell) /\ Live(cells) = {src[k] : k \in 1 .. n}
    BY <1>0, <2>2, SrcIsLive DEF IInv, TypeOK, Well
  <2>4. /\ Well(Gather(cells, src)) /\ Live(Gather(cells, src)) = 0 .. n - 1
        /\ \A k \in 1 .. n : Gather(cells, src).cell[k - 1] = cells.cell[src[k]]
    BY <1>0, <2>2, <2>3, GatherExact DEF NoShift, n
  <2>5. (Live(cells))' = Live(cells') /\ (Well(cells))' = Well(cells')
    BY DEF Live, IsEmpty, Well, IndexConsistent
  <2> QED BY <1>1, <2>1, <2>2, <2>4, <2>5 DEF MetaInv
<1>8. CASE UNCHANGED vars
  <2>1. n' = n /\ (Live(cells))' = Live(cells) /\ (Well(cells))' = Well(cells)
    BY <1>8 DEF vars, n, Live, IsEmpty, Well, IndexConsistent
  <2> QED BY <1>8, <2>1 DEF MetaInv, vars
<1> QED BY <1>1, <1>2, <1>3, <1>4, <1>5, <1>6, <1>7, <1>8 DEF Next

(***************************************************************************)
(* "Returns the number of survivors", or 0 and leaves the cache alone: for *)
(* a cache whose shifts have been applied, as the code asserts.            *)
(***************************************************************************)
THEOREM MetadataFollows ==
  ASSUME \A c \in InitCells : NoShift(c)
  PROVE  Spec => []MetadataExact
<1>1. Init => MetaInv /\ NoShift(before)
  BY DEF Init, MetaInv
<1>2. IInv /\ MetaInv /\ NoShift(before) /\ [Next]_vars => (MetaInv /\ NoShift(before))'
  BY MetaStep
<1>3. IInv /\ MetaInv => MetadataExact
  <2> SUFFICES ASSUME IInv, MetaInv PROVE CompactedCells
    BY DEF MetadataExact, DeclinedUntouched, MetaInv
  <2> SUFFICES ASSUME pc = "done", ret > 0 PROVE CompactedCells
    BY DEF CompactedCells
  <2>1. /\ ret = n /\ head = n /\ IndexConsistent(cells) /\ Live(cells) = 0 .. n - 1
        /\ \A k \in 1 .. n : cells.cell[k - 1] = before.cell[src[k]]
    BY DEF MetaInv, Well
  <2>2. i = NCells /\ Live(before) = Mine
    BY DEF IInv, ControlInv
  <2>3. Live(before) = {src[k] : k \in 1 .. n} /\ n = Cardinality(Live(before))
    BY <2>2, SrcIsLive
  <2>4. ASSUME NEW c \in Live(before) PROVE cells.cell[Rank(c)] = before.cell[c]
    <3>1. PICK k \in 1 .. n : c = src[k]
      BY <2>3
    <3>2. Rank(c) = Cardinality(Below(src[k]))
      BY <2>2, <3>1 DEF Rank, Below
    <3> QED BY <2>1, <3>1, <3>2 DEF IInv, SrcInv
  <2> QED BY <2>1, <2>3, <2>4 DEF CompactedCells
<1> QED BY <1>1, <1>2, <1>3, InductiveInvariant, PTL DEF Spec

-----------------------------------------------------------------------------
(***************************************************************************)
(* The reclaim never releases a byte of a live cell or of another tensor,  *)
(* for any number of cells, page size and placement of the tensors.        *)
(***************************************************************************)

(* live_end is defined and no live cell is at or past it. *)
LEMMA LiveEndBounds ==
  ASSUME NEW c
  PROVE  LiveEnd(c) \in 0 .. NCells /\ \A m \in Live(c) : m < LiveEnd(c)
<1> DEFINE U == {u \in 0 .. NCells : \A m \in Live(c) : m < u}
<1>0. NCells \in Nat /\ \A m \in Live(c) : m \in Nat /\ m < NCells
  BY CellsAssumption DEF Live, Cell
<1>1. NCells \in U
  BY <1>0
<1>2. PICK u \in U : \A v \in U : u <= v
  <2>1. U \in SUBSET Nat /\ U # {}
    BY <1>0, <1>1
  <2> QED
    BY <2>1, LeastNatural
<1>3. u = 0 \/ u - 1 \in Live(c)
  <2> SUFFICES ASSUME u # 0, u - 1 \notin Live(c) PROVE FALSE
    OBVIOUS
  <2>1. u - 1 \in 0 .. NCells /\ \A m \in Live(c) : m < u - 1
    BY <1>0, <1>2
  <2>2. u - 1 \in U
    BY <2>1
  <2> QED
    BY <1>2, <2>2, <1>0
<1>4. u \in 0 .. NCells /\ \A m \in Live(c) : m < u
  BY <1>2
<1> QED
  BY <1>3, <1>4 DEF LiveEnd

(* Rounding goes inward. *)
LEMMA Inward ==
  ASSUME PageSize > 0, NEW x \in Nat
  PROVE  /\ RoundDown(x) \in Nat /\ RoundDown(x) <= x
         /\ RoundUp(x) \in Nat /\ RoundUp(x) >= x
<1>1. PageSize \in Nat \ {0}
  BY ReclaimAssumption
<1>2. ASSUME NEW y \in Nat
      PROVE  RoundDown(y) \in Nat /\ RoundDown(y) <= y /\ RoundDown(y) + PageSize > y
  <2>1. y \div PageSize \in Nat /\ y % PageSize \in 0 .. PageSize - 1
        /\ (y \div PageSize) * PageSize + (y % PageSize) = y
    BY <1>1, <1>2
  <2> QED
    BY <1>1, <1>2, <2>1 DEF RoundDown
<1>3. x + PageSize - 1 \in Nat
  BY <1>1
<1> QED
  BY <1>1, <1>2, <1>3 DEF RoundUp

(* An address in the dead part of a run is in the row of a cell there. *)
LEMMA InDeadRow ==
  ASSUME NEW y \in Nat, NEW el \in Nat \ {0}, NEW lo \in Nat, NEW N \in Nat,
         lo * el <= y, y < N * el
  PROVE  \E c \in lo .. N - 1 : c * el <= y /\ y < c * el + el
<1> DEFINE c == y \div el
<1>1. c \in Nat /\ y % el \in 0 .. el - 1 /\ c * el + (y % el) = y
  OBVIOUS
<1> HIDE DEF c
<1>2. c * el <= y /\ y < c * el + el
  BY <1>1
<1>3. \A a, b \in Nat : a * el < b * el => a < b
  <2> SUFFICES ASSUME NEW a \in Nat, NEW b \in Nat, a >= b PROVE a * el >= b * el
    OBVIOUS
  <2> QED
    BY Z3
<1>4. lo * el < (c + 1) * el /\ c * el < N * el
  BY <1>1, <1>2
<1>5. lo < c + 1 /\ c < N
  <2>1. c + 1 \in Nat
    BY <1>1
  <2> QED
    BY <1>1, <1>3, <1>4, <2>1
<1>6. c \in lo .. N - 1
  BY <1>1, <1>5
<1> QED
  BY <1>2, <1>6, Zenon

(* So the whole pages of a dead run hold only rows of dead cells. *)
LEMMA DeadRunsDead ==
  ASSUME PageSize > 0, NEW c, NEW r \in DeadRuns(c), NEW x \in WholePages(r)
  PROVE  \E t \in Tensors : \E m \in Cell \ Live(c) : t.host /\ InRow(x, t, m)
<1>0. PICK t \in Tensors : /\ t.host
                            /\ \E e \in 0 .. t.runs - 1 :
                                 r = [lo |-> RunStart(t, e) + LiveEnd(c) * t.el,
                                      hi |-> RunStart(t, e) + NCells * t.el]
  BY DEF DeadRuns
<1>1. PICK e \in 0 .. t.runs - 1 :
        r = [lo |-> RunStart(t, e) + LiveEnd(c) * t.el,
             hi |-> RunStart(t, e) + NCells * t.el]
  BY <1>0
<1> DEFINE start == RunStart(t, e)
           el    == t.el
           le    == LiveEnd(c)
<1>2. t.base \in Nat /\ el \in Nat \ {0} /\ t.runs \in Nat /\ NCells \in Nat /\ e \in Nat
  BY <1>1, ReclaimAssumption, CellsAssumption
<1>3. start \in Nat /\ le \in Nat /\ le <= NCells /\ \A m \in Live(c) : m < le
  <2>1. e * NCells * el \in Nat
    BY <1>2
  <2> QED
    BY <1>2, <2>1, LiveEndBounds DEF RunStart
<1>4. le * el \in Nat /\ NCells * el \in Nat
  BY <1>2, <1>3
<1> HIDE DEF start, el, le
<1>5. r.lo = start + le * el /\ r.hi = start + NCells * el
  BY <1>1 DEF start, el, le
<1>6. x \in Nat /\ r.lo <= x /\ x < r.hi
  <2>1. r.lo \in Nat /\ r.hi \in Nat
    BY <1>3, <1>4, <1>5
  <2> QED
    BY <2>1, Inward DEF WholePages
<1>7. PICK m \in le .. NCells - 1 : m * el <= x - start /\ x - start < m * el + el
  <2>1. x - start \in Nat /\ le * el <= x - start /\ x - start < NCells * el
    BY <1>3, <1>4, <1>5, <1>6
  <2> QED
    BY <1>2, <1>3, <2>1, InDeadRow
<1>8. m \in Cell \ Live(c)
  BY <1>2, <1>3, <1>7 DEF Cell
<1>9. InRow(x, t, m)
  <2>1. m * el \in Nat
    BY <1>2, <1>3, <1>7
  <2>2. start + m * el <= x /\ x < start + m * el + el
    BY <1>3, <1>6, <1>7, <1>2, <2>1
  <2> QED
    BY <1>1, <2>2 DEF InRow, start, el
<1> QED
  BY <1>0, <1>8, <1>9

-----------------------------------------------------------------------------
(* What is still to be released are dead runs of the cells as they are,    *)
(* which no longer change.                                                 *)
ReclaimInv ==
    /\ rpc = "idle" => zeroed = {}
    /\ rpc # "idle" => pc = "done"
    /\ rpc = "release" => PageSize > 0 /\ todo \subseteq DeadRuns(cells)
    /\ OnlyDeadReleased

(* Compaction that is done takes no further step. *)
LEMMA CompactionOver ==
  ASSUME Next PROVE pc # "done"
  BY DEF Next, Scan, ScanEnd, Decline, InPlace, StartMove, MoveRun, NextLayer, Metadata

(* Nothing has been released at first. *)
LEMMA ReclaimInvInit ==
  ReclaimInit => ReclaimInv
  BY DEF ReclaimInit, ReclaimInv, OnlyDeadReleased

(* Every step keeps the invariant of reclaim. *)
LEMMA ReclaimInvStep ==
  ReclaimInv /\ [ReclaimNext]_allvars => ReclaimInv'
<1> SUFFICES ASSUME ReclaimInv, [ReclaimNext]_allvars PROVE ReclaimInv'
  OBVIOUS
<1>1. CASE Compacting
  <2>1. rpc = "idle" /\ zeroed = {} /\ rpc' = rpc /\ zeroed' = zeroed
    BY <1>1, CompactionOver DEF Compacting, ReclaimInv, rvars
  <2> QED
    BY <2>1 DEF ReclaimInv, OnlyDeadReleased
<1>2. CASE NothingToReclaim
  BY <1>2 DEF NothingToReclaim, ReclaimInv, OnlyDeadReleased, vars, Live, IsEmpty
<1>3. CASE Reclaim
  BY <1>3 DEF Reclaim, ReclaimInv, OnlyDeadReleased, vars, Live, IsEmpty
<1>4. CASE Release
  <2>1. PICK r \in todo : todo' = todo \ {r} /\ zeroed' = zeroed \cup WholePages(r)
    BY <1>4 DEF Release
  <2>2. rpc = "release" /\ rpc' = rpc /\ pc' = pc /\ cells' = cells
    BY <1>4 DEF Release, vars
  <2>3. pc = "done" /\ PageSize > 0 /\ todo \subseteq DeadRuns(cells)
    BY <2>2 DEF ReclaimInv
  <2>4. \A x \in zeroed' : \E t \in Tensors : \E c \in Cell \ Live(cells) :
          t.host /\ InRow(x, t, c)
    BY <2>1, <2>3, DeadRunsDead DEF ReclaimInv, OnlyDeadReleased
  <2>5. OnlyDeadReleased'
    BY <2>2, <2>4 DEF OnlyDeadReleased, Live, IsEmpty
  <2>6. (PageSize > 0 /\ todo \subseteq DeadRuns(cells))'
    BY <2>1, <2>2, <2>3
  <2> QED
    BY <2>2, <2>3, <2>5, <2>6 DEF ReclaimInv
<1>5. CASE Refuse
  <2>1. /\ rpc = "release" /\ rpc' = rpc /\ pc' = pc /\ cells' = cells
        /\ zeroed' = zeroed /\ todo' \subseteq todo
    BY <1>5 DEF Refuse, vars
  <2>2. OnlyDeadReleased'
    BY <2>1 DEF ReclaimInv, OnlyDeadReleased, Live, IsEmpty
  <2> QED
    BY <2>1, <2>2 DEF ReclaimInv
<1>6. CASE Return
  BY <1>6 DEF Return, ReclaimInv, OnlyDeadReleased, vars, Live, IsEmpty
<1>7. CASE UNCHANGED allvars
  BY <1>7 DEF allvars, rvars, vars, ReclaimInv, OnlyDeadReleased, Live, IsEmpty
<1> QED
  BY <1>1, <1>2, <1>3, <1>4, <1>5, <1>6, <1>7 DEF ReclaimNext

(***************************************************************************)
(* endurkv_reclaim_tail releases no byte of a live cell, none of a         *)
(* neighbouring tensor and none on a device, whatever the page size, the   *)
(* tensors and the outcome of the compaction before it.                    *)
(***************************************************************************)
THEOREM LiveNeverReleased == ReclaimSpec => []OnlyDeadReleased
<1>1. ReclaimInv => OnlyDeadReleased
  BY DEF ReclaimInv
<1> QED
  BY <1>1, ReclaimInvInit, ReclaimInvStep, PTL DEF ReclaimSpec

-----------------------------------------------------------------------------
(* A product grows with its factor. *)
LEMMA Multiples ==
  ASSUME NEW P \in Nat \ {0}, NEW a \in Nat, NEW c \in Nat
  PROVE  /\ a * P \in Nat
         /\ a * P < c * P => a < c
         /\ a <= c => a * P <= c * P
<1>1. a <= c => a * P <= c * P
  BY Z3
<1>2. c <= a => c * P <= a * P
  BY Z3
<1>3. a * P \in Nat /\ c * P \in Nat
  OBVIOUS
<1> QED
  BY <1>1, <1>2, <1>3

(* A page that lies within lo .. hi - 1 is among its whole pages. *)
LEMMA PageWithin ==
  ASSUME PageSize > 0, NEW lo \in Nat, NEW hi \in Nat, NEW x \in Nat,
         RoundDown(x) >= lo, RoundDown(x) + PageSize <= hi
  PROVE  RoundUp(lo) <= x /\ x < RoundDown(hi)
<1> DEFINE P == PageSize
           q == x \div P
           k == (lo + P - 1) \div P
           h == hi \div P
<1>1. P \in Nat \ {0} /\ lo + P - 1 \in Nat
  BY ReclaimAssumption
<1> HIDE DEF P
<1>2. /\ q \in Nat /\ k \in Nat /\ h \in Nat
      /\ q * P <= x /\ x < q * P + P
      /\ k * P <= lo + P - 1
      /\ hi < h * P + P
  <2>1. ASSUME NEW y \in Nat
        PROVE  /\ y \div P \in Nat
               /\ (y \div P) * P <= y /\ y < (y \div P) * P + P
    <3>1. y \div P \in Nat /\ y % P \in 0 .. P - 1 /\ (y \div P) * P + (y % P) = y
      BY <1>1, <2>1
    <3>2. (y \div P) * P \in Nat
      BY <1>1, <3>1
    <3> QED
      BY <1>1, <3>1, <3>2
  <2> QED
    BY <1>1, <2>1
<1> HIDE DEF q, k, h
<1>3. RoundDown(x) = q * P /\ RoundUp(lo) = k * P /\ RoundDown(hi) = h * P
  BY DEF RoundDown, RoundUp, q, k, h, P
<1>4. q * P \in Nat /\ k * P \in Nat /\ h * P \in Nat
  BY <1>1, <1>2, Multiples
<1>5. q + 1 \in Nat /\ h + 1 \in Nat /\ (q + 1) * P = q * P + P /\ (h + 1) * P = h * P + P
  BY <1>1, <1>2
<1>6. lo <= q * P /\ q * P + P <= hi
  BY <1>3 DEF P
<1>7. k * P < (q + 1) * P
  BY <1>1, <1>2, <1>4, <1>5, <1>6
<1>8. k < q + 1
  BY <1>1, <1>2, <1>5, <1>7, Multiples
<1>9. k * P <= q * P
  BY <1>1, <1>2, <1>8, Multiples
<1>10. (q + 1) * P < (h + 1) * P
  BY <1>1, <1>2, <1>4, <1>5, <1>6
<1>11. q + 1 < h + 1
  BY <1>1, <1>2, <1>5, <1>10, Multiples
<1>12. (q + 1) * P <= h * P
  BY <1>1, <1>2, <1>5, <1>11, Multiples
<1> QED
  BY <1>1, <1>2, <1>3, <1>4, <1>5, <1>9, <1>12

(* A dead run is the end of one run of a tensor in host memory. *)
DeadRunOf(c, r, t, e) ==
    /\ t \in Tensors /\ t.host /\ e \in 0 .. t.runs - 1
    /\ r = [lo |-> RunStart(t, e) + LiveEnd(c) * t.el,
            hi |-> RunStart(t, e) + NCells * t.el]

(* The bounds of a dead run. *)
LEMMA RunBounds ==
  ASSUME NEW c, NEW r, NEW t, NEW e, DeadRunOf(c, r, t, e)
  PROVE  /\ r.lo \in Nat /\ r.hi \in Nat
         /\ RunStart(t, e) \in Nat /\ RunStart(t, e) <= r.lo
         /\ r.hi = RunStart(t, e) + NCells * t.el
<1>1. t.base \in Nat /\ t.el \in Nat \ {0} /\ NCells \in Nat /\ e \in Nat
  BY ReclaimAssumption, CellsAssumption DEF DeadRunOf
<1>2. LiveEnd(c) \in Nat
  BY <1>1, LiveEndBounds
<1>3. e * NCells * t.el \in Nat /\ LiveEnd(c) * t.el \in Nat /\ NCells * t.el \in Nat
  BY <1>1, <1>2
<1> QED
  BY <1>1, <1>3 DEF DeadRunOf, RunStart

(* Two dead runs have no page in common. *)
LEMMA RunsApart ==
  ASSUME PageSize > 0, NEW c, NEW r \in DeadRuns(c), NEW q \in DeadRuns(c), r # q
  PROVE  WholePages(r) \cap WholePages(q) = {}
<1>1. PICK t, e : DeadRunOf(c, r, t, e)
  BY DEF DeadRuns, DeadRunOf
<1>2. PICK u, f : DeadRunOf(c, q, u, f)
  BY DEF DeadRuns, DeadRunOf
<1>3. ASSUME NEW z, NEW v, NEW g, DeadRunOf(c, z, v, g), NEW x \in WholePages(z)
      PROVE  /\ x \in Nat
             /\ v.base + g * (NCells * v.el) <= x
             /\ x < v.base + (g + 1) * (NCells * v.el)
             /\ x \in Extent(v)
  <2>1. /\ v.base \in Nat /\ v.el \in Nat \ {0} /\ NCells \in Nat /\ g \in Nat
        /\ v.runs \in Nat /\ g + 1 <= v.runs
    BY <1>3, ReclaimAssumption, CellsAssumption DEF DeadRunOf
  <2>2. /\ z.lo \in Nat /\ z.hi \in Nat /\ RunStart(v, g) <= z.lo
        /\ z.hi = RunStart(v, g) + NCells * v.el
    BY <1>3, RunBounds
  <2>3. x \in Nat /\ z.lo <= x /\ x < z.hi
    BY <2>2, <1>3, Inward DEF WholePages
  <2> DEFINE M == NCells * v.el
  <2>4. M \in Nat /\ g * NCells * v.el = g * M /\ v.runs * NCells * v.el = v.runs * M
    BY <2>1
  <2> HIDE DEF M
  <2>5. g * M \in Nat /\ (g + 1) * M = g * M + M /\ v.runs * M \in Nat
    BY <2>1, <2>4
  <2>6. (g + 1) * M <= v.runs * M
    BY <2>1, <2>4, Z3
  <2>7. RunStart(v, g) = v.base + g * M
    BY <2>4 DEF RunStart
  <2>8. v.base + g * M <= x /\ x < v.base + (g + 1) * M
    BY <2>1, <2>2, <2>3, <2>4, <2>5, <2>7 DEF M
  <2>9. v.base <= x /\ x < v.base + v.runs * M
    BY <2>1, <2>3, <2>4, <2>5, <2>6, <2>8
  <2>10. x \in Extent(v)
    BY <2>1, <2>3, <2>4, <2>5, <2>9 DEF Extent
  <2> QED
    BY <2>3, <2>8, <2>10 DEF M
<1> SUFFICES ASSUME NEW x \in WholePages(r), x \in WholePages(q) PROVE FALSE
  OBVIOUS
<1>4. x \in Nat /\ x \in Extent(t) /\ x \in Extent(u)
  BY <1>1, <1>2, <1>3
<1>5. t = u
  BY <1>1, <1>2, <1>4, ReclaimAssumption DEF DeadRunOf
<1>6. e # f
  BY <1>1, <1>2, <1>5 DEF DeadRunOf
<1> DEFINE M == NCells * t.el
<1>7. t.base + e * M <= x /\ x < t.base + (e + 1) * M
  BY <1>1, <1>3
<1>8. t.base + f * M <= x /\ x < t.base + (f + 1) * M
  BY <1>2, <1>3, <1>5
<1>9. t.base \in Nat /\ M \in Nat /\ e \in Nat /\ f \in Nat
  <2>1. t.base \in Nat /\ t.el \in Nat /\ NCells \in Nat /\ e \in Nat /\ f \in Nat
    BY <1>1, <1>2, <1>5, ReclaimAssumption, CellsAssumption DEF DeadRunOf
  <2> QED
    BY <2>1
<1> HIDE DEF M
<1>10. M # 0
  BY <1>4, <1>7, <1>9
<1>11. /\ e * M \in Nat /\ f * M \in Nat /\ (e + 1) * M \in Nat /\ (f + 1) * M \in Nat
  BY <1>9
<1>12. e * M < (f + 1) * M /\ f * M < (e + 1) * M
  BY <1>4, <1>7, <1>8, <1>9, <1>11
<1>13. e < f + 1 /\ f < e + 1
  <2>1. e + 1 \in Nat /\ f + 1 \in Nat /\ M \in Nat \ {0}
    BY <1>9, <1>10
  <2> QED
    BY <1>9, <1>12, <2>1, Multiples
<1> QED
  BY <1>6, <1>9, <1>13

(***************************************************************************)
(* Why the count is right and nothing is left out: what is released has    *)
(* been counted once, a run still to be released shares nothing with it,   *)
(* and a run that is not to be released any more has been, or was refused. *)
(***************************************************************************)
CountInv ==
    /\ IsFiniteSet(zeroed) /\ freed = Cardinality(zeroed)
    /\ rpc \in {"idle", "release", "returned"}
    /\ rpc = "idle" => zeroed = {} /\ todo = {} /\ refused = {}
    /\ rpc = "release" => \A r \in todo : WholePages(r) \cap zeroed = {}
    /\ rpc # "idle" /\ PageSize > 0 =>
         \A r \in DeadRuns(cells) \ (todo \cup refused) : WholePages(r) \subseteq zeroed
    /\ rpc = "returned" => todo = {}

(* Nothing has been released at first. *)
LEMMA CountInvInit ==
  ReclaimInit => CountInv
  BY FS_EmptySet DEF ReclaimInit, CountInv

(* When the last cell is live there are no whole pages behind it. *)
LEMMA NothingBehind ==
  ASSUME PageSize > 0, NEW c, LiveEnd(c) >= NCells, NEW r \in DeadRuns(c)
  PROVE  WholePages(r) = {}
<1>1. PICK t, e : DeadRunOf(c, r, t, e)
  BY DEF DeadRuns, DeadRunOf
<1>2. LiveEnd(c) = NCells
  BY LiveEndBounds, CellsAssumption
<1>3. r.lo = r.hi /\ r.lo \in Nat
  BY <1>1, <1>2, RunBounds DEF DeadRunOf
<1> QED
  BY <1>3, Inward DEF WholePages

(* Releasing one run counts each of its addresses once. *)
LEMMA ReleaseCounts ==
  ASSUME CountInv, ReclaimInv, Release
  PROVE  CountInv'
<1>1. PICK r \in todo : /\ todo' = todo \ {r}
                        /\ zeroed' = zeroed \cup WholePages(r)
                        /\ freed' = freed + Cardinality(WholePages(r))
  BY DEF Release
<1>2. rpc = "release" /\ rpc' = rpc /\ cells' = cells /\ refused' = refused
  BY DEF Release, vars
<1>3. PageSize > 0 /\ todo \subseteq DeadRuns(cells)
  BY <1>2 DEF ReclaimInv
<1>4. IsFiniteSet(WholePages(r))
  <2>1. PICK t, e : DeadRunOf(cells, r, t, e)
    BY <1>1, <1>3 DEF DeadRuns, DeadRunOf
  <2>2. RoundUp(r.lo) \in Int /\ RoundDown(r.hi) - 1 \in Int
    BY <2>1, <1>3, RunBounds, Inward
  <2> QED
    BY <2>2, FS_Interval DEF WholePages
<1>5. WholePages(r) \cap zeroed = {}
  BY <1>1, <1>2 DEF CountInv
<1>6. IsFiniteSet(zeroed') /\ freed' = Cardinality(zeroed')
  <2>1. IsFiniteSet(zeroed) /\ freed = Cardinality(zeroed)
    BY DEF CountInv
  <2>2. /\ IsFiniteSet(zeroed \cup WholePages(r))
        /\ Cardinality(zeroed \cup WholePages(r)) =
             Cardinality(zeroed) + Cardinality(WholePages(r))
             - Cardinality(zeroed \cap WholePages(r))
    BY <1>4, <2>1, FS_Union
  <2>3. zeroed \cap WholePages(r) = {}
    BY <1>5
  <2>4. Cardinality(zeroed \cap WholePages(r)) = 0
    BY <2>3, FS_EmptySet
  <2>5. Cardinality(zeroed) \in Nat /\ Cardinality(WholePages(r)) \in Nat
    BY <1>4, <2>1, FS_CardinalityType
  <2> QED
    BY <1>1, <2>1, <2>2, <2>4, <2>5
<1>7. \A q \in todo' : WholePages(q) \cap zeroed' = {}
  <2> SUFFICES ASSUME NEW q \in todo' PROVE WholePages(q) \cap zeroed' = {}
    OBVIOUS
  <2>1. q \in todo /\ q # r
    BY <1>1
  <2>2. WholePages(q) \cap zeroed = {}
    BY <1>2, <2>1 DEF CountInv
  <2>3. WholePages(q) \cap WholePages(r) = {}
    BY <1>1, <1>3, <2>1, RunsApart
  <2> QED
    BY <1>1, <2>2, <2>3
<1>8. \A q \in DeadRuns(cells) \ (todo' \cup refused') : WholePages(q) \subseteq zeroed'
  <2>1. \A q \in DeadRuns(cells) \ (todo \cup refused) : WholePages(q) \subseteq zeroed
    BY <1>2, <1>3 DEF CountInv
  <2> QED
    BY <1>1, <1>2, <2>1
<1>9. DeadRuns(cells)' = DeadRuns(cells)
  BY <1>2
<1> QED
  BY <1>2, <1>3, <1>6, <1>7, <1>8, <1>9 DEF CountInv

(* Every step keeps the count. *)
LEMMA CountInvStep ==
  CountInv /\ ReclaimInv /\ [ReclaimNext]_allvars => CountInv'
<1> SUFFICES ASSUME CountInv, ReclaimInv, [ReclaimNext]_allvars PROVE CountInv'
  OBVIOUS
<1>1. CASE Compacting
  <2>1. /\ rpc = "idle" /\ rpc' = rpc /\ zeroed' = zeroed /\ freed' = freed
        /\ todo' = todo /\ refused' = refused
    BY <1>1, CompactionOver DEF Compacting, ReclaimInv, rvars
  <2> QED
    BY <2>1 DEF CountInv
<1>2. CASE NothingToReclaim
  <2>1. /\ rpc = "idle" /\ rpc' = "returned" /\ zeroed' = zeroed /\ freed' = freed
        /\ todo' = todo /\ refused' = refused /\ cells' = cells
        /\ LiveEnd(cells) >= NCells \/ PageSize <= 0
    BY <1>2 DEF NothingToReclaim, vars
  <2>2. ASSUME PageSize > 0, NEW r \in DeadRuns(cells) PROVE WholePages(r) \subseteq zeroed
    <3>1. LiveEnd(cells) >= NCells
      BY <2>1, <2>2, ReclaimAssumption
    <3> QED
      BY <2>2, <3>1, NothingBehind
  <2>3. DeadRuns(cells)' = DeadRuns(cells)
    BY <2>1
  <2> QED
    BY <2>1, <2>2, <2>3 DEF CountInv
<1>3. CASE Reclaim
  <2>1. /\ rpc = "idle" /\ rpc' = "release" /\ zeroed' = zeroed /\ freed' = freed
        /\ todo' = DeadRuns(cells) /\ refused' = refused /\ cells' = cells
    BY <1>3 DEF Reclaim, vars
  <2>2. DeadRuns(cells)' = DeadRuns(cells)
    BY <2>1
  <2> QED
    BY <2>1, <2>2 DEF CountInv
<1>4. CASE Release
  BY <1>4, ReleaseCounts
<1>5. CASE Refuse
  <2>1. PICK r \in todo : todo' = todo \ {r} /\ refused' = refused \cup {r}
    BY <1>5 DEF Refuse
  <2>2. rpc = "release" /\ rpc' = rpc /\ cells' = cells /\ zeroed' = zeroed /\ freed' = freed
    BY <1>5 DEF Refuse, vars
  <2>3. DeadRuns(cells)' = DeadRuns(cells)
    BY <2>2
  <2> QED
    BY <2>1, <2>2, <2>3 DEF CountInv
<1>6. CASE Return
  <2>1. /\ rpc = "release" /\ rpc' = "returned" /\ zeroed' = zeroed /\ freed' = freed
        /\ todo' = todo /\ todo = {} /\ refused' = refused /\ cells' = cells
    BY <1>6 DEF Return, vars
  <2>2. DeadRuns(cells)' = DeadRuns(cells)
    BY <2>1
  <2> QED
    BY <2>1, <2>2 DEF CountInv
<1>7. CASE UNCHANGED allvars
  <2>1. /\ rpc' = rpc /\ zeroed' = zeroed /\ freed' = freed
        /\ todo' = todo /\ refused' = refused /\ cells' = cells
    BY <1>7 DEF allvars, rvars, vars
  <2>2. DeadRuns(cells)' = DeadRuns(cells)
    BY <2>1
  <2> QED
    BY <2>1, <2>2 DEF CountInv
<1> QED
  BY <1>1, <1>2, <1>3, <1>4, <1>5, <1>6, <1>7 DEF ReclaimNext

(* The count, and the pages of the runs, are what is promised. *)
LEMMA CountedIsReleased ==
  CountInv => AllDeadReleased
<1> SUFFICES ASSUME CountInv, rpc = "returned", PageSize > 0,
                    NEW r \in DeadRuns(cells) \ refused, NEW x \in r.lo .. r.hi - 1,
                    RoundDown(x) >= r.lo, RoundDown(x) + PageSize <= r.hi
             PROVE  x \in zeroed
  BY DEF AllDeadReleased, CountInv
<1>1. PICK t, e : DeadRunOf(cells, r, t, e)
  BY DEF DeadRuns, DeadRunOf
<1>2. r.lo \in Nat /\ r.hi \in Nat
  BY <1>1, RunBounds
<1>3. x \in Nat
  BY <1>2
<1>4. RoundUp(r.lo) <= x /\ x < RoundDown(r.hi)
  BY <1>2, <1>3, PageWithin
<1>5. x \in WholePages(r)
  BY <1>2, <1>3, <1>4, Inward DEF WholePages
<1>6. WholePages(r) \subseteq zeroed
  BY DEF CountInv
<1> QED
  BY <1>5, <1>6

(***************************************************************************)
(* endurkv_reclaim_tail reports exactly what it released and leaves no     *)
(* page that lies behind the last live cell, unless madvise refused it:    *)
(* for any number of cells, page size and tensors that do not overlap.     *)
(***************************************************************************)
THEOREM TailReclaimed == ReclaimSpec => []AllDeadReleased
<1>1. ReclaimInit => ReclaimInv /\ CountInv
  BY ReclaimInvInit, CountInvInit
<1>2. ReclaimInv /\ CountInv /\ [ReclaimNext]_allvars => (ReclaimInv /\ CountInv)'
  BY ReclaimInvStep, CountInvStep
<1>3. ReclaimInv /\ CountInv => AllDeadReleased
  BY CountedIsReleased
<1> QED
  BY <1>1, <1>2, <1>3, PTL DEF ReclaimSpec
=============================================================================
