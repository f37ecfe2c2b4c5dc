--------------------------- MODULE KVIndex_proofs ---------------------------
(***************************************************************************)
(* Every operation on the cells keeps the index over them exact, although  *)
(* each changes it by increments: used is the set of the cells in use,     *)
(* seqPos counts what they hold.  For any number of cells, set of          *)
(* sequences and largest position.                                         *)
(***************************************************************************)
EXTENDS KVCells, FiniteSetTheorems, WellFoundedInduction, TLAPS

(* Every nonempty set of naturals has a least element. *)
LEMMA LeastNatural ==
  ASSUME NEW S \in SUBSET Nat, S # {}
  PROVE  \E x \in S : \A y \in S : x <= y
<1>1. PICK x \in S : \A y \in S : ~ (<<y, x>> \in OpToRel(<, Nat))
  BY NatLessThanWellFounded, WFMin
<1>2. \A y \in S : ~ (y < x)
  BY <1>1 DEF OpToRel
<1> QED
  BY <1>2

(* A stream has finitely many cells. *)
LEMMA CellFinite == IsFiniteSet(Cell)
  BY CellsAssumption, FS_Interval DEF Cell

(* ... and so have the sets that Tally counts. *)
LEMMA TallyFinite ==
  ASSUME NEW I \in SUBSET Cell, NEW cell, NEW s, NEW p
  PROVE  IsFiniteSet({i \in I : s \in cell[i].seq /\ cell[i].pos = p})
  BY CellFinite, FS_Subset, {i \in I : s \in cell[i].seq /\ cell[i].pos = p} \in SUBSET Cell

(* A tally is a natural number for each sequence and position. *)
LEMMA TallyType ==
  ASSUME NEW I \in SUBSET Cell, NEW cell
  PROVE  /\ Tally(cell, I) \in [Seqs -> [Pos -> Nat]]
         /\ \A s \in Seqs, p \in Pos : Tally(cell, I)[s][p] \in Int
<1> DEFINE T(s, p) == {i \in I : s \in cell[i].seq /\ cell[i].pos = p}
<1>1. \A s, p : Cardinality(T(s, p)) \in Nat
  <2> TAKE s, p
  <2>1. IsFiniteSet(T(s, p))
    BY CellFinite, FS_Subset, T(s, p) \in SUBSET Cell
  <2> QED BY <2>1, FS_CardinalityType
<1>2. Tally(cell, I) = [s \in Seqs |-> [p \in Pos |-> Cardinality(T(s, p))]]
  BY DEF Tally
<1> HIDE DEF T
<1> QED BY <1>1, <1>2

(* Counting cells in and out leaves numbers. *)
LEMMA SeqPosType ==
  ASSUME NEW I \in SUBSET Cell, NEW cell, NEW sp \in [Seqs -> [Pos -> Int]]
  PROVE  /\ SeqPosRm(sp, cell, I) \in [Seqs -> [Pos -> Int]]
         /\ SeqPosAdd(sp, cell, I) \in [Seqs -> [Pos -> Int]]
<1>1. \A s \in Seqs, p \in Pos : Tally(cell, I)[s][p] \in Int
  BY TallyType
<1> QED BY <1>1 DEF SeqPosRm, SeqPosAdd

(* The live cells are cells. *)
LEMMA LiveType ==
  ASSUME NEW c
  PROVE  Live(c) \in SUBSET Cell
  BY DEF Live

(* What the four fields of the metadata must be. *)
LEMMA KVCellsRecord ==
  ASSUME NEW f \in [Cell -> CellState], NEW u \in SUBSET Cell,
         NEW sp \in [Seqs -> [Pos -> Int]], NEW h \in BOOLEAN
  PROVE  [cell |-> f, used |-> u, seqPos |-> sp, hasShift |-> h] \in KVCellsType
  BY DEF KVCellsType

(* seq_rm keeps cells cells. *)
LEMMA SeqRmType ==
  ASSUME NEW c \in KVCellsType, NEW drop
  PROVE  SeqRm(c, drop) \in KVCellsType
<1> DEFINE gone == Emptied(c, drop)
           left == [i \in Cell |-> [c.cell[i] EXCEPT !.seq = @ \cap drop[i]]]
           new  == [i \in Cell |-> IF i \in gone THEN Vacant
                                   ELSE [c.cell[i] EXCEPT !.seq = @ \ drop[i]]]
<1>1. new \in [Cell -> CellState]
  <2> SUFFICES ASSUME NEW i \in Cell PROVE new[i] \in CellState
    OBVIOUS
  <2>1. c.cell[i] \in CellState
    BY DEF KVCellsType
  <2> QED BY <2>1 DEF CellState, Vacant, None
<1>2. SeqPosRm(c.seqPos, left, Live(c)) \in [Seqs -> [Pos -> Int]]
  BY SeqPosType, LiveType DEF KVCellsType
<1>3. SeqRm(c, drop) = [cell |-> new, used |-> c.used \ gone,
                        seqPos |-> SeqPosRm(c.seqPos, left, Live(c)),
                        hasShift |-> c.hasShift]
  BY DEF SeqRm
<1> QED
  <2>1. c.used \ gone \in SUBSET Cell /\ c.hasShift \in BOOLEAN
    BY DEF KVCellsType
  <2> HIDE DEF new, left, gone
  <2> QED BY <1>1, <1>2, <1>3, <2>1, KVCellsRecord

(* set keeps cells cells. *)
LEMMA SetCellsType ==
  ASSUME NEW c \in KVCellsType, NEW idxs, NEW other,
         \A k \in DOMAIN idxs : /\ idxs[k] \in Cell
                                /\ other[k].pos \in Pos \cup {None}
                                /\ other[k].seq \in SUBSET Seqs
  PROVE  SetCells(c, idxs, other) \in KVCellsType
<1> DEFINE I      == Targets(idxs)
           new    == Overlay(c.cell, idxs, other)
           filled == {i \in I : c.cell[i].pos = None /\ new[i].pos # None}
           erased == {i \in I : c.cell[i].pos # None /\ new[i].pos = None}
           sp     == SeqPosAdd(SeqPosRm(c.seqPos, c.cell, I), new, I)
<1>0. I \in SUBSET Cell
  BY DEF Targets
<1>1. new \in [Cell -> CellState]
  <2> SUFFICES ASSUME NEW i \in Cell PROVE new[i] \in CellState
    BY DEF Overlay
  <2>1. c.cell[i] \in CellState
    BY DEF KVCellsType
  <2>2. CASE i \notin I
    BY <2>1, <2>2 DEF Overlay
  <2>3. CASE i \in I
    <3>1. SlotOf(idxs, i) \in DOMAIN idxs
      BY <2>3 DEF SlotOf, Targets
    <3> QED BY <2>1, <2>3, <3>1 DEF CellState, Overlay
  <2> QED BY <2>2, <2>3
<1>2. sp \in [Seqs -> [Pos -> Int]]
  <2>1. SeqPosRm(c.seqPos, c.cell, I) \in [Seqs -> [Pos -> Int]]
    BY <1>0, SeqPosType DEF KVCellsType
  <2> QED BY <1>0, <2>1, SeqPosType
<1>3. SetCells(c, idxs, other) =
        [cell |-> new, used |-> (c.used \cup filled) \ erased,
         seqPos |-> sp, hasShift |-> c.hasShift]
  BY DEF SetCells
<1> QED
  <2>1. (c.used \cup filled) \ erased \in SUBSET Cell /\ c.hasShift \in BOOLEAN
    BY <1>0 DEF KVCellsType
  <2> HIDE DEF new, sp, filled, erased
  <2> QED BY <1>1, <1>2, <1>3, <2>1, KVCellsRecord

(* The metadata move of the compaction keeps cells cells. *)
LEMMA GatherType ==
  ASSUME NEW c \in KVCellsType, NEW src \in Seq(Cell), Len(src) <= NCells
  PROVE  Gather(c, src) \in KVCellsType
<1> DEFINE n    == Len(src)
           kept == Cp(c, src)
           far  == [i \in Cell |-> IF \E k \in 1 .. n : src[k] = i /\ i >= n
                                   THEN Seqs ELSE {}]
           rmd  == SeqRm(c, far)
           dst  == [k \in 1 .. n |-> k - 1]
<1>1. rmd \in KVCellsType
  BY SeqRmType
<1>2. \A k \in DOMAIN dst : /\ dst[k] \in Cell
                            /\ kept[k].pos \in Pos \cup {None}
                            /\ kept[k].seq \in SUBSET Seqs
  <2> SUFFICES ASSUME NEW k \in 1 .. n
               PROVE  /\ dst[k] \in Cell
                      /\ kept[k].pos \in Pos \cup {None}
                      /\ kept[k].seq \in SUBSET Seqs
    OBVIOUS
  <2>1. k \in DOMAIN src /\ src[k] \in Cell
    OBVIOUS
  <2>2. c.cell[src[k]] \in CellState
    BY <2>1 DEF KVCellsType
  <2>3. kept[k] = [pos |-> c.cell[src[k]].pos, seq |-> c.cell[src[k]].seq]
    BY <2>1 DEF Cp
  <2>4. dst[k] \in Cell
    BY CellsAssumption DEF Cell
  <2> QED BY <2>2, <2>3, <2>4 DEF CellState
<1> HIDE DEF kept, dst, rmd
<1>3. SetCells(rmd, dst, kept) \in KVCellsType
  BY <1>1, <1>2, SetCellsType
<1> QED BY <1>3 DEF Gather, kept, dst, rmd

-----------------------------------------------------------------------------

Well(c) == c \in KVCellsType /\ IndexConsistent(c)

(* What holds of the cells alone. *)
Tidy(cell) == \A i \in Cell : cell[i].pos = None => cell[i] = Vacant

At(cell, I, s, p) == {i \in I : s \in cell[i].seq /\ cell[i].pos = p}

(* A count is the number of cells at a position of a sequence. *)
LEMMA TallyAt ==
  ASSUME NEW cell, NEW I, NEW s \in Seqs, NEW p \in Pos
  PROVE  Tally(cell, I)[s][p] = Cardinality(At(cell, I, s, p))
  BY DEF Tally, At

(* These cells are finitely many. *)
LEMMA AtFinite ==
  ASSUME NEW cell, NEW I \in SUBSET Cell, NEW s, NEW p
  PROVE  /\ IsFiniteSet(At(cell, I, s, p))
         /\ Cardinality(At(cell, I, s, p)) \in Nat
<1>1. At(cell, I, s, p) \in SUBSET Cell
  BY DEF At
<1> QED
  BY <1>1, CellFinite, FS_Subset, FS_CardinalityType

(* Two functions of sequence and position that agree are the same. *)
LEMMA SameCounts ==
  ASSUME NEW f \in [Seqs -> [Pos -> Int]], NEW g \in [Seqs -> [Pos -> Int]],
         \A s \in Seqs, p \in Pos : f[s][p] = g[s][p]
  PROVE  f = g
<1>1. \A s \in Seqs : f[s] = g[s]
  <2> TAKE s \in Seqs
  <2>1. f[s] \in [Pos -> Int] /\ g[s] \in [Pos -> Int]
    OBVIOUS
  <2>2. \A p \in Pos : f[s][p] = g[s][p]
    OBVIOUS
  <2> QED BY <2>1, <2>2
<1> QED BY <1>1

(* Counts are numbers. *)
LEMMA TallyInt ==
  ASSUME NEW cell, NEW I \in SUBSET Cell
  PROVE  Tally(cell, I) \in [Seqs -> [Pos -> Int]]
  BY TallyType

(* Empty cells count nothing. *)
LEMMA TallyAll ==
  ASSUME NEW c
  PROVE  Tally(c.cell, Live(c)) = Tally(c.cell, Cell)
<1>1. \A s \in Seqs, p \in Pos : At(c.cell, Live(c), s, p) = At(c.cell, Cell, s, p)
  BY DEF At, Live, IsEmpty, Pos, None
<1>2. \A s \in Seqs, p \in Pos : Tally(c.cell, Live(c))[s][p] = Tally(c.cell, Cell)[s][p]
  BY <1>1, TallyAt
<1>3. Tally(c.cell, Live(c)) \in [Seqs -> [Pos -> Int]]
  BY TallyInt, LiveType
<1>4. Tally(c.cell, Cell) \in [Seqs -> [Pos -> Int]]
  BY TallyInt
<1> QED BY <1>2, <1>3, <1>4, SameCounts

(* The index is exact when it counts over all cells. *)
LEMMA WellIff ==
  ASSUME NEW c \in KVCellsType
  PROVE  Well(c) <=> /\ c.used = Live(c)
                     /\ c.seqPos = Tally(c.cell, Cell)
                     /\ Tidy(c.cell)
  BY TallyAll DEF Well, IndexConsistent, Tidy, IsEmpty

(* The count of all cells is that of some and that of the others. *)
LEMMA TallySplit ==
  ASSUME NEW cell, NEW I \in SUBSET Cell, NEW s \in Seqs, NEW p \in Pos
  PROVE  Tally(cell, Cell)[s][p] = Tally(cell, I)[s][p] + Tally(cell, Cell \ I)[s][p]
<1> DEFINE A == At(cell, I, s, p)
           B == At(cell, Cell \ I, s, p)
<1>1. At(cell, Cell, s, p) = A \cup B /\ A \cap B = {}
  BY DEF At
<1>2. IsFiniteSet(A) /\ IsFiniteSet(B) /\ Cardinality(A) \in Nat /\ Cardinality(B) \in Nat
  BY AtFinite
<1>3. Cardinality(A \cup B) = Cardinality(A) + Cardinality(B) - Cardinality(A \cap B)
  BY <1>2, FS_Union
<1>4. Cardinality(A \cap B) = 0
  BY <1>1, FS_EmptySet
<1>5. Cardinality(At(cell, Cell, s, p)) = Cardinality(A) + Cardinality(B)
  BY <1>1, <1>2, <1>3, <1>4
<1> QED
  BY <1>5, TallyAt

(***************************************************************************)
(* seq_pos_rm of the cells of I as they were and seq_pos_add as they are   *)
(* now: the count over all cells follows.                                  *)
(***************************************************************************)
LEMMA TallyReplaced ==
  ASSUME NEW old, NEW new, NEW I \in SUBSET Cell,
         \A i \in Cell \ I : new[i] = old[i]
  PROVE  SeqPosAdd(SeqPosRm(Tally(old, Cell), old, I), new, I) = Tally(new, Cell)
<1> DEFINE lhs == SeqPosAdd(SeqPosRm(Tally(old, Cell), old, I), new, I)
<1>1. Tally(old, Cell) \in [Seqs -> [Pos -> Int]] /\ Tally(new, Cell) \in [Seqs -> [Pos -> Int]]
  BY TallyInt
<1>2. lhs \in [Seqs -> [Pos -> Int]]
  BY <1>1, SeqPosType
<1>3. \A s \in Seqs, p \in Pos : lhs[s][p] = Tally(new, Cell)[s][p]
  <2> TAKE s \in Seqs, p \in Pos
  <2>1. lhs[s][p] = (Tally(old, Cell)[s][p] - Tally(old, I)[s][p]) + Tally(new, I)[s][p]
    BY DEF SeqPosAdd, SeqPosRm
  <2>2. At(old, Cell \ I, s, p) = At(new, Cell \ I, s, p)
    BY DEF At
  <2>3. Tally(old, Cell \ I)[s][p] = Tally(new, Cell \ I)[s][p]
    BY <2>2, TallyAt
  <2>4. /\ Tally(old, Cell)[s][p] = Tally(old, I)[s][p] + Tally(old, Cell \ I)[s][p]
        /\ Tally(new, Cell)[s][p] = Tally(new, I)[s][p] + Tally(new, Cell \ I)[s][p]
    BY TallySplit
  <2>5. /\ Tally(old, I)[s][p] \in Int /\ Tally(new, I)[s][p] \in Int
        /\ Tally(new, Cell \ I)[s][p] \in Int
    BY TallyType
  <2> HIDE DEF lhs
  <2> QED BY <2>1, <2>3, <2>4, <2>5
<1> HIDE DEF lhs
<1>4. lhs = Tally(new, Cell)
  BY <1>1, <1>2, <1>3, SameCounts
<1> QED BY <1>4 DEF lhs

(* Counts of disjoint parts add up. *)
LEMMA TallySum ==
  ASSUME NEW whole, NEW a, NEW b, NEW I \in SUBSET Cell,
         \A s \in Seqs, p \in Pos :
            /\ At(whole, Cell, s, p) = At(a, I, s, p) \cup At(b, Cell, s, p)
            /\ At(a, I, s, p) \cap At(b, Cell, s, p) = {}
  PROVE  /\ SeqPosRm(Tally(whole, Cell), a, I) = Tally(b, Cell)
         /\ SeqPosAdd(Tally(b, Cell), a, I) = Tally(whole, Cell)
<1>1. \A s \in Seqs, p \in Pos :
        /\ Tally(whole, Cell)[s][p] = Tally(a, I)[s][p] + Tally(b, Cell)[s][p]
        /\ {Tally(whole, Cell)[s][p], Tally(a, I)[s][p], Tally(b, Cell)[s][p]} \subseteq Int
  <2> TAKE s \in Seqs, p \in Pos
  <2> DEFINE A == At(a, I, s, p)
             B == At(b, Cell, s, p)
  <2>1. IsFiniteSet(A) /\ IsFiniteSet(B) /\ Cardinality(A) \in Nat /\ Cardinality(B) \in Nat
    BY AtFinite
  <2>2. Cardinality(A \cup B) = Cardinality(A) + Cardinality(B) - Cardinality(A \cap B)
    BY <2>1, FS_Union
  <2>3. At(whole, Cell, s, p) = A \cup B /\ A \cap B = {}
    OBVIOUS
  <2>4. Cardinality(At(whole, Cell, s, p)) = Cardinality(A) + Cardinality(B)
    <3> HIDE DEF A, B
    <3> QED BY <2>1, <2>2, <2>3, FS_EmptySet
  <2>5. /\ Tally(whole, Cell)[s][p] = Cardinality(At(whole, Cell, s, p))
        /\ Tally(a, I)[s][p] = Cardinality(A) /\ Tally(b, Cell)[s][p] = Cardinality(B)
    BY TallyAt
  <2> HIDE DEF A, B
  <2> QED BY <2>1, <2>4, <2>5
<1>2. /\ SeqPosRm(Tally(whole, Cell), a, I) \in [Seqs -> [Pos -> Int]]
      /\ SeqPosAdd(Tally(b, Cell), a, I) \in [Seqs -> [Pos -> Int]]
  BY TallyInt, SeqPosType
<1>3. \A s \in Seqs, p \in Pos :
        /\ SeqPosRm(Tally(whole, Cell), a, I)[s][p] = Tally(whole, Cell)[s][p] - Tally(a, I)[s][p]
        /\ SeqPosAdd(Tally(b, Cell), a, I)[s][p] = Tally(b, Cell)[s][p] + Tally(a, I)[s][p]
  BY DEF SeqPosRm, SeqPosAdd
<1>4. \A s \in Seqs, p \in Pos :
        /\ SeqPosRm(Tally(whole, Cell), a, I)[s][p] = Tally(b, Cell)[s][p]
        /\ SeqPosAdd(Tally(b, Cell), a, I)[s][p] = Tally(whole, Cell)[s][p]
  BY <1>1, <1>3
<1>5. /\ Tally(whole, Cell) \in [Seqs -> [Pos -> Int]]
      /\ Tally(b, Cell) \in [Seqs -> [Pos -> Int]]
  BY TallyInt
<1> QED BY <1>2, <1>4, <1>5, SameCounts

-----------------------------------------------------------------------------
(* reset() leaves an exact index, over empty cells. *)
LEMMA ResetWell == Well(Reset) /\ \A i \in Cell : Reset.cell[i] = Vacant
<1>1. Reset \in KVCellsType
  BY DEF Reset, KVCellsType, CellState, Vacant, None, Cell
<1>2. Reset.used = Live(Reset) /\ Tidy(Reset.cell)
  BY DEF Reset, Live, IsEmpty, Vacant, Tidy
<1>3. \A s \in Seqs, p \in Pos : Reset.seqPos[s][p] = Tally(Reset.cell, Cell)[s][p]
  <2> TAKE s \in Seqs, p \in Pos
  <2>1. At(Reset.cell, Cell, s, p) = {}
    BY DEF At, Reset, Vacant
  <2> QED BY <2>1, TallyAt, FS_EmptySet DEF Reset
<1>4. Reset.seqPos \in [Seqs -> [Pos -> Int]]
  BY DEF Reset
<1>5. Reset.seqPos = Tally(Reset.cell, Cell)
  BY <1>3, <1>4, TallyInt, SameCounts
<1> QED BY <1>1, <1>2, <1>5, WellIff DEF Reset

(* rm, seq_rm and seq_keep *)
LEMMA SeqRmWell ==
  ASSUME NEW c, Well(c), NEW drop
  PROVE  /\ Well(SeqRm(c, drop))
         /\ \A i \in Cell : SeqRm(c, drop).cell[i] \in
                              {Vacant, [c.cell[i] EXCEPT !.seq = @ \ drop[i]]}
         /\ \A i \in Cell : IsEmpty(SeqRm(c, drop), i) <=> IsEmpty(c, i) \/ i \in Emptied(c, drop)
<1> DEFINE gone == Emptied(c, drop)
           left == [i \in Cell |-> [c.cell[i] EXCEPT !.seq = @ \cap drop[i]]]
           new  == [i \in Cell |-> IF i \in gone THEN Vacant
                                   ELSE [c.cell[i] EXCEPT !.seq = @ \ drop[i]]]
           d    == SeqRm(c, drop)
<1>0. /\ c \in KVCellsType /\ c.used = Live(c) /\ c.seqPos = Tally(c.cell, Cell)
      /\ Tidy(c.cell)
  BY WellIff DEF Well
<1>1. d \in KVCellsType
  BY <1>0, SeqRmType
<1>2. /\ d.cell = new /\ d.used = c.used \ gone
      /\ d.seqPos = SeqPosRm(c.seqPos, left, Live(c))
  BY DEF SeqRm
<1>3. \A i \in Cell : c.cell[i] \in CellState
  BY <1>0 DEF KVCellsType
<1>4. gone \subseteq Live(c) /\ Live(c) \subseteq Cell
  BY DEF Emptied, Live
<1>5. \A i \in Cell : /\ i \in gone => new[i] = Vacant
                      /\ i \notin gone => new[i] = [c.cell[i] EXCEPT !.seq = @ \ drop[i]]
  OBVIOUS
<1>6. \A i \in Cell : new[i].pos = None <=> (c.cell[i].pos = None \/ i \in gone)
  BY <1>3, <1>5 DEF CellState, Vacant
<1>7. d.used = Live(d)
  BY <1>0, <1>2, <1>4, <1>6 DEF Live, IsEmpty
<1>8. Tidy(d.cell)
  <2> SUFFICES ASSUME NEW i \in Cell, new[i].pos = None, i \notin gone
               PROVE  new[i] = Vacant
    BY <1>2, <1>5 DEF Tidy
  <2>1. c.cell[i] = Vacant
    BY <1>0, <1>6 DEF Tidy
  <2> QED BY <1>5, <2>1 DEF Vacant
<1>9. \A s \in Seqs, p \in Pos :
        /\ At(c.cell, Cell, s, p) = At(left, Live(c), s, p) \cup At(new, Cell, s, p)
        /\ At(left, Live(c), s, p) \cap At(new, Cell, s, p) = {}
  <2> TAKE s \in Seqs, p \in Pos
  <2>1. p # None
    BY DEF Pos, None
  <2>2. \A i \in Cell : left[i].pos = c.cell[i].pos /\ left[i].seq = c.cell[i].seq \cap drop[i]
    BY <1>3 DEF CellState
  <2>3. \A i \in Cell : i \notin gone => /\ new[i].pos = c.cell[i].pos
                                         /\ new[i].seq = c.cell[i].seq \ drop[i]
    BY <1>3, <1>5 DEF CellState
  <2>4. \A i \in gone : new[i].pos = None /\ c.cell[i].seq \subseteq drop[i]
    BY <1>4, <1>5 DEF Emptied, Vacant
  <2> HIDE DEF left, new, gone, d
  <2>5. \A i \in Cell : c.cell[i].pos = p => i \in Live(c)
    BY <2>1 DEF Live, IsEmpty
  <2> QED BY <1>4, <2>1, <2>2, <2>3, <2>4, <2>5 DEF At
<1>10. d.seqPos = Tally(d.cell, Cell)
  <2>1. Live(c) \in SUBSET Cell
    BY <1>4
  <2> HIDE DEF left, new, gone, d
  <2>2. SeqPosRm(Tally(c.cell, Cell), left, Live(c)) = Tally(new, Cell)
    BY <1>9, <2>1, TallySum
  <2> QED BY <1>0, <1>2, <2>2
<1>11. Well(d)
  BY <1>1, <1>7, <1>8, <1>10, WellIff
<1> QED BY <1>2, <1>5, <1>6, <1>11 DEF IsEmpty

(* pos_set and seq_add on empty cells *)
LEMMA EmplaceWell ==
  ASSUME NEW c, Well(c), NEW I \in SUBSET Cell, \A i \in I : IsEmpty(c, i),
         NEW at, \A i \in I : at[i].pos \in Pos /\ at[i].seq \in SUBSET Seqs
  PROVE  /\ Well(Emplace(c, I, at))
         /\ \A i \in Cell : Emplace(c, I, at).cell[i].shift = c.cell[i].shift
<1> DEFINE new == [i \in Cell |-> IF i \notin I THEN c.cell[i] ELSE
                    [c.cell[i] EXCEPT !.pos = at[i].pos, !.seq = at[i].seq]]
           d   == Emplace(c, I, at)
<1>0. /\ c \in KVCellsType /\ c.used = Live(c) /\ c.seqPos = Tally(c.cell, Cell)
      /\ Tidy(c.cell)
  BY WellIff DEF Well
<1>1. \A i \in Cell : c.cell[i] \in CellState
  BY <1>0 DEF KVCellsType
<1>2. /\ d = [cell |-> new, used |-> c.used \cup I,
              seqPos |-> SeqPosAdd(c.seqPos, new, I), hasShift |-> c.hasShift]
  BY DEF Emplace
<1>3. ASSUME NEW i \in I
      PROVE  /\ new[i].pos = at[i].pos /\ new[i].seq = at[i].seq
             /\ new[i].shift = c.cell[i].shift
             /\ new[i] \in CellState
  <2> DEFINE old == c.cell[i]
  <2>1. old \in CellState /\ new[i] = [old EXCEPT !.pos = at[i].pos, !.seq = at[i].seq]
    BY <1>1
  <2>2. at[i].pos \in Pos /\ at[i].seq \in SUBSET Seqs
    OBVIOUS
  <2> HIDE DEF new, old
  <2> QED BY <2>1, <2>2 DEF CellState, old
<1>4. \A i \in Cell \ I : new[i] = c.cell[i]
  OBVIOUS
<1>5. new \in [Cell -> CellState]
  BY <1>1, <1>3, <1>4
<1> HIDE DEF new, d
<1>6. d \in KVCellsType
  <2>1. c.used \cup I \in SUBSET Cell /\ c.hasShift \in BOOLEAN /\ c.seqPos \in [Seqs -> [Pos -> Int]]
    BY <1>0 DEF KVCellsType
  <2> QED BY <1>2, <1>5, <2>1, SeqPosType, KVCellsRecord
<1>7. \A i \in I : new[i].pos # None
  <2>1. \A p \in Pos : p # None
    BY DEF Pos, None
  <2>2. \A i \in I : new[i].pos = at[i].pos
    BY <1>3
  <2> QED BY <2>1, <2>2
<1>8. d.used = Live(d) /\ Tidy(d.cell)
  BY <1>0, <1>2, <1>4, <1>7 DEF Live, IsEmpty, Tidy
<1>9. \A s \in Seqs, p \in Pos :
        /\ At(new, Cell, s, p) = At(new, I, s, p) \cup At(c.cell, Cell, s, p)
        /\ At(new, I, s, p) \cap At(c.cell, Cell, s, p) = {}
  <2> TAKE s \in Seqs, p \in Pos
  <2>1. \A i \in I : c.cell[i].pos # p
    BY DEF IsEmpty, Pos, None
  <2> QED BY <1>4, <2>1 DEF At
<1>10. d.seqPos = Tally(d.cell, Cell)
  BY <1>0, <1>2, <1>9, TallySum
<1>11. Well(d)
  BY <1>6, <1>8, <1>10, WellIff
<1>12. \A i \in Cell : d.cell[i].shift = c.cell[i].shift
  <2> SUFFICES ASSUME NEW i \in Cell PROVE new[i].shift = c.cell[i].shift
    BY <1>2
  <2>1. CASE i \in I
    BY <1>3, <2>1
  <2>2. CASE i \notin I
    BY <1>4, <2>2
  <2> QED BY <2>1, <2>2
<1> QED BY <1>11, <1>12 DEF d

(* Cells rewritten in place: counted out as they were, in as they are. *)
LEMMA RewriteWell ==
  ASSUME NEW c, Well(c), NEW I \in SUBSET Cell, NEW new \in [Cell -> CellState],
         \A i \in Cell \ I : new[i] = c.cell[i], Tidy(new),
         NEW u, u = {i \in Cell : new[i].pos # None}, NEW h \in BOOLEAN
  PROVE  Well([cell |-> new, used |-> u,
               seqPos |-> SeqPosAdd(SeqPosRm(c.seqPos, c.cell, I), new, I),
               hasShift |-> h])
<1> DEFINE sp == SeqPosAdd(SeqPosRm(c.seqPos, c.cell, I), new, I)
           d  == [cell |-> new, used |-> u, seqPos |-> sp, hasShift |-> h]
<1>1. c \in KVCellsType /\ c.seqPos = Tally(c.cell, Cell)
  BY WellIff DEF Well
<1>2. sp = Tally(new, Cell)
  BY <1>1, TallyReplaced
<1>3. sp \in [Seqs -> [Pos -> Int]]
  BY <1>2, TallyInt
<1> HIDE DEF sp
<1>4. d \in KVCellsType
  BY <1>3, KVCellsRecord
<1>5. d.used = Live(d)
  BY DEF Live, IsEmpty
<1> QED BY <1>2, <1>4, <1>5, WellIff DEF sp

(* pos_add *)
LEMMA PosAddWell ==
  ASSUME NEW c, Well(c), NEW I \in SUBSET Live(c), NEW d \in Int,
         \A i \in I : c.cell[i].pos + d <= MaxPos
  PROVE  Well(PosAdd(c, I, d))
<1> DEFINE gone == {i \in I : c.cell[i].pos + d < 0}
           new  == [i \in Cell |->
                      IF i \notin I THEN c.cell[i]
                      ELSE IF i \in gone THEN Vacant
                      ELSE [c.cell[i] EXCEPT !.pos = @ + d, !.shift = @ + d]]
<1>0. /\ c \in KVCellsType /\ c.used = Live(c) /\ Tidy(c.cell)
  BY WellIff DEF Well
<1>1. \A i \in Cell : c.cell[i] \in CellState
  BY <1>0 DEF KVCellsType
<1>2. I \in SUBSET Cell
  BY DEF Live
<1>3. \A i \in Cell \ I : new[i] = c.cell[i]
  OBVIOUS
<1>4. \A i \in gone : new[i] = Vacant
  BY <1>2
<1>5. ASSUME NEW i \in I \ gone
      PROVE  new[i] \in CellState /\ new[i].pos # None
  <2> DEFINE old == c.cell[i]
  <2>1. old \in CellState /\ new[i] = [old EXCEPT !.pos = @ + d, !.shift = @ + d]
    BY <1>1, <1>2
  <2>2. old.pos \in Int /\ old.shift \in Int
    <3>1. old.pos \in Pos \cup {None} /\ old.shift \in Int
      BY <2>1 DEF CellState
    <3> HIDE DEF old
    <3> QED BY <3>1, CellsAssumption DEF Pos, None
  <2>3. ~ (old.pos + d < 0) /\ old.pos + d <= MaxPos
    OBVIOUS
  <2>4. old.pos + d \in Pos /\ old.pos + d # None /\ old.shift + d \in Int
    <3> HIDE DEF old
    <3> QED BY <2>2, <2>3, CellsAssumption DEF Pos, None
  <2> HIDE DEF new, old
  <2> QED BY <2>1, <2>4 DEF CellState
<1>6. Vacant \in CellState /\ Vacant.pos = None
  BY DEF Vacant, CellState, None
<1>7. new \in [Cell -> CellState]
  BY <1>1, <1>2, <1>3, <1>4, <1>5, <1>6
<1>8. Tidy(new)
  BY <1>0, <1>2, <1>3, <1>4, <1>5 DEF Tidy
<1>9. c.used \ gone = {i \in Cell : new[i].pos # None}
  <2>1. Live(c) = {i \in Cell : c.cell[i].pos # None}
    BY DEF Live, IsEmpty
  <2> HIDE DEF new
  <2>2. ASSUME NEW i \in Cell
        PROVE  i \in Live(c) \ gone <=> new[i].pos # None
    <3>1. CASE i \notin I
      BY <1>3, <2>1, <3>1
    <3>2. CASE i \in gone
      BY <1>4, <1>6, <3>2
    <3>3. CASE i \in I \ gone
      BY <1>5, <3>3
    <3> QED BY <3>1, <3>2, <3>3
  <2>3. Live(c) \ gone \subseteq Cell
    BY DEF Live
  <2> QED BY <1>0, <2>2, <2>3
<1> DEFINE h == c.hasShift \/ I # {}
<1>10. h \in BOOLEAN
  OBVIOUS
<1>11. PosAdd(c, I, d) =
         [cell |-> new, used |-> c.used \ gone,
          seqPos |-> SeqPosAdd(SeqPosRm(c.seqPos, c.cell, I), new, I),
          hasShift |-> h]
  BY DEF PosAdd
<1> HIDE DEF new, gone, h
<1> QED BY <1>2, <1>3, <1>7, <1>8, <1>9, <1>10, <1>11, RewriteWell

(* pos_div *)
LEMMA PosDivWell ==
  ASSUME NEW c, Well(c), NEW I \in SUBSET Live(c), NEW d \in Nat \ {0}
  PROVE  Well(PosDiv(c, I, d))
<1> DEFINE new == [i \in Cell |->
                  IF i \notin I THEN c.cell[i] ELSE
                  LET p == c.cell[i].pos
                  IN  [c.cell[i] EXCEPT !.pos = p \div d,
                                        !.shift = @ + (p - p \div d)]]
<1>0. /\ c \in KVCellsType /\ c.used = Live(c) /\ Tidy(c.cell) /\ c.hasShift \in BOOLEAN
  BY WellIff DEF Well, KVCellsType
<1>1. \A i \in Cell : c.cell[i] \in CellState
  BY <1>0 DEF KVCellsType
<1>2. I \in SUBSET Cell
  BY DEF Live
<1>3. \A i \in Cell \ I : new[i] = c.cell[i]
  OBVIOUS
<1>4. ASSUME NEW p \in Pos
      PROVE  p \div d \in Pos
  <2>1. p \in Nat /\ p \div d \in Int /\ p \div d >= 0 /\ p \div d <= p
    BY CellsAssumption DEF Pos
  <2> QED BY <2>1, CellsAssumption DEF Pos
<1>5. ASSUME NEW i \in I
      PROVE  new[i] \in CellState /\ new[i].pos # None
  <2> DEFINE old == c.cell[i]
             q   == old.pos \div d
  <2>1. old \in CellState
        /\ new[i] = [old EXCEPT !.pos = q, !.shift = @ + (old.pos - q)]
    BY <1>1, <1>2
  <2>2. old.pos \in Pos
    BY <2>1 DEF CellState, Live, IsEmpty
  <2>3. q \in Pos
    BY <1>4, <2>2
  <2>4. q # None /\ old.shift + (old.pos - q) \in Int
    <3>1. old.shift \in Int
      BY <2>1 DEF CellState
    <3> HIDE DEF old, q
    <3> QED BY <2>2, <2>3, <3>1, CellsAssumption DEF Pos, None
  <2> HIDE DEF new, old, q
  <2> QED BY <2>1, <2>3, <2>4 DEF CellState
<1>6. new \in [Cell -> CellState]
  BY <1>1, <1>2, <1>3, <1>5
<1>7. Tidy(new)
  BY <1>0, <1>2, <1>3, <1>5 DEF Tidy
<1>8. c.used = {i \in Cell : new[i].pos # None}
  <2> HIDE DEF new
  <2> QED BY <1>0, <1>2, <1>3, <1>5 DEF Live, IsEmpty
<1> DEFINE h == c.hasShift \/ I # {}
<1>9. h \in BOOLEAN
  OBVIOUS
<1>10. PosDiv(c, I, d) =
         [cell |-> new, used |-> c.used,
          seqPos |-> SeqPosAdd(SeqPosRm(c.seqPos, c.cell, I), new, I),
          hasShift |-> h]
  BY DEF PosDiv
<1> HIDE DEF new, h
<1>11. Well([cell |-> new, used |-> c.used,
             seqPos |-> SeqPosAdd(SeqPosRm(c.seqPos, c.cell, I), new, I),
             hasShift |-> h])
  BY <1>2, <1>3, <1>6, <1>7, <1>8, <1>9, RewriteWell
<1> QED BY <1>10, <1>11

(* set *)
LEMMA SetCellsWell ==
  ASSUME NEW c, Well(c), NEW idxs, NEW other,
         \A k \in DOMAIN idxs : /\ idxs[k] \in Cell
                                /\ other[k].pos \in Pos \cup {None}
                                /\ other[k].seq \in SUBSET Seqs
                                /\ other[k].pos = None =>
                                     other[k].seq = {} /\ c.cell[idxs[k]].shift = 0
  PROVE  /\ Well(SetCells(c, idxs, other))
         /\ \A i \in Cell : SetCells(c, idxs, other).cell[i].shift = c.cell[i].shift
<1> DEFINE I      == Targets(idxs)
           new    == Overlay(c.cell, idxs, other)
           filled == {i \in I : c.cell[i].pos = None /\ new[i].pos # None}
           erased == {i \in I : c.cell[i].pos # None /\ new[i].pos = None}
           u      == (c.used \cup filled) \ erased
           h      == c.hasShift
<1>0. /\ c \in KVCellsType /\ c.used = Live(c) /\ Tidy(c.cell) /\ h \in BOOLEAN
  BY WellIff DEF Well, KVCellsType
<1>1. \A i \in Cell : c.cell[i] \in CellState
  BY <1>0 DEF KVCellsType
<1>2. I \in SUBSET Cell
  BY DEF Targets
<1>3. \A i \in Cell \ I : new[i] = c.cell[i]
  BY DEF Overlay
<1>4. ASSUME NEW i \in I
      PROVE  /\ new[i] \in CellState
             /\ new[i].shift = c.cell[i].shift
             /\ new[i].pos = None => new[i] = Vacant
  <2> DEFINE k == SlotOf(idxs, i)
  <2>1. k \in DOMAIN idxs /\ idxs[k] = i
    BY DEF SlotOf, Targets
  <2>2. new[i] = [pos |-> other[k].pos, shift |-> c.cell[i].shift, seq |-> other[k].seq]
    BY <1>2 DEF Overlay
  <2>3. c.cell[i].shift \in Int
    BY <1>1, <1>2 DEF CellState
  <2> HIDE DEF k, new, I
  <2> DEFINE p == other[k].pos
             q == other[k].seq
             f == c.cell[i].shift
  <2>4. p \in Pos \cup {None} /\ q \in SUBSET Seqs /\ (p = None => q = {} /\ f = 0)
    BY <2>1
  <2>5. new[i] = [pos |-> p, shift |-> f, seq |-> q] /\ f \in Int
    BY <2>2, <2>3
  <2> HIDE DEF p, q
  <2>6. new[i].pos = p
    BY <2>5
  <2> QED
    <3>1. new[i] \in CellState /\ new[i].shift = f
      BY <2>4, <2>5 DEF CellState
    <3>2. p = None => new[i] = Vacant
      BY <2>4, <2>5 DEF Vacant
    <3> QED BY <2>6, <3>1, <3>2
<1>5. new \in [Cell -> CellState]
  <2>1. \A i \in Cell : new[i] \in CellState
    <3> HIDE DEF new, I
    <3> QED BY <1>1, <1>3, <1>4
  <2> QED BY <2>1 DEF Overlay
<1> HIDE DEF new, I
<1>6. Tidy(new)
  BY <1>0, <1>3, <1>4 DEF Tidy
<1>7. u = {i \in Cell : new[i].pos # None}
  <2>1. ASSUME NEW i \in Cell
        PROVE  i \in u <=> new[i].pos # None
    <3>1. c.used = {m \in Cell : c.cell[m].pos # None}
      BY <1>0 DEF Live, IsEmpty
    <3> QED BY <1>3, <3>1
  <2>2. u \subseteq Cell
    BY <1>0, <1>2 DEF Live
  <2> QED BY <2>1, <2>2
<1>8. SetCells(c, idxs, other) =
        [cell |-> new, used |-> u,
         seqPos |-> SeqPosAdd(SeqPosRm(c.seqPos, c.cell, I), new, I),
         hasShift |-> h]
  BY DEF SetCells, new, I
<1> HIDE DEF u, h
<1>9. Well([cell |-> new, used |-> u,
            seqPos |-> SeqPosAdd(SeqPosRm(c.seqPos, c.cell, I), new, I),
            hasShift |-> h])
  BY <1>0, <1>2, <1>3, <1>5, <1>6, <1>7, RewriteWell
<1>10. \A i \in Cell : new[i].shift = c.cell[i].shift
  <2> SUFFICES ASSUME NEW i \in Cell PROVE new[i].shift = c.cell[i].shift
    OBVIOUS
  <2>1. CASE i \in I
    BY <1>4, <2>1
  <2>2. CASE i \notin I
    BY <1>3, <2>2
  <2> QED BY <2>1, <2>2
<1> QED BY <1>8, <1>9, <1>10

(* seq_add, which counts a sequence even if it is there already *)
LEMMA SeqAddWell ==
  ASSUME NEW c, Well(c), NEW I \in SUBSET Live(c), NEW s \in Seqs,
         \A i \in I : s \notin c.cell[i].seq
  PROVE  Well(SeqAdd(c, I, s))
<1> DEFINE new   == [i \in Cell |-> IF i \notin I THEN c.cell[i] ELSE
                                      [c.cell[i] EXCEPT !.seq = @ \cup {s}]]
           added == [i \in Cell |-> [c.cell[i] EXCEPT !.seq = {s}]]
           d     == SeqAdd(c, I, s)
<1>0. /\ c \in KVCellsType /\ c.used = Live(c) /\ c.seqPos = Tally(c.cell, Cell)
      /\ Tidy(c.cell) /\ c.hasShift \in BOOLEAN /\ c.used \in SUBSET Cell
      /\ c.seqPos \in [Seqs -> [Pos -> Int]]
  BY WellIff DEF Well, KVCellsType
<1>1. \A i \in Cell : c.cell[i] \in CellState
  BY <1>0 DEF KVCellsType
<1>2. I \in SUBSET Cell
  BY DEF Live
<1>3. \A i \in Cell \ I : new[i] = c.cell[i]
  OBVIOUS
<1>4. \A i \in I : /\ new[i] \in CellState
                   /\ new[i].pos = c.cell[i].pos
                   /\ new[i].seq = c.cell[i].seq \cup {s}
                   /\ added[i].pos = c.cell[i].pos /\ added[i].seq = {s}
  BY <1>1, <1>2 DEF CellState
<1>5. new \in [Cell -> CellState]
  BY <1>1, <1>3, <1>4
<1>6. d = [cell |-> new, used |-> c.used,
           seqPos |-> SeqPosAdd(c.seqPos, added, I), hasShift |-> c.hasShift]
  BY DEF SeqAdd
<1> HIDE DEF new, added, d
<1>7. d \in KVCellsType
  BY <1>0, <1>2, <1>5, <1>6, SeqPosType, KVCellsRecord
<1>8. \A i \in Cell : new[i].pos = c.cell[i].pos
  BY <1>3, <1>4
<1>9. d.used = Live(d)
  BY <1>0, <1>6, <1>8 DEF Live, IsEmpty
<1>10. Tidy(d.cell)
  BY <1>0, <1>3, <1>6, <1>8 DEF Tidy, Live, IsEmpty
<1>11. \A t \in Seqs, p \in Pos :
         /\ At(new, Cell, t, p) = At(added, I, t, p) \cup At(c.cell, Cell, t, p)
         /\ At(added, I, t, p) \cap At(c.cell, Cell, t, p) = {}
  BY <1>2, <1>3, <1>4 DEF At
<1>12. SeqPosAdd(Tally(c.cell, Cell), added, I) = Tally(new, Cell)
  BY <1>2, <1>11, TallySum
<1>13. d.seqPos = Tally(d.cell, Cell)
  BY <1>0, <1>6, <1>12
<1> QED BY <1>7, <1>9, <1>10, <1>13, WellIff DEF d

(* reset_shift *)
LEMMA ResetShiftWell ==
  ASSUME NEW c, Well(c)
  PROVE  /\ Well(ResetShift(c))
         /\ \A i \in Cell : ResetShift(c).cell[i].shift = 0
<1> DEFINE new == [i \in Cell |-> [c.cell[i] EXCEPT !.shift = 0]]
           d   == ResetShift(c)
<1>0. /\ c \in KVCellsType /\ c.used = Live(c) /\ c.seqPos = Tally(c.cell, Cell)
      /\ Tidy(c.cell) /\ c.used \in SUBSET Cell /\ c.seqPos \in [Seqs -> [Pos -> Int]]
  BY WellIff DEF Well, KVCellsType
<1>1. \A i \in Cell : c.cell[i] \in CellState
  BY <1>0 DEF KVCellsType
<1>2. \A i \in Cell : /\ new[i] \in CellState /\ new[i].pos = c.cell[i].pos
                      /\ new[i].seq = c.cell[i].seq /\ new[i].shift = 0
                      /\ c.cell[i] = Vacant => new[i] = Vacant
  BY <1>1 DEF CellState, Vacant
<1>3. new \in [Cell -> CellState]
  BY <1>2
<1>4. d = [cell |-> new, used |-> c.used, seqPos |-> c.seqPos, hasShift |-> FALSE]
  BY DEF ResetShift
<1> HIDE DEF new, d
<1>5. d \in KVCellsType
  BY <1>0, <1>3, <1>4, KVCellsRecord
<1>6. d.used = Live(d) /\ Tidy(d.cell)
  BY <1>0, <1>2, <1>4 DEF Live, IsEmpty, Tidy
<1>7. \A s \in Seqs, p \in Pos : At(new, Cell, s, p) = At(c.cell, Cell, s, p)
  BY <1>2 DEF At
<1>8. Tally(new, Cell) = Tally(c.cell, Cell)
  <2>1. \A s \in Seqs, p \in Pos : Tally(new, Cell)[s][p] = Tally(c.cell, Cell)[s][p]
    BY <1>7, TallyAt
  <2> QED BY <2>1, TallyInt, SameCounts
<1>9. Well(d)
  BY <1>0, <1>4, <1>5, <1>6, <1>8, WellIff
<1> QED BY <1>2, <1>4, <1>9 DEF d

(* The metadata move of compaction: no cell it fills is left without tokens. *)
LEMMA GatherWell ==
  ASSUME NEW c, Well(c), NEW src \in Seq(Cell), Len(src) <= NCells,
         \A k \in 1 .. Len(src) : src[k] \in Live(c)
  PROVE  Well(Gather(c, src))
<1> DEFINE n    == Len(src)
           kept == Cp(c, src)
           far  == [i \in Cell |-> IF \E k \in 1 .. n : src[k] = i /\ i >= n
                                   THEN Seqs ELSE {}]
           rmd  == SeqRm(c, far)
           dst  == [k \in 1 .. n |-> k - 1]
<1>1. Well(rmd)
  BY SeqRmWell
<1>2. ASSUME NEW k \in DOMAIN dst
      PROVE  /\ dst[k] \in Cell
             /\ kept[k].pos \in Pos \cup {None} /\ kept[k].seq \in SUBSET Seqs
             /\ kept[k].pos # None
  <2>1. k \in 1 .. n /\ k \in DOMAIN src /\ src[k] \in Cell
    OBVIOUS
  <2>2. c.cell[src[k]] \in CellState
    BY <2>1 DEF Well, KVCellsType
  <2>3. kept[k] = [pos |-> c.cell[src[k]].pos, seq |-> c.cell[src[k]].seq]
    BY <2>1 DEF Cp
  <2>4. dst[k] \in Cell
    BY <2>1, CellsAssumption DEF Cell
  <2>5. c.cell[src[k]].pos # None
    BY <2>1 DEF Live, IsEmpty
  <2> HIDE DEF kept
  <2> QED BY <2>2, <2>3, <2>4, <2>5 DEF CellState
<1> HIDE DEF kept, dst, rmd
<1>3. Well(SetCells(rmd, dst, kept))
  BY <1>1, <1>2, SetCellsWell
<1> QED BY <1>3 DEF Gather, kept, dst, rmd

(***************************************************************************)
(* When src lists the live cells, the position and the sequences of the    *)
(* k-th of them are found at cell k - 1, the cells from n on are empty,    *)
(* and no cell gets a shift.                                               *)
(***************************************************************************)
LEMMA GatherPlaces ==
  ASSUME NEW c, Well(c), NEW src \in Seq(Cell), Len(src) <= NCells,
         Live(c) = {src[k] : k \in 1 .. Len(src)}
  PROVE  /\ Well(Gather(c, src))
         /\ \A k \in 1 .. Len(src) :
              /\ Gather(c, src).cell[k - 1].pos = c.cell[src[k]].pos
              /\ Gather(c, src).cell[k - 1].seq = c.cell[src[k]].seq
         /\ Live(Gather(c, src)) = 0 .. Len(src) - 1
         /\ \A i \in Cell : c.cell[i].shift = 0 => Gather(c, src).cell[i].shift = 0
         /\ Gather(c, src).hasShift = c.hasShift
<1> DEFINE n    == Len(src)
           kept == Cp(c, src)
           far  == [i \in Cell |-> IF \E k \in 1 .. n : src[k] = i /\ i >= n
                                   THEN Seqs ELSE {}]
           rmd  == SeqRm(c, far)
           dst  == [k \in 1 .. n |-> k - 1]
           g    == Gather(c, src)
<1>0. n \in Nat /\ n <= NCells /\ \A i : i \in Cell <=> i \in Nat /\ i < NCells
  BY CellsAssumption DEF Cell
<1>1. \A k \in 1 .. n : src[k] \in Live(c) /\ src[k] \in Cell
  BY DEF Live
<1>2. Well(g)
  BY <1>1, GatherWell
<1>3. /\ Well(rmd)
      /\ \A i \in Cell : rmd.cell[i] \in {Vacant, [c.cell[i] EXCEPT !.seq = @ \ far[i]]}
      /\ \A i \in Cell : IsEmpty(rmd, i) <=> IsEmpty(c, i) \/ i \in Emptied(c, far)
  <2> HIDE DEF far
  <2> QED BY SeqRmWell
<1>4. g.cell = Overlay(rmd.cell, dst, kept)
  BY DEF Gather, SetCells
<1>5. \A k \in 1 .. n : kept[k].pos = c.cell[src[k]].pos /\ kept[k].seq = c.cell[src[k]].seq
  BY <1>1 DEF Cp
<1> HIDE DEF kept
<1>6. DOMAIN dst = 1 .. n /\ \A k \in 1 .. n : dst[k] = k - 1
  OBVIOUS
<1> HIDE DEF dst, g, rmd
<1>7. ASSUME NEW k \in 1 .. n
      PROVE  /\ g.cell[k - 1].pos = c.cell[src[k]].pos
             /\ g.cell[k - 1].seq = c.cell[src[k]].seq
  <2>1. k - 1 \in Cell /\ k - 1 \in Targets(dst)
    <3>1. k \in DOMAIN dst /\ dst[k] = k - 1
      BY <1>6
    <3>2. k - 1 \in Nat /\ k - 1 < NCells
      BY <1>0, CellsAssumption
    <3>3. k - 1 \in Cell
      BY <1>0, <3>2
    <3> QED BY <3>1, <3>3 DEF Targets
  <2>2. SlotOf(dst, k - 1) = k
    <3>1. \A m \in 1 .. n : dst[m] = k - 1 <=> m = k
      BY <1>0, <1>6
    <3> QED BY <1>6, <3>1 DEF SlotOf
  <2>3. g.cell[k - 1] = [pos |-> kept[k].pos, shift |-> rmd.cell[k - 1].shift,
                         seq |-> kept[k].seq]
    BY <1>4, <2>1, <2>2 DEF Overlay
  <2>4. g.cell[k - 1].pos = kept[k].pos /\ g.cell[k - 1].seq = kept[k].seq
    BY <2>3
  <2>5. kept[k].pos = c.cell[src[k]].pos /\ kept[k].seq = c.cell[src[k]].seq
    BY <1>5, Zenon
  <2> QED BY <2>4, <2>5
<1>8. ASSUME NEW i \in Cell, i >= n
      PROVE  IsEmpty(g, i)
  <2>1. i \notin Targets(dst)
    BY <1>0, <1>6, <1>8 DEF Targets
  <2>2. g.cell[i] = rmd.cell[i]
    BY <1>4, <2>1 DEF Overlay
  <2>3. IsEmpty(rmd, i)
    <3> SUFFICES ASSUME i \in Live(c) PROVE i \in Emptied(c, far)
      BY <1>3 DEF Live
    <3>1. far[i] = Seqs
      BY <1>8
    <3>2. c.cell[i].seq \subseteq Seqs
      BY DEF Well, KVCellsType, CellState
    <3> QED BY <3>1, <3>2 DEF Emptied
  <2> QED BY <2>2, <2>3 DEF IsEmpty
<1>9. ASSUME NEW i \in Cell, i < n
      PROVE  ~IsEmpty(g, i)
  <2>1. i + 1 \in 1 .. n /\ (i + 1) - 1 = i
    BY <1>0, <1>9
  <2>2. g.cell[i].pos = c.cell[src[i + 1]].pos
    BY <1>7, <2>1
  <2> QED BY <1>1, <2>1, <2>2 DEF Live, IsEmpty
<1>10. Live(g) = 0 .. n - 1
  <2>1. \A i \in Cell : i \in Live(g) <=> i < n
    BY <1>0, <1>8, <1>9 DEF Live
  <2>2. Live(g) \in SUBSET Cell
    BY LiveType
  <2>3. 0 .. n - 1 \in SUBSET Cell /\ \A i \in Cell : i \in 0 .. n - 1 <=> i < n
    <3>1. \A i \in 0 .. n - 1 : i \in Nat /\ i < NCells
      BY <1>0, CellsAssumption
    <3>2. \A i \in Cell : i \in Nat
      BY <1>0
    <3> HIDE DEF n
    <3> QED BY <1>0, <3>1, <3>2
  <2> QED BY <2>1, <2>2, <2>3
<1>11. ASSUME NEW i \in Cell, c.cell[i].shift = 0
       PROVE  g.cell[i].shift = 0
  <2>1. c.cell[i] \in CellState
    BY DEF Well, KVCellsType
  <2>2. rmd.cell[i].shift = 0
    BY <1>3, <1>11, <2>1 DEF Vacant, CellState
  <2> QED BY <1>4, <2>2 DEF Overlay
<1>12. g.hasShift = c.hasShift
  BY DEF g, Gather, SetCells, SeqRm
<1> QED BY <1>2, <1>7, <1>10, <1>11, <1>12 DEF g

(* When none has a shift, the k-th is found at cell k - 1 as it was.       *)
LEMMA GatherExact ==
  ASSUME NEW c, Well(c), NEW src \in Seq(Cell), Len(src) <= NCells,
         Live(c) = {src[k] : k \in 1 .. Len(src)},
         \A i \in Cell : c.cell[i].shift = 0
  PROVE  /\ Well(Gather(c, src))
         /\ \A k \in 1 .. Len(src) : Gather(c, src).cell[k - 1] = c.cell[src[k]]
         /\ Live(Gather(c, src)) = 0 .. Len(src) - 1
<1> DEFINE g == Gather(c, src)
<1>1. /\ Well(g) /\ Live(g) = 0 .. Len(src) - 1
      /\ \A k \in 1 .. Len(src) : /\ g.cell[k - 1].pos = c.cell[src[k]].pos
                                  /\ g.cell[k - 1].seq = c.cell[src[k]].seq
      /\ \A i \in Cell : g.cell[i].shift = 0
  BY GatherPlaces
<1> HIDE DEF g
<1>2. ASSUME NEW k \in 1 .. Len(src)
      PROVE  g.cell[k - 1] = c.cell[src[k]]
  <2>1. k - 1 \in Cell /\ src[k] \in Cell
    BY CellsAssumption DEF Cell
  <2>2. g.cell[k - 1] \in CellState /\ c.cell[src[k]] \in CellState
    BY <1>1, <2>1 DEF Well, KVCellsType
  <2>3. g.cell[k - 1].shift = 0 /\ c.cell[src[k]].shift = 0
    BY <1>1, <2>1
  <2> QED BY <1>1, <2>2, <2>3 DEF CellState
<1> QED BY <1>1, <1>2 DEF g
=============================================================================
