------------------------------ MODULE KVCells ------------------------------
(***************************************************************************)
(* llama_kv_cells: the metadata of the cells of one stream.  A value of    *)
(* this module is a record                                                 *)
(*                                                                         *)
(*    cell      what each cell holds: pos, shift and the set seq           *)
(*    used      the indices of the cells in use                            *)
(*    seqPos    how often each position occurs in each sequence            *)
(*    hasShift  whether some shift has not been applied to the K data      *)
(*                                                                         *)
(* "used" and "seqPos" are an index over "cell", and each operation of the *)
(* code maintains them incrementally, as the operators below do.  They are *)
(* set-valued: an operator stands for the loop of the caller that applies  *)
(* the method of the same name to the cells of a set.                      *)
(***************************************************************************)
EXTENDS Integers, FiniteSets, Sequences

CONSTANTS
    NCells,     \* number of cells of the stream
    Seqs,       \* sequence ids (LLAMA_MAX_SEQ of them in the code)
    MaxPos      \* largest position; bounds the model, not the code

ASSUME CellsAssumption == NCells \in Nat \ {0} /\ MaxPos \in Nat

Cell == 0 .. NCells - 1
Pos  == 0 .. MaxPos

None == -1      \* position of an empty cell

CellState == [pos : Pos \cup {None}, shift : Int, seq : SUBSET Seqs]
Vacant    == [pos |-> None, shift |-> 0, seq |-> {}]

KVCellsType == [cell : [Cell -> CellState], used : SUBSET Cell,
                seqPos : [Seqs -> [Pos -> Int]], hasShift : BOOLEAN]

-----------------------------------------------------------------------------
(* reset() *)
Reset == [cell     |-> [i \in Cell |-> Vacant],
          used     |-> {},
          seqPos   |-> [s \in Seqs |-> [p \in Pos |-> 0]],
          hasShift |-> FALSE]

IsEmpty(c, i) == c.cell[i].pos = None
Live(c)       == {i \in Cell : ~IsEmpty(c, i)}

(* The positions the index records for a sequence, and their extremes. *)
PosPresent(c, s) == {p \in Pos : c.seqPos[s][p] # 0}

SeqPosMax(c, s) ==
    IF PosPresent(c, s) = {} THEN None
    ELSE CHOOSE p \in PosPresent(c, s) : \A q \in PosPresent(c, s) : q <= p

SeqPosMin(c, s) ==
    IF PosPresent(c, s) = {} THEN None
    ELSE CHOOSE p \in PosPresent(c, s) : \A q \in PosPresent(c, s) : p <= q

PosIn(c, i, p0, p1) == c.cell[i].pos >= p0 /\ c.cell[i].pos < p1

(***************************************************************************)
(* Tally(cell, I) counts what the cells of I contribute to seqPos;         *)
(* SeqPosRm and SeqPosAdd are seq_pos_rm(i) and seq_pos_add(i) over I.     *)
(***************************************************************************)
Tally(cell, I) ==
    [s \in Seqs |-> [p \in Pos |->
        Cardinality({i \in I : s \in cell[i].seq /\ cell[i].pos = p})]]

SeqPosRm(sp, cell, I) ==
    [s \in Seqs |-> [p \in Pos |-> sp[s][p] - Tally(cell, I)[s][p]]]

SeqPosAdd(sp, cell, I) ==
    [s \in Seqs |-> [p \in Pos |-> sp[s][p] + Tally(cell, I)[s][p]]]

-----------------------------------------------------------------------------
(***************************************************************************)
(* Removal.  drop[i] is the set of sequences that leave cell i; a cell     *)
(* that loses its last sequence is emptied.  With drop[i] = {s} this is    *)
(* seq_rm(i, s), with every sequence rm(i), with every other sequence      *)
(* seq_keep(i, s).  A cell without a sequence only goes with rm(i).        *)
(***************************************************************************)
Emptied(c, drop) ==
    {i \in Live(c) : /\ c.cell[i].seq \subseteq drop[i]
                     /\ c.cell[i].seq = {} => drop[i] = Seqs}

SeqRm(c, drop) ==
    LET gone == Emptied(c, drop)
        left == [i \in Cell |-> [c.cell[i] EXCEPT !.seq = @ \cap drop[i]]]
        new  == [i \in Cell |-> IF i \in gone THEN Vacant
                                ELSE [c.cell[i] EXCEPT !.seq = @ \ drop[i]]]
    IN  [cell     |-> new,
         used     |-> c.used \ gone,
         seqPos   |-> SeqPosRm(c.seqPos, left, Live(c)),
         hasShift |-> c.hasShift]

(* seq_add(i, s) on the cells of I: the count rises even if s is there. *)
SeqAdd(c, I, s) ==
    LET new   == [i \in Cell |-> IF i \notin I THEN c.cell[i] ELSE
                                   [c.cell[i] EXCEPT !.seq = @ \cup {s}]]
        added == [i \in Cell |-> [c.cell[i] EXCEPT !.seq = {s}]]
    IN  [cell     |-> new,
         used     |-> c.used,
         seqPos   |-> SeqPosAdd(c.seqPos, added, I),
         hasShift |-> c.hasShift]

(* pos_set(i, p) and seq_add(i, s) for s in S, on empty cells: at[i] is    *)
(* the [pos, seq] that cell i of I receives.  shift is left as it is.      *)
Emplace(c, I, at) ==
    LET new == [i \in Cell |-> IF i \notin I THEN c.cell[i] ELSE
                  [c.cell[i] EXCEPT !.pos = at[i].pos, !.seq = at[i].seq]]
    IN  [cell     |-> new,
         used     |-> c.used \cup I,
         seqPos   |-> SeqPosAdd(c.seqPos, new, I),
         hasShift |-> c.hasShift]

(* A slip in pos_add: a second shift overwrites the first. *)
PosAddSetsShift(c, I, d) ==
    LET gone == {i \in I : c.cell[i].pos + d < 0}
        new  == [i \in Cell |->
                   IF i \notin I THEN c.cell[i]
                   ELSE IF i \in gone THEN Vacant
                   ELSE [c.cell[i] EXCEPT !.pos = @ + d, !.shift = d]]
    IN  [cell     |-> new,
         used     |-> c.used \ gone,
         seqPos   |-> SeqPosAdd(SeqPosRm(c.seqPos, c.cell, I), new, I),
         hasShift |-> c.hasShift \/ I # {}]

(***************************************************************************)
(* pos_add(i, d): the position and the pending shift move together; a cell *)
(* whose position would become negative is emptied.                        *)
(***************************************************************************)
PosAdd(c, I, d) ==
    LET gone == {i \in I : c.cell[i].pos + d < 0}
        new  == [i \in Cell |->
                   IF i \notin I THEN c.cell[i]
                   ELSE IF i \in gone THEN Vacant
                   ELSE [c.cell[i] EXCEPT !.pos = @ + d, !.shift = @ + d]]
    IN  [cell     |-> new,
         used     |-> c.used \ gone,
         seqPos   |-> SeqPosAdd(SeqPosRm(c.seqPos, c.cell, I), new, I),
         hasShift |-> c.hasShift \/ I # {}]

(* A slip in pos_div: the index is left alone. *)
PosDivStaleIndex(c, I, d) ==
    [c EXCEPT !.cell = [i \in Cell |->
                  IF i \notin I THEN c.cell[i] ELSE
                  [c.cell[i] EXCEPT !.pos = c.cell[i].pos \div d]],
              !.hasShift = c.hasShift \/ I # {}]

(***************************************************************************)
(* pos_div(i, d).  The shift accumulates p_old - p_new, the opposite of    *)
(* what was added to the position.                                         *)
(***************************************************************************)
PosDiv(c, I, d) ==
    LET new == [i \in Cell |->
                  IF i \notin I THEN c.cell[i] ELSE
                  LET p == c.cell[i].pos
                  IN  [c.cell[i] EXCEPT !.pos = p \div d,
                                        !.shift = @ + (p - p \div d)]]
    IN  [cell     |-> new,
         used     |-> c.used,
         seqPos   |-> SeqPosAdd(SeqPosRm(c.seqPos, c.cell, I), new, I),
         hasShift |-> c.hasShift \/ I # {}]

(* cp(idxs): pos and seq of the cells idxs[1], ...; the shift is not copied. *)
Cp(c, idxs) ==
    [k \in DOMAIN idxs |->
        [pos |-> c.cell[idxs[k]].pos, seq |-> c.cell[idxs[k]].seq]]

(***************************************************************************)
(* set(idxs, other): cell idxs[k] takes the position and the sequences of  *)
(* other[k] and keeps its own shift.                                       *)
(***************************************************************************)
Targets(idxs)   == {idxs[k] : k \in DOMAIN idxs}
SlotOf(idxs, i) == CHOOSE k \in DOMAIN idxs : idxs[k] = i

Overlay(cell, idxs, other) ==
    [i \in Cell |->
        IF i \notin Targets(idxs) THEN cell[i]
        ELSE [pos   |-> other[SlotOf(idxs, i)].pos,
              shift |-> cell[i].shift,
              seq   |-> other[SlotOf(idxs, i)].seq]]

SetCells(c, idxs, other) ==
    LET I      == Targets(idxs)
        new    == Overlay(c.cell, idxs, other)
        filled == {i \in I : c.cell[i].pos = None /\ new[i].pos # None}
        erased == {i \in I : c.cell[i].pos # None /\ new[i].pos = None}
    IN  [cell     |-> new,
         used     |-> (c.used \cup filled) \ erased,
         seqPos   |-> SeqPosAdd(SeqPosRm(c.seqPos, c.cell, I), new, I),
         hasShift |-> c.hasShift]

(***************************************************************************)
(* The metadata half of endurkv_compact_seq: the cells src[1], src[2], ... *)
(* move to 0, 1, ...: the survivors are copied, those outside the prefix   *)
(* removed, and the copy is set over the prefix.                           *)
(***************************************************************************)
Gather(c, src) ==
    LET n    == Len(src)
        kept == Cp(c, src)
        far  == [i \in Cell |-> IF \E k \in 1 .. n : src[k] = i /\ i >= n
                                THEN Seqs ELSE {}]
    IN  SetCells(SeqRm(c, far), [k \in 1 .. n |-> k - 1], kept)

(* reset_shift() *)
ResetShift(c) ==
    [cell     |-> [i \in Cell |-> [c.cell[i] EXCEPT !.shift = 0]],
     used     |-> c.used,
     seqPos   |-> c.seqPos,
     hasShift |-> FALSE]

-----------------------------------------------------------------------------
(***************************************************************************)
(* What the fields promise each other: used is the set of non-empty cells, *)
(* seqPos[s][p] is how many cells hold position p for sequence s, a cell   *)
(* without a position holds nothing.                                       *)
(***************************************************************************)
IndexConsistent(c) ==
    /\ c.used = Live(c)
    /\ c.seqPos = Tally(c.cell, Live(c))
    /\ \A i \in Cell : IsEmpty(c, i) => c.cell[i] = Vacant
=============================================================================
