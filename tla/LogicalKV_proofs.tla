-------------------------- MODULE LogicalKV_proofs --------------------------
(***************************************************************************)
(* What KVCache does, told in terms of LogicalKV: each memory operation    *)
(* does to the entries what llama.h says of it and nothing else,           *)
(* compaction changes no entry, a batch that fails leaves the entries it   *)
(* found, whatever earlier operations and decodes have left in the cells;  *)
(* and, without a window or over one with batches of one ubatch, every     *)
(* step of the cache is a step of LogicalKV or changes no entry.  Then     *)
(* what a client that appends to its sequences and removes their ends      *)
(* finds in them: no position is missing, and each token attends to all it *)
(* should.  The cells that prepare finds for a batch can still be used     *)
(* when it is applied.  Last, over any window and for batches of any size: *)
(* every key is rotated for its position when it is used.                  *)
(***************************************************************************)
EXTENDS KVCache_proofs

(* Every live cell belongs to some sequence, and so will those that        *)
(* prepare puts back.  A cell that none has would be live to the cache     *)
(* and not exist for its caller.                                           *)
AllOwned(c) == \A i \in Live(c) : c.cell[i].seq # {}

OwnInv ==
    /\ AllOwned(cells)
    /\ \A k \in 1 .. Len(stack) : \A m \in 1 .. Len(stack[k].old) :
         stack[k].old[m].pos # None => stack[k].old[m].seq # {}

OInv == IInv /\ OwnInv

-----------------------------------------------------------------------------
(* A removal empties the cells it leaves without a sequence.               *)
LEMMA SeqRmOwned ==
  ASSUME NEW c, Well(c), AllOwned(c), NEW drop
  PROVE  AllOwned(SeqRm(c, drop))
<1> DEFINE d == SeqRm(c, drop)
<1>1. \A i \in Live(d) : /\ i \in Live(c) /\ i \notin Emptied(c, drop)
                         /\ d.cell[i].seq = c.cell[i].seq \ drop[i]
  BY SeqRmSame
<1> HIDE DEF d
<1>2. ASSUME NEW i \in Live(d) PROVE d.cell[i].seq # {}
  <2>1. c.cell[i].seq # {} /\ i \in Live(c) /\ i \notin Emptied(c, drop)
    BY <1>1 DEF AllOwned
  <2>2. ~ (c.cell[i].seq \subseteq drop[i])
    BY <2>1 DEF Emptied
  <2> QED BY <1>1, <2>2
<1> QED BY <1>2 DEF AllOwned, d

(* A ubatch gives a cell the sequences of its token, of which there is one. *)
LEMMA ApplyOwned ==
  ASSUME NEW c, Well(c), AllOwned(c), NEW ub \in Seq(Token), NEW idxs \in Seq(Cell),
         Len(idxs) = Len(ub)
  PROVE  AllOwned(ApplyUbatch(c, ub, idxs))
<1> DEFINE I    == Targets(idxs)
           over == {i \in I : ~IsEmpty(c, i)}
           all  == [i \in Cell |-> IF i \in over THEN Seqs ELSE {}]
           pos(i) == ub[SlotOf(idxs, i)].pos
           seq(i) == IdsOf(ub[SlotOf(idxs, i)].ids)
           at   == [i \in I |-> [pos |-> pos(i), seq |-> seq(i)]]
           c1   == SeqRm(c, all)
           c2   == Emplaced(c, ub, idxs)
           drop == [i \in Cell |->
                      {s \in Seqs : \E m \in Targets(idxs) :
                          /\ c.cell[m].seq = {s}
                          /\ c2.cell[i].pos <= c.cell[m].pos}]
<1>1. I \in SUBSET Cell
  BY DEF Targets
<1>2. /\ Well(c1) /\ AllOwned(c1)
      /\ \A i \in Cell : IsEmpty(c1, i) <=> IsEmpty(c, i) \/ i \in Emptied(c, all)
  <2> HIDE DEF all
  <2> QED BY SeqRmWell, SeqRmOwned
<1>3. \A i \in I : IsEmpty(c1, i)
  <2> SUFFICES ASSUME NEW i \in I, ~IsEmpty(c, i) PROVE i \in Emptied(c, all)
    BY <1>1, <1>2
  <2>1. i \in Cell /\ all[i] = Seqs
    BY <1>1
  <2>2. c.cell[i].seq \subseteq Seqs
    BY <2>1 DEF Well, KVCellsType, CellState
  <2> QED BY <2>1, <2>2 DEF Emptied, Live
<1>4. \A i \in I : pos(i) \in Pos /\ seq(i) \in SUBSET Seqs /\ seq(i) # {}
  <2> SUFFICES ASSUME NEW i \in I
               PROVE  pos(i) \in Pos /\ seq(i) \in SUBSET Seqs /\ seq(i) # {}
    OBVIOUS
  <2> DEFINE t == ub[SlotOf(idxs, i)]
  <2>1. t \in Token
    BY SlotOfType
  <2>2. t.pos \in Pos /\ t.ids \in Seq(Seqs) /\ t.ids # <<>>
    BY <2>1 DEF Token
  <2>3. t.ids[1] \in IdsOf(t.ids) /\ IdsOf(t.ids) \in SUBSET Seqs
    <3>1. 1 \in DOMAIN t.ids
      BY <2>2
    <3> QED BY <2>2, <3>1 DEF IdsOf
  <2>4. pos(i) = t.pos /\ seq(i) = IdsOf(t.ids)
    OBVIOUS
  <2> HIDE DEF t, pos, seq
  <2> QED BY <2>2, <2>3, <2>4
<1>5. \A i \in I : at[i].pos = pos(i) /\ at[i].seq = seq(i)
  OBVIOUS
<1>6. c2 = Emplace(c1, I, at)
  BY DEF Emplaced
<1> HIDE DEF pos, seq, at, c1, c2, I
<1>7. Well(c2)
  BY <1>1, <1>2, <1>3, <1>4, <1>5, <1>6, EmplaceWell
<1>8. \A i \in Cell : c2.cell[i] = IF i \notin I THEN c1.cell[i] ELSE
                        [c1.cell[i] EXCEPT !.pos = at[i].pos, !.seq = at[i].seq]
  BY <1>6 DEF Emplace
<1>9. ASSUME NEW i \in Live(c2) PROVE c2.cell[i].seq # {}
  <2>1. i \in Cell /\ ~IsEmpty(c2, i)
    BY DEF Live
  <2>2. CASE i \notin I
    <3>1. c2.cell[i] = c1.cell[i]
      BY <1>8, <2>1, <2>2
    <3> QED BY <1>2, <2>1, <3>1 DEF AllOwned, Live, IsEmpty
  <2>3. CASE i \in I
    <3>1. c1.cell[i] \in CellState
      BY <1>2, <2>1 DEF Well, KVCellsType
    <3>2. c2.cell[i] = [c1.cell[i] EXCEPT !.pos = at[i].pos, !.seq = at[i].seq]
      BY <1>8, <2>1, <2>3
    <3>3. c2.cell[i].seq = at[i].seq
      BY <3>1, <3>2 DEF CellState
    <3> QED BY <1>4, <1>5, <2>3, <3>3
  <2> QED BY <2>2, <2>3
<1>10. AllOwned(c2)
  BY <1>9 DEF AllOwned
<1>11. ApplyUbatch(c, ub, idxs) = SeqRm(c2, drop)
  BY DEF ApplyUbatch, Purged, c2, I
<1> HIDE DEF drop
<1> QED BY <1>7, <1>10, <1>11, SeqRmOwned

(* The copies of owned cells are owned, and make owned cells again.        *)
LEMMA SetCellsOwned ==
  ASSUME NEW c, AllOwned(c), NEW idxs \in Seq(Cell), NEW other,
         Len(other) = Len(idxs),
         \A m \in 1 .. Len(other) : other[m].pos # None => other[m].seq # {}
  PROVE  AllOwned(SetCells(c, idxs, other))
<1> DEFINE d == SetCells(c, idxs, other)
<1> SUFFICES ASSUME NEW i \in Live(d) PROVE d.cell[i].seq # {}
  BY DEF AllOwned
<1>1. i \in Cell /\ d.cell[i].pos # None
  BY DEF Live, IsEmpty
<1>2. d.cell[i] = IF i \notin Targets(idxs) THEN c.cell[i]
                  ELSE [pos   |-> other[SlotOf(idxs, i)].pos,
                        shift |-> c.cell[i].shift,
                        seq   |-> other[SlotOf(idxs, i)].seq]
  BY <1>1 DEF SetCells, Overlay
<1> HIDE DEF d
<1>3. CASE i \notin Targets(idxs)
  BY <1>1, <1>2, <1>3 DEF AllOwned, Live, IsEmpty
<1>4. CASE i \in Targets(idxs)
  <2>1. SlotOf(idxs, i) \in 1 .. Len(other)
    BY <1>4, SlotOfType
  <2>2. d.cell[i].pos = other[SlotOf(idxs, i)].pos /\ d.cell[i].seq = other[SlotOf(idxs, i)].seq
    BY <1>2, <1>4
  <2> QED BY <1>1, <2>1, <2>2
<1> QED BY <1>3, <1>4

(* Cells without a stack of copies. *)
LEMMA NoStackOwn ==
  ASSUME stack' = <<>>, AllOwned(cells)'
  PROVE  OwnInv'
  BY DEF OwnInv

(* A ubatch is placed, and the cells it took are remembered. *)
LEMMA PlaceUbatchOwn ==
  ASSUME OInv, PlaceUbatch
  PROVE  OwnInv'
<1> DEFINE k  == Len(stack) + 1
           ub == ubs[k]
           n  == Len(ub)
<1>1. /\ Well(cells) /\ AllOwned(cells) /\ UbsInv /\ StackInv /\ OwnInv /\ IInv
  BY DEF OInv, OwnInv, IInv
<1>2. k \in 1 .. Len(ubs) /\ ub \in Seq(Token) /\ n \in Nat /\ n > 0
  BY <1>1 DEF UbsInv, StackInv, PlaceUbatch
<1>3. PICK idxs \in [1 .. n -> Cell] :
         /\ stack' = Append(stack, [idxs |-> idxs, old |-> Cp(cells, idxs), head |-> head])
         /\ cells' = ApplyUbatch(cells, ub, idxs)
  BY DEF PlaceUbatch
<1> HIDE DEF n, ub
<1>4. idxs \in Seq(Cell) /\ Len(idxs) = n /\ DOMAIN idxs = 1 .. n
  BY <1>2, <1>3
<1>5. AllOwned(cells')
  <2>1. AllOwned(ApplyUbatch(cells, ub, idxs))
    BY <1>1, <1>2, <1>4, ApplyOwned DEF n
  <2> QED BY <1>3, <2>1
<1> DEFINE old == Cp(cells, idxs)
           top == [idxs |-> idxs, old |-> old, head |-> head]
<1>6. \A m \in 1 .. n : old[m].pos # None => old[m].seq # {}
  <2> SUFFICES ASSUME NEW m \in 1 .. n, old[m].pos # None PROVE old[m].seq # {}
    OBVIOUS
  <2>1. idxs[m] \in Cell
    BY <1>3
  <2>2. old[m].pos = cells.cell[idxs[m]].pos /\ old[m].seq = cells.cell[idxs[m]].seq
    BY <1>4 DEF Cp
  <2> HIDE DEF old
  <2>3. idxs[m] \in Live(cells)
    BY <2>1, <2>2 DEF Live, IsEmpty
  <2> QED BY <1>1, <2>2, <2>3 DEF AllOwned
<1>7. stack' = Append(stack, top) /\ top.old = old
  BY <1>3
<1> HIDE DEF old, top
<1>8. /\ stack \in Seq(StackEntry) /\ Len(stack) \in Nat
      /\ Len(stack') = k /\ stack'[k] = top
      /\ \A j \in 1 .. k : j = k \/ (j \in 1 .. Len(stack) /\ stack'[j] = stack[j])
  BY <1>1, <1>7 DEF StackInv
<1>9. Len(old) = n
  <2>1. StackInv' /\ ubs' = ubs
    BY <1>1, PlaceUbatchKeeps DEF IInv, PlaceUbatch
  <2>2. k \in 1 .. Len(stack')
    BY <1>8
  <2>3. Len(stack'[k].old) = Len(ubs[k])
    BY <2>1, <2>2 DEF StackInv
  <2> QED BY <1>7, <1>8, <2>3 DEF n, ub
<1> HIDE DEF k
<1>10. \A j \in 1 .. Len(stack') : \A m \in 1 .. Len(stack'[j].old) :
           stack'[j].old[m].pos # None => stack'[j].old[m].seq # {}
  <2> SUFFICES ASSUME NEW j \in 1 .. k, NEW m \in 1 .. Len(stack'[j].old),
                      stack'[j].old[m].pos # None
               PROVE  stack'[j].old[m].seq # {}
    BY <1>8
  <2>1. CASE j = k
    BY <1>6, <1>7, <1>8, <1>9, <2>1
  <2>2. CASE j # k
    BY <1>1, <1>8, <2>2 DEF OwnInv
  <2> QED BY <2>1, <2>2
<1> QED BY <1>5, <1>10 DEF OwnInv

(* The topmost copy goes back. *)
LEMMA RestoreOneOwn ==
  ASSUME OInv, RestoreOne
  PROVE  OwnInv'
<1> DEFINE k   == Len(stack)
           top == stack[k]
<1>1. IInv /\ OwnInv /\ StackInv /\ stack # <<>> /\ cells' = SetCells(cells, top.idxs, top.old)
      /\ stack' = SubSeq(stack, 1, k - 1)
  BY DEF OInv, IInv, RestoreOne
<1>2. stack \in Seq(StackEntry) /\ k \in Nat /\ k >= 1
  BY <1>1 DEF StackInv
<1>3. top \in StackEntry /\ Len(top.old) = Len(top.idxs) /\ k \in 1 .. Len(stack)
  BY <1>1, <1>2 DEF StackInv
<1>4. top.idxs \in Seq(Cell)
  BY <1>3 DEF StackEntry
<1>5. \A m \in 1 .. Len(top.old) : top.old[m].pos # None => top.old[m].seq # {}
  BY <1>1, <1>3 DEF OwnInv
<1> HIDE DEF top
<1>6. AllOwned(cells')
  BY <1>1, <1>3, <1>4, <1>5, SetCellsOwned DEF OwnInv
<1> HIDE DEF k
<1>7. Len(stack') = k - 1 /\ \A j \in 1 .. k - 1 : stack'[j] = stack[j] /\ j \in 1 .. Len(stack)
  <2>1. \A j \in 1 .. k - 1 : stack[j] \in StackEntry /\ j \in 1 .. Len(stack)
    BY <1>2 DEF k
  <2>2. /\ Len(SubSeq(stack, 1, k - 1)) = k - 1
        /\ \A j \in 1 .. k - 1 : SubSeq(stack, 1, k - 1)[j] = stack[j]
    BY <1>2, <2>1, SubSeqProperties
  <2> QED BY <1>1, <2>1, <2>2
<1>8. \A j \in 1 .. Len(stack') : \A m \in 1 .. Len(stack'[j].old) :
          stack'[j].old[m].pos # None => stack'[j].old[m].seq # {}
  <2> SUFFICES ASSUME NEW j \in 1 .. k - 1, NEW m \in 1 .. Len(stack'[j].old)
               PROVE  stack'[j].old[m].pos # None => stack'[j].old[m].seq # {}
    BY <1>7
  <2>1. stack'[j] = stack[j] /\ j \in 1 .. Len(stack)
    BY <1>7
  <2> QED BY <1>1, <2>1 DEF OwnInv
<1> QED BY <1>6, <1>8 DEF OwnInv

(* Every live cell has a sequence, whatever is called or decoded. *)
LEMMA NextOwn ==
  ASSUME CpRepeats = FALSE, OInv, [Next]_vars
  PROVE  OInv'
<1>1. IInv' /\ IInv /\ Well(cells) /\ Well(cells') /\ AllOwned(cells) /\ StackInv /\ StackInv'
  BY NextKeeps DEF OInv, OwnInv, IInv
<1>2. pc' = "idle" => stack' = <<>>
  BY <1>1 DEF StackInv
<1>3. ASSUME Update, stack' = <<>> PROVE OwnInv'
  <2>1. CASE cells' = cells
    BY <1>1, <1>3, <2>1, NoStackOwn DEF AllOwned
  <2>2. CASE cells' = ResetShift(cells)
    <3>1. ASSUME NEW i \in Cell
          PROVE  cells'.cell[i].pos = cells.cell[i].pos /\ cells'.cell[i].seq = cells.cell[i].seq
      <4>1. cells.cell[i] \in CellState /\ cells'.cell[i] = [cells.cell[i] EXCEPT !.shift = 0]
        BY <1>1, <2>2 DEF Well, KVCellsType, ResetShift
      <4> QED BY <4>1 DEF CellState
    <3>2. AllOwned(cells')
      BY <1>1, <3>1 DEF AllOwned, Live, IsEmpty
    <3> QED BY <1>3, <3>2, NoStackOwn
  <2> QED BY <1>3, <2>1, <2>2 DEF Update
<1>4. ASSUME NEW drop, Leave(drop), pc' = "idle" PROVE OwnInv'
  <2>1. AllOwned(cells')
    BY <1>1, <1>4, SeqRmOwned DEF Leave
  <2> QED BY <1>2, <1>4, <2>1, NoStackOwn
<1>5. ASSUME ProcessUbatch \/ FailUbatch PROVE OwnInv'
  <2> DEFINE c == ApplyUbatch(cells, ubs[1], slots[1])
  <2>1. pc = "process"
    BY <1>5 DEF ProcessUbatch, FailUbatch
  <2>2. /\ Len(ubs) \in Nat /\ Len(ubs) >= 1 /\ slots[1] \in Seq(Cell)
        /\ Len(slots[1]) = Len(ubs[1]) /\ Well(c)
    BY <1>1, <2>1, ProcessType
  <2>3. ubs[1] \in Seq(Token)
    BY <1>1, <2>2 DEF IInv, UbsInv
  <2>4. AllOwned(c)
    BY <1>1, <2>2, <2>3, ApplyOwned
  <2>5. stack' = <<>>
    BY <1>1, <1>5, <2>1 DEF ProcessUbatch, FailUbatch, EndDecode, StackInv
  <2>6. cells' = c \/ \E drop : cells' = SeqRm(c, drop)
    BY <1>5 DEF ProcessUbatch, FailUbatch
  <2> HIDE DEF c
  <2>7. AllOwned(cells')
    BY <2>2, <2>4, <2>6, SeqRmOwned
  <2> QED BY <2>5, <2>7, NoStackOwn
<1>6. ASSUME UNCHANGED <<cells, stack>> PROVE OwnInv'
  BY <1>6 DEF OInv, OwnInv, AllOwned, Live, IsEmpty
<1>7. ASSUME NEW b \in Batches, DecodeBegin(b) PROVE OwnInv'
  BY <1>1, <1>3, <1>7 DEF DecodeBegin, StackInv
<1>8. ASSUME DecodeStep PROVE OwnInv'
  <2>1. ASSUME PlacedAll \/ OutOfCells \/ Prepared PROVE OwnInv'
    BY <1>6, <2>1 DEF PlacedAll, OutOfCells, Prepared, decoding
  <2>2. ASSUME GiveUp PROVE OwnInv'
    BY <1>1, <2>2, NoStackOwn DEF GiveUp, EndDecode, AllOwned
  <2>3. ASSUME RetryPrepare PROVE OwnInv'
    BY <1>3, <2>3 DEF RetryPrepare
  <2> QED BY <1>5, <1>8, <2>1, <2>2, <2>3, PlaceUbatchOwn, RestoreOneOwn DEF DecodeStep
<1>9. ASSUME Clear PROVE OwnInv'
  <2>1. cells' = Reset /\ pc' = "idle"
    BY <1>9 DEF Clear, Call
  <2>2. Live(cells') = {}
    BY <2>1, ResetWell DEF Live, IsEmpty, Vacant
  <2> QED BY <1>2, <2>1, <2>2, NoStackOwn DEF AllOwned
<1>10. ASSUME NEW r \in Ranges, SeqRemoveAny(r) PROVE OwnInv'
  BY <1>4, <1>10 DEF SeqRemoveAny, Call
<1>11. ASSUME NEW r \in Ranges, NEW s \in Seqs, SeqRemove(s, r) PROVE OwnInv'
  BY <1>4, <1>11 DEF SeqRemove, Call
<1>12. ASSUME NEW s \in Seqs, SeqKeep(s) PROVE OwnInv'
  BY <1>4, <1>12 DEF SeqKeep, Call
<1>13. ASSUME NEW s \in Seqs, NEW keep \in SUBSET Cell, EndurkvRmCells(s, keep, NCells)
       PROVE  OwnInv'
  BY <1>4, <1>13 DEF EndurkvRmCells, Call
<1>14. ASSUME NEW r \in Ranges, NEW s \in Seqs, NEW t \in Seqs, SeqCopy(s, t, r) PROVE OwnInv'
  <2>1. cells' = SeqAdd(cells, Having(s, r), t) /\ pc' = "idle"
    BY <1>14 DEF SeqCopy, Call
  <2>2. ASSUME NEW i \in Cell
        PROVE  /\ cells'.cell[i].pos = cells.cell[i].pos
               /\ cells.cell[i].seq \subseteq cells'.cell[i].seq
    <3>1. cells.cell[i] \in CellState
      BY <1>1 DEF Well, KVCellsType
    <3>2. cells'.cell[i] \in {cells.cell[i], [cells.cell[i] EXCEPT !.seq = @ \cup {t}]}
      BY <2>1 DEF SeqAdd
    <3> QED BY <3>1, <3>2 DEF CellState
  <2>3. AllOwned(cells')
    <3> SUFFICES ASSUME NEW i \in Live(cells') PROVE cells'.cell[i].seq # {}
      BY DEF AllOwned
    <3>1. i \in Cell /\ i \in Live(cells)
      BY <2>2 DEF Live, IsEmpty
    <3> QED BY <1>1, <2>2, <3>1 DEF AllOwned
  <2> QED BY <1>2, <2>1, <2>3, NoStackOwn
<1>15. ASSUME NEW r \in Ranges, NEW s \in Seqs, NEW d \in Deltas, SeqShift(s, r, d)
       PROVE  OwnInv'
  <2>1. cells' = PosAdd(cells, Having(s, r), d) /\ pc' = "idle"
    BY <1>15 DEF SeqShift, Call
  <2>2. \A i \in Having(s, r) : i \in Live(cells)
    BY <1>1, HavingLive
  <2>3. ASSUME NEW i \in Live(cells')
        PROVE  i \in Live(cells) /\ cells'.cell[i].seq = cells.cell[i].seq
    <3>1. i \in Cell /\ cells'.cell[i].pos # None /\ cells.cell[i] \in CellState
      BY <1>1 DEF Live, IsEmpty, Well, KVCellsType
    <3>2. cells'.cell[i] \in {cells.cell[i], Vacant,
                              [cells.cell[i] EXCEPT !.pos = @ + d, !.shift = @ + d]}
      BY <2>1, <3>1 DEF PosAdd
    <3>3. i \notin Having(s, r) => cells'.cell[i] = cells.cell[i]
      BY <2>1, <3>1 DEF PosAdd
    <3>4. cells'.cell[i] # Vacant
      BY <3>1 DEF Vacant
    <3>5. cells'.cell[i].seq = cells.cell[i].seq
      BY <3>1, <3>2, <3>4 DEF CellState
    <3>6. i \in Live(cells)
      BY <2>2, <3>1, <3>3 DEF Live, IsEmpty
    <3> QED BY <3>5, <3>6
  <2>4. AllOwned(cells')
    BY <1>1, <2>3 DEF AllOwned
  <2> QED BY <1>2, <2>1, <2>4, NoStackOwn
<1>16. ASSUME NEW r \in Ranges, NEW s \in Seqs, NEW d \in Divisors, SeqDivide(s, r, d)
       PROVE  OwnInv'
  <2>1. cells' = PosDiv(cells, Having(s, r), d) /\ pc' = "idle"
    BY <1>16 DEF SeqDivide, Call
  <2>2. \A i \in Having(s, r) : i \in Live(cells)
    BY <1>1, HavingLive
  <2>3. ASSUME NEW i \in Live(cells')
        PROVE  i \in Live(cells) /\ cells'.cell[i].seq = cells.cell[i].seq
    <3>1. i \in Cell /\ cells'.cell[i].pos # None /\ cells.cell[i] \in CellState
      BY <1>1 DEF Live, IsEmpty, Well, KVCellsType
    <3>2. cells'.cell[i] \in {cells.cell[i],
             [cells.cell[i] EXCEPT !.pos = cells.cell[i].pos \div d,
                                   !.shift = @ + (cells.cell[i].pos - cells.cell[i].pos \div d)]}
      BY <2>1, <3>1 DEF PosDiv
    <3>3. i \notin Having(s, r) => cells'.cell[i] = cells.cell[i]
      BY <2>1, <3>1 DEF PosDiv
    <3>4. cells'.cell[i].seq = cells.cell[i].seq
      BY <3>1, <3>2 DEF CellState
    <3>5. i \in Live(cells)
      BY <2>2, <3>1, <3>3 DEF Live, IsEmpty
    <3> QED BY <3>4, <3>5
  <2>4. AllOwned(cells')
    BY <1>1, <2>3 DEF AllOwned
  <2> QED BY <1>2, <2>1, <2>4, NoStackOwn
<1>17. ASSUME NEW s \in Seqs, EndurkvCompactSeq(s) PROVE OwnInv'
  <2>1. pc' = "idle"
    BY <1>17 DEF EndurkvCompactSeq, Call
  <2>2. PICK src \in Seq(Cell) :
          /\ Len(src) <= NCells /\ Live(cells) = {src[k] : k \in 1 .. Len(src)}
          /\ cells' = cells \/ cells' = Gather(cells, src)
    BY <1>1, <1>17, CompactDoes
  <2>3. CASE cells' = cells
    BY <1>1, <1>2, <2>1, <2>3, NoStackOwn DEF AllOwned
  <2>4. CASE cells' = Gather(cells, src)
    <3>1. /\ \A k \in 1 .. Len(src) : cells'.cell[k - 1].seq = cells.cell[src[k]].seq
          /\ Live(cells') = 0 .. Len(src) - 1
      BY <1>1, <2>2, <2>4, GatherPlaces
    <3>2. AllOwned(cells')
      <4> SUFFICES ASSUME NEW i \in 0 .. Len(src) - 1 PROVE cells'.cell[i].seq # {}
        BY <3>1 DEF AllOwned
      <4>1. i + 1 \in 1 .. Len(src) /\ (i + 1) - 1 = i
        BY <2>2
      <4>2. src[i + 1] \in Live(cells)
        BY <2>2, <4>1
      <4> QED BY <1>1, <3>1, <4>1, <4>2 DEF AllOwned
    <3> QED BY <1>2, <2>1, <3>2, NoStackOwn
  <2> QED BY <2>2, <2>3, <2>4
<1>18. ASSUME UNCHANGED vars PROVE OwnInv'
  BY <1>6, <1>18 DEF vars, decoding
<1>19. ASSUME Next PROVE OwnInv'
  BY <1>7, <1>8, <1>9, <1>10, <1>11, <1>12, <1>13, <1>14, <1>15, <1>16, <1>17, <1>19 DEF Next
<1> QED BY <1>1, <1>18, <1>19 DEF OInv

(* An empty cache has no cell without a sequence. *)
LEMMA InitOwn == Init => OInv
<1> SUFFICES ASSUME Init PROVE OInv
  OBVIOUS
<1>1. cells = Reset /\ stack = <<>>
  BY DEF Init
<1>2. Live(cells) = {}
  BY <1>1, ResetWell DEF Live, IsEmpty, Vacant
<1> QED BY <1>1, <1>2, InitIInv DEF OInv, OwnInv, AllOwned

-----------------------------------------------------------------------------
(* The entry of a cell. *)
EntryOf(i) == [tok |-> kdata[i].tok, pos |-> cells.cell[i].pos, seqs |-> cells.cell[i].seq]

(* Between decodes the entries are those of the live cells. *)
LEMMA IdleEntries ==
  /\ ~Trying => Entries = {EntryOf(i) : i \in Live(cells)}
  /\ ~Trying' => Entries' = {EntryOf(i)' : i \in Live(cells')}
  BY DEF Entries, Stable, EntryOf

(* What the abstract operations change of an entry. *)
Less(e, S)  == [e EXCEPT !.seqs = @ \ S]
More(e, S)  == [e EXCEPT !.seqs = @ \cup S]
Moved(e, p) == [e EXCEPT !.pos = p]

(* They change one field each. *)
LEMMA EntryChanged ==
  ASSUME NEW i, NEW x
  PROVE  /\ Less(EntryOf(i), x)  = [tok |-> kdata[i].tok, pos |-> cells.cell[i].pos,
                                    seqs |-> cells.cell[i].seq \ x]
         /\ More(EntryOf(i), x)  = [tok |-> kdata[i].tok, pos |-> cells.cell[i].pos,
                                    seqs |-> cells.cell[i].seq \cup x]
         /\ Moved(EntryOf(i), x) = [tok |-> kdata[i].tok, pos |-> x,
                                    seqs |-> cells.cell[i].seq]
<1> DEFINE e == EntryOf(i)
           t == kdata[i].tok
           p == cells.cell[i].pos
           q == cells.cell[i].seq
           r == [tok |-> t, pos |-> p, seqs |-> q]
<1> HIDE DEF t, p, q
<1>1. /\ Less(r, x)  = [tok |-> t, pos |-> p, seqs |-> q \ x]
      /\ More(r, x)  = [tok |-> t, pos |-> p, seqs |-> q \cup x]
      /\ Moved(r, x) = [tok |-> t, pos |-> x, seqs |-> q]
  BY DEF Less, More, Moved
<1>2. e = r
  BY DEF EntryOf, t, p, q
<1> HIDE DEF e, r
<1>3. /\ Less(e, x)  = [tok |-> t, pos |-> p, seqs |-> q \ x]
      /\ More(e, x)  = [tok |-> t, pos |-> p, seqs |-> q \cup x]
      /\ Moved(e, x) = [tok |-> t, pos |-> x, seqs |-> q]
  BY <1>1, <1>2
<1> QED BY <1>3 DEF e, t, p, q

(***************************************************************************)
(* Sequences that leave cells leave the entries of these cells.  Only D    *)
(* need be told from the entries; each cell drops what its entry loses.    *)
(***************************************************************************)
LEMMA LeaveAs ==
  ASSUME Well(cells), AllOwned(cells), ~Trying, ~Trying', NEW drop, Leave(drop), NEW D, NEW S,
         \A i \in Live(cells) :
            cells.cell[i].seq \ drop[i] = IF EntryOf(i) \in D THEN cells.cell[i].seq \ S
                                          ELSE cells.cell[i].seq
  PROVE  Entries' = Logical!Without(Entries, D, S)
<1> DEFINE lose(e) == IF e \in D THEN Less(e, S) ELSE e
           left(i) == [tok |-> kdata[i].tok, pos |-> cells.cell[i].pos,
                       seqs |-> cells.cell[i].seq \ drop[i]]
<1>1. /\ Entries = {EntryOf(i) : i \in Live(cells)}
      /\ Entries' = {EntryOf(i)' : i \in Live(cells')}
  BY IdleEntries
<1>2. Logical!Without(Entries, D, S) = {e \in {lose(e) : e \in Entries} : e.seqs # {}}
  BY DEF Logical!Without, Logical!Owned, Less
<1>3. cells' = SeqRm(cells, drop) /\ kdata' = Scrub(cells', kdata)
  BY DEF Leave
<1>4. ASSUME NEW i \in Live(cells) PROVE lose(EntryOf(i)) = left(i)
  <2>1. CASE EntryOf(i) \in D
    <3>1. cells.cell[i].seq \ drop[i] = cells.cell[i].seq \ S
      BY <2>1
    <3>2. Less(EntryOf(i), S) = [tok |-> kdata[i].tok, pos |-> cells.cell[i].pos,
                                 seqs |-> cells.cell[i].seq \ S]
      BY EntryChanged
    <3> QED BY <2>1, <3>1, <3>2
  <2>2. CASE EntryOf(i) \notin D
    <3>1. cells.cell[i].seq \ drop[i] = cells.cell[i].seq
      BY <2>2
    <3> QED BY <2>2, <3>1 DEF EntryOf
  <2> QED BY <2>1, <2>2
<1>5. \A i \in Cell : i \in Live(cells') <=> i \in Live(cells) /\ i \notin Emptied(cells, drop)
  BY <1>3, SeqRmWell DEF Live
<1>6. \A i \in Live(cells) : i \in Emptied(cells, drop) <=> cells.cell[i].seq \ drop[i] = {}
  BY DEF Emptied, AllOwned
<1>7. \A i \in Live(cells') : EntryOf(i)' = left(i)
  <2> SUFFICES ASSUME NEW i \in Live(cells') PROVE EntryOf(i)' = left(i)
    OBVIOUS
  <2>1. cells'.cell[i].pos = cells.cell[i].pos /\ cells'.cell[i].seq = cells.cell[i].seq \ drop[i]
    BY <1>3, SeqRmSame
  <2>2. kdata'[i] = kdata[i]
    BY <1>3 DEF Scrub, Live
  <2> QED BY <2>1, <2>2 DEF EntryOf
<1>8. \A i : i \in Live(cells') <=> i \in Live(cells) /\ left(i).seqs # {}
  BY <1>5, <1>6 DEF Live
<1> HIDE DEF lose, left
<1>9. {lose(e) : e \in Entries} = {left(i) : i \in Live(cells)}
  BY <1>1, <1>4
<1>10. {e \in {left(i) : i \in Live(cells)} : e.seqs # {}} = {left(i) : i \in Live(cells')}
  BY <1>8
<1> QED BY <1>1, <1>2, <1>7, <1>9, <1>10

(* A range names the same cells and entries. *)
LEMMA RangeAs ==
  ASSUME Well(cells), NEW s, NEW r \in Ranges, NEW i \in Live(cells)
  PROVE  /\ i \in Having(s, r) <=> Logical!InRange(EntryOf(i), s, Lo(r), Hi(r))
         /\ InRange(i, r) <=> ~ (EntryOf(i).pos < Lo(r) \/ EntryOf(i).pos >= Hi(r))
         /\ cells.cell[i].pos \in Pos /\ cells.cell[i].seq \in SUBSET Seqs /\ i \in Cell
<1>1. i \in Cell /\ cells.cell[i].pos # None
  BY DEF Live, IsEmpty
<1>2. cells.cell[i] \in CellState
  BY <1>1 DEF Well, KVCellsType
<1>3. cells.cell[i].pos \in Pos /\ cells.cell[i].seq \in SUBSET Seqs
  BY <1>1, <1>2 DEF CellState
<1>4. cells.cell[i].pos \in Int /\ Lo(r) \in Int /\ Hi(r) \in Int
  BY <1>3, CacheAssumption, CellsAssumption DEF Pos, Lo, Hi
<1>5. EntryOf(i).pos = cells.cell[i].pos /\ EntryOf(i).seqs = cells.cell[i].seq
  BY DEF EntryOf
<1>6. InRange(i, r) <=> cells.cell[i].pos >= Lo(r) /\ cells.cell[i].pos < Hi(r)
  BY DEF InRange, PosIn
<1>7. i \in Having(s, r) <=> InRange(i, r) /\ s \in cells.cell[i].seq
  BY <1>1 DEF Having
<1>8. Logical!InRange(EntryOf(i), s, Lo(r), Hi(r))
        <=> s \in cells.cell[i].seq /\ Lo(r) <= cells.cell[i].pos /\ cells.cell[i].pos < Hi(r)
  BY <1>5 DEF Logical!InRange
<1> QED BY <1>1, <1>3, <1>4, <1>5, <1>6, <1>7, <1>8

(* Between two calls the cells count. *)
LEMMA CallIdle ==
  ASSUME OInv, pc = "idle", pc' = "idle"
  PROVE  Well(cells) /\ AllOwned(cells) /\ ~Trying /\ ~Trying'
  BY DEF OInv, OwnInv, IInv, Trying

(* seq_rm of one sequence *)
LEMMA SeqRemoveAs ==
  ASSUME OInv, pc = "idle", pc' = "idle", NEW s \in Seqs, NEW r \in Ranges, SeqRemove(s, r)
  PROVE  Logical!SeqRm(s, Lo(r), Hi(r))
<1> DEFINE D    == {e \in Entries : Logical!InRange(e, s, Lo(r), Hi(r))}
           drop == [i \in Cell |-> IF i \in Having(s, r) THEN {s} ELSE {}]
<1>1. Well(cells) /\ AllOwned(cells) /\ ~Trying /\ ~Trying' /\ Leave(drop)
  BY CallIdle DEF SeqRemove
<1>2. \A i \in Live(cells) : EntryOf(i) \in Entries
  BY <1>1, IdleEntries
<1>3. ASSUME NEW i \in Live(cells)
      PROVE  cells.cell[i].seq \ drop[i] = IF EntryOf(i) \in D THEN cells.cell[i].seq \ {s}
                                           ELSE cells.cell[i].seq
  BY <1>1, <1>2, RangeAs
<1> HIDE DEF drop, D
<1>4. Entries' = Logical!Without(Entries, D, {s})
  BY <1>1, <1>3, LeaveAs
<1> QED BY <1>4 DEF Logical!SeqRm, D

(* seq_rm of every sequence *)
LEMMA SeqRemoveAnyAs ==
  ASSUME OInv, pc = "idle", pc' = "idle", NEW r \in Ranges, SeqRemoveAny(r)
  PROVE  Logical!SeqRmAny(Lo(r), Hi(r))
<1> DEFINE D    == {e \in Entries : ~ (e.pos < Lo(r) \/ e.pos >= Hi(r))}
           drop == [i \in Cell |-> IF InRange(i, r) THEN Seqs ELSE {}]
<1>1. Well(cells) /\ AllOwned(cells) /\ ~Trying /\ ~Trying' /\ Leave(drop)
  BY CallIdle DEF SeqRemoveAny
<1>2. \A i \in Live(cells) : EntryOf(i) \in Entries
  BY <1>1, IdleEntries
<1>3. ASSUME NEW i \in Live(cells)
      PROVE  cells.cell[i].seq \ drop[i] = IF EntryOf(i) \in D THEN cells.cell[i].seq \ Seqs
                                           ELSE cells.cell[i].seq
  BY <1>1, <1>2, RangeAs
<1>4. \A e \in Entries : e.seqs # {} /\ e.seqs \in SUBSET Seqs
  <2> SUFFICES ASSUME NEW i \in Live(cells)
               PROVE  EntryOf(i).seqs # {} /\ EntryOf(i).seqs \in SUBSET Seqs
    BY <1>1, IdleEntries
  <2>1. cells.cell[i] \in CellState
    BY <1>1 DEF Live, Well, KVCellsType
  <2> QED BY <1>1, <2>1 DEF EntryOf, AllOwned, CellState
<1> HIDE DEF drop
<1>5. Entries' = Logical!Without(Entries, D, Seqs)
  <2> HIDE DEF D
  <2> QED BY <1>1, <1>3, LeaveAs
<1>6. Logical!Without(Entries, D, Seqs)
        = {e \in {IF e \in D THEN Less(e, Seqs) ELSE e : e \in Entries} : e.seqs # {}}
  BY DEF Logical!Without, Logical!Owned, Less
<1>7. \A e \in Entries : Less(e, Seqs).seqs = {}
  <2> SUFFICES ASSUME NEW i \in Live(cells) PROVE Less(EntryOf(i), Seqs).seqs = {}
    BY <1>1, IdleEntries
  <2>1. Less(EntryOf(i), Seqs) = [tok |-> kdata[i].tok, pos |-> cells.cell[i].pos,
                                  seqs |-> cells.cell[i].seq \ Seqs]
    BY EntryChanged
  <2>2. cells.cell[i] \in CellState
    BY <1>1 DEF Live, Well, KVCellsType
  <2> QED BY <2>1, <2>2 DEF CellState
<1>8. {e \in {IF e \in D THEN Less(e, Seqs) ELSE e : e \in Entries} : e.seqs # {}}
        = {e \in Entries : e \notin D}
  <2> HIDE DEF D
  <2> QED BY <1>4, <1>7
<1> QED BY <1>5, <1>6, <1>8 DEF Logical!SeqRmAny

(* seq_keep *)
LEMMA SeqKeepAs ==
  ASSUME OInv, pc = "idle", pc' = "idle", NEW s \in Seqs, SeqKeep(s)
  PROVE  Logical!SeqKeep(s)
<1> DEFINE drop == [i \in Cell |-> Seqs \ {s}]
<1>1. Well(cells) /\ AllOwned(cells) /\ ~Trying /\ ~Trying' /\ Leave(drop)
  BY CallIdle DEF SeqKeep
<1>2. ASSUME NEW i \in Live(cells)
      PROVE  EntryOf(i) \in Entries /\ drop[i] = Seqs \ {s}
  BY <1>1, IdleEntries DEF Live
<1> HIDE DEF drop
<1>3. Entries' = Logical!Without(Entries, Entries, Seqs \ {s})
  BY <1>1, <1>2, LeaveAs
<1> QED BY <1>3 DEF Logical!SeqKeep

(* seq_cp *)
LEMMA SeqCopyAs ==
  ASSUME OInv, pc = "idle", pc' = "idle", NEW s \in Seqs, NEW t \in Seqs, NEW r \in Ranges,
         SeqCopy(s, t, r)
  PROVE  Logical!SeqCp(s, t, Lo(r), Hi(r))
<1> DEFINE take(e) == IF Logical!InRange(e, s, Lo(r), Hi(r)) THEN More(e, {t}) ELSE e
<1>1. /\ Well(cells) /\ ~Trying /\ ~Trying' /\ kdata' = kdata
      /\ cells' = SeqAdd(cells, Having(s, r), t)
  BY CallIdle DEF SeqCopy
<1>2. ASSUME NEW i \in Cell
      PROVE  /\ cells'.cell[i].pos = cells.cell[i].pos
             /\ cells'.cell[i].seq = IF i \in Having(s, r) THEN cells.cell[i].seq \cup {t}
                                     ELSE cells.cell[i].seq
  <2>1. cells.cell[i] \in CellState
    BY <1>1 DEF Well, KVCellsType
  <2>2. cells'.cell[i] = IF i \notin Having(s, r) THEN cells.cell[i]
                         ELSE [cells.cell[i] EXCEPT !.seq = @ \cup {t}]
    BY <1>1 DEF SeqAdd
  <2> QED BY <2>1, <2>2 DEF CellState
<1>3. Live(cells') = Live(cells)
  BY <1>2 DEF Live, IsEmpty
<1>4. ASSUME NEW i \in Live(cells) PROVE EntryOf(i)' = take(EntryOf(i))
  <2>1. i \in Cell /\ (i \in Having(s, r) <=> Logical!InRange(EntryOf(i), s, Lo(r), Hi(r)))
    BY <1>1, RangeAs
  <2>2. More(EntryOf(i), {t}) = [tok |-> kdata[i].tok, pos |-> cells.cell[i].pos,
                                 seqs |-> cells.cell[i].seq \cup {t}]
    BY EntryChanged
  <2>3. EntryOf(i)' = [tok |-> kdata[i].tok, pos |-> cells'.cell[i].pos,
                       seqs |-> cells'.cell[i].seq]
    BY <1>1 DEF EntryOf
  <2>4. CASE i \in Having(s, r)
    <3>1. cells'.cell[i].pos = cells.cell[i].pos /\ cells'.cell[i].seq = cells.cell[i].seq \cup {t}
      BY <1>2, <2>1, <2>4
    <3> QED BY <2>1, <2>2, <2>3, <2>4, <3>1
  <2>5. CASE i \notin Having(s, r)
    <3>1. cells'.cell[i].pos = cells.cell[i].pos /\ cells'.cell[i].seq = cells.cell[i].seq
      BY <1>2, <2>1, <2>5
    <3> QED BY <2>1, <2>3, <2>5, <3>1 DEF EntryOf
  <2> QED BY <2>4, <2>5
<1> HIDE DEF take
<1>5. Entries' = {take(e) : e \in Entries}
  BY <1>1, <1>3, <1>4, IdleEntries
<1> QED BY <1>5 DEF Logical!SeqCp, take, More

(* seq_add *)
LEMMA SeqShiftAs ==
  ASSUME OInv, pc = "idle", pc' = "idle", NEW s \in Seqs, NEW r \in Ranges, NEW d \in Deltas,
         SeqShift(s, r, d)
  PROVE  Logical!SeqAdd(s, Lo(r), Hi(r), d)
<1> DEFINE I       == Having(s, r)
           gone    == {i \in I : cells.cell[i].pos + d < 0}
           move(e) == IF Logical!InRange(e, s, Lo(r), Hi(r)) THEN Moved(e, e.pos + d) ELSE e
           to(i)   == IF i \in I THEN cells.cell[i].pos + d ELSE cells.cell[i].pos
           after(i) == [tok |-> kdata[i].tok, pos |-> to(i), seqs |-> cells.cell[i].seq]
<1>1. /\ Well(cells) /\ ~Trying /\ ~Trying' /\ d \in Int
      /\ cells' = PosAdd(cells, I, d) /\ kdata' = Scrub(cells', kdata)
  BY CallIdle, CacheAssumption DEF SeqShift
<1>2. ASSUME NEW i \in Live(cells)
      PROVE  /\ i \in Cell /\ cells.cell[i].pos \in Int /\ cells.cell[i].pos >= 0
             /\ i \in I <=> Logical!InRange(EntryOf(i), s, Lo(r), Hi(r))
             /\ to(i) \in Int
  BY <1>1, RangeAs, CellsAssumption DEF Pos
<1>3. ASSUME NEW i \in Live(cells) PROVE move(EntryOf(i)) = after(i)
  <2>1. Moved(EntryOf(i), cells.cell[i].pos + d)
          = [tok |-> kdata[i].tok, pos |-> cells.cell[i].pos + d, seqs |-> cells.cell[i].seq]
    BY EntryChanged
  <2>2. EntryOf(i).pos = cells.cell[i].pos
    BY DEF EntryOf
  <2>3. CASE i \in I
    BY <1>2, <2>1, <2>2, <2>3
  <2>4. CASE i \notin I
    BY <1>2, <2>4 DEF EntryOf
  <2> QED BY <2>3, <2>4
<1>4. I \in SUBSET Live(cells)
  BY <1>1, HavingLive
<1>5. \A i \in Cell : cells'.cell[i] =
                        IF i \notin I THEN cells.cell[i]
                        ELSE IF i \in gone THEN Vacant
                        ELSE [cells.cell[i] EXCEPT !.pos = @ + d, !.shift = @ + d]
  BY <1>1 DEF PosAdd
<1> HIDE DEF I
<1>6. ASSUME NEW i \in Cell
      PROVE  /\ i \in Live(cells') <=> i \in Live(cells) /\ to(i) >= 0
             /\ i \in Live(cells') => /\ cells'.cell[i].pos = to(i)
                                      /\ cells'.cell[i].seq = cells.cell[i].seq
  <2>1. cells.cell[i] \in CellState
    BY <1>1 DEF Well, KVCellsType
  <2>2. CASE i \notin I
    <3>1. cells'.cell[i] = cells.cell[i]
      BY <1>5, <2>2
    <3> QED BY <1>2, <2>2, <3>1 DEF Live, IsEmpty
  <2>3. CASE i \in gone
    <3>1. cells'.cell[i] = Vacant /\ i \in Live(cells)
      BY <1>4, <1>5, <2>3
    <3>2. i \notin Live(cells')
      BY <3>1 DEF Live, IsEmpty, Vacant
    <3> QED BY <1>2, <2>3, <3>1, <3>2
  <2>4. CASE i \in I /\ i \notin gone
    <3>1. cells'.cell[i] = [cells.cell[i] EXCEPT !.pos = @ + d, !.shift = @ + d]
      BY <1>5, <2>4
    <3>2. cells'.cell[i].pos = cells.cell[i].pos + d /\ cells'.cell[i].seq = cells.cell[i].seq
      BY <2>1, <3>1 DEF CellState
    <3>3. i \in Live(cells) /\ cells.cell[i].pos \in Int
      BY <1>2, <1>4, <2>4
    <3>4. to(i) = cells.cell[i].pos + d /\ to(i) >= 0
      BY <1>1, <2>4, <3>3
    <3>5. i \in Live(cells')
      BY <3>2, <3>4, <3>3, <1>1 DEF Live, IsEmpty, None
    <3> QED BY <3>2, <3>3, <3>4, <3>5
  <2> QED BY <2>2, <2>3, <2>4
<1> HIDE DEF gone, to
<1>7. \A i \in Live(cells') : EntryOf(i)' = after(i)
  <2> SUFFICES ASSUME NEW i \in Live(cells') PROVE EntryOf(i)' = after(i)
    OBVIOUS
  <2>1. kdata'[i] = kdata[i] /\ i \in Cell
    BY <1>1 DEF Scrub, Live
  <2> QED BY <1>6, <2>1 DEF EntryOf
<1>8. \A i : i \in Live(cells') <=> i \in Live(cells) /\ after(i).pos >= 0
  BY <1>2, <1>6 DEF Live
<1> HIDE DEF move, after
<1>9. {move(e) : e \in Entries} = {after(i) : i \in Live(cells)}
  BY <1>1, <1>3, IdleEntries
<1>10. {e \in {after(i) : i \in Live(cells)} : e.pos >= 0} = {after(i) : i \in Live(cells')}
  BY <1>8
<1>11. Entries' = {e \in {move(e) : e \in Entries} : e.pos >= 0}
  BY <1>1, <1>7, <1>9, <1>10, IdleEntries
<1> QED BY <1>11 DEF Logical!SeqAdd, move, Moved

(* seq_div *)
LEMMA SeqDivideAs ==
  ASSUME OInv, pc = "idle", pc' = "idle", NEW s \in Seqs, NEW r \in Ranges,
         NEW d \in Divisors, SeqDivide(s, r, d)
  PROVE  Logical!SeqDiv(s, Lo(r), Hi(r), d)
<1> DEFINE I       == Having(s, r)
           move(e) == IF Logical!InRange(e, s, Lo(r), Hi(r)) THEN Moved(e, e.pos \div d) ELSE e
           to(i)   == IF i \in I THEN cells.cell[i].pos \div d ELSE cells.cell[i].pos
<1>1. /\ Well(cells) /\ ~Trying /\ ~Trying' /\ kdata' = kdata
      /\ cells' = PosDiv(cells, I, d) /\ d \in Nat /\ d > 0
  BY CallIdle, CacheAssumption DEF SeqDivide
<1>2. ASSUME NEW i \in Cell
      PROVE  cells'.cell[i].pos = to(i) /\ cells'.cell[i].seq = cells.cell[i].seq
  <2>1. cells.cell[i] \in CellState
    BY <1>1 DEF Well, KVCellsType
  <2>2. cells'.cell[i] = IF i \notin I THEN cells.cell[i] ELSE
           [cells.cell[i] EXCEPT !.pos = cells.cell[i].pos \div d,
                                 !.shift = @ + (cells.cell[i].pos - cells.cell[i].pos \div d)]
    BY <1>1 DEF PosDiv
  <2> QED BY <2>1, <2>2 DEF CellState
<1>3. ASSUME NEW i \in Live(cells)
      PROVE  /\ i \in Cell /\ to(i) \in Int /\ to(i) >= 0
             /\ i \in I <=> Logical!InRange(EntryOf(i), s, Lo(r), Hi(r))
  <2>1. /\ i \in Cell /\ cells.cell[i].pos \in Pos
        /\ i \in I <=> Logical!InRange(EntryOf(i), s, Lo(r), Hi(r))
    BY <1>1, RangeAs
  <2>2. cells.cell[i].pos \in Nat
    BY <2>1, CellsAssumption DEF Pos
  <2>3. cells.cell[i].pos \div d \in Nat
    BY <1>1, <2>2
  <2> QED BY <2>1, <2>2, <2>3
<1>4. Live(cells') = Live(cells)
  <2>1. \A i \in Cell \ Live(cells) : to(i) = None
    BY <1>1, HavingLive DEF Live, IsEmpty
  <2>2. \A i \in Live(cells) : to(i) # None
    BY <1>3 DEF None
  <2> HIDE DEF to
  <2>3. \A i \in Cell : i \in Live(cells') <=> to(i) # None
    BY <1>2 DEF Live, IsEmpty
  <2> QED BY <2>1, <2>2, <2>3 DEF Live
<1> HIDE DEF I
<1>5. ASSUME NEW i \in Live(cells) PROVE EntryOf(i)' = move(EntryOf(i))
  <2>1. Moved(EntryOf(i), cells.cell[i].pos \div d)
          = [tok |-> kdata[i].tok, pos |-> cells.cell[i].pos \div d, seqs |-> cells.cell[i].seq]
    BY EntryChanged
  <2>2. EntryOf(i).pos = cells.cell[i].pos
    BY DEF EntryOf
  <2>3. EntryOf(i)' = [tok |-> kdata[i].tok, pos |-> to(i), seqs |-> cells.cell[i].seq]
    BY <1>1, <1>2, <1>3 DEF EntryOf
  <2>4. CASE i \in I
    BY <1>3, <2>1, <2>2, <2>3, <2>4
  <2>5. CASE i \notin I
    BY <1>3, <2>3, <2>5 DEF EntryOf
  <2> QED BY <2>4, <2>5
<1> HIDE DEF move
<1>6. Entries' = {move(e) : e \in Entries}
  BY <1>1, <1>4, <1>5, IdleEntries
<1> QED BY <1>6 DEF Logical!SeqDiv, move, Moved

(* clear *)
LEMMA ClearAs ==
  ASSUME pc' = "idle", Clear
  PROVE  Logical!Clear
<1>1. cells' = Reset /\ ~Trying'
  BY DEF Clear, Trying
<1>2. Live(cells') = {}
  BY <1>1, ResetWell DEF Live, IsEmpty, Vacant
<1> QED BY <1>1, <1>2, IdleEntries DEF Logical!Clear

(***************************************************************************)
(* Each memory operation does to the entries what llama.h says, and        *)
(* nothing else, in every state earlier operations and decodes, failed     *)
(* ones included, can leave; whatever the window, the batches, the ranges. *)
(***************************************************************************)
THEOREM OperationsKeepPromises ==
  ASSUME CpRepeats = FALSE
  PROVE  Spec => OperationsAsPromised
<1>1. OInv => [pc = "idle" /\ pc' = "idle" => OperationStep]_vars
  <2> SUFFICES ASSUME OInv, pc = "idle", pc' = "idle" PROVE OperationStep
    OBVIOUS
  <2> QED BY ClearAs, SeqKeepAs, SeqRemoveAnyAs, SeqRemoveAs, SeqCopyAs, SeqShiftAs,
             SeqDivideAs DEF OperationStep
<1>2. OInv /\ [Next]_vars => OInv'
  BY NextOwn
<1> QED BY InitOwn, <1>1, <1>2, PTL DEF Spec, OperationsAsPromised

(* The k-th live cell is found at cell k - 1, with its key. *)
LEMMA CompactAs ==
  ASSUME OInv, NEW s \in Seqs, EndurkvCompactSeq(s)
  PROVE  Entries' = Entries
<1>1. pc = "idle" /\ pc' = "idle" /\ Well(cells) /\ ~Trying /\ ~Trying'
  BY CallIdle DEF EndurkvCompactSeq, Call
<1>2. PICK src \in Seq(Cell) :
         /\ Len(src) <= NCells
         /\ Live(cells) = {src[k] : k \in 1 .. Len(src)}
         /\ \/ cells' = cells /\ kdata' = kdata
            \/ /\ cells' = Gather(cells, src)
               /\ kdata' = Scrub(cells', [i \in Cell |->
                             IF i < Len(src) THEN kdata[src[i + 1]] ELSE kdata[i]])
  BY <1>1, CompactDoes
<1>3. CASE cells' = cells /\ kdata' = kdata
  BY <1>1, <1>3, IdleEntries DEF EntryOf
<1>4. CASE /\ cells' = Gather(cells, src)
           /\ kdata' = Scrub(cells', [i \in Cell |->
                         IF i < Len(src) THEN kdata[src[i + 1]] ELSE kdata[i]])
  <2> DEFINE n == Len(src)
  <2>1. /\ Live(cells') = 0 .. n - 1
        /\ \A k \in 1 .. n : /\ cells'.cell[k - 1].pos = cells.cell[src[k]].pos
                             /\ cells'.cell[k - 1].seq = cells.cell[src[k]].seq
    BY <1>1, <1>2, <1>4, GatherPlaces
  <2>2. n \in Nat
    BY <1>2
  <2>3. kdata' = Scrub(cells', [i \in Cell |-> IF i < n THEN kdata[src[i + 1]] ELSE kdata[i]])
    BY <1>4
  <2> HIDE DEF n
  <2>4. ASSUME NEW k \in 1 .. n PROVE EntryOf(k - 1)' = EntryOf(src[k]) /\ k - 1 \in Live(cells')
    <3>1. k - 1 \in 0 .. n - 1 /\ (k - 1) + 1 = k /\ k - 1 < n
      BY <2>2
    <3>2. k - 1 \in Cell /\ ~IsEmpty(cells', k - 1) /\ k - 1 \in Live(cells')
      BY <2>1, <3>1 DEF Live
    <3>3. kdata'[k - 1] = kdata[src[k]]
      BY <2>3, <3>1, <3>2 DEF Scrub
    <3> QED BY <2>1, <3>2, <3>3 DEF EntryOf
  <2>5. Live(cells) = {src[k] : k \in 1 .. n}
    BY <1>2 DEF n
  <2>6. ASSUME NEW i \in Live(cells') PROVE \E k \in 1 .. n : i = k - 1
    <3>1. i \in 0 .. n - 1
      BY <2>1
    <3>2. i + 1 \in 1 .. n /\ i = (i + 1) - 1
      BY <2>2, <3>1
    <3> QED BY <3>2
  <2>7. {EntryOf(i)' : i \in Live(cells')} = {EntryOf(i) : i \in Live(cells)}
    <3>1. ASSUME NEW i \in Live(cells') PROVE EntryOf(i)' \in {EntryOf(m) : m \in Live(cells)}
      <4>1. PICK k \in 1 .. n : i = k - 1
        BY <2>6
      <4>2. src[k] \in Live(cells)
        BY <2>5
      <4> QED BY <2>4, <4>1, <4>2
    <3>2. ASSUME NEW m \in Live(cells) PROVE EntryOf(m) \in {EntryOf(i)' : i \in Live(cells')}
      <4>1. PICK k \in 1 .. n : m = src[k]
        BY <2>5
      <4> QED BY <2>4, <4>1
    <3> QED BY <3>1, <3>2
  <2> QED BY <1>1, <2>7, IdleEntries
<1> QED BY <1>2, <1>3, <1>4

(***************************************************************************)
(* Compaction changes no entry, of any sequence: the one it is called for  *)
(* and those that share its cells, shift pending or not.                   *)
(***************************************************************************)
THEOREM CompactionChangesNothing ==
  ASSUME CpRepeats = FALSE
  PROVE  Spec => CompactKeepsEntries
<1>1. OInv => [(\E s \in Seqs : EndurkvCompactSeq(s)) => Entries' = Entries]_vars
  BY CompactAs
<1>2. OInv /\ [Next]_vars => OInv'
  BY NextOwn
<1> QED BY InitOwn, <1>1, <1>2, PTL DEF Spec, CompactKeepsEntries

-----------------------------------------------------------------------------
(* Positions are bounded, so that a set of them has a greatest one.        *)
LEMMA GreatestPos ==
  ASSUME NEW S \in SUBSET Pos, S # {}
  PROVE  \E x \in S : \A y \in S : y <= x
<1> DEFINE D == {MaxPos - x : x \in S}
<1>1. MaxPos \in Nat /\ \A x \in S : x \in Nat /\ x <= MaxPos
  BY CellsAssumption DEF Pos
<1>2. D \in SUBSET Nat /\ D # {}
  BY <1>1
<1>3. PICK d \in D : \A e \in D : d <= e
  <2> HIDE DEF D
  <2> QED BY <1>2, LeastNatural
<1>4. PICK x \in S : d = MaxPos - x
  OBVIOUS
<1>5. ASSUME NEW y \in S PROVE y <= x
  <2>1. MaxPos - y \in D
    OBVIOUS
  <2>2. MaxPos - x <= MaxPos - y
    BY <1>3, <1>4, <2>1
  <2> QED BY <1>1, <2>2
<1> QED BY <1>5

(* seq_pos_max is at least the position of every cell of the sequence.     *)
LEMMA SeqPosMaxCovers ==
  ASSUME NEW c, Well(c), NEW i \in Live(c), NEW s \in c.cell[i].seq
  PROVE  /\ s \in Seqs /\ PosPresent(c, s) # {}
         /\ SeqPosMax(c, s) \in Nat /\ c.cell[i].pos <= SeqPosMax(c, s)
<1> DEFINE p == c.cell[i].pos
           T == {m \in Live(c) : s \in c.cell[m].seq /\ c.cell[m].pos = p}
<1>1. i \in Cell /\ c.cell[i] \in CellState /\ p # None
  BY DEF Live, IsEmpty, Well, KVCellsType
<1>2. s \in Seqs /\ p \in Pos
  BY <1>1 DEF CellState
<1>3. Tally(c.cell, Live(c))[s][p] = Cardinality(T)
  BY <1>2 DEF Tally
<1>4. Cardinality(T) # 0
  <2>1. T \in SUBSET Cell /\ i \in T
    BY LiveType
  <2> HIDE DEF T
  <2>2. IsFiniteSet(T)
    BY <2>1, CellFinite, FS_Subset
  <2> QED BY <2>1, <2>2, FS_EmptySet
<1>5. p \in PosPresent(c, s)
  <2>1. c.seqPos[s][p] # 0
    BY <1>3, <1>4 DEF Well, IndexConsistent
  <2> QED BY <1>2, <2>1 DEF PosPresent
<1>6. PICK x \in PosPresent(c, s) : \A q \in PosPresent(c, s) : q <= x
  BY <1>5, GreatestPos DEF PosPresent
<1>7. /\ SeqPosMax(c, s) \in PosPresent(c, s)
      /\ \A q \in PosPresent(c, s) : q <= SeqPosMax(c, s)
  <2>1. SeqPosMax(c, s) = CHOOSE z \in PosPresent(c, s) : \A q \in PosPresent(c, s) : q <= z
    BY <1>5 DEF SeqPosMax
  <2> QED BY <1>6, <2>1
<1>8. SeqPosMax(c, s) \in Nat
  BY <1>7, CellsAssumption DEF PosPresent, Pos
<1> QED BY <1>2, <1>5, <1>7, <1>8

(* A batch may split up the sequences of a token, never join those of two. *)
ForksOnly ==
    \A b \in Batches : \A j, k \in 1 .. Len(b) :
        j < k /\ IdsOf(b[j]) \cap IdsOf(b[k]) # {} => IdsOf(b[k]) \subseteq IdsOf(b[j])

(* Then the positions of a sequence go up along the batch.                 *)
LEMMA BatchForward ==
  ASSUME ForksOnly, NEW b \in Batches, NEW pos \in [DOMAIN b -> Pos], BatchPos(b, pos)
  PROVE  \A j, k \in 1 .. Len(b) :
            j < k /\ IdsOf(b[j]) \cap IdsOf(b[k]) # {} => pos[j] < pos[k]
<1> DEFINE Bad == {k \in 1 .. Len(b) : \E j \in 1 .. Len(b) :
                      /\ j < k /\ IdsOf(b[j]) \cap IdsOf(b[k]) # {}
                      /\ ~ (pos[j] < pos[k])}
<1>1. b \in Seq(Seq(Seqs) \ {<<>>}) /\ DOMAIN b = 1 .. Len(b) /\ Len(b) \in Nat
  BY CacheAssumption
<1>2. \A k \in 1 .. Len(b) : pos[k] \in Int
  <2>1. \A p \in Pos : p \in Int
    BY CellsAssumption DEF Pos
  <2> QED BY <1>1, <2>1
<1> SUFFICES ASSUME Bad # {} PROVE FALSE
  OBVIOUS
<1>3. PICK k \in Bad : \A m \in Bad : k <= m
  <2>1. Bad \in SUBSET Nat
    BY <1>1
  <2> HIDE DEF Bad
  <2> QED BY <2>1, LeastNatural
<1>4. k \in 1 .. Len(b)
  OBVIOUS
<1>5. PICK j \in 1 .. Len(b) : /\ j < k /\ IdsOf(b[j]) \cap IdsOf(b[k]) # {}
                               /\ ~ (pos[j] < pos[k])
  OBVIOUS
<1> DEFINE s == b[k][1]
           before == Earlier(b, k, s)
<1>6. s \in IdsOf(b[k]) /\ IdsOf(b[k]) \subseteq IdsOf(b[j])
  <2>1. b[k] \in Seq(Seqs) /\ b[k] # <<>>
    BY <1>1, <1>4
  <2>2. 1 \in DOMAIN b[k]
    BY <2>1
  <2> QED BY <1>4, <1>5, <2>2 DEF ForksOnly, IdsOf
<1>7. j \in before
  <2>1. s \in IdsOf(b[j]) /\ j \in 1 .. Len(b) /\ j < k
    BY <1>5, <1>6
  <2>2. k \in Int /\ j \in Int /\ j \in 1 .. k - 1
    BY <1>1, <1>4, <2>1
  <2> HIDE DEF s
  <2> QED BY <2>1, <2>2 DEF Earlier, IdsOf
<1>8. PICK m \in before : (\A n \in before : n <= m) /\ pos[k] = pos[m] + 1
  <2>1. before # {}
    BY <1>7
  <2> HIDE DEF before
  <2>2. \E n \in before : (\A o \in before : o <= n) /\ pos[k] = pos[n] + 1
    BY <1>1, <1>4, <2>1 DEF BatchPos, before
  <2> QED BY <2>2
<1>9. m \in 1 .. Len(b) /\ m < k /\ s \in IdsOf(b[m]) /\ j <= m
  <2>1. \A x \in before : x \in 1 .. k - 1 /\ s \in IdsOf(b[x])
    BY DEF Earlier
  <2>2. k \in Nat /\ k <= Len(b)
    BY <1>1, <1>4
  <2>3. m \in 1 .. k - 1 /\ s \in IdsOf(b[m]) /\ j <= m
    BY <1>7, <1>8, <2>1
  <2> HIDE DEF before, s
  <2> QED BY <1>1, <2>2, <2>3
<1>10. CASE j = m
  BY <1>2, <1>5, <1>8, <1>9, <1>10
<1>11. CASE j < m
  <2>1. m \notin Bad
    BY <1>1, <1>3, <1>4, <1>9
  <2>2. pos[j] < pos[m]
    BY <1>6, <1>9, <1>11, <2>1
  <2> QED BY <1>2, <1>5, <1>8, <1>9, <1>4, <2>2
<1> QED BY <1>5, <1>9, <1>10, <1>11, <1>4

(* A batch begins behind all that the cache has of its sequences.          *)
LEMMA BatchAhead ==
  ASSUME Well(cells), NEW b \in Batches, NEW pos \in [DOMAIN b -> Pos], BatchOK(b, pos),
         NEW k \in 1 .. Len(b), NEW s \in IdsOf(b[k]),
         NEW i \in Live(cells), s \in cells.cell[i].seq
  PROVE  cells.cell[i].pos < pos[k]
<1> DEFINE has == {pos[m] : m \in {n \in DOMAIN b : s \in IdsOf(b[n])}}
<1>1. DOMAIN b = 1 .. Len(b)
  BY CacheAssumption
<1>2. has \in SUBSET Nat /\ pos[k] \in has
  <2>1. \A n \in DOMAIN b : pos[n] \in Nat
    BY CellsAssumption DEF Pos
  <2> QED BY <1>1, <2>1
<1>3. /\ s \in Seqs /\ PosPresent(cells, s) # {}
      /\ SeqPosMax(cells, s) \in Nat /\ cells.cell[i].pos <= SeqPosMax(cells, s)
  BY SeqPosMaxCovers
<1>4. LeastOf(has) = SeqPosMax(cells, s) + 1
  BY <1>2, <1>3 DEF BatchOK
<1> HIDE DEF has
<1>5. LeastOf(has) <= pos[k]
  <2>1. \E x \in has : \A y \in has : x <= y
    BY <1>2, LeastNatural
  <2>2. \A y \in has : LeastOf(has) <= y
    BY <2>1 DEF LeastOf
  <2> QED BY <1>2, <2>2
<1>6. cells.cell[i].pos \in Int
  <2>1. i \in Cell /\ cells.cell[i] \in CellState
    BY DEF Live, Well, KVCellsType
  <2> QED BY <2>1, CellsAssumption DEF CellState, Pos, None
<1> QED BY <1>2, <1>3, <1>4, <1>5, <1>6

(* Where in the batch a token of a ubatch comes from.                      *)
LEMMA SplitAt ==
  ASSUME NEW b \in Batches, NEW p, NEW k \in 1 .. Len(Split(b, p)),
         NEW m \in 1 .. Len(Split(b, p)[k])
  PROVE  /\ (k - 1) * NUbatch + m \in 1 .. Len(b) /\ m <= NUbatch
         /\ Split(b, p)[k][m] = [pos |-> p[(k - 1) * NUbatch + m],
                                 ids |-> b[(k - 1) * NUbatch + m]]
<1> DEFINE n == Len(b)
           toks  == [x \in DOMAIN b |-> [pos |-> p[x], ids |-> b[x]]]
           count == (n + NUbatch - 1) \div NUbatch
           upto(j) == IF j * NUbatch < n THEN j * NUbatch ELSE n
           T == {toks[x] : x \in DOMAIN b}
           x == (k - 1) * NUbatch
           last == upto(k)
<1>1. b \in Seq(Seq(Seqs) \ {<<>>}) /\ n \in Nat /\ n > 0 /\ NUbatch \in Nat /\ NUbatch > 0
      /\ DOMAIN b = 1 .. n
  BY CacheAssumption
<1>2. toks \in Seq(T) /\ Len(toks) = n
  <2>1. DOMAIN toks = 1 .. n /\ \A y \in 1 .. n : toks[y] \in T
    BY <1>1
  <2>2. toks = [y \in 1 .. n |-> toks[y]]
    BY <2>1
  <2> HIDE DEF toks, n, T
  <2>3. toks \in [1 .. n -> T]
    BY <2>1, <2>2
  <2> QED BY <1>1, <2>3
<1>3. Split(b, p) = [j \in 1 .. count |-> SubSeq(toks, (j - 1) * NUbatch + 1, upto(j))]
  BY DEF Split, n
<1>4. \A y \in 1 .. n : toks[y] = [pos |-> p[y], ids |-> b[y]]
  <2> HIDE DEF n
  <2> QED BY <1>1
<1> HIDE DEF n
<1>5. count \in Nat /\ count * NUbatch <= n + NUbatch - 1
  BY <1>1
<1>6. k \in Nat /\ k >= 1 /\ k <= count
  <2> HIDE DEF count, toks, upto
  <2>1. Len(Split(b, p)) = count
    BY <1>3, <1>5
  <2> QED BY <1>5, <2>1
<1> HIDE DEF count
<1>7. Split(b, p)[k] = SubSeq(toks, x + 1, last)
  <2>1. k \in 1 .. count
    BY <1>5, <1>6
  <2> HIDE DEF toks
  <2> QED BY <1>3, <2>1
<1>8. /\ x \in Nat /\ x < n
      /\ last \in Nat /\ last <= n /\ last <= x + NUbatch /\ x < last
  <2>1. k * NUbatch \in Nat /\ k * NUbatch <= count * NUbatch
    BY <1>1, <1>5, <1>6
  <2>2. x = k * NUbatch - NUbatch /\ x >= 0
    BY <1>1, <1>6
  <2> DEFINE y == k * NUbatch
             z == count * NUbatch
  <2>3. last = IF y < n THEN y ELSE n
    OBVIOUS
  <2>4. y \in Nat /\ z \in Int /\ y <= z /\ z <= n + NUbatch - 1 /\ x = y - NUbatch /\ x >= 0
    BY <1>1, <1>5, <2>1, <2>2
  <2> HIDE DEF x, y, z, last
  <2> QED BY <1>1, <2>3, <2>4
<1> HIDE DEF toks, T, last
<1>9. /\ Len(SubSeq(toks, x + 1, last)) = last - x
      /\ \A y \in 1 .. last - x : SubSeq(toks, x + 1, last)[y] = toks[x + y]
  <2> HIDE DEF x
  <2>1. x + 1 \in Int /\ last \in Int /\ x + 1 <= last
        /\ \A y \in x + 1 .. last : toks[y] \in T
    BY <1>1, <1>2, <1>8
  <2> DEFINE f == x + 1
  <2>2. /\ Len(SubSeq(toks, f, last)) = last - f + 1
        /\ \A y \in 1 .. last - f + 1 : SubSeq(toks, f, last)[y] = toks[f + y - 1]
    <3> HIDE DEF f
    <3> QED BY <2>1, SubSeqProperties DEF f
  <2> QED BY <1>8, <2>2
<1> HIDE DEF x, n
<1>10. m \in 1 .. last - x
  BY <1>7, <1>9
<1>11. x + m \in 1 .. n /\ m <= NUbatch
  BY <1>1, <1>8, <1>10
<1>12. Split(b, p)[k][m] = [pos |-> p[x + m], ids |-> b[x + m]]
  BY <1>4, <1>7, <1>9, <1>10, <1>11
<1> QED BY <1>11, <1>12 DEF x, n

(***************************************************************************)
(* What is still to be decoded lies behind all the cache has of its        *)
(* sequences, and behind what is to be decoded before it.                  *)
(***************************************************************************)
Ahead(u, c) ==
    \A k \in 1 .. Len(u) : \A m \in 1 .. Len(u[k]) : \A s \in IdsOf(u[k][m].ids) :
        \A i \in Live(c) : s \in c.cell[i].seq => c.cell[i].pos < u[k][m].pos

Forward(u) ==
    \A k, l \in 1 .. Len(u) : k < l =>
        \A m \in 1 .. Len(u[k]) : \A n \in 1 .. Len(u[l]) :
            IdsOf(u[k][m].ids) \cap IdsOf(u[l][n].ids) # {} => u[k][m].pos < u[l][n].pos

AheadInv == pc # "idle" => Ahead(ubs, Stable) /\ Forward(ubs)

(* A batch is split into ubatches that go on where the cache ends.         *)
LEMMA SplitForward ==
  ASSUME ForksOnly, Well(cells), NEW b \in Batches, NEW pos \in [DOMAIN b -> Pos],
         BatchPos(b, pos), BatchOK(b, pos)
  PROVE  Ahead(Split(b, pos), cells) /\ Forward(Split(b, pos))
<1> DEFINE u == Split(b, pos)
           at(k, m) == (k - 1) * NUbatch + m
<1>0. /\ u \in Seq(Seq(Token))
      /\ Len(u) \in Nat /\ \A k \in 1 .. Len(u) : Len(u[k]) \in Nat
  <2>1. u \in Seq(Seq(Token))
    BY SplitType
  <2> HIDE DEF u
  <2> QED BY <2>1
<1>1. \A k \in 1 .. Len(u) : \A m \in 1 .. Len(u[k]) :
         /\ at(k, m) \in 1 .. Len(b) /\ m <= NUbatch
         /\ u[k][m] = [pos |-> pos[at(k, m)], ids |-> b[at(k, m)]]
  BY SplitAt
<1>2. \A k \in 1 .. Len(u) : \A m \in 1 .. Len(u[k]) :
         u[k][m].pos = pos[at(k, m)] /\ u[k][m].ids = b[at(k, m)]
  <2> SUFFICES ASSUME NEW k \in 1 .. Len(u), NEW m \in 1 .. Len(u[k])
               PROVE  u[k][m].pos = pos[at(k, m)] /\ u[k][m].ids = b[at(k, m)]
    OBVIOUS
  <2>1. u[k][m] = [pos |-> pos[at(k, m)], ids |-> b[at(k, m)]]
    BY <1>1
  <2> HIDE DEF u, at
  <2> QED BY <2>1
<1>3. \A x \in 1 .. Len(b) : \A s \in IdsOf(b[x]) : \A i \in Live(cells) :
         s \in cells.cell[i].seq => cells.cell[i].pos < pos[x]
  BY BatchAhead
<1>4. \A x, y \in 1 .. Len(b) : x < y /\ IdsOf(b[x]) \cap IdsOf(b[y]) # {} => pos[x] < pos[y]
  BY BatchForward
<1>5. ASSUME NEW k \in 1 .. Len(u), NEW l \in 1 .. Len(u), k < l,
             NEW m \in 1 .. Len(u[k]), NEW n \in 1 .. Len(u[l])
      PROVE  at(k, m) < at(l, n)
  <2>1. NUbatch \in Nat /\ NUbatch > 0 /\ k \in Int /\ l \in Int /\ k <= l - 1 /\ k >= 1
    <3>1. NUbatch \in Nat /\ NUbatch > 0
      BY CacheAssumption
    <3>2. Len(u) \in Nat
      BY <1>0
    <3> HIDE DEF u
    <3>3. k \in Int /\ l \in Int /\ k >= 1
      BY <3>2
    <3>4. k < l
      BY <1>5
    <3> QED BY <3>1, <3>3, <3>4
  <2>2. m <= NUbatch /\ m \in Int /\ n \in Int /\ n >= 1
    <3>1. Len(u[k]) \in Nat /\ Len(u[l]) \in Nat
      BY <1>0
    <3>2. m <= NUbatch
      BY <1>1
    <3> HIDE DEF u
    <3> QED BY <3>1, <3>2
  <2>3. k * NUbatch <= (l - 1) * NUbatch /\ k * NUbatch \in Int /\ (l - 1) * NUbatch \in Int
    BY <2>1, Z3
  <2>4. (k - 1) * NUbatch = k * NUbatch - NUbatch
    BY <2>1
  <2> DEFINE y == k * NUbatch
             z == (l - 1) * NUbatch
             x == (k - 1) * NUbatch
  <2>5. x = y - NUbatch /\ y \in Int /\ z \in Int /\ y <= z /\ at(k, m) = x + m /\ at(l, n) = z + n
    BY <2>3, <2>4
  <2> HIDE DEF x, y, z, at
  <2> QED BY <2>1, <2>2, <2>5
<1> HIDE DEF u, at
<1>6. Ahead(u, cells)
  BY <1>1, <1>2, <1>3 DEF Ahead
<1>7. Forward(u)
  BY <1>1, <1>2, <1>4, <1>5 DEF Forward
<1> QED BY <1>6, <1>7 DEF u

-----------------------------------------------------------------------------
(* The K-shift moves no cell, and no sequence.                             *)
LEMMA UpdateSame ==
  ASSUME Well(cells), Update
  PROVE  /\ Live(cells') = Live(cells)
         /\ \A i \in Cell : /\ cells'.cell[i].pos = cells.cell[i].pos
                            /\ cells'.cell[i].seq = cells.cell[i].seq
<1>1. ASSUME NEW i \in Cell
      PROVE  /\ cells'.cell[i].pos = cells.cell[i].pos
             /\ cells'.cell[i].seq = cells.cell[i].seq
  <2>1. CASE cells' = cells
    BY <2>1
  <2>2. CASE cells' = ResetShift(cells)
    <3>1. cells.cell[i] \in CellState /\ cells'.cell[i] = [cells.cell[i] EXCEPT !.shift = 0]
      BY <2>2 DEF Well, KVCellsType, ResetShift
    <3> QED BY <3>1 DEF CellState
  <2> QED BY <2>1, <2>2 DEF Update
<1> QED BY <1>1 DEF Live, IsEmpty

(* Fewer cells, with fewer sequences, leave as much room. *)
LEMMA AheadOfLess ==
  ASSUME NEW u, NEW c, NEW d, Ahead(u, c),
         \A i \in Live(d) : /\ i \in Live(c) /\ d.cell[i].pos = c.cell[i].pos
                            /\ d.cell[i].seq \subseteq c.cell[i].seq
  PROVE  Ahead(u, d)
  BY DEF Ahead

AInv == TInv /\ OwnInv /\ SingleInv /\ AheadInv

(* A batch starts behind all that the cache has of its sequences. *)
LEMMA DecodeBeginAhead ==
  ASSUME ForksOnly, AInv, NEW b \in Batches, DecodeBegin(b)
  PROVE  AheadInv'
<1>1. Well(cells) /\ Update /\ pc' = "prepare" /\ entry' = [cells |-> cells', head |-> head]
  BY DEF AInv, TInv, IInv, DecodeBegin
<1>2. PICK pos \in [DOMAIN b -> Pos] : BatchPos(b, pos) /\ BatchOK(b, pos) /\ ubs' = Split(b, pos)
  BY DEF DecodeBegin
<1>3. Ahead(ubs', cells) /\ Forward(ubs')
  BY <1>1, <1>2, SplitForward
<1>4. Ahead(ubs', cells')
  <2>1. \A i \in Live(cells') : i \in Live(cells) /\ i \in Cell
    BY <1>1, UpdateSame DEF Live
  <2> QED BY <1>1, <1>3, <2>1, UpdateSame, AheadOfLess
<1>5. Stable' = cells'
  BY <1>1 DEF Stable, Trying
<1> QED BY <1>3, <1>4, <1>5 DEF AheadInv

(* Trying the batch out changes neither it nor the cells to go back to.    *)
LEMMA TrialAhead ==
  ASSUME AInv, Trying, pc' # "idle", ubs' = ubs, Stable' = Stable
  PROVE  AheadInv'
<1>1. Ahead(ubs, Stable) /\ Forward(ubs)
  BY DEF AInv, AheadInv, Trying
<1> QED BY <1>1 DEF AheadInv

(* A second try starts where the first did, but for the shifts. *)
LEMMA RetryPrepareAhead ==
  ASSUME AInv, RetryPrepare
  PROVE  AheadInv'
<1>1. /\ TInv /\ Trying /\ Well(cells) /\ Update /\ stack = <<>>
      /\ pc' = "prepare" /\ entry' = [cells |-> cells', head |-> head] /\ ubs' = ubs
      /\ Ahead(ubs, Stable) /\ Forward(ubs)
  BY DEF AInv, TInv, IInv, AheadInv, RetryPrepare, Trying
<1>2. Stable = cells /\ Stable' = cells'
  BY <1>1, BackAgain DEF Stable, Trying
<1>3. Ahead(ubs, cells')
  <2>1. \A i \in Live(cells') : i \in Live(cells) /\ i \in Cell
    BY <1>1, UpdateSame DEF Live
  <2> QED BY <1>1, <1>2, <2>1, UpdateSame, AheadOfLess
<1> QED BY <1>1, <1>2, <1>3 DEF AheadInv

(* The ubatches that are left lie behind the one just added. *)
LEMMA ProcessUbatchAhead ==
  ASSUME AInv, ProcessUbatch
  PROVE  AheadInv'
<1> DEFINE ub == ubs[1]
           idxs == slots[1]
           c  == ApplyUbatch(cells, ub, idxs)
<1>1. pc = "process" /\ cells' = c /\ TInv /\ IInv
  BY DEF ProcessUbatch, AInv, TInv
<1>2. CASE Len(ubs) = 1
  BY <1>2 DEF ProcessUbatch, EndDecode, AheadInv
<1>3. CASE Len(ubs) # 1
  <2>1. pc' = "process" /\ Stable = cells /\ Stable' = c
    BY <1>1, <1>3 DEF ProcessUbatch, Stable, Trying
  <2>2. /\ Len(ubs) \in Nat /\ Len(ubs') = Len(ubs) - 1
        /\ \A k \in 1 .. Len(ubs') : ubs'[k] = ubs[k + 1] /\ k + 1 \in 1 .. Len(ubs)
    BY <1>1, <1>3, NextUbatches
  <2>3. Ahead(ubs, cells) /\ Forward(ubs)
    BY <1>1, <2>1 DEF AInv, AheadInv
  <2>4. Forward(ubs')
    <3>1. \A k, l \in 1 .. Len(ubs') : k < l => k + 1 < l + 1
      BY <2>2
    <3> QED BY <2>2, <2>3, <3>1 DEF Forward
  <2>5. /\ ub \in Seq(Token)
        /\ \A i \in Cell \ Targets(idxs) : c.cell[i] = cells.cell[i]
        /\ \A i \in Targets(idxs) :
             /\ SlotOf(idxs, i) \in 1 .. Len(ub)
             /\ c.cell[i].pos = ub[SlotOf(idxs, i)].pos
             /\ c.cell[i].seq = IdsOf(ub[SlotOf(idxs, i)].ids)
    BY <1>1, AppliedAt
  <2> HIDE DEF c, idxs
  <2>6. ASSUME NEW k \in 1 .. Len(ubs'), NEW m \in 1 .. Len(ubs'[k]),
               NEW s \in IdsOf(ubs'[k][m].ids), NEW i \in Live(c), s \in c.cell[i].seq
        PROVE  c.cell[i].pos < ubs'[k][m].pos
    <3>1. ubs'[k] = ubs[k + 1] /\ k + 1 \in 1 .. Len(ubs) /\ 1 \in 1 .. Len(ubs) /\ 1 < k + 1
      BY <2>2
    <3>2. i \in Cell /\ ~IsEmpty(c, i)
      BY DEF Live
    <3>3. CASE i \in Targets(idxs)
      <4> DEFINE j == SlotOf(idxs, i)
      <4>1. j \in 1 .. Len(ub) /\ c.cell[i].pos = ub[j].pos /\ c.cell[i].seq = IdsOf(ub[j].ids)
        BY <2>5, <3>3
      <4>2. IdsOf(ub[j].ids) \cap IdsOf(ubs[k + 1][m].ids) # {}
        BY <2>6, <3>1, <4>1
      <4> HIDE DEF j
      <4>3. ubs[1][j].pos < ubs[k + 1][m].pos
        BY <2>3, <3>1, <4>1, <4>2 DEF Forward
      <4> QED BY <3>1, <4>1, <4>3
    <3>4. CASE i \notin Targets(idxs)
      <4>1. c.cell[i] = cells.cell[i] /\ i \in Live(cells)
        BY <2>5, <3>2, <3>4 DEF Live, IsEmpty
      <4> QED BY <2>3, <2>6, <3>1, <4>1 DEF Ahead
    <3> QED BY <3>3, <3>4
  <2>7. Ahead(ubs', c)
    BY <2>6 DEF Ahead
  <2> QED BY <2>1, <2>4, <2>7 DEF AheadInv
<1> QED BY <1>2, <1>3

(* Every step leaves what is still to be decoded ahead. *)
LEMMA NextAhead ==
  ASSUME CpRepeats = FALSE, SwaType = "none", SingleTokens, ForksOnly, AInv, [Next]_vars
  PROVE  AInv'
<1>1. TInv /\ OInv /\ IInv /\ SingleInv
  BY DEF AInv, TInv, OInv
<1>2. TInv' /\ OwnInv'
  BY <1>1, NextTrial, NextOwn DEF OInv
<1>3. ASSUME NEW b \in Batches, DecodeBegin(b) PROVE SingleInv' /\ AheadInv'
  BY <1>3, DecodeBeginSingle, DecodeBeginAhead
<1>4. ASSUME pc' = "idle", ubs' = <<>> \/ ubs' = ubs PROVE SingleInv' /\ AheadInv'
  BY <1>1, <1>4 DEF SingleInv, AheadInv
<1>5. ASSUME PlaceUbatch \/ PlacedAll \/ OutOfCells \/ RestoreOne
      PROVE  SingleInv' /\ AheadInv'
  <2>1. Trying /\ Trying' /\ pc' # "idle" /\ ubs' = ubs /\ entry' = entry
    BY <1>5 DEF PlaceUbatch, PlacedAll, OutOfCells, RestoreOne, Trying
  <2> QED BY <1>1, <2>1, TrialAhead DEF SingleInv, Stable
<1>6. ASSUME Prepared PROVE SingleInv' /\ AheadInv'
  <2>1. /\ Trying /\ ~Trying' /\ pc' # "idle" /\ ubs' = ubs /\ stack = <<>> /\ cells' = cells
    BY <1>6 DEF Prepared, Trying, decoding
  <2>2. Stable' = Stable
    BY <1>1, <2>1, BackAgain DEF Stable
  <2> QED BY <1>1, <2>1, <2>2, TrialAhead DEF SingleInv
<1>7. ASSUME RetryPrepare PROVE SingleInv' /\ AheadInv'
  <2>1. ubs' = ubs
    BY <1>7 DEF RetryPrepare
  <2> QED BY <1>1, <1>7, <2>1, RetryPrepareAhead DEF SingleInv
<1>8. ASSUME ProcessUbatch PROVE SingleInv' /\ AheadInv'
  <2>1. CASE Len(ubs) = 1
    BY <1>4, <1>8, <2>1 DEF ProcessUbatch, EndDecode
  <2>2. CASE Len(ubs) # 1
    <3>1. /\ Len(ubs') = Len(ubs) - 1
          /\ \A k \in 1 .. Len(ubs') : ubs'[k] = ubs[k + 1] /\ k + 1 \in 1 .. Len(ubs)
      BY <1>1, <1>8, <2>2, NextUbatches
    <3>2. SingleInv'
      BY <1>1, <3>1 DEF SingleInv
    <3> QED BY <1>8, <3>2, ProcessUbatchAhead
  <2> QED BY <2>1, <2>2
<1>9. ASSUME GiveUp \/ FailUbatch PROVE SingleInv' /\ AheadInv'
  BY <1>4, <1>9 DEF GiveUp, FailUbatch, EndDecode
<1>10. ASSUME pc = "idle", UNCHANGED <<pc, decoding>> PROVE SingleInv' /\ AheadInv'
  BY <1>4, <1>10 DEF decoding
<1>11. ASSUME UNCHANGED vars PROVE SingleInv' /\ AheadInv'
  <2>1. UNCHANGED <<cells, pc, ubs, entry>>
    BY <1>11 DEF vars, decoding
  <2>2. Stable' = Stable
    BY <2>1 DEF Stable, Trying
  <2> QED BY <1>1, <2>1, <2>2 DEF AInv, SingleInv, AheadInv
<1>12. \/ \E b \in Batches : DecodeBegin(b)
       \/ DecodeStep \/ (pc = "idle" /\ UNCHANGED <<pc, decoding>>) \/ UNCHANGED vars
  BY DEF Next, Clear, SeqRemoveAny, SeqRemove, SeqCopy, SeqShift, SeqDivide, SeqKeep,
         EndurkvRmCells, EndurkvCompactSeq, Call
<1>13. DecodeStep => SingleInv' /\ AheadInv'
  BY <1>5, <1>6, <1>7, <1>8, <1>9 DEF DecodeStep
<1> QED BY <1>2, <1>3, <1>10, <1>11, <1>12, <1>13 DEF AInv

(* Nothing is to be decoded at first. *)
LEMMA InitAhead == Init => AInv
<1> SUFFICES ASSUME Init PROVE AInv
  OBVIOUS
<1>1. pc = "idle" /\ ubs = <<>>
  BY DEF Init
<1> QED BY <1>1, InitTrial, InitOwn DEF AInv, OInv, SingleInv, AheadInv

-----------------------------------------------------------------------------
(* Cells of the failed ubatch are emptied, and no other cell has anything  *)
(* of its sequences from its positions on.                                 *)
LEMMA FailUbatchDoes ==
  ASSUME AInv, FailUbatch
  PROVE  /\ Live(cells') = Live(cells)
         /\ \A i \in Live(cells) : /\ kdata'[i] = kdata[i]
                                   /\ cells'.cell[i].pos = cells.cell[i].pos
                                   /\ cells'.cell[i].seq = cells.cell[i].seq
<1> DEFINE ub == ubs[1]
           idxs == slots[1]
           c  == ApplyUbatch(cells, ub, idxs)
           undo == [i \in Cell |-> {s \in Seqs :
                      \E k \in DOMAIN ub : /\ ub[k].ids[1] = s
                                           /\ c.cell[i].pos >= ub[k].pos}]
           kd == [i \in Cell |-> IF i \in Targets(idxs) THEN NoData ELSE kdata[i]]
<1>1. /\ pc = "process" /\ ComputeFails = TRUE /\ cells' = SeqRm(c, undo)
      /\ kdata' = Scrub(cells', kd) /\ ~Trying /\ ~Trying'
  <2>1. ComputeFails \in BOOLEAN
    BY CacheAssumption
  <2> QED BY <2>1 DEF FailUbatch, EndDecode, Trying
<1>2. TInv /\ AllOwned(cells) /\ Well(cells)
  BY DEF AInv, OwnInv, TInv, IInv
<1>3. /\ ub \in Seq(Token) /\ Well(c)
      /\ \A i \in Cell \ Targets(idxs) : c.cell[i] = cells.cell[i]
      /\ \A i \in Targets(idxs) : /\ i \in Cell /\ cells.cell[i] = Vacant
                                  /\ SlotOf(idxs, i) \in 1 .. Len(ub)
                                  /\ ub[SlotOf(idxs, i)] \in Token
                                  /\ c.cell[i].pos = ub[SlotOf(idxs, i)].pos
                                  /\ c.cell[i].seq = IdsOf(ub[SlotOf(idxs, i)].ids)
  BY <1>1, <1>2, AppliedAt
<1>4. /\ 1 \in 1 .. Len(ubs) /\ \A m \in 1 .. Len(ub) : Len(ub[m].ids) = 1
      /\ Ahead(ubs, cells)
  <2>1. 1 \in 1 .. Len(ubs)
    BY <1>1, <1>2, ProcessType DEF TInv
  <2> QED BY <1>1, <2>1 DEF AInv, SingleInv, AheadInv, Stable
<1>5. \A m \in DOMAIN ub : /\ m \in 1 .. Len(ub) /\ ub[m].pos \in Int /\ ub[m].pos # None
                           /\ ub[m].ids[1] \in Seqs /\ IdsOf(ub[m].ids) = {ub[m].ids[1]}
  <2> SUFFICES ASSUME NEW m \in DOMAIN ub
               PROVE  /\ m \in 1 .. Len(ub) /\ ub[m].pos \in Int /\ ub[m].pos # None
                      /\ ub[m].ids[1] \in Seqs /\ IdsOf(ub[m].ids) = {ub[m].ids[1]}
    OBVIOUS
  <2>1. m \in 1 .. Len(ub) /\ ub[m] \in Token
    BY <1>3
  <2>2. ub[m].pos \in Pos /\ ub[m].ids \in Seq(Seqs) /\ Len(ub[m].ids) = 1
    BY <1>4, <2>1 DEF Token
  <2> QED BY <2>1, <2>2, CellsAssumption DEF IdsOf, Pos, None
<1> HIDE DEF ub, idxs, c
<1>6. ASSUME NEW i \in Targets(idxs) PROVE i \in Emptied(c, undo)
  <2> DEFINE m == SlotOf(idxs, i)
             s == ub[m].ids[1]
  <2>1. /\ i \in Cell /\ m \in DOMAIN ub
        /\ c.cell[i].pos = ub[m].pos /\ c.cell[i].seq = {s}
        /\ ub[m].pos \in Int /\ ub[m].pos # None /\ s \in Seqs
    <3>1. i \in Cell /\ m \in DOMAIN ub /\ c.cell[i].pos = ub[m].pos
          /\ c.cell[i].seq = IdsOf(ub[m].ids)
      <4>1. m \in 1 .. Len(ub) /\ ub \in Seq(Token)
        BY <1>3
      <4> QED BY <1>3, <4>1
    <3> HIDE DEF m
    <3> QED BY <1>5, <3>1
  <2>2. i \in Live(c) /\ c.cell[i].pos >= ub[m].pos
    BY <2>1 DEF Live, IsEmpty
  <2>3. s \in undo[i]
    BY <2>1, <2>2
  <2> HIDE DEF undo, s, m
  <2> QED BY <2>1, <2>2, <2>3 DEF Emptied
<1>7. ASSUME NEW i \in Live(cells)
      PROVE  /\ i \in Live(c) /\ i \notin Emptied(c, undo) /\ i \notin Targets(idxs)
             /\ c.cell[i].pos = cells.cell[i].pos
             /\ c.cell[i].seq \ undo[i] = cells.cell[i].seq
  <2>1. i \in Cell /\ cells.cell[i].pos # None
    BY DEF Live, IsEmpty
  <2>2. i \notin Targets(idxs)
    BY <1>3, <2>1 DEF Vacant
  <2>3. c.cell[i] = cells.cell[i]
    BY <1>3, <2>1, <2>2
  <2>4. ASSUME NEW s \in undo[i] PROVE s \notin cells.cell[i].seq
    <3>1. PICK m \in DOMAIN ub : ub[m].ids[1] = s /\ cells.cell[i].pos >= ub[m].pos
      BY <2>1, <2>3, <2>4
    <3>2. m \in 1 .. Len(ub) /\ s \in IdsOf(ub[m].ids) /\ ub[m].pos \in Int
      BY <1>5, <3>1
    <3>3. s \in cells.cell[i].seq => cells.cell[i].pos < ub[m].pos
      <4>1. \A q \in 1 .. Len(ubs[1]) : \A z \in IdsOf(ubs[1][q].ids) :
               z \in cells.cell[i].seq => cells.cell[i].pos < ubs[1][q].pos
        BY <1>4 DEF Ahead
      <4> QED BY <3>2, <4>1 DEF ub
    <3>4. cells.cell[i].pos \in Int
      <4>1. cells.cell[i] \in CellState
        BY <1>2, <2>1 DEF Well, KVCellsType
      <4> QED BY <4>1, CellsAssumption DEF CellState, Pos, None
    <3> QED BY <3>1, <3>2, <3>3, <3>4
  <2> HIDE DEF undo
  <2>5. cells.cell[i].seq \ undo[i] = cells.cell[i].seq
    BY <2>4
  <2>6. i \in Live(c)
    BY <2>1, <2>3 DEF Live, IsEmpty
  <2>7. i \notin Emptied(c, undo)
    BY <1>2, <2>3, <2>5 DEF Emptied, AllOwned
  <2> QED BY <2>2, <2>3, <2>5, <2>6, <2>7
<1> HIDE DEF undo
<1>8. /\ \A i \in Cell : IsEmpty(cells', i) <=> IsEmpty(c, i) \/ i \in Emptied(c, undo)
      /\ \A i \in Live(cells') : /\ cells'.cell[i].pos = c.cell[i].pos
                                 /\ cells'.cell[i].seq = c.cell[i].seq \ undo[i]
  <2>1. /\ \A i \in Cell : IsEmpty(SeqRm(c, undo), i) <=> IsEmpty(c, i) \/ i \in Emptied(c, undo)
        /\ \A i \in Live(SeqRm(c, undo)) :
             /\ SeqRm(c, undo).cell[i].pos = c.cell[i].pos
             /\ SeqRm(c, undo).cell[i].seq = c.cell[i].seq \ undo[i]
    BY <1>3, SeqRmWell, SeqRmSame
  <2> QED BY <1>1, <2>1
<1>9. Live(cells') = Live(cells)
  <2>1. ASSUME NEW i \in Cell PROVE i \in Live(cells') <=> i \in Live(cells)
    <3>1. CASE i \in Targets(idxs)
      BY <1>3, <1>6, <1>8, <3>1 DEF Live, IsEmpty, Vacant
    <3>2. CASE i \notin Targets(idxs)
      BY <1>3, <1>7, <1>8, <3>2 DEF Live, IsEmpty
    <3> QED BY <3>1, <3>2
  <2> QED BY <2>1 DEF Live
<1>10. ASSUME NEW i \in Live(cells)
       PROVE  /\ kdata'[i] = kdata[i]
              /\ cells'.cell[i].pos = cells.cell[i].pos
              /\ cells'.cell[i].seq = cells.cell[i].seq
  <2>1. i \in Live(cells') /\ i \in Cell /\ ~IsEmpty(cells', i)
    BY <1>9 DEF Live
  <2>2. kdata'[i] = kdata[i]
    BY <1>1, <1>7, <2>1 DEF Scrub
  <2> QED BY <1>7, <1>8, <2>1, <2>2
<1> QED BY <1>9, <1>10

(* So the entries are as they were. *)
LEMMA FailUbatchAs ==
  ASSUME AInv, FailUbatch
  PROVE  Entries' = Entries
<1>1. ~Trying /\ ~Trying'
  BY DEF FailUbatch, EndDecode, Trying
<1>2. \A i \in Live(cells) : EntryOf(i)' = EntryOf(i)
  BY FailUbatchDoes DEF EntryOf
<1> QED BY <1>1, <1>2, FailUbatchDoes, IdleEntries

(***************************************************************************)
(* "remove all positions of that ubatch from the memory module": a ubatch  *)
(* that could not be computed leaves the entries as it found them, as long *)
(* as a token that may fail is in one sequence.                            *)
(***************************************************************************)
THEOREM FailureLeavesNoTrace ==
  ASSUME CpRepeats = FALSE, SwaType = "none", SingleTokens
  PROVE  Spec => AbortLeavesNoTrace
<1>1. CASE ComputeFails = TRUE
  <2>1. ForksOnly
    <3> SUFFICES ASSUME NEW b \in Batches, NEW j \in DOMAIN b, NEW k \in DOMAIN b
                 PROVE  IdsOf(b[j]) \cap IdsOf(b[k]) # {} => IdsOf(b[k]) \subseteq IdsOf(b[j])
      BY DEF ForksOnly
    <3>1. b \in Seq(Seq(Seqs) \ {<<>>})
      BY CacheAssumption
    <3>2. /\ b[j] \in Seq(Seqs) /\ Len(b[j]) = 1
          /\ b[k] \in Seq(Seqs) /\ Len(b[k]) = 1
      BY <1>1, <3>1 DEF SingleTokens
    <3>3. IdsOf(b[j]) = {b[j][1]} /\ IdsOf(b[k]) = {b[k][1]}
      BY <3>2 DEF IdsOf
    <3> QED BY <3>3
  <2>2. AInv => [FailUbatch => Entries' = Entries]_vars
    BY FailUbatchAs
  <2>3. AInv /\ [Next]_vars => AInv'
    BY <2>1, NextAhead
  <2> QED BY InitAhead, <2>2, <2>3, PTL DEF Spec, AbortLeavesNoTrace
<1>2. CASE ComputeFails # TRUE
  <2>1. [Next]_vars => [FailUbatch => Entries' = Entries]_vars
    BY <1>2, CacheAssumption DEF FailUbatch
  <2> QED BY <2>1, PTL DEF Spec, AbortLeavesNoTrace
<1> QED BY <1>1, <1>2

-----------------------------------------------------------------------------
(* No two cells that count store the same token. *)
DistinctToks(c) == \A i, m \in Live(c) : i # m => kdata[i].tok # kdata[m].tok

TokInv == KdataType /\ DistinctToks(Stable)

(* Tokens stay distinct when cells are freed. *)
LEMMA FewerToks ==
  ASSUME DistinctToks(cells), ~Trying',
         \A i \in Live(cells') : i \in Live(cells) /\ kdata'[i].tok = kdata[i].tok
  PROVE  DistinctToks(Stable)'
<1>1. Stable' = cells'
  BY DEF Stable
<1> QED BY <1>1 DEF DistinctToks

(* Sequences leave cells. *)
LEMMA LeaveToks ==
  ASSUME Well(cells), KdataType, DistinctToks(cells), ~Trying', NEW drop, Leave(drop)
  PROVE  TokInv'
<1>1. cells' = SeqRm(cells, drop) /\ kdata' = Scrub(cells', kdata)
  BY DEF Leave
<1>2. KdataType' /\ \A i \in Live(cells') : kdata'[i] = kdata[i]
  BY <1>1, ScrubType DEF KdataType
<1>3. \A i \in Live(cells') : i \in Live(cells)
  BY <1>1, SeqRmSame
<1> QED BY <1>2, <1>3, FewerToks DEF TokInv

(* The K-shift rotates keys and mixes none up. *)
LEMMA UpdateToks ==
  ASSUME Well(cells), KdataType, ShiftFails = FALSE, Update
  PROVE  KdataType' /\ \A i \in Cell : kdata'[i].tok = kdata[i].tok
<1>1. CASE kdata' = kdata
  BY <1>1 DEF KdataType
<1>2. CASE kdata' = KShift(cells, kdata)
  <2>1. ASSUME NEW i \in Cell
        PROVE  /\ kdata'[i] \in [tok : Tok \cup {NoTok}, rot : Int]
               /\ kdata'[i].tok = kdata[i].tok
    <3>1. cells.cell[i] \in CellState /\ kdata[i] \in [tok : Tok \cup {NoTok}, rot : Int]
      BY DEF Well, KVCellsType, KdataType
    <3>2. cells.cell[i].shift \in Int /\ kdata[i].rot \in Int
      BY <3>1 DEF CellState
    <3>3. kdata'[i] = kdata[i] \/ kdata'[i] = [kdata[i] EXCEPT !.rot = @ + cells.cell[i].shift]
      BY <1>2 DEF KShift
    <3>4. kdata[i].rot + cells.cell[i].shift \in Int
      BY <3>2
    <3> QED BY <3>1, <3>3, <3>4
  <2>2. KdataType'
    BY <1>2, <2>1 DEF KdataType, KShift
  <2> QED BY <2>1, <2>2
<1> QED BY <1>1, <1>2 DEF Update

(* A step that counts on the cells Update leaves keeps tokens and entries. *)
LEMMA UpdateEntries ==
  ASSUME Well(cells), KdataType, DistinctToks(cells), ShiftFails = FALSE,
         Stable = cells, Update, Stable' = cells'
  PROVE  TokInv' /\ Entries' = Entries
<1>1. /\ Live(cells') = Live(cells)
      /\ \A i \in Cell : /\ cells'.cell[i].pos = cells.cell[i].pos
                         /\ cells'.cell[i].seq = cells.cell[i].seq
                         /\ kdata'[i].tok = kdata[i].tok
      /\ KdataType'
  BY UpdateSame, UpdateToks
<1>2. \A i \in Live(cells) : i \in Cell
  BY DEF Live
<1>3. DistinctToks(Stable)'
  BY <1>1, <1>2 DEF DistinctToks
<1>4. /\ Entries  = {EntryOf(i) : i \in Live(cells)}
      /\ Entries' = {EntryOf(i)' : i \in Live(cells')}
  BY DEF Entries, EntryOf
<1>5. \A i \in Live(cells) : EntryOf(i)' = EntryOf(i)
  BY <1>1, <1>2 DEF EntryOf
<1> QED BY <1>1, <1>3, <1>4, <1>5 DEF TokInv

(* A step of the trial, or none, touches neither the cells that count nor  *)
(* the tokens they store.                                                  *)
LEMMA SameEntries ==
  ASSUME TokInv, Stable' = Stable, KdataType',
         \A i \in Live(Stable) : kdata'[i] = kdata[i]
  PROVE  TokInv' /\ Entries' = Entries
<1>1. DistinctToks(Stable)'
  BY DEF TokInv, DistinctToks
<1> QED BY <1>1 DEF TokInv, Entries

(* The trial, from its first step to its last. *)
LEMMA TrialEntries ==
  ASSUME ShiftFails = FALSE, TInv, TokInv,
         \/ \E b \in Batches : DecodeBegin(b)
         \/ PlaceUbatch \/ PlacedAll \/ OutOfCells \/ RestoreOne
         \/ Prepared \/ RetryPrepare \/ GiveUp
  PROVE  TokInv' /\ Entries' = Entries
<1>1. Well(cells) /\ KdataType /\ DistinctToks(Stable)
  BY DEF TInv, IInv, TokInv
<1>2. ASSUME NEW b \in Batches, DecodeBegin(b) PROVE TokInv' /\ Entries' = Entries
  <2>1. Update /\ Stable = cells /\ Stable' = cells'
    BY <1>2 DEF DecodeBegin, Stable, Trying
  <2> QED BY <1>1, <2>1, UpdateEntries
<1>3. ASSUME PlaceUbatch \/ PlacedAll \/ OutOfCells \/ RestoreOne
      PROVE  TokInv' /\ Entries' = Entries
  <2>1. Stable' = Stable /\ kdata' = kdata
    BY <1>3 DEF PlaceUbatch, PlacedAll, OutOfCells, RestoreOne, Stable, Trying
  <2> QED BY <1>1, <2>1, SameEntries DEF KdataType
<1>4. ASSUME Prepared \/ RetryPrepare \/ GiveUp PROVE Trying /\ stack = <<>> /\ Stable = cells
  <2>1. Trying /\ stack = <<>>
    BY <1>4 DEF Prepared, RetryPrepare, GiveUp, Trying
  <2> QED BY <2>1, BackAgain DEF Stable
<1>5. ASSUME Prepared PROVE TokInv' /\ Entries' = Entries
  <2>1. Stable' = Stable /\ kdata' = kdata
    BY <1>4, <1>5 DEF Prepared, Stable, Trying
  <2> QED BY <1>1, <2>1, SameEntries DEF KdataType
<1>6. ASSUME RetryPrepare PROVE TokInv' /\ Entries' = Entries
  <2>1. Update /\ Stable = cells /\ Stable' = cells'
    BY <1>4, <1>6 DEF RetryPrepare, Stable, Trying
  <2> QED BY <1>1, <2>1, UpdateEntries
<1>7. ASSUME GiveUp PROVE TokInv' /\ Entries' = Entries
  <2>1. Stable' = Stable /\ Stable = cells /\ kdata' = Scrub(cells, kdata)
    BY <1>4, <1>7 DEF GiveUp, EndDecode, Stable, Trying
  <2>2. KdataType' /\ \A i \in Live(cells) : kdata'[i] = kdata[i]
    BY <1>1, <2>1, ScrubType DEF KdataType
  <2> QED BY <2>1, <2>2, SameEntries
<1> QED BY <1>2, <1>3, <1>5, <1>6, <1>7

-----------------------------------------------------------------------------
(* The tokens of a ubatch go to free cells, and no cell stores one of them *)
(* yet.                                                                    *)
LEMMA ProcessUbatchDoes ==
  ASSUME AInv, TokInv, ProcessUbatch
  PROVE  \E I \in SUBSET Cell :
           /\ ~Trying /\ ~Trying' /\ KdataType'
           /\ \A i \in Live(cells) : /\ i \notin I /\ i \in Live(cells')
                                     /\ kdata'[i] = kdata[i]
                                     /\ cells'.cell[i].pos = cells.cell[i].pos
                                     /\ cells'.cell[i].seq = cells.cell[i].seq
           /\ \A i \in Live(cells') : i \in Live(cells) \/ i \in I
           /\ \A i \in I : /\ \A m \in Live(cells) : kdata'[i].tok # kdata[m].tok
                           /\ \A m \in I : i # m => kdata'[i].tok # kdata'[m].tok
                           /\ cells'.cell[i].pos \in Pos
                           /\ \A m \in Live(cells) :
                                cells'.cell[i].seq \cap cells.cell[m].seq # {} =>
                                    cells.cell[m].pos < cells'.cell[i].pos
<1> DEFINE ub == ubs[1]
           idxs == slots[1]
           I  == Targets(idxs)
           c  == ApplyUbatch(cells, ub, idxs)
           new(i) == NewToks(I)[i]
           kd == [i \in Cell |-> IF i \notin I THEN kdata[i]
                                 ELSE [tok |-> new(i), rot |-> ub[SlotOf(idxs, i)].pos]]
<1>1. pc = "process" /\ cells' = c /\ kdata' = Scrub(c, kd) /\ ~Trying /\ ~Trying'
  BY DEF ProcessUbatch, EndDecode, Trying
<1>2. TInv /\ KdataType /\ DistinctToks(cells)
  BY <1>1 DEF AInv, TokInv, Stable
<1>3. /\ ub \in Seq(Token) /\ Well(c)
      /\ \A i \in Cell \ I : c.cell[i] = cells.cell[i]
      /\ \A i \in I : /\ i \in Cell /\ cells.cell[i] = Vacant
                      /\ SlotOf(idxs, i) \in 1 .. Len(ub)
                      /\ ub[SlotOf(idxs, i)] \in Token
                      /\ c.cell[i].pos = ub[SlotOf(idxs, i)].pos
                      /\ c.cell[i].seq = IdsOf(ub[SlotOf(idxs, i)].ids)
  BY <1>1, <1>2, AppliedAt
<1>4. \A k \in 1 .. Len(ub) : \A s \in IdsOf(ub[k].ids) : \A m \in Live(cells) :
          s \in cells.cell[m].seq => cells.cell[m].pos < ub[k].pos
  <2>1. 1 \in 1 .. Len(ubs)
    BY <1>1, <1>2, ProcessType DEF TInv
  <2>2. Ahead(ubs, cells)
    BY <1>1 DEF AInv, AheadInv, Stable
  <2> QED BY <2>1, <2>2 DEF Ahead
<1> HIDE DEF ub, idxs, c
<1>5. I \in SUBSET Cell
  BY <1>3
<1>6. /\ \A i \in I : new(i) \in Fresh
      /\ \A i, m \in I : i # m => new(i) # new(m)
  <2> HIDE DEF I
  <2>1. /\ NewToks(I) \in [I -> Fresh]
        /\ \A i, m \in I : i # m => NewToks(I)[i] # NewToks(I)[m]
    BY <1>2, <1>5, NewToksType
  <2> QED BY <2>1
<1> HIDE DEF I, new
<1>7. \A i \in I : /\ ub[SlotOf(idxs, i)].pos \in Pos
                   /\ ub[SlotOf(idxs, i)].pos \in Int /\ ub[SlotOf(idxs, i)].pos # None
  BY <1>3, CellsAssumption DEF Token, Pos, None
<1>8. kd \in [Cell -> [tok : Tok \cup {NoTok}, rot : Int]]
  <2>1. \A i \in I : [tok |-> new(i), rot |-> ub[SlotOf(idxs, i)].pos]
                       \in [tok : Tok \cup {NoTok}, rot : Int]
    BY <1>6, <1>7 DEF Fresh
  <2> QED BY <1>2, <2>1 DEF KdataType
<1>9. \A i \in Cell : /\ i \notin I => kd[i] = kdata[i]
                      /\ i \in I => kd[i].tok = new(i)
  OBVIOUS
<1> HIDE DEF kd
<1>10. KdataType' /\ \A i \in Live(c) : kdata'[i] = kd[i]
  BY <1>1, <1>8, ScrubType DEF KdataType
<1>11. \A i \in Live(cells) : i \in Cell /\ i \notin I
  BY <1>3 DEF Live, IsEmpty, Vacant
<1>12. \A i \in I : i \in Live(c) /\ i \in Cell
  BY <1>3, <1>7 DEF Live, IsEmpty
<1>13. \A i \in Live(cells) : /\ i \notin I /\ i \in Live(cells')
                              /\ kdata'[i] = kdata[i]
                              /\ cells'.cell[i].pos = cells.cell[i].pos
                              /\ cells'.cell[i].seq = cells.cell[i].seq
  <2>1. \A i \in Live(cells) : c.cell[i] = cells.cell[i] /\ i \in Live(c)
    BY <1>3, <1>11 DEF Live, IsEmpty
  <2> QED BY <1>1, <1>9, <1>10, <1>11, <2>1
<1>14. \A i \in Live(cells') : i \in Live(cells) \/ i \in I
  BY <1>1, <1>3 DEF Live, IsEmpty
<1>15. ASSUME NEW i \in I
       PROVE  /\ \A m \in Live(cells) : kdata'[i].tok # kdata[m].tok
              /\ \A m \in I : i # m => kdata'[i].tok # kdata'[m].tok
              /\ cells'.cell[i].pos \in Pos
              /\ \A m \in Live(cells) :
                   cells'.cell[i].seq \cap cells.cell[m].seq # {} =>
                       cells.cell[m].pos < cells'.cell[i].pos
  <2>1. \A m \in I : kdata'[m].tok = new(m)
    BY <1>9, <1>10, <1>12
  <2>2. \A m \in Cell : new(i) # kdata[m].tok
    BY <1>6 DEF Fresh
  <2>3. ASSUME NEW m \in Live(cells), NEW s \in cells'.cell[i].seq \cap cells.cell[m].seq
        PROVE  cells.cell[m].pos < cells'.cell[i].pos
    <3>1. s \in IdsOf(ub[SlotOf(idxs, i)].ids) /\ SlotOf(idxs, i) \in 1 .. Len(ub)
      BY <1>1, <1>3, <2>3
    <3>2. cells.cell[m].pos < ub[SlotOf(idxs, i)].pos
      BY <1>4, <2>3, <3>1
    <3> QED BY <1>1, <1>3, <3>2
  <2> QED BY <1>1, <1>3, <1>6, <1>7, <1>11, <2>1, <2>2, <2>3
<1> QED BY <1>1, <1>5, <1>10, <1>13, <1>14, <1>15

(* The last position of a sequence is one of an entry of it, or -1.        *)
LEMMA LastPosIs ==
  ASSUME Well(cells), ~Trying, NEW s
  PROVE  \/ Logical!LastPos(s) = -1
         \/ \E i \in Live(cells) : s \in cells.cell[i].seq /\ cells.cell[i].pos = Logical!LastPos(s)
<1> DEFINE L    == {i \in Live(cells) : s \in cells.cell[i].seq}
           P    == {cells.cell[i].pos : i \in L}
           Last(p) == /\ p = -1 \/ \E e \in Entries : s \in e.seqs /\ e.pos = p
                      /\ \A e \in Entries : s \in e.seqs => e.pos <= p
<1>1. Entries = {EntryOf(i) : i \in Live(cells)}
  BY IdleEntries
<1>2. \A i \in Live(cells) : EntryOf(i).pos = cells.cell[i].pos /\ EntryOf(i).seqs = cells.cell[i].seq
  BY DEF EntryOf
<1>3. P \in SUBSET Pos
  <2>1. \A i \in Live(cells) : cells.cell[i] \in CellState /\ cells.cell[i].pos # None
    BY DEF Live, IsEmpty, Well, KVCellsType
  <2> QED BY <2>1 DEF CellState
<1>4. \E p \in Pos \cup {-1} : Last(p)
  <2>1. CASE P = {}
    <3>1. \A e \in Entries : s \notin e.seqs
      BY <1>1, <1>2, <2>1
    <3> QED BY <3>1
  <2>2. CASE P # {}
    <3>1. PICK p \in P : \A q \in P : q <= p
      <4> HIDE DEF P
      <4> QED BY <1>3, <2>2, GreatestPos
    <3>2. PICK i \in L : cells.cell[i].pos = p
      BY <3>1
    <3>3. EntryOf(i) \in Entries /\ s \in EntryOf(i).seqs /\ EntryOf(i).pos = p
      BY <1>1, <1>2, <3>2
    <3>4. \A e \in Entries : s \in e.seqs => e.pos <= p
      BY <1>1, <1>2, <3>1
    <3> QED BY <1>3, <3>1, <3>3, <3>4
  <2> QED BY <2>1, <2>2
<1>5. Logical!LastPos(s) = CHOOSE p \in Pos \cup {-1} : Last(p)
  BY DEF Logical!LastPos
<1>6. Last(Logical!LastPos(s))
  <2> DEFINE x == Logical!LastPos(s)
  <2> HIDE DEF Last, x
  <2>1. x = CHOOSE p \in Pos \cup {-1} : Last(p)
    BY <1>5 DEF x
  <2>2. Last(x)
    BY <1>4, <2>1
  <2> QED BY <2>2 DEF x
<1>7. CASE Logical!LastPos(s) = -1
  BY <1>7
<1>8. CASE \E e \in Entries : s \in e.seqs /\ e.pos = Logical!LastPos(s)
  BY <1>1, <1>2, <1>8
<1> QED BY <1>6, <1>7, <1>8

(* A ubatch appends its tokens and costs no sequence anything. *)
LEMMA ProcessUbatchAs ==
  ASSUME AInv, TokInv, ProcessUbatch
  PROVE  TokInv' /\ Logical!Append
<1>1. PICK I \in SUBSET Cell :
           /\ ~Trying /\ ~Trying' /\ KdataType'
           /\ \A i \in Live(cells) : /\ i \notin I /\ i \in Live(cells')
                                     /\ kdata'[i] = kdata[i]
                                     /\ cells'.cell[i].pos = cells.cell[i].pos
                                     /\ cells'.cell[i].seq = cells.cell[i].seq
           /\ \A i \in Live(cells') : i \in Live(cells) \/ i \in I
           /\ \A i \in I : /\ \A m \in Live(cells) : kdata'[i].tok # kdata[m].tok
                           /\ \A m \in I : i # m => kdata'[i].tok # kdata'[m].tok
                           /\ cells'.cell[i].pos \in Pos
                           /\ \A m \in Live(cells) :
                                cells'.cell[i].seq \cap cells.cell[m].seq # {} =>
                                    cells.cell[m].pos < cells'.cell[i].pos
  BY ProcessUbatchDoes
<1>2. Well(cells) /\ DistinctToks(cells)
  BY <1>1 DEF AInv, TInv, IInv, TokInv, Stable
<1>3. TokInv'
  <2>1. DistinctToks(cells)'
    BY <1>1, <1>2 DEF DistinctToks
  <2>2. Stable' = cells'
    BY <1>1 DEF Stable
  <2> QED BY <1>1, <2>1, <2>2 DEF TokInv, DistinctToks
<1>4. /\ Entries  = {EntryOf(i) : i \in Live(cells)}
      /\ Entries' = {EntryOf(i)' : i \in Live(cells')}
  BY <1>1, IdleEntries
<1>5. \A i \in Live(cells) : EntryOf(i)' = EntryOf(i) /\ EntryOf(i) \in Entries'
  <2>1. \A i \in Live(cells) : EntryOf(i)' = EntryOf(i)
    BY <1>1 DEF EntryOf
  <2> QED BY <1>1, <1>4, <2>1
<1>6. \A e \in Entries : Logical!Outlives(e, e)
  BY DEF Logical!Outlives, Logical!LostTo
<1>7. ASSUME NEW i \in I PROVE Logical!Follows(EntryOf(i)')
  <2> DEFINE x == EntryOf(i)'
  <2>1. x.tok = kdata'[i].tok /\ x.pos = cells'.cell[i].pos /\ x.seqs = cells'.cell[i].seq
    BY DEF EntryOf
  <2>2. \A m \in Live(cells) : EntryOf(m).tok = kdata[m].tok
    BY DEF EntryOf
  <2> HIDE DEF x
  <2>3. \A e \in Entries : e.tok # x.tok
    BY <1>1, <1>4, <1>7, <2>1, <2>2
  <2>4. ASSUME NEW s \in x.seqs PROVE x.pos > Logical!LastPos(s)
    <3>1. x.pos \in Int /\ x.pos >= 0
      BY <1>1, <1>7, <2>1, CellsAssumption DEF Pos
    <3>2. CASE Logical!LastPos(s) = -1
      BY <3>1, <3>2
    <3>3. CASE \E m \in Live(cells) :
                 s \in cells.cell[m].seq /\ cells.cell[m].pos = Logical!LastPos(s)
      <4>1. PICK m \in Live(cells) :
                 s \in cells.cell[m].seq /\ cells.cell[m].pos = Logical!LastPos(s)
        BY <3>3
      <4>2. cells.cell[m].pos < x.pos
        BY <1>1, <1>7, <2>1, <2>4, <4>1
      <4>3. cells.cell[m].pos \in Int
        <5>1. m \in Cell
          BY DEF Live
        <5>2. cells.cell[m] \in CellState
          BY <1>2, <5>1 DEF Well, KVCellsType
        <5> QED BY <5>2, CellsAssumption DEF CellState, Pos, None
      <4> DEFINE q == Logical!LastPos(s)
      <4>4. cells.cell[m].pos = q
        BY <4>1
      <4> HIDE DEF q
      <4>5. x.pos > q
        BY <3>1, <4>2, <4>3, <4>4
      <4> QED BY <4>5 DEF q
    <3>4. \/ Logical!LastPos(s) = -1
          \/ \E m \in Live(cells) :
               s \in cells.cell[m].seq /\ cells.cell[m].pos = Logical!LastPos(s)
      BY <1>1, <1>2, LastPosIs
    <3> QED BY <3>2, <3>3, <3>4
  <2>5. Logical!Follows(x)
    BY <2>3, <2>4 DEF Logical!Follows
  <2> QED BY <2>5 DEF x
<1>8. \A e \in Entries : \E x \in Entries' : Logical!Outlives(e, x)
  BY <1>4, <1>5, <1>6
<1>9. \A x \in Entries' : Logical!Follows(x) \/ \E e \in Entries : Logical!Outlives(e, x)
  <2> SUFFICES ASSUME NEW i \in Live(cells')
               PROVE  \/ Logical!Follows(EntryOf(i)')
                      \/ \E e \in Entries : Logical!Outlives(e, EntryOf(i)')
    BY <1>4
  <2>1. CASE i \in I
    BY <1>7, <2>1
  <2>2. CASE i \in Live(cells)
    BY <1>4, <1>5, <1>6, <2>2
  <2> QED BY <1>1, <2>1, <2>2
<1> QED BY <1>3, <1>8, <1>9 DEF Logical!Append

(* endurkv_rm_cells takes the sequence from the entries of some cells. *)
LEMMA EvictAs ==
  ASSUME OInv, TokInv, NEW s \in Seqs, NEW keep \in SUBSET Cell,
         EndurkvRmCells(s, keep, NCells)
  PROVE  Logical!Evict(s)
<1> DEFINE D    == {EntryOf(i) : i \in Live(cells) \ keep}
           drop == [i \in Cell |-> IF i < NCells /\ i \notin keep THEN {s} ELSE {}]
<1>1. pc = "idle" /\ pc' = "idle" /\ Leave(drop) /\ "rm_cells" \in Calls
  BY DEF EndurkvRmCells, Call
<1>2. Well(cells) /\ AllOwned(cells) /\ ~Trying /\ ~Trying'
  BY <1>1, CallIdle
<1>3. DistinctToks(cells)
  BY <1>2 DEF TokInv, Stable
<1>4. \A i, m \in Live(cells) : EntryOf(i) = EntryOf(m) => i = m
  <2>1. \A i \in Live(cells) : EntryOf(i).tok = kdata[i].tok
    BY DEF EntryOf
  <2> QED BY <1>3, <2>1 DEF DistinctToks
<1>5. \A i \in Live(cells) : i \in Cell /\ i < NCells
  BY CellsAssumption DEF Live, Cell
<1>6. \A i \in Live(cells) : EntryOf(i) \in D <=> i \notin keep
  BY <1>4
<1>7. \A i \in Live(cells) : drop[i] = IF i \in keep THEN {} ELSE {s}
  BY <1>5
<1>8. D \in SUBSET Entries
  BY <1>2, IdleEntries
<1> HIDE DEF D, drop
<1>9. Entries' = Logical!Without(Entries, D, {s})
  <2>1. \A i \in Live(cells) :
            cells.cell[i].seq \ drop[i] = IF EntryOf(i) \in D THEN cells.cell[i].seq \ {s}
                                          ELSE cells.cell[i].seq
    BY <1>6, <1>7
  <2> QED BY <1>1, <1>2, <2>1, LeaveAs
<1> QED BY <1>1, <1>8, <1>9 DEF Logical!Evict

(* A ubatch that fails leaves the tokens of the other cells. *)
LEMMA FailUbatchToks ==
  ASSUME AInv, TokInv, FailUbatch
  PROVE  TokInv'
<1>1. ~Trying /\ ~Trying'
  BY DEF FailUbatch, EndDecode, Trying
<1>2. KdataType /\ DistinctToks(cells)
  BY <1>1 DEF TokInv, Stable
<1>3. KdataType'
  <2>1. NoData \in [tok : Tok \cup {NoTok}, rot : Int]
    BY DEF NoData
  <2>2. [i \in Cell |-> IF i \in Targets(slots[1]) THEN NoData ELSE kdata[i]]
            \in [Cell -> [tok : Tok \cup {NoTok}, rot : Int]]
    BY <1>2, <2>1 DEF KdataType
  <2> QED BY <2>2, ScrubType DEF FailUbatch, KdataType
<1>4. \A i \in Live(cells') : i \in Live(cells) /\ kdata'[i].tok = kdata[i].tok
  BY FailUbatchDoes
<1> QED BY <1>1, <1>2, <1>3, <1>4, FewerToks DEF TokInv

(* Compaction moves each key once. *)
LEMMA CompactToks ==
  ASSUME Well(cells), KdataType, DistinctToks(cells), ~Trying', NEW s \in Seqs,
         EndurkvCompactSeq(s)
  PROVE  TokInv'
<1>1. PICK src \in Seq(Cell) :
         /\ Len(src) <= NCells
         /\ Live(cells) = {src[k] : k \in 1 .. Len(src)}
         /\ \A k, m \in 1 .. Len(src) : src[k] = src[m] => k = m
         /\ \/ cells' = cells /\ kdata' = kdata
            \/ /\ cells' = Gather(cells, src)
               /\ kdata' = Scrub(cells', [i \in Cell |->
                             IF i < Len(src) THEN kdata[src[i + 1]] ELSE kdata[i]])
  BY CompactDoes
<1>2. CASE cells' = cells /\ kdata' = kdata
  BY <1>2, FewerToks DEF TokInv, KdataType
<1>3. CASE /\ cells' = Gather(cells, src)
           /\ kdata' = Scrub(cells', [i \in Cell |->
                         IF i < Len(src) THEN kdata[src[i + 1]] ELSE kdata[i]])
  <2> DEFINE n  == Len(src)
             kd == [i \in Cell |-> IF i < n THEN kdata[src[i + 1]] ELSE kdata[i]]
  <2>1. Live(cells') = 0 .. n - 1
    BY <1>1, <1>3, GatherPlaces
  <2>2. n \in Nat /\ \A k \in 1 .. n : src[k] \in Cell /\ src[k] \in Live(cells)
    BY <1>1
  <2>3. \A i \in Cell : i \in Int /\ i >= 0
    BY CellsAssumption DEF Cell
  <2> HIDE DEF n
  <2>4. \A i \in Cell : i < n => i + 1 \in 1 .. n
    BY <2>2, <2>3
  <2>5. kd \in [Cell -> [tok : Tok \cup {NoTok}, rot : Int]]
    BY <2>2, <2>4 DEF KdataType
  <2>6. kdata' = Scrub(cells', kd)
    BY <1>3 DEF n
  <2>7. \A i \in Live(cells') : i \in Cell /\ i < n /\ i \in Int
    BY <2>1, <2>2, <2>3 DEF Live
  <2>8. \A i \in Live(cells') : kd[i] = kdata[src[i + 1]]
    BY <2>7
  <2> HIDE DEF kd
  <2>9. KdataType' /\ \A i \in Live(cells') : kdata'[i] = kdata[src[i + 1]]
    BY <2>5, <2>6, <2>8, ScrubType DEF KdataType
  <2>10. ASSUME NEW i \in Live(cells'), NEW m \in Live(cells'), i # m
         PROVE  kdata'[i].tok # kdata'[m].tok
    <3>1. i + 1 \in 1 .. n /\ m + 1 \in 1 .. n /\ i + 1 # m + 1
      BY <2>4, <2>7, <2>10
    <3>2. src[i + 1] \in Live(cells) /\ src[m + 1] \in Live(cells) /\ src[i + 1] # src[m + 1]
      BY <1>1, <2>2, <3>1 DEF n
    <3> QED BY <2>9, <3>2 DEF DistinctToks
  <2>11. Stable' = cells'
    BY DEF Stable
  <2> QED BY <2>9, <2>10, <2>11 DEF TokInv, DistinctToks
<1> QED BY <1>1, <1>2, <1>3

(* A range is copied, moved or divided where it is. *)
LEMMA RangeToks ==
  ASSUME Well(cells), KdataType, DistinctToks(cells), ~Trying',
         NEW s \in Seqs, NEW r \in Ranges,
         \/ \E t \in Seqs : SeqCopy(s, t, r)
         \/ \E d \in Deltas : SeqShift(s, r, d)
         \/ \E d \in Divisors : SeqDivide(s, r, d)
  PROVE  TokInv'
<1> DEFINE I == Having(s, r)
<1>1. I \in SUBSET Live(cells)
  BY HavingLive
<1>2. KdataType' /\ \A i \in Live(cells') : kdata'[i] = kdata[i]
  <2>1. kdata' = kdata \/ kdata' = Scrub(cells', kdata)
    BY DEF SeqCopy, SeqShift, SeqDivide
  <2> QED BY <2>1, ScrubType DEF KdataType
<1>3. ASSUME NEW i \in Cell, i \notin I PROVE cells'.cell[i] = cells.cell[i]
  <2> HIDE DEF I
  <2>1. ASSUME NEW t \in Seqs, SeqCopy(s, t, r) PROVE cells'.cell[i] = cells.cell[i]
    BY <1>3, <2>1 DEF SeqCopy, SeqAdd, I
  <2>2. ASSUME NEW d \in Deltas, SeqShift(s, r, d) PROVE cells'.cell[i] = cells.cell[i]
    BY <1>3, <2>2 DEF SeqShift, PosAdd, I
  <2>3. ASSUME NEW d \in Divisors, SeqDivide(s, r, d) PROVE cells'.cell[i] = cells.cell[i]
    BY <1>3, <2>3 DEF SeqDivide, PosDiv, I
  <2> QED BY <2>1, <2>2, <2>3
<1>4. \A i \in Live(cells') : i \in Live(cells)
  BY <1>1, <1>3 DEF Live, IsEmpty
<1> QED BY <1>2, <1>4, FewerToks DEF TokInv

(* Between two decodes each operation is the one it stands for. *)
LEMMA CallAs ==
  ASSUME OInv, TokInv, pc = "idle", pc' = "idle",
         \/ Clear
         \/ \E r \in Ranges :
              \/ SeqRemoveAny(r)
              \/ \E s \in Seqs :
                   \/ SeqRemove(s, r)
                   \/ \E t \in Seqs : SeqCopy(s, t, r)
                   \/ \E d \in Deltas : SeqShift(s, r, d)
                   \/ \E d \in Divisors : SeqDivide(s, r, d)
         \/ \E s \in Seqs :
              \/ SeqKeep(s)
              \/ \E keep \in SUBSET Cell : EndurkvRmCells(s, keep, NCells)
              \/ EndurkvCompactSeq(s)
  PROVE  TokInv' /\ (Logical!Next \/ Entries' = Entries)
<1> DEFINE B == {Lo(r) : r \in Ranges} \cup {Hi(r) : r \in Ranges}
<1>1. /\ OInv /\ TokInv /\ Well(cells) /\ KdataType /\ DistinctToks(cells) /\ ~Trying /\ ~Trying'
  BY DEF OInv, IInv, TokInv, Stable, Trying
<1>2. \A r \in Ranges : Lo(r) \in B /\ Hi(r) \in B
  OBVIOUS
<1>3. Logical!Next <=>
        \/ Logical!Clear
        \/ Logical!Append
        \/ \E s \in Seqs : Logical!SeqKeep(s) \/ Logical!Evict(s)
        \/ \E p0, p1 \in B :
             \/ Logical!SeqRmAny(p0, p1)
             \/ \E s \in Seqs :
                  \/ Logical!SeqRm(s, p0, p1)
                  \/ \E t \in Seqs \ {s} : Logical!SeqCp(s, t, p0, p1)
                  \/ \E d \in Deltas : Logical!SeqAdd(s, p0, p1, d)
                  \/ \E d \in Divisors : Logical!SeqDiv(s, p0, p1, d)
  BY DEF Logical!Next
<1> HIDE DEF B
<1>4. ASSUME Clear PROVE TokInv' /\ Logical!Next
  <2>1. Logical!Clear
    BY <1>4, ClearAs
  <2>2. cells' = Reset /\ kdata' = [i \in Cell |-> NoData]
    BY <1>4 DEF Clear
  <2>3. Live(cells') = {}
    BY <2>2, ResetWell DEF Live, IsEmpty, Vacant
  <2>4. KdataType'
    <3>1. NoData \in [tok : Tok \cup {NoTok}, rot : Int]
      BY DEF NoData
    <3> QED BY <2>2, <3>1 DEF KdataType
  <2>5. TokInv'
    BY <1>1, <2>3, <2>4, FewerToks DEF TokInv
  <2> QED BY <1>3, <2>1, <2>5
<1>5. ASSUME NEW r \in Ranges, SeqRemoveAny(r) PROVE TokInv' /\ Logical!Next
  <2>1. Logical!SeqRmAny(Lo(r), Hi(r))
    BY <1>1, <1>5, SeqRemoveAnyAs
  <2>2. TokInv'
    BY <1>1, <1>5, LeaveToks DEF SeqRemoveAny
  <2> QED BY <1>2, <1>3, <2>1, <2>2
<1>6. ASSUME NEW r \in Ranges, NEW s \in Seqs, SeqRemove(s, r) PROVE TokInv' /\ Logical!Next
  <2>1. Logical!SeqRm(s, Lo(r), Hi(r))
    BY <1>1, <1>6, SeqRemoveAs
  <2>2. TokInv'
    BY <1>1, <1>6, LeaveToks DEF SeqRemove
  <2> QED BY <1>2, <1>3, <2>1, <2>2
<1>7. ASSUME NEW r \in Ranges, NEW s \in Seqs, NEW t \in Seqs, SeqCopy(s, t, r)
      PROVE  TokInv' /\ Logical!Next
  <2>1. Logical!SeqCp(s, t, Lo(r), Hi(r)) /\ t \in Seqs \ {s}
    BY <1>1, <1>7, SeqCopyAs DEF SeqCopy
  <2>2. TokInv'
    BY <1>1, <1>7, RangeToks
  <2> QED BY <1>2, <1>3, <2>1, <2>2
<1>8. ASSUME NEW r \in Ranges, NEW s \in Seqs, NEW d \in Deltas, SeqShift(s, r, d)
      PROVE  TokInv' /\ Logical!Next
  <2>1. Logical!SeqAdd(s, Lo(r), Hi(r), d)
    BY <1>1, <1>8, SeqShiftAs
  <2>2. TokInv'
    BY <1>1, <1>8, RangeToks
  <2> QED BY <1>2, <1>3, <2>1, <2>2
<1>9. ASSUME NEW r \in Ranges, NEW s \in Seqs, NEW d \in Divisors, SeqDivide(s, r, d)
      PROVE  TokInv' /\ Logical!Next
  <2>1. Logical!SeqDiv(s, Lo(r), Hi(r), d)
    BY <1>1, <1>9, SeqDivideAs
  <2>2. TokInv'
    BY <1>1, <1>9, RangeToks
  <2> QED BY <1>2, <1>3, <2>1, <2>2
<1>10. ASSUME NEW s \in Seqs, SeqKeep(s) PROVE TokInv' /\ Logical!Next
  <2>1. Logical!SeqKeep(s)
    BY <1>1, <1>10, SeqKeepAs
  <2>2. TokInv'
    BY <1>1, <1>10, LeaveToks DEF SeqKeep
  <2> QED BY <1>3, <2>1, <2>2
<1>11. ASSUME NEW s \in Seqs, NEW keep \in SUBSET Cell, EndurkvRmCells(s, keep, NCells)
       PROVE  TokInv' /\ Logical!Next
  <2>1. Logical!Evict(s)
    BY <1>1, <1>11, EvictAs
  <2>2. TokInv'
    BY <1>1, <1>11, LeaveToks DEF EndurkvRmCells
  <2> QED BY <1>3, <2>1, <2>2
<1>12. ASSUME NEW s \in Seqs, EndurkvCompactSeq(s) PROVE TokInv' /\ Entries' = Entries
  BY <1>1, <1>12, CompactAs, CompactToks
<1> QED BY <1>4, <1>5, <1>6, <1>7, <1>8, <1>9, <1>10, <1>11, <1>12

RInv == AInv /\ TokInv

(* Every step is a step of the abstract cache, or none. *)
LEMMA StepAs ==
  ASSUME ShiftFails = FALSE, RInv, [Next]_vars
  PROVE  TokInv' /\ (Logical!Next \/ Entries' = Entries)
<1>1. AInv /\ TokInv /\ TInv
  BY DEF RInv, AInv
<1>2. ASSUME \/ \E b \in Batches : DecodeBegin(b)
             \/ PlaceUbatch \/ PlacedAll \/ OutOfCells \/ RestoreOne
             \/ Prepared \/ RetryPrepare \/ GiveUp
      PROVE  TokInv' /\ Entries' = Entries
  BY <1>1, <1>2, TrialEntries
<1>3. ASSUME ProcessUbatch PROVE TokInv' /\ Logical!Next
  BY <1>1, <1>3, ProcessUbatchAs DEF Logical!Next
<1>4. ASSUME FailUbatch PROVE TokInv' /\ Entries' = Entries
  BY <1>1, <1>4, FailUbatchAs, FailUbatchToks
<1>5. ASSUME UNCHANGED vars PROVE TokInv' /\ Entries' = Entries
  <2>1. UNCHANGED <<cells, kdata, pc, entry>>
    BY <1>5 DEF vars, decoding
  <2>2. Stable' = Stable
    BY <2>1 DEF Stable, Trying
  <2> QED BY <1>1, <2>1, <2>2, SameEntries DEF TokInv, KdataType
<1>6. ASSUME \/ Clear
             \/ \E r \in Ranges :
                  \/ SeqRemoveAny(r)
                  \/ \E s \in Seqs :
                       \/ SeqRemove(s, r)
                       \/ \E t \in Seqs : SeqCopy(s, t, r)
                       \/ \E d \in Deltas : SeqShift(s, r, d)
                       \/ \E d \in Divisors : SeqDivide(s, r, d)
             \/ \E s \in Seqs :
                  \/ SeqKeep(s)
                  \/ \E keep \in SUBSET Cell : EndurkvRmCells(s, keep, NCells)
                  \/ EndurkvCompactSeq(s)
      PROVE  TokInv' /\ (Logical!Next \/ Entries' = Entries)
  <2>1. pc = "idle" /\ pc' = "idle"
    BY <1>6 DEF Clear, SeqRemoveAny, SeqRemove, SeqCopy, SeqShift, SeqDivide, SeqKeep,
                EndurkvRmCells, EndurkvCompactSeq, Call
  <2>2. OInv
    BY <1>1 DEF AInv, TInv, OInv
  <2> QED BY <1>1, <1>6, <2>1, <2>2, CallAs
<1>7. DecodeStep => TokInv' /\ (Logical!Next \/ Entries' = Entries)
  BY <1>2, <1>3, <1>4 DEF DecodeStep
<1> QED BY <1>2, <1>5, <1>6, <1>7 DEF Next

-----------------------------------------------------------------------------
(***************************************************************************)
(* Positions without gaps.  Excused is what may be missing of what the     *)
(* query at p is to find: with a client that removes whole sequences, or   *)
(* their end from position 1 on, or, without a window, any end, only what  *)
(* is out of the query's window; else all that lies below the rest.        *)
(***************************************************************************)
WholeEnds == \A r \in Ranges : r[2] < 0 /\ (Lo(r) <= 1 \/ SwaType = "none")

Excused(q, p) == WholeEnds => IsMaskedSwa(q, p)

Covers(S, p) ==
    \A q \in 0 .. p - 1 : q \in S \/ (Excused(q, p) /\ \A r \in S : q < r)

Gapless(S) == \A m \in S : (\A r \in S : r <= m) => Covers(S, m + 1)

(* A window only moves forward: what it has left behind stays behind.      *)
LEMMA WindowForward ==
  ASSUME NEW q \in Nat, NEW p \in Nat, NEW q2 \in Nat, NEW p2 \in Nat,
         q2 <= q, q <= p, p <= p2, IsMaskedSwa(q, p)
  PROVE  IsMaskedSwa(q2, p2)
<1>1. NSwa \in Nat /\ SwaType \in {"none", "standard", "chunked", "symmetric"}
      /\ (SwaType \in {"chunked", "symmetric"} => NSwa > 0)
  BY MaskAssumption
<1>2. CASE SwaType = "none"
  BY <1>2 DEF IsMaskedSwa
<1>3. CASE SwaType = "standard"
  <2>1. p - q >= NSwa
    BY <1>3 DEF IsMaskedSwa
  <2>2. p2 - q2 >= NSwa
    BY <1>1, <2>1
  <2> QED BY <1>3, <2>2 DEF IsMaskedSwa
<1>4. CASE SwaType = "chunked"
  <2>1. q < (p \div NSwa) * NSwa /\ NSwa > 0
    BY <1>1, <1>4 DEF IsMaskedSwa
  <2> DEFINE a == p \div NSwa
             b == p2 \div NSwa
  <2>2. a \in Nat /\ b \in Nat /\ a <= b
    BY <1>1, <2>1
  <2>3. q < a * NSwa
    BY <2>1
  <2> HIDE DEF a, b
  <2>4. a * NSwa <= b * NSwa /\ a * NSwa \in Int /\ b * NSwa \in Int
    BY <1>1, <2>2
  <2>5. q2 < b * NSwa
    BY <2>3, <2>4
  <2> QED BY <1>4, <2>5 DEF IsMaskedSwa, b
<1>5. CASE SwaType = "symmetric"
  <2>1. p - q > NSwa \div 2 \/ q - p > NSwa \div 2
    BY <1>5 DEF IsMaskedSwa
  <2>2. NSwa \div 2 \in Nat
    BY <1>1
  <2>3. p2 - q2 > NSwa \div 2
    BY <2>1, <2>2
  <2> QED BY <1>5, <2>3 DEF IsMaskedSwa
<1> QED BY <1>1, <1>2, <1>3, <1>4, <1>5

(***************************************************************************)
(* A sequence with the positions S, without gaps, gets the positions A, and*)
(* loses what lies at or below those of L, none of which its next token    *)
(* would see; T is what it has then.                                       *)
(***************************************************************************)
Grown(S, A, L, T) ==
    /\ S \in SUBSET Pos /\ A \in SUBSET Pos /\ L \in SUBSET S
    /\ T = A \cup {r \in S : \A l \in L : l < r}
    /\ Gapless(S)
    /\ \A l \in L : \A m \in S : (\A r \in S : r <= m) => IsMaskedSwa(l, m + 1)
    /\ \A r \in S : \A x \in A : r < x
    /\ \A x \in A : \A q \in 0 .. x - 1 : q \in A \/ \E r \in S : q <= r

(* A query behind S, before which A leaves no gap, finds what it is to find. *)
LEMMA CoversGrown ==
  ASSUME NEW S, NEW A, NEW L, NEW T, Grown(S, A, L, T),
         NEW p \in Nat, \A r \in S : r < p,
         \A q \in 0 .. p - 1 : q \in A \/ \E r \in S : q <= r
  PROVE  Covers(T, p)
<1>0. /\ S \in SUBSET Pos /\ A \in SUBSET Pos /\ L \in SUBSET S
      /\ T = A \cup {r \in S : \A l \in L : l < r}
      /\ Gapless(S)
      /\ \A l \in L : \A m \in S : (\A r \in S : r <= m) => IsMaskedSwa(l, m + 1)
      /\ \A r \in S : \A x \in A : r < x
  BY DEF Grown
<1> USE <1>0
<1>1. \A x \in Pos : x \in Nat
  BY CellsAssumption DEF Pos
<1> SUFFICES ASSUME NEW q \in 0 .. p - 1, q \notin T
             PROVE  Excused(q, p) /\ \A r \in T : q < r
  BY DEF Covers
<1>2. PICK r0 \in S : q <= r0
  OBVIOUS
<1>3. PICK m \in S : \A r \in S : r <= m
  BY <1>2, GreatestPos
<1>4. q \in Nat /\ m \in Nat /\ m + 1 <= p /\ q <= m /\ r0 <= m /\ m + 1 \in Nat /\ r0 \in Nat
  BY <1>1, <1>2, <1>3
<1>5. \A x \in A : q < x
  BY <1>1, <1>3, <1>4
<1>6. CASE q \in S
  <2>1. PICK l \in L : ~ (l < q)
    BY <1>6
  <2>2. l \in Nat /\ q <= l /\ l <= m /\ IsMaskedSwa(l, m + 1)
    BY <1>1, <1>3, <1>4, <2>1
  <2>3. IsMaskedSwa(q, p)
    BY <1>4, <2>2, WindowForward
  <2>4. \A r \in S : l < r => q < r
    BY <1>1, <1>4, <2>2
  <2> QED BY <1>5, <2>1, <2>3, <2>4 DEF Excused
<1>7. CASE q \notin S
  <2>1. Covers(S, m + 1) /\ q \in 0 .. (m + 1) - 1
    BY <1>3, <1>4 DEF Gapless
  <2>2. Excused(q, m + 1) /\ \A r \in S : q < r
    BY <1>7, <2>1 DEF Covers
  <2>3. Excused(q, p)
    <3> SUFFICES ASSUME WholeEnds PROVE IsMaskedSwa(q, p)
      BY DEF Excused
    <3>1. IsMaskedSwa(q, m + 1)
      BY <2>2 DEF Excused
    <3> QED BY <1>4, <3>1, WindowForward
  <2> QED BY <1>5, <2>2, <2>3
<1> QED BY <1>6, <1>7

(* The same of what is there when some of the last new positions are not. *)
LEMMA GaplessGrown ==
  ASSUME NEW S, NEW A, NEW L, NEW T, Grown(S, A, L, T),
         NEW U \in SUBSET T, \A r \in S : r \in T => r \in U,
         \A r \in T : \A u \in U : r <= u => r \in U
  PROVE  Gapless(U)
<1>0. /\ S \in SUBSET Pos /\ A \in SUBSET Pos /\ L \in SUBSET S
      /\ T = A \cup {r \in S : \A l \in L : l < r}
      /\ \A r \in S : \A x \in A : r < x
      /\ \A x \in A : \A q \in 0 .. x - 1 : q \in A \/ \E r \in S : q <= r
  BY DEF Grown
<1> USE <1>0
<1>1. \A x \in Pos : x \in Nat
  BY CellsAssumption DEF Pos
<1> SUFFICES ASSUME NEW m \in U, \A r \in U : r <= m
             PROVE  Covers(U, m + 1)
  BY DEF Gapless
<1>2. m \in T /\ m \in Nat /\ m + 1 \in Nat /\ \A x \in T : x \in Nat
  BY <1>1
<1>3. (\A r \in S : r < m + 1) /\ \A q \in 0 .. (m + 1) - 1 : q \in A \/ \E r \in S : q <= r
  <2>1. CASE m \in A
    <3>1. \A r \in S : r < m + 1
      BY <1>1, <1>2, <2>1
    <3>2. ASSUME NEW q \in 0 .. (m + 1) - 1 PROVE q \in A \/ \E r \in S : q <= r
      <4>1. q = m \/ q \in 0 .. m - 1
        BY <1>2
      <4> QED BY <2>1, <4>1
    <3> QED BY <3>1, <3>2
  <2>2. CASE m \notin A
    <3>1. m \in S /\ \A l \in L : l < m
      BY <1>2, <2>2
    <3>2. PICK g \in S : \A r \in S : r <= g
      BY <3>1, GreatestPos
    <3>3. \A l \in L : l < g
      BY <1>1, <1>2, <3>1, <3>2
    <3>4. g \in U
      BY <3>2, <3>3
    <3>5. \A r \in S : r <= m
      BY <1>1, <1>2, <3>2, <3>4
    <3> QED BY <1>1, <1>2, <3>1, <3>5
  <2> QED BY <2>1, <2>2
<1>4. Covers(T, m + 1)
  BY <1>2, <1>3, CoversGrown
<1> SUFFICES ASSUME NEW q \in 0 .. (m + 1) - 1, q \notin U
             PROVE  Excused(q, m + 1) /\ \A r \in U : q < r
  BY DEF Covers
<1>5. q <= m
  BY <1>2
<1>6. q \notin T
  BY <1>5
<1> QED BY <1>4, <1>6 DEF Covers

(* An end is removed from a sequence without gaps. *)
LEMMA GaplessBelow ==
  ASSUME NEW S \in SUBSET Pos, Gapless(S), NEW lo \in Nat,
         WholeEnds => lo <= 1 \/ SwaType = "none"
  PROVE  Gapless({r \in S : r < lo})
<1>1. \A x \in Pos : x \in Nat
  BY CellsAssumption DEF Pos
<1> DEFINE T == {r \in S : r < lo}
<1> SUFFICES ASSUME NEW m \in T, \A r \in T : r <= m
             PROVE  Covers(T, m + 1)
  BY DEF Gapless
<1>2. m \in S /\ m \in Nat /\ m < lo
  BY <1>1
<1>3. PICK g \in S : \A r \in S : r <= g
  BY <1>2, GreatestPos
<1>4. Covers(S, g + 1) /\ g \in Nat /\ m <= g
  BY <1>1, <1>2, <1>3 DEF Gapless
<1> SUFFICES ASSUME NEW q \in 0 .. (m + 1) - 1, q \notin T
             PROVE  Excused(q, m + 1) /\ \A r \in T : q < r
  BY DEF Covers
<1>5. q \in Nat /\ q <= m /\ q \notin S
  BY <1>2
<1>6. Excused(q, g + 1) /\ \A r \in S : q < r
  <2>1. q \in 0 .. (g + 1) - 1
    BY <1>4, <1>5, <1>2
  <2> QED BY <1>4, <1>5, <2>1 DEF Covers
<1>7. ASSUME WholeEnds PROVE FALSE
  <2>1. IsMaskedSwa(q, g + 1)
    BY <1>6, <1>7 DEF Excused
  <2>2. SwaType # "none"
    BY <2>1 DEF IsMaskedSwa
  <2>3. lo <= 1 /\ q < m
    BY <1>2, <1>6, <1>7, <2>2
  <2> QED BY <1>2, <1>5, <2>3
<1> QED BY <1>6, <1>7 DEF Excused

(* The beginning is removed. *)
LEMMA GaplessAbove ==
  ASSUME NEW S \in SUBSET Pos, Gapless(S), NEW hi \in Int, ~WholeEnds
  PROVE  Gapless({r \in S : r >= hi})
<1>1. \A x \in Pos : x \in Nat
  BY CellsAssumption DEF Pos
<1> DEFINE T == {r \in S : r >= hi}
<1> SUFFICES ASSUME NEW m \in T, \A r \in T : r <= m
             PROVE  Covers(T, m + 1)
  BY DEF Gapless
<1>2. m \in S /\ m \in Nat /\ m >= hi
  BY <1>1
<1>3. \A r \in S : r <= m
  BY <1>1, <1>2
<1>4. Covers(S, m + 1)
  BY <1>2, <1>3 DEF Gapless
<1> SUFFICES ASSUME NEW q \in 0 .. (m + 1) - 1, q \notin T
             PROVE  \A r \in T : q < r
  BY DEF Covers, Excused
<1>5. q \in Nat
  OBVIOUS
<1>6. CASE q \in S
  BY <1>1, <1>5, <1>6
<1>7. CASE q \notin S
  BY <1>4, <1>7 DEF Covers
<1> QED BY <1>6, <1>7

-----------------------------------------------------------------------------
(* The positions a sequence has, and that no two cells have the same one.  *)
PosOf(c, s) == {c.cell[i].pos : i \in {m \in Cell : s \in c.cell[m].seq}}

OneEach(c) ==
    \A i, m \in Cell :
        c.cell[i].pos = c.cell[m].pos /\ c.cell[i].seq \cap c.cell[m].seq # {} => i = m

Good(c) == OneEach(c) /\ \A s \in Seqs : Gapless(PosOf(c, s))

(* A cell with a sequence has a position. *)
LEMMA SeenType ==
  ASSUME NEW c, Well(c), NEW i \in Cell, NEW s \in c.cell[i].seq
  PROVE  s \in Seqs /\ c.cell[i].pos \in Pos /\ i \in Live(c)
<1>1. c.cell[i] \in CellState /\ (IsEmpty(c, i) => c.cell[i] = Vacant)
  BY DEF Well, KVCellsType, IndexConsistent
<1>2. ~IsEmpty(c, i)
  BY <1>1 DEF Vacant
<1> QED BY <1>1, <1>2 DEF CellState, IsEmpty, Live

(* Positions are natural numbers below MaxPos. *)
LEMMA PosOfType ==
  ASSUME NEW c, Well(c), NEW s
  PROVE  PosOf(c, s) \in SUBSET Pos
  BY SeenType DEF PosOf

(* The index names the same positions. *)
LEMMA PresentIs ==
  ASSUME NEW c, Well(c), NEW s \in Seqs
  PROVE  PosPresent(c, s) = PosOf(c, s)
<1> DEFINE T(p) == {m \in Live(c) : s \in c.cell[m].seq /\ c.cell[m].pos = p}
<1>1. \A p \in Pos : c.seqPos[s][p] = Cardinality(T(p))
  BY DEF Well, IndexConsistent, Tally
<1>2. ASSUME NEW p \in Pos PROVE Cardinality(T(p)) # 0 <=> \E m \in Cell : s \in c.cell[m].seq /\ c.cell[m].pos = p
  <2>1. T(p) \in SUBSET Cell
    BY LiveType
  <2>2. IsFiniteSet(T(p))
    <3> HIDE DEF T
    <3> QED BY <2>1, CellFinite, FS_Subset
  <2>3. Cardinality(T(p)) = 0 <=> T(p) = {}
    <3> HIDE DEF T
    <3> QED BY <2>2, FS_EmptySet
  <2>4. T(p) # {} <=> \E m \in Cell : s \in c.cell[m].seq /\ c.cell[m].pos = p
    BY SeenType DEF Live
  <2> QED BY <2>3, <2>4
<1> HIDE DEF T
<1>3. \A p : p \in PosOf(c, s) <=> p \in Pos /\ \E m \in Cell : s \in c.cell[m].seq /\ c.cell[m].pos = p
  BY PosOfType DEF PosOf
<1> QED BY <1>1, <1>2, <1>3 DEF PosPresent

(* seq_pos_max is the greatest of them, or -1. *)
LEMMA SeqPosMaxIs ==
  ASSUME NEW c, Well(c), NEW s \in Seqs
  PROVE  /\ PosOf(c, s) = {} => SeqPosMax(c, s) = -1
         /\ PosOf(c, s) # {} => /\ SeqPosMax(c, s) \in PosOf(c, s)
                                /\ \A r \in PosOf(c, s) : r <= SeqPosMax(c, s)
         /\ \A m \in PosOf(c, s) : (\A r \in PosOf(c, s) : r <= m) => m = SeqPosMax(c, s)
<1> DEFINE S == PosOf(c, s)
<1>1. S \in SUBSET Pos /\ PosPresent(c, s) = S
  BY PosOfType, PresentIs
<1>2. \A x \in Pos : x \in Nat
  BY CellsAssumption DEF Pos
<1> HIDE DEF S
<1>3. S = {} => SeqPosMax(c, s) = -1
  BY <1>1 DEF SeqPosMax, None
<1>4. S # {} => SeqPosMax(c, s) \in S /\ \A r \in S : r <= SeqPosMax(c, s)
  <2> SUFFICES ASSUME S # {} PROVE SeqPosMax(c, s) \in S /\ \A r \in S : r <= SeqPosMax(c, s)
    OBVIOUS
  <2>1. SeqPosMax(c, s) = CHOOSE p \in S : \A q \in S : q <= p
    BY <1>1 DEF SeqPosMax
  <2>2. \E p \in S : \A q \in S : q <= p
    BY <1>1, GreatestPos
  <2> QED BY <2>1, <2>2
<1>5. ASSUME NEW m \in S, \A r \in S : r <= m PROVE m = SeqPosMax(c, s)
  <2>1. SeqPosMax(c, s) \in S /\ m <= SeqPosMax(c, s)
    BY <1>4
  <2>2. SeqPosMax(c, s) <= m /\ m \in Nat /\ SeqPosMax(c, s) \in Nat
    BY <1>1, <1>2, <1>5, <2>1
  <2> QED BY <2>1, <2>2
<1> QED BY <1>3, <1>4, <1>5 DEF S

(* What a removal leaves of a sequence. *)
LEMMA SeqRmSees ==
  ASSUME NEW c, Well(c), NEW drop, NEW i \in Cell, NEW s
  PROVE  /\ s \in SeqRm(c, drop).cell[i].seq <=> s \in c.cell[i].seq /\ s \notin drop[i]
         /\ s \in SeqRm(c, drop).cell[i].seq => SeqRm(c, drop).cell[i].pos = c.cell[i].pos
<1> DEFINE d == SeqRm(c, drop)
<1>1. /\ \A m \in Live(d) : d.cell[m].pos = c.cell[m].pos /\ d.cell[m].seq = c.cell[m].seq \ drop[m]
      /\ Well(d) /\ (IsEmpty(d, i) <=> IsEmpty(c, i) \/ i \in Emptied(c, drop))
  BY SeqRmSame, SeqRmWell
<1> HIDE DEF d
<1>2. s \in d.cell[i].seq => i \in Live(d)
  BY <1>1, SeenType
<1>3. ASSUME s \in c.cell[i].seq, s \notin drop[i] PROVE i \in Live(d)
  <2>1. i \in Live(c)
    BY <1>3, SeenType
  <2>2. i \notin Emptied(c, drop)
    BY <1>3 DEF Emptied
  <2> QED BY <1>1, <2>1, <2>2 DEF Live
<1>4. /\ s \in d.cell[i].seq <=> s \in c.cell[i].seq /\ s \notin drop[i]
      /\ s \in d.cell[i].seq => d.cell[i].pos = c.cell[i].pos
  BY <1>1, <1>2, <1>3
<1> QED BY <1>4 DEF d

(* Whatever leaves cells, each position stays in one place. *)
LEMMA OneEachLess ==
  ASSUME NEW c, OneEach(c), NEW d,
         \A i \in Cell : \A s \in d.cell[i].seq :
            s \in c.cell[i].seq /\ d.cell[i].pos = c.cell[i].pos
  PROVE  OneEach(d)
  BY DEF OneEach

-----------------------------------------------------------------------------
(***************************************************************************)
(* What a ubatch changes when some of its cells were in use.  A sequence   *)
(* loses what it has at or before the position of a cell that was its own  *)
(* and is taken.                                                           *)
(***************************************************************************)
LostTo(c, I, s, p) == \E m \in I : c.cell[m].seq = {s} /\ p <= c.cell[m].pos

(* The sequences and the position of each cell once the ubatch is applied. *)
LEMMA ApplyDoes ==
  ASSUME NEW c, Well(c), NEW ub \in Seq(Token), NEW idxs \in Seq(Cell),
         Len(idxs) = Len(ub), NEW i \in Cell, NEW s \in Seqs,
         NEW d, d = ApplyUbatch(c, ub, idxs)
  PROVE  /\ i \notin Targets(idxs) =>
              /\ s \in d.cell[i].seq <=> /\ s \in c.cell[i].seq
                                         /\ ~LostTo(c, Targets(idxs), s, c.cell[i].pos)
              /\ s \in d.cell[i].seq => d.cell[i].pos = c.cell[i].pos
         /\ i \in Targets(idxs) =>
              /\ s \in d.cell[i].seq <=>
                   /\ s \in IdsOf(ub[SlotOf(idxs, i)].ids)
                   /\ ~LostTo(c, Targets(idxs), s, ub[SlotOf(idxs, i)].pos)
              /\ s \in d.cell[i].seq => d.cell[i].pos = ub[SlotOf(idxs, i)].pos
<1> DEFINE I    == Targets(idxs)
           over == {m \in I : ~IsEmpty(c, m)}
           all  == [m \in Cell |-> IF m \in over THEN Seqs ELSE {}]
           pos(m) == ub[SlotOf(idxs, m)].pos
           seq(m) == IdsOf(ub[SlotOf(idxs, m)].ids)
           at   == [m \in I |-> [pos |-> pos(m), seq |-> seq(m)]]
           c1   == SeqRm(c, all)
           c2   == Emplaced(c, ub, idxs)
           drop == [m \in Cell |->
                      {t \in Seqs : \E n \in Targets(idxs) :
                          /\ c.cell[n].seq = {t}
                          /\ c2.cell[m].pos <= c.cell[n].pos}]
<1>1. I \in SUBSET Cell
  BY DEF Targets
<1>2. /\ Well(c1)
      /\ \A m \in Cell : IsEmpty(c1, m) <=> IsEmpty(c, m) \/ m \in Emptied(c, all)
      /\ s \in c1.cell[i].seq <=> s \in c.cell[i].seq /\ s \notin all[i]
      /\ s \in c1.cell[i].seq => c1.cell[i].pos = c.cell[i].pos
  <2> HIDE DEF all
  <2> QED BY SeqRmWell, SeqRmSees
<1>3. \A m \in I : IsEmpty(c1, m)
  <2> SUFFICES ASSUME NEW m \in I, ~IsEmpty(c, m) PROVE m \in Emptied(c, all)
    BY <1>1, <1>2
  <2>1. m \in Cell /\ all[m] = Seqs
    BY <1>1
  <2>2. c.cell[m].seq \subseteq Seqs
    BY <2>1 DEF Well, KVCellsType, CellState
  <2> QED BY <2>1, <2>2 DEF Emptied, Live
<1>4. \A m \in I : pos(m) \in Pos /\ seq(m) \in SUBSET Seqs
  <2> SUFFICES ASSUME NEW m \in I PROVE pos(m) \in Pos /\ seq(m) \in SUBSET Seqs
    OBVIOUS
  <2> DEFINE t == ub[SlotOf(idxs, m)]
  <2>1. t \in Token
    BY SlotOfType
  <2>2. t.pos \in Pos /\ t.ids \in Seq(Seqs)
    BY <2>1 DEF Token
  <2>3. IdsOf(t.ids) \in SUBSET Seqs
    BY <2>2 DEF IdsOf
  <2>4. pos(m) = t.pos /\ seq(m) = IdsOf(t.ids)
    OBVIOUS
  <2> HIDE DEF t, pos, seq
  <2> QED BY <2>2, <2>3, <2>4
<1>5. \A m \in I : at[m].pos = pos(m) /\ at[m].seq = seq(m)
  OBVIOUS
<1>6. c2 = Emplace(c1, I, at)
  BY DEF Emplaced
<1>7. i \notin I => all[i] = {}
  OBVIOUS
<1> HIDE DEF pos, seq, at, c1, c2, I, all, over
<1>8. Well(c2)
  BY <1>1, <1>2, <1>3, <1>4, <1>5, <1>6, EmplaceWell
<1>9. c2.cell[i] = IF i \notin I THEN c1.cell[i] ELSE
                      [c1.cell[i] EXCEPT !.pos = at[i].pos, !.seq = at[i].seq]
  BY <1>6 DEF Emplace
<1>10. c1.cell[i] \in CellState
  BY <1>2 DEF Well, KVCellsType
<1>11. i \in I => c2.cell[i].pos = pos(i) /\ c2.cell[i].seq = seq(i)
  BY <1>5, <1>9, <1>10 DEF CellState
<1>12. i \notin I => /\ s \in c2.cell[i].seq <=> s \in c.cell[i].seq
                     /\ s \in c2.cell[i].seq => c2.cell[i].pos = c.cell[i].pos
  BY <1>2, <1>7, <1>9
<1>13. d = SeqRm(c2, drop)
  BY DEF ApplyUbatch, Purged, c2, I
<1>14. s \in drop[i] <=> LostTo(c, I, s, c2.cell[i].pos)
  BY DEF LostTo, I
<1> HIDE DEF drop
<1>15. /\ s \in d.cell[i].seq <=> s \in c2.cell[i].seq /\ s \notin drop[i]
       /\ s \in d.cell[i].seq => d.cell[i].pos = c2.cell[i].pos
  BY <1>8, <1>13, SeqRmSees
<1>16. CASE i \notin I
  BY <1>12, <1>14, <1>15, <1>16 DEF I
<1>17. CASE i \in I
  BY <1>11, <1>14, <1>15, <1>17 DEF I, pos, seq
<1> QED BY <1>16, <1>17

(***************************************************************************)
(* The cells c that prepare leaves behind are the cells b it began with,   *)
(* but for what the ubatch it tried out at the cells I costs anyway.       *)
(***************************************************************************)
Rest(b, c, I) ==
    /\ \A i \in I : /\ CanUse(b, i)
                    /\ c.cell[i].pos = b.cell[i].pos /\ c.cell[i].seq = b.cell[i].seq
    /\ \A i \in Cell, s \in Seqs :
         /\ s \in c.cell[i].seq => s \in b.cell[i].seq /\ c.cell[i].pos = b.cell[i].pos
         /\ s \in b.cell[i].seq /\ s \notin c.cell[i].seq => LostTo(b, I, s, b.cell[i].pos)

(* No cell is given to two tokens; the positions a ubatch gives a sequence. *)
OneByOne(idxs) == \A k, m \in 1 .. Len(idxs) : idxs[k] = idxs[m] => k = m

NewPos(ub, s) == {ub[k].pos : k \in {m \in 1 .. Len(ub) : s \in IdsOf(ub[m].ids)}}

(* The positions of the cells taken from s. *)
TakenFrom(b, I, s) == {b.cell[m].pos : m \in {n \in I : b.cell[n].seq = {s}}}

(* The tokens of a ubatch are behind what is there, and at places of their own. *)
Behind(ub, c) == \A s \in Seqs : \A r \in PosOf(c, s) : \A x \in NewPos(ub, s) : r < x

Distinct(ub) ==
    \A k, m \in 1 .. Len(ub) :
        IdsOf(ub[k].ids) \cap IdsOf(ub[m].ids) # {} /\ ub[k].pos = ub[m].pos => k = m

(* Where the tokens of a ubatch go, and what else is there then.           *)
Placed(b, ub, idxs, d) ==
    /\ \A k \in 1 .. Len(ub) : /\ d.cell[idxs[k]].pos = ub[k].pos
                               /\ d.cell[idxs[k]].seq = IdsOf(ub[k].ids)
    /\ \A i \in Cell \ Targets(idxs), s \in Seqs :
         /\ s \in d.cell[i].seq <=> /\ s \in b.cell[i].seq
                                    /\ ~LostTo(b, Targets(idxs), s, b.cell[i].pos)
         /\ s \in d.cell[i].seq => d.cell[i].pos = b.cell[i].pos

(* The cells of a slot, and the tokens that go there. *)
LEMMA SlotFacts ==
  ASSUME NEW ub \in Seq(Token), NEW idxs \in Seq(Cell), Len(idxs) = Len(ub), OneByOne(idxs)
  PROVE  /\ Len(ub) \in Nat
         /\ Targets(idxs) \in SUBSET Cell
         /\ \A k \in 1 .. Len(ub) : /\ idxs[k] \in Targets(idxs) /\ idxs[k] \in Cell
                                    /\ SlotOf(idxs, idxs[k]) = k
                                    /\ ub[k] \in Token /\ ub[k].pos \in Pos
                                    /\ IdsOf(ub[k].ids) \in SUBSET Seqs
                                    /\ IdsOf(ub[k].ids) # {}
                                    /\ ub[k].ids[1] \in IdsOf(ub[k].ids)
         /\ \A i \in Targets(idxs) : SlotOf(idxs, i) \in 1 .. Len(ub) /\ idxs[SlotOf(idxs, i)] = i
<1>1. DOMAIN idxs = 1 .. Len(ub) /\ Len(ub) \in Nat
  OBVIOUS
<1>2. \A i \in Targets(idxs) : SlotOf(idxs, i) \in 1 .. Len(ub) /\ idxs[SlotOf(idxs, i)] = i
  BY <1>1 DEF Targets, SlotOf
<1>3. ASSUME NEW k \in 1 .. Len(ub)
      PROVE  /\ idxs[k] \in Targets(idxs) /\ idxs[k] \in Cell /\ SlotOf(idxs, idxs[k]) = k
             /\ ub[k] \in Token
  <2>1. idxs[k] \in Targets(idxs)
    BY <1>1 DEF Targets
  <2>2. SlotOf(idxs, idxs[k]) = k
    BY <1>1, <1>2, <2>1 DEF OneByOne
  <2> QED BY <2>1, <2>2
<1>4. ASSUME NEW t \in Token
      PROVE  t.pos \in Pos /\ IdsOf(t.ids) \in SUBSET Seqs /\ IdsOf(t.ids) # {} /\ t.ids[1] \in IdsOf(t.ids)
  <2>1. t.pos \in Pos /\ t.ids \in Seq(Seqs) /\ t.ids # <<>>
    BY DEF Token
  <2>2. \A x \in DOMAIN t.ids : t.ids[x] \in Seqs
    BY <2>1
  <2>3. 1 \in DOMAIN t.ids
    BY <2>1
  <2>4. IdsOf(t.ids) \in SUBSET Seqs
    BY <2>2 DEF IdsOf
  <2>5. t.ids[1] \in IdsOf(t.ids)
    BY <2>3 DEF IdsOf
  <2> QED BY <2>1, <2>4, <2>5
<1>5. Targets(idxs) \in SUBSET Cell
  BY DEF Targets
<1> QED BY <1>1, <1>2, <1>3, <1>4, <1>5

(* Applied to what prepare put back, a ubatch leaves what it would have left*)
(* of the cells decode began with.                                         *)
LEMMA RestPlaced ==
  ASSUME NEW b, Well(b), NEW c, Well(c), NEW ub \in Seq(Token), NEW idxs \in Seq(Cell),
         Len(idxs) = Len(ub), OneByOne(idxs), Rest(b, c, Targets(idxs)), Behind(ub, b)
  PROVE  Placed(b, ub, idxs, ApplyUbatch(c, ub, idxs))
<1> DEFINE I == Targets(idxs)
           d == ApplyUbatch(c, ub, idxs)
<1>1. I \in SUBSET Cell
  BY SlotFacts
<1>2. \A s, p : LostTo(c, I, s, p) <=> LostTo(b, I, s, p)
  BY DEF LostTo, Rest
<1>3. ASSUME NEW i \in Cell, NEW s \in Seqs
      PROVE  /\ i \notin I =>
                  /\ s \in d.cell[i].seq <=> s \in c.cell[i].seq /\ ~LostTo(b, I, s, c.cell[i].pos)
                  /\ s \in d.cell[i].seq => d.cell[i].pos = c.cell[i].pos
             /\ i \in I =>
                  /\ s \in d.cell[i].seq <=> /\ s \in IdsOf(ub[SlotOf(idxs, i)].ids)
                                             /\ ~LostTo(b, I, s, ub[SlotOf(idxs, i)].pos)
                  /\ s \in d.cell[i].seq => d.cell[i].pos = ub[SlotOf(idxs, i)].pos
  <2> HIDE DEF d
  <2> QED BY <1>2, ApplyDoes DEF d
<1>4. Well(d)
  BY ApplyUbatchWell
<1> HIDE DEF d
<1>5. ASSUME NEW k \in 1 .. Len(ub)
      PROVE  d.cell[idxs[k]].pos = ub[k].pos /\ d.cell[idxs[k]].seq = IdsOf(ub[k].ids)
  <2> DEFINE i == idxs[k]
             S == IdsOf(ub[k].ids)
  <2>1. i \in I /\ i \in Cell /\ SlotOf(idxs, i) = k /\ S \in SUBSET Seqs /\ S # {} /\ ub[k].pos \in Pos
    BY SlotFacts
  <2>2. d.cell[i].seq \in SUBSET Seqs
    BY <1>4, <2>1 DEF Well, KVCellsType, CellState
  <2>3. ASSUME NEW s \in S PROVE ~LostTo(b, I, s, ub[k].pos)
    <3> SUFFICES ASSUME NEW m \in I, b.cell[m].seq = {s}, ub[k].pos <= b.cell[m].pos PROVE FALSE
      BY DEF LostTo
    <3>1. b.cell[m].pos \in PosOf(b, s) /\ ub[k].pos \in NewPos(ub, s) /\ s \in Seqs
      BY <1>1, <2>1 DEF PosOf, NewPos
    <3>2. b.cell[m].pos < ub[k].pos
      BY <3>1 DEF Behind
    <3>3. b.cell[m].pos \in Int /\ ub[k].pos \in Int
      BY <1>1, <2>1, <3>1, PosOfType, CellsAssumption DEF Pos
    <3> QED BY <3>2, <3>3
  <2>4. \A s \in Seqs : s \in d.cell[i].seq <=> s \in S
    BY <1>3, <2>1, <2>3
  <2>5. d.cell[i].seq = S
    <3> HIDE DEF i, S
    <3> QED BY <2>1, <2>2, <2>4
  <2>6. d.cell[i].pos = ub[k].pos
    <3>1. PICK s \in S : s \in Seqs
      BY <2>1
    <3> QED BY <1>3, <2>1, <2>5, <3>1
  <2> QED BY <2>5, <2>6
<1>6. ASSUME NEW i \in Cell \ I, NEW s \in Seqs
      PROVE  /\ s \in d.cell[i].seq <=> s \in b.cell[i].seq /\ ~LostTo(b, I, s, b.cell[i].pos)
             /\ s \in d.cell[i].seq => d.cell[i].pos = b.cell[i].pos
  <2>1. /\ s \in c.cell[i].seq => s \in b.cell[i].seq /\ c.cell[i].pos = b.cell[i].pos
        /\ s \in b.cell[i].seq /\ s \notin c.cell[i].seq => LostTo(b, I, s, b.cell[i].pos)
    BY DEF Rest
  <2> QED BY <1>3, <2>1
<1>7. Placed(b, ub, idxs, d)
  BY <1>5, <1>6 DEF Placed
<1> QED BY <1>7 DEF d

(* The positions of a sequence afterwards. *)
LEMMA PlacedPos ==
  ASSUME NEW b, Well(b), NEW d, Well(d), NEW ub \in Seq(Token), NEW idxs \in Seq(Cell),
         Len(idxs) = Len(ub), OneByOne(idxs), \A i \in Targets(idxs) : CanUse(b, i),
         Placed(b, ub, idxs, d), NEW s \in Seqs
  PROVE  PosOf(d, s) = NewPos(ub, s) \cup
                       {r \in PosOf(b, s) : \A l \in TakenFrom(b, Targets(idxs), s) : l < r}
<1> DEFINE I == Targets(idxs)
           L == TakenFrom(b, I, s)
<1>1. I \in SUBSET Cell
  BY SlotFacts
<1>2. \A x \in Pos : x \in Int
  BY CellsAssumption DEF Pos
<1>3. L \in SUBSET PosOf(b, s) /\ PosOf(b, s) \in SUBSET Pos
  BY <1>1, PosOfType DEF TakenFrom, PosOf
<1>4. \A p \in Pos : LostTo(b, I, s, p) <=> \E l \in L : ~ (l < p)
  <2>1. \A p : LostTo(b, I, s, p) <=> \E l \in L : p <= l
    BY DEF LostTo, TakenFrom
  <2>2. \A l \in L : l \in Int
    BY <1>2, <1>3
  <2> HIDE DEF L
  <2> QED BY <1>2, <2>1, <2>2
<1> HIDE DEF L
<1>5. ASSUME NEW i \in Cell, s \in d.cell[i].seq
      PROVE  \/ d.cell[i].pos \in NewPos(ub, s)
             \/ d.cell[i].pos \in PosOf(b, s) /\ \A l \in L : l < d.cell[i].pos
  <2>1. CASE i \in I
    <3> DEFINE k == SlotOf(idxs, i)
    <3>1. k \in 1 .. Len(ub) /\ idxs[k] = i
      BY <2>1, SlotFacts
    <3>2. d.cell[i].pos = ub[k].pos /\ d.cell[i].seq = IdsOf(ub[k].ids)
      BY <3>1 DEF Placed
    <3> QED BY <1>5, <3>1, <3>2 DEF NewPos
  <2>2. CASE i \notin I
    <3>1. s \in b.cell[i].seq /\ ~LostTo(b, I, s, b.cell[i].pos) /\ d.cell[i].pos = b.cell[i].pos
      BY <1>5, <2>2 DEF Placed
    <3>2. b.cell[i].pos \in Pos /\ b.cell[i].pos \in PosOf(b, s)
      BY <3>1, SeenType DEF PosOf
    <3> QED BY <1>4, <3>1, <3>2
  <2> QED BY <2>1, <2>2
<1>6. ASSUME NEW k \in 1 .. Len(ub), s \in IdsOf(ub[k].ids)
      PROVE  ub[k].pos \in PosOf(d, s)
  <2>1. idxs[k] \in Cell /\ d.cell[idxs[k]].pos = ub[k].pos /\ s \in d.cell[idxs[k]].seq
    BY <1>6, SlotFacts DEF Placed
  <2> QED BY <2>1 DEF PosOf
<1>7. ASSUME NEW i \in Cell, s \in b.cell[i].seq, \A l \in L : l < b.cell[i].pos
      PROVE  b.cell[i].pos \in PosOf(d, s)
  <2>1. b.cell[i].pos \in Pos /\ ~IsEmpty(b, i)
    BY <1>7, SeenType DEF Live
  <2>2. i \notin I
    <3> SUFFICES ASSUME i \in I PROVE FALSE
      OBVIOUS
    <3>1. b.cell[i].seq = {s}
      BY <1>7, <2>1 DEF CanUse
    <3>2. b.cell[i].pos \in L
      BY <3>1 DEF L, TakenFrom
    <3> QED BY <1>2, <1>7, <2>1, <3>2
  <2>3. s \in d.cell[i].seq /\ d.cell[i].pos = b.cell[i].pos
    BY <1>4, <1>7, <2>1, <2>2 DEF Placed
  <2> QED BY <2>3 DEF PosOf
<1>8. \A r \in PosOf(d, s) : r \in NewPos(ub, s) \/ (r \in PosOf(b, s) /\ \A l \in L : l < r)
  BY <1>5 DEF PosOf
<1>9. \A r \in NewPos(ub, s) : r \in PosOf(d, s)
  BY <1>6 DEF NewPos
<1>10. \A r \in PosOf(b, s) : (\A l \in L : l < r) => r \in PosOf(d, s)
  BY <1>7 DEF PosOf
<1>11. PosOf(d, s) = NewPos(ub, s) \cup {r \in PosOf(b, s) : \A l \in L : l < r}
  BY <1>8, <1>9, <1>10
<1> QED BY <1>11 DEF L

(* What is taken is out of the window of the next token. *)
LEMMA TakenMasked ==
  ASSUME NEW b, Well(b), NEW I \in SUBSET Cell, \A i \in I : CanUse(b, i), NEW s \in Seqs,
         NEW l \in TakenFrom(b, I, s), NEW m \in PosOf(b, s), \A r \in PosOf(b, s) : r <= m
  PROVE  IsMaskedSwa(l, m + 1)
<1>1. PICK i \in I : b.cell[i].seq = {s} /\ b.cell[i].pos = l
  BY DEF TakenFrom
<1>2. ~IsEmpty(b, i)
  BY <1>1, SeenType DEF Live
<1>3. IsMaskedSwa(l, SeqPosMax(b, s) + 1)
  BY <1>1, <1>2 DEF CanUse
<1> QED BY <1>3, SeqPosMaxIs

(* Each position is in one place afterwards. *)
LEMMA PlacedOneEach ==
  ASSUME NEW b, Well(b), OneEach(b), NEW d, Well(d), NEW ub \in Seq(Token), NEW idxs \in Seq(Cell),
         Len(idxs) = Len(ub), OneByOne(idxs),
         Placed(b, ub, idxs, d), Behind(ub, b), Distinct(ub)
  PROVE  OneEach(d)
<1> DEFINE I == Targets(idxs)
<1>1. ASSUME NEW i \in Cell, NEW s \in d.cell[i].seq
      PROVE  /\ s \in Seqs /\ d.cell[i].pos \in Int
             /\ i \in I => \E k \in 1 .. Len(ub) : /\ idxs[k] = i /\ d.cell[i].pos = ub[k].pos
                                                   /\ d.cell[i].seq = IdsOf(ub[k].ids)
             /\ i \in I => d.cell[i].pos \in NewPos(ub, s)
             /\ i \notin I => /\ s \in b.cell[i].seq /\ d.cell[i].pos = b.cell[i].pos
                              /\ d.cell[i].pos \in PosOf(b, s)
  <2>1. s \in Seqs /\ d.cell[i].pos \in Int
    BY SeenType, CellsAssumption DEF Pos
  <2>2. i \in I => \E k \in 1 .. Len(ub) : /\ idxs[k] = i /\ d.cell[i].pos = ub[k].pos
                                           /\ d.cell[i].seq = IdsOf(ub[k].ids)
    BY SlotFacts DEF Placed
  <2>3. i \in I => d.cell[i].pos \in NewPos(ub, s)
    BY <2>2 DEF NewPos
  <2>4. i \notin I => s \in b.cell[i].seq /\ d.cell[i].pos = b.cell[i].pos
    BY <2>1 DEF Placed
  <2>5. i \notin I => d.cell[i].pos \in PosOf(b, s)
    BY <2>4 DEF PosOf
  <2> QED BY <2>1, <2>2, <2>3, <2>4, <2>5
<1> SUFFICES ASSUME NEW i \in Cell, NEW m \in Cell, NEW s \in d.cell[i].seq, s \in d.cell[m].seq,
                    d.cell[i].pos = d.cell[m].pos
             PROVE  i = m
  BY DEF OneEach
<1>2. s \in Seqs /\ d.cell[i].pos \in Int
  BY <1>1
<1>3. CASE i \in I /\ m \in I
  <2>1. PICK k \in 1 .. Len(ub) : idxs[k] = i /\ d.cell[i].pos = ub[k].pos /\ d.cell[i].seq = IdsOf(ub[k].ids)
    BY <1>1, <1>3
  <2>2. PICK n \in 1 .. Len(ub) : idxs[n] = m /\ d.cell[m].pos = ub[n].pos /\ d.cell[m].seq = IdsOf(ub[n].ids)
    BY <1>1, <1>3
  <2>3. k = n
    BY <2>1, <2>2 DEF Distinct
  <2> QED BY <2>1, <2>2, <2>3
<1>4. CASE i \notin I /\ m \notin I
  BY <1>1, <1>4 DEF OneEach
<1>5. CASE i \in I /\ m \notin I
  BY <1>1, <1>2, <1>5 DEF Behind
<1>6. CASE i \notin I /\ m \in I
  BY <1>1, <1>2, <1>6 DEF Behind
<1> QED BY <1>3, <1>4, <1>5, <1>6

(* One ubatch is tried out and its cells are put back. *)
LEMMA RestoredIs ==
  ASSUME NEW b, Well(b), NEW ub \in Seq(Token), NEW idxs \in Seq(Cell),
         Len(idxs) = Len(ub), \A i \in Targets(idxs) : CanUse(b, i)
  PROVE  Rest(b, SetCells(ApplyUbatch(b, ub, idxs), idxs, Cp(b, idxs)), Targets(idxs))
<1> DEFINE I == Targets(idxs)
           d == ApplyUbatch(b, ub, idxs)
           o == Cp(b, idxs)
           c == SetCells(d, idxs, o)
<1>1. \A i \in Cell, s \in Seqs : i \notin I =>
         /\ s \in d.cell[i].seq <=> s \in b.cell[i].seq /\ ~LostTo(b, I, s, b.cell[i].pos)
         /\ s \in d.cell[i].seq => d.cell[i].pos = b.cell[i].pos
  <2> HIDE DEF d
  <2> QED BY ApplyDoes DEF d
<1>2. \A i \in Cell : c.cell[i] = IF i \notin I THEN d.cell[i]
                                  ELSE [pos   |-> o[SlotOf(idxs, i)].pos,
                                        shift |-> d.cell[i].shift,
                                        seq   |-> o[SlotOf(idxs, i)].seq]
  <2> HIDE DEF d, o
  <2> QED BY DEF SetCells, Overlay
<1>3. ASSUME NEW i \in I
      PROVE  o[SlotOf(idxs, i)].pos = b.cell[i].pos /\ o[SlotOf(idxs, i)].seq = b.cell[i].seq
  <2>1. SlotOf(idxs, i) \in DOMAIN idxs /\ idxs[SlotOf(idxs, i)] = i
    BY DEF Targets, SlotOf
  <2>2. o[SlotOf(idxs, i)] = [pos |-> b.cell[i].pos, seq |-> b.cell[i].seq]
    BY <2>1 DEF Cp
  <2> HIDE DEF o
  <2> QED BY <2>2
<1>4. I \in SUBSET Cell
  BY DEF Targets
<1> HIDE DEF c, d, o
<1>5. ASSUME NEW i \in I
      PROVE  c.cell[i].pos = b.cell[i].pos /\ c.cell[i].seq = b.cell[i].seq
  <2>1. c.cell[i] = [pos   |-> o[SlotOf(idxs, i)].pos,
                     shift |-> d.cell[i].shift,
                     seq   |-> o[SlotOf(idxs, i)].seq]
    <3> HIDE DEF I
    <3> QED BY <1>2, <1>4
  <2> QED BY <1>3, <2>1
<1>6. \A i \in Cell, s \in Seqs :
         /\ s \in c.cell[i].seq => s \in b.cell[i].seq /\ c.cell[i].pos = b.cell[i].pos
         /\ s \in b.cell[i].seq /\ s \notin c.cell[i].seq => LostTo(b, I, s, b.cell[i].pos)
  BY <1>1, <1>2, <1>5
<1>7. Rest(b, c, I)
  <2> HIDE DEF I
  <2> QED BY <1>5, <1>6 DEF Rest, I
<1> QED BY <1>7 DEF c, d, o

(* Free cells are no loss. *)
LEMMA RestFree ==
  ASSUME NEW c, NEW I, \A i \in I : CanUse(c, i)
  PROVE  Rest(c, c, I)
  BY DEF Rest

-----------------------------------------------------------------------------
(***************************************************************************)
(* A batch goes on where the cache ends, without gaps: below the position  *)
(* of each token every position is one of the cache, or lies below one, or *)
(* is that of an earlier token.                                            *)
(***************************************************************************)
LEMMA BatchNext ==
  ASSUME ForksOnly, Well(cells), NEW b \in Batches, NEW pos \in [DOMAIN b -> Pos],
         BatchPos(b, pos), BatchOK(b, pos), NEW k \in 1 .. Len(b), NEW s \in IdsOf(b[k])
  PROVE  \/ pos[k] = SeqPosMax(cells, s) + 1
         \/ \E j \in 1 .. k - 1 : s \in IdsOf(b[j]) /\ pos[k] = pos[j] + 1
<1> DEFINE t == b[k][1]
           before == Earlier(b, k, t)
<1>1. b \in Seq(Seq(Seqs) \ {<<>>}) /\ DOMAIN b = 1 .. Len(b) /\ Len(b) \in Nat
  BY CacheAssumption
<1>2. t \in IdsOf(b[k]) /\ k \in Nat
  <2>1. b[k] \in Seq(Seqs) /\ b[k] # <<>>
    BY <1>1
  <2>2. 1 \in DOMAIN b[k]
    BY <2>1
  <2> QED BY <1>1, <2>2 DEF IdsOf
<1> HIDE DEF t
<1>3. CASE before = {}
  <2>1. pos[k] = SeqPosMax(cells, t) + 1
    BY <1>1, <1>3 DEF BatchPos, t
  <2>2. SeqPosMax(cells, s) = SeqPosMax(cells, t)
    BY <1>1 DEF BatchOK, t
  <2> QED BY <2>1, <2>2
<1>4. CASE before # {}
  <2>1. PICK j \in before : pos[k] = pos[j] + 1
    <3> HIDE DEF before
    <3>1. \E n \in before : (\A o \in before : o <= n) /\ pos[k] = pos[n] + 1
      BY <1>1, <1>4 DEF BatchPos, before, t
    <3> QED BY <3>1
  <2>2. j \in 1 .. k - 1 /\ t \in IdsOf(b[j])
    BY DEF Earlier
  <2>3. j \in 1 .. Len(b) /\ j < k
    BY <1>1, <1>2, <2>2
  <2>4. s \in IdsOf(b[j])
    BY <1>2, <2>2, <2>3 DEF ForksOnly
  <2> QED BY <2>1, <2>2, <2>4
<1> QED BY <1>3, <1>4

(* By the k-th token of the batch, s has come to position q: there was a   *)
(* position as high already, or a token before it has it.                  *)
Reached(b, pos, s, q, k) ==
    \/ \E r \in PosOf(cells, s) : q <= r
    \/ \E j \in 1 .. k : s \in IdsOf(b[j]) /\ pos[j] = q

(* A batch that passes the checks of init leaves no position of a sequence out. *)
LEMMA BatchLine ==
  ASSUME ForksOnly, Well(cells), NEW b \in Batches, NEW pos \in [DOMAIN b -> Pos],
         BatchPos(b, pos), BatchOK(b, pos), NEW s, NEW q \in Nat
  PROVE  \A k \in 1 .. Len(b) : s \in IdsOf(b[k]) /\ q < pos[k] => Reached(b, pos, s, q, k)
<1> DEFINE Found(k) == \E j \in 1 .. k : s \in IdsOf(b[j]) /\ pos[j] = q
           Bad == {k \in 1 .. Len(b) : s \in IdsOf(b[k]) /\ q < pos[k] /\ ~Found(k)}
<1> SUFFICES ASSUME ~ \E r \in PosOf(cells, s) : q <= r, Bad # {} PROVE FALSE
  BY DEF Reached
<1>1. b \in Seq(Seq(Seqs) \ {<<>>}) /\ DOMAIN b = 1 .. Len(b) /\ Len(b) \in Nat
  BY CacheAssumption
<1>2. \A k \in 1 .. Len(b) : pos[k] \in Int
  <2>1. \A p \in Pos : p \in Int
    BY CellsAssumption DEF Pos
  <2> QED BY <1>1, <2>1
<1>3. PICK k \in Bad : \A m \in Bad : k <= m
  <2>1. Bad \in SUBSET Nat
    BY <1>1
  <2> HIDE DEF Bad
  <2> QED BY <2>1, LeastNatural
<1>4. k \in 1 .. Len(b) /\ k \in Nat /\ s \in IdsOf(b[k]) /\ q < pos[k] /\ ~Found(k)
  BY <1>1
<1>5. \/ pos[k] = SeqPosMax(cells, s) + 1
      \/ \E j \in 1 .. k - 1 : s \in IdsOf(b[j]) /\ pos[k] = pos[j] + 1
  BY <1>4, BatchNext
<1>6. CASE pos[k] = SeqPosMax(cells, s) + 1
  <2>1. s \in Seqs
    <3>1. b[k] \in Seq(Seqs)
      BY <1>1, <1>4
    <3> QED BY <1>4, <3>1 DEF IdsOf
  <2>2. PosOf(cells, s) # {} => SeqPosMax(cells, s) \in PosOf(cells, s)
    BY <2>1, SeqPosMaxIs
  <2>3. PosOf(cells, s) = {} => SeqPosMax(cells, s) = -1
    BY <2>1, SeqPosMaxIs
  <2>4. \A r \in PosOf(cells, s) : r \in Int
    BY PosOfType, CellsAssumption DEF Pos
  <2> QED BY <1>4, <1>6, <2>2, <2>3, <2>4
<1>7. CASE \E j \in 1 .. k - 1 : s \in IdsOf(b[j]) /\ pos[k] = pos[j] + 1
  <2>1. PICK j \in 1 .. k - 1 : s \in IdsOf(b[j]) /\ pos[k] = pos[j] + 1
    BY <1>7
  <2>2. j \in 1 .. Len(b) /\ j \in Nat /\ j < k /\ j \in 1 .. k
    BY <1>1, <1>4
  <2>3. pos[j] # q
    BY <1>4, <2>1, <2>2
  <2>4. q < pos[j]
    BY <1>2, <1>4, <2>1, <2>2, <2>3
  <2>5. ~Found(j)
    <3>1. \A x \in 1 .. j : x \in 1 .. k
      BY <1>4, <2>2
    <3> QED BY <1>4, <3>1
  <2>6. j \in Bad
    BY <2>1, <2>2, <2>4, <2>5
  <2> HIDE DEF Bad
  <2> QED BY <1>3, <1>4, <2>2, <2>6
<1> QED BY <1>5, <1>6, <1>7

(* Every token of the batch is in one of its ubatches, in the order given. *)
LEMMA SplitHas ==
  ASSUME NEW b \in Batches, NEW p, NEW x \in 1 .. Len(b)
  PROVE  \E k \in 1 .. Len(Split(b, p)) : \E m \in 1 .. Len(Split(b, p)[k]) :
            x = (k - 1) * NUbatch + m
<1> DEFINE n == Len(b)
           N == NUbatch
           count == (n + N - 1) \div N
           k == (x - 1) \div N + 1
           m == x - (k - 1) * N
           toks == [y \in DOMAIN b |-> [pos |-> p[y], ids |-> b[y]]]
           T == {toks[y] : y \in DOMAIN b}
           upto(j) == IF j * N < n THEN j * N ELSE n
<1>1. b \in Seq(Seq(Seqs) \ {<<>>}) /\ n \in Nat /\ n > 0 /\ N \in Nat /\ N > 0
      /\ DOMAIN b = 1 .. n /\ x \in Nat /\ x >= 1 /\ x <= n
  BY CacheAssumption
<1>2. Split(b, p) = [j \in 1 .. count |-> SubSeq(toks, (j - 1) * N + 1, upto(j))]
  BY DEF Split
<1>3. toks \in Seq(T) /\ Len(toks) = n
  <2>1. DOMAIN toks = 1 .. n /\ \A y \in 1 .. n : toks[y] \in T
    BY <1>1
  <2>2. toks = [y \in 1 .. n |-> toks[y]]
    BY <2>1
  <2> HIDE DEF toks, n, T
  <2>3. toks \in [1 .. n -> T]
    BY <2>1, <2>2
  <2> QED BY <1>1, <2>3
<1> HIDE DEF toks, T
<1>4. /\ k \in Nat /\ k >= 1 /\ (k - 1) * N <= x - 1 /\ x - 1 < (k - 1) * N + N
  <2> DEFINE z == (x - 1) \div N
  <2>1. z \in Nat /\ z * N <= x - 1 /\ x - 1 < z * N + N
    <3> HIDE DEF N, n
    <3> QED BY <1>1
  <2>2. k - 1 = z /\ k \in Nat /\ k >= 1
    BY <2>1
  <2> HIDE DEF z
  <2> QED BY <2>1, <2>2
<1>5. count \in Nat /\ n + N - 1 < count * N + N
  <2> HIDE DEF N, n
  <2> QED BY <1>1
<1> HIDE DEF count
<1>6. k <= count
  <2> SUFFICES ASSUME count <= k - 1 PROVE FALSE
    BY <1>4, <1>5
  <2> HIDE DEF k, n, N
  <2>1. count * N <= (k - 1) * N /\ count * N \in Int /\ (k - 1) * N \in Int
    BY <1>1, <1>4, <1>5, Z3
  <2> QED BY <1>1, <1>4, <1>5, <2>1
<1> HIDE DEF k
<1>7. k \in 1 .. Len(Split(b, p)) /\ Split(b, p)[k] = SubSeq(toks, (k - 1) * N + 1, upto(k))
  <2> HIDE DEF upto
  <2>1. k \in 1 .. count
    BY <1>4, <1>5, <1>6
  <2>2. Len(Split(b, p)) = count
    BY <1>2, <1>5
  <2> QED BY <1>2, <2>1, <2>2
<1>8. k * N = (k - 1) * N + N /\ (k - 1) * N \in Nat
  BY <1>1, <1>4
<1> DEFINE f == (k - 1) * N
           last == upto(k)
<1>9. f \in Nat /\ last \in Nat /\ f < last /\ last <= n /\ x <= last /\ f <= x - 1
  <2> DEFINE y == k * N
  <2>1. last = IF y < n THEN y ELSE n
    OBVIOUS
  <2>2. y = f + N /\ f \in Nat /\ f <= x - 1 /\ x - 1 < f + N
    BY <1>4, <1>8
  <2> HIDE DEF y, f, last, n, N
  <2> QED BY <1>1, <2>1, <2>2
<1>10. Len(SubSeq(toks, f + 1, last)) = last - f
  <2> HIDE DEF f, last, n
  <2>1. f + 1 \in Int /\ last \in Int /\ f + 1 <= last
        /\ \A y \in f + 1 .. last : toks[y] \in T
    <3>1. \A y \in 1 .. n : toks[y] \in T
      BY <1>3
    <3> QED BY <1>1, <1>9, <3>1
  <2> DEFINE g == f + 1
  <2>2. Len(SubSeq(toks, g, last)) = last - g + 1
    <3> HIDE DEF g
    <3> QED BY <2>1, SubSeqProperties DEF g
  <2> QED BY <1>9, <2>2
<1>11. m = x - f
  OBVIOUS
<1> HIDE DEF f, last, m, n, N, upto
<1>12. m \in 1 .. last - f
  BY <1>1, <1>9, <1>11
<1>13. m \in 1 .. Len(Split(b, p)[k])
  BY <1>7, <1>10, <1>12 DEF f, last
<1>14. x = (k - 1) * NUbatch + m
  BY <1>1, <1>9, <1>11 DEF f, N
<1> QED BY <1>7, <1>13, <1>14

(***************************************************************************)
(* Ubatches that go on where the cells end: no position is skipped, and a  *)
(* sequence has each once.                                                 *)
(***************************************************************************)
Line(u, c) ==
    \A k \in 1 .. Len(u) : \A m \in 1 .. Len(u[k]) : \A s \in IdsOf(u[k][m].ids) :
        \A q \in 0 .. u[k][m].pos - 1 :
            \/ \E r \in PosOf(c, s) : q <= r
            \/ \E l \in 1 .. k : \E n \in 1 .. Len(u[l]) :
                   s \in IdsOf(u[l][n].ids) /\ u[l][n].pos = q

(* The ubatches continue each sequence where the cells end it, in order,   *)
(* without a gap, and with one token for a position.                       *)
InLine(u, c) ==
    /\ Ahead(u, c) /\ Forward(u)
    /\ \A k \in 1 .. Len(u) : Distinct(u[k])
    /\ Line(u, c)

(* The ubatches of a batch that init has accepted do. *)
LEMMA SplitInLine ==
  ASSUME ForksOnly, Well(cells), NEW b \in Batches, NEW pos \in [DOMAIN b -> Pos],
         BatchPos(b, pos), BatchOK(b, pos)
  PROVE  InLine(Split(b, pos), cells)
<1> DEFINE u == Split(b, pos)
           at(k, m) == (k - 1) * NUbatch + m
<1>1. /\ Len(u) \in Nat /\ \A k \in 1 .. Len(u) : Len(u[k]) \in Nat
      /\ \A k \in 1 .. Len(u) : \A m \in 1 .. Len(u[k]) : u[k][m].pos \in Pos
  <2>1. u \in Seq(Seq(Token))
    BY SplitType
  <2>2. \A t \in Token : t.pos \in Pos
    BY DEF Token
  <2> HIDE DEF u
  <2> QED BY <2>1, <2>2
<1>2. \A k \in 1 .. Len(u) : \A m \in 1 .. Len(u[k]) :
         /\ at(k, m) \in 1 .. Len(b) /\ m <= NUbatch
         /\ u[k][m].pos = pos[at(k, m)] /\ u[k][m].ids = b[at(k, m)]
  <2> SUFFICES ASSUME NEW k \in 1 .. Len(u), NEW m \in 1 .. Len(u[k])
               PROVE  /\ at(k, m) \in 1 .. Len(b) /\ m <= NUbatch
                      /\ u[k][m].pos = pos[at(k, m)] /\ u[k][m].ids = b[at(k, m)]
    OBVIOUS
  <2>1. at(k, m) \in 1 .. Len(b) /\ m <= NUbatch /\ u[k][m] = [pos |-> pos[at(k, m)], ids |-> b[at(k, m)]]
    BY SplitAt
  <2> HIDE DEF u, at
  <2> QED BY <2>1
<1>3. \A x \in 1 .. Len(b) : \E k \in 1 .. Len(u) : \E m \in 1 .. Len(u[k]) : x = at(k, m)
  BY SplitHas
<1>4. \A x, y \in 1 .. Len(b) : \A s \in IdsOf(b[x]) :
         x < y /\ s \in IdsOf(b[y]) => pos[x] < pos[y]
  <2>1. \A x, y \in 1 .. Len(b) : x < y /\ IdsOf(b[x]) \cap IdsOf(b[y]) # {} => pos[x] < pos[y]
    BY BatchForward
  <2> QED BY <2>1
<1>5. NUbatch \in Nat /\ NUbatch > 0 /\ Len(b) \in Nat /\ DOMAIN b = 1 .. Len(b)
      /\ \A p \in Pos : p \in Nat
  BY CacheAssumption, CellsAssumption DEF Pos
<1>6. Ahead(u, cells) /\ Forward(u)
  BY SplitForward
<1> HIDE DEF u
<1>7. ASSUME NEW k \in 1 .. Len(u) PROVE Distinct(u[k])
  <2> SUFFICES ASSUME NEW m \in 1 .. Len(u[k]), NEW n \in 1 .. Len(u[k]),
                      IdsOf(u[k][m].ids) \cap IdsOf(u[k][n].ids) # {},
                      u[k][m].pos = u[k][n].pos
               PROVE  m = n
    BY DEF Distinct
  <2>1. k \in Int /\ m \in Int /\ n \in Int
    BY <1>1
  <2> DEFINE x == at(k, m)
             y == at(k, n)
             f == (k - 1) * NUbatch
  <2>2. /\ x \in 1 .. Len(b) /\ y \in 1 .. Len(b)
        /\ pos[x] = pos[y] /\ \E s \in IdsOf(b[x]) : s \in IdsOf(b[y])
    BY <1>2
  <2>3. pos[x] \in Int /\ pos[y] \in Int
    BY <1>5, <2>2
  <2>4. x = f + m /\ y = f + n /\ f \in Int
    BY <1>5, <2>1
  <2> HIDE DEF x, y, f
  <2>5. ~(x < y)
    BY <1>4, <1>5, <2>2, <2>3
  <2>6. ~(y < x)
    BY <1>4, <1>5, <2>2, <2>3
  <2> QED BY <2>1, <2>4, <2>5, <2>6
<1>8. ASSUME NEW k \in 1 .. Len(u), NEW m \in 1 .. Len(u[k]), NEW s \in IdsOf(u[k][m].ids),
             NEW q \in 0 .. u[k][m].pos - 1, ~ \E r \in PosOf(cells, s) : q <= r
      PROVE  \E l \in 1 .. k : \E n \in 1 .. Len(u[l]) :
                s \in IdsOf(u[l][n].ids) /\ u[l][n].pos = q
  <2> DEFINE x == at(k, m)
  <2>1. x \in 1 .. Len(b) /\ s \in IdsOf(b[x]) /\ pos[x] \in Nat /\ u[k][m].pos = pos[x]
    BY <1>2, <1>5
  <2>2. q \in Nat /\ q < pos[x]
    BY <2>1
  <2>3. PICK j \in 1 .. x : s \in IdsOf(b[j]) /\ pos[j] = q
    <3> HIDE DEF x
    <3>1. Reached(b, pos, s, q, x)
      BY <2>1, <2>2, BatchLine
    <3> QED BY <1>8, <3>1 DEF Reached
  <2>4. j \in 1 .. Len(b) /\ j <= x
    <3> HIDE DEF x
    <3> QED BY <1>5, <2>1
  <2>5. PICK l \in 1 .. Len(u) : \E n \in 1 .. Len(u[l]) : j = at(l, n)
    BY <1>3, <2>4
  <2>6. PICK n \in 1 .. Len(u[l]) : j = at(l, n)
    BY <2>5
  <2>7. s \in IdsOf(u[l][n].ids) /\ u[l][n].pos = q
    BY <1>2, <2>3, <2>6
  <2>8. l <= k
    <3>1. k \in Int /\ l \in Int /\ m \in Int /\ n \in Int /\ n >= 1 /\ m <= NUbatch
      BY <1>1, <1>2
    <3>2. ASSUME k <= l - 1 PROVE FALSE
      <4>1. k * NUbatch <= (l - 1) * NUbatch /\ k * NUbatch \in Int /\ (l - 1) * NUbatch \in Int
        BY <1>5, <3>1, <3>2, Z3
      <4>2. (k - 1) * NUbatch = k * NUbatch - NUbatch
        BY <1>5, <3>1
      <4> DEFINE y == k * NUbatch
                 z == (l - 1) * NUbatch
      <4>3. x = y - NUbatch + m /\ j = z + n
        BY <2>6, <4>2
      <4> HIDE DEF y, z, x
      <4>4. y \in Int /\ z \in Int /\ y <= z
        BY <4>1 DEF y, z
      <4>5. j \in Int /\ x \in Int /\ j <= x
        BY <1>5, <2>1, <2>4
      <4> QED BY <1>5, <3>1, <4>3, <4>4, <4>5
    <3> HIDE DEF at, x
    <3> QED BY <3>1, <3>2
  <2>9. l \in 1 .. k
    BY <1>1, <2>8
  <2> QED BY <2>7, <2>9
<1>9. InLine(u, cells)
  BY <1>6, <1>7, <1>8 DEF InLine, Line
<1> QED BY <1>9 DEF u

(* The tokens of a ubatch are behind the cells. *)
LEMMA AheadBehind ==
  ASSUME NEW c, Well(c), NEW u, Ahead(u, c), NEW k \in 1 .. Len(u)
  PROVE  Behind(u[k], c)
<1> SUFFICES ASSUME NEW s \in Seqs, NEW i \in Cell, s \in c.cell[i].seq,
                    NEW m \in 1 .. Len(u[k]), s \in IdsOf(u[k][m].ids)
             PROVE  c.cell[i].pos < u[k][m].pos
  BY DEF Behind, PosOf, NewPos
<1>1. i \in Live(c)
  BY SeenType
<1> QED BY <1>1 DEF Ahead

(* Only positions and sequences matter. *)
LEMMA SamePlaces ==
  ASSUME NEW c, NEW d,
         \A i \in Cell : d.cell[i].pos = c.cell[i].pos /\ d.cell[i].seq = c.cell[i].seq
  PROVE  /\ Good(c) => Good(d)
         /\ \A s : PosOf(d, s) = PosOf(c, s)
         /\ \A u : InLine(u, c) => InLine(u, d)
<1>1. \A s : PosOf(d, s) = PosOf(c, s)
  BY DEF PosOf
<1>2. OneEach(c) => OneEach(d)
  BY DEF OneEach
<1>3. Live(d) = Live(c)
  BY DEF Live, IsEmpty
<1>4. ASSUME NEW u PROVE Ahead(u, c) => Ahead(u, d)
  <2>1. \A i \in Live(d) : i \in Live(c) /\ d.cell[i].pos = c.cell[i].pos /\ d.cell[i].seq = c.cell[i].seq
    BY <1>3 DEF Live
  <2> QED BY <2>1 DEF Ahead
<1>5. \A u : Line(u, c) => Line(u, d)
  BY <1>1 DEF Line
<1>6. Good(c) => Good(d)
  BY <1>1, <1>2 DEF Good
<1>7. \A u : InLine(u, c) => InLine(u, d)
  BY <1>4, <1>5 DEF InLine
<1> QED BY <1>1, <1>6, <1>7

-----------------------------------------------------------------------------
(***************************************************************************)
(* What a client may do.  It forks sequences in a batch and never joins    *)
(* them; over a window a batch is one ubatch, for with several of them     *)
(* prepare may take cells that the first still needs; it removes ends of   *)
(* sequences, and calls nothing that moves or copies a part of one.        *)
(***************************************************************************)
OneTrial == \A b \in Batches : Len(b) <= NUbatch

(* The removals are of ends of sequences: a tail or a beginning. *)
EndsOnly == \A r \in Ranges : r[2] < 0 \/ r[1] <= 0

WindowAssumption ==
    /\ CpRepeats = FALSE /\ ForksOnly /\ EndsOnly
    /\ SwaType = "none" \/ OneTrial
    /\ Calls \subseteq {"clear", "seq_rm", "seq_keep", "compact"}

(***************************************************************************)
(* The cells a decode goes by: those it began with while it tries out the  *)
(* batch, and over a window until its only ubatch is applied.              *)
(***************************************************************************)
Base == IF Trying \/ (pc = "process" /\ SwaType # "none") THEN entry.cells ELSE cells

(* The cells prepare found are one for each token. *)
OneByOneInv ==
    /\ \A k \in 1 .. Len(stack) : OneByOne(stack[k].idxs)
    /\ \A k \in 1 .. Len(slots) : OneByOne(slots[k])

(* Over a window there is one ubatch: it is tried out, put back, applied.  *)
WindowTrial ==
    SwaType # "none" /\ pc # "idle" =>
        /\ Len(ubs) = 1 /\ Well(entry.cells)
        /\ stack # <<>> =>
             /\ stack[1].old = Cp(entry.cells, stack[1].idxs)
             /\ cells = ApplyUbatch(entry.cells, ubs[1], stack[1].idxs)
             /\ \A i \in Targets(stack[1].idxs) : CanUse(entry.cells, i)
             /\ pc = "restore" => slots # <<>> /\ slots[1] = stack[1].idxs
        /\ stack = <<>> /\ slots = <<>> => cells = entry.cells
        /\ stack = <<>> /\ slots # <<>> => Rest(entry.cells, cells, Targets(slots[1]))

(* No sequence has a gap, and what is to be decoded leaves none. *)
PlaceInv ==
    /\ Well(Base) /\ Good(Base)
    /\ pc # "idle" => InLine(ubs, Base)

(* What is known of a trial whatever the client does.                      *)
PlacesInv == OneByOneInv /\ WindowTrial

(* The inductive invariant: with that of the cells and that of a trial. *)
WInv == IInv /\ (SwaType = "none" => TInv) /\ PlacesInv /\ PlaceInv

(* Between two decodes only the cells count. *)
LEMMA IdlePlaces ==
  ASSUME IInv', pc' = "idle"
  PROVE  /\ PlacesInv'
         /\ Good(cells') => PlaceInv'
<1>1. stack' = <<>> /\ slots' = <<>> /\ Well(cells')
  BY DEF IInv, StackInv, SlotsInv
<1>2. Base' = cells'
  BY DEF Base, Trying
<1>3. OneByOneInv'
  BY <1>1 DEF OneByOneInv
<1>4. WindowTrial'
  BY DEF WindowTrial
<1> QED BY <1>1, <1>2, <1>3, <1>4 DEF PlacesInv, PlaceInv

(* There is nothing in the cells at first. *)
LEMMA InitWindow == Init => WInv
<1> SUFFICES ASSUME Init PROVE WInv
  OBVIOUS
<1>1. IInv /\ TInv
  BY InitIInv, InitTrial
<1>2. pc = "idle" /\ cells = Reset /\ stack = <<>> /\ slots = <<>>
  BY DEF Init
<1>3. Well(cells)
  BY <1>1 DEF IInv
<1>4. \A i \in Cell : cells.cell[i].seq = {}
  BY <1>2 DEF Reset, Vacant
<1>5. \A s : PosOf(cells, s) = {}
  BY <1>4 DEF PosOf
<1>6. Good(cells)
  BY <1>4, <1>5 DEF Good, OneEach, Gapless
<1>7. Base = cells
  BY <1>2 DEF Base, Trying
<1>8. PlacesInv
  BY <1>2 DEF PlacesInv, OneByOneInv, WindowTrial
<1> QED BY <1>1, <1>2, <1>3, <1>6, <1>7, <1>8 DEF WInv, PlaceInv

-----------------------------------------------------------------------------
(* Sequences that leave cells leave a sequence without gaps. *)
LEMMA LeftGood ==
  ASSUME NEW c, Well(c), Good(c), NEW drop,
         \A s \in Seqs : \E T \in SUBSET PosOf(c, s) :
            /\ Gapless(T)
            /\ \A i \in Cell : s \in c.cell[i].seq => (s \notin drop[i] <=> c.cell[i].pos \in T)
  PROVE  Good(SeqRm(c, drop))
<1> DEFINE d == SeqRm(c, drop)
<1>1. Well(d)
  BY SeqRmWell
<1>2. \A i \in Cell : \A s : /\ s \in d.cell[i].seq <=> s \in c.cell[i].seq /\ s \notin drop[i]
                             /\ s \in d.cell[i].seq => d.cell[i].pos = c.cell[i].pos
  BY SeqRmSees
<1> HIDE DEF d
<1>3. OneEach(d)
  BY <1>2, OneEachLess DEF Good
<1>4. ASSUME NEW s \in Seqs PROVE Gapless(PosOf(d, s))
  <2>1. PICK T \in SUBSET PosOf(c, s) :
            /\ Gapless(T)
            /\ \A i \in Cell : s \in c.cell[i].seq => (s \notin drop[i] <=> c.cell[i].pos \in T)
    OBVIOUS
  <2>2. PosOf(d, s) = T
    <3>1. ASSUME NEW r \in PosOf(d, s) PROVE r \in T
      <4>1. PICK i \in Cell : s \in d.cell[i].seq /\ r = d.cell[i].pos
        BY DEF PosOf
      <4> QED BY <1>2, <2>1, <4>1
    <3>2. ASSUME NEW r \in T PROVE r \in PosOf(d, s)
      <4>1. PICK i \in Cell : s \in c.cell[i].seq /\ r = c.cell[i].pos
        BY DEF PosOf
      <4>2. s \in d.cell[i].seq /\ d.cell[i].pos = r
        BY <1>2, <2>1, <4>1
      <4> QED BY <4>2 DEF PosOf
    <3> QED BY <3>1, <3>2
  <2> QED BY <2>1, <2>2
<1> QED BY <1>3, <1>4 DEF Good, d

(* The range of a removal is an end of a sequence. *)
LEMMA RangeGapless ==
  ASSUME EndsOnly, NEW r \in Ranges, NEW S \in SUBSET Pos, Gapless(S)
  PROVE  Gapless({x \in S : ~ (x >= Lo(r) /\ x < Hi(r))})
<1>1. r[1] \in Int /\ r[2] \in Int /\ MaxPos \in Nat
  BY CacheAssumption, CellsAssumption
<1>2. \A x \in S : x \in Nat /\ x <= MaxPos
  BY <1>1 DEF Pos
<1>3. CASE r[2] < 0
  <2>1. Lo(r) \in Nat /\ Hi(r) = MaxPos + 1
    BY <1>1, <1>3 DEF Lo, Hi
  <2>2. {x \in S : ~ (x >= Lo(r) /\ x < Hi(r))} = {x \in S : x < Lo(r)}
    BY <1>1, <1>2, <2>1
  <2>3. WholeEnds => Lo(r) <= 1 \/ SwaType = "none"
    BY DEF WholeEnds
  <2> QED BY <2>1, <2>2, <2>3, GaplessBelow
<1>4. CASE ~ (r[2] < 0)
  <2>1. r[1] <= 0
    BY <1>4 DEF EndsOnly
  <2>2. Lo(r) = 0 /\ Hi(r) \in Int
    BY <1>1, <1>4, <2>1 DEF Lo, Hi
  <2>3. {x \in S : ~ (x >= Lo(r) /\ x < Hi(r))} = {x \in S : x >= Hi(r)}
    BY <1>2, <2>2
  <2>4. ~WholeEnds
    BY <1>4 DEF WholeEnds
  <2> QED BY <2>2, <2>3, <2>4, GaplessAbove
<1> QED BY <1>3, <1>4

(* seq_rm and seq_keep *)
LEMMA RemovalsGood ==
  ASSUME EndsOnly, Well(cells), Good(cells)
  PROVE  /\ \A r \in Ranges : SeqRemoveAny(r) => Good(cells')
         /\ \A r \in Ranges, s \in Seqs : SeqRemove(s, r) => Good(cells')
         /\ \A s \in Seqs : SeqKeep(s) => Good(cells')
<1> DEFINE in(r, x) == x >= Lo(r) /\ x < Hi(r)
           rest(r, t) == {x \in PosOf(cells, t) : ~ in(r, x)}
<1>1. \A t \in Seqs : PosOf(cells, t) \in SUBSET Pos /\ Gapless(PosOf(cells, t))
  BY PosOfType DEF Good
<1>2. \A r \in Ranges, t \in Seqs : Gapless(rest(r, t)) /\ rest(r, t) \in SUBSET PosOf(cells, t)
  BY <1>1, RangeGapless
<1>3. \A t : \A i \in Cell : t \in cells.cell[i].seq => cells.cell[i].pos \in PosOf(cells, t)
  BY DEF PosOf
<1>4. \A r \in Ranges : \A i \in Cell : InRange(i, r) <=> in(r, cells.cell[i].pos)
  BY DEF InRange, PosIn
<1>5. \A r \in Ranges, t \in Seqs : \A i \in Cell :
         t \in cells.cell[i].seq => (~InRange(i, r) <=> cells.cell[i].pos \in rest(r, t))
  BY <1>3, <1>4
<1> HIDE DEF rest, in
<1>6. ASSUME NEW r \in Ranges, SeqRemoveAny(r) PROVE Good(cells')
  <2> DEFINE drop == [i \in Cell |-> IF InRange(i, r) THEN Seqs ELSE {}]
  <2>1. cells' = SeqRm(cells, drop)
    BY <1>6 DEF SeqRemoveAny, Leave
  <2>2. \A t \in Seqs : \A i \in Cell : t \notin drop[i] <=> ~InRange(i, r)
    OBVIOUS
  <2> HIDE DEF drop
  <2> QED BY <1>2, <1>5, <2>1, <2>2, LeftGood
<1>7. ASSUME NEW r \in Ranges, NEW s \in Seqs, SeqRemove(s, r) PROVE Good(cells')
  <2> DEFINE drop == [i \in Cell |-> IF i \in Having(s, r) THEN {s} ELSE {}]
             left(t) == IF t = s THEN rest(r, t) ELSE PosOf(cells, t)
  <2>1. cells' = SeqRm(cells, drop)
    BY <1>7 DEF SeqRemove, Leave
  <2>2. \A t \in Seqs : \A i \in Cell : t \in cells.cell[i].seq =>
           (t \notin drop[i] <=> t # s \/ ~InRange(i, r))
    BY DEF Having
  <2>3. \A t \in Seqs : left(t) \in SUBSET PosOf(cells, t) /\ Gapless(left(t))
    BY <1>1, <1>2
  <2>4. \A t \in Seqs : \A i \in Cell : t \in cells.cell[i].seq =>
           (t \notin drop[i] <=> cells.cell[i].pos \in left(t))
    BY <1>3, <1>5, <2>2
  <2> HIDE DEF drop, left
  <2> QED BY <2>1, <2>3, <2>4, LeftGood
<1>8. ASSUME NEW s \in Seqs, SeqKeep(s) PROVE Good(cells')
  <2> DEFINE drop == [i \in Cell |-> Seqs \ {s}]
             left(t) == IF t = s THEN PosOf(cells, t) ELSE {}
  <2>1. cells' = SeqRm(cells, drop)
    BY <1>8 DEF SeqKeep, Leave
  <2>2. Gapless({})
    BY DEF Gapless
  <2>3. \A t \in Seqs : left(t) \in SUBSET PosOf(cells, t) /\ Gapless(left(t))
    BY <1>1, <2>2
  <2>4. \A t \in Seqs : \A i \in Cell : t \in cells.cell[i].seq =>
           (t \notin drop[i] <=> cells.cell[i].pos \in left(t))
    BY <1>3
  <2> HIDE DEF drop, left
  <2> QED BY <2>1, <2>3, <2>4, LeftGood
<1> QED BY <1>6, <1>7, <1>8

(* Compaction moves the cells and leaves the positions as they are. *)
LEMMA CompactGood ==
  ASSUME Well(cells), Good(cells), NEW s \in Seqs, EndurkvCompactSeq(s)
  PROVE  Good(cells')
<1>1. PICK src \in Seq(Cell) :
         /\ Len(src) <= NCells
         /\ Live(cells) = {src[k] : k \in 1 .. Len(src)}
         /\ \A k, m \in 1 .. Len(src) : src[k] = src[m] => k = m
         /\ cells' = cells \/ cells' = Gather(cells, src)
  BY CompactDoes
<1>2. CASE cells' = Gather(cells, src)
  <2> DEFINE n == Len(src)
  <2>1. /\ Live(cells') = 0 .. n - 1 /\ Well(cells')
        /\ \A k \in 1 .. n : /\ cells'.cell[k - 1].pos = cells.cell[src[k]].pos
                             /\ cells'.cell[k - 1].seq = cells.cell[src[k]].seq
    <3>1. \A k \in 1 .. n : src[k] \in Live(cells)
      BY <1>1
    <3> QED BY <1>1, <1>2, <3>1, GatherPlaces, GatherWell
  <2>2. n \in Nat /\ \A k \in 1 .. n : src[k] \in Cell /\ src[k] \in Live(cells)
    BY <1>1
  <2> HIDE DEF n
  <2>3. ASSUME NEW i \in Cell, NEW t \in cells'.cell[i].seq
        PROVE  /\ i + 1 \in 1 .. n /\ src[i + 1] \in Cell
               /\ cells'.cell[i].pos = cells.cell[src[i + 1]].pos
               /\ cells'.cell[i].seq = cells.cell[src[i + 1]].seq
    <3>1. i \in 0 .. n - 1
      BY <2>1, SeenType
    <3>2. i + 1 \in 1 .. n /\ (i + 1) - 1 = i
      BY <2>2, <3>1
    <3>3. /\ cells'.cell[(i + 1) - 1].pos = cells.cell[src[i + 1]].pos
          /\ cells'.cell[(i + 1) - 1].seq = cells.cell[src[i + 1]].seq
      BY <2>1, <3>2
    <3> QED BY <2>2, <3>2, <3>3
  <2>4. ASSUME NEW t \in Seqs PROVE PosOf(cells', t) = PosOf(cells, t)
    <3>1. ASSUME NEW i \in Cell, t \in cells'.cell[i].seq PROVE cells'.cell[i].pos \in PosOf(cells, t)
      <4>1. src[i + 1] \in Cell /\ t \in cells.cell[src[i + 1]].seq
            /\ cells'.cell[i].pos = cells.cell[src[i + 1]].pos
        BY <2>3, <3>1
      <4> QED BY <4>1 DEF PosOf
    <3>2. ASSUME NEW i \in Cell, t \in cells.cell[i].seq PROVE cells.cell[i].pos \in PosOf(cells', t)
      <4>1. i \in Live(cells)
        BY <3>2, SeenType
      <4>2. PICK k \in 1 .. n : src[k] = i
        BY <1>1, <4>1 DEF n
      <4>3. k - 1 \in 0 .. n - 1
        BY <2>2
      <4>4. k - 1 \in Cell
        BY <2>1, <4>3 DEF Live
      <4>5. t \in cells'.cell[k - 1].seq /\ cells'.cell[k - 1].pos = cells.cell[i].pos
        BY <2>1, <3>2, <4>2
      <4> QED BY <4>4, <4>5 DEF PosOf
    <3> QED BY <3>1, <3>2 DEF PosOf
  <2>5. OneEach(cells')
    <3> SUFFICES ASSUME NEW i \in Cell, NEW m \in Cell, NEW t \in cells'.cell[i].seq,
                        t \in cells'.cell[m].seq, cells'.cell[i].pos = cells'.cell[m].pos
                 PROVE  i = m
      BY DEF OneEach
    <3>1. /\ i + 1 \in 1 .. n /\ m + 1 \in 1 .. n /\ src[i + 1] \in Cell /\ src[m + 1] \in Cell
          /\ cells.cell[src[i + 1]].pos = cells.cell[src[m + 1]].pos
          /\ t \in cells.cell[src[i + 1]].seq /\ t \in cells.cell[src[m + 1]].seq
      BY <2>3
    <3>2. src[i + 1] = src[m + 1]
      BY <3>1 DEF Good, OneEach
    <3>3. i + 1 = m + 1
      BY <1>1, <3>1, <3>2 DEF n
    <3>4. i \in Int /\ m \in Int
      BY CellsAssumption DEF Cell
    <3> QED BY <3>3, <3>4
  <2> QED BY <2>4, <2>5 DEF Good
<1> QED BY <1>1, <1>2

-----------------------------------------------------------------------------
(* A batch that fits is one ubatch. *)
LEMMA SplitOne ==
  ASSUME NEW b \in Batches, NEW p, Len(b) <= NUbatch
  PROVE  Len(Split(b, p)) = 1
<1> DEFINE n == Len(b)
           count == (n + NUbatch - 1) \div NUbatch
<1>1. n \in Nat /\ n > 0 /\ NUbatch \in Nat /\ NUbatch > 0 /\ n <= NUbatch
  BY CacheAssumption
<1>2. count = 1
  <2> HIDE DEF n
  <2> QED BY <1>1
<1> HIDE DEF count
<1>3. Len(Split(b, p)) = count
  BY <1>2 DEF Split, count, n
<1> QED BY <1>2, <1>3

(* A cell is found for one token only. *)
LEMMA SlotOneByOne ==
  ASSUME NEW c, Well(c), NEW h \in Int, NEW n \in Nat, NEW idxs \in [1 .. n -> Cell],
         IsSlot(c, h, n, idxs)
  PROVE  OneByOne(idxs)
<1> DEFINE nth(i) == (i - ScanFrom(c, h, n)) % NCells
<1>1. Len(idxs) = n
  OBVIOUS
<1>2. ScanFrom(c, h, n) \in Int /\ NCells \in Nat /\ NCells > 0 /\ \A i \in Cell : i \in Int
  BY CellsAssumption DEF ScanFrom, Cell
<1>3. \A k \in 1 .. n : nth(idxs[k]) \in Int
  BY <1>2
<1>4. \A k, m \in 1 .. n : k < m => nth(idxs[k]) < nth(idxs[m])
  BY DEF IsSlot
<1> HIDE DEF nth
<1>5. \A k, m \in 1 .. n : k < m => idxs[k] # idxs[m]
  BY <1>3, <1>4
<1>6. ASSUME NEW k \in 1 .. n, NEW m \in 1 .. n, idxs[k] = idxs[m] PROVE k = m
  BY <1>5, <1>6
<1> QED BY <1>1, <1>6 DEF OneByOne

(* When nothing is on the stack and nothing was found, the cells are as before. *)
LEMMA NothingFound ==
  ASSUME SwaType = "none" => TInv, PlacesInv, Trying, stack = <<>>, slots = <<>>
  PROVE  cells = entry.cells /\ Stable = cells /\ Base = cells
<1>1. cells = entry.cells
  <2>1. CASE SwaType = "none"
    BY <2>1, BackAgain
  <2>2. CASE SwaType # "none"
    BY <2>2 DEF PlacesInv, WindowTrial, Trying
  <2> QED BY <2>1, <2>2
<1> QED BY <1>1 DEF Base, Stable

(* A trial begins, at first or once more. *)
LEMMA TrialStarts ==
  ASSUME IInv', Well(cells), Update, pc' = "prepare", stack' = <<>>,
         entry' = [cells |-> cells', head |-> head], SwaType # "none" => Len(ubs') = 1
  PROVE  /\ PlacesInv'
         /\ Good(cells) /\ InLine(ubs', cells) => PlaceInv'
<1>1. slots' = <<>> /\ Well(cells')
  BY DEF IInv, SlotsInv
<1>2. Base' = cells' /\ entry'.cells = cells'
  BY DEF Base, Trying
<1>3. \A i \in Cell : cells'.cell[i].pos = cells.cell[i].pos /\ cells'.cell[i].seq = cells.cell[i].seq
  BY UpdateSame
<1>4. Good(cells) /\ InLine(ubs', cells) => Good(cells') /\ InLine(ubs', cells')
  BY <1>3, SamePlaces
<1>5. OneByOneInv'
  BY <1>1 DEF OneByOneInv
<1>6. WindowTrial'
  BY <1>1, <1>2 DEF WindowTrial
<1>7. Good(cells) /\ InLine(ubs', cells) => PlaceInv'
  BY <1>1, <1>2, <1>4 DEF PlaceInv
<1> QED BY <1>5, <1>6, <1>7 DEF PlacesInv

(* A decode begins with a trial. *)
LEMMA DecodeBeginPlaces ==
  ASSUME SwaType # "none" => OneTrial, IInv, IInv', NEW b \in Batches, DecodeBegin(b)
  PROVE  /\ PlacesInv'
         /\ Good(cells) /\ InLine(ubs', cells) => PlaceInv'
<1>1. /\ pc = "idle" /\ Update /\ stack' = stack /\ pc' = "prepare"
      /\ entry' = [cells |-> cells', head |-> head]
  BY DEF DecodeBegin
<1>2. stack = <<>> /\ Well(cells)
  BY <1>1 DEF IInv, StackInv
<1>3. SwaType # "none" => Len(ubs') = 1
  BY SplitOne DEF DecodeBegin, OneTrial
<1> QED BY <1>1, <1>2, <1>3, TrialStarts

(* The tokens init gives positions to are in line with the cells. *)
LEMMA DecodeBeginWindow ==
  ASSUME WindowAssumption, WInv, IInv', NEW b \in Batches, DecodeBegin(b)
  PROVE  PlaceInv'
<1>1. pc = "idle"
  BY DEF DecodeBegin
<1>2. PICK pos \in [DOMAIN b -> Pos] : BatchPos(b, pos) /\ BatchOK(b, pos) /\ ubs' = Split(b, pos)
  BY DEF DecodeBegin
<1>3. IInv /\ Well(cells) /\ Good(cells)
  <2>1. Base = cells
    BY <1>1 DEF Base, Trying
  <2> QED BY <1>1, <2>1 DEF WInv, PlaceInv
<1>4. InLine(ubs', cells)
  BY <1>2, <1>3, SplitInLine DEF WindowAssumption
<1> QED BY <1>3, <1>4, DecodeBeginPlaces DEF WindowAssumption

(* A second trial starts from the cells of the first. *)
LEMMA RetryPreparePlaces ==
  ASSUME SwaType = "none" => TInv, IInv, IInv', PlacesInv, RetryPrepare
  PROVE  /\ PlacesInv'
         /\ PlaceInv => PlaceInv'
<1>1. /\ Trying /\ pc # "idle" /\ stack = <<>> /\ slots = <<>> /\ Update /\ stack' = stack /\ ubs' = ubs
      /\ pc' = "prepare" /\ entry' = [cells |-> cells', head |-> head]
  BY DEF RetryPrepare, Trying
<1>2. Base = cells
  BY <1>1, NothingFound
<1>3. Well(cells) /\ (SwaType # "none" => Len(ubs') = 1)
  BY <1>1 DEF IInv, PlacesInv, WindowTrial
<1>4. PlaceInv => Good(cells) /\ InLine(ubs', cells)
  BY <1>1, <1>2 DEF PlaceInv
<1> QED BY <1>1, <1>3, <1>4, TrialStarts

(* Trying a batch out changes neither it nor the cells to go back to. *)
LEMMA TrialPlaces ==
  ASSUME PlaceInv, Trying, Trying', pc' # "idle", UNCHANGED <<ubs, entry>>
  PROVE  PlaceInv'
<1>1. pc # "idle" /\ Base' = Base
  BY DEF Trying, Base
<1> QED BY <1>1 DEF PlaceInv

(* The stack grows by one entry when a ubatch is tried out ... *)
LEMMA StackGrows ==
  ASSUME stack \in Seq(StackEntry), NEW top, stack' = Append(stack, top)
  PROVE  /\ Len(stack) \in Nat /\ Len(stack') = Len(stack) + 1 /\ stack' # <<>>
         /\ \A m \in 1 .. Len(stack) : stack'[m] = stack[m]
         /\ stack'[Len(stack) + 1] = top
<1> DEFINE U == StackEntry \cup {top}
<1>1. stack \in Seq(U) /\ top \in U
  OBVIOUS
<1> HIDE DEF U
<1> QED BY <1>1

(* ... and loses the last one when its cells are put back. *)
LEMMA StackShrinks ==
  ASSUME IInv, RestoreOne
  PROVE  /\ stack \in Seq(StackEntry) /\ Len(stack) \in Nat /\ Len(stack) > 0
         /\ Len(stack) <= Len(ubs) /\ Len(stack') = Len(stack) - 1
         /\ \A k \in 1 .. Len(stack') : stack'[k] = stack[k] /\ k \in 1 .. Len(stack)
         /\ Len(stack) = 1 => stack' = <<>>
<1> DEFINE j == Len(stack) - 1
<1>1. /\ stack \in Seq(StackEntry) /\ stack # <<>> /\ Len(stack) <= Len(ubs)
      /\ stack' = SubSeq(stack, 1, j)
  BY DEF IInv, StackInv, RestoreOne
<1>2. Len(stack) \in Nat /\ Len(stack) > 0
  BY <1>1
<1>3. j \in Int /\ j >= 0 /\ \A k \in 1 .. j : stack[k] \in StackEntry
  BY <1>1, <1>2
<1>4. /\ stack' \in Seq(StackEntry) /\ Len(stack') = j
      /\ \A k \in 1 .. j : stack'[k] = stack[k]
  <2> HIDE DEF j
  <2>1. /\ SubSeq(stack, 1, j) \in Seq(StackEntry)
        /\ Len(SubSeq(stack, 1, j)) = j
        /\ \A k \in 1 .. j : SubSeq(stack, 1, j)[k] = stack[k]
    BY <1>3, SubSeqProperties
  <2> QED BY <1>1, <2>1
<1> QED BY <1>1, <1>2, <1>3, <1>4

(* The cells find_slot gives are one for each token, and can be used. *)
LEMMA PlaceUbatchPlaces ==
  ASSUME IInv, IInv', PlacesInv, PlaceUbatch
  PROVE  PlacesInv'
<1> DEFINE k  == Len(stack) + 1
           n  == Len(ubs[k])
<1>1. /\ IInv /\ OneByOneInv /\ WindowTrial
      /\ pc = "prepare" /\ k <= Len(ubs) /\ UNCHANGED <<pc, slots, ubs, entry>>
      /\ slots = <<>>
  BY DEF PlacesInv, PlaceUbatch, IInv, SlotsInv
<1>2. /\ stack \in Seq(StackEntry) /\ ubs \in Seq(Seq(Token)) /\ Well(cells) /\ head \in Int
  BY <1>1 DEF IInv, UbsInv, StackInv
<1>3. k \in 1 .. Len(ubs) /\ n \in Nat /\ Len(stack) \in Nat
  BY <1>1, <1>2
<1>4. PICK idxs \in [1 .. n -> Cell] :
         /\ IsSlot(cells, head, n, idxs)
         /\ stack' = Append(stack, [idxs |-> idxs, old |-> Cp(cells, idxs), head |-> head])
         /\ cells' = ApplyUbatch(cells, ubs[k], idxs)
  BY DEF PlaceUbatch
<1> DEFINE top == [idxs |-> idxs, old |-> Cp(cells, idxs), head |-> head]
<1>5. OneByOne(idxs)
  <2> HIDE DEF n
  <2> QED BY <1>2, <1>3, <1>4, SlotOneByOne
<1>6. top.idxs = idxs /\ top.old = Cp(cells, idxs)
  OBVIOUS
<1> HIDE DEF top
<1>7. /\ Len(stack') = Len(stack) + 1 /\ stack' # <<>>
      /\ \A m \in 1 .. Len(stack) : stack'[m] = stack[m]
      /\ stack'[Len(stack) + 1] = top
  <2>1. stack' = Append(stack, top)
    BY <1>4 DEF top
  <2> QED BY <1>2, <2>1, StackGrows
<1>8. OneByOneInv'
  <2>1. ASSUME NEW m \in 1 .. Len(stack') PROVE OneByOne(stack'[m].idxs)
    <3>1. m \in 1 .. Len(stack) \/ m = Len(stack) + 1
      BY <1>3, <1>7
    <3> QED BY <1>1, <1>5, <1>6, <1>7, <3>1 DEF OneByOneInv
  <2> QED BY <1>1, <2>1 DEF OneByOneInv
<1>9. WindowTrial'
  <2> SUFFICES ASSUME SwaType # "none" PROVE WindowTrial'
    BY DEF WindowTrial
  <2>1. Len(ubs) = 1 /\ Len(stack) = 0 /\ stack = <<>>
    BY <1>1, <1>2, <1>3 DEF WindowTrial
  <2>2. cells = entry.cells /\ Well(entry.cells)
    BY <1>1, <2>1 DEF WindowTrial
  <2>3. stack'[1] = top /\ cells' = ApplyUbatch(entry.cells, ubs[1], idxs)
    BY <1>4, <1>7, <2>1, <2>2
  <2>4. \A i \in Targets(idxs) : CanUse(entry.cells, i)
    <3>1. DOMAIN idxs = 1 .. n
      BY <1>3
    <3> HIDE DEF n
    <3> QED BY <1>4, <2>2, <3>1 DEF IsSlot, Targets
  <2>5. Len(ubs') = 1 /\ Well(entry'.cells) /\ stack'[1].idxs = idxs /\ stack'[1].old = Cp(entry'.cells, idxs)
        /\ cells' = ApplyUbatch(entry'.cells, ubs'[1], idxs)
        /\ \A i \in Targets(idxs) : CanUse(entry'.cells, i)
    BY <1>1, <1>6, <2>1, <2>2, <2>3, <2>4
  <2> QED BY <1>1, <1>7, <2>5 DEF WindowTrial
<1> QED BY <1>8, <1>9 DEF PlacesInv

(* The trial ends with the cells it found. *)
LEMMA PlacedAllPlaces ==
  ASSUME IInv, IInv', PlacesInv, PlacedAll
  PROVE  PlacesInv'
<1>1. /\ IInv /\ OneByOneInv /\ WindowTrial
      /\ pc = "prepare" /\ pc' = "restore" /\ UNCHANGED <<cells, ubs, stack, entry>>
      /\ Len(stack) = Len(ubs) /\ slots' = [k \in DOMAIN stack |-> stack[k].idxs]
  BY DEF PlacesInv, PlacedAll
<1>2. stack \in Seq(StackEntry) /\ DOMAIN stack = 1 .. Len(stack) /\ Len(stack) \in Nat
  BY <1>1 DEF IInv, StackInv
<1>3. Len(slots') = Len(stack) /\ \A k \in 1 .. Len(stack) : slots'[k] = stack[k].idxs
  BY <1>1, <1>2
<1>4. OneByOneInv'
  BY <1>1, <1>3 DEF OneByOneInv
<1>5. WindowTrial'
  <2> SUFFICES ASSUME SwaType # "none" PROVE WindowTrial'
    BY DEF WindowTrial
  <2>1. Len(ubs) = 1 /\ Len(stack) = 1 /\ stack # <<>> /\ slots' # <<>> /\ slots'[1] = stack[1].idxs
    BY <1>1, <1>2, <1>3 DEF WindowTrial
  <2>2. /\ stack[1].old = Cp(entry.cells, stack[1].idxs)
        /\ cells = ApplyUbatch(entry.cells, ubs[1], stack[1].idxs)
        /\ \A i \in Targets(stack[1].idxs) : CanUse(entry.cells, i)
    BY <1>1, <2>1 DEF WindowTrial
  <2> QED BY <1>1, <2>1, <2>2 DEF WindowTrial
<1> QED BY <1>4, <1>5 DEF PlacesInv

(* The trial ends without cells. *)
LEMMA OutOfCellsPlaces ==
  ASSUME IInv, IInv', PlacesInv, OutOfCells
  PROVE  PlacesInv'
<1>1. /\ IInv /\ OneByOneInv /\ WindowTrial /\ slots = <<>>
      /\ pc = "prepare" /\ pc' = "restore" /\ UNCHANGED <<cells, ubs, stack, entry>>
      /\ Len(stack) < Len(ubs) /\ slots' = <<>>
  BY DEF PlacesInv, OutOfCells, IInv, SlotsInv
<1>2. stack \in Seq(StackEntry)
  BY <1>1 DEF IInv, StackInv
<1>3. OneByOneInv'
  BY <1>1 DEF OneByOneInv
<1>4. WindowTrial'
  <2> SUFFICES ASSUME SwaType # "none" PROVE WindowTrial'
    BY DEF WindowTrial
  <2>1. Len(ubs) = 1 /\ stack = <<>>
    <3>1. Len(ubs) = 1
      BY <1>1 DEF WindowTrial
    <3> QED BY <1>1, <1>2, <3>1
  <2>2. cells = entry.cells
    BY <1>1, <2>1 DEF WindowTrial
  <2> QED BY <1>1, <2>1, <2>2 DEF WindowTrial
<1> QED BY <1>3, <1>4 DEF PlacesInv

(* What is put back is what decode began with, but for the sequences that  *)
(* lost positions to a taken cell.                                         *)
LEMMA RestoreOnePlaces ==
  ASSUME IInv, IInv', PlacesInv, RestoreOne
  PROVE  PlacesInv'
<1>1. /\ IInv /\ OneByOneInv /\ WindowTrial
      /\ pc = "restore" /\ stack # <<>> /\ UNCHANGED <<pc, slots, ubs, entry>>
      /\ cells' = SetCells(cells, stack[Len(stack)].idxs, stack[Len(stack)].old)
      /\ stack' = SubSeq(stack, 1, Len(stack) - 1)
  BY DEF PlacesInv, RestoreOne
<1>2. stack \in Seq(StackEntry) /\ Len(stack) \in Nat /\ Len(stack) > 0 /\ Len(stack) <= Len(ubs)
  BY StackShrinks
<1>3. /\ Len(stack') = Len(stack) - 1
      /\ \A k \in 1 .. Len(stack') : stack'[k] = stack[k] /\ k \in 1 .. Len(stack)
      /\ Len(stack) = 1 => stack' = <<>>
  BY StackShrinks
<1>4. OneByOneInv'
  BY <1>1, <1>3 DEF OneByOneInv
<1>5. WindowTrial'
  <2> SUFFICES ASSUME SwaType # "none" PROVE WindowTrial'
    BY DEF WindowTrial
  <2> DEFINE idxs == stack[1].idxs
  <2>1. Len(ubs) = 1 /\ Len(stack) = 1 /\ stack' = <<>>
    <3>1. Len(ubs) = 1
      BY <1>1 DEF WindowTrial
    <3> QED BY <1>2, <1>3, <3>1
  <2>2. /\ stack[1].old = Cp(entry.cells, idxs)
        /\ cells = ApplyUbatch(entry.cells, ubs[1], idxs)
        /\ \A i \in Targets(idxs) : CanUse(entry.cells, i)
        /\ slots # <<>> /\ slots[1] = idxs
    BY <1>1 DEF WindowTrial
  <2>3. idxs \in Seq(Cell) /\ Len(idxs) = Len(ubs[1]) /\ ubs[1] \in Seq(Token)
    <3>1. 1 \in 1 .. Len(stack) /\ 1 \in 1 .. Len(ubs)
      BY <2>1
    <3>2. stack[1] \in StackEntry /\ Len(stack[1].idxs) = Len(ubs[1]) /\ ubs[1] \in Seq(Token)
      BY <1>1, <1>2, <3>1 DEF IInv, StackInv, UbsInv
    <3> QED BY <3>2 DEF StackEntry
  <2>4. Well(entry.cells)
    BY <1>1 DEF WindowTrial
  <2>5. cells' = SetCells(ApplyUbatch(entry.cells, ubs[1], idxs), idxs, Cp(entry.cells, idxs))
    BY <1>1, <2>1, <2>2
  <2>6. Rest(entry.cells, cells', Targets(idxs))
    BY <2>2, <2>3, <2>4, <2>5, RestoredIs
  <2> QED BY <1>1, <2>1, <2>2, <2>6 DEF WindowTrial
<1> QED BY <1>4, <1>5 DEF PlacesInv

(* With all put back, processing may begin. *)
LEMMA PreparedPlaces ==
  ASSUME SwaType = "none" => TInv, IInv', PlacesInv, Prepared
  PROVE  /\ PlacesInv'
         /\ PlaceInv => PlaceInv'
<1>1. /\ OneByOneInv /\ WindowTrial /\ Trying
      /\ pc = "restore" /\ pc' = "process" /\ stack = <<>> /\ slots # <<>>
      /\ UNCHANGED <<cells, slots, ubs, stack, entry>>
  BY DEF PlacesInv, Prepared, Trying, decoding
<1>2. Base' = Base
  <2>1. SwaType = "none" => cells = entry.cells
    BY <1>1, BackAgain
  <2> QED BY <1>1, <2>1 DEF Base, Trying
<1>3. OneByOneInv'
  BY <1>1 DEF OneByOneInv
<1>4. WindowTrial'
  BY <1>1 DEF WindowTrial
<1>5. PlaceInv => PlaceInv'
  BY <1>1, <1>2 DEF PlaceInv
<1> QED BY <1>3, <1>4, <1>5 DEF PlacesInv

(* A decode that found no cells has changed nothing. *)
LEMMA GiveUpWindow ==
  ASSUME WInv, IInv', GiveUp
  PROVE  PlaceInv'
<1>1. Trying /\ stack = <<>> /\ slots = <<>> /\ pc' = "idle" /\ cells' = cells
  BY DEF GiveUp, EndDecode, Trying
<1>2. Good(cells)
  BY <1>1, NothingFound DEF WInv, PlaceInv
<1> QED BY <1>1, <1>2, IdlePlaces

(***************************************************************************)
(* A ubatch is applied: its tokens are at its cells, and each sequence has *)
(* grown by their positions, at the cost of what it no longer sees.        *)
(***************************************************************************)
LEMMA ProcessPlaced ==
  ASSUME WInv, pc = "process", NEW d, d = ApplyUbatch(cells, ubs[1], slots[1])
  PROVE  /\ Well(Base) /\ Good(Base) /\ InLine(ubs, Base) /\ Well(d) /\ OneEach(d)
         /\ 1 \in 1 .. Len(ubs)
         /\ ubs[1] \in Seq(Token) /\ slots[1] \in Seq(Cell) /\ Len(slots[1]) = Len(ubs[1])
         /\ OneByOne(slots[1]) /\ Behind(ubs[1], Base)
         /\ \A i \in Targets(slots[1]) : CanUse(Base, i)
         /\ \A s \in Seqs : Grown(PosOf(Base, s), NewPos(ubs[1], s),
                                  TakenFrom(Base, Targets(slots[1]), s), PosOf(d, s))
<1> DEFINE ub   == ubs[1]
           idxs == slots[1]
           I    == Targets(idxs)
           b    == Base
<1>1. /\ IInv /\ OneByOneInv /\ WindowTrial /\ Well(b) /\ Good(b) /\ InLine(ubs, b)
      /\ stack = <<>> /\ slots # <<>> /\ Well(cells)
  BY DEF WInv, PlacesInv, PlaceInv, IInv, StackInv, SlotsInv
<1>2. /\ 1 \in 1 .. Len(ubs) /\ 1 \in 1 .. Len(slots)
      /\ ub \in Seq(Token) /\ idxs \in Seq(Cell) /\ Len(idxs) = Len(ub) /\ Well(d)
  <2>1. /\ Len(ubs) \in Nat /\ Len(ubs) >= 1 /\ Len(slots) = Len(ubs)
        /\ slots[1] \in Seq(Cell) /\ Len(slots[1]) = Len(ubs[1]) /\ Well(d)
    BY <1>1, ProcessType
  <2> QED BY <1>1, <2>1 DEF IInv, UbsInv
<1>3. OneByOne(idxs)
  BY <1>1, <1>2 DEF OneByOneInv
<1>4. Rest(b, cells, I)
  <2>1. CASE SwaType = "none"
    <3>1. b = cells
      BY <2>1 DEF Base, Trying
    <3>2. \A i \in I : cells.cell[i] = Vacant
      BY <1>2, <2>1 DEF WInv, TInv, PlanInv, PlanFree
    <3>3. \A i \in I : CanUse(cells, i)
      BY <3>2 DEF CanUse, IsEmpty, Vacant
    <3> QED BY <3>1, <3>3, RestFree
  <2>2. CASE SwaType # "none"
    BY <1>1, <2>2 DEF WindowTrial, Base
  <2> QED BY <2>1, <2>2
<1>5. Behind(ub, b) /\ Distinct(ub) /\ Line(ubs, b) /\ OneEach(b)
  BY <1>1, <1>2, AheadBehind DEF InLine, Good
<1>6. I \in SUBSET Cell /\ \A i \in I : CanUse(b, i)
  BY <1>2, <1>4 DEF Rest, Targets
<1> HIDE DEF b
<1>7. Placed(b, ub, idxs, d)
  BY <1>1, <1>2, <1>3, <1>4, <1>5, RestPlaced
<1>8. OneEach(d)
  BY <1>1, <1>2, <1>3, <1>5, <1>7, PlacedOneEach
<1>9. ASSUME NEW s \in Seqs
      PROVE  Grown(PosOf(b, s), NewPos(ub, s), TakenFrom(b, I, s), PosOf(d, s))
  <2> DEFINE S == PosOf(b, s)
             A == NewPos(ub, s)
             L == TakenFrom(b, I, s)
             T == PosOf(d, s)
  <2>1. S \in SUBSET Pos /\ Gapless(S)
    BY <1>1, PosOfType DEF Good
  <2>2. A \in SUBSET Pos
    BY <1>2, <1>3, SlotFacts DEF NewPos
  <2>3. L \in SUBSET S
    BY <1>6 DEF TakenFrom, PosOf
  <2>4. T = A \cup {r \in S : \A l \in L : l < r}
    BY <1>1, <1>2, <1>3, <1>6, <1>7, PlacedPos
  <2>5. \A l \in L : \A m \in S : (\A r \in S : r <= m) => IsMaskedSwa(l, m + 1)
    BY <1>1, <1>6, TakenMasked
  <2>6. \A r \in S : \A x \in A : r < x
    BY <1>5 DEF Behind
  <2>7. ASSUME NEW x \in A, NEW q \in 0 .. x - 1 PROVE q \in A \/ \E r \in S : q <= r
    <3>1. PICK m \in 1 .. Len(ub) : s \in IdsOf(ub[m].ids) /\ x = ub[m].pos
      BY DEF NewPos
    <3>2. \/ \E r \in S : q <= r
          \/ \E l \in 1 .. 1 : \E n \in 1 .. Len(ubs[l]) :
                s \in IdsOf(ubs[l][n].ids) /\ ubs[l][n].pos = q
      BY <1>2, <1>5, <3>1 DEF Line
    <3>3. ASSUME NEW n \in 1 .. Len(ub), s \in IdsOf(ub[n].ids), ub[n].pos = q PROVE q \in A
      BY <3>3 DEF NewPos
    <3> QED BY <3>2, <3>3
  <2> HIDE DEF S, A, L, T
  <2>8. Grown(S, A, L, T)
    BY <2>1, <2>2, <2>3, <2>4, <2>5, <2>6, <2>7 DEF Grown
  <2> QED BY <2>8 DEF S, A, L, T
<1> QED BY <1>1, <1>2, <1>3, <1>5, <1>6, <1>8, <1>9 DEF b

(* It leaves no gap. *)
LEMMA ProcessGood ==
  ASSUME WInv, pc = "process"
  PROVE  Good(ApplyUbatch(cells, ubs[1], slots[1]))
<1> DEFINE d == ApplyUbatch(cells, ubs[1], slots[1])
<1>1. /\ OneEach(d) /\ Well(d)
      /\ \A s \in Seqs : Grown(PosOf(Base, s), NewPos(ubs[1], s),
                               TakenFrom(Base, Targets(slots[1]), s), PosOf(d, s))
  BY ProcessPlaced
<1> HIDE DEF d
<1>2. ASSUME NEW s \in Seqs PROVE Gapless(PosOf(d, s))
  BY <1>1, GaplessGrown
<1> QED BY <1>1, <1>2 DEF Good, d

(* Without a window nothing is taken, and the ubatches to come go on behind. *)
LEMMA ProcessInLine ==
  ASSUME WInv, SwaType = "none", ProcessUbatch, Len(ubs) # 1
  PROVE  InLine(ubs', cells')
<1> DEFINE d == cells'
           b == cells
<1>1. pc = "process" /\ d = ApplyUbatch(cells, ubs[1], slots[1]) /\ Base = b /\ IInv
  BY DEF ProcessUbatch, Base, Trying, WInv
<1>2. /\ Well(b) /\ InLine(ubs, b) /\ Well(d) /\ 1 \in 1 .. Len(ubs)
      /\ \A i \in Targets(slots[1]) : CanUse(b, i)
      /\ \A s \in Seqs : Grown(PosOf(b, s), NewPos(ubs[1], s),
                               TakenFrom(b, Targets(slots[1]), s), PosOf(d, s))
      /\ slots[1] \in Seq(Cell)
  BY <1>1, ProcessPlaced
<1>3. /\ Len(ubs) \in Nat /\ Len(ubs') = Len(ubs) - 1
      /\ \A k \in 1 .. Len(ubs') : ubs'[k] = ubs[k + 1] /\ k + 1 \in 1 .. Len(ubs)
  BY <1>1, NextUbatches
<1>4. \A s \in Seqs : PosOf(d, s) = NewPos(ubs[1], s) \cup PosOf(b, s)
  <2> SUFFICES ASSUME NEW s \in Seqs PROVE PosOf(d, s) = NewPos(ubs[1], s) \cup PosOf(b, s)
    OBVIOUS
  <2>1. \A i \in Targets(slots[1]) : b.cell[i].seq # {s}
    <3> SUFFICES ASSUME NEW i \in Targets(slots[1]), b.cell[i].seq = {s} PROVE FALSE
      OBVIOUS
    <3>1. IsEmpty(b, i) /\ i \in Cell
      BY <1>2 DEF CanUse, IsMaskedSwa, Targets
    <3> QED BY <1>2, <3>1, SeenType DEF Live
  <2>2. TakenFrom(b, Targets(slots[1]), s) = {}
    BY <2>1 DEF TakenFrom
  <2> QED BY <1>2, <2>2 DEF Grown
<1>5. Ahead(ubs, b) /\ Forward(ubs) /\ Line(ubs, b) /\ \A k \in 1 .. Len(ubs) : Distinct(ubs[k])
  BY <1>2 DEF InLine
<1> HIDE DEF d, b
<1>6. Ahead(ubs', d)
  <2> SUFFICES ASSUME NEW k \in 1 .. Len(ubs'), NEW m \in 1 .. Len(ubs'[k]),
                      NEW s \in IdsOf(ubs'[k][m].ids), NEW i \in Live(d), s \in d.cell[i].seq
               PROVE  d.cell[i].pos < ubs'[k][m].pos
    BY DEF Ahead
  <2>1. ubs'[k] = ubs[k + 1] /\ k + 1 \in 1 .. Len(ubs) /\ 1 < k + 1
    BY <1>3
  <2>2. s \in Seqs /\ d.cell[i].pos \in PosOf(d, s)
    BY <1>2, SeenType DEF PosOf, Live
  <2>3. CASE d.cell[i].pos \in NewPos(ubs[1], s)
    <3>1. PICK n \in 1 .. Len(ubs[1]) : s \in IdsOf(ubs[1][n].ids) /\ d.cell[i].pos = ubs[1][n].pos
      BY <2>3 DEF NewPos
    <3>2. IdsOf(ubs[1][n].ids) \cap IdsOf(ubs[k + 1][m].ids) # {}
      BY <2>1, <3>1
    <3>3. ubs[1][n].pos < ubs[k + 1][m].pos
      BY <1>2, <1>5, <2>1, <3>1, <3>2 DEF Forward
    <3> QED BY <2>1, <3>1, <3>3
  <2>4. CASE d.cell[i].pos \in PosOf(b, s)
    <3>1. Behind(ubs[k + 1], b)
      BY <1>2, <1>5, <2>1, AheadBehind
    <3>2. ubs[k + 1][m].pos \in NewPos(ubs[k + 1], s)
      BY <2>1 DEF NewPos
    <3> QED BY <2>1, <2>2, <2>4, <3>1, <3>2 DEF Behind
  <2> QED BY <1>4, <2>2, <2>3, <2>4
<1>7. Forward(ubs')
  <2>1. \A k, l \in 1 .. Len(ubs') : k < l => k + 1 < l + 1
    BY <1>3
  <2> QED BY <1>3, <1>5, <2>1 DEF Forward
<1>8. \A k \in 1 .. Len(ubs') : Distinct(ubs'[k])
  BY <1>3, <1>5
<1>9. Line(ubs', d)
  <2> SUFFICES ASSUME NEW k \in 1 .. Len(ubs'), NEW m \in 1 .. Len(ubs'[k]),
                      NEW s \in IdsOf(ubs'[k][m].ids), NEW q \in 0 .. ubs'[k][m].pos - 1
               PROVE  \/ \E r \in PosOf(d, s) : q <= r
                      \/ \E l \in 1 .. k : \E n \in 1 .. Len(ubs'[l]) :
                            s \in IdsOf(ubs'[l][n].ids) /\ ubs'[l][n].pos = q
    BY DEF Line
  <2>1. ubs'[k] = ubs[k + 1] /\ k + 1 \in 1 .. Len(ubs) /\ k \in Nat /\ q \in Int
    BY <1>3
  <2>2. s \in Seqs
    <3>1. ubs[k + 1] \in Seq(Token)
      BY <1>1, <2>1 DEF IInv, UbsInv
    <3>2. ubs[k + 1][m] \in Token
      BY <2>1, <3>1
    <3>3. ubs[k + 1][m].ids \in Seq(Seqs)
      BY <3>2 DEF Token
    <3> QED BY <2>1, <3>3 DEF IdsOf
  <2>3. \/ \E r \in PosOf(b, s) : q <= r
        \/ \E l \in 1 .. k + 1 : \E n \in 1 .. Len(ubs[l]) :
              s \in IdsOf(ubs[l][n].ids) /\ ubs[l][n].pos = q
    <3>1. PICK j \in 1 .. Len(ubs) : j = k + 1
      BY <2>1
    <3>2. ubs'[k] = ubs[j]
      BY <2>1, <3>1
    <3>3. m \in 1 .. Len(ubs[j]) /\ s \in IdsOf(ubs[j][m].ids) /\ q \in 0 .. ubs[j][m].pos - 1
      BY <3>2
    <3>4. \/ \E r \in PosOf(b, s) : q <= r
          \/ \E l \in 1 .. j : \E n \in 1 .. Len(ubs[l]) :
                s \in IdsOf(ubs[l][n].ids) /\ ubs[l][n].pos = q
      BY <1>5, <3>3 DEF Line
    <3> QED BY <3>1, <3>4
  <2>4. CASE \E r \in PosOf(b, s) : q <= r
    BY <1>4, <2>2, <2>4
  <2>5. ASSUME NEW l \in 1 .. k + 1, NEW n \in 1 .. Len(ubs[l]),
               s \in IdsOf(ubs[l][n].ids), ubs[l][n].pos = q
        PROVE  \/ \E r \in PosOf(d, s) : q <= r
               \/ \E j \in 1 .. k : \E x \in 1 .. Len(ubs'[j]) :
                     s \in IdsOf(ubs'[j][x].ids) /\ ubs'[j][x].pos = q
    <3>1. CASE l = 1
      <4>1. q \in NewPos(ubs[1], s)
        BY <2>5, <3>1 DEF NewPos
      <4> QED BY <1>4, <2>1, <2>2, <4>1
    <3>2. CASE l # 1
      <4>1. l - 1 \in 1 .. k /\ l - 1 \in 1 .. Len(ubs') /\ (l - 1) + 1 = l
        BY <1>3, <2>1, <3>2
      <4>2. ubs'[l - 1] = ubs[l]
        BY <1>3, <4>1
      <4> QED BY <2>5, <4>1, <4>2
    <3> QED BY <3>1, <3>2
  <2> QED BY <2>3, <2>4, <2>5
<1>10. InLine(ubs', d)
  BY <1>6, <1>7, <1>8, <1>9 DEF InLine
<1> QED BY <1>10 DEF d

(* Without a window other ubatches may follow. *)
LEMMA ProcessUbatchPlaces ==
  ASSUME IInv, IInv', PlacesInv, ProcessUbatch
  PROVE  PlacesInv'
<1>1. CASE Len(ubs) = 1
  BY <1>1, IdlePlaces DEF ProcessUbatch, EndDecode
<1>2. CASE Len(ubs) # 1
  <2>1. /\ OneByOneInv /\ SwaType = "none" /\ slots \in Seq(Seq(Cell)) /\ slots # <<>>
        /\ slots' = Tail(slots) /\ stack' = stack /\ stack = <<>>
    BY <1>2 DEF PlacesInv, WindowTrial, ProcessUbatch, IInv, StackInv, SlotsInv
  <2>2. \A k \in 1 .. Len(slots') : slots'[k] = slots[k + 1] /\ k + 1 \in 1 .. Len(slots)
    BY <2>1
  <2>3. OneByOneInv'
    BY <2>1, <2>2 DEF OneByOneInv
  <2> QED BY <2>1, <2>3 DEF PlacesInv, WindowTrial
<1> QED BY <1>1, <1>2

(* What is known of a trial holds after every step, whatever the client    *)
(* does in between, if over a window a batch is one ubatch.                *)
LEMMA NextPlaces ==
  ASSUME SwaType = "none" => TInv, SwaType # "none" => OneTrial,
         IInv, IInv', PlacesInv, [Next]_vars
  PROVE  PlacesInv'
<1>1. ASSUME NEW b \in Batches, DecodeBegin(b) PROVE PlacesInv'
  BY <1>1, DecodeBeginPlaces
<1>2. ASSUME DecodeStep PROVE PlacesInv'
  <2>1. ASSUME GiveUp \/ FailUbatch PROVE PlacesInv'
    BY <2>1, IdlePlaces DEF GiveUp, FailUbatch, EndDecode
  <2> QED BY <1>2, <2>1, PlaceUbatchPlaces, PlacedAllPlaces, OutOfCellsPlaces, RestoreOnePlaces,
             PreparedPlaces, RetryPreparePlaces, ProcessUbatchPlaces DEF DecodeStep
<1>3. ASSUME pc' = "idle" PROVE PlacesInv'
  BY <1>3, IdlePlaces
<1>4. ASSUME UNCHANGED vars PROVE PlacesInv'
  <2>1. UNCHANGED <<cells, pc, ubs, stack, slots, entry>>
    BY <1>4 DEF vars, decoding
  <2>2. OneByOneInv'
    BY <2>1 DEF PlacesInv, OneByOneInv
  <2>3. WindowTrial'
    BY <2>1 DEF PlacesInv, WindowTrial
  <2> QED BY <2>2, <2>3 DEF PlacesInv
<1>5. \/ \E b \in Batches : DecodeBegin(b)
      \/ DecodeStep \/ pc' = "idle" \/ UNCHANGED vars
  BY DEF Next, Clear, SeqRemoveAny, SeqRemove, SeqCopy, SeqShift, SeqDivide, SeqKeep,
         EndurkvRmCells, EndurkvCompactSeq, Call
<1> QED BY <1>1, <1>2, <1>3, <1>4, <1>5

(* A ubatch that is applied leaves no gap, and the rest stays in line. *)
LEMMA ProcessUbatchWindow ==
  ASSUME WInv, IInv', ProcessUbatch
  PROVE  PlaceInv'
<1>1. pc = "process" /\ cells' = ApplyUbatch(cells, ubs[1], slots[1]) /\ Good(cells')
  BY ProcessGood DEF ProcessUbatch
<1>2. CASE Len(ubs) = 1
  BY <1>1, <1>2, IdlePlaces DEF ProcessUbatch, EndDecode
<1>3. CASE Len(ubs) # 1
  <2>1. SwaType = "none" /\ pc' = "process"
    BY <1>1, <1>3 DEF WInv, PlacesInv, WindowTrial, ProcessUbatch
  <2>2. Base' = cells' /\ Well(cells')
    BY <2>1 DEF Base, Trying, IInv
  <2> QED BY <1>1, <1>3, <2>1, <2>2, ProcessInLine DEF PlaceInv
<1> QED BY <1>2, <1>3

(* A ubatch that failed takes with it the last positions of its sequences. *)
LEMMA FailUbatchWindow ==
  ASSUME WInv, IInv', FailUbatch
  PROVE  PlaceInv'
<1> DEFINE ub == ubs[1]
           d  == ApplyUbatch(cells, ub, slots[1])
           from(s) == {k \in DOMAIN ub : ub[k].ids[1] = s}
           undo == [i \in Cell |-> {s \in Seqs :
                      \E k \in DOMAIN ub : /\ ub[k].ids[1] = s
                                           /\ d.cell[i].pos >= ub[k].pos}]
<1>1. pc = "process" /\ cells' = SeqRm(d, undo) /\ pc' = "idle"
  BY DEF FailUbatch, EndDecode
<1>2. /\ Well(d) /\ Good(d) /\ ub \in Seq(Token) /\ slots[1] \in Seq(Cell)
      /\ Len(slots[1]) = Len(ub) /\ OneByOne(slots[1]) /\ Behind(ub, Base) /\ Well(Base)
      /\ \A s \in Seqs : Grown(PosOf(Base, s), NewPos(ub, s),
                               TakenFrom(Base, Targets(slots[1]), s), PosOf(d, s))
  BY <1>1, ProcessPlaced, ProcessGood
<1>3. \A s \in Seqs : \A i \in Cell :
         s \notin undo[i] <=> \A k \in from(s) : ~ (d.cell[i].pos >= ub[k].pos)
  OBVIOUS
<1> HIDE DEF d, undo
<1>4. \A s \in Seqs : \A k \in from(s) : ub[k].pos \in Int /\ ub[k].pos \in NewPos(ub, s)
  <2> SUFFICES ASSUME NEW s \in Seqs, NEW k \in from(s)
               PROVE  ub[k].pos \in Int /\ ub[k].pos \in NewPos(ub, s)
    OBVIOUS
  <2>1. k \in 1 .. Len(ub) /\ ub[k].ids[1] = s
    BY <1>2
  <2>2. ub[k].pos \in Pos /\ s \in IdsOf(ub[k].ids)
    <3> HIDE DEF ub, from
    <3> QED BY <1>2, <2>1, SlotFacts
  <2> QED BY <2>1, <2>2, CellsAssumption DEF NewPos, Pos
<1> HIDE DEF ub, from
<1> DEFINE left(s) == {r \in PosOf(d, s) : \A k \in from(s) : ~ (r >= ub[k].pos)}
<1>5. ASSUME NEW s \in Seqs PROVE Gapless(left(s))
  <2> DEFINE S == PosOf(Base, s)
             T == PosOf(d, s)
  <2>1. \A r \in T : r \in Int
    BY <1>2, PosOfType, CellsAssumption DEF Pos
  <2>2. \A r \in S : \A x \in NewPos(ub, s) : r < x
    BY <1>2 DEF Behind
  <2>3. \A r \in S : r \in T => r \in left(s)
    BY <1>4, <2>1, <2>2
  <2>4. \A r \in T : \A u \in left(s) : r <= u => r \in left(s)
    BY <1>4, <2>1
  <2>5. left(s) \in SUBSET T
    OBVIOUS
  <2> HIDE DEF left
  <2> QED BY <1>2, <2>3, <2>4, <2>5, GaplessGrown
<1>6. \A s \in Seqs : \A i \in Cell :
         s \in d.cell[i].seq => (s \notin undo[i] <=> d.cell[i].pos \in left(s))
  BY <1>3 DEF PosOf
<1>7. \A s \in Seqs : left(s) \in SUBSET PosOf(d, s)
  OBVIOUS
<1> HIDE DEF left
<1>8. Good(cells')
  BY <1>1, <1>2, <1>5, <1>6, <1>7, LeftGood
<1> QED BY <1>1, <1>8, IdlePlaces

-----------------------------------------------------------------------------
(* The invariant is kept by every step of decode and every memory call. *)
LEMMA NextWindow ==
  ASSUME WindowAssumption, WInv, [Next]_vars
  PROVE  WInv'
<1>1. IInv' /\ (SwaType = "none" => TInv')
  BY NextKeeps, NextTrial DEF WInv, WindowAssumption
<1>14. PlacesInv'
  BY <1>1, NextPlaces DEF WInv, WindowAssumption
<1>2. ASSUME NEW b \in Batches, DecodeBegin(b) PROVE PlaceInv'
  BY <1>1, <1>2, DecodeBeginWindow
<1>3. ASSUME DecodeStep PROVE PlaceInv'
  <2>1. ASSUME PlaceUbatch \/ PlacedAll \/ OutOfCells \/ RestoreOne PROVE PlaceInv'
    <3>1. Trying /\ Trying' /\ pc' # "idle" /\ UNCHANGED <<ubs, entry>>
      BY <2>1 DEF PlaceUbatch, PlacedAll, OutOfCells, RestoreOne, Trying
    <3> QED BY <3>1, TrialPlaces DEF WInv
  <2>2. ASSUME Prepared \/ RetryPrepare PROVE PlaceInv'
    BY <1>1, <2>2, PreparedPlaces, RetryPreparePlaces DEF WInv
  <2> QED BY <1>1, <1>3, <2>1, <2>2, GiveUpWindow, ProcessUbatchWindow, FailUbatchWindow
             DEF DecodeStep
<1>4. ASSUME pc = "idle" PROVE Well(cells) /\ Good(cells)
  <2>1. Base = cells
    BY <1>4 DEF Base, Trying
  <2> QED BY <2>1 DEF WInv, PlaceInv
<1>5. ASSUME pc = "idle", UNCHANGED pc, Good(cells') PROVE PlaceInv'
  BY <1>1, <1>5, IdlePlaces
<1>6. ASSUME Clear PROVE PlaceInv'
  <2>1. pc = "idle" /\ UNCHANGED pc /\ cells' = Reset
    BY <1>6 DEF Clear, Call
  <2>2. \A i \in Cell : cells'.cell[i].seq = {}
    BY <2>1 DEF Reset, Vacant
  <2>3. \A s : PosOf(cells', s) = {}
    BY <2>2 DEF PosOf
  <2>4. Good(cells')
    BY <2>2, <2>3 DEF Good, OneEach, Gapless
  <2> QED BY <1>5, <2>1, <2>4
<1>7. ASSUME NEW r \in Ranges, SeqRemoveAny(r) PROVE PlaceInv'
  BY <1>4, <1>5, <1>7, RemovalsGood DEF SeqRemoveAny, Call, WindowAssumption
<1>8. ASSUME NEW r \in Ranges, NEW s \in Seqs, SeqRemove(s, r) PROVE PlaceInv'
  BY <1>4, <1>5, <1>8, RemovalsGood DEF SeqRemove, Call, WindowAssumption
<1>9. ASSUME NEW s \in Seqs, SeqKeep(s) PROVE PlaceInv'
  BY <1>4, <1>5, <1>9, RemovalsGood DEF SeqKeep, Call, WindowAssumption
<1>10. ASSUME NEW s \in Seqs, EndurkvCompactSeq(s) PROVE PlaceInv'
  BY <1>4, <1>5, <1>10, CompactGood DEF EndurkvCompactSeq, Call
<1>11. /\ \A s, t, r : ~SeqCopy(s, t, r)
       /\ \A s, r, d : ~SeqShift(s, r, d) /\ ~SeqDivide(s, r, d)
       /\ \A s, keep : ~EndurkvRmCells(s, keep, NCells)
  <2>1. "seq_cp" \notin Calls /\ "seq_add" \notin Calls /\ "seq_div" \notin Calls
        /\ "rm_cells" \notin Calls
    BY DEF WindowAssumption
  <2> QED BY <2>1 DEF SeqCopy, SeqShift, SeqDivide, EndurkvRmCells, Call
<1>12. ASSUME UNCHANGED vars PROVE PlaceInv'
  <2>1. UNCHANGED <<cells, pc, ubs, stack, slots, entry>>
    BY <1>12 DEF vars, decoding
  <2>2. Base' = Base
    BY <2>1 DEF Base, Trying
  <2> QED BY <2>1, <2>2 DEF WInv, PlaceInv
<1>13. PlaceInv'
  BY <1>2, <1>3, <1>6, <1>7, <1>8, <1>9, <1>10, <1>11, <1>12 DEF Next
<1> QED BY <1>1, <1>13, <1>14 DEF WInv

(***************************************************************************)
(* "all positions between [pos_min, pos_max] for each sequence will be     *)
(* present in the cache": whatever the window, of whatever kind and size,  *)
(* and whichever cells behind it have been used again.                     *)
(***************************************************************************)
THEOREM NoHoles ==
  ASSUME WindowAssumption
  PROVE  Spec => []PositionsContiguous
<1>1. WInv => PositionsContiguous
  <2> SUFFICES ASSUME WInv, pc = "idle", NEW s \in Seqs, PosPresent(cells, s) # {},
                      NEW q \in SeqPosMin(cells, s) .. SeqPosMax(cells, s)
               PROVE  q \in PosPresent(cells, s)
    BY DEF PositionsContiguous
  <2>1. Well(cells) /\ Good(cells)
    <3>1. Base = cells
      BY DEF Base, Trying
    <3> QED BY <3>1 DEF WInv, PlaceInv
  <2> DEFINE S == PosOf(cells, s)
             m == SeqPosMax(cells, s)
             n == SeqPosMin(cells, s)
  <2>2. S = PosPresent(cells, s) /\ S \in SUBSET Nat /\ Gapless(S)
    BY <2>1, PresentIs, PosOfType, CellsAssumption DEF Good, Pos
  <2>3. m \in S /\ \A r \in S : r <= m
    BY <2>1, <2>2, SeqPosMaxIs
  <2>4. n \in S
    <3>1. \E x \in S : \A y \in S : x <= y
      BY <2>2, LeastNatural
    <3>2. n = CHOOSE p \in S : \A r \in S : p <= r
      BY <2>2 DEF SeqPosMin
    <3> QED BY <3>1, <3>2
  <2>5. Covers(S, m + 1)
    BY <2>2, <2>3 DEF Gapless
  <2>6. q \in n .. m
    OBVIOUS
  <2> HIDE DEF S, m, n
  <2>7. q \in 0 .. (m + 1) - 1 /\ ~ (q < n)
    BY <2>2, <2>3, <2>4, <2>6
  <2>8. q \in S
    BY <2>4, <2>5, <2>7 DEF Covers
  <2> QED BY <2>2, <2>8
<1>2. WInv /\ [Next]_vars => WInv'
  BY NextWindow
<1> QED BY InitWindow, <1>1, <1>2, PTL DEF Spec

(***************************************************************************)
(* No token misses a position of its window: whichever cells prepare took  *)
(* for it, every position the window has is in one cell, and the row of    *)
(* the token's mask, copied or not, is of these cells.                     *)
(***************************************************************************)
THEOREM WindowAlwaysSeen ==
  ASSUME WindowAssumption, WholeEnds
  PROVE  Spec => []SeesItsWindow
<1>1. WInv => SeesItsWindow
  <2> DEFINE d  == ApplyUbatch(cells, ubs[1], slots[1])
             ub == ubs[1]
  <2> SUFFICES ASSUME WInv, pc = "process", NEW k \in DOMAIN ub
               PROVE  LET seen == Visible(MaskRow(d, TRUE, ub, k))
                          p    == ub[k].pos
                      IN  /\ {d.cell[i].pos : i \in seen} = {q \in 0 .. p : ~IsMaskedSwa(q, p)}
                          /\ \A i, m \in seen : d.cell[i].pos = d.cell[m].pos => i = m
    BY DEF SeesItsWindow
  <2> DEFINE s == IdOf(ub, k)
             p == ub[k].pos
             T == PosOf(d, s)
             S == PosOf(Base, s)
  <2>1. /\ Well(d) /\ OneEach(d) /\ InLine(ubs, Base) /\ 1 \in 1 .. Len(ubs)
        /\ ub \in Seq(Token) /\ slots[1] \in Seq(Cell) /\ Len(slots[1]) = Len(ub)
        /\ OneByOne(slots[1]) /\ Behind(ub, Base)
        /\ \A t \in Seqs : Grown(PosOf(Base, t), NewPos(ub, t),
                                 TakenFrom(Base, Targets(slots[1]), t), PosOf(d, t))
    BY ProcessPlaced
  <2>2. ub \in Ubatches
    BY <2>1 DEF Ubatches, Token
  <2> HIDE DEF d, ub
  <2>3. Visible(MaskRow(d, TRUE, ub, k)) = Attended(d, TRUE, ub, k)
    BY <2>1, <2>2, RowReuseExact DEF Well
  <2>4. k \in 1 .. Len(ub) /\ s \in IdsOf(ub[k].ids) /\ s \in Seqs /\ p \in Nat
    <3>1. k \in 1 .. Len(ub)
      BY <2>1
    <3>2. ub[k].ids[1] \in IdsOf(ub[k].ids) /\ IdsOf(ub[k].ids) \in SUBSET Seqs /\ ub[k].pos \in Pos
      BY <2>1, <3>1, SlotFacts
    <3> QED BY <3>1, <3>2, CellsAssumption DEF IdOf, Pos
  <2>5. Grown(S, NewPos(ub, s), TakenFrom(Base, Targets(slots[1]), s), T) /\ p \in NewPos(ub, s)
    BY <2>1, <2>4 DEF NewPos
  <2>6. \A r \in S : r < p
    BY <2>1, <2>4, <2>5 DEF Behind
  <2>7. \A q \in 0 .. p - 1 : q \in NewPos(ub, s) \/ \E r \in S : q <= r
    <3>1. \A q \in 0 .. p - 1 : (\E r \in S : q <= r) \/ q \in NewPos(ub, s)
      BY <2>5 DEF Grown
    <3> QED BY <3>1
  <2>8. Covers(T, p) /\ p \in T
    <3>1. T = NewPos(ub, s) \cup {r \in S : \A l \in TakenFrom(Base, Targets(slots[1]), s) : l < r}
      BY <2>5 DEF Grown
    <3> HIDE DEF S, T, p, s
    <3> QED BY <2>4, <2>5, <2>6, <2>7, <3>1, CoversGrown
  <2>9. \A i \in Cell : Unmasked(d, TRUE, s, p, i)
                          <=> /\ s \in d.cell[i].seq /\ d.cell[i].pos <= p
                              /\ ~IsMaskedSwa(d.cell[i].pos, p)
    BY <2>1, SeenType DEF Unmasked, Live
  <2> DEFINE seen == Attended(d, TRUE, ub, k)
  <2>10. \A i : i \in seen <=> /\ i \in Cell /\ s \in d.cell[i].seq /\ d.cell[i].pos <= p
                               /\ ~IsMaskedSwa(d.cell[i].pos, p)
    BY <2>9 DEF Attended
  <2>11. \A r \in T : r \in Nat
    BY <2>1, PosOfType, CellsAssumption DEF Pos
  <2> HIDE DEF seen, s, p
  <2>12. ASSUME NEW i \in seen PROVE d.cell[i].pos \in {q \in 0 .. p : ~IsMaskedSwa(q, p)}
    <3>1. d.cell[i].pos \in T
      BY <2>10 DEF PosOf
    <3> QED BY <2>4, <2>10, <2>11, <3>1
  <2>13. ASSUME NEW q \in 0 .. p, ~IsMaskedSwa(q, p) PROVE \E i \in seen : d.cell[i].pos = q
    <3>1. q \in T
      <4>1. q = p \/ q \in 0 .. p - 1
        BY <2>4
      <4>2. ASSUME q \in 0 .. p - 1 PROVE q \in T
        BY <2>8, <2>13, <4>2 DEF Covers, Excused
      <4> QED BY <2>8, <4>1, <4>2
    <3>2. PICK i \in Cell : s \in d.cell[i].seq /\ d.cell[i].pos = q
      BY <3>1 DEF PosOf
    <3>3. d.cell[i].pos <= p
      BY <2>4, <3>2
    <3> QED BY <2>10, <2>13, <3>2, <3>3
  <2>14. {d.cell[i].pos : i \in seen} = {q \in 0 .. p : ~IsMaskedSwa(q, p)}
    BY <2>12, <2>13
  <2>15. \A i, m \in seen : d.cell[i].pos = d.cell[m].pos => i = m
    BY <2>1, <2>10 DEF OneEach
  <2> QED BY <2>3, <2>14, <2>15 DEF seen, p
<1>2. WInv /\ [Next]_vars => WInv'
  BY NextWindow
<1> QED BY InitWindow, <1>1, <1>2, PTL DEF Spec

-----------------------------------------------------------------------------
(***************************************************************************)
(* The cache with a window as a step of LogicalKV.  What a ubatch takes    *)
(* from a sequence is behind the window of its next token: the abstract    *)
(* cache may lose it too.                                                  *)
(***************************************************************************)
LEMMA LostMasked ==
  ASSUME NEW b, Well(b), NEW I \in SUBSET Cell, \A i \in I : CanUse(b, i), NEW s \in Seqs,
         NEW i \in Cell, s \in b.cell[i].seq, LostTo(b, I, s, b.cell[i].pos)
  PROVE  IsMaskedSwa(b.cell[i].pos, SeqPosMax(b, s) + 1)
<1> DEFINE M == SeqPosMax(b, s)
<1>1. PICK m \in I : b.cell[m].seq = {s} /\ b.cell[i].pos <= b.cell[m].pos
  BY DEF LostTo
<1>2. b.cell[i].pos \in PosOf(b, s) /\ b.cell[m].pos \in PosOf(b, s)
  BY <1>1 DEF PosOf
<1>3. M \in PosOf(b, s) /\ \A r \in PosOf(b, s) : r <= M
  BY <1>2, SeqPosMaxIs
<1>4. \A r \in PosOf(b, s) : r \in Nat
  BY PosOfType, CellsAssumption DEF Pos
<1>5. b.cell[m].pos \in TakenFrom(b, I, s)
  BY <1>1 DEF TakenFrom
<1> HIDE DEF M
<1>6. IsMaskedSwa(b.cell[m].pos, M + 1)
  BY <1>3, <1>5, TakenMasked
<1>7. IsMaskedSwa(b.cell[i].pos, M + 1)
  <2> DEFINE p == b.cell[i].pos
             q == b.cell[m].pos
  <2>1. p \in Nat /\ q \in Nat /\ M + 1 \in Nat /\ p <= q /\ q <= M + 1 /\ M + 1 <= M + 1
    BY <1>1, <1>2, <1>3, <1>4
  <2> HIDE DEF p, q
  <2>2. IsMaskedSwa(q, M + 1)
    BY <1>6 DEF q
  <2>3. IsMaskedSwa(p, M + 1)
    BY <2>1, <2>2, WindowForward
  <2> QED BY <2>3 DEF p
<1> QED BY <1>7 DEF M

(* What can be used can be used again when it has been put back. *)
LEMMA RestCanUse ==
  ASSUME NEW b, Well(b), NEW c, Well(c), NEW I \in SUBSET Cell, Rest(b, c, I), NEW i \in I
  PROVE  CanUse(c, i)
<1>1. /\ CanUse(b, i) /\ i \in Cell
      /\ \A j \in I : c.cell[j].pos = b.cell[j].pos /\ c.cell[j].seq = b.cell[j].seq
  BY DEF Rest
<1>2. CASE IsEmpty(b, i)
  BY <1>1, <1>2 DEF CanUse, IsEmpty
<1>3. CASE ~IsEmpty(b, i)
  <2>1. PICK s \in Seqs : b.cell[i].seq = {s} /\ IsMaskedSwa(b.cell[i].pos, SeqPosMax(b, s) + 1)
    BY <1>1, <1>3 DEF CanUse
  <2> DEFINE M == SeqPosMax(b, s)
  <2>2. M \in PosOf(b, s) /\ \A r \in PosOf(b, s) : r <= M
    <3>1. b.cell[i].pos \in PosOf(b, s)
      BY <1>1, <2>1 DEF PosOf
    <3> QED BY <3>1, SeqPosMaxIs
  <2>3. \A r \in PosOf(b, s) : r \in Nat
    BY PosOfType, CellsAssumption DEF Pos
  <2> HIDE DEF M
  <2>4. PICK j \in Cell : s \in b.cell[j].seq /\ b.cell[j].pos = M
    BY <2>2 DEF PosOf
  <2>5. M \in PosOf(c, s)
    <3>1. CASE s \in c.cell[j].seq
      <4>1. c.cell[j].pos = M
        BY <2>4, <3>1 DEF Rest
      <4> QED BY <3>1, <4>1 DEF PosOf
    <3>2. CASE s \notin c.cell[j].seq
      <4>1. PICK m \in I : b.cell[m].seq = {s} /\ M <= b.cell[m].pos
        BY <2>4, <3>2 DEF Rest, LostTo
      <4>2. b.cell[m].pos \in PosOf(b, s)
        BY <4>1 DEF PosOf
      <4>3. b.cell[m].pos = M
        BY <2>2, <2>3, <4>1, <4>2
      <4>4. m \in Cell /\ s \in c.cell[m].seq /\ c.cell[m].pos = M
        BY <1>1, <4>1, <4>3
      <4> QED BY <4>4 DEF PosOf
    <3> QED BY <3>1, <3>2
  <2>6. \A r \in PosOf(c, s) : r \in PosOf(b, s)
    BY DEF PosOf, Rest
  <2>7. M = SeqPosMax(c, s)
    BY <2>2, <2>5, <2>6, SeqPosMaxIs
  <2> QED BY <1>1, <2>1, <2>7 DEF CanUse, M
<1> QED BY <1>2, <1>3

(***************************************************************************)
(* The cells prepare found for a ubatch can still be used when it is       *)
(* applied, whatever the ubatches before it have done.  Over a window a    *)
(* batch is one ubatch: the rollback of several is not exact, and what the *)
(* search went by may be gone.                                             *)
(***************************************************************************)
THEOREM PlanStaysValid ==
  ASSUME CpRepeats = FALSE, SwaType = "none" \/ OneTrial
  PROVE  Spec => []PlanStillValid
<1> DEFINE Inv == IInv /\ (SwaType = "none" => TInv) /\ PlacesInv
<1>1. Init => Inv
  BY InitWindow DEF WInv
<1>2. Inv /\ [Next]_vars => Inv'
  <2> SUFFICES ASSUME Inv, [Next]_vars PROVE Inv'
    OBVIOUS
  <2>1. IInv' /\ (SwaType = "none" => TInv')
    BY NextKeeps, NextTrial
  <2>2. PlacesInv'
    BY <2>1, NextPlaces
  <2> QED BY <2>1, <2>2
<1>3. Inv => PlanStillValid
  <2> SUFFICES ASSUME Inv, pc = "process", NEW i \in Targets(slots[1])
               PROVE  CanUse(cells, i)
    BY DEF PlanStillValid
  <2>1. 1 \in 1 .. Len(slots) /\ slots # <<>> /\ stack = <<>>
    BY ProcessType DEF IInv, StackInv
  <2>2. CASE SwaType = "none"
    <3>1. PlanFree(slots, cells)
      BY <2>2 DEF TInv, PlanInv
    <3> QED BY <2>1, <3>1 DEF PlanFree, CanUse, IsEmpty, Vacant
  <2>3. CASE SwaType # "none"
    <3>1. Well(cells) /\ Well(entry.cells) /\ Rest(entry.cells, cells, Targets(slots[1]))
      BY <2>1, <2>3 DEF IInv, PlacesInv, WindowTrial
    <3>2. Targets(slots[1]) \in SUBSET Cell
      <4>1. slots[1] \in Seq(Cell)
        BY ProcessType
      <4> QED BY <4>1 DEF Targets
    <3> QED BY <3>1, <3>2, RestCanUse
  <2> QED BY <2>2, <2>3
<1> HIDE DEF Inv
<1> QED BY <1>1, <1>2, <1>3, PTL DEF Spec

(* The last position of a sequence is what seq_pos_max says.               *)
LEMMA LastPosOf ==
  ASSUME Well(Stable), NEW s \in Seqs
  PROVE  Logical!LastPos(s) = SeqPosMax(Stable, s)
<1> DEFINE S == PosOf(Stable, s)
           M == SeqPosMax(Stable, s)
           Last(p) == /\ p = -1 \/ \E e \in Entries : s \in e.seqs /\ e.pos = p
                      /\ \A e \in Entries : s \in e.seqs => e.pos <= p
<1>1. \A p : p \in S <=> \E e \in Entries : s \in e.seqs /\ e.pos = p
  <2>1. ASSUME NEW i \in Cell, s \in Stable.cell[i].seq
        PROVE  \E e \in Entries : s \in e.seqs /\ e.pos = Stable.cell[i].pos
    <3> DEFINE e == [tok |-> kdata[i].tok, pos |-> Stable.cell[i].pos, seqs |-> Stable.cell[i].seq]
    <3>1. i \in Live(Stable)
      BY <2>1, SeenType
    <3>2. e \in Entries
      BY <3>1 DEF Entries
    <3> QED BY <2>1, <3>2
  <2>2. ASSUME NEW e \in Entries, s \in e.seqs PROVE e.pos \in S
    <3>1. PICK i \in Live(Stable) : e = [tok |-> kdata[i].tok, pos |-> Stable.cell[i].pos,
                                         seqs |-> Stable.cell[i].seq]
      BY DEF Entries
    <3>2. i \in Cell /\ s \in Stable.cell[i].seq /\ e.pos = Stable.cell[i].pos
      BY <2>2, <3>1 DEF Live
    <3> QED BY <3>2 DEF PosOf
  <2>3. \A p \in S : \E e \in Entries : s \in e.seqs /\ e.pos = p
    BY <2>1 DEF PosOf
  <2> QED BY <2>2, <2>3
<1>2. \A p : Last(p) <=> (p = -1 \/ p \in S) /\ \A r \in S : r <= p
  <2> HIDE DEF S
  <2> QED BY <1>1
<1>3. S \in SUBSET Pos /\ \A r \in S : r \in Nat
  BY PosOfType, CellsAssumption DEF Pos
<1>4. /\ S = {} => M = -1
      /\ S # {} => M \in S /\ \A r \in S : r <= M
      /\ \A m \in S : (\A r \in S : r <= m) => m = M
  BY SeqPosMaxIs
<1>5. Logical!LastPos(s) = CHOOSE p \in Pos \cup {-1} : Last(p)
  BY DEF Logical!LastPos
<1> HIDE DEF S, M, Last
<1>6. M \in Pos \cup {-1} /\ Last(M)
  BY <1>2, <1>3, <1>4
<1>7. ASSUME NEW p \in Pos \cup {-1}, Last(p) PROVE p = M
  <2>1. CASE S = {}
    BY <1>2, <1>4, <1>7, <2>1
  <2>2. CASE S # {}
    <3>1. p # -1
      BY <1>2, <1>3, <1>7, <2>2
    <3> QED BY <1>2, <1>4, <1>7, <3>1
  <2> QED BY <2>1, <2>2
<1>8. Logical!LastPos(s) = M
  BY <1>5, <1>6, <1>7
<1> QED BY <1>8 DEF M

(* What the window hides, what a step keeps of a cell, and what it adds.   *)
Hidden(i, S) == \A s \in S : IsMaskedSwa(Stable.cell[i].pos, SeqPosMax(Stable, s) + 1)

Kept(i) ==
    /\ kdata'[i].tok = kdata[i].tok
    /\ Stable'.cell[i].pos = Stable.cell[i].pos
    /\ Stable'.cell[i].seq \subseteq Stable.cell[i].seq
    /\ Hidden(i, Stable.cell[i].seq \ Stable'.cell[i].seq)

Added(i) ==
    /\ Stable'.cell[i].pos \in Pos
    /\ \A m \in Live(Stable) : kdata'[i].tok # kdata[m].tok
    /\ \A m \in Live(Stable) : \A s \in Stable'.cell[i].seq \cap Stable.cell[m].seq :
         Stable.cell[m].pos < Stable'.cell[i].pos

(* A step appends when of each entry it keeps all, or all but what the     *)
(* window hides, and the entries it adds are of new tokens behind the rest.*)
LEMMA AppendWith ==
  ASSUME Well(Stable), Well(Stable'), TokInv, KdataType', NEW I \in SUBSET Cell,
         \A i \in Live(Stable) : \/ i \notin I /\ i \in Live(Stable') /\ Kept(i)
                                 \/ Hidden(i, Stable.cell[i].seq),
         \A i \in Live(Stable') : \/ i \in I /\ Added(i)
                                  \/ i \notin I /\ i \in Live(Stable) /\ Kept(i),
         \A i, m \in I : i # m => kdata'[i].tok # kdata'[m].tok
  PROVE  TokInv' /\ Logical!Append
<1> DEFINE was(i) == [tok |-> kdata[i].tok, pos |-> Stable.cell[i].pos,
                      seqs |-> Stable.cell[i].seq]
           is(i)  == [tok |-> kdata'[i].tok, pos |-> Stable'.cell[i].pos,
                      seqs |-> Stable'.cell[i].seq]
<1>1. /\ Entries  = {was(i) : i \in Live(Stable)}
      /\ Entries' = {is(i) : i \in Live(Stable')}
  BY DEF Entries
<1>2. /\ \A i : was(i).tok = kdata[i].tok /\ was(i).pos = Stable.cell[i].pos
                /\ was(i).seqs = Stable.cell[i].seq
      /\ \A i : is(i).tok = kdata'[i].tok /\ is(i).pos = Stable'.cell[i].pos
                /\ is(i).seqs = Stable'.cell[i].seq
  OBVIOUS
<1> HIDE DEF was, is
<1>3. DistinctToks(Stable)
  BY DEF TokInv
<1>4. TokInv'
  <2>1. ASSUME NEW i \in Live(Stable'), NEW m \in Live(Stable'), i # m
        PROVE  kdata'[i].tok # kdata'[m].tok
    <3>1. CASE i \in I /\ m \in I
      BY <2>1, <3>1
    <3>2. CASE i \notin I /\ m \notin I
      BY <1>3, <2>1, <3>2 DEF Kept, DistinctToks
    <3>3. CASE i \in I /\ m \notin I
      BY <3>3 DEF Kept, Added
    <3>4. CASE i \notin I /\ m \in I
      BY <3>4 DEF Kept, Added
    <3> QED BY <3>1, <3>2, <3>3, <3>4
  <2>2. DistinctToks(Stable)'
    BY <2>1 DEF DistinctToks
  <2> QED BY <2>2 DEF TokInv
<1>5. ASSUME NEW i \in Cell, Stable.cell[i].seq \subseteq Seqs, NEW S \in SUBSET Stable.cell[i].seq
      PROVE  Hidden(i, S) => Logical!LostTo(was(i), S)
  <2> SUFFICES ASSUME Hidden(i, S), NEW s \in S
               PROVE  IsMaskedSwa(was(i).pos, Logical!LastPos(s) + 1)
    BY DEF Logical!LostTo
  <2>1. Logical!LastPos(s) = SeqPosMax(Stable, s)
    BY <1>5, LastPosOf
  <2>2. IsMaskedSwa(Stable.cell[i].pos, SeqPosMax(Stable, s) + 1)
    BY DEF Hidden
  <2> QED BY <1>2, <2>1, <2>2
<1>6. \A i \in Live(Stable) : i \in Cell /\ Stable.cell[i].seq \subseteq Seqs
  BY DEF Live, Well, KVCellsType, CellState
<1>7. ASSUME NEW i \in Live(Stable), Kept(i) PROVE Logical!Outlives(was(i), is(i))
  <2>1. is(i).seqs \subseteq was(i).seqs /\ is(i).tok = was(i).tok /\ is(i).pos = was(i).pos
    BY <1>2, <1>7 DEF Kept
  <2>2. Logical!LostTo(was(i), was(i).seqs \ is(i).seqs)
    <3> DEFINE S == Stable.cell[i].seq \ Stable'.cell[i].seq
    <3>1. Hidden(i, S) /\ S \in SUBSET Stable.cell[i].seq /\ was(i).seqs \ is(i).seqs = S
      BY <1>2, <1>7 DEF Kept
    <3> HIDE DEF S
    <3>2. Logical!LostTo(was(i), S)
      BY <1>5, <1>6, <3>1
    <3> QED BY <3>1, <3>2
  <2> QED BY <2>1, <2>2 DEF Logical!Outlives
<1>8. \A i \in Live(Stable) : \/ Logical!LostTo(was(i), was(i).seqs)
                              \/ i \in Live(Stable') /\ Logical!Outlives(was(i), is(i))
  <2> SUFFICES ASSUME NEW i \in Live(Stable)
               PROVE  \/ Logical!LostTo(was(i), was(i).seqs)
                      \/ i \in Live(Stable') /\ Logical!Outlives(was(i), is(i))
    OBVIOUS
  <2>1. CASE Hidden(i, Stable.cell[i].seq)
    <3>1. Logical!LostTo(was(i), Stable.cell[i].seq)
      BY <1>5, <1>6, <2>1
    <3> QED BY <1>2, <3>1
  <2>2. CASE i \in Live(Stable') /\ Kept(i)
    BY <1>7, <2>2
  <2> QED BY <2>1, <2>2
<1>9. ASSUME NEW i \in Live(Stable'), Added(i) PROVE Logical!Follows(is(i))
  <2>1. \A e \in Entries : e.tok # is(i).tok
    BY <1>1, <1>2, <1>9 DEF Added
  <2>2. ASSUME NEW s \in is(i).seqs PROVE is(i).pos > Logical!LastPos(s)
    <3>1. i \in Cell /\ s \in Stable'.cell[i].seq
      BY <1>2, <2>2 DEF Live
    <3>2. s \in Seqs
      BY <3>1 DEF Well, KVCellsType, CellState
    <3>3. Logical!LastPos(s) = SeqPosMax(Stable, s)
      BY <3>2, LastPosOf
    <3> DEFINE M == SeqPosMax(Stable, s)
               p == Stable'.cell[i].pos
    <3>4. p \in Nat
      BY <1>9, CellsAssumption DEF Added, Pos
    <3>5. CASE PosOf(Stable, s) = {}
      <4>1. M = -1
        BY <3>2, <3>5, SeqPosMaxIs
      <4> HIDE DEF M, p
      <4>2. p > M
        BY <3>4, <4>1
      <4> QED BY <1>2, <3>3, <4>2 DEF M, p
    <3>6. CASE PosOf(Stable, s) # {}
      <4>1. M \in PosOf(Stable, s)
        BY <3>2, <3>6, SeqPosMaxIs
      <4>2. PICK m \in Cell : s \in Stable.cell[m].seq /\ Stable.cell[m].pos = M
        BY <4>1 DEF PosOf
      <4>3. m \in Live(Stable)
        BY <4>2, SeenType
      <4>4. M < p
        BY <1>9, <3>1, <4>2, <4>3 DEF Added
      <4>5. M \in Nat
        BY <4>1, PosOfType, CellsAssumption DEF Pos
      <4> HIDE DEF M, p
      <4>6. p > M
        BY <3>4, <4>4, <4>5
      <4> QED BY <1>2, <3>3, <4>6 DEF M, p
    <3> QED BY <3>5, <3>6
  <2> QED BY <2>1, <2>2 DEF Logical!Follows
<1>10. \A e \in Entries : Logical!LostTo(e, e.seqs) \/ \E x \in Entries' : Logical!Outlives(e, x)
  BY <1>1, <1>8
<1>11. \A x \in Entries' : Logical!Follows(x) \/ \E e \in Entries : Logical!Outlives(e, x)
  BY <1>1, <1>7, <1>9
<1> QED BY <1>4, <1>10, <1>11 DEF Logical!Append

-----------------------------------------------------------------------------
(* What is to be decoded lies behind all that decode began with. *)
FrontInv == pc # "idle" => Ahead(ubs, entry.cells)

VInv == IInv /\ OwnInv /\ PlacesInv /\ SingleInv /\ FrontInv /\ TokInv

(* What one cell keeps of the sequences it had. *)
Rests(b, c, i) ==
    /\ c.cell[i].seq \subseteq b.cell[i].seq
    /\ c.cell[i].seq # {} => c.cell[i].pos = b.cell[i].pos
    /\ \A s \in b.cell[i].seq \ c.cell[i].seq : IsMaskedSwa(b.cell[i].pos, SeqPosMax(b, s) + 1)

(* Every cell that prepare puts back keeps all but what is masked. *)
LEMMA RestRests ==
  ASSUME NEW b, Well(b), NEW c, Well(c), NEW I \in SUBSET Cell, Rest(b, c, I), NEW i \in Cell
  PROVE  Rests(b, c, i)
<1>1. \A j \in I : CanUse(b, j)
  BY DEF Rest
<1>2. b.cell[i].seq \in SUBSET Seqs /\ c.cell[i].seq \in SUBSET Seqs
  BY DEF Well, KVCellsType, CellState
<1>3. \A s \in Seqs :
         /\ s \in c.cell[i].seq => s \in b.cell[i].seq /\ c.cell[i].pos = b.cell[i].pos
         /\ s \in b.cell[i].seq /\ s \notin c.cell[i].seq => LostTo(b, I, s, b.cell[i].pos)
  BY DEF Rest
<1>4. \A s \in b.cell[i].seq \ c.cell[i].seq : IsMaskedSwa(b.cell[i].pos, SeqPosMax(b, s) + 1)
  BY <1>1, <1>2, <1>3, LostMasked
<1> QED BY <1>2, <1>3, <1>4 DEF Rests

(* Of entries whose cells keep all but what is hidden, and get no other.   *)
LEMMA KeptWhen ==
  ASSUME Well(Stable), Well(Stable'), NEW i \in Cell, Rests(Stable, Stable', i)
  PROVE  /\ Stable'.cell[i].seq = {} => Hidden(i, Stable.cell[i].seq)
         /\ Stable'.cell[i].seq # {} =>
              /\ i \in Live(Stable) /\ i \in Live(Stable')
              /\ kdata'[i].tok = kdata[i].tok => Kept(i)
<1>1. Stable'.cell[i].seq = {} => Hidden(i, Stable.cell[i].seq)
  BY DEF Rests, Hidden
<1>2. ASSUME NEW s \in Stable'.cell[i].seq
      PROVE  i \in Live(Stable) /\ i \in Live(Stable')
  BY <1>2, SeenType DEF Rests
<1>3. Stable'.cell[i].seq # {} /\ kdata'[i].tok = kdata[i].tok => Kept(i)
  BY DEF Rests, Hidden, Kept
<1> QED BY <1>1, <1>2, <1>3

(* Putting the cells back may cost sequences what the window hides. *)
LEMMA PreparedAppends ==
  ASSUME SwaType # "none", VInv, IInv', Prepared
  PROVE  TokInv' /\ Logical!Append
<1> DEFINE b == entry.cells
           c == cells
           I == Targets(slots[1])
<1>1. /\ pc = "restore" /\ pc' = "process" /\ stack = <<>> /\ slots # <<>>
      /\ UNCHANGED <<cells, kdata, entry>>
      /\ IInv /\ AllOwned(c) /\ WindowTrial /\ TokInv
  BY DEF Prepared, decoding, VInv, OwnInv, PlacesInv
<1>2. Well(b) /\ Well(c) /\ Rest(b, c, I) /\ Stable = b /\ Stable' = c
  BY <1>1 DEF WindowTrial, IInv, Stable, Trying
<1>3. I \in SUBSET Cell
  <2>1. slots \in Seq(Seq(Cell))
    BY <1>1 DEF IInv, SlotsInv
  <2>2. slots[1] \in Seq(Cell)
    BY <1>1, <2>1
  <2> QED BY <2>2 DEF Targets
<1>4. \A i \in Cell : Rests(b, c, i)
  BY <1>2, <1>3, RestRests
<1> HIDE DEF b, c, I
<1>5. \A i \in Cell : /\ c.cell[i].seq = {} => Hidden(i, b.cell[i].seq)
                      /\ c.cell[i].seq # {} => i \in Live(b) /\ i \in Live(c) /\ Kept(i)
  <2> SUFFICES ASSUME NEW i \in Cell
               PROVE  /\ c.cell[i].seq = {} => Hidden(i, b.cell[i].seq)
                      /\ c.cell[i].seq # {} => i \in Live(b) /\ i \in Live(c) /\ Kept(i)
    OBVIOUS
  <2>1. Rests(Stable, Stable', i) /\ Well(Stable) /\ Well(Stable')
    BY <1>2, <1>4
  <2> QED BY <1>1, <1>2, <2>1, KeptWhen
<1>6. \A i \in Live(b) : i \in Cell
  BY DEF Live
<1>7. \A i \in Live(c) : i \in Cell /\ c.cell[i].seq # {}
  BY <1>1 DEF Live, AllOwned
<1>8. KdataType'
  BY <1>1 DEF TokInv, KdataType
<1>9. /\ {} \in SUBSET Cell
      /\ \A i \in Live(Stable) : \/ i \notin {} /\ i \in Live(Stable') /\ Kept(i)
                                 \/ Hidden(i, Stable.cell[i].seq)
      /\ \A i \in Live(Stable') : \/ i \in {} /\ Added(i)
                                  \/ i \notin {} /\ i \in Live(Stable) /\ Kept(i)
      /\ \A i, m \in {} : i # m => kdata'[i].tok # kdata'[m].tok
      /\ Well(Stable) /\ Well(Stable')
  BY <1>2, <1>5, <1>6, <1>7
<1> QED BY <1>1, <1>8, <1>9, AppendWith

(***************************************************************************)
(* A ubatch is applied over a window: what it takes, and what sequences    *)
(* lose by it, is hidden, and its tokens are where they should be.         *)
(***************************************************************************)
LEMMA TakenFacts ==
  ASSUME SwaType # "none", VInv, pc = "process",
         NEW c, c = ApplyUbatch(cells, ubs[1], slots[1])
  PROVE  /\ Well(cells) /\ Well(c) /\ Stable = cells /\ Ahead(ubs, cells)
         /\ 1 \in 1 .. Len(ubs) /\ Len(ubs) = 1
         /\ ubs[1] \in Seq(Token) /\ slots[1] \in Seq(Cell) /\ Len(slots[1]) = Len(ubs[1])
         /\ Targets(slots[1]) \in SUBSET Cell
         /\ \A i \in Targets(slots[1]) :
              /\ Hidden(i, cells.cell[i].seq)
              /\ SlotOf(slots[1], i) \in 1 .. Len(ubs[1])
              /\ \A s \in c.cell[i].seq :
                   /\ s \in IdsOf(ubs[1][SlotOf(slots[1], i)].ids)
                   /\ c.cell[i].pos = ubs[1][SlotOf(slots[1], i)].pos
         /\ \A i \in Cell \ Targets(slots[1]) : Rests(cells, c, i)
<1> DEFINE ub   == ubs[1]
           idxs == slots[1]
           I    == Targets(idxs)
           b    == entry.cells
<1>1. /\ IInv /\ Well(cells) /\ AllOwned(cells) /\ WindowTrial /\ Ahead(ubs, b)
      /\ stack = <<>> /\ slots # <<>> /\ Stable = cells
  BY DEF VInv, OwnInv, PlacesInv, IInv, FrontInv, StackInv, SlotsInv, Stable, Trying
<1>2. Len(ubs) = 1 /\ Well(b) /\ Rest(b, cells, I)
  BY <1>1 DEF WindowTrial
<1>3. /\ 1 \in 1 .. Len(ubs) /\ ub \in Seq(Token) /\ idxs \in Seq(Cell)
      /\ Len(idxs) = Len(ub) /\ Well(c)
  <2>1. slots[1] \in Seq(Cell) /\ Len(slots[1]) = Len(ubs[1]) /\ Well(c)
    BY <1>1, ProcessType
  <2>2. 1 \in 1 .. Len(ubs) /\ ubs \in Seq(Seq(Token))
    BY <1>1, <1>2 DEF IInv, UbsInv
  <2>3. ubs[1] \in Seq(Token)
    BY <2>2
  <2> QED BY <2>1, <2>2, <2>3
<1>4. I \in SUBSET Cell
  BY <1>3 DEF Targets
<1>5. \A i \in I : CanUse(cells, i)
  BY <1>1, <1>2, <1>4, RestCanUse
<1>6. \A i \in Cell : cells.cell[i].seq \in SUBSET Seqs /\ c.cell[i].seq \in SUBSET Seqs
  BY <1>1, <1>3 DEF Well, KVCellsType, CellState
<1>7. ASSUME NEW i \in I PROVE Hidden(i, cells.cell[i].seq)
  <2>1. CASE IsEmpty(cells, i)
    <3>1. cells.cell[i].seq = {}
      BY <1>1, <1>4, <2>1 DEF Well, IndexConsistent, Vacant
    <3> QED BY <1>1, <3>1 DEF Hidden
  <2>2. CASE ~IsEmpty(cells, i)
    <3>1. \E s \in Seqs : /\ cells.cell[i].seq = {s}
                          /\ IsMaskedSwa(cells.cell[i].pos, SeqPosMax(cells, s) + 1)
      BY <1>5, <2>2 DEF CanUse
    <3> QED BY <1>1, <3>1 DEF Hidden
  <2> QED BY <2>1, <2>2
<1>8. ASSUME NEW i \in Cell, NEW s \in Seqs
      PROVE  /\ i \notin I =>
                  /\ s \in c.cell[i].seq <=> /\ s \in cells.cell[i].seq
                                             /\ ~LostTo(cells, I, s, cells.cell[i].pos)
                  /\ s \in c.cell[i].seq => c.cell[i].pos = cells.cell[i].pos
             /\ i \in I => /\ s \in c.cell[i].seq => s \in IdsOf(ub[SlotOf(idxs, i)].ids)
                           /\ s \in c.cell[i].seq => c.cell[i].pos = ub[SlotOf(idxs, i)].pos
  BY <1>1, <1>3, ApplyDoes
<1> HIDE DEF I
<1>9. ASSUME NEW i \in Cell \ I PROVE Rests(cells, c, i)
  <2>1. \A s \in cells.cell[i].seq \ c.cell[i].seq :
           IsMaskedSwa(cells.cell[i].pos, SeqPosMax(cells, s) + 1)
    BY <1>1, <1>4, <1>5, <1>6, <1>8, LostMasked
  <2> QED BY <1>6, <1>8, <2>1 DEF Rests
<1>10. \A i \in I : SlotOf(idxs, i) \in 1 .. Len(ub)
  BY <1>3, SlotOfType DEF I
<1>11. Ahead(ubs, cells)
  <2>1. ASSUME NEW i \in Live(cells)
        PROVE  /\ i \in Live(b) /\ cells.cell[i].pos = b.cell[i].pos
               /\ cells.cell[i].seq \subseteq b.cell[i].seq
    <3>1. i \in Cell /\ Rests(b, cells, i)
      BY <1>1, <1>2, <1>4, RestRests DEF Live
    <3>2. PICK s \in cells.cell[i].seq : TRUE
      BY <1>1 DEF AllOwned
    <3>3. s \in b.cell[i].seq /\ cells.cell[i].pos = b.cell[i].pos
      BY <3>1, <3>2 DEF Rests
    <3> QED BY <1>2, <3>1, <3>3, SeenType DEF Rests
  <2> QED BY <1>1, <2>1, AheadOfLess
<1>12. \A i \in I : \A s \in c.cell[i].seq :
           s \in IdsOf(ub[SlotOf(idxs, i)].ids) /\ c.cell[i].pos = ub[SlotOf(idxs, i)].pos
  BY <1>4, <1>6, <1>8
<1> QED BY <1>1, <1>2, <1>3, <1>4, <1>7, <1>9, <1>10, <1>11, <1>12 DEF I

(* A ubatch over a window appends its tokens. *)
LEMMA ProcessAppends ==
  ASSUME SwaType # "none", VInv, OwnInv', ProcessUbatch
  PROVE  TokInv' /\ Logical!Append
<1> DEFINE ub   == ubs[1]
           idxs == slots[1]
           I    == Targets(idxs)
           c    == ApplyUbatch(cells, ub, idxs)
           new(i) == NewToks(I)[i]
           kd   == [i \in Cell |-> IF i \notin I THEN kdata[i]
                                   ELSE [tok |-> new(i), rot |-> ub[SlotOf(idxs, i)].pos]]
<1>1. pc = "process" /\ cells' = c /\ kdata' = Scrub(c, kd) /\ Stable' = c
  BY DEF ProcessUbatch, EndDecode, Trying, Stable
<1>2. KdataType /\ TokInv /\ AllOwned(cells) /\ AllOwned(c)
  BY <1>1 DEF VInv, TokInv, OwnInv
<1>3. /\ Well(cells) /\ Well(c) /\ Stable = cells /\ Ahead(ubs, cells)
      /\ 1 \in 1 .. Len(ubs) /\ ub \in Seq(Token) /\ I \in SUBSET Cell
      /\ \A i \in I : /\ Hidden(i, cells.cell[i].seq)
                      /\ SlotOf(idxs, i) \in 1 .. Len(ub)
                      /\ \A s \in c.cell[i].seq : /\ s \in IdsOf(ub[SlotOf(idxs, i)].ids)
                                                  /\ c.cell[i].pos = ub[SlotOf(idxs, i)].pos
      /\ \A i \in Cell \ I : Rests(cells, c, i)
  BY <1>1, TakenFacts
<1>4. \A k \in 1 .. Len(ub) : \A s \in IdsOf(ub[k].ids) : \A m \in Live(cells) :
          s \in cells.cell[m].seq => cells.cell[m].pos < ub[k].pos
  BY <1>3 DEF Ahead
<1> HIDE DEF ub, idxs, c, I
<1>5. /\ \A i \in I : new(i) \in Fresh
      /\ \A i, m \in I : i # m => new(i) # new(m)
  <2>1. /\ NewToks(I) \in [I -> Fresh]
        /\ \A i, m \in I : i # m => NewToks(I)[i] # NewToks(I)[m]
    BY <1>2, <1>3, NewToksType
  <2> QED BY <2>1
<1> HIDE DEF new
<1>6. \A i \in I : ub[SlotOf(idxs, i)].pos \in Pos /\ ub[SlotOf(idxs, i)].pos \in Int
  <2>1. \A i \in I : ub[SlotOf(idxs, i)] \in Token
    BY <1>3
  <2> QED BY <2>1, CellsAssumption DEF Token, Pos
<1>7. kd \in [Cell -> [tok : Tok \cup {NoTok}, rot : Int]]
  <2>1. \A i \in I : [tok |-> new(i), rot |-> ub[SlotOf(idxs, i)].pos]
                       \in [tok : Tok \cup {NoTok}, rot : Int]
    BY <1>5, <1>6 DEF Fresh
  <2> QED BY <1>2, <2>1 DEF KdataType
<1>8. \A i \in Cell : /\ i \notin I => kd[i] = kdata[i]
                      /\ i \in I => kd[i].tok = new(i)
  OBVIOUS
<1> HIDE DEF kd
<1>9. KdataType' /\ \A i \in Live(c) : kdata'[i] = kd[i] /\ i \in Cell /\ c.cell[i].seq # {}
  BY <1>1, <1>2, <1>7, ScrubType DEF KdataType, Live, AllOwned
<1>10. ASSUME NEW i \in Cell \ I
       PROVE  /\ c.cell[i].seq = {} => Hidden(i, cells.cell[i].seq)
              /\ c.cell[i].seq # {} => i \in Live(cells) /\ i \in Live(c) /\ Kept(i)
  <2>1. Rests(Stable, Stable', i) /\ Well(Stable) /\ Well(Stable')
    BY <1>1, <1>3
  <2>2. i \in Live(c) => kdata'[i].tok = kdata[i].tok
    BY <1>8, <1>9
  <2> QED BY <1>1, <1>3, <2>1, <2>2, KeptWhen
<1>11. ASSUME NEW i \in I, i \in Live(c) PROVE Added(i)
  <2>1. \A m \in Live(cells) : kdata'[i].tok # kdata[m].tok
    BY <1>5, <1>8, <1>9, <1>11 DEF Fresh, Live
  <2>2. c.cell[i].pos \in Pos
    BY <1>3, <1>6, <1>9, <1>11
  <2>3. ASSUME NEW m \in Live(cells), NEW s \in c.cell[i].seq \cap cells.cell[m].seq
        PROVE  cells.cell[m].pos < c.cell[i].pos
    BY <1>3, <1>4, <2>3
  <2> QED BY <1>1, <1>3, <2>1, <2>2, <2>3 DEF Added
<1> DEFINE J == I \cap Live(c)
<1>12. /\ J \in SUBSET Cell
       /\ \A i, m \in J : i # m => kdata'[i].tok # kdata'[m].tok
  BY <1>3, <1>5, <1>8, <1>9
<1>13. \A i \in Live(Stable) : \/ i \notin J /\ i \in Live(Stable') /\ Kept(i)
                               \/ Hidden(i, Stable.cell[i].seq)
  <2>1. \A i \in Live(cells) : i \in Cell
    BY DEF Live
  <2> QED BY <1>1, <1>3, <1>10, <2>1
<1>14. \A i \in Live(Stable') : \/ i \in J /\ Added(i)
                                \/ i \notin J /\ i \in Live(Stable) /\ Kept(i)
  BY <1>1, <1>3, <1>9, <1>10, <1>11
<1> HIDE DEF J
<1>15. Well(Stable) /\ Well(Stable')
  BY <1>1, <1>3
<1> QED BY <1>2, <1>9, <1>12, <1>13, <1>14, <1>15, AppendWith

(* A ubatch that fails over a window leaves what the window shows. *)
LEMMA FailAppends ==
  ASSUME SwaType # "none", VInv, IInv', OwnInv', FailUbatch
  PROVE  TokInv' /\ Logical!Append
<1> DEFINE ub   == ubs[1]
           idxs == slots[1]
           I    == Targets(idxs)
           c    == ApplyUbatch(cells, ub, idxs)
           undo == [i \in Cell |-> {s \in Seqs :
                      \E k \in DOMAIN ub : /\ ub[k].ids[1] = s
                                           /\ c.cell[i].pos >= ub[k].pos}]
           kd   == [i \in Cell |-> IF i \in I THEN NoData ELSE kdata[i]]
<1>1. /\ pc = "process" /\ ComputeFails = TRUE /\ cells' = SeqRm(c, undo)
      /\ kdata' = Scrub(cells', kd) /\ Stable' = cells'
  <2>1. ComputeFails \in BOOLEAN
    BY CacheAssumption
  <2> QED BY <2>1 DEF FailUbatch, EndDecode, Trying, Stable
<1>2. /\ KdataType /\ TokInv /\ SingleInv /\ Well(cells') /\ AllOwned(cells')
  BY DEF VInv, TokInv, OwnInv, IInv
<1>3. /\ Well(cells) /\ Well(c) /\ Stable = cells /\ Ahead(ubs, cells)
      /\ 1 \in 1 .. Len(ubs) /\ ub \in Seq(Token) /\ I \in SUBSET Cell
      /\ \A i \in I : /\ Hidden(i, cells.cell[i].seq)
                      /\ SlotOf(idxs, i) \in 1 .. Len(ub)
                      /\ \A s \in c.cell[i].seq : /\ s \in IdsOf(ub[SlotOf(idxs, i)].ids)
                                                  /\ c.cell[i].pos = ub[SlotOf(idxs, i)].pos
      /\ \A i \in Cell \ I : Rests(cells, c, i)
  BY <1>1, TakenFacts
<1>4. \A k \in 1 .. Len(ub) : \A s \in IdsOf(ub[k].ids) : \A m \in Live(cells) :
          s \in cells.cell[m].seq => cells.cell[m].pos < ub[k].pos
  BY <1>3 DEF Ahead
<1>5. \A k \in 1 .. Len(ub) : /\ ub[k].pos \in Int /\ k \in DOMAIN ub
                              /\ ub[k].ids[1] \in Seqs /\ IdsOf(ub[k].ids) = {ub[k].ids[1]}
  <2> SUFFICES ASSUME NEW k \in 1 .. Len(ub)
               PROVE  /\ ub[k].pos \in Int /\ k \in DOMAIN ub
                      /\ ub[k].ids[1] \in Seqs /\ IdsOf(ub[k].ids) = {ub[k].ids[1]}
    OBVIOUS
  <2>3. Len(ub[k].ids) = 1
    <3>1. \A m \in 1 .. Len(ubs[1]) : Len(ubs[1][m].ids) = 1
      BY <1>1, <1>2, <1>3 DEF SingleInv
    <3> QED BY <3>1
  <2>1. ub[k] \in Token /\ Len(ub[k].ids) = 1 /\ k \in DOMAIN ub
    <3> HIDE DEF ub
    <3> QED BY <1>3, <2>3
  <2>2. ub[k].pos \in Pos /\ ub[k].ids \in Seq(Seqs)
    BY <2>1 DEF Token
  <2> QED BY <2>1, <2>2, CellsAssumption DEF IdsOf, Pos
<1>6. DOMAIN ub = 1 .. Len(ub)
  BY <1>3
<1>7. \A i \in Cell : \A s : s \in undo[i] <=>
         s \in Seqs /\ \E k \in DOMAIN ub : ub[k].ids[1] = s /\ c.cell[i].pos >= ub[k].pos
  OBVIOUS
<1> HIDE DEF ub, idxs, c, I, undo
<1>8. \A i \in Cell, s \in Seqs :
         /\ s \in cells'.cell[i].seq <=> s \in c.cell[i].seq /\ s \notin undo[i]
         /\ s \in cells'.cell[i].seq => cells'.cell[i].pos = c.cell[i].pos
  BY <1>1, <1>3, SeqRmSees
<1>9. \A i \in Cell : /\ cells'.cell[i].seq \in SUBSET Seqs /\ c.cell[i].seq \in SUBSET Seqs
                      /\ c.cell[i].seq # {} => c.cell[i].pos \in Int
  <2>1. \A i \in Cell : cells'.cell[i].seq \in SUBSET Seqs /\ c.cell[i].seq \in SUBSET Seqs
    BY <1>2, <1>3 DEF Well, KVCellsType, CellState
  <2>2. \A i \in Cell : c.cell[i].seq # {} => c.cell[i].pos \in Int
    BY <1>3, SeenType, CellsAssumption DEF Pos
  <2> QED BY <2>1, <2>2
<1>10. ASSUME NEW i \in I PROVE cells'.cell[i].seq = {}
  <2> SUFFICES ASSUME NEW s \in cells'.cell[i].seq PROVE FALSE
    OBVIOUS
  <2> DEFINE k == SlotOf(idxs, i)
  <2>1. i \in Cell /\ s \in Seqs /\ s \in c.cell[i].seq /\ s \notin undo[i]
    BY <1>3, <1>8, <1>9
  <2>2. k \in 1 .. Len(ub) /\ s \in IdsOf(ub[k].ids) /\ c.cell[i].pos = ub[k].pos
    BY <1>3, <2>1
  <2> HIDE DEF k
  <2>3. s = ub[k].ids[1] /\ k \in DOMAIN ub /\ ub[k].pos \in Int
    BY <1>5, <2>2
  <2> QED BY <1>7, <2>1, <2>2, <2>3
<1>11. ASSUME NEW i \in Cell \ I PROVE Rests(cells, cells', i)
  <2>1. Rests(cells, c, i)
    BY <1>3
  <2>2. ASSUME NEW s \in c.cell[i].seq PROVE s \notin undo[i]
    <3> SUFFICES ASSUME s \in undo[i] PROVE FALSE
      OBVIOUS
    <3>1. PICK k \in DOMAIN ub : ub[k].ids[1] = s /\ c.cell[i].pos >= ub[k].pos
      BY <1>7
    <3>2. k \in 1 .. Len(ub) /\ s \in IdsOf(ub[k].ids) /\ ub[k].pos \in Int
      BY <1>5, <1>6, <3>1
    <3>3. s \in cells.cell[i].seq /\ c.cell[i].pos = cells.cell[i].pos /\ c.cell[i].pos \in Int
      BY <1>9, <2>1 DEF Rests
    <3>4. i \in Live(cells)
      BY <1>3, <3>3, SeenType
    <3>5. cells.cell[i].pos < ub[k].pos
      BY <1>4, <3>2, <3>3, <3>4
    <3> QED BY <3>1, <3>2, <3>3, <3>5
  <2>3. cells'.cell[i].seq = c.cell[i].seq
    BY <1>8, <1>9, <2>2
  <2>4. c.cell[i].seq # {} => cells'.cell[i].pos = c.cell[i].pos
    BY <1>8, <1>9, <2>3
  <2> QED BY <2>1, <2>3, <2>4 DEF Rests
<1>12. KdataType' /\ \A i \in Live(cells') : kdata'[i] = kd[i] /\ i \in Cell /\ cells'.cell[i].seq # {}
  <2>1. NoData \in [tok : Tok \cup {NoTok}, rot : Int]
    BY DEF NoData
  <2>2. kd \in [Cell -> [tok : Tok \cup {NoTok}, rot : Int]]
    BY <1>2, <2>1 DEF KdataType
  <2> HIDE DEF kd
  <2> QED BY <1>1, <1>2, <2>2, ScrubType DEF KdataType, Live, AllOwned
<1>13. ASSUME NEW i \in Cell \ I
       PROVE  /\ cells'.cell[i].seq = {} => Hidden(i, cells.cell[i].seq)
              /\ cells'.cell[i].seq # {} => i \in Live(cells) /\ i \in Live(cells') /\ Kept(i)
  <2>1. Rests(Stable, Stable', i) /\ Well(Stable) /\ Well(Stable')
    BY <1>1, <1>2, <1>3, <1>11
  <2>2. i \in Live(cells') => kdata'[i].tok = kdata[i].tok
    BY <1>12
  <2> QED BY <1>1, <1>3, <2>1, <2>2, KeptWhen
<1> HIDE DEF kd
<1>14. /\ {} \in SUBSET Cell
       /\ \A i \in Live(Stable) : \/ i \notin {} /\ i \in Live(Stable') /\ Kept(i)
                                  \/ Hidden(i, Stable.cell[i].seq)
       /\ \A i \in Live(Stable') : \/ i \in {} /\ Added(i)
                                   \/ i \notin {} /\ i \in Live(Stable) /\ Kept(i)
       /\ \A i, m \in {} : i # m => kdata'[i].tok # kdata'[m].tok
       /\ Well(Stable) /\ Well(Stable')
  <2>1. \A i \in Live(cells) : i \in Cell
    BY DEF Live
  <2>2. \A i \in Live(cells') : i \notin I
    BY <1>10, <1>12
  <2> QED BY <1>1, <1>2, <1>3, <1>12, <1>13, <2>1, <2>2
<1> QED BY <1>2, <1>12, <1>14, AppendWith

-----------------------------------------------------------------------------
(* The invariant over a window, but for the tokens. *)
LEMMA NextFront ==
  ASSUME CpRepeats = FALSE, SwaType # "none", OneTrial, SingleTokens, ForksOnly,
         VInv, [Next]_vars
  PROVE  (IInv /\ OwnInv /\ PlacesInv /\ SingleInv /\ FrontInv)'
<1>1. IInv /\ OwnInv /\ PlacesInv /\ SingleInv /\ FrontInv /\ OInv
  BY DEF VInv, OInv
<1>2. IInv' /\ OwnInv'
  BY <1>1, NextOwn DEF OInv
<1>3. PlacesInv'
  BY <1>1, <1>2, NextPlaces
<1>4. ASSUME NEW b \in Batches, DecodeBegin(b) PROVE SingleInv' /\ FrontInv'
  <2>1. Well(cells) /\ Update /\ entry' = [cells |-> cells', head |-> head]
    BY <1>1, <1>4 DEF IInv, DecodeBegin
  <2>2. PICK pos \in [DOMAIN b -> Pos] : BatchPos(b, pos) /\ BatchOK(b, pos) /\ ubs' = Split(b, pos)
    BY <1>4 DEF DecodeBegin
  <2>3. Ahead(ubs', cells)
    BY <2>1, <2>2, SplitForward
  <2>4. \A i \in Live(cells') : i \in Live(cells) /\ i \in Cell
    BY <2>1, UpdateSame DEF Live
  <2>5. Ahead(ubs', cells')
    BY <2>1, <2>3, <2>4, UpdateSame, AheadOfLess
  <2>6. FrontInv'
    BY <2>1, <2>5 DEF FrontInv
  <2> QED BY <1>4, <2>6, DecodeBeginSingle
<1>5. ASSUME RetryPrepare PROVE SingleInv' /\ FrontInv'
  <2>1. /\ Well(cells) /\ Update /\ entry' = [cells |-> cells', head |-> head] /\ ubs' = ubs
        /\ Trying /\ pc # "idle" /\ stack = <<>> /\ slots = <<>>
    BY <1>1, <1>5 DEF IInv, RetryPrepare, Trying
  <2>2. Ahead(ubs, cells)
    BY <1>1, <2>1, NothingFound DEF FrontInv
  <2>3. \A i \in Live(cells') : i \in Live(cells) /\ i \in Cell
    BY <2>1, UpdateSame DEF Live
  <2>4. Ahead(ubs, cells')
    BY <2>1, <2>2, <2>3, UpdateSame, AheadOfLess
  <2> QED BY <1>1, <2>1, <2>4 DEF FrontInv, SingleInv
<1>6. ASSUME pc' = "idle", ubs' = <<>> \/ ubs' = ubs PROVE SingleInv' /\ FrontInv'
  BY <1>1, <1>6 DEF SingleInv, FrontInv
<1>7. ASSUME pc # "idle" \/ pc' = pc, UNCHANGED <<ubs, entry>> PROVE SingleInv' /\ FrontInv'
  BY <1>1, <1>7 DEF SingleInv, FrontInv
<1>8. ASSUME PlaceUbatch \/ PlacedAll \/ OutOfCells \/ RestoreOne \/ Prepared
      PROVE  SingleInv' /\ FrontInv'
  BY <1>7, <1>8 DEF PlaceUbatch, PlacedAll, OutOfCells, RestoreOne, Prepared, decoding
<1>9. ASSUME GiveUp \/ FailUbatch PROVE SingleInv' /\ FrontInv'
  BY <1>6, <1>9 DEF GiveUp, FailUbatch, EndDecode
<1>10. ASSUME ProcessUbatch PROVE SingleInv' /\ FrontInv'
  <2>1. Len(ubs) = 1
    BY <1>1, <1>10 DEF PlacesInv, WindowTrial, ProcessUbatch
  <2> QED BY <1>6, <1>10, <2>1 DEF ProcessUbatch, EndDecode
<1>11. DecodeStep => SingleInv' /\ FrontInv'
  BY <1>5, <1>8, <1>9, <1>10 DEF DecodeStep
<1>12. ASSUME UNCHANGED <<pc, decoding>> PROVE SingleInv' /\ FrontInv'
  BY <1>7, <1>12 DEF decoding
<1>13. \/ \E b \in Batches : DecodeBegin(b)
       \/ DecodeStep \/ UNCHANGED <<pc, decoding>>
  BY DEF Next, Clear, SeqRemoveAny, SeqRemove, SeqCopy, SeqShift, SeqDivide, SeqKeep,
         EndurkvRmCells, EndurkvCompactSeq, Call, vars
<1> QED BY <1>2, <1>3, <1>4, <1>11, <1>12, <1>13

(* Over a window too every step is one of the abstract cache, or none. *)
LEMMA WindowStepAs ==
  ASSUME CpRepeats = FALSE, ShiftFails = FALSE, SwaType # "none", VInv, IInv', OwnInv', [Next]_vars
  PROVE  TokInv' /\ (Logical!Next \/ Entries' = Entries)
<1>1. IInv /\ OwnInv /\ OInv /\ PlacesInv /\ TokInv /\ Well(cells)
  BY DEF VInv, OInv, IInv
<1>2. KdataType /\ DistinctToks(Stable)
  BY <1>1 DEF TokInv
<1>3. ASSUME NEW b \in Batches, DecodeBegin(b) PROVE TokInv' /\ Entries' = Entries
  <2>1. Update /\ Stable = cells /\ Stable' = cells'
    BY <1>3 DEF DecodeBegin, Stable, Trying
  <2> QED BY <1>1, <1>2, <2>1, UpdateEntries
<1>4. ASSUME PlaceUbatch \/ PlacedAll \/ OutOfCells \/ RestoreOne
      PROVE  TokInv' /\ Entries' = Entries
  <2>1. Stable' = Stable /\ kdata' = kdata
    BY <1>4 DEF PlaceUbatch, PlacedAll, OutOfCells, RestoreOne, Stable, Trying
  <2> QED BY <1>1, <1>2, <2>1, SameEntries DEF KdataType
<1>5. ASSUME RetryPrepare \/ GiveUp PROVE Stable = cells
  <2>1. Trying /\ stack = <<>> /\ slots = <<>>
    BY <1>5 DEF RetryPrepare, GiveUp, Trying
  <2> QED BY <1>1, <2>1, NothingFound
<1>6. ASSUME RetryPrepare PROVE TokInv' /\ Entries' = Entries
  <2>1. Update /\ Stable = cells /\ Stable' = cells'
    BY <1>5, <1>6 DEF RetryPrepare, Stable, Trying
  <2> QED BY <1>1, <1>2, <2>1, UpdateEntries
<1>7. ASSUME GiveUp PROVE TokInv' /\ Entries' = Entries
  <2>1. Stable' = Stable /\ Stable = cells /\ kdata' = Scrub(cells, kdata)
    BY <1>5, <1>7 DEF GiveUp, EndDecode, Stable, Trying
  <2>2. KdataType' /\ \A i \in Live(cells) : kdata'[i] = kdata[i]
    BY <1>2, <2>1, ScrubType DEF KdataType
  <2> QED BY <1>1, <2>1, <2>2, SameEntries
<1>8. ASSUME Prepared \/ ProcessUbatch \/ FailUbatch PROVE TokInv' /\ Logical!Next
  BY <1>8, PreparedAppends, ProcessAppends, FailAppends DEF Logical!Next
<1>9. ASSUME UNCHANGED vars PROVE TokInv' /\ Entries' = Entries
  <2>1. UNCHANGED <<cells, kdata, pc, entry>>
    BY <1>9 DEF vars, decoding
  <2>2. Stable' = Stable
    BY <2>1 DEF Stable, Trying
  <2> QED BY <1>1, <2>1, <2>2, SameEntries DEF TokInv, KdataType
<1>10. ASSUME \/ Clear
              \/ \E r \in Ranges :
                   \/ SeqRemoveAny(r)
                   \/ \E s \in Seqs :
                        \/ SeqRemove(s, r)
                        \/ \E t \in Seqs : SeqCopy(s, t, r)
                        \/ \E d \in Deltas : SeqShift(s, r, d)
                        \/ \E d \in Divisors : SeqDivide(s, r, d)
              \/ \E s \in Seqs :
                   \/ SeqKeep(s)
                   \/ \E keep \in SUBSET Cell : EndurkvRmCells(s, keep, NCells)
                   \/ EndurkvCompactSeq(s)
       PROVE  TokInv' /\ (Logical!Next \/ Entries' = Entries)
  <2>1. pc = "idle" /\ pc' = "idle"
    BY <1>10 DEF Clear, SeqRemoveAny, SeqRemove, SeqCopy, SeqShift, SeqDivide, SeqKeep,
                 EndurkvRmCells, EndurkvCompactSeq, Call
  <2> QED BY <1>1, <1>10, <2>1, CallAs
<1>11. DecodeStep => TokInv' /\ (Logical!Next \/ Entries' = Entries)
  BY <1>4, <1>6, <1>7, <1>8 DEF DecodeStep
<1> QED BY <1>3, <1>9, <1>10, <1>11 DEF Next

(* The cache is empty at first. *)
LEMMA InitLogical == Init => AInv /\ VInv /\ TokInv /\ Logical!Init
<1> SUFFICES ASSUME Init PROVE AInv /\ VInv /\ TokInv /\ Logical!Init
  OBVIOUS
<1>1. /\ pc = "idle" /\ cells = Reset /\ kdata = [i \in Cell |-> NoData]
  BY DEF Init
<1>2. Stable = cells /\ Live(cells) = {}
  BY <1>1, ResetWell DEF Live, IsEmpty, Vacant, Stable, Trying
<1>3. NoData \in [tok : Tok \cup {NoTok}, rot : Int]
  BY DEF NoData
<1>4. TokInv
  BY <1>1, <1>2, <1>3 DEF TokInv, KdataType, DistinctToks
<1>5. Logical!Init
  BY <1>2 DEF Entries, Logical!Init
<1>6. AInv
  BY InitAhead
<1>7. IInv /\ OwnInv /\ SingleInv
  BY <1>6 DEF AInv, TInv
<1>8. PlacesInv
  BY InitWindow DEF WInv
<1>9. FrontInv
  BY <1>1 DEF FrontInv
<1> QED BY <1>4, <1>5, <1>6, <1>7, <1>8, <1>9 DEF VInv

(***************************************************************************)
(* The cache implements LogicalKV: finding cells, trying a batch out and   *)
(* putting the cells back, the K-shift and compaction do not change the    *)
(* entries but for what a window hides, and everything else changes them   *)
(* as LogicalKV says, a batch by appending.  It takes a K-shift that does  *)
(* not fail, batches and copies of the kind the README tells of, and, over *)
(* a window of whatever kind and size, batches of one ubatch.              *)
(***************************************************************************)
THEOREM CacheImplementsLogicalKV ==
  ASSUME CpRepeats = FALSE, ShiftFails = FALSE, SingleTokens, ForksOnly,
         SwaType = "none" \/ OneTrial
  PROVE  Spec => ImplementsLogicalKV
<1>1. CASE SwaType = "none"
  <2>1. Init => RInv /\ Logical!Init
    BY InitLogical DEF RInv
  <2>2. RInv /\ [Next]_vars => RInv'
    BY <1>1, NextAhead, StepAs DEF RInv
  <2>3. RInv /\ [Next]_vars => [Logical!Next]_Entries
    BY StepAs
  <2> QED BY <2>1, <2>2, <2>3, PTL DEF Spec, ImplementsLogicalKV, Logical!Spec
<1>2. CASE SwaType # "none"
  <2>1. Init => VInv /\ Logical!Init
    BY InitLogical
  <2>2. VInv /\ [Next]_vars => (IInv /\ OwnInv /\ PlacesInv /\ SingleInv /\ FrontInv)'
    BY <1>2, NextFront
  <2>3. VInv /\ [Next]_vars => TokInv' /\ (Logical!Next \/ Entries' = Entries)
    BY <1>2, <2>2, WindowStepAs
  <2>4. VInv /\ [Next]_vars => VInv'
    BY <2>2, <2>3 DEF VInv
  <2>5. VInv /\ [Next]_vars => [Logical!Next]_Entries
    BY <2>3
  <2> QED BY <2>1, <2>4, <2>5, PTL DEF Spec, ImplementsLogicalKV, Logical!Spec
<1> QED BY <1>1, <1>2

-----------------------------------------------------------------------------
(***************************************************************************)
(* Over a window the cells decode works on are not those it began with: a  *)
(* sequence may lose what it has in them, and a cell that prepare took     *)
(* does not get its shift back.  It had none: a decode begins by applying  *)
(* what is pending, and from there on nothing is pending in any cell.      *)
(***************************************************************************)
Unshifted(c) == c.hasShift = FALSE /\ \A i \in Cell : c.cell[i].shift = 0

ShiftInv == pc # "idle" => Unshifted(cells)

(* An empty cell, or one at the position it had when prepare began. *)
AsBefore(i, p) == p # None => p = entry.cells.cell[i].pos

Took(k, i) == i \in Targets(stack[k].idxs)

(* What the first ubatch to take a cell found in it, and what is in a cell *)
(* that none has taken, is what was there when prepare began, or nothing.  *)
BackInv ==
    Trying =>
        /\ Unshifted(entry.cells)
        /\ \A i \in Cell :
             /\ (\A k \in 1 .. Len(stack) : ~Took(k, i)) => AsBefore(i, cells.cell[i].pos)
             /\ \A k \in 1 .. Len(stack) :
                  Took(k, i) /\ (\A j \in 1 .. k - 1 : ~Took(j, i)) =>
                      AsBefore(i, stack[k].old[SlotOf(stack[k].idxs, i)].pos)

KInv == IInv /\ OwnInv /\ KeysInv /\ SingleInv /\ ShiftInv /\ BackInv

(* Without a pending shift no cell has one. *)
LEMMA NothingPending ==
  ASSUME NEW c, Well(c), c.hasShift = FALSE,
         \A i \in Live(c) : c.cell[i].shift # 0 => c.hasShift = TRUE
  PROVE  Unshifted(c)
<1>1. \A i \in Live(c) : c.cell[i].shift = 0
  OBVIOUS
<1>2. \A i \in Cell : i \notin Live(c) => c.cell[i] = Vacant
  BY DEF Live, Well, IndexConsistent
<1> QED BY <1>1, <1>2 DEF Vacant, Unshifted

(* A ubatch that is applied brings none ... *)
LEMMA ApplyUnshifted ==
  ASSUME NEW c, Well(c), Unshifted(c), NEW ub \in Seq(Token), NEW idxs \in Seq(Cell),
         Len(idxs) = Len(ub)
  PROVE  Unshifted(ApplyUbatch(c, ub, idxs))
<1>1. ApplyUbatch(c, ub, idxs).hasShift = c.hasShift
  BY DEF ApplyUbatch, Purged, Emplaced, Emplace, SeqRm
<1> QED BY <1>1, ApplyUbatchWell DEF Unshifted

(* ... and neither do cells that are put back. *)
LEMMA SetUnshifted ==
  ASSUME NEW c, Unshifted(c), NEW idxs, NEW other
  PROVE  Unshifted(SetCells(c, idxs, other))
<1>1. SetCells(c, idxs, other).hasShift = c.hasShift
  BY DEF SetCells
<1>2. \A i \in Cell : SetCells(c, idxs, other).cell[i].shift = c.cell[i].shift
  BY DEF SetCells, Overlay
<1> QED BY <1>1, <1>2 DEF Unshifted

(* Where every cell is as before or empty, keys still follow positions.    *)
LEMMA RopeOfBefore ==
  ASSUME RopeOf(entry.cells), Unshifted(entry.cells), Unshifted(cells),
         \A i \in Cell : AsBefore(i, cells.cell[i].pos)
  PROVE  RopeOf(cells)
<1>1. \A i \in Live(cells) : /\ i \in Live(entry.cells) /\ i \in Cell
                            /\ cells.cell[i].pos = entry.cells.cell[i].pos
  BY DEF AsBefore, Live, IsEmpty
<1> QED BY <1>1 DEF RopeOf, Unshifted

(* A ubatch tried out moves no cell but those it takes. *)
LEMMA PlaceUbatchRope ==
  ASSUME KInv, OwnInv', PlaceUbatch
  PROVE  ShiftInv' /\ BackInv'
<1> DEFINE k == Len(stack) + 1
           n == Len(ubs[k])
<1>1. /\ UNCHANGED <<pc, ubs, entry>> /\ Trying /\ Trying' /\ pc # "idle"
      /\ Well(cells) /\ Unshifted(cells) /\ BackInv /\ AllOwned(cells')
      /\ stack \in Seq(StackEntry) /\ ubs \in Seq(Seq(Token)) /\ k <= Len(ubs)
  BY DEF PlaceUbatch, Trying, KInv, IInv, UbsInv, StackInv, OwnInv, ShiftInv
<1>2. PICK idxs \in [1 .. n -> Cell] :
         /\ stack' = Append(stack, [idxs |-> idxs, old |-> Cp(cells, idxs), head |-> head])
         /\ cells' = ApplyUbatch(cells, ubs[k], idxs)
  BY DEF PlaceUbatch
<1> DEFINE top == [idxs |-> idxs, old |-> Cp(cells, idxs), head |-> head]
           ub  == ubs[k]
<1>3. k \in 1 .. Len(ubs) /\ Len(stack) \in Nat
  BY <1>1
<1>4. ub \in Seq(Token)
  BY <1>1, <1>3
<1>5. idxs \in Seq(Cell) /\ Len(idxs) = Len(ub)
  BY <1>4
<1>6. top.idxs = idxs /\ top.old = Cp(cells, idxs)
  OBVIOUS
<1>7. stack' = Append(stack, top) /\ cells' = ApplyUbatch(cells, ub, idxs)
  BY <1>2
<1> HIDE DEF top, n, ub
<1>8. /\ Len(stack') = Len(stack) + 1
      /\ \A m \in 1 .. Len(stack) : stack'[m] = stack[m]
      /\ stack'[Len(stack) + 1] = top
  BY <1>1, <1>7, StackGrows
<1>9. Unshifted(cells')
  BY <1>1, <1>4, <1>5, <1>7, ApplyUnshifted
<1>10. \A i \in Cell \ Targets(idxs) :
          cells'.cell[i].pos # None => cells'.cell[i].pos = cells.cell[i].pos
  <2> SUFFICES ASSUME NEW i \in Cell \ Targets(idxs), cells'.cell[i].pos # None
               PROVE  cells'.cell[i].pos = cells.cell[i].pos
    OBVIOUS
  <2> DEFINE d == cells'
  <2>1. PICK s \in d.cell[i].seq : TRUE
    BY <1>1 DEF AllOwned, Live, IsEmpty
  <2>2. Well(d)
    BY <1>1, <1>4, <1>5, <1>7, ApplyUbatchWell
  <2>3. d = ApplyUbatch(cells, ub, idxs)
    BY <1>7
  <2> HIDE DEF d
  <2>4. s \in Seqs
    BY <2>1, <2>2, SeenType
  <2>5. d.cell[i].pos = cells.cell[i].pos
    BY <1>1, <1>4, <1>5, <2>1, <2>3, <2>4, ApplyDoes
  <2> QED BY <2>5 DEF d
<1>11. \A i \in Targets(idxs) : top.old[SlotOf(idxs, i)].pos = cells.cell[i].pos
  <2> SUFFICES ASSUME NEW i \in Targets(idxs)
               PROVE  top.old[SlotOf(idxs, i)].pos = cells.cell[i].pos
    OBVIOUS
  <2>1. SlotOf(idxs, i) \in DOMAIN idxs /\ idxs[SlotOf(idxs, i)] = i
    BY DEF Targets, SlotOf
  <2>2. top.old[SlotOf(idxs, i)] = [pos |-> cells.cell[i].pos, seq |-> cells.cell[i].seq]
    BY <1>6, <2>1 DEF Cp
  <2> QED BY <2>2
<1>12. ASSUME NEW i \in Cell
       PROVE  /\ (\A m \in 1 .. Len(stack') : i \notin Targets(stack'[m].idxs)) =>
                    AsBefore(i, cells'.cell[i].pos)
              /\ \A m \in 1 .. Len(stack') :
                   /\ i \in Targets(stack'[m].idxs)
                   /\ \A j \in 1 .. m - 1 : i \notin Targets(stack'[j].idxs)
                   => AsBefore(i, stack'[m].old[SlotOf(stack'[m].idxs, i)].pos)
  <2>1. /\ (\A m \in 1 .. Len(stack) : i \notin Targets(stack[m].idxs)) =>
              AsBefore(i, cells.cell[i].pos)
        /\ \A m \in 1 .. Len(stack) :
             /\ i \in Targets(stack[m].idxs)
             /\ \A j \in 1 .. m - 1 : i \notin Targets(stack[j].idxs)
             => AsBefore(i, stack[m].old[SlotOf(stack[m].idxs, i)].pos)
    BY <1>1 DEF BackInv, Took
  <2>2. \A m \in 1 .. Len(stack) : m \in 1 .. Len(stack')
    BY <1>3, <1>8
  <2>3. ASSUME \A m \in 1 .. Len(stack') : i \notin Targets(stack'[m].idxs)
        PROVE  AsBefore(i, cells'.cell[i].pos)
    <3>1. i \notin Targets(idxs) /\ \A m \in 1 .. Len(stack) : i \notin Targets(stack[m].idxs)
      <4>1. Len(stack) + 1 \in 1 .. Len(stack')
        BY <1>3, <1>8
      <4> QED BY <1>6, <1>8, <2>2, <2>3, <4>1
    <3> QED BY <1>10, <2>1, <3>1 DEF AsBefore
  <2>4. ASSUME NEW m \in 1 .. Len(stack'), i \in Targets(stack'[m].idxs),
               \A j \in 1 .. m - 1 : i \notin Targets(stack'[j].idxs)
        PROVE  AsBefore(i, stack'[m].old[SlotOf(stack'[m].idxs, i)].pos)
    <3>1. CASE m \in 1 .. Len(stack)
      <4>1. \A j \in 1 .. m - 1 : j \in 1 .. Len(stack)
        BY <1>3, <3>1
      <4> QED BY <1>8, <2>1, <2>4, <3>1, <4>1
    <3>2. CASE m = Len(stack) + 1
      <4>1. \A j \in 1 .. Len(stack) : j \in 1 .. m - 1
        BY <1>3, <3>2
      <4>2. AsBefore(i, cells.cell[i].pos)
        BY <1>8, <2>1, <2>4, <4>1
      <4>3. stack'[m].idxs = idxs /\ stack'[m].old = top.old
        BY <1>6, <1>8, <3>2
      <4> QED BY <1>11, <2>4, <4>2, <4>3
    <3> QED BY <1>3, <1>8, <3>1, <3>2
  <2> QED BY <2>3, <2>4
<1>13. Unshifted(entry'.cells) /\ entry' = entry
  BY <1>1 DEF BackInv
<1> QED BY <1>1, <1>9, <1>12, <1>13 DEF BackInv, ShiftInv, AsBefore, Took

(* Putting cells back ends with what the first ubatch to take them found.  *)
LEMMA RestoreOneRope ==
  ASSUME KInv, RestoreOne
  PROVE  ShiftInv' /\ BackInv'
<1> DEFINE n    == Len(stack)
           idxs == stack[n].idxs
           old  == stack[n].old
<1>1. /\ UNCHANGED <<pc, entry>> /\ Trying /\ Trying' /\ pc # "idle"
      /\ IInv /\ Unshifted(cells) /\ BackInv /\ cells' = SetCells(cells, idxs, old)
  BY DEF RestoreOne, Trying, KInv, ShiftInv
<1>2. /\ n \in Nat /\ n > 0 /\ Len(stack') = n - 1
      /\ \A m \in 1 .. Len(stack') : stack'[m] = stack[m] /\ m \in 1 .. n
  BY <1>1, StackShrinks
<1>3. Unshifted(cells')
  BY <1>1, SetUnshifted
<1>4. \A i \in Cell : cells'.cell[i].pos = IF i \notin Targets(idxs) THEN cells.cell[i].pos
                                          ELSE old[SlotOf(idxs, i)].pos
  <2> HIDE DEF idxs, old
  <2> QED BY <1>1 DEF SetCells, Overlay
<1> HIDE DEF idxs, old, n
<1>5. ASSUME NEW i \in Cell
      PROVE  /\ (\A m \in 1 .. Len(stack') : i \notin Targets(stack'[m].idxs)) =>
                   AsBefore(i, cells'.cell[i].pos)
             /\ \A m \in 1 .. Len(stack') :
                  /\ i \in Targets(stack'[m].idxs)
                  /\ \A j \in 1 .. m - 1 : i \notin Targets(stack'[j].idxs)
                  => AsBefore(i, stack'[m].old[SlotOf(stack'[m].idxs, i)].pos)
  <2>1. /\ (\A m \in 1 .. n : i \notin Targets(stack[m].idxs)) =>
              AsBefore(i, cells.cell[i].pos)
        /\ \A m \in 1 .. n :
             /\ i \in Targets(stack[m].idxs)
             /\ \A j \in 1 .. m - 1 : i \notin Targets(stack[j].idxs)
             => AsBefore(i, stack[m].old[SlotOf(stack[m].idxs, i)].pos)
    BY <1>1 DEF BackInv, Took, n
  <2>2. ASSUME \A m \in 1 .. Len(stack') : i \notin Targets(stack'[m].idxs)
        PROVE  AsBefore(i, cells'.cell[i].pos)
    <3>1. \A m \in 1 .. n - 1 : i \notin Targets(stack[m].idxs)
      BY <1>2, <2>2
    <3>2. CASE i \in Targets(idxs)
      <4>1. n \in 1 .. n
        BY <1>2
      <4>2. AsBefore(i, stack[n].old[SlotOf(stack[n].idxs, i)].pos)
        BY <2>1, <3>1, <3>2, <4>1 DEF idxs
      <4> QED BY <1>4, <3>2, <4>2 DEF idxs, old
    <3>3. CASE i \notin Targets(idxs)
      <4>1. \A m \in 1 .. n : m \in 1 .. n - 1 \/ m = n
        BY <1>2
      <4>2. \A m \in 1 .. n : i \notin Targets(stack[m].idxs)
        BY <3>1, <3>3, <4>1 DEF idxs
      <4> QED BY <1>4, <2>1, <3>3, <4>2
    <3> QED BY <3>2, <3>3
  <2>3. ASSUME NEW m \in 1 .. Len(stack'), i \in Targets(stack'[m].idxs),
               \A j \in 1 .. m - 1 : i \notin Targets(stack'[j].idxs)
        PROVE  AsBefore(i, stack'[m].old[SlotOf(stack'[m].idxs, i)].pos)
    <3>1. m \in 1 .. n /\ stack'[m] = stack[m]
      BY <1>2
    <3>2. \A j \in 1 .. m - 1 : j \in 1 .. Len(stack')
      BY <1>2
    <3> QED BY <1>2, <2>1, <2>3, <3>1, <3>2
  <2> QED BY <2>2, <2>3
<1>6. Unshifted(entry'.cells) /\ entry' = entry
  BY <1>1 DEF BackInv
<1> QED BY <1>1, <1>3, <1>5, <1>6 DEF BackInv, ShiftInv, AsBefore, Took

(* Trying a batch out touches no key, nor the cells to go back to.         *)
LEMMA TrialRope ==
  ASSUME KInv, OwnInv', PlaceUbatch \/ PlacedAll \/ OutOfCells \/ RestoreOne
  PROVE  KeysInv' /\ SingleInv' /\ ShiftInv' /\ BackInv'
<1>1. /\ UNCHANGED <<kdata, ubs, entry>> /\ Trying /\ Trying' /\ pc # "idle" /\ pc' # "idle"
      /\ KeysInv /\ SingleInv /\ ShiftInv /\ BackInv
  BY DEF PlaceUbatch, PlacedAll, OutOfCells, RestoreOne, Trying, KInv
<1>2. Stable' = Stable
  BY <1>1 DEF Stable
<1>3. KeysInv' /\ SingleInv'
  BY <1>1, <1>2 DEF KeysInv, KdataType, RopeOf, SingleInv
<1>4. ASSUME PlacedAll \/ OutOfCells PROVE ShiftInv' /\ BackInv'
  <2>1. UNCHANGED <<cells, stack>>
    BY <1>4 DEF PlacedAll, OutOfCells
  <2> QED BY <1>1, <2>1 DEF ShiftInv, BackInv, AsBefore, Took
<1> QED BY <1>3, <1>4, PlaceUbatchRope, RestoreOneRope

(* What is put back has the keys decode began with, as far as it is there; *)
(* without cells decode gives up at once, with no shift to wait for.       *)
LEMMA AfterTrialRope ==
  ASSUME KInv, Prepared \/ GiveUp \/ RetryPrepare
  PROVE  KeysInv' /\ SingleInv' /\ ShiftInv' /\ BackInv'
<1>1. /\ Trying /\ stack = <<>> /\ pc # "idle" /\ Well(cells)
      /\ KdataType /\ RopeOf(entry.cells) /\ Unshifted(entry.cells)
      /\ SingleInv /\ Unshifted(cells)
      /\ \A i \in Cell : AsBefore(i, cells.cell[i].pos)
  BY DEF Prepared, GiveUp, RetryPrepare, Trying, KInv, IInv, KeysInv, Stable, ShiftInv, BackInv
<1>2. RopeOf(cells)
  BY <1>1, RopeOfBefore
<1>3. ~RetryPrepare
  BY <1>1 DEF RetryPrepare, Unshifted
<1>4. ASSUME Prepared PROVE KeysInv' /\ SingleInv' /\ ShiftInv' /\ BackInv'
  <2>1. UNCHANGED <<cells, kdata, ubs>> /\ pc' = "process"
    BY <1>4 DEF Prepared, decoding
  <2>2. Stable' = cells' /\ cells.hasShift = FALSE /\ ~Trying'
    BY <1>1, <2>1 DEF Stable, Trying, Unshifted
  <2>3. KeysInv'
    BY <1>1, <1>2, <2>1, <2>2 DEF KeysInv, KdataType, RopeOf
  <2> QED BY <1>1, <2>1, <2>2, <2>3 DEF SingleInv, ShiftInv, Unshifted, BackInv
<1>5. ASSUME GiveUp PROVE KeysInv' /\ SingleInv' /\ ShiftInv' /\ BackInv'
  <2>1. cells' = cells /\ kdata' = Scrub(cells', kdata) /\ pc' = "idle" /\ ubs' = <<>>
    BY <1>5 DEF GiveUp, EndDecode
  <2>2. KdataType' /\ RopeOf(cells)'
    BY <1>1, <1>2, <2>1, SameKeys
  <2> QED BY <2>1, <2>2, IdleKeys DEF SingleInv, ShiftInv, BackInv, Trying
<1> QED BY <1>3, <1>4, <1>5

(* The ubatch applied: each sequence a cell has is one of its token, where *)
(* it is to be, or one the cell had before, where it was.                  *)
LEMMA AppliedOver ==
  ASSUME KInv, pc = "process", NEW d, d = ApplyUbatch(cells, ubs[1], slots[1])
  PROVE  /\ ubs[1] \in Seq(Token) /\ slots[1] \in Seq(Cell) /\ Len(slots[1]) = Len(ubs[1])
         /\ KdataType /\ RopeOf(cells) /\ Unshifted(cells) /\ Well(d) /\ Unshifted(d)
         /\ \A i \in Cell : \A s \in d.cell[i].seq :
              /\ i \notin Targets(slots[1]) =>
                   i \in Live(cells) /\ d.cell[i].pos = cells.cell[i].pos
              /\ i \in Targets(slots[1]) =>
                   /\ SlotOf(slots[1], i) \in 1 .. Len(ubs[1])
                   /\ ubs[1][SlotOf(slots[1], i)] \in Token
                   /\ s \in IdsOf(ubs[1][SlotOf(slots[1], i)].ids)
                   /\ d.cell[i].pos = ubs[1][SlotOf(slots[1], i)].pos
<1>1. /\ IInv /\ KdataType /\ RopeOf(cells) /\ Unshifted(cells) /\ Well(cells)
  BY DEF KInv, IInv, KeysInv, Stable, Trying, ShiftInv
<1>2. /\ ubs[1] \in Seq(Token) /\ slots[1] \in Seq(Cell) /\ Len(slots[1]) = Len(ubs[1]) /\ Well(d)
  <2>1. Len(ubs) >= 1 /\ ubs \in Seq(Seq(Token)) /\ Len(ubs) \in Nat
    BY <1>1, ProcessType DEF IInv, UbsInv
  <2>2. ubs[1] \in Seq(Token)
    BY <2>1
  <2> QED BY <1>1, <2>2, ProcessType
<1>3. Unshifted(d)
  BY <1>1, <1>2, ApplyUnshifted
<1>4. ASSUME NEW i \in Cell, NEW s \in d.cell[i].seq
      PROVE  /\ i \notin Targets(slots[1]) =>
                  i \in Live(cells) /\ d.cell[i].pos = cells.cell[i].pos
             /\ i \in Targets(slots[1]) =>
                  /\ SlotOf(slots[1], i) \in 1 .. Len(ubs[1])
                  /\ ubs[1][SlotOf(slots[1], i)] \in Token
                  /\ s \in IdsOf(ubs[1][SlotOf(slots[1], i)].ids)
                  /\ d.cell[i].pos = ubs[1][SlotOf(slots[1], i)].pos
  <2>1. s \in Seqs
    BY <1>2, SeenType
  <2>2. /\ i \notin Targets(slots[1]) =>
             s \in cells.cell[i].seq /\ d.cell[i].pos = cells.cell[i].pos
        /\ i \in Targets(slots[1]) =>
             /\ s \in IdsOf(ubs[1][SlotOf(slots[1], i)].ids)
             /\ d.cell[i].pos = ubs[1][SlotOf(slots[1], i)].pos
    BY <1>1, <1>2, <2>1, ApplyDoes
  <2>3. s \in cells.cell[i].seq => i \in Live(cells)
    BY <1>1, SeenType
  <2>4. i \in Targets(slots[1]) => /\ SlotOf(slots[1], i) \in 1 .. Len(ubs[1])
                                   /\ ubs[1][SlotOf(slots[1], i)] \in Token
    BY <1>2, SlotOfType
  <2> QED BY <2>2, <2>3, <2>4
<1> QED BY <1>1, <1>2, <1>3, <1>4

(* Its keys are computed for the positions it has. *)
LEMMA ProcessRope ==
  ASSUME KInv, OwnInv', ProcessUbatch
  PROVE  KeysInv' /\ SingleInv' /\ ShiftInv' /\ BackInv'
<1> DEFINE ub == ubs[1]
           idxs == slots[1]
           d  == cells'
<1>1. pc = "process" /\ d = ApplyUbatch(cells, ub, idxs) /\ AllOwned(d)
  BY DEF ProcessUbatch, OwnInv
<1>2. /\ ub \in Seq(Token) /\ idxs \in Seq(Cell) /\ Len(idxs) = Len(ub)
      /\ KdataType /\ RopeOf(cells) /\ Unshifted(cells) /\ Well(d) /\ Unshifted(d)
      /\ \A i \in Cell : \A s \in d.cell[i].seq :
           /\ i \notin Targets(idxs) => i \in Live(cells) /\ d.cell[i].pos = cells.cell[i].pos
           /\ i \in Targets(idxs) => /\ ub[SlotOf(idxs, i)] \in Token
                                     /\ d.cell[i].pos = ub[SlotOf(idxs, i)].pos
  BY <1>1, AppliedOver
<1>3. /\ KdataType'
      /\ \A i \in Live(d) :
           /\ i \in Targets(idxs) => /\ kdata'[i].tok # NoTok
                                     /\ kdata'[i].rot = ub[SlotOf(idxs, i)].pos
           /\ i \notin Targets(idxs) => kdata'[i] = kdata[i]
  <2>1. kdata' = Scrub(d, [i \in Cell |->
                     IF i \notin Targets(idxs) THEN kdata[i]
                     ELSE [tok |-> NewToks(Targets(idxs))[i], rot |-> ub[SlotOf(idxs, i)].pos]])
    BY DEF ProcessUbatch
  <2> HIDE DEF ub, idxs, d
  <2> QED BY <1>2, <2>1, StoredKeys
<1>4. ASSUME NEW i \in Live(d)
      PROVE  /\ kdata'[i].tok # NoTok
             /\ kdata'[i].rot + d.cell[i].shift = d.cell[i].pos
             /\ d.cell[i].shift = 0
  <2>1. i \in Cell /\ d.cell[i].shift = 0
    BY <1>2 DEF Live, Unshifted
  <2>2. PICK s \in d.cell[i].seq : TRUE
    BY <1>1 DEF AllOwned
  <2> HIDE DEF ub, idxs, d
  <2>3. CASE i \in Targets(idxs)
    <3>1. ub[SlotOf(idxs, i)].pos \in Int
      BY <1>2, <2>1, <2>2, <2>3, CellsAssumption DEF Token, Pos
    <3> QED BY <1>2, <1>3, <2>1, <2>2, <2>3, <3>1
  <2>4. CASE i \notin Targets(idxs)
    <3>1. i \in Live(cells) /\ d.cell[i].pos = cells.cell[i].pos /\ kdata'[i] = kdata[i]
      BY <1>2, <1>3, <2>1, <2>2, <2>4
    <3>2. /\ kdata[i].tok # NoTok /\ kdata[i].rot + cells.cell[i].shift = cells.cell[i].pos
          /\ cells.cell[i].shift = 0
      BY <1>2, <2>1, <3>1 DEF RopeOf, Unshifted
    <3> QED BY <2>1, <3>1, <3>2
  <2> QED BY <2>3, <2>4
<1>5. RopeOf(cells)'
  BY <1>4 DEF RopeOf
<1> HIDE DEF d
<1>6. CASE Len(ubs) = 1
  <2>1. pc' = "idle" /\ ubs' = <<>>
    BY <1>6 DEF ProcessUbatch, EndDecode
  <2> QED BY <1>3, <1>5, <2>1, IdleKeys DEF SingleInv, ShiftInv, BackInv, Trying
<1>7. CASE Len(ubs) # 1
  <2>1. pc' = "process"
    BY <1>1, <1>7 DEF ProcessUbatch
  <2>2. Stable' = cells' /\ ~Trying'
    BY <2>1 DEF Stable, Trying
  <2>3. Unshifted(cells')
    BY <1>2 DEF d
  <2>4. KeysInv'
    BY <1>3, <1>5, <2>2, <2>3 DEF KeysInv, RopeOf, Unshifted
  <2>5. /\ Len(ubs') = Len(ubs) - 1
        /\ \A k \in 1 .. Len(ubs') : ubs'[k] = ubs[k + 1] /\ k + 1 \in 1 .. Len(ubs)
    BY <1>7, NextUbatches DEF KInv
  <2>6. SingleInv'
    BY <2>5 DEF KInv, SingleInv
  <2> QED BY <2>2, <2>3, <2>4, <2>6 DEF ShiftInv, BackInv, Unshifted
<1> QED BY <1>6, <1>7

(* A ubatch that failed is gone from its cells, whose keys are undefined.  *)
LEMMA FailRope ==
  ASSUME KInv, OwnInv', FailUbatch
  PROVE  KeysInv' /\ SingleInv' /\ ShiftInv' /\ BackInv'
<1> DEFINE ub == ubs[1]
           idxs == slots[1]
           d  == ApplyUbatch(cells, ub, idxs)
           undo == [i \in Cell |-> {s \in Seqs :
                      \E k \in DOMAIN ub : /\ ub[k].ids[1] = s
                                           /\ d.cell[i].pos >= ub[k].pos}]
           kd == [i \in Cell |-> IF i \in Targets(idxs) THEN NoData ELSE kdata[i]]
<1>1. /\ pc = "process" /\ ComputeFails = TRUE /\ cells' = SeqRm(d, undo)
      /\ kdata' = Scrub(cells', kd) /\ pc' = "idle" /\ ubs' = <<>> /\ AllOwned(cells')
  <2>1. ComputeFails \in BOOLEAN
    BY CacheAssumption
  <2> QED BY <2>1 DEF FailUbatch, EndDecode, OwnInv
<1>2. /\ ub \in Seq(Token) /\ idxs \in Seq(Cell) /\ Len(idxs) = Len(ub)
      /\ KdataType /\ RopeOf(cells) /\ Unshifted(cells) /\ Well(d) /\ Unshifted(d)
      /\ \A i \in Cell : \A s \in d.cell[i].seq :
           /\ i \notin Targets(idxs) => i \in Live(cells) /\ d.cell[i].pos = cells.cell[i].pos
           /\ i \in Targets(idxs) => /\ SlotOf(idxs, i) \in 1 .. Len(ub)
                                     /\ ub[SlotOf(idxs, i)] \in Token
                                     /\ s \in IdsOf(ub[SlotOf(idxs, i)].ids)
                                     /\ d.cell[i].pos = ub[SlotOf(idxs, i)].pos
  BY <1>1, AppliedOver
<1>3. \A m \in 1 .. Len(ub) : Len(ub[m].ids) = 1
  <2>1. 1 \in 1 .. Len(ubs) /\ SingleInv
    BY <1>1, ProcessType DEF KInv
  <2> QED BY <1>1, <2>1 DEF SingleInv
<1> HIDE DEF ub, idxs, d
<1>4. /\ cells'.hasShift = FALSE
      /\ \A i \in Live(cells') : /\ i \in Live(d)
                                 /\ cells'.cell[i].pos = d.cell[i].pos
                                 /\ cells'.cell[i].shift = d.cell[i].shift
                                 /\ cells'.cell[i].seq = d.cell[i].seq \ undo[i]
  <2> HIDE DEF undo
  <2>1. /\ SeqRm(d, undo).hasShift = d.hasShift
        /\ \A i \in Live(SeqRm(d, undo)) :
             /\ i \in Live(d)
             /\ SeqRm(d, undo).cell[i].pos = d.cell[i].pos
             /\ SeqRm(d, undo).cell[i].shift = d.cell[i].shift
             /\ SeqRm(d, undo).cell[i].seq = d.cell[i].seq \ undo[i]
    BY <1>2, SeqRmSame
  <2> QED BY <1>1, <1>2, <2>1 DEF Unshifted
<1>5. ASSUME NEW i \in Live(cells')
      PROVE  /\ i \notin Targets(idxs) /\ i \in Live(cells)
             /\ cells'.cell[i].pos = cells.cell[i].pos
             /\ cells'.cell[i].shift = 0
  <2>1. i \in Cell /\ cells'.cell[i].shift = 0
    BY <1>2, <1>4 DEF Live, Unshifted
  <2>2. PICK s \in d.cell[i].seq : s \notin undo[i]
    BY <1>1, <1>4 DEF AllOwned
  <2>3. i \notin Targets(idxs)
    <3> SUFFICES ASSUME i \in Targets(idxs) PROVE FALSE
      OBVIOUS
    <3> DEFINE m == SlotOf(idxs, i)
    <3>1. m \in DOMAIN ub /\ ub[m] \in Token /\ Len(ub[m].ids) = 1
      BY <1>2, <1>3, <2>1, <2>2
    <3>2. ub[m].pos \in Pos /\ ub[m].ids \in Seq(Seqs)
      BY <3>1 DEF Token
    <3>3. s \in IdsOf(ub[m].ids) /\ d.cell[i].pos = ub[m].pos /\ s \in Seqs
      BY <1>2, <2>1, <2>2, SeenType
    <3>4. ub[m].ids[1] = s
      BY <3>1, <3>2, <3>3 DEF IdsOf
    <3>5. d.cell[i].pos >= ub[m].pos
      BY <3>2, <3>3, CellsAssumption DEF Pos
    <3>6. s \in undo[i]
      BY <2>1, <3>1, <3>3, <3>4, <3>5
    <3> QED BY <2>2, <3>6
  <2> HIDE DEF undo
  <2> QED BY <1>2, <1>4, <2>1, <2>2, <2>3
<1> HIDE DEF undo
<1>6. kd \in [Cell -> [tok : Tok \cup {NoTok}, rot : Int]]
  <2>1. NoData \in [tok : Tok \cup {NoTok}, rot : Int]
    BY DEF NoData
  <2> QED BY <1>2, <2>1 DEF KdataType
<1>7. \A i \in Live(cells') : i \in Cell /\ kd[i] = kdata[i]
  BY <1>5 DEF Live
<1> HIDE DEF kd
<1>8. KdataType' /\ \A i \in Live(cells') : kdata'[i] = kdata[i]
  BY <1>1, <1>6, <1>7, ScrubType DEF KdataType
<1>9. \A i \in Live(cells') : /\ kdata[i].tok # NoTok
                              /\ kdata[i].rot + cells.cell[i].shift = cells.cell[i].pos
                              /\ cells.cell[i].shift = 0
  BY <1>2, <1>5, <1>7 DEF RopeOf, Unshifted
<1>10. RopeOf(cells)'
  BY <1>5, <1>8, <1>9 DEF RopeOf
<1> QED BY <1>1, <1>8, <1>10, IdleKeys DEF SingleInv, ShiftInv, BackInv, Trying

(* The keys follow the positions through every step. *)
LEMMA NextKeys ==
  ASSUME KeysAssumption, KInv, [Next]_vars
  PROVE  KInv'
<1> DEFINE Held == KeysInv' /\ SingleInv' /\ ShiftInv' /\ BackInv'
<1>1. IInv /\ OwnInv /\ KeysInv /\ SingleInv /\ ShiftInv /\ BackInv /\ OInv
  BY DEF KInv, OInv
<1>2. IInv' /\ OwnInv'
  BY <1>1, NextOwn DEF OInv, KeysAssumption
<1>3. ASSUME NEW b \in Batches, DecodeBegin(b) PROVE Held
  <2>1. KeysInv' /\ SingleInv' /\ RopeOf(cells)' /\ cells'.hasShift = FALSE
    BY <1>1, <1>3, DecodeBeginKeys
  <2>2. Well(cells)'
    BY <1>2 DEF IInv
  <2>3. Unshifted(cells')
    <3>1. \A i \in Live(cells') : cells'.cell[i].shift # 0 => cells'.hasShift = TRUE
      BY <2>1 DEF RopeOf
    <3> QED BY <2>1, <2>2, <3>1, NothingPending
  <2>4. stack' = <<>> /\ entry'.cells = cells'
    BY <1>1, <1>3 DEF DecodeBegin, IInv, StackInv
  <2>5. BackInv'
    BY <2>3, <2>4 DEF BackInv, AsBefore, Unshifted
  <2> QED BY <2>1, <2>3, <2>5 DEF ShiftInv, Unshifted
<1>4. ASSUME DecodeStep PROVE Held
  BY <1>2, <1>4, TrialRope, AfterTrialRope, ProcessRope, FailRope DEF DecodeStep
<1>5. ASSUME UNCHANGED vars PROVE Held
  <2>1. UNCHANGED <<cells, kdata, pc, ubs, stack, entry>>
    BY <1>5 DEF vars, decoding
  <2>2. Stable' = Stable
    BY <2>1 DEF Stable, Trying
  <2>3. KeysInv'
    BY <1>1, <2>1, <2>2 DEF KeysInv, KdataType, RopeOf
  <2>4. BackInv'
    BY <1>1, <2>1 DEF BackInv, AsBefore, Took, Trying, Unshifted
  <2> QED BY <1>1, <2>1, <2>3, <2>4 DEF SingleInv, ShiftInv, Unshifted
<1>6. ASSUME \/ Clear
             \/ \E r \in Ranges :
                  \/ SeqRemoveAny(r)
                  \/ \E s \in Seqs :
                       \/ SeqRemove(s, r)
                       \/ \E t \in Seqs : SeqCopy(s, t, r)
                       \/ \E d \in Deltas : SeqShift(s, r, d)
                       \/ \E d \in Divisors : SeqDivide(s, r, d)
             \/ \E s \in Seqs :
                  \/ SeqKeep(s)
                  \/ \E keep \in SUBSET Cell : EndurkvRmCells(s, keep, NCells)
                  \/ EndurkvCompactSeq(s)
      PROVE  Held
  <2>1. KeysInv' /\ UNCHANGED <<pc, decoding>> /\ pc = "idle"
    BY <1>1, <1>2, <1>6, CallKeys
  <2> QED BY <1>1, <2>1 DEF SingleInv, ShiftInv, BackInv, Trying, decoding
<1> HIDE DEF Held
<1>7. Held
  BY <1>3, <1>4, <1>5, <1>6 DEF Next
<1> QED BY <1>2, <1>7 DEF KInv, Held

(* An empty cache has no keys. *)
LEMMA InitKeys == Init => KInv
<1> SUFFICES ASSUME Init PROVE KInv
  OBVIOUS
<1>1. /\ pc = "idle" /\ cells = Reset /\ kdata = [i \in Cell |-> NoData]
  BY DEF Init
<1>2. Live(cells) = {}
  BY <1>1, ResetWell DEF Live, IsEmpty, Vacant
<1>3. NoData \in [tok : Tok \cup {NoTok}, rot : Int]
  BY DEF NoData
<1>4. KeysInv
  BY <1>1, <1>2, <1>3 DEF KeysInv, KdataType, RopeOf, Stable, Trying
<1>5. ShiftInv /\ BackInv
  BY <1>1 DEF ShiftInv, BackInv, Trying
<1>6. IInv /\ OwnInv /\ SingleInv
  BY InitAhead DEF AInv, TInv
<1> QED BY <1>4, <1>5, <1>6 DEF KInv

(***************************************************************************)
(* Positions move at once and keys at the next decode, none of them twice  *)
(* or never: between decodes a live cell's key is rotated for its position *)
(* less the shift still pending, and when a ubatch is computed every key   *)
(* is rotated for its position.  With a window of any kind or without one, *)
(* for batches of any size.                                                *)
(***************************************************************************)
THEOREM KeysFollowPositions ==
  ASSUME KeysAssumption
  PROVE  Spec => []RopeInv
<1>1. KInv => RopeInv
  BY RopeHolds DEF KInv
<1>2. KInv /\ [Next]_vars => KInv'
  BY NextKeys
<1> QED BY InitKeys, <1>1, <1>2, PTL DEF Spec
=============================================================================
