--------------------------- MODULE KVCache_proofs ---------------------------
(***************************************************************************)
(* Whatever a client does with the cache, and wherever decode gets to,     *)
(* used and seqPos say what the cells hold: while prepare tries ubatches   *)
(* out, when it puts the cells back, after a ubatch that failed, after     *)
(* every memory operation.  For any number of cells and sequences, any     *)
(* batches and any window; for a client that does not copy to a sequence   *)
(* what it has already.                                                    *)
(*                                                                         *)
(* A cell that prepare took gets its old position and its old sequences    *)
(* back, but not its old shift.  The index stays exact because a cell that *)
(* was empty had no shift, and none of the steps between gives it one:     *)
(* this is UndoInv, the part of the invariant that is not plain.           *)
(*                                                                         *)
(* On the index rests what a client can rely on: here, that each row of    *)
(* the mask is right, that without a window trying a batch out leaves no   *)
(* trace, and that a dense prefix stays one; in LogicalKV_proofs, what     *)
(* becomes of the entries and of the keys.                                 *)
(***************************************************************************)
EXTENDS KVCache, KVIndex_proofs, SequenceTheorems, FunctionTheorems

-----------------------------------------------------------------------------
(***************************************************************************)
(* Reusing a mask row is exact: for cells, ubatch, window, padding and     *)
(* slack of any size, every token attends to the cells it should.          *)
(***************************************************************************)
(* get_n_kv rounds up, not down. *)
LEMMA PaddedCovers ==
  ASSUME NEW m \in Nat
  PROVE  Padded(m) \in Nat /\ Padded(m) >= m
<1> DEFINE a == m + NPad - 1
<1>1. NPad \in Nat \ {0} /\ a \in Nat
  BY MaskAssumption
<1>2. a \div NPad \in Nat /\ (a \div NPad) * NPad + (a % NPad) = a /\ a % NPad \in 0 .. NPad - 1
  BY <1>1
<1> QED
  BY <1>1, <1>2 DEF Padded

(* used_max_p1 is defined: one past the last used cell, or 0. *)
LEMMA UsedMaxP1Exists ==
  ASSUME NEW c, c.used \in SUBSET Cell
  PROVE  \E u \in 0 .. NCells : IsUsedMaxP1(c, u)
<1> DEFINE U == {u \in 0 .. NCells : \A i \in c.used : i < u}
<1>0. NCells \in Nat /\ \A i \in c.used : i \in Nat /\ i < NCells
  BY CellsAssumption DEF Cell
<1>1. NCells \in U
  BY <1>0
<1>2. PICK u \in U : \A v \in U : u <= v
  <2>1. U \in SUBSET Nat /\ U # {}
    BY <1>0, <1>1
  <2> QED
    BY <2>1, LeastNatural
<1>3. u = 0 \/ u - 1 \in c.used
  <2> SUFFICES ASSUME u # 0, u - 1 \notin c.used PROVE FALSE
    OBVIOUS
  <2>1. u - 1 \in 0 .. NCells /\ \A i \in c.used : i < u - 1
    BY <1>0, <1>2
  <2>2. u - 1 \in U
    BY <2>1
  <2> QED
    BY <1>2, <2>2, <1>0
<1> QED
  BY <1>2, <1>3 DEF IsUsedMaxP1

(* No cell in use is left out of the row. *)
LEMMA NKvCovers ==
  ASSUME NEW c \in KVCellsType, IndexConsistent(c)
  PROVE  /\ NKv(c) \in Nat /\ NKv(c) <= NCells
         /\ \A i \in Cell : ~IsEmpty(c, i) => i < NKv(c)
<1> DEFINE u == CHOOSE v \in 0 .. NCells : IsUsedMaxP1(c, v)
           m == Padded(u)
           n == IF m > NPad THEN m ELSE NPad
<1>1. c.used \in SUBSET Cell /\ c.used = Live(c)
  BY DEF KVCellsType, IndexConsistent
<1>2. u \in 0 .. NCells /\ IsUsedMaxP1(c, u)
  BY <1>1, UsedMaxP1Exists
<1>3. NCells \in Nat /\ NPad \in Nat
  BY CellsAssumption, MaskAssumption
<1>4. u \in Nat /\ m \in Nat /\ m >= u
  BY <1>2, <1>3, PaddedCovers
<1>5. NKv(c) = IF n < NCells THEN n ELSE NCells
  BY DEF NKv
<1>6. \A i \in Cell : ~IsEmpty(c, i) => i < u
  BY <1>1, <1>2 DEF IsUsedMaxP1, Live
<1>7. \A i \in Cell : i \in Nat /\ i < NCells
  BY <1>3 DEF Cell
<1> HIDE DEF m, u
<1> QED
  BY <1>3, <1>4, <1>5, <1>6, <1>7

(***************************************************************************)
(* A cell whose position is more than the window before two queries is     *)
(* masked for both, or for neither.                                        *)
(***************************************************************************)
LEMMA FarBeforeBoth ==
  ASSUME NEW p0 \in Int, NEW p \in Nat, NEW q \in Nat,
         p0 + NSwa < p, p0 + NSwa < q
  PROVE  IsMaskedSwa(p0, p) = IsMaskedSwa(p0, q) /\ p0 <= p /\ p0 <= q
<1>0. NSwa \in Nat /\ SwaType \in {"none", "standard", "chunked", "symmetric"}
  BY MaskAssumption
<1>1. CASE SwaType = "none"
  BY <1>0, <1>1 DEF IsMaskedSwa
<1>2. CASE SwaType = "standard"
  BY <1>0, <1>2 DEF IsMaskedSwa
<1>3. CASE SwaType = "chunked"
  <2>1. NSwa > 0
    BY <1>3, MaskAssumption
  <2>2. ASSUME NEW r \in Nat, p0 + NSwa < r PROVE p0 < (r \div NSwa) * NSwa
    <3>1. (r \div NSwa) * NSwa + (r % NSwa) = r /\ r % NSwa \in 0 .. NSwa - 1
          /\ (r \div NSwa) * NSwa \in Int
      BY <1>0, <2>1
    <3> QED
      BY <1>0, <2>1, <2>2, <3>1
  <2> QED
    BY <1>0, <1>3, <2>2 DEF IsMaskedSwa
<1>4. CASE SwaType = "symmetric"
  <2>1. NSwa > 0
    BY <1>4, MaskAssumption
  <2>2. NSwa \div 2 \in Nat /\ NSwa \div 2 <= NSwa
    BY <1>0
  <2> QED
    BY <1>0, <1>4, <2>2 DEF IsMaskedSwa
<1> QED
  BY <1>0, <1>1, <1>2, <1>3, <1>4

(* Cells that are not redone have in the first row what they should. *)
LEMMA CopiedExact ==
  ASSUME NEW c \in KVCellsType, NEW ub \in Ubatches,
         NEW k \in DOMAIN ub, NEW m \in DOMAIN ub, IdOf(ub, m) = IdOf(ub, k),
         NEW causal \in BOOLEAN, NEW i \in Cell,
         IsEmpty(c, i) \/ IdOf(ub, k) \notin c.cell[i].seq \/ ~Recorded(c, ub, k, i)
  PROVE  Unmasked(c, causal, IdOf(ub, m), ub[m].pos, i)
           = Unmasked(c, causal, IdOf(ub, k), ub[k].pos, i)
<1>1. CASE IsEmpty(c, i) \/ IdOf(ub, k) \notin c.cell[i].seq
  BY <1>1 DEF Unmasked
<1>2. CASE ~Recorded(c, ub, k, i)
  <2>1. c.cell[i].pos \in Int
    BY DEF KVCellsType, CellState, Pos, None
  <2>2. ub[k].pos \in Nat /\ ub[m].pos \in Nat
    <3>1. Pos \subseteq Nat
      BY CellsAssumption DEF Pos
    <3> DEFINE Tokens == [pos : Pos, ids : Seq(Seqs) \ {<<>>}]
    <3>2. ub \in Seq(Tokens)
      BY DEF Ubatches
    <3>3. ub[k] \in Tokens /\ ub[m] \in Tokens
      <4> HIDE DEF Tokens
      <4> QED
        BY <3>2
    <3> QED
      BY <3>1, <3>3
  <2>3. NSwa \in Nat /\ Slack \in Nat
    BY MaskAssumption
  <2>4. /\ ~(c.cell[i].pos + NSwa + Slack >= ub[k].pos)
        /\ ~(c.cell[i].pos + NSwa + Slack >= ub[m].pos)
    BY <1>2 DEF Recorded
  <2>5. c.cell[i].pos + NSwa < ub[k].pos /\ c.cell[i].pos + NSwa < ub[m].pos
    BY <2>1, <2>2, <2>3, <2>4
  <2> QED
    BY <2>1, <2>2, <2>5, FarBeforeBoth DEF Unmasked
<1> QED
  BY <1>1, <1>2

(* The first row of the sequence of token k exists. *)
LEMMA SrcRowExists ==
  ASSUME NEW ub \in Ubatches, NEW k \in DOMAIN ub
  PROVE  SrcRow(ub, k) \in DOMAIN ub /\ IdOf(ub, SrcRow(ub, k)) = IdOf(ub, k)
<1> DEFINE S == {m \in 1 .. k : IdOf(ub, m) = IdOf(ub, k)}
<1>1. k \in Nat /\ k >= 1 /\ 1 .. k \subseteq DOMAIN ub
  BY DEF Ubatches
<1>2. S \in SUBSET Nat /\ k \in S
  BY <1>1
<1>3. PICK m \in S : \A q \in S : m <= q
  BY <1>2, LeastNatural
<1>4. \A q \in 1 .. m - 1 : IdOf(ub, q) # IdOf(ub, k)
  BY <1>1, <1>3
<1>5. SrcRow(ub, k) \in 1 .. k /\ IdOf(ub, SrcRow(ub, k)) = IdOf(ub, k)
  BY <1>3, <1>4 DEF SrcRow
<1> QED
  BY <1>1, <1>5

(***************************************************************************)
(* The row of every token, copied from an earlier one or not, has exactly  *)
(* the cells the token attends to.                                         *)
(***************************************************************************)
THEOREM RowReuseExact ==
  ASSUME NEW c \in KVCellsType, IndexConsistent(c), NEW ub \in Ubatches,
         NEW k \in DOMAIN ub, NEW causal \in BOOLEAN
  PROVE  Visible(MaskRow(c, causal, ub, k)) = Attended(c, causal, ub, k)
<1> DEFINE row  == MaskRow(c, causal, ub, k)
           n    == NKv(c)
           m    == SrcRow(ub, k)
           U(i) == Unmasked(c, causal, IdOf(ub, k), ub[k].pos, i)
<1>1. n \in Nat /\ n <= NCells /\ \A i \in Cell : ~IsEmpty(c, i) => i < n
  BY NKvCovers
<1>2. m \in DOMAIN ub /\ IdOf(ub, m) = IdOf(ub, k)
  BY SrcRowExists
<1>3. 0 .. n - 1 \subseteq Cell
  BY <1>1, CellsAssumption DEF Cell
<1>4. DOMAIN row = 0 .. n - 1 /\ \A i \in 0 .. n - 1 : row[i] = U(i)
  <2>1. CASE m = k
    BY <2>1 DEF MaskRow, FullRow
  <2>2. CASE m # k
    <3>1. \A i \in 0 .. n - 1 :
            IsEmpty(c, i) \/ IdOf(ub, k) \notin c.cell[i].seq \/ ~Recorded(c, ub, k, i)
              => Unmasked(c, causal, IdOf(ub, m), ub[m].pos, i) = U(i)
      BY <1>2, <1>3, CopiedExact
    <3> QED
      BY <2>2, <3>1 DEF MaskRow, FullRow
  <2> QED
    BY <2>1, <2>2
<1>5. \A i \in Cell : U(i) => i \in 0 .. n - 1
  <2>1. \A i \in Cell : i \in Nat
    BY CellsAssumption DEF Cell
  <2> QED
    BY <1>1, <2>1 DEF Unmasked
<1> QED
  BY <1>3, <1>4, <1>5 DEF Visible, Attended

-----------------------------------------------------------------------------
Token == [pos : Pos, ids : Seq(Seqs) \ {<<>>}]
CellCopy == [pos : Pos \cup {None}, seq : SUBSET Seqs]
StackEntry == [idxs : Seq(Cell), old : Seq(CellCopy), head : Int]

UbsInv ==
    /\ ubs \in Seq(Seq(Token))
    /\ \A k \in 1 .. Len(ubs) : Len(ubs[k]) > 0

(* Each entry of the stack has a cell, and what was in it, for each token. *)
StackInv ==
    /\ stack \in Seq(StackEntry)
    /\ Len(stack) <= Len(ubs)
    /\ \A k \in 1 .. Len(stack) : /\ Len(stack[k].idxs) = Len(ubs[k])
                                  /\ Len(stack[k].old) = Len(ubs[k])
    /\ pc \in {"idle", "process"} => stack = <<>>

SlotsInv ==
    /\ slots \in Seq(Seq(Cell))
    /\ slots # <<>> => /\ Len(slots) = Len(ubs)
                       /\ \A k \in 1 .. Len(slots) : Len(slots[k]) = Len(ubs[k])
    /\ pc = "process" => slots # <<>>
    /\ pc \in {"idle", "prepare"} => slots = <<>>

UndoInv ==
    \A k \in 1 .. Len(stack) : \A m \in 1 .. Len(stack[k].old) :
        stack[k].old[m].pos = None =>
            /\ stack[k].old[m].seq = {}
            /\ cells.cell[stack[k].idxs[m]].shift = 0

IInv ==
    /\ Well(cells) /\ head \in Int
    /\ pc \in {"idle", "prepare", "restore", "process"}
    /\ UbsInv /\ StackInv /\ SlotsInv /\ UndoInv

-----------------------------------------------------------------------------
(* The least of a set of cells is a number. *)
LEMMA LoweredInt ==
  ASSUME NEW h \in Int, NEW freed \in SUBSET Cell
  PROVE  /\ Lowered(h, freed) \in Int
         /\ freed # {} => LeastOf(freed) \in Int
<1>1. ASSUME freed # {} PROVE LeastOf(freed) \in Int
  <2>1. PICK x \in freed : \A y \in freed : x <= y
    BY <1>1, LeastNatural, CellsAssumption DEF Cell
  <2>2. LeastOf(freed) \in freed
    BY <2>1 DEF LeastOf
  <2>3. \A y \in freed : y \in Int
    BY CellsAssumption DEF Cell
  <2> QED BY <2>2, <2>3
<1>2. CASE freed # {} /\ LeastOf(freed) < h
  BY <1>1, <1>2 DEF Lowered
<1>3. CASE ~(freed # {} /\ LeastOf(freed) < h)
  BY <1>1, <1>3 DEF Lowered
<1> QED BY <1>1, <1>2, <1>3

(* What find_slot says of the token for a cell it took. *)
LEMMA SlotOfType ==
  ASSUME NEW idxs \in Seq(Cell), NEW i \in Targets(idxs)
  PROVE  SlotOf(idxs, i) \in 1 .. Len(idxs)
<1>1. \E k \in DOMAIN idxs : idxs[k] = i
  BY DEF Targets
<1> QED BY <1>1 DEF SlotOf

(* apply_ubatch keeps the index exact, and gives no cell a shift. *)
LEMMA ApplyUbatchWell ==
  ASSUME NEW c, Well(c), NEW ub \in Seq(Token), NEW idxs \in Seq(Cell),
         Len(idxs) = Len(ub)
  PROVE  /\ Well(ApplyUbatch(c, ub, idxs))
         /\ \A i \in Cell : c.cell[i].shift = 0 =>
                              ApplyUbatch(c, ub, idxs).cell[i].shift = 0
<1> DEFINE I    == Targets(idxs)
           over == {i \in I : ~IsEmpty(c, i)}
           all  == [i \in Cell |-> IF i \in over THEN Seqs ELSE {}]
           pos(i) == ub[SlotOf(idxs, i)].pos
           seq(i) == IdsOf(ub[SlotOf(idxs, i)].ids)
           at   == [i \in I |-> [pos |-> pos(i), seq |-> seq(i)]]
           c1   == SeqRm(c, all)
           c2   == Emplaced(c, ub, idxs)
           drop == [i \in Cell |->
                      {s \in Seqs : \E m \in Targets(idxs) :
                          /\ c.cell[m].seq = {s}
                          /\ c2.cell[i].pos <= c.cell[m].pos}]
<1>1. I \in SUBSET Cell
  BY DEF Targets
<1>2. /\ Well(c1)
      /\ \A i \in Cell : c1.cell[i] \in {Vacant, [c.cell[i] EXCEPT !.seq = @ \ all[i]]}
      /\ \A i \in Cell : IsEmpty(c1, i) <=> IsEmpty(c, i) \/ i \in Emptied(c, all)
  <2> HIDE DEF all
  <2> QED BY SeqRmWell
<1>3. \A i \in I : IsEmpty(c1, i)
  <2> SUFFICES ASSUME NEW i \in I, ~IsEmpty(c, i) PROVE i \in Emptied(c, all)
    BY <1>1, <1>2
  <2>1. i \in Cell /\ all[i] = Seqs
    BY <1>1
  <2>2. c.cell[i].seq \subseteq Seqs
    BY <2>1 DEF Well, KVCellsType, CellState
  <2> QED BY <2>1, <2>2 DEF Emptied, Live
<1>4. \A i \in I : at[i].pos \in Pos /\ at[i].seq \in SUBSET Seqs
  <2> SUFFICES ASSUME NEW i \in I
               PROVE  pos(i) \in Pos /\ seq(i) \in SUBSET Seqs
    BY DEF at
  <2>1. ub[SlotOf(idxs, i)] \in Token
    BY SlotOfType
  <2>2. pos(i) \in Pos /\ ub[SlotOf(idxs, i)].ids \in Seq(Seqs)
    BY <2>1 DEF Token
  <2> QED BY <2>2 DEF IdsOf
<1>5. c2 = Emplace(c1, I, at)
  BY DEF Emplaced
<1>6. /\ Well(c2)
      /\ \A i \in Cell : c2.cell[i].shift = c1.cell[i].shift
  <2> HIDE DEF I, at, c1, c2
  <2> QED BY <1>1, <1>2, <1>3, <1>4, <1>5, EmplaceWell
<1>7. ApplyUbatch(c, ub, idxs) = SeqRm(c2, drop)
  BY DEF ApplyUbatch, Purged
<1>8. /\ Well(SeqRm(c2, drop))
      /\ \A i \in Cell : SeqRm(c2, drop).cell[i] \in
                           {Vacant, [c2.cell[i] EXCEPT !.seq = @ \ drop[i]]}
  <2> HIDE DEF drop, c2
  <2> QED BY <1>6, SeqRmWell
<1>9. ASSUME NEW i \in Cell, c.cell[i].shift = 0
      PROVE  SeqRm(c2, drop).cell[i].shift = 0
  <2> HIDE DEF c1, c2, drop, all
  <2>1. c.cell[i] \in CellState /\ c1.cell[i] \in CellState /\ c2.cell[i] \in CellState
    BY <1>2, <1>6 DEF Well, KVCellsType
  <2>2. c1.cell[i].shift = 0
    BY <1>2, <1>9, <2>1 DEF CellState, Vacant
  <2>3. c2.cell[i].shift = 0
    BY <1>6, <2>2
  <2> QED BY <1>8, <2>1, <2>3 DEF CellState, Vacant
<1> QED BY <1>7, <1>8, <1>9

(* What decode does of a pending shift. *)
LEMMA UpdateWell ==
  ASSUME Well(cells), Update
  PROVE  Well(cells')
  BY ResetShiftWell DEF Update

(* The ubatches of a batch are not empty, and consist of its tokens.       *)
LEMMA SplitInto ==
  ASSUME NEW b \in Batches, NEW p, NEW T,
         \A k \in 1 .. Len(b) : [pos |-> p[k], ids |-> b[k]] \in T
  PROVE  /\ Split(b, p) \in Seq(Seq(T))
         /\ \A k \in 1 .. Len(Split(b, p)) : Len(Split(b, p)[k]) > 0
<1> DEFINE n == Len(b)
           toks  == [k \in DOMAIN b |-> [pos |-> p[k], ids |-> b[k]]]
           count == (n + NUbatch - 1) \div NUbatch
           upto(k) == IF k * NUbatch < n THEN k * NUbatch ELSE n
           first(k) == (k - 1) * NUbatch + 1
<1>1. b \in Seq(Seq(Seqs) \ {<<>>}) /\ n \in Nat /\ n > 0 /\ NUbatch \in Nat /\ NUbatch > 0
  BY CacheAssumption
<1>2. toks \in Seq(T) /\ Len(toks) = n
  <2>1. DOMAIN toks = 1 .. n /\ \A k \in 1 .. n : toks[k] \in T
    BY <1>1
  <2>2. toks = [k \in 1 .. n |-> toks[k]]
    BY <2>1
  <2> HIDE DEF toks, n
  <2>3. toks \in [1 .. n -> T]
    BY <2>1, <2>2
  <2> QED BY <1>1, <2>3
<1> HIDE DEF n, toks
<1>3. count \in Nat
  BY <1>1
<1>4. ASSUME NEW k \in 1 .. count
      PROVE  /\ first(k) \in Nat /\ first(k) >= 1
             /\ upto(k) \in Nat /\ upto(k) <= n /\ first(k) <= upto(k)
  <2>1. k \in Nat /\ k >= 1 /\ k <= count
    BY <1>3
  <2>2. count * NUbatch <= n + NUbatch - 1
    BY <1>1
  <2>3. k * NUbatch \in Nat /\ k * NUbatch <= count * NUbatch
    BY <1>1, <1>3, <2>1
  <2>4. (k - 1) * NUbatch = k * NUbatch - NUbatch /\ (k - 1) * NUbatch >= 0
    BY <1>1, <2>1
  <2> HIDE DEF count
  <2>5. (k - 1) * NUbatch < n
    BY <1>1, <1>3, <2>2, <2>3, <2>4
  <2> DEFINE last == k * NUbatch
             x    == (k - 1) * NUbatch
  <2>6. x + 1 = first(k) /\ upto(k) = IF last < n THEN last ELSE n
    OBVIOUS
  <2>7. x \in Int /\ last \in Nat /\ x = last - NUbatch /\ x >= 0 /\ x < n
    BY <1>1, <2>1, <2>3, <2>4, <2>5
  <2> HIDE DEF x, last, first, upto
  <2> QED BY <1>1, <2>6, <2>7
<1>5. Split(b, p) = [k \in 1 .. count |-> SubSeq(toks, first(k), upto(k))]
  BY DEF Split, n, toks
<1> HIDE DEF count, upto, first
<1>6. ASSUME NEW k \in 1 .. count
      PROVE  /\ SubSeq(toks, first(k), upto(k)) \in Seq(T)
             /\ Len(SubSeq(toks, first(k), upto(k))) > 0
  BY <1>2, <1>4
<1> QED BY <1>3, <1>5, <1>6

(* The tokens have positions. *)
LEMMA SplitType ==
  ASSUME NEW b \in Batches, NEW p \in [DOMAIN b -> Pos]
  PROVE  /\ Split(b, p) \in Seq(Seq(Token))
         /\ \A k \in 1 .. Len(Split(b, p)) : Len(Split(b, p)[k]) > 0
<1>1. b \in Seq(Seq(Seqs) \ {<<>>})
  BY CacheAssumption
<1>2. \A k \in 1 .. Len(b) : p[k] \in Pos /\ b[k] \in Seq(Seqs) \ {<<>>}
  BY <1>1
<1>3. \A k \in 1 .. Len(b) : [pos |-> p[k], ids |-> b[k]] \in Token
  BY <1>2 DEF Token
<1> QED BY <1>3, SplitInto

-----------------------------------------------------------------------------
(* A call between two decodes has only the cells and the head to mind. *)
LEMMA CallKeeps ==
  ASSUME IInv, pc = "idle", UNCHANGED <<pc, decoding>>,
         Well(cells'), head' \in Int
  PROVE  IInv'
<1>1. stack = <<>> /\ stack' = <<>>
  BY DEF IInv, StackInv, decoding
<1>2. UndoInv'
  BY <1>1 DEF UndoInv
<1>3. UbsInv' /\ SlotsInv' /\ StackInv'
  BY DEF IInv, UbsInv, SlotsInv, StackInv, decoding
<1> QED BY <1>2, <1>3 DEF IInv

(* Sequences leave cells. *)
LEMMA LeaveKeeps ==
  ASSUME IInv, pc = "idle", UNCHANGED <<pc, decoding>>, NEW drop, Leave(drop)
  PROVE  IInv'
<1>1. Well(cells) /\ head \in Int
  BY DEF IInv
<1>2. Well(cells')
  BY <1>1, SeqRmWell DEF Leave
<1>3. Emptied(cells, drop) \in SUBSET Cell
  BY DEF Emptied, Live
<1>4. head' \in Int
  BY <1>1, <1>3, LoweredInt DEF Leave
<1> QED BY <1>2, <1>4, CallKeeps

(* The cells of a range that have a sequence are in use. *)
LEMMA HavingLive ==
  ASSUME Well(cells), NEW s, NEW r
  PROVE  Having(s, r) \in SUBSET Live(cells)
<1> SUFFICES ASSUME NEW i \in Having(s, r), IsEmpty(cells, i) PROVE FALSE
  BY DEF Having, Live
<1>1. i \in Cell /\ s \in cells.cell[i].seq
  BY DEF Having
<1>2. cells.cell[i] = Vacant
  BY <1>1 DEF Well, IndexConsistent
<1> QED BY <1>1, <1>2 DEF Vacant

(* A copy adds a sequence to the cells of a range, none of which has it. *)
LEMMA SeqCopyKeeps ==
  ASSUME IInv, CpRepeats = FALSE, NEW s \in Seqs, NEW t \in Seqs, NEW r \in Ranges,
         SeqCopy(s, t, r)
  PROVE  IInv'
<1>1. Well(cells) /\ head \in Int /\ pc = "idle" /\ UNCHANGED <<pc, decoding, head>>
  BY DEF IInv, SeqCopy, Call
<1>2. \A i \in Having(s, r) : t \notin cells.cell[i].seq
  BY DEF SeqCopy
<1>3. Having(s, r) \in SUBSET Live(cells)
  BY <1>1, HavingLive
<1>4. Well(SeqAdd(cells, Having(s, r), t))
  BY <1>1, <1>2, <1>3, SeqAddWell
<1> QED BY <1>1, <1>4, CallKeeps DEF SeqCopy

(* A shift moves positions, and empties the cells it moves below zero. *)
LEMMA SeqShiftKeeps ==
  ASSUME IInv, NEW s \in Seqs, NEW r \in Ranges, NEW d \in Deltas, SeqShift(s, r, d)
  PROVE  IInv'
<1> DEFINE I    == Having(s, r)
           gone == {i \in I : cells.cell[i].pos + d < 0}
<1>1. Well(cells) /\ head \in Int /\ pc = "idle" /\ UNCHANGED <<pc, decoding>>
  BY DEF IInv, SeqShift, Call
<1>2. I \in SUBSET Live(cells) /\ d \in Int
  BY <1>1, HavingLive, CacheAssumption
<1>3. /\ \A i \in I : cells.cell[i].pos + d <= MaxPos
      /\ cells' = PosAdd(cells, I, d)
      /\ head' = IF gone # {} THEN LeastOf(gone) ELSE 0
  BY DEF SeqShift
<1>4. gone \in SUBSET Cell
  BY <1>2 DEF Live
<1> HIDE DEF I, gone
<1>5. Well(cells')
  BY <1>1, <1>2, <1>3, PosAddWell
<1>6. head' \in Int
  BY <1>3, <1>4, LoweredInt
<1> QED BY <1>1, <1>5, <1>6, CallKeeps

(* A division moves positions down and empties no cell. *)
LEMMA SeqDivideKeeps ==
  ASSUME IInv, NEW s \in Seqs, NEW r \in Ranges, NEW d \in Divisors, SeqDivide(s, r, d)
  PROVE  IInv'
<1>1. Well(cells) /\ head \in Int /\ pc = "idle" /\ UNCHANGED <<pc, decoding, head>>
  BY DEF IInv, SeqDivide, Call
<1>2. Having(s, r) \in SUBSET Live(cells) /\ d \in Nat \ {0}
  BY <1>1, HavingLive, CacheAssumption
<1>3. Well(PosDiv(cells, Having(s, r), d))
  BY <1>1, <1>2, PosDivWell
<1> QED BY <1>1, <1>3, CallKeeps DEF SeqDivide

(* Compaction gathers the cells of a sequence at the front. *)
LEMMA CompactKeeps ==
  ASSUME IInv, NEW s \in Seqs, EndurkvCompactSeq(s)
  PROVE  IInv'
<1>1. Well(cells) /\ head \in Int /\ pc = "idle" /\ UNCHANGED <<pc, decoding>>
  BY DEF IInv, EndurkvCompactSeq, Call
<1>2. PICK src \in InOrder(Mine(s)) :
         /\ head' = Len(src)
         /\ cells' = cells \/ cells' = Gather(cells, src)
  BY DEF EndurkvCompactSeq
<1>3. Mine(s) \in SUBSET Cell /\ Mine(s) \in SUBSET Live(cells)
  BY DEF Mine, Live
<1>4. Cardinality(Mine(s)) \in Nat /\ Cardinality(Mine(s)) <= NCells
  <2>1. IsFiniteSet(Cell) /\ Cardinality(Cell) = NCells
    BY CellFinite, CellsAssumption, FS_Interval DEF Cell
  <2> QED BY <1>3, <2>1, FS_Subset, FS_CardinalityType
<1>5. src \in [1 .. Cardinality(Mine(s)) -> Mine(s)]
  BY <1>2 DEF InOrder
<1>6. /\ src \in Seq(Cell) /\ Len(src) \in Nat /\ Len(src) <= NCells
      /\ \A k \in 1 .. Len(src) : src[k] \in Live(cells)
  <2> DEFINE n == Cardinality(Mine(s))
  <2>1. n \in Nat /\ n <= NCells /\ src \in [1 .. n -> Mine(s)]
    BY <1>4, <1>5
  <2> HIDE DEF n
  <2> QED BY <1>3, <2>1
<1>7. Well(cells')
  BY <1>1, <1>2, <1>6, GatherWell
<1> QED BY <1>1, <1>2, <1>6, <1>7, CallKeeps

-----------------------------------------------------------------------------
(* The cache starts empty. *)
LEMMA InitIInv == Init => IInv
<1> SUFFICES ASSUME Init PROVE IInv
  OBVIOUS
<1>1. Well(cells)
  BY ResetWell DEF Init
<1>2. ubs = <<>> /\ stack = <<>> /\ slots = <<>> /\ pc = "idle" /\ head = 0
  BY DEF Init
<1>3. UbsInv /\ StackInv /\ SlotsInv /\ UndoInv
  BY <1>2 DEF UbsInv, StackInv, SlotsInv, UndoInv
<1> QED BY <1>1, <1>2, <1>3 DEF IInv

(* A decode starts with nothing placed. *)
LEMMA DecodeBeginKeeps ==
  ASSUME IInv, NEW b \in Batches, DecodeBegin(b)
  PROVE  IInv'
<1>1. Well(cells) /\ head \in Int /\ stack = <<>> /\ SlotsInv
  BY DEF IInv, StackInv, DecodeBegin
<1>2. /\ pc' = "prepare" /\ stack' = stack /\ head' = head /\ Update
      /\ \E p \in [DOMAIN b -> Pos] : ubs' = Split(b, p)
  BY DEF DecodeBegin
<1>3. Well(cells')
  BY <1>1, <1>2, UpdateWell
<1>4. UbsInv'
  BY <1>2, SplitType DEF UbsInv
<1>5. StackInv' /\ UndoInv'
  BY <1>1, <1>2, <1>4 DEF StackInv, UndoInv, UbsInv
<1>6. SlotsInv'
  BY <1>1, <1>2 DEF SlotsInv, DecodeBegin
<1> QED BY <1>1, <1>2, <1>3, <1>4, <1>5, <1>6 DEF IInv

(* The cells a ubatch takes, and what they held, go on the stack. *)
LEMMA PlaceUbatchKeeps ==
  ASSUME IInv, PlaceUbatch
  PROVE  IInv'
<1> DEFINE k  == Len(stack) + 1
           ub == ubs[k]
           n  == Len(ub)
<1>1. /\ Well(cells) /\ head \in Int /\ pc = "prepare"
      /\ UbsInv /\ StackInv /\ SlotsInv /\ UndoInv
  BY DEF IInv, PlaceUbatch
<1>2. k \in 1 .. Len(ubs) /\ ub \in Seq(Token) /\ n \in Nat /\ n > 0
  BY <1>1 DEF UbsInv, StackInv, PlaceUbatch
<1>3. PICK idxs \in [1 .. n -> Cell] :
         /\ stack' = Append(stack, [idxs |-> idxs, old |-> Cp(cells, idxs), head |-> head])
         /\ cells' = ApplyUbatch(cells, ub, idxs)
         /\ head'  = HeadAfter(idxs)
  BY DEF PlaceUbatch
<1>4. UNCHANGED <<pc, ubs, slots>>
  BY DEF PlaceUbatch
<1> DEFINE old == Cp(cells, idxs)
           top == [idxs |-> idxs, old |-> old, head |-> head]
<1> HIDE DEF k, ub, n
<1>5. idxs \in Seq(Cell) /\ Len(idxs) = n
  BY <1>2, <1>3
<1>6. Well(cells') /\ \A i \in Cell : cells.cell[i].shift = 0 => cells'.cell[i].shift = 0
  <2>1. /\ Well(ApplyUbatch(cells, ub, idxs))
        /\ \A i \in Cell : cells.cell[i].shift = 0 =>
                             ApplyUbatch(cells, ub, idxs).cell[i].shift = 0
    BY <1>1, <1>2, <1>5, ApplyUbatchWell DEF n
  <2> QED BY <1>3, <2>1
<1>7. head' \in Int
  BY <1>2, <1>3, <1>5, CellsAssumption DEF HeadAfter, Cell
<1>8. /\ old \in Seq(CellCopy) /\ Len(old) = n
      /\ \A m \in 1 .. n : old[m].pos = None =>
            old[m].seq = {} /\ cells.cell[idxs[m]].shift = 0
  <2>1. \A m \in 1 .. n : old[m] = [pos |-> cells.cell[idxs[m]].pos,
                                    seq |-> cells.cell[idxs[m]].seq]
    BY <1>3 DEF Cp
  <2>2. old = [m \in 1 .. n |-> old[m]]
    BY <1>3 DEF Cp
  <2> HIDE DEF old
  <2>3. \A m \in 1 .. n : /\ old[m] \in CellCopy
                          /\ old[m].pos = None => 
                               old[m].seq = {} /\ cells.cell[idxs[m]].shift = 0
    <3> SUFFICES ASSUME NEW m \in 1 .. n
                 PROVE  /\ old[m] \in CellCopy
                        /\ old[m].pos = None => 
                             old[m].seq = {} /\ cells.cell[idxs[m]].shift = 0
      OBVIOUS
    <3> DEFINE x == cells.cell[idxs[m]]
    <3>1. idxs[m] \in Cell
      BY <1>3
    <3>2. x \in CellState /\ (x.pos = None => x = Vacant)
      BY <1>1, <3>1 DEF Well, KVCellsType, IndexConsistent, IsEmpty
    <3>3. old[m] = [pos |-> x.pos, seq |-> x.seq]
      BY <2>1
    <3> HIDE DEF x
    <3>4. old[m] \in CellCopy /\ (old[m].pos = None => old[m].seq = {} /\ x.shift = 0)
      BY <3>2, <3>3 DEF CellState, CellCopy, Vacant
    <3> QED BY <3>4 DEF x
  <2>4. old \in [1 .. n -> CellCopy]
    BY <2>2, <2>3
  <2> QED BY <1>2, <2>3, <2>4
<1> HIDE DEF old
<1>9. /\ stack' = Append(stack, top)
      /\ top \in StackEntry
      /\ top.idxs = idxs /\ top.old = old
  BY <1>1, <1>3, <1>5, <1>8 DEF old, StackEntry
<1> HIDE DEF top
<1>10. /\ stack' \in Seq(StackEntry)
       /\ Len(stack') = k
       /\ \A j \in 1 .. k : \/ j = k /\ stack'[j] = top
                            \/ j \in 1 .. Len(stack) /\ stack'[j] = stack[j]
  BY <1>1, <1>9 DEF StackInv, k
<1>11. StackInv'
  <2>1. \A j \in 1 .. k : /\ Len(stack'[j].idxs) = Len(ubs[j])
                          /\ Len(stack'[j].old) = Len(ubs[j])
    BY <1>1, <1>5, <1>8, <1>9, <1>10 DEF StackInv, n, ub
  <2> QED BY <1>1, <1>2, <1>4, <1>10, <2>1 DEF StackInv
<1>12. UndoInv'
  <2> SUFFICES ASSUME NEW j \in 1 .. k, NEW m \in 1 .. Len(stack'[j].old),
                      stack'[j].old[m].pos = None
               PROVE  /\ stack'[j].old[m].seq = {}
                      /\ cells'.cell[stack'[j].idxs[m]].shift = 0
    BY <1>10 DEF UndoInv
  <2>1. CASE j = k /\ stack'[j] = top
    <3>1. m \in 1 .. n
      BY <1>8, <1>9, <2>1
    <3>2. old[m].seq = {} /\ cells.cell[idxs[m]].shift = 0 /\ idxs[m] \in Cell
      BY <1>3, <1>8, <1>9, <2>1, <3>1
    <3> QED BY <1>6, <1>9, <2>1, <3>2
  <2>2. CASE j \in 1 .. Len(stack) /\ stack'[j] = stack[j]
    <3>1. /\ stack[j].old[m].seq = {}
          /\ cells.cell[stack[j].idxs[m]].shift = 0
      BY <1>1, <2>2 DEF UndoInv
    <3>2. stack[j] \in StackEntry
      BY <1>1, <2>2 DEF StackInv
    <3>3. Len(stack[j].idxs) = Len(stack[j].old)
      BY <1>1, <2>2 DEF StackInv
    <3>4. stack[j].idxs[m] \in Cell
      BY <2>2, <3>2, <3>3 DEF StackEntry
    <3> QED BY <1>6, <2>2, <3>1, <3>4
  <2> QED BY <1>10, <2>1, <2>2
<1>13. UbsInv' /\ SlotsInv'
  BY <1>1, <1>4 DEF UbsInv, SlotsInv
<1> QED BY <1>1, <1>4, <1>6, <1>7, <1>11, <1>12, <1>13 DEF IInv

(* The cells on the stack become the slots of the ubatches. *)
LEMMA PlacedAllKeeps ==
  ASSUME IInv, PlacedAll
  PROVE  IInv'
<1>1. UNCHANGED <<cells, head, ubs, stack>> /\ pc' = "restore"
  BY DEF PlacedAll
<1>2. UbsInv' /\ StackInv' /\ UndoInv'
  BY <1>1 DEF IInv, UbsInv, StackInv, UndoInv
<1>3. SlotsInv'
  <2>1. \A k \in 1 .. Len(stack) : stack[k].idxs \in Seq(Cell)
    <3>1. \A k \in 1 .. Len(stack) : stack[k] \in StackEntry
      BY DEF IInv, StackInv
    <3> QED BY <3>1 DEF StackEntry
  <2>2. Len(stack) \in Nat /\ DOMAIN stack = 1 .. Len(stack)
    BY DEF IInv, StackInv
  <2>3. slots' = [k \in 1 .. Len(stack) |-> stack[k].idxs] /\ Len(stack) = Len(ubs)
    BY <2>2 DEF PlacedAll
  <2>4. slots' \in Seq(Seq(Cell)) /\ Len(slots') = Len(stack)
    BY <2>1, <2>2, <2>3
  <2>5. \A k \in 1 .. Len(stack) : Len(slots'[k]) = Len(ubs[k])
    BY <2>3 DEF IInv, StackInv
  <2> QED BY <1>1, <2>3, <2>4, <2>5 DEF SlotsInv
<1> QED BY <1>1, <1>2, <1>3 DEF IInv, Well

(* What was placed stays on the stack, to be undone. *)
LEMMA OutOfCellsKeeps ==
  ASSUME IInv, OutOfCells
  PROVE  IInv'
<1>1. UNCHANGED <<cells, head, ubs, stack>> /\ pc' = "restore" /\ slots' = <<>>
  BY DEF OutOfCells
<1>2. UbsInv' /\ StackInv' /\ UndoInv'
  BY <1>1 DEF IInv, UbsInv, StackInv, UndoInv
<1>3. SlotsInv'
  BY <1>1 DEF SlotsInv
<1> QED BY <1>1, <1>2, <1>3 DEF IInv, Well

(* The topmost copy goes back; the shifts of the cells are as they are. *)
LEMMA RestoreOneKeeps ==
  ASSUME IInv, RestoreOne
  PROVE  IInv'
<1> DEFINE k    == Len(stack)
           top  == stack[k]
           idxs == top.idxs
           old  == top.old
<1>1. /\ Well(cells) /\ head \in Int /\ pc = "restore"
      /\ UbsInv /\ StackInv /\ SlotsInv /\ UndoInv
  BY DEF IInv, RestoreOne
<1>2. /\ cells' = SetCells(cells, idxs, old) /\ head' = top.head
      /\ stack' = SubSeq(stack, 1, k - 1) /\ stack # <<>>
      /\ UNCHANGED <<pc, ubs, slots>>
  BY DEF RestoreOne
<1>3. k \in Nat /\ k >= 1 /\ top \in StackEntry
  BY <1>1, <1>2 DEF StackInv
<1>4. /\ idxs \in Seq(Cell) /\ old \in Seq(CellCopy) /\ top.head \in Int
      /\ Len(idxs) = Len(old)
  BY <1>1, <1>3 DEF StackInv, StackEntry
<1>5. \A m \in DOMAIN idxs : /\ idxs[m] \in Cell
                             /\ old[m].pos \in Pos \cup {None}
                             /\ old[m].seq \in SUBSET Seqs
                             /\ old[m].pos = None =>
                                  old[m].seq = {} /\ cells.cell[idxs[m]].shift = 0
  <2> SUFFICES ASSUME NEW m \in DOMAIN idxs
               PROVE  /\ idxs[m] \in Cell
                      /\ old[m].pos \in Pos \cup {None}
                      /\ old[m].seq \in SUBSET Seqs
                      /\ old[m].pos = None =>
                           old[m].seq = {} /\ cells.cell[idxs[m]].shift = 0
    OBVIOUS
  <2>1. old[m].pos = None => old[m].seq = {} /\ cells.cell[idxs[m]].shift = 0
    BY <1>1, <1>3, <1>4 DEF UndoInv
  <2> HIDE DEF idxs, old
  <2>2. m \in 1 .. Len(old) /\ idxs[m] \in Cell
    BY <1>4
  <2>3. old[m] \in CellCopy
    BY <1>4, <2>2
  <2> QED BY <2>1, <2>2, <2>3 DEF CellCopy
<1>6. /\ Well(SetCells(cells, idxs, old))
      /\ \A i \in Cell : SetCells(cells, idxs, old).cell[i].shift = cells.cell[i].shift
  <2> HIDE DEF idxs, old
  <2> QED BY <1>1, <1>5, SetCellsWell
<1>7. Well(cells') /\ \A i \in Cell : cells'.cell[i].shift = cells.cell[i].shift
  BY <1>2, <1>6
<1>8. /\ stack' \in Seq(StackEntry) /\ Len(stack') = k - 1
      /\ \A j \in 1 .. k - 1 : stack'[j] = stack[j]
  <2>1. stack \in Seq(StackEntry)
    BY <1>1 DEF StackInv
  <2>2. k - 1 \in Int /\ \A j \in 1 .. k - 1 : stack[j] \in StackEntry
    BY <1>3, <2>1
  <2>3. /\ SubSeq(stack, 1, k - 1) \in Seq(StackEntry)
        /\ Len(SubSeq(stack, 1, k - 1)) = k - 1
        /\ \A j \in 1 .. k - 1 : SubSeq(stack, 1, k - 1)[j] = stack[j]
    <3> HIDE DEF k
    <3> QED BY <1>3, <2>1, <2>2, SubSeqProperties
  <2> QED BY <1>2, <2>3
<1>9. StackInv'
  BY <1>1, <1>2, <1>3, <1>8 DEF StackInv, UbsInv
<1>10. UndoInv'
  <2> SUFFICES ASSUME NEW j \in 1 .. k - 1, NEW m \in 1 .. Len(stack'[j].old),
                      stack'[j].old[m].pos = None
               PROVE  /\ stack'[j].old[m].seq = {}
                      /\ cells'.cell[stack'[j].idxs[m]].shift = 0
    BY <1>8 DEF UndoInv
  <2>1. j \in 1 .. Len(stack) /\ stack'[j] = stack[j]
    BY <1>3, <1>8
  <2>2. stack[j].old[m].seq = {} /\ cells.cell[stack[j].idxs[m]].shift = 0
    BY <1>1, <2>1 DEF UndoInv
  <2>3. stack[j] \in StackEntry /\ Len(stack[j].idxs) = Len(stack[j].old)
    BY <1>1, <2>1 DEF StackInv
  <2>4. stack[j].idxs[m] \in Cell
    BY <2>1, <2>3 DEF StackEntry
  <2> QED BY <1>7, <2>1, <2>2, <2>4
<1>11. UbsInv' /\ SlotsInv'
  BY <1>1, <1>2 DEF UbsInv, SlotsInv
<1> QED BY <1>1, <1>2, <1>4, <1>7, <1>9, <1>10, <1>11 DEF IInv

(* With the stack empty, the slots found are processed. *)
LEMMA PreparedKeeps ==
  ASSUME IInv, Prepared
  PROVE  IInv'
<1>1. /\ UNCHANGED <<cells, head, ubs, stack, slots>> /\ pc' = "process"
      /\ stack = <<>> /\ slots # <<>>
  BY DEF Prepared, decoding
<1>2. UbsInv' /\ StackInv' /\ UndoInv'
  BY <1>1 DEF IInv, UbsInv, StackInv, UndoInv
<1>3. SlotsInv'
  BY <1>1 DEF IInv, SlotsInv
<1> QED BY <1>1, <1>2, <1>3 DEF IInv, Well

(* The second try starts like the first. *)
LEMMA RetryPrepareKeeps ==
  ASSUME IInv, RetryPrepare
  PROVE  IInv'
<1>1. /\ UNCHANGED <<head, ubs, stack, slots>> /\ pc' = "prepare"
      /\ stack = <<>> /\ slots = <<>> /\ Update
  BY DEF RetryPrepare
<1>2. Well(cells')
  BY <1>1, UpdateWell DEF IInv
<1>3. UbsInv' /\ StackInv' /\ UndoInv'
  BY <1>1 DEF IInv, UbsInv, StackInv, UndoInv
<1>4. SlotsInv'
  BY <1>1 DEF IInv, SlotsInv
<1> QED BY <1>1, <1>2, <1>3, <1>4 DEF IInv

(* A decode that ends leaves nothing to undo or to process. *)
LEMMA EndDecodeKeeps ==
  ASSUME EndDecode, Well(cells'), head' \in Int
  PROVE  IInv'
<1>1. ubs' = <<>> /\ stack' = <<>> /\ slots' = <<>> /\ pc' = "idle"
  BY DEF EndDecode
<1>2. UbsInv' /\ StackInv' /\ SlotsInv' /\ UndoInv'
  BY <1>1 DEF UbsInv, StackInv, SlotsInv, UndoInv
<1> QED BY <1>1, <1>2 DEF IInv

(* Giving up leaves the cells as they were put back. *)
LEMMA GiveUpKeeps ==
  ASSUME IInv, GiveUp
  PROVE  IInv'
  BY EndDecodeKeeps DEF IInv, GiveUp, Well

(* The ubatch to process has the cells found for it. *)
LEMMA ProcessType ==
  ASSUME IInv, pc = "process"
  PROVE  /\ Len(ubs) \in Nat /\ Len(ubs) >= 1 /\ Len(slots) = Len(ubs)
         /\ slots[1] \in Seq(Cell) /\ HeadAfter(slots[1]) \in Int
         /\ ubs[1] \in Ubatches /\ Len(slots[1]) = Len(ubs[1]) /\ Len(ubs[1]) > 0
         /\ Well(ApplyUbatch(cells, ubs[1], slots[1]))
<1>1. /\ Well(cells) /\ UbsInv /\ slots # <<>> /\ slots \in Seq(Seq(Cell))
      /\ Len(slots) = Len(ubs) /\ \A k \in 1 .. Len(slots) : Len(slots[k]) = Len(ubs[k])
  BY DEF IInv, SlotsInv
<1>2. Len(ubs) \in Nat /\ Len(ubs) >= 1
  BY <1>1
<1>3. /\ ubs[1] \in Seq(Token) /\ slots[1] \in Seq(Cell)
      /\ Len(slots[1]) = Len(ubs[1]) /\ Len(ubs[1]) > 0
  BY <1>1, <1>2 DEF UbsInv
<1>4. HeadAfter(slots[1]) \in Int
  BY <1>3, CellsAssumption DEF HeadAfter, Cell
<1>5. Well(ApplyUbatch(cells, ubs[1], slots[1]))
  BY <1>1, <1>3, ApplyUbatchWell
<1>6. ubs[1] \in Ubatches
  BY <1>3 DEF Ubatches, Token
<1> QED BY <1>1, <1>2, <1>3, <1>4, <1>5, <1>6

(* A ubatch is applied at its slots, and the rest is still matched. *)
LEMMA ProcessUbatchKeeps ==
  ASSUME IInv, ProcessUbatch
  PROVE  IInv'
<1>1. pc = "process"
  BY DEF ProcessUbatch
<1>2. Well(cells') /\ head' \in Int
  BY <1>1, ProcessType DEF ProcessUbatch
<1>3. CASE Len(ubs) = 1
  BY <1>2, <1>3, EndDecodeKeeps DEF ProcessUbatch
<1>4. CASE Len(ubs) # 1
  <2>1. ubs' = Tail(ubs) /\ slots' = Tail(slots) /\ pc' = pc /\ stack' = stack
    BY <1>4 DEF ProcessUbatch
  <2>2. /\ ubs \in Seq(Seq(Token)) /\ slots \in Seq(Seq(Cell)) /\ stack = <<>>
        /\ Len(slots) = Len(ubs) /\ Len(ubs) \in Nat /\ Len(ubs) > 1
        /\ \A k \in 1 .. Len(slots) : Len(slots[k]) = Len(ubs[k])
        /\ \A k \in 1 .. Len(ubs) : Len(ubs[k]) > 0
    BY <1>1, <1>4, ProcessType DEF IInv, UbsInv, SlotsInv, StackInv
  <2>3. /\ ubs' \in Seq(Seq(Token)) /\ slots' \in Seq(Seq(Cell))
        /\ Len(ubs') = Len(ubs) - 1 /\ Len(slots') = Len(ubs) - 1
        /\ \A k \in 1 .. Len(ubs) - 1 : ubs'[k] = ubs[k + 1] /\ slots'[k] = slots[k + 1]
    BY <2>1, <2>2
  <2>4. \A k \in 1 .. Len(ubs) - 1 : k + 1 \in 1 .. Len(ubs)
    BY <2>2
  <2>5. UbsInv'
    BY <2>2, <2>3, <2>4 DEF UbsInv
  <2>6. SlotsInv'
    <3>1. \A k \in 1 .. Len(ubs) - 1 : Len(slots'[k]) = Len(ubs'[k])
      BY <2>2, <2>3, <2>4
    <3>2. slots' # <<>>
      BY <2>2, <2>3
    <3> QED BY <1>1, <2>1, <2>3, <3>1, <3>2 DEF SlotsInv
  <2>7. StackInv' /\ UndoInv'
    BY <2>1, <2>2, <2>5 DEF StackInv, UndoInv, UbsInv
  <2> QED BY <1>1, <1>2, <2>1, <2>5, <2>6, <2>7 DEF IInv
<1> QED BY <1>3, <1>4

(* A ubatch that failed has been applied, and is removed again. *)
LEMMA FailUbatchKeeps ==
  ASSUME IInv, FailUbatch
  PROVE  IInv'
<1> DEFINE c    == ApplyUbatch(cells, ubs[1], slots[1])
           undo == [i \in Cell |-> {s \in Seqs :
                      \E k \in DOMAIN ubs[1] : /\ ubs[1][k].ids[1] = s
                                               /\ c.cell[i].pos >= ubs[1][k].pos}]
<1>1. pc = "process" /\ EndDecode
  BY DEF FailUbatch
<1>2. cells' = SeqRm(c, undo) /\ head' = Lowered(HeadAfter(slots[1]), Emptied(c, undo))
  BY DEF FailUbatch
<1>3. Well(c) /\ HeadAfter(slots[1]) \in Int
  BY <1>1, ProcessType
<1> HIDE DEF c, undo
<1>4. Well(cells')
  BY <1>2, <1>3, SeqRmWell
<1>5. Emptied(c, undo) \in SUBSET Cell
  BY DEF Emptied, Live
<1>6. head' \in Int
  BY <1>2, <1>3, <1>5, LoweredInt
<1> QED BY <1>1, <1>4, <1>6, EndDecodeKeeps

-----------------------------------------------------------------------------
(* The invariant is kept by every step of decode and every memory call. *)
LEMMA NextKeeps ==
  ASSUME CpRepeats = FALSE, IInv, [Next]_vars
  PROVE  IInv'
<1>1. ASSUME NEW b \in Batches, DecodeBegin(b) PROVE IInv'
  BY <1>1, DecodeBeginKeeps
<1>2. CASE DecodeStep
  BY <1>2, PlaceUbatchKeeps, PlacedAllKeeps, OutOfCellsKeeps, RestoreOneKeeps,
     PreparedKeeps, RetryPrepareKeeps, GiveUpKeeps, ProcessUbatchKeeps, FailUbatchKeeps
     DEF DecodeStep
<1>3. CASE Clear
  <2>1. pc = "idle" /\ UNCHANGED <<pc, decoding>> /\ cells' = Reset /\ head' = 0
    BY <1>3 DEF Clear, Call
  <2>2. Well(cells') /\ head' \in Int
    BY <2>1, ResetWell
  <2> QED BY <2>1, <2>2, CallKeeps
<1>4. ASSUME NEW r \in Ranges, SeqRemoveAny(r) PROVE IInv'
  BY <1>4, LeaveKeeps DEF SeqRemoveAny, Call
<1>5. ASSUME NEW r \in Ranges, NEW s \in Seqs, SeqRemove(s, r) PROVE IInv'
  BY <1>5, LeaveKeeps DEF SeqRemove, Call
<1>6. ASSUME NEW r \in Ranges, NEW s \in Seqs, NEW t \in Seqs, SeqCopy(s, t, r)
      PROVE  IInv'
  BY <1>6, SeqCopyKeeps
<1>7. ASSUME NEW r \in Ranges, NEW s \in Seqs, NEW d \in Deltas, SeqShift(s, r, d)
      PROVE  IInv'
  BY <1>7, SeqShiftKeeps
<1>8. ASSUME NEW r \in Ranges, NEW s \in Seqs, NEW d \in Divisors, SeqDivide(s, r, d)
      PROVE  IInv'
  BY <1>8, SeqDivideKeeps
<1>9. ASSUME NEW s \in Seqs, SeqKeep(s) PROVE IInv'
  BY <1>9, LeaveKeeps DEF SeqKeep, Call
<1>10. ASSUME NEW s \in Seqs, NEW keep \in SUBSET Cell, EndurkvRmCells(s, keep, NCells)
       PROVE  IInv'
  BY <1>10, LeaveKeeps DEF EndurkvRmCells, Call
<1>11. ASSUME NEW s \in Seqs, EndurkvCompactSeq(s) PROVE IInv'
  BY <1>11, CompactKeeps
<1>12. CASE UNCHANGED vars
  <2>1. UNCHANGED <<cells, head, pc, ubs, stack, slots>>
    BY <1>12 DEF vars, decoding
  <2>2. UbsInv' /\ StackInv' /\ UndoInv'
    BY <2>1 DEF IInv, UbsInv, StackInv, UndoInv
  <2>3. SlotsInv'
    BY <2>1 DEF IInv, SlotsInv
  <2> QED BY <2>1, <2>2, <2>3 DEF IInv, Well
<1> QED BY <1>1, <1>2, <1>3, <1>4, <1>5, <1>6, <1>7, <1>8, <1>9, <1>10, <1>11, <1>12
        DEF Next

(***************************************************************************)
(* used and seqPos are exact in every state of every behaviour, the states *)
(* in which prepare has half of its ubatches on the cells included.        *)
(***************************************************************************)
THEOREM IndexAlwaysExact ==
  ASSUME CpRepeats = FALSE
  PROVE  Spec => []IndexInv
<1>1. IInv => IndexInv
  BY DEF IInv, Well, IndexInv
<1>2. IInv /\ [Next]_vars => IInv'
  BY NextKeeps
<1> QED BY InitIInv, <1>1, <1>2, PTL DEF Spec

(***************************************************************************)
(* Every mask a decode builds is exact: a token attends to the cells of    *)
(* its sequence that it should and to no other, also where its row was     *)
(* copied from another token's, whatever earlier operations, reused cells  *)
(* and failed ubatches have left in the cache.                             *)
(***************************************************************************)
THEOREM MaskAlwaysExact ==
  ASSUME CpRepeats = FALSE
  PROVE  Spec => []MaskExact
<1>1. IInv => MaskExact
  <2> SUFFICES ASSUME IInv, pc = "process",
                      NEW k \in DOMAIN ubs[1], NEW causal \in BOOLEAN
               PROVE  LET c == ApplyUbatch(cells, ubs[1], slots[1])
                      IN  Visible(MaskRow(c, causal, ubs[1], k))
                            = Attended(c, causal, ubs[1], k)
    BY DEF MaskExact
  <2> DEFINE c == ApplyUbatch(cells, ubs[1], slots[1])
  <2>1. c \in KVCellsType /\ IndexConsistent(c) /\ ubs[1] \in Ubatches
    BY ProcessType DEF Well
  <2> HIDE DEF c
  <2>2. Visible(MaskRow(c, causal, ubs[1], k)) = Attended(c, causal, ubs[1], k)
    BY <2>1, RowReuseExact
  <2> QED BY <2>2 DEF c
<1>2. IInv /\ [Next]_vars => IInv'
  BY NextKeeps
<1> QED BY InitIInv, <1>1, <1>2, PTL DEF Spec

-----------------------------------------------------------------------------
(***************************************************************************)
(* What a client relies on.                                                *)
(***************************************************************************)
(* The cells that prepare has taken so far. *)
Taken == UNION {Targets(stack[k].idxs) : k \in 1 .. Len(stack)}

(* The copy of an empty cell. *)
NoCopy == [pos |-> None, seq |-> {}]

StackPlan == [k \in DOMAIN stack |-> stack[k].idxs]

(* The cells of a plan are free, and no two ubatches are to share one. *)
PlanFree(P, c) ==
    \A k \in 1 .. Len(P) : \A i \in Targets(P[k]) :
        /\ c.cell[i] = Vacant
        /\ \A j \in 1 .. k - 1 : i \notin Targets(P[j])

(***************************************************************************)
(* While a batch is tried out, the cells not taken are those of the start, *)
(* and those taken were empty: what is known of these is on the stack.     *)
(***************************************************************************)
TrialInv ==
    Trying =>
        /\ Well(entry.cells) /\ cells.hasShift = entry.cells.hasShift
        /\ \A i \in Cell \ Taken : cells.cell[i] = entry.cells.cell[i]
        /\ \A i \in Taken : entry.cells.cell[i] = Vacant /\ cells.cell[i].shift = 0
        /\ \A k \in 1 .. Len(stack) : \A m \in 1 .. Len(stack[k].old) :
             stack[k].old[m] = NoCopy
        /\ IF stack = <<>> THEN head = entry.head ELSE stack[1].head = entry.head

PlanInv ==
    /\ pc = "prepare" => /\ \A i \in Taken : ~IsEmpty(cells, i)
                         /\ PlanFree(StackPlan, entry.cells)
    /\ pc = "restore" => PlanFree(slots, entry.cells)
    /\ pc = "process" => PlanFree(slots, cells)

TInv == IInv /\ TrialInv /\ PlanInv

-----------------------------------------------------------------------------
(* A removal that names no sequence changes no cell. *)
LEMMA SeqRmNone ==
  ASSUME NEW c, Well(c), NEW drop, \A i \in Cell : drop[i] = {}, Seqs # {}
  PROVE  \A i \in Cell : SeqRm(c, drop).cell[i] = c.cell[i]
<1>1. Emptied(c, drop) = {}
  BY DEF Emptied, Live
<1>2. ASSUME NEW i \in Cell PROVE SeqRm(c, drop).cell[i] = c.cell[i]
  <2>1. c.cell[i] \in CellState
    BY DEF Well, KVCellsType
  <2>2. [c.cell[i] EXCEPT !.seq = @ \ drop[i]] = c.cell[i]
    <3>1. c.cell[i].seq \ drop[i] = c.cell[i].seq
      OBVIOUS
    <3> QED BY <2>1, <3>1 DEF CellState
  <2> QED BY <1>1, <2>2 DEF SeqRm
<1> QED BY <1>2

(* A ubatch placed on empty cells changes those, and no other.             *)
LEMMA ApplyOnEmpty ==
  ASSUME NEW c, Well(c), NEW ub \in Seq(Token), NEW idxs \in Seq(Cell),
         Len(idxs) = Len(ub), Len(ub) > 0,
         \A i \in Targets(idxs) : IsEmpty(c, i)
  PROVE  /\ ApplyUbatch(c, ub, idxs).hasShift = c.hasShift
         /\ \A i \in Cell \ Targets(idxs) : ApplyUbatch(c, ub, idxs).cell[i] = c.cell[i]
         /\ \A i \in Targets(idxs) :
              /\ ApplyUbatch(c, ub, idxs).cell[i].pos = ub[SlotOf(idxs, i)].pos
              /\ ApplyUbatch(c, ub, idxs).cell[i].seq = IdsOf(ub[SlotOf(idxs, i)].ids)
              /\ ApplyUbatch(c, ub, idxs).cell[i].shift = 0
<1> DEFINE I    == Targets(idxs)
           over == {i \in I : ~IsEmpty(c, i)}
           all  == [i \in Cell |-> IF i \in over THEN Seqs ELSE {}]
           pos(i) == ub[SlotOf(idxs, i)].pos
           seq(i) == IdsOf(ub[SlotOf(idxs, i)].ids)
           at   == [i \in I |-> [pos |-> pos(i), seq |-> seq(i)]]
           c1   == SeqRm(c, all)
           c2   == Emplaced(c, ub, idxs)
           drop == [i \in Cell |->
                      {s \in Seqs : \E m \in Targets(idxs) :
                          /\ c.cell[m].seq = {s}
                          /\ c2.cell[i].pos <= c.cell[m].pos}]
<1>1. I \in SUBSET Cell /\ \A i \in I : c.cell[i] = Vacant
  BY DEF Targets, Well, IndexConsistent
<1>2. \A i \in I : ub[SlotOf(idxs, i)] \in Token
  BY SlotOfType
<1>3. Seqs # {}
  <2>1. ub[1] \in Token
    OBVIOUS
  <2>2. ub[1].ids \in Seq(Seqs) /\ ub[1].ids # <<>>
    BY <2>1 DEF Token
  <2>3. ub[1].ids[1] \in Seqs
    BY <2>2
  <2> QED BY <2>3
<1>4. \A i \in Cell : all[i] = {}
  OBVIOUS
<1>5. Well(c1) /\ \A i \in Cell : c1.cell[i] = c.cell[i]
  <2> HIDE DEF all
  <2> QED BY <1>3, <1>4, SeqRmWell, SeqRmNone
<1>6. c2 = Emplace(c1, I, at)
  BY DEF Emplaced
<1>7. \A i \in I : at[i].pos \in Pos /\ at[i].seq \in SUBSET Seqs
  <2> SUFFICES ASSUME NEW i \in I
               PROVE  pos(i) \in Pos /\ seq(i) \in SUBSET Seqs
    BY DEF at
  <2>1. pos(i) \in Pos /\ ub[SlotOf(idxs, i)].ids \in Seq(Seqs)
    BY <1>2 DEF Token
  <2> QED BY <2>1 DEF IdsOf
<1>8. Well(c2)
  <2> HIDE DEF I, at, c1, c2
  <2>1. \A i \in I : IsEmpty(c1, i)
    BY <1>1, <1>5 DEF IsEmpty, Vacant
  <2> QED BY <1>1, <1>5, <1>6, <1>7, <2>1, EmplaceWell
<1>9. /\ \A i \in Cell \ I : c2.cell[i] = c.cell[i]
      /\ \A i \in I : c2.cell[i].pos = pos(i) /\ c2.cell[i].seq = seq(i) /\ c2.cell[i].shift = 0
  <2>1. \A i \in Cell : c2.cell[i] = IF i \notin I THEN c1.cell[i] ELSE
                          [c1.cell[i] EXCEPT !.pos = at[i].pos, !.seq = at[i].seq]
    <3> HIDE DEF I, at, c1, c2
    <3> QED BY <1>6 DEF Emplace
  <2>2. \A i \in I : at[i].pos = pos(i) /\ at[i].seq = seq(i)
    OBVIOUS
  <2> HIDE DEF I, at, c1, c2, pos, seq
  <2>3. ASSUME NEW i \in I
        PROVE  c2.cell[i].pos = pos(i) /\ c2.cell[i].seq = seq(i) /\ c2.cell[i].shift = 0
    <3>1. i \in Cell /\ c1.cell[i] = Vacant
      BY <1>1, <1>5
    <3>2. c2.cell[i] = [Vacant EXCEPT !.pos = at[i].pos, !.seq = at[i].seq]
      BY <2>1, <3>1
    <3> QED BY <2>2, <3>2 DEF Vacant
  <2> QED BY <1>5, <2>1, <2>3
<1>10. \A i \in Cell : drop[i] = {}
  <2>1. \A m \in Targets(idxs) : c.cell[m].seq = {}
    BY <1>1 DEF Vacant
  <2>2. \A m \in Targets(idxs), s \in Seqs : c.cell[m].seq # {s}
    BY <2>1
  <2> QED BY <2>2
<1>11. ApplyUbatch(c, ub, idxs) = SeqRm(c2, drop)
  BY DEF ApplyUbatch, Purged
<1>12. \A i \in Cell : ApplyUbatch(c, ub, idxs).cell[i] = c2.cell[i]
  <2> HIDE DEF drop, c2
  <2>1. \A i \in Cell : SeqRm(c2, drop).cell[i] = c2.cell[i]
    BY <1>3, <1>8, <1>10, SeqRmNone
  <2> QED BY <1>11, <2>1
<1>13. ApplyUbatch(c, ub, idxs).hasShift = c.hasShift
  <2>1. c1.hasShift = c.hasShift /\ SeqRm(c2, drop).hasShift = c2.hasShift
    BY DEF SeqRm
  <2>2. c2.hasShift = c1.hasShift
    <3> HIDE DEF I, at, c1, c2
    <3> QED BY <1>6 DEF Emplace
  <2> HIDE DEF drop, c1, c2
  <2> QED BY <1>11, <2>1, <2>2
<1> HIDE DEF c2
<1> QED BY <1>1, <1>9, <1>12, <1>13

-----------------------------------------------------------------------------
(* Cells that agree one by one are the same: the index follows from them.  *)
LEMMA SameCells ==
  ASSUME NEW c, NEW d, Well(c), Well(d), c.hasShift = d.hasShift,
         \A i \in Cell : c.cell[i] = d.cell[i]
  PROVE  c = d
<1>1. c \in KVCellsType /\ d \in KVCellsType
  BY DEF Well
<1>2. c.cell = d.cell
  BY <1>1 DEF KVCellsType
<1>3. c.used = d.used /\ c.seqPos = d.seqPos
  <2>1. Live(c) = Live(d)
    BY <1>2 DEF Live, IsEmpty
  <2> QED BY <1>2, <2>1 DEF Well, IndexConsistent
<1> QED BY <1>1, <1>2, <1>3 DEF KVCellsType

(* Nothing is left to put back: the cells are those of the start.          *)
LEMMA BackAgain ==
  ASSUME TInv, Trying, stack = <<>>
  PROVE  cells = entry.cells /\ head = entry.head
<1>1. Taken = {}
  BY DEF Taken
<1>2. /\ Well(cells) /\ Well(entry.cells) /\ cells.hasShift = entry.cells.hasShift
      /\ \A i \in Cell : cells.cell[i] = entry.cells.cell[i]
      /\ head = entry.head
  BY <1>1 DEF TInv, IInv, TrialInv
<1> QED BY <1>2, SameCells

(* A trial starts with the cells there are. *)
LEMMA TrialBegins ==
  ASSUME Well(cells'), stack' = <<>>, pc' = "prepare", head' = head,
         entry' = [cells |-> cells', head |-> head]
  PROVE  TrialInv' /\ PlanInv'
<1>1. Taken' = {} /\ StackPlan' = <<>>
  BY DEF Taken, StackPlan
<1>2. entry'.cells = cells' /\ entry'.head = head'
  OBVIOUS
<1>3. TrialInv'
  BY <1>1, <1>2 DEF TrialInv
<1> QED BY <1>1, <1>3 DEF PlanInv, PlanFree

(* Without a trial there is nothing to say of it. *)
LEMMA NoTrial ==
  ASSUME pc' = "idle"
  PROVE  TrialInv' /\ PlanInv'
  BY DEF TrialInv, PlanInv, Trying

(* A ubatch is placed on empty cells. *)
LEMMA PlaceUbatchDoes ==
  ASSUME IInv, SwaType = "none", PlaceUbatch
  PROVE  /\ Len(stack) + 1 \in 1 .. Len(ubs)
         /\ \E idxs \in Seq(Cell) :
              /\ ubs[Len(stack) + 1] \in Seq(Token) /\ Len(ubs[Len(stack) + 1]) > 0
              /\ Len(idxs) = Len(ubs[Len(stack) + 1])
              /\ stack' = Append(stack, [idxs |-> idxs, old |-> Cp(cells, idxs), head |-> head])
              /\ cells' = ApplyUbatch(cells, ubs[Len(stack) + 1], idxs)
              /\ \A i \in Targets(idxs) : IsEmpty(cells, i)
<1> DEFINE k  == Len(stack) + 1
           ub == ubs[k]
           n  == Len(ub)
<1>1. UbsInv /\ StackInv
  BY DEF IInv
<1>2. k \in 1 .. Len(ubs) /\ ub \in Seq(Token) /\ n \in Nat /\ n > 0
  BY <1>1 DEF UbsInv, StackInv, PlaceUbatch
<1>3. PICK idxs \in [1 .. n -> Cell] :
         /\ IsSlot(cells, head, n, idxs)
         /\ stack' = Append(stack, [idxs |-> idxs, old |-> Cp(cells, idxs), head |-> head])
         /\ cells' = ApplyUbatch(cells, ub, idxs)
  BY DEF PlaceUbatch
<1> HIDE DEF n, ub
<1>4. idxs \in Seq(Cell) /\ Len(idxs) = n /\ DOMAIN idxs = 1 .. n
  BY <1>2, <1>3
<1>5. \A m \in 1 .. n : IsEmpty(cells, idxs[m])
  BY <1>3 DEF IsSlot, CanUse, IsMaskedSwa
<1>6. \A i \in Targets(idxs) : IsEmpty(cells, i)
  BY <1>4, <1>5 DEF Targets
<1> QED BY <1>2, <1>3, <1>4, <1>6 DEF ub, n

(* A ubatch tried out: its cells were empty, the others are as they were.  *)
LEMMA PlaceUbatchTrial ==
  ASSUME TInv, SwaType = "none", PlaceUbatch
  PROVE  TrialInv' /\ PlanInv'
<1> DEFINE k  == Len(stack) + 1
           ub == ubs[k]
<1>1. /\ IInv /\ TrialInv /\ PlanInv /\ pc = "prepare" /\ Trying
      /\ UNCHANGED <<pc, slots, entry>>
  BY DEF TInv, PlaceUbatch, Trying
<1>2. PICK idxs \in Seq(Cell) :
         /\ ub \in Seq(Token) /\ Len(ub) > 0 /\ Len(idxs) = Len(ub)
         /\ stack' = Append(stack, [idxs |-> idxs, old |-> Cp(cells, idxs), head |-> head])
         /\ cells' = ApplyUbatch(cells, ub, idxs)
         /\ \A i \in Targets(idxs) : IsEmpty(cells, i)
  BY <1>1, PlaceUbatchDoes
<1> DEFINE top == [idxs |-> idxs, old |-> Cp(cells, idxs), head |-> head]
           I   == Targets(idxs)
<1>3. I \in SUBSET Cell /\ \A i \in I : cells.cell[i] = Vacant
  BY <1>1, <1>2 DEF Targets, IInv, Well, IndexConsistent
<1>4. stack \in Seq(StackEntry) /\ Len(stack) \in Nat
  BY <1>1 DEF IInv, StackInv
<1>5. /\ stack' = Append(stack, top) /\ top.idxs = idxs /\ top.head = head
      /\ top.old = Cp(cells, idxs)
  BY <1>2
<1> HIDE DEF top
<1>6. /\ Len(stack') = k /\ stack'[k] = top
      /\ \A j \in 1 .. Len(stack) : stack'[j] = stack[j]
      /\ DOMAIN stack' = 1 .. k /\ DOMAIN stack = 1 .. Len(stack)
      /\ stack' # <<>> /\ k \in Nat /\ k >= 1
  BY <1>4, <1>5
<1>7. \A j : j \in 1 .. k <=> j \in 1 .. Len(stack) \/ j = k
  BY <1>4
<1> HIDE DEF k, ub
<1>8. Taken' = Taken \cup I
  BY <1>5, <1>6, <1>7 DEF Taken
<1>9. Well(cells)
  BY <1>1 DEF IInv
<1>10. /\ cells'.hasShift = cells.hasShift
       /\ \A i \in Cell \ I : cells'.cell[i] = cells.cell[i]
       /\ \A i \in I : cells'.cell[i].pos = ub[SlotOf(idxs, i)].pos /\ cells'.cell[i].shift = 0
  BY <1>2, <1>9, ApplyOnEmpty
<1>11. Taken \in SUBSET Cell
  <2>1. \A j \in 1 .. Len(stack) : stack[j] \in StackEntry
    BY <1>4
  <2>2. \A j \in 1 .. Len(stack) : stack[j].idxs \in Seq(Cell)
    BY <2>1 DEF StackEntry
  <2> QED BY <2>2 DEF Taken, Targets
<1>12. \A i \in Taken : i \notin I
  BY <1>1, <1>2 DEF PlanInv
<1>13. \A i \in I : entry.cells.cell[i] = Vacant
  BY <1>1, <1>3, <1>12 DEF TrialInv
<1>14. \A m \in 1 .. Len(top.old) : top.old[m] = NoCopy
  <2>1. \A m \in DOMAIN idxs : cells.cell[idxs[m]] = Vacant
    BY <1>3 DEF Targets
  <2>2. DOMAIN top.old = DOMAIN idxs
    BY <1>5 DEF Cp
  <2>3. ASSUME NEW m \in DOMAIN idxs
        PROVE  top.old[m] = NoCopy
    <3>1. top.old[m] = [pos |-> cells.cell[idxs[m]].pos, seq |-> cells.cell[idxs[m]].seq]
      BY <1>5 DEF Cp
    <3>2. cells.cell[idxs[m]].pos = None /\ cells.cell[idxs[m]].seq = {}
      BY <2>1 DEF Vacant
    <3> QED BY <3>1, <3>2, Zenon DEF NoCopy
  <2>4. DOMAIN idxs = 1 .. Len(idxs) /\ Len(idxs) \in Nat
    BY <1>2
  <2>5. Len(top.old) = Len(idxs)
    <3>1. StackInv' /\ ubs' = ubs
      BY <1>1, PlaceUbatchKeeps DEF IInv, PlaceUbatch
    <3>2. Len(stack'[k].old) = Len(ubs[k])
      BY <1>6, <3>1 DEF StackInv
    <3> QED BY <1>2, <1>6, <3>2 DEF ub
  <2> QED BY <2>3, <2>4, <2>5
<1>15. TrialInv'
  <2>1. Well(entry'.cells) /\ cells'.hasShift = entry'.cells.hasShift
    BY <1>1, <1>10 DEF TrialInv
  <2>2. \A i \in Cell \ Taken' : cells'.cell[i] = entry'.cells.cell[i]
    BY <1>1, <1>8, <1>10 DEF TrialInv
  <2>3. \A i \in Taken' : entry'.cells.cell[i] = Vacant /\ cells'.cell[i].shift = 0
    BY <1>1, <1>8, <1>10, <1>11, <1>12, <1>13 DEF TrialInv
  <2>4. \A j \in 1 .. Len(stack') : \A m \in 1 .. Len(stack'[j].old) :
           stack'[j].old[m] = NoCopy
    BY <1>1, <1>6, <1>7, <1>14 DEF TrialInv
  <2>5. stack'[1].head = entry'.head
    <3>1. CASE stack = <<>>
      BY <1>1, <1>5, <1>6, <3>1 DEF TrialInv, k
    <3>2. CASE stack # <<>>
      <4>1. 1 \in 1 .. Len(stack)
        BY <1>4, <3>2
      <4> QED BY <1>1, <1>6, <3>2, <4>1 DEF TrialInv
    <3> QED BY <3>1, <3>2
  <2> QED BY <1>6, <2>1, <2>2, <2>3, <2>4, <2>5 DEF TrialInv
<1>16. PlanInv'
  <2>1. \A i \in Taken' : ~IsEmpty(cells', i)
    <3>1. ASSUME NEW i \in I PROVE ~IsEmpty(cells', i)
      <4>1. SlotOf(idxs, i) \in 1 .. Len(ub)
        BY <1>2, SlotOfType
      <4>2. ub[SlotOf(idxs, i)] \in Token
        BY <1>2, <4>1
      <4>3. ub[SlotOf(idxs, i)].pos \in Pos
        BY <4>2 DEF Token
      <4> QED BY <1>10, <4>3, CellsAssumption DEF IsEmpty, None, Pos
    <3>2. ASSUME NEW i \in Taken PROVE ~IsEmpty(cells', i)
      BY <1>1, <1>10, <1>11, <1>12, <3>2 DEF PlanInv, IsEmpty
    <3> QED BY <1>8, <3>1, <3>2
  <2>2. /\ DOMAIN StackPlan = 1 .. Len(stack) /\ Len(StackPlan) = Len(stack)
        /\ \A j \in 1 .. Len(stack) : StackPlan[j] = stack[j].idxs
    BY <1>4, <1>6 DEF StackPlan
  <2>3. Len(StackPlan') = k /\ \A j \in 1 .. k : StackPlan'[j] = stack'[j].idxs
    BY <1>6 DEF StackPlan
  <2>4. PlanFree(StackPlan', entry.cells)
    <3> SUFFICES ASSUME NEW j \in 1 .. k, NEW i \in Targets(StackPlan'[j])
                 PROVE  /\ entry.cells.cell[i] = Vacant
                        /\ \A q \in 1 .. j - 1 : i \notin Targets(StackPlan'[q])
      BY <2>3 DEF PlanFree
    <3>1. CASE j \in 1 .. Len(stack)
      <4>1. StackPlan'[j] = StackPlan[j]
        BY <1>6, <1>7, <2>2, <2>3, <3>1
      <4>2. \A q \in 1 .. j - 1 : q \in 1 .. Len(stack) /\ StackPlan'[q] = StackPlan[q]
        BY <1>4, <1>6, <1>7, <2>2, <2>3, <3>1
      <4> QED BY <1>1, <2>2, <3>1, <4>1, <4>2 DEF PlanInv, PlanFree
    <3>2. CASE j = k
      <4>1. i \in I
        BY <1>5, <1>6, <2>3, <3>2
      <4>2. \A q \in 1 .. j - 1 : q \in 1 .. Len(stack) /\ StackPlan'[q] = stack[q].idxs
        BY <1>4, <1>6, <1>7, <2>3, <3>2 DEF k
      <4>3. \A q \in 1 .. j - 1 : i \notin Targets(StackPlan'[q])
        BY <1>12, <4>1, <4>2 DEF Taken
      <4> QED BY <1>13, <4>1, <4>3
    <3> QED BY <1>7, <3>1, <3>2
  <2> QED BY <1>1, <2>1, <2>4 DEF PlanInv
<1> QED BY <1>15, <1>16

(* What was found, or that it was not enough, changes no cell.             *)
LEMMA PlacedAllTrial ==
  ASSUME TInv, PlacedAll
  PROVE  TrialInv' /\ PlanInv'
<1>1. /\ UNCHANGED <<cells, head, stack, entry>> /\ pc = "prepare" /\ pc' = "restore"
      /\ slots' = StackPlan /\ TrialInv /\ PlanInv
  BY DEF TInv, PlacedAll, StackPlan
<1>2. TrialInv'
  BY <1>1 DEF TrialInv, Trying, Taken
<1>3. PlanInv'
  BY <1>1 DEF PlanInv, PlanFree
<1> QED BY <1>2, <1>3

(* Without cells for a ubatch the trial ends and nothing is planned. *)
LEMMA OutOfCellsTrial ==
  ASSUME TInv, OutOfCells
  PROVE  TrialInv' /\ PlanInv'
<1>1. /\ UNCHANGED <<cells, head, stack, entry>> /\ pc = "prepare" /\ pc' = "restore"
      /\ slots' = <<>> /\ TrialInv /\ PlanInv
  BY DEF TInv, OutOfCells
<1>2. TrialInv'
  BY <1>1 DEF TrialInv, Trying, Taken
<1>3. PlanInv'
  BY <1>1 DEF PlanInv, PlanFree
<1> QED BY <1>2, <1>3

(* The cells of the topmost ubatch are empty again. *)
LEMMA RestoreOneTrial ==
  ASSUME TInv, RestoreOne
  PROVE  TrialInv' /\ PlanInv'
<1> DEFINE k    == Len(stack)
           top  == stack[k]
           I    == Targets(top.idxs)
<1>1. /\ IInv /\ TrialInv /\ PlanInv /\ pc = "restore" /\ Trying
      /\ UNCHANGED <<pc, slots, entry>>
  BY DEF TInv, RestoreOne, Trying
<1>2. /\ cells' = SetCells(cells, top.idxs, top.old) /\ head' = top.head
      /\ stack' = SubSeq(stack, 1, k - 1) /\ stack # <<>>
  BY DEF RestoreOne
<1>3. /\ stack \in Seq(StackEntry) /\ k \in Nat /\ k >= 1
      /\ top \in StackEntry /\ Len(top.old) = Len(top.idxs)
  BY <1>1, <1>2 DEF IInv, StackInv
<1>4. /\ Len(stack') = k - 1 /\ \A j \in 1 .. k - 1 : stack'[j] = stack[j]
      /\ k - 1 = 0 => stack' = <<>>
  <2>1. \A j \in 1 .. k - 1 : stack[j] \in StackEntry
    BY <1>3
  <2>2. /\ SubSeq(stack, 1, k - 1) \in Seq(StackEntry)
        /\ Len(SubSeq(stack, 1, k - 1)) = k - 1
        /\ \A j \in 1 .. k - 1 : SubSeq(stack, 1, k - 1)[j] = stack[j]
    <3> HIDE DEF k
    <3> QED BY <1>3, <2>1, SubSeqProperties
  <2> HIDE DEF k
  <2> QED BY <1>2, <1>3, <2>2
<1>5. top.idxs \in Seq(Cell)
  BY <1>3 DEF StackEntry
<1> HIDE DEF top
<1>6. k \in 1 .. k /\ \A j : j \in 1 .. k <=> j \in 1 .. k - 1 \/ j = k
  BY <1>3
<1>7. Taken = Taken' \cup I
  <2> HIDE DEF k
  <2>1. Taken = UNION {Targets(stack[j].idxs) : j \in 1 .. k}
    BY DEF Taken, k
  <2>2. Taken' = UNION {Targets(stack'[j].idxs) : j \in 1 .. k - 1}
    BY <1>4 DEF Taken
  <2>3. \A j \in 1 .. k - 1 : Targets(stack'[j].idxs) = Targets(stack[j].idxs)
    BY <1>4
  <2>4. Targets(stack[k].idxs) = I
    BY DEF top
  <2> QED BY <1>6, <2>1, <2>2, <2>3, <2>4
<1>8. I \in SUBSET Cell
  BY <1>5 DEF Targets
<1>9. \A i \in I : entry.cells.cell[i] = Vacant /\ cells.cell[i].shift = 0
  BY <1>1, <1>7 DEF TrialInv
<1>10. /\ cells'.hasShift = cells.hasShift
       /\ \A i \in Cell \ I : cells'.cell[i] = cells.cell[i]
  BY <1>2 DEF SetCells, Overlay
<1>11. \A i \in I : cells'.cell[i] = Vacant
  <2> SUFFICES ASSUME NEW i \in I PROVE cells'.cell[i] = Vacant
    OBVIOUS
  <2>1. SlotOf(top.idxs, i) \in 1 .. Len(top.old)
    BY <1>3, <1>5, SlotOfType
  <2>2. top.old[SlotOf(top.idxs, i)] = NoCopy
    BY <1>1, <1>6, <2>1 DEF TrialInv, top
  <2>3. cells'.cell[i] = [pos   |-> top.old[SlotOf(top.idxs, i)].pos,
                          shift |-> cells.cell[i].shift,
                          seq   |-> top.old[SlotOf(top.idxs, i)].seq]
    BY <1>2, <1>8 DEF SetCells, Overlay
  <2>4. top.old[SlotOf(top.idxs, i)].pos = None /\ top.old[SlotOf(top.idxs, i)].seq = {}
    BY <2>2 DEF NoCopy
  <2> QED BY <1>9, <2>3, <2>4 DEF Vacant
<1>12. TrialInv'
  <2>1. Well(entry'.cells) /\ cells'.hasShift = entry'.cells.hasShift
    BY <1>1, <1>10 DEF TrialInv
  <2>2. \A i \in Cell \ Taken' : cells'.cell[i] = entry'.cells.cell[i]
    BY <1>1, <1>7, <1>9, <1>10, <1>11 DEF TrialInv
  <2>3. \A i \in Taken' : entry'.cells.cell[i] = Vacant /\ cells'.cell[i].shift = 0
    <3>1. \A j \in 1 .. Len(stack) : stack[j] \in StackEntry
      BY <1>3
    <3>2. \A j \in 1 .. Len(stack) : stack[j].idxs \in Seq(Cell)
      BY <3>1 DEF StackEntry
    <3>3. Taken \in SUBSET Cell
      BY <3>2 DEF Taken, Targets
    <3>4. \A i \in I : cells'.cell[i].shift = 0
      BY <1>11 DEF Vacant
    <3> QED BY <1>1, <1>7, <1>10, <3>3, <3>4 DEF TrialInv
  <2>4. \A j \in 1 .. Len(stack') : \A m \in 1 .. Len(stack'[j].old) :
           stack'[j].old[m] = NoCopy
    BY <1>1, <1>4, <1>6 DEF TrialInv
  <2>5. IF stack' = <<>> THEN head' = entry'.head ELSE stack'[1].head = entry'.head
    <3>1. stack[1].head = entry.head
      BY <1>1, <1>2 DEF TrialInv
    <3>2. CASE k = 1
      BY <1>1, <1>2, <1>4, <3>1, <3>2 DEF top
    <3>3. CASE k # 1
      <4>1. 1 \in 1 .. k - 1 /\ stack' # <<>>
        BY <1>3, <1>4, <3>3
      <4> QED BY <1>1, <1>4, <3>1, <4>1
    <3> QED BY <3>2, <3>3
  <2> QED BY <2>1, <2>2, <2>3, <2>4, <2>5 DEF TrialInv
<1>13. PlanInv'
  BY <1>1 DEF PlanInv, PlanFree
<1> QED BY <1>12, <1>13

(* With everything put back, the plan holds of the cells themselves.       *)
LEMMA PreparedTrial ==
  ASSUME TInv, Prepared
  PROVE  TrialInv' /\ PlanInv'
<1>1. /\ UNCHANGED <<cells, slots>> /\ pc = "restore" /\ pc' = "process"
      /\ stack = <<>> /\ PlanInv
  BY DEF TInv, Prepared, decoding
<1>2. cells = entry.cells
  BY <1>1, BackAgain DEF Trying
<1>3. PlanFree(slots, cells)'
  BY <1>1, <1>2 DEF PlanInv, PlanFree
<1> QED BY <1>1, <1>3 DEF TrialInv, PlanInv, Trying

(* The slots of the ubatches still to come stay free. *)
LEMMA ProcessUbatchTrial ==
  ASSUME TInv, ProcessUbatch
  PROVE  TrialInv' /\ PlanInv'
<1>1. CASE Len(ubs) = 1
  BY <1>1, NoTrial DEF ProcessUbatch, EndDecode
<1>2. CASE Len(ubs) # 1
  <2>1. /\ IInv /\ pc = "process" /\ pc' = pc /\ slots' = Tail(slots)
        /\ cells' = ApplyUbatch(cells, ubs[1], slots[1]) /\ PlanFree(slots, cells)
    BY <1>2 DEF TInv, ProcessUbatch, PlanInv
  <2>2. /\ Well(cells) /\ slots \in Seq(Seq(Cell)) /\ Len(slots) \in Nat /\ Len(slots) > 1
        /\ slots[1] \in Seq(Cell) /\ ubs[1] \in Seq(Token)
        /\ Len(slots[1]) = Len(ubs[1]) /\ Len(ubs[1]) > 0
    <3>1. /\ Len(ubs) \in Nat /\ Len(ubs) > 1 /\ Len(slots) = Len(ubs)
          /\ slots[1] \in Seq(Cell) /\ Len(slots[1]) = Len(ubs[1]) /\ Len(ubs[1]) > 0
      BY <1>2, <2>1, ProcessType
    <3>2. Well(cells) /\ ubs \in Seq(Seq(Token)) /\ slots \in Seq(Seq(Cell))
      BY <2>1 DEF IInv, UbsInv, SlotsInv
    <3>3. ubs[1] \in Seq(Token)
      BY <3>1, <3>2
    <3> QED BY <3>1, <3>2, <3>3
  <2>3. /\ Len(slots') = Len(slots) - 1
        /\ \A k \in 1 .. Len(slots') : slots'[k] = slots[k + 1]
    BY <2>1, <2>2
  <2>4. \A i \in Targets(slots[1]) : IsEmpty(cells, i)
    <3>1. 1 \in 1 .. Len(slots)
      BY <2>2
    <3>2. \A i \in Targets(slots[1]) : cells.cell[i] = Vacant
      BY <2>1, <3>1 DEF PlanFree
    <3> QED BY <3>2 DEF IsEmpty, Vacant
  <2>5. \A i \in Cell \ Targets(slots[1]) : cells'.cell[i] = cells.cell[i]
    BY <2>1, <2>2, <2>4, ApplyOnEmpty
  <2>6. PlanFree(slots', cells')
    <3> SUFFICES ASSUME NEW k \in 1 .. Len(slots'), NEW i \in Targets(slots'[k])
                 PROVE  /\ cells'.cell[i] = Vacant
                        /\ \A j \in 1 .. k - 1 : i \notin Targets(slots'[j])
      BY DEF PlanFree
    <3>0. k \in Nat /\ k >= 1 /\ k <= Len(slots) - 1
      BY <2>2, <2>3
    <3>1. k + 1 \in 1 .. Len(slots) /\ i \in Targets(slots[k + 1]) /\ 1 \in 1 .. (k + 1) - 1
      <4>1. slots'[k] = slots[k + 1]
        BY <2>3
      <4> QED BY <2>2, <3>0, <4>1
    <3>2. \A j \in 1 .. k - 1 : j + 1 \in 1 .. (k + 1) - 1 /\ slots'[j] = slots[j + 1]
      <4>1. \A j \in 1 .. k - 1 : j \in 1 .. Len(slots')
        BY <2>2, <2>3, <3>0
      <4> QED BY <2>3, <3>0, <4>1
    <3>3. /\ cells.cell[i] = Vacant
          /\ \A j \in 1 .. (k + 1) - 1 : i \notin Targets(slots[j])
      BY <2>1, <3>1 DEF PlanFree
    <3>4. slots[k + 1] \in Seq(Cell)
      BY <2>2, <3>1
    <3>5. i \in Cell
      BY <3>1, <3>4 DEF Targets
    <3> QED BY <2>5, <3>1, <3>2, <3>3, <3>5
  <2> QED BY <2>1, <2>6 DEF TrialInv, PlanInv, Trying
<1> QED BY <1>1, <1>2

(* What is known of a trial is kept by every step. *)
LEMMA NextTrial ==
  ASSUME CpRepeats = FALSE, SwaType = "none", TInv, [Next]_vars
  PROVE  TInv'
<1>1. IInv'
  BY NextKeeps DEF TInv
<1>2. ASSUME NEW b \in Batches, DecodeBegin(b) PROVE TrialInv' /\ PlanInv'
  <2>1. stack = <<>> /\ Well(cells')
    BY <1>1, <1>2 DEF TInv, IInv, StackInv, DecodeBegin
  <2> QED BY <1>2, <2>1, TrialBegins DEF DecodeBegin
<1>3. ASSUME RetryPrepare PROVE TrialInv' /\ PlanInv'
  <2>1. Well(cells')
    BY <1>1 DEF IInv
  <2> QED BY <1>3, <2>1, TrialBegins DEF RetryPrepare
<1>4. ASSUME DecodeStep PROVE TrialInv' /\ PlanInv'
  BY <1>3, <1>4, PlaceUbatchTrial, PlacedAllTrial, OutOfCellsTrial, RestoreOneTrial,
     PreparedTrial, ProcessUbatchTrial, NoTrial
     DEF DecodeStep, GiveUp, FailUbatch, EndDecode
<1>5. ASSUME pc = "idle" /\ UNCHANGED pc PROVE TrialInv' /\ PlanInv'
  BY <1>5, NoTrial
<1>6. ASSUME UNCHANGED vars PROVE TrialInv' /\ PlanInv'
  <2>1. UNCHANGED <<cells, head, pc, stack, slots, entry>>
    BY <1>6 DEF vars, decoding
  <2>2. Taken' = Taken /\ StackPlan' = StackPlan
    BY <2>1 DEF Taken, StackPlan
  <2>3. TrialInv'
    BY <2>1, <2>2 DEF TInv, TrialInv, Trying
  <2>4. PlanInv'
    BY <2>1, <2>2 DEF TInv, PlanInv, PlanFree, IsEmpty
  <2> QED BY <2>3, <2>4
<1>7. \/ \E b \in Batches : DecodeBegin(b)
      \/ DecodeStep \/ (pc = "idle" /\ UNCHANGED pc) \/ UNCHANGED vars
  BY DEF Next, Clear, SeqRemoveAny, SeqRemove, SeqCopy, SeqShift, SeqDivide, SeqKeep,
         EndurkvRmCells, EndurkvCompactSeq, Call
<1> QED BY <1>1, <1>2, <1>4, <1>5, <1>6, <1>7 DEF TInv

(* Nothing is tried out at first. *)
LEMMA InitTrial == Init => TInv
<1>1. Init => pc = "idle"
  BY DEF Init
<1>2. pc = "idle" => TrialInv /\ PlanInv
  BY DEF TrialInv, PlanInv, Trying
<1> QED BY <1>1, <1>2, InitIInv DEF TInv

(***************************************************************************)
(* prepare leaves no trace: when it has put the cells back, they and the   *)
(* head are what they were when it began, in a cache without a window,     *)
(* where a ubatch only ever takes empty cells.                             *)
(***************************************************************************)
THEOREM TrialLeavesNoTrace ==
  ASSUME CpRepeats = FALSE, SwaType = "none"
  PROVE  Spec => []RestoreExact
<1>1. TInv => RestoreExact
  BY BackAgain DEF RestoreExact, Trying
<1>2. TInv /\ [Next]_vars => TInv'
  BY NextTrial
<1> QED BY InitTrial, <1>1, <1>2, PTL DEF Spec

-----------------------------------------------------------------------------
KdataType == kdata \in [Cell -> [tok : Tok \cup {NoTok}, rot : Int]]

(* There are always as many numbers no cell uses as there are cells.       *)
LEMMA ManyFresh ==
  ASSUME KdataType
  PROVE  IsFiniteSet(Fresh) /\ Cardinality(Fresh) >= NCells
<1> DEFINE used == {kdata[i].tok : i \in Cell}
           f    == [i \in Cell |-> kdata[i].tok]
<1>1. NCells \in Nat /\ IsFiniteSet(Cell) /\ Cardinality(Cell) = NCells
  BY CellsAssumption, FS_Interval DEF Cell
<1>2. IsFiniteSet(Tok) /\ Cardinality(Tok) = 2 * NCells
  BY CellsAssumption, FS_Interval DEF Tok
<1>3. IsFiniteSet(used) /\ Cardinality(used) <= NCells
  <2>1. f \in [Cell -> used] /\ \A y \in used : \E i \in Cell : f[i] = y
    OBVIOUS
  <2>2. f \in Surjection(Cell, used)
    BY <2>1, Fun_IsSurj
  <2> HIDE DEF f, used
  <2> QED BY <1>1, <2>2, FS_Surjection
<1>4. Fresh = Tok \ used
  BY DEF Fresh
<1> HIDE DEF used
<1>5. IsFiniteSet(Tok \ used) /\ Cardinality(Tok \ used) = 2 * NCells - Cardinality(Tok \cap used)
  BY <1>2, FS_Difference
<1>6. IsFiniteSet(Tok \cap used) /\ Cardinality(Tok \cap used) <= Cardinality(used)
  BY <1>3, FS_Intersection
<1>7. Cardinality(Tok \cap used) \in Nat /\ Cardinality(used) \in Nat
  BY <1>3, <1>6, FS_CardinalityType
<1> QED BY <1>1, <1>3, <1>4, <1>5, <1>6, <1>7

(* A set that is no larger than another can be mapped into it one to one.  *)
LEMMA InjectionExists ==
  ASSUME NEW S, NEW T, IsFiniteSet(S), IsFiniteSet(T), Cardinality(S) <= Cardinality(T)
  PROVE  \E f \in [S -> T] : \A x, y \in S : f[x] = f[y] => x = y
<1> DEFINE m == Cardinality(S)
           n == Cardinality(T)
<1>1. m \in Nat /\ n \in Nat /\ ExistsBijection(1 .. m, S) /\ ExistsBijection(1 .. n, T)
  BY FS_CardinalityType
<1>2. ExistsInjection(S, 1 .. m) /\ ExistsInjection(1 .. n, T)
  BY <1>1, Fun_ExistsBijEquiv
<1>3. m <= n
  OBVIOUS
<1> HIDE DEF m, n
<1>4. ExistsInjection(1 .. m, 1 .. n)
  BY <1>1, <1>3, Fun_NatInjLeq
<1>5. ExistsInjection(S, T)
  BY <1>2, <1>4, Fun_ExistsInjTransitive
<1>6. PICK f \in Injection(S, T) : TRUE
  BY <1>5, Fun_ExistsInj
<1> QED BY <1>6, Fun_InjectionProperties

(* The keys stored for the cells of a set get numbers that no cell uses.   *)
LEMMA NewToksType ==
  ASSUME KdataType, NEW I \in SUBSET Cell
  PROVE  /\ NewToks(I) \in [I -> Fresh]
         /\ \A i, m \in I : i # m => NewToks(I)[i] # NewToks(I)[m]
<1> DEFINE Good(f) == /\ \A i \in I : i \in Fresh => f[i] = i
                      /\ \A i, m \in I : i # m => f[i] # f[m]
<1>1. IsFiniteSet(Fresh) /\ Cardinality(Fresh) >= NCells
  BY ManyFresh
<1>2. IsFiniteSet(I) /\ Cardinality(I) <= NCells /\ NCells \in Nat
  <2>1. NCells \in Nat /\ IsFiniteSet(Cell) /\ Cardinality(Cell) = NCells
    BY CellsAssumption, FS_Interval DEF Cell
  <2> QED BY <2>1, FS_Subset
<1>3. PICK g \in [I \ Fresh -> Fresh \ I] : \A x, y \in I \ Fresh : g[x] = g[y] => x = y
  <2>1. /\ IsFiniteSet(I \ Fresh) /\ Cardinality(I \ Fresh) = Cardinality(I) - Cardinality(I \cap Fresh)
        /\ IsFiniteSet(Fresh \ I)
        /\ Cardinality(Fresh \ I) = Cardinality(Fresh) - Cardinality(Fresh \cap I)
    BY <1>1, <1>2, FS_Difference
  <2>2. I \cap Fresh = Fresh \cap I
    OBVIOUS
  <2>3. /\ Cardinality(I) \in Nat /\ Cardinality(Fresh) \in Nat
        /\ Cardinality(I \cap Fresh) \in Nat
    BY <1>1, <1>2, FS_CardinalityType, FS_Intersection
  <2>4. Cardinality(I \ Fresh) <= Cardinality(Fresh \ I)
    BY <1>1, <1>2, <2>1, <2>2, <2>3
  <2> QED BY <2>1, <2>4, InjectionExists
<1> DEFINE f == [i \in I |-> IF i \in Fresh THEN i ELSE g[i]]
<1>4. f \in [I -> Fresh] /\ Good(f)
  <2>1. ASSUME NEW i \in I PROVE f[i] \in Fresh /\ (i \in Fresh => f[i] = i)
                                 /\ (i \notin Fresh => f[i] = g[i] /\ f[i] \notin I)
    OBVIOUS
  <2> HIDE DEF f
  <2>2. ASSUME NEW i \in I, NEW m \in I, f[i] = f[m] PROVE i = m
    BY <1>3, <2>1, <2>2
  <2>3. f \in [I -> Fresh]
    BY <2>1 DEF f
  <2> QED BY <2>1, <2>2, <2>3
<1>5. NewToks(I) = CHOOSE h \in [I -> Fresh] : Good(h)
  BY DEF NewToks
<1> HIDE DEF Good
<1>6. NewToks(I) \in [I -> Fresh] /\ Good(NewToks(I))
  BY <1>4, <1>5
<1> QED BY <1>6 DEF Good

-----------------------------------------------------------------------------
(* Every live cell has a key, and its rotation and the pending shift add   *)
(* up to the position.                                                     *)
RopeOf(c) ==
    \A i \in Live(c) : /\ kdata[i].tok # NoTok
                       /\ kdata[i].rot + c.cell[i].shift = c.cell[i].pos
                       /\ c.cell[i].shift # 0 => c.hasShift = TRUE

(***************************************************************************)
(* While a batch is tried out this holds of the cells of the start, to     *)
(* which prepare goes back; and no shift is pending in a decode.           *)
(***************************************************************************)
KeysInv ==
    /\ KdataType /\ RopeOf(Stable)
    /\ pc # "idle" => Stable.hasShift = FALSE

(* A token of a ubatch that may fail is in one sequence only. *)
SingleInv ==
    ComputeFails = TRUE =>
        \A k \in 1 .. Len(ubs) : \A m \in 1 .. Len(ubs[k]) : Len(ubs[k][m].ids) = 1

(* Of the client and its backend; the README says what happens without.    *)
SingleTokens ==
    ComputeFails = TRUE => \A b \in Batches : \A k \in 1 .. Len(b) : Len(b[k]) = 1

KeysAssumption ==
    /\ CpRepeats = FALSE /\ CompactPending = FALSE /\ ShiftFails = FALSE
    /\ Divisors = {} /\ SingleTokens

(* A key store stays one when what empty cells store is forgotten.         *)
LEMMA ScrubType ==
  ASSUME NEW c, NEW kd \in [Cell -> [tok : Tok \cup {NoTok}, rot : Int]]
  PROVE  /\ Scrub(c, kd) \in [Cell -> [tok : Tok \cup {NoTok}, rot : Int]]
         /\ \A i \in Live(c) : Scrub(c, kd)[i] = kd[i]
<1>1. NoData \in [tok : Tok \cup {NoTok}, rot : Int]
  BY DEF NoData
<1> QED BY <1>1 DEF Scrub, Live

(* Cells that stay where they are keep their key, position and shift.      *)
LEMMA SameKeys ==
  ASSUME KdataType, RopeOf(cells), cells'.hasShift = cells.hasShift,
         kdata' = Scrub(cells', kdata) \/ kdata' = kdata,
         \A i \in Live(cells') : /\ i \in Live(cells)
                                 /\ cells'.cell[i].pos = cells.cell[i].pos
                                 /\ cells'.cell[i].shift = cells.cell[i].shift
  PROVE  KdataType' /\ RopeOf(cells)'
<1>1. KdataType' /\ \A i \in Live(cells') : kdata'[i] = kdata[i]
  BY ScrubType DEF KdataType
<1> QED BY <1>1 DEF RopeOf

(* Sequences leave cells: those that stay in use are as they were.         *)
LEMMA SeqRmSame ==
  ASSUME NEW c, Well(c), NEW drop
  PROVE  /\ SeqRm(c, drop).hasShift = c.hasShift
         /\ \A i \in Live(SeqRm(c, drop)) :
              /\ i \in Live(c) /\ i \notin Emptied(c, drop)
              /\ SeqRm(c, drop).cell[i].pos = c.cell[i].pos
              /\ SeqRm(c, drop).cell[i].shift = c.cell[i].shift
              /\ SeqRm(c, drop).cell[i].seq = c.cell[i].seq \ drop[i]
<1> DEFINE d == SeqRm(c, drop)
<1>1. d.hasShift = c.hasShift
  BY DEF SeqRm
<1>2. ASSUME NEW i \in Live(d)
      PROVE  /\ i \in Live(c) /\ i \notin Emptied(c, drop)
             /\ d.cell[i].pos = c.cell[i].pos /\ d.cell[i].shift = c.cell[i].shift
             /\ d.cell[i].seq = c.cell[i].seq \ drop[i]
  <2>1. i \in Cell /\ ~IsEmpty(d, i)
    BY DEF Live
  <2>2. i \in Live(c) /\ i \notin Emptied(c, drop)
    BY <2>1, SeqRmWell DEF Live
  <2>3. d.cell[i] = [c.cell[i] EXCEPT !.seq = @ \ drop[i]]
    BY <2>1, <2>2 DEF SeqRm
  <2>4. c.cell[i] \in CellState
    BY <2>1 DEF Well, KVCellsType
  <2> HIDE DEF d
  <2>5. d.cell[i].pos = c.cell[i].pos /\ d.cell[i].shift = c.cell[i].shift
    BY <2>3, <2>4 DEF CellState
  <2>6. d.cell[i].seq = c.cell[i].seq \ drop[i]
    BY <2>3, <2>4 DEF CellState
  <2> QED BY <2>2, <2>5, <2>6
<1> QED BY <1>1, <1>2

(* Between two decodes what counts are the cells themselves.               *)
LEMMA IdleKeys ==
  ASSUME pc' = "idle", KdataType', RopeOf(cells)'
  PROVE  KeysInv'
  BY DEF KeysInv, Stable, Trying

(* Sequences leave cells: the keys of the cells that stay are untouched. *)
LEMMA LeaveKeys ==
  ASSUME IInv, KeysInv, pc = "idle", UNCHANGED <<pc, decoding>>, NEW drop, Leave(drop)
  PROVE  KeysInv'
<1>1. Well(cells) /\ KdataType /\ RopeOf(cells)
  BY DEF IInv, KeysInv, Stable, Trying
<1>2. KdataType' /\ RopeOf(cells)'
  BY <1>1, SeqRmSame, SameKeys DEF Leave
<1> QED BY <1>2, IdleKeys

(* A copy gives a cell another sequence and no other position. *)
LEMMA SeqCopyKeys ==
  ASSUME IInv, KeysInv, NEW s \in Seqs, NEW t \in Seqs, NEW r \in Ranges, SeqCopy(s, t, r)
  PROVE  KeysInv'
<1>1. /\ Well(cells) /\ KdataType /\ RopeOf(cells) /\ pc' = "idle" /\ kdata' = kdata
      /\ cells' = SeqAdd(cells, Having(s, r), t)
  BY DEF IInv, KeysInv, Stable, Trying, SeqCopy, Call
<1>2. cells'.hasShift = cells.hasShift
  BY <1>1 DEF SeqAdd
<1>3. ASSUME NEW i \in Cell
      PROVE  /\ cells'.cell[i].pos = cells.cell[i].pos
             /\ cells'.cell[i].shift = cells.cell[i].shift
  <2>1. cells.cell[i] \in CellState
    BY <1>1 DEF Well, KVCellsType
  <2>2. cells'.cell[i] \in {cells.cell[i], [cells.cell[i] EXCEPT !.seq = @ \cup {t}]}
    BY <1>1 DEF SeqAdd
  <2> QED BY <2>1, <2>2 DEF CellState
<1>4. \A i \in Live(cells') : i \in Live(cells)
  BY <1>3 DEF Live, IsEmpty
<1>5. \A i \in Live(cells') : i \in Cell
  BY DEF Live
<1>6. KdataType' /\ RopeOf(cells)'
  BY <1>1, <1>2, <1>3, <1>4, <1>5, SameKeys
<1> QED BY <1>1, <1>6, IdleKeys

(* A position and its pending shift move together. *)
LEMMA SeqShiftKeys ==
  ASSUME IInv, IInv', KeysInv, NEW s \in Seqs, NEW r \in Ranges, NEW d \in Deltas,
         SeqShift(s, r, d)
  PROVE  KeysInv'
<1> DEFINE I    == Having(s, r)
           gone == {i \in I : cells.cell[i].pos + d < 0}
<1>1. /\ Well(cells) /\ KdataType /\ RopeOf(cells) /\ pc' = "idle"
      /\ cells' = PosAdd(cells, I, d) /\ kdata' = Scrub(cells', kdata)
  BY DEF IInv, KeysInv, Stable, Trying, SeqShift, Call
<1>2. d \in Int /\ I \in SUBSET Live(cells)
  BY <1>1, CacheAssumption, HavingLive
<1>3. I \in SUBSET Cell
  BY <1>2 DEF Live
<1> HIDE DEF I
<1>4. KdataType' /\ \A i \in Live(cells') : kdata'[i] = kdata[i]
  BY <1>1, ScrubType DEF KdataType
<1>5. cells'.hasShift = (cells.hasShift \/ I # {}) /\ cells.hasShift \in BOOLEAN
  BY <1>1 DEF PosAdd, Well, KVCellsType
<1>6. ASSUME NEW i \in Live(cells')
      PROVE  /\ kdata'[i].tok # NoTok
             /\ kdata'[i].rot + cells'.cell[i].shift = cells'.cell[i].pos
             /\ cells'.cell[i].shift # 0 => cells'.hasShift = TRUE
  <2>1. i \in Cell /\ cells'.cell[i].pos # None
    BY DEF Live, IsEmpty
  <2>2. cells.cell[i] \in CellState /\ kdata[i] \in [tok : Tok \cup {NoTok}, rot : Int]
    BY <1>1, <2>1 DEF Well, KVCellsType, KdataType
  <2>3. kdata[i].rot \in Int /\ cells.cell[i].shift \in Int /\ cells.cell[i].pos \in Int
    BY <2>2, CellsAssumption DEF CellState, Pos, None
  <2>4. CASE i \notin I
    <3>1. cells'.cell[i] = cells.cell[i]
      BY <1>1, <2>1, <2>4 DEF PosAdd
    <3>2. i \in Live(cells)
      BY <2>1, <3>1 DEF Live, IsEmpty
    <3>3. cells.hasShift = TRUE => cells'.hasShift = TRUE
      BY <1>5
    <3> QED BY <1>1, <1>4, <3>1, <3>2, <3>3 DEF RopeOf
  <2>5. CASE i \in I
    <3>1. i \in Live(cells) /\ cells'.hasShift = TRUE
      BY <1>2, <1>5, <2>5
    <3>2. i \notin gone
      <4>1. i \in gone => cells'.cell[i] = Vacant
        BY <1>1, <2>1, <2>5 DEF PosAdd
      <4> QED BY <2>1, <4>1 DEF Vacant
    <3>3. cells'.cell[i] = [cells.cell[i] EXCEPT !.pos = @ + d, !.shift = @ + d]
      BY <1>1, <2>1, <2>5, <3>2 DEF PosAdd
    <3>4. /\ cells'.cell[i].pos = cells.cell[i].pos + d
          /\ cells'.cell[i].shift = cells.cell[i].shift + d
      BY <2>2, <3>3 DEF CellState
    <3>5. kdata[i].tok # NoTok /\ kdata[i].rot + cells.cell[i].shift = cells.cell[i].pos
      BY <1>1, <3>1 DEF RopeOf
    <3>6. kdata[i].rot + (cells.cell[i].shift + d) = cells.cell[i].pos + d
      BY <1>2, <2>3, <3>5
    <3> QED BY <1>4, <3>1, <3>4, <3>5, <3>6
  <2> QED BY <2>4, <2>5
<1>7. RopeOf(cells)'
  BY <1>6 DEF RopeOf
<1> QED BY <1>1, <1>4, <1>7, IdleKeys

(* A pending shift is added to the rotation of every key, and is gone.     *)
LEMMA UpdateKeys ==
  ASSUME Well(cells), KdataType, RopeOf(cells), ShiftFails = FALSE, Update
  PROVE  KdataType' /\ RopeOf(cells)' /\ cells'.hasShift = FALSE
<1>1. CASE cells.hasShift = FALSE
  <2>1. UNCHANGED <<cells, kdata>>
    BY <1>1 DEF Update
  <2> QED BY <1>1, <2>1 DEF KdataType, RopeOf, Live, IsEmpty
<1>2. CASE cells.hasShift # FALSE
  <2>1. kdata' = KShift(cells, kdata) /\ cells' = ResetShift(cells)
    BY <1>2 DEF Update, Well, KVCellsType
  <2>2. cells'.hasShift = FALSE
    BY <2>1 DEF ResetShift
  <2>3. ASSUME NEW i \in Cell
        PROVE  /\ kdata'[i] \in [tok : Tok \cup {NoTok}, rot : Int]
               /\ i \in Live(cells') =>
                    /\ kdata'[i].tok # NoTok
                    /\ kdata'[i].rot + cells'.cell[i].shift = cells'.cell[i].pos
                    /\ cells'.cell[i].shift = 0
    <3>1. cells.cell[i] \in CellState /\ kdata[i] \in [tok : Tok \cup {NoTok}, rot : Int]
      BY DEF Well, KVCellsType, KdataType
    <3>2. cells.cell[i].shift \in Int /\ cells.cell[i].pos \in Int /\ kdata[i].rot \in Int
      BY <3>1, CellsAssumption DEF CellState, Pos, None
    <3>3. cells'.cell[i] = [cells.cell[i] EXCEPT !.shift = 0]
      BY <2>1 DEF ResetShift
    <3>4. cells'.cell[i].pos = cells.cell[i].pos /\ cells'.cell[i].shift = 0
      BY <3>1, <3>3 DEF CellState
    <3>5. kdata'[i] = IF IsEmpty(cells, i) \/ kdata[i].tok = NoTok THEN kdata[i]
                      ELSE [kdata[i] EXCEPT !.rot = @ + cells.cell[i].shift]
      BY <2>1 DEF KShift
    <3>6. i \in Live(cells') => i \in Live(cells) /\ ~IsEmpty(cells, i)
      BY <3>4 DEF Live, IsEmpty
    <3>7. CASE IsEmpty(cells, i) \/ kdata[i].tok = NoTok
      BY <3>1, <3>5, <3>6, <3>7 DEF RopeOf
    <3>8. CASE ~(IsEmpty(cells, i) \/ kdata[i].tok = NoTok)
      <4>1. kdata'[i] = [kdata[i] EXCEPT !.rot = @ + cells.cell[i].shift]
        BY <3>5, <3>8
      <4>2. /\ kdata'[i].tok = kdata[i].tok
            /\ kdata'[i].rot = kdata[i].rot + cells.cell[i].shift
            /\ kdata'[i] \in [tok : Tok \cup {NoTok}, rot : Int]
        BY <3>1, <3>2, <4>1
      <4>3. i \in Live(cells) => kdata[i].rot + cells.cell[i].shift = cells.cell[i].pos
        BY DEF RopeOf
      <4> QED BY <3>2, <3>4, <3>6, <3>8, <4>2, <4>3
    <3> QED BY <3>7, <3>8
  <2>4. KdataType'
    <3>1. kdata' = [i \in Cell |-> kdata'[i]]
      BY <2>1 DEF KShift
    <3> QED BY <2>3, <3>1 DEF KdataType
  <2>5. \A i \in Live(cells') : i \in Cell
    BY DEF Live
  <2> QED BY <2>2, <2>3, <2>4, <2>5 DEF RopeOf
<1> QED BY <1>1, <1>2

(* A batch of single tokens gives ubatches of single tokens. *)
LEMMA DecodeBeginSingle ==
  ASSUME SingleTokens, NEW b \in Batches, DecodeBegin(b)
  PROVE  SingleInv'
<1> SUFFICES ASSUME ComputeFails = TRUE
             PROVE  \A k \in 1 .. Len(ubs') : \A m \in 1 .. Len(ubs'[k]) : Len(ubs'[k][m].ids) = 1
  BY DEF SingleInv
<1> DEFINE T == {t \in [pos : Pos, ids : Seq(Seqs)] : Len(t.ids) = 1}
<1>1. b \in Seq(Seq(Seqs) \ {<<>>}) /\ \A k \in 1 .. Len(b) : Len(b[k]) = 1
  BY CacheAssumption DEF SingleTokens
<1> PICK p \in [DOMAIN b -> Pos] : ubs' = Split(b, p)
  BY DEF DecodeBegin
<1>2. \A k \in 1 .. Len(b) : p[k] \in Pos /\ b[k] \in Seq(Seqs)
  BY <1>1
<1>3. \A k \in 1 .. Len(b) : [pos |-> p[k], ids |-> b[k]] \in T
  BY <1>1, <1>2
<1>4. ubs' \in Seq(Seq(T))
  <2> HIDE DEF T
  <2> QED BY <1>3, SplitInto
<1>5. \A t \in T : Len(t.ids) = 1
  OBVIOUS
<1> HIDE DEF T
<1> QED BY <1>4, <1>5

(* A batch starts without a pending shift. *)
LEMMA DecodeBeginKeys ==
  ASSUME KeysAssumption, IInv, KeysInv, NEW b \in Batches, DecodeBegin(b)
  PROVE  /\ KeysInv' /\ SingleInv'
         /\ RopeOf(cells)' /\ cells'.hasShift = FALSE
<1>1. /\ Well(cells) /\ KdataType /\ RopeOf(cells) /\ Update
      /\ pc' = "prepare" /\ entry' = [cells |-> cells', head |-> head]
  BY DEF IInv, KeysInv, Stable, Trying, DecodeBegin
<1>2. KdataType' /\ RopeOf(cells)' /\ cells'.hasShift = FALSE
  BY <1>1, UpdateKeys DEF KeysAssumption
<1>3. Stable' = cells'
  BY <1>1 DEF Stable, Trying
<1>4. KeysInv'
  BY <1>2, <1>3 DEF KeysInv, RopeOf
<1> QED BY <1>2, <1>4, DecodeBeginSingle DEF KeysAssumption

(* The ubatch to process, once applied: in empty cells, without a shift.   *)
LEMMA AppliedAt ==
  ASSUME TInv, pc = "process"
  PROVE  /\ ubs[1] \in Seq(Token) /\ slots[1] \in Seq(Cell) /\ Len(slots[1]) = Len(ubs[1])
         /\ Well(ApplyUbatch(cells, ubs[1], slots[1]))
         /\ ApplyUbatch(cells, ubs[1], slots[1]).hasShift = cells.hasShift
         /\ \A i \in Cell \ Targets(slots[1]) :
              ApplyUbatch(cells, ubs[1], slots[1]).cell[i] = cells.cell[i]
         /\ \A i \in Targets(slots[1]) :
              /\ i \in Cell /\ cells.cell[i] = Vacant
              /\ SlotOf(slots[1], i) \in 1 .. Len(ubs[1])
              /\ ubs[1][SlotOf(slots[1], i)] \in Token
              /\ ApplyUbatch(cells, ubs[1], slots[1]).cell[i].pos
                   = ubs[1][SlotOf(slots[1], i)].pos
              /\ ApplyUbatch(cells, ubs[1], slots[1]).cell[i].seq
                   = IdsOf(ubs[1][SlotOf(slots[1], i)].ids)
              /\ ApplyUbatch(cells, ubs[1], slots[1]).cell[i].shift = 0
<1> DEFINE c == ApplyUbatch(cells, ubs[1], slots[1])
<1>1. IInv
  BY DEF TInv
<1>2. /\ Len(ubs) \in Nat /\ Len(ubs) >= 1 /\ Len(slots) = Len(ubs)
      /\ slots[1] \in Seq(Cell) /\ Len(slots[1]) = Len(ubs[1]) /\ Len(ubs[1]) > 0
      /\ Well(c) /\ Well(cells) /\ ubs \in Seq(Seq(Token))
  BY <1>1, ProcessType DEF IInv, UbsInv
<1>3. ubs[1] \in Seq(Token) /\ 1 \in 1 .. Len(slots)
  BY <1>2
<1>4. \A i \in Targets(slots[1]) : cells.cell[i] = Vacant /\ IsEmpty(cells, i)
  <2>1. \A i \in Targets(slots[1]) : cells.cell[i] = Vacant
    BY <1>3 DEF TInv, PlanInv, PlanFree
  <2> QED BY <2>1 DEF IsEmpty, Vacant
<1>5. /\ c.hasShift = cells.hasShift
      /\ \A i \in Cell \ Targets(slots[1]) : c.cell[i] = cells.cell[i]
      /\ \A i \in Targets(slots[1]) :
           /\ c.cell[i].pos = ubs[1][SlotOf(slots[1], i)].pos
           /\ c.cell[i].seq = IdsOf(ubs[1][SlotOf(slots[1], i)].ids)
           /\ c.cell[i].shift = 0
  BY <1>2, <1>3, <1>4, ApplyOnEmpty
<1>6. ASSUME NEW i \in Targets(slots[1])
      PROVE  /\ i \in Cell /\ SlotOf(slots[1], i) \in 1 .. Len(ubs[1])
             /\ ubs[1][SlotOf(slots[1], i)] \in Token
  <2>1. SlotOf(slots[1], i) \in 1 .. Len(ubs[1])
    BY <1>2, SlotOfType
  <2>2. i \in Cell
    BY <1>2 DEF Targets
  <2> QED BY <1>3, <2>1, <2>2
<1> HIDE DEF c
<1> QED BY <1>2, <1>3, <1>4, <1>5, <1>6 DEF c

(* The ubatches after the one that was processed move up. *)
LEMMA NextUbatches ==
  ASSUME IInv, ProcessUbatch, Len(ubs) # 1
  PROVE  /\ Len(ubs) \in Nat /\ Len(ubs') = Len(ubs) - 1
         /\ \A k \in 1 .. Len(ubs') : ubs'[k] = ubs[k + 1] /\ k + 1 \in 1 .. Len(ubs)
<1>1. pc = "process" /\ ubs' = Tail(ubs) /\ ubs \in Seq(Seq(Token))
  BY DEF ProcessUbatch, IInv, UbsInv
<1>2. Len(ubs) \in Nat /\ Len(ubs) > 1
  BY <1>1, ProcessType
<1> QED BY <1>1, <1>2

(* What the graph of a ubatch stores: new keys, rotated for its positions. *)
LEMMA StoredKeys ==
  ASSUME KdataType, NEW c, NEW ub \in Seq(Token), NEW idxs \in Seq(Cell), Len(idxs) = Len(ub),
         kdata' = Scrub(c, [i \in Cell |->
                      IF i \notin Targets(idxs) THEN kdata[i]
                      ELSE [tok |-> NewToks(Targets(idxs))[i], rot |-> ub[SlotOf(idxs, i)].pos]])
  PROVE  /\ KdataType'
         /\ \A i \in Live(c) :
              /\ i \in Targets(idxs) => /\ kdata'[i].tok # NoTok
                                       /\ kdata'[i].rot = ub[SlotOf(idxs, i)].pos
              /\ i \notin Targets(idxs) => kdata'[i] = kdata[i]
<1> DEFINE kd == [i \in Cell |-> IF i \notin Targets(idxs) THEN kdata[i]
                                ELSE [tok |-> NewToks(Targets(idxs))[i],
                                      rot |-> ub[SlotOf(idxs, i)].pos]]
<1>1. Targets(idxs) \in SUBSET Cell
  BY DEF Targets
<1>2. ASSUME NEW i \in Targets(idxs)
      PROVE  /\ kd[i] \in [tok : Tok, rot : Int]
             /\ kd[i].tok # NoTok /\ kd[i].rot = ub[SlotOf(idxs, i)].pos
  <2>1. NewToks(Targets(idxs))[i] \in Tok
    <3>1. NewToks(Targets(idxs)) \in [Targets(idxs) -> Fresh]
      BY <1>1, NewToksType
    <3> QED BY <3>1 DEF Fresh
  <2>2. ub[SlotOf(idxs, i)].pos \in Int
    <3>1. ub[SlotOf(idxs, i)] \in Token
      BY SlotOfType
    <3> QED BY <3>1, CellsAssumption DEF Token, Pos
  <2>3. kd[i] = [tok |-> NewToks(Targets(idxs))[i], rot |-> ub[SlotOf(idxs, i)].pos]
    BY <1>1
  <2>4. NoTok \notin Tok
    BY DEF NoTok, Tok
  <2> HIDE DEF kd
  <2> QED BY <2>1, <2>2, <2>3, <2>4
<1>3. \A i \in Cell \ Targets(idxs) : kd[i] = kdata[i]
  OBVIOUS
<1>4. kd \in [Cell -> [tok : Tok \cup {NoTok}, rot : Int]]
  <2>1. \A i \in Cell : kd[i] \in [tok : Tok \cup {NoTok}, rot : Int]
    BY <1>2, <1>3 DEF KdataType
  <2> QED BY <2>1
<1> HIDE DEF kd
<1>5. KdataType' /\ \A i \in Live(c) : kdata'[i] = kd[i]
  <2>1. kdata' = Scrub(c, kd)
    BY DEF kd
  <2>2. /\ Scrub(c, kd) \in [Cell -> [tok : Tok \cup {NoTok}, rot : Int]]
        /\ \A i \in Live(c) : Scrub(c, kd)[i] = kd[i]
    BY <1>4, ScrubType
  <2> QED BY <2>1, <2>2 DEF KdataType
<1>6. \A i \in Live(c) : i \in Cell
  BY DEF Live
<1> QED BY <1>2, <1>3, <1>5, <1>6

(* Compaction lists the live cells in order, each once, and moves them to  *)
(* the front unless they are there already.                                *)
LEMMA CompactDoes ==
  ASSUME Well(cells), NEW s \in Seqs, EndurkvCompactSeq(s)
  PROVE  \E src \in Seq(Cell) :
           /\ Len(src) <= NCells /\ head' = Len(src)
           /\ Live(cells) = {src[k] : k \in 1 .. Len(src)}
           /\ \A k, m \in 1 .. Len(src) : src[k] = src[m] => k = m
           /\ \/ cells' = cells /\ kdata' = kdata
              \/ /\ cells' = Gather(cells, src)
                 /\ kdata' = Scrub(cells', [i \in Cell |->
                               IF i < Len(src) THEN kdata[src[i + 1]] ELSE kdata[i]])
<1> DEFINE M == Mine(s)
           n == Cardinality(M)
<1>1. PICK src \in InOrder(M) :
         /\ head' = Len(src)
         /\ \/ cells' = cells /\ kdata' = kdata
            \/ /\ cells' = Gather(cells, src)
               /\ kdata' = Scrub(cells', [i \in Cell |->
                             IF i < Len(src) THEN kdata[src[i + 1]] ELSE kdata[i]])
  BY DEF EndurkvCompactSeq
<1>2. /\ M \in SUBSET Live(cells) /\ n = Cardinality(cells.used) /\ cells.used = Live(cells)
      /\ Live(cells) \in SUBSET Cell
  BY DEF EndurkvCompactSeq, Mine, Live, Well, IndexConsistent
<1>3. /\ IsFiniteSet(Cell) /\ Cardinality(Cell) = NCells /\ NCells \in Nat
  BY CellFinite, CellsAssumption, FS_Interval DEF Cell
<1>4. IsFiniteSet(Live(cells)) /\ Cardinality(Live(cells)) <= NCells
  BY <1>2, <1>3, FS_Subset
<1> HIDE DEF M
<1>5. M = Live(cells)
  BY <1>2, <1>4, FS_Subset
<1>6. n \in Nat /\ n <= NCells /\ IsFiniteSet(M)
  BY <1>4, <1>5, FS_CardinalityType
<1>7. src \in [1 .. n -> M] /\ \A k, m \in 1 .. n : k < m => src[k] < src[m]
  BY DEF InOrder
<1> HIDE DEF n
<1>8. \A k \in 1 .. n : src[k] \in Cell /\ src[k] \in Int
  BY <1>2, <1>5, <1>7, CellsAssumption DEF Cell
<1>9. src \in Seq(Cell) /\ Len(src) = n
  <2>1. src \in [1 .. n -> Cell]
    BY <1>7, <1>8
  <2> QED BY <1>6, <2>1
<1>10. ASSUME NEW k \in 1 .. n, NEW m \in 1 .. n, src[k] = src[m] PROVE k = m
  <2>1. ~(k < m) /\ ~(m < k)
    BY <1>7, <1>8, <1>10
  <2> QED BY <1>6, <2>1
<1>11. M = {src[k] : k \in 1 .. n}
  <2>1. src \in Injection(1 .. n, M)
    BY <1>7, <1>10, Fun_IsInj
  <2>2. Cardinality(1 .. n) = Cardinality(M)
    BY <1>6, FS_Interval DEF n
  <2>3. src \in Surjection(1 .. n, M)
    BY <1>6, <2>1, <2>2, FS_Injection
  <2>4. \A x \in M : \E k \in 1 .. n : src[k] = x
    BY <2>3 DEF Surjection
  <2> QED BY <1>7, <2>4
<1> QED BY <1>1, <1>5, <1>6, <1>9, <1>10, <1>11

(* A key moves with its cell; with no shift pending none can be lost.      *)
LEMMA CompactKeys ==
  ASSUME IInv, KeysInv, CompactPending = FALSE, NEW s \in Seqs, EndurkvCompactSeq(s)
  PROVE  KeysInv'
<1>1. /\ Well(cells) /\ KdataType /\ RopeOf(cells) /\ pc' = "idle" /\ cells.hasShift = FALSE
  <2>1. cells.hasShift \in BOOLEAN
    BY DEF IInv, Well, KVCellsType
  <2> QED BY <2>1 DEF IInv, KeysInv, Stable, Trying, EndurkvCompactSeq, Call
<1>2. PICK src \in Seq(Cell) :
         /\ Len(src) <= NCells
         /\ Live(cells) = {src[k] : k \in 1 .. Len(src)}
         /\ \/ cells' = cells /\ kdata' = kdata
            \/ /\ cells' = Gather(cells, src)
               /\ kdata' = Scrub(cells', [i \in Cell |->
                             IF i < Len(src) THEN kdata[src[i + 1]] ELSE kdata[i]])
  BY <1>1, CompactDoes
<1>3. CASE cells' = cells /\ kdata' = kdata
  BY <1>1, <1>3, IdleKeys DEF KdataType, RopeOf, Live, IsEmpty
<1>4. CASE /\ cells' = Gather(cells, src)
           /\ kdata' = Scrub(cells', [i \in Cell |->
                         IF i < Len(src) THEN kdata[src[i + 1]] ELSE kdata[i]])
  <2> DEFINE n  == Len(src)
             kd == [i \in Cell |-> IF i < n THEN kdata[src[i + 1]] ELSE kdata[i]]
  <2>1. /\ Live(cells') = 0 .. n - 1
        /\ \A k \in 1 .. n : cells'.cell[k - 1].pos = cells.cell[src[k]].pos
        /\ \A i \in Cell : cells.cell[i].shift = 0 => cells'.cell[i].shift = 0
    BY <1>1, <1>2, <1>4, GatherPlaces
  <2>2. \A i \in Cell : cells.cell[i].shift = 0
    <3>1. \A i \in Live(cells) : cells.cell[i].shift = 0
      BY <1>1 DEF RopeOf
    <3>2. \A i \in Cell : i \notin Live(cells) => cells.cell[i] = Vacant
      BY <1>1 DEF Live, Well, IndexConsistent
    <3> QED BY <3>1, <3>2 DEF Vacant
  <2>3. n \in Nat /\ \A k \in 1 .. n : src[k] \in Cell /\ src[k] \in Live(cells)
    BY <1>2
  <2>4. \A i \in Cell : i \in Int /\ i >= 0
    BY CellsAssumption DEF Cell
  <2> HIDE DEF n
  <2>5. kd \in [Cell -> [tok : Tok \cup {NoTok}, rot : Int]]
    <3>1. ASSUME NEW i \in Cell PROVE kd[i] \in [tok : Tok \cup {NoTok}, rot : Int]
      <4>1. CASE i < n
        <5>1. i + 1 \in 1 .. n
          BY <2>3, <2>4, <4>1
        <5>2. src[i + 1] \in Cell /\ kd[i] = kdata[src[i + 1]]
          BY <2>3, <4>1, <5>1
        <5> QED BY <1>1, <5>2 DEF KdataType
      <4>2. CASE ~(i < n)
        BY <1>1, <4>2 DEF KdataType
      <4> QED BY <4>1, <4>2
    <3> QED BY <3>1
  <2>6. kdata' = Scrub(cells', kd)
    BY <1>4 DEF n
  <2>7. \A i \in 0 .. n - 1 : kd[i] = kdata[src[i + 1]]
    <3>1. \A i \in 0 .. n - 1 : i \in Cell /\ i < n
      BY <2>1, <2>3 DEF Live
    <3> QED BY <3>1
  <2> HIDE DEF kd
  <2>8. KdataType' /\ \A i \in Live(cells') : kdata'[i] = kd[i]
    BY <2>5, <2>6, ScrubType DEF KdataType
  <2>9. ASSUME NEW i \in Live(cells')
        PROVE  /\ kdata'[i].tok # NoTok
               /\ kdata'[i].rot + cells'.cell[i].shift = cells'.cell[i].pos
               /\ cells'.cell[i].shift = 0
    <3>1. i \in Cell /\ i \in 0 .. n - 1
      BY <2>1 DEF Live
    <3>2. i + 1 \in 1 .. n /\ (i + 1) - 1 = i
      BY <2>3, <3>1
    <3>3. src[i + 1] \in Live(cells) /\ src[i + 1] \in Cell
      BY <2>3, <3>2
    <3>4. /\ kdata[src[i + 1]].tok # NoTok
          /\ kdata[src[i + 1]].rot + cells.cell[src[i + 1]].shift = cells.cell[src[i + 1]].pos
          /\ cells.cell[src[i + 1]].shift = 0
      BY <1>1, <2>2, <3>3 DEF RopeOf
    <3>5. cells'.cell[i].pos = cells.cell[src[i + 1]].pos /\ cells'.cell[i].shift = 0
      BY <2>1, <2>2, <3>1, <3>2
    <3>6. kdata'[i] = kdata[src[i + 1]]
      BY <2>7, <2>8, <3>1
    <3> QED BY <3>4, <3>5, <3>6
  <2>10. RopeOf(cells)'
    BY <2>9 DEF RopeOf
  <2> QED BY <1>1, <2>8, <2>10, IdleKeys
<1> QED BY <1>2, <1>3, <1>4

-----------------------------------------------------------------------------
(* The keys follow the positions through every memory operation. *)
LEMMA CallKeys ==
  ASSUME KeysAssumption, IInv, IInv', KeysInv,
         \/ Clear
         \/ \E r \in Ranges :
              \/ SeqRemoveAny(r)
              \/ \E s \in Seqs :
                   \/ SeqRemove(s, r)
                   \/ \E t \in Seqs : SeqCopy(s, t, r)
                   \/ \E d \in Deltas : SeqShift(s, r, d)
                   \/ \E d \in Divisors : SeqDivide(s, r, d)
         \/ \E s \in Seqs :
              \/ SeqKeep(s)
              \/ \E keep \in SUBSET Cell : EndurkvRmCells(s, keep, NCells)
              \/ EndurkvCompactSeq(s)
  PROVE  KeysInv' /\ UNCHANGED <<pc, decoding>> /\ pc = "idle"
<1>1. ASSUME Clear PROVE KeysInv'
  <2>1. cells' = Reset /\ kdata' = [i \in Cell |-> NoData] /\ pc' = "idle"
    BY <1>1 DEF Clear, Call
  <2>2. Live(cells') = {}
    BY <2>1, ResetWell DEF Live, IsEmpty, Vacant
  <2>3. NoData \in [tok : Tok \cup {NoTok}, rot : Int]
    BY DEF NoData
  <2>4. KdataType' /\ RopeOf(cells)'
    BY <2>1, <2>2, <2>3 DEF KdataType, RopeOf
  <2> QED BY <2>1, <2>4, IdleKeys
<1>2. ASSUME NEW r \in Ranges, SeqRemoveAny(r) PROVE KeysInv'
  BY <1>2, LeaveKeys DEF SeqRemoveAny, Call
<1>3. ASSUME NEW r \in Ranges, NEW s \in Seqs, SeqRemove(s, r) PROVE KeysInv'
  BY <1>3, LeaveKeys DEF SeqRemove, Call
<1>4. ASSUME NEW s \in Seqs, SeqKeep(s) PROVE KeysInv'
  BY <1>4, LeaveKeys DEF SeqKeep, Call
<1>5. ASSUME NEW s \in Seqs, NEW keep \in SUBSET Cell, EndurkvRmCells(s, keep, NCells)
      PROVE  KeysInv'
  BY <1>5, LeaveKeys DEF EndurkvRmCells, Call
<1>6. ASSUME NEW r \in Ranges, NEW s \in Seqs, NEW t \in Seqs, SeqCopy(s, t, r)
      PROVE  KeysInv'
  BY <1>6, SeqCopyKeys
<1>7. ASSUME NEW r \in Ranges, NEW s \in Seqs, NEW d \in Deltas, SeqShift(s, r, d)
      PROVE  KeysInv'
  BY <1>7, SeqShiftKeys
<1>8. ASSUME NEW s \in Seqs, EndurkvCompactSeq(s) PROVE KeysInv'
  BY <1>8, CompactKeys DEF KeysAssumption
<1>9. KeysInv'
  BY <1>1, <1>2, <1>3, <1>4, <1>5, <1>6, <1>7, <1>8 DEF KeysAssumption
<1>10. UNCHANGED <<pc, decoding>> /\ pc = "idle"
  BY DEF Clear, SeqRemoveAny, SeqRemove, SeqCopy, SeqShift, SeqDivide, SeqKeep,
         EndurkvRmCells, EndurkvCompactSeq, Call
<1> QED BY <1>9, <1>10

(* Where keys follow positions none is used before it has been rotated.    *)
LEMMA RopeHolds ==
  ASSUME KeysInv
  PROVE  RopeInv
<1>1. KdataType /\ RopeOf(Stable) /\ (pc # "idle" => Stable.hasShift = FALSE)
  BY DEF KeysInv
<1>2. RopeRecoverable
  BY <1>1 DEF RopeRecoverable, RopeOf, Stable
<1>3. ASSUME pc = "process", NEW i \in Live(cells) PROVE kdata[i].rot = cells.cell[i].pos
  <2>1. /\ kdata[i].rot + cells.cell[i].shift = cells.cell[i].pos
        /\ cells.cell[i].shift = 0
    BY <1>1, <1>3 DEF RopeOf, Stable, Trying
  <2>2. kdata[i].rot \in Int
    <3>1. kdata[i] \in [tok : Tok \cup {NoTok}, rot : Int]
      BY <1>1 DEF KdataType, Live
    <3> QED BY <3>1
  <2> QED BY <2>1, <2>2
<1> QED BY <1>2, <1>3 DEF RopeInv, RotatedAtCompute

-----------------------------------------------------------------------------
(* What is in use, and where the head is, when the k-th ubatch of a plan   *)
(* is placed.                                                              *)
UsedBefore(P, c, k) == Live(c) \cup UNION {Targets(P[j]) : j \in 1 .. k - 1}
HeadBefore(P, h, k) == IF k = 1 THEN h ELSE HeadAfter(P[k - 1])

(* Each ubatch of a plan goes on where a dense prefix ends. *)
PlanDense(P, c, h) ==
    \A k \in 1 .. Len(P) :
        UsedBefore(P, c, k) = 0 .. HeadBefore(P, h, k) - 1 =>
            UsedBefore(P, c, k) \cup Targets(P[k]) = 0 .. HeadAfter(P[k]) - 1

StableHead == IF Trying THEN entry.head ELSE head

DenseInv ==
    /\ StableHead \in Nat
    /\ pc = "prepare" => /\ PlanDense(StackPlan, entry.cells, entry.head)
                         /\ head = HeadBefore(StackPlan, entry.head, Len(stack) + 1)
    /\ pc = "restore" => PlanDense(slots, entry.cells, entry.head)
    /\ pc = "process" => PlanDense(slots, cells, head)

(***************************************************************************)
(* With the head behind a dense prefix the search starts at the head and   *)
(* takes the cells there in order.                                         *)
(***************************************************************************)
LEMMA SlotKeepsDense ==
  ASSUME SwaType = "none", NEW c, Well(c), NEW h \in Nat, Live(c) = 0 .. h - 1,
         NEW n \in Nat, n > 0, NEW idxs \in [1 .. n -> Cell], IsSlot(c, h, n, idxs)
  PROVE  Live(c) \cup Targets(idxs) = 0 .. idxs[n]
<1>1. NCells \in Nat /\ NCells > 0 /\ \A i \in Cell : i \in Nat /\ i < NCells
  BY CellsAssumption DEF Cell
<1>2. \A i : i \in Cell <=> i \in Nat /\ i < NCells
  BY <1>1 DEF Cell
<1>3. \A i \in Cell : CanUse(c, i) <=> i >= h
  <2>1. \A i \in Cell : CanUse(c, i) <=> IsEmpty(c, i)
    BY DEF CanUse, IsMaskedSwa
  <2>2. \A i \in Cell : IsEmpty(c, i) <=> i \notin 0 .. h - 1
    BY DEF Live
  <2> QED BY <1>1, <2>1, <2>2
<1>4. ScanFrom(c, h, n) = h
  <2>1. c.used = 0 .. h - 1
    BY DEF Well, IndexConsistent
  <2>2. Cardinality(c.used) = h
    BY <2>1, FS_Interval
  <2> QED BY <2>2 DEF ScanFrom
<1>5. \A m \in 1 .. n : idxs[m] \in Cell /\ idxs[m] >= h
  BY <1>3 DEF IsSlot
<1>6. \A i \in Cell : i >= h => (i - h) % NCells = i - h
  <2> SUFFICES ASSUME NEW i \in Cell, i >= h PROVE (i - h) % NCells = i - h
    OBVIOUS
  <2> DEFINE x == i - h
  <2>1. x \in Nat /\ x < NCells
    BY <1>1
  <2> HIDE DEF x
  <2>2. x % NCells = x
    BY <1>1, <2>1
  <2> QED BY <2>2 DEF x
<1>7. \A k, m \in 1 .. n : k < m => idxs[k] < idxs[m]
  <2> SUFFICES ASSUME NEW k \in 1 .. n, NEW m \in 1 .. n, k < m PROVE idxs[k] < idxs[m]
    OBVIOUS
  <2>1. (idxs[k] - h) % NCells < (idxs[m] - h) % NCells
    BY <1>4 DEF IsSlot
  <2>2. idxs[k] - h < idxs[m] - h
    BY <1>5, <1>6, <2>1
  <2> QED BY <1>1, <1>5, <2>2
<1>8. \A i \in Cell : i >= h /\ i < idxs[n] => \E k \in 1 .. n : idxs[k] = i
  <2> SUFFICES ASSUME NEW i \in Cell, i >= h, i < idxs[n] PROVE \E k \in 1 .. n : idxs[k] = i
    OBVIOUS
  <2>1. idxs[n] \in Cell /\ idxs[n] >= h
    BY <1>5
  <2>2. (i - h) % NCells < (idxs[n] - h) % NCells
    BY <1>1, <1>6, <2>1
  <2> QED BY <1>3, <1>4, <2>2 DEF IsSlot
<1>9. \A i : i \in Targets(idxs) <=> \E k \in 1 .. n : idxs[k] = i
  BY DEF Targets
<1>10. ASSUME NEW i \in 0 .. idxs[n] PROVE i \in Live(c) \cup Targets(idxs)
  <2>1. idxs[n] \in Cell /\ n \in 1 .. n
    BY <1>5
  <2>2. i \in Nat /\ i <= idxs[n] /\ i \in Cell
    BY <1>1, <1>2, <2>1
  <2>3. CASE i < h
    BY <2>2, <2>3
  <2>4. CASE i >= h
    <3>1. i = idxs[n] \/ i < idxs[n]
      <4> DEFINE x == idxs[n]
      <4>1. x \in Nat /\ i \in Nat /\ i <= x
        BY <1>1, <2>1, <2>2
      <4> HIDE DEF x
      <4> QED BY <4>1 DEF x
    <3>2. \E k \in 1 .. n : idxs[k] = i
      BY <1>8, <2>1, <2>2, <2>4, <3>1
    <3> QED BY <1>9, <3>2
  <2> QED BY <2>2, <2>3, <2>4
<1>11. ASSUME NEW i \in Live(c) \cup Targets(idxs) PROVE i \in 0 .. idxs[n]
  <2>1. idxs[n] \in Cell /\ n \in 1 .. n /\ idxs[n] >= h
    BY <1>5
  <2>2. CASE i \in Live(c)
    BY <1>1, <2>1, <2>2
  <2>3. CASE i \in Targets(idxs)
    <3>1. PICK k \in 1 .. n : idxs[k] = i
      BY <1>9, <2>3
    <3>2. k = n \/ k < n
      OBVIOUS
    <3> QED BY <1>1, <1>5, <1>7, <2>1, <3>1, <3>2
  <2> QED BY <2>2, <2>3
<1> QED BY <1>10, <1>11

(* A step that is not about placing cells only has to keep the head.       *)
LEMMA NoPlan ==
  ASSUME pc' = "idle", head' \in Nat
  PROVE  DenseInv'
  BY DEF DenseInv, StableHead, Trying

(* A trial begins with nothing placed. *)
LEMMA TrialBeginsDense ==
  ASSUME head \in Nat, head' = head, stack' = <<>>, pc' = "prepare",
         entry' = [cells |-> cells', head |-> head]
  PROVE  DenseInv'
<1>1. StackPlan' = <<>> /\ entry'.head = head' /\ Len(stack') = 0
  BY DEF StackPlan
<1>2. PlanDense(StackPlan, entry.cells, entry.head)'
  BY <1>1 DEF PlanDense
<1>3. StableHead' = head
  BY DEF StableHead, Trying
<1> QED BY <1>1, <1>2, <1>3 DEF DenseInv, HeadBefore

(* The head is behind the last cell taken, and stays a number. *)
LEMMA HeadAfterType ==
  ASSUME NEW idxs \in Seq(Cell), Len(idxs) > 0
  PROVE  HeadAfter(idxs) \in Nat /\ HeadAfter(idxs) - 1 = idxs[Len(idxs)]
<1>1. idxs[Len(idxs)] \in Cell
  OBVIOUS
<1>2. idxs[Len(idxs)] \in Nat
  BY <1>1, CellsAssumption DEF Cell
<1> DEFINE x == idxs[Len(idxs)]
<1>3. x \in Nat /\ HeadAfter(idxs) = x + 1
  BY <1>2 DEF HeadAfter
<1> HIDE DEF x
<1> QED BY <1>3 DEF x

(* A ubatch is placed where the ones before it end. *)
LEMMA PlaceUbatchDense ==
  ASSUME TInv, DenseInv, SwaType = "none", PlaceUbatch
  PROVE  DenseInv'
<1> DEFINE k  == Len(stack) + 1
           ub == ubs[k]
           n  == Len(ub)
<1>1. /\ IInv /\ TrialInv /\ PlanInv /\ pc = "prepare" /\ Trying /\ UbsInv /\ StackInv
      /\ UNCHANGED <<pc, slots, entry>> /\ Well(cells)
  BY DEF TInv, IInv, PlaceUbatch, Trying
<1>2. k \in 1 .. Len(ubs) /\ ub \in Seq(Token) /\ n \in Nat /\ n > 0
  BY <1>1 DEF UbsInv, StackInv, PlaceUbatch
<1>3. PICK idxs \in [1 .. n -> Cell] :
         /\ IsSlot(cells, head, n, idxs)
         /\ stack' = Append(stack, [idxs |-> idxs, old |-> Cp(cells, idxs), head |-> head])
         /\ head' = HeadAfter(idxs)
  BY DEF PlaceUbatch
<1> HIDE DEF n, ub
<1>4. idxs \in Seq(Cell) /\ Len(idxs) = n
  BY <1>2, <1>3
<1> DEFINE top == [idxs |-> idxs, old |-> Cp(cells, idxs), head |-> head]
           P   == StackPlan
           Q   == StackPlan'
<1>5. stack \in Seq(StackEntry) /\ Len(stack) \in Nat /\ stack' = Append(stack, top)
      /\ top.idxs = idxs
  BY <1>1, <1>3 DEF StackInv
<1> HIDE DEF top
<1>6. /\ Len(stack') = k /\ stack'[k] = top
      /\ \A j \in 1 .. Len(stack) : stack'[j] = stack[j]
      /\ DOMAIN stack' = 1 .. k /\ DOMAIN stack = 1 .. Len(stack)
      /\ k \in Nat /\ k >= 1 /\ Len(stack) = k - 1
  BY <1>5
<1> HIDE DEF k
<1>7. /\ Len(P) = k - 1 /\ \A j \in 1 .. k - 1 : P[j] = stack[j].idxs
      /\ Len(Q) = k /\ Q[k] = idxs /\ \A j \in 1 .. k - 1 : Q[j] = P[j]
  BY <1>5, <1>6 DEF StackPlan
<1>8. Taken = UNION {Targets(P[j]) : j \in 1 .. k - 1}
  BY <1>6, <1>7 DEF Taken
<1> HIDE DEF P, Q
<1>9. Live(cells) = Live(entry.cells) \cup Taken
  <2>1. Taken \in SUBSET Cell
    <3>1. \A e \in StackEntry : e.idxs \in Seq(Cell)
      BY DEF StackEntry
    <3>2. \A j \in 1 .. Len(stack) : stack[j] \in StackEntry
      BY <1>5
    <3>3. \A j \in 1 .. Len(stack) : stack[j].idxs \in Seq(Cell)
      BY <3>1, <3>2
    <3> QED BY <3>3 DEF Taken, Targets
  <2>2. \A i \in Taken : i \in Live(cells)
    BY <1>1, <2>1 DEF PlanInv, Live
  <2>3. \A i \in Cell \ Taken : i \in Live(cells) <=> i \in Live(entry.cells)
    BY <1>1 DEF TrialInv, Live, IsEmpty
  <2>4. Live(entry.cells) \in SUBSET Cell /\ Live(cells) \in SUBSET Cell
    BY DEF Live
  <2>5. \A i \in Taken : i \notin Live(entry.cells)
    BY <1>1 DEF TrialInv, Live, IsEmpty, Vacant
  <2> QED BY <2>1, <2>2, <2>3, <2>4
<1>10. PlanDense(P, entry.cells, entry.head) /\ head = HeadBefore(P, entry.head, k)
       /\ entry.head \in Nat
  BY <1>1, <1>6 DEF DenseInv, P, StableHead
<1>11. \A j \in 1 .. k : /\ UsedBefore(Q, entry.cells, j) = UsedBefore(P, entry.cells, j)
                         /\ HeadBefore(Q, entry.head, j) = HeadBefore(P, entry.head, j)
  <2> SUFFICES ASSUME NEW j \in 1 .. k
               PROVE  /\ UsedBefore(Q, entry.cells, j) = UsedBefore(P, entry.cells, j)
                      /\ HeadBefore(Q, entry.head, j) = HeadBefore(P, entry.head, j)
    OBVIOUS
  <2>1. \A m \in 1 .. j - 1 : Q[m] = P[m]
    BY <1>6, <1>7
  <2>2. j # 1 => j - 1 \in 1 .. k - 1
    BY <1>6
  <2> QED BY <1>7, <2>1, <2>2 DEF UsedBefore, HeadBefore
<1>12. head \in Nat
  <2>1. CASE k = 1
    BY <1>10, <2>1 DEF HeadBefore
  <2>2. CASE k # 1
    <3>1. k - 1 \in 1 .. Len(stack) /\ k - 1 \in 1 .. Len(ubs) /\ k - 1 \in 1 .. k - 1
      <4>1. Len(ubs) \in Nat /\ k <= Len(ubs)
        BY <1>1, <1>2 DEF UbsInv
      <4> QED BY <1>6, <2>2, <4>1
    <3>2. stack[k - 1] \in StackEntry /\ Len(stack[k - 1].idxs) > 0
      <4>1. \A j \in 1 .. Len(stack) : Len(stack[j].idxs) = Len(ubs[j])
        BY <1>1 DEF StackInv
      <4>2. \A j \in 1 .. Len(ubs) : Len(ubs[j]) > 0
        BY <1>1 DEF UbsInv
      <4>3. \A j \in 1 .. Len(stack) : stack[j] \in StackEntry
        BY <1>5
      <4> QED BY <3>1, <4>1, <4>2, <4>3
    <3>3. P[k - 1] = stack[k - 1].idxs /\ head = HeadAfter(P[k - 1])
      BY <1>7, <1>10, <2>2, <3>1 DEF HeadBefore
    <3>4. stack[k - 1].idxs \in Seq(Cell)
      BY <3>2 DEF StackEntry
    <3> QED BY <3>2, <3>3, <3>4, HeadAfterType
  <2> QED BY <2>1, <2>2
<1>13. UsedBefore(P, entry.cells, k) = Live(cells)
  BY <1>8, <1>9 DEF UsedBefore
<1>14. Live(cells) = 0 .. head - 1 => Live(cells) \cup Targets(idxs) = 0 .. HeadAfter(idxs) - 1
  <2> SUFFICES ASSUME Live(cells) = 0 .. head - 1
               PROVE  Live(cells) \cup Targets(idxs) = 0 .. HeadAfter(idxs) - 1
    OBVIOUS
  <2>1. Live(cells) \cup Targets(idxs) = 0 .. idxs[n]
    BY <1>1, <1>2, <1>3, <1>12, SlotKeepsDense
  <2> QED BY <1>2, <1>4, <2>1, HeadAfterType
<1>15. PlanDense(Q, entry.cells, entry.head)
  <2> SUFFICES ASSUME NEW j \in 1 .. k,
                      UsedBefore(Q, entry.cells, j) = 0 .. HeadBefore(Q, entry.head, j) - 1
               PROVE  UsedBefore(Q, entry.cells, j) \cup Targets(Q[j]) = 0 .. HeadAfter(Q[j]) - 1
    BY <1>7 DEF PlanDense
  <2>1. CASE j = k
    BY <1>7, <1>10, <1>11, <1>13, <1>14, <2>1
  <2>2. CASE j # k
    <3>1. j \in 1 .. k - 1 /\ j \in 1 .. Len(P)
      BY <1>6, <1>7, <2>2
    <3> QED BY <1>7, <1>10, <1>11, <3>1 DEF PlanDense
  <2> QED BY <2>1, <2>2
<1>16. head' = HeadBefore(Q, entry.head, k + 1)
  <2>1. k + 1 # 1 /\ (k + 1) - 1 = k
    BY <1>6
  <2> QED BY <1>3, <1>7, <2>1 DEF HeadBefore
<1>17. StableHead' = entry.head
  BY <1>1 DEF StableHead, Trying
<1> QED BY <1>1, <1>6, <1>10, <1>15, <1>16, <1>17 DEF DenseInv, Q

(* The ubatches that are left go on where this one ends. *)
LEMMA ProcessUbatchDense ==
  ASSUME TInv, DenseInv, ProcessUbatch
  PROVE  DenseInv' /\ (Dense => Dense')
<1> DEFINE idxs == slots[1]
           I    == Targets(idxs)
<1>1. /\ pc = "process" /\ IInv /\ cells' = ApplyUbatch(cells, ubs[1], slots[1])
      /\ head' = HeadAfter(idxs) /\ PlanDense(slots, cells, head)
  BY DEF ProcessUbatch, TInv, DenseInv
<1>2. /\ slots \in Seq(Seq(Cell)) /\ idxs \in Seq(Cell) /\ Len(idxs) > 0
      /\ Len(slots) \in Nat /\ Len(slots) >= 1 /\ Len(slots) = Len(ubs)
  BY <1>1, ProcessType DEF IInv, SlotsInv
<1>3. head' \in Nat
  BY <1>1, <1>2, HeadAfterType
<1>4. Live(cells') = Live(cells) \cup I
  <2>1. /\ \A i \in Cell \ I : cells'.cell[i] = cells.cell[i]
        /\ \A i \in I : i \in Cell /\ ubs[1][SlotOf(idxs, i)] \in Token
                        /\ cells'.cell[i].pos = ubs[1][SlotOf(idxs, i)].pos
    BY <1>1, AppliedAt
  <2>2. \A i \in I : cells'.cell[i].pos # None
    BY <2>1, CellsAssumption DEF Token, Pos, None
  <2> QED BY <2>1, <2>2 DEF Live, IsEmpty
<1>5. Dense => Dense'
  <2>1. 1 \in 1 .. Len(slots) /\ UsedBefore(slots, cells, 1) = Live(cells)
        /\ HeadBefore(slots, head, 1) = head
    BY <1>2 DEF UsedBefore, HeadBefore
  <2> QED BY <1>1, <1>4, <2>1 DEF PlanDense, Dense
<1>6. CASE Len(ubs) = 1
  BY <1>3, <1>5, <1>6, NoPlan DEF ProcessUbatch, EndDecode
<1>7. CASE Len(ubs) # 1
  <2>1. pc' = "process" /\ slots' = Tail(slots) /\ StableHead' = head'
    BY <1>1, <1>7 DEF ProcessUbatch, StableHead, Trying
  <2>2. /\ Len(slots') = Len(slots) - 1
        /\ \A k \in 1 .. Len(slots') : slots'[k] = slots[k + 1]
    BY <1>2, <2>1
  <2> DEFINE m == Len(slots')
  <2>3. m \in Nat /\ Len(slots) = m + 1
    BY <1>2, <2>2
  <2>4. ASSUME NEW k \in 1 .. m
        PROVE  /\ k + 1 \in 1 .. Len(slots) /\ slots'[k] = slots[k + 1]
               /\ UsedBefore(slots', cells', k) = UsedBefore(slots, cells, k + 1)
               /\ HeadBefore(slots', head', k) = HeadBefore(slots, head, k + 1)
    <3>1. k \in Nat /\ k >= 1 /\ k + 1 \in 1 .. Len(slots) /\ (k + 1) - 1 = k /\ k + 1 # 1
      BY <2>3
    <3>2. \A j \in 1 .. k - 1 : slots'[j] = slots[j + 1] /\ j + 1 \in 1 .. k
      BY <2>2, <2>3, <3>1
    <3>3. \A j \in 1 .. k : j = 1 \/ (j - 1 \in 1 .. k - 1 /\ j = (j - 1) + 1)
      BY <3>1
    <3>4. UNION {Targets(slots[j]) : j \in 1 .. k}
            = I \cup UNION {Targets(slots'[j]) : j \in 1 .. k - 1}
      <4>1. \A j \in 1 .. k : \/ Targets(slots[j]) = I
                              \/ \E q \in 1 .. k - 1 : Targets(slots[j]) = Targets(slots'[q])
        BY <3>2, <3>3
      <4>2. 1 \in 1 .. k
        BY <3>1
      <4>3. \A q \in 1 .. k - 1 : \E j \in 1 .. k : Targets(slots'[q]) = Targets(slots[j])
        BY <3>2
      <4> QED BY <4>1, <4>2, <4>3
    <3>5. UsedBefore(slots', cells', k) = UsedBefore(slots, cells, k + 1)
      BY <1>4, <3>1, <3>4 DEF UsedBefore
    <3>6. HeadBefore(slots', head', k) = HeadBefore(slots, head, k + 1)
      <4>1. k = 1 \/ k - 1 \in 1 .. k - 1
        BY <3>1
      <4>2. HeadBefore(slots, head, k + 1) = HeadAfter(slots[k])
        BY <3>1 DEF HeadBefore
      <4>3. k # 1 => slots'[k - 1] = slots[k]
        BY <3>1, <3>2, <4>1
      <4> QED BY <1>1, <4>2, <4>3 DEF HeadBefore
    <3> QED BY <2>2, <3>1, <3>5, <3>6
  <2> HIDE DEF m
  <2>5. PlanDense(slots', cells', head')
    BY <1>1, <2>4 DEF PlanDense, m
  <2> QED BY <1>3, <1>5, <2>1, <2>5 DEF DenseInv
<1> QED BY <1>6, <1>7

(* A head lowered to a cell stays a number. *)
LEMMA LoweredNat ==
  ASSUME NEW h \in Nat, NEW freed \in SUBSET Cell
  PROVE  /\ Lowered(h, freed) \in Nat
         /\ freed # {} => LeastOf(freed) \in Nat
<1>1. freed \in SUBSET Nat
  BY CellsAssumption DEF Cell
<1>2. ASSUME freed # {} PROVE LeastOf(freed) \in Nat
  <2>1. PICK x \in freed : \A y \in freed : x <= y
    BY <1>1, <1>2, LeastNatural
  <2>2. LeastOf(freed) \in freed
    BY <2>1 DEF LeastOf
  <2> QED BY <1>1, <2>2
<1>3. CASE freed # {} /\ LeastOf(freed) < h
  BY <1>2, <1>3 DEF Lowered
<1>4. CASE ~(freed # {} /\ LeastOf(freed) < h)
  BY <1>2, <1>4 DEF Lowered
<1> QED BY <1>2, <1>3, <1>4

(* The calls made while nothing is decoded keep the head a number. *)
LEMMA CallsDense ==
  ASSUME TInv, DenseInv, Next, pc = "idle", UNCHANGED pc
  PROVE  DenseInv'
<1>1. head \in Nat
  BY DEF DenseInv, StableHead, Trying
<1>2. ASSUME NEW drop, Leave(drop) PROVE head' \in Nat
  <2>1. Emptied(cells, drop) \in SUBSET Cell
    BY DEF Emptied, Live
  <2> QED BY <1>1, <1>2, <2>1, LoweredNat DEF Leave
<1>3. ASSUME Clear PROVE head' \in Nat
  BY <1>3 DEF Clear
<1>4. ASSUME NEW s \in Seqs, NEW r \in Ranges, NEW d \in Deltas, SeqShift(s, r, d)
      PROVE  head' \in Nat
  <2> DEFINE gone == {i \in Having(s, r) : cells.cell[i].pos + d < 0}
  <2>1. gone \in SUBSET Cell
    BY DEF Having
  <2>2. head' = IF gone # {} THEN LeastOf(gone) ELSE 0
    BY <1>4 DEF SeqShift
  <2> HIDE DEF gone
  <2> QED BY <1>1, <2>1, <2>2, LoweredNat
<1>5. ASSUME NEW s \in Seqs, EndurkvCompactSeq(s) PROVE head' \in Nat
  <2>1. PICK src \in InOrder(Mine(s)) : head' = Len(src)
    BY <1>5 DEF EndurkvCompactSeq
  <2>2. Cardinality(Mine(s)) \in Nat
    <3>1. Mine(s) \in SUBSET Cell
      BY DEF Mine, Live
    <3> QED BY <3>1, CellFinite, FS_Subset, FS_CardinalityType
  <2> DEFINE n == Cardinality(Mine(s))
  <2>3. n \in Nat /\ src \in [1 .. n -> Mine(s)]
    BY <2>2 DEF InOrder
  <2> HIDE DEF n
  <2> QED BY <2>1, <2>3
<1>6. head' \in Nat
  BY <1>1, <1>2, <1>3, <1>4, <1>5
     DEF Next, DecodeBegin, DecodeStep, PlaceUbatch, PlacedAll, OutOfCells, RestoreOne,
         Prepared, RetryPrepare, GiveUp, ProcessUbatch, FailUbatch,
         SeqRemoveAny, SeqRemove, SeqCopy, SeqDivide, SeqKeep, EndurkvRmCells
<1> QED BY <1>6, NoPlan

(* Every step keeps the plan going on where a dense prefix ends. *)
LEMMA NextDense ==
  ASSUME CpRepeats = FALSE, SwaType = "none", TInv, DenseInv, [Next]_vars
  PROVE  DenseInv'
<1>1. ASSUME NEW b \in Batches, DecodeBegin(b) PROVE DenseInv'
  <2>1. stack = <<>> /\ head \in Nat
    BY <1>1 DEF TInv, IInv, StackInv, DecodeBegin, DenseInv, StableHead, Trying
  <2> QED BY <1>1, <2>1, TrialBeginsDense DEF DecodeBegin
<1>2. ASSUME RetryPrepare PROVE DenseInv'
  <2>1. head \in Nat
    BY <1>2, BackAgain DEF RetryPrepare, DenseInv, StableHead, Trying
  <2> QED BY <1>2, <2>1, TrialBeginsDense DEF RetryPrepare
<1>3. ASSUME PlacedAll PROVE DenseInv'
  <2>1. slots' = StackPlan /\ pc = "prepare" /\ pc' = "restore" /\ UNCHANGED <<head, entry>>
    BY <1>3 DEF PlacedAll, StackPlan
  <2> QED BY <2>1 DEF DenseInv, StableHead, Trying
<1>4. ASSUME OutOfCells PROVE DenseInv'
  <2>1. slots' = <<>> /\ pc = "prepare" /\ pc' = "restore" /\ UNCHANGED <<head, entry>>
    BY <1>4 DEF OutOfCells
  <2>2. PlanDense(slots', entry.cells, entry.head)
    BY <2>1 DEF PlanDense
  <2> QED BY <2>1, <2>2 DEF DenseInv, StableHead, Trying
<1>5. ASSUME RestoreOne PROVE DenseInv'
  BY <1>5 DEF RestoreOne, DenseInv, StableHead, Trying
<1>6. ASSUME Prepared PROVE DenseInv'
  <2>1. cells = entry.cells /\ head = entry.head
    BY <1>6, BackAgain DEF Prepared, Trying
  <2> QED BY <1>6, <2>1 DEF Prepared, DenseInv, StableHead, Trying, decoding
<1>7. ASSUME GiveUp PROVE DenseInv'
  <2>1. head \in Nat
    BY <1>7, BackAgain DEF GiveUp, DenseInv, StableHead, Trying
  <2> QED BY <1>7, <2>1, NoPlan DEF GiveUp, EndDecode
<1>8. ASSUME FailUbatch PROVE DenseInv'
  <2>1. slots[1] \in Seq(Cell) /\ Len(slots[1]) > 0
    BY <1>8, ProcessType DEF TInv, IInv, SlotsInv, FailUbatch
  <2>2. HeadAfter(slots[1]) \in Nat
    BY <2>1, HeadAfterType
  <2>3. PICK c, undo : head' = Lowered(HeadAfter(slots[1]), Emptied(c, undo))
    BY <1>8 DEF FailUbatch
  <2>4. Emptied(c, undo) \in SUBSET Cell
    BY DEF Emptied, Live
  <2>5. head' \in Nat
    BY <2>2, <2>3, <2>4, LoweredNat
  <2> QED BY <1>8, <2>5, NoPlan DEF FailUbatch, EndDecode
<1>9. ASSUME Next, pc = "idle", UNCHANGED pc PROVE DenseInv'
  BY <1>9, CallsDense
<1>10. ASSUME UNCHANGED vars PROVE DenseInv'
  <2>1. UNCHANGED <<cells, head, pc, stack, slots, entry>>
    BY <1>10 DEF vars, decoding
  <2>2. StackPlan' = StackPlan /\ StableHead' = StableHead
    BY <2>1 DEF StackPlan, StableHead, Trying
  <2> QED BY <2>1, <2>2 DEF DenseInv
<1>11. DecodeStep => DenseInv'
  BY <1>2, <1>3, <1>4, <1>5, <1>6, <1>7, <1>8, PlaceUbatchDense, ProcessUbatchDense
     DEF DecodeStep
<1>12. \/ \E b \in Batches : DecodeBegin(b)
       \/ DecodeStep \/ (Next /\ pc = "idle" /\ UNCHANGED pc) \/ UNCHANGED vars
  BY DEF Next, Clear, SeqRemoveAny, SeqRemove, SeqCopy, SeqShift, SeqDivide, SeqKeep,
         EndurkvRmCells, EndurkvCompactSeq, Call
<1> QED BY <1>1, <1>9, <1>10, <1>11, <1>12

(***************************************************************************)
(* A cache whose live cells are the prefix before its head is still one    *)
(* after a ubatch: find_slot only ever goes on at the head, so nothing     *)
(* but a removal makes a hole, in a cache without a window.                *)
(***************************************************************************)
THEOREM PrefixStaysDense ==
  ASSUME CpRepeats = FALSE, SwaType = "none"
  PROVE  Spec => DenseStaysDense
<1>1. Init => DenseInv
  BY DEF Init, DenseInv, StableHead, Trying
<1>2. TInv /\ DenseInv => [ProcessUbatch /\ Dense => Dense']_vars
  BY ProcessUbatchDense
<1>3. TInv /\ [Next]_vars => TInv'
  BY NextTrial
<1>4. TInv /\ DenseInv /\ [Next]_vars => DenseInv'
  BY NextDense
<1> QED BY InitTrial, <1>1, <1>2, <1>3, <1>4, PTL DEF Spec, DenseStaysDense
=============================================================================
