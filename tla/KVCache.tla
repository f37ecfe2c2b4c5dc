------------------------------ MODULE KVCache ------------------------------
(***************************************************************************)
(* llama_kv_cache with one stream, driven by llama_context::decode and by  *)
(* the llama_memory_* calls a client makes between two decodes.            *)
(*                                                                         *)
(* A decode first applies pending position shifts to the keys, then tries  *)
(* every ubatch of the batch out on the real cells (prepare), puts the     *)
(* cells back, and then applies and computes the ubatches one by one at    *)
(* the cells found.  It may fail to apply the shift, to find cells, or to  *)
(* compute any of the ubatches.                                            *)
(***************************************************************************)
EXTENDS KQMask

CONSTANTS
    Batches,        \* batches: sequences of tokens; a token is the sequence
                    \* of ids it belongs to, in the order the caller lists them
    NUbatch,        \* n_ubatch
    Calls,          \* the memory operations the client uses
    Ranges,         \* the <<p0, p1>> it passes to them
    Deltas,         \* what it passes to seq_add
    Divisors,       \* what it passes to seq_div
    CpRepeats,      \* it may copy a range to a sequence that has part of it
    CompactPending, \* it may compact while a shift is pending
    ShiftFails,     \* the K-shift graph may fail to be allocated or computed
    ComputeFails    \* the graph of a ubatch may fail or be aborted

ASSUME CacheAssumption ==
    /\ NUbatch \in Nat \ {0}
    /\ \A b \in Batches : b \in Seq(Seq(Seqs) \ {<<>>}) /\ b # <<>>
    /\ \A r \in Ranges : r[1] \in Int /\ r[2] \in Int
    /\ Deltas \subseteq Int /\ Divisors \subseteq Nat \ {0}
    /\ {CpRepeats, CompactPending, ShiftFails, ComputeFails} \subseteq BOOLEAN

VARIABLES
    cells,      \* v_cells[0]
    head,       \* v_heads[0]
    kdata,      \* kdata[i]: the token whose key cell i stores, and the
                \* position the key is rotated for
    pc,         \* where decode is; "idle" between two calls
    retried,    \* did_optimize
    ubs,        \* the ubatches of the batch, sequences of [pos, ids]
    stack,      \* prepare's recovery stack: [idxs, old, head] per ubatch
    slots,      \* the cells found for the ubatches still to be processed
    entry       \* the cells and the head when prepare began

decoding == <<retried, ubs, stack, slots, entry>>
vars     == <<cells, head, kdata, pc, decoding>>

-----------------------------------------------------------------------------
(* Tokens are told apart by a number, for which any number no cell uses    *)
(* will do; NoTok marks data nobody may read.                              *)
NoTok  == -1
NoData == [tok |-> NoTok, rot |-> 0]
Tok    == 0 .. 2 * NCells - 1

Fresh == Tok \ {kdata[i].tok : i \in Cell}

NewToks(I) == CHOOSE f \in [I -> Fresh] :
                 /\ \A i \in I : i \in Fresh => f[i] = i
                 /\ \A i, m \in I : i # m => f[i] # f[m]

(* What an empty cell stores is never read again. *)
Scrub(c, kd) == [i \in Cell |-> IF IsEmpty(c, i) THEN NoData ELSE kd[i]]

IdsOf(ids) == {ids[m] : m \in DOMAIN ids}

LeastOf(S) == CHOOSE x \in S : \A y \in S : x <= y

(* The head moves down to the first cell freed, never up. *)
Lowered(h, freed) ==
    IF freed # {} /\ LeastOf(freed) < h THEN LeastOf(freed) ELSE h

-----------------------------------------------------------------------------
(* A slip: the query is taken to be one further on than it is. *)
CanUseEarly(c, i) ==
    \/ IsEmpty(c, i)
    \/ \E s \in Seqs : /\ c.cell[i].seq = {s}
                       /\ IsMaskedSwa(c.cell[i].pos, SeqPosMax(c, s) + 2)

(* A cell can be used when it is empty, or when its only sequence no longer *)
(* sees it.                                                                *)
CanUse(c, i) ==
    \/ IsEmpty(c, i)
    \/ \E s \in Seqs : /\ c.cell[i].seq = {s}
                       /\ IsMaskedSwa(c.cell[i].pos, SeqPosMax(c, s) + 1)

(***************************************************************************)
(* find_slot with cont = false: the first n cells that can be used, in the *)
(* order of a scan that starts at the head, or at 0 when the head is far   *)
(* past what is in use, and wraps around once.                             *)
(***************************************************************************)
ScanFrom(c, h, n) == IF h > Cardinality(c.used) + 2 * n THEN 0 ELSE h

IsSlot(c, h, n, idxs) ==
    LET nth(i) == (i - ScanFrom(c, h, n)) % NCells
    IN  /\ \A k \in 1 .. n : CanUse(c, idxs[k])
        /\ \A k, m \in 1 .. n : k < m => nth(idxs[k]) < nth(idxs[m])
        /\ \A i \in Cell : CanUse(c, i) /\ nth(i) < nth(idxs[n])
                             => \E k \in 1 .. n : idxs[k] = i

NoSlot(c, n) == Cardinality({i \in Cell : CanUse(c, i)}) < n

(***************************************************************************)
(* apply_ubatch: cells in use are vacated first, and each sequence that    *)
(* lost a cell this way also loses what it has at earlier positions.       *)
(***************************************************************************)
Emplaced(c, ub, idxs) ==
    LET I    == Targets(idxs)
        over == {i \in I : ~IsEmpty(c, i)}
        all  == [i \in Cell |-> IF i \in over THEN Seqs ELSE {}]
        at   == [i \in I |-> [pos |-> ub[SlotOf(idxs, i)].pos,
                              seq |-> IdsOf(ub[SlotOf(idxs, i)].ids)]]
    IN  Emplace(SeqRm(c, all), I, at)

Purged(c, ub, idxs) ==
    LET now == Emplaced(c, ub, idxs)
    IN  SeqRm(now, [i \in Cell |->
            {s \in Seqs : \E m \in Targets(idxs) :
                /\ c.cell[m].seq = {s}
                /\ now.cell[i].pos <= c.cell[m].pos}])

(* A slip: earlier positions are not purged. *)
ApplyUnpurged(c, ub, idxs) == Emplaced(c, ub, idxs)

ApplyUbatch(c, ub, idxs) == Purged(c, ub, idxs)

(* A slip: the head stays on the last cell taken. *)
HeadOnLast(idxs) == idxs[Len(idxs)]

HeadAfter(idxs) == idxs[Len(idxs)] + 1

-----------------------------------------------------------------------------
(***************************************************************************)
(* llama_batch_allocr::init without positions: a token follows the last    *)
(* token before it that has its first sequence, or else what the cache has *)
(* of that sequence.                                                       *)
(***************************************************************************)
Earlier(b, k, s) == {j \in 1 .. k - 1 : s \in IdsOf(b[j])}

BatchPos(b, pos) ==
    \A k \in DOMAIN b :
        LET before == Earlier(b, k, b[k][1])
        IN  IF before = {} THEN pos[k] = SeqPosMax(cells, b[k][1]) + 1
            ELSE \E j \in before : (\A m \in before : m <= j) /\ pos[k] = pos[j] + 1

(* Its checks: positions go on where the cache ends, without gaps, and     *)
(* sequences that share a token have the same extent.  What it checks next *)
(* always holds: a sequence is in every set of a token it is listed for,   *)
(* and cur_seq_pos is never assigned.                                      *)
BatchOK(b, pos) ==
    LET has(s) == {pos[k] : k \in {m \in DOMAIN b : s \in IdsOf(b[m])}}
    IN  /\ \A s \in Seqs : has(s) # {} =>
             /\ PosPresent(cells, s) # {} => LeastOf(has(s)) = SeqPosMax(cells, s) + 1
             /\ \A p, q \in has(s) : \A r \in p .. q : r \in has(s)
        /\ \A k \in DOMAIN b : \A s \in IdsOf(b[k]) :
             /\ SeqPosMin(cells, s) = SeqPosMin(cells, b[k][1])
             /\ SeqPosMax(cells, s) = SeqPosMax(cells, b[k][1])

(* split_simple: ubatches of up to NUbatch consecutive tokens. *)
Split(b, pos) ==
    LET toks  == [k \in DOMAIN b |-> [pos |-> pos[k], ids |-> b[k]]]
        count == (Len(b) + NUbatch - 1) \div NUbatch
        upto(k) == IF k * NUbatch < Len(b) THEN k * NUbatch ELSE Len(b)
    IN  [k \in 1 .. count |-> SubSeq(toks, (k - 1) * NUbatch + 1, upto(k))]

(***************************************************************************)
(* memory_update: a pending shift rotates every key by its cell's shift.   *)
(* When the graph cannot be allocated, or fails when the keys of some      *)
(* layers have been rotated, the shifts stay pending and decode goes on.   *)
(***************************************************************************)
KShift(c, kd) ==
    [i \in Cell |-> IF IsEmpty(c, i) \/ kd[i].tok = NoTok THEN kd[i]
                    ELSE [kd[i] EXCEPT !.rot = @ + c.cell[i].shift]]

KTorn(c, kd) == [i \in Cell |-> IF c.cell[i].shift # 0 THEN NoData ELSE kd[i]]

Update ==
    \/ /\ cells.hasShift
       /\ kdata' = KShift(cells, kdata)
       /\ cells' = ResetShift(cells)
    \/ /\ cells.hasShift /\ ShiftFails
       /\ kdata' \in {kdata, KTorn(cells, kdata)}
       /\ UNCHANGED cells
    \/ /\ ~cells.hasShift
       /\ UNCHANGED <<cells, kdata>>

-----------------------------------------------------------------------------
Init ==
    /\ cells = Reset /\ head = 0
    /\ kdata = [i \in Cell |-> NoData]
    /\ pc = "idle" /\ retried = FALSE
    /\ ubs = <<>> /\ stack = <<>> /\ slots = <<>>
    /\ entry = [cells |-> Reset, head |-> 0]

(* Positions stay within the model's bound. *)
DecodeBegin(b) ==
    /\ pc = "idle"
    /\ \E pos \in [DOMAIN b -> Pos] :
         BatchPos(b, pos) /\ BatchOK(b, pos) /\ ubs' = Split(b, pos)
    /\ Update
    /\ pc' = "prepare"
    /\ entry' = [cells |-> cells', head |-> head]
    /\ UNCHANGED <<head, retried, stack, slots>>

(* A slip: the ubatches are not tried out on top of each other. *)
PlaceUbatchApart ==
    LET k == Len(stack) + 1
        n == Len(ubs[k])
    IN  /\ pc = "prepare" /\ k <= Len(ubs)
        /\ ~NoSlot(cells, n)
        /\ \E idxs \in [1 .. n -> Cell] :
             /\ IsSlot(cells, head, n, idxs)
             /\ stack' = Append(stack, [idxs |-> idxs, old |-> Cp(cells, idxs),
                                        head |-> head])
        /\ UNCHANGED <<cells, head, kdata, pc, retried, ubs, slots, entry>>

(* One ubatch placed on the cells, with what it takes to undo that. *)
PlaceUbatch ==
    LET k == Len(stack) + 1
        n == Len(ubs[k])
    IN  /\ pc = "prepare" /\ k <= Len(ubs)
        /\ ~NoSlot(cells, n)
        /\ \E idxs \in [1 .. n -> Cell] :
             /\ IsSlot(cells, head, n, idxs)
             /\ stack' = Append(stack, [idxs |-> idxs, old |-> Cp(cells, idxs),
                                        head |-> head])
             /\ cells' = ApplyUbatch(cells, ubs[k], idxs)
             /\ head'  = HeadAfter(idxs)
        /\ UNCHANGED <<kdata, pc, retried, ubs, slots, entry>>

(* All ubatches have cells: remember which, and put the cells back. *)
PlacedAll ==
    /\ pc = "prepare" /\ Len(stack) = Len(ubs)
    /\ slots' = [k \in DOMAIN stack |-> stack[k].idxs]
    /\ pc' = "restore"
    /\ UNCHANGED <<cells, head, kdata, retried, ubs, stack, entry>>

(* One of them does not fit: put the cells back all the same. *)
OutOfCells ==
    /\ pc = "prepare" /\ Len(stack) < Len(ubs)
    /\ NoSlot(cells, Len(ubs[Len(stack) + 1]))
    /\ pc' = "restore" /\ slots' = <<>>
    /\ UNCHANGED <<cells, head, kdata, retried, ubs, stack, entry>>

(* A slip: the head is not put back. *)
RestoreCellsOnly ==
    /\ pc = "restore" /\ stack # <<>>
    /\ LET top == stack[Len(stack)]
       IN  cells' = SetCells(cells, top.idxs, top.old)
    /\ stack' = SubSeq(stack, 1, Len(stack) - 1)
    /\ UNCHANGED <<head, kdata, pc, retried, ubs, slots, entry>>

RestoreOne ==
    /\ pc = "restore" /\ stack # <<>>
    /\ LET top == stack[Len(stack)]
       IN  /\ cells' = SetCells(cells, top.idxs, top.old)
           /\ head'  = top.head
    /\ stack' = SubSeq(stack, 1, Len(stack) - 1)
    /\ UNCHANGED <<kdata, pc, retried, ubs, slots, entry>>

EndDecode ==
    /\ pc' = "idle" /\ retried' = FALSE
    /\ ubs' = <<>> /\ stack' = <<>> /\ slots' = <<>>
    /\ entry' = [cells |-> Reset, head |-> 0]

Prepared ==
    /\ pc = "restore" /\ stack = <<>> /\ slots # <<>>
    /\ pc' = "process"
    /\ UNCHANGED <<cells, head, kdata, decoding>>

(* A slip: decode tries again as long as a shift is pending. *)
RetryForEver ==
    /\ pc = "restore" /\ stack = <<>> /\ slots = <<>>
    /\ cells.hasShift
    /\ Update
    /\ pc' = "prepare" /\ retried' = TRUE
    /\ entry' = [cells |-> cells', head |-> head]
    /\ UNCHANGED <<head, ubs, stack, slots>>

(* Without cells decode tries once more, if a shift is still pending.      *)
RetryPrepare ==
    /\ pc = "restore" /\ stack = <<>> /\ slots = <<>>
    /\ ~retried /\ cells.hasShift
    /\ Update
    /\ pc' = "prepare" /\ retried' = TRUE
    /\ entry' = [cells |-> cells', head |-> head]
    /\ UNCHANGED <<head, ubs, stack, slots>>

(* ... and otherwise returns 1. *)
GiveUp ==
    /\ pc = "restore" /\ stack = <<>> /\ slots = <<>>
    /\ retried \/ ~cells.hasShift
    /\ kdata' = Scrub(cells, kdata)
    /\ EndDecode
    /\ UNCHANGED <<cells, head>>

(* process_ubatch: the metadata is applied, then the graph stores the keys. *)
ProcessUbatch ==
    /\ pc = "process"
    /\ LET ub == ubs[1]  idxs == slots[1]
           c  == ApplyUbatch(cells, ub, idxs)
       IN  /\ cells' = c
           /\ head'  = HeadAfter(idxs)
           /\ kdata' = Scrub(c, [i \in Cell |->
                IF i \notin Targets(idxs) THEN kdata[i]
                ELSE [tok |-> NewToks(Targets(idxs))[i],
                      rot |-> ub[SlotOf(idxs, i)].pos]])
    /\ IF Len(ubs) = 1 THEN EndDecode
       ELSE /\ ubs' = Tail(ubs) /\ slots' = Tail(slots)
            /\ UNCHANGED <<pc, retried, stack, entry>>

(* A slip: everything these sequences have is removed. *)
FailUbatchTooMuch ==
    /\ pc = "process" /\ ComputeFails
    /\ LET ub == ubs[1]  idxs == slots[1]
           c  == ApplyUbatch(cells, ub, idxs)
           undo == [i \in Cell |-> {s \in Seqs : \E k \in DOMAIN ub : ub[k].ids[1] = s}]
       IN  /\ cells' = SeqRm(c, undo)
           /\ head'  = Lowered(HeadAfter(idxs), Emptied(c, undo))
           /\ kdata' = Scrub(cells', [i \in Cell |->
                IF i \in Targets(idxs) THEN NoData ELSE kdata[i]])
    /\ EndDecode

(***************************************************************************)
(* The graph failed or was aborted: what the cells of the ubatch store is  *)
(* undefined, and for the first sequence of each token everything from the *)
(* first position of the ubatch on is removed.                             *)
(***************************************************************************)
FailUbatch ==
    /\ pc = "process" /\ ComputeFails
    /\ LET ub == ubs[1]  idxs == slots[1]
           c  == ApplyUbatch(cells, ub, idxs)
           undo == [i \in Cell |-> {s \in Seqs :
                      \E k \in DOMAIN ub : /\ ub[k].ids[1] = s
                                           /\ c.cell[i].pos >= ub[k].pos}]
       IN  /\ cells' = SeqRm(c, undo)
           /\ head'  = Lowered(HeadAfter(idxs), Emptied(c, undo))
           /\ kdata' = Scrub(cells', [i \in Cell |->
                IF i \in Targets(idxs) THEN NoData ELSE kdata[i]])
    /\ EndDecode

-----------------------------------------------------------------------------
(* The memory operations.  A negative p0 is 0, a negative p1 no limit.     *)
Lo(r) == IF r[1] < 0 THEN 0 ELSE r[1]
Hi(r) == IF r[2] < 0 THEN MaxPos + 1 ELSE r[2]

InRange(i, r) == PosIn(cells, i, Lo(r), Hi(r))

Having(s, r) == {i \in Cell : InRange(i, r) /\ s \in cells.cell[i].seq}

Call(name) ==
    /\ pc = "idle" /\ name \in Calls
    /\ UNCHANGED <<pc, decoding>>

(* Sequences leave cells, and the head goes to the first cell freed. *)
Leave(drop) ==
    /\ cells' = SeqRm(cells, drop)
    /\ head'  = Lowered(head, Emptied(cells, drop))
    /\ kdata' = Scrub(cells', kdata)

Clear ==
    /\ Call("clear")
    /\ cells' = Reset /\ head' = 0 /\ kdata' = [i \in Cell |-> NoData]

(* A slip: the cells are removed instead of the sequence in them. *)
SeqRemoveCells(s, r) ==
    /\ Call("seq_rm")
    /\ Leave([i \in Cell |-> IF i \in Having(s, r) THEN Seqs ELSE {}])

SeqRemove(s, r) ==
    /\ Call("seq_rm")
    /\ Leave([i \in Cell |-> IF i \in Having(s, r) THEN {s} ELSE {}])

SeqRemoveAny(r) ==
    /\ Call("seq_rm")
    /\ Leave([i \in Cell |-> IF InRange(i, r) THEN Seqs ELSE {}])

SeqKeep(s) ==
    /\ Call("seq_keep")
    /\ Leave([i \in Cell |-> Seqs \ {s}])

(* endurkv_rm_cells: the cells of s outside keep, among the first n. *)
EndurkvRmCells(s, keep, n) ==
    /\ Call("rm_cells")
    /\ Leave([i \in Cell |-> IF i < n /\ i \notin keep THEN {s} ELSE {}])

SeqCopy(s, t, r) ==
    /\ Call("seq_cp") /\ s # t
    /\ CpRepeats \/ \A i \in Having(s, r) : t \notin cells.cell[i].seq
    /\ cells' = SeqAdd(cells, Having(s, r), t)
    /\ UNCHANGED <<head, kdata>>

(* Without a cell freed the next search starts at 0. *)
SeqShift(s, r, d) ==
    LET I    == Having(s, r)
        gone == {i \in I : cells.cell[i].pos + d < 0}
    IN  /\ Call("seq_add")
        /\ d # 0 /\ Lo(r) # Hi(r)
        /\ \A i \in I : cells.cell[i].pos + d <= MaxPos
        /\ cells' = PosAdd(cells, I, d)
        /\ head'  = IF gone # {} THEN LeastOf(gone) ELSE 0
        /\ kdata' = Scrub(cells', kdata)

SeqDivide(s, r, d) ==
    /\ Call("seq_div")
    /\ d # 1 /\ Lo(r) # Hi(r)
    /\ cells' = PosDiv(cells, Having(s, r), d)
    /\ UNCHANGED <<head, kdata>>

(***************************************************************************)
(* endurkv_compact_seq as one step (KVCompact has its loops).  It declines *)
(* when a live cell is not in s; a dense cache only has its head set.      *)
(***************************************************************************)
Mine(s)     == {i \in Live(cells) : s \in cells.cell[i].seq}
InOrder(I)   == {q \in [1 .. Cardinality(I) -> I] :
                    \A k, m \in DOMAIN q : k < m => q[k] < q[m]}
Ascending(I) == CHOOSE q \in InOrder(I) : TRUE

(* A slip: it does not decline. *)
CompactAnyway(s) ==
    /\ Call("compact") /\ ~cells.hasShift
    /\ \E src \in InOrder(Mine(s)) :
         /\ head'  = Len(src)
         /\ cells' = Gather(cells, src)
         /\ kdata' = Scrub(cells', [i \in Cell |->
                       IF i < Len(src) THEN kdata[src[i + 1]] ELSE kdata[i]])

EndurkvCompactSeq(s) ==
    /\ Call("compact")
    /\ Cardinality(Mine(s)) = Cardinality(cells.used)
    /\ CompactPending \/ ~cells.hasShift
    /\ \E src \in InOrder(Mine(s)) :
         /\ head' = Len(src)
         /\ IF \A k \in DOMAIN src : src[k] = k - 1
            THEN UNCHANGED <<cells, kdata>>
            ELSE /\ cells' = Gather(cells, src)
                 /\ kdata' = Scrub(cells', [i \in Cell |->
                               IF i < Len(src) THEN kdata[src[i + 1]] ELSE kdata[i]])

DecodeStep ==
    \/ PlaceUbatch \/ PlacedAll \/ OutOfCells \/ RestoreOne
    \/ Prepared \/ RetryPrepare \/ GiveUp
    \/ ProcessUbatch \/ FailUbatch

Next ==
    \/ \E b \in Batches : DecodeBegin(b)
    \/ DecodeStep
    \/ Clear
    \/ \E r \in Ranges :
         \/ SeqRemoveAny(r)
         \/ \E s \in Seqs :
              \/ SeqRemove(s, r)
              \/ \E t \in Seqs : SeqCopy(s, t, r)
              \/ \E d \in Deltas : SeqShift(s, r, d)
              \/ \E d \in Divisors : SeqDivide(s, r, d)
    \/ \E s \in Seqs :
         \/ SeqKeep(s)
         \/ \E keep \in SUBSET Cell : EndurkvRmCells(s, keep, NCells)
         \/ EndurkvCompactSeq(s)

Spec == Init /\ [][Next]_vars

(* decode runs on the caller's thread until it returns. *)
FairSpec == Spec /\ WF_vars(DecodeStep)

-----------------------------------------------------------------------------
(* The cells a caller can rely on: not those prepare is trying out.        *)
Trying == pc \in {"prepare", "restore"}
Stable == IF Trying THEN entry.cells ELSE cells

Entries == {[tok |-> kdata[i].tok, pos  |-> Stable.cell[i].pos,
                                   seqs |-> Stable.cell[i].seq] : i \in Live(Stable)}

Logical == INSTANCE LogicalKV WITH
    entries  <- Entries,
    Masked   <- IsMaskedSwa,
    Bounds   <- {Lo(r) : r \in Ranges} \cup {Hi(r) : r \in Ranges},
    Evicting <- "rm_cells" \in Calls

SlotRecord == [idxs : Seq(Cell), old : Seq([pos : Pos \cup {None}, seq : SUBSET Seqs]),
               head : 0 .. NCells]

TypeOK ==
    /\ cells \in KVCellsType /\ head \in 0 .. NCells
    /\ kdata \in [Cell -> [tok : Tok \cup {NoTok}, rot : Int]]
    /\ pc \in {"idle", "prepare", "restore", "process"} /\ retried \in BOOLEAN
    /\ ubs \in Seq(Seq([pos : Pos, ids : Seq(Seqs)]))
    /\ stack \in Seq(SlotRecord) /\ slots \in Seq(Seq(Cell))
    /\ entry \in [cells : KVCellsType, head : 0 .. NCells]

(***************************************************************************)
(* used and seqPos, each maintained by increments in a dozen places, say   *)
(* what the cells hold.                                                    *)
(***************************************************************************)
IndexInv == IndexConsistent(cells)

(***************************************************************************)
(* Outside prepare, every live cell holds a key, its rotation and the      *)
(* cell's pending shift add up to the cell's position, and a pending shift *)
(* is known to be pending.                                                 *)
(***************************************************************************)
RopeRecoverable ==
    ~Trying => \A i \in Live(cells) :
        /\ kdata[i].tok # NoTok
        /\ kdata[i].rot + cells.cell[i].shift = cells.cell[i].pos
        /\ cells.cell[i].shift # 0 => cells.hasShift

(* When a ubatch is computed every key it can see is rotated for its position. *)
RotatedAtCompute ==
    pc = "process" => \A i \in Live(cells) : kdata[i].rot = cells.cell[i].pos

(* Positions move at once and keys at the next decode, none of them twice  *)
(* or never: what a shift still owes a key is known and paid before use.   *)
RopeInv == RopeRecoverable /\ RotatedAtCompute

(* "restore the cells to their original state": prepare leaves no trace.   *)
RestoreExact ==
    pc = "restore" /\ stack = <<>> => cells = entry.cells /\ head = entry.head

(***************************************************************************)
(* The same comment, of what can be told from outside: whatever the next   *)
(* token of a sequence will see is still there after prepare.              *)
(***************************************************************************)
RestoreKeepsWindow ==
    pc = "restore" /\ stack = <<>> =>
        \A s \in Seqs : \A p \in PosPresent(entry.cells, s) :
            \/ IsMaskedSwa(p, SeqPosMax(entry.cells, s) + 1)
            \/ p \in PosPresent(cells, s)

(* The cells found by prepare can still be used when their ubatch is applied. *)
PlanStillValid ==
    pc = "process" => \A i \in Targets(slots[1]) : CanUse(cells, i)

(***************************************************************************)
(* "all positions between [pos_min, pos_max] for each sequence will be     *)
(* present in the cache": with a sliding window, reusing the cells of old  *)
(* tokens leaves no hole in a sequence.                                    *)
(***************************************************************************)
PositionsContiguous ==
    pc = "idle" => \A s \in Seqs : PosPresent(cells, s) # {} =>
        SeqPosMin(cells, s) .. SeqPosMax(cells, s) \subseteq PosPresent(cells, s)

(***************************************************************************)
(* "remove all positions of that ubatch from the memory module": a ubatch  *)
(* that could not be computed leaves the cache as it found it.             *)
(***************************************************************************)
AbortLeavesNoTrace == [][FailUbatch => Entries' = Entries]_vars

(* decode always returns: it does not retry for ever. *)
DecodeReturns == pc # "idle" ~> pc = "idle"

(***************************************************************************)
(* A cache that is a dense prefix with the head behind it, as compaction   *)
(* leaves it, stays one while batches are decoded.                         *)
(***************************************************************************)
Dense == Live(cells) = 0 .. head - 1

DenseStaysDense == [][ProcessUbatch /\ Dense => Dense']_vars

(***************************************************************************)
(* "for tokens of the same sequence, the mask is mostly the same, so we    *)
(* can reuse it": with reused rows every token of a ubatch still attends   *)
(* to the cells it should and to no other, causal or not.                  *)
(***************************************************************************)
MaskExact ==
    pc = "process" =>
      LET c == ApplyUbatch(cells, ubs[1], slots[1])
      IN  \A k \in DOMAIN ubs[1], causal \in BOOLEAN :
            Visible(MaskRow(c, causal, ubs[1], k)) = Attended(c, causal, ubs[1], k)

(***************************************************************************)
(* As long as the client removes only ends of sequences, and over a window *)
(* none but whole ones, or all past their first token, a token attends to  *)
(* every position of its window, and to one cell for each: no cell in      *)
(* reach was reused too early, none is past the cells looked at.  A window *)
(* that an end removal makes reach back finds the cells behind it gone.    *)
(***************************************************************************)
SeesItsWindow ==
    pc = "process" =>
      LET c == ApplyUbatch(cells, ubs[1], slots[1])
      IN  \A k \in DOMAIN ubs[1] :
            LET seen == Visible(MaskRow(c, TRUE, ubs[1], k))
                p    == ubs[1][k].pos
            IN  /\ {c.cell[i].pos : i \in seen} = {q \in 0 .. p : ~IsMaskedSwa(q, p)}
                /\ \A i, m \in seen : c.cell[i].pos = c.cell[m].pos => i = m

ImplementsLogicalKV == Logical!Spec

(***************************************************************************)
(* Each operation of llama.h does what it says and nothing else, whatever  *)
(* state earlier operations and decodes have left the cells in.            *)
(***************************************************************************)
OperationStep ==
    /\ Clear => Logical!Clear
    /\ \A s \in Seqs : SeqKeep(s) => Logical!SeqKeep(s)
    /\ \A r \in Ranges :
         /\ SeqRemoveAny(r) => Logical!SeqRmAny(Lo(r), Hi(r))
         /\ \A s \in Seqs :
              /\ SeqRemove(s, r) => Logical!SeqRm(s, Lo(r), Hi(r))
              /\ \A t \in Seqs : SeqCopy(s, t, r) => Logical!SeqCp(s, t, Lo(r), Hi(r))
              /\ \A d \in Deltas : SeqShift(s, r, d) => Logical!SeqAdd(s, Lo(r), Hi(r), d)
              /\ \A d \in Divisors : SeqDivide(s, r, d) => Logical!SeqDiv(s, Lo(r), Hi(r), d)

OperationsAsPromised == [][pc = "idle" /\ pc' = "idle" => OperationStep]_vars

(* Compaction changes no entry: it keeps them all, of every sequence. *)
CompactKeepsEntries ==
    [][(\E s \in Seqs : EndurkvCompactSeq(s)) => Entries' = Entries]_vars
=============================================================================
