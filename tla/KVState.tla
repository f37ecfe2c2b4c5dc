------------------------------ MODULE KVState ------------------------------
(***************************************************************************)
(* llama_kv_cache::state_write and state_read: saving the cells of a       *)
(* sequence, or of all, and loading them into this or into another         *)
(* context; and the use the eviction harness makes of them, which swaps a  *)
(* sparse cache for a dense one by saving and loading.                     *)
(*                                                                         *)
(* A state holds the positions and the sequences of its cells, a key row   *)
(* per cell, and the values.  Values are stored cell by cell, or           *)
(* transposed when the context runs without flash attention; a state is    *)
(* written in the layout of the context that saves it, and a transposed    *)
(* one may be loaded by a context that is not.                             *)
(***************************************************************************)
EXTENDS KVCache

CONSTANTS
    NEmbd,          \* n_embd_v_gqa: values per cell
    Foreign,        \* states saved by other contexts of the same model
    SavePending,    \* the client may save while a shift is pending
    CutShort,       \* the state may end early: a buffer too small, a file cut off
    MaxReads        \* reads in a behaviour; bounds the model, not the code

ASSUME StateAssumption ==
    /\ NEmbd \in Nat \ {0} /\ MaxReads \in Nat /\ -1 \notin Seqs
    /\ {SavePending, CutShort} \subseteq BOOLEAN

VARIABLES
    v_trans,    \* the layout of the values of this context
    saved,      \* the state the client holds
    reads       \* how often it has been read

stateVars == <<vars, v_trans, saved, reads>>

All     == -1                   \* seq_id -1: every sequence
NoState == [v_trans |-> FALSE, meta |-> <<>>, k |-> <<>>, v |-> <<>>]

-----------------------------------------------------------------------------
(***************************************************************************)
(* The value tensor.  Value j of cell i belongs to the token of the cell,  *)
(* and is at offset i * NEmbd + j, or transposed at j * NCells + i.        *)
(***************************************************************************)
Offset == 0 .. NCells * NEmbd - 1

ValueAt(trans, i, j) == IF trans THEN j * NCells + i ELSE i * NEmbd + j

Values(kd, trans) ==
    [o \in Offset |-> IF trans THEN <<kd[o % NCells].tok, o \div NCells>>
                               ELSE <<kd[o \div NEmbd].tok, o % NEmbd>>]

(* Element x of n rows or, transposed, of NEmbd columns: <<row, value>>. *)
Element(trans, n, x) ==
    IF trans THEN <<(x % n) + 1, x \div n>> ELSE <<(x \div NEmbd) + 1, x % NEmbd>>

(* state_write_data for the cells src[1], src[2], ... *)
WrittenValues(kd, trans, src) ==
    LET stored == Values(kd, trans)
    IN  [x \in 1 .. Len(src) * NEmbd |->
            LET at == Element(trans, Len(src), x - 1)
            IN  stored[ValueAt(trans, src[at[1]], at[2])]]

(***************************************************************************)
(* state_write: the cells of s, or all cells in use, in ascending order.   *)
(* Without any the state is empty, and says nothing of the layout.         *)
(***************************************************************************)
StateOf(c, kd, trans, s) ==
    LET src == Ascending({i \in Live(c) : s = All \/ s \in c.cell[i].seq})
        ids(i) == IF s = All THEN c.cell[i].seq ELSE {s}
    IN  IF src = <<>> THEN NoState ELSE
        [v_trans |-> trans,
         meta |-> [k \in DOMAIN src |-> [pos |-> c.cell[src[k]].pos, seq |-> ids(src[k])]],
         k    |-> [k \in DOMAIN src |-> kd[src[k]]],
         v    |-> WrittenValues(kd, trans, src)]

Row == [tok : Tok \cup {NoTok}, rot : Int]

StateRecord == [v_trans : BOOLEAN, meta : Seq([pos : Pos, seq : SUBSET Seqs]),
                k : Seq(Row), v : Seq((Tok \cup {NoTok}) \X (0 .. NEmbd - 1))]

(* A state as some context has written it: the values are those of its keys. *)
Written(st) ==
    /\ st \in StateRecord
    /\ Len(st.k) = Len(st.meta) /\ Len(st.v) = Len(st.meta) * NEmbd
    /\ \A x \in DOMAIN st.v :
         LET at == Element(st.v_trans, Len(st.meta), x - 1)
         IN  st.v[x] = <<st.k[at[1]].tok, at[2]>>

ASSUME ForeignAssumption == \A st \in Foreign : Written(st)

-----------------------------------------------------------------------------
(* A slip: the first and the last cell are taken to tell. *)
OneBlockByExtent(idxs) == idxs[1] < idxs[Len(idxs)]

(* is_contiguous(): the slot is one block, and is written as one. *)
OneBlock(idxs) == \A k \in DOMAIN idxs : idxs[k] = idxs[1] + k - 1

RowCell(idxs, k) == IF OneBlock(idxs) THEN idxs[1] + k - 1 ELSE idxs[k]

(* A slip: a transposed state is read row by row. *)
PlaceUntransposed(st, trans, x) ==
    Element(trans, Len(st.meta), x)

(* Where element x of the values read goes: <<row, value>>; a transposed  *)
(* state is transposed back by a context that is not.                      *)
Place(st, trans, x) == Element(st.v_trans, Len(st.meta), x)

(***************************************************************************)
(* state_read_data into the cells idxs: keys by rows, values element by    *)
(* element.  A cell whose values are not those of its key's token holds    *)
(* nothing anybody can use.                                                *)
(***************************************************************************)
Loaded(st, kd, trans, idxs) ==
    LET n     == Len(st.meta)
        row(i) == {k \in 1 .. n : RowCell(idxs, k) = i}
        keys  == [i \in Cell |-> IF row(i) = {} THEN kd[i]
                                 ELSE st.k[CHOOSE k \in row(i) : TRUE]]
        old   == Values(kd, trans)
        to    == [x \in 1 .. n * NEmbd |->
                    LET at == Place(st, trans, x - 1)
                    IN  ValueAt(trans, RowCell(idxs, at[1]), at[2])]
        vals  == [o \in Offset |->
                    IF \E x \in DOMAIN to : to[x] = o
                    THEN st.v[CHOOSE x \in DOMAIN to : to[x] = o]
                    ELSE old[o]]
    IN  [i \in Cell |->
            IF \A j \in 0 .. NEmbd - 1 : vals[ValueAt(trans, i, j)] = <<keys[i].tok, j>>
            THEN keys[i] ELSE NoData]

(* Flash attention on to flash attention off is refused. *)
Compatible(st, trans) == trans = st.v_trans \/ ~trans

-----------------------------------------------------------------------------
(* A slip: its cells are removed, with the other sequences in them. *)
WithoutCells(c, d) ==
    SeqRm(c, [i \in Cell |-> IF d \in c.cell[i].seq THEN Seqs ELSE {}])

(***************************************************************************)
(* state_read_meta for one sequence: what the sequence has is removed, and *)
(* the cells of the state are placed as one ubatch of tokens of it.  A     *)
(* state with cells of several sequences, or one that does not fit, is     *)
(* refused.                                                                *)
(***************************************************************************)
Without(c, d) == SeqRm(c, [i \in Cell |-> {d}])

HeadWithout(c, h, d) == Lowered(h, Emptied(c, [i \in Cell |-> {d}]))

AsUbatch(st, d) == [k \in DOMAIN st.meta |-> [pos |-> st.meta[k].pos, ids |-> <<d>>]]

OneSequence(st) == \A k \in DOMAIN st.meta : Cardinality(st.meta[k].seq) = 1

Fits(c, st) == OneSequence(st) /\ ~NoSlot(c, Len(st.meta))

SlotFor(c, h, st, idxs) == IsSlot(c, h, Len(st.meta), idxs)

Holds(meta) == Len(meta) <= NCells

(* With all sequences a cleared cache is filled from cell 0 on. *)
Prefix(n) == [k \in 1 .. n |-> k - 1]

(* A slip: the cells that are there are written over. *)
FilledOver(meta) ==
    Emplace(cells, 0 .. Len(meta) - 1, [i \in 0 .. Len(meta) - 1 |-> meta[i + 1]])

Filled(meta) ==
    Emplace(Reset, 0 .. Len(meta) - 1, [i \in 0 .. Len(meta) - 1 |-> meta[i + 1]])

-----------------------------------------------------------------------------
(* A call that reads the state; the client drops it after the last. *)
StateCall ==
    /\ pc = "idle" /\ reads < MaxReads
    /\ reads' = reads + 1
    /\ saved' = IF reads' = MaxReads THEN NoState ELSE saved
    /\ UNCHANGED <<pc, decoding, v_trans>>

(* llama_state_get_data, llama_state_seq_get_data and their file forms. *)
StateWrite(s) ==
    /\ pc = "idle" /\ saved = NoState /\ reads < MaxReads
    /\ SavePending \/ ~cells.hasShift
    /\ saved' = StateOf(cells, kdata, v_trans, s)
    /\ UNCHANGED <<vars, v_trans, reads>>

(* An empty state is read without a look at the cache. *)
ReadNothing ==
    /\ StateCall /\ saved.meta = <<>>
    /\ UNCHANGED <<cells, head, kdata>>

ReadSeq(d) ==
    LET c == Without(cells, d)  h == HeadWithout(cells, head, d)
    IN  /\ StateCall /\ saved.meta # <<>>
        /\ Fits(c, saved) /\ Compatible(saved, v_trans)
        /\ \E idxs \in [1 .. Len(saved.meta) -> Cell] :
             /\ SlotFor(c, h, saved, idxs)
             /\ cells' = ApplyUbatch(c, AsUbatch(saved, d), idxs)
             /\ head'  = HeadAfter(idxs)
             /\ kdata' = Scrub(cells', Loaded(saved, Scrub(c, kdata), v_trans, idxs))

ReadAll ==
    LET n == Len(saved.meta)
    IN  /\ StateCall /\ saved.meta # <<>>
        /\ Holds(saved.meta) /\ Compatible(saved, v_trans)
        /\ cells' = Filled(saved.meta) /\ head' = 0
        /\ kdata' = Loaded(saved, [i \in Cell |-> NoData], v_trans, Prefix(n))

(***************************************************************************)
(* state_read refuses the state: the sequence, or the cache, is emptied.   *)
(* When the values are what is refused the cells have been placed already. *)
(***************************************************************************)
RefuseSeq(d) ==
    LET c == Without(cells, d)  h == HeadWithout(cells, head, d)
    IN  /\ StateCall /\ saved.meta # <<>>
        /\ IF Fits(c, saved)
           THEN /\ ~Compatible(saved, v_trans)
                /\ \E idxs \in [1 .. Len(saved.meta) -> Cell] :
                     /\ SlotFor(c, h, saved, idxs)
                     /\ LET placed == ApplyUbatch(c, AsUbatch(saved, d), idxs)
                        IN  /\ cells' = Without(placed, d)
                            /\ head'  = HeadWithout(placed, HeadAfter(idxs), d)
           ELSE cells' = c /\ head' = h
        /\ kdata' = Scrub(cells', kdata)

RefuseAll ==
    /\ StateCall /\ saved.meta # <<>>
    /\ ~Holds(saved.meta) \/ ~Compatible(saved, v_trans)
    /\ cells' = Reset /\ head' = 0 /\ kdata' = [i \in Cell |-> NoData]

(***************************************************************************)
(* The state ends early.  The reader throws past the clean-up of           *)
(* state_read: with the sequence removed and nothing placed yet, or with   *)
(* cells placed whose keys and values have not, or not all, been read.     *)
(* With all sequences the last cell may lack some of its own, or all.      *)
(***************************************************************************)
CutSeq(d) ==
    LET c == Without(cells, d)  h == HeadWithout(cells, head, d)
    IN  /\ CutShort /\ StateCall /\ saved.meta # <<>>
        /\ \/ cells' = c /\ head' = h /\ kdata' = Scrub(c, kdata)
           \/ /\ Fits(c, saved)
              /\ \E idxs \in [1 .. Len(saved.meta) -> Cell] :
                   /\ SlotFor(c, h, saved, idxs)
                   /\ cells' = ApplyUbatch(c, AsUbatch(saved, d), idxs)
                   /\ head'  = HeadAfter(idxs)
                   /\ kdata' = Scrub(cells', [i \in Cell |->
                        IF i \in Targets(idxs) THEN NoData ELSE kdata[i]])

CutAll ==
    /\ CutShort /\ StateCall /\ saved.meta # <<>> /\ Holds(saved.meta)
    /\ \/ cells' = Filled(<<>>)
       \/ \E n \in DOMAIN saved.meta, got \in SUBSET Seqs :
            /\ got \subseteq saved.meta[n].seq
            /\ cells' = Filled([SubSeq(saved.meta, 1, n) EXCEPT ![n].seq = got])
    /\ head' = 0 /\ kdata' = [i \in Cell |-> NoData]

(* llama_init_from_model: the client goes on with a new context. *)
NewContext ==
    /\ pc = "idle"
    /\ cells' = Reset /\ head' = 0 /\ kdata' = [i \in Cell |-> NoData]
    /\ v_trans' \in BOOLEAN
    /\ UNCHANGED <<pc, decoding, saved, reads>>

(***************************************************************************)
(* The harness compacts by a round trip: sequence d is saved and loaded    *)
(* into a new context, with flash attention if the backend has it, which   *)
(* takes the place of the old one.  When it cannot be made or the state is *)
(* refused the old one stays.                                              *)
(***************************************************************************)
RoundTrip(d) ==
    LET st == StateOf(cells, kdata, v_trans, d)
    IN  /\ pc = "idle" /\ st.meta # <<>>
        /\ SavePending \/ ~cells.hasShift
        /\ Fits(Reset, st)
        /\ \E idxs \in [1 .. Len(st.meta) -> Cell] :
             /\ SlotFor(Reset, 0, st, idxs)
             /\ cells' = ApplyUbatch(Reset, AsUbatch(st, d), idxs)
             /\ head'  = HeadAfter(idxs)
             /\ \E trans \in BOOLEAN :
                  /\ Compatible(st, trans)
                  /\ kdata' = Loaded(st, [i \in Cell |-> NoData], trans, idxs)
                  /\ v_trans' = trans
        /\ UNCHANGED <<pc, decoding, saved, reads>>

StateInit ==
    /\ Init
    /\ v_trans \in BOOLEAN /\ saved \in {NoState} \cup Foreign /\ reads = 0

StateNext ==
    \/ Next /\ UNCHANGED <<v_trans, saved, reads>>
    \/ \E s \in Seqs \cup {All} : StateWrite(s)
    \/ ReadNothing
    \/ ReadAll \/ RefuseAll \/ CutAll
    \/ \E d \in Seqs : ReadSeq(d) \/ RefuseSeq(d) \/ CutSeq(d) \/ RoundTrip(d)
    \/ NewContext

StateSpec == StateInit /\ [][StateNext]_stateVars

-----------------------------------------------------------------------------
StateTypeOK ==
    /\ TypeOK /\ v_trans \in BOOLEAN /\ reads \in 0 .. MaxReads
    /\ saved \in StateRecord
    /\ Len(saved.k) = Len(saved.meta) /\ Len(saved.v) = Len(saved.meta) * NEmbd

(* After every load, also one cut short, the indices fit the cells.        *)
StateInv == StateTypeOK /\ IndexInv

(* What a sequence holds: its positions, and what is stored for them. *)
HasCell(s) == {i \in Live(cells) : s \in cells.cell[i].seq}
Held(s)    == {<<cells.cell[i].pos, kdata[i]>> : i \in HasCell(s)}
HeldAll    == {<<cells.cell[i].pos, kdata[i], cells.cell[i].seq>> : i \in Live(cells)}

(***************************************************************************)
(* "Copy the sequence data (originally copied with                         *)
(* llama_state_seq_get_data) into the specified sequence": a state that    *)
(* has cells and is read to its end puts exactly its positions, keys and   *)
(* values into the sequence, whatever cells are free and whichever of the  *)
(* two layouts it was saved in; read for all sequences it becomes the      *)
(* cache.                                                                  *)
(***************************************************************************)
Restored ==
    LET n == Len(saved.meta)
    IN  /\ \A d \in Seqs : ReadSeq(d) =>
             /\ Held(d)' = {<<saved.meta[k].pos, saved.k[k]>> : k \in 1 .. n}
             /\ Cardinality(HasCell(d)') = n
        /\ ReadAll =>
             /\ HeldAll' = {<<saved.meta[k].pos, saved.k[k], saved.meta[k].seq>> : k \in 1 .. n}
             /\ cells'.used = 0 .. n - 1

RestoredExact == [][Restored]_stateVars

(***************************************************************************)
(* Loading a state for one sequence leaves the other sequences what they   *)
(* have, also those that shared cells with it, whether the state is read,  *)
(* refused or cut short.  "failed to restore kv cache": a state that is    *)
(* refused, before or after its cells were placed, costs the sequence and  *)
(* nothing else.                                                           *)
(***************************************************************************)
Spared ==
    \A d \in Seqs :
      /\ ReadSeq(d) \/ RefuseSeq(d) \/ CutSeq(d) =>
           \A s \in Seqs \ {d} : Held(s)' = Held(s)
      /\ RefuseSeq(d) => cells' = Without(cells, d)

OthersUntouched == [][Spared]_stateVars

(***************************************************************************)
(* "compaction makes cells contiguous without renumbering them": the round *)
(* trip of the harness leaves the sequence every position, key and value   *)
(* it had, as a dense prefix with the head behind it.                      *)
(***************************************************************************)
Compacted == \A d \in Seqs : RoundTrip(d) => Held(d)' = Held(d) /\ Dense'

RoundTripCompacts == [][Compacted]_stateVars
=============================================================================
