------------------------------- MODULE KQMask -------------------------------
(***************************************************************************)
(* The attention mask of a ubatch: which cells each of its tokens attends  *)
(* to.  The code fills the row of the first token of a sequence cell by    *)
(* cell, and every further row of that sequence by copying the first and   *)
(* redoing only the cells whose position is close to those of the ubatch.  *)
(* Models without ALiBi; a cell masked with -INFINITY is FALSE here.       *)
(***************************************************************************)
EXTENDS KVCells

CONSTANTS
    NSwa, SwaType,  \* sliding window: its size and its kind
    NPad,           \* the cells looked at are padded to a multiple of this
    Slack           \* how far before the window cells are redone (32)

ASSUME MaskAssumption ==
    /\ NSwa \in Nat /\ SwaType \in {"none", "standard", "chunked", "symmetric"}
    /\ SwaType \in {"chunked", "symmetric"} => NSwa > 0
    /\ NPad \in Nat \ {0} /\ Slack \in Nat

(* A ubatch is a sequence of tokens: a position and the ids it belongs to. *)
Ubatches == Seq([pos : Pos, ids : Seq(Seqs) \ {<<>>}])

-----------------------------------------------------------------------------
(* llama_hparams::is_masked_swa *)
IsMaskedSwa(p0, p1) ==
    CASE SwaType = "none"      -> FALSE
      [] SwaType = "standard"  -> p1 - p0 >= NSwa
      [] SwaType = "chunked"   -> p0 < (p1 \div NSwa) * NSwa
      [] SwaType = "symmetric" -> p1 - p0 > NSwa \div 2 \/ p0 - p1 > NSwa \div 2

(* get_n_kv: the cells up to the last one in use, padded, but at most all. *)
Padded(m) == ((m + NPad - 1) \div NPad) * NPad

IsUsedMaxP1(c, m) == /\ \A i \in c.used : i < m
                     /\ m = 0 \/ m - 1 \in c.used

NKv(c) ==
    LET m == Padded(CHOOSE u \in 0 .. NCells : IsUsedMaxP1(c, u))
        n == IF m > NPad THEN m ELSE NPad
    IN  IF n < NCells THEN n ELSE NCells

(* What the body of the loop decides for the token at position p of s.     *)
Unmasked(c, causal, s, p, i) ==
    /\ ~IsEmpty(c, i) /\ s \in c.cell[i].seq
    /\ causal => c.cell[i].pos <= p
    /\ ~IsMaskedSwa(c.cell[i].pos, p)

IdOf(ub, k) == ub[k].ids[1]

(* seq_srct: the row of the first token of the sequence in the ubatch. *)
SrcRow(ub, k) ==
    CHOOSE m \in 1 .. k : /\ IdOf(ub, m) = IdOf(ub, k)
                          /\ \A q \in 1 .. m - 1 : IdOf(ub, q) # IdOf(ub, k)

(* A slip: the size of the window is forgotten. *)
RecordedNoWindow(c, ub, k, i) ==
    \E m \in DOMAIN ub : /\ IdOf(ub, m) = IdOf(ub, k)
                         /\ c.cell[i].pos + Slack >= ub[m].pos

(* seq_idxs: the cells at most NSwa + Slack before the smallest position   *)
(* of the sequence in the ubatch, seq_pos_min.                             *)
Recorded(c, ub, k, i) ==
    \E m \in DOMAIN ub : /\ IdOf(ub, m) = IdOf(ub, k)
                         /\ c.cell[i].pos + NSwa + Slack >= ub[m].pos

(* set_input_kq_mask: the row of token k. *)
FullRow(c, causal, ub, k) ==
    [i \in 0 .. NKv(c) - 1 |-> Unmasked(c, causal, IdOf(ub, k), ub[k].pos, i)]

MaskRow(c, causal, ub, k) ==
    LET full  == FullRow(c, causal, ub, k)
        first == FullRow(c, causal, ub, SrcRow(ub, k))
        redo(i) == /\ ~IsEmpty(c, i) /\ IdOf(ub, k) \in c.cell[i].seq
                   /\ Recorded(c, ub, k, i)
    IN  IF SrcRow(ub, k) = k THEN full
        ELSE [i \in 0 .. NKv(c) - 1 |-> IF redo(i) THEN full[i] ELSE first[i]]

Visible(row) == {i \in DOMAIN row : row[i]}

-----------------------------------------------------------------------------
(***************************************************************************)
(* What attention means: a token attends to the cells of its sequence, at  *)
(* its own or an earlier position if attention is causal, that are not out *)
(* of its window, wherever in the cache they are.                          *)
(***************************************************************************)
Attended(c, causal, ub, k) ==
    {i \in Cell : Unmasked(c, causal, IdOf(ub, k), ub[k].pos, i)}
=============================================================================
