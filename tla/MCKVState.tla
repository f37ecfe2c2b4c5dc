----------------------------- MODULE MCKVState -----------------------------
(* Two sequences in a small cache, and states saved by larger contexts. *)
EXTENDS KVState

CONSTANTS a, b

MCSeqs == {a, b}

(* Tokens of one sequence; what the other has comes from a state. *)
MCBatches == {<< <<a>> >>}

AllRange  == <<-1, -1>>
FirstOnly == <<0, 1>>
MCRanges  == {AllRange, FirstOnly}

(* A state of the given cells, whose tokens are told apart by the cell. *)
OtherState(meta, trans) ==
    [v_trans |-> trans,
     meta |-> meta,
     k    |-> [k \in DOMAIN meta |-> [tok |-> k - 1, rot |-> meta[k].pos]],
     v    |-> [x \in 1 .. Len(meta) * NEmbd |->
                 LET at == Element(trans, Len(meta), x - 1) IN <<at[1] - 1, at[2]>>]]

At(p, S) == [pos |-> p, seq |-> S]

(* More cells than this context has; a cell of two sequences. *)
MCForeign == {OtherState(<<At(0, {a}), At(1, {a}), At(0, {b}), At(1, {b})>>, FALSE),
              OtherState(<<At(0, {a, b}), At(1, {a})>>, TRUE)}
=============================================================================
