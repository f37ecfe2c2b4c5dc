---------------------------- MODULE MCKVReclaim ----------------------------
(***************************************************************************)
(* Every way two sequences can share NCells cells, with the positions in   *)
(* cell order and against it (a cache is out of order once a freed cell    *)
(* low in the buffer has been filled again).                               *)
(***************************************************************************)
EXTENDS KVReclaim

CONSTANTS a, b

MCSeqs == {a, b}

Occupied(owners, at) ==
    Emplace(Reset, {c \in Cell : owners[c] # {}},
            [c \in Cell |-> [pos |-> at[c], seq |-> owners[c]]])

MCInitCells ==
    {Occupied(owners, at) : owners \in [Cell -> SUBSET MCSeqs],
                            at \in {[c \in Cell |-> c],
                                    [c \in Cell |-> NCells - 1 - c]}}

(***************************************************************************)
(* One layer at odd addresses: K with whole rows, V transposed with two    *)
(* runs that share a page, and a tensor on a device between them.          *)
(***************************************************************************)
MCTensors ==
    {[base |-> 3,  el |-> 3, runs |-> 1, host |-> TRUE],
     [base |-> 19, el |-> 2, runs |-> 1, host |-> FALSE],
     [base |-> 31, el |-> 2, runs |-> 2, host |-> TRUE]}
=============================================================================
