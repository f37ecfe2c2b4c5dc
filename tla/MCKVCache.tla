----------------------------- MODULE MCKVCache -----------------------------
(* Small batches, ranges and operations for the runs of KVCache. *)
EXTENDS KVCache

CONSTANTS a, b

MCSeqs == {a, b}

(* Single tokens of either sequence or of both, and two tokens in a row. *)
OneToken   == {<< <<a>> >>, << <<b>> >>}
TwoTokens  == {<< <<a>>, <<a>> >>}
Shared     == {<< <<a, b>> >>}
OneShared  == OneToken \cup Shared
ApiBatches == OneToken \cup TwoTokens \cup Shared
OwnBatches == OneToken \cup TwoTokens

(* One sequence, in batches of up to two ubatches of two. *)
OneSeq  == {a}
Row(n)  == [k \in 1 .. n |-> <<a>>]
Batches1To4 == {Row(n) : n \in 1 .. 4}

(* All positions, those from 1 on, and the first; any end of a sequence. *)
AllRange   == {<<-1, -1>>}
TailRanges == {<<-1, -1>>, <<1, -1>>}
EndRanges  == {<<p, -1>> : p \in Pos}
MCRanges   == TailRanges \cup {<<0, 1>>}

Down   == {-1}
UpDown == {-1, 1}
=============================================================================
