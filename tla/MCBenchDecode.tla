--------------------------- MODULE MCBenchDecode ---------------------------
(***************************************************************************)
(* BenchDecode for TLC: a prompt of six tokens, in configurations with an  *)
(* image of 2 x 2 tokens at two positions; K is 3 with one sink.           *)
(***************************************************************************)
EXTENDS BenchDecode

(***************************************************************************)
(* The supported configurations that differ: the type of the keys matters  *)
(* to three policies, and per-step eviction runs on the cache where        *)
(* prefill left it.                                                        *)
(***************************************************************************)
AllModes ==
    {m \in Mode :
        /\ m.quant => m.policy \in {"tiered", "recency", "keydiff"}
        /\ m.image => m.move # "swap"
        /\ m.policy = "step" => m.move = "none" /\ ~m.image
        /\ m.thermal # "off" => /\ m.policy \in {"tiered", "recency"}
                                /\ m.move = "inplace" /\ ~m.image}

(* K for the four tiers. *)
KByTier == [t \in Tiers |-> IF t = 0 THEN 4 ELSE IF t = 1 THEN 3 ELSE 2]

(* Per-step eviction by score on a text prompt. *)
StepModes == {m \in AllModes : m.policy = "step"}

(* KeyDiff on a text prompt with unquantized keys, compacted in place. *)
KeyDiffModes == {m \in AllModes : /\ m.policy = "keydiff" /\ m.move = "inplace"
                                  /\ ~m.quant /\ ~m.image}
=============================================================================
