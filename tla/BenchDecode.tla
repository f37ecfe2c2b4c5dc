---------------------------- MODULE BenchDecode ----------------------------
(***************************************************************************)
(* The cache as the benchmark harness drives it: prefill, eviction by a    *)
(* policy, compaction (in place, or by a save and restore into a second    *)
(* context), then a loop that decodes a token and evicts again.  There is  *)
(* one sequence, so a cell is empty or holds one token at one position;    *)
(* KVCache has the cache's own steps.  Tokens are numbered as they come.   *)
(*                                                                         *)
(* The harness speaks of the cache in three coordinates: cell index        *)
(* (scores), position (seq_rm, seq_add) and count (budgets).               *)
(***************************************************************************)
EXTENDS Integers, FiniteSetsExt

CONSTANTS
    NCells,                   \* n_ctx
    NPrompt,                  \* cells the prompt takes
    ImgFrom, ImgTo, ImgSpan,  \* an image: its tokens, the positions it takes
    NSink,                    \* n_sink
    K,                        \* k_nominal
    RecentBudget,             \* recent_budget
    KTier, MinRecent,         \* tdak_k_cool .. tdak_k_crit; 32
    PollSteps,                \* thermal_poll_steps
    KeepSizes,                \* how many indices a union of heads keeps
    Block,                    \* keydiff_decode_block
    Pad,                      \* n_kv is a multiple of this (256)
    MaxSteps,                 \* max_tokens
    Modes                     \* the configurations of a run, see Mode

Policies == {"step", "frozen", "keydiff", "tiered", "recency", "sllm"}
Moves    == {"none", "inplace", "swap"}
Thermals == {"off", "ladder", "ratchet"}
Tiers    == 0 .. 3                      \* cool, mid, warm, crit

(***************************************************************************)
(* policy  what happens in the decode loop: eviction after each step by    *)
(*         attention scores (v1, tova, h2o, ...), none (snapkv, adakv),    *)
(*         KeyDiff, decode_tiered (v1_fa2), decode_bound (v1_fa),          *)
(*         streamingllm with sllm_window                                   *)
(* move    how the survivors of prefill are made contiguous                *)
(* quant   g_k_is_quantized; image  g_evict_by_cell_index                  *)
(* thermal the budget follows the temperature (--thermal-driven-k), with   *)
(*         --tdak-ratchet or without                                       *)
(***************************************************************************)
Mode == [policy : Policies, move : Moves, quant : BOOLEAN, image : BOOLEAN,
         thermal : Thermals]

(***************************************************************************)
(* n_ctx leaves room for prompt and answer.  With an image, per-step       *)
(* policies are refused; its round-trip, and a window over quantized keys, *)
(* are not modelled.                                                       *)
(***************************************************************************)
ASSUME BenchAssumption ==
    /\ {NPrompt, NSink, K, RecentBudget, Block, Pad, MaxSteps, ImgSpan}
         \subseteq Nat \ {0}
    /\ KTier \in [Tiers -> Nat] /\ \A t \in Tiers : KTier[t] > NSink
    /\ {MinRecent, PollSteps} \subseteq Nat \ {0}
    /\ KeepSizes \subseteq 0 .. Pad
    /\ NCells \in Nat /\ NCells > NPrompt + MaxSteps
    /\ K > NSink /\ NPrompt > K
    /\ ImgTo \in Nat /\ ImgFrom \in 1 .. ImgTo /\ ImgTo < NPrompt - 1
    /\ ImgSpan <= ImgTo - ImgFrom + 1
    /\ Modes \subseteq Mode
    /\ \A m \in Modes : m.image => m.policy # "step" /\ m.move # "swap"
    /\ \A m \in Modes : m.policy = "sllm" => ~m.quant

VARIABLES
    mode,
    mem,        \* the cells and the search head
    pc,         \* "prefill", "move", "warmup", "decode", "evict" or "done"
    step,       \* of the decode loop
    made,       \* tokens the loop has decoded
    lastEvict,  \* kd_last_evict_step
    nAnchored,  \* n_anchored
    tier, kNow, \* tdak_tier_last, tdak_current_k
    lastPoll,   \* tdak_step_last_poll
    evicted,    \* n_total_evicted
    anchors,    \* what the cache held when the loop began
    kept        \* what the last selection by score chose to keep

heat == <<tier, kNow, lastPoll>>
vars == <<mode, mem, pc, step, made, lastEvict, nAnchored, heat, evicted,
          anchors, kept>>

-----------------------------------------------------------------------------
(* The cache. *)

Cell == 0 .. NCells - 1
Free == [tok |-> -1, pos |-> -1]

Live(m)   == {i \in Cell : m.cell[i] # Free}
Toks(m)   == {m.cell[i].tok : i \in Live(m)}
PosMax(m) == Max({m.cell[i].pos : i \in Live(m)} \cup {-1})

(* Both kinds of removal lower the head to the first cell they free. *)
Remove(m, gone) ==
    [cell |-> [i \in Cell |-> IF i \in gone THEN Free ELSE m.cell[i]],
     head |-> Min(gone \cup {m.head})]

SeqRm(m, P)   == Remove(m, {i \in Live(m) : m.cell[i].pos \in P})
RmCells(m, I) == Remove(m, Live(m) \cap I)

SeqAddMovesAll(m, P, d) ==       \* slip: the range is ignored
    [cell |-> [i \in Cell |-> IF i \notin Live(m) THEN Free
                              ELSE [m.cell[i] EXCEPT !.pos = @ + d]],
     head |-> 0]

(* The harness never shifts a position below 0. *)
SeqAdd(m, P, d) ==
    IF P = {} \/ d = 0 THEN m
    ELSE [cell |-> [i \in Cell |-> IF m.cell[i].pos \notin P THEN m.cell[i]
                                   ELSE [m.cell[i] EXCEPT !.pos = @ + d]],
          head |-> 0]

(* find_slot for one token, and its placement after the last position. *)
ScanStart(m) == IF m.head > Cardinality(Live(m)) + 2 THEN 0 ELSE m.head

NextFree(m) ==
    LET free  == Cell \ Live(m)
        ahead == {i \in free : i >= ScanStart(m)}
    IN  Min(IF ahead # {} THEN ahead ELSE free)

Place(m, t) ==
    LET i == NextFree(m)
    IN  [cell |-> [m.cell EXCEPT ![i] = [tok |-> t, pos |-> PosMax(m) + 1]],
         head |-> i + 1]

(* The survivors in cells 0, 1, ...; positions stay. *)
Compact(m) ==
    LET n      == Cardinality(Live(m))
        nth(j) == CHOOSE i \in Live(m) :
                      Cardinality({h \in Live(m) : h < i}) = j
    IN  [cell |-> [j \in Cell |-> IF j < n THEN m.cell[nth(j)] ELSE Free],
         head |-> n]

(* State is saved by cell and restored into the cells of an empty cache;   *)
(* the result is that of compaction.                                       *)
Restore(m) == Compact(m)

(* get_n_kv: the extent of the attention row, padded. *)
NKv(m) ==
    LET usedMaxP1 == Max(Live(m) \cup {-1}) + 1
        padded    == ((usedMaxP1 + Pad - 1) \div Pad) * Pad
    IN  Min({NCells, Max({Pad, padded})})

(* endurkv_keydiff_scores: how many cells get a score. *)
Scored(m, nMax) ==
    LET n == Cardinality(Live(m))
    IN  IF Live(m) = 0 .. n - 1 /\ n <= nMax /\ ~mode.quant THEN n ELSE 0

-----------------------------------------------------------------------------
(* Selection and eviction. *)

Sinks(n) == 0 .. Min({NSink, n}) - 1

(***************************************************************************)
(* What a policy that reads attention keeps of the n cells of the row: the *)
(* union over layers and heads of the largest scores and, for some, of the *)
(* last indices, whether the cells are empty or not, and the sinks.        *)
(***************************************************************************)
ScoreKeeps(n) ==
    {S \cup Sinks(n) : S \in UNION {kSubset(k, 0 .. n - 1) : k \in KeepSizes}}

KeyDiffKeeps(n) == kSubset(Min({K, n}), 0 .. n - 1)

(* policy_streamingllm *)
WindowKeep(n) == Sinks(n) \cup (n - (K - NSink) .. n - 1)

EvictByPosition(m, keep, n) ==   \* slip: the cell API is not used
    [mem |-> SeqRm(m, 0 .. n - 1 \ keep), count |-> Cardinality(0 .. n - 1 \ keep)]

(***************************************************************************)
(* apply_eviction: keep is indexed by cell; without an image the indices   *)
(* that are not kept are removed as positions.                             *)
(***************************************************************************)
ApplyEviction(m, keep, n) ==
    LET drop == 0 .. n - 1 \ keep
    IN  IF mode.image
        THEN [mem |-> RmCells(m, drop), count |-> Cardinality(drop \cap Live(m))]
        ELSE [mem |-> SeqRm(m, drop), count |-> Cardinality(drop)]

TokensIn(m, I) == {m.cell[i].tok : i \in I \cap Live(m)}

-----------------------------------------------------------------------------
(* Prefill. *)

PromptPos(t) ==
    IF ~mode.image \/ t < ImgFrom THEN t
    ELSE IF t <= ImgTo THEN ImgFrom
    ELSE ImgFrom + ImgSpan + (t - ImgTo - 1)

Prompted == [cell |-> [i \in Cell |-> IF i < NPrompt
                                      THEN [tok |-> i, pos |-> PromptPos(i)]
                                      ELSE Free],
             head |-> NPrompt]

Init ==
    /\ mode \in Modes
    /\ mem = Prompted
    /\ pc = "prefill"
    /\ step = 0 /\ made = 0 /\ lastEvict = -1
    /\ nAnchored = 0 /\ evicted = 0
    /\ tier = 0 /\ kNow = K /\ lastPoll = -1
    /\ anchors = {} /\ kept = {}

(***************************************************************************)
(* The eviction after prefill.  Policies that read attention may narrow    *)
(* their selection (anchor_top_k), so any set with the sinks can be left.  *)
(***************************************************************************)
EvictPrompt ==
    /\ pc = "prefill"
    /\ \E keep \in
          CASE mode.policy = "sllm" -> {WindowKeep(NPrompt)}
            [] mode.policy = "keydiff" ->
                 LET n == Scored(mem, NPrompt)
                 IN  IF n = 0 THEN {Cell}
                     ELSE {S \cup Sinks(n) : S \in KeyDiffKeeps(n)}
            [] OTHER -> {S \cup Sinks(NPrompt) : S \in SUBSET Live(mem)} :
         /\ mem' = ApplyEviction(mem, keep, NPrompt).mem
         /\ kept' = TokensIn(mem, keep)
    /\ pc' = "move"
    /\ UNCHANGED <<mode, heat, step, made, lastEvict, nAnchored, evicted, anchors>>

StartDecode(m) ==
    /\ nAnchored' = PosMax(m) + 1
    /\ anchors' = Toks(m)
    /\ pc' = "decode"

(* Survivors stay where they are: no compaction, or a failed round-trip. *)
StayPut ==
    /\ pc = "move"
    /\ mode.move \in {"none", "swap"}
    /\ StartDecode(mem)
    /\ UNCHANGED <<mode, heat, mem, step, made, lastEvict, evicted, kept>>

CompactInPlace ==
    /\ pc = "move"
    /\ mode.move = "inplace"
    /\ mem' = Compact(mem)
    /\ StartDecode(mem')
    /\ UNCHANGED <<mode, heat, step, made, lastEvict, evicted, kept>>

(* The state goes to a second context, which has no logits yet. *)
SwapContext ==
    /\ pc = "move"
    /\ mode.move = "swap"
    /\ mem' = Restore(mem)
    /\ pc' = "warmup"
    /\ UNCHANGED <<mode, heat, step, made, lastEvict, nAnchored, evicted, anchors,
                   kept>>

WarmUpTwice ==                   \* slip: the position is not removed first
    /\ pc = "warmup"
    /\ mem' = Place(mem, NPrompt - 1)
    /\ StartDecode(mem')
    /\ UNCHANGED <<mode, heat, step, made, lastEvict, evicted, kept>>

(* The last prompt token is decoded again, after whatever is left. *)
WarmUp ==
    /\ pc = "warmup"
    /\ mem' = Place(SeqRm(mem, {NPrompt - 1}), NPrompt - 1)
    /\ StartDecode(mem')
    /\ UNCHANGED <<mode, heat, step, made, lastEvict, evicted, kept>>

-----------------------------------------------------------------------------
(* The decode loop. *)

DecodeToken ==
    /\ pc = "decode" /\ step < MaxSteps
    /\ mem' = Place(mem, NPrompt + made)
    /\ made' = made + 1
    /\ pc' = "evict"
    /\ UNCHANGED <<mode, heat, step, lastEvict, nAnchored, evicted, anchors, kept>>

(* An end-of-generation token is not decoded; --ignore-eos goes on. *)
SkipEog ==
    /\ pc = "decode" /\ step < MaxSteps
    /\ step' = step + 1
    /\ UNCHANGED <<mode, heat, mem, pc, made, lastEvict, nAnchored, evicted, anchors,
                   kept>>

Finish ==
    /\ pc = "decode"
    /\ pc' = "done"
    /\ UNCHANGED <<mode, heat, mem, step, made, lastEvict, nAnchored, evicted,
                   anchors, kept>>

(***************************************************************************)
(* Every PollSteps steps the temperature gives a tier and the tier a K.    *)
(* Without the ratchet any tier may come of it, a sensor that cannot be    *)
(* read counting as cool; with it the tier goes down one at a time.        *)
(***************************************************************************)
NextTiers ==
    IF mode.thermal = "ratchet" THEN {t \in Tiers : t >= tier - 1} ELSE Tiers

PollHeat ==
    IF mode.thermal = "off" \/ step - lastPoll < PollSteps THEN UNCHANGED heat
    ELSE /\ tier' \in NextTiers
         /\ kNow' = KTier[tier']
         /\ lastPoll' = step

(* eff_k_nominal and eff_recent_budget, from a K *)
KNominal(k) == IF mode.thermal = "off" THEN K ELSE k

RecentForStale(k) ==             \* slip: the K of the last step
    IF mode.thermal = "off" THEN RecentBudget
    ELSE Max({MinRecent, kNow - NSink - nAnchored})

RecentFor(k) ==
    IF mode.thermal = "off" THEN RecentBudget
    ELSE Max({MinRecent, k - NSink - nAnchored})

(* What every branch of the eviction after a decode has in common. *)
EvictionStep(policy) ==
    /\ PollHeat
    /\ pc = "evict"
    /\ mode.policy = policy
    /\ pc' = "decode"
    /\ step' = step + 1
    /\ UNCHANGED <<mode, made, nAnchored, anchors>>

Leave == UNCHANGED <<mem, evicted, kept>>

KeepFrozen == EvictionStep("frozen") /\ Leave /\ UNCHANGED lastEvict

EvictByScore ==
    /\ EvictionStep("step")
    /\ \E keep \in ScoreKeeps(NKv(mem)) :
         LET e == ApplyEviction(mem, keep, NKv(mem))
         IN  /\ mem' = e.mem
             /\ evicted' = evicted + e.count
             /\ kept' = TokensIn(mem, keep)
    /\ UNCHANGED lastEvict

(* Every Block steps KeyDiff selects again, if the cells can be scored.    *)
(* It compacts in place only.                                              *)
EvictByKeyDiff ==
    /\ EvictionStep("keydiff")
    /\ IF step - lastEvict < Block THEN Leave /\ UNCHANGED lastEvict
       ELSE LET n == Scored(mem, PosMax(mem) + 1)
            IN  /\ lastEvict' = step
                /\ IF n <= K THEN Leave
                   ELSE \E keep \in KeyDiffKeeps(n) :
                          LET e == ApplyEviction(mem, keep, n)
                          IN  /\ mem' = IF e.count > 0 /\ mode.move = "inplace"
                                        THEN Compact(e.mem) ELSE e.mem
                              /\ evicted' = evicted + e.count
                              /\ kept' = TokensIn(mem, keep)

(* seq_rm of [from, to) and, unless keys are quantized, seq_add of what    *)
(* follows.                                                                *)
CutBand(m, from, to) ==
    LET cut  == SeqRm(m, from .. to - 1)
        tail == to .. PosMax(m)
    IN  IF mode.quant THEN cut ELSE SeqAdd(cut, tail, from - to)

DropBandCountsTail(from, to) ==      \* slip: counts what is shifted
    /\ mem' = CutBand(mem, from, to)
    /\ evicted' = evicted + (PosMax(mem) + 1 - to)
    /\ kept' = {}

DropBand(from, to) ==
    /\ mem' = CutBand(mem, from, to)
    /\ evicted' = evicted + (to - from)
    /\ kept' = {}

TieredByCount ==                 \* slip: anchors are counted, not located
    /\ EvictionStep("tiered")
    /\ LET nKv   == PosMax(mem) + 1
           first == Cardinality(anchors)
           total == first + RecentFor(kNow')
           end   == nKv - RecentFor(kNow')
       IN  IF mode.image \/ nKv <= total + total \div 4 \/ end <= first
           THEN Leave ELSE DropBand(first, end)
    /\ UNCHANGED lastEvict

(* apply_tiered_decode_eviction *)
EvictTiered ==
    /\ EvictionStep("tiered")
    /\ LET nKv   == PosMax(mem) + 1
           total == nAnchored + RecentFor(kNow')
           end   == nKv - RecentFor(kNow')
       IN  IF \/ mode.image
              \/ nKv <= total + total \div 4
              \/ end <= nAnchored
           THEN Leave ELSE DropBand(nAnchored, end)
    /\ UNCHANGED lastEvict

(* apply_recency_decode_eviction *)
EvictRecency ==
    /\ EvictionStep("recency")
    /\ LET nKv == PosMax(mem) + 1
           k   == KNominal(kNow')
           end == nKv - (k - NSink)
       IN  IF mode.image \/ nKv <= (k * 3) \div 2 \/ end <= NSink
           THEN Leave ELSE DropBand(NSink, end)
    /\ UNCHANGED lastEvict

Slide(excess, pmax) ==
    /\ mem' = SeqAdd(SeqRm(mem, NSink .. NSink + excess - 1),
                     NSink + excess .. pmax, -excess)
    /\ evicted' = evicted + 1
    /\ kept' = {}

(* The window of StreamingLLM, each step; the eviction counts as one. *)
SlideWindow ==
    /\ EvictionStep("sllm")
    /\ LET pmax   == PosMax(mem)
           excess == (pmax + 1 - NSink) - (K - NSink)
       IN  IF mode.image \/ excess <= 0 THEN Leave ELSE Slide(excess, pmax)
    /\ UNCHANGED lastEvict

Evict == \/ KeepFrozen \/ EvictByScore \/ EvictByKeyDiff
         \/ EvictTiered \/ EvictRecency \/ SlideWindow

Next == \/ EvictPrompt
        \/ StayPut \/ CompactInPlace \/ SwapContext \/ WarmUp
        \/ DecodeToken \/ SkipEog \/ Finish
        \/ Evict

Spec == Init /\ [][Next]_vars

-----------------------------------------------------------------------------
(* Types: positions are never negative and the head is at most n_ctx. *)
TypeOK ==
    /\ mode \in Modes
    /\ mem.head \in 0 .. NCells
    /\ \A i \in Cell : \/ mem.cell[i] = Free
                       \/ mem.cell[i].tok \in Nat /\ mem.cell[i].pos \in Nat
    /\ pc \in {"prefill", "move", "warmup", "decode", "evict", "done"}
    /\ step \in 0 .. MaxSteps /\ made \in 0 .. MaxSteps
    /\ lastEvict \in -1 .. MaxSteps /\ nAnchored \in Nat /\ evicted \in Nat
    /\ tier \in Tiers /\ kNow \in {K} \cup {KTier[t] : t \in Tiers}
    /\ lastPoll \in -1 .. MaxSteps
    /\ anchors \subseteq Nat /\ kept \subseteq Nat

Answer      == NPrompt .. NPrompt + made - 1
Newest(n)   == {t \in Answer : t >= NPrompt + made - n}
Settled     == pc = "decode" /\ made > 0

(***************************************************************************)
(* No token is in the cache twice, and positions are in the order of the   *)
(* tokens: after holes, shifts and a re-decoded token the model still      *)
(* sees the text in order.                                                 *)
(***************************************************************************)
PositionsFollowTokens ==
    \A i, j \in Live(mem) :
        LET a == mem.cell[i]
            b == mem.cell[j]
        IN  /\ a.tok = b.tok => i = j
            /\ a.tok < b.tok => IF mode.image THEN a.pos <= b.pos
                                ELSE a.pos < b.pos

(* "Anchors are never dropped" by tiered eviction; a frozen selection and  *)
(* its answer stay whole.                                                  *)
AnchorsKept ==
    /\ mode.policy \in {"tiered", "frozen"} /\ made > 0 => anchors \subseteq Toks(mem)
    /\ mode.policy = "frozen" => Answer \subseteq Toks(mem)

(* Attention sinks outlive every eviction that promises to protect them;   *)
(* KeyDiff selects without them in the loop.                               *)
SinksKept ==
    mode.policy # "keydiff" => 0 .. NSink - 1 \subseteq Toks(mem)

(* The recent part of the answer, to the size of its budget (of the least  *)
(* that heat may leave), is cached.                                        *)
LeastK == IF mode.thermal = "off" THEN K ELSE Min({K} \cup {KTier[t] : t \in Tiers})

LeastRecent == IF mode.thermal = "off" THEN RecentBudget ELSE MinRecent

RecentKept ==
    Settled =>
        /\ mode.policy = "tiered" => Newest(LeastRecent) \subseteq Toks(mem)
        /\ mode.policy \in {"recency", "sllm"} =>
             Newest(LeastK - NSink) \subseteq Toks(mem)

(* Whatever the policy, what it protects survives every eviction.          *)
ProtectedKept == AnchorsKept /\ SinksKept /\ RecentKept

(* Decode-time eviction bounds the cache (text prompts), at once also when *)
(* heat has cut the budget.                                                *)
CacheBounded ==
    Settled /\ ~mode.image =>
        LET n     == Cardinality(Live(mem))
            k     == KNominal(kNow)
            total == nAnchored + RecentFor(kNow)
        IN  /\ mode.policy = "tiered"  => n <= total + total \div 4
            /\ mode.policy = "recency" => n <= (k * 3) \div 2
            /\ mode.policy = "sllm"    => n <= K

(* The StreamingLLM window has the positions of its slots. *)
WindowDense ==
    Settled /\ mode.policy = "sllm" /\ ~mode.image =>
        {mem.cell[i].pos : i \in Live(mem)} = 0 .. Cardinality(Live(mem)) - 1

(* Eviction keeps to the budget, the window without a gap.                 *)
BudgetKept == CacheBounded /\ WindowDense

(* The reported number of evictions is the number of tokens that left,     *)
(* where positions have no holes to be counted.                            *)
EvictedExact ==
    Settled /\ (mode.image \/ (mode.policy \in {"tiered", "sllm"} /\ ~mode.quant))
        => evicted = Cardinality(anchors) + made - Cardinality(Live(mem))

(***************************************************************************)
(* What a selection by score keeps is in the cache until the next          *)
(* eviction: "A position is evicted iff no layer keeps it."                *)
(***************************************************************************)
KeptSurvive == pc \in {"decode", "evict"} => kept \subseteq Toks(mem)

(* The same where eviction addresses cells (prompts with images). *)
ByCellKeptSurvive == mode.image => KeptSurvive

(***************************************************************************)
(* KeyDiff in the loop: "the cache stays in [N, N + B]", the sinks of the  *)
(* first selection aside.                                                  *)
(***************************************************************************)
KeyDiffBounded ==
    mode.policy = "keydiff" /\ pc = "decode" =>
        Cardinality(Live(mem)) <= K + NSink + Block
=============================================================================
