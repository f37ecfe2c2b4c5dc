# A verification project for EndurKV

EndurKV runs language models on phones under memory and heat limits.  It is a
fork of llama.cpp whose KV cache can evict cells by index, compact itself in
place and give the freed memory back; a benchmark harness that applies eviction
policies to it; and a set of shell scripts that run campaigns of that harness on
a phone.  This directory holds TLA+ models of that code, the TLC runs that check
them on small instances and the TLAPS proofs of what holds for every size.

## The system

| part | source | state it keeps | operations |
|---|---|---|---|
| cell metadata | `llama.cpp/src/llama-kv-cells.h` | per cell: position, pending shift, set of sequences; over all: `used`, `seq_pos`, `has_shift` | `set`/`cp`, `rm`, `seq_rm`, `seq_keep`, `seq_add`, `pos_set`, `pos_add`, `pos_div`, `reset_shift` |
| KV cache | `llama.cpp/src/llama-kv-cache.cpp` | cells and a search head per stream, K and V tensors per layer | `clear`, `seq_*`, `find_slot`, `prepare`, `apply_ubatch`, `update`, masks, save and restore |
| EndurKV additions | same file | none of their own | `endurkv_rm_cells`, `endurkv_compact_seq`, `endurkv_reclaim_tail`, `endurkv_keydiff_scores` |
| decode | `llama.cpp/src/llama-context.cpp`, `llama-batch.cpp` | the batch, its ubatches, a retry flag | `decode`, `process_ubatch`, `memory_update`, batch positions and checks |
| window pair | `llama.cpp/src/llama-kv-cache-iswa.cpp` | a full cache and a window cache | every operation on both |
| side node | `llama.cpp/src/llama-graph.cpp` | a global window size | recomputes attention rows for scoring |
| harness | `entropy_probe/eviction_bench.cpp` | kept positions, anchors, K, eviction counters | prefill, policy, eviction, compaction or context swap, decode with re-eviction |
| queue runner and puller | `scripts/android/phone_queue_runner.sh`, `cool_gate.sh`, `pull_phone_queue.sh` | done markers, sampler, charging switch, wake lock; files on the host | run a list of cells, skip the done ones, restart; copy the results |
| campaign | `scripts/android/run_natural_bonsai_rest2.sh`, `adb_resilient.sh` | results on the host, scripts and flags on the phone | per cell: kill benches that are left over, start the watchdog, push and start two benches, wait, pull |
| supervisor | `scripts/android/supervise_campaign.sh` | lock file, child pid, count of cells | start again when the campaign ends early or stalls |
| watchdog | `scripts/android/preempt_throttle_watchdog_v2.sh` | last caps written, cached battery temperature | sample, cap both clusters, release |
| scheduler | `scripts/android/ukv_sched.sh` | cost table, lever bias, list of bad backends | pick a plan, run it, learn, nudge the lever |

A client calls the memory operations between two decodes.  They change the
metadata at once, but never the tensors, except compaction, which moves rows.  A
decode first rotates keys whose positions were shifted (K-shift), then looks for
cells for the whole batch on the real metadata, ubatch by ubatch, undoes that,
and then applies and computes one ubatch after the other, each with a mask that
says which cells its tokens attend to.  A client may also save the cells of a
sequence, and load them into this or another context.  The harness is such a
client; the scripts start it on the phone, one cell of a campaign after the
other, and bring home what it writes.

What is hard to get right there, and to test:

* three views of the same thing (positions and sequences in the cells, the
  indices over them, rows of tensors rotated for a position) that are changed at
  different times by different code;
* trial and rollback on shared state (`prepare`), and a plan used after the
  state it was made for is gone;
* in-place movement of rows with no second buffer;
* failures in the middle: of the K-shift, of slot search, of one ubatch;
* cells shared by several sequences;
* cells reused because a sliding window hides their token;
* memory given back by address, next to rows in use;
* calls over a link that drops, made again although they were carried out;
* restarts, orphaned processes and overlapping runners in the scripts.

`PROJECT.json` lists each of these at its line under `hazards`.

## Modules

| module | what it is | how it corresponds to the code |
|---|---|---|
| `KVCells` | the metadata of one stream, as a record and operators on it | one operator per method; operators take the set of cells the caller's loop visits |
| `KVCompact` | `endurkv_compact_seq` in detail | the scan by cell, each run of each layer, the metadata update; `pc` is the place in the routine |
| `KVReclaim` | `endurkv_reclaim_tail`, extends `KVCompact` | the call that follows a compaction: one step per run of dead rows, released or refused |
| `KQMask` | the attention mask | `get_n_kv`, `is_masked_swa`, and the row of a token, copied from an earlier row or computed |
| `LogicalKV` | what the cache promises: a set of entries `[tok, pos, seqs]` | one action per function of `llama.h`; no cells, slots, heads or shifts |
| `KVCache` | the cache with decode as steps, extends `KQMask` | below |
| `KVState` | saving and loading, extends `KVCache` | one action per outcome of a call: read, refused, cut short |
| `BenchDecode` | the cache as the harness drives it | below |
| `PhoneQueue` | queue runner, its children, the puller, and what the world does to them | one action per branch of the runner's loop; kills, reboots and a full disk are actions of the world |
| `Campaign` | campaign, supervisor, watchdog and benches over the link | one action per adb call, with the outcomes of `adb_safe_shell` |
| `*_proofs` | theorems | below |
| `MC*` | small constants for TLC | |

`KVCache` is composed of `KVCells` and `KQMask` and implements `LogicalKV`;
`KVState` adds its calls to those of `KVCache`, so that a state is loaded into
any cache decodes and removals can leave.

**`KVCells`** keeps `seqPos` as a count per position, like the `std::map` of the
code (a position is present when its count is not 0), and updates it by the same
decrements and increments; `IndexConsistent` says what these should amount to.
Loops over cells whose iterations are independent are one set-valued operator.
Positions are bounded by `MaxPos`; the code's are 32 bits wide.

**`KVCompact`** names a row by the cell it was in when the routine began, so that
`data[l][i] = c` says that cell `i` of layer `l` holds what `c` held.  K and V
rows, and the V columns of the transposed layout, move by the same runs and are
one row here.

**`KVReclaim`** has addresses: a tensor is a base, a number of bytes per cell, and
one run (K, V as it is) or one run per embedding dimension (V transposed); a run
of dead rows is rounded inward to pages and `zeroed` is what `madvise` took.
Tensors on a device are passed over.  The page size is any integer in the model.

**`KQMask`**: a ubatch's first token of a sequence has its row filled cell by cell,
the others copy that row and redo the cells within `NSwa + Slack` (32 in the code)
of the ubatch's smallest position.  ALiBi slopes and the two-dimensional order of
M-RoPE are left out.  `NPad` is `max(n_pad, 256)` in the code.

In **`KVCache`**, `cells` and `head` are the metadata; `kdata[i]` is the token whose
key cell `i` stores and the position that key is rotated for.  `pc` is the place
in `decode`:

    idle -> prepare -> restore -> process -> idle
                          |  ^
                          +--+   retry after an update, or give up

`DecodeBegin` is everything up to `init_batch`: the batch's positions, its
checks, the pending K-shift.  `BatchPos` gives a token the position after the last
token before it with the same first sequence, or after what the cache has; the
checks on subsets of sequences and on positions that go down are not in
`BatchOK`, because the code never gets to refuse anything there.  `PlaceUbatch` is one iteration of `prepare`,
`OutOfCells` and `PlacedAll` its two ends, `RestoreOne` one iteration of the
rollback.  `RetryPrepare`, `GiveUp` and `Prepared` are the branches of decode on
the result.  `ProcessUbatch` applies and computes one ubatch; `FailUbatch` is
the same with a failed or aborted graph and decode's clean-up.  The memory
operations are one action each, possible while no decode runs, as the library
is not re-entrant.  `EndurkvCompactSeq` is `KVCompact` as one step.

Slot search is stated by what it returns: the first n usable cells in the order
of a scan from the head (or from 0 when the head is far past the cells in use).
A cell is usable when empty, or when it has one sequence and that sequence's
window no longer reaches it.

Token contents are numbers.  `NewToks` picks numbers no cell stores; the data of
empty cells are scrubbed, because nothing reads them, so that equal caches are
equal states.

**`KVState`** gives a token `NEmbd` values, kept cell by cell or transposed
(`v_trans`: without flash attention).  `saved` is the state the client holds: the
cells in ascending order, a key row each, and the values in the layout of the
context that saved them.  `Loaded` puts every element where the code would; a
cell whose values are not all those of its key's token holds nothing usable.
`ReadSeq` and `ReadAll` are calls that succeed, `RefuseSeq` and `RefuseAll` those
that `state_read` rejects and cleans up after, `CutSeq` and `CutAll` those whose
reader throws because the state ends early.  `RoundTrip` is the harness's swap of
contexts as one step: save, new context (flash attention or not, as `AUTO`
decides), load, and the new context takes over; when it fails the old one stays,
which is a stutter.  The state is dropped after its last read, so that equal
caches are equal states.  File headers, and sequence ids out of range, are left
out.

**`BenchDecode`** is one run of `eviction_bench`: `EvictPrompt` (the policy after
prefill), `StayPut`, `CompactInPlace` or `SwapContext` and `WarmUp` (how the
survivors are moved), then `DecodeToken` and one branch of `Evict` per step.  A
configuration (`mode`) is a policy with its preset's flags, how survivors move,
whether keys are quantized or the prompt has an image, and whether the budget
follows the heat; the run takes them all.  The model has one sequence and takes
the cache's operations whole (one token, one slot; removal lowers the head; a
shift resets it), since `KVCache` has their steps.  What matters here is that the
harness uses three coordinates: scores are by cell, removals and shifts by
position, budgets by count.  A policy that reads attention may keep any set of
`KeepSizes` indices of the row, empty cells included, because its recent window
is the end of the padded row.  `PollHeat` is the thermal K: every `PollSteps`
steps the temperature gives one of four tiers and the tier a K; without the
ratchet any tier may come of it (a sensor that cannot be read counts as cool), so
K may rise while the phone is hot, and K jumps from nominal to the coolest tier's
at the first poll.  Not in the model: a failed warm-up or decode (the loop ends),
the window over quantized keys, and the round-trip of a prompt with images, whose
warm-up takes its token from the text alone.

**`PhoneQueue`**: `files` is the output directory on the phone, a marker standing for
a cell's marker and its results; `procs` are the benches and samplers, each with
the runner that started it.  A kill ends the runner and leaves its children; a
reboot ends all processes and leaves the files.  The puller's `adb pull` lists
first and copies then, and may be cut off with any part copied.  A bench that
fails or times out gets its marker like one that succeeds, because the code does
not look at how it ended.

**`Campaign`**: `Shell` is `adb_safe_shell`: a call is carried out and reported, or
carried out and lost, or lost; it is made again up to `RetryLimit` times, then
the campaign goes on without it (`gaveUp`).  Scripts, flags and results on the
phone bear the campaign that pushed them, since every start has a directory of
its own.  Push and pull are one try each, as in the code, and their failure goes
unnoticed.  A campaign that is killed frees its place for the next, so that
`MaxCampaigns` bounds only how many can have left something behind.

`Natural` kills the benches and does nothing else.  The one string that
`platform_natural` gives to `su -c` (`run_natural_bonsai_rest2.sh:35`) begins with
`pkill -9 -f eviction_bench` and contains that pattern, so the shell that runs it
is killed with the benches; `touch $WD_STOP` and the reset of the clocks come
after it and are never reached, and `adb_safe_shell` returns the code without
trying again.  `supervise_campaign.sh:48` ends in the same way, but has nothing
left to do that matters here.  `lost` is a history variable: whether any campaign
has ever gone on without a call.  No guard reads it.

### Inputs, bounds and switches

`Batches`, `Ranges`, `Deltas`, `Divisors` and `Calls` say what the client does.
Switches admit what a run asks about: `ShiftFails` and `ComputeFails` let
the K-shift and the ubatch graphs fail; `CpRepeats` lets the client copy a range
to a sequence that has part of it; `CompactPending` lets it compact, and
`SavePending` save, while a shift is pending; `CutShort` lets a state end early.
`CpRepeats`, `CompactPending` and `SavePending` are FALSE in the passing runs,
because the code does not handle them: `CpRepeats` breaks `IndexInv` (the comment
on `llama_kv_cells::seq_add` forbids adding a sequence twice; `seq_cp` does not
check), a compaction or a save with a shift pending loses the shift.  Two more
combinations are kept apart: with `ShiftFails`, `RotatedAtCompute` fails, as
decode goes on after a K-shift that failed; with `ComputeFails` and tokens of two
sequences, `RopeRecoverable` fails, as the clean-up looks at the first sequence
of a token only.  What the passing runs show is for clients that avoid these.

| bound | in | why it is enough |
|---|---|---|
| `NCells` 2 to 4, `MaxPos` 2 to 6 | `KVCache` runs | three cells have room for a hole, a cell out of order and a wrap of the search at once; the window run needs positions up to 4 so that cells are reused twice with a window of 2 |
| `NCells` 5, `Chunk` 2 | `compact` | runs longer than a chunk, equal to it, and split by gaps, in every combination |
| `PageSize` 4, three tensors at odd addresses | `compact` | dead runs shorter than a page, with and without a whole page, two runs that share one, and a neighbour on a device |
| `NPad` 2, `Slack` 0 | mask | rows longer than the cells in use; the smallest slack makes reuse of rows hardest |
| `NEmbd` 2, `MaxReads` 2 | `state` | two values per token tell the layouts apart; one state is read twice, into a cache the first read has changed |
| prompt 6, image of 4 tokens at 2 positions, K = 3, one sink, recent budget 2, five steps | `bench` | every bounded policy evicts at least twice, and the first time across the holes that prefill left |
| `Pad` 4 (256) | `bench` | rows with empty cells inside and beyond the used part |
| `PollSteps` 2, K 4/3/2 by tier | `bench` | two polls, up and down, between evictions |
| four cells, three runs, one kill, reboot, full disk, two pullers | `phone_queue` | one cell of each kind of treatment; a restart after each fault and one more |
| two cells, three mishaps (calls lost or carried out and lost, copies that fail, cells that stall, reboots), three campaigns | `campaign` | a call that is lost, or carried out and lost, in each place, and both in one call (`RetryLimit` 2, so that giving up is reached) |

## Runs

| run | question | distinct states | result |
|---|---|---|---|
| `compact` | are rows and metadata where they belong after compaction, is nothing touched when it declines, does the reclaim after it release whole dead pages, all of them and nothing else, do both end? | 204 000 | holds, from every way two sequences can share five cells, in and against position order |
| `api` | do decodes, mixed with the memory operations in any order, keep the keys rotated for their positions, and implement `LogicalKV`? | 34 000 | holds |
| `operations` | with K-shifts and ubatches that fail: are the indices exact, does each memory operation do what `llama.h` says of it and nothing else, does a failed ubatch leave the cache as it was, does decode return? | 73 000 | holds |
| `evict` | with eviction by cell and compaction: does `prepare` leave no trace, is its plan valid when used, does a compacted cache stay dense, does compaction keep every entry? | 25 000 | holds |
| `swa` | with a window and cell reuse: no holes, every token attends to exactly its window, also with reused mask rows, and the refinement? | 92 000 | holds |
| `prepare_swa` | does `prepare` restore the cells with a window? | | violated |
| `state` | is what is loaded what was saved, in both layouts, are other sequences left alone when a state is read, refused or cut short, does the swap of contexts compact without loss? | 18 000 | holds |
| `bench` | in every configuration of the harness: is the text in order, is what a policy promises to keep kept, are the bounded policies bounded, is the reported number of evictions right? | 1 027 000 | holds |
| `bench_step` | does per-step eviction remove only what no layer keeps? | | violated |
| `bench_keydiff` | does KeyDiff hold the cache in [N, N + B]? | | violated |
| `phone_queue` | over kills, reboots, restarts and a flaky link: is every cell measured once and alone, does the runner end and give the phone back, do the results reach the host? | 187 000 | holds |
| `campaign` | over lost and repeated calls, stalls, reboots and a supervisor that dies: one campaign at a time, timed benches alone, baselines without watchdog or cap as long as no call was given up, and does it end with no watchdog or cap left? | 72 000 | holds |

The three violated runs are disagreements between the code and its own comments;
`findings` in `PROJECT.json` quotes the lines.  The two of the harness concern
baselines it compares with (per-step score policies, KeyDiff), and have one
cause: cell indices taken for positions after an eviction.

Four more disagreements were met that have no run of their own:

* `pos_div` accumulates the shift with the wrong sign (`llama-kv-cells.h:451`,
  against the comment at 469-473): with `Divisors = {2}` in `MCKVCacheApi.cfg`
  `RopeRecoverable` fails.  The harness never divides positions.
* `endurkv_compact_seq` moves cells whose shift is pending, and the shift stays
  with the cell (`llama-kv-cache.cpp:484`, assertion `llama-kv-cells.h:153`, which a
  release build skips): with `CompactPending = TRUE` `RopeRecoverable` fails.
* `phone_queue_runner.sh` never removes its `STOPPED` flag, so after a stop and a
  restart the puller ends at its first pull (`pull_phone_queue.sh:18`) and has to
  be started again for each; `ResultsArrive` is stated for queues that never had
  to stop.
* `platform_natural` neither stops a watchdog nor lifts a cap, as said under
  `Natural` above, against its comment "Undo any leftover clock cap by restoring
  scaling_max to the vendor ceiling" (`run_natural_bonsai_rest2.sh:33`) and
  "Baselines run without a watchdog" (`:4`).  It shows when `stop_wd` was given up
  for a cell that is then pulled, and the campaign is killed for a stall before
  its end: the next one skips the cell and measures a baseline with the watchdog
  of the last still on.  `BaselineClean` in `Campaign` states the comment; added
  to the invariants of `MCCampaign.cfg` it fails.

### What the properties say

Compaction and reclaim:

* `UnreadIntact`, `RowsFollowCells`: no row is overwritten before it is read, and
  every survivor's row ends at its rank in every layer.
* `MetadataExact`: the metadata of the survivors are at their ranks with exact
  indices; a compaction that declines changes nothing.
* `OnlyDeadReleased`, `AllDeadReleased`: the two sides of the page arithmetic; the
  second includes the number of bytes reported.  The harness calls the routine
  again later and adds what it reports: pages released twice are counted twice
  there, which the routine cannot know.  `Reclaims`: both end.

Cache and mask:

* `IndexInv`: `used` and `seq_pos` say what the cells hold.  The position of the
  next token comes from `seq_pos`.
* `RopeInv`: outside `prepare`, rotation of the stored key + pending shift =
  position, for each live cell, and a pending shift is announced by `has_shift`;
  while ubatches are computed, rotation = position.
* `RestoreExact`, `PlanStillValid`: the two halves of what `prepare` relies on.
  With a window `RestoreExact` fails (`prepare_swa`); the run that shows it has
  batches of two ubatches over the cells of a window cache of the size
  `llama_kv_cache_iswa` gives it, after the end of the sequence was removed and
  decoded again, so that positions are not in cell order.  With two sequences the
  hole lasts from `prepare` to `process`; in a cache smaller than that
  `PlanStillValid` fails by the same cause.
* `PositionsContiguous`: the invariant the comment in `apply_ubatch` names.
* `MaskExact`, `SeesItsWindow`: a reused mask row is the row computed in full; and
  the row of a token has each position of its window once, which also depends on
  which cells were reused before and on what the client removed: the one of this
  run removes tails from position 1 on or whole sequences (see `WholeEnds` below).
* `DenseStaysDense`: decoding onto a dense prefix extends it.
* `AbortLeavesNoTrace`: a failed ubatch does not change the logical content.
* `DecodeReturns`: decode does not loop.
* `OperationsAsPromised`, `CompactKeepsEntries`: the refinement lets a step be
  any operation of the abstract cache; these say that each operation is the one
  its name promises, and that compaction changes no entry.
* `ImplementsLogicalKV`: refinement.  The mapping reads the cells as they were
  when `prepare` began while it is trying things out, and as they are otherwise;
  tokens come from `kdata`, so moving metadata without rows is not a refinement.
  A batch may cost a sequence only tokens its window hides from the next query;
  `prepare` may do so too, which is why the window run refines `LogicalKV`
  although the rollback is not exact.

Saving and loading:

* `RestoredExact`: what a completed load leaves is the positions, keys and values
  saved.  A state without cells is the exception: the code returns before it looks
  at the sequence, which keeps what it had, although `llama.h:903-906` speaks of
  copying.
* `OthersUntouched`: other sequences keep what they hold, also in cells they
  shared.  A state cut short throws past the clean-up of `state_read`; the call
  reports 0, and cells may remain whose keys were never read.  That is in the
  model; nothing says it may not be so, and `StateInv` shows the indices exact
  even then.
* `RoundTripCompacts`: the harness's swap loses nothing and leaves a dense prefix.

Harness:

* `PositionsFollowTokens`: no token twice, positions in the order of the text.
* `ProtectedKept`: anchors (tiered, frozen), sinks and the recent part of the
  answer, as each policy promises, also when heat changes the budget.
* `BudgetKept`: the bounded policies stay bounded, at once also when heat has cut
  the budget, and the StreamingLLM window has the positions of its slots.  For a
  tiered cache the bound counts the positions prefill left, holes included,
  because the code locates its anchors by their largest position.
* `EvictedExact`: the reported number of evictions, where bands have no holes;
  for the recency policy, and with quantized keys, the code reports the width of
  a band whose positions may be empty.
* `KeptSurvive`, `ByCellKeptSurvive`: what was selected by score is what stays.

Scripts:

* `DoneIsFinal`: a cell with its marker is not run again, and gets the marker
  after its bench is over.
* `QueueInv`: one cell at a time with its own sampler, awake, charging off.  After
  a kill an orphaned bench may overlap the cells of the next runner: the code does
  nothing about it, and the property says no more than that it takes a kill.
* `HostHasAll`, `ResultsArrive`: the flag that ends the puller never arrives before
  the rest; it arrives.
* `QueueEnds`: the runner ends and gives charging and the wake lock back.
* `OneCampaign`: the lock of the supervisor is inherited by the campaign, so a
  second supervisor cannot start while an orphaned campaign runs.  The other side
  of it: if the supervisor dies and the orphan is stuck, nobody can restart it;
  `CampaignEnds` holds as long as there is a supervisor.
* `MeasuredAlone`: while a timed bench is waited for, only benches of the script
  that was started run, and a baseline has no watchdog and no cap as long as no
  call was given up, by this campaign or one before it.  The latter is due to no
  single step: nothing that is done for a baseline stops a watchdog that was left
  on.  But a campaign that is killed before `stop_wd` has not pulled the cell; the
  next measures it again, and calls `stop_wd` before it comes to a baseline
  (`BaselineClean`, without the exemption, fails; see above).  A start that
  is made again may run the script twice; a push that failed leaves the script of
  another cell, whose flag is another, so the campaign waits until it stalls.
* `PhoneFreed`: a finished campaign leaves no watchdog and no cap.
  A campaign that has given up a call is exempted from this, and from what
  `MeasuredAlone` says of benches: the code goes on without.
  `DONE` says that the campaign went through its list, not that every result is on
  the host: a pull that fails is not noticed.

### Fairness

`FairReclaimSpec` is weak fairness of the routine; `FairSpec` of `KVCache` weak
fairness of `DecodeStep`: both run on the caller's thread and block on nothing
but the backend, whose failures are steps of the model.  No fairness is put on
the client.  In `PhoneQueue`, scripts run until they exit (the runner's step is
not taken when it is killed), benches end (all but the gpu cells have a timeout;
for those it is an assumption), and the link is up long enough again and again
for a pull to complete (strong fairness of `Copied`; no script can do without).
In `Campaign`, the scripts go on, benches end, a watchdog polls its stop file, and
a supervisor notices a campaign that waits for a flag nobody will touch; mishaps
are bounded by `MaxMishaps`, as with an unbounded number no campaign ends.  Nobody
is obliged to start a supervisor.

`CHECK_DEADLOCK FALSE` appears where the program ends: the routine of
`KVReclaim` returns, the harness, the queue and the campaign end.

Definitions marked as slips are deliberately wrong variants of the definition
that follows them.  They are not used by any specification; putting one in the
place of its original must break the property `PROJECT.json` names, which shows
that the run can tell the difference.

## Proofs

What follows is proved for every value of the constants, from the assumptions on
constants that the modules state and TLC evaluates.  A theorem that needs more
says so in its `ASSUME`; each such assumption is one of the limits listed under
"Inputs, bounds and switches" or described here.

| module | theorems | beyond the modules' assumptions |
|---|---|---|
| `KVReclaim_proofs` | `InductiveInvariant`, `TypeCorrect`, `UnreadNeverOverwritten`, `RowsPreserved`, `LiveNeverReleased`, `TailReclaimed` | |
| | `MetadataFollows` | the shifts were applied before, as the code asserts (`llama-kv-cells.h:153`) |
| `KVCache_proofs` | `IndexAlwaysExact`, `MaskAlwaysExact` | `CpRepeats = FALSE` |
| | `RowReuseExact` (about the operators of `KQMask`) | exact indices |
| | `TrialLeavesNoTrace`, `PrefixStaysDense` | and no window: with one `prepare` leaves a trace (`prepare_swa`) |
| `LogicalKV_proofs` | `OperationsKeepPromises`, `CompactionChangesNothing` | `CpRepeats = FALSE` |
| | `PlanStaysValid` | and no window, or `OneTrial` |
| | `FailureLeavesNoTrace` | and no window, one sequence per token |
| | `CacheImplementsLogicalKV` | and K-shifts that succeed, `SingleTokens`, `ForksOnly`, and no window or `OneTrial` |
| | `NoHoles` | `WindowAssumption` |
| | `WindowAlwaysSeen` | and `WholeEnds` |
| | `KeysFollowPositions` | `KeysAssumption` |
| `KVState_proofs` | `StatesStayExact`, `StatesRestore`, `RoundTripsCompact` | `CpRepeats = FALSE` |
| | `StatesSpareOthers` | and no window |
| `BenchDecode_proofs` | `BenchInvariant`, `BenchTypes`, `TextStaysInOrder`, `ProtectedStays`, `BudgetsAreKept`, `EvictionsCounted`, `SelectionsSurvive` | |
| `PhoneQueue_proofs` | `MeasurementsClean`, `PullComplete`, `MarkersFinal` | |
| `Campaign_proofs` | `CampaignTypes`, `NeverTwoCampaigns` | |
| | `TimedBenchAlone` | `WatchedFirst`: the cells with a watchdog come first, as in the script |
| `KVIndex_proofs` | lemmas on the operators of `KVCells` | |

**Compaction.**  That no unread row is overwritten does not follow from the step
before.  `IInv` adds that the list of sources is ascending with `src[k] >= k - 1`,
so that a destination never lies past its source (`SrcInv`), that the layers
before the current one are finished (`LayerInv`), and what is known at each place
of the routine (`ControlInv`).  `MetaInv` says in terms of the list of sources
what `MetadataExact` says in terms of ranks.  `LiveNeverReleased` follows from the
rounding alone, once it is known that the cells do not change while runs are
released.  For `TailReclaimed`, `CountInv` matches the bytes counted so far with the
set of addresses released; each is counted once because the runs of the tensors
do not overlap, which the constants of `KVReclaim` assume (`Extent`).

**Indices.**  `IndexInv` is not inductive by itself: the rollback puts positions and
sequences of a cell back, and leaves its shift.  A cell that was empty must come
back with no shift, or the index says of it what it does not hold.  `UndoInv` says
so of every copy on the stack; it is kept because placing a ubatch gives no cell a
shift.  The rest of `IInv` (`UbsInv`, `StackInv`, `SlotsInv`) matches ubatches, copies
and slots, and holds because `Split` makes no empty ubatch.  The lemmas of
`KVIndex_proofs` show of each operator that its increments give the count taken
anew, by splitting the cells into those that change and the others.

**Mask.**  The cells of a copied row that are not redone are so far behind every
position of the ubatch that both rows say the same of them (`RowReuseExact`); in a
reachable state the indices are exact, so `MaskAlwaysExact` follows.

**Trial and rollback.**  Without a window a usable cell is an empty one, so what
`prepare` takes was vacant.  `TrialInv` says it of the stack: cells not taken are
those of `entry`, cells taken were vacant, and every copy is that of a vacant cell.
`PlanInv` says that the slots of a plan are vacant and disjoint, which is what
makes the plan usable after the rollback and after each ubatch applied.
`DenseInv` adds that each slot goes on where the ones before it end, provided
they started from a dense prefix (`PlanDense`).

Over a window a usable cell may hold an old token, and applying a ubatch removes
what its sequences have below the positions taken, in cells of which the
rollback has no copy.  For batches of one ubatch (`OneTrial`) `WindowTrial` says
what is left: each cell taken is as it was, and any other has lost at most what
the ubatch costs its sequence when it is applied (`Rest`).  Because the last
position of a sequence does not change by that, the plan can still be used
(`RestCanUse`).  With several ubatches it can change (`prepare_swa`).

**Keys.**  "Rotation + shift = position" must hold of the cells that count, and the
rollback does not put a cell's shift back.  Two strengthenings make this
harmless, over any window and for any number of ubatches.  `ShiftInv`: no shift is
pending while a batch is decoded, because `decode` begins by applying them all.
`BackInv`: what the first ubatch to take a cell found in it, and any cell none has
taken, is what was there when `prepare` began, or nothing; so what the rollback
leaves is either empty or has the key and the position it had.  `KeysAssumption`
leaves out what breaks the property: repeated copies, compaction with a shift
pending, a K-shift that fails, a division, and a failed ubatch whose tokens have
several sequences.

**Promises and refinement.**  `OwnInv` says that each live cell has a sequence: a cell
without one would be taken for the cache and not exist for its caller.  With it
each operation on the cells is the one on the entries.  A failed ubatch is
cleaned up by removing a sequence from a position on, which spares older tokens
because `AheadInv` holds: what is left of a batch lies above everything the cache
has of its sequences, and later ubatches above earlier ones.  `FailureLeavesNoTrace`
gets the order within the batch from batches whose tokens have one sequence each;
the refinement gets it from `ForksOnly`: a later token of a batch has
no sequence that the earlier tokens it meets lack.  Without that a batch such
as {a}, {a}, {b, a} in an empty cache gives the sequence `a` the positions 0, 1, 0,
and the checks let it pass; no run has one, and the properties do not speak of it.
`TokInv` adds that no two cells store the same token.  K-shifts that succeed are
assumed because a torn one destroys keys, and with them the tokens the mapping
reads.

Over a window the rollback is itself a step that may change entries, and applying
the ubatch another.  Each removes from a sequence only what is masked for its next
token, in the cells as they were when `prepare` began (`LostMasked`), and what is
decoded lies behind all of these (`FrontInv`); so the two are a loss, and an append
with a loss, that `LogicalKV` allows.  With several ubatches this fails: the
second trial goes by a sequence that the first has lengthened, takes cells that are
visible to the first, and the rollback does not bring everything back
(`prepare_swa`).

**Windows.**  A sequence has all positions up to its last, except below some position
(`Gapless`), and what it lacks is masked for every token to come (`Covers`,
`Excused`).  To keep this one needs to know what a ubatch does to a sequence: it
adds what continues it (`InLine`), and removes everything at or below some positions
that were masked (`Grown`).  `PlaceInv` says so of the cells a decode goes by
(`Base`), `WInv` adds the indices and what is known of the trial.  `WindowAssumption`
is a client that forks sequences in a batch and never joins them, removes ends of
them (`EndsOnly`), and may clear, keep one sequence and compact.  The other calls
really make holes or double positions: `rm_cells` and a removal in the middle
remove what is visible, a shift or division of a range moves it onto or away from
its neighbours, a partial copy begins or goes on anywhere.  Batches of one
ubatch are needed over a window for the reason above.  `WindowAlwaysSeen` needs
more of the removals, `WholeEnds`: over a window an end that is cut off takes the
window of the next token back to positions whose cells were used again before.
The cache does not tell: `seq_rm` returns true, although `llama.h:767` says "Returns
false if a partial sequence cannot be removed".  The client of the run `swa`
satisfies all of these.

**Saving and loading.**  `SInv` adds to `IInv` that a state the client holds is one that
some context wrote; of states that were not written in the run that is
`ForeignAssumption`.  The two layouts of the values are matched by arithmetic on
`q * m + r`, for any number of cells and values per token.

**Harness.**  The properties speak of what the cells hold and seldom of where, so the
proof works with `Held`, the set of cached entries: first each cache operation is
shown to do to `Held` what it should, compaction nothing.  The strengthening `BInv`
says what the harness relies on and nowhere checks: sinks never move, so that
their positions tell them (`SinkInv`); anchors lie below `nAnchored`, where bands
begin (`AnchorInv`); the last n tokens of the answer have the last n positions
(`RecentInv`); a tiered cache has no holes behind its anchors (`BandInv`); the
StreamingLLM window is the sinks and a window of exactly known length, with at
most the hole of prefill, which the first slide closes (`WindowInv`, `CountInv`).

**Scripts.**  `QInv` says of every process whose runner it is and where that runner
stands, so that what still runs can be told from what was left by a kill.  `CInv`
says the same of scripts, flags and benches, which bear the campaign that pushed
them; the supervisor that has the lock knows the campaign that runs (`OneInv`).
That a baseline has no watchdog needs `WInv`: one that has not been told to stop
belongs to a cell that is not on the host yet and that no campaign has passed
(`RerunInv`).  `Skip` passes only what is on the host; `Pull` passes the cell of a
watchdog only when the stop file is there, and a baseline only when, by
`WatchedFirst`, there is no such cell ahead; a new campaign begins at the first.
So when the timed bench of a baseline starts, every watchdog has been told to
stop, and there was time for it to end.

Only model-checked:

* liveness (`Reclaims`, `DecodeReturns`, `QueueEnds`, `ResultsArrive`, `CampaignEnds`,
  `PhoneFreed`): the prover has no rules for fairness;
* the three violations.

## Plan

Everything listed under Modules is modelled and checked, and every safety
property that a passing run checks is stated by a theorem.  What the theorems
leave to TLC is liveness.  Open is what can be said over a window of batches of
several ubatches: there `prepare` drops positions that are visible (`prepare_swa`),
and what comes of it depends on the size of the cache.

To model, if the code grows that way: several streams (`kv_unified` off), with
`seq_cp` across streams and the rollback of heads by stream id; explicit batch
positions and `split_equal`, which only those need; the scheduler `ukv_sched.sh`.

## Not modelled

* The tensors, quantisation, graphs and backends of llama.cpp, its model loaders,
  tokenizers, samplers, server and tools: the bulk of the repository, vendored and
  without protocol state of EndurKV's own.  What EndurKV relies on there is the KV
  cache, the batch and the decode loop, which are modelled.
* Several streams: no program of EndurKV turns `kv_unified` off with more than one
  sequence.
* The pair of caches of a sliding-window model: two caches that get the same
  calls; each is an instance of `KVCache` (`api`, `swa`).
* Explicit positions in a batch: the harness uses them for images only, which
  `BenchDecode` takes as given.
* `kq_evict`'s recomputed attention rows and all floating-point scores: any order
  of the cells stands for them.
* In the harness: perplexity mode, the optional second pass of prefill eviction,
  and the `AdaptiveKController` class, whose K only the log and the frozen
  selection read.
* The scheduler (a loop over a plan with numeric feedback and nothing concurrent),
  the offline RL simulations, the other probes, evaluation and plotting: batch
  programs without protocol state.
* The temperature samplers of a campaign and what kills them.
* Assumed of the scripts: a campaign killed with a call in flight has had it carried
  out or not; the sleep of 2 s before a bench outlasts the watchdog's poll of
  0.5 s; two queue runners are not started at once (nothing in the script prevents
  it).  The call at the end of the list resets the clock of cores 6 and 7 only
  (`Uncap`); what else is capped is the watchdog's to undo.  The vendor's thermal service is not known and not modelled.
