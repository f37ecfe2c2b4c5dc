----------------------------- MODULE KVReclaim -----------------------------
(***************************************************************************)
(* endurkv_reclaim_tail: the pages behind the last live cell are given     *)
(* back to the operating system, which lets them read as zero.  The call   *)
(* follows a compaction (KVCompact), also one that declined.               *)
(*                                                                         *)
(* Memory is a set of byte addresses.  A tensor has, in each of its runs,  *)
(* el bytes for every cell: one run of whole rows for K and for V as it    *)
(* is, one run of single elements per embedding dimension for V transposed.*)
(***************************************************************************)
EXTENDS KVCompact

CONSTANTS
    PageSize,       \* what sysconf says; not positive when it does not know
    Tensors         \* the K and V tensors of all layers: [base, el, runs, host]

Extent(t) == t.base .. t.base + t.runs * NCells * t.el - 1

(* Tensors in host memory are allocated apart. *)
ASSUME ReclaimAssumption ==
    /\ PageSize \in Int
    /\ Tensors \subseteq [base : Nat, el : Nat \ {0}, runs : Nat \ {0}, host : BOOLEAN]
    /\ \A t, u \in Tensors : t # u /\ t.host /\ u.host => Extent(t) \cap Extent(u) = {}

VARIABLES
    rpc,        \* "idle", "release" or "returned"
    todo,       \* the dead runs not yet released
    refused,    \* those madvise failed for
    zeroed,     \* the addresses released
    freed       \* the number of bytes reported

rvars   == <<rpc, todo, refused, zeroed, freed>>
allvars == <<vars, rvars>>

-----------------------------------------------------------------------------
RunStart(t, e) == t.base + e * NCells * t.el

(* Address x belongs to the row of a cell. *)
InRow(x, t, c) ==
    \E e \in 0 .. t.runs - 1 : /\ RunStart(t, e) + c * t.el <= x
                               /\ x < RunStart(t, e) + c * t.el + t.el

(* One past the highest live cell. *)
LiveEnd(c) ==
    CHOOSE u \in 0 .. NCells : /\ \A m \in Live(c) : m < u
                               /\ u = 0 \/ u - 1 \in Live(c)

(* What lies behind it in each run of each tensor in host memory. *)
DeadRuns(c) ==
    UNION {{[lo |-> RunStart(t, e) + LiveEnd(c) * t.el,
             hi |-> RunStart(t, e) + NCells * t.el] : e \in 0 .. t.runs - 1} :
           t \in {u \in Tensors : u.host}}

RoundDown(x) == (x \div PageSize) * PageSize

(* A slip: an address that begins a page goes up as well. *)
RoundUpPast(x) == RoundDown(x + PageSize)

RoundUp(x) == RoundDown(x + PageSize - 1)

(* A slip: every page the run reaches into. *)
PagesTouched(r) == RoundDown(r.lo) .. RoundUp(r.hi) - 1

(* The whole pages of a run, as addresses. *)
WholePages(r) == RoundUp(r.lo) .. RoundDown(r.hi) - 1

-----------------------------------------------------------------------------
ReclaimInit ==
    /\ Init
    /\ rpc = "idle" /\ todo = {} /\ refused = {} /\ zeroed = {} /\ freed = 0

Compacting == Next /\ UNCHANGED rvars

(* Nothing is dead, or the page size is not known. *)
NothingToReclaim ==
    /\ pc = "done" /\ rpc = "idle"
    /\ LiveEnd(cells) >= NCells \/ PageSize <= 0
    /\ rpc' = "returned"
    /\ UNCHANGED <<vars, todo, refused, zeroed, freed>>

Reclaim ==
    /\ pc = "done" /\ rpc = "idle"
    /\ LiveEnd(cells) < NCells /\ PageSize > 0
    /\ rpc' = "release" /\ todo' = DeadRuns(cells)
    /\ UNCHANGED <<vars, refused, zeroed, freed>>

(* The pages of one run are released ... *)
Release ==
    /\ rpc = "release"
    /\ \E r \in todo :
         /\ todo' = todo \ {r}
         /\ zeroed' = zeroed \cup WholePages(r)
         /\ freed'  = freed + Cardinality(WholePages(r))
    /\ UNCHANGED <<vars, rpc, refused>>

(* ... or madvise fails, which is passed over. *)
Refuse ==
    /\ rpc = "release"
    /\ \E r \in todo : todo' = todo \ {r} /\ refused' = refused \cup {r}
    /\ UNCHANGED <<vars, rpc, zeroed, freed>>

Return ==
    /\ rpc = "release" /\ todo = {}
    /\ rpc' = "returned"
    /\ UNCHANGED <<vars, todo, refused, zeroed, freed>>

ReclaimNext == Compacting \/ NothingToReclaim \/ Reclaim \/ Release \/ Refuse \/ Return

ReclaimSpec == ReclaimInit /\ [][ReclaimNext]_allvars

FairReclaimSpec == ReclaimSpec /\ WF_allvars(ReclaimNext)

-----------------------------------------------------------------------------
(***************************************************************************)
(* "never touch a live cell", "never touch the next tensor": an address    *)
(* released is part of the row of a dead cell, in a tensor in host memory, *)
(* also when compaction declined and live cells are anywhere.              *)
(***************************************************************************)
OnlyDeadReleased ==
    \A x \in zeroed : \E t \in Tensors : \E c \in Cell \ Live(cells) :
        t.host /\ InRow(x, t, c)

(***************************************************************************)
(* "Returns the bytes released", no run counted twice.  Once it returns,   *)
(* no page is left whose rows are all behind the last live cell in one     *)
(* run, unless madvise refused it.                                         *)
(***************************************************************************)
AllDeadReleased ==
  /\ freed = Cardinality(zeroed)
  /\ rpc = "returned" /\ PageSize > 0 =>
      \A r \in DeadRuns(cells) \ refused : \A x \in r.lo .. r.hi - 1 :
        (RoundDown(x) >= r.lo /\ RoundDown(x) + PageSize <= r.hi) => x \in zeroed

(* Compaction and the reclaim after it come to an end. *)
Reclaims == <>(rpc = "returned")
=============================================================================
