----------------------------- MODULE LogicalKV -----------------------------
(***************************************************************************)
(* What the KV cache is to its callers: a set of entries, each the key and *)
(* value of one token at one position, shared by the sequences that        *)
(* contain it.  There are no cells, heads, slots or pending shifts here;   *)
(* everything the cache does with those (finding a slot, trying a batch    *)
(* out and putting the cells back, shifting the keys, compacting the       *)
(* buffer) must leave the entries as they are.                             *)
(***************************************************************************)
EXTENDS Integers

CONSTANTS
    Seqs,           \* sequence ids
    Pos,            \* positions
    Masked(_, _),   \* Masked(p0, p1): a query at p1 does not see a key at p0
    Bounds,         \* the limits of the ranges callers pass
    Deltas,         \* what they add to positions
    Divisors,       \* what they divide positions by
    Evicting        \* whether they evict by cell

VARIABLE entries    \* a set of records [tok, pos, seqs]

InRange(e, s, p0, p1) == s \in e.seqs /\ p0 <= e.pos /\ e.pos < p1

(* Entries no sequence contains do not exist. *)
Owned(E) == {e \in E : e.seqs # {}}

(* What is left of E when each entry in D loses the sequences S. *)
Without(E, D, S) ==
    Owned({IF e \in D THEN [e EXCEPT !.seqs = @ \ S] ELSE e : e \in E})

(* The last position of s; -1 when it has none. *)
LastPos(s) ==
    CHOOSE p \in Pos \cup {-1} :
        /\ p = -1 \/ \E e \in entries : s \in e.seqs /\ e.pos = p
        /\ \A e \in entries : s \in e.seqs => e.pos <= p

Init == entries = {}

-----------------------------------------------------------------------------
Clear == entries' = {}

SeqRm(s, p0, p1) ==
    entries' = Without(entries, {e \in entries : InRange(e, s, p0, p1)}, {s})

(* seq_id < 0: any sequence *)
SeqRmAny(p0, p1) ==
    entries' = {e \in entries : e.pos < p0 \/ e.pos >= p1}

SeqKeep(s) == entries' = Without(entries, entries, Seqs \ {s})

(* Eviction by cell may take any entries from the sequence. *)
Evict(s) ==
    Evicting /\ \E D \in SUBSET entries : entries' = Without(entries, D, {s})

SeqCp(s, t, p0, p1) ==
    entries' = {IF InRange(e, s, p0, p1) THEN [e EXCEPT !.seqs = @ \cup {t}]
                                         ELSE e : e \in entries}

(* A token moved below position 0 is gone. *)
SeqAdd(s, p0, p1, d) ==
    entries' = {e \in {IF InRange(f, s, p0, p1) THEN [f EXCEPT !.pos = @ + d]
                                                ELSE f : f \in entries} :
                e.pos >= 0}

SeqDiv(s, p0, p1, d) ==
    entries' = {IF InRange(e, s, p0, p1) THEN [e EXCEPT !.pos = @ \div d]
                                         ELSE e : e \in entries}

(***************************************************************************)
(* A batch adds new tokens behind the last position of each of their       *)
(* sequences.  It may cost a sequence entries that its sliding window      *)
(* already hides from the next query, and nothing else.                    *)
(***************************************************************************)
LostTo(e, S) == \A s \in S : Masked(e.pos, LastPos(s) + 1)

Outlives(e, x) ==
    /\ x.tok = e.tok /\ x.pos = e.pos
    /\ x.seqs \subseteq e.seqs /\ LostTo(e, e.seqs \ x.seqs)

Follows(x) ==
    /\ \A e \in entries : e.tok # x.tok
    /\ \A s \in x.seqs : x.pos > LastPos(s)

Append ==
    /\ \A e \in entries : LostTo(e, e.seqs) \/ \E x \in entries' : Outlives(e, x)
    /\ \A x \in entries' : Follows(x) \/ \E e \in entries : Outlives(e, x)

Next ==
    \/ Clear
    \/ Append
    \/ \E s \in Seqs : SeqKeep(s) \/ Evict(s)
    \/ \E p0, p1 \in Bounds :
         \/ SeqRmAny(p0, p1)
         \/ \E s \in Seqs :
              \/ SeqRm(s, p0, p1)
              \/ \E t \in Seqs \ {s} : SeqCp(s, t, p0, p1)
              \/ \E d \in Deltas : SeqAdd(s, p0, p1, d)
              \/ \E d \in Divisors : SeqDiv(s, p0, p1, d)

Spec == Init /\ [][Next]_entries
=============================================================================
