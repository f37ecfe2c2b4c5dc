------------------------- MODULE BenchDecode_proofs -------------------------
(***************************************************************************)
(* What the harness promises of its cache, for any sizes, policies and     *)
(* ways to move the survivors: the text stays in order, what a policy      *)
(* protects stays, the bounded policies stay bounded, the number of        *)
(* evictions is right.                                                     *)
(*                                                                         *)
(* The properties speak of what the cells hold and seldom of where, so the *)
(* proofs do too: Held is the set of cached entries, and each operation of *)
(* the cache is first shown to do to Held what it should.                  *)
(***************************************************************************)
EXTENDS BenchDecode, FiniteSetTheorems, TLAPS

Entry   == [tok : Nat, pos : Nat]
MemType == [cell : [Cell -> Entry \cup {Free}], head : 0 .. NCells]

(* What the cells hold, wherever it is. *)
Held(m) == {m.cell[i] : i \in Live(m)}

Once(m) == \A i, j \in Live(m) : m.cell[i] = m.cell[j] => i = j

-----------------------------------------------------------------------------
(* Every nonempty set of naturals has a least element. *)
LEMMA LeastNat ==
  ASSUME NEW S \in SUBSET Nat, S # {}
  PROVE  \E x \in S : \A y \in S : x <= y
<1>1. PICK x \in S : \A y \in S : ~ (<<y, x>> \in OpToRel(<, Nat))
  BY NatLessThanWellFounded, WFMin
<1>2. \A y \in S : ~ (y < x)
  BY <1>1 DEF OpToRel
<1> QED
  BY <1>2

(* Every nonempty finite set of integers has a greatest element. *)
LEMMA GreatestInt ==
  ASSUME NEW S \in SUBSET Int, IsFiniteSet(S), S # {}
  PROVE  \E x \in S : \A y \in S : y <= x
<1> DEFINE HasMax(T) == \E x \in T : \A y \in T : y <= x
           Bad == {n \in Nat : \E T \in SUBSET Int : /\ IsFiniteSet(T) /\ T # {}
                                                     /\ Cardinality(T) = n /\ ~HasMax(T)}
<1>1. SUFFICES ASSUME ~HasMax(S) PROVE FALSE
  OBVIOUS
<1>2. Cardinality(S) \in Nat
  BY FS_CardinalityType
<1>3. Bad # {}
  BY <1>1, <1>2
<1>4. PICK n \in Bad : \A m \in Bad : n <= m
  <2> HIDE DEF Bad
  <2>1. Bad \in SUBSET Nat
    BY DEF Bad
  <2> QED BY <1>3, <2>1, LeastNat
<1>5. PICK T \in SUBSET Int : IsFiniteSet(T) /\ T # {} /\ Cardinality(T) = n /\ ~HasMax(T)
  BY <1>4
<1>6. PICK x \in T : TRUE
  BY <1>5
<1> DEFINE R == T \ {x}
<1>7. IsFiniteSet(R) /\ Cardinality(R) = n - 1 /\ R \in SUBSET Int /\ n \in Nat
  BY <1>4, <1>5, <1>6, FS_RemoveElement
<1>8. R # {}
  <2> SUFFICES ASSUME R = {} PROVE FALSE
    OBVIOUS
  <2>1. T = {x}
    BY <1>6
  <2> QED BY <1>5, <1>6, <2>1
<1>9. n - 1 \in Nat
  BY <1>7, FS_CardinalityType
<1>10. n - 1 \notin Bad
  BY <1>4, <1>9
<1>11. HasMax(R)
  <2> HIDE DEF HasMax, R
  <2> QED BY <1>7, <1>8, <1>9, <1>10
<1>12. PICK y \in R : \A z \in R : z <= y
  BY <1>11
<1>13. CASE x <= y
  BY <1>5, <1>6, <1>12, <1>13
<1>14. CASE ~(x <= y)
  <2>1. \A z \in T : z <= x
    <3>1. x \in Int /\ y \in Int /\ y <= x /\ \A z \in R : z \in Int
      BY <1>5, <1>6, <1>7, <1>12, <1>14
    <3> QED BY <1>6, <1>12, <3>1
  <2> QED BY <1>5, <1>6, <2>1
<1> QED BY <1>13, <1>14

(* Max is in its set, and greatest. *)
LEMMA MaxIs ==
  ASSUME NEW S \in SUBSET Int, IsFiniteSet(S), S # {}
  PROVE  Max(S) \in S /\ \A y \in S : y <= Max(S)
<1>1. PICK x \in S : \A y \in S : y <= x
  BY GreatestInt
<1>2. \A y \in S : x >= y
  BY <1>1
<1> QED BY <1>2 DEF Max

(* Min is in its set, and least. *)
LEMMA MinIs ==
  ASSUME NEW S \in SUBSET Nat, S # {}
  PROVE  Min(S) \in S /\ \A y \in S : Min(S) <= y
<1>1. PICK x \in S : \A y \in S : x <= y
  BY LeastNat
<1> QED BY <1>1 DEF Min

(* The greater of two. *)
LEMMA MaxOfTwo ==
  ASSUME NEW a \in Int, NEW b \in Int
  PROVE  Max({a, b}) \in {a, b} /\ a <= Max({a, b}) /\ b <= Max({a, b})
<1>1. IsFiniteSet({a, b})
  <2>1. IsFiniteSet({a}) /\ {a, b} = {a} \cup {b}
    BY FS_Singleton
  <2> QED BY <2>1, FS_AddElement
<1> QED BY <1>1, MaxIs

(* The less of two. *)
LEMMA MinOfTwo ==
  ASSUME NEW a \in Nat, NEW b \in Nat
  PROVE  Min({a, b}) \in {a, b} /\ Min({a, b}) <= a /\ Min({a, b}) <= b
BY MinIs

-----------------------------------------------------------------------------
(* An empty cell is none of the entries, and there are finitely many cells. *)
LEMMA CellFacts ==
  /\ Free \notin Entry
  /\ NCells \in Nat /\ Cell \in SUBSET Nat
  /\ IsFiniteSet(Cell) /\ Cardinality(Cell) = NCells
<1>1. Free \notin Entry
  BY DEF Free, Entry
<1>2. NCells \in Nat
  BY BenchAssumption
<1> QED BY <1>1, <1>2, FS_Interval DEF Cell

(* What is live is an entry. *)
LEMMA HeldType ==
  ASSUME NEW m \in MemType
  PROVE  /\ Live(m) \in SUBSET Cell /\ IsFiniteSet(Live(m))
         /\ Cardinality(Live(m)) \in Nat
         /\ \A i \in Live(m) : m.cell[i] \in Entry
         /\ Held(m) \in SUBSET Entry
         /\ \A i \in Cell : i \notin Live(m) => m.cell[i] = Free
         /\ \A i \in Cell : m.cell[i] \in Entry \cup {Free}
         /\ \A a \in Entry : a.tok \in Nat /\ a.pos \in Nat
<1>1. Live(m) \in SUBSET Cell
  BY DEF Live
<1>2. \A i \in Cell : m.cell[i] \in Entry \cup {Free}
  BY DEF MemType
<1>3. \A i \in Live(m) : m.cell[i] \in Entry
  BY <1>2 DEF Live
<1>4. IsFiniteSet(Live(m)) /\ Cardinality(Live(m)) \in Nat
  BY <1>1, CellFacts, FS_Subset, FS_CardinalityType
<1>5. \A a \in Entry : a.tok \in Nat /\ a.pos \in Nat
  BY DEF Entry
<1> QED BY <1>1, <1>2, <1>3, <1>4, <1>5 DEF Held, Live

(* PosMax is the greatest position, -1 of nothing. *)
LEMMA PosMaxIs ==
  ASSUME NEW m \in MemType
  PROVE  /\ PosMax(m) \in Int /\ PosMax(m) >= -1 /\ PosMax(m) + 1 \in Nat
         /\ \A a \in Held(m) : a.pos <= PosMax(m)
         /\ PosMax(m) = -1 \/ \E a \in Held(m) : a.pos = PosMax(m)
<1> DEFINE S == {m.cell[i].pos : i \in Live(m)}
<1>1. S \in SUBSET Nat
  BY HeldType
<1>2. IsFiniteSet(S)
  <2> DEFINE f == [i \in Live(m) |-> m.cell[i].pos]
  <2>1. f \in Surjection(Live(m), S)
    BY DEF Surjection
  <2> HIDE DEF f, S
  <2> QED BY <2>1, HeldType, FS_Surjection
<1>3. IsFiniteSet(S \cup {-1}) /\ S \cup {-1} \in SUBSET Int /\ S \cup {-1} # {}
  <2>1. -1 \in Int /\ S \in SUBSET Int
    BY <1>1
  <2> HIDE DEF S
  <2>2. IsFiniteSet(S \cup {-1})
    BY <1>2, FS_AddElement
  <2> QED BY <2>1, <2>2
<1>4. /\ PosMax(m) \in S \cup {-1} /\ \A y \in S \cup {-1} : y <= PosMax(m)
  BY <1>3, MaxIs DEF PosMax
<1>5. \A a \in Held(m) : a.pos \in S
  BY DEF Held
<1>6. \A p \in S : \E a \in Held(m) : a.pos = p
  BY DEF Held
<1> HIDE DEF S
<1>7. PosMax(m) = -1 \/ PosMax(m) \in S
  BY <1>4
<1>8. PosMax(m) \in Int /\ PosMax(m) >= -1 /\ PosMax(m) + 1 \in Nat
  <2>1. PosMax(m) = -1 \/ PosMax(m) \in Nat
    BY <1>1, <1>7
  <2> QED BY <2>1
<1>9. \A a \in Held(m) : a.pos <= PosMax(m)
  BY <1>4, <1>5
<1> QED BY <1>6, <1>7, <1>8, <1>9

(* With every entry in one cell there are as many cells as entries. *)
LEMMA LiveCount ==
  ASSUME NEW m \in MemType, Once(m)
  PROVE  IsFiniteSet(Held(m)) /\ Cardinality(Held(m)) = Cardinality(Live(m))
<1> DEFINE f == [i \in Live(m) |-> m.cell[i]]
<1>1. f \in Bijection(Live(m), Held(m))
  BY DEF Bijection, Injection, Surjection, IsInjective, Held, Once
<1>2. ExistsBijection(Live(m), Held(m))
  BY <1>1 DEF ExistsBijection
<1> QED BY <1>2, HeldType, FS_Bijection

-----------------------------------------------------------------------------
(* Cells that are freed hold nothing, the others what they held. *)
LEMMA RemoveDoes ==
  ASSUME NEW m \in MemType, NEW gone \in SUBSET Live(m)
  PROVE  /\ Remove(m, gone) \in MemType
         /\ Live(Remove(m, gone)) = Live(m) \ gone
         /\ \A i \in Live(m) \ gone : Remove(m, gone).cell[i] = m.cell[i]
         /\ Held(Remove(m, gone)) = {m.cell[i] : i \in Live(m) \ gone}
         /\ Once(m) => Once(Remove(m, gone))
<1> DEFINE r == Remove(m, gone)
<1>1. gone \in SUBSET Cell /\ gone \in SUBSET Nat
  BY HeldType, CellFacts
<1>2. m.head \in 0 .. NCells /\ m.head \in Nat
  <2>1. m.head \in 0 .. NCells
    BY DEF MemType
  <2> QED BY <2>1, CellFacts
<1>3. Min(gone \cup {m.head}) \in 0 .. NCells
  <2>1. gone \cup {m.head} \in SUBSET Nat /\ gone \cup {m.head} # {}
    BY <1>1, <1>2, CellFacts
  <2>2. \A x \in gone \cup {m.head} : x \in 0 .. NCells
    BY <1>1, <1>2, CellFacts DEF Cell
  <2> QED BY <2>1, <2>2, MinIs
<1>4. \A i \in Cell : r.cell[i] = IF i \in gone THEN Free ELSE m.cell[i]
  BY DEF Remove
<1>5. r \in MemType
  <2>1. r.cell \in [Cell -> Entry \cup {Free}]
    BY HeldType DEF Remove
  <2>2. r = [cell |-> r.cell, head |-> Min(gone \cup {m.head})]
    BY DEF Remove
  <2> HIDE DEF r
  <2> QED BY <1>3, <2>1, <2>2 DEF MemType
<1> HIDE DEF r
<1>6. Live(r) = Live(m) \ gone
  BY <1>1, <1>4 DEF Live
<1>7. \A i \in Live(m) \ gone : r.cell[i] = m.cell[i]
  BY <1>4, HeldType
<1>8. Held(r) = {m.cell[i] : i \in Live(m) \ gone}
  BY <1>6, <1>7 DEF Held
<1>9. Once(m) => Once(r)
  BY <1>6, <1>7 DEF Once
<1> QED BY <1>5, <1>6, <1>7, <1>8, <1>9 DEF r

(* Removal by position. *)
LEMMA SeqRmDoes ==
  ASSUME NEW m \in MemType, NEW P
  PROVE  /\ SeqRm(m, P) \in MemType
         /\ Held(SeqRm(m, P)) = {a \in Held(m) : a.pos \notin P}
         /\ Once(m) => Once(SeqRm(m, P))
<1> DEFINE gone == {i \in Live(m) : m.cell[i].pos \in P}
<1>1. gone \in SUBSET Live(m) /\ SeqRm(m, P) = Remove(m, gone)
  BY DEF SeqRm
<1>2. {m.cell[i] : i \in Live(m) \ gone} = {a \in Held(m) : a.pos \notin P}
  BY DEF Held
<1> HIDE DEF gone
<1> QED BY <1>1, <1>2, RemoveDoes

(* Removal by cell. *)
LEMMA RmCellsDoes ==
  ASSUME NEW m \in MemType, NEW I
  PROVE  /\ RmCells(m, I) \in MemType
         /\ Live(RmCells(m, I)) = Live(m) \ I
         /\ Held(RmCells(m, I)) = {m.cell[i] : i \in Live(m) \ I}
         /\ Once(m) => Once(RmCells(m, I))
<1> DEFINE gone == Live(m) \cap I
<1>1. gone \in SUBSET Live(m) /\ RmCells(m, I) = Remove(m, gone) /\ Live(m) \ gone = Live(m) \ I
  BY DEF RmCells
<1> HIDE DEF gone
<1> QED BY <1>1, RemoveDoes

(* An entry after a shift by d of the positions in P. *)
Moved(a, P, d) == [tok |-> a.tok, pos |-> IF a.pos \in P THEN a.pos + d ELSE a.pos]

Distinct(H) == \A a, b \in H : a.tok = b.tok => a = b

(* A shift moves the entries in its range and no other. *)
LEMMA SeqAddDoes ==
  ASSUME NEW m \in MemType, NEW P \in SUBSET Nat, NEW d \in Int,
         \A a \in Held(m) : a.pos \in P => a.pos + d >= 0
  PROVE  /\ SeqAdd(m, P, d) \in MemType
         /\ Held(SeqAdd(m, P, d)) = {Moved(a, P, d) : a \in Held(m)}
         /\ Once(m) /\ Distinct(Held(m)) => Once(SeqAdd(m, P, d))
<1> DEFINE r == SeqAdd(m, P, d)
<1>1. \A a \in Held(m) : /\ a \in Entry /\ a.pos \in Nat /\ a.tok \in Nat
                         /\ a = [tok |-> a.tok, pos |-> a.pos]
  <2>1. \A a \in Entry : a = [tok |-> a.tok, pos |-> a.pos]
    BY DEF Entry
  <2> QED BY <2>1, HeldType
<1>2. \A a \in Held(m) : Moved(a, P, d) \in Entry
  BY <1>1 DEF Moved, Entry
<1>3. CASE P = {} \/ d = 0
  <2>1. r = m
    BY <1>3 DEF SeqAdd
  <2>2. \A a \in Held(m) : Moved(a, P, d) = a
    BY <1>1, <1>3 DEF Moved
  <2>3. {Moved(a, P, d) : a \in Held(m)} = Held(m)
    BY <2>2
  <2> QED BY <2>1, <2>3
<1>4. CASE ~(P = {} \/ d = 0)
  <2>1. r = [cell |-> [i \in Cell |-> IF m.cell[i].pos \notin P THEN m.cell[i]
                                      ELSE [m.cell[i] EXCEPT !.pos = @ + d]],
             head |-> 0]
    BY <1>4 DEF SeqAdd
  <2>2. \A i \in Cell : i \notin Live(m) => r.cell[i] = Free
    <3>1. Free.pos \notin P
      BY DEF Free
    <3> QED BY <2>1, <3>1, HeldType
  <2>3. ASSUME NEW i \in Live(m) PROVE r.cell[i] = Moved(m.cell[i], P, d)
    <3> DEFINE a == m.cell[i]
    <3>1. a \in Held(m) /\ i \in Cell
      BY HeldType DEF Held
    <3>2. r.cell[i] = IF a.pos \notin P THEN a ELSE [a EXCEPT !.pos = @ + d]
      BY <2>1, <3>1
    <3> HIDE DEF a
    <3>3. a.tok \in Nat /\ a.pos \in Nat /\ a = [tok |-> a.tok, pos |-> a.pos]
      BY <1>1, <3>1
    <3>4. [a EXCEPT !.pos = @ + d] = [tok |-> a.tok, pos |-> a.pos + d]
      BY <3>3
    <3> QED BY <3>2, <3>3, <3>4 DEF Moved, a
  <2>4. \A i \in Live(m) : r.cell[i] \in Entry
    BY <1>2, <2>3 DEF Held
  <2>5. r.cell \in [Cell -> Entry \cup {Free}]
    <3>1. \A i \in Cell : r.cell[i] \in Entry \cup {Free}
      BY <2>2, <2>4
    <3> QED BY <2>1, <3>1
  <2>6. r \in MemType
    <3>1. r = [cell |-> r.cell, head |-> 0] /\ 0 \in 0 .. NCells
      BY <2>1, CellFacts
    <3> HIDE DEF r
    <3> QED BY <2>5, <3>1 DEF MemType
  <2> HIDE DEF r
  <2>7. Live(r) = Live(m)
    <3>1. \A i \in Live(m) : i \in Cell /\ r.cell[i] # Free
      BY <2>4, CellFacts, HeldType
    <3>2. \A i \in Cell : i \notin Live(m) => r.cell[i] = Free
      BY <2>2
    <3>3. Live(r) = {i \in Cell : r.cell[i] # Free}
      BY DEF Live
    <3> QED BY <3>1, <3>2, <3>3
  <2>8. Held(r) = {Moved(a, P, d) : a \in Held(m)}
    BY <2>3, <2>7 DEF Held
  <2>9. ASSUME Once(m), Distinct(Held(m)) PROVE Once(r)
    <3> SUFFICES ASSUME NEW i \in Live(m), NEW j \in Live(m), r.cell[i] = r.cell[j]
                 PROVE  i = j
      BY <2>7 DEF Once
    <3>1. m.cell[i].tok = m.cell[j].tok
      <4>1. \A a : Moved(a, P, d).tok = a.tok
        BY DEF Moved
      <4>2. Moved(m.cell[i], P, d) = Moved(m.cell[j], P, d)
        BY <2>3
      <4> QED BY <4>1, <4>2
    <3>2. m.cell[i] = m.cell[j]
      BY <2>9, <3>1 DEF Distinct, Held
    <3> QED BY <2>9, <3>2 DEF Once
  <2> QED BY <2>6, <2>8, <2>9 DEF r
<1> QED BY <1>3, <1>4

(* A token decoded with a cell to spare is added behind the last position. *)
LEMMA PlaceDoes ==
  ASSUME NEW m \in MemType, NEW t \in Nat, Cardinality(Live(m)) < NCells
  PROVE  LET new == [tok |-> t, pos |-> PosMax(m) + 1]
         IN  /\ Place(m, t) \in MemType /\ new \in Entry
             /\ Held(Place(m, t)) = Held(m) \cup {new}
             /\ Once(m) => Once(Place(m, t))
             /\ Cardinality(Live(Place(m, t))) = Cardinality(Live(m)) + 1
<1> DEFINE new  == [tok |-> t, pos |-> PosMax(m) + 1]
           free == Cell \ Live(m)
           from == {i \in free : i >= ScanStart(m)}
           i    == NextFree(m)
           r    == Place(m, t)
<1>1. free \in SUBSET Nat /\ free # {}
  <2>1. free \in SUBSET Nat
    BY CellFacts
  <2>2. free = {} => Live(m) = Cell
    BY HeldType
  <2> QED BY <2>1, <2>2, CellFacts
<1>2. i \in free
  <2>1. i = Min(IF from # {} THEN from ELSE free)
    BY DEF NextFree
  <2>2. Min(free) \in free
    BY <1>1, MinIs
  <2>3. from # {} => Min(from) \in from
    <3>1. from \in SUBSET Nat
      BY <1>1
    <3> HIDE DEF from
    <3> QED BY <3>1, MinIs
  <2> QED BY <2>1, <2>2, <2>3
<1>3. new \in Entry /\ new \notin Held(m)
  <2>1. new \in Entry
    BY PosMaxIs DEF Entry
  <2>2. \A a \in Held(m) : a.pos # PosMax(m) + 1
    <3>1. \A a \in Held(m) : a.pos <= PosMax(m) /\ a.pos \in Nat
      BY PosMaxIs, HeldType
    <3> QED BY <3>1, PosMaxIs
  <2> QED BY <2>1, <2>2
<1>4. r = [cell |-> [m.cell EXCEPT ![i] = new], head |-> i + 1]
  BY DEF Place
<1> HIDE DEF new, i, r
<1>5. i \in Cell /\ i \notin Live(m) /\ i + 1 \in 0 .. NCells
  <2>1. i \in Cell
    BY <1>2
  <2> QED BY <1>2, <2>1, CellFacts DEF Cell
<1>6. m.cell \in [Cell -> Entry \cup {Free}]
  BY DEF MemType
<1>7. r \in MemType
  BY <1>3, <1>4, <1>5, <1>6 DEF MemType
<1>8. \A j \in Cell : r.cell[j] = IF j = i THEN new ELSE m.cell[j]
  BY <1>4, <1>6
<1>9. Live(r) = Live(m) \cup {i}
  BY <1>3, <1>5, <1>8, CellFacts DEF Live
<1>10. Held(r) = Held(m) \cup {new}
  BY <1>5, <1>8, <1>9, HeldType DEF Held
<1>11. Once(m) => Once(r)
  BY <1>3, <1>5, <1>8, <1>9, HeldType DEF Once, Held
<1>12. Cardinality(Live(r)) = Cardinality(Live(m)) + 1
  BY <1>5, <1>9, HeldType, FS_AddElement
<1> QED BY <1>3, <1>7, <1>10, <1>11, <1>12 DEF new, r

-----------------------------------------------------------------------------
Below(S, i) == {h \in S : h < i}

(* The ranks of a finite set are the numbers below its size, each once. *)
LEMMA Ranks ==
  ASSUME NEW S \in SUBSET Nat, IsFiniteSet(S)
  PROVE  /\ \A i \in S : Cardinality(Below(S, i)) \in 0 .. Cardinality(S) - 1
         /\ \A i, k \in S : Cardinality(Below(S, i)) = Cardinality(Below(S, k)) => i = k
         /\ \A j \in 0 .. Cardinality(S) - 1 : \E i \in S : Cardinality(Below(S, i)) = j
<1> DEFINE n       == Cardinality(S)
           rank(i) == Cardinality(Below(S, i))
<1>1. n \in Nat
  BY FS_CardinalityType
<1>2. ASSUME NEW i \in S PROVE IsFiniteSet(Below(S, i)) /\ rank(i) \in Nat
  <2>1. Below(S, i) \in SUBSET S
    BY DEF Below
  <2> QED BY <2>1, FS_Subset, FS_CardinalityType
<1>3. ASSUME NEW i \in S, NEW T \in SUBSET S, Below(S, i) \cup {i} \subseteq T
      PROVE  rank(i) + 1 <= Cardinality(T)
  <2>1. i \notin Below(S, i)
    BY DEF Below
  <2>2. /\ IsFiniteSet(Below(S, i) \cup {i})
        /\ Cardinality(Below(S, i) \cup {i}) = rank(i) + 1
    BY <1>2, <2>1, FS_AddElement
  <2>3. IsFiniteSet(T)
    BY FS_Subset
  <2>4. Cardinality(Below(S, i) \cup {i}) <= Cardinality(T)
    BY <1>3, <2>3, FS_Subset
  <2> QED BY <2>2, <2>4
<1>4. ASSUME NEW i \in S PROVE rank(i) \in 0 .. n - 1
  <2>1. Below(S, i) \cup {i} \subseteq S
    BY DEF Below
  <2>2. rank(i) + 1 <= n
    BY <1>3, <2>1
  <2>3. rank(i) \in Nat
    BY <1>2
  <2> HIDE DEF n, rank
  <2> QED BY <1>1, <2>2, <2>3
<1>5. ASSUME NEW i \in S, NEW k \in S, i < k PROVE rank(i) < rank(k)
  <2>1. Below(S, k) \in SUBSET S
    BY DEF Below
  <2>2. Below(S, i) \cup {i} \subseteq Below(S, k)
    <3>1. \A h \in S : h < i => h < k
      BY <1>5
    <3> QED BY <1>5, <3>1 DEF Below
  <2>3. rank(i) + 1 <= rank(k)
    BY <1>3, <2>1, <2>2
  <2>4. rank(i) \in Nat /\ rank(k) \in Nat
    BY <1>2
  <2> HIDE DEF rank
  <2> QED BY <2>3, <2>4
<1>6. ASSUME NEW i \in S, NEW k \in S, rank(i) = rank(k) PROVE i = k
  <2>1. i < k \/ k < i \/ i = k
    OBVIOUS
  <2>2. rank(i) \in Nat /\ rank(k) \in Nat
    BY <1>2
  <2>3. i < k => rank(i) < rank(k)
    BY <1>5
  <2>4. k < i => rank(k) < rank(i)
    BY <1>5
  <2> HIDE DEF rank
  <2> QED BY <1>6, <2>1, <2>2, <2>3, <2>4
<1> DEFINE f == [i \in S |-> rank(i)]
<1>7. f \in Surjection(S, 0 .. n - 1)
  <2>1. f \in Injection(S, 0 .. n - 1)
    <3>1. f \in [S -> 0 .. n - 1]
      BY <1>4
    <3>2. IsInjective(f)
      BY <1>6 DEF IsInjective
    <3> QED BY <3>1, <3>2 DEF Injection
  <2>2. IsFiniteSet(0 .. n - 1) /\ Cardinality(0 .. n - 1) = n
    <3> HIDE DEF n
    <3>1. 0 \in Int /\ n - 1 \in Int
      BY <1>1
    <3>2. /\ IsFiniteSet(0 .. n - 1)
          /\ Cardinality(0 .. n - 1) = IF 0 > n - 1 THEN 0 ELSE (n - 1) - 0 + 1
      BY <3>1, FS_Interval
    <3> QED BY <1>1, <3>2
  <2> HIDE DEF f
  <2> QED BY <2>1, <2>2, FS_Injection
<1>8. \A j \in 0 .. n - 1 : \E i \in S : rank(i) = j
  BY <1>7 DEF Surjection
<1> QED BY <1>4, <1>6, <1>8

(* Compaction keeps what is held, in as many cells, from the first on. *)
LEMMA CompactDoes ==
  ASSUME NEW m \in MemType
  PROVE  /\ Compact(m) \in MemType
         /\ Held(Compact(m)) = Held(m)
         /\ Once(m) => Once(Compact(m))
         /\ Cardinality(Live(Compact(m))) = Cardinality(Live(m))
<1> DEFINE S      == Live(m)
           n      == Cardinality(S)
           nth(j) == CHOOSE i \in S : Cardinality({h \in S : h < i}) = j
           r      == Compact(m)
<1>1. /\ S \in SUBSET Nat /\ S \in SUBSET Cell /\ IsFiniteSet(S) /\ n \in Nat
      /\ n <= NCells /\ NCells \in Nat /\ \A i \in S : m.cell[i] \in Entry
  BY HeldType, CellFacts, FS_Subset
<1>2. r = [cell |-> [j \in Cell |-> IF j < n THEN m.cell[nth(j)] ELSE Free], head |-> n]
  BY DEF Compact
<1>3. ASSUME NEW j \in 0 .. n - 1
      PROVE  nth(j) \in S /\ Cardinality(Below(S, nth(j))) = j
  <2>1. \E i \in S : Cardinality(Below(S, i)) = j
    BY <1>1, Ranks
  <2> QED BY <2>1 DEF Below
<1>4. ASSUME NEW i \in S
      PROVE  \E j \in 0 .. n - 1 : nth(j) = i
  <2> DEFINE j == Cardinality(Below(S, i))
  <2>1. j \in 0 .. n - 1
    BY <1>1, Ranks
  <2>2. nth(j) \in S /\ Cardinality(Below(S, nth(j))) = j
    BY <1>3, <2>1
  <2>3. nth(j) = i
    <3> HIDE DEF nth
    <3> QED BY <1>1, <2>2, Ranks
  <2> QED BY <2>1, <2>3
<1>5. \A j, k \in 0 .. n - 1 : nth(j) = nth(k) => j = k
  BY <1>3
<1> HIDE DEF nth, n
<1>6. \A j \in 0 .. n - 1 : j \in Cell /\ j < n
  BY <1>1, CellFacts DEF Cell
<1>7. \A j \in Cell : j < n => j \in 0 .. n - 1
  BY <1>1, CellFacts DEF Cell
<1>8. r \in MemType
  <2>1. n \in 0 .. NCells
    BY <1>1
  <2>2. \A j \in Cell : (IF j < n THEN m.cell[nth(j)] ELSE Free) \in Entry \cup {Free}
    BY <1>1, <1>3, <1>7
  <2> HIDE DEF r
  <2> QED BY <1>2, <2>1, <2>2 DEF MemType
<1> HIDE DEF r
<1>9. Live(r) = 0 .. n - 1
  <2>1. \A j \in Cell : r.cell[j] = IF j < n THEN m.cell[nth(j)] ELSE Free
    BY <1>2
  <2>2. \A j \in 0 .. n - 1 : r.cell[j] # Free
    BY <1>1, <1>3, <1>6, <2>1, CellFacts
  <2> QED BY <1>6, <1>7, <2>1, <2>2 DEF Live
<1>10. \A j \in 0 .. n - 1 : r.cell[j] = m.cell[nth(j)]
  BY <1>2, <1>6
<1>11. Held(r) = Held(m)
  <2>1. \A a \in Held(r) : a \in Held(m)
    BY <1>3, <1>9, <1>10 DEF Held
  <2>2. \A a \in Held(m) : a \in Held(r)
    BY <1>4, <1>9, <1>10 DEF Held
  <2> QED BY <2>1, <2>2
<1>12. Once(m) => Once(r)
  <2> SUFFICES ASSUME Once(m), NEW j \in 0 .. n - 1, NEW k \in 0 .. n - 1,
                      r.cell[j] = r.cell[k]
               PROVE  j = k
    BY <1>9 DEF Once
  <2>1. nth(j) = nth(k)
    BY <1>3, <1>10 DEF Once
  <2> QED BY <1>5, <2>1
<1>13. Cardinality(Live(r)) = n
  <2>1. 0 \in Int /\ n - 1 \in Int
    BY <1>1
  <2>2. Cardinality(0 .. n - 1) = IF 0 > n - 1 THEN 0 ELSE (n - 1) - 0 + 1
    BY <2>1, FS_Interval
  <2> QED BY <1>1, <1>9, <2>2
<1> QED BY <1>8, <1>11, <1>12, <1>13 DEF r, n

-----------------------------------------------------------------------------
(* The text is in order; tokens of an image share positions. *)
InText(H, md) ==
    \A a, b \in H :
        /\ a.tok = b.tok => a = b
        /\ a.tok < b.tok => IF md.image THEN a.pos <= b.pos ELSE a.pos < b.pos

(* Without an image no two entries share a position. *)
LEMMA OnePerPosition ==
  ASSUME NEW H \in SUBSET Entry, NEW md, InText(H, md), ~md.image,
         NEW a \in H, NEW b \in H, a.pos = b.pos
  PROVE  a = b
<1>1. a.tok \in Nat /\ b.tok \in Nat /\ a.pos \in Nat /\ b.pos \in Nat
  BY DEF Entry
<1>2. a.tok = b.tok \/ a.tok < b.tok \/ b.tok < a.tok
  BY <1>1
<1>3. (a.tok < b.tok => a.pos < b.pos) /\ (b.tok < a.tok => b.pos < a.pos)
  BY DEF InText
<1> QED BY <1>1, <1>2, <1>3 DEF InText

(* Then there are as many positions as entries. *)
LEMMA PositionCount ==
  ASSUME NEW H \in SUBSET Entry, IsFiniteSet(H), NEW md, InText(H, md), ~md.image
  PROVE  /\ IsFiniteSet({a.pos : a \in H})
         /\ Cardinality({a.pos : a \in H}) = Cardinality(H)
<1> DEFINE f == [a \in H |-> a.pos]
           P == {a.pos : a \in H}
<1>1. f \in Bijection(H, P)
  <2>1. f \in [H -> P] /\ \A p \in P : \E a \in H : f[a] = p
    OBVIOUS
  <2>2. IsInjective(f)
    BY OnePerPosition DEF IsInjective
  <2> QED BY <2>1, <2>2 DEF Bijection, Injection, Surjection
<1>2. ExistsBijection(H, P)
  BY <1>1 DEF ExistsBijection
<1> QED BY <1>2, FS_Bijection

(* With each token once, there are no more entries than tokens. *)
LEMMA TokenCount ==
  ASSUME NEW m \in MemType, Once(m), NEW md, InText(Held(m), md), NEW n \in Nat,
         \A a \in Held(m) : a.tok < n
  PROVE  Cardinality(Live(m)) <= n
<1> DEFINE H == Held(m)
           f == [a \in H |-> a.tok]
<1>1. f \in Injection(H, 0 .. n - 1)
  <2>1. \A a \in H : a.tok \in 0 .. n - 1
    BY HeldType
  <2>2. IsInjective(f)
    BY DEF IsInjective, InText
  <2> QED BY <2>1, <2>2 DEF Injection
<1>2. /\ IsFiniteSet(0 .. n - 1)
      /\ Cardinality(0 .. n - 1) = IF 0 > n - 1 THEN 0 ELSE (n - 1) - 0 + 1
  BY FS_Interval
<1>3. Cardinality(0 .. n - 1) = n
  BY <1>2
<1> HIDE DEF f
<1>4. Cardinality(H) <= n
  BY <1>1, <1>2, <1>3, FS_Injection
<1> QED BY <1>4, LiveCount

(* What is left of a text is in order. *)
LEMMA LessText ==
  ASSUME NEW H, NEW md, InText(H, md), NEW G \in SUBSET H
  PROVE  InText(G, md)
BY DEF InText

(* A text is in order with what is added behind it. *)
LEMMA MoreText ==
  ASSUME NEW H \in SUBSET Entry, NEW md, InText(H, md), NEW e \in Entry,
         \A a \in H : a.tok < e.tok /\ a.pos < e.pos
  PROVE  InText(H \cup {e}, md)
<1>1. \A a \in H : a.tok \in Nat /\ a.pos \in Nat
  BY DEF Entry
<1>2. e.tok \in Nat /\ e.pos \in Nat
  BY DEF Entry
<1> SUFFICES ASSUME NEW a \in H \cup {e}, NEW b \in H \cup {e}
             PROVE  /\ a.tok = b.tok => a = b
                    /\ a.tok < b.tok => IF md.image THEN a.pos <= b.pos ELSE a.pos < b.pos
  BY DEF InText
<1>3. CASE a \in H /\ b \in H
  BY <1>3 DEF InText
<1>4. CASE a \in H /\ b = e
  <2>1. a.tok < b.tok /\ a.pos < b.pos
    BY <1>4
  <2> QED BY <1>1, <1>2, <1>4, <2>1
<1>5. CASE a = e /\ b \in H
  <2>1. b.tok < a.tok
    BY <1>5
  <2> QED BY <1>1, <1>2, <1>5, <2>1
<1>6. CASE a = e /\ b = e
  BY <1>2, <1>6
<1> QED BY <1>3, <1>4, <1>5, <1>6

(* The greatest position, found. *)
LEMMA PosMaxAt ==
  ASSUME NEW m \in MemType, NEW p \in Nat, \E a \in Held(m) : a.pos = p,
         \A a \in Held(m) : a.pos <= p
  PROVE  PosMax(m) = p
<1>1. PosMax(m) \in Int /\ p <= PosMax(m)
  BY PosMaxIs
<1>2. PosMax(m) <= p
  <2>1. CASE PosMax(m) = -1
    BY <2>1
  <2>2. CASE \E a \in Held(m) : a.pos = PosMax(m)
    BY <2>2
  <2> QED BY <2>1, <2>2, PosMaxIs
<1> QED BY <1>1, <1>2

(* The entries behind a band that is cut out move up to where it began.    *)
Closed(a, from, to) ==
    [tok |-> a.tok, pos |-> IF a.pos >= to THEN a.pos - (to - from) ELSE a.pos]

(* Removing a band and shifting what follows closes the text. *)
LEMMA CutDoes ==
  ASSUME NEW m \in MemType, Once(m), NEW md, InText(Held(m), md),
         NEW from \in Nat, NEW to \in Nat, from <= to
  PROVE  LET c == SeqAdd(SeqRm(m, from .. to - 1), to .. PosMax(m), from - to)
             G == {a \in Held(m) : a.pos \notin from .. to - 1}
         IN  /\ c \in MemType /\ Once(c)
             /\ Held(c) = {Closed(a, from, to) : a \in G}
             /\ InText(Held(c), md)
             /\ \A a \in G : a.pos < from \/ a.pos >= to
             /\ \A a, b \in G : Closed(a, from, to) = Closed(b, from, to) => a = b
<1> DEFINE r == SeqRm(m, from .. to - 1)
           G == {a \in Held(m) : a.pos \notin from .. to - 1}
           P == to .. PosMax(m)
           c == SeqAdd(r, P, from - to)
<1>1. r \in MemType /\ Held(r) = G /\ Once(r)
  BY SeqRmDoes
<1>2. \A a \in G : /\ a \in Entry /\ a.pos \in Nat /\ a.tok \in Nat
                   /\ a.pos <= PosMax(m) /\ PosMax(m) \in Int
  BY HeldType, PosMaxIs
<1>3. \A a \in G : a.pos < from \/ a.pos >= to
  BY <1>2
<1>4. InText(G, md)
  <2>1. G \in SUBSET Held(m)
    OBVIOUS
  <2> HIDE DEF G
  <2> QED BY <2>1, LessText
<1>5. \A a \in G : Moved(a, P, from - to) = Closed(a, from, to)
  <2> SUFFICES ASSUME NEW a \in G PROVE Moved(a, P, from - to) = Closed(a, from, to)
    OBVIOUS
  <2>1. a.pos \in P <=> a.pos >= to
    BY <1>2
  <2>2. a.pos + (from - to) = a.pos - (to - from)
    BY <1>2
  <2> HIDE DEF P, G
  <2> QED BY <2>1, <2>2 DEF Moved, Closed
<1>6. /\ P \in SUBSET Nat /\ from - to \in Int
      /\ \A a \in G : a.pos \in P => a.pos + (from - to) >= 0
  <2>1. P \in SUBSET Nat
    BY PosMaxIs
  <2>2. \A a \in G : a.pos >= to => a.pos + (from - to) >= 0
    BY <1>2
  <2> QED BY <1>2, <2>1, <2>2
<1>7. Distinct(G)
  BY <1>4 DEF Distinct, InText
<1> HIDE DEF r, P, G
<1>8. /\ c \in MemType /\ Once(c) /\ Held(c) = {Moved(a, P, from - to) : a \in G}
  BY <1>1, <1>6, <1>7, SeqAddDoes
<1>9. Held(c) = {Closed(a, from, to) : a \in G}
  BY <1>5, <1>8
<1>10. \A a \in G : /\ Closed(a, from, to).tok = a.tok
                    /\ Closed(a, from, to).pos = IF a.pos >= to THEN a.pos - (to - from)
                                                 ELSE a.pos
  BY DEF Closed
<1>11. \A a, b \in G : Closed(a, from, to) = Closed(b, from, to) => a = b
  BY <1>4, <1>10 DEF InText
<1>12. InText(Held(c), md)
  <2> SUFFICES ASSUME NEW a \in G, NEW b \in G
               PROVE  LET x == Closed(a, from, to)
                          y == Closed(b, from, to)
                      IN  /\ x.tok = y.tok => x = y
                          /\ x.tok < y.tok => IF md.image THEN x.pos <= y.pos
                                                          ELSE x.pos < y.pos
    BY <1>9 DEF InText
  <2>1. a.tok = b.tok => a = b
    BY <1>4 DEF InText
  <2>2. a.tok < b.tok => IF md.image THEN a.pos <= b.pos ELSE a.pos < b.pos
    BY <1>4 DEF InText
  <2> DEFINE p == a.pos
             q == b.pos
             x == Closed(a, from, to).pos
             y == Closed(b, from, to).pos
  <2>3. /\ p \in Nat /\ q \in Nat /\ (p < from \/ p >= to) /\ (q < from \/ q >= to)
        /\ x = (IF p >= to THEN p - (to - from) ELSE p)
        /\ y = (IF q >= to THEN q - (to - from) ELSE q)
    BY <1>2, <1>3, <1>10
  <2>4. (p <= q => x <= y) /\ (p < q => x < y)
    <3> HIDE DEF p, q, x, y
    <3> QED BY <2>3
  <2> QED BY <1>10, <2>1, <2>2, <2>4
<1> QED BY <1>3, <1>8, <1>9, <1>11, <1>12 DEF r, P, G

-----------------------------------------------------------------------------
(* The inductive invariant, in parts.                                      *)
Looping == pc \in {"decode", "evict", "done"}

TypeInv ==
    /\ mode \in Modes /\ mem \in MemType
    /\ pc \in {"prefill", "move", "warmup", "decode", "evict", "done"}
    /\ step \in 0 .. MaxSteps /\ made \in 0 .. MaxSteps
    /\ made <= IF pc = "evict" THEN step + 1 ELSE step
    /\ pc = "evict" => step < MaxSteps /\ made > 0
    /\ lastEvict \in -1 .. MaxSteps /\ nAnchored \in Nat /\ evicted \in Nat
    /\ tier \in Tiers /\ kNow \in {K} \cup {KTier[t] : t \in Tiers}
    /\ lastPoll \in -1 .. MaxSteps
    /\ anchors \in SUBSET Nat /\ kept \in SUBSET Nat

(* Every entry is in one cell, the text is in order and goes up to now.    *)
TextInv ==
    /\ Once(mem) /\ InText(Held(mem), mode)
    /\ \A a \in Held(mem) : a.tok < NPrompt + made

(* Before the loop positions are those of the prompt.                      *)
PromptInv ==
    /\ ~Looping => /\ made = 0 /\ evicted = 0
                   /\ \A a \in Held(mem) : a.pos = PromptPos(a.tok)
    /\ pc = "prefill" => mem = Prompted
    /\ pc = "warmup"  => mode.move = "swap"

(* Sinks are never moved, so a position tells that a token is one.         *)
SinkInv ==
    mode.policy # "keydiff" => \A s \in 0 .. NSink - 1 :
        \E a \in Held(mem) : a.tok = s /\ (~mode.image => a.pos = s)

(* Anchors are below the position nAnchored, which bands begin at.         *)
AnchorInv ==
    /\ Looping /\ mode.policy # "keydiff" /\ ~mode.image => nAnchored >= NSink
    /\ Looping /\ mode.policy \in {"tiered", "frozen"} =>
         \A t \in anchors : \E a \in Held(mem) : a.tok = t /\ a.pos < nAnchored
    /\ mode.policy = "frozen" => Answer \subseteq Toks(mem)

(* The last n tokens of the answer have the last n positions.              *)
Newer(n) ==
    \A t \in Newest(n) : \E a \in Held(mem) :
        a.tok = t /\ a.pos = PosMax(mem) - (NPrompt + made - 1 - t)

RecentInv ==
    /\ mode.policy = "tiered" => Newer(LeastRecent)
    /\ mode.policy \in {"recency", "sllm"} => Newer(LeastK - NSink)

(* A tiered cache has no holes behind its anchors, if bands are closed.    *)
BandInv ==
    Looping /\ mode.policy = "tiered" /\ ~mode.quant /\ ~mode.image =>
        \A p \in nAnchored .. PosMax(mem) : \E a \in Held(mem) : a.pos = p

(* StreamingLLM has its sinks and a window whose length is known exactly;  *)
(* the hole between them is left by prefill and gone with the first slide. *)
Positions(m) == {a.pos : a \in Held(m)}

WindowFrom(h, n) ==
    h >= NSink /\ Positions(mem) = (0 .. NSink - 1) \cup (h .. h + n - 1)

WindowInv ==
    mode.policy = "sllm" /\ ~mode.image /\ pc # "prefill" =>
        \E h \in Nat :
            /\ WindowFrom(h, IF pc = "evict" THEN K - NSink + 1 ELSE K - NSink)
            /\ ~Looping => h + (K - NSink) = NPrompt

CountInv ==
    /\ Looping => IsFiniteSet(anchors)
    /\ Looping /\ (mode.image \/ (mode.policy \in {"tiered", "sllm"} /\ ~mode.quant))
         => evicted = Cardinality(anchors) + made - Cardinality(Live(mem))

KeptInv == mode.image => kept \subseteq Toks(mem)

BInv == /\ TypeInv /\ TextInv /\ PromptInv /\ SinkInv /\ AnchorInv /\ RecentInv
        /\ BandInv /\ WindowInv /\ CountInv /\ KeptInv /\ BudgetKept

(* What is assumed of the constants, one by one. *)
LEMMA Constants ==
  /\ NPrompt \in Nat /\ NPrompt > 0 /\ NSink \in Nat /\ NSink > 0 /\ K \in Nat /\ K > 0
  /\ RecentBudget \in Nat /\ RecentBudget > 0 /\ Block \in Nat /\ Pad \in Nat /\ Pad > 0
  /\ MaxSteps \in Nat /\ MaxSteps > 0 /\ ImgSpan \in Nat /\ ImgSpan > 0
  /\ MinRecent \in Nat /\ MinRecent > 0 /\ NCells \in Nat /\ NCells > NPrompt + MaxSteps
  /\ K > NSink /\ NPrompt > K
  /\ \A t \in Tiers : KTier[t] \in Nat /\ KTier[t] > NSink
  /\ \A md \in Modes : /\ md.policy \in Policies /\ md.move \in Moves
                       /\ md.quant \in BOOLEAN /\ md.image \in BOOLEAN
                       /\ md.image => md.policy # "step" /\ md.move # "swap"
                       /\ md.policy = "sllm" => ~md.quant
<1>1. \A md \in Modes : md \in Mode
  BY BenchAssumption
<1>2. \A md \in Mode : /\ md.policy \in Policies /\ md.move \in Moves
                       /\ md.quant \in BOOLEAN /\ md.image \in BOOLEAN
  BY DEF Mode
<1>3. \A md \in Modes : /\ md.image => md.policy # "step" /\ md.move # "swap"
                        /\ md.policy = "sllm" => ~md.quant
  BY BenchAssumption
<1>4. \A t \in Tiers : KTier[t] \in Nat /\ KTier[t] > NSink
  BY BenchAssumption
<1>5. \A x \in {NPrompt, NSink, K, RecentBudget, Block, Pad, MaxSteps, ImgSpan} :
        x \in Nat /\ x > 0
  BY BenchAssumption
<1>6. MinRecent \in Nat /\ MinRecent > 0
  BY BenchAssumption
<1>7. NCells \in Nat /\ NCells > NPrompt + MaxSteps /\ K > NSink /\ NPrompt > K
  BY BenchAssumption
<1> QED BY <1>1, <1>2, <1>3, <1>4, <1>5, <1>6, <1>7

(* The positions of a prompt go up, within an image at least not down.     *)
LEMMA PromptPositions ==
  /\ \A t \in 0 .. NPrompt - 1 : PromptPos(t) \in Nat
  /\ \A t, u \in 0 .. NPrompt - 1 :
       t < u => IF mode.image THEN PromptPos(t) <= PromptPos(u)
                              ELSE PromptPos(t) < PromptPos(u)
  /\ ~mode.image => \A t : PromptPos(t) = t
<1>1. /\ ImgFrom \in Nat /\ ImgTo \in Nat /\ ImgFrom >= 1 /\ ImgFrom <= ImgTo
      /\ ImgSpan \in Nat /\ ImgSpan > 0 /\ NPrompt \in Nat
  <2>1. ImgFrom \in 1 .. ImgTo /\ ImgTo < NPrompt - 1
    BY BenchAssumption
  <2>2. ImgTo \in Nat
    BY BenchAssumption
  <2> QED BY <2>1, <2>2, Constants
<1>2. ASSUME NEW t \in Nat
      PROVE  PromptPos(t) = IF ~mode.image \/ t < ImgFrom THEN t
                            ELSE IF t <= ImgTo THEN ImgFrom
                            ELSE ImgFrom + ImgSpan + (t - ImgTo - 1)
  BY DEF PromptPos
<1>3. \A t \in 0 .. NPrompt - 1 : t \in Nat
  BY <1>1
<1>4. ASSUME NEW t \in Nat PROVE PromptPos(t) \in Nat
  BY <1>1, <1>2
<1>5. ASSUME NEW t \in Nat, NEW u \in Nat, t < u, mode.image
      PROVE  PromptPos(t) <= PromptPos(u)
  BY <1>1, <1>2, <1>5
<1>6. ~mode.image => \A t : PromptPos(t) = t
  BY DEF PromptPos
<1> QED BY <1>3, <1>4, <1>5, <1>6

(* What the prompt leaves in the cells. *)
LEMMA PromptedDoes ==
  /\ Prompted \in MemType
  /\ Held(Prompted) = {[tok |-> t, pos |-> PromptPos(t)] : t \in 0 .. NPrompt - 1}
  /\ Once(Prompted) /\ InText(Held(Prompted), mode)
  /\ Live(Prompted) = 0 .. NPrompt - 1
<1> DEFINE e(t) == [tok |-> t, pos |-> PromptPos(t)]
           r    == Prompted
<1>1. \A t \in 0 .. NPrompt - 1 : t \in Nat /\ t \in Cell /\ t < NPrompt /\ e(t) \in Entry
  <2>1. \A t \in 0 .. NPrompt - 1 : t \in Nat /\ t \in Cell /\ t < NPrompt
    BY Constants DEF Cell
  <2> QED BY <2>1, PromptPositions DEF Entry
<1>2. r = [cell |-> [i \in Cell |-> IF i < NPrompt THEN e(i) ELSE Free], head |-> NPrompt]
  BY DEF Prompted
<1>3. \A i \in Cell : i < NPrompt <=> i \in 0 .. NPrompt - 1
  BY Constants DEF Cell
<1>4. \A t : e(t).tok = t /\ e(t).pos = PromptPos(t)
  OBVIOUS
<1> HIDE DEF e
<1>5. r \in MemType
  <2>1. \A i \in Cell : (IF i < NPrompt THEN e(i) ELSE Free) \in Entry \cup {Free}
    BY <1>1, <1>3
  <2>2. NPrompt \in 0 .. NCells
    BY Constants
  <2> HIDE DEF r
  <2> QED BY <1>2, <2>1, <2>2 DEF MemType
<1> HIDE DEF r
<1>6. \A i \in Cell : r.cell[i] = IF i < NPrompt THEN e(i) ELSE Free
  BY <1>2
<1>7. Live(r) = 0 .. NPrompt - 1
  BY <1>1, <1>3, <1>6, CellFacts DEF Live
<1>8. \A t \in 0 .. NPrompt - 1 : r.cell[t] = e(t)
  BY <1>1, <1>6
<1>9. Held(r) = {e(t) : t \in 0 .. NPrompt - 1}
  BY <1>7, <1>8 DEF Held
<1>10. Once(r)
  <2> SUFFICES ASSUME NEW i \in 0 .. NPrompt - 1, NEW j \in 0 .. NPrompt - 1,
                      r.cell[i] = r.cell[j]
               PROVE  i = j
    BY <1>7 DEF Once
  <2> QED BY <1>4, <1>8
<1>11. InText(Held(r), mode)
  <2> SUFFICES ASSUME NEW t \in 0 .. NPrompt - 1, NEW u \in 0 .. NPrompt - 1
               PROVE  /\ e(t).tok = e(u).tok => e(t) = e(u)
                      /\ e(t).tok < e(u).tok => IF mode.image THEN e(t).pos <= e(u).pos
                                                ELSE e(t).pos < e(u).pos
    BY <1>9 DEF InText
  <2> QED BY <1>4, PromptPositions
<1>12. Held(r) = {[tok |-> t, pos |-> PromptPos(t)] : t \in 0 .. NPrompt - 1}
  BY <1>9 DEF e
<1> QED BY <1>5, <1>7, <1>10, <1>11, <1>12 DEF r

(* The prompt is as promised. *)
LEMMA InitKeeps == Init => BInv
<1> SUFFICES ASSUME Init PROVE BInv
  OBVIOUS
<1>1. /\ mode \in Modes /\ mem = Prompted /\ pc = "prefill" /\ step = 0 /\ made = 0
      /\ lastEvict = -1 /\ nAnchored = 0 /\ evicted = 0 /\ tier = 0 /\ kNow = K
      /\ lastPoll = -1 /\ anchors = {} /\ kept = {}
  BY DEF Init
<1>2. ~Looping
  BY <1>1 DEF Looping
<1>3. TypeInv
  <2>1. 0 \in 0 .. MaxSteps /\ -1 \in -1 .. MaxSteps /\ 0 \in Tiers
    BY Constants DEF Tiers
  <2> QED BY <1>1, <2>1, PromptedDoes DEF TypeInv
<1>4. \A a \in Held(mem) : \E t \in 0 .. NPrompt - 1 : a = [tok |-> t, pos |-> PromptPos(t)]
  BY <1>1, PromptedDoes
<1>5. \A t \in 0 .. NPrompt - 1 : [tok |-> t, pos |-> PromptPos(t)] \in Held(mem)
  BY <1>1, PromptedDoes
<1>6. TextInv
  <2>1. \A a \in Held(mem) : a.tok < NPrompt + made
    BY <1>1, <1>4, Constants
  <2> QED BY <1>1, <2>1, PromptedDoes DEF TextInv
<1>7. PromptInv
  BY <1>1, <1>4 DEF PromptInv
<1>8. SinkInv
  <2>1. \A s \in 0 .. NSink - 1 : s \in 0 .. NPrompt - 1
    BY Constants
  <2> QED BY <1>5, <2>1, PromptPositions DEF SinkInv
<1>9. Answer = {}
  BY <1>1, Constants DEF Answer
<1>10. AnchorInv /\ RecentInv /\ BandInv /\ WindowInv /\ CountInv /\ KeptInv
  BY <1>1, <1>2, <1>9 DEF AnchorInv, RecentInv, Newer, Newest, BandInv, WindowInv, CountInv, KeptInv
<1>11. BudgetKept
  BY <1>1 DEF BudgetKept, CacheBounded, WindowDense, Settled
<1> QED BY <1>3, <1>6, <1>7, <1>8, <1>10, <1>11 DEF BInv

-----------------------------------------------------------------------------
(* The tokens of a cache are those of its entries. *)
LEMMA ToksHeld ==
  ASSUME NEW m
  PROVE  Toks(m) = {a.tok : a \in Held(m)}
BY DEF Toks, Held

(* An eviction only takes entries away, by cell or by position.            *)
Evicts(m, keep, n, e) ==
    LET drop == 0 .. n - 1 \ keep
    IN  /\ e.mem \in MemType /\ Once(e.mem) /\ Held(e.mem) \in SUBSET Held(m)
        /\ e.count \in Nat /\ TokensIn(m, keep) \in SUBSET Nat
        /\ ~mode.image => Held(e.mem) = {a \in Held(m) : a.pos \notin drop}
        /\ mode.image => /\ Held(e.mem) = {m.cell[i] : i \in Live(m) \ drop}
                         /\ TokensIn(m, keep) \subseteq Toks(e.mem)
                         /\ e.count = Cardinality(Live(m)) - Cardinality(Live(e.mem))

(* apply_eviction does. *)
LEMMA ApplyEvictionDoes ==
  ASSUME NEW m \in MemType, Once(m), NEW n \in Nat, NEW keep
  PROVE  Evicts(m, keep, n, ApplyEviction(m, keep, n))
<1> DEFINE e    == ApplyEviction(m, keep, n)
           drop == 0 .. n - 1 \ keep
<1> SUFFICES Evicts(m, keep, n, e)
  OBVIOUS
<1>1. IsFiniteSet(drop)
  <2>1. IsFiniteSet(0 .. n - 1) /\ drop \in SUBSET (0 .. n - 1)
    BY FS_Interval
  <2> QED BY <2>1, FS_Subset
<1>2. TokensIn(m, keep) \in SUBSET Nat
  BY HeldType DEF TokensIn
<1> HIDE DEF drop
<1>3. CASE ~mode.image
  <2>1. e = [mem |-> SeqRm(m, drop), count |-> Cardinality(drop)]
    BY <1>3 DEF ApplyEviction, drop
  <2>2. /\ e.mem \in MemType /\ Held(e.mem) = {a \in Held(m) : a.pos \notin drop}
        /\ Once(e.mem)
    BY <2>1, SeqRmDoes
  <2>3. e.count \in Nat
    BY <1>1, <2>1, FS_CardinalityType
  <2> HIDE DEF e
  <2> QED BY <1>2, <1>3, <2>2, <2>3 DEF Evicts, drop
<1>4. CASE mode.image
  <2>1. e = [mem |-> RmCells(m, drop), count |-> Cardinality(drop \cap Live(m))]
    BY <1>4 DEF ApplyEviction, drop
  <2>2. /\ e.mem \in MemType /\ Live(e.mem) = Live(m) \ drop /\ Once(e.mem)
        /\ Held(e.mem) = {m.cell[i] : i \in Live(m) \ drop}
    BY <2>1, RmCellsDoes
  <2>3. Cardinality(Live(e.mem)) = Cardinality(Live(m)) - e.count /\ e.count \in Nat
    <3>1. drop \cap Live(m) = Live(m) \cap drop /\ e.count = Cardinality(drop \cap Live(m))
      BY <2>1
    <3>2. IsFiniteSet(drop \cap Live(m))
      BY <1>1, FS_Intersection
    <3>3. Cardinality(Live(m) \ drop) = Cardinality(Live(m)) - Cardinality(Live(m) \cap drop)
      BY HeldType, FS_Difference
    <3> QED BY <2>2, <3>1, <3>2, <3>3, FS_CardinalityType
  <2>4. TokensIn(m, keep) \subseteq Toks(e.mem)
    <3>1. \A i \in keep \cap Live(m) : i \in Live(m) \ drop
      BY DEF drop
    <3>2. Toks(e.mem) = {a.tok : a \in Held(e.mem)}
      BY ToksHeld
    <3> QED BY <2>2, <3>1, <3>2 DEF TokensIn
  <2>5. e.count = Cardinality(Live(m)) - Cardinality(Live(e.mem))
    BY <2>3, HeldType
  <2>6. Held(e.mem) \in SUBSET Held(m)
    BY <2>2 DEF Held
  <2> HIDE DEF e
  <2> QED BY <1>2, <1>4, <2>2, <2>3, <2>4, <2>5, <2>6 DEF Evicts, drop
<1> QED BY <1>3, <1>4

(* What EvictPrompt keeps has the sinks, and is the window of StreamingLLM. *)
LEMMA PromptKeep ==
  ASSUME BInv, EvictPrompt
  PROVE  \E keep : /\ mem' = ApplyEviction(mem, keep, NPrompt).mem
                   /\ kept' = TokensIn(mem, keep)
                   /\ mode.policy # "keydiff" => Sinks(NPrompt) \subseteq keep
                   /\ mode.policy = "sllm" => keep = WindowKeep(NPrompt)
<1>1. CASE mode.policy = "sllm"
  BY <1>1 DEF EvictPrompt, WindowKeep
<1>2. CASE mode.policy = "keydiff"
  BY <1>2 DEF EvictPrompt
<1>3. CASE mode.policy # "sllm" /\ mode.policy # "keydiff"
  <2>1. PICK keep \in {S \cup Sinks(NPrompt) : S \in SUBSET Live(mem)} :
          /\ mem' = ApplyEviction(mem, keep, NPrompt).mem
          /\ kept' = TokensIn(mem, keep)
    BY <1>3 DEF EvictPrompt
  <2> QED BY <1>3, <2>1
<1> QED BY <1>1, <1>2, <1>3

(* The sinks are the first tokens, as NSink is less than K. *)
LEMMA SinksAre ==
  ASSUME NEW n \in Nat
  PROVE  /\ \A s \in 0 .. NSink - 1 : s <= n - 1 => s \in Sinks(n)
         /\ Sinks(n) \subseteq 0 .. NSink - 1
<1> DEFINE x == Min({NSink, n})
<1>1. x \in {NSink, n} /\ x <= NSink /\ x <= n
  BY Constants, MinOfTwo
<1>2. Sinks(n) = 0 .. x - 1
  BY DEF Sinks
<1> HIDE DEF x
<1> QED BY <1>1, <1>2, Constants

(* Prefill's eviction. *)
LEMMA EvictPromptKeeps ==
  ASSUME BInv, EvictPrompt
  PROVE  BInv'
<1>1. /\ pc = "prefill" /\ pc' = "move" /\ mem = Prompted
      /\ UNCHANGED <<mode, tier, kNow, lastPoll, step, made, lastEvict, nAnchored,
                     evicted, anchors>>
  BY DEF EvictPrompt, BInv, PromptInv, heat
<1>2. ~Looping /\ ~Looping'
  BY <1>1 DEF Looping
<1>3. /\ mem \in MemType /\ Once(mem) /\ InText(Held(mem), mode) /\ mode \in Modes
      /\ made = 0 /\ evicted = 0
  BY <1>2 DEF BInv, TypeInv, TextInv, PromptInv
<1>4. PICK keep : /\ mem' = ApplyEviction(mem, keep, NPrompt).mem
                  /\ kept' = TokensIn(mem, keep)
                  /\ mode.policy # "keydiff" => Sinks(NPrompt) \subseteq keep
                  /\ mode.policy = "sllm" => keep = WindowKeep(NPrompt)
  BY PromptKeep
<1> DEFINE drop == 0 .. NPrompt - 1 \ keep
<1>5. /\ mem' \in MemType /\ Once(mem') /\ Held(mem') \in SUBSET Held(mem)
      /\ kept' \in SUBSET Nat
      /\ ~mode.image => Held(mem') = {a \in Held(mem) : a.pos \notin drop}
      /\ mode.image => /\ Held(mem') = {mem.cell[i] : i \in Live(mem) \ drop}
                       /\ kept' \subseteq Toks(mem')
  <2> DEFINE e == ApplyEviction(mem, keep, NPrompt)
  <2>1. Evicts(mem, keep, NPrompt, e)
    BY <1>3, Constants, ApplyEvictionDoes
  <2>2. mem' = e.mem /\ kept' = TokensIn(mem, keep)
    BY <1>4
  <2> HIDE DEF e
  <2> QED BY <2>1, <2>2 DEF Evicts
<1>6. TypeInv'
  BY <1>1, <1>5 DEF BInv, TypeInv
<1>7. TextInv'
  <2>1. InText(Held(mem'), mode')
    BY <1>1, <1>3, <1>5, LessText
  <2> QED BY <1>1, <1>5, <2>1 DEF BInv, TextInv
<1>8. PromptInv'
  BY <1>1, <1>2, <1>5 DEF BInv, PromptInv, PromptPos
<1>9. \A s \in 0 .. NSink - 1 : s \in Sinks(NPrompt) /\ s \in 0 .. NPrompt - 1
  <2>1. \A s \in 0 .. NSink - 1 : s <= NPrompt - 1 /\ s \in 0 .. NPrompt - 1
    BY Constants
  <2> QED BY <2>1, SinksAre, Constants
<1>10. SinkInv'
  <2> SUFFICES ASSUME mode.policy # "keydiff", NEW s \in 0 .. NSink - 1
               PROVE  \E a \in Held(mem') : a.tok = s /\ (~mode.image => a.pos = s)
    BY <1>1 DEF SinkInv
  <2> DEFINE a == [tok |-> s, pos |-> PromptPos(s)]
  <2>1. s \in 0 .. NPrompt - 1 /\ s \notin drop
    BY <1>4, <1>9
  <2>2. a \in Held(mem) /\ s \in Live(mem) /\ mem.cell[s] = a
    <3>1. a \in Held(mem) /\ s \in Live(mem)
      BY <1>1, <2>1, PromptedDoes
    <3>2. mem.cell[s] = a
      BY <1>1, <2>1, Constants DEF Prompted, Cell
    <3> QED BY <3>1, <3>2
  <2>3. CASE mode.image
    <3>1. a \in Held(mem')
      BY <1>5, <2>1, <2>2, <2>3
    <3> QED BY <2>3, <3>1
  <2>4. CASE ~mode.image
    <3>1. a.pos = s
      BY <2>4, PromptPositions
    <3>2. a \in Held(mem')
      BY <1>5, <2>1, <2>2, <2>4, <3>1
    <3> QED BY <3>1, <3>2
  <2> QED BY <2>3, <2>4
<1>11. Answer' = {}
  BY <1>1, <1>3, Constants DEF Answer
<1>12. AnchorInv' /\ RecentInv' /\ BandInv' /\ CountInv' /\ KeptInv'
  BY <1>1, <1>2, <1>5, <1>11 DEF AnchorInv, RecentInv, Newer, Newest, BandInv, CountInv, KeptInv
<1>13. WindowInv'
  <2> SUFFICES ASSUME mode.policy = "sllm", ~mode.image
               PROVE  \E h \in Nat : /\ h >= NSink /\ h + (K - NSink) = NPrompt
                                     /\ Positions(mem') = (0 .. NSink - 1)
                                                          \cup (h .. h + (K - NSink) - 1)
    BY <1>1 DEF WindowInv, WindowFrom
  <2> DEFINE h == NPrompt - (K - NSink)
  <2>1. h \in Nat /\ h >= NSink /\ h + (K - NSink) - 1 = NPrompt - 1 /\ h + (K - NSink) = NPrompt
    BY Constants
  <2>2. keep = Sinks(NPrompt) \cup (h .. NPrompt - 1)
    BY <1>4 DEF WindowKeep
  <2>3. \A p : p \in Positions(mem') <=> p \in 0 .. NPrompt - 1 /\ p \in keep
    <3>1. Positions(mem) = 0 .. NPrompt - 1
      <4>1. \A t \in 0 .. NPrompt - 1 : PromptPos(t) = t
        BY PromptPositions
      <4>2. \A a \in Held(mem) : \E t \in 0 .. NPrompt - 1 :
              a = [tok |-> t, pos |-> PromptPos(t)]
        BY <1>1, PromptedDoes
      <4>3. \A t \in 0 .. NPrompt - 1 : [tok |-> t, pos |-> PromptPos(t)] \in Held(mem)
        BY <1>1, PromptedDoes
      <4>4. \A p \in Positions(mem) : p \in 0 .. NPrompt - 1
        BY <4>1, <4>2 DEF Positions
      <4>5. ASSUME NEW t \in 0 .. NPrompt - 1 PROVE t \in Positions(mem)
        <5> DEFINE a == [tok |-> t, pos |-> PromptPos(t)]
        <5>1. a \in Held(mem) /\ a.pos = t
          BY <4>1, <4>3
        <5> QED BY <5>1 DEF Positions
      <4> QED BY <4>4, <4>5
    <3>2. Positions(mem') = {p \in Positions(mem) : p \notin drop}
      BY <1>5 DEF Positions
    <3> QED BY <3>1, <3>2
  <2>4. \A p : p \in Sinks(NPrompt) <=> p \in 0 .. NSink - 1
    BY <1>9, SinksAre, Constants
  <2> HIDE DEF h
  <2>5. \A p \in h .. NPrompt - 1 : p \in 0 .. NPrompt - 1
    BY <2>1, Constants
  <2>6. Positions(mem') = (0 .. NSink - 1) \cup (h .. NPrompt - 1)
    BY <1>9, <2>2, <2>3, <2>4, <2>5
  <2> QED BY <2>1, <2>6
<1>14. BudgetKept'
  BY <1>1 DEF BudgetKept, CacheBounded, WindowDense, Settled
<1> QED BY <1>6, <1>7, <1>8, <1>10, <1>12, <1>13, <1>14 DEF BInv

-----------------------------------------------------------------------------
(* A cache in text order has as many tokens as cells in use. *)
LEMMA ToksCount ==
  ASSUME NEW m \in MemType, Once(m), NEW md, InText(Held(m), md)
  PROVE  IsFiniteSet(Toks(m)) /\ Cardinality(Toks(m)) = Cardinality(Live(m))
         /\ Toks(m) \in SUBSET Nat
<1> DEFINE H == Held(m)
           f == [a \in H |-> a.tok]
<1>1. Toks(m) = {a.tok : a \in H}
  BY ToksHeld
<1>2. f \in Bijection(H, Toks(m))
  <2>1. f \in [H -> Toks(m)] /\ \A t \in Toks(m) : \E a \in H : f[a] = t
    BY <1>1
  <2>2. IsInjective(f)
    BY DEF IsInjective, InText
  <2> QED BY <2>1, <2>2 DEF Bijection, Injection, Surjection
<1>3. ExistsBijection(H, Toks(m))
  BY <1>2 DEF ExistsBijection
<1>4. Toks(m) \in SUBSET Nat
  BY <1>1, HeldType
<1> QED BY <1>3, <1>4, LiveCount, FS_Bijection

(* The loop starts with what is left of the prompt.                        *)
LEMMA StartKeeps ==
  ASSUME BInv, ~Looping, StartDecode(mem'), mem' \in MemType, Once(mem'),
         InText(Held(mem'), mode), \A a \in Held(mem') : a.tok < NPrompt,
         SinkInv', WindowInv', KeptInv',
         UNCHANGED <<mode, heat, step, made, lastEvict, evicted, kept>>
  PROVE  BInv'
<1>1. /\ nAnchored' = PosMax(mem') + 1 /\ anchors' = Toks(mem') /\ pc' = "decode"
      /\ UNCHANGED <<mode, tier, kNow, lastPoll, step, made, lastEvict, evicted, kept>>
  BY DEF StartDecode, heat
<1>2. made = 0 /\ evicted = 0 /\ mode \in Modes /\ step \in Nat
  BY Constants DEF BInv, PromptInv, TypeInv
<1>3. /\ IsFiniteSet(anchors') /\ anchors' \in SUBSET Nat
      /\ Cardinality(anchors') = Cardinality(Live(mem')) /\ nAnchored' \in Nat
  BY <1>1, ToksCount, PosMaxIs
<1>4. TypeInv'
  BY <1>1, <1>2, <1>3 DEF BInv, TypeInv
<1>5. TextInv'
  BY <1>1, <1>2, Constants DEF TextInv
<1>6. PromptInv'
  BY <1>1 DEF PromptInv, Looping
<1>7. Answer' = {}
  BY <1>1, <1>2, Constants DEF Answer
<1>8. \A a \in Held(mem') : a.pos < nAnchored'
  <2>1. \A a \in Held(mem') : a.pos <= PosMax(mem') /\ a.pos \in Nat
    BY PosMaxIs, HeldType
  <2> QED BY <1>1, <2>1, PosMaxIs
<1>9. AnchorInv'
  <2>1. ASSUME mode.policy # "keydiff", ~mode.image PROVE nAnchored' >= NSink
    <3>1. NSink - 1 \in 0 .. NSink - 1
      BY Constants
    <3>2. PICK a \in Held(mem') : a.pos = NSink - 1
      BY <1>1, <2>1, <3>1 DEF SinkInv
    <3> QED BY <1>3, <1>8, <3>2, Constants
  <2>2. \A t \in anchors' : \E a \in Held(mem') : a.tok = t
    BY <1>1, ToksHeld
  <2> QED BY <1>1, <1>7, <1>8, <2>1, <2>2 DEF AnchorInv
<1>10. RecentInv'
  BY <1>7 DEF RecentInv, Newer, Newest
<1>11. BandInv'
  <2>1. nAnchored' .. PosMax(mem') = {}
    BY <1>1, PosMaxIs
  <2> QED BY <2>1 DEF BandInv
<1>12. CountInv'
  <2>1. Cardinality(Live(mem')) \in Nat
    BY HeldType
  <2> QED BY <1>1, <1>2, <1>3, <2>1 DEF CountInv
<1>13. BudgetKept'
  BY <1>1, <1>2 DEF BudgetKept, CacheBounded, WindowDense, Settled
<1> QED BY <1>4, <1>5, <1>6, <1>9, <1>10, <1>11, <1>12, <1>13 DEF BInv

(* A cache that holds the same, wherever, keeps what is promised of what it
   holds.                                                                  *)
LEMMA SameHeld ==
  ASSUME NEW a, NEW b, Held(a) = Held(b), a \in MemType, b \in MemType
  PROVE  Toks(a) = Toks(b) /\ PosMax(a) = PosMax(b) /\ Positions(a) = Positions(b)
<1>1. {a.cell[i].pos : i \in Live(a)} = {x.pos : x \in Held(a)}
  BY DEF Held
<1>2. {b.cell[i].pos : i \in Live(b)} = {x.pos : x \in Held(b)}
  BY DEF Held
<1> QED BY <1>1, <1>2, ToksHeld DEF PosMax, Positions

(* Survivors that stay, or are moved together. *)
LEMMA MoveKeeps ==
  ASSUME BInv, StayPut \/ CompactInPlace \/ SwapContext
  PROVE  BInv'
<1>1. /\ pc = "move" /\ mem \in MemType /\ Once(mem) /\ InText(Held(mem), mode)
      /\ \A a \in Held(mem) : a.tok < NPrompt + made
      /\ UNCHANGED <<mode, heat, step, made, lastEvict, evicted, kept>>
  BY DEF BInv, TypeInv, TextInv, StayPut, CompactInPlace, SwapContext
<1>2. ~Looping /\ made = 0
  BY <1>1 DEF Looping, BInv, PromptInv
<1>3. mem' = mem \/ mem' = Compact(mem)
  BY DEF StayPut, CompactInPlace, SwapContext, Restore
<1>4. mem' \in MemType /\ Held(mem') = Held(mem) /\ Once(mem')
  BY <1>1, <1>3, CompactDoes
<1>5. Toks(mem') = Toks(mem) /\ Positions(mem') = Positions(mem)
  BY <1>1, <1>4, SameHeld
<1>6. SinkInv'
  BY <1>1, <1>4 DEF BInv, SinkInv
<1>7. KeptInv'
  BY <1>1, <1>5 DEF BInv, KeptInv
<1>8. pc' \in {"decode", "warmup"}
  BY DEF StayPut, CompactInPlace, SwapContext, StartDecode
<1>9. WindowInv'
  BY <1>1, <1>2, <1>5, <1>8 DEF BInv, WindowInv, WindowFrom
<1>10. CASE StayPut \/ CompactInPlace
  <2>1. StartDecode(mem')
    BY <1>10 DEF StayPut, CompactInPlace
  <2>2. \A a \in Held(mem') : a.tok < NPrompt
    BY <1>1, <1>2, <1>4, Constants
  <2> QED BY <1>1, <1>2, <1>4, <1>6, <1>7, <1>9, <2>1, <2>2, StartKeeps
<1>11. CASE SwapContext
  <2>1. /\ pc' = "warmup" /\ mode.move = "swap"
        /\ UNCHANGED <<mode, tier, kNow, lastPoll, step, made, lastEvict, nAnchored,
                       evicted, anchors, kept>>
    BY <1>11 DEF SwapContext, heat
  <2>2. ~Looping'
    BY <2>1 DEF Looping
  <2>3. TypeInv' /\ TextInv'
    BY <1>1, <1>4, <2>1 DEF BInv, TypeInv, TextInv
  <2>4. PromptInv'
    BY <1>2, <1>4, <2>1, <2>2 DEF BInv, PromptInv, PromptPos
  <2>5. Answer' = {}
    BY <1>2, <2>1, Constants DEF Answer
  <2>6. AnchorInv' /\ RecentInv' /\ BandInv' /\ CountInv' /\ BudgetKept'
    BY <2>1, <2>2, <2>5 DEF AnchorInv, RecentInv, Newer, Newest, BandInv, CountInv,
       BudgetKept, CacheBounded, WindowDense, Settled
  <2> QED BY <1>6, <1>7, <1>9, <2>3, <2>4, <2>6 DEF BInv
<1> QED BY <1>10, <1>11

-----------------------------------------------------------------------------
(* A window grows by the token that is placed behind it.                   *)
LEMMA WindowGrows ==
  ASSUME NEW m \in MemType, NEW r \in MemType, NEW h \in Nat, NEW n \in Nat, h >= NSink,
         Positions(m) = (0 .. NSink - 1) \cup (h .. h + n - 1),
         Positions(r) = Positions(m) \cup {PosMax(m) + 1}
  PROVE  \E g \in Nat : /\ g >= NSink
                        /\ Positions(r) = (0 .. NSink - 1) \cup (g .. g + (n + 1) - 1)
<1>1. NSink \in Nat /\ NSink > 0
  BY Constants
<1>2. \A p \in Nat : p \in Positions(m) => \E a \in Held(m) : a.pos = p
  BY DEF Positions
<1>3. \A a \in Held(m) : a.pos \in Positions(m)
  BY DEF Positions
<1>4. CASE n = 0
  <2>1. Positions(m) = 0 .. NSink - 1
    BY <1>1, <1>4
  <2>2. PosMax(m) = NSink - 1
    <3>1. NSink - 1 \in Nat /\ NSink - 1 \in Positions(m)
      BY <1>1, <2>1
    <3>2. \A a \in Held(m) : a.pos <= NSink - 1
      BY <1>1, <1>3, <2>1
    <3> QED BY <1>2, <3>1, <3>2, PosMaxAt
  <2>3. Positions(r) = (0 .. NSink - 1) \cup {NSink}
    BY <1>1, <2>1, <2>2
  <2>4. NSink .. NSink + (n + 1) - 1 = {NSink}
    BY <1>1, <1>4
  <2>5. NSink >= NSink
    BY <1>1
  <2> QED BY <1>1, <2>3, <2>4, <2>5
<1>5. CASE n > 0
  <2>1. PosMax(m) = h + n - 1
    <3>1. h + n - 1 \in Nat /\ h + n - 1 \in h .. h + n - 1
      BY <1>5
    <3>2. \A a \in Held(m) : a.pos <= h + n - 1
      <4>1. \A p \in 0 .. NSink - 1 : p <= h + n - 1
        BY <1>1, <1>5
      <4>2. \A p \in h .. h + n - 1 : p <= h + n - 1
        OBVIOUS
      <4> QED BY <1>3, <4>1, <4>2
    <3> QED BY <1>2, <3>1, <3>2, PosMaxAt
  <2>2. h .. h + (n + 1) - 1 = (h .. h + n - 1) \cup {PosMax(m) + 1}
    BY <2>1
  <2>3. Positions(r) = (0 .. NSink - 1) \cup (h .. h + (n + 1) - 1)
    BY <2>2
  <2> QED BY <2>3
<1> QED BY <1>4, <1>5

(* The last token of the prompt, decoded again in the second context. *)
LEMMA WarmUpKeeps ==
  ASSUME BInv, WarmUp
  PROVE  BInv'
<1> DEFINE m   == SeqRm(mem, {NPrompt - 1})
           new == [tok |-> NPrompt - 1, pos |-> PosMax(m) + 1]
<1>1. /\ pc = "warmup" /\ mem' = Place(m, NPrompt - 1) /\ StartDecode(mem')
      /\ UNCHANGED <<mode, heat, step, made, lastEvict, evicted, kept>>
  BY DEF WarmUp
<1>2. /\ mem \in MemType /\ Once(mem) /\ InText(Held(mem), mode) /\ mode \in Modes
      /\ \A a \in Held(mem) : a.tok < NPrompt + made
  BY DEF BInv, TypeInv, TextInv
<1>3. ~Looping /\ made = 0 /\ ~mode.image
  BY <1>1, <1>2, Constants DEF Looping, BInv, PromptInv
<1>4. \A a \in Held(mem) : a.pos = a.tok /\ a.tok \in Nat /\ a.tok < NPrompt
  <2>1. \A a \in Held(mem) : a.pos = a.tok
    BY <1>3, PromptPositions DEF BInv, PromptInv
  <2> QED BY <1>2, <1>3, <2>1, HeldType, Constants
<1>5. /\ m \in MemType /\ Held(m) = {a \in Held(mem) : a.pos \notin {NPrompt - 1}}
      /\ Once(m) /\ Held(m) \in SUBSET Held(mem)
  BY <1>2, SeqRmDoes
<1>6. InText(Held(m), mode)
  BY <1>2, <1>5, LessText
<1> HIDE DEF m
<1>7. NPrompt - 1 \in Nat /\ \A a \in Held(m) : a.tok < NPrompt - 1 /\ a.pos < NPrompt - 1
  BY <1>4, <1>5, Constants
<1>8. Cardinality(Live(m)) < NCells
  <2>1. Cardinality(Live(m)) <= NPrompt - 1
    BY <1>5, <1>6, <1>7, TokenCount
  <2> QED BY <1>5, <2>1, HeldType, Constants
<1>9. /\ mem' \in MemType /\ new \in Entry /\ Held(mem') = Held(m) \cup {new} /\ Once(mem')
  BY <1>1, <1>5, <1>7, <1>8, PlaceDoes
<1>10. new.tok = NPrompt - 1 /\ new.pos = PosMax(m) + 1
  OBVIOUS
<1> HIDE DEF new
<1>11. InText(Held(mem'), mode)
  <2>1. \A a \in Held(m) : a.tok < new.tok /\ a.pos < new.pos
    <3>1. \A a \in Held(m) : a.pos <= PosMax(m) /\ a.pos \in Nat
      BY <1>5, PosMaxIs, HeldType
    <3> QED BY <1>5, <1>7, <1>10, <3>1, PosMaxIs
  <2>2. Held(m) \in SUBSET Entry
    BY <1>5, HeldType
  <2> QED BY <1>6, <1>9, <2>1, <2>2, MoreText
<1>12. \A a \in Held(mem') : a.tok < NPrompt
  BY <1>4, <1>5, <1>9, <1>10, Constants
<1>13. SinkInv'
  <2> SUFFICES ASSUME mode.policy # "keydiff", NEW s \in 0 .. NSink - 1
               PROVE  \E a \in Held(mem') : a.tok = s /\ (~mode.image => a.pos = s)
    BY <1>1 DEF SinkInv
  <2>1. PICK a \in Held(mem) : a.tok = s /\ a.pos = s
    BY <1>3 DEF BInv, SinkInv
  <2>2. a.pos # NPrompt - 1
    BY <2>1, Constants
  <2> QED BY <1>5, <1>9, <2>1, <2>2
<1>14. WindowInv'
  <2> SUFFICES ASSUME mode.policy = "sllm"
               PROVE  \E g \in Nat : /\ g >= NSink
                                     /\ Positions(mem') = (0 .. NSink - 1)
                                                          \cup (g .. g + (K - NSink) - 1)
    BY <1>1 DEF WindowInv, WindowFrom, StartDecode, Looping
  <2>1. PICK h \in Nat : /\ WindowFrom(h, K - NSink) /\ h + (K - NSink) = NPrompt
    BY <1>1, <1>3 DEF BInv, WindowInv
  <2> DEFINE n == K - NSink - 1
  <2>2. n \in Nat /\ n + 1 = K - NSink /\ h + n = NPrompt - 1 /\ h >= NSink
    BY <2>1, Constants DEF WindowFrom
  <2>3. Positions(m) = (0 .. NSink - 1) \cup (h .. h + n - 1)
    <3>1. Positions(mem) = (0 .. NSink - 1) \cup (h .. h + (K - NSink) - 1)
      BY <2>1 DEF WindowFrom
    <3>2. Positions(m) = Positions(mem) \ {NPrompt - 1}
      BY <1>5 DEF Positions
    <3>3. NPrompt - 1 \notin 0 .. NSink - 1
      BY Constants
    <3>4. (h .. h + (K - NSink) - 1) \ {NPrompt - 1} = h .. h + n - 1
      BY <2>2, Constants
    <3> HIDE DEF n
    <3> QED BY <3>1, <3>2, <3>3, <3>4
  <2>4. Positions(mem') = Positions(m) \cup {PosMax(m) + 1}
    BY <1>9, <1>10 DEF Positions
  <2> HIDE DEF n
  <2>5. \E g \in Nat : /\ g >= NSink
                       /\ Positions(mem') = (0 .. NSink - 1) \cup (g .. g + (n + 1) - 1)
    BY <1>5, <1>9, <2>2, <2>3, <2>4, WindowGrows
  <2> QED BY <2>2, <2>5
<1>15. KeptInv'
  BY <1>1, <1>3 DEF KeptInv
<1> QED BY <1>1, <1>3, <1>9, <1>11, <1>12, <1>13, <1>14, <1>15, StartKeeps

-----------------------------------------------------------------------------
KNows == {K} \cup {KTier[t] : t \in Tiers}

(* The budgets that heat may leave, and the least of them. *)
LEMMA Budgets ==
  /\ LeastK \in Nat /\ LeastK > NSink /\ LeastRecent \in Nat /\ LeastRecent > 0
  /\ \A k \in KNows : /\ k \in Nat /\ KNominal(k) \in Nat /\ KNominal(k) >= LeastK
                      /\ nAnchored \in Nat => /\ RecentFor(k) \in Nat
                                              /\ RecentFor(k) >= LeastRecent
<1>1. KNows \in SUBSET Nat /\ KNows # {} /\ \A k \in KNows : k > NSink
  BY Constants DEF KNows
<1>2. K \in KNows
  BY DEF KNows
<1>3. Min(KNows) \in KNows /\ \A k \in KNows : Min(KNows) <= k
  BY <1>1, MinIs
<1>4. LeastK = IF mode.thermal = "off" THEN K ELSE Min(KNows)
  BY DEF LeastK, KNows
<1>5. LeastK \in KNows
  BY <1>2, <1>3, <1>4
<1>6. ASSUME NEW k \in KNows PROVE k \in Nat /\ KNominal(k) \in Nat /\ KNominal(k) >= LeastK
  <2>1. CASE mode.thermal = "off"
    BY <1>1, <1>4, <2>1, Constants DEF KNominal
  <2>2. CASE mode.thermal # "off"
    BY <1>1, <1>3, <1>4, <2>2 DEF KNominal
  <2> QED BY <2>1, <2>2
<1>7. LeastRecent \in Nat /\ LeastRecent > 0
  BY Constants DEF LeastRecent
<1>8. ASSUME NEW k \in KNows, nAnchored \in Nat
      PROVE  RecentFor(k) \in Nat /\ RecentFor(k) >= LeastRecent
  <2>1. CASE mode.thermal = "off"
    BY <1>7, <2>1, Constants DEF RecentFor, LeastRecent
  <2>2. CASE mode.thermal # "off"
    <3> DEFINE x == k - NSink - nAnchored
               r == Max({MinRecent, x})
    <3>1. x \in Int /\ MinRecent \in Int /\ MinRecent \in Nat
      BY <1>1, <1>8, Constants
    <3> HIDE DEF x
    <3>2. r \in {MinRecent, x} /\ MinRecent <= r
      BY <3>1, MaxOfTwo
    <3>3. RecentFor(k) = r /\ LeastRecent = MinRecent
      BY <2>2 DEF RecentFor, LeastRecent, x
    <3> HIDE DEF r
    <3>4. r \in Nat
      BY <3>1, <3>2
    <3> QED BY <3>1, <3>2, <3>3, <3>4
  <2> QED BY <2>1, <2>2
<1> HIDE DEF KNows
<1>9. LeastK \in Nat /\ LeastK > NSink
  BY <1>1, <1>5
<1> QED BY <1>6, <1>7, <1>8, <1>9

(* A token decoded in the loop. *)
LEMMA DecodeKeeps ==
  ASSUME BInv, DecodeToken
  PROVE  BInv'
<1> DEFINE new == [tok |-> NPrompt + made, pos |-> PosMax(mem) + 1]
<1>1. /\ pc = "decode" /\ step < MaxSteps /\ mem' = Place(mem, NPrompt + made)
      /\ made' = made + 1 /\ pc' = "evict"
      /\ UNCHANGED <<mode, tier, kNow, lastPoll, step, lastEvict, nAnchored, evicted,
                     anchors, kept>>
  BY DEF DecodeToken, heat
<1>2. /\ mem \in MemType /\ Once(mem) /\ InText(Held(mem), mode) /\ mode \in Modes
      /\ \A a \in Held(mem) : a.tok < NPrompt + made
      /\ step \in 0 .. MaxSteps /\ made \in 0 .. MaxSteps /\ made <= step
  BY <1>1 DEF BInv, TypeInv, TextInv
<1>3. Looping /\ Looping' /\ made \in Nat /\ step \in Nat /\ NPrompt + made \in Nat
  BY <1>1, <1>2, Constants DEF Looping
<1>4. Cardinality(Live(mem)) < NCells
  <2>1. Cardinality(Live(mem)) <= NPrompt + made
    BY <1>2, <1>3, TokenCount
  <2> QED BY <1>1, <1>2, <1>3, <2>1, HeldType, Constants
<1>5. /\ mem' \in MemType /\ new \in Entry /\ Held(mem') = Held(mem) \cup {new} /\ Once(mem')
      /\ Cardinality(Live(mem')) = Cardinality(Live(mem)) + 1
  BY <1>1, <1>2, <1>3, <1>4, PlaceDoes
<1>6. new.tok = NPrompt + made /\ new.pos = PosMax(mem) + 1
  OBVIOUS
<1> HIDE DEF new
<1>7. PosMax(mem) \in Int /\ PosMax(mem) + 1 \in Nat
  BY <1>2, PosMaxIs
<1>8. \A a \in Held(mem) : /\ a.tok \in Nat /\ a.pos \in Nat /\ a.pos <= PosMax(mem)
                           /\ a.tok < new.tok /\ a.pos < new.pos
  <2>1. \A a \in Held(mem) : a.tok \in Nat /\ a.pos \in Nat /\ a.pos <= PosMax(mem)
    BY <1>2, HeldType, PosMaxIs
  <2> QED BY <1>2, <1>6, <1>7, <2>1
<1>9. PosMax(mem') = PosMax(mem) + 1
  <2>1. new \in Held(mem') /\ \A a \in Held(mem') : a.pos <= PosMax(mem) + 1
    BY <1>5, <1>6, <1>7, <1>8
  <2> QED BY <1>5, <1>6, <1>7, <2>1, PosMaxAt
<1>10. TypeInv'
  <2>1. step \in 0 .. MaxSteps /\ made + 1 \in 0 .. MaxSteps /\ made + 1 <= step + 1 /\ made + 1 > 0
    BY <1>1, <1>2, <1>3, Constants
  <2> QED BY <1>1, <1>5, <2>1 DEF BInv, TypeInv
<1>11. TextInv'
  <2>1. InText(Held(mem'), mode)
    <3>1. Held(mem) \in SUBSET Entry
      BY <1>2, HeldType
    <3> QED BY <1>2, <1>5, <1>8, <3>1, MoreText
  <2>2. new.tok < NPrompt + made'
    BY <1>1, <1>3, <1>6, Constants
  <2>3. \A a \in Held(mem) : a.tok < NPrompt + made'
    BY <1>1, <1>3, <1>6, <1>8, Constants
  <2> QED BY <1>1, <1>5, <2>1, <2>2, <2>3 DEF TextInv
<1>12. PromptInv'
  BY <1>1, <1>3 DEF PromptInv
<1>13. SinkInv'
  BY <1>1, <1>5 DEF BInv, SinkInv
<1>14. Toks(mem') = Toks(mem) \cup {NPrompt + made}
  BY <1>5, <1>6, ToksHeld
<1>15. Answer' = Answer \cup {NPrompt + made}
  BY <1>1, <1>3, Constants DEF Answer
<1>16. AnchorInv'
  <2>1. /\ mode.policy # "keydiff" /\ ~mode.image => nAnchored >= NSink
        /\ mode.policy \in {"tiered", "frozen"} =>
             \A t \in anchors : \E a \in Held(mem) : a.tok = t /\ a.pos < nAnchored
        /\ mode.policy = "frozen" => Answer \subseteq Toks(mem)
    BY <1>3 DEF BInv, AnchorInv
  <2> QED BY <1>1, <1>5, <1>14, <1>15, <2>1 DEF AnchorInv
<1>17. ASSUME NEW n \in Int, Newer(n) PROVE Newer(n)'
  <2> SUFFICES ASSUME NEW t \in Answer', t >= NPrompt + made' - n
               PROVE  \E a \in Held(mem') :
                        a.tok = t /\ a.pos = PosMax(mem') - (NPrompt + made' - 1 - t)
    BY DEF Newer, Newest
  <2>1. CASE t = NPrompt + made
    <3>1. new.pos = PosMax(mem') - (NPrompt + made' - 1 - t)
      BY <1>1, <1>3, <1>6, <1>7, <1>9, <2>1, Constants
    <3> QED BY <1>5, <1>6, <2>1, <3>1
  <2>2. CASE t # NPrompt + made
    <3>1. t \in Answer /\ t \in Int
      BY <1>15, <2>2, <1>3, Constants DEF Answer
    <3>2. t >= NPrompt + made - n
      BY <1>1, <1>3, <3>1, Constants
    <3>3. PICK a \in Held(mem) : a.tok = t /\ a.pos = PosMax(mem) - (NPrompt + made - 1 - t)
      BY <1>17, <3>1, <3>2 DEF Newer, Newest
    <3>4. a.pos = PosMax(mem') - (NPrompt + made' - 1 - t)
      BY <1>1, <1>3, <1>7, <1>9, <3>1, <3>3, Constants
    <3> QED BY <1>5, <3>3, <3>4
  <2> QED BY <2>1, <2>2
<1>18. RecentInv'
  <2>1. LeastRecent \in Int /\ LeastK - NSink \in Int
    BY Budgets, Constants
  <2>2. LeastRecent' = LeastRecent /\ LeastK' = LeastK
    BY <1>1 DEF LeastRecent, LeastK
  <2>3. ASSUME NEW n \in Int, n = LeastRecent, mode.policy = "tiered"
        PROVE  Newer(LeastRecent)'
    <3>1. Newer(n)
      BY <2>3 DEF BInv, RecentInv
    <3>2. Newer(n)'
      BY <1>17, <3>1
    <3> QED BY <2>2, <2>3, <3>2 DEF Newer, Newest
  <2>4. ASSUME NEW n \in Int, n = LeastK - NSink, mode.policy \in {"recency", "sllm"}
        PROVE  Newer(LeastK - NSink)'
    <3>1. Newer(n)
      BY <2>4 DEF BInv, RecentInv
    <3>2. Newer(n)'
      BY <1>17, <3>1
    <3> QED BY <2>2, <2>4, <3>2 DEF Newer, Newest
  <2> QED BY <1>1, <2>1, <2>3, <2>4 DEF RecentInv
<1>19. BandInv'
  <2> SUFFICES ASSUME mode.policy = "tiered", ~mode.quant, ~mode.image,
                      NEW p \in nAnchored .. PosMax(mem')
               PROVE  \E a \in Held(mem') : a.pos = p
    BY <1>1 DEF BandInv
  <2>1. CASE p = PosMax(mem) + 1
    BY <1>5, <1>6, <2>1
  <2>2. CASE p # PosMax(mem) + 1
    <3>1. p \in nAnchored .. PosMax(mem)
      BY <1>7, <1>9, <2>2 DEF BInv, TypeInv
    <3>2. \E a \in Held(mem) : a.pos = p
      BY <1>3, <3>1 DEF BInv, BandInv
    <3> QED BY <1>5, <3>2
  <2> QED BY <2>1, <2>2
<1>20. WindowInv'
  <2> SUFFICES ASSUME mode.policy = "sllm", ~mode.image
               PROVE  \E g \in Nat : /\ g >= NSink
                                     /\ Positions(mem') = (0 .. NSink - 1)
                                                     \cup (g .. g + (K - NSink + 1) - 1)
    BY <1>1, <1>3 DEF WindowInv, WindowFrom
  <2>1. PICK h \in Nat : WindowFrom(h, K - NSink)
    BY <1>1 DEF BInv, WindowInv
  <2>2. K - NSink \in Nat
    BY Constants
  <2>3. Positions(mem') = Positions(mem) \cup {PosMax(mem) + 1}
    BY <1>5, <1>6 DEF Positions
  <2> QED BY <1>2, <1>5, <2>1, <2>2, <2>3, WindowGrows DEF WindowFrom
<1>21. CountInv'
  <2>1. Cardinality(Live(mem)) \in Nat /\ evicted \in Nat
    BY <1>2, HeldType DEF BInv, TypeInv
  <2>2. Looping => IsFiniteSet(anchors)
    BY DEF BInv, CountInv
  <2>3. Cardinality(anchors) \in Nat
    BY <1>3, <2>2, FS_CardinalityType
  <2>4. mode.image \/ (mode.policy \in {"tiered", "sllm"} /\ ~mode.quant)
          => evicted = Cardinality(anchors) + made - Cardinality(Live(mem))
    BY <1>3 DEF BInv, CountInv
  <2>5. mode.image \/ (mode.policy \in {"tiered", "sllm"} /\ ~mode.quant)
          => evicted = Cardinality(anchors) + (made + 1) - (Cardinality(Live(mem)) + 1)
    BY <1>3, <2>1, <2>3, <2>4
  <2> QED BY <1>1, <1>3, <1>5, <2>2, <2>5 DEF CountInv
<1>22. KeptInv'
  BY <1>1, <1>14 DEF BInv, KeptInv
<1>23. BudgetKept'
  BY <1>1 DEF BudgetKept, CacheBounded, WindowDense, Settled
<1> QED BY <1>10, <1>11, <1>12, <1>13, <1>16, <1>18, <1>19, <1>20, <1>21, <1>22, <1>23 DEF BInv

-----------------------------------------------------------------------------
(* A step of the loop that leaves the cache as it is. *)
LEMMA LeaveKeeps ==
  ASSUME BInv, Looping, Looping', TypeInv', WindowInv', BudgetKept',
         UNCHANGED <<mode, mem, made, nAnchored, evicted, anchors, kept>>
  PROVE  BInv'
<1>1. TextInv' /\ SinkInv' /\ KeptInv'
  BY DEF BInv, TextInv, SinkInv, KeptInv
<1>6. PromptInv'
  BY DEF PromptInv, Looping
<1>2. Answer' = Answer
  BY DEF Answer
<1>3. AnchorInv' /\ BandInv' /\ CountInv'
  BY <1>2 DEF BInv, AnchorInv, BandInv, CountInv
<1>4. LeastRecent' = LeastRecent /\ LeastK' = LeastK
  BY DEF LeastRecent, LeastK
<1>5. RecentInv'
  BY <1>2, <1>4 DEF BInv, RecentInv, Newer, Newest
<1> QED BY <1>1, <1>3, <1>5, <1>6 DEF BInv

(* An end-of-generation token, and the end of the loop. *)
LEMMA LoopEndKeeps ==
  ASSUME BInv, SkipEog \/ Finish
  PROVE  BInv'
<1>1. /\ pc = "decode" /\ pc' \in {"decode", "done"}
      /\ UNCHANGED <<mode, mem, made, lastEvict, nAnchored, evicted, anchors, kept,
                     tier, kNow, lastPoll>>
      /\ \/ step' = step
         \/ step < MaxSteps /\ step' = step + 1
  <2>1. CASE SkipEog
    BY <2>1 DEF SkipEog, heat
  <2>2. CASE Finish
    BY <2>2 DEF Finish, heat
  <2> QED BY <2>1, <2>2
<1>2. Looping /\ Looping'
  BY <1>1 DEF Looping
<1>3. step \in 0 .. MaxSteps /\ made \in 0 .. MaxSteps /\ made <= step
  BY <1>1 DEF BInv, TypeInv
<1>4. step' \in 0 .. MaxSteps /\ made <= step'
  BY <1>1, <1>3, Constants
<1>5. TypeInv'
  BY <1>1, <1>4 DEF BInv, TypeInv
<1>6. WindowInv'
  BY <1>1, <1>2 DEF BInv, WindowInv, WindowFrom
<1>7. BudgetKept'
  BY <1>1 DEF BInv, BudgetKept, CacheBounded, WindowDense, Settled, KNominal, RecentFor
<1> QED BY <1>1, <1>2, <1>5, <1>6, <1>7, LeaveKeeps

(* What every eviction after a decode has in common. *)
LEMMA EvictionFacts ==
  ASSUME BInv, NEW p, EvictionStep(p)
  PROVE  /\ pc = "evict" /\ pc' = "decode" /\ mode.policy = p
         /\ Looping /\ Looping' /\ made > 0 /\ made \in Nat
         /\ mode \in Modes /\ mem \in MemType /\ Once(mem) /\ InText(Held(mem), mode)
         /\ \A a \in Held(mem) : a.tok < NPrompt + made
         /\ step \in 0 .. MaxSteps /\ step' \in 0 .. MaxSteps /\ made <= step'
         /\ tier' \in Tiers /\ kNow' \in KNows /\ lastPoll' \in -1 .. MaxSteps
         /\ nAnchored \in Nat /\ evicted \in Nat /\ lastEvict \in -1 .. MaxSteps
         /\ kept \in SUBSET Nat
         /\ UNCHANGED <<mode, made, nAnchored, anchors>>
<1>1. /\ pc = "evict" /\ pc' = "decode" /\ mode.policy = p /\ step' = step + 1 /\ PollHeat
      /\ UNCHANGED <<mode, made, nAnchored, anchors>>
  BY DEF EvictionStep
<1>2. /\ mode \in Modes /\ mem \in MemType /\ Once(mem) /\ InText(Held(mem), mode)
      /\ \A a \in Held(mem) : a.tok < NPrompt + made
      /\ step \in 0 .. MaxSteps /\ step < MaxSteps /\ made \in 0 .. MaxSteps /\ made > 0
      /\ made <= step + 1 /\ tier \in Tiers /\ kNow \in KNows /\ lastPoll \in -1 .. MaxSteps
      /\ nAnchored \in Nat /\ evicted \in Nat /\ lastEvict \in -1 .. MaxSteps
      /\ kept \in SUBSET Nat
  BY <1>1 DEF BInv, TypeInv, TextInv, KNows
<1>3. made \in Nat /\ step' \in 0 .. MaxSteps /\ made <= step'
  BY <1>1, <1>2, Constants
<1>4. tier' \in Tiers /\ kNow' \in KNows /\ lastPoll' \in -1 .. MaxSteps
  <2>1. CASE UNCHANGED heat
    BY <1>2, <2>1 DEF heat
  <2>2. CASE tier' \in NextTiers /\ kNow' = KTier[tier'] /\ lastPoll' = step
    <3>1. tier' \in Tiers
      BY <2>2 DEF NextTiers
    <3>2. step \in -1 .. MaxSteps
      BY <1>2, Constants
    <3> QED BY <2>2, <3>1, <3>2 DEF KNows
  <2> QED BY <1>1, <2>1, <2>2 DEF PollHeat
<1>5. Looping /\ Looping'
  BY <1>1 DEF Looping
<1> QED BY <1>1, <1>2, <1>3, <1>4, <1>5

(* An eviction keeps the invariant when it keeps what it may disturb. *)
LEMMA EvictionKeeps ==
  ASSUME BInv, NEW p, EvictionStep(p),
         mem' \in MemType, Once(mem'), InText(Held(mem'), mode),
         \A a \in Held(mem') : a.tok < NPrompt + made,
         evicted' \in Nat, kept' \in SUBSET Nat, lastEvict' \in -1 .. MaxSteps,
         SinkInv', AnchorInv', RecentInv', BandInv', WindowInv', CountInv', KeptInv',
         BudgetKept'
  PROVE  BInv'
<1>1. /\ pc' = "decode" /\ Looping' /\ step' \in 0 .. MaxSteps /\ made <= step'
      /\ tier' \in Tiers /\ kNow' \in KNows /\ lastPoll' \in -1 .. MaxSteps
      /\ UNCHANGED <<mode, made, nAnchored, anchors>>
  BY EvictionFacts
<1>2. TypeInv'
  BY <1>1 DEF BInv, TypeInv, KNows
<1>3. TextInv'
  BY <1>1 DEF TextInv
<1>4. PromptInv'
  BY <1>1 DEF PromptInv
<1> QED BY <1>2, <1>3, <1>4 DEF BInv

(* Policies with no invariant of their own: step, frozen, keydiff. *)
LEMMA FrozenKeeps ==
  ASSUME BInv, KeepFrozen
  PROVE  BInv'
<1>1. EvictionStep("frozen") /\ UNCHANGED <<mem, evicted, kept, lastEvict>>
  BY DEF KeepFrozen, Leave
<1>2. /\ pc' = "decode" /\ mode.policy = "frozen" /\ Looping /\ Looping'
      /\ step' \in 0 .. MaxSteps /\ made <= step'
      /\ tier' \in Tiers /\ kNow' \in KNows /\ lastPoll' \in -1 .. MaxSteps
      /\ UNCHANGED <<mode, made, nAnchored, anchors>>
  BY <1>1, EvictionFacts
<1>3. TypeInv'
  BY <1>1, <1>2 DEF BInv, TypeInv, KNows
<1>4. WindowInv' /\ BudgetKept'
  BY <1>2 DEF WindowInv, BudgetKept, CacheBounded, WindowDense
<1> QED BY <1>1, <1>2, <1>3, <1>4, LeaveKeeps

(* An eviction that leaves the cache as it is. *)
LEMMA LeaveAfter ==
  ASSUME BInv, NEW p, EvictionStep(p), Leave, lastEvict' \in -1 .. MaxSteps,
         p # "sllm" \/ mode.image, BudgetKept'
  PROVE  BInv'
<1>1. /\ pc' = "decode" /\ mode.policy = p /\ Looping /\ Looping'
      /\ step' \in 0 .. MaxSteps /\ made <= step'
      /\ tier' \in Tiers /\ kNow' \in KNows /\ lastPoll' \in -1 .. MaxSteps
      /\ UNCHANGED <<mode, made, nAnchored, anchors>>
  BY EvictionFacts
<1>2. UNCHANGED <<mem, evicted, kept>>
  BY DEF Leave
<1>3. TypeInv'
  BY <1>1, <1>2 DEF BInv, TypeInv, KNows
<1>4. WindowInv'
  BY <1>1, <1>2 DEF WindowInv
<1> QED BY <1>1, <1>2, <1>3, <1>4, LeaveKeeps

(* The extent of the attention row is a number of cells. *)
LEMMA RowExtent ==
  ASSUME NEW m \in MemType
  PROVE  NKv(m) \in Nat
<1> DEFINE S == Live(m) \cup {-1}
           u == Max(S) + 1
           q == (u + Pad - 1) \div Pad
           r == q * Pad
           x == Max({Pad, r})
<1>1. Pad \in Nat /\ Pad > 0 /\ NCells \in Nat
  BY Constants
<1>2. u \in Int
  <2>1. IsFiniteSet(S)
    BY HeldType, FS_AddElement
  <2>2. S \in SUBSET Int /\ S # {}
    <3>1. Live(m) \in SUBSET Nat
      BY HeldType, CellFacts
    <3>2. \A i \in Nat : i \in Int
      OBVIOUS
    <3> QED BY <3>1, <3>2
  <2>3. u = Max(S) + 1
    OBVIOUS
  <2> HIDE DEF S, u
  <2>4. Max(S) \in S
    BY <2>1, <2>2, MaxIs
  <2>5. Max(S) \in Int
    BY <2>2, <2>4
  <2> HIDE DEF S
  <2> QED BY <2>3, <2>5
<1> HIDE DEF u
<1>3. q \in Int
  BY <1>1, <1>2
<1> HIDE DEF q
<1>4. r \in Int
  BY <1>1, <1>3
<1> HIDE DEF r
<1>5. x \in {Pad, r} /\ Pad <= x
  BY <1>1, <1>4, MaxOfTwo
<1> HIDE DEF x
<1>6. x \in Nat
  BY <1>1, <1>4, <1>5
<1>7. Min({NCells, x}) \in {NCells, x}
  BY <1>1, <1>6, MinOfTwo
<1>8. NKv(m) = Min({NCells, x})
  BY DEF NKv, S, u, q, r, x
<1> QED BY <1>1, <1>6, <1>7, <1>8

(* Eviction by attention scores protects the sinks. *)
LEMMA ByScoreKeeps ==
  ASSUME BInv, EvictByScore
  PROVE  BInv'
<1> DEFINE n == NKv(mem)
<1>1. PICK keep \in ScoreKeeps(n) :
        LET e == ApplyEviction(mem, keep, n)
        IN  mem' = e.mem /\ evicted' = evicted + e.count /\ kept' = TokensIn(mem, keep)
  BY DEF EvictByScore
<1>2. EvictionStep("step") /\ lastEvict' = lastEvict
  BY DEF EvictByScore
<1>3. /\ pc' = "decode" /\ mode.policy = "step" /\ Looping /\ Looping'
      /\ mode \in Modes /\ mem \in MemType /\ Once(mem) /\ InText(Held(mem), mode)
      /\ \A a \in Held(mem) : a.tok < NPrompt + made
      /\ evicted \in Nat /\ lastEvict \in -1 .. MaxSteps
      /\ UNCHANGED <<mode, made, nAnchored, anchors>>
  BY <1>2, EvictionFacts
<1>4. ~mode.image
  BY <1>3, Constants
<1>5. n \in Nat
  BY <1>3, RowExtent
<1> HIDE DEF n
<1> DEFINE e == ApplyEviction(mem, keep, n)
           drop == 0 .. n - 1 \ keep
<1>6. Evicts(mem, keep, n, e)
  BY <1>3, <1>5, ApplyEvictionDoes
<1>7. mem' = e.mem /\ evicted' = evicted + e.count /\ kept' = TokensIn(mem, keep)
  BY <1>1
<1> HIDE DEF e
<1>8. /\ mem' \in MemType /\ Once(mem') /\ Held(mem') \in SUBSET Held(mem)
      /\ e.count \in Nat /\ kept' \in SUBSET Nat
      /\ Held(mem') = {a \in Held(mem) : a.pos \notin drop}
  BY <1>4, <1>6, <1>7 DEF Evicts
<1>9. InText(Held(mem'), mode) /\ \A a \in Held(mem') : a.tok < NPrompt + made
  BY <1>3, <1>8, LessText
<1>10. evicted' \in Nat
  BY <1>3, <1>7, <1>8
<1>11. SinkInv'
  <2> SUFFICES ASSUME NEW s \in 0 .. NSink - 1
               PROVE  \E a \in Held(mem') : a.tok = s /\ a.pos = s
    BY <1>3, <1>4 DEF SinkInv
  <2>1. PICK a \in Held(mem) : a.tok = s /\ a.pos = s
    BY <1>3, <1>4 DEF BInv, SinkInv
  <2>2. s \notin drop
    <3>1. Sinks(n) \subseteq keep
      BY <1>1 DEF ScoreKeeps
    <3>2. s \in 0 .. n - 1 => s <= n - 1
      BY <1>5
    <3> QED BY <1>5, <3>1, <3>2, SinksAre
  <2> QED BY <1>8, <2>1, <2>2
<1>12. AnchorInv' /\ RecentInv' /\ BandInv' /\ WindowInv' /\ CountInv' /\ KeptInv'
  BY <1>3, <1>4 DEF BInv, AnchorInv, RecentInv, BandInv, WindowInv, CountInv, KeptInv
<1>13. BudgetKept'
  BY <1>3 DEF BudgetKept, CacheBounded, WindowDense
<1> QED BY <1>2, <1>3, <1>8, <1>9, <1>10, <1>11, <1>12, <1>13, EvictionKeeps

(* KeyDiff in the loop. *)
LEMMA ByKeyDiffKeeps ==
  ASSUME BInv, EvictByKeyDiff
  PROVE  BInv'
<1> DEFINE n == Scored(mem, PosMax(mem) + 1)
<1>1. EvictionStep("keydiff")
  BY DEF EvictByKeyDiff
<1>2. /\ pc' = "decode" /\ mode.policy = "keydiff" /\ Looping /\ Looping'
      /\ mode \in Modes /\ mem \in MemType /\ Once(mem) /\ InText(Held(mem), mode)
      /\ \A a \in Held(mem) : a.tok < NPrompt + made
      /\ evicted \in Nat /\ lastEvict \in -1 .. MaxSteps /\ made \in Nat
      /\ step \in 0 .. MaxSteps
      /\ UNCHANGED <<mode, made, nAnchored, anchors>>
  BY <1>1, EvictionFacts
<1>3. BudgetKept'
  BY <1>2 DEF BudgetKept, CacheBounded, WindowDense
<1>4. lastEvict' \in -1 .. MaxSteps
  <2>1. lastEvict' = lastEvict \/ lastEvict' = step
    BY DEF EvictByKeyDiff
  <2> QED BY <1>2, <2>1, Constants
<1>5. CASE Leave
  BY <1>1, <1>3, <1>4, <1>5, LeaveAfter
<1>6. CASE ~Leave
  <2>1. PICK keep \in KeyDiffKeeps(n) :
          LET e == ApplyEviction(mem, keep, n)
          IN  /\ mem' = IF e.count > 0 /\ mode.move = "inplace"
                        THEN Compact(e.mem) ELSE e.mem
              /\ evicted' = evicted + e.count
              /\ kept' = TokensIn(mem, keep)
    BY <1>6 DEF EvictByKeyDiff
  <2>2. n \in Nat
    BY <1>2, HeldType DEF Scored
  <2> HIDE DEF n
  <2> DEFINE e == ApplyEviction(mem, keep, n)
             r == e.mem
  <2>3. Evicts(mem, keep, n, e)
    BY <1>2, <2>2, ApplyEvictionDoes
  <2>4. /\ mem' = r \/ mem' = Compact(r)
        /\ evicted' = evicted + e.count /\ kept' = TokensIn(mem, keep)
    BY <2>1
  <2> HIDE DEF e
  <2>5. /\ r \in MemType /\ Once(r) /\ Held(r) \in SUBSET Held(mem)
        /\ e.count \in Nat /\ kept' \in SUBSET Nat
        /\ mode.image => /\ kept' \subseteq Toks(r)
                         /\ e.count = Cardinality(Live(mem)) - Cardinality(Live(r))
    BY <2>3, <2>4 DEF Evicts
  <2> HIDE DEF r
  <2>6. /\ mem' \in MemType /\ Once(mem') /\ Held(mem') = Held(r)
        /\ Cardinality(Live(mem')) = Cardinality(Live(r))
    BY <2>4, <2>5, CompactDoes
  <2>7. Toks(mem') = Toks(r)
    BY <2>6, ToksHeld
  <2>8. InText(Held(mem'), mode) /\ \A a \in Held(mem') : a.tok < NPrompt + made
    BY <1>2, <2>5, <2>6, LessText
  <2>9. evicted' \in Nat
    BY <1>2, <2>4, <2>5
  <2>10. CountInv'
    <3>1. IsFiniteSet(anchors)
      BY <1>2 DEF BInv, CountInv
    <3>2. ASSUME mode.image
          PROVE  evicted' = Cardinality(anchors) + made - Cardinality(Live(mem'))
      <4>1. evicted = Cardinality(anchors) + made - Cardinality(Live(mem))
        BY <1>2, <3>2 DEF BInv, CountInv
      <4>2. /\ Cardinality(anchors) \in Nat /\ Cardinality(Live(mem)) \in Nat
            /\ Cardinality(Live(r)) \in Nat
        BY <1>2, <2>5, <3>1, HeldType, FS_CardinalityType
      <4> QED BY <1>2, <2>4, <2>5, <2>6, <3>2, <4>1, <4>2
    <3> QED BY <1>2, <3>1, <3>2 DEF CountInv
  <2>11. KeptInv'
    BY <1>2, <2>5, <2>7 DEF KeptInv
  <2>12. SinkInv' /\ AnchorInv' /\ RecentInv' /\ BandInv' /\ WindowInv'
    BY <1>2 DEF SinkInv, AnchorInv, RecentInv, BandInv, WindowInv
  <2> QED BY <1>1, <1>3, <1>4, <2>5, <2>6, <2>8, <2>9, <2>10, <2>11, <2>12, EvictionKeeps
<1> QED BY <1>5, <1>6

-----------------------------------------------------------------------------
Behind(from, to) == IF mode.quant THEN 0 ELSE to - from

(* What is left when a band is cut out of a text: what is before it stays,
   what is behind it stays or moves up together.                           *)
BandIsCut(m, c, from, to) ==
    /\ c \in MemType /\ Once(c) /\ InText(Held(c), mode)
    /\ \A x \in Held(c) : \E a \in Held(m) : x.tok = a.tok
    /\ \A a \in Held(m) : a.pos < from => a \in Held(c)
    /\ \A a \in Held(m) : a.pos >= to =>
         \E x \in Held(c) : x.tok = a.tok /\ x.pos = a.pos - Behind(from, to)
    /\ PosMax(c) = PosMax(m) - Behind(from, to)
    /\ Cardinality(Live(c)) <= from + (PosMax(m) + 1 - to)
    /\ (\A p \in from .. to - 1 : \E a \in Held(m) : a.pos = p)
         => Cardinality(Live(c)) = Cardinality(Live(m)) - (to - from)

(* CutBand cuts a band that ends before the last position. *)
LEMMA CutBandDoes ==
  ASSUME NEW m \in MemType, Once(m), InText(Held(m), mode), ~mode.image,
         NEW from \in Nat, NEW to \in Nat, from < to, to <= PosMax(m),
         \E a \in Held(m) : a.pos = PosMax(m)
  PROVE  BandIsCut(m, CutBand(m, from, to), from, to)
<1> DEFINE c   == CutBand(m, from, to)
           B   == {a \in Held(m) : a.pos \in from .. to - 1}
           G   == {a \in Held(m) : a.pos \notin from .. to - 1}
           gap == Behind(from, to)
           top == PosMax(m)
           moved(a) == IF mode.quant THEN a ELSE Closed(a, from, to)
<1> SUFFICES BandIsCut(m, c, from, to)
  OBVIOUS
<1>1. /\ top \in Int /\ gap \in Int /\ gap >= 0 /\ gap <= to - from
      /\ \A a \in Held(m) : a.pos \in Nat /\ a.tok \in Nat /\ a.pos <= top
      /\ Held(m) \in SUBSET Entry
  <2>1. gap \in Int /\ gap >= 0 /\ gap <= to - from
    BY DEF Behind
  <2>2. Held(m) \in SUBSET Entry /\ \A a \in Held(m) : a.pos \in Nat /\ a.tok \in Nat
    BY HeldType
  <2>3. top \in Int /\ \A a \in Held(m) : a.pos <= top
    BY PosMaxIs
  <2> HIDE DEF gap, top
  <2> QED BY <2>1, <2>2, <2>3
<1>2. \A a \in G : a.pos < from \/ a.pos >= to
  BY <1>1
<1>3. \A a \in Held(m) : a.pos < from \/ a.pos >= to => a \in G
  BY <1>1
<1>4. /\ c \in MemType /\ Once(c) /\ InText(Held(c), mode)
      /\ Held(c) = {moved(a) : a \in G}
      /\ \A a, b \in G : moved(a) = moved(b) => a = b
  <2>1. CASE mode.quant
    <3>1. c = SeqRm(m, from .. to - 1)
      BY <2>1 DEF CutBand
    <3>2. c \in MemType /\ Once(c) /\ Held(c) = G
      BY <3>1, SeqRmDoes
    <3>3. InText(G, mode)
      <4>1. G \in SUBSET Held(m)
        OBVIOUS
      <4> HIDE DEF G
      <4> QED BY <4>1, LessText
    <3>4. \A a : moved(a) = a
      BY <2>1
    <3> HIDE DEF G, c, moved
    <3> QED BY <3>2, <3>3, <3>4
  <2>2. CASE ~mode.quant
    <3> DEFINE d == SeqAdd(SeqRm(m, from .. to - 1), to .. PosMax(m), from - to)
    <3>1. c = d
      BY <2>2 DEF CutBand
    <3>2. /\ d \in MemType /\ Once(d) /\ Held(d) = {Closed(a, from, to) : a \in G}
          /\ InText(Held(d), mode)
          /\ \A a, b \in G : Closed(a, from, to) = Closed(b, from, to) => a = b
      <4>1. from <= to
        OBVIOUS
      <4> QED BY <4>1, CutDoes
    <3>3. \A a : moved(a) = Closed(a, from, to)
      BY <2>2
    <3> HIDE DEF G, c, d, moved
    <3> QED BY <3>1, <3>2, <3>3
  <2> QED BY <2>1, <2>2
<1>5. \A a \in G : /\ moved(a).tok = a.tok
                   /\ moved(a).pos = IF a.pos >= to THEN a.pos - gap ELSE a.pos
  <2>1. CASE mode.quant
    BY <1>1, <2>1 DEF Behind
  <2>2. CASE ~mode.quant
    BY <2>2 DEF Behind, Closed
  <2> QED BY <2>1, <2>2
<1>6. ASSUME NEW a \in Held(m), a.pos < from
      PROVE  a \in Held(c)
  <2>1. a \in G /\ ~(a.pos >= to)
    BY <1>1, <1>3, <1>6
  <2>2. moved(a) = a
    <3>1. \A e \in Entry : e = [tok |-> e.tok, pos |-> e.pos]
      BY DEF Entry
    <3>2. a = [tok |-> a.tok, pos |-> a.pos]
      BY <1>1, <3>1
    <3> QED BY <2>1, <3>2 DEF Closed
  <2> HIDE DEF moved, G, c
  <2> QED BY <1>4, <2>1, <2>2
<1>7. ASSUME NEW a \in Held(m), a.pos >= to
      PROVE  \E x \in Held(c) : x.tok = a.tok /\ x.pos = a.pos - gap
  <2>1. a \in G
    BY <1>3, <1>7
  <2> HIDE DEF moved, G, c, gap
  <2> QED BY <1>4, <1>5, <1>7, <2>1
<1>8. \A x \in Held(c) : \E a \in G : x = moved(a)
  BY <1>4
<1>9. \A x \in Held(c) : \E a \in Held(m) : x.tok = a.tok
  BY <1>5, <1>8
<1>10. PosMax(c) = top - gap
  <2>1. PICK a \in Held(m) : a.pos = top
    OBVIOUS
  <2>2. \E x \in Held(c) : x.pos = top - gap
    BY <1>1, <1>7, <2>1
  <2>3. \A x \in Held(c) : x.pos <= top - gap
    <3> SUFFICES ASSUME NEW b \in G PROVE moved(b).pos <= top - gap
      BY <1>8
    <3>1. b.pos \in Nat /\ b.pos <= top /\ (b.pos < from \/ b.pos >= to)
      BY <1>1, <1>2
    <3>2. moved(b).pos = IF b.pos >= to THEN b.pos - gap ELSE b.pos
      BY <1>5
    <3> HIDE DEF moved, gap, top, G
    <3>3. to <= top
      BY DEF top
    <3> QED BY <1>1, <3>1, <3>2, <3>3
  <2>4. top - gap \in Nat
    <3> HIDE DEF gap, top
    <3>1. to <= top
      BY DEF top
    <3> QED BY <1>1, <3>1
  <2> HIDE DEF c, gap, top
  <2> QED BY <1>4, <2>2, <2>3, <2>4, PosMaxAt
<1>11. /\ IsFiniteSet(Held(m)) /\ Cardinality(Held(m)) = Cardinality(Live(m))
       /\ Cardinality(Held(c)) = Cardinality(Live(c))
  <2> HIDE DEF c
  <2> QED BY <1>4, LiveCount
<1>12. IsFiniteSet(G) /\ Cardinality(G) = Cardinality(Live(c))
  <2> DEFINE f == [a \in G |-> moved(a)]
  <2>1. f \in Bijection(G, Held(c))
    <3>1. f \in [G -> Held(c)] /\ \A x \in Held(c) : \E a \in G : f[a] = x
      BY <1>4
    <3>2. IsInjective(f)
      BY <1>4 DEF IsInjective
    <3> QED BY <3>1, <3>2 DEF Bijection, Injection, Surjection
  <2>2. ExistsBijection(G, Held(c))
    BY <2>1 DEF ExistsBijection
  <2>3. G \in SUBSET Held(m)
    OBVIOUS
  <2> HIDE DEF G, c, f
  <2>4. IsFiniteSet(G)
    BY <1>11, <2>3, FS_Subset
  <2> QED BY <1>11, <2>2, <2>4, FS_Bijection
<1>13. Cardinality(G) <= from + (top + 1 - to)
  <2> DEFINE P == {a.pos : a \in G}
             L == 0 .. from - 1
             R == to .. top
  <2>1. InText(G, mode) /\ G \in SUBSET Entry
    <3>1. G \in SUBSET Held(m)
      OBVIOUS
    <3> HIDE DEF G
    <3> QED BY <1>1, <3>1, LessText
  <2>2. P \in SUBSET (L \cup R)
    BY <1>1, <1>2
  <2>3. /\ IsFiniteSet(L) /\ IsFiniteSet(R)
        /\ Cardinality(L) = from /\ Cardinality(R) = top + 1 - to
    <3>1. /\ IsFiniteSet(L) /\ Cardinality(L) = IF 0 > from - 1 THEN 0 ELSE (from - 1) - 0 + 1
      BY FS_Interval
    <3>3. to <= top
      BY DEF top
    <3>4. top \in Int /\ to \in Int
      BY <1>1
    <3> HIDE DEF top
    <3>2. /\ IsFiniteSet(R) /\ Cardinality(R) = IF to > top THEN 0 ELSE top - to + 1
      BY <3>4, FS_Interval
    <3> HIDE DEF L, R
    <3> QED BY <1>1, <3>1, <3>2, <3>3
  <2>4. L \cap R = {}
    OBVIOUS
  <2> HIDE DEF G, L, R
  <2>5. Cardinality(P) = Cardinality(G)
    BY <1>12, <2>1, PositionCount
  <2> HIDE DEF P
  <2>6. /\ IsFiniteSet(L \cup R)
        /\ Cardinality(L \cup R) = Cardinality(L) + Cardinality(R) - Cardinality(L \cap R)
    BY <2>3, FS_Union
  <2>7. Cardinality(L \cap R) = 0
    BY <2>4, FS_EmptySet
  <2>8. Cardinality(P) <= Cardinality(L \cup R)
    BY <2>2, <2>6, FS_Subset
  <2> HIDE DEF top
  <2> QED BY <1>1, <2>3, <2>5, <2>6, <2>7, <2>8
<1>14. ASSUME \A p \in from .. to - 1 : \E a \in Held(m) : a.pos = p
       PROVE  Cardinality(Live(c)) = Cardinality(Live(m)) - (to - from)
  <2>1. InText(B, mode) /\ B \in SUBSET Entry /\ B \in SUBSET Held(m)
    <3>1. B \in SUBSET Held(m)
      OBVIOUS
    <3> HIDE DEF B
    <3> QED BY <1>1, <3>1, LessText
  <2>2. {a.pos : a \in B} = from .. to - 1
    <3>1. \A a \in B : a.pos \in from .. to - 1
      OBVIOUS
    <3>2. \A p \in from .. to - 1 : \E a \in B : a.pos = p
      BY <1>14
    <3> HIDE DEF B
    <3> QED BY <3>1, <3>2
  <2>3. Cardinality(from .. to - 1) = to - from
    <3>1. Cardinality(from .. to - 1) = IF from > to - 1 THEN 0 ELSE (to - 1) - from + 1
      BY FS_Interval
    <3> QED BY <3>1
  <2>4. G = Held(m) \ B /\ Held(m) \cap B = B
    OBVIOUS
  <2> HIDE DEF B, G, c
  <2>5. IsFiniteSet(B)
    BY <1>11, <2>1, FS_Subset
  <2>6. Cardinality(B) = to - from
    BY <2>1, <2>2, <2>3, <2>5, PositionCount
  <2>7. Cardinality(Held(m) \ B) = Cardinality(Held(m)) - Cardinality(Held(m) \cap B)
    BY <1>11, FS_Difference
  <2> QED BY <1>11, <1>12, <2>4, <2>6, <2>7
<1>15. Cardinality(Live(c)) <= from + (PosMax(m) + 1 - to)
  BY <1>12, <1>13
<1> HIDE DEF c
<1> QED BY <1>4, <1>6, <1>7, <1>9, <1>10, <1>14, <1>15 DEF BandIsCut

(* What a policy that cuts bands promises to keep of the answer. *)
Least(p) == IF p = "tiered" THEN LeastRecent ELSE LeastK - NSink

(* A band that spares the sinks, the anchors and the recent part. *)
LEMMA BandKeeps ==
  ASSUME BInv, NEW p \in {"tiered", "recency"}, EvictionStep(p), ~mode.image,
         NEW from \in Nat, NEW r \in Nat, NSink <= from, r >= Least(p),
         p = "tiered" => from = nAnchored,
         NEW to, to = PosMax(mem) + 1 - r, from < to,
         DropBand(from, to), lastEvict' = lastEvict,
         Cardinality(Live(mem')) \in 0 .. from + r => BudgetKept'
  PROVE  BInv'
<1> DEFINE c   == mem'
           gap == Behind(from, to)
           top == PosMax(mem)
           n   == Least(p)
<1>1. /\ pc = "evict" /\ pc' = "decode" /\ mode.policy = p /\ Looping /\ Looping'
      /\ mode \in Modes /\ mem \in MemType /\ Once(mem) /\ InText(Held(mem), mode)
      /\ \A a \in Held(mem) : a.tok < NPrompt + made
      /\ made > 0 /\ made \in Nat /\ nAnchored \in Nat /\ evicted \in Nat
      /\ lastEvict \in -1 .. MaxSteps
      /\ UNCHANGED <<mode, made, nAnchored, anchors>>
  BY EvictionFacts
<1>2. n \in Nat /\ n > 0
  BY Budgets, Constants DEF Least
<1>3. top \in Int /\ \A a \in Held(mem) : a.pos \in Nat /\ a.tok \in Nat
  BY <1>1, PosMaxIs, HeldType
<1>4. to \in Nat /\ to <= top /\ to = top + 1 - r
  <2> HIDE DEF top, n
  <2>1. to = top + 1 - r /\ r >= n
    BY DEF top, n
  <2> QED BY <1>2, <1>3, <2>1
<1>5. Newer(n)
  BY <1>1 DEF BInv, RecentInv, Least
<1>6. \E a \in Held(mem) : a.pos = top
  <2> DEFINE t == NPrompt + made - 1
  <2>1. t \in Answer /\ t >= NPrompt + made - n /\ top - (NPrompt + made - 1 - t) = top
    BY <1>1, <1>2, <1>3, Constants DEF Answer
  <2> HIDE DEF t, n
  <2> QED BY <1>5, <2>1 DEF Newer, Newest
<1>7. mem' = CutBand(mem, from, to) /\ evicted' = evicted + (to - from) /\ kept' = {}
  BY DEF DropBand
<1>8. BandIsCut(mem, c, from, to)
  BY <1>1, <1>4, <1>6, <1>7, CutBandDoes
<1> HIDE DEF c, n
<1>9. /\ c \in MemType /\ Once(c) /\ InText(Held(c), mode)
      /\ \A x \in Held(c) : \E a \in Held(mem) : x.tok = a.tok
      /\ \A a \in Held(mem) : a.pos < from => a \in Held(c)
      /\ \A a \in Held(mem) : a.pos >= to =>
           \E x \in Held(c) : x.tok = a.tok /\ x.pos = a.pos - gap
      /\ PosMax(c) = top - gap
  BY <1>8 DEF BandIsCut
<1>10. /\ Cardinality(Live(c)) <= from + (top + 1 - to)
       /\ (\A q \in from .. to - 1 : \E a \in Held(mem) : a.pos = q)
            => Cardinality(Live(c)) = Cardinality(Live(mem)) - (to - from)
  BY <1>8 DEF BandIsCut
<1>11. gap \in Int /\ gap = (IF mode.quant THEN 0 ELSE to - from)
  BY <1>4 DEF Behind
<1> HIDE DEF gap, top
<1>12. \A a \in Held(c) : a.tok < NPrompt + made
  BY <1>1, <1>9
<1>13. evicted' \in Nat /\ kept' \in SUBSET Nat
  BY <1>1, <1>4, <1>7
<1>14. SinkInv'
  <2> SUFFICES ASSUME NEW s \in 0 .. NSink - 1
               PROVE  \E a \in Held(c) : a.tok = s /\ a.pos = s
    BY <1>1 DEF SinkInv, c
  <2>1. PICK a \in Held(mem) : a.tok = s /\ a.pos = s
    BY <1>1 DEF BInv, SinkInv
  <2>2. s < from
    BY Constants
  <2> QED BY <1>9, <2>1, <2>2
<1>15. AnchorInv'
  <2>1. /\ mode.policy # "keydiff" /\ ~mode.image => nAnchored >= NSink
        /\ mode.policy \in {"tiered", "frozen"} =>
             \A t \in anchors : \E a \in Held(mem) : a.tok = t /\ a.pos < nAnchored
    BY <1>1 DEF BInv, AnchorInv
  <2>2. mode.policy = "tiered" =>
          \A t \in anchors : \E a \in Held(c) : a.tok = t /\ a.pos < nAnchored
    BY <1>1, <1>9, <2>1
  <2> QED BY <1>1, <2>1, <2>2 DEF AnchorInv, c
<1>16. ASSUME NEW t \in Answer, t >= NPrompt + made - n
       PROVE  \E x \in Held(c) : x.tok = t /\ x.pos = PosMax(c) - (NPrompt + made - 1 - t)
  <2> DEFINE back == NPrompt + made - 1 - t
  <2>1. PICK a \in Held(mem) : a.tok = t /\ a.pos = top - back
    BY <1>5, <1>16 DEF Newer, Newest, top
  <2>2. back \in Int /\ back <= n - 1 /\ n <= r
    BY <1>1, <1>2, <1>16, Constants DEF Answer, n
  <2> HIDE DEF back
  <2>3. a.pos >= to
    BY <1>2, <1>3, <1>4, <2>1, <2>2
  <2>4. PICK x \in Held(c) : x.tok = a.tok /\ x.pos = a.pos - gap
    BY <1>9, <2>3
  <2>5. x.pos = PosMax(c) - back
    BY <1>3, <1>9, <1>11, <2>1, <2>2, <2>4
  <2> QED BY <2>1, <2>4, <2>5 DEF back
<1>17. RecentInv'
  <2>1. Answer' = Answer
    BY <1>1 DEF Answer
  <2>2. LeastRecent' = LeastRecent /\ LeastK' = LeastK
    BY <1>1 DEF LeastRecent, LeastK
  <2>3. ASSUME p = "tiered" PROVE Newer(LeastRecent)'
    BY <1>1, <1>16, <2>1, <2>2, <2>3 DEF Newer, Newest, n, Least, c
  <2>4. ASSUME p = "recency" PROVE Newer(LeastK - NSink)'
    BY <1>1, <1>16, <2>1, <2>2, <2>4 DEF Newer, Newest, n, Least, c
  <2> QED BY <1>1, <2>3, <2>4 DEF RecentInv
<1>18. BandInv'
  <2> SUFFICES ASSUME p = "tiered", ~mode.quant, NEW q \in from .. PosMax(c)
               PROVE  \E a \in Held(c) : a.pos = q
    BY <1>1 DEF BandInv, c
  <2>1. gap = to - from
    BY <1>11
  <2>2. q + gap \in to .. top /\ q + gap \in from .. top /\ q + gap >= to /\ q \in Int
    BY <1>3, <1>4, <1>9, <2>1
  <2>3. PICK a \in Held(mem) : a.pos = q + gap
    BY <1>1, <2>2 DEF BInv, BandInv, top
  <2>4. PICK x \in Held(c) : x.pos = a.pos - gap
    BY <1>9, <2>2, <2>3
  <2> QED BY <1>11, <2>2, <2>3, <2>4
<1>19. CountInv'
  <2>1. IsFiniteSet(anchors)
    BY <1>1 DEF BInv, CountInv
  <2>2. ASSUME p = "tiered", ~mode.quant
        PROVE  evicted' = Cardinality(anchors) + made - Cardinality(Live(c))
    <3>1. evicted = Cardinality(anchors) + made - Cardinality(Live(mem))
      BY <1>1, <2>2 DEF BInv, CountInv
    <3>2. \A q \in from .. to - 1 : \E a \in Held(mem) : a.pos = q
      <4> SUFFICES ASSUME NEW q \in from .. to - 1
                   PROVE  \E a \in Held(mem) : a.pos = q
        OBVIOUS
      <4>1. q \in nAnchored .. top
        BY <1>3, <1>4, <2>2
      <4> QED BY <1>1, <2>2, <4>1 DEF BInv, BandInv, top
    <3>3. Cardinality(Live(c)) = Cardinality(Live(mem)) - (to - from)
      BY <1>10, <3>2
    <3>4. /\ Cardinality(anchors) \in Nat /\ Cardinality(Live(mem)) \in Nat
      BY <1>1, <2>1, HeldType, FS_CardinalityType
    <3> QED BY <1>1, <1>4, <1>7, <3>1, <3>3, <3>4
  <2> QED BY <1>1, <2>1, <2>2 DEF CountInv, c
<1>20. KeptInv' /\ WindowInv'
  BY <1>1 DEF KeptInv, WindowInv
<1>21. BudgetKept'
  <2>1. Cardinality(Live(c)) \in Nat
    BY <1>9, HeldType
  <2>2. Cardinality(Live(c)) \in 0 .. from + r
    BY <1>3, <1>4, <1>10, <2>1
  <2> QED BY <2>2 DEF c
<1> QED BY <1>1, <1>9, <1>12, <1>13, <1>14, <1>15, <1>17, <1>18, <1>19, <1>20, <1>21,
           EvictionKeeps DEF c

(* A text has no more tokens than positions up to its last. *)
LEMMA LiveBelow ==
  ASSUME NEW m \in MemType, Once(m), InText(Held(m), mode), ~mode.image
  PROVE  Cardinality(Live(m)) <= PosMax(m) + 1
<1> DEFINE top == PosMax(m)
           P   == {a.pos : a \in Held(m)}
<1>1. top \in Int /\ top >= -1 /\ \A a \in Held(m) : a.pos \in Nat /\ a.pos <= top
  BY PosMaxIs, HeldType
<1>2. P \in SUBSET (0 .. top)
  <2> HIDE DEF top
  <2>1. \A a \in Held(m) : a.pos \in 0 .. top
    BY <1>1
  <2> QED BY <2>1
<1> HIDE DEF top
<1>3. IsFiniteSet(0 .. top) /\ Cardinality(0 .. top) = IF 0 > top THEN 0 ELSE top - 0 + 1
  BY <1>1, FS_Interval
<1>4. Held(m) \in SUBSET Entry /\ IsFiniteSet(Held(m))
      /\ Cardinality(Held(m)) = Cardinality(Live(m))
  BY HeldType, LiveCount
<1>5. Cardinality(P) = Cardinality(Live(m))
  BY <1>4, PositionCount
<1> HIDE DEF P
<1>6. Cardinality(P) <= Cardinality(0 .. top)
  BY <1>2, <1>3, FS_Subset
<1>7. Cardinality(P) <= top + 1
  BY <1>1, <1>3, <1>6
<1> QED BY <1>5, <1>7 DEF top

(* Tiered eviction. *)
LEMMA TieredKeeps ==
  ASSUME BInv, EvictTiered
  PROVE  BInv'
<1> DEFINE r     == RecentFor(kNow')
           top   == PosMax(mem)
           total == nAnchored + r
           end   == top + 1 - r
           n     == Cardinality(Live(mem'))
<1>1. EvictionStep("tiered") /\ lastEvict' = lastEvict
  BY DEF EvictTiered
<1>2. /\ pc' = "decode" /\ mode.policy = "tiered" /\ Looping /\ Looping'
      /\ mode \in Modes /\ mem \in MemType /\ Once(mem) /\ InText(Held(mem), mode)
      /\ nAnchored \in Nat /\ lastEvict \in -1 .. MaxSteps /\ kNow' \in KNows
      /\ UNCHANGED <<mode, made, nAnchored, anchors>>
  BY <1>1, EvictionFacts
<1>3. r \in Nat /\ r >= LeastRecent
  BY <1>2, Budgets
<1>4. top \in Int /\ top + 1 \in Nat
  BY <1>2, PosMaxIs
<1>5. RecentFor(kNow)' = r
  BY <1>2 DEF RecentFor
<1>6. (~mode.image => n <= total + total \div 4) => BudgetKept'
  BY <1>2, <1>5 DEF BudgetKept, CacheBounded, WindowDense
<1>7. /\ nAnchored + r \in Nat /\ total \in Nat /\ total \div 4 \in Nat
  BY <1>2, <1>3
<1>8. \/ Leave /\ (mode.image \/ top + 1 <= total + total \div 4 \/ end <= nAnchored)
      \/ ~mode.image /\ ~(end <= nAnchored) /\ DropBand(nAnchored, end)
  <2>1. IF mode.image \/ top + 1 <= total + total \div 4 \/ end <= nAnchored
        THEN Leave ELSE DropBand(nAnchored, end)
    <3>1. PICK q : q = RecentFor(kNow')
      OBVIOUS
    <3>2. q \in Nat /\ PosMax(mem) \in Int /\ nAnchored \in Nat
      BY <1>2, <1>3, <1>4, <3>1
    <3>3. IF \/ mode.image \/ PosMax(mem) + 1 <= nAnchored + q + (nAnchored + q) \div 4
             \/ PosMax(mem) + 1 - q <= nAnchored
          THEN Leave ELSE DropBand(nAnchored, PosMax(mem) + 1 - q)
      BY <3>1, <3>2 DEF EvictTiered
    <3> QED BY <3>1, <3>3
  <2> HIDE DEF end, top, total, r
  <2> QED BY <2>1
<1>9. CASE Leave /\ (mode.image \/ top + 1 <= total + total \div 4 \/ end <= nAnchored)
  <2>1. ASSUME ~mode.image PROVE n <= total + total \div 4
    <3>1. Cardinality(Live(mem)) <= top + 1 /\ Cardinality(Live(mem)) \in Nat
      BY <1>2, <2>1, LiveBelow, HeldType
    <3>2. n = Cardinality(Live(mem))
      BY <1>9 DEF Leave
    <3>3. top + 1 <= total + total \div 4 \/ end <= nAnchored
      BY <1>9, <2>1
    <3> HIDE DEF r, top, n
    <3> QED BY <1>2, <1>3, <1>4, <1>7, <3>1, <3>2, <3>3
  <2>2. lastEvict' \in -1 .. MaxSteps /\ BudgetKept'
    BY <1>1, <1>2, <1>6, <2>1
  <2> QED BY <1>1, <1>9, <2>2, LeaveAfter
<1>10. CASE ~mode.image /\ ~(end <= nAnchored) /\ DropBand(nAnchored, end)
  <2>1. n \in 0 .. nAnchored + r => n <= total + total \div 4
    <3> HIDE DEF r, n
    <3> QED BY <1>2, <1>3, <1>7
  <2>2. NSink <= nAnchored
    BY <1>2, <1>10, Constants DEF BInv, AnchorInv
  <2>3. nAnchored < end
    <3> HIDE DEF r, top
    <3> QED BY <1>2, <1>3, <1>4, <1>10
  <2>4. r >= Least("tiered")
    BY <1>3 DEF Least
  <2>5. Cardinality(Live(mem')) \in 0 .. nAnchored + r => BudgetKept'
    BY <1>6, <2>1
  <2>6. end = PosMax(mem) + 1 - r
    OBVIOUS
  <2> HIDE DEF r, end, top, total, n
  <2> QED BY <1>1, <1>2, <1>3, <1>10, <2>2, <2>3, <2>4, <2>5, <2>6, BandKeeps
<1> QED BY <1>8, <1>9, <1>10

(* Recency eviction. *)
LEMMA RecencyKeeps ==
  ASSUME BInv, EvictRecency
  PROVE  BInv'
<1> DEFINE k   == KNominal(kNow')
           r   == k - NSink
           top == PosMax(mem)
           end == top + 1 - r
           n   == Cardinality(Live(mem'))
<1>1. EvictionStep("recency") /\ lastEvict' = lastEvict
  BY DEF EvictRecency
<1>2. /\ pc' = "decode" /\ mode.policy = "recency" /\ Looping /\ Looping'
      /\ mode \in Modes /\ mem \in MemType /\ Once(mem) /\ InText(Held(mem), mode)
      /\ nAnchored \in Nat /\ lastEvict \in -1 .. MaxSteps /\ kNow' \in KNows
      /\ UNCHANGED <<mode, made, nAnchored, anchors>>
  BY <1>1, EvictionFacts
<1>3. /\ k \in Nat /\ k >= LeastK /\ NSink \in Nat /\ r \in Nat /\ r >= LeastK - NSink
      /\ k = NSink + r
  <2>1. k \in Nat /\ k >= LeastK /\ LeastK \in Nat /\ LeastK > NSink
    BY <1>2, Budgets
  <2> HIDE DEF k
  <2> QED BY <2>1, Constants
<1>4. top \in Int /\ top + 1 \in Nat
  BY <1>2, PosMaxIs
<1>5. KNominal(kNow)' = k
  BY <1>2 DEF KNominal
<1>6. (~mode.image => n <= (k * 3) \div 2) => BudgetKept'
  BY <1>2, <1>5 DEF BudgetKept, CacheBounded, WindowDense
<1>7. k <= (k * 3) \div 2 /\ (k * 3) \div 2 \in Nat
  <2> HIDE DEF k
  <2> QED BY <1>3
<1>8. \/ Leave /\ (mode.image \/ top + 1 <= (k * 3) \div 2 \/ end <= NSink)
      \/ ~mode.image /\ ~(end <= NSink) /\ DropBand(NSink, end)
  <2>1. IF mode.image \/ top + 1 <= (k * 3) \div 2 \/ end <= NSink
        THEN Leave ELSE DropBand(NSink, end)
    <3>1. PICK q : q = KNominal(kNow')
      OBVIOUS
    <3>2. q \in Nat /\ PosMax(mem) \in Int
      BY <1>3, <1>4, <3>1
    <3>3. IF mode.image \/ PosMax(mem) + 1 <= (q * 3) \div 2 \/ PosMax(mem) + 1 - (q - NSink) <= NSink
          THEN Leave ELSE DropBand(NSink, PosMax(mem) + 1 - (q - NSink))
      BY <1>3, <3>1, <3>2 DEF EvictRecency
    <3> QED BY <3>1, <3>3
  <2> HIDE DEF end, top, k
  <2> QED BY <2>1
<1>9. CASE Leave /\ (mode.image \/ top + 1 <= (k * 3) \div 2 \/ end <= NSink)
  <2>1. ASSUME ~mode.image PROVE n <= (k * 3) \div 2
    <3>1. Cardinality(Live(mem)) <= top + 1 /\ Cardinality(Live(mem)) \in Nat
      BY <1>2, <2>1, LiveBelow, HeldType
    <3>2. n = Cardinality(Live(mem))
      BY <1>9 DEF Leave
    <3>3. top + 1 <= (k * 3) \div 2 \/ end <= NSink
      BY <1>9, <2>1
    <3> HIDE DEF k, top, n
    <3> QED BY <1>2, <1>3, <1>4, <1>7, <3>1, <3>2, <3>3
  <2>2. lastEvict' \in -1 .. MaxSteps /\ BudgetKept'
    BY <1>1, <1>2, <1>6, <2>1
  <2> QED BY <1>1, <1>9, <2>2, LeaveAfter
<1>10. CASE ~mode.image /\ ~(end <= NSink) /\ DropBand(NSink, end)
  <2>1. n \in 0 .. NSink + r => n <= (k * 3) \div 2
    <3> HIDE DEF k, n
    <3> QED BY <1>3, <1>7
  <2>2. NSink <= NSink
    BY <1>3
  <2>3. NSink < end
    <3> HIDE DEF k, top
    <3> QED BY <1>3, <1>4, <1>10
  <2>4. r >= Least("recency")
    BY <1>3 DEF Least
  <2>5. Cardinality(Live(mem')) \in 0 .. NSink + r => BudgetKept'
    BY <1>6, <2>1
  <2>6. end = PosMax(mem) + 1 - r
    OBVIOUS
  <2> HIDE DEF r, end, top, k, n
  <2> QED BY <1>1, <1>2, <1>3, <1>10, <2>2, <2>3, <2>4, <2>5, <2>6, BandKeeps
<1> QED BY <1>8, <1>9, <1>10

(* The window slides by as much as it is too long: all of the hole that
   prefill left, at the first slide, and one position afterwards.          *)
LEMMA SlideKeeps ==
  ASSUME BInv, SlideWindow
  PROVE  BInv'
<1> DEFINE top  == PosMax(mem)
           from == NSink
           w    == K - NSink
           c    == mem'
<1>1. EvictionStep("sllm") /\ lastEvict' = lastEvict
  BY DEF SlideWindow
<1>2. /\ pc = "evict" /\ pc' = "decode" /\ mode.policy = "sllm" /\ Looping /\ Looping'
      /\ mode \in Modes /\ mem \in MemType /\ Once(mem) /\ InText(Held(mem), mode)
      /\ \A a \in Held(mem) : a.tok < NPrompt + made
      /\ made > 0 /\ made \in Nat /\ nAnchored \in Nat /\ evicted \in Nat
      /\ lastEvict \in -1 .. MaxSteps
      /\ UNCHANGED <<mode, made, nAnchored, anchors>>
  BY <1>1, EvictionFacts
<1>3. CASE mode.image
  <2>1. Leave
    BY <1>3 DEF SlideWindow
  <2>2. BudgetKept'
    BY <1>2, <1>3 DEF BudgetKept, CacheBounded, WindowDense
  <2>3. lastEvict' \in -1 .. MaxSteps
    BY <1>1, <1>2
  <2> QED BY <1>1, <1>3, <2>1, <2>2, <2>3, LeaveAfter
<1>4. CASE ~mode.image
  <2>1. ~mode.quant
    BY <1>2, Constants
  <2>2. PICK h \in Nat : WindowFrom(h, w + 1)
    BY <1>2, <1>4 DEF BInv, WindowInv
  <2>3. /\ w \in Nat /\ w > 0 /\ NSink \in Nat /\ NSink > 0 /\ K = NSink + w /\ K \in Nat
        /\ h >= NSink
    BY <2>2, Constants DEF WindowFrom
  <2> HIDE DEF w
  <2>4. Positions(mem) = (0 .. NSink - 1) \cup (h .. h + w)
    BY <2>2, <2>3 DEF WindowFrom
  <2>5. \A p \in (0 .. NSink - 1) \cup (h .. h + w) : \E a \in Held(mem) : a.pos = p
    BY <2>4 DEF Positions
  <2>6. \A a \in Held(mem) : a.pos \in (0 .. NSink - 1) \cup (h .. h + w)
    BY <2>4 DEF Positions
  <2>7. top = h + w
    <3>1. h + w \in Nat /\ h + w \in h .. h + w
      BY <2>3
    <3>2. \A a \in Held(mem) : a.pos <= h + w
      <4>1. \A p \in (0 .. NSink - 1) \cup (h .. h + w) : p <= h + w
        BY <2>3
      <4> QED BY <2>6, <4>1
    <3> QED BY <1>2, <2>5, <3>1, <3>2, PosMaxAt
  <2> DEFINE to  == h + 1
             gap == to - NSink
  <2>8. c = CutBand(mem, NSink, to) /\ evicted' = evicted + 1 /\ kept' = {}
    <3>1. PosMax(mem) \in Int
      BY <1>2, PosMaxIs
    <3>2. PosMax(mem) + 1 - NSink - w = gap /\ gap > 0
      BY <2>3, <2>7
    <3>3. Slide(gap, PosMax(mem))
      <4>1. PICK e : e = (PosMax(mem) + 1 - NSink) - (K - NSink)
        OBVIOUS
      <4>2. e = gap /\ e \in Int /\ e > 0
        BY <2>3, <3>1, <3>2, <4>1
      <4>3. IF mode.image \/ e <= 0 THEN Leave ELSE Slide(e, PosMax(mem))
        BY <2>3, <3>1, <4>1, <4>2 DEF SlideWindow
      <4> QED BY <1>4, <4>2, <4>3
    <3>4. /\ NSink + gap - 1 = to - 1 /\ NSink + gap = to /\ -gap = NSink - to
      BY <2>3
    <3>5. /\ c = SeqAdd(SeqRm(mem, NSink .. NSink + gap - 1),
                        NSink + gap .. PosMax(mem), -gap)
          /\ evicted' = evicted + 1 /\ kept' = {}
      BY <3>3 DEF Slide
    <3>6. c = SeqAdd(SeqRm(mem, NSink .. to - 1), to .. PosMax(mem), NSink - to)
      <4> HIDE DEF gap, to, c
      <4> QED BY <3>4, <3>5
    <3> QED BY <2>1, <3>5, <3>6 DEF CutBand
  <2>9. BandIsCut(mem, c, NSink, to)
    <3>1. /\ NSink \in Nat /\ to \in Nat /\ NSink < to /\ to <= PosMax(mem)
      BY <2>3, <2>7
    <3>2. \E a \in Held(mem) : a.pos = PosMax(mem)
      <4>1. h + w \in h .. h + w
        BY <2>3
      <4> QED BY <2>5, <2>7, <4>1
    <3> HIDE DEF to, c
    <3> QED BY <1>2, <1>4, <2>8, <3>1, <3>2, CutBandDoes
  <2>10. Behind(NSink, to) = gap
    BY <2>1 DEF Behind
  <2> HIDE DEF c
  <2>11. /\ c \in MemType /\ Once(c) /\ InText(Held(c), mode)
         /\ \A x \in Held(c) : \E a \in Held(mem) : x.tok = a.tok
         /\ \A a \in Held(mem) : a.pos < NSink => a \in Held(c)
         /\ \A a \in Held(mem) : a.pos >= to =>
              \E x \in Held(c) : x.tok = a.tok /\ x.pos = a.pos - gap
         /\ PosMax(c) = top - gap
    <3> HIDE DEF to, gap
    <3> QED BY <2>9, <2>10 DEF BandIsCut
  <2>12. PosMax(c) = K - 1
    BY <2>3, <2>7, <2>11
  <2>13. Positions(c) = 0 .. K - 1
    <3>1. \A x \in Held(c) : x.pos \in 0 .. K - 1
      <4>1. \A x \in Held(c) : x.pos \in Nat /\ x.pos <= K - 1
        BY <2>11, <2>12, PosMaxIs, HeldType
      <4> QED BY <2>3, <4>1
    <3>2. ASSUME NEW p \in 0 .. K - 1 PROVE \E x \in Held(c) : x.pos = p
      <4>1. CASE p < NSink
        <5>1. PICK a \in Held(mem) : a.pos = p
          BY <2>3, <2>5, <4>1
        <5> QED BY <2>11, <4>1, <5>1
      <4>2. CASE ~(p < NSink)
        <5>1. p + gap \in h .. h + w /\ p + gap >= to /\ p \in Int /\ gap \in Int
          BY <2>3, <4>2
        <5>2. PICK a \in Held(mem) : a.pos = p + gap
          BY <2>5, <5>1
        <5>3. PICK x \in Held(c) : x.pos = a.pos - gap
          BY <2>11, <5>1, <5>2
        <5> HIDE DEF gap
        <5> QED BY <5>1, <5>2, <5>3
      <4> QED BY <4>1, <4>2
    <3> QED BY <3>1, <3>2 DEF Positions
  <2>14. Cardinality(Live(c)) = K
    <3>1. IsFiniteSet(Held(c)) /\ Cardinality(Held(c)) = Cardinality(Live(c))
          /\ Held(c) \in SUBSET Entry
      BY <2>11, LiveCount, HeldType
    <3>2. Cardinality(Positions(c)) = Cardinality(Held(c))
      BY <1>4, <2>11, <3>1, PositionCount DEF Positions
    <3>3. Cardinality(0 .. K - 1) = IF 0 > K - 1 THEN 0 ELSE (K - 1) - 0 + 1
      BY <2>3, FS_Interval
    <3> QED BY <2>3, <2>13, <3>1, <3>2, <3>3
  <2>15. Cardinality(Live(mem)) = K + 1
    <3> DEFINE L == 0 .. NSink - 1
               R == h .. h + w
    <3>1. IsFiniteSet(Held(mem)) /\ Cardinality(Held(mem)) = Cardinality(Live(mem))
          /\ Held(mem) \in SUBSET Entry
      BY <1>2, LiveCount, HeldType
    <3>2. Cardinality(Positions(mem)) = Cardinality(Held(mem))
      BY <1>2, <1>4, <3>1, PositionCount DEF Positions
    <3>3. IsFiniteSet(L) /\ Cardinality(L) = NSink
      <4>1. /\ IsFiniteSet(L)
            /\ Cardinality(L) = IF 0 > NSink - 1 THEN 0 ELSE (NSink - 1) - 0 + 1
        BY <2>3, FS_Interval
      <4> HIDE DEF L
      <4> QED BY <2>3, <4>1
    <3>4. IsFiniteSet(R) /\ Cardinality(R) = w + 1
      <4>1. IsFiniteSet(R) /\ Cardinality(R) = IF h > h + w THEN 0 ELSE (h + w) - h + 1
        BY <2>3, FS_Interval
      <4> HIDE DEF R
      <4> QED BY <2>3, <4>1
    <3>5. L \cap R = {}
      BY <2>3
    <3> HIDE DEF L, R
    <3>6. Cardinality(L \cup R) = Cardinality(L) + Cardinality(R) - Cardinality(L \cap R)
      BY <3>3, <3>4, FS_Union
    <3>7. Cardinality(L \cap R) = 0
      BY <3>5, FS_EmptySet
    <3>8. Positions(mem) = L \cup R
      BY <2>4 DEF L, R
    <3> QED BY <2>3, <3>1, <3>2, <3>3, <3>4, <3>6, <3>7, <3>8
  <2>16. \A a \in Held(c) : a.tok < NPrompt + made
    BY <1>2, <2>11
  <2>17. evicted' \in Nat /\ kept' \in SUBSET Nat
    BY <1>2, <2>8
  <2>18. SinkInv'
    <3> SUFFICES ASSUME NEW s \in 0 .. NSink - 1
                 PROVE  \E a \in Held(c) : a.tok = s /\ a.pos = s
      BY <1>2 DEF SinkInv, c
    <3>1. PICK a \in Held(mem) : a.tok = s /\ a.pos = s
      BY <1>2, <1>4 DEF BInv, SinkInv
    <3>2. s < NSink
      BY <2>3
    <3> QED BY <2>11, <3>1, <3>2
  <2>19. ASSUME NEW t \in Answer, t >= NPrompt + made - (LeastK - NSink)
         PROVE  \E x \in Held(c) : x.tok = t /\ x.pos = PosMax(c) - (NPrompt + made - 1 - t)
    <3> DEFINE back == NPrompt + made - 1 - t
    <3>1. PICK a \in Held(mem) : a.tok = t /\ a.pos = top - back
      BY <1>2, <2>19 DEF BInv, RecentInv, Newer, Newest, top
    <3>2. LeastK \in Nat /\ LeastK <= K
      <4>1. K \in KNows
        BY DEF KNows
      <4>2. LeastK \in Nat /\ KNominal(K) >= LeastK
        BY <4>1, Budgets
      <4> QED BY <4>2 DEF KNominal
    <3>3. back \in Int /\ back <= w - 1
      BY <1>2, <2>3, <2>19, <3>2, Constants DEF Answer
    <3> HIDE DEF back
    <3>4. a.pos >= to
      BY <2>3, <2>7, <3>1, <3>3
    <3>5. PICK x \in Held(c) : x.tok = a.tok /\ x.pos = a.pos - gap
      BY <2>11, <3>4
    <3>6. x.pos = PosMax(c) - back
      BY <2>3, <2>7, <2>11, <3>1, <3>3, <3>5
    <3> QED BY <3>1, <3>5, <3>6 DEF back
  <2>20. RecentInv'
    <3>1. Answer' = Answer
      BY <1>2 DEF Answer
    <3>2. LeastK' = LeastK
      BY <1>2 DEF LeastK
    <3>3. Newer(LeastK - NSink)'
      BY <1>2, <2>19, <3>1, <3>2 DEF Newer, Newest, c
    <3> QED BY <1>2, <3>3 DEF RecentInv
  <2>21. AnchorInv' /\ BandInv' /\ KeptInv'
    BY <1>2, <1>4 DEF BInv, AnchorInv, BandInv, KeptInv
  <2>22. WindowInv'
    <3>1. 0 .. K - 1 = (0 .. NSink - 1) \cup (NSink .. NSink + (K - NSink) - 1)
      BY <2>3
    <3>2. NSink >= NSink
      BY <2>3
    <3> QED BY <1>2, <2>3, <2>13, <3>1, <3>2 DEF WindowInv, WindowFrom, c
  <2>23. CountInv'
    <3>1. IsFiniteSet(anchors) /\ evicted = Cardinality(anchors) + made - Cardinality(Live(mem))
      BY <1>2, <2>1 DEF BInv, CountInv
    <3>2. Cardinality(anchors) \in Nat
      BY <3>1, FS_CardinalityType
    <3>3. evicted' = Cardinality(anchors) + made - Cardinality(Live(c))
      BY <1>2, <2>3, <2>8, <2>14, <2>15, <3>1, <3>2
    <3> QED BY <1>2, <3>1, <3>3 DEF CountInv, c
  <2>24. BudgetKept'
    <3>1. {mem'.cell[i].pos : i \in Live(mem')} = Positions(c)
      BY DEF Positions, Held, c
    <3>2. Cardinality(Live(mem')) = K /\ Cardinality(Live(mem')) <= K
      BY <2>3, <2>14 DEF c
    <3> QED BY <1>2, <2>13, <3>1, <3>2 DEF BudgetKept, CacheBounded, WindowDense
  <2> QED BY <1>1, <1>2, <2>11, <2>16, <2>17, <2>18, <2>20, <2>21, <2>22, <2>23, <2>24,
             EvictionKeeps DEF c
<1> QED BY <1>3, <1>4

-----------------------------------------------------------------------------
(* Every step keeps the invariant. *)
LEMMA StepKeeps == BInv /\ [Next]_vars => BInv'
<1> SUFFICES ASSUME BInv, [Next]_vars PROVE BInv'
  OBVIOUS
<1>1. CASE EvictPrompt
  BY <1>1, EvictPromptKeeps
<1>2. CASE StayPut \/ CompactInPlace \/ SwapContext
  BY <1>2, MoveKeeps
<1>3. CASE WarmUp
  BY <1>3, WarmUpKeeps
<1>4. CASE DecodeToken
  BY <1>4, DecodeKeeps
<1>5. CASE SkipEog \/ Finish
  BY <1>5, LoopEndKeeps
<1>6. CASE Evict
  <2>1. CASE KeepFrozen
    BY <2>1, FrozenKeeps
  <2>2. CASE EvictByScore
    BY <2>2, ByScoreKeeps
  <2>3. CASE EvictByKeyDiff
    BY <2>3, ByKeyDiffKeeps
  <2>4. CASE EvictTiered
    BY <2>4, TieredKeeps
  <2>5. CASE EvictRecency
    BY <2>5, RecencyKeeps
  <2>6. CASE SlideWindow
    BY <2>6, SlideKeeps
  <2> QED BY <1>6, <2>1, <2>2, <2>3, <2>4, <2>5, <2>6 DEF Evict
<1>7. CASE UNCHANGED vars
  <2>1. UNCHANGED <<mode, mem, pc, step, made, lastEvict, nAnchored, tier, kNow, lastPoll,
                    evicted, anchors, kept>>
    BY <1>7 DEF vars, heat
  <2>2. Answer' = Answer /\ Looping' = Looping /\ LeastRecent' = LeastRecent
        /\ LeastK' = LeastK /\ Prompted' = Prompted
    BY <2>1 DEF Answer, Looping, LeastRecent, LeastK, Prompted, PromptPos
  <2>3. TypeInv' /\ TextInv' /\ SinkInv' /\ BandInv' /\ WindowInv' /\ CountInv' /\ KeptInv'
    BY <2>1, <2>2 DEF BInv, TypeInv, TextInv, SinkInv, BandInv, WindowInv, WindowFrom,
       CountInv, KeptInv
  <2>4. PromptInv' /\ AnchorInv' /\ RecentInv'
    BY <2>1, <2>2 DEF BInv, PromptInv, PromptPos, AnchorInv, RecentInv, Newer, Newest
  <2>5. BudgetKept'
    BY <2>1 DEF BInv, BudgetKept, CacheBounded, WindowDense, Settled, KNominal, RecentFor
  <2> QED BY <2>3, <2>4, <2>5 DEF BInv
<1> QED BY <1>1, <1>2, <1>3, <1>4, <1>5, <1>6, <1>7 DEF Next

(* The invariant of the benchmark: what its promises rest on. *)
THEOREM BenchInvariant == Spec => []BInv
BY InitKeeps, StepKeeps, PTL DEF Spec

(* The types, whatever the policy: no position becomes negative, no counter
   goes out of its range.                                                  *)
THEOREM BenchTypes == Spec => []TypeOK
<1>1. BInv => TypeOK
  <2> SUFFICES ASSUME BInv PROVE TypeOK
    OBVIOUS
  <2>1. TypeInv
    BY DEF BInv
  <2>2. mem.head \in 0 .. NCells
    BY <2>1 DEF TypeInv, MemType
  <2>3. ASSUME NEW i \in Cell
        PROVE  mem.cell[i] = Free \/ (mem.cell[i].tok \in Nat /\ mem.cell[i].pos \in Nat)
    BY <2>1, HeldType DEF TypeInv
  <2> QED BY <2>1, <2>2, <2>3 DEF TypeInv, TypeOK
<1> QED BY <1>1, BenchInvariant, PTL

(* The model sees the text in order: after holes, shifts, compaction and a
   prompt token decoded again, positions are in the order of the tokens and
   no token is cached twice.                                               *)
THEOREM TextStaysInOrder == Spec => []PositionsFollowTokens
<1>1. BInv => PositionsFollowTokens
  <2> SUFFICES ASSUME BInv, NEW i \in Live(mem), NEW j \in Live(mem)
               PROVE  LET a == mem.cell[i]
                          b == mem.cell[j]
                      IN  /\ a.tok = b.tok => i = j
                          /\ a.tok < b.tok => IF mode.image THEN a.pos <= b.pos
                                              ELSE a.pos < b.pos
    BY DEF PositionsFollowTokens
  <2>1. Once(mem) /\ InText(Held(mem), mode)
    BY DEF BInv, TextInv
  <2>2. mem.cell[i] \in Held(mem) /\ mem.cell[j] \in Held(mem)
    BY DEF Held
  <2> QED BY <2>1, <2>2 DEF Once, InText
<1> QED BY <1>1, BenchInvariant, PTL

(* What a policy protects survives every eviction: the anchors of tiered
   and frozen policies, the sinks, the recent part of the answer.          *)
THEOREM ProtectedStays == Spec => []ProtectedKept
<1>1. BInv => ProtectedKept
  <2> SUFFICES ASSUME BInv PROVE ProtectedKept
    OBVIOUS
  <2>1. made > 0 => Looping
    BY Constants DEF BInv, PromptInv
  <2>2. \A a \in Held(mem) : a.tok \in Toks(mem)
    BY ToksHeld
  <2>3. AnchorsKept
    BY <2>1, <2>2 DEF BInv, AnchorInv, AnchorsKept
  <2>4. SinksKept
    BY <2>2 DEF BInv, SinkInv, SinksKept
  <2>5. RecentKept
    BY <2>2 DEF BInv, RecentInv, Newer, RecentKept
  <2> QED BY <2>3, <2>4, <2>5 DEF ProtectedKept
<1> QED BY <1>1, BenchInvariant, PTL

(* Decode-time eviction keeps the cache to its budget, at once also when
   heat has cut it, and the window of StreamingLLM without a gap.          *)
THEOREM BudgetsAreKept == Spec => []BudgetKept
<1>1. BInv => BudgetKept
  BY DEF BInv
<1> QED BY <1>1, BenchInvariant, PTL

(* The number of evictions that is reported is the number of tokens that
   left the cache, where eviction addresses cells or closes its gaps.      *)
THEOREM EvictionsCounted == Spec => []EvictedExact
<1>1. BInv => EvictedExact
  BY DEF BInv, CountInv, EvictedExact, Settled, Looping
<1> QED BY <1>1, BenchInvariant, PTL

(* Where eviction addresses cells, what a selection by score chose to keep
   is in the cache until the next one.                                     *)
THEOREM SelectionsSurvive == Spec => []ByCellKeptSurvive
<1>1. BInv => ByCellKeptSurvive
  BY DEF BInv, KeptInv, ByCellKeptSurvive, KeptSurvive
<1> QED BY <1>1, BenchInvariant, PTL
=============================================================================
