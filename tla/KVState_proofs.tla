--------------------------- MODULE KVState_proofs ---------------------------
(***************************************************************************)
(* Saving a sequence and loading it: whatever layout the values are in,    *)
(* whichever cells are free, and however the call ends, the indices stay   *)
(* exact, what is loaded is what was saved, and no other sequence notices. *)
(***************************************************************************)
EXTENDS KVState, KVCache_proofs

-----------------------------------------------------------------------------
(* Places in a table of rows of m elements. *)

(* A multiple of m and a rest below m are told apart. *)
LEMMA DivMod ==
  ASSUME NEW m \in Nat \ {0}, NEW q \in Nat, NEW r \in 0 .. m - 1
  PROVE  /\ q * m + r \in Nat
         /\ (q * m + r) \div m = q
         /\ (q * m + r) % m = r
<1> DEFINE y == q * m + r
           a == y \div m
           b == y % m
<1>1. y \in Nat /\ q * m \in Nat
  OBVIOUS
<1>2. a \in Nat /\ b \in 0 .. m - 1 /\ a * m + b = y /\ a * m \in Nat
  <2> HIDE DEF y
  <2> QED BY <1>1
<1>3. y = q * m + r
  OBVIOUS
<1> HIDE DEF y, a, b
<1>4. ASSUME NEW u \in Nat, NEW v \in Nat, u < v PROVE u * m + m <= v * m
  <2>1. u + 1 <= v
    BY <1>4
  <2>2. (u + 1) * m <= v * m
    BY <2>1, Z3
  <2>3. (u + 1) * m = u * m + m
    OBVIOUS
  <2> QED BY <2>2, <2>3
<1>5. ~(a < q)
  <2> SUFFICES ASSUME a < q PROVE FALSE
    OBVIOUS
  <2>1. a * m + m <= q * m
    BY <1>2, <1>4
  <2> QED BY <1>1, <1>2, <1>3, <2>1
<1>6. ~(q < a)
  <2> SUFFICES ASSUME q < a PROVE FALSE
    OBVIOUS
  <2>1. q * m + m <= a * m
    BY <1>2, <1>4
  <2> QED BY <1>1, <1>2, <1>3, <2>1
<1>7. a = q
  BY <1>2, <1>5, <1>6
<1>8. b = r
  BY <1>1, <1>2, <1>3, <1>7
<1> QED BY <1>1, <1>7, <1>8 DEF a, b, y

(* Row and column of a place in a table of k rows. *)
LEMMA PlaceSplit ==
  ASSUME NEW m \in Nat \ {0}, NEW k \in Nat, NEW y \in 0 .. k * m - 1
  PROVE  /\ y \div m \in 0 .. k - 1
         /\ y % m \in 0 .. m - 1
         /\ y = (y \div m) * m + (y % m)
<1>1. y \in Nat /\ k * m \in Nat /\ y < k * m
  OBVIOUS
<1> DEFINE a == y \div m
<1>2. a \in Nat /\ y % m \in 0 .. m - 1 /\ y = a * m + (y % m) /\ a * m \in Nat
  BY <1>1
<1> HIDE DEF a
<1>3. a < k
  <2> SUFFICES ASSUME k <= a PROVE FALSE
    BY <1>2
  <2>1. k * m <= a * m
    BY <1>2, Z3
  <2> QED BY <1>1, <1>2, <2>1
<1> QED BY <1>2, <1>3 DEF a

(* The place of a row and a column. *)
LEMMA PlaceOf ==
  ASSUME NEW m \in Nat \ {0}, NEW k \in Nat, NEW q \in 0 .. k - 1, NEW r \in 0 .. m - 1
  PROVE  q * m + r \in 0 .. k * m - 1
<1>1. (q + 1) * m <= k * m
  <2>1. q + 1 \in Nat /\ q + 1 <= k
    OBVIOUS
  <2> QED BY <2>1, Z3
<1>2. (q + 1) * m = q * m + m /\ q * m \in Nat /\ k * m \in Nat
  OBVIOUS
<1> QED BY <1>1, <1>2

Values0 == 0 .. NEmbd - 1

(* Element of the n rows or NEmbd columns of a state. *)
LEMMA ElementAt ==
  ASSUME NEW trans \in BOOLEAN, NEW n \in Nat \ {0}, NEW x \in 0 .. n * NEmbd - 1
  PROVE  /\ Element(trans, n, x)[1] \in 1 .. n
         /\ Element(trans, n, x)[2] \in Values0
<1>1. NEmbd \in Nat \ {0}
  BY StateAssumption
<1>2. CASE trans
  <2>1. n * NEmbd = NEmbd * n
    BY <1>1
  <2>2. x \in 0 .. NEmbd * n - 1
    BY <1>1, <2>1
  <2>3. x \div n \in 0 .. NEmbd - 1 /\ x % n \in 0 .. n - 1
    BY <1>1, <2>2, PlaceSplit
  <2>4. Element(trans, n, x) = <<(x % n) + 1, x \div n>>
    BY <1>2 DEF Element
  <2> QED BY <2>3, <2>4 DEF Values0
<1>3. CASE ~trans
  <2>1. x \div NEmbd \in 0 .. n - 1 /\ x % NEmbd \in 0 .. NEmbd - 1
    BY <1>1, PlaceSplit
  <2>2. Element(trans, n, x) = <<(x \div NEmbd) + 1, x % NEmbd>>
    BY <1>3 DEF Element
  <2> QED BY <2>1, <2>2 DEF Values0
<1> QED BY <1>2, <1>3

(* Every value of every row is an element of the state. *)
LEMMA ElementOf ==
  ASSUME NEW trans \in BOOLEAN, NEW n \in Nat \ {0}, NEW k \in 1 .. n, NEW j \in Values0
  PROVE  \E x \in 0 .. n * NEmbd - 1 : Element(trans, n, x) = <<k, j>>
<1>1. NEmbd \in Nat \ {0} /\ k - 1 \in 0 .. n - 1 /\ j \in 0 .. NEmbd - 1 /\ j \in Nat
      /\ k - 1 \in Nat
  BY StateAssumption DEF Values0
<1>2. CASE trans
  <2> DEFINE x == j * n + (k - 1)
  <2>1. x \div n = j /\ x % n = k - 1
    BY <1>1, DivMod
  <2>2. x \in 0 .. NEmbd * n - 1
    BY <1>1, PlaceOf
  <2>3. x \in 0 .. n * NEmbd - 1
    <3>1. n * NEmbd = NEmbd * n
      BY <1>1
    <3> HIDE DEF x
    <3> QED BY <2>2, <3>1
  <2> HIDE DEF x
  <2>4. Element(trans, n, x) = <<(k - 1) + 1, j>>
    BY <1>2, <2>1 DEF Element
  <2>5. (k - 1) + 1 = k
    BY <1>1
  <2> QED BY <2>3, <2>4, <2>5
<1>3. CASE ~trans
  <2> DEFINE x == (k - 1) * NEmbd + j
  <2>1. x \div NEmbd = k - 1 /\ x % NEmbd = j
    BY <1>1, DivMod
  <2>2. x \in 0 .. n * NEmbd - 1
    BY <1>1, PlaceOf
  <2> HIDE DEF x
  <2>4. Element(trans, n, x) = <<(k - 1) + 1, j>>
    BY <1>3, <2>1 DEF Element
  <2>5. (k - 1) + 1 = k
    BY <1>1
  <2> QED BY <2>2, <2>4, <2>5
<1> QED BY <1>2, <1>3

(* The value tensor has one place for each value of each cell. *)
LEMMA ValueAtOffset ==
  ASSUME NEW trans \in BOOLEAN, NEW i \in Cell, NEW j \in Values0
  PROVE  /\ ValueAt(trans, i, j) \in Offset
         /\ trans => ValueAt(trans, i, j) % NCells = i /\ ValueAt(trans, i, j) \div NCells = j
         /\ ~trans => ValueAt(trans, i, j) \div NEmbd = i /\ ValueAt(trans, i, j) % NEmbd = j
<1>1. NEmbd \in Nat \ {0} /\ NCells \in Nat \ {0} /\ i \in 0 .. NCells - 1 /\ j \in 0 .. NEmbd - 1
      /\ i \in Nat /\ j \in Nat
  BY StateAssumption, CellsAssumption DEF Values0, Cell
<1>2. CASE trans
  <2> DEFINE x == j * NCells + i
  <2>1. x \div NCells = j /\ x % NCells = i
    BY <1>1, DivMod
  <2>2. x \in 0 .. NEmbd * NCells - 1
    BY <1>1, PlaceOf
  <2>3. x \in 0 .. NCells * NEmbd - 1
    <3>1. NCells * NEmbd = NEmbd * NCells
      BY <1>1
    <3> HIDE DEF x
    <3> QED BY <2>2, <3>1
  <2> HIDE DEF x
  <2>4. ValueAt(trans, i, j) = x
    BY <1>2 DEF ValueAt, x
  <2> QED BY <1>2, <2>1, <2>3, <2>4 DEF Offset
<1>3. CASE ~trans
  <2> DEFINE x == i * NEmbd + j
  <2>1. x \div NEmbd = i /\ x % NEmbd = j
    BY <1>1, DivMod
  <2>2. x \in 0 .. NCells * NEmbd - 1
    BY <1>1, PlaceOf
  <2> HIDE DEF x
  <2>4. ValueAt(trans, i, j) = x
    BY <1>3 DEF ValueAt, x
  <2> QED BY <1>3, <2>1, <2>2, <2>4 DEF Offset
<1> QED BY <1>2, <1>3

(* There the cell has the value of its key. *)
LEMMA ValuesAt ==
  ASSUME NEW kd, NEW trans \in BOOLEAN, NEW i \in Cell, NEW j \in Values0
  PROVE  Values(kd, trans)[ValueAt(trans, i, j)] = <<kd[i].tok, j>>
<1> DEFINE o == ValueAt(trans, i, j)
<1>1. /\ o \in Offset
      /\ trans => o % NCells = i /\ o \div NCells = j
      /\ ~trans => o \div NEmbd = i /\ o % NEmbd = j
  BY ValueAtOffset
<1> HIDE DEF o
<1>2. Values(kd, trans)[o] = IF trans THEN <<kd[o % NCells].tok, o \div NCells>>
                                      ELSE <<kd[o \div NEmbd].tok, o % NEmbd>>
  BY <1>1 DEF Values
<1>3. Values(kd, trans)[o] = <<kd[i].tok, j>>
  BY <1>1, <1>2
<1> QED BY <1>3 DEF o

(* ... and no two share a place. *)
LEMMA ValueAtOnce ==
  ASSUME NEW trans \in BOOLEAN, NEW i \in Cell, NEW j \in Values0,
         NEW m \in Cell, NEW l \in Values0, ValueAt(trans, i, j) = ValueAt(trans, m, l)
  PROVE  i = m /\ j = l
<1> DEFINE o == ValueAt(trans, i, j)
           p == ValueAt(trans, m, l)
<1>1. /\ trans => o % NCells = i /\ o \div NCells = j
      /\ ~trans => o \div NEmbd = i /\ o % NEmbd = j
  BY ValueAtOffset
<1>2. /\ trans => p % NCells = m /\ p \div NCells = l
      /\ ~trans => p \div NEmbd = m /\ p % NEmbd = l
  BY ValueAtOffset
<1>3. o = p
  OBVIOUS
<1> HIDE DEF o, p
<1> QED BY <1>1, <1>2, <1>3

-----------------------------------------------------------------------------
(* Loading and saving. *)

(* What may be stored for a cell. *)
LEMMA NoDataRow == NoData \in Row
  BY DEF NoData, Row

(***************************************************************************)
(* A state that is read to its end, into cells that differ: each of these  *)
(* holds the key of its token, with all its values, and the other cells    *)
(* hold what they did.                                                     *)
(***************************************************************************)
LEMMA LoadedExact ==
  ASSUME NEW st, Written(st), NEW n \in Nat \ {0}, n = Len(st.meta),
         NEW kd \in [Cell -> Row], NEW trans \in BOOLEAN, NEW idxs \in [1 .. n -> Cell],
         \A k, m \in 1 .. n : idxs[k] = idxs[m] => k = m
  PROVE  /\ Loaded(st, kd, trans, idxs) \in [Cell -> Row]
         /\ \A i \in Cell : (\A k \in 1 .. n : idxs[k] # i) => Loaded(st, kd, trans, idxs)[i] = kd[i]
         /\ \A k \in 1 .. n : Loaded(st, kd, trans, idxs)[idxs[k]] = st.k[k]
<1> DEFINE row(i) == {k \in 1 .. n : RowCell(idxs, k) = i}
           keys  == [i \in Cell |-> IF row(i) = {} THEN kd[i]
                                    ELSE st.k[CHOOSE k \in row(i) : TRUE]]
           old   == Values(kd, trans)
           to    == [x \in 1 .. n * NEmbd |->
                       LET at == Place(st, trans, x - 1)
                       IN  ValueAt(trans, RowCell(idxs, at[1]), at[2])]
           vals  == [o \in Offset |->
                       IF \E x \in DOMAIN to : to[x] = o
                       THEN st.v[CHOOSE x \in DOMAIN to : to[x] = o]
                       ELSE old[o]]
           whole(i) == \A j \in 0 .. NEmbd - 1 :
                         vals[ValueAt(trans, i, j)] = <<keys[i].tok, j>>
           L     == Loaded(st, kd, trans, idxs)
<1>1. L = [i \in Cell |-> IF whole(i) THEN keys[i] ELSE NoData]
  BY DEF Loaded
<1>2. NEmbd \in Nat \ {0} /\ st.v_trans \in BOOLEAN /\ st.k \in Seq(Row) /\ Len(st.k) = n
  BY StateAssumption DEF Written, StateRecord
<1>3. \A k \in 1 .. n : st.k[k] \in Row
  BY <1>2
<1>4. \A k \in 1 .. n : RowCell(idxs, k) = idxs[k]
  <2>1. DOMAIN idxs = 1 .. n
    OBVIOUS
  <2> QED BY <2>1 DEF RowCell, OneBlock
<1>5. \A k \in 1 .. n : row(idxs[k]) = {k}
  BY <1>4
<1>6. \A i \in Cell : (\A k \in 1 .. n : idxs[k] # i) => row(i) = {}
  BY <1>4
<1>7. /\ \A k \in 1 .. n : keys[idxs[k]] = st.k[k]
      /\ \A i \in Cell : (\A k \in 1 .. n : idxs[k] # i) => keys[i] = kd[i]
  <2> HIDE DEF row
  <2>1. ASSUME NEW k \in 1 .. n PROVE (CHOOSE m \in row(idxs[k]) : TRUE) = k
    <3>1. row(idxs[k]) = {k}
      BY <1>5
    <3>2. (CHOOSE m \in row(idxs[k]) : TRUE) \in row(idxs[k])
      <4>1. \E m \in row(idxs[k]) : TRUE
        BY <3>1
      <4> QED BY <4>1
    <3> QED BY <3>1, <3>2
  <2>2. ASSUME NEW k \in 1 .. n PROVE keys[idxs[k]] = st.k[k]
    <3>1. row(idxs[k]) # {} /\ idxs[k] \in Cell
      BY <1>5
    <3> QED BY <2>1, <3>1
  <2> QED BY <1>6, <2>2
<1>8. \A i \in Cell : keys[i] \in Row
  <2> SUFFICES ASSUME NEW i \in Cell PROVE keys[i] \in Row
    OBVIOUS
  <2> HIDE DEF keys
  <2>1. CASE \E k \in 1 .. n : idxs[k] = i
    BY <1>3, <1>7, <2>1
  <2>2. CASE \A k \in 1 .. n : idxs[k] # i
    BY <1>7, <2>2
  <2> QED BY <2>1, <2>2
<1>9. ASSUME NEW x \in 1 .. n * NEmbd
      PROVE  \E k \in 1 .. n : \E j \in Values0 :
               /\ Element(st.v_trans, n, x - 1)[1] = k
               /\ Element(st.v_trans, n, x - 1)[2] = j
               /\ to[x] = ValueAt(trans, idxs[k], j)
               /\ st.v[x] = <<st.k[k].tok, j>>
  <2> DEFINE at == Element(st.v_trans, n, x - 1)
  <2>1. x - 1 \in 0 .. n * NEmbd - 1
    <3>1. n * NEmbd \in Nat
      BY <1>2
    <3> QED BY <1>9, <3>1
  <2>2. at[1] \in 1 .. n /\ at[2] \in Values0
    BY <1>2, <2>1, ElementAt
  <2>3. to[x] = ValueAt(trans, idxs[at[1]], at[2])
    BY <1>4, <1>9, <2>2 DEF Place
  <2>4. x \in DOMAIN st.v
    <3>1. st.v \in Seq((Tok \cup {NoTok}) \X Values0) /\ Len(st.v) = n * NEmbd
      BY DEF Written, StateRecord, Values0
    <3> QED BY <1>9, <3>1
  <2>5. st.v[x] = <<st.k[at[1]].tok, at[2]>>
    BY <2>4 DEF Written
  <2> HIDE DEF at
  <2> QED BY <2>2, <2>3, <2>5 DEF at
<1>10. ASSUME NEW k \in 1 .. n, NEW j \in Values0
       PROVE  vals[ValueAt(trans, idxs[k], j)] = <<st.k[k].tok, j>>
  <2> DEFINE o == ValueAt(trans, idxs[k], j)
             x == CHOOSE y \in DOMAIN to : to[y] = o
  <2> HIDE DEF to
  <2>0. \A b \in BOOLEAN : \E z \in 0 .. n * NEmbd - 1 : Element(b, n, z) = <<k, j>>
    BY ElementOf
  <2>1. PICK z \in 0 .. n * NEmbd - 1 : Element(st.v_trans, n, z) = <<k, j>>
    BY <1>2, <2>0
  <2>2. z + 1 \in 1 .. n * NEmbd /\ (z + 1) - 1 = z
    <3>1. n * NEmbd \in Nat
      BY <1>2
    <3> QED BY <3>1
  <2>3. to[z + 1] = o
    <3>1. PICK l \in 1 .. n, h \in Values0 :
             /\ Element(st.v_trans, n, (z + 1) - 1)[1] = l
             /\ Element(st.v_trans, n, (z + 1) - 1)[2] = h
             /\ to[z + 1] = ValueAt(trans, idxs[l], h)
      <4> DEFINE y == z + 1
      <4>1. y \in 1 .. n * NEmbd
        BY <2>2
      <4> HIDE DEF y
      <4>2. \E l \in 1 .. n : \E h \in Values0 :
               /\ Element(st.v_trans, n, y - 1)[1] = l
               /\ Element(st.v_trans, n, y - 1)[2] = h
               /\ to[y] = ValueAt(trans, idxs[l], h)
        BY <1>9, <4>1
      <4> QED BY <4>2 DEF y
    <3>2. l = k /\ h = j
      BY <2>1, <2>2, <3>1
    <3> QED BY <3>1, <3>2
  <2>4. DOMAIN to = 1 .. n * NEmbd
    BY DEF to
  <2>5. x \in 1 .. n * NEmbd /\ to[x] = o
    BY <2>2, <2>3, <2>4
  <2>6. PICK l \in 1 .. n, h \in Values0 :
           to[x] = ValueAt(trans, idxs[l], h) /\ st.v[x] = <<st.k[l].tok, h>>
    <3> HIDE DEF x
    <3> QED BY <1>9, <2>5
  <2>7. idxs[l] \in Cell /\ idxs[k] \in Cell
    BY <2>6
  <2>8. idxs[l] = idxs[k] /\ h = j
    <3> HIDE DEF x
    <3>1. ValueAt(trans, idxs[l], h) = ValueAt(trans, idxs[k], j)
      BY <2>5, <2>6 DEF o
    <3> QED BY <2>7, <3>1, ValueAtOnce
  <2>9. l = k
    BY <2>8
  <2>10. o \in Offset
    BY <2>7, ValueAtOffset
  <2>11. vals[o] = st.v[x]
    <3> HIDE DEF o
    <3>1. \E y \in DOMAIN to : to[y] = o
      BY <2>4, <2>5
    <3> QED BY <2>10, <3>1
  <2> HIDE DEF vals, x, o
  <2>12. vals[o] = <<st.k[k].tok, j>>
    BY <2>6, <2>8, <2>9, <2>11
  <2> QED BY <2>12 DEF o
<1>11. ASSUME NEW i \in Cell, \A k \in 1 .. n : idxs[k] # i, NEW j \in Values0
       PROVE  vals[ValueAt(trans, i, j)] = <<kd[i].tok, j>>
  <2> DEFINE o == ValueAt(trans, i, j)
  <2>1. o \in Offset
    BY ValueAtOffset
  <2>2. DOMAIN to = 1 .. n * NEmbd
    OBVIOUS
  <2> HIDE DEF to, old
  <2>3. ~ \E x \in DOMAIN to : to[x] = o
    <3> SUFFICES ASSUME NEW x \in 1 .. n * NEmbd, to[x] = o PROVE FALSE
      BY <2>2
    <3>1. PICK k \in 1 .. n, h \in Values0 : to[x] = ValueAt(trans, idxs[k], h)
      BY <1>9
    <3>2. idxs[k] \in Cell
      BY <3>1
    <3>3. idxs[k] = i
      <4>1. ValueAt(trans, idxs[k], h) = ValueAt(trans, i, j)
        BY <3>1
      <4> QED BY <3>2, <4>1, ValueAtOnce
    <3> QED BY <1>11, <3>1, <3>3
  <2>4. vals[o] = old[o]
    <3> HIDE DEF o
    <3> QED BY <2>1, <2>3
  <2>5. old[o] = <<kd[i].tok, j>>
    BY ValuesAt DEF old
  <2> HIDE DEF vals
  <2> QED BY <2>4, <2>5
<1>12. \A i \in Cell : whole(i)
  <2> SUFFICES ASSUME NEW i \in Cell, NEW j \in Values0
               PROVE  vals[ValueAt(trans, i, j)] = <<keys[i].tok, j>>
    BY DEF Values0
  <2> HIDE DEF vals, keys
  <2>1. CASE \E k \in 1 .. n : idxs[k] = i
    <3>1. PICK k \in 1 .. n : idxs[k] = i
      BY <2>1
    <3>2. keys[i] = st.k[k]
      BY <1>7, <3>1
    <3>3. vals[ValueAt(trans, idxs[k], j)] = <<st.k[k].tok, j>>
      BY <1>10
    <3> QED BY <3>1, <3>2, <3>3
  <2>2. CASE \A k \in 1 .. n : idxs[k] # i
    BY <1>7, <1>11, <2>2
  <2> QED BY <2>1, <2>2
<1> HIDE DEF whole, keys
<1>13. L = [i \in Cell |-> keys[i]]
  BY <1>1, <1>12
<1> HIDE DEF L
<1>14. L \in [Cell -> Row] /\ \A i \in Cell : L[i] = keys[i]
  BY <1>8, <1>13
<1>15. \A k \in 1 .. n : idxs[k] \in Cell
  OBVIOUS
<1> QED BY <1>7, <1>14, <1>15 DEF L

(* Some list has the cells of a set in ascending order. *)
LEMMA InOrderExists ==
  ASSUME NEW I \in SUBSET Cell
  PROVE  \E q : q \in InOrder(I)
<1> DEFINE Bad == {m \in Nat : \E J \in SUBSET Cell :
                     Cardinality(J) = m /\ ~ \E q : q \in InOrder(J)}
<1>1. IsFiniteSet(Cell) /\ \A i \in Cell : i \in Nat /\ i < NCells
  BY CellFinite, CellsAssumption DEF Cell
<1>2. ASSUME NEW J \in SUBSET Cell
      PROVE  IsFiniteSet(J) /\ Cardinality(J) \in Nat
  BY <1>1, FS_Subset, FS_CardinalityType
<1> SUFFICES ASSUME Bad # {} PROVE FALSE
  BY <1>2
<1>3. PICK m \in Bad : \A y \in Bad : m <= y
  <2>1. Bad \in SUBSET Nat
    OBVIOUS
  <2> HIDE DEF Bad
  <2> QED BY <2>1, LeastNatural
<1>4. PICK J \in SUBSET Cell : Cardinality(J) = m /\ ~ \E q : q \in InOrder(J)
  BY <1>3
<1>5. J # {}
  <2> SUFFICES ASSUME J = {} PROVE \E q : q \in InOrder(J)
    BY <1>4
  <2>1. Cardinality(J) = 0
    BY FS_EmptySet
  <2>2. [k \in 1 .. 0 |-> 0] \in [1 .. 0 -> J]
    OBVIOUS
  <2>3. [k \in 1 .. 0 |-> 0] \in InOrder(J)
    BY <2>1, <2>2 DEF InOrder
  <2> QED BY <2>3
<1>6. PICK x \in J : \A y \in J : y <= x
  <2> DEFINE T == {NCells - i : i \in J}
  <2>1. T \in SUBSET Nat /\ T # {}
    BY <1>1, <1>5, CellsAssumption
  <2>2. PICK t \in T : \A u \in T : t <= u
    <3> HIDE DEF T
    <3> QED BY <2>1, LeastNatural
  <2>3. PICK x \in J : t = NCells - x
    BY <2>2
  <2>4. \A y \in J : NCells - x <= NCells - y
    BY <2>2, <2>3
  <2>5. \A y \in J : y <= x
    BY <1>1, <2>4, CellsAssumption
  <2> QED BY <2>5
<1> DEFINE K == J \ {x}
<1>7. /\ K \in SUBSET Cell /\ m \in Nat \ {0} /\ Cardinality(K) = m - 1
      /\ J = K \cup {x}
  <2>1. Cardinality(J \ {x}) = Cardinality(J) - 1 /\ IsFiniteSet(J)
    BY <1>2, <1>6, FS_RemoveElement
  <2>2. Cardinality(K) \in Nat
    BY <1>2
  <2> QED BY <1>3, <1>4, <1>6, <2>1, <2>2
<1>8. PICK q : q \in InOrder(K)
  <2> SUFFICES ASSUME ~ \E q : q \in InOrder(K) PROVE FALSE
    OBVIOUS
  <2>1. m - 1 \in Bad
    <3> HIDE DEF K
    <3>1. m - 1 \in Nat
      BY <1>7
    <3> QED BY <1>7, <3>1
  <2> HIDE DEF Bad
  <2> QED BY <1>3, <1>7, <2>1
<1> HIDE DEF K, Bad
<1>9. q \in [1 .. m - 1 -> K] /\ \A k, l \in 1 .. m - 1 : k < l => q[k] < q[l]
  BY <1>7, <1>8 DEF InOrder
<1> DEFINE r == [k \in 1 .. m |-> IF k = m THEN x ELSE q[k]]
<1>10. \A k \in 1 .. m : k # m => k \in 1 .. m - 1
  BY <1>7
<1>11. r \in [1 .. m -> J]
  BY <1>6, <1>7, <1>9, <1>10
<1>12. ASSUME NEW k \in 1 .. m, NEW l \in 1 .. m, k < l PROVE r[k] < r[l]
  <2>1. k # m /\ k \in 1 .. m - 1
    BY <1>7, <1>10, <1>12
  <2>2. CASE l = m
    <3>1. q[k] \in J /\ q[k] # x /\ q[k] \in Nat /\ x \in Nat
      BY <1>1, <1>7, <1>9, <2>1 DEF K
    <3>2. q[k] <= x
      BY <1>6, <3>1
    <3> QED BY <2>1, <2>2, <3>1, <3>2
  <2>3. CASE l # m
    BY <1>9, <1>10, <1>12, <2>1, <2>3
  <2> QED BY <2>2, <2>3
<1>13. r \in InOrder(J)
  <2> HIDE DEF r
  <2>1. DOMAIN r = 1 .. m
    BY <1>11
  <2> QED BY <1>4, <1>11, <1>12, <2>1 DEF InOrder
<1> QED BY <1>4, <1>13

(* Such a list has each cell of the set once. *)
LEMMA InOrderLists ==
  ASSUME NEW I \in SUBSET Cell, NEW q \in InOrder(I)
  PROVE  /\ q \in Seq(Cell) /\ Len(q) = Cardinality(I) /\ Len(q) <= NCells
         /\ I = {q[k] : k \in 1 .. Len(q)}
         /\ \A k, m \in 1 .. Len(q) : k < m => q[k] < q[m]
         /\ \A k, m \in 1 .. Len(q) : q[k] = q[m] => k = m
<1> DEFINE n == Cardinality(I)
<1>1. /\ IsFiniteSet(Cell) /\ Cardinality(Cell) = NCells /\ NCells \in Nat
  BY CellFinite, CellsAssumption, FS_Interval DEF Cell
<1>2. IsFiniteSet(I) /\ n <= NCells /\ n \in Nat
  BY <1>1, FS_Subset, FS_CardinalityType
<1>3. q \in [1 .. n -> I] /\ \A k, m \in 1 .. n : k < m => q[k] < q[m]
  BY DEF InOrder
<1>4. Cardinality(1 .. n) = Cardinality(I)
  BY <1>2, FS_Interval
<1> HIDE DEF n
<1>5. \A k \in 1 .. n : q[k] \in Cell /\ q[k] \in Int
  <2>1. \A i \in Cell : i \in Int
    BY CellsAssumption DEF Cell
  <2>2. \A k \in 1 .. n : q[k] \in I
    BY <1>3
  <2> QED BY <2>1, <2>2
<1>6. q \in Seq(Cell) /\ Len(q) = n
  <2>1. q \in [1 .. n -> Cell]
    BY <1>3, <1>5
  <2> QED BY <1>2, <2>1
<1>7. ASSUME NEW k \in 1 .. n, NEW m \in 1 .. n, q[k] = q[m] PROVE k = m
  <2>1. ~(k < m) /\ ~(m < k)
    BY <1>3, <1>5, <1>7
  <2> QED BY <1>2, <2>1
<1>8. I = {q[k] : k \in 1 .. n}
  <2>1. q \in Injection(1 .. n, I)
    BY <1>3, <1>7, Fun_IsInj
  <2>3. q \in Surjection(1 .. n, I)
    BY <1>2, <1>4, <2>1, FS_Injection
  <2>4. \A x \in I : \E k \in 1 .. n : q[k] = x
    BY <2>3 DEF Surjection
  <2> QED BY <1>3, <2>4
<1> QED BY <1>2, <1>3, <1>6, <1>7, <1>8 DEF n

(* The cells a state is written from. *)
SourceCells(c, s) == {i \in Live(c) : s = All \/ s \in c.cell[i].seq}

(***************************************************************************)
(* state_write writes a state: the cells in order, each with its key and   *)
(* the values of its token.                                                *)
(***************************************************************************)
LEMMA StateWritten ==
  ASSUME NEW c, Well(c), NEW kd \in [Cell -> Row], NEW trans \in BOOLEAN, NEW s \in Seqs \cup {All}
  PROVE  /\ Written(StateOf(c, kd, trans, s))
         /\ {<<StateOf(c, kd, trans, s).meta[k].pos, StateOf(c, kd, trans, s).k[k]>> :
               k \in 1 .. Len(StateOf(c, kd, trans, s).meta)}
              = {<<c.cell[i].pos, kd[i]>> : i \in SourceCells(c, s)}
         /\ Len(StateOf(c, kd, trans, s).meta) <= NCells
<1> DEFINE I   == SourceCells(c, s)
           src == Ascending(I)
           n   == Len(src)
           st  == StateOf(c, kd, trans, s)
           ids(i) == IF s = All THEN c.cell[i].seq ELSE {s}
<1>1. I \in SUBSET Live(c) /\ I \in SUBSET Cell
  BY DEF SourceCells, Live
<1>2. src \in InOrder(I)
  <2>1. \E q \in InOrder(I) : TRUE
    BY <1>1, InOrderExists
  <2> HIDE DEF I
  <2> QED BY <2>1 DEF Ascending
<1>3. /\ src \in Seq(Cell) /\ n \in Nat /\ n <= NCells
      /\ I = {src[k] : k \in 1 .. n}
  <2> HIDE DEF I, src
  <2> QED BY <1>1, <1>2, InOrderLists
<1>4. st = IF src = <<>> THEN NoState ELSE
             [v_trans |-> trans,
              meta |-> [k \in DOMAIN src |-> [pos |-> c.cell[src[k]].pos, seq |-> ids(src[k])]],
              k    |-> [k \in DOMAIN src |-> kd[src[k]]],
              v    |-> WrittenValues(kd, trans, src)]
  BY DEF StateOf, SourceCells
<1>5. NEmbd \in Nat \ {0}
  BY StateAssumption
<1>6. CASE src = <<>>
  <2>1. I = {} /\ st = NoState /\ Len(NoState.meta) = 0
    BY <1>3, <1>4, <1>6 DEF NoState
  <2>2. Written(NoState)
    BY <1>5 DEF Written, NoState, StateRecord
  <2>3. {<<NoState.meta[k].pos, NoState.k[k]>> : k \in 1 .. 0} = {}
    OBVIOUS
  <2>4. {<<c.cell[i].pos, kd[i]>> : i \in I} = {}
    BY <2>1
  <2> HIDE DEF st, I
  <2> QED BY <2>1, <2>2, <2>3, <2>4, CellsAssumption DEF st, I
<1>7. CASE src # <<>>
  <2>1. n \in Nat \ {0} /\ DOMAIN src = 1 .. n
    BY <1>3, <1>7
  <2>2. /\ st.v_trans = trans
        /\ st.meta = [k \in 1 .. n |-> [pos |-> c.cell[src[k]].pos, seq |-> ids(src[k])]]
        /\ st.k = [k \in 1 .. n |-> kd[src[k]]]
        /\ st.v = WrittenValues(kd, trans, src)
        /\ st = [v_trans |-> st.v_trans, meta |-> st.meta, k |-> st.k, v |-> st.v]
    BY <1>4, <1>7, <2>1
  <2>3. \A k \in 1 .. n : src[k] \in I /\ src[k] \in Cell
    BY <1>1, <1>3
  <2>4. ASSUME NEW i \in I
        PROVE  [pos |-> c.cell[i].pos, seq |-> ids(i)] \in [pos : Pos, seq : SUBSET Seqs]
    <3>1. i \in Cell /\ c.cell[i] \in CellState /\ c.cell[i].pos # None
      BY <1>1 DEF Live, IsEmpty, Well, KVCellsType
    <3>2. c.cell[i].pos \in Pos /\ c.cell[i].seq \in SUBSET Seqs
      BY <3>1 DEF CellState
    <3>3. ids(i) \in SUBSET Seqs
      BY <3>2
    <3> QED BY <3>2, <3>3
  <2> HIDE DEF st, ids, src, n, I
  <2>5. st.meta \in Seq([pos : Pos, seq : SUBSET Seqs]) /\ Len(st.meta) = n
    <3>1. st.meta \in [1 .. n -> [pos : Pos, seq : SUBSET Seqs]]
      BY <2>2, <2>3, <2>4
    <3> DEFINE S == [pos : Pos, seq : SUBSET Seqs]
    <3> HIDE DEF S
    <3>2. st.meta \in [1 .. n -> S]
      BY <3>1 DEF S
    <3>3. st.meta \in Seq(S) /\ Len(st.meta) = n
      BY <2>1, <3>2
    <3> QED BY <3>3 DEF S
  <2>6. st.k \in Seq(Row) /\ Len(st.k) = n /\ \A k \in 1 .. n : st.k[k] = kd[src[k]]
    <3>1. st.k \in [1 .. n -> Row]
      BY <2>2, <2>3
    <3> QED BY <2>1, <2>2, <3>1
  <2>7. n * NEmbd \in Nat
    BY <1>5, <2>1
  <2>8. ASSUME NEW x \in 1 .. n * NEmbd
        PROVE  /\ st.v[x] = <<st.k[Element(trans, n, x - 1)[1]].tok, Element(trans, n, x - 1)[2]>>
               /\ st.v[x] \in (Tok \cup {NoTok}) \X (0 .. NEmbd - 1)
    <3> DEFINE at == Element(trans, n, x - 1)
    <3>1. x - 1 \in 0 .. n * NEmbd - 1
      BY <2>7
    <3>2. at[1] \in 1 .. n /\ at[2] \in Values0
      BY <2>1, <3>1, ElementAt
    <3>3. st.v[x] = Values(kd, trans)[ValueAt(trans, src[at[1]], at[2])]
      BY <2>2, <2>8 DEF WrittenValues, n
    <3> HIDE DEF at
    <3>4. st.v[x] = <<kd[src[at[1]]].tok, at[2]>>
      BY <2>3, <3>2, <3>3, ValuesAt
    <3>5. st.k[at[1]] = kd[src[at[1]]] /\ kd[src[at[1]]] \in Row
      BY <2>3, <2>6, <3>2
    <3>6. kd[src[at[1]]].tok \in Tok \cup {NoTok}
      BY <3>5 DEF Row
    <3> QED BY <3>2, <3>4, <3>5, <3>6 DEF at, Values0
  <2>9. st.v \in Seq((Tok \cup {NoTok}) \X (0 .. NEmbd - 1)) /\ Len(st.v) = n * NEmbd
    <3>1. st.v = [x \in 1 .. n * NEmbd |-> st.v[x]]
      BY <2>2 DEF WrittenValues, n
    <3>2. st.v \in [1 .. n * NEmbd -> (Tok \cup {NoTok}) \X (0 .. NEmbd - 1)]
      BY <2>8, <3>1
    <3> QED BY <2>7, <3>2
  <2>10. st \in StateRecord
    BY <2>2, <2>5, <2>6, <2>9 DEF StateRecord
  <2>11. Written(st)
    <3>1. DOMAIN st.v = 1 .. n * NEmbd
      BY <2>7, <2>9
    <3> QED BY <2>2, <2>5, <2>6, <2>8, <2>9, <2>10, <3>1 DEF Written
  <2>12. {<<st.meta[k].pos, st.k[k]>> : k \in 1 .. n} = {<<c.cell[i].pos, kd[i]>> : i \in I}
    <3>1. \A k \in 1 .. n : st.meta[k].pos = c.cell[src[k]].pos /\ st.k[k] = kd[src[k]]
      BY <2>2, <2>6
    <3> QED BY <1>3, <3>1
  <2> QED BY <1>3, <2>5, <2>11, <2>12 DEF st, I
<1> QED BY <1>6, <1>7

-----------------------------------------------------------------------------
(* The types that decode and the memory operations keep. *)

MoreTypes ==
    /\ KdataType /\ head \in 0 .. NCells /\ retried \in BOOLEAN
    /\ \A k \in 1 .. Len(stack) : stack[k].head \in 0 .. NCells
    /\ entry \in [cells : KVCellsType, head : 0 .. NCells]

(* The head moves to a cell, or stays. *)
LEMMA LoweredBound ==
  ASSUME NEW h \in 0 .. NCells, NEW freed \in SUBSET Cell
  PROVE  /\ Lowered(h, freed) \in 0 .. NCells
         /\ freed # {} => LeastOf(freed) \in 0 .. NCells
<1>1. ASSUME freed # {} PROVE LeastOf(freed) \in 0 .. NCells
  <2>1. PICK x \in freed : \A y \in freed : x <= y
    BY <1>1, LeastNatural, CellsAssumption DEF Cell
  <2>2. LeastOf(freed) \in freed
    BY <2>1 DEF LeastOf
  <2>3. \A y \in freed : y \in 0 .. NCells
    BY CellsAssumption DEF Cell
  <2> QED BY <2>2, <2>3
<1>2. CASE freed # {} /\ LeastOf(freed) < h
  BY <1>1, <1>2 DEF Lowered
<1>3. CASE ~(freed # {} /\ LeastOf(freed) < h)
  BY <1>1, <1>3 DEF Lowered
<1> QED BY <1>1, <1>2, <1>3

(* Behind the cells of a ubatch there is a cell or the end of the cache. *)
LEMMA HeadAfterBound ==
  ASSUME NEW idxs \in Seq(Cell), Len(idxs) > 0
  PROVE  HeadAfter(idxs) \in 0 .. NCells
<1>1. idxs[Len(idxs)] \in Cell
  OBVIOUS
<1> QED BY <1>1, CellsAssumption DEF HeadAfter, Cell

(* A shift rotates keys, or leaves them torn. *)
LEMMA UpdateTypes ==
  ASSUME Well(cells), KdataType, Update
  PROVE  KdataType' /\ cells' \in KVCellsType
<1> DEFINE K == [tok : Tok \cup {NoTok}, rot : Int]
<1>1. cells' \in KVCellsType
  BY UpdateWell DEF Well
<1>2. KTorn(cells, kdata) \in [Cell -> K]
  BY NoDataRow DEF KTorn, KdataType, Row
<1>3. KShift(cells, kdata) \in [Cell -> K]
  <2>1. ASSUME NEW i \in Cell PROVE [kdata[i] EXCEPT !.rot = @ + cells.cell[i].shift] \in K
    <3>1. kdata[i] \in K /\ cells.cell[i] \in CellState
      BY DEF KdataType, Well, KVCellsType
    <3>2. kdata[i].rot + cells.cell[i].shift \in Int
      BY <3>1 DEF CellState
    <3> QED BY <3>1, <3>2
  <2>2. \A i \in Cell : kdata[i] \in K
    BY DEF KdataType
  <2> HIDE DEF K
  <2> QED BY <2>1, <2>2 DEF KShift
<1>4. kdata' \in {kdata, KTorn(cells, kdata), KShift(cells, kdata)}
  BY DEF Update
<1> QED BY <1>1, <1>2, <1>3, <1>4 DEF KdataType

(* Between two decodes only the head and the keys can change their type. *)
LEMMA CallTypes ==
  ASSUME MoreTypes, UNCHANGED decoding, head' \in 0 .. NCells, KdataType'
  PROVE  MoreTypes'
  BY DEF MoreTypes, decoding

(* Sequences leave cells. *)
LEMMA LeaveTypes ==
  ASSUME MoreTypes, UNCHANGED decoding, NEW drop, Leave(drop)
  PROVE  MoreTypes'
<1>1. Emptied(cells, drop) \in SUBSET Cell
  BY DEF Emptied, Live
<1>2. head' \in 0 .. NCells
  BY <1>1, LoweredBound DEF Leave, MoreTypes
<1>3. KdataType'
  BY ScrubType DEF Leave, MoreTypes, KdataType
<1> QED BY <1>2, <1>3, CallTypes

(* A decode that ends forgets what it was doing. *)
LEMMA EndDecodeTypes ==
  ASSUME EndDecode, KdataType', head' \in 0 .. NCells
  PROVE  MoreTypes'
<1>1. Reset \in KVCellsType
  BY ResetWell DEF Well
<1>2. 0 \in 0 .. NCells
  BY CellsAssumption
<1>3. stack' = <<>> /\ retried' = FALSE /\ entry' = [cells |-> Reset, head |-> 0]
  BY DEF EndDecode
<1>4. entry' \in [cells : KVCellsType, head : 0 .. NCells]
  BY <1>1, <1>2, <1>3
<1>5. \A k \in 1 .. Len(stack') : stack'[k].head \in 0 .. NCells
  BY <1>3
<1> QED BY <1>3, <1>4, <1>5 DEF MoreTypes

(* The memory operations. *)
LEMMA OperationTypes ==
  ASSUME IInv, MoreTypes, NEW r \in Ranges, NEW s \in Seqs,
         \/ \E t \in Seqs : SeqCopy(s, t, r)
         \/ \E d \in Deltas : SeqShift(s, r, d)
         \/ \E d \in Divisors : SeqDivide(s, r, d)
  PROVE  MoreTypes'
<1>1. UNCHANGED decoding
  BY DEF SeqCopy, SeqShift, SeqDivide, Call
<1>2. ASSUME UNCHANGED <<head, kdata>> PROVE MoreTypes'
  BY <1>1, <1>2, CallTypes DEF MoreTypes, KdataType
<1>3. ASSUME NEW d \in Deltas, SeqShift(s, r, d) PROVE MoreTypes'
  <2> DEFINE gone == {i \in Having(s, r) : cells.cell[i].pos + d < 0}
  <2>1. gone \in SUBSET Cell
    BY DEF Having
  <2>2. head' = (IF gone # {} THEN LeastOf(gone) ELSE 0) /\ kdata' = Scrub(cells', kdata)
    BY <1>3 DEF SeqShift
  <2> HIDE DEF gone
  <2>3. 0 \in 0 .. NCells
    BY CellsAssumption
  <2>4. head' \in 0 .. NCells
    BY <2>1, <2>2, <2>3, LoweredBound
  <2>5. KdataType'
    BY <2>2, ScrubType DEF MoreTypes, KdataType
  <2> QED BY <1>1, <2>4, <2>5, CallTypes
<1> QED BY <1>2, <1>3 DEF SeqCopy, SeqDivide

(* Compaction sets the head behind the cells it lists. *)
LEMMA CompactTypes ==
  ASSUME IInv, MoreTypes, NEW s \in Seqs, EndurkvCompactSeq(s)
  PROVE  MoreTypes'
<1>1. PICK src \in Seq(Cell) :
         /\ Len(src) <= NCells /\ head' = Len(src)
         /\ \/ cells' = cells /\ kdata' = kdata
            \/ /\ cells' = Gather(cells, src)
               /\ kdata' = Scrub(cells', [i \in Cell |->
                             IF i < Len(src) THEN kdata[src[i + 1]] ELSE kdata[i]])
  BY CompactDoes DEF IInv
<1>2. head' \in 0 .. NCells
  BY <1>1, CellsAssumption
<1> DEFINE kd == [i \in Cell |-> IF i < Len(src) THEN kdata[src[i + 1]] ELSE kdata[i]]
           K  == [tok : Tok \cup {NoTok}, rot : Int]
<1>3. kd \in [Cell -> K]
  <2>1. \A i \in Cell : kdata[i] \in K
    BY DEF MoreTypes, KdataType
  <2>2. \A i \in Cell : i < Len(src) => src[i + 1] \in Cell
    BY CellsAssumption DEF Cell
  <2> HIDE DEF K
  <2> QED BY <2>1, <2>2
<1>4. kdata' = kdata \/ kdata' = Scrub(cells', kd)
  BY <1>1
<1> HIDE DEF kd
<1>5. KdataType'
  BY <1>3, <1>4, ScrubType DEF MoreTypes, KdataType
<1>6. UNCHANGED decoding
  BY DEF EndurkvCompactSeq, Call
<1> QED BY <1>2, <1>5, <1>6, CallTypes

(* The steps of a decode, up to the plan. *)
LEMMA TrialTypes ==
  ASSUME IInv, MoreTypes,
         \/ \E b \in Batches : DecodeBegin(b)
         \/ PlaceUbatch \/ PlacedAll \/ OutOfCells \/ RestoreOne \/ Prepared \/ RetryPrepare
  PROVE  MoreTypes'
<1>1. Well(cells) /\ KdataType /\ head \in 0 .. NCells
  BY DEF IInv, MoreTypes
<1>2. ASSUME NEW b \in Batches, DecodeBegin(b) PROVE MoreTypes'
  <2>1. Update /\ entry' = [cells |-> cells', head |-> head]
        /\ UNCHANGED <<head, retried, stack>>
    BY <1>2 DEF DecodeBegin
  <2>2. KdataType' /\ cells' \in KVCellsType
    BY <1>1, <2>1, UpdateTypes
  <2>3. entry' \in [cells : KVCellsType, head : 0 .. NCells]
    BY <1>1, <2>1, <2>2
  <2> QED BY <2>1, <2>2, <2>3 DEF MoreTypes
<1>3. ASSUME RetryPrepare PROVE MoreTypes'
  <2>1. Update /\ entry' = [cells |-> cells', head |-> head] /\ retried' = TRUE
        /\ UNCHANGED <<head, stack>>
    BY <1>3 DEF RetryPrepare
  <2>2. KdataType' /\ cells' \in KVCellsType
    BY <1>1, <2>1, UpdateTypes
  <2>3. entry' \in [cells : KVCellsType, head : 0 .. NCells]
    BY <1>1, <2>1, <2>2
  <2> QED BY <2>1, <2>2, <2>3 DEF MoreTypes
<1>4. ASSUME PlaceUbatch PROVE MoreTypes'
  <2> DEFINE k == Len(stack) + 1
             n == Len(ubs[k])
  <2>1. PICK idxs \in [1 .. n -> Cell] :
           /\ stack' = Append(stack, [idxs |-> idxs, old |-> Cp(cells, idxs), head |-> head])
           /\ head'  = HeadAfter(idxs)
    BY <1>4 DEF PlaceUbatch
  <2>2. UNCHANGED <<kdata, retried, entry>>
    BY <1>4 DEF PlaceUbatch
  <2>3. stack \in Seq(StackEntry) /\ n \in Nat /\ n > 0
    BY <1>4 DEF IInv, StackInv, UbsInv, PlaceUbatch
  <2> HIDE DEF n
  <2>4. idxs \in Seq(Cell) /\ Len(idxs) = n
    BY <2>1, <2>3
  <2>5. head' \in 0 .. NCells
    BY <2>1, <2>3, <2>4, HeadAfterBound
  <2> DEFINE top == [idxs |-> idxs, old |-> Cp(cells, idxs), head |-> head]
  <2>6. top.head \in 0 .. NCells /\ stack' = Append(stack, top)
    BY <1>1, <2>1
  <2> HIDE DEF top
  <2>7. \A j \in 1 .. Len(stack') : stack'[j] = top \/ (j \in 1 .. Len(stack) /\ stack'[j] = stack[j])
    <3> DEFINE X == StackEntry \cup {top}
    <3>1. stack \in Seq(X)
      <4>1. \A j \in 1 .. Len(stack) : stack[j] \in X
        BY <2>3
      <4>2. Len(stack) \in Nat /\ stack = [j \in 1 .. Len(stack) |-> stack[j]]
        BY <2>3
      <4> HIDE DEF X
      <4> QED BY <4>1, <4>2
    <3>2. top \in X
      OBVIOUS
    <3> HIDE DEF X
    <3> QED BY <2>6, <3>1, <3>2
  <2>8. \A j \in 1 .. Len(stack') : stack'[j].head \in 0 .. NCells
    BY <2>6, <2>7 DEF MoreTypes
  <2> QED BY <2>2, <2>5, <2>8 DEF MoreTypes, KdataType
<1>5. ASSUME RestoreOne PROVE MoreTypes'
  <2>1. stack \in Seq(StackEntry) /\ stack # <<>>
    BY <1>5 DEF IInv, StackInv, RestoreOne
  <2>2. Len(stack) \in 1 .. Len(stack) /\ Len(stack) \in Nat
    BY <2>1
  <2>3. head' = stack[Len(stack)].head /\ stack' = SubSeq(stack, 1, Len(stack) - 1)
        /\ UNCHANGED <<kdata, retried, entry>>
    BY <1>5 DEF RestoreOne
  <2>4. Len(stack') = Len(stack) - 1 /\ \A j \in 1 .. Len(stack) - 1 : stack'[j] = stack[j]
    <3> DEFINE k == Len(stack)
    <3>1. k \in Nat /\ k >= 1 /\ \A j \in 1 .. k - 1 : stack[j] \in StackEntry
      BY <2>1, <2>2
    <3>2. stack' = SubSeq(stack, 1, k - 1)
      BY <2>3
    <3> HIDE DEF k
    <3>3. /\ Len(SubSeq(stack, 1, k - 1)) = k - 1
          /\ \A j \in 1 .. k - 1 : SubSeq(stack, 1, k - 1)[j] = stack[j]
      BY <3>1, SubSeqProperties
    <3> QED BY <3>2, <3>3 DEF k
  <2>5. \A j \in 1 .. Len(stack') : stack'[j].head \in 0 .. NCells
    BY <2>2, <2>4 DEF MoreTypes
  <2>6. head' \in 0 .. NCells
    BY <2>2, <2>3 DEF MoreTypes
  <2> QED BY <2>3, <2>5, <2>6 DEF MoreTypes, KdataType
<1>6. ASSUME PlacedAll \/ OutOfCells \/ Prepared PROVE MoreTypes'
  <2>1. UNCHANGED <<kdata, head, retried, stack, entry>>
    BY <1>6 DEF PlacedAll, OutOfCells, Prepared, decoding
  <2> QED BY <2>1 DEF MoreTypes, KdataType
<1> QED BY <1>2, <1>3, <1>4, <1>5, <1>6

(* ... and from there on. *)
LEMMA ProcessTypes ==
  ASSUME IInv, MoreTypes, GiveUp \/ ProcessUbatch \/ FailUbatch
  PROVE  MoreTypes'
<1> DEFINE K == [tok : Tok \cup {NoTok}, rot : Int]
<1>1. \A i \in Cell : kdata[i] \in K
  BY DEF MoreTypes, KdataType
<1>2. ASSUME GiveUp PROVE MoreTypes'
  <2>1. kdata' = Scrub(cells, kdata) /\ EndDecode /\ head' = head
    BY <1>2 DEF GiveUp
  <2>2. KdataType'
    BY <2>1, ScrubType DEF MoreTypes, KdataType
  <2> QED BY <2>1, <2>2, EndDecodeTypes DEF MoreTypes
<1>3. ASSUME pc = "process"
      PROVE  /\ ubs[1] \in Seq(Token) /\ slots[1] \in Seq(Cell) /\ Len(slots[1]) = Len(ubs[1])
             /\ HeadAfter(slots[1]) \in 0 .. NCells
             /\ Targets(slots[1]) \in SUBSET Cell
  <2>1. slots[1] \in Seq(Cell) /\ Len(slots[1]) = Len(ubs[1]) /\ Len(ubs[1]) > 0
        /\ Len(ubs) \in Nat /\ Len(ubs) >= 1
    BY <1>3, ProcessType
  <2>2. ubs[1] \in Seq(Token)
    BY <2>1 DEF IInv, UbsInv
  <2> QED BY <2>1, <2>2, HeadAfterBound DEF Targets
<1>4. ASSUME ProcessUbatch PROVE MoreTypes'
  <2> DEFINE ub   == ubs[1]
             idxs == slots[1]
             c    == ApplyUbatch(cells, ub, idxs)
             kd   == [i \in Cell |-> IF i \notin Targets(idxs) THEN kdata[i]
                                     ELSE [tok |-> NewToks(Targets(idxs))[i],
                                           rot |-> ub[SlotOf(idxs, i)].pos]]
  <2>1. pc = "process" /\ kdata' = Scrub(c, kd) /\ head' = HeadAfter(idxs)
    BY <1>4 DEF ProcessUbatch
  <2>2. /\ ub \in Seq(Token) /\ idxs \in Seq(Cell) /\ Len(idxs) = Len(ub)
        /\ HeadAfter(idxs) \in 0 .. NCells /\ Targets(idxs) \in SUBSET Cell
    BY <1>3, <2>1
  <2> HIDE DEF ub, idxs, c
  <2>3. ASSUME NEW i \in Targets(idxs)
        PROVE  [tok |-> NewToks(Targets(idxs))[i], rot |-> ub[SlotOf(idxs, i)].pos] \in K
    <3>1. NewToks(Targets(idxs)) \in [Targets(idxs) -> Fresh]
      BY <2>2, NewToksType DEF MoreTypes
    <3>2. NewToks(Targets(idxs))[i] \in Tok
      BY <3>1 DEF Fresh
    <3>3. ub[SlotOf(idxs, i)] \in Token
      BY <2>2, SlotOfType
    <3>4. ub[SlotOf(idxs, i)].pos \in Int
      BY <3>3, CellsAssumption DEF Token, Pos
    <3> QED BY <3>2, <3>4
  <2>4. kd \in [Cell -> K]
    <3> HIDE DEF K
    <3> QED BY <1>1, <2>3
  <2> HIDE DEF kd
  <2>5. KdataType' /\ head' \in 0 .. NCells
    BY <2>1, <2>2, <2>4, ScrubType DEF KdataType
  <2>6. EndDecode \/ UNCHANGED <<retried, stack, entry>>
    BY <1>4 DEF ProcessUbatch
  <2>7. UNCHANGED <<retried, stack, entry>> => MoreTypes'
    BY <2>5 DEF MoreTypes
  <2> QED BY <2>5, <2>6, <2>7, EndDecodeTypes
<1>5. ASSUME FailUbatch PROVE MoreTypes'
  <2> DEFINE ub   == ubs[1]
             idxs == slots[1]
             c    == ApplyUbatch(cells, ub, idxs)
             undo == [i \in Cell |-> {s \in Seqs :
                        \E k \in DOMAIN ub : /\ ub[k].ids[1] = s
                                             /\ c.cell[i].pos >= ub[k].pos}]
             kd   == [i \in Cell |-> IF i \in Targets(idxs) THEN NoData ELSE kdata[i]]
  <2>1. /\ pc = "process" /\ EndDecode /\ kdata' = Scrub(cells', kd)
        /\ head' = Lowered(HeadAfter(idxs), Emptied(c, undo))
    BY <1>5 DEF FailUbatch
  <2>2. HeadAfter(idxs) \in 0 .. NCells
    BY <1>3, <2>1
  <2> HIDE DEF undo, c, idxs
  <2>3. Emptied(c, undo) \in SUBSET Cell
    BY DEF Emptied, Live
  <2>4. head' \in 0 .. NCells
    BY <2>1, <2>2, <2>3, LoweredBound
  <2>5. kd \in [Cell -> K]
    <3>1. NoData \in K
      BY NoDataRow DEF Row
    <3> HIDE DEF K
    <3> QED BY <1>1, <3>1
  <2> HIDE DEF kd
  <2>6. KdataType'
    BY <2>1, <2>5, ScrubType DEF KdataType
  <2> QED BY <2>1, <2>4, <2>6, EndDecodeTypes
<1> QED BY <1>2, <1>4, <1>5

(* Every step of the cache keeps the types. *)
LEMMA NextTypes ==
  ASSUME IInv, MoreTypes, [Next]_vars
  PROVE  MoreTypes'
<1>1. CASE (\E b \in Batches : DecodeBegin(b)) \/ DecodeStep
  BY <1>1, TrialTypes, ProcessTypes DEF DecodeStep
<1>2. CASE Clear
  <2>1. UNCHANGED decoding /\ head' = 0 /\ kdata' = [i \in Cell |-> NoData]
    BY <1>2 DEF Clear, Call
  <2>2. head' \in 0 .. NCells /\ KdataType'
    BY <2>1, NoDataRow, CellsAssumption DEF KdataType, Row
  <2> QED BY <2>1, <2>2, CallTypes
<1>3. ASSUME NEW r \in Ranges, SeqRemoveAny(r) PROVE MoreTypes'
  BY <1>3, LeaveTypes DEF SeqRemoveAny, Call
<1>4. ASSUME NEW r \in Ranges, NEW s \in Seqs, SeqRemove(s, r) PROVE MoreTypes'
  BY <1>4, LeaveTypes DEF SeqRemove, Call
<1>5. ASSUME NEW s \in Seqs, SeqKeep(s) PROVE MoreTypes'
  BY <1>5, LeaveTypes DEF SeqKeep, Call
<1>6. ASSUME NEW s \in Seqs, NEW keep \in SUBSET Cell, EndurkvRmCells(s, keep, NCells)
      PROVE  MoreTypes'
  BY <1>6, LeaveTypes DEF EndurkvRmCells, Call
<1>7. ASSUME NEW s \in Seqs, EndurkvCompactSeq(s) PROVE MoreTypes'
  BY <1>7, CompactTypes
<1>8. CASE UNCHANGED vars
  BY <1>8 DEF vars, decoding, MoreTypes, KdataType
<1> QED BY <1>1, <1>2, <1>3, <1>4, <1>5, <1>6, <1>7, <1>8, OperationTypes DEF Next

(***************************************************************************)
(* Everything in the cache has its type in every state of every behaviour. *)
(***************************************************************************)
LEMMA TypesHold ==
  ASSUME IInv, MoreTypes
  PROVE  TypeOK
<1>1. /\ cells \in KVCellsType /\ head \in 0 .. NCells /\ retried \in BOOLEAN
      /\ kdata \in [Cell -> [tok : Tok \cup {NoTok}, rot : Int]]
      /\ pc \in {"idle", "prepare", "restore", "process"}
      /\ entry \in [cells : KVCellsType, head : 0 .. NCells]
      /\ slots \in Seq(Seq(Cell))
  BY DEF IInv, Well, MoreTypes, KdataType, SlotsInv
<1>2. ubs \in Seq(Seq([pos : Pos, ids : Seq(Seqs)]))
  <2> DEFINE T == [pos : Pos, ids : Seq(Seqs)]
  <2>1. ubs \in Seq(Seq(Token))
    BY DEF IInv, UbsInv
  <2>2. Token \subseteq T
    BY DEF Token
  <2> HIDE DEF T
  <2>3. Seq(Token) \subseteq Seq(T)
    BY <2>2
  <2>4. Seq(Seq(Token)) \subseteq Seq(Seq(T))
    <3> DEFINE A == Seq(Token)
               B == Seq(T)
    <3>1. A \subseteq B
      BY <2>3
    <3> HIDE DEF A, B
    <3>2. Seq(A) \subseteq Seq(B)
      BY <3>1
    <3> QED BY <3>2 DEF A, B
  <2>5. ubs \in Seq(Seq(T))
    BY <2>1, <2>4
  <2> QED BY <2>5 DEF T
<1>3. stack \in Seq(SlotRecord)
  <2>1. stack \in Seq(StackEntry)
    BY DEF IInv, StackInv
  <2>2. ASSUME NEW k \in 1 .. Len(stack) PROVE stack[k] \in SlotRecord
    <3>1. stack[k] \in StackEntry
      BY <2>1
    <3>2. stack[k].head \in 0 .. NCells
      BY DEF MoreTypes
    <3> QED BY <3>1, <3>2 DEF StackEntry, SlotRecord, CellCopy
  <2>3. Len(stack) \in Nat /\ stack = [k \in 1 .. Len(stack) |-> stack[k]]
    BY <2>1
  <2>4. stack \in [1 .. Len(stack) -> SlotRecord]
    BY <2>2, <2>3
  <2> QED BY <2>3, <2>4
<1> QED BY <1>1, <1>2, <1>3 DEF TypeOK

-----------------------------------------------------------------------------
(* Reading a state. *)

(* The state of nothing. *)
LEMMA NothingWritten == Written(NoState)
<1>1. NEmbd \in Nat \ {0}
  BY StateAssumption
<1> QED BY <1>1 DEF Written, NoState, StateRecord

(* The cells of a slot differ. *)
LEMMA SlotCells ==
  ASSUME NEW c, NEW h \in Int, NEW st, NEW n \in Nat \ {0}, n = Len(st.meta),
         NEW idxs \in [1 .. n -> Cell], SlotFor(c, h, st, idxs)
  PROVE  /\ idxs \in Seq(Cell) /\ Len(idxs) = n /\ DOMAIN idxs = 1 .. n
         /\ \A k, m \in 1 .. n : idxs[k] = idxs[m] => k = m
         /\ HeadAfter(idxs) \in 0 .. NCells
         /\ Targets(idxs) \in SUBSET Cell
<1> DEFINE nth(i) == (i - ScanFrom(c, h, n)) % NCells
<1>1. \A k, m \in 1 .. n : k < m => nth(idxs[k]) < nth(idxs[m])
  BY DEF SlotFor, IsSlot
<1>2. \A i \in Cell : nth(i) \in Int
  <2>1. ScanFrom(c, h, n) \in Int
    BY DEF ScanFrom
  <2>2. \A i \in Cell : i - ScanFrom(c, h, n) \in Int
    BY <2>1, CellsAssumption DEF Cell
  <2> QED BY <2>2, CellsAssumption
<1>3. \A k \in 1 .. n : nth(idxs[k]) \in Int
  BY <1>2
<1> HIDE DEF nth
<1>4. ASSUME NEW k \in 1 .. n, NEW m \in 1 .. n, idxs[k] = idxs[m] PROVE k = m
  <2>1. ~(k < m) /\ ~(m < k)
    BY <1>1, <1>3, <1>4
  <2> QED BY <2>1
<1>5. idxs \in Seq(Cell) /\ Len(idxs) = n /\ DOMAIN idxs = 1 .. n
  OBVIOUS
<1>6. HeadAfter(idxs) \in 0 .. NCells
  BY <1>5, HeadAfterBound
<1> QED BY <1>4, <1>5, <1>6 DEF Targets

(* A state read for one sequence is a ubatch of its tokens. *)
LEMMA AsUbatchType ==
  ASSUME NEW st, Written(st), NEW d \in Seqs
  PROVE  /\ AsUbatch(st, d) \in Seq(Token) /\ Len(AsUbatch(st, d)) = Len(st.meta)
         /\ Len(st.meta) \in Nat
         /\ \A k \in 1 .. Len(st.meta) : /\ AsUbatch(st, d)[k].pos = st.meta[k].pos
                                         /\ IdsOf(AsUbatch(st, d)[k].ids) = {d}
                                         /\ st.meta[k].pos \in Pos
                                         /\ st.meta[k].seq \in SUBSET Seqs
<1> DEFINE S == [pos : Pos, seq : SUBSET Seqs]
           m == st.meta
           n == Len(m)
<1>1. m \in Seq(S)
  BY DEF Written, StateRecord
<1>2. n \in Nat /\ DOMAIN m = 1 .. n /\ \A k \in 1 .. n : m[k] \in S
  <2> HIDE DEF S, m
  <2> QED BY <1>1
<1>3. \A k \in 1 .. n : m[k].pos \in Pos /\ m[k].seq \in SUBSET Seqs
  BY <1>2
<1>4. AsUbatch(st, d) = [k \in 1 .. n |-> [pos |-> m[k].pos, ids |-> <<d>>]]
  BY <1>2 DEF AsUbatch
<1>5. <<d>> \in Seq(Seqs) /\ <<d>> # <<>> /\ IdsOf(<<d>>) = {d}
  BY DEF IdsOf
<1>6. \A k \in 1 .. n : [pos |-> m[k].pos, ids |-> <<d>>] \in Token
  BY <1>3, <1>5 DEF Token
<1> HIDE DEF m, n
<1>7. AsUbatch(st, d) \in [1 .. n -> Token]
  BY <1>4, <1>6
<1>8. AsUbatch(st, d) \in Seq(Token) /\ Len(AsUbatch(st, d)) = n
  BY <1>2, <1>7
<1>9. \A k \in 1 .. n : AsUbatch(st, d)[k].pos = m[k].pos /\ AsUbatch(st, d)[k].ids = <<d>>
  BY <1>4
<1> QED BY <1>2, <1>3, <1>5, <1>8, <1>9 DEF m, n

(* Cells filled from the first on. *)
LEMMA FilledWell ==
  ASSUME NEW meta \in Seq([pos : Pos, seq : SUBSET Seqs]), Holds(meta)
  PROVE  /\ Well(Filled(meta))
         /\ \A k \in 1 .. Len(meta) : k - 1 \in Cell
                                      /\ Filled(meta).cell[k - 1].pos = meta[k].pos
                                      /\ Filled(meta).cell[k - 1].seq = meta[k].seq
         /\ Live(Filled(meta)) = 0 .. Len(meta) - 1
<1> DEFINE S  == [pos : Pos, seq : SUBSET Seqs]
           n  == Len(meta)
           I  == 0 .. n - 1
           at == [i \in I |-> meta[i + 1]]
           f  == Filled(meta)
<1>1. n \in Nat /\ n <= NCells /\ I \in SUBSET Cell
  BY CellsAssumption DEF Holds, Cell
<1>2. ASSUME NEW i \in I
      PROVE  at[i] = meta[i + 1] /\ at[i].pos \in Pos /\ at[i].seq \in SUBSET Seqs
  <2>1. i + 1 \in 1 .. n
    BY <1>1
  <2>2. meta[i + 1] \in S
    <3>1. meta \in Seq(S)
      OBVIOUS
    <3> HIDE DEF S
    <3> QED BY <2>1, <3>1
  <2> QED BY <2>2
<1>3. /\ Well(Reset) /\ \A i \in Cell : Reset.cell[i] = Vacant
      /\ \A i \in Cell : IsEmpty(Reset, i)
  <2>1. Well(Reset) /\ \A i \in Cell : Reset.cell[i] = Vacant
    BY ResetWell
  <2>2. Vacant.pos = None
    BY DEF Vacant
  <2>3. \A i \in Cell : IsEmpty(Reset, i)
    BY <2>1, <2>2 DEF IsEmpty
  <2> QED BY <2>1, <2>3
<1>4. f = Emplace(Reset, I, at)
  BY DEF Filled
<1> HIDE DEF at, I, f
<1>5. Well(f)
  BY <1>1, <1>2, <1>3, <1>4, EmplaceWell
<1>6. \A i \in Cell : f.cell[i] = IF i \notin I THEN Vacant
                        ELSE [Vacant EXCEPT !.pos = at[i].pos, !.seq = at[i].seq]
  BY <1>3, <1>4 DEF Emplace
<1>7. \A i \in I : f.cell[i].pos = at[i].pos /\ f.cell[i].seq = at[i].seq
  BY <1>1, <1>6 DEF Vacant
<1>8. ASSUME NEW k \in 1 .. n
      PROVE  k - 1 \in Cell /\ f.cell[k - 1].pos = meta[k].pos /\ f.cell[k - 1].seq = meta[k].seq
  <2>1. k - 1 \in I /\ (k - 1) + 1 = k
    BY <1>1 DEF I
  <2> QED BY <1>1, <1>2, <1>7, <2>1
<1>9. Live(f) = I
  <2>1. \A i \in I : f.cell[i].pos # None
    BY <1>2, <1>7, CellsAssumption DEF None, Pos
  <2>2. \A i \in Cell : i \notin I => f.cell[i].pos = None
    <3>1. \A i \in Cell : i \notin I => f.cell[i] = Vacant
      BY <1>6
    <3> QED BY <3>1 DEF Vacant
  <2> QED BY <1>1, <2>1, <2>2 DEF Live, IsEmpty
<1> QED BY <1>5, <1>8, <1>9 DEF f, I

(* A sequence removed: what is left is as exact as before. *)
LEMMA WithoutWell ==
  ASSUME NEW c, Well(c), NEW h \in 0 .. NCells, NEW d
  PROVE  Well(Without(c, d)) /\ HeadWithout(c, h, d) \in 0 .. NCells
<1> DEFINE drop == [i \in Cell |-> {d}]
<1>1. Emptied(c, drop) \in SUBSET Cell
  BY DEF Emptied, Live
<1>2. Well(SeqRm(c, drop))
  <2> HIDE DEF drop
  <2> QED BY SeqRmWell
<1>3. Lowered(h, Emptied(c, drop)) \in 0 .. NCells
  BY <1>1, LoweredBound
<1> QED BY <1>2, <1>3 DEF Without, HeadWithout

(* The cells of a state placed for a sequence, and what is loaded there. *)
LEMMA PlacedWell ==
  ASSUME NEW c, Well(c), NEW h \in 0 .. NCells, NEW st, Written(st), st.meta # <<>>,
         NEW d \in Seqs, NEW idxs \in [1 .. Len(st.meta) -> Cell], SlotFor(c, h, st, idxs),
         NEW kd \in [Cell -> Row], NEW trans \in BOOLEAN
  PROVE  /\ Well(ApplyUbatch(c, AsUbatch(st, d), idxs))
         /\ HeadAfter(idxs) \in 0 .. NCells
         /\ Loaded(st, kd, trans, idxs) \in [Cell -> Row]
<1> DEFINE n == Len(st.meta)
<1>1. /\ AsUbatch(st, d) \in Seq(Token) /\ Len(AsUbatch(st, d)) = n /\ n \in Nat
  BY AsUbatchType
<1>2. n # 0
  BY DEF Written, StateRecord
<1>3. n \in Nat \ {0} /\ h \in Int /\ n = Len(st.meta) /\ idxs \in [1 .. n -> Cell]
  BY <1>1, <1>2, CellsAssumption
<1> HIDE DEF n
<1>4. /\ idxs \in Seq(Cell) /\ Len(idxs) = n /\ DOMAIN idxs = 1 .. n
      /\ \A k, m \in 1 .. n : idxs[k] = idxs[m] => k = m
      /\ HeadAfter(idxs) \in 0 .. NCells
      /\ Targets(idxs) \in SUBSET Cell
  <2>1. SlotFor(c, h, st, idxs)
    OBVIOUS
  <2>2. \A n0 \in Nat \ {0} : \A f \in [1 .. n0 -> Cell] :
           n0 = Len(st.meta) /\ SlotFor(c, h, st, f) =>
           /\ f \in Seq(Cell) /\ Len(f) = n0 /\ DOMAIN f = 1 .. n0
           /\ \A k, m \in 1 .. n0 : f[k] = f[m] => k = m
           /\ HeadAfter(f) \in 0 .. NCells
           /\ Targets(f) \in SUBSET Cell
    BY <1>3, SlotCells
  <2> QED BY <1>3, <2>1, <2>2
<1>5. Well(ApplyUbatch(c, AsUbatch(st, d), idxs))
  BY <1>1, <1>4, ApplyUbatchWell
<1>6. Loaded(st, kd, trans, idxs) \in [Cell -> Row]
  BY <1>3, <1>4, LoadedExact
<1> QED BY <1>4, <1>5, <1>6

SInv ==
    /\ IInv /\ MoreTypes /\ Written(saved)
    /\ v_trans \in BOOLEAN /\ reads \in 0 .. MaxReads

(* Between two decodes the cells, the keys and the state can be exchanged. *)
LEMMA ExchangeKeeps ==
  ASSUME SInv, pc = "idle", UNCHANGED <<pc, decoding>>,
         Well(cells'), head' \in 0 .. NCells, kdata' \in [Cell -> Row],
         Written(saved'), v_trans' \in BOOLEAN, reads' \in 0 .. MaxReads
  PROVE  SInv'
<1>1. head' \in Int
  BY CellsAssumption
<1>2. IInv'
  BY <1>1, CallKeeps DEF SInv
<1>3. KdataType'
  BY DEF KdataType, Row
<1>4. MoreTypes'
  BY <1>3, CallTypes DEF SInv
<1> QED BY <1>2, <1>4 DEF SInv

(* Nothing is stored in a cleared cache. *)
LEMMA ClearedType == [i \in Cell |-> NoData] \in [Cell -> Row]
  BY NoDataRow

(* A call that reads the state. *)
LEMMA CallReads ==
  ASSUME SInv, StateCall
  PROVE  /\ pc = "idle" /\ UNCHANGED <<pc, decoding>>
         /\ Written(saved') /\ v_trans' \in BOOLEAN /\ reads' \in 0 .. MaxReads
         /\ Well(cells) /\ head \in 0 .. NCells /\ kdata \in [Cell -> Row] /\ Written(saved)
         /\ v_trans \in BOOLEAN
<1>1. saved' = NoState \/ saved' = saved
  BY DEF StateCall
<1>2. Written(saved')
  BY <1>1, NothingWritten DEF SInv
<1>3. reads' \in 0 .. MaxReads
  BY StateAssumption DEF StateCall, SInv
<1>4. kdata \in [Cell -> Row]
  BY DEF SInv, MoreTypes, KdataType, Row
<1> QED BY <1>2, <1>3, <1>4 DEF StateCall, SInv, IInv, MoreTypes

(* A state read, refused or cut short, for one sequence. *)
LEMMA SeqCallsKeep ==
  ASSUME SInv, NEW d \in Seqs, ReadSeq(d) \/ RefuseSeq(d) \/ CutSeq(d)
  PROVE  SInv'
<1> DEFINE c == Without(cells, d)
           h == HeadWithout(cells, head, d)
<1>1. StateCall /\ saved.meta # <<>>
  BY DEF ReadSeq, RefuseSeq, CutSeq
<1>2. /\ pc = "idle" /\ UNCHANGED <<pc, decoding>>
      /\ Written(saved') /\ v_trans' \in BOOLEAN /\ reads' \in 0 .. MaxReads
      /\ Well(cells) /\ head \in 0 .. NCells /\ kdata \in [Cell -> Row] /\ Written(saved)
      /\ v_trans \in BOOLEAN
  BY <1>1, CallReads
<1>3. Well(c) /\ h \in 0 .. NCells
  BY <1>2, WithoutWell
<1>4. ASSUME NEW e, NEW kd \in [Cell -> Row] PROVE Scrub(e, kd) \in [Cell -> Row]
  BY <1>4, ScrubType DEF Row
<1> HIDE DEF c, h
<1>5. ASSUME ReadSeq(d) PROVE SInv'
  <2>1. PICK idxs \in [1 .. Len(saved.meta) -> Cell] :
           /\ SlotFor(c, h, saved, idxs)
           /\ cells' = ApplyUbatch(c, AsUbatch(saved, d), idxs)
           /\ head'  = HeadAfter(idxs)
           /\ kdata' = Scrub(cells', Loaded(saved, Scrub(c, kdata), v_trans, idxs))
    BY <1>5 DEF ReadSeq, c, h
  <2>2. Scrub(c, kdata) \in [Cell -> Row]
    BY <1>2, <1>4
  <2>3. /\ Well(cells') /\ head' \in 0 .. NCells
        /\ Loaded(saved, Scrub(c, kdata), v_trans, idxs) \in [Cell -> Row]
    BY <1>1, <1>2, <1>3, <2>1, <2>2, PlacedWell
  <2>4. kdata' \in [Cell -> Row]
    BY <1>4, <2>1, <2>3
  <2> QED BY <1>2, <2>3, <2>4, ExchangeKeeps
<1>6. ASSUME RefuseSeq(d) PROVE SInv'
  <2>1. kdata' = Scrub(cells', kdata)
    BY <1>6 DEF RefuseSeq
  <2>2. kdata' \in [Cell -> Row]
    BY <1>2, <1>4, <2>1
  <2>3. CASE Fits(c, saved)
    <3>1. PICK idxs \in [1 .. Len(saved.meta) -> Cell] :
             /\ SlotFor(c, h, saved, idxs)
             /\ cells' = Without(ApplyUbatch(c, AsUbatch(saved, d), idxs), d)
             /\ head'  = HeadWithout(ApplyUbatch(c, AsUbatch(saved, d), idxs), HeadAfter(idxs), d)
      BY <1>6, <2>3 DEF RefuseSeq, c, h
    <3>2. Well(ApplyUbatch(c, AsUbatch(saved, d), idxs)) /\ HeadAfter(idxs) \in 0 .. NCells
      BY <1>1, <1>2, <1>3, <3>1, PlacedWell
    <3>3. Well(cells') /\ head' \in 0 .. NCells
      BY <3>1, <3>2, WithoutWell
    <3> QED BY <1>2, <2>2, <3>3, ExchangeKeeps
  <2>4. CASE ~Fits(c, saved)
    <3>1. cells' = c /\ head' = h
      BY <1>6, <2>4 DEF RefuseSeq, c, h
    <3> QED BY <1>2, <1>3, <2>2, <3>1, ExchangeKeeps
  <2> QED BY <2>3, <2>4
<1>7. ASSUME CutSeq(d) PROVE SInv'
  <2>1. ASSUME cells' = c, head' = h, kdata' = Scrub(c, kdata) PROVE SInv'
    BY <1>2, <1>3, <1>4, <2>1, ExchangeKeeps
  <2>2. ASSUME NEW idxs \in [1 .. Len(saved.meta) -> Cell], SlotFor(c, h, saved, idxs),
               cells' = ApplyUbatch(c, AsUbatch(saved, d), idxs),
               head'  = HeadAfter(idxs),
               kdata' = Scrub(cells', [i \in Cell |->
                          IF i \in Targets(idxs) THEN NoData ELSE kdata[i]])
        PROVE  SInv'
    <3> DEFINE kd == [i \in Cell |-> IF i \in Targets(idxs) THEN NoData ELSE kdata[i]]
    <3>1. kd \in [Cell -> Row]
      BY <1>2, NoDataRow
    <3>2. Well(cells') /\ head' \in 0 .. NCells
      BY <1>1, <1>2, <1>3, <2>2, PlacedWell
    <3>3. kdata' = Scrub(cells', kd)
      BY <2>2
    <3> HIDE DEF kd
    <3>4. kdata' \in [Cell -> Row]
      BY <1>4, <3>1, <3>3
    <3> QED BY <1>2, <3>2, <3>4, ExchangeKeeps
  <2>3. \/ cells' = c /\ head' = h /\ kdata' = Scrub(c, kdata)
        \/ \E idxs \in [1 .. Len(saved.meta) -> Cell] :
             /\ SlotFor(c, h, saved, idxs)
             /\ cells' = ApplyUbatch(c, AsUbatch(saved, d), idxs)
             /\ head'  = HeadAfter(idxs)
             /\ kdata' = Scrub(cells', [i \in Cell |->
                           IF i \in Targets(idxs) THEN NoData ELSE kdata[i]])
    BY <1>7 DEF CutSeq, c, h
  <2> QED BY <2>1, <2>2, <2>3
<1> QED BY <1>5, <1>6, <1>7

(* Some first cells of a state, the last with fewer sequences. *)
LEMMA ShortenedType ==
  ASSUME NEW m \in Seq([pos : Pos, seq : SUBSET Seqs]), NEW k \in 1 .. Len(m),
         NEW got \in SUBSET Seqs
  PROVE  /\ [SubSeq(m, 1, k) EXCEPT ![k].seq = got] \in Seq([pos : Pos, seq : SUBSET Seqs])
         /\ Len([SubSeq(m, 1, k) EXCEPT ![k].seq = got]) = k
<1> DEFINE S == [pos : Pos, seq : SUBSET Seqs]
           q == SubSeq(m, 1, k)
           x == [q[k] EXCEPT !.seq = got]
           r == [q EXCEPT ![k].seq = got]
<1>1. \A y \in S : [y EXCEPT !.seq = got] \in S
  OBVIOUS
<1>2. m \in Seq(S)
  OBVIOUS
<1> HIDE DEF S
<1>3. k \in Nat \ {0} /\ \A i \in 1 .. k : m[i] \in S
  BY <1>2
<1>4. q \in Seq(S) /\ Len(q) = k
  BY <1>3, SubSeqProperties
<1> HIDE DEF q
<1>5. DOMAIN q = 1 .. k /\ \A i \in 1 .. k : q[i] \in S
  BY <1>4
<1>6. r = [i \in 1 .. k |-> IF i = k THEN x ELSE q[i]]
  BY <1>3, <1>5
<1>7. x \in S
  BY <1>1, <1>3, <1>5
<1> HIDE DEF x
<1>8. r \in [1 .. k -> S]
  BY <1>5, <1>6, <1>7
<1> HIDE DEF r
<1>9. r \in Seq(S) /\ Len(r) = k
  BY <1>3, <1>8
<1> QED BY <1>9 DEF r, q, S

(* A state read, refused or cut short, for all sequences. *)
LEMMA AllCallsKeep ==
  ASSUME SInv, ReadAll \/ RefuseAll \/ CutAll
  PROVE  SInv'
<1> DEFINE S == [pos : Pos, seq : SUBSET Seqs]
           n == Len(saved.meta)
           m == saved.meta
<1>1. StateCall /\ saved.meta # <<>> /\ head' = 0
  BY DEF ReadAll, RefuseAll, CutAll
<1>2. /\ pc = "idle" /\ UNCHANGED <<pc, decoding>>
      /\ Written(saved') /\ v_trans' \in BOOLEAN /\ reads' \in 0 .. MaxReads
      /\ Written(saved) /\ v_trans \in BOOLEAN
  BY <1>1, CallReads
<1>3. head' \in 0 .. NCells
  BY <1>1, CellsAssumption
<1>4. m \in Seq(S) /\ n \in Nat \ {0}
  BY <1>1, <1>2 DEF Written, StateRecord
<1>5. ASSUME ReadAll PROVE SInv'
  <2>1. /\ Holds(m) /\ cells' = Filled(m)
        /\ kdata' = Loaded(saved, [i \in Cell |-> NoData], v_trans, Prefix(n))
    BY <1>5 DEF ReadAll
  <2>2. Well(cells')
    <3> HIDE DEF m
    <3> QED BY <1>4, <2>1, FilledWell
  <2>3. Prefix(n) \in [1 .. n -> Cell] /\ \A k, l \in 1 .. n : Prefix(n)[k] = Prefix(n)[l] => k = l
    BY <1>4, <2>1, CellsAssumption DEF Prefix, Holds, Cell
  <2>4. kdata' \in [Cell -> Row]
    BY <1>2, <1>4, <2>1, <2>3, ClearedType, LoadedExact
  <2> QED BY <1>2, <1>3, <2>2, <2>4, ExchangeKeeps
<1>6. ASSUME RefuseAll PROVE SInv'
  <2>1. cells' = Reset /\ kdata' = [i \in Cell |-> NoData]
    BY <1>6 DEF RefuseAll
  <2>2. Well(cells') /\ kdata' \in [Cell -> Row]
    BY <2>1, ResetWell, ClearedType
  <2> QED BY <1>2, <1>3, <2>2, ExchangeKeeps
<1>7. ASSUME CutAll PROVE SInv'
  <2>1. kdata' = [i \in Cell |-> NoData] /\ Holds(m)
    BY <1>7 DEF CutAll
  <2>2. \E meta \in Seq(S) : Holds(meta) /\ cells' = Filled(meta)
    <3>1. CASE cells' = Filled(<<>>)
      <4>1. <<>> \in Seq(S) /\ Holds(<<>>)
        BY CellsAssumption DEF Holds
      <4> QED BY <3>1, <4>1
    <3>2. CASE \E k \in DOMAIN m, got \in SUBSET Seqs :
                 cells' = Filled([SubSeq(m, 1, k) EXCEPT ![k].seq = got])
      <4>1. PICK k \in DOMAIN m, got \in SUBSET Seqs :
               cells' = Filled([SubSeq(m, 1, k) EXCEPT ![k].seq = got])
        BY <3>2
      <4> DEFINE r == [SubSeq(m, 1, k) EXCEPT ![k].seq = got]
      <4> HIDE DEF m
      <4>2. k \in 1 .. Len(m)
        BY <1>4, <4>1
      <4>3. r \in Seq(S) /\ Len(r) = k
        BY <1>4, <4>2, ShortenedType
      <4> HIDE DEF r
      <4>4. Holds(r)
        BY <1>4, <2>1, <4>2, <4>3, CellsAssumption DEF Holds
      <4>5. cells' = Filled(r)
        BY <4>1 DEF r
      <4> QED BY <4>3, <4>4, <4>5
    <3> QED BY <1>7, <3>1, <3>2 DEF CutAll
  <2>3. Well(cells')
    BY <2>2, FilledWell
  <2>4. kdata' \in [Cell -> Row]
    BY <2>1, ClearedType
  <2> QED BY <1>2, <1>3, <2>3, <2>4, ExchangeKeeps
<1> QED BY <1>5, <1>6, <1>7

(* The round trip, and what else a client does between two decodes. *)
LEMMA ClientKeeps ==
  ASSUME SInv, \/ \E s \in Seqs \cup {All} : StateWrite(s)
               \/ ReadNothing \/ NewContext
               \/ \E d \in Seqs : RoundTrip(d)
  PROVE  SInv'
<1>1. /\ Well(cells) /\ head \in 0 .. NCells /\ kdata \in [Cell -> Row] /\ Written(saved)
      /\ v_trans \in BOOLEAN /\ reads \in 0 .. MaxReads
  BY DEF SInv, IInv, MoreTypes, KdataType, Row
<1>2. ASSUME NEW s \in Seqs \cup {All}, StateWrite(s) PROVE SInv'
  <2>1. pc = "idle" /\ saved' = StateOf(cells, kdata, v_trans, s)
        /\ UNCHANGED <<cells, head, kdata, pc, decoding, v_trans, reads>>
    BY <1>2 DEF StateWrite, vars
  <2>2. Written(saved')
    BY <1>1, <2>1, StateWritten
  <2> QED BY <1>1, <2>1, <2>2, ExchangeKeeps
<1>3. ASSUME ReadNothing PROVE SInv'
  <2>1. StateCall /\ UNCHANGED <<cells, head, kdata>>
    BY <1>3 DEF ReadNothing
  <2> QED BY <1>1, <2>1, CallReads, ExchangeKeeps
<1>4. 0 \in 0 .. NCells
  BY CellsAssumption
<1>5. ASSUME NewContext PROVE SInv'
  <2>1. /\ pc = "idle" /\ UNCHANGED <<pc, decoding, saved, reads>>
        /\ cells' = Reset /\ head' = 0 /\ kdata' = [i \in Cell |-> NoData]
        /\ v_trans' \in BOOLEAN
    BY <1>5 DEF NewContext
  <2>2. Well(cells') /\ kdata' \in [Cell -> Row]
    BY <2>1, ResetWell, ClearedType
  <2> QED BY <1>1, <1>4, <2>1, <2>2, ExchangeKeeps
<1>6. ASSUME NEW d \in Seqs, RoundTrip(d) PROVE SInv'
  <2> DEFINE st == StateOf(cells, kdata, v_trans, d)
  <2>1. /\ pc = "idle" /\ UNCHANGED <<pc, decoding, saved, reads>> /\ st.meta # <<>>
        /\ \E idxs \in [1 .. Len(st.meta) -> Cell] :
             /\ SlotFor(Reset, 0, st, idxs)
             /\ cells' = ApplyUbatch(Reset, AsUbatch(st, d), idxs)
             /\ head'  = HeadAfter(idxs)
             /\ \E trans \in BOOLEAN :
                  /\ kdata' = Loaded(st, [i \in Cell |-> NoData], trans, idxs)
                  /\ v_trans' = trans
    BY <1>6 DEF RoundTrip
  <2>2. Written(st)
    BY <1>1, StateWritten
  <2> HIDE DEF st
  <2>3. PICK idxs \in [1 .. Len(st.meta) -> Cell], trans \in BOOLEAN :
           /\ SlotFor(Reset, 0, st, idxs)
           /\ cells' = ApplyUbatch(Reset, AsUbatch(st, d), idxs)
           /\ head'  = HeadAfter(idxs)
           /\ kdata' = Loaded(st, [i \in Cell |-> NoData], trans, idxs)
           /\ v_trans' = trans
    BY <2>1
  <2>4. Well(Reset)
    BY ResetWell
  <2>5. Well(cells') /\ head' \in 0 .. NCells /\ kdata' \in [Cell -> Row]
    BY <1>4, <2>1, <2>2, <2>3, <2>4, ClearedType, PlacedWell
  <2> QED BY <1>1, <2>1, <2>3, <2>5, ExchangeKeeps
<1> QED BY <1>2, <1>3, <1>5, <1>6

(* Every step keeps it. *)
LEMMA StateNextKeeps ==
  ASSUME CpRepeats = FALSE, SInv, [StateNext]_stateVars
  PROVE  SInv'
<1>1. ASSUME [Next]_vars, UNCHANGED <<v_trans, saved, reads>> PROVE SInv'
  <2>1. IInv' /\ MoreTypes'
    BY <1>1, NextKeeps, NextTypes DEF SInv
  <2> QED BY <1>1, <2>1 DEF SInv
<1> QED BY <1>1, SeqCallsKeep, AllCallsKeep, ClientKeeps DEF StateNext, stateVars

(* An empty cache, and no state or one of another context. *)
LEMMA StateInitSInv == StateInit => SInv
<1> SUFFICES ASSUME StateInit PROVE SInv
  OBVIOUS
<1>1. Init /\ v_trans \in BOOLEAN /\ saved \in {NoState} \cup Foreign /\ reads = 0
  BY DEF StateInit
<1>2. Written(saved)
  BY <1>1, NothingWritten, ForeignAssumption
<1>3. 0 \in 0 .. NCells /\ 0 \in 0 .. MaxReads
  BY CellsAssumption, StateAssumption
<1>4. Reset \in KVCellsType
  BY ResetWell DEF Well
<1>5. MoreTypes
  <2>1. /\ head = 0 /\ retried = FALSE /\ stack = <<>> /\ kdata = [i \in Cell |-> NoData]
        /\ entry = [cells |-> Reset, head |-> 0]
    BY <1>1 DEF Init
  <2>2. entry \in [cells : KVCellsType, head : 0 .. NCells]
    BY <1>3, <1>4, <2>1
  <2>3. \A k \in 1 .. Len(stack) : stack[k].head \in 0 .. NCells
    BY <2>1
  <2>4. KdataType
    BY <2>1, ClearedType DEF KdataType, Row
  <2> QED BY <1>3, <2>1, <2>2, <2>3, <2>4 DEF MoreTypes
<1> QED BY <1>1, <1>2, <1>3, <1>5, InitIInv DEF SInv

(***************************************************************************)
(* Whatever is saved, loaded, refused or cut short between the decodes,    *)
(* the indices stay exact and everything keeps its type.                   *)
(***************************************************************************)
THEOREM StatesStayExact ==
  ASSUME CpRepeats = FALSE
  PROVE  StateSpec => []StateInv
<1>1. SInv => StateInv
  BY TypesHold DEF SInv, StateInv, StateTypeOK, Written, IInv, Well, IndexInv
<1>2. SInv /\ [StateNext]_stateVars => SInv'
  BY StateNextKeeps
<1> QED BY StateInitSInv, <1>1, <1>2, PTL DEF StateSpec

-----------------------------------------------------------------------------
(* What a state puts where. *)

(***************************************************************************)
(* Tokens of a sequence that has no cell take their cells, each its own,   *)
(* and nothing of it is purged: a cell that is reused was another's.       *)
(***************************************************************************)
LEMMA AppliedFor ==
  ASSUME NEW c, Well(c), NEW d \in Seqs, \A i \in Cell : d \notin c.cell[i].seq,
         NEW ub \in Seq(Token), NEW idxs \in Seq(Cell), Len(idxs) = Len(ub),
         \A k \in 1 .. Len(ub) : IdsOf(ub[k].ids) = {d}
  PROVE  /\ \A i \in Targets(idxs) :
              /\ i \in Cell
              /\ ApplyUbatch(c, ub, idxs).cell[i].pos = ub[SlotOf(idxs, i)].pos
              /\ ApplyUbatch(c, ub, idxs).cell[i].seq = {d}
         /\ \A i \in Cell \ Targets(idxs) : d \notin ApplyUbatch(c, ub, idxs).cell[i].seq
<1> DEFINE I    == Targets(idxs)
           over == {i \in I : ~IsEmpty(c, i)}
           all  == [i \in Cell |-> IF i \in over THEN Seqs ELSE {}]
           pos(i) == ub[SlotOf(idxs, i)].pos
           seq(i) == IdsOf(ub[SlotOf(idxs, i)].ids)
           at   == [i \in I |-> [pos |-> pos(i), seq |-> seq(i)]]
           c1   == SeqRm(c, all)
           c2   == Emplaced(c, ub, idxs)
           drop == [i \in Cell |->
                      {s \in Seqs : \E m \in Targets(idxs) :
                          /\ c.cell[m].seq = {s}
                          /\ c2.cell[i].pos <= c.cell[m].pos}]
           a    == ApplyUbatch(c, ub, idxs)
<1>1. I \in SUBSET Cell
  BY DEF Targets
<1>2. \A i \in I : pos(i) \in Pos /\ seq(i) = {d}
  <2> SUFFICES ASSUME NEW i \in I PROVE pos(i) \in Pos /\ seq(i) = {d}
    OBVIOUS
  <2>1. SlotOf(idxs, i) \in 1 .. Len(ub)
    BY SlotOfType
  <2>2. ub[SlotOf(idxs, i)] \in Token
    BY <2>1
  <2> QED BY <2>1, <2>2 DEF Token
<1> HIDE DEF pos, seq
<1>3. \A i \in I : at[i].pos = pos(i) /\ at[i].seq = {d}
  BY <1>2
<1>4. \A i \in Cell : c1.cell[i].seq \subseteq c.cell[i].seq /\ c1.cell[i] \in CellState
  <2>1. /\ Well(c1)
        /\ \A i \in Cell : c1.cell[i] \in {Vacant, [c.cell[i] EXCEPT !.seq = @ \ all[i]]}
    <3> HIDE DEF all
    <3> QED BY SeqRmWell
  <2> HIDE DEF all, c1
  <2>2. \A i \in Cell : c.cell[i] \in CellState /\ c1.cell[i] \in CellState
    BY <2>1 DEF Well, KVCellsType
  <2>3. ASSUME NEW i \in Cell PROVE c1.cell[i].seq \subseteq c.cell[i].seq
    <3>1. CASE c1.cell[i] = Vacant
      BY <3>1 DEF Vacant
    <3>2. CASE c1.cell[i] = [c.cell[i] EXCEPT !.seq = @ \ all[i]]
      BY <2>2, <3>2 DEF CellState
    <3> QED BY <2>1, <3>1, <3>2
  <2> QED BY <2>2, <2>3
<1>5. c2 = Emplace(c1, I, at)
  BY DEF Emplaced, pos, seq
<1>6. \A i \in Cell : c2.cell[i] = IF i \notin I THEN c1.cell[i] ELSE
                        [c1.cell[i] EXCEPT !.pos = at[i].pos, !.seq = at[i].seq]
  <2> HIDE DEF I, at, c1, c2
  <2> QED BY <1>5 DEF Emplace
<1> HIDE DEF c2, c1, at, I
<1>7. /\ \A i \in I : c2.cell[i].pos = pos(i) /\ c2.cell[i].seq = {d}
      /\ \A i \in Cell \ I : d \notin c2.cell[i].seq
  <2>1. ASSUME NEW i \in I PROVE c2.cell[i].pos = pos(i) /\ c2.cell[i].seq = {d}
    <3>1. i \in Cell /\ c1.cell[i] \in CellState
      BY <1>1, <1>4
    <3>2. c2.cell[i] = [c1.cell[i] EXCEPT !.pos = at[i].pos, !.seq = at[i].seq]
      BY <1>6, <3>1
    <3> QED BY <1>3, <3>1, <3>2 DEF CellState
  <2> QED BY <1>4, <1>6, <2>1
<1>8. \A i \in Cell : d \notin drop[i]
  <2>1. \A m \in I : c.cell[m].seq # {d}
    BY <1>1
  <2> QED BY <2>1 DEF I
<1>9. a = SeqRm(c2, drop)
  BY DEF ApplyUbatch, Purged, c2
<1> HIDE DEF drop, a
<1>10. \A i \in Cell : a.cell[i] = IF i \in Emptied(c2, drop) THEN Vacant
                                   ELSE [c2.cell[i] EXCEPT !.seq = @ \ drop[i]]
  BY <1>9 DEF SeqRm
<1>11. ASSUME NEW i \in I PROVE a.cell[i].pos = pos(i) /\ a.cell[i].seq = {d}
  <2>1. i \in Cell
    BY <1>1
  <2>2. i \notin Emptied(c2, drop)
    BY <1>7, <1>8, <2>1 DEF Emptied
  <2>3. a.cell[i] = [c2.cell[i] EXCEPT !.seq = @ \ drop[i]]
    BY <1>10, <2>1, <2>2
  <2>4. c2.cell[i] = [pos |-> pos(i), shift |-> c1.cell[i].shift, seq |-> {d}]
    <3>1. c1.cell[i] \in CellState
      BY <1>4, <2>1
    <3>2. c2.cell[i] = [c1.cell[i] EXCEPT !.pos = at[i].pos, !.seq = at[i].seq]
      BY <1>6, <2>1
    <3> QED BY <1>3, <3>1, <3>2 DEF CellState
  <2>5. a.cell[i].pos = pos(i) /\ a.cell[i].seq = {d} \ drop[i]
    BY <2>3, <2>4
  <2> QED BY <1>8, <2>1, <2>5
<1>12. ASSUME NEW i \in Cell \ I PROVE d \notin a.cell[i].seq
  <2>1. c2.cell[i] \in CellState /\ d \notin c2.cell[i].seq
    BY <1>4, <1>6, <1>7
  <2>2. CASE i \in Emptied(c2, drop)
    <3>1. a.cell[i] = Vacant
      BY <1>10, <2>2
    <3> QED BY <3>1 DEF Vacant
  <2>3. CASE i \notin Emptied(c2, drop)
    <3>1. a.cell[i] = [c2.cell[i] EXCEPT !.seq = @ \ drop[i]]
      BY <1>10, <2>3
    <3> QED BY <2>1, <3>1 DEF CellState
  <2> QED BY <2>2, <2>3
<1> QED BY <1>1, <1>11, <1>12 DEF a, I, pos

(* Whoever removes a sequence leaves it no cell. *)
LEMMA WithoutIt ==
  ASSUME NEW c, Well(c), NEW d \in Seqs
  PROVE  \A i \in Cell : d \notin Without(c, d).cell[i].seq
<1> DEFINE drop == [i \in Cell |-> {d}]
<1> SUFFICES ASSUME NEW i \in Cell PROVE d \notin SeqRm(c, drop).cell[i].seq
  BY DEF Without
<1>1. drop[i] = {d}
  OBVIOUS
<1> HIDE DEF drop
<1>2. SeqRm(c, drop).cell[i] \in {Vacant, [c.cell[i] EXCEPT !.seq = @ \ drop[i]]}
  BY SeqRmWell
<1>3. c.cell[i] \in CellState
  BY DEF Well, KVCellsType
<1>4. CASE SeqRm(c, drop).cell[i] = Vacant
  BY <1>4 DEF Vacant
<1>5. CASE SeqRm(c, drop).cell[i] = [c.cell[i] EXCEPT !.seq = @ \ drop[i]]
  BY <1>1, <1>3, <1>5 DEF CellState
<1> QED BY <1>2, <1>4, <1>5

(* What sequence s has in cells c with the keys kd. *)
CellsOf(c, s)    == {i \in Live(c) : s \in c.cell[i].seq}
HeldIn(c, kd, s) == {<<c.cell[i].pos, kd[i]>> : i \in CellsOf(c, s)}

(***************************************************************************)
(* A state placed and loaded for a sequence that has no cell: each of its  *)
(* cells is there, with its position and its key, and nothing else.        *)
(***************************************************************************)
LEMMA PlacedExact ==
  ASSUME NEW c, Well(c), NEW h \in 0 .. NCells, NEW st, Written(st), st.meta # <<>>,
         NEW d \in Seqs, \A i \in Cell : d \notin c.cell[i].seq,
         NEW idxs \in [1 .. Len(st.meta) -> Cell], SlotFor(c, h, st, idxs),
         NEW kd \in [Cell -> Row], NEW trans \in BOOLEAN,
         NEW new, \A i \in Live(ApplyUbatch(c, AsUbatch(st, d), idxs)) :
                    new[i] = Loaded(st, kd, trans, idxs)[i]
  PROVE  /\ HeldIn(ApplyUbatch(c, AsUbatch(st, d), idxs), new, d)
              = {<<st.meta[k].pos, st.k[k]>> : k \in 1 .. Len(st.meta)}
         /\ CellsOf(ApplyUbatch(c, AsUbatch(st, d), idxs), d) = Targets(idxs)
         /\ Cardinality(CellsOf(ApplyUbatch(c, AsUbatch(st, d), idxs), d)) = Len(st.meta)
<1> DEFINE n  == Len(st.meta)
           ub == AsUbatch(st, d)
           a  == ApplyUbatch(c, ub, idxs)
           ld == Loaded(st, kd, trans, idxs)
<1>1. /\ ub \in Seq(Token) /\ Len(ub) = n /\ n \in Nat
      /\ \A k \in 1 .. n : /\ ub[k].pos = st.meta[k].pos /\ IdsOf(ub[k].ids) = {d}
                           /\ st.meta[k].pos \in Pos
  <2>1. /\ AsUbatch(st, d) \in Seq(Token) /\ Len(AsUbatch(st, d)) = Len(st.meta)
        /\ Len(st.meta) \in Nat
        /\ \A k \in 1 .. Len(st.meta) : /\ AsUbatch(st, d)[k].pos = st.meta[k].pos
                                        /\ IdsOf(AsUbatch(st, d)[k].ids) = {d}
                                        /\ st.meta[k].pos \in Pos
                                        /\ st.meta[k].seq \in SUBSET Seqs
    BY AsUbatchType
  <2> QED BY <2>1
<1>2. n # 0
  BY DEF Written, StateRecord
<1>3. n \in Nat \ {0} /\ h \in Int /\ n = Len(st.meta) /\ idxs \in [1 .. n -> Cell]
  BY <1>1, <1>2, CellsAssumption
<1>4. \A i \in Live(a) : new[i] = ld[i]
  OBVIOUS
<1> HIDE DEF n, ub, a, ld
<1>5. /\ idxs \in Seq(Cell) /\ Len(idxs) = n /\ DOMAIN idxs = 1 .. n
      /\ \A k, m \in 1 .. n : idxs[k] = idxs[m] => k = m
      /\ Targets(idxs) \in SUBSET Cell
  <2>1. SlotFor(c, h, st, idxs)
    OBVIOUS
  <2>2. \A n0 \in Nat \ {0} : \A f \in [1 .. n0 -> Cell] :
           n0 = Len(st.meta) /\ SlotFor(c, h, st, f) =>
           /\ f \in Seq(Cell) /\ Len(f) = n0 /\ DOMAIN f = 1 .. n0
           /\ \A k, m \in 1 .. n0 : f[k] = f[m] => k = m
           /\ HeadAfter(f) \in 0 .. NCells
           /\ Targets(f) \in SUBSET Cell
    BY <1>3, SlotCells
  <2> QED BY <1>3, <2>1, <2>2
<1>6. /\ \A i \in Targets(idxs) : /\ i \in Cell
                                  /\ a.cell[i].pos = ub[SlotOf(idxs, i)].pos
                                  /\ a.cell[i].seq = {d}
      /\ \A i \in Cell \ Targets(idxs) : d \notin a.cell[i].seq
  <2>1. \A i \in Cell : d \notin c.cell[i].seq
    OBVIOUS
  <2>2. \A u \in Seq(Token) :
           Len(idxs) = Len(u) /\ (\A k \in 1 .. Len(u) : IdsOf(u[k].ids) = {d}) =>
           /\ \A i \in Targets(idxs) :
                /\ i \in Cell
                /\ ApplyUbatch(c, u, idxs).cell[i].pos = u[SlotOf(idxs, i)].pos
                /\ ApplyUbatch(c, u, idxs).cell[i].seq = {d}
           /\ \A i \in Cell \ Targets(idxs) : d \notin ApplyUbatch(c, u, idxs).cell[i].seq
    BY <1>5, <2>1, AppliedFor
  <2> QED BY <1>1, <1>5, <2>2 DEF a
<1>7. \A k \in 1 .. n : ld[idxs[k]] = st.k[k]
  BY <1>3, <1>5, LoadedExact DEF ld
<1>8. \A k \in 1 .. n : SlotOf(idxs, idxs[k]) = k /\ idxs[k] \in Targets(idxs)
  <2> SUFFICES ASSUME NEW k \in 1 .. n PROVE SlotOf(idxs, idxs[k]) = k /\ idxs[k] \in Targets(idxs)
    OBVIOUS
  <2>1. idxs[k] \in Targets(idxs)
    BY <1>5 DEF Targets
  <2>2. SlotOf(idxs, idxs[k]) \in 1 .. n /\ idxs[SlotOf(idxs, idxs[k])] = idxs[k]
    BY <1>5 DEF SlotOf
  <2> QED BY <1>5, <2>1, <2>2
<1>9. Targets(idxs) = {idxs[k] : k \in 1 .. n}
  BY <1>5 DEF Targets
<1>10. \A k \in 1 .. n : /\ idxs[k] \in Live(a) /\ a.cell[idxs[k]].pos = st.meta[k].pos
                         /\ new[idxs[k]] = st.k[k]
  <2> SUFFICES ASSUME NEW k \in 1 .. n
               PROVE  /\ idxs[k] \in Live(a) /\ a.cell[idxs[k]].pos = st.meta[k].pos
                      /\ new[idxs[k]] = st.k[k]
    OBVIOUS
  <2>1. a.cell[idxs[k]].pos = st.meta[k].pos /\ idxs[k] \in Cell
    BY <1>1, <1>6, <1>8
  <2>2. idxs[k] \in Live(a)
    BY <1>1, <2>1, CellsAssumption DEF Live, IsEmpty, None, Pos
  <2> QED BY <1>4, <1>7, <2>1, <2>2
<1>11. CellsOf(a, d) = Targets(idxs)
  <2>1. \A i \in CellsOf(a, d) : i \in Targets(idxs)
    BY <1>6 DEF CellsOf, Live
  <2>2. \A i \in Targets(idxs) : i \in CellsOf(a, d)
    BY <1>6, <1>9, <1>10 DEF CellsOf
  <2> QED BY <2>1, <2>2
<1>12. HeldIn(a, new, d) = {<<st.meta[k].pos, st.k[k]>> : k \in 1 .. n}
  BY <1>9, <1>10, <1>11 DEF HeldIn
<1>13. Cardinality(Targets(idxs)) = n
  <2>1. idxs \in Surjection(1 .. n, Targets(idxs)) /\ idxs \in Injection(1 .. n, Targets(idxs))
    <3>1. idxs \in [1 .. n -> Targets(idxs)]
      BY <1>3, <1>8
    <3>2. \A i \in Targets(idxs) : \E k \in 1 .. n : idxs[k] = i
      BY <1>9
    <3> QED BY <1>5, <3>1, <3>2, Fun_IsInj, Fun_IsSurj
  <2>2. IsFiniteSet(1 .. n) /\ Cardinality(1 .. n) = n
    BY <1>3, FS_Interval
  <2> QED BY <2>1, <2>2, FS_Surjection
<1> QED BY <1>11, <1>12, <1>13 DEF a, ub, n

(* What a sequence holds after a step, of the cells and the keys after it. *)
LEMMA HeldThen ==
  ASSUME NEW s
  PROVE  /\ HasCell(s) = CellsOf(cells, s) /\ HasCell(s)' = CellsOf(cells', s)
         /\ Held(s) = HeldIn(cells, kdata, s) /\ Held(s)' = HeldIn(cells', kdata', s)
  BY DEF HasCell, CellsOf, Held, HeldIn, Live, IsEmpty

(* A state read for one sequence becomes what the sequence holds. *)
LEMMA ReadSeqExact ==
  ASSUME SInv, NEW d \in Seqs, ReadSeq(d)
  PROVE  /\ Held(d)' = {<<saved.meta[k].pos, saved.k[k]>> : k \in 1 .. Len(saved.meta)}
         /\ Cardinality(HasCell(d)') = Len(saved.meta)
<1> DEFINE c == Without(cells, d)
           h == HeadWithout(cells, head, d)
<1>1. StateCall /\ saved.meta # <<>>
  BY DEF ReadSeq
<1>2. /\ Well(cells) /\ head \in 0 .. NCells /\ kdata \in [Cell -> Row] /\ Written(saved)
      /\ v_trans \in BOOLEAN
  BY <1>1, CallReads
<1>3. Well(c) /\ h \in 0 .. NCells
  BY <1>2, WithoutWell
<1>4. \A i \in Cell : d \notin c.cell[i].seq
  BY <1>2, WithoutIt
<1>5. PICK idxs \in [1 .. Len(saved.meta) -> Cell] :
         /\ SlotFor(c, h, saved, idxs)
         /\ cells' = ApplyUbatch(c, AsUbatch(saved, d), idxs)
         /\ kdata' = Scrub(cells', Loaded(saved, Scrub(c, kdata), v_trans, idxs))
  BY DEF ReadSeq
<1> DEFINE kd == Scrub(c, kdata)
           ld == Loaded(saved, kd, v_trans, idxs)
<1> HIDE DEF c, h
<1>6. kd \in [Cell -> Row]
  BY <1>2, ScrubType DEF Row
<1> HIDE DEF kd
<1>7. ld \in [Cell -> Row]
  BY <1>1, <1>2, <1>3, <1>5, <1>6, PlacedWell
<1>8. \A i \in Live(cells') : kdata'[i] = ld[i]
  <2>1. kdata' = Scrub(cells', ld)
    BY <1>5 DEF kd
  <2> HIDE DEF ld
  <2> QED BY <1>7, <2>1, ScrubType DEF Row
<1>9. \A new : (\A i \in Live(ApplyUbatch(c, AsUbatch(saved, d), idxs)) : new[i] = ld[i]) =>
        /\ HeldIn(ApplyUbatch(c, AsUbatch(saved, d), idxs), new, d)
             = {<<saved.meta[k].pos, saved.k[k]>> : k \in 1 .. Len(saved.meta)}
        /\ CellsOf(ApplyUbatch(c, AsUbatch(saved, d), idxs), d) = Targets(idxs)
        /\ Cardinality(CellsOf(ApplyUbatch(c, AsUbatch(saved, d), idxs), d)) = Len(saved.meta)
  BY <1>1, <1>2, <1>3, <1>4, <1>5, <1>6, PlacedExact DEF ld
<1> QED BY <1>5, <1>8, <1>9, HeldThen

(* A state read for all sequences becomes the cache. *)
LEMMA ReadAllExact ==
  ASSUME SInv, ReadAll
  PROVE  /\ HeldAll' = {<<saved.meta[k].pos, saved.k[k], saved.meta[k].seq>> :
                          k \in 1 .. Len(saved.meta)}
         /\ cells'.used = 0 .. Len(saved.meta) - 1
<1> DEFINE m  == saved.meta
           n  == Len(m)
           ld == Loaded(saved, [i \in Cell |-> NoData], v_trans, Prefix(n))
<1>1. /\ StateCall /\ m # <<>> /\ Holds(m) /\ cells' = Filled(m) /\ kdata' = ld
  BY DEF ReadAll
<1>2. Written(saved) /\ v_trans \in BOOLEAN
  BY <1>1, CallReads
<1>3. m \in Seq([pos : Pos, seq : SUBSET Seqs]) /\ n \in Nat \ {0}
  BY <1>1, <1>2 DEF Written, StateRecord
<1>4. /\ Prefix(n) \in [1 .. n -> Cell] /\ \A k \in 1 .. n : Prefix(n)[k] = k - 1
      /\ \A k, l \in 1 .. n : Prefix(n)[k] = Prefix(n)[l] => k = l
  BY <1>1, <1>3, CellsAssumption DEF Prefix, Holds, Cell
<1>5. \A k \in 1 .. n : ld[Prefix(n)[k]] = saved.k[k]
  <2> DEFINE none == [i \in Cell |-> NoData]
  <2>1. none \in [Cell -> Row]
    BY ClearedType
  <2> HIDE DEF none, m
  <2>2. n = Len(saved.meta)
    BY DEF m
  <2>3. \A f \in [1 .. n -> Cell] : (\A k, l \in 1 .. n : f[k] = f[l] => k = l) =>
          \A k \in 1 .. n : Loaded(saved, none, v_trans, f)[f[k]] = saved.k[k]
    BY <1>2, <1>3, <2>1, <2>2, LoadedExact
  <2>4. ld = Loaded(saved, none, v_trans, Prefix(n))
    BY DEF none
  <2> QED BY <1>4, <2>3, <2>4
<1>6. \A k \in 1 .. n : kdata'[k - 1] = saved.k[k]
  BY <1>1, <1>4, <1>5
<1> HIDE DEF ld, m
<1>7. /\ Well(cells')
      /\ \A k \in 1 .. n : cells'.cell[k - 1].pos = m[k].pos /\ cells'.cell[k - 1].seq = m[k].seq
      /\ Live(cells') = 0 .. n - 1
  BY <1>1, <1>3, FilledWell
<1>8. cells'.used = 0 .. n - 1
  BY <1>7 DEF Well, IndexConsistent
<1>9. HeldAll' = {<<m[k].pos, saved.k[k], m[k].seq>> : k \in 1 .. n}
  <2> DEFINE has(i) == <<cells'.cell[i].pos, kdata'[i], cells'.cell[i].seq>>
             was(k) == <<m[k].pos, saved.k[k], m[k].seq>>
  <2>1. HeldAll' = {has(i) : i \in 0 .. n - 1}
    BY <1>7 DEF HeldAll, Live, IsEmpty
  <2>2. \A k \in 1 .. n : has(k - 1) = was(k)
    BY <1>6, <1>7
  <2>3. \A i \in 0 .. n - 1 : i + 1 \in 1 .. n /\ (i + 1) - 1 = i
    BY <1>3
  <2>4. \A k \in 1 .. n : k - 1 \in 0 .. n - 1
    BY <1>3
  <2> HIDE DEF has, was
  <2>5. \A i \in 0 .. n - 1 : has(i) = was(i + 1)
    BY <2>2, <2>3
  <2>6. {has(i) : i \in 0 .. n - 1} = {was(k) : k \in 1 .. n}
    BY <2>2, <2>3, <2>4, <2>5
  <2> QED BY <2>1, <2>6 DEF was
<1> QED BY <1>8, <1>9 DEF m

(* One step loads what the state says. *)
LEMMA StepRestores ==
  ASSUME SInv
  PROVE  Restored
  BY ReadSeqExact, ReadAllExact DEF Restored

(***************************************************************************)
(* A state that is read to its end puts exactly its positions and keys     *)
(* into the sequence, or becomes the cache, whatever cells are free and    *)
(* in whichever layout its values were saved: for every number of cells,   *)
(* of sequences and of values to a cell, and every kind of window.         *)
(***************************************************************************)
THEOREM StatesRestore ==
  ASSUME CpRepeats = FALSE
  PROVE  StateSpec => RestoredExact
<1>1. SInv /\ [StateNext]_stateVars => SInv'
  BY StateNextKeeps
<1>2. SInv => [Restored]_stateVars
  BY StepRestores
<1> QED BY StateInitSInv, <1>1, <1>2, PTL DEF StateSpec, RestoredExact

-----------------------------------------------------------------------------
(* What the other sequences have. *)

(* Sequence s has the same cells, positions and keys in both. *)
SameFor(c, kd, e, ke, s) ==
    /\ CellsOf(e, s) = CellsOf(c, s)
    /\ \A i \in CellsOf(c, s) : e.cell[i].pos = c.cell[i].pos /\ ke[i] = kd[i]

(* Then it holds the same. *)
LEMMA SameHeld ==
  ASSUME NEW c, NEW kd, NEW e, NEW ke, NEW s, SameFor(c, kd, e, ke, s)
  PROVE  HeldIn(e, ke, s) = HeldIn(c, kd, s)
<1> DEFINE now(i) == <<e.cell[i].pos, ke[i]>>
           was(i) == <<c.cell[i].pos, kd[i]>>
<1>1. CellsOf(e, s) = CellsOf(c, s) /\ \A i \in CellsOf(c, s) : now(i) = was(i)
  BY DEF SameFor
<1>2. /\ HeldIn(e, ke, s) = {now(i) : i \in CellsOf(e, s)}
      /\ HeldIn(c, kd, s) = {was(i) : i \in CellsOf(c, s)}
  BY DEF HeldIn
<1> HIDE DEF now, was
<1> QED BY <1>1, <1>2

(* Cells are the same, but for those one of the sequences has alone. *)
SameElse(c, e, d) ==
    \A s \in Seqs \ {d} : /\ CellsOf(e, s) = CellsOf(c, s)
                          /\ \A i \in CellsOf(c, s) : e.cell[i].pos = c.cell[i].pos

(* A sequence removed leaves the others their cells, those shared with it too. *)
LEMMA WithoutOthers ==
  ASSUME NEW c, Well(c), NEW d \in Seqs
  PROVE  /\ SameElse(c, Without(c, d), d) /\ Without(c, d).hasShift = c.hasShift
         /\ \A i \in Live(Without(c, d)) : i \in Live(c)
<1> DEFINE drop == [i \in Cell |-> {d}]
           e    == SeqRm(c, drop)
<1>1. \A i \in Cell : drop[i] = {d}
  OBVIOUS
<1>2. e = Without(c, d)
  BY DEF Without
<1> HIDE DEF drop
<1>3. /\ e.hasShift = c.hasShift
      /\ \A i \in Live(e) : /\ i \in Live(c)
                            /\ e.cell[i].pos = c.cell[i].pos
                            /\ e.cell[i].seq = c.cell[i].seq \ drop[i]
  BY SeqRmSame
<1>4. \A i \in Cell : IsEmpty(e, i) <=> IsEmpty(c, i) \/ i \in Emptied(c, drop)
  BY SeqRmWell
<1> HIDE DEF e
<1>5. Live(e) \in SUBSET Cell /\ Live(c) \in SUBSET Cell
  BY DEF Live
<1>6. ASSUME NEW s \in Seqs \ {d}
      PROVE  /\ CellsOf(e, s) = CellsOf(c, s)
             /\ \A i \in CellsOf(c, s) : e.cell[i].pos = c.cell[i].pos
  <2>1. \A i \in CellsOf(c, s) : i \in Live(e)
    <3> SUFFICES ASSUME NEW i \in CellsOf(c, s) PROVE i \in Live(e)
      OBVIOUS
    <3>1. i \in Live(c) /\ i \in Cell /\ s \in c.cell[i].seq
      BY <1>5 DEF CellsOf
    <3>2. i \notin Emptied(c, drop)
      BY <1>1, <3>1 DEF Emptied
    <3> QED BY <1>4, <3>1, <3>2 DEF Live
  <2>2. \A i \in Live(e) : s \in e.cell[i].seq <=> s \in c.cell[i].seq
    BY <1>1, <1>3, <1>5
  <2> QED BY <1>3, <2>1, <2>2 DEF CellsOf
<1> QED BY <1>2, <1>3, <1>6 DEF SameElse

(* Of sequence d nothing is left, and no cell that goes when it is removed. *)
Rid(c, d) == \A i \in Live(c) : /\ d \notin c.cell[i].seq
                                /\ i \notin Emptied(c, [m \in Cell |-> {d}])

(* Without a window only empty cells are taken. *)
LEMMA SlotIsEmpty ==
  ASSUME SwaType = "none", NEW c, NEW h, NEW st, NEW n \in Nat, n = Len(st.meta),
         NEW idxs \in [1 .. n -> Cell], SlotFor(c, h, st, idxs)
  PROVE  \A i \in Targets(idxs) : IsEmpty(c, i)
<1>1. \A k \in 1 .. n : CanUse(c, idxs[k])
  BY DEF SlotFor, IsSlot
<1>2. \A i \in Cell : CanUse(c, i) => IsEmpty(c, i)
  BY DEF CanUse, IsMaskedSwa
<1> QED BY <1>1, <1>2 DEF Targets

(***************************************************************************)
(* Placed in cells that are empty, for a sequence that has none: the other *)
(* sequences keep what they have, and to remove the sequence again is to   *)
(* take back all that was done.                                            *)
(***************************************************************************)
LEMMA PlacedOthers ==
  ASSUME SwaType = "none",
         NEW c, Well(c), NEW h \in 0 .. NCells, NEW st, Written(st), st.meta # <<>>,
         NEW d \in Seqs, NEW idxs \in [1 .. Len(st.meta) -> Cell], SlotFor(c, h, st, idxs)
  PROVE  /\ SameElse(c, ApplyUbatch(c, AsUbatch(st, d), idxs), d)
         /\ \A i \in Targets(idxs) : /\ i \in Cell /\ IsEmpty(c, i)
                                     /\ ApplyUbatch(c, AsUbatch(st, d), idxs).cell[i].seq = {d}
         /\ Rid(c, d) => Without(ApplyUbatch(c, AsUbatch(st, d), idxs), d) = c
<1> DEFINE n  == Len(st.meta)
           ub == AsUbatch(st, d)
           a  == ApplyUbatch(c, ub, idxs)
           drop == [i \in Cell |-> {d}]
<1>1. /\ ub \in Seq(Token) /\ Len(ub) = n /\ n \in Nat
      /\ \A k \in 1 .. n : IdsOf(ub[k].ids) = {d}
  <2>1. /\ AsUbatch(st, d) \in Seq(Token) /\ Len(AsUbatch(st, d)) = Len(st.meta)
        /\ Len(st.meta) \in Nat
        /\ \A k \in 1 .. Len(st.meta) : /\ AsUbatch(st, d)[k].pos = st.meta[k].pos
                                        /\ IdsOf(AsUbatch(st, d)[k].ids) = {d}
                                        /\ st.meta[k].pos \in Pos
                                        /\ st.meta[k].seq \in SUBSET Seqs
    BY AsUbatchType
  <2> QED BY <2>1
<1>2. n # 0
  BY DEF Written, StateRecord
<1>3. n \in Nat \ {0} /\ n = Len(st.meta) /\ idxs \in [1 .. n -> Cell]
  BY <1>1, <1>2
<1> HIDE DEF n, ub
<1>4. idxs \in Seq(Cell) /\ Len(idxs) = n /\ Targets(idxs) \in SUBSET Cell
  BY <1>3 DEF Targets
<1>5. \A i \in Targets(idxs) : IsEmpty(c, i)
  BY <1>3, SlotIsEmpty
<1>6. /\ a.hasShift = c.hasShift
      /\ \A i \in Cell \ Targets(idxs) : a.cell[i] = c.cell[i]
      /\ \A i \in Targets(idxs) : a.cell[i].seq = IdsOf(ub[SlotOf(idxs, i)].ids)
  BY <1>1, <1>3, <1>4, <1>5, ApplyOnEmpty
<1>7. \A i \in Targets(idxs) : a.cell[i].seq = {d}
  BY <1>1, <1>4, <1>6, SlotOfType
<1>8. Well(a)
  <2>1. \A k, m \in 1 .. n : idxs[k] = idxs[m] => k = m
    <3>1. h \in Int
      BY CellsAssumption
    <3>2. \A n0 \in Nat \ {0} : \A f \in [1 .. n0 -> Cell] :
             n0 = Len(st.meta) /\ SlotFor(c, h, st, f) =>
             /\ f \in Seq(Cell) /\ Len(f) = n0 /\ DOMAIN f = 1 .. n0
             /\ \A k, m \in 1 .. n0 : f[k] = f[m] => k = m
             /\ HeadAfter(f) \in 0 .. NCells
             /\ Targets(f) \in SUBSET Cell
      BY <3>1, SlotCells
    <3> QED BY <1>3, <3>2
  <2> QED BY <1>1, <1>3, <1>4, <2>1, ApplyUbatchWell
<1> HIDE DEF a, drop
<1>9. SameElse(c, a, d)
  <2> SUFFICES ASSUME NEW s \in Seqs \ {d}
               PROVE  /\ CellsOf(a, s) = CellsOf(c, s)
                      /\ \A i \in CellsOf(c, s) : a.cell[i].pos = c.cell[i].pos
    BY DEF SameElse
  <2>1. \A i \in Cell \ Targets(idxs) : (i \in Live(a) <=> i \in Live(c))
    BY <1>6 DEF Live, IsEmpty
  <2>2. \A i \in CellsOf(a, s) : i \in Cell \ Targets(idxs)
    BY <1>7 DEF CellsOf, Live
  <2>3. \A i \in CellsOf(c, s) : i \in Cell \ Targets(idxs)
    BY <1>5 DEF CellsOf, Live
  <2> QED BY <1>6, <2>1, <2>2, <2>3 DEF CellsOf
<1>10. ASSUME Rid(c, d) PROVE Without(a, d) = c
  <2> DEFINE e == SeqRm(a, drop)
  <2>0. \A i \in Live(c) : d \notin c.cell[i].seq /\ i \notin Emptied(c, drop)
    BY <1>10 DEF Rid, drop
  <2>1. e = Without(a, d)
    BY DEF Without, drop
  <2>2. \A i \in Cell : drop[i] = {d}
    BY DEF drop
  <2>3. Well(e) /\ e.hasShift = c.hasShift
    BY <1>6, <1>8, SeqRmWell, SeqRmSame
  <2>4. \A i \in Cell : e.cell[i] = IF i \in Emptied(a, drop) THEN Vacant
                                    ELSE [a.cell[i] EXCEPT !.seq = @ \ drop[i]]
    BY DEF SeqRm
  <2> HIDE DEF e
  <2>5. \A i \in Cell : IsEmpty(c, i) => c.cell[i] = Vacant
    BY DEF Well, IndexConsistent
  <2>6. ASSUME NEW i \in Targets(idxs) PROVE e.cell[i] = c.cell[i]
    <3>1. i \in Cell /\ a.cell[i].seq = {d} /\ c.cell[i] = Vacant
      BY <1>4, <1>5, <1>7, <2>5
    <3>2. i \in Live(a)
      <4>1. Vacant.seq = {}
        BY DEF Vacant
      <4> QED BY <1>8, <3>1, <4>1 DEF Live, Well, IndexConsistent
    <3>3. i \in Emptied(a, drop)
      BY <2>2, <3>1, <3>2 DEF Emptied
    <3> QED BY <2>4, <3>1, <3>3
  <2>7. ASSUME NEW i \in Cell \ Targets(idxs) PROVE e.cell[i] = c.cell[i]
    <3>1. a.cell[i] = c.cell[i] /\ a.cell[i] \in CellState /\ i \in Cell
      BY <1>6, <1>8 DEF Well, KVCellsType
    <3>2. d \notin c.cell[i].seq
      <4>1. CASE i \in Live(c)
        BY <2>0, <4>1
      <4>2. CASE i \notin Live(c)
        <5>1. c.cell[i] = Vacant
          BY <2>5, <3>1, <4>2 DEF Live
        <5> QED BY <5>1 DEF Vacant
      <4> QED BY <4>1, <4>2
    <3>3. i \notin Emptied(a, drop)
      <4>1. i \in Emptied(a, drop) => i \in Live(c) /\ i \in Emptied(c, drop)
        BY <3>1 DEF Emptied, Live, IsEmpty
      <4> QED BY <2>0, <4>1
    <3>4. e.cell[i] = [a.cell[i] EXCEPT !.seq = @ \ drop[i]]
      BY <2>4, <3>1, <3>3
    <3>5. a.cell[i].seq \ drop[i] = a.cell[i].seq
      BY <2>2, <3>1, <3>2
    <3> QED BY <3>1, <3>4, <3>5 DEF CellState
  <2>8. \A i \in Cell : e.cell[i] = c.cell[i]
    BY <2>6, <2>7
  <2> QED BY <2>1, <2>3, <2>8, SameCells
<1> QED BY <1>4, <1>5, <1>7, <1>9, <1>10 DEF a, ub, drop

(* A sequence removed has no cell left to be emptied. *)
LEMMA WithoutTwice ==
  ASSUME NEW c, Well(c), NEW d \in Seqs
  PROVE  Rid(Without(c, d), d)
<1> DEFINE drop == [i \in Cell |-> {d}]
           e    == SeqRm(c, drop)
<1>1. /\ \A i \in Cell : drop[i] = {d}
      /\ e = Without(c, d) /\ \A i \in Cell : d \notin e.cell[i].seq
  BY WithoutIt DEF Without
<1> HIDE DEF drop
<1>2. \A i \in Live(e) : /\ i \in Live(c) /\ i \notin Emptied(c, drop)
                         /\ e.cell[i].seq = c.cell[i].seq \ drop[i]
  BY SeqRmSame
<1> HIDE DEF e
<1>3. ASSUME NEW i \in Live(e), i \in Emptied(e, drop) PROVE FALSE
  <2>1. /\ i \in Cell /\ i \in Live(c) /\ i \notin Emptied(c, drop)
        /\ e.cell[i].seq = c.cell[i].seq \ {d} /\ drop[i] = {d}
    BY <1>1, <1>2 DEF Live
  <2>2. e.cell[i].seq = {} /\ {d} = Seqs
    BY <1>1, <1>3, <2>1 DEF Emptied
  <2>3. c.cell[i].seq \subseteq drop[i] /\ drop[i] = Seqs
    BY <2>1, <2>2
  <2> QED BY <2>1, <2>3 DEF Emptied
<1>4. \A i \in Live(e) : i \in Cell
  BY DEF Live
<1> QED BY <1>1, <1>3, <1>4 DEF Rid, drop

(* What is stored for the cells of the others stays. *)
LEMMA OthersHold ==
  ASSUME NEW d \in Seqs, SameElse(cells, cells', d),
         \A s \in Seqs \ {d} : \A i \in CellsOf(cells, s) : kdata'[i] = kdata[i]
  PROVE  \A s \in Seqs \ {d} : Held(s)' = Held(s)
<1> SUFFICES ASSUME NEW s \in Seqs \ {d} PROVE Held(s)' = Held(s)
  OBVIOUS
<1>1. SameFor(cells, kdata, cells', kdata', s)
  BY DEF SameElse, SameFor
<1>2. HeldIn(cells', kdata', s) = HeldIn(cells, kdata, s)
  BY <1>1, SameHeld
<1> QED BY <1>2, HeldThen

(* A state read, refused or cut short for one sequence spares the others. *)
LEMMA SeqCallsSpare ==
  ASSUME SwaType = "none", SInv, NEW d \in Seqs
  PROVE  /\ ReadSeq(d) \/ RefuseSeq(d) \/ CutSeq(d) =>
              \A s \in Seqs \ {d} : Held(s)' = Held(s)
         /\ RefuseSeq(d) => cells' = Without(cells, d)
<1> SUFFICES ASSUME ReadSeq(d) \/ RefuseSeq(d) \/ CutSeq(d)
             PROVE  /\ \A s \in Seqs \ {d} : Held(s)' = Held(s)
                    /\ RefuseSeq(d) => cells' = Without(cells, d)
  OBVIOUS
<1> DEFINE c == Without(cells, d)
           h == HeadWithout(cells, head, d)
           Given(s) == CellsOf(cells, s)
<1>1. StateCall /\ saved.meta # <<>>
  BY DEF ReadSeq, RefuseSeq, CutSeq
<1>2. /\ Well(cells) /\ head \in 0 .. NCells /\ kdata \in [Cell -> Row] /\ Written(saved)
      /\ v_trans \in BOOLEAN
  BY <1>1, CallReads
<1>3. Well(c) /\ h \in 0 .. NCells
  BY <1>2, WithoutWell
<1>4. SameElse(cells, c, d)
  BY <1>2, WithoutOthers
<1>5. Rid(c, d)
  BY <1>2, WithoutTwice
<1> HIDE DEF c, h
<1>6. ASSUME NEW e, SameElse(c, e, d)
      PROVE  /\ SameElse(cells, e, d)
             /\ \A s \in Seqs \ {d} : \A i \in Given(s) : i \in Live(e) /\ i \in Live(c)
  BY <1>4, <1>6 DEF SameElse, CellsOf
<1>7. SameElse(c, c, d)
  BY DEF SameElse
<1>8. ASSUME NEW e, NEW kd \in [Cell -> Row], NEW i \in Live(e) PROVE Scrub(e, kd)[i] = kd[i]
  BY <1>8, ScrubType DEF Row
<1>9. ASSUME NEW idxs \in [1 .. Len(saved.meta) -> Cell], SlotFor(c, h, saved, idxs),
             NEW a, a = ApplyUbatch(c, AsUbatch(saved, d), idxs)
      PROVE  /\ SameElse(c, a, d) /\ Without(a, d) = c
             /\ \A s \in Seqs \ {d} : \A i \in Given(s) : i \in Cell /\ i \notin Targets(idxs)
  <2>1. /\ SameElse(c, a, d) /\ Without(a, d) = c
        /\ \A i \in Targets(idxs) : i \in Cell /\ IsEmpty(c, i)
    <3>1. \A f \in [1 .. Len(saved.meta) -> Cell] : SlotFor(c, h, saved, f) =>
            /\ SameElse(c, ApplyUbatch(c, AsUbatch(saved, d), f), d)
            /\ \A i \in Targets(f) : /\ i \in Cell /\ IsEmpty(c, i)
                                    /\ ApplyUbatch(c, AsUbatch(saved, d), f).cell[i].seq = {d}
            /\ Rid(c, d) => Without(ApplyUbatch(c, AsUbatch(saved, d), f), d) = c
      BY <1>1, <1>2, <1>3, PlacedOthers
    <3> QED BY <1>5, <1>9, <3>1
  <2>2. \A s \in Seqs \ {d} : \A i \in Given(s) : i \in Live(c)
    BY <1>6, <1>7
  <2> QED BY <2>1, <2>2 DEF Live
<1>10. ASSUME ReadSeq(d) PROVE \A s \in Seqs \ {d} : Held(s)' = Held(s)
  <2>1. PICK idxs \in [1 .. Len(saved.meta) -> Cell] :
           /\ SlotFor(c, h, saved, idxs)
           /\ cells' = ApplyUbatch(c, AsUbatch(saved, d), idxs)
           /\ kdata' = Scrub(cells', Loaded(saved, Scrub(c, kdata), v_trans, idxs))
    BY <1>10 DEF ReadSeq, c, h
  <2> DEFINE kd == Scrub(c, kdata)
             ld == Loaded(saved, kd, v_trans, idxs)
  <2>2. kd \in [Cell -> Row]
    BY <1>2, ScrubType DEF Row
  <2>3. kdata' = Scrub(cells', ld)
    BY <2>1
  <2>4. /\ ld \in [Cell -> Row]
        /\ \A i \in Cell : i \notin Targets(idxs) => ld[i] = kd[i]
    <3> HIDE DEF kd
    <3> DEFINE n == Len(saved.meta)
    <3>1. n \in Nat \ {0}
      BY <1>1, <1>2 DEF Written, StateRecord
    <3>2. h \in Int
      BY <1>3, CellsAssumption
    <3>3. \A n0 \in Nat \ {0} : \A f \in [1 .. n0 -> Cell] :
             n0 = Len(saved.meta) /\ SlotFor(c, h, saved, f) =>
             /\ f \in Seq(Cell) /\ Len(f) = n0 /\ DOMAIN f = 1 .. n0
             /\ \A k, m \in 1 .. n0 : f[k] = f[m] => k = m
             /\ HeadAfter(f) \in 0 .. NCells
             /\ Targets(f) \in SUBSET Cell
      BY <3>2, SlotCells
    <3>4. \A k, m \in 1 .. n : idxs[k] = idxs[m] => k = m
      BY <2>1, <3>1, <3>3
    <3>5. /\ ld \in [Cell -> Row]
          /\ \A i \in Cell : (\A k \in 1 .. n : idxs[k] # i) => ld[i] = kd[i]
      BY <1>2, <2>2, <3>1, <3>4, LoadedExact
    <3>6. \A k \in 1 .. n : idxs[k] \in Targets(idxs)
      BY DEF Targets
    <3> QED BY <3>5, <3>6
  <2>5. /\ SameElse(c, cells', d)
        /\ \A s \in Seqs \ {d} : \A i \in Given(s) : i \in Cell /\ i \notin Targets(idxs)
    BY <1>9, <2>1
  <2> HIDE DEF ld
  <2>6. ASSUME NEW s \in Seqs \ {d}, NEW i \in Given(s) PROVE kdata'[i] = kdata[i]
    <3>1. i \in Live(cells') /\ i \in Live(c)
      BY <1>6, <2>5
    <3>2. kdata'[i] = ld[i]
      BY <1>8, <2>3, <2>4, <3>1
    <3>3. kd[i] = kdata[i]
      BY <1>2, <1>8, <3>1
    <3> QED BY <2>4, <2>5, <3>2, <3>3
  <2> QED BY <1>6, <2>5, <2>6, OthersHold
<1>11. ASSUME RefuseSeq(d)
       PROVE  cells' = c /\ \A s \in Seqs \ {d} : Held(s)' = Held(s)
  <2>1. cells' = c
    <3>1. CASE Fits(c, saved)
      <4>1. PICK idxs \in [1 .. Len(saved.meta) -> Cell] :
               /\ SlotFor(c, h, saved, idxs)
               /\ cells' = Without(ApplyUbatch(c, AsUbatch(saved, d), idxs), d)
        BY <1>11, <3>1 DEF RefuseSeq, c, h
      <4> QED BY <1>9, <4>1
    <3>2. CASE ~Fits(c, saved)
      BY <1>11, <3>2 DEF RefuseSeq, c, h
    <3> QED BY <3>1, <3>2
  <2>2. kdata' = Scrub(c, kdata)
    BY <1>11, <2>1 DEF RefuseSeq
  <2>3. ASSUME NEW s \in Seqs \ {d}, NEW i \in Given(s) PROVE kdata'[i] = kdata[i]
    BY <1>2, <1>6, <1>7, <1>8, <2>2
  <2> QED BY <1>4, <2>1, <2>3, OthersHold
<1>12. ASSUME CutSeq(d) PROVE \A s \in Seqs \ {d} : Held(s)' = Held(s)
  <2>1. CASE cells' = c /\ kdata' = Scrub(c, kdata)
    <3>1. ASSUME NEW s \in Seqs \ {d}, NEW i \in Given(s) PROVE kdata'[i] = kdata[i]
      BY <1>2, <1>6, <1>7, <1>8, <2>1
    <3> QED BY <1>4, <2>1, <3>1, OthersHold
  <2>2. ASSUME NEW idxs \in [1 .. Len(saved.meta) -> Cell], SlotFor(c, h, saved, idxs),
               cells' = ApplyUbatch(c, AsUbatch(saved, d), idxs),
               kdata' = Scrub(cells', [i \in Cell |->
                          IF i \in Targets(idxs) THEN NoData ELSE kdata[i]])
        PROVE  \A s \in Seqs \ {d} : Held(s)' = Held(s)
    <3> DEFINE kd == [i \in Cell |-> IF i \in Targets(idxs) THEN NoData ELSE kdata[i]]
    <3>1. kd \in [Cell -> Row] /\ kdata' = Scrub(cells', kd)
      BY <1>2, <2>2, NoDataRow
    <3>2. \A i \in Cell : i \notin Targets(idxs) => kd[i] = kdata[i]
      OBVIOUS
    <3> HIDE DEF kd
    <3>3. /\ SameElse(c, cells', d)
          /\ \A s \in Seqs \ {d} : \A i \in Given(s) : i \in Cell /\ i \notin Targets(idxs)
      BY <1>9, <2>2
    <3>4. ASSUME NEW s \in Seqs \ {d}, NEW i \in Given(s) PROVE kdata'[i] = kdata[i]
      <4>1. i \in Live(cells')
        BY <1>6, <3>3
      <4>2. kdata'[i] = kd[i]
        BY <1>8, <3>1, <4>1
      <4> QED BY <3>2, <3>3, <4>2
    <3> QED BY <1>6, <3>3, <3>4, OthersHold
  <2>3. \/ cells' = c /\ kdata' = Scrub(c, kdata)
        \/ \E idxs \in [1 .. Len(saved.meta) -> Cell] :
             /\ SlotFor(c, h, saved, idxs)
             /\ cells' = ApplyUbatch(c, AsUbatch(saved, d), idxs)
             /\ kdata' = Scrub(cells', [i \in Cell |->
                           IF i \in Targets(idxs) THEN NoData ELSE kdata[i]])
    BY <1>12 DEF CutSeq, c, h
  <2> QED BY <2>1, <2>2, <2>3
<1> QED BY <1>10, <1>11, <1>12 DEF c

(***************************************************************************)
(* In a cache without a window a state read, refused or cut short for one  *)
(* sequence leaves the others every position and key they have, and one    *)
(* that is refused costs the sequence and nothing else.  (With a window    *)
(* the slot may take cells the other sequences no longer see.)             *)
(***************************************************************************)
THEOREM StatesSpareOthers ==
  ASSUME CpRepeats = FALSE, SwaType = "none"
  PROVE  StateSpec => OthersUntouched
<1>1. SInv /\ [StateNext]_stateVars => SInv'
  BY StateNextKeeps
<1>2. SInv => [Spared]_stateVars
  BY SeqCallsSpare DEF Spared
<1> QED BY StateInitSInv, <1>1, <1>2, PTL DEF StateSpec, OthersUntouched

-----------------------------------------------------------------------------
(* The round trip. *)

(* In a cleared cache the slot starts at the first cell, without a gap. *)
LEMMA FirstSlot ==
  ASSUME NEW st, NEW n \in Nat \ {0}, n = Len(st.meta), NEW idxs \in [1 .. n -> Cell],
         SlotFor(Reset, 0, st, idxs)
  PROVE  Targets(idxs) = 0 .. HeadAfter(idxs) - 1
<1> DEFINE nth(i) == (i - ScanFrom(Reset, 0, n)) % NCells
<1>1. ScanFrom(Reset, 0, n) = 0
  BY DEF ScanFrom
<1>2. ASSUME NEW i \in Cell PROVE nth(i) = i
  <2>1. i \in 0 .. NCells - 1 /\ i - 0 = i /\ NCells \in Nat \ {0}
    BY CellsAssumption DEF Cell
  <2>2. nth(i) = i % NCells
    BY <1>1, <2>1
  <2> QED BY <2>1, <2>2
<1>3. \A i \in Cell : CanUse(Reset, i)
  BY ResetWell DEF CanUse, IsEmpty, Vacant
<1>4. /\ \A k, m \in 1 .. n : k < m => nth(idxs[k]) < nth(idxs[m])
      /\ \A i \in Cell : nth(i) < nth(idxs[n]) => \E k \in 1 .. n : idxs[k] = i
  BY <1>3 DEF SlotFor, IsSlot
<1> HIDE DEF nth
<1>5. \A k \in 1 .. n : idxs[k] \in Cell /\ nth(idxs[k]) = idxs[k]
  BY <1>2
<1>6. DOMAIN idxs = 1 .. n /\ Len(idxs) = n /\ n \in 1 .. n /\ idxs[n] \in 0 .. NCells - 1
  BY <1>5 DEF Cell
<1>7. \A k \in 1 .. n : idxs[k] \in 0 .. idxs[n]
  <2> SUFFICES ASSUME NEW k \in 1 .. n PROVE idxs[k] \in 0 .. idxs[n]
    OBVIOUS
  <2>1. idxs[k] \in 0 .. NCells - 1
    BY <1>5 DEF Cell
  <2>2. k < n => idxs[k] < idxs[n]
    BY <1>4, <1>5, <1>6
  <2> QED BY <1>6, <2>1, <2>2
<1>8. \A i \in 0 .. idxs[n] : \E k \in 1 .. n : idxs[k] = i
  <2> SUFFICES ASSUME NEW i \in 0 .. idxs[n] PROVE \E k \in 1 .. n : idxs[k] = i
    OBVIOUS
  <2>1. i \in Cell
    BY <1>6, CellsAssumption DEF Cell
  <2>2. i < idxs[n] => \E k \in 1 .. n : idxs[k] = i
    BY <1>2, <1>4, <1>5, <1>6, <2>1
  <2> QED BY <1>6, <2>2
<1>9. HeadAfter(idxs) - 1 = idxs[n]
  BY <1>6 DEF HeadAfter
<1> QED BY <1>6, <1>7, <1>8, <1>9 DEF Targets

(* Saved and loaded into a cleared cache, a sequence is all there, and dense. *)
LEMMA RoundTripExact ==
  ASSUME SInv, NEW d \in Seqs, RoundTrip(d)
  PROVE  Held(d)' = Held(d) /\ Dense'
<1> DEFINE st   == StateOf(cells, kdata, v_trans, d)
           none == [i \in Cell |-> NoData]
<1>1. /\ Well(cells) /\ kdata \in [Cell -> Row] /\ v_trans \in BOOLEAN
      /\ 0 \in 0 .. NCells
  BY CellsAssumption DEF SInv, IInv, MoreTypes, KdataType, Row
<1>2. PICK idxs \in [1 .. Len(st.meta) -> Cell], trans \in BOOLEAN :
         /\ st.meta # <<>> /\ SlotFor(Reset, 0, st, idxs)
         /\ cells' = ApplyUbatch(Reset, AsUbatch(st, d), idxs)
         /\ head'  = HeadAfter(idxs)
         /\ kdata' = Loaded(st, none, trans, idxs)
  BY DEF RoundTrip
<1>3. /\ Written(st)
      /\ {<<st.meta[k].pos, st.k[k]>> : k \in 1 .. Len(st.meta)}
           = {<<cells.cell[i].pos, kdata[i]>> : i \in SourceCells(cells, d)}
  BY <1>1, StateWritten
<1>4. SourceCells(cells, d) = CellsOf(cells, d)
  <2>1. d # All
    BY StateAssumption DEF All
  <2> QED BY <2>1 DEF SourceCells, CellsOf
<1>5. none \in [Cell -> Row]
  BY ClearedType
<1> HIDE DEF st, none
<1>6. /\ Well(Reset) /\ \A i \in Cell : Reset.cell[i] = Vacant
      /\ \A i \in Cell : d \notin Reset.cell[i].seq
      /\ \A i \in Cell : IsEmpty(Reset, i)
  <2>1. Well(Reset) /\ \A i \in Cell : Reset.cell[i] = Vacant
    BY ResetWell
  <2>2. Vacant.pos = None /\ Vacant.seq = {}
    BY DEF Vacant
  <2> QED BY <2>1, <2>2 DEF IsEmpty
<1>7. \A new : (\A i \in Live(ApplyUbatch(Reset, AsUbatch(st, d), idxs)) :
                  new[i] = Loaded(st, none, trans, idxs)[i]) =>
        /\ HeldIn(ApplyUbatch(Reset, AsUbatch(st, d), idxs), new, d)
             = {<<st.meta[k].pos, st.k[k]>> : k \in 1 .. Len(st.meta)}
        /\ CellsOf(ApplyUbatch(Reset, AsUbatch(st, d), idxs), d) = Targets(idxs)
        /\ Cardinality(CellsOf(ApplyUbatch(Reset, AsUbatch(st, d), idxs), d)) = Len(st.meta)
  <2> DEFINE c == Reset
             kd == none
             h == 0
  <2>1. /\ Well(c) /\ \A i \in Cell : d \notin c.cell[i].seq
        /\ SlotFor(c, h, st, idxs) /\ kd \in [Cell -> Row] /\ h \in 0 .. NCells
    BY <1>1, <1>2, <1>5, <1>6
  <2> HIDE DEF c, kd, h
  <2>2. Written(st) /\ st.meta # <<>>
    BY <1>2, <1>3
  <2>3. \A new : (\A i \in Live(ApplyUbatch(c, AsUbatch(st, d), idxs)) :
                      new[i] = Loaded(st, kd, trans, idxs)[i]) =>
          /\ HeldIn(ApplyUbatch(c, AsUbatch(st, d), idxs), new, d)
               = {<<st.meta[k].pos, st.k[k]>> : k \in 1 .. Len(st.meta)}
          /\ CellsOf(ApplyUbatch(c, AsUbatch(st, d), idxs), d) = Targets(idxs)
          /\ Cardinality(CellsOf(ApplyUbatch(c, AsUbatch(st, d), idxs), d)) = Len(st.meta)
    BY <2>1, <2>2, PlacedExact
  <2> QED BY <2>3 DEF c, kd
<1>8. HeldIn(cells', kdata', d) = HeldIn(cells, kdata, d) /\ CellsOf(cells', d) = Targets(idxs)
  <2>1. /\ HeldIn(cells', kdata', d) = {<<st.meta[k].pos, st.k[k]>> : k \in 1 .. Len(st.meta)}
        /\ CellsOf(cells', d) = Targets(idxs)
    BY <1>2, <1>7
  <2>2. HeldIn(cells, kdata, d) = {<<cells.cell[i].pos, kdata[i]>> : i \in SourceCells(cells, d)}
    BY <1>4 DEF HeldIn
  <2> QED BY <1>3, <2>1, <2>2
<1>9. Len(st.meta) \in Nat \ {0}
  BY <1>2, <1>3 DEF Written, StateRecord
<1>10. Targets(idxs) = 0 .. head' - 1
  BY <1>2, <1>9, FirstSlot
<1>11. \A i \in Cell \ Targets(idxs) : cells'.cell[i] = Reset.cell[i]
  <2>1. AsUbatch(st, d) \in Seq(Token) /\ Len(AsUbatch(st, d)) = Len(st.meta)
    BY <1>3, AsUbatchType
  <2>2. idxs \in Seq(Cell) /\ Len(idxs) = Len(st.meta) /\ Targets(idxs) \in SUBSET Cell
    BY <1>9 DEF Targets
  <2>3. \A ub \in Seq(Token) : Len(idxs) = Len(ub) /\ Len(ub) > 0 =>
          \A i \in Cell \ Targets(idxs) : ApplyUbatch(Reset, ub, idxs).cell[i] = Reset.cell[i]
    BY <1>6, <2>2, ApplyOnEmpty
  <2> QED BY <1>2, <1>9, <2>1, <2>2, <2>3
<1>12. Live(cells') = Targets(idxs)
  <2>1. \A i \in Targets(idxs) : i \in Live(cells')
    BY <1>8 DEF CellsOf
  <2>2. \A i \in Live(cells') : i \in Targets(idxs)
    BY <1>6, <1>11 DEF Live, IsEmpty
  <2> QED BY <2>1, <2>2
<1>13. Dense'
  BY <1>10, <1>12 DEF Dense, Live, IsEmpty
<1> QED BY <1>8, <1>13, HeldThen

(***************************************************************************)
(* The round trip of the harness leaves the sequence every position and    *)
(* key it had, as a dense prefix with the head behind it, in whichever     *)
(* layout the two contexts keep their values.                              *)
(***************************************************************************)
THEOREM RoundTripsCompact ==
  ASSUME CpRepeats = FALSE
  PROVE  StateSpec => RoundTripCompacts
<1>1. SInv /\ [StateNext]_stateVars => SInv'
  BY StateNextKeeps
<1>2. SInv => [Compacted]_stateVars
  BY RoundTripExact DEF Compacted
<1> QED BY StateInitSInv, <1>1, <1>2, PTL DEF StateSpec, RoundTripCompacts
=============================================================================
