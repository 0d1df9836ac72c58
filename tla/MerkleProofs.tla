---------------------------- MODULE MerkleProofs ----------------------------
(***************************************************************************)
(* The Merkle set is sound and complete for every set of keys, every size  *)
(* and every proof that may be shown, and so is the log at every moment.   *)
(* The definitions recurse over the levels of a tree; what they compute is *)
(* proved by induction over the natural numbers, which here is the fact    *)
(* that a non-empty set of them has a least element.                       *)
(***************************************************************************)
EXTENDS MerkleLog, FiniteSetTheorems, WellFoundedInduction, TLAPS

----------------------------------------------------------------------------
(* Induction, and the recursions over levels.                              *)

LEMMA LeastElement ==
    ASSUME NEW S, S \subseteq Nat, S # {}
    PROVE  \E m \in S : \A k \in S : m <= k
<1> DEFINE R == OpToRel(<, Nat)
<1>1. IsWellFoundedOn(R, Nat)
  BY NatLessThanWellFounded
<1> HIDE DEF R
<1>2. PICK m \in S : \A k \in S : ~(<<k, m>> \in R)
  BY <1>1, WFMin
<1>3. ASSUME NEW k \in S, k < m PROVE FALSE
  <2>1. <<k, m>> \in R
    BY <1>3 DEF R, OpToRel
  <2> QED  BY <1>2, <2>1
<1> QED  BY <1>3

LEMMA SetInduction ==
    ASSUME NEW S, 0 \in S, \A n \in Nat : n \in S => n + 1 \in S
    PROVE  Nat \subseteq S
<1> SUFFICES ASSUME NEW n \in Nat, n \notin S PROVE FALSE
  OBVIOUS
<1>1. PICK m \in Nat \ S : \A k \in Nat \ S : m <= k
  BY LeastElement
<1>2. m - 1 \in Nat
  BY <1>1
<1>3. m - 1 \in S
  BY <1>1, <1>2
<1> QED  BY <1>1, <1>2, <1>3

(* The halving of positions and widths satisfies its recursion. *)
LEMMA HalvedRecursion ==
    ASSUME NEW n, NEW round
    PROVE  /\ Halved(n, round, 0) = n
           /\ \A h \in Nat : Halved(n, round, h + 1) = (Halved(n, round, h) + round) \div 2
<1> DEFINE First == n
           Step(v, h) == (v + round) \div 2
           Upto(f, m) == f = [h \in 0 .. m |-> IF h = 0 THEN First ELSE Step(f[h - 1], h)]
           F(m) == CHOOSE f : Upto(f, m)
           G == [h \in Nat |-> F(h)[h]]
           rec == CHOOSE f : f = [h \in Nat |-> IF h = 0 THEN First ELSE Step(f[h - 1], h)]
<1>1. \A h \in Nat : Halved(n, round, h) = rec[h]
  BY DEF Halved
<1> HIDE DEF First, Step
<1>2. \A m \in Nat : \E f : Upto(f, m)
  <2> DEFINE S == {m \in Nat : \E f : Upto(f, m)}
  <2>1. 0 \in S
    <3>1. Upto([h \in 0 .. 0 |-> First], 0)
      OBVIOUS
    <3> QED  BY <3>1
  <2>2. ASSUME NEW m \in Nat, m \in S PROVE m + 1 \in S
    <3>1. PICK f : Upto(f, m)
      BY <2>2
    <3>2. Upto([h \in 0 .. m + 1 |-> IF h <= m THEN f[h] ELSE Step(f[m], m + 1)], m + 1)
      BY <3>1
    <3> HIDE DEF Upto
    <3> QED  BY <3>2
  <2> HIDE DEF S
  <2>3. Nat \subseteq S
    BY <2>1, <2>2, SetInduction
  <2> QED  BY <2>3 DEF S
<1>3. \A m \in Nat : Upto(F(m), m)
  BY <1>2
<1> HIDE DEF F
<1>4. \A m \in Nat : \A k \in Nat : m <= k => F(k)[m] = F(m)[m]
  <2> DEFINE S == {m \in Nat : \A k \in Nat : m <= k => F(k)[m] = F(m)[m]}
  <2>1. 0 \in S
    BY <1>3
  <2>2. ASSUME NEW m \in Nat, m \in S PROVE m + 1 \in S
    <3> SUFFICES ASSUME NEW k \in Nat, m + 1 <= k PROVE F(k)[m + 1] = F(m + 1)[m + 1]
      OBVIOUS
    <3>1. F(k)[m] = F(m)[m] /\ F(m + 1)[m] = F(m)[m]
      BY <2>2
    <3>2. F(k)[m + 1] = Step(F(k)[m], m + 1) /\ F(m + 1)[m + 1] = Step(F(m + 1)[m], m + 1)
      BY <1>3
    <3> QED  BY <3>1, <3>2
  <2> HIDE DEF S
  <2>3. Nat \subseteq S
    BY <2>1, <2>2, SetInduction
  <2> QED  BY <2>3 DEF S
<1>5. G = [h \in Nat |-> IF h = 0 THEN First ELSE Step(G[h - 1], h)]
  <2> SUFFICES ASSUME NEW h \in Nat PROVE F(h)[h] = IF h = 0 THEN First ELSE Step(G[h - 1], h)
    OBVIOUS
  <2>1. CASE h = 0
    BY <1>3, <2>1
  <2>2. CASE h # 0
    <3>1. F(h)[h] = Step(F(h)[h - 1], h)
      BY <1>3, <2>2
    <3>2. F(h)[h - 1] = F(h - 1)[h - 1] /\ G[h - 1] = F(h - 1)[h - 1]
      BY <1>4, <2>2
    <3> QED  BY <3>1, <3>2, <2>2
  <2> QED  BY <2>1, <2>2
<1> HIDE DEF G
<1>6. rec = [h \in Nat |-> IF h = 0 THEN First ELSE Step(rec[h - 1], h)]
  BY <1>5
<1> HIDE DEF rec
<1>7. rec[0] = First /\ \A h \in Nat : rec[h + 1] = Step(rec[h], h + 1)
  BY <1>6
<1> QED  BY <1>1, <1>7 DEF First, Step

(* So do the levels of a tree, *)
LEMMA LevelRecursion ==
    ASSUME NEW keys
    PROVE  LET size == Cardinality(keys) IN
           /\ Level(keys, 0) = [i \in 0 .. size - 1 |-> Leaf(KeyAt(keys, i))]
           /\ \A h \in Nat : Level(keys, h + 1) =
                  [i \in 0 .. Width(size, h + 1) - 1 |->
                      Node(Level(keys, h)[2 * i],
                           Level(keys, h)[IF 2 * i + 1 < Width(size, h)
                                          THEN 2 * i + 1 ELSE 2 * i])]
<1> DEFINE size == Cardinality(keys)
           First == [i \in 0 .. size - 1 |-> Leaf(KeyAt(keys, i))]
           Step(v, h) == 
               [i \in 0 .. Width(size, h) - 1 |->
                   Node(v[2 * i],
                        v[IF 2 * i + 1 < Width(size, h - 1) THEN 2 * i + 1 ELSE 2 * i])]
           Upto(f, m) == f = [h \in 0 .. m |-> IF h = 0 THEN First ELSE Step(f[h - 1], h)]
           F(m) == CHOOSE f : Upto(f, m)
           G == [h \in Nat |-> F(h)[h]]
           rec == CHOOSE f : f = [h \in Nat |-> IF h = 0 THEN First ELSE Step(f[h - 1], h)]
<1>1. \A h \in Nat : Level(keys, h) = rec[h]
  BY DEF Level
<1> HIDE DEF First, Step
<1>2. \A m \in Nat : \E f : Upto(f, m)
  <2> DEFINE S == {m \in Nat : \E f : Upto(f, m)}
  <2>1. 0 \in S
    <3>1. Upto([h \in 0 .. 0 |-> First], 0)
      OBVIOUS
    <3> QED  BY <3>1
  <2>2. ASSUME NEW m \in Nat, m \in S PROVE m + 1 \in S
    <3>1. PICK f : Upto(f, m)
      BY <2>2
    <3>2. Upto([h \in 0 .. m + 1 |-> IF h <= m THEN f[h] ELSE Step(f[m], m + 1)], m + 1)
      BY <3>1
    <3> HIDE DEF Upto
    <3> QED  BY <3>2
  <2> HIDE DEF S
  <2>3. Nat \subseteq S
    BY <2>1, <2>2, SetInduction
  <2> QED  BY <2>3 DEF S
<1>3. \A m \in Nat : Upto(F(m), m)
  BY <1>2
<1> HIDE DEF F
<1>4. \A m \in Nat : \A k \in Nat : m <= k => F(k)[m] = F(m)[m]
  <2> DEFINE S == {m \in Nat : \A k \in Nat : m <= k => F(k)[m] = F(m)[m]}
  <2>1. 0 \in S
    BY <1>3
  <2>2. ASSUME NEW m \in Nat, m \in S PROVE m + 1 \in S
    <3> SUFFICES ASSUME NEW k \in Nat, m + 1 <= k PROVE F(k)[m + 1] = F(m + 1)[m + 1]
      OBVIOUS
    <3>1. F(k)[m] = F(m)[m] /\ F(m + 1)[m] = F(m)[m]
      BY <2>2
    <3>2. F(k)[m + 1] = Step(F(k)[m], m + 1) /\ F(m + 1)[m + 1] = Step(F(m + 1)[m], m + 1)
      BY <1>3
    <3> QED  BY <3>1, <3>2
  <2> HIDE DEF S
  <2>3. Nat \subseteq S
    BY <2>1, <2>2, SetInduction
  <2> QED  BY <2>3 DEF S
<1>5. G = [h \in Nat |-> IF h = 0 THEN First ELSE Step(G[h - 1], h)]
  <2> SUFFICES ASSUME NEW h \in Nat PROVE F(h)[h] = IF h = 0 THEN First ELSE Step(G[h - 1], h)
    OBVIOUS
  <2>1. CASE h = 0
    BY <1>3, <2>1
  <2>2. CASE h # 0
    <3>1. F(h)[h] = Step(F(h)[h - 1], h)
      BY <1>3, <2>2
    <3>2. F(h)[h - 1] = F(h - 1)[h - 1] /\ G[h - 1] = F(h - 1)[h - 1]
      BY <1>4, <2>2
    <3> QED  BY <3>1, <3>2, <2>2
  <2> QED  BY <2>1, <2>2
<1> HIDE DEF G
<1>6. rec = [h \in Nat |-> IF h = 0 THEN First ELSE Step(rec[h - 1], h)]
  BY <1>5
<1> HIDE DEF rec
<1>7. rec[0] = First /\ \A h \in Nat : rec[h + 1] = Step(rec[h], h + 1)
  BY <1>6
<1>8. ASSUME NEW h \in Nat
      PROVE  rec[h + 1] = [i \in 0 .. Width(size, h + 1) - 1 |->
                 Node(rec[h][2 * i],
                      rec[h][IF 2 * i + 1 < Width(size, h) THEN 2 * i + 1 ELSE 2 * i])]
  <2>1. (h + 1) - 1 = h
    OBVIOUS
  <2>2. rec[h + 1] = Step(rec[h], h + 1)
    BY <1>7
  <2> HIDE DEF size
  <2> QED  BY <2>1, <2>2 DEF Step
<1>9. Level(keys, 0) = First
  BY <1>1, <1>7
<1>10. ASSUME NEW h \in Nat
       PROVE  rec[h] = Level(keys, h) /\ rec[h + 1] = Level(keys, h + 1)
  BY <1>1
<1>11. ASSUME NEW h \in Nat
       PROVE  Level(keys, h + 1) = [i \in 0 .. Width(size, h + 1) - 1 |->
                 Node(Level(keys, h)[2 * i],
                      Level(keys, h)[IF 2 * i + 1 < Width(size, h) THEN 2 * i + 1 ELSE 2 * i])]
  BY <1>8, <1>10
<1> QED  BY <1>9, <1>11 DEF First

(* and the hashes along an audit path. *)
LEMMA ClimbRecursion ==
    ASSUME NEW entry, NEW path
    PROVE  /\ Climb(entry, path, 0) = Leaf(entry)
           /\ \A h \in Nat : Climb(entry, path, h + 1) =
                  IF path[h + 1].direction = "left"
                  THEN Node(path[h + 1].hash, Climb(entry, path, h))
                  ELSE Node(Climb(entry, path, h), path[h + 1].hash)
<1> DEFINE First == Leaf(entry)
           Step(v, h) == IF path[h].direction = "left" THEN Node(path[h].hash, v)
                         ELSE Node(v, path[h].hash)
           Upto(f, m) == f = [h \in 0 .. m |-> IF h = 0 THEN First ELSE Step(f[h - 1], h)]
           F(m) == CHOOSE f : Upto(f, m)
           G == [h \in Nat |-> F(h)[h]]
           rec == CHOOSE f : f = [h \in Nat |-> IF h = 0 THEN First ELSE Step(f[h - 1], h)]
<1>1. \A h \in Nat : Climb(entry, path, h) = rec[h]
  BY DEF Climb
<1> HIDE DEF First, Step
<1>2. \A m \in Nat : \E f : Upto(f, m)
  <2> DEFINE S == {m \in Nat : \E f : Upto(f, m)}
  <2>1. 0 \in S
    <3>1. Upto([h \in 0 .. 0 |-> First], 0)
      OBVIOUS
    <3> QED  BY <3>1
  <2>2. ASSUME NEW m \in Nat, m \in S PROVE m + 1 \in S
    <3>1. PICK f : Upto(f, m)
      BY <2>2
    <3>2. Upto([h \in 0 .. m + 1 |-> IF h <= m THEN f[h] ELSE Step(f[m], m + 1)], m + 1)
      BY <3>1
    <3> HIDE DEF Upto
    <3> QED  BY <3>2
  <2> HIDE DEF S
  <2>3. Nat \subseteq S
    BY <2>1, <2>2, SetInduction
  <2> QED  BY <2>3 DEF S
<1>3. \A m \in Nat : Upto(F(m), m)
  BY <1>2
<1> HIDE DEF F
<1>4. \A m \in Nat : \A k \in Nat : m <= k => F(k)[m] = F(m)[m]
  <2> DEFINE S == {m \in Nat : \A k \in Nat : m <= k => F(k)[m] = F(m)[m]}
  <2>1. 0 \in S
    BY <1>3
  <2>2. ASSUME NEW m \in Nat, m \in S PROVE m + 1 \in S
    <3> SUFFICES ASSUME NEW k \in Nat, m + 1 <= k PROVE F(k)[m + 1] = F(m + 1)[m + 1]
      OBVIOUS
    <3>1. F(k)[m] = F(m)[m] /\ F(m + 1)[m] = F(m)[m]
      BY <2>2
    <3>2. F(k)[m + 1] = Step(F(k)[m], m + 1) /\ F(m + 1)[m + 1] = Step(F(m + 1)[m], m + 1)
      BY <1>3
    <3> QED  BY <3>1, <3>2
  <2> HIDE DEF S
  <2>3. Nat \subseteq S
    BY <2>1, <2>2, SetInduction
  <2> QED  BY <2>3 DEF S
<1>5. G = [h \in Nat |-> IF h = 0 THEN First ELSE Step(G[h - 1], h)]
  <2> SUFFICES ASSUME NEW h \in Nat PROVE F(h)[h] = IF h = 0 THEN First ELSE Step(G[h - 1], h)
    OBVIOUS
  <2>1. CASE h = 0
    BY <1>3, <2>1
  <2>2. CASE h # 0
    <3>1. F(h)[h] = Step(F(h)[h - 1], h)
      BY <1>3, <2>2
    <3>2. F(h)[h - 1] = F(h - 1)[h - 1] /\ G[h - 1] = F(h - 1)[h - 1]
      BY <1>4, <2>2
    <3> QED  BY <3>1, <3>2, <2>2
  <2> QED  BY <2>1, <2>2
<1> HIDE DEF G
<1>6. rec = [h \in Nat |-> IF h = 0 THEN First ELSE Step(rec[h - 1], h)]
  BY <1>5
<1> HIDE DEF rec
<1>7. rec[0] = First /\ \A h \in Nat : rec[h + 1] = Step(rec[h], h + 1)
  BY <1>6
<1> QED  BY <1>1, <1>7 DEF First, Step

----------------------------------------------------------------------------
(* The shape of a tree.                                                    *)

(* A pair of positions, or the odd last one, share a parent. *)
LEMMA Pairing ==
    ASSUME NEW width \in Nat, NEW pos \in 0 .. width - 1
    PROVE  /\ pos \div 2 \in 0 .. (width + 1) \div 2 - 1
           /\ Sibling(pos, width) < pos => 2 * (pos \div 2) + 1 = pos
           /\ ~(Sibling(pos, width) < pos) => 2 * (pos \div 2) = pos
           /\ Sibling(pos, width) < pos => Sibling(pos, width) = 2 * (pos \div 2)
           /\ ~(Sibling(pos, width) < pos) =>
                 Sibling(pos, width) = IF pos + 1 < width THEN pos + 1 ELSE pos
<1>1. pos \in Nat /\ pos < width
  OBVIOUS
<1>2. CASE pos % 2 = 0
  BY <1>1, <1>2 DEF Sibling
<1>3. CASE pos % 2 = 1
  BY <1>1, <1>3 DEF Sibling
<1> QED  BY <1>1, <1>2, <1>3

LEMMA WidthType ==
    ASSUME NEW size \in Nat, NEW h \in Nat
    PROVE  /\ Width(size, 0) = size
           /\ Width(size, h + 1) = (Width(size, h) + 1) \div 2
           /\ Width(size, h) \in Nat
<1>1. /\ Width(size, 0) = size
      /\ \A g \in Nat : Width(size, g + 1) = (Width(size, g) + 1) \div 2
  BY HalvedRecursion DEF Width
<1> DEFINE S == {g \in Nat : Width(size, g) \in Nat}
<1>2. 0 \in S /\ \A g \in Nat : g \in S => g + 1 \in S
  BY <1>1
<1> HIDE DEF S
<1>3. Nat \subseteq S
  BY <1>2, SetInduction
<1> QED  BY <1>1, <1>3 DEF S

(* A position stays within the width of each level. *)
LEMMA AncestorWithin ==
    ASSUME NEW size \in Nat, NEW index \in 0 .. size - 1, NEW h \in Nat
    PROVE  /\ Ancestor(index, 0) = index
           /\ Ancestor(index, h + 1) = Ancestor(index, h) \div 2
           /\ Ancestor(index, h) \in 0 .. Width(size, h) - 1
<1>1. /\ Ancestor(index, 0) = index
      /\ \A g \in Nat : Ancestor(index, g + 1) = (Ancestor(index, g) + 0) \div 2
  BY HalvedRecursion DEF Ancestor
<1> DEFINE S == {g \in Nat : Ancestor(index, g) \in 0 .. Width(size, g) - 1}
<1>2. 0 \in S
  BY <1>1, WidthType
<1>3. ASSUME NEW g \in Nat, g \in S PROVE g + 1 \in S
  <2>1. Ancestor(index, g) \div 2 \in 0 .. (Width(size, g) + 1) \div 2 - 1
    BY <1>3, WidthType, Pairing
  <2>2. Ancestor(index, g + 1) = Ancestor(index, g) \div 2
    BY <1>1, <1>3
  <2> QED  BY <2>1, <2>2, WidthType
<1> HIDE DEF S
<1>4. Nat \subseteq S
  BY <1>2, <1>3, SetInduction
<1>5. Ancestor(index, h) \in 0 .. Width(size, h) - 1
  BY <1>4 DEF S
<1> QED  BY <1>1, <1>5

(* Halving ends: there is a first level of one node, and it is the height. *)
LEMMA HeightFacts ==
    ASSUME NEW size \in Nat, size > 0
    PROVE  Height(size) \in Nat /\ Width(size, Height(size)) = 1
<1> DEFINE S == {h \in Nat : Width(size, h) <= 1 \/ Width(size, h) <= size - h}
           T == {h \in Nat : Width(size, h) <= 1}
           P == {h \in Nat : Width(size, h) >= 1}
<1>1. 0 \in S /\ 0 \in P
  BY WidthType
<1>2. ASSUME NEW h \in Nat PROVE (h \in S => h + 1 \in S) /\ (h \in P => h + 1 \in P)
  <2>1. Width(size, h) \in Nat /\ Width(size, h + 1) = (Width(size, h) + 1) \div 2
    BY WidthType
  <2> QED  BY <2>1
<1> HIDE DEF S, P
<1>3. Nat \subseteq S /\ Nat \subseteq P
  BY <1>1, <1>2, SetInduction
<1>4. size \in T
  BY <1>3, WidthType DEF S
<1>5. PICK m \in T : \A k \in T : m <= k
  BY <1>4, LeastElement
<1>6. m \in 0 .. size /\ Width(size, m) <= 1
  BY <1>4, <1>5
<1>7. \A g \in 0 .. m - 1 : Width(size, g) > 1
  <2> SUFFICES ASSUME NEW g \in 0 .. m - 1, ~(Width(size, g) > 1) PROVE FALSE
    OBVIOUS
  <2>1. g \in T
    BY <1>6, WidthType
  <2> QED  BY <1>5, <1>6, <2>1
<1>8. Height(size) \in 0 .. size /\ Width(size, Height(size)) <= 1
  BY <1>6, <1>7 DEF Height
<1>9. Height(size) \in P
  BY <1>3, <1>8
<1>10. Height(size) \in Nat /\ Width(size, Height(size)) >= 1
  BY <1>9 DEF P
<1>11. Width(size, Height(size)) \in Nat
  BY <1>10, WidthType
<1> QED  BY <1>8, <1>10, <1>11

LEMMA DirectionIs ==
    ASSUME NEW size \in Nat, NEW index, NEW h \in Nat, size > 0, h < Height(size)
    PROVE  LET pos == Ancestor(index, h) IN
           Directions(index, size)[h + 1] =
               IF Sibling(pos, Width(size, h)) < pos THEN "left" ELSE "right"
<1>1. Height(size) \in Nat
  BY HeightFacts
<1>2. h + 1 \in 1 .. Height(size) /\ (h + 1) - 1 = h
  BY <1>1
<1> QED  BY <1>2 DEF Directions

----------------------------------------------------------------------------
(* The order of the keys.                                                  *)

LEMMA RankType ==
    ASSUME NEW keys \in SUBSET Nat, IsFiniteSet(keys), NEW key
    PROVE  /\ Rank(keys, key) \in 0 .. Cardinality(keys)
           /\ key \in keys => Rank(keys, key) < Cardinality(keys)
<1> DEFINE below == {k \in keys : k < key}
<1>1. /\ Cardinality(keys) \in Nat
      /\ IsFiniteSet(below) /\ Cardinality(below) <= Cardinality(keys)
      /\ Cardinality(keys) = Cardinality(below) => keys = below
  BY FS_CardinalityType, FS_Subset
<1>2. Cardinality(below) \in Nat
  BY <1>1, FS_CardinalityType
<1>3. key \in keys => keys # below
  OBVIOUS
<1> HIDE DEF below
<1>4. Cardinality(below) <= Cardinality(keys) /\ (key \in keys => Cardinality(below) # Cardinality(keys))
  BY <1>1, <1>3
<1>5. Rank(keys, key) = Cardinality(below)
  BY DEF Rank, below
<1> QED  BY <1>1, <1>2, <1>4, <1>5

LEMMA RankMonotone ==
    ASSUME NEW keys \in SUBSET Nat, IsFiniteSet(keys), NEW j \in keys, NEW k \in keys, j < k
    PROVE  Rank(keys, j) < Rank(keys, k)
<1> DEFINE low == {x \in keys : x < j}
           high == {x \in keys : x < k}
<1>1. low \in SUBSET high /\ high \in SUBSET keys /\ low # high
  <2>1. j \in high /\ j \notin low
    OBVIOUS
  <2>2. \A x \in low : x \in high
    <3> TAKE x \in low
    <3>1. x \in Nat /\ j \in Nat /\ k \in Nat /\ x < j
      OBVIOUS
    <3> QED  BY <3>1
  <2> QED  BY <2>1, <2>2
<1> HIDE DEF low, high
<1>2. IsFiniteSet(high) /\ IsFiniteSet(low)
  BY <1>1, FS_Subset
<1>3. Cardinality(low) <= Cardinality(high) /\ Cardinality(low) # Cardinality(high)
  BY <1>1, <1>2, FS_Subset
<1>4. Cardinality(low) \in Nat /\ Cardinality(high) \in Nat
  BY <1>2, FS_CardinalityType
<1>5. Rank(keys, j) = Cardinality(low) /\ Rank(keys, k) = Cardinality(high)
  BY DEF Rank, low, high
<1> QED  BY <1>3, <1>4, <1>5

(* The next greater key has the next rank. *)
LEMMA RankSuccessor ==
    ASSUME NEW keys \in SUBSET Nat, IsFiniteSet(keys), NEW j \in keys, NEW k \in keys, j < k,
           \A x \in keys : ~(j < x /\ x < k)
    PROVE  Rank(keys, k) = Rank(keys, j) + 1
<1> DEFINE low == {x \in keys : x < j}
           high == {x \in keys : x < k}
<1>1. high = low \cup {j} /\ j \notin low /\ low \in SUBSET keys
  <2>1. j \in high /\ j \notin low
    OBVIOUS
  <2>2. \A x \in keys : x \in high <=> x \in low \/ x = j
    <3> TAKE x \in keys
    <3>1. x \in Nat /\ j \in Nat /\ k \in Nat
      OBVIOUS
    <3> QED  BY <3>1
  <2>3. \A x : (x \in high => x \in keys) /\ (x \in low => x \in keys)
    OBVIOUS
  <2> HIDE DEF low, high
  <2> QED  BY <2>1, <2>2, <2>3
<1> HIDE DEF low, high
<1>2. IsFiniteSet(low)
  BY <1>1, FS_Subset
<1>3. Cardinality(high) = Cardinality(low) + 1
  BY <1>1, <1>2, FS_AddElement
<1>4. Rank(keys, j) = Cardinality(low) /\ Rank(keys, k) = Cardinality(high)
  BY DEF Rank, low, high
<1> QED  BY <1>3, <1>4

(* The least key has rank 0 and the greatest the last. *)
LEMMA RankLeast ==
    ASSUME NEW keys \in SUBSET Nat, NEW k, \A x \in keys : ~(x < k)
    PROVE  Rank(keys, k) = 0
<1>1. {x \in keys : x < k} = {}
  OBVIOUS
<1> QED  BY <1>1, FS_EmptySet DEF Rank

LEMMA RankGreatest ==
    ASSUME NEW keys \in SUBSET Nat, IsFiniteSet(keys), NEW k \in keys, \A x \in keys : x <= k
    PROVE  Rank(keys, k) = Cardinality(keys) - 1
<1> DEFINE below == {x \in keys : x < k}
<1>1. keys = below \cup {k} /\ k \notin below /\ below \in SUBSET keys
  <2>1. \A x \in keys : x \in below <=> x # k
    <3> TAKE x \in keys
    <3>1. x \in Nat /\ k \in Nat /\ x <= k
      OBVIOUS
    <3> QED  BY <3>1
  <2>2. \A x : x \in below => x \in keys
    OBVIOUS
  <2> HIDE DEF below
  <2> QED  BY <2>1, <2>2
<1> HIDE DEF below
<1>2. IsFiniteSet(below)
  BY <1>1, FS_Subset
<1>3. Cardinality(keys) = Cardinality(below) + 1 /\ Cardinality(below) \in Nat
  BY <1>1, <1>2, FS_AddElement, FS_CardinalityType
<1>4. Rank(keys, k) = Cardinality(below)
  BY DEF Rank, below
<1> QED  BY <1>3, <1>4

(* Every position of the list is the rank of one key. *)
LEMMA RankOnto ==
    ASSUME NEW keys \in SUBSET Nat, IsFiniteSet(keys), NEW i \in 0 .. Cardinality(keys) - 1
    PROVE  \E k \in keys : Rank(keys, k) = i
<1>1. Cardinality(keys) \in Nat
  BY FS_CardinalityType
<1> DEFINE S == {n \in Nat : n < Cardinality(keys) => \E k \in keys : Rank(keys, k) = n}
<1>2. 0 \in S
  <2> SUFFICES ASSUME 0 < Cardinality(keys) PROVE \E k \in keys : Rank(keys, k) = 0
    BY <1>1
  <2>1. keys # {}
    BY FS_EmptySet
  <2>2. PICK k \in keys : \A x \in keys : k <= x
    BY <2>1, LeastElement
  <2>3. \A x \in keys : ~(x < k)
    BY <2>2
  <2>4. Rank(keys, k) = 0
    BY <2>3, RankLeast
  <2> QED  BY <2>4
<1>3. ASSUME NEW n \in Nat, n \in S PROVE n + 1 \in S
  <2> SUFFICES ASSUME n + 1 < Cardinality(keys) PROVE \E k \in keys : Rank(keys, k) = n + 1
    BY <1>1
  <2>1. PICK j \in keys : Rank(keys, j) = n
    BY <1>1, <1>3
  <2> DEFINE above == {x \in keys : j < x}
  <2>2. above # {}
    <3> SUFFICES ASSUME above = {} PROVE FALSE
      OBVIOUS
    <3>1. \A x \in keys : x <= j
      OBVIOUS
    <3> HIDE DEF above
    <3>2. n = Cardinality(keys) - 1
      BY <2>1, <3>1, RankGreatest
    <3> QED  BY <3>2, <1>1
  <2>3. PICK k \in above : \A x \in above : k <= x
    BY <2>2, LeastElement
  <2>4. k \in keys /\ j < k /\ \A x \in keys : ~(j < x /\ x < k)
    BY <2>3
  <2> HIDE DEF above
  <2>5. Rank(keys, k) = n + 1
    BY <2>1, <2>4, RankSuccessor
  <2> QED  BY <2>4, <2>5
<1> HIDE DEF S
<1>4. Nat \subseteq S
  BY <1>2, <1>3, SetInduction
<1>5. i \in Nat /\ i < Cardinality(keys)
  BY <1>1
<1> QED  BY <1>4, <1>5 DEF S

LEMMA KeyAtRank ==
    ASSUME NEW keys \in SUBSET Nat, IsFiniteSet(keys)
    PROVE  /\ \A i \in 0 .. Cardinality(keys) - 1 :
                 KeyAt(keys, i) \in keys /\ Rank(keys, KeyAt(keys, i)) = i
           /\ \A k \in keys : KeyAt(keys, Rank(keys, k)) = k
<1>1. \A i \in 0 .. Cardinality(keys) - 1 :
          KeyAt(keys, i) \in keys /\ Rank(keys, KeyAt(keys, i)) = i
  BY RankOnto DEF KeyAt
<1>2. ASSUME NEW k \in keys PROVE KeyAt(keys, Rank(keys, k)) = k
  <2> DEFINE j == KeyAt(keys, Rank(keys, k))
  <2>1. Cardinality(keys) \in Nat
    BY FS_CardinalityType
  <2>2. Rank(keys, k) \in 0 .. Cardinality(keys) - 1
    BY RankType, <2>1
  <2>3. j \in keys /\ Rank(keys, j) = Rank(keys, k)
    BY <1>1, <2>2
  <2> HIDE DEF j
  <2>4. ~(j < k) /\ ~(k < j)
    BY <2>2, <2>3, RankMonotone
  <2>5. j \in Nat /\ k \in Nat
    BY <2>3
  <2>6. j = k
    BY <2>4, <2>5
  <2> QED  BY <2>6 DEF j
<1> QED  BY <1>1, <1>2

----------------------------------------------------------------------------
(* Inclusion.                                                              *)

(* What a node hashes, seen from either of its children. *)
LEMMA LevelAbove ==
    ASSUME NEW keys, Cardinality(keys) \in Nat, NEW h \in Nat,
           NEW pos \in 0 .. Width(Cardinality(keys), h) - 1
    PROVE  LET sibling == Sibling(pos, Width(Cardinality(keys), h)) IN
           Level(keys, h + 1)[pos \div 2] =
               IF sibling < pos THEN Node(Level(keys, h)[sibling], Level(keys, h)[pos])
               ELSE Node(Level(keys, h)[pos], Level(keys, h)[sibling])
<1> DEFINE size == Cardinality(keys)
           width == Width(size, h)
           sibling == Sibling(pos, width)
           parent == pos \div 2
<1>1. width \in Nat /\ Width(size, h + 1) = (width + 1) \div 2
  BY WidthType
<1>2. /\ parent \in 0 .. (width + 1) \div 2 - 1
      /\ sibling < pos => 2 * parent + 1 = pos /\ sibling = 2 * parent
      /\ ~(sibling < pos) =>
            2 * parent = pos /\ sibling = IF pos + 1 < width THEN pos + 1 ELSE pos
  BY <1>1, Pairing
<1>3. Level(keys, h + 1) =
          [i \in 0 .. Width(size, h + 1) - 1 |->
              Node(Level(keys, h)[2 * i],
                   Level(keys, h)[IF 2 * i + 1 < width THEN 2 * i + 1 ELSE 2 * i])]
  BY LevelRecursion
<1>4. pos \in Nat /\ pos < width
  BY <1>1
<1> HIDE DEF sibling, parent, width, size
<1>5. Level(keys, h + 1)[parent] =
          Node(Level(keys, h)[2 * parent],
               Level(keys, h)[IF 2 * parent + 1 < width THEN 2 * parent + 1 ELSE 2 * parent])
  BY <1>1, <1>2, <1>3
<1>6. CASE sibling < pos
  BY <1>2, <1>4, <1>5, <1>6 DEF sibling, width, size, parent
<1>7. CASE ~(sibling < pos)
  BY <1>2, <1>4, <1>5, <1>7 DEF sibling, width, size, parent
<1> QED  BY <1>6, <1>7

LEMMA HashesAreInjective ==
    /\ \A j, k : Leaf(j) = Leaf(k) => j = k
    /\ \A a, b, c, d : Node(a, b) = Node(c, d) => a = c /\ b = d
    /\ \A n, m, a, b : SizedRoot(n, a) = SizedRoot(m, b) => n = m /\ a = b
  BY DEF Leaf, Node, SizedRoot

(* The audit path of an accepted proof agrees with the tree on every level, *)
(* from the root down: nothing but the entry at its position can be at the *)
(* start of it.                                                            *)
LEMMA ClimbAgrees ==
    ASSUME NEW keys, Cardinality(keys) \in Nat,
           NEW index \in 0 .. Cardinality(keys) - 1, NEW entry, NEW path,
           \A h \in 1 .. Height(Cardinality(keys)) :
               path[h].direction = Directions(index, Cardinality(keys))[h],
           Climb(entry, path, Height(Cardinality(keys)))
               = Level(keys, Height(Cardinality(keys)))[0]
    PROVE  Leaf(entry) = Level(keys, 0)[index]
<1> DEFINE size == Cardinality(keys)
           top == Height(size)
           S == {d \in Nat : d <= top =>
                    Climb(entry, path, top - d) = Level(keys, top - d)[Ancestor(index, top - d)]}
<1>1. size > 0 /\ top \in Nat /\ Width(size, top) = 1
  BY HeightFacts
<1>2. 0 \in S
  <2>1. Ancestor(index, top) \in 0 .. Width(size, top) - 1
    BY <1>1, AncestorWithin
  <2>2. Ancestor(index, top) = 0 /\ top - 0 = top
    BY <1>1, <2>1
  <2> QED  BY <2>2
<1>3. ASSUME NEW d \in Nat, d \in S PROVE d + 1 \in S
  <2> SUFFICES ASSUME d + 1 <= top
               PROVE  Climb(entry, path, top - (d + 1))
                      = Level(keys, top - (d + 1))[Ancestor(index, top - (d + 1))]
    OBVIOUS
  <2> HIDE DEF top, size
  <2>0. d <= top
    BY <1>1
  <2>1. PICK h \in Nat : h = top - (d + 1)
    BY <1>1
  <2>2. h + 1 = top - d /\ h < top /\ h + 1 \in 1 .. top
    BY <1>1, <2>1
  <2> DEFINE pos == Ancestor(index, h)
             sibling == Sibling(pos, Width(size, h))
  <2>3. Climb(entry, path, h + 1) = Level(keys, h + 1)[Ancestor(index, h + 1)]
    <3>1. Climb(entry, path, top - d) = Level(keys, top - d)[Ancestor(index, top - d)]
      BY <1>3, <2>0
    <3> QED  BY <2>2, <3>1
  <2>4. pos \in 0 .. Width(size, h) - 1 /\ Ancestor(index, h + 1) = pos \div 2
    BY AncestorWithin DEF size
  <2>5. Level(keys, h + 1)[pos \div 2] =
            IF sibling < pos THEN Node(Level(keys, h)[sibling], Level(keys, h)[pos])
            ELSE Node(Level(keys, h)[pos], Level(keys, h)[sibling])
    BY <2>4, LevelAbove DEF size
  <2>6. path[h + 1].direction = IF sibling < pos THEN "left" ELSE "right"
    BY <1>1, <2>2, DirectionIs DEF top, size
  <2>7. Climb(entry, path, h + 1) =
            IF sibling < pos THEN Node(path[h + 1].hash, Climb(entry, path, h))
            ELSE Node(Climb(entry, path, h), path[h + 1].hash)
    BY <2>6, ClimbRecursion
  <2> HIDE DEF pos, sibling
  <2>8. Climb(entry, path, h) = Level(keys, h)[pos]
    BY <2>3, <2>4, <2>5, <2>7, HashesAreInjective
  <2> QED  BY <2>1, <2>8 DEF pos
<1> HIDE DEF S
<1>4. Nat \subseteq S
  BY <1>2, <1>3, SetInduction
<1>5. top - top = 0 /\ top <= top
  BY <1>1
<1>6. Climb(entry, path, 0) = Level(keys, 0)[Ancestor(index, 0)]
  BY <1>1, <1>4, <1>5 DEF S
<1> QED  BY <1>1, <1>6, ClimbRecursion, AncestorWithin

(* Whatever inclusion proof is accepted against a signed root is of a key   *)
(* that the root commits to, and states its position and the size of the   *)
(* set: for every set of keys and every entry, position, size and audit    *)
(* path there may be (verify_inclusion_proof).                             *)
THEOREM InclusionIsSound ==
    ASSUME NEW keys \in SUBSET Nat, IsFiniteSet(keys), NEW p,
           VerifyInclusion(p, Root(keys))
    PROVE  /\ p.entry \in keys
           /\ p.size = Cardinality(keys)
           /\ p.index = Rank(keys, p.entry) /\ p.index \in 0 .. Cardinality(keys) - 1
<1> DEFINE size == Cardinality(keys)
           climbed == Climb(p.entry, p.path, Len(p.path))
<1>1. /\ p.size \in Nat \ {0} /\ p.index \in 0 .. p.size - 1
      /\ Len(p.path) = Height(p.size)
      /\ \A h \in 1 .. Len(p.path) : p.path[h].direction = Directions(p.index, p.size)[h]
      /\ SizedRoot(p.size, climbed) = SizedRoot(size, TreeHash(keys))
  BY DEF VerifyInclusion, Root
<1> HIDE DEF climbed, size
<1>2. p.size = size /\ climbed = TreeHash(keys)
  BY <1>1, HashesAreInjective
<1>3. keys # {}
  BY <1>1, <1>2, FS_EmptySet DEF size
<1>4. climbed = Level(keys, Height(size))[0]
  BY <1>2, <1>3 DEF TreeHash, size
<1>5. Leaf(p.entry) = Level(keys, 0)[p.index]
  BY <1>1, <1>2, <1>4, ClimbAgrees DEF size, climbed
<1>6. Level(keys, 0)[p.index] = Leaf(KeyAt(keys, p.index))
  BY <1>1, <1>2, LevelRecursion DEF size
<1>7. p.entry = KeyAt(keys, p.index)
  BY <1>5, <1>6, HashesAreInjective
<1> QED  BY <1>1, <1>2, <1>7, KeyAtRank DEF size

(* The audit path a proof is built with leads through the tree, from the   *)
(* entry up.                                                               *)
LEMMA BuiltPath ==
    ASSUME NEW keys \in SUBSET Nat, IsFiniteSet(keys), NEW key \in keys
    PROVE  LET p == InclusionProof(keys, key)
               size == Cardinality(keys)
           IN  /\ p.entry = key /\ p.size = size /\ p.index = Rank(keys, key)
               /\ Len(p.path) = Height(size)
               /\ \A h \in 1 .. Height(size) :
                     /\ p.path[h].direction = Directions(p.index, size)[h]
                     /\ p.path[h].hash =
                           Level(keys, h - 1)[Sibling(Ancestor(p.index, h - 1), Width(size, h - 1))]
<1> DEFINE size == Cardinality(keys)
           index == Rank(keys, key)
           step(h) == [direction |-> Directions(index, size)[h],
                       hash |-> Level(keys, h - 1)
                                    [Sibling(Ancestor(index, h - 1), Width(size, h - 1))]]
           path == [h \in 1 .. Height(size) |-> step(h)]
           p == InclusionProof(keys, key)
<1>1. p = [entry |-> key, index |-> index, size |-> size, path |-> path]
  BY DEF InclusionProof
<1>2. Height(size) \in Nat
  <2>1. Cardinality(keys) \in Nat /\ Cardinality(keys) # 0
    BY FS_CardinalityType, FS_EmptySet
  <2> QED  BY <2>1, HeightFacts
<1>3. \A h \in 1 .. Height(size) : path[h] = step(h)
  OBVIOUS
<1>4. Len(path) = Height(size)
  <2> DEFINE T == {step(h) : h \in 1 .. Height(size)}
  <2>1. path \in [1 .. Height(size) -> T]
    OBVIOUS
  <2> HIDE DEF path, T
  <2>2. path \in Seq(T) /\ DOMAIN path = 1 .. Height(size)
    BY <1>2, <2>1
  <2>3. Len(path) \in Nat /\ DOMAIN path = 1 .. Len(path)
    BY <2>2
  <2> QED  BY <1>2, <2>2, <2>3
<1>5. \A h : step(h).direction = Directions(index, size)[h]
  OBVIOUS
<1>6. \A h : step(h).hash = Level(keys, h - 1)[Sibling(Ancestor(index, h - 1), Width(size, h - 1))]
  OBVIOUS
<1> HIDE DEF path, step, p
<1>7. p.entry = key /\ p.index = index /\ p.size = size /\ p.path = path
  BY <1>1
<1> QED  BY <1>3, <1>4, <1>5, <1>6, <1>7 DEF p

(* Every key of a set has an inclusion proof the verifier accepts against   *)
(* the root of the set, whatever the number of keys (build_inclusion_proof, *)
(* verify_inclusion_proof).                                                *)
THEOREM InclusionIsComplete ==
    ASSUME NEW keys \in SUBSET Nat, IsFiniteSet(keys), NEW key \in keys
    PROVE  VerifyInclusion(InclusionProof(keys, key), Root(keys))
<1> DEFINE p == InclusionProof(keys, key)
           size == Cardinality(keys)
           index == Rank(keys, key)
           top == Height(size)
           S == {h \in Nat : h <= top => Climb(key, p.path, h) = Level(keys, h)[Ancestor(index, h)]}
<1>1. size \in Nat /\ size # 0 /\ index \in 0 .. size - 1
  BY FS_CardinalityType, FS_EmptySet, RankType
<1>2. top \in Nat /\ Width(size, top) = 1
  BY <1>1, HeightFacts
<1>3. /\ p.entry = key /\ p.size = size /\ p.index = index /\ Len(p.path) = top
      /\ \A h \in 1 .. top :
            /\ p.path[h].direction = Directions(index, size)[h]
            /\ p.path[h].hash =
                  Level(keys, h - 1)[Sibling(Ancestor(index, h - 1), Width(size, h - 1))]
  BY BuiltPath
<1> HIDE DEF p, index
<1>4. 0 \in S
  <2>1. Level(keys, 0)[index] = Leaf(KeyAt(keys, index))
    BY <1>1, LevelRecursion
  <2>2. KeyAt(keys, index) = key
    BY KeyAtRank DEF index
  <2>3. Ancestor(index, 0) = index
    BY <1>1, AncestorWithin
  <2> QED  BY <2>1, <2>2, <2>3, ClimbRecursion
<1>5. ASSUME NEW h \in Nat, h \in S PROVE h + 1 \in S
  <2> SUFFICES ASSUME h + 1 <= top
               PROVE  Climb(key, p.path, h + 1) = Level(keys, h + 1)[Ancestor(index, h + 1)]
    OBVIOUS
  <2>1. Climb(key, p.path, h) = Level(keys, h)[Ancestor(index, h)]
    BY <1>2, <1>5
  <2> HIDE DEF top, size
  <2> DEFINE pos == Ancestor(index, h)
             sibling == Sibling(pos, Width(size, h))
  <2>2. pos \in 0 .. Width(size, h) - 1 /\ Ancestor(index, h + 1) = pos \div 2
    BY <1>1, AncestorWithin
  <2>3. Level(keys, h + 1)[pos \div 2] =
            IF sibling < pos THEN Node(Level(keys, h)[sibling], Level(keys, h)[pos])
            ELSE Node(Level(keys, h)[pos], Level(keys, h)[sibling])
    BY <1>1, <2>2, LevelAbove DEF size
  <2>4. h + 1 \in 1 .. top /\ h < top /\ (h + 1) - 1 = h
    BY <1>2
  <2>5. p.path[h + 1].direction = IF sibling < pos THEN "left" ELSE "right"
    BY <1>1, <1>3, <2>4, DirectionIs DEF top
  <2>6. p.path[h + 1].hash = Level(keys, h)[sibling]
    BY <1>3, <2>4
  <2>7. Climb(key, p.path, h + 1) =
            IF sibling < pos THEN Node(p.path[h + 1].hash, Climb(key, p.path, h))
            ELSE Node(Climb(key, p.path, h), p.path[h + 1].hash)
    BY <2>5, ClimbRecursion
  <2> HIDE DEF sibling
  <2> QED  BY <2>1, <2>2, <2>3, <2>6, <2>7
<1> HIDE DEF S
<1>6. Nat \subseteq S
  BY <1>4, <1>5, SetInduction
<1>7. Climb(key, p.path, top) = Level(keys, top)[Ancestor(index, top)]
  BY <1>2, <1>6 DEF S
<1>8. Ancestor(index, top) = 0
  <2>1. Ancestor(index, top) \in 0 .. Width(size, top) - 1
    BY <1>1, <1>2, AncestorWithin
  <2> QED  BY <1>2, <2>1
<1>9. TreeHash(keys) = Level(keys, top)[0]
  BY DEF TreeHash
<1> HIDE DEF top, size
<1>10. Climb(p.entry, p.path, Len(p.path)) = TreeHash(keys)
  BY <1>3, <1>7, <1>8, <1>9
<1>11. VerifyInclusion(p, Root(keys))
  <2>1. Root(keys) = SizedRoot(size, TreeHash(keys))
    BY DEF Root, size
  <2>2. /\ p.size \in Nat \ {0} /\ p.index \in 0 .. p.size - 1
        /\ Len(p.path) = Height(p.size)
        /\ \A h \in 1 .. Len(p.path) : p.path[h].direction = Directions(p.index, p.size)[h]
    BY <1>1, <1>3 DEF top
  <2> QED  BY <1>3, <1>10, <2>1, <2>2 DEF VerifyInclusion
<1> QED  BY <1>11 DEF p

----------------------------------------------------------------------------
(* Non-inclusion.                                                          *)

(* A proof of absence, whatever size it states and whoever built it, shows  *)
(* a key of the set as absent only by ending the set behind an entry before *)
(* it: for every set of keys and every pair of neighbours there may be, or  *)
(* none (verify_non_inclusion_proof).                                       *)
THEOREM NonInclusionIsSound ==
    ASSUME NEW keys \in SUBSET Nat, IsFiniteSet(keys), NEW p, p.size \in Nat,
           VerifyNonInclusion(p, Root(keys)), p.target \in keys
    PROVE  p.next = Absent /\ p.size \in 1 .. Rank(keys, p.target)
<1> DEFINE size == Cardinality(keys)
           k == p.target
<1>1. size \in Nat /\ size # 0
  BY FS_CardinalityType, FS_EmptySet
<1>2. p.size # 0
  BY <1>1 DEF VerifyNonInclusion, Root, SizedRoot
<1>3. /\ p.prev # Absent \/ p.next # Absent
      /\ p.prev # Absent => VerifyInclusion(p.prev, Root(keys)) /\ p.prev.entry < k
      /\ p.next # Absent => VerifyInclusion(p.next, Root(keys)) /\ p.next.entry > k
      /\ p.prev # Absent /\ p.next # Absent => p.prev.index + 1 = p.next.index
      /\ p.next = Absent => p.prev.index = p.size - 1
      /\ p.prev = Absent => p.next.index = 0
  BY <1>2 DEF VerifyNonInclusion
<1>4. Rank(keys, k) \in 0 .. size - 1
  BY <1>1, RankType
<1>5. ASSUME p.prev # Absent
      PROVE  p.prev.index \in Nat /\ p.prev.index < Rank(keys, k)
  <2>1. /\ p.prev.entry \in keys /\ p.prev.index = Rank(keys, p.prev.entry)
        /\ p.prev.index \in 0 .. size - 1
    BY <1>3, <1>5, InclusionIsSound
  <2>2. Rank(keys, p.prev.entry) < Rank(keys, k)
    BY <1>3, <1>5, <2>1, RankMonotone
  <2> QED  BY <1>1, <2>1, <2>2
<1>6. ASSUME p.next # Absent
      PROVE  p.next.index \in Nat /\ Rank(keys, k) < p.next.index
  <2>1. /\ p.next.entry \in keys /\ p.next.index = Rank(keys, p.next.entry)
        /\ p.next.index \in 0 .. size - 1
    BY <1>3, <1>6, InclusionIsSound
  <2>2. k < p.next.entry
    BY <1>3, <1>6, <2>1
  <2>3. Rank(keys, k) < Rank(keys, p.next.entry)
    BY <2>1, <2>2, RankMonotone
  <2> QED  BY <1>1, <2>1, <2>3
<1> HIDE DEF size, k
<1>7. p.next = Absent
  BY <1>1, <1>3, <1>4, <1>5, <1>6
<1>8. p.prev # Absent /\ p.prev.index = p.size - 1
  BY <1>3, <1>7
<1> QED  BY <1>1, <1>2, <1>4, <1>5, <1>7, <1>8 DEF k

(* With the committed size next to its neighbours an accepted proof of      *)
(* absence is true: the comparison merkle.py:172-173 leaves out suffices.   *)
THEOREM SizedAbsenceIsTrue ==
    ASSUME NEW keys \in SUBSET Nat, IsFiniteSet(keys), NEW p, p.size = Cardinality(keys),
           VerifyNonInclusion(p, Root(keys))
    PROVE  p.target \notin keys
<1> SUFFICES ASSUME p.target \in keys PROVE FALSE
  OBVIOUS
<1>1. p.size \in Nat
  BY FS_CardinalityType
<1>2. p.size \in 1 .. Rank(keys, p.target)
  BY <1>1, NonInclusionIsSound
<1>3. Rank(keys, p.target) \in 0 .. p.size /\ Rank(keys, p.target) < p.size
  BY RankType
<1> QED  BY <1>1, <1>2, <1>3

(* Every key outside a set has a proof of absence the verifier accepts      *)
(* against the root of the set: before the first key, after the last, in a *)
(* gap, or of the empty set (build_non_inclusion_proof).                    *)
THEOREM NonInclusionIsComplete ==
    ASSUME NEW keys \in SUBSET Nat, IsFiniteSet(keys), NEW key \in Nat \ keys
    PROVE  VerifyNonInclusion(NonInclusionProof(keys, key), Root(keys))
<1> DEFINE below == {k \in keys : k < key}
           above == {k \in keys : k > key}
           greatest == CHOOSE k \in below : \A j \in below : j <= k
           least == CHOOSE k \in above : \A j \in above : j >= k
           p == NonInclusionProof(keys, key)
           size == Cardinality(keys)
<1>1. /\ p.target = key /\ p.size = size
      /\ p.prev = IF below = {} THEN Absent ELSE InclusionProof(keys, greatest)
      /\ p.next = IF above = {} THEN Absent ELSE InclusionProof(keys, least)
  BY DEF NonInclusionProof
<1>2. size \in Nat /\ (size = 0 <=> keys = {})
  BY FS_CardinalityType, FS_EmptySet
<1>3. \A x \in keys : x \in Nat /\ (x \in below \/ x \in above)
  OBVIOUS
<1>4. \A x \in keys : InclusionProof(keys, x) # Absent
  BY DEF InclusionProof, Absent
<1>5. CASE keys = {}
  <2>1. below = {} /\ above = {} /\ size = 0
    BY <1>2, <1>5
  <2>2. Root(keys) = SizedRoot(0, EmptyTree)
    BY <1>5, <2>1 DEF Root, TreeHash
  <2> QED  BY <1>1, <2>1, <2>2 DEF VerifyNonInclusion
<1>6. CASE keys # {}
  <2>1. ASSUME below # {}
        PROVE  /\ greatest \in keys /\ greatest < key
               /\ \A x \in keys : x < key => x <= greatest
    <3>1. \E k \in below : \A j \in below : j <= k
      <4> DEFINE D == {d \in Nat : d <= key /\ key - d \in below}
      <4>1. PICK x \in below : TRUE
        BY <2>1
      <4>2. key - x \in D
        BY <4>1
      <4>3. PICK d \in D : \A e \in D : d <= e
        BY <4>2, LeastElement
      <4>4. key - d \in below
        OBVIOUS
      <4>5. ASSUME NEW j \in below PROVE j <= key - d
        <5>1. key - j \in D
          BY <4>5
        <5> QED  BY <4>3, <5>1
      <4> QED  BY <4>4, <4>5
    <3>2. greatest \in below /\ \A j \in below : j <= greatest
      BY <3>1
    <3> QED  BY <3>2
  <2>2. ASSUME above # {}
        PROVE  /\ least \in keys /\ least > key
               /\ \A x \in keys : x > key => x >= least
    <3>1. \E k \in above : \A j \in above : k <= j
      BY <2>2, LeastElement
    <3>2. \E k \in above : \A j \in above : j >= k
      BY <3>1
    <3>3. least \in above /\ \A j \in above : j >= least
      BY <3>2
    <3> QED  BY <3>3
  <2>3. below = {} => \A x \in keys : x > key
    BY <1>3
  <2>4. above = {} => \A x \in keys : x < key
    BY <1>3
  <2>5. below # {} \/ above # {}
    BY <1>3, <1>6
  <2> HIDE DEF below, above, greatest, least, p, size
  <2>6. ASSUME below # {}
        PROVE  /\ p.prev # Absent /\ VerifyInclusion(p.prev, Root(keys))
               /\ p.prev.entry = greatest /\ p.prev.index = Rank(keys, greatest)
    <3>1. greatest \in keys /\ p.prev = InclusionProof(keys, greatest)
      BY <1>1, <2>1, <2>6
    <3>2. VerifyInclusion(InclusionProof(keys, greatest), Root(keys))
      BY <3>1, InclusionIsComplete
    <3>3. /\ InclusionProof(keys, greatest).entry = greatest
          /\ InclusionProof(keys, greatest).index = Rank(keys, greatest)
      BY <3>1, BuiltPath
    <3> QED  BY <1>4, <3>1, <3>2, <3>3
  <2>7. ASSUME above # {}
        PROVE  /\ p.next # Absent /\ VerifyInclusion(p.next, Root(keys))
               /\ p.next.entry = least /\ p.next.index = Rank(keys, least)
    <3>1. least \in keys /\ p.next = InclusionProof(keys, least)
      BY <1>1, <2>2, <2>7
    <3>2. VerifyInclusion(InclusionProof(keys, least), Root(keys))
      BY <3>1, InclusionIsComplete
    <3>3. /\ InclusionProof(keys, least).entry = least
          /\ InclusionProof(keys, least).index = Rank(keys, least)
      BY <3>1, BuiltPath
    <3> QED  BY <1>4, <3>1, <3>2, <3>3
  <2>8. below = {} => p.prev = Absent
    BY <1>1
  <2>9. above = {} => p.next = Absent
    BY <1>1
  <2>10. below # {} /\ above # {} => p.prev.index + 1 = p.next.index
    <3> SUFFICES ASSUME below # {}, above # {} PROVE Rank(keys, least) = Rank(keys, greatest) + 1
      BY <2>6, <2>7
    <3>1. greatest \in keys /\ least \in keys /\ greatest < least
      <4>1. greatest \in keys /\ greatest < key /\ least \in keys /\ least > key
        BY <2>1, <2>2
      <4>2. greatest \in Nat /\ least \in Nat /\ key \in Nat
        BY <4>1
      <4> QED  BY <4>1, <4>2
    <3>2. ASSUME NEW x \in keys, greatest < x, x < least PROVE FALSE
      BY <1>3, <2>1, <2>2, <3>1, <3>2
    <3> QED  BY <3>1, <3>2, RankSuccessor
  <2>11. above = {} => p.prev.index = size - 1
    <3> SUFFICES ASSUME above = {} PROVE p.prev.index = size - 1
      OBVIOUS
    <3>1. greatest \in keys /\ \A x \in keys : x <= greatest
      BY <2>1, <2>4, <2>5
    <3> QED  BY <2>5, <2>6, <3>1, RankGreatest DEF size
  <2>12. below = {} => p.next.index = 0
    <3> SUFFICES ASSUME below = {} PROVE p.next.index = 0
      OBVIOUS
    <3>1. \A x \in keys : ~(x < least)
      <4> TAKE x \in keys
      <4>1. least \in keys /\ x >= least
        BY <2>2, <2>3, <2>5
      <4>2. least \in Nat /\ x \in Nat
        BY <4>1
      <4> QED  BY <4>1, <4>2
    <3> QED  BY <2>5, <2>7, <3>1, RankLeast
  <2>13. p.size # 0
    BY <1>1, <1>2, <1>6
  <2>14. VerifyNonInclusion(p, Root(keys))
    BY <1>1, <2>1, <2>2, <2>5, <2>6, <2>7, <2>8, <2>9, <2>10, <2>11, <2>12, <2>13
       DEF VerifyNonInclusion
  <2> QED  BY <2>14 DEF p
<1> QED  BY <1>5, <1>6

----------------------------------------------------------------------------
(* The log.                                                                *)

IsBuilt(p) == \E keys \in SUBSET Keys : \E k \in keys : p = InclusionProof(keys, k)

(* What the log gives out was built from what it had committed to.         *)
Inv ==
    /\ committed \in SUBSET Keys
    /\ \A p \in parts : IsBuilt(p)

LEMMA KeysFacts ==
    ASSUME NEW keys \in SUBSET Keys
    PROVE  keys \in SUBSET Nat /\ IsFiniteSet(keys)
  BY KeysAssumption, FS_Subset

(* The keys committed to are keys, and inclusion proofs are of those that   *)
(* were committed to when they were given out.                             *)
THEOREM InvHolds == Spec => []Inv
<1>1. Init => Inv
  BY DEF Init, Inv
<1>2. Inv /\ [Next]_vars => Inv'
  <2> SUFFICES ASSUME Inv, [Next]_vars PROVE Inv'
    OBVIOUS
  <2> USE DEF Inv
  <2>1. ASSUME NEW keys \in SUBSET (Keys \ committed), SignCheckpoint(keys) PROVE Inv'
    BY <2>1 DEF SignCheckpoint, IsBuilt
  <2>2. ASSUME NEW k \in Keys, GiveInclusion(k) PROVE Inv'
    <3>1. IsBuilt(InclusionProof(committed, k))
      BY <2>2 DEF GiveInclusion, IsBuilt
    <3>2. /\ committed' = committed
          /\ \A p \in parts' : p \in parts \/ p = InclusionProof(committed, k)
      BY <2>2 DEF GiveInclusion
    <3>3. \A p \in parts' : IsBuilt(p)
      BY <3>1, <3>2
    <3> QED  BY <3>2, <3>3 DEF IsBuilt
  <2>3. ASSUME NEW k \in Keys, GiveAbsence(k) PROVE Inv'
    BY <2>3 DEF GiveAbsence, IsBuilt
  <2>4. CASE UNCHANGED vars
    BY <2>4 DEF vars, IsBuilt
  <2> QED  BY <2>1, <2>2, <2>3, <2>4 DEF Next
<1> QED  BY <1>1, <1>2, PTL DEF Spec

(* Committed entries are keys and the proofs given out are of keys, at a    *)
(* position within a size the log may have.                                *)
THEOREM TypeCorrect == Spec => []TypeOK
<1>1. Inv => TypeOK
  <2> SUFFICES ASSUME Inv, NEW p \in parts
               PROVE  p.entry \in Keys /\ p.size \in Sizes /\ p.index < p.size
    BY DEF Inv, TypeOK
  <2>1. PICK keys \in SUBSET Keys : \E k \in keys : p = InclusionProof(keys, k)
    BY DEF Inv, IsBuilt
  <2>2. PICK k \in keys : p = InclusionProof(keys, k)
    BY <2>1
  <2>3. keys \in SUBSET Nat /\ IsFiniteSet(keys) /\ IsFiniteSet(Keys)
    BY KeysFacts, KeysAssumption
  <2>4. p.entry = k /\ p.size = Cardinality(keys) /\ p.index = Rank(keys, k)
    BY <2>2, <2>3, BuiltPath
  <2>5. /\ Cardinality(keys) \in Nat /\ Cardinality(Keys) \in Nat
        /\ Cardinality(keys) <= Cardinality(Keys)
    BY <2>3, FS_CardinalityType, FS_Subset
  <2>6. Rank(keys, k) < Cardinality(keys)
    BY <2>3, RankType
  <2> QED  BY <2>4, <2>5, <2>6 DEF Sizes
<1> QED  BY <1>1, InvHolds, PTL

(* At every moment every key has a proof, of inclusion or of absence, that  *)
(* the verifier accepts against the newest checkpoint.                     *)
THEOREM ProofsAreComplete == Spec => []ProofsComplete
<1>1. Inv => ProofsComplete
  <2> SUFFICES ASSUME Inv PROVE ProofsComplete
    OBVIOUS
  <2>1. committed \in SUBSET Nat /\ IsFiniteSet(committed)
    BY KeysFacts DEF Inv
  <2>2. \A k \in committed : VerifyInclusion(InclusionProof(committed, k), Root(committed))
    BY <2>1, InclusionIsComplete
  <2>3. \A k \in Nat \ committed :
            VerifyNonInclusion(NonInclusionProof(committed, k), Root(committed))
    BY <2>1, NonInclusionIsComplete
  <2> QED  BY <2>2, <2>3, KeysAssumption DEF ProofsComplete, Checkpoint
<1> QED  BY <1>1, InvHolds, PTL

(* A proof given out at any time, with whatever position and size on it, is *)
(* accepted against the newest checkpoint only if it is true of it.        *)
THEOREM AcceptedInclusionIsTrue == Spec => []InclusionSound
<1>1. Inv => InclusionSound
  <2> SUFFICES ASSUME Inv, NEW p \in parts, NEW i \in Sizes, NEW n \in Sizes,
                      VerifyInclusion([p EXCEPT !.index = i, !.size = n], Root(committed))
               PROVE  /\ p.entry \in committed
                      /\ n = Cardinality(committed)
                      /\ i = Rank(committed, p.entry)
    BY DEF InclusionSound, Checkpoint, Rank
  <2>1. committed \in SUBSET Nat /\ IsFiniteSet(committed)
    BY KeysFacts DEF Inv
  <2>2. PICK keys \in SUBSET Keys : \E k \in keys : p = InclusionProof(keys, k)
    BY DEF Inv, IsBuilt
  <2>3. PICK k \in keys : p = InclusionProof(keys, k)
    BY <2>2
  <2> DEFINE q == [p EXCEPT !.index = i, !.size = n]
  <2>4. q.index = i /\ q.size = n /\ q.entry = p.entry
    BY <2>3 DEF InclusionProof
  <2> HIDE DEF q
  <2>5. VerifyInclusion(q, Root(committed))
    BY DEF q
  <2>6. /\ q.entry \in committed /\ q.size = Cardinality(committed)
        /\ q.index = Rank(committed, q.entry)
    BY <2>1, <2>5, InclusionIsSound
  <2> QED  BY <2>4, <2>6
<1> QED  BY <1>1, InvHolds, PTL

(* Neighbours from proofs of any age, with whatever size next to them, show *)
(* a committed key as absent only by ending the log behind an entry before  *)
(* it.                                                                      *)
THEOREM AbsenceOnlyByCuttingOff == Spec => []NonInclusionSound
<1>1. Inv => NonInclusionSound
  <2> SUFFICES ASSUME Inv, NEW prev, NEW next, NEW k \in committed, NEW n \in Sizes,
                      VerifyNonInclusion([target |-> k, size |-> n,
                                          prev |-> prev, next |-> next], Root(committed))
               PROVE  next = Absent /\ n \in 1 .. Rank(committed, k)
    BY DEF NonInclusionSound, Checkpoint
  <2>1. committed \in SUBSET Nat /\ IsFiniteSet(committed)
    BY KeysFacts DEF Inv
  <2> DEFINE p == [target |-> k, size |-> n, prev |-> prev, next |-> next]
  <2>2. p.target = k /\ p.size = n /\ p.next = next /\ n \in Nat
    BY DEF Sizes
  <2>3. VerifyNonInclusion(p, Root(committed))
    OBVIOUS
  <2> HIDE DEF p
  <2> QED  BY <2>1, <2>2, <2>3, NonInclusionIsSound
<1> QED  BY <1>1, InvHolds, PTL
=============================================================================
