----------------------------- MODULE MerkleSet -----------------------------
(***************************************************************************)
(* The sorted Merkle set of revoked identifiers (orprg_eval/merkle.py).    *)
(* A key is its rank in the sort order and an entry is its key.  Hashes    *)
(* are terms, so equal only if what was hashed is equal.                   *)
(***************************************************************************)
EXTENDS Naturals, Sequences, FiniteSets

Absent == [absent |-> TRUE]     \* a missing "prev" or "next"

Leaf(key) == <<"leaf", key>>
Node(left, right) == <<"node", left, right>>
EmptyTree == <<"empty">>
SizedRoot(size, tree) == <<"root", size, tree>>

(* Position of a key in the sorted list, and the key at a position. *)
Rank(keys, key) == Cardinality({k \in keys : k < key})
KeyAt(keys, index) == CHOOSE k \in keys : Rank(keys, k) = index

----------------------------------------------------------------------------
(* Trees.  Level 0 is the leaves; a node without a right neighbour is      *)
(* paired with itself.  Each level halves the positions of the one below   *)
(* and, rounding up, its width.                                            *)

Halved(n, round, h) ==
    LET halved[g \in Nat] == IF g = 0 THEN n ELSE (halved[g - 1] + round) \div 2
    IN  halved[h]

Ancestor(pos, h) == Halved(pos, 0, h)
Width(size, h) == Halved(size, 1, h)

(* The first level that is one node wide *)
Height(size) == CHOOSE h \in 0 .. size :
    Width(size, h) <= 1 /\ \A g \in 0 .. h - 1 : Width(size, g) > 1

(* Level h of the tree: the hash at each position *)
Level(keys, h) ==
    LET size == Cardinality(keys)
        level[g \in Nat] ==
            IF g = 0 THEN [i \in 0 .. size - 1 |-> Leaf(KeyAt(keys, i))]
            ELSE [i \in 0 .. Width(size, g) - 1 |->
                    Node(level[g - 1][2 * i],
                         level[g - 1][IF 2 * i + 1 < Width(size, g - 1)
                                      THEN 2 * i + 1 ELSE 2 * i])]
    IN  level[h]

TreeHash(keys) ==
    IF keys = {} THEN EmptyTree ELSE Level(keys, Height(Cardinality(keys)))[0]

Root(keys) == SizedRoot(Cardinality(keys), TreeHash(keys))

----------------------------------------------------------------------------
(* Audit paths.  On each level the sibling of a position is the other one  *)
(* of its pair, or itself at the odd end.                                  *)

Sibling(pos, width) ==
    LET other == IF pos % 2 = 0 THEN pos + 1 ELSE pos - 1
    IN  IF other >= width THEN pos ELSE other

Directions(index, size) ==
    [h \in 1 .. Height(size) |->
        LET pos == Ancestor(index, h - 1) IN
        IF Sibling(pos, Width(size, h - 1)) < pos THEN "left" ELSE "right"]

(* Mutant: at the odd end the left neighbour is taken for the sibling. *)
InclusionProofOddLeft(keys, key) ==
    LET index == Rank(keys, key)
        size == Cardinality(keys)
        other(pos) == IF pos % 2 = 0 THEN pos + 1 ELSE pos - 1
    IN  [entry |-> key, index |-> index, size |-> size,
         path |-> [h \in 1 .. Height(size) |->
             LET pos == Ancestor(index, h - 1)
                 sib == IF other(pos) >= Width(size, h - 1) /\ pos > 0
                        THEN pos - 1 ELSE Sibling(pos, Width(size, h - 1))
             IN  [direction |-> Directions(index, size)[h],
                  hash |-> Level(keys, h - 1)[sib]]]]

(* build_inclusion_proof, for a key in keys *)
InclusionProof(keys, key) ==
    LET index == Rank(keys, key)
        size == Cardinality(keys)
    IN  [entry |-> key, index |-> index, size |-> size,
         path |-> [h \in 1 .. Height(size) |->
             [direction |-> Directions(index, size)[h],
              hash |-> Level(keys, h - 1)[Sibling(Ancestor(index, h - 1), Width(size, h - 1))]]]]

(* The hash an audit path leads to from an entry, after h steps. *)
Climb(entry, path, h) ==
    LET hash[g \in Nat] ==
            IF g = 0 THEN Leaf(entry)
            ELSE IF path[g].direction = "left" THEN Node(path[g].hash, hash[g - 1])
            ELSE Node(hash[g - 1], path[g].hash)
    IN  hash[h]

(* Mutant: the size is not part of what is compared with the root.         *)
VerifyInclusionAnySize(p, root) ==
    /\ p.size \in Nat \ {0} /\ p.index \in 0 .. p.size - 1
    /\ Len(p.path) = Height(p.size)
    /\ \A h \in 1 .. Len(p.path) : p.path[h].direction = Directions(p.index, p.size)[h]
    /\ Climb(p.entry, p.path, Len(p.path)) = root[3]

(* verify_inclusion_proof *)
VerifyInclusion(p, root) ==
    /\ p.size \in Nat \ {0} /\ p.index \in 0 .. p.size - 1
    /\ Len(p.path) = Height(p.size)
    /\ \A h \in 1 .. Len(p.path) : p.path[h].direction = Directions(p.index, p.size)[h]
    /\ SizedRoot(p.size, Climb(p.entry, p.path, Len(p.path))) = root

----------------------------------------------------------------------------
(* Non-inclusion: the neighbours of where the key would be *)

(* build_non_inclusion_proof, for a key not in keys *)
NonInclusionProof(keys, key) ==
    LET below == {k \in keys : k < key}
        above == {k \in keys : k > key}
    IN  [target |-> key, size |-> Cardinality(keys),
         prev |-> IF below = {} THEN Absent
                  ELSE InclusionProof(keys, CHOOSE k \in below : \A j \in below : j <= k),
         next |-> IF above = {} THEN Absent
                  ELSE InclusionProof(keys, CHOOSE k \in above : \A j \in above : j >= k)]

(* Mutants: the root of the empty set is not compared; the two neighbours  *)
(* need not be adjacent.                                                   *)
VerifyNonInclusionEmpty(p, root) ==
    IF p.size = 0 THEN p.prev = Absent /\ p.next = Absent
    ELSE /\ p.prev # Absent \/ p.next # Absent
         /\ p.prev # Absent => VerifyInclusion(p.prev, root) /\ p.prev.entry < p.target
         /\ p.next # Absent => VerifyInclusion(p.next, root) /\ p.next.entry > p.target
         /\ p.prev # Absent /\ p.next # Absent => p.prev.index + 1 = p.next.index
         /\ p.next = Absent => p.prev.index = p.size - 1
         /\ p.prev = Absent => p.next.index = 0

VerifyNonInclusionGap(p, root) ==
    IF p.size = 0 THEN root = SizedRoot(0, EmptyTree) /\ p.prev = Absent /\ p.next = Absent
    ELSE /\ p.prev # Absent \/ p.next # Absent
         /\ p.prev # Absent => VerifyInclusion(p.prev, root) /\ p.prev.entry < p.target
         /\ p.next # Absent => VerifyInclusion(p.next, root) /\ p.next.entry > p.target
         /\ p.next = Absent => p.prev.index = p.size - 1
         /\ p.prev = Absent => p.next.index = 0

(* verify_non_inclusion_proof *)
VerifyNonInclusion(p, root) ==
    IF p.size = 0 THEN root = SizedRoot(0, EmptyTree) /\ p.prev = Absent /\ p.next = Absent
    ELSE /\ p.prev # Absent \/ p.next # Absent
         /\ p.prev # Absent => VerifyInclusion(p.prev, root) /\ p.prev.entry < p.target
         /\ p.next # Absent => VerifyInclusion(p.next, root) /\ p.next.entry > p.target
         /\ p.prev # Absent /\ p.next # Absent => p.prev.index + 1 = p.next.index
         /\ p.next = Absent => p.prev.index = p.size - 1
         /\ p.prev = Absent => p.next.index = 0
============================================================================
