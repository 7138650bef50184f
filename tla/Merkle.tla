-------------------------------- MODULE Merkle --------------------------------
(***************************************************************************)
(* Hash trees of common/crypto.py.  A hash is the term it is the hash of: a  *)
(* tuple of one element for a leaf, of two for a node (NODE_TAG keeps them   *)
(* apart), so that two hashes are equal exactly when what was hashed is.     *)
(***************************************************************************)
EXTENDS Integers, Sequences, SequencesExt

Leaf(x) == <<x>>
Node(a, b) == <<a, b>>
Zeros == Leaf("zeros")

\* Node i of a level, counted from 1; an odd level repeats its last one.
Nth(level, i) == level[Min({i, Len(level)})]

\* The level above.
Above(level) ==
    [i \in 1..(Len(level) + 1) \div 2 |-> Node(Nth(level, 2 * i - 1), Nth(level, 2 * i))]

\* The levels of a tree, from the leaves up.  No tree has more steps than leaves.
Levels(leaves) ==
    LET level[h \in 0..Len(leaves)] == IF h = 0 THEN leaves ELSE Above(level[h - 1])
    IN  level

\* The step at which the loop ends: the first level of one node is the root.
Height(leaves) ==
    CHOOSE h \in 0..Len(leaves) :
        /\ Len(Levels(leaves)[h]) = 1
        /\ \A k \in 0..h - 1 : Len(Levels(leaves)[k]) # 1

merkle_root(leaves) ==
    IF leaves = << >> THEN Zeros ELSE Levels(leaves)[Height(leaves)][1]

\* idx //= 2, step after step: the places, counted from 0, on the way up.
Places(index, steps) ==
    LET place[h \in 0..steps] == IF h = 0 THEN index ELSE place[h - 1] \div 2
    IN  place

\* Python's i ^ 1.
Sibling(i) == IF i % 2 = 0 THEN i + 1 ELSE i - 1

merkle_proof(leaves, index) ==
    IF leaves = << >> THEN << >>
    ELSE LET level == Levels(leaves)
             place == Places(index, Height(leaves))
         IN  [h \in 1..Height(leaves) |-> Nth(level[h - 1], Sibling(place[h - 1]) + 1)]

\* Seeded fault: the side is always that of the leaf.
Climb_Leftmost(leaf, path, index) ==
    FoldLeft(LAMBDA node, sib : IF index % 2 = 0 THEN Node(node, sib) ELSE Node(sib, node),
             leaf, path)

\* The nodes a leaf and its path lead to; the side at each step is a bit of index.
Climb(leaf, path, index) ==
    LET place == Places(index, Len(path))
        node[h \in 0..Len(path)] ==
            IF h = 0 THEN leaf
            ELSE IF place[h - 1] % 2 = 0 THEN Node(node[h - 1], path[h])
            ELSE Node(path[h], node[h - 1])
    IN  node[Len(path)]

merkle_verify(leaf, path, index, root) == Climb(leaf, path, index) = root

-----------------------------------------------------------------------------
(***************************************************************************)
(* SlotTree: a fixed number of slots, a power of two, one sealed root each.  *)
(***************************************************************************)
SlotTree(capacity) == [i \in 1..capacity |-> Zeros]
SlotSet(slots, slot_idx, sealed_root) == [slots EXCEPT ![slot_idx + 1] = sealed_root]
SlotClear(slots, slot_idx) == SlotSet(slots, slot_idx, Zeros)

-----------------------------------------------------------------------------
\* Python's bit_length: how often n is halved before nothing is left of it.
bit_length(n) ==
    CHOOSE h \in 0..n : Places(n, n)[h] = 0 /\ \A k \in 0..h - 1 : Places(n, n)[k] # 0

\* Height of the tree the prover is told of.
tree_height(n_chunks) == Max({1, bit_length(n_chunks - 1)})
=============================================================================
