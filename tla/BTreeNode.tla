----------------------------- MODULE BTreeNode ------------------------------
(***************************************************************************)
(* The nodes of the B-tree in initmem/testbed: struct btree_node and what  *)
(* data_structures.c computes on one node in memory.  A node that is       *)
(* divided is held in an aux node, which has room for one key more.        *)
(***************************************************************************)
EXTENDS Integers, Sequences

CONSTANT Order     \* btree_order, the second argument of the program

ASSUME OrderAssumption == Order \in Nat /\ Order >= 2

Filler   == -1    \* an unused key position or child offset; also "no root"
NoOffset == -1
Header   == 0     \* the offset of the header
Sentinel == -10   \* where the key scans start

Children == Int   \* a child offset, as the slot it denotes
Node     == [n : 0..(Order - 1), keys : [1..(Order - 1) -> Int], kids : [1..Order -> Children]]
AuxNode  == [n : 0..Order, keys : [1..Order -> Int], kids : [1..(Order + 1) -> Children]]
-----------------------------------------------------------------------------
\* new_element_node_init, new_element_aux_node
EmptyAux == [n |-> 0, keys |-> [i \in 1..Order |-> Filler],
             kids |-> [i \in 1..(Order + 1) |-> Filler]]
RootOf(k) == [n |-> 1, keys |-> [i \in 1..(Order - 1) |-> IF i = 1 THEN k ELSE Filler],
              kids |-> [i \in 1..Order |-> Filler]]

\* Where the scan of the first n keys stops: at the first key not below k, or after all.
Position(nd, k) ==
  CHOOSE p \in 1..(nd.n + 1) : /\ p <= nd.n => nd.keys[p] >= k
                               /\ \A i \in 1..(p - 1) : nd.keys[i] < k

\* A node read into an aux node, which has room for one key and one child more.
Widened(nd) == [n |-> nd.n,
                keys |-> [i \in 1..Order |-> IF i < Order THEN nd.keys[i] ELSE Filler],
                kids |-> [i \in 1..(Order + 1) |-> IF i <= Order THEN nd.kids[i] ELSE Filler]]

\* Bug: the new child goes before the new key, as the pointer to the divided node does.
InsertedBefore(a, k, p, kid) ==
  [n |-> a.n + 1,
   keys |-> [i \in 1..Order |-> IF i < p THEN a.keys[i] ELSE IF i = p THEN k ELSE a.keys[i - 1]],
   kids |-> [i \in 1..(Order + 1) |-> IF i < p THEN a.kids[i]
                                      ELSE IF i = p THEN kid ELSE a.kids[i - 1]]]

\* Keys from position p on and children after it move up by one; k goes to p, kid after it.
Inserted(a, k, p, kid) ==
  [n |-> a.n + 1,
   keys |-> [i \in 1..Order |-> IF i < p THEN a.keys[i] ELSE IF i = p THEN k ELSE a.keys[i - 1]],
   kids |-> [i \in 1..(Order + 1) |-> IF i <= p THEN a.kids[i]
                                      ELSE IF i = p + 1 THEN kid ELSE a.kids[i - 1]]]

\* add_key_to_tree leaves the child after the new key as it is, add_with_split sets it.
WithKey(nd, k) == LET p == Position(nd, k) IN Inserted(Widened(nd), k, p, Widened(nd).kids[p + 1])
WithSplit(nd, k, right) == Inserted(Widened(nd), k, Position(nd, k), right)

\* Bug: the half rounded up, as the call of ceil suggests.
SplitIndexCeil == (Order + 1) \div 2

SplitIndex    == Order \div 2       \* the argument of ceil is an integer already
SplitValue(a) == a.keys[SplitIndex + 1]

\* Bug: the left half gets as many children as keys, not one more.
LeftWithoutLast(a) ==
  [n |-> SplitIndex,
   keys |-> [i \in 1..(Order - 1) |-> IF i <= SplitIndex THEN a.keys[i] ELSE Filler],
   kids |-> [i \in 1..Order |-> IF i <= SplitIndex THEN a.kids[i] ELSE Filler]]

LeftOf(a) ==
  [n |-> SplitIndex,
   keys |-> [i \in 1..(Order - 1) |-> IF i <= SplitIndex THEN a.keys[i] ELSE Filler],
   kids |-> [i \in 1..Order |-> IF i <= SplitIndex + 1 THEN a.kids[i] ELSE Filler]]

RightOf(a) ==
  LET n == Order - 1 - SplitIndex IN
  [n |-> n,
   keys |-> [i \in 1..(Order - 1) |-> IF i <= n THEN a.keys[SplitIndex + 1 + i] ELSE Filler],
   kids |-> [i \in 1..Order |-> IF i <= n + 1 THEN a.kids[SplitIndex + 1 + i] ELSE Filler]]

NewRootOf(k, left, right) ==
  [n |-> 1, keys |-> [i \in 1..(Order - 1) |-> IF i = 1 THEN k ELSE Filler],
   kids |-> [i \in 1..Order |-> IF i = 1 THEN left ELSE IF i = 2 THEN right ELSE Filler]]

\* An aux node written to the file without its last key and child.
Narrowed(a) == [n |-> a.n, keys |-> [i \in 1..(Order - 1) |-> a.keys[i]],
                kids |-> [i \in 1..Order |-> a.kids[i]]]

\* What is in the file when only the first c words of a node came there: the number of keys, the
\* keys, then the children, two words each.
Torn(old, new, c) ==
  [n |-> new.n,
   keys |-> [i \in 1..(Order - 1) |-> IF i < c THEN new.keys[i] ELSE old.keys[i]],
   kids |-> [i \in 1..Order |-> IF Order + 2 * i <= c THEN new.kids[i] ELSE old.kids[i]]]
=============================================================================
