----------------------------- MODULE BTreeShape -----------------------------
(***************************************************************************)
(* What the index file means: the search tree below an offset, the keys in *)
(* it, and the properties of the B-tree that are about them.               *)
(***************************************************************************)
EXTENDS BTree, FiniteSets

KeysOf(nd) == {nd.keys[i] : i \in 1..nd.n}
KidsOf(nd) == {nd.kids[i] : i \in 1..(nd.n + 1)} \ {NoOffset}
IsLeaf(nd) == KidsOf(nd) = {}

\* The slots d steps below r.  Offsets that are no slot (the header's, none) have no tree.
Level(r) ==
  LET level[d \in Nat] ==
        IF d = 0 THEN {r} \cap Slots ELSE UNION {KidsOf(nodes[s]) \cap Slots : s \in level[d - 1]}
  IN  level

Reach(r)     == UNION {Level(r)[d] : d \in 0..Len(nodes)}
KeysBelow(r) == UNION {KeysOf(nodes[s]) : s \in Reach(r)}

Ordered(nd) == \A i \in 2..nd.n : nd.keys[i - 1] < nd.keys[i]

\* Keys of a child lie between the keys around it; a child offset below is a slot.
Separates(nd) ==
  \A i \in 1..(nd.n + 1) : nd.kids[i] # NoOffset =>
    /\ nd.kids[i] \in Slots
    /\ \A k \in KeysBelow(nd.kids[i]) : (i > 1 => nd.keys[i - 1] < k) /\ (i <= nd.n => k < nd.keys[i])

SearchTree(r) ==
  LET reach == Reach(r) IN
  /\ \A s \in reach :
       /\ nodes[s].n >= 1
       /\ Ordered(nodes[s])
       /\ Separates(nodes[s])
       /\ IsLeaf(nodes[s]) \/ Cardinality(KidsOf(nodes[s])) = nodes[s].n + 1
  /\ \A s, t \in reach : s # t => KidsOf(nodes[s]) \cap KidsOf(nodes[t]) = {}
  /\ \A d \in 0..Len(nodes) :
       \A s, t \in Level(r)[d] : IsLeaf(nodes[s]) <=> IsLeaf(nodes[t])

\* The keys a split holds in memory: those of the node it divides and those below it.
InFlight ==
  IF pc \in {"split", "right", "link", "newroot"}
  THEN KeysOf(aux) \cup UNION {KeysBelow(c) : c \in KidsOf(aux)}
  ELSE {}
-----------------------------------------------------------------------------
\* Before, between and after the writes of a split, the tree the process works on and
\* the tree the header on disk points to are search trees of even depth in which no node
\* is empty or has two parents: a crash at any moment leaves a tree that find can walk.
SearchTreeAlways ==
  /\ SearchTree(header)
  /\ Alive => SearchTree(root_offset)

ParentOf(p, o) == IF p = RootMark THEN o = root_offset
                                  ELSE p \in Slots /\ o \in KidsOf(nodes[p])
PathFrom(chain, o) ==
  /\ chain # <<>> /\ chain[Len(chain)] = RootMark
  /\ ParentOf(chain[1], o)
  /\ \A i \in 2..Len(chain) : ParentOf(chain[i], chain[i - 1])

\* assn_4.c:151: "Populate the parent pointers upto the leaf responsible for this insert".
\* While a tree is there, the stack leads from the node being visited, filled or divided
\* through its parents to the root's mark, and no write of a split in between breaks it.
StackIsPath ==
  root_offset \in Slots =>
    /\ pc = "descend" => IF cur = root_offset THEN stack = <<>>
                                              ELSE PathFrom(<<prev>> \o stack, cur)
    /\ pc = "leaf"  => IsLeaf(nodes[leaf_offset]) /\ PathFrom(stack, leaf_offset)
    /\ pc = "split" => PathFrom(stack, node_offset)
    /\ pc \in {"right", "link", "newroot"} => PathFrom(<<next_parent>> \o stack, node_offset)

\* The keys a find sees, or after the next Open would see.
Live == IF Alive THEN KeysBelow(root_offset) \cup InFlight ELSE KeysBelow(header)

\* What the command being served has come to.
Stage == CASE pc = "exited" -> "ended"
           [] pc \in {"died", "killed"} -> "down"
           [] pc = "cmd" -> "ready"
           [] pc \in {"call", "find"} -> "lookup"
           [] pc \in {"answer", "parents", "descend", "leaf"} -> "answer"
           [] OTHER -> "adding"

\* Seen from outside, the program is a set of keys: every find answers for that set, an
\* add changes it by its key at most, splits do not change it at all, end keeps it for
\* the next session, and a crash never brings a key that was not in it.
Store == INSTANCE KeyStore WITH live <- Live, stage <- Stage

ImplementsStore == Store!Spec

\* Every command that is read is answered, whatever the tree: the process comes back for
\* the next command or is gone.
CommandsEnd == pc = "call" ~> (pc = "cmd" \/ ~Alive)
-----------------------------------------------------------------------------
(* What comments and recorded tests say of the program, and it does not do. *)

\* test_samples/output3.txt:1: " 1: 748935311,993248878 ", after the two adds of
\* input3.txt: the key of an add is in the tree when the add is over.
AddStores ==
  [][op = "add" /\ pc' = "cmd" => key \in KeysBelow(root_offset)']_vars

\* data_structures.c:240: "Returns 0 if not found, else returns 1".
FindReturns == [][op = "find" => pc' # "died"]_vars
=============================================================================
