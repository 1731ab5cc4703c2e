----------------------------- MODULE BTreeProofs -----------------------------
(***************************************************************************)
(* Theorems about the B-tree program for every order, set of keys, number  *)
(* of open files and sessions. First, through every crash and restart: its *)
(* types, and that the index file leads nowhere but to its nodes.          *)
(***************************************************************************)

(***************************************************************************)
(* Then, for every order from 3 on: the child offsets of the index file    *)
(* never form a cycle. The argument grades the nodes: there is a function  *)
(* that gives each slot a number, every child a smaller one than its       *)
(* parent. A right half gets the grade of the node it comes from and a new *)
(* root one more than the old. What a split writes is in order because the *)
(* path stack climbs: each entry has a higher grade than the one above it. *)
(* Last, with no write of a node cut short: the path stack is the path.    *)
(* Two things make it so. A node has all its children or none, so the      *)
(* search for a leaf stops at one, and the node a split links the right    *)
(* half into is an inner node. And the nodes on the stack are not the one  *)
(* that is written over, because the stack climbs.                         *)
(***************************************************************************)
EXTENDS BTreeShape, SequenceTheorems, WellFoundedInduction, TLAPS
-----------------------------------------------------------------------------
(* The operators on nodes *)

\* The scan of a node's keys stops at one of its keys or just after them.
LEMMA PositionType ==
  ASSUME NEW nd, nd.n \in Nat, NEW k \in Int, \A i \in 1..nd.n : nd.keys[i] \in Int
  PROVE  /\ Position(nd, k) \in 1..(nd.n + 1)
         /\ Position(nd, k) <= nd.n => nd.keys[Position(nd, k)] >= k
         /\ \A i \in 1..(Position(nd, k) - 1) : nd.keys[i] < k
<1> DEFINE T == {p \in 1..(nd.n + 1) : p <= nd.n => nd.keys[p] >= k}
<1>1. T \subseteq Nat /\ nd.n + 1 \in T
  OBVIOUS
<1>2. PICK p \in T : \A y \in T : ~(<<y, p>> \in OpToRel(<, Nat))
  BY <1>1, WFMin, NatLessThanWellFounded
<1>3. \A y \in T : ~(y < p)
  BY <1>1, <1>2 DEF OpToRel
<1>4. \A i \in 1..(p - 1) : nd.keys[i] < k
  <2> SUFFICES ASSUME NEW i \in 1..(p - 1) PROVE nd.keys[i] < k
    OBVIOUS
  <2>1. i \in 1..nd.n /\ i < p /\ i \notin T
    BY <1>3
  <2>q. QED
    BY <2>1
<1>q. QED
  BY <1>4 DEF Position

\* The offset fields of a node stay in a set S of offsets through each of the operators.
LEMMA InsertedType ==
  ASSUME NEW a \in AuxNode, a.n <= Order - 1, NEW k \in Int, NEW p \in 1..Order,
         NEW S, S \subseteq Int, NEW kid \in S, \A i \in 1..(Order + 1) : a.kids[i] \in S
  PROVE  /\ Inserted(a, k, p, kid) \in AuxNode
         /\ Inserted(a, k, p, kid).n = a.n + 1
         /\ \A i \in 1..(Order + 1) : Inserted(a, k, p, kid).kids[i] \in S
<1> DEFINE ks == [i \in 1..Order |-> IF i < p THEN a.keys[i] ELSE IF i = p THEN k ELSE a.keys[i - 1]]
           cs == [i \in 1..(Order + 1) |-> IF i <= p THEN a.kids[i]
                                           ELSE IF i = p + 1 THEN kid ELSE a.kids[i - 1]]
<1>1. Order \in Nat /\ Order >= 2
  BY OrderAssumption
<1>2. a.n \in 0..Order /\ a.keys \in [1..Order -> Int]
  BY DEF AuxNode
<1>3. a.n + 1 \in 0..Order
  BY <1>1, <1>2
<1>4. ks \in [1..Order -> Int]
  BY <1>1, <1>2
<1>5. \A i \in 1..(Order + 1) : cs[i] \in S
  BY <1>1
<1>6. cs \in [1..(Order + 1) -> Int]
  BY <1>5
<1> HIDE DEF ks, cs
<1>7. Inserted(a, k, p, kid) = [n |-> a.n + 1, keys |-> ks, kids |-> cs]
  BY DEF Inserted, ks, cs
<1>q. QED
  BY <1>3, <1>4, <1>5, <1>6, <1>7 DEF AuxNode, Children

LEMMA WidenedType ==
  ASSUME NEW nd \in Node, NEW S, S \subseteq Int, Filler \in S, \A i \in 1..Order : nd.kids[i] \in S
  PROVE  /\ Widened(nd) \in AuxNode /\ Widened(nd).n = nd.n
         /\ \A i \in 1..(Order + 1) : Widened(nd).kids[i] \in S
<1> DEFINE ks == [i \in 1..Order |-> IF i < Order THEN nd.keys[i] ELSE Filler]
           cs == [i \in 1..(Order + 1) |-> IF i <= Order THEN nd.kids[i] ELSE Filler]
<1>1. Order \in Nat /\ Order >= 2
  BY OrderAssumption
<1>2. nd.n \in 0..Order /\ nd.keys \in [1..(Order - 1) -> Int]
  BY <1>1 DEF Node
<1>3. ks \in [1..Order -> Int]
  BY <1>1, <1>2 DEF Filler
<1>4. \A i \in 1..(Order + 1) : cs[i] \in S
  BY <1>1
<1>5. cs \in [1..(Order + 1) -> Int]
  BY <1>4
<1> HIDE DEF ks, cs
<1>6. Widened(nd) = [n |-> nd.n, keys |-> ks, kids |-> cs]
  BY DEF Widened, ks, cs
<1>q. QED
  BY <1>2, <1>3, <1>4, <1>5, <1>6 DEF AuxNode, Children

\* Where a key goes among those of a node.
LEMMA NodePosition ==
  ASSUME NEW nd \in Node, NEW k \in Int
  PROVE  Position(nd, k) \in 1..(nd.n + 1) /\ Position(nd, k) \in 1..Order
<1>1. Order \in Nat /\ Order >= 2
  BY OrderAssumption
<1>2. nd.n \in 0..(Order - 1) /\ \A i \in 1..nd.n : nd.keys[i] \in Int
  BY <1>1 DEF Node
<1>q. QED
  BY <1>1, <1>2, PositionType

LEMMA WithKeyType ==
  ASSUME NEW nd \in Node, NEW k \in Int,
         NEW S, S \subseteq Int, Filler \in S, \A i \in 1..Order : nd.kids[i] \in S
  PROVE  /\ WithKey(nd, k) \in AuxNode /\ WithKey(nd, k).n = nd.n + 1
         /\ \A i \in 1..(Order + 1) : WithKey(nd, k).kids[i] \in S
<1>1. Order \in Nat /\ nd.n \in 0..(Order - 1)
  BY OrderAssumption DEF Node
<1> DEFINE a == Widened(nd)
           p == Position(nd, k)
<1>2. a \in AuxNode /\ a.n = nd.n /\ \A i \in 1..(Order + 1) : a.kids[i] \in S
  BY WidenedType
<1>3. p \in 1..Order /\ p + 1 \in 1..(Order + 1) /\ a.n <= Order - 1
  BY <1>1, <1>2, NodePosition
<1>4. a.kids[p + 1] \in S
  BY <1>2, <1>3
<1> HIDE DEF a, p
<1>5. /\ Inserted(a, k, p, a.kids[p + 1]) \in AuxNode
      /\ Inserted(a, k, p, a.kids[p + 1]).n = a.n + 1
      /\ \A i \in 1..(Order + 1) : Inserted(a, k, p, a.kids[p + 1]).kids[i] \in S
  BY <1>2, <1>3, <1>4, InsertedType
<1>q. QED
  BY <1>2, <1>5 DEF WithKey, a, p

LEMMA WithSplitType ==
  ASSUME NEW nd \in Node, NEW k \in Int,
         NEW S, S \subseteq Int, Filler \in S, \A i \in 1..Order : nd.kids[i] \in S, NEW right \in S
  PROVE  /\ WithSplit(nd, k, right) \in AuxNode /\ WithSplit(nd, k, right).n = nd.n + 1
         /\ \A i \in 1..(Order + 1) : WithSplit(nd, k, right).kids[i] \in S
<1>1. Order \in Nat /\ nd.n \in 0..(Order - 1)
  BY OrderAssumption DEF Node
<1> DEFINE a == Widened(nd)
           p == Position(nd, k)
<1>2. a \in AuxNode /\ a.n = nd.n /\ \A i \in 1..(Order + 1) : a.kids[i] \in S
  BY WidenedType
<1>3. p \in 1..Order /\ a.n <= Order - 1
  BY <1>1, <1>2, NodePosition
<1> HIDE DEF a, p
<1>4. \A i \in 1..(Order + 1) : Inserted(a, k, p, right).kids[i] \in S
  BY <1>2, <1>3, InsertedType
<1>5. Inserted(a, k, p, right) \in AuxNode
  BY <1>2, <1>3, InsertedType
<1>6. Inserted(a, k, p, right).n = a.n + 1
  BY DEF Inserted
<1>q. QED
  BY <1>2, <1>4, <1>5, <1>6 DEF WithSplit, a, p

\* Both halves have a key, the right one only with an order of at least 3.
LEMMA HalvesType ==
  ASSUME Order >= 3, NEW a \in AuxNode,
         NEW S, S \subseteq Int, Filler \in S, \A i \in 1..(Order + 1) : a.kids[i] \in S
  PROVE  /\ SplitValue(a) \in Int
         /\ LeftOf(a) \in Node /\ LeftOf(a).n >= 1 /\ \A i \in 1..Order : LeftOf(a).kids[i] \in S
         /\ RightOf(a) \in Node /\ RightOf(a).n >= 1 /\ \A i \in 1..Order : RightOf(a).kids[i] \in S
<1> DEFINE h == SplitIndex
           r == Order - 1 - h
<1>1. Order \in Nat /\ h \in 1..(Order - 1) /\ r \in 1..(Order - 1) /\ h + 1 + r = Order
  BY OrderAssumption DEF SplitIndex
<1>2. a.keys \in [1..Order -> Int] /\ a.kids \in [1..(Order + 1) -> Int]
  BY DEF AuxNode, Children
<1> DEFINE lks == [i \in 1..(Order - 1) |-> IF i <= h THEN a.keys[i] ELSE Filler]
           lcs == [i \in 1..Order |-> IF i <= h + 1 THEN a.kids[i] ELSE Filler]
           rks == [i \in 1..(Order - 1) |-> IF i <= r THEN a.keys[h + 1 + i] ELSE Filler]
           rcs == [i \in 1..Order |-> IF i <= r + 1 THEN a.kids[h + 1 + i] ELSE Filler]
<1> HIDE DEF h
<1>d. \A i \in 1..r : h + 1 + i \in 1..Order
  BY <1>1
<1>e. lks \in [1..(Order - 1) -> Int]
  BY <1>1, <1>2 DEF Filler
<1>f. rks \in [1..(Order - 1) -> Int]
  BY <1>1, <1>2, <1>d DEF Filler
<1>3. lks \in [1..(Order - 1) -> Int] /\ rks \in [1..(Order - 1) -> Int]
  BY <1>e, <1>f
<1>4. \A i \in 1..Order : lcs[i] \in S /\ rcs[i] \in S
  BY <1>1
<1>c. \A i \in 1..Order : lcs[i] \in Int /\ rcs[i] \in Int
  BY <1>4, Zenon
<1>a. lcs \in [1..Order -> Int]
  BY <1>c, Zenon
<1>b. rcs \in [1..Order -> Int]
  BY <1>c, Zenon
<1>5. lcs \in [1..Order -> Int] /\ rcs \in [1..Order -> Int]
  BY <1>a, <1>b
<1>6. a.keys[h + 1] \in Int
  BY <1>1, <1>2
<1> HIDE DEF lks, lcs, rks, rcs
<1>7. LeftOf(a) = [n |-> h, keys |-> lks, kids |-> lcs]
  BY DEF LeftOf, h, lks, lcs
<1>8. RightOf(a) = [n |-> r, keys |-> rks, kids |-> rcs]
  BY DEF RightOf, h, rks, rcs
<1> HIDE DEF r
<1>9. h \in 0..(Order - 1) /\ h >= 1 /\ r \in 0..(Order - 1) /\ r >= 1
  BY <1>1
<1>l. LeftOf(a) \in Node /\ LeftOf(a).n >= 1 /\ \A i \in 1..Order : LeftOf(a).kids[i] \in S
  BY <1>3, <1>4, <1>5, <1>7, <1>9 DEF Node, Children
<1>r. RightOf(a) \in Node /\ RightOf(a).n >= 1 /\ \A i \in 1..Order : RightOf(a).kids[i] \in S
  BY <1>3, <1>4, <1>5, <1>8, <1>9 DEF Node, Children
<1>q. QED
  BY <1>6, <1>l, <1>r DEF SplitValue, h

LEMMA RootsType ==
  ASSUME NEW k \in Int, NEW S, S \subseteq Int, Filler \in S, NEW left \in S, NEW right \in S
  PROVE  /\ RootOf(k) \in Node /\ RootOf(k).n = 1 /\ \A i \in 1..Order : RootOf(k).kids[i] \in S
         /\ NewRootOf(k, left, right) \in Node /\ NewRootOf(k, left, right).n = 1
         /\ \A i \in 1..Order : NewRootOf(k, left, right).kids[i] \in S
<1>1. Order \in Nat /\ Order >= 2
  BY OrderAssumption
<1>q. QED
  BY <1>1 DEF RootOf, NewRootOf, Node, Children, Filler

LEMMA EmptyAuxType == EmptyAux \in AuxNode
  BY OrderAssumption DEF EmptyAux, AuxNode, Children, Filler
-----------------------------------------------------------------------------
(* The file *)

LEMMA SlotsType ==
  ASSUME nodes \in Seq(Node)
  PROVE  /\ Len(nodes) \in Nat /\ Slots \subseteq Nat \ {0} /\ Header \notin Slots
         /\ NoOffset \notin Slots /\ RootMark \notin Slots
         /\ \A s \in Slots : nodes[s] \in Node
  BY DEF Slots, Header, NoOffset, RootMark

\* Writing a node over another one.
LEMMA WriteAt ==
  ASSUME nodes \in Seq(Node), NodesSound, NEW o \in Slots, NEW nd \in Node, nd.n >= 1,
         \A i \in 1..Order : Kid(nd.kids[i]), nodes' = [nodes EXCEPT ![o] = nd]
  PROVE  nodes' \in Seq(Node) /\ Slots' = Slots /\ NodesSound'
<1>1. nodes' \in Seq(Node) /\ Len(nodes') = Len(nodes)
  BY DEF Slots
<1>2. Slots' = Slots
  BY <1>1 DEF Slots
<1>3. \A s \in Slots : nodes'[s] = IF s = o THEN nd ELSE nodes[s]
  BY DEF Slots
<1>q. QED
  BY <1>1, <1>2, <1>3 DEF NodesSound, Kid

\* Writing a node at the end of the file.
LEMMA WriteEnd ==
  ASSUME nodes \in Seq(Node), NodesSound, NEW nd \in Node, nd.n >= 1,
         \A i \in 1..Order : Kid(nd.kids[i]), nodes' = Append(nodes, nd)
  PROVE  /\ nodes' \in Seq(Node) /\ Slots \subseteq Slots' /\ Len(nodes) + 1 \in Slots'
         /\ NodesSound'
<1>1. nodes' \in Seq(Node) /\ Len(nodes') = Len(nodes) + 1
  OBVIOUS
<1>2. Slots' = Slots \cup {Len(nodes) + 1}
  BY <1>1 DEF Slots
<1>3. \A s \in Slots : nodes'[s] = nodes[s]
  BY DEF Slots
<1>4. nodes'[Len(nodes) + 1] = nd
  OBVIOUS
<1>q. QED
  BY <1>1, <1>2, <1>3, <1>4 DEF NodesSound, Kid

\* Writing the first root, over what may be at the first slot.
LEMMA WriteFirst ==
  ASSUME nodes \in Seq(Node), NodesSound, NEW nd \in Node, nd.n >= 1,
         \A i \in 1..Order : Kid(nd.kids[i]),
         nodes' = <<nd>> \o SubSeq(nodes, 2, Len(nodes))
  PROVE  /\ nodes' \in Seq(Node) /\ Slots \subseteq Slots' /\ 1 \in Slots' /\ NodesSound'
         /\ \A s \in Slots' : nodes'[s] = nd \/ (s \in Slots /\ nodes'[s] = nodes[s])
<1> DEFINE rest == SubSeq(nodes, 2, Len(nodes))
<1>1. /\ rest \in Seq(Node)
      /\ Len(rest) = IF 2 <= Len(nodes) THEN Len(nodes) - 2 + 1 ELSE 0
      /\ \A i \in 1..(Len(nodes) - 2 + 1) : rest[i] = nodes[2 + i - 1]
  <2>1. 2 \in Int /\ Len(nodes) \in Int /\ \A i \in 2..Len(nodes) : nodes[i] \in Node
    OBVIOUS
  <2>q. QED
    BY <2>1, SubSeqProperties
<1> HIDE DEF rest
<1>2. nodes' \in Seq(Node) /\ Len(nodes') = 1 + Len(rest)
  BY <1>1 DEF rest
<1>3. Slots \subseteq Slots' /\ 1 \in Slots'
  BY <1>1, <1>2 DEF Slots
<1>4. ASSUME NEW s \in Slots' PROVE nodes'[s] = nd \/ (s \in Slots /\ nodes'[s] = nodes[s])
  <2>1. CASE s = 1
    BY <2>1, <1>1 DEF rest
  <2>2. CASE s # 1
    <3>1. s \in 2..Len(nodes) /\ s - 1 \in 1..Len(rest)
      BY <1>1, <1>2, <2>2 DEF Slots
    <3>2. nodes'[s] = rest[s - 1]
      BY <1>1, <3>1 DEF rest
    <3>q. QED
      BY <1>1, <3>1, <3>2 DEF Slots
  <2>q. QED
    BY <2>1, <2>2
<1>5. ASSUME NEW s \in Slots' PROVE nodes'[s].n >= 1 /\ \A i \in 1..Order : Kid(nodes'[s].kids[i])
  BY <1>4, <1>5 DEF NodesSound
<1>6. NodesSound'
  BY <1>3, <1>5 DEF NodesSound, Kid
<1>q. QED
  BY <1>2, <1>3, <1>4, <1>6

\* populate_parents tells the root by its offset divided by the size of btree_node, which is
\* not the size of a node in the file; for every order two nodes still have two numbers.
THEOREM RootTestExact ==
  ASSUME NEW a \in Nat \ {0}, NEW b \in Nat \ {0}, NodeNo(a) = NodeNo(b)
  PROVE  a = b
<1>1. Order \in Nat /\ Order >= 2
  BY OrderAssumption
<1>2. ASSUME NEW x \in Nat \ {0}, NEW y \in Nat \ {0}, x < y
      PROVE  NodeNo(x) # NodeNo(y)
  <2> DEFINE u == Order * (x - 1)
             v == Order * (y - 1)
  <2>1. u \in Nat /\ v \in Nat /\ v = u + Order * (y - x)
    BY <1>1, <1>2
  <2>2. Order * (y - x) >= Order
    BY <1>1, <1>2
  <2>3. v >= u + 2
    BY <1>1, <2>1, <2>2
  <2> HIDE DEF u, v
  <2>4. u \div 2 # v \div 2
    BY <2>1, <2>3
  <2>q. QED
    BY <2>4 DEF NodeNo, u, v
<1>q. QED
  BY <1>2
-----------------------------------------------------------------------------
(* The invariant *)

\* What the end of a command leaves in the locals.
LEMMA NoLocalsTypes ==
  ASSUME NoLocals
  PROVE  /\ op' \in {"none", "add", "find"} /\ key' \in Int /\ found' \in BOOLEAN
         /\ cur' \in Int /\ prev' \in Int /\ aux' \in AuxNode
         /\ node_offset' \in Int /\ next_parent' \in Int /\ right_offset' \in Int
<1>1. found' \in BOOLEAN /\ op' \in {"none", "add", "find"}
  BY Zenon DEF NoLocals
<1>2. /\ key' = 0 /\ cur' = NoOffset /\ prev' = NoOffset /\ aux' = EmptyAux
      /\ node_offset' = NoOffset /\ next_parent' = NoOffset /\ right_offset' = NoOffset
  BY Zenon DEF NoLocals
<1>q. QED
  BY <1>1, <1>2, EmptyAuxType DEF NoOffset

LEMMA InitSound == Init => TypeOK /\ OffsetsSound
<1> SUFFICES ASSUME Init PROVE TypeOK /\ OffsetsSound
  OBVIOUS
<1>1. exists \in BOOLEAN /\ found \in BOOLEAN
  BY Zenon DEF Init
<1>2. /\ root_offset = 0 /\ leaf_offset = 0 /\ stack = <<>> /\ fds = 0 /\ sessions = 0
      /\ pc = "exited" /\ op = "none" /\ key = 0 /\ cur = NoOffset /\ prev = NoOffset
      /\ aux = EmptyAux /\ node_offset = NoOffset
      /\ next_parent = NoOffset /\ right_offset = NoOffset
  BY Zenon DEF Init
<1>3. \/ header = 0 /\ nodes = <<>>
      \/ \E f \in IndexFiles : header = f.header /\ nodes = f.nodes
  BY Zenon DEF Init
<1>4. /\ header \in Int /\ nodes \in Seq(Node)
      /\ header \in Slots \cup {NoOffset, Header} /\ NodesSound
  <2>1. CASE header = 0 /\ nodes = <<>>
    BY <2>1 DEF Slots, NodesSound, Header
  <2>2. ASSUME NEW f \in IndexFiles, header = f.header, nodes = f.nodes
        PROVE  /\ header \in Int /\ nodes \in Seq(Node)
               /\ header \in Slots \cup {NoOffset, Header} /\ NodesSound
    <3>1. f \in IndexFile /\ SoundFile(f)
      BY BTreeAssumption
    <3>2. DOMAIN nodes = Slots
      BY <2>2, <3>1 DEF IndexFile, Slots
    <3>q. QED
      BY <2>2, <3>1, <3>2 DEF IndexFile, SoundFile, NodesSound, Kid
  <2>q. QED
    BY <1>3, <2>1, <2>2
<1>5. TypeOK
  BY <1>1, <1>2, <1>4, OrderAssumption, BTreeAssumption, EmptyAuxType DEF TypeOK, NoOffset
<1>6. RootSound
  BY <1>2, <1>4 DEF RootSound, Header, NoOffset, Alive
<1>7. StackSound /\ SearchSound /\ SplitSound
  BY <1>2 DEF StackSound, SearchSound, SplitSound
<1>q. QED
  BY <1>4, <1>5, <1>6, <1>7 DEF OffsetsSound

LEMMA KeepNodes ==
  ASSUME NodesSound, nodes' = nodes
  PROVE  Slots' = Slots /\ NodesSound'
  BY DEF Slots, NodesSound, Kid

\* After the last step of a command, if that step leaves every node sound.
LEMMA ReturnSound ==
  ASSUME TypeOK, OffsetsSound, Return,
         UNCHANGED <<exists, header, leaf_offset, stack, fds, sessions>>,
         nodes' \in Seq(Node), Slots \subseteq Slots', NodesSound',
         root_offset' \in Slots' \/ root_offset' = root_offset
  PROVE  TypeOK' /\ OffsetsSound'
<1>1. NoLocals /\ pc' = "cmd"
  BY Zenon DEF Return
<1>2. root_offset' \in Int
  BY DEF TypeOK, Slots
<1>3. TypeOK'
  BY <1>1, <1>2, NoLocalsTypes DEF TypeOK
<1>4. RootSound'
  BY <1>1 DEF OffsetsSound, RootSound, Alive
<1>5. StackSound' /\ SearchSound' /\ SplitSound'
  BY <1>1 DEF OffsetsSound, StackSound, SearchSound, SplitSound
<1>q. QED
  BY <1>3, <1>4, <1>5 DEF OffsetsSound

\* After the process is gone, whatever became of the header.
LEMMA ExitSound ==
  ASSUME TypeOK, OffsetsSound, NEW how \in {"exited", "died", "killed"}, Exit(how),
         UNCHANGED <<exists, sessions>>,
         nodes' \in Seq(Node), Slots' = Slots, NodesSound',
         header' \in Slots \cup {NoOffset, Header}
  PROVE  TypeOK' /\ OffsetsSound'
<1>1. NoLocals /\ pc' = how /\ root_offset' = 0 /\ leaf_offset' = 0 /\ stack' = <<>> /\ fds' = 0
  BY Zenon DEF Exit
<1>3. header' \in Int
  BY DEF Slots, NoOffset, Header
<1>4. TypeOK'
  BY <1>1, <1>3, NoLocalsTypes, BTreeAssumption DEF TypeOK
<1>5. RootSound'
  BY <1>1 DEF RootSound, Header, Alive
<1>6. StackSound' /\ SearchSound' /\ SplitSound'
  BY <1>1 DEF StackSound, SearchSound, SplitSound
<1>q. QED
  BY <1>4, <1>5, <1>6 DEF OffsetsSound

\* A step that only reads: the file and the root stay as they are.
LEMMA ReadSound ==
  ASSUME TypeOK, OffsetsSound,
         UNCHANGED <<disk, root_offset, split, sessions>>,
         Alive, fds' \in 0..MaxOpen, op' \in {"add", "find", "none"}, key' \in Int, found' \in BOOLEAN,
         cur' \in Int, prev' \in Int, stack' \in Seq(Int), leaf_offset' \in Slots \cup {Header},
         root_offset \notin Slots => leaf_offset' = Header,
         pc' \in {"cmd", "call", "find", "answer", "parents", "descend", "leaf"},
         StackSound', SearchSound'
  PROVE  TypeOK' /\ OffsetsSound'
<1>1. UNCHANGED <<exists, header, nodes, aux, node_offset, next_parent, right_offset>>
  BY DEF disk, split
<1>2. Slots' = Slots /\ NodesSound'
  BY <1>1, KeepNodes DEF OffsetsSound
<1>3. leaf_offset' \in Int
  BY DEF Slots, Header
<1>4. TypeOK'
  BY <1>1, <1>3 DEF TypeOK
<1>5. RootSound'
  BY <1>1, <1>2 DEF OffsetsSound, RootSound, Alive
<1>6. SplitSound'
  BY DEF SplitSound
<1>q. QED
  BY <1>2, <1>4, <1>5, <1>6 DEF OffsetsSound

\* The child a search goes to is a node.
LEMMA ChildSound ==
  ASSUME TypeOK, NodesSound, NEW o \in Slots
  PROVE  Kid(nodes[o].kids[Position(nodes[o], key)])
<1>1. nodes[o] \in Node /\ key \in Int
  BY SlotsType DEF TypeOK
<1>2. Position(nodes[o], key) \in 1..Order
  BY <1>1, NodePosition
<1>q. QED
  BY <1>2 DEF NodesSound

\* The steps of the two searches that leave the stack alone.
LEMMA SearchesSound ==
  ASSUME TypeOK, OffsetsSound, FindOpen \/ FindStep \/ ParentsOpen
  PROVE  TypeOK' /\ OffsetsSound'
<1> USE DEF OffsetsSound
<1>1. CASE FindOpen
  <2>1. /\ UNCHANGED <<disk, root_offset, leaf_offset, stack, command, found, prev, split, sessions>>
        /\ pc = "call" /\ pc' = "find" /\ fds < MaxOpen /\ fds' = fds + 1
        /\ cur' = root_offset /\ root_offset # NoOffset
    BY <1>1, Zenon DEF FindOpen, globals
  <2>2. UNCHANGED <<nodes, op, key, next_parent>>
    BY <2>1 DEF disk, command, split
  <2>3. fds' \in 0..MaxOpen
    BY <2>1, BTreeAssumption DEF TypeOK
  <2>4. StackSound' /\ SearchSound'
    BY <2>1, <2>2, KeepNodes DEF StackSound, SearchSound, RootSound, EndsInRoot
  <2>q. QED
    BY <2>1, <2>2, <2>3, <2>4, ReadSound DEF TypeOK, RootSound, Alive
<1>2. CASE FindStep
  <2>1. UNCHANGED <<disk, root_offset, leaf_offset, stack, fds, command, prev, split, sessions>> /\ pc = "find"
    BY <1>2, Zenon DEF FindStep, globals
  <2>2. UNCHANGED <<nodes, op, key, next_parent>>
    BY <2>1 DEF disk, command, split
  <2>3. /\ found' \in BOOLEAN
        /\ \/ pc' = "answer" /\ cur' = cur
           \/ pc' = pc /\ CountAt(cur) # 0 /\ cur' # NoOffset
              /\ cur' = nodes[cur].kids[Position(nodes[cur], key)]
    <3>1. CASE CountAt(cur) = 0 /\ FindAnswer(FALSE)
      BY <3>1, Zenon DEF FindAnswer
    <3>2. CASE FindAnswer(TRUE)
      BY <3>2, Zenon DEF FindAnswer
    <3>3. CASE FindAnswer(FALSE)
      BY <3>3, Zenon DEF FindAnswer
    <3>4. CASE /\ CountAt(cur) # 0 /\ nodes[cur].kids[Position(nodes[cur], key)] # NoOffset
               /\ cur' = nodes[cur].kids[Position(nodes[cur], key)] /\ UNCHANGED <<pc, found>>
      BY <3>4, Zenon DEF TypeOK
    <3>q. QED
      BY <1>2, <3>1, <3>2, <3>3, <3>4, Zenon DEF FindStep
  <2>4. pc' = "find" => cur' \in Slots
    <3>1. SUFFICES ASSUME pc' = "find" PROVE cur' \in Slots
      OBVIOUS
    <3>2. cur \in Slots
      BY <2>1, <2>3, <3>1 DEF SearchSound, CountAt
    <3>q. QED
      BY <2>1, <2>3, <3>1, <3>2, ChildSound DEF Kid
  <2>5. StackSound' /\ SearchSound'
    BY <2>1, <2>2, <2>3, <2>4, KeepNodes DEF StackSound, SearchSound, EndsInRoot
  <2>6. cur' \in Int
    BY <2>1, <2>3, <2>4 DEF TypeOK, Slots
  <2>q. QED
    BY <2>1, <2>2, <2>3, <2>5, <2>6, ReadSound DEF TypeOK, RootSound, Alive
<1>3. CASE ParentsOpen
  <2>1. /\ UNCHANGED <<disk, root_offset, leaf_offset, stack, command, found, split, sessions>>
        /\ pc = "parents" /\ pc' = "descend" /\ fds < MaxOpen /\ fds' = fds + 1
        /\ cur' = root_offset /\ prev' = root_offset
    BY <1>3, Zenon DEF ParentsOpen, globals
  <2>2. UNCHANGED <<nodes, op, key, next_parent>>
    BY <2>1 DEF disk, command, split
  <2>3. fds' \in 0..MaxOpen
    BY <2>1, BTreeAssumption DEF TypeOK
  <2>4. StackSound' /\ SearchSound'
    BY <2>1, <2>2, KeepNodes DEF StackSound, SearchSound, RootSound, EndsInRoot
  <2>q. QED
    BY <2>1, <2>2, <2>3, <2>4, ReadSound DEF TypeOK, RootSound, Alive
<1>q. QED
  BY <1>1, <1>2, <1>3

LEMMA CommandsSound ==
  ASSUME TypeOK, OffsetsSound,
         (\E o \in {"add", "find"}, k \in CommandKeys : Command(o, k)) \/ print_tree \/ FindEmpty
           \/ StartAdd
  PROVE  TypeOK' /\ OffsetsSound'
<1> USE DEF OffsetsSound
<1>1. ASSUME NEW o \in {"add", "find"}, NEW k \in CommandKeys, Command(o, k)
      PROVE  TypeOK' /\ OffsetsSound'
  <2>1. /\ UNCHANGED <<disk, root_offset, leaf_offset, stack, fds, found, search, split, sessions>>
        /\ pc = "cmd" /\ pc' = "call" /\ op' = o /\ key' = k
    BY <1>1, Zenon DEF Command, globals
  <2>2. UNCHANGED <<nodes, cur, prev, next_parent>> /\ k \in Int
    BY <2>1, BTreeAssumption DEF disk, search, split
  <2>3. StackSound' /\ SearchSound'
    BY <2>1, <2>2, KeepNodes DEF StackSound, SearchSound
  <2>q. QED
    BY <2>1, <2>2, <2>3, ReadSound DEF TypeOK, RootSound, Alive
<1>2. CASE print_tree
  <2>1. /\ UNCHANGED <<disk, root_offset, leaf_offset, stack, pc, command, found, search, split, sessions>>
        /\ pc = "cmd" /\ fds < MaxOpen /\ fds' = fds + 1
    BY <1>2, Zenon DEF print_tree, globals
  <2>2. UNCHANGED <<nodes, op, key, cur, prev, next_parent>>
    BY <2>1 DEF disk, command, search, split
  <2>3. fds' \in 0..MaxOpen
    BY <2>1, BTreeAssumption DEF TypeOK
  <2>4. StackSound' /\ SearchSound'
    BY <2>1, <2>2, KeepNodes DEF StackSound, SearchSound
  <2>q. QED
    BY <2>1, <2>2, <2>3, <2>4, ReadSound DEF TypeOK, RootSound, Alive
<1>3. CASE FindEmpty
  <2>1. /\ UNCHANGED <<disk, root_offset, leaf_offset, stack, fds, command, search, split, sessions>>
        /\ pc = "call" /\ pc' = "answer" /\ found' \in BOOLEAN
    BY <1>3, Zenon DEF FindEmpty, globals
  <2>2. UNCHANGED <<nodes, op, key, cur, prev, next_parent>>
    BY <2>1 DEF disk, command, search, split
  <2>3. StackSound' /\ SearchSound'
    BY <2>1, <2>2, KeepNodes DEF StackSound, SearchSound
  <2>q. QED
    BY <2>1, <2>2, <2>3, ReadSound DEF TypeOK, RootSound, Alive
<1>4. CASE StartAdd
  <2>1. /\ UNCHANGED <<disk, root_offset, leaf_offset, fds, command, found, search, split, sessions>>
        /\ pc = "answer" /\ pc' = "parents" /\ stack' = <<>> /\ root_offset # NoOffset
    BY <1>4, Zenon DEF StartAdd
  <2>2. UNCHANGED <<nodes, op, key, cur, prev, next_parent>>
    BY <2>1 DEF disk, command, search, split
  <2>3. StackSound' /\ SearchSound'
    BY <2>1, <2>2, KeepNodes DEF StackSound, SearchSound
  <2>q. QED
    BY <2>1, <2>2, <2>3, ReadSound DEF TypeOK, RootSound, Alive
<1>q. QED
  BY <1>1, <1>2, <1>3, <1>4

\* The way down to the leaf: at the root the mark is pushed, so a stack is never without it.
LEMMA DescentSound ==
  ASSUME TypeOK, OffsetsSound, DescendNoKeys \/ Descend
  PROVE  TypeOK' /\ OffsetsSound'
<1> USE DEF OffsetsSound
<1>1. CASE DescendNoKeys
  <2>1. /\ UNCHANGED <<disk, root_offset, leaf_offset, stack, fds, command, found, search, split, sessions>>
        /\ pc = "descend" /\ pc' = "leaf" /\ CountAt(cur) = 0
    BY <1>1, Zenon DEF DescendNoKeys, globals
  <2>2. UNCHANGED <<nodes, op, key, cur, prev, next_parent>>
    BY <2>1 DEF disk, command, search, split
  <2>3. root_offset \notin Slots
    <3>1. SUFFICES ASSUME root_offset \in Slots PROVE FALSE
      OBVIOUS
    <3>2. cur \in Slots /\ cur # Header
      BY <2>1, <3>1, SlotsType DEF SearchSound, TypeOK
    <3>q. QED
      BY <2>1, <3>2 DEF CountAt, NodesSound
  <2>4. leaf_offset' \notin Slots'
    BY <2>1, <2>2, <2>3, KeepNodes, SlotsType DEF RootSound, TypeOK
  <2>5. StackSound' /\ SearchSound'
    BY <2>1, <2>2, <2>4, KeepNodes DEF StackSound, SearchSound
  <2>q. QED
    BY <2>1, <2>2, <2>5, ReadSound DEF TypeOK, RootSound, Alive
<1>2. CASE Descend
  <2> DEFINE x   == IF NodeNo(cur) = NodeNo(root_offset) THEN RootMark ELSE prev
             kid == nodes[cur].kids[Position(nodes[cur], key)]
  <2>1. /\ UNCHANGED <<disk, root_offset, fds, command, found, split, sessions>>
        /\ pc = "descend" /\ CountAt(cur) # 0 /\ stack' = <<x>> \o stack
        /\ \/ kid = NoOffset /\ leaf_offset' = cur /\ pc' = "leaf" /\ cur' = cur /\ prev' = prev
           \/ kid # NoOffset /\ prev' = cur /\ cur' = kid /\ leaf_offset' = leaf_offset /\ pc' = pc
    BY <1>2, Zenon DEF Descend, push
  <2>2. UNCHANGED <<nodes, op, key, next_parent>>
    BY <2>1 DEF disk, command, split
  <2>3. root_offset \in Slots /\ cur \in Slots /\ prev \in Slots
    BY <2>1 DEF SearchSound, CountAt
  <2>4. x \in Slots \cup {RootMark} /\ (stack = <<>> => x = RootMark)
    BY <2>1, <2>3 DEF StackSound
  <2>5. Kid(kid)
    BY <2>3, ChildSound
  <2> HIDE DEF x, kid
  <2>6. stack \in Seq(Int) /\ x \in Int
    BY <2>4 DEF TypeOK, Slots, RootMark
  <2>7. /\ stack' \in Seq(Int) /\ Len(stack') = Len(stack) + 1
        /\ stack'[1] = x /\ \A i \in 1..Len(stack) : stack'[i + 1] = stack[i]
    BY <2>1, <2>6
  <2>8. \A i \in DOMAIN stack' : stack'[i] \in Slots \cup {RootMark}
    <3>1. SUFFICES ASSUME NEW i \in 1..Len(stack'), i # 1 PROVE stack'[i] \in Slots \cup {RootMark}
      BY <2>4, <2>7
    <3>2. PICK j \in 1..Len(stack) : i = j + 1
      <4>1. i - 1 \in 1..Len(stack) /\ i = (i - 1) + 1
        BY <2>6, <2>7, <3>1
      <4>q. QED
        BY <4>1
    <3>3. stack'[i] = stack[j]
      BY <2>7, <3>2
    <3>q. QED
      BY <2>6, <3>3 DEF StackSound
  <2>9. stack' # <<>> /\ stack'[Len(stack')] = RootMark
    <3>1. CASE stack = <<>>
      BY <2>4, <2>7, <3>1
    <3>2. CASE stack # <<>>
      BY <2>1, <2>6, <2>7, <3>2 DEF StackSound, EndsInRoot
    <3>q. QED
      BY <3>1, <3>2
  <2>10. StackSound'
    BY <2>1, <2>2, <2>3, <2>8, <2>9, KeepNodes DEF StackSound, EndsInRoot
  <2>11. SearchSound'
    BY <2>1, <2>2, <2>3, <2>5, KeepNodes DEF SearchSound, Kid
  <2>12. cur' \in Int /\ prev' \in Int /\ leaf_offset' \in Slots \cup {Header}
    BY <2>1, <2>3, <2>5 DEF Kid, Slots, TypeOK, RootSound
  <2>q. QED
    BY <2>1, <2>2, <2>3, <2>7, <2>10, <2>11, <2>12, ReadSound DEF TypeOK, Alive
<1>q. QED
  BY <1>1, <1>2

\* The writes that end a command.
LEMMA LastWritesSound ==
  ASSUME TypeOK, OffsetsSound, Answer \/ insert_in_node \/ AddRoot \/ NewRoot
  PROVE  TypeOK' /\ OffsetsSound'
<1> USE DEF OffsetsSound
<1>s. Slots \subseteq Int /\ Filler \notin Slots /\ Slots \cup {NoOffset} \subseteq Int
  BY SlotsType DEF TypeOK, Filler, NoOffset
<1>1. CASE Answer \/ insert_in_node
  <2>1. Return /\ UNCHANGED <<disk, root_offset, leaf_offset, stack, fds, sessions>>
    BY <1>1, Zenon DEF Answer, insert_in_node, globals
  <2>2. UNCHANGED <<exists, header, nodes>>
    BY <2>1 DEF disk
  <2>3. Slots' = Slots /\ NodesSound'
    BY <2>2, KeepNodes
  <2>q. QED
    BY <2>1, <2>2, <2>3, ReturnSound DEF TypeOK
<1>2. CASE AddRoot
  <2>1. /\ Return /\ UNCHANGED <<exists, header, leaf_offset, stack, fds, sessions>>
        /\ root_offset' = 1 /\ root_offset = NoOffset /\ write_node(RootOf(key))
    BY <1>2, Zenon DEF AddRoot, write_node
  <2>2. nodes' = <<RootOf(key)>> \o SubSeq(nodes, 2, Len(nodes))
    BY <2>1 DEF write_node
  <2>3. /\ RootOf(key) \in Node /\ RootOf(key).n = 1
        /\ \A i \in 1..Order : RootOf(key).kids[i] \in Slots \cup {NoOffset}
    <3>1. key \in Int /\ Filler \in Slots \cup {NoOffset}
      BY DEF TypeOK, Filler, NoOffset
    <3>q. QED
      BY <1>s, <3>1, RootsType
  <2>4. nodes' \in Seq(Node) /\ Slots \subseteq Slots' /\ 1 \in Slots' /\ NodesSound'
    <3>1. \A i \in 1..Order : Kid(RootOf(key).kids[i])
      BY <2>3 DEF Kid
    <3>2. nodes \in Seq(Node) /\ RootOf(key).n >= 1
      BY <2>3 DEF TypeOK
    <3>q. QED
      BY <2>2, <2>3, <3>1, <3>2, WriteFirst
  <2>q. QED
    BY <2>1, <2>4, ReturnSound
<1>3. CASE NewRoot
  <2> DEFINE nd == NewRootOf(SplitValue(aux), root_offset, right_offset)
  <2>1. /\ Return /\ UNCHANGED <<exists, header, leaf_offset, stack, fds, sessions>>
        /\ root_offset' = Len(nodes) + 1 /\ nodes' = Append(nodes, nd) /\ pc = "newroot"
    BY <1>3, Zenon DEF NewRoot
  <2>2. SplitValue(aux) \in Int
    <3>1. SplitIndex + 1 \in 1..Order
      BY OrderAssumption DEF SplitIndex
    <3>q. QED
      BY <3>1 DEF SplitValue, TypeOK, AuxNode
  <2>3. root_offset \in Slots \cup {NoOffset} /\ right_offset \in Slots \cup {NoOffset}
    BY <2>1 DEF StackSound, SplitSound
  <2>4. nd \in Node /\ nd.n = 1 /\ \A i \in 1..Order : nd.kids[i] \in Slots \cup {NoOffset}
    <3> DEFINE S == Slots \cup {NoOffset}
    <3>1. S \subseteq Int /\ Filler \in S /\ root_offset \in S /\ right_offset \in S
      BY <1>s, <2>3 DEF Filler, NoOffset
    <3> HIDE DEF S
    <3>2. nd \in Node /\ nd.n = 1 /\ \A i \in 1..Order : nd.kids[i] \in S
      BY <2>2, <3>1, RootsType
    <3>q. QED
      BY <3>2 DEF S
  <2> HIDE DEF nd
  <2>5. nodes' \in Seq(Node) /\ Slots \subseteq Slots' /\ Len(nodes) + 1 \in Slots' /\ NodesSound'
    BY <2>1, <2>4, WriteEnd DEF TypeOK, Kid
  <2>q. QED
    BY <2>1, <2>5, ReturnSound
<1>q. QED
  BY <1>1, <1>2, <1>3

\* The start and the ends of a process.
LEMMA SessionsSound ==
  ASSUME TypeOK, OffsetsSound, Open \/ OpenFails \/ End \/ Eof \/ Kill
  PROVE  TypeOK' /\ OffsetsSound'
<1> USE DEF OffsetsSound
<1>h. header \in Slots \cup {NoOffset, Header} /\ root_offset \in Slots \cup {NoOffset, Header}
  BY DEF RootSound
<1>1. CASE Open
  <2>1. /\ UNCHANGED <<header, nodes, leaf_offset, stack, locals>>
        /\ ~Alive /\ pc' = "cmd" /\ fds' = 1 /\ exists' \in BOOLEAN
        /\ sessions < MaxSessions /\ sessions' = sessions + 1
        /\ root_offset' = header \/ root_offset' = NoOffset
    BY <1>1, Zenon DEF Open
  <2>2. UNCHANGED <<op, key, found, cur, prev, aux, node_offset, next_parent, right_offset>>
    BY <2>1, Zenon DEF locals, command, search, split
  <2>3. Slots' = Slots /\ NodesSound'
    BY <2>1, KeepNodes
  <2>4. root_offset' \in Slots \cup {NoOffset, Header} /\ root_offset' \in Int
    BY <1>h, <2>1 DEF Slots, NoOffset, Header
  <2>5. leaf_offset = Header
    BY <2>1, SlotsType DEF RootSound, TypeOK
  <2>6. fds' \in 0..MaxOpen /\ sessions' \in 0..MaxSessions
    BY <2>1, BTreeAssumption DEF TypeOK
  <2>7. TypeOK'
    BY <2>1, <2>2, <2>4, <2>6 DEF TypeOK
  <2>8. RootSound'
    BY <2>1, <2>3, <2>4, <2>5 DEF RootSound, Alive
  <2>9. StackSound' /\ SearchSound' /\ SplitSound'
    BY <2>1, <2>3 DEF StackSound, SearchSound, SplitSound
  <2>q. QED
    BY <2>3, <2>7, <2>8, <2>9
<1>2. CASE OpenFails \/ Eof \/ Kill
  <2>1. /\ \E how \in {"exited", "died", "killed"} : Exit(how)
        /\ UNCHANGED <<disk, sessions>>
    BY <1>2, Zenon DEF OpenFails, Eof, Kill
  <2>2. UNCHANGED <<exists, header, nodes, sessions>>
    BY <2>1 DEF disk
  <2>3. nodes' \in Seq(Node) /\ Slots' = Slots /\ NodesSound'
    BY <2>2, KeepNodes DEF TypeOK
  <2>q. QED
    BY <1>h, <2>1, <2>2, <2>3, ExitSound
<1>3. CASE End
  <2>1. Exit("exited") /\ header' = root_offset /\ UNCHANGED <<exists, nodes, sessions>>
    BY <1>3, Zenon DEF End
  <2>2. nodes' \in Seq(Node) /\ Slots' = Slots /\ NodesSound'
    BY <2>1, KeepNodes DEF TypeOK
  <2>q. QED
    BY <1>h, <2>1, <2>2, ExitSound
<1>q. QED
  BY <1>1, <1>2, <1>3

\* The two writes of a split, and what comes before and between them.
LEMMA SplitStartSound ==
  ASSUME TypeOK, OffsetsSound, add_key_to_tree
  PROVE  TypeOK' /\ OffsetsSound'
<1> USE DEF OffsetsSound
<1>1. /\ pc = "leaf" /\ pc' = "split" /\ CountAt(leaf_offset) = Order - 1
      /\ aux' = WithKey(nodes[leaf_offset], key) /\ node_offset' = leaf_offset
      /\ UNCHANGED <<disk, globals, fds, command, found, search, next_parent, right_offset, sessions>>
  BY Zenon DEF add_key_to_tree
<1>2. UNCHANGED <<exists, header, nodes, root_offset, leaf_offset, stack, op, key, cur, prev>>
  BY <1>1, Zenon DEF disk, globals, command, search
<1>3. leaf_offset \in Slots
  BY <1>1, OrderAssumption DEF CountAt, RootSound
<1>4. /\ nodes[leaf_offset] \in Node /\ nodes[leaf_offset].n = Order - 1 /\ key \in Int
      /\ \A i \in 1..Order : nodes[leaf_offset].kids[i] \in Slots \cup {NoOffset}
      /\ root_offset \in Slots
  BY <1>1, <1>3, SlotsType DEF TypeOK, CountAt, NodesSound, Kid, RootSound
<1> DEFINE S == Slots \cup {NoOffset}
<1>5. S \subseteq Int /\ Filler \in S /\ \A i \in 1..Order : nodes[leaf_offset].kids[i] \in S
  BY <1>4, SlotsType DEF Filler, NoOffset, TypeOK
<1> HIDE DEF S
<1>6. aux' \in AuxNode /\ aux'.n = nodes[leaf_offset].n + 1 /\ \A i \in 1..(Order + 1) : aux'.kids[i] \in S
  BY <1>1, <1>4, <1>5, WithKeyType
<1>7. aux' \in AuxNode /\ aux'.n = Order /\ \A i \in 1..(Order + 1) : Kid(aux'.kids[i])
  BY <1>4, <1>6, OrderAssumption DEF S, Kid
<1>8. Slots' = Slots /\ NodesSound'
  BY <1>2, KeepNodes
<1>9. node_offset' \in Int
  BY <1>1 DEF TypeOK
<1>10. TypeOK'
  BY <1>1, <1>2, <1>7, <1>9 DEF TypeOK
<1>11. RootSound' /\ SearchSound'
  BY <1>1, <1>2, <1>8 DEF RootSound, SearchSound, Alive
<1>12. StackSound'
  BY <1>1, <1>2, <1>3, <1>4, <1>8 DEF StackSound, EndsInRoot
<1>13. SplitSound'
  BY <1>1, <1>3, <1>7, <1>8 DEF SplitSound, Kid
<1>q. QED
  BY <1>8, <1>10, <1>11, <1>12, <1>13

LEMMA LeftHalfSound ==
  ASSUME Order >= 3, TypeOK, OffsetsSound, pc = "split"
  PROVE  /\ LeftOffset \in Slots /\ LeftOf(aux) \in Node /\ LeftOf(aux).n >= 1
         /\ \A i \in 1..Order : Kid(LeftOf(aux).kids[i])
<1> USE DEF OffsetsSound
<1>1. root_offset \in Slots /\ node_offset \in Slots
  BY DEF StackSound, SplitSound
<1>2. LeftOffset \in Slots
  BY <1>1 DEF LeftOffset
<1> DEFINE S == Slots \cup {NoOffset}
<1>3. aux \in AuxNode /\ S \subseteq Int /\ Filler \in S /\ \A i \in 1..(Order + 1) : aux.kids[i] \in S
  BY SlotsType DEF SplitSound, Kid, TypeOK, Filler, NoOffset
<1> HIDE DEF S
<1>4. LeftOf(aux) \in Node /\ LeftOf(aux).n >= 1 /\ \A i \in 1..Order : LeftOf(aux).kids[i] \in S
  BY <1>3, HalvesType
<1>5. \A i \in 1..Order : Kid(LeftOf(aux).kids[i])
  BY <1>4 DEF S, Kid
<1>q. QED
  BY <1>2, <1>4, <1>5

LEMMA SplitLeftSound ==
  ASSUME Order >= 3, TypeOK, OffsetsSound, SplitLeft
  PROVE  TypeOK' /\ OffsetsSound'
<1> USE DEF OffsetsSound
<1>1. /\ pc = "split" /\ pc' = "right" /\ pop /\ nodes' = [nodes EXCEPT ![LeftOffset] = LeftOf(aux)]
      /\ UNCHANGED <<exists, header, root_offset, leaf_offset, fds, command, found, search, aux,
                     node_offset, right_offset, sessions>>
  BY Zenon DEF SplitLeft, write_node_at_offset
<1>2. UNCHANGED <<op, key, cur, prev>>
  BY <1>1, Zenon DEF command, search
<1>3. EndsInRoot /\ stack \in Seq(Int) /\ root_offset \in Slots /\ node_offset \in Slots
  BY <1>1 DEF StackSound, SplitSound, TypeOK
<1>4. next_parent' = Head(stack) /\ stack' = Tail(stack)
  BY <1>1, <1>3 DEF pop, EndsInRoot
<1>5. /\ next_parent' = stack[1] /\ stack' \in Seq(Int) /\ Len(stack') = Len(stack) - 1
      /\ Len(stack) \in Nat \ {0}
      /\ \A i \in 1..(Len(stack) - 1) : stack'[i] = stack[i + 1]
  BY <1>3, <1>4 DEF EndsInRoot
<1>6. next_parent' \in Slots \cup {RootMark} /\ next_parent' \in Int
  <2>1. 1 \in DOMAIN stack
    BY <1>3, <1>5
  <2>q. QED
    BY <1>5, <2>1 DEF StackSound, Slots, RootMark
<1>7. \A i \in DOMAIN stack' : stack'[i] \in Slots \cup {RootMark}
  <2>1. SUFFICES ASSUME NEW i \in 1..(Len(stack) - 1) PROVE stack'[i] \in Slots \cup {RootMark}
    BY <1>5
  <2>2. i + 1 \in DOMAIN stack /\ stack'[i] = stack[i + 1]
    BY <1>3, <1>5
  <2>q. QED
    BY <2>2 DEF StackSound
<1>8. next_parent' = RootMark \/ EndsInRoot'
  <2>1. CASE Len(stack) = 1
    BY <1>3, <1>5, <2>1 DEF EndsInRoot
  <2>2. CASE Len(stack) # 1
    <3>1. Len(stack) - 1 \in 1..(Len(stack) - 1) /\ (Len(stack) - 1) + 1 = Len(stack)
      BY <1>5, <2>2
    <3>2. stack'[Len(stack) - 1] = stack[Len(stack)]
      BY <1>5, <3>1
    <3>q. QED
      BY <1>3, <1>5, <3>1, <3>2 DEF EndsInRoot
  <2>q. QED
    BY <2>1, <2>2
<1>9. nodes \in Seq(Node)
  BY DEF TypeOK
<1>13. nodes' \in Seq(Node) /\ Slots' = Slots /\ NodesSound'
  BY <1>1, <1>9, LeftHalfSound, WriteAt
<1>14. TypeOK'
  BY <1>1, <1>2, <1>5, <1>6, <1>13 DEF TypeOK
<1>15. RootSound' /\ SearchSound'
  BY <1>1, <1>2, <1>13 DEF RootSound, SearchSound, Alive
<1>16. StackSound'
  BY <1>1, <1>3, <1>7, <1>8, <1>13 DEF StackSound
<1>17. SplitSound'
  BY <1>1, <1>6, <1>13 DEF SplitSound, Kid
<1>q. QED
  BY <1>13, <1>14, <1>15, <1>16, <1>17

LEMMA SplitRightSound ==
  ASSUME Order >= 3, TypeOK, OffsetsSound, SplitRight
  PROVE  TypeOK' /\ OffsetsSound'
<1> USE DEF OffsetsSound
<1>1. /\ pc = "right" /\ right_offset' = Len(nodes) + 1 /\ write_node(RightOf(aux))
      /\ pc' = (IF next_parent # RootMark THEN "link" ELSE "newroot")
      /\ UNCHANGED <<globals, fds, command, found, search, aux, node_offset, next_parent, sessions>>
  BY Zenon DEF SplitRight
<1>2. UNCHANGED <<root_offset, leaf_offset, stack, op, key, cur, prev>>
  BY <1>1, Zenon DEF globals, command, search
<1>3. root_offset \in Slots /\ root_offset # NoOffset /\ nodes \in Seq(Node)
  BY <1>1, SlotsType DEF StackSound, TypeOK
<1>4. nodes' = Append(nodes, RightOf(aux)) /\ UNCHANGED <<exists, header>>
  BY <1>1, <1>3 DEF write_node
<1> DEFINE S == Slots \cup {NoOffset}
<1>5. aux \in AuxNode /\ S \subseteq Int /\ Filler \in S /\ \A i \in 1..(Order + 1) : aux.kids[i] \in S
  BY <1>1, SlotsType DEF SplitSound, Kid, TypeOK, Filler, NoOffset
<1> HIDE DEF S
<1>6. RightOf(aux) \in Node /\ RightOf(aux).n >= 1 /\ \A i \in 1..Order : RightOf(aux).kids[i] \in S
  BY <1>5, HalvesType
<1>7. \A i \in 1..Order : Kid(RightOf(aux).kids[i])
  BY <1>6 DEF S, Kid
<1>8. nodes' \in Seq(Node) /\ Slots \subseteq Slots' /\ Len(nodes) + 1 \in Slots' /\ NodesSound'
  BY <1>3, <1>4, <1>6, <1>7, WriteEnd
<1>9. right_offset' \in Slots' /\ right_offset' \in Int
  BY <1>1, <1>3, <1>8
<1>10. pc' \in {"link", "newroot"} /\ (pc' = "link" => next_parent # RootMark)
  BY <1>1
<1>11. TypeOK'
  BY <1>1, <1>2, <1>4, <1>8, <1>9, <1>10 DEF TypeOK
<1>12. RootSound' /\ SearchSound'
  BY <1>1, <1>2, <1>3, <1>4, <1>8, <1>10 DEF RootSound, SearchSound, Alive
<1>13. StackSound'
  BY <1>1, <1>2, <1>8, <1>10 DEF StackSound, EndsInRoot
<1>14. SplitSound'
  BY <1>1, <1>8, <1>9, <1>10 DEF SplitSound, Kid
<1>q. QED
  BY <1>8, <1>11, <1>12, <1>13, <1>14

\* The parent of a split node takes the right half, or is split in its turn.
LEMMA ParentSound ==
  ASSUME TypeOK, OffsetsSound, pc = "link"
  PROVE  /\ Parent \in AuxNode /\ Parent.n >= 1 /\ \A i \in 1..(Order + 1) : Kid(Parent.kids[i])
         /\ next_parent \in Slots /\ EndsInRoot /\ root_offset \in Slots
<1> USE DEF OffsetsSound
<1> DEFINE S == Slots \cup {NoOffset}
<1>3. /\ next_parent \in Slots /\ nodes[next_parent] \in Node /\ right_offset \in Slots
      /\ \A i \in 1..Order : Kid(nodes[next_parent].kids[i])
      /\ nodes[next_parent].n >= 1 /\ EndsInRoot /\ root_offset \in Slots
  BY SlotsType DEF SplitSound, NodesSound, StackSound, TypeOK
<1>4. SplitValue(aux) \in Int
  <2>1. SplitIndex + 1 \in 1..Order
    BY OrderAssumption DEF SplitIndex
  <2>q. QED
    BY <2>1 DEF SplitValue, TypeOK, AuxNode
<1>5. /\ S \subseteq Int /\ Filler \in S /\ right_offset \in S
      /\ \A i \in 1..Order : nodes[next_parent].kids[i] \in S
  BY <1>3, SlotsType DEF Kid, Filler, NoOffset, TypeOK
<1> HIDE DEF S
<1>6. /\ Parent \in AuxNode /\ Parent.n = nodes[next_parent].n + 1
      /\ \A i \in 1..(Order + 1) : Parent.kids[i] \in S
  BY <1>3, <1>4, <1>5, WithSplitType DEF Parent
<1>7. \A i \in 1..(Order + 1) : Kid(Parent.kids[i])
  BY <1>6 DEF S, Kid
<1>8. nodes[next_parent].n \in Nat
  BY <1>3, OrderAssumption DEF Node
<1>q. QED
  BY <1>3, <1>6, <1>7, <1>8

LEMMA NarrowedType ==
  ASSUME NEW a \in AuxNode, a.n >= 1, a.n <= Order - 1, \A i \in 1..(Order + 1) : Kid(a.kids[i])
  PROVE  /\ Narrowed(a) \in Node /\ Narrowed(a).n >= 1
         /\ \A i \in 1..Order : Kid(Narrowed(a).kids[i])
<1>1. Order \in Nat /\ Order >= 2
  BY OrderAssumption
<1>2. a.n \in 0..Order /\ a.keys \in [1..Order -> Int] /\ a.kids \in [1..(Order + 1) -> Int]
  BY <1>1 DEF AuxNode, Children
<1>3. [i \in 1..(Order - 1) |-> a.keys[i]] \in [1..(Order - 1) -> Int]
  BY <1>1, <1>2
<1>4. [i \in 1..Order |-> a.kids[i]] \in [1..Order -> Int]
  BY <1>1, <1>2
<1>5. a.n \in 0..(Order - 1)
  BY <1>1, <1>2
<1>6. \A i \in 1..Order : Kid([j \in 1..Order |-> a.kids[j]][i])
  BY <1>1
<1>q. QED
  BY <1>3, <1>4, <1>5, <1>6 DEF Narrowed, Node, Children

LEMMA LinkParentSound ==
  ASSUME TypeOK, OffsetsSound, LinkParent
  PROVE  TypeOK' /\ OffsetsSound'
<1> USE DEF OffsetsSound
<1>1. pc = "link" /\ UNCHANGED <<root_offset, leaf_offset, stack, fds, sessions>>
  BY Zenon DEF LinkParent, globals
<1>2. \/ /\ Parent.n <= Order - 1 /\ Return
         /\ nodes' = [nodes EXCEPT ![next_parent] = Narrowed(Parent)] /\ UNCHANGED <<exists, header>>
      \/ /\ Parent.n = Order /\ aux' = Parent /\ node_offset' = next_parent /\ pc' = "split"
         /\ UNCHANGED <<disk, command, found, search, next_parent, right_offset>>
  BY Zenon DEF LinkParent, write_node_at_offset
<1>3. /\ Parent \in AuxNode /\ Parent.n >= 1 /\ \A i \in 1..(Order + 1) : Kid(Parent.kids[i])
      /\ next_parent \in Slots /\ EndsInRoot /\ root_offset \in Slots /\ nodes \in Seq(Node)
  BY <1>1, ParentSound DEF TypeOK
<1> HIDE DEF Parent
<1>8. CASE /\ Parent.n <= Order - 1 /\ Return
           /\ nodes' = [nodes EXCEPT ![next_parent] = Narrowed(Parent)] /\ UNCHANGED <<exists, header>>
  <2>1. nodes' \in Seq(Node) /\ Slots' = Slots /\ NodesSound'
    BY <1>3, <1>8, NarrowedType, WriteAt
  <2>q. QED
    BY <1>1, <1>8, <2>1, ReturnSound
<1>9. CASE /\ Parent.n = Order /\ aux' = Parent /\ node_offset' = next_parent /\ pc' = "split"
           /\ UNCHANGED <<disk, command, found, search, next_parent, right_offset>>
  <2>1. UNCHANGED <<exists, header, nodes, op, key, cur, prev>>
    BY <1>9, Zenon DEF disk, command, search
  <2>2. Slots' = Slots /\ NodesSound'
    BY <2>1, KeepNodes
  <2>3. TypeOK'
    BY <1>1, <1>3, <1>9, <2>1 DEF TypeOK, Slots
  <2>4. RootSound' /\ SearchSound'
    BY <1>1, <1>9, <2>1, <2>2 DEF RootSound, SearchSound, Alive
  <2>5. StackSound'
    BY <1>1, <1>3, <1>9, <2>2 DEF StackSound, EndsInRoot
  <2>6. SplitSound'
    BY <1>3, <1>9, <2>2 DEF SplitSound, Kid
  <2>q. QED
    BY <2>2, <2>3, <2>4, <2>5, <2>6
<1>q. QED
  BY <1>2, <1>8, <1>9
-----------------------------------------------------------------------------
(* Writes cut short *)

\* Wherever a write over a node is cut, each child offset is one the old or the new node had.
LEMMA TornType ==
  ASSUME NEW old \in Node, NEW new \in Node, new.n >= 1, NEW c \in Int,
         \A i \in 1..Order : Kid(old.kids[i]) /\ Kid(new.kids[i])
  PROVE  /\ Torn(old, new, c) \in Node /\ Torn(old, new, c).n >= 1
         /\ \A i \in 1..Order : Kid(Torn(old, new, c).kids[i])
<1> DEFINE ks == [i \in 1..(Order - 1) |-> IF i < c THEN new.keys[i] ELSE old.keys[i]]
           cs == [i \in 1..Order |-> IF Order + 2 * i <= c THEN new.kids[i] ELSE old.kids[i]]
<1>1. ks \in [1..(Order - 1) -> Int] /\ cs \in [1..Order -> Int]
  BY DEF Node, Children
<1>2. \A i \in 1..Order : Kid(cs[i])
  OBVIOUS
<1> HIDE DEF ks, cs
<1>3. Torn(old, new, c) = [n |-> new.n, keys |-> ks, kids |-> cs]
  BY DEF Torn, ks, cs
<1>q. QED
  BY <1>1, <1>2, <1>3 DEF Node, Children

\* A tree's first root has no children.
LEMMA FirstRoot ==
  ASSUME NEW k \in Int
  PROVE  RootOf(k) \in Node /\ RootOf(k).n >= 1 /\ \A i \in 1..Order : RootOf(k).kids[i] = NoOffset
<1>1. RootOf(k) \in Node /\ RootOf(k).n = 1
  <2>1. Int \subseteq Int /\ Filler \in Int
    BY DEF Filler
  <2>q. QED
    BY <2>1, RootsType
<1>2. \A i \in 1..Order : RootOf(k).kids[i] = NoOffset
  BY DEF RootOf, Filler, NoOffset
<1>q. QED
  BY <1>1, <1>2

LEMMA KillInWriteSound ==
  ASSUME Order >= 3, TypeOK, OffsetsSound, NEW c \in Cuts, KillInWrite(c)
  PROVE  TypeOK' /\ OffsetsSound'
<1> USE DEF OffsetsSound
<1>1. /\ Exit("killed") /\ UNCHANGED <<exists, header, sessions>>
      /\ \/ /\ nodes # <<>>
            /\ nodes' = [nodes EXCEPT ![1] = Torn(nodes[1], RootOf(key), c)]
         \/ /\ pc = "split"
            /\ nodes' = [nodes EXCEPT ![LeftOffset] = Torn(nodes[LeftOffset], LeftOf(aux), c)]
         \/ /\ pc = "link" /\ Parent.n <= Order - 1
            /\ nodes' = [nodes EXCEPT ![next_parent] = Torn(nodes[next_parent], Narrowed(Parent), c)]
  BY Zenon DEF KillInWrite, write_node_at_offset
<1>2. nodes \in Seq(Node) /\ header \in Slots \cup {NoOffset, Header} /\ c \in Int
  BY BTreeAssumption DEF TypeOK, RootSound
<1>3. PICK o \in Slots, nd \in Node :
        /\ nd.n >= 1 /\ \A i \in 1..Order : Kid(nd.kids[i])
        /\ nodes' = [nodes EXCEPT ![o] = Torn(nodes[o], nd, c)]
  <2>1. CASE pc = "split" /\ nodes' = [nodes EXCEPT ![LeftOffset] = Torn(nodes[LeftOffset], LeftOf(aux), c)]
    BY <2>1, LeftHalfSound
  <2>2. CASE /\ pc = "link" /\ Parent.n <= Order - 1
             /\ nodes' = [nodes EXCEPT ![next_parent] = Torn(nodes[next_parent], Narrowed(Parent), c)]
    <3>1. /\ Narrowed(Parent) \in Node /\ Narrowed(Parent).n >= 1
          /\ \A i \in 1..Order : Kid(Narrowed(Parent).kids[i])
          /\ next_parent \in Slots
          /\ nodes' = [nodes EXCEPT ![next_parent] = Torn(nodes[next_parent], Narrowed(Parent), c)]
      BY <2>2, ParentSound, NarrowedType
    <3>q. QED
      BY <3>1
  <2>3. CASE nodes # <<>> /\ nodes' = [nodes EXCEPT ![1] = Torn(nodes[1], RootOf(key), c)]
    <3>1. 1 \in Slots /\ key \in Int
      BY <1>2, <2>3 DEF Slots, TypeOK
    <3>q. QED
      BY <2>3, <3>1, FirstRoot DEF Kid
  <2>q. QED
    BY <1>1, <2>1, <2>2, <2>3
<1>4. nodes[o] \in Node /\ \A i \in 1..Order : Kid(nodes[o].kids[i])
  BY <1>2, <1>3 DEF Slots, NodesSound
<1>5. /\ Torn(nodes[o], nd, c) \in Node /\ Torn(nodes[o], nd, c).n >= 1
      /\ \A i \in 1..Order : Kid(Torn(nodes[o], nd, c).kids[i])
  BY <1>2, <1>3, <1>4, TornType
<1>6. nodes' \in Seq(Node) /\ Slots' = Slots /\ NodesSound'
  BY <1>2, <1>3, <1>5, WriteAt
<1>q. QED
  BY <1>1, <1>2, <1>6, ExitSound
-----------------------------------------------------------------------------
LEMMA StepSound ==
  ASSUME Order >= 3, TypeOK, OffsetsSound, [Next]_vars
  PROVE  TypeOK' /\ OffsetsSound'
<1>1. CASE UNCHANGED vars
  <2>1. /\ UNCHANGED <<exists, header, nodes, root_offset, leaf_offset, stack, fds, pc, op, key, found>>
        /\ UNCHANGED <<cur, prev, aux, node_offset, next_parent, right_offset, sessions>>
    BY <1>1, Zenon DEF vars, disk, globals, command, search, split
  <2>2. TypeOK'
    BY <2>1 DEF TypeOK
  <2>3. NodesSound' /\ RootSound' /\ Slots' = Slots
    BY <2>1, KeepNodes DEF OffsetsSound, RootSound, Alive
  <2>4. StackSound' /\ SearchSound' /\ SplitSound'
    BY <2>1, <2>3 DEF OffsetsSound, StackSound, SearchSound, SplitSound, EndsInRoot, Kid
  <2>q. QED
    BY <2>2, <2>3, <2>4 DEF OffsetsSound
<1>2. CASE Next
  <2>1. CASE Open \/ OpenFails \/ End \/ Eof \/ Kill
    BY <2>1, SessionsSound
  <2>2. CASE (\E o \in {"add", "find"}, k \in CommandKeys : Command(o, k)) \/ print_tree
             \/ FindEmpty \/ StartAdd
    BY <2>2, CommandsSound
  <2>3. CASE FindOpen \/ FindStep \/ ParentsOpen
    BY <2>3, SearchesSound
  <2>4. CASE DescendNoKeys \/ Descend
    BY <2>4, DescentSound
  <2>5. CASE Answer \/ insert_in_node \/ AddRoot \/ NewRoot
    BY <2>5, LastWritesSound
  <2>6. CASE add_key_to_tree
    BY <2>6, SplitStartSound
  <2>7. CASE SplitLeft
    BY <2>7, SplitLeftSound
  <2>8. CASE SplitRight
    BY <2>8, SplitRightSound
  <2>9. CASE LinkParent
    BY <2>9, LinkParentSound
  <2>10. CASE \E c \in Cuts : KillInWrite(c)
    BY <2>10, KillInWriteSound
  <2>q. QED
    BY <1>2, <2>1, <2>2, <2>3, <2>4, <2>5, <2>6, <2>7, <2>8, <2>9, <2>10, Zenon DEF Next, Serve
<1>q. QED
  BY <1>1, <1>2

\* With an order of at least 3, and from any file whose offsets are sound, the program follows
\* no offset but a node's and that of a header never written, never writes over the header as if
\* it were a node, never leaves a node without keys and never pops an empty stack
\* (find_key_in_btree, populate_parents, add_with_split), wherever it is killed, in a write or
\* between two, and however often it is started.
THEOREM OffsetsAlways ==
  ASSUME Order >= 3
  PROVE  Spec => [](TypeOK /\ OffsetsSound)
<1>1. Init => TypeOK /\ OffsetsSound
  BY InitSound
<1>2. TypeOK /\ OffsetsSound /\ [Next]_vars => TypeOK' /\ OffsetsSound'
  BY StepSound
<1>q. QED
  BY <1>1, <1>2, PTL DEF Spec

\* Under the same conditions every variable keeps its type: no field of a node and no key is read
\* at a position a node has not got, no more files are open than may be.
THEOREM TypesAlways ==
  ASSUME Order >= 3
  PROVE  Spec => []TypeOK
<1>1. Spec => [](TypeOK /\ OffsetsSound)
  BY OffsetsAlways
<1>q. QED
  BY <1>1, PTL
-----------------------------------------------------------------------------
(* Grades *)

\* The child offsets a node with the grade of o may have.
Lower(r, o) == {NoOffset} \cup {s \in DOMAIN r : r[s] < r[o]}

\* r grades the nodes ns.
Grades(r, ns) ==
  /\ r \in [DOMAIN ns -> Nat]
  /\ \A s \in DOMAIN ns : \A i \in 1..Order : ns[s].kids[i] \in Lower(r, s)

\* A stack entry p over a node o, and a whole stack over it.
Over(r, root, p, o) == IF p = RootMark THEN o = root ELSE p \in DOMAIN r /\ r[o] < r[p]
Climbs(r, root, st, o) ==
  /\ st # <<>> /\ o \in DOMAIN r /\ Over(r, root, st[1], o)
  /\ \A i \in 2..Len(st) : st[i - 1] \in DOMAIN r /\ Over(r, root, st[i], st[i - 1])

\* Where the process is, and what it is about to write.
DescentGraded(r) ==
  root_offset \in Slots =>
    /\ pc = "descend" =>
         IF stack = <<>> THEN cur = root_offset
         ELSE /\ Climbs(r, root_offset, stack, prev)
              /\ cur \in Slots /\ r[cur] < r[prev] /\ r[cur] < r[root_offset]
    /\ pc = "leaf" => Climbs(r, root_offset, stack, leaf_offset)
SplitGraded(r) ==
  /\ pc \in {"split", "right", "link", "newroot"} =>
       \A i \in 1..(Order + 1) : aux.kids[i] \in Lower(r, node_offset)
  /\ pc = "split" => Climbs(r, root_offset, stack, node_offset)
  /\ pc \in {"right", "link", "newroot"} =>
       /\ node_offset \in Slots /\ Over(r, root_offset, next_parent, node_offset)
       /\ next_parent # RootMark => Climbs(r, root_offset, stack, next_parent)
  /\ pc \in {"link", "newroot"} => r[right_offset] <= r[node_offset]
  /\ pc = "newroot" => next_parent = RootMark

Graded(r) == Grades(r, nodes) /\ DescentGraded(r) /\ SplitGraded(r)

\* A grade that gives the old slots what they had.
Extends(q, r) == DOMAIN r \subseteq DOMAIN q /\ \A s \in DOMAIN r : q[s] = r[s]

LEMMA LowerExtends ==
  ASSUME NEW r, NEW q, Extends(q, r), NEW o \in DOMAIN r
  PROVE  Lower(r, o) \subseteq Lower(q, o)
BY DEF Lower, Extends

LEMMA OverExtends ==
  ASSUME NEW r, NEW q, Extends(q, r), NEW root, NEW p, NEW o \in DOMAIN r, Over(r, root, p, o)
  PROVE  Over(q, root, p, o)
BY DEF Over, Extends

LEMMA ClimbsExtends ==
  ASSUME NEW r, NEW q, Extends(q, r), NEW root, NEW st, NEW o, Climbs(r, root, st, o)
  PROVE  Climbs(q, root, st, o)
<1>1. o \in DOMAIN q /\ Over(q, root, st[1], o)
  BY OverExtends DEF Climbs, Extends
<1>2. ASSUME NEW i \in 2..Len(st)
      PROVE  st[i - 1] \in DOMAIN q /\ Over(q, root, st[i], st[i - 1])
  BY OverExtends DEF Climbs, Extends
<1>q. QED
  BY <1>1, <1>2 DEF Climbs

LEMMA Domains ==
  ASSUME nodes \in Seq(Node)
  PROVE  DOMAIN nodes = Slots /\ Slots \subseteq Nat \ {0} /\ RootMark \notin Slots /\ NoOffset \notin Slots
BY DEF Slots, RootMark, NoOffset

\* What the lemmas on the operators ask of a set of offsets.
LEMMA LowerOffsets ==
  ASSUME NEW r, nodes \in Seq(Node), Grades(r, nodes), NEW o
  PROVE  Lower(r, o) \subseteq Int /\ Filler \in Lower(r, o)
<1>1. DOMAIN r \subseteq Nat
  BY Domains DEF Grades
<1>2. ASSUME NEW s \in Lower(r, o) PROVE s \in Int
  BY <1>1 DEF Lower, NoOffset
<1>q. QED
  BY <1>2 DEF Lower, Filler, NoOffset

\* The nodes that were written and those that were there.
LEMMA GradesOver ==
  ASSUME NEW r, nodes \in Seq(Node), nodes' \in Seq(Node), Grades(r, nodes),
         NEW q \in [Slots' -> Nat], Extends(q, r),
         \A s \in Slots' : \/ \A i \in 1..Order : nodes'[s].kids[i] \in Lower(q, s)
                           \/ s \in Slots /\ nodes'[s] = nodes[s]
  PROVE  Grades(q, nodes')
<1>1. DOMAIN nodes = Slots /\ (DOMAIN nodes)' = Slots' /\ DOMAIN r = Slots
  BY DEF Slots, Grades
<1>2. ASSUME NEW s \in Slots', NEW i \in 1..Order PROVE nodes'[s].kids[i] \in Lower(q, s)
  <2>1. CASE s \in Slots /\ nodes'[s] = nodes[s]
    BY <1>1, <2>1, LowerExtends DEF Grades
  <2>q. QED
    BY <2>1
<1>q. QED
  BY <1>1, <1>2 DEF Grades
-----------------------------------------------------------------------------
(* The steps *)

\* A step that writes no node and ends outside of a descent and a split.
LEMMA CalmGraded ==
  ASSUME NEW r, Grades(r, nodes), nodes' = nodes,
         pc' \notin {"descend", "leaf", "split", "right", "link", "newroot"}
  PROVE  Graded(r)'
BY DEF Graded, DescentGraded, SplitGraded

LEMMA ParentsOpenGraded ==
  ASSUME NEW r, TypeOK, OffsetsSound, Graded(r), ParentsOpen
  PROVE  Graded(r)'
<1>1. /\ pc = "parents" /\ pc' = "descend" /\ cur' = root_offset /\ nodes' = nodes
      /\ root_offset' = root_offset /\ stack' = stack
  BY Zenon DEF ParentsOpen, disk, globals
<1>2. stack = <<>>
  BY <1>1 DEF OffsetsSound, StackSound
<1>q. QED
  BY <1>1, <1>2 DEF Graded, DescentGraded, SplitGraded

\* One more entry on the stack, for the node below it.
LEMMA PushClimbs ==
  ASSUME NEW r, NEW root, NEW st \in Seq(Int), NEW p \in DOMAIN r, p # RootMark, p \in Int, NEW o \in DOMAIN r,
         Climbs(r, root, st, p), r[o] < r[p]
  PROVE  Climbs(r, root, <<p>> \o st, o)
<1> DEFINE new == <<p>> \o st
<1>1. /\ Len(st) \in Nat /\ Len(st) >= 1 /\ Len(new) = Len(st) + 1 /\ new[1] = p
      /\ \A i \in 1..Len(st) : new[i + 1] = st[i]
  BY DEF Climbs
<1> HIDE DEF new
<1>2. ASSUME NEW i \in 2..Len(new)
      PROVE  new[i - 1] \in DOMAIN r /\ Over(r, root, new[i], new[i - 1])
  <2>1. PICK j \in 1..Len(st) : i = j + 1
    <3>1. i - 1 \in 1..Len(st) /\ i = (i - 1) + 1
      BY <1>1
    <3>q. QED
      BY <3>1
  <2>2. new[i] = st[j] /\ i - 1 = j
    BY <1>1, <2>1
  <2>3. CASE j = 1
    BY <1>1, <2>2, <2>3 DEF Climbs
  <2>4. CASE j # 1
    <3>1. j \in 2..Len(st) /\ j - 1 \in 1..Len(st) /\ (j - 1) + 1 = j
      BY <1>1, <2>4
    <3>2. new[j] = st[j - 1]
      BY <1>1, <3>1
    <3>q. QED
      BY <2>2, <3>1, <3>2 DEF Climbs
  <2>q. QED
    BY <2>3, <2>4
<1>3. new # <<>> /\ Over(r, root, new[1], o)
  BY <1>1 DEF Over
<1>q. QED
  BY <1>2, <1>3 DEF Climbs, new

LEMMA DescendGraded ==
  ASSUME NEW r, TypeOK, OffsetsSound, Graded(r), Descend
  PROVE  Graded(r)'
<1> DEFINE x   == IF NodeNo(cur) = NodeNo(root_offset) THEN RootMark ELSE prev
           kid == nodes[cur].kids[Position(nodes[cur], key)]
<1>1. /\ nodes' = nodes /\ root_offset' = root_offset
      /\ pc = "descend" /\ CountAt(cur) # 0 /\ stack' = <<x>> \o stack
      /\ \/ kid = NoOffset /\ leaf_offset' = cur /\ pc' = "leaf" /\ cur' = cur /\ prev' = prev
         \/ kid # NoOffset /\ prev' = cur /\ cur' = kid /\ leaf_offset' = leaf_offset /\ pc' = pc
  BY Zenon DEF Descend, push, disk
<1>2. cur \in Slots /\ prev \in Slots /\ root_offset \in Slots
  BY <1>1 DEF OffsetsSound, SearchSound, CountAt
<1>3. /\ Slots \subseteq Nat \ {0} /\ DOMAIN r = Slots /\ r \in [Slots -> Nat] /\ stack \in Seq(Int)
      /\ DOMAIN nodes = Slots /\ RootMark \notin Slots /\ nodes \in Seq(Node)
  BY Domains DEF Graded, Grades, TypeOK
<1>4. IF stack = <<>> THEN cur = root_offset
      ELSE /\ Climbs(r, root_offset, stack, prev)
           /\ r[cur] < r[prev] /\ r[cur] < r[root_offset]
  BY <1>1, <1>2 DEF Graded, DescentGraded
<1>5. Climbs(r, root_offset, stack', cur)
  <2>1. CASE stack = <<>>
    <3>1. stack' = <<RootMark>>
      BY <1>1, <1>4, <2>1
    <3>q. QED
      BY <1>2, <1>3, <1>4, <2>1, <3>1 DEF Climbs, Over
  <2>2. CASE stack # <<>>
    <3>1. cur # root_offset
      BY <1>2, <1>3, <1>4, <2>2
    <3>2. x = prev
      BY <1>2, <1>3, <3>1, RootTestExact
    <3>q. QED
      BY <1>1, <1>2, <1>3, <1>4, <2>2, <3>2, PushClimbs
  <2>q. QED
    BY <2>1, <2>2
<1>6. kid \in Lower(r, cur)
  <2>1. nodes[cur] \in Node /\ key \in Int
    BY <1>2, <1>3 DEF TypeOK
  <2>2. Position(nodes[cur], key) \in 1..Order
    BY <2>1, NodePosition
  <2>q. QED
    BY <1>2, <1>3, <2>2 DEF Graded, Grades
<1> HIDE DEF x, kid
<1>7. stack' # <<>>
  BY <1>5 DEF Climbs
<1>8. kid # NoOffset => kid \in Slots /\ r[kid] < r[cur] /\ r[kid] < r[root_offset]
  <2>1. r[cur] = r[root_offset] \/ r[cur] < r[root_offset]
    BY <1>4
  <2>2. kid # NoOffset => kid \in Slots /\ r[kid] < r[cur]
    BY <1>3, <1>6 DEF Lower
  <2>q. QED
    BY <1>2, <1>3, <2>1, <2>2
<1>9. Slots' = Slots
  BY <1>1 DEF Slots
<1>10. DescentGraded(r)'
  BY <1>1, <1>5, <1>7, <1>8, <1>9 DEF DescentGraded
<1>11. SplitGraded(r)'
  BY <1>1 DEF SplitGraded
<1>q. QED
  BY <1>1, <1>10, <1>11 DEF Graded

LEMMA LeafGraded ==
  ASSUME NEW r, TypeOK, OffsetsSound, Graded(r), DescendNoKeys
  PROVE  Graded(r)'
<1>1. /\ pc = "descend" /\ pc' = "leaf" /\ CountAt(cur) = 0
      /\ nodes' = nodes /\ root_offset' = root_offset
  BY Zenon DEF DescendNoKeys, disk, globals
<1>2. root_offset \notin Slots
  <2>1. SUFFICES ASSUME root_offset \in Slots PROVE FALSE
    OBVIOUS
  <2>2. cur \in Slots /\ cur # Header
    BY <1>1, <2>1, SlotsType DEF OffsetsSound, SearchSound, TypeOK
  <2>q. QED
    BY <1>1, <2>2 DEF CountAt, OffsetsSound, NodesSound
<1>q. QED
  BY <1>1, <1>2 DEF Graded, DescentGraded, SplitGraded, Slots

LEMMA AddKeyGraded ==
  ASSUME NEW r, TypeOK, OffsetsSound, Graded(r), add_key_to_tree
  PROVE  Graded(r)'
<1>1. /\ pc = "leaf" /\ pc' = "split" /\ CountAt(leaf_offset) = Order - 1
      /\ aux' = WithKey(nodes[leaf_offset], key) /\ node_offset' = leaf_offset
      /\ nodes' = nodes /\ root_offset' = root_offset /\ stack' = stack
  BY Zenon DEF add_key_to_tree, disk, globals
<1>2. leaf_offset \in Slots /\ root_offset \in Slots
  BY <1>1, OrderAssumption DEF CountAt, OffsetsSound, RootSound
<1>3. /\ DOMAIN nodes = Slots /\ nodes[leaf_offset] \in Node /\ key \in Int
      /\ Slots \subseteq Nat /\ DOMAIN r = Slots
  BY <1>2, Domains DEF TypeOK, Graded, Grades
<1>4. \A i \in 1..(Order + 1) : aux'.kids[i] \in Lower(r, leaf_offset)
  <2> DEFINE S == Lower(r, leaf_offset)
  <2>1. S \subseteq Int /\ Filler \in S
    BY LowerOffsets DEF Graded, TypeOK
  <2>3. \A i \in 1..Order : nodes[leaf_offset].kids[i] \in S
    BY <1>2, <1>3 DEF Graded, Grades
  <2> HIDE DEF S
  <2>2. \A i \in 1..(Order + 1) : WithKey(nodes[leaf_offset], key).kids[i] \in S
    BY <1>3, <2>1, <2>3, WithKeyType
  <2>q. QED
    BY <1>1, <2>2 DEF S
<1>5. Climbs(r, root_offset, stack, leaf_offset)
  BY <1>1, <1>2 DEF Graded, DescentGraded
<1>6. SplitGraded(r)'
  BY <1>1, <1>4, <1>5 DEF SplitGraded
<1>7. DescentGraded(r)'
  BY <1>1 DEF DescentGraded
<1>q. QED
  BY <1>1, <1>6, <1>7 DEF Graded

\* The left half goes where its node was, also when that is the root.
LEMMA LeftIsNode ==
  ASSUME NEW r, Graded(r), pc = "split"
  PROVE  LeftOffset = node_offset
BY DEF Graded, SplitGraded, Climbs, Over, LeftOffset

\* The left half keeps some of the child offsets.
LEMMA LeftLower ==
  ASSUME NEW r, Order >= 3, TypeOK, Graded(r), pc = "split"
  PROVE  LeftOf(aux) \in Node /\ \A i \in 1..Order : LeftOf(aux).kids[i] \in Lower(r, node_offset)
<1> DEFINE S == Lower(r, node_offset)
<1>1. S \subseteq Int /\ Filler \in S /\ aux \in AuxNode
  BY LowerOffsets DEF Graded, TypeOK
<1>2. \A i \in 1..(Order + 1) : aux.kids[i] \in S
  BY DEF Graded, SplitGraded
<1> HIDE DEF S
<1>3. LeftOf(aux) \in Node /\ \A i \in 1..Order : LeftOf(aux).kids[i] \in S
  BY <1>1, <1>2, HalvesType
<1>q. QED
  BY <1>3 DEF S

LEMMA PopClimbs ==
  ASSUME NEW r, NEW root, NEW st \in Seq(Int), NEW o, Climbs(r, root, st, o)
  PROVE  /\ Over(r, root, Head(st), o)
         /\ Head(st) # RootMark => Climbs(r, root, Tail(st), Head(st)) \/ Tail(st) = <<>>
<1>1. /\ Len(st) \in Nat /\ Len(st) >= 1 /\ Head(st) = st[1] /\ Len(Tail(st)) = Len(st) - 1
      /\ \A i \in 1..(Len(st) - 1) : Tail(st)[i] = st[i + 1]
  BY DEF Climbs
<1> DEFINE t == Tail(st)
<1> HIDE DEF t
<1>2. ASSUME Head(st) # RootMark, t # <<>> PROVE Climbs(r, root, t, Head(st))
  <2>1. Len(t) \in Nat /\ Len(t) >= 1 /\ Len(t) = Len(st) - 1
    BY <1>1, <1>2 DEF t
  <2>2. \A i \in 1..Len(t) : t[i] = st[i + 1] /\ i + 1 \in 2..Len(st)
    BY <1>1, <2>1 DEF t
  <2>3. st[1] \in DOMAIN r /\ Over(r, root, t[1], st[1])
    <3>1. 2 \in 2..Len(st) /\ t[1] = st[2]
      BY <2>1, <2>2
    <3>q. QED
      BY <3>1 DEF Climbs
  <2>4. ASSUME NEW i \in 2..Len(t) PROVE t[i - 1] \in DOMAIN r /\ Over(r, root, t[i], t[i - 1])
    <3>1. i - 1 \in 1..Len(t) /\ i \in 1..Len(t) /\ (i - 1) + 1 = i /\ (i + 1) - 1 = i
      BY <2>1
    <3>2. t[i - 1] = st[i] /\ t[i] = st[i + 1] /\ i + 1 \in 2..Len(st)
      BY <2>2, <3>1
    <3>q. QED
      BY <3>1, <3>2 DEF Climbs
  <2>q. QED
    BY <1>1, <1>2, <2>3, <2>4 DEF Climbs
<1>q. QED
  BY <1>1, <1>2 DEF Climbs, t

LEMMA SplitLeftGraded ==
  ASSUME NEW r, Order >= 3, TypeOK, OffsetsSound, Graded(r), SplitLeft
  PROVE  Graded(r)'
<1>1. /\ pc = "split" /\ pc' = "right" /\ pop /\ nodes' = [nodes EXCEPT ![LeftOffset] = LeftOf(aux)]
      /\ aux' = aux /\ node_offset' = node_offset /\ root_offset' = root_offset
  BY Zenon DEF SplitLeft, write_node_at_offset
<1>2. LeftOffset = node_offset /\ node_offset \in Slots /\ stack \in Seq(Int) /\ nodes \in Seq(Node)
  BY <1>1, LeftIsNode DEF OffsetsSound, SplitSound, TypeOK
<1>3. Climbs(r, root_offset, stack, node_offset) /\ EndsInRoot
  BY <1>1 DEF Graded, SplitGraded, OffsetsSound, StackSound
<1>4. next_parent' = Head(stack) /\ stack' = Tail(stack)
  BY <1>1, <1>3 DEF pop, EndsInRoot
<1>5. DOMAIN nodes = Slots /\ Slots \subseteq Nat /\ DOMAIN r = Slots /\ r \in [Slots -> Nat]
  BY <1>2, Domains DEF Graded, Grades
<1>6. \A i \in 1..(Order + 1) : aux.kids[i] \in Lower(r, node_offset)
  BY <1>1 DEF Graded, SplitGraded
<1>7. LeftOf(aux) \in Node /\ \A i \in 1..Order : LeftOf(aux).kids[i] \in Lower(r, node_offset)
  BY <1>1, LeftLower
<1>8. Slots' = Slots /\ nodes' \in Seq(Node)
      /\ \A s \in Slots : nodes'[s] = IF s = node_offset THEN LeftOf(aux) ELSE nodes[s]
  BY <1>1, <1>2, <1>7 DEF Slots
<1>9. Grades(r, nodes')
  <2>1. Extends(r, r) /\ Grades(r, nodes)
    BY DEF Extends, Graded
  <2>2. \A s \in Slots' : \/ \A i \in 1..Order : nodes'[s].kids[i] \in Lower(r, s)
                          \/ s \in Slots /\ nodes'[s] = nodes[s]
    BY <1>7, <1>8
  <2>q. QED
    BY <1>2, <1>5, <1>8, <2>1, <2>2, GradesOver
<1>10. next_parent' # RootMark => Climbs(r, root_offset, stack', next_parent')
  <2>1. CASE Tail(stack) = <<>>
    <3>1. Len(stack) \in Nat /\ Len(stack) >= 1 /\ Len(Tail(stack)) = Len(stack) - 1 /\ Head(stack) = stack[1]
      BY <1>2, <1>3 DEF EndsInRoot
    <3>2. Len(stack) = 1
      <4>1. Len(Tail(stack)) = 0
        BY <1>2, <1>3, <2>1, HeadTailProperties, EmptySeq DEF EndsInRoot
      <4>q. QED
        BY <3>1, <4>1
    <3>q. QED
      BY <1>3, <1>4, <3>1, <3>2 DEF EndsInRoot
  <2>2. CASE Tail(stack) # <<>>
    BY <1>2, <1>3, <1>4, <2>2, PopClimbs
  <2>q. QED
    BY <2>1, <2>2
<1>11. Over(r, root_offset, next_parent', node_offset)
  BY <1>2, <1>3, <1>4, PopClimbs
<1>12. SplitGraded(r)'
  BY <1>1, <1>2, <1>6, <1>8, <1>10, <1>11 DEF SplitGraded
<1>13. DescentGraded(r)'
  BY <1>1 DEF DescentGraded
<1>q. QED
  BY <1>9, <1>12, <1>13 DEF Graded

\* The grades of what there was, with one for the node at the end of the file.
LEMMA NewGrade ==
  ASSUME NEW r \in [Slots -> Nat], NEW n \in Nat, nodes \in Seq(Node), nodes' \in Seq(Node),
         Len(nodes') = Len(nodes) + 1
  PROVE  \E q \in [Slots' -> Nat] : Extends(q, r) /\ q[Len(nodes) + 1] = n
<1> DEFINE q == [s \in Slots' |-> IF s = Len(nodes) + 1 THEN n ELSE r[s]]
<1>1. Slots' = Slots \cup {Len(nodes) + 1} /\ Len(nodes) + 1 \notin Slots
  BY DEF Slots
<1>2. q \in [Slots' -> Nat]
  BY <1>1
<1>3. Extends(q, r) /\ q[Len(nodes) + 1] = n
  BY <1>1 DEF Extends
<1>q. QED
  BY <1>2, <1>3

\* The node at the end of the file gets the grade n.
LEMMA AppendGraded ==
  ASSUME NEW r, nodes \in Seq(Node), NodesSound, Grades(r, nodes), NEW n \in Nat, NEW nd \in Node,
         nd.n >= 1, \A i \in 1..Order : nd.kids[i] \in {NoOffset} \cup {s \in Slots : r[s] < n},
         nodes' = Append(nodes, nd)
  PROVE  \E q \in [Slots' -> Nat] : Grades(q, nodes') /\ Extends(q, r) /\ q[Len(nodes) + 1] = n
<1>1. DOMAIN nodes = Slots /\ DOMAIN r = Slots /\ r \in [Slots -> Nat] /\ NoOffset \notin Slots
  BY Domains DEF Grades
<1>2. /\ nodes' \in Seq(Node) /\ Len(nodes') = Len(nodes) + 1 /\ nodes'[Len(nodes) + 1] = nd
      /\ Slots' = Slots \cup {Len(nodes) + 1} /\ \A s \in Slots : nodes'[s] = nodes[s]
  BY DEF Slots
<1>3. PICK q \in [Slots' -> Nat] : Extends(q, r) /\ q[Len(nodes) + 1] = n
  BY <1>1, <1>2, NewGrade
<1>4. \A i \in 1..Order : nd.kids[i] \in Lower(q, Len(nodes) + 1)
  BY <1>1, <1>3 DEF Lower, Extends
<1>5. \A s \in Slots' : \/ \A i \in 1..Order : nodes'[s].kids[i] \in Lower(q, s)
                        \/ s \in Slots /\ nodes'[s] = nodes[s]
  BY <1>2, <1>4
<1>6. Grades(q, nodes')
  BY <1>2, <1>3, <1>5, GradesOver
<1>q. QED
  BY <1>3, <1>6

\* The right half gets the grade of the node it comes from.
LEMMA SplitRightGraded ==
  ASSUME NEW r, Order >= 3, TypeOK, OffsetsSound, Graded(r), SplitRight
  PROVE  \E q : Graded(q)'
<1>1. /\ pc = "right" /\ right_offset' = Len(nodes) + 1 /\ write_node(RightOf(aux))
      /\ pc' = (IF next_parent # RootMark THEN "link" ELSE "newroot")
      /\ root_offset' = root_offset /\ stack' = stack
      /\ aux' = aux /\ node_offset' = node_offset /\ next_parent' = next_parent
  BY Zenon DEF SplitRight, globals
<1>2. nodes \in Seq(Node) /\ NodesSound /\ aux \in AuxNode /\ root_offset # NoOffset
  BY <1>1, Domains DEF OffsetsSound, StackSound, TypeOK
<1>3. nodes' = Append(nodes, RightOf(aux))
  BY <1>1, <1>2 DEF write_node
<1>4. /\ \A i \in 1..(Order + 1) : aux.kids[i] \in Lower(r, node_offset)
      /\ node_offset \in Slots /\ Over(r, root_offset, next_parent, node_offset)
      /\ next_parent # RootMark => Climbs(r, root_offset, stack, next_parent)
  BY <1>1 DEF Graded, SplitGraded
<1>5. /\ Slots \subseteq Nat /\ DOMAIN r = Slots /\ r \in [Slots -> Nat]
      /\ Grades(r, nodes) /\ r[node_offset] \in Nat
  BY <1>2, <1>4, Domains DEF Graded, Grades
<1>6. /\ RightOf(aux) \in Node /\ RightOf(aux).n >= 1
      /\ \A i \in 1..Order : RightOf(aux).kids[i] \in Lower(r, node_offset)
  <2> DEFINE S == Lower(r, node_offset)
  <2>1. S \subseteq Int /\ Filler \in S
    BY <1>2, <1>5, LowerOffsets
  <2>2. \A i \in 1..(Order + 1) : aux.kids[i] \in S
    BY <1>4
  <2> HIDE DEF S
  <2>3. RightOf(aux) \in Node /\ RightOf(aux).n >= 1 /\ \A i \in 1..Order : RightOf(aux).kids[i] \in S
    BY <1>2, <2>1, <2>2, HalvesType
  <2>q. QED
    BY <2>3 DEF S
<1>7. \A i \in 1..Order : RightOf(aux).kids[i] \in {NoOffset} \cup {s \in Slots : r[s] < r[node_offset]}
  BY <1>5, <1>6 DEF Lower
<1>8. PICK q \in [Slots' -> Nat] :
        Grades(q, nodes') /\ Extends(q, r) /\ q[Len(nodes) + 1] = r[node_offset]
  BY <1>2, <1>3, <1>5, <1>6, <1>7, AppendGraded
<1>9. /\ \A i \in 1..(Order + 1) : aux.kids[i] \in Lower(q, node_offset)
      /\ Over(q, root_offset, next_parent, node_offset)
      /\ next_parent # RootMark => Climbs(q, root_offset, stack, next_parent)
      /\ q[node_offset] = r[node_offset] /\ node_offset \in Slots'
  BY <1>4, <1>5, <1>8, LowerExtends, OverExtends, ClimbsExtends DEF Extends
<1>10. q[right_offset'] <= q[node_offset]
  BY <1>1, <1>5, <1>8, <1>9
<1>11. SplitGraded(q)'
  BY <1>1, <1>9, <1>10 DEF SplitGraded
<1>12. DescentGraded(q)'
  BY <1>1 DEF DescentGraded
<1>q. QED
  BY <1>8, <1>11, <1>12 DEF Graded

\* The new root gets one more than the old one.
LEMMA NewRootGraded ==
  ASSUME NEW r, TypeOK, OffsetsSound, Graded(r), NewRoot
  PROVE  \E q : Graded(q)'
<1> DEFINE nd == NewRootOf(SplitValue(aux), root_offset, right_offset)
<1>1. pc = "newroot" /\ pc' = "cmd" /\ nodes' = Append(nodes, nd)
  BY Zenon DEF NewRoot, Return
<1>2. /\ nodes \in Seq(Node) /\ NodesSound /\ root_offset \in Slots /\ right_offset \in Slots
      /\ next_parent \in Slots \cup {RootMark} /\ node_offset \in Slots
  BY <1>1 DEF OffsetsSound, StackSound, SplitSound, TypeOK, Graded, SplitGraded
<1>3. /\ Slots \subseteq Nat \ {0} /\ DOMAIN r = Slots /\ r \in [Slots -> Nat] /\ Grades(r, nodes)
      /\ r[right_offset] <= r[node_offset] /\ node_offset = root_offset
  BY <1>1, <1>2, Domains DEF Graded, Grades, SplitGraded, Over
<1>4. /\ r[right_offset] \in Nat /\ r[root_offset] \in Nat
      /\ r[right_offset] < r[root_offset] + 1 /\ r[root_offset] < r[root_offset] + 1
  BY <1>2, <1>3
<1>a. SplitValue(aux) \in Int
  <2>1. SplitIndex + 1 \in 1..Order
    BY OrderAssumption DEF SplitIndex
  <2>q. QED
    BY <2>1 DEF SplitValue, TypeOK, AuxNode
<1>5. nd \in Node /\ nd.n >= 1 /\ \A i \in 1..Order : nd.kids[i] \in {NoOffset} \cup {s \in Slots : r[s] < r[root_offset] + 1}
  <2> DEFINE S == {NoOffset} \cup {s \in Slots : r[s] < r[root_offset] + 1}
  <2>1. S \subseteq Int /\ Filler \in S /\ root_offset \in S /\ right_offset \in S
    BY <1>2, <1>3, <1>4 DEF NoOffset, Filler
  <2> HIDE DEF S
  <2>2. nd \in Node /\ nd.n = 1 /\ \A i \in 1..Order : nd.kids[i] \in S
    BY <1>a, <2>1, RootsType
  <2>q. QED
    BY <2>2 DEF S
<1>6. \E q \in [Slots' -> Nat] : Grades(q, nodes')
  <2>1. r[root_offset] + 1 \in Nat
    BY <1>4
  <2> HIDE DEF nd
  <2>q. QED
    BY <1>1, <1>2, <1>3, <1>5, <2>1, AppendGraded
<1>q. QED
  BY <1>1, <1>6 DEF Graded, DescentGraded, SplitGraded

\* The first root has no children.
LEMMA AddRootGraded ==
  ASSUME NEW r, TypeOK, OffsetsSound, Graded(r), AddRoot
  PROVE  \E q : Graded(q)'
<1>1. pc' = "cmd" /\ root_offset = NoOffset /\ write_node(RootOf(key))
  BY Zenon DEF AddRoot, Return
<1>2. /\ nodes \in Seq(Node) /\ NodesSound /\ key \in Int
      /\ nodes' = <<RootOf(key)>> \o SubSeq(nodes, 2, Len(nodes))
  BY <1>1 DEF write_node, OffsetsSound, TypeOK
<1>3. RootOf(key) \in Node /\ RootOf(key).n >= 1 /\ \A i \in 1..Order : RootOf(key).kids[i] = NoOffset
  BY <1>2, FirstRoot
<1> DEFINE nd == RootOf(key)
<1> HIDE DEF nd
<1>4. /\ nodes' \in Seq(Node) /\ Slots \subseteq Slots' /\ 1 \in Slots'
      /\ \A s \in Slots' : nodes'[s] = nd \/ (s \in Slots /\ nodes'[s] = nodes[s])
  BY <1>2, <1>3, WriteFirst DEF nd, Kid
<1>5. DOMAIN r = Slots /\ r \in [Slots -> Nat] /\ Grades(r, nodes)
  BY <1>2, Domains DEF Graded, Grades
<1> DEFINE q == [s \in Slots' |-> IF s \in Slots THEN r[s] ELSE 0]
<1>6. q \in [Slots' -> Nat] /\ Extends(q, r)
  BY <1>4, <1>5 DEF Extends
<1> HIDE DEF q
<1>7. \A s \in Slots' : \/ \A i \in 1..Order : nodes'[s].kids[i] \in Lower(q, s)
                        \/ s \in Slots /\ nodes'[s] = nodes[s]
  BY <1>3, <1>4 DEF nd, Lower
<1>8. Grades(q, nodes')
  BY <1>2, <1>4, <1>5, <1>6, <1>7, GradesOver
<1>q. QED
  BY <1>1, <1>8 DEF Graded, DescentGraded, SplitGraded

\* The parent with the right half in it, which has no higher grade than the left.
LEMMA ParentLower ==
  ASSUME NEW r, TypeOK, OffsetsSound, Graded(r), pc = "link"
  PROVE  \A i \in 1..(Order + 1) : Parent.kids[i] \in Lower(r, next_parent)
<1>1. /\ nodes \in Seq(Node) /\ next_parent \in Slots /\ right_offset \in Slots /\ node_offset \in Slots
      /\ next_parent # RootMark /\ Over(r, root_offset, next_parent, node_offset)
      /\ r[right_offset] <= r[node_offset]
  BY Domains DEF OffsetsSound, SplitSound, TypeOK, Graded, SplitGraded
<1>2. DOMAIN r = Slots /\ r \in [Slots -> Nat] /\ Grades(r, nodes) /\ DOMAIN nodes = Slots
  BY <1>1, Domains DEF Graded, Grades
<1>3. right_offset \in Lower(r, next_parent)
  <2>1. r[right_offset] \in Nat /\ r[node_offset] \in Nat /\ r[next_parent] \in Nat
    BY <1>1, <1>2
  <2>2. r[node_offset] < r[next_parent]
    BY <1>1 DEF Over
  <2>q. QED
    BY <1>1, <1>2, <2>1, <2>2 DEF Lower
<1>4. SplitValue(aux) \in Int
  <2>1. SplitIndex + 1 \in 1..Order
    BY OrderAssumption DEF SplitIndex
  <2>q. QED
    BY <2>1 DEF SplitValue, TypeOK, AuxNode
<1> DEFINE S == Lower(r, next_parent)
<1>5. S \subseteq Int /\ Filler \in S
  BY <1>1, <1>2, LowerOffsets
<1>6. nodes[next_parent] \in Node /\ \A i \in 1..Order : nodes[next_parent].kids[i] \in S
  BY <1>1, <1>2, SlotsType DEF Grades
<1>7. right_offset \in S
  BY <1>3
<1> HIDE DEF S
<1>8. \A i \in 1..(Order + 1) : Parent.kids[i] \in S
  BY <1>4, <1>5, <1>6, <1>7, WithSplitType DEF Parent
<1>q. QED
  BY <1>8 DEF S

\* Writing over a node, with child offsets of a lower grade.
LEMMA OverwriteGraded ==
  ASSUME NEW r, nodes \in Seq(Node), Grades(r, nodes), NEW o \in Slots, NEW nd \in Node,
         \A i \in 1..Order : nd.kids[i] \in Lower(r, o), nodes' = [nodes EXCEPT ![o] = nd]
  PROVE  Grades(r, nodes') /\ Slots' = Slots
<1>1. nodes' \in Seq(Node) /\ Slots' = Slots /\ \A s \in Slots : nodes'[s] = IF s = o THEN nd ELSE nodes[s]
  BY DEF Slots
<1>2. r \in [Slots -> Nat] /\ Extends(r, r)
  BY Domains DEF Grades, Extends
<1>3. \A s \in Slots' : \/ \A i \in 1..Order : nodes'[s].kids[i] \in Lower(r, s)
                        \/ s \in Slots /\ nodes'[s] = nodes[s]
  BY <1>1
<1>q. QED
  BY <1>1, <1>2, <1>3, GradesOver

LEMMA LinkParentGraded ==
  ASSUME NEW r, TypeOK, OffsetsSound, Graded(r), LinkParent
  PROVE  Graded(r)'
<1>1. /\ pc = "link" /\ root_offset' = root_offset /\ stack' = stack
      /\ \/ /\ Parent.n <= Order - 1 /\ pc' = "cmd"
            /\ nodes' = [nodes EXCEPT ![next_parent] = Narrowed(Parent)]
         \/ aux' = Parent /\ node_offset' = next_parent /\ pc' = "split" /\ nodes' = nodes
  BY Zenon DEF LinkParent, globals, disk, Return, write_node_at_offset
<1>2. /\ Parent \in AuxNode /\ Parent.n >= 1 /\ \A i \in 1..(Order + 1) : Kid(Parent.kids[i])
      /\ next_parent \in Slots /\ nodes \in Seq(Node)
  BY <1>1, ParentSound DEF TypeOK
<1>3. \A i \in 1..(Order + 1) : Parent.kids[i] \in Lower(r, next_parent)
  BY <1>1, ParentLower
<1>4. next_parent # RootMark /\ Climbs(r, root_offset, stack, next_parent) /\ Grades(r, nodes)
  BY <1>1, <1>2, Domains DEF Graded, SplitGraded
<1> HIDE DEF Parent
<1>5. CASE /\ Parent.n <= Order - 1 /\ pc' = "cmd"
           /\ nodes' = [nodes EXCEPT ![next_parent] = Narrowed(Parent)]
  <2>1. Narrowed(Parent) \in Node
    BY <1>2, <1>5, NarrowedType
  <2>2. \A i \in 1..Order : Narrowed(Parent).kids[i] \in Lower(r, next_parent)
    BY <1>3, OrderAssumption DEF Narrowed
  <2>3. Grades(r, nodes')
    BY <1>2, <1>4, <1>5, <2>1, <2>2, OverwriteGraded
  <2>q. QED
    BY <1>5, <2>3 DEF Graded, DescentGraded, SplitGraded
<1>6. CASE aux' = Parent /\ node_offset' = next_parent /\ pc' = "split" /\ nodes' = nodes
  <2>1. SplitGraded(r)'
    BY <1>1, <1>3, <1>4, <1>6 DEF SplitGraded
  <2>2. DescentGraded(r)'
    BY <1>6 DEF DescentGraded
  <2>q. QED
    BY <1>4, <1>6, <2>1, <2>2 DEF Graded
<1>q. QED
  BY <1>1, <1>5, <1>6

\* Wherever a write is cut, each child offset has a lower grade: it was one of the old node or is
\* one of the new.
LEMMA KillInWriteGraded ==
  ASSUME NEW r, Order >= 3, TypeOK, OffsetsSound, Graded(r), NEW c \in Cuts, KillInWrite(c)
  PROVE  Graded(r)'
<1>1. /\ pc' = "killed"
      /\ \/ /\ nodes # <<>>
            /\ nodes' = [nodes EXCEPT ![1] = Torn(nodes[1], RootOf(key), c)]
         \/ /\ pc = "split"
            /\ nodes' = [nodes EXCEPT ![LeftOffset] = Torn(nodes[LeftOffset], LeftOf(aux), c)]
         \/ /\ pc = "link" /\ Parent.n <= Order - 1
            /\ nodes' = [nodes EXCEPT ![next_parent] = Torn(nodes[next_parent], Narrowed(Parent), c)]
  BY Zenon DEF KillInWrite, Exit, write_node_at_offset
<1>2. nodes \in Seq(Node) /\ Grades(r, nodes) /\ NodesSound /\ c \in Int
  BY BTreeAssumption DEF TypeOK, Graded, OffsetsSound
<1>3. PICK o \in Slots, nd \in Node :
        /\ nd.n >= 1 /\ \A i \in 1..Order : Kid(nd.kids[i]) /\ nd.kids[i] \in Lower(r, o)
        /\ nodes' = [nodes EXCEPT ![o] = Torn(nodes[o], nd, c)]
  <2>1. CASE pc = "split" /\ nodes' = [nodes EXCEPT ![LeftOffset] = Torn(nodes[LeftOffset], LeftOf(aux), c)]
    <3>1. LeftOffset = node_offset /\ node_offset \in Slots
      BY <2>1, LeftIsNode DEF OffsetsSound, SplitSound
    <3>2. LeftOf(aux) \in Node /\ LeftOf(aux).n >= 1 /\ \A i \in 1..Order : Kid(LeftOf(aux).kids[i])
      BY <2>1, LeftHalfSound
    <3>3. \A i \in 1..Order : LeftOf(aux).kids[i] \in Lower(r, node_offset)
      BY <2>1, LeftLower
    <3>q. QED
      BY <2>1, <3>1, <3>2, <3>3
  <2>2. CASE /\ pc = "link" /\ Parent.n <= Order - 1
             /\ nodes' = [nodes EXCEPT ![next_parent] = Torn(nodes[next_parent], Narrowed(Parent), c)]
    <3>1. /\ Narrowed(Parent) \in Node /\ Narrowed(Parent).n >= 1
          /\ \A i \in 1..Order : Kid(Narrowed(Parent).kids[i])
          /\ next_parent \in Slots
          /\ nodes' = [nodes EXCEPT ![next_parent] = Torn(nodes[next_parent], Narrowed(Parent), c)]
      BY <2>2, ParentSound, NarrowedType
    <3>2. \A i \in 1..Order : Narrowed(Parent).kids[i] \in Lower(r, next_parent)
      BY <2>2, ParentLower, OrderAssumption DEF Narrowed
    <3>q. QED
      BY <3>1, <3>2
  <2>3. CASE nodes # <<>> /\ nodes' = [nodes EXCEPT ![1] = Torn(nodes[1], RootOf(key), c)]
    <3>1. 1 \in Slots /\ key \in Int
      BY <1>2, <2>3 DEF Slots, TypeOK
    <3>q. QED
      BY <2>3, <3>1, FirstRoot DEF Kid, Lower
  <2>q. QED
    BY <1>1, <2>1, <2>2, <2>3
<1>4. /\ nodes[o] \in Node
      /\ \A i \in 1..Order : Kid(nodes[o].kids[i]) /\ nodes[o].kids[i] \in Lower(r, o)
  <2>1. nodes[o] \in Node /\ DOMAIN nodes = Slots
    BY <1>2, SlotsType, Domains
  <2>q. QED
    BY <1>2, <2>1 DEF NodesSound, Grades
<1>5. Torn(nodes[o], nd, c) \in Node
  BY <1>2, <1>3, <1>4, TornType
<1>6. \A i \in 1..Order : Torn(nodes[o], nd, c).kids[i] \in Lower(r, o)
  BY <1>3, <1>4 DEF Torn
<1>7. Grades(r, nodes')
  BY <1>2, <1>3, <1>5, <1>6, OverwriteGraded
<1>q. QED
  BY <1>1, <1>7 DEF Graded, DescentGraded, SplitGraded
-----------------------------------------------------------------------------
(* The invariant *)

LEMMA StepGraded ==
  ASSUME Order >= 3, TypeOK, OffsetsSound, \E r : Graded(r), [Next]_vars
  PROVE  \E q : Graded(q)'
<1> PICK r : Graded(r)
  OBVIOUS
<1>g. Grades(r, nodes)
  BY DEF Graded
<1>1. CASE UNCHANGED vars
  <2>1. UNCHANGED <<nodes, root_offset, leaf_offset, stack, pc, cur, prev, aux, node_offset, next_parent, right_offset>>
    BY <1>1, Zenon DEF vars, disk, globals, search, split
  <2>2. Graded(r)'
    BY <2>1 DEF Graded, DescentGraded, SplitGraded, Slots
  <2>q. QED
    BY <2>2
<1>2. CASE Next
  <2>1. CASE Open \/ OpenFails \/ End \/ Eof \/ Kill
    <3>1. nodes' = nodes /\ pc' \in {"cmd", "exited", "died", "killed"}
      BY <2>1, Zenon DEF Open, OpenFails, End, Eof, Kill, Exit, disk
    <3>q. QED
      BY <1>g, <3>1, CalmGraded
  <2>2. CASE (\E o \in {"add", "find"}, k \in CommandKeys : Command(o, k)) \/ FindEmpty \/ StartAdd
             \/ FindOpen \/ Answer \/ insert_in_node
    <3>1. nodes' = nodes /\ pc' \in {"call", "answer", "parents", "find", "cmd"}
      BY <2>2, Zenon DEF Command, FindEmpty, StartAdd, FindOpen, Answer, insert_in_node, Return, disk
    <3>q. QED
      BY <1>g, <3>1, CalmGraded
  <2>3. CASE FindStep \/ print_tree
    <3>1. nodes' = nodes /\ pc' \in {"find", "answer", "cmd"}
      BY <2>3, Zenon DEF FindStep, FindAnswer, print_tree, disk
    <3>q. QED
      BY <1>g, <3>1, CalmGraded
  <2>4. CASE ParentsOpen \/ DescendNoKeys \/ Descend
    BY <2>4, ParentsOpenGraded, LeafGraded, DescendGraded
  <2>5. CASE add_key_to_tree \/ SplitLeft
    BY <2>5, AddKeyGraded, SplitLeftGraded
  <2>6. CASE SplitRight \/ NewRoot \/ AddRoot
    BY <2>6, SplitRightGraded, NewRootGraded, AddRootGraded
  <2>7. CASE LinkParent
    BY <2>7, LinkParentGraded
  <2>8. CASE \E c \in Cuts : KillInWrite(c)
    BY <2>8, KillInWriteGraded
  <2>q. QED
    BY <1>2, <2>1, <2>2, <2>3, <2>4, <2>5, <2>6, <2>7, <2>8, Zenon DEF Next, Serve
<1>q. QED
  BY <1>1, <1>2

\* In a set of nodes, one of the lowest grade has its children elsewhere.
LEMMA GradesNoCycle ==
  ASSUME NEW r, nodes \in Seq(Node), Grades(r, nodes)
  PROVE  NoCycle
<1>1. DOMAIN nodes = Slots /\ r \in [Slots -> Nat] /\ NoOffset \notin Slots
  BY Domains DEF Grades
<1> SUFFICES ASSUME NEW S \in (SUBSET Slots) \ {{}}
             PROVE  \E s \in S : Below(nodes[s]) \cap S = {}
  BY DEF NoCycle
<1> DEFINE G == {r[s] : s \in S}
<1>2. G \subseteq Nat /\ G # {}
  BY <1>1
<1>3. PICK g \in G : \A y \in G : ~(<<y, g>> \in OpToRel(<, Nat))
  BY <1>2, WFMin, NatLessThanWellFounded
<1>4. PICK s \in S : g = r[s]
  OBVIOUS
<1>5. \A t \in S : ~(r[t] < r[s])
  BY <1>1, <1>2, <1>3, <1>4 DEF OpToRel
<1>6. ASSUME NEW t \in Below(nodes[s]) PROVE t \notin S
  <2>1. PICK i \in 1..Order : t = nodes[s].kids[i] /\ t # NoOffset
    BY DEF Below
  <2>2. t \in Lower(r, s)
    BY <1>1, <2>1 DEF Grades
  <2>q. QED
    BY <1>5, <2>1, <2>2 DEF Lower
<1>q. QED
  BY <1>6

\* If the child offsets of the files found at the start can be graded, that is if they form no
\* cycle, those of the index file never do: with an order of at least 3, whatever of its splits
\* was written when a process was killed, the descents of find_key_in_btree and populate_parents
\* end, and so does the walk of print_tree.
THEOREM NoCycleAlways ==
  ASSUME Order >= 3, \A f \in IndexFiles : \E r : Grades(r, f.nodes)
  PROVE  Spec => []NoCycle
<1> DEFINE Inv == TypeOK /\ OffsetsSound /\ \E r : Graded(r)
<1>1. Init => Inv
  <2> SUFFICES ASSUME Init PROVE Inv
    OBVIOUS
  <2>1. pc = "exited" /\ (nodes = <<>> \/ \E f \in IndexFiles : nodes = f.nodes)
    BY Zenon DEF Init
  <2>2. \E r : Grades(r, nodes)
    <3>1. CASE nodes = <<>>
      <4>1. Grades([s \in {} |-> 0], nodes)
        BY <3>1 DEF Grades
      <4>q. QED
        BY <4>1
    <3>q. QED
      BY <2>1, <3>1
  <2>3. \E r : Graded(r)
    BY <2>1, <2>2 DEF Graded, DescentGraded, SplitGraded
  <2>q. QED
    BY <2>3, InitSound
<1>2. Inv /\ [Next]_vars => Inv'
  <2> SUFFICES ASSUME Inv, [Next]_vars PROVE Inv'
    OBVIOUS
  <2>1. TypeOK' /\ OffsetsSound'
    BY StepSound
  <2>2. (\E r : Graded(r))'
    BY StepGraded
  <2>q. QED
    BY <2>1, <2>2
<1>3. Inv => NoCycle
  BY GradesNoCycle DEF TypeOK, Graded
<1>q. QED
  BY <1>1, <1>2, <1>3, PTL DEF Spec
-----------------------------------------------------------------------------
(* The invariant *)

NoKids(nd)  == \A i \in 1..(nd.n + 1) : nd.kids[i] = NoOffset
AllKids(nd) == \A i \in 1..(nd.n + 1) : nd.kids[i] # NoOffset
Whole(nd)   == NoKids(nd) \/ AllKids(nd)

\* ParentOf and PathFrom, of the nodes ns.
Above(ns, root, p, o) == IF p = RootMark THEN o = root ELSE p \in 1..Len(ns) /\ o \in KidsOf(ns[p])
Path(ns, root, st, o) ==
  /\ st # <<>> /\ st[Len(st)] = RootMark /\ Above(ns, root, st[1], o)
  /\ \A i \in 2..Len(st) : Above(ns, root, st[i], st[i - 1])

StackPath ==
  root_offset \in Slots =>
    /\ pc = "descend" => IF cur = root_offset THEN stack = <<>>
                         ELSE Path(nodes, root_offset, <<prev>> \o stack, cur)
    /\ pc = "leaf"  => NoKids(nodes[leaf_offset]) /\ Path(nodes, root_offset, stack, leaf_offset)
    /\ pc = "split" => Path(nodes, root_offset, stack, node_offset)
    /\ pc \in {"right", "link", "newroot"} =>
         Path(nodes, root_offset, <<next_parent>> \o stack, node_offset)

Splitting == pc \in {"split", "right", "link", "newroot"}

Wholes == /\ \A s \in Slots : Whole(nodes[s])
          /\ Splitting => Whole(aux)

LEMMA StackPathIs ==
  ASSUME StackPath PROVE StackIsPath
<1>1. \A nd : NoKids(nd) => IsLeaf(nd)
  BY DEF NoKids, IsLeaf, KidsOf
<1>q. QED
  BY <1>1 DEF StackPath, StackIsPath, Path, PathFrom, Above, ParentOf, Slots
-----------------------------------------------------------------------------
(* Children *)

LEMMA HalvesWhole ==
  ASSUME NEW a \in AuxNode, a.n = Order, Whole(a)
  PROVE  Whole(LeftOf(a)) /\ Whole(RightOf(a))
<1> DEFINE h == SplitIndex
           r == Order - 1 - h
<1>1. Order \in Nat /\ h \in 1..(Order - 1) /\ r \in 0..(Order - 1) /\ h + 1 + r = Order
  BY OrderAssumption DEF SplitIndex
<1>a. \A i \in 1..Order : LeftOf(a).kids[i] = IF i <= h + 1 THEN a.kids[i] ELSE Filler
  BY DEF LeftOf
<1>b. \A i \in 1..Order : RightOf(a).kids[i] = IF i <= r + 1 THEN a.kids[h + 1 + i] ELSE Filler
  BY DEF RightOf
<1>c. LeftOf(a).n = h /\ RightOf(a).n = r
  BY DEF LeftOf, RightOf
<1> HIDE DEF h, r
<1>2. \A i \in 1..(h + 1) : LeftOf(a).kids[i] = a.kids[i] /\ i \in 1..(Order + 1)
  BY <1>1, <1>a
<1>3. \A i \in 1..(r + 1) : RightOf(a).kids[i] = a.kids[h + 1 + i] /\ h + 1 + i \in 1..(Order + 1)
  BY <1>1, <1>b
<1>4. NoKids(a) => NoKids(LeftOf(a)) /\ NoKids(RightOf(a))
  BY <1>2, <1>3, <1>c DEF NoKids
<1>5. AllKids(a) => AllKids(LeftOf(a)) /\ AllKids(RightOf(a))
  BY <1>2, <1>3, <1>c DEF AllKids
<1>q. QED
  BY <1>4, <1>5 DEF Whole

LEMMA WithKeyWhole ==
  ASSUME NEW nd \in Node, nd.n = Order - 1, NoKids(nd), NEW k \in Int
  PROVE  Whole(WithKey(nd, k))
<1> DEFINE S == {NoOffset}
<1>1. Order \in Nat /\ Order >= 2
  BY OrderAssumption
<1>2. S \subseteq Int /\ Filler \in S /\ \A i \in 1..Order : nd.kids[i] \in S
  BY <1>1 DEF NoKids, NoOffset, Filler
<1> HIDE DEF S
<1>3. WithKey(nd, k).n = nd.n + 1 /\ \A i \in 1..(Order + 1) : WithKey(nd, k).kids[i] \in S
  BY <1>2, WithKeyType
<1>4. WithKey(nd, k).n = Order
  BY <1>1, <1>3
<1>q. QED
  BY <1>3, <1>4 DEF S, Whole, NoKids

LEMMA WithSplitWhole ==
  ASSUME NEW nd \in Node, AllKids(nd), NEW k \in Int, NEW right, right # NoOffset
  PROVE  AllKids(WithSplit(nd, k, right))
<1> DEFINE p == Position(nd, k)
           w == WithSplit(nd, k, right)
<1>1. Order \in Nat /\ Order >= 2 /\ nd.n \in 0..(Order - 1) /\ p \in 1..(nd.n + 1)
  BY OrderAssumption, NodePosition DEF Node
<1>2. w.n = nd.n + 1
  BY DEF WithSplit, Inserted, Widened
<1>3. \A i \in 1..(Order + 1) :
        w.kids[i] = IF i <= p THEN Widened(nd).kids[i]
                    ELSE IF i = p + 1 THEN right ELSE Widened(nd).kids[i - 1]
  BY DEF WithSplit, Inserted
<1>4. \A i \in 1..(nd.n + 1) : Widened(nd).kids[i] # NoOffset
  BY <1>1 DEF Widened, AllKids
<1> HIDE DEF p, w
<1>5. ASSUME NEW i \in 1..(w.n + 1) PROVE w.kids[i] # NoOffset
  <2>1. i \in 1..(nd.n + 2) /\ i \in 1..(Order + 1)
    BY <1>1, <1>2
  <2>2. CASE i <= p
    BY <1>1, <1>3, <1>4, <2>1, <2>2
  <2>3. CASE i = p + 1
    BY <1>1, <1>3, <2>1, <2>3
  <2>4. CASE i > p + 1
    <3>1. i - 1 \in 1..(nd.n + 1)
      BY <1>1, <2>1, <2>4
    <3>q. QED
      BY <1>1, <1>3, <1>4, <2>1, <2>4, <3>1
  <2>q. QED
    BY <1>1, <2>1, <2>2, <2>3, <2>4
<1>q. QED
  BY <1>5 DEF AllKids, w

LEMMA NarrowedWhole ==
  ASSUME NEW a \in AuxNode, a.n <= Order - 1, AllKids(a)
  PROVE  Whole(Narrowed(a))
<1>1. Order \in Nat /\ a.n \in 0..Order
  BY OrderAssumption DEF AuxNode
<1>2. Narrowed(a).n = a.n /\ \A i \in 1..Order : Narrowed(a).kids[i] = a.kids[i]
  BY DEF Narrowed
<1>3. \A i \in 1..(a.n + 1) : i \in 1..Order /\ a.kids[i] # NoOffset
  BY <1>1 DEF AllKids
<1>q. QED
  BY <1>2, <1>3 DEF Whole, AllKids

LEMMA RootsWhole ==
  /\ \A k : Whole(RootOf(k))
  /\ \A k, left, right : left # NoOffset /\ right # NoOffset => Whole(NewRootOf(k, left, right))
<1>1. Order \in Nat /\ Order >= 2
  BY OrderAssumption
<1>2. ASSUME NEW k PROVE Whole(RootOf(k))
  <2>1. RootOf(k).n = 1 /\ \A i \in 1..2 : RootOf(k).kids[i] = NoOffset
    BY <1>1 DEF RootOf, Filler, NoOffset
  <2>q. QED
    BY <2>1 DEF Whole, NoKids
<1>3. ASSUME NEW k, NEW left, NEW right, left # NoOffset, right # NoOffset
      PROVE  Whole(NewRootOf(k, left, right))
  <2> DEFINE nd == NewRootOf(k, left, right)
  <2>1. nd.n = 1 /\ \A i \in 1..2 : nd.kids[i] # NoOffset
    BY <1>1, <1>3 DEF NewRootOf
  <2> HIDE DEF nd
  <2>2. Whole(nd)
    BY <2>1 DEF Whole, AllKids
  <2>q. QED
    BY <2>2 DEF nd
<1>q. QED
  BY <1>2, <1>3
-----------------------------------------------------------------------------
(* Paths *)

\* One more entry, the parent of the node below it.
LEMMA PushPath ==
  ASSUME NEW ns, NEW root, NEW st \in Seq(Int), NEW p \in 1..Len(ns), p \in Int, p # RootMark,
         NEW o \in KidsOf(ns[p]), Path(ns, root, st, p)
  PROVE  Path(ns, root, <<p>> \o st, o)
<1> DEFINE new == <<p>> \o st
<1>1. /\ Len(st) \in Nat /\ Len(st) >= 1 /\ Len(new) = Len(st) + 1 /\ new[1] = p /\ new # <<>>
      /\ \A i \in 1..Len(st) : new[i + 1] = st[i]
  BY DEF Path
<1> HIDE DEF new
<1>2. Above(ns, root, new[1], o)
  BY <1>1 DEF Above
<1>3. new[Len(new)] = RootMark
  <2>1. Len(st) \in 1..Len(st)
    BY <1>1
  <2>q. QED
    BY <1>1, <2>1 DEF Path
<1>4. ASSUME NEW i \in 2..Len(new) PROVE Above(ns, root, new[i], new[i - 1])
  <2>1. PICK j \in 1..Len(st) : i = j + 1
    <3>1. i - 1 \in 1..Len(st) /\ i = (i - 1) + 1
      BY <1>1
    <3>q. QED
      BY <3>1
  <2>2. new[i] = st[j] /\ i - 1 = j
    BY <1>1, <2>1
  <2>3. CASE j = 1
    BY <1>1, <2>2, <2>3 DEF Path
  <2>4. CASE j # 1
    <3>1. j \in 2..Len(st) /\ j - 1 \in 1..Len(st) /\ (j - 1) + 1 = j
      BY <1>1, <2>4
    <3>2. new[j] = st[j - 1]
      BY <1>1, <3>1
    <3>q. QED
      BY <2>2, <3>1, <3>2 DEF Path
  <2>q. QED
    BY <2>3, <2>4
<1>q. QED
  BY <1>1, <1>2, <1>3, <1>4 DEF Path, new

\* The path without the entry for the parent is the parent's.
LEMMA RestPath ==
  ASSUME NEW ns, NEW root, NEW st \in Seq(Int), NEW p, p # RootMark, NEW o,
         Path(ns, root, <<p>> \o st, o)
  PROVE  Path(ns, root, st, p) /\ p \in 1..Len(ns) /\ o \in KidsOf(ns[p])
<1> DEFINE new == <<p>> \o st
<1>1. /\ Len(st) \in Nat /\ Len(new) = Len(st) + 1 /\ new[1] = p
      /\ \A i \in 1..Len(st) : new[i + 1] = st[i]
  OBVIOUS
<1>a. Path(ns, root, new, o)
  OBVIOUS
<1> HIDE DEF new
<1>2. p \in 1..Len(ns) /\ o \in KidsOf(ns[p])
  BY <1>1, <1>a DEF Path, Above
<1>3. Len(st) >= 1
  <2>1. Len(st) # 0
    BY <1>1, <1>a DEF Path
  <2>q. QED
    BY <1>1, <2>1
<1>4. st # <<>> /\ st[Len(st)] = RootMark
  <2>1. Len(st) \in 1..Len(st) /\ new[Len(new)] = RootMark
    BY <1>3, <1>1, <1>a DEF Path
  <2>q. QED
    BY <1>1, <1>3, <2>1
<1>5. Above(ns, root, st[1], p)
  <2>1. 1 \in 1..Len(st) /\ 2 \in 2..Len(new) /\ 1 + 1 = 2 /\ 2 - 1 = 1
    BY <1>1, <1>3
  <2>2. new[2] = st[1]
    BY <1>1, <2>1
  <2>q. QED
    BY <1>1, <1>a, <2>1, <2>2 DEF Path
<1>6. ASSUME NEW i \in 2..Len(st) PROVE Above(ns, root, st[i], st[i - 1])
  <2>1. i \in 1..Len(st) /\ i - 1 \in 1..Len(st) /\ (i - 1) + 1 = i /\ (i + 1) - 1 = i
        /\ i + 1 \in 2..Len(new)
    BY <1>1
  <2>2. new[i + 1] = st[i] /\ new[i] = st[i - 1]
    BY <1>1, <2>1
  <2>q. QED
    BY <1>a, <2>1, <2>2 DEF Path
<1>q. QED
  BY <1>2, <1>4, <1>5, <1>6 DEF Path

\* Every entry of a stack that climbs from o has a higher grade than o.
LEMMA ClimbsAbove ==
  ASSUME NEW D, D \subseteq Nat, NEW r \in [D -> Nat], NEW root, NEW st \in Seq(Int), NEW o,
         Climbs(r, root, st, o), NEW i \in 1..Len(st), st[i] # RootMark
  PROVE  st[i] \in D /\ r[o] < r[st[i]]
<1> DEFINE Bad == {j \in 1..Len(st) : st[j] # RootMark /\ ~(st[j] \in D /\ r[o] < r[st[j]])}
<1>1. SUFFICES ASSUME i \in Bad PROVE FALSE
  OBVIOUS
<1>2. Bad \subseteq Nat /\ Bad # {}
  BY <1>1
<1>3. PICK j \in Bad : \A y \in Bad : ~(<<y, j>> \in OpToRel(<, Nat))
  BY <1>2, WFMin, NatLessThanWellFounded
<1>4. \A y \in Bad : ~(y < j)
  BY <1>2, <1>3 DEF OpToRel
<1>5. j \in 1..Len(st) /\ st[j] # RootMark /\ ~(st[j] \in D /\ r[o] < r[st[j]]) /\ o \in D
  BY DEF Climbs
<1>6. CASE j = 1
  BY <1>5, <1>6 DEF Climbs, Over
<1>7. CASE j # 1
  <2>1. j \in 2..Len(st) /\ j - 1 \in 1..Len(st) /\ j - 1 < j
    BY <1>5, <1>7
  <2>2. st[j - 1] \in D /\ Over(r, root, st[j], st[j - 1])
    BY <2>1 DEF Climbs
  <2>3. st[j] \in D /\ r[st[j - 1]] < r[st[j]]
    BY <1>5, <2>2 DEF Over
  <2>4. j - 1 \notin Bad
    BY <1>4, <2>1
  <2>5. st[j - 1] = RootMark \/ r[o] < r[st[j - 1]]
    BY <2>1, <2>4
  <2>6. st[j - 1] # RootMark
    BY <2>2 DEF RootMark
  <2>7. r[o] \in Nat /\ r[st[j - 1]] \in Nat /\ r[st[j]] \in Nat
    BY <1>5, <2>2, <2>3
  <2>q. QED
    BY <1>5, <2>3, <2>5, <2>6, <2>7
<1>q. QED
  BY <1>6, <1>7

\* A path stays one while the nodes on it do.
LEMMA PathKept ==
  ASSUME NEW ns, NEW ms, NEW root, NEW st, NEW o, Path(ns, root, st, o),
         1..Len(ns) \subseteq 1..Len(ms), Len(st) \in Nat, Len(st) >= 1,
         \A i \in 1..Len(st) : st[i] \in 1..Len(ns) => ms[st[i]] = ns[st[i]]
  PROVE  Path(ms, root, st, o)
<1>1. ASSUME NEW i \in 1..Len(st), NEW c, Above(ns, root, st[i], c) PROVE Above(ms, root, st[i], c)
  BY <1>1 DEF Above
<1>2. Above(ms, root, st[1], o)
  <2>1. 1 \in 1..Len(st)
    OBVIOUS
  <2>q. QED
    BY <1>1, <2>1 DEF Path
<1>3. ASSUME NEW i \in 2..Len(st) PROVE Above(ms, root, st[i], st[i - 1])
  <2>1. i \in 1..Len(st)
    OBVIOUS
  <2>q. QED
    BY <1>1, <2>1 DEF Path
<1>q. QED
  BY <1>2, <1>3 DEF Path
-----------------------------------------------------------------------------
(* The steps *)

\* A step that leaves whole nodes and ends outside of a descent and a split.
LEMMA CalmPath ==
  ASSUME \A s \in Slots' : Whole(nodes'[s]),
         pc' \notin {"descend", "leaf", "split", "right", "link", "newroot"}
  PROVE  Wholes' /\ StackPath'
BY DEF Wholes, StackPath, Splitting

LEMMA ParentsOpenPath ==
  ASSUME OffsetsSound, Wholes, ParentsOpen
  PROVE  Wholes' /\ StackPath'
<1>1. /\ pc = "parents" /\ pc' = "descend" /\ cur' = root_offset /\ nodes' = nodes
      /\ root_offset' = root_offset /\ stack' = stack
  BY Zenon DEF ParentsOpen, disk, globals
<1>2. stack = <<>>
  BY <1>1 DEF OffsetsSound, StackSound
<1>q. QED
  BY <1>1, <1>2 DEF Wholes, StackPath, Splitting, Slots

LEMMA LeafPath ==
  ASSUME TypeOK, OffsetsSound, Wholes, DescendNoKeys
  PROVE  Wholes' /\ StackPath'
<1>1. /\ pc = "descend" /\ pc' = "leaf" /\ CountAt(cur) = 0
      /\ nodes' = nodes /\ root_offset' = root_offset
  BY Zenon DEF DescendNoKeys, disk, globals
<1>2. root_offset \notin Slots
  <2>1. SUFFICES ASSUME root_offset \in Slots PROVE FALSE
    OBVIOUS
  <2>2. cur \in Slots /\ cur # Header
    BY <1>1, <2>1, SlotsType DEF OffsetsSound, SearchSound, TypeOK
  <2>q. QED
    BY <1>1, <2>2 DEF CountAt, OffsetsSound, NodesSound
<1>q. QED
  BY <1>1, <1>2 DEF Wholes, StackPath, Splitting, Slots

\* The search for a leaf pushes the parent of the node it is at, and stops where no child is.
LEMMA DescendPath ==
  ASSUME NEW r, TypeOK, OffsetsSound, Graded(r), Wholes, StackPath, Descend
  PROVE  Wholes' /\ StackPath'
<1> DEFINE x   == IF NodeNo(cur) = NodeNo(root_offset) THEN RootMark ELSE prev
           p   == Position(nodes[cur], key)
           kid == nodes[cur].kids[p]
<1>1. /\ nodes' = nodes /\ root_offset' = root_offset
      /\ pc = "descend" /\ CountAt(cur) # 0 /\ stack' = <<x>> \o stack
      /\ \/ kid = NoOffset /\ leaf_offset' = cur /\ pc' = "leaf" /\ cur' = cur /\ prev' = prev
         \/ kid # NoOffset /\ prev' = cur /\ cur' = kid /\ leaf_offset' = leaf_offset /\ pc' = pc
  BY Zenon DEF Descend, push, disk
<1>2. cur \in Slots /\ prev \in Slots /\ root_offset \in Slots
  BY <1>1 DEF OffsetsSound, SearchSound, CountAt
<1>3. /\ Slots \subseteq Nat \ {0} /\ DOMAIN r = Slots /\ r \in [Slots -> Nat] /\ stack \in Seq(Int)
      /\ DOMAIN nodes = Slots /\ RootMark \notin Slots /\ nodes \in Seq(Node)
  BY Domains DEF Graded, Grades, TypeOK
<1>4. /\ nodes[cur] \in Node /\ p \in 1..(nodes[cur].n + 1) /\ p \in 1..Order
  <2>1. nodes[cur] \in Node /\ key \in Int
    BY <1>2, <1>3 DEF TypeOK
  <2>q. QED
    BY <2>1, NodePosition
<1>5. Path(nodes, root_offset, stack', cur) /\ stack' \in Seq(Int)
  <2>1. CASE cur = root_offset
    <3>1. stack = <<>>
      BY <1>1, <1>2, <2>1 DEF StackPath
    <3>2. stack' = <<RootMark>>
      BY <1>1, <2>1, <3>1
    <3>q. QED
      BY <2>1, <3>2 DEF Path, Above, RootMark
  <2>2. CASE cur # root_offset
    <3>1. x = prev
      BY <1>2, <1>3, <2>2, RootTestExact
    <3>2. stack' = <<prev>> \o stack /\ prev \in Int
      BY <1>1, <1>2, <1>3, <3>1
    <3>3. <<prev>> \o stack \in Seq(Int)
      BY <1>3, <3>2
    <3>q. QED
      BY <1>1, <1>2, <2>2, <3>2, <3>3 DEF StackPath
  <2>q. QED
    BY <2>1, <2>2
<1>6. Wholes'
  BY <1>1 DEF Wholes, Splitting, Slots
<1>7. CASE kid = NoOffset /\ leaf_offset' = cur /\ pc' = "leaf"
  <2>1. NoKids(nodes[cur])
    BY <1>2, <1>4, <1>7 DEF Wholes, Whole, AllKids
  <2>q. QED
    BY <1>1, <1>5, <1>6, <1>7, <2>1 DEF StackPath
<1>8. CASE kid # NoOffset /\ prev' = cur /\ cur' = kid /\ pc' = pc
  <2>1. kid \in KidsOf(nodes[cur])
    BY <1>4, <1>8 DEF KidsOf
  <2>2. Path(nodes, root_offset, <<cur>> \o stack', kid)
    <3>1. cur \in 1..Len(nodes) /\ cur \in Int /\ cur # RootMark
      BY <1>2, <1>3 DEF Slots
    <3> HIDE DEF kid
    <3>q. QED
      BY <1>5, <2>1, <3>1, PushPath
  <2>3. kid # root_offset
    <3>1. r[kid] < r[cur] /\ kid \in Slots
      BY <1>2, <1>3, <1>4, <1>8 DEF Graded, Grades, Lower
    <3>2. r[cur] <= r[root_offset]
      BY <1>1, <1>2, <1>3 DEF Graded, DescentGraded
    <3> HIDE DEF kid
    <3>q. QED
      BY <1>2, <1>3, <3>1, <3>2
  <2> HIDE DEF kid, x
  <2>4. /\ pc' = "descend" /\ cur' # root_offset'
        /\ Path(nodes', root_offset', <<prev'>> \o stack', cur')
    BY <1>1, <1>8, <2>2, <2>3
  <2>q. QED
    BY <1>6, <2>4 DEF StackPath
<1>q. QED
  BY <1>1, <1>7, <1>8

LEMMA AddKeyPath ==
  ASSUME TypeOK, OffsetsSound, Wholes, StackPath, add_key_to_tree
  PROVE  Wholes' /\ StackPath'
<1>1. /\ pc = "leaf" /\ pc' = "split" /\ CountAt(leaf_offset) = Order - 1
      /\ aux' = WithKey(nodes[leaf_offset], key) /\ node_offset' = leaf_offset
      /\ nodes' = nodes /\ root_offset' = root_offset /\ stack' = stack
  BY Zenon DEF add_key_to_tree, disk, globals
<1>2. leaf_offset \in Slots /\ root_offset \in Slots
  BY <1>1, OrderAssumption DEF CountAt, OffsetsSound, RootSound
<1>3. nodes[leaf_offset] \in Node /\ nodes[leaf_offset].n = Order - 1 /\ key \in Int
  BY <1>1, <1>2, SlotsType DEF TypeOK, CountAt
<1>4. NoKids(nodes[leaf_offset]) /\ Path(nodes, root_offset, stack, leaf_offset)
  BY <1>1, <1>2 DEF StackPath
<1>5. Whole(aux')
  BY <1>1, <1>3, <1>4, WithKeyWhole
<1>6. Wholes'
  BY <1>1, <1>5 DEF Wholes, Splitting, Slots
<1>q. QED
  BY <1>1, <1>4, <1>6 DEF StackPath

\* The left half is written over a node that is below the whole path.
LEMMA SplitLeftPath ==
  ASSUME NEW r, Order >= 3, TypeOK, OffsetsSound, Graded(r), Wholes, StackPath, SplitLeft
  PROVE  Wholes' /\ StackPath'
<1>1. /\ pc = "split" /\ pc' = "right" /\ pop /\ nodes' = [nodes EXCEPT ![LeftOffset] = LeftOf(aux)]
      /\ aux' = aux /\ node_offset' = node_offset /\ root_offset' = root_offset
  BY Zenon DEF SplitLeft, write_node_at_offset
<1>2. /\ LeftOffset = node_offset /\ node_offset \in Slots /\ root_offset \in Slots
      /\ stack \in Seq(Int) /\ nodes \in Seq(Node) /\ stack # <<>>
      /\ aux \in AuxNode /\ aux.n = Order
  BY <1>1, LeftIsNode DEF OffsetsSound, SplitSound, StackSound, EndsInRoot, TypeOK
<1>3. Climbs(r, root_offset, stack, node_offset) /\ Path(nodes, root_offset, stack, node_offset)
  BY <1>1, <1>2 DEF Graded, SplitGraded, StackPath
<1>4. Slots' = Slots /\ \A s \in Slots : nodes'[s] = IF s = node_offset THEN LeftOf(aux) ELSE nodes[s]
  BY <1>1, <1>2 DEF Slots
<1>5. Whole(LeftOf(aux)) /\ Whole(aux)
  BY <1>1, <1>2, HalvesWhole DEF Wholes, Splitting
<1>6. Wholes'
  BY <1>1, <1>4, <1>5 DEF Wholes
<1>7. <<next_parent'>> \o stack' = stack
  <2>1. next_parent' = Head(stack) /\ stack' = Tail(stack)
    BY <1>1, <1>2 DEF pop
  <2>q. QED
    BY <1>2, <2>1, HeadTailProperties
<1>8. Path(nodes', root_offset, stack, node_offset)
  <2>1. Slots \subseteq Nat /\ r \in [Slots -> Nat] /\ RootMark \notin Slots
    BY <1>2, Domains DEF Graded, Grades
  <2>2. ASSUME NEW i \in 1..Len(stack), stack[i] \in 1..Len(nodes)
        PROVE  nodes'[stack[i]] = nodes[stack[i]]
    <3>1. stack[i] \in Slots /\ stack[i] # RootMark
      BY <2>1, <2>2 DEF Slots
    <3>2. r[node_offset] < r[stack[i]]
      BY <1>2, <1>3, <2>1, <3>1, ClimbsAbove
    <3>3. stack[i] # node_offset
      BY <1>2, <2>1, <3>2
    <3>q. QED
      BY <1>4, <3>1, <3>3
  <2>3. Len(stack) \in Nat /\ Len(stack) >= 1 /\ 1..Len(nodes) \subseteq 1..Len(nodes')
    BY <1>2, <1>4, EmptySeq DEF Slots
  <2>q. QED
    BY <1>3, <2>2, <2>3, PathKept
<1>q. QED
  BY <1>1, <1>6, <1>7, <1>8 DEF StackPath

\* What a path has after a node was written at the end of the file.
LEMMA SplitRightPath ==
  ASSUME Order >= 3, TypeOK, OffsetsSound, Wholes, StackPath, SplitRight
  PROVE  Wholes' /\ StackPath'
<1>1. /\ pc = "right" /\ write_node(RightOf(aux)) /\ pc' \in {"link", "newroot"}
      /\ root_offset' = root_offset /\ stack' = stack
      /\ aux' = aux /\ node_offset' = node_offset /\ next_parent' = next_parent
  BY DEF SplitRight, globals
<1>2. /\ nodes \in Seq(Node) /\ aux \in AuxNode /\ aux.n = Order /\ root_offset # NoOffset
      /\ root_offset \in Slots /\ stack \in Seq(Int) /\ next_parent \in Int
  BY <1>1, Domains DEF OffsetsSound, StackSound, SplitSound, TypeOK
<1>3. nodes' = Append(nodes, RightOf(aux))
  BY <1>1, <1>2 DEF write_node
<1>4. /\ Slots' = Slots \cup {Len(nodes) + 1} /\ nodes'[Len(nodes) + 1] = RightOf(aux)
      /\ \A s \in Slots : nodes'[s] = nodes[s]
  BY <1>2, <1>3 DEF Slots
<1>5. Whole(RightOf(aux)) /\ Whole(aux)
  BY <1>1, <1>2, HalvesWhole DEF Wholes, Splitting
<1>6. Wholes'
  BY <1>1, <1>4, <1>5 DEF Wholes
<1> DEFINE chain == <<next_parent>> \o stack
<1>7. Path(nodes, root_offset, chain, node_offset)
  BY <1>1, <1>2 DEF StackPath
<1>8. Len(chain) \in Nat /\ Len(chain) >= 1 /\ 1..Len(nodes) \subseteq 1..Len(nodes')
  BY <1>2, <1>4 DEF Slots
<1>9. \A i \in 1..Len(chain) : chain[i] \in 1..Len(nodes) => nodes'[chain[i]] = nodes[chain[i]]
  BY <1>4 DEF Slots
<1>10. Path(nodes', root_offset, chain, node_offset)
  <2> HIDE DEF chain
  <2>q. QED
    BY <1>7, <1>8, <1>9, PathKept
<1>q. QED
  BY <1>1, <1>6, <1>10 DEF StackPath

\* The node that takes the right half has the left one as a child: it is an inner node, and when it
\* is full the rest of the stack is its own path.
LEMMA LinkParentPath ==
  ASSUME TypeOK, OffsetsSound, Wholes, StackPath, LinkParent
  PROVE  Wholes' /\ StackPath'
<1>1. /\ pc = "link" /\ root_offset' = root_offset /\ stack' = stack
      /\ \/ /\ Parent.n <= Order - 1 /\ pc' = "cmd"
            /\ nodes' = [nodes EXCEPT ![next_parent] = Narrowed(Parent)]
         \/ aux' = Parent /\ node_offset' = next_parent /\ pc' = "split" /\ nodes' = nodes
  BY Zenon DEF LinkParent, globals, disk, Return, write_node_at_offset
<1>2. /\ Parent \in AuxNode /\ next_parent \in Slots /\ root_offset \in Slots
      /\ nodes \in Seq(Node) /\ stack \in Seq(Int) /\ next_parent # RootMark
      /\ right_offset \in Slots /\ right_offset # NoOffset
  BY <1>1, ParentSound, Domains DEF TypeOK, OffsetsSound, SplitSound
<1>3. Path(nodes, root_offset, stack, next_parent) /\ node_offset \in KidsOf(nodes[next_parent])
  BY <1>1, <1>2, RestPath DEF StackPath
<1>4. nodes[next_parent] \in Node /\ AllKids(nodes[next_parent])
  BY <1>2, <1>3, SlotsType DEF Wholes, Whole, NoKids, KidsOf
<1>5. AllKids(Parent)
  <2>1. SplitIndex + 1 \in 1..Order
    BY OrderAssumption DEF SplitIndex
  <2>2. SplitValue(aux) \in Int
    BY <2>1 DEF SplitValue, TypeOK, AuxNode
  <2>q. QED
    BY <1>2, <1>4, <2>2, WithSplitWhole DEF Parent
<1> HIDE DEF Parent
<1>6. CASE /\ Parent.n <= Order - 1 /\ pc' = "cmd"
           /\ nodes' = [nodes EXCEPT ![next_parent] = Narrowed(Parent)]
  <2>1. Whole(Narrowed(Parent))
    BY <1>2, <1>5, <1>6, NarrowedWhole
  <2>2. Slots' = Slots /\ \A s \in Slots : nodes'[s] = IF s = next_parent THEN Narrowed(Parent) ELSE nodes[s]
    BY <1>2, <1>6 DEF Slots
  <2>3. \A s \in Slots' : Whole(nodes'[s])
    BY <2>1, <2>2 DEF Wholes
  <2>q. QED
    BY <1>6, <2>3, CalmPath
<1>7. CASE aux' = Parent /\ node_offset' = next_parent /\ pc' = "split" /\ nodes' = nodes
  <2>1. Whole(aux')
    BY <1>5, <1>7 DEF Whole
  <2>2. Wholes'
    BY <1>7, <2>1 DEF Wholes, Slots
  <2>q. QED
    BY <1>1, <1>3, <1>7, <2>2 DEF StackPath
<1>q. QED
  BY <1>1, <1>6, <1>7

LEMMA RootsPath ==
  ASSUME TypeOK, OffsetsSound, Wholes, NewRoot \/ AddRoot
  PROVE  Wholes' /\ StackPath'
<1>1. CASE NewRoot
  <2> DEFINE nd == NewRootOf(SplitValue(aux), root_offset, right_offset)
  <2>1. pc = "newroot" /\ pc' = "cmd" /\ nodes' = Append(nodes, nd)
    BY <1>1, Zenon DEF NewRoot, Return
  <2>2. /\ nodes \in Seq(Node) /\ root_offset \in Slots /\ right_offset \in Slots
        /\ root_offset # NoOffset /\ right_offset # NoOffset
    BY <2>1, Domains DEF OffsetsSound, StackSound, SplitSound, TypeOK
  <2>4. Whole(nd)
    BY <2>2, RootsWhole
  <2> HIDE DEF nd
  <2>5. /\ Slots' = Slots \cup {Len(nodes) + 1} /\ nodes'[Len(nodes) + 1] = nd
        /\ \A s \in Slots : nodes'[s] = nodes[s]
    BY <2>1, <2>2 DEF Slots
  <2>6. \A s \in Slots' : Whole(nodes'[s])
    BY <2>4, <2>5 DEF Wholes
  <2>q. QED
    BY <2>1, <2>6, CalmPath
<1>2. CASE AddRoot
  <2> DEFINE nd == RootOf(key)
  <2>1. pc' = "cmd" /\ root_offset = NoOffset /\ write_node(nd)
    BY <1>2, Zenon DEF AddRoot, Return
  <2>2. /\ nodes \in Seq(Node) /\ NodesSound /\ key \in Int
        /\ nodes' = <<nd>> \o SubSeq(nodes, 2, Len(nodes))
    BY <2>1 DEF write_node, OffsetsSound, TypeOK
  <2>3. nd \in Node /\ nd.n >= 1
    <3>1. Int \subseteq Int /\ Filler \in Int
      BY DEF Filler
    <3>2. RootOf(key) \in Node /\ RootOf(key).n = 1
      BY <2>2, <3>1, RootsType
    <3>q. QED
      BY <3>2
  <2>4. \A i \in 1..Order : Kid(nd.kids[i])
    BY DEF RootOf, Kid, Filler, NoOffset
  <2>5. Whole(nd)
    BY RootsWhole
  <2> HIDE DEF nd
  <2>6. \A s \in Slots' : nodes'[s] = nd \/ (s \in Slots /\ nodes'[s] = nodes[s])
    BY <2>2, <2>3, <2>4, WriteFirst
  <2>7. \A s \in Slots' : Whole(nodes'[s])
    BY <2>5, <2>6 DEF Wholes
  <2>q. QED
    BY <2>1, <2>7, CalmPath
<1>q. QED
  BY <1>1, <1>2

LEMMA StepPath ==
  ASSUME Order >= 3, Cuts = {}, TypeOK, OffsetsSound, NEW r, Graded(r), Wholes, StackPath, [Next]_vars
  PROVE  Wholes' /\ StackPath'
<1>w. nodes' = nodes => \A s \in Slots' : Whole(nodes'[s])
  BY DEF Wholes, Slots
<1>1. CASE UNCHANGED vars
  <2>1. UNCHANGED <<nodes, root_offset, leaf_offset, stack, pc, cur, prev, aux, node_offset, next_parent>>
    BY <1>1, Zenon DEF vars, disk, globals, search, split
  <2>q. QED
    BY <2>1 DEF Wholes, StackPath, Splitting, Slots
<1>2. CASE Next
  <2>1. CASE Open \/ OpenFails \/ End \/ Eof \/ Kill
    <3>1. nodes' = nodes /\ pc' \in {"cmd", "exited", "died", "killed"}
      BY <2>1, Zenon DEF Open, OpenFails, End, Eof, Kill, Exit, disk
    <3>q. QED
      BY <1>w, <3>1, CalmPath
  <2>2. CASE (\E o \in {"add", "find"}, k \in CommandKeys : Command(o, k)) \/ FindEmpty \/ StartAdd
             \/ FindOpen \/ Answer \/ insert_in_node
    <3>1. nodes' = nodes /\ pc' \in {"call", "answer", "parents", "find", "cmd"}
      BY <2>2, Zenon DEF Command, FindEmpty, StartAdd, FindOpen, Answer, insert_in_node, Return, disk
    <3>q. QED
      BY <1>w, <3>1, CalmPath
  <2>3. CASE FindStep \/ print_tree
    <3>1. nodes' = nodes /\ pc' \in {"find", "answer", "cmd"}
      BY <2>3, Zenon DEF FindStep, FindAnswer, print_tree, disk
    <3>q. QED
      BY <1>w, <3>1, CalmPath
  <2>4. CASE ParentsOpen \/ DescendNoKeys \/ Descend
    BY <2>4, ParentsOpenPath, LeafPath, DescendPath
  <2>5. CASE add_key_to_tree \/ SplitLeft
    BY <2>5, AddKeyPath, SplitLeftPath
  <2>6. CASE SplitRight \/ LinkParent
    BY <2>6, SplitRightPath, LinkParentPath
  <2>7. CASE NewRoot \/ AddRoot
    BY <2>7, RootsPath
  <2>8. CASE \E c \in Cuts : KillInWrite(c)
    BY <2>8
  <2>q. QED
    BY <1>2, <2>1, <2>2, <2>3, <2>4, <2>5, <2>6, <2>7, <2>8, Zenon DEF Next, Serve
<1>q. QED
  BY <1>1, <1>2

\* The files as they are found at the start.
LEMMA InitPath ==
  ASSUME Init, \A f \in IndexFiles : /\ \E r : Grades(r, f.nodes)
                                     /\ \A s \in DOMAIN f.nodes : Whole(f.nodes[s])
  PROVE  (\E r : Graded(r)) /\ Wholes /\ StackPath
<1>1. pc = "exited" /\ (nodes = <<>> \/ \E f \in IndexFiles : nodes = f.nodes)
  BY Zenon DEF Init
<1>2. (\E r : Grades(r, nodes)) /\ \A s \in DOMAIN nodes : Whole(nodes[s])
  <2>1. CASE nodes = <<>>
    <3>1. Grades([s \in {} |-> 0], nodes)
      BY <2>1 DEF Grades
    <3>2. \A s \in DOMAIN nodes : Whole(nodes[s])
      BY <2>1
    <3>q. QED
      BY <3>1, <3>2
  <2>q. QED
    BY <1>1, <2>1
<1>3. \E r : Graded(r)
  BY <1>1, <1>2 DEF Graded, DescentGraded, SplitGraded
<1>4. DOMAIN nodes = Slots
  BY InitSound, Domains DEF TypeOK
<1>5. Wholes /\ StackPath
  BY <1>1, <1>2, <1>4 DEF Wholes, StackPath, Splitting
<1>q. QED
  BY <1>3, <1>5

\* Where no write of a node is cut short, and if every node of the files found at the start has all
\* its children or none and no cycle leads through it: while populate_parents goes down and
\* add_with_split comes back up, the stack is the chain of parents from the node at hand to the
\* root, through the writes of each split, for every order of at least 3 and every tree.
THEOREM StackIsPathAlways ==
  ASSUME Order >= 3, Cuts = {},
         \A f \in IndexFiles : /\ \E r : Grades(r, f.nodes)
                               /\ \A s \in DOMAIN f.nodes : Whole(f.nodes[s])
  PROVE  Spec => []StackIsPath
<1> DEFINE Inv == TypeOK /\ OffsetsSound /\ (\E r : Graded(r)) /\ Wholes /\ StackPath
<1>1. Init => Inv
  BY InitSound, InitPath
<1>2. Inv /\ [Next]_vars => Inv'
  <2> SUFFICES ASSUME Inv, [Next]_vars PROVE Inv'
    OBVIOUS
  <2>1. TypeOK' /\ OffsetsSound'
    BY StepSound
  <2>2. (\E r : Graded(r))'
    BY StepGraded
  <2>3. Wholes' /\ StackPath'
    BY StepPath
  <2>q. QED
    BY <2>1, <2>2, <2>3
<1>3. Inv => StackIsPath
  BY StackPathIs
<1>q. QED
  BY <1>1, <1>2, <1>3, PTL DEF Spec
=============================================================================
