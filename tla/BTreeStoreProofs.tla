-------------------------- MODULE BTreeStoreProofs ---------------------------
(***************************************************************************)
(* For every order from 3 on, with no write of a node cut short: seen from *)
(* outside the program is a set of keys, module KeyStore. The nodes below  *)
(* an offset, which the model collects level by level, are the least set   *)
(* closed under children; what a write changes about the keys below a node *)
(* is argued on such sets. The invariant adds to that of the search tree   *)
(* that the header names a root the tree has grown on, by first children,  *)
(* so that what a killed process leaves was there; and that the node in    *)
(* the file is a part of the one being divided, so that the keys of the    *)
(* tree and those in memory together are the keys of the store. Then each  *)
(* step of the program is a step of the store or none.                     *)
(***************************************************************************)
EXTENDS BTreeSearchProofs
-----------------------------------------------------------------------------
(* The nodes below an offset *)

\* No node of a forest is as high as there are nodes.
LEMMA HeightBound ==
  ASSUME nodes \in Seq(Node), NEW T, NEW h, NEW iv, Forest(T, h, iv, nodes), NEW r \in T
  PROVE  h[r] < Len(nodes)
<1>1. /\ T \subseteq 1..Len(nodes) /\ h \in [T -> Nat] /\ h[r] \in Nat /\ Len(nodes) \in Nat
      /\ \A s \in T : nodes[s].n \in Nat
  <2>1. T \subseteq 1..Len(nodes) /\ h \in [T -> Nat] /\ \A s \in T : nodes[s].n \in Nat
    BY ForestSlots DEF Slots
  <2>q. QED
    BY <2>1
<1>2. ASSUME NEW e \in 0..h[r] PROVE \E s \in T : h[s] = e
  <2> DEFINE Bad == {m \in Nat : m <= h[r] /\ ~\E s \in T : h[s] = h[r] - m}
  <2>1. Bad = {}
    <3>1. SUFFICES ASSUME Bad # {} PROVE FALSE
      OBVIOUS
    <3>2. PICK m \in Bad : \A y \in Bad : ~(<<y, m>> \in OpToRel(<, Nat))
      BY <3>1, WFMin, NatLessThanWellFounded
    <3>3. /\ m \in Nat /\ m <= h[r] /\ (~\E s \in T : h[s] = h[r] - m) /\ \A y \in Bad : ~(y < m)
      BY <3>2 DEF OpToRel
    <3>4. m # 0
      BY <1>1, <3>3
    <3>5. m - 1 \in Nat /\ m - 1 < m /\ m - 1 <= h[r] /\ m - 1 \notin Bad
      BY <1>1, <3>3, <3>4
    <3>6. PICK s \in T : h[s] = h[r] - (m - 1)
      BY <3>5
    <3>7. h[s] # 0 /\ 1 \in 1..(nodes[s].n + 1)
      BY <1>1, <3>3, <3>6
    <3>8. nodes[s].kids[1] \in T /\ h[nodes[s].kids[1]] = h[s] - 1
      BY <3>7 DEF Forest, Fits
    <3>9. h[s] - 1 = h[r] - m
      BY <1>1, <3>3, <3>6
    <3>q. QED
      BY <3>3, <3>8, <3>9
  <2>2. h[r] - e \in Nat /\ h[r] - e <= h[r] /\ h[r] - (h[r] - e) = e
    BY <1>1
  <2>q. QED
    BY <2>1, <2>2
<1> DEFINE f == [e \in 0..h[r] |-> CHOOSE s \in T : h[s] = e]
<1>3. \A e \in 0..h[r] : f[e] \in T /\ h[f[e]] = e
  BY <1>2
<1>4. f \in [0..h[r] -> 1..Len(nodes)]
  BY <1>1, <1>3
<1> HIDE DEF f
<1>5. f \in Injection(0..h[r], 1..Len(nodes))
  BY <1>3, <1>4 DEF Injection, IsInjective
<1>6. /\ IsFiniteSet(1..Len(nodes)) /\ Cardinality(1..Len(nodes)) = Len(nodes)
      /\ Cardinality(0..h[r]) = h[r] + 1
  <2>1. 0 \in Int /\ 1 \in Int /\ h[r] \in Int /\ Len(nodes) \in Int
    BY <1>1
  <2>2. /\ Cardinality(0..h[r]) = IF 0 > h[r] THEN 0 ELSE h[r] - 0 + 1
        /\ IsFiniteSet(1..Len(nodes))
        /\ Cardinality(1..Len(nodes)) = IF 1 > Len(nodes) THEN 0 ELSE Len(nodes) - 1 + 1
    BY <2>1, FS_Interval
  <2>q. QED
    BY <1>1, <2>2
<1>7. Cardinality(0..h[r]) <= Cardinality(1..Len(nodes))
  BY <1>5, <1>6, FS_Injection
<1>q. QED
  BY <1>1, <1>6, <1>7

\* R is the least set with r in it and with all children of its members.
Hull(ns, T, r, R) ==
  /\ r \in R /\ R \subseteq T
  /\ \A s \in R : KidsOf(ns[s]) \subseteq R
  /\ \A X : r \in X /\ (\A s \in X \cap T : KidsOf(ns[s]) \subseteq X) => R \subseteq X

LEMMA ReachHull ==
  ASSUME nodes \in Seq(Node), NEW T, NEW h, NEW iv, Forest(T, h, iv, nodes), NEW r \in T
  PROVE  Hull(nodes, T, r, Reach(r))
<1>1. /\ T \subseteq Slots /\ h \in [T -> Nat] /\ h[r] \in Nat /\ Len(nodes) \in Nat /\ h[r] < Len(nodes)
  BY ForestSlots, HeightBound
<1>2. r \in Reach(r) /\ Reach(r) \subseteq T
  <2>1. r \in Level(r)[0] /\ 0 \in 0..Len(nodes)
    BY <1>1, Levels
  <2>q. QED
    BY <2>1, KeysInForest DEF Reach
<1>3. ASSUME NEW s \in Reach(r), NEW c \in KidsOf(nodes[s]) PROVE c \in Reach(r)
  <2>1. PICK d \in 0..Len(nodes) : s \in Level(r)[d]
    BY DEF Reach
  <2>2. d \in Nat /\ s \in T /\ h[s] = h[r] - d
    <3>1. d \in Nat
      OBVIOUS
    <3>q. QED
      BY <2>1, <3>1, LevelInForest
  <2>3. c \in T /\ h[s] # 0
    BY <2>2, ForestKids
  <2>4. d + 1 \in 0..Len(nodes)
    BY <1>1, <2>2, <2>3
  <2>5. c \in Level(r)[d + 1]
    BY <1>1, <2>1, <2>2, <2>3, Levels
  <2>q. QED
    BY <2>4, <2>5 DEF Reach
<1>4. ASSUME NEW X, r \in X, \A s \in X \cap T : KidsOf(nodes[s]) \subseteq X
      PROVE  Reach(r) \subseteq X
  <2> DEFINE Bad == {m \in Nat : ~(Level(r)[m] \subseteq X)}
  <2>1. Bad = {}
    <3>1. SUFFICES ASSUME Bad # {} PROVE FALSE
      OBVIOUS
    <3>2. PICK m \in Bad : \A y \in Bad : ~(<<y, m>> \in OpToRel(<, Nat))
      BY <3>1, WFMin, NatLessThanWellFounded
    <3>3. m \in Nat /\ ~(Level(r)[m] \subseteq X) /\ \A y \in Bad : ~(y < m)
      BY <3>2 DEF OpToRel
    <3>4. m # 0
      BY <1>4, <3>3, Levels
    <3>5. m - 1 \in Nat /\ m - 1 < m /\ (m - 1) + 1 = m
      BY <3>3, <3>4
    <3>6. Level(r)[m - 1] \subseteq X
      BY <3>3, <3>5
    <3>7. Level(r)[m] = UNION {KidsOf(nodes[t]) \cap Slots : t \in Level(r)[m - 1]}
      BY <3>5, Levels
    <3>8. \A t \in Level(r)[m - 1] : t \in T
      BY <3>5, LevelInForest
    <3>q. QED
      BY <1>4, <3>3, <3>6, <3>7, <3>8
  <2>2. \A d \in 0..Len(nodes) : d \in Nat
    OBVIOUS
  <2>q. QED
    BY <2>1, <2>2 DEF Reach
<1>q. QED
  BY <1>2, <1>3, <1>4 DEF Hull

\* Reach(r) is the least set; from no slot nothing is reached.
Hulls ==
  nodes \in Seq(Node) =>
    /\ \A T, h, iv : Forest(T, h, iv, nodes) => \A r \in T : Hull(nodes, T, r, Reach(r))
    /\ \A r : r \notin Slots => Reach(r) = {}

\* What Reach computes, now and in the next state.
LEMMA HullsNow == Hulls
BY ReachHull, NoReach DEF Hulls

LEMMA HullsNext == Hulls'
BY HullsNow, PTL

\* Nothing is read below an offset but the nodes.
LEMMA ReachSame ==
  ASSUME nodes' = nodes
  PROVE  \A r : Reach(r)' = Reach(r) /\ KeysBelow(r)' = KeysBelow(r)
BY DEF Reach, KeysBelow, Level, Slots
-----------------------------------------------------------------------------
\* Where the children of the set are the same, the set is.
LEMMA HullSame ==
  ASSUME NEW ns, NEW ms, NEW T, NEW S, NEW r, NEW R, NEW Q, Hull(ns, T, r, R), Hull(ms, S, r, Q),
         \A s \in R : KidsOf(ms[s]) = KidsOf(ns[s])
  PROVE  Q = R
<1>1. Q \subseteq R
  BY DEF Hull
<1>2. R \subseteq Q
  <2> DEFINE X == Q \cap R
  <2>1. r \in X /\ \A s \in X \cap T : KidsOf(ns[s]) \subseteq X
    BY DEF Hull
  <2> HIDE DEF X
  <2>2. R \subseteq X
    BY <2>1 DEF Hull
  <2>q. QED
    BY <2>2 DEF X
<1>q. QED
  BY <1>1, <1>2

LEMMA HullIn ==
  ASSUME NEW ns, NEW T, NEW r, NEW R, NEW c, NEW C, Hull(ns, T, c, C), c \in R,
         \A s \in R : KidsOf(ns[s]) \subseteq R
  PROVE  C \subseteq R
BY DEF Hull
-----------------------------------------------------------------------------
\* below[c] is the least set of each child c of r.
HullEach(ns, T, r, below) == \A c \in KidsOf(ns[r]) : c \in T /\ Hull(ns, T, c, below[c])
\* R is r and what is below its children.
HullSum(ns, r, below, R) == \A s : s \in R <=> s = r \/ \E c \in KidsOf(ns[r]) : s \in below[c]

\* The least set with r in it is r and what is below its children.
LEMMA HullKids ==
  ASSUME NEW ns, NEW T, NEW r \in T, NEW R, Hull(ns, T, r, R), NEW below,
         HullEach(ns, T, r, below)
  PROVE  HullSum(ns, r, below, R)
<1> DEFINE X == {r} \cup UNION {below[c] : c \in KidsOf(ns[r])}
<1>0. \A c \in KidsOf(ns[r]) : c \in T /\ Hull(ns, T, c, below[c])
  BY DEF HullEach
<1>1. \A s \in X : KidsOf(ns[s]) \subseteq X
  <2> SUFFICES ASSUME NEW s \in X, NEW d \in KidsOf(ns[s]) PROVE d \in X
    OBVIOUS
  <2>1. CASE s = r
    BY <1>0, <2>1 DEF Hull
  <2>2. CASE s # r
    <3>1. PICK c \in KidsOf(ns[r]) : s \in below[c]
      BY <2>2
    <3>2. d \in below[c]
      BY <1>0, <3>1 DEF Hull
    <3>q. QED
      BY <3>2
  <2>q. QED
    BY <2>1, <2>2
<1>2. R \subseteq X
  <2>1. r \in X
    OBVIOUS
  <2> HIDE DEF X
  <2>q. QED
    BY <1>1, <2>1 DEF Hull
<1>3. ASSUME NEW c \in KidsOf(ns[r]) PROVE below[c] \subseteq R
  <2>1. c \in R /\ Hull(ns, T, c, below[c])
    BY <1>0 DEF Hull
  <2>2. \A s \in R : KidsOf(ns[s]) \subseteq R
    BY DEF Hull
  <2>q. QED
    BY <2>1, <2>2, HullIn
<1>4. r \in R
  BY DEF Hull
<1>q. QED
  BY <1>2, <1>3, <1>4 DEF HullSum

\* The keys below a node are its own and those below its children.
Unfolds ==
  nodes \in Seq(Node) =>
    \A T, h, iv : Forest(T, h, iv, nodes) =>
      \A s \in T : KeysBelow(s) = KeysOf(nodes[s]) \cup UNION {KeysBelow(c) : c \in KidsOf(nodes[s])}

LEMMA UnfoldsNow == Unfolds
<1>1. ASSUME nodes \in Seq(Node), NEW T, NEW h, NEW iv, Forest(T, h, iv, nodes), NEW s \in T
      PROVE  KeysBelow(s) = KeysOf(nodes[s]) \cup UNION {KeysBelow(c) : c \in KidsOf(nodes[s])}
  <2>1. PICK below : below = [c \in T |-> Reach(c)]
    OBVIOUS
  <2>2. \A c \in T : Hull(nodes, T, c, Reach(c))
    BY <1>1, ReachHull
  <2>3. \A c \in KidsOf(nodes[s]) : c \in T /\ below[c] = Reach(c)
    BY <1>1, <2>1, ForestKids
  <2>0. s \in T
    BY <1>1
  <2>4. Hull(nodes, T, s, Reach(s)) /\ HullEach(nodes, T, s, below)
    BY <2>0, <2>2, <2>3 DEF HullEach
  <2>5. HullSum(nodes, s, below, Reach(s))
    BY <2>0, <2>4, HullKids
  <2>q. QED
    BY <2>3, <2>5 DEF KeysBelow, HullSum
<1>q. QED
  BY <1>1 DEF Unfolds

LEMMA UnfoldsNext == Unfolds'
BY UnfoldsNow, PTL

\* What is below a node of a forest is not higher.
LEMMA HullLow ==
  ASSUME NEW T, NEW h, NEW iv, NEW ns, Forest(T, h, iv, ns), NEW r \in T, NEW R, Hull(ns, T, r, R),
         NEW s \in R
  PROVE  h[s] <= h[r]
<1> DEFINE X == {t \in T : h[t] <= h[r]}
<1>1. h \in [T -> Nat]
  BY DEF Forest
<1>2. r \in X
  BY <1>1
<1>3. ASSUME NEW t \in X, NEW c \in KidsOf(ns[t]) PROVE c \in X
  <2>1. c \in T /\ h[c] = h[t] - 1 /\ t \in T /\ h[t] <= h[r]
    BY ForestKids
  <2>q. QED
    BY <1>1, <2>1
<1> HIDE DEF X
<1>4. R \subseteq X
  BY <1>2, <1>3 DEF Hull
<1>q. QED
  BY <1>4 DEF X

\* Two files that differ in the node o only, and there in what is below it.
LEMMA Regraft ==
  ASSUME NEW ns, NEW ms, NEW T, NEW S, NEW r, NEW R, NEW Q, Hull(ns, T, r, R), Hull(ms, S, r, Q),
         NEW o, NEW A, o \notin A, \A s \in A : KidsOf(ns[s]) \subseteq A,
         KidsOf(ns[o]) \subseteq A, KidsOf(ms[o]) \subseteq A,
         \A s \in R \cup Q \cup A : s # o => KidsOf(ms[s]) = KidsOf(ns[s])
  PROVE  Q \subseteq R \cup A /\ R \subseteq Q \cup A
<1>1. Q \subseteq R \cup A
  <2> DEFINE X == R \cup A
  <2>1. r \in X /\ \A s \in X : KidsOf(ms[s]) \subseteq X
    BY DEF Hull
  <2> HIDE DEF X
  <2>2. Q \subseteq X
    BY <2>1 DEF Hull
  <2>q. QED
    BY <2>2 DEF X
<1>2. R \subseteq Q \cup A
  <2> DEFINE X == Q \cup A
  <2>1. r \in X /\ \A s \in X : KidsOf(ns[s]) \subseteq X
    BY DEF Hull
  <2> HIDE DEF X
  <2>2. R \subseteq X
    BY <2>1 DEF Hull
  <2>q. QED
    BY <2>2 DEF X
<1>q. QED
  BY <1>1, <1>2

\* A child more for the node o, at which nothing leads back to o.
Gains(ns, ms, o, c, X) ==
  KidsOf(ms[o]) = KidsOf(ns[o]) \cup {c} /\ \A s \in X : s # o => KidsOf(ms[s]) = KidsOf(ns[s])

LEMMA Grafted ==
  ASSUME NEW ns, NEW ms, NEW T, NEW S, NEW r, NEW R, NEW Q, Hull(ns, T, r, R), Hull(ms, S, r, Q),
         NEW o \in R, NEW c, NEW C, Hull(ns, T, c, C), o \notin C,
         NEW X, R \cup Q \cup C \subseteq X, Gains(ns, ms, o, c, X)
  PROVE  Q = R \cup C
<1>0. /\ KidsOf(ms[o]) = KidsOf(ns[o]) \cup {c}
      /\ \A s \in R \cup Q \cup C : s # o => KidsOf(ms[s]) = KidsOf(ns[s])
  BY DEF Gains
<1>1. Q \subseteq R \cup C
  <2> DEFINE Y == R \cup C
  <2>1. r \in Y /\ \A s \in Y : KidsOf(ms[s]) \subseteq Y
    BY <1>0 DEF Hull
  <2> HIDE DEF Y
  <2>2. Q \subseteq Y
    BY <2>1 DEF Hull
  <2>q. QED
    BY <2>2 DEF Y
<1>2. \A s \in Q : KidsOf(ns[s]) \subseteq Q
  <2> SUFFICES ASSUME NEW s \in Q PROVE KidsOf(ns[s]) \subseteq Q
    OBVIOUS
  <2>1. KidsOf(ms[s]) \subseteq Q
    BY DEF Hull
  <2>2. CASE s = o
    BY <1>0, <2>1, <2>2
  <2>3. CASE s # o
    BY <1>0, <2>1, <2>3
  <2>q. QED
    BY <2>2, <2>3
<1>3. r \in Q
  BY DEF Hull
<1>4. R \subseteq Q
  BY <1>2, <1>3 DEF Hull
<1>5. c \in Q
  <2>1. o \in Q
    BY <1>4
  <2>2. KidsOf(ms[o]) \subseteq Q
    BY <2>1 DEF Hull
  <2>q. QED
    BY <1>0, <2>2
<1>6. C \subseteq Q
  BY <1>2, <1>5, HullIn
<1>q. QED
  BY <1>1, <1>4, <1>6

\* The nodes of a path from the root are below it.
LEMMA PathHull ==
  ASSUME NEW ns, NEW T, NEW root, NEW R, Hull(ns, T, root, R), NEW st, Len(st) \in Nat, Len(st) >= 1,
         NEW o, Path(ns, root, st, o)
  PROVE  o \in R
<1> DEFINE In(i) == st[i] = RootMark \/ st[i] \in R
           Bad == {m \in Nat : m < Len(st) /\ ~In(Len(st) - m)}
<1>1. Bad = {}
  <2>1. SUFFICES ASSUME Bad # {} PROVE FALSE
    OBVIOUS
  <2>2. PICK m \in Bad : \A y \in Bad : ~(<<y, m>> \in OpToRel(<, Nat))
    BY <2>1, WFMin, NatLessThanWellFounded
  <2>3. m \in Nat /\ m < Len(st) /\ ~In(Len(st) - m) /\ \A y \in Bad : ~(y < m)
    BY <2>2 DEF OpToRel
  <2>4. st[Len(st)] = RootMark
    BY DEF Path
  <2>5. m # 0
    BY <2>3, <2>4
  <2> DEFINE j == Len(st) - m
  <2>6. m - 1 \in Nat /\ m - 1 < m /\ m - 1 < Len(st) /\ Len(st) - (m - 1) = j + 1 /\ j + 1 \in 2..Len(st)
        /\ (j + 1) - 1 = j
    BY <2>3, <2>5
  <2>7. In(j + 1)
    BY <2>3, <2>6
  <2>8. Above(ns, root, st[j + 1], st[j])
    BY <2>6 DEF Path
  <2>9. ~In(j)
    BY <2>3
  <2> HIDE DEF j
  <2>q. QED
    BY <2>7, <2>8, <2>9 DEF Above, Hull
<1>2. In(1)
  <2>1. Len(st) - 1 \in Nat /\ Len(st) - 1 < Len(st) /\ Len(st) - (Len(st) - 1) = 1
    OBVIOUS
  <2>2. Len(st) - 1 \notin Bad
    BY <1>1
  <2>q. QED
    BY <2>1, <2>2
<1>3. Above(ns, root, st[1], o)
  BY DEF Path
<1>q. QED
  BY <1>2, <1>3 DEF Above, Hull
-----------------------------------------------------------------------------
(* The answer of a search *)

\* If no node of F has the key and from none of them it goes on to a node that is not in F, a tree
\* whose root is one of F has not got the key.
LEMMA NotBelow ==
  ASSUME nodes \in Seq(Node), key \in Int, NEW T, NEW h, NEW iv, Forest(T, h, iv, nodes),
         NEW F, F \subseteq T, NEW r \in F, \A s \in F : Passed(s, F \cup {NoOffset})
  PROVE  key \notin KeysBelow(r)
<1> DEFINE X == F \cup {s \in T : key \notin iv[s]}
<1>1. Hull(nodes, T, r, Reach(r))
  BY ReachHull
<1>2. NoOffset \notin T /\ \A s \in T : nodes[s] \in Node
  BY ForestSlots
<1>3. ASSUME NEW s \in X, NEW c \in KidsOf(nodes[s]) PROVE c \in X
  <2>1. s \in T
    OBVIOUS
  <2>2. PICK i \in 1..(nodes[s].n + 1) : /\ c = nodes[s].kids[i]
                                         /\ iv[c] \subseteq Between(nodes[s], i) \cap iv[s]
    BY <2>1, ForestKids
  <2>3. c \in T /\ c # NoOffset
    BY <1>2, <2>1, ForestKids
  <2>4. CASE key \notin iv[s]
    BY <2>2, <2>3, <2>4
  <2>5. CASE s \in F /\ key \in Between(nodes[s], i)
    <3>1. Ordered(nodes[s]) /\ nodes[s] \in Node
      BY <1>2, <2>1 DEF Forest, Fits
    <3>2. Position(nodes[s], key) = i
      BY <2>5, <3>1, PositionOnly
    <3>q. QED
      BY <2>2, <2>3, <2>5, <3>2 DEF Passed
  <2>6. CASE key \notin Between(nodes[s], i)
    BY <2>2, <2>3, <2>6
  <2>q. QED
    BY <2>4, <2>5, <2>6
<1>4. r \in X
  OBVIOUS
<1>5. ASSUME NEW s \in X PROVE key \notin KeysOf(nodes[s])
  <2>1. CASE s \in F
    BY <2>1 DEF Passed
  <2>2. CASE s \in T /\ key \notin iv[s]
    BY <2>2 DEF Forest, Fits
  <2>q. QED
    BY <2>1, <2>2
<1> HIDE DEF X
<1>6. Reach(r) \subseteq X
  BY <1>1, <1>3, <1>4 DEF Hull
<1>q. QED
  BY <1>5, <1>6 DEF KeysBelow

\* A search that has not found the key is right.
AnswerRight == pc = "answer" /\ ~found => key \notin KeysBelow(root_offset)
Certified   == TypeOK /\ OffsetsSound /\ \E T, h, iv, F : Held(T, h, iv, F)

LEMMA AnswerNow == Certified => AnswerRight
<1> SUFFICES ASSUME Certified, pc = "answer", ~found PROVE key \notin KeysBelow(root_offset)
  BY DEF AnswerRight
<1>1. PICK T, h, iv, F : Held(T, h, iv, F)
  BY DEF Certified
<1>2. nodes \in Seq(Node) /\ key \in Int /\ Forest(T, h, iv, nodes)
  BY <1>1 DEF Certified, TypeOK, Held
<1>3. CASE root_offset \notin Slots
  <2>1. Reach(root_offset) = {}
    BY <1>3, NoReach
  <2>q. QED
    BY <2>1 DEF KeysBelow
<1>4. CASE root_offset \in Slots
  <2>1. F \subseteq T /\ root_offset \in F /\ \A s \in F : Passed(s, F \cup {NoOffset})
    BY <1>1, <1>4 DEF Held, SearchHeld
  <2>q. QED
    BY <1>2, <2>1, NotBelow
<1>q. QED
  BY <1>3, <1>4

LEMMA AnswerNext == Certified' => AnswerRight'
BY AnswerNow, PTL
-----------------------------------------------------------------------------
\* The stage of each pc.
Stages ==
  /\ pc = "exited" => Stage = "ended"
  /\ pc \in {"died", "killed"} => Stage = "down"
  /\ pc = "cmd" => Stage = "ready"
  /\ pc \in {"call", "find"} => Stage = "lookup"
  /\ pc \in {"answer", "parents", "descend", "leaf"} => Stage = "answer"
  /\ pc \in {"split", "right", "link", "newroot"} => Stage = "adding"

LEMMA StagesNow == Stages
<1>1. pc = "exited" => Stage = "ended"
  BY Zenon DEF Stage
<1>2. pc \in {"died", "killed"} => Stage = "down"
  BY Zenon DEF Stage
<1>3. pc = "cmd" => Stage = "ready"
  BY Zenon DEF Stage
<1>4. pc \in {"call", "find"} => Stage = "lookup"
  BY Zenon DEF Stage
<1>5. pc \in {"answer", "parents", "descend", "leaf"} => Stage = "answer"
  BY Zenon DEF Stage
<1>6. pc \in {"split", "right", "link", "newroot"} => Stage = "adding"
  BY Zenon DEF Stage
<1>q. QED
  BY <1>1, <1>2, <1>3, <1>4, <1>5, <1>6 DEF Stages

LEMMA StagesNext == Stages'
BY StagesNow, PTL

\* Each step of the store, and none of them.
StoreStep == [Store!Next]_(Store!vars)

LEMMA StoreSteps ==
  ASSUME \/ Live' = Live /\ Stage' = Stage /\ UNCHANGED <<op, key, found>>
         \/ Stage \in {"ended", "down"} /\ Stage' = "ready" /\ Live' = Live /\ UNCHANGED <<op, key, found>>
         \/ \E o \in {"add", "find"}, k \in CommandKeys :
              /\ Stage = "ready" /\ Stage' = "lookup" /\ op' = o /\ key' = k
              /\ Live' = Live /\ found' = found
         \/ /\ Stage = "lookup" /\ Stage' = "answer" /\ Live' = Live /\ UNCHANGED <<op, key>>
            /\ (found' = TRUE /\ key \in Live) \/ (found' = FALSE /\ key \notin Live)
         \/ Stage = "answer" /\ (op = "find" \/ found) /\ Stage' = "ready" /\ NoLocals /\ Live' = Live
         \/ /\ Stage = "answer" /\ op = "add" /\ ~found /\ Live' = Live \cup {key}
            /\ \/ Stage' = "ready" /\ NoLocals
               \/ Stage' = "adding" /\ UNCHANGED <<op, key, found>>
         \/ Stage = "answer" /\ op = "add" /\ ~found /\ Stage' = "ready" /\ NoLocals /\ Live' = Live
         \/ Stage = "adding" /\ Stage' = "ready" /\ NoLocals /\ Live' = Live
         \/ Stage = "ready" /\ Stage' = "ended" /\ NoLocals /\ Live' = Live
         \/ Stage \notin {"ended", "down"} /\ Stage' = "down" /\ NoLocals /\ Live' \subseteq Live
  PROVE  StoreStep
<1>1. NoLocals => op' = "none" /\ key' = 0 /\ found' = FALSE
  BY Zenon DEF NoLocals
<1>2. (found' = TRUE /\ key \in Live) \/ (found' = FALSE /\ key \notin Live) => found' = (key \in Live)
  <2>1. CASE found' = TRUE /\ key \in Live
    BY <2>1, Zenon
  <2>2. CASE found' = FALSE /\ key \notin Live
    <3>1. (key \in Live) \in BOOLEAN
      OBVIOUS
    <3>q. QED
      BY <2>2, <3>1
  <2>q. QED
    BY <2>1, <2>2
<1>3. ASSUME /\ Stage = "lookup" /\ Stage' = "answer" /\ Live' = Live /\ UNCHANGED <<op, key>>
             /\ found' = (key \in Live)
      PROVE  StoreStep
  BY <1>3, Zenon DEF StoreStep, Store!Next, Store!Lookup
<1>q. QED
  BY <1>1, <1>2, <1>3 DEF StoreStep, Store!Next, Store!vars, Store!Start, Store!Request, Store!Lookup, Store!Reply,
         Store!Insert, Store!Drop, Store!Added, Store!End, Store!Abort, Store!NoCommand

LEMMA LiveStays ==
  ASSUME nodes' = nodes, root_offset' = root_offset, Alive, Alive', ~Splitting, ~Splitting'
  PROVE  Live' = Live
<1>1. KeysBelow(root_offset)' = KeysBelow(root_offset)
  BY ReachSame
<1>2. InFlight = {} /\ InFlight' = {}
  BY DEF InFlight, Splitting
<1>q. QED
  BY <1>1, <1>2 DEF Live
-----------------------------------------------------------------------------
(* The invariant *)

\* o is the root or one goes to o from there by first children.
OnSpine(ns, root, o) ==
  \A X : root \in X /\ (\A s \in X : s \in 1..Len(ns) /\ ns[s].kids[1] # NoOffset => ns[s].kids[1] \in X)
         => o \in X

\* The header names an earlier root, which every new root has as its first child or below that.
HeaderOnSpine == Alive /\ header \in Slots => OnSpine(nodes, root_offset, header)

\* The node in the file is a part of the one being divided, and then its halves are all of it.
Parts ==
  /\ pc = "split" => /\ KeysOf(nodes[node_offset]) \subseteq KeysOf(aux)
                     /\ KidsOf(nodes[node_offset]) \subseteq KidsOf(aux)
                     /\ nodes[node_offset].kids[1] = aux.kids[1]
  /\ pc \in {"link", "newroot"} => nodes[node_offset] = LeftOf(aux) /\ nodes[right_offset] = RightOf(aux)

StoreHeld ==
  /\ HeaderOnSpine /\ Parts
  /\ pc \in {"parents", "descend", "leaf"} => op = "add" /\ ~found
  /\ pc = "find" => cur = root_offset \/ cur \in Reach(root_offset)

LEMMA SpineKept ==
  ASSUME NEW ns, NEW ms, NEW root, NEW o, OnSpine(ns, root, o), 1..Len(ns) \subseteq 1..Len(ms),
         \A s \in 1..Len(ns) : ms[s].kids[1] = ns[s].kids[1]
  PROVE  OnSpine(ms, root, o)
BY DEF OnSpine

\* The tree the header points to is a part of the tree the process works on.
LEMMA HeaderBelow ==
  ASSUME TypeOK, OffsetsSound, NEW T, NEW h, NEW iv, NEW F, Held(T, h, iv, F), HeaderOnSpine, Alive
  PROVE  KeysBelow(header) \subseteq KeysBelow(root_offset)
<1>1. CASE header \notin Slots
  <2>1. Reach(header) = {}
    BY <1>1, NoReach
  <2>q. QED
    BY <2>1 DEF KeysBelow
<1>2. CASE header \in Slots
  <2>1. /\ nodes \in Seq(Node) /\ Forest(T, h, iv, nodes) /\ root_offset \in T /\ header \in T
        /\ OnSpine(nodes, root_offset, header)
    BY <1>2 DEF Held, HeaderHeld, RootHeld, TypeOK, HeaderOnSpine
  <2>2. Hull(nodes, T, root_offset, Reach(root_offset)) /\ Hull(nodes, T, header, Reach(header))
    BY <2>1, ReachHull
  <2>3. ASSUME NEW s \in Reach(root_offset), nodes[s].kids[1] # NoOffset
        PROVE  nodes[s].kids[1] \in Reach(root_offset)
    <3>1. s \in T /\ nodes[s].n \in Nat
      BY <2>1, <2>2, ForestSlots DEF Hull
    <3>2. 1 \in 1..(nodes[s].n + 1)
      BY <3>1
    <3>3. nodes[s].kids[1] \in KidsOf(nodes[s])
      BY <2>3, <3>2 DEF KidsOf
    <3>q. QED
      BY <2>2, <3>3 DEF Hull
  <2>4. header \in Reach(root_offset)
    BY <2>1, <2>2, <2>3 DEF OnSpine, Hull
  <2>5. Reach(header) \subseteq Reach(root_offset)
    BY <2>2, <2>4, HullIn DEF Hull
  <2>q. QED
    BY <2>5 DEF KeysBelow
<1>q. QED
  BY <1>1, <1>2

\* Whatever ends a process without the command end: what is left was there.
LEMMA AbortStore ==
  ASSUME TypeOK, OffsetsSound, NEW T, NEW h, NEW iv, NEW F, Held(T, h, iv, F), StoreHeld,
         OpenFails \/ Eof \/ Kill
  PROVE  StoreStep /\ StoreHeld'
<1>1. /\ nodes' = nodes /\ header' = header /\ NoLocals /\ pc' \in {"died", "killed"}
      /\ pc \in {"call", "parents", "cmd"} \/ Alive
  BY Zenon DEF OpenFails, Eof, Kill, Exit, disk
<1>2. Alive /\ ~Alive'
  BY <1>1 DEF Alive
<1>3. KeysBelow(header)' = KeysBelow(header) /\ KeysBelow(header) \subseteq KeysBelow(root_offset)
  BY <1>1, <1>2, ReachSame, HeaderBelow DEF StoreHeld
<1>4. Live' \subseteq Live
  BY <1>2, <1>3 DEF Live
<1>5. Stage \notin {"ended", "down"} /\ Stage' = "down"
  <2>1. pc \in {"cmd", "call", "find", "answer", "parents", "descend", "leaf", "split", "right", "link", "newroot"}
    BY <1>2 DEF Alive, TypeOK
  <2>q. QED
    BY <1>1, <2>1, StagesNow, StagesNext DEF Stages
<1>6. StoreStep
  BY <1>1, <1>4, <1>5, StoreSteps
<1>7. StoreHeld'
  BY <1>1, <1>2 DEF StoreHeld, HeaderOnSpine, Parts
<1>q. QED
  BY <1>6, <1>7
-----------------------------------------------------------------------------
(* The steps that read *)

\* Nothing is written and nothing divided, before and after.
LEMMA QuietStore ==
  ASSUME StoreHeld, UNCHANGED <<disk, root_offset>>, Alive, Alive', ~Splitting, ~Splitting',
         pc' \in {"parents", "descend", "leaf"} => op' = "add" /\ ~found',
         pc' = "find" => cur' = root_offset \/ cur' \in Reach(root_offset)
  PROVE  StoreHeld' /\ Live' = Live
<1>1. nodes' = nodes /\ header' = header /\ root_offset' = root_offset
  BY DEF disk
<1>2. Live' = Live
  BY <1>1, LiveStays
<1>3. HeaderOnSpine'
  BY <1>1 DEF StoreHeld, HeaderOnSpine, Slots
<1>4. Parts'
  BY DEF Parts, Splitting
<1>5. Reach(root_offset)' = Reach(root_offset)
  BY <1>1, ReachSame
<1>q. QED
  BY <1>1, <1>2, <1>3, <1>4, <1>5 DEF StoreHeld

\* A command is read and its offsets are set.
LEMMA CommandStore ==
  ASSUME StoreHeld, (\E o \in {"add", "find"}, k \in CommandKeys : Command(o, k)) \/ print_tree
  PROVE  StoreStep /\ StoreHeld'
<1>1. /\ UNCHANGED <<disk, root_offset>> /\ pc = "cmd" /\ found' = found
      /\ \/ pc' = "call" /\ \E o \in {"add", "find"}, k \in CommandKeys : op' = o /\ key' = k
         \/ pc' = "cmd" /\ op' = op /\ key' = key
  BY Zenon DEF Command, print_tree, globals, command
<1>2. Alive /\ Alive' /\ ~Splitting /\ ~Splitting' /\ pc' \notin {"find", "parents", "descend", "leaf"}
  BY <1>1 DEF Alive, Splitting
<1>3. StoreHeld' /\ Live' = Live
  BY <1>1, <1>2, QuietStore
<1>q. QED
  BY <1>1, <1>3, StoreSteps, StagesNow, StagesNext DEF Stages

\* The search starts at the root, or answers at once.
LEMMA FindOpenStore ==
  ASSUME TypeOK, OffsetsSound, StoreHeld, FindEmpty \/ FindOpen
  PROVE  StoreStep /\ StoreHeld'
<1>1. /\ UNCHANGED <<disk, root_offset>> /\ pc = "call" /\ op' = op /\ key' = key
      /\ \/ pc' = "answer" /\ root_offset = NoOffset /\ found' = FALSE
         \/ pc' = "find" /\ found' = found /\ cur' = root_offset
  BY Zenon DEF FindEmpty, FindOpen, globals, command
<1>2. Alive /\ Alive' /\ ~Splitting /\ ~Splitting' /\ pc' \notin {"parents", "descend", "leaf"}
  BY <1>1 DEF Alive, Splitting
<1>3. StoreHeld' /\ Live' = Live
  BY <1>1, <1>2, QuietStore
<1>4. root_offset = NoOffset => Live = {}
  <2>1. SUFFICES ASSUME root_offset = NoOffset PROVE Live = {}
    OBVIOUS
  <2>2. root_offset \notin Slots
    BY <2>1, SlotsType DEF TypeOK
  <2>3. Reach(root_offset) = {} /\ InFlight = {}
    BY <1>1, <2>2, NoReach DEF InFlight
  <2>q. QED
    BY <1>2, <2>3 DEF Live, KeysBelow
<1>q. QED
  BY <1>1, <1>3, <1>4, StoreSteps, StagesNow, StagesNext DEF Stages

\* The answer is found when a node of the tree has the key, and is right when it is not.
LEMMA FindStepStore ==
  ASSUME TypeOK, OffsetsSound, NEW T, NEW h, NEW iv, NEW F, Held(T, h, iv, F), StoreHeld, Certified', FindStep
  PROVE  StoreStep /\ StoreHeld'
<1> DEFINE nd == nodes[cur]
           p == Position(nd, key)
<1>1. /\ UNCHANGED <<disk, root_offset>> /\ pc = "find" /\ op' = op /\ key' = key
      /\ \/ pc' = "answer" /\ found' = FALSE
         \/ /\ CountAt(cur) # 0 /\ p <= nd.n /\ nd.keys[p] = key
            /\ pc' = "answer" /\ found' = TRUE
         \/ /\ CountAt(cur) # 0 /\ nd.kids[p] # NoOffset /\ cur' = nd.kids[p]
            /\ pc' = "find" /\ found' = found
  BY Zenon DEF FindStep, FindAnswer, globals, command
<1>2. Alive /\ Alive' /\ ~Splitting /\ ~Splitting' /\ pc' \notin {"parents", "descend", "leaf"}
  BY <1>1 DEF Alive, Splitting
<1>3. ASSUME CountAt(cur) # 0
      PROVE  /\ Hull(nodes, T, root_offset, Reach(root_offset)) /\ cur \in Reach(root_offset)
             /\ nd.n \in Nat /\ p \in 1..(nd.n + 1)
  <2>1. cur \in Slots /\ nodes \in Seq(Node) /\ key \in Int
    BY <1>1, <1>3 DEF CountAt, OffsetsSound, SearchSound, TypeOK
  <2>2. root_offset \in Slots
    BY <1>1, <2>1, NoReach DEF StoreHeld
  <2>3. Forest(T, h, iv, nodes) /\ root_offset \in T
    BY <1>2, <2>2 DEF Held, RootHeld
  <2>4. Hull(nodes, T, root_offset, Reach(root_offset))
    BY <2>1, <2>3, ReachHull
  <2>5. cur \in Reach(root_offset)
    BY <1>1, <2>4 DEF StoreHeld, Hull
  <2>6. nd \in Node
    BY <2>1, SlotsType
  <2> HIDE DEF nd
  <2>7. nd.n \in Nat /\ p \in 1..(nd.n + 1)
    <3>1. nd.n \in Nat /\ \A i \in 1..nd.n : nd.keys[i] \in Int
      BY <2>6, OrderAssumption DEF Node
    <3>2. Position(nd, key) \in 1..(nd.n + 1)
      BY <2>1, <3>1, PositionType
    <3>q. QED
      BY <3>1, <3>2
  <2>q. QED
    BY <2>4, <2>5, <2>7
<1> HIDE DEF p
<1>4. pc' = "find" => cur' \in Reach(root_offset)
  BY <1>1, <1>3 DEF Hull, KidsOf
<1>5. StoreHeld' /\ Live' = Live
  BY <1>1, <1>2, <1>4, QuietStore
<1>6. Live = KeysBelow(root_offset) /\ KeysBelow(root_offset)' = KeysBelow(root_offset)
  BY <1>1, <1>2, ReachSame DEF Live, InFlight, Splitting, disk
<1>7. pc' = "answer" /\ found' = FALSE => key \notin Live
  BY <1>1, <1>6, AnswerNext DEF AnswerRight
<1>8. pc' = "answer" /\ found' = TRUE => key \in Live
  BY <1>1, <1>3, <1>6 DEF KeysBelow, KeysOf
<1>9. CASE pc' = "answer" /\ found' = FALSE
  BY <1>1, <1>5, <1>7, <1>9, StoreSteps, StagesNow, StagesNext DEF Stages
<1>10. CASE pc' = "answer" /\ found' = TRUE
  BY <1>1, <1>5, <1>8, <1>10, StoreSteps, StagesNow, StagesNext DEF Stages
<1>11. CASE pc' = "find" /\ found' = found
  BY <1>1, <1>5, <1>11, StoreSteps, StagesNow, StagesNext DEF Stages
<1>q. QED
  BY <1>1, <1>9, <1>10, <1>11

\* find ends with its answer, add with it when the key is there.
LEMMA AnswerStore ==
  ASSUME StoreHeld, Answer \/ insert_in_node
  PROVE  StoreStep /\ StoreHeld'
<1>1. /\ UNCHANGED <<disk, root_offset>> /\ NoLocals /\ pc' = "cmd"
      /\ (pc = "answer" /\ (op = "find" \/ found)) \/ pc = "leaf"
  BY Zenon DEF Answer, insert_in_node, Return, globals
<1>2. Alive /\ Alive' /\ ~Splitting /\ ~Splitting' /\ pc' \notin {"find", "parents", "descend", "leaf"}
  BY <1>1 DEF Alive, Splitting
<1>3. StoreHeld' /\ Live' = Live
  BY <1>1, <1>2, QuietStore
<1>4. pc = "leaf" => op = "add" /\ ~found
  BY DEF StoreHeld
<1>q. QED
  BY <1>1, <1>3, <1>4, StoreSteps, StagesNow, StagesNext DEF Stages

\* The way to the leaf of an add.
LEMMA DescentStore ==
  ASSUME StoreHeld, StartAdd \/ ParentsOpen \/ DescendNoKeys \/ Descend
  PROVE  StoreStep /\ StoreHeld'
<1>1. /\ UNCHANGED <<disk, root_offset>> /\ op' = op /\ key' = key /\ found' = found
      /\ pc \in {"answer", "parents", "descend"} /\ pc' \in {"parents", "descend", "leaf"}
      /\ pc = "answer" => op = "add" /\ ~found
  BY Zenon DEF StartAdd, ParentsOpen, DescendNoKeys, Descend, globals, command
<1>2. Alive /\ Alive' /\ ~Splitting /\ ~Splitting' /\ op' = "add" /\ ~found'
  BY <1>1 DEF Alive, Splitting, StoreHeld
<1>3. StoreHeld' /\ Live' = Live
  BY <1>1, <1>2, QuietStore
<1>q. QED
  BY <1>1, <1>3, StoreSteps, StagesNow, StagesNext DEF Stages
-----------------------------------------------------------------------------
(* The session, and the steps that store a key *)

\* A session starts with what the last one left, and ends with the header at the root.
LEMMA SessionStore ==
  ASSUME TypeOK, OffsetsSound, NEW T, NEW h, NEW iv, NEW F, Held(T, h, iv, F), StoreHeld, Open \/ End
  PROVE  StoreStep /\ StoreHeld'
<1>1. CASE Open
  <2>1. /\ nodes' = nodes /\ header' = header /\ root_offset' = (IF exists THEN header ELSE NoOffset)
        /\ ~Alive /\ pc' = "cmd" /\ op' = op /\ key' = key /\ found' = found
    BY <1>1, Zenon DEF Open, locals, command
  <2>2. Alive' /\ pc \in {"exited", "died", "killed"}
    BY <2>1 DEF Alive
  <2>3. (header \in Slots => root_offset' = header) /\ KeysBelow(root_offset') = KeysBelow(header)
    <3>1. CASE exists
      BY <2>1, <3>1
    <3>2. CASE ~exists
      <4>1. header = Header /\ root_offset' = NoOffset
        BY <2>1, <3>2 DEF Held, HeaderHeld
      <4>2. header \notin Slots /\ root_offset' \notin Slots
        BY <4>1, SlotsType DEF TypeOK
      <4>3. Reach(header) = {} /\ Reach(root_offset') = {}
        BY <4>2, NoReach
      <4>q. QED
        BY <4>2, <4>3 DEF KeysBelow
    <3>q. QED
      BY <3>1, <3>2
  <2>4. Live' = Live
    <3>1. KeysBelow(root_offset)' = KeysBelow(root_offset')
      BY <2>1, ReachSame
    <3>2. InFlight' = {}
      BY <2>1 DEF InFlight
    <3>q. QED
      BY <2>1, <2>2, <2>3, <3>1, <3>2 DEF Live
  <2>5. StoreHeld'
    <3>1. HeaderOnSpine'
      <4>1. ASSUME header \in Slots PROVE OnSpine(nodes, root_offset', header)
        BY <2>3, <4>1 DEF OnSpine
      <4>q. QED
        BY <2>1, <4>1 DEF HeaderOnSpine, Slots
    <3>q. QED
      BY <2>1, <3>1 DEF StoreHeld, Parts
  <2>q. QED
    BY <2>1, <2>2, <2>4, <2>5, StoreSteps, StagesNow, StagesNext DEF Stages
<1>2. CASE End
  <2>1. nodes' = nodes /\ header' = root_offset /\ pc = "cmd" /\ pc' = "exited" /\ NoLocals
    BY <1>2, Zenon DEF End, Exit
  <2>2. Alive /\ ~Alive' /\ InFlight = {}
    BY <2>1 DEF Alive, InFlight
  <2>3. KeysBelow(header)' = KeysBelow(root_offset)
    BY <2>1, ReachSame
  <2>4. Live' = Live
    BY <2>2, <2>3 DEF Live
  <2>5. StoreHeld'
    BY <2>1, <2>2 DEF StoreHeld, HeaderOnSpine, Parts
  <2>q. QED
    BY <2>1, <2>4, <2>5, StoreSteps, StagesNow, StagesNext DEF Stages
<1>q. QED
  BY <1>1, <1>2

\* The leaf that is full takes the key, in memory.
LEMMA AddKeyStore ==
  ASSUME TypeOK, OffsetsSound, StackPath, NEW T, NEW h, NEW iv, NEW F, Held(T, h, iv, F), StoreHeld,
         add_key_to_tree
  PROVE  StoreStep /\ StoreHeld'
<1> DEFINE nd == nodes[leaf_offset]
           w  == WithKey(nd, key)
<1>1. /\ pc = "leaf" /\ pc' = "split" /\ CountAt(leaf_offset) = Order - 1
      /\ aux' = w /\ node_offset' = leaf_offset
      /\ nodes' = nodes /\ header' = header /\ root_offset' = root_offset
      /\ op' = op /\ key' = key /\ found' = found
  BY Zenon DEF add_key_to_tree, disk, globals, command
<1>2. /\ leaf_offset \in Slots /\ root_offset \in Slots /\ nd \in Node /\ KidsOf(nd) = {} /\ KidsOf(w) = {}
  BY <1>1, LeafTakesKey
<1>3. /\ Alive /\ Alive' /\ ~Splitting /\ op = "add" /\ ~found
      /\ nodes \in Seq(Node) /\ key \in Int /\ stack \in Seq(Int)
  BY <1>1 DEF Alive, Splitting, StoreHeld, TypeOK
<1>4. KeysOf(w) = KeysOf(nd) \cup {key} /\ w.n = nd.n + 1 /\ nd.n \in Nat
  <2> HIDE DEF nd
  <2>1. nd.n \in Nat
    BY <1>2, OrderAssumption DEF Node
  <2>2. KeysOf(w) = KeysOf(nd) \cup {key}
    <3>1. \A u : u = WithKey(nd, key) => KeysOf(u) = KeysOf(nd) \cup {key}
      <4>1. SUFFICES ASSUME NEW u, u = WithKey(nd, key) PROVE KeysOf(u) = KeysOf(nd) \cup {key}
        OBVIOUS
      <4>2. u \in {WithKey(nd, key), WithSplit(nd, key, NoOffset)} /\ nd \in Node /\ key \in Int
        BY <1>2, <1>3, <4>1
      <4>q. QED
        BY <4>2, InsertionKeepsKeys
    <3>q. QED
      BY <3>1
  <2>3. w.n = nd.n + 1
    BY DEF WithKey, Inserted, Widened
  <2>q. QED
    BY <2>1, <2>2, <2>3
<1> HIDE DEF w
<1>5. nd.kids[1] = NoOffset /\ w.kids[1] = NoOffset
  <2> HIDE DEF nd
  <2>1. 1 \in 1..(nd.n + 1) /\ 1 \in 1..(w.n + 1)
    BY <1>4
  <2>q. QED
    BY <1>2, <2>1 DEF KidsOf
<1>6. leaf_offset \in Reach(root_offset)
  <2>1. Forest(T, h, iv, nodes) /\ root_offset \in T
    BY <1>2, <1>3 DEF Held, RootHeld
  <2>2. Hull(nodes, T, root_offset, Reach(root_offset))
    BY <1>3, <2>1, ReachHull
  <2>3. Path(nodes, root_offset, stack, leaf_offset)
    BY <1>1, <1>2 DEF StackPath
  <2>4. Len(stack) \in Nat /\ Len(stack) >= 1
    BY <1>3, <2>3, EmptySeq DEF Path
  <2>q. QED
    BY <2>2, <2>3, <2>4, PathHull
<1>7. KeysOf(nd) \subseteq KeysBelow(root_offset)
  BY <1>6 DEF KeysBelow
<1>8. Live' = Live \cup {key}
  <2>1. Live = KeysBelow(root_offset)
    BY <1>1, <1>3 DEF Live, InFlight
  <2>2. KeysBelow(root_offset)' = KeysBelow(root_offset)
    BY <1>1, ReachSame
  <2>3. InFlight' = KeysOf(w)
    <3>1. KidsOf(aux') = {}
      BY <1>1, <1>2
    <3>q. QED
      BY <1>1, <3>1 DEF InFlight
  <2>q. QED
    BY <1>3, <1>4, <1>7, <2>1, <2>2, <2>3 DEF Live
<1>9. StoreHeld'
  <2>1. HeaderOnSpine'
    BY <1>1, <1>3 DEF StoreHeld, HeaderOnSpine, Slots
  <2>2. Parts'
    BY <1>1, <1>2, <1>4, <1>5 DEF Parts
  <2>q. QED
    BY <1>1, <2>1, <2>2 DEF StoreHeld
<1>q. QED
  BY <1>1, <1>3, <1>8, <1>9, StoreSteps, StagesNow, StagesNext DEF Stages

\* The first root holds the key and nothing else.
LEMMA AddRootStore ==
  ASSUME TypeOK, OffsetsSound, NEW T, NEW h, NEW iv, NEW F, Held(T, h, iv, F), StoreHeld,
         NEW S, NEW g, NEW iu, NEW G, Held(S, g, iu, G)', TypeOK', AddRoot
  PROVE  StoreStep /\ StoreHeld'
<1> DEFINE N == RootOf(key)
<1>1. /\ pc = "answer" /\ op = "add" /\ ~found /\ root_offset = NoOffset /\ pc' = "cmd" /\ NoLocals
      /\ root_offset' = 1 /\ header' = header
      /\ nodes' = <<N>> \o SubSeq(nodes, 2, Len(nodes))
  BY Zenon DEF AddRoot, Return, write_node
<1>2. nodes \in Seq(Node) /\ nodes' \in Seq(Node) /\ root_offset \notin Slots /\ Alive /\ Alive'
  BY <1>1, SlotsType DEF TypeOK, Alive
<1>3. header \in {NoOffset, Header}
  BY <1>1, <1>2 DEF Held, HeaderHeld, OffsetsSound, RootSound
<1>4. header' \notin Slots'
  <2>1. \A s \in Slots' : s # NoOffset /\ s # Header
    <3>1. Len(nodes') \in Nat
      BY <1>2
    <3>q. QED
      BY <3>1 DEF Slots, NoOffset, Header
  <2>q. QED
    BY <1>1, <1>3, <2>1
<1>5. 1 \in Slots' /\ nodes'[1] = N
  <2>1. SubSeq(nodes, 2, Len(nodes)) \in Seq(Node) /\ Len(SubSeq(nodes, 2, Len(nodes))) \in Nat
    BY <1>2
  <2> HIDE DEF N
  <2>2. Len(nodes') = 1 + Len(SubSeq(nodes, 2, Len(nodes))) /\ nodes'[1] = N
    BY <1>1, <2>1
  <2>q. QED
    BY <2>1, <2>2 DEF Slots
<1>6. N.n = 1 /\ N.keys[1] = key /\ N.kids[1] = NoOffset /\ N.kids[2] = NoOffset
  BY OrderAssumption DEF RootOf, Filler, NoOffset
<1> HIDE DEF N
<1>7. KeysOf(N) = {key} /\ KidsOf(N) = {}
  <2>1. 1..N.n = {1} /\ 1..(N.n + 1) = {1, 2}
    BY <1>6
  <2>q. QED
    BY <1>6, <2>1 DEF KeysOf, KidsOf
<1>8. Reach(1)' = {1}
  <2>1. 1 \in S /\ Forest(S, g, iu, nodes')
    BY <1>1, <1>2, <1>5 DEF Held, RootHeld
  <2>2. Hull(nodes', S, 1, Reach(1)')
    BY <1>2, <2>1, HullsNext DEF Hulls
  <2>q. QED
    BY <1>5, <1>7, <2>1, <2>2 DEF Hull
<1>9. Live = {} /\ Live' = {key}
  <2>1. Reach(root_offset) = {} /\ InFlight = {} /\ InFlight' = {}
    BY <1>1, <1>2, NoReach DEF InFlight
  <2>2. Reach(root_offset)' = {1}
    BY <1>1, <1>8
  <2>q. QED
    BY <1>2, <1>5, <1>7, <2>1, <2>2 DEF Live, KeysBelow
<1>10. StoreHeld'
  BY <1>1, <1>4 DEF StoreHeld, HeaderOnSpine, Parts
<1>11. Live' = Live \cup {key}
  BY <1>9
<1>q. QED
  BY <1>1, <1>10, <1>11, StoreSteps, StagesNow, StagesNext DEF Stages
-----------------------------------------------------------------------------
(* The writes of a split *)

\* The children of a node that fits are in the forest, one lower than it.
LEMMA FitsKids ==
  ASSUME NEW T, NEW h, NEW iv, NEW nd, NEW d, NEW W, Fits(T, h, iv, nd, d, W), NEW c \in KidsOf(nd)
  PROVE  c \in T /\ h[c] = d - 1
<1>1. PICK i \in 1..(nd.n + 1) : c = nd.kids[i] /\ c # NoOffset
  BY DEF KidsOf
<1>2. d # 0
  BY <1>1 DEF Fits
<1>q. QED
  BY <1>1, <1>2 DEF Fits

\* The left half is part of the divided node, its first child the same.
LEMMA LeftPart ==
  ASSUME NEW a \in AuxNode, a.n = Order
  PROVE  /\ KeysOf(LeftOf(a)) \subseteq KeysOf(a) /\ KidsOf(LeftOf(a)) \subseteq KidsOf(a)
         /\ LeftOf(a).kids[1] = a.kids[1]
<1>1. KeysOf(LeftOf(a)) \subseteq KeysOf(a) /\ KidsOf(LeftOf(a)) \subseteq KidsOf(a)
  BY DivisionKeepsAll
<1>2. LeftOf(a).kids[1] = a.kids[1]
  BY OrderAssumption DEF LeftOf, SplitIndex
<1>q. QED
  BY <1>1, <1>2

\* The left half is written: what the node had is in the divided one still.
LEMMA SplitLeftStore ==
  ASSUME NEW r, TypeOK, OffsetsSound, Graded(r), NEW T, NEW h, NEW iv, NEW F, Held(T, h, iv, F), StoreHeld,
         NEW S, NEW g, NEW iu, NEW G, Held(S, g, iu, G)', TypeOK', SplitLeft
  PROVE  StoreStep /\ StoreHeld'
<1> DEFINE L == LeftOf(aux)
           A == UNION {Reach(c) : c \in KidsOf(aux)}
<1>1. /\ pc = "split" /\ pc' = "right" /\ nodes' = [nodes EXCEPT ![LeftOffset] = L]
      /\ aux' = aux /\ node_offset' = node_offset /\ root_offset' = root_offset
      /\ header' = header /\ op' = op /\ key' = key /\ found' = found
  BY Zenon DEF SplitLeft, write_node_at_offset, command
<1>2. /\ LeftOffset = node_offset /\ node_offset \in Slots /\ root_offset \in Slots
      /\ nodes \in Seq(Node) /\ nodes' \in Seq(Node) /\ aux \in AuxNode /\ aux.n = Order
  BY <1>1, LeftIsNode DEF OffsetsSound, SplitSound, StackSound, TypeOK
<1>3. /\ Slots' = Slots /\ Alive /\ Alive' /\ nodes'[node_offset] = L
      /\ \A s \in Slots : s # node_offset => nodes'[s] = nodes[s]
  BY <1>1, <1>2 DEF Slots, Alive
<1>4. /\ Forest(T, h, iv, nodes) /\ node_offset \in T /\ root_offset \in T
      /\ Fits(T, h, iv, aux, h[node_offset], iv[node_offset])
  BY <1>1, <1>2, <1>3 DEF Held, SplitHeld, RootHeld, Splitting, Divided
<1>5. /\ Forest(S, g, iu, nodes') /\ node_offset \in S /\ root_offset \in S
      /\ Fits(S, g, iu, aux, g[node_offset], iu[node_offset])
  BY <1>1, <1>2, <1>3 DEF Held, SplitHeld, RootHeld, Splitting, Divided
<1>6. T \subseteq Slots /\ h \in [T -> Nat] /\ S \subseteq Slots
  BY <1>2, <1>3, <1>4, <1>5, ForestSlots DEF Forest, Slots
<1>7. ASSUME NEW c \in KidsOf(aux)
      PROVE  /\ Hull(nodes, T, c, Reach(c)) /\ node_offset \notin Reach(c)
             /\ Reach(c)' = Reach(c) /\ KeysBelow(c)' = KeysBelow(c)
  <2>1. c \in T /\ h[c] = h[node_offset] - 1 /\ c \in S
    BY <1>4, <1>5, FitsKids
  <2>2. Hull(nodes, T, c, Reach(c)) /\ Hull(nodes', S, c, Reach(c)')
    BY <1>2, <1>4, <1>5, <2>1, ReachHull, HullsNext DEF Hulls
  <2>3. node_offset \notin Reach(c)
    <3>1. SUFFICES ASSUME node_offset \in Reach(c) PROVE FALSE
      OBVIOUS
    <3>2. h[node_offset] <= h[c]
      BY <1>4, <2>1, <2>2, <3>1, HullLow
    <3>q. QED
      BY <1>4, <1>6, <2>1, <3>2
  <2>4. \A s \in Reach(c) : nodes'[s] = nodes[s]
    BY <1>3, <1>6, <2>2, <2>3 DEF Hull
  <2>5. Reach(c)' = Reach(c)
    BY <2>2, <2>4, HullSame
  <2>6. KeysBelow(c)' = KeysBelow(c)
    BY <2>4, <2>5 DEF KeysBelow
  <2>q. QED
    BY <2>2, <2>3, <2>5, <2>6
<1>8. /\ node_offset \notin A /\ A \subseteq Slots /\ KidsOf(aux) \subseteq A
      /\ \A s \in A : KidsOf(nodes[s]) \subseteq A
  BY <1>6, <1>7 DEF Hull
<1>9. /\ KeysOf(L) \subseteq KeysOf(aux) /\ KidsOf(L) \subseteq KidsOf(aux) /\ L.kids[1] = aux.kids[1]
      /\ KeysOf(nodes[node_offset]) \subseteq KeysOf(aux) /\ KidsOf(nodes[node_offset]) \subseteq KidsOf(aux)
      /\ nodes[node_offset].kids[1] = aux.kids[1]
  BY <1>1, <1>2, LeftPart DEF StoreHeld, Parts
<1>10. InFlight' = InFlight /\ InFlight = KeysOf(aux) \cup UNION {KeysOf(nodes[s]) : s \in A}
  <2>1. /\ InFlight = KeysOf(aux) \cup UNION {KeysBelow(c) : c \in KidsOf(aux)}
        /\ InFlight' = KeysOf(aux) \cup UNION {KeysBelow(c)' : c \in KidsOf(aux)}
    BY <1>1 DEF InFlight
  <2>2. InFlight' = InFlight
    BY <1>7, <2>1
  <2>3. UNION {KeysBelow(c) : c \in KidsOf(aux)} = UNION {KeysOf(nodes[s]) : s \in A}
    BY DEF KeysBelow
  <2>q. QED
    BY <2>1, <2>2, <2>3
<1>11. Reach(root_offset)' \subseteq Reach(root_offset) \cup A /\ Reach(root_offset) \subseteq Reach(root_offset)' \cup A
  <2>1. Hull(nodes, T, root_offset, Reach(root_offset)) /\ Hull(nodes', S, root_offset, Reach(root_offset)')
    <3>1. \A o : o = root_offset => Hull(nodes', S, o, Reach(o)')
      BY <1>2, <1>5, HullsNext DEF Hulls
    <3>q. QED
      BY <1>1, <1>2, <1>4, <3>1, ReachHull
  <2>2. Reach(root_offset) \subseteq Slots /\ Reach(root_offset)' \subseteq Slots
    BY <1>6, <2>1 DEF Hull
  <2>3. \A s \in Reach(root_offset) \cup Reach(root_offset)' \cup A :
          s # node_offset => KidsOf(nodes'[s]) = KidsOf(nodes[s])
    BY <1>3, <1>8, <2>2
  <2>4. KidsOf(nodes[node_offset]) \subseteq A /\ KidsOf(nodes'[node_offset]) \subseteq A
    BY <1>3, <1>8, <1>9
  <2> HIDE DEF A
  <2>q. QED
    BY <1>8, <2>1, <2>3, <2>4, Regraft
<1> HIDE DEF A
<1>12. Live' = Live
  <2> DEFINE Q == Reach(root_offset)'
  <2>1. Live = InFlight \cup UNION {KeysOf(nodes[s]) : s \in Reach(root_offset)}
    BY <1>3 DEF Live, KeysBelow
  <2>2. Live' = InFlight \cup UNION {KeysOf(nodes'[s]) : s \in Q}
    BY <1>3, <1>10 DEF Live, KeysBelow
  <2>3. Reach(root_offset) \subseteq Slots /\ Q \subseteq Slots
    BY <1>2, <1>4, <1>6, <1>8, <1>11, ReachHull DEF Hull
  <2>4. ASSUME NEW k \in Live PROVE k \in Live'
    <3>1. CASE k \in InFlight
      BY <2>2, <3>1
    <3>2. CASE \E s \in Reach(root_offset) : k \in KeysOf(nodes[s])
      <4>1. PICK s \in Reach(root_offset) : k \in KeysOf(nodes[s])
        BY <3>2
      <4>2. CASE s = node_offset
        BY <1>9, <1>10, <2>2, <4>1, <4>2
      <4>3. CASE s # node_offset
        BY <1>3, <1>10, <1>11, <2>2, <2>3, <4>1, <4>3
      <4>q. QED
        BY <4>2, <4>3
    <3>q. QED
      BY <2>1, <3>1, <3>2
  <2>5. ASSUME NEW k \in Live' PROVE k \in Live
    <3>1. CASE k \in InFlight
      BY <2>1, <3>1
    <3>2. CASE \E s \in Q : k \in KeysOf(nodes'[s])
      <4>1. PICK s \in Q : k \in KeysOf(nodes'[s])
        BY <3>2
      <4>2. CASE s = node_offset
        BY <1>3, <1>9, <1>10, <2>1, <4>1, <4>2
      <4>3. CASE s # node_offset
        BY <1>3, <1>10, <1>11, <2>1, <2>3, <4>1, <4>3
      <4>q. QED
        BY <4>2, <4>3
    <3>q. QED
      BY <2>2, <3>1, <3>2
  <2>q. QED
    BY <2>4, <2>5
<1>13. StoreHeld'
  <2>1. ASSUME NEW s \in Slots PROVE nodes'[s].kids[1] = nodes[s].kids[1]
    BY <1>3, <1>9
  <2>2. HeaderOnSpine'
    BY <1>1, <1>3, <2>1, SpineKept DEF StoreHeld, HeaderOnSpine, Slots
  <2>q. QED
    BY <1>1, <2>2 DEF StoreHeld, Parts
<1>q. QED
  BY <1>1, <1>12, <1>13, StoreSteps, StagesNow, StagesNext DEF Stages
-----------------------------------------------------------------------------
\* A tree of which no node is written keeps its keys.
LEMMA TreeKept ==
  ASSUME nodes \in Seq(Node), nodes' \in Seq(Node), NEW T, NEW h, NEW iv, Forest(T, h, iv, nodes),
         NEW S, NEW g, NEW iu, Forest(S, g, iu, nodes'), NEW c \in T, c \in S,
         \A s \in Slots : nodes'[s] = nodes[s]
  PROVE  Reach(c)' = Reach(c) /\ KeysBelow(c)' = KeysBelow(c)
<1>1. Hull(nodes, T, c, Reach(c)) /\ Hull(nodes', S, c, Reach(c)') /\ T \subseteq Slots
  BY ReachHull, HullsNext, ForestSlots DEF Hulls
<1>2. \A s \in Reach(c) : nodes'[s] = nodes[s]
  BY <1>1 DEF Hull
<1>3. Reach(c)' = Reach(c)
  BY <1>1, <1>2, HullSame
<1>q. QED
  BY <1>2, <1>3 DEF KeysBelow

\* A header that names a node after a write at the end of the file named one before.
LEMMA HeaderSlot ==
  ASSUME OffsetsSound, TypeOK', header' = header, header' \in Slots'
  PROVE  header \in Slots
<1>1. Len(nodes') \in Nat
  BY DEF TypeOK
<1>2. header # NoOffset /\ header # Header
  BY <1>1 DEF Slots, NoOffset, Header
<1>q. QED
  BY <1>2 DEF OffsetsSound, RootSound

\* The right half is written at the end of the file; nothing leads to it yet.
LEMMA SplitRightStore ==
  ASSUME TypeOK, OffsetsSound, NEW T, NEW h, NEW iv, NEW F, Held(T, h, iv, F), StoreHeld,
         NEW S, NEW g, NEW iu, NEW G, Held(S, g, iu, G)', TypeOK', SplitRight
  PROVE  StoreStep /\ StoreHeld'
<1> DEFINE R == RightOf(aux)
           new == Len(nodes) + 1
<1>1. /\ pc = "right" /\ right_offset' = new /\ write_node(R) /\ pc' \in {"link", "newroot"}
      /\ aux' = aux /\ node_offset' = node_offset /\ root_offset' = root_offset /\ header' = header
      /\ op' = op /\ key' = key /\ found' = found
  BY Zenon DEF SplitRight, write_node, globals, command
<1>2. /\ node_offset \in T /\ root_offset \in Slots /\ root_offset # NoOffset /\ nodes \in Seq(Node)
      /\ nodes' \in Seq(Node) /\ aux \in AuxNode /\ aux.n = Order /\ Alive /\ Alive'
  BY <1>1, SlotsType DEF OffsetsSound, StackSound, SplitSound, TypeOK, Held, SplitHeld, Splitting, Alive
<1>3. nodes' = Append(nodes, R)
  BY <1>1, <1>2 DEF write_node
<1>4. /\ nodes'[new] = R /\ \A s \in Slots : nodes'[s] = nodes[s] /\ s \in Slots'
  <2> HIDE DEF R
  <2>1. Len(nodes) \in Nat
    BY <1>2
  <2>2. /\ nodes'[Len(nodes) + 1] = R /\ Len(nodes') = Len(nodes) + 1
        /\ \A s \in 1..Len(nodes) : nodes'[s] = nodes[s]
    BY <1>2, <1>3, <2>1
  <2>q. QED
    BY <2>1, <2>2 DEF Slots
<1>5. /\ Forest(T, h, iv, nodes) /\ root_offset \in T /\ nodes[node_offset] = LeftOf(aux)
      /\ Fits(T, h, iv, aux, h[node_offset], iv[node_offset]) /\ T \subseteq Slots
  BY <1>1, <1>2, ForestSlots DEF Held, SplitHeld, RootHeld, Splitting, Divided
<1>6. /\ Forest(S, g, iu, nodes') /\ root_offset \in S /\ node_offset \in S /\ right_offset' \in S
  BY <1>1, <1>2, <1>4 DEF Held, SplitHeld, RootHeld, Splitting, Halved
<1>7. nodes'[node_offset] = LeftOf(aux) /\ nodes'[right_offset'] = R
  BY <1>1, <1>2, <1>4, <1>5
<1> HIDE DEF new
<1>8. ASSUME NEW c \in KidsOf(aux) PROVE KeysBelow(c)' = KeysBelow(c)
  <2>1. c \in T
    BY <1>5, FitsKids
  <2>2. c \in KidsOf(LeftOf(aux)) \cup KidsOf(R)
    BY <1>2, DivisionKeepsAll
  <2> HIDE DEF R
  <2>3. c \in S
    BY <1>6, <1>7, <2>2, ForestKids
  <2>q. QED
    BY <1>2, <1>4, <1>5, <1>6, <2>1, <2>3, TreeKept
<1>9. Live' = Live
  <2>1. KeysBelow(root_offset)' = KeysBelow(root_offset)
    <3>1. \A o : o = root_offset => KeysBelow(o)' = KeysBelow(o)
      BY <1>2, <1>4, <1>5, <1>6, TreeKept
    <3>q. QED
      BY <1>1, <3>1
  <2>2. /\ InFlight = KeysOf(aux) \cup UNION {KeysBelow(c) : c \in KidsOf(aux)}
        /\ InFlight' = KeysOf(aux) \cup UNION {KeysBelow(c)' : c \in KidsOf(aux)}
    BY <1>1 DEF InFlight
  <2>3. InFlight' = InFlight
    BY <1>8, <2>2
  <2>q. QED
    BY <1>2, <2>1, <2>3 DEF Live
<1>10. StoreHeld'
  <2>1. HeaderOnSpine'
    <3>1. header' \in Slots' => header \in Slots
      BY <1>1, HeaderSlot
    <3>2. header \in Slots => OnSpine(nodes, root_offset, header)
      BY <1>2 DEF StoreHeld, HeaderOnSpine
    <3>3. header \in Slots => OnSpine(nodes', root_offset, header)
      BY <1>4, <3>2, SpineKept DEF Slots
    <3>q. QED
      BY <1>1, <3>1, <3>3 DEF HeaderOnSpine
  <2>2. Parts'
    BY <1>1, <1>7 DEF Parts
  <2>q. QED
    BY <1>1, <2>1, <2>2 DEF StoreHeld
<1>q. QED
  BY <1>1, <1>9, <1>10, StoreSteps, StagesNow, StagesNext DEF Stages

\* Once both halves are in the file, what the process has in memory is there too, but for the value
\* that moves up.
LEMMA LinkedKeys ==
  ASSUME TypeOK, OffsetsSound, NEW r, Graded(r), StackPath, NEW T, NEW h, NEW iv, NEW F, Held(T, h, iv, F),
         StoreHeld, pc \in {"link", "newroot"}
  PROVE  Live = KeysBelow(root_offset) \cup {SplitValue(aux)} \cup KeysBelow(right_offset)
<1>1. /\ root_offset \in Slots /\ aux \in AuxNode /\ aux.n = Order /\ nodes \in Seq(Node) /\ Alive
      /\ next_parent \in Slots \cup {RootMark} /\ stack \in Seq(Int)
  BY DEF OffsetsSound, StackSound, SplitSound, TypeOK, Alive
<1>2. /\ Forest(T, h, iv, nodes) /\ root_offset \in T /\ node_offset \in T /\ right_offset \in T
      /\ nodes[node_offset] = LeftOf(aux) /\ nodes[right_offset] = RightOf(aux)
  BY <1>1 DEF Held, SplitHeld, RootHeld, Splitting, Halved, StoreHeld, Parts
<1>3. \A c \in T : Hull(nodes, T, c, Reach(c))
  BY <1>1, <1>2, ReachHull
<1>4. ASSUME NEW s \in T
      PROVE  KeysBelow(s) = KeysOf(nodes[s]) \cup UNION {KeysBelow(c) : c \in KidsOf(nodes[s])}
  BY <1>1, <1>2, UnfoldsNow DEF Unfolds
<1>5. InFlight = KeysBelow(node_offset) \cup {SplitValue(aux)} \cup KeysBelow(right_offset)
  <2>1. InFlight = KeysOf(aux) \cup UNION {KeysBelow(c) : c \in KidsOf(aux)}
    BY DEF InFlight
  <2>2. /\ KeysOf(LeftOf(aux)) \cup {SplitValue(aux)} \cup KeysOf(RightOf(aux)) = KeysOf(aux)
        /\ KidsOf(LeftOf(aux)) \cup KidsOf(RightOf(aux)) = KidsOf(aux)
    BY <1>1, DivisionKeepsAll
  <2>3. /\ KeysBelow(node_offset) = KeysOf(LeftOf(aux)) \cup UNION {KeysBelow(c) : c \in KidsOf(LeftOf(aux))}
        /\ KeysBelow(right_offset) = KeysOf(RightOf(aux)) \cup UNION {KeysBelow(c) : c \in KidsOf(RightOf(aux))}
    BY <1>2, <1>4
  <2>q. QED
    BY <2>1, <2>2, <2>3
<1>6. KeysBelow(node_offset) \subseteq KeysBelow(root_offset)
  <2>1. Path(nodes, root_offset, <<next_parent>> \o stack, node_offset)
    BY <1>1 DEF StackPath
  <2>2. Len(<<next_parent>> \o stack) \in Nat /\ Len(<<next_parent>> \o stack) >= 1
    BY <1>1
  <2>3. Hull(nodes, T, root_offset, Reach(root_offset)) /\ Hull(nodes, T, node_offset, Reach(node_offset))
    BY <1>2, <1>3
  <2>4. node_offset \in Reach(root_offset)
    BY <2>1, <2>2, <2>3, PathHull
  <2>5. Reach(node_offset) \subseteq Reach(root_offset)
    BY <2>3, <2>4, HullIn DEF Hull
  <2>q. QED
    BY <2>5 DEF KeysBelow
<1>q. QED
  BY <1>1, <1>5, <1>6 DEF Live
-----------------------------------------------------------------------------
\* The parent has its keys and children, the value that moved up and the right half.
LEMMA ParentGains ==
  ASSUME TypeOK, OffsetsSound, NEW T, NEW h, NEW iv, NEW F, Held(T, h, iv, F), pc = "link"
  PROVE  /\ KeysOf(Parent) = KeysOf(nodes[next_parent]) \cup {SplitValue(aux)}
         /\ KidsOf(Parent) = KidsOf(nodes[next_parent]) \cup {right_offset}
         /\ Parent.kids[1] = nodes[next_parent].kids[1]
<1> DEFINE nd == nodes[next_parent]
           v  == SplitValue(aux)
<1>1. next_parent \in Slots /\ nodes \in Seq(Node) /\ nd \in Node /\ root_offset \in Slots
  BY SlotsType DEF OffsetsSound, SplitSound, StackSound, TypeOK
<1>2. v \in Int
  BY <1>1 DEF Held, SplitHeld, Splitting, Halved
<1>3. KidsOf(Parent) = KidsOf(nd) \cup {right_offset}
  BY ParentHeld
<1>4. Parent = WithSplit(nd, v, right_offset)
  BY DEF Parent
<1> HIDE DEF nd, v
<1>5. KeysOf(Parent) = KeysOf(nd) \cup {v}
  <2>1. \A right, u : u = WithSplit(nd, v, right) => KeysOf(u) = KeysOf(nd) \cup {v}
    <3>1. SUFFICES ASSUME NEW right, NEW u, u = WithSplit(nd, v, right) PROVE KeysOf(u) = KeysOf(nd) \cup {v}
      OBVIOUS
    <3>2. u \in {WithKey(nd, v), WithSplit(nd, v, right)} /\ nd \in Node /\ v \in Int
      BY <1>1, <1>2, <3>1
    <3>q. QED
      BY <3>2, InsertionKeepsKeys
  <2>q. QED
    BY <1>4, <2>1
<1>6. Parent.kids[1] = nd.kids[1]
  <2> DEFINE p == Position(nd, v)
  <2>1. nd.n \in Nat /\ \A i \in 1..nd.n : nd.keys[i] \in Int
    BY <1>1, OrderAssumption DEF Node
  <2>2. p \in 1..(nd.n + 1)
    BY <1>2, <2>1, PositionType
  <2> HIDE DEF p
  <2>3. p \in Nat /\ 1 <= p /\ 1 <= Order /\ 1 \in 1..(Order + 1)
    BY <2>1, <2>2, OrderAssumption
  <2>4. Inserted(Widened(nd), v, p, right_offset).kids[1] = Widened(nd).kids[1]
    BY <2>3 DEF Inserted
  <2>5. Widened(nd).kids[1] = nd.kids[1]
    BY <2>3 DEF Widened
  <2>q. QED
    BY <1>4, <2>4, <2>5 DEF WithSplit, p
<1>q. QED
  BY <1>3, <1>5, <1>6 DEF nd, v

\* A node is above its children, and none of what is below them.
LEMMA NotBelowKid ==
  ASSUME NEW T, NEW h, NEW iv, NEW ns, Forest(T, h, iv, ns), NEW o \in T, NEW c \in T, NEW C, Hull(ns, T, c, C),
         h[o] # 0, h[c] = h[o] - 1
  PROVE  o \notin C
<1>1. SUFFICES ASSUME o \in C PROVE FALSE
  OBVIOUS
<1>2. h[o] <= h[c]
  BY <1>1, HullLow
<1>3. h[o] \in Nat
  BY DEF Forest
<1>q. QED
  BY <1>2, <1>3

\* A full parent is the next to be divided: nothing is written.
LEMMA LinkFullStore ==
  ASSUME TypeOK, OffsetsSound, NEW r, Graded(r), StackPath, NEW T, NEW h, NEW iv, NEW F, Held(T, h, iv, F),
         StoreHeld, pc = "link", aux' = Parent, node_offset' = next_parent, pc' = "split",
         UNCHANGED <<nodes, header, root_offset, op, key, found>>
  PROVE  StoreStep /\ StoreHeld'
<1>1. /\ root_offset \in Slots /\ nodes \in Seq(Node) /\ Alive /\ Alive' /\ stack \in Seq(Int)
      /\ next_parent # RootMark /\ next_parent \in Slots
  BY SlotsType, Domains DEF OffsetsSound, StackSound, SplitSound, TypeOK, Alive
<1>2. /\ Forest(T, h, iv, nodes) /\ root_offset \in T /\ next_parent \in T
  BY <1>1, ParentHeld DEF Held, RootHeld
<1>3. /\ KeysOf(Parent) = KeysOf(nodes[next_parent]) \cup {SplitValue(aux)}
      /\ KidsOf(Parent) = KidsOf(nodes[next_parent]) \cup {right_offset}
      /\ Parent.kids[1] = nodes[next_parent].kids[1]
  BY ParentGains
<1>4. next_parent \in Reach(root_offset) /\ Hull(nodes, T, root_offset, Reach(root_offset))
  <2>1. Hull(nodes, T, root_offset, Reach(root_offset))
    BY <1>1, <1>2, ReachHull
  <2>2. Path(nodes, root_offset, <<next_parent>> \o stack, node_offset)
    BY <1>1 DEF StackPath
  <2>3. Path(nodes, root_offset, stack, next_parent)
    BY <1>1, <2>2, RestPath
  <2>4. Len(stack) \in Nat /\ Len(stack) >= 1
    BY <1>1, <2>3, EmptySeq DEF Path
  <2>q. QED
    BY <2>1, <2>3, <2>4, PathHull
<1>5. Live' = KeysBelow(root_offset) \cup KeysOf(Parent) \cup UNION {KeysBelow(c) : c \in KidsOf(Parent)}
  <2>1. KeysBelow(root_offset)' = KeysBelow(root_offset) /\ \A c : KeysBelow(c)' = KeysBelow(c)
    BY ReachSame
  <2>2. InFlight' = KeysOf(Parent) \cup UNION {KeysBelow(c)' : c \in KidsOf(Parent)}
    BY DEF InFlight
  <2>q. QED
    BY <1>1, <2>1, <2>2 DEF Live
<1>6. Live = KeysBelow(root_offset) \cup {SplitValue(aux)} \cup KeysBelow(right_offset)
  BY LinkedKeys
<1>7. KeysOf(nodes[next_parent]) \subseteq KeysBelow(root_offset)
  BY <1>4 DEF KeysBelow
<1>8. ASSUME NEW c \in KidsOf(nodes[next_parent]) PROVE KeysBelow(c) \subseteq KeysBelow(root_offset)
  <2>1. c \in T /\ c \in Reach(root_offset)
    BY <1>2, <1>4, ForestKids DEF Hull
  <2>2. Reach(c) \subseteq Reach(root_offset)
    BY <1>1, <1>2, <1>4, <2>1, ReachHull, HullIn DEF Hull
  <2>q. QED
    BY <2>2 DEF KeysBelow
<1>9. Live' = Live
  BY <1>3, <1>5, <1>6, <1>7, <1>8
<1>10. StoreHeld'
  <2>1. HeaderOnSpine'
    BY <1>1 DEF StoreHeld, HeaderOnSpine, Slots
  <2>2. Parts'
    BY <1>3 DEF Parts
  <2>q. QED
    BY <2>1, <2>2 DEF StoreHeld
<1>q. QED
  BY <1>9, <1>10, StoreSteps, StagesNow, StagesNext DEF Stages

\* A parent with room takes the right half: the tree has all that was in memory.
LEMMA LinkRoomStore ==
  ASSUME TypeOK, OffsetsSound, NEW r, Graded(r), StackPath, NEW T, NEW h, NEW iv, NEW F, Held(T, h, iv, F),
         StoreHeld, NEW S, NEW g, NEW iu, NEW G, Held(S, g, iu, G)', TypeOK',
         pc = "link", Parent.n <= Order - 1, pc' = "cmd", NoLocals,
         nodes' = [nodes EXCEPT ![next_parent] = Narrowed(Parent)],
         UNCHANGED <<header, root_offset>>
  PROVE  StoreStep /\ StoreHeld'
<1> DEFINE np == next_parent
           N  == Narrowed(Parent)
           v  == SplitValue(aux)
           R  == Reach(root_offset)
           C  == Reach(right_offset)
           Q  == Reach(root_offset)'
<1>1. /\ root_offset \in Slots /\ nodes \in Seq(Node) /\ nodes' \in Seq(Node) /\ Alive /\ Alive'
      /\ stack \in Seq(Int) /\ np # RootMark /\ np \in Slots /\ Parent \in AuxNode
  BY SlotsType, Domains, ParentSound DEF OffsetsSound, StackSound, SplitSound, TypeOK, Alive
<1>2. /\ Slots' = Slots /\ nodes'[np] = N /\ \A s \in Slots : s # np => nodes'[s] = nodes[s]
  BY <1>1 DEF Slots
<1>3. /\ Forest(T, h, iv, nodes) /\ root_offset \in T /\ np \in T /\ right_offset \in T
      /\ h[np] # 0 /\ h[right_offset] = h[np] - 1
  BY <1>1, ParentHeld DEF Held, RootHeld, SplitHeld, Splitting, Halved
<1>4. Forest(S, g, iu, nodes') /\ root_offset \in S
  BY <1>1, <1>2 DEF Held, RootHeld
<1>5. /\ KeysOf(N) = KeysOf(nodes[np]) \cup {v} /\ KidsOf(N) = KidsOf(nodes[np]) \cup {right_offset}
      /\ N.kids[1] = nodes[np].kids[1]
  <2>1. /\ KeysOf(Parent) = KeysOf(nodes[np]) \cup {v} /\ KidsOf(Parent) = KidsOf(nodes[np]) \cup {right_offset}
        /\ Parent.kids[1] = nodes[np].kids[1]
    BY ParentGains
  <2>2. Parent.n \in Nat /\ Order \in Nat /\ Order >= 2
    BY <1>1, OrderAssumption DEF AuxNode
  <2>3. /\ N.n = Parent.n /\ \A i \in 1..(Order - 1) : N.keys[i] = Parent.keys[i]
        /\ \A i \in 1..Order : N.kids[i] = Parent.kids[i]
    BY DEF Narrowed
  <2> HIDE DEF N
  <2>4. KeysOf(N) = KeysOf(Parent)
    BY <2>2, <2>3 DEF KeysOf
  <2>5. KidsOf(N) = KidsOf(Parent)
    BY <2>2, <2>3 DEF KidsOf
  <2>6. N.kids[1] = Parent.kids[1]
    BY <2>2, <2>3
  <2>q. QED
    BY <2>1, <2>4, <2>5, <2>6
<1> HIDE DEF N
<1>6. /\ Hull(nodes, T, root_offset, R) /\ Hull(nodes, T, right_offset, C) /\ Hull(nodes', S, root_offset, Q)
  <2>1. \A o : o = root_offset => Hull(nodes', S, o, Reach(o)')
    BY <1>1, <1>4, HullsNext DEF Hulls
  <2>q. QED
    BY <1>1, <1>3, <2>1, ReachHull
<1>7. np \in R
  <2>1. Path(nodes, root_offset, <<next_parent>> \o stack, node_offset)
    BY <1>1 DEF StackPath
  <2>2. Path(nodes, root_offset, stack, next_parent)
    BY <1>1, <2>1, RestPath
  <2>3. Len(stack) \in Nat /\ Len(stack) >= 1
    BY <1>1, <2>2, EmptySeq DEF Path
  <2> HIDE DEF R
  <2>q. QED
    BY <1>6, <2>2, <2>3, PathHull
<1>8. np \notin C
  <2> HIDE DEF C, np
  <2>q. QED
    BY <1>3, <1>6, NotBelowKid
<1>9. R \subseteq Slots /\ C \subseteq Slots /\ Q \subseteq Slots
  BY <1>1, <1>2, <1>3, <1>4, <1>6 DEF Hull, Forest, Slots
<1>10. Q = R \cup C
  <2>1. Gains(nodes, nodes', np, right_offset, Slots)
    BY <1>2, <1>5 DEF Gains
  <2> HIDE DEF R, C, Q, np
  <2>q. QED
    BY <1>6, <1>7, <1>8, <1>9, <2>1, Grafted
<1>11. Live' = Live
  <2>1. Live = KeysBelow(root_offset) \cup {v} \cup KeysBelow(right_offset)
    BY LinkedKeys
  <2>2. Live' = UNION {KeysOf(nodes'[s]) : s \in Q}
    BY <1>1 DEF Live, InFlight, KeysBelow
  <2>3. /\ KeysBelow(root_offset) = UNION {KeysOf(nodes[s]) : s \in R}
        /\ KeysBelow(right_offset) = UNION {KeysOf(nodes[s]) : s \in C}
    BY DEF KeysBelow
  <2> HIDE DEF R, C, Q, v
  <2>4. \A s \in Q : KeysOf(nodes'[s]) = IF s = np THEN KeysOf(nodes[np]) \cup {v} ELSE KeysOf(nodes[s])
    <3>1. ASSUME NEW s \in Q, s = np PROVE KeysOf(nodes'[s]) = KeysOf(nodes[np]) \cup {v}
      BY <1>2, <1>5, <3>1
    <3>2. ASSUME NEW s \in Q, s # np PROVE KeysOf(nodes'[s]) = KeysOf(nodes[s])
      BY <1>2, <1>9, <3>2
    <3>q. QED
      BY <3>1, <3>2
  <2>5. ASSUME NEW k \in Live PROVE k \in Live'
    <3>1. CASE k = v
      BY <1>7, <1>10, <2>2, <2>4, <3>1
    <3>2. CASE \E s \in R \cup C : k \in KeysOf(nodes[s])
      <4>1. PICK s \in Q : k \in KeysOf(nodes[s])
        BY <1>10, <3>2
      <4>2. k \in KeysOf(nodes'[s])
        BY <2>4, <4>1
      <4>q. QED
        BY <2>2, <4>2
    <3>q. QED
      BY <2>1, <2>3, <3>1, <3>2
  <2>6. ASSUME NEW k \in Live' PROVE k \in Live
    <3>1. PICK s \in Q : k \in KeysOf(nodes'[s])
      BY <2>2
    <3>2. k = v \/ k \in KeysOf(nodes[s])
      BY <2>4, <3>1
    <3>q. QED
      BY <1>10, <2>1, <2>3, <3>1, <3>2
  <2>q. QED
    BY <2>5, <2>6
<1>12. StoreHeld'
  <2>1. \A s \in Slots : nodes'[s].kids[1] = nodes[s].kids[1]
    BY <1>2, <1>5
  <2>2. HeaderOnSpine'
    BY <1>1, <1>2, <2>1, SpineKept DEF StoreHeld, HeaderOnSpine, Slots
  <2>q. QED
    BY <2>2 DEF StoreHeld, Parts
<1>q. QED
  BY <1>11, <1>12, StoreSteps, StagesNow, StagesNext DEF Stages
-----------------------------------------------------------------------------
\* The new root has the value that moved up and both halves, the old root is its first child.
LEMMA NewRootStore ==
  ASSUME TypeOK, OffsetsSound, NEW r, Graded(r), StackPath, NEW T, NEW h, NEW iv, NEW F, Held(T, h, iv, F),
         StoreHeld, NEW S, NEW g, NEW iu, NEW G, Held(S, g, iu, G)', TypeOK', NewRoot
  PROVE  StoreStep /\ StoreHeld'
<1>0. PICK new : new = Len(nodes) + 1
  OBVIOUS
<1> DEFINE v == SplitValue(aux)
           N == NewRootOf(v, root_offset, right_offset)
<1>1. /\ pc = "newroot" /\ pc' = "cmd" /\ NoLocals /\ root_offset' = new /\ nodes' = Append(nodes, N)
      /\ header' = header
  BY <1>0, Zenon DEF NewRoot, Return
<1>2. /\ root_offset \in Slots /\ nodes \in Seq(Node) /\ nodes' \in Seq(Node) /\ Alive /\ Alive'
      /\ right_offset \in Slots
  BY <1>1 DEF OffsetsSound, StackSound, SplitSound, TypeOK, Alive
<1>3. /\ nodes'[new] = N /\ new \in Slots' /\ \A s \in Slots : nodes'[s] = nodes[s] /\ s \in Slots'
  <2> HIDE DEF N
  <2>1. Len(nodes) \in Nat
    BY <1>2
  <2>2. /\ nodes'[Len(nodes) + 1] = N /\ Len(nodes') = Len(nodes) + 1
        /\ \A s \in 1..Len(nodes) : nodes'[s] = nodes[s]
    BY <1>1, <1>2, <2>1
  <2>q. QED
    BY <1>0, <2>1, <2>2 DEF Slots
<1>4. /\ Forest(T, h, iv, nodes) /\ root_offset \in T /\ right_offset \in T
  BY <1>1, <1>2 DEF Held, SplitHeld, RootHeld, Splitting, Halved
<1>5. Forest(S, g, iu, nodes') /\ new \in S
  BY <1>1, <1>2, <1>3 DEF Held, RootHeld
<1>6. /\ KeysOf(N) = {v} /\ KidsOf(N) = {root_offset, right_offset} /\ N.kids[1] = root_offset
  <2>1. N.n = 1 /\ N.keys[1] = v /\ N.kids[1] = root_offset /\ N.kids[2] = right_offset
    BY OrderAssumption DEF NewRootOf
  <2> HIDE DEF N
  <2>2. 1..N.n = {1} /\ 1..(N.n + 1) = {1, 2}
    BY <2>1
  <2>3. root_offset # NoOffset /\ right_offset # NoOffset
    BY <1>2, SlotsType DEF TypeOK
  <2>q. QED
    BY <2>1, <2>2, <2>3 DEF KeysOf, KidsOf
<1> HIDE DEF N, v
<1>7. \A c \in {root_offset, right_offset} : c \in S
  BY <1>3, <1>5, <1>6, ForestKids
<1>8. ASSUME NEW c \in {root_offset, right_offset} PROVE Reach(c)' = Reach(c) /\ KeysBelow(c)' = KeysBelow(c)
  <2>1. c \in T /\ c \in S
    BY <1>4, <1>7
  <2>q. QED
    BY <1>2, <1>3, <1>4, <1>5, <2>1, TreeKept
<1>9. KeysBelow(new)' = KeysOf(nodes'[new]) \cup UNION {KeysBelow(c)' : c \in KidsOf(nodes'[new])}
  BY <1>2, <1>5, UnfoldsNext DEF Unfolds
<1>10. Live' = Live
  <2>1. Live = KeysBelow(root_offset) \cup {v} \cup KeysBelow(right_offset)
    BY <1>1, LinkedKeys DEF v
  <2>2. Live' = KeysBelow(new)'
    BY <1>1, <1>2 DEF Live, InFlight
  <2>3. KeysBelow(new)' = {v} \cup UNION {KeysBelow(c) : c \in {root_offset, right_offset}}
    BY <1>3, <1>6, <1>8, <1>9
  <2>q. QED
    BY <2>1, <2>2, <2>3
<1>11. HeaderOnSpine'
  <2>1. header' \in Slots' => header \in Slots
    BY <1>1, HeaderSlot
  <2>2. ASSUME header \in Slots PROVE OnSpine(nodes', new, header)
    <3>1. OnSpine(nodes, root_offset, header)
      BY <1>2, <2>2 DEF StoreHeld, HeaderOnSpine
    <3>2. OnSpine(nodes', root_offset, header)
      BY <1>3, <3>1, SpineKept DEF Slots
    <3>3. new \in 1..Len(nodes') /\ nodes'[new].kids[1] = root_offset /\ root_offset # NoOffset
      BY <1>2, <1>3, <1>6, SlotsType DEF Slots, TypeOK
    <3>q. QED
      BY <3>2, <3>3 DEF OnSpine
  <2>q. QED
    BY <1>1, <2>1, <2>2 DEF HeaderOnSpine
<1>12. StoreHeld'
  BY <1>1, <1>11 DEF StoreHeld, Parts
<1>q. QED
  BY <1>1, <1>10, <1>12, StoreSteps, StagesNow, StagesNext DEF Stages

\* The right half is linked, into a parent with room or a full one.
LEMMA LinkStore ==
  ASSUME TypeOK, OffsetsSound, NEW r, Graded(r), StackPath, NEW T, NEW h, NEW iv, NEW F, Held(T, h, iv, F),
         StoreHeld, NEW S, NEW g, NEW iu, NEW G, Held(S, g, iu, G)', TypeOK', LinkParent
  PROVE  StoreStep /\ StoreHeld'
<1>1. /\ pc = "link" /\ root_offset' = root_offset /\ header' = header
      /\ \/ /\ Parent.n <= Order - 1 /\ pc' = "cmd" /\ NoLocals
            /\ nodes' = [nodes EXCEPT ![next_parent] = Narrowed(Parent)]
         \/ /\ aux' = Parent /\ node_offset' = next_parent /\ pc' = "split" /\ nodes' = nodes
            /\ op' = op /\ key' = key /\ found' = found
  BY Zenon DEF LinkParent, write_node_at_offset, Return, disk, globals, command
<1>q. QED
  BY <1>1, LinkRoomStore, LinkFullStore
-----------------------------------------------------------------------------
\* Each step of the program is one of the store, or none.
LEMMA StepStore ==
  ASSUME Cuts = {}, TypeOK, OffsetsSound, NEW r, Graded(r), StackPath,
         \E T, h, iv, F : Held(T, h, iv, F), StoreHeld,
         TypeOK', OffsetsSound', (\E T, h, iv, F : Held(T, h, iv, F))', [Next]_vars
  PROVE  StoreStep /\ StoreHeld'
<1>1. PICK T, h, iv, F : Held(T, h, iv, F)
  OBVIOUS
<1>2. PICK S, g, iu, G : Held(S, g, iu, G)'
  OBVIOUS
<1>3. Certified'
  BY DEF Certified
<1>4. CASE UNCHANGED vars
  <2>1. UNCHANGED <<exists, header, nodes, root_offset, leaf_offset, stack, pc, op, key, found, cur, prev,
                    aux, node_offset, next_parent, right_offset>>
    BY <1>4, Zenon DEF vars, disk, globals, command, search, split
  <2>2. StoreHeld' /\ Live' = Live
    <3>1. \A o : Reach(o)' = Reach(o) /\ KeysBelow(o)' = KeysBelow(o)
      BY <2>1, ReachSame
    <3>2. Live' = Live
      BY <2>1, <3>1 DEF Live, InFlight, Alive
    <3>3. HeaderOnSpine' /\ Parts'
      BY <2>1 DEF StoreHeld, HeaderOnSpine, Parts, Alive, Slots
    <3>q. QED
      BY <2>1, <3>1, <3>2, <3>3 DEF StoreHeld
  <2>3. Stage' = Stage
    BY <2>1, Zenon DEF Stage
  <2>q. QED
    BY <2>1, <2>2, <2>3, StoreSteps
<1>5. CASE Next
  <2>1. CASE Open \/ End
    BY <1>1, <2>1, SessionStore
  <2>2. CASE OpenFails \/ Eof \/ Kill
    BY <1>1, <2>2, AbortStore
  <2>3. CASE (\E o \in {"add", "find"}, k \in CommandKeys : Command(o, k)) \/ print_tree
    BY <2>3, CommandStore
  <2>4. CASE FindEmpty \/ FindOpen
    BY <2>4, FindOpenStore
  <2>5. CASE FindStep
    BY <1>1, <1>3, <2>5, FindStepStore
  <2>6. CASE Answer \/ insert_in_node
    BY <2>6, AnswerStore
  <2>7. CASE StartAdd \/ ParentsOpen \/ DescendNoKeys \/ Descend
    BY <2>7, DescentStore
  <2>8. CASE add_key_to_tree
    BY <1>1, <2>8, AddKeyStore
  <2>9. CASE AddRoot
    BY <1>1, <1>2, <2>9, AddRootStore
  <2>10. CASE SplitLeft
    BY <1>1, <1>2, <2>10, SplitLeftStore
  <2>11. CASE SplitRight
    BY <1>1, <1>2, <2>11, SplitRightStore
  <2>12. CASE LinkParent
    BY <1>1, <1>2, <2>12, LinkStore
  <2>13. CASE NewRoot
    BY <1>1, <1>2, <2>13, NewRootStore
  <2>14. CASE \E c \in Cuts : KillInWrite(c)
    BY <2>14
  <2>q. QED
    BY <1>5, <2>1, <2>2, <2>3, <2>4, <2>5, <2>6, <2>7, <2>8, <2>9, <2>10, <2>11, <2>12, <2>13, <2>14, Zenon
    DEF Next, Serve
<1>q. QED
  BY <1>4, <1>5

\* At the start the store has the keys of the tree the header points to.
LEMMA InitStore ==
  ASSUME Init, TypeOK
  PROVE  Store!Init /\ StoreHeld
<1>1. pc = "exited" /\ op = "none" /\ key = 0 /\ found = FALSE /\ ~Alive
  BY Zenon DEF Init, Alive
<1>2. Stage = "ended"
  BY <1>1, StagesNow DEF Stages
<1>3. \A s \in Slots : KeysOf(nodes[s]) \subseteq Int
  <2>1. \A s \in Slots : nodes[s] \in Node
    BY SlotsType DEF TypeOK
  <2>2. \A nd \in Node : KeysOf(nd) \subseteq Int
    BY OrderAssumption DEF Node, KeysOf
  <2>q. QED
    BY <2>1, <2>2
<1>4. Reach(header) \subseteq Slots
  <2> SUFFICES ASSUME NEW s \in Reach(header) PROVE s \in Slots
    OBVIOUS
  <2>1. PICK d \in 0..Len(nodes) : s \in Level(header)[d]
    BY DEF Reach
  <2>2. Len(nodes) \in Nat
    BY DEF TypeOK
  <2>3. CASE d = 0
    BY <2>1, <2>3, Levels
  <2>4. CASE d # 0
    <3>1. d - 1 \in Nat /\ (d - 1) + 1 = d
      BY <2>2, <2>4
    <3>2. ASSUME NEW e \in Nat PROVE Level(header)[e + 1] \subseteq Slots
      <4>1. Level(header)[e + 1] = UNION {KidsOf(nodes[t]) \cap Slots : t \in Level(header)[e]}
        BY Levels
      <4>q. QED
        BY <4>1
    <3>3. Level(header)[(d - 1) + 1] \subseteq Slots
      BY <3>1, <3>2
    <3>q. QED
      BY <2>1, <3>1, <3>3
  <2>q. QED
    BY <2>3, <2>4
<1>5. Live \subseteq Int
  BY <1>1, <1>3, <1>4 DEF Live, KeysBelow
<1>6. StoreHeld
  BY <1>1 DEF StoreHeld, HeaderOnSpine, Parts
<1>q. QED
  BY <1>1, <1>2, <1>5, <1>6 DEF Store!Init

\* What the program promises, and what the file, the tree and the path stack are for: seen from
\* outside it is a set of keys (module KeyStore).  For every order from 3 on, if the files found at
\* the start hold a search tree and no write of a node is cut short: each find answers for the set,
\* an add (assn_4.c:108) changes it by its key at most, the writes of its splits not at all,
\* the command end keeps it, and whatever else ends the process never brings a key that was not in it.
THEOREM StoreImplemented ==
  ASSUME Order >= 3, Cuts = {},
         \A f \in IndexFiles : /\ \E r : Grades(r, f.nodes)
                               /\ \A s \in DOMAIN f.nodes : Whole(f.nodes[s])
                               /\ FileHeld(f)
  PROVE  Spec => ImplementsStore
<1> DEFINE Inv == /\ TypeOK /\ OffsetsSound /\ (\E r : Graded(r)) /\ Wholes /\ StackPath
                  /\ \E T, h, iv, F : Held(T, h, iv, F)
           StoreInv == Inv /\ StoreHeld
<1>1. Init => StoreInv /\ Store!Init
  <2> SUFFICES ASSUME Init PROVE StoreInv /\ Store!Init
    OBVIOUS
  <2>1. TypeOK /\ OffsetsSound
    BY InitSound
  <2>2. (\E r : Graded(r)) /\ Wholes /\ StackPath
    BY InitPath
  <2>3. \E T, h, iv, F : Held(T, h, iv, F)
    BY <2>1, InitHeld
  <2>4. Store!Init /\ StoreHeld
    BY <2>1, InitStore
  <2>q. QED
    BY <2>1, <2>2, <2>3, <2>4
<1>2. StoreInv /\ [Next]_vars => StoreInv' /\ StoreStep
  <2> SUFFICES ASSUME StoreInv, [Next]_vars PROVE StoreInv' /\ StoreStep
    OBVIOUS
  <2>1. TypeOK' /\ OffsetsSound'
    BY StepSound
  <2>2. (\E r : Graded(r))'
    BY StepGraded
  <2>3. Wholes' /\ StackPath'
    BY StepPath
  <2>4. (\E T, h, iv, F : Held(T, h, iv, F))'
    BY StepHeld
  <2>5. StoreStep /\ StoreHeld'
    BY <2>1, <2>4, StepStore
  <2>q. QED
    BY <2>1, <2>2, <2>3, <2>4, <2>5
<1>q. QED
  BY <1>1, <1>2, PTL DEF Spec, ImplementsStore, Store!Spec, StoreStep
=============================================================================
