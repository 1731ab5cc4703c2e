-------------------------- MODULE BTreeSearchProofs --------------------------
(***************************************************************************)
(* For every order from 3 on, with no write of a node cut short: the file  *)
(* holds a search tree. First what an insertion and a division do to the   *)
(* keys and the children of one node in memory, in add_key_to_tree and     *)
(* add_with_split. Then a tree is described by a certificate: a forest of  *)
(* nodes with a height for each and a set of keys that those below it are  *)
(* of, so that whether a node fits is a question about it and its children *)
(* alone. The invariant says that there is a forest the header, the root,  *)
(* the search, the descent and the divided node are all in, and each step  *)
(* of the program is met by a change of the forest.                        *)
(***************************************************************************)
EXTENDS BTreeProofs, NatRecursion, FiniteSetTheorems
-----------------------------------------------------------------------------
(* Insertion *)

\* Both insertions move the keys alike.
LEMMA InsertedKeys ==
  ASSUME NEW nd \in Node, NEW k \in Int, NEW right, NEW w \in {WithKey(nd, k), WithSplit(nd, k, right)}
  PROVE  LET p == Position(nd, k) IN
         /\ p \in 1..(nd.n + 1) /\ nd.n \in 0..(Order - 1) /\ w.n = nd.n + 1
         /\ \A i \in 1..(nd.n + 1) : w.keys[i] = IF i < p THEN nd.keys[i]
                                                 ELSE IF i = p THEN k ELSE nd.keys[i - 1]
<1> DEFINE p == Position(nd, k)
<1>1. Order \in Nat /\ Order >= 2 /\ nd.n \in 0..(Order - 1) /\ p \in 1..(nd.n + 1)
  BY OrderAssumption, NodePosition DEF Node
<1>a. PICK kid : w = Inserted(Widened(nd), k, p, kid)
  BY DEF WithKey, WithSplit
<1>2. w.n = nd.n + 1
  BY <1>a DEF Inserted, Widened
<1>3. \A i \in 1..Order : w.keys[i] = IF i < p THEN Widened(nd).keys[i]
                                      ELSE IF i = p THEN k ELSE Widened(nd).keys[i - 1]
  BY <1>a DEF Inserted
<1>4. \A i \in 1..(Order - 1) : Widened(nd).keys[i] = nd.keys[i]
  BY <1>1 DEF Widened
<1> HIDE DEF p
<1>5. ASSUME NEW i \in 1..(nd.n + 1)
      PROVE  w.keys[i] = IF i < p THEN nd.keys[i] ELSE IF i = p THEN k ELSE nd.keys[i - 1]
  <2>1. i \in 1..Order
    BY <1>1
  <2>2. CASE i < p
    <3>1. i \in 1..(Order - 1)
      BY <1>1, <2>2
    <3>q. QED
      BY <1>3, <1>4, <2>1, <2>2, <3>1
  <2>3. CASE i = p
    BY <1>1, <1>3, <2>1, <2>3
  <2>4. CASE i > p
    <3>1. i - 1 \in 1..(Order - 1)
      BY <1>1, <2>4
    <3>2. ~(i < p) /\ i # p
      BY <1>1, <2>4
    <3>q. QED
      BY <1>3, <1>4, <2>1, <3>1, <3>2
  <2>q. QED
    BY <1>1, <2>2, <2>3, <2>4
<1>q. QED
  BY <1>1, <1>2, <1>5 DEF p

\* Into a node or, from a division below, into a parent, full or not: the new key joins the
\* others, none is lost, and keys in order stay in order.
THEOREM InsertionKeepsKeys ==
  ASSUME NEW nd \in Node, NEW k \in Int, NEW right, NEW w \in {WithKey(nd, k), WithSplit(nd, k, right)}
  PROVE  /\ KeysOf(w) = KeysOf(nd) \cup {k}
         /\ Ordered(nd) /\ k \notin KeysOf(nd) => Ordered(w)
<1> DEFINE p == Position(nd, k)
<1>1. /\ p \in 1..(nd.n + 1) /\ nd.n \in Nat /\ w.n = nd.n + 1
      /\ \A i \in 1..(nd.n + 1) : w.keys[i] = IF i < p THEN nd.keys[i]
                                              ELSE IF i = p THEN k ELSE nd.keys[i - 1]
  BY InsertedKeys
<1>2. \A i \in 1..nd.n : nd.keys[i] \in Int
  BY OrderAssumption DEF Node
<1>3. (p <= nd.n => nd.keys[p] >= k) /\ \A i \in 1..(p - 1) : nd.keys[i] < k
  BY <1>1, <1>2, PositionType
<1> HIDE DEF p
<1>4. ASSUME NEW x \in KeysOf(w) PROVE x \in KeysOf(nd) \cup {k}
  <2>1. PICK i \in 1..(nd.n + 1) : x = w.keys[i]
    BY <1>1 DEF KeysOf
  <2>2. CASE i < p
    <3>1. i \in 1..nd.n /\ x = nd.keys[i]
      BY <1>1, <2>1, <2>2
    <3>q. QED
      BY <3>1 DEF KeysOf
  <2>3. CASE i = p
    BY <1>1, <2>1, <2>3
  <2>4. CASE i > p
    <3>1. i - 1 \in 1..nd.n /\ x = nd.keys[i - 1]
      BY <1>1, <2>1, <2>4
    <3>q. QED
      BY <3>1 DEF KeysOf
  <2>q. QED
    BY <1>1, <2>2, <2>3, <2>4
<1>5. ASSUME NEW x \in KeysOf(nd) \cup {k} PROVE x \in KeysOf(w)
  <2>1. CASE x = k
    <3>1. p \in 1..w.n /\ w.keys[p] = k
      BY <1>1
    <3>q. QED
      BY <2>1, <3>1 DEF KeysOf
  <2>2. CASE x \in KeysOf(nd)
    <3>1. PICK j \in 1..nd.n : x = nd.keys[j]
      BY <2>2 DEF KeysOf
    <3>2. CASE j < p
      <4>1. j \in 1..w.n /\ w.keys[j] = x
        BY <1>1, <3>1, <3>2
      <4>q. QED
        BY <4>1 DEF KeysOf
    <3>3. CASE j >= p
      <4>1. j + 1 \in 1..w.n /\ ~(j + 1 < p) /\ j + 1 # p /\ (j + 1) - 1 = j
        BY <1>1, <3>3
      <4>2. w.keys[j + 1] = x
        BY <1>1, <3>1, <4>1
      <4>q. QED
        BY <4>1, <4>2 DEF KeysOf
    <3>q. QED
      BY <1>1, <3>2, <3>3
  <2>q. QED
    BY <2>1, <2>2
<1>6. ASSUME Ordered(nd), k \notin KeysOf(nd), NEW i \in 2..w.n PROVE w.keys[i - 1] < w.keys[i]
  <2>1. i \in 1..(nd.n + 1) /\ i - 1 \in 1..(nd.n + 1) /\ i \in Int
    BY <1>1
  <2>2. CASE i < p
    <3>1. i \in 2..nd.n
      BY <1>1, <2>1, <2>2
    <3>q. QED
      BY <1>1, <1>6, <2>1, <2>2, <3>1 DEF Ordered
  <2>3. CASE i = p
    <3>1. i - 1 \in 1..(p - 1) /\ w.keys[i] = k /\ w.keys[i - 1] = nd.keys[i - 1]
      BY <1>1, <2>1, <2>3
    <3>q. QED
      BY <1>3, <3>1
  <2>4. CASE i = p + 1
    <3>1. p \in 1..nd.n /\ w.keys[i - 1] = k /\ w.keys[i] = nd.keys[p]
      BY <1>1, <2>1, <2>4
    <3>2. nd.keys[p] # k
      BY <1>6, <3>1 DEF KeysOf
    <3>q. QED
      BY <1>2, <1>3, <3>1, <3>2
  <2>5. CASE i > p + 1
    <3>1. i - 1 \in 2..nd.n /\ ~(i < p) /\ i # p /\ ~(i - 1 < p) /\ i - 1 # p
      BY <1>1, <2>1, <2>5
    <3>2. w.keys[i] = nd.keys[i - 1] /\ w.keys[i - 1] = nd.keys[(i - 1) - 1]
      BY <1>1, <2>1, <3>1
    <3>q. QED
      BY <1>6, <3>1, <3>2 DEF Ordered
  <2>q. QED
    BY <1>1, <2>1, <2>2, <2>3, <2>4, <2>5
<1>q. QED
  BY <1>4, <1>5, <1>6 DEF Ordered
-----------------------------------------------------------------------------
(* Division *)

\* Keys in order are in order however far apart.
LEMMA OrderedApart ==
  ASSUME NEW a, a.n \in Nat, \A i \in 1..a.n : a.keys[i] \in Int, Ordered(a),
         NEW i \in 1..a.n, NEW j \in 1..a.n, i < j
  PROVE  a.keys[i] < a.keys[j]
<1> DEFINE Bad == {m \in 1..a.n : i < m /\ ~(a.keys[i] < a.keys[m])}
<1>1. SUFFICES ASSUME j \in Bad PROVE FALSE
  OBVIOUS
<1>2. Bad \subseteq Nat /\ Bad # {}
  BY <1>1
<1>3. PICK m \in Bad : \A y \in Bad : ~(<<y, m>> \in OpToRel(<, Nat))
  BY <1>2, WFMin, NatLessThanWellFounded
<1>4. m - 1 \notin Bad
  <2>1. \A y \in Bad : ~(y < m)
    BY <1>2, <1>3 DEF OpToRel
  <2>2. m \in Nat /\ m - 1 < m
    BY <1>2
  <2>q. QED
    BY <2>1, <2>2
<1>5. m \in 2..a.n /\ m - 1 \in 1..a.n /\ i <= m - 1
  OBVIOUS
<1>6. a.keys[m - 1] < a.keys[m]
  BY <1>5 DEF Ordered
<1>7. i = m - 1 \/ a.keys[i] < a.keys[m - 1]
  BY <1>4, <1>5
<1>8. a.keys[i] \in Int /\ a.keys[m] \in Int /\ a.keys[m - 1] \in Int
  BY <1>5
<1>q. QED
  BY <1>6, <1>7, <1>8

\* The positions of an aux node in its halves.
LEMMA HalvesAt ==
  ASSUME NEW a \in AuxNode
  PROVE  LET h == SplitIndex
             r == Order - 1 - h
         IN  /\ Order \in Nat /\ h \in 1..(Order - 1) /\ r \in 0..(Order - 1) /\ h + 1 + r = Order
             /\ SplitValue(a) = a.keys[h + 1] /\ LeftOf(a).n = h /\ RightOf(a).n = r
             /\ \A i \in 1..h : LeftOf(a).keys[i] = a.keys[i]
             /\ \A i \in 1..(h + 1) : LeftOf(a).kids[i] = a.kids[i]
             /\ \A i \in 1..r : RightOf(a).keys[i] = a.keys[h + 1 + i]
             /\ \A i \in 1..(r + 1) : RightOf(a).kids[i] = a.kids[h + 1 + i]
<1> DEFINE h == SplitIndex
           r == Order - 1 - h
<1>1. Order \in Nat /\ h \in 1..(Order - 1) /\ r \in 0..(Order - 1) /\ h + 1 + r = Order
  BY OrderAssumption DEF SplitIndex
<1>2. /\ \A i \in 1..(Order - 1) : LeftOf(a).keys[i] = IF i <= h THEN a.keys[i] ELSE Filler
      /\ \A i \in 1..Order : LeftOf(a).kids[i] = IF i <= h + 1 THEN a.kids[i] ELSE Filler
  BY DEF LeftOf
<1>3. /\ \A i \in 1..(Order - 1) : RightOf(a).keys[i] = IF i <= r THEN a.keys[h + 1 + i] ELSE Filler
      /\ \A i \in 1..Order : RightOf(a).kids[i] = IF i <= r + 1 THEN a.kids[h + 1 + i] ELSE Filler
  BY DEF RightOf
<1>4. LeftOf(a).n = h /\ RightOf(a).n = r /\ SplitValue(a) = a.keys[h + 1]
  BY DEF LeftOf, RightOf, SplitValue
<1> HIDE DEF h, r
<1>5. \A i \in 1..h : LeftOf(a).keys[i] = a.keys[i]
  BY <1>1, <1>2
<1>6. \A i \in 1..(h + 1) : LeftOf(a).kids[i] = a.kids[i]
  BY <1>1, <1>2
<1>7. \A i \in 1..r : RightOf(a).keys[i] = a.keys[h + 1 + i]
  BY <1>1, <1>3
<1>8. \A i \in 1..(r + 1) : RightOf(a).kids[i] = a.kids[h + 1 + i]
  BY <1>1, <1>3
<1>q. QED
  BY <1>1, <1>4, <1>5, <1>6, <1>7, <1>8 DEF h, r

\* A division of a node with one key too many (data_structures.c:855), for even and odd orders:
\* the two halves and the value that moves up have all its keys, the halves all its children, none
\* of them twice if it had none twice; keys in order are in order in each half, those of the left
\* below and those of the right above the value.
THEOREM DivisionKeepsAll ==
  ASSUME NEW a \in AuxNode, a.n = Order
  PROVE  /\ KeysOf(LeftOf(a)) \cup {SplitValue(a)} \cup KeysOf(RightOf(a)) = KeysOf(a)
         /\ KidsOf(LeftOf(a)) \cup KidsOf(RightOf(a)) = KidsOf(a)
         /\ (\A i, j \in 1..(Order + 1) : i # j => a.kids[i] # a.kids[j])
              => KidsOf(LeftOf(a)) \cap KidsOf(RightOf(a)) = {}
         /\ Ordered(a) => /\ Ordered(LeftOf(a)) /\ Ordered(RightOf(a))
                          /\ \A k \in KeysOf(LeftOf(a)) : k < SplitValue(a)
                          /\ \A k \in KeysOf(RightOf(a)) : SplitValue(a) < k
<1> DEFINE h == SplitIndex
           r == Order - 1 - h
           L == LeftOf(a)
           R == RightOf(a)
           v == SplitValue(a)
<1>1. /\ Order \in Nat /\ h \in 1..(Order - 1) /\ r \in 0..(Order - 1) /\ h + 1 + r = Order
      /\ v = a.keys[h + 1] /\ L.n = h /\ R.n = r
      /\ \A i \in 1..h : L.keys[i] = a.keys[i]
      /\ \A i \in 1..(h + 1) : L.kids[i] = a.kids[i]
      /\ \A i \in 1..r : R.keys[i] = a.keys[h + 1 + i]
      /\ \A i \in 1..(r + 1) : R.kids[i] = a.kids[h + 1 + i]
  BY HalvesAt
<1> HIDE DEF h, r, L, R, v
<1>2. KeysOf(L) \cup {v} \cup KeysOf(R) = KeysOf(a)
  <2>1. ASSUME NEW x \in KeysOf(a) PROVE x \in KeysOf(L) \cup {v} \cup KeysOf(R)
    <3>1. PICK i \in 1..Order : x = a.keys[i]
      BY <2>1 DEF KeysOf
    <3>2. CASE i <= h
      <4>1. i \in 1..L.n /\ x = L.keys[i]
        BY <1>1, <3>1, <3>2
      <4>q. QED
        BY <4>1 DEF KeysOf
    <3>3. CASE i = h + 1
      BY <1>1, <3>1, <3>3
    <3>4. CASE i > h + 1
      <4>1. i - (h + 1) \in 1..r /\ h + 1 + (i - (h + 1)) = i
        BY <1>1, <3>4
      <4>2. x = R.keys[i - (h + 1)]
        BY <1>1, <3>1, <4>1
      <4>q. QED
        BY <1>1, <4>1, <4>2 DEF KeysOf
    <3>q. QED
      BY <1>1, <3>2, <3>3, <3>4
  <2>2. ASSUME NEW x \in KeysOf(L) \cup {v} \cup KeysOf(R) PROVE x \in KeysOf(a)
    <3>1. \E i \in 1..Order : x = a.keys[i]
      <4>1. CASE x \in KeysOf(L)
        BY <1>1, <4>1 DEF KeysOf
      <4>2. CASE x = v
        BY <1>1, <4>2
      <4>3. CASE x \in KeysOf(R)
        <5>1. PICK i \in 1..r : x = R.keys[i]
          BY <1>1, <4>3 DEF KeysOf
        <5>2. h + 1 + i \in 1..Order /\ x = a.keys[h + 1 + i]
          BY <1>1, <5>1
        <5>q. QED
          BY <5>2
      <4>q. QED
        BY <4>1, <4>2, <4>3
    <3>q. QED
      BY <3>1 DEF KeysOf
  <2>q. QED
    BY <2>1, <2>2
<1>3. \A x \in KidsOf(L) : \E i \in 1..(h + 1) : x = a.kids[i] /\ x # NoOffset
  BY <1>1 DEF KidsOf
<1>4. \A x \in KidsOf(R) : \E i \in (h + 2)..(Order + 1) : x = a.kids[i] /\ x # NoOffset
  <2> TAKE x \in KidsOf(R)
  <2>1. PICK i \in 1..(r + 1) : x = R.kids[i] /\ x # NoOffset
    BY <1>1 DEF KidsOf
  <2>2. h + 1 + i \in (h + 2)..(Order + 1) /\ x = a.kids[h + 1 + i]
    BY <1>1, <2>1
  <2>q. QED
    BY <2>1, <2>2
<1>5. KidsOf(L) \cup KidsOf(R) = KidsOf(a)
  <2>1. ASSUME NEW x \in KidsOf(a) PROVE x \in KidsOf(L) \cup KidsOf(R)
    <3>1. PICK i \in 1..(Order + 1) : x = a.kids[i] /\ x # NoOffset
      BY <2>1 DEF KidsOf
    <3>2. CASE i <= h + 1
      <4>1. i \in 1..(L.n + 1) /\ x = L.kids[i]
        BY <1>1, <3>1, <3>2
      <4>q. QED
        BY <3>1, <4>1 DEF KidsOf
    <3>3. CASE i > h + 1
      <4>1. i - (h + 1) \in 1..(r + 1) /\ h + 1 + (i - (h + 1)) = i
        BY <1>1, <3>3
      <4>2. x = R.kids[i - (h + 1)]
        BY <1>1, <3>1, <4>1
      <4>q. QED
        BY <1>1, <3>1, <4>1, <4>2 DEF KidsOf
    <3>q. QED
      BY <1>1, <3>2, <3>3
  <2>2. ASSUME NEW x \in KidsOf(L) \cup KidsOf(R) PROVE x \in KidsOf(a)
    <3>1. \E i \in 1..(Order + 1) : x = a.kids[i] /\ x # NoOffset
      BY <1>1, <1>3, <1>4
    <3>q. QED
      BY <3>1 DEF KidsOf
  <2>q. QED
    BY <2>1, <2>2
<1>6. ASSUME \A i, j \in 1..(Order + 1) : i # j => a.kids[i] # a.kids[j]
      PROVE  KidsOf(L) \cap KidsOf(R) = {}
  <2>1. SUFFICES ASSUME NEW x \in KidsOf(L) \cap KidsOf(R) PROVE FALSE
    OBVIOUS
  <2>2. PICK i \in 1..(h + 1) : x = a.kids[i]
    BY <1>3
  <2>3. PICK j \in (h + 2)..(Order + 1) : x = a.kids[j]
    BY <1>4
  <2>4. i \in 1..(Order + 1) /\ j \in 1..(Order + 1) /\ i # j
    BY <1>1
  <2>q. QED
    BY <1>6, <2>2, <2>3, <2>4
<1>7. ASSUME Ordered(a)
      PROVE  /\ Ordered(L) /\ Ordered(R)
             /\ \A k \in KeysOf(L) : k < v
             /\ \A k \in KeysOf(R) : v < k
  <2>1. \A i \in 1..Order : a.keys[i] \in Int
    BY DEF AuxNode
  <2>2. \A i, j \in 1..Order : i < j => a.keys[i] < a.keys[j]
    BY <1>1, <1>7, <2>1, OrderedApart
  <2>3. ASSUME NEW i \in 2..h PROVE L.keys[i - 1] < L.keys[i]
    <3>1. i \in 1..h /\ i - 1 \in 1..h /\ i \in 1..Order /\ i - 1 \in 1..Order /\ i - 1 < i
      BY <1>1
    <3>q. QED
      BY <1>1, <2>2, <3>1
  <2>4. ASSUME NEW i \in 2..r PROVE R.keys[i - 1] < R.keys[i]
    <3>1. /\ i \in 1..r /\ i - 1 \in 1..r /\ h + 1 + i \in 1..Order /\ h + 1 + (i - 1) \in 1..Order
          /\ h + 1 + (i - 1) < h + 1 + i
      BY <1>1
    <3>q. QED
      BY <1>1, <2>2, <3>1
  <2>5. ASSUME NEW k \in KeysOf(L) PROVE k < v
    <3>1. PICK i \in 1..h : k = a.keys[i]
      BY <1>1 DEF KeysOf
    <3>2. i \in 1..Order /\ h + 1 \in 1..Order /\ i < h + 1
      BY <1>1
    <3>q. QED
      BY <1>1, <2>2, <3>1, <3>2
  <2>6. ASSUME NEW k \in KeysOf(R) PROVE v < k
    <3>1. PICK i \in 1..r : k = a.keys[h + 1 + i]
      BY <1>1 DEF KeysOf
    <3>2. h + 1 + i \in 1..Order /\ h + 1 \in 1..Order /\ h + 1 < h + 1 + i
      BY <1>1
    <3>q. QED
      BY <1>1, <2>2, <3>1, <3>2
  <2>q. QED
    BY <1>1, <2>3, <2>4, <2>5, <2>6 DEF Ordered
<1>q. QED
  BY <1>2, <1>5, <1>6, <1>7 DEF L, R, v
-----------------------------------------------------------------------------
(* Nodes in a forest *)

\* What may be in the subtree of the i-th child of a node.
Between(nd, i) == {x \in Int : (i > 1 => nd.keys[i - 1] < x) /\ (i <= nd.n => x < nd.keys[i])}

\* nd can be a node at height d that holds keys of W: its children are the members of T one lower,
\* each of which holds keys, those of iv, between the keys around it.
Fits(T, h, iv, nd, d, W) ==
  /\ Ordered(nd) /\ KeysOf(nd) \subseteq W
  /\ d = 0 => \A i \in 1..(nd.n + 1) : nd.kids[i] = NoOffset
  /\ d # 0 => \A i \in 1..(nd.n + 1) :
       /\ nd.kids[i] \in T /\ h[nd.kids[i]] = d - 1
       /\ iv[nd.kids[i]] \subseteq Between(nd, i) \cap W

\* No child twice.
Once(nd) == \A i, j \in 1..(nd.n + 1) : i # j /\ nd.kids[i] # NoOffset => nd.kids[i] # nd.kids[j]

\* In another forest the node fits as well, if its children are there, at the same height and with
\* no more keys.
LEMMA FitsMoved ==
  ASSUME NEW T, NEW h, NEW iv, NEW nd, NEW d, NEW W, Fits(T, h, iv, nd, d, W),
         NEW S, NEW g, NEW iu, NEW V, W \subseteq V,
         \A c \in KidsOf(nd) \cap T : c \in S /\ g[c] = h[c] /\ iu[c] \subseteq iv[c],
         NoOffset \notin T
  PROVE  Fits(S, g, iu, nd, d, V)
<1>1. ASSUME d # 0, NEW i \in 1..(nd.n + 1)
      PROVE  nd.kids[i] \in S /\ g[nd.kids[i]] = d - 1 /\ iu[nd.kids[i]] \subseteq Between(nd, i) \cap V
  <2> DEFINE c == nd.kids[i]
  <2>1. c \in T /\ h[c] = d - 1 /\ iv[c] \subseteq Between(nd, i) \cap W
    BY <1>1 DEF Fits
  <2>2. c \in KidsOf(nd) \cap T
    BY <2>1 DEF KidsOf
  <2> HIDE DEF c
  <2>3. c \in S /\ g[c] = h[c] /\ iu[c] \subseteq iv[c]
    BY <2>2
  <2>4. c \in S /\ g[c] = d - 1 /\ iu[c] \subseteq Between(nd, i) \cap V
    BY <2>1, <2>3
  <2>q. QED
    BY <2>4 DEF c
<1>q. QED
  BY <1>1 DEF Fits

\* Where a value goes among keys in order: between two of them only.
LEMMA PositionOnly ==
  ASSUME NEW nd \in Node, Ordered(nd), NEW i \in 1..(nd.n + 1), NEW v \in Between(nd, i)
  PROVE  Position(nd, v) = i /\ v \notin KeysOf(nd)
<1> DEFINE p == Position(nd, v)
<1>1. nd.n \in Nat /\ v \in Int /\ \A j \in 1..nd.n : nd.keys[j] \in Int
  BY OrderAssumption DEF Node, Between
<1>2. p \in 1..(nd.n + 1) /\ (p <= nd.n => nd.keys[p] >= v) /\ \A j \in 1..(p - 1) : nd.keys[j] < v
  BY <1>1, PositionType
<1>3. (i > 1 => nd.keys[i - 1] < v) /\ (i <= nd.n => v < nd.keys[i])
  BY DEF Between
<1> HIDE DEF p
<1>4. ASSUME NEW j \in 1..nd.n, j < i PROVE nd.keys[j] < v
  <2>1. i - 1 \in 1..nd.n /\ i > 1 /\ j <= i - 1
    BY <1>1, <1>4
  <2>2. CASE j = i - 1
    BY <1>3, <2>1, <2>2
  <2>3. CASE j < i - 1
    <3>1. nd.keys[j] < nd.keys[i - 1]
      BY <1>1, <2>1, <2>3, OrderedApart
    <3>2. nd.keys[j] \in Int /\ nd.keys[i - 1] \in Int
      BY <1>1, <2>1
    <3>q. QED
      BY <1>1, <1>3, <2>1, <3>1, <3>2
  <2>q. QED
    BY <1>1, <2>1, <2>2, <2>3
<1>5. ASSUME NEW j \in 1..nd.n, i <= j PROVE v < nd.keys[j]
  <2>1. i \in 1..nd.n
    BY <1>1, <1>5
  <2>2. CASE i = j
    BY <1>3, <2>1, <2>2
  <2>3. CASE i < j
    <3>1. nd.keys[i] < nd.keys[j]
      BY <1>1, <2>1, <2>3, OrderedApart
    <3>2. nd.keys[i] \in Int /\ nd.keys[j] \in Int
      BY <1>1, <2>1
    <3>q. QED
      BY <1>1, <1>3, <2>1, <3>1, <3>2
  <2>q. QED
    BY <1>1, <1>5, <2>2, <2>3
<1>6. p = i
  <2>1. CASE p < i
    <3>1. p \in 1..nd.n /\ nd.keys[p] \in Int
      BY <1>1, <1>2, <2>1
    <3>q. QED
      BY <1>1, <1>2, <1>4, <2>1, <3>1
  <2>2. CASE i < p
    <3>1. i \in 1..nd.n /\ i \in 1..(p - 1) /\ nd.keys[i] \in Int
      BY <1>1, <1>2, <2>2
    <3>q. QED
      BY <1>1, <1>2, <1>5, <3>1
  <2>q. QED
    BY <1>1, <1>2, <2>1, <2>2
<1>7. v \notin KeysOf(nd)
  <2>1. SUFFICES ASSUME NEW j \in 1..nd.n, v = nd.keys[j] PROVE FALSE
    BY DEF KeysOf
  <2>q. QED
    BY <1>1, <1>4, <1>5, <2>1
<1>q. QED
  BY <1>6, <1>7 DEF p

\* A key that is not in a node goes on to the child below its position.
LEMMA PositionBetween ==
  ASSUME NEW nd \in Node, NEW k \in Int, k \notin KeysOf(nd)
  PROVE  Position(nd, k) \in 1..(nd.n + 1) /\ k \in Between(nd, Position(nd, k))
<1> DEFINE p == Position(nd, k)
<1>1. nd.n \in Nat /\ \A j \in 1..nd.n : nd.keys[j] \in Int
  BY OrderAssumption DEF Node
<1>2. p \in 1..(nd.n + 1) /\ (p <= nd.n => nd.keys[p] >= k) /\ \A j \in 1..(p - 1) : nd.keys[j] < k
  BY <1>1, PositionType
<1> HIDE DEF p
<1>3. p <= nd.n => k < nd.keys[p]
  <2> SUFFICES ASSUME p <= nd.n PROVE k < nd.keys[p]
    OBVIOUS
  <2>1. p \in 1..nd.n
    BY <1>1, <1>2
  <2>2. nd.keys[p] # k /\ nd.keys[p] \in Int
    BY <1>1, <2>1 DEF KeysOf
  <2>q. QED
    BY <1>2, <2>2
<1>4. p > 1 => nd.keys[p - 1] < k
  <2> SUFFICES ASSUME p > 1 PROVE nd.keys[p - 1] < k
    OBVIOUS
  <2>1. p - 1 \in 1..(p - 1)
    BY <1>2
  <2>q. QED
    BY <1>2, <2>1
<1>q. QED
  BY <1>2, <1>3, <1>4 DEF p, Between

LEMMA LeafFits ==
  ASSUME NEW T, NEW h, NEW iv, NEW nd \in Node, nd.n = Order - 1, NEW W, Fits(T, h, iv, nd, 0, W),
         NEW k \in Int, k \in W, k \notin KeysOf(nd)
  PROVE  Fits(T, h, iv, WithKey(nd, k), 0, W) /\ KidsOf(WithKey(nd, k)) = {} /\ Once(WithKey(nd, k))
<1> DEFINE S == {NoOffset}
           w == WithKey(nd, k)
<1>1. Order \in Nat /\ Order >= 2
  BY OrderAssumption
<1>2. S \subseteq Int /\ Filler \in S /\ \A i \in 1..Order : nd.kids[i] \in S
  BY <1>1 DEF Fits, NoOffset, Filler
<1>3. w.n = nd.n + 1 /\ \A i \in 1..(Order + 1) : w.kids[i] \in S
  <2> HIDE DEF S
  <2>q. QED
    BY <1>2, WithKeyType
<1>4. KeysOf(w) = KeysOf(nd) \cup {k} /\ Ordered(w)
  <2>1. w \in {WithKey(nd, k), WithSplit(nd, k, 0)}
    OBVIOUS
  <2> HIDE DEF w
  <2>q. QED
    BY <2>1, InsertionKeepsKeys DEF Fits
<1> HIDE DEF w
<1>5. \A i \in 1..(w.n + 1) : w.kids[i] = NoOffset
  BY <1>1, <1>3
<1>6. Fits(T, h, iv, w, 0, W)
  BY <1>4, <1>5 DEF Fits
<1>7. KidsOf(w) = {} /\ Once(w)
  BY <1>5 DEF KidsOf, Once
<1>q. QED
  BY <1>6, <1>7 DEF w

LEMMA SplitKeys ==
  ASSUME NEW nd \in Node, NEW v \in Int, NEW right
  PROVE  /\ WithSplit(nd, v, right).n = nd.n + 1
         /\ \A i \in 1..(nd.n + 1) : WithSplit(nd, v, right).keys[i] =
              IF i < Position(nd, v) THEN nd.keys[i]
              ELSE IF i = Position(nd, v) THEN v ELSE nd.keys[i - 1]
<1> DEFINE w == WithSplit(nd, v, right)
<1>1. w \in {WithKey(nd, v), WithSplit(nd, v, right)}
  OBVIOUS
<1> HIDE DEF w
<1>2. /\ w.n = nd.n + 1
      /\ \A i \in 1..(nd.n + 1) : w.keys[i] = IF i < Position(nd, v) THEN nd.keys[i]
                                              ELSE IF i = Position(nd, v) THEN v ELSE nd.keys[i - 1]
  BY <1>1, InsertedKeys
<1>q. QED
  BY <1>2 DEF w

\* The parent takes the split value and the right half of its i-th child: the value parts what the
\* child held.
LEMMA ParentFits ==
  ASSUME NEW T, NEW h, NEW iv, NEW nd \in Node, NEW d, d # 0, NEW W, Fits(T, h, iv, nd, d, W), Once(nd),
         NEW p \in 1..(nd.n + 1), NEW v \in Between(nd, p), v \in W,
         NEW right \in T, h[right] = d - 1, right # NoOffset, right \notin KidsOf(nd),
         iv[right] \subseteq Between(nd, p) \cap W, \A x \in iv[right] : v < x,
         \A x \in iv[nd.kids[p]] : x < v, NoOffset \notin T
  PROVE  LET w == WithSplit(nd, v, right) IN
         Fits(T, h, iv, w, d, W) /\ Once(w) /\ KidsOf(w) = KidsOf(nd) \cup {right}
<1> DEFINE w == WithSplit(nd, v, right)
<1>1. Order \in Nat /\ Order >= 2 /\ nd.n \in 0..(Order - 1) /\ v \in Int
  BY OrderAssumption DEF Node, Between
<1>2. Position(nd, v) = p /\ v \notin KeysOf(nd) /\ Ordered(nd)
  BY PositionOnly DEF Fits
<1>3. /\ w.n = nd.n + 1
      /\ \A i \in 1..(nd.n + 1) : w.keys[i] = IF i < p THEN nd.keys[i]
                                              ELSE IF i = p THEN v ELSE nd.keys[i - 1]
  BY <1>1, <1>2, SplitKeys
<1>4. KeysOf(w) = KeysOf(nd) \cup {v} /\ Ordered(w)
  <2>1. w \in {WithKey(nd, v), WithSplit(nd, v, right)}
    OBVIOUS
  <2> HIDE DEF w
  <2>q. QED
    BY <1>1, <1>2, <2>1, InsertionKeepsKeys
<1>5. \A i \in 1..(nd.n + 2) : w.kids[i] = IF i <= p THEN nd.kids[i]
                                           ELSE IF i = p + 1 THEN right ELSE nd.kids[i - 1]
  <2>1. \A i \in 1..(Order + 1) :
          w.kids[i] = IF i <= p THEN Widened(nd).kids[i]
                      ELSE IF i = p + 1 THEN right ELSE Widened(nd).kids[i - 1]
    BY <1>2 DEF WithSplit, Inserted
  <2>2. \A i \in 1..Order : Widened(nd).kids[i] = nd.kids[i]
    BY <1>1 DEF Widened
  <2> HIDE DEF w
  <2> TAKE i \in 1..(nd.n + 2)
  <2>3. i \in 1..(Order + 1)
    BY <1>1
  <2>4. CASE i <= p
    <3>1. i \in 1..Order
      BY <1>1, <2>4
    <3>q. QED
      BY <2>1, <2>2, <2>3, <2>4, <3>1
  <2>5. CASE i > p + 1
    <3>1. i - 1 \in 1..Order /\ ~(i <= p) /\ i # p + 1
      BY <1>1, <2>5
    <3>q. QED
      BY <2>1, <2>2, <2>3, <3>1
  <2>6. CASE i = p + 1
    BY <2>1, <2>3, <2>6
  <2>q. QED
    BY <2>4, <2>5, <2>6
<1> HIDE DEF w
<1>6. ASSUME NEW i \in 1..(nd.n + 1)
      PROVE  nd.kids[i] \in T /\ h[nd.kids[i]] = d - 1 /\ iv[nd.kids[i]] \subseteq Between(nd, i) \cap W
  BY DEF Fits
<1>7. ASSUME NEW i \in 1..(w.n + 1)
      PROVE  w.kids[i] \in T /\ h[w.kids[i]] = d - 1 /\ iv[w.kids[i]] \subseteq Between(w, i) \cap W
  <2>1. i \in 1..(nd.n + 2)
    BY <1>1, <1>3
  <2>2. CASE i < p
    <3>1. i \in 1..(nd.n + 1) /\ w.kids[i] = nd.kids[i] /\ i <= p
      BY <1>1, <1>5, <2>1, <2>2
    <3>2. w.keys[i] = nd.keys[i] /\ (i > 1 => w.keys[i - 1] = nd.keys[i - 1]) /\ i <= nd.n
      BY <1>1, <1>3, <2>1, <2>2
    <3>3. Between(nd, i) \subseteq Between(w, i)
      BY <1>3, <3>2 DEF Between
    <3>q. QED
      BY <1>6, <3>1, <3>3
  <2>3. CASE i = p
    <3>1. w.kids[i] = nd.kids[p]
      BY <1>1, <1>5, <2>1, <2>3
    <3>2. w.keys[i] = v /\ (i > 1 => w.keys[i - 1] = nd.keys[i - 1])
      BY <1>1, <1>3, <2>1, <2>3
    <3>3. \A x \in Between(nd, p) : x < v => x \in Between(w, i)
      BY <1>3, <2>3, <3>2 DEF Between
    <3>4. nd.kids[p] \in T /\ h[nd.kids[p]] = d - 1 /\ iv[nd.kids[p]] \subseteq Between(nd, p) \cap W
      BY <1>6
    <3>q. QED
      BY <3>1, <3>3, <3>4
  <2>4. CASE i = p + 1
    <3>1. w.kids[i] = right
      BY <1>1, <1>5, <2>1, <2>4
    <3>2. w.keys[i - 1] = v /\ (i <= w.n => w.keys[i] = nd.keys[p] /\ p <= nd.n)
      BY <1>1, <1>3, <2>1, <2>4
    <3>3. \A x \in Between(nd, p) : v < x => x \in Between(w, i)
      BY <1>3, <2>4, <3>2 DEF Between
    <3>q. QED
      BY <3>1, <3>3
  <2>5. CASE i > p + 1
    <3>1. i - 1 \in 1..(nd.n + 1) /\ w.kids[i] = nd.kids[i - 1]
      BY <1>1, <1>5, <2>1, <2>5
    <3>2. /\ w.keys[i - 1] = nd.keys[(i - 1) - 1] /\ i - 1 > 1
          /\ i <= w.n => w.keys[i] = nd.keys[i - 1] /\ i - 1 <= nd.n
      BY <1>1, <1>3, <2>1, <2>5
    <3>3. Between(nd, i - 1) \subseteq Between(w, i)
      BY <1>3, <3>2 DEF Between
    <3>q. QED
      BY <1>6, <3>1, <3>3
  <2>q. QED
    BY <1>1, <2>1, <2>2, <2>3, <2>4, <2>5
<1>8. KeysOf(w) \subseteq W
  BY <1>4 DEF Fits
<1>9. Fits(T, h, iv, w, d, W)
  BY <1>4, <1>7, <1>8 DEF Fits
<1>a. \A i \in 1..(nd.n + 1) : nd.kids[i] # NoOffset /\ nd.kids[i] # right
  BY <1>6 DEF KidsOf
<1>b. ASSUME NEW i \in 1..(w.n + 1), NEW j \in 1..(w.n + 1), i < j
      PROVE  w.kids[i] # w.kids[j]
  <2>1. i \in 1..(nd.n + 2) /\ j \in 1..(nd.n + 2)
    BY <1>1, <1>3
  <2>2. \A m, l \in 1..(nd.n + 1) : m # l => nd.kids[m] # nd.kids[l]
    BY <1>a DEF Once
  <2>3. CASE i <= p
    <3>1. w.kids[i] = nd.kids[i] /\ i \in 1..(nd.n + 1)
      BY <1>1, <1>5, <2>1, <2>3
    <3>2. CASE j <= p
      <4>1. w.kids[j] = nd.kids[j] /\ j \in 1..(nd.n + 1)
        BY <1>1, <1>5, <2>1, <3>2
      <4>q. QED
        BY <1>b, <2>2, <3>1, <4>1
    <3>3. CASE j = p + 1
      <4>1. w.kids[j] = right
        BY <1>1, <1>5, <2>1, <3>3
      <4>q. QED
        BY <1>a, <3>1, <4>1
    <3>4. CASE j > p + 1
      <4>1. w.kids[j] = nd.kids[j - 1] /\ j - 1 \in 1..(nd.n + 1) /\ i # j - 1
        BY <1>1, <1>5, <2>1, <2>3, <3>4
      <4>q. QED
        BY <2>2, <3>1, <4>1
    <3>q. QED
      BY <1>1, <2>1, <3>2, <3>3, <3>4
  <2>4. CASE i = p + 1
    <3>1. w.kids[i] = right /\ w.kids[j] = nd.kids[j - 1] /\ j - 1 \in 1..(nd.n + 1)
      BY <1>1, <1>5, <1>b, <2>1, <2>4
    <3>q. QED
      BY <1>a, <3>1
  <2>5. CASE i > p + 1
    <3>1. /\ w.kids[i] = nd.kids[i - 1] /\ w.kids[j] = nd.kids[j - 1]
          /\ i - 1 \in 1..(nd.n + 1) /\ j - 1 \in 1..(nd.n + 1) /\ i - 1 # j - 1
      BY <1>1, <1>5, <1>b, <2>1, <2>5
    <3>q. QED
      BY <2>2, <3>1
  <2>q. QED
    BY <1>1, <2>1, <2>3, <2>4, <2>5
<1>c. Once(w)
  <2>1. w.n \in Nat
    BY <1>1, <1>3
  <2>q. QED
    BY <1>b, <2>1 DEF Once
<1>d. ASSUME NEW c PROVE c \in KidsOf(w) <=> c \in KidsOf(nd) \cup {right}
  <2>1. ASSUME c \in KidsOf(w) PROVE c \in KidsOf(nd) \cup {right}
    <3>1. PICK i \in 1..(nd.n + 2) : c = w.kids[i] /\ c # NoOffset
      BY <1>1, <1>3, <2>1 DEF KidsOf
    <3>2. c = right \/ \E j \in 1..(nd.n + 1) : c = nd.kids[j]
      <4>1. CASE i <= p
        <5>1. i \in 1..(nd.n + 1) /\ c = nd.kids[i]
          BY <1>1, <1>5, <3>1, <4>1
        <5>q. QED
          BY <5>1
      <4>2. CASE i > p + 1
        <5>1. i - 1 \in 1..(nd.n + 1) /\ c = nd.kids[i - 1]
          BY <1>1, <1>5, <3>1, <4>2
        <5>q. QED
          BY <5>1
      <4>3. CASE i = p + 1
        BY <1>1, <1>5, <3>1, <4>3
      <4>q. QED
        BY <1>1, <4>1, <4>2, <4>3
    <3>q. QED
      BY <3>1, <3>2 DEF KidsOf
  <2>2. ASSUME c = right PROVE c \in KidsOf(w)
    <3>1. p + 1 \in 1..(nd.n + 2) /\ p + 1 \in 1..(w.n + 1) /\ w.kids[p + 1] = right
      BY <1>1, <1>3, <1>5
    <3>q. QED
      BY <2>2, <3>1 DEF KidsOf
  <2>3. ASSUME c \in KidsOf(nd) PROVE c \in KidsOf(w)
    <3>1. PICK i \in 1..(nd.n + 1) : c = nd.kids[i] /\ c # NoOffset
      BY <2>3 DEF KidsOf
    <3>2. \E j \in 1..(w.n + 1) : c = w.kids[j]
      <4>1. CASE i <= p
        <5>1. i \in 1..(w.n + 1) /\ c = w.kids[i]
          BY <1>1, <1>3, <1>5, <3>1, <4>1
        <5>q. QED
          BY <5>1
      <4>2. CASE i > p
        <5>1. i + 1 \in 1..(w.n + 1) /\ i + 1 > p + 1 /\ (i + 1) - 1 = i /\ i + 1 \in 1..(nd.n + 2)
          BY <1>1, <1>3, <4>2
        <5>2. c = w.kids[i + 1]
          BY <1>1, <1>5, <3>1, <5>1
        <5>q. QED
          BY <5>1, <5>2
      <4>q. QED
        BY <1>1, <4>1, <4>2
    <3>q. QED
      BY <3>1, <3>2 DEF KidsOf
  <2>q. QED
    BY <2>1, <2>2, <2>3
<1>e. KidsOf(w) = KidsOf(nd) \cup {right}
  BY <1>d
<1>q. QED
  BY <1>9, <1>c, <1>e DEF w

\* Each half takes the children with its keys.
LEMMA HalvesFit ==
  ASSUME NEW T, NEW h, NEW iv, NEW a \in AuxNode, a.n = Order, NEW d, NEW W, Fits(T, h, iv, a, d, W), Once(a)
  PROVE  LET v == SplitValue(a) IN
         /\ v \in W /\ v \in Int
         /\ Fits(T, h, iv, LeftOf(a), d, {x \in W : x < v}) /\ Once(LeftOf(a))
         /\ Fits(T, h, iv, RightOf(a), d, {x \in W : v < x}) /\ Once(RightOf(a))
         /\ KidsOf(LeftOf(a)) \subseteq KidsOf(a) /\ KidsOf(RightOf(a)) \subseteq KidsOf(a)
         /\ KidsOf(LeftOf(a)) \cap KidsOf(RightOf(a)) = {}
<1> DEFINE m == SplitIndex
           r == Order - 1 - m
           L == LeftOf(a)
           R == RightOf(a)
           v == SplitValue(a)
<1>1. /\ Order \in Nat /\ m \in 1..(Order - 1) /\ r \in 0..(Order - 1) /\ m + 1 + r = Order
      /\ v = a.keys[m + 1] /\ L.n = m /\ R.n = r
      /\ \A i \in 1..m : L.keys[i] = a.keys[i]
      /\ \A i \in 1..(m + 1) : L.kids[i] = a.kids[i]
      /\ \A i \in 1..r : R.keys[i] = a.keys[m + 1 + i]
      /\ \A i \in 1..(r + 1) : R.kids[i] = a.kids[m + 1 + i]
  BY HalvesAt
<1>2. /\ KeysOf(L) \cup {v} \cup KeysOf(R) = KeysOf(a)
      /\ KidsOf(L) \cup KidsOf(R) = KidsOf(a)
      /\ Ordered(L) /\ Ordered(R)
      /\ \A k \in KeysOf(L) : k < v
      /\ \A k \in KeysOf(R) : v < k
  BY DivisionKeepsAll DEF Fits
<1> HIDE DEF m, r, L, R, v
<1>3. \A i \in 1..Order : a.keys[i] \in Int
  BY DEF AuxNode
<1>4. v \in W /\ v \in Int /\ KeysOf(a) \subseteq W
  BY <1>1, <1>2, <1>3 DEF Fits
<1>5. \A i, j \in 1..Order : i < j => a.keys[i] < a.keys[j]
  BY <1>1, <1>3, OrderedApart DEF Fits
<1>6. ASSUME d # 0, NEW i \in 1..(Order + 1)
      PROVE  a.kids[i] \in T /\ h[a.kids[i]] = d - 1 /\ iv[a.kids[i]] \subseteq Between(a, i) \cap W
  BY <1>6 DEF Fits
<1>7. ASSUME d # 0, NEW i \in 1..(m + 1)
      PROVE  /\ L.kids[i] \in T /\ h[L.kids[i]] = d - 1
             /\ iv[L.kids[i]] \subseteq Between(L, i) \cap {x \in W : x < v}
  <2>1. i \in 1..(Order + 1) /\ i \in 1..Order /\ L.kids[i] = a.kids[i] /\ i <= a.n
    BY <1>1
  <2>2. (i > 1 => L.keys[i - 1] = a.keys[i - 1]) /\ (i <= m => L.keys[i] = a.keys[i])
    BY <1>1
  <2>3. ASSUME NEW x \in Between(a, i) PROVE x \in Between(L, i) /\ x < v
    <3>1. x < a.keys[i] /\ a.keys[i] \in Int /\ x \in Int /\ (i > 1 => a.keys[i - 1] < x)
      BY <1>3, <2>1 DEF Between
    <3>2. a.keys[i] = v \/ a.keys[i] < v
      BY <1>1, <1>5, <2>1
    <3>q. QED
      BY <1>1, <1>4, <2>2, <3>1, <3>2 DEF Between
  <2>q. QED
    BY <1>6, <1>7, <2>1, <2>3
<1>8. ASSUME d # 0, NEW i \in 1..(r + 1)
      PROVE  /\ R.kids[i] \in T /\ h[R.kids[i]] = d - 1
             /\ iv[R.kids[i]] \subseteq Between(R, i) \cap {x \in W : v < x}
  <2> DEFINE j == m + 1 + i
  <2>1. j \in 1..(Order + 1) /\ R.kids[i] = a.kids[j] /\ j > 1 /\ j - 1 \in 1..Order /\ j - 1 >= m + 1
    BY <1>1
  <2>2. /\ i > 1 => R.keys[i - 1] = a.keys[j - 1]
        /\ i <= r => R.keys[i] = a.keys[j] /\ j <= a.n
    <3>1. i > 1 => i - 1 \in 1..r /\ m + 1 + (i - 1) = j - 1
      BY <1>1
    <3>2. i <= r => i \in 1..r /\ j <= Order
      BY <1>1
    <3>q. QED
      BY <1>1, <3>1, <3>2
  <2> HIDE DEF j
  <2>3. ASSUME NEW x \in Between(a, j) PROVE x \in Between(R, i) /\ v < x
    <3>1. a.keys[j - 1] < x /\ a.keys[j - 1] \in Int /\ x \in Int /\ (j <= a.n => x < a.keys[j])
      BY <1>3, <2>1 DEF Between
    <3>2. a.keys[j - 1] = v \/ v < a.keys[j - 1]
      BY <1>1, <1>5, <2>1
    <3>q. QED
      BY <1>1, <1>4, <2>2, <3>1, <3>2 DEF Between
  <2>q. QED
    BY <1>6, <1>8, <2>1, <2>3
<1>9. d = 0 => /\ \A i \in 1..(m + 1) : L.kids[i] = NoOffset
               /\ \A i \in 1..(r + 1) : R.kids[i] = NoOffset
  <2> SUFFICES ASSUME d = 0 PROVE /\ \A i \in 1..(m + 1) : L.kids[i] = NoOffset
                                  /\ \A i \in 1..(r + 1) : R.kids[i] = NoOffset
    OBVIOUS
  <2>1. \A i \in 1..(Order + 1) : a.kids[i] = NoOffset
    BY DEF Fits
  <2>2. \A i \in 1..(m + 1) : i \in 1..(Order + 1)
    BY <1>1
  <2>3. \A i \in 1..(r + 1) : m + 1 + i \in 1..(Order + 1)
    BY <1>1
  <2>q. QED
    BY <1>1, <2>1, <2>2, <2>3
<1>10. KeysOf(L) \subseteq {x \in W : x < v} /\ KeysOf(R) \subseteq {x \in W : v < x}
  BY <1>2, <1>4
<1>11. Fits(T, h, iv, L, d, {x \in W : x < v})
  BY <1>1, <1>2, <1>7, <1>9, <1>10 DEF Fits
<1>12. Fits(T, h, iv, R, d, {x \in W : v < x})
  BY <1>1, <1>2, <1>8, <1>9, <1>10 DEF Fits
<1>13. \A i, j \in 1..(Order + 1) : i # j /\ a.kids[i] # NoOffset => a.kids[i] # a.kids[j]
  BY DEF Once
<1>14. Once(L)
  <2>1. \A i \in 1..(m + 1) : i \in 1..(Order + 1)
    BY <1>1
  <2>q. QED
    BY <1>1, <1>13, <2>1 DEF Once
<1>15. Once(R)
  <2>1. \A i \in 1..(r + 1) : m + 1 + i \in 1..(Order + 1)
    BY <1>1
  <2>2. \A i, j \in 1..(r + 1) : i # j => m + 1 + i # m + 1 + j
    BY <1>1
  <2>q. QED
    BY <1>1, <1>13, <2>1, <2>2 DEF Once
<1>16. KidsOf(L) \cap KidsOf(R) = {}
  <2>1. SUFFICES ASSUME NEW c \in KidsOf(L) \cap KidsOf(R) PROVE FALSE
    OBVIOUS
  <2>2. PICK i \in 1..(m + 1) : c = a.kids[i] /\ c # NoOffset
    BY <1>1 DEF KidsOf
  <2>3. PICK j \in 1..(r + 1) : c = a.kids[m + 1 + j]
    <3>1. PICK j \in 1..(r + 1) : c = R.kids[j]
      BY <1>1 DEF KidsOf
    <3>q. QED
      BY <1>1, <3>1
  <2>4. i \in 1..(Order + 1) /\ m + 1 + j \in 1..(Order + 1) /\ i # m + 1 + j
    BY <1>1
  <2>q. QED
    BY <1>13, <2>2, <2>3, <2>4
<1>q. QED
  BY <1>2, <1>4, <1>11, <1>12, <1>14, <1>15, <1>16 DEF L, R, v
-----------------------------------------------------------------------------
(* The levels of a tree *)

LEMMA Levels ==
  ASSUME NEW r
  PROVE  /\ Level(r)[0] = {r} \cap Slots
         /\ \A d \in Nat : Level(r)[d + 1] = UNION {KidsOf(nodes[s]) \cap Slots : s \in Level(r)[d]}
<1> DEFINE D == SUBSET Slots
           below(X) == UNION {KidsOf(nodes[s]) \cap Slots : s \in X}
           step == [X \in D |-> below(X)]
           a == {r} \cap Slots
           Is(level) == level = [d \in Nat |-> IF d = 0 THEN a ELSE below(level[d - 1])]
<1>1. Repeatable(D, a, step)
  BY DEF Repeatable
<1>2. PICK f \in [Nat -> D] : f[0] = a /\ \A n \in Nat : f[n + 1] = step[f[n]]
  <2> HIDE DEF D, step, a
  <2>q. QED
    BY <1>1, Recursion
<1>3. ASSUME NEW d \in Nat PROVE f[d] = IF d = 0 THEN a ELSE below(f[d - 1])
  <2>1. CASE d # 0
    <3>1. d - 1 \in Nat /\ (d - 1) + 1 = d
      BY <2>1
    <3>2. f[d] = step[f[d - 1]] /\ f[d - 1] \in D
      BY <1>2, <3>1
    <3>3. step[f[d - 1]] = below(f[d - 1])
      BY <3>2
    <3>q. QED
      BY <2>1, <3>2, <3>3
  <2>q. QED
    BY <1>2, <2>1
<1> HIDE DEF D, below, step, a
<1>4. Is(f)
  <2>1. f = [d \in Nat |-> f[d]]
    BY <1>2
  <2>q. QED
    BY <1>3, <2>1
<1>5. Level(r) = CHOOSE level : Is(level)
  BY DEF Level, a, below
<1>6. Is(Level(r))
  <2> HIDE DEF Is
  <2>q. QED
    BY <1>4, <1>5
<1>7. ASSUME NEW d \in Nat PROVE Level(r)[d + 1] = below(Level(r)[d])
  <2>1. d + 1 \in Nat /\ d + 1 # 0 /\ (d + 1) - 1 = d
    OBVIOUS
  <2>q. QED
    BY <1>6, <2>1
<1>8. Level(r)[0] = a
  BY <1>6
<1>q. QED
  BY <1>7, <1>8 DEF a, below
-----------------------------------------------------------------------------
(* A forest, as a certificate of search trees: nodes, their heights, and for each a set of keys *)
(* that holds those below it.                                                                  *)
Forest(T, h, iv, ns) ==
  /\ T \subseteq 1..Len(ns) /\ h \in [T -> Nat] /\ iv \in [T -> SUBSET Int]
  /\ \A s \in T : Fits(T, h, iv, ns[s], h[s], iv[s]) /\ Once(ns[s])
  /\ \A s, t \in T : s # t => KidsOf(ns[s]) \cap KidsOf(ns[t]) = {}

LEMMA ForestKids ==
  ASSUME NEW T, NEW h, NEW iv, NEW ns, Forest(T, h, iv, ns), NEW s \in T, NEW c \in KidsOf(ns[s])
  PROVE  /\ c \in T /\ h[s] # 0 /\ h[c] = h[s] - 1 /\ iv[c] \subseteq iv[s]
         /\ \E i \in 1..(ns[s].n + 1) : c = ns[s].kids[i] /\ iv[c] \subseteq Between(ns[s], i) \cap iv[s]
<1>1. PICK i \in 1..(ns[s].n + 1) : c = ns[s].kids[i] /\ c # NoOffset
  BY DEF KidsOf
<1>2. Fits(T, h, iv, ns[s], h[s], iv[s])
  BY DEF Forest
<1>3. h[s] # 0
  BY <1>1, <1>2 DEF Fits
<1>4. c \in T /\ h[c] = h[s] - 1 /\ iv[c] \subseteq Between(ns[s], i) \cap iv[s]
  BY <1>1, <1>2, <1>3 DEF Fits
<1>q. QED
  BY <1>1, <1>3, <1>4

LEMMA LevelInForest ==
  ASSUME nodes \in Seq(Node), NEW T, NEW h, NEW iv, Forest(T, h, iv, nodes), NEW r \in T,
         NEW d \in Nat, NEW s \in Level(r)[d]
  PROVE  s \in T /\ h[s] = h[r] - d /\ iv[s] \subseteq iv[r]
<1> DEFINE In(m) == \A t \in Level(r)[m] : t \in T /\ h[t] = h[r] - m /\ iv[t] \subseteq iv[r]
           Bad == {m \in Nat : ~In(m)}
<1>1. SUFFICES ASSUME d \in Bad PROVE FALSE
  OBVIOUS
<1>2. Bad \subseteq Nat /\ Bad # {}
  BY <1>1
<1>3. PICK m \in Bad : \A y \in Bad : ~(<<y, m>> \in OpToRel(<, Nat))
  BY <1>2, WFMin, NatLessThanWellFounded
<1>4. m \in Nat /\ ~In(m) /\ \A y \in Bad : ~(y < m)
  BY <1>2, <1>3 DEF OpToRel
<1>5. h \in [T -> Nat] /\ h[r] \in Nat
  BY DEF Forest
<1>6. CASE m = 0
  <2>1. \A t \in Level(r)[m] : t = r
    BY <1>6, Levels
  <2>q. QED
    BY <1>4, <1>5, <1>6, <2>1
<1>7. CASE m # 0
  <2>1. m - 1 \in Nat /\ m - 1 < m /\ (m - 1) + 1 = m
    BY <1>4, <1>7
  <2>2. In(m - 1)
    BY <1>4, <2>1
  <2>3. Level(r)[m] = UNION {KidsOf(nodes[t]) \cap Slots : t \in Level(r)[m - 1]}
    BY <2>1, Levels
  <2>4. ASSUME NEW t \in Level(r)[m] PROVE t \in T /\ h[t] = h[r] - m /\ iv[t] \subseteq iv[r]
    <3>1. PICK u \in Level(r)[m - 1] : t \in KidsOf(nodes[u])
      BY <2>3
    <3>2. u \in T /\ h[u] = h[r] - (m - 1) /\ iv[u] \subseteq iv[r]
      BY <2>2, <3>1
    <3>3. t \in T /\ h[t] = h[u] - 1 /\ iv[t] \subseteq iv[u]
      BY <3>1, <3>2, ForestKids
    <3>q. QED
      BY <1>4, <1>5, <3>2, <3>3
  <2>q. QED
    BY <1>4, <2>4
<1>q. QED
  BY <1>6, <1>7

\* The keys below a node of a forest are among those it is given.
LEMMA KeysInForest ==
  ASSUME nodes \in Seq(Node), NEW T, NEW h, NEW iv, Forest(T, h, iv, nodes), NEW r \in T
  PROVE  KeysBelow(r) \subseteq iv[r] /\ Reach(r) \subseteq T
<1>1. ASSUME NEW s \in Reach(r) PROVE s \in T /\ iv[s] \subseteq iv[r]
  <2>1. PICK d \in 0..Len(nodes) : s \in Level(r)[d]
    BY DEF Reach
  <2>2. d \in Nat
    OBVIOUS
  <2>q. QED
    BY <2>1, <2>2, LevelInForest
<1>2. \A s \in Reach(r) : KeysOf(nodes[s]) \subseteq iv[s]
  BY <1>1 DEF Forest, Fits
<1>q. QED
  BY <1>1, <1>2 DEF KeysBelow

LEMMA KidsCounted ==
  ASSUME NEW nd \in Node, Once(nd), \A i \in 1..(nd.n + 1) : nd.kids[i] # NoOffset
  PROVE  Cardinality(KidsOf(nd)) = nd.n + 1
<1> DEFINE f == [i \in 1..(nd.n + 1) |-> nd.kids[i]]
<1>1. nd.n + 1 \in Nat
  BY OrderAssumption DEF Node
<1>2. f \in [1..(nd.n + 1) -> KidsOf(nd)]
  BY DEF KidsOf
<1>3. \A i, j \in 1..(nd.n + 1) : f[i] = f[j] => i = j
  BY DEF Once
<1>4. \A c \in KidsOf(nd) : \E i \in 1..(nd.n + 1) : f[i] = c
  BY DEF KidsOf
<1> HIDE DEF f
<1>5. f \in Bijection(1..(nd.n + 1), KidsOf(nd))
  BY <1>2, <1>3, <1>4 DEF Bijection, Injection, IsInjective, Surjection
<1>6. ExistsBijection(1..(nd.n + 1), KidsOf(nd))
  BY <1>5 DEF ExistsBijection
<1>q. QED
  BY <1>1, <1>6, FS_CountingElements

\* Below an offset that is no slot there is nothing.
LEMMA NoReach ==
  ASSUME NEW r, r \notin Slots
  PROVE  Reach(r) = {} /\ \A d \in 0..Len(nodes) : Level(r)[d] = {}
<1> DEFINE Bad == {m \in Nat : Level(r)[m] # {}}
<1>1. Bad = {}
  <2>1. SUFFICES ASSUME Bad # {} PROVE FALSE
    OBVIOUS
  <2>2. PICK m \in Bad : \A y \in Bad : ~(<<y, m>> \in OpToRel(<, Nat))
    BY <2>1, WFMin, NatLessThanWellFounded
  <2>3. m \in Nat /\ Level(r)[m] # {} /\ \A y \in Bad : ~(y < m)
    BY <2>2 DEF OpToRel
  <2>4. m # 0
    BY <2>3, Levels
  <2>5. m - 1 \in Nat /\ m - 1 < m /\ (m - 1) + 1 = m
    BY <2>3, <2>4
  <2>6. Level(r)[m - 1] = {}
    BY <2>3, <2>5
  <2>7. Level(r)[m] = UNION {KidsOf(nodes[t]) \cap Slots : t \in Level(r)[m - 1]}
    BY <2>5, Levels
  <2>q. QED
    BY <2>3, <2>6, <2>7
<1>2. \A d \in 0..Len(nodes) : d \in Nat
  OBVIOUS
<1>3. \A d \in 0..Len(nodes) : Level(r)[d] = {}
  BY <1>1, <1>2
<1>q. QED
  BY <1>3 DEF Reach

\* An offset that is no slot has no tree; one in the forest has a search tree.
LEMMA ForestSearchTree ==
  ASSUME nodes \in Seq(Node), NodesSound, NEW T, NEW h, NEW iv, Forest(T, h, iv, nodes),
         NEW r, r \in Slots => r \in T
  PROVE  SearchTree(r)
<1>0. \A d \in 0..Len(nodes) : d \in Nat
  OBVIOUS
<1>1. CASE r \notin Slots
  <2>q. QED
    BY <1>1, NoReach DEF SearchTree
<1>2. CASE r \in Slots
  <2>1. r \in T
    BY <1>2
  <2>2. Reach(r) \subseteq T
    BY <2>1, KeysInForest
  <2>3. /\ T \subseteq Slots /\ h \in [T -> Nat]
        /\ \A s \in T : nodes[s] \in Node /\ nodes[s].n \in Nat /\ nodes[s].n >= 1
    <3>1. T \subseteq Slots /\ h \in [T -> Nat]
      BY DEF Forest, Slots
    <3>2. \A s \in T : nodes[s] \in Node /\ nodes[s].n >= 1
      BY <3>1, SlotsType DEF NodesSound
    <3>3. \A nd \in Node : nd.n \in Nat
      BY OrderAssumption DEF Node
    <3>q. QED
      BY <3>1, <3>2, <3>3
  <2>4. NoOffset \notin T
    BY <2>3, SlotsType
  <2>5. ASSUME NEW s \in T PROVE IsLeaf(nodes[s]) <=> h[s] = 0
    <3>1. ASSUME h[s] = 0 PROVE KidsOf(nodes[s]) = {}
      BY <3>1, ForestKids
    <3>2. ASSUME h[s] # 0 PROVE KidsOf(nodes[s]) # {}
      <4>1. nodes[s].kids[1] \in T /\ 1 \in 1..(nodes[s].n + 1)
        BY <2>3, <3>2 DEF Forest, Fits
      <4>2. nodes[s].kids[1] \in KidsOf(nodes[s])
        BY <2>4, <4>1 DEF KidsOf
      <4>q. QED
        BY <4>2
    <3>q. QED
      BY <3>1, <3>2 DEF IsLeaf
  <2>6. ASSUME NEW s \in T PROVE Separates(nodes[s])
    <3>1. SUFFICES ASSUME NEW i \in 1..(nodes[s].n + 1), nodes[s].kids[i] # NoOffset
                   PROVE  /\ nodes[s].kids[i] \in Slots
                          /\ KeysBelow(nodes[s].kids[i]) \subseteq Between(nodes[s], i)
      BY DEF Separates, Between
    <3>2. nodes[s].kids[i] \in T /\ iv[nodes[s].kids[i]] \subseteq Between(nodes[s], i)
      BY <3>1 DEF Forest, Fits
    <3>q. QED
      BY <2>3, <3>2, KeysInForest
  <2>7. ASSUME NEW s \in T PROVE IsLeaf(nodes[s]) \/ Cardinality(KidsOf(nodes[s])) = nodes[s].n + 1
    <3>1. SUFFICES ASSUME h[s] # 0 PROVE Cardinality(KidsOf(nodes[s])) = nodes[s].n + 1
      BY <2>5
    <3>2. \A i \in 1..(nodes[s].n + 1) : nodes[s].kids[i] \in T
      BY <3>1 DEF Forest, Fits
    <3>3. Once(nodes[s]) /\ nodes[s] \in Node
      BY <2>3 DEF Forest
    <3>q. QED
      BY <2>4, <3>2, <3>3, KidsCounted
  <2>8. ASSUME NEW s \in T PROVE Ordered(nodes[s])
    BY DEF Forest, Fits
  <2>9. \A s, t \in T : s # t => KidsOf(nodes[s]) \cap KidsOf(nodes[t]) = {}
    BY DEF Forest
  <2>10. ASSUME NEW d \in 0..Len(nodes), NEW s \in Level(r)[d], NEW t \in Level(r)[d]
         PROVE  IsLeaf(nodes[s]) <=> IsLeaf(nodes[t])
    <3>1. s \in T /\ t \in T /\ h[s] = h[t]
      BY <1>0, <2>1, LevelInForest
    <3>q. QED
      BY <2>5, <3>1
  <2>q. QED
    BY <2>2, <2>3, <2>6, <2>7, <2>8, <2>9, <2>10 DEF SearchTree
<1>q. QED
  BY <1>1, <1>2
-----------------------------------------------------------------------------
(* Changes of a forest *)

\* A node that stays as it is, in a forest that gives its children no more keys.
LEMMA StaysFit ==
  ASSUME NEW T, NEW h, NEW iv, NEW ns, Forest(T, h, iv, ns), NEW s \in T,
         NEW S, NEW g, NEW iu, NEW V, iv[s] \subseteq V,
         \A c \in KidsOf(ns[s]) \cap T : c \in S /\ g[c] = h[c] /\ iu[c] \subseteq iv[c],
         NoOffset \notin T
  PROVE  Fits(S, g, iu, ns[s], h[s], V) /\ Once(ns[s])
<1>1. Fits(T, h, iv, ns[s], h[s], iv[s]) /\ Once(ns[s])
  BY DEF Forest
<1>q. QED
  BY <1>1, FitsMoved

\* The nodes up to a height are a forest.
LEMMA ForestBelow ==
  ASSUME NEW T, NEW h, NEW iv, NEW ns, Forest(T, h, iv, ns), NEW b \in Nat, NoOffset \notin T
  PROVE  LET S == {s \in T : h[s] <= b} IN Forest(S, [s \in S |-> h[s]], [s \in S |-> iv[s]], ns)
<1> DEFINE S == {s \in T : h[s] <= b}
           g == [s \in S |-> h[s]]
           iu == [s \in S |-> iv[s]]
<1>1. h \in [T -> Nat] /\ iv \in [T -> SUBSET Int] /\ T \subseteq 1..Len(ns)
  BY DEF Forest
<1>2. S \subseteq 1..Len(ns) /\ g \in [S -> Nat] /\ iu \in [S -> SUBSET Int]
  BY <1>1
<1>3. ASSUME NEW s \in S, NEW c \in KidsOf(ns[s]) PROVE c \in S
  <2>1. c \in T /\ h[c] = h[s] - 1 /\ s \in T
    BY ForestKids
  <2>q. QED
    BY <1>1, <2>1
<1>4. \A s, t \in S : s # t => KidsOf(ns[s]) \cap KidsOf(ns[t]) = {}
  BY DEF Forest
<1>5. ASSUME NEW s \in S PROVE Fits(S, g, iu, ns[s], g[s], iu[s]) /\ Once(ns[s])
  <2>1. \A c \in KidsOf(ns[s]) \cap T : c \in S /\ g[c] = h[c] /\ iu[c] \subseteq iv[c]
    BY <1>3
  <2>2. g[s] = h[s] /\ iu[s] = iv[s] /\ s \in T
    OBVIOUS
  <2> HIDE DEF S, g, iu
  <2>3. Fits(S, g, iu, ns[s], h[s], iv[s]) /\ Once(ns[s])
    BY <2>1, <2>2, StaysFit
  <2>q. QED
    BY <2>2, <2>3
<1> HIDE DEF S, g, iu
<1>6. Forest(S, g, iu, ns)
  BY <1>2, <1>4, <1>5 DEF Forest
<1>q. QED
  BY <1>6 DEF S, g, iu

\* A node that agrees with another one up to its number of keys.
LEMMA FitsSame ==
  ASSUME NEW T, NEW h, NEW iv, NEW nd, NEW d, NEW W, NEW md, nd.n \in Nat, md.n = nd.n,
         \A i \in 1..nd.n : md.keys[i] = nd.keys[i],
         \A i \in 1..(nd.n + 1) : md.kids[i] = nd.kids[i]
  PROVE  /\ Fits(T, h, iv, nd, d, W) => Fits(T, h, iv, md, d, W)
         /\ Once(nd) => Once(md)
         /\ KidsOf(md) = KidsOf(nd)
<1>1. Ordered(nd) => Ordered(md)
  <2>1. \A i \in 2..nd.n : i \in 1..nd.n /\ i - 1 \in 1..nd.n
    OBVIOUS
  <2>q. QED
    BY <2>1 DEF Ordered
<1>2. KeysOf(md) = KeysOf(nd)
  BY DEF KeysOf
<1>3. KidsOf(md) = KidsOf(nd) /\ (Once(nd) => Once(md))
  BY DEF KidsOf, Once
<1>4. ASSUME NEW i \in 1..(nd.n + 1) PROVE Between(nd, i) = Between(md, i)
  <2>1. (i > 1 => i - 1 \in 1..nd.n) /\ (i <= nd.n => i \in 1..nd.n)
    OBVIOUS
  <2>q. QED
    BY <2>1 DEF Between
<1>q. QED
  BY <1>1, <1>2, <1>3, <1>4 DEF Fits

\* The set of one child grows by a key that is between the keys around it.
LEMMA FitsKey ==
  ASSUME NEW T, NEW h, NEW iv, NEW nd, NEW d, NEW W, Fits(T, h, iv, nd, d, W), Once(nd),
         NEW p \in 1..(nd.n + 1), NEW kid \in T, kid = nd.kids[p], kid # NoOffset,
         NEW k \in Between(nd, p), k \in W,
         NEW iu, iu[kid] = iv[kid] \cup {k}, \A s \in T : s # kid => iu[s] = iv[s]
  PROVE  Fits(T, h, iu, nd, d, W)
<1>1. ASSUME d # 0, NEW i \in 1..(nd.n + 1)
      PROVE  nd.kids[i] \in T /\ h[nd.kids[i]] = d - 1 /\ iu[nd.kids[i]] \subseteq Between(nd, i) \cap W
  <2>1. nd.kids[i] \in T /\ h[nd.kids[i]] = d - 1 /\ iv[nd.kids[i]] \subseteq Between(nd, i) \cap W
    BY <1>1 DEF Fits
  <2>2. CASE i = p
    BY <2>1, <2>2
  <2>3. CASE i # p
    <3>1. nd.kids[i] # kid
      BY <2>3 DEF Once
    <3>q. QED
      BY <2>1, <3>1
  <2>q. QED
    BY <2>2, <2>3
<1>q. QED
  BY <1>1 DEF Fits
-----------------------------------------------------------------------------
(* The invariant *)

\* The tree on disk and the one the process works on are in the forest; nothing is over the root.
HeaderHeld(T) ==
  /\ exists \/ (header = Header /\ ~Alive)
  /\ header \in Slots => header \in T /\ (Alive => root_offset \in Slots)
RootHeld(T, h) ==
  Alive /\ root_offset \in Slots => root_offset \in T /\ \A t \in T : h[t] <= h[root_offset]

\* The descent of populate_parents, and the leaf it comes to.
DescentHeld(T, iv) ==
  root_offset \in Slots =>
    /\ pc = "descend" => {cur, prev} \subseteq T /\ key \in iv[cur]
    /\ pc = "leaf" => /\ leaf_offset \in T /\ key \in iv[leaf_offset]
                      /\ key \notin KeysOf(nodes[leaf_offset])
    /\ pc \in {"descend", "leaf", "split", "right", "link", "newroot"} =>
         \A i \in 1..Len(stack) : stack[i] \in T \cup {RootMark}

\* The node a split divides, its right half, and the place in the parent they share.
Divided(T, h, iv) ==
  /\ Fits(T, h, iv, aux, h[node_offset], iv[node_offset]) /\ Once(aux)
  /\ \A t \in T \ {node_offset} : KidsOf(aux) \cap KidsOf(nodes[t]) = {}
Halved(T, h, iv) ==
  /\ right_offset \in T \ {node_offset} /\ h[right_offset] = h[node_offset]
  /\ \A t \in T : right_offset \notin KidsOf(nodes[t])
  /\ SplitValue(aux) \in Int
  /\ \A x \in iv[node_offset] : x < SplitValue(aux)
  /\ \A x \in iv[right_offset] : SplitValue(aux) < x
SplitHeld(T, h, iv) ==
  Splitting =>
    /\ node_offset \in T
    /\ pc \in {"split", "right"} => Divided(T, h, iv)
    /\ pc = "right" => nodes[node_offset] = LeftOf(aux)
    /\ pc \in {"right", "link", "newroot"} => next_parent \in T \cup {RootMark}
    /\ pc \in {"link", "newroot"} => Halved(T, h, iv)
    /\ pc = "link" => \E i \in 1..(nodes[next_parent].n + 1) :
         /\ nodes[next_parent].kids[i] = node_offset
         /\ {SplitValue(aux)} \cup iv[right_offset] \subseteq Between(nodes[next_parent], i) \cap iv[next_parent]

\* Where the search for the key was: the nodes F do not hold it, and the child to go on to from
\* each of them is one of F, the next one or none.
Passed(s, G) == key \notin KeysOf(nodes[s]) /\ nodes[s].kids[Position(nodes[s], key)] \in G
SearchHeld(T, F) ==
  root_offset \in Slots =>
    /\ pc = "find" => /\ F \cup {cur} \subseteq T /\ root_offset \in F \cup {cur}
                      /\ \A s \in F : Passed(s, F \cup {cur})
    /\ (pc = "answer" /\ ~found) \/ pc \in {"parents", "descend"} =>
         /\ F \subseteq T /\ root_offset \in F /\ \A s \in F : Passed(s, F \cup {NoOffset})
         /\ pc = "descend" => cur \in F

Held(T, h, iv, F) ==
  /\ Forest(T, h, iv, nodes) /\ HeaderHeld(T) /\ RootHeld(T, h)
  /\ DescentHeld(T, iv) /\ SplitHeld(T, h, iv) /\ SearchHeld(T, F)

LEMMA ForestSlots ==
  ASSUME nodes \in Seq(Node), NEW T, NEW h, NEW iv, Forest(T, h, iv, nodes)
  PROVE  /\ T \subseteq Slots /\ NoOffset \notin T /\ RootMark \notin T
         /\ h \in [T -> Nat] /\ iv \in [T -> SUBSET Int]
         /\ \A s \in T : nodes[s] \in Node /\ nodes[s].n \in Nat
<1>1. T \subseteq Slots /\ h \in [T -> Nat] /\ iv \in [T -> SUBSET Int]
  BY DEF Forest, Slots
<1>2. \A nd \in Node : nd.n \in Nat
  BY OrderAssumption DEF Node
<1>q. QED
  BY <1>1, <1>2, SlotsType

LEMMA HeldSearchTree ==
  ASSUME TypeOK, OffsetsSound, NEW T, NEW h, NEW iv, NEW F, Held(T, h, iv, F)
  PROVE  SearchTreeAlways
<1>1. SearchTree(header)
  BY ForestSearchTree DEF Held, HeaderHeld, TypeOK, OffsetsSound
<1>2. Alive => SearchTree(root_offset)
  BY ForestSearchTree DEF Held, RootHeld, TypeOK, OffsetsSound
<1>q. QED
  BY <1>1, <1>2 DEF SearchTreeAlways
-----------------------------------------------------------------------------
(* The steps *)

\* A process ends: the tree on disk stays in the forest.
LEMMA GoneHeld ==
  ASSUME NEW T, NEW h, NEW iv, NEW F, Held(T, h, iv, F), Alive, nodes' = nodes, exists' = exists,
         header' = header \/ header' = root_offset, pc' \in {"exited", "died", "killed"}
  PROVE  \E S, g, iu, G : Held(S, g, iu, G)'
<1>1. Slots' = Slots /\ ~Alive'
  BY DEF Slots, Alive
<1>2. Held(T, h, iv, {})'
  BY <1>1 DEF Held, HeaderHeld, RootHeld, DescentHeld, SplitHeld, SearchHeld, Splitting
<1>q. QED
  BY <1>2

\* A step of a command that ends outside of a search, a descent and a split.
LEMMA CalmHeld ==
  ASSUME NEW T, NEW h, NEW iv, NEW F, Held(T, h, iv, F), Alive, UNCHANGED <<disk, root_offset>>,
         pc' \in {"cmd", "call"}
  PROVE  \E S, g, iu, G : Held(S, g, iu, G)'
<1>1. nodes' = nodes /\ exists' = exists /\ header' = header /\ root_offset' = root_offset
  BY Zenon DEF disk
<1>2. Slots' = Slots /\ Alive'
  BY <1>1 DEF Slots, Alive
<1>3. Held(T, h, iv, {})'
  BY <1>1, <1>2 DEF Held, HeaderHeld, RootHeld, DescentHeld, SplitHeld, SearchHeld, Splitting
<1>q. QED
  BY <1>3

\* A process starts: what is not below the root of the file is left out.
LEMMA OpenHeld ==
  ASSUME TypeOK, NEW T, NEW h, NEW iv, NEW F, Held(T, h, iv, F), Open
  PROVE  \E S, g, iu, G : Held(S, g, iu, G)'
<1>1. /\ ~Alive /\ exists' = TRUE /\ root_offset' = (IF exists THEN header ELSE NoOffset)
      /\ pc' = "cmd" /\ header' = header /\ nodes' = nodes
  BY Zenon DEF Open
<1>2. Slots' = Slots /\ Alive' /\ nodes \in Seq(Node)
  BY <1>1 DEF Slots, Alive, TypeOK
<1>3. Forest(T, h, iv, nodes) /\ HeaderHeld(T)
  BY DEF Held
<1>4. NoOffset \notin Slots /\ Header \notin Slots /\ NoOffset \notin T /\ h \in [T -> Nat]
  BY <1>2, <1>3, SlotsType, ForestSlots
<1>5. CASE header \in Slots
  <2>1. header \in T /\ exists /\ h[header] \in Nat
    BY <1>3, <1>4, <1>5 DEF HeaderHeld
  <2>2. PICK S, g, iu : Forest(S, g, iu, nodes) /\ header \in S /\ \A t \in S : g[t] <= g[header]
    <3> DEFINE S == {s \in T : h[s] <= h[header]}
               g == [s \in S |-> h[s]]
               iu == [s \in S |-> iv[s]]
    <3>1. Forest(S, g, iu, nodes)
      BY <1>3, <1>4, <2>1, ForestBelow
    <3>2. header \in S /\ \A t \in S : g[t] <= g[header]
      BY <1>4, <2>1
    <3> HIDE DEF S, g, iu
    <3>q. QED
      BY <3>1, <3>2
  <2>4. root_offset' = header
    BY <1>1, <2>1
  <2>5. Held(S, g, iu, {})'
    BY <1>1, <1>2, <1>5, <2>2, <2>4
       DEF Held, HeaderHeld, RootHeld, DescentHeld, SplitHeld, SearchHeld, Splitting
  <2>q. QED
    BY <2>5
<1>6. CASE header \notin Slots
  <2>1. root_offset' \notin Slots
    BY <1>1, <1>4, <1>6
  <2>2. Held(T, h, iv, {})'
    BY <1>1, <1>2, <1>3, <1>6, <2>1
       DEF Held, HeaderHeld, RootHeld, DescentHeld, SplitHeld, SearchHeld, Splitting
  <2>q. QED
    BY <2>2
<1>q. QED
  BY <1>5, <1>6
-----------------------------------------------------------------------------
(* The steps of a search and of a descent *)

\* A step of a search or of the start of an add, which changes neither the file nor the root.
LEMMA ReadHeld ==
  ASSUME NEW T, NEW h, NEW iv, NEW F, Held(T, h, iv, F), Alive, UNCHANGED <<disk, root_offset>>,
         pc' \in {"find", "answer", "parents"}, NEW G, SearchHeld(T, G)'
  PROVE  Held(T, h, iv, G)'
<1>1. nodes' = nodes /\ exists' = exists /\ header' = header /\ root_offset' = root_offset
  BY Zenon DEF disk
<1>2. Slots' = Slots /\ Alive'
  BY <1>1 DEF Slots, Alive
<1>q. QED
  BY <1>1, <1>2 DEF Held, HeaderHeld, RootHeld, DescentHeld, SplitHeld, Splitting

\* The search opens the file and starts at the root, or ends at once when there is none.
LEMMA FindOpenHeld ==
  ASSUME TypeOK, OffsetsSound, NEW T, NEW h, NEW iv, NEW F, Held(T, h, iv, F), FindEmpty \/ FindOpen
  PROVE  \E S, g, iu, G : Held(S, g, iu, G)'
<1>1. /\ pc = "call" /\ UNCHANGED <<disk, root_offset>> /\ nodes' = nodes
      /\ \/ root_offset = NoOffset /\ pc' = "answer"
         \/ cur' = root_offset /\ pc' = "find"
  BY Zenon DEF FindEmpty, FindOpen, globals, disk
<1>2. Alive /\ Slots' = Slots /\ root_offset' = root_offset /\ NoOffset \notin Slots
  BY <1>1, SlotsType DEF Alive, Slots, TypeOK
<1>3. SearchHeld(T, {})'
  BY <1>1, <1>2 DEF Held, RootHeld, SearchHeld
<1>4. Held(T, h, iv, {})'
  BY <1>1, <1>2, <1>3, ReadHeld
<1>q. QED
  BY <1>4

\* The search stops at a node whose key at the position it scanned to is not the one asked for: the
\* node has not got it.
LEMMA ScanPassed ==
  ASSUME NEW nd \in Node, Ordered(nd), NEW k \in Int,
         ~(Position(nd, k) <= nd.n /\ nd.keys[Position(nd, k)] = k)
  PROVE  k \notin KeysOf(nd)
<1> DEFINE p == Position(nd, k)
<1>1. nd.n \in Nat /\ \A j \in 1..nd.n : nd.keys[j] \in Int
  BY OrderAssumption DEF Node
<1>2. p \in 1..(nd.n + 1) /\ (p <= nd.n => nd.keys[p] >= k) /\ \A j \in 1..(p - 1) : nd.keys[j] < k
  BY <1>1, PositionType
<1>3. ~(p <= nd.n /\ nd.keys[p] = k)
  OBVIOUS
<1> HIDE DEF p
<1>4. SUFFICES ASSUME NEW j \in 1..nd.n, nd.keys[j] = k PROVE FALSE
  BY DEF KeysOf
<1>5. p <= j
  <2>1. j < p => j \in 1..(p - 1)
    BY <1>2
  <2>q. QED
    BY <1>2, <1>4, <2>1
<1>6. p \in 1..nd.n /\ p # j
  BY <1>1, <1>2, <1>3, <1>4, <1>5
<1>7. nd.keys[p] < nd.keys[j]
  BY <1>1, <1>5, <1>6, OrderedApart
<1>q. QED
  BY <1>1, <1>2, <1>4, <1>6, <1>7

\* A step of the search keeps the answer in reach: the key is not above or beside the node read next.
LEMMA FindStepHeld ==
  ASSUME TypeOK, OffsetsSound, NEW T, NEW h, NEW iv, NEW F, Held(T, h, iv, F), FindStep
  PROVE  \E S, g, iu, G : Held(S, g, iu, G)'
<1> DEFINE nd == nodes[cur]
           p  == Position(nd, key)
           at == p <= nd.n /\ nd.keys[p] = key
<1>1. /\ pc = "find" /\ UNCHANGED <<disk, root_offset>> /\ nodes' = nodes /\ key' = key
      /\ \/ CountAt(cur) = 0 /\ pc' = "answer"
         \/ CountAt(cur) # 0 /\ \/ at /\ found' = TRUE /\ pc' = "answer"
                                \/ ~at /\ nd.kids[p] = NoOffset /\ pc' = "answer"
                                \/ ~at /\ nd.kids[p] # NoOffset /\ cur' = nd.kids[p] /\ pc' = pc
  BY Zenon DEF FindStep, FindAnswer, globals, disk, command
<1>2. Alive /\ Slots' = Slots /\ root_offset' = root_offset /\ pc' \in {"find", "answer"}
  BY <1>1 DEF Alive, Slots
<1>3. CASE root_offset \notin Slots
  <2>1. SearchHeld(T, {})'
    BY <1>2, <1>3 DEF SearchHeld
  <2>q. QED
    BY <1>1, <1>2, <2>1, ReadHeld
<1>4. CASE root_offset \in Slots /\ at /\ CountAt(cur) # 0 /\ found' = TRUE /\ pc' = "answer"
  <2>1. SearchHeld(T, {})'
    BY <1>4 DEF SearchHeld
  <2>q. QED
    BY <1>1, <1>2, <2>1, ReadHeld
<1>5. CASE root_offset \in Slots /\ ~(at /\ CountAt(cur) # 0 /\ found' = TRUE /\ pc' = "answer")
  <2>1. /\ F \cup {cur} \subseteq T /\ root_offset \in F \cup {cur}
        /\ \A s \in F : Passed(s, F \cup {cur})
    BY <1>1, <1>5 DEF Held, SearchHeld
  <2>2. /\ nodes \in Seq(Node) /\ key \in Int /\ Forest(T, h, iv, nodes)
    BY DEF TypeOK, Held
  <2>3. /\ cur \in Slots /\ nd \in Node /\ Fits(T, h, iv, nd, h[cur], iv[cur]) /\ cur # Header
    <3>1. cur \in T /\ T \subseteq Slots /\ Header \notin Slots /\ \A s \in T : nodes[s] \in Node
      BY <2>1, <2>2, ForestSlots, SlotsType
    <3>2. Fits(T, h, iv, nodes[cur], h[cur], iv[cur])
      BY <2>2, <3>1 DEF Forest
    <3>q. QED
      BY <3>1, <3>2
  <2>4. nd.n >= 1
    BY <2>3 DEF OffsetsSound, NodesSound
  <2>5. p \in 1..(nd.n + 1)
    BY <2>2, <2>3, NodePosition
  <2>6. CountAt(cur) # 0
    BY <2>3, <2>4 DEF CountAt
  <2>7. ~at
    BY <1>1, <1>5, <2>6
  <2>8. key \notin KeysOf(nd)
    BY <2>2, <2>3, <2>7, ScanPassed DEF Fits
  <2>9. CASE nd.kids[p] = NoOffset /\ pc' = "answer"
    <3> DEFINE G == F \cup {cur}
    <3>1. \A s \in G : Passed(s, G \cup {NoOffset})
      BY <2>1, <2>8, <2>9 DEF Passed
    <3>2. G \subseteq T /\ root_offset \in G
      BY <2>1
    <3>3. PICK E : E \subseteq T /\ root_offset \in E /\ \A s \in E : Passed(s, E \cup {NoOffset})
      <4> HIDE DEF G
      <4>q. QED
        BY <3>1, <3>2
    <3>4. SearchHeld(T, E)'
      BY <1>1, <1>2, <2>9, <3>3 DEF SearchHeld, Passed
    <3>q. QED
      BY <1>1, <1>2, <3>4, ReadHeld
  <2>10. CASE nd.kids[p] # NoOffset /\ cur' = nd.kids[p] /\ pc' = pc
    <3> DEFINE G == F \cup {cur}
               kid == nd.kids[p]
    <3>1. kid \in T
      BY <2>3, <2>5, <2>10 DEF Fits
    <3>2. \A s \in G : Passed(s, G \cup {kid})
      BY <2>1, <2>8 DEF Passed
    <3>3. G \cup {kid} \subseteq T /\ root_offset \in G
      BY <2>1, <3>1
    <3>4. PICK E : /\ E \cup {kid} \subseteq T /\ root_offset \in E
                   /\ \A s \in E : Passed(s, E \cup {kid})
      <4> HIDE DEF G, kid
      <4>q. QED
        BY <3>2, <3>3
    <3>5. cur' = kid
      BY <2>10
    <3> HIDE DEF kid
    <3>6. SearchHeld(T, E)'
      BY <1>1, <1>2, <2>10, <3>4, <3>5 DEF SearchHeld, Passed
    <3>q. QED
      BY <1>1, <1>2, <3>6, ReadHeld
  <2>q. QED
    BY <1>1, <2>6, <2>7, <2>9, <2>10
<1>q. QED
  BY <1>3, <1>4, <1>5

\* The add of a key the search has not found.
LEMMA StartAddHeld ==
  ASSUME NEW T, NEW h, NEW iv, NEW F, Held(T, h, iv, F), StartAdd
  PROVE  \E S, g, iu, G : Held(S, g, iu, G)'
<1>1. /\ pc = "answer" /\ ~found /\ pc' = "parents" /\ UNCHANGED <<disk, root_offset>>
      /\ nodes' = nodes /\ key' = key
  BY Zenon DEF StartAdd, globals, disk, command
<1>2. Alive /\ Slots' = Slots /\ root_offset' = root_offset
  BY <1>1 DEF Alive, Slots
<1>3. SearchHeld(T, F)'
  BY <1>1, <1>2 DEF Held, SearchHeld, Passed
<1>q. QED
  BY <1>1, <1>2, <1>3, ReadHeld

\* The key of an add may go below the root: nothing is over the root that would part it.
LEMMA ParentsOpenHeld ==
  ASSUME TypeOK, OffsetsSound, NEW T, NEW h, NEW iv, NEW F, Held(T, h, iv, F), ParentsOpen
  PROVE  \E S, g, iu, G : Held(S, g, iu, G)'
<1>1. /\ pc = "parents" /\ pc' = "descend" /\ cur' = root_offset /\ prev' = root_offset /\ nodes' = nodes
      /\ root_offset' = root_offset /\ stack' = stack /\ exists' = exists /\ header' = header /\ key' = key
  BY Zenon DEF ParentsOpen, disk, globals, command
<1>2. stack = <<>> /\ Slots' = Slots /\ Alive /\ Alive'
  BY <1>1 DEF OffsetsSound, StackSound, Slots, Alive
<1>3. CASE root_offset \notin Slots
  <2>1. Held(T, h, iv, {})'
    BY <1>1, <1>2, <1>3 DEF Held, HeaderHeld, RootHeld, DescentHeld, SplitHeld, SearchHeld, Splitting
  <2>q. QED
    BY <2>1
<1>4. CASE root_offset \in Slots
  <2>1. /\ root_offset \in T /\ \A t \in T : h[t] <= h[root_offset]
    BY <1>2, <1>4 DEF Held, RootHeld
  <2>2. /\ nodes \in Seq(Node) /\ key \in Int /\ Forest(T, h, iv, nodes)
    BY DEF TypeOK, Held
  <2>3. h \in [T -> Nat] /\ iv \in [T -> SUBSET Int] /\ NoOffset \notin T /\ T \subseteq 1..Len(nodes)
    BY <2>2, ForestSlots DEF Slots
  <2>4. PICK iu : iu \in [T -> SUBSET Int] /\
          iu[root_offset] = Int /\ \A s \in T : s # root_offset => iu[s] = iv[s]
    <3>1. [s \in T |-> IF s = root_offset THEN Int ELSE iv[s]] \in [T -> SUBSET Int]
      BY <2>3
    <3>q. QED
      BY <2>1, <3>1
  <2>5. ASSUME NEW s \in T, NEW c \in KidsOf(nodes[s])
        PROVE  c \in T /\ iu[c] \subseteq iv[c]
    <3>1. c \in T /\ h[s] # 0 /\ h[c] = h[s] - 1
      BY <2>2, ForestKids
    <3>2. c # root_offset
      BY <2>1, <2>3, <3>1
    <3>q. QED
      BY <2>4, <3>1, <3>2
  <2>6. \A s \in T : iv[s] \subseteq iu[s]
    BY <2>3, <2>4
  <2>7. \A s, t \in T : s # t => KidsOf(nodes[s]) \cap KidsOf(nodes[t]) = {}
    BY <2>2 DEF Forest
  <2>8. Forest(T, h, iu, nodes)
    <3>1. ASSUME NEW s \in T PROVE Fits(T, h, iu, nodes[s], h[s], iu[s]) /\ Once(nodes[s])
      BY <2>2, <2>3, <2>5, <2>6, StaysFit
    <3>q. QED
      BY <2>3, <2>4, <2>7, <3>1 DEF Forest
  <2>9. SearchHeld(T, F)'
    BY <1>1, <1>2, <1>4 DEF Held, SearchHeld, Passed
  <2>10. DescentHeld(T, iu)'
    BY <1>1, <1>2, <2>1, <2>2, <2>4 DEF DescentHeld
  <2>11. Held(T, h, iu, F)'
    BY <1>1, <1>2, <2>8, <2>9, <2>10 DEF Held, HeaderHeld, RootHeld, SplitHeld, Splitting
  <2>q. QED
    BY <2>11
<1>q. QED
  BY <1>3, <1>4

LEMMA DescendNoKeysHeld ==
  ASSUME TypeOK, OffsetsSound, NEW T, NEW h, NEW iv, NEW F, Held(T, h, iv, F), DescendNoKeys
  PROVE  \E S, g, iu, G : Held(S, g, iu, G)'
<1>1. /\ pc = "descend" /\ pc' = "leaf" /\ CountAt(cur) = 0 /\ nodes' = nodes
      /\ root_offset' = root_offset /\ exists' = exists /\ header' = header
  BY Zenon DEF DescendNoKeys, disk, globals
<1>2. root_offset \notin Slots
  <2>1. SUFFICES ASSUME root_offset \in Slots PROVE FALSE
    OBVIOUS
  <2>2. cur \in Slots /\ cur # Header
    BY <1>1, <2>1, SlotsType DEF OffsetsSound, SearchSound, TypeOK
  <2>q. QED
    BY <1>1, <2>2 DEF CountAt, OffsetsSound, NodesSound
<1>3. Slots' = Slots /\ Alive /\ Alive'
  BY <1>1 DEF Slots, Alive
<1>4. Held(T, h, iv, F)'
  BY <1>1, <1>2, <1>3 DEF Held, HeaderHeld, RootHeld, DescentHeld, SplitHeld, SearchHeld, Splitting
<1>q. QED
  BY <1>4

\* The descent takes the way of the search, and the key goes with it.
LEMMA DescendHeld ==
  ASSUME TypeOK, OffsetsSound, NEW T, NEW h, NEW iv, NEW F, Held(T, h, iv, F), Descend
  PROVE  \E S, g, iu, G : Held(S, g, iu, G)'
<1> DEFINE x   == IF NodeNo(cur) = NodeNo(root_offset) THEN RootMark ELSE prev
           nd  == nodes[cur]
           p   == Position(nd, key)
           kid == nd.kids[p]
<1>1. /\ nodes' = nodes /\ root_offset' = root_offset /\ exists' = exists /\ header' = header /\ key' = key
      /\ pc = "descend" /\ CountAt(cur) # 0 /\ stack' = <<x>> \o stack
      /\ \/ kid = NoOffset /\ leaf_offset' = cur /\ pc' = "leaf" /\ cur' = cur /\ prev' = prev
         \/ kid # NoOffset /\ prev' = cur /\ cur' = kid /\ leaf_offset' = leaf_offset /\ pc' = pc
  BY Zenon DEF Descend, push, disk, command
<1>2. root_offset \in Slots /\ Alive /\ Alive' /\ Slots' = Slots
  BY <1>1 DEF OffsetsSound, SearchSound, CountAt, Alive, Slots
<1>3. /\ nodes \in Seq(Node) /\ key \in Int /\ stack \in Seq(Int) /\ Forest(T, h, iv, nodes)
  BY DEF TypeOK, Held
<1>4. /\ cur \in T /\ prev \in T /\ key \in iv[cur] /\ F \subseteq T /\ root_offset \in F
      /\ cur \in F /\ \A s \in F : Passed(s, F \cup {NoOffset})
      /\ \A i \in 1..Len(stack) : stack[i] \in T \cup {RootMark}
  BY <1>1, <1>2 DEF Held, DescentHeld, SearchHeld
<1>5. /\ h \in [T -> Nat] /\ iv \in [T -> SUBSET Int] /\ NoOffset \notin T /\ T \subseteq 1..Len(nodes)
      /\ T \subseteq Int /\ nd \in Node /\ nd.n \in Nat
  <2>1. Slots \subseteq Int
    BY <1>3, SlotsType
  <2>q. QED
    BY <1>3, <1>4, <2>1, ForestSlots DEF Slots
<1>6. key \notin KeysOf(nd) /\ kid \in F \cup {NoOffset}
  BY <1>4 DEF Passed
<1>7. p \in 1..(nd.n + 1) /\ key \in Between(nd, p)
  BY <1>3, <1>5, <1>6, PositionBetween
<1>8. \A i \in 1..Len(stack') : stack'[i] \in T \cup {RootMark}
  <2>1. x \in T \cup {RootMark} /\ x \in Int
    BY <1>4, <1>5 DEF RootMark
  <2> HIDE DEF x
  <2>2. Len(stack') = Len(stack) + 1 /\ stack'[1] = x /\ \A i \in 1..Len(stack) : stack'[i + 1] = stack[i]
    BY <1>1, <1>3, <2>1
  <2>3. ASSUME NEW i \in 1..Len(stack'), i # 1 PROVE stack'[i] \in T \cup {RootMark}
    <3>1. i - 1 \in 1..Len(stack) /\ (i - 1) + 1 = i
      BY <1>3, <2>2, <2>3
    <3>q. QED
      BY <1>4, <2>2, <3>1
  <2>q. QED
    BY <2>1, <2>2, <2>3
<1>9. CASE kid = NoOffset /\ leaf_offset' = cur /\ pc' = "leaf"
  <2>1. DescentHeld(T, iv)'
    BY <1>1, <1>4, <1>6, <1>8, <1>9 DEF DescentHeld
  <2>2. Held(T, h, iv, F)'
    BY <1>1, <1>2, <1>9, <2>1 DEF Held, HeaderHeld, RootHeld, SplitHeld, SearchHeld, Splitting
  <2>q. QED
    BY <2>2
<1>10. CASE kid # NoOffset /\ prev' = cur /\ cur' = kid /\ pc' = pc
  <2>1. Fits(T, h, iv, nd, h[cur], iv[cur]) /\ Once(nd)
    BY <1>3, <1>4 DEF Forest
  <2>2. h[cur] # 0 /\ kid \in T /\ h[kid] = h[cur] - 1 /\ kid \in KidsOf(nd)
    BY <1>7, <1>10, <2>1 DEF Fits, KidsOf
  <2>3. kid # cur
    BY <1>4, <1>5, <2>2
  <2>4. PICK iu : iu \in [T -> SUBSET Int] /\
          iu[kid] = iv[kid] \cup {key} /\ \A s \in T : s # kid => iu[s] = iv[s]
    <3> HIDE DEF kid
    <3> DEFINE f == [s \in T |-> IF s = kid THEN iv[s] \cup {key} ELSE iv[s]]
    <3>1. f \in [T -> SUBSET Int]
      BY <1>3, <1>5
    <3>2. f[kid] = iv[kid] \cup {key} /\ \A s \in T : s # kid => f[s] = iv[s]
      BY <2>2
    <3> HIDE DEF f
    <3>q. QED
      BY <3>1, <3>2
  <2>5. Fits(T, h, iu, nd, h[cur], iv[cur])
    <3>1. kid \in T /\ kid # NoOffset /\ key \in Between(nd, p) /\ key \in iv[cur] /\ kid = nd.kids[p]
      BY <1>4, <1>7, <1>10, <2>2
    <3> HIDE DEF nd, p, kid
    <3>q. QED
      BY <1>7, <2>1, <2>4, <3>1, FitsKey
  <2>6. /\ Fits(T, h, iu, nd, h[cur], iu[cur]) /\ key \in iu[kid]
        /\ \A s \in T : iv[s] \subseteq iu[s] /\ (s # kid => iu[s] = iv[s])
    <3> HIDE DEF kid, nd
    <3>q. QED
      BY <1>4, <2>2, <2>3, <2>4, <2>5
  <2>7. ASSUME NEW s \in T, s # cur, NEW c \in KidsOf(nodes[s]) PROVE c \in T /\ iu[c] \subseteq iv[c]
    <3>1. c \in T
      BY <1>3, ForestKids
    <3>2. c # kid
      <4>1. KidsOf(nodes[s]) \cap KidsOf(nodes[cur]) = {}
        BY <1>3, <1>4, <2>7 DEF Forest
      <4>q. QED
        BY <2>2, <4>1
    <3>q. QED
      BY <2>6, <3>1, <3>2
  <2>8. \A s, t \in T : s # t => KidsOf(nodes[s]) \cap KidsOf(nodes[t]) = {}
    BY <1>3 DEF Forest
  <2>9. Forest(T, h, iu, nodes)
    <3>1. ASSUME NEW s \in T PROVE Fits(T, h, iu, nodes[s], h[s], iu[s]) /\ Once(nodes[s])
      <4>1. CASE s = cur
        BY <2>1, <2>6, <4>1
      <4>2. CASE s # cur
        BY <1>3, <1>5, <2>6, <2>7, <4>2, StaysFit
      <4>q. QED
        BY <4>1, <4>2
    <3>q. QED
      BY <1>5, <2>4, <2>8, <3>1 DEF Forest
  <2>10. kid \in F
    BY <1>6, <1>10
  <2>11. SearchHeld(T, F)'
    BY <1>1, <1>2, <1>4, <1>10, <2>10 DEF SearchHeld, Passed
  <2>12. DescentHeld(T, iu)'
    BY <1>1, <1>4, <1>8, <1>10, <2>2, <2>6 DEF DescentHeld
  <2>13. Held(T, h, iu, F)'
    BY <1>1, <1>2, <1>10, <2>9, <2>11, <2>12 DEF Held, HeaderHeld, RootHeld, SplitHeld, Splitting
  <2>q. QED
    BY <2>13
<1>q. QED
  BY <1>1, <1>9, <1>10

(* The steps that write a leaf or the halves of a divided node *)

\* The leaf with one key too many fits in its place.
LEMMA LeafTakesKey ==
  ASSUME TypeOK, OffsetsSound, StackPath, NEW T, NEW h, NEW iv, NEW F, Held(T, h, iv, F),
         pc = "leaf", CountAt(leaf_offset) = Order - 1
  PROVE  /\ leaf_offset \in Slots /\ root_offset \in Slots /\ leaf_offset \in T
         /\ nodes[leaf_offset] \in Node /\ KidsOf(nodes[leaf_offset]) = {}
         /\ Fits(T, h, iv, WithKey(nodes[leaf_offset], key), h[leaf_offset], iv[leaf_offset])
         /\ KidsOf(WithKey(nodes[leaf_offset], key)) = {} /\ Once(WithKey(nodes[leaf_offset], key))
<1>1. leaf_offset \in Slots /\ root_offset \in Slots
  BY OrderAssumption DEF CountAt, OffsetsSound, RootSound
<1>2. nodes \in Seq(Node) /\ nodes[leaf_offset] \in Node /\ nodes[leaf_offset].n = Order - 1 /\ key \in Int
  <2>1. leaf_offset # Header
    BY OrderAssumption DEF CountAt
  <2>q. QED
    BY <1>1, <2>1, SlotsType DEF TypeOK, CountAt
<1>3. NoKids(nodes[leaf_offset])
  BY <1>1 DEF StackPath
<1>4. /\ Forest(T, h, iv, nodes) /\ leaf_offset \in T /\ key \in iv[leaf_offset]
      /\ key \notin KeysOf(nodes[leaf_offset])
  BY <1>1 DEF Held, DescentHeld
<1>5. NoOffset \notin T
  BY <1>2, <1>4, ForestSlots
<1>6. h[leaf_offset] = 0 /\ Fits(T, h, iv, nodes[leaf_offset], 0, iv[leaf_offset])
  <2>1. Fits(T, h, iv, nodes[leaf_offset], h[leaf_offset], iv[leaf_offset])
    BY <1>4 DEF Forest
  <2>2. 1 \in 1..(nodes[leaf_offset].n + 1)
    BY <1>2, OrderAssumption
  <2>3. h[leaf_offset] = 0
    BY <1>3, <1>5, <2>1, <2>2 DEF Fits, NoKids
  <2>q. QED
    BY <2>1, <2>3
<1>7. KidsOf(nodes[leaf_offset]) = {}
  BY <1>3 DEF NoKids, KidsOf
<1>q. QED
  BY <1>1, <1>2, <1>4, <1>6, <1>7, LeafFits

\* The leaf with room takes the key.
LEMMA AddKeyHeld ==
  ASSUME TypeOK, OffsetsSound, StackPath, NEW T, NEW h, NEW iv, NEW F, Held(T, h, iv, F), add_key_to_tree
  PROVE  \E S, g, iu, G : Held(S, g, iu, G)'
<1>1. /\ pc = "leaf" /\ pc' = "split" /\ CountAt(leaf_offset) = Order - 1
      /\ aux' = WithKey(nodes[leaf_offset], key) /\ node_offset' = leaf_offset /\ exists' = exists
      /\ nodes' = nodes /\ root_offset' = root_offset /\ stack' = stack /\ header' = header
  BY Zenon DEF add_key_to_tree, disk, globals
<1>2. /\ leaf_offset \in Slots /\ root_offset \in Slots /\ leaf_offset \in T
      /\ Fits(T, h, iv, aux', h[leaf_offset], iv[leaf_offset])
      /\ KidsOf(aux') = {} /\ Once(aux')
  BY <1>1, LeafTakesKey
<1>3. Slots' = Slots /\ Alive /\ Alive'
  BY <1>1 DEF Slots, Alive
<1>4. Forest(T, h, iv, nodes) /\ \A i \in 1..Len(stack) : stack[i] \in T \cup {RootMark}
  BY <1>1, <1>2 DEF Held, DescentHeld
<1>5. SplitHeld(T, h, iv)'
  BY <1>1, <1>2 DEF SplitHeld, Divided
<1>6. Held(T, h, iv, F)'
  BY <1>1, <1>2, <1>3, <1>4, <1>5 DEF Held, HeaderHeld, RootHeld, DescentHeld, SearchHeld
<1>q. QED
  BY <1>6

\* The node is narrower, and holds nothing new.
LEMMA SplitLeftHeld ==
  ASSUME NEW r, TypeOK, OffsetsSound, Graded(r), NEW T, NEW h, NEW iv, NEW F, Held(T, h, iv, F), SplitLeft
  PROVE  \E S, g, iu, G : Held(S, g, iu, G)'
<1> DEFINE L == LeftOf(aux)
<1>1. /\ pc = "split" /\ pc' = "right" /\ pop /\ nodes' = [nodes EXCEPT ![LeftOffset] = L]
      /\ aux' = aux /\ node_offset' = node_offset /\ root_offset' = root_offset
      /\ exists' = exists /\ header' = header
  BY Zenon DEF SplitLeft, write_node_at_offset
<1>2. /\ LeftOffset = node_offset /\ node_offset \in Slots /\ root_offset \in Slots
      /\ stack \in Seq(Int) /\ nodes \in Seq(Node) /\ stack # <<>>
      /\ aux \in AuxNode /\ aux.n = Order
  BY <1>1, LeftIsNode DEF OffsetsSound, SplitSound, StackSound, EndsInRoot, TypeOK
<1>3. /\ Slots' = Slots /\ Alive /\ Alive' /\ Len(nodes') = Len(nodes)
      /\ \A s \in Slots : nodes'[s] = IF s = node_offset THEN L ELSE nodes[s]
  BY <1>1, <1>2 DEF Slots, Alive
<1>4. /\ Forest(T, h, iv, nodes) /\ node_offset \in T /\ Divided(T, h, iv)
      /\ \A i \in 1..Len(stack) : stack[i] \in T \cup {RootMark}
  BY <1>1, <1>2 DEF Held, SplitHeld, DescentHeld, Splitting
<1>5. T \subseteq Slots /\ NoOffset \notin T /\ h \in [T -> Nat] /\ iv \in [T -> SUBSET Int]
  BY <1>2, <1>4, ForestSlots
<1>6. Fits(T, h, iv, L, h[node_offset], iv[node_offset]) /\ Once(L) /\ KidsOf(L) \subseteq KidsOf(aux)
  <2> DEFINE W == iv[node_offset]
             V == {x \in W : x < SplitValue(aux)}
  <2>1. Fits(T, h, iv, L, h[node_offset], V) /\ Once(L) /\ KidsOf(L) \subseteq KidsOf(aux)
    BY <1>2, <1>4, HalvesFit DEF Divided
  <2>2. V \subseteq W
    OBVIOUS
  <2> HIDE DEF V, W, L
  <2>3. Fits(T, h, iv, L, h[node_offset], W)
    BY <1>5, <2>1, <2>2, FitsMoved
  <2>q. QED
    BY <2>1, <2>3 DEF W
<1> HIDE DEF L
<1>7. Forest(T, h, iv, nodes')
  <2>1. ASSUME NEW s \in T PROVE Fits(T, h, iv, nodes'[s], h[s], iv[s]) /\ Once(nodes'[s])
    BY <1>3, <1>4, <1>5, <1>6 DEF Forest
  <2>2. ASSUME NEW s \in T, NEW t \in T, s # t PROVE KidsOf(nodes'[s]) \cap KidsOf(nodes'[t]) = {}
    <3>1. \A u \in T \ {node_offset} : KidsOf(L) \cap KidsOf(nodes[u]) = {}
      BY <1>4, <1>6 DEF Divided
    <3>2. KidsOf(nodes[s]) \cap KidsOf(nodes[t]) = {}
      BY <1>4, <2>2 DEF Forest
    <3>3. /\ nodes'[s] = IF s = node_offset THEN L ELSE nodes[s]
          /\ nodes'[t] = IF t = node_offset THEN L ELSE nodes[t]
      BY <1>3, <1>5
    <3>4. CASE s = node_offset
      <4>1. nodes'[s] = L /\ nodes'[t] = nodes[t] /\ t \in T \ {node_offset}
        BY <2>2, <3>3, <3>4
      <4>q. QED
        BY <3>1, <4>1
    <3>5. CASE t = node_offset
      <4>1. nodes'[t] = L /\ nodes'[s] = nodes[s] /\ s \in T \ {node_offset}
        BY <2>2, <3>3, <3>5
      <4>q. QED
        BY <3>1, <4>1
    <3>6. CASE s # node_offset /\ t # node_offset
      BY <3>2, <3>3, <3>6
    <3>q. QED
      BY <3>4, <3>5, <3>6
  <2>3. T \subseteq 1..Len(nodes')
    BY <1>3, <1>5 DEF Slots
  <2>q. QED
    BY <1>5, <2>1, <2>2, <2>3 DEF Forest
<1>8. /\ next_parent' \in T \cup {RootMark}
      /\ \A i \in 1..Len(stack') : stack'[i] \in T \cup {RootMark}
  <2>1. next_parent' = Head(stack) /\ stack' = Tail(stack)
    BY <1>1, <1>2 DEF pop
  <2>2. Len(stack) \in Nat /\ Len(stack) >= 1
    BY <1>2, EmptySeq
  <2>3. /\ Head(stack) = stack[1] /\ Len(Tail(stack)) = Len(stack) - 1
        /\ \A i \in 1..(Len(stack) - 1) : Tail(stack)[i] = stack[i + 1]
    BY <1>2
  <2>4. 1 \in 1..Len(stack)
    BY <2>2
  <2>5. ASSUME NEW i \in 1..Len(stack') PROVE stack'[i] \in T \cup {RootMark}
    <3>1. i \in 1..(Len(stack) - 1) /\ i + 1 \in 1..Len(stack)
      BY <2>1, <2>2, <2>3
    <3>2. stack'[i] = stack[i + 1]
      BY <2>1, <2>3, <3>1
    <3>q. QED
      BY <1>4, <3>1, <3>2
  <2>q. QED
    BY <1>4, <2>1, <2>3, <2>4, <2>5
<1>9. SplitHeld(T, h, iv)'
  <2>1. Divided(T, h, iv)'
    <3>1. \A t \in T \ {node_offset} : nodes'[t] = nodes[t]
      BY <1>3, <1>5
    <3>q. QED
      BY <1>1, <1>4, <3>1 DEF Divided
  <2>2. nodes'[node_offset] = LeftOf(aux)
    BY <1>2, <1>3 DEF L
  <2>q. QED
    BY <1>1, <1>4, <1>8, <2>1, <2>2 DEF SplitHeld
<1>10. Held(T, h, iv, F)'
  BY <1>1, <1>2, <1>3, <1>7, <1>8, <1>9 DEF Held, HeaderHeld, RootHeld, DescentHeld, SearchHeld
<1>q. QED
  BY <1>10

\* The children of the divided node are one lower than it.
LEMMA AuxKids ==
  ASSUME NEW T, NEW h, NEW iv, Divided(T, h, iv), NEW c \in KidsOf(aux)
  PROVE  c \in T /\ h[c] = h[node_offset] - 1
<1>1. PICK i \in 1..(aux.n + 1) : c = aux.kids[i] /\ c # NoOffset
  BY DEF KidsOf
<1>2. h[node_offset] # 0
  BY <1>1 DEF Divided, Fits
<1>q. QED
  BY <1>1, <1>2 DEF Divided, Fits

\* The right half joins the forest at the height of the left; the keys the node was given are parted
\* at the value that moves up.
LEMMA SplitRightHeld ==
  ASSUME NEW r, TypeOK, OffsetsSound, Graded(r), StackPath, NEW T, NEW h, NEW iv, NEW F, Held(T, h, iv, F), SplitRight
  PROVE  \E S, g, iu, G : Held(S, g, iu, G)'
<1> DEFINE L == LeftOf(aux)
           R == RightOf(aux)
           v == SplitValue(aux)
           new == Len(nodes) + 1
           W == iv[node_offset]
<1>1. /\ pc = "right" /\ right_offset' = new /\ write_node(R)
      /\ pc' = (IF next_parent # RootMark THEN "link" ELSE "newroot")
      /\ aux' = aux /\ node_offset' = node_offset /\ next_parent' = next_parent
      /\ root_offset' = root_offset /\ stack' = stack
  BY Zenon DEF SplitRight, globals
<1>2. /\ node_offset \in Slots /\ root_offset \in Slots /\ root_offset # NoOffset
      /\ stack \in Seq(Int) /\ nodes \in Seq(Node) /\ aux \in AuxNode /\ aux.n = Order
      /\ next_parent \in Slots \cup {RootMark} /\ Slots \subseteq Nat \ {0} /\ Len(nodes) \in Nat
  BY <1>1, Domains DEF OffsetsSound, StackSound, SplitSound, TypeOK, Graded, SplitGraded
<1>3. nodes' = Append(nodes, R) /\ exists' = exists /\ header' = header
  BY <1>1, <1>2 DEF write_node
<1>4. /\ Slots' = Slots \cup {new} /\ new \notin Slots /\ Len(nodes') = new /\ nodes'[new] = R
      /\ \A s \in Slots : nodes'[s] = nodes[s]
  <2> HIDE DEF R
  <2>1. nodes' = Append(nodes, R) /\ Len(nodes) \in Nat /\ nodes \in Seq(Node)
    BY <1>2, <1>3
  <2>2. Len(nodes') = new /\ nodes'[new] = R /\ \A s \in 1..Len(nodes) : nodes'[s] = nodes[s]
    BY <2>1
  <2>3. new = Len(nodes) + 1
    OBVIOUS
  <2> HIDE DEF new
  <2>q. QED
    BY <2>1, <2>2, <2>3 DEF Slots
<1>5. /\ Forest(T, h, iv, nodes) /\ node_offset \in T /\ Divided(T, h, iv) /\ nodes[node_offset] = L
      /\ next_parent \in T \cup {RootMark}
      /\ \A i \in 1..Len(stack) : stack[i] \in T \cup {RootMark}
      /\ root_offset \in T /\ \A t \in T : h[t] <= h[root_offset]
  BY <1>1, <1>2 DEF Held, SplitHeld, DescentHeld, RootHeld, Splitting, Alive
<1>6. T \subseteq Slots /\ NoOffset \notin T /\ RootMark \notin T /\ h \in [T -> Nat] /\ iv \in [T -> SUBSET Int]
  BY <1>2, <1>5, ForestSlots
<1>7. /\ v \in W /\ v \in Int
      /\ Fits(T, h, iv, L, h[node_offset], {x \in W : x < v}) /\ Once(L)
      /\ Fits(T, h, iv, R, h[node_offset], {x \in W : v < x}) /\ Once(R)
      /\ KidsOf(L) \subseteq KidsOf(aux) /\ KidsOf(R) \subseteq KidsOf(aux)
      /\ KidsOf(L) \cap KidsOf(R) = {}
  <2>1. Fits(T, h, iv, aux, h[node_offset], W) /\ Once(aux)
    BY <1>5 DEF Divided
  <2> HIDE DEF W
  <2>2. h[node_offset] \in Nat
    BY <1>5, <1>6
  <2>q. QED
    BY <1>2, <2>1, <2>2, HalvesFit
<1> HIDE DEF L, R, v, new
<1>8. PICK S, g, iu :
        /\ S = T \cup {new} /\ g \in [S -> Nat] /\ iu \in [S -> SUBSET Int]
        /\ g[new] = h[node_offset] /\ iu[new] = {x \in W : v < x}
        /\ iu[node_offset] = {x \in W : x < v}
        /\ \A s \in T : g[s] = h[s] /\ iu[s] \subseteq iv[s] /\ (s # node_offset => iu[s] = iv[s])
  <2> HIDE DEF W
  <2> DEFINE S == T \cup {new}
             g == [s \in S |-> IF s = new THEN h[node_offset] ELSE h[s]]
             iu == [s \in S |-> IF s = new THEN {x \in W : v < x}
                                ELSE IF s = node_offset THEN {x \in W : x < v} ELSE iv[s]]
  <2>1. g \in [S -> Nat]
    BY <1>5, <1>6
  <2>2. new \notin T /\ W \subseteq Int /\ W = iv[node_offset]
    BY <1>4, <1>5, <1>6 DEF W
  <2>3. iu \in [S -> SUBSET Int]
    BY <1>6, <2>2
  <2>4. g[new] = h[node_offset] /\ iu[new] = {x \in W : v < x} /\ iu[node_offset] = {x \in W : x < v}
    BY <1>5, <2>2
  <2>5. \A s \in T : g[s] = h[s] /\ iu[s] \subseteq iv[s] /\ (s # node_offset => iu[s] = iv[s])
    BY <2>2
  <2>6. S = T \cup {new}
    OBVIOUS
  <2> HIDE DEF S, g, iu
  <2>q. QED
    BY <2>1, <2>3, <2>4, <2>5, <2>6
<1>9. new \notin T /\ new \in S /\ T \subseteq S /\ node_offset # new
  BY <1>4, <1>5, <1>6, <1>8
<1>10. \A t \in T : KidsOf(nodes[t]) \subseteq T
  BY <1>5, ForestKids
<1>11. KidsOf(aux) \subseteq T /\ \A c \in KidsOf(aux) : c # node_offset
  <2>1. h[node_offset] \in Nat
    BY <1>5, <1>6
  <2>2. ASSUME NEW c \in KidsOf(aux) PROVE c \in T /\ c # node_offset
    <3>1. c \in T /\ h[c] = h[node_offset] - 1
      BY <1>5, AuxKids
    <3>q. QED
      BY <2>1, <3>1
  <2>q. QED
    BY <2>2
<1>12. ASSUME NEW s \in S PROVE Fits(S, g, iu, nodes'[s], g[s], iu[s]) /\ Once(nodes'[s])
  <2>1. CASE s = new
    <3>1. \A c \in KidsOf(R) \cap T : c \in S /\ g[c] = h[c] /\ iu[c] \subseteq iv[c]
      BY <1>8, <1>9
    <3>2. Fits(S, g, iu, R, h[node_offset], {x \in W : v < x})
      <4> DEFINE V == {x \in W : v < x}
      <4>1. Fits(T, h, iv, R, h[node_offset], V)
        BY <1>7
      <4> HIDE DEF V
      <4>2. Fits(S, g, iu, R, h[node_offset], V)
        BY <1>6, <3>1, <4>1, FitsMoved
      <4>q. QED
        BY <4>2 DEF V
    <3>q. QED
      BY <1>4, <1>7, <1>8, <2>1, <3>2
  <2>2. CASE s = node_offset
    <3>1. \A c \in KidsOf(L) \cap T : c \in S /\ g[c] = h[c] /\ iu[c] \subseteq iv[c]
      BY <1>8, <1>9
    <3>2. Fits(S, g, iu, L, h[node_offset], {x \in W : x < v})
      <4> DEFINE V == {x \in W : x < v}
      <4>1. Fits(T, h, iv, L, h[node_offset], V)
        BY <1>7
      <4> HIDE DEF V
      <4>2. Fits(S, g, iu, L, h[node_offset], V)
        BY <1>6, <3>1, <4>1, FitsMoved
      <4>q. QED
        BY <4>2 DEF V
    <3>3. nodes'[s] = L /\ g[s] = h[node_offset] /\ iu[s] = {x \in W : x < v}
      BY <1>2, <1>4, <1>5, <1>8, <2>2
    <3>q. QED
      BY <1>7, <3>2, <3>3
  <2>3. CASE s # new /\ s # node_offset
    <3>1. s \in T /\ nodes'[s] = nodes[s] /\ g[s] = h[s] /\ iu[s] = iv[s]
      BY <1>4, <1>6, <1>8, <2>3
    <3>2. \A c \in KidsOf(nodes[s]) \cap T : c \in S /\ g[c] = h[c] /\ iu[c] \subseteq iv[c]
      BY <1>8, <1>9
    <3>3. Fits(S, g, iu, nodes[s], h[s], iv[s]) /\ Once(nodes[s])
      BY <1>5, <1>6, <3>1, <3>2, StaysFit
    <3>q. QED
      BY <3>1, <3>3
  <2>q. QED
    BY <2>1, <2>2, <2>3
<1>13. ASSUME NEW t \in T PROVE nodes'[t] = nodes[t] /\ KidsOf(R) \cap KidsOf(nodes[t]) = {}
  <2>1. nodes'[t] = nodes[t]
    BY <1>4, <1>6
  <2>2. CASE t = node_offset
    BY <1>5, <1>7, <2>1, <2>2
  <2>3. CASE t # node_offset
    BY <1>5, <1>7, <2>1, <2>3 DEF Divided
  <2>q. QED
    BY <2>2, <2>3, <2>1
<1>14. ASSUME NEW s \in S, NEW t \in S, s # t PROVE KidsOf(nodes'[s]) \cap KidsOf(nodes'[t]) = {}
  <2>1. CASE s \in T /\ t \in T
    <3>1. KidsOf(nodes[s]) \cap KidsOf(nodes[t]) = {}
      BY <1>5, <1>14, <2>1 DEF Forest
    <3>q. QED
      BY <1>13, <2>1, <3>1
  <2>2. CASE s = new
    <3>1. t \in T /\ nodes'[s] = R
      BY <1>4, <1>8, <1>14, <2>2
    <3>q. QED
      BY <1>13, <3>1
  <2>3. CASE t = new
    <3>1. s \in T /\ nodes'[t] = R
      BY <1>4, <1>8, <1>14, <2>3
    <3>q. QED
      BY <1>13, <3>1
  <2>q. QED
    BY <1>8, <2>1, <2>2, <2>3
<1>15. S \subseteq 1..Len(nodes')
  BY <1>4, <1>6, <1>8 DEF Slots
<1>16. Forest(S, g, iu, nodes')
  BY <1>8, <1>12, <1>14, <1>15 DEF Forest
<1>17. Halved(S, g, iu)'
  <2>1. \A t \in S : new \notin KidsOf(nodes'[t])
    <3>1. \A t \in T : new \notin KidsOf(nodes'[t])
      BY <1>9, <1>10, <1>13
    <3>2. new \notin KidsOf(R)
      BY <1>7, <1>9, <1>11
    <3>q. QED
      BY <1>4, <1>8, <3>1, <3>2
  <2>2. right_offset' = new /\ node_offset' = node_offset /\ aux' = aux /\ g[new] = g[node_offset]
    BY <1>1, <1>5, <1>8
  <2>3. SplitValue(aux) = v /\ v \in Int
    BY <1>7 DEF v
  <2>4. (\A x \in iu[node_offset] : x < v) /\ (\A x \in iu[new] : v < x)
    BY <1>8
  <2>q. QED
    BY <1>9, <2>1, <2>2, <2>3, <2>4 DEF Halved
<1>18. ASSUME pc' = "link"
       PROVE  \E i \in 1..(nodes'[next_parent].n + 1) :
                /\ nodes'[next_parent].kids[i] = node_offset
                /\ {v} \cup iu[new] \subseteq Between(nodes'[next_parent], i) \cap iu[next_parent]
  <2>1. next_parent # RootMark /\ next_parent \in T
    BY <1>1, <1>5, <1>18
  <2>2. node_offset \in KidsOf(nodes[next_parent])
    <3>1. Path(nodes, root_offset, <<next_parent>> \o stack, node_offset)
      BY <1>1, <1>2 DEF StackPath
    <3>q. QED
      BY <1>2, <2>1, <3>1, RestPath
  <2>3. /\ h[node_offset] = h[next_parent] - 1
        /\ \E i \in 1..(nodes[next_parent].n + 1) :
             node_offset = nodes[next_parent].kids[i] /\ W \subseteq Between(nodes[next_parent], i) \cap iv[next_parent]
    BY <1>5, <2>1, <2>2, ForestKids
  <2>4. next_parent # node_offset
    BY <1>5, <1>6, <2>1, <2>3
  <2>5. nodes'[next_parent] = nodes[next_parent] /\ iu[next_parent] = iv[next_parent]
    BY <1>8, <1>13, <2>1, <2>4
  <2>6. {v} \cup iu[new] \subseteq W
    BY <1>7, <1>8
  <2>q. QED
    BY <2>3, <2>5, <2>6
<1>19. SplitHeld(S, g, iu)'
  <2>1. pc' \in {"link", "newroot"} /\ right_offset' = new /\ SplitValue(aux) = v
    BY <1>1 DEF v
  <2>2. pc' = "link" =>
          \E i \in 1..(nodes'[next_parent'].n + 1) :
            /\ nodes'[next_parent'].kids[i] = node_offset'
            /\ {SplitValue(aux')} \cup iu[right_offset'] \subseteq Between(nodes'[next_parent'], i) \cap iu[next_parent']
    BY <1>1, <1>18, <2>1
  <2>q. QED
    BY <1>1, <1>5, <1>9, <1>17, <2>1, <2>2 DEF SplitHeld
<1>20. HeaderHeld(S)' /\ RootHeld(S, g)'
  <2>1. Alive /\ Alive'
    BY <1>1 DEF Alive
  <2>2. header \in {NoOffset, Header} \cup Slots /\ NoOffset \notin Slots' /\ Header \notin Slots'
    <3>1. header \in {NoOffset, Header} \cup Slots
      BY DEF OffsetsSound, RootSound
    <3>2. NoOffset \notin Slots' /\ Header \notin Slots'
      <4>1. new \in Nat \ {0} /\ Slots \subseteq Nat \ {0} /\ NoOffset \notin Nat \ {0} /\ Header \notin Nat \ {0}
        BY <1>2 DEF new, NoOffset, Header
      <4>q. QED
        BY <1>4, <4>1
    <3>q. QED
      BY <3>1, <3>2
  <2>3. header \in Slots => header \in T
    BY DEF Held, HeaderHeld
  <2>4. exists
    BY <2>1 DEF Held, HeaderHeld
  <2>5. HeaderHeld(S)'
    BY <1>1, <1>2, <1>3, <1>4, <1>9, <2>2, <2>3, <2>4 DEF HeaderHeld
  <2>6. \A t \in S : g[t] <= g[root_offset]
    BY <1>5, <1>8
  <2>7. RootHeld(S, g)'
    BY <1>1, <1>5, <1>9, <2>6 DEF RootHeld
  <2>q. QED
    BY <2>5, <2>7
<1>21. Held(S, g, iu, F)'
  <2>1. pc' \in {"link", "newroot"}
    BY <1>1
  <2>2. DescentHeld(S, iu)' /\ SearchHeld(S, F)'
    BY <1>1, <1>5, <1>9, <2>1 DEF DescentHeld, SearchHeld
  <2>q. QED
    BY <1>16, <1>19, <1>20, <2>2 DEF Held
<1>q. QED
  BY <1>21

(* The steps that link the right half, or put a root on top *)

\* The parent with the split value and the right half fits where the parent was.
LEMMA ParentHeld ==
  ASSUME TypeOK, OffsetsSound, NEW T, NEW h, NEW iv, NEW F, Held(T, h, iv, F), pc = "link"
  PROVE  /\ Fits(T, h, iv, Parent, h[next_parent], iv[next_parent]) /\ Once(Parent)
         /\ KidsOf(Parent) = KidsOf(nodes[next_parent]) \cup {right_offset}
         /\ h[next_parent] # 0 /\ h[right_offset] = h[next_parent] - 1
         /\ next_parent \in T /\ next_parent \in Slots /\ root_offset \in Slots
         /\ \A t \in T \ {next_parent} : KidsOf(Parent) \cap KidsOf(nodes[t]) = {}
         /\ \A i \in 1..Len(stack) : stack[i] \in T \cup {RootMark}
<1> DEFINE nd == nodes[next_parent]
           v == SplitValue(aux)
<1>1. /\ next_parent \in Slots /\ root_offset \in Slots /\ nodes \in Seq(Node)
  BY DEF OffsetsSound, StackSound, SplitSound, TypeOK
<1>2. /\ Forest(T, h, iv, nodes) /\ node_offset \in T /\ next_parent \in T \cup {RootMark}
      /\ Halved(T, h, iv)
      /\ \E i \in 1..(nd.n + 1) : /\ nd.kids[i] = node_offset
                                  /\ {v} \cup iv[right_offset] \subseteq Between(nd, i) \cap iv[next_parent]
      /\ \A i \in 1..Len(stack) : stack[i] \in T \cup {RootMark}
  BY <1>1 DEF Held, SplitHeld, DescentHeld, Splitting
<1>3. /\ T \subseteq Slots /\ NoOffset \notin T /\ RootMark \notin T
      /\ h \in [T -> Nat] /\ iv \in [T -> SUBSET Int] /\ \A s \in T : nodes[s] \in Node
  BY <1>1, <1>2, ForestSlots
<1>4. next_parent \in T
  BY <1>1, <1>2, Domains
<1>5. PICK p \in 1..(nd.n + 1) : /\ nd.kids[p] = node_offset
                                 /\ v \in Between(nd, p) /\ v \in iv[next_parent]
                                 /\ iv[right_offset] \subseteq Between(nd, p) \cap iv[next_parent]
  BY <1>2
<1>6. node_offset \in KidsOf(nd)
  BY <1>2, <1>3, <1>5 DEF KidsOf
<1>7. h[next_parent] # 0 /\ h[node_offset] = h[next_parent] - 1
  BY <1>2, <1>4, <1>6, ForestKids
<1>8. /\ right_offset \in T /\ right_offset # NoOffset /\ h[right_offset] = h[next_parent] - 1
      /\ \A t \in T : right_offset \notin KidsOf(nodes[t])
      /\ (\A x \in iv[right_offset] : v < x) /\ (\A x \in iv[node_offset] : x < v)
  BY <1>2, <1>3, <1>7 DEF Halved
<1>9. Fits(T, h, iv, nd, h[next_parent], iv[next_parent]) /\ Once(nd) /\ nd \in Node
  BY <1>2, <1>3, <1>4 DEF Forest
<1>10. right_offset \notin KidsOf(nd) /\ \A x \in iv[nd.kids[p]] : x < v
  BY <1>4, <1>5, <1>8
<1> HIDE DEF nd, v
<1> DEFINE w == WithSplit(nd, v, right_offset)
           W == iv[next_parent]
           d == h[next_parent]
<1>11. Fits(T, h, iv, w, d, W) /\ Once(w) /\ KidsOf(w) = KidsOf(nd) \cup {right_offset}
  <2>1. /\ Fits(T, h, iv, nd, d, W) /\ d # 0 /\ Once(nd) /\ nd \in Node
        /\ p \in 1..(nd.n + 1) /\ v \in Between(nd, p) /\ v \in W
        /\ right_offset \in T /\ h[right_offset] = d - 1 /\ right_offset # NoOffset
        /\ right_offset \notin KidsOf(nd)
        /\ iv[right_offset] \subseteq Between(nd, p) \cap W
        /\ (\A x \in iv[right_offset] : v < x) /\ (\A x \in iv[nd.kids[p]] : x < v)
        /\ NoOffset \notin T
    BY <1>3, <1>5, <1>7, <1>8, <1>9, <1>10
  <2> HIDE DEF W, d, w
  <2>2. \A right : right = right_offset =>
          LET u == WithSplit(nd, v, right) IN
          Fits(T, h, iv, u, d, W) /\ Once(u) /\ KidsOf(u) = KidsOf(nd) \cup {right}
    BY <2>1, ParentFits
  <2>q. QED
    BY <2>2 DEF w
<1>12. Parent = w
  BY DEF Parent, nd, v
<1>13. ASSUME NEW t \in T \ {next_parent} PROVE KidsOf(w) \cap KidsOf(nodes[t]) = {}
  <2>1. KidsOf(nodes[next_parent]) \cap KidsOf(nodes[t]) = {}
    BY <1>2, <1>4 DEF Forest
  <2>2. right_offset \notin KidsOf(nodes[t])
    BY <1>8
  <2>q. QED
    BY <1>11, <2>1, <2>2 DEF nd
<1> HIDE DEF w
<1>q. QED
  BY <1>1, <1>2, <1>4, <1>7, <1>8, <1>11, <1>12, <1>13 DEF nd

\* A parent with room takes the right half; a full one is the next to be divided.
LEMMA LinkParentHeld ==
  ASSUME TypeOK, OffsetsSound, NEW T, NEW h, NEW iv, NEW F, Held(T, h, iv, F), LinkParent
  PROVE  \E S, g, iu, G : Held(S, g, iu, G)'
<1>1. /\ pc = "link" /\ root_offset' = root_offset /\ stack' = stack /\ exists' = exists /\ header' = header
      /\ \/ /\ Parent.n <= Order - 1 /\ pc' = "cmd"
            /\ nodes' = [nodes EXCEPT ![next_parent] = Narrowed(Parent)]
         \/ aux' = Parent /\ node_offset' = next_parent /\ pc' = "split" /\ nodes' = nodes
  BY Zenon DEF LinkParent, write_node_at_offset, Return, disk, globals
<1>2. /\ Fits(T, h, iv, Parent, h[next_parent], iv[next_parent]) /\ Once(Parent)
      /\ next_parent \in T /\ next_parent \in Slots /\ root_offset \in Slots
      /\ \A t \in T \ {next_parent} : KidsOf(Parent) \cap KidsOf(nodes[t]) = {}
      /\ \A i \in 1..Len(stack) : stack[i] \in T \cup {RootMark}
  BY <1>1, ParentHeld
<1>3. Forest(T, h, iv, nodes) /\ nodes \in Seq(Node) /\ Parent \in AuxNode
  BY <1>1, ParentSound DEF Held, TypeOK
<1>4. T \subseteq Slots /\ h \in [T -> Nat] /\ iv \in [T -> SUBSET Int]
  BY <1>3, ForestSlots
<1>5. Alive /\ Alive'
  BY <1>1 DEF Alive
<1>6. CASE /\ Parent.n <= Order - 1 /\ pc' = "cmd"
           /\ nodes' = [nodes EXCEPT ![next_parent] = Narrowed(Parent)]
  <2> DEFINE N == Narrowed(Parent)
  <2>1. /\ Fits(T, h, iv, N, h[next_parent], iv[next_parent]) /\ Once(N) /\ KidsOf(N) = KidsOf(Parent)
    <3>1. /\ N.n = Parent.n /\ Parent.n \in Nat
          /\ \A i \in 1..Parent.n : N.keys[i] = Parent.keys[i]
          /\ \A i \in 1..(Parent.n + 1) : N.kids[i] = Parent.kids[i]
      <4>1. Parent.n \in Nat /\ Parent.n <= Order - 1 /\ Order \in Nat
        BY <1>3, <1>6, OrderAssumption DEF AuxNode
      <4>2. /\ N.n = Parent.n /\ \A i \in 1..(Order - 1) : N.keys[i] = Parent.keys[i]
            /\ \A i \in 1..Order : N.kids[i] = Parent.kids[i]
        BY DEF Narrowed
      <4> HIDE DEF N
      <4>q. QED
        BY <4>1, <4>2
    <3> HIDE DEF N
    <3>q. QED
      BY <1>2, <3>1, FitsSame
  <2> HIDE DEF N
  <2>2. /\ Slots' = Slots /\ Len(nodes') = Len(nodes)
        /\ \A s \in Slots : nodes'[s] = IF s = next_parent THEN N ELSE nodes[s]
    BY <1>2, <1>3, <1>6 DEF Slots, N
  <2>3. \A s \in T : Fits(T, h, iv, nodes'[s], h[s], iv[s]) /\ Once(nodes'[s])
    BY <1>3, <1>4, <2>1, <2>2 DEF Forest
  <2>4. ASSUME NEW s \in T, NEW t \in T, s # t PROVE KidsOf(nodes'[s]) \cap KidsOf(nodes'[t]) = {}
    <3>1. /\ nodes'[s] = IF s = next_parent THEN N ELSE nodes[s]
          /\ nodes'[t] = IF t = next_parent THEN N ELSE nodes[t]
      BY <1>4, <2>2
    <3>2. CASE s = next_parent
      <4>1. KidsOf(N) \cap KidsOf(nodes[t]) = {}
        BY <1>2, <2>1, <2>4, <3>2
      <4>q. QED
        BY <2>4, <3>1, <3>2, <4>1
    <3>3. CASE t = next_parent
      <4>1. KidsOf(N) \cap KidsOf(nodes[s]) = {}
        BY <1>2, <2>1, <2>4, <3>3
      <4>q. QED
        BY <2>4, <3>1, <3>3, <4>1
    <3>4. CASE s # next_parent /\ t # next_parent
      <4>1. KidsOf(nodes[s]) \cap KidsOf(nodes[t]) = {}
        BY <1>3, <2>4 DEF Forest
      <4>q. QED
        BY <3>1, <3>4, <4>1
    <3>q. QED
      BY <3>2, <3>3, <3>4
  <2>5. T \subseteq 1..Len(nodes')
    BY <1>4, <2>2 DEF Slots
  <2>6. Forest(T, h, iv, nodes')
    BY <1>4, <2>3, <2>4, <2>5 DEF Forest
  <2>7. HeaderHeld(T)' /\ RootHeld(T, h)'
    BY <1>1, <1>2, <1>5, <2>2 DEF Held, HeaderHeld, RootHeld
  <2>8. Held(T, h, iv, {})'
    BY <1>6, <2>6, <2>7 DEF Held, DescentHeld, SplitHeld, SearchHeld, Splitting
  <2>q. QED
    BY <2>8
<1>7. CASE aux' = Parent /\ node_offset' = next_parent /\ pc' = "split" /\ nodes' = nodes
  <2>1. Slots' = Slots
    BY <1>7 DEF Slots
  <2>2. Divided(T, h, iv)'
    BY <1>2, <1>7 DEF Divided
  <2>3. SplitHeld(T, h, iv)'
    BY <1>2, <1>7, <2>2 DEF SplitHeld
  <2>4. DescentHeld(T, iv)' /\ SearchHeld(T, {})'
    BY <1>1, <1>2, <1>7 DEF DescentHeld, SearchHeld
  <2>5. HeaderHeld(T)' /\ RootHeld(T, h)'
    BY <1>1, <1>2, <1>5, <2>1 DEF Held, HeaderHeld, RootHeld
  <2>6. Held(T, h, iv, {})'
    BY <1>3, <1>7, <2>3, <2>4, <2>5 DEF Held
  <2>q. QED
    BY <2>6
<1>q. QED
  BY <1>1, <1>6, <1>7

\* The new root goes on top of the forest.
LEMMA NewRootHeld ==
  ASSUME NEW r, TypeOK, OffsetsSound, Graded(r), NEW T, NEW h, NEW iv, NEW F, Held(T, h, iv, F), NewRoot
  PROVE  \E S, g, iu, G : Held(S, g, iu, G)'
<1> DEFINE new == Len(nodes) + 1
           v == SplitValue(aux)
           N == NewRootOf(v, root_offset, right_offset)
<1>1. /\ pc = "newroot" /\ pc' = "cmd" /\ root_offset' = new /\ nodes' = Append(nodes, N)
      /\ exists' = exists /\ header' = header
  BY Zenon DEF NewRoot, Return
<1>2. /\ root_offset \in Slots /\ nodes \in Seq(Node) /\ Slots \subseteq Nat \ {0} /\ Len(nodes) \in Nat
      /\ node_offset = root_offset
  BY <1>1, Domains DEF OffsetsSound, StackSound, TypeOK, Graded, SplitGraded, Over
<1>3. /\ Forest(T, h, iv, nodes) /\ Halved(T, h, iv) /\ Alive /\ Alive'
      /\ root_offset \in T /\ \A t \in T : h[t] <= h[root_offset]
  BY <1>1, <1>2 DEF Held, SplitHeld, RootHeld, Splitting, Alive
<1>4. T \subseteq Slots /\ NoOffset \notin T /\ h \in [T -> Nat] /\ iv \in [T -> SUBSET Int]
  BY <1>2, <1>3, ForestSlots
<1>5. /\ right_offset \in T /\ right_offset # root_offset /\ h[right_offset] = h[root_offset]
      /\ \A t \in T : right_offset \notin KidsOf(nodes[t])
      /\ v \in Int /\ (\A x \in iv[root_offset] : x < v) /\ (\A x \in iv[right_offset] : v < x)
  BY <1>2, <1>3 DEF Halved
<1>6. \A t \in T : root_offset \notin KidsOf(nodes[t])
  <2> SUFFICES ASSUME NEW t \in T, root_offset \in KidsOf(nodes[t]) PROVE FALSE
    OBVIOUS
  <2>1. h[root_offset] = h[t] - 1 /\ h[t] <= h[root_offset] /\ h[t] \in Nat
    BY <1>3, <1>4, ForestKids
  <2>q. QED
    BY <2>1
<1>7. /\ N.n = 1 /\ N.keys[1] = v /\ N.kids[1] = root_offset /\ N.kids[2] = right_offset
      /\ KidsOf(N) \subseteq {root_offset, right_offset}
  <2>1. N.n = 1 /\ N.keys[1] = v /\ N.kids[1] = root_offset /\ N.kids[2] = right_offset
    BY OrderAssumption DEF NewRootOf
  <2> HIDE DEF N
  <2>2. \A i \in 1..(N.n + 1) : i = 1 \/ i = 2
    BY <2>1
  <2>q. QED
    BY <2>1, <2>2 DEF KidsOf
<1> HIDE DEF N, v
<1>8. /\ Slots' = Slots \cup {new} /\ new \notin Slots /\ new \in Nat \ {0} /\ Len(nodes') = new
      /\ nodes'[new] = N /\ \A s \in Slots : nodes'[s] = nodes[s]
  BY <1>1, <1>2 DEF Slots
<1> HIDE DEF new
<1>9. PICK S, g, iu :
        /\ S = T \cup {new} /\ g \in [S -> Nat] /\ iu \in [S -> SUBSET Int]
        /\ g[new] = h[root_offset] + 1 /\ iu[new] = Int
        /\ \A s \in T : g[s] = h[s] /\ iu[s] = iv[s]
  <2> DEFINE S == T \cup {new}
             g == [s \in S |-> IF s = new THEN h[root_offset] + 1 ELSE h[s]]
             iu == [s \in S |-> IF s = new THEN Int ELSE iv[s]]
  <2>1. new \notin T /\ h[root_offset] \in Nat
    BY <1>3, <1>4, <1>8
  <2>2. g \in [S -> Nat] /\ iu \in [S -> SUBSET Int]
    BY <1>4, <2>1
  <2>3. /\ S = T \cup {new} /\ g[new] = h[root_offset] + 1 /\ iu[new] = Int
        /\ \A s \in T : g[s] = h[s] /\ iu[s] = iv[s]
    BY <2>1
  <2> HIDE DEF S, g, iu
  <2>q. QED
    BY <2>2, <2>3
<1>10. new \notin T /\ new \in S /\ T \subseteq S /\ root_offset \in S /\ right_offset \in S
  BY <1>3, <1>4, <1>5, <1>8, <1>9
<1>11. Fits(S, g, iu, N, g[new], iu[new]) /\ Once(N)
  <2>1. h[root_offset] \in Nat /\ g[new] # 0 /\ g[new] - 1 = h[root_offset]
    BY <1>3, <1>4, <1>9
  <2>2. KeysOf(N) \subseteq Int /\ Ordered(N)
    BY <1>5, <1>7 DEF KeysOf, Ordered
  <2>3. \A i \in 1..(N.n + 1) : i = 1 \/ i = 2
    BY <1>7
  <2>4. /\ iu[root_offset] \subseteq Between(N, 1) /\ iu[right_offset] \subseteq Between(N, 2)
    <3>1. iu[root_offset] = iv[root_offset] /\ iu[right_offset] = iv[right_offset]
      BY <1>3, <1>5, <1>9
    <3>2. iv[root_offset] \subseteq Int /\ iv[right_offset] \subseteq Int
      BY <1>3, <1>4, <1>5
    <3>q. QED
      BY <1>5, <1>7, <3>1, <3>2 DEF Between
  <2>5. ASSUME NEW i \in 1..(N.n + 1)
        PROVE  N.kids[i] \in S /\ g[N.kids[i]] = g[new] - 1 /\ iu[N.kids[i]] \subseteq Between(N, i) \cap iu[new]
    <3>1. Between(N, i) \subseteq iu[new]
      BY <1>9 DEF Between
    <3>2. g[root_offset] = g[new] - 1 /\ g[right_offset] = g[new] - 1
      BY <1>3, <1>5, <1>9, <2>1
    <3>q. QED
      BY <1>7, <1>10, <2>3, <2>4, <3>1, <3>2
  <2>6. Once(N)
    BY <1>5, <1>7, <2>3 DEF Once
  <2>q. QED
    BY <1>9, <2>1, <2>2, <2>5, <2>6 DEF Fits
<1>12. ASSUME NEW s \in S PROVE Fits(S, g, iu, nodes'[s], g[s], iu[s]) /\ Once(nodes'[s])
  <2>1. CASE s = new
    BY <1>8, <1>11, <2>1
  <2>2. CASE s # new
    <3>1. s \in T /\ nodes'[s] = nodes[s] /\ g[s] = h[s] /\ iu[s] = iv[s]
      BY <1>4, <1>8, <1>9, <2>2
    <3>2. \A c \in KidsOf(nodes[s]) \cap T : c \in S /\ g[c] = h[c] /\ iu[c] \subseteq iv[c]
      BY <1>9, <1>10
    <3>3. Fits(S, g, iu, nodes[s], h[s], iv[s]) /\ Once(nodes[s])
      BY <1>3, <1>4, <3>1, <3>2, StaysFit
    <3>q. QED
      BY <3>1, <3>3
  <2>q. QED
    BY <2>1, <2>2
<1>13. \A t \in T : nodes'[t] = nodes[t] /\ KidsOf(N) \cap KidsOf(nodes[t]) = {}
  BY <1>4, <1>5, <1>6, <1>7, <1>8
<1>14. ASSUME NEW s \in S, NEW t \in S, s # t PROVE KidsOf(nodes'[s]) \cap KidsOf(nodes'[t]) = {}
  <2>1. CASE s \in T /\ t \in T
    <3>1. KidsOf(nodes[s]) \cap KidsOf(nodes[t]) = {}
      BY <1>3, <1>14, <2>1 DEF Forest
    <3>q. QED
      BY <1>13, <2>1, <3>1
  <2>2. CASE s = new
    <3>1. t \in T /\ nodes'[s] = N
      BY <1>8, <1>9, <1>14, <2>2
    <3>q. QED
      BY <1>13, <3>1
  <2>3. CASE t = new
    <3>1. s \in T /\ nodes'[t] = N
      BY <1>8, <1>9, <1>14, <2>3
    <3>q. QED
      BY <1>13, <3>1
  <2>q. QED
    BY <1>9, <2>1, <2>2, <2>3
<1>15. S \subseteq 1..Len(nodes')
  BY <1>4, <1>8, <1>9 DEF Slots
<1>16. Forest(S, g, iu, nodes')
  BY <1>9, <1>12, <1>14, <1>15 DEF Forest
<1>17. HeaderHeld(S)'
  <2>1. header \in {NoOffset, Header} \cup Slots
    BY DEF OffsetsSound, RootSound
  <2>2. NoOffset \notin Slots' /\ Header \notin Slots'
    <3>1. NoOffset \notin Nat \ {0} /\ Header \notin Nat \ {0}
      BY DEF NoOffset, Header
    <3>q. QED
      BY <1>2, <1>8, <3>1
  <2>3. header \in Slots => header \in T
    BY DEF Held, HeaderHeld
  <2>4. exists
    BY <1>3 DEF Held, HeaderHeld
  <2>q. QED
    BY <1>1, <1>8, <1>10, <2>1, <2>2, <2>3, <2>4 DEF HeaderHeld
<1>18. RootHeld(S, g)'
  <2>1. ASSUME NEW t \in S PROVE g[t] <= g[new]
    <3>1. t = new \/ t \in T
      BY <1>9
    <3>2. CASE t = new
      BY <1>3, <1>4, <1>9, <3>2
    <3>3. CASE t \in T
      <4>1. g[t] = h[t] /\ h[t] <= h[root_offset] /\ h[t] \in Nat /\ h[root_offset] \in Nat
        BY <1>3, <1>4, <1>9, <3>3
      <4>q. QED
        BY <1>9, <4>1
    <3>q. QED
      BY <3>1, <3>2, <3>3
  <2>q. QED
    BY <1>1, <1>10, <2>1 DEF RootHeld
<1>19. Held(S, g, iu, {})'
  BY <1>1, <1>16, <1>17, <1>18 DEF Held, DescentHeld, SplitHeld, SearchHeld, Splitting
<1>q. QED
  BY <1>19

\* The first root is a forest of its own; whatever else is in the file, the header does not lead there.
LEMMA AddRootHeld ==
  ASSUME TypeOK, OffsetsSound, NEW T, NEW h, NEW iv, NEW F, Held(T, h, iv, F), AddRoot
  PROVE  \E S, g, iu, G : Held(S, g, iu, G)'
<1> DEFINE N == RootOf(key)
<1>1. /\ pc = "answer" /\ pc' = "cmd" /\ root_offset = NoOffset /\ root_offset' = 1
      /\ write_node(N)
  BY Zenon DEF AddRoot, Return
<1>2. /\ nodes' = <<N>> \o SubSeq(nodes, 2, Len(nodes)) /\ exists' = exists /\ header' = header
      /\ nodes \in Seq(Node) /\ key \in Int /\ Len(nodes) \in Nat
  BY <1>1 DEF write_node, TypeOK
<1>3. N.n = 1 /\ N.keys[1] = key /\ \A i \in 1..(N.n + 1) : N.kids[i] = NoOffset
  BY OrderAssumption DEF RootOf, Filler, NoOffset
<1>4. Len(nodes') \in Nat /\ Len(nodes') >= 1 /\ nodes'[1] = N
  <2>1. SubSeq(nodes, 2, Len(nodes)) \in Seq(Node)
    BY <1>2
  <2> HIDE DEF N
  <2> DEFINE rest == SubSeq(nodes, 2, Len(nodes))
  <2>2. nodes' = <<N>> \o rest /\ Len(rest) \in Nat /\ rest \in Seq(Node)
    BY <1>2, <2>1
  <2> HIDE DEF rest
  <2>q. QED
    BY <2>2
<1> HIDE DEF N
<1> DEFINE S == {1}
           g == [s \in S |-> 0]
           iu == [s \in S |-> Int]
<1>5. Forest(S, g, iu, nodes')
  <2>1. KidsOf(N) = {} /\ Once(N) /\ KeysOf(N) \subseteq Int /\ Ordered(N)
    BY <1>2, <1>3 DEF KidsOf, Once, KeysOf, Ordered
  <2>2. Fits(S, g, iu, N, 0, Int)
    BY <1>3, <2>1 DEF Fits
  <2>3. S \subseteq 1..Len(nodes') /\ g \in [S -> Nat] /\ iu \in [S -> SUBSET Int]
        /\ \A s \in S : nodes'[s] = N /\ g[s] = 0 /\ iu[s] = Int
    BY <1>4
  <2>4. \A s, t \in S : s = t
    OBVIOUS
  <2> HIDE DEF S, g, iu
  <2>5. \A s \in S : Fits(S, g, iu, nodes'[s], g[s], iu[s]) /\ Once(nodes'[s])
    BY <2>1, <2>2, <2>3
  <2>q. QED
    BY <2>3, <2>4, <2>5 DEF Forest
<1>6. exists' /\ header' \notin Slots'
  <2>1. Alive /\ NoOffset \notin Slots /\ header \in {NoOffset, Header} \cup Slots
    BY <1>1, <1>2, Domains DEF Alive, OffsetsSound, RootSound
  <2>2. exists /\ header \notin Slots
    BY <1>1, <2>1 DEF Held, HeaderHeld
  <2>3. Slots' \subseteq Nat \ {0} /\ NoOffset \notin Nat \ {0} /\ Header \notin Nat \ {0}
    BY <1>4 DEF Slots, NoOffset, Header
  <2>q. QED
    BY <1>2, <2>1, <2>2, <2>3
<1>7. root_offset' \in S /\ \A t \in S : g[t] <= g[root_offset']
  BY <1>1
<1> HIDE DEF S, g, iu
<1>8. RootHeld(S, g)'
  BY <1>7 DEF RootHeld
<1>9. HeaderHeld(S)'
  BY <1>6 DEF HeaderHeld
<1>10. Held(S, g, iu, {})'
  BY <1>1, <1>5, <1>8, <1>9 DEF Held, DescentHeld, SplitHeld, SearchHeld, Splitting
<1>11. PICK S1, g1, iu1 : Held(S1, g1, iu1, {})'
  BY <1>10
<1>q. QED
  BY <1>11

(* The search tree *)

\* Each step of the program, with the forest it leads to.
LEMMA StepHeld ==
  ASSUME Cuts = {}, TypeOK, OffsetsSound, NEW r, Graded(r), StackPath,
         NEW T, NEW h, NEW iv, NEW F, Held(T, h, iv, F), [Next]_vars
  PROVE  \E S, g, iu, G : Held(S, g, iu, G)'
<1>1. CASE UNCHANGED vars
  <2>1. UNCHANGED <<exists, header, nodes, root_offset, leaf_offset, stack, pc, key, found, cur, prev,
                    aux, node_offset, next_parent, right_offset>>
    BY <1>1, Zenon DEF vars, disk, globals, command, search, split
  <2>2. Held(T, h, iv, F)'
    BY <2>1 DEF Held, HeaderHeld, RootHeld, DescentHeld, SplitHeld, SearchHeld, Divided, Halved, Passed,
                Splitting, Slots, Alive
  <2>q. QED
    BY <2>2
<1>2. CASE Next
  <2>1. CASE Open
    BY <2>1, OpenHeld
  <2>2. CASE OpenFails \/ End \/ Eof \/ Kill
    <3>1. /\ nodes' = nodes /\ exists' = exists /\ (header' = header \/ header' = root_offset)
          /\ pc' \in {"exited", "died", "killed"}
          /\ pc \in {"call", "parents", "cmd"} \/ Alive
      BY <2>2, Zenon DEF OpenFails, End, Eof, Kill, Exit, disk
    <3>2. Alive
      BY <3>1 DEF Alive
    <3>q. QED
      BY <3>1, <3>2, GoneHeld
  <2>3. CASE (\E o \in {"add", "find"}, k \in CommandKeys : Command(o, k)) \/ print_tree \/ Answer
             \/ insert_in_node
    <3>1. UNCHANGED <<disk, root_offset>> /\ pc \in {"cmd", "answer", "leaf"} /\ pc' \in {"cmd", "call"}
      BY <2>3, Zenon DEF Command, print_tree, Answer, insert_in_node, Return, globals
    <3>2. Alive
      BY <3>1 DEF Alive
    <3>q. QED
      BY <3>1, <3>2, CalmHeld
  <2>4. CASE FindEmpty \/ FindOpen \/ FindStep \/ StartAdd
    BY <2>4, FindOpenHeld, FindStepHeld, StartAddHeld
  <2>5. CASE ParentsOpen \/ DescendNoKeys \/ Descend
    BY <2>5, ParentsOpenHeld, DescendNoKeysHeld, DescendHeld
  <2>6. CASE add_key_to_tree \/ SplitLeft
    BY <2>6, AddKeyHeld, SplitLeftHeld
  <2>7. CASE SplitRight \/ LinkParent
    BY <2>7, SplitRightHeld, LinkParentHeld
  <2>8. CASE NewRoot \/ AddRoot
    BY <2>8, NewRootHeld, AddRootHeld
  <2>9. CASE \E c \in Cuts : KillInWrite(c)
    BY <2>9
  <2>q. QED
    BY <1>2, <2>1, <2>2, <2>3, <2>4, <2>5, <2>6, <2>7, <2>8, <2>9, Zenon DEF Next, Serve
<1>q. QED
  BY <1>1, <1>2

\* A file whose header, if it is a slot, is that of a tree.
FileHeld(f) ==
  \E T, h, iv : Forest(T, h, iv, f.nodes) /\ (f.header \in DOMAIN f.nodes => f.header \in T)

\* The files found at the start are such forests.
LEMMA InitHeld ==
  ASSUME Init, TypeOK, \A f \in IndexFiles : FileHeld(f)
  PROVE  \E T, h, iv, F : Held(T, h, iv, F)
<1>1. /\ pc = "exited" /\ root_offset = 0
      /\ \/ exists = FALSE /\ header = 0 /\ nodes = <<>>
         \/ \E f \in IndexFiles : exists = TRUE /\ header = f.header /\ nodes = f.nodes
  BY Zenon DEF Init
<1>2. ~Alive /\ DOMAIN nodes = Slots
  BY <1>1, Domains DEF Alive, TypeOK
<1>3. \E T, h, iv : Forest(T, h, iv, nodes) /\ HeaderHeld(T)
  <2>1. CASE exists = FALSE /\ header = 0 /\ nodes = <<>>
    <3>1. Slots = {}
      BY <2>1 DEF Slots
    <3>2. Forest({}, [s \in {} |-> 0], [s \in {} |-> {}], nodes) /\ HeaderHeld({})
      BY <1>2, <2>1, <3>1 DEF Forest, HeaderHeld, Header
    <3>q. QED
      BY <3>2
  <2>2. CASE \E f \in IndexFiles : exists = TRUE /\ header = f.header /\ nodes = f.nodes
    <3>1. PICK f \in IndexFiles : exists = TRUE /\ header = f.header /\ nodes = f.nodes
      BY <2>2
    <3>2. \E T, h, iv : Forest(T, h, iv, f.nodes) /\ (f.header \in DOMAIN f.nodes => f.header \in T)
      BY DEF FileHeld
    <3>q. QED
      BY <1>2, <3>1, <3>2 DEF HeaderHeld
  <2>q. QED
    BY <1>1, <2>1, <2>2
<1>4. PICK T, h, iv : Forest(T, h, iv, nodes) /\ HeaderHeld(T)
  BY <1>3
<1>5. Held(T, h, iv, {})
  BY <1>1, <1>2, <1>4 DEF Held, RootHeld, DescentHeld, SplitHeld, SearchHeld, Splitting
<1>q. QED
  BY <1>5

\* What find_key_in_btree relies on and add_with_split (data_structures.c:833), with the process
\* killed between any two of its writes or not, must not break.  For every order from 3 on, if each
\* file found at the start holds a forest (its header, if it names a node, the root of a tree) and
\* no write of a node is cut short: the tree the header points to and the one the process works on
\* are search trees, whose keys are in order, in one place each and on the way a search for them takes.
THEOREM SearchTreesAlways ==
  ASSUME Order >= 3, Cuts = {},
         \A f \in IndexFiles : /\ \E r : Grades(r, f.nodes)
                               /\ \A s \in DOMAIN f.nodes : Whole(f.nodes[s])
                               /\ FileHeld(f)
  PROVE  Spec => []SearchTreeAlways
<1> DEFINE Inv == /\ TypeOK /\ OffsetsSound /\ (\E r : Graded(r)) /\ Wholes /\ StackPath
                  /\ \E T, h, iv, F : Held(T, h, iv, F)
<1>1. Init => Inv
  <2> SUFFICES ASSUME Init PROVE Inv
    OBVIOUS
  <2>1. TypeOK /\ OffsetsSound
    BY InitSound
  <2>2. (\E r : Graded(r)) /\ Wholes /\ StackPath
    BY InitPath
  <2>3. \E T, h, iv, F : Held(T, h, iv, F)
    BY <2>1, InitHeld
  <2>q. QED
    BY <2>1, <2>2, <2>3
<1>2. Inv /\ [Next]_vars => Inv'
  <2> SUFFICES ASSUME Inv, [Next]_vars PROVE Inv'
    OBVIOUS
  <2>1. TypeOK' /\ OffsetsSound'
    BY StepSound
  <2>2. (\E r : Graded(r))'
    BY StepGraded
  <2>3. Wholes' /\ StackPath'
    BY StepPath
  <2>4. \E T, h, iv, F : Held(T, h, iv, F)'
    BY StepHeld
  <2>q. QED
    BY <2>1, <2>2, <2>3, <2>4
<1>3. Inv => SearchTreeAlways
  BY HeldSearchTree
<1>q. QED
  BY <1>1, <1>2, <1>3, PTL DEF Spec
=============================================================================
