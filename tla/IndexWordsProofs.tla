-------------------------- MODULE IndexWordsProofs --------------------------
(***************************************************************************)
(* For every even order: the writes of nodes, made word by word through    *)
(* stdio's buffer and cut by kills, leave on disk what BTree says, and a   *)
(* search over the words of the file is the search over the nodes.         *)
(***************************************************************************)
EXTENDS IndexWords, BTreeProofs

-----------------------------------------------------------------------------
(* Arithmetic of places *)

LEMMA Euclid ==
  ASSUME NEW a \in Nat, NEW b \in Nat \ {0}, NEW r \in 0..(b - 1)
  PROVE  (b * a + r) \div b = a /\ (b * a + r) % b = r
OBVIOUS

LEMMA Halves ==
  ASSUME NEW j \in Nat, NEW r \in {0, 1}
  PROVE  (2 * j + r) \div 2 = j /\ (2 * j + r) % 2 = r
OBVIOUS

LEMMA Quotient ==
  ASSUME NEW a \in Nat, NEW b \in Nat \ {0}
  PROVE  a \div b \in Nat /\ a % b \in 0..(b - 1) /\ a = b * (a \div b) + (a % b)
OBVIOUS

LEMMA NodeSizeType ==
  /\ NodeSize \in Nat \ {0} /\ NodeSize = 3 * Order /\ NodeSize >= 6 /\ NodeSize % 2 = 0
  /\ Order \in Nat /\ Order >= 2 /\ Order % 2 = 0
<1>1. Order \in Nat /\ Order >= 2 /\ Order % 2 = 0
  BY OrderAssumption, BlockAssumption
<1>q. QED
  BY <1>1 DEF NodeSize

\* The words of a slot lie in the file behind the header, and each says which slot it is of.
LEMMA WordPlace ==
  ASSUME NEW L \in Nat, NEW s \in 1..L, NEW i \in 0..(NodeSize - 1), NEW g, g = WordOf(s) + i
  PROVE  /\ g \in 0..(WordOf(L + 1) - 1) /\ ~(g < 2)
         /\ (g - 2) \div NodeSize + 1 = s /\ (g - 2) % NodeSize = i
<1>1. NodeSize \in Nat \ {0}
  BY NodeSizeType
<1>2. PICK a \in Nat : s = a + 1 /\ a + 1 <= L
  <2>1. s - 1 \in Nat /\ s = (s - 1) + 1 /\ (s - 1) + 1 <= L
    OBVIOUS
  <2>q. QED
    BY <2>1
<1>3. g = 2 + NodeSize * a + i /\ WordOf(L + 1) = 2 + NodeSize * L
  BY <1>1, <1>2 DEF WordOf
<1>4. NodeSize * a \in Nat /\ NodeSize * L \in Nat /\ NodeSize * (a + 1) <= NodeSize * L
  BY <1>1, <1>2
<1>5. NodeSize * (a + 1) = NodeSize * a + NodeSize
  BY <1>1
<1>6. g - 2 = NodeSize * a + i
  <2>1. i \in Int
    BY <1>1
  <2>2. PICK x \in Nat : x = NodeSize * a
    BY <1>4, Zenon
  <2>3. g = 2 + x + i
    BY <1>3, <2>2
  <2>q. QED
    BY <2>1, <2>2, <2>3
<1>7. (g - 2) \div NodeSize = a /\ (g - 2) % NodeSize = i
  <2>1. (NodeSize * a + i) \div NodeSize = a /\ (NodeSize * a + i) % NodeSize = i
    BY <1>1, Euclid
  <2>q. QED
    BY <1>6, <2>1, Zenon
<1>8. NodeSize * a + i < NodeSize * L
  <2>1. i < NodeSize
    BY <1>1
  <2>2. ASSUME NEW x \in Nat, NEW y \in Nat, NEW z \in Nat, z = x + NodeSize, z <= y
        PROVE  x + i < y
    BY <1>1, <2>1, <2>2
  <2>3. NodeSize * (a + 1) \in Nat
    BY <1>1
  <2>q. QED
    BY <1>4, <1>5, <2>2, <2>3
<1>9. g \in 0..(WordOf(L + 1) - 1) /\ ~(g < 2)
  BY <1>3, <1>4, <1>8
<1>q. QED
  BY <1>2, <1>7, <1>9

LEMMA WordApart ==
  ASSUME NEW L \in Nat, NEW s \in 1..L
  PROVE  /\ WordOf(s) \in Nat /\ WordOf(s) >= 2
         /\ \A t \in 1..L : t # s => WordOf(t) + NodeSize <= WordOf(s) \/ WordOf(s) + NodeSize <= WordOf(t)
<1>1. ASSUME NEW t \in 1..L PROVE WordOf(t) \in Nat /\ WordOf(t) >= 2
  <2>1. NodeSize * (t - 1) \in Nat
    BY NodeSizeType
  <2>q. QED
    BY <2>1 DEF WordOf
<1>2. ASSUME NEW t \in 1..L, NEW u \in 1..L, t < u PROVE WordOf(t) + NodeSize <= WordOf(u)
  <2>1. NodeSize * (t - 1) + NodeSize = NodeSize * t /\ NodeSize * t <= NodeSize * (u - 1)
    BY <1>2, NodeSizeType
  <2>2. {NodeSize * (t - 1), NodeSize * t, NodeSize * (u - 1), NodeSize} \subseteq Nat
    BY NodeSizeType
  <2>3. ASSUME NEW x \in Nat, NEW y \in Nat, NEW z \in Nat, x + NodeSize = z, z <= y
        PROVE  2 + x + NodeSize <= 2 + y
    BY <2>2, <2>3
  <2>q. QED
    BY <2>1, <2>2, <2>3 DEF WordOf
<1>q. QED
  <2>1. ASSUME NEW t \in 1..L, t # s PROVE t < s \/ s < t
    BY <2>1
  <2>q. QED
    BY <1>1, <1>2, <2>1

\* What has left a buffer: no part of a pair, never all that was given, and more with every word.
FlushedFrom(p, n) == LET end == Block * ((p + n - 1) \div Block) IN IF end > p THEN end - p ELSE 0

LEMMA FlushedPart ==
  ASSUME NEW p \in Nat, p >= 2, p % 2 = 0, NEW n \in Nat, NEW m \in Nat, n <= m
  PROVE  /\ FlushedFrom(p, n) \in Nat /\ FlushedFrom(p, n) % 2 = 0
         /\ FlushedFrom(p, n) = 0 \/ FlushedFrom(p, n) < n
         /\ FlushedFrom(p, n) <= FlushedFrom(p, m)
<1> DEFINE x == p + n - 1
           y == p + m - 1
           q == x \div Block
           r == y \div Block
           e == Block * q
           d == Block * r
<1>1. Block \in Nat \ {0} /\ Block % 2 = 0 /\ x \in Nat /\ y \in Nat /\ x <= y
  BY BlockAssumption
<1>2. q \in Nat /\ r \in Nat /\ x = e + (x % Block) /\ y = d + (y % Block)
      /\ x % Block \in 0..(Block - 1) /\ y % Block \in 0..(Block - 1)
  <2> HIDE DEF x, y
  <2>q. QED
    BY <1>1, Quotient
<1>3. e \in Nat /\ d \in Nat /\ e <= x
  <2>1. e \in Nat /\ d \in Nat
    <3> HIDE DEF q, r
    <3>q. QED
      BY <1>1, <1>2
  <2> HIDE DEF e, d, x, y
  <2>q. QED
    BY <1>1, <1>2, <2>1
<1>4. e % 2 = 0
  <2>1. PICK b \in Nat : Block = 2 * b
    <3>1. Block = 2 * (Block \div 2) + (Block % 2) /\ Block \div 2 \in Nat
      BY <1>1, Quotient
    <3>q. QED
      BY <1>1, <3>1
  <2>2. e = 2 * (b * q) /\ b * q \in Nat
    <3> HIDE DEF q
    <3>q. QED
      BY <1>2, <2>1
  <2> HIDE DEF e
  <2>3. PICK z \in Nat : e = 2 * z
    BY <2>2
  <2>q. QED
    BY <2>3
<1>5. e <= d
  <2>1. q <= r
    <3>1. ASSUME r < q PROVE FALSE
      <4>1. d + Block <= e
        <5>1. Block * (r + 1) <= Block * q /\ Block * (r + 1) = Block * r + Block
          <6> HIDE DEF q, r
          <6>q. QED
            BY <1>1, <1>2, <3>1
        <5>q. QED
          BY <5>1
      <4> HIDE DEF e, d, x, y
      <4>q. QED
        BY <1>1, <1>2, <1>3, <4>1
    <3>q. QED
      BY <1>2, <3>1
  <2> HIDE DEF q, r
  <2>q. QED
    BY <1>1, <1>2, <2>1
<1>6. FlushedFrom(p, n) = (IF e > p THEN e - p ELSE 0) /\ FlushedFrom(p, m) = (IF d > p THEN d - p ELSE 0)
  BY DEF FlushedFrom
<1> HIDE DEF e, d
<1>q. QED
  BY <1>3, <1>4, <1>5, <1>6

LEMMA FlushedSome ==
  ASSUME NEW p \in Nat, p >= 2, p % 2 = 0, NEW n \in Nat
  PROVE  /\ FlushedFrom(p, n) \in Nat /\ FlushedFrom(p, n) % 2 = 0
         /\ FlushedFrom(p, n) = 0 \/ FlushedFrom(p, n) < n
<1>1. PICK m \in Nat : n <= m
  <2>1. n <= n
    OBVIOUS
  <2>q. QED
    BY <2>1
<1>2. FlushedFrom(p, n) <= FlushedFrom(p, m)
  BY <1>1, FlushedPart
<1>q. QED
  BY <1>1, <1>2, FlushedPart
-----------------------------------------------------------------------------
(* The words of a node *)

\* LongOf and NodeWord where the slots have the places pl.
LongIn(pl, o) == IF o = NoOffset THEN <<-1, -1>> ELSE IF o = Header THEN <<0, 0>> ELSE <<4 * pl[o], 0>>
WordIn(pl, nd, i) ==
  IF i = 0 THEN nd.n
  ELSE IF i < Order THEN nd.keys[i]
  ELSE LongIn(pl, nd.kids[(i - Order) \div 2 + 1])[((i - Order) % 2) + 1]

LEMMA InPlaces ==
  /\ \A o : LongOf(o) = LongIn(places, o) /\ \A nd, i : NodeWord(nd, i) = WordIn(places, nd, i)
BY DEF LongOf, LongIn, NodeWord, WordIn

LEMMA CountWord == ASSUME NEW pl, NEW nd PROVE WordIn(pl, nd, 0) = nd.n
BY DEF WordIn

LEMMA KeyWord == ASSUME NEW pl, NEW nd, NEW i \in 1..(Order - 1) PROVE WordIn(pl, nd, i) = nd.keys[i]
BY NodeSizeType DEF WordIn

LEMMA ChildWord ==
  ASSUME NEW pl, NEW nd, NEW j \in 1..Order, NEW r \in {0, 1}, NEW i, i = Order + 2 * (j - 1) + r
  PROVE  WordIn(pl, nd, i) = LongIn(pl, nd.kids[j])[r + 1]
<1>1. Order \in Nat /\ Order >= 2 /\ j - 1 \in Nat
  BY NodeSizeType
<1>2. (2 * (j - 1) + r) \div 2 = j - 1 /\ (2 * (j - 1) + r) % 2 = r
  BY <1>1, Halves
<1>3. i - Order = 2 * (j - 1) + r /\ i # 0 /\ ~(i < Order)
  BY <1>1
<1>q. QED
  BY <1>1, <1>2, <1>3 DEF WordIn

\* Each word is the number of keys, a key or half a child offset.
LEMMA WordKinds ==
  ASSUME NEW i \in 0..(NodeSize - 1)
  PROVE  i = 0 \/ i \in 1..(Order - 1) \/ \E j \in 1..Order, r \in {0, 1} : i = Order + 2 * (j - 1) + r
<1>1. Order \in Nat /\ Order >= 2 /\ NodeSize = 3 * Order
  BY NodeSizeType
<1>2. CASE i >= Order
  <2>1. PICK x \in Nat : x = i - Order /\ x < 2 * Order
    BY <1>1, <1>2
  <2>2. x \div 2 \in Nat /\ x % 2 \in 0..1 /\ x = 2 * (x \div 2) + (x % 2)
    BY Quotient
  <2>3. PICK a \in Nat, r \in 0..1 : x = 2 * a + r
    BY <2>2
  <2>4. a + 1 \in 1..Order /\ r \in {0, 1} /\ i = Order + 2 * ((a + 1) - 1) + r
    BY <1>1, <1>2, <2>1, <2>3
  <2>q. QED
    BY <2>4
<1>q. QED
  BY <1>1, <1>2

\* New places at the end change no word of a node whose children have places.
LEMMA WordStays ==
  ASSUME NEW pl, NEW longer, NEW nd, NEW i \in 0..(NodeSize - 1),
         \A j \in 1..Order : nd.kids[j] = NoOffset \/ longer[nd.kids[j]] = pl[nd.kids[j]]
  PROVE  WordIn(longer, nd, i) = WordIn(pl, nd, i)
<1>1. CASE i = 0
  BY <1>1, CountWord
<1>3. CASE i \in 1..(Order - 1)
  BY <1>3, KeyWord
<1>2. ASSUME NEW j \in 1..Order, NEW r \in {0, 1}, i = Order + 2 * (j - 1) + r
      PROVE  WordIn(longer, nd, i) = WordIn(pl, nd, i)
  <2>1. LongIn(longer, nd.kids[j]) = LongIn(pl, nd.kids[j])
    BY DEF LongIn
  <2>q. QED
    BY <1>2, <2>1, ChildWord
<1>q. QED
  BY <1>1, <1>2, <1>3, WordKinds

\* Where a write may be cut.
Cut(c) == c \in 1..(NodeSize - 1) /\ c % 2 = 0

\* A child offset is on one side of the cut.
LEMMA OneSide ==
  ASSUME NEW c, Cut(c), NEW j \in 1..Order, NEW r \in {0, 1}
  PROVE  Order + 2 * (j - 1) + r < c <=> Order + 2 * j <= c
<1>1. Order \in Nat /\ c \in Int /\ Order % 2 = 0 /\ c % 2 = 0
  BY NodeSizeType DEF Cut
<1>q. QED
  BY <1>1

LEMMA TornWord ==
  ASSUME NEW pl, NEW old, NEW new, NEW c, Cut(c), NEW i \in 0..(NodeSize - 1)
  PROVE  WordIn(pl, Torn(old, new, c), i) = WordIn(pl, IF i < c THEN new ELSE old, i)
<1> DEFINE nd == Torn(old, new, c)
<1>1. c \in Int /\ c >= 1 /\ Order \in Nat
  BY NodeSizeType DEF Cut
<1>2. /\ nd.n = new.n
      /\ \A k \in 1..(Order - 1) : nd.keys[k] = IF k < c THEN new.keys[k] ELSE old.keys[k]
      /\ \A j \in 1..Order : nd.kids[j] = IF Order + 2 * j <= c THEN new.kids[j] ELSE old.kids[j]
  BY DEF Torn
<1> HIDE DEF nd
<1>3. CASE i = 0
  <2>1. WordIn(pl, nd, 0) = nd.n /\ WordIn(pl, new, 0) = new.n
    BY CountWord
  <2>q. QED
    BY <1>1, <1>2, <1>3, <2>1 DEF nd
<1>4. CASE i \in 1..(Order - 1)
  <2>1. WordIn(pl, nd, i) = nd.keys[i] /\ WordIn(pl, new, i) = new.keys[i] /\ WordIn(pl, old, i) = old.keys[i]
    BY <1>4, KeyWord
  <2>q. QED
    BY <1>2, <1>4, <2>1 DEF nd
<1>5. ASSUME NEW j \in 1..Order, NEW r \in {0, 1}, i = Order + 2 * (j - 1) + r
      PROVE  WordIn(pl, nd, i) = WordIn(pl, IF i < c THEN new ELSE old, i)
  <2>1. /\ WordIn(pl, nd, i) = LongIn(pl, nd.kids[j])[r + 1]
        /\ WordIn(pl, new, i) = LongIn(pl, new.kids[j])[r + 1]
        /\ WordIn(pl, old, i) = LongIn(pl, old.kids[j])[r + 1]
    BY <1>5, ChildWord
  <2>2. i < c <=> Order + 2 * j <= c
    BY <1>5, OneSide
  <2>3. nd.kids[j] = IF i < c THEN new.kids[j] ELSE old.kids[j]
    BY <1>2, <2>2
  <2>q. QED
    BY <2>1, <2>3
<1>q. QED
  BY <1>3, <1>4, <1>5, WordKinds DEF nd

\* The words given to the first c calls of fwrite, and that ws are these.
GivenBy(c) == IF c <= Order THEN c ELSE Order + 2 * (c - Order)
Given(ws, c, pl, nd) ==
  /\ c \in 0..(2 * Order) /\ ws \in Seq(Int) /\ Len(ws) = GivenBy(c)
  /\ \A i \in 0..(GivenBy(c) - 1) : ws[i + 1] = WordIn(pl, nd, i)

LEMMA AppendWord == ASSUME NEW ws \in Seq(Int), NEW x \in Int
  PROVE  ws \o <<x>> \in Seq(Int) /\ Len(ws \o <<x>>) = Len(ws) + 1 /\ (ws \o <<x>>)[Len(ws) + 1] = x
         /\ \A i \in 1..Len(ws) : (ws \o <<x>>)[i] = ws[i]
OBVIOUS

LEMMA GivesNext ==
  ASSUME NEW ws, NEW c, NEW nd \in Node, places \in Seq(Nat),
         \A j \in 1..Order : nd.kids[j] \in 1..Len(places) \cup {NoOffset},
         Given(ws, c, places, nd), c < Len(Fwrites(nd))
  PROVE  Given(ws \o Fwrites(nd)[c + 1], c + 1, places, nd)
<1>1. /\ Order \in Nat /\ Order >= 2 /\ Len(Fwrites(nd)) = 2 * Order
      /\ nd.n \in Int /\ \A i \in 1..(Order - 1) : nd.keys[i] \in Int
  BY NodeSizeType DEF Fwrites, Node
<1>2. c \in Nat /\ c < 2 * Order /\ ws \in Seq(Int) /\ Len(ws) = GivenBy(c)
  BY <1>1 DEF Given
<1> DEFINE vs == ws \o Fwrites(nd)[c + 1]
<1>3. CASE c < Order
  <2> DEFINE x == IF c = 0 THEN nd.n ELSE nd.keys[c]
  <2>1. Fwrites(nd)[c + 1] = <<x>> /\ x \in Int
    <3>1. c + 1 \in 1..(2 * Order) /\ c + 1 <= Order /\ (c + 1) - 1 = c /\ (c = 0 \/ c \in 1..(Order - 1))
      BY <1>1, <1>2, <1>3
    <3>2. Fwrites(nd)[c + 1] = <<x>>
      BY <1>1, <3>1 DEF Fwrites
    <3>q. QED
      BY <1>1, <3>1, <3>2
  <2>2. WordIn(places, nd, c) = x
    <3>1. c = 0 \/ c \in 1..(Order - 1)
      BY <1>1, <1>2, <1>3
    <3>q. QED
      BY <3>1, CountWord, KeyWord
  <2> HIDE DEF x
  <2>3. vs \in Seq(Int) /\ Len(vs) = Len(ws) + 1 /\ vs[Len(ws) + 1] = x /\ \A i \in 1..Len(ws) : vs[i] = ws[i]
    BY <1>2, <2>1, AppendWord
  <2>4. GivenBy(c) = c /\ GivenBy(c + 1) = c + 1
    BY <1>1, <1>2, <1>3 DEF GivenBy
  <2> HIDE DEF vs
  <2>5. ASSUME NEW i \in 0..c PROVE vs[i + 1] = WordIn(places, nd, i)
    <3>1. CASE i = c
      BY <1>2, <2>2, <2>3, <2>4, <3>1
    <3>2. CASE i < c
      BY <1>2, <2>3, <2>4, <3>2 DEF Given
    <3>q. QED
      BY <1>2, <3>1, <3>2
  <2>q. QED
    BY <1>1, <1>2, <2>3, <2>4, <2>5 DEF Given, vs
<1>4. CASE c >= Order
  <2>1. PICK j \in 1..Order : c = Order + (j - 1)
    <3>1. c - Order + 1 \in 1..Order /\ c = Order + ((c - Order + 1) - 1)
      BY <1>1, <1>2, <1>4
    <3>q. QED
      BY <3>1
  <2> DEFINE x == LongIn(places, nd.kids[j])[1]
             y == LongIn(places, nd.kids[j])[2]
  <2>2. Fwrites(nd)[c + 1] = <<x, y>> /\ x \in Int /\ y \in Int
    <3>1. Fwrites(nd)[c + 1] = LongOf(nd.kids[j])
      <4>1. c + 1 \in 1..(2 * Order) /\ c + 1 # 1 /\ ~(c + 1 <= Order) /\ (c + 1) - Order = j
        BY <1>1, <1>2, <2>1
      <4>q. QED
        BY <4>1 DEF Fwrites
    <3>2. LongOf(nd.kids[j]) = LongIn(places, nd.kids[j])
      BY InPlaces
    <3>3. nd.kids[j] = NoOffset \/ places[nd.kids[j]] \in Nat
      OBVIOUS
    <3>q. QED
      BY <3>1, <3>2, <3>3 DEF LongIn
  <2>3. /\ WordIn(places, nd, Order + 2 * (j - 1)) = x
        /\ WordIn(places, nd, Order + 2 * (j - 1) + 1) = y
    <3>1. Order + 2 * (j - 1) = Order + 2 * (j - 1) + 0
      BY <1>1
    <3>2. WordIn(places, nd, Order + 2 * (j - 1)) = LongIn(places, nd.kids[j])[0 + 1]
      BY <3>1, ChildWord
    <3>3. WordIn(places, nd, Order + 2 * (j - 1) + 1) = LongIn(places, nd.kids[j])[1 + 1]
      BY ChildWord
    <3>q. QED
      BY <3>2, <3>3
  <2> HIDE DEF x, y
  <2>v. vs = ws \o <<x, y>> /\ x \in Int /\ y \in Int
    BY <2>2
  <2> HIDE DEF vs
  <2>4. /\ vs \in Seq(Int) /\ Len(vs) = Len(ws) + 2 /\ vs[Len(ws) + 1] = x /\ vs[Len(ws) + 2] = y
        /\ \A i \in 1..Len(ws) : vs[i] = ws[i]
    <3>1. vs \in Seq(Int)
      BY <1>2, <2>v
    <3>2. Len(vs) = Len(ws) + 2
      BY <1>2, <2>v
    <3>3. vs[Len(ws) + 1] = x
      BY <1>2, <2>v
    <3>4. vs[Len(ws) + 2] = y
      BY <1>2, <2>v
    <3>5. \A i \in 1..Len(ws) : vs[i] = ws[i]
      BY <1>2, <2>v
    <3>q. QED
      BY <3>1, <3>2, <3>3, <3>4, <3>5
  <2>5. GivenBy(c) = Order + 2 * (j - 1) /\ GivenBy(c + 1) = Order + 2 * (j - 1) + 2
    BY <1>1, <1>2, <1>4, <2>1 DEF GivenBy
  <2>6. ASSUME NEW i \in 0..(GivenBy(c) + 1) PROVE vs[i + 1] = WordIn(places, nd, i)
    <3>1. CASE i = GivenBy(c)
      BY <1>2, <2>3, <2>4, <2>5, <3>1
    <3>2. CASE i = GivenBy(c) + 1
      <4>1. i + 1 = Len(ws) + 2 /\ i = Order + 2 * (j - 1) + 1
        BY <1>1, <1>2, <2>5, <3>2
      <4>q. QED
        BY <2>3, <2>4, <4>1
    <3>3. CASE i < GivenBy(c)
      BY <1>1, <1>2, <2>4, <2>5, <3>3 DEF Given
    <3>q. QED
      BY <1>1, <2>5, <3>1, <3>2, <3>3
  <2>7. GivenBy(c + 1) - 1 = GivenBy(c) + 1 /\ GivenBy(c) \in Nat
    BY <1>1, <2>5
  <2>8. Len(vs) = GivenBy(c + 1) /\ \A i \in 0..(GivenBy(c + 1) - 1) : vs[i + 1] = WordIn(places, nd, i)
    BY <1>2, <2>4, <2>5, <2>6, <2>7
  <2>9. c + 1 \in 0..(2 * Order)
    BY <1>1, <1>2
  <2>q. QED
    BY <2>4, <2>8, <2>9 DEF Given, vs
<1>q. QED
  BY <1>1, <1>2, <1>3, <1>4

LEMMA AllGiven ==
  ASSUME NEW ws, NEW c, NEW pl, NEW nd, Given(ws, c, pl, nd)
  PROVE  /\ Len(ws) \in 0..NodeSize /\ Len(Fwrites(nd)) = 2 * Order
         /\ c = 2 * Order => Len(ws) = NodeSize
BY NodeSizeType DEF Given, GivenBy, Fwrites
-----------------------------------------------------------------------------
(* What is on disk *)

Apart(p, q) == p + NodeSize <= q \/ q + NodeSize <= p

\* The file of sz words has the nodes at even places behind the header, one beside the other.
Room(pl, sz, L) ==
  /\ sz \in Nat /\ sz % 2 = 0
  /\ pl \in Seq(Nat) /\ Len(pl) = L
  /\ \A s \in 1..L : pl[s] \in Nat /\ pl[s] % 2 = 0 /\ pl[s] >= 2 /\ pl[s] + NodeSize <= sz
  /\ \A s \in 1..L, t \in 1..L : s # t => Apart(pl[s], pl[t])
  /\ L # 0 => pl[1] = 2

HeaderAt(f, sz, pl, h) == IF sz = 0 THEN h = Header ELSE f[0] = LongIn(pl, h)[1] /\ f[1] = LongIn(pl, h)[2]

\* The nodes are in the file, but for the first k words of slot t, which are those of nd.
NodesAt(f, pl, ns, t, k, nd) ==
  \A s \in 1..Len(ns), i \in 0..(NodeSize - 1) :
    f[pl[s] + i] = WordIn(pl, IF s = t /\ i < k THEN nd ELSE ns[s], i)

\* Where a node goes: over slot t, or behind all slots.
Free(pl, L, t, p) ==
  /\ p \in Nat /\ p >= 2 /\ p % 2 = 0
  /\ t \in 1..L => p = pl[t]
  /\ t \notin 1..L => t = L + 1 /\ (L = 0 => p = 2) /\ \A s \in 1..L : pl[s] + NodeSize <= p

\* What Put does to the file.
Stored(f, sz, f2, sz2, p, ws) ==
  /\ sz2 \in Nat /\ sz <= sz2 /\ (ws # <<>> => p + Len(ws) <= sz2) /\ (sz2 = sz \/ (sz2 = p + Len(ws) /\ ws # <<>>))
  /\ \A i \in 0..(Len(ws) - 1) : f2[p + i] = ws[i + 1]
  /\ \A g \in Nat : ~(p <= g /\ g < p + Len(ws)) =>
        /\ g < sz => f2[g] = f[g]
        /\ sz <= g /\ g < sz2 => f2[g] = 0

LEMMA PutStores ==
  ASSUME NEW p \in Nat, NEW ws \in Seq(Int), size \in Nat, Put(p, ws)
  PROVE  Stored(file, size, file', size', p, ws)
<1> DEFINE word(g) == IF g - p \in 0..(Len(ws) - 1) THEN ws[g - p + 1] ELSE IF g < size THEN file[g] ELSE 0
<1>1. PICK z \in Nat :
        /\ z = size' /\ size <= z /\ (ws # <<>> => p + Len(ws) <= z)
        /\ z = size \/ (z = p + Len(ws) /\ ws # <<>>)
        /\ file' = [g \in 0..(z - 1) |-> word(g)]
  <2>1. /\ size' = IF ws # <<>> /\ p + Len(ws) > size THEN p + Len(ws) ELSE size
        /\ file' = [g \in 0..(size' - 1) |-> word(g)]
    BY DEF Put
  <2>2. CASE ws # <<>> /\ p + Len(ws) > size
    <3>1. p + Len(ws) = size' /\ p + Len(ws) \in Nat /\ size <= p + Len(ws)
      BY <2>1, <2>2
    <3> HIDE DEF word
    <3>q. QED
      BY <2>1, <2>2, <3>1
  <2>3. CASE ~(ws # <<>> /\ p + Len(ws) > size)
    <3>1. size' = size /\ (ws # <<>> => p + Len(ws) <= size)
      BY <2>1, <2>3
    <3> HIDE DEF word
    <3>q. QED
      BY <2>1, <3>1
  <2>q. QED
    BY <2>2, <2>3
<1> HIDE DEF word
<1>2. /\ \A g \in 0..(z - 1) : file'[g] = word(g)
      /\ size <= z /\ (ws # <<>> => p + Len(ws) <= z)
  BY <1>1
<1>3. Len(ws) \in Nat /\ (ws = <<>> <=> Len(ws) = 0)
  OBVIOUS
<1>4. ASSUME NEW i \in 0..(Len(ws) - 1) PROVE file'[p + i] = ws[i + 1]
  <2>1. p + i \in 0..(z - 1) /\ (p + i) - p = i
    BY <1>2, <1>3
  <2>q. QED
    BY <1>2, <2>1 DEF word
<1>5. ASSUME NEW g \in Nat, ~(p <= g /\ g < p + Len(ws))
      PROVE  (g < size => file'[g] = file[g]) /\ (size <= g /\ g < z => file'[g] = 0)
  <2>1. g - p \notin 0..(Len(ws) - 1)
    BY <1>3, <1>5
  <2>2. g < z => file'[g] = IF g < size THEN file[g] ELSE 0
    <3>1. word(g) = IF g < size THEN file[g] ELSE 0
      BY <2>1 DEF word
    <3>2. g < z => g \in 0..(z - 1)
      OBVIOUS
    <3>q. QED
      BY <1>2, <3>1, <3>2
  <2>q. QED
    BY <1>2, <2>2
<1>q. QED
  BY <1>1, <1>4, <1>5 DEF Stored

\* Words put behind the header leave it, or make one that says 0.
LEMMA HeaderStays ==
  ASSUME NEW f, NEW sz \in Nat, sz % 2 = 0, NEW f2, NEW sz2, NEW p \in Nat, p >= 2, NEW ws \in Seq(Int),
         Stored(f, sz, f2, sz2, p, ws), NEW pl, NEW h, HeaderAt(f, sz, pl, h)
  PROVE  HeaderAt(f2, sz2, pl, h)
<1>1. sz2 \in Nat /\ sz <= sz2 /\ (sz2 = sz \/ sz2 >= 2)
  BY DEF Stored
<1>2. CASE sz2 = 0
  BY <1>1, <1>2 DEF HeaderAt
<1>3. CASE sz # 0
  <2>1. sz >= 2
    BY <1>3
  <2>2. f2[0] = f[0] /\ f2[1] = f[1]
    BY <2>1 DEF Stored
  <2>q. QED
    BY <1>1, <1>3, <2>2 DEF HeaderAt
<1>4. CASE sz = 0 /\ sz2 # 0
  <2>1. sz2 >= 2
    BY <1>1, <1>4
  <2>2. f2[0] = 0 /\ f2[1] = 0
    BY <1>4, <2>1 DEF Stored
  <2>3. LongIn(pl, h) = <<0, 0>>
    BY <1>4 DEF HeaderAt, LongIn, Header, NoOffset
  <2>q. QED
    BY <1>4, <2>2, <2>3 DEF HeaderAt
<1>q. QED
  BY <1>2, <1>3, <1>4

\* The first words of a node put where it goes leave all others.
LEMMA NodesStay ==
  ASSUME NEW f, NEW sz, NEW f2, NEW sz2, NEW p, NEW ws \in Seq(Int), Stored(f, sz, f2, sz2, p, ws),
         NEW pl, NEW ns \in Seq(Node), NEW t, NEW nd, NEW k \in Nat, Room(pl, sz, Len(ns)), Free(pl, Len(ns), t, p),
         NodesAt(f, pl, ns, t, k, nd), k <= Len(ws), Len(ws) <= NodeSize,
         \A i \in 0..(Len(ws) - 1) : ws[i + 1] = WordIn(pl, nd, i)
  PROVE  NodesAt(f2, pl, ns, t, Len(ws), nd)
<1> DEFINE n == Len(ws)
<1>0. n \in Nat /\ NodeSize \in Nat /\ p \in Nat /\ sz \in Nat
  BY NodeSizeType DEF Room, Free
<1>1. SUFFICES ASSUME NEW s \in 1..Len(ns), NEW i \in 0..(NodeSize - 1)
               PROVE  f2[pl[s] + i] = WordIn(pl, IF s = t /\ i < n THEN nd ELSE ns[s], i)
  BY DEF NodesAt
<1>2. /\ pl[s] \in Nat /\ pl[s] + NodeSize <= sz
      /\ f[pl[s] + i] = WordIn(pl, IF s = t /\ i < k THEN nd ELSE ns[s], i)
  BY DEF Room, NodesAt
<1>3. CASE s = t /\ i < n
  <2>1. p = pl[s] /\ i \in 0..(n - 1)
    BY <1>0, <1>3 DEF Free
  <2>2. f2[p + i] = ws[i + 1] /\ ws[i + 1] = WordIn(pl, nd, i)
    BY <2>1 DEF Stored
  <2>q. QED
    BY <1>3, <2>1, <2>2
<1>4. CASE ~(s = t /\ i < n)
  <2>1. ~(p <= pl[s] + i /\ pl[s] + i < p + n)
    <3>1. CASE s = t
      BY <1>0, <1>2, <1>4, <3>1 DEF Free
    <3>2. CASE s # t /\ t \in 1..Len(ns)
      <4>1. Apart(pl[s], p)
        BY <3>2 DEF Room, Free
      <4>q. QED
        BY <1>0, <1>2, <4>1 DEF Apart
    <3>3. CASE t \notin 1..Len(ns)
      BY <1>0, <1>2, <3>3 DEF Free
    <3>q. QED
      BY <3>1, <3>2, <3>3
  <2>2. pl[s] + i \in Nat /\ pl[s] + i < sz
    BY <1>0, <1>2
  <2>3. f2[pl[s] + i] = f[pl[s] + i]
    <3>1. PICK g \in Nat : g = pl[s] + i
      BY <2>2
    <3>q. QED
      BY <2>1, <2>2, <3>1 DEF Stored
  <2>4. ~(s = t /\ i < k)
    BY <1>0, <1>4
  <2>q. QED
    BY <1>2, <1>4, <2>3, <2>4
<1>q. QED
  BY <1>3, <1>4

LEMMA RoomStays ==
  ASSUME NEW pl, NEW sz, NEW L, NEW f, NEW f2, NEW sz2, NEW p \in Nat, NEW ws \in Seq(Int),
         Room(pl, sz, L), Stored(f, sz, f2, sz2, p, ws), p % 2 = 0, Len(ws) % 2 = 0
  PROVE  Room(pl, sz2, L)
<1>1. sz2 \in Nat /\ sz2 % 2 = 0 /\ sz <= sz2 /\ sz \in Nat
  <2>1. sz \in Nat /\ sz % 2 = 0 /\ sz2 \in Nat /\ sz <= sz2 /\ (sz2 = sz \/ sz2 = p + Len(ws))
    BY DEF Room, Stored
  <2>2. (p + Len(ws)) % 2 = 0
    <3>1. PICK n \in Nat : n = Len(ws)
      OBVIOUS
    <3>q. QED
      BY <3>1
  <2>q. QED
    BY <2>1, <2>2
<1>2. \A s \in 1..L : pl[s] \in Nat /\ pl[s] % 2 = 0 /\ pl[s] >= 2 /\ pl[s] + NodeSize <= sz2
  BY <1>1, NodeSizeType DEF Room
<1>q. QED
  BY <1>1, <1>2 DEF Room
-----------------------------------------------------------------------------
(* The node that is being written *)

LEMMA WrittenSound ==
  ASSUME Order >= 3, TypeOK, OffsetsSound, Writes
  PROVE  /\ nodes \in Seq(Node) /\ Written \in Node
         /\ \A j \in 1..Order : Written.kids[j] \in Slots \cup {NoOffset}
         /\ Target \in Slots \/ Target = Len(nodes) + 1
         /\ root_offset = NoOffset => Target = 1
         /\ root_offset # NoOffset => nodes # <<>>
<1> USE DEF OffsetsSound
<1>1. /\ nodes \in Seq(Node) /\ key \in Int /\ aux \in AuxNode
      /\ pc \in {"answer", "split", "right", "link", "newroot"}
  BY DEF TypeOK, Writes
<1>2. pc # "answer" => root_offset \in Slots
  BY <1>1 DEF StackSound
<1>3. CASE pc = "answer"
  <2>1. Written = RootOf(key) /\ Target = 1 /\ root_offset = NoOffset
    BY <1>3 DEF Written, Target, Writes
  <2>2. 1 \in Slots \/ 1 = Len(nodes) + 1
    BY <1>1 DEF Slots
  <2>q. QED
    BY <1>1, <2>1, <2>2, FirstRoot
<1>4. CASE pc = "split"
  <2>1. Written = LeftOf(aux) /\ Target = LeftOffset
    BY <1>4 DEF Written, Target
  <2>q. QED
    BY <1>1, <1>2, <1>4, <2>1, LeftHalfSound DEF Kid, Slots, NoOffset
<1>5. CASE pc \in {"right", "newroot"}
  <2> DEFINE S == Slots \cup {NoOffset}
  <2>1. Target = Len(nodes) + 1
    BY <1>5 DEF Target
  <2>2. S \subseteq Int /\ Filler \in S /\ \A i \in 1..(Order + 1) : aux.kids[i] \in S
    BY <1>1, <1>5 DEF Slots, NoOffset, Filler, SplitSound, Kid
  <2>3. Written \in Node /\ \A j \in 1..Order : Written.kids[j] \in S
    <3>1. CASE pc = "right"
      <4>1. Written = RightOf(aux)
        BY <3>1 DEF Written
      <4> HIDE DEF S
      <4>q. QED
        BY <1>1, <2>2, <4>1, HalvesType
    <3>2. CASE pc = "newroot"
      <4>1. Written = NewRootOf(SplitValue(aux), root_offset, right_offset)
        BY <3>2 DEF Written
      <4>2. root_offset \in S /\ right_offset \in S
        BY <1>2, <3>2 DEF SplitSound
      <4> HIDE DEF S
      <4>3. SplitValue(aux) \in Int
        BY <1>1, <2>2, HalvesType
      <4>q. QED
        BY <2>2, <4>1, <4>2, <4>3, RootsType
    <3>q. QED
      BY <1>5, <3>1, <3>2
  <2>q. QED
    BY <1>1, <1>2, <1>5, <2>1, <2>3 DEF Slots, NoOffset
<1>6. CASE pc = "link"
  <2>1. Written = Narrowed(Parent) /\ Target = next_parent /\ Parent.n <= Order - 1
    BY <1>6 DEF Written, Target, Writes
  <2>2. next_parent \in Slots /\ Narrowed(Parent) \in Node /\ \A i \in 1..Order : Kid(Narrowed(Parent).kids[i])
    BY <1>6, <2>1, ParentSound, NarrowedType
  <2>q. QED
    BY <1>1, <1>2, <1>6, <2>1, <2>2 DEF Kid, Slots, NoOffset
<1>q. QED
  BY <1>1, <1>3, <1>4, <1>5, <1>6

\* A step of BTree that writes it.
NodeWritten == IF Target \in Slots THEN nodes' = [nodes EXCEPT ![Target] = Written] ELSE nodes' = Append(nodes, Written)

LEMMA WriteStep ==
  ASSUME Order >= 3, TypeOK, OffsetsSound, Writes, AddRoot \/ SplitLeft \/ SplitRight \/ LinkParent \/ NewRoot
  PROVE  NodeWritten /\ header' = header
<1>1. /\ nodes \in Seq(Node) /\ Written \in Node
      /\ Target \in Slots \/ Target = Len(nodes) + 1
      /\ Len(nodes) \in Nat
  BY WrittenSound
<1>2. CASE AddRoot
  <2>1. /\ Written = RootOf(key) /\ Target = 1 /\ root_offset = NoOffset
        /\ write_node(RootOf(key))
    BY <1>2 DEF AddRoot, Written, Target
  <2>2. nodes' = <<Written>> \o SubSeq(nodes, 2, Len(nodes)) /\ header' = header
    BY <2>1 DEF write_node
  <2>3. CASE nodes = <<>>
    <3>1. SubSeq(nodes, 2, Len(nodes)) = <<>>
      BY <1>1, <2>3
    <3>2. <<Written>> \o <<>> = <<Written>> /\ Append(<<>>, Written) = <<Written>>
      BY <1>1
    <3>3. Target \notin Slots
      BY <1>1, <2>1, <2>3 DEF Slots
    <3>q. QED
      BY <2>2, <2>3, <3>1, <3>2, <3>3 DEF NodeWritten
  <2>4. CASE nodes # <<>>
    <3>1. Target \in Slots
      BY <1>1, <2>1, <2>4 DEF Slots
    <3>2. <<Written>> \o SubSeq(nodes, 2, Len(nodes)) = [nodes EXCEPT ![1] = Written]
      BY <1>1, <2>4
    <3>q. QED
      BY <2>1, <2>2, <3>1, <3>2 DEF NodeWritten
  <2>q. QED
    BY <2>3, <2>4
<1>3. CASE SplitLeft
  <2>1. pc = "split" /\ nodes' = [nodes EXCEPT ![LeftOffset] = LeftOf(aux)] /\ header' = header
    BY <1>3 DEF SplitLeft, write_node_at_offset
  <2>2. Written = LeftOf(aux) /\ Target = LeftOffset /\ LeftOffset \in Slots
    BY <2>1, LeftHalfSound DEF Written, Target
  <2>q. QED
    BY <2>1, <2>2 DEF NodeWritten
<1>4. CASE SplitRight \/ NewRoot
  <2>1. /\ pc \in {"right", "newroot"} /\ header' = header
        /\ nodes' = Append(nodes, Written)
    <3>1. CASE SplitRight
      <4>1. pc = "right" /\ write_node(RightOf(aux))
        BY <3>1 DEF SplitRight
      <4>2. root_offset # NoOffset
        BY <1>1, <4>1, SlotsType DEF OffsetsSound, StackSound
      <4>q. QED
        BY <4>1, <4>2 DEF write_node, Written
    <3>2. CASE NewRoot
      BY <3>2 DEF NewRoot, Written
    <3>q. QED
      BY <1>4, <3>1, <3>2
  <2>2. Target = Len(nodes) + 1
    BY <2>1 DEF Target
  <2>q. QED
    BY <1>1, <2>1, <2>2 DEF NodeWritten, Slots
<1>5. CASE LinkParent
  <2>1. pc = "link" /\ Parent.n <= Order - 1
    BY <1>5 DEF LinkParent, Writes
  <2>2. nodes' = [nodes EXCEPT ![next_parent] = Narrowed(Parent)] /\ header' = header
    <3>1. Order \in Nat /\ Parent.n # Order
      BY <2>1, NodeSizeType
    <3>2. write_node_at_offset(Narrowed(Parent), next_parent)
      BY <1>5, <3>1, Zenon DEF LinkParent
    <3>q. QED
      BY <3>2 DEF write_node_at_offset
  <2>3. Written = Narrowed(Parent) /\ Target = next_parent /\ next_parent \in Slots
    BY <2>1, ParentSound DEF Written, Target
  <2>q. QED
    BY <2>2, <2>3 DEF NodeWritten
<1>q. QED
  BY <1>2, <1>3, <1>4, <1>5
-----------------------------------------------------------------------------
(* Nodes when a write is over *)

LEMMA NodesIdle ==
  ASSUME NEW f, NEW pl, NEW ns, NEW t, NEW k, NEW nd, NodesAt(f, pl, ns, t, k, nd),
         k = 0 \/ t \notin 1..Len(ns), NEW u, NEW e
  PROVE  NodesAt(f, pl, ns, u, 0, e)
<1>1. \A i \in 0..(NodeSize - 1) : ~(i < 0)
  BY NodeSizeType
<1>q. QED
  BY <1>1 DEF NodesAt

LEMMA NodesDone ==
  ASSUME NEW f, NEW pl, NEW ns \in Seq(Node), NEW t \in 1..Len(ns), NEW nd \in Node,
         NodesAt(f, pl, ns, t, NodeSize, nd), NEW u, NEW e
  PROVE  NodesAt(f, pl, [ns EXCEPT ![t] = nd], u, 0, e)
<1> DEFINE ms == [ns EXCEPT ![t] = nd]
<1>1. Len(ms) = Len(ns) /\ \A s \in 1..Len(ns) : ms[s] = IF s = t THEN nd ELSE ns[s]
  OBVIOUS
<1>2. \A i \in 0..(NodeSize - 1) : i < NodeSize /\ ~(i < 0)
  BY NodeSizeType
<1> HIDE DEF ms
<1>3. NodesAt(f, pl, ms, u, 0, e)
  BY <1>1, <1>2 DEF NodesAt
<1>q. QED
  BY <1>3 DEF ms

LEMMA NodesCut ==
  ASSUME NEW f, NEW pl, NEW ns \in Seq(Node), NEW t \in 1..Len(ns), NEW nd, NEW c, Cut(c),
         Torn(ns[t], nd, c) \in Node, NodesAt(f, pl, ns, t, c, nd), NEW u, NEW e
  PROVE  NodesAt(f, pl, [ns EXCEPT ![t] = Torn(ns[t], nd, c)], u, 0, e)
<1> DEFINE ms == [ns EXCEPT ![t] = Torn(ns[t], nd, c)]
<1>1. Len(ms) = Len(ns) /\ \A s \in 1..Len(ns) : ms[s] = IF s = t THEN Torn(ns[t], nd, c) ELSE ns[s]
  OBVIOUS
<1> HIDE DEF ms
<1>2. ASSUME NEW s \in 1..Len(ns), NEW i \in 0..(NodeSize - 1)
      PROVE  f[pl[s] + i] = WordIn(pl, ms[s], i) /\ ~(i < 0)
  <2>1. f[pl[s] + i] = WordIn(pl, IF s = t /\ i < c THEN nd ELSE ns[s], i) /\ ~(i < 0)
    BY NodeSizeType DEF NodesAt
  <2>2. CASE s = t
    BY <1>1, <2>1, <2>2, TornWord
  <2>3. CASE s # t
    BY <1>1, <2>1, <2>3
  <2>q. QED
    BY <2>2, <2>3
<1>3. NodesAt(f, pl, ms, u, 0, e)
  BY <1>1, <1>2 DEF NodesAt
<1>q. QED
  BY <1>3 DEF ms

LEMMA NodesAppended ==
  ASSUME NEW f, NEW pl \in Seq(Nat), NEW ns \in Seq(Node), Len(pl) = Len(ns), NEW nd \in Node, NEW p \in Nat,
         NodesAt(f, pl, ns, 0, 0, nd), \A i \in 0..(NodeSize - 1) : f[p + i] = WordIn(pl, nd, i),
         \A s \in 1..Len(ns), j \in 1..Order : ns[s].kids[j] \in 1..Len(ns) \cup {NoOffset},
         \A j \in 1..Order : nd.kids[j] \in 1..Len(ns) \cup {NoOffset}, NEW u, NEW e
  PROVE  NodesAt(f, Append(pl, p), Append(ns, nd), u, 0, e)
<1> DEFINE L  == Len(ns)
           ql == Append(pl, p)
           ms == Append(ns, nd)
<1>1. /\ L \in Nat /\ Len(ms) = L + 1 /\ ql[L + 1] = p /\ ms[L + 1] = nd
      /\ \A s \in 1..L : ql[s] = pl[s] /\ ms[s] = ns[s]
  OBVIOUS
<1>2. /\ \A s \in 1..L, j \in 1..Order : ns[s].kids[j] \in 1..L \cup {NoOffset}
      /\ \A j \in 1..Order : nd.kids[j] \in 1..L \cup {NoOffset}
      /\ \A s \in 1..L, i \in 0..(NodeSize - 1) : f[pl[s] + i] = WordIn(pl, ns[s], i)
  <2>1. NodesAt(f, pl, ns, u, 0, e)
    BY NodesIdle
  <2>2. \A i \in 0..(NodeSize - 1) : ~(i < 0)
    BY NodeSizeType
  <2>q. QED
    BY <2>1, <2>2 DEF NodesAt
<1> HIDE DEF L, ql, ms
<1>3. ASSUME NEW s \in 1..(L + 1), NEW i \in 0..(NodeSize - 1)
      PROVE  f[ql[s] + i] = WordIn(ql, ms[s], i) /\ ~(i < 0)
  <2>1. ~(i < 0)
    BY NodeSizeType
  <2>p. \A v \in 1..L : ql[v] = pl[v]
    BY <1>1
  <2>2. CASE s = L + 1
    <3>0. \A j \in 1..Order : nd.kids[j] = NoOffset \/ ql[nd.kids[j]] = pl[nd.kids[j]]
      BY <1>2, <2>p
    <3>1. WordIn(ql, nd, i) = WordIn(pl, nd, i)
      BY <3>0, WordStays
    <3>q. QED
      BY <1>1, <2>1, <2>2, <3>1
  <2>3. CASE s \in 1..L
    <3>0. PICK old : old = ns[s]
      OBVIOUS
    <3>1. \A j \in 1..Order : old.kids[j] = NoOffset \/ ql[old.kids[j]] = pl[old.kids[j]]
      BY <1>2, <2>3, <2>p, <3>0
    <3>2. WordIn(ql, old, i) = WordIn(pl, old, i)
      BY <3>1, WordStays
    <3>q. QED
      BY <1>1, <1>2, <2>1, <2>3, <3>0, <3>2
  <2>q. QED
    BY <1>1, <2>2, <2>3
<1>4. NodesAt(f, ql, ms, u, 0, e)
  BY <1>1, <1>3 DEF NodesAt
<1>q. QED
  BY <1>4 DEF ql, ms

LEMMA RoomAppended ==
  ASSUME NEW pl, NEW sz, NEW L \in Nat, Room(pl, sz, L), NEW t, t \notin 1..L, NEW p, Free(pl, L, t, p), p + NodeSize <= sz
  PROVE  Room(Append(pl, p), sz, L + 1)
<1> DEFINE ql == Append(pl, p)
<1>1. pl \in Seq(Nat) /\ Len(pl) = L /\ p \in Nat /\ p >= 2 /\ p % 2 = 0 /\ NodeSize \in Nat
      /\ sz \in Nat /\ sz % 2 = 0
  BY NodeSizeType DEF Room, Free
<1>2. ql \in Seq(Nat) /\ Len(ql) = L + 1 /\ ql[L + 1] = p /\ \A s \in 1..L : ql[s] = pl[s]
  BY <1>1
<1> HIDE DEF ql
<1>3. ASSUME NEW s \in 1..(L + 1)
      PROVE  ql[s] \in Nat /\ ql[s] % 2 = 0 /\ ql[s] >= 2 /\ ql[s] + NodeSize <= sz
  <2>1. CASE s = L + 1
    BY <1>1, <1>2, <2>1
  <2>2. CASE s \in 1..L
    BY <1>2, <2>2 DEF Room
  <2>q. QED
    BY <2>1, <2>2
<1>4. ASSUME NEW s \in 1..(L + 1), NEW v \in 1..(L + 1), s # v PROVE Apart(ql[s], ql[v])
  <2>1. CASE s \in 1..L /\ v \in 1..L
    BY <1>2, <1>4, <2>1 DEF Room
  <2>2. CASE s = L + 1 \/ v = L + 1
    <3>1. \A w \in 1..L : pl[w] + NodeSize <= p
      BY DEF Free
    <3>q. QED
      BY <1>2, <1>4, <2>2, <3>1 DEF Apart
  <2>q. QED
    BY <2>1, <2>2
<1>5. ql[1] = 2
  <2>1. CASE L = 0
    BY <1>2, <2>1 DEF Free
  <2>2. CASE L # 0
    BY <1>2, <2>2 DEF Room
  <2>q. QED
    BY <2>1, <2>2
<1>q. QED
  BY <1>1, <1>2, <1>3, <1>4, <1>5 DEF Room, ql
-----------------------------------------------------------------------------
(* The invariant *)

\* The words of the node being written that are on disk.
Progress == IF at = 0 THEN 0 ELSE Flushed(Len(out))

Laid ==
  /\ Room(places, size, Len(nodes))
  /\ HeaderAt(file, size, places, header)
  /\ NodesAt(file, places, nodes, Target, Progress, Written)
Underway ==
  /\ at = 0 => calls = 0 /\ out = <<>>
  /\ at # 0 => Writes /\ Free(places, Len(nodes), Target, at) /\ Given(out, calls, places, Written)
WordsSound == Laid /\ Underway

LEMMA WordsInit == WInit => WordsSound
<1> SUFFICES ASSUME WInit PROVE WordsSound
  OBVIOUS
<1> DEFINE L == Len(nodes)
<1>1. /\ Init /\ places = [s \in 1..L |-> WordOf(s)] /\ at = 0 /\ calls = 0 /\ out = <<>>
      /\ size = IF exists THEN WordOf(L + 1) ELSE 0
      /\ file = [g \in 0..(size - 1) |-> IF g < 2 THEN LongOf(header)[g + 1]
                                         ELSE NodeWord(nodes[(g - 2) \div NodeSize + 1], (g - 2) % NodeSize)]
  BY DEF WInit
<1>2. /\ nodes \in Seq(Node) /\ L \in Nat /\ (~exists => L = 0 /\ header = 0)
  <2>1. nodes \in Seq(Node)
    BY <1>1, InitSound DEF TypeOK
  <2>2. ~exists => header = 0 /\ nodes = <<>>
    BY <1>1, Zenon DEF Init
  <2>q. QED
    BY <2>1, <2>2
<1>3. /\ WordOf(L + 1) \in Nat /\ WordOf(L + 1) >= 2 /\ WordOf(L + 1) % 2 = 0
      /\ \A s \in 1..L : WordOf(s) \in Nat /\ WordOf(s) % 2 = 0 /\ WordOf(s) >= 2 /\ WordOf(s) + NodeSize <= WordOf(L + 1)
  <2>1. ASSUME NEW s \in 1..(L + 1) PROVE WordOf(s) \in Nat /\ WordOf(s) >= 2 /\ WordOf(s) % 2 = 0
    <3>1. s - 1 \in Nat
      BY <1>2
    <3>2. PICK h \in Nat : NodeSize = 2 * h
      <4>1. PICK n \in Nat : n = NodeSize /\ n % 2 = 0
        BY NodeSizeType
      <4>2. n = 2 * (n \div 2) /\ n \div 2 \in Nat
        BY <4>1
      <4>q. QED
        BY <4>1, <4>2
    <3>3. PICK z \in Nat : z = h * (s - 1) /\ NodeSize * (s - 1) = 2 * z
      BY <3>1, <3>2
    <3>q. QED
      BY <3>3 DEF WordOf
  <2>2. ASSUME NEW s \in 1..L PROVE WordOf(s) + NodeSize <= WordOf(L + 1)
    <3>1. L + 1 \in Nat /\ s \in 1..(L + 1) /\ L + 1 \in 1..(L + 1) /\ s # L + 1
      BY <1>2
    <3>2. WordOf(L + 1) + NodeSize <= WordOf(s) \/ WordOf(s) + NodeSize <= WordOf(L + 1)
      BY <3>1, WordApart, Zenon
    <3>3. WordOf(s) <= WordOf(L + 1)
      <4>1. NodeSize * (s - 1) <= NodeSize * L /\ NodeSize * (s - 1) \in Nat /\ NodeSize * L \in Nat
        BY <1>2, NodeSizeType
      <4>q. QED
        BY <1>2, <4>1 DEF WordOf
    <3>q. QED
      BY <2>1, <3>1, <3>2, <3>3, NodeSizeType
  <2>q. QED
    BY <1>2, <2>1, <2>2
<1>4. places \in Seq(Nat) /\ Len(places) = L /\ \A s \in 1..L : places[s] = WordOf(s)
  BY <1>1, <1>2, <1>3
<1>5. Room(places, size, L)
  <2>1. size \in Nat /\ size % 2 = 0 /\ (L # 0 => size = WordOf(L + 1))
    BY <1>1, <1>2, <1>3
  <2>2. \A s \in 1..L, t \in 1..L : s # t => Apart(places[s], places[t])
    BY <1>2, <1>4, WordApart DEF Apart
  <2>3. L # 0 => places[1] = 2
    BY <1>2, <1>4, NodeSizeType DEF WordOf
  <2>4. \A s \in 1..L : places[s] \in Nat /\ places[s] % 2 = 0 /\ places[s] >= 2 /\ places[s] + NodeSize <= size
    <3>1. \A s \in 1..L : size = WordOf(L + 1)
      BY <1>2, <2>1
    <3>q. QED
      BY <1>3, <1>4, <3>1
  <2> HIDE DEF L
  <2>q. QED
    BY <1>4, <2>1, <2>2, <2>3, <2>4 DEF Room
<1> DEFINE word(g) == IF g < 2 THEN LongOf(header)[g + 1]
                      ELSE NodeWord(nodes[(g - 2) \div NodeSize + 1], (g - 2) % NodeSize)
<1>6. \A g \in 0..(size - 1) : file[g] = word(g)
  <2>1. file = [g \in 0..(size - 1) |-> word(g)]
    BY <1>1
  <2> HIDE DEF word
  <2>q. QED
    BY <2>1
<1>7. HeaderAt(file, size, places, header)
  <2>1. CASE ~exists
    BY <1>1, <1>2, <2>1 DEF HeaderAt, Header
  <2>2. CASE exists
    <3>1. 0 \in 0..(size - 1) /\ 1 \in 0..(size - 1) /\ size # 0
      BY <1>1, <1>3, <2>2
    <3>2. file[0] = LongOf(header)[1] /\ file[1] = LongOf(header)[2]
      BY <1>6, <3>1
    <3>q. QED
      BY <3>1, <3>2, InPlaces DEF HeaderAt
  <2>q. QED
    BY <2>1, <2>2
<1>8. ASSUME NEW u, NEW e PROVE NodesAt(file, places, nodes, u, 0, e)
  <2>1. ASSUME NEW s \in 1..L, NEW i \in 0..(NodeSize - 1)
        PROVE  file[places[s] + i] = WordIn(places, nodes[s], i) /\ ~(i < 0)
    <3>1. PICK g : g = WordOf(s) + i
      OBVIOUS
    <3>2. /\ g \in 0..(WordOf(L + 1) - 1) /\ ~(g < 2)
          /\ (g - 2) \div NodeSize + 1 = s /\ (g - 2) % NodeSize = i
      BY <1>2, <3>1, WordPlace
    <3>3. size = WordOf(L + 1)
      BY <1>1, <1>2
    <3>4. file[g] = NodeWord(nodes[s], i)
      <4>1. file[g] = word(g)
        BY <1>6, <3>2, <3>3
      <4>2. word(g) = NodeWord(nodes[s], i)
        BY <3>2
      <4> HIDE DEF word
      <4>q. QED
        BY <4>1, <4>2
    <3>5. NodeWord(nodes[s], i) = WordIn(places, nodes[s], i)
      BY InPlaces
    <3>q. QED
      BY <1>4, <3>1, <3>4, <3>5, NodeSizeType
  <2> HIDE DEF word
  <2>q. QED
    BY <2>1 DEF NodesAt
<1>q. QED
  BY <1>1, <1>5, <1>7, <1>8, Zenon DEF WordsSound, Laid, Underway, Progress

\* Between the writes the node that would be written does not matter.
LEMMA Settled ==
  ASSUME at' = 0, calls' = 0, out' = <<>>,
         Room(places', size', Len(nodes')), HeaderAt(file', size', places', header'),
         NodesAt(file', places', nodes', Target', 0, Written')
  PROVE  WordsSound'
BY Zenon DEF WordsSound, Laid, Underway, Progress

\* The node stays the same from the fseek to the last fwrite.
LEMMA SameWrite ==
  ASSUME UNCHANGED vars
  PROVE  (Writes <=> Writes') /\ Target' = Target /\ Written' = Written
BY DEF vars, disk, globals, command, search, split, Writes, Target, Written, Parent, LeftOffset, Slots

LEMMA SeekSound ==
  ASSUME Order >= 3, TypeOK, OffsetsSound, WordsSound, Seek
  PROVE  WordsSound'
<1>1. /\ at = 0 /\ Writes /\ UNCHANGED <<vars, words, calls, out>>
      /\ at' = IF Target \in Slots THEN places[Target] ELSE IF root_offset = NoOffset THEN 2 ELSE size
  BY DEF Seek
<1>2. UNCHANGED <<file, size, places, nodes, header>> /\ calls' = 0 /\ out' = <<>>
  BY <1>1 DEF vars, disk, words, WordsSound, Underway
<1>3. Writes' /\ Target' = Target /\ Written' = Written
  BY <1>1, SameWrite
<1>4. /\ nodes \in Seq(Node) /\ Len(nodes) \in Nat
      /\ Target \in Slots \/ Target = Len(nodes) + 1
      /\ root_offset = NoOffset => Target = 1
      /\ root_offset # NoOffset => nodes # <<>>
  BY <1>1, WrittenSound
<1> DEFINE L == Len(nodes)
<1>5. Room(places, size, L) /\ HeaderAt(file, size, places, header)
      /\ NodesAt(file, places, nodes, Target, 0, Written)
  BY <1>1 DEF WordsSound, Laid, Progress
<1>6. Free(places, L, Target, at')
  <2>1. CASE Target \in Slots
    BY <1>1, <1>5, <2>1 DEF Free, Room, Slots
  <2>2. CASE Target \notin Slots /\ root_offset = NoOffset
    <3>1. L = 0 /\ at' = 2
      BY <1>1, <1>4, <2>2 DEF Slots
    <3>q. QED
      BY <1>4, <2>2, <3>1 DEF Free, Slots
  <2>3. CASE Target \notin Slots /\ root_offset # NoOffset
    <3>1. L # 0 /\ at' = size /\ Target = L + 1
      BY <1>1, <1>4, <2>3 DEF Slots
    <3>2. size \in Nat /\ size % 2 = 0 /\ size >= 2 /\ \A s \in 1..L : places[s] + NodeSize <= size
      <4>1. 1 \in 1..L
        BY <1>4, <3>1
      <4>q. QED
        BY <1>5, <4>1, NodeSizeType DEF Room
    <3>q. QED
      BY <3>1, <3>2, <1>4 DEF Free
  <2>q. QED
    BY <2>1, <2>2, <2>3
<1>7. Flushed(0)' = 0 /\ Len(<<>>) = 0
  <2>1. at' \in Nat /\ at' >= 2 /\ at' % 2 = 0
    BY <1>6 DEF Free
  <2>2. FlushedFrom(at', 0) \in Nat /\ (FlushedFrom(at', 0) = 0 \/ FlushedFrom(at', 0) < 0)
    BY <2>1, FlushedSome
  <2>3. Flushed(0)' = FlushedFrom(at', 0)
    BY DEF Flushed, FlushedFrom
  <2>q. QED
    BY <2>2, <2>3
<1>8. Given(<<>>, 0, places, Written)
  <2>1. GivenBy(0) = 0 /\ 0 \in 0..(2 * Order) /\ <<>> \in Seq(Int) /\ Len(<<>>) = 0
    BY NodeSizeType DEF GivenBy
  <2>q. QED
    BY <2>1 DEF Given
<1>9. Progress' = 0
  BY <1>2, <1>7 DEF Progress
<1>10. at' # 0
  BY <1>6 DEF Free
<1> HIDE DEF L
<1>q. QED
  BY <1>2, <1>3, <1>5, <1>6, <1>8, <1>9, <1>10 DEF WordsSound, Laid, Underway, L
-----------------------------------------------------------------------------
(* The steps *)

LEMMA Underwrite ==
  ASSUME Order >= 3, TypeOK, OffsetsSound, WordsSound, at # 0
  PROVE  /\ Writes /\ Free(places, Len(nodes), Target, at) /\ Given(out, calls, places, Written)
         /\ at \in Nat /\ at >= 2 /\ at % 2 = 0 /\ out \in Seq(Int) /\ Len(out) \in 0..NodeSize
         /\ nodes \in Seq(Node) /\ Written \in Node /\ Len(nodes) \in Nat
         /\ Room(places, size, Len(nodes)) /\ places \in Seq(Nat) /\ Len(places) = Len(nodes)
         /\ size \in Nat /\ size % 2 = 0
         /\ \A j \in 1..Order : Written.kids[j] \in 1..Len(places) \cup {NoOffset}
         /\ HeaderAt(file, size, places, header)
         /\ NodesAt(file, places, nodes, Target, Flushed(Len(out)), Written)
<1>1. /\ Writes /\ Free(places, Len(nodes), Target, at) /\ Given(out, calls, places, Written)
      /\ Room(places, size, Len(nodes)) /\ HeaderAt(file, size, places, header)
      /\ NodesAt(file, places, nodes, Target, Flushed(Len(out)), Written)
  BY DEF WordsSound, Underway, Laid, Progress
<1>2. /\ nodes \in Seq(Node) /\ Written \in Node
      /\ \A j \in 1..Order : Written.kids[j] \in Slots \cup {NoOffset}
  BY <1>1, WrittenSound
<1>3. places \in Seq(Nat) /\ Len(places) = Len(nodes) /\ size \in Nat /\ size % 2 = 0
  BY <1>1 DEF Room
<1>4. at \in Nat /\ at >= 2 /\ at % 2 = 0
  BY <1>1 DEF Free
<1>5. out \in Seq(Int) /\ Len(out) \in 0..NodeSize
  BY <1>1, AllGiven DEF Given
<1>q. QED
  BY <1>1, <1>2, <1>3, <1>4, <1>5 DEF Slots

LEMMA FlushedIs == ASSUME NEW n PROVE Flushed(n) = FlushedFrom(at, n)
BY DEF Flushed, FlushedFrom

\* What the place is given up to some word is on disk.
LEMMA FwriteSound ==
  ASSUME Order >= 3, TypeOK, OffsetsSound, WordsSound, Fwrite
  PROVE  WordsSound'
<1> DEFINE n == Flushed(Len(out'))
           k == Flushed(Len(out))
           ws == SubSeq(out', 1, n)
           L == Len(nodes)
<1>1. /\ at # 0 /\ calls < Len(Fwrites(Written)) /\ calls' = calls + 1
      /\ out' = out \o Fwrites(Written)[calls + 1]
      /\ Put(at, ws) /\ UNCHANGED <<vars, places, at>>
  BY DEF Fwrite
<1>2. UNCHANGED <<places, nodes, header, at>> /\ (Writes' <=> Writes) /\ Target' = Target /\ Written' = Written
  BY <1>1, SameWrite DEF vars, disk
<1>3. Given(out', calls', places, Written)
  BY <1>1, Underwrite, GivesNext
<1>4. out' \in Seq(Int) /\ Len(out') \in 0..NodeSize /\ Len(out) \in Nat /\ Len(out) <= Len(out')
  <2>1. out' \in Seq(Int) /\ Len(out') \in 0..NodeSize
    BY <1>3, AllGiven DEF Given
  <2>2. Len(out) = GivenBy(calls) /\ Len(out') = GivenBy(calls + 1) /\ calls \in Nat /\ Len(out) \in Nat
    BY <1>1, <1>3, Underwrite, NodeSizeType DEF Given
  <2>q. QED
    BY <2>1, <2>2, NodeSizeType DEF GivenBy
<1>5. n \in Nat /\ n % 2 = 0 /\ (n = 0 \/ n < Len(out')) /\ k \in Nat /\ k <= n
  <2>1. at \in Nat /\ at >= 2 /\ at % 2 = 0 /\ Len(out') \in Nat
    BY <1>1, <1>4, Underwrite
  <2>2. n = FlushedFrom(at, Len(out')) /\ k = FlushedFrom(at, Len(out))
    BY FlushedIs
  <2> HIDE DEF n, k
  <2>3. n \in Nat /\ n % 2 = 0 /\ (n = 0 \/ n < Len(out')) /\ k \in Nat
    BY <1>4, <2>1, <2>2, FlushedSome
  <2>4. k <= n
    BY <1>4, <2>1, <2>2, FlushedPart
  <2>q. QED
    BY <2>3, <2>4
<1> HIDE DEF n, k
<1>6. ws \in Seq(Int) /\ Len(ws) = n /\ n <= NodeSize /\ \A i \in 0..(Len(ws) - 1) : ws[i + 1] = WordIn(places, Written, i)
  <2>1. n <= Len(out')
    BY <1>4, <1>5
  <2>2. ws \in Seq(Int) /\ Len(ws) = n /\ \A i \in 1..n : ws[i] = out'[i]
    BY <1>4, <1>5, <2>1
  <2>3. \A i \in 0..(n - 1) : i + 1 \in 1..n /\ out'[i + 1] = WordIn(places, Written, i)
    <3>1. Len(out') = GivenBy(calls') /\ \A i \in 0..(GivenBy(calls') - 1) : out'[i + 1] = WordIn(places, Written, i)
      BY <1>3 DEF Given
    <3>2. \A i \in 0..(n - 1) : i \in 0..(Len(out') - 1) /\ i + 1 \in 1..n
      BY <1>4, <1>5, <2>1
    <3>q. QED
      BY <3>1, <3>2
  <2>4. n <= NodeSize
    BY <1>4, <1>5, <2>1, NodeSizeType
  <2> HIDE DEF ws
  <2>q. QED
    BY <2>2, <2>3, <2>4
<1> HIDE DEF ws
<1>7. Stored(file, size, file', size', at, ws)
  BY <1>1, <1>6, Underwrite, PutStores
<1>8. Room(places, size', L)
  BY <1>1, <1>5, <1>6, <1>7, Underwrite, RoomStays
<1>9. HeaderAt(file', size', places, header)
  BY <1>1, <1>6, <1>7, Underwrite, HeaderStays
<1>10. NodesAt(file', places, nodes, Target, n, Written)
  <2>1. NodesAt(file, places, nodes, Target, k, Written)
    BY <1>1, Underwrite DEF k
  <2>2. NodesAt(file', places, nodes, Target, Len(ws), Written)
    BY <1>1, <1>5, <1>6, <1>7, <2>1, Underwrite, NodesStay
  <2>q. QED
    BY <1>6, <2>2
<1>11. Progress' = n
  BY <1>1 DEF Progress, n, Flushed
<1>12. Writes /\ Free(places, L, Target, at) /\ at # 0
  BY <1>1, Underwrite
<1>q. QED
  BY <1>2, <1>3, <1>8, <1>9, <1>10, <1>11, <1>12 DEF WordsSound, Laid, Underway

LEMMA WriteEndsSound ==
  ASSUME Order >= 3, TypeOK, OffsetsSound, WordsSound, WriteEnds
  PROVE  WordsSound'
<1> DEFINE L == Len(nodes)
<1>1. /\ at # 0 /\ calls = Len(Fwrites(Written)) /\ Put(at, out)
      /\ places' = IF Target \in Slots THEN places ELSE Append(places, at)
      /\ at' = 0 /\ calls' = 0 /\ out' = <<>>
      /\ AddRoot \/ SplitLeft \/ SplitRight \/ LinkParent \/ NewRoot
  BY DEF WriteEnds, NotWriting
<1>0. /\ at \in Nat /\ at >= 2 /\ at % 2 = 0 /\ out \in Seq(Int) /\ Len(out) \in 0..NodeSize
      /\ nodes \in Seq(Node) /\ Written \in Node /\ Room(places, size, L) /\ Free(places, L, Target, at)
  BY <1>1, Underwrite
<1>2. Len(out) = NodeSize /\ NodeSize % 2 = 0 /\ NodeSize \in Nat \ {0}
      /\ \A i \in 0..(NodeSize - 1) : out[i + 1] = WordIn(places, Written, i)
  <2>1. Given(out, calls, places, Written)
    BY <1>1, Underwrite
  <2>2. Len(out) = NodeSize
    BY <1>1, <2>1, AllGiven
  <2>q. QED
    BY <2>1, <2>2, NodeSizeType DEF Given
<1>3. Stored(file, size, file', size', at, out)
  BY <1>1, Underwrite, PutStores
<1>4. NodesAt(file', places, nodes, Target, NodeSize, Written)
  <2>1. Flushed(Len(out)) \in Nat /\ Flushed(Len(out)) <= Len(out)
    <3>1. FlushedFrom(at, Len(out)) \in Nat /\ FlushedFrom(at, Len(out)) <= Len(out)
      <4>1. PICK n \in Nat : n = Len(out)
        BY <1>2
      <4>2. FlushedFrom(at, n) \in Nat /\ (FlushedFrom(at, n) = 0 \/ FlushedFrom(at, n) < n)
        BY <1>0, FlushedSome
      <4>q. QED
        BY <4>1, <4>2
    <3>q. QED
      BY <3>1, FlushedIs
  <2>2. PICK k : k = Flushed(Len(out))
    OBVIOUS
  <2>3. NodesAt(file, places, nodes, Target, k, Written) /\ k \in Nat /\ k <= Len(out)
    BY <1>1, <2>1, <2>2, Underwrite
  <2>4. NodesAt(file', places, nodes, Target, Len(out), Written)
    <3>1. Len(out) <= NodeSize /\ \A i \in 0..(Len(out) - 1) : out[i + 1] = WordIn(places, Written, i)
      BY <1>0, <1>2
    <3> HIDE DEF L
    <3>2. Room(places, size, Len(nodes)) /\ Free(places, Len(nodes), Target, at)
      BY <1>0 DEF L
    <3>q. QED
      BY <1>0, <1>3, <2>3, <3>1, <3>2, NodesStay
  <2>q. QED
    BY <1>2, <2>4
<1>5. Room(places, size', L)
  BY <1>1, <1>2, <1>3, Underwrite, RoomStays
<1>6. HeaderAt(file', size', places, header)
  BY <1>1, <1>3, Underwrite, HeaderStays
<1>7. header' = header /\ NodeWritten
  BY <1>1, Underwrite, WriteStep
<1>8. CASE Target \in Slots
  <2>1. nodes' = [nodes EXCEPT ![Target] = Written] /\ places' = places /\ Len(nodes') = L
    <3>1. Len([nodes EXCEPT ![Target] = Written]) = L
      BY <1>0
    <3>q. QED
      BY <1>1, <1>7, <1>8, <3>1 DEF NodeWritten
  <2>2. NodesAt(file', places, [nodes EXCEPT ![Target] = Written], Target', 0, Written')
    BY <1>1, <1>4, <1>8, Underwrite, NodesDone DEF Slots
  <2>q. QED
    BY <1>1, <1>5, <1>6, <1>7, <2>1, <2>2, Settled
<1>9. CASE Target \notin Slots
  <2> DEFINE pl == Append(places, at)
  <2>1. nodes' = Append(nodes, Written) /\ places' = pl /\ Len(nodes') = L + 1
    BY <1>1, <1>7, <1>9, Underwrite DEF NodeWritten
  <2>2. Room(pl, size', L + 1)
    <3>1. at + NodeSize <= size' /\ Free(places, L, Target, at) /\ Target \notin 1..L
      <4>1. out # <<>>
        BY <1>2
      <4>q. QED
        BY <1>1, <1>2, <1>3, <1>9, <4>1, Underwrite DEF Stored, Slots
    <3>q. QED
      BY <1>1, <1>5, <3>1, Underwrite, RoomAppended
  <2>3. HeaderAt(file', size', pl, header)
    <3>1. header = NoOffset \/ header = Header \/ header \in 1..L
      BY DEF OffsetsSound, RootSound, Slots
    <3>2. header \in 1..L => pl[header] = places[header]
      BY <1>1, Underwrite
    <3> HIDE DEF pl
    <3>3. LongIn(pl, header) = LongIn(places, header)
      BY <3>1, <3>2 DEF LongIn
    <3>q. QED
      BY <1>6, <3>3 DEF HeaderAt
  <2>4. NodesAt(file', pl, Append(nodes, Written), Target', 0, Written')
    <3>1. NodesAt(file', places, nodes, 0, 0, Written)
      <4>1. Target \notin 1..L
        BY <1>9 DEF Slots
      <4>q. QED
        BY <1>4, <4>1, NodesIdle
    <3>2. \A i \in 0..(NodeSize - 1) : file'[at + i] = WordIn(places, Written, i)
      BY <1>2, <1>3 DEF Stored
    <3>3. /\ \A s \in 1..L, j \in 1..Order : nodes[s].kids[j] \in 1..L \cup {NoOffset}
          /\ \A j \in 1..Order : Written.kids[j] \in 1..L \cup {NoOffset}
      BY <1>1, Underwrite DEF OffsetsSound, NodesSound, Kid, Slots
    <3>q. QED
      BY <1>1, <3>1, <3>2, <3>3, Underwrite, NodesAppended
  <2> HIDE DEF pl
  <2>q. QED
    BY <1>1, <1>7, <2>1, <2>2, <2>3, <2>4, Settled
<1>q. QED
  BY <1>8, <1>9

\* The words a kill finds on disk are those of the node BTree cuts.
LEMMA CutStep ==
  ASSUME Order >= 3, TypeOK, OffsetsSound, WordsSound, KillWriting
  PROVE  /\ header' = header /\ [Next]_vars
         /\ \/ nodes' = nodes /\ (Target \notin Slots \/ Flushed(Len(out)) = 0)
            \/ \E c \in Cuts : /\ c = Flushed(Len(out)) /\ Cut(c) /\ Target \in Slots
                               /\ nodes' = [nodes EXCEPT ![Target] = Torn(nodes[Target], Written, c)]
                               /\ Torn(nodes[Target], Written, c) \in Node
<1> DEFINE c == Flushed(Len(out))
<1>1. /\ at # 0
      /\ \/ Target \in Slots /\ c # 0 /\ KillInWrite(c)
         \/ ~(Target \in Slots /\ c # 0) /\ Kill
  BY DEF KillWriting
<1>2. CASE ~(Target \in Slots /\ c # 0) /\ Kill
  BY <1>2 DEF Kill, disk, Next
<1>3. CASE Target \in Slots /\ c # 0 /\ KillInWrite(c)
  <2>0. /\ at \in Nat /\ at >= 2 /\ at % 2 = 0 /\ Len(out) \in 0..NodeSize /\ NodeSize \in Nat
        /\ nodes \in Seq(Node) /\ Writes
    BY <1>1, Underwrite, NodeSizeType
  <2>1. Cut(c)
    <3>1. PICK n \in Nat : n = Len(out) /\ n <= NodeSize
      BY <2>0
    <3>2. /\ FlushedFrom(at, n) \in Nat /\ FlushedFrom(at, n) % 2 = 0
          /\ FlushedFrom(at, n) = 0 \/ FlushedFrom(at, n) < n
      BY <2>0, FlushedSome
    <3>3. c = FlushedFrom(at, n)
      BY <3>1, FlushedIs
    <3> HIDE DEF c
    <3>4. c \in Nat /\ c % 2 = 0 /\ c < n /\ c # 0
      BY <1>3, <3>2, <3>3
    <3>q. QED
      BY <2>0, <3>1, <3>4 DEF Cut
  <2>2. c \in Cuts
    BY <2>1, BlockAssumption DEF Cut, NodeSize
  <2> HIDE DEF c
  <2>3. header' = header /\ nodes' = [nodes EXCEPT ![Target] = Torn(nodes[Target], Written, c)]
    <3>1. CASE pc = "answer"
      <4>1. Target = 1 /\ Written = RootOf(key)
        BY <3>1 DEF Target, Written
      <4>q. QED
        BY <1>3, <3>1, <4>1 DEF KillInWrite, write_node_at_offset
    <3>2. CASE pc = "split"
      <4>1. Target = LeftOffset /\ Written = LeftOf(aux)
        BY <3>2 DEF Target, Written
      <4>q. QED
        BY <1>3, <3>2, <4>1 DEF KillInWrite, write_node_at_offset
    <3>3. CASE pc = "link"
      <4>1. Target = next_parent /\ Written = Narrowed(Parent)
        BY <3>3 DEF Target, Written
      <4>q. QED
        BY <1>3, <3>3, <4>1 DEF KillInWrite, write_node_at_offset
    <3>q. QED
      BY <1>3, <3>1, <3>2, <3>3 DEF KillInWrite
  <2>4. Torn(nodes[Target], Written, c) \in Node
    <3>1. nodes' \in Seq(Node)
      BY <1>3, <2>2, KillInWriteSound DEF TypeOK
    <3>2. PICK nd : nd = Torn(nodes[Target], Written, c)
      OBVIOUS
    <3>3. nodes' = [nodes EXCEPT ![Target] = nd] /\ Target \in 1..Len(nodes)
      BY <1>3, <2>3, <3>2 DEF Slots
    <3>4. nodes'[Target] = nd /\ Len(nodes') = Len(nodes)
      BY <2>0, <3>3
    <3>5. nodes'[Target] \in Node
      BY <3>1, <3>3, <3>4
    <3>q. QED
      BY <3>2, <3>4, <3>5
  <2>5. Next
    BY <1>3, <2>2 DEF Next
  <2>q. QED
    BY <1>3, <2>1, <2>2, <2>3, <2>4, <2>5 DEF c
<1>q. QED
  BY <1>1, <1>2, <1>3

LEMMA KillWritingSound ==
  ASSUME Order >= 3, TypeOK, OffsetsSound, WordsSound, KillWriting
  PROVE  WordsSound'
<1>1. at # 0 /\ at' = 0 /\ calls' = 0 /\ out' = <<>> /\ UNCHANGED <<file, size, places>>
  BY DEF KillWriting, NotWriting, words
<1>2. /\ nodes \in Seq(Node) /\ Room(places, size, Len(nodes)) /\ HeaderAt(file, size, places, header)
      /\ NodesAt(file, places, nodes, Target, Flushed(Len(out)), Written)
  BY <1>1, Underwrite
<1>3. header' = header
  BY CutStep
<1>4. CASE nodes' = nodes /\ (Target \notin Slots \/ Flushed(Len(out)) = 0)
  <2>1. PICK k : k = Flushed(Len(out))
    OBVIOUS
  <2>2. NodesAt(file, places, nodes, Target, k, Written) /\ (k = 0 \/ Target \notin 1..Len(nodes))
    BY <1>2, <1>4, <2>1 DEF Slots
  <2>3. NodesAt(file, places, nodes, Target', 0, Written')
    BY <2>2, NodesIdle
  <2>q. QED
    BY <1>1, <1>2, <1>3, <1>4, <2>3, Settled
<1>5. ASSUME NEW c \in Cuts, c = Flushed(Len(out)), Cut(c), Target \in Slots,
             nodes' = [nodes EXCEPT ![Target] = Torn(nodes[Target], Written, c)],
             Torn(nodes[Target], Written, c) \in Node
      PROVE  WordsSound'
  <2>1. NodesAt(file, places, nodes, Target, c, Written) /\ Target \in 1..Len(nodes)
    BY <1>2, <1>5 DEF Slots
  <2>2. NodesAt(file, places, [nodes EXCEPT ![Target] = Torn(nodes[Target], Written, c)], Target', 0, Written')
    BY <1>2, <1>5, <2>1, NodesCut
  <2>3. Len(nodes') = Len(nodes)
    <3>1. PICK nd : nd = Torn(nodes[Target], Written, c)
      OBVIOUS
    <3>q. QED
      BY <1>2, <1>5, <3>1
  <2>q. QED
    BY <1>1, <1>2, <1>3, <1>5, <2>2, <2>3, Settled
<1>q. QED
  BY <1>4, <1>5, CutStep

LEMMA WriteHeaderSound ==
  ASSUME Order >= 3, TypeOK, OffsetsSound, WordsSound, WriteHeader
  PROVE  WordsSound'
<1> DEFINE L  == Len(nodes)
           ws == LongOf(root_offset)
<1>1. /\ at = 0 /\ header' = root_offset /\ nodes' = nodes /\ Put(0, ws)
      /\ places' = places /\ at' = 0 /\ calls' = calls /\ out' = out
  BY DEF WriteHeader, End, fin
<1>2. /\ calls = 0 /\ out = <<>> /\ Room(places, size, L)
      /\ NodesAt(file, places, nodes, Target, 0, Written)
  BY <1>1 DEF WordsSound, Underway, Laid, Progress
<1>3. size \in Nat /\ L \in Nat /\ nodes \in Seq(Node)
  BY <1>2, SlotsType DEF Room, TypeOK
<1>4. ws \in Seq(Int) /\ Len(ws) = 2 /\ ws # <<>> /\ ws = LongIn(places, root_offset)
  <2>1. root_offset = NoOffset \/ root_offset = Header \/ root_offset \in 1..L
    BY DEF OffsetsSound, RootSound, Slots
  <2>2. root_offset \in 1..L => places[root_offset] \in Nat
    BY <1>2 DEF Room
  <2>3. ws = LongIn(places, root_offset)
    BY InPlaces
  <2>4. \E x \in Int, y \in Int : LongIn(places, root_offset) = <<x, y>>
    BY <2>1, <2>2 DEF LongIn
  <2> HIDE DEF ws
  <2>5. PICK x, y : x \in Int /\ y \in Int /\ ws = <<x, y>>
    BY <2>3, <2>4
  <2>6. Len(<<x, y>>) = 2 /\ <<x, y>> # <<>> /\ <<x, y>> \in Seq(Int)
    BY <2>5
  <2>q. QED
    BY <2>3, <2>5, <2>6
<1> HIDE DEF ws
<1>5. Stored(file, size, file', size', 0, ws)
  BY <1>1, <1>3, <1>4, PutStores
<1>6. Room(places, size', L)
  <2>1. 0 \in Nat /\ 0 % 2 = 0 /\ Len(ws) % 2 = 0
    BY <1>4
  <2>q. QED
    BY <1>2, <1>4, <1>5, <2>1, RoomStays
<1>7. HeaderAt(file', size', places, root_offset)
  <2>1. ws # <<>>
    BY <1>4
  <2>2. size' \in Nat /\ size' >= 2
    BY <1>4, <1>5, <2>1 DEF Stored
  <2>3. file'[0 + 0] = ws[0 + 1] /\ file'[0 + 1] = ws[1 + 1]
    BY <1>4, <1>5 DEF Stored
  <2>q. QED
    BY <1>4, <2>2, <2>3 DEF HeaderAt
<1>8. ASSUME NEW u, NEW e PROVE NodesAt(file', places, nodes, u, 0, e)
  <2>1. ASSUME NEW s \in 1..L, NEW i \in 0..(NodeSize - 1)
        PROVE  file'[places[s] + i] = WordIn(places, nodes[s], i) /\ ~(i < 0)
    <3>1. PICK g \in Nat : g = places[s] + i /\ g >= 2 /\ g < size
      <4>1. places[s] \in Nat /\ places[s] >= 2 /\ places[s] + NodeSize <= size
        BY <1>2 DEF Room
      <4>q. QED
        BY <1>3, <4>1, NodeSizeType
    <3>2. file[g] = WordIn(places, nodes[s], i) /\ ~(i < 0)
      BY <1>2, <3>1, NodeSizeType DEF NodesAt
    <3>3. ~(0 <= g /\ g < 0 + Len(ws))
      BY <1>4, <3>1
    <3>4. file'[g] = file[g]
      BY <1>5, <3>1, <3>3 DEF Stored
    <3>q. QED
      BY <3>1, <3>2, <3>4
  <2>q. QED
    BY <2>1 DEF NodesAt
<1>9. NodesAt(file', places, nodes, Target', 0, Written')
  BY <1>8
<1>q. QED
  BY <1>1, <1>2, <1>6, <1>7, <1>9, Settled

\* The other steps of BTree leave the disk.
LEMMA ElsewhereStep ==
  ASSUME Elsewhere
  PROVE  nodes' = nodes /\ header' = header
<1>1. CASE Open \/ print_tree \/ Eof \/ Kill \/ \E o \in {"add", "find"}, k \in CommandKeys : Command(o, k)
  BY <1>1, Zenon DEF Open, print_tree, Eof, Kill, Command, disk
<1>2. CASE FindEmpty \/ FindOpen \/ OpenFails \/ FindStep \/ Answer \/ StartAdd \/ ParentsOpen \/ DescendNoKeys \/ Descend
  BY <1>2, Zenon DEF FindEmpty, FindOpen, OpenFails, FindStep, Answer, StartAdd, ParentsOpen, DescendNoKeys, Descend, disk
<1>3. CASE insert_in_node \/ add_key_to_tree
  BY <1>3, Zenon DEF insert_in_node, add_key_to_tree, disk
<1>4. CASE pc = "link" /\ Parent.n = Order /\ LinkParent
  <2>1. Parent.n = Order /\ ~(Parent.n <= Order - 1)
    BY <1>4, OrderAssumption
  <2>2. UNCHANGED disk
    BY <1>4, <2>1, Zenon DEF LinkParent
  <2>q. QED
    BY <2>2 DEF disk
<1>q. QED
  BY <1>1, <1>2, <1>3, <1>4 DEF Elsewhere

LEMMA ElsewhereSound ==
  ASSUME WordsSound, Elsewhere
  PROVE  WordsSound'
<1>1. at = 0 /\ nodes' = nodes /\ header' = header
      /\ file' = file /\ size' = size /\ places' = places /\ at' = 0 /\ calls' = calls /\ out' = out
  BY ElsewhereStep DEF Elsewhere, words, fin
<1>2. /\ calls = 0 /\ out = <<>> /\ Room(places, size, Len(nodes)) /\ HeaderAt(file, size, places, header)
      /\ NodesAt(file, places, nodes, Target, 0, Written)
  BY <1>1 DEF WordsSound, Underway, Laid, Progress
<1>3. NodesAt(file, places, nodes, Target', 0, Written')
  BY <1>2, NodesIdle
<1>q. QED
  BY <1>1, <1>2, <1>3, Settled

LEMMA WordsStep ==
  ASSUME Order >= 3, TypeOK, OffsetsSound, WordsSound, [WNext]_wvars
  PROVE  WordsSound' /\ [Next]_vars
<1>1. CASE UNCHANGED wvars
  <2>1. UNCHANGED <<vars, file, size, places, at, calls, out>>
    BY <1>1 DEF wvars, words, fin
  <2>2. UNCHANGED <<nodes, header>> /\ (Writes' <=> Writes) /\ Target' = Target /\ Written' = Written
    BY <2>1, SameWrite DEF vars, disk
  <2>3. Progress' = Progress
    BY <2>1 DEF Progress, Flushed
  <2>q. QED
    BY <2>1, <2>2, <2>3 DEF WordsSound, Laid, Underway
<1>2. CASE Seek
  BY <1>2, SeekSound DEF Seek
<1>3. CASE Fwrite
  BY <1>3, FwriteSound DEF Fwrite
<1>4. CASE WriteEnds
  <2>1. Next
    BY <1>4, Zenon DEF WriteEnds, Next, Serve
  <2>q. QED
    BY <1>4, <2>1, WriteEndsSound
<1>5. CASE KillWriting
  BY <1>5, KillWritingSound, CutStep
<1>6. CASE WriteHeader
  <2>1. Next
    BY <1>6, Zenon DEF WriteHeader, Next
  <2>q. QED
    BY <1>6, <2>1, WriteHeaderSound
<1>7. CASE Elsewhere
  <2>1. Next
    BY <1>7, Zenon DEF Elsewhere, Next, Serve
  <2>q. QED
    BY <1>7, <2>1, ElsewhereSound
<1>q. QED
  BY <1>1, <1>2, <1>3, <1>4, <1>5, <1>6, <1>7 DEF WNext
-----------------------------------------------------------------------------
(* What is read *)

LEMMA NodeParts ==
  ASSUME NEW nd \in Node
  PROVE  /\ nd.n \in 0..(Order - 1) /\ nd.keys \in [1..(Order - 1) -> Int]
         /\ nd.keys = [i \in 1..(Order - 1) |-> nd.keys[i]]
<1>1. nd.n \in 0..(Order - 1) /\ nd.keys \in [1..(Order - 1) -> Int]
  BY DEF Node
<1>q. QED
  BY <1>1

\* The number of keys, the keys and the child offsets of a slot, read from the file.
LEMMA PartsRead ==
  ASSUME WordsSound, at = 0, NEW s \in Slots
  PROVE  /\ file[places[s]] = nodes[s].n
         /\ \A i \in 1..(Order - 1) : file[places[s] + i] = nodes[s].keys[i]
         /\ \A j \in 1..Order : LongAt(file, places[s] + Order + 2 * (j - 1)) = LongOf(nodes[s].kids[j])
<1>1. Order \in Nat /\ Order >= 2 /\ NodeSize = 3 * Order
  BY NodeSizeType
<1>2. PICK f \in Nat : f = places[s]
  BY DEF WordsSound, Laid, Room, Slots
<1>3. PICK nd : nd = nodes[s]
  OBVIOUS
<1>4. ASSUME NEW i \in 0..(NodeSize - 1) PROVE file[f + i] = WordIn(places, nd, i)
  <2>1. ~(i < 0)
    BY <1>1
  <2>q. QED
    BY <1>2, <1>3, <2>1 DEF WordsSound, Laid, Progress, NodesAt, Slots
<1>5. file[f] = nd.n
  <2>1. 0 \in 0..(NodeSize - 1) /\ f + 0 = f
    BY <1>1
  <2>q. QED
    BY <1>4, <2>1, CountWord
<1>6. ASSUME NEW i \in 1..(Order - 1) PROVE file[f + i] = nd.keys[i]
  <2>1. i \in 0..(NodeSize - 1)
    BY <1>1
  <2>q. QED
    BY <1>4, <2>1, KeyWord
<1>7. ASSUME NEW j \in 1..Order PROVE LongAt(file, f + Order + 2 * (j - 1)) = LongOf(nd.kids[j])
  <2> DEFINE g == Order + 2 * (j - 1)
  <2>1. g \in 0..(NodeSize - 1) /\ g + 1 \in 0..(NodeSize - 1) /\ g = g + 0
    BY <1>1
  <2>2. file[f + g] = LongIn(places, nd.kids[j])[0 + 1] /\ file[f + (g + 1)] = LongIn(places, nd.kids[j])[1 + 1]
    <3>1. /\ WordIn(places, nd, g) = LongIn(places, nd.kids[j])[0 + 1]
          /\ WordIn(places, nd, g + 1) = LongIn(places, nd.kids[j])[1 + 1]
      BY <2>1, ChildWord
    <3> HIDE DEF g
    <3>q. QED
      BY <1>4, <2>1, <3>1
  <2>3. f + g = f + Order + 2 * (j - 1) /\ f + (g + 1) = f + Order + 2 * (j - 1) + 1
    BY <1>1
  <2> HIDE DEF g
  <2>4. LongAt(file, f + Order + 2 * (j - 1)) = <<LongIn(places, nd.kids[j])[1], LongIn(places, nd.kids[j])[2]>>
    BY <2>2, <2>3 DEF LongAt
  <2>5. LongIn(places, nd.kids[j]) = <<LongIn(places, nd.kids[j])[1], LongIn(places, nd.kids[j])[2]>>
    BY DEF LongIn
  <2>q. QED
    BY <2>4, <2>5, InPlaces
<1>q. QED
  BY <1>2, <1>3, <1>5, <1>6, <1>7

\* Two nodes that do not overlap have different numbers.
LEMMA NodesApart ==
  ASSUME NEW p \in Nat, NEW q \in Nat, p + 6 <= q
  PROVE  (4 * p) \div 24 # (4 * q) \div 24
<1>1. PICK a \in Nat, b \in 0..23 : 4 * p = 24 * a + b /\ (4 * p) \div 24 = a
  <2>1. 4 * p \in Nat /\ 24 \in Nat \ {0}
    OBVIOUS
  <2>q. QED
    BY <2>1, Quotient
<1>2. PICK c \in Nat, d \in 0..23 : 4 * q = 24 * c + d /\ (4 * q) \div 24 = c
  <2>1. 4 * q \in Nat /\ 24 \in Nat \ {0}
    OBVIOUS
  <2>q. QED
    BY <2>1, Quotient
<1>q. QED
  BY <1>1, <1>2

LEMMA SoundOnDisk ==
  ASSUME TypeOK, OffsetsSound, WordsSound
  PROVE  FileAgrees
<1> SUFFICES ASSUME at = 0
             PROVE  /\ IF size = 0 THEN header = 0 ELSE LongAt(file, 0) = LongOf(header)
                    /\ \A s \in Slots :
                         NodeAt(file, places[s]) = [n |-> nodes[s].n, keys |-> nodes[s].keys,
                                                    kids |-> [i \in 1..Order |-> LongOf(nodes[s].kids[i])]]
                    /\ \A s, t \in Slots : CurrNode(s) = CurrNode(t) => s = t
  BY Zenon DEF FileAgrees
<1>1. IF size = 0 THEN header = 0 ELSE LongAt(file, 0) = LongOf(header)
  <2>1. HeaderAt(file, size, places, header)
    BY DEF WordsSound, Laid
  <2>2. CASE size # 0
    <3>1. file[0] = LongIn(places, header)[1] /\ file[0 + 1] = LongIn(places, header)[2]
      BY <2>1, <2>2 DEF HeaderAt
    <3>2. LongIn(places, header) = <<LongIn(places, header)[1], LongIn(places, header)[2]>>
      BY DEF LongIn
    <3>q. QED
      BY <2>2, <3>1, <3>2, InPlaces DEF LongAt
  <2>q. QED
    BY <2>1, <2>2 DEF HeaderAt, Header
<1>2. ASSUME NEW s \in Slots
      PROVE  NodeAt(file, places[s]) = [n |-> nodes[s].n, keys |-> nodes[s].keys,
                                        kids |-> [i \in 1..Order |-> LongOf(nodes[s].kids[i])]]
  <2>1. nodes[s].keys = [i \in 1..(Order - 1) |-> nodes[s].keys[i]]
    BY SlotsType, NodeParts DEF TypeOK
  <2>2. /\ file[places[s]] = nodes[s].n
        /\ \A i \in 1..(Order - 1) : file[places[s] + i] = nodes[s].keys[i]
        /\ \A j \in 1..Order : LongAt(file, places[s] + Order + 2 * (j - 1)) = LongOf(nodes[s].kids[j])
    BY PartsRead
  <2>3. [i \in 1..(Order - 1) |-> file[places[s] + i]] = [i \in 1..(Order - 1) |-> nodes[s].keys[i]]
    BY <2>2
  <2>4. [j \in 1..Order |-> LongAt(file, places[s] + Order + 2 * (j - 1))] = [j \in 1..Order |-> LongOf(nodes[s].kids[j])]
    BY <2>2
  <2>q. QED
    BY <2>1, <2>2, <2>3, <2>4 DEF NodeAt
<1>3. ASSUME NEW s \in Slots, NEW t \in Slots, s # t PROVE CurrNode(s) # CurrNode(t)
  <2>1. PICK p \in Nat, q \in Nat : p = places[s] /\ q = places[t] /\ Apart(p, q)
    BY <1>3 DEF WordsSound, Laid, Room, Slots
  <2>2. p + 6 <= q \/ q + 6 <= p
    BY <2>1, NodeSizeType DEF Apart
  <2>q. QED
    BY <2>1, <2>2, NodesApart DEF CurrNode
<1>q. QED
  BY <1>1, <1>2, <1>3, Zenon

\* The words from f on are the number n and the keys ks of a node; its scan for k stops at p.
HasKeys(w, f, n, ks) == w[f] = n /\ \A i \in 1..(Order - 1) : w[f + i] = ks[i]
StopsAt(ks, n, k, p) == (p <= n => ks[p] >= k) /\ \A i \in 1..(p - 1) : ks[i] < k
ScanOf(w, f, n, ks, k, p) ==
  /\ n \in 1..(Order - 1) /\ ks \in [1..(Order - 1) -> Int] /\ k \in Int /\ k > Sentinel /\ f \in Int
  /\ HasKeys(w, f, n, ks) /\ p \in 1..(n + 1) /\ StopsAt(ks, n, k, p)
GoesTo(w, f, n, ks, k, p) ==
  /\ Hit(w, f, k) <=> p <= n /\ ks[p] = k
  /\ ChildSeek(w, f, k) = f + Order + 2 * (p - 1)

\* The scan by words stops where Position says, and the seek that follows it ends at the child there.
LEMMA ScanIsPosition ==
  ASSUME NEW w, NEW f, NEW n, NEW ks, NEW k, NEW p, ScanOf(w, f, n, ks, k, p)
  PROVE  GoesTo(w, f, n, ks, k, p)
<1> USE DEF ScanOf, HasKeys, StopsAt, GoesTo
<1>1. Order \in Nat /\ Order >= 2
  BY NodeSizeType
<1>5. Stops(w, f, k) = {r \in 1..n : ks[r] >= k}
  <2>1. 1..n \subseteq 1..(Order - 1)
    BY <1>1
  <2>q. QED
    BY <2>1 DEF Stops
<1>7. CASE p <= n
  <2>1. p \in Stops(w, f, k)
    BY <1>5, <1>7
  <2>2. \A q \in Stops(w, f, k) : q \in 1..n /\ p <= q
    <3> SUFFICES ASSUME NEW q \in 1..n, ks[q] >= k PROVE p <= q
      BY <1>5
    <3>1. ks[q] \in Int
      BY <1>1
    <3>q. QED
      BY <1>1, <3>1
  <2>3. (CHOOSE r \in Stops(w, f, k) : \A q \in Stops(w, f, k) : r <= q) = p
    <3>1. \A r \in Stops(w, f, k) : (\A q \in Stops(w, f, k) : r <= q) => r = p
      BY <2>1, <2>2
    <3>q. QED
      BY <2>1, <2>2, <3>1, Zenon
  <2>4. Scan(w, f, k) = [read |-> p, greatest |-> FALSE]
    <3>1. ~(k <= Sentinel) /\ Stops(w, f, k) # {}
      BY <2>1 DEF Sentinel
    <3>q. QED
      BY <2>3, <3>1, Zenon DEF Scan
  <2>5. Hit(w, f, k) <=> ks[p] = k
    <3>1. w[f + p] = ks[p]
      BY <1>1, <1>7
    <3>q. QED
      BY <2>4, <3>1 DEF Hit
  <2>6. ChildSeek(w, f, k) = f + Order + 2 * (p - 1)
    BY <2>4 DEF ChildSeek
  <2>q. QED
    BY <1>7, <2>5, <2>6
<1>8. CASE p = n + 1
  <2>1. Stops(w, f, k) = {}
    <3> SUFFICES ASSUME NEW r \in 1..n, ks[r] >= k PROVE FALSE
      BY <1>5
    <3>1. ks[r] \in Int /\ ks[r] < k
      BY <1>1, <1>8
    <3>q. QED
      BY <3>1
  <2>2. Scan(w, f, k) = [read |-> n, greatest |-> TRUE]
    BY <2>1 DEF Scan, Sentinel
  <2>3. ~Hit(w, f, k)
    BY <2>2 DEF Hit
  <2>4. ChildSeek(w, f, k) = f + Order + 2 * n
    BY <1>1, <2>2 DEF ChildSeek
  <2>5. n = p - 1 /\ ~(p <= n)
    BY <1>1, <1>8
  <2>q. QED
    BY <2>3, <2>4, <2>5
<1>q. QED
  BY <1>7, <1>8

LEMMA SoundSearch ==
  ASSUME TypeOK, OffsetsSound, WordsSound
  PROVE  SearchAgrees
<1> SUFFICES ASSUME at = 0, NEW s \in Slots, NEW k \in CommandKeys \cup {Sentinel + 1}
             PROVE  LET nd == nodes[s]  p == Position(nd, k)  f == places[s] IN
                    /\ Hit(file, f, k) <=> p <= nd.n /\ nd.keys[p] = k
                    /\ LongAt(file, ChildSeek(file, f, k)) = LongOf(nd.kids[p])
  BY Zenon DEF SearchAgrees
<1>1. nodes \in Seq(Node) /\ s \in 1..Len(nodes) /\ nodes[s].n >= 1
  BY DEF TypeOK, OffsetsSound, NodesSound, Slots
<1>2. k \in Int /\ k > Sentinel
  BY BTreeAssumption DEF Sentinel
<1>o. Order \in Nat /\ Order >= 2
  BY NodeSizeType
<1>n. PICK n \in 1..(Order - 1), ks \in [1..(Order - 1) -> Int] : n = nodes[s].n /\ ks = nodes[s].keys
  <2>1. nodes[s] \in Node
    BY <1>1
  <2>2. /\ nodes[s].n \in 0..(Order - 1) /\ nodes[s].n >= 1
        /\ nodes[s].keys \in [1..(Order - 1) -> Int]
    BY <1>1, <2>1, NodeParts, Zenon
  <2>q. QED
    BY <1>o, <2>2
<1>p. PICK p \in 1..(n + 1) : p = Position(nodes[s], k) /\ StopsAt(ks, n, k, p)
  <2>1. nodes[s].n \in Nat /\ \A i \in 1..nodes[s].n : nodes[s].keys[i] \in Int
    BY <1>o, <1>n
  <2>q. QED
    BY <1>2, <1>n, <2>1, PositionType, Zenon DEF StopsAt
<1>f. PICK f \in Int : f = places[s]
  BY DEF WordsSound, Laid, Room, Slots
<1>r. HasKeys(file, f, n, ks)
  <2>1. file[places[s]] = nodes[s].n /\ \A i \in 1..(Order - 1) : file[places[s] + i] = nodes[s].keys[i]
    BY PartsRead
  <2>q. QED
    BY <1>n, <1>f, <2>1, Zenon DEF HasKeys
<1>3. /\ Hit(file, f, k) <=> p <= n /\ ks[p] = k
      /\ ChildSeek(file, f, k) = f + Order + 2 * (p - 1)
  <2>1. ScanOf(file, f, n, ks, k, p)
    BY <1>2, <1>n, <1>f, <1>r, <1>p, Zenon DEF ScanOf
  <2>2. GoesTo(file, f, n, ks, k, p)
    BY <2>1, ScanIsPosition, Zenon
  <2>q. QED
    BY <2>2, Zenon DEF GoesTo
<1>4. LongAt(file, f + Order + 2 * (p - 1)) = LongOf(nodes[s].kids[p])
  <2>1. p \in 1..Order
    BY <1>o
  <2>q. QED
    BY <1>f, <2>1, PartsRead
<1>q. QED
  <2>1. Hit(file, places[s], k) <=> p <= nodes[s].n /\ nodes[s].keys[p] = k
    BY <1>n, <1>f, <1>3, Zenon
  <2>2. LongAt(file, ChildSeek(file, places[s], k)) = LongOf(nodes[s].kids[p])
    BY <1>f, <1>3, <1>4, Zenon
  <2>q. QED
    BY <1>p, <2>1, <2>2
-----------------------------------------------------------------------------
\* The words stay sound with the types and offsets of BTree, whose steps the writes end in.
LEMMA WordsSoundAlways ==
  ASSUME Order >= 3
  PROVE  WSpec => [](TypeOK /\ OffsetsSound /\ WordsSound)
<1>1. WInit => TypeOK /\ OffsetsSound /\ WordsSound
  BY WordsInit, InitSound DEF WInit
<1>2. TypeOK /\ OffsetsSound /\ WordsSound /\ [WNext]_wvars => (TypeOK /\ OffsetsSound /\ WordsSound)'
  <2> SUFFICES ASSUME TypeOK, OffsetsSound, WordsSound, [WNext]_wvars PROVE (TypeOK /\ OffsetsSound /\ WordsSound)'
    OBVIOUS
  <2>1. WordsSound' /\ [Next]_vars
    BY WordsStep
  <2>q. QED
    BY <2>1, StepSound
<1>q. QED
  BY <1>1, <1>2, PTL DEF WSpec

\* Written fwrite by fwrite, through a buffer of any even number of words, killed between any two
\* of these calls, the process makes the steps of BTree and no other: what BTreeProofs shows of
\* the nodes holds of the file.
THEOREM WordsAreIndex ==
  ASSUME Order >= 3
  PROVE  WSpec => Init /\ [][Next]_vars
<1>1. TypeOK /\ OffsetsSound /\ WordsSound /\ [WNext]_wvars => [Next]_vars
  BY WordsStep
<1>2. WInit => Init
  BY DEF WInit
<1>q. QED
  BY <1>1, <1>2, WordsSoundAlways, PTL DEF WSpec

\* Between the writes, and after kills in any of them, cut in a node or behind the last one, each
\* node on disk is read back as the node it is, the header is there or was never written, and
\* populate_parents (data_structures.c:578) tells all nodes apart.
THEOREM FileAgreesAlways ==
  ASSUME Order >= 3
  PROVE  WSpec => []FileAgrees
<1>1. TypeOK /\ OffsetsSound /\ WordsSound => FileAgrees
  BY SoundOnDisk
<1>q. QED
  BY <1>1, WordsSoundAlways, PTL

\* In every file the program comes to have, killed as it may be, find_key_in_btree and
\* populate_parents reading single ints and longs take the way of the search over nodes, for every
\* key above the sentinel -10.
THEOREM SearchAgreesAlways ==
  ASSUME Order >= 3
  PROVE  WSpec => []SearchAgrees
<1>1. TypeOK /\ OffsetsSound /\ WordsSound => SearchAgrees
  BY SoundSearch
<1>q. QED
  BY <1>1, WordsSoundAlways, PTL
=============================================================================
