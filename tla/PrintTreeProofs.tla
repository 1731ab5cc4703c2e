-------------------------- MODULE PrintTreeProofs ---------------------------
(***************************************************************************)
(* For every order from 3 on: the program with its print command takes no  *)
(* step on the index that BTree does not have, so that all that is proved  *)
(* of BTree holds of it; the global queue of print_tree is empty between   *)
(* prints, holds only offsets that can be read, and is numbered without    *)
(* gaps; and a print that comes to its end has shown the tree level by     *)
(* level.                                                                  *)
(*                                                                         *)
(* The last is by an invariant of the print: a row of nodes of one height  *)
(* is on its way from the queue to the last line, and behind its rest the  *)
(* queue holds the children of what is shown of it.                        *)
(***************************************************************************)
EXTENDS PrintTree, BTreeSearchProofs

-----------------------------------------------------------------------------
(* Steps *)

LEMMA StepsOfIndex ==
  ASSUME [PNext]_pvars
  PROVE  [Next]_vars
<1>1. CASE StartPrint
  BY <1>1, Zenon DEF StartPrint, Next
<1>2. CASE Walk
  BY <1>2, Zenon DEF Walk, PrintNode, PrintOpenFails, PrintReturn
<1>3. CASE Others
  BY <1>3, Zenon DEF Others, Beside, Next
<1>4. CASE Beside(Kill)
  BY <1>4, Zenon DEF Beside, Next
<1>5. CASE UNCHANGED pvars
  BY <1>5, Zenon DEF pvars
<1>q. QED
  BY <1>1, <1>2, <1>3, <1>4, <1>5, Zenon DEF PNext

\* The program with its print command is one that BTree allows (main, print_tree): whatever is
\* printed and wherever a print is killed, the file and the tree go through steps of BTree only.
THEOREM PrintLeavesIndex == PSpec => Init /\ [][Next]_vars
<1>1. PInit => Init
  BY Zenon DEF PInit
<1>2. [PNext]_pvars => [Next]_vars
  BY StepsOfIndex
<1>q. QED
  BY <1>1, <1>2, PTL DEF PSpec
-----------------------------------------------------------------------------
(* The queue *)

Entry == [offset : Int, queue_position : Int]

Numbered(q, pos) == \A i \in 1..Len(q) : q[i].queue_position = pos - Len(q) + i - 1
OffsetsIn(q, S)  == \A i \in 1..Len(q) : q[i].offset \in S

\* Where a child offset of the queue may lie.
Readable == Slots \cup (IF root_offset = Header THEN {Header} ELSE {})

LEMMA EnqueueSound ==
  ASSUME NEW q \in Seq(Entry), queue_position \in Int, NEW kids \in Seq(Int), NEW S,
         Numbered(q, queue_position), OffsetsIn(q, S), \A i \in 1..Len(kids) : kids[i] \in S,
         enqueue(q, kids)
  PROVE  /\ queue' \in Seq(Entry) /\ queue_position' \in Int
         /\ Numbered(queue', queue_position') /\ OffsetsIn(queue', S)
         /\ Len(queue') = Len(q) + Len(kids)
<1> DEFINE more == [i \in 1..Len(kids) |-> [offset |-> kids[i], queue_position |-> queue_position + i - 1]]
<1>1. DOMAIN kids = 1..Len(kids) /\ Len(kids) \in Nat /\ Len(q) \in Nat
  OBVIOUS
<1>2. queue' = q \o more /\ queue_position' = queue_position + Len(kids)
  BY <1>1, Zenon DEF enqueue
<1>3. more \in Seq(Entry) /\ Len(more) = Len(kids)
  BY DEF Entry
<1>4. \A i \in 1..Len(kids) : more[i].offset \in S /\ more[i].queue_position = queue_position + i - 1
  OBVIOUS
<1> HIDE DEF more
<1>5. /\ q \o more \in Seq(Entry) /\ Len(q \o more) = Len(q) + Len(kids)
      /\ \A i \in 1..(Len(q) + Len(kids)) :
           (q \o more)[i] = IF i <= Len(q) THEN q[i] ELSE more[i - Len(q)]
  <2>1. /\ q \o more \in Seq(Entry) /\ Len(q \o more) = Len(q) + Len(more)
        /\ \A i \in 1..(Len(q) + Len(more)) :
             (q \o more)[i] = IF i <= Len(q) THEN q[i] ELSE more[i - Len(q)]
    BY <1>3, ConcatProperties, Zenon
  <2>q. QED
    BY <1>3, <2>1, Zenon
<1>6. ASSUME NEW i \in 1..(Len(q) + Len(kids))
      PROVE  /\ (q \o more)[i].offset \in S
             /\ (q \o more)[i].queue_position = (queue_position + Len(kids)) - (Len(q) + Len(kids)) + i - 1
  <2>1. CASE i <= Len(q)
    <3>1. i \in 1..Len(q) /\ (q \o more)[i] = q[i]
      BY <1>1, <1>5, <2>1
    <3>2. q[i].queue_position = queue_position - Len(q) + i - 1 /\ q[i].offset \in S
      BY <3>1 DEF Numbered, OffsetsIn
    <3>q. QED
      BY <1>1, <3>1, <3>2
  <2>2. CASE ~(i <= Len(q))
    <3>1. i - Len(q) \in 1..Len(kids) /\ (q \o more)[i] = more[i - Len(q)]
      BY <1>1, <1>5, <2>2
    <3>2. /\ more[i - Len(q)].offset \in S
          /\ more[i - Len(q)].queue_position = queue_position + (i - Len(q)) - 1
      BY <1>4, <3>1
    <3>q. QED
      BY <1>1, <3>1, <3>2
  <2>q. QED
    BY <2>1, <2>2
<1>7. /\ Numbered(q \o more, queue_position + Len(kids))
      /\ OffsetsIn(q \o more, S)
  BY <1>5, <1>6, Zenon DEF Numbered, OffsetsIn
<1>8. queue_position + Len(kids) \in Int
  BY <1>1
<1>q. QED
  BY <1>2, <1>5, <1>7, <1>8, Zenon

LEMMA DequeueSound ==
  ASSUME NEW q \in Seq(Entry), q # <<>>, NEW pos \in Int, NEW S, Numbered(q, pos), OffsetsIn(q, S)
  PROVE  /\ Tail(q) \in Seq(Entry) /\ Len(Tail(q)) = Len(q) - 1
         /\ Numbered(Tail(q), pos) /\ OffsetsIn(Tail(q), S) /\ Head(q).offset \in S
<1>1. /\ Len(q) \in Nat /\ Len(q) >= 1 /\ Tail(q) \in Seq(Entry) /\ Len(Tail(q)) = Len(q) - 1
      /\ \A i \in 1..(Len(q) - 1) : Tail(q)[i] = q[i + 1]
      /\ Head(q) = q[1]
  OBVIOUS
<1>2. ASSUME NEW i \in 1..(Len(q) - 1)
      PROVE  /\ Tail(q)[i].offset \in S
             /\ Tail(q)[i].queue_position = pos - (Len(q) - 1) + i - 1
  <2>1. i + 1 \in 1..Len(q) /\ Tail(q)[i] = q[i + 1]
    BY <1>1
  <2>2. q[i + 1].queue_position = pos - Len(q) + (i + 1) - 1 /\ q[i + 1].offset \in S
    BY <2>1 DEF Numbered, OffsetsIn
  <2>q. QED
    BY <1>1, <2>1, <2>2
<1>3. 1 \in 1..Len(q)
  BY <1>1
<1>q. QED
  BY <1>1, <1>2, <1>3 DEF Numbered, OffsetsIn

\* print_tree reads the child offsets of a node up to the first that is -1.
LEMMA KidCountType ==
  ASSUME NEW kids \in [1..Order -> Int]
  PROVE  KidCount(kids) \in 0..Order /\ \A i \in 1..KidCount(kids) : kids[i] # NoOffset
<1> DEFINE T == {n \in 0..Order : n < Order => kids[n + 1] = NoOffset}
<1>1. Order \in Nat
  BY OrderAssumption
<1>2. T \subseteq Nat /\ Order \in T
  BY <1>1
<1>3. PICK n \in T : \A y \in T : ~(<<y, n>> \in OpToRel(<, Nat))
  <2> HIDE DEF T
  <2>q. QED
    BY <1>2, WFMin, NatLessThanWellFounded
<1>4. \A y \in T : ~(y < n)
  BY <1>2, <1>3 DEF OpToRel
<1>5. \A i \in 1..n : kids[i] # NoOffset
  <2> SUFFICES ASSUME NEW i \in 1..n PROVE kids[i] # NoOffset
    OBVIOUS
  <2>1. i - 1 \in 0..Order /\ i - 1 < n /\ i - 1 \notin T /\ (i - 1) + 1 = i
    BY <1>1, <1>4
  <2>q. QED
    BY <2>1
<1>6. n \in 0..Order /\ (n < Order => kids[n + 1] = NoOffset)
  BY <1>3
<1>q. QED
  BY <1>5, <1>6, Zenon DEF KidCount
-----------------------------------------------------------------------------
(* The invariant *)

PrinterType == queue \in Seq(Entry) /\ queue_position \in Int /\ printing \in BOOLEAN

QueueInv == PrinterType /\ QueueSound

\* What is put into the queue: the root, or the children of a node that was in it.
LEMMA ChildrenReadable ==
  ASSUME TypeOK, OffsetsSound, NEW o \in Readable
  PROVE  ChildrenAt(o) \in Seq(Int) /\ \A i \in 1..Len(ChildrenAt(o)) : ChildrenAt(o)[i] \in Readable
<1>1. Order \in Nat
  BY OrderAssumption
<1>2. CASE o = Header
  <2>1. root_offset = Header
    <3>1. o \notin Slots
      BY <1>2 DEF Slots, Header
    <3>q. QED
      BY <3>1 DEF Readable
  <2>2. CASE nodes = <<>>
    <3>1. ChildrenAt(o) = [i \in 1..Order |-> Header]
      BY <1>2, <2>2, Zenon DEF ChildrenAt
    <3>q. QED
      BY <1>1, <2>1, <3>1 DEF Readable, Header
  <2>3. CASE nodes # <<>>
    <3>1. ChildrenAt(o) = <<>>
      BY <1>2, <2>3, Zenon DEF ChildrenAt
    <3>q. QED
      BY <3>1
  <2>q. QED
    BY <2>2, <2>3
<1>3. CASE o # Header
  <2>1. o \in Slots
    BY <1>3 DEF Readable
  <2>2. PICK kids \in [1..Order -> Int] :
          kids = nodes[o].kids /\ \A i \in 1..Order : kids[i] \in Slots \cup {NoOffset}
    <3>1. nodes[o] \in Node
      BY <2>1 DEF TypeOK, Slots
    <3>2. nodes[o].kids \in [1..Order -> Int]
      BY <3>1 DEF Node, Children
    <3>3. \A i \in 1..Order : nodes[o].kids[i] \in Slots \cup {NoOffset}
      BY <2>1, Zenon DEF OffsetsSound, NodesSound, Kid
    <3>q. QED
      BY <3>2, <3>3
  <2>3. PICK n \in 0..Order : n = KidCount(kids) /\ \A i \in 1..n : kids[i] # NoOffset
    BY KidCountType
  <2>4. ChildrenAt(o) = SubSeq(kids, 1, n)
    BY <1>3, <2>2, <2>3, Zenon DEF ChildrenAt
  <2>5. kids \in Seq(Int) /\ Len(kids) = Order
    BY <1>1
  <2>6. /\ SubSeq(kids, 1, n) \in Seq(Int) /\ Len(SubSeq(kids, 1, n)) = n
        /\ \A i \in 1..n : SubSeq(kids, 1, n)[i] = kids[i]
    BY <1>1, <2>5
  <2>7. ASSUME NEW i \in 1..n PROVE kids[i] \in Readable
    <3>1. i \in 1..Order
      BY <1>1
    <3>q. QED
      BY <2>2, <2>3, <3>1 DEF Readable
  <2>q. QED
    BY <2>4, <2>6, <2>7
<1>q. QED
  BY <1>2, <1>3

\* The parts of the invariant, in the words of the lemmas on the queue.
LEMMA QueueParts ==
  ASSUME queue \in Seq(Entry)
  PROVE  QueueSound <=> /\ ~printing => queue = <<>>
                        /\ printing => pc = "cmd"
                        /\ printing /\ fds >= MaxOpen => Len(queue) <= 1
                        /\ Numbered(queue, queue_position) /\ OffsetsIn(queue, Readable)
<1>1. DOMAIN queue = 1..Len(queue)
  OBVIOUS
<1>2. OffsetsIn(queue, Readable)
        <=> \A i \in DOMAIN queue : \/ queue[i].offset \in Slots
                                    \/ queue[i].offset = Header /\ root_offset = Header
  BY <1>1 DEF OffsetsIn, Readable
<1>3. Numbered(queue, queue_position)
        <=> \A i \in DOMAIN queue : queue[i].queue_position = queue_position - Len(queue) + i - 1
  BY <1>1 DEF Numbered
<1>q. QED
  BY <1>2, <1>3, Zenon DEF QueueSound

LEMMA QueueFromParts ==
  ASSUME queue' \in Seq(Entry), printing', pc' = "cmd", fds' >= MaxOpen => Len(queue') <= 1,
         Numbered(queue', queue_position'), OffsetsIn(queue', Readable')
  PROVE  QueueSound'
<1>1. DOMAIN queue' = 1..Len(queue')
  OBVIOUS
<1>2. ASSUME NEW i \in DOMAIN queue'
      PROVE  /\ \/ queue'[i].offset \in Slots'
                \/ queue'[i].offset = Header /\ root_offset' = Header
             /\ queue'[i].queue_position = queue_position' - Len(queue') + i - 1
  BY <1>1 DEF OffsetsIn, Readable, Numbered
<1>q. QED
  BY <1>2, Zenon DEF QueueSound

LEMMA KeptReadable ==
  ASSUME nodes' = nodes, root_offset' = root_offset
  PROVE  Readable' = Readable
BY DEF Readable, Slots

\* A process whose queue is empty does not print, or prints the last node.
LEMMA EmptyQueueSound ==
  ASSUME queue' = <<>>, queue_position' \in Int, printing' = FALSE
  PROVE  QueueInv'
<1>1. queue' \in Seq(Entry) /\ DOMAIN queue' = {}
  OBVIOUS
<1>q. QED
  BY <1>1 DEF QueueInv, PrinterType, QueueSound

LEMMA StartPrintSound ==
  ASSUME TypeOK, OffsetsSound, QueueInv, StartPrint
  PROVE  QueueInv'
<1>1. /\ ~printing /\ printing' = TRUE
      /\ enqueue(queue, <<root_offset>>)
      /\ nodes' = nodes /\ root_offset' = root_offset /\ pc' = pc /\ pc = "cmd" /\ root_offset # NoOffset
  BY Zenon DEF StartPrint, print_tree, disk, globals
<1>2. root_offset \in Readable /\ root_offset \in Int
  BY <1>1 DEF Readable, OffsetsSound, RootSound, TypeOK
<1>3. queue = <<>> /\ queue \in Seq(Entry) /\ queue_position \in Int
  BY <1>1, Zenon DEF QueueInv, PrinterType, QueueSound
<1>4. /\ Len(queue) = 0 /\ Numbered(queue, queue_position) /\ OffsetsIn(queue, Readable)
      /\ <<root_offset>> \in Seq(Int) /\ Len(<<root_offset>>) = 1
      /\ \A i \in 1..Len(<<root_offset>>) : <<root_offset>>[i] \in Readable
  BY <1>2, <1>3 DEF Numbered, OffsetsIn
<1>5. /\ queue' \in Seq(Entry) /\ queue_position' \in Int
      /\ Numbered(queue', queue_position') /\ OffsetsIn(queue', Readable)
      /\ Len(queue') = Len(queue) + Len(<<root_offset>>)
  BY <1>1, <1>3, <1>4, EnqueueSound
<1>6. Len(queue') <= 1
  BY <1>4, <1>5
<1>7. OffsetsIn(queue', Readable')
  BY <1>1, <1>5, KeptReadable
<1>8. PrinterType'
  BY <1>1, <1>5 DEF PrinterType
<1>9. QueueSound'
  BY <1>1, <1>5, <1>6, <1>7, QueueFromParts, Zenon
<1>q. QED
  BY <1>8, <1>9, Zenon DEF QueueInv

LEMMA PrintNodeSound ==
  ASSUME TypeOK, OffsetsSound, QueueInv, PrintNode
  PROVE  QueueInv'
<1> DEFINE o == Head(queue).offset
<1>1. /\ printing /\ queue # <<>> /\ fds < MaxOpen
      /\ enqueue(Tail(queue), ChildrenAt(o))
      /\ UNCHANGED <<vars, printing>>
  BY Zenon DEF PrintNode, dequeue
<1>2. nodes' = nodes /\ root_offset' = root_offset /\ pc' = pc /\ fds' = fds /\ printing' = printing
  BY <1>1, Zenon DEF vars, disk, globals
<1>3. /\ queue \in Seq(Entry) /\ queue_position \in Int /\ pc = "cmd"
      /\ Numbered(queue, queue_position) /\ OffsetsIn(queue, Readable)
  BY <1>1, QueueParts, Zenon DEF QueueInv, PrinterType
<1>4. /\ Tail(queue) \in Seq(Entry)
      /\ Numbered(Tail(queue), queue_position) /\ OffsetsIn(Tail(queue), Readable) /\ o \in Readable
  BY <1>1, <1>3, DequeueSound
<1> HIDE DEF o
<1>5. /\ ChildrenAt(o) \in Seq(Int)
      /\ \A i \in 1..Len(ChildrenAt(o)) : ChildrenAt(o)[i] \in Readable
  BY <1>4, ChildrenReadable
<1>6. /\ queue' \in Seq(Entry) /\ queue_position' \in Int
      /\ Numbered(queue', queue_position') /\ OffsetsIn(queue', Readable)
  BY <1>1, <1>3, <1>4, <1>5, EnqueueSound, Zenon
<1>7. OffsetsIn(queue', Readable')
  BY <1>2, <1>6, KeptReadable
<1>8. fds' < MaxOpen /\ ~(fds' >= MaxOpen)
  BY <1>1, <1>2, BTreeAssumption DEF TypeOK
<1>9. PrinterType'
  BY <1>1, <1>2, <1>6, Zenon DEF PrinterType
<1>10. QueueSound'
  <2>1. printing' /\ pc' = "cmd"
    BY <1>1, <1>2, <1>3
  <2>q. QED
    BY <1>6, <1>7, <1>8, <2>1, QueueFromParts, Zenon
<1>q. QED
  BY <1>9, <1>10, Zenon DEF QueueInv

LEMMA WalkSound ==
  ASSUME TypeOK, OffsetsSound, QueueInv, Walk
  PROVE  QueueInv'
<1>1. CASE PrintNode
  BY <1>1, PrintNodeSound
<1>2. CASE PrintOpenFails
  <2>1. /\ printing /\ fds >= MaxOpen /\ queue # <<>>
        /\ queue' = Tail(queue) /\ queue_position' = queue_position /\ printing' = FALSE
    BY <1>2, Zenon DEF PrintOpenFails, PrintOver, dequeue
  <2>2. queue \in Seq(Entry) /\ Len(queue) <= 1 /\ queue_position \in Int
    BY <2>1, Zenon DEF QueueInv, PrinterType, QueueSound
  <2>3. Tail(queue) = <<>>
    BY <2>1, <2>2
  <2>q. QED
    BY <2>1, <2>2, <2>3, EmptyQueueSound
<1>3. CASE PrintReturn
  <2>1. queue' = queue /\ queue = <<>> /\ queue_position' = queue_position /\ printing' = FALSE
    BY <1>3, Zenon DEF PrintReturn, PrintOver
  <2>q. QED
    BY <2>1, EmptyQueueSound DEF QueueInv, PrinterType
<1>q. QED
  BY <1>1, <1>2, <1>3, Zenon DEF Walk

\* The other commands run while nothing is printed; a process that is gone leaves no queue.
LEMMA BesideSound ==
  ASSUME QueueInv, Others \/ Beside(Kill)
  PROVE  QueueInv'
<1>1. CASE Others
  <2>1. ~printing /\ (UNCHANGED printer \/ (queue' = <<>> /\ queue_position' = 0 /\ PrintOver))
    BY <1>1, Zenon DEF Others, Beside
  <2>2. CASE UNCHANGED printer
    <3>1. queue' = queue /\ queue = <<>> /\ queue_position' = queue_position /\ printing' = printing
      BY <2>1, <2>2, Zenon DEF printer, QueueInv, QueueSound
    <3>2. printing' = FALSE /\ queue_position \in Int
      BY <2>1, <3>1, Zenon DEF QueueInv, PrinterType
    <3>q. QED
      BY <3>1, <3>2, EmptyQueueSound
  <2>3. CASE queue' = <<>> /\ queue_position' = 0 /\ PrintOver
    <3>1. queue' = <<>> /\ queue_position' \in Int /\ printing' = FALSE
      BY <2>3 DEF PrintOver
    <3>q. QED
      BY <3>1, EmptyQueueSound, Zenon
  <2>q. QED
    BY <2>1, <2>2, <2>3
<1>2. CASE Beside(Kill)
  <2>1. ~Alive'
    BY <1>2 DEF Beside, Kill, Exit, Alive
  <2>2. queue' = <<>> /\ queue_position' = 0 /\ printing' = FALSE
    BY <1>2, <2>1, Zenon DEF Beside, PrintOver
  <2>3. queue_position' \in Int
    BY <2>2
  <2>q. QED
    BY <2>2, <2>3, EmptyQueueSound, Zenon
<1>q. QED
  BY <1>1, <1>2

LEMMA PrintStepSound ==
  ASSUME TypeOK, OffsetsSound, QueueInv, [PNext]_pvars
  PROVE  QueueInv'
<1>1. CASE UNCHANGED pvars
  <2>1. /\ nodes' = nodes /\ root_offset' = root_offset /\ pc' = pc /\ fds' = fds
        /\ queue' = queue /\ queue_position' = queue_position /\ printing' = printing
    BY <1>1, Zenon DEF pvars, vars, disk, globals, printer
  <2>2. Slots' = Slots
    BY <2>1 DEF Slots
  <2>q. QED
    BY <2>1, <2>2, Zenon DEF QueueInv, PrinterType, QueueSound
<1>q. QED
  BY <1>1, StartPrintSound, WalkSound, BesideSound, Zenon DEF PNext

\* With an order of at least 3, print_tree's global queue is empty whenever it does not run, also
\* after a print that ran out of open files (data_structures.c:1234); in a print it holds only
\* offsets of nodes (or that of the header, when it was never written), numbered without a gap,
\* whatever was killed or printed before.
THEOREM QueueSoundAlways ==
  ASSUME Order >= 3
  PROVE  PSpec => [](OffsetsSound /\ QueueSound)
<1>1. PInit => TypeOK /\ OffsetsSound /\ QueueInv
  <2>1. ASSUME PInit PROVE QueueInv
    <3>1. queue = <<>> /\ queue_position = 0 /\ printing = FALSE
      BY <2>1, Zenon DEF PInit
    <3>2. queue \in Seq(Entry) /\ DOMAIN queue = {} /\ queue_position \in Int
      BY <3>1
    <3>q. QED
      BY <3>1, <3>2, Zenon DEF QueueInv, PrinterType, QueueSound
  <2>q. QED
    BY <2>1, InitSound, Zenon DEF PInit
<1>2. TypeOK /\ OffsetsSound /\ QueueInv /\ [PNext]_pvars => (TypeOK /\ OffsetsSound /\ QueueInv)'
  BY StepsOfIndex, StepSound, PrintStepSound
<1>3. QueueInv => QueueSound
  BY Zenon DEF QueueInv
<1>q. QED
  BY <1>1, <1>2, <1>3, PTL DEF PSpec
-----------------------------------------------------------------------------
(* Sequences put one after the other *)

\* Whatever adds the sequences of ss one by one ends with Flattened(ss).
LEMMA FlattenedIs ==
  ASSUME NEW S, NEW ss \in Seq(Seq(S)), NEW g \in [0..Len(ss) -> Seq(S)], g[0] = <<>>,
         \A i \in 1..Len(ss) : g[i] = g[i - 1] \o ss[i]
  PROVE  Flattened(ss) = g[Len(ss)]
<1> DEFINE Is(u) == u = [i \in 0..Len(ss) |-> IF i = 0 THEN <<>> ELSE u[i - 1] \o ss[i]]
           f == CHOOSE u : Is(u)
           Bad == {i \in Nat : i <= Len(ss) /\ f[i] # g[i]}
<1>1. Len(ss) \in Nat
  OBVIOUS
<1>2. Is(g)
  <2>1. g = [i \in 0..Len(ss) |-> g[i]]
    OBVIOUS
  <2>2. ASSUME NEW i \in 0..Len(ss) PROVE g[i] = IF i = 0 THEN <<>> ELSE g[i - 1] \o ss[i]
    <3>1. i # 0 => i \in 1..Len(ss)
      BY <1>1
    <3>q. QED
      BY <3>1
  <2>q. QED
    BY <2>1, <2>2
<1>3. Flattened(ss) = f[Len(ss)]
  BY DEF Flattened
<1>4. Is(f)
  <2> HIDE DEF Is
  <2>q. QED
    BY <1>2
<1> HIDE DEF f
<1>5. Bad = {}
  <2>1. SUFFICES ASSUME Bad # {} PROVE FALSE
    OBVIOUS
  <2>2. PICK m \in Bad : \A y \in Bad : ~(<<y, m>> \in OpToRel(<, Nat))
    BY <2>1, WFMin, NatLessThanWellFounded
  <2>3. m \in Nat /\ m <= Len(ss) /\ f[m] # g[m] /\ \A y \in Bad : ~(y < m)
    BY <2>2 DEF OpToRel
  <2>4. m # 0
    <3>1. 0 \in 0..Len(ss)
      BY <1>1
    <3>2. f[0] = <<>>
      BY <1>4, <3>1
    <3>q. QED
      BY <2>3, <3>2
  <2>5. m \in 1..Len(ss) /\ m \in 0..Len(ss) /\ m - 1 \in Nat /\ m - 1 <= Len(ss) /\ m - 1 < m
    BY <1>1, <2>3, <2>4
  <2>6. f[m - 1] = g[m - 1]
    BY <2>3, <2>5
  <2>7. f[m] = f[m - 1] \o ss[m]
    BY <1>4, <2>4, <2>5
  <2>q. QED
    BY <2>3, <2>5, <2>6, <2>7
<1>q. QED
  BY <1>1, <1>3, <1>5

\* The sums that Flattened ends with exist.
LEMMA FlattenedSums ==
  ASSUME NEW S, NEW ss \in Seq(Seq(S))
  PROVE  \E g \in [0..Len(ss) -> Seq(S)] : g[0] = <<>> /\ \A i \in 1..Len(ss) : g[i] = g[i - 1] \o ss[i]
<1> DEFINE Sums(n, g) == g \in [0..n -> Seq(S)] /\ g[0] = <<>> /\ \A i \in 1..n : g[i] = g[i - 1] \o ss[i]
           Bad == {n \in Nat : n <= Len(ss) /\ ~\E g : Sums(n, g)}
<1>1. Len(ss) \in Nat
  OBVIOUS
<1>2. Bad = {}
  <2>1. SUFFICES ASSUME Bad # {} PROVE FALSE
    OBVIOUS
  <2>2. PICK m \in Bad : \A y \in Bad : ~(<<y, m>> \in OpToRel(<, Nat))
    BY <2>1, WFMin, NatLessThanWellFounded
  <2>3. m \in Nat /\ m <= Len(ss) /\ (~\E g : Sums(m, g)) /\ \A y \in Bad : ~(y < m)
    BY <2>2 DEF OpToRel
  <2>4. CASE m = 0
    <3> DEFINE g == [i \in 0..0 |-> <<>>]
    <3>1. g \in [0..m -> Seq(S)] /\ g[0] = <<>> /\ 1..m = {}
      BY <2>4
    <3> HIDE DEF g
    <3>q. QED
      BY <2>3, <3>1
  <2>5. CASE m # 0
    <3>1. m - 1 \in Nat /\ m - 1 <= Len(ss) /\ m - 1 < m /\ m \in 1..Len(ss) /\ m - 1 \in 0..(m - 1)
      BY <1>1, <2>3, <2>5
    <3>2. PICK g : Sums(m - 1, g)
      BY <2>3, <3>1
    <3>3. g[m - 1] \o ss[m] \in Seq(S)
      <4>1. g[m - 1] \in Seq(S) /\ ss[m] \in Seq(S)
        BY <3>1, <3>2
      <4>q. QED
        BY <4>1, ConcatProperties
    <3> DEFINE e == [i \in 0..m |-> IF i < m THEN g[i] ELSE g[m - 1] \o ss[m]]
    <3>4. \A i \in 0..m : i < m => i \in 0..(m - 1)
      BY <2>3
    <3>5. e \in [0..m -> Seq(S)]
      BY <3>2, <3>3, <3>4
    <3>6. e[0] = <<>>
      BY <2>3, <2>5, <3>2
    <3>7. ASSUME NEW i \in 1..m PROVE e[i] = e[i - 1] \o ss[i]
      <4>1. i \in 0..m /\ i - 1 \in 0..m /\ i - 1 < m
        BY <2>3
      <4>2. e[i - 1] = g[i - 1]
        BY <4>1
      <4>3. CASE i = m
        <5>1. e[i] = g[m - 1] \o ss[m]
          BY <2>3, <4>1, <4>3
        <5>2. e[i - 1] = g[m - 1] /\ ss[i] = ss[m]
          BY <4>2, <4>3
        <5> HIDE DEF e
        <5>q. QED
          BY <5>1, <5>2
      <4>4. CASE i # m
        <5>1. i \in 1..(m - 1) /\ i < m
          BY <2>3, <4>4
        <5>2. e[i] = g[i] /\ g[i] = g[i - 1] \o ss[i]
          BY <3>2, <4>1, <5>1
        <5>q. QED
          BY <4>2, <5>2
      <4>q. QED
        BY <4>3, <4>4
    <3> HIDE DEF e
    <3>8. Sums(m, e)
      BY <3>5, <3>6, <3>7
    <3>q. QED
      BY <2>3, <3>8
  <2>q. QED
    BY <2>4, <2>5
<1>3. \E g : Sums(Len(ss), g)
  <2> HIDE DEF Sums
  <2>q. QED
    BY <1>1, <1>2
<1>q. QED
  BY <1>3

\* Flattened, as an induction over the sequences from the last one.
LEMMA FlattenedStep ==
  ASSUME NEW S
  PROVE  /\ Flattened(<<>>) = <<>>
         /\ \A ss \in Seq(Seq(S)) : Flattened(ss) \in Seq(S)
         /\ \A ss \in Seq(Seq(S)), t \in Seq(S) : Flattened(Append(ss, t)) = Flattened(ss) \o t
<1>1. Flattened(<<>>) = <<>>
  <2>1. PICK ss \in Seq(Seq(S)) : ss = <<>> /\ Len(ss) = 0
    <3>1. <<>> \in Seq(Seq(S)) /\ Len(<<>>) = 0
      OBVIOUS
    <3>q. QED
      BY <3>1
  <2>2. PICK g \in [0..Len(ss) -> Seq(S)] : g[0] = <<>> /\ \A i \in 1..Len(ss) : g[i] = g[i - 1] \o ss[i]
    BY FlattenedSums
  <2>3. Flattened(ss) = g[Len(ss)]
    BY <2>2, FlattenedIs
  <2>q. QED
    BY <2>1, <2>2, <2>3
<1>2. ASSUME NEW ss \in Seq(Seq(S)), NEW t \in Seq(S)
      PROVE  Flattened(ss) \in Seq(S) /\ Flattened(Append(ss, t)) = Flattened(ss) \o t
  <2> DEFINE n == Len(ss)
             st == Append(ss, t)
  <2>1. n \in Nat /\ st \in Seq(Seq(S)) /\ Len(st) = n + 1 /\ st[n + 1] = t /\ \A i \in 1..n : st[i] = ss[i]
    BY AppendProperties
  <2>2. PICK g \in [0..n -> Seq(S)] : g[0] = <<>> /\ \A i \in 1..n : g[i] = g[i - 1] \o ss[i]
    BY FlattenedSums
  <2>3. Flattened(ss) = g[n]
    BY <2>2, FlattenedIs
  <2> HIDE DEF n, st
  <2>4. g[n] \in Seq(S) /\ g[n] \o t \in Seq(S)
    <3>1. g[n] \in Seq(S)
      BY <2>1, <2>2
    <3>q. QED
      BY <3>1, ConcatProperties
  <2> DEFINE e == [i \in 0..(n + 1) |-> IF i <= n THEN g[i] ELSE g[n] \o t]
  <2>5. e \in [0..(n + 1) -> Seq(S)]
    BY <2>1, <2>2, <2>4
  <2>6. e[0] = <<>> /\ e[n + 1] = g[n] \o t
    BY <2>1, <2>2
  <2>7. ASSUME NEW i \in 1..(n + 1) PROVE e[i] = e[i - 1] \o st[i]
    <3>1. i \in 0..(n + 1) /\ i - 1 \in 0..(n + 1) /\ i - 1 <= n /\ e[i - 1] = g[i - 1]
      BY <2>1
    <3>2. CASE i = n + 1
      <4>1. e[i] = g[n] \o t /\ st[i] = t /\ e[i - 1] = g[n]
        BY <2>1, <2>6, <3>1, <3>2
      <4>q. QED
        BY <4>1
    <3>3. CASE i # n + 1
      <4>1. i \in 1..n /\ i <= n
        BY <2>1, <3>3
      <4>2. e[i] = g[i] /\ g[i] = g[i - 1] \o ss[i] /\ st[i] = ss[i]
        BY <2>1, <2>2, <3>1, <4>1
      <4>q. QED
        BY <3>1, <4>2
    <3>q. QED
      BY <3>2, <3>3
  <2> HIDE DEF e
  <2>8. Flattened(st) = e[n + 1]
    BY <2>1, <2>5, <2>6, <2>7, FlattenedIs
  <2>q. QED
    BY <2>3, <2>4, <2>6, <2>8 DEF st
<1>q. QED
  <2>1. <<>> \in Seq(S)
    OBVIOUS
  <2>q. QED
    BY <1>1, <1>2, <2>1
-----------------------------------------------------------------------------
(* Rows of nodes *)

\* K gives each of its nodes the children, none or at least two, that are one lower each.
Family(K, h) ==
  /\ K \in [DOMAIN K -> Seq(DOMAIN K)] /\ h \in [DOMAIN K -> Nat]
  /\ \A s \in DOMAIN K : /\ Len(K[s]) # 1 /\ (K[s] = <<>> <=> h[s] = 0)
                         /\ \A i \in 1..Len(K[s]) : h[K[s][i]] = h[s] - 1

\* The children of a row of nodes, and that a row is at one height.
Row(K, s)     == Flattened([i \in 1..Len(s) |-> K[s[i]]])
Flat(h, s, e) == \A i \in 1..Len(s) : h[s[i]] = e

LEMMA RowStep ==
  ASSUME NEW K, K \in [DOMAIN K -> Seq(DOMAIN K)]
  PROVE  /\ Row(K, <<>>) = <<>>
         /\ \A s \in Seq(DOMAIN K) : Row(K, s) \in Seq(DOMAIN K)
         /\ \A s \in Seq(DOMAIN K), o \in DOMAIN K : Row(K, Append(s, o)) = Row(K, s) \o K[o]
<1> DEFINE T == DOMAIN K
           Lists(s) == [i \in 1..Len(s) |-> K[s[i]]]
<1>1. Row(K, <<>>) = <<>>
  <2>1. [i \in 1..Len(<<>>) |-> K[<<>>[i]]] = <<>>
    OBVIOUS
  <2>q. QED
    BY <2>1, FlattenedStep DEF Row
<1>2. ASSUME NEW s \in Seq(T) PROVE Lists(s) \in Seq(Seq(T)) /\ Len(Lists(s)) = Len(s)
  <2>1. Len(s) \in Nat /\ \A i \in 1..Len(s) : K[s[i]] \in Seq(T)
    OBVIOUS
  <2>q. QED
    BY <2>1
<1>3. ASSUME NEW s \in Seq(T), NEW o \in T PROVE Lists(Append(s, o)) = Append(Lists(s), K[o])
  <2>1. /\ Append(s, o) \in Seq(T) /\ Len(Append(s, o)) = Len(s) + 1 /\ Len(s) \in Nat
        /\ \A i \in 1..Len(s) : Append(s, o)[i] = s[i]
        /\ Append(s, o)[Len(s) + 1] = o
    BY AppendProperties
  <2>2. K[o] \in Seq(T)
    OBVIOUS
  <2>3. /\ Append(Lists(s), K[o]) \in Seq(Seq(T)) /\ Len(Append(Lists(s), K[o])) = Len(s) + 1
        /\ \A i \in 1..Len(s) : Append(Lists(s), K[o])[i] = Lists(s)[i]
        /\ Append(Lists(s), K[o])[Len(s) + 1] = K[o]
    <3> HIDE DEF Lists
    <3>q. QED
      BY <1>2, <2>2, AppendProperties
  <2>4. /\ Lists(Append(s, o)) \in Seq(Seq(T)) /\ Len(Lists(Append(s, o))) = Len(s) + 1
    BY <1>2, <2>1
  <2>5. ASSUME NEW i \in 1..(Len(s) + 1) PROVE Lists(Append(s, o))[i] = Append(Lists(s), K[o])[i]
    <3>1. Lists(Append(s, o))[i] = K[Append(s, o)[i]]
      BY <2>1
    <3>2. CASE i = Len(s) + 1
      BY <2>1, <2>3, <3>1, <3>2
    <3>3. CASE i # Len(s) + 1
      <4>1. i \in 1..Len(s)
        BY <2>1, <3>3
      <4>2. Append(Lists(s), K[o])[i] = K[s[i]]
        BY <2>3, <4>1
      <4>3. Append(s, o)[i] = s[i]
        BY <2>1, <4>1
      <4>q. QED
        BY <3>1, <4>2, <4>3
    <3>q. QED
      BY <3>2, <3>3
  <2> HIDE DEF Lists
  <2>q. QED
    BY <2>3, <2>4, <2>5, SeqEqual
<1>4. ASSUME NEW s \in Seq(T) PROVE Row(K, s) \in Seq(T)
  <2>1. Lists(s) \in Seq(Seq(T))
    BY <1>2
  <2>2. Flattened(Lists(s)) \in Seq(T)
    <3> HIDE DEF Lists
    <3>q. QED
      BY <2>1, FlattenedStep
  <2>q. QED
    BY <2>2 DEF Row
<1>5. ASSUME NEW s \in Seq(T), NEW o \in T PROVE Row(K, Append(s, o)) = Row(K, s) \o K[o]
  <2>1. Lists(s) \in Seq(Seq(T)) /\ Lists(Append(s, o)) = Append(Lists(s), K[o]) /\ K[o] \in Seq(T)
    BY <1>2, <1>3
  <2>2. Flattened(Lists(Append(s, o))) = Flattened(Lists(s)) \o K[o]
    <3> HIDE DEF Lists
    <3>q. QED
      BY <2>1, FlattenedStep
  <2>q. QED
    BY <2>2 DEF Row
<1>q. QED
  BY <1>1, <1>4, <1>5

\* A row at one height has a row below it, one lower, or, at height 0, none; never a single node.
LEMMA RowFlat ==
  ASSUME NEW K, NEW h, Family(K, h), NEW s \in Seq(DOMAIN K), NEW e \in Nat, Flat(h, s, e)
  PROVE  /\ Row(K, s) \in Seq(DOMAIN K) /\ Len(Row(K, s)) # 1 /\ Flat(h, Row(K, s), e - 1)
         /\ s # <<>> => (Row(K, s) = <<>> <=> e = 0)
<1> DEFINE T == DOMAIN K
           Good(t) == /\ Len(Row(K, t)) # 1 /\ Flat(h, Row(K, t), e - 1)
                      /\ t # <<>> => (Row(K, t) = <<>> <=> e = 0)
           Bad == {n \in Nat : \E t \in Seq(T) : Len(t) = n /\ Flat(h, t, e) /\ ~Good(t)}
<1>0. K \in [T -> Seq(T)]
  BY DEF Family
<1>1. Bad = {}
  <2>1. SUFFICES ASSUME Bad # {} PROVE FALSE
    OBVIOUS
  <2>2. PICK m \in Bad : \A y \in Bad : ~(<<y, m>> \in OpToRel(<, Nat))
    BY <2>1, WFMin, NatLessThanWellFounded
  <2>3. m \in Nat /\ (\E t \in Seq(T) : Len(t) = m /\ Flat(h, t, e) /\ ~Good(t)) /\ \A y \in Bad : ~(y < m)
    BY <2>2 DEF OpToRel
  <2>4. PICK t \in Seq(T) : Len(t) = m /\ Flat(h, t, e) /\ ~Good(t)
    BY <2>3
  <2>5. CASE t = <<>>
    <3>1. Row(K, t) = <<>>
      BY <1>0, <2>5, RowStep
    <3>2. Len(<<>>) = 0 /\ Flat(h, <<>>, e - 1)
      BY DEF Flat
    <3>3. Len(Row(K, t)) # 1
      BY <3>1, <3>2
    <3>4. Flat(h, Row(K, t), e - 1)
      BY <3>1, <3>2, Zenon
    <3>q. QED
      BY <2>4, <2>5, <3>3, <3>4, Zenon
  <2>6. CASE t # <<>>
    <3>1. PICK u \in Seq(T), o \in T : t = Append(u, o)
      BY <2>6, SequenceEmptyOrAppend
    <3>2. /\ Len(t) = Len(u) + 1 /\ Len(u) \in Nat /\ t[Len(u) + 1] = o
          /\ \A i \in 1..Len(u) : t[i] = u[i]
      BY <3>1, AppendProperties
    <3>3. h[o] = e /\ Flat(h, u, e)
      BY <2>4, <3>2 DEF Flat
    <3>4. Good(u)
      <4>1. Len(u) \notin Bad
        BY <2>3, <2>4, <3>2
      <4> HIDE DEF Good
      <4>q. QED
        BY <3>2, <3>3, <4>1
    <3>5. Row(K, t) = Row(K, u) \o K[o] /\ Row(K, u) \in Seq(T) /\ K[o] \in Seq(T)
      BY <1>0, <3>1, RowStep
    <3>6. PICK a \in Seq(T), b \in Seq(T) : a = Row(K, u) /\ b = K[o]
      BY <3>5
    <3>7. /\ Len(a) # 1 /\ Flat(h, a, e - 1) /\ (u # <<>> => (a = <<>> <=> e = 0))
          /\ Len(b) # 1 /\ Flat(h, b, e - 1) /\ (b = <<>> <=> e = 0)
      BY <3>3, <3>4, <3>6 DEF Family, Flat
    <3>8. /\ a \o b \in Seq(T) /\ Len(a \o b) = Len(a) + Len(b) /\ Len(a) \in Nat /\ Len(b) \in Nat
          /\ \A i \in 1..(Len(a) + Len(b)) : (a \o b)[i] = IF i <= Len(a) THEN a[i] ELSE b[i - Len(a)]
      BY ConcatProperties
    <3>9. Flat(h, a \o b, e - 1)
      <4>1. ASSUME NEW i \in 1..(Len(a) + Len(b)) PROVE h[(a \o b)[i]] = e - 1
        <5>1. CASE i <= Len(a)
          BY <3>7, <3>8, <5>1 DEF Flat
        <5>2. CASE ~(i <= Len(a))
          <6>1. i - Len(a) \in 1..Len(b) /\ (a \o b)[i] = b[i - Len(a)]
            BY <3>8, <5>2
          <6>q. QED
            BY <3>7, <6>1 DEF Flat
        <5>q. QED
          BY <5>1, <5>2
      <4>q. QED
        BY <3>8, <4>1 DEF Flat
    <3>10. Len(a \o b) # 1
      <4>1. \A x, y \in Nat : x # 1 /\ y # 1 => x + y # 1
        OBVIOUS
      <4>2. Len(a) + Len(b) # 1
        BY <3>7, <3>8, <4>1
      <4>q. QED
        BY <3>8, <4>2
    <3>11. a \o b = <<>> <=> e = 0
      <4>1. a \o b = <<>> <=> a = <<>> /\ b = <<>>
        BY ConcatEqualIffEmpty
      <4>2. u = <<>> => a = <<>>
        BY <1>0, <3>6, RowStep
      <4>q. QED
        BY <3>7, <4>1, <4>2
    <3>q. QED
      BY <2>4, <3>5, <3>6, <3>9, <3>10, <3>11
  <2>q. QED
    BY <2>5, <2>6
<1>2. Len(s) \in Nat /\ Len(s) \notin Bad
  BY <1>1
<1>3. Good(s)
  <2> HIDE DEF Good
  <2>q. QED
    BY <1>2
<1>4. Row(K, s) \in Seq(T)
  BY <1>0, RowStep
<1>q. QED
  BY <1>3, <1>4
-----------------------------------------------------------------------------
(* A row while it is printed *)

\* The nodes sh of a row are shown; the rest of it waits in the queue q, whose first node has number
\* p, before the children of sh.  The counters tell where the row ends and how long the next one is.
Within(K, h, root, row, sh, q, p, till, ch) ==
  \E rest \in Seq(DOMAIN K), e \in Nat :
    /\ rest # <<>> /\ sh \o rest = row /\ Len(row) # 1
    /\ q = rest \o Row(K, sh) /\ ch = Len(Row(K, sh)) /\ till = p + Len(rest) - 1
    /\ e < h[root] /\ Flat(h, row, e)

\* The first of rest, between s and t, goes over to s.
Moves(s, rest, t) ==
  /\ Len(Tail(rest)) = Len(rest) - 1
  /\ Head(rest \o t) = Head(rest) /\ Tail(rest \o t) = Tail(rest) \o t
  /\ Append(s, Head(rest)) \o Tail(rest) = s \o rest

LEMMA TakeFirst ==
  ASSUME NEW T, NEW s \in Seq(T), NEW rest \in Seq(T), NEW t \in Seq(T), rest # <<>>
  PROVE  Moves(s, rest, t)
<1>1. /\ Head(rest) \in T /\ Tail(rest) \in Seq(T) /\ Len(Tail(rest)) = Len(rest) - 1
      /\ Len(rest) \in Nat \ {0}
      /\ \A i \in 1..Len(Tail(rest)) : Tail(rest)[i] = rest[i + 1]
  BY HeadTailProperties, EmptySeq
<1>2. /\ rest \o t \in Seq(T) /\ Len(rest \o t) = Len(rest) + Len(t) /\ Len(t) \in Nat
      /\ \A i \in 1..(Len(rest) + Len(t)) : (rest \o t)[i] = IF i <= Len(rest) THEN rest[i] ELSE t[i - Len(rest)]
  BY ConcatProperties, LenProperties
<1>3. rest \o t # <<>>
  BY ConcatEqualIffEmpty
<1>4. Head(rest \o t) = Head(rest)
  <2>1. Head(rest \o t) = (rest \o t)[1] /\ Head(rest) = rest[1]
    BY <1>2, <1>3
  <2>q. QED
    BY <1>1, <1>2, <2>1
<1>5. Tail(rest \o t) = Tail(rest) \o t
  <2>1. /\ Tail(rest \o t) \in Seq(T) /\ Len(Tail(rest \o t)) = Len(rest) + Len(t) - 1
        /\ \A i \in 1..(Len(rest) + Len(t) - 1) : Tail(rest \o t)[i] = (rest \o t)[i + 1]
    BY <1>2, <1>3, HeadTailProperties
  <2>2. /\ Tail(rest) \o t \in Seq(T) /\ Len(Tail(rest) \o t) = Len(Tail(rest)) + Len(t)
        /\ \A i \in 1..(Len(Tail(rest)) + Len(t)) :
             (Tail(rest) \o t)[i] = IF i <= Len(Tail(rest)) THEN Tail(rest)[i] ELSE t[i - Len(Tail(rest))]
    BY <1>1, ConcatProperties
  <2>3. ASSUME NEW i \in 1..(Len(rest) + Len(t) - 1) PROVE Tail(rest \o t)[i] = (Tail(rest) \o t)[i]
    <3>1. i + 1 \in 1..(Len(rest) + Len(t)) /\ i \in 1..(Len(Tail(rest)) + Len(t))
      BY <1>1, <1>2
    <3>2. Tail(rest \o t)[i] = IF i + 1 <= Len(rest) THEN rest[i + 1] ELSE t[i + 1 - Len(rest)]
      BY <1>2, <2>1, <3>1
    <3>3. CASE i + 1 <= Len(rest)
      <4>1. i \in 1..Len(Tail(rest)) /\ i <= Len(Tail(rest))
        BY <1>1, <3>3
      <4>2. (Tail(rest) \o t)[i] = Tail(rest)[i]
        BY <2>2, <3>1, <4>1
      <4>q. QED
        BY <1>1, <3>2, <3>3, <4>1, <4>2
    <3>4. CASE ~(i + 1 <= Len(rest))
      <4>1. ~(i <= Len(Tail(rest))) /\ i - Len(Tail(rest)) = i + 1 - Len(rest)
        BY <1>1, <3>4
      <4>2. (Tail(rest) \o t)[i] = t[i - Len(Tail(rest))]
        BY <2>2, <3>1, <4>1
      <4>q. QED
        BY <3>2, <3>4, <4>1, <4>2
    <3>q. QED
      BY <3>3, <3>4
  <2>4. Len(Tail(rest \o t)) = Len(Tail(rest) \o t)
    BY <1>1, <1>2, <2>1, <2>2
  <2>q. QED
    BY <2>1, <2>2, <2>3, <2>4, SeqEqual
<1>6. Append(s, Head(rest)) \o Tail(rest) = s \o rest
  <2>1. <<Head(rest)>> \in Seq(T) /\ rest = <<Head(rest)>> \o Tail(rest)
    <3>1. 1 \in 1..Len(rest) /\ Len(rest) \in 1..Len(rest)
      BY <1>1
    <3>2. SubSeq(rest, 1, Len(rest)) = <<rest[1]>> \o SubSeq(rest, 1 + 1, Len(rest))
      BY <3>1, SubSeqRecursiveFirst
    <3>3. SubSeq(rest, 1, Len(rest)) = rest /\ Tail(rest) = SubSeq(rest, 2, Len(rest)) /\ Head(rest) = rest[1]
      BY SubSeqFull, TailIsSubSeq
    <3>q. QED
      BY <1>1, <3>2, <3>3
  <2>2. Append(s, Head(rest)) = s \o <<Head(rest)>>
    BY <1>1, AppendIsConcat
  <2>3. (s \o <<Head(rest)>>) \o Tail(rest) = s \o (<<Head(rest)>> \o Tail(rest))
    BY <1>1, <2>1, ConcatAssociative
  <2>q. QED
    BY <2>1, <2>2, <2>3
<1>q. QED
  BY <1>1, <1>4, <1>5, <1>6 DEF Moves

\* A part of a flat row.
LEMMA FlatParts ==
  ASSUME NEW T, NEW s \in Seq(T), NEW t \in Seq(T), NEW h, NEW e, Flat(h, s \o t, e)
  PROVE  Flat(h, s, e) /\ Flat(h, t, e)
<1>1. /\ Len(s \o t) = Len(s) + Len(t) /\ Len(s) \in Nat /\ Len(t) \in Nat
      /\ \A i \in 1..(Len(s) + Len(t)) : (s \o t)[i] = IF i <= Len(s) THEN s[i] ELSE t[i - Len(s)]
  BY ConcatProperties, LenProperties
<1>2. ASSUME NEW i \in 1..Len(s) PROVE h[s[i]] = e
  <2>1. i \in 1..(Len(s) + Len(t)) /\ i <= Len(s)
    BY <1>1
  <2>2. h[(s \o t)[i]] = e
    BY <1>1, <2>1 DEF Flat
  <2>q. QED
    BY <1>1, <2>1, <2>2
<1>3. ASSUME NEW i \in 1..Len(t) PROVE h[t[i]] = e
  <2>1. i + Len(s) \in 1..(Len(s) + Len(t)) /\ ~(i + Len(s) <= Len(s)) /\ i + Len(s) - Len(s) = i
    BY <1>1
  <2>2. h[(s \o t)[i + Len(s)]] = e
    BY <1>1, <2>1 DEF Flat
  <2>q. QED
    BY <1>1, <2>1, <2>2
<1>q. QED
  BY <1>2, <1>3 DEF Flat

\* A node that is not the last of its row moves from the rest to what is shown.
LEMMA WithinInner ==
  ASSUME NEW K, NEW h, Family(K, h), NEW root \in DOMAIN K, NEW row, NEW sh \in Seq(DOMAIN K),
         NEW q, NEW p \in Int, NEW till, NEW ch, Within(K, h, root, row, sh, q, p, till, ch), p # till
  PROVE  /\ Head(q) \in DOMAIN K /\ Head(q) # root
         /\ Within(K, h, root, row, Append(sh, Head(q)), Tail(q) \o K[Head(q)], p + 1, till,
                   ch + Len(K[Head(q)]))
<1> DEFINE T == DOMAIN K
<1>1. PICK rest \in Seq(T), e \in Nat :
        /\ rest # <<>> /\ sh \o rest = row /\ Len(row) # 1
        /\ q = rest \o Row(K, sh) /\ ch = Len(Row(K, sh)) /\ till = p + Len(rest) - 1
        /\ e < h[root] /\ Flat(h, row, e)
  BY DEF Within
<1>2. K \in [T -> Seq(T)] /\ h \in [T -> Nat]
  BY DEF Family
<1>a. sh \in Seq(T) /\ root \in T
  OBVIOUS
<1>3. PICK below \in Seq(T) : below = Row(K, sh)
  BY <1>2, RowStep
<1>b. ASSUME NEW o \in T PROVE Row(K, Append(sh, o)) = Row(K, sh) \o K[o] /\ K[o] \in Seq(T)
  BY <1>2, RowStep
<1> HIDE DEF T
<1>4. PICK o \in T, more \in Seq(T) : o = Head(rest) /\ more = Tail(rest)
  BY <1>1, HeadTailProperties
<1>5. /\ Head(q) = o /\ Tail(q) = more \o below /\ Len(more) = Len(rest) - 1
      /\ Append(sh, o) \o more = row
  <2>1. q = rest \o below
    BY <1>1, <1>3, Zenon
  <2>2. /\ Head(rest \o below) = Head(rest) /\ Tail(rest \o below) = Tail(rest) \o below
        /\ Len(Tail(rest)) = Len(rest) - 1 /\ Append(sh, Head(rest)) \o Tail(rest) = sh \o rest
    <3>1. rest # <<>>
      BY <1>1
    <3>2. Moves(sh, rest, below)
      BY <1>a, <3>1, TakeFirst
    <3>q. QED
      BY <3>2, Zenon DEF Moves
  <2>q. QED
    BY <1>1, <1>4, <2>1, <2>2, Zenon
<1>6. o # root
  <2>1. Flat(h, rest, e)
    BY <1>1, <1>a, FlatParts
  <2>2. 1 \in 1..Len(rest) /\ rest[1] = o
    BY <1>1, <1>4
  <2>3. h[o] = e
    BY <2>1, <2>2 DEF Flat
  <2>q. QED
    BY <1>1, <1>2, <2>3
<1>7. more # <<>>
  <2>1. Len(rest) # 1 /\ Len(rest) \in Nat
    <3>1. Len(rest) \in Nat
      BY LenProperties
    <3>2. Len(rest) = 1 => p + Len(rest) - 1 = p
      OBVIOUS
    <3>3. till = p + Len(rest) - 1
      BY <1>1, Zenon
    <3>q. QED
      BY <3>1, <3>2, <3>3, Zenon
  <2>2. Len(more) # 0
    <3>1. Len(more) = Len(rest) - 1
      BY <1>5, Zenon
    <3>q. QED
      BY <2>1, <3>1
  <2>q. QED
    BY <2>2, EmptySeq
<1>8. Row(K, Append(sh, o)) = Row(K, sh) \o K[o] /\ K[o] \in Seq(T)
  BY <1>b
<1>9. Tail(q) \o K[o] = more \o Row(K, Append(sh, o))
  <2>1. PICK kids \in Seq(T) : kids = K[o]
    BY <1>8
  <2>2. (more \o below) \o kids = more \o (below \o kids)
    BY ConcatAssociative, SMTT(15)
  <2>q. QED
    BY <1>3, <1>5, <1>8, <2>1, <2>2, Zenon
<1>10. Len(Row(K, Append(sh, o))) = ch + Len(K[o])
  <2>1. Len(below \o K[o]) = Len(below) + Len(K[o])
    BY <1>8, ConcatProperties, Zenon
  <2>q. QED
    BY <1>1, <1>3, <1>8, <2>1, Zenon
<1>11. till = p + 1 + Len(more) - 1
  <2>1. Len(rest) \in Nat
    OBVIOUS
  <2>q. QED
    BY <1>1, <1>5, <2>1
<1>12. Within(K, h, root, row, Append(sh, o), Tail(q) \o K[o], p + 1, till, ch + Len(K[o]))
  BY <1>1, <1>5, <1>7, <1>9, <1>10, <1>11 DEF Within, T
<1>q. QED
  BY <1>5, <1>6, <1>12 DEF T

\* At the last node of a row the row below is in the queue, whole; what is left of the queue tells
\* whether it has nodes.
RowEnds(K, h, root, row, sh, q, p, ch) ==
  /\ Head(q) \in DOMAIN K /\ Head(q) # root
  /\ row = Append(sh, Head(q)) /\ Tail(q) \o K[Head(q)] = Row(K, row)
  /\ Tail(q) = <<>> => Row(K, row) = <<>>
  /\ Tail(q) # <<>> => Within(K, h, root, Row(K, row), <<>>, Tail(q) \o K[Head(q)], p + 1,
                              p + ch + Len(K[Head(q)]), 0)

LEMMA WithinLast ==
  ASSUME NEW K, NEW h, Family(K, h), NEW root \in DOMAIN K, NEW row, NEW sh \in Seq(DOMAIN K),
         NEW q, NEW p \in Int, NEW till, NEW ch, Within(K, h, root, row, sh, q, p, till, ch), p = till
  PROVE  RowEnds(K, h, root, row, sh, q, p, ch)
<1> DEFINE T == DOMAIN K
<1>1. PICK rest \in Seq(T), e \in Nat :
        /\ rest # <<>> /\ sh \o rest = row /\ Len(row) # 1
        /\ q = rest \o Row(K, sh) /\ ch = Len(Row(K, sh)) /\ till = p + Len(rest) - 1
        /\ e < h[root] /\ Flat(h, row, e)
  BY DEF Within
<1>2. K \in [T -> Seq(T)] /\ h \in [T -> Nat]
  BY DEF Family
<1>3. Row(K, sh) \in Seq(T) /\ Row(K, <<>>) = <<>>
  BY <1>2, RowStep
<1>4. PICK o \in T : o = rest[1] /\ rest = <<o>>
  <2>1. Len(rest) = 1
    <3>1. \A x \in Int, n \in Nat : x = x + n - 1 => n = 1
      OBVIOUS
    <3>2. Len(rest) \in Nat
      OBVIOUS
    <3>q. QED
      BY <1>1, <3>1, <3>2, Zenon
  <2>2. rest[1] \in T /\ rest = <<rest[1]>>
    <3>1. rest[1] \in T /\ <<rest[1]>> \in Seq(T) /\ Len(<<rest[1]>>) = 1 /\ <<rest[1]>>[1] = rest[1]
      BY <2>1
    <3>2. \A i \in 1..Len(rest) : rest[i] = <<rest[1]>>[i]
      BY <2>1
    <3>q. QED
      BY <2>1, <3>1, <3>2, SeqEqual
  <2>q. QED
    BY <2>2
<1>5. Head(q) = o /\ Tail(q) = Row(K, sh) /\ Append(sh, o) = row
  <2>1. Head(rest) = o /\ Tail(rest) = <<>>
    BY <1>4
  <2>2. PICK below \in Seq(T) : below = Row(K, sh)
    BY <1>3
  <2>4. /\ Head(rest \o below) = Head(rest) /\ Tail(rest \o below) = Tail(rest) \o below
        /\ Append(sh, Head(rest)) \o Tail(rest) = sh \o rest
    <3>1. rest # <<>> /\ sh \in Seq(T)
      BY <1>1
    <3>2. Moves(sh, rest, below)
      BY <3>1, TakeFirst
    <3>q. QED
      BY <3>2, Zenon DEF Moves
  <2>5. /\ Head(q) = o /\ Tail(q) = <<>> \o Row(K, sh) /\ Append(sh, o) \o <<>> = row
    BY <1>1, <2>1, <2>2, <2>4, Zenon
  <2>3. Append(sh, o) \in Seq(T)
    BY AppendProperties
  <2>q. QED
    BY <1>3, <2>3, <2>5, ConcatEmptySeq
<1>6. Row(K, row) = Row(K, sh) \o K[o] /\ K[o] \in Seq(T) /\ row \in Seq(T)
  BY <1>2, <1>5, RowStep, AppendProperties
<1>7. h[o] = e /\ Flat(h, sh, e)
  <2>1. Flat(h, rest, e) /\ Flat(h, sh, e)
    BY <1>1, FlatParts
  <2>2. 1 \in 1..Len(rest)
    BY <1>4
  <2>q. QED
    BY <1>4, <2>1, <2>2 DEF Flat
<1>8. o # root
  BY <1>1, <1>2, <1>7
<1>9. /\ Row(K, row) \in Seq(T) /\ Len(Row(K, row)) # 1 /\ Flat(h, Row(K, row), e - 1)
      /\ Row(K, row) = <<>> <=> e = 0
  <2>1. row # <<>>
    BY <1>5, AppendProperties
  <2>2. row \in Seq(DOMAIN K) /\ Flat(h, row, e)
    BY <1>1, <1>6
  <2>3. /\ Row(K, row) \in Seq(DOMAIN K) /\ Len(Row(K, row)) # 1 /\ Flat(h, Row(K, row), e - 1)
        /\ row # <<>> => (Row(K, row) = <<>> <=> e = 0)
    BY <2>2, RowFlat
  <2>q. QED
    BY <2>1, <2>3, Zenon
<1>10. ASSUME Row(K, sh) = <<>> PROVE Row(K, row) = <<>>
  <2>1. sh # <<>>
    <3>1. sh = <<>> => Len(Append(sh, o)) = 1
      OBVIOUS
    <3>q. QED
      BY <1>1, <1>5, <3>1
  <2>2. e = 0
    BY <1>7, <1>10, <2>1, RowFlat
  <2>q. QED
    BY <1>9, <2>2
<1>11. ASSUME Row(K, sh) # <<>>
       PROVE  Within(K, h, root, Row(K, row), <<>>, Row(K, row), p + 1, p + ch + Len(K[o]), 0)
  <2>1. Row(K, row) # <<>> /\ Len(Row(K, row)) = ch + Len(K[o]) /\ ch \in Nat /\ Len(K[o]) \in Nat
    BY <1>1, <1>3, <1>6, <1>11, ConcatProperties, ConcatEqualIffEmpty, LenProperties
  <2>2. e - 1 \in Nat /\ e - 1 < h[root]
    <3>1. e # 0
      BY <1>9, <2>1
    <3>2. h[root] \in Nat /\ e < h[root]
      BY <1>1, <1>2
    <3>q. QED
      BY <3>1, <3>2
  <2>3. <<>> \o Row(K, row) = Row(K, row) /\ Row(K, row) \o Row(K, <<>>) = Row(K, row)
    BY <1>3, <1>9, ConcatEmptySeq
  <2>4. p + ch + Len(K[o]) = p + 1 + Len(Row(K, row)) - 1 /\ 0 = Len(Row(K, <<>>))
    BY <1>3, <2>1
  <2>q. QED
    BY <1>9, <2>1, <2>2, <2>3, <2>4 DEF Within
<1>12. /\ Head(q) \in DOMAIN K /\ Head(q) # root
       /\ row = Append(sh, Head(q)) /\ Tail(q) \o K[Head(q)] = Row(K, row)
       /\ Tail(q) = <<>> => Row(K, row) = <<>>
       /\ Tail(q) # <<>> => Within(K, h, root, Row(K, row), <<>>, Tail(q) \o K[Head(q)], p + 1,
                                   p + ch + Len(K[Head(q)]), 0)
  BY <1>5, <1>6, <1>8, <1>10, <1>11
<1>q. QED
  BY <1>12, Zenon DEF RowEnds

\* The root: its children, if it has any, are the first row in the queue.
LEMMA WithinFirst ==
  ASSUME NEW K, NEW h, Family(K, h), NEW root \in DOMAIN K, NEW p \in Int
  PROVE  /\ Row(K, <<root>>) = K[root]
         /\ K[root] # <<>> => Within(K, h, root, K[root], <<>>, K[root], p + 1, p + Len(K[root]), 0)
<1> DEFINE T == DOMAIN K
<1>1. K \in [T -> Seq(T)] /\ h \in [T -> Nat] /\ K[root] \in Seq(T) /\ Len(K[root]) \in Nat
  BY LenProperties DEF Family
<1>2. Row(K, <<>>) = <<>> /\ Row(K, Append(<<>>, root)) = Row(K, <<>>) \o K[root]
  <2>1. <<>> \in Seq(T)
    OBVIOUS
  <2>q. QED
    BY <1>1, <2>1, RowStep
<1>3. Append(<<>>, root) = <<root>> /\ <<>> \o K[root] = K[root] /\ K[root] \o <<>> = K[root]
  BY <1>1, ConcatEmptySeq
<1>4. ASSUME K[root] # <<>> PROVE Within(K, h, root, K[root], <<>>, K[root], p + 1, p + Len(K[root]), 0)
  <2>1. Len(K[root]) # 1 /\ h[root] # 0 /\ Flat(h, K[root], h[root] - 1)
    BY <1>4 DEF Family, Flat
  <2>2. h[root] \in Nat /\ h[root] - 1 \in Nat /\ h[root] - 1 < h[root]
    BY <1>1, <2>1
  <2>3. p + Len(K[root]) = p + 1 + Len(K[root]) - 1 /\ 0 = Len(Row(K, <<>>))
    BY <1>1, <1>2
  <2>q. QED
    BY <1>1, <1>2, <1>3, <1>4, <2>1, <2>2, <2>3 DEF Within
<1>q. QED
  BY <1>2, <1>3, <1>4
-----------------------------------------------------------------------------
(* The child offsets behind the last child *)

\* Nothing follows the place of the last child of a node.
Ends(nd) == \A i \in 1..Order : i > nd.n + 1 => nd.kids[i] = NoOffset
Ended    == \A s \in Slots : Ends(nodes[s])

LEMMA WrittenEnd ==
  ASSUME NEW a \in AuxNode
  PROVE  /\ Ends(LeftOf(a)) /\ Ends(RightOf(a))
         /\ \A k : Ends(RootOf(k))
         /\ \A k, left, right : Ends(NewRootOf(k, left, right))
<1>1. Order \in Nat /\ Order >= 2 /\ NoOffset = Filler
  BY OrderAssumption DEF NoOffset, Filler
<1>2. Ends(LeftOf(a))
  <2>1. LeftOf(a).n = SplitIndex
    BY DEF LeftOf
  <2>2. \A i \in 1..Order : LeftOf(a).kids[i] = IF i <= SplitIndex + 1 THEN a.kids[i] ELSE Filler
    BY DEF LeftOf
  <2>3. \A i \in 1..Order : i > SplitIndex + 1 => ~(i <= SplitIndex + 1)
    BY <1>1 DEF SplitIndex
  <2>q. QED
    BY <1>1, <2>1, <2>2, <2>3 DEF Ends
<1>3. Ends(RightOf(a))
  <2> DEFINE n == Order - 1 - SplitIndex
  <2>1. RightOf(a).n = n
    BY DEF RightOf
  <2>2. \A i \in 1..Order : RightOf(a).kids[i] = IF i <= n + 1 THEN a.kids[SplitIndex + 1 + i] ELSE Filler
    BY DEF RightOf
  <2>3. \A i \in 1..Order : i > n + 1 => ~(i <= n + 1)
    BY <1>1 DEF SplitIndex
  <2> HIDE DEF n
  <2>q. QED
    BY <1>1, <2>1, <2>2, <2>3 DEF Ends
<1>4. \A k : Ends(RootOf(k))
  BY <1>1 DEF Ends, RootOf
<1>5. \A k, left, right : Ends(NewRootOf(k, left, right))
  BY <1>1 DEF Ends, NewRootOf
<1>q. QED
  BY <1>2, <1>3, <1>4, <1>5

LEMMA ParentEnds ==
  ASSUME NEW nd \in Node, Ends(nd), NEW k \in Int, NEW right
  PROVE  Ends(Narrowed(WithSplit(nd, k, right)))
<1> DEFINE p == Position(nd, k)
           w == WithSplit(nd, k, right)
<1>1. Order \in Nat /\ Order >= 2 /\ nd.n \in 0..(Order - 1) /\ p \in 1..(nd.n + 1)
  BY OrderAssumption, NodePosition DEF Node
<1>2. w.n = nd.n + 1
  BY DEF WithSplit, Inserted, Widened
<1>3. \A i \in 1..(Order + 1) :
        w.kids[i] = IF i <= p THEN Widened(nd).kids[i]
                    ELSE IF i = p + 1 THEN right ELSE Widened(nd).kids[i - 1]
  BY DEF WithSplit, Inserted
<1>4. \A i \in 1..Order : Widened(nd).kids[i] = nd.kids[i]
  BY <1>1 DEF Widened
<1>5. Narrowed(w).n = w.n /\ \A i \in 1..Order : Narrowed(w).kids[i] = w.kids[i]
  BY DEF Narrowed
<1> HIDE DEF p, w
<1>6. ASSUME NEW i \in 1..Order, i > nd.n + 2 PROVE w.kids[i] = NoOffset
  <2>1. i \in 1..(Order + 1) /\ ~(i <= p) /\ i # p + 1 /\ i - 1 \in 1..Order /\ i - 1 > nd.n + 1
    BY <1>1, <1>6
  <2>2. w.kids[i] = nd.kids[i - 1]
    BY <1>3, <1>4, <2>1
  <2>q. QED
    BY <2>1, <2>2 DEF Ends
<1>7. \A i \in Nat : i > nd.n + 1 + 1 => i > nd.n + 2
  BY <1>1
<1>8. Ends(Narrowed(w))
  BY <1>1, <1>2, <1>5, <1>6, <1>7 DEF Ends
<1>q. QED
  BY <1>8 DEF w

\* Each step leaves every node as it is or writes one of these.
LEMMA StepEnded ==
  ASSUME Cuts = {}, TypeOK, OffsetsSound, Ended, [Next]_vars
  PROVE  Ended'
<1> DEFINE Writes(nd) == \A s \in Slots' : nodes'[s] = nd \/ (s \in Slots /\ nodes'[s] = nodes[s])
<1>0. nodes \in Seq(Node) /\ aux \in AuxNode
  BY DEF TypeOK
<1>a. ASSUME NEW nd, Ends(nd), Writes(nd) PROVE Ended'
  <2>1. ASSUME NEW s \in Slots' PROVE Ends(nodes'[s])
    <3>1. CASE nodes'[s] = nd
      BY <1>a, <3>1
    <3>2. CASE s \in Slots /\ nodes'[s] = nodes[s]
      BY <3>2 DEF Ended
    <3>q. QED
      BY <1>a, <3>1, <3>2
  <2>q. QED
    BY <2>1 DEF Ended, Ends
<1>b. ASSUME NEW o, NEW nd, nodes' = [nodes EXCEPT ![o] = nd] PROVE Writes(nd)
  BY <1>0, <1>b DEF Slots
<1>c. ASSUME NEW nd, nodes' = Append(nodes, nd) PROVE Writes(nd)
  BY <1>0, <1>c DEF Slots
<1>1. CASE nodes' = nodes
  BY <1>1 DEF Ended, Slots, Ends
<1>2. CASE SplitLeft
  <2>1. nodes' = [nodes EXCEPT ![LeftOffset] = LeftOf(aux)]
    BY <1>2, Zenon DEF SplitLeft, write_node_at_offset
  <2>2. Writes(LeftOf(aux))
    BY <1>b, <2>1
  <2>3. Ends(LeftOf(aux))
    BY <1>0, WrittenEnd
  <2>q. QED
    BY <1>a, <2>2, <2>3
<1>3. CASE SplitRight
  <2>1. nodes' = Append(nodes, RightOf(aux))
    <3>1. root_offset # NoOffset
      BY <1>3, SlotsType, <1>0 DEF SplitRight, OffsetsSound, StackSound
    <3>q. QED
      BY <1>3, <3>1, Zenon DEF SplitRight, write_node
  <2>q. QED
    BY <1>0, <1>a, <1>c, <2>1, WrittenEnd
<1>4. CASE LinkParent
  <2>1. SUFFICES ASSUME nodes' = [nodes EXCEPT ![next_parent] = Narrowed(Parent)] PROVE Ended'
    BY <1>1, <1>4, Zenon DEF LinkParent, write_node_at_offset, disk
  <2>2. next_parent \in Slots /\ aux.n = Order
    BY <1>4 DEF LinkParent, OffsetsSound, SplitSound
  <2>3. nodes[next_parent] \in Node /\ Ends(nodes[next_parent]) /\ SplitValue(aux) \in Int
    <3>1. SplitIndex + 1 \in 1..Order
      BY OrderAssumption DEF SplitIndex
    <3>2. SplitValue(aux) \in Int
      BY <1>0, <3>1 DEF SplitValue, AuxNode
    <3>q. QED
      BY <1>0, <2>2, <3>2, SlotsType DEF Ended
  <2>4. Ends(Narrowed(Parent))
    BY <2>3, ParentEnds DEF Parent
  <2>q. QED
    BY <1>a, <1>b, <2>1, <2>4
<1>5. CASE NewRoot
  <2>1. nodes' = Append(nodes, NewRootOf(SplitValue(aux), root_offset, right_offset))
    BY <1>5, Zenon DEF NewRoot
  <2>q. QED
    BY <1>0, <1>a, <1>c, <2>1, WrittenEnd
<1>6. CASE AddRoot
  <2>1. root_offset = NoOffset /\ nodes' = <<RootOf(key)>> \o SubSeq(nodes, 2, Len(nodes))
    BY <1>6, Zenon DEF AddRoot, write_node
  <2>2. RootOf(key) \in Node /\ RootOf(key).n = 1 /\ \A i \in 1..Order : Kid(RootOf(key).kids[i])
    <3>1. Int \subseteq Int /\ Filler \in Int /\ key \in Int
      BY DEF Filler, TypeOK
    <3>2. RootOf(key) \in Node /\ RootOf(key).n = 1
      BY <3>1, RootsType
    <3>3. \A i \in 1..Order : Kid(RootOf(key).kids[i])
      BY DEF RootOf, Kid, Filler, NoOffset
    <3>q. QED
      BY <3>2, <3>3
  <2>3. PICK nd \in Node : nd = RootOf(key) /\ nd.n >= 1 /\ \A i \in 1..Order : Kid(nd.kids[i])
    BY <2>2
  <2>4. Writes(nd)
    BY <1>0, <2>1, <2>3, WriteFirst DEF OffsetsSound
  <2>q. QED
    BY <1>0, <1>a, <2>3, <2>4, WrittenEnd
<1>q. QED
  <2>1. CASE UNCHANGED vars
    BY <1>1, <2>1, Zenon DEF vars, disk
  <2>2. CASE Open \/ print_tree \/ End \/ Eof \/ Kill \/ (\E o \in {"add", "find"}, k \in CommandKeys : Command(o, k))
    BY <1>1, <2>2, Zenon DEF Open, print_tree, End, Eof, Kill, Command, disk
  <2>3. CASE FindEmpty \/ FindOpen \/ OpenFails \/ FindStep \/ Answer
    BY <1>1, <2>3, Zenon DEF FindEmpty, FindOpen, OpenFails, FindStep, Answer, disk
  <2>4. CASE StartAdd \/ ParentsOpen \/ DescendNoKeys \/ Descend \/ insert_in_node \/ add_key_to_tree
    BY <1>1, <2>4, Zenon DEF StartAdd, ParentsOpen, DescendNoKeys, Descend, insert_in_node, add_key_to_tree, disk
  <2>5. CASE \E c \in Cuts : KillInWrite(c)
    BY <2>5
  <2>q. QED
    BY <1>2, <1>3, <1>4, <1>5, <1>6, <2>1, <2>2, <2>3, <2>4, <2>5, Zenon DEF Next, Serve
-----------------------------------------------------------------------------
(* The family of a tree *)

\* Where all children come first, print_tree reads all of them.
LEMMA KidsRead ==
  ASSUME NEW kids \in [1..Order -> Int], NEW n \in 0..Order,
         \A i \in 1..n : kids[i] # NoOffset, \A i \in 1..Order : i > n => kids[i] = NoOffset
  PROVE  /\ KidCount(kids) = n
         /\ Flattened([i \in 1..Order |-> IF kids[i] = NoOffset THEN <<>> ELSE <<kids[i]>>])
              = SubSeq(kids, 1, n)
<1>1. Order \in Nat
  BY OrderAssumption
<1>2. KidCount(kids) = n
  <2> DEFINE Stop(m) == (\A i \in 1..m : kids[i] # NoOffset) /\ (m < Order => kids[m + 1] = NoOffset)
  <2>1. Stop(n)
    <3>1. n < Order => n + 1 \in 1..Order /\ n + 1 > n
      BY <1>1
    <3>q. QED
      BY <3>1
  <2>2. ASSUME NEW m \in 0..Order, Stop(m) PROVE m = n
    <3>1. CASE m < n
      <4>1. m + 1 \in 1..n /\ m < Order
        BY <1>1, <3>1
      <4>q. QED
        BY <2>2, <4>1
    <3>2. CASE m > n
      <4>1. n + 1 \in 1..m /\ n + 1 \in 1..Order /\ n + 1 > n
        BY <1>1, <3>2
      <4>q. QED
        BY <2>2, <4>1
    <3>q. QED
      BY <1>1, <3>1, <3>2
  <2>3. KidCount(kids) = CHOOSE m \in 0..Order : Stop(m)
    BY DEF KidCount
  <2> HIDE DEF Stop
  <2>q. QED
    BY <2>1, <2>2, <2>3
<1>3. Flattened([i \in 1..Order |-> IF kids[i] = NoOffset THEN <<>> ELSE <<kids[i]>>]) = SubSeq(kids, 1, n)
  <2> DEFINE ss == [i \in 1..Order |-> IF kids[i] = NoOffset THEN <<>> ELSE <<kids[i]>>]
             g == [i \in 0..Order |-> SubSeq(kids, 1, IF i <= n THEN i ELSE n)]
  <2>1. ss \in Seq(Seq(Int)) /\ Len(ss) = Order
    <3>1. \A i \in 1..Order : (IF kids[i] = NoOffset THEN <<>> ELSE <<kids[i]>>) \in Seq(Int)
      OBVIOUS
    <3>q. QED
      BY <1>1, <3>1
  <2>2. kids \in Seq(Int) /\ Len(kids) = Order
    BY <1>1
  <2>3. ASSUME NEW m \in 0..n
        PROVE  /\ SubSeq(kids, 1, m) \in Seq(Int) /\ SubSeq(kids, 1, 0) = <<>>
               /\ m # 0 => SubSeq(kids, 1, m) = SubSeq(kids, 1, m - 1) \o <<kids[m]>>
    <3>1. SubSeq(kids, 1, m) \in Seq(Int)
      <4>1. \A i \in 1..m : kids[i] \in Int
        BY <1>1
      <4>q. QED
        BY <4>1, SubSeqProperties
    <3>2. SubSeq(kids, 1, 0) = <<>>
      BY SubSeqEmpty
    <3>3. ASSUME m # 0 PROVE SubSeq(kids, 1, m) = SubSeq(kids, 1, m - 1) \o <<kids[m]>>
      <4>1. 1 \in 1..Len(kids) /\ m \in 1..Len(kids)
        BY <1>1, <2>2, <3>3
      <4>q. QED
        BY <2>2, <4>1, SubSeqRecursiveSecond
    <3>q. QED
      BY <3>1, <3>2, <3>3
  <2>4. g \in [0..Order -> Seq(Int)]
    <3>1. \A i \in 0..Order : (IF i <= n THEN i ELSE n) \in 0..n
      BY <1>1
    <3>q. QED
      BY <2>3, <3>1
  <2>5. g[0] = <<>> /\ g[Order] = SubSeq(kids, 1, n)
    <3>1. 0 \in 0..Order /\ Order \in 0..Order /\ 0 <= n /\ (Order <= n => Order = n) /\ 0 \in 0..n
      BY <1>1
    <3>2. g[0] = SubSeq(kids, 1, 0) /\ g[Order] = SubSeq(kids, 1, n)
      BY <3>1
    <3>q. QED
      BY <2>3, <3>1, <3>2
  <2>6. ASSUME NEW i \in 1..Order PROVE g[i] = g[i - 1] \o ss[i]
    <3>1. i \in 0..Order /\ i - 1 \in 0..Order
      BY <1>1
    <3>2. CASE i <= n
      <4>1. i \in 1..n /\ i \in 0..n /\ i # 0 /\ i - 1 <= n
        BY <1>1, <3>2
      <4>2. g[i] = SubSeq(kids, 1, i) /\ g[i - 1] = SubSeq(kids, 1, i - 1) /\ ss[i] = <<kids[i]>>
        BY <3>1, <3>2, <4>1
      <4>3. SubSeq(kids, 1, i) = SubSeq(kids, 1, i - 1) \o <<kids[i]>>
        BY <2>3, <4>1
      <4>q. QED
        BY <4>2, <4>3, Zenon
    <3>3. CASE ~(i <= n)
      <4>1. g[i] = SubSeq(kids, 1, n) /\ ss[i] = <<>>
        BY <1>1, <3>1, <3>3
      <4>2. g[i - 1] = SubSeq(kids, 1, n)
        <5>1. i - 1 <= n => i - 1 = n
          BY <1>1, <3>3
        <5>q. QED
          BY <3>1, <5>1
      <4>3. SubSeq(kids, 1, n) \in Seq(Int)
        <5>1. n \in 0..n
          OBVIOUS
        <5>q. QED
          BY <2>3, <5>1
      <4>4. SubSeq(kids, 1, n) \o <<>> = SubSeq(kids, 1, n)
        BY <4>3, ConcatEmptySeq
      <4>q. QED
        BY <4>1, <4>2, <4>4, Zenon
    <3>q. QED
      BY <3>2, <3>3
  <2> HIDE DEF g, ss
  <2>7. Flattened(ss) = g[Len(ss)]
    BY <2>1, <2>4, <2>5, <2>6, FlattenedIs
  <2>q. QED
    BY <2>1, <2>5, <2>7 DEF ss
<1>q. QED
  BY <1>2, <1>3

\* The nodes of a forest, with their children from left to right, are a family; print_tree reads it.
LEMMA TreeFamily ==
  ASSUME TypeOK, OffsetsSound, Ended, NEW T, NEW h, NEW iv, Forest(T, h, iv, nodes)
  PROVE  LET K == [s \in T |-> KidsInOrder(s)]
         IN  Family(K, h) /\ \A s \in T : ChildrenAt(s) = K[s]
<1> DEFINE K == [s \in T |-> KidsInOrder(s)]
<1>1. Order \in Nat /\ Order >= 2
  BY OrderAssumption
<1>2. /\ T \subseteq Slots /\ NoOffset \notin T /\ Header \notin T /\ h \in [T -> Nat]
      /\ \A s \in T : nodes[s] \in Node
  BY ForestSlots, SlotsType DEF TypeOK
<1>3. ASSUME NEW s \in T
      PROVE  /\ KidsInOrder(s) \in Seq(T) /\ ChildrenAt(s) = KidsInOrder(s)
             /\ Len(KidsInOrder(s)) # 1 /\ (KidsInOrder(s) = <<>> <=> h[s] = 0)
             /\ \A i \in 1..Len(KidsInOrder(s)) : h[KidsInOrder(s)[i]] = h[s] - 1
  <2>1. s \in Slots /\ nodes[s] \in Node /\ h[s] \in Nat
    BY <1>2
  <2>2. PICK nd \in Node : nd = nodes[s] /\ nd.n >= 1 /\ Ends(nd) /\ Fits(T, h, iv, nd, h[s], iv[s])
    BY <2>1 DEF Ended, Forest, OffsetsSound, NodesSound
  <2>3. PICK kids \in [1..Order -> Int] : kids = nd.kids
    BY DEF Node, Children
  <2> DEFINE n == IF h[s] = 0 THEN 0 ELSE nd.n + 1
  <2>4. nd.n \in 0..(Order - 1) /\ n \in 0..Order
    BY <1>1 DEF Node
  <2>5. \A i \in 1..n : kids[i] \in T /\ h[kids[i]] = h[s] - 1
    BY <2>2, <2>3 DEF Fits
  <2>6. \A i \in 1..Order : i > n => kids[i] = NoOffset
    <3>1. ASSUME NEW i \in 1..Order, i > n PROVE kids[i] = NoOffset
      <4>1. CASE i > nd.n + 1
        BY <2>2, <2>3, <4>1 DEF Ends
      <4>2. CASE ~(i > nd.n + 1)
        <5>1. i \in 1..(nd.n + 1) /\ h[s] = 0
          BY <2>4, <3>1, <4>2
        <5>q. QED
          BY <2>2, <2>3, <5>1 DEF Fits
      <4>q. QED
        BY <4>1, <4>2
    <3>q. QED
      BY <3>1
  <2>7. n # 1 /\ (n = 0 <=> h[s] = 0)
    BY <2>2, <2>4
  <2> HIDE DEF n
  <2>8. \A i \in 1..n : kids[i] # NoOffset
    BY <1>2, <2>5
  <2>9. /\ KidCount(kids) = n
        /\ Flattened([i \in 1..Order |-> IF kids[i] = NoOffset THEN <<>> ELSE <<kids[i]>>]) = SubSeq(kids, 1, n)
    BY <2>4, <2>6, <2>8, KidsRead
  <2>10. KidsInOrder(s) = SubSeq(kids, 1, n)
    BY <2>2, <2>3, <2>9, Zenon DEF KidsInOrder
  <2>11. ChildrenAt(s) = SubSeq(kids, 1, n)
    BY <1>2, <2>2, <2>3, <2>9, Zenon DEF ChildrenAt
  <2>12. /\ SubSeq(kids, 1, n) \in Seq(T) /\ Len(SubSeq(kids, 1, n)) = n
         /\ \A i \in 1..n : SubSeq(kids, 1, n)[i] = kids[i]
    <3>1. 1 \in Int /\ n \in Int /\ \A i \in 1..n : kids[i] \in T
      BY <1>1, <2>4, <2>5
    <3>2. /\ SubSeq(kids, 1, n) \in Seq(T)
          /\ Len(SubSeq(kids, 1, n)) = IF 1 <= n THEN n - 1 + 1 ELSE 0
          /\ \A i \in 1..(n - 1 + 1) : SubSeq(kids, 1, n)[i] = kids[1 + i - 1]
      BY <3>1, SubSeqProperties
    <3>3. \A i \in 1..n : i \in 1..(n - 1 + 1) /\ 1 + i - 1 = i
      BY <2>4
    <3>4. (IF 1 <= n THEN n - 1 + 1 ELSE 0) = n
      BY <2>4
    <3>q. QED
      BY <3>2, <3>3, <3>4
  <2>13. SubSeq(kids, 1, n) = <<>> <=> n = 0
    <3>1. PICK t \in Seq(T) : t = SubSeq(kids, 1, n)
      BY <2>12
    <3>2. t = <<>> <=> Len(t) = 0
      BY EmptySeq
    <3>q. QED
      BY <2>12, <3>1, <3>2
  <2>q. QED
    BY <2>5, <2>7, <2>10, <2>11, <2>12, <2>13
<1>4. DOMAIN K = T /\ \A s \in T : K[s] = KidsInOrder(s)
  OBVIOUS
<1>5. K \in [T -> Seq(T)]
  BY <1>3
<1> HIDE DEF K
<1>6. Family(K, h)
  BY <1>2, <1>3, <1>4, <1>5 DEF Family
<1>7. \A s \in T : ChildrenAt(s) = K[s]
  BY <1>3, <1>4
<1>q. QED
  BY <1>6, <1>7 DEF K
-----------------------------------------------------------------------------
(* The lines and the queue *)

Lines(T) == Seq([level : Nat, nodes : Seq(T)])

\* The nodes that line d has to show.
Due(K, root, ls, d) == IF d = 1 THEN <<root>> ELSE Row(K, ls[d - 1].nodes)

\* The lines have their numbers, and all but the last show what they have to.
Told(K, root, ls) ==
  /\ ls \in Lines(DOMAIN K) /\ Len(ls) >= 1
  /\ \A d \in 1..Len(ls) : ls[d].level = d
  /\ \A d \in 1..(Len(ls) - 1) : ls[d].nodes # <<>> /\ ls[d].nodes = Due(K, root, ls, d)

WithNode(ls, o) == [ls EXCEPT ![Len(ls)].nodes = Append(@, o)]

\* The lines ms are ls with the node o on the last one.
HasNode(K, root, ls, o, ms) ==
  /\ Told(K, root, ms) /\ Len(ms) = Len(ls)
  /\ ms[Len(ls)].nodes = Append(ls[Len(ls)].nodes, o)
  /\ Due(K, root, ms, Len(ls)) = Due(K, root, ls, Len(ls))

LEMMA NodeTold ==
  ASSUME NEW K, NEW root, NEW ls, Told(K, root, ls), NEW o \in DOMAIN K
  PROVE  HasNode(K, root, ls, o, WithNode(ls, o))
<1> DEFINE T == DOMAIN K
           L == [level : Nat, nodes : Seq(T)]
<1>0. ls \in Seq(L) /\ Len(ls) >= 1
  BY Zenon DEF Told, Lines
<1>1. PICK n \in Nat, l \in L : n = Len(ls) /\ n >= 1 /\ ls \in Seq(L) /\ l = ls[n]
  <2>1. Len(ls) \in Nat /\ Len(ls) \in 1..Len(ls) /\ ls[Len(ls)] \in L
    <3> HIDE DEF L
    <3>q. QED
      BY <1>0
  <2>q. QED
    BY <1>0, <2>1, Zenon
<1>2. PICK m \in L : m = [l EXCEPT !.nodes = Append(@, o)] /\ m.level = l.level /\ m.nodes = Append(l.nodes, o)
  <2>1. l.nodes \in Seq(T) /\ l.level \in Nat /\ Append(l.nodes, o) \in Seq(T)
    BY AppendProperties
  <2>2. PICK c \in Seq(T) : c = Append(l.nodes, o)
    BY <2>1
  <2>3. /\ [l EXCEPT !.nodes = c] \in L
        /\ [l EXCEPT !.nodes = c].level = l.level /\ [l EXCEPT !.nodes = c].nodes = c
    OBVIOUS
  <2>q. QED
    BY <2>2, <2>3, Zenon
<1>3. WithNode(ls, o) = [ls EXCEPT ![n] = m]
  BY <1>1, <1>2 DEF WithNode
<1>4. PICK us \in Seq(L) : us = WithNode(ls, o) /\ Len(us) = n /\ us[n] = m
                           /\ \A d \in 1..(n - 1) : us[d] = ls[d]
  <2>1. n \in 1..Len(ls)
    BY <1>1
  <2>2. /\ [ls EXCEPT ![n] = m] \in Seq(L) /\ Len([ls EXCEPT ![n] = m]) = Len(ls)
        /\ \A d \in 1..Len(ls) : [ls EXCEPT ![n] = m][d] = IF d = n THEN m ELSE ls[d]
    BY <1>1, <2>1, ExceptSeq
  <2>3. \A d \in 1..(n - 1) : d \in 1..Len(ls) /\ d # n
    BY <1>1
  <2>q. QED
    BY <1>1, <1>3, <2>1, <2>2, <2>3
<1>5. \A d \in 1..(n - 1) : d \in 1..n /\ (d # 1 => d - 1 \in 1..(n - 1))
  BY <1>1
<1>6. \A d \in 1..n : d # n => d \in 1..(n - 1)
  BY <1>1
<1>7. \A d \in 1..n : d # 1 => d - 1 \in 1..(n - 1)
  BY <1>1
<1>8. \A d \in 1..n : Due(K, root, us, d) = Due(K, root, ls, d)
  BY <1>4, <1>7, Zenon DEF Due
<1>9. \A d \in 1..n : us[d].level = d
  <2>1. \A d \in 1..n : ls[d].level = d
    BY <1>1 DEF Told
  <2>q. QED
    BY <1>1, <1>2, <1>4, <1>6, <2>1
<1>10. \A d \in 1..(n - 1) : us[d].nodes # <<>> /\ us[d].nodes = Due(K, root, us, d)
  <2>1. \A d \in 1..(n - 1) : ls[d].nodes # <<>> /\ ls[d].nodes = Due(K, root, ls, d)
    BY <1>1 DEF Told
  <2>q. QED
    BY <1>4, <1>5, <1>8, <2>1
<1>11. Told(K, root, us)
  BY <1>1, <1>4, <1>9, <1>10 DEF Told, Lines
<1>12. n \in 1..n
  BY <1>1
<1>13. HasNode(K, root, ls, o, us)
  BY <1>1, <1>2, <1>4, <1>8, <1>11, <1>12 DEF HasNode
<1>q. QED
  BY <1>4, <1>13, Zenon

\* A new line, when the last one shows what it has to.
LEMMA LineTold ==
  ASSUME NEW K, NEW root, NEW ls, Told(K, root, ls), ls[Len(ls)].nodes # <<>>,
         ls[Len(ls)].nodes = Due(K, root, ls, Len(ls)), NEW us, us = ls \o Line(Len(ls) + 1)
  PROVE  /\ Told(K, root, us) /\ Len(us) = Len(ls) + 1 /\ us[Len(us)].nodes = <<>>
         /\ Due(K, root, us, Len(us)) = Row(K, ls[Len(ls)].nodes)
<1> DEFINE T == DOMAIN K
           L == [level : Nat, nodes : Seq(T)]
<1>0. ls \in Seq(L) /\ Len(ls) >= 1
  BY Zenon DEF Told, Lines
<1>1. PICK n \in Nat : n = Len(ls) /\ n >= 1 /\ ls \in Seq(L)
  <2>1. Len(ls) \in Nat
    BY <1>0, LenProperties
  <2>q. QED
    BY <1>0, <2>1, Zenon
<1>2. PICK m \in L : m.level = n + 1 /\ m.nodes = <<>> /\ Line(n + 1) = <<m>>
  <2>1. <<>> \in Seq(T) /\ n + 1 \in Nat
    OBVIOUS
  <2>2. [level |-> n + 1, nodes |-> <<>>] \in L
    BY <2>1
  <2>q. QED
    BY <2>2 DEF Line
<1>3. /\ us \in Seq(L) /\ Len(us) = n + 1 /\ us[n + 1] = m
      /\ \A d \in 1..n : us[d] = ls[d]
  <2>1. us = Append(ls, m)
    <3>1. ls \in Seq(L) /\ Append(ls, m) = ls \o <<m>>
      BY <1>1, AppendIsConcat
    <3>q. QED
      BY <1>1, <1>2, <3>1
  <2> HIDE DEF L
  <2>2. ls \in Seq(L) /\ m \in L
    BY <1>1, <1>2
  <2>3. /\ Append(ls, m) \in Seq(L) /\ Len(Append(ls, m)) = Len(ls) + 1
        /\ \A d \in 1..Len(ls) : Append(ls, m)[d] = ls[d]
        /\ Append(ls, m)[Len(ls) + 1] = m
    BY <2>2, AppendProperties
  <2>q. QED
    BY <1>1, <2>1, <2>3, Zenon
<1>4. \A d \in 1..(n + 1) : d # 1 => d - 1 \in 1..n
  BY <1>1
<1>5. \A d \in 1..n : Due(K, root, us, d) = Due(K, root, ls, d)
  <2>1. \A d \in 1..n : d \in 1..(n + 1)
    OBVIOUS
  <2>q. QED
    BY <1>3, <1>4, <2>1, Zenon DEF Due
<1>6. \A d \in 1..(n + 1) : d = n + 1 \/ d \in 1..n
  OBVIOUS
<1>7. \A d \in 1..(n + 1) : us[d].level = d
  <2>1. \A d \in 1..n : ls[d].level = d
    BY <1>1 DEF Told
  <2>q. QED
    BY <1>2, <1>3, <1>6, <2>1
<1>8. \A d \in 1..n : us[d].nodes # <<>> /\ us[d].nodes = Due(K, root, us, d)
  <2>1. \A d \in 1..(n - 1) : ls[d].nodes # <<>> /\ ls[d].nodes = Due(K, root, ls, d)
    BY <1>1 DEF Told
  <2>2. \A d \in 1..n : d = n \/ d \in 1..(n - 1)
    OBVIOUS
  <2>3. \A d \in 1..n : ls[d].nodes # <<>> /\ ls[d].nodes = Due(K, root, ls, d)
    BY <1>1, <2>1, <2>2
  <2>q. QED
    BY <1>3, <1>5, <2>3
<1>9. Told(K, root, us)
  <2>1. n + 1 - 1 = n /\ n + 1 >= 1
    OBVIOUS
  <2>2. us \in Lines(DOMAIN K)
    BY <1>3, Zenon DEF Lines
  <2>3. Len(us) = n + 1 /\ Len(us) - 1 = n /\ Len(us) >= 1
    <3>1. Len(us) = n + 1
      BY <1>3, Zenon
    <3>q. QED
      BY <3>1
  <2>4. /\ \A d \in 1..Len(us) : us[d].level = d
        /\ \A d \in 1..(Len(us) - 1) : us[d].nodes # <<>> /\ us[d].nodes = Due(K, root, us, d)
    BY <1>7, <1>8, <2>3, Zenon
  <2>q. QED
    BY <2>2, <2>3, <2>4, Zenon DEF Told
<1>10. Due(K, root, us, n + 1) = Row(K, ls[n].nodes)
  <2>1. PICK e \in Nat : e = n + 1 /\ e # 1 /\ e - 1 = n /\ n \in 1..n
    BY <1>1
  <2>2. Due(K, root, us, e) = Row(K, us[e - 1].nodes)
    BY <2>1, Zenon DEF Due
  <2>3. us[e - 1] = ls[n]
    BY <1>3, <2>1, Zenon
  <2>q. QED
    BY <2>1, <2>2, <2>3, Zenon
<1>q. QED
  BY <1>1, <1>2, <1>3, <1>9, <1>10

\* The offsets of the queue.
Offs(q) == [i \in 1..Len(q) |-> q[i].offset]

LEMMA OffsType ==
  ASSUME NEW q \in Seq(Entry)
  PROVE  Offs(q) \in Seq(Int) /\ Len(Offs(q)) = Len(q) /\ \A i \in 1..Len(q) : Offs(q)[i] = q[i].offset
<1>1. ASSUME NEW i \in 1..Len(q) PROVE q[i].offset \in Int
  <2>1. PICK x \in Entry : x = q[i]
    OBVIOUS
  <2>q. QED
    BY <2>1 DEF Entry
<1>2. Offs(q) \in [1..Len(q) -> Int] /\ \A i \in 1..Len(q) : Offs(q)[i] = q[i].offset
  BY <1>1 DEF Offs
<1>3. PICK off \in [1..Len(q) -> Int] : off = Offs(q)
  BY <1>2
<1>4. off \in Seq(Int) /\ Len(off) = Len(q)
  OBVIOUS
<1>q. QED
  BY <1>2, <1>3, <1>4, Zenon

LEMMA OffsQueue ==
  ASSUME NEW q \in Seq(Entry), q # <<>>, NEW kids \in Seq(Int), enqueue(Tail(q), kids),
         queue_position \in Int
  PROVE  /\ Offs(queue') = Tail(Offs(q)) \o kids
         /\ queue_position' - Len(queue') = queue_position - Len(q) + 1
<1> DEFINE more == [i \in 1..Len(kids) |-> [offset |-> kids[i], queue_position |-> queue_position + i - 1]]
<1>1. DOMAIN kids = 1..Len(kids) /\ Len(kids) \in Nat
  OBVIOUS
<1>2. queue' = Tail(q) \o more /\ queue_position' = queue_position + Len(kids)
  BY <1>1, Zenon DEF enqueue
<1>3. more \in Seq(Entry) /\ Len(more) = Len(kids) /\ \A i \in 1..Len(kids) : more[i].offset = kids[i]
  BY DEF Entry
<1>4. /\ Len(q) \in Nat /\ Len(q) >= 1 /\ Tail(q) \in Seq(Entry) /\ Len(Tail(q)) = Len(q) - 1
      /\ \A i \in 1..(Len(q) - 1) : Tail(q)[i] = q[i + 1]
      /\ Head(q) = q[1] /\ 1 \in 1..Len(q)
  OBVIOUS
<1>5. PICK off \in Seq(Int) : off = Offs(q) /\ Len(off) = Len(q) /\ \A i \in 1..Len(q) : off[i] = q[i].offset
  BY OffsType, Zenon
<1>6. /\ off # <<>> /\ Head(off) = off[1] /\ Tail(off) \in Seq(Int) /\ Len(Tail(off)) = Len(q) - 1
      /\ \A i \in 1..(Len(q) - 1) : Tail(off)[i] = off[i + 1]
  BY <1>4, <1>5
<1> HIDE DEF more
<1>7. PICK t \in Seq(Entry), u \in Seq(Int) :
        /\ t = Tail(q) /\ Len(t) = Len(q) - 1 /\ u = Tail(off) /\ Len(u) = Len(q) - 1
        /\ \A i \in 1..(Len(q) - 1) : t[i].offset = u[i]
  <2>1. ASSUME NEW i \in 1..(Len(q) - 1) PROVE Tail(q)[i].offset = Tail(off)[i]
    <3>1. i + 1 \in 1..Len(q)
      BY <1>4
    <3>q. QED
      BY <1>4, <1>5, <1>6, <3>1
  <2>q. QED
    BY <1>4, <1>6, <2>1
<1>8. /\ t \o more \in Seq(Entry) /\ Len(t \o more) = Len(t) + Len(kids)
      /\ \A i \in 1..(Len(t) + Len(kids)) : (t \o more)[i] = IF i <= Len(t) THEN t[i] ELSE more[i - Len(t)]
  <2>1. PICK m \in Seq(Entry) : m = more
    BY <1>3, Zenon
  <2>2. /\ t \o m \in Seq(Entry) /\ Len(t \o m) = Len(t) + Len(m)
        /\ \A i \in 1..(Len(t) + Len(m)) : (t \o m)[i] = IF i <= Len(t) THEN t[i] ELSE m[i - Len(t)]
    BY ConcatProperties
  <2>q. QED
    BY <1>3, <2>1, <2>2, Zenon
<1>9. /\ u \o kids \in Seq(Int) /\ Len(u \o kids) = Len(u) + Len(kids)
      /\ \A i \in 1..(Len(u) + Len(kids)) : (u \o kids)[i] = IF i <= Len(u) THEN u[i] ELSE kids[i - Len(u)]
  BY ConcatProperties
<1>10. \A i \in 1..(Len(u) + Len(kids)) : (t \o more)[i].offset = (u \o kids)[i]
  <2>1. ASSUME NEW i \in 1..(Len(u) + Len(kids)) PROVE (t \o more)[i].offset = (u \o kids)[i]
    <3>1. CASE i <= Len(u)
      <4>1. i \in 1..(Len(q) - 1)
        BY <1>4, <1>7, <3>1
      <4>q. QED
        BY <1>7, <1>8, <1>9, <3>1, <4>1
    <3>2. CASE ~(i <= Len(u))
      <4>1. i - Len(u) \in 1..Len(kids)
        BY <1>1, <1>4, <1>7, <3>2
      <4>2. (u \o kids)[i] = kids[i - Len(u)]
        BY <1>9, <3>2, Zenon
      <4>3. (t \o more)[i] = more[i - Len(u)]
        BY <1>7, <1>8, <3>2, Zenon
      <4>q. QED
        BY <1>3, <4>1, <4>2, <4>3, Zenon
    <3>q. QED
      BY <3>1, <3>2
  <2>q. QED
    BY <2>1
<1>11. Offs(t \o more) = u \o kids
  <2>1. PICK w \in Seq(Entry) : w = t \o more /\ Len(w) = Len(u) + Len(kids)
                                /\ \A i \in 1..(Len(u) + Len(kids)) : w[i].offset = (u \o kids)[i]
    <3>1. Len(t) = Len(u)
      BY <1>7, Zenon
    <3>2. Len(t \o more) = Len(u) + Len(kids)
      BY <1>8, <3>1, Zenon
    <3>q. QED
      BY <1>8, <1>10, <3>2, Zenon
  <2>2. Offs(w) = [i \in 1..(Len(u) + Len(kids)) |-> (u \o kids)[i]]
    BY <2>1 DEF Offs
  <2>3. PICK v \in Seq(Int) : v = u \o kids /\ Len(v) = Len(u) + Len(kids)
    BY <1>9
  <2>4. v = [i \in 1..Len(v) |-> v[i]]
    OBVIOUS
  <2>q. QED
    BY <2>1, <2>2, <2>3, <2>4
<1>12. queue_position' - Len(queue') = queue_position - Len(q) + 1
  <2>1. Len(queue') = Len(q) - 1 + Len(kids)
    BY <1>2, <1>7, <1>8
  <2>2. queue_position' = queue_position + Len(kids)
    BY <1>2
  <2>q. QED
    BY <1>1, <1>4, <2>1, <2>2
<1>q. QED
  BY <1>2, <1>5, <1>7, <1>11, <1>12, Zenon
-----------------------------------------------------------------------------
(* The print of a tree, turn by turn *)

\* A print that is at its first node, within a row, or at its end.
AtRoot(K, root, ls, q, lvl) == Len(ls) = 1 /\ ls[1].nodes = <<>> /\ q = <<root>> /\ lvl = 1

InRow(K, h, root, ls, q, p, lvl, till, ch) ==
  /\ Len(ls) > 1 /\ lvl = Len(ls)
  /\ Within(K, h, root, Due(K, root, ls, Len(ls)), ls[Len(ls)].nodes, q, p, till, ch)

AtEnd(K, root, ls, q) ==
  /\ q = <<>>
  /\ ls[Len(ls)].nodes # <<>> /\ ls[Len(ls)].nodes = Due(K, root, ls, Len(ls))
  /\ Row(K, ls[Len(ls)].nodes) = <<>>

InOrder(K, h, root, ls, q, p, lvl, till, ch) ==
  /\ Told(K, root, ls)
  /\ \/ AtRoot(K, root, ls, q, lvl)
     \/ InRow(K, h, root, ls, q, p, lvl, till, ch)
     \/ AtEnd(K, root, ls, q)

\* The lines after a turn that may begin a line.
NextLines(ls, o, more, lvl) == WithNode(ls, o) \o (IF more THEN Line(lvl + 1) ELSE <<>>)

LEMMA LastLine ==
  ASSUME NEW K, NEW root, NEW ls, Told(K, root, ls)
  PROVE  Len(ls) \in Nat /\ Len(ls) >= 1 /\ ls[Len(ls)].nodes \in Seq(DOMAIN K)
<1> DEFINE L == [level : Nat, nodes : Seq(DOMAIN K)]
<1>1. ls \in Seq(L) /\ Len(ls) >= 1
  BY Zenon DEF Told, Lines
<1> HIDE DEF L
<1>2. Len(ls) \in Nat /\ Len(ls) \in 1..Len(ls) /\ ls[Len(ls)] \in L
  BY <1>1
<1> USE DEF L
<1>3. PICK l \in [level : Nat, nodes : Seq(DOMAIN K)] : l = ls[Len(ls)]
  BY <1>2, Zenon
<1>4. l.nodes \in Seq(DOMAIN K)
  OBVIOUS
<1>q. QED
  BY <1>1, <1>2, <1>3, <1>4, Zenon

\* A line that shows the nodes row, as it has to, and a line begun after it.
Shows(K, root, ms, row)     == /\ Told(K, root, ms) /\ ms[Len(ms)].nodes = row
                               /\ Due(K, root, ms, Len(ms)) = row
Opens(K, root, us, n, row)  == /\ Told(K, root, us) /\ Len(us) = n + 1 /\ us[Len(us)].nodes = <<>>
                               /\ Due(K, root, us, Len(us)) = Row(K, row)

\* The last node of a line: what the line had to show is there, and the next one may be begun.
LEMMA NextLinesTold ==
  ASSUME NEW K, NEW root, NEW ls, Told(K, root, ls), NEW o \in DOMAIN K,
         Append(ls[Len(ls)].nodes, o) = Due(K, root, ls, Len(ls))
  PROVE  /\ Append(ls[Len(ls)].nodes, o) # <<>>
         /\ Shows(K, root, NextLines(ls, o, FALSE, Len(ls)), Append(ls[Len(ls)].nodes, o))
         /\ Opens(K, root, NextLines(ls, o, TRUE, Len(ls)), Len(ls), Append(ls[Len(ls)].nodes, o))
<1>1. PICK ms : /\ ms = WithNode(ls, o) /\ Told(K, root, ms) /\ Len(ms) = Len(ls)
                /\ ms[Len(ls)].nodes = Append(ls[Len(ls)].nodes, o)
                /\ Due(K, root, ms, Len(ls)) = Due(K, root, ls, Len(ls))
  <2>1. HasNode(K, root, ls, o, WithNode(ls, o))
    BY NodeTold
  <2>q. QED
    BY <2>1, Zenon DEF HasNode
<1>2. Append(ls[Len(ls)].nodes, o) # <<>>
  <2>1. PICK s \in Seq(DOMAIN K) : s = ls[Len(ls)].nodes
    BY LastLine
  <2>2. Append(s, o) # <<>>
    BY AppendProperties
  <2>q. QED
    BY <2>1, <2>2, Zenon
<1>3. /\ ms[Len(ms)].nodes # <<>> /\ ms[Len(ms)].nodes = Due(K, root, ms, Len(ms))
      /\ ms[Len(ms)].nodes = Append(ls[Len(ls)].nodes, o)
  BY <1>1, <1>2
<1>4. PICK us : us = ms \o Line(Len(ms) + 1)
  OBVIOUS
<1>5. /\ Told(K, root, us) /\ Len(us) = Len(ms) + 1 /\ us[Len(us)].nodes = <<>>
      /\ Due(K, root, us, Len(us)) = Row(K, ms[Len(ms)].nodes)
  <2>1. Told(K, root, ms)
    BY <1>1
  <2>q. QED
    BY <1>3, <1>4, <2>1, LineTold
<1>6. ms \o <<>> = ms
  <2>1. ms \in Lines(DOMAIN K)
    BY <1>1, Zenon DEF Told
  <2>q. QED
    BY <2>1, ConcatEmptySeq DEF Lines
<1>7. us = NextLines(ls, o, TRUE, Len(ls))
  BY <1>1, <1>4, Zenon DEF NextLines
<1>8. ms = NextLines(ls, o, FALSE, Len(ls))
  BY <1>1, <1>6, Zenon DEF NextLines
<1>9. /\ Len(us) = Len(ls) + 1 /\ Due(K, root, us, Len(us)) = Row(K, Append(ls[Len(ls)].nodes, o))
  BY <1>1, <1>3, <1>5
<1>10. Shows(K, root, ms, Append(ls[Len(ls)].nodes, o)) /\ Opens(K, root, us, Len(ls), Append(ls[Len(ls)].nodes, o))
  BY <1>1, <1>3, <1>5, <1>9, Zenon DEF Shows, Opens
<1>q. QED
  BY <1>2, <1>7, <1>8, <1>10, Zenon

\* What the nodes of the last line are, and that a queue that waits begins with a node.
LEMMA InOrderParts ==
  ASSUME NEW K, NEW h, Family(K, h), NEW root \in DOMAIN K, NEW ls, NEW q, NEW p \in Int, NEW lvl,
         NEW till, NEW ch, InOrder(K, h, root, ls, q, p, lvl, till, ch), q # <<>>
  PROVE  /\ Told(K, root, ls) /\ Len(ls) \in Nat /\ ls[Len(ls)].nodes \in Seq(DOMAIN K)
         /\ Head(q) \in DOMAIN K
         /\ Head(q) = root => AtRoot(K, root, ls, q, lvl)
         /\ Head(q) # root => InRow(K, h, root, ls, q, p, lvl, till, ch)
<1>1. Told(K, root, ls) /\ Len(ls) \in Nat /\ ls[Len(ls)].nodes \in Seq(DOMAIN K)
  <2>1. Told(K, root, ls)
    BY Zenon DEF InOrder
  <2>q. QED
    BY <2>1, LastLine
<1>2. CASE AtRoot(K, root, ls, q, lvl)
  <2>1. Head(q) = root
    BY <1>2 DEF AtRoot
  <2>q. QED
    BY <1>1, <1>2, <2>1
<1>3. CASE InRow(K, h, root, ls, q, p, lvl, till, ch)
  <2>0. PICK sh \in Seq(DOMAIN K) : sh = ls[Len(ls)].nodes
    BY <1>1, Zenon
  <2>1. PICK row : row = Due(K, root, ls, Len(ls)) /\ Within(K, h, root, row, sh, q, p, till, ch)
    BY <1>3, <2>0, Zenon DEF InRow
  <2>2. Head(q) \in DOMAIN K /\ Head(q) # root
    <3>1. CASE p = till
      <4>1. Within(K, h, root, row, sh, q, p, till, ch)
        BY <2>1
      <4>q. QED
        BY <3>1, <4>1, WithinLast DEF RowEnds
    <3>2. CASE p # till
      BY <2>1, <3>2, WithinInner
    <3>q. QED
      BY <3>1, <3>2
  <2>q. QED
    BY <1>1, <1>3, <2>2
<1>q. QED
  BY <1>1, <1>2, <1>3, Zenon DEF InOrder, AtEnd

\* print_tree at the root: the first line is complete, the children are the next one.
LEMMA RootTurn ==
  ASSUME NEW K, NEW h, Family(K, h), NEW root \in DOMAIN K, NEW ls, NEW q, NEW p \in Int, NEW lvl,
         NEW till, NEW ch, InOrder(K, h, root, ls, q, p, lvl, till, ch), q # <<>>, Head(q) = root
  PROVE  InOrder(K, h, root, NextLines(ls, root, K[root] # <<>>, lvl), Tail(q) \o K[root], p + 1,
                 lvl + 1, p + Len(K[root]), 0)
<1>1. /\ Told(K, root, ls) /\ Len(ls) = 1 /\ ls[1].nodes = <<>> /\ q = <<root>> /\ lvl = 1
  <2>1. Told(K, root, ls) /\ AtRoot(K, root, ls, q, lvl)
    BY InOrderParts
  <2>q. QED
    BY <2>1, Zenon DEF AtRoot
<1>2. Append(ls[Len(ls)].nodes, root) = <<root>> /\ Due(K, root, ls, Len(ls)) = <<root>>
  BY <1>1 DEF Due
<1>a. /\ Shows(K, root, NextLines(ls, root, FALSE, lvl), <<root>>)
      /\ Opens(K, root, NextLines(ls, root, TRUE, lvl), lvl, <<root>>)
  <2>1. Told(K, root, ls) /\ Append(ls[Len(ls)].nodes, root) = Due(K, root, ls, Len(ls))
    BY <1>1, <1>2, Zenon
  <2>2. /\ Shows(K, root, NextLines(ls, root, FALSE, Len(ls)), Append(ls[Len(ls)].nodes, root))
        /\ Opens(K, root, NextLines(ls, root, TRUE, Len(ls)), Len(ls), Append(ls[Len(ls)].nodes, root))
    BY <2>1, NextLinesTold
  <2>3. lvl = Len(ls)
    BY <1>1, Zenon
  <2>q. QED
    BY <1>2, <2>2, <2>3, Zenon
<1>3. PICK kids \in Seq(DOMAIN K) : kids = K[root]
  BY DEF Family
<1>4. Tail(q) \o K[root] = kids
  BY <1>1, <1>3
<1>5. /\ Row(K, <<root>>) = kids
      /\ kids # <<>> => Within(K, h, root, kids, <<>>, kids, p + 1, p + Len(kids), 0)
  BY <1>3, WithinFirst
<1>6. CASE kids = <<>>
  <2>1. PICK ms : /\ ms = NextLines(ls, root, FALSE, lvl) /\ Told(K, root, ms)
                  /\ ms[Len(ms)].nodes = <<root>> /\ ms[Len(ms)].nodes = Due(K, root, ms, Len(ms))
    BY <1>a, Zenon DEF Shows
  <2>2. NextLines(ls, root, K[root] # <<>>, lvl) = ms
    BY <1>3, <1>6, <2>1, Zenon DEF NextLines
  <2>3. <<root>> # <<>>
    OBVIOUS
  <2>4. AtEnd(K, root, ms, kids)
    BY <1>5, <1>6, <2>1, <2>3, Zenon DEF AtEnd
  <2>q. QED
    BY <1>4, <2>1, <2>2, <2>4, Zenon DEF InOrder
<1>7. CASE kids # <<>>
  <2>1. PICK us : /\ us = NextLines(ls, root, TRUE, lvl) /\ Told(K, root, us)
                  /\ Len(us) = lvl + 1 /\ us[Len(us)].nodes = <<>>
                  /\ Due(K, root, us, Len(us)) = Row(K, <<root>>)
    BY <1>a, Zenon DEF Opens
  <2>2. NextLines(ls, root, K[root] # <<>>, lvl) = us
    BY <1>3, <1>7, <2>1, Zenon DEF NextLines
  <2>3. Due(K, root, us, Len(us)) = kids
    BY <1>5, <2>1, Zenon
  <2>4. Len(us) > 1
    <3>1. lvl + 1 > 1
      BY <1>1
    <3>q. QED
      BY <2>1, <3>1, Zenon
  <2>5. InRow(K, h, root, us, kids, p + 1, lvl + 1, p + Len(kids), 0)
    BY <1>5, <1>7, <2>1, <2>3, <2>4, Zenon DEF InRow
  <2>q. QED
    BY <1>3, <1>4, <2>1, <2>2, <2>5, Zenon DEF InOrder
<1>q. QED
  BY <1>6, <1>7

\* print_tree at a node that is not the last of its row.
LEMMA InnerTurn ==
  ASSUME NEW K, NEW h, Family(K, h), NEW root \in DOMAIN K, NEW ls, NEW q, NEW p \in Int, NEW lvl,
         NEW till, NEW ch, InOrder(K, h, root, ls, q, p, lvl, till, ch), q # <<>>, Head(q) # root,
         p # till
  PROVE  InOrder(K, h, root, WithNode(ls, Head(q)), Tail(q) \o K[Head(q)], p + 1, lvl, till,
                 ch + Len(K[Head(q)]))
<1>1. /\ Told(K, root, ls) /\ InRow(K, h, root, ls, q, p, lvl, till, ch)
      /\ Head(q) \in DOMAIN K /\ ls[Len(ls)].nodes \in Seq(DOMAIN K)
  BY InOrderParts
<1>0. PICK sh \in Seq(DOMAIN K) : sh = ls[Len(ls)].nodes
  BY <1>1, Zenon
<1>2. PICK row : row = Due(K, root, ls, Len(ls)) /\ Within(K, h, root, row, sh, q, p, till, ch)
  BY <1>0, <1>1, Zenon DEF InRow
<1>3. PICK o \in DOMAIN K : o = Head(q)
  BY <1>1, Zenon
<1>4. Within(K, h, root, row, Append(sh, o), Tail(q) \o K[o], p + 1, till, ch + Len(K[o]))
  <2>1. Within(K, h, root, row, sh, q, p, till, ch)
    BY <1>2
  <2>2. Within(K, h, root, row, Append(sh, Head(q)), Tail(q) \o K[Head(q)], p + 1, till,
               ch + Len(K[Head(q)]))
    BY <2>1, WithinInner
  <2>q. QED
    BY <1>3, <2>2, Zenon
<1>5. PICK ms : /\ ms = WithNode(ls, o) /\ Told(K, root, ms) /\ Len(ms) = Len(ls)
                /\ ms[Len(ms)].nodes = Append(sh, o) /\ Due(K, root, ms, Len(ms)) = row
  <2>1. Told(K, root, ls)
    BY <1>1
  <2>2. HasNode(K, root, ls, o, WithNode(ls, o))
    BY <2>1, NodeTold
  <2>3. PICK ms : ms = WithNode(ls, o)
    OBVIOUS
  <2>4. /\ Told(K, root, ms) /\ Len(ms) = Len(ls)
        /\ ms[Len(ms)].nodes = Append(sh, o) /\ Due(K, root, ms, Len(ms)) = row
    BY <1>0, <1>2, <2>2, <2>3 DEF HasNode
  <2>q. QED
    BY <2>3, <2>4, Zenon
<1>6. InRow(K, h, root, ms, Tail(q) \o K[o], p + 1, lvl, till, ch + Len(K[o]))
  BY <1>1, <1>4, <1>5, Zenon DEF InRow
<1>q. QED
  BY <1>3, <1>5, <1>6, Zenon DEF InOrder

\* print_tree at the last node of a row, which the counters tell.
LEMMA LastTurn ==
  ASSUME NEW K, NEW h, Family(K, h), NEW root \in DOMAIN K, NEW ls, NEW q, NEW p \in Int, NEW lvl,
         NEW till, NEW ch, InOrder(K, h, root, ls, q, p, lvl, till, ch), q # <<>>, Head(q) # root,
         p = till
  PROVE  InOrder(K, h, root, NextLines(ls, Head(q), Tail(q) # <<>>, lvl), Tail(q) \o K[Head(q)], p + 1,
                 lvl + 1, p + ch + Len(K[Head(q)]), 0)
<1>1. /\ Told(K, root, ls) /\ InRow(K, h, root, ls, q, p, lvl, till, ch) /\ Len(ls) \in Nat
      /\ Head(q) \in DOMAIN K /\ ls[Len(ls)].nodes \in Seq(DOMAIN K)
  BY InOrderParts
<1>0. PICK sh \in Seq(DOMAIN K) : sh = ls[Len(ls)].nodes
  BY <1>1, Zenon
<1>2. PICK row : row = Due(K, root, ls, Len(ls)) /\ Within(K, h, root, row, sh, q, p, till, ch)
  BY <1>0, <1>1, Zenon DEF InRow
<1>3. PICK o \in DOMAIN K : o = Head(q)
  BY <1>1, Zenon
<1>4. /\ row = Append(sh, o) /\ Tail(q) \o K[o] = Row(K, row)
      /\ Tail(q) = <<>> => Row(K, row) = <<>>
      /\ Tail(q) # <<>> => Within(K, h, root, Row(K, row), <<>>, Tail(q) \o K[o], p + 1,
                                  p + ch + Len(K[o]), 0)
  <2>1. Within(K, h, root, row, sh, q, p, till, ch)
    BY <1>2
  <2>2. /\ row = Append(sh, Head(q)) /\ Tail(q) \o K[Head(q)] = Row(K, row)
        /\ Tail(q) = <<>> => Row(K, row) = <<>>
        /\ Tail(q) # <<>> => Within(K, h, root, Row(K, row), <<>>, Tail(q) \o K[Head(q)], p + 1,
                                    p + ch + Len(K[Head(q)]), 0)
    <3>1. RowEnds(K, h, root, row, sh, q, p, ch)
      BY <2>1, WithinLast
    <3>q. QED
      BY <3>1, Zenon DEF RowEnds
  <2>q. QED
    BY <1>3, <2>2, Zenon
<1>5. lvl = Len(ls) /\ Len(ls) > 1
  BY <1>1, Zenon DEF InRow
<1>a. /\ row # <<>>
      /\ Shows(K, root, NextLines(ls, o, FALSE, lvl), row)
      /\ Opens(K, root, NextLines(ls, o, TRUE, lvl), lvl, row)
  <2>1. Told(K, root, ls) /\ Append(ls[Len(ls)].nodes, o) = Due(K, root, ls, Len(ls))
    BY <1>0, <1>1, <1>2, <1>4, Zenon
  <2>2. /\ Append(ls[Len(ls)].nodes, o) # <<>>
        /\ Shows(K, root, NextLines(ls, o, FALSE, Len(ls)), Append(ls[Len(ls)].nodes, o))
        /\ Opens(K, root, NextLines(ls, o, TRUE, Len(ls)), Len(ls), Append(ls[Len(ls)].nodes, o))
    BY <2>1, NextLinesTold
  <2>3. row = Append(ls[Len(ls)].nodes, o) /\ lvl = Len(ls)
    BY <1>0, <1>2, <1>4, <1>5, Zenon
  <2>q. QED
    BY <2>2, <2>3, Zenon
<1>6. CASE Tail(q) = <<>>
  <2>1. PICK ms : /\ ms = NextLines(ls, o, FALSE, lvl) /\ Told(K, root, ms)
                  /\ ms[Len(ms)].nodes = row /\ ms[Len(ms)].nodes = Due(K, root, ms, Len(ms))
    BY <1>a, Zenon DEF Shows
  <2>2. NextLines(ls, o, Tail(q) # <<>>, lvl) = ms
    BY <1>6, <2>1, Zenon DEF NextLines
  <2>3. AtEnd(K, root, ms, Tail(q) \o K[o])
    BY <1>4, <1>6, <1>a, <2>1, Zenon DEF AtEnd
  <2>q. QED
    BY <1>3, <2>1, <2>2, <2>3, Zenon DEF InOrder
<1>7. CASE Tail(q) # <<>>
  <2>1. PICK us : /\ us = NextLines(ls, o, TRUE, lvl) /\ Told(K, root, us)
                  /\ Len(us) = lvl + 1 /\ us[Len(us)].nodes = <<>>
                  /\ Due(K, root, us, Len(us)) = Row(K, row)
    BY <1>a, Zenon DEF Opens
  <2>2. NextLines(ls, o, Tail(q) # <<>>, lvl) = us
    BY <1>7, <2>1, Zenon DEF NextLines
  <2>3. Len(us) > 1
    <3>1. lvl + 1 > 1
      BY <1>1, <1>5
    <3>q. QED
      BY <2>1, <3>1, Zenon
  <2>4. InRow(K, h, root, us, Tail(q) \o K[o], p + 1, lvl + 1, p + ch + Len(K[o]), 0)
    BY <1>4, <1>7, <2>1, <2>3, Zenon DEF InRow
  <2>q. QED
    BY <1>3, <2>1, <2>2, <2>4, Zenon DEF InOrder
<1>q. QED
  BY <1>6, <1>7
-----------------------------------------------------------------------------
(* The invariant of a print *)

\* What print_tree reads from the root on is the family K, with the heights h.
TreeRead(K, h) ==
  /\ Family(K, h) /\ DOMAIN K \subseteq Slots /\ root_offset \in DOMAIN K
  /\ \A s \in DOMAIN K : ChildrenAt(s) = K[s] /\ KidsInOrder(s) = K[s]

PrintInOrder(K, h) ==
  InOrder(K, h, root_offset, lines, Offs(queue), queue_position - Len(queue), curr_level,
          level_till_pos, children)

OrderInv == printing /\ root_offset \in Slots => \E K, h : TreeRead(K, h) /\ PrintInOrder(K, h)

LEMMA OffsHead ==
  ASSUME NEW q \in Seq(Entry), q # <<>>, NEW pos \in Int, Numbered(q, pos)
  PROVE  /\ Head(q).offset = Head(Offs(q)) /\ Head(q).queue_position = pos - Len(q)
         /\ Offs(q) # <<>> /\ pos - Len(q) \in Int /\ (Tail(q) = <<>> <=> Tail(Offs(q)) = <<>>)
<1>1. Len(q) \in Nat /\ Len(q) >= 1 /\ Head(q) = q[1] /\ 1 \in 1..Len(q)
  OBVIOUS
<1>2. PICK off \in Seq(Int) : off = Offs(q) /\ Len(off) = Len(q) /\ off[1] = q[1].offset
  BY <1>1, OffsType, Zenon
<1>3. off # <<>> /\ Head(off) = off[1]
  BY <1>1, <1>2
<1>4. q[1].queue_position = pos - Len(q) /\ pos - Len(q) \in Int
  <2>1. q[1].queue_position = pos - Len(q) + 1 - 1
    BY <1>1 DEF Numbered
  <2>q. QED
    BY <1>1, <2>1
<1>5. Tail(q) = <<>> <=> Tail(off) = <<>>
  <2>1. PICK t \in Seq(Entry), u \in Seq(Int) :
          t = Tail(q) /\ Len(t) = Len(q) - 1 /\ u = Tail(off) /\ Len(u) = Len(q) - 1
    <3>1. Tail(q) \in Seq(Entry) /\ Len(Tail(q)) = Len(q) - 1
      OBVIOUS
    <3>2. Tail(off) \in Seq(Int) /\ Len(Tail(off)) = Len(q) - 1
      BY <1>2, <1>3
    <3>q. QED
      BY <3>1, <3>2, Zenon
  <2>2. (t = <<>> <=> Len(t) = 0) /\ (u = <<>> <=> Len(u) = 0)
    OBVIOUS
  <2>q. QED
    BY <2>1, <2>2
<1>q. QED
  BY <1>1, <1>2, <1>3, <1>4, <1>5, Zenon

LEMMA TreeReadKept ==
  ASSUME nodes' = nodes, root_offset' = root_offset, NEW K, NEW h, TreeRead(K, h)
  PROVE  TreeRead(K, h)'
<1>1. \A s : ChildrenAt(s)' = ChildrenAt(s) /\ KidsInOrder(s)' = KidsInOrder(s)
  BY Zenon DEF ChildrenAt, KidsInOrder
<1>2. Slots' = Slots
  BY DEF Slots
<1>q. QED
  BY <1>1, <1>2, Zenon DEF TreeRead

\* One turn of the loop of print_tree.
LEMMA TurnInOrder ==
  ASSUME PrinterType, Numbered(queue, queue_position), PrintNode,
         NEW K, NEW h, TreeRead(K, h), PrintInOrder(K, h)
  PROVE  PrintInOrder(K, h)'
<1>1. /\ printing /\ queue # <<>> /\ nodes' = nodes /\ root_offset' = root_offset
      /\ queue \in Seq(Entry) /\ queue_position \in Int
  BY Zenon DEF PrintNode, vars, disk, globals, PrinterType
<1>2. PICK root \in DOMAIN K : root = root_offset
  BY Zenon DEF TreeRead
<1>a. PICK q : q = Offs(queue)
  OBVIOUS
<1>b. PICK ls, lvl, till, ch : ls = lines /\ lvl = curr_level /\ till = level_till_pos /\ ch = children
  OBVIOUS
<1>c. /\ q # <<>> /\ Head(queue).offset = Head(q)
      /\ Head(queue).queue_position = queue_position - Len(queue)
      /\ queue_position - Len(queue) \in Int
      /\ (Tail(queue) = <<>> <=> Tail(q) = <<>>)
  BY <1>1, <1>a, OffsHead, Zenon
<1>d. PICK p \in Int : p = queue_position - Len(queue) /\ Head(queue).queue_position = p
  BY <1>c, Zenon
<1>3. /\ ls = lines /\ q = Offs(queue) /\ p = queue_position - Len(queue) /\ lvl = curr_level
      /\ till = level_till_pos /\ ch = children
      /\ q # <<>> /\ Head(queue).offset = Head(q) /\ Head(queue).queue_position = p
      /\ (Tail(queue) = <<>> <=> Tail(q) = <<>>)
  BY <1>a, <1>b, <1>c, <1>d, Zenon
<1>4. Family(K, h) /\ InOrder(K, h, root, ls, q, p, lvl, till, ch)
  BY <1>2, <1>3, Zenon DEF TreeRead, PrintInOrder
<1>5. PICK o \in DOMAIN K : o = Head(q)
  BY <1>3, <1>4, InOrderParts
<1>6. PICK kids \in Seq(Int) : kids = K[o] /\ ChildrenAt(o) = kids
  <2>1. K[o] \in Seq(DOMAIN K) /\ DOMAIN K \subseteq Int
    <3>1. K \in [DOMAIN K -> Seq(DOMAIN K)] /\ DOMAIN K \subseteq Slots
      BY Zenon DEF TreeRead, Family
    <3>2. Slots \subseteq Int
      BY DEF Slots
    <3>q. QED
      BY <3>1, <3>2
  <2>2. K[o] \in Seq(Int)
    BY <2>1
  <2>3. ChildrenAt(o) = K[o]
    BY DEF TreeRead
  <2>q. QED
    BY <2>2, <2>3, Zenon
<1>7. /\ PrintRoot(kids) \/ PrintLast(kids) \/ PrintInner(kids)
      /\ enqueue(Tail(queue), kids)
  BY <1>3, <1>5, <1>6, Zenon DEF PrintNode, dequeue
<1>8. Offs(queue') = Tail(q) \o K[o] /\ queue_position' - Len(queue') = p + 1
  BY <1>1, <1>3, <1>6, <1>7, OffsQueue, Zenon
<1>9. Shown = WithNode(ls, o)
  BY <1>3, <1>5, Zenon DEF Shown, WithNode
<1>10. CASE PrintRoot(kids)
  <2>1. /\ o = root /\ curr_level' = lvl + 1 /\ level_till_pos' = p + Len(K[root]) /\ children' = 0
        /\ lines' = NextLines(ls, root, K[root] # <<>>, lvl)
    BY <1>2, <1>3, <1>5, <1>6, <1>9, <1>10, Zenon DEF PrintRoot, NextLines
  <2>2. InOrder(K, h, root, NextLines(ls, root, K[root] # <<>>, lvl), Tail(q) \o K[root], p + 1,
                lvl + 1, p + Len(K[root]), 0)
    <3>1. Head(q) = root /\ q # <<>>
      BY <1>3, <1>5, <2>1, Zenon
    <3>q. QED
      BY <1>4, <3>1, RootTurn
  <2>q. QED
    BY <1>1, <1>2, <1>8, <2>1, <2>2, Zenon DEF PrintInOrder
<1>11. CASE PrintLast(kids)
  <2>1. /\ o # root /\ p = till
        /\ curr_level' = lvl + 1 /\ level_till_pos' = p + ch + Len(K[o]) /\ children' = 0
        /\ lines' = NextLines(ls, o, Tail(q) # <<>>, lvl)
    BY <1>2, <1>3, <1>5, <1>6, <1>9, <1>11, Zenon DEF PrintLast, NextLines, dequeue
  <2>2. InOrder(K, h, root, NextLines(ls, o, Tail(q) # <<>>, lvl), Tail(q) \o K[o], p + 1,
                lvl + 1, p + ch + Len(K[o]), 0)
    <3>1. Head(q) # root /\ q # <<>> /\ p = till
      BY <1>3, <1>5, <2>1, Zenon
    <3>2. InOrder(K, h, root, NextLines(ls, Head(q), Tail(q) # <<>>, lvl), Tail(q) \o K[Head(q)], p + 1,
                  lvl + 1, p + ch + Len(K[Head(q)]), 0)
      BY <1>4, <3>1, LastTurn
    <3>q. QED
      BY <1>5, <3>2, Zenon
  <2>q. QED
    BY <1>1, <1>2, <1>8, <2>1, <2>2, Zenon DEF PrintInOrder
<1>12. CASE PrintInner(kids)
  <2>1. /\ o # root /\ p # till
        /\ curr_level' = lvl /\ level_till_pos' = till /\ children' = ch + Len(K[o])
        /\ lines' = WithNode(ls, o)
    BY <1>2, <1>3, <1>5, <1>6, <1>9, <1>12, Zenon DEF PrintInner
  <2>2. InOrder(K, h, root, WithNode(ls, o), Tail(q) \o K[o], p + 1, lvl, till, ch + Len(K[o]))
    <3>1. Head(q) # root /\ q # <<>> /\ p # till
      BY <1>3, <1>5, <2>1, Zenon
    <3>2. InOrder(K, h, root, WithNode(ls, Head(q)), Tail(q) \o K[Head(q)], p + 1, lvl, till,
                  ch + Len(K[Head(q)]))
      BY <1>4, <3>1, InnerTurn
    <3>q. QED
      BY <1>5, <3>2, Zenon
  <2>q. QED
    BY <1>1, <1>2, <1>8, <2>1, <2>2, Zenon DEF PrintInOrder
<1>q. QED
  BY <1>7, <1>10, <1>11, <1>12

\* A print that has just been started.
LEMMA StartInOrder ==
  ASSUME PrinterType, queue = <<>>, StartPrint, NEW K, NEW h, TreeRead(K, h)
  PROVE  PrintInOrder(K, h)'
<1>1. /\ enqueue(<<>>, <<root_offset>>) /\ queue_position \in Int
      /\ root_offset' = root_offset /\ lines' = Line(1) /\ curr_level' = 1
  BY Zenon DEF StartPrint, print_tree, globals, PrinterType
<1>2. PICK root \in DOMAIN K : root = root_offset
  BY Zenon DEF TreeRead
<1>3. Offs(queue') = <<root>>
  <2>1. queue' = <<>> \o [i \in DOMAIN <<root>> |->
                             [offset |-> <<root>>[i], queue_position |-> queue_position + i - 1]]
    BY <1>1, <1>2, Zenon DEF enqueue
  <2>2. [i \in DOMAIN <<root>> |-> [offset |-> <<root>>[i], queue_position |-> queue_position + i - 1]]
          = <<[offset |-> root, queue_position |-> queue_position + 1 - 1]>>
    OBVIOUS
  <2>3. queue' = <<[offset |-> root, queue_position |-> queue_position + 1 - 1]>>
    BY <2>1, <2>2
  <2>q. QED
    BY <2>3 DEF Offs
<1>4. PICK ls : ls = lines' /\ Len(ls) = 1 /\ ls[1].nodes = <<>> /\ ls[1].level = 1
                /\ ls \in Lines(DOMAIN K)
  <2>1. PICK m : m = [level |-> 1, nodes |-> <<>>]
    OBVIOUS
  <2>2. m \in [level : Nat, nodes : Seq(DOMAIN K)] /\ m.nodes = <<>> /\ m.level = 1
    BY <2>1
  <2>3. lines' = <<m>>
    BY <1>1, <2>1, Zenon DEF Line
  <2>4. <<m>> \in Lines(DOMAIN K) /\ Len(<<m>>) = 1 /\ <<m>>[1] = m
    BY <2>2 DEF Lines
  <2>q. QED
    BY <2>2, <2>3, <2>4, Zenon
<1>5. Told(K, root, ls)
  <2>1. Len(ls) >= 1 /\ 1..Len(ls) = {1} /\ 1..(Len(ls) - 1) = {}
    BY <1>4
  <2>q. QED
    BY <1>4, <2>1, Zenon DEF Told
<1>6. AtRoot(K, root, ls, Offs(queue'), curr_level')
  BY <1>1, <1>3, <1>4, Zenon DEF AtRoot
<1>q. QED
  BY <1>1, <1>2, <1>4, <1>5, <1>6, Zenon DEF PrintInOrder, InOrder

\* The tree of a process that runs is read as a family.
LEMMA HeldRead ==
  ASSUME TypeOK, OffsetsSound, Ended, Alive, root_offset \in Slots,
         NEW T, NEW h, NEW iv, NEW F, Held(T, h, iv, F)
  PROVE  TreeRead([s \in T |-> KidsInOrder(s)], h)
<1>1. Forest(T, h, iv, nodes) /\ root_offset \in T
  BY DEF Held, RootHeld
<1>2. T \subseteq Slots
  BY <1>1, ForestSlots DEF TypeOK
<1>3. PICK K : K = [s \in T |-> KidsInOrder(s)]
  OBVIOUS
<1>4. Family(K, h) /\ \A s \in T : ChildrenAt(s) = K[s]
  BY <1>1, <1>3, TreeFamily
<1>5. DOMAIN K = T /\ \A s \in T : K[s] = KidsInOrder(s)
  BY <1>3
<1>6. TreeRead(K, h)
  BY <1>1, <1>2, <1>4, <1>5, Zenon DEF TreeRead
<1>q. QED
  BY <1>3, <1>6, Zenon
-----------------------------------------------------------------------------
(* What a print has shown *)

LEMMA RowIsBelow ==
  ASSUME NEW K, NEW h, TreeRead(K, h), NEW row \in Seq(DOMAIN K)
  PROVE  RowBelow(row) = Row(K, row)
<1>1. \A s \in DOMAIN K : KidsInOrder(s) = K[s]
  BY Zenon DEF TreeRead
<1>2. DOMAIN row = 1..Len(row) /\ \A i \in 1..Len(row) : row[i] \in DOMAIN K
  OBVIOUS
<1>3. [i \in DOMAIN row |-> KidsInOrder(row[i])] = [i \in 1..Len(row) |-> K[row[i]]]
  BY <1>1, <1>2
<1>q. QED
  BY <1>3, Zenon DEF RowBelow, Row

\* The invariant of a print says, when the queue is empty, that all lines are complete.
LEMMA OrderPrinted ==
  ASSUME OrderInv
  PROVE  PrintedByLevel
<1> SUFFICES ASSUME printing, queue = <<>>, root_offset \in Slots
             PROVE  /\ lines # <<>> /\ lines[1].nodes = <<root_offset>>
                    /\ \A d \in DOMAIN lines :
                         /\ lines[d].level = d /\ lines[d].nodes # <<>>
                         /\ RowBelow(lines[d].nodes) = IF d < Len(lines) THEN lines[d + 1].nodes ELSE <<>>
  BY Zenon DEF PrintedByLevel
<1>1. PICK K, h : TreeRead(K, h) /\ PrintInOrder(K, h)
  BY DEF OrderInv
<1>2. PICK root \in DOMAIN K : root = root_offset
  BY <1>1, Zenon DEF TreeRead
<1>3. PICK ls, p, lvl, till, ch : ls = lines /\ InOrder(K, h, root, ls, <<>>, p, lvl, till, ch)
  <2>1. Offs(queue) = <<>>
    BY DEF Offs
  <2>2. InOrder(K, h, root, lines, <<>>, queue_position - Len(queue), curr_level, level_till_pos, children)
    BY <1>1, <1>2, <2>1, Zenon DEF PrintInOrder
  <2>q. QED
    BY <2>2, Zenon
<1>4. /\ ls \in Seq([level : Nat, nodes : Seq(DOMAIN K)]) /\ Len(ls) >= 1
      /\ \A d \in 1..Len(ls) : ls[d].level = d
      /\ \A d \in 1..(Len(ls) - 1) : ls[d].nodes # <<>> /\ ls[d].nodes = Due(K, root, ls, d)
  BY <1>3, Zenon DEF InOrder, Told, Lines
<1>5. PICK n \in Nat : n = Len(ls) /\ n >= 1 /\ DOMAIN ls = 1..n
  BY <1>4
<1>6. \A d \in 1..n : ls[d].nodes \in Seq(DOMAIN K)
  <2>1. ASSUME NEW d \in 1..n PROVE ls[d].nodes \in Seq(DOMAIN K)
    <3>0. ls \in Seq([level : Nat, nodes : Seq(DOMAIN K)]) /\ d \in 1..Len(ls)
      BY <1>4, <1>5, Zenon
    <3>1. PICK l \in [level : Nat, nodes : Seq(DOMAIN K)] : l = ls[d]
      <4> DEFINE L == [level : Nat, nodes : Seq(DOMAIN K)]
      <4>1. ls \in Seq(L) /\ d \in 1..Len(ls)
        BY <3>0
      <4> HIDE DEF L
      <4>2. ls[d] \in L
        BY <4>1
      <4>q. QED
        BY <4>2, Zenon DEF L
    <3>2. l.nodes \in Seq(DOMAIN K)
      OBVIOUS
    <3>q. QED
      BY <3>1, <3>2, Zenon
  <2>q. QED
    BY <2>1
<1>7. AtEnd(K, root, ls, <<>>)
  <2>1. ~AtRoot(K, root, ls, <<>>, lvl)
    <3>1. <<>> # <<root>>
      OBVIOUS
    <3>q. QED
      BY <3>1, Zenon DEF AtRoot
  <2>2. ASSUME InRow(K, h, root, ls, <<>>, p, lvl, till, ch) PROVE FALSE
    <3>0. PICK sh \in Seq(DOMAIN K) : sh = ls[Len(ls)].nodes
      <4>1. n \in 1..n
        BY <1>5
      <4>q. QED
        BY <1>5, <1>6, <4>1
    <3>1. PICK row : Within(K, h, root, row, sh, <<>>, p, till, ch)
      BY <2>2, <3>0, Zenon DEF InRow
    <3>2. PICK rest \in Seq(DOMAIN K) : rest # <<>> /\ <<>> = rest \o Row(K, sh)
      BY <3>1, Zenon DEF Within
    <3>3. PICK below \in Seq(DOMAIN K) : below = Row(K, sh)
      <4>1. K \in [DOMAIN K -> Seq(DOMAIN K)]
        BY <1>1, Zenon DEF TreeRead, Family
      <4>q. QED
        BY <4>1, RowStep
    <3>4. rest \o below # <<>>
      BY <3>2, ConcatEqualIffEmpty
    <3>q. QED
      BY <3>2, <3>3, <3>4, Zenon
  <2>q. QED
    BY <1>3, <2>1, <2>2, Zenon DEF InOrder
<1>8. ls[n].nodes # <<>> /\ ls[n].nodes = Due(K, root, ls, n) /\ Row(K, ls[n].nodes) = <<>>
  BY <1>5, <1>7, Zenon DEF AtEnd
<1>9. \A d \in 1..n : ls[d].nodes # <<>> /\ ls[d].nodes = Due(K, root, ls, d)
  <2>1. \A d \in 1..n : d = n \/ d \in 1..(n - 1)
    OBVIOUS
  <2>q. QED
    BY <1>4, <1>5, <1>8, <2>1, Zenon
<1>10. ls # <<>> /\ ls[1].nodes = <<root>>
  <2>1. 1 \in 1..n
    BY <1>5
  <2>2. Due(K, root, ls, 1) = <<root>>
    BY Zenon DEF Due
  <2>3. ls # <<>>
    BY <1>5
  <2>q. QED
    BY <1>9, <2>1, <2>2, <2>3, Zenon
<1>11. ASSUME NEW d \in 1..n
       PROVE  RowBelow(ls[d].nodes) = IF d < n THEN ls[d + 1].nodes ELSE <<>>
  <2>1. RowBelow(ls[d].nodes) = Row(K, ls[d].nodes)
    <3>1. PICK row \in Seq(DOMAIN K) : row = ls[d].nodes
      BY <1>6
    <3>2. RowBelow(row) = Row(K, row)
      BY <1>1, RowIsBelow
    <3>q. QED
      BY <3>1, <3>2, Zenon
  <2>2. CASE d < n
    <3>1. PICK e \in 1..n : e = d + 1 /\ e # 1 /\ e - 1 = d
      BY <2>2
    <3>2. Due(K, root, ls, e) = Row(K, ls[e - 1].nodes)
      BY <3>1, Zenon DEF Due
    <3>3. ls[e].nodes = Row(K, ls[d].nodes)
      BY <1>9, <3>1, <3>2, Zenon
    <3>q. QED
      BY <2>1, <2>2, <3>1, <3>3, Zenon
  <2>3. CASE ~(d < n)
    <3>1. d = n
      BY <2>3
    <3>q. QED
      BY <1>8, <2>1, <2>3, <3>1, Zenon
  <2>q. QED
    BY <2>2, <2>3
<1>q. QED
  BY <1>2, <1>3, <1>4, <1>5, <1>9, <1>10, <1>11, Zenon

LEMMA StepInOrder ==
  ASSUME TypeOK, OffsetsSound, Ended, QueueInv, NEW T, NEW g, NEW iv, NEW F, Held(T, g, iv, F),
         OrderInv, [PNext]_pvars
  PROVE  OrderInv'
<1>0. PrinterType /\ Numbered(queue, queue_position) /\ (~printing => queue = <<>>)
  BY QueueParts, Zenon DEF QueueInv, PrinterType
<1>k. ASSUME nodes' = nodes, root_offset' = root_offset, root_offset \in Slots, NEW K, NEW h,
             TreeRead(K, h), PrintInOrder(K, h)'
      PROVE  OrderInv'
  BY <1>k, TreeReadKept, Zenon DEF OrderInv
<1>s. nodes' = nodes => Slots' = Slots
  BY DEF Slots
<1>o. root_offset' \notin Slots' \/ ~printing' => OrderInv'
  BY Zenon DEF OrderInv
<1>1. CASE UNCHANGED pvars
  <2>1. /\ nodes' = nodes /\ root_offset' = root_offset /\ queue' = queue /\ printing' = printing
        /\ queue_position' = queue_position /\ curr_level' = curr_level
        /\ level_till_pos' = level_till_pos /\ children' = children /\ lines' = lines
    BY <1>1, Zenon DEF pvars, vars, disk, globals, printer
  <2>2. CASE printing /\ root_offset \in Slots
    <3>1. PICK K, h : TreeRead(K, h) /\ PrintInOrder(K, h)
      BY <2>2, Zenon DEF OrderInv
    <3>2. PrintInOrder(K, h)'
      BY <2>1, <3>1, Zenon DEF PrintInOrder
    <3>q. QED
      BY <1>k, <2>1, <2>2, <3>1, <3>2, Zenon
  <2>3. CASE ~(printing /\ root_offset \in Slots)
    BY <1>o, <1>s, <2>1, <2>3, Zenon
  <2>q. QED
    BY <2>2, <2>3
<1>2. CASE StartPrint
  <2>1. /\ nodes' = nodes /\ root_offset' = root_offset /\ ~printing /\ pc = "cmd"
    BY <1>2, Zenon DEF StartPrint, print_tree, disk, globals
  <2>2. CASE root_offset \in Slots
    <3>1. Alive
      BY <2>1 DEF Alive
    <3>2. PICK K : TreeRead(K, g)
      BY <2>2, <3>1, HeldRead, Zenon
    <3>3. PrintInOrder(K, g)'
      BY <1>0, <1>2, <2>1, <3>2, StartInOrder, Zenon
    <3>q. QED
      BY <1>k, <2>1, <2>2, <3>2, <3>3, Zenon
  <2>3. CASE root_offset \notin Slots
    BY <1>o, <1>s, <2>1, <2>3, Zenon
  <2>q. QED
    BY <2>2, <2>3
<1>3. CASE PrintNode
  <2>1. nodes' = nodes /\ root_offset' = root_offset /\ printing
    BY <1>3, Zenon DEF PrintNode, vars, disk, globals
  <2>2. CASE root_offset \in Slots
    <3>1. PICK K, h : TreeRead(K, h) /\ PrintInOrder(K, h)
      BY <2>1, <2>2, Zenon DEF OrderInv
    <3>2. PrintInOrder(K, h)'
      BY <1>0, <1>3, <3>1, TurnInOrder, Zenon
    <3>q. QED
      BY <1>k, <2>1, <2>2, <3>1, <3>2, Zenon
  <2>3. CASE root_offset \notin Slots
    BY <1>o, <1>s, <2>1, <2>3, Zenon
  <2>q. QED
    BY <2>2, <2>3
<1>4. CASE PrintOpenFails \/ PrintReturn
  <2>1. printing' = FALSE
    BY <1>4, Zenon DEF PrintOpenFails, PrintReturn, PrintOver
  <2>q. QED
    BY <1>o, <2>1, Zenon
<1>5. CASE Others \/ Beside(Kill)
  <2>1. ~printing'
    <3>1. CASE Others
      BY <3>1, Zenon DEF Others, Beside, printer, PrintOver
    <3>2. CASE Beside(Kill)
      <4>1. ~Alive'
        BY <3>2 DEF Beside, Kill, Exit, Alive
      <4>q. QED
        BY <3>2, <4>1, Zenon DEF Beside, PrintOver
    <3>q. QED
      BY <1>5, <3>1, <3>2
  <2>q. QED
    BY <1>o, <2>1, Zenon
<1>q. QED
  BY <1>1, <1>2, <1>3, <1>4, <1>5, Zenon DEF PNext, Walk

\* print_tree's only record of where a line ends is its count of children (data_structures.c:1292).
\* For every order from 3 on, if each file found at the start holds a forest whose nodes are written
\* out to their ends and no write of a node is cut short: a print that comes to its end has shown
\* the root, then on each line the children of the line above, from left to right, and no line is
\* missing; whatever was added, killed or printed before.
THEOREM PrintedByLevelAlways ==
  ASSUME Order >= 3, Cuts = {},
         \A f \in IndexFiles : /\ \E r : Grades(r, f.nodes)
                               /\ \A s \in DOMAIN f.nodes : Whole(f.nodes[s]) /\ Ends(f.nodes[s])
                               /\ FileHeld(f)
  PROVE  PSpec => []PrintedByLevel
<1> DEFINE Inv == /\ TypeOK /\ OffsetsSound /\ (\E r : Graded(r)) /\ Wholes /\ StackPath
                  /\ (\E T, h, iv, F : Held(T, h, iv, F)) /\ Ended /\ QueueInv /\ OrderInv
<1>1. PInit => Inv
  <2> SUFFICES ASSUME PInit PROVE Inv
    OBVIOUS
  <2>0. Init /\ queue = <<>> /\ queue_position = 0 /\ printing = FALSE
    BY Zenon DEF PInit
  <2>1. TypeOK /\ OffsetsSound
    BY <2>0, InitSound
  <2>2. (\E r : Graded(r)) /\ Wholes /\ StackPath
    BY <2>0, InitPath
  <2>3. \E T, h, iv, F : Held(T, h, iv, F)
    BY <2>0, <2>1, InitHeld
  <2>4. Ended
    <3>1. nodes = <<>> \/ \E f \in IndexFiles : nodes = f.nodes
      BY <2>0, Zenon DEF Init
    <3>2. Slots = DOMAIN nodes
      BY <2>1 DEF Slots, TypeOK
    <3>3. CASE nodes = <<>>
      BY <3>2, <3>3 DEF Ended
    <3>4. CASE \E f \in IndexFiles : nodes = f.nodes
      BY <3>2, <3>4, Zenon DEF Ended
    <3>q. QED
      BY <3>1, <3>3, <3>4
  <2>5. QueueInv
    <3>1. queue \in Seq(Entry) /\ DOMAIN queue = {} /\ queue_position \in Int
      BY <2>0
    <3>q. QED
      BY <2>0, <3>1, Zenon DEF QueueInv, PrinterType, QueueSound
  <2>6. OrderInv
    BY <2>0, Zenon DEF OrderInv
  <2>q. QED
    BY <2>1, <2>2, <2>3, <2>4, <2>5, <2>6
<1>2. Inv /\ [PNext]_pvars => Inv'
  <2> SUFFICES ASSUME Inv, [PNext]_pvars PROVE Inv'
    OBVIOUS
  <2>0. [Next]_vars
    BY StepsOfIndex
  <2>1. TypeOK' /\ OffsetsSound'
    BY <2>0, StepSound
  <2>2. (\E r : Graded(r))'
    BY <2>0, StepGraded
  <2>3. Wholes' /\ StackPath'
    BY <2>0, StepPath
  <2>4. \E T, h, iv, F : Held(T, h, iv, F)'
    BY <2>0, StepHeld
  <2>5. Ended'
    BY <2>0, StepEnded
  <2>6. QueueInv'
    BY PrintStepSound
  <2>7. OrderInv'
    BY StepInOrder
  <2>q. QED
    BY <2>1, <2>2, <2>3, <2>4, <2>5, <2>6, <2>7
<1>3. Inv => PrintedByLevel
  BY OrderPrinted
<1>q. QED
  BY <1>1, <1>2, <1>3, PTL DEF PSpec
=============================================================================
