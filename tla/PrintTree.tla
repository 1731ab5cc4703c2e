----------------------------- MODULE PrintTree ------------------------------
(***************************************************************************)
(* The print command, composed with the rest of the program: print_tree    *)
(* walks the tree breadth first with a global queue, and numbers the       *)
(* levels.  One turn of its loop is a step.  A process that prints serves  *)
(* no other command, but it can be killed.                                 *)
(***************************************************************************)
EXTENDS BTreeShape

CONSTANT MaxPrinted    \* bound on the nodes of one print

ASSUME PrintAssumption == MaxPrinted \in Nat

VARIABLES
  queue, queue_position,                 \* globals: the nodes to print; the number of the next one
  printing,                              \* whether print_tree runs
  curr_level, level_till_pos, children,  \* its locals
  lines                                  \* what it has printed: a level number and nodes each

printer == <<queue, queue_position, printing, curr_level, level_till_pos, children, lines>>
pvars   == <<vars, printer>>
-----------------------------------------------------------------------------
(* The queue and the file *)

\* enqueue for each of a sequence of offsets, on top of what is left of the queue.
enqueue(q, offsets) ==
  /\ queue' = q \o [i \in DOMAIN offsets |->
                      [offset |-> offsets[i], queue_position |-> queue_position + i - 1]]
  /\ queue_position' = queue_position + Len(offsets)

\* Bug: the case of a single element is missing.
DequeueKeepsLast == IF Len(queue) = 1 THEN queue ELSE Tail(queue)

dequeue == Tail(queue)

\* How many child offsets print_tree reads in a node: up to the first -1 or to the last.
KidCount(kids) == CHOOSE n \in 0..Order : /\ \A i \in 1..n : kids[i] # NoOffset
                                          /\ n < Order => kids[n + 1] = NoOffset

\* At the header no key is read, and as child offsets the words behind it that are keys of the first
\* node; a file that ends before them leaves the 0 in test_offset, the header again, Order times.
ChildrenAt(o) ==
  IF o # Header THEN SubSeq(nodes[o].kids, 1, KidCount(nodes[o].kids))
  ELSE IF nodes = <<>> THEN [i \in 1..Order |-> Header] ELSE <<>>

\* Only files where those words are -1: other keys would be taken for offsets.
HeaderReadable ==
  root_offset = Header /\ nodes # <<>> =>
    Order >= 4 /\ \A i \in {Order - 2, Order - 1} : nodes[1].keys[i] = Filler
-----------------------------------------------------------------------------
(* print_tree *)

Line(level) == <<[level |-> level, nodes |-> <<>>]>>

\* lines with the node at the head of the queue added to the last one.
Shown   == [lines EXCEPT ![Len(lines)].nodes = Append(@, Head(queue).offset)]
Printed == LET upto[i \in 0..Len(lines)] == IF i = 0 THEN 0 ELSE upto[i - 1] + Len(lines[i].nodes)
           IN  upto[Len(lines)]

PrintOver == printing' = FALSE /\ curr_level' = 0 /\ level_till_pos' = 0 /\ children' = 0 /\ lines' = <<>>

StartPrint ==
  /\ ~printing /\ print_tree /\ HeaderReadable
  /\ enqueue(queue, <<root_offset>>)
  /\ printing' = TRUE
  /\ curr_level' = 1 /\ level_till_pos' = 0 /\ children' = 0
  /\ lines' = Line(1)

\* The node at root_offset: its children are the next level.
PrintRoot(kids) ==
  /\ Head(queue).offset = root_offset
  /\ curr_level' = curr_level + 1
  /\ level_till_pos' = Head(queue).queue_position + Len(kids)
  /\ children' = 0
  /\ lines' = Shown \o (IF kids # <<>> THEN Line(curr_level + 1) ELSE <<>>)

\* Bug: only the children of the last node of a level are counted.
PrintLastCounted(kids) ==
  /\ Head(queue).offset # root_offset /\ Head(queue).queue_position = level_till_pos
  /\ curr_level' = curr_level + 1
  /\ level_till_pos' = Head(queue).queue_position + Len(kids)
  /\ children' = 0
  /\ lines' = Shown \o (IF dequeue # <<>> THEN Line(curr_level + 1) ELSE <<>>)

\* The last node of its level: if other nodes wait, they are the next level.
PrintLast(kids) ==
  /\ Head(queue).offset # root_offset /\ Head(queue).queue_position = level_till_pos
  /\ curr_level' = curr_level + 1
  /\ level_till_pos' = Head(queue).queue_position + children + Len(kids)
  /\ children' = 0
  /\ lines' = Shown \o (IF dequeue # <<>> THEN Line(curr_level + 1) ELSE <<>>)

PrintInner(kids) ==
  /\ Head(queue).offset # root_offset /\ Head(queue).queue_position # level_till_pos
  /\ children' = children + Len(kids)
  /\ lines' = Shown
  /\ UNCHANGED <<curr_level, level_till_pos>>

\* Bug: ftemp is left open, as f_child_offset is.
PrintNodeLeaks ==
  /\ printing /\ queue # <<>> /\ fds < MaxOpen /\ Printed < MaxPrinted
  /\ LET kids == ChildrenAt(Head(queue).offset) IN
     /\ PrintRoot(kids) \/ PrintLast(kids) \/ PrintInner(kids)
     /\ enqueue(dequeue, kids)
  /\ fds' = fds + 1
  /\ UNCHANGED <<disk, globals, pc, locals, sessions, printing>>

\* One turn of the loop; ftemp, opened to count the children, is closed again.
PrintNode ==
  /\ printing /\ queue # <<>> /\ fds < MaxOpen /\ Printed < MaxPrinted
  /\ LET kids == ChildrenAt(Head(queue).offset) IN
     /\ PrintRoot(kids) \/ PrintLast(kids) \/ PrintInner(kids)
     /\ enqueue(dequeue, kids)
  /\ UNCHANGED <<vars, printing>>

\* ftemp cannot be opened: print_tree returns, with the queue as it is then.
PrintOpenFails ==
  /\ printing /\ queue # <<>> /\ fds >= MaxOpen
  /\ queue' = dequeue
  /\ PrintOver
  /\ UNCHANGED <<vars, queue_position>>

PrintReturn ==
  /\ printing /\ queue = <<>>
  /\ PrintOver
  /\ UNCHANGED <<vars, queue, queue_position>>

Walk == PrintNode \/ PrintOpenFails \/ PrintReturn
-----------------------------------------------------------------------------
(* The whole program *)

PInit == Init /\ queue = <<>> /\ queue_position = 0 /\ printing = FALSE /\ curr_level = 0
              /\ level_till_pos = 0 /\ children = 0 /\ lines = <<>>

\* The queue, a global, ends with the process.
Beside(A) ==
  /\ A
  /\ IF Alive' THEN UNCHANGED printer ELSE queue' = <<>> /\ queue_position' = 0 /\ PrintOver

Others ==
  ~printing /\ Beside(\/ Open
                      \/ \E o \in {"add", "find"}, k \in CommandKeys : Command(o, k)
                      \/ Serve \/ End \/ Eof
                      \/ \E c \in Cuts : KillInWrite(c))

PNext == StartPrint \/ Walk \/ Others \/ Beside(Kill)

\* A process that serves a command or prints goes on with it unless it is killed.
PSpec == PInit /\ [][PNext]_pvars /\ WF_pvars(~printing /\ Beside(Serve)) /\ WF_pvars(Walk)
-----------------------------------------------------------------------------
(* Properties *)

\* Between prints nothing is left in the queue, not even of one that ran out of open files; in a
\* print the queue is of nodes of the file (the header, when that was never written), numbered
\* without a gap up to the next number to give, and only the first node can fail to open a file.
QueueSound ==
  /\ ~printing => queue = <<>>
  /\ printing => pc = "cmd"
  /\ printing /\ fds >= MaxOpen => Len(queue) <= 1
  /\ \A i \in DOMAIN queue :
       /\ \/ queue[i].offset \in Slots
          \/ queue[i].offset = Header /\ root_offset = Header
       /\ queue[i].queue_position = queue_position - Len(queue) + i - 1

\* The sequences of ss one after the other.
Flattened(ss) ==
  LET upto[i \in 0..Len(ss)] == IF i = 0 THEN <<>> ELSE upto[i - 1] \o ss[i]
  IN  upto[Len(ss)]

\* The children of a node and those of a row of nodes, from left to right.
KidsInOrder(o) ==
  Flattened([i \in 1..Order |-> LET k == nodes[o].kids[i] IN IF k = NoOffset THEN <<>> ELSE <<k>>])
RowBelow(row) == Flattened([i \in DOMAIN row |-> KidsInOrder(row[i])])

\* A print that comes to its end has shown the root on the first line, the children of each line's
\* nodes on the next, from left to right, and no line is missing: the line ends fall where the
\* count of children says (data_structures.c:1292), in a second print of a process too.
PrintedByLevel ==
  printing /\ queue = <<>> /\ root_offset \in Slots =>
    /\ lines # <<>> /\ lines[1].nodes = <<root_offset>>
    /\ \A d \in DOMAIN lines :
         /\ lines[d].level = d /\ lines[d].nodes # <<>>
         /\ RowBelow(lines[d].nodes) = IF d < Len(lines) THEN lines[d + 1].nodes ELSE <<>>

\* data_structures.c:1172: "Prints the tree": no node is printed twice.
PrintsOnce ==
  \A i, j \in DOMAIN lines :
    \A m \in DOMAIN lines[i].nodes, n \in DOMAIN lines[j].nodes :
      lines[i].nodes[m] = lines[j].nodes[n] => i = j /\ m = n

\* A print of a tree comes to its end, whatever was killed in a split before.
PrintEnds == (printing /\ root_offset \in Slots) ~> ~printing
=============================================================================
