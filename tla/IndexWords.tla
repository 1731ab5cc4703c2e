----------------------------- MODULE IndexWords -----------------------------
(***************************************************************************)
(* The index file as it is on disk, in words of 4 bytes: an int is one     *)
(* word, a long two, the low one first.  Here BTree's writes of nodes are  *)
(* made as write_node and write_node_at_offset make them, one fwrite after *)
(* the other through the buffer of stdio, at the place fseek went to; the  *)
(* process may be killed between any two of them.  What is on disk then is *)
(* compared with BTree's nodes, and searched with the seeks and reads of   *)
(* single ints and longs of data_structures.c.                             *)
(***************************************************************************)
EXTENDS BTree

CONSTANT Block     \* the words of a buffer of stdio: 4096 bytes

\* For an odd order a buffer may end inside a child offset.
ASSUME BlockAssumption ==
  /\ Order % 2 = 0
  /\ Block \in Nat \ {0} /\ Block % 2 = 0
  /\ {c \in 1..(3 * Order - 1) : c % 2 = 0} \subseteq Cuts

VARIABLES
  file, size,   \* the words of the index file and how many there are
  places,       \* how many words are before each slot
  at,           \* the place of the node that is being written, 0 if none is
  calls,        \* the calls of fwrite made for it
  out           \* the words it was given by them

words == <<file, size, places>>
fin   == <<at, calls, out>>
wvars == <<vars, words, fin>>

NodeSize  == 3 * Order                  \* words of a node
WordOf(s) == 2 + NodeSize * (s - 1)     \* the place of a slot where no write was cut

\* A child offset as a long, in bytes; the file is smaller than 4 GB.
LongOf(o) == IF o = NoOffset THEN <<-1, -1>> ELSE IF o = Header THEN <<0, 0>> ELSE <<4 * places[o], 0>>

\* Word i of a node: the number of keys, all key positions, all child offsets.
NodeWord(nd, i) ==
  IF i = 0 THEN nd.n
  ELSE IF i < Order THEN nd.keys[i]
  ELSE LongOf(nd.kids[(i - Order) \div 2 + 1])[((i - Order) % 2) + 1]

LongAt(w, g) == <<w[g], w[g + 1]>>

\* A node read into an aux node, int by int and long by long.
NodeAt(w, f) ==
  [n |-> w[f], keys |-> [i \in 1..(Order - 1) |-> w[f + i]],
   kids |-> [i \in 1..Order |-> LongAt(w, f + Order + 2 * (i - 1))]]
-----------------------------------------------------------------------------
(* Writes *)

\* The file with ws at place p.  A gap before p is filled with zeros.
Put(p, ws) ==
  /\ size' = IF ws # <<>> /\ p + Len(ws) > size THEN p + Len(ws) ELSE size
  /\ file' = [g \in 0..(size' - 1) |-> IF g - p \in 0..(Len(ws) - 1) THEN ws[g - p + 1]
                                       ELSE IF g < size THEN file[g] ELSE 0]

\* The node the process is about to write, and its slot.
Writes  == \/ pc = "answer" /\ op = "add" /\ ~found /\ root_offset = NoOffset
           \/ pc \in {"split", "right", "newroot"}
           \/ pc = "link" /\ Parent.n <= Order - 1
Written == CASE pc = "answer"  -> RootOf(key)
             [] pc = "split"   -> LeftOf(aux)
             [] pc = "right"   -> RightOf(aux)
             [] pc = "link"    -> Narrowed(Parent)
             [] pc = "newroot" -> NewRootOf(SplitValue(aux), root_offset, right_offset)
Target  == CASE pc = "answer"  -> 1
             [] pc = "split"   -> LeftOffset
             [] pc = "link"    -> next_parent
             [] OTHER          -> Len(nodes) + 1

\* Bug: the loop over the child offsets goes before the one over the keys.
FwritesSwapped(nd) ==
  [j \in 1..(2 * Order) |-> IF j = 1 THEN <<nd.n>>
                            ELSE IF j <= Order + 1 THEN LongOf(nd.kids[j - 1]) ELSE <<nd.keys[j - Order - 1]>>]

\* The calls of fwrite for a node.
Fwrites(nd) ==
  [j \in 1..(2 * Order) |-> IF j = 1 THEN <<nd.n>>
                            ELSE IF j <= Order THEN <<nd.keys[j - 1]>> ELSE LongOf(nd.kids[j - Order])]

\* The fseek before a write: behind the header for the first node of a tree, to the end of the file
\* (where ftell said the right half or the new root would be) or to a node that is there.
Seek ==
  /\ at = 0 /\ Writes
  /\ at' = IF Target \in Slots THEN places[Target] ELSE IF root_offset = NoOffset THEN 2 ELSE size
  /\ UNCHANGED <<vars, words, calls, out>>

\* How many of n words written from at on have left a buffer, which ends at a multiple of Block and
\* is written to the file when there is more than it can hold.
Flushed(n) == LET end == Block * ((at + n - 1) \div Block) IN IF end > at THEN end - at ELSE 0

Fwrite ==
  /\ at # 0 /\ calls < Len(Fwrites(Written))
  /\ calls' = calls + 1
  /\ out' = out \o Fwrites(Written)[calls + 1]
  /\ Put(at, SubSeq(out', 1, Flushed(Len(out'))))
  /\ UNCHANGED <<vars, places, at>>

NotWriting == at' = 0 /\ calls' = 0 /\ out' = <<>>

\* The fseek after a write sends what is left in the buffer to the file.
WriteEnds ==
  /\ at # 0 /\ calls = Len(Fwrites(Written))
  /\ Put(at, out)
  /\ places' = IF Target \in Slots THEN places ELSE Append(places, at)
  /\ NotWriting
  /\ AddRoot \/ SplitLeft \/ SplitRight \/ LinkParent \/ NewRoot

\* What is in the buffer is lost.  At the end of the file the words before it stay, and the next
\* node goes behind them.
KillWriting ==
  /\ at # 0
  /\ \/ Target \in Slots /\ Flushed(Len(out)) # 0 /\ KillInWrite(Flushed(Len(out)))
     \/ ~(Target \in Slots /\ Flushed(Len(out)) # 0) /\ Kill
  /\ NotWriting
  /\ UNCHANGED words

WriteHeader ==
  /\ at = 0
  /\ End
  /\ Put(0, LongOf(root_offset))
  /\ UNCHANGED <<places, fin>>

\* The steps of a process that write nothing.
Elsewhere ==
  /\ at = 0
  /\ \/ Open \/ print_tree \/ Eof \/ Kill
     \/ \E o \in {"add", "find"}, k \in CommandKeys : Command(o, k)
     \/ FindEmpty \/ FindOpen \/ OpenFails \/ FindStep \/ Answer
     \/ StartAdd \/ ParentsOpen \/ DescendNoKeys \/ Descend
     \/ insert_in_node \/ add_key_to_tree
     \/ pc = "link" /\ Parent.n = Order /\ LinkParent
  /\ UNCHANGED <<words, fin>>

WInit ==
  /\ Init
  /\ places = [s \in 1..Len(nodes) |-> WordOf(s)]
  /\ size = IF exists THEN WordOf(Len(nodes) + 1) ELSE 0
  /\ file = [g \in 0..(size - 1) |-> IF g < 2 THEN LongOf(header)[g + 1]
                                     ELSE NodeWord(nodes[(g - 2) \div NodeSize + 1], (g - 2) % NodeSize)]
  /\ at = 0 /\ calls = 0 /\ out = <<>>

WNext == Seek \/ Fwrite \/ WriteEnds \/ KillWriting \/ WriteHeader \/ Elsewhere

\* A process that serves a command, or is in one of its writes, goes on unless it is killed.
WServe == Seek \/ Fwrite \/ WriteEnds \/ (Serve /\ Elsewhere)

WSpec == WInit /\ [][WNext]_wvars /\ WF_wvars(WServe)
-----------------------------------------------------------------------------
(* One turn of the loops of find_key_in_btree and populate_parents, at the node at word f *)

\* How many keys make the scan stop, the node's keys being read one after the other.
Stops(w, f, k) == {r \in 1..w[f] : w[f + r] >= k}

\* keys_read and greatest when the scan is over; a key not above Sentinel starts no scan.
Scan(w, f, k) ==
  IF k <= Sentinel THEN [read |-> 0, greatest |-> FALSE]
  ELSE IF Stops(w, f, k) = {} THEN [read |-> w[f], greatest |-> TRUE]
  ELSE [read |-> CHOOSE r \in Stops(w, f, k) : \A q \in Stops(w, f, k) : r <= q, greatest |-> FALSE]

\* key_to_test is the key looked for: find_key_in_btree returns 1.
Hit(w, f, k) == LET s == Scan(w, f, k) IN ~s.greatest /\ s.read # 0 /\ w[f + s.read] = k

\* Bug: greatest is not looked at, the child before the last is taken.
ChildSeekBefore(w, f, k) ==
  LET s == Scan(w, f, k) IN
  f + Order + (IF s.greatest /\ s.read = Order - 1 THEN 2 * (Order - 1) ELSE 2 * (s.read - 1))

\* Where f_child_offset is when it reads child_offset_to_go.  It was put behind the keys; from there
\* it goes to the last child if the node is full and k above its keys (node_full), nowhere
\* if the first key ended the scan (smallest), else by keys_read (greatest) or one less.
ChildSeek(w, f, k) ==
  LET s == Scan(w, f, k) IN
  f + Order + (IF s.greatest /\ s.read = Order - 1 THEN 2 * (Order - 1)
               ELSE IF ~s.greatest /\ s.read = 1 THEN 0
               ELSE IF s.greatest THEN 2 * s.read ELSE 2 * (s.read - 1))

\* curr_node of populate_parents: the offset in bytes divided by sizeof(btree_node), 24.
CurrNode(s) == (4 * places[s]) \div 24
-----------------------------------------------------------------------------
\* Between the writes, and after a kill in one, in the old words of a node or behind the last one:
\* each node read from its place on disk is the node of BTree, the header is there or was never
\* written, and the root test of populate_parents (data_structures.c:578) tells all nodes apart,
\* those too that lie behind what a cut write left at the end of the file.
FileAgrees ==
  at = 0 =>
    /\ IF size = 0 THEN header = 0 ELSE LongAt(file, 0) = LongOf(header)
    /\ \A s \in Slots :
         NodeAt(file, places[s]) = [n |-> nodes[s].n, keys |-> nodes[s].keys,
                                    kids |-> [i \in 1..Order |-> LongOf(nodes[s].kids[i])]]
    /\ \A s, t \in Slots : CurrNode(s) = CurrNode(t) => s = t

\* A search that reads ints and longs at computed places finds the same answer and the same
\* child offset in every node of the file as one that sees the node, for every key the scan can
\* start with, the smallest being just above its sentinel (data_structures.c:314).
SearchAgrees ==
  at = 0 =>
    \A s \in Slots, k \in CommandKeys \cup {Sentinel + 1} :
      LET nd == nodes[s]  p == Position(nd, k)  f == places[s] IN
      /\ Hit(file, f, k) <=> p <= nd.n /\ nd.keys[p] = k
      /\ LongAt(file, ChildSeek(file, f, k)) = LongOf(nd.kids[p])
=============================================================================
