------------------------------- MODULE BTree --------------------------------
(***************************************************************************)
(* The disk-backed B-tree of initmem/testbed: main's command loop in       *)
(* assn_4.c and the search and split routines of data_structures.c.        *)
(*                                                                         *)
(* The index file is the header (the offset of the root) and a sequence of *)
(* nodes of equal size; a node is known by its position in the sequence,   *)
(* its slot.  Offset 0 is the header's own, offset 8 + 12 * Order * (i-1)  *)
(* is slot i.  Each action is one piece of a command between two of its    *)
(* reads of the tree or writes to the file; stdio holds a node back until  *)
(* the fseek that ends every write, unless its buffer is full before.  The *)
(* process may be killed between any two actions, and in a write of a node *)
(* that does not fit in the buffer.                                        *)
(***************************************************************************)
EXTENDS BTreeNode

CONSTANTS
  Keys,         \* keys that may be in an index file
  CommandKeys,  \* keys that commands name
  IndexFiles,   \* index files that may be there already, written by an earlier run
  Cuts,         \* how many words of a node may be in the file when its write is cut short
  MaxOpen,      \* open files a process may have
  MaxNodes,     \* bound on the file: no further add is given to a larger one
  MaxSessions   \* bound on the number of times the program is started

RootMark == -10   \* pushed instead of the parent of the root

IndexFile == [header : Int, nodes : Seq(Node)]

\* A file as the program leaves it: every offset in it is that of a node, the header may
\* also be missing or say that the tree is empty.
SoundFile(f) ==
  /\ f.header \in DOMAIN f.nodes \cup {NoOffset, Header}
  /\ \A s \in DOMAIN f.nodes :
       /\ f.nodes[s].n >= 1
       /\ \A i \in 1..Order : f.nodes[s].kids[i] \in DOMAIN f.nodes \cup {NoOffset}

\* Keys not above Sentinel end a scan before it reads a key; they are not in this model.  A write
\* is cut at a multiple of stdio's 4096 bytes in the file, which for an even order is never inside
\* a child offset; for an odd order only files below that size are in this model.
ASSUME BTreeAssumption ==
  /\ Keys \subseteq Int /\ \A k \in Keys : k > Sentinel
  /\ CommandKeys \subseteq Keys
  /\ IndexFiles \subseteq {f \in IndexFile : SoundFile(f)}
  /\ Cuts \subseteq {c \in 1..(3 * Order - 1) : c <= Order \/ (c - Order) % 2 = 0}
  /\ MaxOpen \in Nat \ {0} /\ MaxNodes \in Nat /\ MaxSessions \in Nat

VARIABLES
  exists, header, nodes,             \* the index file; header is 0 until it is written
  root_offset, leaf_offset, stack,   \* globals of the process
  fds,                               \* files it has open
  pc, op, key, found,                \* the command being served
  cur, prev,                         \* curr_offset and prev_offset of the two searches
  aux, node_offset, next_parent, right_offset,  \* locals of add_with_split
  sessions

disk    == <<exists, header, nodes>>
globals == <<root_offset, leaf_offset, stack>>
command == <<op, key>>
search  == <<cur, prev>>
split   == <<aux, node_offset, next_parent, right_offset>>
locals  == <<command, found, search, split>>
vars    == <<disk, globals, fds, pc, command, found, search, split, sessions>>
-----------------------------------------------------------------------------
(* The file and the stack *)

Slots == 1..Len(nodes)

\* no_of_keys read at an offset; at the header's it is 0 (its low word, or end of file).
CountAt(o) == IF o = Header THEN 0 ELSE nodes[o].n

\* curr_node: the offset divided by sizeof(btree_node), 24, not by the size of a node.
NodeNo(o) == (Order * (o - 1)) \div 2

push(o)  == stack' = <<o>> \o stack
pop      == /\ next_parent' = (IF stack = <<>> THEN NoOffset ELSE Head(stack))
            /\ stack' = (IF stack = <<>> THEN stack ELSE Tail(stack))

write_node_at_offset(nd, o) == nodes' = [nodes EXCEPT ![o] = nd] /\ UNCHANGED <<exists, header>>

\* At the first slot while the tree is empty, else at the end of the file.
write_node(nd) ==
  /\ nodes' = IF root_offset = NoOffset THEN <<nd>> \o SubSeq(nodes, 2, Len(nodes))
                                        ELSE Append(nodes, nd)
  /\ UNCHANGED <<exists, header>>

\* Gone: "exited" by the command end, "died" by exit(-1), "killed" from outside.
Alive == pc \notin {"exited", "died", "killed"}
-----------------------------------------------------------------------------
(* The process *)

\* The locals of a command end with it; the globals end with the process.
NoLocals ==
  /\ op' = "none" /\ key' = 0 /\ found' = FALSE
  /\ cur' = NoOffset /\ prev' = NoOffset
  /\ aux' = EmptyAux /\ node_offset' = NoOffset
  /\ next_parent' = NoOffset /\ right_offset' = NoOffset

Return == pc' = "cmd" /\ NoLocals

Exit(how) ==
  /\ pc' = how /\ NoLocals
  /\ root_offset' = 0 /\ leaf_offset' = 0 /\ stack' = <<>>
  /\ fds' = 0

Init ==
  /\ \/ exists = FALSE /\ header = 0 /\ nodes = <<>>
     \/ \E f \in IndexFiles : exists = TRUE /\ header = f.header /\ nodes = f.nodes
  /\ root_offset = 0 /\ leaf_offset = 0 /\ stack = <<>>
  /\ fds = 0
  /\ pc = "exited" /\ op = "none" /\ key = 0 /\ found = FALSE
  /\ cur = NoOffset /\ prev = NoOffset
  /\ aux = EmptyAux /\ node_offset = NoOffset
  /\ next_parent = NoOffset /\ right_offset = NoOffset
  /\ sessions = 0

\* main up to its loop: the globals are new; a file that was not there is created and
\* stays without a header, one that was there gives root_offset (0 if it has no bytes).
Open ==
  /\ ~Alive /\ sessions < MaxSessions
  /\ exists' = TRUE
  /\ root_offset' = (IF exists THEN header ELSE NoOffset)
  /\ fds' = 1
  /\ pc' = "cmd"
  /\ sessions' = sessions + 1
  /\ UNCHANGED <<header, nodes, leaf_offset, stack, locals>>

\* add and find both start with find_key_in_btree.
Command(o, k) ==
  /\ pc = "cmd"
  /\ o = "add" => Len(nodes) <= MaxNodes
  /\ op' = o /\ key' = k
  /\ pc' = "call"
  /\ UNCHANGED <<disk, globals, fds, found, search, split, sessions>>

\* The print command as far as this module goes: the file it opens and does not close.  Its walk
\* (module PrintTree) changes nothing of the index.
print_tree ==
  /\ pc = "cmd"
  /\ root_offset # NoOffset /\ fds < MaxOpen
  /\ fds' = fds + 1
  /\ UNCHANGED <<disk, globals, pc, command, found, search, split, sessions>>

\* The start of find_key_in_btree: its second FILE, f_child_offset, is never closed.
FindEmpty ==
  /\ pc = "call" /\ root_offset = NoOffset
  /\ found' = FALSE
  /\ pc' = "answer"
  /\ UNCHANGED <<disk, globals, fds, command, search, split, sessions>>

FindOpen ==
  /\ pc = "call" /\ root_offset # NoOffset /\ fds < MaxOpen
  /\ fds' = fds + 1
  /\ cur' = root_offset
  /\ pc' = "find"
  /\ UNCHANGED <<disk, globals, command, found, prev, split, sessions>>

\* exit(-1) where a search cannot open the file; the header is not written.
OpenFails ==
  /\ \/ pc = "call" /\ root_offset # NoOffset
     \/ pc = "parents"
  /\ fds >= MaxOpen
  /\ Exit("died")
  /\ UNCHANGED <<disk, sessions>>

\* One turn of the loop of find_key_in_btree.
FindAnswer(b) ==
  /\ found' = b
  /\ pc' = "answer"
  /\ UNCHANGED cur

\* Bug: the search does not go on to the child.
FindStepStays ==
  /\ pc = "find"
  /\ LET p  == Position(nodes[cur], key)
         at == p <= nodes[cur].n /\ nodes[cur].keys[p] = key
     IN  IF CountAt(cur) = 0 THEN FindAnswer(FALSE)
         ELSE IF at \/ nodes[cur].kids[p] = NoOffset THEN FindAnswer(at)
         ELSE UNCHANGED <<cur, pc, found>>
  /\ UNCHANGED <<disk, globals, fds, command, prev, split, sessions>>

FindStep ==
  /\ pc = "find"
  /\ \/ /\ CountAt(cur) = 0
        /\ FindAnswer(FALSE)
     \/ /\ CountAt(cur) # 0
        /\ LET nd == nodes[cur]
               p  == Position(nd, key)
               at == p <= nd.n /\ nd.keys[p] = key
           IN  \/ at /\ FindAnswer(TRUE)
               \/ ~at /\ nd.kids[p] = NoOffset /\ FindAnswer(FALSE)
               \/ /\ ~at /\ nd.kids[p] # NoOffset
                  /\ cur' = nd.kids[p]
                  /\ UNCHANGED <<pc, found>>
  /\ UNCHANGED <<disk, globals, fds, command, prev, split, sessions>>

\* The answer is printed; an add of a key that is there ends here too.
Answer ==
  /\ pc = "answer" /\ (op = "find" \/ found)
  /\ Return
  /\ UNCHANGED <<disk, globals, fds, sessions>>

\* "The tree is empty. Construct the root"
AddRoot ==
  /\ pc = "answer" /\ op = "add" /\ ~found /\ root_offset = NoOffset
  /\ write_node(RootOf(key))
  /\ root_offset' = 1
  /\ Return
  /\ UNCHANGED <<leaf_offset, stack, fds, sessions>>

\* Bug: cleanup_stack is not called, the path of the previous add stays below this one's.
StartAddDirty ==
  /\ pc = "answer" /\ op = "add" /\ ~found /\ root_offset # NoOffset
  /\ pc' = "parents"
  /\ UNCHANGED <<disk, globals, fds, command, found, search, split, sessions>>

StartAdd ==
  /\ pc = "answer" /\ op = "add" /\ ~found /\ root_offset # NoOffset
  /\ stack' = <<>>                                  \* cleanup_stack
  /\ pc' = "parents"
  /\ UNCHANGED <<disk, root_offset, leaf_offset, fds, command, found, search, split, sessions>>

\* populate_parents: it opens a file of its own, then goes down, one turn of the loop a step.
ParentsOpen ==
  /\ pc = "parents" /\ fds < MaxOpen
  /\ fds' = fds + 1
  /\ cur' = root_offset /\ prev' = root_offset
  /\ pc' = "descend"
  /\ UNCHANGED <<disk, globals, command, found, split, sessions>>

\* A node without keys makes it return at once: leaf_offset and stack stay as they are.
DescendNoKeys ==
  /\ pc = "descend" /\ CountAt(cur) = 0
  /\ pc' = "leaf"
  /\ UNCHANGED <<disk, globals, fds, command, found, search, split, sessions>>

Descend ==
  /\ pc = "descend" /\ CountAt(cur) # 0
  /\ push(IF NodeNo(cur) = NodeNo(root_offset) THEN RootMark ELSE prev)
  /\ LET kid == nodes[cur].kids[Position(nodes[cur], key)]
     IN  \/ /\ kid = NoOffset
            /\ leaf_offset' = cur
            /\ pc' = "leaf"
            /\ UNCHANGED <<cur, prev>>
         \/ /\ kid # NoOffset
            /\ prev' = cur /\ cur' = kid
            /\ UNCHANGED <<leaf_offset, pc>>
  /\ UNCHANGED <<disk, root_offset, fds, command, found, split, sessions>>

\* A leaf with room: insert_in_node has an empty body, the key is not stored.
insert_in_node ==
  /\ pc = "leaf" /\ CountAt(leaf_offset) # Order - 1
  /\ Return
  /\ UNCHANGED <<disk, globals, fds, sessions>>

add_key_to_tree ==
  /\ pc = "leaf" /\ CountAt(leaf_offset) = Order - 1
  /\ aux' = WithKey(nodes[leaf_offset], key)
  /\ node_offset' = leaf_offset
  /\ pc' = "split"
  /\ UNCHANGED <<disk, globals, fds, command, found, search, next_parent, right_offset, sessions>>

\* add_with_split, first write: the left half replaces the node.
LeftOffset == IF stack # <<>> /\ Head(stack) = RootMark THEN root_offset ELSE node_offset

SplitLeft ==
  /\ pc = "split"
  /\ pop
  /\ write_node_at_offset(LeftOf(aux), LeftOffset)
  /\ pc' = "right"
  /\ UNCHANGED <<root_offset, leaf_offset, fds, command, found, search, aux, node_offset,
                 right_offset, sessions>>

\* Bug: right_offset is taken when the right half is in the file already.
SplitRightLate ==
  /\ pc = "right"
  /\ right_offset' = Len(nodes) + 2
  /\ write_node(RightOf(aux))
  /\ pc' = (IF next_parent # RootMark THEN "link" ELSE "newroot")
  /\ UNCHANGED <<globals, fds, command, found, search, aux, node_offset, next_parent, sessions>>

\* Bug: right_offset is the last node's, the right half goes behind it.
SplitRightLast ==
  /\ pc = "right"
  /\ right_offset' = Len(nodes)
  /\ write_node(RightOf(aux))
  /\ pc' = (IF next_parent # RootMark THEN "link" ELSE "newroot")
  /\ UNCHANGED <<globals, fds, command, found, search, aux, node_offset, next_parent, sessions>>

\* Second write: the right half goes to the end of the file.
SplitRight ==
  /\ pc = "right"
  /\ right_offset' = Len(nodes) + 1
  /\ write_node(RightOf(aux))
  /\ pc' = (IF next_parent # RootMark THEN "link" ELSE "newroot")
  /\ UNCHANGED <<globals, fds, command, found, search, aux, node_offset, next_parent, sessions>>

\* The parent takes the split value and the right half, or is split in its turn.
Parent == WithSplit(nodes[next_parent], SplitValue(aux), right_offset)

\* Bug: "<= btree_order", a parent with one key too many is written, not split.
LinkParentFull ==
  /\ pc = "link"
  /\ LET parent == Parent
     IN  \/ /\ parent.n <= Order
            /\ write_node_at_offset(Narrowed(parent), next_parent)
            /\ Return
         \/ /\ parent.n = Order + 1
            /\ aux' = parent /\ node_offset' = next_parent
            /\ pc' = "split"
            /\ UNCHANGED <<disk, command, found, search, next_parent, right_offset>>
  /\ UNCHANGED <<globals, fds, sessions>>

LinkParent ==
  /\ pc = "link"
  /\ LET parent == Parent
     IN  \/ /\ parent.n <= Order - 1
            /\ write_node_at_offset(Narrowed(parent), next_parent)
            /\ Return
         \/ /\ parent.n = Order
            /\ aux' = parent /\ node_offset' = next_parent
            /\ pc' = "split"
            /\ UNCHANGED <<disk, command, found, search, next_parent, right_offset>>
  /\ UNCHANGED <<globals, fds, sessions>>

\* Bug: root_offset still names the old root, now the left half.
NewRootUnknown ==
  /\ pc = "newroot"
  /\ nodes' = Append(nodes, NewRootOf(SplitValue(aux), root_offset, right_offset))
  /\ Return
  /\ UNCHANGED <<exists, header, globals, fds, sessions>>

\* The root was split: a new root goes to the end of the file; the header is left alone.
NewRoot ==
  /\ pc = "newroot"
  /\ root_offset' = Len(nodes) + 1
  /\ nodes' = Append(nodes, NewRootOf(SplitValue(aux), root_offset, right_offset))
  /\ Return
  /\ UNCHANGED <<exists, header, leaf_offset, stack, fds, sessions>>

\* Bug: the header is not written at the end.
EndWithoutHeader ==
  /\ pc = "cmd"
  /\ Exit("exited")
  /\ UNCHANGED <<disk, sessions>>

\* The command end: the only place where the header is written.
End ==
  /\ pc = "cmd"
  /\ header' = root_offset
  /\ Exit("exited")
  /\ UNCHANGED <<exists, nodes, sessions>>

\* getline at the end of the input: exit(-1).
Eof ==
  /\ pc = "cmd"
  /\ Exit("died")
  /\ UNCHANGED <<disk, sessions>>

\* The process is killed between two steps, or waiting for a command.
Kill ==
  /\ Alive
  /\ Exit("killed")
  /\ UNCHANGED <<disk, sessions>>

\* It is killed when c words of a node it writes over are in the file.  Words at the end of the file
\* belong to no slot and no offset leads to them: cut there, a write leaves the nodes as they are.
KillInWrite(c) ==
  /\ \/ /\ pc = "answer" /\ op = "add" /\ ~found /\ root_offset = NoOffset /\ nodes # <<>>
        /\ write_node_at_offset(Torn(nodes[1], RootOf(key), c), 1)
     \/ /\ pc = "split"
        /\ write_node_at_offset(Torn(nodes[LeftOffset], LeftOf(aux), c), LeftOffset)
     \/ /\ pc = "link" /\ Parent.n <= Order - 1
        /\ write_node_at_offset(Torn(nodes[next_parent], Narrowed(Parent), c), next_parent)
  /\ Exit("killed")
  /\ UNCHANGED sessions

Serve ==
  \/ FindEmpty \/ FindOpen \/ OpenFails \/ FindStep \/ Answer
  \/ AddRoot \/ StartAdd \/ ParentsOpen \/ DescendNoKeys \/ Descend
  \/ insert_in_node \/ add_key_to_tree
  \/ SplitLeft \/ SplitRight \/ LinkParent \/ NewRoot

Next ==
  \/ Open
  \/ \E o \in {"add", "find"}, k \in CommandKeys : Command(o, k)
  \/ print_tree \/ Serve \/ End \/ Eof \/ Kill
  \/ \E c \in Cuts : KillInWrite(c)

\* A process that is serving a command goes on with it unless it is killed.
Spec == Init /\ [][Next]_vars /\ WF_vars(Serve)
-----------------------------------------------------------------------------
TypeOK ==
  /\ exists \in BOOLEAN /\ header \in Int /\ nodes \in Seq(Node)
  /\ root_offset \in Int /\ leaf_offset \in Int /\ stack \in Seq(Int)
  /\ fds \in 0..MaxOpen
  /\ pc \in {"exited", "died", "killed", "cmd", "call", "find", "answer", "parents", "descend", "leaf",
             "split", "right", "link", "newroot"}
  /\ op \in {"none", "add", "find"} /\ key \in Int /\ found \in BOOLEAN
  /\ cur \in Int /\ prev \in Int
  /\ aux \in AuxNode /\ node_offset \in Int /\ next_parent \in Int /\ right_offset \in Int
  /\ sessions \in 0..MaxSessions

(* The offsets the process follows and writes at, action by action *)

Kid(o)      == o \in Slots \cup {NoOffset}
NodesSound  == \A s \in Slots : nodes[s].n >= 1 /\ \A i \in 1..Order : Kid(nodes[s].kids[i])
RootSound   == /\ {header, root_offset} \subseteq Slots \cup {NoOffset, Header}
               /\ leaf_offset \in Slots \cup {Header}
               /\ root_offset \notin Slots => leaf_offset = Header
               /\ ~Alive => root_offset = Header
EndsInRoot  == stack # <<>> /\ stack[Len(stack)] = RootMark
StackSound  == /\ \A i \in DOMAIN stack : stack[i] \in Slots \cup {RootMark}
               /\ pc \in {"split", "right", "link", "newroot"} => root_offset \in Slots
               /\ pc \in {"parents", "descend", "leaf"} => root_offset # NoOffset
               /\ pc = "parents" => stack = <<>>
               /\ pc = "descend" => IF stack = <<>> THEN cur = root_offset ELSE EndsInRoot
               /\ pc = "leaf" /\ leaf_offset \in Slots => EndsInRoot
               /\ pc = "split" => EndsInRoot
               /\ pc \in {"right", "link", "newroot"} => next_parent = RootMark \/ EndsInRoot
SearchSound == /\ pc = "find" => cur \in Slots \cup {Header}
               /\ pc = "descend" /\ root_offset \in Slots => {cur, prev} \subseteq Slots
               /\ pc = "descend" /\ root_offset \notin Slots => cur = Header
SplitSound  == /\ pc \in {"split", "right", "link", "newroot"} =>
                    aux.n = Order /\ \A i \in 1..(Order + 1) : Kid(aux.kids[i])
               /\ pc = "split" => node_offset \in Slots
               /\ pc \in {"right", "link", "newroot"} => next_parent \in Slots \cup {RootMark}
               /\ pc = "link" => next_parent \in Slots
               /\ pc \in {"link", "newroot"} => right_offset \in Slots

\* With an order of at least 3, no search, read of a parent or write of a half goes anywhere
\* but to a node (a search also to the header, when that was never written): no node of the file
\* is without keys or has a child offset that is no node, whatever was killed between two writes
\* or in one, and the path stack is never popped empty.
OffsetsSound == NodesSound /\ RootSound /\ StackSound /\ SearchSound /\ SplitSound

\* The child offsets of a node, those a cut write left behind its last key included.
Below(nd) == {nd.kids[i] : i \in 1..Order} \ {NoOffset}

\* Going down ends: in any set of nodes there is one whose child offsets all lead out of it.  So no
\* search (data_structures.c:289) or print goes round in a file, whichever of the writes of its
\* splits took place, or half took place.
NoCycle == \A S \in (SUBSET Slots) \ {{}} : \E s \in S : Below(nodes[s]) \cap S = {}
=============================================================================
