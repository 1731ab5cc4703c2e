# A verification project for initmem

The repository holds GCC plugins and, as a test bed for one of them, a B-tree kept in a
file. Three parts have a logic of their own and are modelled here: the **initmem pass**,
which puts zero assignments into a program, the **B-tree program**, whose index file
lives through several processes and their crashes, and the **warn_unused pass**, which
compares the results of calls with their uses.

## Inventory

| Component | Source | State | Operations | Correct when |
|---|---|---|---|---|
| initmem pass | `initmem/initmem.cc` | `uninitialised_vars`, a member of the one pass object; the statement sequences of the program it rewrites | `execute` per function: a gathering walk, then an assigning walk | the set is the function's own, the program's statements survive, every reported variable is zero before its first use |
| GIMPLE, execution | GCC (external) | bodies and declaration chains of binds; values of variables | enter a bind, assign, call, jump | an instrumented program computes what the original does and reads nothing undefined |
| command loop | `initmem/testbed/assn_4.c` | `root_offset`, `fin`, the header of the index file | `add`, `find`, `print`, `end`, end of input | each command is answered; `end` keeps everything for the next process |
| search and path stack | `data_structures.c` 21-80, 241-385, 469-638 | `leaf_offset`, the stack `top`, open files | `find_key_in_btree`, `populate_parents`, `push`, `pop`, `cleanup_stack` | the answer is right; the stack is the path to the leaf; it ends |
| insertion, splits | `data_structures.c` 387-467, 641, 833-1170 | nodes in the file, the aux node of a split | `insert_in_node`, `add_key_to_tree`, `add_with_split`, `write_node`, `write_node_at_offset` | before and after each write the file holds a search tree with the same keys |
| printing | `data_structures.c` 83-159, 1173-1334 | `head`, `tail`, `queue_position` | `enqueue`, `dequeue`, `print_tree` | every node once, with the number of its level |
| warn_unused | `_plugins/warn_unused/warn_unused.cc` | `potential_unused_lhs`, local to one function | `gather_unused_lhs`, `warn_unused_result_lhs` | warns of no result that is used where it looks |
| draw_cfg | `_plugins/draw_cfg/draw_cfg.cc` | none | prints blocks and edges | output only |
| generator, samples, build files | `initmem/gencppcode.py`, `testbed/test_samples`, Makefiles | none | | |

How they interact: GCC calls `execute` of a plugin through the pass manager, once per
function and on one thread. The B-tree program is one process; its parts share the globals
of `data_structures.c` and the file `fin`, and processes share the index file one after the
other. What is hard there is not concurrency but state that outlives what it was made for:
the set that stays in the pass object from function to function, the stack and
`leaf_offset` that stay from add to add, the header that is only written at the end, files
that are never closed, and the writes of a split between which the process may be killed.
The hazards are listed with their lines in `PROJECT.json`.

The program of the test bed does not link as it stands: `data_structures.c:1336` defines a second
`main`, which returns 0, and `testbed/Makefile` links that file with `assn_4.o`. The program
modelled is the one with `assn_4.c`'s `main`.

## Modules

    Gimple ── ZeroedLocals ┐                  BTreeNode ── SampleFiles
       └───── InitMem ─────┴─ implements          │
                 └── InitMemRun                 BTree ── BTreeShape ── implements KeyStore
                        └── InitMemProofs         │          └── PrintTree
                                                  └── IndexWords
    WarnUnused ── WarnUnusedProofs

    BTreeProofs (of BTree) ─┬─ BTreeSearchProofs ─┬─ BTreeStoreProofs (of BTreeShape)
                            │                     └─ PrintTreeProofs (of PrintTree)
                            └─ IndexWordsProofs (of IndexWords)

`NatRecursion` has the one lemma about functions defined by recursion that `BTreeSearchProofs`
and `InitMemProofs` both need.

* `Gimple` is GCC's data structure as initmem sees it (external): sequences known by
  identifiers, statements with a code, a left-hand side that is a declaration or not, the
  declarations they read and the sequence nested in them; `WellFormed` is what the front
  end guarantees: one owner for each sequence, one chain for each declaration, which is named
  within its bind only, and the bind of a switch behind it.
* `InitMem` is the pass. The recursion of `walk_gimple_seq` and its callbacks is the stack
  `walk`, one frame per running walk, with the locals of `add_assign_stmt`
  (`bind_body`, `chain`, `inits`) in it: the body of a bind is read before the walk of it and put back behind the
  zeros when the walk is over, without another look at it. One action per case of the two callbacks and per return of a walk.
  The set is cleared in `Execute`, as `gather_uninitialised_vars` does, and is not part of a frame.
* `ZeroedLocals` states what the pass is for, without walks: each bind that is reached
  through binds only starts with zeros for the declarations the function never assigns.
  `InitMem` implements it (`ImplementsZeroed`).
* `InitMemRun` runs a program the pass is through with, the original and the instrumented
  one in lockstep, along every way through its binds, switches, loops and returns. Values are
  "junk", "zero" or "value"; a bind that is entered again has its variables undefined again.
* `BTreeNode` is `struct btree_node` with the pure part of `data_structures.c`: where a key
  goes, the aux node with one more key, the halves of a split, and a node whose write over another one was
  cut short (`Torn`).
* `BTree` is the program of the test bed. A node is known by its slot; slot `i` is offset
  `8 + 12 * Order * (i - 1)` where no append was cut short, the header is offset 0. A step is the part of a command
  between two reads of the tree or two writes to the file, so that `Kill` can come at each
  of these places. A write of a node is one step, for stdio holds it back until the `fseek`
  that ends `write_node` and `write_node_at_offset`. `KillInWrite` is the case that the buffer
  is full before and the process is killed with a part of a node in the file, in the place of another one: a left half or
  a parent over the node it was, or the first key's root over the first node of a file whose header says
  that there is none. Of an append cut short `BTree` says only that no node came of it;
  the part of a node that stays at the end of the file is in `IndexWords`.
* `BTreeShape` defines the tree below an offset and states the properties of tree and stack.
* `KeyStore` is a set of keys with requests and answers: what the program is for its user.
  While a split is under way the keys in the aux node count as stored.
* `IndexWords` is `BTree` with the index file in words of four bytes, for an even order. The steps of
  `BTree` that write become several: `Seek`, a `Fwrite` for the number of keys, each key and each child offset, and
  `WriteEnds`, where the last `fseek` empties the buffer and the step of `BTree` takes place. What is over
  a multiple of `Block` in the buffer goes to the file before. `KillWriting` may come between any two of these: in the place of
  another node it is `KillInWrite`, with as many words as have left the buffer; at the end of the file it
  leaves these words there, and the next node goes behind them, at no multiple of a node's size
  (`places`). `FileAgrees` compares what is on disk then with `BTree`'s nodes. The seeks and reads of
  `find_key_in_btree` at a node, with the flags `smallest`, `greatest` and `node_full` that say where the child is
  read from, are compared with what `BTree` does on the node (`SearchAgrees`).
* `PrintTree` composes `print_tree` with the rest of the program: the queue and
  `queue_position` are globals, the other variables its locals, a turn of its loop is a step.
  `PSpec` is the whole program; while it prints only `Kill` can come between its steps.
  What it prints are `lines`: a level number and the nodes under it. `PrintedByLevel` compares
  them with the children as they are read from left to right (`KidsInOrder`, `RowBelow`), by a
  recursive function that knows nothing of the queue or the counters.
* `WarnUnused` is the pass on one function, whose statements stand in the order of
  `FOR_ALL_BB_FN`, then a run of that function along its own control flow (`next`). A run
  keeps which call's result each variable holds, and which results were read in the statements the pass
  looks at.
* `SampleFiles` holds index files the program wrote.

The modules named `MC...` give the constants small values. Operators preceded by a comment
"Bug: ..." are used by no specification; each is a way a definition next to it could have been
got wrong, kept to confirm that the properties notice it.

## Runs

| Run | Bounds | Shows |
|---|---|---|
| `initmem_pass` | two functions; in the first a body bind of at most two statements with a nested bind or try of at most one; four variables, one made by the compiler, one declaration that is no variable | `TypeOK`, `GatheredExactly`, `StatementsKept`, `ImplementsZeroed`, `EveryFunctionCompiled` hold |
| `instrumented_program` | one function, a nested bind, try or switch body, which may be the body of a loop and hold a loop or a return, one statement before and after it; three automatic variables, a static local, a local extern | `ZeroedWhereReported`, `AutomaticValuesKept` hold |
| `no_junk_read`, `persistent_values` | the same | the README's promise of the plugin is not kept: see findings |
| `btree_order3` | a three-level tree with a full path, or no file; four command keys; two sessions, six open files | all properties of `BTreeShape`, `CommandsEnd` included, and `OffsetsSound` |
| `btree_print` | order 4: a full root over a full leaf, a tree of four levels, an empty file, or no file; two sessions, six open files | the tree and the store where the halves of a split differ, with prints among the commands; `QueueSound`, `PrintedByLevel`, `PrintEnds` |
| `btree_words` | order 4: a full root, or one with room, over full leaves, in words; a buffer of 10 words, so that a node of 12 meets its end at every even place; four command keys, three sessions | `FileAgrees`, `SearchAgrees`, `OffsetsSound`, `NoCycle`, `CommandsEnd` |
| `warn_unused` | all functions of five statements out of nine, in four control flows | `WarnsExactly`, `UsedNotWarned` |
| `add_stores`, `find_returns`, `print_unwritten` | order 3, small files or none | the code and its comments or samples disagree |
| `order2_stack` | order 2 | the stack is stale after an empty node |

Two functions are needed for what initmem's set could carry over, and are enough, for
nothing else is shared by functions. One level of nesting below the body bind meets every
case of the callbacks. Two sessions are one crash and what the next process makes of it;
the index files are those the program wrote when `insert_in_node` still had its
commented-out body, as the sample `index.bin` was, because with the empty one no leaf beyond
the first key ever fills for orders above 2. From `Order3` one add splits a leaf, its full
parent and the root. The bounds `MaxNodes`, `MaxSessions` and `MaxOpen` are guards of
`Command`, `Open` and of the `fopen` calls; only `MaxOpen` has a counterpart in reality.
`MaxPrinted` bounds the nodes of one print; a tree of `MaxNodes` and a few more does not reach it,
only the endless print of a header that was never written does, which stops there.

`Cuts` are the words of a node a write over another one can be cut after: in the code those that lie before a
multiple of 4096 bytes in the file, where the buffer of stdio ends. In `btree_words` these places are computed, from where the
node lies and a buffer of `Block` words. As the buffer is smaller than a node, the cuts that nodes meet far into a large
file happen in a small one, at every even word, and more than one block of a node may be out. For an even
order a cut is never inside a child offset, whose two words then lie on the same side; for an odd one it may
be, and the runs of odd orders have no `Cuts`. Three sessions allow a kill in an append, a second
process that appends behind what is left of it and is killed in a write over a node there, and a third one
that reads all of it.

A node whose write was cut has its new number of keys before some of its old keys. It need not be in order
any more, and can hold the filler -1 as a key: `SearchTreeAlways` and `ImplementsStore` are
properties of runs without cuts. What `btree_words` shows is that such a file still leads nowhere
but to its nodes, not even round in a circle (`NoCycle`), and that every command on it ends.

The functions of `warn_unused` have the flows that matter to a walk in the order of the
blocks: one after the other, a condition whose branches meet, a loop, and a block placed
before the one that leads to it. In the last two a result read by a run can be reported, which
`UsedNotWarned` excludes by its condition `Forward`; `WarnsExactly` says what is reported
in all four. The same condition requires different result variables for different calls, as the compiler
makes them.

Deadlock is not checked where the system stops by itself: the pass when all functions are
compiled, the B-tree program when `MaxSessions` is used up, `WarnUnused` when the function has
returned.

Fairness: `WF_vars(Next)` in `InitMem`, since the pass waits for nothing and the compiler
runs it for each function. `WF_vars(Serve)` in `BTree`: a process that serves a command goes on
with it (`WServe` in `IndexWords`, its writes included); nothing obliges a user to give commands, end the session or start another. In `PSpec`
the same holds of `Serve` while nothing is printed, and of `Walk` while something is.

## Findings

1. `NoJunkRead`: an assignment after the first use, or in a branch, takes a variable out of
   the set, a variable declared in a try body is not found, and a switch jumps past the zeros.
2. `PersistentValuesKept`: static locals and local externs that no assignment sets as a
   whole in this function are reset at each entry.
3. `AddStores`: `insert_in_node` is empty.
4. `FindReturns`: each search leaves a file open, until one cannot be opened and the
   process exits.
5. `PrintsOnce`: a new file has no header until the first `end`. The next process keeps 0 as
   the offset of its root; `print` then reads the empty file, finds the header as each of its
   children and never ends.
6. `StackIsPath` with order 2: after a split the right half is empty, and an add that meets it
   works on the leaf of an earlier add.

## Proofs

`InitMemProofs` proves, for all well-formed programs, all declarations and all functions, from
`GimpleAssumption` and `ProgramsAssumption`, about the pass:

* `TypeCorrect`: `Spec => []TypeOK`. `TypeOK` is inductive as it stands. The steps that need
  an argument are those that index the stack of walks: lemmas give the types of its top
  frame, of the statement under its iterator and of the chain's variable.
* `StatementsKeptAlways`: `Spec => []StatementsKept`. Not inductive: `AssignSetBody` prepends
  what the frame has collected, so the strengthening says of every frame that its `inits` are
  zero assignments to declarations of its own sequence (`InitsOK`); and it puts back the body the frame has kept,
  which must still be the bind's (`CapturedNow`: the invariant `Captured` says that a frame keeps the program's statements of its
  sequence, `OnWalkKept` that a sequence being walked has them too, so that nothing done meanwhile is undone). `AssignVar` keeps that
  because it takes its variable from the chain of that sequence; `PrefixKept` is the lemma about
  sequences that carries the conclusion over the new body.
* `GatheredExactlyAlways`: `Spec => []GatheredExactly`. The invariant `PassHeld(E, done)` follows the walk: `E` is
  the set of sequences it has been in and `done` how many statements of each it is past
  (`Walked`). In the first walk the set is what `E` declares less what the statements done
  assign (`Gathered`). That a declaration assigned before its bind is met would spoil this: `WellFormed` says
  that it is named only within its bind, whose sequences have not been entered then. When the
  walk is over, `E` is closed under nested binds, hence all of `Binds` (`WalkOver`); this rests
  on `WithinTree`, that as many levels as there are sequences are all levels, which `NatRecursion`
  and counting give. That each sequence has one owner (`OneOwner`) keeps walks off sequences they
  have been in, and the trees of two functions apart (`TreesApart`), so that
  a function's statements are the program's own when the pass comes to it.
* `ZeroedImplemented`: `Spec => ImplementsZeroed`. The mapping is the identity. The invariant `ZerosExact` adds
  that a frame has collected the zeros of its chain so far, and that a sequence has all of its
  zeros or none. When `execute` returns, `PassHeld` gives a zero for each variable in each bind, so "none"
  is right only where there is none to add.

and from `RunAssumption` too, about the runs of what it compiled (`RunSpec`):

* `AutomaticValuesKeptAlways`: `RunSpec => []AutomaticValuesKept`. The invariant `HeadsUndefined`: every sequence
  that is executed is past its inserted assignments, but for the innermost one, and if
  that one is not, its variables are undefined in the original program still. Labels, hence all
  places a branch or a switch leads to, come after the inserted assignments (`ZerosFirst`).
* `ZeroedWhereReportedAlways`: `RunSpec => []ZeroedWhereReported`. The invariant `RunHeld`: the sequences that are
  executed are nested in one another (`FramesNested`), none is there twice (`FramesApart`), and in those entered
  at their head the inserted assignments passed so far still hold (`ZerosRun`). Entering a bind makes its
  variables undefined again: it is none of those being executed, since its only owner is in the
  innermost one, and different binds have different variables. That all reported variables
  have a zero is `CompiledZeroed` of the pass.

`BTreeProofs` proves about the B-tree program, from `OrderAssumption` and `BTreeAssumption` only, for
every order, every set of keys, every number of open files and sessions:

* `RootTestExact`: `populate_parents` compares offsets divided by `sizeof(btree_node)`, which is 24
  and not the size of a node in the file; two slots have the same number only if they are equal.
* `OffsetsAlways`: `Spec => [](TypeOK /\ OffsetsSound)` for orders of at least 3. `OffsetsSound` says
  that the file has no node without a key and no child offset that is no node; that the
  header and the root are slots or say that there is no tree (or, 0, that the header was never
  written); that the nodes a search is at below a root and those a split reads and writes are slots;
  and that the stack holds slots and ends in the mark of the root, until the mark is popped.
  The two halves are inductive only together: a read at an offset that is no node has no type,
  and an aux node of the wrong type gives halves about which nothing is known. Of the
  state between two steps of a command the invariant says which of these hold already
  (`StackSound`, `SplitSound` by `pc`). Lemmas on the operators come first (`PositionType`: the
  scan of the keys stops at a key of the node or after the last; `InsertedType`, `WithKeyType`,
  `WithSplitType`, `HalvesType`: each keeps the child offsets in whatever set they were in),
  then the ways a node is written, then one lemma per group of actions. A cut write keeps the invariant
  because it takes over the number of keys first and never half of a child offset.

  The order must be at least 3: with order 2 `HalvesType` fails, for the right half has no
  key, and the run `order2_stack` shows what comes of it. That the files found at the
  start have sound offsets is assumed (`SoundFile`); the invariant says that the program
  leaves only such files, killed or not. That `Keys` are above the sentinel is not needed.
* `TypesAlways`: its first half, `Spec => []TypeOK`, as a theorem of its own.

It also proves `NoCycleAlways`: `Spec => []NoCycle` for orders of at least 3, if the child offsets
of each file found at the start form no cycle. `NoCycle` does not say enough to be inductive: that the
parent of a divided node may point to the right half depends on how the halves, the parent and the
stack stand to each other. The invariant is that the nodes can be graded (`Graded`): some function gives
each slot a number, every child a smaller one than its parent, and the path stack climbs
(`Climbs`): each of its entries has a greater number than the one above it, up to the root. A right half
gets the number of the node it comes from (`SplitRightGraded`), which its parent has more than; a new
root gets one more than the old one (`NewRootGraded`). A node whose write was cut has child offsets of its
old and of its new self, all of smaller numbers (`KillInWriteGraded`). Nodes that a kill left unlinked keep
their numbers. At the start a grading is assumed instead of
`NoCycle`: for a finite file the two are the same, but that takes an induction.

And `StackIsPathAlways`: `Spec => []StackIsPath` for orders of at least 3, if `Cuts` is
empty and the files found at the start can be graded and have only nodes with all of their children or
none (`Whole`). The invariant adds `Wholes`, that every node stays so and the divided one too: then the search for a
leaf, which stops at a missing child, stops at a leaf, and the node that takes a right half has
all its children. `PushPath` and `RestPath` are the stack growing and shrinking, `PathKept` a write
besides the path; that the left half is written besides it follows from the grades
(`ClimbsAbove`). A write cut short can leave a node with one child too few, hence the condition on `Cuts`.

`BTreeSearchProofs` proves `SearchTreesAlways`: `Spec => []SearchTreeAlways` for orders of at least 3, if
`Cuts` is empty, and each file found at the start can be graded, has whole nodes only, and is a forest (`FileHeld`): its
header, if it names a node, is in it. With a cut write in it a file need not be a search tree. The process may
still be killed between any two writes.

* It starts in memory: `InsertionKeepsKeys` (no key is lost, order stays) and `DivisionKeepsAll` (the halves
  and the value between them have each key and each child, in order) by the positions in the arrays
  (`InsertedKeys`, `HalvesAt`); that keys further apart are in order too (`OrderedApart`) is a least
  counterexample.
* `SearchTree` speaks of the levels below an offset, which a step changes in many places at once. The
  proof uses a certificate instead, `Forest(T, h, iv, ns)`: a set `T` of slots, a height for each and a set of
  keys `iv` that it and all below it take theirs from. Whether a node fits (`Fits`) is then a question about it
  and its children: the keys are in order and in its set, the set of each child lies in it between the
  keys around, the children are one lower and no two are the same. `ForestSearchTree` leads back from a
  forest to `SearchTree` of each of its nodes, by least counterexamples over the levels.
* The invariant `Held` says that there is a forest the trees of the header and the root, the node a search is at,
  the path and the divided node are in (`HeaderHeld`, `RootHeld`, `SearchHeld`, `DescentHeld`,
  `SplitHeld`), and how they stand in it: the nodes a search has passed do not have the key, and the key of an add is in the set of
  each node on its way down (`Position` leads to the child it is between the keys for); the divided node
  fits where its left half stands in the file, and is the only one with its children; the value that moves up
  is above the set of the left half and below that of the right one, and with the right half fits into
  the parent beside the left half.
* Each step then names the forest it leads to. The way down of an add widens the sets on it by the key
  (`ParentsOpenHeld`, `DescendHeld`); `SplitLeftHeld` leaves the left half the part of its set below the
  value that moves up, `SplitRightHeld` adds a slot with the part above it, `LinkParentHeld` puts it under the parent and
  `NewRootHeld` adds a slot one higher, with all of `Int` for its set. After a kill the forest is the
  same: a right half no parent points to is a tree of its own in it.

`BTreeStoreProofs` proves, from the same assumptions, that the program implements `KeyStore`:
`StoreImplemented`, `Spec => ImplementsStore`. An answer of `find` is right, an `add` changes the set by its
key at most, the three writes of a split and the growth of the tree change nothing, the command `end` keeps the
set for the next process, and a process ended otherwise leaves no key that was not there.

* The refinement mapping is `Live` and `Stage` of `BTreeShape`: the keys below the root, with those of the
  divided node in memory and below it while a split is under way; below the header when there is no process.
* `Reach` collects level by level. `ReachHull` shows that this is the least set with the offset in it that
  contains its members' children (`Hull`); `HeightBound` that the number of levels suffices: no node is as high
  as there are nodes. `HullKids`, `Regraft` and `HullSame` say how such sets change when one node is written.
* A search that does not find its key is right because the nodes it passed, and the nodes of the forest whose
  sets do not have the key, contain the children of their members, hence all that is below the root (`NotBelow`).
* The invariant `StoreHeld` adds to `Held` that the header names a node that is reached from the root by first children
  (`HeaderOnSpine`): a root that was split is the first child of the next one. Hence what a killed process loses is what was
  added since, and nothing appears. `Parts`: the node in the file is a part of the divided one, and after both
  halves are written they are it, so `Live` does not change when the last write of a split makes the tree
  hold what was in memory.

`IndexWordsProofs` proves about the file of words, from `BlockAssumption` too, for every even order
from 4 on and every even number of words in a buffer:

* `FileAgreesAlways`: `WSpec => []FileAgrees`. The inductive invariant is `TypeOK /\ OffsetsSound /\ WordsSound`.
  `WordsSound` says where things are (`Laid`): the places of the nodes are even, behind the header, and a node apart at least
  (`Room`); the header is in its words (`HeaderAt`); each node's words are at its place, except that of a
  node being written over the first ones, as many as have left the buffer, are those of the new node already (`NodesAt`). And
  it says what is under way (`Underway`): the node written stays what it is from `Seek` to `WriteEnds`, its place
  is that of its slot or `Free`, behind all nodes, and the words handed over so far are its first
  ones (`Given`). `SeekSound`, `FwriteSound`, `WriteEndsSound`, `KillWritingSound`, `WriteHeaderSound`
  and `ElsewhereSound` are the steps. A kill in a write over a node needs that the words on disk
  are `Torn` (`CutStep`): buffers end at even words, so never inside a child offset. That `CurrNode` tells nodes apart
  behind a cut append follows from `Room`, since a node of order 4 and more is longer than the 24 bytes divided by.
* On the way `WordsAreIndex`: `WSpec => Init /\ [][Next]_vars`, so that the theorems about `BTree`'s
  steps hold of the file of words.
* `SearchAgreesAlways`: `WSpec => []SearchAgrees`. `ScanIsPosition`: the scan that reads key after key stops where
  `Position` says; the three flags lead to the child behind that position, in full nodes too.

`PrintTreeProofs` proves about the program with its print command:

* `PrintLeavesIndex`: each step of `PSpec` is a step of `BTree` or leaves `BTree`'s variables alone. The
  theorems about `BTree` carry over through it.
* `QueueSoundAlways`: `PSpec => []QueueSound` for orders of at least 3. The strengthening `QueueInv`
  adds that a print has a line to add to and that, from its second node on, a
  descriptor is free: `f_child_offset` is open before the first node, and `ftemp` is closed after each.
  So only the first node can fail to open it, when nothing but the root is in the queue. That the
  offsets of the queue stay readable rests on `OffsetsSound`.
* `PrintedByLevelAlways`: `PSpec => []PrintedByLevel` for orders of at least 3 and `Cuts = {}`, when each file
  found at the start can be graded, has whole nodes whose child offsets end behind the last child
  (`Ends`), and holds a forest (`FileHeld`). The program writes nothing else (`Ended`, `Wholes`, `StepHeld`).
  The forest makes what `print_tree` reads a `Family`: a list of children for each node, with
  heights, in which only leaves have none (`TreeFamily`). The strengthening `OrderInv` says how far a print is:
  before the root (`AtRoot`), within a row (`InRow`), or through (`AtEnd`). Within a row
  all nodes are of one height, the first of them are on the last line, the rest is in the
  queue in front of the children of the first, `children` is their number and
  `level_till_pos` is the position of the last of the rest (`Within`). So the counters tell where a row
  ends (`WithinInner`, `WithinLast`), and the children of a whole row are the next row. Whether a
  line follows is asked of the queue before the last node's own children are in it; that is enough because
  no row below the root has one node only, so that the queue is empty there exactly when the row is of leaves.
  `RootTurn`, `InnerTurn` and `LastTurn` are the three kinds of turns of the loop. `FlattenedIs` gives the recursive function of the reference definition its equations.

`WarnUnusedProofs` proves, from `WarnAssumption` only, for all functions:

* `WarnsExactlyAlways`: the invariant `Walk` says of every prefix of the first walk that the set is
  `UnusedUpTo` it, and of every prefix of the second that the warnings so far are those of the set.
* `UsedNotWarnedAlways`: the invariant adds (`Values`) that the result a variable holds was
  entered by a call before the statement the run is at; with blocks in the order of control and one call
  per variable, each read is then a use the walk saw after that call, so the variable is not in the set.

Every safety property of the runs that pass is a theorem. Only model-checked is liveness, which is
out of the provers' reach: `EveryFunctionCompiled`, `CommandsEnd` and `PrintEnds`. The properties of the
runs that expect a violation are false of the code and have no theorem.

## Not modelled

* Keys not above -10: the scans start from the sentinel -10 and would read no key. In a full node a
  search for one seeks to before the first child, which for most trees takes it nowhere.
* A file opened with another order than it was written with (`assn_4.c:72`): its nodes are then
  not at the slots, and the steps of `BTree` are about slots.
* A print from a header that was never written over a file whose first node has keys at the
  words taken for child offsets: the keys would be offsets (`HeaderReadable` excludes it).
* Writes cut inside a child offset: files of an odd order from 4096 bytes on.
* In `InitMemRun`, calls between functions, and jumps forward other than those of a switch.
* The type of the inserted constant (always `int`) and the kinds of left-hand sides.
* In `WarnUnused`, which GIMPLE the front end makes of an ignored result; a call that has no
  left-hand side any more is never reported.
* Registration of the plugins, `draw_cfg` and text output: no state depends on them. The
  routines of `data_structures.c` no command calls, `get_node_at_offset` among them, and its `main`.
* Failures of `fread` and `fwrite`, which the code does not look at.

## Plan

`IndexWords` with an order of its own for each session, for a file opened with another one than it was
written with.
