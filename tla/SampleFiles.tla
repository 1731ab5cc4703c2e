---------------------------- MODULE SampleFiles -----------------------------
(***************************************************************************)
(* Index files as the program writes them, for each order.  They come from *)
(* runs in which insert_in_node still had the body that is commented out   *)
(* in data_structures.c:643-681, as index.bin of test_samples does.        *)
(***************************************************************************)
EXTENDS BTreeNode

Leaf(ks)         == [n |-> Len(ks),
                     keys |-> [i \in 1..(Order - 1) |-> IF i <= Len(ks) THEN ks[i] ELSE Filler],
                     kids |-> [i \in 1..Order |-> Filler]]
Inner(ks, cs)    == [Leaf(ks) EXCEPT !.kids = [i \in 1..Order |-> IF i <= Len(cs) THEN cs[i] ELSE Filler]]

\* Order 3, after add of 30 22 2 28 14 12 8 18 16 24 10 4 26 20 6: three levels; the path
\* from the root to the leaf 18,20 is full.
Order3 ==
  [header |-> 7,
   nodes |-> <<Leaf(<<2>>), Leaf(<<24, 26>>), Inner(<<4>>, <<1, 10>>), Leaf(<<14>>),
               Leaf(<<18, 20>>), Inner(<<22, 28>>, <<5, 2, 8>>), Inner(<<8, 16>>, <<3, 11, 6>>),
               Leaf(<<30>>), Leaf(<<10>>), Leaf(<<6>>), Inner(<<12>>, <<9, 4>>)>>]

\* Order 4, after add of 12 18 16 4 14 6 8 10 2: a full root over a full leaf.
Order4 ==
  [header |-> 3,
   nodes |-> <<Leaf(<<2, 4, 6>>), Leaf(<<18>>), Inner(<<8, 12, 16>>, <<1, 5, 4, 2>>),
               Leaf(<<14>>), Leaf(<<10>>)>>]

\* Order 4, after add of 10 20 30 40 5 50 60: a root with room over two full leaves.
Order4Room ==
  [header |-> 3,
   nodes |-> <<Leaf(<<5, 10, 20>>), Leaf(<<40, 50, 60>>), Inner(<<30>>, <<1, 2>>)>>]

\* Order 4, after add of 44 42 40 and so on down to 2: four levels.
Order4Deep ==
  [header |-> 19,
   nodes |-> <<Leaf(<<2, 4>>), Leaf(<<44>>), Inner(<<6, 10>>, <<1, 16, 15>>), Leaf(<<40>>),
               Leaf(<<36>>), Leaf(<<32>>), Inner(<<42>>, <<4, 2>>),
               Inner(<<14, 22>>, <<3, 17, 14>>), Leaf(<<28>>), Leaf(<<24>>),
               Inner(<<34>>, <<6, 5>>), Leaf(<<20>>), Leaf(<<16>>),
               Inner(<<26>>, <<10, 9>>), Leaf(<<12>>), Leaf(<<8>>),
               Inner(<<18>>, <<13, 12>>), Inner(<<38>>, <<11, 7>>),
               Inner(<<30>>, <<8, 18>>)>>]

\* A file whose only session ended by the command end without an add.
Empty == [header |-> NoOffset, nodes |-> <<>>]
=============================================================================
