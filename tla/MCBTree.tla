------------------------------ MODULE MCBTree -------------------------------
(***************************************************************************)
(* Values for the constants of BTree.                                      *)
(***************************************************************************)
EXTENDS BTreeShape, SampleFiles

MCKeys         == -9..60
MCKeys3        == {19, 25, 10, 31}
MCIndexFiles3  == {Order3}
MCKeys2        == {1, 2, 3}
MCNone         == {}
=============================================================================
