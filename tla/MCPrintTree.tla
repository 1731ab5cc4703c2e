---------------------------- MODULE MCPrintTree -----------------------------
(***************************************************************************)
(* Values for the constants of PrintTree.                                  *)
(***************************************************************************)
EXTENDS PrintTree, SampleFiles

MCKeys        == -9..60
MCKeys4       == {1, 5, 9, 16}
MCIndexFiles4 == {Order4, Order4Deep, Empty}
MCKeysNone    == {1}
MCNone        == {}
=============================================================================
