---------------------------- MODULE MCIndexWords ----------------------------
(***************************************************************************)
(* Values for the constants of IndexWords.                                 *)
(***************************************************************************)
EXTENDS IndexWords, BTreeShape, SampleFiles

MCKeys       == -9..60
MCKeysWords  == {3, 5, 7, 55}
MCIndexFiles == {Order4, Order4Room}

\* Between two words of every pair: all places a buffer can end at.
MCCuts       == {2, 4, 6, 8, 10}
=============================================================================
