------------------------------ MODULE KeyStore ------------------------------
(***************************************************************************)
(* What the B-tree program keeps for its user, without tree, file or       *)
(* stack: a set of keys that outlives the process.  A find answers whether *)
(* the key is in the set.  An add of a key that is not may put it there or *)
(* may leave the set alone (the program drops a key whose leaf has room);  *)
(* it never takes a key away.  A process that ends in order keeps the set; *)
(* one that ends otherwise may lose keys, and never gains any.             *)
(***************************************************************************)
EXTENDS Integers

CONSTANT CommandKeys

VARIABLES
  live,    \* the keys a find would see
  stage,   \* "ended", "down", "ready", or what the command being served has come to
  op, key, found

vars == <<live, stage, op, key, found>>

Init ==
  /\ live \subseteq Int
  /\ stage = "ended" /\ op = "none" /\ key = 0 /\ found = FALSE

NoCommand == op' = "none" /\ key' = 0 /\ found' = FALSE

Start ==
  /\ stage \in {"ended", "down"} /\ stage' = "ready"
  /\ UNCHANGED <<live, op, key, found>>

Request(o, k) ==
  /\ stage = "ready" /\ stage' = "lookup"
  /\ op' = o /\ key' = k
  /\ UNCHANGED <<live, found>>

Lookup ==
  /\ stage = "lookup" /\ stage' = "answer"
  /\ found' = (key \in live)
  /\ UNCHANGED <<live, op, key>>

Reply ==
  /\ stage = "answer" /\ (op = "find" \/ found)
  /\ stage' = "ready" /\ NoCommand
  /\ UNCHANGED live

\* The key is stored at once, or its storing still takes writes that change nothing more.
Insert ==
  /\ stage = "answer" /\ op = "add" /\ ~found
  /\ live' = live \cup {key}
  /\ \/ stage' = "ready" /\ NoCommand
     \/ stage' = "adding" /\ UNCHANGED <<op, key, found>>

Drop ==
  /\ stage = "answer" /\ op = "add" /\ ~found
  /\ stage' = "ready" /\ NoCommand
  /\ UNCHANGED live

Added ==
  /\ stage = "adding" /\ stage' = "ready" /\ NoCommand
  /\ UNCHANGED live

End ==
  /\ stage = "ready" /\ stage' = "ended" /\ NoCommand
  /\ UNCHANGED live

Abort ==
  /\ stage \notin {"ended", "down"} /\ stage' = "down" /\ NoCommand
  /\ live' \subseteq live

Next ==
  \/ Start \/ \E o \in {"add", "find"}, k \in CommandKeys : Request(o, k)
  \/ Lookup \/ Reply \/ Insert \/ Drop \/ Added \/ End \/ Abort

Spec == Init /\ [][Next]_vars
=============================================================================
