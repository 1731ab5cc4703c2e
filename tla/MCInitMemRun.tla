---------------------------- MODULE MCInitMemRun ----------------------------
(***************************************************************************)
(* One function f with a body bind fb, which may hold a nested sequence    *)
(* fi: a bind, a try, the bind of a switch with a label in it, or a bind   *)
(* that is the body of a loop; fi may hold a loop or a return of its own.  *)
(* x, y and z are automatic, s is a static local, e a local extern of g.   *)
(***************************************************************************)
EXTENDS InitMemRun

MCDecls      == {"x", "y", "z", "s", "e", "g"}
MCPersistent == {"s", "e", "g"}
MCStorage    == [d \in MCDecls |-> IF d = "e" THEN "g" ELSE d]
MCSeqs       == {"f", "fb", "fi"}
MCFunctions  == {"f"}
MCNoDecl     == "no_decl"
MCNoSeq      == "no_seq"
MCNone       == {}

UpTo(S, n) == UNION {[1..m -> S] : m \in 0..n}

\* The ways a nested sequence is reached, then statements that define and use variables.
Heads    == {<<>>, <<Bind("fi")>>, <<Try("fi")>>, <<Switch("fi", {"x"}), Bind("fi")>>,
             <<Label, Bind("fi"), Cond({"x"})>>}
Plain    == {Assign("x", {}), Assign(NoDecl, {"x"}), Call("x", {"g"}), Assign("g", {"g"}),
             Assign("z", {"x"}), Assign("s", {"s"})}
Inner    == {<<>>, <<Label, Assign(NoDecl, {"y"})>>, <<Assign("y", {"y"}), Label>>,
             <<Assign(NoDecl, {"y"}), Assign("x", {})>>, <<Label, Call("y", {"y"}), Cond({"x"})>>,
             <<Assign(NoDecl, {"y"}), Cond({"x"}), ReturnOf({})>>}

Fill(head, first, last, fi, fbVars, fiVars) ==
  [body |-> [t \in Seqs |-> CASE t = "f"  -> <<Bind("fb")>>
                              [] t = "fb" -> first \o head \o last
                              [] t = "fi" -> fi],
   vars |-> [t \in Seqs |-> CASE t = "f"  -> <<>>
                              [] t = "fb" -> fbVars
                              [] t = "fi" -> fiVars]]

MCPrograms ==
  {p \in {Fill(head, first, last, fi, fbVars, fiVars) :
            head \in Heads, first \in UpTo(Plain, 1), last \in UpTo(Plain, 1), fi \in Inner,
            fbVars \in {<<"x", "s", "z", "e">>, <<"x", "s", "z", "e", "y">>}, fiVars \in {<<>>, <<"y">>}} :
     WellFormed(p) /\ (p.body["fi"] # <<>> => Len(p.vars["fb"] \o p.vars["fi"]) > 4)}
=============================================================================
