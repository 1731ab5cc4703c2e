----------------------------- MODULE MCInitMem ------------------------------
(***************************************************************************)
(* Two functions: f, whose body bind fb may hold a nested sequence fi as a *)
(* bind or as a try, and g with a bind gb.  The programs are all           *)
(* well-formed ways to fill these sequences from a few statements.         *)
(***************************************************************************)
EXTENDS InitMem

MCDecls      == {"x", "y", "z", "tmp", "type"}
MCVarDecls   == {"x", "y", "z", "tmp"}
MCArtificial == {"tmp"}
MCSeqs       == {"f", "g", "fb", "fi", "gb"}
MCFunctions  == {"f", "g"}
MCNoDecl     == "no_decl"
MCNoSeq      == "no_seq"

UpTo(S, n) == UNION {[1..m -> S] : m \in 0..n}

OuterStmts == {Bind("fi"), Try("fi"), Assign("x", {}), Call("x", {"x"}), Assign(NoDecl, {"x"})}
InnerStmts == {Assign("x", {}), Assign("y", {}), Assign("tmp", {})}

Fill(fb, fi, gb, fbVars, fiVars) ==
  [body |-> [s \in Seqs |-> CASE s = "f"  -> <<Bind("fb")>>
                              [] s = "g"  -> <<Bind("gb")>>
                              [] s = "fb" -> fb
                              [] s = "fi" -> fi
                              [] s = "gb" -> gb],
   vars |-> [s \in Seqs |-> CASE s = "fb" -> fbVars
                              [] s = "fi" -> fiVars
                              [] s = "gb" -> <<"z">>
                              [] OTHER    -> <<>>]]

MCPrograms ==
  {p \in {Fill(fb, fi, gb, fbVars, fiVars) :
            fb \in UpTo(OuterStmts, 2), fi \in UpTo(InnerStmts, 1),
            gb \in {<<>>, <<Assign("z", {})>>},
            fbVars \in {<<"x">>, <<"tmp", "x">>}, fiVars \in {<<>>, <<"y">>, <<"type", "y">>}} :
     WellFormed(p)}
=============================================================================
