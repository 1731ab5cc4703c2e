------------------------------- MODULE Gimple -------------------------------
(***************************************************************************)
(* The part of GCC's GIMPLE representation that the plugins look at, as    *)
(* their code uses it (GCC itself is not part of the repository).          *)
(*                                                                         *)
(* A gimple_seq is known by an identifier in Seqs, so that a statement can *)
(* name the sequence nested in it and two statements never share one by    *)
(* accident.  A program gives every sequence its statements and, where the *)
(* sequence is the body of a GIMPLE_BIND, the chain of its declarations.   *)
(***************************************************************************)
EXTENDS Integers, Sequences, FiniteSets

CONSTANTS
  Decls,       \* declarations (trees) that occur in the program
  VarDecls,    \* those whose TREE_CODE is VAR_DECL
  Artificial,  \* those made by the compiler: DECL_ARTIFICIAL
  Seqs,        \* identifiers of the gimple sequences
  Functions,   \* the sequences that are bodies of functions
  NoDecl,      \* an operand that is no declaration (a component, a memory reference, none)
  NoSeq        \* a statement without a nested sequence

ASSUME GimpleAssumption ==
  /\ VarDecls \subseteq Decls
  /\ Artificial \subseteq Decls
  /\ Functions \subseteq Seqs
  /\ NoDecl \notin Decls
  /\ IsFiniteSet(Seqs) /\ NoSeq \notin Seqs

Codes == {"GIMPLE_BIND", "GIMPLE_TRY", "GIMPLE_ASSIGN", "GIMPLE_CALL",
          "GIMPLE_SWITCH", "GIMPLE_LABEL", "GIMPLE_COND", "GIMPLE_RETURN"}

Nesting == {"GIMPLE_BIND", "GIMPLE_TRY", "GIMPLE_SWITCH"}

Statement ==
  {st \in [code : Codes,
           lhs  : Decls \cup {NoDecl},
           zero : BOOLEAN,            \* built by a plugin: the right-hand side is build_zero_cst
           uses : SUBSET Decls,       \* declarations whose value is read
           seq  : Seqs \cup {NoSeq}] : st.code \in Nesting => st.seq \in Seqs}

Bind(s)         == [code |-> "GIMPLE_BIND", lhs |-> NoDecl, zero |-> FALSE, uses |-> {}, seq |-> s]
Try(s)          == [code |-> "GIMPLE_TRY", lhs |-> NoDecl, zero |-> FALSE, uses |-> {}, seq |-> s]
Assign(v, us)   == [code |-> "GIMPLE_ASSIGN", lhs |-> v, zero |-> FALSE, uses |-> us, seq |-> NoSeq]
AssignZero(v)   == [code |-> "GIMPLE_ASSIGN", lhs |-> v, zero |-> TRUE, uses |-> {}, seq |-> NoSeq]
Call(v, us)     == [code |-> "GIMPLE_CALL", lhs |-> v, zero |-> FALSE, uses |-> us, seq |-> NoSeq]
\* The labels of a switch are inside the bind that follows it: seq is that bind's body.
Switch(s, us)   == [code |-> "GIMPLE_SWITCH", lhs |-> NoDecl, zero |-> FALSE, uses |-> us, seq |-> s]
\* A condition may lead back to a label before it: a loop.
Cond(us)        == [code |-> "GIMPLE_COND", lhs |-> NoDecl, zero |-> FALSE, uses |-> us, seq |-> NoSeq]
ReturnOf(us)    == [code |-> "GIMPLE_RETURN", lhs |-> NoDecl, zero |-> FALSE, uses |-> us, seq |-> NoSeq]
Label           == [code |-> "GIMPLE_LABEL", lhs |-> NoDecl, zero |-> FALSE, uses |-> {}, seq |-> NoSeq]

\* body: the statements of every sequence; vars: gimple_bind_vars of the bind that owns it.
Program == [body : [Seqs -> Seq(Statement)], vars : [Seqs -> Seq(Decls)]]

ElementsOf(s) == {s[i] : i \in DOMAIN s}

\* The sequences reached from s through statements with a code in cs, in at most n levels.
Nested(p, cs, t) == {st.seq : st \in {x \in ElementsOf(p.body[t]) : x.code \in cs}}
Within(p, cs, s) ==
  LET w[n \in Nat] ==
        IF n = 0 THEN {s} ELSE {s} \cup UNION {Nested(p, cs, t) : t \in w[n - 1]}
  IN  w

\* What the front end guarantees: a sequence belongs to one statement, functions are
\* not nested, a declaration is in one chain and once, and only a bind has a chain.
Owners(p, s) ==
  UNION {{<<t, i>> : i \in {j \in DOMAIN p.body[t] : p.body[t][j].seq = s
                                /\ p.body[t][j].code \in {"GIMPLE_BIND", "GIMPLE_TRY"}}} : t \in Seqs}

WellFormed(p) ==
  /\ \A s \in Seqs : \A st \in ElementsOf(p.body[s]) : ~st.zero
  /\ \A s \in Functions : Owners(p, s) = {} /\ p.vars[s] = <<>>
  /\ \A s \in Seqs : \A x, y \in Owners(p, s) : x = y
  /\ \A s \in Seqs : p.vars[s] # <<>> =>
        \E x \in Owners(p, s) : p.body[x[1]][x[2]].code = "GIMPLE_BIND"
  /\ \A s, t \in Seqs : \A i \in DOMAIN p.vars[s], j \in DOMAIN p.vars[t] :
        p.vars[s][i] = p.vars[t][j] => s = t /\ i = j
  \* the bind a switch jumps into is the next statement
  /\ \A s \in Seqs : \A i \in DOMAIN p.body[s] : p.body[s][i].code = "GIMPLE_SWITCH" =>
        i + 1 \in DOMAIN p.body[s] /\ p.body[s][i + 1] = Bind(p.body[s][i].seq)
  \* a local declaration is named only inside its bind
  /\ \A b, t \in Seqs : \A st \in ElementsOf(p.body[t]) :
        ElementsOf(p.vars[b]) \cap ({st.lhs} \cup st.uses) # {} =>
          t \in Within(p, {"GIMPLE_BIND", "GIMPLE_TRY"}, b)[Cardinality(Seqs)]
=============================================================================
