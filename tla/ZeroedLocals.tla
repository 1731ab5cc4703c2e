---------------------------- MODULE ZeroedLocals ----------------------------
(***************************************************************************)
(* What the initmem pass promises, without the two walks: every bind of a  *)
(* compiled function that the walks can reach starts with one zero         *)
(* assignment for each of its declarations that no walked assignment of    *)
(* the function names, in the order of the chain, and then its statements  *)
(* as they were.  Each function is compiled once.                          *)
(***************************************************************************)
EXTENDS Gimple

VARIABLES prog, body, compiled

vars == <<prog, body, compiled>>

\* A walk descends through binds only.
Binds(p, f) == Within(p, {"GIMPLE_BIND"}, f)[Cardinality(Seqs)]

Declared(p, f) == UNION {ElementsOf(p.vars[b]) : b \in Binds(p, f)}
Assigned(p, f) == {st.lhs : st \in {x \in UNION {ElementsOf(p.body[b]) : b \in Binds(p, f)} :
                                       x.code = "GIMPLE_ASSIGN"}}
NeverAssigned(p, f) ==
  ((Declared(p, f) \cap VarDecls) \ Artificial) \ Assigned(p, f)

\* The zeros for the first n declarations of b's chain, for every n; for all of them.
ZerosUpTo(p, f, b) ==
  LET unset == NeverAssigned(p, f)
      z[n \in Nat] ==
        IF n = 0 THEN <<>>
        ELSE IF p.vars[b][n] \in unset THEN Append(z[n - 1], AssignZero(p.vars[b][n]))
        ELSE z[n - 1]
  IN  z
Zeros(p, f, b) == ZerosUpTo(p, f, b)[Len(p.vars[b])]

Init ==
  /\ prog \in Program
  /\ body = prog.body
  /\ compiled = {}

Zero(f, b) ==
  /\ f \notin compiled
  /\ body[b] = prog.body[b]
  /\ body' = [body EXCEPT ![b] = Zeros(prog, f, b) \o @]
  /\ UNCHANGED <<prog, compiled>>

Finish(f) ==
  /\ f \notin compiled
  /\ \A b \in Binds(prog, f) : body[b] = Zeros(prog, f, b) \o prog.body[b]
  /\ compiled' = compiled \cup {f}
  /\ UNCHANGED <<prog, body>>

Next == \E f \in Functions : Finish(f) \/ \E b \in Binds(prog, f) : Zero(f, b)

Spec == Init /\ [][Next]_vars
=============================================================================
