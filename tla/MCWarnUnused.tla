---------------------------- MODULE MCWarnUnused ----------------------------
(***************************************************************************)
(* All functions of five statements out of a few, in four control flows:   *)
(* one after the other; a condition with two branches that meet; a loop;   *)
(* a block that stands before the one that leads to it.  A return and      *)
(* nothing else ends a function, a condition and nothing else divides it.  *)
(***************************************************************************)
EXTENDS WarnUnused

MCDecls      == {"t", "u", "v"}
MCArtificial == {"t", "u"}

Op(form, var)     == [form |-> form, var |-> var]
None              == Op("none", "v")
Call(lhs, ops, w) == [code |-> "call", lhs |-> lhs, ops |-> ops, warn_unused_result |-> w]
Assign(lhs, ops)  == [code |-> "assign", lhs |-> lhs, ops |-> ops, warn_unused_result |-> FALSE]
Other(code, ops)  == [code |-> code, lhs |-> None, ops |-> ops, warn_unused_result |-> FALSE]

MCStatements ==
  {Call(Op("var", "t"), {}, TRUE), Call(Op("var", "u"), {Op("var", "t")}, TRUE),
   Call(Op("var", "t"), {Op("field", "t")}, TRUE), Call(None, {Op("other", "t")}, TRUE),
   Assign(Op("var", "v"), {Op("field", "u")}), Assign(Op("field", "t"), {Op("var", "v")}),
   Other("return", {Op("var", "u")}), Other("return", {}), Other("other", {Op("var", "t")})}

MCFlows == {<<{2}, {3}, {4}, {5}, {}>>, <<{2}, {3, 4}, {5}, {5}, {}>>,
            <<{2}, {3}, {1, 4}, {5}, {}>>, <<{3}, {4}, {2}, {5}, {}>>}

Fits(s, next) == IF next = {} THEN s.code = "return"
                 ELSE IF \E i, j \in next : i # j THEN s.code = "other"
                 ELSE s.code # "return"

MCBodies(flow) == {b \in [1..5 -> MCStatements] : \A i \in 1..5 : Fits(b[i], flow[i])}

MCFunctions == UNION {[body : MCBodies(flow), next : {flow}] : flow \in MCFlows}
=============================================================================
