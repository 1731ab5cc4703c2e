----------------------------- MODULE WarnUnused -----------------------------
(***************************************************************************)
(* The pass of _plugins/warn_unused on one function, followed by a run of  *)
(* the function as GCC compiles it.  The pass keeps nothing between        *)
(* functions: its sets are locals of execute.                              *)
(*                                                                         *)
(* A function is its statements in the order in which FOR_ALL_BB_FN and    *)
(* the statement iterators give them, and the statements control may go to *)
(* from each: the next one in its block, or the first of the blocks after  *)
(* it, which may stand anywhere in that order.                             *)
(***************************************************************************)
EXTENDS Integers, Sequences

CONSTANTS
  Decls,       \* variables of a function
  Artificial,  \* those the compiler made (DECL_ARTIFICIAL), which hold results of calls
  Functions    \* the functions the pass may be given

\* "var" is a VAR_DECL, "field" a COMPONENT_REF of one, however deep; "other" stands for the
\* addresses, memory and array references that hold the variable, "none" for no operand at all.
Operand   == [form : {"var", "field", "other", "none"}, var : Decls]
Statement == [code : {"call", "assign", "return", "other"}, lhs : Operand, ops : SUBSET Operand,
              warn_unused_result : BOOLEAN]

IsFunction(f) ==
  /\ f.body \in Seq(Statement)
  /\ f.next \in [DOMAIN f.body -> SUBSET DOMAIN f.body]

ASSUME WarnAssumption == Artificial \subseteq Decls /\ \A f \in Functions : IsFunction(f)

VARIABLES
  fun,                   \* the function
  phase,                 \* "gather", "warn", then "run" and "returned"
  at,                    \* the statement the iterator or the run is at
  potential_unused_lhs,
  unused_lhs,
  warned,                \* the statements warned about
  held,                  \* of each variable: the call whose result it has, 0 for none
  used                   \* the calls whose result was read where the pass looks for uses

pass == <<potential_unused_lhs, unused_lhs, warned>>
run  == <<held, used>>
vars == <<fun, phase, at, pass, run>>

Here == fun.body[at]
-----------------------------------------------------------------------------
(* gather_unused_lhs *)

Seen(o)     == IF o.form \in {"var", "field"} THEN {o.var} ELSE {}
AllSeen(os) == UNION {Seen(o) : o \in os}

insert_potentially_unused_lhs(set, o) ==
  IF o.form = "var" /\ o.var \in Artificial THEN set \cup {o.var} ELSE set

erase_if_used_lhs(set, os) == set \ AllSeen(os)

Step == at' = at + 1 /\ UNCHANGED <<fun, phase>>

\* Bug: the arguments are looked at before the result is entered.
GatherCallLast ==
  /\ phase = "gather" /\ at <= Len(fun.body) /\ Here.code = "call"
  /\ potential_unused_lhs' =
       insert_potentially_unused_lhs(erase_if_used_lhs(potential_unused_lhs, Here.ops), Here.lhs)
  /\ Step /\ UNCHANGED <<unused_lhs, warned, run>>

GatherCall ==
  /\ phase = "gather" /\ at <= Len(fun.body) /\ Here.code = "call"
  /\ potential_unused_lhs' =
       erase_if_used_lhs(insert_potentially_unused_lhs(potential_unused_lhs, Here.lhs), Here.ops)
  /\ Step /\ UNCHANGED <<unused_lhs, warned, run>>

\* Bug: only the variable assigned to counts as used.
GatherAssignLhs ==
  /\ phase = "gather" /\ at <= Len(fun.body) /\ Here.code = "assign"
  /\ potential_unused_lhs' = erase_if_used_lhs(potential_unused_lhs, {Here.lhs})
  /\ Step /\ UNCHANGED <<unused_lhs, warned, run>>

\* An assignment to the variable counts as a use too.
GatherAssign ==
  /\ phase = "gather" /\ at <= Len(fun.body) /\ Here.code = "assign"
  /\ potential_unused_lhs' = erase_if_used_lhs(potential_unused_lhs, {Here.lhs} \cup Here.ops)
  /\ Step /\ UNCHANGED <<unused_lhs, warned, run>>

GatherReturn ==
  /\ phase = "gather" /\ at <= Len(fun.body) /\ Here.code = "return"
  /\ potential_unused_lhs' = erase_if_used_lhs(potential_unused_lhs, Here.ops)
  /\ Step /\ UNCHANGED <<unused_lhs, warned, run>>

\* Conditions, switches and the like are not looked at.
GatherOther ==
  /\ phase = "gather" /\ at <= Len(fun.body) /\ Here.code = "other"
  /\ Step /\ UNCHANGED <<pass, run>>

Gathered ==
  /\ phase = "gather" /\ at = Len(fun.body) + 1
  /\ unused_lhs' = potential_unused_lhs
  /\ phase' = "warn" /\ at' = 1
  /\ UNCHANGED <<fun, potential_unused_lhs, warned, run>>
-----------------------------------------------------------------------------
(* warn_unused_result_lhs *)

WarnCall ==
  /\ phase = "warn" /\ at <= Len(fun.body)
  /\ Here.code = "call" /\ Here.lhs.form = "var" /\ Here.lhs.var \in unused_lhs
  /\ warned' = IF Here.warn_unused_result THEN warned \cup {at} ELSE warned
  /\ Step /\ UNCHANGED <<potential_unused_lhs, unused_lhs, run>>

\* No call, or one with another result or none (lhs is NULL): the set does not hold it.
WarnOther ==
  /\ phase = "warn" /\ at <= Len(fun.body)
  /\ ~(Here.code = "call" /\ Here.lhs.form = "var" /\ Here.lhs.var \in unused_lhs)
  /\ Step /\ UNCHANGED <<pass, run>>

Warned ==
  /\ phase = "warn" /\ at = Len(fun.body) + 1
  /\ phase' = (IF fun.body = <<>> THEN "returned" ELSE "run") /\ at' = 1
  /\ UNCHANGED <<fun, pass, run>>
-----------------------------------------------------------------------------
(* The function runs *)

\* Results read where the pass looks for uses; a condition reads without being looked at.
Reads(s) == IF s.code = "other" THEN {} ELSE AllSeen(s.ops)

Held(s) == IF s.lhs.form # "var" THEN held
           ELSE [held EXCEPT ![s.lhs.var] = IF s.code = "call" THEN at ELSE 0]

Execute ==
  /\ phase = "run"
  /\ used' = used \cup ({held[d] : d \in Reads(Here)} \ {0})
  /\ held' = Held(Here)
  /\ \/ at' \in fun.next[at] /\ phase' = phase
     \/ fun.next[at] = {} /\ at' = at /\ phase' = "returned"
  /\ UNCHANGED <<fun, pass>>
-----------------------------------------------------------------------------
Init ==
  /\ fun \in Functions
  /\ phase = "gather" /\ at = 1
  /\ potential_unused_lhs = {} /\ unused_lhs = {} /\ warned = {}
  /\ held = [d \in Decls |-> 0] /\ used = {}

Next ==
  \/ GatherCall \/ GatherAssign \/ GatherReturn \/ GatherOther \/ Gathered
  \/ WarnCall \/ WarnOther \/ Warned
  \/ Execute

Spec == Init /\ [][Next]_vars
-----------------------------------------------------------------------------
(* Properties *)

Stmts == DOMAIN fun.body

\* The calls that enter variable d, and the statements in which the pass sees a use of it.
Enters(d) == {i \in Stmts : fun.body[i].code = "call" /\ fun.body[i].lhs.form = "var"
                            /\ fun.body[i].lhs.var = d /\ d \in Artificial}
UsesOf(d) == {i \in Stmts : LET s == fun.body[i] IN
                \/ s.code \in {"call", "assign", "return"} /\ d \in AllSeen(s.ops)
                \/ s.code = "assign" /\ d \in Seen(s.lhs)}

\* Entered by a call among the first n statements and not used in them from that call on.
UnusedUpTo(n) == {d \in Decls : \E i \in Enters(d) : i <= n /\ \A j \in UsesOf(d) : j < i \/ j > n}

\* The warnings are for all calls declared warn_unused_result and no other, of which some call with
\* the same result variable is followed by no use of it in the order of FOR_ALL_BB_FN.
WarnsExactly ==
  phase \in {"run", "returned"} =>
    warned = {i \in Stmts : /\ fun.body[i].code = "call" /\ fun.body[i].lhs.form = "var"
                            /\ fun.body[i].lhs.var \in UnusedUpTo(Len(fun.body))
                            /\ fun.body[i].warn_unused_result}

\* What the order of the walk relies on: no block comes before one that leads to it, and no two
\* calls have the same result variable.
Forward   == \A i \in Stmts : \A j \in fun.next[i] : i < j
OneResult == \A d \in Artificial : \A i, j \in Enters(d) : i = j

\* In a function without loops whose blocks stand in the order of control, a result that a run
\* reads where the pass looks for uses was not reported as ignored (warn_unused.cc:112).
UsedNotWarned == Forward /\ OneResult => warned \cap used = {}
=============================================================================
