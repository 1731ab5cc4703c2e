------------------------------ MODULE InitMem -------------------------------
(***************************************************************************)
(* The initmem pass (initmem/initmem.cc).  GCC calls execute once for      *)
(* every function.  The pass walks the function's GIMPLE twice: the first  *)
(* walk gathers in uninitialised_vars the declarations that no assignment  *)
(* of the walked statements names, the second one puts, bind by bind and   *)
(* innermost first, an assignment of zero for each of them at the head of  *)
(* the bind that declares it.                                              *)
(*                                                                         *)
(* The recursion of the two walks is the explicit stack walk: one frame    *)
(* for each walk_gimple_seq that is running.  uninitialised_vars belongs   *)
(* to the pass object, which is one for all functions: clone returns this. *)
(***************************************************************************)
EXTENDS Gimple

CONSTANT Programs          \* the translation units the pass may be run on

ASSUME ProgramsAssumption == Programs \subseteq {p \in Program : WellFormed(p)}

VARIABLES
  prog,                \* the program as the front end delivered it
  body,                \* the statements of each sequence now
  uninitialised_vars,  \* the set member of the pass
  walk,                \* the running walks, outermost first
  phase,               \* "idle", or which walk of gather_uninitialised_vars runs
  fun,                 \* the function execute was called for
  compiled             \* the functions execute has returned from

vars == <<prog, body, uninitialised_vars, walk, phase, fun, compiled>>

\* seq: the sequence walked; pos: gsi; bind_body: its statements when the walk of it
\* starts, which the second walk keeps until it is over; chain: position in the
\* DECL_CHAIN loop of the second walk; inits: its local initialised_vars.
Frame == [seq : Seqs, pos : Nat \ {0}, chain : Nat \ {0},
          bind_body : Seq(Statement), inits : Seq(Statement)]
\* Bug: the loop over the chain misses its first declaration.
LateFrame(s) == [seq |-> s, pos |-> 1, chain |-> 2, bind_body |-> body[s], inits |-> <<>>]
NewFrame(s) == [seq |-> s, pos |-> 1, chain |-> 1, bind_body |-> body[s], inits |-> <<>>]

Top        == walk[Len(walk)]
Bottom     == Len(walk) = 1          \* the walk of the function's own sequence
Pop(w)     == SubSeq(w, 1, Len(w) - 1)
HasStmt    == walk # <<>> /\ Top.pos <= Len(body[Top.seq])
Stmt       == body[Top.seq][Top.pos]
Advanced   == [walk EXCEPT ![Len(walk)].pos = @ + 1]   \* gsi_next after the callback

Named(ds)  == {d \in ds : d \in VarDecls /\ d \notin Artificial}

TypeOK ==
  /\ prog \in Program
  /\ body \in [Seqs -> Seq(Statement)]
  /\ uninitialised_vars \subseteq Named(Decls)
  /\ walk \in Seq(Frame)
  /\ phase \in {"idle", "gather", "assign"}
  /\ fun \in Functions \cup {NoSeq}
  /\ phase # "idle" => fun \in Functions
  /\ compiled \subseteq Functions

Init ==
  /\ prog \in Programs
  /\ body = prog.body
  /\ uninitialised_vars = {}
  /\ walk = <<>>
  /\ phase = "idle"
  /\ fun = NoSeq
  /\ compiled = {}

\* Bug: without uninitialised_vars.clear() the next function starts with this one's rest.
ExecuteKeepingSet(f) ==
  /\ phase = "idle" /\ f \notin compiled
  /\ fun' = f /\ phase' = "gather" /\ walk' = <<NewFrame(f)>>
  /\ UNCHANGED <<prog, body, uninitialised_vars, compiled>>

\* execute, and gather_uninitialised_vars up to its first walk.
Execute(f) ==
  /\ phase = "idle" /\ f \notin compiled
  /\ uninitialised_vars' = {}
  /\ fun' = f
  /\ phase' = "gather"
  /\ walk' = <<NewFrame(f)>>
  /\ UNCHANGED <<prog, body, compiled>>

\* Bug: the filter on VAR_DECL and DECL_ARTIFICIAL is forgotten.
insert_all_vars(set, chain)       == set \cup ElementsOf(chain)
insert_vars(set, chain)           == set \cup Named(ElementsOf(chain))
erase_if_initialised_lhs(set, t)  == set \ Named({t})

\* do_traverse_stmt, case GIMPLE_BIND: insert the chain, then walk the bind's body.
GatherBind ==
  /\ phase = "gather" /\ HasStmt /\ Stmt.code = "GIMPLE_BIND"
  /\ uninitialised_vars' = insert_vars(uninitialised_vars, prog.vars[Stmt.seq])
  /\ walk' = Append(Advanced, NewFrame(Stmt.seq))
  /\ UNCHANGED <<prog, body, phase, fun, compiled>>

GatherAssign ==
  /\ phase = "gather" /\ HasStmt /\ Stmt.code = "GIMPLE_ASSIGN"
  /\ uninitialised_vars' = erase_if_initialised_lhs(uninitialised_vars, Stmt.lhs)
  /\ walk' = Advanced
  /\ UNCHANGED <<prog, body, phase, fun, compiled>>

\* The default case; the callback claims all operands, so nothing nested is walked.
GatherOther ==
  /\ phase = "gather" /\ HasStmt /\ Stmt.code \notin {"GIMPLE_BIND", "GIMPLE_ASSIGN"}
  /\ walk' = Advanced
  /\ UNCHANGED <<prog, body, uninitialised_vars, phase, fun, compiled>>

GatherReturn ==
  /\ phase = "gather" /\ walk # <<>> /\ ~HasStmt /\ ~Bottom
  /\ walk' = Pop(walk)
  /\ UNCHANGED <<prog, body, uninitialised_vars, phase, fun, compiled>>

\* The first walk is over: the second one starts on the same sequence.
StartAssign ==
  /\ phase = "gather" /\ walk # <<>> /\ ~HasStmt /\ Bottom
  /\ walk' = <<NewFrame(fun)>>
  /\ phase' = "assign"
  /\ UNCHANGED <<prog, body, uninitialised_vars, fun, compiled>>

\* Bug: only the function's outermost bind is handled, nested ones are walked over.
AssignOuterBind ==
  /\ phase = "assign" /\ HasStmt /\ Stmt.code = "GIMPLE_BIND"
  /\ walk' = IF Bottom THEN Append(Advanced, NewFrame(Stmt.seq)) ELSE Advanced
  /\ UNCHANGED <<prog, body, uninitialised_vars, phase, fun, compiled>>

\* add_assign_stmt, case GIMPLE_BIND: "Handle inner GIMPLE_BIND first".
AssignBind ==
  /\ phase = "assign" /\ HasStmt /\ Stmt.code = "GIMPLE_BIND"
  /\ walk' = Append(Advanced, NewFrame(Stmt.seq))
  /\ UNCHANGED <<prog, body, uninitialised_vars, phase, fun, compiled>>

\* Bug: the iterator is not moved past a statement without a bind.
AssignOtherStaying ==
  /\ phase = "assign" /\ HasStmt /\ Stmt.code # "GIMPLE_BIND"
  /\ UNCHANGED vars

AssignOther ==
  /\ phase = "assign" /\ HasStmt /\ Stmt.code # "GIMPLE_BIND"
  /\ walk' = Advanced
  /\ UNCHANGED <<prog, body, uninitialised_vars, phase, fun, compiled>>

\* One turn of the DECL_CHAIN loop, once the walk of the bind's body has returned.
ChainVar  == prog.vars[Top.seq][Top.chain]
WithInits == IF ChainVar \in uninitialised_vars THEN Append(Top.inits, AssignZero(ChainVar))
                                                ELSE Top.inits
AssignVar ==
  /\ phase = "assign" /\ walk # <<>> /\ ~HasStmt /\ ~Bottom
  /\ Top.chain <= Len(prog.vars[Top.seq])
  /\ walk' = [walk EXCEPT ![Len(walk)] = [Top EXCEPT !.chain = @ + 1, !.inits = WithInits]]
  /\ UNCHANGED <<prog, body, uninitialised_vars, phase, fun, compiled>>

\* Bug: the old body is not added to the new sequence before it becomes the body.
SetBodyToInits ==
  /\ phase = "assign" /\ walk # <<>> /\ ~HasStmt /\ ~Bottom
  /\ Top.chain > Len(prog.vars[Top.seq])
  /\ body' = [body EXCEPT ![Top.seq] = Top.inits]
  /\ walk' = Pop(walk)
  /\ UNCHANGED <<prog, uninitialised_vars, phase, fun, compiled>>

\* Bug: the new assignments are added behind the old body.
SetBodyInitsLast ==
  /\ phase = "assign" /\ walk # <<>> /\ ~HasStmt /\ ~Bottom
  /\ Top.chain > Len(prog.vars[Top.seq])
  /\ body' = [body EXCEPT ![Top.seq] = Top.bind_body \o Top.inits]
  /\ walk' = Pop(walk)
  /\ UNCHANGED <<prog, uninitialised_vars, phase, fun, compiled>>

\* gimple_seq_add_seq and gimple_bind_set_body: the body read before the walk of it goes
\* behind the new assignments, whatever the bind holds by now.
AssignSetBody ==
  /\ phase = "assign" /\ walk # <<>> /\ ~HasStmt /\ ~Bottom
  /\ Top.chain > Len(prog.vars[Top.seq])
  /\ body' = [body EXCEPT ![Top.seq] = Top.inits \o Top.bind_body]
  /\ walk' = Pop(walk)
  /\ UNCHANGED <<prog, uninitialised_vars, phase, fun, compiled>>

\* The second walk is over and execute returns; the set keeps its elements.
Return ==
  /\ phase = "assign" /\ walk # <<>> /\ ~HasStmt /\ Bottom
  /\ walk' = <<>>
  /\ phase' = "idle"
  /\ compiled' = compiled \cup {fun}
  /\ UNCHANGED <<prog, body, uninitialised_vars, fun>>

Next ==
  \/ \E f \in Functions : Execute(f)
  \/ GatherBind \/ GatherAssign \/ GatherOther \/ GatherReturn \/ StartAssign
  \/ AssignBind \/ AssignOther \/ AssignVar \/ AssignSetBody \/ Return

\* The compiler runs the pass on every function and the pass never waits for anything.
Spec == Init /\ [][Next]_vars /\ WF_vars(Next)
-----------------------------------------------------------------------------
Zeroed == INSTANCE ZeroedLocals

\* When the second walk starts, the set holds exactly the named variables the walked
\* binds of this function declare and none of their assignments sets as a whole: nothing
\* is left of another function (gather_uninitialised_vars clears the set the pass
\* object keeps), and an assignment met after or inside a nested bind still erases.
GatheredExactly ==
  phase = "assign" => uninitialised_vars = Zeroed!NeverAssigned(prog, fun)

\* new is old with zero assignments to members of ds in front of it.
ZeroPrefixed(new, old, ds) ==
  LET n == Len(new) - Len(old) IN
  /\ n >= 0
  /\ \A i \in 1..Len(old) : new[n + i] = old[i]
  /\ \A i \in 1..n : \E d \in ds : new[i] = AssignZero(d)

\* add_assign_stmt only ever puts zero assignments to a bind's own declarations in front
\* of the bind's statements: the function's own statements stay, all of them and in order.
StatementsKept ==
  \A s \in Seqs : ZeroPrefixed(body[s], prog.body[s], ElementsOf(prog.vars[s]))

\* The pass implements its promise: a bind gets all of its zeros at once, and when execute
\* returns every bind of the function has them.
ImplementsZeroed == Zeroed!Spec

\* The walks end, in whatever order GCC calls execute for the functions.
EveryFunctionCompiled == <>(compiled = Functions)
=============================================================================
