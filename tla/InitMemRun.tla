----------------------------- MODULE InitMemRun -----------------------------
(***************************************************************************)
(* Running a program that went through the initmem pass.  The original and *)
(* the instrumented program are run in lockstep, on the same control path: *)
(* orig and inst say what every variable holds in the one and in the       *)
(* other.  Only the distinction between a value nobody defined ("junk"),   *)
(* the zero the pass assigns ("zero") and any value of the program         *)
(* ("value") is kept.                                                      *)
(***************************************************************************)
EXTENDS InitMem

CONSTANTS
  Persistent,  \* static locals, and local declarations of external variables
  Storage      \* the declaration whose object a declaration denotes: itself, except that
               \* a local extern denotes the object of the file-scope declaration

ASSUME RunAssumption ==
  /\ Persistent \subseteq VarDecls
  /\ Storage \in [Decls -> Decls]
  /\ \A d \in Decls \ Persistent : Storage[d] = d
  /\ \A p \in Programs : \A t \in Seqs : \A st \in ElementsOf(p.body[t]) :
        \A d \in (st.uses \cup {st.lhs}) \ (Persistent \cup {NoDecl}) :
          \E b \in Seqs : d \in ElementsOf(p.vars[b])

VARIABLES
  orig, inst,  \* the values of the objects
  frames,      \* the sequences being executed, outermost first
  junk_read    \* the instrumented program has read an undefined value

run_vars == <<orig, inst, frames, junk_read>>

RunInit ==
  /\ Init
  /\ orig = [d \in Decls |-> IF d \in VarDecls \ Persistent THEN "junk" ELSE "value"]
  /\ inst = orig
  /\ frames = <<>>
  /\ junk_read = FALSE

Compile == Next /\ UNCHANGED run_vars

Compiled == phase = "idle" /\ compiled = Functions
Cur      == frames[Len(frames)]
Running  == Compiled /\ frames # <<>> /\ Cur.pos <= Len(body[Cur.seq])
Now      == body[Cur.seq][Cur.pos]
Past(n)  == [frames EXCEPT ![Len(frames)].pos = @ + n]

\* The statements the pass put at the head of s.
Inserted(s) == Len(body[s]) - Len(prog.body[s])

\* Objects with automatic storage are born undefined when their bind is entered.
Entered(val, s) ==
  [d \in Decls |-> IF d \in ElementsOf(prog.vars[s]) \cap (VarDecls \ Persistent)
                   THEN "junk" ELSE val[d]]

CallFunction(f) ==
  /\ Compiled /\ frames = <<>>
  /\ frames' = <<[seq |-> f, pos |-> 1, jumped |-> FALSE]>>
  /\ UNCHANGED <<vars, orig, inst, junk_read>>

Enter ==
  /\ Running /\ Now.code \in {"GIMPLE_BIND", "GIMPLE_TRY"}
  /\ frames' = Append(Past(1), [seq |-> Now.seq, pos |-> 1, jumped |-> FALSE])
  /\ orig' = Entered(orig, Now.seq)
  /\ inst' = Entered(inst, Now.seq)
  /\ UNCHANGED <<vars, junk_read>>

Reads(us) == junk_read' = (junk_read \/ \E d \in us : inst[Storage[d]] = "junk")

Stored(val, d, v) == IF d = NoDecl THEN val ELSE [val EXCEPT ![Storage[d]] = v]

\* A statement of the program.  An assignment to a component (lhs is no declaration)
\* leaves the rest of the variable as it was.
ExecProgram ==
  /\ Running /\ Now.code \in {"GIMPLE_ASSIGN", "GIMPLE_CALL"}
  /\ ~Now.zero
  /\ Reads(Now.uses)
  /\ orig' = Stored(orig, Now.lhs, "value")
  /\ inst' = Stored(inst, Now.lhs, "value")
  /\ frames' = Past(1)
  /\ UNCHANGED vars

\* A statement only the instrumented program has.
ExecInserted ==
  /\ Running /\ Now.zero
  /\ inst' = Stored(inst, Now.lhs, "zero")
  /\ frames' = Past(1)
  /\ UNCHANGED <<vars, orig, junk_read>>

\* A switch jumps to a label inside the bind that follows it, or past that bind.
Jump ==
  /\ Running /\ Now.code = "GIMPLE_SWITCH"
  /\ Reads(Now.uses)
  /\ \/ /\ \E i \in DOMAIN body[Now.seq] :
             /\ body[Now.seq][i].code = "GIMPLE_LABEL"
             /\ frames' = Append(Past(2), [seq |-> Now.seq, pos |-> i + 1, jumped |-> TRUE])
        /\ orig' = Entered(orig, Now.seq)
        /\ inst' = Entered(inst, Now.seq)
     \/ /\ frames' = Past(2)
        /\ UNCHANGED <<orig, inst>>
  /\ UNCHANGED vars

PassLabel ==
  /\ Running /\ Now.code = "GIMPLE_LABEL"
  /\ frames' = Past(1)
  /\ UNCHANGED <<vars, orig, inst, junk_read>>

\* A condition goes on, or back to a label of a sequence that is being executed, whose nested
\* binds are left.  The assignments inserted before
\* that label do not run again.
Branch ==
  /\ Running /\ Now.code = "GIMPLE_COND"
  /\ Reads(Now.uses)
  /\ \/ frames' = Past(1)
     \/ \E n \in DOMAIN frames : \E i \in 1..(frames[n].pos - 1) :
          /\ body[frames[n].seq][i].code = "GIMPLE_LABEL"
          /\ frames' = Append(SubSeq(frames, 1, n - 1), [frames[n] EXCEPT !.pos = i + 1])
  /\ UNCHANGED <<vars, orig, inst>>

\* All binds are left at once.
ReturnFromFunction ==
  /\ Running /\ Now.code = "GIMPLE_RETURN"
  /\ Reads(Now.uses)
  /\ frames' = <<>>
  /\ UNCHANGED <<vars, orig, inst>>

Leave ==
  /\ Compiled /\ frames # <<>> /\ Cur.pos > Len(body[Cur.seq])
  /\ frames' = SubSeq(frames, 1, Len(frames) - 1)
  /\ UNCHANGED <<vars, orig, inst, junk_read>>

RunNext ==
  \/ Compile
  \/ \E f \in Functions : CallFunction(f)
  \/ Enter \/ ExecProgram \/ ExecInserted \/ Jump \/ PassLabel
  \/ Branch \/ ReturnFromFunction \/ Leave

RunSpec == RunInit /\ [][RunNext]_<<vars, run_vars>>
-----------------------------------------------------------------------------
\* Inside a bind entered at its head, once past the inserted assignments, a variable the
\* pass calls uninitialised is never undefined: the zeros come before every use.
ZeroedWhereReported ==
  \A i \in DOMAIN frames :
    LET a == frames[i] IN
    (~a.jumped /\ a.pos > Inserted(a.seq) /\ a.seq \in Zeroed!Binds(prog, frames[1].seq)) =>
      \A d \in ElementsOf(prog.vars[a.seq]) \cap Zeroed!NeverAssigned(prog, frames[1].seq) :
        inst[d] # "junk"

\* The pass never changes an automatic variable's defined value: whatever the program
\* computed without it, it computes with it.
AutomaticValuesKept ==
  \A d \in Decls \ Persistent :
    (orig[d] # "junk" /\ d \notin {Storage[p] : p \in Persistent}) => inst[d] = orig[d]

\* README.md:5: the plugin "solves the problem of data leaks through memory reads of
\* uninitialized variables": an instrumented program reads no undefined variable.
NoJunkRead == ~junk_read

\* README.md:5: the plugin "finds the uninitialized variables in a given program and
\* initializes them to zero": a variable that has a value all along keeps it.
PersistentValuesKept ==
  \A d \in Persistent : orig[Storage[d]] # "junk" => inst[Storage[d]] = orig[Storage[d]]
=============================================================================
