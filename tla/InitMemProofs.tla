--------------------------- MODULE InitMemProofs ----------------------------
(***************************************************************************)
(* Theorems about the initmem pass and the programs it instruments         *)
(* (InitMem, InitMemRun), for all declarations, sequences, functions and   *)
(* well-formed programs: the pass keeps every program's statements, it     *)
(* gathers exactly the variables it promises to zero, and a compiled       *)
(* program keeps its values and finds zeros where the pass reports them.   *)
(***************************************************************************)
EXTENDS InitMemRun, NatRecursion, FiniteSetTheorems, SequenceTheorems, TLAPS

\* What the initialised_vars of the running walks hold until they are put into a body.
InitsFor(f) ==
  \A j \in 1..Len(f.inits) : \E d \in ElementsOf(prog.vars[f.seq]) : f.inits[j] = AssignZero(d)
InitsOK == \A i \in 1..Len(walk) : InitsFor(walk[i])

\* Frames a walk may have: a new one, one moved past a statement, the stack without its top.
LEMMA NewFrameType == ASSUME TypeOK, NEW s \in Seqs PROVE NewFrame(s) \in Frame
  BY DEF NewFrame, Frame, TypeOK

\* The parts of a walk that is running.
LEMMA TopType ==
  ASSUME walk \in Seq(Frame), walk # <<>>
  PROVE  /\ Len(walk) \in 1..Len(walk)
         /\ Top \in Frame /\ Pop(walk) \in Seq(Frame) /\ Advanced \in Seq(Frame)
<1>1. Len(walk) \in 1..Len(walk) /\ Top \in Frame
  BY DEF Top
<1>2. Pop(walk) \in Seq(Frame)
  BY <1>1 DEF Pop
<1>3. [Top EXCEPT !.pos = @ + 1] \in Frame
  <2>1. \A f \in Frame : f.pos + 1 \in Nat \ {0}
    BY DEF Frame
  <2>2. \A f \in Frame : \A p \in Nat \ {0} : [f EXCEPT !.pos = p] \in Frame
    BY DEF Frame
  <2>q. QED
    BY <1>1, <2>1, <2>2
<1>4. Advanced = [walk EXCEPT ![Len(walk)] = [Top EXCEPT !.pos = @ + 1]]
  BY DEF Advanced, Top
<1>5. Advanced \in Seq(Frame)
  BY <1>1, <1>3, <1>4
<1>q. QED
  BY <1>1, <1>2, <1>5

\* The statement the walk is at.
LEMMA StmtType ==
  ASSUME TypeOK, HasStmt
  PROVE  Stmt \in Statement /\ Top.seq \in Seqs
<1>1. walk # <<>> /\ Top \in Frame
  BY TopType DEF TypeOK, HasStmt
<1>2. Top.seq \in Seqs /\ Top.pos \in 1..Len(body[Top.seq])
  BY <1>1 DEF HasStmt, Frame, TypeOK
<1>3. body[Top.seq] \in Seq(Statement)
  BY <1>2 DEF TypeOK
<1>q. QED
  BY <1>2, <1>3 DEF Stmt

\* The statement the DECL_CHAIN loop may add is a zero assignment to a variable of the chain.
LEMMA ChainVarType ==
  ASSUME TypeOK, walk # <<>>, Top.chain <= Len(prog.vars[Top.seq])
  PROVE  /\ ChainVar \in ElementsOf(prog.vars[Top.seq])
         /\ AssignZero(ChainVar) \in Statement
         /\ WithInits \in Seq(Statement)
<1>1. Top \in Frame /\ Top.seq \in Seqs /\ Top.chain \in Nat \ {0} /\ Top.inits \in Seq(Statement)
  BY TopType DEF TypeOK, Frame
<1>2. prog.vars[Top.seq] \in Seq(Decls)
  BY <1>1 DEF TypeOK, Program
<1>3. Top.chain \in DOMAIN prog.vars[Top.seq]
  BY <1>1, <1>2
<1>4. ChainVar \in Decls
  BY <1>2, <1>3 DEF ChainVar
<1>5. AssignZero(ChainVar) \in Statement
  BY <1>4 DEF AssignZero, Statement, Codes, Nesting
<1>6. WithInits \in Seq(Statement)
  BY <1>1, <1>5 DEF WithInits
<1>q. QED
  BY <1>3, <1>5, <1>6 DEF ElementsOf, ChainVar

\* The frame after a turn of the DECL_CHAIN loop.
LEMMA NextChainType ==
  ASSUME NEW f \in Frame, NEW inits \in Seq(Statement)
  PROVE  [f EXCEPT !.chain = @ + 1, !.inits = inits] \in Frame
<1>1. f.chain + 1 \in Nat \ {0}
  BY DEF Frame
<1>2. ASSUME NEW c \in Nat \ {0} PROVE [f EXCEPT !.chain = c, !.inits = inits] \in Frame
  BY DEF Frame
<1>q. QED
  BY <1>1, <1>2

\* Types are kept whether or not the pass ever finishes.
LEMMA SafeTypes == Init /\ [][Next]_vars => []TypeOK
<1>1. Init => TypeOK
  BY ProgramsAssumption DEF Init, TypeOK, Program
<1>2. TypeOK /\ [Next]_vars => TypeOK'
  <2> SUFFICES ASSUME TypeOK, [Next]_vars PROVE TypeOK'
    OBVIOUS
  <2> USE DEF TypeOK
  <2>1. ASSUME NEW f \in Functions, Execute(f) PROVE TypeOK'
    <3>1. NewFrame(f) \in Frame
      BY GimpleAssumption, NewFrameType
    <3>q. QED
      BY <2>1, <3>1 DEF Execute
  <2>2. CASE GatherBind
    <3>1. Stmt \in Statement /\ Stmt.seq \in Seqs
      BY <2>2, StmtType DEF GatherBind, Statement, Nesting
    <3>2. prog.vars[Stmt.seq] \in Seq(Decls)
      BY <3>1 DEF Program
    <3>3. uninitialised_vars' \subseteq Named(Decls)
      BY <2>2, <3>2 DEF GatherBind, insert_vars, Named, ElementsOf
    <3>4. walk' \in Seq(Frame)
      BY <2>2, <3>1, NewFrameType, TopType DEF GatherBind, HasStmt
    <3>q. QED
      BY <2>2, <3>3, <3>4 DEF GatherBind
  <2>3. CASE GatherAssign
    BY <2>3, TopType DEF GatherAssign, HasStmt, erase_if_initialised_lhs
  <2>4. CASE GatherOther
    BY <2>4, TopType DEF GatherOther, HasStmt
  <2>5. CASE GatherReturn
    BY <2>5, TopType DEF GatherReturn
  <2>6. CASE StartAssign
    <3>1. NewFrame(fun) \in Frame
      BY <2>6, GimpleAssumption, NewFrameType DEF StartAssign
    <3>q. QED
      BY <2>6, <3>1 DEF StartAssign
  <2>7. CASE AssignBind
    <3>1. Stmt \in Statement /\ Stmt.seq \in Seqs
      BY <2>7, StmtType DEF AssignBind, Statement, Nesting
    <3>2. walk' \in Seq(Frame)
      BY <2>7, <3>1, NewFrameType, TopType DEF AssignBind, HasStmt
    <3>q. QED
      BY <2>7, <3>2 DEF AssignBind
  <2>8. CASE AssignOther
    BY <2>8, TopType DEF AssignOther, HasStmt
  <2>9. CASE AssignVar
    <3>1. Top \in Frame
      BY <2>9, TopType DEF AssignVar
    <3>2. WithInits \in Seq(Statement)
      BY <2>9, ChainVarType DEF AssignVar
    <3>3. [Top EXCEPT !.chain = @ + 1, !.inits = WithInits] \in Frame
      BY <3>1, <3>2, NextChainType
    <3>4. walk' \in Seq(Frame)
      BY <2>9, <3>3 DEF AssignVar
    <3>q. QED
      BY <2>9, <3>4 DEF AssignVar
  <2>10. CASE AssignSetBody
    <3>1. Top \in Frame /\ Pop(walk) \in Seq(Frame)
      BY <2>10, TopType DEF AssignSetBody
    <3>2. body' \in [Seqs -> Seq(Statement)]
      BY <2>10, <3>1 DEF AssignSetBody, Frame
    <3>q. QED
      BY <2>10, <3>1, <3>2 DEF AssignSetBody
  <2>11. CASE Return
    BY <2>11 DEF Return
  <2>12. CASE UNCHANGED vars
    BY <2>12 DEF vars
  <2>q. QED
    BY <2>1, <2>2, <2>3, <2>4, <2>5, <2>6, <2>7, <2>8, <2>9, <2>10, <2>11, <2>12 DEF Next
<1>q. QED
  BY <1>1, <1>2, PTL

\* The variables of InitMem keep their types for every program the pass is run on: the
\* walks never leave the sequences of the program.
THEOREM TypeCorrect == Spec => []TypeOK
BY SafeTypes, PTL DEF Spec

\* Neither a new frame nor moving past a statement changes what is collected.
LEMMA NewFrameInits == ASSUME NEW s PROVE InitsFor(NewFrame(s))
  BY DEF InitsFor, NewFrame

\* Moving past a statement keeps what the frames have collected.
LEMMA AdvancedInits ==
  ASSUME walk \in Seq(Frame), walk # <<>>, InitsOK
  PROVE  Len(Advanced) = Len(walk) /\ \A i \in 1..Len(walk) : InitsFor(Advanced[i])
<1>1. Len(Advanced) = Len(walk)
  BY DEF Advanced
<1>2. ASSUME NEW i \in 1..Len(walk)
      PROVE  Advanced[i].seq = walk[i].seq /\ Advanced[i].inits = walk[i].inits
  <2>1. walk[i] \in Frame
    OBVIOUS
  <2>2. Advanced[i] = IF i = Len(walk) THEN [walk[i] EXCEPT !.pos = @ + 1] ELSE walk[i]
    BY DEF Advanced
  <2>q. QED
    BY <2>1, <2>2 DEF Frame
<1>q. QED
  BY <1>1, <1>2 DEF InitsOK, InitsFor

\* What one turn of the DECL_CHAIN loop has collected.
LEMMA WithInitsZero ==
  ASSUME TypeOK, walk # <<>>, Top.chain <= Len(prog.vars[Top.seq]), InitsOK
  PROVE  \A j \in 1..Len(WithInits) :
           \E d \in ElementsOf(prog.vars[Top.seq]) : WithInits[j] = AssignZero(d)
<1>1. ChainVar \in ElementsOf(prog.vars[Top.seq])
  BY ChainVarType
<1>2. Len(walk) \in 1..Len(walk) /\ Top.inits \in Seq(Statement)
  BY TopType DEF TypeOK, Frame
<1>3. \A j \in 1..Len(Top.inits) :
        \E d \in ElementsOf(prog.vars[Top.seq]) : Top.inits[j] = AssignZero(d)
  BY <1>2 DEF InitsOK, InitsFor, Top
<1>q. QED
  BY <1>1, <1>2, <1>3 DEF WithInits

\* The walks that are left when the innermost one returns are what they were.
LEMMA PopKeeps ==
  ASSUME NEW S, NEW w \in Seq(S), w # <<>>
  PROVE  Len(Pop(w)) = Len(w) - 1 /\ \A i \in 1..Len(Pop(w)) : Pop(w)[i] = w[i]
<1> DEFINE n == Len(w) - 1
<1>1. n \in Nat /\ 1 \in Int /\ n \in Int /\ \A i \in 1..n : w[i] \in S
  OBVIOUS
<1> HIDE DEF n
<1>2. /\ Len(SubSeq(w, 1, n)) = IF 1 <= n THEN n - 1 + 1 ELSE 0
      /\ \A i \in 1..(n - 1 + 1) : SubSeq(w, 1, n)[i] = w[1 + i - 1]
  BY <1>1, SubSeqProperties
<1>3. n - 1 + 1 = n /\ (IF 1 <= n THEN n - 1 + 1 ELSE 0) = n /\ \A i \in 1..n : 1 + i - 1 = i
  BY <1>1
<1>4. Pop(w) = SubSeq(w, 1, n)
  BY DEF Pop, n
<1>5. Len(Pop(w)) = n
  BY <1>2, <1>3, <1>4, Zenon
<1>6. ASSUME NEW i \in 1..n PROVE Pop(w)[i] = w[i]
  BY <1>2, <1>3, <1>4, <1>6, Zenon
<1>q. QED
  BY <1>5, <1>6 DEF n

\* A sequence stays zero-prefixed when more zero assignments go in front of it.
LEMMA PrefixKept ==
  ASSUME NEW S, NEW b \in Seq(S), NEW o \in Seq(S), NEW z \in Seq(S), NEW ds,
         ZeroPrefixed(b, o, ds), \A j \in 1..Len(z) : \E d \in ds : z[j] = AssignZero(d)
  PROVE  ZeroPrefixed(z \o b, o, ds)
<1> DEFINE new == z \o b
           k   == Len(z)
           m   == Len(b) - Len(o)
<1>1. /\ m >= 0
      /\ \A i \in 1..Len(o) : b[m + i] = o[i]
      /\ \A i \in 1..m : \E d \in ds : b[i] = AssignZero(d)
  BY DEF ZeroPrefixed
<1>2. k \in Nat /\ m \in Int /\ Len(o) \in Nat /\ Len(b) = m + Len(o) /\ Len(new) - Len(o) = k + m
  OBVIOUS
<1>3. /\ \A i \in 1..k : new[i] = z[i]
      /\ \A i \in 1..Len(b) : new[k + i] = b[i]
  OBVIOUS
<1> HIDE DEF new, k, m
<1>4. ASSUME NEW i \in 1..Len(o) PROVE new[(k + m) + i] = o[i]
  <2>1. m + i \in 1..Len(b) /\ b[m + i] = o[i] /\ (k + m) + i = k + (m + i)
    BY <1>1, <1>2
  <2>q. QED
    BY <1>3, <2>1
<1>5. ASSUME NEW i \in 1..(k + m) PROVE \E d \in ds : new[i] = AssignZero(d)
  <2>1. CASE i <= k
    <3>1. i \in 1..k /\ new[i] = z[i]
      BY <1>2, <1>3, <2>1
    <3>2. PICK d \in ds : z[i] = AssignZero(d)
      BY <3>1 DEF k
    <3>q. QED
      BY <3>1, <3>2, Zenon
  <2>2. CASE i > k
    <3>1. i - k \in 1..m /\ i - k \in 1..Len(b) /\ k + (i - k) = i
      BY <1>1, <1>2, <2>2
    <3>2. new[i] = b[i - k]
      BY <1>3, <3>1
    <3>q. QED
      BY <1>1, <3>1, <3>2
  <2>q. QED
    BY <1>2, <2>1, <2>2
<1>6. k + m >= 0
  BY <1>1, <1>2
<1>7. ZeroPrefixed(new, o, ds)
  BY <1>2, <1>4, <1>5, <1>6 DEF ZeroPrefixed
<1>q. QED
  BY <1>7 DEF new

-----------------------------------------------------------------------------
(* The sequences below one *)

Below(p, cs, s, X) == {s} \cup UNION {Nested(p, cs, t) : t \in X}
Levels(p, cs, s, w) ==
  /\ w \in [Nat -> SUBSET Seqs] /\ w[0] = {s}
  /\ \A n \in Nat : w[n + 1] = Below(p, cs, s, w[n])

\* The levels a walk of the sequences passes.
LEMMA WithinLevels ==
  ASSUME NEW p \in Program, NEW cs, cs \subseteq Nesting, NEW s \in Seqs
  PROVE  Levels(p, cs, s, Within(p, cs, s))
<1> DEFINE D == SUBSET Seqs
           a == {s}
           step == [X \in D |-> Below(p, cs, s, X)]
           Is(w) == w = [n \in Nat |-> IF n = 0 THEN {s} ELSE {s} \cup UNION {Nested(p, cs, t) : t \in w[n - 1]}]
<1>1. \A t \in Seqs : Nested(p, cs, t) \subseteq Seqs
  <2> SUFFICES ASSUME NEW t \in Seqs, NEW x \in ElementsOf(p.body[t]), x.code \in cs PROVE x.seq \in Seqs
    BY DEF Nested
  <2>1. p.body[t] \in Seq(Statement)
    BY DEF Program
  <2>2. x \in Statement
    BY <2>1 DEF ElementsOf
  <2>q. QED
    BY <2>2 DEF Statement
<1>2. Repeatable(D, a, step)
  BY <1>1 DEF Below, Repeatable
<1>3. PICK f : f \in [Nat -> D] /\ f[0] = a /\ \A n \in Nat : f[n + 1] = step[f[n]]
  <2> HIDE DEF D, step, a
  <2>q. QED
    BY <1>2, Recursion
<1>4. f[0] = {s} /\ \A n \in Nat : f[n + 1] = Below(p, cs, s, f[n]) /\ f[n] \in D
  BY <1>3
<1> HIDE DEF D, step, a
<1>5. Is(f)
  <2>1. ASSUME NEW n \in Nat PROVE f[n] = IF n = 0 THEN {s} ELSE Below(p, cs, s, f[n - 1])
    <3>1. CASE n # 0
      <4>1. n - 1 \in Nat /\ (n - 1) + 1 = n
        BY <3>1
      <4>2. f[(n - 1) + 1] = Below(p, cs, s, f[n - 1])
        BY <1>4, <4>1
      <4>q. QED
        BY <3>1, <4>1, <4>2
    <3>q. QED
      BY <1>4, <3>1
  <2>2. f = [n \in Nat |-> f[n]]
    BY <1>3
  <2>3. f = [n \in Nat |-> IF n = 0 THEN {s} ELSE Below(p, cs, s, f[n - 1])]
    BY <2>1, <2>2
  <2>q. QED
    BY <2>3 DEF Below
<1>6. Within(p, cs, s) = CHOOSE w : Is(w)
  BY DEF Within
<1>7. PICK v : v = Within(p, cs, s) /\ Is(v)
  <2> HIDE DEF Is
  <2>q. QED
    BY <1>5, <1>6
<1>8. v = [n \in Nat |-> IF n = 0 THEN {s} ELSE Below(p, cs, s, v[n - 1])]
  BY <1>7 DEF Below
<1>9. v[0] = {s} /\ \A n \in Nat : v[n + 1] = Below(p, cs, s, v[n])
  <2>1. ASSUME NEW n \in Nat PROVE v[n + 1] = Below(p, cs, s, v[n])
    <3>1. n + 1 \in Nat /\ n + 1 # 0 /\ (n + 1) - 1 = n
      OBVIOUS
    <3>q. QED
      BY <1>8, <3>1
  <2>q. QED
    BY <1>8, <2>1
<1>10. \A n \in Nat : v[n] = f[n]
  <2> DEFINE Bad == {n \in Nat : v[n] # f[n]}
  <2>1. SUFFICES ASSUME Bad # {} PROVE FALSE
    OBVIOUS
  <2>2. PICK m \in Bad : \A y \in Bad : ~(<<y, m>> \in OpToRel(<, Nat))
    BY <2>1, WFMin, NatLessThanWellFounded
  <2>3. m \in Nat /\ v[m] # f[m] /\ \A y \in Bad : ~(y < m)
    BY <2>2 DEF OpToRel
  <2>4. m # 0
    BY <1>4, <1>9, <2>3
  <2>5. m - 1 \in Nat /\ m - 1 < m /\ (m - 1) + 1 = m
    BY <2>3, <2>4
  <2>6. v[m - 1] = f[m - 1]
    BY <2>3, <2>5
  <2>7. v[(m - 1) + 1] = Below(p, cs, s, v[m - 1]) /\ f[(m - 1) + 1] = Below(p, cs, s, f[m - 1])
    BY <1>4, <1>9, <2>5
  <2>q. QED
    BY <2>3, <2>5, <2>6, <2>7
<1>11. v \in [Nat -> SUBSET Seqs]
  <2>1. v = [n \in Nat |-> v[n]]
    BY <1>8
  <2>2. \A n \in Nat : v[n] \in SUBSET Seqs
    BY <1>4, <1>10 DEF D
  <2>q. QED
    BY <2>1, <2>2
<1>q. QED
  BY <1>7, <1>9, <1>11 DEF Levels

\* R is the least set with s in it and with what is nested in its members.
Tree(p, cs, s, R) ==
  /\ s \in R /\ R \subseteq Seqs
  /\ \A t \in R : Nested(p, cs, t) \subseteq R
  /\ \A X : s \in X /\ (\A t \in X \cap Seqs : Nested(p, cs, t) \subseteq X) => R \subseteq X

\* As many levels as there are sequences are all: a level that is not the last has one more than the one before.
LEMMA WithinTree ==
  ASSUME NEW p \in Program, NEW cs, cs \subseteq Nesting, NEW s \in Seqs
  PROVE  Tree(p, cs, s, Within(p, cs, s)[Cardinality(Seqs)])
<1> DEFINE w == Within(p, cs, s)
           c == Cardinality(Seqs)
           below(X) == Below(p, cs, s, X)
<1>1. /\ w \in [Nat -> SUBSET Seqs] /\ w[0] = {s} /\ \A n \in Nat : w[n + 1] = below(w[n])
      /\ IsFiniteSet(Seqs) /\ c \in Nat
  <2>1. IsFiniteSet(Seqs) /\ c \in Nat
    BY GimpleAssumption, FS_CardinalityType
  <2>2. Levels(p, cs, s, w)
    BY WithinLevels
  <2>q. QED
    BY <2>1, <2>2 DEF Levels
<1> HIDE DEF w, c
<1>2. ASSUME NEW X, s \in X, \A t \in X \cap Seqs : Nested(p, cs, t) \subseteq X, NEW n \in Nat
      PROVE  w[n] \subseteq X
  <2> DEFINE Bad == {m \in Nat : ~(w[m] \subseteq X)}
  <2>1. SUFFICES ASSUME Bad # {} PROVE FALSE
    OBVIOUS
  <2>2. PICK m \in Bad : \A y \in Bad : ~(<<y, m>> \in OpToRel(<, Nat))
    BY <2>1, WFMin, NatLessThanWellFounded
  <2>3. m \in Nat /\ ~(w[m] \subseteq X) /\ \A y \in Bad : ~(y < m)
    BY <2>2 DEF OpToRel
  <2>4. m # 0
    BY <1>1, <1>2, <2>3
  <2>5. m - 1 \in Nat /\ m - 1 < m /\ (m - 1) + 1 = m
    BY <2>3, <2>4
  <2>6. w[m - 1] \subseteq X /\ w[m - 1] \subseteq Seqs
    BY <1>1, <2>3, <2>5
  <2>7. below(w[m - 1]) \subseteq X
    BY <1>2, <2>6 DEF Below
  <2>8. w[(m - 1) + 1] = below(w[m - 1])
    BY <1>1, <2>5
  <2>q. QED
    BY <2>3, <2>5, <2>7, <2>8
<1>3. ASSUME NEW n \in Nat PROVE w[n] \subseteq w[n + 1]
  <2> DEFINE Bad == {m \in Nat : ~(w[m] \subseteq w[m + 1])}
  <2>1. SUFFICES ASSUME Bad # {} PROVE FALSE
    OBVIOUS
  <2>2. PICK m \in Bad : \A y \in Bad : ~(<<y, m>> \in OpToRel(<, Nat))
    BY <2>1, WFMin, NatLessThanWellFounded
  <2>3. m \in Nat /\ ~(w[m] \subseteq w[m + 1]) /\ \A y \in Bad : ~(y < m)
    BY <2>2 DEF OpToRel
  <2>4. m # 0
    BY <1>1, <2>3 DEF Below
  <2>5. m - 1 \in Nat /\ m - 1 < m /\ (m - 1) + 1 = m
    BY <2>3, <2>4
  <2>6. w[m - 1] \subseteq w[m]
    BY <2>3, <2>5
  <2>7. below(w[m - 1]) \subseteq below(w[m])
    BY <2>6 DEF Below
  <2>8. w[(m - 1) + 1] = below(w[m - 1]) /\ w[m + 1] = below(w[m])
    BY <1>1, <2>3, <2>5
  <2>q. QED
    BY <2>3, <2>5, <2>7, <2>8
<1>4. ASSUME NEW n \in Nat PROVE IsFiniteSet(w[n]) /\ Cardinality(w[n]) \in Nat /\ Cardinality(w[n]) <= c
  <2>1. w[n] \subseteq Seqs
    BY <1>1
  <2>q. QED
    BY <1>1, <2>1, FS_Subset, FS_CardinalityType DEF c
<1>5. ASSUME NEW n \in Nat PROVE Cardinality(w[n]) >= n + 1 \/ w[n + 1] = w[n]
  <2> DEFINE Bad == {m \in Nat : ~(Cardinality(w[m]) >= m + 1 \/ w[m + 1] = w[m])}
  <2>1. SUFFICES ASSUME Bad # {} PROVE FALSE
    OBVIOUS
  <2>2. PICK m \in Bad : \A y \in Bad : ~(<<y, m>> \in OpToRel(<, Nat))
    BY <2>1, WFMin, NatLessThanWellFounded
  <2>3. m \in Nat /\ ~(Cardinality(w[m]) >= m + 1) /\ w[m + 1] # w[m] /\ \A y \in Bad : ~(y < m)
    BY <2>2 DEF OpToRel
  <2>4. m # 0
    <3>1. Cardinality(w[0]) = 1
      BY <1>1, FS_Singleton
    <3>q. QED
      BY <2>3, <3>1
  <2>5. m - 1 \in Nat /\ m - 1 < m /\ (m - 1) + 1 = m
    BY <2>3, <2>4
  <2>6. w[(m - 1) + 1] = below(w[m - 1]) /\ w[m + 1] = below(w[m])
    BY <1>1, <2>3, <2>5
  <2>7. w[m] # w[m - 1]
    BY <2>3, <2>5, <2>6
  <2>8. Cardinality(w[m - 1]) >= m
    BY <2>3, <2>5, <2>7
  <2>9. w[m - 1] \subseteq w[m]
    BY <1>3, <2>5
  <2>10. IsFiniteSet(w[m]) /\ Cardinality(w[m]) \in Nat /\ Cardinality(w[m - 1]) \in Nat
    BY <1>4, <2>3, <2>5
  <2>11. Cardinality(w[m - 1]) < Cardinality(w[m])
    BY <2>7, <2>9, <2>10, FS_Subset
  <2>q. QED
    BY <2>3, <2>8, <2>10, <2>11
<1>6. w[c + 1] = w[c] /\ w[c + 1] = below(w[c])
  BY <1>1, <1>4, <1>5
<1>7. \A t \in w[c] : Nested(p, cs, t) \subseteq w[c]
  BY <1>6 DEF Below
<1>8. s \in w[c] /\ w[c] \subseteq Seqs
  BY <1>1, <1>6 DEF Below
<1>9. Tree(p, cs, s, w[c])
  BY <1>1, <1>2, <1>7, <1>8 DEF Tree
<1>q. QED
  BY <1>9 DEF w, c

\* The binds of a function.
LEMMA BindsTree ==
  ASSUME NEW p \in Program, NEW f \in Functions
  PROVE  Tree(p, {"GIMPLE_BIND"}, f, Zeroed!Binds(p, f))
<1>1. Zeroed!Binds(p, f) = Within(p, {"GIMPLE_BIND"}, f)[Cardinality(Seqs)]
  BY DEF Zeroed!Binds, Zeroed!Within, Zeroed!Nested, Zeroed!ElementsOf, Within, Nested, ElementsOf,
          Zeroed!Cardinality, Cardinality, Zeroed!IsFiniteSet, IsFiniteSet
<1>2. f \in Seqs /\ {"GIMPLE_BIND"} \subseteq Nesting
  BY GimpleAssumption DEF Nesting
<1>q. QED
  BY <1>1, <1>2, WithinTree

-----------------------------------------------------------------------------
(* Well-formed programs *)

\* Statement i of t has s nested in it.
Owns(p, t, i, s) ==
  /\ t \in Seqs /\ i \in DOMAIN p.body[t] /\ p.body[t][i].seq = s
  /\ p.body[t][i].code \in {"GIMPLE_BIND", "GIMPLE_TRY"}

\* A sequence belongs to one statement, the body of a function to none.
LEMMA OneOwner ==
  ASSUME NEW p, WellFormed(p), NEW s \in Seqs, NEW t, NEW i, Owns(p, t, i, s)
  PROVE  s \notin Functions /\ \A u, j : Owns(p, u, j, s) => u = t /\ j = i
<1>1. ASSUME NEW u, NEW j, Owns(p, u, j, s) PROVE <<u, j>> \in Owners(p, s)
  BY <1>1 DEF Owns, Owners
<1>2. <<t, i>> \in Owners(p, s)
  BY <1>1
<1>3. s \notin Functions
  BY <1>2 DEF WellFormed
<1>4. \A x, y \in Owners(p, s) : x = y
  BY DEF WellFormed
<1>5. ASSUME NEW u, NEW j, Owns(p, u, j, s) PROVE u = t /\ j = i
  <2>1. <<u, j>> = <<t, i>>
    BY <1>1, <1>2, <1>4, <1>5
  <2>q. QED
    BY <2>1
<1>q. QED
  BY <1>3, <1>5

\* What is nested in a sequence, by a statement of it.
LEMMA NestedOwned ==
  ASSUME NEW p \in Program, NEW cs, NEW t \in Seqs, NEW s \in Nested(p, cs, t),
         cs \subseteq {"GIMPLE_BIND", "GIMPLE_TRY"}
  PROVE  s \in Seqs /\ \E i \in 1..Len(p.body[t]) : Owns(p, t, i, s) /\ p.body[t][i].code \in cs
<1>1. p.body[t] \in Seq(Statement)
  BY DEF Program
<1>2. PICK i \in DOMAIN p.body[t] : p.body[t][i].code \in cs /\ p.body[t][i].seq = s
  BY DEF Nested, ElementsOf
<1>3. p.body[t][i] \in Statement /\ i \in 1..Len(p.body[t])
  BY <1>1
<1>4. s \in Seqs
  BY <1>2, <1>3 DEF Statement, Nesting
<1>q. QED
  BY <1>2, <1>3, <1>4 DEF Owns

\* What a statement owns is nested in its sequence.
LEMMA OwnedNested ==
  ASSUME NEW p, NEW cs, NEW t, NEW i, NEW s, Owns(p, t, i, s), p.body[t][i].code \in cs
  PROVE  s \in Nested(p, cs, t)
BY DEF Owns, Nested, ElementsOf

\* The sequences of different functions are different.
LEMMA TreesApart ==
  ASSUME NEW p \in Program, WellFormed(p), NEW f \in Functions, NEW g \in Functions, f # g
  PROVE  Zeroed!Binds(p, f) \cap Zeroed!Binds(p, g) = {}
<1> DEFINE cs == {"GIMPLE_BIND"}
           A == Zeroed!Binds(p, f)
           B == Zeroed!Binds(p, g)
           X == Seqs \ B
           Y == {s \in B : s = g \/ \E t \in B : s \in Nested(p, cs, t)}
<1>1. Tree(p, cs, f, A) /\ Tree(p, cs, g, B)
  BY BindsTree
<1> HIDE DEF A, B
<1>2. \A s \in B : s = g \/ \E t \in B : s \in Nested(p, cs, t)
  <2>1. g \in Y /\ \A t \in Y \cap Seqs : Nested(p, cs, t) \subseteq Y
    BY <1>1 DEF Tree
  <2> HIDE DEF Y
  <2>2. B \subseteq Y
    BY <1>1, <2>1 DEF Tree
  <2>q. QED
    BY <2>2 DEF Y
<1>3. ASSUME NEW t \in X, NEW s \in Nested(p, cs, t) PROVE s \in X
  <2>1. PICK i : Owns(p, t, i, s)
    BY NestedOwned
  <2>2. s \in Seqs /\ s \notin Functions
    BY <2>1, NestedOwned, OneOwner
  <2>3. ASSUME NEW u \in B, s \in Nested(p, cs, u) PROVE FALSE
    <3>1. u \in Seqs
      BY <1>1 DEF Tree
    <3>2. PICK j : Owns(p, u, j, s)
      BY <2>3, <3>1, NestedOwned
    <3>3. u = t
      BY <2>1, <2>2, <3>2, OneOwner
    <3>q. QED
      BY <2>3, <3>3
  <2>q. QED
    BY <1>2, <2>2, <2>3
<1>4. f \in X
  <2>1. f \in Seqs /\ f \in Functions
    BY GimpleAssumption
  <2>2. ASSUME NEW u \in B, f \in Nested(p, cs, u) PROVE FALSE
    <3>1. u \in Seqs
      BY <1>1 DEF Tree
    <3>2. PICK j : Owns(p, u, j, f)
      BY <2>2, <3>1, NestedOwned
    <3>q. QED
      BY <2>1, <3>2, OneOwner
  <2>q. QED
    BY <1>2, <2>1, <2>2
<1> HIDE DEF X
<1>5. A \subseteq X
  BY <1>1, <1>3, <1>4 DEF Tree
<1>q. QED
  BY <1>5 DEF X, A, B

-----------------------------------------------------------------------------
(* A walk of a function *)

\* E: the sequences the walk has been in; done: how many statements of each it is past.
Walked(p, f, w, E, done) ==
  /\ f \in Functions /\ E \subseteq Zeroed!Binds(p, f) /\ done \in [Seqs -> Nat]
  /\ Len(w) \in Nat \ {0} /\ w[1].seq = f
  /\ \A k \in 1..Len(w) : w[k].seq \in E /\ w[k].pos = done[w[k].seq] + 1
  /\ \A j, k \in 1..Len(w) : w[j].seq = w[k].seq => j = k
  /\ \A s \in E : /\ done[s] <= Len(p.body[s])
                  /\ done[s] = Len(p.body[s]) \/ \E k \in 1..Len(w) : w[k].seq = s
  /\ \A s \in E \ {f} : \E t \in E : \E i \in 1..done[t] :
        p.body[t][i].code = "GIMPLE_BIND" /\ p.body[t][i].seq = s
  /\ \A t \in E : \A i \in 1..done[t] :
        p.body[t][i].code = "GIMPLE_BIND" => p.body[t][i].seq \in E

\* v is w with its top frame at pos.
TopAt(w, v, pos) ==
  /\ \A k \in 1..Len(w) : v[k].seq = w[k].seq
  /\ \A k \in 1..(Len(w) - 1) : v[k].pos = w[k].pos
  /\ v[Len(w)].pos = pos

\* The sequences a walk is in are those of the function, and it is past statements they have.
LEMMA WalkedTypes ==
  ASSUME NEW p \in Program, NEW f, NEW w, NEW E, NEW done, Walked(p, f, w, E, done)
  PROVE  /\ f \in Functions /\ f \in Seqs /\ f \in E /\ E \subseteq Seqs
         /\ E \subseteq Zeroed!Binds(p, f) /\ done \in [Seqs -> Nat]
         /\ \A t \in E : /\ done[t] \in Nat /\ Len(p.body[t]) \in Nat /\ p.body[t] \in Seq(Statement)
                         /\ done[t] <= Len(p.body[t])
         /\ Len(w) \in Nat \ {0} /\ Len(w) \in 1..Len(w) /\ w[1].seq = f
         /\ w[Len(w)].seq \in E /\ w[Len(w)].pos = done[w[Len(w)].seq] + 1
         /\ \A k \in 1..Len(w) : w[k].seq \in E
<1>1. f \in Functions /\ done \in [Seqs -> Nat] /\ E \subseteq Zeroed!Binds(p, f)
  BY DEF Walked
<1>2. Zeroed!Binds(p, f) \subseteq Seqs
  BY <1>1, BindsTree DEF Tree
<1>3. Len(w) \in Nat \ {0} /\ w[1].seq = f /\ \A k \in 1..Len(w) : w[k].seq \in E /\ w[k].pos = done[w[k].seq] + 1
  BY DEF Walked
<1>4. Len(w) \in 1..Len(w) /\ 1 \in 1..Len(w)
  BY <1>3
<1>5. E \subseteq Seqs /\ f \in E /\ f \in Seqs
  BY <1>1, <1>2, <1>3, <1>4, GimpleAssumption
<1>6. \A t \in E : done[t] <= Len(p.body[t])
  BY DEF Walked
<1>7. ASSUME NEW t \in E PROVE done[t] \in Nat /\ Len(p.body[t]) \in Nat /\ p.body[t] \in Seq(Statement)
  <2>1. t \in Seqs /\ p.body[t] \in Seq(Statement)
    BY <1>5 DEF Program
  <2>q. QED
    BY <1>1, <2>1
<1>q. QED
  BY <1>1, <1>3, <1>4, <1>5, <1>6, <1>7

\* A walk that starts.
LEMMA WalkStart ==
  ASSUME NEW p \in Program, NEW f \in Functions
  PROVE  Walked(p, f, <<NewFrame(f)>>, {f}, [s \in Seqs |-> 0])
<1>1. f \in Seqs /\ f \in Zeroed!Binds(p, f)
  BY GimpleAssumption, BindsTree DEF Tree
<1>2. p.body[f] \in Seq(Statement)
  BY <1>1 DEF Program
<1> DEFINE w == <<NewFrame(f)>>
           done == [s \in Seqs |-> 0]
<1>3. Len(w) = 1 /\ w[1].seq = f /\ w[1].pos = 1
  BY DEF NewFrame
<1>4. done \in [Seqs -> Nat] /\ done[f] = 0
  BY <1>1
<1> HIDE DEF w, done
<1>5. Walked(p, f, w, {f}, done)
  BY <1>1, <1>2, <1>3, <1>4 DEF Walked
<1>q. QED
  BY <1>5 DEF w, done

\* A walk depends on the places of its frames only.
LEMMA WalkSame ==
  ASSUME NEW p, NEW f, NEW w, NEW E, NEW done, Walked(p, f, w, E, done),
         NEW v, Len(v) = Len(w), \A k \in 1..Len(w) : v[k].seq = w[k].seq /\ v[k].pos = w[k].pos
  PROVE  Walked(p, f, v, E, done)
<1>1. 1 \in 1..Len(w) /\ Len(w) \in Nat \ {0}
  BY DEF Walked
<1>2. Len(v) \in Nat \ {0} /\ v[1].seq = f
  BY <1>1 DEF Walked
<1>3. \A k \in 1..Len(v) : v[k].seq \in E /\ v[k].pos = done[v[k].seq] + 1
  BY DEF Walked
<1>4. \A j, k \in 1..Len(v) : v[j].seq = v[k].seq => j = k
  BY DEF Walked
<1>5. \A s \in E : /\ done[s] <= Len(p.body[s])
                   /\ done[s] = Len(p.body[s]) \/ \E k \in 1..Len(v) : v[k].seq = s
  <2> SUFFICES ASSUME NEW s \in E
               PROVE  /\ done[s] <= Len(p.body[s])
                      /\ done[s] = Len(p.body[s]) \/ \E k \in 1..Len(w) : v[k].seq = s
    OBVIOUS
  <2>1. /\ done[s] <= Len(p.body[s])
        /\ done[s] = Len(p.body[s]) \/ \E k \in 1..Len(w) : w[k].seq = s
    BY DEF Walked
  <2>q. QED
    BY <2>1
<1>q. QED
  BY <1>2, <1>3, <1>4, <1>5, Zenon DEF Walked

\* A walk that moves past a statement that is no bind.
LEMMA WalkOn ==
  ASSUME NEW p \in Program, NEW f, NEW w, NEW E, NEW done, Walked(p, f, w, E, done),
         NEW t, t = w[Len(w)].seq, NEW i, i = w[Len(w)].pos,
         i <= Len(p.body[t]), p.body[t][i].code # "GIMPLE_BIND",
         NEW v, Len(v) = Len(w), TopAt(w, v, i + 1)
  PROVE  Walked(p, f, v, E, [done EXCEPT ![t] = i])
<1> DEFINE new == [done EXCEPT ![t] = i]
<1>1. /\ f \in Seqs /\ f \in E /\ E \subseteq Seqs /\ t \in E
      /\ \A u \in E : done[u] \in Nat /\ Len(p.body[u]) \in Nat
      /\ Len(w) \in 1..Len(w) /\ Len(w) \in Nat \ {0}
  <2>1. Len(w) \in Nat \ {0}
    BY DEF Walked
  <2>q. QED
    BY <2>1, WalkedTypes
<1>2. i = done[t] + 1 /\ i \in Nat
  BY <1>1 DEF Walked
<1>3. new \in [Seqs -> Nat] /\ new[t] = i /\ \A u \in Seqs \ {t} : new[u] = done[u]
  BY <1>1, <1>2 DEF Walked
<1> HIDE DEF new
<1>4. \A j, k \in 1..Len(w) : w[j].seq = w[k].seq => j = k
  BY DEF Walked
<1>5. \A k \in 1..Len(v) : v[k].seq \in E /\ v[k].pos = new[v[k].seq] + 1
  <2> SUFFICES ASSUME NEW k \in 1..Len(w) PROVE v[k].seq \in E /\ v[k].pos = new[v[k].seq] + 1
    OBVIOUS
  <2>1. v[k].seq = w[k].seq /\ w[k].seq \in E /\ w[k].pos = done[w[k].seq] + 1
    BY DEF Walked, TopAt
  <2>2. CASE k = Len(w)
    BY <1>1, <1>2, <1>3, <2>1, <2>2 DEF TopAt
  <2>3. CASE k # Len(w)
    <3>1. k \in 1..(Len(w) - 1) /\ w[k].seq # t
      BY <1>1, <1>4, <2>3
    <3>q. QED
      BY <1>1, <1>3, <2>1, <3>1 DEF TopAt
  <2>q. QED
    BY <2>2, <2>3
<1>6. \A s \in E : /\ new[s] <= Len(p.body[s])
                   /\ new[s] = Len(p.body[s]) \/ \E k \in 1..Len(v) : v[k].seq = s
  <2> SUFFICES ASSUME NEW s \in E
               PROVE  /\ new[s] <= Len(p.body[s])
                      /\ new[s] = Len(p.body[s]) \/ \E k \in 1..Len(w) : v[k].seq = s
    OBVIOUS
  <2>1. CASE s = t
    BY <1>1, <1>3, <2>1 DEF TopAt
  <2>2. CASE s # t
    <3>1. new[s] = done[s]
      BY <1>1, <1>3, <2>2
    <3>2. /\ done[s] <= Len(p.body[s])
          /\ done[s] = Len(p.body[s]) \/ \E k \in 1..Len(w) : w[k].seq = s
      BY DEF Walked
    <3>q. QED
      BY <3>1, <3>2 DEF TopAt
  <2>q. QED
    BY <2>1, <2>2
<1>7. \A u \in E : \A j \in 1..done[u] : j \in 1..new[u]
  <2> SUFFICES ASSUME NEW u \in E, NEW j \in 1..done[u] PROVE j \in 1..new[u]
    OBVIOUS
  <2>1. new[u] = done[u] \/ (u = t /\ new[u] = done[u] + 1)
    BY <1>1, <1>2, <1>3
  <2>q. QED
    BY <1>1, <2>1
<1>8. \A u \in E : \A j \in 1..new[u] : p.body[u][j].code = "GIMPLE_BIND" => p.body[u][j].seq \in E
  <2> SUFFICES ASSUME NEW u \in E, NEW j \in 1..new[u], p.body[u][j].code = "GIMPLE_BIND" PROVE p.body[u][j].seq \in E
    OBVIOUS
  <2>1. j \in 1..done[u]
    <3>1. CASE u = t
      <4>1. j # i
        BY <3>1
      <4>q. QED
        BY <1>1, <1>2, <1>3, <3>1, <4>1
    <3>2. CASE u # t
      BY <1>1, <1>3, <3>2
    <3>q. QED
      BY <3>1, <3>2
  <2>q. QED
    BY <2>1 DEF Walked
<1>9. \A s \in E \ {f} : \E u \in E : \E j \in 1..new[u] : p.body[u][j].code = "GIMPLE_BIND" /\ p.body[u][j].seq = s
  <2> SUFFICES ASSUME NEW s \in E \ {f}
               PROVE  \E u \in E : \E j \in 1..new[u] : p.body[u][j].code = "GIMPLE_BIND" /\ p.body[u][j].seq = s
    OBVIOUS
  <2>1. PICK u \in E : \E j \in 1..done[u] : p.body[u][j].code = "GIMPLE_BIND" /\ p.body[u][j].seq = s
    BY DEF Walked
  <2>q. QED
    BY <1>7, <2>1
<1>10. v[1].seq = f /\ \A j, k \in 1..Len(v) : v[j].seq = v[k].seq => j = k
  BY <1>1, <1>4 DEF TopAt, Walked
<1>11. f \in Functions /\ E \subseteq Zeroed!Binds(p, f) /\ Len(v) \in Nat \ {0}
  BY <1>1 DEF Walked
<1>12. Walked(p, f, v, E, new)
  BY <1>3, <1>5, <1>6, <1>8, <1>9, <1>10, <1>11, Zenon DEF Walked
<1>q. QED
  BY <1>12 DEF new

\* A sequence that belongs to a statement the walk is not past is one it has not been in.
LEMMA WalkFresh ==
  ASSUME NEW p \in Program, WellFormed(p), NEW f, NEW w, NEW E, NEW done, Walked(p, f, w, E, done),
         NEW t \in Seqs, NEW i, i \notin 1..done[t] \/ t \notin E, NEW s \in Seqs, Owns(p, t, i, s)
  PROVE  s \notin E
<1> SUFFICES ASSUME s \in E PROVE FALSE
  OBVIOUS
<1>1. s # f
  <2>1. f \in Functions /\ s \notin Functions
    BY OneOwner DEF Walked
  <2>q. QED
    BY <2>1
<1>2. PICK u \in E : \E j \in 1..done[u] : p.body[u][j].code = "GIMPLE_BIND" /\ p.body[u][j].seq = s
  BY <1>1 DEF Walked
<1>3. PICK j \in 1..done[u] : p.body[u][j].code = "GIMPLE_BIND" /\ p.body[u][j].seq = s
  BY <1>2
<1>4. /\ u \in Seqs /\ p.body[u] \in Seq(Statement) /\ done[u] \in Nat /\ Len(p.body[u]) \in Nat
      /\ done[u] <= Len(p.body[u])
  <2>1. done[u] <= Len(p.body[u])
    BY DEF Walked
  <2>q. QED
    BY <2>1, WalkedTypes
<1>5. j \in DOMAIN p.body[u]
  BY <1>4
<1>6. Owns(p, u, j, s)
  BY <1>3, <1>4, <1>5 DEF Owns
<1>7. u = t /\ j = i
  BY <1>6, OneOwner
<1>q. QED
  BY <1>7

\* The next statement of a walk is a bind with s nested in it; v is the walk in s.
AtBind(p, w, t, i, s) ==
  /\ t = w[Len(w)].seq /\ i = w[Len(w)].pos /\ i <= Len(p.body[t])
  /\ p.body[t][i].code = "GIMPLE_BIND" /\ p.body[t][i].seq = s
OneMore(w, v, i, s) ==
  Len(v) = Len(w) + 1 /\ TopAt(w, v, i + 1) /\ v[Len(w) + 1].seq = s /\ v[Len(w) + 1].pos = 1

\* A walk that comes to a bind: one more walk, of a sequence it has not been in.
LEMMA WalkInto ==
  ASSUME NEW p \in Program, WellFormed(p), NEW f, NEW w, NEW E, NEW done, Walked(p, f, w, E, done),
         NEW t, NEW i, NEW s, AtBind(p, w, t, i, s), NEW v, OneMore(w, v, i, s)
  PROVE  /\ s \in Seqs \ E /\ Owns(p, t, i, s)
         /\ Walked(p, f, v, E \cup {s}, [done EXCEPT ![t] = i, ![s] = 0])
<1> DEFINE new == [done EXCEPT ![t] = i, ![s] = 0]
           F == E \cup {s}
<1> HIDE DEF new
<1> HIDE DEF F
<1>1. /\ f \in Seqs /\ f \in E /\ E \subseteq Seqs /\ t \in E /\ t \in Seqs /\ done \in [Seqs -> Nat]
      /\ \A u \in E : done[u] \in Nat /\ Len(p.body[u]) \in Nat /\ p.body[u] \in Seq(Statement)
      /\ Len(w) \in 1..Len(w) /\ Len(w) \in Nat \ {0}
      /\ \A k \in 1..Len(w) : w[k].seq \in E
  BY WalkedTypes DEF AtBind
<1>2. i = done[t] + 1 /\ i \in Nat /\ i \notin 1..done[t]
  <2>1. i = done[t] + 1
    BY WalkedTypes DEF AtBind
  <2>q. QED
    BY <1>1, <2>1
<1>3. i \in DOMAIN p.body[t] /\ p.body[t][i] \in Statement
  BY <1>1, <1>2 DEF AtBind
<1>4. s \in Seqs
  BY <1>3 DEF Statement, Nesting, AtBind
<1>5. Owns(p, t, i, s)
  BY <1>1, <1>3 DEF Owns, AtBind
<1>6. s \notin E
  <2> HIDE DEF Owns
  <2>1. i \notin 1..done[t] \/ t \notin E
    BY <1>2
  <2>q. QED
    BY <1>1, <1>4, <1>5, <2>1, WalkFresh
<1>7. s # t /\ s # f /\ new \in [Seqs -> Nat] /\ new[t] = i /\ new[s] = 0 /\ \A u \in Seqs \ {t, s} : new[u] = done[u]
  BY <1>1, <1>2, <1>4, <1>6 DEF new
<1>8. Len(p.body[s]) \in Nat
  BY <1>4 DEF Program
<1> USE DEF F
<1>9. F \subseteq Zeroed!Binds(p, f)
  <2>1. s \in Nested(p, {"GIMPLE_BIND"}, t)
    BY <1>5, OwnedNested DEF AtBind
  <2>2. E \subseteq Zeroed!Binds(p, f) /\ f \in Functions
    BY DEF Walked
  <2>3. s \in Zeroed!Binds(p, f)
    BY <1>1, <2>1, <2>2, BindsTree DEF Tree
  <2>q. QED
    BY <2>2, <2>3 DEF F
<1>10. \A j, k \in 1..Len(w) : w[j].seq = w[k].seq => j = k
  BY DEF Walked
<1>11. \A k \in 1..Len(w) : w[k].seq \in E /\ w[k].seq # s
  BY <1>1, <1>6
<1>12. /\ \A k \in 1..Len(w) : v[k].seq = w[k].seq
       /\ v[Len(w)].pos = i + 1 /\ v[Len(w) + 1].seq = s /\ v[Len(w) + 1].pos = 1
       /\ Len(v) \in Nat \ {0} /\ 1..Len(v) = (1..Len(w)) \cup {Len(w) + 1}
  BY <1>1 DEF TopAt, OneMore
<1>13. \A k \in 1..Len(v) : v[k].seq \in F /\ v[k].pos = new[v[k].seq] + 1
  <2>1. ASSUME NEW k \in 1..Len(w) PROVE v[k].seq \in F /\ v[k].pos = new[v[k].seq] + 1
    <3>1. v[k].seq = w[k].seq /\ w[k].seq \in E /\ w[k].pos = done[w[k].seq] + 1 /\ w[k].seq # s
      BY <1>11, <1>12 DEF Walked
    <3>2. CASE k = Len(w)
      <4>1. w[Len(w)].seq = t /\ v[k].seq = t /\ v[k].pos = i + 1
        BY <1>12, <3>1, <3>2 DEF AtBind
      <4>q. QED
        BY <1>1, <1>7, <4>1
    <3>3. CASE k # Len(w)
      <4>1. k \in 1..(Len(w) - 1) /\ w[k].seq # t
        <5>1. w[Len(w)].seq = t
          BY DEF AtBind
        <5>q. QED
          BY <1>1, <1>10, <3>3, <5>1
      <4>q. QED
        BY <1>1, <1>7, <1>12, <3>1, <4>1 DEF TopAt, OneMore
    <3>q. QED
      BY <3>2, <3>3
  <2>2. v[Len(w) + 1].seq \in F /\ v[Len(w) + 1].pos = new[v[Len(w) + 1].seq] + 1
    <3>1. v[Len(w) + 1].seq = s /\ v[Len(w) + 1].pos = 1 /\ new[s] = 0 /\ s \in F
      BY <1>7, <1>12
    <3>q. QED
      BY <3>1
  <2>q. QED
    BY <1>12, <2>1, <2>2
<1>14. \A j, k \in 1..Len(v) : v[j].seq = v[k].seq => j = k
  <2> SUFFICES ASSUME NEW j \in 1..Len(v), NEW k \in 1..Len(v), v[j].seq = v[k].seq PROVE j = k
    OBVIOUS
  <2>1. CASE j \in 1..Len(w) /\ k \in 1..Len(w)
    <3>1. w[j].seq = w[k].seq
      BY <1>12, <2>1
    <3>q. QED
      BY <1>10, <2>1, <3>1
  <2>2. CASE j = Len(w) + 1 /\ k = Len(w) + 1
    BY <2>2
  <2>3. CASE j \in 1..Len(w) /\ k = Len(w) + 1
    BY <1>11, <1>12, <2>3
  <2>4. CASE j = Len(w) + 1 /\ k \in 1..Len(w)
    BY <1>11, <1>12, <2>4
  <2>q. QED
    BY <1>12, <2>1, <2>2, <2>3, <2>4
<1>15. \A u \in F : /\ new[u] <= Len(p.body[u])
                    /\ new[u] = Len(p.body[u]) \/ \E k \in 1..Len(v) : v[k].seq = u
  <2> SUFFICES ASSUME NEW u \in F
               PROVE  /\ new[u] <= Len(p.body[u])
                      /\ new[u] = Len(p.body[u]) \/ \E k \in 1..Len(v) : v[k].seq = u
    OBVIOUS
  <2>1. CASE u = t
    <3>1. Len(w) \in 1..Len(v) /\ v[Len(w)].seq = t
      BY <1>1, <1>12 DEF AtBind
    <3>2. i <= Len(p.body[t])
      BY DEF AtBind
    <3>q. QED
      BY <1>7, <2>1, <3>1, <3>2
  <2>2. CASE u = s
    <3>1. new[u] = 0 /\ Len(p.body[u]) \in Nat
      BY <1>7, <1>8, <2>2
    <3>2. Len(w) + 1 \in 1..Len(v) /\ v[Len(w) + 1].seq = u
      BY <1>12, <2>2
    <3>q. QED
      BY <3>1, <3>2
  <2>3. CASE u # s /\ u # t
    <3>1. new[u] = done[u] /\ u \in E
      BY <1>1, <1>7, <2>3
    <3>2. /\ done[u] <= Len(p.body[u])
          /\ done[u] = Len(p.body[u]) \/ \E k \in 1..Len(w) : w[k].seq = u
      BY <3>1 DEF Walked
    <3>q. QED
      BY <3>1, <3>2, <1>12
  <2>q. QED
    BY <2>1, <2>2, <2>3
<1>16. \A u \in E : \A j \in 1..done[u] : j \in 1..new[u]
  <2> SUFFICES ASSUME NEW u \in E, NEW j \in 1..done[u] PROVE j \in 1..new[u]
    OBVIOUS
  <2>1. new[u] = done[u] \/ (u = t /\ new[u] = done[u] + 1)
    BY <1>1, <1>2, <1>6, <1>7
  <2>q. QED
    BY <1>1, <2>1
<1>17. \A u \in F : \A j \in 1..new[u] : p.body[u][j].code = "GIMPLE_BIND" => p.body[u][j].seq \in F
  <2> SUFFICES ASSUME NEW u \in F, NEW j \in 1..new[u], p.body[u][j].code = "GIMPLE_BIND"
               PROVE  p.body[u][j].seq \in F
    OBVIOUS
  <2>1. u # s /\ u \in E
    <3>1. u = s => 1..new[u] = {}
      BY <1>7
    <3>q. QED
      BY <3>1
  <2>2. CASE u = t /\ j = i
    BY <2>2 DEF AtBind
  <2>3. CASE ~(u = t /\ j = i)
    <3>1. j \in 1..done[u]
      <4>1. CASE u = t
        <5>1. j \in 1..i /\ j # i /\ done[u] = i - 1 /\ i \in Nat
          BY <1>1, <1>2, <1>7, <2>3, <4>1
        <5>q. QED
          BY <5>1
      <4>2. CASE u # t
        BY <1>1, <1>7, <2>1, <4>2
      <4>q. QED
        BY <4>1, <4>2
    <3>q. QED
      BY <2>1, <3>1 DEF Walked
  <2>q. QED
    BY <2>2, <2>3
<1>18. \A r \in F \ {f} : \E u \in F : \E j \in 1..new[u] : p.body[u][j].code = "GIMPLE_BIND" /\ p.body[u][j].seq = r
  <2> SUFFICES ASSUME NEW r \in F \ {f}
               PROVE  \E u \in F : \E j \in 1..new[u] : p.body[u][j].code = "GIMPLE_BIND" /\ p.body[u][j].seq = r
    OBVIOUS
  <2>1. CASE r = s
    <3>1. i \in 1..new[t]
      <4>1. i \in Nat /\ i # 0 /\ new[t] = i
        BY <1>1, <1>2, <1>7
      <4>q. QED
        BY <4>1
    <3>q. QED
      BY <1>1, <2>1, <3>1 DEF AtBind
  <2>2. CASE r # s
    <3>1. PICK u \in E : \E j \in 1..done[u] : p.body[u][j].code = "GIMPLE_BIND" /\ p.body[u][j].seq = r
      BY <2>2 DEF Walked
    <3>q. QED
      BY <1>16, <3>1
  <2>q. QED
    BY <2>1, <2>2
<1>19. f \in Functions /\ v[1].seq = f
  <2>1. f \in Functions /\ w[1].seq = f
    BY WalkedTypes
  <2>q. QED
    BY <1>1, <1>12, <2>1
<1> HIDE DEF F
<1>20. Walked(p, f, v, F, new)
  BY <1>7, <1>9, <1>12, <1>13, <1>14, <1>15, <1>17, <1>18, <1>19, Zenon DEF Walked
<1>q. QED
  BY <1>4, <1>5, <1>6, <1>20 DEF new, F

\* A walk of a nested sequence that returns.
LEMMA WalkBack ==
  ASSUME NEW p \in Program, NEW f, NEW w, NEW E, NEW done, Walked(p, f, w, E, done),
         NEW t, t = w[Len(w)].seq, ~(w[Len(w)].pos <= Len(p.body[t])), Len(w) # 1,
         NEW v, Len(v) = Len(w) - 1, \A k \in 1..Len(v) : v[k] = w[k]
  PROVE  Walked(p, f, v, E, done)
<1>1. /\ t \in E /\ Len(w) \in Nat \ {0} /\ Len(w) \in 1..Len(w)
      /\ done[t] \in Nat /\ Len(p.body[t]) \in Nat
      /\ w[Len(w)].pos = done[t] + 1 /\ done[t] <= Len(p.body[t])
      /\ f \in Functions /\ w[1].seq = f /\ E \subseteq Zeroed!Binds(p, f) /\ done \in [Seqs -> Nat]
  BY WalkedTypes
<1>2. done[t] = Len(p.body[t])
  BY <1>1
<1>3. Len(v) \in Nat \ {0} /\ v[1] = w[1] /\ \A k \in 1..Len(v) : k \in 1..Len(w)
  BY <1>1
<1>4. \A k \in 1..Len(v) : v[k].seq \in E /\ v[k].pos = done[v[k].seq] + 1
  BY <1>3 DEF Walked
<1>5. \A j, k \in 1..Len(v) : v[j].seq = v[k].seq => j = k
  <2>1. \A j, k \in 1..Len(w) : w[j].seq = w[k].seq => j = k
    BY DEF Walked
  <2>q. QED
    BY <1>3, <2>1
<1>6. \A s \in E : /\ done[s] <= Len(p.body[s])
                   /\ done[s] = Len(p.body[s]) \/ \E k \in 1..Len(v) : v[k].seq = s
  <2> SUFFICES ASSUME NEW s \in E
               PROVE  /\ done[s] <= Len(p.body[s])
                      /\ done[s] = Len(p.body[s]) \/ \E k \in 1..Len(v) : v[k].seq = s
    OBVIOUS
  <2>1. /\ done[s] <= Len(p.body[s])
        /\ done[s] = Len(p.body[s]) \/ \E k \in 1..Len(w) : w[k].seq = s
    BY DEF Walked
  <2>2. CASE s = t
    BY <1>2, <2>1, <2>2
  <2>3. CASE s # t
    <3>1. ASSUME NEW k \in 1..Len(w), w[k].seq = s PROVE k \in 1..Len(v) /\ v[k].seq = s
      <4>1. k # Len(w)
        BY <2>3, <3>1
      <4>q. QED
        BY <1>1, <3>1, <4>1
    <3>q. QED
      BY <2>1, <3>1
  <2>q. QED
    BY <2>2, <2>3
<1>7. v[1].seq = f
  BY <1>1, <1>3
<1>q. QED
  BY <1>1, <1>3, <1>4, <1>5, <1>6, <1>7, Zenon DEF Walked

\* A walk whose outermost sequence is at its end has been in all binds and past all statements.
LEMMA WalkOver ==
  ASSUME NEW p \in Program, NEW f, NEW w, NEW E, NEW done, Walked(p, f, w, E, done),
         Len(w) = 1, ~(w[1].pos <= Len(p.body[f]))
  PROVE  E = Zeroed!Binds(p, f) /\ \A t \in E : done[t] = Len(p.body[t])
<1>1. f \in Functions /\ f \in E /\ E \subseteq Seqs /\ E \subseteq Zeroed!Binds(p, f) /\ w[1].seq = f
  BY WalkedTypes
<1>2. ASSUME NEW t \in E PROVE done[t] = Len(p.body[t])
  <2>1. /\ done[t] <= Len(p.body[t]) /\ done[t] \in Nat /\ Len(p.body[t]) \in Nat
        /\ done[t] = Len(p.body[t]) \/ t = f
    <3>1. done[t] = Len(p.body[t]) \/ \E k \in 1..Len(w) : w[k].seq = t
      BY DEF Walked
    <3>2. done[t] <= Len(p.body[t])
      BY DEF Walked
    <3>3. done[t] \in Nat /\ Len(p.body[t]) \in Nat
      BY WalkedTypes
    <3>4. \A k \in 1..Len(w) : k = 1
      OBVIOUS
    <3>q. QED
      BY <1>1, <3>1, <3>2, <3>3, <3>4
  <2>2. 1 \in 1..Len(w) /\ w[1].pos = done[f] + 1
    BY <1>1 DEF Walked
  <2>q. QED
    BY <2>1, <2>2
<1>3. ASSUME NEW t \in E, NEW s \in Nested(p, {"GIMPLE_BIND"}, t) PROVE s \in E
  <2>1. t \in Seqs
    BY <1>1
  <2>2. PICK i \in 1..Len(p.body[t]) : Owns(p, t, i, s) /\ p.body[t][i].code \in {"GIMPLE_BIND"}
    BY <2>1, NestedOwned
  <2>3. p.body[t][i].code = "GIMPLE_BIND" /\ p.body[t][i].seq = s /\ i \in 1..done[t]
    BY <1>2, <2>2 DEF Owns
  <2>q. QED
    BY <2>3 DEF Walked
<1>4. Tree(p, {"GIMPLE_BIND"}, f, Zeroed!Binds(p, f))
  BY <1>1, BindsTree
<1>5. f \in E /\ \A t \in E \cap Seqs : Nested(p, {"GIMPLE_BIND"}, t) \subseteq E
  BY <1>1, <1>3
<1>6. Zeroed!Binds(p, f) \subseteq E
  BY <1>4, <1>5 DEF Tree
<1>q. QED
  BY <1>1, <1>2, <1>6

-----------------------------------------------------------------------------
(* What a walk gathers *)

\* An assignment the walk is past names d.
SetBefore(p, E, done, d) ==
  \E t \in E : \E i \in 1..done[t] : p.body[t][i].code = "GIMPLE_ASSIGN" /\ p.body[t][i].lhs = d
DeclaredIn(p, E) == UNION {ElementsOf(p.vars[s]) : s \in E}
Gathered(p, E, done) == {d \in Named(DeclaredIn(p, E)) : ~SetBefore(p, E, done, d)}

\* A function's own sequence declares nothing: the gathered set is empty at the start.
LEMMA GatheredStart ==
  ASSUME NEW p, WellFormed(p), NEW f \in Functions
  PROVE  Gathered(p, {f}, [s \in Seqs |-> 0]) = {}
<1>1. p.vars[f] = <<>>
  BY DEF WellFormed
<1>2. ElementsOf(p.vars[f]) = {}
  BY <1>1 DEF ElementsOf
<1>3. DeclaredIn(p, {f}) = {}
  BY <1>2 DEF DeclaredIn
<1>q. QED
  BY <1>3 DEF Gathered, Named

\* Past one more statement.
IsNext(E, done, t, i) == E \subseteq Seqs /\ done \in [Seqs -> Nat] /\ t \in E /\ i = done[t] + 1

\* Past the next statement, what it assigns is set too.
LEMMA SetBeforeOn ==
  ASSUME NEW p, NEW E, NEW done, NEW t, NEW i, IsNext(E, done, t, i), NEW d
  PROVE  SetBefore(p, E, [done EXCEPT ![t] = i], d) <=>
           SetBefore(p, E, done, d) \/ (p.body[t][i].code = "GIMPLE_ASSIGN" /\ p.body[t][i].lhs = d)
<1> DEFINE new == [done EXCEPT ![t] = i]
           Hit(u, j) == p.body[u][j].code = "GIMPLE_ASSIGN" /\ p.body[u][j].lhs = d
<1>1. t \in E /\ new[t] = i /\ i \in Nat /\ i >= 1 /\ done[t] \in Nat /\ \A u \in E \ {t} : new[u] = done[u]
  BY DEF IsNext
<1>0. i = done[t] + 1
  BY DEF IsNext
<1> HIDE DEF new
<1>2. \A j : j \in 1..new[t] <=> j \in 1..done[t] \/ j = i
  <2>1. new[t] = done[t] + 1
    BY <1>0, <1>1
  <2>2. \A n \in Nat : \A j : j \in 1..(n + 1) <=> j \in 1..n \/ j = n + 1
    OBVIOUS
  <2>q. QED
    BY <1>0, <1>1, <2>1, <2>2
<1> HIDE DEF Hit
<1>3. (\E u \in E : \E j \in 1..new[u] : Hit(u, j)) <=> (\E u \in E : \E j \in 1..done[u] : Hit(u, j)) \/ Hit(t, i)
  <2>1. ASSUME NEW u \in E, NEW j \in 1..new[u], Hit(u, j)
        PROVE  (\E r \in E : \E k \in 1..done[r] : Hit(r, k)) \/ Hit(t, i)
    BY <1>1, <1>2, <2>1
  <2>2. ASSUME NEW u \in E, NEW j \in 1..done[u], Hit(u, j)
        PROVE  \E r \in E : \E k \in 1..new[r] : Hit(r, k)
    <3>1. j \in 1..new[u]
      BY <1>1, <1>2
    <3>q. QED
      BY <2>2, <3>1
  <2>3. ASSUME Hit(t, i) PROVE \E r \in E : \E k \in 1..new[r] : Hit(r, k)
    BY <1>1, <1>2, <2>3
  <2>q. QED
    BY <2>1, <2>2, <2>3
<1>q. QED
  BY <1>3 DEF SetBefore, Hit, new

\* How far the walk is, past statement i of t, and into s too.
PastOne(done, t, i, new)    == new = [done EXCEPT ![t] = i]
PastInto(done, t, i, s, new) == new = [done EXCEPT ![t] = i, ![s] = 0]

\* The set before and after statement i of t.
SetAfter(p, t, i, old, set) ==
  set = IF p.body[t][i].code = "GIMPLE_ASSIGN" THEN old \ Named({p.body[t][i].lhs}) ELSE old

AtStmt(w, t, i) == t = w[Len(w)].seq /\ i = w[Len(w)].pos

\* Past a statement, the gathered set loses what the statement assigns.
LEMMA GatheredOn ==
  ASSUME NEW p \in Program, NEW f, NEW w, NEW E, NEW done, Walked(p, f, w, E, done),
         NEW t, NEW i, AtStmt(w, t, i), NEW new, PastOne(done, t, i, new)
  PROVE  SetAfter(p, t, i, Gathered(p, E, done), Gathered(p, E, new))
<1>1. IsNext(E, done, t, i)
  BY WalkedTypes DEF IsNext, AtStmt
<1>2. ASSUME NEW d
      PROVE  SetBefore(p, E, [done EXCEPT ![t] = i], d) <=>
               SetBefore(p, E, done, d) \/ (p.body[t][i].code = "GIMPLE_ASSIGN" /\ p.body[t][i].lhs = d)
  BY <1>1, SetBeforeOn
<1>3. \A d : SetBefore(p, E, new, d) <=>
           SetBefore(p, E, done, d) \/ (p.body[t][i].code = "GIMPLE_ASSIGN" /\ p.body[t][i].lhs = d)
  BY <1>2 DEF PastOne
<1>4. /\ p.body[t][i].code # "GIMPLE_ASSIGN" => Gathered(p, E, new) = Gathered(p, E, done)
      /\ p.body[t][i].code = "GIMPLE_ASSIGN" => Gathered(p, E, new) = Gathered(p, E, done) \ Named({p.body[t][i].lhs})
  BY <1>3 DEF Gathered, Named
<1>q. QED
  BY <1>4 DEF SetAfter

\* Into a bind: no statement the walk is past names a declaration of the bind.
LEMMA GatheredInto ==
  ASSUME NEW p \in Program, WellFormed(p), NEW f, NEW w, NEW E, NEW done, Walked(p, f, w, E, done),
         NEW t, NEW i, NEW s, AtBind(p, w, t, i, s), NEW v, OneMore(w, v, i, s),
         NEW new, PastInto(done, t, i, s, new)
  PROVE  Gathered(p, E \cup {s}, new) =
           insert_vars(Gathered(p, E, done), p.vars[s])
<1> DEFINE cs == {"GIMPLE_BIND", "GIMPLE_TRY"}
           R == Within(p, cs, s)[Cardinality(Seqs)]
           X == Seqs \ E
<1>1. s \in Seqs \ E /\ Owns(p, t, i, s)
  BY WalkInto
<1>2. /\ E \subseteq Seqs /\ done \in [Seqs -> Nat] /\ t \in E /\ i = done[t] + 1
      /\ \A u \in E : done[u] \in Nat /\ Len(p.body[u]) \in Nat /\ p.body[u] \in Seq(Statement) /\
                  done[u] <= Len(p.body[u])
  BY WalkedTypes DEF AtBind
<1>3. Tree(p, cs, s, R)
  BY <1>1, WithinTree DEF Nesting
<1> HIDE DEF R
<1>4. ASSUME NEW u \in X, NEW r \in Nested(p, cs, u) PROVE r \in X
  <2>1. PICK j : r \in Seqs /\ Owns(p, u, j, r)
    BY NestedOwned
  <2>2. u \notin E /\ u \in Seqs
    OBVIOUS
  <2>3. r \notin E
    <3> HIDE DEF X
    <3>q. QED
      BY <2>1, <2>2, WalkFresh
  <2>q. QED
    BY <2>1, <2>3
<1>5. R \subseteq X
  <2> HIDE DEF X
  <2>1. s \in X
    BY <1>1 DEF X
  <2>2. \A u \in X \cap Seqs : Nested(p, cs, u) \subseteq X
    BY <1>4
  <2>q. QED
    BY <1>3, <2>1, <2>2 DEF Tree
<1>6. ASSUME NEW d \in ElementsOf(p.vars[s]) PROVE ~SetBefore(p, E, done, d)
  <2> SUFFICES ASSUME NEW u \in E, NEW j \in 1..done[u], p.body[u][j].lhs = d PROVE FALSE
    BY DEF SetBefore
  <2>1. p.body[u][j] \in ElementsOf(p.body[u])
    BY <1>2 DEF ElementsOf
  <2>2. u \in Seqs /\ u \notin R
    BY <1>2, <1>5
  <2>3. ElementsOf(p.vars[s]) \cap ({p.body[u][j].lhs} \cup p.body[u][j].uses) # {}
    OBVIOUS
  <2>4. \A b, r \in Seqs : \A st \in ElementsOf(p.body[r]) :
          ElementsOf(p.vars[b]) \cap ({st.lhs} \cup st.uses) # {} => r \in Within(p, cs, b)[Cardinality(Seqs)]
    BY DEF WellFormed
  <2>5. u \in Within(p, cs, s)[Cardinality(Seqs)]
    <3> HIDE DEF cs
    <3>q. QED
      BY <1>1, <2>1, <2>2, <2>3, <2>4
  <2>q. QED
    BY <2>2, <2>5 DEF R
<1>7. \A d : SetBefore(p, E \cup {s}, new, d) <=> SetBefore(p, E, done, d)
  <2>1. p.body[t][i].code # "GIMPLE_ASSIGN" /\ t # s
    BY <1>1, <1>2 DEF AtBind
  <2> DEFINE mid == [done EXCEPT ![t] = i]
  <2>2. \A d : SetBefore(p, E, mid, d) <=> SetBefore(p, E, done, d)
    <3>1. \A d : SetBefore(p, E, [done EXCEPT ![t] = i], d) <=>
           SetBefore(p, E, done, d) \/ (p.body[t][i].code = "GIMPLE_ASSIGN" /\ p.body[t][i].lhs = d)
      <4>1. IsNext(E, done, t, i)
        BY <1>2 DEF IsNext
      <4>q. QED
        BY <4>1, SetBeforeOn
    <3>q. QED
      BY <2>1, <3>1
  <2>3. new[s] = 0 /\ \A u \in E : new[u] = mid[u]
    BY <1>1, <1>2, <2>1 DEF PastInto
  <2> HIDE DEF mid
  <2>4. 1..new[s] = {}
    BY <2>3
  <2>5. \A d : SetBefore(p, E \cup {s}, new, d) <=> SetBefore(p, E, mid, d)
    BY <2>3, <2>4 DEF SetBefore
  <2>q. QED
    BY <2>2, <2>5
<1>8. DeclaredIn(p, E \cup {s}) = DeclaredIn(p, E) \cup ElementsOf(p.vars[s])
  BY DEF DeclaredIn
<1>9. Gathered(p, E \cup {s}, new) = insert_vars(Gathered(p, E, done), p.vars[s])
  BY <1>6, <1>7, <1>8 DEF Gathered, insert_vars, Named
<1>q. QED
  BY <1>9

\* A walk that has been everywhere.
LEMMA GatheredOver ==
  ASSUME NEW p \in Program, NEW f \in Functions, NEW E, NEW done,
         E = Zeroed!Binds(p, f), \A t \in E : done[t] = Len(p.body[t])
  PROVE  Gathered(p, E, done) = Zeroed!NeverAssigned(p, f)
<1>1. E \subseteq Seqs
  BY BindsTree DEF Tree
<1>2. DeclaredIn(p, E) = Zeroed!Declared(p, f)
  BY DEF DeclaredIn, Zeroed!Declared, ElementsOf, Zeroed!ElementsOf
<1>3. ASSUME NEW d PROVE SetBefore(p, E, done, d) <=> d \in Zeroed!Assigned(p, f)
  <2>1. ASSUME NEW t \in E PROVE ElementsOf(p.body[t]) = {p.body[t][i] : i \in 1..done[t]}
    <3>1. p.body[t] \in Seq(Statement)
      BY <1>1 DEF Program
    <3>q. QED
      BY <3>1 DEF ElementsOf
  <2>2. Zeroed!Assigned(p, f) =
          {st.lhs : st \in {x \in UNION {ElementsOf(p.body[b]) : b \in E} : x.code = "GIMPLE_ASSIGN"}}
    BY DEF Zeroed!Assigned, ElementsOf, Zeroed!ElementsOf
  <2>3. d \in Zeroed!Assigned(p, f) <=>
          \E b \in E : \E st \in ElementsOf(p.body[b]) : st.code = "GIMPLE_ASSIGN" /\ st.lhs = d
    BY <2>2
  <2>q. QED
    <3>1. ASSUME NEW t \in E, NEW i \in 1..done[t] PROVE p.body[t][i] \in ElementsOf(p.body[t])
      BY <2>1
    <3>2. ASSUME NEW t \in E, NEW st \in ElementsOf(p.body[t]) PROVE \E i \in 1..done[t] : st = p.body[t][i]
      BY <2>1
    <3>3. SetBefore(p, E, done, d) => d \in Zeroed!Assigned(p, f)
      BY <2>3, <3>1 DEF SetBefore
    <3>4. d \in Zeroed!Assigned(p, f) => SetBefore(p, E, done, d)
      <4> SUFFICES ASSUME NEW t \in E, NEW st \in ElementsOf(p.body[t]), st.code = "GIMPLE_ASSIGN", st.lhs = d
                   PROVE  SetBefore(p, E, done, d)
        BY <2>3
      <4>1. PICK i \in 1..done[t] : st = p.body[t][i]
        BY <3>2
      <4>q. QED
        BY <4>1 DEF SetBefore
    <3>q. QED
      BY <3>3, <3>4
<1>q. QED
  BY <1>2, <1>3 DEF Gathered, Named, Zeroed!NeverAssigned

-----------------------------------------------------------------------------
(* The pass on its way *)

OnWalk(s)     == \E k \in 1..Len(walk) : walk[k].seq = s
InCompiled(s) == \E g \in compiled : s \in Zeroed!Binds(prog, g)
ZeroIn(s, d)  == \E j \in 1..Len(body[s]) : body[s][j] = AssignZero(d)

\* The statements that differ from the program's: of compiled functions, and of sequences the
\* second walk is through with.
Touched(E) ==
  \A s \in Seqs : body[s] # prog.body[s] => InCompiled(s) \/ (phase = "assign" /\ s \in E /\ ~OnWalk(s))

WalkHeld(E, done) == phase # "idle" => fun \notin compiled /\ Walked(prog, fun, walk, E, done)
SetHeld(E, done) ==
  /\ phase = "gather" => uninitialised_vars = Gathered(prog, E, done)
  /\ phase = "assign" => uninitialised_vars = Zeroed!NeverAssigned(prog, fun)

\* The zeros that are in place, and those that are collected in the frames.
CompiledZeroed ==
  \A f \in compiled : \A s \in Zeroed!Binds(prog, f) :
    \A d \in ElementsOf(prog.vars[s]) \cap Zeroed!NeverAssigned(prog, f) : ZeroIn(s, d)
SeqsZeroed(E) ==
  phase = "assign" =>
    \A s \in E : OnWalk(s) \/ \A d \in ElementsOf(prog.vars[s]) \cap uninitialised_vars : ZeroIn(s, d)
CollectedFor(f) ==
  \A c \in DOMAIN prog.vars[f.seq] :
    c < f.chain /\ prog.vars[f.seq][c] \in uninitialised_vars =>
      \E j \in 1..Len(f.inits) : f.inits[j] = AssignZero(prog.vars[f.seq][c])
Collected == phase = "assign" => \A k \in 1..Len(walk) : CollectedFor(walk[k])

PassHeld(E, done) ==
  /\ prog \in Programs
  /\ WalkHeld(E, done) /\ Touched(E) /\ SetHeld(E, done)
  /\ CompiledZeroed /\ SeqsZeroed(E) /\ Collected

\* The program is one the front end delivers.
LEMMA ProgramNow ==
  ASSUME NEW E, NEW done, PassHeld(E, done)
  PROVE  prog \in Program /\ WellFormed(prog)
BY ProgramsAssumption DEF PassHeld

\* The walk moved past a statement, and into a bind.
LEMMA AdvancedFrames ==
  ASSUME walk \in Seq(Frame), walk # <<>>
  PROVE  /\ Len(Advanced) = Len(walk) /\ Len(walk) \in Nat \ {0} /\ TopAt(walk, Advanced, Top.pos + 1)
         /\ \A k \in 1..Len(walk) : /\ Advanced[k].seq = walk[k].seq /\ Advanced[k].chain = walk[k].chain
                                    /\ Advanced[k].inits = walk[k].inits
                                    /\ Advanced[k].bind_body = walk[k].bind_body
<1>1. Len(Advanced) = Len(walk) /\ Len(walk) \in Nat \ {0}
  BY DEF Advanced
<1>2. ASSUME NEW i \in 1..Len(walk)
      PROVE  /\ Advanced[i].seq = walk[i].seq /\ Advanced[i].inits = walk[i].inits
             /\ Advanced[i].chain = walk[i].chain /\ Advanced[i].bind_body = walk[i].bind_body
             /\ Advanced[i].pos = IF i = Len(walk) THEN walk[i].pos + 1 ELSE walk[i].pos
  <2>1. walk[i] \in Frame
    OBVIOUS
  <2>2. Advanced[i] = IF i = Len(walk) THEN [walk[i] EXCEPT !.pos = @ + 1] ELSE walk[i]
    BY DEF Advanced
  <2>q. QED
    BY <2>1, <2>2 DEF Frame
<1>3. TopAt(walk, Advanced, Top.pos + 1)
  <2>1. Len(walk) \in 1..Len(walk) /\ \A k \in 1..(Len(walk) - 1) : k \in 1..Len(walk) /\ k # Len(walk)
    BY <1>1
  <2>q. QED
    BY <1>2, <2>1 DEF TopAt, Top
<1>q. QED
  BY <1>1, <1>2, <1>3

Longer(v, s) ==
  /\ Len(v) = Len(walk) + 1 /\ Len(walk) \in Nat \ {0} /\ v[Len(walk) + 1] = NewFrame(s)
  /\ \A k \in 1..Len(walk) : /\ v[k].seq = walk[k].seq /\ v[k].chain = walk[k].chain
                             /\ v[k].inits = walk[k].inits /\ v[k].bind_body = walk[k].bind_body

\* The frames of a walk that has entered a bind.
LEMMA IntoFrames ==
  ASSUME walk \in Seq(Frame), walk # <<>>, NEW s, NEW v, v = Append(Advanced, NewFrame(s))
  PROVE  OneMore(walk, v, Top.pos, s) /\ Longer(v, s)
<1>1. Advanced \in Seq(Frame) /\ Len(Advanced) = Len(walk) /\ Len(walk) \in Nat \ {0}
  BY AdvancedFrames, TopType
<1>2. Len(v) = Len(walk) + 1 /\ v[Len(walk) + 1] = NewFrame(s) /\ \A k \in 1..Len(walk) : v[k] = Advanced[k]
  BY <1>1
<1>3. TopAt(walk, v, Top.pos + 1)
  <2>1. Len(walk) \in 1..Len(walk) /\ \A k \in 1..(Len(walk) - 1) : k \in 1..Len(walk)
    BY <1>1
  <2>2. TopAt(walk, Advanced, Top.pos + 1)
    BY AdvancedFrames
  <2>q. QED
    BY <1>2, <2>1, <2>2 DEF TopAt
<1>4. OneMore(walk, v, Top.pos, s)
  BY <1>2, <1>3 DEF OneMore, NewFrame
<1>5. Longer(v, s)
  BY <1>1, <1>2, AdvancedFrames DEF Longer
<1>q. QED
  BY <1>4, <1>5

\* The sequences that are walked still have the program's statements.
LEMMA OnWalkKept ==
  ASSUME TypeOK, NEW E, NEW done, PassHeld(E, done), phase # "idle", NEW s, OnWalk(s)
  PROVE  s \in E /\ s \in Seqs /\ body[s] = prog.body[s]
<1>1. prog \in Program /\ WellFormed(prog) /\ Walked(prog, fun, walk, E, done) /\ fun \notin compiled
  BY ProgramNow DEF PassHeld, WalkHeld
<1>2. s \in E /\ s \in Seqs /\ s \in Zeroed!Binds(prog, fun) /\ fun \in Functions
  BY <1>1, WalkedTypes DEF OnWalk
<1>3. ASSUME NEW g \in compiled, s \in Zeroed!Binds(prog, g) PROVE FALSE
  <2>1. g \in Functions /\ g # fun
    BY <1>1 DEF TypeOK
  <2>q. QED
    BY <1>1, <1>2, <1>3, <2>1, TreesApart
<1>q. QED
  BY <1>2, <1>3 DEF PassHeld, Touched, InCompiled

\* The sequence at the top of the walk is untouched so far: its statements are the program's.
LEMMA StatementNow ==
  ASSUME TypeOK, NEW E, NEW done, PassHeld(E, done), phase # "idle", walk # <<>>
  PROVE  /\ Top.seq \in E /\ Top.seq \in Seqs /\ body[Top.seq] = prog.body[Top.seq]
         /\ AtStmt(walk, Top.seq, Top.pos)
         /\ HasStmt => Top.pos <= Len(prog.body[Top.seq]) /\ Stmt = prog.body[Top.seq][Top.pos]
<1>1. Len(walk) \in 1..Len(walk)
  BY TopType DEF TypeOK
<1>2. OnWalk(Top.seq)
  BY <1>1 DEF OnWalk, Top
<1>q. QED
  BY <1>2, OnWalkKept DEF AtStmt, Top, HasStmt, Stmt

\* Steps that change no statement.
LEMMA PlacesKept ==
  ASSUME NEW E, NEW done, PassHeld(E, done), UNCHANGED <<prog, body, phase, fun, compiled>>,
         phase = "assign" => uninitialised_vars' = uninitialised_vars,
         NEW F, E \subseteq F,
         phase = "assign" => /\ \A s \in E : OnWalk(s) <=> OnWalk(s)'
                             /\ \A s \in F \ E : OnWalk(s)'
  PROVE  (prog \in Programs)' /\ Touched(F)' /\ CompiledZeroed' /\ SeqsZeroed(F)'
<1>1. prog \in Programs /\ Touched(E) /\ CompiledZeroed /\ SeqsZeroed(E)
  BY DEF PassHeld
<1>2. \A s : InCompiled(s)' <=> InCompiled(s)
  BY DEF InCompiled
<1>3. \A s, d : ZeroIn(s, d)' <=> ZeroIn(s, d)
  BY DEF ZeroIn
<1>4. Touched(F)'
  <2> SUFFICES ASSUME NEW s \in Seqs, body'[s] # prog'.body[s]
               PROVE  InCompiled(s)' \/ (phase' = "assign" /\ s \in F /\ ~OnWalk(s)')
    BY DEF Touched
  <2>1. InCompiled(s) \/ (phase = "assign" /\ s \in E /\ ~OnWalk(s))
    BY <1>1 DEF Touched
  <2>q. QED
    BY <1>2, <2>1
<1>5. CompiledZeroed'
  <2> SUFFICES ASSUME NEW f \in compiled, NEW s \in Zeroed!Binds(prog, f),
                      NEW d \in ElementsOf(prog.vars[s]) \cap Zeroed!NeverAssigned(prog, f)
               PROVE  ZeroIn(s, d)'
    BY DEF CompiledZeroed
  <2>1. ZeroIn(s, d)
    BY <1>1 DEF CompiledZeroed
  <2>q. QED
    BY <1>3, <2>1
<1>6. SeqsZeroed(F)'
  <2> SUFFICES ASSUME phase = "assign", NEW s \in F, ~OnWalk(s)',
                      NEW d \in ElementsOf(prog.vars[s]) \cap uninitialised_vars
               PROVE  ZeroIn(s, d)'
    BY DEF SeqsZeroed
  <2>1. s \in E /\ ~OnWalk(s)
    OBVIOUS
  <2>2. ZeroIn(s, d)
    BY <1>1, <2>1 DEF SeqsZeroed
  <2>q. QED
    BY <1>3, <2>2
<1>q. QED
  BY <1>1, <1>4, <1>5, <1>6

\* The zeros that are collected for frames that keep their place in the chain.
LEMMA CollectedSame ==
  ASSUME NEW k, CollectedFor(walk[k]), prog' = prog, uninitialised_vars' = uninitialised_vars,
         walk'[k].seq = walk[k].seq, walk'[k].chain = walk[k].chain, walk'[k].inits = walk[k].inits
  PROVE  CollectedFor(walk[k])'
BY DEF CollectedFor

\* Past a statement that is no bind, in either walk.
LEMMA OnHeld ==
  ASSUME TypeOK, NEW E, NEW done, PassHeld(E, done), phase # "idle", HasStmt,
         Stmt.code # "GIMPLE_BIND", walk' = Advanced, UNCHANGED <<prog, body, phase, fun, compiled>>,
         uninitialised_vars' = IF phase = "gather" /\ Stmt.code = "GIMPLE_ASSIGN"
                               THEN erase_if_initialised_lhs(uninitialised_vars, Stmt.lhs)
                               ELSE uninitialised_vars
  PROVE  \E new : PassHeld(E, new)'
<1>0. walk \in Seq(Frame) /\ walk # <<>> /\ phase \in {"idle", "gather", "assign"}
  BY DEF TypeOK, HasStmt
<1>1. prog \in Program /\ WellFormed(prog) /\ Walked(prog, fun, walk, E, done) /\ fun \notin compiled
  BY ProgramNow DEF PassHeld, WalkHeld
<1>2. PICK t, i : t = Top.seq /\ i = Top.pos
  OBVIOUS
<1>3. AtStmt(walk, t, i) /\ i <= Len(prog.body[t]) /\ Stmt = prog.body[t][i]
  BY <1>0, <1>2, StatementNow
<1> DEFINE new == [done EXCEPT ![t] = i]
<1>4. /\ Len(Advanced) = Len(walk) /\ TopAt(walk, Advanced, i + 1)
      /\ \A k \in 1..Len(walk) : /\ Advanced[k].seq = walk[k].seq /\ Advanced[k].chain = walk[k].chain
                                 /\ Advanced[k].inits = walk[k].inits
  BY <1>0, <1>2, AdvancedFrames
<1>5. Walked(prog, fun, Advanced, E, new)
  <2>1. t = walk[Len(walk)].seq /\ i = walk[Len(walk)].pos /\ prog.body[t][i].code # "GIMPLE_BIND"
    BY <1>3 DEF AtStmt
  <2>q. QED
    BY <1>1, <1>3, <1>4, <2>1, WalkOn
<1>6. Gathered(prog, E, new) = IF Stmt.code = "GIMPLE_ASSIGN" THEN Gathered(prog, E, done) \ Named({Stmt.lhs})
                                                             ELSE Gathered(prog, E, done)
  <2>1. PastOne(done, t, i, new)
    BY DEF PastOne
  <2> HIDE DEF new
  <2>2. SetAfter(prog, t, i, Gathered(prog, E, done), Gathered(prog, E, new))
    BY <1>1, <1>3, <2>1, GatheredOn
  <2>q. QED
    BY <1>3, <2>2 DEF SetAfter
<1> HIDE DEF new
<1>7. WalkHeld(E, new)'
  BY <1>1, <1>5 DEF WalkHeld
<1>8. SetHeld(E, new)'
  <2>1. SetHeld(E, done)
    BY DEF PassHeld
  <2>2. CASE phase = "gather"
    BY <1>6, <2>1, <2>2 DEF SetHeld, erase_if_initialised_lhs
  <2>3. CASE phase = "assign"
    BY <2>1, <2>3 DEF SetHeld
  <2>q. QED
    BY <1>0, <2>2, <2>3
<1>9. \A s : OnWalk(s) <=> OnWalk(s)'
  BY <1>4 DEF OnWalk
<1>10. (prog \in Programs)' /\ Touched(E)' /\ CompiledZeroed' /\ SeqsZeroed(E)'
  BY <1>9, PlacesKept
<1>11. Collected'
  <2> SUFFICES ASSUME phase = "assign", NEW k \in 1..Len(walk) PROVE CollectedFor(walk[k])'
    BY <1>4 DEF Collected
  <2>1. CollectedFor(walk[k])
    BY DEF PassHeld, Collected
  <2>q. QED
    BY <1>4, <2>1, CollectedSame
<1>12. PassHeld(E, new)'
  BY <1>7, <1>8, <1>10, <1>11 DEF PassHeld
<1>q. QED
  BY <1>12

\* Into a bind, in either walk.
LEMMA IntoHeld ==
  ASSUME TypeOK, NEW E, NEW done, PassHeld(E, done), phase # "idle", HasStmt,
         Stmt.code = "GIMPLE_BIND", walk' = Append(Advanced, NewFrame(Stmt.seq)),
         UNCHANGED <<prog, body, phase, fun, compiled>>,
         uninitialised_vars' = IF phase = "gather" THEN insert_vars(uninitialised_vars, prog.vars[Stmt.seq])
                                                   ELSE uninitialised_vars
  PROVE  \E F, new : PassHeld(F, new)'
<1>0. walk \in Seq(Frame) /\ walk # <<>> /\ phase \in {"idle", "gather", "assign"}
  BY DEF TypeOK, HasStmt
<1>1. prog \in Program /\ WellFormed(prog) /\ Walked(prog, fun, walk, E, done) /\ fun \notin compiled
  BY ProgramNow DEF PassHeld, WalkHeld
<1>2. PICK t, i, s : t = Top.seq /\ i = Top.pos /\ s = Stmt.seq
  OBVIOUS
<1>3. AtBind(prog, walk, t, i, s)
  BY <1>0, <1>2, StatementNow DEF AtBind, AtStmt
<1> DEFINE new == [done EXCEPT ![t] = i, ![s] = 0]
           F == E \cup {s}
           v == Append(Advanced, NewFrame(s))
<1>4. /\ OneMore(walk, v, i, s) /\ Len(v) = Len(walk) + 1 /\ Len(walk) \in Nat \ {0}
      /\ v[Len(walk) + 1] = NewFrame(s)
      /\ \A k \in 1..Len(walk) : /\ v[k].seq = walk[k].seq /\ v[k].chain = walk[k].chain
                                 /\ v[k].inits = walk[k].inits
  <2>1. v = Append(Advanced, NewFrame(s))
    OBVIOUS
  <2> HIDE DEF v
  <2>2. OneMore(walk, v, Top.pos, s)
    BY <1>0, <2>1, IntoFrames
  <2>3. Longer(v, s)
    BY <1>0, <2>1, IntoFrames
  <2>4. OneMore(walk, v, i, s)
    BY <1>2, <2>2
  <2>q. QED
    BY <2>3, <2>4 DEF Longer
<1> HIDE DEF v
<1>5. s \in Seqs \ E /\ Walked(prog, fun, v, F, new)
  BY <1>1, <1>3, <1>4, WalkInto
<1>6. Gathered(prog, F, new) = insert_vars(Gathered(prog, E, done), prog.vars[s])
  <2> HIDE DEF v
  <2>1. PastInto(done, t, i, s, new)
    BY DEF PastInto
  <2> HIDE DEF new
  <2>q. QED
    BY <1>1, <1>3, <1>4, <2>1, GatheredInto
<1> HIDE DEF new, F
<1>v. walk' = v
  BY <1>2 DEF v
<1>7. WalkHeld(F, new)'
  BY <1>1, <1>5, <1>v DEF WalkHeld
<1>8. SetHeld(F, new)'
  <2>1. SetHeld(E, done)
    BY DEF PassHeld
  <2>2. CASE phase = "gather"
    BY <1>2, <1>6, <2>1, <2>2 DEF SetHeld
  <2>3. CASE phase = "assign"
    BY <2>1, <2>3 DEF SetHeld
  <2>q. QED
    BY <1>0, <2>2, <2>3
<1>9. \A r \in E : OnWalk(r) <=> OnWalk(r)'
  <2>1. \A r \in E : r # s
    BY <1>5
  <2>2. \A k : k \in 1..Len(v) <=> k \in 1..Len(walk) \/ k = Len(walk) + 1
    BY <1>4
  <2>3. v[Len(walk) + 1].seq = s
    BY <1>4 DEF NewFrame
  <2>q. QED
    BY <1>4, <1>v, <2>1, <2>2, <2>3 DEF OnWalk
<1>10. \A r \in F \ E : OnWalk(r)'
  <2>1. Len(walk) + 1 \in 1..Len(v) /\ v[Len(walk) + 1].seq = s
    BY <1>4 DEF NewFrame
  <2>q. QED
    BY <1>v, <2>1 DEF OnWalk, F
<1>11. (prog \in Programs)' /\ Touched(F)' /\ CompiledZeroed' /\ SeqsZeroed(F)'
  <2>1. E \subseteq F
    BY DEF F
  <2>q. QED
    BY <1>9, <1>10, <2>1, PlacesKept
<1>12. Collected'
  <2> SUFFICES ASSUME phase = "assign", NEW k \in 1..Len(v) PROVE CollectedFor(walk[k])'
    BY <1>v DEF Collected
  <2>1. CASE k \in 1..Len(walk)
    <3>1. CollectedFor(walk[k])
      BY <2>1 DEF PassHeld, Collected
    <3>q. QED
      BY <1>4, <1>v, <2>1, <3>1, CollectedSame
  <2>2. CASE k = Len(walk) + 1
    <3>1. walk'[k].chain = 1
      BY <1>4, <1>v, <2>2 DEF NewFrame
    <3>2. prog'.vars[walk'[k].seq] \in Seq(Decls)
      BY <1>1, <1>4, <1>5, <1>v, <2>2 DEF NewFrame, Program
    <3>3. \A c \in DOMAIN prog'.vars[walk'[k].seq] : ~(c < walk'[k].chain)
      <4>1. \A q \in Seq(Decls) : \A c \in DOMAIN q : ~(c < 1)
        OBVIOUS
      <4>q. QED
        BY <3>1, <3>2, <4>1
    <3>q. QED
      BY <3>3 DEF CollectedFor
  <2>q. QED
    <3>1. k \in 1..Len(walk) \/ k = Len(walk) + 1
      BY <1>4
    <3>q. QED
      BY <2>1, <2>2, <3>1
<1>13. PassHeld(F, new)'
  BY <1>7, <1>8, <1>11, <1>12 DEF PassHeld
<1>q. QED
  BY <1>13

\* What holds of the program's parts while no statement changes.
LEMMA NoWalkParts ==
  ASSUME NEW E, NEW done, PassHeld(E, done), UNCHANGED <<prog, body, compiled>>,
         phase # "assign", NEW F
  PROVE  (prog \in Programs)' /\ Touched(F)' /\ CompiledZeroed'
<1>1. prog \in Programs /\ Touched(E) /\ CompiledZeroed
  BY DEF PassHeld
<1>2. Touched(F)'
  <2> SUFFICES ASSUME NEW s \in Seqs, body'[s] # prog'.body[s] PROVE InCompiled(s)'
    BY DEF Touched
  <2>1. InCompiled(s)
    BY <1>1 DEF Touched
  <2>q. QED
    BY <2>1 DEF InCompiled
<1>3. CompiledZeroed'
  <2> SUFFICES ASSUME NEW f \in compiled, NEW s \in Zeroed!Binds(prog, f),
                      NEW d \in ElementsOf(prog.vars[s]) \cap Zeroed!NeverAssigned(prog, f)
               PROVE  ZeroIn(s, d)'
    BY DEF CompiledZeroed
  <2>1. ZeroIn(s, d)
    BY <1>1 DEF CompiledZeroed
  <2>q. QED
    BY <2>1 DEF ZeroIn
<1>q. QED
  BY <1>1, <1>2, <1>3

\* A walk that starts has passed nothing.
LEMMA StartHeld ==
  ASSUME TypeOK, NEW E, NEW done, PassHeld(E, done), phase # "assign", UNCHANGED <<prog, body, compiled>>,
         NEW f \in Functions, f \notin compiled, fun' = f, walk' = <<NewFrame(f)>>,
         \/ phase' = "gather" /\ uninitialised_vars' = {}
         \/ phase' = "assign" /\ uninitialised_vars' = Zeroed!NeverAssigned(prog, f)
  PROVE  \E F, new : PassHeld(F, new)'
<1> DEFINE F == {f}
           new == [s \in Seqs |-> 0]
<1>1. prog \in Program /\ WellFormed(prog) /\ f \in Seqs
  BY ProgramNow, GimpleAssumption
<1>2. Walked(prog, f, <<NewFrame(f)>>, F, new) /\ Gathered(prog, F, new) = {}
  BY <1>1, WalkStart, GatheredStart
<1>3. Len(walk') = 1 /\ walk'[1] = NewFrame(f)
  OBVIOUS
<1>4. OnWalk(f)'
  BY <1>3 DEF OnWalk, NewFrame
<1>5. SeqsZeroed(F)'
  BY <1>4 DEF SeqsZeroed
<1> HIDE DEF F, new
<1>6. WalkHeld(F, new)' /\ SetHeld(F, new)'
  BY <1>2 DEF WalkHeld, SetHeld
<1>7. Collected'
  <2> SUFFICES ASSUME NEW k \in 1..Len(walk') PROVE CollectedFor(walk[k])'
    BY DEF Collected
  <2>1. walk'[k] = NewFrame(f)
    BY <1>3
  <2>2. walk'[k].chain = 1 /\ walk'[k].seq = f
    BY <2>1 DEF NewFrame
  <2>3. prog'.vars[f] \in Seq(Decls)
    BY <1>1 DEF Program
  <2>4. \A c \in DOMAIN prog'.vars[f] : ~(c < 1)
    BY <2>3
  <2>q. QED
    BY <2>2, <2>4 DEF CollectedFor
<1>8. (prog \in Programs)' /\ Touched(F)' /\ CompiledZeroed'
  <2>1. UNCHANGED <<prog, body, compiled>>
    OBVIOUS
  <2>q. QED
    BY <2>1, NoWalkParts, Zenon
<1>9. PassHeld(F, new)'
  BY <1>5, <1>6, <1>7, <1>8 DEF PassHeld
<1>q. QED
  BY <1>9

\* execute starts with an empty set and the function's own sequence.
LEMMA ExecuteHeld ==
  ASSUME TypeOK, NEW E, NEW done, PassHeld(E, done), NEW f \in Functions, Execute(f)
  PROVE  \E F, new : PassHeld(F, new)'
BY StartHeld DEF Execute

\* The second walk starts with the set that the first one was to gather.
LEMMA StartAssignHeld ==
  ASSUME TypeOK, NEW E, NEW done, PassHeld(E, done), StartAssign
  PROVE  \E F, new : PassHeld(F, new)'
<1>1. prog \in Program /\ WellFormed(prog) /\ Walked(prog, fun, walk, E, done) /\ fun \notin compiled
  BY ProgramNow DEF PassHeld, WalkHeld, StartAssign
<1>2. fun \in Functions /\ walk[1].seq = fun
  BY <1>1, WalkedTypes
<1>3. Len(walk) = 1 /\ ~(walk[1].pos <= Len(prog.body[fun]))
  <2>1. Len(walk) = 1 /\ Top = walk[1]
    BY DEF StartAssign, Bottom, Top
  <2>2. body[Top.seq] = prog.body[Top.seq]
    BY StatementNow DEF StartAssign
  <2>q. QED
    BY <1>2, <2>1, <2>2 DEF StartAssign, HasStmt
<1>4. E = Zeroed!Binds(prog, fun) /\ \A t \in E : done[t] = Len(prog.body[t])
  BY <1>1, <1>3, WalkOver
<1>5. Gathered(prog, E, done) = Zeroed!NeverAssigned(prog, fun)
  BY <1>1, <1>2, <1>4, GatheredOver
<1>6. uninitialised_vars = Gathered(prog, E, done)
  BY DEF PassHeld, SetHeld, StartAssign
<1>q. QED
  BY <1>1, <1>2, <1>5, <1>6, StartHeld DEF StartAssign

\* What is left of the walks when the innermost one returns.
LEMMA PopWalked ==
  ASSUME TypeOK, NEW E, NEW done, PassHeld(E, done), phase # "idle", walk # <<>>, ~HasStmt, ~Bottom,
         walk' = Pop(walk)
  PROVE  /\ Len(walk') = Len(walk) - 1 /\ Len(walk) \in Nat \ {0}
         /\ \A k \in 1..Len(walk') : walk'[k] = walk[k] /\ k \in 1..Len(walk)
         /\ Walked(prog, fun, walk', E, done)
         /\ \A s : OnWalk(s)' => OnWalk(s) /\ s # Top.seq
         /\ \A s : OnWalk(s) => OnWalk(s)' \/ s = Top.seq
<1>1. prog \in Program /\ Walked(prog, fun, walk, E, done)
  BY ProgramNow DEF PassHeld, WalkHeld
<1>2. /\ Len(walk') = Len(walk) - 1 /\ Len(walk) \in Nat \ {0}
      /\ \A k \in 1..Len(walk') : walk'[k] = walk[k] /\ k \in 1..Len(walk) /\ k # Len(walk)
      /\ \A k \in 1..Len(walk) : k \in 1..Len(walk') \/ k = Len(walk)
  <2>1. walk \in Seq(Frame) /\ Len(walk) \in Nat \ {0}
    BY DEF TypeOK
  <2>2. Len(walk') = Len(walk) - 1 /\ \A k \in 1..Len(walk') : walk'[k] = walk[k]
    BY <2>1, PopKeeps
  <2>q. QED
    BY <2>1, <2>2
<1>3. Walked(prog, fun, walk', E, done)
  <2>1. PICK t, v : t = walk[Len(walk)].seq /\ v = walk'
    OBVIOUS
  <2>2. ~(walk[Len(walk)].pos <= Len(prog.body[t])) /\ Len(walk) # 1
    BY <2>1, StatementNow DEF HasStmt, Top, Bottom
  <2>3. Walked(prog, fun, v, E, done)
    BY <1>1, <1>2, <2>1, <2>2, WalkBack
  <2>q. QED
    BY <2>1, <2>3
<1>4. \A j, k \in 1..Len(walk) : walk[j].seq = walk[k].seq => j = k
  BY <1>1 DEF Walked
<1>5. \A s : OnWalk(s)' => OnWalk(s) /\ s # Top.seq
  <2> SUFFICES ASSUME NEW k \in 1..Len(walk') PROVE OnWalk(walk'[k].seq) /\ walk'[k].seq # Top.seq
    BY DEF OnWalk
  <2>1. Len(walk) \in 1..Len(walk)
    BY <1>2
  <2>q. QED
    BY <1>2, <1>4, <2>1 DEF OnWalk, Top
<1>6. \A s : OnWalk(s) => OnWalk(s)' \/ s = Top.seq
  <2> SUFFICES ASSUME NEW s, OnWalk(s) PROVE OnWalk(s)' \/ s = Top.seq
    OBVIOUS
  <2>1. PICK k \in 1..Len(walk) : walk[k].seq = s
    BY DEF OnWalk
  <2>2. CASE k \in 1..Len(walk')
    <3>1. walk'[k].seq = s
      BY <1>2, <2>1, <2>2
    <3>q. QED
      BY <2>2, <3>1 DEF OnWalk
  <2>q. QED
    BY <1>2, <2>1, <2>2 DEF Top
<1>q. QED
  BY <1>2, <1>3, <1>5, <1>6

\* The first walk leaves a bind it has walked to the end.
LEMMA GatherReturnHeld ==
  ASSUME TypeOK, NEW E, NEW done, PassHeld(E, done), GatherReturn
  PROVE  PassHeld(E, done)'
<1>1. /\ phase = "gather" /\ walk # <<>> /\ ~HasStmt /\ ~Bottom /\ walk' = Pop(walk)
      /\ UNCHANGED <<prog, body, uninitialised_vars, phase, fun, compiled>>
  BY DEF GatherReturn
<1>2. Walked(prog, fun, walk', E, done)
  BY <1>1, PopWalked
<1>3. WalkHeld(E, done)' /\ SetHeld(E, done)'
  BY <1>1, <1>2 DEF PassHeld, WalkHeld, SetHeld
<1>4. (prog \in Programs)' /\ Touched(E)' /\ CompiledZeroed' /\ SeqsZeroed(E)'
  BY <1>1, PlacesKept
<1>5. Collected'
  BY <1>1 DEF Collected
<1>q. QED
  BY <1>3, <1>4, <1>5 DEF PassHeld

\* One turn of the DECL_CHAIN loop.
LEMMA AssignVarHeld ==
  ASSUME TypeOK, NEW E, NEW done, PassHeld(E, done), AssignVar
  PROVE  PassHeld(E, done)'
<1>1. /\ phase = "assign" /\ walk # <<>> /\ Top.chain <= Len(prog.vars[Top.seq])
      /\ walk' = [walk EXCEPT ![Len(walk)] = [Top EXCEPT !.chain = @ + 1, !.inits = WithInits]]
      /\ UNCHANGED <<prog, body, uninitialised_vars, phase, fun, compiled>>
  BY DEF AssignVar
<1>2. prog \in Program /\ WellFormed(prog) /\ Walked(prog, fun, walk, E, done)
  BY <1>1, ProgramNow DEF PassHeld, WalkHeld
<1>3. /\ walk \in Seq(Frame) /\ Len(walk) \in 1..Len(walk) /\ Top \in Frame /\ Top = walk[Len(walk)]
      /\ Top.inits \in Seq(Statement) /\ Top.chain \in Nat
  BY <1>1, TopType DEF TypeOK, Top, Frame
<1> DEFINE new == [Top EXCEPT !.chain = @ + 1, !.inits = WithInits]
<1>4. new.seq = Top.seq /\ new.pos = Top.pos /\ new.chain = Top.chain + 1 /\ new.inits = WithInits
  BY <1>3 DEF Frame
<1>5. walk' = [walk EXCEPT ![Len(walk)] = new]
  BY <1>1
<1> HIDE DEF new
<1>6. Len(walk') = Len(walk) /\ walk'[Len(walk)] = new /\ \A k \in 1..Len(walk) : k # Len(walk) => walk'[k] = walk[k]
  BY <1>3, <1>5
<1>7. \A k \in 1..Len(walk) : walk'[k].seq = walk[k].seq /\ walk'[k].pos = walk[k].pos
  <2> SUFFICES ASSUME NEW k \in 1..Len(walk) PROVE walk'[k].seq = walk[k].seq /\ walk'[k].pos = walk[k].pos
    OBVIOUS
  <2>1. CASE k = Len(walk)
    BY <1>3, <1>4, <1>6, <2>1
  <2>q. QED
    BY <1>6, <2>1
<1>8. Walked(prog, fun, walk', E, done)
  <2>1. PICK v : v = walk'
    OBVIOUS
  <2>2. Walked(prog, fun, v, E, done)
    BY <1>2, <1>6, <1>7, <2>1, WalkSame
  <2>q. QED
    BY <2>1, <2>2
<1>9. WalkHeld(E, done)' /\ SetHeld(E, done)'
  BY <1>1, <1>8 DEF PassHeld, WalkHeld, SetHeld
<1>10. \A s : OnWalk(s) <=> OnWalk(s)'
  BY <1>6, <1>7 DEF OnWalk
<1>11. (prog \in Programs)' /\ Touched(E)' /\ CompiledZeroed' /\ SeqsZeroed(E)'
  BY <1>1, <1>10, PlacesKept
<1>12. Collected'
  <2> SUFFICES ASSUME NEW k \in 1..Len(walk) PROVE CollectedFor(walk[k])'
    BY <1>6 DEF Collected
  <2>1. CollectedFor(walk[k])
    BY <1>1 DEF PassHeld, Collected
  <2>2. CASE k # Len(walk)
    BY <1>1, <1>6, <2>1, <2>2, CollectedSame
  <2>3. CASE k = Len(walk)
    <3>1. walk'[k].seq = Top.seq /\ walk'[k].chain = Top.chain + 1 /\ walk'[k].inits = WithInits
      BY <1>4, <1>6, <2>3
    <3>2. prog.vars[Top.seq] \in Seq(Decls)
      <4>1. Top.seq \in Seqs
        BY <1>3 DEF Frame
      <4>q. QED
        BY <1>2, <4>1 DEF Program
    <3>3. ASSUME NEW c \in DOMAIN prog.vars[Top.seq], c < Top.chain + 1, prog.vars[Top.seq][c] \in uninitialised_vars
          PROVE  \E j \in 1..Len(WithInits) : WithInits[j] = AssignZero(prog.vars[Top.seq][c])
      <4>1. CASE c = Top.chain
        <5>1. WithInits = Append(Top.inits, AssignZero(ChainVar)) /\ ChainVar = prog.vars[Top.seq][c]
          BY <3>3, <4>1 DEF WithInits, ChainVar
        <5>2. Len(Top.inits) + 1 \in 1..Len(WithInits) /\ WithInits[Len(Top.inits) + 1] = AssignZero(ChainVar)
          BY <1>3, <5>1
        <5>q. QED
          BY <5>1, <5>2
      <4>2. CASE c # Top.chain
        <5>1. c < Top.chain
          <6>1. c \in Nat
            BY <3>2
          <6>q. QED
            BY <1>3, <3>3, <4>2, <6>1
        <5>2. PICK j \in 1..Len(Top.inits) : Top.inits[j] = AssignZero(prog.vars[Top.seq][c])
          BY <1>3, <2>1, <2>3, <3>3, <5>1 DEF CollectedFor
        <5>3. j \in 1..Len(WithInits) /\ WithInits[j] = Top.inits[j]
          <6>1. WithInits = Top.inits \/ WithInits = Append(Top.inits, AssignZero(ChainVar))
            BY DEF WithInits
          <6>2. WithInits = Append(Top.inits, AssignZero(ChainVar)) => j \in 1..Len(WithInits) /\
                  WithInits[j] = Top.inits[j]
            BY <1>3
          <6>q. QED
            BY <6>1, <6>2
        <5>q. QED
          BY <5>2, <5>3
      <4>q. QED
        BY <4>1, <4>2
    <3>q. QED
      BY <1>1, <3>1, <3>3 DEF CollectedFor
  <2>q. QED
    BY <2>2, <2>3
<1>q. QED
  BY <1>9, <1>11, <1>12 DEF PassHeld

\* The frames hold the program's statements of their sequences.
Captured == \A k \in 1..Len(walk) : walk[k].bind_body = prog.body[walk[k].seq]

\* Nobody has changed the body of the bind since its walk started.
LEMMA CapturedNow ==
  ASSUME TypeOK, NEW E, NEW done, PassHeld(E, done), Captured, AssignSetBody
  PROVE  body' = [body EXCEPT ![Top.seq] = Top.inits \o @]
<1>1. phase = "assign" /\ walk # <<>> /\ body' = [body EXCEPT ![Top.seq] = Top.inits \o Top.bind_body]
  BY DEF AssignSetBody
<1>2. Len(walk) \in 1..Len(walk)
  BY <1>1, TopType DEF TypeOK
<1>3. Top.bind_body = prog.body[Top.seq]
  BY <1>2 DEF Captured, Top
<1>4. body[Top.seq] = prog.body[Top.seq]
  BY <1>1, StatementNow
<1>5. body' = [body EXCEPT ![Top.seq] = Top.inits \o body[Top.seq]]
  BY <1>1, <1>3, <1>4
<1>q. QED
  BY <1>5

\* A bind gets its new statements.
LEMMA AssignSetBodyHeld ==
  ASSUME TypeOK, NEW E, NEW done, PassHeld(E, done), Captured, AssignSetBody
  PROVE  PassHeld(E, done)'
<1>1. /\ phase = "assign" /\ walk # <<>> /\ ~HasStmt /\ ~Bottom /\ Top.chain > Len(prog.vars[Top.seq])
      /\ body' = [body EXCEPT ![Top.seq] = Top.inits \o @] /\ walk' = Pop(walk)
      /\ UNCHANGED <<prog, uninitialised_vars, phase, fun, compiled>>
  BY CapturedNow DEF AssignSetBody
<1>2. /\ Len(walk') = Len(walk) - 1 /\ Len(walk) \in Nat \ {0}
      /\ \A k \in 1..Len(walk') : walk'[k] = walk[k] /\ k \in 1..Len(walk)
      /\ Walked(prog, fun, walk', E, done)
      /\ \A s : OnWalk(s)' => OnWalk(s) /\ s # Top.seq
      /\ \A s : OnWalk(s) => OnWalk(s)' \/ s = Top.seq
  BY <1>1, PopWalked
<1>3. /\ Top.seq \in E /\ Top.seq \in Seqs /\ Top.inits \in Seq(Statement) /\ Top.chain \in Nat
      /\ body \in [Seqs -> Seq(Statement)] /\ prog \in Program
  <2>1. Top \in Frame
    BY <1>1, TopType DEF TypeOK
  <2>q. QED
    BY <1>1, <2>1, StatementNow DEF Frame, TypeOK
<1>4. /\ body'[Top.seq] = Top.inits \o body[Top.seq]
      /\ \A s \in Seqs : s # Top.seq => body'[s] = body[s]
  BY <1>1, <1>3
<1>5. ASSUME NEW s \in Seqs, NEW d, ZeroIn(s, d) PROVE ZeroIn(s, d)'
  <2>1. CASE s = Top.seq
    <3>1. PICK j \in 1..Len(body[s]) : body[s][j] = AssignZero(d)
      BY <1>5 DEF ZeroIn
    <3>2. body[s] \in Seq(Statement) /\ body'[s] = Top.inits \o body[s]
      BY <1>3, <1>4, <2>1
    <3>3. Len(Top.inits) + j \in 1..Len(body'[s]) /\ body'[s][Len(Top.inits) + j] = body[s][j]
      BY <1>3, <3>2
    <3>q. QED
      BY <3>1, <3>3 DEF ZeroIn
  <2>2. CASE s # Top.seq
    BY <1>4, <1>5, <2>2 DEF ZeroIn
  <2>q. QED
    BY <2>1, <2>2
<1>6. WalkHeld(E, done)' /\ SetHeld(E, done)'
  BY <1>1, <1>2 DEF PassHeld, WalkHeld, SetHeld
<1>7. Touched(E)'
  <2> SUFFICES ASSUME NEW s \in Seqs, body'[s] # prog'.body[s]
               PROVE  InCompiled(s)' \/ (phase' = "assign" /\ s \in E /\ ~OnWalk(s)')
    BY DEF Touched
  <2>1. CASE s = Top.seq
    BY <1>1, <1>2, <1>3, <2>1
  <2>2. CASE s # Top.seq
    <3>1. InCompiled(s) \/ (s \in E /\ ~OnWalk(s))
      BY <1>1, <1>4, <2>2 DEF PassHeld, Touched
    <3>2. InCompiled(s) => InCompiled(s)'
      BY <1>1 DEF InCompiled
    <3>q. QED
      BY <1>1, <1>2, <3>1, <3>2
  <2>q. QED
    BY <2>1, <2>2
<1>8. CompiledZeroed'
  <2> SUFFICES ASSUME NEW f \in compiled, NEW s \in Zeroed!Binds(prog, f),
                      NEW d \in ElementsOf(prog.vars[s]) \cap Zeroed!NeverAssigned(prog, f)
               PROVE  ZeroIn(s, d)'
    BY <1>1 DEF CompiledZeroed
  <2>1. ZeroIn(s, d)
    BY DEF PassHeld, CompiledZeroed
  <2>2. s \in Seqs
    <3>1. f \in Functions
      BY DEF TypeOK
    <3>q. QED
      BY <1>3, <3>1, BindsTree DEF Tree
  <2>q. QED
    BY <1>5, <2>1, <2>2
<1>9. SeqsZeroed(E)'
  <2> SUFFICES ASSUME NEW s \in E, ~OnWalk(s)', NEW d \in ElementsOf(prog.vars[s]) \cap uninitialised_vars
               PROVE  ZeroIn(s, d)'
    BY <1>1 DEF SeqsZeroed
  <2>0. s \in Seqs
    BY <1>2, <1>3, WalkedTypes
  <2>1. CASE OnWalk(s)
    <3>1. s = Top.seq /\ Len(walk) \in 1..Len(walk)
      BY <1>2, <2>1
    <3>2. prog.vars[s] \in Seq(Decls)
      BY <1>3, <2>0 DEF Program
    <3>3. PICK c \in DOMAIN prog.vars[s] : d = prog.vars[s][c]
      BY DEF ElementsOf
    <3>4. c < Top.chain
      BY <1>1, <1>3, <3>1, <3>2
    <3>5. CollectedFor(Top)
      BY <1>1, <3>1 DEF PassHeld, Collected, Top
    <3>6. PICK j \in 1..Len(Top.inits) : Top.inits[j] = AssignZero(d)
      BY <3>1, <3>3, <3>4, <3>5 DEF CollectedFor
    <3>7. j \in 1..Len(body'[s]) /\ body'[s][j] = Top.inits[j]
      <4>1. body[s] \in Seq(Statement) /\ body'[s] = Top.inits \o body[s]
        BY <1>3, <1>4, <3>1
      <4>2. \A a, b \in Seq(Statement) : \A n \in 1..Len(a) : n \in 1..Len(a \o b) /\ (a \o b)[n] = a[n]
        OBVIOUS
      <4>3. j \in 1..Len(Top.inits \o body[s]) /\ (Top.inits \o body[s])[j] = Top.inits[j]
        BY <1>3, <4>1, <4>2
      <4>q. QED
        BY <4>1, <4>3
    <3>q. QED
      BY <3>6, <3>7 DEF ZeroIn
  <2>2. CASE ~OnWalk(s)
    <3>1. ZeroIn(s, d)
      BY <1>1, <2>2 DEF PassHeld, SeqsZeroed
    <3>q. QED
      BY <1>5, <2>0, <3>1
  <2>q. QED
    BY <2>1, <2>2
<1>10. Collected'
  <2> SUFFICES ASSUME NEW k \in 1..Len(walk') PROVE CollectedFor(walk[k])'
    BY DEF Collected
  <2>1. k \in 1..Len(walk) /\ walk'[k] = walk[k]
    BY <1>2
  <2>2. CollectedFor(walk[k])
    BY <1>1, <2>1 DEF PassHeld, Collected
  <2>q. QED
    BY <1>1, <2>1, <2>2, CollectedSame
<1>11. (prog \in Programs)'
  BY <1>1 DEF PassHeld
<1>q. QED
  BY <1>6, <1>7, <1>8, <1>9, <1>10, <1>11 DEF PassHeld

\* The function is compiled: all its binds are done.
LEMMA ReturnHeld ==
  ASSUME TypeOK, NEW E, NEW done, PassHeld(E, done), Return
  PROVE  PassHeld(E, done)'
<1>1. /\ phase = "assign" /\ walk # <<>> /\ ~HasStmt /\ Bottom /\ phase' = "idle"
      /\ compiled' = compiled \cup {fun} /\ UNCHANGED <<prog, body, uninitialised_vars, fun>>
  BY DEF Return
<1>2. prog \in Program /\ WellFormed(prog) /\ Walked(prog, fun, walk, E, done)
  BY <1>1, ProgramNow DEF PassHeld, WalkHeld
<1>3. fun \in Functions /\ walk[1].seq = fun
  BY <1>2, WalkedTypes
<1>4. Len(walk) = 1 /\ ~(walk[1].pos <= Len(prog.body[fun]))
  <2>1. Len(walk) = 1 /\ Top = walk[1]
    BY <1>1 DEF Bottom, Top
  <2>2. body[Top.seq] = prog.body[Top.seq]
    BY <1>1, StatementNow
  <2>q. QED
    BY <1>1, <1>3, <2>1, <2>2 DEF HasStmt
<1>5. E = Zeroed!Binds(prog, fun)
  BY <1>2, <1>4, WalkOver
<1>6. Touched(E)'
  <2> SUFFICES ASSUME NEW s \in Seqs, body'[s] # prog'.body[s] PROVE InCompiled(s)'
    BY DEF Touched
  <2>1. InCompiled(s) \/ s \in E
    BY <1>1 DEF PassHeld, Touched
  <2>q. QED
    BY <1>1, <1>5, <2>1 DEF InCompiled
<1>7. CompiledZeroed'
  <2> SUFFICES ASSUME NEW f \in compiled', NEW s \in Zeroed!Binds(prog, f),
                      NEW d \in ElementsOf(prog.vars[s]) \cap Zeroed!NeverAssigned(prog, f)
               PROVE  ZeroIn(s, d)'
    BY <1>1 DEF CompiledZeroed
  <2>1. ZeroIn(s, d)' <=> ZeroIn(s, d)
    BY <1>1 DEF ZeroIn
  <2>2. CASE f \in compiled
    BY <2>1, <2>2 DEF PassHeld, CompiledZeroed
  <2>3. CASE f = fun
    <3>1. s \in E /\ d \in uninitialised_vars
      BY <1>1, <1>5, <2>3 DEF PassHeld, SetHeld
    <3>2. ~OnWalk(s)
      <4>1. prog.vars[fun] = <<>>
        BY <1>2, <1>3 DEF WellFormed
      <4>2. ElementsOf(prog.vars[fun]) = {}
        BY <4>1 DEF ElementsOf
      <4>3. s # fun
        BY <4>2
      <4>q. QED
        BY <1>3, <1>4, <4>3 DEF OnWalk
    <3>3. ZeroIn(s, d)
      BY <1>1, <3>1, <3>2 DEF PassHeld, SeqsZeroed
    <3>q. QED
      BY <2>1, <3>3
  <2>q. QED
    BY <1>1, <2>2, <2>3
<1>8. (prog \in Programs)' /\ WalkHeld(E, done)' /\ SetHeld(E, done)' /\ SeqsZeroed(E)' /\ Collected'
  BY <1>1 DEF PassHeld, WalkHeld, SetHeld, SeqsZeroed, Collected
<1>q. QED
  BY <1>6, <1>7, <1>8 DEF PassHeld

\* Before the first function nothing is compiled and nothing walked.
LEMMA InitHeld ==
  ASSUME Init
  PROVE  \E E, done : PassHeld(E, done)
<1> DEFINE E == {}
           done == {}
<1>1. prog \in Programs /\ body = prog.body /\ phase = "idle" /\ compiled = {} /\ walk = <<>>
  BY DEF Init
<1>2. PassHeld(E, done)
  BY <1>1 DEF PassHeld, WalkHeld, Touched, SetHeld, CompiledZeroed, SeqsZeroed, Collected
<1>q. QED
  BY <1>2

\* Every step of the pass leaves a walk with what it has gathered and the zeros in place.
LEMMA NextHeld ==
  ASSUME TypeOK, NEW E, NEW done, PassHeld(E, done), Captured, [Next]_vars
  PROVE  \E F, new : PassHeld(F, new)'
<1>1. CASE \E f \in Functions : Execute(f)
  BY <1>1, ExecuteHeld
<1>2. CASE GatherBind
  BY <1>2, IntoHeld DEF GatherBind
<1>3. CASE GatherAssign
  <2>1. Stmt.code = "GIMPLE_ASSIGN" /\ phase = "gather"
    BY <1>3 DEF GatherAssign
  <2>q. QED
    BY <1>3, <2>1, OnHeld DEF GatherAssign
<1>4. CASE GatherOther
  BY <1>4, OnHeld DEF GatherOther
<1>5. CASE GatherReturn
  BY <1>5, GatherReturnHeld
<1>6. CASE StartAssign
  BY <1>6, StartAssignHeld
<1>7. CASE AssignBind
  BY <1>7, IntoHeld DEF AssignBind
<1>8. CASE AssignOther
  BY <1>8, OnHeld DEF AssignOther
<1>9. CASE AssignVar
  BY <1>9, AssignVarHeld
<1>10. CASE AssignSetBody
  BY <1>10, AssignSetBodyHeld
<1>11. CASE Return
  BY <1>11, ReturnHeld
<1>12. CASE UNCHANGED vars
  <2>1. PassHeld(E, done)'
    BY <1>12 DEF vars, PassHeld, WalkHeld, Touched, InCompiled, OnWalk, SetHeld, CompiledZeroed, ZeroIn,
                 SeqsZeroed, Collected, CollectedFor
  <2>q. QED
    BY <2>1
<1>q. QED
  BY <1>1, <1>2, <1>3, <1>4, <1>5, <1>6, <1>7, <1>8, <1>9, <1>10, <1>11, <1>12 DEF Next

\* While the pass runs, the sequences that are walked have the program's statements.
WalkedKept == phase # "idle" => \A s : OnWalk(s) => body[s] = prog.body[s]

\* A frame that is new in a step has the body its sequence has, which nobody has changed yet.
LEMMA CapturedKept ==
  ASSUME Captured, prog' = prog, WalkedKept',
         \A k \in 1..Len(walk') :
           \/ /\ k \in 1..Len(walk) /\ walk'[k].seq = walk[k].seq
              /\ walk'[k].bind_body = walk[k].bind_body
           \/ \E s : walk'[k] = NewFrame(s) /\ body' = body /\ phase' # "idle"
  PROVE  Captured'
<1>1. ASSUME NEW k \in 1..Len(walk'), NEW s, walk'[k] = NewFrame(s), body' = body, phase' # "idle"
      PROVE  walk'[k].bind_body = prog'.body[walk'[k].seq]
  <2>1. walk'[k].seq = s /\ walk'[k].bind_body = body'[s]
    BY <1>1 DEF NewFrame
  <2>2. OnWalk(s)'
    BY <2>1 DEF OnWalk
  <2>3. body'[s] = prog'.body[s]
    BY <1>1, <2>2 DEF WalkedKept
  <2>q. QED
    BY <2>1, <2>3
<1>2. ASSUME NEW k \in 1..Len(walk), walk'[k].seq = walk[k].seq, walk'[k].bind_body = walk[k].bind_body
      PROVE  walk'[k].bind_body = prog'.body[walk'[k].seq]
  BY <1>2 DEF Captured
<1>q. QED
  BY <1>1, <1>2 DEF Captured

\* Every step keeps the bodies its walks have read, or reads one that is as it was.
LEMMA NextCaptured ==
  ASSUME TypeOK, Captured, WalkedKept', [Next]_vars
  PROVE  Captured'
<1>w. walk \in Seq(Frame)
  BY DEF TypeOK
<1>p. prog' = prog
  BY DEF Next, vars, Execute, GatherBind, GatherAssign, GatherOther, GatherReturn, StartAssign,
         AssignBind, AssignOther, AssignVar, AssignSetBody, Return
<1>n. ASSUME NEW s, walk' = <<NewFrame(s)>>, body' = body, phase' # "idle" PROVE Captured'
  <2>1. \A k \in 1..Len(walk') : walk'[k] = NewFrame(s)
    BY <1>n
  <2>q. QED
    BY <1>n, <1>p, <2>1, CapturedKept
<1>a. ASSUME walk # <<>>, walk' = Advanced PROVE Captured'
  <2>1. \A k \in 1..Len(walk') : /\ k \in 1..Len(walk) /\ walk'[k].seq = walk[k].seq
                                  /\ walk'[k].bind_body = walk[k].bind_body
    BY <1>a, <1>w, AdvancedFrames
  <2>q. QED
    BY <1>p, <2>1, CapturedKept
<1>b. ASSUME NEW s, walk # <<>>, walk' = Append(Advanced, NewFrame(s)), body' = body, phase' # "idle"
      PROVE  Captured'
  <2>1. Longer(walk', s)
    BY <1>b, <1>w, IntoFrames
  <2>2. ASSUME NEW k \in 1..Len(walk')
        PROVE  \/ /\ k \in 1..Len(walk) /\ walk'[k].seq = walk[k].seq
                  /\ walk'[k].bind_body = walk[k].bind_body
               \/ walk'[k] = NewFrame(s)
    <3>1. k \in 1..Len(walk) \/ k = Len(walk) + 1
      BY <2>1 DEF Longer
    <3>q. QED
      BY <2>1, <3>1 DEF Longer
  <2>q. QED
    BY <1>b, <1>p, <2>2, CapturedKept
<1>c. ASSUME walk # <<>>, walk' = Pop(walk) PROVE Captured'
  <2>1. \A k \in 1..Len(walk') : k \in 1..Len(walk) /\ walk'[k] = walk[k]
    BY <1>c, <1>w, PopKeeps
  <2>q. QED
    BY <1>p, <2>1, CapturedKept
<1>1. CASE \E f \in Functions : Execute(f)
  <2>1. PICK f \in Functions : Execute(f)
    BY <1>1
  <2>2. walk' = <<NewFrame(f)>> /\ body' = body /\ phase' = "gather"
    BY <2>1 DEF Execute
  <2>q. QED
    BY <2>2, <1>n
<1>2. CASE GatherBind
  BY <1>2, <1>b DEF GatherBind, HasStmt
<1>3. CASE GatherAssign
  BY <1>3, <1>a DEF GatherAssign, HasStmt
<1>4. CASE GatherOther
  BY <1>4, <1>a DEF GatherOther, HasStmt
<1>5. CASE GatherReturn
  BY <1>5, <1>c DEF GatherReturn
<1>6. CASE StartAssign
  <2>1. walk' = <<NewFrame(fun)>> /\ body' = body /\ phase' = "assign"
    BY <1>6 DEF StartAssign
  <2>q. QED
    BY <2>1, <1>n
<1>7. CASE AssignBind
  BY <1>7, <1>b DEF AssignBind, HasStmt
<1>8. CASE AssignOther
  BY <1>8, <1>a DEF AssignOther, HasStmt
<1>9. CASE AssignVar
  <2>1. /\ walk # <<>> /\ Top \in Frame /\ Len(walk) \in 1..Len(walk)
        /\ walk' = [walk EXCEPT ![Len(walk)] = [Top EXCEPT !.chain = @ + 1, !.inits = WithInits]]
    BY <1>9, <1>w, TopType DEF AssignVar
  <2> DEFINE top == [Top EXCEPT !.chain = @ + 1, !.inits = WithInits]
  <2>2. top.seq = Top.seq /\ top.bind_body = Top.bind_body
    BY <2>1 DEF Frame
  <2>3. walk' = [walk EXCEPT ![Len(walk)] = top]
    BY <2>1
  <2> HIDE DEF top
  <2>4. ASSUME NEW k \in 1..Len(walk')
        PROVE  /\ k \in 1..Len(walk) /\ walk'[k].seq = walk[k].seq
               /\ walk'[k].bind_body = walk[k].bind_body
    BY <1>w, <2>2, <2>3 DEF Top
  <2>q. QED
    BY <1>p, <2>4, CapturedKept
<1>10. CASE AssignSetBody
  BY <1>10, <1>c DEF AssignSetBody
<1>11. CASE Return
  BY <1>11 DEF Return, Captured
<1>12. CASE UNCHANGED vars
  BY <1>12 DEF vars, Captured
<1>q. QED
  BY <1>1, <1>2, <1>3, <1>4, <1>5, <1>6, <1>7, <1>8, <1>9, <1>10, <1>11, <1>12 DEF Next

\* Whatever the walks do, there is such a walk, and its frames keep the bodies they read.
Walking == \E E, done : PassHeld(E, done)
Passing == Captured /\ Walking

\* The invariant of the pass holds whatever functions it is called for, and in whatever order.
LEMMA PassingAlways == Init /\ [][Next]_vars => []Passing
<1>1. Init => Passing
  BY InitHeld DEF Passing, Walking, Captured, Init
<1>2. TypeOK /\ Passing /\ [Next]_vars => Walking'
  BY NextHeld DEF Passing, Walking
<1>3. TypeOK /\ Passing /\ WalkedKept' /\ [Next]_vars => Captured'
  BY NextCaptured DEF Passing
<1>4. TypeOK /\ Walking => WalkedKept
  BY OnWalkKept DEF Walking, WalkedKept
<1>5. Passing <=> Captured /\ Walking
  BY DEF Passing
<1>6. Init /\ [][Next]_vars => []TypeOK
  BY SafeTypes
<1>q. QED
  BY <1>1, <1>2, <1>3, <1>4, <1>5, <1>6, PTL

\* When the second walk of gather_uninitialised_vars starts, the set member holds the named
\* variables the walked binds of this function declare and none of their assignments sets,
\* no other: whatever was compiled before, however deep the binds.
THEOREM GatheredExactlyAlways == Spec => []GatheredExactly
<1>1. Passing => GatheredExactly
  BY DEF Passing, Walking, PassHeld, SetHeld, GatheredExactly
<1>q. QED
  BY <1>1, PassingAlways, PTL DEF Spec

\* Only zeros to a bind's own declarations are ever put in front of its statements.
LEMMA SafeStatements == Init /\ [][Next]_vars => []StatementsKept
<1> DEFINE IInv == InitsOK /\ StatementsKept
<1>1. Init => IInv
  <2> SUFFICES ASSUME Init PROVE IInv
    OBVIOUS
  <2>1. \A s \in Seqs : prog.body[s] \in Seq(Statement)
    BY ProgramsAssumption DEF Init, Program
  <2>2. StatementsKept
    BY <2>1 DEF Init, StatementsKept, ZeroPrefixed
  <2>q. QED
    BY <2>2 DEF Init, InitsOK
<1>2. TypeOK /\ TypeOK' /\ Passing /\ IInv /\ [Next]_vars => IInv'
  <2> SUFFICES ASSUME TypeOK, TypeOK', Passing, InitsOK, StatementsKept, [Next]_vars
               PROVE  InitsOK' /\ StatementsKept'
    OBVIOUS
  <2>p. prog' = prog
    BY DEF Next, vars, Execute, GatherBind, GatherAssign, GatherOther, GatherReturn, StartAssign,
           AssignBind, AssignOther, AssignVar, AssignSetBody, Return
  <2>w. walk \in Seq(Frame) /\ walk' \in Seq(Frame)
    BY DEF TypeOK
  <2>k. ASSUME body' = body PROVE StatementsKept'
    <3>1. ASSUME NEW s \in Seqs
          PROVE  ZeroPrefixed(body'[s], prog'.body[s], ElementsOf(prog'.vars[s]))
      <4>1. ZeroPrefixed(body[s], prog.body[s], ElementsOf(prog.vars[s]))
        BY DEF StatementsKept
      <4>q. QED
        BY <2>p, <2>k, <4>1
    <3>q. QED
      BY <3>1 DEF StatementsKept
  <2>n. ASSUME NEW s, walk' = <<NewFrame(s)>> PROVE InitsOK'
    <3>1. \A k \in 1..Len(walk') : walk'[k].inits = <<>>
      BY <2>n DEF NewFrame
    <3>q. QED
      BY <3>1 DEF InitsOK, InitsFor
  <2>a. ASSUME walk # <<>>, walk' = Advanced PROVE InitsOK'
    BY <2>a, <2>p, <2>w, AdvancedInits DEF InitsOK, InitsFor
  <2>b. ASSUME NEW s, walk # <<>>, walk' = Append(Advanced, NewFrame(s)) PROVE InitsOK'
    <3>1. Len(Advanced) = Len(walk) /\ \A i \in 1..Len(walk) : InitsFor(Advanced[i])
      BY <2>b, <2>w, AdvancedInits
    <3>2. Advanced \in Seq(Frame)
      BY <2>b, <2>w, TopType
    <3>3. Len(walk') = Len(walk) + 1
      BY <2>b, <3>1, <3>2
    <3>4. \A i \in 1..Len(walk') : InitsFor(walk'[i])
      BY <2>b, <2>w, <3>1, <3>2, <3>3, NewFrameInits
    <3>q. QED
      BY <2>p, <3>4 DEF InitsOK, InitsFor
  <2>c. ASSUME walk # <<>>, walk' = Pop(walk) PROVE InitsOK'
    <3>1. Len(walk') = Len(walk) - 1 /\ \A i \in 1..Len(walk') : walk'[i] = walk[i]
      BY <2>c, <2>w, PopKeeps
    <3>2. ASSUME NEW i \in 1..Len(walk') PROVE InitsFor(walk[i])
      <4>1. i \in 1..Len(walk)
        BY <2>w, <3>1
      <4>q. QED
        BY <4>1 DEF InitsOK
    <3>3. \A i \in 1..Len(walk') : InitsFor(walk'[i])
      BY <3>1, <3>2, Zenon
    <3>q. QED
      BY <2>p, <3>3 DEF InitsOK, InitsFor
  <2>1. ASSUME NEW f \in Functions, Execute(f) PROVE InitsOK' /\ StatementsKept'
    BY <2>1, <2>n, <2>k DEF Execute
  <2>2. CASE GatherBind
    BY <2>2, <2>b, <2>k DEF GatherBind, HasStmt
  <2>3. CASE GatherAssign
    BY <2>3, <2>a, <2>k DEF GatherAssign, HasStmt
  <2>4. CASE GatherOther
    BY <2>4, <2>a, <2>k DEF GatherOther, HasStmt
  <2>5. CASE GatherReturn
    BY <2>5, <2>c, <2>k DEF GatherReturn
  <2>6. CASE StartAssign
    BY <2>6, <2>n, <2>k DEF StartAssign
  <2>7. CASE AssignBind
    BY <2>7, <2>b, <2>k DEF AssignBind, HasStmt
  <2>8. CASE AssignOther
    BY <2>8, <2>a, <2>k DEF AssignOther, HasStmt
  <2>9. CASE AssignVar
    <3>1. walk # <<>> /\ Top \in Frame
      BY <2>9, <2>w, TopType DEF AssignVar
    <3>2. DEFINE new == [Top EXCEPT !.chain = @ + 1, !.inits = WithInits]
    <3>3. new.seq = Top.seq /\ new.inits = WithInits
      BY <3>1 DEF Frame
    <3>4. InitsFor(new)
      BY <2>9, <3>3, WithInitsZero DEF AssignVar, InitsFor
    <3>5. walk' = [walk EXCEPT ![Len(walk)] = new]
      BY <2>9 DEF AssignVar
    <3>6. \A i \in 1..Len(walk') : InitsFor(walk'[i])
      BY <2>w, <3>4, <3>5 DEF InitsOK
    <3>q. QED
      BY <2>9, <2>p, <2>k, <3>6 DEF InitsOK, InitsFor, AssignVar
  <2>10. CASE AssignSetBody
    <3>1. walk # <<>> /\ Top.seq \in Seqs /\ Top.inits \in Seq(Statement)
      BY <2>10, <2>w, TopType DEF AssignSetBody, Frame
    <3>2. \A j \in 1..Len(Top.inits) :
            \E d \in ElementsOf(prog.vars[Top.seq]) : Top.inits[j] = AssignZero(d)
      BY <2>w, <3>1, TopType DEF InitsOK, InitsFor, Top
    <3>3. body'[Top.seq] = Top.inits \o body[Top.seq]
      <4>1. body' = [body EXCEPT ![Top.seq] = Top.inits \o @]
        BY <2>10, CapturedNow DEF Passing, Walking
      <4>q. QED
        BY <3>1, <4>1 DEF TypeOK
    <3>4. \A s \in Seqs \ {Top.seq} : body'[s] = body[s]
      BY <2>10 DEF AssignSetBody, TypeOK
    <3>5. ASSUME NEW s \in Seqs
          PROVE  ZeroPrefixed(body'[s], prog.body[s], ElementsOf(prog.vars[s]))
      <4>1. ZeroPrefixed(body[s], prog.body[s], ElementsOf(prog.vars[s]))
        BY DEF StatementsKept
      <4>2. body[s] \in Seq(Statement) /\ prog.body[s] \in Seq(Statement)
        BY DEF TypeOK, Program
      <4>3. CASE s = Top.seq
        <5>1. ZeroPrefixed(Top.inits \o body[s], prog.body[s], ElementsOf(prog.vars[s]))
          BY <3>1, <3>2, <4>1, <4>2, <4>3, PrefixKept
        <5>q. QED
          BY <3>3, <4>3, <5>1
      <4>q. QED
        BY <3>4, <4>1, <4>3
    <3>6. StatementsKept'
      BY <2>p, <3>5 DEF StatementsKept
    <3>q. QED
      BY <2>10, <2>c, <3>1, <3>6 DEF AssignSetBody
  <2>11. CASE Return
    BY <2>11, <2>k DEF Return, InitsOK
  <2>12. CASE UNCHANGED vars
    BY <2>12, <2>k, <2>p DEF vars, InitsOK, InitsFor
  <2>q. QED
    BY <2>1, <2>2, <2>3, <2>4, <2>5, <2>6, <2>7, <2>8, <2>9, <2>10, <2>11, <2>12 DEF Next
<1>q. QED
  BY <1>1, <1>2, SafeTypes, PassingAlways, PTL

\* For every program, and at every moment of the two walks: each sequence is the original
\* one with zero assignments to declarations of its own bind in front, and nothing else.
THEOREM StatementsKeptAlways == Spec => []StatementsKept
BY SafeStatements, PTL DEF Spec

-----------------------------------------------------------------------------
(* The zeros as they were promised *)

\* q with the zero for declaration n of the chain, if it gets one.
OneZero(p, f, b, n, q) ==
  IF p.vars[b][n] \in Zeroed!NeverAssigned(p, f) THEN Append(q, AssignZero(p.vars[b][n])) ELSE q
ZeroSteps(p, f, b, z) == z[0] = <<>> /\ \A n \in Nat : z[n + 1] = OneZero(p, f, b, n + 1, z[n])

\* The zeros of a chain, from declaration to declaration.
LEMMA ZerosSteps ==
  ASSUME NEW p, NEW f, NEW b
  PROVE  ZeroSteps(p, f, b, Zeroed!ZerosUpTo(p, f, b))
<1> DEFINE T == {AssignZero(p.vars[b][n]) : n \in Nat}
           D == Nat \X Seq(T)
           a == <<0, <<>>>>
           step == [x \in D |-> <<x[1] + 1, OneZero(p, f, b, x[1] + 1, x[2])>>]
           Is(z) == z = [n \in Nat |-> IF n = 0 THEN <<>>
                                       ELSE IF p.vars[b][n] \in Zeroed!NeverAssigned(p, f)
                                            THEN Append(z[n - 1], AssignZero(p.vars[b][n]))
                                            ELSE z[n - 1]]
<1>1. Repeatable(D, a, step)
  <2>1. a \in D
    <3> HIDE DEF T
    <3>1. <<>> \in Seq(T)
      OBVIOUS
    <3>q. QED
      BY <3>1
  <2>2. ASSUME NEW x \in D PROVE <<x[1] + 1, OneZero(p, f, b, x[1] + 1, x[2])>> \in D
    <3>1. x[1] \in Nat /\ x[1] + 1 \in Nat /\ x[2] \in Seq(T)
      OBVIOUS
    <3>2. AssignZero(p.vars[b][x[1] + 1]) \in T
      BY <3>1
    <3> HIDE DEF T
    <3>3. OneZero(p, f, b, x[1] + 1, x[2]) \in Seq(T)
      BY <3>1, <3>2 DEF OneZero
    <3>q. QED
      BY <3>1, <3>3
  <2>q. QED
    BY <2>1, <2>2 DEF Repeatable
<1>2. PICK g : g \in [Nat -> D] /\ g[0] = a /\ \A n \in Nat : g[n + 1] = step[g[n]]
  <2> HIDE DEF D, step, a
  <2>q. QED
    BY <1>1, Recursion
<1>3. \A n \in Nat : g[n] \in D /\ g[n + 1] = <<g[n][1] + 1, OneZero(p, f, b, g[n][1] + 1, g[n][2])>>
  BY <1>2
<1>4. g[0][1] = 0 /\ g[0][2] = <<>>
  BY <1>2
<1>5. \A n \in Nat : g[n][1] = n
  <2> DEFINE Bad == {n \in Nat : g[n][1] # n}
  <2>1. SUFFICES ASSUME Bad # {} PROVE FALSE
    OBVIOUS
  <2>2. PICK m \in Bad : \A y \in Bad : ~(<<y, m>> \in OpToRel(<, Nat))
    BY <2>1, WFMin, NatLessThanWellFounded
  <2>3. m \in Nat /\ g[m][1] # m /\ \A y \in Bad : ~(y < m)
    BY <2>2 DEF OpToRel
  <2>4. m # 0
    BY <1>4, <2>3
  <2>5. m - 1 \in Nat /\ m - 1 < m /\ (m - 1) + 1 = m
    BY <2>3, <2>4
  <2>6. g[m - 1][1] = m - 1
    BY <2>3, <2>5
  <2>7. g[m][1] = m
    <3> HIDE DEF D, Bad
    <3>q. QED
      BY <1>3, <2>5, <2>6
  <2>q. QED
    BY <2>3, <2>7
<1> DEFINE z == [n \in Nat |-> g[n][2]]
<1>6. z[0] = <<>> /\ \A n \in Nat : z[n + 1] = OneZero(p, f, b, n + 1, z[n])
  <2>1. ASSUME NEW n \in Nat PROVE g[n + 1][2] = OneZero(p, f, b, n + 1, g[n][2])
    <3> HIDE DEF D
    <3>q. QED
      BY <1>3, <1>5
  <2>q. QED
    BY <1>4, <2>1
<1>7. \E w : Is(w)
  <2>1. ASSUME NEW n \in Nat
        PROVE  z[n] = IF n = 0 THEN <<>> ELSE OneZero(p, f, b, n, z[n - 1])
    <3>1. CASE n # 0
      <4>1. n - 1 \in Nat /\ (n - 1) + 1 = n
        BY <3>1
      <4> HIDE DEF z
      <4>q. QED
        BY <1>6, <3>1, <4>1
    <3>q. QED
      BY <1>6, <3>1
  <2>2. z = [n \in Nat |-> z[n]]
    OBVIOUS
  <2> HIDE DEF z
  <2>3. z = [n \in Nat |-> IF n = 0 THEN <<>> ELSE OneZero(p, f, b, n, z[n - 1])]
    BY <2>1, <2>2
  <2>4. Is(z)
    BY <2>3 DEF OneZero
  <2>q. QED
    BY <2>4
<1>8. Zeroed!ZerosUpTo(p, f, b) = CHOOSE w : Is(w)
  BY DEF Zeroed!ZerosUpTo, Zeroed!AssignZero, AssignZero
<1>9. PICK v : v = Zeroed!ZerosUpTo(p, f, b) /\ Is(v)
  <2> HIDE DEF Is
  <2>q. QED
    BY <1>7, <1>8
<1>10. v = [n \in Nat |-> IF n = 0 THEN <<>> ELSE OneZero(p, f, b, n, v[n - 1])]
  BY <1>9 DEF OneZero
<1>11. v[0] = <<>> /\ \A n \in Nat : v[n + 1] = OneZero(p, f, b, n + 1, v[n])
  <2>1. ASSUME NEW n \in Nat PROVE v[n + 1] = OneZero(p, f, b, n + 1, v[n])
    <3>1. n + 1 \in Nat /\ n + 1 # 0 /\ (n + 1) - 1 = n
      OBVIOUS
    <3>q. QED
      BY <1>10, <3>1
  <2>q. QED
    BY <1>10, <2>1
<1>q. QED
  BY <1>9, <1>11 DEF ZeroSteps

\* A chain without a variable to zero has no zeros.
LEMMA NoZeros ==
  ASSUME NEW p \in Program, NEW f, NEW b \in Seqs, ElementsOf(p.vars[b]) \cap Zeroed!NeverAssigned(p, f) = {}
  PROVE  Zeroed!Zeros(p, f, b) = <<>>
<1>1. p.vars[b] \in Seq(Decls) /\ Len(p.vars[b]) \in Nat
  BY DEF Program
<1>2. PICK z : z = Zeroed!ZerosUpTo(p, f, b) /\ ZeroSteps(p, f, b, z)
  BY ZerosSteps
<1> DEFINE Bad == {n \in 0..Len(p.vars[b]) : z[n] # <<>>}
<1>3. Bad = {}
  <2>1. SUFFICES ASSUME Bad # {} PROVE FALSE
    OBVIOUS
  <2>2. PICK m \in Bad : \A y \in Bad : ~(<<y, m>> \in OpToRel(<, Nat))
    <3>1. Bad \subseteq Nat
      BY <1>1
    <3>q. QED
      BY <2>1, <3>1, WFMin, NatLessThanWellFounded
  <2>3. m \in 0..Len(p.vars[b]) /\ z[m] # <<>> /\ \A y \in Bad : ~(y < m)
    <3>1. Bad \subseteq Nat /\ m \in Nat
      BY <1>1
    <3>q. QED
      BY <2>2, <3>1 DEF OpToRel
  <2>4. m # 0
    BY <1>2, <2>3 DEF ZeroSteps
  <2>5. m - 1 \in 0..Len(p.vars[b]) /\ m - 1 \in Nat /\ m - 1 < m /\ (m - 1) + 1 = m /\ m \in 1..Len(p.vars[b])
    BY <1>1, <2>3, <2>4
  <2>6. z[m - 1] = <<>>
    BY <2>3, <2>5
  <2>7. p.vars[b][m] \in ElementsOf(p.vars[b])
    BY <1>1, <2>5 DEF ElementsOf
  <2>8. z[m] = OneZero(p, f, b, m, <<>>)
    BY <1>2, <2>5, <2>6 DEF ZeroSteps
  <2>q. QED
    BY <2>3, <2>7, <2>8 DEF OneZero
<1>4. z[Len(p.vars[b])] = <<>>
  <2>1. Len(p.vars[b]) \in 0..Len(p.vars[b])
    BY <1>1
  <2>q. QED
    BY <1>3, <2>1
<1>q. QED
  BY <1>2, <1>4 DEF Zeroed!Zeros

\* What a frame of the second walk has collected: the zeros of its chain so far.
InitsExact(g) ==
  /\ g.chain <= Len(prog.vars[g.seq]) + 1
  /\ g.inits = Zeroed!ZerosUpTo(prog, fun, g.seq)[g.chain - 1]

\* Every sequence has its zeros or is as the front end delivered it.
AllOrNone(s) ==
  body[s] = prog.body[s] \/
    \E f \in Functions : s \in Zeroed!Binds(prog, f) /\ body[s] = Zeroed!Zeros(prog, f, s) \o prog.body[s]
ZerosExact ==
  /\ \A s \in Seqs : AllOrNone(s)
  /\ phase = "assign" => \A k \in 1..Len(walk) : InitsExact(walk[k])

\* A frame starts before its chain, with nothing collected.
LEMMA NewInitsExact ==
  ASSUME TypeOK, NEW s \in Seqs
  PROVE  InitsExact(NewFrame(s))
<1>1. Len(prog.vars[s]) \in Nat
  <2>1. prog.vars[s] \in Seq(Decls)
    BY DEF TypeOK, Program
  <2>q. QED
    BY <2>1
<1>2. Zeroed!ZerosUpTo(prog, fun, s)[0] = <<>>
  BY ZerosSteps DEF ZeroSteps
<1>q. QED
  BY <1>1, <1>2 DEF InitsExact, NewFrame

\* Frames that keep their place in the chain, and new ones.
LEMMA ExactStay ==
  ASSUME TypeOK, ZerosExact, UNCHANGED <<prog, body, fun>>,
         \A k \in 1..Len(walk') : \/ \E s \in Seqs : walk'[k] = NewFrame(s)
                                  \/ /\ phase = "assign" /\ k \in 1..Len(walk) /\ walk'[k].seq = walk[k].seq
                                     /\ walk'[k].chain = walk[k].chain /\ walk'[k].inits = walk[k].inits
  PROVE  ZerosExact'
<1>1. \A s \in Seqs : AllOrNone(s)'
  BY DEF ZerosExact, AllOrNone
<1>2. ASSUME NEW k \in 1..Len(walk') PROVE InitsExact(walk[k])'
  <2>1. ASSUME NEW s \in Seqs, walk'[k] = NewFrame(s) PROVE InitsExact(walk[k])'
    <3>1. InitsExact(NewFrame(s))
      BY NewInitsExact
    <3>q. QED
      BY <2>1, <3>1 DEF InitsExact
  <2>2. CASE /\ phase = "assign" /\ k \in 1..Len(walk) /\ walk'[k].seq = walk[k].seq
             /\ walk'[k].chain = walk[k].chain /\ walk'[k].inits = walk[k].inits
    BY <2>2 DEF ZerosExact, InitsExact
  <2>q. QED
    BY <2>1, <2>2
<1>q. QED
  BY <1>1, <1>2 DEF ZerosExact

\* The zeros of the bind whose chain is done are those promised for it.
LEMMA InitsDone ==
  ASSUME TypeOK, NEW E, NEW done, PassHeld(E, done), ZerosExact, AssignSetBody
  PROVE  /\ fun \in Functions /\ fun \notin compiled /\ Top.seq \in Seqs /\ Top.seq \in Zeroed!Binds(prog, fun)
         /\ body[Top.seq] = prog.body[Top.seq] /\ Top.inits = Zeroed!Zeros(prog, fun, Top.seq)
<1>1. phase = "assign" /\ walk # <<>> /\ Top.chain > Len(prog.vars[Top.seq])
  BY DEF AssignSetBody
<1>2. Top.seq \in E /\ Top.seq \in Seqs /\ body[Top.seq] = prog.body[Top.seq]
  BY <1>1, StatementNow
<1>3. fun \in Functions /\ fun \notin compiled /\ E \subseteq Zeroed!Binds(prog, fun)
  BY <1>1 DEF PassHeld, WalkHeld, Walked
<1>4. Len(walk) \in 1..Len(walk) /\ Top \in Frame /\ Top = walk[Len(walk)]
  BY <1>1, TopType DEF TypeOK, Top
<1>5. InitsExact(Top)
  BY <1>1, <1>4 DEF ZerosExact
<1>6. Top.chain - 1 = Len(prog.vars[Top.seq])
  <2>1. prog.vars[Top.seq] \in Seq(Decls)
    BY <1>2 DEF TypeOK, Program
  <2>2. Len(prog.vars[Top.seq]) \in Nat /\ Top.chain \in Nat
    BY <1>4, <2>1 DEF Frame
  <2>q. QED
    BY <1>1, <1>5, <2>2 DEF InitsExact
<1>q. QED
  BY <1>2, <1>3, <1>5, <1>6 DEF InitsExact, Zeroed!Zeros

\* Every step of the pass leaves each sequence with all of its zeros or none.
LEMMA ExactStep ==
  ASSUME TypeOK, NEW E, NEW done, PassHeld(E, done), Captured, ZerosExact, [Next]_vars
  PROVE  ZerosExact'
<1>1. ASSUME UNCHANGED <<prog, body>>, phase' # "assign" PROVE ZerosExact'
  BY <1>1 DEF ZerosExact, AllOrNone
<1>2. CASE (\E f \in Functions : Execute(f)) \/ GatherBind \/ GatherAssign \/ GatherOther \/ GatherReturn \/ Return
  BY <1>1, <1>2 DEF Execute, GatherBind, GatherAssign, GatherOther, GatherReturn, Return
<1>3. CASE StartAssign
  <2>1. fun \in Seqs /\ Len(walk') = 1 /\ walk'[1] = NewFrame(fun) /\ UNCHANGED <<prog, body, fun>>
    BY <1>3, GimpleAssumption DEF StartAssign, TypeOK
  <2>q. QED
    BY <2>1, ExactStay
<1>4. CASE AssignBind
  <2>1. PICK s \in Seqs : s = Stmt.seq
    BY <1>4, StmtType DEF AssignBind, Statement, Nesting
  <2>2. walk \in Seq(Frame) /\ walk # <<>> /\ phase = "assign"
    BY <1>4 DEF AssignBind, HasStmt, TypeOK
  <2>3. /\ Advanced \in Seq(Frame) /\ Len(Advanced) = Len(walk) /\ Len(walk) \in Nat \ {0}
        /\ \A k \in 1..Len(walk) : /\ Advanced[k].seq = walk[k].seq /\ Advanced[k].chain = walk[k].chain
                                   /\ Advanced[k].inits = walk[k].inits
    BY <2>2, AdvancedFrames, TopType
  <2>4. walk' = Append(Advanced, NewFrame(s)) /\ UNCHANGED <<prog, body, fun>>
    BY <1>4, <2>1 DEF AssignBind
  <2>5. /\ Len(walk') = Len(walk) + 1 /\ walk'[Len(walk) + 1] = NewFrame(s)
        /\ \A k \in 1..Len(walk) : walk'[k] = Advanced[k]
    BY <2>3, <2>4
  <2>6. \A k \in 1..Len(walk') : k \in 1..Len(walk) \/ k = Len(walk) + 1
    BY <2>3, <2>5
  <2>q. QED
    BY <2>2, <2>3, <2>4, <2>5, <2>6, ExactStay
<1>5. CASE AssignOther
  <2>1. walk \in Seq(Frame) /\ walk # <<>> /\ phase = "assign" /\ walk' = Advanced /\ UNCHANGED <<prog, body, fun>>
    BY <1>5 DEF AssignOther, HasStmt, TypeOK
  <2>q. QED
    BY <2>1, AdvancedFrames, ExactStay
<1>6. CASE AssignVar
  <2>1. /\ phase = "assign" /\ walk # <<>> /\ Top.chain <= Len(prog.vars[Top.seq])
        /\ walk' = [walk EXCEPT ![Len(walk)] = [Top EXCEPT !.chain = @ + 1, !.inits = WithInits]]
        /\ UNCHANGED <<prog, body, uninitialised_vars, phase, fun, compiled>>
    BY <1>6 DEF AssignVar
  <2>2. walk \in Seq(Frame) /\ Len(walk) \in 1..Len(walk) /\ Top \in Frame /\ Top = walk[Len(walk)]
    BY <2>1, TopType DEF TypeOK, Top
  <2>3. Top.chain \in Nat \ {0} /\ Top.seq \in Seqs
    BY <2>2 DEF Frame
  <2>4. PICK new : new = [Top EXCEPT !.chain = @ + 1, !.inits = WithInits]
    OBVIOUS
  <2>5. new.seq = Top.seq /\ new.chain = Top.chain + 1 /\ new.inits = WithInits
    BY <2>2, <2>4 DEF Frame
  <2>6. Len(walk') = Len(walk) /\ \A k \in 1..Len(walk) : walk'[k] = IF k = Len(walk) THEN new ELSE walk[k]
    BY <2>1, <2>2, <2>4
  <2>7. InitsExact(Top)
    BY <2>1, <2>2 DEF ZerosExact
  <2>8. InitsExact(new)
    <3>1. Len(prog.vars[Top.seq]) \in Nat
      <4>1. prog.vars[Top.seq] \in Seq(Decls)
        BY <2>3 DEF TypeOK, Program
      <4>q. QED
        BY <4>1
    <3>2. uninitialised_vars = Zeroed!NeverAssigned(prog, fun)
      BY <2>1 DEF PassHeld, SetHeld
    <3>3. PICK z : z = Zeroed!ZerosUpTo(prog, fun, Top.seq) /\ ZeroSteps(prog, fun, Top.seq, z)
      BY ZerosSteps
    <3>4. Top.chain - 1 \in Nat /\ (Top.chain - 1) + 1 = Top.chain /\ new.chain - 1 = Top.chain
      BY <2>3, <2>5
    <3>5. z[Top.chain] = OneZero(prog, fun, Top.seq, Top.chain, Top.inits)
      BY <2>7, <3>3, <3>4 DEF ZeroSteps, InitsExact
    <3>6. z[Top.chain] = WithInits
      BY <3>2, <3>5 DEF OneZero, WithInits, ChainVar
    <3>7. new.chain <= Len(prog.vars[Top.seq]) + 1
      BY <2>1, <2>3, <2>5, <3>1
    <3>q. QED
      BY <2>5, <3>3, <3>4, <3>6, <3>7 DEF InitsExact
  <2>9. ASSUME NEW k \in 1..Len(walk') PROVE InitsExact(walk[k])'
    <3>1. PICK g : g = walk'[k]
      OBVIOUS
    <3>2. InitsExact(g)
      BY <2>1, <2>6, <2>8, <3>1 DEF ZerosExact
    <3>q. QED
      BY <2>1, <3>1, <3>2 DEF InitsExact
  <2>q. QED
    BY <2>1, <2>9 DEF ZerosExact, AllOrNone
<1>7. CASE AssignSetBody
  <2>1. /\ phase = "assign" /\ walk # <<>> /\ ~HasStmt /\ ~Bottom
        /\ body' = [body EXCEPT ![Top.seq] = Top.inits \o @] /\ walk' = Pop(walk)
        /\ UNCHANGED <<prog, uninitialised_vars, phase, fun, compiled>>
    BY <1>7, CapturedNow DEF AssignSetBody
  <2>2. /\ fun \in Functions /\ Top.seq \in Seqs /\ Top.seq \in Zeroed!Binds(prog, fun)
        /\ body[Top.seq] = prog.body[Top.seq] /\ Top.inits = Zeroed!Zeros(prog, fun, Top.seq)
    BY <1>7, InitsDone
  <2>3. ASSUME NEW s \in Seqs PROVE AllOrNone(s)'
    <3>1. CASE s = Top.seq
      <4>1. body'[s] = Zeroed!Zeros(prog, fun, s) \o prog.body[s]
        BY <2>1, <2>2, <3>1 DEF TypeOK
      <4>q. QED
        BY <2>1, <2>2, <3>1, <4>1 DEF AllOrNone
    <3>2. CASE s # Top.seq
      <4>1. body'[s] = body[s]
        BY <2>1, <3>2 DEF TypeOK
      <4>q. QED
        BY <2>1, <4>1 DEF ZerosExact, AllOrNone
    <3>q. QED
      BY <3>1, <3>2
  <2>4. ASSUME NEW k \in 1..Len(walk') PROVE InitsExact(walk[k])'
    <3>1. k \in 1..Len(walk) /\ walk'[k] = walk[k]
      BY <2>1, PopWalked
    <3>q. QED
      BY <2>1, <3>1 DEF ZerosExact, InitsExact
  <2>q. QED
    BY <2>3, <2>4 DEF ZerosExact
<1>8. CASE UNCHANGED vars
  BY <1>8 DEF vars, ZerosExact, AllOrNone, InitsExact
<1>q. QED
  BY <1>2, <1>3, <1>4, <1>5, <1>6, <1>7, <1>8 DEF Next

\* When execute returns, all binds of the function have their zeros.
LEMMA ReturnExact ==
  ASSUME TypeOK, NEW E, NEW done, PassHeld(E, done), ZerosExact, Return
  PROVE  fun \in Functions /\ fun \notin compiled
         /\ \A b \in Zeroed!Binds(prog, fun) : body[b] = Zeroed!Zeros(prog, fun, b) \o prog.body[b]
<1>1. fun \in Functions /\ fun \notin compiled
  BY DEF Return, PassHeld, WalkHeld, Walked
<1>2. prog \in Program /\ WellFormed(prog)
  BY ProgramNow
<1>3. Zeroed!Binds(prog, fun) \subseteq Seqs
  BY <1>1, <1>2, BindsTree DEF Tree
<1>4. CompiledZeroed' /\ compiled' = compiled \cup {fun} /\ prog' = prog /\ body' = body
  BY ReturnHeld DEF Return, PassHeld
<1>5. ASSUME NEW b \in Zeroed!Binds(prog, fun) PROVE body[b] = Zeroed!Zeros(prog, fun, b) \o prog.body[b]
  <2>1. CASE body[b] = prog.body[b]
    <3>1. prog.body[b] \in Seq(Statement) /\ b \in Seqs
      BY <1>2, <1>3 DEF Program
    <3>2. ASSUME NEW d \in ElementsOf(prog.vars[b]) \cap Zeroed!NeverAssigned(prog, fun) PROVE FALSE
      <4>1. PICK j \in 1..Len(body[b]) : body[b][j] = AssignZero(d)
        <5>1. ZeroIn(b, d)'
          BY <1>4 DEF CompiledZeroed
        <5>q. QED
          BY <1>4, <5>1 DEF ZeroIn
      <4>2. prog.body[b][j].zero /\ prog.body[b][j] \in ElementsOf(prog.body[b])
        BY <2>1, <3>1, <4>1 DEF AssignZero, ElementsOf
      <4>q. QED
        BY <1>2, <3>1, <4>2 DEF WellFormed
    <3>3. Zeroed!Zeros(prog, fun, b) = <<>>
      BY <1>2, <3>1, <3>2, NoZeros
    <3>q. QED
      BY <2>1, <3>1, <3>3
  <2>2. ASSUME NEW f \in Functions, b \in Zeroed!Binds(prog, f), body[b] = Zeroed!Zeros(prog, f, b) \o prog.body[b]
        PROVE  body[b] = Zeroed!Zeros(prog, fun, b) \o prog.body[b]
    BY <1>1, <1>2, <2>2, TreesApart
  <2>q. QED
    BY <1>3, <2>1, <2>2 DEF ZerosExact, AllOrNone
<1>q. QED
  BY <1>1, <1>5

\* A new body is one step of the promise, the return of execute another; the rest is invisible.
LEMMA ZeroedStep ==
  ASSUME TypeOK, NEW E, NEW done, PassHeld(E, done), Captured, ZerosExact, [Next]_vars
  PROVE  [Zeroed!Next]_<<prog, body, compiled>>
<1>1. CASE AssignSetBody
  <2>1. /\ fun \in Functions /\ fun \notin compiled /\ Top.seq \in Zeroed!Binds(prog, fun)
        /\ body[Top.seq] = prog.body[Top.seq] /\ Top.inits = Zeroed!Zeros(prog, fun, Top.seq)
    BY <1>1, InitsDone
  <2>2. Zeroed!Zero(fun, Top.seq)
    BY <1>1, <2>1, CapturedNow DEF AssignSetBody, Zeroed!Zero
  <2>q. QED
    BY <2>1, <2>2 DEF Zeroed!Next
<1>2. CASE Return
  <2>1. Zeroed!Finish(fun) /\ fun \in Functions
    BY <1>2, ReturnExact DEF Return, Zeroed!Finish
  <2>q. QED
    BY <2>1 DEF Zeroed!Next
<1>3. CASE ~AssignSetBody /\ ~Return
  BY <1>3 DEF Next, vars, Execute, GatherBind, GatherAssign, GatherOther, GatherReturn, StartAssign, AssignBind,
     AssignOther, AssignVar
<1>q. QED
  BY <1>1, <1>2, <1>3

\* The pass implements what it is for: binds get the zeros for the variables the function never
\* sets, each bind all of them at once and in the order of its chain, in front of its statements
\* as they were, and a function that execute has returned from has them in every bind.
THEOREM ZeroedImplemented == Spec => ImplementsZeroed
<1>1. Init => Zeroed!Init /\ ZerosExact
  <2> SUFFICES ASSUME Init PROVE Zeroed!Init /\ ZerosExact
    OBVIOUS
  <2>1. prog \in Program /\ body = prog.body /\ compiled = {} /\ phase = "idle"
    BY ProgramsAssumption DEF Init
  <2>2. prog \in Zeroed!Program
    BY <2>1 DEF Program, Zeroed!Program, Statement, Zeroed!Statement, Codes, Zeroed!Codes, Nesting, Zeroed!Nesting
  <2>q. QED
    BY <2>1, <2>2 DEF Zeroed!Init, ZerosExact, AllOrNone
<1>2. TypeOK /\ Passing /\ ZerosExact /\ [Next]_vars => ZerosExact' /\ [Zeroed!Next]_<<prog, body, compiled>>
  BY ExactStep, ZeroedStep DEF Passing, Walking
<1>3. Zeroed!vars = <<prog, body, compiled>>
  BY DEF Zeroed!vars
<1>4. Init /\ [][Next]_vars => []TypeOK /\ []Passing
  BY SafeTypes, PassingAlways, PTL
<1>5. Init /\ [][Next]_vars => Zeroed!Init /\ [][Zeroed!Next]_<<prog, body, compiled>>
  BY <1>1, <1>2, <1>4, PTL
<1>q. QED
  BY <1>5, PTL DEF Spec, ImplementsZeroed, Zeroed!Spec, Zeroed!vars

-----------------------------------------------------------------------------
(* The statements a compiled program has *)

\* Only variables get a zero.
InitsNamed(f) == \A j \in 1..Len(f.inits) : f.inits[j].lhs \in VarDecls
ZerosNamed ==
  /\ \A s \in Seqs : \A j \in 1..Len(body[s]) : body[s][j].zero => body[s][j].lhs \in VarDecls
  /\ \A k \in 1..Len(walk) : InitsNamed(walk[k])

\* Steps that change no body, and add nothing to what the frames have collected.
LEMMA NamedSame ==
  ASSUME ZerosNamed, body' = body,
         \A k \in 1..Len(walk') : walk'[k].inits = <<>> \/ (k \in 1..Len(walk) /\ walk'[k].inits = walk[k].inits)
  PROVE  ZerosNamed'
<1>1. \A s \in Seqs : \A j \in 1..Len(body'[s]) : body'[s][j].zero => body'[s][j].lhs \in VarDecls
  BY DEF ZerosNamed
<1>2. ASSUME NEW k \in 1..Len(walk'), NEW j \in 1..Len(walk'[k].inits) PROVE walk'[k].inits[j].lhs \in VarDecls
  <2>1. CASE walk'[k].inits = <<>>
    BY <2>1
  <2>2. CASE k \in 1..Len(walk) /\ walk'[k].inits = walk[k].inits
    BY <2>2 DEF ZerosNamed, InitsNamed
  <2>q. QED
    BY <2>1, <2>2
<1>q. QED
  BY <1>1, <1>2 DEF ZerosNamed, InitsNamed

\* Only variables get a zero.
LEMMA SafeNamed == Init /\ [][Next]_vars => []ZerosNamed
<1>1. Init => ZerosNamed
  <2> SUFFICES ASSUME Init PROVE ZerosNamed
    OBVIOUS
  <2>1. prog \in Program /\ WellFormed(prog) /\ body = prog.body /\ walk = <<>>
    BY ProgramsAssumption DEF Init
  <2>2. ASSUME NEW s \in Seqs, NEW j \in 1..Len(body[s]) PROVE ~body[s][j].zero
    <3>1. body[s] \in Seq(Statement)
      BY <2>1 DEF Program
    <3>2. body[s][j] \in ElementsOf(prog.body[s])
      BY <2>1, <3>1 DEF ElementsOf
    <3>q. QED
      BY <2>1, <3>2 DEF WellFormed
  <2>q. QED
    BY <2>1, <2>2 DEF ZerosNamed
<1>2. TypeOK /\ Passing /\ ZerosNamed /\ [Next]_vars => ZerosNamed'
  <2> SUFFICES ASSUME TypeOK, Passing, ZerosNamed, [Next]_vars PROVE ZerosNamed'
    OBVIOUS
  <2>w. walk \in Seq(Frame)
    BY DEF TypeOK
  <2>n. ASSUME NEW s, walk' = <<NewFrame(s)>>, body' = body PROVE ZerosNamed'
    <3>1. \A k \in 1..Len(walk') : walk'[k].inits = <<>>
      BY <2>n DEF NewFrame
    <3>q. QED
      BY <2>n, <3>1, NamedSame
  <2>a. ASSUME walk # <<>>, walk' = Advanced, body' = body PROVE ZerosNamed'
    <3>1. \A k \in 1..Len(walk') : k \in 1..Len(walk) /\ walk'[k].inits = walk[k].inits
      BY <2>a, <2>w, AdvancedFrames
    <3>q. QED
      BY <2>a, <3>1, NamedSame
  <2>b. ASSUME NEW s, walk # <<>>, walk' = Append(Advanced, NewFrame(s)), body' = body PROVE ZerosNamed'
    <3>1. PICK v : v = Append(Advanced, NewFrame(s))
      OBVIOUS
    <3>2. Longer(v, s)
      BY <2>b, <2>w, <3>1, IntoFrames
    <3>3. ASSUME NEW k \in 1..Len(v) PROVE v[k].inits = <<>> \/ (k \in 1..Len(walk) /\ v[k].inits = walk[k].inits)
      <4>1. k \in 1..Len(walk) \/ k = Len(walk) + 1
        BY <3>2 DEF Longer
      <4>q. QED
        BY <3>2, <4>1 DEF Longer, NewFrame
    <3>q. QED
      BY <2>b, <3>1, <3>3, NamedSame
  <2>c. ASSUME walk # <<>>, walk' = Pop(walk), body' = body PROVE ZerosNamed'
    <3>1. \A k \in 1..Len(walk') : k \in 1..Len(walk) /\ walk'[k] = walk[k]
      BY <2>c, <2>w, PopKeeps
    <3>q. QED
      BY <2>c, <3>1, NamedSame
  <2>1. CASE \E f \in Functions : Execute(f)
    BY <2>1, <2>n DEF Execute
  <2>2. CASE GatherBind
    BY <2>2, <2>b DEF GatherBind, HasStmt
  <2>3. CASE GatherAssign
    BY <2>3, <2>a DEF GatherAssign, HasStmt
  <2>4. CASE GatherOther
    BY <2>4, <2>a DEF GatherOther, HasStmt
  <2>5. CASE GatherReturn
    BY <2>5, <2>c DEF GatherReturn
  <2>6. CASE StartAssign
    BY <2>6, <2>n DEF StartAssign
  <2>7. CASE AssignBind
    BY <2>7, <2>b DEF AssignBind, HasStmt
  <2>8. CASE AssignOther
    BY <2>8, <2>a DEF AssignOther, HasStmt
  <2>9. CASE AssignVar
    <3>1. /\ walk # <<>> /\ Top \in Frame /\ Len(walk) \in 1..Len(walk) /\ Top.inits \in Seq(Statement)
          /\ body' = body /\ walk' = [walk EXCEPT ![Len(walk)] = [Top EXCEPT !.chain = @ + 1, !.inits = WithInits]]
      BY <2>9, <2>w, TopType DEF AssignVar, Frame
    <3> DEFINE new == [Top EXCEPT !.chain = @ + 1, !.inits = WithInits]
    <3>2. new.inits = WithInits
      BY <3>1 DEF Frame
    <3>3. \A j \in 1..Len(Top.inits) : Top.inits[j].lhs \in VarDecls
      BY <3>1 DEF ZerosNamed, InitsNamed, Top
    <3>4. ASSUME NEW j \in 1..Len(WithInits) PROVE WithInits[j].lhs \in VarDecls
      <4>1. CASE ChainVar \in uninitialised_vars
        <5>1. ChainVar \in VarDecls /\ WithInits = Append(Top.inits, AssignZero(ChainVar))
          BY <4>1 DEF TypeOK, Named, WithInits
        <5>2. AssignZero(ChainVar).lhs \in VarDecls
          BY <5>1 DEF AssignZero
        <5>3. (j \in 1..Len(Top.inits) /\ WithInits[j] = Top.inits[j]) \/ WithInits[j] = AssignZero(ChainVar)
          BY <3>1, <5>1
        <5>q. QED
          BY <3>3, <5>2, <5>3
      <4>2. CASE ChainVar \notin uninitialised_vars
        BY <3>3, <4>2 DEF WithInits
      <4>q. QED
        BY <4>1, <4>2
    <3> HIDE DEF new
    <3>5. walk' = [walk EXCEPT ![Len(walk)] = new]
      BY <3>1 DEF new
    <3>6. ASSUME NEW k \in 1..Len(walk') PROVE InitsNamed(walk[k])'
      <4>1. k \in 1..Len(walk) /\ walk'[k] = IF k = Len(walk) THEN new ELSE walk[k]
        BY <2>w, <3>5
      <4>2. CASE k = Len(walk)
        BY <3>2, <3>4, <4>1, <4>2 DEF InitsNamed
      <4>3. CASE k # Len(walk)
        BY <4>1, <4>3 DEF ZerosNamed, InitsNamed
      <4>q. QED
        BY <4>2, <4>3
    <3>7. \A s \in Seqs : \A j \in 1..Len(body'[s]) : body'[s][j].zero => body'[s][j].lhs \in VarDecls
      BY <3>1 DEF ZerosNamed
    <3>q. QED
      BY <3>6, <3>7 DEF ZerosNamed
  <2>10. CASE AssignSetBody
    <3>1. /\ walk # <<>> /\ Top.seq \in Seqs /\ Top.inits \in Seq(Statement) /\ Len(walk) \in 1..Len(walk)
          /\ body \in [Seqs -> Seq(Statement)] /\ body' = [body EXCEPT ![Top.seq] = Top.inits \o @]
          /\ walk' = Pop(walk)
      <4>1. body' = [body EXCEPT ![Top.seq] = Top.inits \o @]
        BY <2>10, CapturedNow DEF Passing, Walking
      <4>q. QED
        BY <2>10, <2>w, <4>1, TopType DEF AssignSetBody, Frame, TypeOK
    <3>2. \A j \in 1..Len(Top.inits) : Top.inits[j].lhs \in VarDecls
      BY <3>1 DEF ZerosNamed, InitsNamed, Top
    <3>3. ASSUME NEW s \in Seqs, NEW j \in 1..Len(body'[s]), body'[s][j].zero PROVE body'[s][j].lhs \in VarDecls
      <4>1. \A r \in 1..Len(body[s]) : body[s][r].zero => body[s][r].lhs \in VarDecls
        BY DEF ZerosNamed
      <4>2. CASE s = Top.seq
        <5>1. body[s] \in Seq(Statement) /\ body'[s] = Top.inits \o body[s]
          BY <3>1, <4>2
        <5>2. \A a, b \in Seq(Statement) : \A n \in 1..Len(a \o b) :
                \/ n \in 1..Len(a) /\ (a \o b)[n] = a[n]
                \/ n - Len(a) \in 1..Len(b) /\ (a \o b)[n] = b[n - Len(a)]
          OBVIOUS
        <5>3. \/ j \in 1..Len(Top.inits) /\ (Top.inits \o body[s])[j] = Top.inits[j]
              \/ j - Len(Top.inits) \in 1..Len(body[s]) /\ (Top.inits \o body[s])[j] = body[s][j - Len(Top.inits)]
          BY <3>1, <5>1, <5>2
        <5>q. QED
          BY <3>2, <3>3, <4>1, <5>1, <5>3
      <4>3. CASE s # Top.seq
        BY <3>1, <3>3, <4>1, <4>3
      <4>q. QED
        BY <4>2, <4>3
    <3>4. \A k \in 1..Len(walk') : k \in 1..Len(walk) /\ walk'[k] = walk[k]
      BY <3>1, <2>w, PopKeeps
    <3>5. \A k \in 1..Len(walk') : InitsNamed(walk[k])'
      BY <3>4 DEF ZerosNamed, InitsNamed
    <3>q. QED
      BY <3>3, <3>5 DEF ZerosNamed
  <2>11. CASE Return
    <3>1. 1..Len(walk') = {} /\ body' = body
      BY <2>11 DEF Return
    <3>q. QED
      BY <3>1, NamedSame
  <2>12. CASE UNCHANGED vars
    BY <2>12 DEF vars, ZerosNamed, InitsNamed
  <2>q. QED
    BY <2>1, <2>2, <2>3, <2>4, <2>5, <2>6, <2>7, <2>8, <2>9, <2>10, <2>11, <2>12 DEF Next
<1>q. QED
  BY <1>1, <1>2, SafeTypes, PassingAlways, PTL

\* The zeros are the first statements of a sequence, the rest is what the program had.
LEMMA ZerosFirst ==
  ASSUME TypeOK, prog \in Programs, StatementsKept, NEW s \in Seqs
  PROVE  /\ Inserted(s) \in Nat /\ body[s] \in Seq(Statement) /\ prog.body[s] \in Seq(Statement)
         /\ \A j \in 1..Len(body[s]) :
              /\ body[s][j].zero <=> j <= Inserted(s)
              /\ j <= Inserted(s) => body[s][j].lhs \in ElementsOf(prog.vars[s]) /\ body[s][j].code = "GIMPLE_ASSIGN"
              /\ j > Inserted(s) => j - Inserted(s) \in 1..Len(prog.body[s]) /\
                      body[s][j] = prog.body[s][j - Inserted(s)]
<1>1. body[s] \in Seq(Statement) /\ prog.body[s] \in Seq(Statement) /\ WellFormed(prog)
  BY ProgramsAssumption DEF TypeOK, Program
<1> DEFINE n == Len(body[s]) - Len(prog.body[s])
<1>2. /\ n >= 0 /\ n \in Nat /\ Len(body[s]) \in Nat /\ Len(prog.body[s]) \in Nat
      /\ \A i \in 1..Len(prog.body[s]) : body[s][n + i] = prog.body[s][i]
      /\ \A i \in 1..n : \E d \in ElementsOf(prog.vars[s]) : body[s][i] = AssignZero(d)
  <2>1. ZeroPrefixed(body[s], prog.body[s], ElementsOf(prog.vars[s]))
    BY DEF StatementsKept
  <2>2. Len(body[s]) \in Nat /\ Len(prog.body[s]) \in Nat
    BY <1>1
  <2>3. /\ n >= 0
        /\ \A i \in 1..Len(prog.body[s]) : body[s][n + i] = prog.body[s][i]
        /\ \A i \in 1..n : \E d \in ElementsOf(prog.vars[s]) : body[s][i] = AssignZero(d)
    BY <2>1, Zenon DEF ZeroPrefixed
  <2>4. n \in Nat
    BY <2>2, <2>3
  <2>q. QED
    BY <2>2, <2>3, <2>4
<1>3. Inserted(s) = n
  BY DEF Inserted
<1>4. n + Len(prog.body[s]) = Len(body[s])
  BY <1>1
<1> HIDE DEF n
<1>5. ASSUME NEW j \in 1..Len(body[s]), j <= n
      PROVE  body[s][j].zero /\ body[s][j].lhs \in ElementsOf(prog.vars[s]) /\ body[s][j].code = "GIMPLE_ASSIGN"
  <2>1. j \in 1..n
    BY <1>2, <1>5
  <2>2. PICK d \in ElementsOf(prog.vars[s]) : body[s][j] = AssignZero(d)
    BY <1>2, <2>1
  <2>q. QED
    BY <2>2 DEF AssignZero
<1>6. ASSUME NEW j \in 1..Len(body[s]), j > n
      PROVE  j - n \in 1..Len(prog.body[s]) /\ body[s][j] = prog.body[s][j - n] /\ ~body[s][j].zero
  <2>1. j - n \in 1..Len(prog.body[s]) /\ n + (j - n) = j
    BY <1>2, <1>4, <1>6
  <2>2. body[s][j] = prog.body[s][j - n]
    BY <1>2, <2>1
  <2>3. prog.body[s][j - n] \in ElementsOf(prog.body[s])
    BY <1>1, <2>1 DEF ElementsOf
  <2>q. QED
    BY <1>1, <2>1, <2>2, <2>3 DEF WellFormed
<1>7. \A j \in 1..Len(body[s]) : j <= n \/ j > n
  BY <1>2
<1>8. \A j \in 1..Len(body[s]) : ~(j <= n /\ j > n)
  BY <1>2
<1>q. QED
  BY <1>1, <1>2, <1>3, <1>5, <1>6, <1>7, <1>8

-----------------------------------------------------------------------------
(* Running a compiled program *)

Values   == {"junk", "zero", "value"}
RunFrame == [seq : Seqs, pos : Nat \ {0}, jumped : BOOLEAN]
RunTypes ==
  /\ orig \in [Decls -> Values] /\ inst \in [Decls -> Values]
  /\ frames \in Seq(RunFrame)
  /\ frames # <<>> => Compiled

\* What is known of the pass at every moment.
PassFacts == TypeOK /\ prog \in Programs /\ StatementsKept /\ ZerosNamed /\ CompiledZeroed

\* The facts about the pass hold at every moment of it.
LEMMA PassFactsAlways == Init /\ [][Next]_vars => []PassFacts
<1>1. Passing => prog \in Programs /\ CompiledZeroed
  BY DEF Passing, Walking, PassHeld
<1>q. QED
  BY <1>1, PassingAlways, SafeTypes, SafeStatements, SafeNamed, PTL DEF PassFacts

\* Nothing of the pass moves while a program runs.
LEMMA RunMoves ==
  ASSUME RunTypes, [RunNext]_<<vars, run_vars>>
  PROVE  [Next]_vars /\ (frames # <<>> => UNCHANGED vars)
<1>1. ASSUME Next, UNCHANGED run_vars PROVE frames # <<>> => UNCHANGED vars
  <2> SUFFICES ASSUME frames # <<>> PROVE UNCHANGED vars
    BY <1>1
  <2>1. phase = "idle" /\ compiled = Functions
    BY DEF RunTypes, Compiled
  <2>q. QED
    BY <1>1, <2>1 DEF Next, Execute, GatherBind, GatherAssign, GatherOther, GatherReturn, StartAssign,
        AssignBind, AssignOther, AssignVar, AssignSetBody, Return
<1>2. ASSUME UNCHANGED vars PROVE [Next]_vars /\ (frames # <<>> => UNCHANGED vars)
  BY <1>2
<1>q. QED
  BY <1>1, <1>2 DEF RunNext, Compile, CallFunction, Enter, ExecProgram, ExecInserted, Jump, PassLabel, Branch,
     ReturnFromFunction, Leave, vars, run_vars

\* The frames after a statement.
Moved(fs, k) ==
  /\ Len(fs) = Len(frames) /\ fs \in Seq(RunFrame)
  /\ \A n \in 1..Len(frames) :
       /\ fs[n].seq = frames[n].seq /\ fs[n].jumped = frames[n].jumped
       /\ fs[n].pos = IF n = Len(frames) THEN frames[n].pos + k ELSE frames[n].pos

\* Past(k) moves the innermost frame only.
LEMMA PastMoved ==
  ASSUME frames \in Seq(RunFrame), frames # <<>>, NEW k \in Nat
  PROVE  Moved(Past(k), k)
<1>1. Len(Past(k)) = Len(frames) /\ Len(frames) \in 1..Len(frames)
  BY DEF Past
<1>2. ASSUME NEW n \in 1..Len(frames)
      PROVE  /\ Past(k)[n].seq = frames[n].seq /\ Past(k)[n].jumped = frames[n].jumped
             /\ Past(k)[n].pos = IF n = Len(frames) THEN frames[n].pos + k ELSE frames[n].pos
  <2>1. frames[n] \in RunFrame
    OBVIOUS
  <2>2. Past(k)[n] = IF n = Len(frames) THEN [frames[n] EXCEPT !.pos = @ + k] ELSE frames[n]
    BY DEF Past
  <2>q. QED
    BY <2>1, <2>2 DEF RunFrame
<1>3. Past(k) \in Seq(RunFrame)
  <2> DEFINE top == [frames[Len(frames)] EXCEPT !.pos = @ + k]
  <2>1. top \in RunFrame
    <3>1. frames[Len(frames)] \in RunFrame
      BY <1>1
    <3>2. \A f \in RunFrame : f.pos + k \in Nat \ {0}
      BY DEF RunFrame
    <3>3. \A f \in RunFrame : \A p \in Nat \ {0} : [f EXCEPT !.pos = p] \in RunFrame
      BY DEF RunFrame
    <3>q. QED
      BY <3>1, <3>2, <3>3
  <2>2. Past(k) = [frames EXCEPT ![Len(frames)] = top]
    BY DEF Past
  <2> HIDE DEF top
  <2>q. QED
    BY <1>1, <2>1, <2>2
<1>q. QED
  BY <1>1, <1>2, <1>3 DEF Moved

\* The frame and the statement that is executed.
LEMMA RunningTypes ==
  ASSUME PassFacts, RunTypes, Running
  PROVE  /\ frames # <<>> /\ Len(frames) \in 1..Len(frames) /\ Cur = frames[Len(frames)] /\ Cur \in RunFrame
         /\ Cur.seq \in Seqs /\ Cur.pos \in 1..Len(body[Cur.seq]) /\ Now \in Statement /\ Now = body[Cur.seq][Cur.pos]
<1>1. frames # <<>> /\ Len(frames) \in 1..Len(frames) /\ Cur = frames[Len(frames)] /\ Cur \in RunFrame
  BY DEF Running, RunTypes, Cur
<1>2. Cur.seq \in Seqs /\ Cur.pos \in Nat \ {0} /\ Cur.pos <= Len(body[Cur.seq])
  BY <1>1 DEF Running, RunFrame
<1>3. body[Cur.seq] \in Seq(Statement)
  BY <1>2 DEF PassFacts, TypeOK
<1>4. Cur.pos \in 1..Len(body[Cur.seq])
  BY <1>2, <1>3
<1>q. QED
  BY <1>1, <1>2, <1>3, <1>4 DEF Now

\* The statements a plugin did not put there come after those it did.
LEMMA NowPlace ==
  ASSUME PassFacts, RunTypes, Running
  PROVE  /\ Inserted(Cur.seq) \in Nat
         /\ Now.zero <=> Cur.pos <= Inserted(Cur.seq)
         /\ Now.zero => Now.lhs \in ElementsOf(prog.vars[Cur.seq]) /\ Now.lhs \in VarDecls /\ Now.code = "GIMPLE_ASSIGN"
         /\ ~Now.zero => /\ Cur.pos - Inserted(Cur.seq) \in 1..Len(prog.body[Cur.seq])
                         /\ Now = prog.body[Cur.seq][Cur.pos - Inserted(Cur.seq)]
<1>1. Cur.seq \in Seqs /\ Cur.pos \in 1..Len(body[Cur.seq]) /\ Now = body[Cur.seq][Cur.pos]
  BY RunningTypes
<1>2. Now.zero => Now.lhs \in VarDecls
  BY <1>1 DEF PassFacts, ZerosNamed
<1>3. Inserted(Cur.seq) \in Nat /\ (Cur.pos <= Inserted(Cur.seq) \/ Cur.pos > Inserted(Cur.seq))
  BY <1>1, ZerosFirst DEF PassFacts
<1>q. QED
  BY <1>1, <1>2, <1>3, ZerosFirst DEF PassFacts

\* The front of a sequence.
LEMMA CutKeeps ==
  ASSUME NEW S, NEW w \in Seq(S), NEW n \in 0..Len(w)
  PROVE  /\ SubSeq(w, 1, n) \in Seq(S) /\ Len(SubSeq(w, 1, n)) = n
         /\ \A i \in 1..n : SubSeq(w, 1, n)[i] = w[i]
<1>1. n \in Nat /\ 1 \in Int /\ n \in Int /\ \A i \in 1..n : w[i] \in S
  OBVIOUS
<1>2. /\ SubSeq(w, 1, n) \in Seq(S)
      /\ Len(SubSeq(w, 1, n)) = IF 1 <= n THEN n - 1 + 1 ELSE 0
      /\ \A i \in 1..(n - 1 + 1) : SubSeq(w, 1, n)[i] = w[1 + i - 1]
  BY <1>1, SubSeqProperties
<1>3. n - 1 + 1 = n /\ (IF 1 <= n THEN n - 1 + 1 ELSE 0) = n /\ \A i \in 1..n : 1 + i - 1 = i
  BY <1>1
<1>4. Len(SubSeq(w, 1, n)) = n
  BY <1>2, <1>3, Zenon
<1>5. ASSUME NEW i \in 1..n PROVE SubSeq(w, 1, n)[i] = w[i]
  BY <1>2, <1>3, <1>5, Zenon
<1>q. QED
  BY <1>2, <1>4, <1>5

\* The frames after a branch back into frame n, and after a sequence has ended.
Cut(fs, n) ==
  /\ fs \in Seq(RunFrame) /\ n \in 0..Len(frames) /\ Len(fs) = n
  /\ \A m \in 1..n : fs[m].seq = frames[m].seq /\ fs[m].jumped = frames[m].jumped
  /\ \A m \in 1..(n - 1) : fs[m] = frames[m]

\* A branch back to label i of frame n.
LEMMA BranchCut ==
  ASSUME frames \in Seq(RunFrame), NEW n \in DOMAIN frames, NEW i \in 1..(frames[n].pos - 1),
         NEW fs, fs = Append(SubSeq(frames, 1, n - 1), [frames[n] EXCEPT !.pos = i + 1])
  PROVE  n \in 1..Len(frames) /\ Cut(fs, n) /\ fs[n].pos = i + 1
<1>1. n \in 1..Len(frames) /\ n - 1 \in 0..Len(frames) /\ frames[n] \in RunFrame
  OBVIOUS
<1> DEFINE b == SubSeq(frames, 1, n - 1)
           top == [frames[n] EXCEPT !.pos = i + 1]
<1>2. b \in Seq(RunFrame) /\ Len(b) = n - 1 /\ \A m \in 1..(n - 1) : b[m] = frames[m]
  BY <1>1, CutKeeps
<1>3. i \in Nat /\ i + 1 \in Nat \ {0}
  BY <1>1 DEF RunFrame
<1>4. top \in RunFrame /\ top.seq = frames[n].seq /\ top.jumped = frames[n].jumped /\ top.pos = i + 1
  BY <1>1, <1>3 DEF RunFrame
<1>5. fs = Append(b, top)
  OBVIOUS
<1> HIDE DEF b, top
<1>6. fs \in Seq(RunFrame) /\ Len(fs) = n /\ fs[n] = top /\ \A m \in 1..(n - 1) : fs[m] = frames[m]
  BY <1>1, <1>2, <1>4, <1>5
<1>7. \A m \in 1..n : m \in 1..(n - 1) \/ m = n
  BY <1>1
<1>8. n \in 0..Len(frames)
  BY <1>1
<1>q. QED
  BY <1>1, <1>4, <1>6, <1>7, <1>8 DEF Cut

\* The end of the innermost sequence.
LEMMA LeaveCut ==
  ASSUME frames \in Seq(RunFrame), frames # <<>>, NEW fs, fs = SubSeq(frames, 1, Len(frames) - 1)
  PROVE  Cut(fs, Len(frames) - 1) /\ \A m \in 1..Len(fs) : fs[m] = frames[m] /\ m \in 1..(Len(frames) - 1)
<1>1. Len(frames) - 1 \in 0..Len(frames)
  OBVIOUS
<1>2. fs \in Seq(RunFrame) /\ Len(fs) = Len(frames) - 1 /\ \A m \in 1..(Len(frames) - 1) : fs[m] = frames[m]
  BY <1>1, CutKeeps
<1>3. \A m \in 1..((Len(frames) - 1) - 1) : m \in 1..(Len(frames) - 1)
  BY <1>1
<1>q. QED
  BY <1>1, <1>2, <1>3 DEF Cut

\* Values stay values when a bind is entered and when a declaration is stored to.
LEMMA EnteredTypes ==
  ASSUME NEW val \in [Decls -> Values], NEW s
  PROVE  Entered(val, s) \in [Decls -> Values]
BY DEF Entered, Values

LEMMA StoredTypes ==
  ASSUME NEW val \in [Decls -> Values], NEW d, NEW v \in Values
  PROVE  Stored(val, d, v) \in [Decls -> Values]
BY DEF Stored

\* Values and frames keep their types.
LEMMA RunTypesStep ==
  ASSUME PassFacts, RunTypes, [RunNext]_<<vars, run_vars>>
  PROVE  RunTypes'
<1>1. frames # <<>> => Compiled'
  BY RunMoves DEF RunTypes, Compiled, vars
<1>2. ASSUME UNCHANGED run_vars PROVE RunTypes'
  BY <1>1, <1>2 DEF run_vars, RunTypes
<1>3. ASSUME Running, NEW k \in Nat PROVE Past(k) \in Seq(RunFrame)
  BY <1>3, RunningTypes, PastMoved DEF RunTypes, Moved
<1>5. ASSUME Running PROVE Compiled' /\ frames # <<>> /\ Now \in Statement
  BY <1>1, <1>5, RunningTypes
<1>6. CASE \E f \in Functions : CallFunction(f)
  <2>1. PICK f \in Functions : CallFunction(f)
    BY <1>6
  <2>2. [seq |-> f, pos |-> 1, jumped |-> FALSE] \in RunFrame
    BY GimpleAssumption DEF RunFrame
  <2>3. Compiled'
    BY <2>1 DEF CallFunction, Compiled, vars
  <2>q. QED
    BY <2>1, <2>2, <2>3 DEF CallFunction, RunTypes
<1>7. CASE Enter
  <2>1. Running /\ Now.seq \in Seqs
    BY <1>5, <1>7 DEF Enter, Statement, Nesting
  <2>2. [seq |-> Now.seq, pos |-> 1, jumped |-> FALSE] \in RunFrame
    BY <2>1 DEF RunFrame
  <2>3. frames' \in Seq(RunFrame)
    BY <1>3, <1>7, <2>1, <2>2 DEF Enter
  <2>4. orig' \in [Decls -> Values] /\ inst' \in [Decls -> Values]
    BY <1>7, EnteredTypes DEF Enter, RunTypes
  <2>q. QED
    BY <1>5, <2>1, <2>3, <2>4 DEF RunTypes
<1>8. CASE ExecProgram
  <2>1. orig' \in [Decls -> Values] /\ inst' \in [Decls -> Values]
    <3>1. "value" \in Values
      BY DEF Values
    <3>q. QED
      BY <1>8, <3>1, StoredTypes DEF ExecProgram, RunTypes
  <2>q. QED
    BY <1>3, <1>5, <1>8, <2>1 DEF ExecProgram, RunTypes
<1>9. CASE ExecInserted
  <2>1. inst' \in [Decls -> Values]
    <3>1. "zero" \in Values
      BY DEF Values
    <3>q. QED
      BY <1>9, <3>1, StoredTypes DEF ExecInserted, RunTypes
  <2>q. QED
    BY <1>3, <1>5, <1>9, <2>1 DEF ExecInserted, RunTypes
<1>10. CASE Jump
  <2>1. Running /\ Now.seq \in Seqs
    BY <1>5, <1>10 DEF Jump, Statement, Nesting
  <2>2. Past(2) \in Seq(RunFrame)
    BY <1>3, <2>1
  <2>3. frames' \in Seq(RunFrame)
    <3>1. ASSUME NEW i \in DOMAIN body[Now.seq],
                 frames' = Append(Past(2), [seq |-> Now.seq, pos |-> i + 1, jumped |-> TRUE])
          PROVE  frames' \in Seq(RunFrame)
      <4>1. i \in Nat
        <5>1. body[Now.seq] \in Seq(Statement)
          BY <2>1 DEF PassFacts, TypeOK
        <5>q. QED
          BY <5>1
      <4>2. [seq |-> Now.seq, pos |-> i + 1, jumped |-> TRUE] \in RunFrame
        BY <2>1, <4>1 DEF RunFrame
      <4>q. QED
        BY <2>2, <3>1, <4>2
    <3>q. QED
      BY <1>10, <2>2, <3>1 DEF Jump
  <2>4. orig' \in [Decls -> Values] /\ inst' \in [Decls -> Values]
    BY <1>10, EnteredTypes DEF Jump, RunTypes
  <2>q. QED
    BY <1>5, <2>1, <2>3, <2>4 DEF RunTypes
<1>11. CASE PassLabel
  BY <1>3, <1>5, <1>11 DEF PassLabel, RunTypes
<1>12. CASE Branch
  <2>1. ASSUME NEW n \in DOMAIN frames, NEW i \in 1..(frames[n].pos - 1),
               frames' = Append(SubSeq(frames, 1, n - 1), [frames[n] EXCEPT !.pos = i + 1])
        PROVE  frames' \in Seq(RunFrame)
    BY <2>1, BranchCut DEF RunTypes, Cut
  <2>2. frames' \in Seq(RunFrame)
    BY <1>3, <1>12, <2>1 DEF Branch
  <2>q. QED
    BY <1>5, <1>12, <2>2 DEF Branch, RunTypes
<1>13. CASE ReturnFromFunction
  BY <1>13 DEF ReturnFromFunction, RunTypes
<1>14. CASE Leave
  <2>1. frames' \in Seq(RunFrame)
    BY <1>14, LeaveCut DEF Leave, RunTypes, Cut
  <2>q. QED
    BY <1>1, <1>14, <2>1 DEF Leave, RunTypes
<1>q. QED
  BY <1>2, <1>6, <1>7, <1>8, <1>9, <1>10, <1>11, <1>12, <1>13, <1>14 DEF RunNext, Compile, run_vars

-----------------------------------------------------------------------------
(* The pass is right while its program runs *)

\* The facts of the pass hold while the compiled program runs.
LEMMA RunTypesAlways == RunSpec => [](PassFacts /\ RunTypes)
<1>1. RunInit => Init /\ RunTypes
  <2> SUFFICES ASSUME RunInit PROVE Init /\ RunTypes
    OBVIOUS
  <2>1. orig \in [Decls -> Values]
    BY DEF RunInit, Values
  <2>q. QED
    BY <2>1 DEF RunInit, RunTypes
<1>2. [RunNext]_<<vars, run_vars>> => [Next]_vars
  BY DEF RunNext, Compile, CallFunction, Enter, ExecProgram, ExecInserted, Jump, PassLabel, Branch,
     ReturnFromFunction, Leave, vars, run_vars
<1>3. PassFacts /\ RunTypes /\ [RunNext]_<<vars, run_vars>> => RunTypes'
  BY RunTypesStep
<1>q. QED
  BY <1>1, <1>2, <1>3, PassFactsAlways, PTL DEF RunSpec

-----------------------------------------------------------------------------
(* Defined values are kept *)

\* Past the inserted assignments; and before them, with nothing defined yet.
Clear(f)     == f.pos > Inserted(f.seq)
Undefined(s) == \A d \in ElementsOf(prog.vars[s]) \cap (VarDecls \ Persistent) : orig[d] = "junk"
HeadsUndefined ==
  \A n \in 1..Len(frames) :
    Clear(frames[n]) \/ (n = Len(frames) /\ Undefined(frames[n].seq))

ValuesHeld == HeadsUndefined /\ AutomaticValuesKept

\* A step over a statement of the program ends past the inserted assignments, in every frame.
LEMMA AllClear ==
  ASSUME PassFacts, RunTypes, HeadsUndefined, Running, ~Now.zero, NEW k \in Nat \ {0}
  PROVE  Moved(Past(k), k) /\ \A n \in 1..Len(frames) : Clear(Past(k)[n])
<1>1. Moved(Past(k), k)
  BY RunningTypes, PastMoved DEF RunTypes
<1>2. Cur = frames[Len(frames)] /\ Inserted(Cur.seq) \in Nat /\ Cur.pos > Inserted(Cur.seq) /\ Cur.pos \in Nat
  <2>1. Cur.pos \in Nat /\ Cur = frames[Len(frames)]
    BY RunningTypes DEF RunFrame
  <2>q. QED
    BY <2>1, NowPlace
<1>3. ASSUME NEW n \in 1..Len(frames) PROVE Clear(Past(k)[n])
  <2>1. CASE n = Len(frames)
    <3>1. Past(k)[n].seq = Cur.seq /\ Past(k)[n].pos = Cur.pos + k
      BY <1>1, <1>2, <2>1 DEF Moved
    <3>q. QED
      BY <1>2, <3>1 DEF Clear
  <2>2. CASE n # Len(frames)
    <3>1. Past(k)[n].seq = frames[n].seq /\ Past(k)[n].pos = frames[n].pos
      BY <1>1, <2>2 DEF Moved
    <3>q. QED
      BY <2>2, <3>1 DEF Clear, HeadsUndefined
  <2>q. QED
    BY <2>1, <2>2
<1>q. QED
  BY <1>1, <1>3

\* Frames that are past the inserted assignments stay so while nothing of the pass moves.
LEMMA ClearFrames ==
  ASSUME UNCHANGED vars, \A n \in 1..Len(frames') : Clear(frames'[n])
  PROVE  HeadsUndefined'
<1>1. ASSUME NEW n \in 1..Len(frames') PROVE Clear(frames[n])'
  BY <1>1 DEF Clear, Inserted, vars
<1>q. QED
  BY <1>1 DEF HeadsUndefined

\* A new frame on frames that are past theirs.
LEMMA PushedFrame ==
  ASSUME UNCHANGED vars, NEW fs \in Seq(RunFrame), \A n \in 1..Len(fs) : Clear(fs[n]), NEW f \in RunFrame,
         frames' = Append(fs, f), NEW s, f.seq = s, Clear(f) \/ Undefined(s)'
  PROVE  HeadsUndefined'
<1>1. Len(frames') = Len(fs) + 1 /\ frames'[Len(fs) + 1] = f /\ \A n \in 1..Len(fs) : frames'[n] = fs[n]
  OBVIOUS
<1>2. \A n \in 1..Len(frames') : n \in 1..Len(fs) \/ n = Len(frames')
  BY <1>1
<1>3. ASSUME NEW g, Clear(g) PROVE g.pos > Inserted(g.seq)'
  BY <1>3 DEF Clear, Inserted, vars
<1>4. ASSUME NEW n \in 1..Len(frames') PROVE (Clear(frames[n]) \/ (n = Len(frames) /\ Undefined(frames[n].seq)))'
  <2>1. CASE n \in 1..Len(fs)
    BY <1>1, <1>3, <2>1 DEF Clear
  <2>2. CASE n = Len(frames')
    <3>1. frames'[n] = f
      BY <1>1, <2>2
    <3>2. CASE Clear(f)
      BY <1>3, <3>1, <3>2 DEF Clear
    <3>3. CASE Undefined(s)'
      BY <2>2, <3>1, <3>3 DEF Undefined
    <3>q. QED
      BY <3>2, <3>3
  <2>q. QED
    BY <1>2, <2>1, <2>2
<1>q. QED
  BY <1>4 DEF HeadsUndefined

\* What is undefined when its bind is entered.
LEMMA EnteredUndefined ==
  ASSUME PassFacts, NEW s \in Seqs, prog' = prog, orig' = Entered(orig, s)
  PROVE  Undefined(s)'
<1>1. \A d \in ElementsOf(prog.vars[s]) \cap (VarDecls \ Persistent) : d \in Decls
  BY GimpleAssumption
<1>q. QED
  BY <1>1 DEF Undefined, Entered

\* Entering a bind makes its variables undefined in both programs.
LEMMA EnteredKept ==
  ASSUME RunTypes, AutomaticValuesKept, NEW s, orig' = Entered(orig, s), inst' = Entered(inst, s)
  PROVE  AutomaticValuesKept'
BY DEF AutomaticValuesKept, Entered, RunTypes

\* A step that stores nothing keeps what holds of the values.
LEMMA SameKept ==
  ASSUME AutomaticValuesKept, orig' = orig, inst' = inst
  PROVE  AutomaticValuesKept'
BY DEF AutomaticValuesKept

\* Every step of a run keeps the defined values.
LEMMA ValuesHeldStep ==
  ASSUME PassFacts, RunTypes, ValuesHeld, [RunNext]_<<vars, run_vars>>
  PROVE  ValuesHeld'
<1> USE DEF ValuesHeld
<1>0. frames # <<>> => UNCHANGED vars
  BY RunMoves
<1>1. ASSUME UNCHANGED run_vars PROVE ValuesHeld'
  <2>1. AutomaticValuesKept'
    BY <1>1, SameKept DEF run_vars
  <2>2. CASE frames = <<>>
    <3>1. Len(frames') = 0
      BY <1>1, <2>2 DEF run_vars
    <3>q. QED
      BY <2>1, <3>1 DEF HeadsUndefined
  <2>3. CASE frames # <<>>
    <3>1. UNCHANGED <<vars, run_vars>>
      BY <1>0, <1>1, <2>3
    <3>q. QED
      BY <2>1, <3>1 DEF HeadsUndefined, Clear, Undefined, Inserted, vars, run_vars
  <2>q. QED
    BY <2>2, <2>3
<1>2. CASE \E f \in Functions : CallFunction(f)
  <2>1. PICK f \in Functions : CallFunction(f)
    BY <1>2
  <2>2. prog.vars[f] = <<>>
    BY ProgramsAssumption DEF PassFacts, WellFormed
  <2>3. UNCHANGED vars /\ orig' = orig /\ inst' = inst /\ Len(frames') = 1 /\ frames'[1].seq = f
    BY <2>1 DEF CallFunction
  <2>4. Undefined(f)'
    BY <2>2, <2>3 DEF Undefined, ElementsOf, vars
  <2>5. HeadsUndefined'
    BY <2>3, <2>4 DEF HeadsUndefined
  <2>q. QED
    BY <2>3, <2>5, SameKept
<1>3. CASE Enter
  <2>1. Running /\ UNCHANGED vars /\ ~Now.zero
    BY <1>3, NowPlace DEF Enter
  <2>2. PICK s \in Seqs : s = Now.seq
    BY <1>3, RunningTypes DEF Enter, Statement, Nesting
  <2> DEFINE f == [seq |-> s, pos |-> 1, jumped |-> FALSE]
  <2>3. f \in RunFrame /\ f.seq = s
    BY <2>2 DEF RunFrame
  <2>4. Past(1) \in Seq(RunFrame) /\ \A n \in 1..Len(Past(1)) : Clear(Past(1)[n])
    BY <2>1, AllClear DEF Moved
  <2>5. Undefined(s)'
    BY <1>3, <2>1, <2>2, EnteredUndefined DEF Enter, vars
  <2>6. frames' = Append(Past(1), f)
    BY <1>3, <2>2 DEF Enter
  <2> HIDE DEF f
  <2>7. HeadsUndefined'
    BY <2>1, <2>3, <2>4, <2>5, <2>6, PushedFrame
  <2>q. QED
    BY <1>3, <2>7, EnteredKept DEF Enter
<1>4. CASE ExecProgram
  <2>1. Running /\ UNCHANGED vars /\ ~Now.zero
    BY <1>4 DEF ExecProgram
  <2>2. HeadsUndefined'
    BY <1>4, <2>1, AllClear, ClearFrames DEF Moved, ExecProgram
  <2>3. AutomaticValuesKept'
    BY <1>4 DEF ExecProgram, Stored, AutomaticValuesKept, RunTypes
  <2>q. QED
    BY <2>2, <2>3
<1>5. CASE ExecInserted
  <2>1. Running /\ UNCHANGED vars /\ Now.zero /\ orig' = orig
    BY <1>5 DEF ExecInserted
  <2>2. /\ Cur = frames[Len(frames)] /\ Len(frames) \in 1..Len(frames) /\ Cur.pos \in Nat
        /\ Inserted(Cur.seq) \in Nat /\ Cur.pos <= Inserted(Cur.seq)
        /\ Now.lhs \in ElementsOf(prog.vars[Cur.seq]) /\ Now.lhs \in VarDecls
    <3>1. Cur = frames[Len(frames)] /\ Len(frames) \in 1..Len(frames) /\ Cur.pos \in Nat
      BY <2>1, RunningTypes DEF RunFrame
    <3>q. QED
      BY <2>1, <3>1, NowPlace
  <2>3. Undefined(Cur.seq)
    BY <2>2 DEF HeadsUndefined, Clear
  <2>4. HeadsUndefined'
    <3>1. Moved(frames', 1)
      BY <1>5, <2>1, RunningTypes, PastMoved DEF RunTypes, ExecInserted
    <3>2. PICK s : s = Cur.seq
      OBVIOUS
    <3>4. Undefined(s)'
      <4>1. Undefined(s)
        BY <2>3, <3>2
      <4>q. QED
        BY <2>1, <4>1 DEF Undefined, vars
    <3>3. ASSUME NEW n \in 1..Len(frames') PROVE (Clear(frames[n]) \/ (n = Len(frames) /\ Undefined(frames[n].seq)))'
      <4>1. CASE n = Len(frames)
        <5>1. frames'[n].seq = s /\ n = Len(frames')
          BY <2>2, <3>1, <3>2, <4>1 DEF Moved
        <5>q. QED
          BY <3>4, <5>1 DEF Undefined
      <4>2. CASE n # Len(frames)
        <5>1. n \in 1..Len(frames) /\ frames'[n].seq = frames[n].seq /\ frames'[n].pos = frames[n].pos
          BY <3>1, <4>2 DEF Moved
        <5>2. Clear(frames[n])
          BY <4>2, <5>1 DEF HeadsUndefined
        <5>q. QED
          BY <2>1, <5>1, <5>2 DEF Clear, Inserted, vars
      <4>q. QED
        BY <4>1, <4>2
    <3>q. QED
      BY <3>3 DEF HeadsUndefined
  <2>5. AutomaticValuesKept'
    <3>1. Now.lhs # NoDecl /\ Now.lhs \in Decls
      BY <2>2, GimpleAssumption
    <3>2. inst' = [inst EXCEPT ![Storage[Now.lhs]] = "zero"]
      BY <1>5, <3>1 DEF ExecInserted, Stored
    <3>3. CASE Now.lhs \in Persistent
      <4>1. \A d \in Decls : d \notin {Storage[p] : p \in Persistent} => d # Storage[Now.lhs]
        BY <3>3
      <4>q. QED
        BY <2>1, <3>2, <4>1 DEF AutomaticValuesKept, RunTypes
    <3>4. CASE Now.lhs \notin Persistent
      <4>1. Storage[Now.lhs] = Now.lhs
        BY <3>1, <3>4, RunAssumption
      <4>2. orig[Now.lhs] = "junk"
        BY <2>2, <2>3, <3>4 DEF Undefined
      <4>q. QED
        BY <2>1, <3>2, <4>1, <4>2 DEF AutomaticValuesKept, RunTypes
    <3>q. QED
      BY <3>3, <3>4
  <2>q. QED
    BY <2>4, <2>5
<1>6. CASE Jump
  <2>1. Running /\ UNCHANGED vars /\ ~Now.zero
    BY <1>6, NowPlace DEF Jump
  <2>2. PICK s \in Seqs : s = Now.seq
    BY <1>6, RunningTypes DEF Jump, Statement, Nesting
  <2>3. Past(2) \in Seq(RunFrame) /\ \A n \in 1..Len(Past(2)) : Clear(Past(2)[n])
    BY <2>1, AllClear DEF Moved
  <2>4. CASE frames' = Past(2) /\ UNCHANGED <<orig, inst>>
    BY <2>1, <2>3, <2>4, ClearFrames, SameKept
  <2>5. ASSUME NEW i \in DOMAIN body[Now.seq], body[Now.seq][i].code = "GIMPLE_LABEL",
               frames' = Append(Past(2), [seq |-> Now.seq, pos |-> i + 1, jumped |-> TRUE]),
               orig' = Entered(orig, Now.seq), inst' = Entered(inst, Now.seq)
        PROVE  ValuesHeld'
    <3> DEFINE f == [seq |-> s, pos |-> i + 1, jumped |-> TRUE]
    <3>1. body[s] \in Seq(Statement)
      BY <2>2, ZerosFirst DEF PassFacts
    <3>2. i \in 1..Len(body[s]) /\ i \in Nat
      BY <2>2, <2>5, <3>1
    <3>3. f \in RunFrame /\ f.seq = s
      BY <2>2, <3>2 DEF RunFrame
    <3>4. Undefined(s)'
      BY <2>1, <2>2, <2>5, EnteredUndefined DEF vars
    <3>6. frames' = Append(Past(2), f)
      BY <2>2, <2>5
    <3> HIDE DEF f
    <3>5. HeadsUndefined'
      BY <2>1, <2>3, <3>3, <3>4, <3>6, PushedFrame
    <3>q. QED
      BY <2>5, <3>5, EnteredKept
  <2>q. QED
    BY <1>6, <2>4, <2>5 DEF Jump
<1>7. CASE PassLabel
  BY <1>7, AllClear, ClearFrames, NowPlace, SameKept DEF PassLabel, Moved
<1>8. CASE Branch
  <2>1. Running /\ UNCHANGED vars /\ ~Now.zero
    BY <1>8, NowPlace DEF Branch
  <2>2. AutomaticValuesKept'
    BY <1>8, SameKept DEF Branch
  <2>3. CASE frames' = Past(1)
    BY <2>1, <2>2, <2>3, AllClear, ClearFrames DEF Moved
  <2>4. ASSUME NEW n \in DOMAIN frames, NEW i \in 1..(frames[n].pos - 1), body[frames[n].seq][i].code = "GIMPLE_LABEL",
               frames' = Append(SubSeq(frames, 1, n - 1), [frames[n] EXCEPT !.pos = i + 1])
        PROVE  ValuesHeld'
    <3>1. n \in 1..Len(frames) /\ Cut(frames', n) /\ frames'[n].pos = i + 1
      BY <2>4, BranchCut DEF RunTypes
    <3>2. frames[n] \in RunFrame /\ frames[n].seq \in Seqs /\ i \in Nat \ {0}
      <4>1. frames[n] \in RunFrame
        BY <3>1 DEF RunTypes
      <4>q. QED
        BY <4>1 DEF RunFrame
    <3>3. i + 1 > Inserted(frames[n].seq)
      <4>1. /\ Inserted(frames[n].seq) \in Nat /\ body[frames[n].seq] \in Seq(Statement)
            /\ \A j \in 1..Len(body[frames[n].seq]) : j <= Inserted(frames[n].seq) =>
                        body[frames[n].seq][j].code = "GIMPLE_ASSIGN"
        BY <3>2, ZerosFirst DEF PassFacts
      <4>2. i <= Len(body[frames[n].seq]) \/ i > Len(body[frames[n].seq])
        BY <3>2, <4>1
      <4>3. Inserted(frames[n].seq) <= Len(body[frames[n].seq])
        <5>1. prog.body[frames[n].seq] \in Seq(Statement)
          BY <3>2, ZerosFirst DEF PassFacts
        <5>2. Len(body[frames[n].seq]) \in Nat /\ Len(prog.body[frames[n].seq]) \in Nat
          BY <4>1, <5>1
        <5>3. \A a, b \in Nat : a - b <= a
          OBVIOUS
        <5>4. Len(body[frames[n].seq]) - Len(prog.body[frames[n].seq]) <= Len(body[frames[n].seq])
          BY <5>2, <5>3
        <5>q. QED
          BY <5>4 DEF Inserted
      <4>4. CASE i <= Inserted(frames[n].seq)
        <5>1. i \in 1..Len(body[frames[n].seq])
          BY <3>2, <4>1, <4>3, <4>4
        <5>q. QED
          BY <2>4, <4>1, <4>4, <5>1
      <4>q. QED
        BY <3>2, <4>1, <4>4
    <3>4. ASSUME NEW m \in 1..Len(frames') PROVE Clear(frames'[m])
      <4>1. CASE m = n
        <5>1. frames'[m].seq = frames[n].seq /\ frames'[m].pos = i + 1
          BY <3>1, <4>1 DEF Cut
        <5>q. QED
          BY <3>3, <5>1 DEF Clear
      <4>2. CASE m # n
        <5>1. m \in 1..(n - 1) /\ m \in 1..Len(frames) /\ m # Len(frames) /\ frames'[m] = frames[m]
          <6>1. m \in 1..(n - 1) /\ m \in 1..Len(frames) /\ m # Len(frames)
            BY <3>1, <4>2 DEF Cut
          <6>q. QED
            BY <3>1, <6>1 DEF Cut
        <5>q. QED
          BY <5>1 DEF HeadsUndefined
      <4>q. QED
        BY <4>1, <4>2
    <3>q. QED
      BY <2>1, <2>2, <3>4, ClearFrames
  <2>q. QED
    BY <1>8, <2>3, <2>4 DEF Branch
<1>9. CASE ReturnFromFunction
  BY <1>9, SameKept DEF ReturnFromFunction, HeadsUndefined
<1>10. CASE Leave
  <2>1. frames # <<>> /\ UNCHANGED vars /\ frames' = SubSeq(frames, 1, Len(frames) - 1)
    BY <1>10, <1>0 DEF Leave
  <2>2. ASSUME NEW m \in 1..Len(frames') PROVE Clear(frames'[m])
    <3>1. frames'[m] = frames[m] /\ m \in 1..(Len(frames) - 1)
      BY <2>1, LeaveCut DEF RunTypes
    <3>2. m \in 1..Len(frames) /\ m # Len(frames)
      BY <3>1
    <3>q. QED
      BY <3>1, <3>2 DEF HeadsUndefined
  <2>q. QED
    BY <1>10, <2>1, <2>2, ClearFrames, SameKept DEF Leave
<1>q. QED
  BY <1>1, <1>2, <1>3, <1>4, <1>5, <1>6, <1>7, <1>8, <1>9, <1>10 DEF RunNext, Compile, run_vars

\* Whatever value the program computed in an automatic variable without the pass, it computes
\* with it: a zero the pass inserts at the head of a bind is only ever stored to a variable
\* that is undefined then, on every path through binds, loops, switches and returns.
THEOREM AutomaticValuesKeptAlways == RunSpec => []AutomaticValuesKept
<1>1. RunInit => ValuesHeld
  BY DEF RunInit, ValuesHeld, HeadsUndefined, AutomaticValuesKept
<1>2. PassFacts /\ RunTypes /\ ValuesHeld /\ [RunNext]_<<vars, run_vars>> => ValuesHeld'
  BY ValuesHeldStep
<1>3. ValuesHeld => AutomaticValuesKept
  BY DEF ValuesHeld
<1>q. QED
  BY <1>1, <1>2, <1>3, RunTypesAlways, PTL DEF RunSpec

-----------------------------------------------------------------------------
(* Zeros where the pass reports *)

\* Every sequence that is executed belongs to a statement of the one around it, the outermost
\* one is a function, and none is executed twice at a time.
FramesNested ==
  /\ frames # <<>> => frames[1].seq \in Functions
  /\ \A n \in 1..(Len(frames) - 1) : \E i : Owns(prog, frames[n].seq, i, frames[n + 1].seq)
FramesApart == \A m, n \in 1..Len(frames) : frames[m].seq = frames[n].seq => m = n

\* The zeros of s before position k are assigned, and nothing is undefined since.
ZerosBefore(s, k) ==
  \A j \in 1..Len(body[s]) : j < k /\ j <= Inserted(s) => inst[body[s][j].lhs] # "junk"
ZerosRun(fs) == \A n \in 1..Len(fs) : fs[n].jumped \/ ZerosBefore(fs[n].seq, fs[n].pos)

\* Static variables are never undefined.
PersistentDefined == \A d \in Persistent : inst[d] # "junk"

RunHeld == FramesNested /\ FramesApart /\ ZerosRun(frames) /\ PersistentDefined

\* The frames that stay keep their sequences.
LEMMA NestedStay ==
  ASSUME RunTypes, FramesNested, FramesApart, prog' = prog, NEW fs \in Seq(RunFrame), frames' = fs,
          Len(fs) <= Len(frames),
         \A n \in 1..Len(fs) : fs[n].seq = frames[n].seq
  PROVE  (FramesNested /\ FramesApart)'
<1>1. Len(fs) \in Nat /\ Len(frames) \in Nat /\ \A n \in 1..Len(fs) : n \in 1..Len(frames)
  BY DEF RunTypes
<1>2. \A n \in 1..(Len(fs) - 1) : n \in 1..Len(fs) /\ n + 1 \in 1..Len(fs) /\ n \in 1..(Len(frames) - 1)
  BY <1>1
<1>3. (\A n \in 1..(Len(frames) - 1) : \E i : Owns(prog, frames[n].seq, i, frames[n + 1].seq))'
  BY <1>1, <1>2 DEF FramesNested, Owns
<1>4. (frames # <<>> => frames[1].seq \in Functions)'
  BY <1>1 DEF FramesNested
<1>5. FramesApart'
  BY <1>1 DEF FramesApart
<1>q. QED
  BY <1>3, <1>4, <1>5 DEF FramesNested

\* A sequence that a statement of the innermost one owns is not executed yet.
LEMMA FreshSeq ==
  ASSUME PassFacts, RunTypes, FramesNested, FramesApart, frames # <<>>, NEW s \in Seqs, NEW i, Owns(prog, Cur.seq, i, s)
  PROVE  \A n \in 1..Len(frames) : frames[n].seq # s
<1> SUFFICES ASSUME NEW n \in 1..Len(frames), frames[n].seq = s PROVE FALSE
  OBVIOUS
<1>1. s \notin Functions /\ \A u, j : Owns(prog, u, j, s) => u = Cur.seq
  <2>1. WellFormed(prog)
    BY ProgramsAssumption DEF PassFacts
  <2>q. QED
    BY <2>1, OneOwner
<1>2. n # 1
  BY <1>1 DEF FramesNested
<1>3. n - 1 \in 1..(Len(frames) - 1) /\ (n - 1) + 1 = n /\ Len(frames) \in Nat
  BY <1>2 DEF RunTypes
<1>4. PICK j : Owns(prog, frames[n - 1].seq, j, s)
  BY <1>3 DEF FramesNested
<1>5. frames[n - 1].seq = frames[Len(frames)].seq
  BY <1>1, <1>4 DEF Cur
<1>6. n - 1 \in 1..Len(frames) /\ Len(frames) \in 1..Len(frames) /\ n - 1 # Len(frames)
  BY <1>3
<1>q. QED
  BY <1>5, <1>6 DEF FramesApart

\* A step into a sequence the current statement owns.
LEMMA NestedInto ==
  ASSUME PassFacts, RunTypes, FramesNested, FramesApart, frames # <<>>, prog' = prog,
         NEW k \in Nat, NEW fs \in Seq(RunFrame), Moved(fs, k), NEW f \in RunFrame, frames' = Append(fs, f),
         NEW i, Owns(prog, Cur.seq, i, f.seq)
  PROVE  (FramesNested /\ FramesApart)' /\ \A n \in 1..Len(fs) : fs[n].seq # f.seq
<1>1. /\ Len(fs) = Len(frames) /\ Len(fs) \in Nat \ {0} /\ Len(frames') = Len(fs) + 1 /\ frames'[Len(fs) + 1] = f
      /\ \A n \in 1..Len(fs) : frames'[n].seq = frames[n].seq
  <2>1. Len(fs) = Len(frames) /\ \A n \in 1..Len(fs) : fs[n].seq = frames[n].seq
    BY DEF Moved
  <2>2. Len(fs) \in Nat \ {0}
    BY <2>1 DEF RunTypes
  <2>3. Len(frames') = Len(fs) + 1 /\ frames'[Len(fs) + 1] = f /\ \A n \in 1..Len(fs) : frames'[n] = fs[n]
    OBVIOUS
  <2>q. QED
    BY <2>1, <2>2, <2>3
<1>2. f.seq \in Seqs
  BY DEF RunFrame
<1>3. \A n \in 1..Len(frames) : frames[n].seq # f.seq
  BY <1>2, FreshSeq
<1>4. (frames # <<>> => frames[1].seq \in Functions)'
  BY <1>1 DEF FramesNested
<1>5. (\A n \in 1..(Len(frames) - 1) : \E j : Owns(prog, frames[n].seq, j, frames[n + 1].seq))'
  <2>1. ASSUME NEW n \in 1..(Len(frames') - 1) PROVE \E j : Owns(prog, frames'[n].seq, j, frames'[n + 1].seq)
    <3>1. n \in 1..Len(fs) /\ (n = Len(fs) \/ (n \in 1..(Len(frames) - 1) /\ n + 1 \in 1..Len(fs)))
      BY <1>1
    <3>2. CASE n = Len(fs)
      BY <1>1, <3>1, <3>2 DEF Cur
    <3>3. CASE n \in 1..(Len(frames) - 1) /\ n + 1 \in 1..Len(fs)
      BY <1>1, <3>1, <3>3 DEF FramesNested
    <3>q. QED
      BY <3>1, <3>2, <3>3
  <2>q. QED
    BY <2>1 DEF Owns
<1>6. FramesApart'
  <2>1. \A n \in 1..Len(frames') : n \in 1..Len(frames) \/ n = Len(fs) + 1
    BY <1>1
  <2>2. ASSUME NEW m \in 1..Len(frames'), NEW n \in 1..Len(frames'), frames'[m].seq = frames'[n].seq PROVE m = n
    BY <1>1, <1>3, <2>1, <2>2 DEF FramesApart
  <2>q. QED
    BY <2>2 DEF FramesApart
<1>7. \A n \in 1..Len(fs) : fs[n].seq # f.seq
  BY <1>1, <1>3 DEF Moved
<1>q. QED
  BY <1>4, <1>5, <1>6, <1>7 DEF FramesNested

\* The zeros stay as long as no declaration of their sequences gets undefined.
LEMMA ZerosStay ==
  ASSUME PassFacts, UNCHANGED vars, NEW fs \in Seq(RunFrame), ZerosRun(fs),
         \A n \in 1..Len(fs) : \A d \in ElementsOf(prog.vars[fs[n].seq]) : inst[d] # "junk" => inst'[d] # "junk"
  PROVE  ZerosRun(fs)'
<1>1. ASSUME NEW n \in 1..Len(fs), ~fs[n].jumped PROVE ZerosBefore(fs[n].seq, fs[n].pos)'
  <2>1. PICK s \in Seqs : s = fs[n].seq
    <3>1. fs[n] \in RunFrame
      OBVIOUS
    <3>q. QED
      BY <3>1 DEF RunFrame
  <2>2. PICK k : k = fs[n].pos
    OBVIOUS
  <2>3. ZerosBefore(s, k)
    BY <1>1, <2>1, <2>2 DEF ZerosRun
  <2>4. ASSUME NEW j \in 1..Len(body[s]), j < k, j <= Inserted(s) PROVE inst'[body[s][j].lhs] # "junk"
    <3>1. body[s][j].lhs \in ElementsOf(prog.vars[s])
      BY <2>4, ZerosFirst DEF PassFacts
    <3>2. inst[body[s][j].lhs] # "junk"
      BY <2>3, <2>4 DEF ZerosBefore
    <3>q. QED
      BY <2>1, <3>1, <3>2
  <2>5. ZerosBefore(s, k)'
    BY <2>4 DEF ZerosBefore, Inserted, vars
  <2>q. QED
    BY <2>1, <2>2, <2>5
<1>q. QED
  BY <1>1 DEF ZerosRun

\* Entering a bind does not touch the declarations of the others.
LEMMA EnteredApart ==
  ASSUME PassFacts, RunTypes, NEW s \in Seqs, NEW fs \in Seq(RunFrame), \A n \in 1..Len(fs) : fs[n].seq # s,
         inst' = Entered(inst, s)
  PROVE  \A n \in 1..Len(fs) : \A d \in ElementsOf(prog.vars[fs[n].seq]) : inst'[d] = inst[d]
<1> SUFFICES ASSUME NEW n \in 1..Len(fs), NEW d \in ElementsOf(prog.vars[fs[n].seq]) PROVE inst'[d] = inst[d]
  OBVIOUS
<1>1. PICK t \in Seqs : t = fs[n].seq /\ t # s
  <2>1. fs[n] \in RunFrame
    OBVIOUS
  <2>q. QED
    BY <2>1 DEF RunFrame
<1>2. WellFormed(prog) /\ prog \in Program
  BY ProgramsAssumption DEF PassFacts
<1>3. d \notin ElementsOf(prog.vars[s])
  <2>1. \A a, b \in Seqs : \A i \in DOMAIN prog.vars[a], j \in DOMAIN prog.vars[b] :
           prog.vars[a][i] = prog.vars[b][j] => a = b
    BY <1>2, Zenon DEF WellFormed
  <2>q. QED
    BY <1>1, <2>1 DEF ElementsOf
<1>4. d \in Decls
  <2>1. prog.vars[t] \in Seq(Decls)
    BY <1>2 DEF Program
  <2>2. d \in ElementsOf(prog.vars[t])
    BY <1>1
  <2>q. QED
    BY <2>1, <2>2 DEF ElementsOf
<1>q. QED
  BY <1>3, <1>4 DEF Entered

\* A bind that is entered leaves the static variables alone.
LEMMA EnteredPersistent ==
  ASSUME PersistentDefined, NEW s, inst' = Entered(inst, s)
  PROVE  PersistentDefined'
BY GimpleAssumption, RunAssumption DEF PersistentDefined, Entered

\* A store of a value undefines nothing.
LEMMA StoredDefined ==
  ASSUME RunTypes, NEW d, NEW v, v # "junk", inst' = Stored(inst, d, v)
  PROVE  \A e : inst[e] # "junk" => inst'[e] # "junk"
BY DEF RunTypes, Stored

\* A step over a statement of the program passes no zero.
LEMMA PastZeros ==
  ASSUME PassFacts, RunTypes, Running, ~Now.zero, ZerosRun(frames), NEW k \in Nat
  PROVE  Moved(Past(k), k) /\ ZerosRun(Past(k))
<1>1. Moved(Past(k), k)
  BY RunningTypes, PastMoved DEF RunTypes
<1>2. Cur = frames[Len(frames)] /\ Inserted(Cur.seq) \in Nat /\ Cur.pos > Inserted(Cur.seq) /\ Cur.pos \in Nat
  <2>1. Cur.pos \in Nat /\ Cur = frames[Len(frames)]
    BY RunningTypes DEF RunFrame
  <2>q. QED
    BY <2>1, NowPlace
<1>3. ASSUME NEW n \in 1..Len(frames), ~Past(k)[n].jumped PROVE ZerosBefore(Past(k)[n].seq, Past(k)[n].pos)
  <2>0. Past(k)[n].seq = frames[n].seq /\ ZerosBefore(frames[n].seq, frames[n].pos)
    BY <1>1, <1>3 DEF Moved, ZerosRun
  <2>1. CASE n = Len(frames)
    <3>1. \A j \in 1..Len(body[Cur.seq]) : j <= Inserted(Cur.seq) => j < Cur.pos
      BY <1>2
    <3>q. QED
      BY <1>2, <2>0, <2>1, <3>1 DEF ZerosBefore
  <2>2. CASE n # Len(frames)
    BY <1>1, <2>0, <2>2 DEF Moved
  <2>q. QED
    BY <2>1, <2>2
<1>q. QED
  BY <1>1, <1>3 DEF ZerosRun, Moved

\* The zeros of the frames that a branch or the end of a sequence leaves.
LEMMA CutZeros ==
  ASSUME RunTypes, ZerosRun(frames), NEW n, NEW fs, Cut(fs, n), n \in 1..Len(frames) => fs[n].pos <= frames[n].pos
  PROVE  ZerosRun(fs)
<1>1. ASSUME NEW m \in 1..Len(fs), ~fs[m].jumped PROVE ZerosBefore(fs[m].seq, fs[m].pos)
  <2>1. /\ Len(fs) = n /\ m \in 1..Len(frames) /\ n \in Nat
        /\ fs[m].seq = frames[m].seq /\ fs[m].jumped = frames[m].jumped
    BY DEF Cut, RunTypes
  <2>2. fs[m].pos <= frames[m].pos /\ fs[m].pos \in Nat /\ frames[m].pos \in Nat
    <3>1. fs[m] \in RunFrame /\ frames[m] \in RunFrame
      BY <2>1 DEF RunTypes, Cut
    <3>2. fs[m].pos \in Nat /\ frames[m].pos \in Nat
      BY <3>1 DEF RunFrame
    <3>3. m = n \/ m \in 1..(n - 1)
      BY <2>1
    <3>4. CASE m \in 1..(n - 1)
      BY <3>2, <3>4 DEF Cut
    <3>q. QED
      BY <2>1, <3>2, <3>3, <3>4
  <2>3. ZerosBefore(frames[m].seq, frames[m].pos)
    BY <1>1, <2>1 DEF ZerosRun
  <2>4. \A j \in 1..Len(body[frames[m].seq]) : j < fs[m].pos => j < frames[m].pos
    BY <2>2
  <2>q. QED
    BY <2>1, <2>3, <2>4 DEF ZerosBefore
<1>q. QED
  BY <1>1 DEF ZerosRun

\* A step that leaves the frames' sequences as they are and undefines nothing.
LEMMA SameFrames ==
  ASSUME PassFacts, RunTypes, RunHeld, UNCHANGED vars, NEW k \in Nat, NEW fs, Moved(fs, k), frames' = fs, ZerosRun(fs),
         \A d : inst[d] # "junk" => inst'[d] # "junk"
  PROVE  RunHeld'
<1>1. fs \in Seq(RunFrame) /\ Len(fs) <= Len(frames) /\ \A n \in 1..Len(fs) : fs[n].seq = frames[n].seq
  BY DEF Moved, RunTypes
<1>2. (FramesNested /\ FramesApart)'
  BY <1>1, NestedStay DEF RunHeld, vars
<1>3. ZerosRun(fs)'
  BY <1>1, ZerosStay
<1>4. PersistentDefined'
  BY DEF RunHeld, PersistentDefined
<1>q. QED
  BY <1>2, <1>3, <1>4 DEF RunHeld, ZerosRun

\* A step into a bind of the innermost sequence.
LEMMA IntoFrame ==
  ASSUME PassFacts, RunTypes, RunHeld, UNCHANGED vars, frames # <<>>, NEW k \in Nat, NEW fs, Moved(fs, k), ZerosRun(fs),
         NEW f \in RunFrame, f.jumped \/ f.pos = 1, frames' = Append(fs, f), NEW i, Owns(prog, Cur.seq, i, f.seq),
         inst' = Entered(inst, f.seq)
  PROVE  RunHeld'
<1>1. fs \in Seq(RunFrame)
  BY DEF Moved
<1>2. (FramesNested /\ FramesApart)' /\ \A n \in 1..Len(fs) : fs[n].seq # f.seq
  BY <1>1, NestedInto DEF RunHeld, vars
<1>3. PICK s \in Seqs : s = f.seq
  BY DEF RunFrame
<1>4. \A n \in 1..Len(fs) : \A d \in ElementsOf(prog.vars[fs[n].seq]) : inst'[d] = inst[d]
  BY <1>1, <1>2, <1>3, EnteredApart
<1>5. ZerosRun(fs)'
  BY <1>1, <1>4, ZerosStay
<1>6. /\ Len(fs) \in Nat /\ Len(frames') = Len(fs) + 1 /\ frames'[Len(fs) + 1] = f
      /\ \A n \in 1..Len(fs) : frames'[n] = fs[n]
  BY <1>1
<1>7. f.jumped \/ ZerosBefore(s, 1)'
  BY DEF ZerosBefore
<1>8. ASSUME NEW n \in 1..Len(frames') PROVE (frames[n].jumped \/ ZerosBefore(frames[n].seq, frames[n].pos))'
  <2>1. CASE n \in 1..Len(fs)
    BY <1>5, <1>6, <2>1 DEF ZerosRun
  <2>2. CASE n = Len(fs) + 1
    <3>1. frames'[n] = f
      BY <1>6, <2>2
    <3>q. QED
      BY <1>3, <1>7, <3>1 DEF ZerosBefore
  <2>3. n \in 1..Len(fs) \/ n = Len(fs) + 1
    BY <1>6
  <2>q. QED
    BY <2>1, <2>2, <2>3
<1>9. ZerosRun(frames)'
  BY <1>8 DEF ZerosRun
<1>10. PersistentDefined'
  BY <1>3, EnteredPersistent DEF RunHeld
<1>q. QED
  BY <1>2, <1>9, <1>10 DEF RunHeld

\* A step out of sequences, or back in one.
LEMMA CutFrames ==
  ASSUME PassFacts, RunTypes, RunHeld, UNCHANGED vars, inst' = inst, NEW n, NEW fs, Cut(fs, n), frames' = fs,
         n \in 1..Len(frames) => fs[n].pos <= frames[n].pos
  PROVE  RunHeld'
<1>1. fs \in Seq(RunFrame) /\ Len(fs) <= Len(frames) /\ \A m \in 1..Len(fs) : fs[m].seq = frames[m].seq
  BY DEF Cut, RunTypes
<1>2. (FramesNested /\ FramesApart)'
  BY <1>1, NestedStay DEF RunHeld, vars
<1>3. ZerosRun(fs)'
  <2>1. ZerosRun(fs)
    BY CutZeros DEF RunHeld
  <2>q. QED
    BY <1>1, <2>1, ZerosStay
<1>4. PersistentDefined'
  BY DEF RunHeld, PersistentDefined
<1>q. QED
  BY <1>2, <1>3, <1>4 DEF RunHeld, ZerosRun

\* Every step of a run keeps the zeros of the sequences it is in.
LEMMA RunHeldStep ==
  ASSUME PassFacts, RunTypes, RunHeld, [RunNext]_<<vars, run_vars>>
  PROVE  RunHeld'
<1>0. frames # <<>> => UNCHANGED vars
  BY RunMoves
<1>1. ASSUME UNCHANGED run_vars PROVE RunHeld'
  <2>1. PersistentDefined'
    BY <1>1 DEF RunHeld, PersistentDefined, run_vars
  <2>2. CASE frames = <<>>
    <3>1. frames' = <<>> /\ Len(frames') = 0
      BY <1>1, <2>2 DEF run_vars
    <3>q. QED
      BY <2>1, <3>1 DEF RunHeld, FramesNested, FramesApart, ZerosRun
  <2>3. CASE frames # <<>>
    <3>1. UNCHANGED <<vars, run_vars>>
      BY <1>0, <1>1, <2>3
    <3>q. QED
      BY <2>1, <3>1 DEF RunHeld, FramesNested, FramesApart, ZerosRun, ZerosBefore, Inserted, Owns, vars, run_vars
  <2>q. QED
    BY <2>2, <2>3
<1>2. CASE \E f \in Functions : CallFunction(f)
  <2>1. PICK f \in Functions : CallFunction(f)
    BY <1>2
  <2>2. UNCHANGED vars /\ inst' = inst /\ Len(frames') = 1 /\ frames'[1].seq = f /\ frames'[1].pos = 1
    BY <2>1 DEF CallFunction
  <2>3. (FramesNested /\ FramesApart)'
    BY <2>2 DEF FramesNested, FramesApart
  <2>4. ZerosRun(frames)'
    BY <2>2 DEF ZerosRun, ZerosBefore
  <2>q. QED
    BY <2>2, <2>3, <2>4 DEF RunHeld, PersistentDefined
<1>3. CASE Enter
  <2>1. Running /\ frames # <<>> /\ UNCHANGED vars /\ ~Now.zero
    BY <1>3, NowPlace DEF Enter, Running
  <2>2. PICK s \in Seqs : s = Now.seq
    BY <1>3, RunningTypes DEF Enter, Statement, Nesting
  <2> DEFINE f == [seq |-> s, pos |-> 1, jumped |-> FALSE]
             i == Cur.pos - Inserted(Cur.seq)
  <2>3. f \in RunFrame /\ f.seq = s /\ f.pos = 1
    BY <2>2 DEF RunFrame
  <2>4. Owns(prog, Cur.seq, i, s)
    <3>1. Cur.seq \in Seqs /\ i \in 1..Len(prog.body[Cur.seq]) /\ Now = prog.body[Cur.seq][i]
      BY <2>1, NowPlace, RunningTypes
    <3>2. prog.body[Cur.seq] \in Seq(Statement)
      BY <3>1, ZerosFirst DEF PassFacts
    <3> HIDE DEF i
    <3>q. QED
      BY <1>3, <2>2, <3>1, <3>2 DEF Owns, Enter
  <2>5. frames' = Append(Past(1), f) /\ inst' = Entered(inst, s)
    BY <1>3, <2>2 DEF Enter
  <2>6. Moved(Past(1), 1) /\ ZerosRun(Past(1))
    BY <2>1, PastZeros DEF RunHeld
  <2> HIDE DEF f, i
  <2>q. QED
    BY <2>1, <2>3, <2>4, <2>5, <2>6, IntoFrame
<1>4. CASE ExecProgram
  <2>1. Running /\ UNCHANGED vars /\ ~Now.zero /\ frames' = Past(1) /\ inst' = Stored(inst, Now.lhs, "value")
    BY <1>4 DEF ExecProgram
  <2>2. \A d : inst[d] # "junk" => inst'[d] # "junk"
    BY <2>1, StoredDefined
  <2>3. Moved(Past(1), 1) /\ ZerosRun(Past(1))
    BY <2>1, PastZeros DEF RunHeld
  <2>q. QED
    BY <2>1, <2>2, <2>3, SameFrames
<1>5. CASE ExecInserted
  <2>1. Running /\ UNCHANGED vars /\ Now.zero /\ frames' = Past(1) /\ inst' = Stored(inst, Now.lhs, "zero")
    BY <1>5 DEF ExecInserted
  <2>2. \A d : inst[d] # "junk" => inst'[d] # "junk"
    BY <2>1, StoredDefined
  <2>3. Moved(Past(1), 1)
    BY <2>1, RunningTypes, PastMoved DEF RunTypes
  <2>4. /\ Cur = frames[Len(frames)] /\ Cur \in RunFrame /\ Cur.seq \in Seqs
        /\ Cur.pos \in 1..Len(body[Cur.seq]) /\ Now = body[Cur.seq][Cur.pos]
    BY <2>1, RunningTypes
  <2>5. inst'[Now.lhs] # "junk"
    <3>1. Now.lhs \in VarDecls /\ Now.lhs # NoDecl /\ Now.lhs \in Decls
      BY <2>1, NowPlace, GimpleAssumption
    <3>2. inst' = [inst EXCEPT ![Storage[Now.lhs]] = "zero"]
      BY <2>1, <3>1 DEF Stored
    <3>3. CASE Now.lhs \in Persistent
      BY <2>2, <3>3 DEF RunHeld, PersistentDefined
    <3>4. CASE Now.lhs \notin Persistent
      <4>1. Storage[Now.lhs] = Now.lhs
        BY <3>1, <3>4, RunAssumption
      <4>q. QED
        BY <3>1, <3>2, <4>1 DEF RunTypes
    <3>q. QED
      BY <3>3, <3>4
  <2>6. PICK fs : fs = Past(1)
    OBVIOUS
  <2>7. ZerosRun(fs)'
    <3>1. ASSUME NEW n \in 1..Len(fs), ~fs[n].jumped PROVE ZerosBefore(fs[n].seq, fs[n].pos)'
      <4>1. /\ n \in 1..Len(frames) /\ fs[n].seq = frames[n].seq /\ ~frames[n].jumped
            /\ fs[n].pos = IF n = Len(frames) THEN frames[n].pos + 1 ELSE frames[n].pos
        BY <2>3, <2>6, <3>1 DEF Moved
      <4>2. PICK s, k : s = fs[n].seq /\ k = fs[n].pos
        OBVIOUS
      <4>3. ZerosBefore(s, frames[n].pos)
        BY <4>1, <4>2 DEF RunHeld, ZerosRun
      <4>4. ASSUME NEW j \in 1..Len(body[s]), j < k, j <= Inserted(s) PROVE inst'[body[s][j].lhs] # "junk"
        <5>1. CASE j < frames[n].pos
          BY <2>2, <4>3, <4>4, <5>1 DEF ZerosBefore
        <5>2. CASE ~(j < frames[n].pos)
          <6>1. frames[n].pos \in Nat
            <7>1. frames[n] \in RunFrame
              BY <4>1 DEF RunTypes
            <7>q. QED
              BY <7>1 DEF RunFrame
          <6>2. n = Len(frames)
            BY <4>1, <4>2, <4>4, <5>2
          <6>3. j = frames[n].pos
            BY <4>1, <4>2, <4>4, <5>2, <6>1, <6>2
          <6>4. body[s][j] = Now
            BY <2>4, <4>1, <4>2, <6>2, <6>3
          <6>q. QED
            BY <2>5, <6>4
        <5>q. QED
          BY <5>1, <5>2
      <4>5. ZerosBefore(s, k)'
        BY <2>1, <4>4 DEF ZerosBefore, Inserted, vars
      <4>q. QED
        BY <4>2, <4>5
    <3>q. QED
      BY <3>1 DEF ZerosRun
  <2>8. ZerosRun(frames)'
    BY <2>1, <2>6, <2>7 DEF ZerosRun
  <2>9. (FramesNested /\ FramesApart)'
    <3>1. fs \in Seq(RunFrame) /\ Len(fs) <= Len(frames) /\ \A n \in 1..Len(fs) : fs[n].seq = frames[n].seq
      BY <2>3, <2>6 DEF Moved, RunTypes
    <3>q. QED
      BY <2>1, <2>6, <3>1, NestedStay DEF RunHeld, vars
  <2>10. PersistentDefined'
    BY <2>2 DEF RunHeld, PersistentDefined
  <2>q. QED
    BY <2>8, <2>9, <2>10 DEF RunHeld
<1>6. CASE Jump
  <2>1. Running /\ frames # <<>> /\ UNCHANGED vars /\ ~Now.zero
    BY <1>6, NowPlace DEF Jump, Running
  <2>2. PICK s \in Seqs : s = Now.seq
    BY <1>6, RunningTypes DEF Jump, Statement, Nesting
  <2>3. Moved(Past(2), 2) /\ ZerosRun(Past(2))
    BY <2>1, PastZeros DEF RunHeld
  <2>4. CASE frames' = Past(2) /\ inst' = inst
    BY <2>1, <2>3, <2>4, SameFrames
  <2>5. ASSUME NEW j \in DOMAIN body[Now.seq],
               frames' = Append(Past(2), [seq |-> Now.seq, pos |-> j + 1, jumped |-> TRUE]),
               inst' = Entered(inst, Now.seq)
        PROVE  RunHeld'
    <3> DEFINE f == [seq |-> s, pos |-> j + 1, jumped |-> TRUE]
               i == Cur.pos - Inserted(Cur.seq)
    <3>1. f \in RunFrame /\ f.seq = s /\ f.jumped
      <4>1. body[s] \in Seq(Statement)
        BY <2>2, ZerosFirst DEF PassFacts
      <4>2. j \in Nat
        BY <2>2, <2>5, <4>1
      <4>q. QED
        BY <4>2 DEF RunFrame
    <3>2. Owns(prog, Cur.seq, i + 1, s)
      <4>1. Cur.seq \in Seqs /\ i \in 1..Len(prog.body[Cur.seq]) /\ Now = prog.body[Cur.seq][i]
        BY <2>1, NowPlace, RunningTypes
      <4>2. prog.body[Cur.seq] \in Seq(Statement)
        BY <4>1, ZerosFirst DEF PassFacts
      <4> HIDE DEF i
      <4>3. i + 1 \in DOMAIN prog.body[Cur.seq] /\ prog.body[Cur.seq][i + 1] = Bind(s)
        <5>1. \A t \in Seqs : \A n \in DOMAIN prog.body[t] : prog.body[t][n].code = "GIMPLE_SWITCH" =>
                n + 1 \in DOMAIN prog.body[t] /\ prog.body[t][n + 1] = Bind(prog.body[t][n].seq)
          BY ProgramsAssumption DEF PassFacts, WellFormed
        <5>2. i \in DOMAIN prog.body[Cur.seq]
          BY <4>1, <4>2
        <5>q. QED
          BY <1>6, <2>2, <4>1, <5>1, <5>2 DEF Jump
      <4>q. QED
        BY <4>1, <4>3 DEF Owns, Bind
    <3>3. frames' = Append(Past(2), f) /\ inst' = Entered(inst, s)
      BY <2>2, <2>5
    <3> HIDE DEF f, i
    <3>q. QED
      BY <2>1, <2>3, <3>1, <3>2, <3>3, IntoFrame
  <2>q. QED
    BY <1>6, <2>4, <2>5 DEF Jump
<1>7. CASE PassLabel
  <2>1. Running /\ UNCHANGED vars /\ ~Now.zero /\ frames' = Past(1) /\ inst' = inst
    BY <1>7, NowPlace DEF PassLabel
  <2>2. Moved(Past(1), 1) /\ ZerosRun(Past(1))
    BY <2>1, PastZeros DEF RunHeld
  <2>q. QED
    BY <2>1, <2>2, SameFrames
<1>8. CASE Branch
  <2>1. Running /\ UNCHANGED vars /\ ~Now.zero /\ inst' = inst
    BY <1>8, NowPlace DEF Branch
  <2>2. CASE frames' = Past(1)
    <3>1. Moved(Past(1), 1) /\ ZerosRun(Past(1))
      BY <2>1, PastZeros DEF RunHeld
    <3>q. QED
      BY <2>1, <2>2, <3>1, SameFrames
  <2>3. ASSUME NEW n \in DOMAIN frames, NEW i \in 1..(frames[n].pos - 1),
               frames' = Append(SubSeq(frames, 1, n - 1), [frames[n] EXCEPT !.pos = i + 1])
        PROVE  RunHeld'
    <3>1. n \in 1..Len(frames) /\ Cut(frames', n) /\ frames'[n].pos = i + 1
      BY <2>3, BranchCut DEF RunTypes
    <3>2. i + 1 <= frames[n].pos
      <4>1. frames[n] \in RunFrame
        BY <3>1 DEF RunTypes
      <4>2. frames[n].pos \in Nat
        BY <4>1 DEF RunFrame
      <4>q. QED
        BY <4>2
    <3>q. QED
      BY <2>1, <3>1, <3>2, CutFrames
  <2>q. QED
    BY <1>8, <2>2, <2>3 DEF Branch
<1>9. CASE ReturnFromFunction
  <2>1. frames' = <<>> /\ Len(frames') = 0 /\ inst' = inst
    BY <1>9 DEF ReturnFromFunction
  <2>q. QED
    BY <2>1 DEF RunHeld, FramesNested, FramesApart, ZerosRun, PersistentDefined
<1>10. CASE Leave
  <2>1. frames # <<>> /\ UNCHANGED vars /\ frames' = SubSeq(frames, 1, Len(frames) - 1) /\ inst' = inst
    BY <1>10, <1>0 DEF Leave
  <2>2. Cut(frames', Len(frames) - 1) /\ \A m \in 1..Len(frames') : frames'[m] = frames[m]
    BY <2>1, LeaveCut DEF RunTypes
  <2>3. Len(frames) - 1 \in 1..Len(frames) => frames'[Len(frames) - 1].pos <= frames[Len(frames) - 1].pos
    <3> SUFFICES ASSUME Len(frames) - 1 \in 1..Len(frames)
                 PROVE  frames'[Len(frames) - 1].pos <= frames[Len(frames) - 1].pos
      OBVIOUS
    <3>1. Len(frames) - 1 \in 1..Len(frames') /\ frames[Len(frames) - 1] \in RunFrame
      BY <2>2 DEF Cut, RunTypes
    <3>2. frames'[Len(frames) - 1] = frames[Len(frames) - 1] /\ frames[Len(frames) - 1].pos \in Nat
      BY <2>2, <3>1 DEF RunFrame
    <3>q. QED
      BY <3>2
  <2>q. QED
    BY <2>1, <2>2, <2>3, CutFrames
<1>q. QED
  BY <1>1, <1>2, <1>3, <1>4, <1>5, <1>6, <1>7, <1>8, <1>9, <1>10 DEF RunNext, Compile, run_vars

\* Past its zeros, a sequence of a compiled function has all of them behind it.
LEMMA ReportedZeroed ==
  ASSUME PassFacts, RunTypes, RunHeld
  PROVE  ZeroedWhereReported
<1> SUFFICES ASSUME NEW n \in DOMAIN frames, ~frames[n].jumped, frames[n].pos > Inserted(frames[n].seq),
                    frames[n].seq \in Zeroed!Binds(prog, frames[1].seq),
                    NEW d \in ElementsOf(prog.vars[frames[n].seq]) \cap Zeroed!NeverAssigned(prog, frames[1].seq)
             PROVE  inst[d] # "junk"
  BY DEF ZeroedWhereReported
<1>1. n \in 1..Len(frames) /\ frames # <<>> /\ frames[n] \in RunFrame
  BY DEF RunTypes
<1>2. frames[1].seq \in compiled
  BY <1>1 DEF RunHeld, FramesNested, RunTypes, Compiled
<1>3. PICK j \in 1..Len(body[frames[n].seq]) : body[frames[n].seq][j] = AssignZero(d)
  BY <1>2 DEF PassFacts, CompiledZeroed, ZeroIn
<1>4. j <= Inserted(frames[n].seq) /\ Inserted(frames[n].seq) \in Nat
  <2>1. frames[n].seq \in Seqs
    BY <1>1 DEF RunFrame
  <2>2. body[frames[n].seq][j].zero
    BY <1>3 DEF AssignZero
  <2>q. QED
    BY <2>1, <2>2, ZerosFirst DEF PassFacts
<1>5. j < frames[n].pos
  <2>1. frames[n].pos \in Nat
    BY <1>1 DEF RunFrame
  <2>q. QED
    BY <1>3, <1>4, <2>1
<1>6. ZerosBefore(frames[n].seq, frames[n].pos)
  BY <1>1 DEF RunHeld, ZerosRun
<1>7. inst[body[frames[n].seq][j].lhs] # "junk"
  BY <1>3, <1>4, <1>5, <1>6 DEF ZerosBefore
<1>q. QED
  BY <1>3, <1>7 DEF AssignZero

\* In a bind entered at its head and past its inserted assignments, a variable the pass
\* calls uninitialised is never undefined, however the program loops back, jumps and enters
\* other binds in between.
THEOREM ZeroedWhereReportedAlways == RunSpec => []ZeroedWhereReported
<1>1. RunInit => RunHeld
  <2> SUFFICES ASSUME RunInit PROVE RunHeld
    OBVIOUS
  <2>1. frames = <<>> /\ Len(frames) = 0
    BY DEF RunInit
  <2>2. PersistentDefined
    BY GimpleAssumption, RunAssumption DEF RunInit, PersistentDefined
  <2>q. QED
    BY <2>1, <2>2 DEF RunHeld, FramesNested, FramesApart, ZerosRun
<1>2. PassFacts /\ RunTypes /\ RunHeld /\ [RunNext]_<<vars, run_vars>> => RunHeld'
  BY RunHeldStep
<1>3. PassFacts /\ RunTypes /\ RunHeld => ZeroedWhereReported
  BY ReportedZeroed
<1>q. QED
  BY <1>1, <1>2, <1>3, RunTypesAlways, PTL DEF RunSpec
=============================================================================
