-------------------------- MODULE WarnUnusedProofs --------------------------
(***************************************************************************)
(* For every function: what the pass of warn_unused has gathered and       *)
(* warned about, step by step, and from it that a result that is used is   *)
(* not reported where the order of the blocks is that of control.          *)
(***************************************************************************)
EXTENDS WarnUnused, TLAPS

N == Len(fun.body)

WarnedUpTo(n) == {i \in Stmts : /\ i <= n
                                /\ fun.body[i].code = "call" /\ fun.body[i].lhs.form = "var"
                                /\ fun.body[i].lhs.var \in UnusedUpTo(N)
                                /\ fun.body[i].warn_unused_result}

\* i is a call that has d for its result.
Gives(i, d) == i \in Stmts /\ fun.body[i].code = "call" /\ fun.body[i].lhs.form = "var"
                           /\ fun.body[i].lhs.var = d

Walk ==
  /\ fun \in Functions
  /\ phase \in {"gather", "warn", "run", "returned"}
  /\ at \in 1..(N + 1)
  /\ phase = "gather" => potential_unused_lhs = UnusedUpTo(at - 1) /\ warned = {}
  /\ phase = "warn" => unused_lhs = UnusedUpTo(N) /\ warned = WarnedUpTo(at - 1)
  /\ phase \in {"run", "returned"} => warned = WarnedUpTo(N)
  /\ phase = "run" => at <= N

\* Where control only goes forward, a variable has its result from an earlier call, and what was
\* read was read behind the call.
Values ==
  Forward =>
    /\ phase \in {"gather", "warn"} => (\A d \in Decls : held[d] = 0) /\ used = {}
    /\ held \in [Decls -> Nat]
    /\ phase = "run" => \A d \in Decls : held[d] # 0 => held[d] < at /\ Gives(held[d], d)
    /\ \A i \in used : \E d \in Decls : Gives(i, d) /\ \E j \in UsesOf(d) : i < j

Inv == Walk /\ Values
-----------------------------------------------------------------------------
LEMMA FunctionType ==
  ASSUME fun \in Functions
  PROVE  /\ fun.body \in Seq(Statement) /\ N \in Nat /\ Stmts = 1..N
         /\ \A i \in Stmts : fun.body[i] \in Statement
         /\ \A i \in Stmts : fun.next[i] \subseteq Stmts
<1>1. fun.body \in Seq(Statement) /\ fun.next \in [DOMAIN fun.body -> SUBSET DOMAIN fun.body]
  BY WarnAssumption DEF IsFunction
<1>2. N \in Nat /\ Stmts = 1..N /\ \A i \in Stmts : fun.body[i] \in Statement
  BY <1>1 DEF N, Stmts
<1>3. \A i \in Stmts : fun.next[i] \subseteq Stmts
  BY <1>1 DEF Stmts
<1>q. QED
  BY <1>1, <1>2, <1>3

\* One statement more: its result is entered, then what it uses is erased.
LEMMA OneMore ==
  ASSUME fun \in Functions, NEW n \in Nat, n + 1 <= N
  PROVE  UnusedUpTo(n + 1) =
           (UnusedUpTo(n) \cup {d \in Decls : n + 1 \in Enters(d)}) \ {d \in Decls : n + 1 \in UsesOf(d)}
<1>1. \A d \in Decls : Enters(d) \subseteq Nat /\ UsesOf(d) \subseteq Nat
  BY FunctionType DEF Enters, UsesOf
<1>2. ASSUME NEW d \in Decls
      PROVE  d \in UnusedUpTo(n + 1) <=> /\ d \in UnusedUpTo(n) \/ n + 1 \in Enters(d)
                                         /\ n + 1 \notin UsesOf(d)
  <2>1. ASSUME NEW i \in Enters(d), i <= n + 1, \A j \in UsesOf(d) : j < i \/ j > n + 1
        PROVE  (d \in UnusedUpTo(n) \/ n + 1 \in Enters(d)) /\ n + 1 \notin UsesOf(d)
    <3>1. n + 1 \notin UsesOf(d)
      BY <1>1, <2>1
    <3>2. CASE i = n + 1
      BY <3>1, <3>2
    <3>3. CASE i # n + 1
      <4>1. i <= n /\ \A j \in UsesOf(d) : j < i \/ j > n
        BY <1>1, <2>1, <3>3
      <4>q. QED
        BY <3>1, <4>1 DEF UnusedUpTo
    <3>q. QED
      BY <3>2, <3>3
  <2>2. ASSUME n + 1 \notin UsesOf(d), NEW i \in Enters(d), i <= n, \A j \in UsesOf(d) : j < i \/ j > n
        PROVE  d \in UnusedUpTo(n + 1)
    <3>1. i <= n + 1 /\ \A j \in UsesOf(d) : j < i \/ j > n + 1
      BY <1>1, <2>2
    <3>q. QED
      BY <3>1 DEF UnusedUpTo
  <2>3. ASSUME n + 1 \notin UsesOf(d), n + 1 \in Enters(d)
        PROVE  d \in UnusedUpTo(n + 1)
    <3>1. n + 1 <= n + 1 /\ \A j \in UsesOf(d) : j < n + 1 \/ j > n + 1
      BY <1>1, <2>3
    <3>q. QED
      BY <2>3, <3>1 DEF UnusedUpTo
  <2>q. QED
    BY <2>1, <2>2, <2>3 DEF UnusedUpTo
<1>3. UnusedUpTo(n) \subseteq Decls /\ UnusedUpTo(n + 1) \subseteq Decls
  BY DEF UnusedUpTo
<1>q. QED
  BY <1>2, <1>3

\* The variables entered and erased at statement i are those the handlers enter and erase.
LEMMA HandlersSee ==
  ASSUME fun \in Functions, NEW i \in Stmts
  PROVE  LET s == fun.body[i]
             in  == {d \in Decls : i \in Enters(d)}
             out == {d \in Decls : i \in UsesOf(d)}
         IN  /\ s.code = "call" => /\ \A set : insert_potentially_unused_lhs(set, s.lhs) = set \cup in
                                   /\ out = AllSeen(s.ops)
             /\ s.code # "call" => in = {}
             /\ s.code = "assign" => out = AllSeen({s.lhs} \cup s.ops)
             /\ s.code = "return" => out = AllSeen(s.ops)
             /\ s.code = "other" => out = {}
<1> DEFINE s == fun.body[i]
<1>1. s \in Statement
  BY FunctionType
<1>2. s.lhs \in Operand /\ s.ops \subseteq Operand
  BY <1>1 DEF Statement
<1>3. \A o \in Operand : Seen(o) \subseteq Decls
  BY DEF Seen, Operand
<1>4. AllSeen(s.ops) \subseteq Decls /\ AllSeen({s.lhs} \cup s.ops) \subseteq Decls
  BY <1>2, <1>3 DEF AllSeen
<1>5. AllSeen({s.lhs} \cup s.ops) = Seen(s.lhs) \cup AllSeen(s.ops)
  BY DEF AllSeen
<1>6. \A d : i \in Enters(d) <=> s.code = "call" /\ s.lhs.form = "var" /\ s.lhs.var = d /\ d \in Artificial
  BY Zenon DEF Enters
<1>7. \A d : i \in UsesOf(d) <=> \/ s.code \in {"call", "assign", "return"} /\ d \in AllSeen(s.ops)
                                 \/ s.code = "assign" /\ d \in Seen(s.lhs)
  BY Zenon DEF UsesOf
<1>8. s.lhs.var \in Decls
  BY <1>2 DEF Operand
<1>9. ASSUME s.code = "call", NEW set
      PROVE  insert_potentially_unused_lhs(set, s.lhs) = set \cup {d \in Decls : i \in Enters(d)}
  <2> HIDE DEF s
  <2>q. QED
    BY <1>6, <1>8, <1>9 DEF insert_potentially_unused_lhs
<1> HIDE DEF s
<1>10. s.code # "call" => {d \in Decls : i \in Enters(d)} = {}
  BY <1>6
<1>11. s.code \in {"call", "return"} => {d \in Decls : i \in UsesOf(d)} = AllSeen(s.ops)
  BY <1>4, <1>7
<1>12. s.code = "assign" => {d \in Decls : i \in UsesOf(d)} = AllSeen({s.lhs} \cup s.ops)
  BY <1>4, <1>5, <1>7
<1>13. s.code = "other" => {d \in Decls : i \in UsesOf(d)} = {}
  BY <1>7
<1>q. QED
  BY <1>9, <1>10, <1>11, <1>12, <1>13, Zenon DEF s
-----------------------------------------------------------------------------
LEMMA KeptFunction ==
  ASSUME fun' = fun
  PROVE  /\ N' = N /\ Stmts' = Stmts /\ Forward' = Forward
         /\ UnusedUpTo(at - 1)' = UnusedUpTo(at' - 1) /\ UnusedUpTo(N)' = UnusedUpTo(N)
         /\ WarnedUpTo(at - 1)' = WarnedUpTo(at' - 1) /\ WarnedUpTo(N)' = WarnedUpTo(N)
         /\ \A d \in Decls : UsesOf(d)' = UsesOf(d)
         /\ \A i, d : Gives(i, d)' <=> Gives(i, d)
<1>1. N' = N /\ Stmts' = Stmts
  BY Zenon DEF N, Stmts
<1>2. \A d : Enters(d)' = Enters(d) /\ UsesOf(d)' = UsesOf(d)
  BY <1>1, Zenon DEF Enters, UsesOf
<1>3. UnusedUpTo(at - 1)' = UnusedUpTo(at' - 1) /\ UnusedUpTo(N)' = UnusedUpTo(N)
  BY <1>1, <1>2, Zenon DEF UnusedUpTo
<1>4. WarnedUpTo(at - 1)' = WarnedUpTo(at' - 1) /\ WarnedUpTo(N)' = WarnedUpTo(N)
  BY <1>1, <1>3, Zenon DEF WarnedUpTo
<1>5. Forward' = Forward /\ \A i, d : Gives(i, d)' <=> Gives(i, d)
  BY <1>1, Zenon DEF Forward, Gives
<1>q. QED
  BY <1>1, <1>2, <1>3, <1>4, <1>5, Zenon

\* Values as it is while the pass runs: nothing is held and nothing used.
LEMMA ValuesKept ==
  ASSUME fun' = fun, Values, phase \in {"gather", "warn"}, held' = held, used' = used
  PROVE  Values'
<1>1. Forward => (\A d \in Decls : held'[d] = 0) /\ used' = {} /\ held' \in [Decls -> Nat]
  BY Zenon DEF Values
<1>q. QED
  BY <1>1, KeptFunction, Zenon DEF Values

LEMMA GatherSound ==
  ASSUME Inv, GatherCall \/ GatherAssign \/ GatherReturn \/ GatherOther
  PROVE  Inv'
<1>1. /\ phase = "gather" /\ fun' = fun /\ phase' = phase /\ at' = at + 1
      /\ unused_lhs' = unused_lhs /\ warned' = warned /\ held' = held /\ used' = used /\ at <= N
  BY Zenon DEF GatherCall, GatherAssign, GatherReturn, GatherOther, Step, pass, run, N
<1>2. /\ fun \in Functions /\ at \in 1..(N + 1) /\ N \in Nat /\ Stmts = 1..N /\ at \in Stmts
      /\ potential_unused_lhs = UnusedUpTo(at - 1) /\ warned = {}
  BY <1>1, FunctionType DEF Inv, Walk
<1> DEFINE in  == {d \in Decls : at \in Enters(d)}
           out == {d \in Decls : at \in UsesOf(d)}
<1>3. UnusedUpTo(at) = (UnusedUpTo(at - 1) \cup in) \ out
  <2>1. PICK n \in Nat : n = at - 1 /\ n + 1 = at /\ n + 1 <= N
    <3>1. at - 1 \in Nat /\ (at - 1) + 1 = at
      BY <1>2
    <3>q. QED
      BY <1>1, <3>1
  <2>2. UnusedUpTo(n + 1) =
          (UnusedUpTo(n) \cup {d \in Decls : n + 1 \in Enters(d)}) \ {d \in Decls : n + 1 \in UsesOf(d)}
    BY <1>2, <2>1, OneMore
  <2>q. QED
    BY <2>1, <2>2, Zenon
<1>4. /\ Here.code = "call" => /\ \A set : insert_potentially_unused_lhs(set, Here.lhs) = set \cup in
                               /\ out = AllSeen(Here.ops)
      /\ Here.code # "call" => in = {}
      /\ Here.code = "assign" => out = AllSeen({Here.lhs} \cup Here.ops)
      /\ Here.code = "return" => out = AllSeen(Here.ops)
      /\ Here.code = "other" => out = {}
  BY <1>2, HandlersSee, Zenon DEF Here
<1> HIDE DEF in, out
<1>5. potential_unused_lhs' = (potential_unused_lhs \cup in) \ out
  <2>1. CASE GatherCall
    <3>1. /\ Here.code = "call"
          /\ potential_unused_lhs' =
               erase_if_used_lhs(insert_potentially_unused_lhs(potential_unused_lhs, Here.lhs), Here.ops)
      BY <2>1, Zenon DEF GatherCall
    <3>2. insert_potentially_unused_lhs(potential_unused_lhs, Here.lhs) = potential_unused_lhs \cup in
      BY <1>4, <3>1, Zenon
    <3>q. QED
      BY <1>4, <3>1, <3>2, Zenon DEF erase_if_used_lhs
  <2>2. CASE GatherAssign
    <3>1. /\ Here.code = "assign"
          /\ potential_unused_lhs' = potential_unused_lhs \ AllSeen({Here.lhs} \cup Here.ops)
      BY <2>2, Zenon DEF GatherAssign, erase_if_used_lhs
    <3>q. QED
      BY <1>4, <3>1
  <2>3. CASE GatherReturn
    <3>1. Here.code = "return" /\ potential_unused_lhs' = potential_unused_lhs \ AllSeen(Here.ops)
      BY <2>3, Zenon DEF GatherReturn, erase_if_used_lhs
    <3>q. QED
      BY <1>4, <3>1
  <2>4. CASE GatherOther
    <3>1. Here.code = "other" /\ potential_unused_lhs' = potential_unused_lhs
      BY <2>4, Zenon DEF GatherOther, pass
    <3>q. QED
      BY <1>4, <3>1
  <2>q. QED
    BY <2>1, <2>2, <2>3, <2>4
<1>6. potential_unused_lhs' = UnusedUpTo(at' - 1)
  <2>1. at' - 1 = at
    BY <1>1, <1>2
  <2>q. QED
    BY <1>2, <1>3, <1>5, <2>1, Zenon
<1>7. at' \in 1..(N + 1)
  BY <1>1, <1>2
<1>8. Walk'
  BY <1>1, <1>2, <1>6, <1>7, KeptFunction DEF Walk
<1>q. QED
  BY <1>1, <1>8, ValuesKept DEF Inv

LEMMA GatheredSound ==
  ASSUME Inv, Gathered
  PROVE  Inv'
<1>1. /\ phase = "gather" /\ fun' = fun /\ phase' = "warn" /\ at' = 1 /\ at = N + 1
      /\ unused_lhs' = potential_unused_lhs /\ warned' = warned /\ held' = held /\ used' = used
  BY Zenon DEF Gathered, run, N
<1>2. fun \in Functions /\ N \in Nat /\ Stmts = 1..N /\ warned = {} /\ potential_unused_lhs = UnusedUpTo(at - 1)
  BY <1>1, FunctionType DEF Inv, Walk
<1>3. at - 1 = N /\ at' - 1 = 0
  BY <1>1, <1>2
<1>4. WarnedUpTo(0) = {}
  BY <1>2 DEF WarnedUpTo
<1>5. unused_lhs' = UnusedUpTo(N)' /\ warned' = WarnedUpTo(at - 1)'
  BY <1>1, <1>2, <1>3, <1>4, KeptFunction, Zenon
<1>6. at' \in 1..(N + 1)'
  BY <1>1, <1>2, KeptFunction
<1>7. Walk'
  BY <1>1, <1>2, <1>5, <1>6, KeptFunction DEF Walk
<1>q. QED
  BY <1>1, <1>7, ValuesKept DEF Inv

LEMMA WarnSound ==
  ASSUME Inv, WarnCall \/ WarnOther
  PROVE  Inv'
<1> DEFINE hit == Here.code = "call" /\ Here.lhs.form = "var" /\ Here.lhs.var \in unused_lhs
<1>1. /\ phase = "warn" /\ fun' = fun /\ phase' = phase /\ at' = at + 1 /\ at <= N
      /\ unused_lhs' = unused_lhs /\ held' = held /\ used' = used
      /\ warned' = IF hit /\ Here.warn_unused_result THEN warned \cup {at} ELSE warned
  BY Zenon DEF WarnCall, WarnOther, Step, pass, run, N
<1>2. /\ fun \in Functions /\ at \in 1..(N + 1) /\ N \in Nat /\ Stmts = 1..N
      /\ unused_lhs = UnusedUpTo(N) /\ warned = WarnedUpTo(at - 1)
  BY <1>1, FunctionType DEF Inv, Walk
<1>3. WarnedUpTo(at) = IF hit /\ Here.warn_unused_result THEN WarnedUpTo(at - 1) \cup {at}
                                                         ELSE WarnedUpTo(at - 1)
  <2>1. ASSUME NEW i \in Stmts
        PROVE  i <= at <=> i <= at - 1 \/ i = at
    BY <1>2
  <2>2. at \in Stmts /\ ~(at <= at - 1)
    BY <1>1, <1>2
  <2>3. at \in WarnedUpTo(at) <=> hit /\ Here.warn_unused_result
    BY <1>2, <2>1, <2>2 DEF WarnedUpTo, Here
  <2>4. \A i : i # at => (i \in WarnedUpTo(at) <=> i \in WarnedUpTo(at - 1))
    BY <2>1 DEF WarnedUpTo
  <2>5. at \notin WarnedUpTo(at - 1)
    BY <2>2 DEF WarnedUpTo
  <2> HIDE DEF hit
  <2>q. QED
    BY <2>3, <2>4, <2>5
<1> HIDE DEF hit
<1>4. at' - 1 = at /\ at' \in 1..(N + 1)
  BY <1>1, <1>2
<1>5. warned' = WarnedUpTo(at' - 1)
  BY <1>1, <1>2, <1>3, <1>4, Zenon
<1>6. Walk'
  BY <1>1, <1>2, <1>4, <1>5, KeptFunction DEF Walk
<1>q. QED
  BY <1>1, <1>6, ValuesKept DEF Inv

LEMMA WarnedSound ==
  ASSUME Inv, Warned
  PROVE  Inv'
<1>1. /\ phase = "warn" /\ fun' = fun /\ at' = 1 /\ at = N + 1
      /\ phase' = (IF fun.body = <<>> THEN "returned" ELSE "run")
      /\ warned' = warned /\ held' = held /\ used' = used
  BY Zenon DEF Warned, pass, run, N
<1>2. fun \in Functions /\ N \in Nat /\ warned = WarnedUpTo(at - 1)
  BY <1>1, FunctionType DEF Inv, Walk
<1>3. at - 1 = N
  BY <1>1, <1>2
<1>4. at' \in 1..(N + 1) /\ warned' = WarnedUpTo(N)
  BY <1>1, <1>2, <1>3
<1>5. phase' \in {"run", "returned"} /\ (phase' = "run" => at' <= N)
  BY <1>1, <1>2, FunctionType DEF N
<1>6. Walk'
  BY <1>2, <1>1, <1>4, <1>5, KeptFunction DEF Walk
<1>q. QED
  BY <1>1, <1>6, ValuesKept DEF Inv

LEMMA ExecuteSound ==
  ASSUME Inv, Execute
  PROVE  Inv'
<1>1. /\ phase = "run" /\ fun' = fun /\ warned' = warned /\ held' = Held(Here)
      /\ used' = used \cup ({held[d] : d \in Reads(Here)} \ {0})
      /\ \/ at' \in fun.next[at] /\ phase' = phase
         \/ at' = at /\ phase' = "returned"
  BY Zenon DEF Execute, pass
<1>2. /\ fun \in Functions /\ N \in Nat /\ Stmts = 1..N /\ at \in Stmts /\ warned = WarnedUpTo(N)
      /\ Here \in Statement /\ fun.next[at] \subseteq Stmts
  BY <1>1, FunctionType DEF Inv, Walk, Here
<1>3. Walk'
  <2>1. phase' \in {"run", "returned"} /\ at' \in Stmts
    BY <1>1, <1>2
  <2>2. at' \in 1..(N + 1) /\ at' <= N
    BY <1>2, <2>1
  <2>q. QED
    BY <1>1, <1>2, <2>1, <2>2, KeptFunction DEF Walk
<1>4. ASSUME Forward PROVE
        /\ held' \in [Decls -> Nat]
        /\ phase' = "run" => \A d \in Decls : held'[d] # 0 => held'[d] < at' /\ Gives(held'[d], d)
        /\ \A i \in used' : \E d \in Decls : Gives(i, d) /\ \E j \in UsesOf(d) : i < j
  <2>1. /\ held \in [Decls -> Nat]
        /\ \A d \in Decls : held[d] # 0 => held[d] < at /\ Gives(held[d], d)
        /\ \A i \in used : \E d \in Decls : Gives(i, d) /\ \E j \in UsesOf(d) : i < j
    BY <1>1, <1>4, Zenon DEF Inv, Values
  <2>2. Here.lhs \in Operand /\ Here.ops \subseteq Operand
        /\ Here.code \in {"call", "assign", "return", "other"}
    BY <1>2 DEF Statement
  <2>3. ASSUME NEW d \in Decls
        PROVE  held'[d] = held[d] \/ held'[d] = 0 \/ (held'[d] = at /\ Gives(at, d))
    <3>1. CASE Here.lhs.form = "var" /\ Here.lhs.var = d
      <4>1. held'[d] = IF Here.code = "call" THEN at ELSE 0
        BY <1>1, <2>1, <3>1 DEF Held
      <4>q. QED
        BY <1>2, <3>1, <4>1 DEF Gives, Here
    <3>2. CASE ~(Here.lhs.form = "var" /\ Here.lhs.var = d)
      BY <1>1, <2>1, <3>2 DEF Held
    <3>q. QED
      BY <3>1, <3>2
  <2>4. held' \in [Decls -> Nat]
    <3>1. at \in Nat /\ (IF Here.code = "call" THEN at ELSE 0) \in Nat
      BY <1>2
    <3>2. \/ held' = held
          \/ held' = [held EXCEPT ![Here.lhs.var] = IF Here.code = "call" THEN at ELSE 0]
      BY <1>1, Zenon DEF Held
    <3>q. QED
      BY <2>1, <3>1, <3>2
  <2>5. ASSUME phase' = "run", NEW d \in Decls, held'[d] # 0
        PROVE  held'[d] < at' /\ Gives(held'[d], d)
    <3>1. at' \in Stmts /\ at < at'
      BY <1>1, <1>2, <1>4, <2>5 DEF Forward
    <3>2. held[d] \in Nat /\ at \in Nat /\ at' \in Nat
      BY <1>2, <2>1, <3>1
    <3>q. QED
      BY <2>1, <2>3, <2>5, <3>1, <3>2
  <2>6. ASSUME NEW d \in Reads(Here), held[d] # 0
        PROVE  d \in Decls /\ Gives(held[d], d) /\ \E j \in UsesOf(d) : held[d] < j
    <3>1. Here.code # "other" /\ d \in AllSeen(Here.ops)
      BY <2>6 DEF Reads
    <3>2. d \in Decls
      BY <2>2, <3>1 DEF AllSeen, Seen, Operand
    <3>3. at \in UsesOf(d)
      BY <1>2, <2>2, <3>1 DEF UsesOf, Here
    <3>q. QED
      BY <2>1, <2>6, <3>2, <3>3
  <2>7. ASSUME NEW i \in used'
        PROVE  \E d \in Decls : Gives(i, d) /\ \E j \in UsesOf(d) : i < j
    <3>1. CASE i \in used
      BY <2>1, <3>1
    <3>2. CASE i \notin used
      <4>1. PICK d \in Reads(Here) : i = held[d] /\ held[d] # 0
        BY <1>1, <2>7, <3>2
      <4>q. QED
        BY <2>6, <4>1
    <3>q. QED
      BY <3>1, <3>2
  <2>q. QED
    BY <2>4, <2>5, <2>7
<1>5. Values'
  <2>1. phase' \notin {"gather", "warn"}
    BY <1>1
  <2>2. ASSUME NEW i, NEW d \in Decls, Gives(i, d), NEW j \in UsesOf(d), i < j
        PROVE  Gives(i, d)' /\ \E q \in UsesOf(d)' : i < q
    BY <1>1, <2>2, KeptFunction, Zenon
  <2>3. ASSUME Forward
        PROVE  \A i \in used' : \E d \in Decls : Gives(i, d)' /\ \E j \in UsesOf(d)' : i < j
    BY <1>4, <2>2, <2>3, Zenon
  <2>4. ASSUME Forward, phase' = "run", NEW d \in Decls, held'[d] # 0
        PROVE  held'[d] < at' /\ Gives(held[d], d)'
    <3>1. held'[d] < at' /\ Gives(held'[d], d)
      BY <1>4, <2>4, Zenon
    <3>q. QED
      BY <1>1, <3>1, KeptFunction DEF Gives
  <2>5. Forward' = Forward
    BY <1>1, KeptFunction
  <2>q. QED
    BY <1>4, <2>1, <2>3, <2>4, <2>5, Zenon DEF Values
<1>q. QED
  BY <1>3, <1>5 DEF Inv

LEMMA InitSound == Init => Inv
<1> SUFFICES ASSUME Init PROVE Inv
  OBVIOUS
<1>1. /\ fun \in Functions /\ phase = "gather" /\ at = 1 /\ potential_unused_lhs = {} /\ warned = {}
      /\ held = [d \in Decls |-> 0] /\ used = {}
  BY DEF Init
<1>2. N \in Nat /\ Stmts = 1..N
  BY <1>1, FunctionType
<1>3. UnusedUpTo(0) = {}
  BY <1>2 DEF UnusedUpTo, Enters
<1>4. at - 1 = 0 /\ at \in 1..(N + 1)
  BY <1>1, <1>2
<1>5. Walk
  BY <1>1, <1>3, <1>4 DEF Walk
<1>6. Values
  <2>1. held \in [Decls -> Nat] /\ \A d \in Decls : held[d] = 0
    BY <1>1
  <2>q. QED
    BY <1>1, <2>1 DEF Values
<1>q. QED
  BY <1>5, <1>6 DEF Inv

LEMMA StepSound == ASSUME Inv, [Next]_vars PROVE Inv'
<1>1. CASE UNCHANGED vars
  <2>1. /\ fun' = fun /\ phase' = phase /\ at' = at /\ potential_unused_lhs' = potential_unused_lhs
        /\ unused_lhs' = unused_lhs /\ warned' = warned /\ held' = held /\ used' = used
    BY <1>1, Zenon DEF vars, pass, run
  <2>2. Walk'
    BY <2>1, KeptFunction, Zenon DEF Inv, Walk
  <2>3. Values'
    BY <2>1, KeptFunction, Zenon DEF Inv, Values
  <2>q. QED
    BY <2>2, <2>3 DEF Inv
<1>q. QED
  BY <1>1, GatherSound, GatheredSound, WarnSound, WarnedSound, ExecuteSound, Zenon DEF Next

\* For every function, warn_unused_result_lhs warns of the calls declared warn_unused_result of whose
\* result variable some call is followed by no use that gather_unused_lhs sees, and of no other.
THEOREM WarnsExactlyAlways == Spec => []WarnsExactly
<1>1. Inv => WarnsExactly
  <2> SUFFICES ASSUME Inv, phase \in {"run", "returned"}
               PROVE  warned = {i \in Stmts : /\ fun.body[i].code = "call" /\ fun.body[i].lhs.form = "var"
                                              /\ fun.body[i].lhs.var \in UnusedUpTo(Len(fun.body))
                                              /\ fun.body[i].warn_unused_result}
    BY Zenon DEF WarnsExactly
  <2>1. warned = WarnedUpTo(N) /\ Stmts = 1..N /\ N \in Nat
    BY FunctionType DEF Inv, Walk
  <2>2. \A i \in Stmts : i <= N
    BY <2>1
  <2>q. QED
    BY <2>1, <2>2 DEF WarnedUpTo, N
<1>q. QED
  BY <1>1, InitSound, StepSound, PTL DEF Spec

\* For every function in which control only goes forward in the order of FOR_ALL_BB_FN and no two
\* calls share a result variable: a result that a run reads as an argument, in an assignment or in a
\* return was not reported as ignored.
THEOREM UsedNotWarnedAlways == Spec => []UsedNotWarned
<1>1. Inv => UsedNotWarned
  <2> SUFFICES ASSUME Inv, Forward, OneResult, NEW i \in warned, i \in used PROVE FALSE
    BY Zenon DEF UsedNotWarned
  <2>1. phase \in {"run", "returned"} /\ warned = WarnedUpTo(N) /\ Stmts = 1..N /\ N \in Nat
    BY FunctionType DEF Inv, Walk, Values
  <2>2. PICK d \in Decls : Gives(i, d) /\ \E j \in UsesOf(d) : i < j
    BY Zenon DEF Inv, Values
  <2>3. d \in UnusedUpTo(N)
    BY <2>1, <2>2 DEF WarnedUpTo, Gives
  <2>4. PICK p \in Enters(d) : \A j \in UsesOf(d) : j < p \/ j > N
    BY <2>3 DEF UnusedUpTo
  <2>5. i = p
    BY <2>2, <2>4 DEF OneResult, Enters, Gives
  <2>6. \A j \in UsesOf(d) : j \in 1..N
    BY <2>1 DEF UsesOf
  <2>7. p \in 1..N
    BY <2>1, <2>4 DEF Enters
  <2>q. QED
    BY <2>1, <2>2, <2>4, <2>5, <2>6, <2>7
<1>q. QED
  BY <1>1, InitSound, StepSound, PTL DEF Spec
=============================================================================
