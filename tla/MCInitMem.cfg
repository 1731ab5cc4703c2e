CONSTANTS
  Decls <- MCDecls
  VarDecls <- MCVarDecls
  Artificial <- MCArtificial
  Seqs <- MCSeqs
  Functions <- MCFunctions
  NoDecl <- MCNoDecl
  NoSeq <- MCNoSeq
  Programs <- MCPrograms
SPECIFICATION Spec
INVARIANTS TypeOK GatheredExactly StatementsKept
PROPERTIES ImplementsZeroed EveryFunctionCompiled
CHECK_DEADLOCK FALSE
