CONSTANTS
  Decls <- MCDecls
  Artificial <- MCArtificial
  Functions <- MCFunctions
SPECIFICATION Spec
INVARIANTS WarnsExactly UsedNotWarned
CHECK_DEADLOCK FALSE
