CONSTANTS
  Decls <- MCDecls
  VarDecls <- MCDecls
  Artificial <- MCNone
  Seqs <- MCSeqs
  Functions <- MCFunctions
  NoDecl <- MCNoDecl
  NoSeq <- MCNoSeq
  Programs <- MCPrograms
  Persistent <- MCPersistent
  Storage <- MCStorage
SPECIFICATION RunSpec
INVARIANT NoJunkRead
