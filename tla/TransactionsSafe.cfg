SPECIFICATION Spec
CONSTANTS
  Txn = {t1, t2, t3}
  NoTxn = NoTxn
  Flags = {0}
  NoFlags = 0
  MaxFrames = 3
  Decls = {"decl"}
  Misuse = {}
SYMMETRY Blocks
INVARIANTS
  ScopesNest
  OwnTransaction
  FamilyTree
PROPERTIES
  ErrorsNotCommitted
  OnlyErrorsRollBack
  Stacked
