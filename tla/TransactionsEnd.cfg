SPECIFICATION FairSpec
CONSTANTS
  Txn = {t1, t2}
  NoTxn = NoTxn
  Flags = {0, 1}
  NoFlags = 0
  MaxFrames = 2
  Decls = {"ns", "macro"}
  Misuse = {}
PROPERTIES
  Ended
