SPECIFICATION Spec
CONSTANTS
  inline = inline
  static = static
  vtable = vtable
  str = str
  ctor = ctor
  libfn = libfn
  Name <- Names
  Typeinfo <- Typeinfos
  Str <- Strings
  Structor <- Structors
  Host <- Libraries
  Mod = {m1, m2}
  NoMod = NoMod
  Module <- Modules
  Level <- Levels
  CudaFile = TRUE
  DisableLLVMPasses = TRUE
  Misuse = {}
SYMMETRY Slots
INVARIANTS
  ManagersBuilt
