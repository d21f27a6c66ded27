SPECIFICATION Spec
CONSTANTS
  Compilers <- Variants
  Started <- Starts
  Builtins <- BuiltinLines
  InputLines = {3}
  Intrinsics <- IntrinsicLines
  Hidden = {9}
  MaxSnaps = 2
  MaxChanges = 1
  MaxFaults = 1
  Chunk = 2
  MaxOutput = 3
INVARIANTS
  ReportsRight
  NoLitter
  SignalCleans
PROPERTIES
  Finishes
CHECK_DEADLOCK FALSE
