SPECIFICATION MCSpec
CONSTANTS
  Handle = {h1, h2, h3}
  Cell = {c1, c2}
  NoCell = NoCell
  Layout <- Layouts
  Constructions = {"full"}
  Misuse = {}
  CountLimit = 4
  MaxDepth = 3
  Type <- HandledTypes
  Bodies <- ShortBodies
  Var = {"v", "w"}
INVARIANTS
  CountIsHolders
  NoLeak
  StackOK
  DestroysBuilt
  DestroysObjects
  FindsValue
  AddsOneReference
PROPERTIES
  FreedDestroyed
  Reclaimed
  Shared
