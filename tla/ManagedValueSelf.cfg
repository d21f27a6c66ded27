SPECIFICATION Spec
CONSTANTS
  Handle = {h1, h2}
  Cell = {c1}
  NoCell = NoCell
  Layout <- Objects
  Constructions = {"full"}
  Misuse = {"self"}
  CountLimit = 3
  MaxDepth = 2
INVARIANTS
  HeldIsLive
