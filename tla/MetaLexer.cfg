SPECIFICATION Spec
CONSTANTS
  Lines <- ShortLines
  MoreLines <- TwoLines
  MaxSaved = 2
  Misuse = {}
INVARIANTS
  ReadsInBounds
  TokensAreRight
  LookaheadReturns
PROPERTIES
  TokensTile
