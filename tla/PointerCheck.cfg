SPECIFICATION Spec
CONSTANTS
  Thread = {t1, t2}
  Pointer <- Addresses
  PageSize = 2
  Size = 2
INVARIANTS
  FirstInFirstOut
  NoPointerTwice
PROPERTIES
  AnswersRight

