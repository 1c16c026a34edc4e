CONSTANTS
  Texts <- MCTexts
  None = None
SPECIFICATION Spec
INVARIANTS TyposErrorOut
CHECK_DEADLOCK FALSE
