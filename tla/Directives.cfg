CONSTANTS
  Texts <- MCTexts
  None = None
SPECIFICATION Spec
INVARIANTS NoneLost NoneInvented TyposRefused LegalAccepted
CHECK_DEADLOCK FALSE
