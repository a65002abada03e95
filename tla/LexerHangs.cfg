CONSTANTS
  MaxLength = 2
  Texts <- MCTexts
  MaxTokens = 2
SPECIFICATION Spec
PROPERTY EveryCallReturns
