CONSTANTS
  MaxLength = 4
  Texts <- MCTexts
  MaxTokens = 6
SPECIFICATION Spec
INVARIANTS TypeOK TokensCoverText LongestMatch LocationsAgree
PROPERTY CallsReturn
