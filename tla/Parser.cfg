CONSTANTS
  Literals <- MCLiterals
  LongMax = 50
  Word = 16
  Other = {"IDENT", "KEYWORD_TRUE", "KEYWORD_FN", "KEYWORD_RETURN", "SEMICOLON",
    "L_PAREN", "R_PAREN", "L_CURLY_BRACKET", "R_CURLY_BRACKET", "THIN_ARROW",
    "EQUAL_EQUAL", "LESS", "PLUS", "MINUS", "ASTERISK"}
  MaxTokens = 10
SPECIFICATION Spec
INVARIANTS TypeOK ErrorsAtFirstIllegal TreeFollowsPrecedence LiteralsKeepValue
PROPERTY ParseEnds
