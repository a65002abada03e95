------------------------------- MODULE Tokens -------------------------------
(* The types of token, and the error raised for a token that cannot stand  *)
(* where it was found.                                                     *)

(* What the lexer recognises.  It has no case for a colon, so the type     *)
(* COLON exists but no token has it.                                       *)
TokenType ==
  {"END_OF_FILE", "IDENT", "INT_LITERAL", "KEYWORD_TRUE", "KEYWORD_FALSE",
   "KEYWORD_FN", "KEYWORD_RETURN", "SEMICOLON", "L_PAREN", "R_PAREN",
   "L_SQR_BRACKET", "R_SQR_BRACKET", "L_CURLY_BRACKET", "R_CURLY_BRACKET",
   "COMMA", "THIN_ARROW", "AND", "AND_AND", "OR", "OR_OR", "CARET",
   "LESS_LESS", "GREATER_GREATER", "EQUAL_EQUAL", "EXCLAMATION_EQUAL", "LESS",
   "LESS_EQUAL", "GREATER", "GREATER_EQUAL", "PLUS", "MINUS", "ASTERISK",
   "FORWARD_SLASH", "PERCENT", "EXCLAMATION", "EQUAL", "TILDE",
   "ERROR_UNEXPECTED_CHAR"}

(* to_string has no case for the two boolean keywords, and throws.         *)
Nameable == TokenType \ {"KEYWORD_TRUE", "KEYWORD_FALSE"}

(* Lexer::expect: the syntax error names the token that was found, which   *)
(* for some tokens fails first.                                            *)
UnexpectedToken(type) == IF type \in Nameable THEN "SyntaxError" ELSE "Unimplemented"
=============================================================================
