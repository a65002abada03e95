------------------------------ MODULE MCLexer ------------------------------
(* All texts of up to MaxLength characters from Core, a comment between    *)
(* any two of these, all pairs of characters, and texts with the keywords  *)
(* and what is nearly one.                                                 *)
EXTENDS Lexer

CONSTANT MaxLength

Core == {"\n", " ", "/", "<", "n", "1", Eof}

Every == Core \cup DOMAIN Single \cup {"_", ":", "0", "Z", "\t", Eof}

Spelled ==
  {s \o end : s \in DOMAIN Keyword, end \in {<<>>, <<"1">>, <<"(">>, <<" ", "f">>}}

Commented == {<<a>> \o Comment \o <<b, "\n", c>> : a, b, c \in Core}

MCTexts ==
  UNION {[1 .. n -> Core] : n \in 0 .. MaxLength} \cup [1 .. 2 -> Every] \cup Spelled \cup Commented
=============================================================================
