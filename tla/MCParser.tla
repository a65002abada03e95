------------------------------ MODULE MCParser ------------------------------
(* Literals that are right, that have no type, and that no long long       *)
(* holds: 0b10u8, 7 and 99u8.                                              *)
EXTENDS Parser

Literal(base, digits, suffix) ==
  [type |-> "INT_LITERAL", base |-> base, digits |-> digits, suffix |-> suffix]

MCLiterals ==
  {Literal(2, <<1, 0>>, "u8"), Literal(10, <<7>>, ""), Literal(10, <<9, 9>>, "u8")}
=============================================================================
