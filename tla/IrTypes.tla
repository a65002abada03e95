------------------------------ MODULE IrTypes ------------------------------
(***************************************************************************)
(* The scalar types of the IR, their sizes and signedness, the operators   *)
(* of the language, and the typing rules that decide which operator may be *)
(* applied to operands of which types.  An expression that breaks a rule   *)
(* ends the compilation with a type error, so the IR writer only ever sees *)
(* expressions that satisfy them.                                          *)
(***************************************************************************)
EXTENDS Integers

IrType == {"bool", "u8", "u16", "u32", "i8", "i16", "i32"}

(* IrType::get_size, in bytes. *)
get_size(t) ==
  CASE t \in {"bool", "u8", "i8"} -> 1
    [] t \in {"u16", "i16"}       -> 2
    [] OTHER                      -> 4

(* IrType::is_signed. *)
is_signed(t) == t \in {"i8", "i16", "i32"}

(* FrontendType::is_integer and is_numeric coincide on the types an        *)
(* expression can have (the floating-point variants are never produced).   *)
is_integer(t) == t \in IrType \ {"bool"}

is_unsigned_integer(t) == t \in {"u8", "u16", "u32"}

(* ir::Op, the members a binary expression is translated to. *)
CompareOp == {"CmpEq", "CmpNe", "CmpLt", "CmpLte", "CmpGt", "CmpGte"}

BitwiseOp == {"BitOr", "BitXor", "BitAnd"}

ShiftOp == {"BitShl", "BitShr"}

ArithmeticOp == {"Add", "Sub", "Mul", "Div", "Rem"}

BinaryOp == CompareOp \cup BitwiseOp \cup ShiftOp \cup ArithmeticOp

UnaryOp == {"Neg", "BitNot", "LogicalNot"}

(* The type errors of BinaryExpression::resolve_type. *)
BinaryAccepts(op, l_type, r_type) ==
  /\ op \in CompareOp => l_type = r_type
  /\ op \in BitwiseOp \cup ArithmeticOp =>
        is_integer(l_type) /\ is_integer(r_type) /\ l_type = r_type
  /\ op \in ShiftOp => is_integer(l_type) /\ is_unsigned_integer(r_type)

(* The type a binary expression resolves to. *)
BinaryType(op, l_type) == IF op \in CompareOp THEN "bool" ELSE l_type

(* The type errors of UnaryExpression::resolve_type.  The type of a unary  *)
(* expression is the type of its operand.                                  *)
UnaryAccepts(op, type) ==
  /\ op = "LogicalNot" => type = "bool"
  /\ op = "BitNot" => is_integer(type)
  /\ op = "Neg" => is_integer(type) /\ ~is_unsigned_integer(type)
=============================================================================
