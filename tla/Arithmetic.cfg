CONSTANTS
  ByteBits = 4
  ImmBits = 6
  Types = {"bool", "u8", "i8", "u16", "i16", "i32", "u32"}
  Literals = {0, 1, 3, 18, 45, 32767, 32776, 65535}
  BinOps = {"Add", "Sub", "Mul", "Div", "Rem", "BitAnd", "BitOr", "BitXor", "BitShl", "BitShr", "CmpEq", "CmpNe", "CmpLt", "CmpLte", "CmpGt", "CmpGte"}
  MaxOps = 2
SPECIFICATION Spec
INVARIANTS TypeOK WordsRepresentNumbers ReturnIsExact
