----------------------------- MODULE Arithmetic -----------------------------
(***************************************************************************)
(* What the emitted instructions compute.  lower_function keeps the value  *)
(* of a register in the low bits of a machine word and leaves the bits     *)
(* above them to chance; the cases that read whole words truncate their    *)
(* operands first, and constants are put together from a 20 bit and a sign *)
(* extended 12 bit part.                                                   *)
(*                                                                         *)
(* An expression is evaluated twice: `words' is the stack of machine words *)
(* the emitted code leaves for the pending operands, `values' the stack of *)
(* the numbers they stand for.  CodeGen says in which registers they are.  *)
(*                                                                         *)
(* Words are scaled down: a byte has ByteBits bits (8 in the machine), a   *)
(* word four bytes, an immediate ImmBits (12).  What the code depends on   *)
(* is kept: an immediate is longer than a byte and shorter than two, and   *)
(* the word length is a power of two that divides the numbers of a byte,   *)
(* so that the bits a shift looks at are all in the low byte.              *)
(***************************************************************************)
EXTENDS IrTypes, Sequences, Bitwise

CONSTANTS
  ByteBits,   \* bits of a byte
  ImmBits,    \* bits of an immediate
  Types,      \* the types of the operands
  Literals,   \* the words that integer literals stand for
  BinOps,     \* the binary operators
  MaxOps      \* bound: operators of one expression

ASSUME ScaleAssumption ==
  /\ ByteBits \in {4, 8}
  /\ ByteBits < ImmBits /\ ImmBits < 2 * ByteBits
ASSUME LiteralsAssumption == Literals \subseteq 0 .. 2 ^ (4 * ByteBits) - 1
ASSUME ExpressionsAssumption ==
  Types \subseteq IrType /\ BinOps \subseteq BinaryOp /\ MaxOps \in Nat

VARIABLES
  words,    \* the machine words of the pending operands
  types,    \* their types
  values,   \* the numbers they stand for
  ops,      \* operators evaluated so far
  a0        \* what was returned, a singleton, or nothing

vars == <<words, types, values, ops, a0>>

WordBits == 4 * ByteBits

Modulus == 2 ^ WordBits

-----------------------------------------------------------------------------
(* The instructions, as the processor executes them.                       *)

Signed(word) == IF word >= Modulus \div 2 THEN word - Modulus ELSE word

(* The sign extension of the low `bits' bits of a word. *)
SignExtend(word, bits) ==
  LET low == word % 2 ^ bits
  IN (IF low >= 2 ^ (bits - 1) THEN low - 2 ^ bits ELSE low) % Modulus

ZeroExtend(word, bits) == word % 2 ^ bits

(* encode_i_type keeps the low bits, the processor extends the sign. *)
Immediate(imm) == SignExtend(imm, ImmBits)

(* encode_u_type keeps the high bits. *)
lui(imm) == imm - (imm % 2 ^ ImmBits)

addi(x, imm) == (x + Immediate(imm)) % Modulus

xori(x, imm) == x ^^ Immediate(imm)

Shift(amount) == 2 ^ (amount % WordBits)

(* A product, up to a multiple of the modulus, of factors small enough for *)
(* the integers of the model checker.                                      *)
Product(m, n) == Signed(m % Modulus) * Signed(n % Modulus)

sll(x, y) == Product(x, Shift(y)) % Modulus

srl(x, y) == x \div Shift(y)

sra(x, y) == (Signed(x) \div Shift(y)) % Modulus

Bit(b) == IF b THEN 1 ELSE 0

slt(x, y) == Bit(Signed(x) < Signed(y))

sltu(x, y) == Bit(x < y)

Abs(n) == IF n < 0 THEN -n ELSE n

(* Division rounds towards zero; dividing by zero gives -1 and leaves the  *)
(* dividend.                                                               *)
Quotient(m, n) ==
  CASE n = 0 -> -1
    [] n # 0 /\ (m < 0) = (n < 0) -> Abs(m) \div Abs(n)
    [] OTHER -> -(Abs(m) \div Abs(n))

Remainder(m, n) == IF n = 0 THEN m ELSE m - n * Quotient(m, n)

(* The number of the type that v is congruent to.                          *)
Wrap(v, type) ==
  LET modulus == 2 ^ (get_size(type) * ByteBits)
      low == v % modulus
  IN IF is_signed(type) /\ low >= modulus \div 2 THEN low - modulus ELSE low

-----------------------------------------------------------------------------
(* Mutant: the shift is that of a byte, whatever the type.                 *)
TruncateShiftOfByte(type) == WordBits - ByteBits

(* The shift of truncate_reg, encoded in 5 bits: 24, 48 and 96 become 24,  *)
(* 16 and 0.                                                               *)
TruncateShift(type) == ((WordBits - ByteBits) * get_size(type)) % WordBits

truncate_reg(x, type) ==
  IF is_signed(type)
  THEN sra(sll(x, TruncateShift(type)), TruncateShift(type))
  ELSE srl(sll(x, TruncateShift(type)), TruncateShift(type))

(* Mutant: the borrow of a sign extended immediate is not made good.       *)
NotCompensated(imm) == imm

(* addi and xori extend the sign of an immediate; the part that lui loads  *)
(* makes up for it.                                                        *)
Compensated(imm) ==
  IF (imm \div 2 ^ (ImmBits - 1)) % 2 = 1
  THEN (imm + 2 ^ ImmBits) % Modulus
  ELSE imm

FitsImmediate(imm) == imm < 2 ^ ImmBits

(* The case LoadImm. *)
LoadImm(data) ==
  LET imm == Compensated(data)
  IN IF FitsImmediate(imm) THEN addi(0, imm) ELSE addi(lui(imm), imm)

(* The case BitNot. *)
BitNot(x, type) ==
  LET mask == Compensated(2 ^ (get_size(type) * ByteBits) - 1)
  IN IF FitsImmediate(mask) THEN xori(x, mask) ELSE addi(lui(mask), mask) ^^ x

(* The cases of the binary operators. *)
Lowered(op, type, x, y) ==
  LET tx == truncate_reg(x, type)
      ty == truncate_reg(y, type)
      less(p, q) == IF is_signed(type) THEN slt(p, q) ELSE sltu(p, q)
  IN CASE op = "Add" -> (x + y) % Modulus
       [] op = "Sub" -> (x - y) % Modulus
       [] op = "Mul" -> Product(x, y) % Modulus
       [] op = "Div" /\ is_signed(type) -> Quotient(Signed(tx), Signed(ty)) % Modulus
       [] op = "Div" /\ ~is_signed(type) -> Quotient(tx, ty) % Modulus
       [] op = "Rem" /\ is_signed(type) -> Remainder(Signed(tx), Signed(ty)) % Modulus
       [] op = "Rem" /\ ~is_signed(type) -> Remainder(tx, ty) % Modulus
       [] op = "BitAnd" -> x & y
       [] op = "BitOr" -> x | y
       [] op = "BitXor" -> x ^^ y
       [] op = "BitShl" -> sll(x, y)
       [] op = "BitShr" -> IF is_signed(type) THEN sra(tx, y) ELSE srl(tx, y)
       [] op = "CmpEq" -> sltu(tx ^^ ty, Immediate(1))
       [] op = "CmpNe" -> sltu(0, tx ^^ ty)
       [] op = "CmpGt" -> less(ty, tx)
       [] op = "CmpGte" -> xori(less(tx, ty), 1)
       [] op = "CmpLt" -> less(tx, ty)
       [] op = "CmpLte" -> xori(less(ty, tx), 1)

(* Mutant: a signed load that extends the sign beyond the word.            *)
ReloadedTooWide(x, type) == IF is_signed(type) THEN Wrap(x, type) ELSE x

(* sb, sh or sw, then lb, lbu, lh, lhu or lw.                              *)
Reloaded(x, type) ==
  LET bits == get_size(type) * ByteBits
  IN IF bits = WordBits THEN x
     ELSE IF is_signed(type) THEN SignExtend(x, bits) ELSE ZeroExtend(x, bits)

-----------------------------------------------------------------------------
(* The same in numbers.                                                    *)

(* The digits of two numbers of the type, combined one by one.             *)
Digitwise(f(_, _), type, a, b) ==
  LET digit[v \in Int, i \in Nat] == (v \div 2 ^ i) % 2
      sum[n \in Nat] ==
        IF n = 0 THEN 0
        ELSE sum[n - 1] + 2 ^ (n - 1) * f(digit[a, n - 1], digit[b, n - 1])
  IN Wrap(sum[get_size(type) * ByteBits], type)

Both(p, q) == p * q

Either(p, q) == p + q - p * q

One(p, q) == (p + q) % 2

(* Shift amounts count modulo the word length (shl_i16_by_32.cdr).         *)
Number(op, type, a, b) ==
  CASE op = "Add" -> Wrap(a + b, type)
    [] op = "Sub" -> Wrap(a - b, type)
    [] op = "Mul" -> Wrap(Product(a, b), type)
    [] op = "Div" -> Wrap(Quotient(a, b), type)
    [] op = "Rem" -> Wrap(Remainder(a, b), type)
    [] op = "BitAnd" -> Digitwise(Both, type, a, b)
    [] op = "BitOr" -> Digitwise(Either, type, a, b)
    [] op = "BitXor" -> Digitwise(One, type, a, b)
    [] op = "BitShl" -> Wrap(Product(a, 2 ^ (b % WordBits)), type)
    [] op = "BitShr" -> a \div 2 ^ (b % WordBits)
    [] op = "CmpEq" -> Bit(a = b)
    [] op = "CmpNe" -> Bit(a # b)
    [] op = "CmpGt" -> Bit(a > b)
    [] op = "CmpGte" -> Bit(a >= b)
    [] op = "CmpLt" -> Bit(a < b)
    [] op = "CmpLte" -> Bit(a <= b)

-----------------------------------------------------------------------------
Depth == Len(words)

Push(stack, n, x) == Append(SubSeq(stack, 1, Len(stack) - n), x)

(* The top n operands are replaced by a result.                            *)
Result(n, word, type, value) ==
  /\ words' = Push(words, n, word)
  /\ types' = Push(types, n, type)
  /\ values' = Push(values, n, value)
  /\ UNCHANGED a0

Operate(n) == a0 = {} /\ Depth >= n /\ ops < MaxOps /\ ops' = ops + 1

(* A boolean literal stands for 0 or 1, an integer literal for any word,   *)
(* in the range of its type or not.                                        *)
Literal(type, data) ==
  /\ a0 = {} /\ Depth < 2
  /\ type = "bool" => data \in {0, 1}
  /\ Result(0, LoadImm(data), type, Wrap(data, type))
  /\ UNCHANGED ops

Binary(op) ==
  /\ Operate(2)
  /\ BinaryAccepts(op, types[1], types[2])
  /\ Result(2, Lowered(op, types[1], words[1], words[2]),
            BinaryType(op, types[1]), Number(op, types[1], values[1], values[2]))

Neg ==
  /\ Operate(1)
  /\ UnaryAccepts("Neg", types[Depth])
  /\ Result(1, (0 - words[Depth]) % Modulus, types[Depth],
            Wrap(-values[Depth], types[Depth]))

Complement ==
  /\ Operate(1)
  /\ UnaryAccepts("BitNot", types[Depth])
  /\ Result(1, BitNot(words[Depth], types[Depth]), types[Depth],
            Wrap(-values[Depth] - 1, types[Depth]))

(* An exclusive or with the constant 1. *)
LogicalNot ==
  /\ Operate(1)
  /\ UnaryAccepts("LogicalNot", types[Depth])
  /\ Result(1, Lowered("BitXor", types[Depth], words[Depth], LoadImm(1)),
            types[Depth], 1 - values[Depth])

(* The allocator may spill an operand and load it again at any time.       *)
SpillAndReload(i) ==
  /\ a0 = {}
  /\ words' = [words EXCEPT ![i] = Reloaded(words[i], types[i])]
  /\ UNCHANGED <<types, values, ops, a0>>

(* RETURN truncates the value into a0. *)
Return ==
  /\ a0 = {} /\ Depth = 1
  /\ a0' = {truncate_reg(words[1], types[1])}
  /\ UNCHANGED <<words, types, values, ops>>

Done == a0 # {} /\ UNCHANGED vars

Init == words = <<>> /\ types = <<>> /\ values = <<>> /\ ops = 0 /\ a0 = {}

Next ==
  \/ \E type \in Types, data \in Literals : Literal(type, data)
  \/ \E op \in BinOps : Binary(op)
  \/ Neg \/ Complement \/ LogicalNot
  \/ \E i \in 1 .. Depth : SpillAndReload(i)
  \/ Return
  \/ Done

Spec == Init /\ [][Next]_vars

-----------------------------------------------------------------------------
TypeOK ==
  /\ words \in Seq(0 .. Modulus - 1)
  /\ types \in Seq(IrType)
  /\ values \in Seq(-Modulus .. Modulus)
  /\ Len(types) = Depth /\ Len(values) = Depth
  /\ ops \in 0 .. MaxOps
  /\ a0 \in SUBSET (0 .. Modulus - 1)

(* Whatever was computed, spilled and loaded before, the low bits of every *)
(* word are those of the number it stands for.                             *)
WordsRepresentNumbers ==
  \A i \in 1 .. Depth : Wrap(words[i], types[i]) = values[i]

(* The value that a function returns is exact in all bits of a0.           *)
ReturnIsExact == \A word \in a0 : word = values[1] % Modulus
=============================================================================
