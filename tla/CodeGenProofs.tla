--------------------------- MODULE CodeGenProofs ---------------------------
(***************************************************************************)
(* The inductive invariant of the register allocator is one: every call    *)
(* that lower_function makes preserves it, for every number of slots from  *)
(* three up.  The lemmas follow the code: where get_empty_slot finds a     *)
(* slot and what evicting its content keeps, then load_dest_vreg,          *)
(* load_src_vreg, the scratch register, the instruction itself, and the    *)
(* end of the function.                                                    *)
(***************************************************************************)
EXTENDS CodeGenInv, FiniteSetTheorems, TLAPS

-----------------------------------------------------------------------------
(* The emission: it preserves the well-formedness of the IR, for every     *)
(* choice of types, operators and bounds.                                  *)

(* Appending an instruction that uses the result of the last one, with a   *)
(* destination of its own, keeps the code well formed.                     *)
LEMMA AppendFollows ==
  ASSUME NEW code \in Seq(Instruction), NEW I \in Instruction,
         \A i, j \in 1 .. Len(code) : code[i].dest = code[j].dest => i = j,
         \A i \in 1 .. Len(code) : Follows(code, i - 1, code[i]),
         \A i \in 1 .. Len(code) : code[i].dest # I.dest,
         Follows(code, Len(code), I),
         NEW longer, longer = Append(code, I)
  PROVE  /\ longer \in Seq(Instruction)
         /\ \A i, j \in 1 .. Len(longer) : longer[i].dest = longer[j].dest => i = j
         /\ \A i \in 1 .. Len(longer) : Follows(longer, i - 1, longer[i])
<1>1. /\ longer \in Seq(Instruction)
      /\ Len(longer) = Len(code) + 1
      /\ \A i \in 1 .. Len(code) : longer[i] = code[i]
      /\ longer[Len(code) + 1] = I
  OBVIOUS
<1>2. \A i, j \in 1 .. Len(longer) : longer[i].dest = longer[j].dest => i = j
  BY <1>1
<1>3. ASSUME NEW i \in 1 .. Len(longer)
      PROVE  Follows(longer, i - 1, longer[i])
  <2>1. CASE i = Len(code) + 1
    BY <1>1, <2>1 DEF Follows
  <2>2. CASE i \in 1 .. Len(code)
    <3>1. Follows(code, i - 1, longer[i])
      BY <1>1, <2>2
    <3> QED BY <1>1, <2>2, <3>1 DEF Follows
  <2> QED BY <1>1, <2>1, <2>2
<1> QED BY <1>1, <1>2, <1>3

(* What the last n operands being consumed leaves of the stack.            *)
LEMMA PopFacts ==
  ASSUME operands \in Seq(VRegId), NEW n \in 0 .. Len(operands)
  PROVE  /\ Pop(n) \in Seq(VRegId)
         /\ Len(operands) \in Nat /\ n \in Nat /\ Len(Pop(n)) = Len(operands) - n
         /\ \A i \in 1 .. Len(operands) - n : Pop(n)[i] = operands[i]
<1> DEFINE m == Len(operands) - n
<1>1. m \in 0 .. Len(operands) /\ Len(operands) \in Nat /\ n \in Nat
  OBVIOUS
<1> HIDE DEF m
<1>2. /\ SubSeq(operands, 1, m) \in Seq(VRegId) /\ Len(SubSeq(operands, 1, m)) = m
      /\ \A i \in 1 .. m : SubSeq(operands, 1, m)[i] = operands[i]
  BY <1>1
<1> QED BY <1>1, <1>2 DEF Pop, m

(* Every register in use was handed out by new_vreg.                       *)
LEMMA RegistersBelow ==
  ASSUME IrTypeOK, IrOK
  PROVE  /\ Len(vregs) \in Nat
         /\ \A v \in Emitted : v \in VRegId /\ v \in Nat /\ v < Len(vregs)
         /\ \A i \in 1 .. Len(operands) :
              operands[i] \in VRegId /\ operands[i] \in Nat /\ operands[i] < Len(vregs)
<1>1. instructions \in Seq(Instruction) /\ operands \in Seq(VRegId) /\ Len(vregs) \in Nat
  BY DEF IrTypeOK
<1>2. VRegId \subseteq Nat
  BY MaxVRegsAssumption DEF VRegId
<1>3. \A i \in 1 .. Len(instructions) : Dest(i) \in VRegId
  <2>1. \A i \in 1 .. Len(instructions) : instructions[i] \in Instruction
    BY <1>1
  <2> QED BY <2>1 DEF Dest, Instruction
<1>4. \A v \in Emitted : v \in VRegId
  BY <1>3 DEF Emitted
<1>5. \A i \in 1 .. Len(operands) : operands[i] \in VRegId
  BY <1>1
<1>6. /\ \A v \in Emitted : v < Len(vregs)
      /\ \A i \in 1 .. Len(operands) : operands[i] < Len(vregs)
  BY DEF IrOK
<1> QED BY <1>1, <1>2, <1>4, <1>5, <1>6

(* An emission that reserves one register and appends one instruction.     *)
LEMMA EmitOne ==
  ASSUME IrTypeOK, IrOK,
         NEW type \in IrType, NEW I \in Instruction, NEW n \in 0 .. Len(operands),
         Len(vregs) < MaxVRegs,
         I.dest = VRegCount,
         cur_bblock = 0 => Follows(instructions, Len(instructions), I),
         vregs' = Append(vregs, type),
         add_instrs(<<I>>),
         operands' = Append(Pop(n), VRegCount),
         UNCHANGED <<const_cache, cur_bblock, terminator>>
  PROVE  IrTypeOK' /\ IrOK'
<1>1. Len(vregs) \in Nat /\ VRegCount \in VRegId /\ VRegCount = Len(vregs)
  BY MaxVRegsAssumption DEF IrTypeOK, VRegId, VRegCount
<1>2. vregs' \in Seq(IrType) /\ Len(vregs') = Len(vregs) + 1
  BY DEF IrTypeOK
<1> DEFINE m == Len(operands) - n
<1>3. /\ operands' \in Seq(VRegId) /\ operands' # <<>>
      /\ m \in Nat /\ Len(operands) \in Nat /\ m <= Len(operands)
      /\ Len(operands') = m + 1 /\ operands'[m + 1] = VRegCount
      /\ \A i \in 1 .. m : operands'[i] = operands[i]
  <2>1. operands \in Seq(VRegId)
    BY DEF IrTypeOK
  <2>2. /\ Pop(n) \in Seq(VRegId)
        /\ Len(operands) \in Nat /\ n \in Nat /\ Len(Pop(n)) = m
        /\ \A i \in 1 .. m : Pop(n)[i] = operands[i]
    BY <2>1, PopFacts
  <2>3. m \in Nat /\ m <= Len(operands)
    BY <2>2
  <2> HIDE DEF m
  <2>4. /\ operands' \in Seq(VRegId) /\ Len(operands') = m + 1
        /\ operands'[m + 1] = VRegCount
        /\ \A i \in 1 .. m : operands'[i] = Pop(n)[i]
    BY <1>1, <2>2, <2>3
  <2>5. operands' # <<>>
    BY <2>3, <2>4
  <2> QED BY <2>2, <2>3, <2>4, <2>5
<1> HIDE DEF m
<1>4. \A i \in 1 .. Len(operands') : operands'[i] < Len(vregs')
  <2>1. \A i \in 1 .. Len(operands) : operands[i] < Len(vregs) /\ operands[i] \in Nat
    BY RegistersBelow
  <2>2. ASSUME NEW i \in 1 .. m
        PROVE  operands'[i] < Len(vregs')
    <3>1. i \in 1 .. Len(operands) /\ operands'[i] = operands[i]
      BY <1>3
    <3>2. operands[i] < Len(vregs) /\ operands[i] \in Nat
      BY <3>1, <2>1
    <3> QED BY ONLY <1>1, <1>2, <3>1, <3>2
  <2> QED BY <1>1, <1>2, <1>3, <2>2
<1>5. CASE cur_bblock = 0
  <2>1. instructions' = Append(instructions, I) /\ instructions \in Seq(Instruction)
    BY <1>5 DEF add_instrs, IrTypeOK
  <2>2. \A i \in 1 .. Len(instructions) : instructions[i].dest < Len(vregs)
    BY DEF IrOK, Emitted, Dest
  <2>3. \A i \in 1 .. Len(instructions) : instructions[i].dest # I.dest
    BY <1>1, <2>2
  <2>4. instructions' \in Seq(Instruction) /\ WellFormed'
    BY <1>5, <2>1, <2>3, AppendFollows DEF IrOK, WellFormed
  <2>5. /\ Len(instructions') = Len(instructions) + 1
        /\ \A i \in 1 .. Len(instructions) : instructions'[i] = instructions[i]
        /\ instructions'[Len(instructions')] = I
        /\ instructions' # <<>>
    BY <2>1
  <2>6. Emitted' = Emitted \cup {VRegCount}
    <3>1. Emitted' = {instructions'[i].dest : i \in 1 .. Len(instructions) + 1}
      BY <2>5 DEF Emitted, Dest
    <3>2. Len(instructions) \in Nat /\ instructions'[Len(instructions) + 1].dest = VRegCount
      BY <2>1, <2>5
    <3>3. Emitted = {instructions'[i].dest : i \in 1 .. Len(instructions)}
      BY <2>5 DEF Emitted, Dest
    <3>4. 1 .. Len(instructions) + 1 = 1 .. Len(instructions) \cup {Len(instructions) + 1}
      BY <3>2
    <3>5. {instructions'[i].dest : i \in 1 .. Len(instructions) + 1}
            = {instructions'[i].dest : i \in 1 .. Len(instructions)} \cup
              {instructions'[Len(instructions) + 1].dest}
      BY ONLY <3>4, Zenon
    <3> QED BY <3>1, <3>2, <3>3, <3>5
  <2>7. \A v \in Emitted' : v < Len(vregs')
    <3>1. \A v \in Emitted : v < Len(vregs) /\ v \in Int
      BY RegistersBelow
    <3> QED BY <1>1, <1>2, <2>6, <3>1
  <2>8. \A i \in 1 .. Len(operands') : operands'[i] \in Emitted'
    <3>1. \A i \in 1 .. Len(operands) : operands[i] \in Emitted
      BY <1>5 DEF IrOK
    <3>2. ASSUME NEW i \in 1 .. m
          PROVE  operands'[i] \in Emitted'
      <4>1. i \in 1 .. Len(operands) /\ operands'[i] = operands[i]
        BY <1>3
      <4> QED BY <4>1, <2>6, <3>1
    <3> QED BY <1>3, <2>6, <3>2
  <2>9. Top' = Dest(Len(instructions))'
    BY <1>1, <1>3, <2>5 DEF Top, Dest
  <2>10. \A k \in DOMAIN const_cache' : const_cache'[k] \in Emitted'
    BY <1>5, <2>6 DEF IrOK
  <2>11. IrTypeOK'
    BY <1>2, <1>3, <2>4, MaxVRegsAssumption DEF IrTypeOK
  <2> QED BY <1>3, <1>4, <1>5, <2>4, <2>5, <2>7, <2>8, <2>9, <2>10, <2>11 DEF IrOK
<1>6. CASE cur_bblock # 0
  <2>1. instructions' = instructions
    BY <1>6 DEF add_instrs
  <2>2. IrTypeOK'
    BY <1>2, <1>3, <2>1, MaxVRegsAssumption DEF IrTypeOK
  <2>3. \A v \in Emitted' : v < Len(vregs')
    <3>1. \A v \in Emitted : v < Len(vregs) /\ v \in Int
      BY RegistersBelow
    <3>2. Emitted' = Emitted
      BY <2>1 DEF Emitted, Dest
    <3> QED BY <1>1, <1>2, <3>1, <3>2
  <2>4. WellFormed'
    BY <2>1 DEF IrOK, WellFormed
  <2> QED BY <1>4, <1>6, <2>1, <2>2, <2>3, <2>4 DEF IrOK, Dest
<1> QED BY <1>5, <1>6

(* The operands that an emission may consume.                              *)
LEMMA OperandFacts ==
  ASSUME IrTypeOK, IrOK, NEW i \in 1 .. Len(operands)
  PROVE  /\ operands[i] \in VRegId
         /\ TypeOf(operands[i]) \in IrType
         /\ cur_bblock = 0 =>
              /\ \E j \in 1 .. Len(instructions) : operands[i] = instructions[j].dest
              /\ Len(instructions) \in Nat /\ Len(instructions) > 0
              /\ Top = instructions[Len(instructions)].dest
<1>1. /\ vregs \in Seq(IrType) /\ operands \in Seq(VRegId)
      /\ instructions \in Seq(Instruction)
  BY DEF IrTypeOK
<1>2. /\ Len(vregs) \in Nat
      /\ operands[i] \in VRegId /\ operands[i] \in Nat /\ operands[i] < Len(vregs)
  BY RegistersBelow
<1>3. operands[i] + 1 \in 1 .. Len(vregs)
  BY <1>2
<1>4. TypeOf(operands[i]) \in IrType
  BY <1>1, <1>3 DEF TypeOf
<1>5. ASSUME cur_bblock = 0
      PROVE  /\ \E j \in 1 .. Len(instructions) : operands[i] = instructions[j].dest
             /\ instructions # <<>> /\ Top = instructions[Len(instructions)].dest
  <2>1. operands # <<>>
    BY <1>1
  <2>2. operands[i] \in Emitted
    BY <1>5 DEF IrOK
  <2>3. instructions # <<>> /\ Top = Dest(Len(instructions))
    BY <1>5, <2>1 DEF IrOK
  <2> QED BY <2>2, <2>3 DEF Emitted, Dest
<1>6. Len(instructions) \in Nat /\ (instructions # <<>> => Len(instructions) > 0)
  BY <1>1
<1> QED BY <1>2, <1>4, <1>5, <1>6

(* A literal defines a register and becomes the top of the stack.          *)
LEMMA EmitLiteralOK ==
  ASSUME IrTypeOK, IrOK, NEW type \in IrType, EmitLiteral(type)
  PROVE  IrTypeOK' /\ IrOK'
<1> DEFINE I == LoadImm(VRegCount)
<1>1. /\ vregs \in Seq(IrType) /\ operands \in Seq(VRegId)
      /\ Len(vregs) \in Nat /\ Len(operands) \in Nat
  BY DEF IrTypeOK
<1>2. Len(vregs) < MaxVRegs
  BY <1>1, MaxVRegsAssumption DEF EmitLiteral, Fits, VRegCount
<1>3. I \in Instruction /\ I.dest = VRegCount /\ Follows(instructions, Len(instructions), I)
  BY <1>1, <1>2, MaxVRegsAssumption
    DEF LoadImm, Instruction, VRegCount, VRegId, NO_VREG, Follows
<1>4. Pop(0) = operands /\ 0 \in 0 .. Len(operands)
  BY <1>1 DEF Pop
<1>5. /\ vregs' = Append(vregs, type) /\ add_instrs(<<I>>)
      /\ operands' = Append(Pop(0), VRegCount)
      /\ UNCHANGED <<const_cache, cur_bblock, terminator>>
  BY <1>4 DEF EmitLiteral
<1> HIDE DEF I
<1> QED BY <1>2, <1>3, <1>4, <1>5, EmitOne

(* The right operand was emitted last, so the instruction consumes it.     *)
LEMMA EmitBinaryOK ==
  ASSUME IrTypeOK, IrOK, NEW op \in BinaryOp, EmitBinary(op)
  PROVE  IrTypeOK' /\ IrOK'
<1> DEFINE I == Instr(op, VRegCount, Second, Top)
<1>1. /\ vregs \in Seq(IrType) /\ operands \in Seq(VRegId)
      /\ Len(vregs) \in Nat /\ Len(operands) \in Nat /\ Len(operands) >= 2
  BY DEF IrTypeOK, EmitBinary
<1>2. Len(vregs) < MaxVRegs
  BY <1>1, MaxVRegsAssumption DEF EmitBinary, Fits, VRegCount
<1>3. Len(operands) \in 1 .. Len(operands) /\ Len(operands) - 1 \in 1 .. Len(operands)
  BY <1>1
<1>4. /\ Top \in VRegId /\ Second \in VRegId /\ TypeOf(Second) \in IrType
      /\ cur_bblock = 0 =>
           /\ \E j \in 1 .. Len(instructions) : Second = instructions[j].dest
           /\ Len(instructions) > 0 /\ Top = instructions[Len(instructions)].dest
  BY <1>3, OperandFacts DEF Top, Second
<1>5. I \in Instruction /\ I.dest = VRegCount
  BY <1>1, <1>2, <1>4, MaxVRegsAssumption DEF Instr, Instruction, VRegCount, VRegId
<1>6. cur_bblock = 0 => Follows(instructions, Len(instructions), I)
  BY <1>4 DEF Follows, Instr
<1>7. BinaryType(op, TypeOf(Second)) \in IrType
  BY <1>4 DEF BinaryType, IrType
<1>8. 2 \in 0 .. Len(operands)
  BY <1>1
<1>9. /\ vregs' = Append(vregs, BinaryType(op, TypeOf(Second))) /\ add_instrs(<<I>>)
      /\ operands' = Append(Pop(2), VRegCount)
      /\ UNCHANGED <<const_cache, cur_bblock, terminator>>
  BY DEF EmitBinary
<1> HIDE DEF I
<1> QED BY <1>2, <1>5, <1>6, <1>7, <1>8, <1>9, EmitOne

(* The operand was emitted last.                                           *)
LEMMA EmitUnaryOK ==
  ASSUME IrTypeOK, IrOK, NEW op \in {"Neg", "BitNot"}, EmitUnary(op)
  PROVE  IrTypeOK' /\ IrOK'
<1> DEFINE I == Instr(op, VRegCount, Top, NO_VREG)
<1>1. /\ vregs \in Seq(IrType) /\ operands \in Seq(VRegId)
      /\ Len(vregs) \in Nat /\ Len(operands) \in Nat /\ Len(operands) >= 1
  BY DEF IrTypeOK, EmitUnary
<1>2. Len(vregs) < MaxVRegs
  BY <1>1, MaxVRegsAssumption DEF EmitUnary, Fits, VRegCount
<1>3. Len(operands) \in 1 .. Len(operands) /\ 1 \in 0 .. Len(operands)
  BY <1>1
<1>4. /\ Top \in VRegId /\ TypeOf(Top) \in IrType
      /\ cur_bblock = 0 =>
           Len(instructions) > 0 /\ Top = instructions[Len(instructions)].dest
  BY <1>3, OperandFacts DEF Top
<1>5. I \in Instruction /\ I.dest = VRegCount
  BY <1>1, <1>2, <1>4, MaxVRegsAssumption DEF Instr, Instruction, VRegCount, VRegId
<1>6. cur_bblock = 0 => Follows(instructions, Len(instructions), I)
  BY <1>4 DEF Follows, Instr
<1>7. /\ vregs' = Append(vregs, TypeOf(Top)) /\ add_instrs(<<I>>)
      /\ operands' = Append(Pop(1), VRegCount)
      /\ UNCHANGED <<const_cache, cur_bblock, terminator>>
  BY DEF EmitUnary
<1> HIDE DEF I
<1> QED BY <1>2, <1>3, <1>4, <1>5, <1>6, <1>7, EmitOne

(* The constant comes from the cache, the operand was emitted last.        *)
LEMMA EmitNotCachedOK ==
  ASSUME IrTypeOK, IrOK, EmitNotCached
  PROVE  IrTypeOK' /\ IrOK'
<1> DEFINE one == const_cache[<<TypeOf(Top), 1>>]
           I == Instr("BitXor", VRegCount, Top, one)
<1>1. /\ vregs \in Seq(IrType) /\ operands \in Seq(VRegId)
      /\ Len(vregs) \in Nat /\ Len(operands) \in Nat /\ Len(operands) >= 1
  BY DEF IrTypeOK, EmitNotCached
<1>2. Len(vregs) < MaxVRegs
  BY <1>1, MaxVRegsAssumption DEF EmitNotCached, Fits, VRegCount
<1>3. Len(operands) \in 1 .. Len(operands) /\ 1 \in 0 .. Len(operands)
  BY <1>1
<1>4. /\ Top \in VRegId /\ TypeOf(Top) \in IrType
      /\ cur_bblock = 0 =>
           Len(instructions) > 0 /\ Top = instructions[Len(instructions)].dest
  BY <1>3, OperandFacts DEF Top
<1>5. one \in VRegId
  BY DEF EmitNotCached, IrTypeOK, IsMap
<1>6. cur_bblock = 0 => \E j \in 1 .. Len(instructions) : one = instructions[j].dest
  <2>1. cur_bblock = 0 => one \in Emitted
    BY DEF EmitNotCached, IrOK
  <2> QED BY <2>1 DEF Emitted, Dest
<1> HIDE DEF one
<1>7. I \in Instruction /\ I.dest = VRegCount
  BY <1>1, <1>2, <1>4, <1>5, MaxVRegsAssumption
    DEF Instr, Instruction, VRegCount, VRegId, BinaryOp, BitwiseOp
<1>8. cur_bblock = 0 => Follows(instructions, Len(instructions), I)
  BY <1>4, <1>6 DEF Follows, Instr, BinaryOp, BitwiseOp
<1>9. /\ vregs' = Append(vregs, TypeOf(Top)) /\ add_instrs(<<I>>)
      /\ operands' = Append(Pop(1), VRegCount)
      /\ UNCHANGED <<const_cache, cur_bblock, terminator>>
  BY DEF EmitNotCached, one
<1> HIDE DEF I
<1> QED BY <1>2, <1>3, <1>4, <1>7, <1>8, <1>9, EmitOne

(* The destination is reserved before the constant's register, but its     *)
(* instruction comes last.                                                 *)
LEMMA EmitNotUncachedOK ==
  ASSUME IrTypeOK, IrOK, EmitNotUncached
  PROVE  IrTypeOK' /\ IrOK'
<1> DEFINE key == <<TypeOf(Top), 1>>
           new == VRegCount
           one == VRegCount + 1
           A == LoadImm(one)
           B == Instr("BitXor", new, Top, one)
<1>1. /\ vregs \in Seq(IrType) /\ operands \in Seq(VRegId)
      /\ instructions \in Seq(Instruction) /\ Len(instructions) \in Nat
      /\ Len(vregs) \in Nat /\ Len(operands) \in Nat /\ Len(operands) >= 1
  BY DEF IrTypeOK, EmitNotUncached
<1>2. Len(vregs) + 1 < MaxVRegs /\ new = Len(vregs) /\ one = Len(vregs) + 1
  BY <1>1, MaxVRegsAssumption DEF EmitNotUncached, Fits, VRegCount
<1>3. Len(operands) \in 1 .. Len(operands) /\ 1 \in 0 .. Len(operands)
  BY <1>1
<1>4. Top \in VRegId /\ TypeOf(Top) \in IrType
  BY <1>3, OperandFacts DEF Top
<1>5. new \in VRegId /\ one \in VRegId
  BY <1>1, <1>2, MaxVRegsAssumption DEF VRegId
<1> HIDE DEF new, one
<1>6. A \in Instruction /\ A.dest = one /\ B \in Instruction /\ B.dest = new
  BY <1>4, <1>5 DEF LoadImm, Instr, Instruction, NO_VREG, BinaryOp, BitwiseOp
<1>7. /\ vregs' \in Seq(IrType) /\ Len(vregs') = Len(vregs) + 2
      /\ UNCHANGED <<cur_bblock, terminator>>
  BY <1>1, <1>4 DEF EmitNotUncached
<1>8. /\ operands' \in Seq(VRegId) /\ operands' # <<>>
      /\ Len(operands') = Len(operands) /\ Top' = new
      /\ \A i \in 1 .. Len(operands) - 1 : operands'[i] = operands[i]
  <2>1. operands' = Append(Pop(1), new)
    BY DEF EmitNotUncached, new
  <2>2. /\ Pop(1) \in Seq(VRegId) /\ Len(Pop(1)) = Len(operands) - 1
        /\ \A i \in 1 .. Len(operands) - 1 : Pop(1)[i] = operands[i]
    BY <1>1, <1>3, PopFacts
  <2>3. operands'[Len(operands)] = new /\ Len(operands') = Len(operands)
    BY <1>1, <1>5, <2>1, <2>2
  <2> QED BY <1>1, <1>5, <2>1, <2>2, <2>3 DEF Top
<1>9. \A i \in 1 .. Len(operands') : operands'[i] < Len(vregs')
  <2>1. ASSUME NEW i \in 1 .. Len(operands)
        PROVE  operands'[i] < Len(vregs')
    <3>1. CASE i = Len(operands)
      BY <1>1, <1>2, <1>7, <1>8, <3>1 DEF Top
    <3>2. CASE i # Len(operands)
      <4>1. i \in 1 .. Len(operands) - 1
        BY <1>1, <3>2
      <4>2. operands'[i] = operands[i]
        BY <1>8, <4>1
      <4>3. operands[i] < Len(vregs) /\ operands[i] \in Nat
        BY RegistersBelow
      <4> QED BY ONLY <1>1, <1>7, <4>2, <4>3
    <3> QED BY <3>1, <3>2
  <2> QED BY <1>8, <2>1
<1>10. /\ key \in IrType \X {1}
       /\ DOMAIN const_cache' = DOMAIN const_cache \cup {key}
       /\ const_cache'[key] = one
       /\ \A k \in DOMAIN const_cache : k # key => const_cache'[k] = const_cache[k]
  BY <1>4 DEF EmitNotUncached, one
<1>11. IsMap(const_cache', IrType \X {1}, VRegId)
  <2>1. IsMap(const_cache, IrType \X {1}, VRegId)
    BY DEF IrTypeOK
  <2> HIDE DEF key
  <2> QED BY <1>5, <1>10, <2>1 DEF IsMap
<1>12. CASE cur_bblock = 0
  <2> DEFINE middle == Append(instructions, A)
  <2>1. instructions' = Append(middle, B)
    <3>1. instructions' = instructions \o <<A, B>>
      BY <1>12 DEF EmitNotUncached, add_instrs, new, one
    <3> HIDE DEF A, B
    <3> QED BY <1>1, <1>6, <3>1
  <2>2. \A i \in 1 .. Len(instructions) :
           instructions[i].dest < Len(vregs) /\ instructions[i].dest \in Nat
    BY RegistersBelow DEF Emitted, Dest
  <2>3. /\ \A i \in 1 .. Len(instructions) : instructions[i].dest # new
        /\ \A i \in 1 .. Len(instructions) : instructions[i].dest # one
        /\ new # one
    BY ONLY <1>1, <1>2, <2>2
  <2>4. /\ \A i, j \in 1 .. Len(instructions) :
             instructions[i].dest = instructions[j].dest => i = j
        /\ \A i \in 1 .. Len(instructions) : Follows(instructions, i - 1, instructions[i])
    BY DEF IrOK, WellFormed
  <2>5. Follows(instructions, Len(instructions), A)
    BY DEF Follows, LoadImm
  <2> HIDE DEF middle
  <2>6. /\ middle \in Seq(Instruction)
        /\ \A i, j \in 1 .. Len(middle) : middle[i].dest = middle[j].dest => i = j
        /\ \A i \in 1 .. Len(middle) : Follows(middle, i - 1, middle[i])
    <3> HIDE DEF A
    <3> QED BY <1>1, <1>6, <2>3, <2>4, <2>5, AppendFollows DEF middle
  <2>7. /\ Len(middle) = Len(instructions) + 1
        /\ middle[Len(middle)] = A
        /\ \A i \in 1 .. Len(instructions) : middle[i] = instructions[i]
    <3> HIDE DEF A
    <3> QED BY <1>1, <1>6 DEF middle
  <2>8. \A i \in 1 .. Len(middle) : middle[i].dest # new
    <3> HIDE DEF A, B
    <3> QED BY <1>1, <1>6, <2>3, <2>7
  <2>9. Follows(middle, Len(middle), B)
    <3>1. \E j \in 1 .. Len(instructions) : Top = instructions[j].dest
      BY <1>3, <1>12, OperandFacts DEF Top
    <3>2. \E j \in 1 .. Len(middle) : Top = middle[j].dest
      BY <1>1, <2>7, <3>1
    <3>3. one = middle[Len(middle)].dest /\ Len(middle) > 0
      BY <1>1, <1>6, <2>7
    <3> QED BY <3>2, <3>3 DEF Follows, Instr, BinaryOp, BitwiseOp
  <2> HIDE DEF A, B
  <2>10. instructions' \in Seq(Instruction) /\ WellFormed'
    BY <1>6, <2>1, <2>6, <2>8, <2>9, AppendFollows DEF WellFormed
  <2>11. /\ Len(instructions') = Len(instructions) + 2
         /\ \A i \in 1 .. Len(instructions) : instructions'[i] = instructions[i]
         /\ instructions'[Len(instructions) + 1] = A
         /\ instructions'[Len(instructions) + 2] = B
         /\ instructions' # <<>>
    <3>1. /\ Len(instructions') = Len(middle) + 1
          /\ \A i \in 1 .. Len(middle) : instructions'[i] = middle[i]
          /\ instructions'[Len(middle) + 1] = B
          /\ instructions' # <<>>
      BY <1>6, <2>1, <2>6
    <3>2. instructions'[Len(instructions) + 1] = A
      BY ONLY <1>1, <2>7, <3>1
    <3>3. \A i \in 1 .. Len(instructions) : instructions'[i] = instructions[i]
      BY ONLY <1>1, <2>7, <3>1
    <3> QED BY <1>1, <2>7, <3>1, <3>2, <3>3
  <2>12. ASSUME NEW v \in Emitted'
         PROVE  v \in Emitted \/ v = one \/ v = new
    <3>1. PICK i \in 1 .. Len(instructions') : v = instructions'[i].dest
      BY DEF Emitted, Dest
    <3>2. \/ i \in 1 .. Len(instructions)
          \/ i = Len(instructions) + 1 \/ i = Len(instructions) + 2
      BY <1>1, <2>11
    <3> QED BY <1>6, <2>11, <3>1, <3>2 DEF Emitted, Dest
  <2>13. Emitted \subseteq Emitted' /\ one \in Emitted' /\ new \in Emitted'
    <3>1. /\ 1 .. Len(instructions) \subseteq 1 .. Len(instructions')
          /\ Len(instructions) + 1 \in 1 .. Len(instructions')
          /\ Len(instructions) + 2 \in 1 .. Len(instructions')
      BY <1>1, <2>11
    <3> QED BY <1>6, <2>11, <3>1 DEF Emitted, Dest
  <2>14. \A v \in Emitted' : v < Len(vregs')
    <3>1. \A v \in Emitted : v < Len(vregs) /\ v \in Nat
      BY RegistersBelow
    <3> QED BY ONLY <1>1, <1>2, <1>7, <2>12, <3>1
  <2>15. \A i \in 1 .. Len(operands') : operands'[i] \in Emitted'
    <3>1. \A i \in 1 .. Len(operands) : operands[i] \in Emitted
      BY <1>12 DEF IrOK
    <3>2. ASSUME NEW i \in 1 .. Len(operands)
          PROVE  operands'[i] \in Emitted'
      <4>1. CASE i = Len(operands)
        BY <1>8, <2>13, <4>1 DEF Top
      <4>2. CASE i # Len(operands)
        <5>1. i \in 1 .. Len(operands) - 1
          BY <1>1, <4>2
        <5> QED BY <1>8, <2>13, <3>1, <5>1
      <4> QED BY <4>1, <4>2
    <3> QED BY <1>8, <3>2
  <2>16. Top' = Dest(Len(instructions))'
    BY <1>1, <1>6, <1>8, <2>11 DEF Dest
  <2>17. \A k \in DOMAIN const_cache' : const_cache'[k] \in Emitted'
    <3>1. \A k \in DOMAIN const_cache : const_cache[k] \in Emitted
      BY <1>12 DEF IrOK
    <3> HIDE DEF key
    <3> QED BY <1>10, <2>13, <3>1
  <2>18. terminator' = Uninitialized
    BY <1>7, <1>12 DEF IrOK
  <2>19. IrTypeOK'
    BY <1>1, <1>2, <1>7, <1>8, <1>11, <2>10, MaxVRegsAssumption DEF IrTypeOK
  <2> QED BY <1>7, <1>8, <1>9, <1>12, <2>10, <2>11, <2>14, <2>15, <2>16, <2>17, <2>18, <2>19
        DEF IrOK
<1>13. CASE cur_bblock # 0
  <2>1. instructions' = instructions
    BY <1>13 DEF EmitNotUncached, add_instrs
  <2>2. IrTypeOK'
    BY <1>1, <1>2, <1>7, <1>8, <1>11, <2>1, MaxVRegsAssumption DEF IrTypeOK
  <2>3. \A v \in Emitted' : v < Len(vregs')
    <3>1. \A v \in Emitted : v < Len(vregs) /\ v \in Nat
      BY RegistersBelow
    <3>2. Emitted' = Emitted
      BY <2>1 DEF Emitted, Dest
    <3> QED BY ONLY <1>1, <1>7, <3>1, <3>2
  <2>4. WellFormed'
    BY <2>1 DEF IrOK, WellFormed
  <2> QED BY <1>7, <1>9, <1>13, <2>1, <2>2, <2>3, <2>4 DEF IrOK, Dest
<1> QED BY <1>12, <1>13

(* Closing a block.                                                        *)
LEMMA ReturnOK ==
  ASSUME IrTypeOK, IrOK, EmitReturn \/ EmitReturnVoid
  PROVE  IrTypeOK' /\ IrOK'
<1>1. /\ cur_bblock \in Nat /\ cur_bblock' = cur_bblock + 1 /\ cur_bblock' < MaxBlocks
      /\ operands' = <<>>
      /\ UNCHANGED <<vregs, const_cache, instructions>>
  BY DEF IrTypeOK, EmitReturn, EmitReturnVoid, add_return
<1>2. /\ terminator' \in [kind : {"UNINITIALIZED", "RETURN"}, ret_reg : VRegId \cup {NO_VREG}]
      /\ terminator'.kind = "RETURN"
      /\ terminator'.ret_reg = NO_VREG => instructions = <<>>
      /\ terminator'.ret_reg # NO_VREG =>
            instructions # <<>> /\ terminator'.ret_reg = Dest(Len(instructions))
  <2>1. CASE cur_bblock # 0
    <3>1. terminator' = terminator
      BY <2>1 DEF EmitReturn, EmitReturnVoid, add_return
    <3> QED BY <2>1, <3>1 DEF IrTypeOK, IrOK
  <2>2. CASE cur_bblock = 0 /\ EmitReturn
    <3>1. operands # <<>> /\ Len(operands) \in 1 .. Len(operands)
      BY <2>2 DEF EmitReturn
    <3>2. Top \in VRegId /\ NO_VREG \notin VRegId
      BY <3>1, OperandFacts DEF Top, VRegId, NO_VREG
    <3>3. instructions # <<>> /\ Top = Dest(Len(instructions))
      BY <2>2, <3>1 DEF IrOK
    <3>4. terminator' = Return(Top)
      BY <2>2 DEF EmitReturn, add_return
    <3> QED BY <3>2, <3>3, <3>4 DEF Return
  <2>3. CASE cur_bblock = 0 /\ EmitReturnVoid
    BY <2>3 DEF IrOK, EmitReturnVoid, add_return, Return
  <2> QED BY <2>1, <2>2, <2>3
<1>3. IrTypeOK'
  BY <1>1, <1>2, MaxBlocksAssumption DEF IrTypeOK
<1> QED BY <1>1, <1>2, <1>3 DEF IrOK, WellFormed, Emitted, Dest

(* A new function is an empty one.                                         *)
LEMMA NewFunctionOK ==
  ASSUME NewFunction
  PROVE  IrTypeOK' /\ IrOK'
BY MaxVRegsAssumption, MaxBlocksAssumption
  DEF NewFunction, IrTypeOK, IrOK, WellFormed, Emitted, Dest, Uninitialized, IsMap, EmptyMap

(* The writer starts empty.                                                *)
LEMMA IrInitOK ==
  ASSUME IrInit
  PROVE  IrTypeOK /\ IrOK
BY MaxVRegsAssumption, MaxBlocksAssumption
  DEF IrInit, IrTypeOK, IrOK, WellFormed, Emitted, Dest, Uninitialized, IsMap, EmptyMap

(* Every step of the emission keeps the IR well formed.                    *)
THEOREM EmitNextOK ==
  ASSUME IrTypeOK, IrOK, EmitNext
  PROVE  IrTypeOK' /\ IrOK'
<1>1. CASE \E type \in Types : EmitLiteral(type)
  BY <1>1, EmitLiteralOK, TypesAssumption
<1>2. CASE \E op \in BinOps : EmitBinary(op)
  BY <1>2, EmitBinaryOK, BinOpsAssumption
<1>3. CASE \E op \in {"Neg", "BitNot"} : EmitUnary(op)
  BY <1>3, EmitUnaryOK
<1>4. CASE EmitReturn \/ EmitReturnVoid
  BY <1>4, ReturnOK
<1> QED BY <1>1, <1>2, <1>3, <1>4, EmitNotCachedOK, EmitNotUncachedOK DEF EmitNext

-----------------------------------------------------------------------------
(* The allocator.                                                          *)

(* Counting forwards and backwards around the ring of slots.               *)
LEMMA RingFacts ==
  ASSUME NEW n \in Slots
  PROVE  /\ (n + 1) % NumSlots \in Slots
         /\ Previous((n + 1) % NumSlots) = n
         /\ Previous(n) \in Slots
         /\ Previous(n) # n
         /\ Previous(Previous(n)) \in Slots
         /\ Previous(Previous(n)) # n
         /\ (n + 1) % NumSlots # n
         /\ (n + 1) % NumSlots # Previous(n)
<1> USE NumSlotsAssumption DEF Slots, Previous
<1>1. CASE n = NumSlots - 1
  <2>1. (n + 1) % NumSlots = 0
    BY <1>1
  <2> QED BY <1>1, <2>1
<1>2. CASE n # NumSlots - 1
  <2>1. (n + 1) % NumSlots = n + 1
    BY <1>2
  <2> QED BY <1>2, <2>1
<1> QED BY <1>1, <1>2

(* The offsets the frame is assumed to have survive their encoding.        *)
LEMMA EncodedFacts ==
  ASSUME NEW o \in Int, -2048 <= o, o <= 0
  PROVE  Encoded(o) = o
BY DEF Encoded

(* While slots are free they are handed out in order. *)
LEMMA FillingPlacement ==
  ASSUME TypeOK, Filling, NEW s \in Slots, get_empty_slot(s)
  PROVE  FillingAt(s) /\ UNCHANGED <<spilled, mem, next_to_spill>> /\ ~MustSpill
<1> USE NumSlotsAssumption
<1>1. PICK k \in 0 .. NumSlots - 1 : FillingAt(k)
  BY DEF Filling
<1>2. k \in Slots /\ k \in Unoccupied
  BY <1>1 DEF FillingAt, Slots, Unoccupied
<1>3. ~MustSpill
  BY <1>2 DEF MustSpill
<1>4. IsFirst(s, Unoccupied) /\ UNCHANGED <<spilled, mem, next_to_spill>>
  BY <1>2, <1>3 DEF get_empty_slot, NextVictim
<1>5. s = k
  BY <1>1, <1>2, <1>4 DEF FillingAt, IsFirst, Unoccupied, Slots
<1> QED BY <1>1, <1>3, <1>4, <1>5

(* Where get_empty_slot finds the slot it returns. *)
LEMMA Placement ==
  ASSUME TypeOK, Position, NEW s \in Slots, get_empty_slot(s),
         \A t \in Slots : dirty[t] => occupied[t]
  PROVE  \/ FillingAt(s) /\ UNCHANGED <<spilled, mem, next_to_spill>> /\ ~MustSpill
         \/ /\ Full /\ MustSpill /\ s = next_to_spill
            /\ next_to_spill' = (next_to_spill + 1) % NumSlots
            /\ spill_slot(s, TRUE)
         \/ /\ Trailing /\ ~MustSpill /\ s = Previous(next_to_spill)
            /\ UNCHANGED <<spilled, mem, next_to_spill>>
<1> USE NumSlotsAssumption
<1>1. CASE Filling
  BY <1>1, FillingPlacement
<1>2. CASE Full
  <2>1. Unoccupied = {} /\ Clean = {} /\ MustSpill
    BY <1>2 DEF Full, Unoccupied, Clean, MustSpill
  <2>2. ~IsFirst(s, Unoccupied) /\ ~IsFirst(s, Clean)
    BY <2>1 DEF IsFirst
  <2> QED BY <1>2, <2>1, <2>2 DEF get_empty_slot, NextVictim
<1>3. CASE Trailing
  <2>1. Previous(next_to_spill) \in Slots
    BY RingFacts DEF TypeOK
  <2>2. Clean = {Previous(next_to_spill)} /\ Unoccupied \subseteq Clean
    BY <1>3, <2>1 DEF Trailing, Clean, Unoccupied
  <2>3. ~MustSpill
    BY <2>2 DEF MustSpill
  <2>4. (IsFirst(s, Unoccupied) \/ IsFirst(s, Clean))
        /\ UNCHANGED <<spilled, mem, next_to_spill>>
    BY <2>3 DEF get_empty_slot, NextVictim
  <2>5. s = Previous(next_to_spill)
    BY <2>2, <2>4 DEF IsFirst
  <2> QED BY <1>3, <2>3, <2>4, <2>5
<1> QED BY <1>1, <1>2, <1>3 DEF Position

(* The slot returned is never the one of the last destination. *)
LEMMA NotDestSlot ==
  ASSUME TypeOK, Position, NEW s \in Slots, get_empty_slot(s),
         \A t \in Slots : dirty[t] => occupied[t],
         pos > 1 \/ stage # "dest"
  PROVE  s # dest_slot
<1> USE NumSlotsAssumption
<1>0. next_to_spill \in Slots /\ Previous(next_to_spill) \in Slots
  BY RingFacts DEF TypeOK
<1>1. CASE FillingAt(s)
  BY <1>1 DEF FillingAt, Slots, TypeOK
<1>2. CASE Full /\ s = next_to_spill
  BY <1>0, <1>2, RingFacts DEF Full
<1>3. CASE Trailing /\ s = Previous(next_to_spill)
  BY <1>0, <1>3, RingFacts DEF Trailing
<1> QED BY <1>1, <1>2, <1>3, Placement

(* A spill adds one word to the spill area, or rewrites one.              *)
LEMMA SpillAdds ==
  ASSUME SpillArea, NEW s \in Slots, NEW x, spill_slot(s, x),
         resident[s] \in VRegId, IsMap(spilled, Nat, Int)
  PROVE  /\ SpillArea' /\ IsMap(spilled', Nat, Int)
         /\ DOMAIN spilled' = DOMAIN spilled \cup {resident[s]}
         /\ spilled'[resident[s]] = SpillOffset(resident[s])
         /\ \A v \in DOMAIN spilled : spilled'[v] = spilled[v]
         /\ Encoded(SpillOffset(resident[s])) = SpillOffset(resident[s])
         /\ SpillOffset(resident[s]) \in Int
         /\ resident[s] \notin DOMAIN spilled =>
              Cardinality(DOMAIN spilled') = Cardinality(DOMAIN spilled) + 1
<1> DEFINE v == resident[s]
           D == DOMAIN spilled
           n == Cardinality(D)
<1> HIDE DEF v
<1>1. spilled' = Put(spilled, v, SpillOffset(v)) /\ v \in VRegId
  BY DEF spill_slot, v
<1>2. DOMAIN spilled' = D \cup {v} /\ spilled'[v] = SpillOffset(v)
  BY <1>1 DEF Put
<1>3. IsFiniteSet(D) /\ n \in Nat
  BY FS_CardinalityType DEF SpillArea
<1>4. n <= MaxVRegs /\ (v \notin D => n + 1 <= MaxVRegs)
  <2>1. IsFiniteSet(VRegId) /\ Cardinality(VRegId) = MaxVRegs
    BY MaxVRegsAssumption, FS_Interval DEF VRegId
  <2>2. n <= MaxVRegs
    BY <2>1, FS_Subset DEF SpillArea
  <2>3. D \cup {v} \subseteq VRegId
    BY <1>1 DEF SpillArea
  <2>4. Cardinality(D \cup {v}) <= MaxVRegs
    BY <2>1, <2>3, FS_Subset
  <2> QED BY <1>3, <2>2, <2>4, FS_AddElement
<1>5. IsFiniteSet(D \cup {v}) /\ Cardinality(D \cup {v}) = IF v \in D THEN n ELSE n + 1
  BY <1>3, FS_AddElement
<1>6. \A w \in D : spilled'[w] = spilled[w]
  BY <1>1, <1>2 DEF Put, SpillOffset
<1>7. v \notin D => SpillOffset(v) = -4 * (n + 4)
  BY DEF SpillOffset
<1>8. v \in D => SpillOffset(v) = spilled[v]
  BY DEF SpillOffset
<1>9. \A w \in D : \E k \in 0 .. n - 1 : spilled[w] = -4 * (k + 4)
  BY DEF SpillArea
<1>10. SpillArea'
  <2>1. CASE v \in D
    <3>1. DOMAIN spilled' = D /\ \A w \in D : spilled'[w] = spilled[w]
      BY <1>2, <1>6, <2>1
    <3> QED BY <3>1, <1>3, <1>9 DEF SpillArea
  <2>2. CASE v \notin D
    <3>1. \A w \in D \cup {v} : \E k \in 0 .. n : spilled'[w] = -4 * (k + 4)
      BY <1>2, <1>3, <1>6, <1>7, <1>9, <2>2
    <3>2. \A w \in D : spilled'[w] # spilled'[v]
      BY <1>2, <1>3, <1>6, <1>7, <1>9, <2>2
    <3>3. \A w, u \in D \cup {v} : spilled'[w] = spilled'[u] => w = u
      BY <1>6, <3>2 DEF SpillArea
    <3>4. Cardinality(DOMAIN spilled') = n + 1 /\ IsFiniteSet(DOMAIN spilled')
      BY <1>2, <1>5, <2>2
    <3>5. DOMAIN spilled' \subseteq VRegId
      BY <1>1, <1>2 DEF SpillArea
    <3>6. \A w \in DOMAIN spilled' :
            \E k \in 0 .. Cardinality(DOMAIN spilled') - 1 : spilled'[w] = -4 * (k + 4)
      BY <1>2, <1>3, <3>1, <3>4
    <3> QED BY <1>2, <3>3, <3>4, <3>5, <3>6 DEF SpillArea
  <2> QED BY <2>1, <2>2
<1>11. SpillOffset(v) \in Int /\ -2048 <= SpillOffset(v) /\ SpillOffset(v) <= 0
  BY <1>3, <1>4, <1>7, <1>8, <1>9, FrameAssumption, MaxVRegsAssumption
<1>12. Encoded(SpillOffset(v)) = SpillOffset(v)
  BY <1>11, EncodedFacts
<1>13. IsMap(spilled', Nat, Int)
  BY <1>1, <1>2, <1>6, <1>11, MaxVRegsAssumption DEF IsMap, VRegId
<1>14. v \notin D => Cardinality(DOMAIN spilled') = n + 1
  BY <1>2, <1>5
<1> QED BY <1>2, <1>6, <1>10, <1>11, <1>12, <1>13, <1>14 DEF v

(***************************************************************************)
(* get_empty_slot loses no value: what the slot held is in the frame.      *)
(***************************************************************************)
LEMMA EvictionKeeps ==
  ASSUME TypeOK, Lowered, SpillArea, SpillsLoaded, Position,
         NEW s \in Slots, get_empty_slot(s), s # dest_slot \/ ~Pending,
         \A v \in Defined : v \in VRegId
  PROVE  /\ SpillArea' /\ IsMap(spilled', Nat, Int) /\ IsMap(mem', Int, Nat \cup {Junk})
         /\ next_to_spill' \in Slots
         /\ DOMAIN spilled \subseteq DOMAIN spilled' /\ DOMAIN spilled' \subseteq Defined
         /\ \A v \in DOMAIN spilled' : spilled'[v] \in DOMAIN mem' /\ mem'[spilled'[v]] = v
         /\ \A o \in DOMAIN mem' : \E v \in DOMAIN spilled' : o = spilled'[v]
         /\ occupied[s] => resident[s] \in DOMAIN spilled'
         /\ \A v \in DOMAIN spilled' : v \notin DOMAIN spilled => occupied[s] /\ v = resident[s]
<1>1. \A t \in Slots : dirty[t] => occupied[t]
  BY DEF Lowered
<1>2. CASE UNCHANGED <<spilled, mem, next_to_spill>> /\ ~MustSpill
  <2>0. FillingAt(s) \/ (Trailing /\ s = Previous(next_to_spill))
    BY <1>1, <1>2, Placement
  <2>1. occupied[s] => ~dirty[s]
    BY <2>0, NumSlotsAssumption DEF FillingAt, Trailing, Slots
  <2>2. occupied[s] => resident[s] \in DOMAIN spilled
    BY <2>1 DEF Lowered
  <2> QED BY <1>2, <2>2 DEF SpillArea, SpillsLoaded, TypeOK
<1>3. CASE Full /\ MustSpill /\ s = next_to_spill
           /\ next_to_spill' = (next_to_spill + 1) % NumSlots /\ spill_slot(s, TRUE)
  <2>1. occupied[s] /\ resident[s] \in Defined /\ regs[s] = resident[s]
    <3>1. occupied[s]
      BY <1>3, <1>1 DEF Full
    <3> QED BY <3>1 DEF Lowered
  <2>2. resident[s] \in VRegId
    BY <2>1
  <2>3. /\ SpillArea' /\ IsMap(spilled', Nat, Int)
        /\ DOMAIN spilled' = DOMAIN spilled \cup {resident[s]}
        /\ spilled'[resident[s]] = SpillOffset(resident[s])
        /\ \A v \in DOMAIN spilled : spilled'[v] = spilled[v]
        /\ Encoded(SpillOffset(resident[s])) = SpillOffset(resident[s])
        /\ SpillOffset(resident[s]) \in Int
    BY <1>3, <2>2, SpillAdds DEF TypeOK
  <2>4. mem' = Put(mem, SpillOffset(resident[s]), resident[s])
    BY <1>3, <2>1, <2>3 DEF spill_slot
  <2>5. DOMAIN mem' = DOMAIN mem \cup {SpillOffset(resident[s])}
        /\ mem'[SpillOffset(resident[s])] = resident[s]
        /\ \A o \in DOMAIN mem : o # SpillOffset(resident[s]) => mem'[o] = mem[o]
    BY <2>4 DEF Put
  <2>6. \A v, w \in DOMAIN spilled' : spilled'[v] = spilled'[w] => v = w
    BY <2>3 DEF SpillArea
  <2>7. \A v \in DOMAIN spilled' : spilled'[v] \in DOMAIN mem' /\ mem'[spilled'[v]] = v
    <3> SUFFICES ASSUME NEW v \in DOMAIN spilled'
                 PROVE  spilled'[v] \in DOMAIN mem' /\ mem'[spilled'[v]] = v
      OBVIOUS
    <3>1. CASE v = resident[s]
      BY <3>1, <2>3, <2>5
    <3>2. CASE v # resident[s]
      <4>1. v \in DOMAIN spilled /\ spilled'[v] = spilled[v]
        BY <3>2, <2>3
      <4>2. spilled[v] \in DOMAIN mem /\ mem[spilled[v]] = v
        BY <4>1 DEF SpillsLoaded
      <4>3. spilled'[v] # SpillOffset(resident[s])
        BY <3>2, <2>3, <2>6
      <4> QED BY <4>1, <4>2, <4>3, <2>5
    <3> QED BY <3>1, <3>2
  <2>8. \A o \in DOMAIN mem' : \E v \in DOMAIN spilled' : o = spilled'[v]
    BY <2>3, <2>5 DEF SpillsLoaded
  <2>9. IsMap(mem', Int, Nat \cup {Junk})
    BY <2>2, <2>3, <2>5, MaxVRegsAssumption DEF IsMap, TypeOK, VRegId
  <2>10. next_to_spill' \in Slots
    BY <1>3, RingFacts
  <2>11. DOMAIN spilled' \subseteq Defined
    BY <2>1, <2>3 DEF SpillsLoaded
  <2> QED BY <2>1, <2>3, <2>7, <2>8, <2>9, <2>10, <2>11
<1> QED BY <1>1, <1>2, <1>3, Placement
-----------------------------------------------------------------------------
(* The lowering leaves the IR alone.                                       *)
LEMMA IrStays ==
  ASSUME IrTypeOK, IrOK, UNCHANGED irVars
  PROVE  IrTypeOK' /\ IrOK'
<1> USE DEF irVars
<1>1. IrTypeOK'
  BY DEF IrTypeOK
<1>2. WellFormed' /\ Emitted' = Emitted
  BY DEF IrOK, WellFormed, Emitted, Dest
<1>3. Top' = Top /\ Dest(Len(instructions))' = Dest(Len(instructions))
  BY DEF Top, Dest
<1>4. IrOK'
  BY <1>2, <1>3 DEF IrOK
<1> QED BY <1>1, <1>4

(* What the lowering may rely on about the code it reads.                  *)
LEMMA CodeFacts ==
  ASSUME TypeOK, IrOK, pos <= Len(instructions) + 1
  PROVE  /\ instructions \in Seq(Instruction) /\ Len(instructions) \in Nat
         /\ pos \in Nat /\ pos >= 1
         /\ \A v \in Defined : v \in VRegId /\ v \in Nat
         /\ pos > 1 => Dest(pos - 1) \in Defined
         /\ pos = 1 => Defined = {}
         /\ pos <= Len(instructions) =>
              /\ instr \in Instruction /\ instr.dest \in VRegId /\ instr.dest \in Nat
              /\ instr.dest = Dest(pos) /\ instr.dest \notin Defined
              /\ Follows(instructions, pos - 1, instr)
<1>1. instructions \in Seq(Instruction) /\ Len(instructions) \in Nat
  BY DEF TypeOK, IrTypeOK
<1>2. pos \in Nat /\ pos >= 1
  BY DEF TypeOK
<1>3. \A i \in 1 .. Len(instructions) : Dest(i) \in VRegId /\ Dest(i) \in Nat
  <2>1. \A i \in 1 .. Len(instructions) : instructions[i] \in Instruction
    BY <1>1
  <2> QED BY <2>1, MaxVRegsAssumption DEF Dest, Instruction, VRegId
<1>4. \A i \in 1 .. pos - 1 : i \in 1 .. Len(instructions)
  BY <1>1, <1>2
<1>5. \A v \in Defined : v \in VRegId /\ v \in Nat
  BY <1>3, <1>4 DEF Defined
<1>6. pos > 1 => Dest(pos - 1) \in Defined
  <2>1. pos > 1 => pos - 1 \in 1 .. pos - 1
    BY <1>2
  <2> QED BY <2>1 DEF Defined
<1>7. pos = 1 => Defined = {}
  BY DEF Defined
<1>8. ASSUME pos <= Len(instructions)
      PROVE  /\ instr \in Instruction /\ instr.dest \in VRegId /\ instr.dest \in Nat
             /\ instr.dest = Dest(pos) /\ instr.dest \notin Defined
             /\ Follows(instructions, pos - 1, instr)
  <2>1. pos \in 1 .. Len(instructions)
    BY <1>1, <1>2, <1>8
  <2>2. instr \in Instruction /\ instr.dest = Dest(pos)
    BY <1>1, <2>1 DEF instr, Dest
  <2>3. \A i \in 1 .. pos - 1 : Dest(i) # Dest(pos)
    BY <1>2, <1>4, <2>1 DEF IrOK, WellFormed, Dest
  <2>4. Follows(instructions, pos - 1, instr)
    BY <2>1 DEF IrOK, WellFormed, instr
  <2> QED BY <1>3, <2>1, <2>2, <2>3, <2>4 DEF Defined
<1> QED BY <1>1, <1>2, <1>5, <1>6, <1>7, <1>8

(* Of the operands of an instruction at most one is not the last result.   *)
LEMMA OperandsDefined ==
  ASSUME TypeOK, IrOK, pos <= Len(instructions)
  PROVE  /\ instr.opcode = "LoadImm" => instr.op1 = NO_VREG /\ instr.op2 = NO_VREG
         /\ instr.opcode \in {"Neg", "BitNot"} =>
              pos > 1 /\ instr.op1 = Dest(pos - 1) /\ instr.op2 = NO_VREG
         /\ instr.opcode \in BinaryOp =>
              /\ pos > 1 /\ instr.op1 \in Defined /\ instr.op2 \in Defined
              /\ instr.op1 = Dest(pos - 1) \/ instr.op2 = Dest(pos - 1)
         /\ instr.opcode \notin {"LoadImm", "Neg", "BitNot"} => instr.opcode \in BinaryOp
<1>1. /\ Len(instructions) \in Nat /\ pos \in Nat /\ pos >= 1
      /\ instr \in Instruction /\ Follows(instructions, pos - 1, instr)
      /\ pos > 1 => Dest(pos - 1) \in Defined
  <2>1. Len(instructions) \in Nat /\ pos \in Nat
    BY DEF TypeOK, IrTypeOK
  <2>2. pos <= Len(instructions) + 1
    BY <2>1
  <2> QED BY <2>1, <2>2, CodeFacts
<1>2. {"LoadImm", "Neg", "BitNot"} \cap BinaryOp = {} /\ "LoadImm" # "Neg" /\ "LoadImm" # "BitNot"
  BY DEF BinaryOp, CompareOp, BitwiseOp, ShiftOp, ArithmeticOp
<1>3. instr.opcode \notin {"LoadImm", "Neg", "BitNot"} => instr.opcode \in BinaryOp
  BY <1>1 DEF Instruction
<1>4. \A x : (\E j \in 1 .. pos - 1 : x = instructions[j].dest) => x \in Defined
  BY DEF Defined, Dest
<1>5. Dest(pos - 1) = instructions[pos - 1].dest /\ (pos - 1 > 0 => pos > 1)
  BY <1>1 DEF Dest
<1> QED BY <1>1, <1>2, <1>3, <1>4, <1>5 DEF Follows
-----------------------------------------------------------------------------
(* load_dest_vreg.                                                         *)

(* The slot of the last result is safe from the call that comes next.      *)
LEMMA DestPosition ==
  ASSUME TypeOK, Position, NEW s \in Slots, get_empty_slot(s),
         \A t \in Slots : dirty[t] => occupied[t],
         stage = "dest", stage' # "dest",
         occupied' = [occupied EXCEPT ![s] = TRUE],
         dirty' = [dirty EXCEPT ![s] = TRUE],
         dest_slot' = s
  PROVE  \/ Filling'
         \/ Full' /\ (pos > 1 => dest_slot # next_to_spill')
<1> USE NumSlotsAssumption
<1>0. /\ next_to_spill \in Slots /\ Previous(next_to_spill) \in Slots
      /\ occupied \in [Slots -> BOOLEAN] /\ dirty \in [Slots -> BOOLEAN] /\ s \in Int
  <2>1. /\ next_to_spill \in Slots
        /\ occupied \in [Slots -> BOOLEAN] /\ dirty \in [Slots -> BOOLEAN]
    BY DEF TypeOK
  <2> QED BY <2>1, RingFacts DEF Slots
<1>1. CASE FillingAt(s) /\ UNCHANGED <<spilled, mem, next_to_spill>>
  <2>1. \A t \in Slots : (occupied'[t] <=> t < s + 1) /\ (dirty'[t] <=> t < s + 1)
    BY <1>0, <1>1 DEF FillingAt, Slots
  <2>2. CASE s < NumSlots - 1
    <3>1. FillingAt(s + 1)'
      BY <1>0, <1>1, <2>1 DEF FillingAt, Slots
    <3>2. s + 1 \in 0 .. NumSlots - 1
      BY <2>2 DEF Slots
    <3> QED BY <3>1, <3>2 DEF Filling
  <2>3. CASE s = NumSlots - 1
    <3>1. Full'
      BY <1>0, <1>1, <2>1, <2>3 DEF Full, FillingAt, Slots, Previous
    <3>2. dest_slot # next_to_spill'
      BY <1>1, <2>3 DEF FillingAt
    <3> QED BY <3>1, <3>2
  <2> QED BY <2>2, <2>3 DEF Slots
<1>2. CASE Full /\ s = next_to_spill /\ next_to_spill' = (next_to_spill + 1) % NumSlots
  <2>1. Full'
    BY <1>0, <1>2, RingFacts DEF Full
  <2>2. dest_slot # next_to_spill'
    BY <1>0, <1>2, RingFacts DEF Full
  <2> QED BY <2>1, <2>2
<1>3. CASE Trailing /\ s = Previous(next_to_spill) /\ UNCHANGED <<spilled, mem, next_to_spill>>
  <2>1. Full'
    BY <1>0, <1>3 DEF Full, Trailing
  <2>2. dest_slot # next_to_spill'
    BY <1>0, <1>3, RingFacts DEF Trailing
  <2> QED BY <2>1, <2>2
<1> QED BY <1>1, <1>2, <1>3, Placement

(* load_dest_vreg for the destination of the next instruction.             *)
LEMMA LoadDestKeeps ==
  ASSUME TypeOK, IrOK, phase = "lower", Stages, Lowered, SpillsLoaded, SpillArea, FlushOK,
         LoadDest
  PROVE  /\ TypeOK' /\ Stages' /\ Lowered' /\ SpillsLoaded' /\ SpillArea'
<1>1. /\ pos <= Len(instructions) /\ stage = "dest" /\ ~Pending
      /\ UNCHANGED <<irVars, phase, fn_count, stack_size, pos, op1_slot, op2_slot,
                     flush_slot, result, regs>>
      /\ stage' = IF instr.opcode = "LoadImm" THEN "exec" ELSE "op1"
  BY DEF LoadDest, Lowering, Pending, load_dest_vreg
<1>2. PICK s \in Slots : load_dest_vreg(instr.dest, s) /\ dest_slot' = s
  BY DEF LoadDest
<1>3. /\ get_empty_slot(s)
      /\ resident' = [resident EXCEPT ![s] = instr.dest]
      /\ occupied' = [occupied EXCEPT ![s] = TRUE]
      /\ dirty' = [dirty EXCEPT ![s] = TRUE]
  BY <1>2 DEF load_dest_vreg
<1>4. /\ Len(instructions) \in Nat /\ pos \in Nat /\ pos >= 1
      /\ \A v \in Defined : v \in VRegId /\ v \in Nat
      /\ pos > 1 => Dest(pos - 1) \in Defined
      /\ instr.dest \in Nat /\ instr.dest \notin Defined
  BY <1>1, CodeFacts DEF Stages
<1>5. Position /\ \A t \in Slots : dirty[t] => occupied[t]
  BY <1>1 DEF Stages, Lowered
<1>6. /\ SpillArea' /\ IsMap(spilled', Nat, Int) /\ IsMap(mem', Int, Nat \cup {Junk})
      /\ next_to_spill' \in Slots
      /\ DOMAIN spilled \subseteq DOMAIN spilled' /\ DOMAIN spilled' \subseteq Defined
      /\ \A v \in DOMAIN spilled' : spilled'[v] \in DOMAIN mem' /\ mem'[spilled'[v]] = v
      /\ \A o \in DOMAIN mem' : \E v \in DOMAIN spilled' : o = spilled'[v]
      /\ occupied[s] => resident[s] \in DOMAIN spilled'
  BY <1>1, <1>3, <1>4, <1>5, EvictionKeeps
<1>7. /\ Defined' = Defined /\ instr' = instr /\ Pending' /\ Len(instructions)' = Len(instructions)
      /\ \A i : Dest(i)' = Dest(i)
      /\ pos' = pos
  BY <1>1 DEF Defined, Dest, instr, Pending, irVars
<1>8. /\ resident \in [Slots -> Nat] /\ occupied \in [Slots -> BOOLEAN]
      /\ dirty \in [Slots -> BOOLEAN]
  BY DEF TypeOK
<1>9. TypeOK'
  <2>1. IrTypeOK'
    BY <1>1, IrStays DEF TypeOK
  <2>2. /\ resident' \in [Slots -> Nat] /\ occupied' \in [Slots -> BOOLEAN]
        /\ dirty' \in [Slots -> BOOLEAN]
    BY <1>3, <1>4, <1>8
  <2>3. stage' \in {"dest", "op1", "op2", "mask", "exec"}
    BY <1>1
  <2> QED BY <1>1, <1>2, <1>6, <2>1, <2>2, <2>3 DEF TypeOK
<1>10. SpillsLoaded'
  BY <1>6, <1>7 DEF SpillsLoaded
<1>11. \A t \in Slots : /\ t # s => /\ occupied'[t] = occupied[t] /\ resident'[t] = resident[t]
                                   /\ dirty'[t] = dirty[t] /\ regs'[t] = regs[t]
                        /\ t = s => occupied'[t] /\ dirty'[t] /\ resident'[t] = instr.dest
  BY <1>1, <1>3, <1>8
<1>12. \A t \in Slots : occupied[t] => resident[t] \in Defined /\ regs[t] = resident[t]
  BY <1>1 DEF Lowered
<1>13. Lowered'
  <2>1. \A t \in Slots : dirty'[t] => occupied'[t]
    BY <1>5, <1>11
  <2>2. \A t \in Slots : occupied'[t] =>
           \/ resident'[t] \in Defined' /\ regs'[t] = resident'[t]
           \/ Pending' /\ t = dest_slot'
    BY <1>2, <1>7, <1>11, <1>12
  <2>3. \A t, u \in Slots :
           occupied'[t] /\ occupied'[u] /\ resident'[t] = resident'[u] => t = u
    <3>1. \A t, u \in Slots :
             occupied[t] /\ occupied[u] /\ resident[t] = resident[u] => t = u
      BY DEF Lowered
    <3> QED BY <1>4, <1>11, <1>12, <3>1
  <2>4. \A t \in Slots : occupied'[t] /\ ~dirty'[t] => resident'[t] \in DOMAIN spilled'
    BY <1>6, <1>11 DEF Lowered
  <2>5. \A v \in Defined' :
          v \in DOMAIN spilled' \/ \E t \in Slots : occupied'[t] /\ resident'[t] = v
    <3>1. \A v \in Defined :
            v \in DOMAIN spilled \/ \E t \in Slots : occupied[t] /\ resident[t] = v
      BY DEF Lowered
    <3> QED BY <1>6, <1>7, <1>11, <3>1
  <2> QED BY <2>1, <2>2, <2>3, <2>4, <2>5 DEF Lowered
<1>14. \/ Filling'
       \/ Full' /\ (pos > 1 => dest_slot # next_to_spill')
  BY <1>1, <1>2, <1>3, <1>5, DestPosition
<1>15. pos > 1 => \E t \in Slots : SafeIn(Dest(pos - 1), t)'
  <2> SUFFICES ASSUME pos > 1
               PROVE  \E t \in Slots : SafeIn(Dest(pos - 1), t)'
    OBVIOUS
  <2>1. dest_slot \in Slots /\ dest_slot # s
    BY <1>3, <1>5, NotDestSlot DEF TypeOK
  <2>2. In(Dest(pos - 1), dest_slot)
    BY <1>1 DEF Stages
  <2>3. /\ occupied'[dest_slot] /\ resident'[dest_slot] = Dest(pos - 1)
        /\ regs'[dest_slot] = Dest(pos - 1)
    BY <1>11, <2>1, <2>2 DEF In
  <2>4. Filling' \/ (Full' /\ dest_slot # next_to_spill')
    BY <1>14
  <2>5. \E t \in Slots : /\ occupied'[t] /\ resident'[t] = Dest(pos - 1)'
                         /\ regs'[t] = Dest(pos - 1)'
                         /\ Filling' \/ (Full' /\ t # next_to_spill')
    BY <1>7, <2>1, <2>3, <2>4
  <2> QED BY <2>5 DEF SafeIn, In
<1>16. /\ instr.opcode = "LoadImm" => instr.op1 = NO_VREG /\ instr.op2 = NO_VREG
       /\ instr.opcode # "LoadImm" => pos > 1
  BY <1>1, OperandsDefined
<1>17. /\ occupied'[dest_slot'] /\ dirty'[dest_slot'] /\ resident'[dest_slot'] = instr'.dest
       /\ instr'.dest \notin DOMAIN spilled'
  BY <1>2, <1>4, <1>6, <1>7, <1>11
<1>18. Position'
  BY <1>14 DEF Position
<1>19. Stages'
  <2>1. pos' <= Len(instructions)' /\ pos' <= Len(instructions)' + 1
    BY <1>1, <1>4, <1>7
  <2>2. CASE instr.opcode = "LoadImm"
    <3>1. stage' = "exec"
      BY <1>1, <2>2
    <3> QED BY <1>7, <1>16, <1>17, <1>18, <2>1, <2>2, <3>1 DEF Stages
  <2>3. CASE instr.opcode # "LoadImm"
    <3>1. stage' = "op1"
      BY <1>1, <2>3
    <3> QED BY <1>7, <1>15, <1>16, <1>17, <2>1, <2>3, <3>1 DEF Stages
  <2> QED BY <2>2, <2>3
<1> QED BY <1>6, <1>9, <1>10, <1>13, <1>19
-----------------------------------------------------------------------------
(* load_src_vreg.                                                          *)

(* A victim leaves the last result one slot further behind.                *)
LEMMA VictimPosition ==
  ASSUME TypeOK, Full \/ Trailing, NEW s \in Slots, get_empty_slot(s),
         \A t \in Slots : dirty[t] => occupied[t],
         dirty' = CleanedBy(s), UNCHANGED dest_slot
  PROVE  Trailing' /\ (Full => s = next_to_spill)
<1> USE NumSlotsAssumption
<1>0. next_to_spill \in Slots /\ dirty \in [Slots -> BOOLEAN]
  BY DEF TypeOK
<1>1. CASE Full
  <2>1. MustSpill /\ s = next_to_spill /\ next_to_spill' = (next_to_spill + 1) % NumSlots
    <3>1. Unoccupied = {} /\ Clean = {} /\ MustSpill
      BY <1>1 DEF Full, Unoccupied, Clean, MustSpill
    <3>2. ~IsFirst(s, Unoccupied) /\ ~IsFirst(s, Clean)
      BY <3>1 DEF IsFirst
    <3> QED BY <3>1, <3>2 DEF get_empty_slot, NextVictim
  <2>2. Previous(next_to_spill') = next_to_spill
    BY <1>0, <2>1, RingFacts
  <2>3. \A t \in Slots : dirty'[t] <=> t # s
    BY <1>0, <1>1, <2>1 DEF CleanedBy, Full
  <2> QED BY <1>1, <2>1, <2>2, <2>3 DEF Full, Trailing
<1>2. CASE Trailing /\ ~Full
  <2>1. Previous(next_to_spill) \in Slots
    BY <1>0, RingFacts
  <2>2. Clean # {}
    BY <1>2, <2>1 DEF Trailing, Clean
  <2>3. ~MustSpill
    BY <2>2 DEF MustSpill
  <2>4. dirty' = dirty /\ next_to_spill' = next_to_spill
    BY <2>3 DEF CleanedBy, get_empty_slot
  <2> QED BY <1>2, <2>4 DEF Trailing
<1> QED BY <1>1, <1>2

(* In the middle of an instruction, a call that finds everything in place. *)
LEMMA PositionStays ==
  ASSUME stage # "dest", UNCHANGED <<occupied, dirty, dest_slot, next_to_spill, spilled>>
  PROVE  /\ Filling => Filling'
         /\ Full => Full'
         /\ Trailing => Trailing'
         /\ Position => Position'
<1>1. Filling => Filling'
  <2> SUFFICES ASSUME NEW k \in 0 .. NumSlots - 1, FillingAt(k)
               PROVE  FillingAt(k)'
    BY DEF Filling
  <2> QED BY DEF FillingAt
<1>2. (Full => Full') /\ (Trailing => Trailing')
  BY DEF Full, Trailing
<1> QED BY <1>1, <1>2 DEF Position

(* The register is in a slot already: nothing moves.                       *)
LEMMA LoadSrcHit ==
  ASSUME TypeOK, IrOK, Pending, Stages, Lowered,
         NEW v \in Defined, NEW s \in Slots, load_src_vreg(v, s), Holding(v) # {}
  PROVE  /\ UNCHANGED <<resident, occupied, dirty, spilled, next_to_spill, regs, mem>>
         /\ In(v, s)
<1>1. s \in Holding(v) /\ UNCHANGED <<allocVars, regs, mem>>
  BY DEF load_src_vreg, IsFirst
<1>2. occupied[s] /\ resident[s] = v
  BY <1>1 DEF Holding
<1>3. v # instr.dest /\ resident[dest_slot] = instr.dest
  BY CodeFacts DEF Stages, Pending
<1>4. s # dest_slot
  BY <1>2, <1>3
<1>5. regs[s] = v
  BY <1>2, <1>4 DEF Lowered
<1> QED BY <1>1, <1>2, <1>5 DEF allocVars, In

(* A register that is loaded from the frame gets its value; the slots that *)
(* must not move stay where they are.                                      *)
LEMMA LoadSrcMiss ==
  ASSUME TypeOK, IrOK, Pending, Stages, Lowered, SpillsLoaded, SpillArea, Position,
         NEW v \in Defined, NEW s \in Slots, load_src_vreg(v, s), Holding(v) = {},
         UNCHANGED <<irVars, pos, phase, dest_slot>>, stage' # "dest"
  PROVE  /\ SpillArea' /\ IsMap(spilled', Nat, Int) /\ IsMap(mem', Int, Nat \cup {Junk})
         /\ next_to_spill' \in Slots
         /\ resident' \in [Slots -> Nat] /\ occupied' \in [Slots -> BOOLEAN]
         /\ dirty' \in [Slots -> BOOLEAN] /\ regs' \in [Slots -> Nat \cup {Junk}]
         /\ Lowered' /\ SpillsLoaded' /\ Trailing'
         /\ In(v, s)' /\ s # dest_slot
         /\ \A t \in Slots : t # s =>
              /\ occupied'[t] = occupied[t] /\ resident'[t] = resident[t]
              /\ dirty'[t] = dirty[t] /\ regs'[t] = regs[t]
         /\ ~Filling /\ (Full => s = next_to_spill)
<1>1. /\ get_empty_slot(s)
      /\ regs' = [regs EXCEPT ![s] = Loaded(Encoded(FrameOffset(v)))]
      /\ resident' = [resident EXCEPT ![s] = v]
      /\ occupied' = [occupied EXCEPT ![s] = TRUE]
      /\ dirty' = CleanedBy(s)
  BY DEF load_src_vreg, IsFirst
<1>2. /\ resident \in [Slots -> Nat] /\ occupied \in [Slots -> BOOLEAN]
      /\ dirty \in [Slots -> BOOLEAN] /\ regs \in [Slots -> Nat \cup {Junk}]
  BY DEF TypeOK
<1>3. /\ pos <= Len(instructions) + 1 /\ pos <= Len(instructions)
      /\ resident[dest_slot] = instr.dest /\ phase = "lower" /\ stage # "dest"
      /\ dest_slot \in Slots
  BY DEF Stages, Pending, TypeOK
<1>4. /\ \A w \in Defined : w \in VRegId /\ w \in Nat
      /\ instr.dest \notin Defined
  BY <1>3, CodeFacts
<1>5. \A t \in Slots : dirty[t] => occupied[t]
  BY DEF Lowered
<1>6. s # dest_slot
  BY <1>1, <1>3, <1>5, NotDestSlot
<1>7. /\ SpillArea' /\ IsMap(spilled', Nat, Int) /\ IsMap(mem', Int, Nat \cup {Junk})
      /\ next_to_spill' \in Slots
      /\ DOMAIN spilled \subseteq DOMAIN spilled' /\ DOMAIN spilled' \subseteq Defined
      /\ \A w \in DOMAIN spilled' : spilled'[w] \in DOMAIN mem' /\ mem'[spilled'[w]] = w
      /\ \A o \in DOMAIN mem' : \E w \in DOMAIN spilled' : o = spilled'[w]
      /\ occupied[s] => resident[s] \in DOMAIN spilled'
  BY <1>1, <1>4, <1>6, EvictionKeeps
<1>8. \A t \in Slots : ~(occupied[t] /\ resident[t] = v)
  BY DEF Holding
<1>9. v \in DOMAIN spilled /\ spilled[v] \in DOMAIN mem /\ mem[spilled[v]] = v
  BY <1>8 DEF Lowered, SpillsLoaded
<1>10. Encoded(FrameOffset(v)) = spilled[v]
  <2>1. FrameOffset(v) = spilled[v]
    BY <1>9 DEF FrameOffset
  <2>2. PICK k \in 0 .. Cardinality(DOMAIN spilled) - 1 : spilled[v] = -4 * (k + 4)
    BY <1>9 DEF SpillArea
  <2>3. Cardinality(DOMAIN spilled) \in Nat /\ Cardinality(DOMAIN spilled) <= MaxVRegs
    <3>1. IsFiniteSet(VRegId) /\ Cardinality(VRegId) = MaxVRegs
      BY MaxVRegsAssumption, FS_Interval DEF VRegId
    <3>2. DOMAIN spilled \subseteq VRegId
      BY DEF SpillArea
    <3> QED BY <3>1, <3>2, FS_Subset, FS_CardinalityType
  <2>4. spilled[v] \in Int /\ -2048 <= spilled[v] /\ spilled[v] <= 0
    BY <2>2, <2>3, FrameAssumption, MaxVRegsAssumption
  <2> QED BY <2>1, <2>4, EncodedFacts
<1>11. Loaded(Encoded(FrameOffset(v))) = v
  BY <1>9, <1>10 DEF Loaded
<1>12. In(v, s)'
  BY <1>1, <1>2, <1>11 DEF In
<1>13. /\ resident' \in [Slots -> Nat] /\ occupied' \in [Slots -> BOOLEAN]
       /\ dirty' \in [Slots -> BOOLEAN] /\ regs' \in [Slots -> Nat \cup {Junk}]
  BY <1>1, <1>2, <1>4, <1>11 DEF CleanedBy
<1>14. \A t \in Slots : t # s =>
          /\ occupied'[t] = occupied[t] /\ resident'[t] = resident[t]
          /\ dirty'[t] = dirty[t] /\ regs'[t] = regs[t]
  BY <1>1, <1>2 DEF CleanedBy
<1>15. ~Filling
  BY <1>9 DEF Filling, FillingAt
<1>16. Trailing' /\ (Full => s = next_to_spill)
  BY <1>1, <1>5, <1>15, VictimPosition DEF Position
<1>17. /\ Defined' = Defined /\ Pending' /\ instr' = instr
  BY <1>3 DEF Defined, Dest, instr, Pending, irVars
<1>18. SpillsLoaded'
  BY <1>7, <1>17 DEF SpillsLoaded
<1>19. Lowered'
  <2>1. \A t \in Slots : dirty'[t] => occupied'[t]
    BY <1>5, <1>12, <1>14 DEF In
  <2>2. \A t \in Slots : occupied'[t] =>
           \/ resident'[t] \in Defined' /\ regs'[t] = resident'[t]
           \/ Pending' /\ t = dest_slot'
    BY <1>12, <1>14, <1>17 DEF In, Lowered
  <2>3. \A t, u \in Slots :
           occupied'[t] /\ occupied'[u] /\ resident'[t] = resident'[u] => t = u
    <3>1. \A t, u \in Slots :
             occupied[t] /\ occupied[u] /\ resident[t] = resident[u] => t = u
      BY DEF Lowered
    <3> QED BY <1>8, <1>12, <1>14, <3>1 DEF In
  <2>4. \A t \in Slots : occupied'[t] /\ ~dirty'[t] => resident'[t] \in DOMAIN spilled'
    BY <1>7, <1>9, <1>12, <1>14 DEF In, Lowered
  <2>5. \A w \in Defined' :
          w \in DOMAIN spilled' \/ \E t \in Slots : occupied'[t] /\ resident'[t] = w
    <3>1. \A w \in Defined :
            w \in DOMAIN spilled \/ \E t \in Slots : occupied[t] /\ resident[t] = w
      BY DEF Lowered
    <3> QED BY <1>7, <1>14, <1>17, <3>1
  <2> QED BY <2>1, <2>2, <2>3, <2>4, <2>5 DEF Lowered
<1> QED BY <1>6, <1>7, <1>12, <1>13, <1>14, <1>15, <1>16, <1>18, <1>19

(* One load of an operand, whichever way it goes.                          *)
LEMMA LoadSrcKeeps ==
  ASSUME TypeOK, IrOK, Pending, Stages, Lowered, SpillsLoaded, SpillArea, Position,
         NEW v \in Defined, NEW s \in Slots, load_src_vreg(v, s),
         UNCHANGED <<irVars, pos, phase, dest_slot>>, stage' # "dest"
  PROVE  /\ SpillArea' /\ IsMap(spilled', Nat, Int) /\ IsMap(mem', Int, Nat \cup {Junk})
         /\ next_to_spill' \in Slots
         /\ resident' \in [Slots -> Nat] /\ occupied' \in [Slots -> BOOLEAN]
         /\ dirty' \in [Slots -> BOOLEAN] /\ regs' \in [Slots -> Nat \cup {Junk}]
         /\ Lowered' /\ SpillsLoaded' /\ Position'
         /\ In(v, s)'
         /\ Defined' = Defined /\ Pending' /\ instr' = instr
         /\ Len(instructions)' = Len(instructions)
         /\ \A i : Dest(i)' = Dest(i)
         /\ /\ occupied'[dest_slot'] /\ dirty'[dest_slot']
            /\ resident'[dest_slot'] = instr'.dest /\ instr'.dest \notin DOMAIN spilled'
         /\ \A w, t : SafeIn(w, t) /\ t \in Slots => In(w, t)'
         /\ \A t \in Slots : In(v, t) /\ SafeIn(v, t) => SafeIn(v, s)'
<1>1. /\ Defined' = Defined /\ Pending' /\ instr' = instr
      /\ Len(instructions)' = Len(instructions)
      /\ \A i : Dest(i)' = Dest(i)
      /\ dest_slot' = dest_slot
  BY DEF Defined, Dest, instr, Pending, irVars
<1>2. /\ pos <= Len(instructions) + 1 /\ pos <= Len(instructions) /\ stage # "dest"
      /\ occupied[dest_slot] /\ dirty[dest_slot] /\ resident[dest_slot] = instr.dest
      /\ instr.dest \notin DOMAIN spilled /\ dest_slot \in Slots
  BY DEF Stages, Pending, TypeOK
<1>3. instr.dest \notin Defined
  BY <1>2, CodeFacts
<1>4. CASE Holding(v) # {}
  <2>1. /\ UNCHANGED <<resident, occupied, dirty, spilled, next_to_spill, regs, mem>>
        /\ In(v, s)
    BY <1>4, LoadSrcHit
  <2>2. \A w, t : In(w, t)' <=> In(w, t)
    BY <2>1 DEF In
  <2>3. (Filling => Filling') /\ (Full => Full') /\ (Position => Position')
    BY <1>1, <1>2, <2>1, PositionStays
  <2>4. SpillArea' /\ SpillsLoaded'
    BY <1>1, <2>1 DEF SpillArea, SpillsLoaded
  <2>5. Lowered'
    BY <1>1, <2>1 DEF Lowered
  <2>6. \A t \in Slots : In(v, t) => t = s
    BY <2>1 DEF In, Lowered
  <2>7. \A t \in Slots : In(v, t) /\ SafeIn(v, t) => SafeIn(v, s)'
    BY <2>1, <2>2, <2>3, <2>6 DEF SafeIn
  <2>8. \A w, t : SafeIn(w, t) => In(w, t)'
    BY <2>2 DEF SafeIn
  <2> QED BY <1>1, <1>2, <2>1, <2>2, <2>3, <2>4, <2>5, <2>7, <2>8 DEF TypeOK
<1>5. CASE Holding(v) = {}
  <2>1. /\ SpillArea' /\ IsMap(spilled', Nat, Int) /\ IsMap(mem', Int, Nat \cup {Junk})
        /\ next_to_spill' \in Slots
        /\ resident' \in [Slots -> Nat] /\ occupied' \in [Slots -> BOOLEAN]
        /\ dirty' \in [Slots -> BOOLEAN] /\ regs' \in [Slots -> Nat \cup {Junk}]
        /\ Lowered' /\ SpillsLoaded' /\ Trailing'
        /\ In(v, s)' /\ s # dest_slot
        /\ \A t \in Slots : t # s =>
              /\ occupied'[t] = occupied[t] /\ resident'[t] = resident[t]
              /\ dirty'[t] = dirty[t] /\ regs'[t] = regs[t]
        /\ ~Filling /\ (Full => s = next_to_spill)
    BY <1>5, LoadSrcMiss
  <2>2. instr.dest \notin DOMAIN spilled'
    BY <1>1, <1>3, <2>1 DEF SpillsLoaded
  <2>3. \A w, t : SafeIn(w, t) /\ t \in Slots => In(w, t)'
    <3> SUFFICES ASSUME NEW w, NEW t \in Slots, SafeIn(w, t)
                 PROVE  In(w, t)'
      OBVIOUS
    <3>1. In(w, t) /\ t # s
      BY <2>1 DEF SafeIn
    <3> QED BY <2>1, <3>1 DEF In
  <2>4. \A t \in Slots : ~In(v, t)
    BY <1>5 DEF Holding, In
  <2>5. Position'
    BY <2>1 DEF Position
  <2>6. /\ occupied'[dest_slot'] /\ dirty'[dest_slot']
        /\ resident'[dest_slot'] = instr'.dest
    BY <1>1, <1>2, <2>1
  <2> QED BY <1>1, <2>1, <2>2, <2>3, <2>4, <2>5, <2>6
<1> QED BY <1>4, <1>5

(* The first operand: the last result itself, or an earlier register that  *)
(* is loaded while the last result is safe.                                *)
LEMMA LoadOp1Keeps ==
  ASSUME TypeOK, IrOK, phase = "lower", Stages, Lowered, SpillsLoaded, SpillArea,
         LoadOp1
  PROVE  TypeOK' /\ Stages' /\ Lowered' /\ SpillsLoaded' /\ SpillArea'
<1>1. /\ pos <= Len(instructions) /\ stage = "op1" /\ Pending
      /\ UNCHANGED <<irVars, phase, fn_count, stack_size, pos, dest_slot, op2_slot,
                     flush_slot, result>>
      /\ stage' = CASE instr.opcode = "BitNot" -> "mask"
                    [] instr.opcode = "Neg"    -> "exec"
                    [] OTHER                   -> "op2"
  BY DEF LoadOp1, Lowering, Pending
<1>2. PICK s \in Slots : load_src_vreg(instr.op1, s) /\ op1_slot' = s
  BY DEF LoadOp1
<1>3. PICK d \in Slots : SafeIn(Dest(pos - 1), d)
  BY <1>1 DEF Stages
<1>4. /\ instr.opcode # "LoadImm" /\ pos <= Len(instructions) + 1 /\ Position
  BY <1>1, <1>3 DEF Stages, SafeIn, Position
<1>5. /\ instr.opcode \in {"Neg", "BitNot"} =>
           instr.op1 = Dest(pos - 1) /\ instr.op2 = NO_VREG
      /\ instr.opcode \notin {"Neg", "BitNot"} =>
           /\ instr.opcode \in BinaryOp
           /\ instr.op1 = Dest(pos - 1) \/ instr.op2 = Dest(pos - 1)
      /\ pos > 1 /\ instr.op1 \in Defined
      /\ instr.opcode \in BinaryOp => instr.opcode \notin {"Neg", "BitNot"}
  <2>1. pos > 1 => Dest(pos - 1) \in Defined
    BY <1>4, CodeFacts
  <2>2. instr.opcode \in BinaryOp => instr.opcode \notin {"Neg", "BitNot"}
    BY DEF BinaryOp, CompareOp, BitwiseOp, ShiftOp, ArithmeticOp
  <2> QED BY <1>1, <1>4, <2>1, <2>2, OperandsDefined
<1>6. /\ stage' \in {"mask", "exec", "op2"} /\ stage' # "dest" /\ stage' # "op1"
  BY <1>1
<1>7. /\ SpillArea' /\ IsMap(spilled', Nat, Int) /\ IsMap(mem', Int, Nat \cup {Junk})
      /\ next_to_spill' \in Slots
      /\ resident' \in [Slots -> Nat] /\ occupied' \in [Slots -> BOOLEAN]
      /\ dirty' \in [Slots -> BOOLEAN] /\ regs' \in [Slots -> Nat \cup {Junk}]
      /\ Lowered' /\ SpillsLoaded' /\ Position'
      /\ In(instr.op1, s)'
      /\ Defined' = Defined /\ Pending' /\ instr' = instr
      /\ Len(instructions)' = Len(instructions)
      /\ \A i : Dest(i)' = Dest(i)
      /\ /\ occupied'[dest_slot'] /\ dirty'[dest_slot']
         /\ resident'[dest_slot'] = instr'.dest /\ instr'.dest \notin DOMAIN spilled'
  <2>1. \A v \in Defined : v = instr.op1 => In(v, s)'
    BY <1>1, <1>2, <1>4, <1>6, LoadSrcKeeps
  <2>2. instr' = instr
    BY <1>1 DEF instr, irVars
  <2>3. In(instr.op1, s)'
    BY <1>5, <2>1, <2>2
  <2> QED BY <1>1, <1>2, <1>4, <1>5, <1>6, <2>3, LoadSrcKeeps
<1>8. instr.op1 = Dest(pos - 1) => SafeIn(instr.op1, s)'
  <2>1. \A v \in Defined : v = instr.op1 /\ v = Dest(pos - 1) => SafeIn(v, s)'
    BY <1>1, <1>2, <1>3, <1>4, <1>6, LoadSrcKeeps DEF SafeIn
  <2> QED BY <1>5, <1>7, <2>1
<1>9. In(Dest(pos - 1), d)'
  <2>1. \A w : SafeIn(w, d) => In(w, d)'
    BY <1>1, <1>2, <1>4, <1>5, <1>6, LoadSrcKeeps
  <2>2. \A w : w = Dest(pos - 1) => w = Dest(pos - 1)'
    BY <1>1, <1>7
  <2> QED BY <1>3, <2>1, <2>2
<1>10. TypeOK'
  <2>1. IrTypeOK'
    BY <1>1, IrStays DEF TypeOK
  <2> QED BY <1>1, <1>2, <1>6, <1>7, <2>1 DEF TypeOK
<1>11. Stages'
  <2>1. /\ pos' <= Len(instructions)' /\ pos' <= Len(instructions)' + 1
        /\ pos' > 1 /\ stage' # "dest" /\ stage' # "op1"
    BY <1>1, <1>4, <1>5, <1>6, <1>7
  <2>2. CASE instr.opcode = "BitNot"
    <3>1. stage' = "mask"
      BY <1>1, <2>2
    <3>2. SafeIn(instr.op1, op1_slot)'
      BY <1>2, <1>5, <1>8, <2>2
    <3> QED BY <1>4, <1>7, <2>1, <2>2, <3>1, <3>2 DEF Stages
  <2>3. CASE instr.opcode = "Neg"
    <3>1. stage' = "exec"
      BY <1>1, <2>3
    <3>2. In(instr.op1, op1_slot)' /\ instr'.op2 = NO_VREG
      BY <1>2, <1>5, <1>7, <2>3
    <3> QED BY <1>4, <1>7, <2>1, <2>3, <3>1, <3>2 DEF Stages
  <2>4. CASE instr.opcode \notin {"Neg", "BitNot"}
    <3>1. stage' = "op2" /\ instr.opcode \in BinaryOp
      BY <1>1, <1>5, <2>4
    <3>2. In(instr.op1, op1_slot)'
      BY <1>2, <1>7
    <3>3. \/ /\ instr'.op2 = Dest(pos - 1)'
             /\ (\E t \in Slots : In(instr.op2, t))'
             /\ Position'
          \/ SafeIn(instr.op1, op1_slot)'
      <4>1. CASE instr.op1 = Dest(pos - 1)
        BY <1>2, <1>8, <4>1
      <4>2. CASE instr.op2 = Dest(pos - 1)
        <5>1. instr'.op2 = Dest(pos - 1)'
          BY <1>1, <1>7, <4>2
        <5>2. In(instr.op2, d)'
          BY <1>9, <5>1
        <5> QED BY <1>7, <5>1, <5>2
      <4> QED BY <1>5, <2>4, <4>1, <4>2
    <3> QED BY <1>4, <1>7, <2>1, <3>1, <3>2, <3>3 DEF Stages
  <2> QED BY <2>2, <2>3, <2>4
<1> QED BY <1>7, <1>10, <1>11

(* The second operand: by now at most one of the two was not the last      *)
(* result.                                                                 *)
LEMMA LoadOp2Keeps ==
  ASSUME TypeOK, IrOK, phase = "lower", Stages, Lowered, SpillsLoaded, SpillArea,
         LoadOp2
  PROVE  TypeOK' /\ Stages' /\ Lowered' /\ SpillsLoaded' /\ SpillArea'
<1>1. /\ pos <= Len(instructions) /\ stage = "op2" /\ Pending
      /\ UNCHANGED <<irVars, phase, fn_count, stack_size, pos, dest_slot, op1_slot,
                     flush_slot, result>>
      /\ stage' = "exec"
  BY DEF LoadOp2, Lowering, Pending
<1>2. PICK s \in Slots : load_src_vreg(instr.op2, s) /\ op2_slot' = s
  BY DEF LoadOp2
<1>3. /\ instr.opcode \in BinaryOp /\ pos <= Len(instructions) + 1
      /\ In(instr.op1, op1_slot) /\ op1_slot \in Slots
      /\ \/ (\E t \in Slots : In(instr.op2, t)) /\ Position
         \/ SafeIn(instr.op1, op1_slot)
  BY <1>1 DEF Stages, TypeOK
<1>4. Position
  BY <1>3 DEF SafeIn, Position
<1>5. pos > 1 /\ instr.op2 \in Defined
  BY <1>1, <1>3, OperandsDefined
<1>6. instr' = instr /\ stage' # "dest"
  BY <1>1 DEF instr, irVars
<1>7. /\ SpillArea' /\ IsMap(spilled', Nat, Int) /\ IsMap(mem', Int, Nat \cup {Junk})
      /\ next_to_spill' \in Slots
      /\ resident' \in [Slots -> Nat] /\ occupied' \in [Slots -> BOOLEAN]
      /\ dirty' \in [Slots -> BOOLEAN] /\ regs' \in [Slots -> Nat \cup {Junk}]
      /\ Lowered' /\ SpillsLoaded' /\ Position'
      /\ Len(instructions)' = Len(instructions)
      /\ /\ occupied'[dest_slot'] /\ dirty'[dest_slot']
         /\ resident'[dest_slot'] = instr'.dest /\ instr'.dest \notin DOMAIN spilled'
  BY <1>1, <1>2, <1>4, <1>5, <1>6, LoadSrcKeeps
<1>8. In(instr.op2, op2_slot)'
  <2>1. \A v \in Defined : v = instr.op2 => In(v, s)'
    BY <1>1, <1>2, <1>4, <1>6, LoadSrcKeeps
  <2> QED BY <1>2, <1>5, <1>6, <2>1
<1>9. In(instr.op1, op1_slot)'
  <2>1. CASE SafeIn(instr.op1, op1_slot)
    <3>1. \A w, t : SafeIn(w, t) /\ t \in Slots => In(w, t)'
      BY <1>1, <1>2, <1>4, <1>5, <1>6, LoadSrcKeeps
    <3>2. \A w, t : w = instr.op1 /\ t = op1_slot => In(w, t)'
      BY <1>3, <2>1, <3>1
    <3> QED BY <1>1, <1>6, <3>2
  <2>2. CASE \E t \in Slots : In(instr.op2, t)
    <3>1. Holding(instr.op2) # {}
      BY <2>2 DEF Holding, In
    <3>2. UNCHANGED <<resident, occupied, regs>>
      BY <1>1, <1>2, <1>5, <3>1, LoadSrcHit
    <3> QED BY <1>1, <1>3, <1>6, <3>2 DEF In
  <2> QED BY <1>3, <2>1, <2>2
<1>10. TypeOK'
  <2>1. IrTypeOK'
    BY <1>1, IrStays DEF TypeOK
  <2> QED BY <1>1, <1>2, <1>7, <2>1 DEF TypeOK
<1>11. Stages'
  <2>1. /\ pos' <= Len(instructions)' /\ pos' <= Len(instructions)' + 1
        /\ pos' > 1
    BY <1>1, <1>3, <1>5, <1>7
  <2> QED BY <1>1, <1>7, <1>8, <1>9, <2>1 DEF Stages
<1> QED BY <1>7, <1>10, <1>11

(* The scratch register of a bitwise not.                                  *)
LEMMA FlipMaskKeeps ==
  ASSUME TypeOK, IrOK, phase = "lower", Stages, Lowered, SpillsLoaded, SpillArea,
         FlipMask
  PROVE  TypeOK' /\ Stages' /\ Lowered' /\ SpillsLoaded' /\ SpillArea'
<1>1. /\ pos <= Len(instructions) /\ stage = "mask" /\ Pending
      /\ UNCHANGED <<irVars, phase, fn_count, stack_size, pos, slotVars, result>>
      /\ stage' = "exec"
  BY DEF FlipMask, Lowering, Pending
<1>2. /\ Defined' = Defined /\ Pending' /\ instr' = instr
      /\ Len(instructions)' = Len(instructions)
      /\ dest_slot' = dest_slot /\ op1_slot' = op1_slot /\ op2_slot' = op2_slot
      /\ flush_slot' = flush_slot
  BY <1>1 DEF Defined, Dest, instr, Pending, irVars, slotVars
<1>3. /\ instr.opcode = "BitNot" /\ SafeIn(instr.op1, op1_slot)
      /\ pos <= Len(instructions) + 1
      /\ occupied[dest_slot] /\ dirty[dest_slot] /\ resident[dest_slot] = instr.dest
      /\ instr.dest \notin DOMAIN spilled
      /\ dest_slot \in Slots /\ op1_slot \in Slots
  BY <1>1 DEF Stages, TypeOK
<1>4. Position
  BY <1>3 DEF SafeIn, Position
<1>5. pos > 1 /\ instr.op2 = NO_VREG
  BY <1>1, <1>3, OperandsDefined
<1>6. CASE ~MaskNeedsScratch
  <2>1. UNCHANGED <<resident, occupied, dirty, spilled, next_to_spill, regs, mem>>
    BY <1>6 DEF FlipMask, allocVars
  <2>2. Position'
    BY <1>1, <1>2, <1>4, <2>1, PositionStays
  <2>3. SpillArea' /\ SpillsLoaded'
    BY <1>2, <2>1 DEF SpillArea, SpillsLoaded
  <2>4. Lowered'
    BY <1>2, <2>1 DEF Lowered
  <2>5. In(instr.op1, op1_slot)'
    BY <1>2, <1>3, <2>1 DEF In, SafeIn
  <2>6. TypeOK'
    <3>1. IrTypeOK'
      BY <1>1, IrStays DEF TypeOK
    <3> QED BY <1>1, <1>2, <2>1, <3>1 DEF TypeOK
  <2>7. Stages'
    BY <1>1, <1>2, <1>3, <1>5, <2>1, <2>2, <2>5 DEF Stages
  <2> QED BY <2>3, <2>4, <2>6, <2>7
<1>7. CASE MaskNeedsScratch
  <2>1. PICK s \in Slots : /\ get_empty_slot(s)
                          /\ occupied' = [occupied EXCEPT ![s] = FALSE]
                          /\ dirty' = CleanedBy(s)
                          /\ regs' = [regs EXCEPT ![s] = Junk]
                          /\ UNCHANGED resident
    BY <1>7 DEF FlipMask
  <2>2. \A t \in Slots : dirty[t] => occupied[t]
    BY DEF Lowered
  <2>3. s # dest_slot
    BY <1>1, <1>4, <2>1, <2>2, NotDestSlot
  <2>4. /\ \A v \in Defined : v \in VRegId /\ v \in Nat
        /\ instr.dest \notin Defined
    BY <1>1, <1>3, CodeFacts
  <2>5. /\ SpillArea' /\ IsMap(spilled', Nat, Int) /\ IsMap(mem', Int, Nat \cup {Junk})
        /\ next_to_spill' \in Slots
        /\ DOMAIN spilled \subseteq DOMAIN spilled' /\ DOMAIN spilled' \subseteq Defined
        /\ \A v \in DOMAIN spilled' : spilled'[v] \in DOMAIN mem' /\ mem'[spilled'[v]] = v
        /\ \A o \in DOMAIN mem' : \E v \in DOMAIN spilled' : o = spilled'[v]
        /\ occupied[s] => resident[s] \in DOMAIN spilled'
    BY <1>4, <2>1, <2>3, <2>4, EvictionKeeps
  <2>6. /\ occupied \in [Slots -> BOOLEAN] /\ dirty \in [Slots -> BOOLEAN]
        /\ regs \in [Slots -> Nat \cup {Junk}]
    BY DEF TypeOK
  <2>7. \A t \in Slots : t # s =>
          /\ occupied'[t] = occupied[t] /\ resident'[t] = resident[t]
          /\ dirty'[t] = dirty[t] /\ regs'[t] = regs[t]
    BY <2>1, <2>6 DEF CleanedBy
  <2>8. /\ ~occupied'[s] /\ ~dirty'[s]
        /\ op1_slot # s /\ Position'
    <3>1. CASE Filling
      <4>0. FillingAt(s) /\ ~MustSpill /\ UNCHANGED <<spilled, mem, next_to_spill>>
        BY <2>1, <3>1, FillingPlacement
      <4>1. ~occupied[s] /\ ~dirty[s]
        BY <4>0, NumSlotsAssumption DEF FillingAt, Slots
      <4>2. UNCHANGED <<occupied, dirty, spilled, next_to_spill, dest_slot>>
        BY <1>2, <2>1, <2>6, <4>0, <4>1 DEF CleanedBy
      <4>3. Position'
        BY <1>1, <1>4, <4>2, PositionStays
      <4> QED BY <1>3, <4>1, <4>2, <4>3 DEF SafeIn, In
    <3>2. CASE Full /\ op1_slot # next_to_spill
      <4>1. Trailing' /\ s = next_to_spill
        BY <1>2, <2>1, <2>2, <3>2, VictimPosition
      <4>2. MustSpill
        BY <2>2, <3>2 DEF Full, MustSpill, Unoccupied, Clean
      <4>3. ~occupied'[s] /\ ~dirty'[s]
        BY <2>1, <2>6, <4>2 DEF CleanedBy
      <4> QED BY <3>2, <4>1, <4>3 DEF Position
    <3> QED BY <1>3, <3>1, <3>2 DEF SafeIn
  <2>9. SpillsLoaded'
    BY <1>2, <2>5 DEF SpillsLoaded
  <2>10. Lowered'
    <3>1. \A t \in Slots : dirty'[t] => occupied'[t]
      BY <2>2, <2>7, <2>8
    <3>2. \A t \in Slots : occupied'[t] =>
             \/ resident'[t] \in Defined' /\ regs'[t] = resident'[t]
             \/ Pending' /\ t = dest_slot'
      BY <1>2, <2>7, <2>8 DEF Lowered
    <3>3. \A t, u \in Slots :
             occupied'[t] /\ occupied'[u] /\ resident'[t] = resident'[u] => t = u
      BY <2>7, <2>8 DEF Lowered
    <3>4. \A t \in Slots : occupied'[t] /\ ~dirty'[t] => resident'[t] \in DOMAIN spilled'
      BY <2>5, <2>7, <2>8 DEF Lowered
    <3>5. \A w \in Defined' :
            w \in DOMAIN spilled' \/ \E t \in Slots : occupied'[t] /\ resident'[t] = w
      <4>1. \A w \in Defined :
              w \in DOMAIN spilled \/ \E t \in Slots : occupied[t] /\ resident[t] = w
        BY DEF Lowered
      <4> QED BY <1>2, <2>5, <2>7, <4>1
    <3> QED BY <3>1, <3>2, <3>3, <3>4, <3>5 DEF Lowered
  <2>11. In(instr.op1, op1_slot)'
    BY <1>2, <1>3, <2>7, <2>8 DEF In, SafeIn
  <2>12. TypeOK'
    <3>1. IrTypeOK'
      BY <1>1, IrStays DEF TypeOK
    <3>2. /\ occupied' \in [Slots -> BOOLEAN] /\ dirty' \in [Slots -> BOOLEAN]
          /\ regs' \in [Slots -> Nat \cup {Junk}]
      BY <2>1, <2>6 DEF CleanedBy
    <3> QED BY <1>1, <1>2, <2>1, <2>5, <3>1, <3>2 DEF TypeOK
  <2>13. Stages'
    <3>1. instr.dest \notin DOMAIN spilled'
      BY <2>4, <2>5
    <3>2. occupied'[dest_slot] /\ dirty'[dest_slot] /\ resident'[dest_slot] = instr.dest
      BY <1>3, <2>3, <2>7
    <3> QED BY <1>1, <1>2, <1>3, <1>5, <2>8, <2>11, <3>1, <3>2 DEF Stages
  <2> QED BY <2>5, <2>9, <2>10, <2>12, <2>13
<1> QED BY <1>6, <1>7

(* The machine instruction.                                                *)
LEMMA ExecKeeps ==
  ASSUME TypeOK, IrOK, phase = "lower", Stages, Lowered, SpillsLoaded, SpillArea,
         Exec
  PROVE  TypeOK' /\ Stages' /\ Lowered' /\ SpillsLoaded' /\ SpillArea'
<1>1. /\ pos <= Len(instructions) /\ stage = "exec" /\ Pending
      /\ pos' = pos + 1 /\ stage' = "dest"
      /\ UNCHANGED <<irVars, phase, fn_count, resident, occupied, dirty, spilled,
                     next_to_spill, stack_size, dest_slot, op1_slot, op2_slot,
                     flush_slot, mem, result>>
  BY DEF Exec, Lowering, Pending, allocVars, slotVars
<1>2. /\ occupied[dest_slot] /\ dirty[dest_slot] /\ resident[dest_slot] = instr.dest
      /\ instr.dest \notin DOMAIN spilled /\ dest_slot \in Slots
      /\ Position /\ pos <= Len(instructions) + 1
      /\ instr.op1 # NO_VREG => In(instr.op1, op1_slot)
      /\ instr.op2 # NO_VREG => In(instr.op2, op2_slot)
  BY <1>1 DEF Stages, TypeOK
<1>3. ReadsOperands
  BY <1>2 DEF ReadsOperands, In
<1>4. regs' = [regs EXCEPT ![dest_slot] = instr.dest]
  BY <1>3 DEF Exec
<1>5. /\ Len(instructions) \in Nat /\ pos \in Nat /\ pos >= 1
      /\ instr.dest = Dest(pos) /\ instr.dest \in Nat
  BY <1>1, <1>2, CodeFacts
<1>6. /\ regs \in [Slots -> Nat \cup {Junk}]
      /\ regs'[dest_slot] = instr.dest
      /\ \A t \in Slots : t # dest_slot => regs'[t] = regs[t]
  BY <1>2, <1>4 DEF TypeOK
<1>7. Defined' = Defined \cup {instr.dest}
  <2>1. 1 .. pos' - 1 = (1 .. pos - 1) \cup {pos}
    BY <1>1, <1>5
  <2>2. Defined' = {Dest(i) : i \in 1 .. pos' - 1}
    BY <1>1 DEF Defined, Dest, irVars
  <2>3. {Dest(i) : i \in (1 .. pos - 1) \cup {pos}}
          = {Dest(i) : i \in 1 .. pos - 1} \cup {Dest(pos)}
    OBVIOUS
  <2> QED BY <1>5, <2>1, <2>2, <2>3 DEF Defined
<1>8. Len(instructions)' = Len(instructions) /\ Dest(pos - 1)' = instr.dest /\ ~Pending'
      /\ pos' - 1 = pos
  BY <1>1, <1>5 DEF irVars, Dest, Pending
<1>9. TypeOK'
  <2>1. IrTypeOK'
    BY <1>1, IrStays DEF TypeOK
  <2>2. regs' \in [Slots -> Nat \cup {Junk}] /\ pos' \in Nat \ {0}
    <3>1. regs' \in [Slots -> Nat \cup {Junk}]
      BY <1>4, <1>5, <1>6
    <3>2. pos' \in Nat \ {0}
      BY <1>1, <1>5
    <3> QED BY <3>1, <3>2
  <2> QED BY <1>1, <2>1, <2>2 DEF TypeOK
<1>10. SpillArea' /\ SpillsLoaded'
  BY <1>1, <1>7 DEF SpillArea, SpillsLoaded
<1>11. Lowered'
  <2>1. \A t \in Slots : occupied'[t] =>
          \/ resident'[t] \in Defined' /\ regs'[t] = resident'[t]
          \/ Pending' /\ t = dest_slot'
    BY <1>1, <1>2, <1>6, <1>7 DEF Lowered
  <2>2. \A v \in Defined' :
          v \in DOMAIN spilled' \/ \E t \in Slots : occupied'[t] /\ resident'[t] = v
    BY <1>1, <1>2, <1>7 DEF Lowered
  <2> QED BY <1>1, <2>1, <2>2 DEF Lowered
<1>12. Position'
  <2>1. Filling => Filling'
    <3> SUFFICES ASSUME NEW k \in 0 .. NumSlots - 1, FillingAt(k)
                 PROVE  FillingAt(k)'
      BY DEF Filling
    <3> QED BY <1>1 DEF FillingAt
  <2>2. (Full => Full') /\ (Trailing => Trailing')
    BY <1>1 DEF Full, Trailing
  <2> QED BY <1>2, <2>1, <2>2 DEF Position
<1>13. In(Dest(pos - 1), dest_slot)' /\ dirty'[dest_slot'] /\ Dest(pos - 1)' \notin DOMAIN spilled'
  BY <1>1, <1>2, <1>6, <1>8 DEF In
<1>14. Stages'
  <2>1. pos' <= Len(instructions)' + 1
    BY <1>1, <1>5, <1>8
  <2> QED BY <1>1, <1>12, <1>13, <2>1 DEF Stages
<1> QED BY <1>9, <1>10, <1>11, <1>14
-----------------------------------------------------------------------------
(* The terminator, the final spilling and the prologue.                    *)

(* The spill area has a size.                                              *)
LEMMA CardFacts ==
  ASSUME SpillArea
  PROVE  IsFiniteSet(DOMAIN spilled) /\ Cardinality(DOMAIN spilled) \in Nat
BY FS_CardinalityType DEF SpillArea

(* More slots given out reach further down.                                *)
LEMMA StoresAboveMono ==
  ASSUME TypeOK, NEW m \in Int, NEW n \in Int, m <= n, StoresAbove(m)
  PROVE  StoresAbove(n)
<1>1. DOMAIN mem \subseteq Int
  BY DEF TypeOK, IsMap
<1>2. \A o \in DOMAIN mem : -4 * (n + 3) <= o /\ o <= -16
  <2> SUFFICES ASSUME NEW o \in DOMAIN mem
               PROVE  -4 * (n + 3) <= o /\ o <= -16
    OBVIOUS
  <2>1. o \in Int /\ -4 * (m + 3) <= o /\ o <= -16
    BY <1>1 DEF StoresAbove
  <2>2. -4 * (n + 3) <= -4 * (m + 3)
    OBVIOUS
  <2> QED BY <2>1, <2>2
<1> QED BY <1>2 DEF StoresAbove

(* What is stored to before the final spilling.                            *)
LEMMA StoresSoFar ==
  ASSUME TypeOK, SpillsLoaded, SpillArea
  PROVE  StoresAbove(Cardinality(DOMAIN spilled))
<1> DEFINE n == Cardinality(DOMAIN spilled)
<1>1. n \in Nat
  BY CardFacts
<1> HIDE DEF n
<1>2. \A v \in DOMAIN spilled : \E k \in 0 .. n - 1 : spilled[v] = -4 * (k + 4)
  BY DEF SpillArea, n
<1>3. \A v \in DOMAIN spilled : -4 * (n + 3) <= spilled[v] /\ spilled[v] <= -16
  <2> SUFFICES ASSUME NEW v \in DOMAIN spilled
               PROVE  -4 * (n + 3) <= spilled[v] /\ spilled[v] <= -16
    OBVIOUS
  <2>1. PICK k \in 0 .. n - 1 : spilled[v] = -4 * (k + 4)
    BY <1>2
  <2> QED BY <1>1, <2>1
<1>4. \A o \in DOMAIN mem : \E v \in DOMAIN spilled : o = spilled[v]
  BY DEF SpillsLoaded
<1> QED BY <1>3, <1>4 DEF StoresAbove, n

(* A value is returned: load_src_vreg finds it where it was computed.      *)
LEMMA ReturnKeeps ==
  ASSUME TypeOK, IrOK, phase = "lower", operands = <<>>, Stages, Lowered,
         SpillsLoaded, SpillArea, FlushOK, LowerReturn
  PROVE  TypeOK' /\ SpillArea' /\ FlushOK'
<1> DEFINE v == terminator.ret_reg
<1>1. /\ AtTerminator /\ terminator.kind = "RETURN" /\ v # NO_VREG
      /\ phase' = "flush" /\ flush_slot' = 0
      /\ UNCHANGED <<irVars, fn_count, stack_size, pos, stage, dest_slot, op1_slot,
                     op2_slot>>
  BY DEF LowerReturn
<1>2. PICK s \in Slots : load_src_vreg(v, s) /\ result' = regs'[s]
  BY DEF LowerReturn
<1>3. pos = Len(instructions) + 1 /\ stage = "dest" /\ ~Pending
  BY <1>1 DEF AtTerminator, Pending
<1>4. cur_bblock # 0
  BY <1>1 DEF IrOK, Uninitialized
<1>5. /\ Len(instructions) \in Nat /\ pos \in Nat
      /\ \A w \in Defined : w \in VRegId /\ w \in Nat
  BY <1>3, CodeFacts DEF TypeOK
<1>6. instructions # <<>> /\ v = Dest(Len(instructions))
  BY <1>1, <1>4 DEF IrOK
<1>7. pos > 1 /\ v = Dest(pos - 1)
  <2>1. instructions \in Seq(Instruction)
    BY DEF TypeOK, IrTypeOK
  <2>2. Len(instructions) # 0
    BY <1>6, <2>1
  <2> QED BY <1>3, <1>5, <1>6, <2>2
<1>8. /\ In(v, dest_slot) /\ dirty[dest_slot] /\ v \notin DOMAIN spilled
      /\ dest_slot \in Slots
  BY <1>3, <1>7 DEF Stages, TypeOK
<1>9. s \in Holding(v) /\ UNCHANGED <<allocVars, regs, mem>>
  BY <1>2, <1>8 DEF load_src_vreg, IsFirst, Holding, In
<1>10. s = dest_slot /\ regs[s] = v
  BY <1>8, <1>9 DEF Holding, In, Lowered
<1>11. result' = v /\ v' = v
  BY <1>1, <1>2, <1>9, <1>10 DEF irVars
<1>12. TypeOK'
  <2>1. IrTypeOK'
    BY <1>1, IrStays DEF TypeOK
  <2>2. result' \in Nat \cup {Junk}
    BY <1>2, <1>9 DEF TypeOK
  <2>3. flush_slot' \in 0 .. NumSlots
    BY <1>1, NumSlotsAssumption
  <2> QED BY <1>1, <1>9, <2>1, <2>2, <2>3 DEF TypeOK, allocVars
<1>13. SpillArea'
  BY <1>9 DEF SpillArea, allocVars
<1>14. \A t \in Slots : dirty[t] => resident[t] \in VRegId
  BY <1>3, <1>5 DEF Lowered
<1>15. 0 <= dest_slot
  BY <1>8 DEF Slots
<1>16. StoresAbove(Cardinality(DOMAIN spilled))
  BY StoresSoFar
<1>17. StoresAbove(Cardinality(DOMAIN spilled))'
  BY <1>9, <1>16 DEF StoresAbove, allocVars
<1> HIDE DEF v
<1>18. result' = terminator'.ret_reg
  BY <1>11 DEF v
<1> QED BY <1>1, <1>8, <1>9, <1>12, <1>13, <1>14, <1>15, <1>17, <1>18
        DEF FlushOK, allocVars, In

(* Nothing is returned: then nothing was computed either.                  *)
LEMMA VoidKeeps ==
  ASSUME TypeOK, IrOK, phase = "lower", operands = <<>>, Stages, Lowered,
         SpillsLoaded, SpillArea, FlushOK,
         LowerReturnVoid \/ LowerUninitializedAsReturn
  PROVE  TypeOK' /\ SpillArea' /\ FlushOK'
<1>1. /\ AtTerminator
      /\ terminator.kind = "RETURN" => terminator.ret_reg = NO_VREG
      /\ phase' = "flush" /\ flush_slot' = 0
      /\ UNCHANGED <<irVars, fn_count, allocVars, stack_size, pos, stage, dest_slot,
                     op1_slot, op2_slot, machineVars>>
  BY DEF LowerReturnVoid, LowerUninitializedAsReturn
<1>2. pos = Len(instructions) + 1 /\ stage = "dest"
  BY <1>1 DEF AtTerminator
<1>3. terminator.ret_reg = NO_VREG /\ instructions = <<>>
  BY <1>1 DEF IrOK, Uninitialized
<1>4. pos = 1
  BY <1>2, <1>3
<1>5. Defined = {}
  BY <1>4 DEF Defined
<1>6. DOMAIN mem = {}
  BY <1>5 DEF SpillsLoaded
<1>7. \A t \in Slots : ~dirty[t]
  BY <1>2, <1>5 DEF Lowered, Pending
<1>8. TypeOK'
  <2>1. IrTypeOK'
    BY <1>1, IrStays DEF TypeOK
  <2>2. flush_slot' \in 0 .. NumSlots
    BY <1>1, NumSlotsAssumption
  <2> QED BY <1>1, <2>1, <2>2 DEF TypeOK, allocVars, machineVars
<1>9. SpillArea'
  BY <1>1 DEF SpillArea, allocVars
<1>10. StoresAbove(Cardinality(DOMAIN spilled) - 1)'
  BY <1>1, <1>6 DEF StoresAbove, machineVars
<1>11. result' = terminator'.ret_reg
  BY <1>1, <1>3 DEF FlushOK, machineVars, irVars, Junk
<1> QED BY <1>1, <1>7, <1>8, <1>9, <1>10, <1>11 DEF FlushOK, allocVars

(* A spill in the final loop.                                              *)
LEMMA FlushKeeps ==
  ASSUME TypeOK, IrOK, SpillArea, FlushOK, FlushSlot
  PROVE  TypeOK' /\ SpillArea' /\ FlushOK'
<1> DEFINE n == Cardinality(DOMAIN spilled)
<1>1. /\ phase = "flush" /\ flush_slot < NumSlots /\ flush_slot' = flush_slot + 1
      /\ UNCHANGED <<irVars, phase, fn_count, resident, occupied, next_to_spill,
                     stack_size, pos, stage, dest_slot, op1_slot, op2_slot, regs, result>>
  BY DEF FlushSlot
<1>2. flush_slot \in Slots /\ flush_slot' \in 0 .. NumSlots /\ dest_slot \in Slots
  BY <1>1, NumSlotsAssumption DEF TypeOK, Slots
<1>3. n \in Nat
  BY CardFacts
<1>4. /\ IrTypeOK'
      /\ dirty \in [Slots -> BOOLEAN] /\ IsMap(spilled, Nat, Int)
  BY <1>1, IrStays DEF TypeOK
<1>5. /\ \A t \in Slots : dirty[t] => resident[t] \in VRegId
      /\ result' = terminator'.ret_reg /\ stack_size' = 8
      /\ phase' = "flush"
  BY <1>1 DEF FlushOK, irVars
<1>6. \/ /\ StoresAbove(n)
         /\ flush_slot <= dest_slot /\ dirty[dest_slot]
         /\ resident[dest_slot] \notin DOMAIN spilled
      \/ StoresAbove(n - 1)
  BY <1>1 DEF FlushOK
<1>7. CASE ~dirty[flush_slot]
  <2>1. UNCHANGED <<spilled, mem, dirty>>
    BY <1>7 DEF FlushSlot
  <2>2. TypeOK' /\ SpillArea'
    BY <1>1, <1>2, <1>4, <2>1 DEF TypeOK, SpillArea
  <2>3. (StoresAbove(n) => StoresAbove(n)') /\ (StoresAbove(n - 1) => StoresAbove(n - 1)')
    BY <2>1 DEF StoresAbove
  <2>4. flush_slot <= dest_slot /\ dirty[dest_slot] => flush_slot' <= dest_slot
    BY <1>1, <1>2, <1>7 DEF Slots
  <2> QED BY <1>1, <1>5, <1>6, <2>1, <2>2, <2>3, <2>4 DEF FlushOK
<1>8. CASE dirty[flush_slot]
  <2>1. /\ spill_slot(flush_slot, FALSE) /\ mem' = mem
        /\ dirty' = [dirty EXCEPT ![flush_slot] = FALSE]
    BY <1>8 DEF FlushSlot, spill_slot
  <2>2. resident[flush_slot] \in VRegId
    BY <1>2, <1>5, <1>8
  <2>3. /\ SpillArea' /\ IsMap(spilled', Nat, Int)
        /\ DOMAIN spilled' = DOMAIN spilled \cup {resident[flush_slot]}
        /\ resident[flush_slot] \notin DOMAIN spilled =>
             Cardinality(DOMAIN spilled') = n + 1
    BY <1>2, <1>4, <2>1, <2>2, SpillAdds
  <2>4. TypeOK'
    <3>1. dirty' \in [Slots -> BOOLEAN]
      BY <1>4, <2>1
    <3> QED BY <1>1, <1>2, <1>4, <2>1, <2>3, <3>1 DEF TypeOK
  <2>5. \A t \in Slots : dirty'[t] => resident'[t] \in VRegId
    BY <1>1, <1>4, <1>5, <2>1
  <2>6. CASE resident[flush_slot] \notin DOMAIN spilled
    <3>1. StoresAbove(n)
      <4>1. n - 1 \in Int /\ n \in Int /\ n - 1 <= n
        BY <1>3
      <4> HIDE DEF n
      <4> QED BY <1>6, <4>1, StoresAboveMono
    <3>2. n = Cardinality(DOMAIN spilled') - 1
      BY <1>3, <2>3, <2>6
    <3>3. StoresAbove(Cardinality(DOMAIN spilled) - 1)'
      BY <2>1, <3>1, <3>2 DEF StoresAbove
    <3> QED BY <1>1, <1>5, <2>3, <2>4, <2>5, <3>3 DEF FlushOK
  <2>7. CASE resident[flush_slot] \in DOMAIN spilled
    <3>1. DOMAIN spilled' = DOMAIN spilled
      BY <2>3, <2>7
    <3>2. /\ StoresAbove(n) => StoresAbove(Cardinality(DOMAIN spilled))'
          /\ StoresAbove(n - 1) => StoresAbove(Cardinality(DOMAIN spilled) - 1)'
      BY <2>1, <3>1 DEF StoresAbove
    <3>3. CASE StoresAbove(n - 1)
      BY <1>1, <1>5, <2>3, <2>4, <2>5, <3>2, <3>3 DEF FlushOK
    <3>4. CASE /\ StoresAbove(n)
               /\ flush_slot <= dest_slot /\ dirty[dest_slot]
               /\ resident[dest_slot] \notin DOMAIN spilled
      <4>1. dest_slot # flush_slot
        BY <2>7, <3>4
      <4>2. flush_slot' <= dest_slot'
        BY <1>1, <1>2, <3>4, <4>1 DEF Slots
      <4>3. dirty'[dest_slot'] /\ resident'[dest_slot'] \notin DOMAIN spilled'
        BY <1>1, <1>2, <1>4, <2>1, <3>1, <3>4, <4>1
      <4> QED BY <1>1, <1>5, <2>3, <2>4, <2>5, <3>2, <3>4, <4>2, <4>3 DEF FlushOK
    <3> QED BY <1>6, <3>3, <3>4
  <2> QED BY <2>6, <2>7
<1> QED BY <1>7, <1>8

(* The frame size is counted after the final spilling.                     *)
LEMMA PrologueKeeps ==
  ASSUME TypeOK, IrOK, SpillArea, FlushOK, BuildPrologue
  PROVE  TypeOK' /\ SpillArea' /\ FlushOK'
<1>1. /\ phase = "flush" /\ flush_slot = NumSlots /\ phase' = "done"
      /\ stack_size' = stack_size + 4 * Cardinality(DOMAIN spilled)
      /\ UNCHANGED <<irVars, fn_count, allocVars, pos, stage, slotVars, machineVars>>
  BY DEF BuildPrologue, SpillAreaSize
<1>2. Cardinality(DOMAIN spilled) \in Nat
  BY CardFacts
<1>3. stack_size = 8 /\ result = terminator.ret_reg
  BY <1>1 DEF FlushOK
<1>4. StoresAbove(Cardinality(DOMAIN spilled) - 1)
  BY <1>1, NumSlotsAssumption DEF FlushOK, TypeOK, Slots
<1>5. TypeOK'
  <2>1. IrTypeOK'
    BY <1>1, IrStays DEF TypeOK
  <2>2. stack_size' \in Nat
    BY <1>1, <1>2, <1>3
  <2> QED BY <1>1, <2>1, <2>2 DEF TypeOK, allocVars, slotVars, machineVars
<1>6. SpillArea' /\ StoresAbove(Cardinality(DOMAIN spilled) - 1)'
  BY <1>1, <1>4 DEF SpillArea, StoresAbove, allocVars, machineVars
<1>7. result' = terminator'.ret_reg
  BY <1>1, <1>3 DEF machineVars, irVars
<1>8. stack_size' = 8 + 4 * Cardinality(DOMAIN spilled')
  BY <1>1, <1>3 DEF allocVars
<1> QED BY <1>1, <1>5, <1>6, <1>7, <1>8 DEF FlushOK

(* The head of lower_function.                                             *)
LEMMA BeginKeeps ==
  ASSUME TypeOK, IrOK, BeginLowering
  PROVE  /\ TypeOK' /\ Stages' /\ Lowered' /\ SpillsLoaded' /\ SpillArea' /\ FlushOK'
<1>1. /\ phase' = "lower" /\ stack_size' = 8 /\ next_to_spill' = 0 /\ spilled' = EmptyMap
      /\ occupied' = [s \in Slots |-> FALSE] /\ dirty' = [s \in Slots |-> FALSE]
      /\ pos' = 1 /\ stage' = "dest" /\ regs' = [s \in Slots |-> Junk]
      /\ mem' = EmptyMap /\ result' = Junk
      /\ UNCHANGED <<irVars, fn_count, resident, slotVars>>
  BY DEF BeginLowering, ClearSlots
<1>2. DOMAIN EmptyMap = {}
  BY DEF EmptyMap
<1>3. TypeOK'
  <2>1. IrTypeOK'
    BY <1>1, IrStays DEF TypeOK
  <2>2. IsMap(spilled', Nat, Int) /\ IsMap(mem', Int, Nat \cup {Junk})
    BY <1>1, <1>2 DEF IsMap
  <2>3. 0 \in Slots
    BY NumSlotsAssumption DEF Slots
  <2> QED BY <1>1, <2>1, <2>2, <2>3 DEF TypeOK, slotVars
<1>4. Defined' = {}
  BY <1>1 DEF Defined
<1>5. Lowered' /\ SpillsLoaded'
  BY <1>1, <1>2, <1>4 DEF Lowered, SpillsLoaded
<1>6. SpillArea'
  BY <1>1, <1>2, FS_EmptySet DEF SpillArea
<1>7. Stages'
  <2>1. Len(instructions) \in Nat /\ Len(instructions)' = Len(instructions)
    BY <1>1 DEF TypeOK, IrTypeOK, irVars
  <2>2. FillingAt(0)'
    BY <1>1, <1>2 DEF FillingAt, Slots
  <2>3. Position'
    BY <2>2, NumSlotsAssumption DEF Position, Filling
  <2> QED BY <1>1, <2>1, <2>3 DEF Stages
<1>8. FlushOK'
  BY <1>1 DEF FlushOK
<1> QED BY <1>3, <1>5, <1>6, <1>7, <1>8
-----------------------------------------------------------------------------
(* IInv is inductive.                                                      *)

(* The invariant holds before anything is compiled.                        *)
LEMMA InitOK ==
  ASSUME Init
  PROVE  IInv
<1>1. IrTypeOK /\ IrOK
  BY IrInitOK DEF Init
<1>2. DOMAIN EmptyMap = {} /\ 0 \in Slots
  BY NumSlotsAssumption DEF EmptyMap, Slots
<1>3. TypeOK
  BY <1>1, <1>2, NumSlotsAssumption, MaxFunctionsAssumption DEF Init, TypeOK, IsMap
<1>4. SpillArea
  BY <1>2, FS_EmptySet DEF Init, SpillArea
<1> QED BY <1>1, <1>3, <1>4 DEF Init, IInv, FlushOK

(* Steps of the emission leave the code generator alone.                   *)
LEMMA EmitKeeps ==
  ASSUME IInv, Emit
  PROVE  IInv'
<1>1. phase = "emit" /\ EmitNext /\ UNCHANGED genVars
  BY DEF Emit
<1>2. IrTypeOK' /\ IrOK'
  BY <1>1, EmitNextOK DEF IInv, TypeOK
<1>3. TypeOK'
  BY <1>1, <1>2 DEF IInv, TypeOK, genVars
<1>4. SpillArea'
  BY <1>1 DEF IInv, SpillArea, genVars
<1>5. phase' = "emit"
  BY <1>1 DEF genVars
<1> QED BY <1>2, <1>3, <1>4, <1>5 DEF IInv, FlushOK

(* The next function starts from an empty writer.                          *)
LEMMA NextFunctionKeeps ==
  ASSUME IInv, NextFunction
  PROVE  IInv'
<1>1. /\ phase' = "emit" /\ fn_count' = fn_count + 1 /\ fn_count < MaxFunctions
      /\ UNCHANGED <<allocVars, stack_size, pos, stage, slotVars, machineVars>>
  BY DEF NextFunction
<1>2. IrTypeOK' /\ IrOK'
  BY NewFunctionOK DEF NextFunction
<1>3. fn_count' \in 1 .. MaxFunctions
  BY <1>1, MaxFunctionsAssumption DEF IInv, TypeOK
<1>4. TypeOK'
  BY <1>1, <1>2, <1>3 DEF IInv, TypeOK, allocVars, slotVars, machineVars
<1>5. SpillArea'
  BY <1>1 DEF IInv, SpillArea, allocVars
<1> QED BY <1>1, <1>2, <1>4, <1>5 DEF IInv, FlushOK

(* Each call the lowering makes preserves the invariant.                   *)
LEMMA LowerKeeps ==
  ASSUME IInv, Lower
  PROVE  IInv'
<1> USE DEF IInv
<1>1. UNCHANGED irVars /\ IrOK' /\ phase # "emit" /\ operands' = <<>>
  <2>1. UNCHANGED irVars /\ phase # "emit"
    BY DEF Lower, LoadDest, LoadOp1, LoadOp2, FlipMask, Exec, LowerReturn,
           LowerReturnVoid, LowerUninitializedAsReturn, LowerUninitializedAsOther,
           FlushSlot, BuildPrologue, Lowering, AtTerminator
  <2> QED BY <2>1, IrStays DEF TypeOK, irVars
<1>2. ASSUME LoadDest \/ LoadOp1 \/ LoadOp2 \/ FlipMask \/ Exec
      PROVE  IInv'
  <2>1. /\ phase = "lower" /\ phase' = "lower" /\ stack_size' = stack_size
        /\ result' = result
    BY <1>2 DEF LoadDest, LoadOp1, LoadOp2, FlipMask, Exec, Lowering
  <2>2. /\ TypeOK' /\ Stages' /\ Lowered' /\ SpillsLoaded' /\ SpillArea'
    BY <1>2, <2>1, LoadDestKeeps, LoadOp1Keeps, LoadOp2Keeps, FlipMaskKeeps, ExecKeeps
  <2>3. FlushOK'
    BY <2>1 DEF FlushOK
  <2> QED BY <1>1, <2>1, <2>2, <2>3
<1>3. ASSUME LowerReturn \/ LowerReturnVoid \/ LowerUninitializedAsReturn
      PROVE  IInv'
  <2>1. phase = "lower" /\ phase' = "flush"
    BY <1>3 DEF LowerReturn, LowerReturnVoid, LowerUninitializedAsReturn, AtTerminator
  <2>2. TypeOK' /\ SpillArea' /\ FlushOK'
    BY <1>3, <2>1, ReturnKeeps, VoidKeeps
  <2> QED BY <1>1, <2>1, <2>2
<1>4. ASSUME LowerUninitializedAsOther
      PROVE  IInv'
  <2>1. /\ phase' = "threw"
        /\ UNCHANGED <<irVars, fn_count, allocVars, stack_size, pos, stage, slotVars,
                       machineVars>>
    BY <1>4 DEF LowerUninitializedAsOther
  <2>2. TypeOK' /\ SpillArea'
    BY <2>1, IrStays DEF TypeOK, SpillArea, allocVars, slotVars, machineVars
  <2> QED BY <1>1, <2>1, <2>2 DEF FlushOK
<1>5. ASSUME FlushSlot \/ BuildPrologue
      PROVE  IInv'
  <2>1. phase' \in {"flush", "done"}
    BY <1>5 DEF FlushSlot, BuildPrologue
  <2>2. TypeOK' /\ SpillArea' /\ FlushOK'
    BY <1>5, FlushKeeps, PrologueKeeps
  <2> QED BY <1>1, <2>1, <2>2
<1> QED BY <1>2, <1>3, <1>4, <1>5 DEF Lower

(* The invariant depends on the variables only.                            *)
LEMMA StutterKeeps ==
  ASSUME IInv, UNCHANGED vars
  PROVE  IInv'
<1>1. /\ UNCHANGED irVars /\ UNCHANGED genVars
      /\ UNCHANGED <<resident, occupied, dirty, spilled, next_to_spill, stack_size, pos, stage,
                     dest_slot, op1_slot, op2_slot, flush_slot, regs, mem, result, phase, fn_count>>
  BY DEF vars, irVars, genVars
<1>2. IrTypeOK' /\ IrOK'
  BY <1>1, IrStays DEF IInv, TypeOK
<1>3. TypeOK'
  BY <1>1, <1>2 DEF IInv, TypeOK
<1>4. Defined' = Defined /\ instr' = instr /\ Len(instructions)' = Len(instructions)
      /\ (Pending' <=> Pending) /\ \A i : Dest(i)' = Dest(i)
  BY <1>1 DEF Defined, Dest, instr, Pending, irVars
<1>5. SpillArea' /\ (SpillsLoaded => SpillsLoaded')
  BY <1>1, <1>4 DEF IInv, SpillArea, SpillsLoaded
<1>6. Lowered => Lowered'
  BY <1>1, <1>4 DEF Lowered
<1>7. FlushOK'
  BY <1>1 DEF IInv, FlushOK, StoresAbove, irVars
<1>8. /\ Filling' <=> Filling
      /\ Full' <=> Full
      /\ Trailing' <=> Trailing
      /\ \A v, s : In(v, s)' <=> In(v, s)
  BY <1>1 DEF Filling, FillingAt, Full, Trailing, In
<1>9. Stages => Stages'
  BY <1>1, <1>4, <1>8 DEF Stages, Position, SafeIn
<1> QED BY <1>1, <1>2, <1>3, <1>5, <1>6, <1>7, <1>9 DEF IInv, irVars

(* Every step preserves the invariant.                                     *)
LEMMA NextOK ==
  ASSUME IInv, [Next]_vars
  PROVE  IInv'
<1>1. CASE BeginLowering
  <2>1. phase' = "lower" /\ operands' = <<>> /\ UNCHANGED irVars
    BY <1>1 DEF BeginLowering, irVars
  <2>2. IrOK'
    BY <2>1, IrStays DEF IInv, TypeOK
  <2> QED BY <1>1, <2>1, <2>2, BeginKeeps DEF IInv
<1>2. CASE Terminated \/ UNCHANGED vars
  BY <1>2, StutterKeeps DEF Terminated
<1> QED BY <1>1, <1>2, EmitKeeps, NextFunctionKeeps, LowerKeeps DEF Next

(* The invariant holds for every number of registers from three up, every  *)
(* selection of types and operators, and every bound that keeps the frame  *)
(* within the reach of a load or a store.                                  *)
THEOREM Invariance == Spec => []IInv
BY InitOK, NextOK, PTL DEF Spec

(* Type correctness.                                                       *)
THEOREM TypeCorrect == Spec => []TypeOK
<1>1. IInv => TypeOK
  BY DEF IInv
<1> QED BY <1>1, Invariance, PTL

(* The IR the writer hands over is in single-assignment form, defines      *)
(* every register before its use and consumes each result next.            *)
THEOREM IrWellFormed == Spec => []WellFormed
<1>1. IInv => WellFormed
  BY DEF IInv, IrOK
<1> QED BY <1>1, Invariance, PTL

(* When an instruction is emitted, its operands are in the registers it    *)
(* reads, whatever the calls in between have evicted.                      *)
THEOREM OperandsStayLoaded == Spec => []OperandsLoaded
<1>1. IInv => OperandsLoaded
  <2> SUFFICES ASSUME IInv, Lowering("exec")
               PROVE  /\ ReadsOperands
                      /\ instr.op1 # NO_VREG => resident[op1_slot] = instr.op1
                      /\ instr.op2 # NO_VREG => resident[op2_slot] = instr.op2
                      /\ occupied[dest_slot] /\ dirty[dest_slot]
                      /\ resident[dest_slot] = instr.dest
    BY DEF OperandsLoaded
  <2>1. Stages /\ stage = "exec"
    BY DEF IInv, Lowering
  <2> QED BY <2>1 DEF Stages, In, ReadsOperands
<1> QED BY <1>1, Invariance, PTL

(* A function returns the value its return statement names.                *)
THEOREM ResultReturned == Spec => []ReturnsResult
<1>1. IInv => ReturnsResult
  BY DEF IInv, FlushOK, ReturnsResult
<1> QED BY <1>1, Invariance, PTL

(* Every store that is executed stays inside the frame, and spill slots    *)
(* are not shared.                                                         *)
THEOREM FrameRespected == Spec => []StoresInFrame
<1>1. IInv => StoresInFrame
  <2> SUFFICES ASSUME IInv, phase = "done"
               PROVE  /\ \A offset \in DOMAIN mem :
                           -PaddedStackSize <= offset /\ offset + 4 <= -8
                      /\ \A v, w \in DOMAIN spilled : v # w => spilled[v] # spilled[w]
    BY DEF StoresInFrame
  <2> DEFINE n == Cardinality(DOMAIN spilled)
  <2>1. n \in Nat /\ stack_size = 8 + 4 * n /\ StoresAbove(n - 1)
    BY CardFacts DEF IInv, FlushOK
  <2>2. DOMAIN mem \subseteq Int
    BY DEF IInv, TypeOK, IsMap
  <2>3. \A v, w \in DOMAIN spilled : v # w => spilled[v] # spilled[w]
    BY DEF IInv, SpillArea
  <2> HIDE DEF n
  <2>4. PaddedStackSize \in Int /\ stack_size <= PaddedStackSize
    BY <2>1 DEF PaddedStackSize
  <2>5. \A offset \in DOMAIN mem : -PaddedStackSize <= offset /\ offset + 4 <= -8
    BY <2>1, <2>2, <2>4 DEF StoresAbove
  <2> QED BY <2>3, <2>5
<1> QED BY <1>1, Invariance, PTL

-----------------------------------------------------------------------------
(* The code generator implements the interpreter of the IR.  The values    *)
(* the emitted code has at hand, in any register or word of the frame, are *)
(* at each point of the lowering exactly the registers computed so far:    *)
(* none is missing by the inductive invariant, and none is there that was  *)
(* not computed.  So the calls of the allocator stutter, and an            *)
(* instruction adds its destination.                                       *)

Values == ({regs[s] : s \in Slots} \cup {mem[o] : o \in DOMAIN mem}) \ {Junk}

(* Nothing is at hand that was not computed.                               *)
Known ==
  phase = "lower" =>
    /\ \A s \in Slots : regs[s] \in Defined \cup {Junk}
    /\ \A o \in DOMAIN mem : mem[o] \in Defined \cup {Junk}

(* Finding a slot moves values, and brings in none.                        *)
LEMMA GetEmptySlotKnown ==
  ASSUME IInv, phase = "lower", Known, NEW s \in Slots, get_empty_slot(s)
  PROVE  \A o \in DOMAIN mem' : mem'[o] \in Defined \cup {Junk}
<1>1. CASE UNCHANGED mem
  BY <1>1 DEF Known
<1>2. CASE spill_slot(s, TRUE)
  <2>1. mem' = Put(mem, Encoded(SpillOffset(resident[s])), regs[s])
    BY <1>2 DEF spill_slot
  <2> QED BY <2>1 DEF Put, Known
<1> QED BY <1>1, <1>2 DEF get_empty_slot

LEMMA LoadSrcKnown ==
  ASSUME IInv, phase = "lower", Known, NEW s \in Slots, NEW v, load_src_vreg(v, s)
  PROVE  /\ \A t \in Slots : regs'[t] \in Defined \cup {Junk}
         /\ \A o \in DOMAIN mem' : mem'[o] \in Defined \cup {Junk}
<1>1. regs \in [Slots -> Nat \cup {Junk}]
  BY DEF IInv, TypeOK
<1>2. CASE UNCHANGED <<regs, mem>>
  BY <1>2 DEF Known
<1>3. CASE /\ get_empty_slot(s)
           /\ regs' = [regs EXCEPT ![s] = Loaded(Encoded(FrameOffset(v)))]
  <2>1. Loaded(Encoded(FrameOffset(v))) \in Defined \cup {Junk}
    BY DEF Loaded, Known
  <2>2. \A t \in Slots : regs'[t] \in Defined \cup {Junk}
    BY <1>1, <1>3, <2>1 DEF Known
  <2> QED BY <1>3, <2>2, GetEmptySlotKnown
<1> QED BY <1>2, <1>3 DEF load_src_vreg

LEMMA KnownInit == Init => Known
BY DEF Init, Known

LEMMA KnownNext ==
  ASSUME IInv, Known, [Next]_vars
  PROVE  Known'
<1>1. CASE LoadDest
  <2>1. phase = "lower" /\ Defined' = Defined /\ UNCHANGED regs
        /\ \E s \in Slots : get_empty_slot(s)
    BY <1>1 DEF LoadDest, Lowering, load_dest_vreg, Defined, Dest, irVars
  <2> QED BY <2>1, GetEmptySlotKnown DEF Known
<1>2. CASE LoadOp1 \/ LoadOp2
  <2>1. phase = "lower" /\ Defined' = Defined
        /\ \E s \in Slots, v \in {instr.op1, instr.op2} : load_src_vreg(v, s)
    BY <1>2 DEF LoadOp1, LoadOp2, Lowering, Defined, Dest, irVars
  <2> QED BY <2>1, LoadSrcKnown DEF Known
<1>3. CASE FlipMask
  <2>1. phase = "lower" /\ Defined' = Defined
    BY <1>3 DEF FlipMask, Lowering, Defined, Dest, irVars
  <2>2. CASE UNCHANGED <<regs, mem>>
    BY <2>1, <2>2 DEF Known
  <2>3. ASSUME NEW s \in Slots, get_empty_slot(s), regs' = [regs EXCEPT ![s] = Junk]
        PROVE  Known'
    <3>1. \A t \in Slots : regs'[t] \in Defined \cup {Junk}
      BY <2>1, <2>3 DEF IInv, TypeOK, Known
    <3> QED BY <2>1, <2>3, <3>1, GetEmptySlotKnown DEF Known
  <2> QED BY <1>3, <2>2, <2>3 DEF FlipMask
<1>4. CASE Exec
  <2>1. phase = "lower" /\ pos \in Nat \ {0} /\ pos' = pos + 1 /\ UNCHANGED <<instructions, mem>>
        /\ regs' = [regs EXCEPT ![dest_slot] = IF ReadsOperands THEN instr.dest ELSE Junk]
        /\ regs \in [Slots -> Nat \cup {Junk}]
    BY <1>4 DEF Exec, Lowering, IInv, TypeOK, irVars
  <2>2. Defined \subseteq Defined' /\ instr.dest \in Defined'
    BY <2>1 DEF Defined, Dest, instr
  <2>3. \A s \in Slots : regs'[s] \in Defined' \cup {Junk}
    BY <2>1, <2>2 DEF Known
  <2> QED BY <2>1, <2>2, <2>3 DEF Known
<1>5. CASE BeginLowering
  BY <1>5 DEF BeginLowering, Known, EmptyMap
<1>6. CASE UNCHANGED vars
  BY <1>6 DEF vars, irVars, Known, Defined, Dest
<1>7. CASE Emit \/ NextFunction \/ LowerReturn \/ LowerReturnVoid \/ BuildPrologue
             \/ LowerUninitializedAsReturn \/ LowerUninitializedAsOther \/ FlushSlot
  <2>1. phase' # "lower"
    BY <1>7 DEF Emit, genVars, NextFunction, LowerReturn, LowerReturnVoid, BuildPrologue,
                LowerUninitializedAsReturn, LowerUninitializedAsOther, FlushSlot
  <2> QED BY <2>1 DEF Known
<1> QED BY <1>1, <1>2, <1>3, <1>4, <1>5, <1>6, <1>7 DEF Next, Lower, Terminated

(* During the lowering exactly the computed registers are at hand.         *)
LEMMA ValuesAreDefined == IInv /\ Known /\ phase = "lower" => Values = Defined
<1> SUFFICES ASSUME IInv, Known, phase = "lower" PROVE Values = Defined
  OBVIOUS
<1>1. Values \subseteq Defined
  BY DEF Values, Known
<1>2. ASSUME NEW v \in Defined
      PROVE  v \in Values
  <2>1. Defined \subseteq Nat
    BY CodeFacts DEF IInv, Stages, Defined, Dest, VRegId, Instruction
  <2>2. v # Junk
    BY <2>1 DEF Junk, NO_VREG
  <2>3. CASE v \in DOMAIN spilled
    BY <2>2, <2>3 DEF Values, IInv, SpillsLoaded
  <2>4. CASE \E s \in Slots : occupied[s] /\ resident[s] = v
    <3>1. PICK s \in Slots : occupied[s] /\ resident[s] = v
      BY <2>4
    <3>2. CASE regs[s] = v
      BY <2>2, <3>2 DEF Values
    <3>3. CASE Pending /\ s = dest_slot
      <4>1. v = Dest(pos) /\ pos <= Len(instructions)
        BY <3>1, <3>3 DEF IInv, Stages, Pending, Dest, instr
      <4>2. PICK i \in 1 .. pos - 1 : v = Dest(i)
        BY DEF Defined
      <4>3. pos \in Nat /\ Len(instructions) \in Nat
        BY DEF IInv, TypeOK, IrTypeOK
      <4>4. pos \in 1 .. Len(instructions) /\ i \in 1 .. Len(instructions) /\ i # pos
        BY <4>1, <4>2, <4>3
      <4> QED BY <4>1, <4>2, <4>4 DEF IInv, IrOK, WellFormed, Dest
    <3> QED BY <3>1, <3>2, <3>3 DEF IInv, Lowered
  <2> QED BY <2>3, <2>4 DEF IInv, Lowered
<1> QED BY <1>1, <1>2

(* What a step of the allocator is to the interpreter: nothing.            *)
LEMMA AllocatorStutters ==
  ASSUME IInv, Known, IInv', Known', LoadDest \/ LoadOp1 \/ LoadOp2 \/ FlipMask
  PROVE  UNCHANGED Machine!machineState
<1>1. /\ phase = "lower" /\ phase' = "lower"
      /\ UNCHANGED <<instructions, terminator, pos, result>>
  BY DEF LoadDest, LoadOp1, LoadOp2, FlipMask, Lowering, irVars
<1>2. Values = Values'
  <2>1. Values = Defined
    BY <1>1, ValuesAreDefined
  <2>2. Values' = Defined'
    <3>1. (IInv /\ Known /\ phase = "lower" => Values = Defined)'
      BY ValuesAreDefined, PTL
    <3> QED BY <1>1, <3>1
  <2> QED BY <1>1, <2>1, <2>2 DEF Defined, Dest
<1> QED BY <1>1, <1>2 DEF Machine!machineState, Values

(* An instruction runs with its operands at hand, and adds its destination *)
(* to them.                                                                *)
LEMMA ExecSteps ==
  ASSUME IInv, Known, IInv', Known', Exec
  PROVE  Machine!Step
<1>1. /\ phase = "lower" /\ phase' = "lower" /\ pos <= Len(instructions) /\ pos \in Nat \ {0}
      /\ UNCHANGED <<instructions, terminator, result>> /\ pos' = pos + 1
  BY DEF Exec, Lowering, IInv, TypeOK, irVars
<1>2. Values = Defined /\ Values' = Defined'
  <2>1. Values = Defined
    BY <1>1, ValuesAreDefined
  <2>2. Values' = Defined'
    <3>1. (IInv /\ Known /\ phase = "lower" => Values = Defined)'
      BY ValuesAreDefined, PTL
    <3> QED BY <1>1, <3>1
  <2> QED BY <2>1, <2>2
<1>3. Defined' = Defined \cup {instructions[pos].dest}
  BY <1>1 DEF Defined, Dest
<1>4. {instructions[pos].op1, instructions[pos].op2} \ {NO_VREG} \subseteq Defined
  BY <1>1, OperandsDefined DEF IInv, instr, Defined, Dest
<1> QED BY <1>1, <1>2, <1>3, <1>4
        DEF Machine!Step, Machine!Reads, Machine!NoValue, Values, NO_VREG

(* A return is one, also where an unset terminator looks like one, and the *)
(* value it names is at hand.                                              *)
LEMMA ReturnReturns ==
  ASSUME IInv, Known, IInv', LowerReturn \/ LowerReturnVoid \/ LowerUninitializedAsReturn
  PROVE  Machine!Return
<1>1. /\ phase = "lower" /\ stage = "dest" /\ pos = Len(instructions) + 1 /\ phase' = "flush"
      /\ UNCHANGED <<instructions, terminator, pos>>
  BY DEF LowerReturn, LowerReturnVoid, LowerUninitializedAsReturn, AtTerminator, irVars
<1>2. result' = terminator.ret_reg
  BY <1>1 DEF IInv, FlushOK
<1>3. Values = Defined
  BY <1>1, ValuesAreDefined
<1>4. CASE LowerReturn
  <2>1. PICK s \in Slots : load_src_vreg(terminator.ret_reg, s)
    BY <1>4 DEF LowerReturn
  <2>2. terminator.ret_reg = Dest(pos - 1) /\ pos > 1 /\ pos - 1 \in 1 .. pos - 1
    <3>1. terminator.ret_reg # NO_VREG
      BY <1>4 DEF LowerReturn
    <3>2. cur_bblock # 0
      BY <3>1 DEF IInv, IrOK, Uninitialized
    <3>3. instructions # <<>> /\ terminator.ret_reg = Dest(Len(instructions))
      BY <3>1, <3>2 DEF IInv, IrOK
    <3>4. Len(instructions) \in Nat \ {0}
      BY <3>3 DEF IInv, TypeOK, IrTypeOK
    <3> QED BY <1>1, <3>3, <3>4
  <2>3. Holding(terminator.ret_reg) # {}
    <3>1. dest_slot \in Slots /\ In(Dest(pos - 1), dest_slot)
      BY <1>1, <2>2 DEF IInv, TypeOK, Stages
    <3> QED BY <2>2, <3>1 DEF Holding, In
  <2>4. UNCHANGED <<regs, mem>>
    BY <2>1, <2>3 DEF load_src_vreg
  <2>5. terminator.ret_reg \in Values
    BY <1>3, <2>2 DEF Defined
  <2> QED BY <1>1, <1>2, <2>4, <2>5 DEF Machine!Return, Values
<1>5. CASE LowerReturnVoid \/ LowerUninitializedAsReturn
  <2>1. UNCHANGED <<regs, mem>>
    BY <1>5 DEF LowerReturnVoid, LowerUninitializedAsReturn, machineVars
  <2>2. terminator.ret_reg = NO_VREG
    BY <1>5 DEF LowerReturnVoid, LowerUninitializedAsReturn, IInv, IrOK, Uninitialized
  <2> QED BY <1>1, <1>2, <2>1, <2>2 DEF Machine!Return, Machine!NoValue, NO_VREG
<1> QED BY <1>4, <1>5

(* A compiler error at a terminator is one for a function without code.    *)
LEMMA ErrorAborts ==
  ASSUME IInv, LowerUninitializedAsOther
  PROVE  Machine!Abort
<1>1. /\ phase = "lower" /\ phase' = "threw" /\ terminator.kind = "UNINITIALIZED"
      /\ UNCHANGED <<instructions, terminator, pos, regs, mem, result>>
  BY DEF LowerUninitializedAsOther, AtTerminator, irVars, machineVars
<1>2. cur_bblock = 0 /\ operands = <<>>
  BY <1>1 DEF IInv, IrOK
<1>3. instructions = <<>>
  BY <1>2 DEF IInv, IrOK
<1> QED BY <1>1, <1>3 DEF Machine!Abort

LEMMA StepsMap ==
  ASSUME IInv, Known, IInv', Known', [Next]_vars
  PROVE  [Machine!MachineNext]_(Machine!machineState)
<1>1. CASE LoadDest \/ LoadOp1 \/ LoadOp2 \/ FlipMask
  BY <1>1, AllocatorStutters
<1>2. CASE Exec
  BY <1>2, ExecSteps DEF Machine!MachineNext
<1>3. CASE LowerReturn \/ LowerReturnVoid \/ LowerUninitializedAsReturn
  BY <1>3, ReturnReturns DEF Machine!MachineNext
<1>4. CASE LowerUninitializedAsOther
  BY <1>4, ErrorAborts DEF Machine!MachineNext
<1>5. CASE FlushSlot \/ BuildPrologue \/ UNCHANGED vars
  <2>1. UNCHANGED <<instructions, terminator, pos, regs, mem, result>>
    BY <1>5 DEF FlushSlot, BuildPrologue, vars, irVars, machineVars, spill_slot
  <2>2. \/ phase = "flush" /\ phase' \in {"flush", "done"}
        \/ UNCHANGED phase
    BY <1>5 DEF FlushSlot, BuildPrologue, vars
  <2> QED BY <2>1, <2>2 DEF Machine!machineState
<1>6. CASE BeginLowering
  <2>1. /\ phase = "emit" /\ phase' = "lower" /\ pos' = 1 /\ result' = Junk
        /\ UNCHANGED <<instructions, terminator>>
        /\ regs' = [s \in Slots |-> Junk] /\ mem' = EmptyMap
    BY <1>6 DEF BeginLowering, irVars
  <2>2. Values' = {}
    BY <2>1 DEF Values, EmptyMap
  <2>3. Machine!Call
    BY <2>1, <2>2 DEF Machine!Call, Machine!NoValue, Values, Junk, NO_VREG
  <2> QED BY <2>3 DEF Machine!MachineNext
<1>7. CASE Emit \/ NextFunction
  <2>1. /\ phase \in {"emit", "done"} /\ phase' = "emit"
        /\ UNCHANGED <<pos, regs, mem, result>>
    BY <1>7 DEF Emit, NextFunction, genVars, machineVars
  <2>2. Machine!Edit
    BY <2>1 DEF Machine!Edit
  <2> QED BY <2>2 DEF Machine!MachineNext
<1> QED BY <1>1, <1>2, <1>3, <1>4, <1>5, <1>6, <1>7 DEF Next, Lower, Terminated

LEMMA StartMaps == Init => Machine!Idle
BY DEF Init, Machine!Idle, Machine!NoValue, EmptyMap, Junk, NO_VREG

(* Exactly the registers computed so far are at hand at every point of the *)
(* lowering.                                                               *)
THEOREM NothingLostNorInvented == Spec => [](phase = "lower" => Values = Defined)
<1>1. Spec => []Known
  BY KnownInit, KnownNext, Invariance, PTL DEF Spec
<1> QED BY <1>1, Invariance, ValuesAreDefined, PTL

(* The emitted code behaves like the interpreter of the IR, whatever the   *)
(* program, the number of slots and the number of functions.               *)
THEOREM Refinement == Spec => ImplementsIr
<1>1. Spec => []Known
  BY KnownInit, KnownNext, Invariance, PTL DEF Spec
<1> QED BY <1>1, Invariance, StepsMap, StartMaps, PTL
        DEF Spec, ImplementsIr, Machine!MachineSpec
=============================================================================
