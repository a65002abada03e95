------------------------------ MODULE IrWriter ------------------------------
(***************************************************************************)
(* Emission of the IR of one function: the IrWriter and the emit_ir        *)
(* methods that drive it.                                                  *)
(*                                                                         *)
(* emit_ir walks the syntax tree in post-order.  What that recursion holds *)
(* at any moment is the stack of virtual registers its calls have returned *)
(* and their callers have not yet used; `operands' is that stack, and each *)
(* action is what one node of the tree does once its children have been    *)
(* emitted.  The only statements of the language are return statements, so *)
(* the stack is empty between statements.                                  *)
(*                                                                         *)
(* Only the entry block of a function is ever reachable (no instruction    *)
(* jumps), so only its instructions are kept: `instructions' is            *)
(* entry->instructions and `terminator' is entry->terminator.  Statements  *)
(* after a return are emitted into blocks that nothing refers to; they     *)
(* still take virtual registers and fill the constant cache.               *)
(***************************************************************************)
EXTENDS IrTypes, Sequences

CONSTANTS
  Types,       \* the types of the literals that programs use
  BinOps,      \* the binary operators that programs use
  MaxVRegs,    \* bound: virtual registers of one function
  MaxBlocks    \* bound: basic blocks of one function

ASSUME TypesAssumption == Types \subseteq IrType
ASSUME BinOpsAssumption == BinOps \subseteq BinaryOp
ASSUME MaxVRegsAssumption == MaxVRegs \in Nat
ASSUME MaxBlocksAssumption == MaxBlocks \in Nat \ {0}

VARIABLES
  vregs,         \* Function::vregs: type of each virtual register
  const_cache,   \* IrWriter::const_cache: <<type, value>> to register
  cur_bblock,    \* id of the block being written (0 is the entry)
  instructions,  \* instructions of the entry block
  terminator,    \* terminator of the entry block
  operands       \* registers returned by emit_ir calls and not yet used

irVars == <<vregs, const_cache, cur_bblock, instructions, terminator, operands>>

(* ir::NO_VREG, an operand its opcode does not use. *)
NO_VREG == -1

EmptyMap == [k \in {} |-> NO_VREG]

VRegId == 0 .. MaxVRegs - 1

Instruction ==
  [opcode : BinaryOp \cup {"Neg", "BitNot", "LoadImm"},
   dest : VRegId, op1 : VRegId \cup {NO_VREG}, op2 : VRegId \cup {NO_VREG}]

(* The constructor of BasicBlock leaves terminator.kind uninitialised;     *)
(* ret_reg is an optional and starts empty.                                *)
Uninitialized == [kind |-> "UNINITIALIZED", ret_reg |-> NO_VREG]

Return(v) == [kind |-> "RETURN", ret_reg |-> v]

-----------------------------------------------------------------------------
(* IrWriter::new_vreg: ids are handed out in order, starting at 0.         *)
VRegCount == Len(vregs)

TypeOf(v) == vregs[v + 1]

(* Bound: n more registers fit, and one for each operator that will still  *)
(* have to consume an operand when the stack is `depth' deep.              *)
Fits(n, depth) == VRegCount + n + (depth - 1) <= MaxVRegs

(* IrWriter::add_instr, into the current block. *)
add_instrs(instrs) ==
  instructions' = IF cur_bblock = 0 THEN instructions \o instrs ELSE instructions

LoadImm(dest) ==
  [opcode |-> "LoadImm", dest |-> dest, op1 |-> NO_VREG, op2 |-> NO_VREG]

Instr(op, dest, a, b) == [opcode |-> op, dest |-> dest, op1 |-> a, op2 |-> b]

(* The stack of pending operands, from the top. *)
Top == operands[Len(operands)]

Second == operands[Len(operands) - 1]

Pop(n) == SubSeq(operands, 1, Len(operands) - n)

(* The type a register returned by the function has; no register, no type. *)
ReturnTypeOf(v) == IF v = NO_VREG THEN "void" ELSE TypeOf(v)

(* IrWriter::add_return closes the current block and starts another one.   *)
(* ReturnStatement::check_semantics has made sure that every return of the *)
(* function has the same type.                                             *)
add_return(v) ==
  /\ cur_bblock > 0 => ReturnTypeOf(v) = ReturnTypeOf(terminator.ret_reg)
  /\ cur_bblock + 1 < MaxBlocks
  /\ terminator' = IF cur_bblock = 0 THEN Return(v) ELSE terminator
  /\ cur_bblock' = cur_bblock + 1

-----------------------------------------------------------------------------
(* IntegerLiteralExpression::emit_ir and BooleanLiteralExpression::emit_ir *)
EmitLiteral(type) ==
  /\ Fits(1, Len(operands) + 1)
  /\ vregs' = Append(vregs, type)
  /\ add_instrs(<<LoadImm(VRegCount)>>)
  /\ operands' = Append(operands, VRegCount)
  /\ UNCHANGED <<const_cache, cur_bblock, terminator>>

(* BinaryExpression::emit_ir, after both operands have been emitted.       *)
EmitBinary(op) ==
  /\ Len(operands) >= 2
  /\ Fits(1, Len(operands) - 1)
  /\ BinaryAccepts(op, TypeOf(Second), TypeOf(Top))
  /\ vregs' = Append(vregs, BinaryType(op, TypeOf(Second)))
  /\ add_instrs(<<Instr(op, VRegCount, Second, Top)>>)
  /\ operands' = Append(Pop(2), VRegCount)
  /\ UNCHANGED <<const_cache, cur_bblock, terminator>>

(* UnaryExpression::emit_ir for negation and bitwise not.                  *)
EmitUnary(op) ==
  /\ Len(operands) >= 1
  /\ Fits(1, Len(operands))
  /\ UnaryAccepts(op, TypeOf(Top))
  /\ vregs' = Append(vregs, TypeOf(Top))
  /\ add_instrs(<<Instr(op, VRegCount, Top, NO_VREG)>>)
  /\ operands' = Append(Pop(1), VRegCount)
  /\ UNCHANGED <<const_cache, cur_bblock, terminator>>

(* UnaryExpression::emit_ir for logical not, an exclusive or with the      *)
(* constant 1.  IrWriter::get_const_vreg finds the constant in the cache.  *)
EmitNotCached ==
  /\ Len(operands) >= 1
  /\ Fits(1, Len(operands))
  /\ UnaryAccepts("LogicalNot", TypeOf(Top))
  /\ <<TypeOf(Top), 1>> \in DOMAIN const_cache
  /\ vregs' = Append(vregs, TypeOf(Top))
  /\ add_instrs(<<Instr("BitXor", VRegCount, Top,
                        const_cache[<<TypeOf(Top), 1>>])>>)
  /\ operands' = Append(Pop(1), VRegCount)
  /\ UNCHANGED <<const_cache, cur_bblock, terminator>>

(* The same with a miss: the destination is already reserved when the      *)
(* constant is loaded into a register of its own.                          *)
EmitNotUncached ==
  LET key == <<TypeOf(Top), 1>>
      one == VRegCount + 1
  IN  /\ Len(operands) >= 1
      /\ Fits(2, Len(operands))
      /\ UnaryAccepts("LogicalNot", TypeOf(Top))
      /\ key \notin DOMAIN const_cache
      /\ vregs' = vregs \o <<TypeOf(Top), TypeOf(Top)>>
      /\ const_cache' = [k \in DOMAIN const_cache \cup {key} |->
                           IF k = key THEN one ELSE const_cache[k]]
      /\ add_instrs(<<LoadImm(one), Instr("BitXor", VRegCount, Top, one)>>)
      /\ operands' = Append(Pop(1), VRegCount)
      /\ UNCHANGED <<cur_bblock, terminator>>

(* ReturnStatement::emit_ir and the implicit return of                     *)
(* FunctionDefinition::emit_ir.                                            *)
EmitReturn ==
  /\ Len(operands) = 1
  /\ add_return(Top)
  /\ operands' = <<>>
  /\ UNCHANGED <<vregs, const_cache, instructions>>

(* `return;' *)
EmitReturnVoid ==
  /\ operands = <<>>
  /\ add_return(NO_VREG)
  /\ UNCHANGED <<vregs, const_cache, instructions, operands>>

(* Mutant: the constants of the last function stay cached.                 *)
NewFunctionKeepingCache ==
  /\ vregs' = <<>>
  /\ cur_bblock' = 0
  /\ instructions' = <<>>
  /\ terminator' = Uninitialized
  /\ operands' = <<>>
  /\ UNCHANGED const_cache

(* IrWriter::new_function. *)
NewFunction ==
  /\ vregs' = <<>>
  /\ const_cache' = EmptyMap
  /\ cur_bblock' = 0
  /\ instructions' = <<>>
  /\ terminator' = Uninitialized
  /\ operands' = <<>>

IrInit ==
  /\ vregs = <<>>
  /\ const_cache = EmptyMap
  /\ cur_bblock = 0
  /\ instructions = <<>>
  /\ terminator = Uninitialized
  /\ operands = <<>>

EmitNext ==
  \/ \E type \in Types : EmitLiteral(type)
  \/ \E op \in BinOps : EmitBinary(op)
  \/ \E op \in {"Neg", "BitNot"} : EmitUnary(op)
  \/ EmitNotCached
  \/ EmitNotUncached
  \/ EmitReturn
  \/ EmitReturnVoid

-----------------------------------------------------------------------------
IsMap(f, A, B) == DOMAIN f \subseteq A /\ \A k \in DOMAIN f : f[k] \in B

(* The type invariant of the writer. *)
IrTypeOK ==
  /\ vregs \in Seq(IrType) /\ Len(vregs) <= MaxVRegs
  /\ IsMap(const_cache, IrType \X {1}, VRegId)
  /\ cur_bblock \in 0 .. MaxBlocks - 1
  /\ instructions \in Seq(Instruction)
  /\ terminator \in [kind : {"UNINITIALIZED", "RETURN"},
                     ret_reg : VRegId \cup {NO_VREG}]
  /\ operands \in Seq(VRegId)

(* The instruction I, placed after the first n instructions of code, uses  *)
(* the result of the last of them, and otherwise only earlier results.     *)
Follows(code, n, I) ==
  \/ I.opcode = "LoadImm" /\ I.op1 = NO_VREG /\ I.op2 = NO_VREG
  \/ /\ I.opcode \in {"Neg", "BitNot"}
     /\ n > 0 /\ I.op1 = code[n].dest /\ I.op2 = NO_VREG
  \/ /\ I.opcode \in BinaryOp
     /\ n > 0
     /\ \/ I.op1 = code[n].dest /\ \E j \in 1 .. n : I.op2 = code[j].dest
        \/ I.op2 = code[n].dest /\ \E j \in 1 .. n : I.op1 = code[j].dest

(* The IR of a function is in single-assignment form, defines every        *)
(* register before it uses it, constants from the cache included, and      *)
(* each instruction consumes the result of the one before it, the order    *)
(* the register allocator depends on.                                      *)
WellFormed ==
  /\ \A i, j \in 1 .. Len(instructions) :
        instructions[i].dest = instructions[j].dest => i = j
  /\ \A i \in 1 .. Len(instructions) : Follows(instructions, i - 1, instructions[i])

Dest(i) == instructions[i].dest

Emitted == {Dest(i) : i \in 1 .. Len(instructions)}

(* What the emission of the entry block keeps to: the last instruction is  *)
(* the one that computes the top of the operand stack.                     *)
IrOK ==
  /\ WellFormed
  /\ \A v \in Emitted : v < Len(vregs)
  /\ \A i \in 1 .. Len(operands) : operands[i] < Len(vregs)
  /\ cur_bblock = 0 =>
       /\ terminator = Uninitialized
       /\ operands = <<>> => instructions = <<>>
       /\ operands # <<>> => instructions # <<>> /\ Top = Dest(Len(instructions))
       /\ \A i \in 1 .. Len(operands) : operands[i] \in Emitted
       /\ \A k \in DOMAIN const_cache : const_cache[k] \in Emitted
  /\ cur_bblock # 0 =>
       /\ terminator.kind = "RETURN"
       /\ terminator.ret_reg = NO_VREG => instructions = <<>>
       /\ terminator.ret_reg # NO_VREG =>
            instructions # <<>> /\ terminator.ret_reg = Dest(Len(instructions))
=============================================================================
