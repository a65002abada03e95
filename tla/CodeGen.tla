------------------------------ MODULE CodeGen ------------------------------
(***************************************************************************)
(* The RV32 code generator: lower_function and its register allocator,     *)
(* together with a symbolic execution of the code it emits.                *)
(*                                                                         *)
(* The allocator keeps NumSlots physical registers (15 in the code), the   *)
(* map of spilled virtual registers to frame offsets and a round-robin     *)
(* spill pointer.  Each action is one call that lower_function makes       *)
(* (load_dest_vreg, load_src_vreg, get_empty_slot for a scratch register), *)
(* with everything that call does, or the machine instruction that ends    *)
(* the lowering of an IR instruction.                                      *)
(*                                                                         *)
(* The emitted code is executed as it is emitted: `regs' is what each      *)
(* physical register holds at that point of the program and `mem' what     *)
(* each word of the frame holds, by offset from fp.  A value is named by   *)
(* the virtual register it is the value of.  The allocator never reads     *)
(* regs or mem; they only serve to say what the code computes.             *)
(***************************************************************************)
EXTENDS IrWriter, FiniteSets

CONSTANTS
  NumSlots,      \* registers.size()
  MaxFunctions   \* bound: functions compiled one after the other

ASSUME NumSlotsAssumption == NumSlots \in Nat /\ NumSlots >= 3
ASSUME MaxFunctionsAssumption == MaxFunctions \in Nat \ {0}

(* Frame offsets have to fit the 12 bit immediate of a load or a store.    *)
ASSUME FrameAssumption == 4 * (MaxVRegs + 4) <= 2048

VARIABLES
  phase,          \* "emit", "lower", "flush", "done" or "threw"
  fn_count,       \* functions compiled so far, this one included
  (* CodeGenerator_riscv32 *)
  resident,       \* RegSlot::resident, per slot
  occupied,       \* RegSlot::occupied, per slot
  dirty,          \* RegSlot::dirty, per slot
  spilled,        \* spilled_vreg_fp_offsets
  next_to_spill,  \* next_to_spill
  stack_size,     \* stack_size
  (* locals of lower_function *)
  pos,            \* index of the instruction being lowered
  stage,          \* the call lower_function makes next
  dest_slot,      \* slots the calls for this instruction returned
  op1_slot,
  op2_slot,
  flush_slot,     \* loop index of the final spilling of dirty slots
  (* the machine that runs the emitted code *)
  regs,           \* contents of the physical registers
  mem,            \* contents of the words of the frame that were stored to
  result          \* the value in a0 when the epilogue is reached

allocVars == <<resident, occupied, dirty, spilled, next_to_spill>>
slotVars == <<dest_slot, op1_slot, op2_slot, flush_slot>>
machineVars == <<regs, mem, result>>
genVars == <<phase, fn_count, resident, occupied, dirty, spilled,
             next_to_spill, stack_size, pos, stage, dest_slot, op1_slot,
             op2_slot, flush_slot, regs, mem, result>>
vars == <<vregs, const_cache, cur_bblock, instructions, terminator, operands,
          phase, fn_count, resident, occupied, dirty, spilled,
          next_to_spill, stack_size, pos, stage, dest_slot, op1_slot,
          op2_slot, flush_slot, regs, mem, result>>

Slots == 0 .. NumSlots - 1

(* What a register or a word holds that is the value of no virtual         *)
(* register: an address, a mask, or whatever was there before.             *)
Junk == NO_VREG

Put(map, key, value) ==
  [k \in DOMAIN map \cup {key} |-> IF k = key THEN value ELSE map[k]]

-----------------------------------------------------------------------------
(* The offset that is left of a frame offset once it is encoded in the     *)
(* 12 bit immediate of lb, lbu, lh, lhu, lw, sb, sh or sw.                 *)
Encoded(offset) == ((offset + 2048) % 4096) - 2048

(* spill_slot: an offset is given out at the first spill and kept.         *)
SpillOffset(v) ==
  IF v \in DOMAIN spilled
  THEN spilled[v]
  ELSE -4 * (Cardinality(DOMAIN spilled) + 4)

(* The store is emitted in every case; whether it is ever executed is up   *)
(* to where the call is made.                                              *)
spill_slot(s, executed) ==
  LET v == resident[s] IN
  /\ spilled' = Put(spilled, v, SpillOffset(v))
  /\ mem' = IF executed THEN Put(mem, Encoded(SpillOffset(v)), regs[s]) ELSE mem

Unoccupied == {s \in Slots : ~occupied[s]}

Clean == {s \in Slots : ~dirty[s]}

MustSpill == Unoccupied = {} /\ Clean = {}

IsFirst(s, S) == s \in S /\ \A t \in S : s <= t

(* Mutants: the pointer stays where it is, the pointer runs off the end.   *)
NextVictimNotAdvanced == next_to_spill

NextVictimNotWrapped == next_to_spill + 1

(* The round-robin pointer after the slot it points at was taken.          *)
NextVictim == (next_to_spill + 1) % NumSlots

(* get_empty_slot returns s: a free slot, else a clean one, else the next  *)
(* victim.  The callers set occupied and dirty.                            *)
get_empty_slot(s) ==
  \/ /\ IsFirst(s, Unoccupied)
     /\ UNCHANGED <<spilled, mem, next_to_spill>>
  \/ /\ Unoccupied = {}
     /\ IsFirst(s, Clean)
     /\ UNCHANGED <<spilled, mem, next_to_spill>>
  \/ /\ MustSpill
     /\ s = next_to_spill
     /\ next_to_spill' = NextVictim
     /\ spill_slot(s, TRUE)

(* Mutant: the flag is not reset by a spill.                               *)
StaysDirty(s) == dirty

(* RegSlot::dirty after get_empty_slot has returned s. *)
CleanedBy(s) == IF MustSpill THEN [dirty EXCEPT ![s] = FALSE] ELSE dirty

(* Mutant: the destination is not marked dirty.                            *)
load_dest_vreg_clean(v, s) ==
  /\ get_empty_slot(s)
  /\ resident' = [resident EXCEPT ![s] = v]
  /\ occupied' = [occupied EXCEPT ![s] = TRUE]
  /\ dirty' = CleanedBy(s)
  /\ UNCHANGED regs

(* load_dest_vreg returns s. *)
load_dest_vreg(v, s) ==
  /\ get_empty_slot(s)
  /\ resident' = [resident EXCEPT ![s] = v]
  /\ occupied' = [occupied EXCEPT ![s] = TRUE]
  /\ dirty' = [dirty EXCEPT ![s] = TRUE]
  /\ UNCHANGED regs

Holding(v) == {s \in Slots : occupied[s] /\ resident[s] = v}

(* The map is read with operator[], which would invent offset 0 for a      *)
(* register that was never spilled.                                        *)
FrameOffset(v) == IF v \in DOMAIN spilled THEN spilled[v] ELSE 0

Loaded(offset) == IF offset \in DOMAIN mem THEN mem[offset] ELSE Junk

(* load_src_vreg returns s: a register that holds v already, or an empty   *)
(* one and a load from the frame.                                          *)
load_src_vreg(v, s) ==
  \/ /\ IsFirst(s, Holding(v))
     /\ UNCHANGED <<allocVars, regs, mem>>
  \/ /\ Holding(v) = {}
     /\ get_empty_slot(s)
     /\ regs' = [regs EXCEPT ![s] = Loaded(Encoded(FrameOffset(v)))]
     /\ resident' = [resident EXCEPT ![s] = v]
     /\ occupied' = [occupied EXCEPT ![s] = TRUE]
     /\ dirty' = CleanedBy(s)

-----------------------------------------------------------------------------
instr == instructions[pos]

Lowering(st) == phase = "lower" /\ pos <= Len(instructions) /\ stage = st

(* Every case of lower_function's switch first reserves the destination.   *)
LoadDest ==
  /\ Lowering("dest")
  /\ \E s \in Slots : load_dest_vreg(instr.dest, s) /\ dest_slot' = s
  /\ stage' = IF instr.opcode = "LoadImm" THEN "exec" ELSE "op1"
  /\ UNCHANGED <<irVars, phase, fn_count, stack_size, pos, op1_slot, op2_slot,
                 flush_slot, result>>

LoadOp1 ==
  /\ Lowering("op1")
  /\ \E s \in Slots : load_src_vreg(instr.op1, s) /\ op1_slot' = s
  /\ stage' = CASE instr.opcode = "BitNot" -> "mask"
                [] instr.opcode = "Neg"    -> "exec"
                [] OTHER                   -> "op2"
  /\ UNCHANGED <<irVars, phase, fn_count, stack_size, pos, dest_slot, op2_slot,
                 flush_slot, result>>

LoadOp2 ==
  /\ Lowering("op2")
  /\ \E s \in Slots : load_src_vreg(instr.op2, s) /\ op2_slot' = s
  /\ stage' = "exec"
  /\ UNCHANGED <<irVars, phase, fn_count, stack_size, pos, dest_slot, op1_slot,
                 flush_slot, result>>

(* The flip mask of a bitwise not fits xori for one byte (0xFF) and, with  *)
(* the sign extension compensated, for four (0xFFFFFFFF + 0x1000 wraps to  *)
(* 0xFFF); for two bytes it goes through a scratch register, which         *)
(* get_empty_slot hands out and nothing marks as occupied.                 *)
MaskNeedsScratch == get_size(TypeOf(resident[op1_slot])) = 2

FlipMask ==
  /\ Lowering("mask")
  /\ IF MaskNeedsScratch
     THEN \E s \in Slots :
            /\ get_empty_slot(s)
            /\ occupied' = [occupied EXCEPT ![s] = FALSE]
            /\ dirty' = CleanedBy(s)
            /\ regs' = [regs EXCEPT ![s] = Junk]
            /\ UNCHANGED resident
     ELSE UNCHANGED <<allocVars, regs, mem>>
  /\ stage' = "exec"
  /\ UNCHANGED <<irVars, phase, fn_count, stack_size, pos, slotVars, result>>

(* The registers that the emitted instruction reads hold the values of the *)
(* operands (truncate_reg, where it is emitted first, changes the upper    *)
(* bits of the register only).                                             *)
ReadsOperands ==
  /\ instr.op1 # NO_VREG => regs[op1_slot] = instr.op1
  /\ instr.op2 # NO_VREG => regs[op2_slot] = instr.op2

(* The machine instruction itself, into the register of the destination.   *)
Exec ==
  /\ Lowering("exec")
  /\ regs' = [regs EXCEPT ![dest_slot] = IF ReadsOperands THEN instr.dest ELSE Junk]
  /\ pos' = pos + 1
  /\ stage' = "dest"
  /\ UNCHANGED <<irVars, phase, fn_count, allocVars, stack_size, slotVars, mem, result>>

-----------------------------------------------------------------------------
AtTerminator == phase = "lower" /\ pos = Len(instructions) + 1 /\ stage = "dest"

(* RETURN with a value: load_src_vreg, the move to a0, the jump to the     *)
(* epilogue.                                                               *)
LowerReturn ==
  /\ AtTerminator
  /\ terminator.kind = "RETURN"
  /\ terminator.ret_reg # NO_VREG
  /\ \E s \in Slots : load_src_vreg(terminator.ret_reg, s) /\ result' = regs'[s]
  /\ phase' = "flush"
  /\ flush_slot' = 0
  /\ UNCHANGED <<irVars, fn_count, stack_size, pos, stage, dest_slot, op1_slot,
                 op2_slot>>

LowerReturnVoid ==
  /\ AtTerminator
  /\ terminator.kind = "RETURN"
  /\ terminator.ret_reg = NO_VREG
  /\ phase' = "flush"
  /\ flush_slot' = 0
  /\ UNCHANGED <<irVars, fn_count, allocVars, stack_size, pos, stage, dest_slot,
                 op1_slot, op2_slot, machineVars>>

(* A terminator nobody set: its kind is read uninitialised, so it may look *)
(* like a RETURN (of no value: ret_reg is empty) ...                       *)
LowerUninitializedAsReturn ==
  /\ AtTerminator
  /\ terminator.kind = "UNINITIALIZED"
  /\ phase' = "flush"
  /\ flush_slot' = 0
  /\ UNCHANGED <<irVars, fn_count, allocVars, stack_size, pos, stage, dest_slot,
                 op1_slot, op2_slot, machineVars>>

(* ... or like anything else, which is an `unimplemented' compiler error.  *)
LowerUninitializedAsOther ==
  /\ AtTerminator
  /\ terminator.kind = "UNINITIALIZED"
  /\ phase' = "threw"
  /\ UNCHANGED <<irVars, fn_count, allocVars, stack_size, pos, stage, slotVars,
                 machineVars>>

(* The loop that spills the dirty registers at the end of the block.  Its  *)
(* stores follow the jump to the epilogue, so they are never executed.     *)
FlushSlot ==
  /\ phase = "flush"
  /\ flush_slot < NumSlots
  /\ IF dirty[flush_slot]
     THEN /\ spill_slot(flush_slot, FALSE)
          /\ dirty' = [dirty EXCEPT ![flush_slot] = FALSE]
     ELSE UNCHANGED <<spilled, mem, dirty>>
  /\ flush_slot' = flush_slot + 1
  /\ UNCHANGED <<irVars, phase, fn_count, resident, occupied, next_to_spill,
                 stack_size, pos, stage, dest_slot, op1_slot, op2_slot, regs, result>>

(* Mutant: slots counted as bytes.                                         *)
SpillAreaSizeInSlots == Cardinality(DOMAIN spilled)

SpillAreaSize == 4 * Cardinality(DOMAIN spilled)

(* The frame size goes into the prologue, and the function is finished.    *)
BuildPrologue ==
  /\ phase = "flush"
  /\ flush_slot = NumSlots
  /\ stack_size' = stack_size + SpillAreaSize
  /\ phase' = "done"
  /\ UNCHANGED <<irVars, fn_count, allocVars, pos, stage, slotVars, machineVars>>

PaddedStackSize == ((stack_size + 15) \div 16) * 16

-----------------------------------------------------------------------------
(* Mutant: the slots of the last function stay occupied.                   *)
ClearDirtyOnly ==
  /\ dirty' = [s \in Slots |-> FALSE]
  /\ UNCHANGED occupied

(* The registers are emptied at the start of a block.                      *)
ClearSlots ==
  /\ occupied' = [s \in Slots |-> FALSE]
  /\ dirty' = [s \in Slots |-> FALSE]

(* The head of lower_function: the state is reset, the registers are       *)
(* emptied at the start of the block.  The machine may be in any state     *)
(* when the function is called.                                            *)
BeginLowering ==
  /\ phase = "emit"
  /\ operands = <<>>
  /\ phase' = "lower"
  /\ stack_size' = 8
  /\ next_to_spill' = 0
  /\ spilled' = EmptyMap
  /\ ClearSlots
  /\ pos' = 1
  /\ stage' = "dest"
  /\ regs' = [s \in Slots |-> Junk]
  /\ mem' = EmptyMap
  /\ result' = Junk
  /\ UNCHANGED <<irVars, fn_count, resident, slotVars>>

(* AST::emit_ir and lower_ir go on to the next function with the same      *)
(* writer and the same code generator.  (All functions are emitted before  *)
(* the first one is lowered; the writer and the code generator share no    *)
(* state but the finished functions, so the order between them is          *)
(* immaterial.)                                                            *)
NextFunction ==
  /\ phase = "done"
  /\ fn_count < MaxFunctions
  /\ fn_count' = fn_count + 1
  /\ NewFunction
  /\ phase' = "emit"
  /\ UNCHANGED <<allocVars, stack_size, pos, stage, slotVars, machineVars>>

Emit == phase = "emit" /\ EmitNext /\ UNCHANGED genVars

Lower ==
  \/ LoadDest \/ LoadOp1 \/ LoadOp2 \/ FlipMask \/ Exec
  \/ LowerReturn \/ LowerReturnVoid
  \/ LowerUninitializedAsReturn \/ LowerUninitializedAsOther
  \/ FlushSlot \/ BuildPrologue

(* The compiler has stopped, with or without an error, or the program went *)
(* over the bounds in the middle of an expression.                         *)
Terminated == phase \in {"done", "threw", "emit"} /\ UNCHANGED vars

(* RegSlot's constructor leaves resident uninitialised; it is only read    *)
(* when occupied or dirty is set, so any value will do.                    *)
Init ==
  /\ IrInit
  /\ phase = "emit"
  /\ fn_count = 1
  /\ resident = [s \in Slots |-> 0]
  /\ occupied = [s \in Slots |-> FALSE]
  /\ dirty = [s \in Slots |-> FALSE]
  /\ spilled = EmptyMap
  /\ next_to_spill = 0
  /\ stack_size = 8
  /\ pos = 1
  /\ stage = "dest"
  /\ dest_slot = 0
  /\ op1_slot = 0
  /\ op2_slot = 0
  /\ flush_slot = 0
  /\ regs = [s \in Slots |-> Junk]
  /\ mem = EmptyMap
  /\ result = Junk

Next == Emit \/ BeginLowering \/ Lower \/ NextFunction \/ Terminated

Spec == Init /\ [][Next]_vars

-----------------------------------------------------------------------------
(* Properties.                                                             *)

TypeOK ==
  /\ IrTypeOK
  /\ phase \in {"emit", "lower", "flush", "done", "threw"}
  /\ fn_count \in 1 .. MaxFunctions
  /\ resident \in [Slots -> Nat]
  /\ occupied \in [Slots -> BOOLEAN]
  /\ dirty \in [Slots -> BOOLEAN]
  /\ IsMap(spilled, Nat, Int)
  /\ next_to_spill \in Slots
  /\ stack_size \in Nat
  /\ pos \in Nat \ {0}
  /\ stage \in {"dest", "op1", "op2", "mask", "exec"}
  /\ dest_slot \in Slots /\ op1_slot \in Slots /\ op2_slot \in Slots
  /\ flush_slot \in 0 .. NumSlots
  /\ regs \in [Slots -> Nat \cup {Junk}]
  /\ IsMap(mem, Int, Nat \cup {Junk})
  /\ result \in Nat \cup {Junk}

(* When the machine instruction of an IR instruction is emitted, every     *)
(* register it reads still holds its operand and the register it writes    *)
(* still belongs to its destination: none of the calls made in between     *)
(* (load_src_vreg may evict or spill any slot) took one of them away.      *)
OperandsLoaded ==
  Lowering("exec") =>
    /\ ReadsOperands
    /\ instr.op1 # NO_VREG => resident[op1_slot] = instr.op1
    /\ instr.op2 # NO_VREG => resident[op2_slot] = instr.op2
    /\ occupied[dest_slot] /\ dirty[dest_slot] /\ resident[dest_slot] = instr.dest

(* The function returns the value of the register named by the return.     *)
ReturnsResult ==
  phase \in {"flush", "done"} => result = terminator.ret_reg

(* Every word the emitted code stores to lies inside the frame that the    *)
(* prologue allocates and below the saved fp and ra, and no two virtual    *)
(* registers share a word.                                                 *)
StoresInFrame ==
  phase = "done" =>
    /\ \A offset \in DOMAIN mem : -PaddedStackSize <= offset /\ offset + 4 <= -8
    /\ \A v, w \in DOMAIN spilled : v # w => spilled[v] # spilled[w]

(* A block whose terminator was never set is not visited.                  *)
VisitsOnlyTerminated == AtTerminator => terminator.kind # "UNINITIALIZED"

(* The values that the emitted code has at hand, in a register or in the   *)
(* frame, seen as the state of an interpreter of the IR.                   *)
Machine == INSTANCE IrMachine WITH
  status <- CASE phase = "emit" -> "idle" [] phase = "lower" -> "running"
              [] phase = "threw" -> "aborted" [] OTHER -> "returned",
  code <- instructions,
  ret <- terminator,
  pc <- pos,
  values <- ({regs[s] : s \in Slots} \cup {mem[o] : o \in DOMAIN mem}) \ {Junk}

(* The emitted code does what the IR says: no step of the allocator loses  *)
(* a value that was computed, no instruction runs without its operands.    *)
ImplementsIr == Machine!MachineSpec
=============================================================================
