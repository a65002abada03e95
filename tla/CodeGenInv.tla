----------------------------- MODULE CodeGenInv -----------------------------
(***************************************************************************)
(* The inductive invariant behind the safety of the register allocator.    *)
(*                                                                         *)
(* load_dest_vreg and load_src_vreg return pointers to slots that nothing  *)
(* pins: a later call for the same instruction may pick one of them as its *)
(* victim.  Two facts together exclude it.  First, of the operands of an   *)
(* instruction at most one is not the result of the instruction emitted    *)
(* just before (IrOK), so at most one call per instruction, or the scratch *)
(* register of a bitwise not, has to find a slot besides the destination.  *)
(* Second, the slot of the last result is never the next victim: it trails *)
(* the round-robin pointer by one or two slots (Filling, Full, Trailing).  *)
(***************************************************************************)
EXTENDS CodeGen

-----------------------------------------------------------------------------
(* The registers computed so far, and the one being computed.              *)
Defined == {Dest(i) : i \in 1 .. pos - 1}

Pending == phase = "lower" /\ stage # "dest"

Previous(s) == IF s = 0 THEN NumSlots - 1 ELSE s - 1

(* Only the first k slots have been used yet.                              *)
FillingAt(k) ==
  /\ \A s \in Slots : occupied[s] <=> s < k
  /\ \A s \in Slots : dirty[s] <=> s < k
  /\ k > 0 => dest_slot = k - 1
  /\ k = 0 => pos = 1 /\ stage = "dest"
  /\ next_to_spill = 0
  /\ DOMAIN spilled = {}

Filling == \E k \in 0 .. NumSlots - 1 : FillingAt(k)

(* All slots are used and dirty; the last result is one slot behind the    *)
(* round-robin pointer.                                                    *)
Full ==
  /\ \A s \in Slots : dirty[s]
  /\ dest_slot = Previous(next_to_spill)

(* All slots but one are dirty: the victim of the last call, which is one  *)
(* slot behind the pointer; the last result is two slots behind it.        *)
Trailing ==
  /\ \A s \in Slots : dirty[s] <=> s # Previous(next_to_spill)
  /\ dest_slot = Previous(Previous(next_to_spill))

Position == Filling \/ Full \/ Trailing

(* The value of v is in a register that belongs to it.                     *)
In(v, s) == occupied[s] /\ resident[s] = v /\ regs[s] = v

(* The next call of get_empty_slot cannot return the slot of v.            *)
SafeIn(v, s) == In(v, s) /\ (Filling \/ (Full /\ s # next_to_spill))

Stages ==
  /\ pos <= Len(instructions) + 1
  /\ stage # "dest" => pos <= Len(instructions)
  /\ stage # "dest" =>
       /\ occupied[dest_slot] /\ dirty[dest_slot]
       /\ resident[dest_slot] = instr.dest
       /\ instr.dest \notin DOMAIN spilled
       /\ instr.opcode # "LoadImm" => pos > 1
  /\ stage = "dest" /\ pos > 1 =>
       /\ In(Dest(pos - 1), dest_slot) /\ dirty[dest_slot]
       /\ Dest(pos - 1) \notin DOMAIN spilled
  /\ stage = "dest" => Position
  /\ stage = "op1" =>
       /\ instr.opcode # "LoadImm"
       /\ \E s \in Slots : SafeIn(Dest(pos - 1), s)
  /\ stage = "op2" =>
       /\ instr.opcode \in BinaryOp
       /\ In(instr.op1, op1_slot)
       /\ \/ /\ instr.op2 = Dest(pos - 1)
             /\ \E s \in Slots : In(instr.op2, s)
             /\ Position
          \/ SafeIn(instr.op1, op1_slot)
  /\ stage = "mask" => instr.opcode = "BitNot" /\ SafeIn(instr.op1, op1_slot)
  /\ stage = "exec" =>
       /\ Position
       /\ instr.op1 # NO_VREG => In(instr.op1, op1_slot)
       /\ instr.op2 # NO_VREG => In(instr.op2, op2_slot)

Lowered ==
  /\ \A s \in Slots : dirty[s] => occupied[s]
  /\ \A s \in Slots : occupied[s] =>
       \/ resident[s] \in Defined /\ regs[s] = resident[s]
       \/ Pending /\ s = dest_slot
  /\ \A s, t \in Slots :
       occupied[s] /\ occupied[t] /\ resident[s] = resident[t] => s = t
  /\ \A s \in Slots : occupied[s] /\ ~dirty[s] => resident[s] \in DOMAIN spilled
  /\ \A v \in Defined :
       v \in DOMAIN spilled \/ \E s \in Slots : occupied[s] /\ resident[s] = v

(* The spill area: offsets are distinct, in order, and each word of it     *)
(* holds the value of its register.                                        *)
SpillArea ==
  /\ IsFiniteSet(DOMAIN spilled)
  /\ DOMAIN spilled \subseteq VRegId
  /\ \A v \in DOMAIN spilled :
       \E k \in 0 .. Cardinality(DOMAIN spilled) - 1 : spilled[v] = -4 * (k + 4)
  /\ \A v, w \in DOMAIN spilled : spilled[v] = spilled[w] => v = w

SpillsLoaded ==
  /\ DOMAIN spilled \subseteq Defined
  /\ \A v \in DOMAIN spilled : spilled[v] \in DOMAIN mem /\ mem[spilled[v]] = v
  /\ \A o \in DOMAIN mem : \E v \in DOMAIN spilled : o = spilled[v]

(* The words stored to, n of the slots given out.                          *)
StoresAbove(n) == \A o \in DOMAIN mem : -4 * (n + 3) <= o /\ o <= -16

(* The value returned is in a register that has no spill slot yet, so the  *)
(* final spilling adds at least one slot.                                  *)
FlushOK ==
  /\ phase = "flush" =>
       \/ /\ StoresAbove(Cardinality(DOMAIN spilled))
          /\ flush_slot <= dest_slot /\ dirty[dest_slot]
          /\ resident[dest_slot] \notin DOMAIN spilled
       \/ StoresAbove(Cardinality(DOMAIN spilled) - 1)
  /\ phase = "flush" => \A s \in Slots : dirty[s] => resident[s] \in VRegId
  /\ phase = "lower" => result = Junk
  /\ phase = "flush" => result = terminator.ret_reg
  /\ phase \in {"lower", "flush"} => stack_size = 8
  /\ phase = "done" =>
       /\ result = terminator.ret_reg
       /\ stack_size = 8 + 4 * Cardinality(DOMAIN spilled)
       /\ StoresAbove(Cardinality(DOMAIN spilled) - 1)

IInv ==
  /\ TypeOK
  /\ IrOK
  /\ phase # "emit" => operands = <<>>
  /\ phase = "lower" => Stages /\ Lowered /\ SpillsLoaded
  /\ SpillArea
  /\ FlushOK
=============================================================================
