----------------------------- MODULE IrMachine -----------------------------
(***************************************************************************)
(* What compiled code promises: it behaves like an interpreter of the IR   *)
(* with as many registers as it likes.  The instructions of the entry      *)
(* block run in order, each one when the values of its operands are at     *)
(* hand; a value that was computed is never lost; the function returns the *)
(* value its terminator names.                                             *)
(***************************************************************************)
EXTENDS Integers, Sequences

VARIABLES
  status,   \* "idle", "running", "returned" or "aborted"
  code,     \* the instructions of the function
  ret,      \* its terminator
  pc,       \* index of the next instruction
  values,   \* the virtual registers whose value is at hand
  result    \* what was returned, NoValue if nothing was

machineState == <<status, code, ret, pc, values, result>>

NoValue == -1

Reads(i) == {code[i].op1, code[i].op2} \ {NoValue}

Idle == status = "idle" /\ values = {} /\ result = NoValue

(* The compiler writes the next function.                                  *)
Edit ==
  /\ status \in {"idle", "returned"}
  /\ status' = "idle"
  /\ UNCHANGED <<pc, values, result>>

Call ==
  /\ status = "idle"
  /\ status' = "running"
  /\ pc' = 1
  /\ values' = {}
  /\ result' = NoValue
  /\ UNCHANGED <<code, ret>>

Step ==
  /\ status = "running"
  /\ pc <= Len(code)
  /\ Reads(pc) \subseteq values
  /\ values' = values \cup {code[pc].dest}
  /\ pc' = pc + 1
  /\ UNCHANGED <<status, code, ret, result>>

Return ==
  /\ status = "running"
  /\ pc = Len(code) + 1
  /\ ret.ret_reg \in values \cup {NoValue}
  /\ result' = ret.ret_reg
  /\ status' = "returned"
  /\ UNCHANGED <<code, ret, pc, values>>

(* Only a function without a return statement may fail to compile.         *)
Abort ==
  /\ status = "running"
  /\ code = <<>>
  /\ ret.kind = "UNINITIALIZED"
  /\ status' = "aborted"
  /\ UNCHANGED <<code, ret, pc, values, result>>

MachineNext == Edit \/ Call \/ Step \/ Return \/ Abort

MachineSpec == Idle /\ [][MachineNext]_machineState
=============================================================================
