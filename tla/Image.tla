------------------------------- MODULE Image -------------------------------
(***************************************************************************)
(* From machine code to a running program: the frame that each function    *)
(* sets up and takes down, the jump to its epilogue, the order of the      *)
(* functions, the runtime that calls main, the ELF file, and the processor *)
(* that runs it.                                                           *)
(*                                                                         *)
(* An instruction of a function body is "plain" unless it sets a0 or jumps;*)
(* code and file are partial maps from offsets to the other instructions.  *)
(* Addresses stay far below 2^31, so they are not reduced modulo a word;   *)
(* immediates are, to the bits the encodings have.                         *)
(***************************************************************************)
EXTENDS Integers, FiniteSets, SequencesExt

CONSTANTS
  Functions,    \* the functions that a program may have
  main,         \* the name main
  BodySizes,    \* instructions of a body, up to the return
  FlushSizes,   \* stores of the final spilling, at most one for each slot
  FrameSizes    \* padded_stack_size

ASSUME FunctionsAssumption == IsFiniteSet(Functions)
ASSUME SizesAssumption ==
  /\ BodySizes \subseteq Nat /\ FlushSizes \subseteq 0 .. 15
  /\ FrameSizes \subseteq {16 * n : n \in 1 .. 127}

VARIABLES
  phase,        \* "lowering", "linked", "rejected", "running", "exited" or "crashed"
  todo,         \* functions of the IR that are not lowered yet
  functions,    \* Object::functions, name to code_offset
  code,         \* Object::code, the instructions that are not plain
  code_size,    \* its size in bytes
  file,         \* the ELF file
  pc, regs, mem,
  result        \* the function whose value is in a0, if any

compileVars == <<todo, functions, code, code_size>>
cpuVars == <<pc, regs, mem, result>>
vars == <<phase, todo, functions, code, code_size, file, pc, regs, mem, result>>

Nothing == "nothing"

-----------------------------------------------------------------------------
(* The encodings. *)

(* A number cut to the bits that hold one from -half to half - 1.          *)
SignExtend(n, half) == ((n + half) % (2 * half)) - half

(* encode_i_type and encode_s_type *)
Imm12(n) == SignExtend(n, 2048)

(* encode_u_type *)
Upper20(n) == n - (n % 4096)

(* encode_j_type: the lowest bit is not encoded. *)
Jump21(n) == SignExtend(n - (n % 2), 1048576)

addi(rd, rs, imm) == [op |-> "addi", rd |-> rd, rs |-> rs, imm |-> Imm12(imm)]

sw(base, src, imm) == [op |-> "sw", rd |-> src, rs |-> base, imm |-> Imm12(imm)]

lw(rd, base, imm) == [op |-> "lw", rd |-> rd, rs |-> base, imm |-> Imm12(imm)]

jal(imm) == [op |-> "jal", imm |-> Jump21(imm)]

jalr(rd, base, imm) == [op |-> "jalr", rd |-> rd, rs |-> base, imm |-> Imm12(imm)]

auipc(rd, imm) == [op |-> "auipc", rd |-> rd, imm |-> Upper20(imm)]

(* addi a0, slot, 0 *)
set_a0(f) == [op |-> "result", rd |-> f]

ecall == [op |-> "ecall"]

(* The instructions of a list, from an offset on. *)
At(offset, list) ==
  [a \in {offset + 4 * (i - 1) : i \in DOMAIN list} |-> list[((a - offset) \div 4) + 1]]

Merged(f, g) == [a \in DOMAIN f \cup DOMAIN g |-> IF a \in DOMAIN g THEN g[a] ELSE f[a]]

Shifted(f, by) == [a \in {b + by : b \in DOMAIN f} |-> f[a - by]]

-----------------------------------------------------------------------------
(* Mutant: the two words of the frame are swapped.                         *)
PrologueSwapped(frame) ==
  << addi("sp", "sp", -frame),
     sw("sp", "ra", frame - 8),
     sw("sp", "fp", frame - 4),
     addi("fp", "sp", frame) >>

Prologue(frame) ==
  << addi("sp", "sp", -frame),
     sw("sp", "ra", frame - 4),
     sw("sp", "fp", frame - 8),
     addi("fp", "sp", frame) >>

Epilogue ==
  << addi("sp", "fp", 0),
     lw("fp", "sp", -8),
     lw("ra", "sp", -4),
     jalr("zero", "ra", 0) >>

Nops == 6

(* Mutant: the end is counted with one instruction more.                   *)
JumpToEpilogueOffByOne(body, flush) == 4 * ((body + 1 + 1 + flush + Nops + 1) - (body + 1))

(* Mutant: the offset of the jump stays as it was first written.           *)
JumpNotBackpatched(body, flush) == 0

(* The backpatched offset: from the jump, the last but flush and Nops of   *)
(* the body, to the end of the body.                                       *)
JumpToEpilogue(body, flush) == 4 * ((body + 1 + 1 + flush + Nops) - (body + 1))

(* lower_function for f: `body' plain instructions, the move to a0, the    *)
(* jump to the epilogue, the stores of the final spilling, six nops.       *)
lower_function(f, body, flush, frame) ==
  LET start == code_size
      move == start + 4 * (Len(Prologue(frame)) + body)
      epilogue == move + 4 * (2 + flush + Nops)
  IN /\ functions' = Merged(functions, [g \in {f} |-> start])
     /\ code' = Merged(Merged(code, At(start, Prologue(frame))),
                  Merged(At(move, <<set_a0(f), jal(JumpToEpilogue(body, flush))>>),
                         At(epilogue, Epilogue)))
     /\ code_size' = epilogue + 4 * Len(Epilogue)

(* lower_ir takes the functions in the order of an unordered map.          *)
LowerFunction(f) ==
  /\ phase = "lowering"
  /\ f \in todo
  /\ \E body \in BodySizes, flush \in FlushSizes, frame \in FrameSizes :
        lower_function(f, body, flush, frame)
  /\ todo' = todo \ {f}
  /\ UNCHANGED <<phase, file, cpuVars>>

(* build_runtime_code: main moves by the four instructions of the runtime. *)
RuntimeCode(main_offset) ==
  LET shifted_main_offset == main_offset + 16
  IN << auipc("ra", shifted_main_offset), jalr("ra", "ra", shifted_main_offset),
        addi("a7", "zero", 93), ecall >>

(* Mutant: the size is the one before the runtime was inserted.            *)
LinkUncounted ==
  /\ phase = "lowering" /\ todo = {}
  /\ main \in DOMAIN functions
  /\ code' = Merged(Shifted(code, 16), At(0, RuntimeCode(functions[main])))
  /\ phase' = "linked"
  /\ UNCHANGED <<todo, functions, code_size, file, cpuVars>>

(* compile: the runtime goes before the code.                              *)
Link ==
  /\ phase = "lowering" /\ todo = {}
  /\ main \in DOMAIN functions
  /\ code' = Merged(Shifted(code, 16), At(0, RuntimeCode(functions[main])))
  /\ code_size' = code_size + 16
  /\ phase' = "linked"
  /\ UNCHANGED <<todo, functions, file, cpuVars>>

(* compile: a program without a main is an error.                          *)
MissingMain ==
  /\ phase = "lowering" /\ todo = {}
  /\ main \notin DOMAIN functions
  /\ phase' = "rejected"
  /\ UNCHANGED <<compileVars, file, cpuVars>>

-----------------------------------------------------------------------------
(* ObjectWriter_ELF32::emit                                                *)
HeaderSize == 52

ProgramHeaderSize == 32

Alignment == 4096

AlignedUp(n) == ((n + Alignment - 1) \div Alignment) * Alignment

VaddrStart == 65536

WriteExecutable ==
  LET headers == HeaderSize + ProgramHeaderSize
      p_offset == AlignedUp(headers)
      padding == p_offset - headers
  IN /\ phase = "linked"
     /\ file' = [entry |-> VaddrStart, p_offset |-> p_offset, p_vaddr |-> VaddrStart,
                 p_filesz |-> code_size, content |-> Shifted(code, headers + padding)]
     /\ phase' = "running"
     /\ pc' = file'.entry
     /\ UNCHANGED <<compileVars, regs, mem, result>>

(* The loader maps the segment; an address of it is a position of the file.*)
Mapped(address) ==
  address >= file.p_vaddr /\ address < file.p_vaddr + file.p_filesz

PositionOf(address) == address - file.p_vaddr + file.p_offset

Fetched ==
  IF PositionOf(pc) \in DOMAIN file.content
  THEN file.content[PositionOf(pc)]
  ELSE [op |-> "plain"]

(* A run of plain instructions, up to the next that is not.                *)
NextSpecial ==
  LET later == {p \in DOMAIN file.content : p > PositionOf(pc)}
  IN IF later = {} THEN PositionOf(pc) + 4
     ELSE CHOOSE p \in later : \A q \in later : p <= q

Reg(r) == IF r = "zero" THEN 0 ELSE regs[r]

SetReg(r, value) == IF r = "zero" THEN regs ELSE [regs EXCEPT ![r] = value]

CanRun == phase = "running" /\ Mapped(pc) /\ pc % 4 = 0

Execute(op) ==
  /\ CanRun
  /\ Fetched.op = op
  /\ op \notin {"jal", "jalr", "plain"} => pc' = pc + 4
  /\ op # "result" => UNCHANGED result
  /\ op # "sw" => UNCHANGED mem
  /\ op \in {"sw", "jal", "result", "plain"} => UNCHANGED regs
  /\ UNCHANGED <<phase, compileVars, file>>

Plain == Execute("plain") /\ pc' = NextSpecial - file.p_offset + file.p_vaddr

Addi == Execute("addi") /\ regs' = SetReg(Fetched.rd, Reg(Fetched.rs) + Fetched.imm)

Store ==
  /\ Execute("sw")
  /\ mem' = Merged(mem, [a \in {Reg(Fetched.rs) + Fetched.imm} |-> Reg(Fetched.rd)])

LoadWord ==
  /\ Execute("lw")
  /\ Reg(Fetched.rs) + Fetched.imm \in DOMAIN mem
  /\ regs' = SetReg(Fetched.rd, mem[Reg(Fetched.rs) + Fetched.imm])

Jal == Execute("jal") /\ pc' = pc + Fetched.imm

Jalr ==
  /\ Execute("jalr")
  /\ regs' = SetReg(Fetched.rd, pc + 4)
  /\ pc' = Reg(Fetched.rs) + Fetched.imm

Auipc == Execute("auipc") /\ regs' = SetReg(Fetched.rd, pc + Fetched.imm)

SetResult == Execute("result") /\ result' = Fetched.rd

Exit ==
  /\ CanRun
  /\ Fetched.op = "ecall" /\ regs["a7"] = 93
  /\ phase' = "exited"
  /\ UNCHANGED <<compileVars, file, cpuVars>>

(* No instruction there, or a word from below the stack.                   *)
Crash ==
  /\ phase = "running"
  /\ \/ ~CanRun
     \/ CanRun /\ Fetched.op = "lw" /\ Reg(Fetched.rs) + Fetched.imm \notin DOMAIN mem
  /\ phase' = "crashed"
  /\ UNCHANGED <<compileVars, file, cpuVars>>

Ended == phase \in {"rejected", "exited", "crashed"}

Stopped == Ended /\ UNCHANGED vars

(* The kernel enters with an aligned stack and no frame.                   *)
StackTop == 1000000

Init ==
  /\ phase = "lowering"
  /\ todo \in SUBSET Functions
  /\ functions = [f \in {} |-> 0]
  /\ code = [a \in {} |-> ecall]
  /\ code_size = 0
  /\ file = [entry |-> 0, p_offset |-> 0, p_vaddr |-> 0, p_filesz |-> 0,
             content |-> code]
  /\ pc = 0
  /\ regs = [r \in {"ra", "sp", "fp", "a7"} |-> IF r = "sp" THEN StackTop ELSE 0]
  /\ mem = [a \in {} |-> 0]
  /\ result = Nothing

Compile == (\E f \in Functions : LowerFunction(f)) \/ Link \/ MissingMain \/ WriteExecutable

Run ==
  \/ Plain \/ Addi \/ Store \/ LoadWord \/ Jal \/ Jalr \/ Auipc \/ SetResult
  \/ Exit \/ Crash

Next == Compile \/ Run \/ Stopped

(* The compiler and the processor keep going.                              *)
Spec == Init /\ [][Next]_vars /\ WF_vars(Compile \/ Run)

-----------------------------------------------------------------------------
(* The phases follow each other, offsets are whole instructions inside the *)
(* code, and every register holds a number.                                *)
TypeOK ==
  /\ phase \in {"lowering", "linked", "rejected", "running", "exited", "crashed"}
  /\ todo \subseteq Functions /\ DOMAIN functions \subseteq Functions \ todo
  /\ \A a \in DOMAIN code : a \in 0 .. code_size - 4 /\ a % 4 = 0
  /\ pc \in Int /\ \A r \in DOMAIN regs : regs[r] \in Int
  /\ result \in Functions \cup {Nothing}

(* A program that was linked ends with the value that main returned:       *)
(* build_runtime_code's call reached main, the backpatched jump of main    *)
(* its epilogue, and the epilogue the runtime's exit.                      *)
ExitsWithMain ==
  phase \in {"exited", "crashed"} => phase = "exited" /\ result = main

(* auipc and jalr each take main's offset; the second one reads bit 11 of  *)
(* its part as a sign and nothing makes up for it in the first.            *)
MainIsFar == ((functions[main] + 16) \div 2048) % 2 = 1

(* Only when main is at such an offset does the program end in another way.*)
WrongOnlyWhenFar ==
  phase \in {"exited", "crashed"} /\ ~MainIsFar => phase = "exited" /\ result = main

(* Unless the call missed main, main runs on its own frame: sp is aligned, *)
(* fp is above sp by its frame, and below fp the caller's ra and fp are    *)
(* saved, where the spilled values are not. And the runtime's exit has the *)
(* stack and the frame pointer the program was entered with: the epilogue  *)
(* undoes the prologue.                                                    *)
FrameKept ==
  /\ phase = "running" /\ ~MainIsFar /\ Mapped(pc) /\ Fetched.op \in {"result", "jal"} =>
       /\ regs["sp"] % 16 = 0
       /\ regs["fp"] - regs["sp"] \in FrameSizes
       /\ mem[regs["fp"] - 8] = 0
       /\ mem[regs["fp"] - 4] = file.entry + 8
  /\ phase = "exited" /\ ~MainIsFar => regs["sp"] = StackTop /\ regs["fp"] = 0

(* The program is rejected, exits or is killed, wherever it was sent: no   *)
(* jump of the generated code leads back.                                  *)
ProgramEnds == <>Ended
=============================================================================
