---------------------------- MODULE ImageProofs ----------------------------
(***************************************************************************)
(* A program whose main is not far runs main on a frame of its own and     *)
(* exits with its value, whatever functions it has, in whatever order and  *)
(* of whatever size.  The first part is about the instructions that the    *)
(* code generator and the linker put together, the second about the        *)
(* processor, which goes from one to the next.                             *)
(***************************************************************************)
EXTENDS Image, WellFoundedInduction, TLAPS

(* What a processor can make of an instruction.                            *)
Register == {"ra", "sp", "fp", "a7"}

WellTyped(instruction) ==
  /\ instruction.op \in {"addi", "sw", "lw", "jal", "jalr", "auipc", "result", "ecall"}
  /\ instruction.op \in {"addi", "sw", "lw", "jalr"} => instruction.rs \in Register \cup {"zero"}
  /\ instruction.op \in {"addi", "sw", "lw", "jalr", "auipc"} =>
        instruction.rd \in Register \cup {"zero"}
  /\ instruction.op \in {"addi", "sw", "lw", "jal", "jalr", "auipc"} => instruction.imm \in Int
  /\ instruction.op = "result" => instruction.rd \in Functions

(* Where the parts of a function are, from its start.                      *)
Move(body) == 16 + 4 * body
EpilogueOf(body, flush) == Move(body) + 32 + 4 * flush
Size(body, flush) == EpilogueOf(body, flush) + 16

(* main is at s in the code, with nothing between its plain instructions.  *)
Placed(c, s, body, flush, frame) ==
  LET move == s + Move(body)
      epilogue == s + EpilogueOf(body, flush)
      own == {s, s + 4, s + 8, s + 12, move, move + 4,
              epilogue, epilogue + 4, epilogue + 8, epilogue + 12}
  IN /\ own \subseteq DOMAIN c
     /\ \A a \in DOMAIN c : s <= a /\ a < s + Size(body, flush) => a \in own
     /\ c[s] = addi("sp", "sp", -frame)
     /\ c[s + 4] = sw("sp", "ra", frame - 4)
     /\ c[s + 8] = sw("sp", "fp", frame - 8)
     /\ c[s + 12] = addi("fp", "sp", frame)
     /\ c[move] = set_a0(main)
     /\ c[move + 4] = jal(28 + 4 * flush)
     /\ c[epilogue] = addi("sp", "fp", 0)
     /\ c[epilogue + 4] = lw("fp", "sp", -8)
     /\ c[epilogue + 8] = lw("ra", "sp", -4)
     /\ c[epilogue + 12] = jalr("zero", "ra", 0)

Linked == phase \in {"linked", "running", "exited", "crashed"}

Start == functions[main] + (IF Linked THEN 16 ELSE 0)

(* main as it was lowered.                                                 *)
MainPlaced(body, flush, frame) ==
  /\ Placed(code, Start, body, flush, frame)
  /\ Start + Size(body, flush) <= code_size

ObjectOK ==
  /\ phase \in {"lowering", "linked", "rejected", "running", "exited", "crashed"}
  /\ todo \subseteq Functions /\ DOMAIN functions \subseteq Functions \ todo
  /\ code_size \in Nat /\ code_size % 4 = 0
  /\ \A a \in DOMAIN code : a \in 0 .. code_size - 4 /\ a % 4 = 0 /\ WellTyped(code[a])
  /\ main \in DOMAIN functions =>
        /\ functions[main] \in Nat /\ functions[main] % 4 = 0
        /\ \E body \in BodySizes, flush \in FlushSizes, frame \in FrameSizes :
              MainPlaced(body, flush, frame)
  /\ Linked =>
        /\ main \in DOMAIN functions
        /\ {0, 4, 8, 12} \subseteq DOMAIN code
        /\ code[0] = auipc("ra", Start)
        /\ code[4] = jalr("ra", "ra", Start)
        /\ code[8] = addi("a7", "zero", 93)
        /\ code[12] = ecall

(* The file that is run has the code at the second page.                   *)
FileOK ==
  phase \in {"running", "exited", "crashed"} =>
    file = [entry |-> VaddrStart, p_offset |-> 4096, p_vaddr |-> VaddrStart,
            p_filesz |-> code_size, content |-> Shifted(code, 4096)]

(* The registers and the memory hold numbers; until the program is run     *)
(* they are as the kernel sets them.                                       *)
CpuOK ==
  /\ pc \in Int /\ DOMAIN regs = Register /\ \A r \in Register : regs[r] \in Int
  /\ DOMAIN mem \subseteq Int /\ \A a \in DOMAIN mem : mem[a] \in Int
  /\ result \in Functions \cup {Nothing}
  /\ phase \in {"lowering", "linked", "rejected"} => regs["sp"] = StackTop /\ regs["fp"] = 0

(* The processor is at an offset of the code, with a stack and a frame.    *)
Is(offset, sp, fp) ==
  pc = VaddrStart + offset /\ regs["sp"] = sp /\ regs["fp"] = fp

(* The word of the caller's ra, and that of its fp.                        *)
Returns == StackTop - 4 \in DOMAIN mem /\ mem[StackTop - 4] = VaddrStart + 8
Framed == StackTop - 8 \in DOMAIN mem /\ mem[StackTop - 8] = 0

(* The places of a run that calls main.                                    *)
AtRuntime ==
  \/ Is(0, StackTop, 0)
  \/ Is(4, StackTop, 0) /\ regs["ra"] = VaddrStart + Upper20(Start)

AtPrologue(frame) ==
  /\ regs["ra"] = VaddrStart + 8
  /\ \/ Is(Start, StackTop, 0)
     \/ Is(Start + 4, StackTop - frame, 0)
     \/ Is(Start + 8, StackTop - frame, 0) /\ Returns
     \/ Is(Start + 12, StackTop - frame, 0) /\ Returns /\ Framed

AtBody(body, flush, frame) ==
  /\ Returns /\ Framed
  /\ \/ Is(Start + 16, StackTop - frame, StackTop)
     \/ Is(Start + Move(body), StackTop - frame, StackTop)
     \/ Is(Start + Move(body) + 4, StackTop - frame, StackTop) /\ result = main

AtEpilogue(body, flush, frame) ==
  /\ Returns /\ Framed /\ result = main
  /\ \/ Is(Start + EpilogueOf(body, flush), StackTop - frame, StackTop)
     \/ Is(Start + EpilogueOf(body, flush) + 4, StackTop, StackTop)
     \/ Is(Start + EpilogueOf(body, flush) + 8, StackTop, 0)
     \/ Is(Start + EpilogueOf(body, flush) + 12, StackTop, 0) /\ regs["ra"] = VaddrStart + 8

AtExit ==
  /\ result = main
  /\ \/ Is(8, StackTop, 0)
     \/ Is(12, StackTop, 0) /\ regs["a7"] = 93

RunOK ==
  /\ phase \in {"running", "exited", "crashed"} /\ ~MainIsFar =>
       \E body \in BodySizes, flush \in FlushSizes, frame \in FrameSizes :
          /\ MainPlaced(body, flush, frame)
          /\ phase = "running" =>
                \/ AtRuntime \/ AtPrologue(frame) \/ AtBody(body, flush, frame)
                \/ AtEpilogue(body, flush, frame) \/ AtExit
          /\ phase # "running" => phase = "exited" /\ AtExit

ImageInv == ObjectOK /\ FileOK /\ CpuOK /\ RunOK

-----------------------------------------------------------------------------
(* What the encodings lose.                                                *)
LEMMA ImmediatesKept ==
  ASSUME NEW n \in Int
  PROVE  /\ Imm12(n) \in Int /\ Upper20(n) \in Int /\ Jump21(n) \in Int
         /\ -2048 <= n /\ n <= 2047 => Imm12(n) = n
         /\ n \in 0 .. 1000 /\ n % 2 = 0 => Jump21(n) = n
<1>1. Imm12(n) = ((n + 2048) % 4096) - 2048
  BY SMT DEF Imm12, SignExtend
<1>2. Jump21(n) = ((n - (n % 2) + 1048576) % 2097152) - 1048576
  BY SMT DEF Jump21, SignExtend
<1>3. Imm12(n) \in Int /\ (-2048 <= n /\ n <= 2047 => Imm12(n) = n)
  <2>1. n + 2048 \in Int /\ (n + 2048) % 4096 \in Int
    BY SMT
  <2>2. -2048 <= n /\ n <= 2047 => n + 2048 >= 0 /\ n + 2048 < 4096
    BY SMT
  <2>3. \A m \in Int : m >= 0 /\ m < 4096 => m % 4096 = m
    BY SMT
  <2>4. -2048 <= n /\ n <= 2047 => (n + 2048) % 4096 = n + 2048
    BY SMT, <2>1, <2>2, <2>3
  <2> QED BY SMT, <1>1, <2>1, <2>4
<1>4. Upper20(n) \in Int
  BY SMT DEF Upper20
<1>5. Jump21(n) \in Int
  BY SMT, <1>2
<1>6. n \in 0 .. 1000 /\ n % 2 = 0 => Jump21(n) = n
  BY SMT, <1>2
<1> QED BY SMT, <1>3, <1>4, <1>5, <1>6

LEMMA SmallKept ==
  ASSUME NEW n \in Int, -2048 <= n, n <= 2047
  PROVE  Imm12(n) = n
BY ImmediatesKept

LEMMA JumpKept ==
  ASSUME NEW n \in Int, 0 <= n, n <= 1000, n % 2 = 0
  PROVE  Jump21(n) = n
<1>1. n \in 0 .. 1000
  BY SMT
<1> QED BY <1>1, ImmediatesKept

(* The two parts of an offset meet again unless bit 11 is set.             *)
LEMMA HalvesMeet ==
  ASSUME NEW n \in Nat, (n \div 2048) % 2 # 1
  PROVE  Upper20(n) + Imm12(n) = n
<1>1. Imm12(n) = ((n + 2048) % 4096) - 2048
  BY SMT DEF Imm12, SignExtend
<1>2. n % 4096 < 2048
  BY SMT
<1>3. (n + 2048) % 4096 = (n % 4096) + 2048
  BY SMT, <1>2
<1> QED BY SMT, <1>1, <1>3 DEF Upper20

(* The code of a list of instructions.                                     *)
LEMMA FourAt ==
  ASSUME NEW o \in Int, NEW list, DOMAIN list = 1 .. 4
  PROVE  /\ DOMAIN At(o, list) = {o, o + 4, o + 8, o + 12}
         /\ At(o, list)[o] = list[1] /\ At(o, list)[o + 4] = list[2]
         /\ At(o, list)[o + 8] = list[3] /\ At(o, list)[o + 12] = list[4]
<1>1. 1 .. 4 = {1, 2, 3, 4}
  OBVIOUS
<1>2. DOMAIN At(o, list) = {o + 4 * (i - 1) : i \in {1, 2, 3, 4}}
  BY <1>1 DEF At
<1>3. {o + 4 * (i - 1) : i \in {1, 2, 3, 4}} = {o, o + 4, o + 8, o + 12}
  OBVIOUS
<1>4. \A a \in {o, o + 4, o + 8, o + 12} : At(o, list)[a] = list[((a - o) \div 4) + 1]
  BY <1>1, <1>3 DEF At
<1>5. /\ ((o - o) \div 4) + 1 = 1 /\ (((o + 4) - o) \div 4) + 1 = 2
      /\ (((o + 8) - o) \div 4) + 1 = 3 /\ (((o + 12) - o) \div 4) + 1 = 4
  OBVIOUS
<1> QED BY <1>2, <1>3, <1>4, <1>5

LEMMA TwoAt ==
  ASSUME NEW o \in Int, NEW list, DOMAIN list = 1 .. 2
  PROVE  /\ DOMAIN At(o, list) = {o, o + 4}
         /\ At(o, list)[o] = list[1] /\ At(o, list)[o + 4] = list[2]
<1>1. 1 .. 2 = {1, 2}
  OBVIOUS
<1>2. DOMAIN At(o, list) = {o + 4 * (i - 1) : i \in {1, 2}}
  BY <1>1 DEF At
<1>3. {o + 4 * (i - 1) : i \in {1, 2}} = {o, o + 4}
  OBVIOUS
<1>4. \A a \in {o, o + 4} : At(o, list)[a] = list[((a - o) \div 4) + 1]
  BY <1>1, <1>3 DEF At
<1>5. ((o - o) \div 4) + 1 = 1 /\ (((o + 4) - o) \div 4) + 1 = 2
  OBVIOUS
<1> QED BY <1>2, <1>3, <1>4, <1>5

LEMMA InstructionsTyped ==
  ASSUME NEW n \in Int, NEW r \in Register, NEW q \in Register \cup {"zero"},
         NEW f \in Functions
  PROVE  /\ WellTyped(addi(r, q, n)) /\ WellTyped(sw(r, q, n)) /\ WellTyped(lw(r, q, n))
         /\ WellTyped(jal(n)) /\ WellTyped(jalr(q, r, n)) /\ WellTyped(auipc(r, n))
         /\ WellTyped(set_a0(f)) /\ WellTyped(ecall)
<1>1. Imm12(n) \in Int /\ Upper20(n) \in Int /\ Jump21(n) \in Int
  BY ImmediatesKept
<1>2. WellTyped(addi(r, q, n)) /\ WellTyped(sw(r, q, n)) /\ WellTyped(lw(r, q, n))
  BY <1>1 DEF WellTyped, addi, sw, lw
<1>3. WellTyped(jal(n)) /\ WellTyped(jalr(q, r, n)) /\ WellTyped(auipc(r, n))
  BY <1>1 DEF WellTyped, jal, jalr, auipc
<1>4. WellTyped(set_a0(f)) /\ WellTyped(ecall)
  BY DEF WellTyped, set_a0, ecall
<1> QED BY <1>2, <1>3, <1>4

(* Code that is added elsewhere does not disturb a function.               *)
LEMMA PlacedKeeps ==
  ASSUME NEW c, NEW d, NEW s \in Nat, NEW body \in Nat, NEW flush \in Nat, NEW frame,
         Placed(c, s, body, flush, frame), NEW n \in Nat, s + Size(body, flush) <= n,
         \A a \in DOMAIN c : a \in DOMAIN d /\ d[a] = c[a],
         \A a \in DOMAIN d \ DOMAIN c : a \in Nat /\ a >= n
  PROVE  Placed(d, s, body, flush, frame)
<1>1. Size(body, flush) \in Nat
  BY DEF Size, EpilogueOf, Move
<1>2. \A a \in DOMAIN d : s <= a /\ a < s + Size(body, flush) => a \in DOMAIN c
  BY <1>1
<1> QED BY <1>2 DEF Placed

(* Nor does code that is put in front of it.                               *)
LEMMA PlacedMoves ==
  ASSUME NEW c, NEW r, NEW s \in Nat, NEW body \in Nat, NEW flush \in Nat, NEW frame,
         Placed(c, s, body, flush, frame),
         DOMAIN c \subseteq Nat, DOMAIN r = {0, 4, 8, 12}
  PROVE  Placed(Merged(Shifted(c, 16), r), s + 16, body, flush, frame)
<1>1. PICK d : d = Merged(Shifted(c, 16), r)
  OBVIOUS
<1>2. DOMAIN d = {a + 16 : a \in DOMAIN c} \cup {0, 4, 8, 12}
  BY <1>1 DEF Merged, Shifted
<1>3. ASSUME NEW a \in DOMAIN c PROVE a + 16 \in DOMAIN d /\ d[a + 16] = c[a]
  <2>1. a \in Nat /\ a + 16 \notin {0, 4, 8, 12} /\ (a + 16) - 16 = a
    OBVIOUS
  <2>2. a + 16 \in {b + 16 : b \in DOMAIN c}
    OBVIOUS
  <2>3. Shifted(c, 16)[a + 16] = c[a]
    BY <2>1, <2>2 DEF Shifted
  <2>4. DOMAIN Shifted(c, 16) = {b + 16 : b \in DOMAIN c}
    BY DEF Shifted
  <2> QED BY <1>1, <2>1, <2>2, <2>3, <2>4 DEF Merged
<1>4. PICK move, epilogue : move = Move(body) /\ epilogue = EpilogueOf(body, flush)
  OBVIOUS
<1>5. move \in Nat /\ epilogue \in Nat /\ Size(body, flush) \in Nat
  BY <1>4 DEF Size, EpilogueOf, Move
<1>6. PICK own : own = {s, s + 4, s + 8, s + 12, s + move, s + move + 4,
              s + epilogue, s + epilogue + 4, s + epilogue + 8, s + epilogue + 12}
  OBVIOUS
<1>7. own \subseteq DOMAIN c /\ \A a \in DOMAIN c : s <= a /\ a < s + Size(body, flush) => a \in own
  BY <1>4, <1>6 DEF Placed
<1>8. \A a \in DOMAIN d : s + 16 <= a /\ a < s + 16 + Size(body, flush) => \E b \in own : a = b + 16
  <2> SUFFICES ASSUME NEW a \in DOMAIN d, s + 16 <= a, a < s + 16 + Size(body, flush)
               PROVE  \E b \in own : a = b + 16
    OBVIOUS
  <2>1. PICK b \in DOMAIN c : a = b + 16
    BY <1>2
  <2> QED BY <1>5, <1>7, <2>1
<1>9. \A b \in own : b + 16 \in DOMAIN d /\ d[b + 16] = c[b]
  BY <1>3, <1>7
<1>10. /\ (s + 16) + 4 = (s + 4) + 16 /\ (s + 16) + 8 = (s + 8) + 16 /\ (s + 16) + 12 = (s + 12) + 16
       /\ (s + 16) + move = (s + move) + 16 /\ ((s + 16) + move) + 4 = ((s + move) + 4) + 16
       /\ (s + 16) + epilogue = (s + epilogue) + 16
       /\ ((s + 16) + epilogue) + 4 = ((s + epilogue) + 4) + 16
       /\ ((s + 16) + epilogue) + 8 = ((s + epilogue) + 8) + 16
       /\ ((s + 16) + epilogue) + 12 = ((s + epilogue) + 12) + 16
  BY <1>5
<1>11. \A a : (\E b \in own : a = b + 16) <=>
          a \in {s + 16, (s + 16) + 4, (s + 16) + 8, (s + 16) + 12,
                (s + 16) + move, (s + 16) + move + 4, (s + 16) + epilogue,
                (s + 16) + epilogue + 4, (s + 16) + epilogue + 8, (s + 16) + epilogue + 12}
  BY <1>6, <1>10
<1>12. Placed(d, s + 16, body, flush, frame)
  BY <1>4, <1>6, <1>8, <1>9, <1>10, <1>11 DEF Placed
<1> QED BY <1>1, <1>12

-----------------------------------------------------------------------------
(* The compiler.                                                           *)
LEMMA SizesFacts ==
  ASSUME NEW body \in BodySizes, NEW flush \in FlushSizes, NEW frame \in FrameSizes
  PROVE  /\ body \in Nat /\ flush \in 0 .. 15
         /\ frame \in 16 .. 2032 /\ frame % 16 = 0
         /\ Move(body) \in Nat /\ Move(body) % 4 = 0 /\ Move(body) >= 16
         /\ EpilogueOf(body, flush) \in Nat /\ EpilogueOf(body, flush) % 4 = 0
         /\ EpilogueOf(body, flush) >= Move(body) + 32
         /\ Size(body, flush) = EpilogueOf(body, flush) + 16 /\ Size(body, flush) \in Nat
         /\ Size(body, flush) % 4 = 0
<1>1. body \in Nat /\ flush \in 0 .. 15
  BY SizesAssumption
<1>2. PICK n \in 1 .. 127 : frame = 16 * n
  BY SizesAssumption
<1>3. frame \in 16 .. 2032 /\ frame % 16 = 0
  BY <1>2
<1>4. /\ Move(body) = 16 + 4 * body
      /\ EpilogueOf(body, flush) = 16 + 4 * body + 32 + 4 * flush
      /\ Size(body, flush) = EpilogueOf(body, flush) + 16
  BY DEF Move, EpilogueOf, Size
<1>5. Move(body) \in Nat /\ Move(body) % 4 = 0 /\ Move(body) >= 16
  BY <1>1, <1>4
<1>6. EpilogueOf(body, flush) \in Nat /\ EpilogueOf(body, flush) % 4 = 0
  BY <1>1, <1>4
<1>7. EpilogueOf(body, flush) >= Move(body) + 32
  BY <1>1, <1>4
<1>8. Size(body, flush) \in Nat /\ Size(body, flush) % 4 = 0
  BY <1>4, <1>6
<1> QED BY <1>1, <1>3, <1>4, <1>5, <1>6, <1>7, <1>8

(* A lowered function is behind those before it, and is all there.         *)
LEMMA FunctionCode ==
  ASSUME ObjectOK, NEW f \in Functions,
         NEW body \in BodySizes, NEW flush \in FlushSizes, NEW frame \in FrameSizes,
         lower_function(f, body, flush, frame)
  PROVE  /\ code_size' = code_size + Size(body, flush)
         /\ functions' = Merged(functions, [g \in {f} |-> code_size])
         /\ \A a \in DOMAIN code : a \in DOMAIN code' /\ code'[a] = code[a]
         /\ \A a \in DOMAIN code' \ DOMAIN code :
              a \in code_size .. code_size' - 4 /\ a % 4 = 0 /\ WellTyped(code'[a])
         /\ f = main => Placed(code', code_size, body, flush, frame)
<1>1. PICK n, move, epilogue : /\ n = code_size /\ move = n + Move(body)
                               /\ epilogue = n + EpilogueOf(body, flush)
  OBVIOUS
<1>2. /\ n \in Nat /\ n % 4 = 0 /\ \A a \in DOMAIN code : a \in Nat /\ a < n
  BY <1>1 DEF ObjectOK
<1>3. /\ move \in Nat /\ move % 4 = 0 /\ move >= n + 16
      /\ epilogue \in Nat /\ epilogue % 4 = 0 /\ epilogue >= move + 32
      /\ n + Size(body, flush) = epilogue + 16
  <2>1. /\ Move(body) \in Nat /\ Move(body) % 4 = 0 /\ Move(body) >= 16
        /\ EpilogueOf(body, flush) \in Nat /\ EpilogueOf(body, flush) % 4 = 0
        /\ EpilogueOf(body, flush) >= Move(body) + 32
        /\ Size(body, flush) = EpilogueOf(body, flush) + 16
    BY SizesFacts
  <2>2. move \in Nat /\ move % 4 = 0 /\ move >= n + 16
    BY <1>1, <1>2, <2>1
  <2>3. epilogue \in Nat /\ epilogue % 4 = 0 /\ epilogue >= move + 32
    BY <1>1, <1>2, <2>1
  <2> QED BY <1>1, <1>2, <2>1, <2>2, <2>3
<1>4. body \in Nat /\ flush \in 0 .. 15 /\ frame \in 16 .. 2032
  BY SizesFacts
<1>5. Len(Prologue(frame)) = 4 /\ Len(Epilogue) = 4 /\ Nops = 6
  BY DEF Prologue, Epilogue, Nops
<1>6. JumpToEpilogue(body, flush) = 28 + 4 * flush
  BY <1>4 DEF JumpToEpilogue, Nops
<1>7. /\ n + 4 * (4 + body) = move
      /\ move + 4 * (2 + flush + 6) = epilogue
  BY <1>1, <1>2, <1>4 DEF Move, EpilogueOf
<1>8. PICK P, B, E : /\ P = At(n, Prologue(frame))
                     /\ B = At(move, <<set_a0(f), jal(28 + 4 * flush)>>)
                     /\ E = At(epilogue, Epilogue)
  OBVIOUS
<1>9. /\ functions' = Merged(functions, [g \in {f} |-> n])
      /\ code' = Merged(Merged(code, P), Merged(B, E))
      /\ code_size' = epilogue + 16
  BY <1>1, <1>3, <1>5, <1>6, <1>7, <1>8 DEF lower_function
<1>10. /\ DOMAIN P = {n, n + 4, n + 8, n + 12}
       /\ P[n] = addi("sp", "sp", -frame) /\ P[n + 4] = sw("sp", "ra", frame - 4)
       /\ P[n + 8] = sw("sp", "fp", frame - 8) /\ P[n + 12] = addi("fp", "sp", frame)
  <2>1. PICK list : list = Prologue(frame)
    OBVIOUS
  <2>2. /\ DOMAIN list = 1 .. 4
        /\ list[1] = addi("sp", "sp", -frame) /\ list[2] = sw("sp", "ra", frame - 4)
        /\ list[3] = sw("sp", "fp", frame - 8) /\ list[4] = addi("fp", "sp", frame)
    BY <2>1 DEF Prologue
  <2>3. P = At(n, list) /\ n \in Int
    BY <1>2, <1>8, <2>1
  <2>4. /\ DOMAIN At(n, list) = {n, n + 4, n + 8, n + 12}
        /\ At(n, list)[n] = list[1] /\ At(n, list)[n + 4] = list[2]
        /\ At(n, list)[n + 8] = list[3] /\ At(n, list)[n + 12] = list[4]
    BY <2>2, <2>3, FourAt
  <2> QED BY <2>2, <2>3, <2>4
<1>11. /\ DOMAIN B = {move, move + 4}
       /\ B[move] = set_a0(f) /\ B[move + 4] = jal(28 + 4 * flush)
  <2>1. PICK list : list = <<set_a0(f), jal(28 + 4 * flush)>>
    OBVIOUS
  <2>2. DOMAIN list = 1 .. 2 /\ list[1] = set_a0(f) /\ list[2] = jal(28 + 4 * flush)
    BY <2>1
  <2>3. B = At(move, list) /\ move \in Int
    BY <1>3, <1>8, <2>1
  <2>4. /\ DOMAIN At(move, list) = {move, move + 4}
        /\ At(move, list)[move] = list[1] /\ At(move, list)[move + 4] = list[2]
    BY <2>2, <2>3, TwoAt
  <2> QED BY <2>2, <2>3, <2>4
<1>12. /\ DOMAIN E = {epilogue, epilogue + 4, epilogue + 8, epilogue + 12}
       /\ E[epilogue] = addi("sp", "fp", 0) /\ E[epilogue + 4] = lw("fp", "sp", -8)
       /\ E[epilogue + 8] = lw("ra", "sp", -4) /\ E[epilogue + 12] = jalr("zero", "ra", 0)
  <2>1. PICK list : list = Epilogue
    OBVIOUS
  <2>2. /\ DOMAIN list = 1 .. 4
        /\ list[1] = addi("sp", "fp", 0) /\ list[2] = lw("fp", "sp", -8)
        /\ list[3] = lw("ra", "sp", -4) /\ list[4] = jalr("zero", "ra", 0)
    BY <2>1 DEF Epilogue
  <2>3. E = At(epilogue, list) /\ epilogue \in Int
    BY <1>3, <1>8, <2>1
  <2>4. /\ DOMAIN At(epilogue, list) = {epilogue, epilogue + 4, epilogue + 8, epilogue + 12}
        /\ At(epilogue, list)[epilogue] = list[1] /\ At(epilogue, list)[epilogue + 4] = list[2]
        /\ At(epilogue, list)[epilogue + 8] = list[3] /\ At(epilogue, list)[epilogue + 12] = list[4]
    BY <2>2, <2>3, FourAt
  <2> QED BY <2>2, <2>3, <2>4
<1>13. DOMAIN code' = DOMAIN code \cup DOMAIN P \cup DOMAIN B \cup DOMAIN E
  BY <1>9 DEF Merged
<1>14. \A a \in DOMAIN code' :
         code'[a] = IF a \in DOMAIN E THEN E[a]
                    ELSE IF a \in DOMAIN B THEN B[a]
                    ELSE IF a \in DOMAIN P THEN P[a] ELSE code[a]
  BY <1>9 DEF Merged
<1>15. /\ \A a \in DOMAIN P : a \in Nat /\ a >= n /\ a < move /\ a % 4 = 0
       /\ \A a \in DOMAIN B : a \in Nat /\ a >= move /\ a < epilogue /\ a % 4 = 0
       /\ \A a \in DOMAIN E : a \in Nat /\ a >= epilogue /\ a <= epilogue + 12 /\ a % 4 = 0
  <2>1. \A a \in DOMAIN P : a \in Nat /\ a >= n /\ a < move /\ a % 4 = 0
    BY <1>2, <1>3, <1>10
  <2>2. \A a \in DOMAIN B : a \in Nat /\ a >= move /\ a < epilogue /\ a % 4 = 0
    BY <1>3, <1>11
  <2>3. \A a \in DOMAIN E : a \in Nat /\ a >= epilogue /\ a <= epilogue + 12 /\ a % 4 = 0
    BY <1>3, <1>12
  <2> QED BY <2>1, <2>2, <2>3
<1>16. \A a \in DOMAIN code : a \in DOMAIN code' /\ code'[a] = code[a]
  BY <1>2, <1>3, <1>13, <1>14, <1>15
<1>17. /\ \A a \in DOMAIN P : code'[a] = P[a]
       /\ \A a \in DOMAIN B : code'[a] = B[a]
       /\ \A a \in DOMAIN E : code'[a] = E[a]
  BY <1>13, <1>14, <1>15, <1>2, <1>3
<1>18. \A a \in DOMAIN code' \ DOMAIN code : a \in n .. epilogue + 12 /\ a % 4 = 0
  BY <1>2, <1>3, <1>13, <1>15
<1>19. /\ \A a \in DOMAIN P : WellTyped(P[a])
       /\ \A a \in DOMAIN B : WellTyped(B[a])
       /\ \A a \in DOMAIN E : WellTyped(E[a])
  <2>1. -frame \in Int /\ frame - 4 \in Int /\ frame - 8 \in Int /\ frame \in Int /\ 28 + 4 * flush \in Int
    BY <1>4
  <2>2. /\ "sp" \in Register /\ "fp" \in Register /\ "ra" \in Register /\ -8 \in Int /\ -4 \in Int
    BY DEF Register
  <2>3. \A a \in DOMAIN P : WellTyped(P[a])
    <3>1. WellTyped(addi("sp", "sp", -frame)) /\ WellTyped(addi("fp", "sp", frame))
      BY <2>1, <2>2, InstructionsTyped
    <3>2. WellTyped(sw("sp", "ra", frame - 4)) /\ WellTyped(sw("sp", "fp", frame - 8))
      BY <2>1, <2>2, InstructionsTyped
    <3> QED BY <1>10, <3>1, <3>2
  <2>4. \A a \in DOMAIN B : WellTyped(B[a])
    <3>1. WellTyped(set_a0(f)) /\ WellTyped(jal(28 + 4 * flush))
      BY <2>1, <2>2, InstructionsTyped
    <3> QED BY <1>11, <3>1
  <2>5. \A a \in DOMAIN E : WellTyped(E[a])
    <3>1. WellTyped(addi("sp", "fp", 0))
      <4>1. "fp" \in Register \cup {"zero"} /\ 0 \in Int
        BY <2>2
      <4> QED BY <2>2, <4>1, InstructionsTyped
    <3>2. WellTyped(jalr("zero", "ra", 0))
      <4>1. "zero" \in Register \cup {"zero"} /\ 0 \in Int
        OBVIOUS
      <4> QED BY <2>2, <4>1, InstructionsTyped
    <3>3. WellTyped(lw("fp", "sp", -8)) /\ WellTyped(lw("ra", "sp", -4))
      BY <2>2, InstructionsTyped
    <3> QED BY <1>12, <3>1, <3>2, <3>3
  <2> QED BY <2>3, <2>4, <2>5
<1>20. \A a \in DOMAIN code' \ DOMAIN code : WellTyped(code'[a])
  BY <1>13, <1>17, <1>19
<1>21. f = main => Placed(code', n, body, flush, frame)
  <2> SUFFICES ASSUME f = main PROVE Placed(code', n, body, flush, frame)
    OBVIOUS
  <2>1. PICK own : own = {n, n + 4, n + 8, n + 12, move, move + 4,
              epilogue, epilogue + 4, epilogue + 8, epilogue + 12}
    OBVIOUS
  <2>2. own = DOMAIN P \cup DOMAIN B \cup DOMAIN E
    BY <1>10, <1>11, <1>12, <2>1
  <2>3. own \subseteq DOMAIN code' /\ \A a \in DOMAIN code' : n <= a => a \in own
    BY <1>2, <1>13, <2>2
  <2>4. /\ code'[n] = addi("sp", "sp", -frame) /\ code'[n + 4] = sw("sp", "ra", frame - 4)
        /\ code'[n + 8] = sw("sp", "fp", frame - 8) /\ code'[n + 12] = addi("fp", "sp", frame)
    BY <1>10, <1>17
  <2>5. code'[move] = set_a0(main) /\ code'[move + 4] = jal(28 + 4 * flush)
    BY <1>11, <1>17
  <2>6. /\ code'[epilogue] = addi("sp", "fp", 0) /\ code'[epilogue + 4] = lw("fp", "sp", -8)
        /\ code'[epilogue + 8] = lw("ra", "sp", -4) /\ code'[epilogue + 12] = jalr("zero", "ra", 0)
    BY <1>12, <1>17
  <2> QED BY <1>1, <2>1, <2>3, <2>4, <2>5, <2>6 DEF Placed
<1>22. code_size' = code_size + Size(body, flush) /\ code_size' - 4 = epilogue + 12
  BY <1>1, <1>3, <1>9
<1> QED BY <1>1, <1>9, <1>16, <1>18, <1>20, <1>21, <1>22

(* Nothing that an invariant of the processor speaks of is there yet.      *)
LEMMA ImageInit == Init => ImageInv
<1> SUFFICES ASSUME Init PROVE ImageInv
  OBVIOUS
<1> USE DEF Init
<1>1. ObjectOK
  BY DEF ObjectOK, Linked
<1>2. CpuOK
  <2>1. StackTop \in Int
    BY SMT DEF StackTop
  <2> QED BY <2>1 DEF CpuOK, Register
<1> QED BY <1>1, <1>2 DEF ImageInv, FileOK, RunOK

LEMMA LowerFunctionKeeps ==
  ASSUME ImageInv, NEW f \in Functions, LowerFunction(f)
  PROVE  ImageInv'
<1> USE DEF ImageInv
<1>1. /\ phase = "lowering" /\ f \in todo /\ todo' = todo \ {f}
      /\ UNCHANGED <<phase, file, pc, regs, mem, result>>
  BY DEF LowerFunction, cpuVars
<1>2. PICK body \in BodySizes, flush \in FlushSizes, frame \in FrameSizes :
        lower_function(f, body, flush, frame)
  BY DEF LowerFunction
<1>3. /\ code_size' = code_size + Size(body, flush)
      /\ functions' = Merged(functions, [g \in {f} |-> code_size])
      /\ \A a \in DOMAIN code : a \in DOMAIN code' /\ code'[a] = code[a]
      /\ \A a \in DOMAIN code' \ DOMAIN code :
           a \in code_size .. code_size' - 4 /\ a % 4 = 0 /\ WellTyped(code'[a])
      /\ f = main => Placed(code', code_size, body, flush, frame)
  BY <1>2, FunctionCode
<1>4. Size(body, flush) \in Nat /\ Size(body, flush) % 4 = 0
  BY SizesFacts
<1>5. /\ code_size \in Nat /\ code_size % 4 = 0
      /\ \A a \in DOMAIN code : a \in 0 .. code_size - 4 /\ a % 4 = 0 /\ WellTyped(code[a])
      /\ todo \subseteq Functions /\ DOMAIN functions \subseteq Functions \ todo
  BY DEF ObjectOK
<1>6. /\ DOMAIN functions' = DOMAIN functions \cup {f} /\ functions'[f] = code_size
      /\ \A g \in DOMAIN functions \ {f} : functions'[g] = functions[g]
  BY <1>3 DEF Merged
<1>7. code_size' \in Nat /\ code_size' % 4 = 0 /\ code_size <= code_size'
  BY <1>3, <1>4, <1>5
<1>8. \A a \in DOMAIN code' : a \in 0 .. code_size' - 4 /\ a % 4 = 0 /\ WellTyped(code'[a])
  BY <1>3, <1>5, <1>7
<1>9. ASSUME main \in DOMAIN functions'
      PROVE  /\ functions'[main] \in Nat /\ functions'[main] % 4 = 0
             /\ \E b \in BodySizes, l \in FlushSizes, r \in FrameSizes :
                  /\ Placed(code', functions'[main], b, l, r)
                  /\ functions'[main] + Size(b, l) <= code_size'
  <2>1. CASE f = main
    BY <1>3, <1>4, <1>5, <1>6, <1>7, <2>1
  <2>2. CASE f # main
    <3>1. main \in DOMAIN functions /\ functions'[main] = functions[main]
      BY <1>6, <1>9, <2>2
    <3>2. /\ functions[main] \in Nat /\ functions[main] % 4 = 0 /\ ~Linked
          /\ \E b \in BodySizes, l \in FlushSizes, r \in FrameSizes : MainPlaced(b, l, r)
      BY <1>1, <3>1 DEF ObjectOK, Linked
    <3>3. PICK b \in BodySizes, l \in FlushSizes, r \in FrameSizes : MainPlaced(b, l, r)
      BY <3>2
    <3>4. Start = functions[main] + 0
      BY <3>2 DEF Start
    <3>5. Start = functions[main]
      BY <3>2, <3>4
    <3>6. Placed(code, functions[main], b, l, r) /\ functions[main] + Size(b, l) <= code_size
      BY <3>3, <3>5 DEF MainPlaced
    <3>7. b \in Nat /\ l \in Nat /\ Size(b, l) \in Nat
      BY SizesFacts
    <3>8. \A a \in DOMAIN code' \ DOMAIN code : a \in Nat /\ a >= code_size
      BY <1>3, <1>5, <1>7
    <3>9. Placed(code', functions[main], b, l, r)
      BY <1>3, <1>5, <3>2, <3>6, <3>7, <3>8, PlacedKeeps
    <3>10. functions[main] + Size(b, l) <= code_size'
      BY <1>5, <1>7, <3>2, <3>6, <3>7
    <3> QED BY <3>1, <3>2, <3>9, <3>10
  <2> QED BY <2>1, <2>2
<1>10. ~Linked'
  BY <1>1 DEF Linked
<1>11. ObjectOK'
  <2>1. main \in DOMAIN functions' => Start' = functions'[main]
    <3>1. Start' = functions'[main] + 0
      BY <1>10 DEF Start
    <3> QED BY <1>9, <3>1
  <2>2. main \in DOMAIN functions' =>
          \E b \in BodySizes, l \in FlushSizes, r \in FrameSizes : MainPlaced(b, l, r)'
    BY <1>9, <2>1 DEF MainPlaced
  <2>3. todo' \subseteq Functions /\ DOMAIN functions' \subseteq Functions \ todo'
    BY <1>1, <1>5, <1>6
  <2> QED BY <1>1, <1>7, <1>8, <1>9, <1>10, <2>2, <2>3 DEF ObjectOK
<1>12. FileOK' /\ CpuOK' /\ RunOK'
  BY <1>1 DEF FileOK, CpuOK, RunOK
<1> QED BY <1>11, <1>12

(* The runtime goes in front of everything, and knows where main is then.  *)
LEMMA LinkKeeps ==
  ASSUME ImageInv, Link
  PROVE  ImageInv'
<1> USE DEF ImageInv
<1>1. /\ phase = "lowering" /\ main \in DOMAIN functions /\ phase' = "linked"
      /\ code' = Merged(Shifted(code, 16), At(0, RuntimeCode(functions[main])))
      /\ code_size' = code_size + 16
      /\ UNCHANGED <<todo, functions, file, pc, regs, mem, result>>
  BY DEF Link, cpuVars
<1>2. /\ code_size \in Nat /\ code_size % 4 = 0
      /\ \A a \in DOMAIN code : a \in 0 .. code_size - 4 /\ a % 4 = 0 /\ WellTyped(code[a])
      /\ todo \subseteq Functions /\ DOMAIN functions \subseteq Functions \ todo
      /\ functions[main] \in Nat /\ functions[main] % 4 = 0
  BY <1>1 DEF ObjectOK
<1>3. Start = functions[main] /\ Start' = functions[main] + 16
  <2>1. ~Linked /\ Linked' /\ functions' = functions
    BY <1>1 DEF Linked
  <2>2. Start = functions[main] + 0
    BY <2>1 DEF Start
  <2> QED BY <1>2, <2>1, <2>2 DEF Start
<1>4. PICK body \in BodySizes, flush \in FlushSizes, frame \in FrameSizes : MainPlaced(body, flush, frame)
  BY <1>1 DEF ObjectOK
<1>5. Placed(code, functions[main], body, flush, frame) /\ functions[main] + Size(body, flush) <= code_size
  BY <1>3, <1>4 DEF MainPlaced
<1>6. PICK s, r : s = functions[main] + 16 /\ r = At(0, RuntimeCode(functions[main]))
  OBVIOUS
<1>7. /\ DOMAIN r = {0, 4, 8, 12}
      /\ r[0] = auipc("ra", s) /\ r[4] = jalr("ra", "ra", s)
      /\ r[8] = addi("a7", "zero", 93) /\ r[12] = ecall
  <2>1. PICK list : list = RuntimeCode(functions[main])
    OBVIOUS
  <2>2. /\ DOMAIN list = 1 .. 4
        /\ list[1] = auipc("ra", s) /\ list[2] = jalr("ra", "ra", s)
        /\ list[3] = addi("a7", "zero", 93) /\ list[4] = ecall
    BY <1>6, <2>1 DEF RuntimeCode
  <2>3. r = At(0, list) /\ 0 \in Int
    BY <1>6, <2>1
  <2>4. /\ DOMAIN At(0, list) = {0, 0 + 4, 0 + 8, 0 + 12}
        /\ At(0, list)[0] = list[1] /\ At(0, list)[0 + 4] = list[2]
        /\ At(0, list)[0 + 8] = list[3] /\ At(0, list)[0 + 12] = list[4]
    BY <2>2, <2>3, FourAt
  <2>5. 0 + 4 = 4 /\ 0 + 8 = 8 /\ 0 + 12 = 12
    OBVIOUS
  <2> QED BY <2>2, <2>3, <2>4, <2>5
<1>8. code' = Merged(Shifted(code, 16), r)
  BY <1>1, <1>6
<1>9. DOMAIN code \subseteq Nat
  BY <1>2
<1>10. Placed(code', s, body, flush, frame)
  <2>1. body \in Nat /\ flush \in Nat
    BY SizesFacts
  <2>2. Placed(Merged(Shifted(code, 16), r), functions[main] + 16, body, flush, frame)
    BY <1>2, <1>5, <1>7, <1>9, <2>1, PlacedMoves
  <2> QED BY <1>6, <1>8, <2>2
<1>11. s + Size(body, flush) <= code_size'
  <2>1. Size(body, flush) \in Nat
    BY SizesFacts
  <2> QED BY <1>1, <1>2, <1>5, <1>6, <2>1
<1>12. \A a \in DOMAIN code' : a \in 0 .. code_size' - 4 /\ a % 4 = 0 /\ WellTyped(code'[a])
  <2>1. DOMAIN code' = {a + 16 : a \in DOMAIN code} \cup {0, 4, 8, 12}
    BY <1>7, <1>8 DEF Merged, Shifted
  <2>2. ASSUME NEW a \in {0, 4, 8, 12}
        PROVE  a \in 0 .. code_size' - 4 /\ a % 4 = 0 /\ WellTyped(code'[a])
    <3>1. code'[a] = r[a]
      BY <1>7, <1>8, <2>1 DEF Merged
    <3>2. a \in 0 .. code_size' - 4 /\ a % 4 = 0
      BY <1>1, <1>2
    <3>3. /\ s \in Int /\ 93 \in Int /\ "ra" \in Register /\ "a7" \in Register
          /\ "ra" \in Register \cup {"zero"} /\ "zero" \in Register \cup {"zero"}
          /\ main \in Functions
      BY <1>1, <1>2, <1>6 DEF Register
    <3>4. WellTyped(auipc("ra", s)) /\ WellTyped(jalr("ra", "ra", s))
      BY <3>3, InstructionsTyped
    <3>5. WellTyped(addi("a7", "zero", 93)) /\ WellTyped(ecall)
      BY <3>3, InstructionsTyped
    <3> QED BY <1>7, <3>1, <3>2, <3>4, <3>5
  <2>3. ASSUME NEW a \in DOMAIN code
        PROVE  a + 16 \in 0 .. code_size' - 4 /\ (a + 16) % 4 = 0 /\ WellTyped(code'[a + 16])
    <3>1. a \in Nat /\ a <= code_size - 4 /\ a % 4 = 0 /\ WellTyped(code[a])
      BY <1>2
    <3>2. a + 16 \notin DOMAIN r /\ (a + 16) - 16 = a
      BY <1>7, <3>1
    <3>3. a + 16 \in {b + 16 : b \in DOMAIN code}
      OBVIOUS
    <3>4. DOMAIN Shifted(code, 16) = {b + 16 : b \in DOMAIN code} /\ Shifted(code, 16)[a + 16] = code[a]
      BY <3>2, <3>3 DEF Shifted
    <3>5. code'[a + 16] = code[a]
      BY <1>8, <3>2, <3>3, <3>4 DEF Merged
    <3>6. a + 16 \in 0 .. code_size' - 4 /\ (a + 16) % 4 = 0
      BY <1>1, <1>2, <3>1
    <3> QED BY <3>1, <3>5, <3>6
  <2> QED BY <2>1, <2>2, <2>3
<1>13. /\ {0, 4, 8, 12} \subseteq DOMAIN code'
       /\ code'[0] = auipc("ra", s) /\ code'[4] = jalr("ra", "ra", s)
       /\ code'[8] = addi("a7", "zero", 93) /\ code'[12] = ecall
  <2>1. \A a \in DOMAIN r : a \in DOMAIN code' /\ code'[a] = r[a]
    BY <1>8 DEF Merged
  <2> QED BY <1>7, <2>1
<1>14. MainPlaced(body, flush, frame)'
  <2>1. Start' = s
    BY <1>3, <1>6
  <2> QED BY <1>10, <1>11, <2>1 DEF MainPlaced
<1>15. ObjectOK'
  <2>1. code_size' \in Nat /\ code_size' % 4 = 0
    BY <1>1, <1>2
  <2>2. \E b \in BodySizes, l \in FlushSizes, f \in FrameSizes : MainPlaced(b, l, f)'
    BY <1>14
  <2>3. Start' = s
    BY <1>3, <1>6
  <2> QED BY <1>1, <1>2, <1>12, <1>13, <2>1, <2>2, <2>3 DEF ObjectOK
<1>16. FileOK' /\ CpuOK' /\ RunOK'
  BY <1>1 DEF FileOK, CpuOK, RunOK
<1> QED BY <1>15, <1>16

(* What the code is does not change any more.                              *)
LEMMA ObjectStays ==
  ASSUME ObjectOK, UNCHANGED <<todo, functions, code, code_size>>,
         phase' \in {"lowering", "linked", "rejected", "running", "exited", "crashed"},
         Linked' = Linked
  PROVE  ObjectOK' /\ \A b, l, r : MainPlaced(b, l, r)' = MainPlaced(b, l, r)
<1>1. Start' = Start
  BY DEF Start
<1>2. \A b, l, r : MainPlaced(b, l, r)' = MainPlaced(b, l, r)
  BY <1>1 DEF MainPlaced
<1> QED BY <1>1, <1>2 DEF ObjectOK

LEMMA MissingMainKeeps ==
  ASSUME ImageInv, MissingMain
  PROVE  ImageInv'
<1> USE DEF ImageInv
<1>1. /\ phase = "lowering" /\ phase' = "rejected"
      /\ UNCHANGED <<todo, functions, code, code_size, file, pc, regs, mem, result>>
  BY DEF MissingMain, compileVars, cpuVars
<1>2. Linked' = Linked
  BY <1>1 DEF Linked
<1> QED BY <1>1, <1>2, ObjectStays DEF FileOK, CpuOK, RunOK

LEMMA WriteExecutableKeeps ==
  ASSUME ImageInv, WriteExecutable
  PROVE  ImageInv'
<1> USE DEF ImageInv
<1>1. AlignedUp(HeaderSize + ProgramHeaderSize) = 4096
  BY SMT DEF AlignedUp, HeaderSize, ProgramHeaderSize, Alignment
<1>2. HeaderSize + ProgramHeaderSize + (4096 - (HeaderSize + ProgramHeaderSize)) = 4096
  BY SMT DEF HeaderSize, ProgramHeaderSize
<1>3. /\ phase = "linked" /\ phase' = "running" /\ pc' = file'.entry
      /\ file' = [entry |-> VaddrStart, p_offset |-> 4096, p_vaddr |-> VaddrStart,
                  p_filesz |-> code_size, content |-> Shifted(code, 4096)]
      /\ UNCHANGED <<todo, functions, code, code_size, regs, mem, result>>
  BY SMT, <1>1, <1>2 DEF WriteExecutable, compileVars
<1>4. Linked' /\ Linked
  BY <1>3 DEF Linked
<1>5. ObjectOK' /\ \A b, l, r : MainPlaced(b, l, r)' = MainPlaced(b, l, r)
  BY <1>3, <1>4, ObjectStays
<1>6. FileOK'
  BY <1>3 DEF FileOK
<1>7. pc' = VaddrStart + 0 /\ pc' \in Int
  BY SMT, <1>3 DEF VaddrStart
<1>8. CpuOK'
  BY <1>3, <1>7 DEF CpuOK
<1>9. RunOK'
  <2>1. regs["sp"] = StackTop /\ regs["fp"] = 0
    BY <1>3 DEF CpuOK
  <2>2. AtRuntime'
    BY <1>3, <1>7, <2>1 DEF AtRuntime, Is
  <2>3. \E b \in BodySizes, l \in FlushSizes, r \in FrameSizes : MainPlaced(b, l, r)
    BY <1>3, <1>4 DEF ObjectOK
  <2> QED BY <1>3, <1>5, <2>2, <2>3 DEF RunOK
<1> QED BY <1>5, <1>6, <1>8, <1>9

-----------------------------------------------------------------------------
(* The processor.                                                          *)
(* A set of numbers that is not empty has a least one.                     *)
LEMMA LeastNumber ==
  ASSUME NEW T, T \subseteq Nat, T # {}
  PROVE  \E x \in T : \A y \in T : x <= y
<1> DEFINE R == {pair \in Nat \X Nat : pair[1] < pair[2]}
<1>1. IsWellFoundedOn(R, Nat)
  BY NatLessThanWellFounded DEF OpToRel
<1>2. \A p, q \in Nat : p < q => <<p, q>> \in R
  OBVIOUS
<1> HIDE DEF R
<1>3. \E x \in T : \A y \in T : ~(<<y, x>> \in R)
  BY <1>1, WFMin
<1>4. PICK x \in T : \A y \in T : ~(<<y, x>> \in R)
  BY <1>3
<1>5. \A y \in T : ~(y < x)
  BY <1>2, <1>4
<1>6. \A y \in T : x <= y
  BY <1>5
<1> QED BY <1>6

LEMMA AddressFacts ==
  /\ VaddrStart \in Nat /\ VaddrStart % 4 = 0
  /\ StackTop \in Nat /\ StackTop % 16 = 0
BY SMT DEF VaddrStart, StackTop

(* What is fetched is the instruction of the code at that offset.          *)
LEMMA FetchFacts ==
  ASSUME ImageInv, phase = "running"
  PROVE  /\ file.entry = VaddrStart /\ file.p_vaddr = VaddrStart /\ file.p_offset = 4096
         /\ DOMAIN file.content = {a + 4096 : a \in DOMAIN code}
         /\ \A a \in DOMAIN code : file.content[a + 4096] = code[a]
         /\ PositionOf(pc) = pc - VaddrStart + 4096
         /\ \A a \in DOMAIN code : pc = VaddrStart + a => CanRun /\ Fetched = code[a]
         /\ \A a \in Nat : pc = VaddrStart + a /\ a < code_size /\ a % 4 = 0 /\ a \notin DOMAIN code =>
               CanRun /\ Fetched = [op |-> "plain"]
<1> USE DEF ImageInv
<1>1. PICK c : c = Shifted(code, 4096)
  OBVIOUS
<1>2. file = [entry |-> VaddrStart, p_offset |-> 4096, p_vaddr |-> VaddrStart,
              p_filesz |-> code_size, content |-> c]
  BY SMT, <1>1 DEF FileOK
<1>3. /\ file.entry = VaddrStart /\ file.p_vaddr = VaddrStart /\ file.p_offset = 4096
      /\ file.p_filesz = code_size /\ file.content = c
  BY SMT, <1>2
<1>4. /\ code_size \in Nat /\ pc \in Int
      /\ \A a \in DOMAIN code : a \in Nat /\ a <= code_size - 4 /\ a % 4 = 0
  BY SMT DEF ObjectOK, CpuOK
<1>5. DOMAIN c = {a + 4096 : a \in DOMAIN code}
  BY SMT, <1>1 DEF Shifted
<1>6. ASSUME NEW a \in DOMAIN code PROVE c[a + 4096] = code[a]
  <2>1. a + 4096 \in {b + 4096 : b \in DOMAIN code} /\ (a + 4096) - 4096 = a
    BY SMT, <1>4
  <2> QED BY SMT, <1>1, <2>1 DEF Shifted
<1>7. PositionOf(pc) = pc - VaddrStart + 4096
  BY SMT, <1>3 DEF PositionOf
<1>8. ASSUME NEW a \in Nat, a < code_size, a % 4 = 0, pc = VaddrStart + a
      PROVE  CanRun /\ PositionOf(pc) = a + 4096
  <2>1. pc % 4 = 0
    BY SMT, <1>8, AddressFacts
  <2>2. Mapped(pc)
    BY SMT, <1>3, <1>4, <1>8, AddressFacts DEF Mapped
  <2>3. PositionOf(pc) = a + 4096
    BY SMT, <1>7, <1>8, AddressFacts
  <2> QED BY <2>1, <2>2, <2>3 DEF CanRun
<1>9. ASSUME NEW a \in DOMAIN code, pc = VaddrStart + a
      PROVE  CanRun /\ Fetched = code[a]
  <2>1. a \in Nat /\ a < code_size /\ a % 4 = 0
    BY SMT, <1>4
  <2>2. CanRun /\ PositionOf(pc) = a + 4096
    BY <1>8, <1>9, <2>1
  <2>3. a + 4096 \in DOMAIN c
    BY SMT, <1>5
  <2> QED BY SMT, <1>3, <1>6, <2>2, <2>3 DEF Fetched
<1>10. ASSUME NEW a \in Nat, a < code_size, a % 4 = 0, pc = VaddrStart + a, a \notin DOMAIN code
       PROVE  CanRun /\ Fetched = [op |-> "plain"]
  <2>1. CanRun /\ PositionOf(pc) = a + 4096
    BY <1>8, <1>10
  <2>2. a + 4096 \notin DOMAIN c
    BY SMT, <1>4, <1>5, <1>10
  <2> QED BY SMT, <1>3, <2>1, <2>2 DEF Fetched
<1>11. /\ \A a \in DOMAIN code : pc = VaddrStart + a => CanRun /\ Fetched = code[a]
       /\ \A a \in Nat : pc = VaddrStart + a /\ a < code_size /\ a % 4 = 0 /\ a \notin DOMAIN code =>
               CanRun /\ Fetched = [op |-> "plain"]
  BY <1>9, <1>10
<1>12. /\ DOMAIN file.content = {a + 4096 : a \in DOMAIN code}
       /\ \A a \in DOMAIN code : file.content[a + 4096] = code[a]
  BY SMT, <1>3, <1>5, <1>6
<1> QED BY SMT, <1>3, <1>7, <1>11, <1>12

LEMMA FetchedTyped ==
  ASSUME ImageInv, phase = "running"
  PROVE  Fetched.op = "plain" \/ WellTyped(Fetched)
<1>1. CASE PositionOf(pc) \in DOMAIN file.content
  <2>1. PICK a \in DOMAIN code : PositionOf(pc) = a + 4096
    BY SMT, <1>1, FetchFacts
  <2>2. Fetched = code[a]
    BY SMT, <1>1, <2>1, FetchFacts DEF Fetched
  <2> QED BY <2>2 DEF ImageInv, ObjectOK
<1>2. CASE PositionOf(pc) \notin DOMAIN file.content
  <2>1. Fetched = [op |-> "plain"]
    BY <1>2 DEF Fetched
  <2> QED BY <2>1
<1> QED BY <1>1, <1>2

(* The next special instruction is the first one after pc.                 *)
LEMMA NextSpecialFacts ==
  ASSUME ImageInv, phase = "running"
  PROVE  /\ NextSpecial \in Int
         /\ \A a \in DOMAIN code :
              /\ a > pc - VaddrStart
              /\ \A b \in DOMAIN code : b > pc - VaddrStart => a <= b
              => NextSpecial = a + 4096
<1>1. PICK later : later = {p \in DOMAIN file.content : p > PositionOf(pc)}
  OBVIOUS
<1>2. /\ DOMAIN file.content = {a + 4096 : a \in DOMAIN code}
      /\ PositionOf(pc) = pc - VaddrStart + 4096
  BY FetchFacts
<1>3. pc \in Int /\ VaddrStart \in Nat /\ DOMAIN code \subseteq Nat
  BY SMT, AddressFacts DEF ImageInv, CpuOK, ObjectOK
<1>4. later \subseteq Nat
  BY SMT, <1>1, <1>2, <1>3
<1>5. PICK first : first = CHOOSE p \in later : \A q \in later : p <= q
  OBVIOUS
<1>6. later # {} => first \in later /\ \A q \in later : first <= q
  <2> SUFFICES ASSUME later # {} PROVE first \in later /\ \A q \in later : first <= q
    OBVIOUS
  <2>1. \E p \in later : \A q \in later : p <= q
    BY <1>4, LeastNumber
  <2> QED BY <1>5, <2>1
<1>7. NextSpecial = IF later = {} THEN PositionOf(pc) + 4 ELSE first
  BY <1>1, <1>5 DEF NextSpecial
<1>8. NextSpecial \in Int
  BY SMT, <1>2, <1>3, <1>4, <1>6, <1>7
<1>9. ASSUME NEW a \in DOMAIN code, a > pc - VaddrStart,
             \A b \in DOMAIN code : b > pc - VaddrStart => a <= b
      PROVE  NextSpecial = a + 4096
  <2>1. a + 4096 \in later
    BY SMT, <1>1, <1>2, <1>3, <1>9
  <2>2. ASSUME NEW q \in later PROVE a + 4096 <= q
    <3>1. PICK b \in DOMAIN code : q = b + 4096
      BY SMT, <1>1, <1>2
    <3>2. b > pc - VaddrStart
      BY SMT, <1>1, <1>2, <1>3, <2>2, <3>1
    <3> QED BY SMT, <1>3, <1>9, <3>1, <3>2
  <2>3. first <= a + 4096 /\ a + 4096 <= first /\ first \in Nat /\ later # {}
    <3>1. first \in later /\ \A q \in later : first <= q
      BY <1>6, <2>1
    <3>2. first <= a + 4096
      BY <2>1, <3>1
    <3>3. a + 4096 <= first
      BY <2>2, <3>1
    <3>4. first \in Nat
      BY <1>4, <3>1
    <3> QED BY <2>1, <3>2, <3>3, <3>4
  <2> QED BY SMT, <1>3, <1>7, <2>1, <2>3
<1> QED BY <1>8, <1>9

(* What the instruction that is fetched does.                              *)
LEMMA RunFacts ==
  ASSUME Run, CanRun, Fetched.op # "ecall",
         Fetched.op = "lw" => Reg(Fetched.rs) + Fetched.imm \in DOMAIN mem
  PROVE  /\ UNCHANGED <<phase, todo, functions, code, code_size, file>>
         /\ Fetched.op = "plain" =>
              /\ pc' = NextSpecial - file.p_offset + file.p_vaddr
              /\ UNCHANGED <<regs, mem, result>>
         /\ Fetched.op = "addi" =>
              /\ pc' = pc + 4 /\ regs' = SetReg(Fetched.rd, Reg(Fetched.rs) + Fetched.imm)
              /\ UNCHANGED <<mem, result>>
         /\ Fetched.op = "sw" =>
              /\ pc' = pc + 4
              /\ mem' = Merged(mem, [a \in {Reg(Fetched.rs) + Fetched.imm} |-> Reg(Fetched.rd)])
              /\ UNCHANGED <<regs, result>>
         /\ Fetched.op = "lw" =>
              /\ pc' = pc + 4 /\ regs' = SetReg(Fetched.rd, mem[Reg(Fetched.rs) + Fetched.imm])
              /\ UNCHANGED <<mem, result>>
         /\ Fetched.op = "jal" => pc' = pc + Fetched.imm /\ UNCHANGED <<regs, mem, result>>
         /\ Fetched.op = "jalr" =>
              /\ pc' = Reg(Fetched.rs) + Fetched.imm /\ regs' = SetReg(Fetched.rd, pc + 4)
              /\ UNCHANGED <<mem, result>>
         /\ Fetched.op = "auipc" =>
              /\ pc' = pc + 4 /\ regs' = SetReg(Fetched.rd, pc + Fetched.imm)
              /\ UNCHANGED <<mem, result>>
         /\ Fetched.op = "result" =>
              /\ pc' = pc + 4 /\ result' = Fetched.rd /\ UNCHANGED <<regs, mem>>
<1>1. ~Exit /\ ~Crash
  BY DEF Exit, Crash, CanRun
<1>2. \E op \in {"plain", "addi", "sw", "lw", "jal", "jalr", "auipc", "result"} :
        Fetched.op = op /\ Execute(op)
  BY <1>1 DEF Run, Plain, Addi, Store, LoadWord, Jal, Jalr, Auipc, SetResult, Execute
<1>3. Execute(Fetched.op)
  BY <1>2
<1>4. UNCHANGED <<phase, todo, functions, code, code_size, file>>
  BY <1>3 DEF Execute, compileVars
<1>5. CASE Plain
  BY <1>4, <1>5 DEF Plain, Execute
<1>6. CASE Addi
  BY <1>4, <1>6 DEF Addi, Execute
<1>7. CASE Store
  BY <1>4, <1>7 DEF Store, Execute
<1>8. CASE LoadWord
  BY <1>4, <1>8 DEF LoadWord, Execute
<1>9. CASE Jal
  BY <1>4, <1>9 DEF Jal, Execute
<1>10. CASE Jalr
  BY <1>4, <1>10 DEF Jalr, Execute
<1>11. CASE Auipc
  BY <1>4, <1>11 DEF Auipc, Execute
<1>12. CASE SetResult
  BY <1>4, <1>12 DEF SetResult, Execute
<1> QED BY <1>1, <1>5, <1>6, <1>7, <1>8, <1>9, <1>10, <1>11, <1>12 DEF Run

LEMMA RegFacts ==
  ASSUME CpuOK, NEW r \in Register \cup {"zero"}
  PROVE  /\ Reg(r) \in Int
         /\ \A value \in Int :
              /\ DOMAIN SetReg(r, value) = Register
              /\ \A q \in Register : SetReg(r, value)[q] \in Int
              /\ \A q \in Register : q # r => SetReg(r, value)[q] = regs[q]
              /\ r # "zero" => SetReg(r, value)[r] = value
<1>1. "zero" \notin Register
  BY DEF Register
<1>2. DOMAIN regs = Register /\ \A q \in Register : regs[q] \in Int
  BY DEF CpuOK
<1>3. Reg(r) \in Int
  BY <1>1, <1>2 DEF Reg
<1>4. ASSUME NEW value \in Int
      PROVE  /\ DOMAIN SetReg(r, value) = Register
             /\ \A q \in Register : SetReg(r, value)[q] \in Int
             /\ \A q \in Register : q # r => SetReg(r, value)[q] = regs[q]
             /\ r # "zero" => SetReg(r, value)[r] = value
  <2>1. CASE r = "zero"
    BY <1>1, <1>2, <2>1 DEF SetReg
  <2>2. CASE r # "zero"
    <3>1. SetReg(r, value) = [regs EXCEPT ![r] = value] /\ r \in Register
      BY <2>2 DEF SetReg
    <3> QED BY <1>2, <2>2, <3>1
  <2> QED BY <2>1, <2>2
<1> QED BY <1>3, <1>4

(* Wherever the processor is sent, it computes with numbers.               *)
LEMMA CpuTyped ==
  ASSUME ImageInv, Run
  PROVE  CpuOK'
<1> USE DEF ImageInv
<1>1. /\ pc \in Int /\ pc + 4 \in Int /\ DOMAIN regs = Register /\ \A r \in Register : regs[r] \in Int
      /\ DOMAIN mem \subseteq Int /\ \A a \in DOMAIN mem : mem[a] \in Int
      /\ result \in Functions \cup {Nothing}
  BY DEF CpuOK
<1>2. phase = "running"
  BY DEF Run, Plain, Addi, Store, LoadWord, Jal, Jalr, Auipc, SetResult, Execute, Exit, Crash, CanRun
<1>3. CASE Exit \/ Crash
  BY <1>1, <1>3 DEF Exit, Crash, cpuVars, CpuOK
<1>4. CASE ~(Exit \/ Crash)
  <2>1. /\ CanRun /\ Fetched.op # "ecall"
        /\ Fetched.op = "lw" => Reg(Fetched.rs) + Fetched.imm \in DOMAIN mem
    BY <1>4 DEF Run, Plain, Addi, Store, LoadWord, Jal, Jalr, Auipc, SetResult, Execute
  <2>2. PICK i : i = Fetched
    OBVIOUS
  <2>3. phase' = "running"
    BY <1>2, <2>1, RunFacts
  <2>4. \/ i.op = "plain"
        \/ i.op \in {"addi", "sw", "lw", "jal", "jalr", "auipc", "result"} /\ WellTyped(i)
    BY <1>2, <2>1, <2>2, FetchedTyped DEF WellTyped
  <2>5. CASE i.op = "plain"
    <3>1. NextSpecial - file.p_offset + file.p_vaddr \in Int
      BY SMT, <1>2, NextSpecialFacts, FetchFacts, AddressFacts
    <3> QED BY <1>1, <2>1, <2>2, <2>3, <2>5, <3>1, RunFacts DEF CpuOK
  <2>6. CASE i.op \in {"addi", "jalr"} /\ WellTyped(i)
    <3>1. i.rd \in Register \cup {"zero"} /\ i.rs \in Register \cup {"zero"} /\ i.imm \in Int
      BY <2>6 DEF WellTyped
    <3>2. Reg(i.rs) + i.imm \in Int
      BY <3>1, RegFacts
    <3>3. /\ pc' = pc + 4 \/ pc' = Reg(i.rs) + i.imm
          /\ regs' = SetReg(i.rd, Reg(i.rs) + i.imm) \/ regs' = SetReg(i.rd, pc + 4)
          /\ UNCHANGED <<mem, result>>
      BY <2>1, <2>2, <2>6, RunFacts
    <3>4. DOMAIN regs' = Register /\ \A r \in Register : regs'[r] \in Int
      BY <1>1, <3>1, <3>2, <3>3, RegFacts
    <3> QED BY <1>1, <2>3, <3>2, <3>3, <3>4 DEF CpuOK
  <2>7. CASE i.op = "sw" /\ WellTyped(i)
    <3>1. i.rd \in Register \cup {"zero"} /\ i.rs \in Register \cup {"zero"} /\ i.imm \in Int
      BY <2>7 DEF WellTyped
    <3>2. Reg(i.rs) + i.imm \in Int /\ Reg(i.rd) \in Int
      BY <3>1, RegFacts
    <3>3. /\ pc' = pc + 4 /\ UNCHANGED <<regs, result>>
          /\ mem' = Merged(mem, [a \in {Reg(i.rs) + i.imm} |-> Reg(i.rd)])
      BY <2>1, <2>2, <2>7, RunFacts
    <3>4. DOMAIN mem' \subseteq Int /\ \A a \in DOMAIN mem' : mem'[a] \in Int
      BY <1>1, <3>2, <3>3 DEF Merged
    <3> QED BY <1>1, <2>3, <3>3, <3>4 DEF CpuOK
  <2>8. CASE i.op = "lw" /\ WellTyped(i)
    <3>1. i.rd \in Register \cup {"zero"} /\ Reg(i.rs) + i.imm \in DOMAIN mem
      BY <2>1, <2>2, <2>8 DEF WellTyped
    <3>2. /\ pc' = pc + 4 /\ UNCHANGED <<mem, result>>
          /\ regs' = SetReg(i.rd, mem[Reg(i.rs) + i.imm])
      BY <2>1, <2>2, <2>8, RunFacts
    <3>3. mem[Reg(i.rs) + i.imm] \in Int
      BY <1>1, <3>1
    <3>4. DOMAIN regs' = Register /\ \A r \in Register : regs'[r] \in Int
      BY <3>1, <3>2, <3>3, RegFacts
    <3> QED BY <1>1, <2>3, <3>2, <3>4 DEF CpuOK
  <2>9. CASE i.op = "jal" /\ WellTyped(i)
    <3>1. pc' = pc + i.imm /\ i.imm \in Int /\ UNCHANGED <<regs, mem, result>>
      BY <2>1, <2>2, <2>9, RunFacts DEF WellTyped
    <3>2. pc' \in Int
      BY <1>1, <3>1
    <3> QED BY <1>1, <2>3, <3>1, <3>2 DEF CpuOK
  <2>10. CASE i.op = "auipc" /\ WellTyped(i)
    <3>1. /\ pc' = pc + 4 /\ i.imm \in Int /\ i.rd \in Register \cup {"zero"}
          /\ regs' = SetReg(i.rd, pc + i.imm) /\ UNCHANGED <<mem, result>>
      BY <2>1, <2>2, <2>10, RunFacts DEF WellTyped
    <3>2. pc + i.imm \in Int
      BY <1>1, <3>1
    <3>3. DOMAIN regs' = Register /\ \A r \in Register : regs'[r] \in Int
      BY <3>1, <3>2, RegFacts
    <3> QED BY <1>1, <2>3, <3>1, <3>3 DEF CpuOK
  <2>11. CASE i.op = "result" /\ WellTyped(i)
    <3>1. /\ pc' = pc + 4 /\ i.rd \in Functions /\ result' = i.rd /\ UNCHANGED <<regs, mem>>
      BY <2>1, <2>2, <2>11, RunFacts DEF WellTyped
    <3> QED BY <1>1, <2>3, <3>1 DEF CpuOK
  <2> QED BY <2>4, <2>5, <2>6, <2>7, <2>8, <2>9, <2>10, <2>11
<1> QED BY <1>3, <1>4

(* The instructions of the runtime and of main, and what their immediates  *)
(* have become.                                                            *)
LEMMA Places ==
  ASSUME ImageInv, phase = "running",
         NEW body \in BodySizes, NEW flush \in FlushSizes, NEW frame \in FrameSizes,
         MainPlaced(body, flush, frame),
         NEW s, s = Start, NEW move, move = s + Move(body),
         NEW epilogue, epilogue = s + EpilogueOf(body, flush)
  PROVE  /\ pc = VaddrStart + 0 =>
              CanRun /\ Fetched = [op |-> "auipc", rd |-> "ra", imm |-> Upper20(s)]
         /\ pc = VaddrStart + 4 =>
              CanRun /\ Fetched = [op |-> "jalr", rd |-> "ra", rs |-> "ra", imm |-> Imm12(s)]
         /\ pc = VaddrStart + 8 =>
              CanRun /\ Fetched = [op |-> "addi", rd |-> "a7", rs |-> "zero", imm |-> 93]
         /\ pc = VaddrStart + 12 => CanRun /\ Fetched = [op |-> "ecall"]
         /\ pc = VaddrStart + s =>
              CanRun /\ Fetched = [op |-> "addi", rd |-> "sp", rs |-> "sp", imm |-> -frame]
         /\ pc = VaddrStart + (s + 4) =>
              CanRun /\ Fetched = [op |-> "sw", rd |-> "ra", rs |-> "sp", imm |-> frame - 4]
         /\ pc = VaddrStart + (s + 8) =>
              CanRun /\ Fetched = [op |-> "sw", rd |-> "fp", rs |-> "sp", imm |-> frame - 8]
         /\ pc = VaddrStart + (s + 12) =>
              CanRun /\ Fetched = [op |-> "addi", rd |-> "fp", rs |-> "sp", imm |-> frame]
         /\ pc = VaddrStart + move => CanRun /\ Fetched = [op |-> "result", rd |-> main]
         /\ pc = VaddrStart + (move + 4) =>
              CanRun /\ Fetched = [op |-> "jal", imm |-> 28 + 4 * flush]
         /\ pc = VaddrStart + epilogue =>
              CanRun /\ Fetched = [op |-> "addi", rd |-> "sp", rs |-> "fp", imm |-> 0]
         /\ pc = VaddrStart + (epilogue + 4) =>
              CanRun /\ Fetched = [op |-> "lw", rd |-> "fp", rs |-> "sp", imm |-> -8]
         /\ pc = VaddrStart + (epilogue + 8) =>
              CanRun /\ Fetched = [op |-> "lw", rd |-> "ra", rs |-> "sp", imm |-> -4]
         /\ pc = VaddrStart + (epilogue + 12) =>
              CanRun /\ Fetched = [op |-> "jalr", rd |-> "zero", rs |-> "ra", imm |-> 0]
<1>1. \A a \in DOMAIN code : pc = VaddrStart + a => CanRun /\ Fetched = code[a]
  BY FetchFacts
<1>2. /\ {0, 4, 8, 12} \subseteq DOMAIN code
      /\ code[0] = auipc("ra", s) /\ code[4] = jalr("ra", "ra", s)
      /\ code[8] = addi("a7", "zero", 93) /\ code[12] = ecall
  BY DEF ImageInv, ObjectOK, Linked
<1>3. /\ {s, s + 4, s + 8, s + 12, move, move + 4,
           epilogue, epilogue + 4, epilogue + 8, epilogue + 12} \subseteq DOMAIN code
      /\ code[s] = addi("sp", "sp", -frame) /\ code[s + 4] = sw("sp", "ra", frame - 4)
      /\ code[s + 8] = sw("sp", "fp", frame - 8) /\ code[s + 12] = addi("fp", "sp", frame)
      /\ code[move] = set_a0(main) /\ code[move + 4] = jal(28 + 4 * flush)
      /\ code[epilogue] = addi("sp", "fp", 0) /\ code[epilogue + 4] = lw("fp", "sp", -8)
      /\ code[epilogue + 8] = lw("ra", "sp", -4) /\ code[epilogue + 12] = jalr("zero", "ra", 0)
  BY DEF MainPlaced, Placed
<1>4. frame \in 16 .. 2032 /\ flush \in 0 .. 15
  BY SizesFacts
<1>5. /\ Imm12(-frame) = -frame /\ Imm12(frame) = frame
      /\ Imm12(frame - 4) = frame - 4 /\ Imm12(frame - 8) = frame - 8
  <2>1. /\ -frame \in Int /\ frame \in Int /\ frame - 4 \in Int /\ frame - 8 \in Int
        /\ -2048 <= -frame /\ -frame <= 2047 /\ -2048 <= frame - 8 /\ frame <= 2047
    BY SMT, <1>4
  <2>2. \A n \in Int : -2048 <= n /\ n <= 2047 => Imm12(n) = n
    BY SmallKept
  <2> QED BY SMT, <2>1, <2>2
<1>6. Imm12(0) = 0 /\ Imm12(-8) = -8 /\ Imm12(-4) = -4 /\ Imm12(93) = 93
  <2>1. /\ 0 \in Int /\ -8 \in Int /\ -4 \in Int /\ 93 \in Int
        /\ -2048 <= -8 /\ -8 <= 2047 /\ -2048 <= -4 /\ -4 <= 2047
        /\ -2048 <= 0 /\ 0 <= 2047 /\ -2048 <= 93 /\ 93 <= 2047
    BY SMT
  <2>2. \A n \in Int : -2048 <= n /\ n <= 2047 => Imm12(n) = n
    BY SmallKept
  <2> QED BY SMT, <2>1, <2>2
<1>7. Jump21(28 + 4 * flush) = 28 + 4 * flush
  <2>1. 28 + 4 * flush \in 0 .. 1000 /\ (28 + 4 * flush) % 2 = 0 /\ 28 + 4 * flush \in Int
    BY SMT, <1>4
  <2>2. \A n \in Int : 0 <= n /\ n <= 1000 /\ n % 2 = 0 => Jump21(n) = n
    BY JumpKept
  <2> QED BY <2>1, <2>2
<1>8. /\ pc = VaddrStart + 0 => CanRun /\ Fetched = auipc("ra", s)
      /\ pc = VaddrStart + 4 => CanRun /\ Fetched = jalr("ra", "ra", s)
      /\ pc = VaddrStart + 8 => CanRun /\ Fetched = addi("a7", "zero", 93)
      /\ pc = VaddrStart + 12 => CanRun /\ Fetched = ecall
  BY <1>1, <1>2
<1>9. /\ pc = VaddrStart + s => CanRun /\ Fetched = addi("sp", "sp", -frame)
      /\ pc = VaddrStart + (s + 4) => CanRun /\ Fetched = sw("sp", "ra", frame - 4)
      /\ pc = VaddrStart + (s + 8) => CanRun /\ Fetched = sw("sp", "fp", frame - 8)
      /\ pc = VaddrStart + (s + 12) => CanRun /\ Fetched = addi("fp", "sp", frame)
  BY <1>1, <1>3
<1>10. /\ pc = VaddrStart + move => CanRun /\ Fetched = set_a0(main)
       /\ pc = VaddrStart + (move + 4) => CanRun /\ Fetched = jal(28 + 4 * flush)
  BY <1>1, <1>3
<1>11. /\ pc = VaddrStart + epilogue => CanRun /\ Fetched = addi("sp", "fp", 0)
       /\ pc = VaddrStart + (epilogue + 4) => CanRun /\ Fetched = lw("fp", "sp", -8)
       /\ pc = VaddrStart + (epilogue + 8) => CanRun /\ Fetched = lw("ra", "sp", -4)
       /\ pc = VaddrStart + (epilogue + 12) => CanRun /\ Fetched = jalr("zero", "ra", 0)
  BY <1>1, <1>3
<1>12. /\ auipc("ra", s) = [op |-> "auipc", rd |-> "ra", imm |-> Upper20(s)]
       /\ jalr("ra", "ra", s) = [op |-> "jalr", rd |-> "ra", rs |-> "ra", imm |-> Imm12(s)]
       /\ addi("a7", "zero", 93) = [op |-> "addi", rd |-> "a7", rs |-> "zero", imm |-> 93]
       /\ ecall = [op |-> "ecall"]
  BY <1>6 DEF auipc, jalr, addi, ecall
<1>13. /\ addi("sp", "sp", -frame) = [op |-> "addi", rd |-> "sp", rs |-> "sp", imm |-> -frame]
       /\ sw("sp", "ra", frame - 4) = [op |-> "sw", rd |-> "ra", rs |-> "sp", imm |-> frame - 4]
       /\ sw("sp", "fp", frame - 8) = [op |-> "sw", rd |-> "fp", rs |-> "sp", imm |-> frame - 8]
       /\ addi("fp", "sp", frame) = [op |-> "addi", rd |-> "fp", rs |-> "sp", imm |-> frame]
  BY <1>5 DEF addi, sw
<1>14. /\ set_a0(main) = [op |-> "result", rd |-> main]
       /\ jal(28 + 4 * flush) = [op |-> "jal", imm |-> 28 + 4 * flush]
  BY <1>7 DEF set_a0, jal
<1>15. /\ addi("sp", "fp", 0) = [op |-> "addi", rd |-> "sp", rs |-> "fp", imm |-> 0]
       /\ lw("fp", "sp", -8) = [op |-> "lw", rd |-> "fp", rs |-> "sp", imm |-> -8]
       /\ lw("ra", "sp", -4) = [op |-> "lw", rd |-> "ra", rs |-> "sp", imm |-> -4]
       /\ jalr("zero", "ra", 0) = [op |-> "jalr", rd |-> "zero", rs |-> "ra", imm |-> 0]
  BY <1>6 DEF addi, lw, jalr
<1>16. /\ pc = VaddrStart + 0 =>
              CanRun /\ Fetched = [op |-> "auipc", rd |-> "ra", imm |-> Upper20(s)]
       /\ pc = VaddrStart + 4 =>
              CanRun /\ Fetched = [op |-> "jalr", rd |-> "ra", rs |-> "ra", imm |-> Imm12(s)]
       /\ pc = VaddrStart + 8 =>
              CanRun /\ Fetched = [op |-> "addi", rd |-> "a7", rs |-> "zero", imm |-> 93]
       /\ pc = VaddrStart + 12 => CanRun /\ Fetched = [op |-> "ecall"]
  BY <1>8, <1>12
<1> QED BY <1>9, <1>10, <1>11, <1>13, <1>14, <1>15, <1>16

LEMMA OffsetFacts ==
  ASSUME ImageInv, phase = "running",
         NEW body \in BodySizes, NEW flush \in FlushSizes, NEW frame \in FrameSizes,
         MainPlaced(body, flush, frame)
  PROVE  /\ Start \in Nat /\ Start % 4 = 0 /\ Start = functions[main] + 16
         /\ ~MainIsFar => Upper20(Start) + Imm12(Start) = Start
         /\ Upper20(Start) \in Int /\ Imm12(Start) \in Int
<1>1. Linked
  BY DEF Linked
<1>2. functions[main] \in Nat /\ functions[main] % 4 = 0
  BY <1>1 DEF ImageInv, ObjectOK
<1>3. Start = functions[main] + 16
  BY <1>1 DEF Start
<1>4. Start \in Nat /\ Start % 4 = 0
  BY <1>2, <1>3
<1>5. ~MainIsFar => (Start \div 2048) % 2 # 1
  BY SMT, <1>3 DEF MainIsFar
<1>6. ~MainIsFar => Upper20(Start) + Imm12(Start) = Start
  BY <1>4, <1>5, HalvesMeet
<1>7. Start \in Int
  BY <1>4
<1>8. Upper20(Start) \in Int /\ Imm12(Start) \in Int
  BY <1>7, ImmediatesKept
<1> QED BY <1>3, <1>4, <1>6, <1>8

(* A step of the run that is not its last.                                 *)
LEMMA RunGoesOn ==
  ASSUME ImageInv, Run, phase = "running",
         UNCHANGED <<phase, todo, functions, code, code_size, file>>,
         NEW body \in BodySizes, NEW flush \in FlushSizes, NEW frame \in FrameSizes,
         MainPlaced(body, flush, frame),
         \/ AtRuntime' \/ AtPrologue(frame)' \/ AtBody(body, flush, frame)'
         \/ AtEpilogue(body, flush, frame)' \/ AtExit'
  PROVE  ImageInv'
<1>1. phase' = "running" /\ Linked' = Linked
  BY DEF Linked
<1>2. ObjectOK' /\ MainPlaced(body, flush, frame)'
  BY <1>1, ObjectStays DEF ImageInv
<1>3. FileOK'
  BY DEF ImageInv, FileOK
<1>4. CpuOK'
  BY CpuTyped
<1>5. RunOK'
  BY <1>1, <1>2 DEF RunOK
<1> QED BY <1>2, <1>3, <1>4, <1>5 DEF ImageInv

(* The instructions that set a register, and the store.                    *)
LEMMA SetsRegister ==
  ASSUME CpuOK, NEW r \in Register, NEW value \in Int, regs' = SetReg(r, value)
  PROVE  regs'[r] = value /\ \A q \in Register : q # r => regs'[q] = regs[q]
<1>1. r # "zero" /\ r \in Register \cup {"zero"}
  BY DEF Register
<1>2. SetReg(r, value)[r] = value /\ \A q \in Register : q # r => SetReg(r, value)[q] = regs[q]
  BY <1>1, RegFacts
<1> QED BY <1>2

LEMMA ReadsRegister ==
  ASSUME NEW r \in Register
  PROVE  Reg(r) = regs[r] /\ Reg("zero") = 0
BY DEF Reg, Register

LEMMA RegisterNames ==
  /\ "ra" \in Register /\ "sp" \in Register /\ "fp" \in Register /\ "a7" \in Register
BY DEF Register

LEMMA StoresWord ==
  ASSUME NEW a, NEW value, mem' = Merged(mem, [b \in {a} |-> value])
  PROVE  /\ a \in DOMAIN mem' /\ mem'[a] = value
         /\ \A b \in DOMAIN mem : b # a => b \in DOMAIN mem' /\ mem'[b] = mem[b]
BY DEF Merged

(* build_runtime_code's call reaches main.                                 *)
LEMMA RuntimeSteps ==
  ASSUME ImageInv, Run, phase = "running", ~MainIsFar,
         NEW body \in BodySizes, NEW flush \in FlushSizes, NEW frame \in FrameSizes,
         MainPlaced(body, flush, frame), AtRuntime
  PROVE  ImageInv'
<1>1. PICK s, move, epilogue : /\ s = Start /\ move = s + Move(body)
                               /\ epilogue = s + EpilogueOf(body, flush)
  OBVIOUS
<1>2. /\ s \in Nat /\ s % 4 = 0 /\ Upper20(s) \in Int /\ Imm12(s) \in Int
      /\ Upper20(s) + Imm12(s) = s /\ VaddrStart \in Nat /\ StackTop \in Nat
      /\ body \in Nat /\ flush \in 0 .. 15 /\ frame \in 16 .. 2032
      /\ move \in Nat /\ epilogue \in Nat /\ pc \in Int /\ CpuOK
  <2>1. /\ Start \in Nat /\ Start % 4 = 0 /\ Upper20(Start) \in Int /\ Imm12(Start) \in Int
        /\ Upper20(Start) + Imm12(Start) = Start
    BY OffsetFacts
  <2>2. /\ body \in Nat /\ flush \in 0 .. 15 /\ frame \in 16 .. 2032
        /\ Move(body) \in Nat /\ EpilogueOf(body, flush) \in Nat
    BY SizesFacts
  <2>3. pc \in Int /\ CpuOK
    BY DEF ImageInv, CpuOK
  <2>4. move \in Nat /\ epilogue \in Nat
    BY <1>1, <2>1, <2>2
  <2> QED BY <1>1, <2>1, <2>2, <2>3, <2>4, AddressFacts
<1>3. CASE Is(0, StackTop, 0)
  <2>1. CanRun /\ Fetched = [op |-> "auipc", rd |-> "ra", imm |-> Upper20(s)] /\ pc = VaddrStart + 0
    BY <1>1, <1>3, Places DEF Is
  <2>2. /\ UNCHANGED <<phase, todo, functions, code, code_size, file, mem, result>>
        /\ pc' = pc + 4 /\ regs' = SetReg("ra", pc + Upper20(s))
    BY <2>1, RunFacts
  <2>3. pc + Upper20(s) \in Int /\ pc + Upper20(s) = VaddrStart + Upper20(s) /\ pc' = VaddrStart + 4
    BY <1>2, <2>1, <2>2
  <2>4. regs'["ra"] = VaddrStart + Upper20(s) /\ regs'["sp"] = StackTop /\ regs'["fp"] = 0
    BY <1>2, <1>3, <2>2, <2>3, SetsRegister, RegisterNames DEF Is
  <2>5. Start' = s
    BY <1>1, <2>2 DEF Start, Linked
  <2>6. AtRuntime'
    BY <2>3, <2>4, <2>5 DEF AtRuntime, Is
  <2> QED BY <2>2, <2>6, RunGoesOn
<1>4. CASE Is(4, StackTop, 0) /\ regs["ra"] = VaddrStart + Upper20(Start)
  <2>1. /\ CanRun /\ Fetched = [op |-> "jalr", rd |-> "ra", rs |-> "ra", imm |-> Imm12(s)]
        /\ pc = VaddrStart + 4
    BY <1>1, <1>4, Places DEF Is
  <2>2. /\ UNCHANGED <<phase, todo, functions, code, code_size, file, mem, result>>
        /\ pc' = Reg("ra") + Imm12(s) /\ regs' = SetReg("ra", pc + 4)
    BY <2>1, RunFacts
  <2>3. pc + 4 \in Int /\ pc + 4 = VaddrStart + 8 /\ Reg("ra") = VaddrStart + Upper20(s)
    BY <1>1, <1>2, <1>4, <2>1, ReadsRegister, RegisterNames
  <2>4. pc' = VaddrStart + s
    BY <1>2, <2>2, <2>3
  <2>5. regs'["ra"] = VaddrStart + 8 /\ regs'["sp"] = StackTop /\ regs'["fp"] = 0
    BY <1>2, <1>4, <2>2, <2>3, SetsRegister, RegisterNames DEF Is
  <2>6. Start' = s
    BY <1>1, <2>2 DEF Start, Linked
  <2>7. AtPrologue(frame)'
    BY <2>4, <2>5, <2>6 DEF AtPrologue, Is
  <2> QED BY <2>2, <2>7, RunGoesOn
<1> QED BY <1>3, <1>4 DEF AtRuntime

(* The prologue makes the frame.                                           *)
LEMMA PrologueSteps ==
  ASSUME ImageInv, Run, phase = "running", ~MainIsFar,
         NEW body \in BodySizes, NEW flush \in FlushSizes, NEW frame \in FrameSizes,
         MainPlaced(body, flush, frame), AtPrologue(frame)
  PROVE  ImageInv'
<1>1. PICK s, move, epilogue : /\ s = Start /\ move = s + Move(body)
                               /\ epilogue = s + EpilogueOf(body, flush)
  OBVIOUS
<1>2. /\ s \in Nat /\ s % 4 = 0 /\ Upper20(s) \in Int /\ Imm12(s) \in Int
      /\ Upper20(s) + Imm12(s) = s /\ VaddrStart \in Nat /\ StackTop \in Nat
      /\ body \in Nat /\ flush \in 0 .. 15 /\ frame \in 16 .. 2032
      /\ move \in Nat /\ epilogue \in Nat /\ pc \in Int /\ CpuOK
  <2>1. /\ Start \in Nat /\ Start % 4 = 0 /\ Upper20(Start) \in Int /\ Imm12(Start) \in Int
        /\ Upper20(Start) + Imm12(Start) = Start
    BY OffsetFacts
  <2>2. /\ body \in Nat /\ flush \in 0 .. 15 /\ frame \in 16 .. 2032
        /\ Move(body) \in Nat /\ EpilogueOf(body, flush) \in Nat
    BY SizesFacts
  <2>3. pc \in Int /\ CpuOK
    BY DEF ImageInv, CpuOK
  <2>4. move \in Nat /\ epilogue \in Nat
    BY <1>1, <2>1, <2>2
  <2> QED BY <1>1, <2>1, <2>2, <2>3, <2>4, AddressFacts
<1>3. regs["ra"] = VaddrStart + 8
  BY DEF AtPrologue
<1>4. CASE Is(Start, StackTop, 0)
  <2>1. /\ CanRun /\ Fetched = [op |-> "addi", rd |-> "sp", rs |-> "sp", imm |-> -frame]
        /\ pc = VaddrStart + s
    BY <1>1, <1>4, Places DEF Is
  <2>2. /\ UNCHANGED <<phase, todo, functions, code, code_size, file, mem, result>>
        /\ pc' = pc + 4 /\ regs' = SetReg("sp", Reg("sp") + (-frame))
    BY <2>1, RunFacts
  <2>3. Reg("sp") + (-frame) = StackTop - frame /\ StackTop - frame \in Int
    BY <1>2, <1>4, ReadsRegister, RegisterNames DEF Is
  <2>4. pc' = VaddrStart + (s + 4)
    BY <1>2, <2>1, <2>2
  <2>5. regs'["ra"] = VaddrStart + 8 /\ regs'["sp"] = StackTop - frame /\ regs'["fp"] = 0
    BY <1>2, <1>3, <1>4, <2>2, <2>3, SetsRegister, RegisterNames DEF Is
  <2>6. Start' = s
    BY <1>1, <2>2 DEF Start, Linked
  <2>7. AtPrologue(frame)'
    BY <2>4, <2>5, <2>6 DEF AtPrologue, Is
  <2> QED BY <2>2, <2>7, RunGoesOn
<1>5. CASE Is(Start + 4, StackTop - frame, 0)
  <2>1. /\ CanRun /\ Fetched = [op |-> "sw", rd |-> "ra", rs |-> "sp", imm |-> frame - 4]
        /\ pc = VaddrStart + (s + 4)
    BY <1>1, <1>5, Places DEF Is
  <2>2. /\ UNCHANGED <<phase, todo, functions, code, code_size, file, regs, result>>
        /\ pc' = pc + 4 /\ mem' = Merged(mem, [a \in {Reg("sp") + (frame - 4)} |-> Reg("ra")])
    BY <2>1, RunFacts
  <2>3. Reg("sp") + (frame - 4) = StackTop - 4 /\ Reg("ra") = VaddrStart + 8
    BY <1>2, <1>3, <1>5, ReadsRegister, RegisterNames DEF Is
  <2>4. pc' = VaddrStart + (s + 8)
    BY <1>2, <2>1, <2>2
  <2>5. Returns'
    BY <2>2, <2>3, StoresWord DEF Returns
  <2>6. Start' = s
    BY <1>1, <2>2 DEF Start, Linked
  <2>7. AtPrologue(frame)'
    BY <1>3, <1>5, <2>2, <2>4, <2>5, <2>6 DEF AtPrologue, Is
  <2> QED BY <2>2, <2>7, RunGoesOn
<1>6. CASE Is(Start + 8, StackTop - frame, 0) /\ Returns
  <2>1. /\ CanRun /\ Fetched = [op |-> "sw", rd |-> "fp", rs |-> "sp", imm |-> frame - 8]
        /\ pc = VaddrStart + (s + 8)
    BY <1>1, <1>6, Places DEF Is
  <2>2. /\ UNCHANGED <<phase, todo, functions, code, code_size, file, regs, result>>
        /\ pc' = pc + 4 /\ mem' = Merged(mem, [a \in {Reg("sp") + (frame - 8)} |-> Reg("fp")])
    BY <2>1, RunFacts
  <2>3. Reg("sp") + (frame - 8) = StackTop - 8 /\ Reg("fp") = 0 /\ StackTop - 8 # StackTop - 4
    BY <1>2, <1>6, ReadsRegister, RegisterNames DEF Is
  <2>4. pc' = VaddrStart + (s + 12)
    BY <1>2, <2>1, <2>2
  <2>5. Returns' /\ Framed'
    <3>1. mem' = Merged(mem, [a \in {StackTop - 8} |-> 0])
      BY <2>2, <2>3
    <3>2. /\ StackTop - 8 \in DOMAIN mem' /\ mem'[StackTop - 8] = 0
          /\ \A b \in DOMAIN mem : b # StackTop - 8 => b \in DOMAIN mem' /\ mem'[b] = mem[b]
      BY <3>1, StoresWord
    <3> QED BY <1>6, <2>3, <3>2 DEF Returns, Framed
  <2>6. Start' = s
    BY <1>1, <2>2 DEF Start, Linked
  <2>7. AtPrologue(frame)'
    BY <1>3, <1>6, <2>2, <2>4, <2>5, <2>6 DEF AtPrologue, Is
  <2> QED BY <2>2, <2>7, RunGoesOn
<1>7. CASE Is(Start + 12, StackTop - frame, 0) /\ Returns /\ Framed
  <2>1. /\ CanRun /\ Fetched = [op |-> "addi", rd |-> "fp", rs |-> "sp", imm |-> frame]
        /\ pc = VaddrStart + (s + 12)
    BY <1>1, <1>7, Places DEF Is
  <2>2. /\ UNCHANGED <<phase, todo, functions, code, code_size, file, mem, result>>
        /\ pc' = pc + 4 /\ regs' = SetReg("fp", Reg("sp") + frame)
    BY <2>1, RunFacts
  <2>3. Reg("sp") + frame = StackTop /\ StackTop \in Int
    BY <1>2, <1>7, ReadsRegister, RegisterNames DEF Is
  <2>4. pc' = VaddrStart + (s + 16)
    BY <1>2, <2>1, <2>2
  <2>5. regs'["sp"] = StackTop - frame /\ regs'["fp"] = StackTop
    BY <1>2, <1>7, <2>2, <2>3, SetsRegister, RegisterNames DEF Is
  <2>6. Start' = s /\ Returns' /\ Framed'
    BY <1>1, <1>7, <2>2 DEF Start, Linked, Returns, Framed
  <2>7. AtBody(body, flush, frame)'
    BY <2>4, <2>5, <2>6 DEF AtBody, Is
  <2> QED BY <2>2, <2>7, RunGoesOn
<1> QED BY <1>4, <1>5, <1>6, <1>7 DEF AtPrologue

(* The body runs to the return, whose jump goes to the epilogue.           *)
LEMMA BodySteps ==
  ASSUME ImageInv, Run, phase = "running", ~MainIsFar,
         NEW body \in BodySizes, NEW flush \in FlushSizes, NEW frame \in FrameSizes,
         MainPlaced(body, flush, frame), AtBody(body, flush, frame)
  PROVE  ImageInv'
<1>1. PICK s, move, epilogue : /\ s = Start /\ move = s + Move(body)
                               /\ epilogue = s + EpilogueOf(body, flush)
  OBVIOUS
<1>2. /\ s \in Nat /\ s % 4 = 0 /\ Upper20(s) \in Int /\ Imm12(s) \in Int
      /\ Upper20(s) + Imm12(s) = s /\ VaddrStart \in Nat /\ StackTop \in Nat
      /\ body \in Nat /\ flush \in 0 .. 15 /\ frame \in 16 .. 2032
      /\ move \in Nat /\ epilogue \in Nat /\ pc \in Int /\ CpuOK
  <2>1. /\ Start \in Nat /\ Start % 4 = 0 /\ Upper20(Start) \in Int /\ Imm12(Start) \in Int
        /\ Upper20(Start) + Imm12(Start) = Start
    BY OffsetFacts
  <2>2. /\ body \in Nat /\ flush \in 0 .. 15 /\ frame \in 16 .. 2032
        /\ Move(body) \in Nat /\ EpilogueOf(body, flush) \in Nat
    BY SizesFacts
  <2>3. pc \in Int /\ CpuOK
    BY DEF ImageInv, CpuOK
  <2>4. move \in Nat /\ epilogue \in Nat
    BY <1>1, <2>1, <2>2
  <2> QED BY <1>1, <2>1, <2>2, <2>3, <2>4, AddressFacts
<1>3. Returns /\ Framed /\ Start + 16 = s + 16 /\ Start + Move(body) = move
  BY <1>1 DEF AtBody
<1>4. CASE Is(move, StackTop - frame, StackTop)
  <2>1. CanRun /\ Fetched = [op |-> "result", rd |-> main] /\ pc = VaddrStart + move
    BY <1>1, <1>4, Places DEF Is
  <2>2. /\ UNCHANGED <<phase, todo, functions, code, code_size, file, regs, mem>>
        /\ pc' = pc + 4 /\ result' = main
    BY <2>1, RunFacts
  <2>3. pc' = VaddrStart + (move + 4)
    BY <1>2, <2>1, <2>2
  <2>4. Start' = s /\ Returns' /\ Framed'
    BY <1>1, <1>3, <2>2 DEF Start, Linked, Returns, Framed
  <2>5. AtBody(body, flush, frame)'
    BY <1>1, <1>4, <2>2, <2>3, <2>4 DEF AtBody, Is
  <2> QED BY <2>2, <2>5, RunGoesOn
<1>5. CASE Is(s + 16, StackTop - frame, StackTop) /\ move # s + 16
  <2>1. /\ move = s + (16 + 4 * body) /\ Size(body, flush) = 16 + 4 * body + 32 + 4 * flush + 16
    BY <1>1 DEF Move, EpilogueOf, Size
  <2>2. /\ move > s + 16 /\ move < s + Size(body, flush) /\ s + 16 < s + Size(body, flush)
        /\ Size(body, flush) \in Nat
    BY <1>2, <1>5, <2>1
  <2>3. /\ move \in DOMAIN code
        /\ \A a \in DOMAIN code : s <= a /\ a < s + Size(body, flush) =>
             a \in {s, s + 4, s + 8, s + 12, move, move + 4,
                   epilogue, epilogue + 4, epilogue + 8, epilogue + 12}
        /\ s + Size(body, flush) <= code_size
    BY <1>1 DEF MainPlaced, Placed
  <2>4. epilogue > move
    BY <1>1, <1>2 DEF Move, EpilogueOf
  <2>5. s + 16 \notin DOMAIN code
    BY <1>2, <2>2, <2>3, <2>4
  <2>6. DOMAIN code \subseteq Nat /\ code_size \in Nat
    BY DEF ImageInv, ObjectOK
  <2>7. \A b \in DOMAIN code : b > s + 16 => move <= b
    <3> SUFFICES ASSUME NEW b \in DOMAIN code, b > s + 16 PROVE move <= b
      OBVIOUS
    <3>1. CASE b < s + Size(body, flush)
      BY <1>2, <2>3, <2>4, <2>6, <3>1
    <3>2. CASE ~(b < s + Size(body, flush))
      BY <1>2, <2>2, <2>6, <3>2
    <3> QED BY <3>1, <3>2
  <2>8. pc = VaddrStart + (s + 16) /\ pc - VaddrStart = s + 16 /\ s + 16 \in Nat
    BY <1>2, <1>5 DEF Is
  <2>9. CanRun /\ Fetched = [op |-> "plain"]
    <3>1. s + 16 < code_size /\ (s + 16) % 4 = 0
      BY <1>2, <2>2, <2>3, <2>6
    <3> QED BY <2>5, <2>8, <3>1, FetchFacts
  <2>10. NextSpecial = move + 4096
    BY <2>2, <2>3, <2>7, <2>8, NextSpecialFacts
  <2>11. /\ UNCHANGED <<phase, todo, functions, code, code_size, file, regs, mem, result>>
         /\ pc' = NextSpecial - file.p_offset + file.p_vaddr
    BY <2>9, RunFacts
  <2>12. pc' = VaddrStart + move
    <3>1. file.p_offset = 4096 /\ file.p_vaddr = VaddrStart
      BY FetchFacts
    <3> QED BY SMT, <1>2, <2>10, <2>11, <3>1
  <2>13. Start' = s /\ Returns' /\ Framed'
    BY <1>1, <1>3, <2>11 DEF Start, Linked, Returns, Framed
  <2>14. AtBody(body, flush, frame)'
    BY <1>1, <1>5, <2>11, <2>12, <2>13 DEF AtBody, Is
  <2> QED BY <2>11, <2>14, RunGoesOn
<1>6. CASE Is(move + 4, StackTop - frame, StackTop) /\ result = main
  <2>1. CanRun /\ Fetched = [op |-> "jal", imm |-> 28 + 4 * flush] /\ pc = VaddrStart + (move + 4)
    BY <1>1, <1>6, Places DEF Is
  <2>2. /\ UNCHANGED <<phase, todo, functions, code, code_size, file, regs, mem, result>>
        /\ pc' = pc + (28 + 4 * flush)
    BY <2>1, RunFacts
  <2>3. epilogue = move + 32 + 4 * flush
    BY <1>1, <1>2 DEF Move, EpilogueOf
  <2>4. pc' = VaddrStart + epilogue
    BY <1>2, <2>1, <2>2, <2>3
  <2>5. Start' = s /\ Returns' /\ Framed'
    BY <1>1, <1>3, <2>2 DEF Start, Linked, Returns, Framed
  <2>6. AtEpilogue(body, flush, frame)'
    BY <1>1, <1>6, <2>2, <2>4, <2>5 DEF AtEpilogue, Is
  <2> QED BY <2>2, <2>6, RunGoesOn
<1> QED BY <1>3, <1>4, <1>5, <1>6 DEF AtBody

(* The epilogue undoes the prologue.                                       *)
LEMMA EpilogueSteps ==
  ASSUME ImageInv, Run, phase = "running", ~MainIsFar,
         NEW body \in BodySizes, NEW flush \in FlushSizes, NEW frame \in FrameSizes,
         MainPlaced(body, flush, frame), AtEpilogue(body, flush, frame)
  PROVE  ImageInv'
<1>1. PICK s, move, epilogue : /\ s = Start /\ move = s + Move(body)
                               /\ epilogue = s + EpilogueOf(body, flush)
  OBVIOUS
<1>2. /\ s \in Nat /\ s % 4 = 0 /\ Upper20(s) \in Int /\ Imm12(s) \in Int
      /\ Upper20(s) + Imm12(s) = s /\ VaddrStart \in Nat /\ StackTop \in Nat
      /\ body \in Nat /\ flush \in 0 .. 15 /\ frame \in 16 .. 2032
      /\ move \in Nat /\ epilogue \in Nat /\ pc \in Int /\ CpuOK
  <2>1. /\ Start \in Nat /\ Start % 4 = 0 /\ Upper20(Start) \in Int /\ Imm12(Start) \in Int
        /\ Upper20(Start) + Imm12(Start) = Start
    BY OffsetFacts
  <2>2. /\ body \in Nat /\ flush \in 0 .. 15 /\ frame \in 16 .. 2032
        /\ Move(body) \in Nat /\ EpilogueOf(body, flush) \in Nat
    BY SizesFacts
  <2>3. pc \in Int /\ CpuOK
    BY DEF ImageInv, CpuOK
  <2>4. move \in Nat /\ epilogue \in Nat
    BY <1>1, <2>1, <2>2
  <2> QED BY <1>1, <2>1, <2>2, <2>3, <2>4, AddressFacts
<1>3. Returns /\ Framed /\ result = main /\ Start + EpilogueOf(body, flush) = epilogue
  BY <1>1 DEF AtEpilogue
<1>4. CASE Is(epilogue, StackTop - frame, StackTop)
  <2>1. /\ CanRun /\ Fetched = [op |-> "addi", rd |-> "sp", rs |-> "fp", imm |-> 0]
        /\ pc = VaddrStart + epilogue
    BY <1>1, <1>4, Places DEF Is
  <2>2. /\ UNCHANGED <<phase, todo, functions, code, code_size, file, mem, result>>
        /\ pc' = pc + 4 /\ regs' = SetReg("sp", Reg("fp") + 0)
    BY <2>1, RunFacts
  <2>3. Reg("fp") + 0 = StackTop /\ StackTop \in Int
    BY <1>2, <1>4, ReadsRegister, RegisterNames DEF Is
  <2>4. pc' = VaddrStart + (epilogue + 4)
    BY <1>2, <2>1, <2>2
  <2>5. regs'["sp"] = StackTop /\ regs'["fp"] = StackTop
    BY <1>2, <1>4, <2>2, <2>3, SetsRegister, RegisterNames DEF Is
  <2>6. Start' = s /\ Returns' /\ Framed'
    BY <1>1, <1>3, <2>2 DEF Start, Linked, Returns, Framed
  <2>7. AtEpilogue(body, flush, frame)'
    BY <1>1, <1>3, <2>2, <2>4, <2>5, <2>6 DEF AtEpilogue, Is
  <2> QED BY <2>2, <2>7, RunGoesOn
<1>5. CASE Is(epilogue + 4, StackTop, StackTop)
  <2>1. /\ CanRun /\ Fetched = [op |-> "lw", rd |-> "fp", rs |-> "sp", imm |-> -8]
        /\ pc = VaddrStart + (epilogue + 4)
    BY <1>1, <1>5, Places DEF Is
  <2>2. Reg("sp") + (-8) = StackTop - 8 /\ StackTop - 8 \in DOMAIN mem /\ mem[StackTop - 8] = 0
    BY <1>2, <1>3, <1>5, ReadsRegister, RegisterNames DEF Is, Framed
  <2>3. /\ UNCHANGED <<phase, todo, functions, code, code_size, file, mem, result>>
        /\ pc' = pc + 4 /\ regs' = SetReg("fp", 0)
    BY <2>1, <2>2, RunFacts
  <2>4. pc' = VaddrStart + (epilogue + 8)
    BY <1>2, <2>1, <2>3
  <2>5. regs'["sp"] = StackTop /\ regs'["fp"] = 0
    <3>1. 0 \in Int
      OBVIOUS
    <3> QED BY <1>2, <1>5, <2>3, <3>1, SetsRegister, RegisterNames DEF Is
  <2>6. Start' = s /\ Returns' /\ Framed'
    BY <1>1, <1>3, <2>3 DEF Start, Linked, Returns, Framed
  <2>7. AtEpilogue(body, flush, frame)'
    BY <1>1, <1>3, <2>3, <2>4, <2>5, <2>6 DEF AtEpilogue, Is
  <2> QED BY <2>3, <2>7, RunGoesOn
<1>6. CASE Is(epilogue + 8, StackTop, 0)
  <2>1. /\ CanRun /\ Fetched = [op |-> "lw", rd |-> "ra", rs |-> "sp", imm |-> -4]
        /\ pc = VaddrStart + (epilogue + 8)
    BY <1>1, <1>6, Places DEF Is
  <2>2. /\ Reg("sp") + (-4) = StackTop - 4 /\ StackTop - 4 \in DOMAIN mem
        /\ mem[StackTop - 4] = VaddrStart + 8
    BY <1>2, <1>3, <1>6, ReadsRegister, RegisterNames DEF Is, Returns
  <2>3. /\ UNCHANGED <<phase, todo, functions, code, code_size, file, mem, result>>
        /\ pc' = pc + 4 /\ regs' = SetReg("ra", VaddrStart + 8)
    BY <2>1, <2>2, RunFacts
  <2>4. pc' = VaddrStart + (epilogue + 12)
    BY <1>2, <2>1, <2>3
  <2>5. regs'["ra"] = VaddrStart + 8 /\ regs'["sp"] = StackTop /\ regs'["fp"] = 0
    <3>1. VaddrStart + 8 \in Int
      BY <1>2
    <3> QED BY <1>2, <1>6, <2>3, <3>1, SetsRegister, RegisterNames DEF Is
  <2>6. Start' = s /\ Returns' /\ Framed'
    BY <1>1, <1>3, <2>3 DEF Start, Linked, Returns, Framed
  <2>7. AtEpilogue(body, flush, frame)'
    BY <1>1, <1>3, <2>3, <2>4, <2>5, <2>6 DEF AtEpilogue, Is
  <2> QED BY <2>3, <2>7, RunGoesOn
<1>7. CASE Is(epilogue + 12, StackTop, 0) /\ regs["ra"] = VaddrStart + 8
  <2>1. /\ CanRun /\ Fetched = [op |-> "jalr", rd |-> "zero", rs |-> "ra", imm |-> 0]
        /\ pc = VaddrStart + (epilogue + 12)
    BY <1>1, <1>7, Places DEF Is
  <2>2. /\ UNCHANGED <<phase, todo, functions, code, code_size, file, mem, result>>
        /\ pc' = Reg("ra") + 0 /\ regs' = SetReg("zero", pc + 4)
    BY <2>1, RunFacts
  <2>3. pc' = VaddrStart + 8
    BY <1>2, <1>7, <2>2, ReadsRegister, RegisterNames
  <2>4. regs' = regs
    BY <2>2 DEF SetReg
  <2>5. AtExit'
    BY <1>3, <1>7, <2>2, <2>3, <2>4 DEF AtExit, Is
  <2> QED BY <2>2, <2>5, RunGoesOn
<1> QED BY <1>3, <1>4, <1>5, <1>6, <1>7 DEF AtEpilogue

(* What main returned is the exit code.                                    *)
LEMMA ExitSteps ==
  ASSUME ImageInv, Run, phase = "running", ~MainIsFar,
         NEW body \in BodySizes, NEW flush \in FlushSizes, NEW frame \in FrameSizes,
         MainPlaced(body, flush, frame), AtExit
  PROVE  ImageInv'
<1>1. PICK s, move, epilogue : /\ s = Start /\ move = s + Move(body)
                               /\ epilogue = s + EpilogueOf(body, flush)
  OBVIOUS
<1>2. /\ s \in Nat /\ s % 4 = 0 /\ Upper20(s) \in Int /\ Imm12(s) \in Int
      /\ Upper20(s) + Imm12(s) = s /\ VaddrStart \in Nat /\ StackTop \in Nat
      /\ body \in Nat /\ flush \in 0 .. 15 /\ frame \in 16 .. 2032
      /\ move \in Nat /\ epilogue \in Nat /\ pc \in Int /\ CpuOK
  <2>1. /\ Start \in Nat /\ Start % 4 = 0 /\ Upper20(Start) \in Int /\ Imm12(Start) \in Int
        /\ Upper20(Start) + Imm12(Start) = Start
    BY OffsetFacts
  <2>2. /\ body \in Nat /\ flush \in 0 .. 15 /\ frame \in 16 .. 2032
        /\ Move(body) \in Nat /\ EpilogueOf(body, flush) \in Nat
    BY SizesFacts
  <2>3. pc \in Int /\ CpuOK
    BY DEF ImageInv, CpuOK
  <2>4. move \in Nat /\ epilogue \in Nat
    BY <1>1, <2>1, <2>2
  <2> QED BY <1>1, <2>1, <2>2, <2>3, <2>4, AddressFacts
<1>3. result = main
  BY DEF AtExit
<1>4. CASE Is(8, StackTop, 0)
  <2>1. /\ CanRun /\ Fetched = [op |-> "addi", rd |-> "a7", rs |-> "zero", imm |-> 93]
        /\ pc = VaddrStart + 8
    BY <1>1, <1>4, Places DEF Is
  <2>2. /\ UNCHANGED <<phase, todo, functions, code, code_size, file, mem, result>>
        /\ pc' = pc + 4 /\ regs' = SetReg("a7", Reg("zero") + 93)
    BY <2>1, RunFacts
  <2>3. Reg("zero") + 93 = 93 /\ 93 \in Int
    BY ReadsRegister, RegisterNames
  <2>4. pc' = VaddrStart + 12
    BY <1>2, <2>1, <2>2
  <2>5. regs'["a7"] = 93 /\ regs'["sp"] = StackTop /\ regs'["fp"] = 0
    BY <1>2, <1>4, <2>2, <2>3, SetsRegister, RegisterNames DEF Is
  <2>6. AtExit'
    BY <1>3, <2>2, <2>4, <2>5 DEF AtExit, Is
  <2> QED BY <2>2, <2>6, RunGoesOn
<1>5. CASE Is(12, StackTop, 0) /\ regs["a7"] = 93
  <2>1. CanRun /\ Fetched = [op |-> "ecall"]
    BY <1>1, <1>5, Places DEF Is
  <2>2. Exit
    BY <2>1 DEF Run, Plain, Addi, Store, LoadWord, Jal, Jalr, Auipc, SetResult, Execute, Crash, CanRun
  <2>3. /\ phase' = "exited"
        /\ UNCHANGED <<todo, functions, code, code_size, file, pc, regs, mem, result>>
    BY <2>2 DEF Exit, compileVars, cpuVars
  <2>4. Linked' = Linked
    BY <2>3 DEF Linked
  <2>5. ObjectOK' /\ MainPlaced(body, flush, frame)'
    BY <2>3, <2>4, ObjectStays DEF ImageInv
  <2>6. FileOK'
    BY <2>3 DEF ImageInv, FileOK
  <2>7. CpuOK'
    BY CpuTyped
  <2>8. AtExit'
    BY <1>3, <1>5, <2>3 DEF AtExit, Is
  <2>9. RunOK'
    BY <2>3, <2>5, <2>8 DEF RunOK
  <2> QED BY <2>5, <2>6, <2>7, <2>9 DEF ImageInv
<1> QED BY <1>4, <1>5 DEF AtExit

(* If main is far, the processor may go anywhere, but nothing changes the  *)
(* code.                                                                   *)
LEMMA RunKeeps ==
  ASSUME ImageInv, Run
  PROVE  ImageInv'
<1>1. /\ phase = "running" /\ phase' \in {"running", "exited", "crashed"}
      /\ UNCHANGED <<todo, functions, code, code_size, file>>
  BY DEF Run, Plain, Addi, Store, LoadWord, Jal, Jalr, Auipc, SetResult, Execute, Exit, Crash, CanRun,
         compileVars
<1>2. CASE MainIsFar
  <2>1. Linked' = Linked
    BY <1>1 DEF Linked
  <2>2. ObjectOK'
    BY <1>1, <2>1, ObjectStays DEF ImageInv
  <2>3. FileOK'
    BY <1>1 DEF ImageInv, FileOK
  <2>4. CpuOK'
    BY CpuTyped
  <2>5. MainIsFar'
    BY <1>1, <1>2 DEF MainIsFar
  <2> QED BY <2>2, <2>3, <2>4, <2>5 DEF ImageInv, RunOK
<1>3. CASE ~MainIsFar
  <2>1. PICK body \in BodySizes, flush \in FlushSizes, frame \in FrameSizes :
          /\ MainPlaced(body, flush, frame)
          /\ \/ AtRuntime \/ AtPrologue(frame) \/ AtBody(body, flush, frame)
             \/ AtEpilogue(body, flush, frame) \/ AtExit
    BY <1>1, <1>3 DEF ImageInv, RunOK
  <2> QED BY <1>1, <1>3, <2>1, RuntimeSteps, PrologueSteps, BodySteps, EpilogueSteps, ExitSteps
<1> QED BY <1>2, <1>3

LEMMA ImageStep ==
  ASSUME ImageInv, [Next]_vars
  PROVE  ImageInv'
<1>1. CASE Compile
  BY <1>1, LowerFunctionKeeps, LinkKeeps, MissingMainKeeps, WriteExecutableKeeps DEF Compile
<1>2. CASE Run
  BY <1>2, RunKeeps
<1>3. CASE UNCHANGED vars
  <2>1. ObjectOK'
    BY <1>3 DEF vars, ImageInv, ObjectOK, Linked, MainPlaced, Start
  <2>2. FileOK' /\ CpuOK'
    BY <1>3 DEF vars, ImageInv, FileOK, CpuOK
  <2>3. Start' = Start /\ MainIsFar' = MainIsFar
    BY <1>3 DEF vars, Start, Linked, MainIsFar
  <2>4. \A o, sp, fp : Is(o, sp, fp)' = Is(o, sp, fp)
    BY <1>3 DEF vars, Is
  <2>5. RunOK'
    BY <1>3, <2>3 DEF vars, ImageInv, RunOK, MainPlaced, AtRuntime, AtPrologue, AtBody, AtEpilogue,
         AtExit, Returns, Framed, Is
  <2> QED BY <2>1, <2>2, <2>5 DEF ImageInv
<1> QED BY <1>1, <1>2, <1>3 DEF Next, Stopped

(* The code is what was generated, and the processor is in main or in the  *)
(* runtime, with the frame that belongs there, unless main is far.         *)
THEOREM ImageInvariance == Spec => []ImageInv
BY ImageInit, ImageStep, PTL DEF Spec

(* Type correctness, wherever the processor is sent.                       *)
THEOREM ImageTypeCorrect == Spec => []TypeOK
<1>1. ImageInv => TypeOK
  BY DEF ImageInv, ObjectOK, CpuOK, TypeOK
<1> QED BY <1>1, ImageInvariance, PTL

(* Whatever functions there are, in whatever order and of whatever size:   *)
(* if main is not at an offset with bit 11 set, build_runtime_code's call  *)
(* reaches it, its return reaches its epilogue, the epilogue the runtime,  *)
(* and the program exits with the value that main returned.                *)
THEOREM MainIsReached == Spec => []WrongOnlyWhenFar
<1>1. ImageInv => WrongOnlyWhenFar
  BY DEF ImageInv, RunOK, AtExit, WrongOnlyWhenFar
<1> QED BY <1>1, ImageInvariance, PTL

(* The prologue makes the frame that the body and the epilogue rely on,    *)
(* and the epilogue gives back the caller's.                               *)
THEOREM FrameAlwaysKept == Spec => []FrameKept
<1>1. ASSUME ImageInv PROVE FrameKept
  <2>1. ASSUME phase = "running", ~MainIsFar, Fetched.op \in {"result", "jal"}
        PROVE  /\ regs["sp"] % 16 = 0 /\ regs["fp"] - regs["sp"] \in FrameSizes
               /\ mem[regs["fp"] - 8] = 0 /\ mem[regs["fp"] - 4] = file.entry + 8
    <3>1. PICK body \in BodySizes, flush \in FlushSizes, frame \in FrameSizes :
            /\ MainPlaced(body, flush, frame)
            /\ \/ AtRuntime \/ AtPrologue(frame) \/ AtBody(body, flush, frame)
               \/ AtEpilogue(body, flush, frame) \/ AtExit
      BY <1>1, <2>1 DEF ImageInv, RunOK
    <3>2. PICK s, move, epilogue : /\ s = Start /\ move = s + Move(body)
                                   /\ epilogue = s + EpilogueOf(body, flush)
      OBVIOUS
    <3>3. ~AtRuntime
      BY <1>1, <2>1, <3>1, <3>2, Places DEF AtRuntime, Is
    <3>4. ~AtPrologue(frame)
      BY <1>1, <2>1, <3>1, <3>2, Places DEF AtPrologue, Is
    <3>5. ~AtEpilogue(body, flush, frame)
      BY <1>1, <2>1, <3>1, <3>2, Places DEF AtEpilogue, Is
    <3>6. ~AtExit
      BY <1>1, <2>1, <3>1, <3>2, Places DEF AtExit, Is
    <3>7. AtBody(body, flush, frame)
      BY <3>1, <3>3, <3>4, <3>5, <3>6
    <3>8. /\ regs["sp"] = StackTop - frame /\ regs["fp"] = StackTop
          /\ mem[StackTop - 8] = 0 /\ mem[StackTop - 4] = VaddrStart + 8
      BY <3>7 DEF AtBody, Is, Returns, Framed
    <3>9. frame \in 16 .. 2032 /\ frame % 16 = 0 /\ StackTop \in Nat /\ StackTop % 16 = 0
      BY SizesFacts, AddressFacts
    <3>10. (StackTop - frame) % 16 = 0 /\ StackTop - (StackTop - frame) = frame
      BY <3>9
    <3>11. file.entry = VaddrStart
      BY <1>1, <2>1, FetchFacts
    <3> QED BY <3>8, <3>10, <3>11
  <2>2. phase = "exited" /\ ~MainIsFar => regs["sp"] = StackTop /\ regs["fp"] = 0
    BY <1>1 DEF ImageInv, RunOK, AtExit, Is
  <2> QED BY <2>1, <2>2 DEF FrameKept
<1> QED BY <1>1, ImageInvariance, PTL
=============================================================================
