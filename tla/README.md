# Cider compiler: models, checks and proofs

`ciderc` compiles Cider programs (functions, expressions over integers and booleans, `return`; no
variables, calls, branches or loops yet) to RV32 Linux executables. This directory holds TLA+ models of
its parts, configurations that check them with TLC, and proofs about the register allocator, the
executable's way to `main` and back, the test runner, the semantic checks, the driver, the lexer and the command line parser for TLAPS.
`PROJECT.json` lists the components, the runs, the mutants that show what each property catches, the
source lines of every definition, the findings, the hazards and the theorems.

## Inventory

A compilation is one thread that goes through a pipeline; the test runner is concurrent.

| Component | State | Operations | What makes it correct | Model |
| --- | --- | --- | --- | --- |
| Command line parser (`utils/CliParser`) | registered arguments, values seen | `add_*`, `parse` | each token is given to one argument, defaults only where none was passed | `Cli` |
| Driver (`main.cpp`, `compile.cpp`) | emit kinds and paths, open output streams, exit code | open outputs, run the stages, write artifacts, link | success means every artifact was written, failure leaves the executable alone | `Driver`; linking in `Image` |
| Lexer (`frontend/Lexer`) | stream, position, one token of lookahead | `take`, `peek`, `expect` | every character is in one token, the end is reached and stays reached | `Tokens`, `Lexer` |
| Parser (`frontend/Parser`, `AST`) | the lexer, the tree so far | one function per grammar rule | stops at the first token that cannot follow, precedence | `Parser` |
| Semantic checks (`AST_semantics`, `FrontendType`) | scopes, expected return type, resolved types | hoisting, `resolve_symbols`, `check_semantics` | what passes can be emitted, the first error is reported | `Semantics`, typing rules in `IrTypes` |
| IR emission (`IrWriter`, `AST_emitIr`) | registers, constant cache, current block | `emit_ir` per node, `new_vreg`, `get_const_vreg`, `add_return`, `new_function` | single assignment, definitions before uses, nothing leaks between functions | `IrWriter` |
| Register allocation and spilling (`CodeGenerator_riscv32`) | 15 register slots, map of spilled registers, spill pointer, frame size | `load_src_vreg`, `load_dest_vreg`, `get_empty_slot`, `spill_slot`, `lower_function` | the emitted code computes what the IR says, inside its frame | `CodeGen`, `CodeGenInv`, `IrMachine` |
| Instruction selection (same file) | none | one case per operator, `truncate_reg` | the number an expression denotes is returned, junk bits or not | `Arithmetic` |
| Frames, backpatching, runtime, linking, ELF (`CodeGenerator_riscv32`, `compile.cpp`, `ObjectWriter_ELF32`) | code bytes, function offsets, file position | prologue, epilogue, jump patching, `build_runtime_code`, `emit` | the executable calls `main` and exits with its value | `Image` |
| Test runner (`testing/run_tests.py`) | queue, workers, counters, progress task | `run_tests`, `worker`, `record_test_result`, cancel, Ctrl-C | green only if all tests passed, the runner ends | `TestRunner` |

Not modelled because there is nothing to check: printing of ASTs and IR, logging and messages, the vendored
`elf.h`, build scripts, the test programs themselves.

How they interact. `main` parses arguments, `compile` opens outputs, builds the AST (the parser pulls tokens
from the lexer one at a time), has it checked, emits all functions with one `IrWriter`, lowers all of them with one
`CodeGenerator_riscv32`, puts the runtime in front and writes the file. Errors are exceptions that `main` turns
into exit codes, which is what the test runner compares. The stages share no state but what they hand on, so they can be
modelled one by one; within a stage the hazards are long sequences of calls on shared mutable state (the slots, the constant
cache, the patch lists).

The hard behaviours are: slots handed out by pointer and never pinned, so that a later call for the same
instruction may evict one; state that survives from one function to the next; junk in the upper bits of
registers, which some instructions read; immediates whose encoding drops or extends bits; offsets taken before
something is inserted in front; an uninitialised field that is read; and in the test runner tasks that
fail, are cancelled or interrupted at any await. `PROJECT.json` has each at its line.

## Plan

1. *Done.* `IrTypes`, `IrWriter`, `CodeGen`: the register allocator and what feeds it, because a wrong answer here is
   silent and depends on long sequences of calls (the project's TODO list suspects it too). Abstract specification: `IrMachine`, an interpreter of the
   IR. Theorems: the inductive invariant and the safety properties that follow.
2. *Done.* `Arithmetic` (values), `Image` (addresses), `TestRunner` (concurrency).
3. *Done.* `Driver`: emit kinds, output streams, files and exit codes, with stages that may fail.
4. *Done.* `Lexer`: a character stream with the end of file anywhere and one token of lookahead, and whether calls return.
   `Parser`: recursive descent as a stack machine, against a definition of the language by what may follow what.
5. *Done.* `Semantics`: the passes over functions and statements; what they accept is what `IrWriter` assumes.
6. *Done.* `Cli`: tokens to arguments against a reading of the command line that does not go token by token.
7. *Done.* Proofs about the components whose invariants do not depend on recursion over data: `CodeGenProofs`,
   `TestRunnerProofs`, `DriverProofs`, `LexerProofs`, `SemanticsProofs`, `ImageProofs`.
8. *Done.* Proofs against definitions over whole sequences, which were written as functions for that:
   `LongestMatch`, `OutcomeIsRight` of `Semantics`, and the three properties of `Cli` (`CliProofs`).
   All four safety properties of `Parser`: its types, `LiteralsKeepValue`, `TreeFollowsPrecedence` and `ErrorsAtFirstIllegal` (`ParserProofs`).

Every safety property the runs check is now a theorem, except those of `Arithmetic`, which the prover cannot take (see the end of the proofs).

## The modules

**`IrTypes`** has the scalar types, `get_size`, `is_signed` and the type errors of binary and unary expressions.

**`IrWriter`** models the emission of one function. `emit_ir` is a recursion over the tree; what it holds at any moment
is the stack of registers its calls returned and their callers have not used, so the variable `operands` is that stack, and each action
is what one node does after its children: `EmitLiteral`, `EmitBinary`, `EmitUnary`, the two cases of a
logical not (constant cached or not: on a miss the destination is reserved first, so ids come out of order), `EmitReturn`,
`EmitReturnVoid`. Any sequence of actions that the typing rules allow is the post-order of some program. Only the
entry block is kept: nothing jumps, so the blocks after a `return` are unreachable, but they still use registers and the cache.

**`CodeGen`** EXTENDS it with `lower_function`. One action per call that function makes for an instruction
(`LoadDest`, `LoadOp1`, `LoadOp2`, `FlipMask` for the scratch register of a 16 bit not), one for the instruction
itself (`Exec`), then the terminator, the final spilling slot by slot, and the frame size. `spill_slot`,
`get_empty_slot`, `load_src_vreg`, `load_dest_vreg` are operators with the names of the code. The emitted code is executed as it is emitted:
`regs` and `mem` hold, for each physical register and frame word, the virtual register whose value it has. The
allocator never looks at them. The terminator of a block that nobody terminated is a choice over what its
uninitialised `kind` may read as.

**`IrMachine`** is the promise: an interpreter of the IR with as many registers as it likes, in which a value once computed is never lost.
`CodeGen` maps to it by taking as its values everything in `regs` and `mem`.

**`Arithmetic`** evaluates an expression twice, in machine words as the emitted instructions do and in numbers. Words are scaled to 16 bits
with 4 bit bytes and 6 bit immediates; the relations that the code uses are kept (an immediate is longer than a byte and shorter than two,
a shift amount that counts is in the low byte). `SpillAndReload` may happen to any pending operand at any time, which is all that values see of the
allocator. It uses `Bitwise`, whose definitions are recursive, so nothing can be proved about it.

**`Image`** goes from lowered functions to an exited process: `LowerFunction` in any order (the code iterates over an unordered
map) with any body, flush and frame size, `Link` or `MissingMain`, `WriteExecutable`, then a processor. Instructions that do not touch `a0`,
`sp`, `fp`, `ra` or the control flow are "plain" and run in one step; immediates go through the encodings, with
what these cut off.

**`TestRunner`** has one action per stretch between two awaits of a worker, of the progress task and of the main task. Cancellation is a set of tasks
asked to cancel; a cancelled task raises at its await even if what it waited for has come in. `MaxFaults` bounds the exceptions in workers,
in printing and in the progress bar; a process may hang (`ProcessHangs`).

**`Driver`** is `main` after the command line parser, and `compile`: one action per value of `--emit`, per file opened, and per stage with
its artifact. `files` holds what each path contains. Text written to a stream is buffered, reaches its file or is lost (`MaxFaults` bounds the losses),
and leaving `compile`, by `return` or by an exception, flushes what is buffered. The stages are a choice of which one throws.

**`Lexer`** (with **`Tokens`**, the token types and the error of `expect`) has an action for every branch of the switch in `Lexer::take`, and loops
(comments, blanks, words) take one character per action. A client calls `take` and `peek` in any order. Characters are
strings, a few of every class that the code distinguishes; the byte `0xff` and the end of the stream are one value where the code sees a `char` (which is
signed on the platforms it is built for) and two where it looks at `in.get()`. Tokens carry, besides their location, the part of the text
they were read from, which the code does not keep and the properties need.

**`Parser`** is the recursive descent as a machine: `at` is the place in the function that runs, `stack` has the calls that wait for an
expression, and the ten functions of binary operators are one frame with a level. The next token is drawn from all
that the lexer can return. Of the tree it keeps for each operator where it and its operands are in the text. Numbers are scaled: `LongMax` is the greatest `long long`, `Word`
the range of a `uint32_t`.

**`Semantics`** runs the passes on a program given as the post-order of its expressions: `Declare` (hoisting), `ResolveSymbols`, one action per
kind of node for `resolve_type`, `CheckReturn` and `CheckLast` for the two ways to end a body, and `Emit` for the errors that only `emit_ir`
raises. In a post-order the number of operands that wait (`Depth`) stands for the tree: it says where the subexpression
that ends at a node begins (`Starts`), so no definition needs recursion but the reference that `OutcomeIsRight` compares with. A type error whose message mentions a type that cannot be printed is an internal error, as in the code.

**`Cli`** is `CliParser::parse`, one action per kind of token and per character of a cluster. A token is a sequence of
pieces, the characters that the parser looks at and words that it does not look into. A parser may have been used before, so `Reset` has something to clear.

`MCCodeGen`, `MCArithmetic`, `MCImage`, `MCTestRunner`, `MCDriver`, `MCLexer`, `MCParser`, `MCSemantics`, `MCCli` are the instances that the `.cfg` files parameterise. Definitions
called "Mutant" are plausible bugs; they are used by nothing, and `PROJECT.json` says which property fails when one replaces the original.

## The runs

| Run | Shows | Bounds and why they are enough |
| --- | --- | --- |
| `allocator` | `TypeOK`, `WellFormed` (definitions before uses, nothing of another function), `OperandsLoaded` (no call for an instruction takes away what an earlier call for it loaded), the inductive invariant `IInv`, `StoresInFrame` (executed stores are inside the frame and no spill slot is shared), `ReturnsResult`, and `ImplementsIr` | 3 slots, the fewest with which the allocator works, so that spilling starts at the third live register; 8 registers per function let the pointer wrap; two functions, the second with what the first left behind; `bool` and `u16` reach both the constant cache and the scratch register |
| `arithmetic` | `WordsRepresentNumbers` (low bits right whatever junk is above) and `ReturnIsExact` | all 16 operators, 7 types, literals at the boundaries of a byte, an immediate and a word; two operators, so that a result with junk is an operand |
| `image` | `WrongOnlyWhenFar` (bit 11 of main's offset is the only cause of a wrong run), `FrameKept` (`main` runs on a frame of its own and gives back the caller's), `ProgramEnds` | two functions in either order: unless the call misses it, only the offset of `main` tells programs apart, and it takes values on both sides of bit 11; sizes from the smallest to those where code crosses a page and an immediate changes length, frames of 16 and 2032 bytes |
| `runner` | the inductive invariant `RunnerInv` (a test is queued, in one hand, or has its result), `CountersAgree`, `GreenMeansPassed`, `CompletedIsFinal`, `RunEnds` (by itself unless an exception was raised in a task or a process hangs, and by Ctrl-C always) | any selection of 3 tests (one that must not build, one that compares output) and 2 workers: a worker takes a second test, one idles; up to 2 exceptions anywhere, any process may hang, one Ctrl-C; deadlock is not checked because a worker that raised, or whose process hangs, leaves the runner waiting |
| `driver` | `SuccessDelivers` (every artifact asked for is there, whole, and no other file was touched; except an executable that was given a path of its own, see below) and `FailureKeepsExecutable` (an executable from an earlier run survives every error) | up to three values of `--emit`, so that a kind repeats after another; paths that coincide with the input, the executable or each other, or that cannot be opened; one lost write |
| `lexer` | `TokensCoverText` (nothing is lost or read twice, only blanks and whole comments are skipped, and the end is where the text ends), `LongestMatch`, `LocationsAgree`, `CallsReturn` | all texts of up to four characters of a sample of every class, and longer ones with keywords, comments and the byte `0xff`; up to six tokens, so that peeked and taken ones alternate |
| `parser` | `ErrorsAtFirstIllegal` (it follows the grammar except in the three departures listed below: the first token at which it fails is the first that may then not follow, and the error is the one for it), `TreeFollowsPrecedence` (each operator's operands are split at the place the table of levels says), `LiteralsKeepValue`, `ParseEnds` | sequences of up to 10 tokens: a function header takes six, and four more give an operator between operands, a repeated one, a parenthesis or a call; the sample has operators of a chaining level, of one that does not chain and of two levels, and one token of every other role |
| `semantics` | `OutcomeIsRight` (which error is reported, stated over the whole program, and how a user can get to see an internal one), `SymbolsBound`, `WriterAssumptionsHold` (every node that is emitted has the type its operator gives it) | programs of one function with expressions of up to three nodes, and of two functions that call or shadow each other; a type of every kind |
| `cli` | `OutcomeIsRight`, `ResultsAreRight` | main's seven arguments; all lines of up to 3 of 25 tokens, among them clusters, values that look like options, `--`, negative numbers, empty values and repeats; longer lines with the required arguments, so that parsing succeeds with two more |
| `unterminated`, `far_main`, `lexer_hangs` | the findings below | small |

Fairness. `Image`: the compiler and the processor go on. `TestRunner`: the event loop runs
every task that can go on (weak fairness per worker, for the cancelled progress task and for the main task). That a compiler or a compiled program
ends is not assumed: `run_tests.py:288` and `320` wait without a timeout and the compiler can loop (`lexer_hangs`), so at any time while a worker waits `ProcessHangs` may
take the process away for good, and `RunEnds` says what is left: without a hanging process and an exception the run ends, and with Ctrl-C it ends in any case. Faults and Ctrl-C are never forced. `Lexer`: a call that was made
is executed (the client need not make any). `Parser`: the parser goes on. The other modules state no liveness: their steps are
straight-line code.

Findings, each the counterexample of a run:

- `unterminated`: a function without `return` (`fn main() {}`, a test of the corpus) is lowered although
  its terminator was never initialised (`CodeGenerator_riscv32.cpp:892`).
- `far_main`: `build_runtime_code` splits the offset of `main` over `auipc` and `jalr` without the compensation that
  `LoadImm` applies; with bit 11 set the call goes 4096 bytes below `main`.
- `lexer_hangs`: a comment on the last line without a newline after it is skipped for ever (`Lexer.cpp:190`).

Disagreements between the documents and the code. The passing properties leave these cases out or name them, and the modules state what the documents say as
an operator of its own; checked as the INVARIANT of the instance named, TLC refutes each of them.

| What the document says | What the code does | Operator, instance | Refuted by |
| --- | --- | --- | --- |
| `README.md:23` and `main.cpp:99`: append `=PATH` to an artifact, `exe` among them, to write it to that file | the path of the executable is replaced by that of `-o` (`main.cpp:160-161`) | `ExeGoesWhereAsked`, `Driver.cfg` | `--emit exe=PATH`: success, and `PATH` is as it was |
| the same lines: `=stdout` for standard output | a file without a name is opened for it (`compile.cpp:117-121`) | `FileErrorsHaveACause`, `Driver.cfg` | `--emit exe=stdout`: a file error, with every file in order |
| `grammar.ebnf:6`: `"(", arg_definition_list, ")"` | a `)` is taken if it is there, and not missed (`Parser.cpp:51-52`) | `TakesOnlyLegal`, `Parser.cfg` | `fn f ( -> ...`, `fn f ( {` |
| `grammar.ebnf:33-40`: `{ ... }` around the operator of every level; `TODO.md:62`: left associative, except equality and comparison | eight levels look for their operator once (`Parser.cpp:159`, `183`, ...) | `OperatorsChain`, `Parser.cfg` with `"AND_AND"` in `Other` | `a && b && c`: a syntax error at the second `&&`. Of equality and comparison, on which the two documents differ, the operator says nothing |
| `grammar.ebnf:47`: `postfix = primary, { postfix_op }` | one pair of parentheses (`Parser.cpp:471`) | `CallsChain`, `Parser.cfg` with `MaxTokens = 12` | `f()()`: a syntax error at the second call |

`ErrorsAtFirstIllegal` shows that the last three are the only departures from the part of the grammar that the parser has functions for.

What else the models show to differ from what the code or its comments promise is written where it is modelled, and the passing
properties are stated around it: a worker that raises never calls `task_done`, so `join` never returns (`RunEnds`); the executable is
opened last, although `compile.cpp:60` says that every output is opened up front; spill slots are given out below `sp`, unlike the layout drawn above the
class, but the stores to them are never executed (`StoresInFrame`); an unexpected `true` is reported as `unimplemented`
(`ErrorsAtFirstIllegal`); digits that a base does not have, and those beyond 32 bits, are dropped silently (`LiteralsKeepValue`); an
identifier, call or operator that ends a body is compared by a type nobody has resolved, and that is an internal error (`OutcomeIsRight`).

With two slots instead of three the allocator is wrong (a binary operator needs three); the code has 15.

## The proofs

| Module | Theorems | Statement |
| --- | --- | --- |
| `CodeGenProofs` | `EmitNextOK` | each emission step keeps the writer's types and `IrOK` |
| | `Invariance` | `Spec => []IInv` |
| | `TypeCorrect`, `IrWellFormed`, `OperandsStayLoaded`, `ResultReturned`, `FrameRespected` | `Spec => []P` for `TypeOK`, `WellFormed`, `OperandsLoaded`, `ReturnsResult`, `StoresInFrame` |
| | `NothingLostNorInvented` | during lowering, the values in registers and frame words are exactly the registers of the IR computed so far |
| | `Refinement` | `Spec => ImplementsIr` |
| `TestRunnerProofs` | `RunnerInvariance` | `Spec => []RunnerInv` |
| | `RunnerTypeCorrect`, `CountersAlwaysAgree`, `SuccessMeansPassed` | `Spec => []P` for `TypeOK`, `CountersAgree`, `GreenMeansPassed` |
| | `CompletedStaysFinal` | `Spec => CompletedIsFinal`, an action property |
| `DriverProofs` | `DriverInvariance` | `Spec => []DriverInv` |
| | `DriverTypeCorrect`, `SuccessAlwaysDelivers`, `ExecutableIsKept` | `Spec => []P` for `TypeOK`, `SuccessDelivers`, `FailureKeepsExecutable` |
| `LexerProofs` | `LexerInvariance` | `Spec => []LexerInv` |
| | `LexerTypeCorrect`, `TextIsCovered`, `LongestAlwaysMatched`, `LocationsAlwaysAgree` | `Spec => []P` for `TypeOK`, `TokensCoverText`, `LongestMatch`, `LocationsAgree` |
| `SemanticsProofs` | `SemanticsInvariance` | `Spec => []SemanticsInv` |
| | `SemanticsTypeCorrect`, `SymbolsAlwaysBound`, `WriterAssumptionsAlwaysHold`, `OutcomeAlwaysRight` | `Spec => []P` for `TypeOK`, `SymbolsBound`, `WriterAssumptionsHold`, `OutcomeIsRight` |
| | `NamesReportedFirst` | errors in names come before all others, and only if there are any |
| `ImageProofs` | `ImageInvariance` | `Spec => []ImageInv` |
| | `ImageTypeCorrect`, `MainIsReached`, `FrameAlwaysKept` | `Spec => []P` for `TypeOK`, `WrongOnlyWhenFar`, `FrameKept` |
| `CliProofs` | `TypesAreKept`, `OutcomeAlwaysRight`, `ResultsAlwaysRight` | `Spec => []P` for `TypeOK`, `OutcomeIsRight`, `ResultsAreRight` |
| `ParserProofs` | `ParserInvariant` | `Spec => []ParserInv` |
| | `TypesAreKept`, `LiteralsAlwaysKeepValue` | `Spec => []P` for `TypeOK`, `LiteralsKeepValue` |
| | `TreeInvariant` | `Spec => []TreeInv` |
| | `TreeAlwaysFollowsPrecedence` | `Spec => []TreeFollowsPrecedence` |
| | `LegalInvariant` | `Spec => []LegalInv` |
| | `ErrorsAlwaysAtFirstIllegal` | `Spec => []ErrorsAtFirstIllegal` |

**Register allocation** (`CodeGenProofs`), for every number of slots from three up and every bound.
Assumptions: at least three slots (`NumSlotsAssumption`), a frame that fits 12 bit offsets
(`FrameAssumption`: the source says that larger ones break), and the obvious types of the bounds.

Why an invariant is needed: `OperandsLoaded` alone is not inductive. `load_dest_vreg` and `load_src_vreg` return slots that
nothing pins, and what saves them is the conjunction of two facts in different components. `IrOK` says that an
instruction consumes the result of the one before it, so at most one of its operands has to be fetched. `Filling`, `Full` and `Trailing` (in `CodeGenInv`) say
where the slot of the last result is relative to the round-robin pointer: the slots are either still being filled in order, or all dirty with
the last result one behind the pointer, or all but one dirty with it two behind. In none of them is that slot the next victim,
and the three cases lead to each other. `Lowered`, `SpillArea` and `SpillsLoaded` say that a computed register is in a slot or in its own
frame word, with its value; `FlushOK` carries that through the final spilling. The proof has a lemma per call of the code
(`LoadDestKeeps`, `LoadSrcHit`, `LoadSrcMiss`, `FlipMaskKeeps`, `ExecKeeps`, ...), each with a step per conjunct.

**Refinement** (`CodeGenProofs`). `IInv` says that no computed value is missing. The other half, `Known`, says that
no register and no word of the frame holds anything but computed values or junk. Together they make the refinement mapping
equal to the set of computed registers, so the calls of the allocator are stutters, `Exec` is a `Step` of the
interpreter, and the end of a function starts the next one.

**Test runner** (`TestRunnerProofs`), for any finite set of tests, any set of workers and any expectations. `CountersAgree` alone does not survive
`record_test_result`: that the counters count each test once needs that a worker reports a test nobody else has and that has no result yet. `RunnerInv` says it: a test is in
the queue once (`QueueOK`) or in one hand (`InHand`), with nothing recorded either way. A test that was dropped by an exception is in neither, and keeps
the queue's count above zero. So when `join` returns, every test has its result and nobody is busy, which is `EndOK`
and the reason why results are final. `BehavedAsExpected` follows the exit codes through the two waits of a worker.

**Driver** (`DriverProofs`), for any sequence of `--emit` values and any paths. `SuccessDelivers` speaks about the end of a compilation only;
`DriverInv` says how each stage got there: the kinds parsed so far are the keys of `emits`, each with the target of its first
value (`EmitsOK`); each has its stream, once opened, with nothing in it before its stage and its artifact afterwards; and what is not yet flushed is in the buffer. What
a throw leaves is one lemma for all stages.

**Lexer** (`LexerProofs`), for any texts and any mix of `take` and `peek`. `TokensCoverText` says nothing about the middle of a call. `Place` says what
the scanner has passed over since the end of the last token: blanks and whole comments; in a comment, that it began and that
its line has not ended; in a word, where it starts. The hard case is the end of a comment: the newline that ends it must not
count as inside. `Located` relates line and column to the number of newlines passed, one character at a time.
For `LongestMatch` the scanner's word is the piece of the text since the word began, none of it a delimiter (`WordRead`); a longer piece than
the one a token was read from would contain a delimiter behind its first character, which only the two-character operators do.

**Semantic checks** (`SemanticsProofs`), for any set of programs whose functions have bodies of post-orders, each program with at least one function (`ProgramsAssumption`).
The checks see a stack of types, and the emission that follows sees a tree. `StackOK` connects them: a node whose value is not used yet, that is, after which
there were always more operands waiting, has its type in the stack at its own depth. `OperandsBefore` says that the
operands of a node are such nodes: the one before it, and the one before all of the right operand. So when a node is typed, the
types it was checked against are those of its operands in the tree (`Accepted`). `NoErrorInExpression` shows that `emit_ir`, which
throws at the first node from the root that has an error, throws if any has one. The induction over places is by `LeastNumber`, from the well-foundedness of the
natural numbers.
`OutcomeIsRight` compares with types by the structure of the tree, a recursive function. `MeaningOK` says that a node that was checked has that type, node by node, and
`SymbolsOK` that the symbols are those of the program's functions; a node whose operand has no type has none, and so the root has none either, whichever
node the checks stopped at.

**From machine code to a running program** (`ImageProofs`), for any finite set of functions of any size and order, frames up to 2032 bytes and at most 15 spilling stores
(`SizesAssumption`: one per slot; the source says that larger frames break). `Placed` says what is where in the code
of `main`, and that nothing that matters is in between; it survives the functions lowered later, the shift by the runtime and the copy into
the file. `RunOK` lists the fifteen places a run that calls `main` goes through, each with what `sp`, `fp`, `ra`
and the two saved words are. The address arithmetic is three lemmas: `HalvesMeet` (`auipc` and `jalr` add up to the offset unless bit 11 is set: this is
where `~MainIsFar` is needed), `SmallKept` (12 bit immediates in range are exact) and `JumpKept` (the backpatched jump). If `main` is far only the types are kept:
the call may go into the middle of another function.

**Command line parser** (`CliProofs`), for any registered arguments and any command lines. Assumptions: no two arguments have the same kind and name, which
`add` enforces, the help argument is a flag (`ArgsAssumption`: only `add_help_flag` sets it), and pieces are strings (`CommandLinesAssumption`; the
constant `Old` is any value left by an earlier call). The definitions that the parser is compared with look at the whole line: `Roles` says what
each token is by those before it, `Uses` is the flat list of what all tokens ask for. `Reading` connects them to a place: the token that the
parser is at is no value of an option; `end_of_flags` and `pos_index` are what the roles before it say (`EndBy`, `SlotBy`); the names of a cluster before `ci` are
flags; and exactly the first so many uses were taken (`Taken`: none of them was wrong or asked for help, `seen` and `parsed_values` are what they give).
`At`, whose existence `FlattenPlaces` shows, says how many uses the first tokens have. Each branch of `parse` then has one lemma
(`LongOptionRight`, `ShortFlagRight`, ...): it takes the next use, or it stops, and then the next use is the first one that ends the parsing. The values of recursive functions
(`Split`, `Positionals`, `Roles`, `FlattenSeq`) come from `Recursion` and `LeastNumber`, by the least place at which a claim about them fails.

**Parser** (`ParserProofs`), for any literals, any other tokens and texts of any length. Assumptions: the bases and digits the lexer lets through (`LiteralsAssumption`) and
a word no wider than a `long long` (`RangesAssumption`). `TypeOK` puts a node's operator inside the stretch of text the node was read from, and that is not inductive: the
stretch of a binary node begins where its left operand began and ends where its right operand does, and both were read by other calls.
`CallsOK` says what the calls under way have read: a body or a return waits at the bottom and nowhere else (so that what each pops is its own), a call that
has read an operator has a left end before it, and everything a call has read comes after the operators of the calls it returns to. `NodeOK` says the same of the node that is
being returned (`After`). An operand is joined to the operator before it by one lemma (`CombinedFacts`) for all levels. For `LiteralsKeepValue`
the values are those of `LiteralValue`, and `LiteralFacts` says what that function loses. That the number a recursive function
computes is a number at all is `NumberIsNat`, again by `Recursion` and `LeastNumber`.

For `TreeFollowsPrecedence` a node is compared with the text it was read from, and the parser never looks at that text again. `TreeInv` says what is known of it. An
`Expression(h, from, to, level)` is a stretch with its parentheses closed, and no operator outside of them looser than `level`. Each call that waits knows what it
has read: `StartsAt` says that nothing but its operand lies between its operator and the call above, `Awaits` and `Yields` the level it needs and the one it will hand on, and
`CallsFit` that the two agree all along the stack. The node that is returned is an expression of the level its caller awaits (`NodeFits`). For the finished nodes `NodesFit` is the property itself, `Nested`
says that any two are apart or one is inside an operand of the other, and `Separate` that none reaches across the place where a waiting call began (`Clear`). `Covered` says that every operator passed has a
node or a waiting call. Parentheses are counted from the beginning of the text (`Up`), since a count between two places is then a difference, and the only facts about cardinalities needed are those of
`CountStep`. The four ways to make an expression out of smaller ones are four lemmas without a state (`UnaryExpression`, `BinaryExpression`, `GroupExpression`, `CallExpression`), the completion of an operator
is one for unary and binary ones (`CombinedMerges`), and each action has a lemma (`PostfixFits`, `GroupEndFits`, `ReturnedToLevelFits`, ...).

For `ErrorsAtFirstIllegal` the machine, which knows its place and its stack, is compared with `Takes`, which knows only the tokens so far: what the grammar lets follow (`Legal`, of the alternatives the parser has functions for) and the departures `UnclosedHead`, `SecondCall` and `SecondOperator`. No token that the lexer has can follow `fn f(x`, since it has no colon; the grammar's colon is in `Legal` all the same. `LegalInv` says for each place how the text must end
there. In a function's head the last two tokens and those refused since decide (`HeadEnds`); between functions it is the closing brace (`TopEnds`); in a body it is where the statement began and that everything behind
is of an expression (`BodyEnds`, `Statements`). Within an expression the difficulty is that one token is looked at many times: each level that returns refuses it and hands it to the next looser one, and only
the last refusal is an error. `Continues` keeps what the refusals so far amount to: no call goes on from here (`NoCall`), and either no operator does (`NoOperator`) or the operator is looser than the waiting call accepts, so that a caller may still take it.
Two facts tie the stack to the text. `Deep` says that the depth of open parentheses where a call began is that of the statement exactly if no group waits below it, so that a closing parenthesis is legal exactly if somebody waits for it.
And for the operators that are not arithmetic, which the code reads once and not in a loop, `Repeats` finds an earlier operator of the level in the tokens, and the call that was entered for it is the one that refuses the second (`Blocks`, `RepeatsByUp`; `NotRepeated` for a level still
waiting for its first operand). Which parenthesis a `)` closes, and whether it was a call's, is looked up backwards in the text (`OpeningIs`, `ClosesBehind`). What all steps within an expression share is in `GoesOn` and `GoesOutside`; each action has a lemma (`OperandLegal`, `PostfixLegal`, `ReturnedToLevelLegal`, ...).
TLC found `LegalInv` to hold on the instance of the run before the proof was begun.

Only model-checked. The properties of `Arithmetic`, which evaluates expressions by recursion and uses `Bitwise`: the prover can
use neither. All liveness (`ParseEnds`, `CallsReturn`, `ProgramEnds`, `RunEnds`), which it does not handle.

## What is left out

Text: messages, formatting, the printed IR and AST. Opcode and register fields of encodings (only what an
immediate loses is modelled). The scope stack of `IrWriter`, identifiers, calls and arguments, which throw `unimplemented` before they
emit anything. The help text of the command line parser and the registration of its arguments. Functions with arguments: their type follows a colon, which the lexer does not know, so no program has one. Programs without functions, which are accepted and fail when `main` is looked up (`Image`). Frames of 2048 bytes and more, which the source says break. The discovery of tests and their header syntax.
