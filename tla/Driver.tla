------------------------------- MODULE Driver -------------------------------
(***************************************************************************)
(* The compiler driver: main, which turns the command line into settings,  *)
(* and compile, which opens the output files, runs the stages and writes   *)
(* the artifacts, with the files it reads and writes.                      *)
(*                                                                         *)
(* A file is what it contains: nothing at all, the source program, what it *)
(* held before, one artifact, or a mixture when two writers shared it.     *)
(* Text written to a stream reaches its file at once or when the stream is *)
(* closed.  The stages are seen only through what they throw.              *)
(***************************************************************************)
EXTENDS Naturals, FiniteSets, SequencesExt

CONSTANTS
  Paths,          \* the paths of files
  Input,          \* the input file
  OutPath,        \* the value of -o, or its default
  DefaultPath,    \* the path derived from the input file, per kind
  Requests,       \* the values of --emit, of kind and path
  Locked,         \* paths that one may not be able to write to
  MaxRequests,    \* bound: values of --emit on one command line
  MaxFaults       \* bound: failing writes

(* EMIT_KINDS, in the order of the pipeline. *)
Kinds == <<"ast", "ir", "asm", "exe">>

ToStdout == "stdout"

ASSUME PathsAssumption ==
  /\ Input \in Paths /\ OutPath \in Paths
  /\ DefaultPath \in [ToSet(Kinds) -> Paths]
  /\ ToStdout \notin Paths
  /\ Locked \subseteq Paths
ASSUME RequestsAssumption ==
  \A r \in Requests : r.path \in Paths \cup {ToStdout, "derived", "empty"}
ASSUME BoundsAssumption == MaxRequests \in Nat /\ MaxFaults \in Nat

VARIABLES
  stage,       \* what is done next
  values,      \* the values of --emit
  parsed,      \* how many of them were looked at
  emits,       \* CompileSettings::emits, kind to EmitTarget
  streams,     \* EmitStreams::files, kind to path
  buffered,    \* the kinds whose text was not written to the file yet
  program,     \* what was read: the outcome of compiling it
  files,       \* what each file contains
  openable,    \* the paths that can be opened for writing
  stdout,      \* the artifacts written to standard output
  exit_code,   \* the exit code, once there is one
  faults

envVars == <<values, program, openable>>
vars == <<stage, values, parsed, emits, streams, buffered, program, files, openable,
          stdout, exit_code, faults>>

None == "none"

(* How far the stages get with a program: the AST, emit_ir or lower_ir     *)
(* throws, there is no main, or nothing is wrong.                          *)
Outcomes == {"ast throws", "emit throws", "lower throws", "no main", "compiles"}

Before(kind, other) ==
  \E i, j \in DOMAIN Kinds : i < j /\ Kinds[i] = kind /\ Kinds[j] = other

Wants(kind) == kind \in DOMAIN emits

furthest == CHOOSE k \in DOMAIN emits : \A l \in DOMAIN emits : ~Before(k, l)

-----------------------------------------------------------------------------
(* An exception, or the end of compile, destroys the streams: what is      *)
(* still buffered goes to the files, and of two that share one a mixture.  *)
Written(content, artifact) ==
  IF content \in {"empty", artifact} THEN artifact ELSE "mixed"

Closed ==
  [p \in Paths |->
     LET unwritten == {k \in buffered : streams[k] = p} IN
     CASE unwritten = {} -> files[p]
       [] Cardinality(unwritten) = 1 -> Written(files[p], CHOOSE k \in unwritten : TRUE)
       [] OTHER -> "mixed"]

(* Mutant: the streams are not destroyed.                                  *)
ThrowUnflushed(code) ==
  /\ exit_code' = code
  /\ stage' = "exited"
  /\ streams' = [k \in {} |-> Input]
  /\ UNCHANGED <<files, buffered>>

Throw(code) ==
  /\ exit_code' = code
  /\ stage' = "exited"
  /\ files' = Closed
  /\ streams' = [k \in {} |-> Input]
  /\ buffered' = {}

GoOn(next) == stage' = next /\ UNCHANGED exit_code

(* parse_emit *)
EmitTarget(r) ==
  [to_stdout |-> r.path = ToStdout,
   path |-> CASE r.path = "derived" -> DefaultPath[r.kind]
              [] r.path = ToStdout -> None
              [] OTHER -> r.path]

(* Mutant: a later value replaces an earlier one of the same kind.         *)
InsertedLast(r) ==
  [k \in DOMAIN emits \cup {r.kind} |-> IF k = r.kind THEN EmitTarget(r) ELSE emits[k]]

(* std::map::insert keeps what is there. *)
Inserted(r) ==
  [k \in DOMAIN emits \cup {r.kind} |-> IF k \in DOMAIN emits THEN emits[k] ELSE EmitTarget(r)]

Valid(r) == r.kind \in ToSet(Kinds) /\ r.path # "empty"

(* main: the target and the values of --emit are looked at one by one.     *)
UnknownTarget ==
  /\ stage = "target"
  /\ Throw("Unsupported")
  /\ UNCHANGED <<parsed, emits, envVars, stdout, faults>>

KnownTarget ==
  /\ stage = "target"
  /\ GoOn("emits")
  /\ UNCHANGED <<parsed, emits, streams, buffered, files, envVars, stdout, faults>>

ParseEmit ==
  /\ stage = "emits"
  /\ parsed < Len(values)
  /\ LET r == values[parsed + 1]
     IN \/ /\ Valid(r)
           /\ emits' = Inserted(r)
           /\ parsed' = parsed + 1
           /\ UNCHANGED <<stage, exit_code, files, streams, buffered>>
        \/ ~Valid(r) /\ Throw("Unsupported") /\ UNCHANGED <<emits, parsed>>
  /\ UNCHANGED <<envVars, stdout, faults>>

(* The path of the executable is that of -o. *)
FinishSettings ==
  /\ stage = "emits"
  /\ parsed = Len(values)
  /\ emits' = IF Wants("exe") /\ ~emits["exe"].to_stdout
              THEN [emits EXCEPT !["exe"].path = OutPath] ELSE emits
  /\ \/ Wants("asm") /\ Throw("Unimplemented")
     \/ ~Wants("asm") /\ GoOn("open") /\ UNCHANGED <<files, streams, buffered>>
  /\ UNCHANGED <<parsed, envVars, stdout, faults>>

(* Mutant: the executable is opened with the other outputs.                *)
TextualAndExe == {k \in DOMAIN emits : ~emits[k].to_stdout}

(* The kinds that EmitStreams opens a file for. *)
Textual == {k \in DOMAIN emits \ {"exe"} : ~emits[k].to_stdout}

(* The constructor of EmitStreams, file by file in the order of the kinds. *)
OpenOutput ==
  /\ stage = "open"
  /\ \E k \in Textual \ DOMAIN streams :
       /\ \A l \in Textual \ DOMAIN streams : ~Before(l, k)
       /\ \/ /\ emits[k].path \in openable
             /\ files' = [files EXCEPT ![emits[k].path] = "empty"]
             /\ streams' = [l \in DOMAIN streams \cup {k} |->
                              IF l = k THEN emits[k].path ELSE streams[l]]
             /\ UNCHANGED <<stage, exit_code, buffered>>
          \/ emits[k].path \notin openable /\ Throw("FileIoError")
  /\ UNCHANGED <<parsed, emits, envVars, stdout, faults>>

(* An empty file is a program without a main. *)
OpenInput ==
  /\ stage = "open"
  /\ Textual \subseteq DOMAIN streams
  /\ \/ /\ files[Input] = "absent"
        /\ Throw("FileIoError")
        /\ UNCHANGED program
     \/ /\ files[Input] # "absent"
        /\ program' = IF files[Input] = "empty" THEN "no main" ELSE program
        /\ GoOn("ast")
        /\ UNCHANGED <<files, streams, buffered>>
  /\ UNCHANGED <<parsed, emits, values, openable, stdout, faults>>

(* The text of an artifact goes to standard output or into its stream,     *)
(* where it stays buffered or reaches the file, or is lost: the state of a *)
(* stream is never looked at.                                              *)
Write(kind) ==
  IF kind \notin DOMAIN streams
  THEN stdout' = Append(stdout, kind) /\ UNCHANGED <<files, buffered, faults>>
  ELSE /\ \/ /\ buffered' = buffered \cup {kind}
             /\ UNCHANGED <<files, faults>>
          \/ /\ files' = [files EXCEPT ![streams[kind]] = Written(@, kind)]
             /\ UNCHANGED <<buffered, faults>>
          \/ /\ faults < MaxFaults
             /\ faults' = faults + 1
             /\ UNCHANGED <<files, buffered>>
       /\ UNCHANGED stdout

(* A stage that makes the text of a kind, which is written if it was asked *)
(* for; the furthest kind ends the compilation.                            *)
Textually(now, kind, outcome, next) ==
  /\ stage = now
  /\ program # outcome
  /\ IF Wants(kind) THEN Write(kind) ELSE UNCHANGED <<stdout, files, buffered, faults>>
  /\ GoOn(IF furthest = kind THEN "return" ELSE next)
  /\ UNCHANGED <<parsed, emits, streams, envVars>>

BuildAst == Textually("ast", "ast", "ast throws", "ir")

EmitIr == Textually("ir", "ir", "emit throws", "lower")

(* Syntax, name and type errors, what is not implemented, and no main.     *)
StageThrows ==
  /\ \/ /\ stage = "ast" /\ program = "ast throws"
        /\ \E code \in {"SyntaxError", "NameError", "TypeError", "Unimplemented"} : Throw(code)
     \/ stage = "ir" /\ program = "emit throws" /\ Throw("Unimplemented")
     \/ stage = "lower" /\ program = "lower throws" /\ Throw("Unimplemented")
     \/ stage = "lower" /\ program = "no main" /\ Throw("SemanticError")
  /\ UNCHANGED <<parsed, emits, envVars, stdout, faults>>

Lower ==
  /\ stage = "lower"
  /\ program = "compiles"
  /\ GoOn("exe")
  /\ UNCHANGED <<parsed, emits, streams, buffered, files, envVars, stdout, faults>>

(* The executable is opened, written and closed; --emit exe=stdout leaves  *)
(* its path empty.                                                         *)
OpenExe ==
  /\ stage = "exe"
  /\ IF ~emits["exe"].to_stdout /\ emits["exe"].path \in openable
     THEN /\ files' = [files EXCEPT ![emits["exe"].path] = "empty"]
          /\ GoOn("write exe")
          /\ UNCHANGED <<streams, buffered>>
     ELSE Throw("FileIoError")
  /\ UNCHANGED <<parsed, emits, envVars, stdout, faults>>

WriteExe ==
  /\ stage = "write exe"
  /\ \/ /\ files' = [files EXCEPT ![emits["exe"].path] = Written(@, "exe")]
        /\ UNCHANGED faults
     \/ /\ faults < MaxFaults
        /\ faults' = faults + 1
        /\ UNCHANGED files
  /\ GoOn("return")
  /\ UNCHANGED <<parsed, emits, streams, buffered, envVars, stdout>>

Return ==
  /\ stage = "return"
  /\ Throw("Success")
  /\ UNCHANGED <<parsed, emits, envVars, stdout, faults>>

Exited == stage = "exited" /\ UNCHANGED vars

(* Any command line whose values fit the bound; without --emit, the parser *)
(* puts in its default.                                                    *)
Init ==
  /\ stage = "target"
  /\ values \in UNION {[1 .. n -> Requests] : n \in 1 .. MaxRequests}
  /\ parsed = 0
  /\ emits = [k \in {} |-> [to_stdout |-> FALSE, path |-> None]]
  /\ streams = [k \in {} |-> Input]
  /\ buffered = {}
  /\ program \in Outcomes
  /\ files \in {[p \in Paths |-> IF p = Input THEN c ELSE "old"] : c \in {"source", "absent"}}
  /\ openable \in {Paths} \cup {Paths \ {p} : p \in Locked}
  /\ stdout = <<>>
  /\ exit_code = None
  /\ faults = 0

Next ==
  \/ UnknownTarget \/ KnownTarget \/ ParseEmit \/ FinishSettings
  \/ OpenOutput \/ OpenInput
  \/ BuildAst \/ EmitIr \/ Lower \/ StageThrows
  \/ OpenExe \/ WriteExe \/ Return
  \/ Exited

Spec == Init /\ [][Next]_vars

-----------------------------------------------------------------------------
TypeOK ==
  /\ stage \in {"target", "emits", "open", "ast", "ir", "lower", "exe", "write exe",
                "return", "exited"}
  /\ values \in Seq(Requests) /\ parsed \in 0 .. Len(values)
  /\ DOMAIN emits \subseteq ToSet(Kinds)
  /\ DOMAIN streams \subseteq DOMAIN emits /\ buffered \subseteq DOMAIN streams
  /\ program \in Outcomes
  /\ files \in [Paths -> {"absent", "old", "source", "empty", "mixed"} \cup ToSet(Kinds)]
  /\ stdout \in Seq(ToSet(Kinds))
  /\ (exit_code = None) = (stage # "exited")
  /\ faults \in 0 .. MaxFaults

(* The file or the standard output that a target names has the artifact,   *)
(* whole and alone.                                                        *)
Delivered(kind, target) ==
  IF target.to_stdout THEN kind \in ToSet(stdout) ELSE files[target.path] = kind

(* The first value of each kind on the command line counts. *)
FirstOf(kind) ==
  values[CHOOSE i \in DOMAIN values :
           values[i].kind = kind /\ \A j \in 1 .. i - 1 : values[j].kind # kind]

Requested == {values[i].kind : i \in DOMAIN values}

PathsOf(kinds) == {emits[k].path : k \in {l \in kinds : ~emits[l].to_stdout}}

Outputs == PathsOf(DOMAIN emits)

Distinct ==
  /\ Input \notin Outputs
  /\ \A k, l \in DOMAIN emits :
       emits[k].path = emits[l].path /\ ~emits[k].to_stdout => k = l

(* Success means that every artifact was delivered and no other file was   *)
(* touched, unless two outputs, or an output and the input, share a path   *)
(* or a write has failed, which nothing looks at.  Of an executable that   *)
(* was asked for with a path of its own this says nothing: see             *)
(* ExeGoesWhereAsked.                                                      *)
SuccessDelivers ==
  exit_code = "Success" /\ Distinct /\ faults = 0 =>
    /\ \A k \in Requested \ {"exe"} : Delivered(k, EmitTarget(FirstOf(k)))
    /\ "exe" \in Requested /\ FirstOf("exe").path = "derived" => files[OutPath] = "exe"
    /\ \A p \in Paths \ (Outputs \cup {FirstOf(k).path : k \in Requested}) :
         files[p] = IF p = Input THEN "source" ELSE "old"

(* What --help and the README say of every kind of artifact: with "=PATH"  *)
(* it is written to that file.  The code writes the executable to the file *)
(* of -o whatever path its --emit gives.                                   *)
ExeGoesWhereAsked ==
  exit_code = "Success" /\ Distinct /\ faults = 0 /\ "exe" \in Requested =>
    LET asked == FirstOf("exe").path IN
    asked \in Paths \ (PathsOf(DOMAIN emits \ {"exe"}) \cup {Input}) =>
      files[asked] = "exe"

(* What they say of "=stdout": it is another place to put an artifact.  No *)
(* file is then needed for it, and a file error means that there is no     *)
(* input or that an output cannot be opened.  The code opens a file for    *)
(* the executable all the same, without a name.                            *)
FileErrorsHaveACause ==
  exit_code = "FileIoError" =>
    files[Input] = "absent" \/ ~(Outputs \subseteq openable)

(* An executable from an earlier run is left alone until the program has   *)
(* been compiled, whatever fails on the way.                               *)
FailureKeepsExecutable ==
  stage \notin {"write exe", "return"} /\ exit_code # "Success"
    /\ OutPath \notin PathsOf(DOMAIN emits \ {"exe"}) \cup {Input}
    => files[OutPath] = "old"
=============================================================================
