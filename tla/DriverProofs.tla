---------------------------- MODULE DriverProofs ----------------------------
(***************************************************************************)
(* A compilation that succeeds has delivered every artifact it was asked   *)
(* for, and one that fails has left the executable alone, for any command  *)
(* line and any paths.  The invariant follows an artifact from the value   *)
(* of --emit that asks for it to its stream, its buffer and its file.      *)
(***************************************************************************)
EXTENDS Driver, FiniteSetTheorems, TLAPS

Contents == {"absent", "old", "source", "empty", "mixed"} \cup ToSet(Kinds)

Compiling == stage \in {"ast", "ir", "lower", "exe", "write exe", "return"}

Succeeds == exit_code = "Success"

(* The kinds asked for so far, each by the first value of --emit for it;   *)
(* in the end the executable is to go to the path of -o.                   *)
EmitsOK ==
  /\ Len(values) > 0
  /\ stage = "target" => parsed = 0
  /\ DOMAIN emits = {values[i].kind : i \in 1 .. parsed}
  /\ emits \in [DOMAIN emits -> [to_stdout : BOOLEAN, path : Paths \cup {None}]]
  /\ \A k \in DOMAIN emits : ~emits[k].to_stdout => emits[k].path \in Paths
  /\ \A k \in DOMAIN emits \ {"exe"} : emits[k] = EmitTarget(FirstOf(k))
  /\ stage = "open" \/ Compiling \/ Succeeds =>
       /\ parsed = Len(values)
       /\ "asm" \notin DOMAIN emits
       /\ "exe" \in DOMAIN emits /\ ~emits["exe"].to_stdout => emits["exe"].path = OutPath

(* Streams are opened for the textual kinds, before anything is compiled.  *)
StreamsOK ==
  /\ DOMAIN streams \subseteq Textual
  /\ \A k \in DOMAIN streams : streams[k] = emits[k].path
  /\ buffered \subseteq DOMAIN streams
  /\ stage \in {"target", "emits", "exited"} => DOMAIN streams = {}
  /\ Compiling => DOMAIN streams = Textual

Initial(p) == IF p = Input THEN files[p] \in {"source", "absent"} ELSE files[p] = "old"

(* Files that are no output are as they were, the executable's too before  *)
(* it is opened, and the input is there once it was opened.                *)
FilesOK ==
  /\ stage \in {"target", "emits"} => \A p \in Paths : Initial(p)
  /\ stage \notin {"write exe", "return"} /\ ~Succeeds =>
       \A p \in Paths \ PathsOf(DOMAIN emits \ {"exe"}) : Initial(p)
  /\ \A p \in Paths \ Outputs : Initial(p)
  /\ (Compiling \/ Succeeds) /\ Input \notin Outputs => files[Input] = "source"

(* The kinds whose stage is over.                                          *)
Over ==
  CASE stage = "ir" -> {"ast"}
    [] stage \in {"lower", "exe", "write exe", "return"} -> {"ast", "ir"}
    [] OTHER -> {}

(* An artifact that was made is on its way, and no other is.               *)
OnItsWay(k) ==
  IF k \notin Over THEN ~emits[k].to_stdout /\ k \in DOMAIN streams =>
                          k \notin buffered /\ files[emits[k].path] = "empty"
  ELSE IF emits[k].to_stdout THEN k \in ToSet(stdout)
  ELSE IF k \in buffered THEN files[emits[k].path] = "empty"
  ELSE files[emits[k].path] = k

DeliveryOK ==
  /\ stage = "ir" => {"ir", "exe"} \cap DOMAIN emits # {}
  /\ stage \in {"lower", "exe", "write exe"} => "exe" \in DOMAIN emits
  /\ stage = "write exe" => ~emits["exe"].to_stdout
  /\ Distinct /\ faults = 0 =>
       /\ stage = "open" \/ Compiling => \A k \in DOMAIN emits \ {"exe"} : OnItsWay(k)
       /\ stage = "write exe" => files[OutPath] = "empty"
       /\ stage = "return" /\ "exe" \in DOMAIN emits =>
            ~emits["exe"].to_stdout /\ files[OutPath] = "exe"

(* What a successful run has left: the executable is at the path of -o,    *)
(* whatever was asked for, and only the paths in emits were written to.    *)
DeliveredAtOut ==
  exit_code = "Success" /\ Distinct /\ faults = 0 =>
    /\ \A k \in Requested \ {"exe"} : Delivered(k, EmitTarget(FirstOf(k)))
    /\ "exe" \in Requested => files[OutPath] = "exe"
    /\ \A p \in Paths \ Outputs : files[p] = IF p = Input THEN "source" ELSE "old"

DriverInv ==
  /\ TypeOK /\ EmitsOK /\ StreamsOK /\ FilesOK /\ DeliveryOK /\ DeliveredAtOut

-----------------------------------------------------------------------------
LEMMA FourKinds == ToSet(Kinds) = {"ast", "ir", "asm", "exe"}
BY DEF ToSet, Kinds

LEMMA AppendedIsThere ==
  ASSUME NEW S, NEW s \in Seq(S), NEW e \in S
  PROVE  e \in ToSet(Append(s, e)) /\ ToSet(s) \subseteq ToSet(Append(s, e))
<1>1. /\ DOMAIN s = 1 .. Len(s)
      /\ Len(s) \in Nat
      /\ DOMAIN Append(s, e) = 1 .. Len(s) + 1
  OBVIOUS
<1>2. Append(s, e)[Len(s) + 1] = e /\ Len(s) + 1 \in DOMAIN Append(s, e)
  BY <1>1
<1>3. ASSUME NEW i \in DOMAIN s
      PROVE  i \in DOMAIN Append(s, e) /\ Append(s, e)[i] = s[i]
  BY <1>1
<1>4. e \in ToSet(Append(s, e))
  BY <1>2, Zenon DEF ToSet
<1>5. ToSet(s) \subseteq ToSet(Append(s, e))
  BY <1>3, Zenon DEF ToSet
<1>6. QED
  BY <1>4, <1>5

(* The furthest kind is one that was asked for, and no later one was.      *)
LEMMA FurthestFacts ==
  ASSUME DOMAIN emits \subseteq {"ast", "ir", "exe"}, DOMAIN emits # {}
  PROVE  /\ furthest \in DOMAIN emits
         /\ furthest = "ast" => DOMAIN emits = {"ast"}
         /\ furthest = "ir" => "exe" \notin DOMAIN emits
<1>1. \A k, l \in {"ast", "ir", "exe"} :
        Before(k, l) <=> (k = "ast" /\ l # "ast") \/ (k = "ir" /\ l = "exe")
  <2>1. /\ DOMAIN Kinds = 1 .. 4
        /\ Kinds[1] = "ast" /\ Kinds[2] = "ir" /\ Kinds[3] = "asm" /\ Kinds[4] = "exe"
    BY DEF Kinds
  <2> QED BY <2>1 DEF Before
<1>2. \E k \in DOMAIN emits : \A l \in DOMAIN emits : ~Before(k, l)
  <2>1. CASE "exe" \in DOMAIN emits
    BY <1>1, <2>1
  <2>2. CASE "exe" \notin DOMAIN emits /\ "ir" \in DOMAIN emits
    BY <1>1, <2>2
  <2>3. CASE DOMAIN emits = {"ast"}
    BY <1>1, <2>3
  <2> QED BY <2>1, <2>2, <2>3
<1>3. furthest \in DOMAIN emits /\ \A l \in DOMAIN emits : ~Before(furthest, l)
  BY <1>2 DEF furthest
<1> QED BY <1>1, <1>3

(* Closing the streams changes no file but those of streams with unwritten *)
(* text; a file that was empty gets the text of the one stream it has.     *)
LEMMA ClosedFacts ==
  ASSUME TypeOK, EmitsOK, StreamsOK
  PROVE  /\ Closed \in [Paths -> Contents]
         /\ \A p \in Paths :
              (\A k \in buffered : emits[k].path # p) => Closed[p] = files[p]
         /\ \A k \in buffered :
              files[emits[k].path] = "empty"
                /\ (\A l \in buffered : emits[l].path = emits[k].path => l = k)
                => Closed[emits[k].path] = k
<1> DEFINE Unwritten(p) == {k \in buffered : streams[k] = p}
           Content(p) == CASE Unwritten(p) = {} -> files[p]
                           [] Cardinality(Unwritten(p)) = 1 ->
                                Written(files[p], CHOOSE k \in Unwritten(p) : TRUE)
                           [] OTHER -> "mixed"
<1>1. Closed = [p \in Paths |-> Content(p)]
  BY DEF Closed
<1>2. \A k \in buffered : streams[k] = emits[k].path /\ emits[k].path \in Paths
                          /\ k \in ToSet(Kinds)
  BY DEF TypeOK, EmitsOK, StreamsOK, Textual
<1>3. ASSUME NEW p \in Paths
      PROVE  Content(p) \in Contents
  <2>1. files[p] \in Contents
    BY DEF TypeOK, Contents
  <2>2. Unwritten(p) # {} => (CHOOSE k \in Unwritten(p) : TRUE) \in ToSet(Kinds)
    BY <1>2
  <2>3. \A k \in ToSet(Kinds) : Written(files[p], k) \in Contents
    BY DEF Written, Contents
  <2>4. "mixed" \in Contents
    BY DEF Contents
  <2> DEFINE one == CHOOSE k \in Unwritten(p) : TRUE
  <2>5. CASE Unwritten(p) = {}
    BY <2>1, <2>5, FS_EmptySet
  <2>6. CASE Unwritten(p) # {} /\ Cardinality(Unwritten(p)) = 1
    <3>1. Content(p) = Written(files[p], one)
      BY <2>6
    <3> HIDE DEF Content, one
    <3>2. one \in ToSet(Kinds)
      BY <2>2, <2>6 DEF one
    <3> QED BY <2>3, <3>1, <3>2
  <2>7. CASE Unwritten(p) # {} /\ Cardinality(Unwritten(p)) # 1
    <3>1. Content(p) = "mixed"
      BY <2>7
    <3> QED BY <2>4, <3>1
  <2> QED BY <2>5, <2>6, <2>7
<1>4. ASSUME NEW p \in Paths, \A k \in buffered : emits[k].path # p
      PROVE  Closed[p] = files[p]
  <2>1. Unwritten(p) = {}
    BY <1>2, <1>4
  <2>2. Content(p) = files[p]
    BY <2>1, FS_EmptySet
  <2> QED BY <1>1, <2>2
<1>5. ASSUME NEW k \in buffered, files[emits[k].path] = "empty",
             \A l \in buffered : emits[l].path = emits[k].path => l = k
      PROVE  Closed[emits[k].path] = k
  <2>1. Unwritten(emits[k].path) = {k}
    BY <1>2, <1>5
  <2>2. Cardinality(Unwritten(emits[k].path)) = 1
    BY <2>1, FS_Singleton
  <2>3. Content(emits[k].path) = Written(files[emits[k].path], k)
    BY <2>1, <2>2
  <2> QED BY <1>1, <1>2, <1>5, <2>3 DEF Written
<1> QED BY <1>1, <1>3, <1>4, <1>5

(* The settings stay what they are once they are complete.                 *)
LEMMA EmitsKept ==
  ASSUME EmitsOK, UNCHANGED <<emits, values, parsed>>, stage' # "target",
         stage' = "open" \/ Compiling' \/ Succeeds' => stage = "open" \/ Compiling \/ Succeeds
  PROVE  EmitsOK'
<1>1. \A k : FirstOf(k)' = FirstOf(k)
  BY DEF FirstOf
<1>2. \A k \in DOMAIN emits' \ {"exe"} : emits'[k] = EmitTarget(FirstOf(k)')
  BY <1>1 DEF EmitsOK
<1>3. DOMAIN emits' = {values'[i].kind : i \in 1 .. parsed'}
  BY DEF EmitsOK
<1> QED BY <1>2, <1>3 DEF EmitsOK

(* An exception leaves every file that is no output as it was: the streams *)
(* that it closes are those of the textual kinds.                          *)
LEMMA FailureKeeps ==
  ASSUME DriverInv, NEW code, code \notin {None, "Success"}, Throw(code),
         stage \notin {"write exe", "return", "exited"}, EmitsOK',
         DOMAIN emits' = DOMAIN emits, \A k \in DOMAIN emits \ {"exe"} : emits'[k] = emits[k],
         program' \in Outcomes, UNCHANGED <<parsed, values, openable, stdout, faults>>
  PROVE  DriverInv'
<1> USE DEF DriverInv
<1>1. /\ exit_code' = code /\ stage' = "exited" /\ DOMAIN streams' = {} /\ buffered' = {}
      /\ files' = Closed
  BY DEF Throw
<1>2. exit_code' \notin {None, "Success"}
  BY <1>1
<1>3. TypeOK'
  BY <1>1, <1>2, ClosedFacts DEF TypeOK, Contents
<1>4. StreamsOK'
  BY <1>1 DEF StreamsOK, Compiling
<1>5. FilesOK'
  <2>1. PathsOf(DOMAIN emits \ {"exe"})' = PathsOf(DOMAIN emits \ {"exe"})
    BY DEF PathsOf
  <2>2. \A p \in Paths \ PathsOf(DOMAIN emits \ {"exe"}) : files'[p] = files[p]
    <3>1. \A k \in buffered : emits[k].path \in PathsOf(DOMAIN emits \ {"exe"})
      BY DEF StreamsOK, Textual, PathsOf
    <3> QED BY <1>1, <3>1, ClosedFacts
  <2>3. \A p \in Paths \ PathsOf(DOMAIN emits \ {"exe"}) : Initial(p)
    BY DEF FilesOK, TypeOK, Succeeds, None
  <2>4. \A p \in Paths \ PathsOf(DOMAIN emits \ {"exe"})' : Initial(p)'
    BY <2>1, <2>2, <2>3 DEF Initial
  <2>5. PathsOf(DOMAIN emits \ {"exe"})' \subseteq Outputs'
    BY DEF PathsOf, Outputs
  <2> QED BY <1>1, <1>2, <2>4, <2>5 DEF FilesOK, Compiling, Succeeds
<1>6. DeliveryOK' /\ DeliveredAtOut'
  BY <1>1, <1>2 DEF DeliveryOK, Compiling, DeliveredAtOut
<1> QED BY <1>3, <1>4, <1>5, <1>6

(* Before a stream is opened, closing them all does nothing.               *)
LEMMA ParseEmitKeeps ==
  ASSUME DriverInv, ParseEmit
  PROVE  DriverInv'
<1> USE DEF DriverInv
<1> DEFINE r == values[parsed + 1]
<1>1. /\ stage = "emits" /\ parsed < Len(values) /\ parsed \in Nat /\ Len(values) \in Nat
      /\ DOMAIN values = 1 .. Len(values) /\ r \in Requests /\ ~Succeeds
      /\ UNCHANGED <<values, program, openable, stdout, faults>>
  BY DEF ParseEmit, TypeOK, envVars, Succeeds, None
<1>2. CASE ~Valid(r)
  <2>1. Throw("Unsupported") /\ UNCHANGED <<emits, parsed>>
    BY <1>2 DEF ParseEmit
  <2>2. EmitsOK'
    <3>1. stage' = "exited" /\ ~Succeeds' /\ ~Compiling'
      BY <2>1 DEF Throw, Succeeds, Compiling
    <3> QED BY <1>1, <2>1, <3>1, EmitsKept
  <2> QED BY <1>1, <2>1, <2>2, FailureKeeps DEF None, TypeOK
<1>3. CASE Valid(r)
  <2>1. /\ emits' = Inserted(r) /\ parsed' = parsed + 1
        /\ UNCHANGED <<stage, exit_code, files, streams, buffered>>
    BY <1>3 DEF ParseEmit
  <2>2. r.kind \in ToSet(Kinds) /\ r.path \in Paths \cup {ToStdout, "derived"}
    BY <1>1, <1>3, RequestsAssumption DEF Valid
  <2>3. /\ EmitTarget(r) \in [to_stdout : BOOLEAN, path : Paths \cup {None}]
        /\ ~EmitTarget(r).to_stdout => EmitTarget(r).path \in Paths
    <3>1. DefaultPath[r.kind] \in Paths
      BY <2>2, PathsAssumption
    <3>2. CASE r.path = "derived"
      BY <3>1, <3>2 DEF EmitTarget, ToStdout
    <3>3. CASE r.path = ToStdout
      BY <3>3 DEF EmitTarget, ToStdout
    <3>4. CASE r.path \notin {"derived", ToStdout}
      BY <2>2, <3>4 DEF EmitTarget
    <3> QED BY <3>2, <3>3, <3>4
  <2>4. /\ DOMAIN emits' = DOMAIN emits \cup {r.kind}
        /\ \A k \in DOMAIN emits : emits'[k] = emits[k]
        /\ r.kind \notin DOMAIN emits => emits'[r.kind] = EmitTarget(r)
        /\ emits' \in [DOMAIN emits' -> [to_stdout : BOOLEAN, path : Paths \cup {None}]]
    <3> HIDE DEF r
    <3>1. DOMAIN emits' = DOMAIN emits \cup {r.kind}
      BY <2>1 DEF Inserted
    <3>2. \A k \in DOMAIN emits' : emits'[k] = IF k \in DOMAIN emits THEN emits[k] ELSE EmitTarget(r)
      BY <2>1 DEF Inserted
    <3>3. emits' = [k \in DOMAIN emits' |-> emits'[k]]
      BY <2>1 DEF Inserted
    <3> QED BY <2>3, <3>1, <3>2, <3>3 DEF EmitsOK
  <2>5. DOMAIN emits' = {values[i].kind : i \in 1 .. parsed'}
    <3>1. 1 .. parsed' = 1 .. parsed \cup {parsed + 1}
      BY <1>1, <2>1
    <3> QED BY <2>4, <3>1 DEF EmitsOK
  <2>6. r.kind \notin DOMAIN emits => FirstOf(r.kind) = r
    <3> DEFINE First(i) == values[i].kind = r.kind /\ \A j \in 1 .. i - 1 : values[j].kind # r.kind
    <3>1. SUFFICES ASSUME r.kind \notin DOMAIN emits
                   PROVE  (CHOOSE i \in DOMAIN values : First(i)) = parsed + 1
      BY DEF FirstOf
    <3>2. \A j \in 1 .. parsed : values[j].kind # r.kind
      BY <3>1 DEF EmitsOK
    <3>3. parsed + 1 \in DOMAIN values /\ First(parsed + 1)
      BY <1>1, <3>2
    <3>4. \A i \in DOMAIN values : First(i) => i = parsed + 1
      BY <1>1, <3>2
    <3> QED BY <3>3, <3>4
  <2>7. EmitsOK'
    <3>1. \A k \in DOMAIN emits' : ~emits'[k].to_stdout => emits'[k].path \in Paths
      BY <2>3, <2>4 DEF EmitsOK
    <3>2. \A k \in DOMAIN emits' \ {"exe"} : emits'[k] = EmitTarget(FirstOf(k))
      BY <2>4, <2>6 DEF EmitsOK
    <3>3. \A k : FirstOf(k)' = FirstOf(k)
      BY <1>1 DEF FirstOf
    <3>4. stage' = "emits" /\ ~Succeeds' /\ ~Compiling' /\ Len(values') > 0
      BY <1>1, <2>1 DEF Succeeds, Compiling
    <3>5. \A k \in DOMAIN emits' \ {"exe"} : emits'[k] = EmitTarget(FirstOf(k)')
      BY <3>2, <3>3
    <3>6. DOMAIN emits' = {values'[i].kind : i \in 1 .. parsed'}
      BY <1>1, <2>5
    <3> HIDE DEF r
    <3> QED BY <2>4, <3>1, <3>4, <3>5, <3>6 DEF EmitsOK
  <2>8. TypeOK'
    BY <1>1, <2>1, <2>2, <2>4 DEF TypeOK
  <2>9. StreamsOK'
    BY <1>1, <2>1 DEF StreamsOK, Compiling
  <2>10. FilesOK'
    BY <1>1, <2>1 DEF FilesOK, Compiling, Succeeds, Initial
  <2>11. DeliveryOK' /\ DeliveredAtOut'
    BY <1>1, <2>1 DEF DeliveryOK, Compiling, DeliveredAtOut, Succeeds
  <2> QED BY <2>7, <2>8, <2>9, <2>10, <2>11
<1> QED BY <1>2, <1>3

LEMMA TargetKeeps ==
  ASSUME DriverInv, KnownTarget \/ UnknownTarget
  PROVE  DriverInv'
<1> USE DEF DriverInv
<1>1. CASE KnownTarget
  <2>1. /\ stage = "target" /\ stage' = "emits" /\ ~Succeeds /\ ~Succeeds' /\ ~Compiling'
        /\ UNCHANGED <<parsed, emits, streams, buffered, files, values, program, openable,
                       stdout, faults, exit_code>>
    BY <1>1 DEF KnownTarget, GoOn, envVars, TypeOK, Succeeds, Compiling, None
  <2>2. EmitsOK'
    BY <2>1, EmitsKept
  <2>3. TypeOK' /\ StreamsOK' /\ DeliveryOK' /\ DeliveredAtOut'
    BY <2>1 DEF TypeOK, StreamsOK, DeliveryOK, DeliveredAtOut, Succeeds
  <2>4. FilesOK'
    BY <2>1 DEF FilesOK, Initial
  <2> QED BY <2>2, <2>3, <2>4
<1>2. CASE UnknownTarget
  <2>1. /\ stage = "target" /\ Throw("Unsupported")
        /\ UNCHANGED <<parsed, emits, values, program, openable, stdout, faults>>
    BY <1>2 DEF UnknownTarget, envVars
  <2>2. stage' = "exited" /\ ~Succeeds' /\ ~Compiling'
    BY <2>1 DEF Throw, Succeeds, Compiling
  <2>3. EmitsOK'
    BY <2>1, <2>2, EmitsKept
  <2> QED BY <2>1, <2>3, FailureKeeps DEF None, TypeOK
<1> QED BY <1>1, <1>2

(* The values were all looked at, and the executable has its path.         *)
LEMMA FinishSettingsKeeps ==
  ASSUME DriverInv, FinishSettings
  PROVE  DriverInv'
<1> USE DEF DriverInv
<1>1. /\ stage = "emits" /\ parsed = Len(values) /\ ~Succeeds
      /\ emits' = IF Wants("exe") /\ ~emits["exe"].to_stdout
                  THEN [emits EXCEPT !["exe"].path = OutPath] ELSE emits
      /\ UNCHANGED <<parsed, values, program, openable, stdout, faults>>
  BY DEF FinishSettings, envVars, TypeOK, Succeeds, None
<1>2. /\ DOMAIN emits' = DOMAIN emits
      /\ \A k \in DOMAIN emits \ {"exe"} : emits'[k] = emits[k]
      /\ emits' \in [DOMAIN emits -> [to_stdout : BOOLEAN, path : Paths \cup {None}]]
      /\ "exe" \in DOMAIN emits =>
           /\ emits'["exe"].to_stdout = emits["exe"].to_stdout
           /\ ~emits["exe"].to_stdout => emits'["exe"].path = OutPath
  <2>1. CASE Wants("exe") /\ ~emits["exe"].to_stdout
    <3>1. emits["exe"] \in [to_stdout : BOOLEAN, path : Paths \cup {None}]
      BY <2>1 DEF EmitsOK, Wants
    <3>2. emits' = [emits EXCEPT !["exe"] = [emits["exe"] EXCEPT !.path = OutPath]]
      BY <1>1, <2>1
    <3> QED BY <2>1, <3>1, <3>2, PathsAssumption DEF EmitsOK, Wants
  <2>2. CASE ~(Wants("exe") /\ ~emits["exe"].to_stdout)
    BY <1>1, <2>2 DEF EmitsOK, Wants
  <2> QED BY <2>1, <2>2
<1>3. ASSUME stage' = "open" => "asm" \notin DOMAIN emits, stage' \in {"open", "exited"},
             ~Succeeds'
      PROVE  EmitsOK'
  <2>1. \A k : FirstOf(k)' = FirstOf(k)
    BY <1>1 DEF FirstOf
  <2>2. \A k \in DOMAIN emits' \ {"exe"} : emits'[k] = EmitTarget(FirstOf(k)')
    BY <1>2, <2>1 DEF EmitsOK
  <2>3. DOMAIN emits' = {values'[i].kind : i \in 1 .. parsed'}
    BY <1>1, <1>2 DEF EmitsOK
  <2>4. \A k \in DOMAIN emits' : ~emits'[k].to_stdout => emits'[k].path \in Paths
    BY <1>2, PathsAssumption DEF EmitsOK
  <2>5. ~Compiling'
    BY <1>3 DEF Compiling
  <2> QED BY <1>1, <1>2, <1>3, <2>2, <2>3, <2>4, <2>5 DEF EmitsOK
<1>4. CASE Throw("Unimplemented")
  <2>1. EmitsOK'
    BY <1>3, <1>4 DEF Throw, Succeeds
  <2> QED BY <1>1, <1>2, <1>4, <2>1, FailureKeeps DEF None, TypeOK
<1>5. CASE /\ ~Wants("asm") /\ GoOn("open") /\ UNCHANGED <<files, streams, buffered>>
  <2>1. stage' = "open" /\ exit_code' = exit_code /\ ~Succeeds' /\ ~Compiling'
    BY <1>1, <1>5 DEF GoOn, Succeeds, Compiling
  <2>2. EmitsOK'
    BY <1>3, <1>5, <2>1 DEF Wants
  <2>3. TypeOK' /\ StreamsOK' /\ DeliveredAtOut'
    BY <1>1, <1>2, <1>5, <2>1 DEF TypeOK, StreamsOK, DeliveredAtOut, Succeeds
  <2>4. FilesOK'
    BY <1>1, <1>5, <2>1 DEF FilesOK, Initial
  <2>5. DeliveryOK'
    BY <1>1, <1>5, <2>1 DEF DeliveryOK, OnItsWay, Over, StreamsOK
  <2> QED BY <2>2, <2>3, <2>4, <2>5
<1> QED BY <1>4, <1>5 DEF FinishSettings

LEMMA OpenOutputKeeps ==
  ASSUME DriverInv, OpenOutput
  PROVE  DriverInv'
<1> USE DEF DriverInv
<1>1. /\ stage = "open" /\ ~Succeeds
      /\ UNCHANGED <<parsed, emits, values, program, openable, stdout, faults>>
  BY DEF OpenOutput, envVars, TypeOK, Succeeds, None
<1>2. CASE Throw("FileIoError")
  <2>1. stage' = "exited" /\ ~Succeeds' /\ ~Compiling'
    BY <1>2 DEF Throw, Succeeds, Compiling
  <2>2. EmitsOK'
    BY <1>1, <2>1, EmitsKept
  <2> QED BY <1>1, <1>2, <2>2, FailureKeeps DEF None, TypeOK
<1>3. ASSUME NEW k \in Textual \ DOMAIN streams,
             files' = [files EXCEPT ![emits[k].path] = "empty"],
             streams' = [l \in DOMAIN streams \cup {k} |->
                           IF l = k THEN emits[k].path ELSE streams[l]],
             UNCHANGED <<stage, exit_code, buffered>>
      PROVE  DriverInv'
  <2>1. /\ k \in DOMAIN emits \ {"exe"} /\ ~emits[k].to_stdout /\ emits[k].path \in Paths
        /\ k \notin buffered
    BY DEF Textual, EmitsOK, StreamsOK
  <2>2. EmitsOK'
    BY <1>1, <1>3, EmitsKept DEF Succeeds
  <2>3. TypeOK'
    BY <1>1, <1>3, <2>1 DEF TypeOK
  <2>4. StreamsOK'
    BY <1>1, <1>3, <2>1 DEF StreamsOK, Textual, Compiling
  <2>5. FilesOK'
    <3>1. PathsOf(DOMAIN emits \ {"exe"})' = PathsOf(DOMAIN emits \ {"exe"}) /\ Outputs' = Outputs
      BY <1>1 DEF PathsOf, Outputs
    <3>2. emits[k].path \in PathsOf(DOMAIN emits \ {"exe"}) /\ emits[k].path \in Outputs
      BY <2>1 DEF PathsOf, Outputs
    <3>3. \A p \in Paths : p # emits[k].path => files'[p] = files[p]
      BY <1>3 DEF TypeOK
    <3>4. \A p \in Paths : p # emits[k].path /\ Initial(p) => Initial(p)'
      BY <3>3 DEF Initial
    <3> QED BY <1>1, <1>3, <3>1, <3>2, <3>4 DEF FilesOK, Compiling, Succeeds
  <2>6. DeliveryOK'
    <3>1. stage' = "open" /\ Over' = {}
      BY <1>1, <1>3 DEF Over
    <3>2. SUFFICES ASSUME Distinct', faults' = 0, NEW l \in DOMAIN emits' \ {"exe"}
                   PROVE  OnItsWay(l)'
      BY <3>1 DEF DeliveryOK, Compiling
    <3>3. Distinct /\ faults = 0
      BY <1>1, <3>2 DEF Distinct, Outputs, PathsOf
    <3>4. OnItsWay(l) /\ l \notin Over
      BY <1>1, <3>2, <3>3 DEF DeliveryOK, Over
    <3>5. l # k /\ ~emits[l].to_stdout => emits[l].path # emits[k].path
      BY <1>1, <2>1, <3>2, <3>3 DEF Distinct
    <3>6. ~emits[l].to_stdout /\ l \in DOMAIN streams' =>
            l \notin buffered /\ files'[emits[l].path] = "empty"
      BY <1>1, <1>3, <2>1, <3>2, <3>4, <3>5 DEF OnItsWay, TypeOK, EmitsOK
    <3> QED BY <1>1, <1>3, <3>1, <3>6 DEF OnItsWay
  <2>7. DeliveredAtOut'
    BY <1>1, <1>3 DEF DeliveredAtOut, Succeeds
  <2> QED BY <2>2, <2>3, <2>4, <2>5, <2>6, <2>7
<1> QED BY <1>2, <1>3 DEF OpenOutput

LEMMA OpenInputKeeps ==
  ASSUME DriverInv, OpenInput
  PROVE  DriverInv'
<1> USE DEF DriverInv
<1>1. /\ stage = "open" /\ ~Succeeds /\ Textual \subseteq DOMAIN streams
      /\ UNCHANGED <<parsed, emits, values, openable, stdout, faults>>
  BY DEF OpenInput, TypeOK, Succeeds, None
<1>2. CASE Throw("FileIoError") /\ UNCHANGED program
  <2>1. stage' = "exited" /\ ~Succeeds' /\ ~Compiling'
    BY <1>2 DEF Throw, Succeeds, Compiling
  <2>2. EmitsOK'
    BY <1>1, <2>1, EmitsKept
  <2> QED BY <1>1, <1>2, <2>2, FailureKeeps DEF None, TypeOK
<1>3. CASE /\ files[Input] # "absent"
           /\ program' = IF files[Input] = "empty" THEN "no main" ELSE program
           /\ GoOn("ast") /\ UNCHANGED <<files, streams, buffered>>
  <2>1. stage' = "ast" /\ exit_code' = exit_code /\ ~Succeeds' /\ program' \in Outcomes
    BY <1>1, <1>3 DEF GoOn, Succeeds, TypeOK, Outcomes
  <2>2. EmitsOK'
    BY <1>1, <2>1, EmitsKept
  <2>3. TypeOK'
    BY <1>1, <1>3, <2>1 DEF TypeOK
  <2>4. StreamsOK' /\ DeliveredAtOut'
    BY <1>1, <1>3, <2>1 DEF StreamsOK, Textual, Compiling, DeliveredAtOut, Succeeds
  <2>5. FilesOK'
    <3>1. PathsOf(DOMAIN emits \ {"exe"})' = PathsOf(DOMAIN emits \ {"exe"}) /\ Outputs' = Outputs
      BY <1>1 DEF PathsOf, Outputs
    <3>2. Input \notin Outputs => files[Input] = "source"
      BY <1>1, <1>3, PathsAssumption DEF FilesOK, Initial
    <3>3. \A p : Initial(p)' = Initial(p)
      BY <1>3 DEF Initial
    <3> QED BY <1>1, <1>3, <2>1, <3>1, <3>2, <3>3 DEF FilesOK
  <2>6. DeliveryOK'
    <3>1. Over' = Over
      BY <1>1, <2>1 DEF Over
    <3>2. Distinct' = Distinct
      BY <1>1 DEF Distinct, Outputs, PathsOf
    <3>3. \A k : OnItsWay(k)' = OnItsWay(k)
      BY <1>1, <1>3, <3>1 DEF OnItsWay
    <3> QED BY <1>1, <2>1, <3>2, <3>3 DEF DeliveryOK
  <2> QED BY <2>2, <2>3, <2>4, <2>5, <2>6
<1> QED BY <1>2, <1>3 DEF OpenInput

(* A textual stage leaves the artifact of its kind on its way, and says    *)
(* that there is nothing more to do only when its kind is the furthest.    *)
LEMMA TextuallyKeeps ==
  ASSUME DriverInv, NEW now, NEW kind, NEW outcome, NEW next, Textually(now, kind, outcome, next),
         \/ now = "ast" /\ kind = "ast" /\ next = "ir"
         \/ now = "ir" /\ kind = "ir" /\ next = "lower"
  PROVE  DriverInv'
<1> USE DEF DriverInv
<1>1. /\ stage = now /\ Compiling /\ ~Succeeds
      /\ stage' = IF furthest = kind THEN "return" ELSE next
      /\ UNCHANGED <<parsed, emits, streams, values, program, openable, exit_code>>
  BY DEF Textually, GoOn, envVars, TypeOK, Succeeds, None, Compiling
<1>2. Compiling' /\ ~Succeeds' /\ stage' \in {"ir", "lower", "return"}
  BY <1>1 DEF Compiling, Succeeds
<1>3. /\ DOMAIN emits \subseteq {"ast", "ir", "exe"} /\ DOMAIN emits # {}
      /\ DOMAIN streams = Textual
  <2>1. values[1].kind \in DOMAIN emits
    <3>1. parsed = Len(values) /\ Len(values) > 0 /\ Len(values) \in Nat
      <4>1. values \in Seq(Requests)
        BY DEF TypeOK
      <4>2. parsed = Len(values) /\ Len(values) > 0
        BY <1>1 DEF EmitsOK
      <4> QED BY <4>1, <4>2
    <3>2. 1 \in 1 .. parsed
      BY <3>1
    <3> QED BY <3>2 DEF EmitsOK
  <2> QED BY <1>1, <2>1, FourKinds DEF EmitsOK, StreamsOK, TypeOK
<1>4. \/ UNCHANGED <<stdout, files, buffered, faults>> /\ kind \notin DOMAIN emits
      \/ /\ kind \in DOMAIN emits /\ emits[kind].to_stdout
         /\ stdout' = Append(stdout, kind) /\ UNCHANGED <<files, buffered, faults>>
      \/ /\ kind \in DOMAIN streams /\ UNCHANGED stdout
         /\ \/ buffered' = buffered \cup {kind} /\ UNCHANGED <<files, faults>>
            \/ /\ files' = [files EXCEPT ![emits[kind].path] = Written(@, kind)]
               /\ UNCHANGED <<buffered, faults>>
            \/ /\ faults' = faults + 1 /\ faults < MaxFaults
               /\ UNCHANGED <<files, buffered>>
  <2>1. CASE ~Wants(kind)
    BY <2>1 DEF Textually, Wants
  <2>2. CASE Wants(kind) /\ kind \notin DOMAIN streams
    <3>1. emits[kind].to_stdout
      BY <1>3, <2>2 DEF Textual, Wants, EmitsOK
    <3> QED BY <2>2, <3>1 DEF Textually, Write, Wants
  <2>3. CASE Wants(kind) /\ kind \in DOMAIN streams
    <3>1. streams[kind] = emits[kind].path
      BY <2>3 DEF StreamsOK
    <3> QED BY <2>3, <3>1 DEF Textually, Write
  <2> QED BY <2>1, <2>2, <2>3
<1>t. /\ stdout \in Seq(ToSet(Kinds)) /\ faults \in 0 .. MaxFaults
      /\ files \in [Paths -> Contents] /\ buffered \subseteq DOMAIN streams
      /\ kind \in ToSet(Kinds)
  BY FourKinds DEF TypeOK, Contents
<1>5. kind \in DOMAIN streams =>
        /\ emits[kind].path \in PathsOf(DOMAIN emits \ {"exe"}) /\ emits[kind].path \in Outputs
        /\ emits[kind].path \in Paths /\ ~emits[kind].to_stdout
  BY <1>3 DEF Textual, PathsOf, Outputs, EmitsOK
<1>6. \A p \in Paths : p # emits[kind].path \/ kind \notin DOMAIN streams => files'[p] = files[p]
  BY <1>3, <1>4 DEF TypeOK
<1>7. EmitsOK'
  BY <1>1, <1>2, EmitsKept
<1>8. TypeOK'
  <2>1. kind \in ToSet(Kinds)
    BY FourKinds
  <2>2. stdout' \in Seq(ToSet(Kinds))
    BY <1>4, <1>t
  <2>3. faults' \in 0 .. MaxFaults
    BY <1>4, <1>t, BoundsAssumption
  <2>4. files' \in [Paths -> {"absent", "old", "source", "empty", "mixed"} \cup ToSet(Kinds)]
    BY <1>4, <2>1 DEF TypeOK, Written
  <2>5. buffered' \subseteq DOMAIN streams
    BY <1>4 DEF TypeOK
  <2> QED BY <1>1, <1>2, <2>2, <2>3, <2>4, <2>5 DEF TypeOK
<1>9. StreamsOK'
  BY <1>1, <1>2, <1>4 DEF StreamsOK, Textual
<1>10. FilesOK'
  <2>1. PathsOf(DOMAIN emits \ {"exe"})' = PathsOf(DOMAIN emits \ {"exe"}) /\ Outputs' = Outputs
    BY <1>1 DEF PathsOf, Outputs
  <2>2. \A p \in Paths \ PathsOf(DOMAIN emits \ {"exe"}) : Initial(p)' = Initial(p)
    BY <1>5, <1>6 DEF Initial
  <2>3. \A p \in Paths \ Outputs : Initial(p)' = Initial(p)
    BY <1>5, <1>6 DEF Initial
  <2>4. stage \notin {"write exe", "return"}
    BY <1>1
  <2>5. Input \notin Outputs => files'[Input] = files[Input]
    BY <1>5, <1>6, PathsAssumption
  <2> QED BY <1>1, <1>2, <2>1, <2>2, <2>3, <2>4, <2>5 DEF FilesOK
<1>11. DeliveredAtOut'
  BY <1>2 DEF DeliveredAtOut, Succeeds
<1>12. DeliveryOK'
  <2>1. /\ stage' = "ir" => {"ir", "exe"} \cap DOMAIN emits # {}
        /\ stage' = "lower" => "exe" \in DOMAIN emits
        /\ stage' = "return" => "exe" \notin DOMAIN emits
    <3>1. stage = "ir" => {"ir", "exe"} \cap DOMAIN emits # {}
      BY DEF DeliveryOK
    <3> QED BY <1>1, <1>3, <3>1, FurthestFacts
  <2>2. ASSUME Distinct', faults' = 0, NEW k \in DOMAIN emits \ {"exe"}
        PROVE  OnItsWay(k)'
    <3>1. Distinct /\ faults = 0
      <4>1. Distinct
        BY <1>1, <2>2 DEF Distinct, Outputs, PathsOf
      <4>2. faults = 0
        BY <1>4, <1>t, <2>2, BoundsAssumption
      <4> QED BY <4>1, <4>2
    <3>2. OnItsWay(k)
      BY <1>1, <2>2, <3>1 DEF DeliveryOK
    <3>3. k \in Over' <=> k \in Over \/ k = kind
      BY <1>1, <1>2, <1>3, FurthestFacts DEF Over
    <3>4. kind \notin Over
      BY <1>1 DEF Over
    <3>5. k # kind /\ ~emits[k].to_stdout => files'[emits[k].path] = files[emits[k].path]
      <4>1. SUFFICES ASSUME k # kind, ~emits[k].to_stdout
                     PROVE  files'[emits[k].path] = files[emits[k].path]
        OBVIOUS
      <4>2. emits[k].path \in Paths /\ (kind \in DOMAIN streams => kind \in DOMAIN emits)
        BY <1>3, <2>2, <4>1 DEF EmitsOK, Textual
      <4>3. kind \in DOMAIN streams => emits[k].path # emits[kind].path
        BY <2>2, <3>1, <4>1, <4>2 DEF Distinct
      <4> QED BY <1>6, <4>2, <4>3
    <3>6. CASE k # kind
      <4>1. /\ k \in buffered' <=> k \in buffered
            /\ k \in ToSet(stdout) => k \in ToSet(stdout')
        BY <1>4, <1>t, <3>6, AppendedIsThere
      <4> QED BY <1>1, <3>2, <3>3, <3>5, <3>6, <4>1 DEF OnItsWay
    <3>7. CASE k = kind
      <4>1. CASE emits[kind].to_stdout
        <5>1. stdout' = Append(stdout, kind)
          BY <1>4, <1>5, <2>2, <3>7, <4>1
        <5>2. kind \in ToSet(stdout')
          BY <1>t, <5>1, AppendedIsThere
        <5> QED BY <1>1, <3>3, <3>7, <4>1, <5>2 DEF OnItsWay
      <4>2. CASE ~emits[kind].to_stdout
        <5>1. kind \in DOMAIN streams
          BY <1>3, <2>2, <3>7, <4>2 DEF Textual
        <5>2. kind \notin buffered /\ files[emits[kind].path] = "empty"
          BY <3>2, <3>4, <3>7, <4>2, <5>1 DEF OnItsWay
        <5>3. \/ kind \in buffered' /\ files'[emits[kind].path] = "empty"
              \/ kind \notin buffered' /\ files'[emits[kind].path] = kind
          <6>1. faults' = faults /\ faults \in Nat
            BY <1>t, <2>2, <3>1
          <6>2. \/ buffered' = buffered \cup {kind} /\ files' = files
                \/ /\ files' = [files EXCEPT ![emits[kind].path] = Written(@, kind)]
                   /\ buffered' = buffered
            BY <1>4, <1>5, <2>2, <3>7, <5>1, <6>1
          <6> QED BY <1>t, <1>5, <5>1, <5>2, <6>2 DEF Written
        <5> QED BY <1>1, <3>3, <3>7, <4>2, <5>3 DEF OnItsWay
      <4> QED BY <4>1, <4>2
    <3> QED BY <3>6, <3>7
  <2> QED BY <1>1, <1>2, <2>1, <2>2 DEF DeliveryOK
<1> QED BY <1>7, <1>8, <1>9, <1>10, <1>11, <1>12

LEMMA LowerKeeps ==
  ASSUME DriverInv, StageThrows \/ Lower
  PROVE  DriverInv'
<1> USE DEF DriverInv
<1>1. CASE StageThrows
  <2>1. PICK code \in {"SyntaxError", "NameError", "TypeError", "Unimplemented", "SemanticError"} :
          Throw(code) /\ stage \in {"ast", "ir", "lower"}
    BY <1>1 DEF StageThrows
  <2>2. UNCHANGED <<parsed, emits, values, program, openable, stdout, faults>>
    BY <1>1 DEF StageThrows, envVars
  <2>3. stage' = "exited" /\ ~Succeeds' /\ ~Compiling'
    BY <2>1 DEF Throw, Succeeds, Compiling
  <2>4. EmitsOK'
    BY <2>2, <2>3, EmitsKept
  <2>5. code \notin {None, "Success"} /\ program' \in Outcomes
    BY <2>1, <2>2 DEF None, TypeOK
  <2> QED BY <2>1, <2>2, <2>4, <2>5, FailureKeeps
<1>2. CASE Lower
  <2>1. /\ stage = "lower" /\ stage' = "exe" /\ Compiling /\ Compiling' /\ ~Succeeds /\ ~Succeeds'
        /\ UNCHANGED <<parsed, emits, streams, buffered, files, values, program, openable,
                       stdout, faults, exit_code>>
    BY <1>2 DEF Lower, GoOn, envVars, TypeOK, Succeeds, Compiling, None
  <2>2. EmitsOK'
    BY <2>1, EmitsKept
  <2>3. TypeOK'
    BY <2>1 DEF TypeOK
  <2>4. StreamsOK'
    BY <2>1 DEF StreamsOK, Textual
  <2>5. PathsOf(DOMAIN emits \ {"exe"})' = PathsOf(DOMAIN emits \ {"exe"})
        /\ Outputs' = Outputs /\ Distinct' = Distinct
    BY <2>1 DEF PathsOf, Outputs, Distinct
  <2>6. FilesOK'
    <3>1. \A p : Initial(p)' = Initial(p)
      BY <2>1 DEF Initial
    <3> QED BY <2>1, <2>5, <3>1 DEF FilesOK
  <2>7. DeliveryOK' /\ DeliveredAtOut'
    <3>1. \A k : OnItsWay(k)' = OnItsWay(k)
      BY <2>1 DEF OnItsWay, Over
    <3> QED BY <2>1, <2>5, <3>1 DEF DeliveryOK, DeliveredAtOut, Succeeds
  <2> QED BY <2>2, <2>3, <2>4, <2>6, <2>7
<1> QED BY <1>1, <1>2

(* The file of the executable is no other output's.                        *)
LEMMA ExecutableStepKeeps ==
  ASSUME DriverInv, stage \in {"exe", "write exe"}, "exe" \in DOMAIN emits, ~emits["exe"].to_stdout,
         stage' = IF stage = "exe" THEN "write exe" ELSE "return",
         NEW content \in Contents,
         files' = [files EXCEPT ![OutPath] = content],
         Distinct /\ faults' = 0 =>
           content = (IF stage = "exe" THEN "empty" ELSE "exe") /\ faults = 0,
         faults' \in 0 .. MaxFaults,
         UNCHANGED <<parsed, emits, streams, buffered, values, program, openable, stdout, exit_code>>
  PROVE  DriverInv'
<1> USE DEF DriverInv
<1>1. Compiling /\ Compiling' /\ ~Succeeds /\ ~Succeeds' /\ stage' \in {"write exe", "return"}
  BY DEF Compiling, Succeeds, TypeOK, None
<1>2. emits["exe"].path = OutPath /\ OutPath \in Paths
  BY <1>1, PathsAssumption DEF EmitsOK
<1>3. EmitsOK'
  BY <1>1, EmitsKept
<1>4. TypeOK'
  BY <1>1 DEF TypeOK, Contents
<1>5. StreamsOK'
  BY <1>1 DEF StreamsOK, Textual
<1>6. Outputs' = Outputs /\ Distinct' = Distinct
  BY DEF PathsOf, Outputs, Distinct
<1>7. FilesOK'
  <2>1. OutPath \in Outputs
    BY <1>2 DEF Outputs, PathsOf
  <2>2. \A p \in Paths \ Outputs : files'[p] = files[p]
    BY <2>1 DEF TypeOK
  <2>3. \A p \in Paths \ Outputs : Initial(p) => Initial(p)'
    BY <2>2 DEF Initial
  <2> QED BY <1>1, <1>6, <2>2, <2>3, PathsAssumption DEF FilesOK
<1>8. DeliveryOK'
  <2>1. ASSUME Distinct', faults' = 0
        PROVE  /\ \A k \in DOMAIN emits \ {"exe"} : OnItsWay(k)'
               /\ files'[OutPath] = IF stage = "exe" THEN "empty" ELSE "exe"
    <3>1. Distinct /\ faults = 0 /\ files'[OutPath] = IF stage = "exe" THEN "empty" ELSE "exe"
      BY <1>2, <1>6, <2>1 DEF TypeOK
    <3>2. ASSUME NEW k \in DOMAIN emits \ {"exe"}
          PROVE  OnItsWay(k)'
      <4>1. OnItsWay(k)
        BY <1>1, <3>1 DEF DeliveryOK
      <4>2. ~emits[k].to_stdout => emits[k].path # OutPath /\ emits[k].path \in Paths
        BY <1>2, <3>1 DEF Distinct, EmitsOK
      <4>3. ~emits[k].to_stdout => files'[emits[k].path] = files[emits[k].path]
        BY <4>2 DEF TypeOK
      <4>4. Over' = Over /\ Over = {"ast", "ir"}
        BY DEF Over
      <4> QED BY <4>1, <4>3, <4>4 DEF OnItsWay
    <3> QED BY <3>1, <3>2
  <2> QED BY <1>1, <2>1 DEF DeliveryOK
<1>9. DeliveredAtOut'
  BY <1>1 DEF DeliveredAtOut, Succeeds
<1> QED BY <1>3, <1>4, <1>5, <1>7, <1>8, <1>9

LEMMA ExecutableKeeps ==
  ASSUME DriverInv, OpenExe \/ WriteExe
  PROVE  DriverInv'
<1> USE DEF DriverInv
<1>1. /\ Compiling /\ ~Succeeds /\ "exe" \in DOMAIN emits
      /\ stage = "write exe" => ~emits["exe"].to_stdout
      /\ ~emits["exe"].to_stdout => emits["exe"].path = OutPath
  <2>1. Compiling /\ ~Succeeds /\ stage \in {"exe", "write exe"}
    BY DEF OpenExe, WriteExe, Compiling, Succeeds, TypeOK, None
  <2> QED BY <2>1 DEF DeliveryOK, EmitsOK
<1>2. CASE OpenExe
  <2>1. stage = "exe" /\ UNCHANGED <<parsed, emits, values, program, openable, stdout, faults>>
    BY <1>2 DEF OpenExe, envVars
  <2>2. CASE Throw("FileIoError")
    <3>1. stage' = "exited" /\ ~Succeeds' /\ ~Compiling'
      BY <2>2 DEF Throw, Succeeds, Compiling
    <3>2. EmitsOK'
      BY <2>1, <3>1, EmitsKept
    <3> QED BY <2>1, <2>2, <3>2, FailureKeeps DEF None, TypeOK
  <2>3. CASE /\ ~emits["exe"].to_stdout
             /\ files' = [files EXCEPT ![emits["exe"].path] = "empty"]
             /\ GoOn("write exe") /\ UNCHANGED <<streams, buffered>>
    <3>1. "empty" \in Contents /\ faults' \in 0 .. MaxFaults
      BY <2>1 DEF Contents, TypeOK
    <3> QED BY <1>1, <2>1, <2>3, <3>1, ExecutableStepKeeps DEF GoOn
  <2> QED BY <1>2, <2>2, <2>3 DEF OpenExe
<1>3. CASE WriteExe
  <2>1. /\ stage = "write exe" /\ stage' = "return"
        /\ UNCHANGED <<parsed, emits, streams, buffered, values, program, openable, stdout, exit_code>>
    BY <1>3 DEF WriteExe, envVars, GoOn
  <2>2. /\ Written(files[OutPath], "exe") \in Contents /\ files[OutPath] \in Contents
        /\ files = [files EXCEPT ![OutPath] = files[OutPath]]
        /\ faults \in 0 .. MaxFaults
    BY PathsAssumption, FourKinds DEF Written, Contents, TypeOK
  <2>3. Distinct /\ faults = 0 => files[OutPath] = "empty"
    BY <2>1 DEF DeliveryOK
  <2>4. CASE files' = [files EXCEPT ![emits["exe"].path] = Written(@, "exe")] /\ UNCHANGED faults
    <3>1. files' = [files EXCEPT ![OutPath] = Written(files[OutPath], "exe")]
      BY <1>1, <2>1, <2>4
    <3>2. Distinct /\ faults' = 0 => Written(files[OutPath], "exe") = "exe"
      BY <2>3, <2>4 DEF Written
    <3> QED BY <1>1, <2>1, <2>2, <2>4, <3>1, <3>2, ExecutableStepKeeps
  <2>5. CASE faults < MaxFaults /\ faults' = faults + 1 /\ UNCHANGED files
    <3>1. faults' \in 0 .. MaxFaults /\ faults' # 0
      BY <2>2, <2>5, BoundsAssumption
    <3> QED BY <1>1, <2>1, <2>2, <2>5, <3>1, ExecutableStepKeeps
  <2> QED BY <1>3, <2>4, <2>5 DEF WriteExe
<1> QED BY <1>2, <1>3

(* At the end the streams are closed, and what was on its way arrives.     *)
LEMMA ReturnKeeps ==
  ASSUME DriverInv, Return
  PROVE  DriverInv'
<1> USE DEF DriverInv
<1>1. /\ stage = "return" /\ stage' = "exited" /\ exit_code' = "Success"
      /\ DOMAIN streams' = {} /\ buffered' = {} /\ files' = Closed
      /\ UNCHANGED <<parsed, emits, values, program, openable, stdout, faults>>
  BY DEF Return, Throw, envVars
<1>2. Compiling /\ ~Succeeds /\ ~Compiling' /\ Succeeds'
  BY <1>1 DEF Compiling, Succeeds, TypeOK, None
<1>3. EmitsOK'
  BY <1>1, <1>2, EmitsKept
<1>4. TypeOK'
  BY <1>1, ClosedFacts DEF TypeOK, Contents, None
<1>5. StreamsOK'
  BY <1>1, <1>2 DEF StreamsOK
<1>6. Outputs' = Outputs /\ Distinct' = Distinct
  BY <1>1 DEF PathsOf, Outputs, Distinct
<1>7. \A k \in buffered : emits[k].path \in Outputs
  BY DEF StreamsOK, Textual, PathsOf, Outputs
<1>8. \A p \in Paths \ Outputs : files'[p] = files[p]
  BY <1>1, <1>7, ClosedFacts
<1>9. FilesOK'
  <2>1. \A p \in Paths \ Outputs : Initial(p) => Initial(p)'
    BY <1>8 DEF Initial
  <2> QED BY <1>1, <1>2, <1>6, <1>8, <2>1, PathsAssumption DEF FilesOK
<1>10. DeliveryOK'
  BY <1>1, <1>2 DEF DeliveryOK
<1>11. DeliveredAtOut'
  <2>1. SUFFICES ASSUME Distinct, faults = 0
                 PROVE  /\ \A k \in Requested \ {"exe"} : Delivered(k, EmitTarget(FirstOf(k)))'
                        /\ "exe" \in Requested => files'[OutPath] = "exe"
                        /\ \A p \in Paths \ Outputs :
                             files'[p] = IF p = Input THEN "source" ELSE "old"
    BY <1>1, <1>6 DEF DeliveredAtOut, Requested
  <2>2. Requested = DOMAIN emits
    <3>1. values \in Seq(Requests)
      BY DEF TypeOK
    <3>2. parsed = Len(values)
      BY <1>2 DEF EmitsOK
    <3>3. DOMAIN values = 1 .. parsed
      BY <3>1, <3>2
    <3> QED BY <3>3 DEF Requested, EmitsOK
  <2>3. \A k, l \in DOMAIN emits : emits[k].path = emits[l].path /\ ~emits[k].to_stdout => k = l
    BY <2>1 DEF Distinct
  <2>4. ASSUME NEW k \in Requested \ {"exe"}
        PROVE  Delivered(k, EmitTarget(FirstOf(k)))'
    <3>1. k \in {"ast", "ir"} /\ k \in DOMAIN emits
      BY <1>2, <2>2, <2>4, FourKinds DEF EmitsOK, TypeOK
    <3>2. OnItsWay(k) /\ k \in Over
      BY <1>1, <2>1, <3>1 DEF DeliveryOK, Compiling, Over
    <3>3. emits[k] = EmitTarget(FirstOf(k)') /\ EmitTarget(FirstOf(k)') = EmitTarget(FirstOf(k))'
      <4>1. FirstOf(k)' = FirstOf(k)
        BY <1>1 DEF FirstOf
      <4>2. emits[k] = EmitTarget(FirstOf(k))
        BY <3>1 DEF EmitsOK
      <4>3. EmitTarget(FirstOf(k)') = EmitTarget(FirstOf(k))'
        BY DEF EmitTarget
      <4> QED BY <4>1, <4>2, <4>3
    <3>4. CASE emits[k].to_stdout
      <4>1. k \in ToSet(stdout')
        BY <1>1, <3>2, <3>4 DEF OnItsWay
      <4> QED BY <3>3, <3>4, <4>1 DEF Delivered
    <3>5. CASE ~emits[k].to_stdout
      <4>1. \A l \in buffered : emits[l].path = emits[k].path => l = k
        BY <2>3, <3>1, <3>5 DEF TypeOK
      <4>2. files'[emits[k].path] = k
        <5>1. CASE k \in buffered
          BY <1>1, <3>2, <3>5, <4>1, <5>1, ClosedFacts DEF OnItsWay
        <5>2. CASE k \notin buffered
          <6>1. \A l \in buffered : emits[l].path # emits[k].path
            BY <4>1, <5>2
          <6>2. emits[k].path \in Paths /\ files[emits[k].path] = k
            BY <3>1, <3>2, <3>5, <5>2 DEF OnItsWay, EmitsOK
          <6> QED BY <1>1, <6>1, <6>2, ClosedFacts
        <5> QED BY <5>1, <5>2
      <4> QED BY <3>3, <3>5, <4>2 DEF Delivered
    <3> QED BY <3>4, <3>5
  <2>5. ASSUME "exe" \in Requested
        PROVE  files'[OutPath] = "exe"
    <3>1. "exe" \in DOMAIN emits /\ ~emits["exe"].to_stdout /\ files[OutPath] = "exe"
      BY <1>1, <2>1, <2>2, <2>5 DEF DeliveryOK
    <3>2. emits["exe"].path = OutPath
      BY <1>2, <3>1 DEF EmitsOK
    <3>3. \A l \in buffered : l # "exe" /\ l \in DOMAIN emits
      BY DEF StreamsOK, Textual, TypeOK
    <3>4. \A l \in buffered : emits[l].path # OutPath
      BY <2>3, <3>1, <3>2, <3>3
    <3> QED BY <1>1, <3>1, <3>4, ClosedFacts, PathsAssumption
  <2>6. \A p \in Paths \ Outputs : files'[p] = IF p = Input THEN "source" ELSE "old"
    <3>1. Input \notin Outputs
      BY <2>1 DEF Distinct
    <3>2. files[Input] = "source"
      BY <1>2, <3>1 DEF FilesOK
    <3>3. \A p \in Paths \ Outputs : Initial(p)
      BY DEF FilesOK
    <3> QED BY <1>8, <3>2, <3>3 DEF Initial
  <2> QED BY <2>4, <2>5, <2>6
<1> QED BY <1>3, <1>4, <1>5, <1>9, <1>10, <1>11

LEMMA DriverInit ==
  ASSUME Init
  PROVE  DriverInv
<1> USE DEF Init
<1>1. /\ stage = "target" /\ parsed = 0 /\ DOMAIN emits = {} /\ DOMAIN streams = {}
      /\ emits = [k \in {} |-> [to_stdout |-> FALSE, path |-> None]]
      /\ buffered = {} /\ stdout = <<>> /\ exit_code = None /\ faults = 0
      /\ ~Compiling /\ ~Succeeds
  BY DEF Compiling, Succeeds, None
<1>2. values \in Seq(Requests) /\ Len(values) \in Nat /\ Len(values) > 0
  <2>1. PICK n \in 1 .. MaxRequests : values \in [1 .. n -> Requests]
    OBVIOUS
  <2>2. n \in Nat /\ n > 0
    BY BoundsAssumption
  <2> QED BY <2>1, <2>2
<1>3. files \in [Paths -> Contents] /\ \A p \in Paths : Initial(p)
  <2>1. PICK c \in {"source", "absent"} : files = [p \in Paths |-> IF p = Input THEN c ELSE "old"]
    OBVIOUS
  <2> QED BY <2>1 DEF Contents, Initial
<1>4. TypeOK
  <2>1. parsed \in 0 .. Len(values) /\ faults \in 0 .. MaxFaults /\ stdout \in Seq(ToSet(Kinds))
    BY <1>1, <1>2, BoundsAssumption
  <2> QED BY <1>1, <1>2, <1>3, <2>1 DEF TypeOK, Contents
<1>5. EmitsOK
  <2>1. {values[i].kind : i \in 1 .. parsed} = {}
    BY <1>1
  <2>2. emits \in [DOMAIN emits -> [to_stdout : BOOLEAN, path : Paths \cup {None}]]
    BY <1>1
  <2> QED BY <1>1, <1>2, <2>1, <2>2 DEF EmitsOK
<1>6. StreamsOK /\ FilesOK /\ DeliveryOK /\ DeliveredAtOut
  BY <1>1, <1>3 DEF StreamsOK, FilesOK, DeliveryOK, DeliveredAtOut, Succeeds
<1> QED BY <1>4, <1>5, <1>6 DEF DriverInv

LEMMA DriverStutters ==
  ASSUME DriverInv, UNCHANGED vars
  PROVE  DriverInv'
<1> USE DEF DriverInv, vars
<1>1. Compiling' = Compiling /\ Succeeds' = Succeeds /\ Textual' = Textual
  BY DEF Compiling, Succeeds, Textual
<1>2. EmitsOK'
  <2>1. CASE stage # "target"
    BY <1>1, <2>1, EmitsKept
  <2>2. CASE stage = "target"
    BY <1>1, <2>2 DEF EmitsOK, FirstOf
  <2> QED BY <2>1, <2>2
<1>3. TypeOK' /\ StreamsOK'
  BY <1>1 DEF TypeOK, StreamsOK
<1>4. Outputs' = Outputs /\ Distinct' = Distinct
      /\ PathsOf(DOMAIN emits \ {"exe"})' = PathsOf(DOMAIN emits \ {"exe"})
  BY DEF PathsOf, Outputs, Distinct
<1>5. FilesOK'
  <2>1. \A p : Initial(p)' = Initial(p)
    BY DEF Initial
  <2> QED BY <1>1, <1>4, <2>1 DEF FilesOK
<1>6. DeliveryOK'
  <2>1. \A k : OnItsWay(k)' = OnItsWay(k)
    BY DEF OnItsWay, Over
  <2> QED BY <1>1, <1>4, <2>1 DEF DeliveryOK
<1>7. DeliveredAtOut'
  BY <1>4 DEF DeliveredAtOut, Requested, Delivered, FirstOf
<1> QED BY <1>2, <1>3, <1>5, <1>6, <1>7

-----------------------------------------------------------------------------
(* Whatever main and compile do keeps the invariant.                       *)
THEOREM DriverInvariance == Spec => []DriverInv
<1>1. Init => DriverInv
  BY DriverInit
<1>2. DriverInv /\ [Next]_vars => DriverInv'
  <2>1. SUFFICES ASSUME DriverInv, [Next]_vars
                 PROVE  DriverInv'
    OBVIOUS
  <2>2. CASE UnknownTarget \/ KnownTarget
    BY <2>1, <2>2, TargetKeeps
  <2>3. CASE ParseEmit
    BY <2>1, <2>3, ParseEmitKeeps
  <2>4. CASE FinishSettings
    BY <2>1, <2>4, FinishSettingsKeeps
  <2>5. CASE OpenOutput
    BY <2>1, <2>5, OpenOutputKeeps
  <2>6. CASE OpenInput
    BY <2>1, <2>6, OpenInputKeeps
  <2>7. CASE BuildAst
    BY <2>1, <2>7, TextuallyKeeps DEF BuildAst
  <2>8. CASE EmitIr
    BY <2>1, <2>8, TextuallyKeeps DEF EmitIr
  <2>9. CASE Lower \/ StageThrows
    BY <2>1, <2>9, LowerKeeps
  <2>10. CASE OpenExe \/ WriteExe
    BY <2>1, <2>10, ExecutableKeeps
  <2>11. CASE Return
    BY <2>1, <2>11, ReturnKeeps
  <2>12. CASE Exited \/ UNCHANGED vars
    BY <2>1, <2>12, DriverStutters DEF Exited
  <2> QED BY <2>1, <2>2, <2>3, <2>4, <2>5, <2>6, <2>7, <2>8, <2>9, <2>10, <2>11, <2>12 DEF Next
<1> QED BY <1>1, <1>2, PTL DEF Spec

(* The settings, the streams and the files have their types.               *)
THEOREM DriverTypeCorrect == Spec => []TypeOK
<1>1. DriverInv => TypeOK
  BY DEF DriverInv
<1> QED BY <1>1, DriverInvariance, PTL

(* Exit code 0 means that every requested artifact is where it was         *)
(* requested, whole, and that no other file was touched; of an executable  *)
(* requested with a path of its own it says nothing.                       *)
THEOREM SuccessAlwaysDelivers == Spec => []SuccessDelivers
<1>1. DriverInv => SuccessDelivers
  BY DEF DriverInv, DeliveredAtOut, SuccessDelivers
<1> QED BY <1>1, DriverInvariance, PTL

(* Until the program is compiled, the file of -o keeps what it had.        *)
THEOREM ExecutableIsKept == Spec => []FailureKeepsExecutable
<1>1. DriverInv => FailureKeepsExecutable
  <2>1. SUFFICES ASSUME DriverInv, stage \notin {"write exe", "return"}, ~Succeeds,
                        OutPath \notin PathsOf(DOMAIN emits \ {"exe"}) \cup {Input}
                 PROVE  files[OutPath] = "old"
    BY DEF FailureKeepsExecutable, Succeeds
  <2>2. Initial(OutPath)
    BY <2>1, PathsAssumption DEF DriverInv, FilesOK
  <2> QED BY <2>1, <2>2 DEF Initial
<1> QED BY <1>1, DriverInvariance, PTL
=============================================================================
