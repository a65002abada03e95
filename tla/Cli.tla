-------------------------------- MODULE Cli --------------------------------
(***************************************************************************)
(* CliParser::parse: the tokens of a command line are given to the         *)
(* arguments that were registered.                                         *)
(*                                                                         *)
(* A token is a sequence of pieces, the characters that the parser looks   *)
(* at and words that it does not look into.                                *)
(***************************************************************************)
EXTENDS Naturals, FiniteSets, FiniteSetsExt, SequencesExt

CONSTANTS
  Args,           \* the registered arguments, in order
  CommandLines,   \* the command lines that may be passed
  Old             \* a value that an earlier command line had

Text == Seq(STRING)
Digits == {"1", "5"}

(* CliParser::Arg, as the configuration methods leave it: an argument      *)
(* without a default has <<>> for one, and <<val>> stands for val.         *)
Registered ==
  [kind : {"Flag", "Option", "Positional"}, name : Text, short : STRING, required : BOOLEAN,
   default : Seq(Text), multi : BOOLEAN, split : STRING, help : BOOLEAN]

(* CliParser::add throws for an argument of a kind and a name there is     *)
(* already; short names are not looked at.                                 *)
Collides(a, b) == a.kind = b.kind /\ a.name = b.name

(* The help argument is the flag that add_help_flag adds.                  *)
ASSUME ArgsAssumption ==
  /\ Args \in Seq(Registered)
  /\ \A a \in DOMAIN Args : Args[a].help => Args[a].kind = "Flag"
  /\ \A a, b \in DOMAIN Args : a # b => ~Collides(Args[a], Args[b])
ASSUME CommandLinesAssumption == Old \in Text /\ \A l \in CommandLines : l \in Seq(Text)

VARIABLES
  tokens,
  i,              \* the token the parser is at
  ci,             \* where in a cluster of short names it is, or 0
  end_of_flags, pos_index,
  seen,           \* the arguments that were passed
  parsed_values,
  stage           \* "reset", "tokens", "defaults", "parsed", or how it ended

vars == <<tokens, i, ci, end_of_flags, pos_index, seen, parsed_values, stage>>

-----------------------------------------------------------------------------
Arg == DOMAIN Args

(* The first registered argument of a kind with a long or a short name, or *)
(* 0.                                                                      *)
find_long(name, kind) ==
  SelectInSeq(Args, LAMBDA a : a.kind = kind /\ a.name = name)

find_short(c, kind) ==
  SelectInSeq(Args, LAMBDA a : a.kind = kind /\ a.short = c)

Positionals ==
  LET among[a \in 0 .. Len(Args)] ==
        CASE a = 0 -> <<>>
          [] a # 0 /\ Args[a].kind = "Positional" -> Append(among[a - 1], a)
          [] OTHER -> among[a - 1]
  IN among[Len(Args)]

(* Arg::add_value, keeping empty pieces.                                   *)
Extend(parts, p, sep) ==
  IF p = sep THEN Append(parts, <<>>) ELSE Append(Front(parts), Append(Last(parts), p))

Split(val, sep) ==
  LET parts[n \in 0 .. Len(val)] ==
        IF n = 0 THEN << <<>> >> ELSE Extend(parts[n - 1], val[n], sep)
  IN parts[Len(val)]

Added(a, val) == IF Args[a].split = "" THEN <<val>> ELSE Split(val, Args[a].split)

End(how) ==
  /\ stage' = how
  /\ UNCHANGED <<tokens, i, ci, end_of_flags, pos_index, seen, parsed_values>>

(* Mutant: a repeat of an argument replaces its value.                     *)
HitReplacing(a, val) ==
  /\ seen' = [seen EXCEPT ![a] = TRUE]
  /\ parsed_values' = [parsed_values EXCEPT ![a] = Added(a, val)]

Hit(a, val) ==
  /\ seen' = [seen EXCEPT ![a] = TRUE]
  /\ parsed_values' = [parsed_values EXCEPT ![a] = @ \o Added(a, val)]

Repeated(a) == seen[a] /\ ~Args[a].multi

(* Mutant: the place in the cluster is kept.                               *)
AdvanceInCluster(n) == i' = i + n /\ UNCHANGED <<tokens, ci, end_of_flags, stage>>

(* Goes on with the token n places on.                                     *)
Advance(n) ==
  /\ i' = i + n
  /\ ci' = 0
  /\ UNCHANGED <<tokens, end_of_flags, stage>>

-----------------------------------------------------------------------------
(* What a call before this one has left behind is cleared.                 *)
Reset ==
  /\ stage = "reset"
  /\ stage' = "tokens"
  /\ seen' = [a \in Arg |-> FALSE]
  /\ parsed_values' = [a \in Arg |-> <<>>]
  /\ UNCHANGED <<tokens, i, ci, end_of_flags, pos_index>>

AtToken == stage = "tokens" /\ i <= Len(tokens) /\ ci = 0
Tok == tokens[i]

Sentinel ==
  /\ AtToken
  /\ Tok = <<"-", "-">> /\ ~end_of_flags
  /\ i' = i + 1
  /\ end_of_flags' = TRUE
  /\ UNCHANGED <<tokens, ci, pos_index, seen, parsed_values, stage>>

(* What is never an option: no dash, only a dash, or a negative number.    *)
LooksPlain(tok) == ~(Len(tok) >= 2 /\ tok[1] = "-" /\ tok[2] \notin Digits)

(* Mutant: a negative number is a cluster of short names.                  *)
IsPlainUnsigned == end_of_flags \/ ~(Len(Tok) >= 2 /\ Tok[1] = "-")

IsPlain == end_of_flags \/ LooksPlain(Tok)

TakePositional ==
  /\ AtToken
  /\ IsPlain
  /\ IF pos_index > Len(Positionals)
     THEN End("CliError")
     ELSE /\ Hit(Positionals[pos_index], Tok)
          /\ pos_index' = pos_index + 1
          /\ Advance(1)

IsOption == AtToken /\ ~IsPlain /\ Tok # <<"-", "-">>

(* The name and, after an equals sign, the value of a long option.         *)
Body == SubSeq(Tok, 3, Len(Tok))
Equals == SelectInSeq(Body, LAMBDA p : p = "=")
LongName == IF Equals = 0 THEN Body ELSE SubSeq(Body, 1, Equals - 1)
Inline == SubSeq(Body, Equals + 1, Len(Body))

IsLong == IsOption /\ Tok[2] = "-"

LongFlag ==
  /\ IsLong /\ LongName # <<>>
  /\ find_long(LongName, "Flag") # 0
  /\ LET flag == find_long(LongName, "Flag") IN
     IF Equals # 0 \/ Repeated(flag)
     THEN End("CliError")
     ELSE /\ Hit(flag, <<>>)
          /\ i' = i + 1
          /\ stage' = IF Args[flag].help THEN "CliHelpRequested" ELSE stage
          /\ UNCHANGED <<tokens, ci, end_of_flags, pos_index>>

(* The value is what follows the equals sign, or the next token, whatever  *)
(* it looks like.                                                          *)
LongOption ==
  /\ IsLong /\ LongName # <<>>
  /\ find_long(LongName, "Flag") = 0
  /\ find_long(LongName, "Option") # 0
  /\ LET opt == find_long(LongName, "Option") IN
     IF (Equals = 0 /\ i = Len(tokens)) \/ Repeated(opt)
     THEN End("CliError")
     ELSE /\ Hit(opt, IF Equals = 0 THEN tokens[i + 1] ELSE Inline)
          /\ Advance(IF Equals = 0 THEN 2 ELSE 1)
          /\ UNCHANGED pos_index

LongUnknown ==
  /\ IsLong
  /\ \/ LongName = <<>>
     \/ find_long(LongName, "Flag") = 0 /\ find_long(LongName, "Option") = 0
  /\ End("CliError")

BeginCluster ==
  /\ IsOption /\ ~IsLong
  /\ ci' = 2
  /\ UNCHANGED <<tokens, i, end_of_flags, pos_index, seen, parsed_values, stage>>

InCluster == stage = "tokens" /\ ci # 0

ShortFlag ==
  /\ InCluster /\ ci <= Len(Tok)
  /\ find_short(Tok[ci], "Flag") # 0
  /\ LET flag == find_short(Tok[ci], "Flag") IN
     IF Repeated(flag) THEN End("CliError")
     ELSE /\ Hit(flag, <<>>)
          /\ ci' = ci + 1
          /\ stage' = IF Args[flag].help THEN "CliHelpRequested" ELSE stage
          /\ UNCHANGED <<tokens, i, end_of_flags, pos_index>>

(* The value is the rest of the cluster, or the next token.                *)
ShortOption ==
  /\ InCluster /\ ci <= Len(Tok)
  /\ find_short(Tok[ci], "Flag") = 0
  /\ find_short(Tok[ci], "Option") # 0
  /\ LET opt == find_short(Tok[ci], "Option")
         remainder == SubSeq(Tok, ci + 1, Len(Tok))
     IN IF (remainder = <<>> /\ i = Len(tokens)) \/ Repeated(opt)
        THEN End("CliError")
        ELSE /\ Hit(opt, IF remainder = <<>> THEN tokens[i + 1] ELSE remainder)
             /\ Advance(IF remainder = <<>> THEN 2 ELSE 1)
             /\ UNCHANGED pos_index

ShortUnknown ==
  /\ InCluster /\ ci <= Len(Tok)
  /\ find_short(Tok[ci], "Flag") = 0 /\ find_short(Tok[ci], "Option") = 0
  /\ End("CliError")

EndCluster ==
  /\ InCluster /\ ci > Len(Tok)
  /\ Advance(1)
  /\ UNCHANGED <<pos_index, seen, parsed_values>>

(* Defaults, then required arguments.                                      *)
Finish ==
  /\ stage = "tokens" /\ i > Len(tokens)
  /\ parsed_values' = [a \in Arg |-> IF ~seen[a] /\ Args[a].default # <<>>
                                     THEN Added(a, Args[a].default[1]) ELSE parsed_values[a]]
  /\ stage' = IF \E a \in Arg : Args[a].required /\ ~seen[a] THEN "CliError" ELSE "parsed"
  /\ UNCHANGED <<tokens, i, ci, end_of_flags, pos_index, seen>>

Ended == stage \in {"parsed", "CliError", "CliHelpRequested"} /\ UNCHANGED vars

(* A parser is fresh, or has parsed a command line with everything on it.  *)
Init ==
  /\ tokens \in CommandLines
  /\ i = 1 /\ ci = 0 /\ end_of_flags = FALSE /\ pos_index = 1
  /\ \E used \in BOOLEAN :
       /\ seen = [a \in Arg |-> used]
       /\ parsed_values = [a \in Arg |->
            IF ~used THEN <<>> ELSE IF Args[a].kind = "Flag" THEN << <<>> >> ELSE <<Old>>]
  /\ stage = "reset"

Next ==
  \/ Reset \/ Sentinel \/ TakePositional
  \/ LongFlag \/ LongOption \/ LongUnknown
  \/ BeginCluster \/ ShortFlag \/ ShortOption \/ ShortUnknown \/ EndCluster
  \/ Finish \/ Ended

Spec == Init /\ [][Next]_vars

-----------------------------------------------------------------------------
(* Types. A place in a cluster belongs to the token that the parser is at, *)
(* and as many slots are filled as positional arguments were seen.         *)
TypeOK ==
  /\ tokens \in Seq(Text)
  /\ i \in 1 .. Len(tokens) + 1
  /\ ci # 0 => i <= Len(tokens) /\ ci \in 2 .. Len(tokens[i]) + 1
  /\ end_of_flags \in BOOLEAN
  /\ stage \in {"reset", "tokens", "parsed", "CliError", "CliHelpRequested"}
  /\ seen \in [Arg -> BOOLEAN] /\ parsed_values \in [Arg -> Seq(Text)]
  /\ stage # "reset" =>
       \A p \in DOMAIN Positionals : seen[Positionals[p]] <=> p < pos_index

-----------------------------------------------------------------------------
(* What the tokens of a command line are, each by those before it.         *)
FlagOf(c) == find_short(c, "Flag")
Stop(cluster) == SelectInSeq(cluster, LAMBDA c : FlagOf(c) = 0)

Takes(tok) ==
  IF tok[2] = "-"
  THEN LET name == SubSeq(tok, 3, Len(tok)) IN
       /\ \A n \in DOMAIN name : name[n] # "="
       /\ find_long(name, "Flag") = 0 /\ find_long(name, "Option") # 0
  ELSE LET c == Tail(tok) IN
       Stop(c) # 0 /\ Stop(c) = Len(c) /\ find_short(Last(c), "Option") # 0

Roles ==
  LET role[k \in 1 .. Len(tokens)] ==
        IF k > 1 /\ role[k - 1] \in {"long", "short"} /\ Takes(tokens[k - 1]) THEN "value"
        ELSE IF \E j \in 1 .. k - 1 : role[j] = "sentinel" THEN "positional"
        ELSE IF tokens[k] = <<"-", "-">> THEN "sentinel"
        ELSE IF LooksPlain(tokens[k]) THEN "positional"
        ELSE IF tokens[k][2] = "-" THEN "long" ELSE "short"
  IN role

(* What a token asks for: arguments with values, and 0 for what is wrong.  *)
Wrong == << <<0, <<>> >> >>
Valued(opt, k, rest) ==
  IF rest # <<>> THEN << <<opt, rest>> >>
  ELSE IF k = Len(tokens) THEN Wrong ELSE << <<opt, tokens[k + 1]>> >>

LongUse(k) ==
  LET body == SubSeq(tokens[k], 3, Len(tokens[k]))
      parts == Split(body, "=")
      flag == find_long(parts[1], "Flag")
      opt == find_long(parts[1], "Option")
  IN IF parts[1] = <<>> THEN Wrong
     ELSE IF flag # 0 THEN IF Len(parts) = 1 THEN << <<flag, <<>> >> >> ELSE Wrong
     ELSE IF opt = 0 THEN Wrong
     ELSE IF Len(parts) = 1 THEN Valued(opt, k, <<>>)
     ELSE << <<opt, SubSeq(body, Len(parts[1]) + 2, Len(body))>> >>

ShortUse(k) ==
  LET c == Tail(tokens[k])
      stop == Stop(c)
      flags == [j \in 1 .. (IF stop = 0 THEN Len(c) ELSE stop - 1) |-> <<FlagOf(c[j]), <<>> >>]
  IN IF stop = 0 THEN flags
     ELSE IF find_short(c[stop], "Option") = 0 THEN flags \o Wrong
     ELSE flags \o Valued(find_short(c[stop], "Option"), k, SubSeq(c, stop + 1, Len(c)))

PositionalUse(k, role) ==
  LET nth == Cardinality({j \in 1 .. k : role[j] = "positional"}) IN
  IF nth > Len(Positionals) THEN Wrong ELSE << <<Positionals[nth], tokens[k]>> >>

UseOf(k, role) ==
  CASE role[k] = "long" -> LongUse(k)
    [] role[k] = "short" -> ShortUse(k)
    [] role[k] = "positional" -> PositionalUse(k, role)
    [] OTHER -> <<>>

Uses == LET role == Roles IN FlattenSeq([k \in 1 .. Len(tokens) |-> UseOf(k, role)])

(* The first thing that ends the parsing, if any does.                     *)
Outcome(uses) ==
  LET Bad(u) == \/ uses[u][1] = 0
                \/ ~Args[uses[u][1]].multi /\ \E v \in 1 .. u - 1 : uses[v][1] = uses[u][1]
      Ends == {u \in DOMAIN uses : Bad(u) \/ Args[uses[u][1]].help}
  IN IF Ends # {}
     THEN IF Bad(Min(Ends)) THEN "CliError" ELSE "CliHelpRequested"
     ELSE IF \E a \in Arg : Args[a].required /\ \A u \in DOMAIN uses : uses[u][1] # a
          THEN "CliError" ELSE "parsed"

(* How parse returns or throws is decided by the first token that is wrong *)
(* or asks for help, and only without one by what is missing: help is not  *)
(* hidden by a later error, an error before it is not hidden by help, and  *)
(* the value of an option is never taken for an option itself.             *)
OutcomeIsRight == stage \notin {"reset", "tokens"} => stage = Outcome(Uses)

(* After a successful parse an argument has the values it was passed, each *)
(* split on its separator and all in order, or its default; and it is      *)
(* present exactly when it was passed, whatever an earlier parse left.     *)
ResultsAreRight ==
  stage = "parsed" =>
    LET uses == Uses IN
    \A a \in Arg :
      LET mine == {u \in DOMAIN uses : uses[u][1] = a} IN
      /\ seen[a] <=> mine # {}
      /\ parsed_values[a] =
           IF mine # {}
           THEN FlattenSeq([u \in DOMAIN uses |-> IF u \in mine THEN Added(a, uses[u][2]) ELSE <<>>])
           ELSE IF Args[a].default # <<>> THEN Added(a, Args[a].default[1]) ELSE <<>>
=============================================================================
