------------------------------- MODULE Parser -------------------------------
(***************************************************************************)
(* The recursive descent parser, as a machine with a stack of the calls    *)
(* that are under way.  The next token is whatever the lexer can return;   *)
(* it is drawn when the one before it is taken, so that a peek and the     *)
(* take after it see the same one.                                         *)
(*                                                                         *)
(* Of the tree the model keeps, for every operator, the place of the       *)
(* operator and of its operands in the text, parentheses included.  A node *)
(* that has been returned is the stretch of tokens it was read from.       *)
(***************************************************************************)
EXTENDS Integers, SequencesExt, Tokens

CONSTANTS
  Literals,    \* integer literals: prefix, digits, and what follows them
  LongMax,     \* the greatest long long (scaled)
  Word,        \* the numbers a uint32_t holds (scaled)
  Other,       \* the types of the other tokens offered
  MaxTokens    \* bound: tokens before the end of the file

IntegerType == {"u8", "u16", "u32", "i8", "i16", "i32"}

ASSUME LiteralsAssumption ==
  \A l \in Literals : /\ l.type = "INT_LITERAL"
                      /\ l.base \in {2, 8, 10, 16}
                      /\ l.digits \in Seq(0 .. 9)
ASSUME RangesAssumption == LongMax \in Nat /\ Word \in Nat /\ 0 < Word /\ Word <= LongMax
ASSUME OtherAssumption == Other \subseteq TokenType \ {"INT_LITERAL", "END_OF_FILE"}
ASSUME MaxTokensAssumption == MaxTokens \in Nat \ {0}

VARIABLES
  taken,      \* the tokens taken so far
  ahead,      \* the token that peek and take return next
  at,         \* where the parser is
  stack,      \* the calls that wait for an expression
  node,       \* the expression the last call returned, or Absent
  built,      \* the operator nodes built so far
  values,     \* the values of the literals parsed so far
  outcome     \* "parsing", "Success" or the error raised

vars == <<taken, ahead, at, stack, node, built, values, outcome>>

EndOfFile == [type |-> "END_OF_FILE"]
Token == {EndOfFile} \cup {[type |-> t] : t \in Other} \cup Literals

(* std::nullopt.                                                           *)
Absent == [from |-> 0, to |-> 0]

-----------------------------------------------------------------------------
(* The binary operators, from loosest to tightest: try_parse_logical_or to *)
(* try_parse_multiplicative.  Only the last two parse a chain of operators.*)
Operators ==
  << {"OR_OR"}, {"AND_AND"}, {"EQUAL_EQUAL", "EXCLAMATION_EQUAL"},
     {"LESS", "LESS_EQUAL", "GREATER", "GREATER_EQUAL"},
     {"OR"}, {"CARET"}, {"AND"}, {"LESS_LESS", "GREATER_GREATER"},
     {"PLUS", "MINUS"}, {"ASTERISK", "FORWARD_SLASH", "PERCENT"} >>

Chains(level) == level \in {9, 10}

UnaryOperator == {"EXCLAMATION", "TILDE", "MINUS"}

Here == Len(taken) + 1

Take ==
  /\ taken' = Append(taken, ahead)
  /\ ahead' \in IF ahead = EndOfFile \/ Here >= MaxTokens THEN {EndOfFile} ELSE Token

Stay == UNCHANGED <<taken, ahead>>

Fail(error) ==
  /\ outcome' = error
  /\ at' = "ended"
  /\ UNCHANGED <<taken, ahead, stack, node, built, values>>

GoTo(place) == at' = place /\ UNCHANGED outcome

(* Calls the function of a level of operators: those below it are called   *)
(* in turn for a first operand before any of them looks at a token.        *)
Waiting(level) == [rule |-> "level", level |-> level, from |-> 0, op |-> 0]

Call(calls, level) ==
  /\ stack' = calls \o [i \in 1 .. 11 - level |-> Waiting(level + i - 1)]
  /\ GoTo("operand")

Frame(rule) == [rule |-> rule, level |-> 0, from |-> Here, op |-> 0]

-----------------------------------------------------------------------------
(* try_parse_top_level_decl, and the end of AST::AST's loop.               *)
TopLevel ==
  /\ at = "top"
  /\ IF ahead.type = "KEYWORD_FN" THEN Take /\ GoTo("name") ELSE Stay /\ GoTo("end")
  /\ UNCHANGED <<stack, node, built, values>>

(* The argument list.  The lexer has no colon, so that an argument always  *)
(* fails at it, and what would follow it is out of reach.  Without an      *)
(* argument a `)' is taken if it is there.                                 *)
Arguments ==
  /\ at = "args"
  /\ \/ ahead.type = "IDENT" /\ Take /\ GoTo("colon")
     \/ ahead.type = "R_PAREN" /\ Take /\ GoTo("arrow")
     \/ ahead.type \notin {"IDENT", "R_PAREN"} /\ Stay /\ GoTo("arrow")
  /\ UNCHANGED <<stack, node, built, values>>

ReturnType ==
  /\ at = "arrow"
  /\ IF ahead.type = "THIN_ARROW" THEN Take /\ GoTo("type") ELSE Stay /\ GoTo("open")
  /\ UNCHANGED <<stack, node, built, values>>

(* What stands where only one type of token can, and what comes next.      *)
Expected ==
  [name |-> "IDENT", l_paren |-> "L_PAREN", colon |-> "COLON", type |-> "IDENT",
   open |-> "L_CURLY_BRACKET", close |-> "R_CURLY_BRACKET",
   return_end |-> "SEMICOLON", end |-> "END_OF_FILE"]

Follows ==
  [name |-> "l_paren", l_paren |-> "args", colon |-> "type", type |-> "open",
   open |-> "body", close |-> "top", return_end |-> "body", end |-> "ended"]

(* Lexer::expect.                                                          *)
Expect ==
  /\ at \in DOMAIN Expected
  /\ IF ahead.type = Expected[at]
     THEN /\ Take
          /\ at' = Follows[at]
          /\ outcome' = IF at = "end" THEN "Success" ELSE outcome
          /\ UNCHANGED <<stack, node, built, values>>
     ELSE Fail(UnexpectedToken(ahead.type))

(* A statement, or the expression that may end the body.                   *)
Statement ==
  /\ at = "body"
  /\ IF ahead.type = "KEYWORD_RETURN"
     THEN Take /\ GoTo("return_value") /\ UNCHANGED stack
     ELSE Stay /\ Call(<<Frame("body")>>, 1)
  /\ UNCHANGED <<node, built, values>>

ReturnValue ==
  /\ at = "return_value"
  /\ IF ahead.type = "SEMICOLON"
     THEN Take /\ GoTo("body") /\ UNCHANGED stack
     ELSE Stay /\ Call(<<Frame("return")>>, 1)
  /\ UNCHANGED <<node, built, values>>

-----------------------------------------------------------------------------
(* std::stoll: the digits up to the first one that the base does not have. *)
Usable(digits, base) ==
  LET beyond == {i \in DOMAIN digits : digits[i] >= base}
  IN IF beyond = {} THEN digits ELSE SubSeq(digits, 1, Min(beyond) - 1)

Number(digits, base) ==
  LET upTo[i \in 0 .. Len(digits)] == IF i = 0 THEN 0 ELSE upTo[i - 1] * base + digits[i]
  IN upTo[Len(digits)]

(* Mutant: the base is only used to find the digits.                       *)
LiteralValueDecimal(l) == Number(Usable(l.digits, l.base), 10) % Word

LiteralValue(l) == Number(Usable(l.digits, l.base), l.base) % Word

(* A literal without a type has the type "unresolved", which is no integer *)
(* type; stoll throws on no digits, and on too many.                       *)
LiteralError(l) ==
  CASE l.suffix \notin IntegerType -> "TypeError"
    [] l.suffix \in IntegerType
         /\ (Usable(l.digits, l.base) = <<>> \/ Number(Usable(l.digits, l.base), l.base) > LongMax)
         -> "UncaughtInternalError"
    [] OTHER -> "none"

Atom(value) ==
  /\ node' = [from |-> Here, to |-> Here]
  /\ values' = value
  /\ Take /\ GoTo("postfix")
  /\ UNCHANGED <<stack, built>>

(* try_parse_unary, and try_parse_primary below it.                        *)
Operand ==
  /\ at = "operand"
  /\ \/ /\ ahead.type \in UnaryOperator
        /\ stack' = Append(stack, [Frame("unary") EXCEPT !.op = Here])
        /\ Take /\ GoTo("operand")
        /\ UNCHANGED <<node, built, values>>
     \/ /\ ahead.type \in {"IDENT", "KEYWORD_TRUE", "KEYWORD_FALSE"}
        /\ Atom(values)
     \/ /\ ahead.type = "INT_LITERAL"
        /\ IF LiteralError(ahead) = "none"
           THEN Atom(values \cup {[at |-> Here, value |-> LiteralValue(ahead)]})
           ELSE Fail(LiteralError(ahead))
     \/ /\ ahead.type = "L_PAREN"
        /\ Call(Append(stack, Frame("group")), 1)
        /\ Take
        /\ UNCHANGED <<node, built, values>>
     \/ /\ ahead.type \notin UnaryOperator \cup {"IDENT", "KEYWORD_TRUE", "KEYWORD_FALSE",
                                                 "INT_LITERAL", "L_PAREN"}
        /\ node' = Absent
        /\ Stay /\ GoTo("returned")
        /\ UNCHANGED <<stack, built, values>>

Postfix ==
  /\ at = "postfix"
  /\ IF ahead.type = "L_PAREN" THEN Take /\ GoTo("call_end") ELSE Stay /\ GoTo("returned")
  /\ UNCHANGED <<stack, node, built, values>>

CallEnd ==
  /\ at = "call_end"
  /\ IF ahead.type = "R_PAREN"
     THEN /\ node' = [node EXCEPT !.to = Here]
          /\ Take /\ GoTo("returned")
          /\ UNCHANGED <<stack, built, values>>
     ELSE Fail(UnexpectedToken(ahead.type))

GroupEnd ==
  /\ at = "group_end"
  /\ IF ahead.type = "R_PAREN"
     THEN /\ node' = [from |-> Last(stack).from, to |-> Here]
          /\ stack' = Front(stack)
          /\ Take /\ GoTo("postfix")
          /\ UNCHANGED <<built, values>>
     ELSE Fail(UnexpectedToken(ahead.type))

-----------------------------------------------------------------------------
Returned(rule) == at = "returned" /\ Last(stack).rule = rule

Pop == stack' = Front(stack)

(* Mutant: a missing operand is not noticed.                               *)
ReturnedToUnaryUnchecked ==
  /\ Returned("unary")
  /\ built' = built \cup {[op |-> Last(stack).op, from |-> Last(stack).from, to |-> node.to]}
  /\ node' = [from |-> Last(stack).from, to |-> node.to]
  /\ Pop /\ Stay /\ GoTo("returned")
  /\ UNCHANGED values

ReturnedToUnary ==
  /\ Returned("unary")
  /\ IF node = Absent THEN Fail("SyntaxError")
     ELSE LET parent == [from |-> Last(stack).from, to |-> node.to] IN
          /\ built' = built \cup {[op |-> Last(stack).op, from |-> parent.from, to |-> parent.to]}
          /\ node' = parent
          /\ Pop /\ Stay /\ GoTo("returned")
          /\ UNCHANGED values

(* The node a level has after an operand came in: the operand itself, or   *)
(* the expression the operand completes.                                   *)
Combined(call) == IF call.op = 0 THEN node ELSE [from |-> call.from, to |-> node.to]

BuiltWith(call) ==
  IF call.op = 0 THEN built
  ELSE built \cup {[op |-> call.op, from |-> call.from, to |-> node.to]}

(* Mutant: every level parses a chain of its operators.                    *)
OperatorAheadChaining(call) == ahead.type \in Operators[call.level]

(* The next token is an operator that the level goes on with.              *)
OperatorAhead(call) ==
  ahead.type \in Operators[call.level] /\ (call.op = 0 \/ Chains(call.level))

(* Mutant: the right operand is parsed by the level itself.                *)
NextOperandSameLevel(call) ==
  /\ Call(Append(Front(stack), [call EXCEPT !.op = Here, !.from = Combined(call).from]),
          call.level)
  /\ Take

(* An operator of the level: its right operand is parsed by the next one.  *)
NextOperand(call) ==
  /\ Call(Append(Front(stack), [call EXCEPT !.op = Here, !.from = Combined(call).from]),
          call.level + 1)
  /\ Take

ReturnedToLevel ==
  /\ Returned("level")
  /\ LET call == Last(stack) IN
     \/ node = Absent /\ call.op # 0 /\ Fail("SyntaxError")
     \/ /\ node = Absent /\ call.op = 0
        /\ Pop /\ Stay /\ GoTo("returned")
        /\ UNCHANGED <<node, built, values>>
     \/ /\ node # Absent
        /\ node' = Combined(call)
        /\ built' = BuiltWith(call)
        /\ UNCHANGED values
        /\ \/ OperatorAhead(call) /\ NextOperand(call)
           \/ ~OperatorAhead(call) /\ Pop /\ Stay /\ GoTo("returned")

ReturnedToGroup ==
  /\ Returned("group")
  /\ IF node = Absent THEN Fail("SyntaxError")
     ELSE Stay /\ GoTo("group_end") /\ UNCHANGED <<stack, node, built, values>>

ReturnedToReturn ==
  /\ Returned("return")
  /\ IF node = Absent THEN Fail("SyntaxError")
     ELSE Pop /\ Stay /\ GoTo("return_end") /\ UNCHANGED <<node, built, values>>

(* Mutant: the loop over statements goes on when there is none.            *)
ReturnedToBodyLooping ==
  /\ Returned("body")
  /\ Pop /\ Stay
  /\ GoTo(IF node = Absent /\ ahead.type # "R_CURLY_BRACKET" THEN "body" ELSE "close")
  /\ UNCHANGED <<node, built, values>>

ReturnedToBody ==
  /\ Returned("body")
  /\ Pop /\ Stay /\ GoTo("close")
  /\ UNCHANGED <<node, built, values>>

Ended == at = "ended" /\ UNCHANGED vars

Init ==
  /\ taken = <<>>
  /\ ahead \in Token
  /\ at = "top"
  /\ stack = <<>>
  /\ node = Absent
  /\ built = {}
  /\ values = {}
  /\ outcome = "parsing"

Parse ==
  \/ TopLevel \/ Arguments \/ ReturnType \/ Expect \/ Statement \/ ReturnValue
  \/ Operand \/ Postfix \/ CallEnd \/ GroupEnd
  \/ ReturnedToUnary \/ ReturnedToLevel \/ ReturnedToGroup
  \/ ReturnedToReturn \/ ReturnedToBody

Next == Parse \/ Ended

(* The parser runs until it returns or throws.                             *)
Spec == Init /\ [][Next]_vars /\ WF_vars(Parse)

-----------------------------------------------------------------------------
Places == DOMAIN Expected \cup
  {"top", "args", "arrow", "body", "return_value", "operand", "postfix",
   "call_end", "group_end", "returned", "ended"}

TypeOK ==
  /\ taken \in Seq(Token) /\ ahead \in Token
  /\ at \in Places
  /\ stack \in Seq([rule : {"level", "unary", "group", "return", "body"},
                    level : 0 .. 10, from : Nat, op : Nat])
  /\ node # Absent => 1 <= node.from /\ node.from <= node.to /\ node.to <= Len(taken)
  /\ \A n \in built : n.from <= n.op /\ n.op < n.to /\ n.to <= Len(taken)
  /\ values \subseteq [at : DOMAIN taken, value : 0 .. Word - 1]
  /\ outcome \in {"parsing", "Success", "SyntaxError", "TypeError", "Unimplemented",
                  "UncaughtInternalError"}

(* What follows is about the text alone, as a reader sees it: h is a       *)
(* sequence of types of token, and i a place in it.                        *)
History == [i \in DOMAIN taken |-> taken[i].type]

EndsOperand == {"IDENT", "INT_LITERAL", "KEYWORD_TRUE", "KEYWORD_FALSE", "R_PAREN"}
StartsOperand ==
  UnaryOperator \cup {"IDENT", "INT_LITERAL", "KEYWORD_TRUE", "KEYWORD_FALSE", "L_PAREN"}

BinaryOperator == UNION ToSet(Operators)
Level(type) == CHOOSE k \in 1 .. 10 : type \in Operators[k]

IsBinary(h, i) == i > 1 /\ h[i] \in BinaryOperator /\ h[i - 1] \in EndsOperand
IsUnary(h, i) == h[i] \in UnaryOperator /\ ~IsBinary(h, i)

Count(h, from, to, type) == Cardinality({i \in from .. to : h[i] = type})

(* The depth of i in the parentheses opened from place from on.            *)
Depth(h, from, i) == Count(h, from, i, "L_PAREN") - Count(h, from, i, "R_PAREN")

(* The last place with one of types, or 0.                                 *)
LastOf(h, types) == Max({0} \cup {i \in DOMAIN h : h[i] \in types})

(* The place of the parenthesis that the one at i closes.                  *)
Opening(h, from, i) ==
  CHOOSE k \in from .. i :
    /\ h[k] = "L_PAREN" /\ Depth(h, from, k) = Depth(h, from, i) + 1
    /\ \A j \in k .. i - 1 : Depth(h, from, j) > Depth(h, from, i)

IsCall(h, i) == i > 1 /\ h[i] = "L_PAREN" /\ h[i - 1] \in EndsOperand

(* The operator that is not arithmetic comes at the end of h a second      *)
(* time: the expression there has one of its level already, and none       *)
(* looser since.                                                           *)
Repeats(h, from, type) ==
  /\ type \notin {"PLUS", "MINUS", "ASTERISK", "FORWARD_SLASH", "PERCENT"}
  /\ \E k \in from .. Len(h) :
       /\ IsBinary(h, k) /\ Level(h[k]) = Level(type)
       /\ \A j \in k .. Len(h) : Depth(h, from, j) >= Depth(h, from, Len(h))
       /\ \A j \in k .. Len(h) :
            IsBinary(h, j) /\ Depth(h, from, j) = Depth(h, from, Len(h)) =>
              Level(h[j]) >= Level(type)
       /\ Depth(h, from, k) = Depth(h, from, Len(h))

(* What the grammar, grammar.ebnf, lets follow the text h, and then where  *)
(* the parser departs from it.  Of the alternatives of a rule the grammar  *)
(* counts only with those that the parser has a function for: functions,   *)
(* return statements, an expression at the end of a body, operators, calls *)
(* without arguments, and of the primaries names, literals and expressions *)
(* in parentheses.                                                         *)
StatementStart(h) == LastOf(h, {"L_CURLY_BRACKET", "SEMICOLON", "KEYWORD_RETURN"})

(* Inside a function's braces.                                             *)
LegalInBody(h, type) ==
  LET start == StatementStart(h)
      depth == Depth(h, start, Len(h))
      last  == Last(h)
  IN CASE last \in {"L_CURLY_BRACKET", "SEMICOLON"} ->
            type \in StartsOperand \cup {"KEYWORD_RETURN", "R_CURLY_BRACKET"}
       [] last = "KEYWORD_RETURN" -> type \in StartsOperand \cup {"SEMICOLON"}
       [] last \in EndsOperand ->
            \/ type \in BinaryOperator \cup {"L_PAREN"}
            \/ type = "R_PAREN" /\ depth > 0
            \/ type = "SEMICOLON" /\ depth = 0 /\ h[start] = "KEYWORD_RETURN"
            \/ type = "R_CURLY_BRACKET" /\ depth = 0 /\ h[start] # "KEYWORD_RETURN"
       [] last = "L_PAREN" /\ IsCall(h, Len(h)) -> type = "R_PAREN"
       [] OTHER -> type \in StartsOperand

(* Outside them.  The name of an argument is followed by a colon, which is *)
(* a type of token that the lexer never returns.                           *)
LegalInHead(h, type) ==
  LET last == Last(h) IN
  CASE last = "KEYWORD_FN"  -> type = "IDENT"
    [] last = "THIN_ARROW"  -> type = "IDENT"
    [] last = "L_PAREN"     -> type \in {"IDENT", "R_PAREN"}
    [] last = "R_PAREN"     -> type \in {"THIN_ARROW", "L_CURLY_BRACKET"}
    [] last = "IDENT" /\ h[Len(h) - 1] = "KEYWORD_FN" -> type = "L_PAREN"
    [] last = "IDENT" /\ h[Len(h) - 1] = "THIN_ARROW" -> type = "L_CURLY_BRACKET"
    [] last = "IDENT" /\ h[Len(h) - 1] = "L_PAREN" -> type = "COLON"
    [] OTHER -> FALSE

EndsInHead(h) == LastOf(h, {"KEYWORD_FN"}) > LastOf(h, {"L_CURLY_BRACKET"})

Legal(h, type) ==
  CASE h = <<>> \/ LastOf(h, {"R_CURLY_BRACKET"}) = Len(h) ->
            type \in {"KEYWORD_FN", "END_OF_FILE"}
    [] h # <<>> /\ EndsInHead(h) -> LegalInHead(h, type)
    [] OTHER -> LegalInBody(h, type)

(* First departure: a list of arguments need not be closed.                *)
UnclosedHead(h, type) ==
  /\ type \in {"THIN_ARROW", "L_CURLY_BRACKET"}
  /\ EndsInHead(h) /\ Last(h) = "L_PAREN"

(* Second: what a call returns is not called.                              *)
SecondCall(h, type) ==
  /\ type = "L_PAREN"
  /\ Last(h) = "R_PAREN" /\ IsCall(h, Opening(h, StatementStart(h), Len(h)))

(* Third: only arithmetic operators are repeated.                          *)
SecondOperator(h, type) ==
  /\ type \in BinaryOperator
  /\ Last(h) \in EndsOperand /\ Repeats(h, StatementStart(h), type)

Takes(h, type) ==
  \/ Legal(h, type) /\ ~SecondCall(h, type) /\ ~SecondOperator(h, type)
  \/ UnclosedHead(h, type)

(* The parser follows the grammar with exactly these three departures:     *)
(* every token it took was one to take where it stood, and an error is     *)
(* raised at the first token that is not.  It has another code if that     *)
(* token is a boolean, which cannot be named.                              *)
ErrorsAtFirstIllegal ==
  /\ taken # <<>> => Takes(Front(History), Last(History))
  /\ outcome \in {"SyntaxError", "Unimplemented"} => ~Takes(History, ahead.type)
  /\ outcome = "Unimplemented" => ahead.type \notin Nameable

(* The grammar without the departures.  What is taken is in it: refuted by *)
(* a list of arguments that is left open.                                  *)
TakesOnlyLegal == taken # <<>> => Legal(Front(History), Last(History))

(* Every binary operator can be repeated; the notes exempt equality and    *)
(* comparison.  Refuted by the second of two other operators of a level.   *)
OperatorsChain ==
  outcome = "SyntaxError" /\ ahead.type \in BinaryOperator \ (Operators[3] \cup Operators[4]) =>
    ~Legal(History, ahead.type)

(* A call is a postfix operator, of which there can be several.  Refuted   *)
(* by the second of two.                                                   *)
CallsChain ==
  outcome = "SyntaxError" /\ ahead.type = "L_PAREN" => ~Legal(History, ahead.type)

(* An expression is split at its loosest operator, and at the last of them *)
(* where there are several; operators in parentheses do not count, and a   *)
(* unary operator only if there is no binary one.                          *)
SplitsAt(h, n, k) ==
  LET outside(i) == Depth(h, n.from, i) = 0
      binary == {i \in n.from .. n.to : outside(i) /\ IsBinary(h, i) /\ i > n.from}
  IN IF binary = {} THEN k = n.from
     ELSE /\ k \in binary
          /\ \A i \in binary : /\ Level(h[k]) <= Level(h[i])
                               /\ Level(h[k]) = Level(h[i]) => i <= k

(* Precedence and associativity: every node has the operator that splits   *)
(* its text, and once a body is parsed every operator has one node.        *)
TreeFollowsPrecedence ==
  /\ \A n \in built : SplitsAt(History, n, n.op)
  /\ at \in {"close", "top"} =>
       /\ \A i \in DOMAIN taken :
            (IsBinary(History, i) \/ IsUnary(History, i)) => \E n \in built : n.op = i
       /\ \A m, n \in built :
            \/ m = n
            \/ m.to < n.from \/ n.to < m.from
            \/ m.op # n.op /\ n.from <= m.from /\ m.to <= n.to
            \/ m.op # n.op /\ m.from <= n.from /\ n.to <= m.to

(* A literal that is accepted has the value it is written with, unless it  *)
(* has digits its base does not have or is too great for a word.  What is  *)
(* lost then is lost silently.                                             *)
LiteralsKeepValue ==
  \A v \in values :
    LET l == taken[v.at]
        number == Number(l.digits, l.base)
    IN (\A i \in DOMAIN l.digits : l.digits[i] < l.base) /\ number < Word =>
         v.value = number

(* Every loop of the parser takes a token or ends.                         *)
ParseEnds == <>(at = "ended")
=============================================================================
