----------------------------- MODULE Semantics -----------------------------
(***************************************************************************)
(* The walks over a parsed program: functions are declared, symbols are    *)
(* resolved, types are checked, and the IR is emitted.                     *)
(*                                                                         *)
(* An expression is the sequence of its nodes in post-order, the order in  *)
(* which resolve_type finishes with them, and <<>> is an expression that   *)
(* is not there.  The only statements are returns, so the body of a        *)
(* function is a sequence of expressions.  Functions have no arguments:    *)
(* none can be parsed.                                                     *)
(***************************************************************************)
EXTENDS IrTypes, FiniteSets, SequencesExt

CONSTANT Programs   \* the programs that may have been parsed

(* What a type annotation can name (FrontendType::from_string), another    *)
(* name being the type "unknown".                                          *)
Annotation == IrType \cup {"void", "unknown"}

(* The type of a function is named for what the function returns.          *)
function(type) ==
  [bool |-> "fn bool", u8 |-> "fn u8", u16 |-> "fn u16", u32 |-> "fn u32", i8 |-> "fn i8",
   i16 |-> "fn i16", i32 |-> "fn i32", void |-> "fn void", unknown |-> "fn unknown"][type]

FrontendType == Annotation \cup {function(t) : t \in Annotation} \cup {"unresolved"}

is_function(type) == type \in {function(t) : t \in Annotation}

return_type(type) == CHOOSE t \in Annotation : function(t) = type

LogicalOp == {"LogicalOr", "LogicalAnd"}

Node ==
  [kind : {"literal"}, is : IrType] \cup [kind : {"identifier"}, is : STRING]
  \cup [kind : {"binary"}, is : BinaryOp \cup LogicalOp]
  \cup [kind : {"unary"}, is : UnaryOp] \cup {[kind |-> "call", is |-> ""]}

FunctionNode ==
  [name : STRING, returns : Annotation, body : Seq(Seq(Node)), last : Seq(Node)]

(* How many operands wait for an operator after the first i nodes, and how *)
(* many the operator takes: in a post-order there are always enough, and   *)
(* in the end one is left.                                                 *)
Leaf == {"literal", "identifier"}

Depth(e, i) ==
  Cardinality({j \in 1 .. i : e[j].kind \in Leaf})
    - Cardinality({j \in 1 .. i : e[j].kind = "binary"})

Operands(node) ==
  IF node.kind \in Leaf THEN 0 ELSE IF node.kind = "binary" THEN 2 ELSE 1

PostOrder(e) ==
  /\ \A i \in DOMAIN e : Operands(e[i]) <= Depth(e, i - 1)
  /\ e # <<>> => Depth(e, Len(e)) = 1

ASSUME ProgramsAssumption ==
  \A p \in Programs :
    /\ p \in Seq(FunctionNode) /\ p # <<>>
    /\ \A f \in DOMAIN p : \A s \in DOMAIN p[f].body : PostOrder(p[f].body[s])
    /\ \A f \in DOMAIN p : PostOrder(p[f].last)

VARIABLES
  program,   \* AST::tlds
  pass,      \* "declare", "resolve", "check", "emit" or "over"
  fn, stmt, pos,   \* where the pass is: function, statement, node
  symbols,   \* the global symbol table: name to type
  bound,     \* the identifiers whose `symbol' was set
  typed,     \* ExpressionNode::type, where resolve_type has set it
  types,     \* types of the operands of the expression being checked
  outcome    \* "none", "Success" or the error thrown

walk == <<fn, stmt, pos>>
vars == <<program, pass, fn, stmt, pos, symbols, bound, typed, types, outcome>>

Function == program[fn]
Body == Function.body

(* All expressions of a function, the one that ends its body last, and the *)
(* nodes of an expression: <<function, statement, place>>.                 *)
Exprs(f) == Append(program[f].body, program[f].last)
Nodes(f, s) == {<<f, s, i>> : i \in DOMAIN Exprs(f)[s]}
Kind(n) == Exprs(n[1])[n[2]][n[3]].kind
Is(n) == Exprs(n[1])[n[2]][n[3]].is

(* The type a node has before its type is resolved: a literal's is known   *)
(* from the start.                                                         *)
TypeOf(n) ==
  CASE n \in DOMAIN typed -> typed[n]
    [] n \notin DOMAIN typed /\ Kind(n) = "literal" -> Is(n)
    [] OTHER -> "unresolved"

Extended(f, x, y) == [z \in DOMAIN f \cup {x} |-> IF z = x THEN y ELSE f[z]]

Fail(error) ==
  /\ outcome' = error
  /\ pass' = "over"
  /\ UNCHANGED <<program, walk, symbols, bound, typed, types>>

(* Mutant: the place in the function is not reset.                         *)
NextFunctionKeepingStatement(next) ==
  /\ IF fn < Len(program)
     THEN fn' = fn + 1 /\ UNCHANGED <<pass, outcome>>
     ELSE fn' = 1 /\ pass' = next /\ outcome' = IF next = "over" THEN "Success" ELSE outcome
  /\ UNCHANGED <<stmt, pos>>

(* On to the next function, or to the pass after this one.                 *)
NextFunction(next) ==
  /\ IF fn < Len(program)
     THEN fn' = fn + 1 /\ UNCHANGED <<pass, outcome>>
     ELSE /\ fn' = 1
          /\ pass' = next
          /\ outcome' = IF next = "over" THEN "Success" ELSE outcome
  /\ stmt' = 1
  /\ pos' = 1

-----------------------------------------------------------------------------
(* Top level hoisting; SymbolScope::add.                                   *)
Declare ==
  /\ pass = "declare"
  /\ IF Function.name \in DOMAIN symbols
     THEN Fail("NameError")
     ELSE /\ symbols' = Extended(symbols, Function.name, function(Function.returns))
          /\ NextFunction("resolve")
          /\ UNCHANGED <<program, bound, typed, types>>

(* Mutant: FunctionCall::resolve_symbols forgets the callee.               *)
IdentifiersNotCalled(f) ==
  {n \in UNION {Nodes(f, s) : s \in DOMAIN program[f].body} :
     Kind(n) = "identifier" /\ ~\E m \in Nodes(f, n[2]) : m[3] = n[3] + 1 /\ Kind(m) = "call"}

(* resolve_symbols visits the statements of a function, not the expression *)
(* that ends its body.                                                     *)
Identifiers(f) ==
  {n \in UNION {Nodes(f, s) : s \in DOMAIN program[f].body} : Kind(n) = "identifier"}

ResolveSymbols ==
  /\ pass = "resolve"
  /\ IF \E n \in Identifiers(fn) : Is(n) \notin DOMAIN symbols
     THEN Fail("NameError")
     ELSE /\ bound' = bound \cup Identifiers(fn)
          /\ NextFunction("check")
          /\ UNCHANGED <<program, symbols, typed, types>>

-----------------------------------------------------------------------------
(* The types that to_string can name.  A type error that mentions another  *)
(* one becomes an internal error while its message is put together.        *)
Printable == FrontendType \ {"unresolved", "unknown", function("unknown")}

TypeErrorOn(mentioned) ==
  Fail(IF mentioned \subseteq Printable THEN "TypeError" ELSE "InternalError")

(* The types that the type error of a binary expression mentions.          *)
BinaryMentions(op, l_type, r_type) ==
  CASE op \notin CompareOp /\ ~is_integer(l_type) -> {l_type}
    [] op \in ShiftOp /\ is_integer(l_type) -> {r_type}
    [] op \notin CompareOp \cup ShiftOp /\ is_integer(l_type) /\ ~is_integer(r_type) -> {r_type}
    [] OTHER -> {l_type, r_type}

CheckedNode == <<fn, stmt, pos>>

Typed(type, operands) ==
  /\ typed' = Extended(typed, CheckedNode, type)
  /\ types' = Append(SubSeq(types, 1, Len(types) - operands), type)
  /\ pos' = pos + 1
  /\ UNCHANGED <<program, pass, fn, stmt, symbols, bound, outcome>>

Checking(kind) ==
  /\ pass = "check"
  /\ stmt <= Len(Body) /\ pos <= Len(Body[stmt])
  /\ Kind(CheckedNode) = kind

Top == types[Len(types)]
Second == types[Len(types) - 1]

CheckLiteral == Checking("literal") /\ Typed(TypeOf(CheckedNode), 0)

(* Reads through `symbol', which is a null pointer until it is bound.      *)
CheckIdentifier ==
  /\ Checking("identifier")
  /\ Typed(symbols[Is(CheckedNode)], 0)

CheckBinary ==
  /\ Checking("binary")
  /\ LET op == Is(CheckedNode) IN
     \/ op \in LogicalOp /\ Fail("Unimplemented")
     \/ /\ op \notin LogicalOp /\ BinaryAccepts(op, Second, Top)
        /\ Typed(BinaryType(op, Second), 2)
     \/ /\ op \notin LogicalOp /\ ~BinaryAccepts(op, Second, Top)
        /\ TypeErrorOn(BinaryMentions(op, Second, Top))

(* Mutant: an operator that was accepted makes a boolean.                  *)
CheckUnaryBool ==
  /\ Checking("unary")
  /\ IF UnaryAccepts(Is(CheckedNode), Top) THEN Typed("bool", 1) ELSE TypeErrorOn({Top})

CheckUnary ==
  /\ Checking("unary")
  /\ IF UnaryAccepts(Is(CheckedNode), Top) THEN Typed(Top, 1) ELSE TypeErrorOn({Top})

CheckCall ==
  /\ Checking("call")
  /\ IF is_function(Top) THEN Typed(return_type(Top), 1) ELSE TypeErrorOn({Top})

(* Mutant: the first return decides.                                       *)
CheckReturnFirst ==
  /\ pass = "check"
  /\ stmt <= Len(Body) /\ pos = Len(Body[stmt]) + 1
  /\ LET type == IF types = <<>> THEN "void" ELSE Top IN
     IF type # Function.returns /\ stmt = 1
     THEN TypeErrorOn({Function.returns, type})
     ELSE /\ stmt' = stmt + 1
          /\ pos' = 1
          /\ types' = <<>>
          /\ UNCHANGED <<program, pass, fn, symbols, bound, typed, outcome>>

(* The end of ReturnStatement::check_semantics.                            *)
CheckReturn ==
  /\ pass = "check"
  /\ stmt <= Len(Body) /\ pos = Len(Body[stmt]) + 1
  /\ LET type == IF types = <<>> THEN "void" ELSE Top IN
     IF type # Function.returns
     THEN TypeErrorOn({Function.returns, type})
     ELSE /\ stmt' = stmt + 1
          /\ pos' = 1
          /\ types' = <<>>
          /\ UNCHANGED <<program, pass, fn, symbols, bound, typed, outcome>>

(* The expression that ends a body: check_semantics of an expression does  *)
(* nothing, so the type compared is one nobody has resolved.               *)
CheckLast ==
  /\ pass = "check"
  /\ stmt = Len(Body) + 1
  /\ LET type == TypeOf(<<fn, stmt, Len(Function.last)>>) IN
     IF Function.last # <<>> /\ type # Function.returns
     THEN TypeErrorOn({Function.returns, type})
     ELSE NextFunction("emit") /\ UNCHANGED <<program, symbols, bound, typed, types>>

-----------------------------------------------------------------------------
(* The node of an expression where the subexpression that ends at i begins:*)
(* as far back as the operands are no fewer than after i.                  *)
Starts(e) ==
  [i \in DOMAIN e |-> Min({k \in 1 .. i : \A j \in k .. i : Depth(e, i) <= Depth(e, j)})]

(* FrontendType::resolveType has an IR type for these only.                *)
Resolvable == IrType

(* What emit_ir of a node throws before it goes to the operands.           *)
EmitError(n) ==
  CASE Kind(n) \in {"identifier", "call"} -> "Unimplemented"
    [] Kind(n) = "binary" /\ Is(n) \in LogicalOp -> "Unimplemented"
    [] Kind(n) \in {"literal", "unary", "binary"}
         /\ Is(n) \notin LogicalOp /\ TypeOf(n) \notin Resolvable -> "InternalError"
    [] OTHER -> "none"

(* emit_ir goes from the root to the leaves, left before right, and throws *)
(* at the first node that has an error.                                    *)
FirstError(f, s) ==
  LET start == Starts(Exprs(f)[s])
      wrong == {n \in Nodes(f, s) : EmitError(n) # "none"}
      first == CHOOSE n \in wrong : \A m \in wrong :
                 \/ start[n[3]] < start[m[3]]
                 \/ start[n[3]] = start[m[3]] /\ n[3] >= m[3]
  IN IF wrong = {} THEN "none" ELSE EmitError(first)

(* ReturnStatement::emit_ir, and the implicit return.                      *)
Emit ==
  /\ pass = "emit"
  /\ IF FirstError(fn, stmt) # "none"
     THEN Fail(FirstError(fn, stmt))
     ELSE /\ IF stmt <= Len(Body)
             THEN stmt' = stmt + 1 /\ UNCHANGED <<pass, fn, pos, outcome>>
             ELSE NextFunction("over")
          /\ UNCHANGED <<program, symbols, bound, typed, types>>

Over == pass = "over" /\ UNCHANGED vars

Init ==
  /\ program \in Programs
  /\ pass = "declare"
  /\ fn = 1 /\ stmt = 1 /\ pos = 1
  /\ symbols = [name \in {} |-> "void"]
  /\ bound = {}
  /\ typed = [n \in {} |-> "void"]
  /\ types = <<>>
  /\ outcome = "none"

Check ==
  \/ CheckLiteral \/ CheckIdentifier \/ CheckBinary \/ CheckUnary \/ CheckCall
  \/ CheckReturn \/ CheckLast

Next == Declare \/ ResolveSymbols \/ Check \/ Emit \/ Over

Spec == Init /\ [][Next]_vars

-----------------------------------------------------------------------------
TypeOK ==
  /\ pass \in {"declare", "resolve", "check", "emit", "over"}
  /\ fn \in DOMAIN program /\ stmt \in 1 .. Len(Body) + 1 /\ pos \in Nat
  /\ DOMAIN symbols \subseteq {f.name : f \in Range(program)}
  /\ Range(symbols) \subseteq {function(t) : t \in Annotation}
  /\ \A n \in bound \cup DOMAIN typed : n[1] \in DOMAIN program /\ n \in Nodes(n[1], n[2])
  /\ Range(typed) \subseteq FrontendType
  /\ types \in Seq(FrontendType)
  /\ outcome \in {"none", "Success", "NameError", "TypeError", "Unimplemented", "InternalError"}

(* The type of a node whose operands have types l and r, the right one     *)
(* being the only one of a unary expression or a call.  No type at all is  *)
(* "none".                                                                 *)
TypeOver(node, l, r, names) ==
  CASE node.kind = "literal" -> node.is
    [] node.kind = "identifier" -> IF node.is \in DOMAIN names THEN names[node.is] ELSE "none"
    [] node.kind = "unary" -> IF UnaryAccepts(node.is, r) THEN r ELSE "none"
    [] node.kind = "call" -> IF is_function(r) THEN return_type(r) ELSE "none"
    [] node.kind = "binary" ->
         IF node.is \in BinaryOp /\ "none" \notin {l, r} /\ BinaryAccepts(node.is, l, r)
         THEN BinaryType(node.is, l) ELSE "none"

(* The types of the nodes of an expression by its structure, given the     *)
(* types of the names.                                                     *)
TypesIn(e, names) ==
  LET start == Starts(e)
      type[i \in DOMAIN e] == TypeOver(e[i], type[start[i - 1] - 1], type[i - 1], names)
  IN type

(* The type of an expression is that of its root.                          *)
TypeIn(e, names) == IF e = <<>> THEN "void" ELSE TypesIn(e, names)[Len(e)]

(* What the functions of a program declare, if no name is declared twice.  *)
Globals ==
  [name \in {f.name : f \in Range(program)} |->
     function((CHOOSE f \in Range(program) : f.name = name).returns)]

Distinct == \A i, j \in DOMAIN program : program[i].name = program[j].name => i = j

NamesDefined ==
  \A f \in Range(program) : \A e \in Range(f.body) : \A i \in DOMAIN e :
    e[i].kind = "identifier" => e[i].is \in DOMAIN Globals

ReturnsTyped ==
  \A f \in Range(program) :
    /\ \A s \in DOMAIN f.body : TypeIn(f.body[s], Globals) = f.returns
    /\ f.last # <<>> => TypeIn(f.last, Globals) = f.returns

Uses(kinds, ops) ==
  \E f \in Range(program) : \E e \in Range(f.body) : \E i \in DOMAIN e :
    e[i].kind \in kinds \/ e[i].is \in ops

(* The exit code tells what is wrong with the program: it is emitted only  *)
(* if it is well typed, and rejected only if it is not, with names that    *)
(* are missing or declared twice reported before any type, though they may *)
(* be in a later function. Internal errors, which a program should never   *)
(* cause, come only from a return type that is no type, and from a body    *)
(* that ends in anything but a literal.                                    *)
OutcomeIsRight ==
  /\ outcome = "Success" => Distinct /\ NamesDefined /\ ReturnsTyped
  /\ outcome = "NameError" => ~(Distinct /\ NamesDefined)
  /\ outcome = "TypeError" => Distinct /\ NamesDefined /\ ~ReturnsTyped
  /\ outcome = "Unimplemented" =>
        Distinct /\ NamesDefined /\ Uses({"identifier", "call"}, LogicalOp)
  /\ outcome = "InternalError" =>
        \E f \in Range(program) : f.returns = "unknown" \/ Len(f.last) > 1
          \/ \E i \in DOMAIN f.last : f.last[i].kind = "identifier"

(* No identifier is followed to its symbol before there is one.            *)
SymbolsBound ==
  pass = "check" =>
    \A n \in DOMAIN typed \cup (IF Checking("identifier") THEN {CheckedNode} ELSE {}) :
      Kind(n) = "identifier" => n \in bound

(* What the checks let through is what the IR writer assumes: where an     *)
(* expression can be emitted, the registers of its operands have the types *)
(* that its operators accept, and all returns of a function return one     *)
(* type.                                                                   *)
WriterAssumptionsHold ==
  pass = "emit" /\ FirstError(fn, stmt) = "none" /\ Exprs(fn)[stmt] # <<>> =>
    LET e == Exprs(fn)[stmt]
        start == Starts(e)
        type(i) == TypeOf(<<fn, stmt, i>>)
    IN /\ \A i \in DOMAIN e :
             /\ e[i].kind = "binary" =>
                   /\ BinaryAccepts(e[i].is, type(start[i - 1] - 1), type(i - 1))
                   /\ type(i) = BinaryType(e[i].is, type(start[i - 1] - 1))
             /\ e[i].kind = "unary" => UnaryAccepts(e[i].is, type(i - 1)) /\ type(i) = type(i - 1)
       /\ type(Len(e)) = Function.returns
=============================================================================
